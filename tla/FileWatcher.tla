---------------------------- MODULE FileWatcher ----------------------------
(***************************************************************************)
(* FLFileWatcher: how the changes that other programs make to the files of  *)
(* a window reach that window, while the GUI thread is also busy creating,  *)
(* updating and closing windows.                                            *)
(*                                                                         *)
(* A handler that compiles takes long enough for the disk to change under   *)
(* it, so it is two steps; any other handler is one.  Signals of Qt wait    *)
(* until the GUI thread is free.                                            *)
(*                                                                         *)
(* QFileSystemWatcher (external) watches a file until it is unlinked, even  *)
(* if another file has taken its name since.  The model is kind to the code *)
(* in one respect: the signal of a folder comes before that of a file       *)
(* removed from it, so that dirChanged still finds the file in files().     *)
(*                                                                         *)
(* The lists of fMap are sets here.  A window is twice in one only for a   *)
(* sound file made its source, which start_stop_watcher adds once more     *)
(* each time it is called: it is then called twice at a change, and        *)
(* stopping removes it as often as starting added it, as long as the       *)
(* dependencies in its SHA folder stay.                                    *)
(***************************************************************************)
EXTENDS Naturals, FiniteSets

CONSTANTS
  Windows, Files, Dirs,
  DirOf,        \* the folder of a file
  Imports,      \* what a Faust file imports: its dependencies
  None,         \* no window, no path
  Copy,         \* the copy of a program that the SHA folder of a window holds
  MaxEdits,     \* bound: how often other programs touch the disk
  Patient,      \* do they leave time between two changes
  Replacing,    \* do they save a file by replacing it
  Deleting,     \* do they delete and create files
  Renaming      \* do they rename files

ASSUME FileWatcherAssumption ==
  /\ DirOf \in [Files -> Dirs] /\ Imports \in [Files -> SUBSET Files]
  /\ {None, Copy} \cap Files = {} /\ None \notin Windows /\ None # Copy
  /\ MaxEdits \in Nat /\ {Patient, Replacing, Deleting, Renaming} \subseteq BOOLEAN

VARIABLES
  exists,            \* the files on the disk
  edits,             \* how many times the disk was touched
  files, dirs,       \* what QFileSystemWatcher watches
  unlinked,          \* watched files whose inode is gone
  changed, moved,    \* its signals on the way: fileChanged(f), directoryChanged(d)
  fMap,              \* the windows that each file concerns
  fDirToChildren,    \* the last listing of each folder
  fSourceToChanged,  \* the file that the timer is for
  active,            \* is the timer running
  open,              \* the windows
  fSource,           \* FLWindow::fSource: a file, or the copy
  path, deps,        \* the Path setting and the dependencies in the SHA folder
  gui,               \* what the GUI thread does with the window `win`
  win, wanted,
  queue,             \* the windows that a loop of the watcher has still to call
  renaming,          \* what dirChanged found, when that loop is its own
  stale              \* ghost: <<w, f>> if f changed since w was last told to update

disk == <<exists, edits, unlinked, changed, moved>>
watcher == <<files, dirs, fDirToChildren>>
timer == <<fSourceToChanged, active>>
settings == <<fSource, path, deps>>
control == <<gui, win, wanted>>
loop == <<queue, renaming>>
vars == <<disk, watcher, timer, fMap, open, settings, control, loop, stale>>

NoLoop == [old |-> None, new |-> None, dir |-> None, children |-> {}]

Init ==
  /\ exists \in SUBSET Files /\ edits = 0
  /\ files = {} /\ dirs = {} /\ unlinked = {} /\ changed = {} /\ moved = {}
  /\ fMap = [f \in Files |-> {}]
  /\ fDirToChildren = [d \in Dirs |-> {}]
  /\ fSourceToChanged = None /\ active = FALSE
  /\ open = {}
  /\ fSource = [w \in Windows |-> None] /\ path = [w \in Windows |-> None]
  /\ deps = [w \in Windows |-> {}]
  /\ gui = "idle" /\ win = None /\ wanted = None
  /\ queue = {} /\ renaming = NoLoop
  /\ stale = {}

-----------------------------------------------------------------------------
(* Helpers. *)

Free == gui = "idle" /\ queue = {} /\ renaming = NoLoop

Listing(d) == {f \in exists : DirOf[f] = d}

\* The files start_stop_watcher speaks of.
Uses(w) == deps[w] \cup ({path[w]} \ {None})

\* The files the compiler reads.
Reads(w, s) == IF s = Copy THEN deps[w] ELSE {s} \cup Imports[s]

StopWatching(w) ==
  fMap' = [f \in Files |-> IF f \in Uses(w) THEN fMap[f] \ {w} ELSE fMap[f]]

\* The paths that are gone cannot be added to QFileSystemWatcher; their folders can.
StartWatching(w, uses) ==
  /\ fMap' = [f \in Files |-> IF f \in uses THEN fMap[f] \cup {w} ELSE fMap[f]]
  /\ files' = files \cup (uses \cap exists)
  /\ dirs' = dirs \cup {DirOf[f] : f \in uses}
  /\ fDirToChildren' = [d \in Dirs |-> IF \E f \in uses : DirOf[f] = d THEN Listing(d)
                                                                     ELSE fDirToChildren[d]]

\* The beginning of a creation or of an update: the source is compiled.
Compile(w, s) ==
  /\ win' = w /\ wanted' = s
  /\ \/ gui' = "compiled" /\ Reads(w, s) \subseteq exists
     \/ gui' = "failed"

\* update_Window, up to the compilation.
UpdateWindow(w, s) ==
  /\ StopWatching(w)
  /\ Compile(w, s)
  /\ UNCHANGED <<disk, watcher, timer, open, settings>>

-----------------------------------------------------------------------------
(* Variants of the definitions below, each with a bug. *)

FileChangedOnce(f) ==
  /\ Free /\ f \in changed
  /\ f \in unlinked => DirOf[f] \notin moved
  /\ changed' = changed \ {f} /\ unlinked' = unlinked \ {f}
  /\ files' = files \ ({f} \cap unlinked)
  /\ IF f \in exists /\ fSourceToChanged # f
     THEN fSourceToChanged' = f /\ active' = TRUE
     ELSE active' = FALSE /\ UNCHANGED fSourceToChanged
  /\ UNCHANGED <<exists, edits, moved, dirs, fDirToChildren, fMap, open, settings, control,
                 loop, stale>>

EndFailedUpdateUnwatched ==
  /\ gui = "failed"
  /\ open' = IF fSource[win] = None THEN open \ {win} ELSE open
  /\ gui' = "idle" /\ win' = None /\ wanted' = None
  /\ UNCHANGED <<disk, watcher, timer, fMap, settings, loop, stale>>

CloseWindowSourceOnly(w) ==
  /\ Free \/ gui # "idle"
  /\ w \in open /\ w # win
  /\ fMap' = [f \in Files |-> IF f = path[w] THEN fMap[f] \ {w} ELSE fMap[f]]
  /\ open' = open \ {w}
  /\ fSource' = [fSource EXCEPT ![w] = None] /\ path' = [path EXCEPT ![w] = None]
  /\ deps' = [deps EXCEPT ![w] = {}]
  /\ stale' = {p \in stale : p[1] # w}
  /\ UNCHANGED <<disk, watcher, timer, control, loop>>

-----------------------------------------------------------------------------
(* Windows. *)

\* init_Window of a new window.
NewWindow(w, s) ==
  /\ Free /\ w \notin open /\ s \in exists
  /\ \A f \in Files : w \notin fMap[f]
  /\ open' = open \cup {w}
  /\ Compile(w, s)
  /\ UNCHANGED <<disk, watcher, timer, fMap, settings, loop, stale>>

\* A file is dropped on the window.
Drop(w, s) ==
  /\ Free /\ w \in open /\ s \in exists
  /\ UpdateWindow(w, s)
  /\ UNCHANGED <<loop, stale>>

\* The end of a creation or of an update.  The settings are those of the new source
\* unless the compilation failed; fSource is unless the fade failed too.
EndUpdate ==
  /\ gui = "compiled"
  /\ LET uses == Reads(win, wanted) IN
     /\ path' = [path EXCEPT ![win] = IF wanted = Copy THEN None ELSE wanted]
     /\ deps' = [deps EXCEPT ![win] = uses \ {wanted}]
     /\ StartWatching(win, uses)
     /\ stale' = {p \in stale : p[1] # win \/ p[2] \in uses}
  /\ \/ fSource' = [fSource EXCEPT ![win] = wanted]
     \/ fSource[win] # None /\ UNCHANGED fSource
  /\ gui' = "idle" /\ win' = None /\ wanted' = None
  /\ UNCHANGED <<disk, timer, open, loop>>

\* The compilation failed: the window is as it was, a new one is discarded.
EndFailedUpdate ==
  /\ gui = "failed"
  /\ open' = IF fSource[win] = None THEN open \ {win} ELSE open
  /\ StartWatching(win, Uses(win))
  /\ gui' = "idle" /\ win' = None /\ wanted' = None
  /\ UNCHANGED <<disk, timer, settings, loop, stale>>

\* closeWindow.  It may also come, through an audio error, while another window updates.
CloseWindow(w) ==
  /\ Free \/ gui # "idle"
  /\ w \in open /\ w # win
  /\ StopWatching(w)
  /\ open' = open \ {w}
  /\ fSource' = [fSource EXCEPT ![w] = None] /\ path' = [path EXCEPT ![w] = None]
  /\ deps' = [deps EXCEPT ![w] = {}]
  /\ stale' = {p \in stale : p[1] # w}
  /\ UNCHANGED <<disk, watcher, timer, control, loop>>

-----------------------------------------------------------------------------
(* The slots of FLFileWatcher. *)

\* reset_Timer, at the signal fileChanged of Qt.
FileChanged(f) ==
  /\ Free /\ f \in changed
  /\ f \in unlinked => DirOf[f] \notin moved
  /\ changed' = changed \ {f} /\ unlinked' = unlinked \ {f}
  /\ files' = files \ ({f} \cap unlinked)
  /\ IF f \in exists THEN fSourceToChanged' = f /\ active' = TRUE
                     ELSE active' = FALSE /\ UNCHANGED fSourceToChanged
  /\ UNCHANGED <<exists, edits, moved, dirs, fDirToChildren, fMap, open, settings, control,
                 loop, stale>>

\* fileChanged, 2 seconds later: the list of windows is read now.
TimerFires ==
  /\ Free /\ active
  /\ active' = FALSE
  /\ queue' = fMap[fSourceToChanged]
  /\ UNCHANGED <<disk, watcher, fSourceToChanged, fMap, open, settings, control, renaming, stale>>

\* The loop of fileChanged: selfUpdate of a window that still watches the file.  (Calling a
\* window that was closed is undefined, here and in CallNextRenamed: it does nothing.)
CallNext ==
  /\ gui = "idle" /\ renaming = NoLoop
  /\ \E w \in queue :
       /\ queue' = queue \ {w}
       /\ \/ /\ w \in fMap[fSourceToChanged] \cap open
             /\ UpdateWindow(w, fSource[w])
             /\ stale' = {p \in stale : p[1] # w}
          \/ /\ w \notin fMap[fSourceToChanged] \cap open
             /\ UNCHANGED <<disk, watcher, timer, fMap, open, settings, control, stale>>
  /\ UNCHANGED renaming

\* dirChanged: a watched file that is missing was renamed as the file that is new in this
\* folder, if no file was lost; it was deleted otherwise.
DirChanged(d) ==
  /\ Free /\ d \in moved
  /\ moved' = moved \ {d}
  /\ LET new == Listing(d)
         old == fDirToChildren[d]
         missing == {f \in files : f \notin exists}
         added == IF Cardinality(old) = Cardinality(new) THEN new \ old ELSE {}
         Forget == fDirToChildren' = [fDirToChildren EXCEPT ![d] = new]
     IN
     \/ /\ Cardinality(old) < Cardinality(new) \/ missing = {}
        /\ Forget
        /\ UNCHANGED <<settings, loop>>
     \/ /\ Cardinality(old) >= Cardinality(new) /\ added = {}
        /\ \E f \in missing :       \* source_Deleted
             /\ fSource' = [w \in Windows |-> IF w \in fMap[f] \cap open THEN Copy ELSE fSource[w]]
             /\ path' = [w \in Windows |-> IF w \in fMap[f] \cap open THEN None ELSE path[w]]
        /\ Forget
        /\ UNCHANGED <<deps, loop>>
     \/ \E f \in missing, g \in added :
          /\ queue' = fMap[f]
          /\ renaming' = [old |-> f, new |-> g, dir |-> d, children |-> new]
          /\ UNCHANGED <<fDirToChildren, settings>>
  /\ UNCHANGED <<exists, edits, unlinked, changed, files, dirs, timer, fMap, open, control, stale>>

\* The loop of dirChanged: selfNameUpdate of a window.
CallNextRenamed ==
  /\ gui = "idle" /\ renaming # NoLoop
  /\ \E w \in queue :
       /\ queue' = queue \ {w}
       /\ \/ /\ w \in open /\ fSource[w] = renaming.old
             /\ UpdateWindow(w, renaming.new)
          \/ /\ ~(w \in open /\ fSource[w] = renaming.old)
             /\ UNCHANGED <<disk, watcher, timer, fMap, open, settings, control>>
  /\ UNCHANGED <<renaming, stale>>

EndRenaming ==
  /\ gui = "idle" /\ queue = {} /\ renaming # NoLoop
  /\ fDirToChildren' = [fDirToChildren EXCEPT ![renaming.dir] = renaming.children]
  /\ renaming' = NoLoop
  /\ UNCHANGED <<disk, files, dirs, timer, fMap, open, settings, control, queue, stale>>

-----------------------------------------------------------------------------
(* What other programs do to the disk, and what Qt sees of it. *)

MayTouch ==
  /\ edits < MaxEdits
  /\ edits' = edits + 1
  /\ Patient => changed = {} /\ moved = {} /\ ~active
  /\ UNCHANGED <<watcher, timer, fMap, open, settings, control, loop>>

Signals(fs) == changed' = changed \cup ((fs \cap files) \ unlinked)
FolderSignal(f) == moved' = moved \cup ({DirOf[f]} \cap dirs)
NewContent(f) == stale' = stale \cup {<<w, f>> : w \in {v \in open : f \in Uses(v)}}

Write(f) ==
  /\ MayTouch /\ f \in exists
  /\ Signals({f}) /\ NewContent(f)
  /\ UNCHANGED <<exists, moved, unlinked>>

Replace(f) ==
  /\ MayTouch /\ Replacing /\ f \in exists
  /\ Signals({f}) /\ FolderSignal(f) /\ NewContent(f)
  /\ unlinked' = unlinked \cup ({f} \cap files)
  /\ UNCHANGED exists

Delete(f) ==
  /\ MayTouch /\ Deleting /\ f \in exists
  /\ exists' = exists \ {f}
  /\ Signals({f}) /\ FolderSignal(f)
  /\ unlinked' = unlinked \cup ({f} \cap files)
  /\ UNCHANGED stale

Create(f) ==
  /\ MayTouch /\ Deleting /\ f \notin exists
  /\ exists' = exists \cup {f}
  /\ FolderSignal(f) /\ NewContent(f)
  /\ UNCHANGED <<changed, unlinked>>

Rename(f, g) ==
  /\ MayTouch /\ Renaming /\ f \in exists /\ g \notin exists /\ DirOf[f] = DirOf[g]
  /\ exists' = (exists \ {f}) \cup {g}
  /\ Signals({f}) /\ FolderSignal(f) /\ NewContent(g)
  /\ unlinked' = unlinked \cup ({f} \cap files)

Disk ==
  \/ \E f \in Files : Write(f) \/ Replace(f) \/ Delete(f) \/ Create(f)
  \/ \E f, g \in Files : Rename(f, g)

Gui == EndUpdate \/ EndFailedUpdate \/ CallNext \/ CallNextRenamed \/ EndRenaming

Slots ==
  \/ \E f \in Files : FileChanged(f)
  \/ \E d \in Dirs : DirChanged(d)
  \/ TimerFires

Users ==
  \/ \E w \in Windows, f \in Files : NewWindow(w, f) \/ Drop(w, f)
  \/ \E w \in Windows : CloseWindow(w)

Next == Disk \/ Gui \/ Slots \/ Users

\* The GUI thread finishes its handlers, Qt delivers its signals and timers end, even if
\* the user keeps the GUI thread busy.
Fairness ==
  /\ WF_vars(Gui)
  /\ \A f \in Files : SF_vars(FileChanged(f))
  /\ \A d \in Dirs : SF_vars(DirChanged(d))
  /\ SF_vars(TimerFires)

Spec == Init /\ [][Next]_vars /\ Fairness

-----------------------------------------------------------------------------
(* Properties. *)

\* Every variable holds a value of its type.
TypeOK ==
  /\ exists \subseteq Files /\ edits \in 0 .. MaxEdits
  /\ files \subseteq Files /\ dirs \subseteq Dirs /\ unlinked \subseteq Files
  /\ changed \subseteq Files /\ moved \subseteq Dirs
  /\ fMap \in [Files -> SUBSET Windows]
  /\ fDirToChildren \in [Dirs -> SUBSET Files]
  /\ fSourceToChanged \in Files \cup {None} /\ active \in BOOLEAN
  /\ open \subseteq Windows
  /\ fSource \in [Windows -> Files \cup {None, Copy}]
  /\ path \in [Windows -> Files \cup {None}]
  /\ deps \in [Windows -> SUBSET Files]
  /\ gui \in {"idle", "compiled", "failed"}
  /\ win \in Windows \cup {None} /\ wanted \in Files \cup {None, Copy}
  /\ queue \subseteq Windows
  /\ renaming.old \in Files \cup {None} /\ renaming.new \in Files \cup {None}
  /\ stale \subseteq Windows \X Files

\* As long as no source was deleted, the watcher knows every window under the files it
\* uses, and under no other, except the one that is being updated: no window that is closed.
WatchedUnderItsFiles ==
  \A f \in Files, w \in Windows \ {win} : w \in fMap[f] <=> w \in open /\ f \in Uses(w)

\* A window is watched under every file it uses, and it stays so when its files are deleted,
\* created, renamed or replaced, and when its updates fail.
WatchedUnderAllItsFiles ==
  \A w \in open \ {win}, f \in Files : f \in Uses(w) => w \in fMap[f]

\* The types, and the files of each window.
WatcherInv == TypeOK /\ WatchedUnderAllItsFiles

\* "An update can close another window (audio error): check it is still watching"
\* (FLFileWatcher.cpp:157): the windows that a loop of the watcher is going to call are open.
LoopCallsOpenWindows ==
  \A w \in queue :
    renaming # NoLoop \/ w \in fMap[fSourceToChanged] => w \in open

\* "Whenever a watched file is modified in a text editor or another external application, the
\* signal fileChanged is received.  The FLWindow is therefore informed that it has to update"
\* (Implementation.tex:377).
ChangesReachWindows ==
  \A w \in Windows, f \in Files : <<w, f>> \in stale ~> <<w, f>> \notin stale
=============================================================================
