------------------------- MODULE FileWatcher_proofs -------------------------
(***************************************************************************)
(* Proofs about FileWatcher, for any windows, files, folders and imports:   *)
(* a window stays registered under every file it uses, whatever other       *)
(* programs do to the disk; and, as long as no file leaves its name, the    *)
(* watcher knows no other window, so it calls none that is closed.          *)
(***************************************************************************)
EXTENDS FileWatcher, TLAPS

Loop == [old : Files, new : Files, dir : Dirs, children : SUBSET Files]

\* The handler under way has a window and a source, the timer and the loops have what they
\* are for, and every window but the one under way has a source.
ControlInv ==
  /\ gui = "idle" => win = None /\ wanted = None
  /\ gui # "idle" => win \in open /\ wanted \in Files \cup {Copy}
  /\ active \/ (queue # {} /\ renaming = NoLoop) => fSourceToChanged \in Files
  /\ renaming = NoLoop \/ renaming \in Loop
  /\ \A w \in open \ {win} : fSource[w] # None

IInv == TypeOK /\ ControlInv /\ WatchedUnderAllItsFiles

-----------------------------------------------------------------------------
(* What the helpers do, whatever calls them. *)

LEMMA NoLoopIsNone ==
  /\ NoLoop \notin Loop
  /\ NoLoop.old = None /\ NoLoop.new = None
  /\ \A r \in Loop : r # NoLoop
  BY FileWatcherAssumption DEF FileWatcherAssumption, NoLoop, Loop

LEMMA UsesType ==
  ASSUME TypeOK, NEW w \in Windows
  PROVE  /\ Uses(w) \subseteq Files
         /\ Uses(w) = {f \in Files : f \in deps[w] \/ f = path[w]}
  BY FileWatcherAssumption DEF FileWatcherAssumption, TypeOK, Uses

LEMMA ReadsType ==
  ASSUME TypeOK, NEW w \in Windows, NEW s \in Files \cup {Copy}
  PROVE  /\ Reads(w, s) \subseteq Files
         /\ s # Copy => s \in Reads(w, s)
  BY FileWatcherAssumption DEF FileWatcherAssumption, TypeOK, Reads

\* stopWatcher: the window is no longer under its files; nothing else changes.
LEMMA StopRemoves ==
  ASSUME TypeOK, NEW w \in Windows, StopWatching(w)
  PROVE  /\ fMap' \in [Files -> SUBSET Windows]
         /\ \A f \in Files : fMap'[f] = IF f \in Uses(w) THEN fMap[f] \ {w} ELSE fMap[f]
  BY DEF TypeOK, StopWatching

\* startWatcher: the window is under the files given; nothing else changes there.
LEMMA StartAdds ==
  ASSUME TypeOK, NEW w \in Windows, NEW uses \in SUBSET Files, StartWatching(w, uses)
  PROVE  /\ fMap' \in [Files -> SUBSET Windows]
         /\ \A f \in Files : fMap'[f] = IF f \in uses THEN fMap[f] \cup {w} ELSE fMap[f]
         /\ files' = files \cup (uses \cap exists)
         /\ files' \subseteq Files /\ dirs' \subseteq Dirs
         /\ fDirToChildren' \in [Dirs -> SUBSET Files]
<1>1. \A d \in Dirs : Listing(d) \subseteq Files
  BY DEF TypeOK, Listing
<1>2. \A f \in uses : DirOf[f] \in Dirs
  BY FileWatcherAssumption DEF FileWatcherAssumption
<1>3. fMap' \in [Files -> SUBSET Windows]
  BY DEF TypeOK, StartWatching
<1>4. fDirToChildren' \in [Dirs -> SUBSET Files]
  BY <1>1 DEF TypeOK, StartWatching
<1> QED
  BY <1>2, <1>3, <1>4 DEF TypeOK, StartWatching

\* The compilation of an update: its window leaves the watcher until it ends.
LEMMA Update ==
  ASSUME IInv, gui = "idle", NEW w \in open, NEW s \in Files \cup {Copy}, UpdateWindow(w, s)
  PROVE  /\ win' = w /\ wanted' = s /\ gui' \in {"compiled", "failed"}
         /\ fMap' \in [Files -> SUBSET Windows]
         /\ \A f \in Files : fMap'[f] = IF f \in Uses(w) THEN fMap[f] \ {w} ELSE fMap[f]
         /\ UNCHANGED <<disk, watcher, timer, open, settings>>
         /\ \A v \in Windows : Uses(v)' = Uses(v)
         /\ WatchedUnderAllItsFiles'
<1>1. w \in Windows
  BY DEF IInv, TypeOK
<1>2. win' = w /\ wanted' = s /\ gui' \in {"compiled", "failed"}
  BY DEF UpdateWindow, Compile
<1>3. UNCHANGED <<disk, watcher, timer, open, settings>>
  BY DEF UpdateWindow
<1>4. /\ fMap' \in [Files -> SUBSET Windows]
      /\ \A f \in Files : fMap'[f] = IF f \in Uses(w) THEN fMap[f] \ {w} ELSE fMap[f]
  BY <1>1, StopRemoves DEF IInv, UpdateWindow
<1>5. \A v \in Windows : Uses(v)' = Uses(v)
  BY <1>3 DEF Uses, settings
<1>6. WatchedUnderAllItsFiles'
  <2> SUFFICES ASSUME NEW v \in open', v # win', NEW f \in Files, f \in Uses(v)'
               PROVE  v \in fMap'[f]
    BY DEF WatchedUnderAllItsFiles
  <2>1. v \in open \ {win} /\ v \in Windows
    BY <1>2, <1>3, FileWatcherAssumption DEF IInv, ControlInv, TypeOK, FileWatcherAssumption
  <2>2. v \in fMap[f]
    BY <1>5, <2>1 DEF IInv, WatchedUnderAllItsFiles
  <2> QED
    BY <1>2, <1>4, <2>2
<1> QED
  BY <1>2, <1>3, <1>4, <1>5, <1>6

-----------------------------------------------------------------------------
(* The invariant, step by step. *)

LEMMA InitIInv == Init => IInv
<1> SUFFICES ASSUME Init PROVE IInv
  OBVIOUS
<1>1. renaming.old = None /\ renaming.new = None
  BY NoLoopIsNone DEF Init
<1>2. /\ fMap \in [Files -> SUBSET Windows]
      /\ fDirToChildren \in [Dirs -> SUBSET Files]
      /\ fSource \in [Windows -> Files \cup {None, Copy}]
      /\ path \in [Windows -> Files \cup {None}]
      /\ deps \in [Windows -> SUBSET Files]
  BY DEF Init
<1>3. edits \in 0 .. MaxEdits
  BY FileWatcherAssumption DEF FileWatcherAssumption, Init
<1>4. TypeOK
  BY <1>1, <1>2, <1>3 DEF Init, TypeOK
<1> QED
  BY <1>4 DEF Init, IInv, ControlInv, WatchedUnderAllItsFiles

\* Other programs change nothing but the disk, the signals and the ghost.
LEMMA DiskStep == IInv /\ Disk => IInv'
<1> SUFFICES ASSUME IInv, Disk PROVE IInv'
  OBVIOUS
<1>1. \A w \in open : Uses(w) \subseteq Files
  BY UsesType DEF IInv, TypeOK
<1>2. edits' \in 0 .. MaxEdits /\ UNCHANGED <<watcher, timer, fMap, open, settings, control, loop>>
  <2>1. MayTouch
    BY DEF Disk, Write, Replace, Delete, Create, Rename
  <2> QED
    BY <2>1, FileWatcherAssumption DEF FileWatcherAssumption, MayTouch, IInv, TypeOK
<1>3. \A f \in Files : DirOf[f] \in Dirs
  BY FileWatcherAssumption DEF FileWatcherAssumption
<1>4. \A f \in Files : NewContent(f) => stale' \subseteq Windows \X Files
  BY DEF NewContent, IInv, TypeOK
<1>5. /\ exists' \subseteq Files /\ unlinked' \subseteq Files
      /\ changed' \subseteq Files /\ moved' \subseteq Dirs /\ stale' \subseteq Windows \X Files
  <2>1. ASSUME NEW f \in Files, Write(f) PROVE <1>5!:
    BY <1>4, <2>1 DEF Write, Signals, IInv, TypeOK
  <2>2. ASSUME NEW f \in Files, Replace(f) PROVE <1>5!:
    BY <1>3, <1>4, <2>2 DEF Replace, Signals, FolderSignal, IInv, TypeOK
  <2>3. ASSUME NEW f \in Files, Delete(f) PROVE <1>5!:
    BY <1>3, <2>3 DEF Delete, Signals, FolderSignal, IInv, TypeOK
  <2>4. ASSUME NEW f \in Files, Create(f) PROVE <1>5!:
    BY <1>3, <1>4, <2>4 DEF Create, FolderSignal, IInv, TypeOK
  <2>5. ASSUME NEW f \in Files, NEW g \in Files, Rename(f, g) PROVE <1>5!:
    BY <1>3, <1>4, <2>5 DEF Rename, Signals, FolderSignal, IInv, TypeOK
  <2> QED
    BY <2>1, <2>2, <2>3, <2>4, <2>5 DEF Disk
<1>6. TypeOK'
  BY <1>2, <1>5 DEF IInv, TypeOK, watcher, timer, settings, control, loop
<1>7. ControlInv'
  BY <1>2 DEF IInv, ControlInv, watcher, timer, settings, control, loop, NoLoop
<1>8. WatchedUnderAllItsFiles'
  BY <1>2 DEF IInv, WatchedUnderAllItsFiles, Uses, settings, control
<1> QED
  BY <1>6, <1>7, <1>8 DEF IInv

\* A window begins to update, in whichever way: it has its source until the end.
LEMMA UpdateStep ==
  ASSUME IInv, gui = "idle", NEW w \in open, NEW s \in Files \cup {Copy}, UpdateWindow(w, s),
         queue' \subseteq queue, UNCHANGED renaming, stale' \subseteq stale
  PROVE  IInv'
<1>1. TypeOK'
  BY Update DEF IInv, TypeOK, disk, watcher, timer, settings
<1>2. ControlInv'
  <2>1. None \notin open
    BY FileWatcherAssumption DEF FileWatcherAssumption, IInv, TypeOK
  <2>2. queue' # {} => queue # {}
    OBVIOUS
  <2> QED
    BY <2>1, <2>2, Update DEF IInv, ControlInv, timer, settings
<1> QED
  BY <1>1, <1>2, Update DEF IInv

LEMMA NewWindowStep == IInv /\ (\E w \in Windows, s \in Files : NewWindow(w, s)) => IInv'
<1> SUFFICES ASSUME IInv, NEW w \in Windows, NEW s \in Files, NewWindow(w, s) PROVE IInv'
  OBVIOUS
<1> USE DEF NewWindow, Free, Compile
<1>1. TypeOK'
  BY DEF IInv, TypeOK, disk, watcher, timer, settings, loop
<1>2. ControlInv'
  BY FileWatcherAssumption DEF FileWatcherAssumption, IInv, ControlInv, TypeOK, timer, settings, loop
<1>3. WatchedUnderAllItsFiles'
  BY FileWatcherAssumption DEF FileWatcherAssumption, IInv, ControlInv, WatchedUnderAllItsFiles, Uses, settings, TypeOK
<1> QED
  BY <1>1, <1>2, <1>3 DEF IInv

\* The end of an update: the window is under the files that were just compiled.
LEMMA EndUpdateStep == IInv /\ EndUpdate => IInv'
<1> SUFFICES ASSUME IInv, EndUpdate PROVE IInv'
  OBVIOUS
<1> DEFINE uses == Reads(win, wanted)
<1>1. win \in open /\ win \in Windows /\ wanted \in Files \cup {Copy}
  BY DEF IInv, ControlInv, TypeOK, EndUpdate
<1>2. uses \in SUBSET Files /\ (wanted # Copy => wanted \in uses)
  BY <1>1, ReadsType DEF IInv
<1>3. StartWatching(win, uses)
  BY DEF EndUpdate
<1>4. /\ path' = [path EXCEPT ![win] = IF wanted = Copy THEN None ELSE wanted]
      /\ deps' = [deps EXCEPT ![win] = uses \ {wanted}]
      /\ gui' = "idle" /\ win' = None /\ wanted' = None
      /\ UNCHANGED <<disk, timer, open, loop>>
      /\ stale' \subseteq stale
      /\ fSource' = [fSource EXCEPT ![win] = wanted] \/ (fSource[win] # None /\ fSource' = fSource)
  BY DEF EndUpdate
<1> HIDE DEF uses
<1>5. /\ fMap' \in [Files -> SUBSET Windows]
      /\ \A f \in Files : fMap'[f] = IF f \in uses THEN fMap[f] \cup {win} ELSE fMap[f]
      /\ files' \subseteq Files /\ dirs' \subseteq Dirs
      /\ fDirToChildren' \in [Dirs -> SUBSET Files]
  BY <1>1, <1>2, <1>3, StartAdds DEF IInv
<1>6. fSource' \in [Windows -> Files \cup {None, Copy}] /\ \A v \in open : fSource'[v] # None
  BY <1>1, <1>4, FileWatcherAssumption DEF FileWatcherAssumption, IInv, ControlInv, TypeOK
<1>7. path' \in [Windows -> Files \cup {None}] /\ deps' \in [Windows -> SUBSET Files]
  BY <1>1, <1>2, <1>4 DEF IInv, TypeOK
<1>8. TypeOK'
  BY <1>4, <1>5, <1>6, <1>7 DEF IInv, TypeOK, disk, timer, loop
<1>9. ControlInv'
  BY <1>4, <1>6 DEF IInv, ControlInv, timer, loop, NoLoop
<1>10. WatchedUnderAllItsFiles'
  <2> SUFFICES ASSUME NEW v \in open', NEW f \in Files, f \in Uses(v)' PROVE v \in fMap'[f]
    BY DEF WatchedUnderAllItsFiles
  <2>0. v \in open /\ v \in Windows
    BY <1>4 DEF IInv, TypeOK
  <2>1. CASE v = win
    BY <1>1, <1>2, <1>4, <1>5, <2>1 DEF Uses, IInv, TypeOK
  <2>2. CASE v # win
    <3>1. f \in Uses(v)
      BY <1>4, <2>0, <2>2 DEF Uses, IInv, TypeOK
    <3> QED
      BY <1>5, <2>0, <2>2, <3>1 DEF IInv, WatchedUnderAllItsFiles
  <2> QED
    BY <2>1, <2>2
<1> QED
  BY <1>8, <1>9, <1>10 DEF IInv

\* The end of an update that failed: the window is again under the files of its old source.
LEMMA EndFailedUpdateStep == IInv /\ EndFailedUpdate => IInv'
<1> SUFFICES ASSUME IInv, EndFailedUpdate PROVE IInv'
  OBVIOUS
<1> USE DEF EndFailedUpdate
<1>1. win \in open /\ win \in Windows
  BY DEF IInv, ControlInv, TypeOK
<1>2. Uses(win) \subseteq Files
  BY <1>1, UsesType DEF IInv
<1>3. StartWatching(win, Uses(win))
  OBVIOUS
<1>4. /\ fMap' \in [Files -> SUBSET Windows]
      /\ \A f \in Files : fMap'[f] = IF f \in Uses(win) THEN fMap[f] \cup {win} ELSE fMap[f]
      /\ files' \subseteq Files /\ dirs' \subseteq Dirs
      /\ fDirToChildren' \in [Dirs -> SUBSET Files]
  BY <1>1, <1>2, <1>3, StartAdds DEF IInv
<1>5. TypeOK'
  BY <1>4 DEF IInv, TypeOK, disk, timer, settings, loop
<1>6. ControlInv'
  BY DEF IInv, ControlInv, timer, settings, loop, NoLoop
<1>7. WatchedUnderAllItsFiles'
  BY <1>4 DEF IInv, TypeOK, WatchedUnderAllItsFiles, Uses, settings
<1> QED
  BY <1>5, <1>6, <1>7 DEF IInv

LEMMA CloseWindowStep == IInv /\ (\E w \in Windows : CloseWindow(w)) => IInv'
<1> SUFFICES ASSUME IInv, NEW w \in Windows, CloseWindow(w) PROVE IInv'
  OBVIOUS
<1> USE DEF CloseWindow
<1>1. /\ fMap' \in [Files -> SUBSET Windows]
      /\ \A f \in Files : fMap'[f] = IF f \in Uses(w) THEN fMap[f] \ {w} ELSE fMap[f]
  BY StopRemoves DEF IInv
<1>2. TypeOK'
  BY <1>1 DEF IInv, TypeOK, disk, watcher, timer, control, loop
<1>3. ControlInv'
  BY DEF IInv, ControlInv, TypeOK, timer, control, loop, NoLoop
<1>4. WatchedUnderAllItsFiles'
  BY <1>1 DEF IInv, TypeOK, WatchedUnderAllItsFiles, Uses, control
<1> QED
  BY <1>2, <1>3, <1>4 DEF IInv

LEMMA FileChangedStep == IInv /\ (\E f \in Files : FileChanged(f)) => IInv'
<1> SUFFICES ASSUME IInv, NEW f \in Files, FileChanged(f) PROVE IInv'
  OBVIOUS
<1> USE DEF FileChanged, Free
<1>1. TypeOK'
  BY DEF IInv, TypeOK, settings, control, loop
<1>2. ControlInv'
  BY DEF IInv, ControlInv, settings, control, loop
<1>3. WatchedUnderAllItsFiles'
  BY DEF IInv, WatchedUnderAllItsFiles, Uses, settings, control
<1> QED
  BY <1>1, <1>2, <1>3 DEF IInv

LEMMA TimerStep == IInv /\ TimerFires => IInv'
<1> SUFFICES ASSUME IInv, TimerFires PROVE IInv'
  OBVIOUS
<1> USE DEF TimerFires, Free
<1>1. fMap[fSourceToChanged] \subseteq Windows
  BY DEF IInv, ControlInv, TypeOK
<1>2. TypeOK'
  BY <1>1 DEF IInv, TypeOK, disk, watcher, settings, control
<1>3. ControlInv'
  BY DEF IInv, ControlInv, settings, control
<1>4. WatchedUnderAllItsFiles'
  BY DEF IInv, WatchedUnderAllItsFiles, Uses, settings, control
<1> QED
  BY <1>2, <1>3, <1>4 DEF IInv

LEMMA CallNextStep == IInv /\ CallNext => IInv'
<1> SUFFICES ASSUME IInv, CallNext PROVE IInv'
  OBVIOUS
<1>1. PICK w \in queue : CallNext!2!(w)
  BY DEF CallNext
<1>2. gui = "idle" /\ UNCHANGED renaming /\ queue' \subseteq queue
  BY <1>1 DEF CallNext
<1>3. CASE w \in fMap[fSourceToChanged] \cap open
  <2>1. fSource[w] \in Files \cup {Copy}
    BY <1>2, <1>3, FileWatcherAssumption DEF FileWatcherAssumption, IInv, ControlInv, TypeOK
  <2>2. UpdateWindow(w, fSource[w]) /\ stale' \subseteq stale
    BY <1>1, <1>3
  <2> QED
    BY <1>2, <1>3, <2>1, <2>2, UpdateStep
<1>4. CASE w \notin fMap[fSourceToChanged] \cap open
  <2>1. UNCHANGED <<disk, watcher, timer, fMap, open, settings, control, stale>>
    BY <1>1, <1>4
  <2>2. TypeOK'
    BY <1>2, <2>1 DEF IInv, TypeOK, disk, watcher, timer, settings, control
  <2>3. ControlInv'
    BY <1>2, <2>1 DEF IInv, ControlInv, timer, settings, control
  <2>4. WatchedUnderAllItsFiles'
    BY <2>1 DEF IInv, WatchedUnderAllItsFiles, Uses, settings, control
  <2> QED
    BY <2>2, <2>3, <2>4 DEF IInv
<1> QED
  BY <1>3, <1>4

\* A source that was deleted: its windows keep the copy, and use fewer files.
LEMMA DirChangedStep == IInv /\ (\E d \in Dirs : DirChanged(d)) => IInv'
<1> SUFFICES ASSUME IInv, NEW d \in Dirs, DirChanged(d) PROVE IInv'
  OBVIOUS
<1> DEFINE new == Listing(d)
           old == fDirToChildren[d]
           missing == {f \in files : f \notin exists}
           added == IF Cardinality(old) = Cardinality(new) THEN new \ old ELSE {}
<1>1. /\ gui = "idle" /\ queue = {} /\ renaming = NoLoop /\ moved' = moved \ {d}
      /\ UNCHANGED <<exists, edits, unlinked, changed, files, dirs, timer, fMap, open, control, stale>>
  BY DEF DirChanged, Free
<1>2. new \subseteq Files /\ missing \subseteq Files /\ added \subseteq Files
  BY DEF IInv, TypeOK, Listing
<1>3. \/ /\ fDirToChildren' = [fDirToChildren EXCEPT ![d] = new]
         /\ UNCHANGED <<settings, loop>>
      \/ /\ \E f \in missing :
              /\ fSource' = [w \in Windows |-> IF w \in fMap[f] \cap open THEN Copy ELSE fSource[w]]
              /\ path' = [w \in Windows |-> IF w \in fMap[f] \cap open THEN None ELSE path[w]]
         /\ fDirToChildren' = [fDirToChildren EXCEPT ![d] = new]
         /\ UNCHANGED <<deps, loop>>
      \/ \E f \in missing, g \in added :
           /\ queue' = fMap[f]
           /\ renaming' = [old |-> f, new |-> g, dir |-> d, children |-> new]
           /\ UNCHANGED <<fDirToChildren, settings>>
  BY DEF DirChanged
<1> HIDE DEF new, old, missing, added
<1>4. fDirToChildren' \in [Dirs -> SUBSET Files]
  BY <1>2, <1>3 DEF IInv, TypeOK
<1>5. /\ fSource' \in [Windows -> Files \cup {None, Copy}] /\ path' \in [Windows -> Files \cup {None}]
      /\ \A w \in Windows : fSource[w] # None => fSource'[w] # None
      /\ \A w \in Windows : path'[w] \in {path[w], None}
  <2>1. CASE UNCHANGED settings
    BY <2>1 DEF IInv, TypeOK, settings
  <2>2. CASE \E f \in missing :
              /\ fSource' = [w \in Windows |-> IF w \in fMap[f] \cap open THEN Copy ELSE fSource[w]]
              /\ path' = [w \in Windows |-> IF w \in fMap[f] \cap open THEN None ELSE path[w]]
    BY <2>2, FileWatcherAssumption DEF FileWatcherAssumption, IInv, TypeOK
  <2> QED
    BY <1>3, <2>1, <2>2
<1>6. deps' = deps
  BY <1>3 DEF settings
<1>7. (queue' = queue /\ renaming' = renaming) \/ (queue' \subseteq Windows /\ renaming' \in Loop)
  <2>1. \A f \in missing : fMap[f] \subseteq Windows
    BY <1>2 DEF IInv, TypeOK
  <2>2. \A f \in missing, g \in added : [old |-> f, new |-> g, dir |-> d, children |-> new] \in Loop
    BY <1>2 DEF Loop
  <2> QED
    BY <1>3, <2>1, <2>2 DEF loop
<1>8. /\ queue' \subseteq Windows
      /\ renaming'.old \in Files \cup {None} /\ renaming'.new \in Files \cup {None}
  BY <1>7 DEF IInv, TypeOK, Loop
<1>9. TypeOK'
  BY <1>1, <1>4, <1>5, <1>6, <1>8 DEF IInv, TypeOK, timer, control
<1>10. ControlInv'
  BY <1>1, <1>5, <1>7, NoLoopIsNone DEF IInv, TypeOK, ControlInv, timer, control
<1>11. WatchedUnderAllItsFiles'
  BY <1>1, <1>5, <1>6 DEF IInv, TypeOK, WatchedUnderAllItsFiles, Uses, control
<1> QED
  BY <1>9, <1>10, <1>11 DEF IInv

LEMMA CallNextRenamedStep == IInv /\ CallNextRenamed => IInv'
<1> SUFFICES ASSUME IInv, CallNextRenamed PROVE IInv'
  OBVIOUS
<1>1. PICK w \in queue : CallNextRenamed!2!(w)
  BY DEF CallNextRenamed
<1>2. gui = "idle" /\ UNCHANGED <<renaming, stale>> /\ queue' \subseteq queue /\ renaming \in Loop
  BY <1>1 DEF CallNextRenamed, IInv, ControlInv
<1>3. CASE w \in open /\ fSource[w] = renaming.old
  <2>1. renaming.new \in Files \cup {Copy} /\ UpdateWindow(w, renaming.new)
    BY <1>1, <1>2, <1>3 DEF Loop
  <2> QED
    BY <1>2, <1>3, <2>1, UpdateStep
<1>4. CASE ~(w \in open /\ fSource[w] = renaming.old)
  <2>1. UNCHANGED <<disk, watcher, timer, fMap, open, settings, control>>
    BY <1>1, <1>4
  <2>2. TypeOK'
    BY <1>2, <2>1 DEF IInv, TypeOK, disk, watcher, timer, settings, control
  <2>3. ControlInv'
    BY <1>2, <2>1 DEF IInv, ControlInv, timer, settings, control
  <2>4. WatchedUnderAllItsFiles'
    BY <2>1 DEF IInv, WatchedUnderAllItsFiles, Uses, settings, control
  <2> QED
    BY <2>2, <2>3, <2>4 DEF IInv
<1> QED
  BY <1>3, <1>4

LEMMA EndRenamingStep == IInv /\ EndRenaming => IInv'
<1> SUFFICES ASSUME IInv, EndRenaming PROVE IInv'
  OBVIOUS
<1> USE DEF EndRenaming
<1>1. renaming.dir \in Dirs /\ renaming.children \subseteq Files
  BY DEF IInv, ControlInv, Loop
<1>2. fDirToChildren' \in [Dirs -> SUBSET Files]
  BY <1>1 DEF IInv, TypeOK
<1>3. TypeOK'
  BY <1>2, NoLoopIsNone DEF IInv, TypeOK, disk, timer, settings, control
<1>4. ControlInv'
  BY DEF IInv, ControlInv, timer, settings, control
<1>5. WatchedUnderAllItsFiles'
  BY DEF IInv, WatchedUnderAllItsFiles, Uses, settings, control
<1> QED
  BY <1>3, <1>4, <1>5 DEF IInv

LEMMA DropStep == IInv /\ (\E w \in Windows, s \in Files : Drop(w, s)) => IInv'
<1> SUFFICES ASSUME IInv, NEW w \in Windows, NEW s \in Files, Drop(w, s) PROVE IInv'
  OBVIOUS
<1> QED
  BY UpdateStep DEF Drop, Free, loop

LEMMA IInvStep == IInv /\ [Next]_vars => IInv'
<1> SUFFICES ASSUME IInv, [Next]_vars PROVE IInv'
  OBVIOUS
<1>1. CASE Gui
  BY <1>1, EndUpdateStep, EndFailedUpdateStep, CallNextStep, CallNextRenamedStep, EndRenamingStep DEF Gui
<1>2. CASE Slots
  BY <1>2, FileChangedStep, DirChangedStep, TimerStep DEF Slots
<1>3. CASE Users
  BY <1>3, NewWindowStep, DropStep, CloseWindowStep DEF Users
<1>4. CASE UNCHANGED vars
  BY <1>4 DEF IInv, TypeOK, ControlInv, WatchedUnderAllItsFiles, Uses, vars, disk, watcher,
              timer, settings, control, loop
<1> QED
  BY <1>1, <1>2, <1>3, <1>4, DiskStep DEF Next

\* Every variable of the watcher keeps its type, and a window stays registered under every
\* file it uses when files are written, replaced, deleted, created and renamed, and when
\* updates fail (start_stop_watcher, update_Window).
THEOREM WindowsStayWatched == Spec => []WatcherInv
<1>1. Spec => []IInv
  BY InitIInv, IInvStep, PTL DEF Spec
<1>2. IInv => WatcherInv
  BY DEF IInv, WatcherInv
<1> QED
  BY <1>1, <1>2, PTL

-----------------------------------------------------------------------------
(* Files that keep their names: they are written and replaced, as often as you like. *)

NamesKept == ~Deleting /\ ~Renaming

\* No watched file is missing, so nothing looks deleted or renamed; the window under way is
\* under no file; a window without a source uses none.
KnownInv ==
  /\ files \subseteq exists /\ renaming = NoLoop
  /\ \A f \in Files : win \notin fMap[f]
  /\ \A w \in Windows : fSource[w] = None => path[w] = None /\ deps[w] = {}
  /\ WatchedUnderItsFiles

LEMMA InitKnown == Init => KnownInv
  BY DEF Init, KnownInv, WatchedUnderItsFiles

LEMMA DiskKnown == NamesKept /\ KnownInv /\ Disk => KnownInv'
<1> SUFFICES ASSUME NamesKept, KnownInv, Disk PROVE KnownInv'
  OBVIOUS
<1>1. MayTouch /\ UNCHANGED exists
  BY DEF Disk, Write, Replace, Delete, Create, Rename, NamesKept
<1> QED
  BY <1>1 DEF MayTouch, KnownInv, WatchedUnderItsFiles, Uses, watcher, settings, control, loop

\* A window that leaves the watcher under all its files is under none.
LEMMA UpdateKnown ==
  ASSUME IInv, KnownInv, gui = "idle", NEW w \in open, NEW s \in Files \cup {Copy},
         UpdateWindow(w, s), UNCHANGED renaming
  PROVE  KnownInv'
<1>1. win = None /\ w # None /\ w \in Windows
  BY FileWatcherAssumption DEF FileWatcherAssumption, IInv, ControlInv, TypeOK
<1>2. \A f \in Files : w \notin fMap'[f]
  BY <1>1, Update DEF KnownInv, WatchedUnderItsFiles
<1>3. WatchedUnderItsFiles'
  <2> SUFFICES ASSUME NEW f \in Files, NEW v \in Windows, v # w
               PROVE  v \in fMap'[f] <=> v \in open /\ f \in Uses(v)
    BY Update DEF WatchedUnderItsFiles
  <2>1. v \in fMap'[f] <=> v \in fMap[f]
    BY Update
  <2>2. v # win
    BY <1>1, FileWatcherAssumption DEF FileWatcherAssumption
  <2> QED
    BY <2>1, <2>2 DEF KnownInv, WatchedUnderItsFiles
<1> QED
  BY <1>2, <1>3, Update DEF KnownInv, disk, watcher, settings

LEMMA NewWindowKnown == IInv /\ KnownInv /\ (\E w \in Windows, s \in Files : NewWindow(w, s)) => KnownInv'
<1> SUFFICES ASSUME IInv, KnownInv, NEW w \in Windows, NEW s \in Files, NewWindow(w, s) PROVE KnownInv'
  OBVIOUS
<1>1. /\ gui = "idle" /\ win = None /\ win' = w /\ open' = open \cup {w}
      /\ \A f \in Files : w \notin fMap[f]
      /\ UNCHANGED <<disk, watcher, timer, fMap, settings, loop, stale>>
  BY DEF NewWindow, Free, Compile, IInv, ControlInv
<1>2. None \notin Windows
  BY FileWatcherAssumption DEF FileWatcherAssumption
<1> QED
  BY <1>1, <1>2 DEF KnownInv, WatchedUnderItsFiles, Uses, disk, watcher, settings, loop

\* The end of an update: the files that were compiled are those the settings name.
LEMMA EndUpdateKnown == IInv /\ KnownInv /\ EndUpdate => KnownInv'
<1> SUFFICES ASSUME IInv, KnownInv, EndUpdate PROVE KnownInv'
  OBVIOUS
<1> DEFINE uses == Reads(win, wanted)
<1>1. win \in open /\ win \in Windows /\ wanted \in Files \cup {Copy} /\ None \notin Windows
  BY FileWatcherAssumption DEF FileWatcherAssumption, IInv, ControlInv, TypeOK, EndUpdate
<1>2. uses \in SUBSET Files /\ (wanted # Copy => wanted \in uses)
  BY <1>1, ReadsType DEF IInv
<1>3. StartWatching(win, uses)
  BY DEF EndUpdate
<1>4. /\ path' = [path EXCEPT ![win] = IF wanted = Copy THEN None ELSE wanted]
      /\ deps' = [deps EXCEPT ![win] = uses \ {wanted}]
      /\ win' = None /\ UNCHANGED <<exists, open, renaming>>
      /\ fSource' = [fSource EXCEPT ![win] = wanted] \/ (fSource[win] # None /\ fSource' = fSource)
  BY DEF EndUpdate, disk, loop
<1> HIDE DEF uses
<1>5. /\ fMap' \in [Files -> SUBSET Windows]
      /\ \A f \in Files : fMap'[f] = IF f \in uses THEN fMap[f] \cup {win} ELSE fMap[f]
      /\ files' = files \cup (uses \cap exists)
  BY <1>1, <1>2, <1>3, StartAdds DEF IInv
<1>6. files' \subseteq exists' /\ \A f \in Files : win' \notin fMap'[f]
  BY <1>1, <1>4, <1>5 DEF KnownInv
<1>7. \A w \in Windows : fSource'[w] = None => path'[w] = None /\ deps'[w] = {}
  <2>1. wanted # None
    BY <1>1, FileWatcherAssumption DEF FileWatcherAssumption
  <2>2. fSource'[win] # None
    BY <1>1, <1>4, <2>1 DEF IInv, TypeOK
  <2>3. \A w \in Windows \ {win} : fSource'[w] = fSource[w] /\ path'[w] = path[w] /\ deps'[w] = deps[w]
    BY <1>1, <1>4 DEF IInv, TypeOK
  <2> QED
    BY <2>2, <2>3 DEF KnownInv
<1>8. WatchedUnderItsFiles'
  <2> SUFFICES ASSUME NEW f \in Files, NEW w \in Windows
               PROVE  w \in fMap'[f] <=> w \in open /\ f \in Uses(w)'
    BY <1>4 DEF WatchedUnderItsFiles
  <2>1. CASE w = win
    <3>1. f \in Uses(w)' <=> f \in uses
      <4>1. deps'[w] = uses \ {wanted} /\ path'[w] = (IF wanted = Copy THEN None ELSE wanted)
        BY <1>1, <1>4, <2>1 DEF IInv, TypeOK
      <4>2. Copy \notin Files /\ None \notin Files
        BY FileWatcherAssumption DEF FileWatcherAssumption
      <4>3. f \in Uses(w)' <=> f \in deps'[w] \/ f = path'[w]
        BY <4>2 DEF Uses
      <4> QED
        BY <1>1, <1>2, <4>1, <4>2, <4>3
    <3>2. win \notin fMap[f]
      BY DEF KnownInv
    <3> QED
      BY <1>1, <1>5, <2>1, <3>1, <3>2
  <2>2. CASE w # win
    <3>1. Uses(w)' = Uses(w)
      BY <1>1, <1>4, <2>2 DEF Uses, IInv, TypeOK
    <3>2. w \in fMap'[f] <=> w \in fMap[f]
      BY <1>5, <2>2
    <3> QED
      BY <2>2, <3>1, <3>2 DEF KnownInv, WatchedUnderItsFiles
  <2> QED
    BY <2>1, <2>2
<1> QED
  BY <1>4, <1>6, <1>7, <1>8 DEF KnownInv

\* An update that failed: the window is back, or discarded if it never had a source.
LEMMA EndFailedUpdateKnown == IInv /\ KnownInv /\ EndFailedUpdate => KnownInv'
<1> SUFFICES ASSUME IInv, KnownInv, EndFailedUpdate PROVE KnownInv'
  OBVIOUS
<1>1. win \in open /\ win \in Windows /\ None \notin Windows
  BY FileWatcherAssumption DEF FileWatcherAssumption, IInv, ControlInv, TypeOK, EndFailedUpdate
<1>2. Uses(win) \in SUBSET Files /\ StartWatching(win, Uses(win))
  BY <1>1, UsesType DEF IInv, EndFailedUpdate
<1>3. /\ fMap' \in [Files -> SUBSET Windows]
      /\ \A f \in Files : fMap'[f] = IF f \in Uses(win) THEN fMap[f] \cup {win} ELSE fMap[f]
      /\ files' = files \cup (Uses(win) \cap exists)
  BY <1>1, <1>2, StartAdds DEF IInv
<1>4. /\ open' = IF fSource[win] = None THEN open \ {win} ELSE open
      /\ win' = None /\ UNCHANGED <<exists, renaming, settings>>
  BY DEF EndFailedUpdate, disk, loop
<1>5. fSource[win] = None => Uses(win) = {}
  BY <1>1 DEF KnownInv, Uses
<1>6. files' \subseteq exists' /\ \A f \in Files : win' \notin fMap'[f]
  BY <1>1, <1>3, <1>4 DEF KnownInv
<1>7. WatchedUnderItsFiles'
  <2> SUFFICES ASSUME NEW f \in Files, NEW w \in Windows
               PROVE  w \in fMap'[f] <=> w \in open' /\ f \in Uses(w)
    BY <1>4 DEF WatchedUnderItsFiles, Uses, settings
  <2>1. win \notin fMap[f]
    BY DEF KnownInv
  <2> QED
    BY <1>1, <1>3, <1>4, <1>5, <2>1 DEF KnownInv, WatchedUnderItsFiles
<1> QED
  BY <1>4, <1>6, <1>7 DEF KnownInv, settings

\* A window that closes was under its files only.
LEMMA CloseWindowKnown == IInv /\ KnownInv /\ (\E w \in Windows : CloseWindow(w)) => KnownInv'
<1> SUFFICES ASSUME IInv, KnownInv, NEW w \in Windows, CloseWindow(w) PROVE KnownInv'
  OBVIOUS
<1>1. /\ w \in open /\ w # win /\ open' = open \ {w}
      /\ fSource' = [fSource EXCEPT ![w] = None] /\ path' = [path EXCEPT ![w] = None]
      /\ deps' = [deps EXCEPT ![w] = {}]
      /\ UNCHANGED <<disk, watcher, control, loop>>
  BY DEF CloseWindow
<1>2. \A f \in Files : fMap'[f] = IF f \in Uses(w) THEN fMap[f] \ {w} ELSE fMap[f]
  BY StopRemoves DEF CloseWindow, IInv
<1>3. \A v \in Windows \ {w} : Uses(v)' = Uses(v)
  BY <1>1 DEF Uses, IInv, TypeOK
<1>4. \A v \in Windows : fSource'[v] = None => path'[v] = None /\ deps'[v] = {}
  BY <1>1 DEF KnownInv, IInv, TypeOK
<1>5. WatchedUnderItsFiles'
  <2> SUFFICES ASSUME NEW f \in Files, NEW v \in Windows, v # win
               PROVE  v \in fMap'[f] <=> v \in open' /\ f \in Uses(v)'
    BY <1>1 DEF WatchedUnderItsFiles, control
  <2>1. v \in fMap[f] <=> v \in open /\ f \in Uses(v)
    BY DEF KnownInv, WatchedUnderItsFiles
  <2>2. CASE v = w
    BY <1>1, <1>2, <2>1, <2>2
  <2>3. CASE v # w
    BY <1>1, <1>2, <1>3, <2>1, <2>3
  <2> QED
    BY <2>2, <2>3
<1> QED
  BY <1>1, <1>2, <1>4, <1>5 DEF KnownInv, disk, watcher, control, loop

\* No folder looks as if a file had gone: its list is refreshed, no more.
LEMMA DirChangedKnown == IInv /\ KnownInv /\ (\E d \in Dirs : DirChanged(d)) => KnownInv'
<1> SUFFICES ASSUME IInv, KnownInv, NEW d \in Dirs, DirChanged(d) PROVE KnownInv'
  OBVIOUS
<1>1. {f \in files : f \notin exists} = {}
  BY DEF KnownInv
<1>2. UNCHANGED <<exists, files, fMap, open, control, settings, loop>>
  BY <1>1 DEF DirChanged
<1> QED
  BY <1>2 DEF KnownInv, WatchedUnderItsFiles, Uses, settings, control, loop

LEMMA KnownStep == NamesKept /\ IInv /\ KnownInv /\ [Next]_vars => KnownInv'
<1> SUFFICES ASSUME NamesKept, IInv, KnownInv, [Next]_vars PROVE KnownInv'
  OBVIOUS
<1>1. ASSUME NEW f \in Files, FileChanged(f) PROVE KnownInv'
  BY <1>1 DEF FileChanged, KnownInv, WatchedUnderItsFiles, Uses, settings, control, loop
<1>2. ASSUME TimerFires PROVE KnownInv'
  BY <1>2 DEF TimerFires, KnownInv, WatchedUnderItsFiles, Uses, disk, watcher, settings, control
<1>3. ASSUME CallNext PROVE KnownInv'
  <2>1. PICK w \in queue : CallNext!2!(w)
    BY <1>3 DEF CallNext
  <2>2. gui = "idle" /\ UNCHANGED renaming
    BY <1>3 DEF CallNext
  <2>3. CASE w \in fMap[fSourceToChanged] \cap open
    <3>1. fSource[w] \in Files \cup {Copy} /\ UpdateWindow(w, fSource[w])
      BY <2>1, <2>2, <2>3, FileWatcherAssumption DEF FileWatcherAssumption, IInv, ControlInv, TypeOK
    <3> QED
      BY <2>2, <2>3, <3>1, UpdateKnown
  <2>4. CASE w \notin fMap[fSourceToChanged] \cap open
    <3>1. UNCHANGED <<disk, watcher, timer, fMap, open, settings, control, stale>>
      BY <2>1, <2>4
    <3> QED
      BY <2>2, <3>1 DEF KnownInv, WatchedUnderItsFiles, Uses, disk, watcher, settings, control
  <2> QED
    BY <2>3, <2>4
<1>4. ASSUME NEW w \in Windows, NEW s \in Files, Drop(w, s) PROVE KnownInv'
  BY <1>4, UpdateKnown DEF Drop, Free, loop
<1>5. ~CallNextRenamed /\ ~EndRenaming
  BY DEF CallNextRenamed, EndRenaming, KnownInv
<1>6. CASE UNCHANGED vars
  BY <1>6 DEF KnownInv, WatchedUnderItsFiles, Uses, vars, disk, watcher, settings, control, loop
<1> QED
  BY <1>1, <1>2, <1>3, <1>4, <1>5, <1>6, DiskKnown, NewWindowKnown, EndUpdateKnown,
     EndFailedUpdateKnown, CloseWindowKnown, DirChangedKnown DEF Next, Gui, Slots, Users

LEMMA KnownInvariant == ASSUME NamesKept PROVE Spec => [](IInv /\ KnownInv)
<1>1. Init => IInv /\ KnownInv
  BY InitIInv, InitKnown
<1>2. IInv /\ KnownInv /\ [Next]_vars => (IInv /\ KnownInv)'
  BY IInvStep, KnownStep
<1> QED
  BY <1>1, <1>2, PTL DEF Spec

\* When files keep their names, the watcher knows every window under the files it uses, and
\* under no other: none that is closed (start_stop_watcher, FLWindow::closeWindow).
THEOREM WatcherKnowsTheWindows == ASSUME NamesKept PROVE Spec => []WatchedUnderItsFiles
<1>1. KnownInv => WatchedUnderItsFiles
  BY DEF KnownInv
<1> QED
  BY <1>1, KnownInvariant, PTL

\* When files keep their names, the windows that the loop of fileChanged is going to call are
\* open, whatever was closed since the list was made (FLFileWatcher.cpp:157).
THEOREM LoopsCallOpenWindows == ASSUME NamesKept PROVE Spec => []LoopCallsOpenWindows
<1>1. IInv /\ KnownInv => LoopCallsOpenWindows
  <2> SUFFICES ASSUME IInv, KnownInv, NEW w \in queue, w \in fMap[fSourceToChanged]
               PROVE  w \in open
    BY DEF LoopCallsOpenWindows, KnownInv
  <2>1. fSourceToChanged \in Files /\ w \in Windows /\ w # win
    BY DEF IInv, ControlInv, TypeOK, KnownInv
  <2> QED
    BY <2>1 DEF KnownInv, WatchedUnderItsFiles
<1> QED
  BY <1>1, KnownInvariant, PTL

=============================================================================
