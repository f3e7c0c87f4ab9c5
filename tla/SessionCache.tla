---------------------------- MODULE SessionCache ----------------------------
(***************************************************************************)
(* What FaustLive keeps on the disk of its session, and what it makes of it *)
(* at the next start: the SHA folder, which holds the program of each key;  *)
(* the settings, which give each window its Path and its SHA; and the copy  *)
(* of its program in the folder of each window.  A snapshot is a copy of    *)
(* the three.                                                               *)
(*                                                                         *)
(* A program stands for its SHA key (an injection, with fixed options), and *)
(* the settings are on the disk as soon as they are written, between two    *)
(* events at the latest.  An update that its audio driver refuses leaves    *)
(* the same settings as one that succeeds (see WindowLifecycle), so "the    *)
(* program of a window" is here the one of its settings.                    *)
(***************************************************************************)
EXTENDS Naturals, FiniteSets

CONSTANTS
  MaxWindows,   \* numberWindows
  MaxNumber,    \* bound: the greatest number of a window
  MaxFolders,   \* kMaxSHAFolders
  Files, Codes,
  Default,      \* the program of an empty window
  Pasted,       \* programs that users drop, type or paste, without a file
  Importing,    \* programs with dependencies
  None,
  MaxChanges,   \* bound: how many programs are brought in and snapshots taken
  MayCrash,     \* may the program be killed
  MaySnapshot   \* may the user take, recall and import snapshots

\* What the session, or a snapshot, knows of a window.
SavedWindow == [path : Files \cup {None}, sha : Codes, copy : Codes \cup {None}, kept : BOOLEAN]

ASSUME SessionCacheAssumption ==
  /\ {MaxWindows, MaxNumber, MaxFolders} \subseteq Nat \ {0} /\ MaxChanges \in Nat
  /\ Default \in Codes /\ Importing \subseteq Codes /\ Pasted \subseteq Codes
  /\ Files \cap Codes = {} /\ None \notin Files \cup Codes \cup SavedWindow
  /\ {MayCrash, MaySnapshot} \subseteq BOOLEAN

Windows == 1 .. MaxNumber

VARIABLES
  disk,       \* what each file contains (None: there is no such file)
  changes,    \* how many programs were brought in, and snapshots taken
  folders,    \* the SHA folder: <<c, d>> if the folder of c is not younger than that of d
  emptied,    \* those of its folders that hold no program
  groups,     \* the windows that the settings describe
  path, sha,  \* their Path and SHA settings
  copies,     \* FLW-i.dsp in the folder of each window
  snapshot,   \* the last snapshot
  app,        \* what the application does
  open,       \* FLW_List
  todo,       \* the windows left in its loop
  restored,   \* windowIndexToSource
  again,      \* is it the second try of recall_CurrentSession
  wanted,     \* ghost, but for its copies: the window that each one left should be
  touched     \* ghost: the files changed since a restoration began

settings == <<groups, path, sha>>
files == <<disk, changes>>
restoring == <<todo, restored, again, wanted, touched>>
cache == <<folders, emptied>>
vars == <<files, cache, settings, copies, snapshot, app, open, restoring>>

Nothing == [w \in Windows |-> None]

Init ==
  /\ disk \in [Files -> Codes \cup {None}] /\ changes = 0
  /\ folders = {} /\ emptied = {} /\ groups = {} /\ path = Nothing /\ sha = Nothing /\ copies = Nothing
  /\ snapshot = None
  /\ app = "running" /\ open = {}
  /\ todo = {} /\ restored = Nothing /\ again = FALSE
  /\ wanted = Nothing /\ touched = {}

-----------------------------------------------------------------------------
(* Helpers. *)

Smallest(S) == CHOOSE m \in S : \A n \in S : m <= n

CodeOf(s) == IF s \in Files THEN disk[s] ELSE s

\* The programs that have a folder, those whose folder is the oldest (two may have the same
\* date), and what is left without some.
Names(fs) == {c \in Codes : <<c, c>> \in fs}
Oldest(fs) == {c \in Names(fs) : \A d \in Names(fs) : <<c, d>> \in fs}
Without(fs, S) == {p \in fs : p[1] \notin S /\ p[2] \notin S}

\* The folders of S are made, or touched.
Youngest(fs, S) == Without(fs, S) \cup ((Names(fs) \cup S) \X S)

\* cleanSHAFolder: at most one folder is deleted, the one with the oldest date.
CleanSHAFolder(fs) ==
  IF Cardinality(Names(fs)) > MaxFolders THEN {Without(fs, {c}) : c \in Oldest(fs)} ELSE {fs}

\* updateFolderDate, for a folder that exists.
Touch(fs, c) == IF c \in Names(fs) THEN Youngest(fs, {c}) ELSE fs

\* start_stop_watcher writes the dependencies it has read again, if any, which changes the
\* date of the folder.
Watch(fs, c) == IF c \in Importing \ emptied THEN Touch(fs, c) ELSE fs

\* The folder that createFactory makes.  The date of one that exists changes only if its
\* bitcode is written too: when it has none, or one that cannot be read.
AddFolder(fs, c) == (IF c \in Names(fs) THEN {fs} ELSE {}) \cup {Youngest(fs, {c})}

HasProgram(c) == c \in Names(folders) \ emptied

\* createDSP, for the window w and the source s.
Describe(w, s) ==
  /\ groups' = groups \cup {w}
  /\ path' = [path EXCEPT ![w] = IF s \in Files THEN s ELSE None]
  /\ sha' = [sha EXCEPT ![w] = CodeOf(s)]

\* ~FLWinSettings.
Forget(w) ==
  /\ groups' = groups \ {w}
  /\ path' = [path EXCEPT ![w] = None]
  /\ sha' = [sha EXCEPT ![w] = None]

\* createFactory, which may fail before or after it wrote the program in its folder, and the
\* start of the watcher on the program that the window has after it.
Compile(fs, c, ok, watched) ==
  /\ ok => c # None
  /\ \E clean \in CleanSHAFolder(fs) :
       \/ /\ ~ok
          /\ folders' = Watch(clean, watched) /\ emptied' = emptied \cap Names(clean)
       \/ /\ c # None
          /\ \E more \in AddFolder(clean, c) : folders' = Watch(more, watched)
          /\ emptied' = (emptied \cap Names(clean)) \ {c}

\* FLApp::createWindow.  (The settings of a refused window are not even deleted.)
CreateWindow(w, s) ==
  \/ /\ Cardinality(open) < MaxWindows
     /\ \/ Compile(folders, CodeOf(s), TRUE, CodeOf(s)) /\ Describe(w, s) /\ open' = open \cup {w}
        \/ Compile(folders, CodeOf(s), FALSE, None) /\ Forget(w) /\ UNCHANGED open
  \/ /\ Cardinality(open) >= MaxWindows
     /\ UNCHANGED <<cache, settings, open>>

\* The compilation of an update.
Recompile(w, s) ==
  \/ Compile(Watch(folders, sha[w]), CodeOf(s), TRUE, CodeOf(s)) /\ Describe(w, s)
  \/ Compile(Watch(folders, sha[w]), CodeOf(s), FALSE, sha[w]) /\ UNCHANGED settings

Change == changes < MaxChanges /\ changes' = changes + 1

-----------------------------------------------------------------------------
(* The windows, while the application runs. *)

NewWindow(s) ==
  /\ app = "running" /\ open # Windows /\ Change
  /\ CreateWindow(Smallest(Windows \ open), s)
  /\ UNCHANGED <<disk, copies, snapshot, app, restoring>>

UpdateWindow(w, s) ==
  /\ app = "running" /\ w \in open /\ Change
  /\ Recompile(w, s)
  /\ UNCHANGED <<disk, copies, snapshot, app, open, restoring>>

\* The watcher saw the file of the window change.
SelfUpdate(w) ==
  /\ app = "running" /\ w \in open /\ path[w] # None /\ disk[path[w]] \notin {None, sha[w]}
  /\ Recompile(w, path[w])
  /\ UNCHANGED <<files, copies, snapshot, app, open, restoring>>

SourceDeleted(w) ==
  /\ app = "running" /\ w \in open /\ path[w] # None /\ disk[path[w]] = None
  /\ path' = [path EXCEPT ![w] = None]
  /\ UNCHANGED <<files, cache, groups, sha, copies, snapshot, app, open, restoring>>

\* FLWindow::edit.
Edit(w) ==
  /\ app = "running" /\ w \in open /\ path[w] # None
  /\ folders' = Touch(folders, sha[w])
  /\ UNCHANGED <<files, emptied, settings, copies, snapshot, app, open, restoring>>

\* shutWindow, called by the user or by recall_Snapshot: the folder of the window goes too.
ShutWindow(w) ==
  /\ app \in {"running", "shutting"} /\ w \in open
  /\ folders' = Watch(folders, sha[w])
  /\ Forget(w)
  /\ copies' = [copies EXCEPT ![w] = None]
  /\ open' = open \ {w}
  /\ UNCHANGED <<files, emptied, snapshot, app, restoring>>

\* Another program writes or deletes a file, at any time.
ChangeFile(f, c) ==
  /\ Change /\ c # disk[f]
  /\ disk' = [disk EXCEPT ![f] = c]
  /\ touched' = IF app = "recalling" THEN touched \cup {f} ELSE touched
  /\ UNCHANGED <<cache, settings, copies, snapshot, app, open, todo, restored, again, wanted>>

-----------------------------------------------------------------------------
(* Quitting, being killed, and starting again. *)

\* closeAllWindows: the windows are closed, their settings and folders stay.
Quit ==
  /\ app = "running"
  /\ app' = "closing"
  /\ wanted' = [w \in Windows |-> IF w \in groups THEN
       [path |-> path[w], sha |-> sha[w], copy |-> None, kept |-> HasProgram(sha[w])] ELSE None]
  /\ UNCHANGED <<files, cache, settings, copies, snapshot, open, todo, restored, again, touched>>

CloseWindow(w) ==
  /\ app = "closing" /\ w \in open
  /\ folders' = Watch(folders, sha[w])
  /\ open' = open \ {w}
  /\ UNCHANGED <<files, emptied, settings, copies, snapshot, app, restoring>>

\* Variant: the windows of FLW_List, which was just emptied.
SaveOpenSources ==
  /\ app = "closing" /\ open = {}
  /\ app' = "saving" /\ todo' = open
  /\ UNCHANGED <<files, cache, settings, copies, snapshot, open, restored, again, wanted, touched>>

\* saveCurrentSources, for every window of the settings: the copy is removed, ...
SaveSources ==
  /\ app = "closing" /\ open = {}
  /\ app' = "saving" /\ todo' = groups
  /\ UNCHANGED <<files, cache, settings, copies, snapshot, open, restored, again, wanted, touched>>

\* Variant: it is not removed.
RemoveNoCopy ==
  /\ app = "saving" /\ todo # {}
  /\ app' = "copying"
  /\ UNCHANGED <<files, cache, settings, copies, snapshot, open, restoring>>

RemoveCopy ==
  /\ app = "saving" /\ todo # {}
  /\ app' = "copying"
  /\ copies' = [copies EXCEPT ![Smallest(todo)] = None]
  /\ UNCHANGED <<files, cache, settings, snapshot, open, restoring>>

\* ... and made again, from the SHA folder if it is still there.  (QFile::copy does
\* nothing when its destination exists.)
CopySource ==
  /\ app = "copying"
  /\ app' = "saving"
  /\ LET w == Smallest(todo) IN
     /\ copies' = IF copies[w] = None /\ HasProgram(sha[w])
                  THEN [copies EXCEPT ![w] = sha[w]] ELSE copies
     /\ todo' = todo \ {w}
  /\ UNCHANGED <<files, cache, settings, snapshot, open, restored, again, wanted, touched>>

End ==
  /\ app = "saving" /\ todo = {}
  /\ app' = "off"
  /\ UNCHANGED <<files, cache, settings, copies, snapshot, open, restoring>>

Crash ==
  /\ MayCrash /\ app # "off"
  /\ app' = "off" /\ open' = {}
  /\ todo' = {} /\ restored' = Nothing /\ again' = FALSE /\ wanted' = Nothing /\ touched' = {}
  /\ UNCHANGED <<files, cache, settings, copies, snapshot>>

\* The program is started to open a file: the session is not restored.
StartWithFile(f) ==
  /\ app = "off" /\ disk[f] # None /\ Change
  /\ app' = "running"
  /\ CreateWindow(1, f)
  /\ wanted' = Nothing
  /\ UNCHANGED <<disk, copies, snapshot, todo, restored, again, touched>>

\* currentSessionRestoration, window after window.
Start ==
  /\ app = "off"
  /\ app' = "reading" /\ todo' = groups
  /\ UNCHANGED <<files, cache, settings, copies, snapshot, open, restored, again, wanted, touched>>

\* The windows of the same path that were treated before.
Treated(w) == {v \in groups \ todo : path[v] = path[w] /\ restored[v] # None}

\* The sources that the rules, and the answers of the user, can give to the window.
SessionSources(w) ==
  CASE copies[w] = None -> {None}
    [] copies[w] # None /\ path[w] = None -> {copies[w]}
    [] copies[w] # None /\ path[w] # None ->
         IF Treated(w) # {} THEN {restored[Smallest(Treated(w))]}
         ELSE IF disk[path[w]] = None THEN {copies[w], Default}
         ELSE IF disk[path[w]] # copies[w] THEN {copies[w], path[w]}
         ELSE {path[w]}

ReadNext ==
  /\ app = "reading" /\ todo # {}
  /\ LET w == Smallest(todo) IN
     /\ \E s \in SessionSources(w) : restored' = [restored EXCEPT ![w] = s]
     /\ todo' = todo \ {w}
  /\ UNCHANGED <<files, cache, settings, copies, snapshot, app, open, again, wanted, touched>>

ToCreate == {w \in Windows : restored[w] # None}

\* restoreSession.
RestoreSession ==
  /\ app = "reading" /\ todo = {}
  /\ app' = "creating" /\ todo' = ToCreate
  /\ UNCHANGED <<files, cache, settings, copies, snapshot, open, restored, again, wanted, touched>>

CreateNext ==
  /\ app \in {"creating", "recalling"} /\ todo # {}
  /\ CreateWindow(Smallest(todo), restored[Smallest(todo)])
  /\ todo' = todo \ {Smallest(todo)}
  /\ copies' = [copies EXCEPT ![Smallest(todo)] = IF app = "recalling" THEN wanted[Smallest(todo)].copy ELSE @]
  /\ UNCHANGED <<files, snapshot, app, restored, again, wanted, touched>>

\* No window at all could be created: another driver is tried, once.
TryAgain ==
  /\ app = "creating" /\ todo = {} /\ open = {} /\ ToCreate # {} /\ ~again
  /\ again' = TRUE /\ todo' = ToCreate
  /\ UNCHANGED <<files, cache, settings, copies, snapshot, app, open, restored, wanted, touched>>

EndRestoring ==
  /\ app \in {"creating", "recalling"} /\ todo = {}
  /\ app = "recalling" \/ open # {} \/ ToCreate = {} \/ again
  /\ app' = "running"
  /\ restored' = Nothing /\ again' = FALSE /\ wanted' = Nothing /\ touched' = {}
  /\ UNCHANGED <<files, cache, settings, copies, snapshot, open, todo>>

-----------------------------------------------------------------------------
(* Snapshots. *)

\* createSnapshot: the folders of the programs, be they empty or gone, and those of the
\* windows, whose copies are made again.
TakeSnapshot ==
  /\ MaySnapshot /\ app = "running" /\ Change
  /\ snapshot' = [groups |-> groups, path |-> path, sha |-> sha,
                  copies |-> [w \in Windows |-> IF HasProgram(sha[w]) THEN sha[w] ELSE None]]
  /\ UNCHANGED <<disk, cache, settings, copies, app, open, restoring>>

\* recall_Snapshot begins by closing the windows, unless the snapshot is imported.
RecallSnapshot ==
  /\ app = "running" /\ snapshot # None
  /\ app' = "shutting"
  /\ UNCHANGED <<files, cache, settings, copies, snapshot, open, restoring>>

\* Variant: a file that exists is not compared with its copy.
SnapshotSourceUnchecked(w) ==
  LET p == snapshot.path[w] IN
  IF p # None /\ disk[p] # None THEN p
  ELSE IF snapshot.copies[w] = None THEN Default ELSE snapshot.copies[w]

\* snapshotRestoration for the window w; nobody is asked.
SnapshotSource(w) ==
  LET p == snapshot.path[w]
      first == IF p = None THEN w ELSE Smallest({v \in snapshot.groups : snapshot.path[v] = p})
      copy == IF snapshot.copies[first] = None THEN Default ELSE snapshot.copies[first]
  IN IF p # None /\ disk[p] # None /\ disk[p] = snapshot.copies[first] THEN p ELSE copy

\* Variant: the numbers of the open windows are not looked at.
NewNumbersFromOne ==
  {number \in [snapshot.groups -> Windows] :
     \A w \in snapshot.groups : number[w] = Cardinality({v \in snapshot.groups : v <= w})}

\* Imported windows take the smallest numbers that are free.
NewNumbers ==
  {number \in [snapshot.groups -> Windows] :
     \A w \in snapshot.groups :
       /\ number[w] \notin open
       /\ Cardinality((1 .. number[w]) \ open) = Cardinality({v \in snapshot.groups : v <= w})}

\* copySHAFolder, which replaces the folders of the session by those of the snapshot,
\* snapshotRestoration, and the folder of each window, found again under its own number
\* only; number gives the windows of the snapshot their new numbers.
Extract(number) ==
  LET old(n) == CHOOSE w \in snapshot.groups : number[w] = n
      programs == {snapshot.sha[w] : w \in snapshot.groups}
  IN
  /\ app' = "recalling"
  /\ folders' = Youngest(folders, programs)
  /\ emptied' = (emptied \ programs) \cup (programs \ {snapshot.copies[w] : w \in snapshot.groups})
  /\ todo' = {number[w] : w \in snapshot.groups}
  /\ restored' = [n \in Windows |-> IF n \in todo' THEN SnapshotSource(old(n)) ELSE None]
  /\ wanted' = [n \in Windows |-> IF n \in todo' THEN
       [path |-> snapshot.path[old(n)], sha |-> snapshot.sha[old(n)],
        copy |-> IF old(n) = n THEN snapshot.copies[n] ELSE None,
        kept |-> snapshot.copies[old(n)] # None] ELSE None]
  /\ UNCHANGED <<files, settings, copies, snapshot, open, again, touched>>

ExtractRecalled ==
  /\ app = "shutting" /\ open = {}
  /\ Extract([w \in snapshot.groups |-> w])

ImportSnapshot ==
  /\ app = "running" /\ snapshot # None
  /\ \E number \in NewNumbers : Extract(number)

User ==
  \/ \E s \in Files \cup Pasted : NewWindow(s)
  \/ \E w \in Windows, s \in Files \cup Pasted : UpdateWindow(w, s)
  \/ \E w \in Windows : Edit(w) \/ ShutWindow(w)
  \/ Quit \/ Start \/ \E f \in Files : StartWithFile(f)
  \/ TakeSnapshot \/ RecallSnapshot \/ ImportSnapshot

Application ==
  \/ \E w \in Windows : SelfUpdate(w) \/ SourceDeleted(w) \/ CloseWindow(w)
  \/ SaveSources \/ RemoveCopy \/ CopySource \/ End
  \/ ReadNext \/ RestoreSession \/ CreateNext \/ TryAgain \/ EndRestoring
  \/ ExtractRecalled

Next ==
  \/ User \/ Application \/ Crash
  \/ \E f \in Files, c \in Codes \cup {None} : ChangeFile(f, c)

Spec == Init /\ [][Next]_vars

-----------------------------------------------------------------------------
(* Properties. *)

MaybeCode == Codes \cup {None}

\* Every variable holds a value of its type, every folder of the SHA folder has a date, and
\* every window on the screen is described by the settings.
TypeOK ==
  /\ disk \in [Files -> MaybeCode] /\ changes \in 0 .. MaxChanges
  /\ folders \subseteq Codes \X Codes /\ emptied \subseteq Names(folders)
  /\ \A c, d \in Names(folders) : <<c, d>> \in folders \/ <<d, c>> \in folders
  /\ groups \subseteq Windows /\ open \subseteq groups /\ Cardinality(open) <= MaxWindows
  /\ path \in [Windows -> Files \cup {None}] /\ sha \in [Windows -> MaybeCode]
  /\ \A w \in Windows : w \in groups <=> sha[w] # None
  /\ copies \in [Windows -> MaybeCode]
  /\ app \in {"running", "closing", "saving", "copying", "off", "reading", "creating",
              "shutting", "recalling"}
  /\ todo \subseteq Windows /\ restored \in [Windows -> Files \cup MaybeCode]
  /\ again \in BOOLEAN /\ wanted \in [Windows -> SavedWindow \cup {None}] /\ touched \subseteq Files

\* A window has the program of its settings back (or the one of a window of the same path).
SameSource(w) ==
  {w} \cup {v \in Windows : wanted[v] # None /\ wanted[v].path # None /\ wanted[v].path = wanted[w].path}
HasItsProgram(w) == \E v \in SameSource(w) : sha[w] = wanted[v].sha

\* "When you quit FaustLive, the state of the application is saved, so that it can be recalled
\* at the next execution of FaustLive" (UserManual.tex:231): every window of the settings whose
\* program was in the SHA folder when the user quit is created again at the next start,
\* whatever crashes, evictions, snapshots and other sessions came before.
WindowsComeBack ==
  app = "creating" => \A w \in Windows : wanted[w] # None /\ wanted[w].kept => restored[w] # None

\* A window that is created again has the program it had, or its file, or, when the file is
\* gone, what the user chose instead: never a program left by an earlier session.
RestoredAsSaved ==
  app = "creating" => \A w \in open : wanted[w] # None =>
    \/ HasItsProgram(w)
    \/ wanted[w].path # None /\ path[w] = wanted[w].path
    \/ wanted[w].path # None /\ path[w] = None /\ sha[w] = Default

\* The types, and what is created again.
SessionInv == TypeOK /\ RestoredAsSaved

\* "Recall Snapshot: closes all the current windows to restore the exact state that you saved
\* in your snapshot" (UserManual.tex:214): a window whose program was in the SHA folder when
\* the snapshot was taken, with those of the other windows of its path, has this program,
\* wherever its file and the SHA folder have gone since, unless its file changes while the
\* snapshot is recalled.
RecalledAsTaken ==
  app = "recalling" =>
    \A w \in open : wanted[w] # None /\ (\A v \in SameSource(w) : wanted[v].kept) =>
      HasItsProgram(w) \/ path[w] \in touched

\* "Import Snapshot: adds the content of your snapshot to the current state of the application"
\* (UserManual.tex:215): no window that is open is changed, neither its settings nor its folder.
ImportKeepsWindows ==
  [][app' = "recalling" =>
       \A w \in open : w \in open' /\ path'[w] = path[w] /\ sha'[w] = sha[w] /\ copies'[w] = copies[w]]_vars
=============================================================================
