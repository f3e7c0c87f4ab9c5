------------------------ MODULE SessionCache_proofs ------------------------
(***************************************************************************)
(* Proofs about SessionCache, for any windows, files, programs and limits:  *)
(* what was in the SHA folder when a session, or a snapshot, was saved is   *)
(* what its windows get back, whatever came before; and a snapshot that is  *)
(* imported leaves the windows alone.                                       *)
(***************************************************************************)
EXTENDS SessionCache, FiniteSetTheorems, WellFoundedInduction, TLAPS

-----------------------------------------------------------------------------
(* Numbers of windows. *)

LEMMA WindowsFinite ==
  /\ Windows \subseteq Nat
  /\ \A S \in SUBSET Windows : IsFiniteSet(S) /\ Cardinality(S) \in Nat
<1>1. MaxNumber \in Nat
  BY SessionCacheAssumption DEF SessionCacheAssumption
<1>2. IsFiniteSet(Windows)
  BY <1>1, FS_Interval DEF Windows
<1>3. \A S \in SUBSET Windows : IsFiniteSet(S)
  BY <1>2, FS_Subset
<1>4. \A S \in SUBSET Windows : Cardinality(S) \in Nat
  BY <1>3, FS_CardinalityType
<1> QED
  BY <1>1, <1>3, <1>4 DEF Windows

\* Strict inclusion is well-founded on finite sets: a number below which there are the fewest
\* is the smallest.
LEMMA SmallestIn ==
  ASSUME NEW S \in SUBSET Windows, S # {}
  PROVE  Smallest(S) \in S /\ \A n \in S : Smallest(S) <= n
<1> DEFINE Below(m) == {n \in S : n <= m}
           T == {Below(m) : m \in S}
<1>1. S \subseteq Nat /\ IsFiniteSet(S)
  BY WindowsFinite
<1>2. T \subseteq FiniteSubsetsOf(S)
  <2>1. T \subseteq SUBSET S
    OBVIOUS
  <2> QED
    BY <1>1, <2>1, FS_FiniteSubsetsOfFinite
<1>3. T # {}
  OBVIOUS
<1>4. PICK x \in T : \A y \in T : <<y, x>> \notin StrictSubsetOrdering(S)
  BY <1>2, <1>3, WFMin, FS_StrictSubsetOrderingWellFounded
<1>5. PICK m \in S : x = Below(m)
  BY <1>4
<1>6. ASSUME NEW n \in S, n < m PROVE FALSE
  <2>1. Below(n) \subseteq Below(m)
    <3> SUFFICES ASSUME NEW k \in S, k <= n PROVE k <= m
      OBVIOUS
    <3>1. k \in Nat /\ n \in Nat /\ m \in Nat
      BY <1>1
    <3> QED
      BY <1>6, <3>1
  <2>2. m \in Below(m) /\ m \notin Below(n)
    BY <1>1, <1>6
  <2>3. Below(n) \in T /\ Below(n) \in SUBSET S /\ Below(m) \in SUBSET S
    OBVIOUS
  <2> HIDE DEF Below
  <2> QED
    BY <1>4, <1>5, <2>1, <2>2, <2>3 DEF StrictSubsetOrdering
<1>7. \A n \in S : m <= n
  BY <1>1, <1>6
<1> HIDE DEF T
<1> QED
  BY <1>7 DEF Smallest

-----------------------------------------------------------------------------
(* The SHA folder. *)

\* The dates of folders compare.
DatesOK(fs) ==
  /\ fs \subseteq Codes \X Codes
  /\ \A c, d \in Names(fs) : <<c, d>> \in fs \/ <<d, c>> \in fs

LEMMA YoungestNames ==
  ASSUME NEW fs, DatesOK(fs), NEW S \in SUBSET Codes
  PROVE  DatesOK(Youngest(fs, S)) /\ Names(Youngest(fs, S)) = Names(fs) \cup S
<1>1. Names(fs) \subseteq Codes
  BY DEF Names
<1>2. Names(Youngest(fs, S)) = Names(fs) \cup S
  BY <1>1 DEF Names, Youngest, Without
<1>3. Youngest(fs, S) \subseteq Codes \X Codes
  BY <1>1 DEF DatesOK, Youngest, Without
<1>4. \A c, d \in Names(fs) \cup S : <<c, d>> \in Youngest(fs, S) \/ <<d, c>> \in Youngest(fs, S)
  BY DEF DatesOK, Youngest, Without
<1> QED
  BY <1>2, <1>3, <1>4 DEF DatesOK

LEMMA TouchNames ==
  ASSUME NEW fs, DatesOK(fs), NEW c
  PROVE  DatesOK(Touch(fs, c)) /\ Names(Touch(fs, c)) = Names(fs)
<1>1. c \in Names(fs) => c \in Codes /\ Names(fs) \cup {c} = Names(fs)
  BY DEF Names
<1> QED
  BY <1>1, YoungestNames DEF Touch

LEMMA WatchNames ==
  ASSUME NEW fs, DatesOK(fs), NEW c
  PROVE  DatesOK(Watch(fs, c)) /\ Names(Watch(fs, c)) = Names(fs)
  BY TouchNames DEF Watch

LEMMA CleanNames ==
  ASSUME NEW fs, DatesOK(fs), NEW clean \in CleanSHAFolder(fs)
  PROVE  DatesOK(clean) /\ Names(clean) \subseteq Names(fs)
<1>1. ASSUME NEW c PROVE DatesOK(Without(fs, {c})) /\ Names(Without(fs, {c})) \subseteq Names(fs)
  BY DEF DatesOK, Without, Names
<1> QED
  BY <1>1 DEF CleanSHAFolder

\* createFactory, whatever becomes of it.
LEMMA CompileCache ==
  ASSUME NEW fs, DatesOK(fs), NEW c \in Codes \cup {None}, NEW ok, NEW watched,
         Compile(fs, c, ok, watched)
  PROVE  DatesOK(folders') /\ emptied' \subseteq Names(folders')
<1>1. PICK clean \in CleanSHAFolder(fs) :
        \/ folders' = Watch(clean, watched) /\ emptied' = emptied \cap Names(clean)
        \/ /\ c # None
           /\ \E more \in AddFolder(clean, c) : folders' = Watch(more, watched)
           /\ emptied' = (emptied \cap Names(clean)) \ {c}
  BY DEF Compile
<1>2. DatesOK(clean)
  BY CleanNames
<1>3. CASE folders' = Watch(clean, watched) /\ emptied' = emptied \cap Names(clean)
  BY <1>2, <1>3, WatchNames
<1>4. CASE /\ c # None
           /\ \E more \in AddFolder(clean, c) : folders' = Watch(more, watched)
           /\ emptied' = (emptied \cap Names(clean)) \ {c}
  <2>1. PICK more \in AddFolder(clean, c) : folders' = Watch(more, watched)
    BY <1>4
  <2>2. DatesOK(more) /\ Names(clean) \subseteq Names(more)
    <3>1. DatesOK(Youngest(clean, {c})) /\ Names(clean) \subseteq Names(Youngest(clean, {c}))
      BY <1>2, <1>4, YoungestNames
    <3> QED
      BY <1>2, <3>1 DEF AddFolder
  <2>3. DatesOK(folders') /\ Names(folders') = Names(more)
    BY <2>1, <2>2, WatchNames
  <2> QED
    BY <1>4, <2>2, <2>3
<1> QED
  BY <1>1, <1>3, <1>4

-----------------------------------------------------------------------------
(* The inductive invariant. *)

\* What a window restored from the session may be made of: its program or that of a window
\* of the same path, its file, or, if it has a path, the empty program.
Fits(w) ==
  \/ \E v \in SameSource(w) : restored[w] = wanted[v].sha
  \/ wanted[w].path # None /\ restored[w] \in {wanted[w].path, Default}

\* What a window recalled from a snapshot may be made of.
RecallFits(w) ==
  (\A v \in SameSource(w) : wanted[v].kept) =>
    \/ \E v \in SameSource(w) : restored[w] = wanted[v].sha
    \/ /\ restored[w] \in Files
       /\ restored[w] \in touched \/ \E v \in SameSource(w) : disk[restored[w]] = wanted[v].sha

CopyFits(w) ==
  copies[w] \in {None, sha[w]} /\ (wanted[w].kept => copies[w] = sha[w])

SnapshotType ==
  [groups : SUBSET Windows, path : [Windows -> Files \cup {None}],
   sha : [Windows -> MaybeCode], copies : [Windows -> MaybeCode]]

SnapshotInv ==
  snapshot # None =>
    /\ snapshot \in SnapshotType
    /\ \A w \in snapshot.groups : snapshot.sha[w] # None /\ snapshot.copies[w] \in {None, snapshot.sha[w]}

LoopInv ==
  /\ app \in {"saving", "copying", "off", "reading"} => open = {}
  /\ app \in {"saving", "copying", "reading"} => todo \subseteq groups
  /\ app = "copying" => todo # {} /\ copies[Smallest(todo)] = None
  /\ app \notin {"reading", "creating", "recalling"} => restored = Nothing
  /\ app \in {"creating", "recalling"} => todo \cap open = {}
  /\ app \in {"creating", "recalling"} => \A w \in todo : restored[w] # None
  /\ app = "shutting" => snapshot # None

SavedInv ==
  /\ app \in {"closing", "saving", "copying", "off", "reading"} =>
       /\ \A w \in Windows : wanted[w] # None =>
            w \in groups /\ wanted[w].path = path[w] /\ wanted[w].sha = sha[w]
       /\ (\A w \in groups : wanted[w] # None) \/ (\A w \in Windows : wanted[w] = None)
  /\ app \in {"closing", "saving", "copying"} =>
       \A w \in Windows : wanted[w] # None /\ wanted[w].kept => HasProgram(sha[w])
  /\ app \in {"saving", "copying"} => \A w \in groups \ todo : wanted[w] # None => CopyFits(w)
  /\ app \in {"off", "reading"} => \A w \in Windows : wanted[w] # None => CopyFits(w)

RestoredInv ==
  /\ app = "reading" => \A w \in Windows : restored[w] # None => w \in groups \ todo
  /\ app = "reading" => \A w \in groups \ todo : wanted[w] # None =>
       (restored[w] # None => Fits(w)) /\ (wanted[w].kept => restored[w] # None)
  /\ app = "creating" => \A w \in Windows : wanted[w] # None =>
       (restored[w] # None => Fits(w)) /\ (wanted[w].kept => restored[w] # None)
  /\ app = "creating" => \A w \in open :
       \/ restored[w] \in Files /\ path[w] = restored[w]
       \/ restored[w] \in Codes /\ path[w] = None /\ sha[w] = restored[w]

RecalledInv ==
  app = "recalling" =>
    /\ \A w \in todo : wanted[w] # None /\ RecallFits(w)
    /\ RecalledAsTaken

IInv == TypeOK /\ SnapshotInv /\ LoopInv /\ SavedInv /\ RestoredInv /\ RecalledInv

-----------------------------------------------------------------------------
(* The settings, and the operations on them that actions share. *)

SettingsOK ==
  /\ groups \subseteq Windows /\ open \subseteq groups /\ Cardinality(open) <= MaxWindows
  /\ path \in [Windows -> Files \cup {None}] /\ sha \in [Windows -> MaybeCode]
  /\ \A w \in Windows : w \in groups <=> sha[w] # None

CacheOK == DatesOK(folders) /\ emptied \subseteq Names(folders)

RestOK ==
  /\ disk \in [Files -> MaybeCode] /\ changes \in 0 .. MaxChanges
  /\ copies \in [Windows -> MaybeCode]
  /\ app \in {"running", "closing", "saving", "copying", "off", "reading", "creating",
              "shutting", "recalling"}
  /\ todo \subseteq Windows /\ restored \in [Windows -> Files \cup MaybeCode]
  /\ again \in BOOLEAN /\ wanted \in [Windows -> SavedWindow \cup {None}] /\ touched \subseteq Files

LEMMA TypeParts == TypeOK <=> CacheOK /\ SettingsOK /\ RestOK
  BY DEF TypeOK, CacheOK, DatesOK, SettingsOK, RestOK

LEMMA TypePartsNext == TypeOK' <=> CacheOK' /\ SettingsOK' /\ RestOK'
  BY DEF TypeOK, CacheOK, DatesOK, SettingsOK, RestOK

LEMMA NoneIsNone == None \notin Files /\ None \notin Codes /\ None \notin SavedWindow /\ Files \cap Codes = {}
  BY SessionCacheAssumption DEF SessionCacheAssumption

LEMMA CodeOfType ==
  ASSUME RestOK, NEW s \in Files \cup Codes
  PROVE  CodeOf(s) \in MaybeCode
  BY DEF RestOK, CodeOf, MaybeCode

\* createDSP describes the window, with a program.
LEMMA DescribeSettings ==
  ASSUME SettingsOK, RestOK, NEW w \in Windows, NEW s \in Files \cup Codes, CodeOf(s) # None,
         Describe(w, s), open' = open \/ (open' = open \cup {w} /\ Cardinality(open) < MaxWindows)
  PROVE  /\ SettingsOK'
         /\ path'[w] = (IF s \in Files THEN s ELSE None) /\ sha'[w] = CodeOf(s)
         /\ \A v \in Windows \ {w} : path'[v] = path[v] /\ sha'[v] = sha[v]
<1>1. CodeOf(s) \in Codes
  BY CodeOfType DEF MaybeCode
<1>2. /\ groups' \subseteq Windows /\ open' \subseteq groups'
      /\ path' \in [Windows -> Files \cup {None}] /\ sha' \in [Windows -> MaybeCode]
      /\ path'[w] = (IF s \in Files THEN s ELSE None) /\ sha'[w] = CodeOf(s)
      /\ \A v \in Windows \ {w} : path'[v] = path[v] /\ sha'[v] = sha[v]
  BY <1>1 DEF SettingsOK, Describe, MaybeCode
<1>3. \A v \in Windows : v \in groups' <=> sha'[v] # None
  BY <1>2 DEF SettingsOK, Describe
<1>4. Cardinality(open') <= MaxWindows
  <2>1. IsFiniteSet(open) /\ Cardinality(open) \in Nat /\ MaxWindows \in Nat
    BY WindowsFinite, SessionCacheAssumption DEF SettingsOK, SessionCacheAssumption
  <2>2. Cardinality(open \cup {w}) = IF w \in open THEN Cardinality(open) ELSE Cardinality(open) + 1
    BY <2>1, FS_AddElement
  <2> QED
    BY <2>1, <2>2 DEF SettingsOK
<1> QED
  BY <1>2, <1>3, <1>4 DEF SettingsOK

\* ~FLWinSettings removes the window from the settings.
LEMMA ForgetSettings ==
  ASSUME SettingsOK, NEW w \in Windows, Forget(w), w \notin open', open' \subseteq open,
         Cardinality(open') <= MaxWindows
  PROVE  /\ SettingsOK'
         /\ \A v \in Windows \ {w} : path'[v] = path[v] /\ sha'[v] = sha[v]
  BY DEF SettingsOK, Forget, MaybeCode

\* createWindow opens the window with its source, or leaves all others as they are.
LEMMA CreateWindowStep ==
  ASSUME CacheOK, SettingsOK, RestOK, NEW w \in Windows, w \notin open,
         NEW s \in Files \cup Codes, CreateWindow(w, s)
  PROVE  /\ CacheOK' /\ SettingsOK'
         /\ \A v \in Windows \ {w} : path'[v] = path[v] /\ sha'[v] = sha[v]
         /\ \/ open' = open
            \/ /\ open' = open \cup {w} /\ CodeOf(s) \in Codes
               /\ path'[w] = (IF s \in Files THEN s ELSE None) /\ sha'[w] = CodeOf(s)
<1> DEFINE c == CodeOf(s)
<1>0. c \in Codes \cup {None} /\ CodeOf(s) \in Codes \cup {None}
  BY CodeOfType DEF MaybeCode
<1>1. \/ /\ Cardinality(open) < MaxWindows
         /\ Compile(folders, c, TRUE, c) /\ Describe(w, s) /\ open' = open \cup {w}
      \/ Compile(folders, c, FALSE, None) /\ Forget(w) /\ UNCHANGED open
      \/ UNCHANGED <<cache, settings, open>>
  BY DEF CreateWindow
<1> HIDE DEF c
<1>2. CASE /\ Cardinality(open) < MaxWindows
           /\ Compile(folders, c, TRUE, c) /\ Describe(w, s) /\ open' = open \cup {w}
  <2>1. CacheOK'
    BY <1>0, <1>2, CompileCache DEF CacheOK
  <2>2. CodeOf(s) # None
    BY <1>2 DEF Compile, c
  <2> QED
    BY <1>0, <1>2, <2>1, <2>2, DescribeSettings
<1>3. CASE Compile(folders, c, FALSE, None) /\ Forget(w) /\ UNCHANGED open
  <2>1. CacheOK'
    BY <1>0, <1>3, CompileCache DEF CacheOK
  <2>2. Cardinality(open') <= MaxWindows
    BY <1>3 DEF SettingsOK
  <2> QED
    BY <1>3, <2>1, <2>2, ForgetSettings
<1>4. CASE UNCHANGED <<cache, settings, open>>
  BY <1>4 DEF cache, settings, CacheOK, DatesOK, Names, SettingsOK
<1> QED
  BY <1>1, <1>2, <1>3, <1>4

\* An update gives the window its new program, or leaves it as it is.
LEMMA RecompileStep ==
  ASSUME CacheOK, SettingsOK, RestOK, NEW w \in Windows, UNCHANGED open,
         NEW s \in Files \cup Codes, Recompile(w, s)
  PROVE  CacheOK' /\ SettingsOK'
<1> DEFINE c == CodeOf(s)
           fs == Watch(folders, sha[w])
<1>0. c \in Codes \cup {None}
  BY CodeOfType DEF MaybeCode
<1>1. DatesOK(fs)
  BY WatchNames DEF CacheOK
<1>2. \/ Compile(fs, c, TRUE, c) /\ Describe(w, s)
      \/ Compile(fs, c, FALSE, sha[w]) /\ UNCHANGED settings
  BY DEF Recompile
<1> HIDE DEF c, fs
<1>3. CacheOK'
  BY <1>0, <1>1, <1>2, CompileCache DEF CacheOK
<1>4. CASE Compile(fs, c, TRUE, c) /\ Describe(w, s)
  <2>1. CodeOf(s) # None
    BY <1>4 DEF Compile, c
  <2> QED
    BY <1>3, <1>4, <2>1, DescribeSettings
<1>5. CASE UNCHANGED settings
  BY <1>3, <1>5 DEF SettingsOK, settings
<1> QED
  BY <1>2, <1>4, <1>5

\* start_stop_watcher changes dates, no more.
LEMMA WatchStep ==
  ASSUME CacheOK, NEW c, folders' = Watch(folders, c) \/ folders' = Touch(folders, c), UNCHANGED emptied
  PROVE  CacheOK' /\ Names(folders') = Names(folders)
  BY WatchNames, TouchNames DEF CacheOK

-----------------------------------------------------------------------------
(* The invariant, step by step: the initial state, and what happens while the application
   runs, when nothing is being saved or restored. *)

LEMMA InitIInv == Init => IInv
<1> SUFFICES ASSUME Init PROVE IInv
  OBVIOUS
<1>1. CacheOK
  BY DEF Init, CacheOK, DatesOK, Names
<1>2. SettingsOK
  <2>1. Cardinality({}) <= MaxWindows
    BY FS_EmptySet, SessionCacheAssumption DEF SessionCacheAssumption
  <2> QED
    BY <2>1 DEF Init, SettingsOK, Nothing, MaybeCode
<1>3. RestOK
  <2>1. 0 \in 0 .. MaxChanges
    BY SessionCacheAssumption DEF SessionCacheAssumption
  <2>2. /\ Nothing \in [Windows -> MaybeCode] /\ Nothing \in [Windows -> Files \cup MaybeCode]
        /\ Nothing \in [Windows -> SavedWindow \cup {None}]
    BY DEF Nothing, MaybeCode
  <2>3. disk \in [Files -> MaybeCode]
    BY DEF Init, MaybeCode
  <2> QED
    BY <2>1, <2>2, <2>3 DEF Init, RestOK
<1>4. SnapshotInv /\ LoopInv /\ SavedInv /\ RestoredInv /\ RecalledInv
  BY DEF Init, SnapshotInv, LoopInv, SavedInv, RestoredInv, RecalledInv
<1> QED
  BY <1>1, <1>2, <1>3, <1>4, TypeParts DEF IInv

LEMMA Calm ==
  ASSUME CacheOK', SettingsOK', RestOK', SnapshotInv',
         app' \in {"running", "shutting"}, app' = "shutting" => snapshot' # None, restored' = Nothing
  PROVE  IInv'
<1>1. TypeOK'
  BY TypePartsNext
<1>2. LoopInv'
  BY DEF LoopInv
<1>3. SavedInv'
  BY DEF SavedInv
<1>4. RestoredInv'
  BY DEF RestoredInv
<1>5. RecalledInv'
  BY DEF RecalledInv
<1> QED
  BY <1>1, <1>2, <1>3, <1>4, <1>5 DEF IInv

\* The same, for what leaves the disk of the user, the copies and the restoration alone.
LEMMA CalmRest ==
  ASSUME IInv, CacheOK', SettingsOK', app = "running", app' \in {"running", "shutting"},
         app' = "shutting" => snapshot # None,
         changes' \in 0 .. MaxChanges, UNCHANGED <<disk, copies, snapshot, restoring>>
  PROVE  IInv'
<1>1. RestOK'
  BY TypeParts DEF IInv, RestOK, restoring
<1>2. SnapshotInv'
  BY DEF IInv, SnapshotInv
<1>3. restored' = Nothing
  BY DEF IInv, LoopInv, restoring, Nothing
<1> QED
  BY <1>1, <1>2, <1>3, Calm

LEMMA ChangeType == IInv /\ Change => changes' \in 0 .. MaxChanges
  BY SessionCacheAssumption DEF SessionCacheAssumption, IInv, TypeOK, Change

LEMMA SourceType == \A s \in Files \cup Pasted : s \in Files \cup Codes
  BY SessionCacheAssumption DEF SessionCacheAssumption

LEMMA NewWindowStep == IInv /\ (\E s \in Files \cup Pasted : NewWindow(s)) => IInv'
<1> SUFFICES ASSUME IInv, NEW s \in Files \cup Pasted, NewWindow(s) PROVE IInv'
  OBVIOUS
<1> DEFINE w == Smallest(Windows \ open)
<1>1. CacheOK /\ SettingsOK /\ RestOK
  BY TypeParts DEF IInv
<1>2. w \in Windows /\ w \notin open
  BY <1>1, SmallestIn DEF NewWindow, SettingsOK
<1>3. CreateWindow(w, s) /\ s \in Files \cup Codes
  BY SourceType DEF NewWindow
<1> HIDE DEF w
<1>4. CacheOK' /\ SettingsOK'
  BY <1>1, <1>2, <1>3, CreateWindowStep
<1> QED
  BY <1>4, ChangeType, CalmRest DEF NewWindow

LEMMA UpdateWindowStep ==
  IInv /\ (\E w \in Windows, s \in Files \cup Pasted : UpdateWindow(w, s)) => IInv'
<1> SUFFICES ASSUME IInv, NEW w \in Windows, NEW s \in Files \cup Pasted, UpdateWindow(w, s)
             PROVE  IInv'
  OBVIOUS
<1>1. CacheOK /\ SettingsOK /\ RestOK
  BY TypeParts DEF IInv
<1>2. CacheOK' /\ SettingsOK'
  BY <1>1, SourceType, RecompileStep DEF UpdateWindow
<1> QED
  BY <1>2, ChangeType, CalmRest DEF UpdateWindow

LEMMA SelfUpdateStep == IInv /\ (\E w \in Windows : SelfUpdate(w)) => IInv'
<1> SUFFICES ASSUME IInv, NEW w \in Windows, SelfUpdate(w) PROVE IInv'
  OBVIOUS
<1>1. CacheOK /\ SettingsOK /\ RestOK
  BY TypeParts DEF IInv
<1>2. path[w] \in Files \cup Codes
  BY <1>1 DEF SettingsOK, SelfUpdate
<1>3. CacheOK' /\ SettingsOK'
  BY <1>1, <1>2, RecompileStep DEF SelfUpdate
<1> QED
  BY <1>1, <1>3, CalmRest DEF SelfUpdate, files, RestOK

LEMMA SourceDeletedStep == IInv /\ (\E w \in Windows : SourceDeleted(w)) => IInv'
<1> SUFFICES ASSUME IInv, NEW w \in Windows, SourceDeleted(w) PROVE IInv'
  OBVIOUS
<1>1. CacheOK /\ SettingsOK /\ RestOK
  BY TypeParts DEF IInv
<1>2. CacheOK'
  BY <1>1 DEF SourceDeleted, cache, CacheOK, DatesOK, Names
<1>3. SettingsOK'
  BY <1>1 DEF SourceDeleted, SettingsOK
<1> QED
  BY <1>1, <1>2, <1>3, CalmRest DEF SourceDeleted, files, RestOK

LEMMA EditStep == IInv /\ (\E w \in Windows : Edit(w)) => IInv'
<1> SUFFICES ASSUME IInv, NEW w \in Windows, Edit(w) PROVE IInv'
  OBVIOUS
<1>1. CacheOK /\ SettingsOK /\ RestOK
  BY TypeParts DEF IInv
<1>2. CacheOK'
  BY <1>1, WatchStep DEF Edit
<1>3. SettingsOK'
  BY <1>1 DEF Edit, SettingsOK, settings
<1> QED
  BY <1>1, <1>2, <1>3, CalmRest DEF Edit, files, RestOK

LEMMA ShutWindowStep == IInv /\ (\E w \in Windows : ShutWindow(w)) => IInv'
<1> SUFFICES ASSUME IInv, NEW w \in Windows, ShutWindow(w) PROVE IInv'
  OBVIOUS
<1>1. CacheOK /\ SettingsOK /\ RestOK
  BY TypeParts DEF IInv
<1>2. CacheOK'
  BY <1>1, WatchStep DEF ShutWindow
<1>3. SettingsOK'
  <2>1. open' = open \ {w} /\ Forget(w)
    BY DEF ShutWindow
  <2>2. IsFiniteSet(open) /\ Cardinality(open) \in Nat /\ MaxWindows \in Nat
    BY <1>1, WindowsFinite, SessionCacheAssumption DEF SettingsOK, SessionCacheAssumption
  <2>3. Cardinality(open') = Cardinality(open) - 1
    BY <2>1, <2>2, FS_RemoveElement DEF ShutWindow
  <2>4. Cardinality(open') <= MaxWindows
    BY <1>1, <2>2, <2>3 DEF SettingsOK
  <2> QED
    BY <1>1, <2>1, <2>4, ForgetSettings
<1>4. RestOK'
  BY <1>1 DEF ShutWindow, RestOK, files, restoring, MaybeCode
<1>5. SnapshotInv' /\ restored' = Nothing
  BY DEF ShutWindow, IInv, SnapshotInv, LoopInv, restoring, Nothing
<1> QED
  BY <1>2, <1>3, <1>4, <1>5, Calm DEF ShutWindow, IInv, LoopInv

\* A snapshot: each copy is the program of its window.
LEMMA TakeSnapshotStep == IInv /\ TakeSnapshot => IInv'
<1> SUFFICES ASSUME IInv, TakeSnapshot PROVE IInv'
  OBVIOUS
<1>1. CacheOK /\ SettingsOK /\ RestOK
  BY TypeParts DEF IInv
<1>2. CacheOK' /\ SettingsOK'
  BY <1>1 DEF TakeSnapshot, cache, settings, CacheOK, DatesOK, Names, SettingsOK
<1>3. RestOK'
  BY <1>1, ChangeType DEF TakeSnapshot, RestOK, restoring
<1>4. SnapshotInv'
  <2> DEFINE kept == [w \in Windows |-> IF HasProgram(sha[w]) THEN sha[w] ELSE None]
  <2>1. snapshot' = [groups |-> groups, path |-> path, sha |-> sha, copies |-> kept]
    BY DEF TakeSnapshot
  <2>2. kept \in [Windows -> MaybeCode] /\ \A w \in Windows : kept[w] \in {None, sha[w]}
    BY <1>1 DEF SettingsOK, MaybeCode
  <2> HIDE DEF kept
  <2>3. snapshot' \in SnapshotType
    BY <1>1, <2>1, <2>2 DEF SnapshotType, SettingsOK
  <2>4. \A w \in groups : sha[w] # None
    BY <1>1 DEF SettingsOK
  <2>5. groups \subseteq Windows
    BY <1>1 DEF SettingsOK
  <2> QED
    BY <2>1, <2>2, <2>3, <2>4, <2>5 DEF SnapshotInv
<1>5. restored' = Nothing
  BY DEF TakeSnapshot, IInv, LoopInv, restoring, Nothing
<1> QED
  BY <1>2, <1>3, <1>4, <1>5, Calm DEF TakeSnapshot

LEMMA RecallSnapshotStep == IInv /\ RecallSnapshot => IInv'
<1> SUFFICES ASSUME IInv, RecallSnapshot PROVE IInv'
  OBVIOUS
<1>1. CacheOK /\ SettingsOK /\ RestOK
  BY TypeParts DEF IInv
<1>2. CacheOK' /\ SettingsOK'
  BY <1>1 DEF RecallSnapshot, cache, settings, CacheOK, DatesOK, Names, SettingsOK
<1> QED
  BY <1>1, <1>2, CalmRest DEF RecallSnapshot, files, RestOK

LEMMA StartWithFileStep == IInv /\ (\E f \in Files : StartWithFile(f)) => IInv'
<1> SUFFICES ASSUME IInv, NEW f \in Files, StartWithFile(f) PROVE IInv'
  OBVIOUS
<1>1. CacheOK /\ SettingsOK /\ RestOK
  BY TypeParts DEF IInv
<1>2. 1 \in Windows /\ 1 \notin open
  BY SessionCacheAssumption DEF SessionCacheAssumption, Windows, StartWithFile, IInv, LoopInv
<1>3. CacheOK' /\ SettingsOK'
  BY <1>1, <1>2, CreateWindowStep DEF StartWithFile
<1>4. RestOK'
  BY <1>1, ChangeType DEF StartWithFile, RestOK, Nothing
<1>5. SnapshotInv' /\ restored' = Nothing
  BY DEF StartWithFile, IInv, SnapshotInv, LoopInv, Nothing
<1> QED
  BY <1>3, <1>4, <1>5, Calm DEF StartWithFile

LEMMA EndRestoringStep == IInv /\ EndRestoring => IInv'
<1> SUFFICES ASSUME IInv, EndRestoring PROVE IInv'
  OBVIOUS
<1>1. CacheOK /\ SettingsOK /\ RestOK
  BY TypeParts DEF IInv
<1>2. CacheOK' /\ SettingsOK'
  BY <1>1 DEF EndRestoring, cache, settings, CacheOK, DatesOK, Names, SettingsOK
<1>3. RestOK'
  BY <1>1 DEF EndRestoring, RestOK, files, Nothing, MaybeCode
<1>4. SnapshotInv' /\ restored' = Nothing
  BY DEF EndRestoring, IInv, SnapshotInv, Nothing
<1> QED
  BY <1>2, <1>3, <1>4, Calm DEF EndRestoring

-----------------------------------------------------------------------------
(* The invariant, step by step: files that change at any time, and the end of the session. *)

LEMMA CacheSame == CacheOK /\ UNCHANGED cache => CacheOK' /\ (\A c : HasProgram(c)' = HasProgram(c))
  BY DEF cache, CacheOK, DatesOK, HasProgram, Names

LEMMA SettingsSame == SettingsOK /\ UNCHANGED <<settings, open>> => SettingsOK'
  BY DEF settings, SettingsOK

LEMMA SourcesSame == UNCHANGED wanted => \A w \in Windows : SameSource(w)' = SameSource(w)
  BY DEF SameSource

\* A file that changes while a snapshot is recalled is among the files touched.
LEMMA ChangeFileStep == IInv /\ (\E f \in Files, c \in Codes \cup {None} : ChangeFile(f, c)) => IInv'
<1> SUFFICES ASSUME IInv, NEW f \in Files, NEW c \in Codes \cup {None}, ChangeFile(f, c) PROVE IInv'
  OBVIOUS
<1>1. CacheOK /\ SettingsOK /\ RestOK
  BY TypeParts DEF IInv
<1>2. /\ disk' = [disk EXCEPT ![f] = c] /\ changes' \in 0 .. MaxChanges
      /\ touched' = IF app = "recalling" THEN touched \cup {f} ELSE touched
      /\ UNCHANGED <<cache, settings, copies, snapshot, app, open, todo, restored, again, wanted>>
  BY ChangeType DEF ChangeFile
<1>3. CacheOK' /\ SettingsOK' /\ (\A d : HasProgram(d)' = HasProgram(d))
  BY <1>1, <1>2, CacheSame, SettingsSame
<1>4. RestOK'
  BY <1>1, <1>2 DEF RestOK, MaybeCode
<1>5. SnapshotInv' /\ LoopInv'
  BY <1>2 DEF IInv, SnapshotInv, LoopInv, settings
<1>6. SavedInv'
  BY <1>2, <1>3 DEF IInv, SavedInv, CopyFits, settings
<1>7. RestoredInv'
  BY <1>2 DEF IInv, RestoredInv, Fits, SameSource, settings
<1>8. RecalledInv'
  <2> SUFFICES ASSUME app = "recalling" PROVE RecalledInv'
    BY <1>2 DEF RecalledInv
  <2>1. touched' = touched \cup {f} /\ \A g \in Files \ touched' : disk'[g] = disk[g]
    BY <1>1, <1>2 DEF RestOK
  <2>2. \A w \in todo : wanted[w] # None /\ RecallFits(w)
    BY DEF IInv, RecalledInv
  <2>3. ASSUME NEW w \in todo PROVE RecallFits(w)'
    <3>1. RecallFits(w) /\ SameSource(w)' = SameSource(w) /\ w \in Windows
      BY <1>1, <1>2, <2>2, SourcesSame DEF RestOK
    <3> QED
      BY <1>2, <2>1, <3>1 DEF RecallFits
  <2>4. RecalledAsTaken'
    BY <1>2, <2>1 DEF IInv, RecalledInv, RecalledAsTaken, HasItsProgram, SameSource, settings
  <2> QED
    BY <1>2, <2>2, <2>3, <2>4 DEF RecalledInv
<1> QED
  BY <1>3, <1>4, <1>5, <1>6, <1>7, <1>8, TypePartsNext DEF IInv

\* Quitting: what is kept of each window is what the settings and the SHA folder say of it.
LEMMA QuitStep == IInv /\ Quit => IInv'
<1> SUFFICES ASSUME IInv, Quit PROVE IInv'
  OBVIOUS
<1> USE DEF Quit
<1>1. CacheOK /\ SettingsOK /\ RestOK
  BY TypeParts DEF IInv
<1>2. CacheOK' /\ SettingsOK' /\ (\A d : HasProgram(d)' = HasProgram(d))
  BY <1>1, CacheSame, SettingsSame
<1>3. \A w \in groups : [path |-> path[w], sha |-> sha[w], copy |-> None, kept |-> HasProgram(sha[w])] \in SavedWindow
  <2>1. \A c : HasProgram(c) \in BOOLEAN
    BY DEF HasProgram
  <2>2. \A w \in groups : path[w] \in Files \cup {None} /\ sha[w] \in Codes
    BY <1>1 DEF SettingsOK, MaybeCode
  <2> QED
    BY <2>1, <2>2 DEF SavedWindow
<1>4. /\ wanted' \in [Windows -> SavedWindow \cup {None}]
      /\ \A w \in groups : /\ wanted'[w] # None /\ wanted'[w].path = path[w] /\ wanted'[w].sha = sha[w]
                           /\ wanted'[w].kept = HasProgram(sha[w])
      /\ \A w \in Windows \ groups : wanted'[w] = None
  BY <1>1, <1>3, NoneIsNone DEF SettingsOK
<1>5. RestOK'
  BY <1>1, <1>4 DEF RestOK, files
<1>6. SnapshotInv' /\ LoopInv'
  BY DEF IInv, SnapshotInv, LoopInv, Nothing
<1>7. SavedInv'
  <2>1. UNCHANGED <<groups, path, sha>> /\ app' = "closing"
    BY DEF settings
  <2> QED
    BY <1>2, <1>4, <2>1 DEF SavedInv
<1>8. RestoredInv' /\ RecalledInv'
  BY DEF RestoredInv, RecalledInv
<1> QED
  BY <1>2, <1>5, <1>6, <1>7, <1>8, TypePartsNext DEF IInv

\* Closing the windows changes dates in the SHA folder: what it holds stays.
LEMMA CloseWindowStep == IInv /\ (\E w \in Windows : CloseWindow(w)) => IInv'
<1> SUFFICES ASSUME IInv, NEW w \in Windows, CloseWindow(w) PROVE IInv'
  OBVIOUS
<1> USE DEF CloseWindow
<1>1. CacheOK /\ SettingsOK /\ RestOK
  BY TypeParts DEF IInv
<1>2. CacheOK' /\ Names(folders') = Names(folders)
  BY <1>1, WatchStep
<1>3. \A d : HasProgram(d)' = HasProgram(d)
  BY <1>2 DEF HasProgram
<1>4. SettingsOK'
  <2>1. IsFiniteSet(open) /\ Cardinality(open) \in Nat
    BY <1>1, WindowsFinite DEF SettingsOK
  <2>2. Cardinality(open') = Cardinality(open) - 1
    BY <2>1, FS_RemoveElement
  <2>3. Cardinality(open') <= MaxWindows
    BY <1>1, <2>1, <2>2, SessionCacheAssumption DEF SettingsOK, SessionCacheAssumption
  <2> QED
    BY <1>1, <2>3 DEF SettingsOK, settings
<1>5. RestOK'
  BY <1>1 DEF RestOK, files, restoring
<1>6. SnapshotInv' /\ LoopInv'
  BY DEF IInv, SnapshotInv, LoopInv, restoring
<1>7. SavedInv'
  BY <1>3 DEF IInv, SavedInv, restoring, settings
<1>8. RestoredInv' /\ RecalledInv'
  BY DEF RestoredInv, RecalledInv
<1> QED
  BY <1>2, <1>4, <1>5, <1>6, <1>7, <1>8, TypePartsNext DEF IInv

LEMMA SaveSourcesStep == IInv /\ SaveSources => IInv'
<1> SUFFICES ASSUME IInv, SaveSources PROVE IInv'
  OBVIOUS
<1> USE DEF SaveSources
<1>1. CacheOK /\ SettingsOK /\ RestOK
  BY TypeParts DEF IInv
<1>2. CacheOK' /\ SettingsOK' /\ (\A d : HasProgram(d)' = HasProgram(d))
  BY <1>1, CacheSame, SettingsSame
<1>3. RestOK'
  BY <1>1 DEF RestOK, files, SettingsOK
<1>4. SnapshotInv' /\ LoopInv'
  BY DEF IInv, SnapshotInv, LoopInv, settings
<1>5. SavedInv'
  BY <1>2 DEF IInv, SavedInv, settings
<1>6. RestoredInv' /\ RecalledInv'
  BY DEF RestoredInv, RecalledInv
<1> QED
  BY <1>2, <1>3, <1>4, <1>5, <1>6, TypePartsNext DEF IInv

LEMMA RemoveCopyStep == IInv /\ RemoveCopy => IInv'
<1> SUFFICES ASSUME IInv, RemoveCopy PROVE IInv'
  OBVIOUS
<1> DEFINE w == Smallest(todo)
<1>1. CacheOK /\ SettingsOK /\ RestOK
  BY TypeParts DEF IInv
<1>2. CacheOK' /\ SettingsOK' /\ (\A d : HasProgram(d)' = HasProgram(d))
  BY <1>1, CacheSame, SettingsSame DEF RemoveCopy
<1>3. w \in todo /\ w \in Windows
  BY <1>1, SmallestIn DEF RemoveCopy, RestOK
<1>4. /\ app = "saving" /\ todo # {} /\ app' = "copying" /\ copies' = [copies EXCEPT ![w] = None]
      /\ UNCHANGED <<files, cache, settings, snapshot, open, restoring>>
  BY DEF RemoveCopy
<1> HIDE DEF w
<1>5. copies' \in [Windows -> MaybeCode] /\ copies'[w] = None /\ \A v \in Windows \ {w} : copies'[v] = copies[v]
  BY <1>1, <1>3, <1>4 DEF RestOK, MaybeCode
<1>6. RestOK'
  BY <1>1, <1>4, <1>5 DEF RestOK, files, restoring
<1>7. SnapshotInv'
  BY <1>4 DEF IInv, SnapshotInv
<1>8. LoopInv'
  <2>1. Smallest(todo)' = w
    BY <1>4 DEF w, restoring
  <2>2. copies'[Smallest(todo')] = None
    BY <1>5, <2>1
  <2> QED
    BY <1>4, <2>2 DEF IInv, LoopInv, settings, restoring
<1>9. SavedInv'
  <2>1. \A v \in groups \ todo : CopyFits(v) => CopyFits(v)'
    BY <1>1, <1>3, <1>4, <1>5 DEF CopyFits, SettingsOK, settings, restoring
  <2>2. \A v \in groups \ todo : wanted[v] # None => CopyFits(v)
    BY <1>4 DEF IInv, SavedInv
  <2> QED
    BY <1>2, <1>4, <2>1, <2>2 DEF IInv, SavedInv, settings, restoring
<1>10. RestoredInv' /\ RecalledInv'
  BY <1>4 DEF RestoredInv, RecalledInv
<1> QED
  BY <1>2, <1>6, <1>7, <1>8, <1>9, <1>10, TypePartsNext DEF IInv

\* The copy is made from the SHA folder: a program that was there when the user quit still is.
LEMMA CopySourceStep == IInv /\ CopySource => IInv'
<1> SUFFICES ASSUME IInv, CopySource PROVE IInv'
  OBVIOUS
<1> DEFINE w == Smallest(todo)
<1>1. CacheOK /\ SettingsOK /\ RestOK
  BY TypeParts DEF IInv
<1>2. CacheOK' /\ SettingsOK' /\ (\A d : HasProgram(d)' = HasProgram(d))
  BY <1>1, CacheSame, SettingsSame DEF CopySource
<1>3. w \in todo /\ w \in Windows /\ w \in groups /\ copies[w] = None
  BY <1>1, SmallestIn DEF CopySource, RestOK, IInv, LoopInv
<1>4. /\ app = "copying" /\ app' = "saving" /\ todo' = todo \ {w}
      /\ copies' = IF copies[w] = None /\ HasProgram(sha[w]) THEN [copies EXCEPT ![w] = sha[w]] ELSE copies
      /\ UNCHANGED <<files, cache, settings, snapshot, open, restored, again, wanted, touched>>
  BY DEF CopySource
<1> HIDE DEF w
<1>5. /\ copies' \in [Windows -> MaybeCode]
      /\ copies'[w] = IF HasProgram(sha[w]) THEN sha[w] ELSE None
      /\ \A v \in Windows \ {w} : copies'[v] = copies[v]
  BY <1>1, <1>3, <1>4 DEF RestOK, SettingsOK
<1>6. RestOK'
  BY <1>1, <1>4, <1>5 DEF RestOK, files
<1>7. SnapshotInv' /\ LoopInv'
  BY <1>4 DEF IInv, SnapshotInv, LoopInv, settings
<1>8. SavedInv'
  <2>1. ASSUME NEW v \in groups \ todo', wanted[v] # None PROVE CopyFits(v)'
    <3>1. v \in Windows
      BY <1>1 DEF SettingsOK
    <3>2. CASE v = w
      BY <1>3, <1>4, <1>5, <2>1, <3>2 DEF IInv, SavedInv, CopyFits, settings
    <3>3. CASE v # w
      <4>1. CopyFits(v)
        BY <1>4, <2>1, <3>3 DEF IInv, SavedInv
      <4> QED
        BY <1>4, <1>5, <3>1, <3>3, <4>1 DEF CopyFits, settings
    <3> QED
      BY <3>2, <3>3
  <2> QED
    BY <1>2, <1>4, <2>1 DEF IInv, SavedInv, settings
<1>9. RestoredInv' /\ RecalledInv'
  BY <1>4 DEF RestoredInv, RecalledInv
<1> QED
  BY <1>2, <1>6, <1>7, <1>8, <1>9, TypePartsNext DEF IInv

LEMMA EndStep == IInv /\ End => IInv'
<1> SUFFICES ASSUME IInv, End PROVE IInv'
  OBVIOUS
<1> USE DEF End
<1>1. CacheOK /\ SettingsOK /\ RestOK
  BY TypeParts DEF IInv
<1>2. CacheOK' /\ SettingsOK' /\ (\A d : HasProgram(d)' = HasProgram(d))
  BY <1>1, CacheSame, SettingsSame
<1>3. RestOK'
  BY <1>1 DEF RestOK, files, restoring
<1>4. SnapshotInv' /\ LoopInv'
  BY DEF IInv, SnapshotInv, LoopInv, settings, restoring, Nothing
<1>5. SavedInv'
  <2>1. \A w \in Windows : wanted[w] # None => w \in groups /\ CopyFits(w)
    BY DEF IInv, SavedInv
  <2>2. \A w \in Windows : wanted[w] # None => CopyFits(w)'
    BY <2>1 DEF CopyFits, settings, restoring
  <2> QED
    BY <2>2 DEF IInv, SavedInv, settings, restoring
<1>6. RestoredInv' /\ RecalledInv'
  BY DEF RestoredInv, RecalledInv
<1> QED
  BY <1>2, <1>3, <1>4, <1>5, <1>6, TypePartsNext DEF IInv

\* A crash forgets what was being saved or restored.
LEMMA CrashStep == IInv /\ Crash => IInv'
<1> SUFFICES ASSUME IInv, Crash PROVE IInv'
  OBVIOUS
<1> USE DEF Crash
<1>1. CacheOK /\ SettingsOK /\ RestOK
  BY TypeParts DEF IInv
<1>2. CacheOK'
  BY <1>1, CacheSame
<1>3. SettingsOK'
  <2>1. Cardinality({}) <= MaxWindows
    BY FS_EmptySet, SessionCacheAssumption DEF SessionCacheAssumption
  <2> QED
    BY <1>1, <2>1 DEF SettingsOK, settings
<1>4. RestOK'
  <2>1. /\ Nothing \in [Windows -> Files \cup MaybeCode]
        /\ Nothing \in [Windows -> SavedWindow \cup {None}]
    BY DEF Nothing, MaybeCode
  <2> QED
    BY <1>1, <2>1 DEF RestOK, files
<1>5. SnapshotInv' /\ LoopInv'
  BY DEF IInv, SnapshotInv, LoopInv
<1>6. SavedInv'
  BY DEF SavedInv, Nothing
<1>7. RestoredInv' /\ RecalledInv'
  BY DEF RestoredInv, RecalledInv
<1> QED
  BY <1>2, <1>3, <1>4, <1>5, <1>6, <1>7, TypePartsNext DEF IInv

-----------------------------------------------------------------------------
(* The invariant, step by step: the next start. *)

LEMMA StartStep == IInv /\ Start => IInv'
<1> SUFFICES ASSUME IInv, Start PROVE IInv'
  OBVIOUS
<1> USE DEF Start
<1>1. CacheOK /\ SettingsOK /\ RestOK
  BY TypeParts DEF IInv
<1>2. CacheOK' /\ SettingsOK' /\ (\A d : HasProgram(d)' = HasProgram(d))
  BY <1>1, CacheSame, SettingsSame
<1>3. RestOK'
  BY <1>1 DEF RestOK, files, SettingsOK
<1>4. SnapshotInv' /\ LoopInv'
  BY DEF IInv, SnapshotInv, LoopInv, settings
<1>5. SavedInv'
  BY DEF IInv, SavedInv, CopyFits, settings
<1>6. \A w \in Windows : restored'[w] = None
  BY DEF IInv, LoopInv, Nothing
<1>7. RestoredInv'
  BY <1>6 DEF RestoredInv, settings
<1>8. RecalledInv'
  BY DEF RecalledInv
<1> QED
  BY <1>2, <1>3, <1>4, <1>5, <1>7, <1>8, TypePartsNext DEF IInv

\* The windows of one path are those of one source.
LEMMA SamePath ==
  ASSUME NEW v \in Windows, NEW w \in Windows, wanted[v] # None, wanted[w] # None,
         wanted[v].path # None, wanted[v].path = wanted[w].path
  PROVE  SameSource(v) \subseteq SameSource(w)
  BY DEF SameSource

\* The rules of currentSessionRestoration, with any answers of the user: the source of a
\* window is its copy, the one found for another window of its path, its file or, in its
\* place, the empty program.
LEMMA SessionSourceFits ==
  ASSUME IInv, app = "reading", NEW w \in todo, NEW s \in SessionSources(w)
  PROVE  /\ s \in Files \cup MaybeCode
         /\ copies[w] # None => s # None
         /\ wanted[w] # None /\ s # None =>
              \/ \E v \in SameSource(w) : s = wanted[v].sha
              \/ wanted[w].path # None /\ s \in {wanted[w].path, Default}
<1>1. /\ w \in Windows /\ w \in groups /\ groups \subseteq Windows
      /\ copies[w] \in MaybeCode /\ path[w] \in Files \cup {None}
      /\ Default \in Codes /\ restored \in [Windows -> Files \cup MaybeCode]
  BY SessionCacheAssumption DEF SessionCacheAssumption, IInv, TypeOK, LoopInv
<1>2. wanted[w] # None => /\ wanted[w].path = path[w] /\ wanted[w].sha = sha[w]
                          /\ copies[w] \in {None, sha[w]}
  BY <1>1 DEF IInv, SavedInv, CopyFits
<1>3. w \in SameSource(w)
  BY DEF SameSource
<1>4. CASE copies[w] = None
  BY <1>4 DEF SessionSources, MaybeCode
<1>5. CASE copies[w] # None /\ path[w] = None
  <2>1. s = copies[w]
    BY <1>5 DEF SessionSources
  <2> QED
    BY <1>1, <1>2, <1>3, <1>5, <2>1
<1>6. CASE copies[w] # None /\ path[w] # None /\ Treated(w) # {}
  <2> DEFINE u == Smallest(Treated(w))
  <2>1. s = restored[u]
    BY <1>6 DEF SessionSources
  <2>2. u \in Treated(w)
    <3>1. Treated(w) \in SUBSET Windows
      BY <1>1 DEF Treated
    <3> QED
      BY <1>6, <3>1, SmallestIn
  <2> HIDE DEF u
  <2>3. u \in groups \ todo /\ u \in Windows /\ path[u] = path[w] /\ restored[u] # None
    BY <1>1, <2>2 DEF Treated
  <2>4. ASSUME wanted[w] # None
        PROVE  \/ \E v \in SameSource(w) : s = wanted[v].sha
               \/ wanted[w].path # None /\ s \in {wanted[w].path, Default}
    <3>1. wanted[u] # None /\ wanted[u].path = path[u]
      BY <1>1, <2>3, <2>4 DEF IInv, SavedInv
    <3>2. Fits(u)
      BY <2>3, <3>1 DEF IInv, RestoredInv
    <3>3. wanted[u].path = wanted[w].path /\ wanted[u].path # None
      BY <1>2, <1>6, <2>3, <2>4, <3>1
    <3>4. SameSource(u) \subseteq SameSource(w)
      BY <1>1, <2>3, <2>4, <3>1, <3>3, SamePath
    <3> QED
      BY <2>1, <3>2, <3>3, <3>4 DEF Fits
  <2> QED
    BY <1>1, <2>1, <2>3, <2>4
<1>7. CASE copies[w] # None /\ path[w] # None /\ Treated(w) = {}
  <2>1. s \in {copies[w], Default, path[w]}
    BY <1>7 DEF SessionSources
  <2>2. s \in Files \cup MaybeCode /\ s # None
    BY <1>1, <1>7, <2>1, NoneIsNone DEF MaybeCode
  <2> QED
    BY <1>2, <1>3, <1>7, <2>1, <2>2
<1> QED
  BY <1>4, <1>5, <1>6, <1>7

LEMMA ReadNextStep == IInv /\ ReadNext => IInv'
<1> SUFFICES ASSUME IInv, ReadNext PROVE IInv'
  OBVIOUS
<1> DEFINE w == Smallest(todo)
<1>1. CacheOK /\ SettingsOK /\ RestOK
  BY TypeParts DEF IInv
<1>2. CacheOK' /\ SettingsOK' /\ (\A d : HasProgram(d)' = HasProgram(d))
  BY <1>1, CacheSame, SettingsSame DEF ReadNext
<1>3. w \in todo /\ w \in Windows /\ w \in groups
  BY <1>1, SmallestIn DEF ReadNext, RestOK, IInv, LoopInv
<1>4. PICK s \in SessionSources(w) : restored' = [restored EXCEPT ![w] = s]
  BY DEF ReadNext
<1>5. /\ app = "reading" /\ todo' = todo \ {w}
      /\ UNCHANGED <<files, cache, settings, copies, snapshot, app, open, again, wanted, touched>>
  BY DEF ReadNext
<1> HIDE DEF w
<1>6. /\ s \in Files \cup MaybeCode
      /\ copies[w] # None => s # None
      /\ wanted[w] # None /\ s # None =>
           \/ \E v \in SameSource(w) : s = wanted[v].sha
           \/ wanted[w].path # None /\ s \in {wanted[w].path, Default}
  BY <1>3, <1>4, <1>5, SessionSourceFits
<1>7. /\ restored' \in [Windows -> Files \cup MaybeCode] /\ restored'[w] = s
      /\ \A v \in Windows \ {w} : restored'[v] = restored[v]
  BY <1>1, <1>3, <1>4, <1>6 DEF RestOK
<1>8. RestOK'
  BY <1>1, <1>5, <1>7 DEF RestOK, files
<1>9. SnapshotInv' /\ LoopInv'
  BY <1>5 DEF IInv, SnapshotInv, LoopInv, settings
<1>10. SavedInv'
  BY <1>5 DEF IInv, SavedInv, CopyFits, settings
<1>11. RestoredInv'
  <2>1. \A v \in Windows : SameSource(v)' = SameSource(v)
    BY <1>5, SourcesSame
  <2>2. ASSUME NEW v \in Windows, restored'[v] # None PROVE v \in groups' \ todo'
    BY <1>3, <1>5, <1>7, <2>2 DEF IInv, RestoredInv, settings
  <2>3. ASSUME NEW v \in groups' \ todo', wanted'[v] # None
        PROVE  (restored'[v] # None => Fits(v)') /\ (wanted'[v].kept => restored'[v] # None)
    <3>1. v \in Windows
      BY <1>1, <1>5 DEF SettingsOK, settings
    <3>2. CASE v = w
      <4>1. wanted[w].kept => copies[w] # None
        BY <1>1, <1>3, <1>5, <2>3, <3>2 DEF IInv, SavedInv, CopyFits, SettingsOK
      <4> QED
        BY <1>3, <1>5, <1>6, <1>7, <2>1, <2>3, <3>2, <4>1 DEF Fits
    <3>3. CASE v # w
      <4>1. v \in groups \ todo /\ wanted[v] # None
        BY <1>5, <2>3, <3>3 DEF settings
      <4>2. (restored[v] # None => Fits(v)) /\ (wanted[v].kept => restored[v] # None)
        BY <1>5, <4>1 DEF IInv, RestoredInv
      <4> QED
        BY <1>5, <1>7, <2>1, <3>1, <3>3, <4>2 DEF Fits
    <3> QED
      BY <3>2, <3>3
  <2> QED
    BY <1>5, <2>2, <2>3 DEF RestoredInv
<1>12. RecalledInv'
  BY <1>5 DEF RecalledInv
<1> QED
  BY <1>2, <1>8, <1>9, <1>10, <1>11, <1>12, TypePartsNext DEF IInv

LEMMA RestoreSessionStep == IInv /\ RestoreSession => IInv'
<1> SUFFICES ASSUME IInv, RestoreSession PROVE IInv'
  OBVIOUS
<1> USE DEF RestoreSession
<1>1. CacheOK /\ SettingsOK /\ RestOK
  BY TypeParts DEF IInv
<1>2. CacheOK' /\ SettingsOK'
  BY <1>1, CacheSame, SettingsSame
<1>3. RestOK'
  BY <1>1 DEF RestOK, files, ToCreate
<1>4. SnapshotInv' /\ LoopInv' /\ SavedInv' /\ RecalledInv'
  BY DEF IInv, SnapshotInv, LoopInv, SavedInv, RecalledInv, ToCreate
<1>5. RestoredInv'
  <2>1. ASSUME NEW w \in Windows, wanted[w] # None
        PROVE  (restored[w] # None => Fits(w)) /\ (wanted[w].kept => restored[w] # None)
    BY <2>1 DEF IInv, SavedInv, RestoredInv
  <2>2. open' = {}
    BY DEF IInv, LoopInv
  <2> QED
    BY <2>1, <2>2 DEF RestoredInv, Fits, SameSource
<1> QED
  BY <1>2, <1>3, <1>4, <1>5, TypePartsNext DEF IInv

\* The next window is created from its source, with the program that the source has now.
LEMMA CreateNextStep == IInv /\ CreateNext => IInv'
<1> SUFFICES ASSUME IInv, CreateNext PROVE IInv'
  OBVIOUS
<1> DEFINE w == Smallest(todo)
           s == restored[w]
<1>1. CacheOK /\ SettingsOK /\ RestOK
  BY TypeParts DEF IInv
<1>2. w \in todo /\ w \in Windows
  BY <1>1, SmallestIn DEF CreateNext, RestOK
<1>3. w \notin open /\ s \in Files \cup Codes
  <2>1. s # None /\ w \notin open
    BY <1>2 DEF IInv, LoopInv, CreateNext
  <2>2. s \in Files \cup MaybeCode
    BY <1>1, <1>2 DEF RestOK
  <2> QED
    BY <2>1, <2>2 DEF MaybeCode
<1>4. /\ app \in {"creating", "recalling"} /\ todo' = todo \ {w} /\ CreateWindow(w, s)
      /\ copies' = [copies EXCEPT ![w] = IF app = "recalling" THEN wanted[w].copy ELSE @]
      /\ UNCHANGED <<files, snapshot, app, restored, again, wanted, touched>>
  BY DEF CreateNext
<1>5. s = restored[w]
  OBVIOUS
<1> HIDE DEF w, s
<1>6. /\ CacheOK' /\ SettingsOK'
      /\ \A v \in Windows \ {w} : path'[v] = path[v] /\ sha'[v] = sha[v]
      /\ \/ open' = open
         \/ /\ open' = open \cup {w} /\ CodeOf(s) \in Codes
            /\ path'[w] = (IF s \in Files THEN s ELSE None) /\ sha'[w] = CodeOf(s)
  BY <1>1, <1>2, <1>3, <1>4, CreateWindowStep
<1>7. RestOK'
  <2>1. app = "recalling" => wanted[w].copy \in MaybeCode
    <3>1. app = "recalling" => wanted[w] \in SavedWindow
      BY <1>1, <1>2 DEF IInv, RecalledInv, RestOK
    <3> QED
      BY <3>1 DEF SavedWindow, MaybeCode
  <2> QED
    BY <1>1, <1>2, <1>4, <2>1 DEF RestOK, files
<1>8. SnapshotInv' /\ SavedInv'
  BY <1>4 DEF IInv, SnapshotInv, SavedInv
<1>9. LoopInv'
  BY <1>4, <1>6 DEF IInv, LoopInv
<1>10. \A v \in Windows : SameSource(v)' = SameSource(v)
  BY <1>4, SourcesSame
<1>11. open \subseteq Windows
  BY <1>1 DEF SettingsOK
<1>12. RestoredInv'
  <2> SUFFICES ASSUME app = "creating" PROVE RestoredInv'
    BY <1>4 DEF RestoredInv
  <2>1. \A v \in Windows : wanted[v] # None =>
          (restored[v] # None => Fits(v)') /\ (wanted[v].kept => restored[v] # None)
    BY <1>4, <1>10 DEF IInv, RestoredInv, Fits
  <2>2. ASSUME NEW v \in open'
        PROVE  \/ restored[v] \in Files /\ path'[v] = restored[v]
               \/ restored[v] \in Codes /\ path'[v] = None /\ sha'[v] = restored[v]
    <3>1. CASE v \in open
      <4>1. v \in Windows \ {w}
        BY <1>3, <1>11, <3>1
      <4> QED
        BY <1>6, <3>1, <4>1 DEF IInv, RestoredInv
    <3>2. CASE v \notin open
      <4>1. v = w /\ path'[w] = (IF s \in Files THEN s ELSE None) /\ sha'[w] = CodeOf(s)
        BY <1>6, <2>2, <3>2
      <4> QED
        BY <1>3, <1>5, <4>1 DEF CodeOf
    <3> QED
      BY <3>1, <3>2
  <2> QED
    BY <1>4, <2>1, <2>2 DEF RestoredInv
<1>13. RecalledInv'
  <2> SUFFICES ASSUME app = "recalling" PROVE RecalledInv'
    BY <1>4 DEF RecalledInv
  <2>1. \A v \in todo : wanted[v] # None /\ RecallFits(v)
    BY DEF IInv, RecalledInv
  <2>2. \A v \in todo : RecallFits(v)'
    <3>1. todo \subseteq Windows
      BY <1>1 DEF RestOK
    <3> QED
      BY <1>4, <1>10, <2>1, <3>1 DEF RecallFits, files
  <2>3. ASSUME NEW v \in open', wanted[v] # None, \A u \in SameSource(v) : wanted[u].kept
        PROVE  (\E u \in SameSource(v) : sha'[v] = wanted[u].sha) \/ path'[v] \in touched
    <3>1. CASE v \in open
      <4>1. v \in Windows \ {w}
        BY <1>3, <1>11, <3>1
      <4>2. HasItsProgram(v) \/ path[v] \in touched
        BY <2>3, <3>1 DEF IInv, RecalledInv, RecalledAsTaken
      <4> QED
        BY <1>6, <4>1, <4>2 DEF HasItsProgram
    <3>2. CASE v \notin open
      <4>1. v = w /\ path'[w] = (IF s \in Files THEN s ELSE None) /\ sha'[w] = CodeOf(s)
        BY <1>6, <2>3, <3>2
      <4>2. \/ \E u \in SameSource(w) : s = wanted[u].sha
            \/ /\ s \in Files
               /\ s \in touched \/ \E u \in SameSource(w) : disk[s] = wanted[u].sha
        BY <1>2, <1>5, <2>1, <2>3, <4>1 DEF RecallFits
      <4>3. CASE s \in Files /\ s \in touched
        BY <4>1, <4>3
      <4>4. CASE s \in Files /\ \E u \in SameSource(w) : disk[s] = wanted[u].sha
        BY <4>1, <4>4 DEF CodeOf
      <4>5. CASE \E u \in SameSource(w) : s = wanted[u].sha
        <5>1. PICK u \in SameSource(w) : s = wanted[u].sha
          BY <4>5
        <5>2. wanted[u] # None /\ u \in Windows
          BY <1>2, <2>3, <4>1 DEF SameSource
        <5>3. s \in Codes /\ s \notin Files
          BY <1>1, <5>1, <5>2, NoneIsNone DEF RestOK, SavedWindow
        <5> QED
          BY <4>1, <5>1, <5>3 DEF CodeOf
      <4> QED
        BY <4>2, <4>3, <4>4, <4>5
    <3> QED
      BY <3>1, <3>2
  <2>4. RecalledAsTaken'
    <3> SUFFICES ASSUME NEW v \in open', wanted[v] # None, \A u \in SameSource(v)' : wanted[u].kept
                 PROVE  HasItsProgram(v)' \/ path'[v] \in touched
      BY <1>4 DEF RecalledAsTaken
    <3>1. v \in Windows
      BY <1>2, <1>6, <1>11
    <3> QED
      BY <1>4, <1>10, <2>3, <3>1 DEF HasItsProgram
  <2> QED
    BY <1>4, <2>1, <2>2, <2>4 DEF RecalledInv
<1> QED
  BY <1>6, <1>7, <1>8, <1>9, <1>12, <1>13, TypePartsNext DEF IInv

LEMMA TryAgainStep == IInv /\ TryAgain => IInv'
<1> SUFFICES ASSUME IInv, TryAgain PROVE IInv'
  OBVIOUS
<1> USE DEF TryAgain
<1>1. CacheOK /\ SettingsOK /\ RestOK
  BY TypeParts DEF IInv
<1>2. CacheOK' /\ SettingsOK'
  BY <1>1, CacheSame, SettingsSame
<1>3. RestOK'
  BY <1>1 DEF RestOK, files, ToCreate
<1>4. SnapshotInv' /\ LoopInv' /\ SavedInv' /\ RecalledInv'
  BY DEF IInv, SnapshotInv, LoopInv, SavedInv, RecalledInv, ToCreate
<1>5. RestoredInv'
  BY DEF IInv, RestoredInv, Fits, SameSource
<1> QED
  BY <1>2, <1>3, <1>4, <1>5, TypePartsNext DEF IInv

-----------------------------------------------------------------------------
(* The invariant, step by step: snapshots. *)

\* A number for each window of the snapshot, none of them on the screen.
NumbersOK(number) ==
  /\ number \in [snapshot.groups -> Windows]
  /\ \A w \in snapshot.groups : number[w] \notin open
  /\ \A v, w \in snapshot.groups : number[v] = number[w] => v = w

\* The first of the windows of a path.
First(w) ==
  IF snapshot.path[w] = None THEN w
  ELSE Smallest({v \in snapshot.groups : snapshot.path[v] = snapshot.path[w]})

LEMMA FirstIn ==
  ASSUME snapshot \in SnapshotType, NEW w \in snapshot.groups
  PROVE  /\ First(w) \in snapshot.groups
         /\ snapshot.path[w] # None => snapshot.path[First(w)] = snapshot.path[w]
         /\ snapshot.path[w] = None => First(w) = w
<1> DEFINE S == {v \in snapshot.groups : snapshot.path[v] = snapshot.path[w]}
<1>1. S \in SUBSET Windows /\ S # {}
  BY DEF SnapshotType
<1>2. Smallest(S) \in S
  BY <1>1, SmallestIn
<1> QED
  BY <1>2 DEF First

\* snapshotRestoration: a window gets the program that the first window of its path had, or
\* its file when it holds that program; the empty program if there was none.
LEMMA SnapshotSourceIs ==
  ASSUME snapshot \in SnapshotType, NEW w \in snapshot.groups
  PROVE  LET p == snapshot.path[w]
             c == snapshot.copies[First(w)]
         IN  \/ SnapshotSource(w) = p /\ p \in Files /\ disk[p] = c
             \/ SnapshotSource(w) = c /\ c \in Codes
             \/ SnapshotSource(w) = Default /\ c = None
<1>1. snapshot.path[w] \in Files \cup {None}
  BY DEF SnapshotType
<1>2. snapshot.copies[First(w)] \in Codes \cup {None}
  BY FirstIn DEF SnapshotType, MaybeCode
<1>3. SnapshotSource(w) =
        IF snapshot.path[w] # None /\ disk[snapshot.path[w]] # None
             /\ disk[snapshot.path[w]] = snapshot.copies[First(w)]
        THEN snapshot.path[w]
        ELSE IF snapshot.copies[First(w)] = None THEN Default ELSE snapshot.copies[First(w)]
  BY DEF SnapshotSource, First
<1> QED
  BY <1>1, <1>2, <1>3

\* What a snapshot holds of its windows becomes what they should be.
LEMMA ExtractWanted ==
  ASSUME SnapshotInv, snapshot # None, NEW number, NumbersOK(number), Extract(number)
  PROVE  /\ todo' = {number[w] : w \in snapshot.groups} /\ todo' \subseteq Windows
         /\ \A w \in snapshot.groups :
              /\ restored'[number[w]] = SnapshotSource(w)
              /\ wanted'[number[w]] \in SavedWindow /\ wanted'[number[w]] # None
              /\ wanted'[number[w]].path = snapshot.path[w]
              /\ wanted'[number[w]].sha = snapshot.sha[w]
              /\ wanted'[number[w]].kept = (snapshot.copies[w] # None)
         /\ \A n \in Windows \ todo' : wanted'[n] = None /\ restored'[n] = None
         /\ restored' = [n \in Windows |-> restored'[n]] /\ wanted' = [n \in Windows |-> wanted'[n]]
<1> DEFINE old(n) == CHOOSE w \in snapshot.groups : number[w] = n
           entry(n) == [path |-> snapshot.path[old(n)], sha |-> snapshot.sha[old(n)],
                        copy |-> IF old(n) = n THEN snapshot.copies[n] ELSE None,
                        kept |-> snapshot.copies[old(n)] # None]
<1>1. \A w \in snapshot.groups : old(number[w]) = w
  BY DEF NumbersOK
<1>2. /\ todo' = {number[w] : w \in snapshot.groups}
      /\ restored' = [n \in Windows |-> IF n \in todo' THEN SnapshotSource(old(n)) ELSE None]
      /\ wanted' = [n \in Windows |-> IF n \in todo' THEN entry(n) ELSE None]
  BY DEF Extract
<1>3. todo' \subseteq Windows
  BY <1>2 DEF NumbersOK
<1>4. ASSUME NEW w \in snapshot.groups
      PROVE  /\ entry(number[w]) \in SavedWindow
             /\ entry(number[w]).path = snapshot.path[w]
             /\ entry(number[w]).sha = snapshot.sha[w]
             /\ entry(number[w]).kept = (snapshot.copies[w] # None)
  <2>1. /\ w \in Windows /\ snapshot.path[w] \in Files \cup {None} /\ snapshot.sha[w] \in Codes
        /\ \A n \in Windows : snapshot.copies[n] \in Codes \cup {None}
    BY DEF SnapshotInv, SnapshotType, MaybeCode
  <2>2. number[w] \in Windows
    BY DEF NumbersOK
  <2> QED
    BY <1>1, <2>1, <2>2 DEF SavedWindow
<1> HIDE DEF old, entry
<1>5. ASSUME NEW w \in snapshot.groups
      PROVE  /\ number[w] \in todo' /\ number[w] \in Windows
             /\ restored'[number[w]] = SnapshotSource(w)
             /\ wanted'[number[w]] = entry(number[w])
  BY <1>1, <1>2, <1>3
<1>6. \A w \in snapshot.groups : wanted'[number[w]] # None
  BY <1>4, <1>5, NoneIsNone
<1>7. \A n \in Windows \ todo' : wanted'[n] = None /\ restored'[n] = None
  BY <1>2
<1>8. restored' = [n \in Windows |-> restored'[n]] /\ wanted' = [n \in Windows |-> wanted'[n]]
  BY <1>2
<1> QED
  BY <1>2, <1>3, <1>4, <1>5, <1>6, <1>7, <1>8

\* copySHAFolder and snapshotRestoration: the folders come from the snapshot, and each of its
\* windows has a source that gives it its program back.
LEMMA ExtractStep ==
  ASSUME IInv, snapshot # None, NEW number, NumbersOK(number), Extract(number)
  PROVE  IInv'
<1> DEFINE programs == {snapshot.sha[w] : w \in snapshot.groups}
<1>1. CacheOK /\ SettingsOK /\ RestOK /\ SnapshotInv
  BY TypeParts DEF IInv
<1>2. snapshot \in SnapshotType /\ \A w \in snapshot.groups :
        snapshot.sha[w] # None /\ snapshot.copies[w] \in {None, snapshot.sha[w]}
  BY <1>1 DEF SnapshotInv
<1>3. /\ todo' = {number[w] : w \in snapshot.groups} /\ todo' \subseteq Windows
      /\ \A w \in snapshot.groups :
           /\ restored'[number[w]] = SnapshotSource(w)
           /\ wanted'[number[w]] \in SavedWindow /\ wanted'[number[w]] # None
           /\ wanted'[number[w]].path = snapshot.path[w]
           /\ wanted'[number[w]].sha = snapshot.sha[w]
           /\ wanted'[number[w]].kept = (snapshot.copies[w] # None)
      /\ \A n \in Windows \ todo' : wanted'[n] = None /\ restored'[n] = None
      /\ restored' = [n \in Windows |-> restored'[n]] /\ wanted' = [n \in Windows |-> wanted'[n]]
  BY <1>1, ExtractWanted
<1>4. /\ app' = "recalling"
      /\ folders' = Youngest(folders, programs)
      /\ emptied' = (emptied \ programs) \cup (programs \ {snapshot.copies[w] : w \in snapshot.groups})
      /\ UNCHANGED <<files, settings, copies, snapshot, open, again, touched>>
  BY DEF Extract
<1>5. CacheOK'
  <2>1. programs \in SUBSET Codes
    BY <1>2 DEF SnapshotType, MaybeCode
  <2> HIDE DEF programs
  <2>2. DatesOK(folders') /\ Names(folders') = Names(folders) \cup programs
    BY <1>1, <1>4, <2>1, YoungestNames DEF CacheOK
  <2> QED
    BY <1>1, <1>4, <2>2 DEF CacheOK
<1>6. SettingsOK'
  BY <1>1, <1>4, SettingsSame
<1>7. \A w \in snapshot.groups : SnapshotSource(w) \in Files \cup Codes
  BY <1>2, SnapshotSourceIs, SessionCacheAssumption DEF SessionCacheAssumption
<1>8. restored' \in [Windows -> Files \cup MaybeCode] /\ \A n \in todo' : restored'[n] # None
  <2>1. \A n \in todo' : restored'[n] \in Files \cup Codes
    BY <1>3, <1>7
  <2>2. \A n \in Windows : restored'[n] \in Files \cup MaybeCode
    BY <1>3, <2>1 DEF MaybeCode
  <2> QED
    BY <1>3, <2>1, <2>2, NoneIsNone
<1>9. wanted' \in [Windows -> SavedWindow \cup {None}]
  <2>1. \A n \in Windows : wanted'[n] \in SavedWindow \cup {None}
    BY <1>3
  <2> QED
    BY <1>3, <2>1
<1>10. RestOK'
  BY <1>1, <1>3, <1>4, <1>8, <1>9 DEF RestOK, files
<1>11. SnapshotInv' /\ SavedInv' /\ RestoredInv'
  BY <1>1, <1>4 DEF SnapshotInv, SavedInv, RestoredInv
<1>12. todo' \cap open' = {}
  BY <1>3, <1>4 DEF NumbersOK
<1>13. LoopInv'
  BY <1>4, <1>8, <1>12 DEF LoopInv
<1>14. ASSUME NEW w \in snapshot.groups PROVE RecallFits(number[w])'
  <2> DEFINE n == number[w]
             m == number[First(w)]
  <2>1. First(w) \in snapshot.groups
    BY <1>2, FirstIn
  <2>2. n \in Windows /\ m \in Windows
    BY <2>1 DEF NumbersOK
  <2>3. m \in SameSource(n)'
    <3>1. CASE snapshot.path[w] = None
      BY <1>2, <3>1, FirstIn DEF SameSource
    <3>2. CASE snapshot.path[w] # None
      BY <1>2, <1>3, <2>1, <2>2, <3>2, FirstIn DEF SameSource
    <3> QED
      BY <3>1, <3>2
  <2>4. wanted'[m].kept => snapshot.copies[First(w)] # None /\ snapshot.copies[First(w)] = wanted'[m].sha
    BY <1>2, <1>3, <2>1
  <2>5. \/ restored'[n] \in Files /\ disk'[restored'[n]] = snapshot.copies[First(w)]
        \/ restored'[n] = snapshot.copies[First(w)]
        \/ snapshot.copies[First(w)] = None
    BY <1>2, <1>3, <1>4, SnapshotSourceIs DEF files
  <2> HIDE DEF n, m
  <2>6. ASSUME \A v \in SameSource(n)' : wanted'[v].kept
        PROVE  \/ \E v \in SameSource(n)' : restored'[n] = wanted'[v].sha
               \/ /\ restored'[n] \in Files
                  /\ \E v \in SameSource(n)' : disk'[restored'[n]] = wanted'[v].sha
    BY <2>3, <2>4, <2>5, <2>6
  <2>7. RecallFits(n)'
    BY <2>6 DEF RecallFits
  <2> QED
    BY <2>7 DEF n
<1>15. RecalledInv'
  <2>1. \A n \in todo' : wanted'[n] # None
    BY <1>3
  <2>2. ASSUME NEW n \in todo' PROVE RecallFits(n)'
    <3>1. PICK w \in snapshot.groups : n = number[w]
      BY <1>3
    <3> QED
      BY <1>14, <3>1
  <2>3. \A n \in open' : wanted'[n] = None
    BY <1>1, <1>3, <1>4, <1>12 DEF SettingsOK
  <2> QED
    BY <2>1, <2>2, <2>3 DEF RecalledInv, RecalledAsTaken
<1> QED
  BY <1>5, <1>6, <1>10, <1>11, <1>13, <1>15, TypePartsNext DEF IInv

LEMMA ExtractRecalledStep == IInv /\ ExtractRecalled => IInv'
<1> SUFFICES ASSUME IInv, ExtractRecalled PROVE IInv'
  OBVIOUS
<1>1. snapshot # None /\ open = {} /\ Extract([w \in snapshot.groups |-> w])
  BY DEF ExtractRecalled, IInv, LoopInv
<1>2. NumbersOK([w \in snapshot.groups |-> w])
  BY <1>1 DEF NumbersOK, IInv, SnapshotInv, SnapshotType
<1> QED
  BY <1>1, <1>2, ExtractStep

\* Imported windows take free numbers, each its own: as many are free up to a number as there
\* are windows of the snapshot up to the one that takes it.
LEMMA NewNumbersOK ==
  ASSUME SnapshotInv, snapshot # None, NEW number \in NewNumbers
  PROVE  NumbersOK(number)
<1> DEFINE UpTo(w) == {v \in snapshot.groups : v <= w}
<1>1. snapshot.groups \in SUBSET Windows
  BY DEF SnapshotInv, SnapshotType
<1>2. /\ number \in [snapshot.groups -> Windows]
      /\ \A w \in snapshot.groups :
           number[w] \notin open /\ Cardinality((1 .. number[w]) \ open) = Cardinality(UpTo(w))
  BY DEF NewNumbers
<1>3. \A w \in snapshot.groups : IsFiniteSet(UpTo(w)) /\ w \in UpTo(w) /\ w \in Nat
  <2>1. \A w \in snapshot.groups : UpTo(w) \in SUBSET Windows /\ w \in Nat
    BY <1>1, WindowsFinite
  <2> QED
    BY <2>1, WindowsFinite
<1>4. ASSUME NEW v \in snapshot.groups, NEW w \in snapshot.groups, v < w
      PROVE  number[v] # number[w]
  <2>1. UpTo(v) \subseteq UpTo(w)
    <3> SUFFICES ASSUME NEW u \in snapshot.groups, u <= v PROVE u <= w
      OBVIOUS
    <3>1. u \in Nat /\ v \in Nat /\ w \in Nat
      BY <1>3
    <3> QED
      BY <1>4, <3>1
  <2>2. w \in UpTo(w) /\ w \notin UpTo(v)
    <3>1. v \in Nat /\ w \in Nat
      BY <1>3
    <3>2. ~(w <= v)
      BY <1>4, <3>1
    <3> QED
      BY <1>3, <3>2
  <2> HIDE DEF UpTo
  <2>3. Cardinality(UpTo(v)) # Cardinality(UpTo(w))
    BY <1>3, <2>1, <2>2, FS_Subset
  <2> QED
    BY <1>2, <2>3
<1>5. \A v, w \in snapshot.groups : number[v] = number[w] => v = w
  <2> SUFFICES ASSUME NEW v \in snapshot.groups, NEW w \in snapshot.groups, v # w
               PROVE  number[v] # number[w]
    OBVIOUS
  <2>1. v < w \/ w < v
    <3>1. v \in Nat /\ w \in Nat
      BY <1>3
    <3> QED
      BY <3>1
  <2> QED
    BY <1>4, <2>1
<1> QED
  BY <1>2, <1>5 DEF NumbersOK

LEMMA ImportSnapshotStep == IInv /\ ImportSnapshot => IInv'
<1> SUFFICES ASSUME IInv, ImportSnapshot PROVE IInv'
  OBVIOUS
<1>1. PICK number \in NewNumbers : Extract(number)
  BY DEF ImportSnapshot
<1>2. snapshot # None /\ NumbersOK(number)
  BY NewNumbersOK DEF ImportSnapshot, IInv
<1> QED
  BY <1>1, <1>2, ExtractStep

-----------------------------------------------------------------------------
(* The invariant, and what it says of the windows. *)

LEMMA IInvStep == IInv /\ [Next]_vars => IInv'
<1> SUFFICES ASSUME IInv, [Next]_vars PROVE IInv'
  OBVIOUS
<1>1. CASE User
  <2> USE <1>1 DEF User
  <2>1. CASE \E s \in Files \cup Pasted : NewWindow(s)
    BY <2>1, NewWindowStep
  <2>2. CASE \E w \in Windows, s \in Files \cup Pasted : UpdateWindow(w, s)
    BY <2>2, UpdateWindowStep
  <2>3. CASE \E w \in Windows : Edit(w) \/ ShutWindow(w)
    BY <2>3, EditStep, ShutWindowStep
  <2>4. CASE Quit \/ Start \/ \E f \in Files : StartWithFile(f)
    BY <2>4, QuitStep, StartStep, StartWithFileStep
  <2>5. CASE TakeSnapshot \/ RecallSnapshot \/ ImportSnapshot
    BY <2>5, TakeSnapshotStep, RecallSnapshotStep, ImportSnapshotStep
  <2> QED
    BY <2>1, <2>2, <2>3, <2>4, <2>5
<1>2. CASE Application
  <2> USE <1>2 DEF Application
  <2>1. CASE \E w \in Windows : SelfUpdate(w) \/ SourceDeleted(w) \/ CloseWindow(w)
    BY <2>1, SelfUpdateStep, SourceDeletedStep, CloseWindowStep
  <2>2. CASE SaveSources \/ RemoveCopy \/ CopySource \/ End
    BY <2>2, SaveSourcesStep, RemoveCopyStep, CopySourceStep, EndStep
  <2>3. CASE ReadNext \/ RestoreSession \/ CreateNext \/ TryAgain \/ EndRestoring
    BY <2>3, ReadNextStep, RestoreSessionStep, CreateNextStep, TryAgainStep, EndRestoringStep
  <2>4. CASE ExtractRecalled
    BY <2>4, ExtractRecalledStep
  <2> QED
    BY <2>1, <2>2, <2>3, <2>4
<1>3. CASE Crash
  BY <1>3, CrashStep
<1>4. CASE \E f \in Files, c \in Codes \cup {None} : ChangeFile(f, c)
  BY <1>4, ChangeFileStep
<1>5. CASE UNCHANGED vars
  <2>1. UNCHANGED <<disk, changes, folders, emptied, groups, path, sha, copies, snapshot, app, open>>
        /\ UNCHANGED <<todo, restored, again, wanted, touched>>
    BY <1>5 DEF vars, files, cache, settings, restoring
  <2>2. TypeOK'
    BY <2>1 DEF IInv, TypeOK, Names
  <2>3. SnapshotInv' /\ LoopInv'
    BY <2>1 DEF IInv, SnapshotInv, LoopInv
  <2>4. SavedInv'
    BY <2>1 DEF IInv, SavedInv, CopyFits, HasProgram, Names
  <2>5. RestoredInv'
    BY <2>1 DEF IInv, RestoredInv, Fits, SameSource
  <2>6. RecalledInv'
    BY <2>1 DEF IInv, RecalledInv, RecallFits, RecalledAsTaken, HasItsProgram, SameSource
  <2> QED
    BY <2>2, <2>3, <2>4, <2>5, <2>6 DEF IInv
<1> QED
  BY <1>1, <1>2, <1>3, <1>4, <1>5 DEF Next

LEMMA SpecIInv == Spec => []IInv
  BY InitIInv, IInvStep, PTL DEF Spec

\* A window on the screen has the source that was read for it.
LEMMA RestoredAsSavedInv == IInv => RestoredAsSaved
<1> SUFFICES ASSUME IInv, app = "creating", NEW w \in open, wanted[w] # None
             PROVE  \/ HasItsProgram(w)
                    \/ wanted[w].path # None /\ path[w] = wanted[w].path
                    \/ wanted[w].path # None /\ path[w] = None /\ sha[w] = Default
  BY DEF RestoredAsSaved
<1>1. w \in Windows /\ wanted \in [Windows -> SavedWindow \cup {None}]
  BY DEF IInv, TypeOK
<1>2. \/ restored[w] \in Files /\ path[w] = restored[w]
      \/ restored[w] \in Codes /\ path[w] = None /\ sha[w] = restored[w]
  BY DEF IInv, RestoredInv
<1>3. restored[w] # None
  BY <1>2, NoneIsNone
<1>4. Fits(w)
  BY <1>1, <1>3 DEF IInv, RestoredInv
<1>5. \A v \in SameSource(w) : wanted[v].sha \in Codes
  BY <1>1 DEF SameSource, SavedWindow
<1>6. wanted[w].path \in Files \cup {None}
  BY <1>1 DEF SavedWindow
<1>7. CASE \E v \in SameSource(w) : restored[w] = wanted[v].sha
  BY <1>2, <1>5, <1>7, NoneIsNone DEF HasItsProgram
<1>8. CASE wanted[w].path # None /\ restored[w] \in {wanted[w].path, Default}
  BY <1>2, <1>6, <1>8, NoneIsNone, SessionCacheAssumption DEF SessionCacheAssumption
<1> QED
  BY <1>4, <1>7, <1>8 DEF Fits

\* Every variable keeps its type, and a window that the next session creates again has the
\* program it had, or its file, or what the user chose instead, whatever was killed in between
\* (createAvailableFileSources, createWindow).
THEOREM RestoredWindowsAreAsSaved == Spec => []SessionInv
<1>1. IInv => SessionInv
  BY RestoredAsSavedInv DEF IInv, SessionInv
<1> QED
  BY <1>1, SpecIInv, PTL

\* Every window whose program was in the SHA folder when the user quit is created again at the
\* next start: saveCurrentSources copies it next to the window, and the copy is found again.
THEOREM SavedWindowsComeBack == Spec => []WindowsComeBack
<1>1. IInv => WindowsComeBack
  BY DEF IInv, RestoredInv, WindowsComeBack
<1> QED
  BY <1>1, SpecIInv, PTL

\* A window recalled or imported from a snapshot has the program it had when the snapshot was
\* taken, wherever its file and the SHA folder have gone since (recall_Snapshot).
THEOREM SnapshotsAreRecalledAsTaken == Spec => []RecalledAsTaken
<1>1. IInv => RecalledAsTaken
  BY DEF IInv, RecalledInv, RecalledAsTaken
<1> QED
  BY <1>1, SpecIInv, PTL

\* Importing a snapshot changes no window that is open, neither its settings nor its folder:
\* the windows of the snapshot get numbers that are free (recall_Snapshot, establish_indexToChange).
THEOREM ImportLeavesTheWindows == Spec => ImportKeepsWindows
<1> DEFINE Kept == app' = "recalling" =>
             \A w \in open : w \in open' /\ path'[w] = path[w] /\ sha'[w] = sha[w] /\ copies'[w] = copies[w]
<1>1. IInv /\ [Next]_vars => [Kept]_vars
  <2> SUFFICES ASSUME IInv, Next, app' = "recalling"
               PROVE  \A w \in open : w \in open' /\ path'[w] = path[w] /\ sha'[w] = sha[w] /\ copies'[w] = copies[w]
    OBVIOUS
  <2>1. CASE CreateNext
    <3> DEFINE n == Smallest(todo)
               s == restored[n]
    <3>1. CacheOK /\ SettingsOK /\ RestOK
      BY TypeParts DEF IInv
    <3>2. n \in todo /\ n \in Windows /\ n \notin open /\ s # None
      BY <2>1, <3>1, SmallestIn DEF CreateNext, RestOK, IInv, LoopInv
    <3>3. s \in Files \cup Codes
      BY <3>1, <3>2 DEF RestOK, MaybeCode
    <3>4. CreateWindow(n, s) /\ copies' = [copies EXCEPT ![n] = IF app = "recalling" THEN wanted[n].copy ELSE @]
      BY <2>1 DEF CreateNext
    <3> HIDE DEF n, s
    <3>5. /\ \A v \in Windows \ {n} : path'[v] = path[v] /\ sha'[v] = sha[v]
          /\ open' = open \/ open' = open \cup {n}
      BY <3>1, <3>2, <3>3, <3>4, CreateWindowStep
    <3>6. open \subseteq Windows \ {n} /\ copies \in [Windows -> MaybeCode]
      BY <3>1, <3>2 DEF SettingsOK, RestOK
    <3> QED
      BY <3>4, <3>5, <3>6
  <2>2. CASE ExtractRecalled
    BY <2>2 DEF ExtractRecalled
  <2>3. CASE ImportSnapshot
    <3>1. UNCHANGED <<settings, copies, open>>
      BY <2>3 DEF ImportSnapshot, Extract
    <3> QED
      BY <3>1 DEF settings
  <2>4. CASE \E f \in Files, c \in Codes \cup {None} : ChangeFile(f, c)
    BY <2>4 DEF ChangeFile, settings
  <2>5. CreateNext \/ ExtractRecalled \/ ImportSnapshot \/ \E f \in Files, c \in Codes \cup {None} : ChangeFile(f, c)
    <3>1. ~Crash
      BY DEF Crash
    <3>2. User => ImportSnapshot
      BY DEF User, NewWindow, UpdateWindow, Edit, ShutWindow, Quit, Start, StartWithFile,
             TakeSnapshot, RecallSnapshot
    <3>3. Application => CreateNext \/ ExtractRecalled
      BY DEF Application, SelfUpdate, SourceDeleted, CloseWindow, SaveSources, RemoveCopy,
             CopySource, End, ReadNext, RestoreSession, TryAgain, EndRestoring
    <3> QED
      BY <3>1, <3>2, <3>3 DEF Next
  <2> QED
    BY <2>1, <2>2, <2>3, <2>4, <2>5
<1> QED
  BY <1>1, SpecIInv, PTL DEF Spec, ImportKeepsWindows
=============================================================================
