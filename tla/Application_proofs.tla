------------------------ MODULE Application_proofs ------------------------
(***************************************************************************)
(* The numbers of the windows are distinct and the session on the disk is  *)
(* that of the windows, for any number of windows and whatever the drop    *)
(* server is sent, except for the windows of a program posted while        *)
(* currentSessionRestoration asks, and those that get the same number.     *)
(***************************************************************************)
EXTENDS Application, FiniteSetTheorems, SequenceTheorems, WellFoundedInduction,
        TLAPS

(* A set of naturals that is not empty has a smallest member.              *)
LEMMA HasSmallest ==
  ASSUME NEW S \in SUBSET Nat, S # {}
  PROVE  \E i \in S : \A j \in S : i <= j
  <1> DEFINE R == OpToRel(<, Nat)
  <1>1. IsWellFoundedOn(R, Nat)
    BY NatLessThanWellFounded, Zenon
  <1>2. \E x \in S : \A y \in S : ~ (<<y, x>> \in R)
    <2> HIDE DEF R
    <2> QED BY <1>1, WFMin
  <1>3. PICK x \in S : \A y \in S : ~ (<<y, x>> \in R)
    BY <1>2
  <1>4. \A y \in S : ~ (y < x)
    <2> SUFFICES ASSUME NEW y \in S, y < x PROVE FALSE OBVIOUS
    <2>1. <<y, x>> \in R
      BY Zenon DEF OpToRel
    <2> QED BY <2>1, <1>3
  <1> QED BY <1>4

(* find_smallest_index returns a number that is not in use.                *)
LEMMA SmallestIndexIsFree ==
  ASSUME NEW used, Nums \ used # {}
  PROVE  SmallestIndex(used) \in Nums \ used
  <1>1. Nums \ used \in SUBSET Nat
    BY ApplicationAssumption DEF Nums
  <1> QED BY <1>1, HasSmallest DEF SmallestIndex

LEMMA SmallestIsIn ==
  ASSUME NEW set \in SUBSET Nums, set # {}
  PROVE  Smallest(set) \in set
  <1>1. set \in SUBSET Nat
    BY ApplicationAssumption DEF Nums
  <1> QED BY <1>1, HasSmallest DEF Smallest

----------------------------------------------------------------------------
(* The invariant holds at the first start.                                 *)
LEMMA InitIInv == Init => IInv
  BY DEF Init, IInv, TypeOK, Stages, JobInv, DiskInv, NumbersDistinct,
         WindowsInSession, NumsOf, OpenNums, NoJob, JobKinds, Phases, Nums

(* The numbers that the invariant protects.                                *)
Good == NumsOf(open \ clashing)

(* What the creation of a window changes, whatever its outcome.            *)
CreatedInv(n) ==
  /\ open' \subseteq Windows /\ clashing' \subseteq open'
  /\ num' \in [Windows -> Nums \cup {0}]
  /\ navigate' \subseteq Windows
  /\ folders' \subseteq Nums /\ entries' \subseteq Nums /\ strays' \subseteq Nums
  /\ navigate = open => navigate' = open'
  /\ \A w \in open' : num'[w] \in Nums
  /\ OpenNums' \subseteq OpenNums \cup {n}
  /\ OpenNums \subseteq OpenNums'
  /\ Good' \subseteq Good \cup {n}
  /\ n \in OpenNums' \cup strays'
  /\ entries' \subseteq entries \cup OpenNums'
  /\ strays \subseteq strays' \cup OpenNums'
  /\ folders' \subseteq entries' \cup strays'
  /\ NumbersDistinct'
  /\ WindowsInSession'
  /\ job.phase = "asking" => entries' \subseteq entries /\ (open = clashing => open' = clashing')

LEMMA CreateWindowKeeps ==
  ASSUME IInv, NEW n \in Nums, n \notin Good, CreateWindow(n)
  PROVE  CreatedInv(n)
  <1>1. CASE Refused(n)
    BY <1>1 DEF CreatedInv, Refused, IInv, TypeOK, JobInv, DiskInv,
                NumbersDistinct, WindowsInSession, OpenNums, Good, NumsOf
  <1>2. CASE Fails(n)
    BY <1>2 DEF CreatedInv, Fails, Written, IInv, TypeOK, JobInv, DiskInv,
                NumbersDistinct, WindowsInSession, OpenNums, Good, NumsOf
  <1>3. CASE Opens(n)
    <2>1. PICK w \in Windows \ open :
            /\ open' = open \cup {w}
            /\ num' = [num EXCEPT ![w] = n]
            /\ navigate' = navigate \cup {w}
            /\ clashing' = clashing \cup (IF Clashes(n) THEN {w} ELSE {})
      BY <1>3 DEF Opens
    <2>2. /\ folders' = folders \cup {n}
          /\ entries' = IF job.phase = "asking" THEN entries ELSE entries \cup {n}
          /\ strays' = IF job.phase = "asking" THEN strays \cup {n} ELSE strays \ {n}
      BY <1>3 DEF Opens, Written
    <2>3. num' \in [Windows -> Nums \cup {0}] /\ num'[w] = n
      BY <2>1 DEF IInv, TypeOK
    <2>4. \A v \in open : num'[v] = num[v]
      BY <2>1 DEF IInv, TypeOK
    <2>5. OpenNums' = OpenNums \cup {n}
      BY <2>1, <2>3, <2>4 DEF OpenNums
    <2>6. /\ clashing \subseteq clashing' /\ clashing' \subseteq open'
          /\ clashing' \subseteq clashing \cup {w}
          /\ w \in clashing' <=> Clashes(n)
          /\ clashing \subseteq open
      BY <2>1 DEF IInv, TypeOK
    <2>7. Good' = IF Clashes(n) THEN Good ELSE Good \cup {n}
      BY <2>1, <2>3, <2>4, <2>6 DEF Good, NumsOf
    <2>8. NumbersDistinct'
      <3> SUFFICES ASSUME NEW v \in open', NEW u \in open', num'[v] = num'[u], v # u
                   PROVE  {v, u} \subseteq clashing'
        BY DEF NumbersDistinct
      <3>1. CASE v \in open /\ u \in open
        BY <2>4, <2>6, <3>1 DEF IInv, NumbersDistinct
      <3>2. ASSUME NEW x \in open, num'[x] = n PROVE x \in clashing /\ w \in clashing'
        <4>1. num[x] = n
          BY <2>4, <3>2
        <4>2. x \in clashing
          BY <4>1 DEF Good, NumsOf
        <4> QED BY <2>6, <4>1, <4>2 DEF Clashes
      <3> QED BY <2>1, <2>3, <2>6, <3>1, <3>2
    <2>9. WindowsInSession'
      <3>1. Good \subseteq folders \cap entries
        BY DEF Good, WindowsInSession, IInv
      <3>2. Good' \subseteq folders' \cap entries'
        BY <2>2, <2>7, <3>1 DEF Clashes
      <3> QED BY <3>2 DEF Good, WindowsInSession
    <2>10. folders' \subseteq entries' \cup strays'
      BY <2>2 DEF IInv, DiskInv
    <2>11. \A v \in open' : num'[v] \in Nums
      BY <2>1, <2>3, <2>4 DEF IInv, JobInv
    <2>12. job.phase = "asking" => Clashes(n)
      BY DEF Clashes
    <2> QED BY <2>1, <2>2, <2>3, <2>5, <2>6, <2>7, <2>8, <2>9, <2>10, <2>11, <2>12
            DEF CreatedInv, IInv, TypeOK
  <1> QED BY <1>1, <1>2, <1>3 DEF CreateWindow

(* A new window outside a job, in the dialog of files, or posted.          *)
LEMMA NewWindowKeeps ==
  ASSUME IInv, NewWindow \/ EarlyWindow \/ LatePost \/ Duplicate
  PROVE  IInv'
  <1> DEFINE n == SmallestIndex(OpenNums)
  <1>1. /\ n \in Nums /\ n \notin OpenNums
        /\ CreateWindow(n)
        /\ UNCHANGED <<stage, snapshot, job>>
    BY SmallestIndexIsFree DEF NewWindow, EarlyWindow, LatePost, Duplicate
  <1>2. CreatedInv(n)
    <2>1. n \notin Good
      BY <1>1 DEF Good, NumsOf, OpenNums
    <2> QED BY <1>1, <2>1, CreateWindowKeeps
  <1>3. \/ job.kind \in {"none", "open"} /\ job.phase = "idle"
        \/ stage = "running" /\ job.kind = "restore" /\ job.phase = "asking"
    BY DEF NewWindow, EarlyWindow, LatePost, Duplicate, Idle, IInv, JobInv, NoJob
  <1> HIDE DEF n
  <1>4. TypeOK'
    BY <1>1, <1>2 DEF CreatedInv, IInv, TypeOK
  <1>5. JobInv'
    BY <1>1, <1>2, <1>3 DEF CreatedInv, IInv, JobInv, NoJob
  <1>6. DiskInv'
    BY <1>1, <1>2, <1>3 DEF CreatedInv, IInv, DiskInv
  <1> QED BY <1>2, <1>4, <1>5, <1>6 DEF IInv, CreatedInv

(* A window shut, by the user or by the recall of a snapshot.              *)
LEMMA ShutKeeps ==
  ASSUME IInv, NEW w \in open, NEW file, Shut(w, file), stage = "running",
         job.phase \in {"idle", "shutting"}, UNCHANGED <<stage, snapshot, job>>
  PROVE  IInv'
  <1>1. /\ open' = open \ {w}
        /\ num' = [num EXCEPT ![w] = 0]
        /\ navigate' = navigate \ {w}
        /\ clashing' = clashing \ {w}
        /\ folders' = folders \ {num[w]}
        /\ entries' = entries \ {num[w]}
        /\ strays' = strays \ {num[w]}
    BY DEF Shut
  <1>2. /\ num' \in [Windows -> Nums \cup {0}]
        /\ \A v \in open' : num'[v] = num[v]
    BY <1>1 DEF IInv, TypeOK
  <1>3. OpenNums \ {num[w]} \subseteq OpenNums' /\ OpenNums' \subseteq OpenNums
    BY <1>1, <1>2 DEF OpenNums
  <1>4. Good' \subseteq Good \ {num[w]}
    <2> SUFFICES ASSUME NEW v \in open', v \notin clashing' PROVE num'[v] \in Good \ {num[w]}
      BY DEF Good, NumsOf
    <2>1. v \in open \ clashing /\ v # w /\ num'[v] = num[v]
      BY <1>1, <1>2
    <2> QED BY <2>1 DEF Good, NumsOf, IInv, NumbersDistinct
  <1>5. TypeOK'
    BY <1>1, <1>2 DEF IInv, TypeOK
  <1>6. JobInv'
    BY <1>1, <1>2, <1>3 DEF IInv, JobInv, NoJob
  <1>7. DiskInv'
    BY <1>1, <1>3 DEF IInv, DiskInv
  <1>8. NumbersDistinct'
    BY <1>1, <1>2 DEF IInv, NumbersDistinct
  <1>9. WindowsInSession'
    BY <1>1, <1>4 DEF Good, IInv, WindowsInSession
  <1> QED BY <1>5, <1>6, <1>7, <1>8, <1>9 DEF IInv

(* A window of a session or of a snapshot.                                 *)
LEMMA OpenNextKeeps ==
  ASSUME IInv, OpenNext
  PROVE  IInv'
  <1> DEFINE n == NextNumber
             k == Smallest(job.left)
  <1>1. k \in job.left
    BY SmallestIsIn DEF OpenNext, IInv, TypeOK
  <1>2. n \in Nums /\ n \notin Good
    <2>1. CASE job.kind = "import"
      BY <2>1, SmallestIndexIsFree DEF OpenNext, NextNumber, IInv, JobInv, Good, NumsOf, OpenNums
    <2>2. CASE job.kind # "import"
      BY <2>2, <1>1 DEF OpenNext, NextNumber, IInv, JobInv, TypeOK, Good
    <2> QED BY <2>1, <2>2
  <1>3. job.kind # "import" => n = k
    BY DEF NextNumber
  <1>4. CreatedInv(n)
    BY <1>2, CreateWindowKeeps DEF OpenNext
  <1>5. /\ job' = [job EXCEPT !.left = job.left \ {k}, !.taken = job.taken \cup {n}]
        /\ UNCHANGED <<stage, snapshot>>
        /\ job.phase = "opening"
    BY DEF OpenNext
  <1> HIDE DEF n, k
  <1>6. /\ job'.kind = job.kind /\ job'.phase = job.phase
        /\ job'.left = job.left \ {k} /\ job'.taken = job.taken \cup {n}
        /\ job'.all = job.all
    BY <1>5 DEF IInv, TypeOK
  <1>7. TypeOK'
    BY <1>1, <1>2, <1>4, <1>5 DEF CreatedInv, IInv, TypeOK
  <1>8. JobInv'
    <2>1. job.kind # "import" => job'.left \cap Good' = {}
      BY <1>3, <1>4, <1>6, <1>5 DEF CreatedInv, IInv, JobInv, Good
    <2> QED BY <1>4, <1>5, <1>6, <2>1 DEF CreatedInv, IInv, JobInv, NoJob, Good
  <1>9. DiskInv'
    BY <1>3, <1>4, <1>5, <1>6 DEF CreatedInv, IInv, DiskInv
  <1> QED BY <1>4, <1>7, <1>8, <1>9 DEF IInv, CreatedInv

(* The windows are all dropped when the program quits.                     *)
LEMMA QuittingKeeps ==
  ASSUME IInv, CloseAllWindows \/ Quit
  PROVE  IInv'
  BY DEF CloseAllWindows, Quit, Recalling, Idle, IInv, TypeOK, Stages, JobInv, NoJob,
         DiskInv, NumbersDistinct, WindowsInSession, OpenNums, NumsOf

(* The questions of the restoration have been answered.                    *)
LEMMA AnswerKeeps ==
  ASSUME IInv, Answer
  PROVE  IInv'
  <1>1. PICK some \in SUBSET job.all :
          /\ job' = [job EXCEPT !.phase = "opening", !.left = some, !.all = some]
          /\ strays' = strays \cup (job.all \ some)
    BY DEF Answer
  <1>2. /\ job.phase = "asking" /\ job.kind = "restore" /\ open = clashing
        /\ UNCHANGED <<stage, open, num, clashing, navigate, folders, entries, snapshot>>
        /\ stage \in {"running", "quitting"}
    BY DEF Answer, IInv, TypeOK, Stages, JobInv, NoJob
  <1>3. some \subseteq Nums /\ job.all \subseteq Nums /\ job.taken \subseteq Nums
    BY <1>1 DEF IInv, TypeOK
  <1>4. job' = [kind |-> "restore", phase |-> "opening", left |-> some, all |-> some,
                taken |-> job.taken]
    BY <1>1, <1>2 DEF IInv, TypeOK
  <1>5. OpenNums' = OpenNums /\ NumsOf(open \ clashing)' = {} /\ NumsOf(open \ clashing) = {}
    BY <1>2 DEF OpenNums, NumsOf
  <1>6. TypeOK'
    BY <1>1, <1>2, <1>3, <1>4 DEF IInv, TypeOK, JobKinds, Phases
  <1>7. JobInv'
    BY <1>2, <1>4, <1>5 DEF IInv, JobInv
  <1>8. DiskInv'
    BY <1>1, <1>2, <1>4, <1>5 DEF IInv, DiskInv
  <1>9. NumbersDistinct' /\ WindowsInSession'
    BY <1>2, <1>5 DEF IInv, NumbersDistinct, WindowsInSession
  <1> QED BY <1>6, <1>7, <1>8, <1>9 DEF IInv

(* The steps that open and close no window.                                *)
LEMMA JobStepsKeep ==
  ASSUME IInv, \/ StartOpen \/ EndOpen \/ RecallCurrentSession \/ SkipSession \/ TakeSnapshot
               \/ \E kind \in {"recall", "import"} : RecallSnapshot(kind)
               \/ EndShutting \/ Answer \/ OpenAgain \/ EndJob
  PROVE  IInv'
  <1> USE DEF IInv, TypeOK, Stages, JobKinds, Phases, JobInv, NoJob, DiskInv,
              NumbersDistinct, WindowsInSession, OpenNums, NumsOf, windowVars, Idle
  <1>1. CASE StartOpen
    BY <1>1 DEF StartOpen
  <1>2. CASE EndOpen
    BY <1>2 DEF EndOpen
  <1>3. CASE RecallCurrentSession
    BY <1>3 DEF RecallCurrentSession
  <1>4. CASE SkipSession
    BY <1>4 DEF SkipSession
  <1>5. CASE TakeSnapshot
    BY <1>5 DEF TakeSnapshot
  <1>6. ASSUME NEW kind \in {"recall", "import"}, RecallSnapshot(kind) PROVE IInv'
    <2>1. PICK all \in {snapshot, {}} :
            job' = [kind |-> kind, phase |-> IF kind = "import" THEN "opening" ELSE "shutting",
                    left |-> all, all |-> all, taken |-> OpenNums]
      BY <1>6 DEF RecallSnapshot
    <2>2. all \in SUBSET Nums
      BY <1>6 DEF RecallSnapshot
    <2> QED BY <1>6, <2>1, <2>2 DEF RecallSnapshot
  <1>7. CASE EndShutting
    BY <1>7 DEF EndShutting
  <1>8. CASE Answer
    BY <1>8, AnswerKeeps
  <1>9. CASE OpenAgain
    <2>1. job' = [kind |-> "again", phase |-> "opening", left |-> job.all, all |-> job.all,
                  taken |-> job.taken]
      BY <1>9 DEF OpenAgain
    <2>2. TypeOK'
      BY <1>9, <2>1 DEF OpenAgain
    <2>3. JobInv'
      BY <1>9, <2>1 DEF OpenAgain, NothingRecalled
    <2>4. DiskInv'
      BY <1>9, <2>1 DEF OpenAgain, NothingRecalled
    <2> QED BY <1>9, <2>2, <2>3, <2>4 DEF OpenAgain
  <1>10. CASE EndJob
    <2>1. job' = NoJob /\ UNCHANGED <<stage, windowVars, snapshot>>
      BY <1>10 DEF EndJob
    <2>2. TypeOK'
      BY <2>1
    <2>3. JobInv'
      BY <2>1
    <2>4. DiskInv'
      BY <1>10, <2>1 DEF EndJob
    <2>5. NumbersDistinct' /\ WindowsInSession'
      BY <2>1
    <2> HIDE DEF TypeOK, JobInv, DiskInv, NumbersDistinct, WindowsInSession
    <2> QED BY <2>2, <2>3, <2>4, <2>5
  <1> QED BY <1>1, <1>2, <1>3, <1>4, <1>5, <1>6, <1>7, <1>8, <1>9, <1>10

(* Every step of the application keeps the invariant.                      *)
LEMMA NextKeepsIInv ==
  ASSUME IInv, [Next]_vars
  PROVE  IInv'
  <1>1. CASE NewWindow \/ EarlyWindow \/ LatePost \/ Duplicate
    BY <1>1, NewWindowKeeps
  <1>2. ASSUME NEW w \in Windows, NEW file, CloseWindow(w, file) PROVE IInv'
    <2>1. /\ stage = "running" /\ w \in open /\ Shut(w, file) /\ job.phase = "idle"
          /\ UNCHANGED <<stage, snapshot, job>>
      BY <1>2 DEF CloseWindow, Idle, IInv, JobInv, NoJob
    <2> QED BY <2>1, ShutKeeps
  <1>3. ASSUME NEW w \in Windows, NEW file, ShutNext(w, file) PROVE IInv'
    <2>1. /\ stage = "running" /\ w \in open /\ Shut(w, file) /\ job.phase = "shutting"
          /\ UNCHANGED <<stage, snapshot, job>>
      BY <1>3 DEF ShutNext, IInv, TypeOK, Stages, JobInv, NoJob
    <2> QED BY <2>1, ShutKeeps
  <1>4. CASE CloseAllWindows \/ Quit
    BY <1>4, QuittingKeeps
  <1>5. CASE OpenNext
    BY <1>5, OpenNextKeeps
  <1>6. CASE \/ StartOpen \/ EndOpen \/ RecallCurrentSession \/ SkipSession \/ TakeSnapshot
             \/ \E kind \in {"recall", "import"} : RecallSnapshot(kind)
             \/ EndShutting \/ Answer \/ OpenAgain \/ EndJob
    BY <1>6, JobStepsKeep
  <1>7. CASE UNCHANGED vars
    BY <1>7 DEF vars, windowVars, IInv, TypeOK, JobInv, NoJob, DiskInv,
                NumbersDistinct, WindowsInSession, OpenNums, NumsOf
  <1> QED BY <1>1, <1>2, <1>3, <1>4, <1>5, <1>6, <1>7 DEF Next

(* What the application, its jobs and the disk know of the windows agrees  *)
(* at every step, also when the program quits during a restoration.        *)
THEOREM ApplicationInvariant == Spec => []IInv
  <1>1. Init => IInv
    BY InitIInv
  <1>2. IInv /\ [Next]_vars => IInv'
    BY NextKeepsIInv
  <1> QED BY <1>1, <1>2, PTL DEF Spec

(* Two open windows never have the same number, however they were opened,  *)
(* unless both clash because of a program posted during a question.        *)
THEOREM NumbersAreDistinct == Spec => []NumbersDistinct
  <1>1. IInv => NumbersDistinct
    BY DEF IInv
  <1> QED BY <1>1, ApplicationInvariant, PTL

(* The session on the disk is that of the open windows, apart from what    *)
(* failed and refused windows and sessions not restored leave behind, and  *)
(* from the windows whose numbers clash.                                   *)
THEOREM SessionIsThatOfTheWindows == Spec => []SessionMatchesWindows
  <1>1. IInv => SessionMatchesWindows
    BY DEF IInv, SessionMatchesWindows, DiskInv, JobInv, NoJob, Idle
  <1> QED BY <1>1, ApplicationInvariant, PTL

----------------------------------------------------------------------------
(* Recent files.                                                           *)

Paths == Files \cup {NoFile}

(* The paths up to k are those of files, and those after it are empty.     *)
Filled(list, k) ==
  /\ list \in Seq(Paths) /\ k \in 0..Len(list)
  /\ \A i \in 1..Len(list) : list[i] # NoFile <=> i <= k

OnceEach(list) ==
  \A i, j \in DOMAIN list : list[i] = list[j] /\ list[i] # NoFile => i = j

Visible(k) == IF k < MaxRecent THEN k ELSE MaxRecent

(* The list is filled from the first on, it fills the settings, and the    *)
(* menu shows its first files.                                             *)
RecentInv ==
  /\ Len(recents) >= MaxRecent
  /\ OnceEach(recents)
  /\ \E k \in Nat : Filled(recents, k) /\ shown = SubSeq(recents, 1, Visible(k))

LEMMA VisibleIs ==
  ASSUME NEW k \in Nat
  PROVE  Visible(k) \in 0..k /\ (k >= MaxRecent => Visible(k) = MaxRecent)
  BY ApplicationAssumption DEF ApplicationAssumption, Visible

LEMMA PrefixIs ==
  ASSUME NEW list \in Seq(Paths), NEW n \in 0..Len(list)
  PROVE  /\ SubSeq(list, 1, n) \in Seq(Paths) /\ Len(SubSeq(list, 1, n)) = n
         /\ \A i \in 1..n : SubSeq(list, 1, n)[i] = list[i]
  <1>1. Len(list) \in Nat /\ n \in Nat
    BY LenProperties
  <1>2. \A i \in 1..n : list[i] \in Paths
    BY <1>1, ElementOfSeq
  <1>3. /\ SubSeq(list, 1, n) \in Seq(Paths)
        /\ Len(SubSeq(list, 1, n)) = IF 1 <= n THEN n - 1 + 1 ELSE 0
        /\ \A i \in 1..(n - 1 + 1) : SubSeq(list, 1, n)[i] = list[1 + i - 1]
    BY <1>1, <1>2, SubSeqProperties
  <1> QED BY <1>1, <1>3

(* The named paths of a list that is filled from the first on.             *)
LEMMA NamedIs ==
  ASSUME NEW list, NEW k, Filled(list, k)
  PROVE  Named(list) = SubSeq(list, 1, k)
  <1> DEFINE named == {i \in DOMAIN list : list[i] # NoFile}
             Nth(n) == CHOOSE i \in named : Cardinality({j \in named : j <= i}) = n
             s == SubSeq(list, 1, k)
  <1>1. Len(list) \in Nat /\ DOMAIN list = 1..Len(list) /\ k \in Nat /\ k <= Len(list)
    BY LenProperties DEF Filled
  <1>2. named = 1..k
    BY <1>1 DEF Filled
  <1>3. Cardinality(named) = k
    <2>1. Cardinality(1..k) = k
      BY <1>1, FS_Interval
    <2> QED BY <1>2, <2>1
  <1> HIDE DEF named
  <1>4. ASSUME NEW i \in named PROVE Cardinality({j \in named : j <= i}) = i
    <2>1. i \in Nat /\ 1 <= i /\ {j \in named : j <= i} = 1..i
      BY <1>1, <1>2
    <2>2. Cardinality(1..i) = i
      BY <2>1, FS_Interval
    <2> QED BY <2>1, <2>2
  <1>5. \A n \in 1..k : Nth(n) = n
    BY <1>2, <1>4
  <1>6. Named(list) = [n \in 1..Cardinality(named) |-> list[Nth(n)]]
    BY DEF Named, named
  <1> HIDE DEF Nth
  <1>7. Named(list) = [n \in 1..k |-> list[n]]
    BY <1>3, <1>5, <1>6
  <1>8. s \in Seq(Paths) /\ Len(s) = k /\ \A i \in 1..k : s[i] = list[i]
    BY PrefixIs DEF Filled
  <1> HIDE DEF s
  <1>9. s = [n \in 1..k |-> list[n]]
    <2>1. s \in [1..Len(s) -> Paths]
      BY <1>8, LenProperties
    <2> QED BY <1>8, <2>1
  <1> QED BY <1>7, <1>9 DEF s

(* What update_Recent_File writes into the menu.                           *)
LEMMA FirstNamed ==
  ASSUME NEW list, NEW k, Filled(list, k)
  PROVE  First(MaxRecent, Named(list)) = SubSeq(list, 1, Visible(k))
  <1> DEFINE s == SubSeq(list, 1, k)
             n == Visible(k)
  <1>1. Len(list) \in Nat /\ k \in Nat /\ k <= Len(list) /\ MaxRecent \in Nat
    BY LenProperties, ApplicationAssumption DEF Filled, ApplicationAssumption
  <1>2. list \in Seq(Paths) /\ k \in 0..Len(list) /\ n \in 0..k /\ n \in 0..Len(list)
    BY <1>1 DEF Filled, Visible
  <1>3. s \in Seq(Paths) /\ Len(s) = k /\ \A i \in 1..k : s[i] = list[i]
    BY <1>2, PrefixIs
  <1>4. First(MaxRecent, Named(list)) = SubSeq(s, 1, n)
    <2>1. First(MaxRecent, s) = SubSeq(s, 1, Visible(Len(s)))
      BY DEF First, Visible
    <2> QED BY <1>3, <2>1, NamedIs
  <1> HIDE DEF s, n
  <1>5. /\ SubSeq(s, 1, n) \in Seq(Paths) /\ Len(SubSeq(s, 1, n)) = n
        /\ \A i \in 1..n : SubSeq(s, 1, n)[i] = s[i]
    BY <1>2, <1>3, PrefixIs
  <1>6. /\ SubSeq(list, 1, n) \in Seq(Paths) /\ Len(SubSeq(list, 1, n)) = n
        /\ \A i \in 1..n : SubSeq(list, 1, n)[i] = list[i]
    BY <1>2, PrefixIs
  <1>7. \A i \in 1..n : SubSeq(s, 1, n)[i] = SubSeq(list, 1, n)[i]
    BY <1>1, <1>2, <1>3, <1>5, <1>6
  <1>8. SubSeq(s, 1, n) = SubSeq(list, 1, n)
    BY <1>5, <1>6, <1>7, SeqEqual
  <1> QED BY <1>4, <1>8 DEF n

(* The menu keeps nothing of what it showed if it shows as many files.     *)
LEMMA MenuRewritten ==
  ASSUME NEW list, NEW k, Filled(list, k), NEW old \in Seq(Paths), Len(old) <= Visible(k)
  PROVE  Shown(old, list) = SubSeq(list, 1, Visible(k))
  <1> DEFINE new == SubSeq(list, 1, Visible(k))
  <1>1. Visible(k) \in 0..Len(list) /\ list \in Seq(Paths)
    BY LenProperties, ApplicationAssumption DEF Filled, ApplicationAssumption, Visible
  <1>2. new \in Seq(Paths) /\ Len(new) = Visible(k) /\ Len(new) \in Nat
    BY <1>1, PrefixIs, LenProperties
  <1>3. Shown(old, list) = new \o SubSeq(old, Len(new) + 1, Len(old))
    BY FirstNamed DEF Shown
  <1> HIDE DEF new
  <1>4. SubSeq(old, Len(new) + 1, Len(old)) = <<>>
    <2>1. Len(old) \in Nat
      BY LenProperties
    <2>2. Len(old) < Len(new) + 1
      BY <1>2, <2>1
    <2> QED BY <1>2, <2>1, <2>2, SubSeqEmpty
  <1>5. new \o <<>> = new
    BY <1>2, ConcatEmptySeq
  <1> QED BY <1>3, <1>4, <1>5 DEF new

(* QList::removeOne.                                                       *)
LEMMA WithoutIs ==
  ASSUME NEW list \in Seq(Paths), NEW file
  PROVE  \/ /\ Without(list, file) = list
            /\ \A i \in 1..Len(list) : list[i] # file
         \/ \E p \in 1..Len(list) :
              /\ list[p] = file
              /\ Without(list, file) \in Seq(Paths)
              /\ Len(Without(list, file)) = Len(list) - 1
              /\ \A i \in 1..(Len(list) - 1) :
                   Without(list, file)[i] = list[IF i < p THEN i ELSE i + 1]
  <1>1. Len(list) \in Nat /\ DOMAIN list = 1..Len(list) /\ \A i \in 1..Len(list) : list[i] \in Paths
    BY LenProperties, ElementOfSeq
  <1>2. CASE ~ \E i \in DOMAIN list : list[i] = file
    BY <1>1, <1>2 DEF Without
  <1>3. CASE \E i \in DOMAIN list : list[i] = file
    <2> DEFINE IsFirst(i) == list[i] = file /\ \A j \in 1..(i - 1) : list[j] # file
               k == CHOOSE i \in DOMAIN list : IsFirst(i)
               n == Len(list)
               a == SubSeq(list, 1, k - 1)
               b == SubSeq(list, k + 1, n)
    <2>1. \E i \in DOMAIN list : IsFirst(i)
      <3> DEFINE S == {i \in DOMAIN list : list[i] = file}
      <3>1. S \in SUBSET Nat /\ S # {}
        BY <1>1, <1>3
      <3>2. PICK i \in S : \A j \in S : i <= j
        BY <3>1, HasSmallest
      <3>3. \A j \in 1..(i - 1) : list[j] # file
        BY <1>1, <3>2
      <3> QED BY <3>2, <3>3
    <2>2. k \in DOMAIN list /\ list[k] = file
      BY <2>1
    <2>3. Without(list, file) = a \o b
      BY <1>3 DEF Without
    <2> HIDE DEF k
    <2>4. k \in 1..n /\ k \in Nat /\ n \in Nat /\ k - 1 \in 0..n /\ k + 1 \in Int
      BY <1>1, <2>2
    <2>5. a \in Seq(Paths) /\ Len(a) = k - 1 /\ \A i \in 1..(k - 1) : a[i] = list[i]
      BY <2>4, PrefixIs
    <2>6. b \in Seq(Paths) /\ Len(b) = n - k /\ \A i \in 1..(n - k) : b[i] = list[k + i]
      <3>1. \A i \in (k + 1)..n : list[i] \in Paths
        BY <1>1, <2>4
      <3>2. /\ b \in Seq(Paths)
            /\ Len(b) = IF k + 1 <= n THEN n - (k + 1) + 1 ELSE 0
            /\ \A i \in 1..(n - (k + 1) + 1) : b[i] = list[(k + 1) + i - 1]
        BY <2>4, <3>1, SubSeqProperties
      <3> HIDE DEF b
      <3>3. \A i \in 1..(n - k) : i \in 1..(n - (k + 1) + 1) /\ (k + 1) + i - 1 = k + i
        BY <2>4
      <3> QED BY <2>4, <3>2, <3>3
    <2> HIDE DEF a, b
    <2>7. /\ a \o b \in Seq(Paths) /\ Len(a \o b) = n - 1
          /\ \A i \in 1..(n - 1) : (a \o b)[i] = list[IF i < k THEN i ELSE i + 1]
      <3>1. /\ a \o b \in Seq(Paths) /\ Len(a \o b) = Len(a) + Len(b)
            /\ \A i \in 1..(Len(a) + Len(b)) :
                 (a \o b)[i] = IF i <= Len(a) THEN a[i] ELSE b[i - Len(a)]
        BY <2>5, <2>6, ConcatProperties
      <3>2. ASSUME NEW i \in 1..(n - 1) PROVE (a \o b)[i] = list[IF i < k THEN i ELSE i + 1]
        <4>0. Len(a) + Len(b) = n - 1
          BY <2>4, <2>5, <2>6
        <4>1. (a \o b)[i] = IF i <= k - 1 THEN a[i] ELSE b[i - (k - 1)]
          BY <2>5, <3>1, <4>0
        <4>2. CASE i < k
          BY <2>4, <2>5, <4>1, <4>2
        <4>3. CASE ~ (i < k)
          <5>1. i - (k - 1) \in 1..(n - k) /\ k + (i - (k - 1)) = i + 1 /\ ~ (i <= k - 1)
            BY <2>4, <4>3
          <5> QED BY <2>6, <4>1, <4>3, <5>1
        <4> QED BY <4>2, <4>3
      <3> QED BY <2>4, <2>5, <2>6, <3>1, <3>2
    <2> QED BY <2>2, <2>3, <2>4, <2>7
  <1> QED BY <1>2, <1>3

(* A path added to the list comes first, and once.                         *)
LEMMA PushedIs ==
  ASSUME NEW list, NEW k, Filled(list, k), OnceEach(list), NEW file \in Files
  PROVE  /\ OnceEach(Pushed(list, file)) /\ Len(Pushed(list, file)) >= Len(list)
         /\ Filled(Pushed(list, file), k) \/ Filled(Pushed(list, file), k + 1)
  <1> DEFINE n == Len(list)
             rest == Without(list, file)
             new == Pushed(list, file)
  <1>1. /\ list \in Seq(Paths) /\ n \in Nat /\ DOMAIN list = 1..n /\ k \in 0..n
        /\ \A i \in 1..n : list[i] # NoFile <=> i <= k
    BY LenProperties DEF Filled
  <1>2. file # NoFile /\ file \in Paths
    BY ApplicationAssumption DEF ApplicationAssumption, Paths
  <1>3. <<file>> \in Seq(Paths) /\ Len(<<file>>) = 1 /\ <<file>>[1] = file
    BY <1>2
  <1>4. new = <<file>> \o rest
    BY DEF Pushed
  <1>5. rest \in Seq(Paths) =>
          /\ new \in Seq(Paths) /\ Len(new) = 1 + Len(rest) /\ DOMAIN new = 1..Len(new)
          /\ \A i \in 1..(1 + Len(rest)) : new[i] = IF i <= 1 THEN file ELSE rest[i - 1]
    <2> SUFFICES ASSUME rest \in Seq(Paths)
                 PROVE  /\ new \in Seq(Paths) /\ Len(new) = 1 + Len(rest) /\ DOMAIN new = 1..Len(new)
                        /\ \A i \in 1..(1 + Len(rest)) : new[i] = IF i <= 1 THEN file ELSE rest[i - 1]
      OBVIOUS
    <2> HIDE DEF new, rest
    <2>1. /\ new \in Seq(Paths) /\ Len(new) = 1 + Len(rest)
          /\ \A i \in 1..(1 + Len(rest)) : new[i] = IF i <= 1 THEN <<file>>[i] ELSE rest[i - 1]
      BY <1>3, <1>4, ConcatProperties
    <2>2. Len(rest) \in Nat /\ DOMAIN new = 1..Len(new)
      BY <2>1, LenProperties
    <2>3. ASSUME NEW i \in 1..(1 + Len(rest)), i <= 1 PROVE <<file>>[i] = file
      <3>1. i = 1
        BY <2>2, <2>3
      <3> QED BY <1>3, <3>1
    <2> QED BY <2>1, <2>2, <2>3
  <1>6. CASE rest = list /\ \A i \in 1..n : list[i] # file
    <2> HIDE DEF new, rest
    <2>1. /\ new \in Seq(Paths) /\ Len(new) = n + 1 /\ DOMAIN new = 1..(n + 1) /\ new[1] = file
          /\ \A i \in 2..(n + 1) : i - 1 \in 1..n /\ new[i] = list[i - 1]
      BY <1>1, <1>5, <1>6
    <2> HIDE DEF n
    <2>2. OnceEach(new)
      <3> SUFFICES ASSUME NEW i \in 1..(n + 1), NEW j \in 1..(n + 1), new[i] = new[j], new[i] # NoFile
                   PROVE  i = j
        BY <2>1 DEF OnceEach
      <3>1. CASE i = 1 \/ j = 1
        BY <1>1, <1>6, <2>1, <3>1
      <3>2. CASE i # 1 /\ j # 1
        <4>1. i - 1 \in 1..n /\ j - 1 \in 1..n /\ new[i] = list[i - 1] /\ new[j] = list[j - 1]
          BY <1>1, <2>1, <3>2
        <4>2. i - 1 = j - 1
          BY <1>1, <4>1 DEF OnceEach
        <4> QED BY <1>1, <4>2
      <3> QED BY <3>1, <3>2
    <2>3. Filled(new, k + 1)
      <3>1. ASSUME NEW i \in 1..(n + 1) PROVE new[i] # NoFile <=> i <= k + 1
        <4>1. CASE i = 1
          BY <1>1, <1>2, <2>1, <4>1
        <4>2. CASE i # 1
          <5>1. i - 1 \in 1..n /\ new[i] = list[i - 1]
            BY <1>1, <2>1, <4>2
          <5> QED BY <1>1, <5>1
        <4> QED BY <4>1, <4>2
      <3> QED BY <1>1, <2>1, <3>1 DEF Filled
    <2>4. Len(new) >= Len(list)
      BY <1>1, <2>1 DEF n
    <2> QED BY <2>2, <2>3, <2>4 DEF new
  <1>7. ASSUME NEW p \in 1..n, list[p] = file, rest \in Seq(Paths), Len(rest) = n - 1,
               \A i \in 1..(n - 1) : rest[i] = list[IF i < p THEN i ELSE i + 1]
        PROVE  OnceEach(new) /\ Len(new) >= n /\ Filled(new, k)
    <2> DEFINE From(i) == IF i = 1 THEN p ELSE IF i <= p THEN i - 1 ELSE i
    <2> HIDE DEF new, rest
    <2>1. new \in Seq(Paths) /\ Len(new) = n /\ DOMAIN new = 1..n
      <3>1. 1 + (n - 1) = n
        BY <1>1
      <3> QED BY <1>5, <1>7, <3>1
    <2>2. ASSUME NEW i \in 1..n PROVE From(i) \in 1..n /\ new[i] = list[From(i)]
      <3>1. new[i] = IF i <= 1 THEN file ELSE rest[i - 1]
        BY <1>1, <1>5, <1>7
      <3>2. CASE i = 1
        BY <1>7, <3>1, <3>2
      <3>3. CASE i # 1
        <4>1. i - 1 \in 1..(n - 1) /\ ~ (i <= 1)
          BY <1>1, <3>3
        <4>2. rest[i - 1] = list[IF i - 1 < p THEN i - 1 ELSE (i - 1) + 1]
          BY <1>7, <4>1
        <4>3. (IF i - 1 < p THEN i - 1 ELSE (i - 1) + 1) = From(i) /\ From(i) \in 1..n
          BY <1>1, <3>3, <4>1
        <4> QED BY <3>1, <4>1, <4>2, <4>3
      <3> QED BY <3>2, <3>3
    <2>3. p <= k
      BY <1>1, <1>2, <1>7
    <2> HIDE DEF n
    <2>4. \A i, j \in 1..n : From(i) = From(j) => i = j
      BY <1>1
    <2>5. \A i \in 1..n : From(i) <= k <=> i <= k
      BY <1>1, <2>3
    <2> HIDE DEF From
    <2>6. OnceEach(new)
      BY <1>1, <2>1, <2>2, <2>4 DEF OnceEach
    <2>7. Filled(new, k)
      BY <1>1, <2>1, <2>2, <2>5 DEF Filled
    <2> QED BY <1>1, <2>1, <2>6, <2>7
  <1> HIDE DEF n, rest, new
  <1>8. \/ rest = list /\ \A i \in 1..n : list[i] # file
        \/ \E p \in 1..n :
             /\ list[p] = file /\ rest \in Seq(Paths) /\ Len(rest) = n - 1
             /\ \A i \in 1..(n - 1) : rest[i] = list[IF i < p THEN i ELSE i + 1]
    BY <1>1, WithoutIs DEF n, rest
  <1> QED BY <1>6, <1>7, <1>8 DEF n, new

(* set_Current_File.                                                       *)
LEMMA SetCurrentFileKeeps ==
  ASSUME RecentInv, NEW file \in Paths, SetCurrentFile(file)
  PROVE  RecentInv'
  <1>1. CASE file = NoFile
    BY <1>1 DEF SetCurrentFile, RecentInv, OnceEach, Filled
  <1>2. CASE file # NoFile
    <2>1. file \in Files
      BY <1>2 DEF Paths
    <2>2. PICK k \in Nat : Filled(recents, k) /\ shown = SubSeq(recents, 1, Visible(k))
      BY DEF RecentInv
    <2>3. recents' = Pushed(recents, file) /\ shown' = Shown(shown, recents')
      BY <1>2 DEF SetCurrentFile
    <2>4. /\ OnceEach(recents') /\ Len(recents') >= Len(recents)
          /\ Filled(recents', k) \/ Filled(recents', k + 1)
      BY <2>1, <2>2, <2>3, PushedIs DEF RecentInv
    <2>5. PICK m \in {k, k + 1} : Filled(recents', m)
      BY <2>4
    <2>6. shown \in Seq(Paths) /\ Len(shown) = Visible(k)
      <3>1. recents \in Seq(Paths) /\ Visible(k) \in 0..Len(recents)
        BY <2>2, LenProperties, ApplicationAssumption DEF Filled, ApplicationAssumption, Visible
      <3> QED BY <2>2, <3>1, PrefixIs
    <2>7. m \in Nat /\ Visible(k) <= Visible(m)
      BY ApplicationAssumption DEF ApplicationAssumption, Visible
    <2>8. shown' = SubSeq(recents', 1, Visible(m))
      BY <2>3, <2>5, <2>6, <2>7, MenuRewritten
    <2>9. Len(recents') >= MaxRecent
      <3>1. Len(recents) \in Nat /\ Len(recents') \in Nat /\ MaxRecent \in Nat
        BY <2>2, <2>5, LenProperties, ApplicationAssumption DEF Filled, ApplicationAssumption
      <3> QED BY <2>4, <3>1 DEF RecentInv
    <2>10. OnceEach(recents)'
      BY <2>4 DEF OnceEach
    <2>11. Filled(recents, m)'
      BY <2>5 DEF Filled
    <2> QED BY <2>7, <2>8, <2>9, <2>10, <2>11 DEF RecentInv
  <1> QED BY <1>1, <1>2

(* save_Recent_Files, and recall_Recent_Files in the next run.             *)
LEMMA RecallRecentFilesKeeps ==
  ASSUME RecentInv, RecallRecentFiles
  PROVE  RecentInv'
  <1>1. PICK k \in Nat : Filled(recents, k) /\ shown = SubSeq(recents, 1, Visible(k))
    BY DEF RecentInv
  <1>2. /\ recents \in Seq(Paths) /\ Len(recents) \in Nat /\ DOMAIN recents = 1..Len(recents)
        /\ MaxRecent \in Nat /\ MaxRecent \in 0..Len(recents) /\ Len(recents) >= MaxRecent
    BY <1>1, LenProperties, ApplicationAssumption DEF Filled, RecentInv, ApplicationAssumption
  <1>3. recents' = SubSeq(recents, 1, MaxRecent) /\ shown' = Shown(<<>>, recents')
    <2>1. Visible(Len(recents)) = MaxRecent
      BY <1>2, VisibleIs
    <2>2. First(MaxRecent, recents) = SubSeq(recents, 1, Visible(Len(recents)))
      BY DEF First, Visible
    <2> QED BY <2>1, <2>2 DEF RecallRecentFiles
  <1>4. /\ recents' \in Seq(Paths) /\ Len(recents') = MaxRecent
        /\ \A i \in 1..MaxRecent : recents'[i] = recents[i]
    BY <1>2, <1>3, PrefixIs
  <1>5. DOMAIN recents' = 1..MaxRecent
    BY <1>4, LenProperties
  <1>6. Filled(recents', Visible(k)) /\ Visible(k) \in Nat /\ Visible(Visible(k)) = Visible(k)
    BY <1>1, <1>2, <1>4 DEF Filled, Visible
  <1>7. shown' = SubSeq(recents', 1, Visible(Visible(k)))
    <2>1. <<>> \in Seq(Paths) /\ Len(<<>>) <= Visible(Visible(k))
      BY <1>6
    <2> QED BY <1>3, <1>6, <2>1, MenuRewritten
  <1>8. OnceEach(recents)'
    BY <1>2, <1>4, <1>5 DEF OnceEach, RecentInv
  <1>9. Filled(recents, Visible(k))'
    BY <1>6 DEF Filled
  <1>10. Len(recents') >= MaxRecent
    BY <1>2, <1>4
  <1> QED BY <1>6, <1>7, <1>8, <1>9, <1>10 DEF RecentInv

LEMMA InitRecentInv == Init => RecentInv
  <1> SUFFICES ASSUME Init PROVE RecentInv
    OBVIOUS
  <1>1. MaxRecent \in Nat
    BY ApplicationAssumption DEF ApplicationAssumption
  <1>2. recents = [i \in 1..MaxRecent |-> NoFile] /\ shown = <<>>
    BY DEF Init
  <1>3. recents \in Seq(Paths) /\ Len(recents) = MaxRecent
    BY <1>1, <1>2 DEF Paths
  <1>4. Filled(recents, 0) /\ OnceEach(recents)
    BY <1>1, <1>2, <1>3 DEF Filled, OnceEach
  <1>5. SubSeq(recents, 1, Visible(0)) = <<>>
    BY <1>1, SubSeqEmpty DEF Visible
  <1>6. Len(recents) >= MaxRecent
    BY <1>1, <1>3
  <1>7. 0 \in Nat /\ Filled(recents, 0) /\ shown = SubSeq(recents, 1, Visible(0))
    BY <1>2, <1>4, <1>5
  <1> QED BY <1>4, <1>6, <1>7 DEF RecentInv

LEMMA NextKeepsRecentInv == RecentInv /\ [Next]_vars => RecentInv'
  <1> SUFFICES ASSUME RecentInv, [Next]_vars PROVE RecentInv'
    OBVIOUS
  <1>1. CASE UNCHANGED recentVars
    BY <1>1 DEF recentVars, RecentInv, OnceEach, Filled
  <1>2. ASSUME NEW w \in Windows, NEW file \in Files \cup {NoFile},
               CloseWindow(w, file) \/ ShutNext(w, file)
        PROVE  RecentInv'
    <2>1. SetCurrentFile(file)
      BY <1>2 DEF CloseWindow, ShutNext, Shut
    <2> QED BY <2>1, SetCurrentFileKeeps DEF Paths
  <1>3. CASE Quit
    BY <1>3, RecallRecentFilesKeeps DEF Quit
  <1>4. CASE NewWindow \/ EarlyWindow \/ LatePost \/ Duplicate
    <2>1. UNCHANGED recentVars
      BY <1>4 DEF NewWindow, EarlyWindow, LatePost, Duplicate
    <2> QED BY <1>1, <2>1
  <1>5. CASE \/ StartOpen \/ EndOpen \/ CloseAllWindows \/ RecallCurrentSession \/ SkipSession
             \/ TakeSnapshot \/ \E kind \in {"recall", "import"} : RecallSnapshot(kind)
    <2>1. UNCHANGED recentVars
      BY <1>5 DEF StartOpen, EndOpen, CloseAllWindows, RecallCurrentSession, SkipSession,
                  TakeSnapshot, RecallSnapshot
    <2> QED BY <1>1, <2>1
  <1>6. CASE EndShutting \/ Answer \/ OpenNext \/ OpenAgain \/ EndJob
    <2>1. UNCHANGED recentVars
      BY <1>6 DEF EndShutting, Answer, OpenNext, OpenAgain, EndJob
    <2> QED BY <1>1, <2>1
  <1>7. CASE UNCHANGED vars
    BY <1>1, <1>7 DEF vars
  <1> QED BY <1>2, <1>3, <1>4, <1>5, <1>6, <1>7 DEF Next

(* The menu shows the most recent files, the newest first and each once,   *)
(* whatever windows were closed and however often the program was started  *)
(* again (set_Current_File, update_Recent_File, save_Recent_Files).        *)
THEOREM RecentMenuIsRight == Spec => []RecentMenu
  <1>1. RecentInv => RecentMenu
    BY FirstNamed DEF RecentInv, RecentMenu, OnceEach
  <1> QED BY <1>1, InitRecentInv, NextKeepsRecentInv, PTL DEF Spec

=============================================================================
