---------------------------- MODULE Application ----------------------------
(***************************************************************************)
(* The windows of the application (FLApp): their numbers, their folders    *)
(* in the session, the entries of the session in the general settings, the *)
(* navigation menu and the recent files; the start of the program and the  *)
(* restoration of its session, snapshots recalled and imported, quitting.  *)
(*                                                                         *)
(* Every handler runs in the GUI thread.  A handler that opens several     *)
(* windows is a job of one step per window; an event can come inside a job *)
(* only through a dialog.  LatePosts says when a request of the drop       *)
(* server may create a window at a moment that no menu is available.       *)
(***************************************************************************)
EXTENDS Integers, Sequences, FiniteSets

CONSTANTS
  Windows,           \* as many as numberWindows
  MaxNum,            \* bound on the numbers of windows
  Files,             \* paths of Faust files
  NoFile,            \* the empty path
  NoSnapshot,
  MaxRecent,         \* kMAXRECENT
  LatePosts          \* a request of the drop server may be served while a
                     \* question is "asking", or while the program is "saving"

ASSUME ApplicationAssumption ==
  /\ MaxNum \in Nat
  /\ MaxRecent \in Nat \ {0}
  /\ NoFile \notin Files
  /\ LatePosts \subseteq {"asking", "saving"}

Nums == 1..MaxNum

VARIABLES
  stage,      \* "starting" until the first timer, "running", then "saving"
              \* while the last progress bar grows, and "quitting"
  open,       \* FLW_List
  num,        \* fWindowIndex of each window
  navigate,   \* the windows of fFrontWindow and fNavigateMenus
  folders,    \* the folders Windows/FLW-n
  entries,    \* the groups Windows/n of the general settings
  strays,     \* history: numbers left behind by a window that did not open,
              \* or of a session that was not restored
  snapshot,   \* the windows saved in a snapshot
  job,        \* what the handler under way still has to do
  clashing,   \* history: windows opened by a program posted during a question
              \* of the restoration, and windows that got the number of one
  recents,    \* fRecentFiles
  shown       \* the visible fRecentFileAction

windowVars == <<open, num, clashing, navigate, folders, entries, strays>>
recentVars == <<recents, shown>>
vars == <<stage, windowVars, snapshot, job, recentVars>>

JobKinds == {"none", "open", "restore", "again", "recall", "import"}
Phases   == {"idle", "asking", "shutting", "opening"}
Stages   == {"starting", "running", "saving", "quitting"}

NoJob == [kind |-> "none", phase |-> "idle", left |-> {}, all |-> {}, taken |-> {}]

OpenNums == {num[w] : w \in open}

(* fRecalling: recall_CurrentSession sets it when the questions of the     *)
(* restoration have been answered, the other jobs as their first step.     *)
Recalling == job.kind # "none" /\ job.phase # "asking"

----------------------------------------------------------------------------
(* The GUI thread can take an event.                                       *)
Idle == job.kind = "none"

(* find_smallest_index.                                                    *)
SmallestIndex(used) ==
  CHOOSE i \in Nums \ used : \A j \in Nums \ used : i <= j

Smallest(set) == CHOOSE i \in set : \A j \in set : i <= j

----------------------------------------------------------------------------
(* Recent files: the newest first, the empty paths of the settings last.   *)

(* QList::removeOne: only the first occurrence goes.                       *)
Without(list, file) ==
  IF \E i \in DOMAIN list : list[i] = file
  THEN LET k == CHOOSE i \in DOMAIN list :
                  list[i] = file /\ \A j \in 1..(i - 1) : list[j] # file
       IN SubSeq(list, 1, k - 1) \o SubSeq(list, k + 1, Len(list))
  ELSE list

First(n, list) == SubSeq(list, 1, IF Len(list) < n THEN Len(list) ELSE n)

(* What is left of the list without its empty paths, in the same order.    *)
Named(list) ==
  LET named == {i \in DOMAIN list : list[i] # NoFile}
      Nth(n) == CHOOSE i \in named : Cardinality({j \in named : j <= i}) = n
  IN  [n \in 1..Cardinality(named) |-> list[Nth(n)]]

(* update_Recent_File: actions are rewritten from the first on, and those  *)
(* that nothing is written to keep what they show.                         *)
Shown(old, list) ==
  LET new == First(MaxRecent, Named(list))
  IN  new \o SubSeq(old, Len(new) + 1, Len(old))

(* set_Current_File.                                                       *)
PushedWithoutRemoval(list, file) == <<file>> \o list
Pushed(list, file) == <<file>> \o Without(list, file)

SetCurrentFile(file) ==
  /\ recents' = IF file = NoFile THEN recents ELSE Pushed(recents, file)
  /\ shown' = IF file = NoFile THEN shown ELSE Shown(shown, recents')

(* recall_Recent_Files in the next run of the program, after               *)
(* save_Recent_Files in the destructor.                                    *)
RecallRecentFiles ==
  /\ recents' = First(MaxRecent, recents)
  /\ shown' = Shown(<<>>, recents')

----------------------------------------------------------------------------
Init ==
  /\ stage = "starting"
  /\ open = {}
  /\ num = [w \in Windows |-> 0]
  /\ navigate = {} /\ clashing = {}
  /\ folders = {} /\ entries = {} /\ strays = {}
  /\ snapshot = NoSnapshot
  /\ job = NoJob
  /\ recents = [i \in 1..MaxRecent |-> NoFile]
  /\ shown = <<>>

----------------------------------------------------------------------------
(* createWindow for number n, whose folder and settings exist already.     *)

(* FLWinSettings writes the entry in the group "Windows" of the general    *)
(* settings; while currentSessionRestoration asks, that group is open, and *)
(* what is written goes to a group of the same name inside it.             *)
Written(new) == IF job.phase = "asking" THEN entries ELSE new

(* numberWindows are open: the new settings and their folder stay.         *)
Refused(n) ==
  /\ open = Windows
  /\ folders' = folders \cup {n}
  /\ strays' = strays \cup {n}
  /\ UNCHANGED <<open, num, clashing, navigate, entries>>

(* init_Window failed: the window and its settings are deleted, and with   *)
(* them the entry of the session, but not the folder.                      *)
Fails(n) ==
  /\ open # Windows
  /\ folders' = folders \cup {n}
  /\ entries' = Written(entries \ {n})
  /\ strays' = strays \cup {n}
  /\ UNCHANGED <<open, num, clashing, navigate>>

Clashes(n) == job.phase = "asking" \/ \E w \in clashing : num[w] = n

(* During a question the folder is made, but the entry is misplaced.       *)
Opens(n) ==
  /\ \E w \in Windows \ open :
       /\ open' = open \cup {w}
       /\ num' = [num EXCEPT ![w] = n]
       /\ navigate' = navigate \cup {w}
       /\ clashing' = clashing \cup (IF Clashes(n) THEN {w} ELSE {})
  /\ folders' = folders \cup {n}
  /\ entries' = Written(entries \cup {n})
  /\ strays' = IF job.phase = "asking" THEN strays \cup {n} ELSE strays \ {n}

CreateWindow(n) == Refused(n) \/ Fails(n) \/ Opens(n)

(* Menus, drops, examples, recent files, the component creator and the     *)
(* Finder: create_New_Window; and the files chosen in open_New_Window.     *)
NewWindow ==
  /\ stage = "running"
  /\ job.kind \in {"none", "open"}
  /\ Nums \ OpenNums # {}
  /\ CreateWindow(SmallestIndex(OpenNums))
  /\ UNCHANGED <<stage, snapshot, job, recentVars>>

(* A file opened with the program, before its first timer.                 *)
EarlyWindow ==
  /\ stage = "starting" /\ Idle
  /\ Nums \ OpenNums # {}
  /\ CreateWindow(SmallestIndex(OpenNums))
  /\ UNCHANGED <<stage, snapshot, job, recentVars>>

(* compile_HttpData for a new window, in the event loop of a question of   *)
(* the restoration, or while the progress bar of quitting runs.            *)
LatePost ==
  /\ IF stage = "saving" THEN "saving" \in LatePosts
     ELSE stage = "running" /\ job.phase = "asking" /\ "asking" \in LatePosts
  /\ Nums \ OpenNums # {}
  /\ CreateWindow(SmallestIndex(OpenNums))
  /\ UNCHANGED <<stage, snapshot, job, recentVars>>

(* duplicate: the folder of the window is copied to that of the new one.   *)
Duplicate ==
  /\ stage = "running" /\ Idle
  /\ open # {}
  /\ Nums \ OpenNums # {}
  /\ CreateWindow(SmallestIndex(OpenNums))
  /\ UNCHANGED <<stage, snapshot, job, recentVars>>

(* open_New_Window: the dialog of files, then a window for each of them.   *)
StartOpen ==
  /\ stage = "running" /\ Idle
  /\ job' = [NoJob EXCEPT !.kind = "open"]
  /\ UNCHANGED <<stage, windowVars, snapshot, recentVars>>

EndOpen ==
  /\ job.kind = "open"
  /\ job' = NoJob
  /\ UNCHANGED <<stage, windowVars, snapshot, recentVars>>

----------------------------------------------------------------------------
(* common_shutAction, for a window whose Path is file.                     *)
ShutWithoutFolder(w, file) ==
  /\ SetCurrentFile(file)
  /\ open' = open \ {w}
  /\ num' = [num EXCEPT ![w] = 0]
  /\ navigate' = navigate \ {w}
  /\ clashing' = clashing \ {w}
  /\ entries' = entries \ {num[w]}
  /\ UNCHANGED <<folders, strays>>

Shut(w, file) ==
  /\ SetCurrentFile(file)
  /\ open' = open \ {w}
  /\ num' = [num EXCEPT ![w] = 0]
  /\ navigate' = navigate \ {w}
  /\ clashing' = clashing \ {w}
  /\ folders' = folders \ {num[w]}
  /\ entries' = entries \ {num[w]}
  /\ strays' = strays \ {num[w]}

(* A window closed by the user, or shut_AllWindows.                        *)
CloseWindow(w, file) ==
  /\ stage = "running" /\ Idle
  /\ w \in open
  /\ Shut(w, file)
  /\ UNCHANGED <<stage, snapshot, job>>

(* closeAllWindows, from the menu or when the last window has closed (not  *)
(* on macOS): it waits for the progress bar only if there are windows to   *)
(* save.  The question of a restoration is such a last window.             *)
CloseAllWindows ==
  /\ stage = "running" /\ ~Recalling
  /\ job.phase = "asking" => open = {}
  /\ stage' = IF open = {} THEN "quitting" ELSE "saving"
  /\ open' = {} /\ clashing' = {}
  /\ num' = [w \in Windows |-> 0]
  /\ UNCHANGED <<navigate, folders, entries, strays, snapshot, job, recentVars>>

(* The progress bar is full: quit, and when the handler under way returns  *)
(* the destructor; the program is started again some day.                  *)
Quit ==
  /\ stage \in {"saving", "quitting"} /\ Idle
  /\ stage' = "starting"
  /\ open' = {} /\ clashing' = {}
  /\ num' = [w \in Windows |-> 0]
  /\ navigate' = {}
  /\ RecallRecentFiles
  /\ UNCHANGED <<folders, entries, strays, snapshot, job>>

----------------------------------------------------------------------------
(* init_Timer_Action: the session is recalled if no window is open.        *)
RecallCurrentSession ==
  /\ stage = "starting" /\ Idle
  /\ open = {}
  /\ entries # {}
  /\ stage' = "running"
  /\ job' = [NoJob EXCEPT !.kind = "restore", !.phase = "asking", !.all = entries]
  /\ UNCHANGED <<windowVars, snapshot, recentVars>>

(* Nothing to recall, or a window came first: the old session stays on     *)
(* the disk.                                                               *)
SkipSession ==
  /\ stage = "starting" /\ Idle
  /\ open # {} \/ entries = {}
  /\ stage' = "running"
  /\ strays' = strays \cup (entries \ OpenNums)
  /\ UNCHANGED <<open, num, clashing, navigate, folders, entries, snapshot, job, recentVars>>

(* take_Snapshot.                                                          *)
TakeSnapshot ==
  /\ stage = "running" /\ Idle
  /\ snapshot' = entries
  /\ UNCHANGED <<stage, windowVars, job, recentVars>>

(* recall_Snapshot: the windows are shut first, unless the snapshot is     *)
(* imported; the archive may be unreadable.                                *)
RecallSnapshot(kind) ==
  /\ stage = "running" /\ Idle
  /\ snapshot # NoSnapshot
  /\ \E all \in {snapshot, {}} :
       job' = [kind |-> kind, phase |-> IF kind = "import" THEN "opening" ELSE "shutting",
               left |-> all, all |-> all, taken |-> OpenNums]
  /\ UNCHANGED <<stage, windowVars, snapshot, recentVars>>

ShutNext(w, file) ==
  /\ job.phase = "shutting"
  /\ w \in open
  /\ Shut(w, file)
  /\ UNCHANGED <<stage, snapshot, job>>

EndShutting ==
  /\ job.phase = "shutting" /\ open = {}
  /\ job' = [job EXCEPT !.phase = "opening"]
  /\ UNCHANGED <<stage, windowVars, snapshot, recentVars>>

(* currentSessionRestoration has asked its questions; windows without a    *)
(* copy of their source are left out, and stay on the disk.                *)
Answer ==
  /\ job.phase = "asking"
  /\ \E some \in SUBSET job.all :
       /\ job' = [job EXCEPT !.phase = "opening", !.left = some, !.all = some]
       /\ strays' = strays \cup (job.all \ some)
  /\ UNCHANGED <<stage, open, num, clashing, navigate, folders, entries, snapshot, recentVars>>

(* The number of the next window: its own, or a new one when importing.    *)
NumberFromSnapshot == Smallest(job.left)
NextNumber ==
  IF job.kind = "import" THEN SmallestIndex(job.taken) ELSE Smallest(job.left)

(* One window of restoreSession, or of the second loop of recall_Snapshot. *)
OpenNext ==
  /\ job.phase = "opening" /\ job.left # {}
  /\ job.kind = "import" => Nums \ job.taken # {}
  /\ CreateWindow(NextNumber)
  /\ job' = [job EXCEPT !.left = @ \ {Smallest(@)}, !.taken = @ \cup {NextNumber}]
  /\ UNCHANGED <<stage, snapshot, recentVars>>

(* recall_CurrentSession tries once more, with the default driver, when no *)
(* window could be recalled.                                               *)
NothingRecalled == job.kind = "restore" /\ open = {} /\ job.all # {}

OpenAgain ==
  /\ job.phase = "opening" /\ job.left = {}
  /\ NothingRecalled
  /\ job' = [job EXCEPT !.kind = "again", !.left = job.all]
  /\ UNCHANGED <<stage, windowVars, snapshot, recentVars>>

(* The second disjunct is the bound MaxNum.                                *)
EndJob ==
  /\ job.phase = "opening"
  /\ \/ job.left = {} /\ ~NothingRecalled
     \/ job.left # {} /\ job.kind = "import" /\ Nums \ job.taken = {}
  /\ job' = NoJob
  /\ UNCHANGED <<stage, windowVars, snapshot, recentVars>>

----------------------------------------------------------------------------
Next ==
  \/ NewWindow \/ EarlyWindow \/ LatePost \/ Duplicate
  \/ StartOpen \/ EndOpen
  \/ \E w \in Windows, file \in Files \cup {NoFile} : CloseWindow(w, file)
  \/ CloseAllWindows \/ Quit
  \/ RecallCurrentSession \/ SkipSession \/ TakeSnapshot
  \/ \E kind \in {"recall", "import"} : RecallSnapshot(kind)
  \/ \E w \in Windows, file \in Files \cup {NoFile} : ShutNext(w, file)
  \/ EndShutting \/ Answer \/ OpenNext \/ OpenAgain \/ EndJob

Spec == Init /\ [][Next]_vars

----------------------------------------------------------------------------
TypeOK ==
  /\ stage \in Stages
  /\ open \subseteq Windows /\ navigate \subseteq Windows /\ clashing \subseteq open
  /\ num \in [Windows -> Nums \cup {0}]
  /\ folders \subseteq Nums /\ entries \subseteq Nums /\ strays \subseteq Nums
  /\ snapshot \in (SUBSET Nums) \cup {NoSnapshot}
  /\ job \in [kind : JobKinds, phase : Phases,
              left : SUBSET Nums, all : SUBSET Nums, taken : SUBSET Nums]

NumsOf(set) == {num[w] : w \in set}

(* What a job knows of the windows that are open, and the windows that the *)
(* navigation menu leads to.                                               *)
JobInv ==
  /\ \A w \in open : num[w] \in Nums
  /\ stage \in {"starting", "saving"} => job = NoJob
  /\ stage = "quitting" => job = NoJob \/ job.kind \in {"restore", "again"}
  /\ job.kind = "none" => job = NoJob
  /\ job.kind = "open" => job.phase = "idle"
  /\ job.phase = "idle" <=> job.kind \in {"none", "open"}
  /\ job.phase = "asking" => job.kind = "restore" /\ open = clashing
  /\ job.phase = "shutting" => job.kind = "recall"
  /\ job.phase = "opening" /\ job.kind # "import" =>
       job.left \cap NumsOf(open \ clashing) = {}
  /\ job.kind = "import" => OpenNums \subseteq job.taken
  /\ stage \in {"starting", "running"} => navigate = open

(* What the disk holds beside the windows that are open.                   *)
DiskInv ==
  /\ folders \subseteq entries \cup strays
  /\ stage = "running" =>
       entries \subseteq OpenNums \cup strays \cup
         (CASE job.phase = "asking" -> job.all
            [] job.kind = "restore" /\ job.phase = "opening" -> job.left
            [] OTHER -> {})

(* Two open windows never have the same number: it names their folder,     *)
(* their JACK client, their entry of the session and their HTTP port.  The *)
(* code keeps this except for a program posted during a question of the    *)
(* restoration, whose window takes the number of one still to be restored. *)
NumbersDistinct ==
  \A v, w \in open : num[v] = num[w] => v = w \/ {v, w} \subseteq clashing

WindowsInSession == NumsOf(open \ clashing) \subseteq folders \cap entries

(* The session on the disk has a folder and an entry for each open window  *)
(* whose number does not clash with that of a program posted during a      *)
(* question, so that it comes back, also when the question closed as the   *)
(* last window and the program quits; and nothing else except what is      *)
(* known to be left behind: a closed window does not come back.            *)
SessionMatchesWindows ==
  /\ WindowsInSession
  /\ stage = "running" /\ Idle =>
       (folders \cup entries) \ OpenNums \subseteq strays

IInv == TypeOK /\ JobInv /\ DiskInv /\ NumbersDistinct /\ WindowsInSession

(* The menu shows the most recent files, each once, also after the program *)
(* was started again.                                                      *)
RecentMenu ==
  /\ shown = First(MaxRecent, Named(recents))
  /\ \A i, j \in DOMAIN recents : recents[i] = recents[j] /\ recents[i] # NoFile => i = j

=============================================================================
