--------------------------- MODULE ExportManager ---------------------------
(***************************************************************************)
(* The export of a program by the web service: FLTargetChooser asks the    *)
(* service for its targets and lets the user choose one, FLExportManager   *)
(* sends the program (POST), receives a key, and asks for the result of    *)
(* that key for the target (GET), which the user may save.                 *)
(*                                                                         *)
(* The chooser is modal, the dialog of the export is not: another export   *)
(* may start while one is under way, and what the service answers to the   *)
(* first is then taken for an answer to the second.  An answer that was    *)
(* disconnected comes all the same and changes nothing.                    *)
(***************************************************************************)
EXTENDS Naturals

CONSTANTS
  Codes, Targets,
  First,          \* the first target of the list
  None,
  MaxReplies      \* bound: replies under way

ASSUME ExportManagerAssumption ==
  /\ First \in Targets /\ None \notin Targets \cup Codes \cup Nat
  /\ MaxReplies \in Nat \ {0}

VARIABLES
  net,                              \* the replies under way
  chooser, listed, choice, last,    \* FLTargetChooser
  targetReply,
  step, current,                    \* fStep; fCodeToSend and the target
  postReply, getReply,
  visible, check1, check2, save,    \* the dialog of the export
  data,                             \* fDataReceived
  saving,                           \* the name in the dialog of saveFileOnDisk
  cancelled,                        \* history: the export was cancelled
  strayed                           \* history: an answer to an earlier export
                                    \* has come since this one began

chooserVars == <<chooser, listed, choice, last, targetReply>>
dialogVars == <<step, current, postReply, getReply, visible, check1, check2, save, data,
                saving, cancelled, strayed>>
exportVars == <<net, chooserVars, dialogVars>>

Ids == 1 .. MaxReplies

(* A new reply is none of those under way.                                 *)
Free == Ids \ {r.id : r \in net}
NextId == CHOOSE id \in Free : TRUE

NoExport == [code |-> None, target |-> None]

(* own: the reply is that of the export of the dialog, not of an earlier   *)
(* one (history).                                                          *)
Sent(kind, id, what) ==
  [kind |-> kind, id |-> id, what |-> what, connected |-> TRUE, own |-> TRUE]

ExportInit ==
  /\ net = {}
  /\ chooser = "closed" /\ listed = FALSE /\ choice = None /\ last = None
  /\ targetReply = None
  /\ step = 0 /\ current = NoExport
  /\ postReply = None /\ getReply = None
  /\ visible = FALSE /\ check1 = "none" /\ check2 = "none" /\ save = FALSE
  /\ data = NoExport /\ saving = NoExport
  /\ cancelled = FALSE /\ strayed = FALSE

(* No modal dialog is open.                                                *)
NoModal == chooser = "closed" /\ saving = NoExport

----------------------------------------------------------------------------
(* FLTargetChooser.                                                        *)

(* _Instance and sendTargetRequest.                                        *)
SendTargetRequest ==
  /\ NoModal
  /\ Free # {}
  /\ net' = net \cup {Sent("targets", NextId, NoExport)}
  /\ targetReply' = NextId
  /\ chooser' = "open" /\ listed' = FALSE /\ choice' = None
  /\ UNCHANGED <<last, dialogVars>>

(* targetsDescriptionReceived: a list, one that cannot be read, which      *)
(* leaves the menus empty, or an error, which leaves them as they are.     *)
TargetsDescriptionReceived(r, answer) ==
  /\ r.kind = "targets"
  /\ \/ /\ answer = "list"
        /\ listed' = TRUE /\ choice' = IF last # None THEN last ELSE First
     \/ answer = "unreadable" /\ listed' = FALSE /\ choice' = None
     \/ answer = "error" /\ UNCHANGED <<listed, choice>>
  /\ targetReply' = None
  /\ net' = net \ {r}
  /\ UNCHANGED <<chooser, last, dialogVars>>

Choose(t) ==
  /\ chooser = "open" /\ listed
  /\ choice' = t
  /\ UNCHANGED <<net, chooser, listed, last, targetReply, dialogVars>>

(* cancelDialog and abortReply.                                            *)
CancelChooser ==
  /\ chooser = "open"
  /\ chooser' = "closed" /\ last' = choice
  /\ net' = {r \in net : r.id # targetReply}
  /\ targetReply' = None
  /\ UNCHANGED <<listed, choice, dialogVars>>

(* closeEvent does not abort; the escape key does not keep the choice.     *)
CloseChooser ==
  /\ chooser = "open"
  /\ chooser' = "closed" /\ last' \in {choice, last}
  /\ UNCHANGED <<net, listed, choice, targetReply, dialogVars>>

----------------------------------------------------------------------------
(* FLExportManager.                                                        *)

(* From now on the replies under way are those of an earlier export.       *)
Earlier == {[r EXCEPT !.own = FALSE] : r \in net}

(* No slot looks at which export it is that is answered.                   *)
Heard(r) == strayed' = (strayed \/ ~r.own) /\ UNCHANGED cancelled

(* The button of the last export stays.                                    *)
ExportFileSaveKept(code) ==
  /\ chooser = "open"
  /\ chooser' = "closed" /\ last' = choice
  /\ current' = [code |-> code, target |-> choice]
  /\ step' = 1
  /\ Free # {}
  /\ net' = Earlier \cup {Sent("post", NextId, current')}
  /\ postReply' = NextId
  /\ visible' = TRUE /\ check1' = "none" /\ check2' = "none"
  /\ cancelled' = FALSE /\ strayed' = FALSE
  /\ UNCHANGED <<listed, choice, targetReply, getReply, save, data, saving>>

(* acceptDialog, exportFile and postExport.  Without a list the target is  *)
(* empty.                                                                  *)
ExportFile(code) ==
  /\ chooser = "open"
  /\ chooser' = "closed" /\ last' = choice
  /\ current' = [code |-> code, target |-> choice]
  /\ step' = 1
  /\ Free # {}
  /\ net' = Earlier \cup {Sent("post", NextId, current')}
  /\ postReply' = NextId
  /\ visible' = TRUE /\ check1' = "none" /\ check2' = "none" /\ save' = FALSE
  /\ cancelled' = FALSE /\ strayed' = FALSE
  /\ UNCHANGED <<listed, choice, targetReply, getReply, data, saving>>

(* redirectAbort, by the button or by closing the dialog.                  *)
Disconnected(id) ==
  {IF r.id = id THEN [r EXCEPT !.connected = FALSE] ELSE r : r \in net}

(* The step of the compilation is taken for 2.                             *)
CancelExportAt2 ==
  /\ NoModal /\ visible
  /\ net' = CASE step = 1 -> Disconnected(postReply)
              [] step = 2 -> Disconnected(getReply)
              [] OTHER -> net
  /\ visible' = FALSE /\ cancelled' = TRUE
  /\ UNCHANGED <<chooserVars, step, current, postReply, getReply, check1, check2, save,
                 data, saving, strayed>>

CancelExport ==
  /\ NoModal /\ visible
  /\ net' = CASE step = 1 -> Disconnected(postReply)
              [] step >= 2 -> Disconnected(getReply)
              [] OTHER -> net
  /\ visible' = FALSE /\ cancelled' = TRUE
  /\ UNCHANGED <<chooserVars, step, current, postReply, getReply, check1, check2, save,
                 data, saving, strayed>>

(* The escape key: QDialog::reject hides the dialog and nothing else, the  *)
(* answers go on.                                                          *)
EscapeExport ==
  /\ NoModal /\ visible
  /\ visible' = FALSE
  /\ UNCHANGED <<net, chooserVars, step, current, postReply, getReply, check1, check2, save,
                 data, saving, cancelled, strayed>>

(* readKey and getFileFromKey: the key is that of the answer, the target   *)
(* that of the dialog.  The id of the first reply is used again.           *)
ReadKey(r) ==
  /\ r.kind = "post"
  /\ check1' = "ok"
  /\ step' = step + 2
  /\ net' = (net \ {r}) \cup
            {[r EXCEPT !.kind = "get", !.what = [r.what EXCEPT !.target = current.target]]}
  /\ Heard(r)
  /\ getReply' = r.id
  /\ postReply' = None
  /\ UNCHANGED <<chooserVars, current, visible, check2, save, data, saving>>

(* showSaveB.                                                              *)
ShowSaveB(r) ==
  /\ r.kind = "get"
  /\ data' = r.what
  /\ check2' = "ok" /\ save' = TRUE
  /\ getReply' = None
  /\ net' = net \ {r} /\ Heard(r)
  /\ UNCHANGED <<chooserVars, step, current, postReply, visible, check1, saving>>

(* Only the connection's error is shown.                                   *)
NetworkErrorAt1(r) ==
  /\ r.kind # "targets"
  /\ IF step = 1
     THEN check1' = "error" /\ UNCHANGED check2
     ELSE UNCHANGED <<check1, check2>>
  /\ IF r.kind = "post"
     THEN postReply' = None /\ UNCHANGED getReply
     ELSE getReply' = None /\ UNCHANGED postReply
  /\ net' = net \ {r} /\ Heard(r)
  /\ UNCHANGED <<chooserVars, step, current, visible, save, data, saving>>

(* networkError, then readKey or showSaveB, which only forget the reply.   *)
NetworkError(r) ==
  /\ r.kind # "targets"
  /\ IF step = 1
     THEN check1' = "error" /\ UNCHANGED check2
     ELSE check2' = "error" /\ UNCHANGED check1
  /\ IF r.kind = "post"
     THEN postReply' = None /\ UNCHANGED getReply
     ELSE getReply' = None /\ UNCHANGED postReply
  /\ net' = net \ {r} /\ Heard(r)
  /\ UNCHANGED <<chooserVars, step, current, visible, save, data, saving>>

(* The answer, or the error, of a request whose reply was disconnected:    *)
(* no slot is called.  A pointer to it is of no more use.                  *)
Unheard(r) ==
  /\ ~r.connected
  /\ net' = net \ {r}
  /\ postReply' = IF postReply = r.id THEN None ELSE postReply
  /\ getReply' = IF getReply = r.id THEN None ELSE getReply
  /\ UNCHANGED <<chooserVars, step, current, visible, check1, check2, save, data, saving,
                 cancelled, strayed>>

(* saveFileOnDisk: the name is asked for, then the data is written.        *)
AskName ==
  /\ NoModal /\ visible /\ save
  /\ saving' = current
  /\ UNCHANGED <<net, chooserVars, step, current, postReply, getReply, visible, check1, check2,
                 save, data, cancelled, strayed>>

WriteFile ==
  /\ saving # NoExport
  /\ saving' = NoExport
  /\ visible' = FALSE
  /\ UNCHANGED <<net, chooserVars, step, current, postReply, getReply, check1, check2, save,
                 data, cancelled, strayed>>

----------------------------------------------------------------------------
Answered(r) ==
  \/ /\ r.connected
     /\ \/ \E answer \in {"list", "unreadable", "error"} : TargetsDescriptionReceived(r, answer)
        \/ ReadKey(r) \/ ShowSaveB(r) \/ NetworkError(r)
  \/ Unheard(r)

ExportNext ==
  \/ SendTargetRequest \/ CancelChooser \/ CloseChooser
  \/ \E t \in Targets : Choose(t)
  \/ \E code \in Codes : ExportFile(code)
  \/ CancelExport \/ EscapeExport \/ AskName \/ WriteFile
  \/ \E r \in net : Answered(r)

(* Nothing obliges the service to answer: no time out is set for a reply.  *)
ExportSpec == ExportInit /\ [][ExportNext]_exportVars

----------------------------------------------------------------------------
Exports == [code : Codes \cup {None}, target : Targets \cup {None}]

ExportTypeOK ==
  /\ net \subseteq [kind : {"targets", "post", "get"}, id : Ids, what : Exports,
                    connected : BOOLEAN, own : BOOLEAN]
  /\ \A r, s \in net : r.id = s.id => r = s
  /\ chooser \in {"closed", "open"} /\ listed \in BOOLEAN
  /\ choice \in Targets \cup {None} /\ last \in Targets \cup {None}
  /\ {targetReply, postReply, getReply} \subseteq Ids \cup {None}
  /\ step \in Nat /\ {current, data, saving} \subseteq Exports
  /\ visible \in BOOLEAN
  /\ check1 \in {"none", "ok", "error"} /\ check2 \in {"none", "ok", "error"}
  /\ save \in BOOLEAN /\ cancelled \in BOOLEAN /\ strayed \in BOOLEAN

(* As long as no answer to an earlier export has come, the step and the    *)
(* replies of the dialog are those of its export, of which one reply at    *)
(* most can be answered, whatever else is under way.                       *)
Own == {r \in net : r.connected /\ r.kind # "targets" /\ r.own}

OwnInv ==
  ~strayed =>
    \A r \in Own :
      /\ Own = {r}
      /\ r.what = current
      /\ r.kind = "post" => step = 1 /\ postReply = r.id /\ check1 = "none" /\ check2 = "none"
      /\ r.kind = "get" => step = 3 /\ getReply = r.id /\ check1 = "ok" /\ check2 = "none"

(* The file that can be saved is the one of the program and the target     *)
(* whose name it is given, unless an answer to an earlier export was taken *)
(* for one to this export.                                                 *)
OfferedIsNamed == ~strayed /\ save => data = current

(* The file that is written is the one whose name was asked for, whatever  *)
(* exports are under way, cancelled or only hidden, unless an answer to an *)
(* earlier one has come since this one began.                              *)
WrittenIsNamed == [][WriteFile /\ ~strayed => data = saving]_exportVars

(* The steps that the dialog shows are in order: the compilation neither   *)
(* succeeds nor fails before the connection has succeeded, and nothing is  *)
(* told after a failure.                                                   *)
StepsInOrder == ~strayed /\ check2 # "none" => check1 = "ok"

(* An export that was cancelled, with the button or the box of the dialog, *)
(* is not heard of any more: only an answer to an earlier export that was  *)
(* left under way still changes the dialog.                                *)
CancelledIsSilent ==
  [][cancelled /\ cancelled' /\ ~strayed' =>
       UNCHANGED <<step, current, check1, check2, save, data>>]_exportVars

(* If each request is answered or fails, the dialog, shown or hidden with  *)
(* the escape key, ends with a file or an error, unless the export is      *)
(* cancelled or an answer to an earlier one was taken for its own.         *)
AnswerTo(id) == \E r \in net : r.id = id /\ Answered(r)
Told == check1 = "error" \/ check2 # "none"

ExportEnds ==
  (\A id \in Ids : WF_exportVars(AnswerTo(id))) =>
    (visible ~> (Told \/ cancelled \/ strayed))

(* Nothing of a cancelled export can be answered.                          *)
CancelledInv == ~strayed /\ cancelled => Own = {}

(* Each pointer is to a reply of its kind that is still under way: what    *)
(* the chooser closes is a request of the targets, and what the dialog     *)
(* disconnects is not.                                                     *)
PointsTo(p, kind) == p # None => \E r \in net : r.id = p /\ r.kind = kind

RepliesInv ==
  /\ PointsTo(targetReply, "targets")
  /\ PointsTo(postReply, "post")
  /\ PointsTo(getReply, "get")
  /\ \A r \in net : r.kind = "targets" => r.connected

(* The button is shown once the compilation has succeeded; the name that   *)
(* is asked for is that of the export of the dialog.                       *)
SaveInv == ~strayed /\ save => check2 # "none"
SavingInv == saving # NoExport => chooser = "closed" /\ save /\ saving = current

ExportInv ==
  /\ ExportTypeOK /\ OwnInv /\ CancelledInv /\ SaveInv /\ SavingInv /\ RepliesInv
  /\ OfferedIsNamed /\ StepsInOrder

=============================================================================
