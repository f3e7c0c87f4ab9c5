---------------------------- MODULE AudioDrivers ----------------------------
(***************************************************************************)
(* The choice of the audio driver (AudioCreator) and the windows that play *)
(* with it: the Preferences dialog, the reset of all windows after a       *)
(* change, a server that dies, a start without the driver of last time.    *)
(*                                                                         *)
(* The choice exists four times: in the saved settings, in the form of     *)
(* the dialog (fAudioArchi and fCurrentSettings, with the factory that     *)
(* makes the clients), in the copy it is compared with (fTempSettings),    *)
(* and in the client of each window.  The parameters of a driver are one   *)
(* value.                                                                  *)
(***************************************************************************)
EXTENDS Integers

CONSTANTS
  Windows,
  Drivers,
  Default,       \* the first of the list
  Unknown,       \* a name that is not in the list, or none
  Vals,          \* parameters of a driver
  DefaultVal,
  Zero,          \* a text that is compared as 0 and stored as DefaultVal
  None,
  Mortal,        \* drivers whose server tells that it dies (JACK)
  Negotiating,   \* drivers that write what the device grants in the settings
                 \* (CoreAudio)
  Granted,       \* what their devices grant
  Indifferent    \* drivers whose parameters do not influence the clients (JACK)

ASSUME AudioDriversAssumption ==
  /\ Default \in Drivers /\ Unknown \notin Drivers /\ None \notin Drivers
  /\ DefaultVal \in Vals /\ Zero \notin Vals
  /\ Mortal \subseteq Drivers
  /\ Granted \subseteq Vals
  /\ Negotiating \subseteq Drivers /\ Indifferent \subseteq Drivers

VARIABLES
  audio,      \* the four copies, except those of the windows
  dialog,     \* the Preferences dialog is open
  job,        \* the loop under way over the windows
  alive,      \* the drivers that can be used
  status,     \* of each window; "lost" when its server died, "silent" when
              \* a reset failed: it is hidden and has no running client
  driver,     \* of the client of each window
  value,      \* the parameters it was made with, if it depends on them
  notified,   \* windows with an audioError in the queue of the GUI thread
  stale       \* history: windows whose client was not made from the saved
              \* settings, or not made again because their source does not
              \* compile any more

windowVars == <<status, driver, value, stale>>
vars == <<audio, dialog, job, alive, windowVars, notified>>

Texts == Vals \cup {Zero}

NoJob == [kind |-> "none", left |-> {}, all |-> {}]

----------------------------------------------------------------------------
(* AudioCreator, as functions on the record of the copies: driver and vals *)
(* are saved, combo and form are shown, temp is compared with.             *)

(* driverNameToIndex.                                                      *)
Known(name) == IF name = Unknown THEN Default ELSE name

Saved(a) == Known(a.driver)

(* createAudioSettings reads the saved parameters into a new form.         *)
IndexChanged(a, d) == [a EXCEPT !.combo = d, !.form = a.vals[d]]

ResetArchitecture(a) == IndexChanged(a, Default)

SavedToVisual(a) == IndexChanged(a, Saved(a))

(* storeVisualSettings.                                                    *)
Stored(text) == IF text = Zero THEN DefaultVal ELSE text

VisualToTemp(a) ==
  [a EXCEPT !.driver = a.combo, !.vals[a.combo] = Stored(a.form), !.form = Stored(a.form)]

TempToSaved(a) ==
  [a EXCEPT !.temp = [driver |-> a.combo, val |-> a.vals[a.combo]], !.form = a.vals[a.combo]]

(* isEqual of the settings of each driver.                                 *)
SameSettings(a) ==
  \/ a.combo \in Indifferent
  \/ a.temp = [driver |-> a.combo, val |-> a.form]

DidDriverChange(a) == Saved(a) # a.combo
DidSettingChanged(a) == Saved(a) # a.combo \/ ~SameSettings(a)

(* The constructor.                                                        *)
Created(d, v) ==
  LET a == [driver |-> d, vals |-> v, combo |-> Default, form |-> DefaultVal,
            temp |-> [driver |-> Default, val |-> DefaultVal]]
  IN  TempToSaved(SavedToVisual(a))

----------------------------------------------------------------------------
Open == {w \in Windows : status[w] # "closed"}

Idle == job.kind = "none"

Restore(some) == [kind |-> "restore", left |-> some, all |-> some]

Init ==
  /\ audio = Created(Unknown, [d \in Drivers |-> DefaultVal])
  /\ dialog = FALSE
  /\ job = NoJob
  /\ alive = Drivers
  /\ status = [w \in Windows |-> "closed"]
  /\ driver = [w \in Windows |-> None]
  /\ value = [w \in Windows |-> None]
  /\ notified = {} /\ stale = {}

(* audioPrefChanged and update_AudioArchitecture up to their loop, when    *)
(* the copies are a.                                                       *)
AudioPrefChanged(a) ==
  IF DidSettingChanged(a)
  THEN /\ audio' = VisualToTemp(a)
       /\ job' = [kind |-> "update", left |-> Open, all |-> {}]
  ELSE /\ audio' = TempToSaved(VisualToTemp(a))
       /\ job' = NoJob

----------------------------------------------------------------------------
(* A client made by the factory of the form, with the saved parameters.    *)
Plays(w) ==
  /\ audio.combo \in alive
  /\ \E v \in IF audio.combo \in Negotiating THEN Granted ELSE {audio.vals[audio.combo]} :
       /\ audio' = [audio EXCEPT !.vals[audio.combo] = v]
       /\ value' = [value EXCEPT ![w] = IF audio.combo \in Indifferent THEN None ELSE v]
  /\ driver' = [driver EXCEPT ![w] = audio.combo]
  /\ status' = [status EXCEPT ![w] = "playing"]
  /\ stale' = IF audio.combo = Saved(audio) THEN stale \ {w} ELSE stale \cup {w}

Silenced(w) ==
  /\ status' = [status EXCEPT ![w] = "silent"]
  /\ driver' = [driver EXCEPT ![w] = None]
  /\ value' = [value EXCEPT ![w] = None]
  /\ stale' = stale \ {w}
  /\ UNCHANGED audio

(* resetAudioDSPInterfaces: the source does not compile any more and the   *)
(* window keeps what it has; the new client plays; or it cannot.           *)
Kept(w) ==
  /\ stale' = stale \cup {w}
  /\ UNCHANGED <<audio, status, driver, value>>

ResetWindow(w) == Kept(w) \/ Plays(w) \/ Silenced(w)

(* Menus and drops; while the dialog is open, a request of the drop        *)
(* server.  A window that cannot play is deleted.                          *)
OpenWindow(w) ==
  /\ Idle
  /\ status[w] = "closed"
  /\ Plays(w)
  /\ UNCHANGED <<dialog, job, alive, notified>>

CloseWindow(w) ==
  /\ Idle /\ ~dialog
  /\ w \in Open
  /\ status' = [status EXCEPT ![w] = "closed"]
  /\ driver' = [driver EXCEPT ![w] = None]
  /\ value' = [value EXCEPT ![w] = None]
  /\ notified' = notified \ {w}
  /\ stale' = stale \ {w}
  /\ UNCHANGED <<audio, dialog, job, alive>>

(* switchPolyMIDI resets one window.                                       *)
SwitchPolyMIDI(w) ==
  /\ Idle /\ ~dialog
  /\ status[w] \in {"playing", "lost"}
  /\ ResetWindow(w)
  /\ UNCHANGED <<dialog, job, alive, notified>>

----------------------------------------------------------------------------
(* The Preferences dialog.                                                 *)
Preferences ==
  /\ Idle /\ ~dialog
  /\ dialog' = TRUE
  /\ UNCHANGED <<audio, job, alive, windowVars, notified>>

ChooseDriver(d) ==
  /\ Idle /\ dialog
  /\ audio' = IndexChanged(audio, d)
  /\ UNCHANGED <<dialog, job, alive, windowVars, notified>>

EditForm(text) ==
  /\ Idle /\ dialog
  /\ audio' = [audio EXCEPT !.form = text]
  /\ UNCHANGED <<dialog, job, alive, windowVars, notified>>

(* Preferences goes on with audioPrefChanged however the dialog ended:     *)
(* save and the escape key leave the form as it is, cancel and the close   *)
(* button restore it.                                                      *)
Save ==
  /\ Idle /\ dialog
  /\ dialog' = FALSE
  /\ AudioPrefChanged(audio)
  /\ UNCHANGED <<alive, windowVars, notified>>

CancelWithoutReset ==
  /\ Idle /\ dialog
  /\ dialog' = FALSE
  /\ AudioPrefChanged(audio)
  /\ UNCHANGED <<alive, windowVars, notified>>

Cancel ==
  /\ Idle /\ dialog
  /\ dialog' = FALSE
  /\ AudioPrefChanged(SavedToVisual(audio))
  /\ UNCHANGED <<alive, windowVars, notified>>

(* The loop of update_AudioArchitecture, and what follows it.              *)
UpdateNext(w) ==
  /\ job.kind = "update" /\ w \in job.left
  /\ ResetWindow(w)
  /\ job' = [job EXCEPT !.left = @ \ {w}]
  /\ UNCHANGED <<dialog, alive, notified>>

EndUpdate ==
  /\ job.kind \in {"update", "again"} /\ job.left = {}
  /\ audio' = TempToSaved(audio)
  /\ job' = NoJob
  /\ UNCHANGED <<dialog, alive, windowVars, notified>>

----------------------------------------------------------------------------
(* A server dies in its own thread, at any moment: audioShutDown of each   *)
(* of its clients queues a signal to the window.                           *)
Die(d) ==
  /\ d \in alive \cap Mortal
  /\ LET its == {w \in Windows : status[w] = "playing" /\ driver[w] = d}
     IN  /\ status' = [w \in Windows |-> IF w \in its THEN "lost" ELSE status[w]]
         /\ notified' = notified \cup its
  /\ alive' = alive \ {d}
  /\ UNCHANGED <<audio, dialog, job, driver, value, stale>>

Revive(d) ==
  /\ d \in Drivers \ alive
  /\ alive' = alive \cup {d}
  /\ UNCHANGED <<audio, dialog, job, windowVars, notified>>

(* The slot audioShutDown, also in the event loop of the dialog.           *)
AudioShutDownLater(w) ==
  /\ Idle
  /\ w \in notified
  /\ notified' = notified \ {w}
  /\ audio' = ResetArchitecture(audio)
  /\ UNCHANGED <<dialog, job, alive, windowVars>>

AudioShutDown(w) ==
  /\ Idle
  /\ w \in notified
  /\ notified' = notified \ {w}
  /\ AudioPrefChanged(ResetArchitecture(audio))
  /\ UNCHANGED <<dialog, alive, windowVars>>

----------------------------------------------------------------------------
(* The program quits: ~AudioCreator stores the form.  The program is       *)
(* started again, with a session of some windows.                          *)
Quit ==
  /\ Idle /\ ~dialog
  /\ audio' = Created(audio.driver, [audio.vals EXCEPT ![audio.combo] = Stored(audio.form)])
  /\ \E some \in SUBSET Windows : job' = Restore(some)
  /\ status' = [w \in Windows |-> "closed"]
  /\ driver' = [w \in Windows |-> None]
  /\ value' = [w \in Windows |-> None]
  /\ notified' = {} /\ stale' = {}
  /\ UNCHANGED <<dialog, alive>>

(* restoreSession: a window that cannot play is deleted.                   *)
RestoreNext(w) ==
  /\ job.kind \in {"restore", "again"} /\ w \in job.left
  /\ Plays(w) \/ UNCHANGED <<audio, windowVars>>
  /\ job' = [job EXCEPT !.left = @ \ {w}]
  /\ UNCHANGED <<dialog, alive, notified>>

(* recall_CurrentSession: no window could be recalled.                     *)
FallBack ==
  /\ job.kind = "restore" /\ job.left = {}
  /\ Open = {} /\ job.all # {}
  /\ audio' = VisualToTemp(ResetArchitecture(audio))
  /\ job' = [job EXCEPT !.kind = "again", !.left = job.all]
  /\ UNCHANGED <<dialog, alive, windowVars, notified>>

EndRestore ==
  /\ job.kind = "restore" /\ job.left = {}
  /\ Open # {} \/ job.all = {}
  /\ job' = NoJob
  /\ UNCHANGED <<audio, dialog, alive, windowVars, notified>>

----------------------------------------------------------------------------
Job ==
  \/ \E w \in Windows : UpdateNext(w) \/ RestoreNext(w)
  \/ EndUpdate \/ FallBack \/ EndRestore

Next ==
  \/ Job
  \/ \E w \in Windows :
       OpenWindow(w) \/ CloseWindow(w) \/ SwitchPolyMIDI(w) \/ AudioShutDown(w)
  \/ Preferences \/ Save \/ Cancel \/ Quit
  \/ \E d \in Drivers : ChooseDriver(d) \/ Die(d) \/ Revive(d)
  \/ \E text \in Texts : EditForm(text)

(* A loop runs to its end; the queue of the GUI thread is first in, first  *)
(* out, so that each signal is handled once the handlers before it return. *)
Spec ==
  /\ Init /\ [][Next]_vars
  /\ WF_vars(Job)
  /\ \A w \in Windows : SF_vars(AudioShutDown(w))

----------------------------------------------------------------------------
Copies == [driver : Drivers \cup {Unknown}, vals : [Drivers -> Vals],
           combo : Drivers, form : Texts, temp : [driver : Drivers, val : Vals]]

TypeOK ==
  /\ audio \in Copies
  /\ dialog \in BOOLEAN
  /\ job \in [kind : {"none", "update", "restore", "again"},
              left : SUBSET Windows, all : SUBSET Windows]
  /\ alive \subseteq Drivers
  /\ status \in [Windows -> {"closed", "playing", "lost", "silent"}]
  /\ driver \in [Windows -> Drivers \cup {None}]
  /\ value \in [Windows -> Vals \cup {None}]
  /\ notified \subseteq Windows /\ stale \subseteq Windows

(* The parameters that a client cannot change by itself.                   *)
Fixed(d) == d \notin Negotiating

(* What holds inside the handlers and the dialog.                          *)
CopiesInv ==
  /\ Idle => audio.temp.driver = Saved(audio)
  /\ Idle /\ Fixed(Saved(audio)) => audio.temp.val = audio.vals[Saved(audio)]
  /\ ~Idle => audio.combo = Saved(audio)
  /\ job.kind = "restore" => /\ audio.temp.driver = Saved(audio)
                             /\ audio.form = audio.temp.val
                             /\ Fixed(Saved(audio)) => audio.form = audio.vals[Saved(audio)]
  /\ job.kind \in {"update", "again"} => audio.driver = audio.combo
  /\ Idle => job = NoJob
  /\ job.kind \in {"restore", "again"} => ~dialog

(* Without the dialog, the form shows the saved driver and its parameters, *)
(* and is compared with them: the next visit of the dialog starts from     *)
(* what the windows play, and quitting stores nothing else.                *)
SettingsAgree ==
  Idle /\ ~dialog =>
    /\ audio.combo = Saved(audio)
    /\ audio.temp = [driver |-> audio.combo, val |-> audio.form]
    /\ Fixed(audio.combo) => audio.form = audio.vals[audio.combo]

(* All windows that have a client have one of the saved driver, with the   *)
(* saved parameters, except those known to be stale: a change of           *)
(* preferences or a dead server reaches every window.                      *)
ClientFollows(w) ==
  status[w] \in {"playing", "lost"} /\ w \notin stale =>
    /\ driver[w] = Saved(audio)
    /\ Fixed(driver[w]) /\ driver[w] \notin Indifferent => value[w] = audio.vals[driver[w]]

ClientsInv ==
  /\ \A w \in Windows \ job.left : ClientFollows(w)
  /\ job.kind \in {"restore", "again"} => job.left \cap Open = {}

WindowsFollowSettings == Idle => \A w \in Windows : ClientFollows(w)

IInv == TypeOK /\ CopiesInv /\ SettingsAgree /\ ClientsInv

(* Cancelling the preferences saves nothing of what was edited, for any    *)
(* driver.  It may still reset the windows, with the parameters they have: *)
(* only if the device of the saved driver (CoreAudio) has granted others   *)
(* than those that the form was last compared with.                        *)
GrantedSince == ~Fixed(Saved(audio)) /\ audio.temp.val # audio.vals[Saved(audio)]

CancelSavesNothing ==
  [][Cancel =>
       /\ Saved(audio') = Saved(audio) /\ audio'.vals = audio.vals
       /\ job' = NoJob \/ GrantedSince]_vars

(* When the server of the chosen driver dies under a window, the program   *)
(* goes to the first driver of the list, unless it is that one.            *)
Lost(w, d) == status[w] = "lost" /\ driver[w] = d /\ w \notin stale

DeadServerIsReplaced ==
  \A d \in Drivers \ {Default} :
    (Saved(audio) = d /\ \E w \in Windows : Lost(w, d))
      ~> (Saved(audio) # d \/ \A w \in Windows : ~Lost(w, d))

=============================================================================
