----------------------------- MODULE Interfaces -----------------------------
(***************************************************************************)
(* The options of one window: its tool bar (FLToolBar), its settings, and  *)
(* the HTTP, OSC and MIDI interfaces and polyphony of its DSP (FLWindow).  *)
(*                                                                         *)
(* An option that was never chosen for the window has the value of the     *)
(* general preferences at the moment it is read.  modifiedOptions writes   *)
(* all the options that changed and then emits one signal for each; the    *)
(* signals are handled one after the other, each by one step here, and     *)
(* may change the tool bar.  The window has a program: it is not the       *)
(* default one.  The errors of an OSC interface come while the GUI thread  *)
(* is idle.                                                                *)
(***************************************************************************)
EXTENDS Naturals

CONSTANTS
  Switches,      \* the options with a box, among http, osc, midi, poly
  Defaults,      \* those whose default value the user changes
  OscPorts, DefaultPort,
  HttpPorts,     \* from 5510 + the index of the window, when it is busy
  Levels,        \* optimisation levels
  Highest,       \* -1, the default of the tool bar and of the compiler
  Three,         \* the default that modifiedOptions compares with
  PrefLevel,     \* the level of the preferences
  Values,        \* of the parameters of the DSP
  Unset

ASSUME InterfacesAssumption ==
  /\ Switches \subseteq {"http", "osc", "midi", "poly"} /\ Defaults \subseteq Switches
  /\ "http" \in Switches               \* a box that every window has
  /\ DefaultPort \in OscPorts /\ Unset \notin OscPorts \cup HttpPorts
  /\ HttpPorts # {}
  /\ Highest \in Levels /\ Three \in Levels /\ Unset \notin Levels
  /\ PrefLevel \in Levels \cup {Unset}
  /\ Unset \notin BOOLEAN

VARIABLES
  pref,                               \* the general preferences
  saved, savedPort, savedLevel,       \* the settings of the window
  shown, shownPort, shownLevel,       \* the tool bar
  live, livePort, liveLevel,          \* what runs: "silent" windows have
                                      \* neither DSP nor interface
  httpPort, declared,                 \* of the HTTP interface; known to the
                                      \* drop server
  status,
  value, rc,                          \* of the parameters; in Graphics.rc
  set,                                \* history: what the user last set
  todo, asked,                        \* signals to emit, boxes when asked
  qr,                                 \* viewQRCode under way
  excused                             \* history: options that the window
                                      \* may not follow

settings == <<saved, savedPort, savedLevel>>
toolBar == <<shown, shownPort, shownLevel>>
running == <<live, livePort, liveLevel, httpPort, declared, status>>
parameters == <<value, rc, set>>
job == <<todo, asked, qr>>
optionsVars == <<pref, settings, toolBar, running, parameters, job, excused>>

Signals == {"update", "osc", "port", "http", "midi", "poly"}

(* modifiedOptions emits the signals in this order.                        *)
Rank(s) ==
  CASE s = "update" -> 1 [] s = "osc" -> 2 [] s = "port" -> 3
    [] s = "http" -> 4 [] s = "midi" -> 5 [] s = "poly" -> 6

Idle == todo = {} /\ qr = "no"

----------------------------------------------------------------------------
(* The value of an option of the window.                                   *)
On(k) == IF saved[k] = Unset THEN pref[k] ELSE saved[k]

Level(default) ==
  IF savedLevel # Unset THEN savedLevel
  ELSE IF PrefLevel # Unset THEN PrefLevel ELSE default

SyncWithoutDefaults(port) ==
  /\ shown' = {k \in Switches : saved[k] = TRUE}
  /\ shownPort' = port
  /\ shownLevel' = Level(Highest)

SyncVisualParams(port) ==
  /\ shown' = {k \in Switches : On(k)}
  /\ shownPort' = port
  /\ shownLevel' = Level(Highest)

(* The interfaces may run on other ports than those asked for.             *)
SetWindowsOptions ==
  /\ savedPort' = IF "osc" \in live' THEN livePort' ELSE savedPort
  /\ SyncVisualParams(savedPort')
  /\ UNCHANGED <<saved, savedLevel>>

(* saveWindow: without interface nothing is written.                       *)
SaveNothing == rc' = rc

SaveWindow == rc' = IF status = "shown" THEN value ELSE rc
RecallWindow == value' = rc'

SaveAndRecall == SaveWindow /\ RecallWindow

Undeclared == IF "http" \in live THEN declared \ {httpPort} ELSE declared

HttpRuns(others) ==
  \E p \in HttpPorts : httpPort' = p /\ declared' = others \cup {p}

NoHttp(others) == httpPort' = Unset /\ declared' = others

(* allocateInterfaces, buildInterfaces and runInterfaces, for a new DSP.   *)
NewInterfaces ==
  /\ live' = {k \in Switches : On(k)}
  /\ IF "http" \in live' THEN HttpRuns(Undeclared) ELSE NoHttp(Undeclared)
  /\ IF "osc" \in live' THEN livePort' \in OscPorts ELSE livePort' = Unset
  /\ liveLevel' = Level(Highest)
  /\ status' = "shown"
  /\ SetWindowsOptions
  /\ SaveAndRecall
  /\ excused' = {}

----------------------------------------------------------------------------
Changed(k, boxes) == On(k) # (k \in boxes)

PortChanged(boxes) == "osc" \in boxes /\ shownPort # savedPort

LevelChanged == shownLevel # Level(Three)

Emitted(boxes) ==
  {k \in Switches : Changed(k, boxes)}
    \cup {s \in {"port"} : PortChanged(boxes) /\ ~Changed("osc", boxes)}
    \cup {s \in {"update"} : LevelChanged}

(* wasPolyphonySwitched also compares the group and the number of voices,  *)
(* which are not modelled: the user may have edited them.                  *)
Voices == {"poly"} \cap Switches

(* modifiedOptions, up to the signals.                                     *)
ModifiedOptions(boxes) == \E edited \in SUBSET Voices :
  /\ saved' = [k \in Switches |-> IF Changed(k, boxes) \/ k \in edited
                                  THEN k \in boxes ELSE saved[k]]
  /\ savedPort' = IF PortChanged(boxes) THEN shownPort ELSE savedPort
  /\ savedLevel' = IF LevelChanged THEN shownLevel ELSE savedLevel
  /\ shown' = boxes
  /\ todo' = Emitted(boxes) \cup edited
  /\ asked' = boxes
  /\ UNCHANGED <<pref, shownPort, shownLevel, running, parameters, excused>>

----------------------------------------------------------------------------
OptionsInit ==
  /\ pref = [k \in Switches |-> FALSE]
  /\ saved = [k \in Switches |-> Unset] /\ savedPort = DefaultPort /\ savedLevel = Unset
  /\ shown = {} /\ shownPort = DefaultPort /\ shownLevel = Level(Highest)
  /\ live = {} /\ livePort = Unset /\ liveLevel = Level(Highest)
  /\ httpPort = Unset /\ declared = {}
  /\ status = "shown"
  /\ value \in Values /\ rc = value /\ set = value
  /\ todo = {} /\ asked = {} /\ qr = "no" /\ excused = {}

(* The user edits the tool bar.                                            *)
User == Idle /\ status = "shown"

CheckBox(k) ==
  /\ User
  /\ shown' = IF k \in shown THEN shown \ {k} ELSE shown \cup {k}
  /\ UNCHANGED <<pref, settings, shownPort, shownLevel, running, parameters, job, excused>>

EditPort(p) ==
  /\ User
  /\ shownPort' = p
  /\ UNCHANGED <<pref, settings, shown, shownLevel, running, parameters, job, excused>>

EditLevel(l) ==
  /\ User
  /\ shownLevel' = l
  /\ UNCHANGED <<pref, settings, shown, shownPort, running, parameters, job, excused>>

(* collapseAction.                                                         *)
Fold ==
  /\ User
  /\ SyncVisualParams(savedPort)
  /\ UNCHANGED <<pref, settings, running, parameters, job, excused>>

Apply ==
  /\ User
  /\ ModifiedOptions(shown)
  /\ qr' = "no"

MoveSlider(v) ==
  /\ User
  /\ value' = v /\ set' = v
  /\ UNCHANGED <<pref, settings, toolBar, running, rc, job, excused>>

(* The preferences are saved with another default.                         *)
SavePreferences(k) ==
  /\ Idle
  /\ pref' = [pref EXCEPT ![k] = ~@]
  /\ excused' = IF saved[k] = Unset /\ status = "shown"
                THEN IF (k \in live) = pref'[k] THEN excused \ {k} ELSE excused \cup {k}
                ELSE excused
  /\ UNCHANGED <<settings, toolBar, running, parameters, job>>

(* catch_OSCError.                                                         *)
OscError ==
  /\ Idle
  /\ "osc" \in live
  /\ ModifiedOptions(shown \ {"osc"})
  /\ qr' = "no"

----------------------------------------------------------------------------
(* After a step that failed, what has not followed the settings.           *)
Behind ==
  {k \in Switches \cap {"midi", "poly"} : (k \in live) # On(k)}
    \cup {s \in {"level"} : liveLevel # Level(Highest)}

Failed ==
  /\ excused' = (excused \cap {"http", "osc"}) \cup Behind
  /\ UNCHANGED <<settings, toolBar, running, value>>

(* update_Window, which saves the parameters before it compiles.  (When it *)
(* fails it shows the window, also one left without DSP, which only gets   *)
(* here from viewQRCode: that such a window is on the screen is left out.) *)
UpdateWindow == NewInterfaces \/ (Failed /\ SaveWindow)

(* resetAudioDSPInterfaces: the source does not compile; a new DSP plays;  *)
(* or the window is left without DSP.                                      *)
LeftSilent ==
  /\ status' = "silent"
  /\ live' = {} /\ livePort' = Unset /\ liveLevel' = Unset
  /\ NoHttp(Undeclared)
  /\ SaveAndRecall
  /\ excused' = {}
  /\ UNCHANGED <<settings, toolBar>>

Reset == NewInterfaces \/ (Failed /\ UNCHANGED rc) \/ LeftSilent

(* updateOSCInterface; switchOsc.                                          *)
OscOn ==
  /\ livePort' \in OscPorts
  /\ live' = live \cup {"osc"}
  /\ SetWindowsOptions
  /\ SaveAndRecall
  /\ excused' = excused \ {"osc"}
  /\ UNCHANGED <<liveLevel, httpPort, declared, status>>

OscOff ==
  /\ live' = live \ {"osc"} /\ livePort' = Unset
  /\ excused' = excused \ {"osc"}
  /\ UNCHANGED <<settings, toolBar, liveLevel, httpPort, declared, status, value, rc>>

SwitchOsc == IF "osc" \in asked THEN OscOn ELSE OscOff

(* updateHttpInterface; switchHttp.                                        *)
HttpOn ==
  /\ HttpRuns(Undeclared)
  /\ live' = live \cup {"http"}
  /\ UNCHANGED <<livePort, liveLevel, status>>
  /\ SetWindowsOptions
  /\ SaveAndRecall
  /\ excused' = excused \ {"http"}

HttpOff ==
  /\ NoHttp(Undeclared)
  /\ live' = live \ {"http"}
  /\ excused' = excused \ {"http"}
  /\ UNCHANGED <<settings, toolBar, livePort, liveLevel, status, value, rc>>

ToggleHttp == IF "http" \in live THEN HttpOff ELSE HttpOn

SwitchHttp == IF "http" \in asked THEN HttpOn ELSE HttpOff

(* The next signal of modifiedOptions.                                     *)
Handle(s) ==
  /\ s \in todo /\ \A t \in todo : Rank(s) <= Rank(t)
  /\ CASE s = "update" -> UpdateWindow
       [] s = "osc" -> SwitchOsc
       [] s = "port" -> OscOn
       [] s = "http" -> SwitchHttp
       [] s \in {"midi", "poly"} -> Reset
  /\ todo' = todo \ {s}
  /\ UNCHANGED <<pref, set, asked, qr>>

----------------------------------------------------------------------------
(* view_qrcode, and viewQRCode.                                            *)
ViewQRCodeAtOnce ==
  /\ User
  /\ qr' = "show"
  /\ UNCHANGED <<pref, settings, toolBar, running, parameters, todo, asked, excused>>

ViewQRCode ==
  /\ User
  /\ ModifiedOptions(shown \cup {"http"})
  /\ qr' = "open"

HttpForQRCode ==
  /\ qr = "open" /\ todo = {}
  /\ IF "http" \in live
     THEN UNCHANGED <<pref, settings, toolBar, running, parameters, todo, asked, excused>>
     ELSE ModifiedOptions(shown \cup {"http"})
  /\ qr' = "show"

ShowQRCode ==
  /\ qr = "show" /\ todo = {}
  /\ qr' = "no"
  /\ UNCHANGED <<pref, settings, toolBar, running, parameters, todo, asked, excused>>

(* The source was edited, or another one dropped: a window without DSP is  *)
(* neither watched nor seen.                                               *)
SourceChanged ==
  /\ User
  /\ UpdateWindow
  /\ UNCHANGED <<pref, set, job>>

(* update_AudioArchitecture of the application resets every window.        *)
AudioPrefChanged ==
  /\ Idle
  /\ Reset
  /\ UNCHANGED <<pref, set, job>>

(* The program quits and restores the session.                             *)
Restart ==
  /\ Idle
  /\ NewInterfaces
  /\ UNCHANGED <<pref, set, job>>

----------------------------------------------------------------------------
OptionsNext ==
  \/ \E k \in Switches : CheckBox(k)
  \/ \E k \in Defaults : SavePreferences(k)
  \/ \E p \in OscPorts : EditPort(p)
  \/ \E l \in Levels : EditLevel(l)
  \/ \E v \in Values : MoveSlider(v)
  \/ Fold \/ Apply \/ OscError
  \/ \E s \in Signals : Handle(s)
  \/ ViewQRCode \/ HttpForQRCode \/ ShowQRCode
  \/ SourceChanged \/ AudioPrefChanged \/ Restart

OptionsSpec == OptionsInit /\ [][OptionsNext]_optionsVars

----------------------------------------------------------------------------
OptionsTypeOK ==
  /\ pref \in [Switches -> BOOLEAN]
  /\ saved \in [Switches -> BOOLEAN \cup {Unset}]
  /\ savedPort \in OscPorts /\ savedLevel \in Levels \cup {Unset}
  /\ shown \subseteq Switches /\ shownPort \in OscPorts /\ shownLevel \in Levels
  /\ live \subseteq Switches /\ livePort \in OscPorts \cup {Unset}
  /\ liveLevel \in Levels \cup {Unset}
  /\ httpPort \in HttpPorts \cup {Unset} /\ declared \subseteq HttpPorts
  /\ status \in {"shown", "silent"}
  /\ value \in Values /\ rc \in Values /\ set \in Values
  /\ todo \subseteq Switches \cup {"port", "update"} /\ asked \subseteq Switches
  /\ qr \in {"no", "open", "show"}
  /\ excused \subseteq Switches \cup {"level"}

(* The interfaces of a window are those of its settings, except those      *)
(* whose signal is still to come, those whose default has changed since,   *)
(* and MIDI and polyphony when the source did not compile any more.        *)
FollowInv ==
  status = "shown" =>
    /\ \A k \in Switches \ (excused \cup todo) : k \in live <=> On(k)
    /\ "level" \notin excused \cup todo /\ "update" \notin todo => liveLevel = Level(Highest)

(* While the signals or the QR code are under way, the boxes that were     *)
(* asked for are the settings and the tool bar.                            *)
JobInv ==
  ~Idle =>
    /\ shown = asked
    /\ \A k \in Switches : On(k) <=> k \in asked
    /\ "osc" \in asked => shownPort = savedPort
    /\ "port" \in todo => "osc" \in asked
    /\ qr # "no" => "http" \in asked

(* A window without DSP has no interface, and interfaces have a port.      *)
LiveInv ==
  /\ status = "silent" => live = {} /\ liveLevel = Unset
  /\ "osc" \in live <=> livePort # Unset
  /\ "http" \in live <=> httpPort # Unset

(* When nothing is under way, a window runs the interfaces, polyphony and  *)
(* compilation of its settings, however it came to them: the tool bar,     *)
(* the QR code, an OSC error, an update, a reset, a restart.               *)
InterfacesFollowSettings ==
  Idle /\ status = "shown" =>
    /\ \A k \in Switches \ excused : k \in live <=> On(k)
    /\ "level" \notin excused => liveLevel = Level(Highest)

(* The OSC port of the settings is the one the interface runs on, even     *)
(* when the one asked for was busy, and whatever is typed in the tool bar. *)
OscPortIsLive ==
  "osc" \in live /\ todo \cap {"osc", "port"} = {} => savedPort = livePort

(* The drop server knows the port of the HTTP interface, and no other of   *)
(* this window.                                                            *)
DeclaredIsLive == declared = IF "http" \in live THEN {httpPort} ELSE {}

(* No interface is switched on when the window has no DSP to build it      *)
(* with: a failed reset comes last among the signals.                      *)
InterfacesHaveDSP == todo \cap {"osc", "port", "http"} # {} => status = "shown"

(* The QR code shows the address of an interface that runs, unless the     *)
(* default has changed since or the window has lost its DSP.               *)
QRCodeHasInterface ==
  qr = "show" /\ todo = {} /\ status = "shown" /\ "http" \notin excused => "http" \in live

(* The parameters have the values that the user has set, across updates,   *)
(* resets that fail and then succeed, and switches of interfaces.          *)
ValuesSurvive == IF status = "shown" THEN value = set ELSE rc = set

(* When the signals of modifiedOptions are handled, the boxes of the tool  *)
(* bar are the interfaces that run.                                        *)
AppliedIsShown ==
  [][todo # {} /\ todo' = {} /\ status' = "shown" =>
       \A k \in Switches \ excused' : k \in shown' <=> k \in live']_optionsVars

OptionsInv ==
  /\ OptionsTypeOK /\ FollowInv /\ JobInv /\ LiveInv
  /\ OscPortIsLive /\ DeclaredIsLive /\ InterfacesHaveDSP /\ ValuesSurvive

=============================================================================
