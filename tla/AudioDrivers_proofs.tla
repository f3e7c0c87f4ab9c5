------------------------ MODULE AudioDrivers_proofs ------------------------
(***************************************************************************)
(* The saved settings, the form, its copy and the clients of the windows   *)
(* agree, for any drivers, parameters and windows.                         *)
(***************************************************************************)
EXTENDS AudioDrivers, TLAPS

----------------------------------------------------------------------------
(* The functions of AudioCreator.                                          *)

LEMMA KnownIsListed ==
  ASSUME NEW name \in Drivers \cup {Unknown}
  PROVE  Known(name) \in Drivers /\ (name \in Drivers => Known(name) = name)
  BY AudioDriversAssumption DEF Known

LEMMA StoredIsParameter ==
  ASSUME NEW text \in Texts
  PROVE  Stored(text) \in Vals /\ (text \in Vals => Stored(text) = text)
  BY AudioDriversAssumption DEF Stored, Texts

LEMMA IndexChangedCopies ==
  ASSUME NEW a \in Copies, NEW d \in Drivers
  PROVE  LET b == IndexChanged(a, d)
         IN  /\ b \in Copies
             /\ b.driver = a.driver /\ b.vals = a.vals /\ b.temp = a.temp
             /\ b.combo = d /\ b.form = a.vals[d]
  BY DEF IndexChanged, Copies, Texts

LEMMA VisualToTempCopies ==
  ASSUME NEW a \in Copies
  PROVE  LET b == VisualToTemp(a)
         IN  /\ b \in Copies
             /\ b.driver = a.combo /\ b.combo = a.combo /\ b.temp = a.temp
             /\ b.form = Stored(a.form)
             /\ b.vals = [a.vals EXCEPT ![a.combo] = Stored(a.form)]
  <1>1. a.form \in Texts /\ a.combo \in Drivers /\ a.vals \in [Drivers -> Vals]
    BY DEF Copies
  <1>2. Stored(a.form) \in Vals
    BY <1>1, StoredIsParameter
  <1> QED BY <1>1, <1>2 DEF VisualToTemp, Copies, Texts

LEMMA TempToSavedCopies ==
  ASSUME NEW a \in Copies
  PROVE  LET b == TempToSaved(a)
         IN  /\ b \in Copies
             /\ b.driver = a.driver /\ b.combo = a.combo /\ b.vals = a.vals
             /\ b.form = a.vals[a.combo]
             /\ b.temp = [driver |-> a.combo, val |-> a.vals[a.combo]]
  BY DEF TempToSaved, Copies, Texts

(* The saved settings are the copy of a that is compared with.             *)
Compared(a) ==
  /\ a.temp.driver = Saved(a)
  /\ Fixed(Saved(a)) => a.temp.val = a.vals[Saved(a)]

(* audioPrefChanged when nothing has changed: the saved settings stay as   *)
(* they are, apart from the parameters that no client depends on.          *)
LEMMA UnchangedSettings ==
  ASSUME NEW a \in Copies, Compared(a), ~DidSettingChanged(a)
  PROVE  LET b == TempToSaved(VisualToTemp(a))
         IN  /\ b \in Copies
             /\ Saved(b) = Saved(a) /\ b.combo = Saved(a) /\ b.driver \in Drivers
             /\ b.temp = [driver |-> b.combo, val |-> b.form]
             /\ b.form = b.vals[b.combo]
             /\ Compared(b)
             /\ Fixed(Saved(a)) /\ Saved(a) \notin Indifferent => b.vals = a.vals
  <1> DEFINE v == VisualToTemp(a)
             b == TempToSaved(v)
  <1>1. /\ a.form \in Texts /\ a.combo \in Drivers /\ a.vals \in [Drivers -> Vals]
        /\ a.temp.val \in Vals /\ a.driver \in Drivers \cup {Unknown}
    BY DEF Copies
  <1>2. a.combo = Saved(a) /\ SameSettings(a)
    BY DEF DidSettingChanged
  <1>3. /\ v \in Copies
        /\ v.driver = a.combo /\ v.combo = a.combo
        /\ v.vals = [a.vals EXCEPT ![a.combo] = Stored(a.form)]
    BY VisualToTempCopies
  <1>4. /\ b \in Copies
        /\ b.driver = a.combo /\ b.combo = a.combo /\ b.vals = v.vals
        /\ b.form = b.vals[b.combo]
        /\ b.temp = [driver |-> b.combo, val |-> b.form]
    BY <1>3, TempToSavedCopies
  <1> HIDE DEF v, b
  <1>5. Saved(b) = a.combo
    BY <1>1, <1>4, KnownIsListed DEF Saved
  <1>6. ASSUME Fixed(Saved(a)), Saved(a) \notin Indifferent PROVE b.vals = a.vals
    <2>1. a.form = a.temp.val
      BY <1>2, <1>6 DEF SameSettings
    <2>2. Stored(a.form) = a.vals[a.combo]
      BY <1>1, <1>2, <1>6, <2>1, StoredIsParameter DEF Compared
    <2> QED BY <1>1, <1>3, <1>4, <2>2
  <1>7. Compared(b)
    BY <1>4, <1>5 DEF Compared
  <1> QED BY <1>1, <1>2, <1>4, <1>5, <1>6, <1>7 DEF v, b

----------------------------------------------------------------------------
LEMMA CreatedCopies ==
  ASSUME NEW d \in Drivers \cup {Unknown}, NEW v \in [Drivers -> Vals]
  PROVE  LET b == Created(d, v)
         IN  /\ b \in Copies
             /\ b.driver = d /\ b.vals = v
             /\ b.combo = Saved(b) /\ b.form = v[b.combo]
             /\ b.temp = [driver |-> b.combo, val |-> b.form]
  <1> DEFINE a == [driver |-> d, vals |-> v, combo |-> Default, form |-> DefaultVal,
                   temp |-> [driver |-> Default, val |-> DefaultVal]]
             c == SavedToVisual(a)
  <1>1. a \in Copies /\ a.driver = d /\ a.vals = v
    BY AudioDriversAssumption DEF Copies, Texts
  <1>2. Saved(a) \in Drivers
    BY <1>1, KnownIsListed DEF Saved
  <1>3. c \in Copies /\ c.driver = d /\ c.vals = v /\ c.combo = Saved(a)
    <2> HIDE DEF a
    <2> QED BY <1>1, <1>2, IndexChangedCopies DEF SavedToVisual
  <1>4. Created(d, v) = TempToSaved(c)
    BY DEF Created
  <1> HIDE DEF a, c
  <1> DEFINE b == TempToSaved(c)
  <1>5. /\ b \in Copies
        /\ b.driver = c.driver /\ b.combo = c.combo /\ b.vals = c.vals
        /\ b.form = c.vals[c.combo]
        /\ b.temp = [driver |-> c.combo, val |-> c.vals[c.combo]]
    BY <1>3, TempToSavedCopies
  <1> HIDE DEF b
  <1>6. Saved(b) = Saved(a)
    BY <1>1, <1>3, <1>5 DEF Saved
  <1> QED BY <1>3, <1>4, <1>5, <1>6 DEF b

LEMMA InitIInv == Init => IInv
  <1> SUFFICES ASSUME Init PROVE IInv
    OBVIOUS
  <1>1. [d \in Drivers |-> DefaultVal] \in [Drivers -> Vals]
    BY AudioDriversAssumption
  <1>2. /\ audio \in Copies
        /\ audio.combo = Saved(audio) /\ audio.form = audio.vals[audio.combo]
        /\ audio.temp = [driver |-> audio.combo, val |-> audio.form]
    BY <1>1, CreatedCopies DEF Init
  <1>3. TypeOK
    BY <1>2 DEF Init, TypeOK, NoJob
  <1>4. CopiesInv /\ SettingsAgree
    BY <1>2 DEF Init, CopiesInv, SettingsAgree, Idle, NoJob
  <1>5. ClientsInv
    BY DEF Init, ClientsInv, ClientFollows, NoJob
  <1> QED BY <1>3, <1>4, <1>5 DEF IInv

(* The form may be set to anything before audioPrefChanged.                *)
LEMMA AudioPrefChangedKeeps ==
  ASSUME IInv, Idle, NEW a \in Copies,
         a.driver = audio.driver, a.vals = audio.vals, a.temp = audio.temp,
         AudioPrefChanged(a),
         dialog' \in BOOLEAN, notified' \subseteq Windows,
         UNCHANGED <<alive, windowVars>>
  PROVE  IInv'
  <1>1. Saved(a) = Saved(audio) /\ Compared(a)
    BY DEF IInv, CopiesInv, Saved, Compared
  <1>2. CASE DidSettingChanged(a)
    <2>1. /\ audio' = VisualToTemp(a)
          /\ job' = [kind |-> "update", left |-> Open, all |-> {}]
      BY <1>2 DEF AudioPrefChanged
    <2>2. /\ audio' \in Copies
          /\ audio'.driver = a.combo /\ audio'.combo = a.combo
      BY <2>1, VisualToTempCopies
    <2>3. Saved(audio') = audio'.combo
      BY <2>2, KnownIsListed DEF Saved, Copies
    <2>4. TypeOK'
      BY <2>1, <2>2 DEF IInv, TypeOK, windowVars, Open
    <2>5. CopiesInv' /\ SettingsAgree'
      BY <2>1, <2>2, <2>3 DEF CopiesInv, SettingsAgree, Idle
    <2>6. ClientsInv'
      BY <2>1 DEF ClientsInv, ClientFollows, Open, windowVars
    <2> QED BY <2>4, <2>5, <2>6 DEF IInv
  <1>3. CASE ~DidSettingChanged(a)
    <2>1. audio' = TempToSaved(VisualToTemp(a)) /\ job' = NoJob
      BY <1>3 DEF AudioPrefChanged
    <2>2. /\ audio' \in Copies
          /\ Saved(audio') = Saved(audio) /\ audio'.combo = Saved(audio)
          /\ audio'.temp = [driver |-> audio'.combo, val |-> audio'.form]
          /\ audio'.form = audio'.vals[audio'.combo]
          /\ Fixed(Saved(audio)) /\ Saved(audio) \notin Indifferent => audio'.vals = audio.vals
      BY <1>1, <1>3, <2>1, UnchangedSettings
    <2>3. TypeOK'
      BY <2>1, <2>2 DEF IInv, TypeOK, windowVars, NoJob
    <2>4. CopiesInv' /\ SettingsAgree'
      BY <2>1, <2>2 DEF CopiesInv, SettingsAgree, Idle, NoJob
    <2>5. ClientsInv'
      <3>1. job.left = {} /\ job'.left = {}
        BY <2>1 DEF IInv, CopiesInv, NoJob
      <3> QED BY <2>1, <2>2, <3>1 DEF IInv, ClientsInv, ClientFollows, windowVars, NoJob
    <2> QED BY <2>3, <2>4, <2>5 DEF IInv
  <1> QED BY <1>2, <1>3

----------------------------------------------------------------------------
(* One window is opened, reset or closed.                                  *)
WindowStep(w) ==
  /\ audio' \in Copies
  /\ audio'.driver = audio.driver /\ audio'.combo = audio.combo
  /\ audio'.form = audio.form /\ audio'.temp = audio.temp
  /\ \A d \in Drivers : Fixed(d) => audio'.vals[d] = audio.vals[d]
  /\ status' \in [Windows -> {"closed", "playing", "lost", "silent"}]
  /\ driver' \in [Windows -> Drivers \cup {None}]
  /\ value' \in [Windows -> Vals \cup {None}]
  /\ stale' \subseteq Windows
  /\ \A u \in Windows \ {w} : /\ status'[u] = status[u] /\ driver'[u] = driver[u]
                              /\ value'[u] = value[u] /\ (u \in stale' <=> u \in stale)
  /\ ClientFollows(w)'

(* What a new client leaves.                                               *)
LEMMA PlaysStep ==
  ASSUME IInv, NEW w \in Windows, Plays(w)
  PROVE  WindowStep(w)
  <1> DEFINE c == audio.combo
  <1>1. PICK v \in IF c \in Negotiating THEN Granted ELSE {audio.vals[c]} :
          /\ audio' = [audio EXCEPT !.vals[c] = v]
          /\ value' = [value EXCEPT ![w] = IF c \in Indifferent THEN None ELSE v]
    BY DEF Plays
  <1>2. /\ audio \in Copies /\ c \in Drivers /\ audio.vals \in [Drivers -> Vals]
    BY DEF IInv, TypeOK, Copies
  <1>3. v \in Vals
    BY <1>1, <1>2, AudioDriversAssumption
  <1> DEFINE n == [audio.vals EXCEPT ![c] = v]
  <1>4. n \in [Drivers -> Vals] /\ n[c] = v /\ \A d \in Drivers : Fixed(d) => n[d] = audio.vals[d]
    BY <1>1, <1>2, <1>3 DEF Fixed
  <1>5. audio' = [driver |-> audio.driver, vals |-> n, combo |-> audio.combo,
                  form |-> audio.form, temp |-> audio.temp]
    BY <1>1, <1>2 DEF Copies
  <1>6. /\ driver' = [driver EXCEPT ![w] = c]
        /\ status' = [status EXCEPT ![w] = "playing"]
        /\ stale' = IF c = Saved(audio) THEN stale \ {w} ELSE stale \cup {w}
    BY DEF Plays
  <1> HIDE DEF c, n
  <1>7. audio' \in Copies /\ audio'.vals = n
    BY <1>2, <1>4, <1>5 DEF Copies
  <1>8. /\ status' \in [Windows -> {"closed", "playing", "lost", "silent"}]
        /\ driver' \in [Windows -> Drivers \cup {None}] /\ driver'[w] = c
        /\ value' \in [Windows -> Vals \cup {None}]
        /\ value'[w] = IF c \in Indifferent THEN None ELSE v
    BY <1>1, <1>2, <1>3, <1>6 DEF IInv, TypeOK
  <1>9. \A u \in Windows \ {w} : /\ status'[u] = status[u] /\ driver'[u] = driver[u]
                                 /\ value'[u] = value[u] /\ (u \in stale' <=> u \in stale)
    BY <1>1, <1>6 DEF IInv, TypeOK
  <1>10. stale' \subseteq Windows /\ (w \notin stale' => c = Saved(audio))
    BY <1>6 DEF IInv, TypeOK
  <1>11. ClientFollows(w)'
    <2>1. Saved(audio') = Saved(audio)
      BY <1>5 DEF Saved
    <2> QED BY <1>4, <1>7, <1>8, <1>10, <2>1 DEF ClientFollows
  <1>12. /\ audio'.driver = audio.driver /\ audio'.combo = audio.combo
         /\ audio'.form = audio.form /\ audio'.temp = audio.temp
         /\ \A d \in Drivers : Fixed(d) => audio'.vals[d] = audio.vals[d]
    BY <1>4, <1>5
  <1> QED BY <1>7, <1>8, <1>9, <1>10, <1>11, <1>12 DEF WindowStep

LEMMA OtherSteps ==
  ASSUME IInv, NEW w \in Windows,
         \/ Silenced(w) \/ Kept(w)
         \/ UNCHANGED <<audio, windowVars>> /\ status[w] = "closed"
  PROVE  WindowStep(w)
  <1> USE DEF IInv, TypeOK, WindowStep, ClientFollows
  <1>1. CASE Silenced(w)
    BY <1>1 DEF Silenced
  <1>2. CASE Kept(w)
    BY <1>2 DEF Kept
  <1>3. CASE UNCHANGED <<audio, windowVars>> /\ status[w] = "closed"
    BY <1>3 DEF windowVars
  <1> QED BY <1>1, <1>2, <1>3

(* Such a step keeps the invariant, when no handler runs or as the next    *)
(* step of the loop of one.                                                *)
LEMMA OneWindowKeeps ==
  ASSUME IInv, NEW w \in Windows, WindowStep(w),
         UNCHANGED <<dialog, alive>>, notified' \subseteq Windows,
         \/ Idle /\ UNCHANGED job
         \/ ~Idle /\ job' = [job EXCEPT !.left = @ \ {w}]
  PROVE  IInv'
  <1>1. /\ job'.kind = job.kind /\ job'.all = job.all /\ job'.left \subseteq job.left
        /\ \A u \in Windows \ {w} : u \in job'.left <=> u \in job.left
        /\ job' \in [kind : {"none", "update", "restore", "again"},
                    left : SUBSET Windows, all : SUBSET Windows]
        /\ (Idle /\ job' = job) \/ w \notin job'.left
    BY DEF IInv, TypeOK
  <1>2. Saved(audio') = Saved(audio) /\ Saved(audio) \in Drivers
    BY KnownIsListed DEF WindowStep, Saved, IInv, TypeOK, Copies
  <1>3. TypeOK'
    BY <1>1 DEF IInv, TypeOK, WindowStep
  <1>4. CopiesInv'
    <2>1. Idle => job' = job
      OBVIOUS
    <2> QED BY <1>1, <1>2, <2>1 DEF IInv, CopiesInv, WindowStep, Idle, NoJob
  <1>5. SettingsAgree'
    BY <1>1, <1>2 DEF IInv, SettingsAgree, WindowStep, Idle
  <1>6. ClientsInv'
    <2>1. ASSUME NEW u \in Windows \ job'.left PROVE ClientFollows(u)'
      <3>1. CASE u = w
        BY <3>1 DEF WindowStep
      <3>2. CASE u # w
        <4>1. ClientFollows(u)
          BY <1>1, <3>2 DEF IInv, ClientsInv
        <4>2. /\ status'[u] = status[u] /\ driver'[u] = driver[u]
              /\ value'[u] = value[u] /\ (u \in stale' <=> u \in stale)
              /\ \A d \in Drivers : Fixed(d) => audio'.vals[d] = audio.vals[d]
          BY <3>2 DEF WindowStep
        <4> QED BY <1>2, <4>1, <4>2 DEF ClientFollows
      <3> QED BY <3>1, <3>2
    <2>2. job'.kind \in {"restore", "again"} => job'.left \cap Open' = {}
      <3> SUFFICES ASSUME job'.kind \in {"restore", "again"}, NEW u \in job'.left
                   PROVE  status'[u] = "closed"
        BY DEF Open
      <3>1. u \in job.left /\ u \in Windows /\ u # w /\ status[u] = "closed"
        BY <1>1 DEF IInv, TypeOK, ClientsInv, Open, Idle
      <3> QED BY <3>1 DEF WindowStep
    <2> QED BY <2>1, <2>2 DEF ClientsInv
  <1> QED BY <1>3, <1>4, <1>5, <1>6 DEF IInv

----------------------------------------------------------------------------
LEMMA DialogKeeps ==
  ASSUME IInv,
         \/ Preferences
         \/ \E d \in Drivers : ChooseDriver(d)
         \/ \E text \in Texts : EditForm(text)
  PROVE  IInv'
  <1>1. CASE Preferences
    BY <1>1 DEF Preferences, IInv, TypeOK, CopiesInv, SettingsAgree, ClientsInv,
                ClientFollows, Idle, Open, windowVars, NoJob
  <1>2. ASSUME NEW d \in Drivers, ChooseDriver(d) PROVE IInv'
    <2>1. /\ audio' \in Copies
          /\ audio'.driver = audio.driver /\ audio'.vals = audio.vals /\ audio'.temp = audio.temp
      BY <1>2, IndexChangedCopies DEF ChooseDriver, IInv, TypeOK
    <2> QED BY <1>2, <2>1 DEF ChooseDriver, IInv, TypeOK, CopiesInv, SettingsAgree, ClientsInv,
                              ClientFollows, Idle, Open, windowVars, Saved, NoJob
  <1>3. ASSUME NEW text \in Texts, EditForm(text) PROVE IInv'
    <2>1. audio' = [audio EXCEPT !.form = text] /\ audio \in Copies
      BY <1>3 DEF EditForm, IInv, TypeOK
    <2>2. /\ audio' \in Copies
          /\ audio'.driver = audio.driver /\ audio'.vals = audio.vals /\ audio'.temp = audio.temp
      BY <2>1 DEF Copies
    <2> QED BY <1>3, <2>2 DEF EditForm, IInv, TypeOK, CopiesInv, SettingsAgree, ClientsInv,
                              ClientFollows, Idle, Open, windowVars, Saved, NoJob
  <1> QED BY <1>1, <1>2, <1>3

(* The three ends of the dialog and the message of a dead server.          *)
LEMMA AudioPrefChangedSteps ==
  ASSUME IInv, Save \/ Cancel \/ \E w \in Windows : AudioShutDown(w)
  PROVE  IInv'
  <1>1. audio \in Copies /\ Saved(audio) \in Drivers /\ Default \in Drivers
    BY KnownIsListed, AudioDriversAssumption DEF IInv, TypeOK, Saved, Copies
  <1>2. CASE Save
    <2>1. Idle /\ AudioPrefChanged(audio) /\ dialog' = FALSE /\ UNCHANGED <<alive, windowVars, notified>>
      BY <1>2 DEF Save
    <2> QED BY <1>1, <2>1, AudioPrefChangedKeeps DEF IInv, TypeOK
  <1>3. CASE Cancel
    <2>1. /\ Idle /\ AudioPrefChanged(SavedToVisual(audio))
          /\ dialog' = FALSE /\ UNCHANGED <<alive, windowVars, notified>>
      BY <1>3 DEF Cancel
    <2> DEFINE a == SavedToVisual(audio)
    <2>2. /\ a \in Copies
          /\ a.driver = audio.driver /\ a.vals = audio.vals /\ a.temp = audio.temp
      BY <1>1, IndexChangedCopies DEF SavedToVisual
    <2> HIDE DEF a
    <2>3. AudioPrefChanged(a) /\ notified' \subseteq Windows /\ dialog' \in BOOLEAN
      BY <2>1 DEF a, IInv, TypeOK
    <2> QED BY <2>1, <2>2, <2>3, AudioPrefChangedKeeps
  <1>4. ASSUME NEW w \in Windows, AudioShutDown(w) PROVE IInv'
    <2>1. /\ Idle /\ AudioPrefChanged(ResetArchitecture(audio))
          /\ notified' = notified \ {w} /\ UNCHANGED <<dialog, alive, windowVars>>
      BY <1>4 DEF AudioShutDown
    <2> DEFINE a == ResetArchitecture(audio)
    <2>2. /\ a \in Copies
          /\ a.driver = audio.driver /\ a.vals = audio.vals /\ a.temp = audio.temp
      BY <1>1, IndexChangedCopies DEF ResetArchitecture
    <2> HIDE DEF a
    <2>3. AudioPrefChanged(a) /\ notified' \subseteq Windows /\ dialog' \in BOOLEAN
      BY <2>1 DEF a, IInv, TypeOK
    <2> QED BY <2>1, <2>2, <2>3, AudioPrefChangedKeeps
  <1> QED BY <1>2, <1>3, <1>4

LEMMA WindowSteps ==
  ASSUME IInv, NEW w \in Windows,
         OpenWindow(w) \/ CloseWindow(w) \/ SwitchPolyMIDI(w) \/ UpdateNext(w) \/ RestoreNext(w)
  PROVE  IInv'
  <1>1. CASE OpenWindow(w)
    <2>1. Plays(w) /\ Idle /\ UNCHANGED <<dialog, job, alive, notified>>
      BY <1>1 DEF OpenWindow
    <2> QED BY <2>1, PlaysStep, OneWindowKeeps DEF IInv, TypeOK
  <1>2. CASE CloseWindow(w)
    <2>1. WindowStep(w)
      BY <1>2 DEF CloseWindow, IInv, TypeOK, WindowStep, ClientFollows
    <2>2. Idle /\ UNCHANGED <<dialog, job, alive>> /\ notified' \subseteq Windows
      BY <1>2 DEF CloseWindow, IInv, TypeOK
    <2> QED BY <2>1, <2>2, OneWindowKeeps
  <1>3. CASE SwitchPolyMIDI(w)
    <2>1. ResetWindow(w) /\ Idle /\ UNCHANGED <<dialog, job, alive, notified>>
      BY <1>3 DEF SwitchPolyMIDI
    <2>2. WindowStep(w)
      BY <2>1, PlaysStep, OtherSteps DEF ResetWindow
    <2> QED BY <2>1, <2>2, OneWindowKeeps DEF IInv, TypeOK
  <1>4. CASE UpdateNext(w)
    <2>1. /\ ResetWindow(w) /\ ~Idle /\ job' = [job EXCEPT !.left = @ \ {w}]
          /\ UNCHANGED <<dialog, alive, notified>>
      BY <1>4 DEF UpdateNext, Idle
    <2>2. WindowStep(w)
      BY <2>1, PlaysStep, OtherSteps DEF ResetWindow
    <2> QED BY <2>1, <2>2, OneWindowKeeps DEF IInv, TypeOK
  <1>5. CASE RestoreNext(w)
    <2>1. /\ ~Idle /\ job' = [job EXCEPT !.left = @ \ {w}]
          /\ UNCHANGED <<dialog, alive, notified>>
          /\ Plays(w) \/ UNCHANGED <<audio, windowVars>>
          /\ status[w] = "closed"
      BY <1>5 DEF RestoreNext, Idle, IInv, ClientsInv, Open
    <2>2. WindowStep(w)
      BY <2>1, PlaysStep, OtherSteps
    <2> QED BY <2>1, <2>2, OneWindowKeeps DEF IInv, TypeOK
  <1> QED BY <1>1, <1>2, <1>3, <1>4, <1>5

LEMMA EndUpdateKeeps == ASSUME IInv, EndUpdate PROVE IInv'
  <1>1. /\ job' = NoJob /\ audio' = TempToSaved(audio)
        /\ UNCHANGED <<dialog, alive, windowVars, notified>>
        /\ job.left = {} /\ audio.driver = audio.combo /\ audio \in Copies
    BY DEF EndUpdate, IInv, TypeOK, CopiesInv
  <1>2. /\ audio' \in Copies
        /\ audio'.driver = audio.driver /\ audio'.combo = audio.combo /\ audio'.vals = audio.vals
        /\ audio'.form = audio.vals[audio.combo]
        /\ audio'.temp = [driver |-> audio.combo, val |-> audio.vals[audio.combo]]
    BY <1>1, TempToSavedCopies
  <1>3. Saved(audio') = Saved(audio) /\ Saved(audio) = audio.combo
    BY <1>1, <1>2, KnownIsListed DEF Saved, Copies
  <1>4. TypeOK'
    BY <1>1, <1>2 DEF IInv, TypeOK, windowVars, NoJob
  <1>5. CopiesInv' /\ SettingsAgree'
    BY <1>1, <1>2, <1>3 DEF CopiesInv, SettingsAgree, Idle, NoJob
  <1>6. ClientsInv'
    BY <1>1, <1>2, <1>3 DEF IInv, ClientsInv, ClientFollows, windowVars, NoJob
  <1> QED BY <1>4, <1>5, <1>6 DEF IInv

LEMMA DriversKeep ==
  ASSUME IInv, NEW d \in Drivers, Die(d) \/ Revive(d)
  PROVE  IInv'
  <1>1. CASE Die(d)
    <2>1. /\ UNCHANGED <<audio, dialog, job, driver, value, stale>>
          /\ status' \in [Windows -> {"closed", "playing", "lost", "silent"}]
          /\ \A w \in Windows : /\ status[w] = "closed" <=> status'[w] = "closed"
                                /\ status'[w] \in {"playing", "lost"} => status[w] \in {"playing", "lost"}
      BY <1>1 DEF Die, IInv, TypeOK
    <2>2. TypeOK'
      BY <1>1, <2>1 DEF Die, IInv, TypeOK
    <2>3. CopiesInv' /\ SettingsAgree'
      BY <2>1 DEF IInv, CopiesInv, SettingsAgree, Idle
    <2>4. ClientsInv'
      <3>1. ASSUME NEW w \in Windows \ job'.left PROVE ClientFollows(w)'
        <4>1. ClientFollows(w)
          BY <2>1 DEF IInv, ClientsInv
        <4> QED BY <2>1, <4>1 DEF ClientFollows, Saved
      <3>2. Open' = Open
        BY <2>1 DEF Open
      <3> QED BY <2>1, <3>1, <3>2 DEF IInv, ClientsInv
    <2> QED BY <2>2, <2>3, <2>4 DEF IInv
  <1>2. CASE Revive(d)
    BY <1>2 DEF Revive, IInv, TypeOK, CopiesInv, SettingsAgree, ClientsInv, ClientFollows,
                Idle, Open, windowVars
  <1> QED BY <1>1, <1>2

(* The program is started again, as it was when it quit.                   *)
LEMMA RestartKeeps == ASSUME IInv, Quit \/ FallBack \/ EndRestore PROVE IInv'
  <1>1. CASE Quit
    <2> DEFINE v == [audio.vals EXCEPT ![audio.combo] = Stored(audio.form)]
    <2>1. v \in [Drivers -> Vals] /\ audio.driver \in Drivers \cup {Unknown}
      BY StoredIsParameter DEF IInv, TypeOK, Copies
    <2> HIDE DEF v
    <2>2. audio' = Created(audio.driver, v)
      BY <1>1 DEF Quit, v
    <2>3. /\ audio' \in Copies
          /\ audio'.combo = Saved(audio') /\ audio'.form = audio'.vals[audio'.combo]
          /\ audio'.temp = [driver |-> audio'.combo, val |-> audio'.form]
      BY <2>1, <2>2, CreatedCopies
    <2>4. PICK some \in SUBSET Windows : job' = [kind |-> "restore", left |-> some, all |-> some]
      BY <1>1 DEF Quit, Restore
    <2>5. /\ \A w \in Windows : status'[w] = "closed"
          /\ dialog' = FALSE
      BY <1>1 DEF Quit, IInv, TypeOK
    <2>6. TypeOK'
      BY <1>1, <2>3, <2>4 DEF Quit, IInv, TypeOK
    <2>7. CopiesInv' /\ SettingsAgree'
      BY <2>3, <2>4, <2>5 DEF CopiesInv, SettingsAgree, Idle
    <2>8. ClientsInv'
      BY <2>4, <2>5 DEF ClientsInv, ClientFollows, Open
    <2> QED BY <2>6, <2>7, <2>8 DEF IInv
  <1>2. CASE FallBack
    <2> DEFINE a == ResetArchitecture(audio)
    <2>1. a \in Copies
      BY IndexChangedCopies, AudioDriversAssumption DEF ResetArchitecture, IInv, TypeOK
    <2> HIDE DEF a
    <2>2. audio' = VisualToTemp(a)
      BY <1>2 DEF FallBack, a
    <2>3. audio' \in Copies /\ audio'.driver = audio'.combo
      BY <2>1, <2>2, VisualToTempCopies
    <2>4. Saved(audio') = audio'.combo
      BY <2>3, KnownIsListed DEF Saved, Copies
    <2>5. /\ job' \in [kind : {"none", "update", "restore", "again"},
                        left : SUBSET Windows, all : SUBSET Windows]
          /\ job'.kind = "again"
          /\ \A w \in Windows : status'[w] = "closed"
          /\ ~dialog'
      BY <1>2 DEF FallBack, IInv, TypeOK, CopiesInv, Open, windowVars
    <2>6. TypeOK'
      BY <1>2, <2>3, <2>5 DEF FallBack, IInv, TypeOK, windowVars
    <2>7. CopiesInv' /\ SettingsAgree'
      BY <2>3, <2>4, <2>5 DEF CopiesInv, SettingsAgree, Idle
    <2>8. ClientsInv'
      BY <2>5 DEF ClientsInv, ClientFollows, Open
    <2> QED BY <2>6, <2>7, <2>8 DEF IInv
  <1>3. CASE EndRestore
    <2>1. /\ job' = NoJob /\ job.kind = "restore" /\ job.left = {} /\ audio.combo = Saved(audio)
          /\ UNCHANGED <<audio, dialog, alive, windowVars, notified>>
      BY <1>3 DEF EndRestore, IInv, CopiesInv, Idle
    <2>2. audio.temp = [driver |-> audio.combo, val |-> audio.form]
      BY <2>1 DEF IInv, TypeOK, CopiesInv, Copies
    <2>3. TypeOK'
      BY <2>1 DEF IInv, TypeOK, windowVars, NoJob
    <2>4. CopiesInv' /\ SettingsAgree'
      BY <2>1, <2>2 DEF IInv, CopiesInv, SettingsAgree, Idle, NoJob
    <2>5. ClientsInv'
      BY <2>1 DEF IInv, ClientsInv, ClientFollows, windowVars, NoJob
    <2> QED BY <2>3, <2>4, <2>5 DEF IInv
  <1> QED BY <1>1, <1>2, <1>3

LEMMA NextKeepsIInv == IInv /\ [Next]_vars => IInv'
  <1> SUFFICES ASSUME IInv, [Next]_vars PROVE IInv'
    OBVIOUS
  <1>1. CASE UNCHANGED vars
    BY <1>1 DEF vars, windowVars, IInv, TypeOK, CopiesInv, SettingsAgree, ClientsInv,
                ClientFollows, Idle, Open
  <1>2. CASE Next
    BY <1>2, DialogKeeps, AudioPrefChangedSteps, WindowSteps, EndUpdateKeeps, DriversKeep,
       RestartKeeps DEF Next, Job
  <1> QED BY <1>1, <1>2

----------------------------------------------------------------------------
(* The copies of the settings and the clients agree in every state, as far *)
(* as the handler under way has come.                                      *)
THEOREM DriversInvariant == Spec => []IInv
  <1> QED BY InitIInv, NextKeepsIInv, PTL DEF Spec

(* Without the dialog, the form and its copy are what is saved.            *)
THEOREM SettingsAlwaysAgree == Spec => []SettingsAgree
  <1>1. IInv => SettingsAgree
    BY DEF IInv
  <1> QED BY <1>1, DriversInvariant, PTL

(* The windows play with the saved driver and its saved parameters.        *)
THEOREM WindowsAlwaysFollow == Spec => []WindowsFollowSettings
  <1>1. ASSUME IInv, Idle PROVE \A w \in Windows : ClientFollows(w)
    <2>1. job.left = {}
      BY <1>1 DEF IInv, CopiesInv, NoJob
    <2> QED BY <1>1, <2>1 DEF IInv, ClientsInv
  <1>2. IInv => WindowsFollowSettings
    BY <1>1 DEF WindowsFollowSettings
  <1> QED BY <1>2, DriversInvariant, PTL

(* Cancelling saves nothing of what was edited, whatever the driver.       *)
THEOREM CancelIsHarmless == Spec => CancelSavesNothing
  <1>1. ASSUME IInv, Cancel
        PROVE  /\ Saved(audio') = Saved(audio) /\ audio'.vals = audio.vals
               /\ job' = NoJob \/ GrantedSince
    <2> DEFINE a == SavedToVisual(audio)
    <2>1. audio \in Copies /\ Saved(audio) \in Drivers
      BY <1>1, KnownIsListed DEF IInv, TypeOK, Saved, Copies
    <2>2. /\ a \in Copies
          /\ a.driver = audio.driver /\ a.vals = audio.vals /\ a.temp = audio.temp
          /\ a.combo = Saved(audio) /\ a.form = audio.vals[Saved(audio)]
      BY <2>1, IndexChangedCopies DEF SavedToVisual
    <2> HIDE DEF a
    <2>3. AudioPrefChanged(a) /\ Idle
      BY <1>1 DEF Cancel, a
    <2>4. Saved(a) = Saved(audio) /\ Saved(a) = a.combo /\ a.temp.driver = a.combo
      BY <1>1, <2>2, <2>3 DEF IInv, CopiesInv, Saved
    <2>5. a.form \in Vals /\ Stored(a.form) = a.form
      BY <2>1, <2>2, StoredIsParameter DEF Copies, Texts
    <2>6. /\ VisualToTemp(a) \in Copies
          /\ VisualToTemp(a).vals = [a.vals EXCEPT ![a.combo] = a.form]
          /\ VisualToTemp(a).driver = a.combo
      BY <2>2, <2>5, VisualToTempCopies
    <2>7. VisualToTemp(a).vals = audio.vals
      BY <2>1, <2>2, <2>6 DEF Copies
    <2>8. Known(a.combo) = a.combo
      BY <2>1, <2>2, AudioDriversAssumption DEF Known
    <2>9. Saved(VisualToTemp(a)) = Saved(audio)
      BY <2>2, <2>6, <2>8 DEF Saved
    <2>10. CASE DidSettingChanged(a)
      <3>1. audio' = VisualToTemp(a)
        BY <2>3, <2>10 DEF AudioPrefChanged
      <3>2. a.temp.val # a.form
        BY <2>1, <2>2, <2>4, <2>10 DEF DidSettingChanged, SameSettings, Copies
      <3>3. GrantedSince
        BY <1>1, <2>2, <2>3, <3>2 DEF GrantedSince, IInv, CopiesInv
      <3> QED BY <2>7, <2>9, <3>1, <3>3
    <2>11. CASE ~DidSettingChanged(a)
      <3>1. audio' = TempToSaved(VisualToTemp(a)) /\ job' = NoJob
        BY <2>3, <2>11 DEF AudioPrefChanged
      <3>2. audio'.vals = VisualToTemp(a).vals /\ audio'.driver = VisualToTemp(a).driver
        BY <2>6, <3>1, TempToSavedCopies
      <3>3. Saved(audio') = Saved(audio)
        BY <2>9, <3>2 DEF Saved
      <3> QED BY <2>7, <3>1, <3>2, <3>3
    <2> QED BY <2>10, <2>11
  <1>2. IInv /\ [Next]_vars =>
          [Cancel =>
             /\ Saved(audio') = Saved(audio) /\ audio'.vals = audio.vals
             /\ job' = NoJob \/ GrantedSince]_vars
    BY <1>1
  <1> QED BY <1>2, DriversInvariant, PTL DEF Spec, CancelSavesNothing

=============================================================================
