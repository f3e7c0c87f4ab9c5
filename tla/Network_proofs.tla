--------------------------- MODULE Network_proofs ---------------------------
(***************************************************************************)
(* Proofs about the components that answer, or ask, other programs over the *)
(* network: the HTTP drop server, the OSC and HTTP interfaces of a window   *)
(* with its settings and its tool bar, and the exports to the compilation   *)
(* service.  The three share no state: a part for each.                     *)
(***************************************************************************)
EXTENDS HttpDropServer, Interfaces, ExportManager, FiniteSetTheorems, TLAPS

-----------------------------------------------------------------------------
(***************************************************************************)
(* The HTTP drop server, for any number of clients and windows: the         *)
(* handover between the two threads never mixes answers and never reads a   *)
(* connection that is gone, and the connections are counted.                *)
(***************************************************************************)
\* The counter is kept by steps that follow from the type of the rest, so it comes first.
DropInv == UploadsCounted /\ DropTypeOK /\ HandoverInv /\ AnswersMatch

-----------------------------------------------------------------------------
(* The counter. *)

\* A connection that begins or ends changes the set by itself, and the counter by one.
LEMMA OneMore ==
  ASSUME UploadsCounted, NEW c \in Clients, c \notin Uploading, fUploadingClients < MaxClients,
         Uploading' = Uploading \cup {c}, fUploadingClients' = fUploadingClients + 1
  PROVE  UploadsCounted'
<1>1. IsFiniteSet(Uploading)
  BY HttpDropServerAssumption, FS_Subset DEF HttpDropServerAssumption, Uploading
<1>2. Cardinality(Uploading') = Cardinality(Uploading) + 1
  BY <1>1, FS_AddElement
<1>3. Cardinality(Uploading) \in Nat
  BY <1>1, FS_CardinalityType
<1> QED
  BY <1>2, <1>3, HttpDropServerAssumption DEF UploadsCounted, HttpDropServerAssumption

LEMMA OneLess ==
  ASSUME UploadsCounted, NEW c \in Uploading,
         Uploading' = Uploading \ {c}, fUploadingClients' = fUploadingClients - 1
  PROVE  UploadsCounted'
<1>1. IsFiniteSet(Uploading)
  BY HttpDropServerAssumption, FS_Subset DEF HttpDropServerAssumption, Uploading
<1>2. Cardinality(Uploading') = Cardinality(Uploading) - 1
  BY <1>1, FS_RemoveElement
<1>3. Cardinality(Uploading) \in Nat
  BY <1>1, FS_CardinalityType
<1> QED
  BY <1>2, <1>3, HttpDropServerAssumption DEF UploadsCounted, HttpDropServerAssumption

\* Every step of either thread, of a client and of the user keeps the count.
LEMMA CountStep == DropTypeOK /\ HandoverInv /\ UploadsCounted /\ [DropNext]_dropVars => UploadsCounted'
<1> SUFFICES ASSUME DropTypeOK, HandoverInv, UploadsCounted, [DropNext]_dropVars PROVE UploadsCounted'
  OBVIOUS
<1>1. ASSUME NEW c \in Clients, Accept(c) PROVE UploadsCounted'
  <2>1. CASE fUploadingClients >= MaxClients
    <3>1. Uploading' = Uploading
      BY <1>1, <2>1 DEF Accept, Uploading, DropTypeOK
    <3> QED
      BY <1>1, <2>1, <3>1 DEF Accept, UploadsCounted
  <2>2. CASE ~(fUploadingClients >= MaxClients)
    <3>1. Uploading' = Uploading \cup {c} /\ c \notin Uploading
      BY <1>1, <2>2 DEF Accept, Uploading, DropTypeOK
    <3>2. fUploadingClients < MaxClients
      BY <2>2, HttpDropServerAssumption DEF HttpDropServerAssumption, DropTypeOK
    <3> QED
      BY <1>1, <2>2, <3>1, <3>2, OneMore DEF Accept
  <2> QED
    BY <2>1, <2>2
<1>2. ASSUME NEW c \in Clients, RequestCompleted(c) PROVE UploadsCounted'
  <2>1. Uploading' = Uploading \ {c} /\ c \in Uploading
    BY <1>2 DEF RequestCompleted, Uploading, DropTypeOK
  <2> QED
    BY <1>2, <2>1, OneLess DEF RequestCompleted
<1>3. CASE EndDaemon
  <2>1. Uploading' = {} /\ fUploadingClients' = 0
    BY <1>3 DEF EndDaemon, Uploading, DropTypeOK
  <2> QED
    BY <2>1, FS_EmptySet, HttpDropServerAssumption DEF UploadsCounted, HttpDropServerAssumption
<1>4. ASSUME Uploading' = Uploading, fUploadingClients' = fUploadingClients
      PROVE  UploadsCounted'
  BY <1>4 DEF UploadsCounted
<1>5. ASSUME NEW c \in Clients, Upload(c) \/ HandlePost(c) PROVE UploadsCounted'
  <2>1. Uploading' = Uploading
    BY <1>5 DEF Upload, HandlePost, Uploading, DropTypeOK, HandoverInv
  <2> QED
    BY <1>4, <1>5, <2>1 DEF Upload, HandlePost
<1>6. CASE Answer
  <2>1. serving \in Clients /\ conn[serving] = "waiting"
    BY <1>6 DEF Answer, DropTypeOK, HandoverInv
  <2>2. Uploading' = Uploading
    BY <1>6, <2>1 DEF Answer, Uploading, DropTypeOK
  <2> QED
    BY <1>4, <1>6, <2>2 DEF Answer
<1>7. CASE UNCHANGED <<conn, fUploadingClients>>
  BY <1>4, <1>7 DEF Uploading
<1>8. CASE BeginRound \/ Gui
  BY <1>7, <1>8 DEF BeginRound, Gui, CompileHttpData, PostAnswer, LaunchServer, ReleaseAndStop,
     Over, WriteAnswer, server
<1>9. CASE (\E w \in Windows : CloseWindow(w)) \/ ChangeDropPort \/ Quit
  BY <1>7, <1>9 DEF CloseWindow, ChangeDropPort, Quit, server
<1> QED
  BY <1>1, <1>2, <1>3, <1>5, <1>6, <1>7, <1>8, <1>9 DEF DropNext, Server, Others, dropVars, server

-----------------------------------------------------------------------------
(* The handover. *)

\* The initial states satisfy the invariant.
LEMMA InitInv == DropInit => DropInv
<1> SUFFICES ASSUME DropInit PROVE DropInv
  OBVIOUS
<1> USE HttpDropServerAssumption DEF HttpDropServerAssumption, DropInit, NoAnswer
<1>1. conn \in [Clients -> {"away"}] /\ events \in Seq(Clients)
  OBVIOUS
<1>2. NoAnswer \in [of : Clients \cup {Nobody}, ok : BOOLEAN] /\ NoAnswer.of = Nobody
  OBVIOUS
<1>3. answer \in [Clients -> [of : Clients \cup {Nobody}, ok : BOOLEAN]]
  BY <1>2
<1>4. DropTypeOK
  BY <1>1, <1>2, <1>3 DEF DropTypeOK
<1>5. HandoverInv
  BY <1>1 DEF HandoverInv, Ended
<1>6. UploadsCounted
  <2>1. Uploading = {}
    BY <1>1 DEF Uploading
  <2>2. Cardinality(Uploading) = 0
    BY <2>1, FS_EmptySet
  <2> QED
    BY <2>2 DEF UploadsCounted
<1> QED
  BY <1>4, <1>5, <1>6 DEF DropInv, AnswersMatch

\* Every step of either thread, of a client and of the user keeps it.
LEMMA StepInv == DropInv /\ [DropNext]_dropVars => DropInv'
<1> SUFFICES ASSUME DropInv, [DropNext]_dropVars PROVE DropTypeOK' /\ HandoverInv' /\ AnswersMatch'
  BY CountStep DEF DropInv
<1>0. UploadsCounted'
  BY CountStep DEF DropInv
<1> USE HttpDropServerAssumption
    DEF HttpDropServerAssumption, DropInv, DropTypeOK, HandoverInv, AnswersMatch, Ended
<1>1. ASSUME NEW c \in Clients, Accept(c) PROVE DropTypeOK' /\ HandoverInv' /\ AnswersMatch'
  BY <1>1 DEF Accept, handover, app
<1>2. ASSUME NEW c \in Clients, Upload(c) PROVE DropTypeOK' /\ HandoverInv' /\ AnswersMatch'
  BY <1>2 DEF Upload, handover, app
<1>3. ASSUME NEW c \in Clients, RequestCompleted(c) PROVE DropTypeOK' /\ HandoverInv' /\ AnswersMatch'
  <2>1. IsFiniteSet(Uploading') /\ fUploadingClients' \in Nat
    BY <1>0, FS_Subset, FS_CardinalityType DEF UploadsCounted, Uploading
  <2> QED
    BY <1>3, <2>1 DEF RequestCompleted, handover, app
<1>4. CASE BeginRound
  BY <1>4 DEF BeginRound, handover, app
<1>5. ASSUME NEW c \in Clients, HandlePost(c) PROVE DropTypeOK' /\ HandoverInv' /\ AnswersMatch'
  <2>1. events = <<>> \/ Ended
    BY <1>5 DEF HandlePost
  <2>2. events' \in Seq(Clients)
    BY <1>5 DEF HandlePost
  <2>3. DropTypeOK'
    BY <1>5, <2>2 DEF HandlePost, app
  <2>4. events = <<>> => events' = <<c>>
    BY <1>5 DEF HandlePost
  <2>5. conn'[c] = "waiting" /\ \A d \in Clients \ {c} : conn'[d] = conn[d]
    BY <1>5 DEF HandlePost
  <2>6. HandoverInv'
    BY <1>5, <2>1, <2>4, <2>5 DEF HandlePost, app
  <2> QED
    BY <1>5, <2>3, <2>6 DEF HandlePost, app
<1>6. CASE Answer
  BY <1>6 DEF Answer, app
<1>7. CASE EndDaemon
  <2>1. DropTypeOK'
    BY <1>7 DEF EndDaemon, handover, app
  <2>2. HandoverInv'
    BY <1>7 DEF EndDaemon, handover, app
  <2> QED
    BY <1>7, <2>1, <2>2 DEF EndDaemon, handover, app
<1>8. CASE CompileHttpData
  BY <1>8 DEF CompileHttpData, server
<1>9. ASSUME NEW c \in Clients, NEW ok \in BOOLEAN, WriteAnswer(c, ok)
      PROVE  DropTypeOK' /\ HandoverInv' /\ AnswersMatch'
  BY <1>9 DEF WriteAnswer, server
<1>10. CASE PostAnswer
  BY <1>10 DEF PostAnswer, server
<1>11. ASSUME NEW w \in Windows, CloseWindow(w) PROVE DropTypeOK' /\ HandoverInv' /\ AnswersMatch'
  BY <1>11 DEF CloseWindow, server, handover
<1>12. CASE ChangeDropPort
  BY <1>12 DEF ChangeDropPort, server, handover
<1>13. CASE LaunchServer
  BY <1>13 DEF LaunchServer, handover
<1>14. CASE Quit
  BY <1>14 DEF Quit, server
<1>15. CASE ReleaseAndStop
  BY <1>15 DEF ReleaseAndStop, server
<1>16. CASE Over
  BY <1>16 DEF Over, server, handover
<1>17. CASE UNCHANGED dropVars
  BY <1>17 DEF dropVars, server, handover, app
<1> QED
  BY <1>1, <1>2, <1>3, <1>4, <1>5, <1>6, <1>7, <1>8, <1>9, <1>10, <1>11, <1>12, <1>13, <1>14,
     <1>15, <1>16, <1>17
  DEF DropNext, Server, Gui, Others

LEMMA Invariance == DropSpec => []DropInv
BY InitInv, StepInv, PTL DEF DropSpec

-----------------------------------------------------------------------------

\* A client gets the answer to its own program, none, or the one that FaustLive is quitting:
\* the four variables between FLServerHttp::handlePost and the GUI thread serve any number
\* of connections, without a lock.
THEOREM AnswersAreNotMixed == DropSpec => []AnswersMatch
<1>1. DropInv => AnswersMatch
  BY DEF DropInv
<1> QED
  BY <1>1, Invariance, PTL

\* FLApp::compile_HttpData never reads a program whose connection has ended, although only a
\* pointer to it goes through the event queue.
THEOREM ProgramsAreAlive == DropSpec => []DataAlive
<1>1. DropInv => DataAlive
  BY DEF DropInv, DropTypeOK, HandoverInv, DataAlive
<1> QED
  BY <1>1, Invariance, PTL

\* fUploadingClients counts the connections with a post processor through every way in which
\* a connection ends, and never exceeds fMaxCients.
THEOREM ConnectionsAreCounted == DropSpec => []UploadsCounted
<1>1. DropInv => UploadsCounted
  BY DEF DropInv
<1> QED
  BY <1>1, Invariance, PTL

-----------------------------------------------------------------------------
(***************************************************************************)
(* The interfaces, the settings and the tool bar of a window agree, for     *)
(* any options, ports, levels and values.                                   *)
(***************************************************************************)
USE DEF Signals

(* What the program that starts to run establishes, whatever was pending.  *)
Settled == UNCHANGED <<pref, set, asked, qr>> /\ todo' \subseteq todo

LEMMA LevelType ==
  ASSUME OptionsTypeOK, NEW default \in Levels
  PROVE  Level(default) \in Levels
  BY InterfacesAssumption DEF OptionsTypeOK, Level

LEMMA OnType == OptionsTypeOK => \A k \in Switches : On(k) \in BOOLEAN
  BY InterfacesAssumption DEF OptionsTypeOK, On

----------------------------------------------------------------------------
(* The tool bar shows the settings again.                                  *)
LEMMA SyncStep ==
  ASSUME OptionsTypeOK, NEW oscPort \in OscPorts, SyncVisualParams(oscPort), UNCHANGED pref,
         UNCHANGED <<saved, savedLevel>>
  PROVE  /\ shown' \subseteq Switches /\ shownPort' = oscPort /\ shownLevel' \in Levels
         /\ \A k \in Switches : k \in shown' <=> On(k)
         /\ \A k \in Switches : On(k)' = On(k)
         /\ ~Idle /\ JobInv => shown' = asked
  <1>1. Level(Highest) \in Levels
    BY LevelType, InterfacesAssumption
  <1>2. \A k \in Switches : On(k)' = On(k)
    BY DEF On
  <1> QED BY <1>1, <1>2 DEF SyncVisualParams, JobInv, OptionsTypeOK

LEMMA OptionsStep ==
  ASSUME OptionsTypeOK, SetWindowsOptions, UNCHANGED <<pref, set, asked, qr>>,
         live' \subseteq Switches, "osc" \in live' => livePort' \in OscPorts
  PROVE  /\ saved' = saved /\ savedLevel' = savedLevel
         /\ savedPort' = (IF "osc" \in live' THEN livePort' ELSE savedPort)
         /\ savedPort' \in OscPorts
         /\ shown' \subseteq Switches /\ shownPort' = savedPort' /\ shownLevel' \in Levels
         /\ \A k \in Switches : k \in shown' <=> On(k)
         /\ \A k \in Switches : On(k)' = On(k)
         /\ Level(Highest)' = Level(Highest)
         /\ ~Idle /\ JobInv => shown' = asked
  <1>1. savedPort' \in OscPorts
    BY DEF SetWindowsOptions, OptionsTypeOK
  <1>2. SyncVisualParams(savedPort') /\ UNCHANGED <<saved, savedLevel>>
    BY DEF SetWindowsOptions
  <1>3. Level(Highest)' = Level(Highest)
    BY <1>2 DEF Level
  <1> QED BY <1>1, <1>2, <1>3, SyncStep DEF SetWindowsOptions

(* The job that is left after a signal is handled.                         *)
LEMMA JobStep ==
  ASSUME JobInv, Settled, saved' = saved, shown' = shown \/ (~Idle => shown' = asked),
         shownPort' = savedPort' \/ (shownPort' = shownPort /\ savedPort' = savedPort)
  PROVE  JobInv'
  <1>1. \A k \in Switches : On(k)' = On(k)
    BY DEF On, Settled
  <1>2. Idle' \/ ~Idle
    BY DEF Idle, Settled
  <1> QED BY <1>1, <1>2 DEF JobInv, Settled, Idle

LEMMA SaveAndRecallStep ==
  ASSUME OptionsTypeOK, ValuesSurvive, SaveAndRecall, UNCHANGED set
  PROVE  value' \in Values /\ rc' \in Values /\ value' = set' /\ rc' = set'
  BY DEF SaveAndRecall, SaveWindow, RecallWindow, ValuesSurvive, OptionsTypeOK

----------------------------------------------------------------------------
(* A new program plays with its interfaces.                                *)
LEMMA NewInterfacesStep ==
  ASSUME OptionsInv, NewInterfaces, Settled
  PROVE  OptionsInv'
<1> USE DEF OptionsInv
<1>1. live' = {k \in Switches : On(k)} /\ status' = "shown" /\ excused' = {}
  BY DEF NewInterfaces
<1>2. "osc" \in live' => livePort' \in OscPorts
  BY DEF NewInterfaces
<1>2b. "osc" \notin live' => livePort' = Unset
  BY DEF NewInterfaces
<1>3. SetWindowsOptions /\ SaveAndRecall /\ liveLevel' = Level(Highest)
  BY DEF NewInterfaces
<1>4. /\ saved' = saved /\ savedLevel' = savedLevel
      /\ savedPort' = (IF "osc" \in live' THEN livePort' ELSE savedPort)
      /\ savedPort' \in OscPorts
      /\ shown' \subseteq Switches /\ shownPort' = savedPort' /\ shownLevel' \in Levels
      /\ \A k \in Switches : On(k)' = On(k)
      /\ Level(Highest)' = Level(Highest)
      /\ ~Idle /\ JobInv => shown' = asked
  BY <1>1, <1>2, <1>3, OptionsStep DEF Settled
<1>5. value' \in Values /\ rc' \in Values /\ value' = set' /\ rc' = set'
  BY <1>3, SaveAndRecallStep DEF Settled
<1>6. Level(Highest) \in Levels
  BY LevelType, InterfacesAssumption
<1>7. Undeclared = {}
  BY DEF Undeclared, DeclaredIsLive
<1>8. IF "http" \in live' THEN HttpRuns({}) ELSE NoHttp({})
  BY <1>7 DEF NewInterfaces
<1>9. /\ "http" \in live' => httpPort' \in HttpPorts /\ declared' = {httpPort'}
      /\ "http" \notin live' => httpPort' = Unset /\ declared' = {}
  BY <1>8 DEF HttpRuns, NoHttp
<1>10. pref' = pref /\ set' = set /\ asked' = asked /\ qr' = qr /\ todo' \subseteq todo
  BY DEF Settled
<1>11. OptionsTypeOK'
  BY <1>1, <1>2, <1>2b, <1>3, <1>4, <1>5, <1>6, <1>9, <1>10 DEF OptionsTypeOK
<1>12. FollowInv'
  BY <1>1, <1>3, <1>4 DEF FollowInv
<1>13. JobInv'
  BY <1>4, JobStep
<1>14. LiveInv'
  BY <1>1, <1>2, <1>2b, <1>9, InterfacesAssumption DEF LiveInv
<1>15. OscPortIsLive' /\ DeclaredIsLive'
  BY <1>4, <1>9 DEF OscPortIsLive, DeclaredIsLive
<1>16. InterfacesHaveDSP' /\ ValuesSurvive'
  BY <1>1, <1>5 DEF InterfacesHaveDSP, ValuesSurvive
<1> QED BY <1>11, <1>12, <1>13, <1>14, <1>15, <1>16

(* The program does not compile: the window stays as it is.                *)
LEMMA FailedStep ==
  ASSUME OptionsInv, Failed, UNCHANGED rc \/ SaveWindow, Settled,
         todo \ todo' \subseteq {"update", "midi", "poly"}
  PROVE  OptionsInv'
<1> USE DEF OptionsInv
<1>1. /\ excused' = (excused \cap {"http", "osc"}) \cup Behind
      /\ saved' = saved /\ savedPort' = savedPort /\ savedLevel' = savedLevel
      /\ shown' = shown /\ shownPort' = shownPort /\ shownLevel' = shownLevel
      /\ live' = live /\ livePort' = livePort /\ liveLevel' = liveLevel
      /\ httpPort' = httpPort /\ declared' = declared /\ status' = status /\ value' = value
  BY DEF Failed, settings, toolBar, running
<1>2. pref' = pref /\ set' = set /\ asked' = asked /\ qr' = qr /\ todo' \subseteq todo
  BY DEF Settled
<1>3. rc' \in Values /\ (IF status = "shown" THEN TRUE ELSE rc' = set)
  BY DEF SaveWindow, OptionsTypeOK, ValuesSurvive
<1>4. (\A k \in Switches : On(k)' = On(k)) /\ Level(Highest)' = Level(Highest)
  BY <1>1, <1>2 DEF On, Level
<1>5. OptionsTypeOK'
  BY <1>1, <1>2, <1>3 DEF OptionsTypeOK, Behind
<1>6. FollowInv'
  <2>1. SUFFICES ASSUME status = "shown"
                 PROVE  /\ \A k \in Switches \ (excused' \cup todo') : k \in live <=> On(k)
                        /\ "level" \notin excused' \cup todo' /\ "update" \notin todo' =>
                             liveLevel = Level(Highest)
    BY <1>1, <1>4 DEF FollowInv
  <2>2. ASSUME NEW k \in Switches \ (excused' \cup todo') PROVE k \in live <=> On(k)
    <3>1. CASE k \in {"midi", "poly"}
      BY <1>1, <2>2, <3>1, OnType DEF Behind, OptionsTypeOK
    <3>2. CASE k \in {"http", "osc"}
      <4>1. k \notin excused \cup todo
        BY <1>1, <2>2, <3>2
      <4> QED BY <2>1, <2>2, <4>1 DEF FollowInv
    <3> QED BY <3>1, <3>2, InterfacesAssumption
  <2>3. "level" \notin excused' => liveLevel = Level(Highest)
    BY <1>1 DEF Behind
  <2> QED BY <2>2, <2>3
<1>7. JobInv'
  BY <1>1, JobStep
<1>8. LiveInv' /\ DeclaredIsLive'
  BY <1>1 DEF LiveInv, DeclaredIsLive
<1>9. OscPortIsLive'
  BY <1>1, <1>2 DEF OscPortIsLive
<1>10. InterfacesHaveDSP' /\ ValuesSurvive'
  BY <1>1, <1>2, <1>3 DEF InterfacesHaveDSP, ValuesSurvive
<1> QED BY <1>5, <1>6, <1>7, <1>8, <1>9, <1>10

(* The window is left without DSP.                                         *)
LEMMA LeftSilentStep ==
  ASSUME OptionsInv, LeftSilent, Settled, todo' \cap {"osc", "port", "http"} = {}
  PROVE  OptionsInv'
<1> USE DEF OptionsInv
<1>1. /\ status' = "silent" /\ live' = {} /\ livePort' = Unset /\ liveLevel' = Unset
      /\ excused' = {}
      /\ saved' = saved /\ savedPort' = savedPort /\ savedLevel' = savedLevel
      /\ shown' = shown /\ shownPort' = shownPort /\ shownLevel' = shownLevel
  BY DEF LeftSilent, settings, toolBar
<1>2. value' \in Values /\ rc' \in Values /\ value' = set' /\ rc' = set'
  BY SaveAndRecallStep DEF LeftSilent, Settled
<1>3. httpPort' = Unset /\ declared' = {}
  BY DEF LeftSilent, NoHttp, Undeclared, DeclaredIsLive
<1>4. pref' = pref /\ set' = set /\ asked' = asked /\ qr' = qr /\ todo' \subseteq todo
  BY DEF Settled
<1>5. OptionsTypeOK'
  BY <1>1, <1>2, <1>3, <1>4 DEF OptionsTypeOK
<1>6. FollowInv' /\ LiveInv' /\ OscPortIsLive' /\ DeclaredIsLive'
  BY <1>1, <1>3 DEF FollowInv, LiveInv, OscPortIsLive, DeclaredIsLive
<1>7. JobInv'
  BY <1>1, JobStep
<1>8. InterfacesHaveDSP' /\ ValuesSurvive'
  BY <1>1, <1>2 DEF InterfacesHaveDSP, ValuesSurvive
<1> QED BY <1>5, <1>6, <1>7, <1>8

----------------------------------------------------------------------------
(* The OSC interface is switched, or comes back on another port.           *)
LEMMA OscOnStep ==
  ASSUME OptionsInv, OscOn, Settled, todo' = todo \ {"osc"} \/ todo' = todo \ {"port"},
         On("osc"), "osc" \in Switches, status = "shown"
  PROVE  OptionsInv'
<1> USE DEF OptionsInv
<1>1. /\ livePort' \in OscPorts /\ live' = live \cup {"osc"}
      /\ excused' = excused \ {"osc"}
      /\ liveLevel' = liveLevel /\ httpPort' = httpPort /\ declared' = declared
      /\ status' = status /\ SetWindowsOptions /\ SaveAndRecall
  BY DEF OscOn
<1>2. pref' = pref /\ set' = set /\ asked' = asked /\ qr' = qr /\ todo' \subseteq todo
  BY DEF Settled
<1>3. live' \subseteq Switches
  BY <1>1 DEF OptionsTypeOK
<1>4. /\ saved' = saved /\ savedLevel' = savedLevel
      /\ savedPort' = (IF "osc" \in live' THEN livePort' ELSE savedPort)
      /\ savedPort' \in OscPorts
      /\ shown' \subseteq Switches /\ shownPort' = savedPort' /\ shownLevel' \in Levels
      /\ \A k \in Switches : On(k)' = On(k)
      /\ Level(Highest)' = Level(Highest)
      /\ ~Idle /\ JobInv => shown' = asked
  BY <1>1, <1>2, <1>3, OptionsStep
<1>5. value' \in Values /\ rc' \in Values /\ value' = set' /\ rc' = set'
  BY <1>1, <1>2, SaveAndRecallStep
<1>6. OptionsTypeOK'
  BY <1>1, <1>2, <1>3, <1>4, <1>5 DEF OptionsTypeOK
<1>7. FollowInv'
  <2>1. \A k \in Switches \ (excused' \cup todo') :
          k = "osc" \/ k \notin excused \cup todo
    BY <1>1, InterfacesAssumption
  <2>2. \A k \in Switches \ (excused' \cup todo') : k \in live' <=> On(k)
    BY <1>1, <2>1 DEF FollowInv
  <2>3. "level" \notin excused' \cup todo' /\ "update" \notin todo' => liveLevel' = Level(Highest)
    BY <1>1 DEF FollowInv
  <2> QED BY <1>4, <2>2, <2>3 DEF FollowInv
<1>8. JobInv'
  BY <1>4, JobStep
<1>9. LiveInv' /\ DeclaredIsLive' /\ OscPortIsLive'
  BY <1>1, <1>4, InterfacesAssumption DEF LiveInv, DeclaredIsLive, OscPortIsLive
<1>10. InterfacesHaveDSP' /\ ValuesSurvive'
  BY <1>1, <1>5 DEF InterfacesHaveDSP, ValuesSurvive
<1> QED BY <1>6, <1>7, <1>8, <1>9, <1>10

LEMMA OscOffStep ==
  ASSUME OptionsInv, OscOff, Settled, todo' = todo \ {"osc"}, On("osc") = FALSE
  PROVE  OptionsInv'
<1> USE DEF OptionsInv
<1>1. /\ live' = live \ {"osc"} /\ livePort' = Unset /\ excused' = excused \ {"osc"}
      /\ saved' = saved /\ savedPort' = savedPort /\ savedLevel' = savedLevel
      /\ shown' = shown /\ shownPort' = shownPort /\ shownLevel' = shownLevel
      /\ liveLevel' = liveLevel /\ httpPort' = httpPort /\ declared' = declared
      /\ status' = status /\ value' = value /\ rc' = rc
  BY DEF OscOff, settings, toolBar
<1>2. pref' = pref /\ set' = set /\ asked' = asked /\ qr' = qr /\ todo' \subseteq todo
  BY DEF Settled
<1>3. (\A k \in Switches : On(k)' = On(k)) /\ Level(Highest)' = Level(Highest)
  BY <1>1, <1>2 DEF On, Level
<1>4. OptionsTypeOK'
  BY <1>1, <1>2 DEF OptionsTypeOK
<1>5. FollowInv'
  BY <1>1, <1>3 DEF FollowInv
<1>6. JobInv'
  BY <1>1, JobStep
<1>7. LiveInv' /\ DeclaredIsLive' /\ OscPortIsLive'
  BY <1>1 DEF LiveInv, DeclaredIsLive, OscPortIsLive
<1>8. InterfacesHaveDSP' /\ ValuesSurvive'
  BY <1>1, <1>2 DEF InterfacesHaveDSP, ValuesSurvive
<1> QED BY <1>4, <1>5, <1>6, <1>7, <1>8

(* The HTTP interface is switched.                                         *)
LEMMA HttpOnStep ==
  ASSUME OptionsInv, HttpOn, Settled, todo' = todo \ {"http"}, On("http"), status = "shown",
         todo \cap {"osc", "port"} = {}
  PROVE  OptionsInv'
<1> USE DEF OptionsInv
<1>1. /\ live' = live \cup {"http"} /\ excused' = excused \ {"http"}
      /\ livePort' = livePort /\ liveLevel' = liveLevel /\ status' = status
      /\ SetWindowsOptions /\ SaveAndRecall
  BY DEF HttpOn
<1>2. httpPort' \in HttpPorts /\ declared' = {httpPort'}
  BY DEF HttpOn, HttpRuns, Undeclared, DeclaredIsLive
<1>3. pref' = pref /\ set' = set /\ asked' = asked /\ qr' = qr /\ todo' \subseteq todo
  BY DEF Settled
<1>4. live' \subseteq Switches /\ ("osc" \in live' => livePort' \in OscPorts)
  BY <1>1, InterfacesAssumption DEF OptionsTypeOK, LiveInv
<1>5. /\ saved' = saved /\ savedLevel' = savedLevel
      /\ savedPort' = (IF "osc" \in live' THEN livePort' ELSE savedPort)
      /\ savedPort' \in OscPorts
      /\ shown' \subseteq Switches /\ shownPort' = savedPort' /\ shownLevel' \in Levels
      /\ \A k \in Switches : On(k)' = On(k)
      /\ Level(Highest)' = Level(Highest)
      /\ ~Idle /\ JobInv => shown' = asked
  BY <1>1, <1>3, <1>4, OptionsStep
<1>6. value' \in Values /\ rc' \in Values /\ value' = set' /\ rc' = set'
  BY <1>1, <1>3, SaveAndRecallStep
<1>7. OptionsTypeOK'
  BY <1>1, <1>2, <1>3, <1>4, <1>5, <1>6 DEF OptionsTypeOK
<1>8. FollowInv'
  BY <1>1, <1>5 DEF FollowInv
<1>9. JobInv'
  BY <1>5, JobStep
<1>10. LiveInv' /\ DeclaredIsLive' /\ OscPortIsLive'
  BY <1>1, <1>2, <1>5, InterfacesAssumption DEF LiveInv, DeclaredIsLive, OscPortIsLive
<1>11. InterfacesHaveDSP' /\ ValuesSurvive'
  BY <1>1, <1>6 DEF InterfacesHaveDSP, ValuesSurvive
<1> QED BY <1>7, <1>8, <1>9, <1>10, <1>11

LEMMA HttpOffStep ==
  ASSUME OptionsInv, HttpOff, Settled, todo' = todo \ {"http"}, On("http") = FALSE
  PROVE  OptionsInv'
<1> USE DEF OptionsInv
<1>1. /\ live' = live \ {"http"} /\ excused' = excused \ {"http"}
      /\ saved' = saved /\ savedPort' = savedPort /\ savedLevel' = savedLevel
      /\ shown' = shown /\ shownPort' = shownPort /\ shownLevel' = shownLevel
      /\ livePort' = livePort /\ liveLevel' = liveLevel
      /\ status' = status /\ value' = value /\ rc' = rc
  BY DEF HttpOff, settings, toolBar
<1>2. httpPort' = Unset /\ declared' = {}
  BY DEF HttpOff, NoHttp, Undeclared, DeclaredIsLive
<1>3. pref' = pref /\ set' = set /\ asked' = asked /\ qr' = qr /\ todo' \subseteq todo
  BY DEF Settled
<1>4. (\A k \in Switches : On(k)' = On(k)) /\ Level(Highest)' = Level(Highest)
  BY <1>1, <1>3 DEF On, Level
<1>5. OptionsTypeOK'
  BY <1>1, <1>2, <1>3 DEF OptionsTypeOK
<1>6. FollowInv'
  BY <1>1, <1>4 DEF FollowInv
<1>7. JobInv'
  BY <1>1, JobStep
<1>8. LiveInv' /\ DeclaredIsLive' /\ OscPortIsLive'
  BY <1>1, <1>2 DEF LiveInv, DeclaredIsLive, OscPortIsLive
<1>9. InterfacesHaveDSP' /\ ValuesSurvive'
  BY <1>1, <1>3 DEF InterfacesHaveDSP, ValuesSurvive
<1> QED BY <1>5, <1>6, <1>7, <1>8, <1>9

----------------------------------------------------------------------------
(* The next signal.                                                        *)
LEMMA HandleStep ==
  ASSUME OptionsInv, NEW s \in Signals, Handle(s)
  PROVE  OptionsInv'
<1> USE DEF OptionsInv
<1>1. /\ s \in todo /\ \A t \in todo : Rank(s) <= Rank(t)
      /\ todo' = todo \ {s} /\ UNCHANGED <<pref, set, asked, qr>>
  BY DEF Handle
<1>2. Settled /\ ~Idle
  BY <1>1 DEF Settled, Idle
<1>3. \A k \in Switches : On(k) <=> k \in asked
  BY <1>2 DEF JobInv
<1>4. \A k \in Switches : On(k) \in BOOLEAN
  BY OnType
<1>5. CASE s = "update"
  <2>1. NewInterfaces \/ (Failed /\ SaveWindow)
    BY <1>5 DEF Handle, UpdateWindow
  <2>2. todo \ todo' \subseteq {"update", "midi", "poly"}
    BY <1>1, <1>5
  <2> QED BY <1>2, <2>1, <2>2, NewInterfacesStep, FailedStep
<1>6. CASE s \in {"midi", "poly"}
  <2>1. NewInterfaces \/ (Failed /\ UNCHANGED rc) \/ LeftSilent
    BY <1>6 DEF Handle, Reset
  <2>2. todo \ todo' \subseteq {"update", "midi", "poly"}
    BY <1>1, <1>6
  <2>3. todo' \cap {"osc", "port", "http"} = {}
    BY <1>1, <1>6 DEF Rank
  <2> QED BY <1>2, <2>1, <2>2, <2>3, NewInterfacesStep, FailedStep, LeftSilentStep
<1>7. CASE s \in {"osc", "port", "http"}
  <2>1. status = "shown"
    BY <1>1, <1>7 DEF InterfacesHaveDSP, OptionsTypeOK
  <2>2. CASE s = "port"
    <3>1. OscOn
      BY <2>2 DEF Handle
    <3>2. "osc" \in asked /\ "osc" \in Switches
      BY <1>1, <1>2, <2>2 DEF JobInv, OptionsTypeOK
    <3> QED BY <1>1, <1>2, <1>3, <2>1, <2>2, <3>1, <3>2, OscOnStep
  <2>3. CASE s = "osc"
    <3>1. SwitchOsc
      BY <2>3 DEF Handle
    <3>2. CASE "osc" \in asked
      <4>1. "osc" \in Switches /\ OscOn
        BY <3>1, <3>2 DEF OptionsTypeOK, SwitchOsc
      <4> QED BY <1>1, <1>2, <1>3, <2>1, <2>3, <3>2, <4>1, OscOnStep
    <3>3. CASE "osc" \notin asked
      <4>1. OscOff
        BY <3>1, <3>3 DEF SwitchOsc
      <4>2. "osc" \in Switches
        BY <1>1, <2>3 DEF OptionsTypeOK
      <4>3. On("osc") = FALSE
        BY <1>3, <1>4, <3>3, <4>2
      <4> QED BY <1>1, <1>2, <2>3, <4>1, <4>3, OscOffStep
    <3> QED BY <3>2, <3>3
  <2>4. CASE s = "http"
    <3>1. SwitchHttp /\ "http" \in Switches
      BY <2>4, InterfacesAssumption DEF Handle
    <3>2. todo \cap {"osc", "port"} = {}
      BY <1>1, <2>4 DEF Rank
    <3>3. CASE "http" \in asked
      <4>1. HttpOn
        BY <3>1, <3>3 DEF SwitchHttp
      <4> QED BY <1>1, <1>2, <1>3, <2>1, <2>4, <3>1, <3>2, <3>3, <4>1, HttpOnStep
    <3>4. CASE "http" \notin asked
      <4>1. HttpOff
        BY <3>1, <3>4 DEF SwitchHttp
      <4>2. On("http") = FALSE
        BY <1>3, <1>4, <3>1, <3>4
      <4> QED BY <1>1, <1>2, <2>4, <4>1, <4>2, HttpOffStep
    <3> QED BY <3>3, <3>4
  <2> QED BY <1>7, <2>2, <2>3, <2>4
<1> QED BY <1>5, <1>6, <1>7

----------------------------------------------------------------------------
(* modifiedOptions: what is saved is what is asked, and each interface     *)
(* that does not run as it is saved has its signal.                        *)
LEMMA ModifiedStep ==
  ASSUME OptionsInv, NEW boxes \in SUBSET Switches, todo = {}, ModifiedOptions(boxes),
         qr' \in {"no", "open", "show"}, qr' # "no" => "http" \in boxes,
         \/ status = "shown"
         \/ /\ \A k \in Switches : On(k) <=> k \in boxes
            /\ "osc" \in boxes => shownPort = savedPort
  PROVE  OptionsInv'
<1> USE DEF OptionsInv
<1>0. PICK edited \in SUBSET Voices :
        /\ saved' = [k \in Switches |-> IF Changed(k, boxes) \/ k \in edited
                                        THEN k \in boxes ELSE saved[k]]
        /\ todo' = Emitted(boxes) \cup edited
  BY DEF ModifiedOptions
<1>1. /\ saved' = [k \in Switches |-> IF Changed(k, boxes) \/ k \in edited
                                      THEN k \in boxes ELSE saved[k]]
      /\ savedPort' = (IF PortChanged(boxes) THEN shownPort ELSE savedPort)
      /\ savedLevel' = (IF LevelChanged THEN shownLevel ELSE savedLevel)
      /\ shown' = boxes /\ todo' = Emitted(boxes) \cup edited /\ asked' = boxes
      /\ edited \subseteq Switches \cap {"poly"}
      /\ pref' = pref /\ shownPort' = shownPort /\ shownLevel' = shownLevel
      /\ live' = live /\ livePort' = livePort /\ liveLevel' = liveLevel
      /\ httpPort' = httpPort /\ declared' = declared /\ status' = status
      /\ value' = value /\ rc' = rc /\ set' = set /\ excused' = excused
  BY <1>0 DEF ModifiedOptions, running, parameters, Voices
<1>2. \A k \in Switches : On(k) \in BOOLEAN
  BY OnType
<1>3. \A k \in Switches : On(k)' <=> k \in boxes
  <2>1. TAKE k \in Switches
  <2>2. saved'[k] = IF Changed(k, boxes) \/ k \in edited THEN k \in boxes ELSE saved[k]
    BY <1>1
  <2>3. CASE Changed(k, boxes) \/ k \in edited
    <3>1. saved'[k] = (k \in boxes) /\ (k \in boxes) \in BOOLEAN
      BY <2>2, <2>3
    <3>2. saved'[k] # Unset
      BY <3>1, InterfacesAssumption, Zenon
    <3>3. On(k)' = saved'[k]
      BY <3>2 DEF On
    <3> QED BY <3>1, <3>3
  <2>4. CASE ~Changed(k, boxes) /\ k \notin edited
    <3>1. On(k)' = On(k)
      BY <1>1, <2>2, <2>4 DEF On
    <3> QED BY <1>2, <2>4, <3>1 DEF Changed
  <2> QED BY <2>3, <2>4
<1>4. \A k \in Switches : Changed(k, boxes) => k \in todo'
  BY <1>1, InterfacesAssumption DEF Emitted
<1>5. \A k \in Switches \ todo' : On(k)' <=> On(k)
  BY <1>2, <1>3, <1>4 DEF Changed
<1>6. /\ LevelChanged <=> "update" \in todo'
      /\ "port" \in todo' <=> PortChanged(boxes) /\ ~Changed("osc", boxes)
  BY <1>1, InterfacesAssumption DEF Emitted
<1>7. OptionsTypeOK'
  <2>1. saved' \in [Switches -> BOOLEAN \cup {Unset}]
    BY <1>1 DEF OptionsTypeOK
  <2>2. Emitted(boxes) \subseteq Switches \cup {"port", "update"}
    BY DEF Emitted
  <2> QED BY <1>1, <2>1, <2>2 DEF OptionsTypeOK
<1>8. FollowInv'
  <2>1. SUFFICES ASSUME status = "shown"
                 PROVE  /\ \A k \in Switches \ (excused \cup todo') : k \in live <=> On(k)'
                        /\ "level" \notin excused \cup todo' /\ "update" \notin todo' =>
                             liveLevel = Level(Highest)'
    BY <1>1 DEF FollowInv
  <2>2. \A k \in Switches \ (excused \cup todo') : k \in live <=> On(k)
    BY <2>1 DEF FollowInv
  <2>3. "update" \notin todo' => Level(Highest)' = Level(Highest)
    BY <1>1, <1>6 DEF Level
  <2>4. "level" \notin excused => liveLevel = Level(Highest)
    BY <2>1 DEF FollowInv
  <2> QED BY <1>5, <2>2, <2>3, <2>4
<1>9. JobInv'
  <2>1. "osc" \in boxes => shownPort' = savedPort'
    BY <1>1 DEF PortChanged
  <2>2. "port" \in todo' => "osc" \in boxes
    BY <1>6 DEF PortChanged
  <2> QED BY <1>1, <1>3, <2>1, <2>2 DEF JobInv
<1>10. LiveInv' /\ DeclaredIsLive'
  BY <1>1 DEF LiveInv, DeclaredIsLive
<1>11. OscPortIsLive'
  <2>1. todo' \cap {"osc", "port"} = {} => savedPort' = savedPort
    <3>1. "osc" \in boxes => "osc" \in Switches
      OBVIOUS
    <3> QED BY <1>1, <1>4, <1>6, <3>1 DEF PortChanged
  <2> QED BY <1>1, <2>1 DEF OscPortIsLive
<1>12. InterfacesHaveDSP'
  <2>1. CASE status = "shown"
    BY <1>1, <2>1 DEF InterfacesHaveDSP
  <2>2. CASE status # "shown"
    <3>1. ~PortChanged(boxes)
      BY <2>2 DEF PortChanged
    <3>2. \A k \in Switches : ~Changed(k, boxes)
      BY <1>2, <2>2 DEF Changed
    <3>3. todo' \cap {"osc", "port", "http"} = {}
      BY <1>1, <3>1, <3>2 DEF Emitted
    <3> QED BY <3>3 DEF InterfacesHaveDSP
  <2> QED BY <2>1, <2>2
<1>13. ValuesSurvive'
  BY <1>1 DEF ValuesSurvive
<1> QED BY <1>7, <1>8, <1>9, <1>10, <1>11, <1>12, <1>13

----------------------------------------------------------------------------
(* The other steps of the user.                                            *)
LEMMA ToolBarStep ==
  ASSUME OptionsInv, Idle, shown' \subseteq Switches, shownPort' \in OscPorts, shownLevel' \in Levels,
         UNCHANGED <<pref, settings, running, parameters, job, excused>>
  PROVE  OptionsInv'
<1> USE DEF OptionsInv
<1>1. /\ pref' = pref /\ todo' = todo /\ asked' = asked /\ qr' = qr /\ excused' = excused
      /\ saved' = saved /\ savedPort' = savedPort /\ savedLevel' = savedLevel
      /\ live' = live /\ livePort' = livePort /\ liveLevel' = liveLevel
      /\ httpPort' = httpPort /\ declared' = declared /\ status' = status
      /\ value' = value /\ rc' = rc /\ set' = set
  BY DEF settings, running, parameters, job
<1>2. OptionsTypeOK'
  BY <1>1 DEF OptionsTypeOK
<1>3. (\A k \in Switches : On(k)' = On(k)) /\ Level(Highest)' = Level(Highest) /\ Idle'
  BY <1>1 DEF On, Level, Idle
<1>4. FollowInv' /\ JobInv' /\ LiveInv'
  BY <1>1, <1>3 DEF FollowInv, JobInv, LiveInv
<1> QED BY <1>1, <1>2, <1>4 DEF OscPortIsLive, DeclaredIsLive, InterfacesHaveDSP, ValuesSurvive

LEMMA SavePreferencesStep ==
  ASSUME OptionsInv, NEW d \in Defaults, SavePreferences(d)
  PROVE  OptionsInv'
<1> USE DEF OptionsInv
<1>1. /\ pref' = [pref EXCEPT ![d] = ~pref[d]] /\ d \in Switches
      /\ todo' = todo /\ asked' = asked /\ qr' = qr /\ Idle
      /\ saved' = saved /\ savedPort' = savedPort /\ savedLevel' = savedLevel
      /\ shown' = shown /\ shownPort' = shownPort /\ shownLevel' = shownLevel
      /\ live' = live /\ livePort' = livePort /\ liveLevel' = liveLevel
      /\ httpPort' = httpPort /\ declared' = declared /\ status' = status
      /\ value' = value /\ rc' = rc /\ set' = set
  BY InterfacesAssumption DEF SavePreferences, settings, toolBar, running, parameters, job
<1>2. excused' \subseteq Switches \cup {"level"} /\ pref' \in [Switches -> BOOLEAN]
  BY <1>1 DEF SavePreferences, OptionsTypeOK
<1>3. OptionsTypeOK'
  BY <1>1, <1>2 DEF OptionsTypeOK
<1>4. FollowInv'
  <2>1. Level(Highest)' = Level(Highest)
    BY <1>1 DEF Level
  <2>2. \A k \in Switches : k # d \/ saved[d] # Unset => On(k)' = On(k)
    BY <1>1 DEF On, OptionsTypeOK
  <2>3. ASSUME status = "shown", NEW k \in Switches \ (excused' \cup todo)
        PROVE  k \in live <=> On(k)'
    <3>1. CASE k # d \/ saved[d] # Unset
      <4>1. k \notin excused
        BY <2>3, <3>1 DEF SavePreferences
      <4> QED BY <2>2, <2>3, <3>1, <4>1 DEF FollowInv
    <3>2. CASE k = d /\ saved[d] = Unset
      <4>1. (d \in live) = pref'[d]
        BY <2>3, <3>2 DEF SavePreferences
      <4>2. On(d)' = pref'[d]
        BY <1>1, <3>2 DEF On
      <4> QED BY <3>2, <4>1, <4>2
    <3> QED BY <3>1, <3>2
  <2>4. "level" \notin excused' => "level" \notin excused
    BY InterfacesAssumption DEF SavePreferences
  <2> QED BY <1>1, <2>1, <2>3, <2>4 DEF FollowInv
<1>5. JobInv' /\ LiveInv'
  BY <1>1 DEF JobInv, LiveInv, Idle
<1> QED BY <1>1, <1>3, <1>4, <1>5 DEF OscPortIsLive, DeclaredIsLive, InterfacesHaveDSP, ValuesSurvive

----------------------------------------------------------------------------
(* Every step.                                                             *)
LEMMA InitStep == OptionsInit => OptionsInv
<1> SUFFICES ASSUME OptionsInit PROVE OptionsInv
  OBVIOUS
<1>1. Level(Highest) \in Levels
  BY InterfacesAssumption DEF OptionsInit, Level
<1>2. OptionsTypeOK
  BY <1>1, InterfacesAssumption DEF OptionsInit, OptionsTypeOK
<1>3. FollowInv
  BY DEF OptionsInit, FollowInv, On
<1> QED BY <1>2, <1>3 DEF OptionsInit, OptionsInv, JobInv, LiveInv, OscPortIsLive, DeclaredIsLive,
             InterfacesHaveDSP, ValuesSurvive, Idle

LEMMA NextStep == OptionsInv /\ [OptionsNext]_optionsVars => OptionsInv'
<1> SUFFICES ASSUME OptionsInv, [OptionsNext]_optionsVars PROVE OptionsInv'
  OBVIOUS
<1> USE DEF OptionsInv
<1>0. OptionsTypeOK /\ Level(Highest) \in Levels
  BY LevelType, InterfacesAssumption
<1>1. ASSUME NEW k \in Switches, CheckBox(k) PROVE OptionsInv'
  BY <1>0, <1>1, ToolBarStep DEF CheckBox, User, OptionsTypeOK
<1>2. ASSUME NEW d \in Defaults, SavePreferences(d) PROVE OptionsInv'
  BY <1>2, SavePreferencesStep
<1>3. ASSUME NEW p \in OscPorts, EditPort(p) PROVE OptionsInv'
  BY <1>0, <1>3, ToolBarStep DEF EditPort, User, OptionsTypeOK
<1>4. ASSUME NEW l \in Levels, EditLevel(l) PROVE OptionsInv'
  BY <1>0, <1>4, ToolBarStep DEF EditLevel, User, OptionsTypeOK
<1>5. ASSUME NEW v \in Values, MoveSlider(v) PROVE OptionsInv'
  <2>1. /\ pref' = pref /\ todo' = todo /\ asked' = asked /\ qr' = qr /\ excused' = excused
        /\ saved' = saved /\ savedPort' = savedPort /\ savedLevel' = savedLevel
        /\ shown' = shown /\ shownPort' = shownPort /\ shownLevel' = shownLevel
        /\ live' = live /\ livePort' = livePort /\ liveLevel' = liveLevel
        /\ httpPort' = httpPort /\ declared' = declared /\ status' = status /\ rc' = rc
        /\ value' = v /\ set' = v /\ status = "shown"
    BY <1>5 DEF MoveSlider, User, settings, toolBar, running, job
  <2>2. (\A k \in Switches : On(k)' = On(k)) /\ Level(Highest)' = Level(Highest)
    BY <2>1 DEF On, Level
  <2>3. OptionsTypeOK' /\ FollowInv' /\ LiveInv'
    BY <2>1, <2>2 DEF OptionsTypeOK, FollowInv, LiveInv
  <2>4. JobInv'
    BY <2>1, <2>2 DEF JobInv, Idle
  <2> QED BY <2>1, <2>3, <2>4 DEF OscPortIsLive, DeclaredIsLive, InterfacesHaveDSP, ValuesSurvive
<1>6. CASE Fold
  <2>1. SyncVisualParams(savedPort) /\ Idle
        /\ UNCHANGED <<pref, settings, running, parameters, job, excused>>
    BY <1>6 DEF Fold, User
  <2>2. shown' \subseteq Switches /\ shownPort' = savedPort /\ shownLevel' \in Levels
    BY <1>0, <2>1 DEF SyncVisualParams
  <2> QED BY <1>0, <2>1, <2>2, ToolBarStep DEF OptionsTypeOK
<1>7. CASE Apply
  BY <1>0, <1>7, ModifiedStep DEF Apply, User, Idle, OptionsTypeOK
<1>8. CASE OscError
  <2>1. status = "shown"
    BY <1>8 DEF OscError, LiveInv, OptionsTypeOK
  <2>2. shown \ {"osc"} \in SUBSET Switches
    BY <1>0 DEF OptionsTypeOK
  <2> QED BY <1>8, <2>1, <2>2, ModifiedStep DEF OscError, Idle
<1>9. ASSUME NEW s \in Signals, Handle(s) PROVE OptionsInv'
  BY <1>9, HandleStep
<1>10. CASE ViewQRCode
  <2>1. shown \cup {"http"} \in SUBSET Switches
    BY <1>0, InterfacesAssumption DEF OptionsTypeOK
  <2> QED BY <1>10, <2>1, ModifiedStep DEF ViewQRCode, User, Idle
<1>11. CASE HttpForQRCode
  <2>1. qr = "open" /\ todo = {} /\ qr' = "show" /\ ~Idle
    BY <1>11 DEF HttpForQRCode, Idle
  <2>2. shown = asked /\ "http" \in asked /\ asked \subseteq Switches
    BY <2>1 DEF JobInv, OptionsTypeOK
  <2>3. CASE "http" \in live
    <3>1. /\ pref' = pref /\ todo' = todo /\ asked' = asked /\ excused' = excused
          /\ saved' = saved /\ savedPort' = savedPort /\ savedLevel' = savedLevel
          /\ shown' = shown /\ shownPort' = shownPort /\ shownLevel' = shownLevel
          /\ live' = live /\ livePort' = livePort /\ liveLevel' = liveLevel
          /\ httpPort' = httpPort /\ declared' = declared /\ status' = status
          /\ rc' = rc /\ value' = value /\ set' = set
      BY <1>11, <2>3 DEF HttpForQRCode, settings, toolBar, running, parameters
    <3>2. (\A k \in Switches : On(k)' = On(k)) /\ Level(Highest)' = Level(Highest)
      BY <3>1 DEF On, Level
    <3>3. OptionsTypeOK' /\ FollowInv' /\ LiveInv'
      BY <2>1, <3>1, <3>2 DEF OptionsTypeOK, FollowInv, LiveInv
    <3>4. JobInv'
      BY <2>1, <3>1, <3>2 DEF JobInv, Idle
    <3> QED BY <3>1, <3>3, <3>4
            DEF OscPortIsLive, DeclaredIsLive, InterfacesHaveDSP, ValuesSurvive
  <2>4. CASE "http" \notin live
    <3>1. ModifiedOptions(asked)
      <4>1. shown \cup {"http"} = asked
        BY <2>2
      <4> QED BY <1>11, <2>4, <4>1 DEF HttpForQRCode
    <3>2. (\A k \in Switches : On(k) <=> k \in asked) /\ ("osc" \in asked => shownPort = savedPort)
      BY <2>1 DEF JobInv
    <3> QED BY <2>1, <2>2, <3>1, <3>2, ModifiedStep
  <2> QED BY <2>3, <2>4
<1>12. CASE ShowQRCode
  <2>1. /\ pref' = pref /\ todo' = todo /\ asked' = asked /\ excused' = excused
        /\ saved' = saved /\ savedPort' = savedPort /\ savedLevel' = savedLevel
        /\ shown' = shown /\ shownPort' = shownPort /\ shownLevel' = shownLevel
        /\ live' = live /\ livePort' = livePort /\ liveLevel' = liveLevel
        /\ httpPort' = httpPort /\ declared' = declared /\ status' = status
        /\ rc' = rc /\ value' = value /\ set' = set
        /\ todo = {} /\ qr' = "no"
    BY <1>12 DEF ShowQRCode, settings, toolBar, running, parameters
  <2>2. (\A k \in Switches : On(k)' = On(k)) /\ Level(Highest)' = Level(Highest) /\ Idle'
    BY <2>1 DEF On, Level, Idle
  <2>3. OptionsTypeOK' /\ FollowInv' /\ JobInv' /\ LiveInv'
    BY <2>1, <2>2 DEF OptionsTypeOK, FollowInv, JobInv, LiveInv
  <2> QED BY <2>1, <2>3 DEF OscPortIsLive, DeclaredIsLive, InterfacesHaveDSP, ValuesSurvive
<1>13. CASE SourceChanged
  <2>1. Settled /\ todo' = todo
    BY <1>13 DEF SourceChanged, Settled, job
  <2>2. NewInterfaces \/ (Failed /\ SaveWindow)
    BY <1>13 DEF SourceChanged, UpdateWindow
  <2>3. todo \ todo' \subseteq {"update", "midi", "poly"}
    BY <2>1
  <2> QED BY <2>1, <2>2, <2>3, NewInterfacesStep, FailedStep
<1>14. CASE AudioPrefChanged
  <2>1. Settled /\ todo' = {} /\ todo = {}
    BY <1>14 DEF AudioPrefChanged, Settled, job, Idle
  <2>2. NewInterfaces \/ (Failed /\ UNCHANGED rc) \/ LeftSilent
    BY <1>14 DEF AudioPrefChanged, Reset
  <2>3. todo \ todo' \subseteq {"update", "midi", "poly"} /\ todo' \cap {"osc", "port", "http"} = {}
    BY <2>1
  <2> QED BY <2>1, <2>2, <2>3, NewInterfacesStep, FailedStep, LeftSilentStep
<1>15. CASE Restart
  <2>1. Settled /\ NewInterfaces
    BY <1>15 DEF Restart, Settled, job
  <2> QED BY <2>1, NewInterfacesStep
<1>16. CASE UNCHANGED optionsVars
  BY <1>16 DEF optionsVars, settings, toolBar, running, parameters, job, OptionsTypeOK, FollowInv, JobInv, LiveInv,
     OscPortIsLive, DeclaredIsLive, InterfacesHaveDSP, ValuesSurvive, On, Level, Idle
<1> QED BY <1>1, <1>2, <1>3, <1>4, <1>5, <1>6, <1>7, <1>8, <1>9, <1>10, <1>11, <1>12,
           <1>13, <1>14, <1>15, <1>16 DEF OptionsNext

----------------------------------------------------------------------------
(* What runs, what is saved, what is shown and what is still to be done    *)
(* agree in every state, for any options, ports, levels and values.        *)
THEOREM InterfacesInvariant == OptionsSpec => []OptionsInv
  BY InitStep, NextStep, PTL DEF OptionsSpec

(* A window at rest runs the interfaces and the compilation of its         *)
(* settings, up to the defaults that changed and the resets that failed.   *)
THEOREM InterfacesAlwaysFollow == OptionsSpec => []InterfacesFollowSettings
<1>1. OptionsInv => InterfacesFollowSettings
  BY DEF OptionsInv, FollowInv, InterfacesFollowSettings, Idle
<1> QED BY <1>1, InterfacesInvariant, PTL

(* The QR code that is shown is the one of an interface that runs.         *)
THEOREM QRCodeAlwaysHasInterface == OptionsSpec => []QRCodeHasInterface
<1>1. OptionsInv => QRCodeHasInterface
  BY InterfacesAssumption DEF OptionsInv, FollowInv, JobInv, QRCodeHasInterface, Idle
<1> QED BY <1>1, InterfacesInvariant, PTL

(* When the last signal is handled, the boxes are the interfaces that run. *)
THEOREM AppliedIsAlwaysShown == OptionsSpec => AppliedIsShown
<1>1. ASSUME OptionsInv, OptionsInv', [OptionsNext]_optionsVars, todo # {}, todo' = {}, status' = "shown"
      PROVE  \A k \in Switches \ excused' : k \in shown' <=> k \in live'
  <2>1. \A k \in Switches \ excused' : k \in live' <=> On(k)'
    BY <1>1 DEF OptionsInv, FollowInv
  <2>2. PICK s \in Signals : Handle(s)
    BY <1>1 DEF OptionsNext, optionsVars, job, Idle, User, CheckBox, SavePreferences, EditPort, EditLevel,
       MoveSlider, Fold, Apply, OscError, ViewQRCode, HttpForQRCode, ShowQRCode,
       SourceChanged, AudioPrefChanged, Restart
  <2>3. JobInv /\ ~Idle /\ OptionsTypeOK /\ LiveInv
    BY <1>1 DEF OptionsInv, Idle
  <2>4. \A k \in Switches : On(k) <=> k \in asked
    BY <2>3 DEF JobInv
  <2>5. saved' = saved /\ pref' = pref /\ shown' \in {shown, {k \in Switches : On(k)}}
    BY <2>2 DEF Handle, UpdateWindow, SwitchOsc, SwitchHttp, Reset, NewInterfaces, Failed,
       LeftSilent, OscOn, OscOff, HttpOn, HttpOff, SetWindowsOptions, SyncVisualParams,
       settings, toolBar
  <2>6. shown' = asked /\ (\A k \in Switches : On(k)' = On(k))
    BY <2>3, <2>4, <2>5 DEF JobInv, On, OptionsTypeOK
  <2> QED BY <2>1, <2>4, <2>6
<1>2. OptionsInv /\ OptionsInv' /\ [OptionsNext]_optionsVars =>
        [todo # {} /\ todo' = {} /\ status' = "shown" =>
           \A k \in Switches \ excused' : k \in shown' <=> k \in live']_optionsVars
  BY <1>1
<1> QED BY <1>2, InterfacesInvariant, PTL DEF OptionsSpec, AppliedIsShown

-----------------------------------------------------------------------------
(***************************************************************************)
(* As long as no answer to an earlier export is taken for its own, an       *)
(* export is named, shown and cancelled as itself, for any programs,        *)
(* targets and number of requests, shown or hidden.                         *)
(***************************************************************************)
----------------------------------------------------------------------------
(* The replies.                                                            *)

Replies == [kind : {"targets", "post", "get"}, id : Ids, what : Exports,
            connected : BOOLEAN, own : BOOLEAN]

NetOK == net \subseteq Replies /\ \A r, s \in net : r.id = s.id => r = s

LEMMA NewReply ==
  ASSUME NetOK, Free # {}, NEW kind \in {"targets", "post", "get"}, NEW what \in Exports
  PROVE  /\ NextId \in Ids
         /\ LET r == Sent(kind, NextId, what)
                new == net \cup {r}
            IN  /\ r.kind = kind /\ r.id = NextId /\ r.what = what /\ r.connected /\ r.own
                /\ \A s \in net : s.id # NextId
                /\ new \subseteq Replies
                /\ \A s, t \in new : s.id = t.id => s = t
  <1> DEFINE i == NextId
             r == Sent(kind, i, what)
             new == net \cup {r}
  <1>1. i \in Free
    BY DEF NextId
  <1> HIDE DEF i
  <1>2. i \in Ids /\ \A s \in net : s.id # i
    BY <1>1 DEF Free
  <1>3. r \in Replies /\ r.kind = kind /\ r.id = i /\ r.what = what /\ r.connected /\ r.own
    BY <1>2 DEF Sent, Replies
  <1> HIDE DEF r
  <1>4. \A s, t \in new : s.id = t.id => s = t
    BY <1>2, <1>3 DEF NetOK
  <1>5. new \subseteq Replies
    BY <1>3 DEF NetOK
  <1> QED BY <1>2, <1>3, <1>4, <1>5 DEF i, r

LEMMA DisconnectedReplies ==
  ASSUME NetOK, NEW id
  PROVE  LET new == Disconnected(id)
         IN  /\ new \subseteq Replies
             /\ \A s, t \in new : s.id = t.id => s = t
             /\ \A s \in new : s.connected => s \in net /\ s.id # id
             /\ \A r \in net : \E s \in new : s.id = r.id /\ s.kind = r.kind
  <1> DEFINE Off(r) == [r EXCEPT !.connected = FALSE]
             D(r) == IF r.id = id THEN Off(r) ELSE r
  <1>1. \A r \in net : /\ Off(r) \in Replies
                       /\ Off(r).id = r.id /\ Off(r).kind = r.kind /\ ~Off(r).connected
    BY DEF NetOK, Replies
  <1> HIDE DEF Off
  <1>2. \A r \in net : D(r) \in Replies /\ D(r).id = r.id /\ D(r).kind = r.kind
    BY <1>1 DEF NetOK
  <1>3. \A r \in net : D(r).connected => D(r) = r /\ r.id # id
    BY <1>1
  <1>4. Disconnected(id) = {D(r) : r \in net}
    BY DEF Disconnected, Off
  <1> HIDE DEF D
  <1>5. \A r, s \in net : D(r).id = D(s).id => D(r) = D(s)
    BY <1>2 DEF NetOK
  <1>6. Disconnected(id) \subseteq Replies
    BY <1>2, <1>4
  <1>7. \A s \in Disconnected(id) : s.connected => s \in net /\ s.id # id
    BY <1>3, <1>4
  <1>8. \A r \in net : \E s \in Disconnected(id) : s.id = r.id /\ s.kind = r.kind
    BY <1>2, <1>4
  <1>9. \A s, t \in Disconnected(id) : s.id = t.id => s = t
    BY <1>4, <1>5
  <1> QED BY <1>6, <1>7, <1>8, <1>9

(* The replies once another export has begun.                              *)
LEMMA EarlierReplies ==
  ASSUME NetOK
  PROVE  /\ Earlier \subseteq Replies
         /\ \A s, t \in Earlier : s.id = t.id => s = t
         /\ \A s \in Earlier : ~s.own /\ (s.kind = "targets" => \E r \in net :
               r.id = s.id /\ r.kind = s.kind /\ r.connected = s.connected)
         /\ \A s \in Earlier : \E r \in net : r.id = s.id
         /\ \A r \in net : \E s \in Earlier : s.id = r.id /\ s.kind = r.kind
  <1> DEFINE D(r) == [r EXCEPT !.own = FALSE]
  <1>1. \A r \in net : /\ D(r) \in Replies /\ ~D(r).own
                       /\ D(r).id = r.id /\ D(r).kind = r.kind /\ D(r).connected = r.connected
    BY DEF NetOK, Replies
  <1>2. Earlier = {D(r) : r \in net}
    BY DEF Earlier
  <1> HIDE DEF D
  <1>3. \A r, s \in net : D(r).id = D(s).id => D(r) = D(s)
    BY <1>1 DEF NetOK
  <1>4. \A s, t \in Earlier : s.id = t.id => s = t
    BY <1>2, <1>3
  <1>5. Earlier \subseteq Replies
    BY <1>1, <1>2
  <1> QED BY <1>1, <1>2, <1>4, <1>5

LEMMA FewerReplies ==
  ASSUME NetOK, NEW new \in SUBSET net
  PROVE  new \subseteq Replies /\ \A s, t \in new : s.id = t.id => s = t
  BY DEF NetOK

LEMMA ConstantsApart == NoExport \in Exports
  BY DEF NoExport, Exports

----------------------------------------------------------------------------
(* What every part of the invariant needs of an action that leaves the     *)
(* export alone.                                                           *)

LEMMA ExportUnchanged ==
  ASSUME ExportInv, ExportTypeOK', RepliesInv', Own' = Own, UNCHANGED dialogVars,
         saving # NoExport => chooser' = "closed"
  PROVE  ExportInv'
  BY DEF ExportInv, OwnInv, CancelledInv, SaveInv, SavingInv, OfferedIsNamed, StepsInOrder,
         dialogVars

(* FLTargetChooser: its requests are not those of an export.               *)
LEMMA ChooserKeepsIInv ==
  ASSUME ExportInv,
         \/ SendTargetRequest \/ CancelChooser \/ CloseChooser
         \/ \E t \in Targets : Choose(t)
         \/ \E r \in net, a \in {"list", "unreadable", "error"} :
               TargetsDescriptionReceived(r, a)
  PROVE  ExportInv'
  <1> USE DEF ExportInv
  <1>0. NetOK
    BY DEF ExportTypeOK, NetOK, Replies
  <1>1. CASE SendTargetRequest
    <2> DEFINE i == NextId
               r == Sent("targets", i, NoExport)
    <2>1. i \in Ids /\ r.kind = "targets" /\ net \cup {r} \subseteq Replies
          /\ \A s, t \in net \cup {r} : s.id = t.id => s = t
      BY <1>0, <1>1, NewReply, ConstantsApart DEF SendTargetRequest
    <2> HIDE DEF r, i
    <2>2. net' = net \cup {r} /\ targetReply' = i
      BY <1>1 DEF SendTargetRequest, r, i
    <2>3. ExportTypeOK'
      BY <1>1, <2>1, <2>2 DEF SendTargetRequest, ExportTypeOK, Replies, dialogVars
    <2>4. Own' = Own
      BY <2>1, <2>2 DEF Own
    <2>6. r.connected /\ r.id = i
      BY DEF Sent, r
    <2>5. RepliesInv'
      BY <1>1, <2>1, <2>2, <2>6 DEF SendTargetRequest, RepliesInv, PointsTo, dialogVars
    <2> QED BY <1>1, <2>3, <2>4, <2>5, ExportUnchanged DEF SendTargetRequest, NoModal
  <1>2. CASE CancelChooser
    <2>1. net' \in SUBSET net
      BY <1>2 DEF CancelChooser
    <2>2. ExportTypeOK'
      BY <1>0, <1>2, <2>1, FewerReplies DEF CancelChooser, ExportTypeOK, Replies, dialogVars
    <2>3. \A r \in net : r.id = targetReply => r.kind = "targets"
      <3>1. \A r \in net : r.id \in Ids
        BY <1>0 DEF NetOK, Replies
      <3>2. None \notin Ids
        BY ExportManagerAssumption DEF Ids
      <3> QED BY <1>0, <3>1, <3>2 DEF NetOK, RepliesInv, PointsTo
    <2>4. net' = {r \in net : r.id # targetReply} /\ targetReply' = None
      BY <1>2 DEF CancelChooser
    <2>5. Own' = Own
      BY <2>3, <2>4 DEF Own
    <2>6. RepliesInv'
      BY <2>3, <2>4, <1>2 DEF CancelChooser, RepliesInv, PointsTo, dialogVars
    <2> QED BY <1>2, <2>2, <2>5, <2>6, ExportUnchanged DEF CancelChooser
  <1>3. CASE CloseChooser
    <2>1. ExportTypeOK'
      BY <1>3 DEF CloseChooser, ExportTypeOK, dialogVars
    <2>2. Own' = Own
      BY <1>3 DEF CloseChooser, Own
    <2>3. RepliesInv'
      BY <1>3 DEF CloseChooser, RepliesInv, PointsTo, dialogVars
    <2>4. UNCHANGED dialogVars /\ chooser' = "closed"
      BY <1>3 DEF CloseChooser
    <2> QED BY <2>1, <2>2, <2>3, <2>4, ExportUnchanged
  <1>4. ASSUME NEW t \in Targets, Choose(t) PROVE ExportInv'
    <2>1. ExportTypeOK'
      BY <1>4 DEF Choose, ExportTypeOK, dialogVars
    <2>2. Own' = Own
      BY <1>4 DEF Choose, Own
    <2>3. saving = NoExport
      BY <1>4 DEF Choose, SavingInv
    <2>4. RepliesInv'
      BY <1>4 DEF Choose, RepliesInv, PointsTo, dialogVars
    <2> QED BY <1>4, <2>1, <2>2, <2>3, <2>4, ExportUnchanged DEF Choose
  <1>5. ASSUME NEW r \in net, NEW a \in {"list", "unreadable", "error"},
               TargetsDescriptionReceived(r, a)
        PROVE  ExportInv'
    <2>1. net' = net \ {r} /\ net' \in SUBSET net
      BY <1>5 DEF TargetsDescriptionReceived
    <2>2. choice' \in Targets \cup {None} /\ listed' \in BOOLEAN
      BY <1>5, ExportManagerAssumption DEF TargetsDescriptionReceived, ExportTypeOK
    <2>3. ExportTypeOK'
      BY <1>0, <1>5, <2>1, <2>2, FewerReplies
      DEF TargetsDescriptionReceived, ExportTypeOK, Replies, dialogVars
    <2>4. Own' = Own
      BY <1>5, <2>1 DEF TargetsDescriptionReceived, Own
    <2>5. UNCHANGED dialogVars /\ (saving # NoExport => chooser' = "closed")
      BY <1>5 DEF TargetsDescriptionReceived, SavingInv
    <2>6. RepliesInv'
      BY <1>5, <2>1 DEF TargetsDescriptionReceived, RepliesInv, PointsTo, dialogVars
    <2> QED BY <2>3, <2>4, <2>5, <2>6, ExportUnchanged
  <1> QED BY <1>1, <1>2, <1>3, <1>4, <1>5

----------------------------------------------------------------------------
(* FLExportManager.                                                        *)

(* Of the replies under way only the new one is that of the export.        *)
LEMMA ExportFileKeepsIInv ==
  ASSUME ExportInv, NEW code \in Codes, ExportFile(code)
  PROVE  ExportInv'
  <1> USE DEF ExportInv
  <1> DEFINE i == NextId
             e == [code |-> code, target |-> choice]
             r == Sent("post", i, e)
  <1>1. e \in Exports
    BY DEF Exports, ExportTypeOK
  <1>2. NetOK
    BY DEF ExportTypeOK, NetOK, Replies
  <1>3. /\ i \in Ids /\ r.kind = "post" /\ r.id = i /\ r.what = e
        /\ r.connected /\ r.own /\ r \in Replies
        /\ \A s \in net : s.id # i
    BY <1>1, <1>2, NewReply DEF ExportFile
  <1>4. net' = Earlier \cup {r} /\ postReply' = i /\ current' = e
    BY DEF ExportFile
  <1> HIDE DEF i, r, e
  <1>5. ExportTypeOK'
    <2>1. /\ step' = 1 /\ chooser' = "closed" /\ last' = choice /\ visible' = TRUE
          /\ check1' = "none" /\ check2' = "none" /\ save' = FALSE
          /\ cancelled' = FALSE /\ strayed' = FALSE
          /\ UNCHANGED <<listed, choice, targetReply, getReply, data, saving>>
      BY DEF ExportFile
    <2>2. /\ net' \subseteq Replies
          /\ \A s, t \in net' : s.id = t.id => s = t
      BY <1>2, <1>3, <1>4, EarlierReplies
    <2> QED BY <1>1, <1>3, <1>4, <2>1, <2>2 DEF ExportTypeOK, Replies
  <1>6. Own' = {r}
    <2>1. Own' = {s \in Earlier \cup {r} : s.connected /\ s.kind # "targets" /\ s.own}
      BY <1>4 DEF Own
    <2> QED BY <1>2, <1>3, <2>1, EarlierReplies
  <1>7. OwnInv'
    BY <1>3, <1>4, <1>6 DEF ExportFile, OwnInv
  <1>8. saving' = NoExport
    BY DEF ExportFile, SavingInv
  <1>9. RepliesInv'
    <2>1. UNCHANGED <<targetReply, getReply>> /\ postReply' = i
      BY <1>4 DEF ExportFile
    <2>2. \A s \in net' : s.kind = "targets" => s.connected
      BY <1>2, <1>3, <1>4, EarlierReplies DEF RepliesInv
    <2>3. \A q \in net : \E s \in net' : s.id = q.id /\ s.kind = q.kind
      BY <1>2, <1>4, EarlierReplies
    <2>4. r \in net'
      BY <1>4
    <2> QED BY <1>3, <2>1, <2>2, <2>3, <2>4 DEF RepliesInv, PointsTo
  <1>10. CancelledInv' /\ SaveInv' /\ OfferedIsNamed' /\ StepsInOrder'
    BY DEF ExportFile, CancelledInv, SaveInv, OfferedIsNamed, StepsInOrder
  <1> QED BY <1>5, <1>7, <1>8, <1>9, <1>10 DEF SavingInv

LEMMA CancelExportKeepsIInv ==
  ASSUME ExportInv, CancelExport
  PROVE  ExportInv'
  <1> USE DEF ExportInv
  <1>1. NetOK
    BY DEF ExportTypeOK, NetOK, Replies
  <1>2. /\ net' \subseteq Replies
        /\ \A s, t \in net' : s.id = t.id => s = t
        /\ \A s \in net' : s.connected => s \in net
        /\ \A r \in net : \E s \in net' : s.id = r.id /\ s.kind = r.kind
        /\ \A s \in net' : s.kind = "targets" => s.connected
    <2>1. CASE net' = net
      BY <1>1, <2>1 DEF NetOK, RepliesInv
    <2>2. ASSUME NEW id \in {postReply, getReply}, net' = Disconnected(id) PROVE <1>2
      <3>1. \A r \in net : r.id = id => r.kind # "targets"
        <4>1. \A r \in net : r.id # None
          BY ExportManagerAssumption DEF ExportTypeOK, Ids
        <4> QED BY <1>1, <4>1 DEF NetOK, RepliesInv, PointsTo
      <3>2. \A s \in net' : s.kind = "targets" => s.connected
        <4> TAKE s \in net'
        <4>1. PICK r \in net : s = IF r.id = id THEN [r EXCEPT !.connected = FALSE] ELSE r
          BY <2>2 DEF Disconnected
        <4>2. [r EXCEPT !.connected = FALSE].kind = r.kind
          BY DEF ExportTypeOK
        <4> QED BY <3>1, <4>1, <4>2 DEF RepliesInv
      <3> QED BY <1>1, <2>2, <3>2, DisconnectedReplies
    <2> QED BY <2>1, <2>2 DEF CancelExport
  <1>3. ExportTypeOK'
    <2>1. UNCHANGED <<chooserVars, step, current, postReply, getReply, check1, check2, save,
                      data, saving, strayed>> /\ visible' = FALSE /\ cancelled' = TRUE
      BY DEF CancelExport
    <2> QED BY <1>2, <2>1 DEF ExportTypeOK, Replies, chooserVars
  <1>4. Own' \subseteq Own
    BY <1>2 DEF Own
  <1>5. ~strayed => Own' = {}
    <2> SUFFICES ASSUME ~strayed, NEW r \in Own' PROVE FALSE
      OBVIOUS
    <2>1. r \in Own /\ r \in net' /\ r.connected /\ r.kind \in {"post", "get"}
      BY <1>2, <1>4 DEF Own, Replies
    <2>2. \/ step = 1 /\ postReply = r.id
          \/ step = 3 /\ getReply = r.id
      BY <2>1 DEF OwnInv
    <2>3. net' = Disconnected(r.id)
      BY <2>2 DEF CancelExport
    <2> QED BY <1>1, <2>1, <2>3, DisconnectedReplies
  <1>6. OwnInv' /\ CancelledInv'
    BY <1>5 DEF CancelExport, OwnInv, CancelledInv
  <1>7. RepliesInv'
    BY <1>2 DEF CancelExport, RepliesInv, PointsTo, chooserVars
  <1> QED BY <1>3, <1>6, <1>7
          DEF CancelExport, SaveInv, SavingInv, OfferedIsNamed, StepsInOrder, NoModal

(* The escape key touches nothing that the invariant reads.                *)
LEMMA EscapeExportKeepsIInv ==
  ASSUME ExportInv, EscapeExport
  PROVE  ExportInv'
  <1> USE DEF ExportInv
  <1>1. Own' = Own
    BY DEF EscapeExport, Own
  <1>2. UNCHANGED <<net, chooserVars, step, current, postReply, getReply, check1, check2, save,
                    data, saving, cancelled, strayed>> /\ visible' = FALSE
    BY DEF EscapeExport
  <1>3. ExportTypeOK'
    BY <1>2 DEF ExportTypeOK, chooserVars
  <1>4. OwnInv' /\ CancelledInv'
    BY <1>1, <1>2 DEF OwnInv, CancelledInv
  <1>5. RepliesInv' /\ SavingInv'
    BY <1>2 DEF RepliesInv, PointsTo, SavingInv, chooserVars
  <1>6. SaveInv' /\ OfferedIsNamed' /\ StepsInOrder'
    BY <1>2 DEF SaveInv, OfferedIsNamed, StepsInOrder
  <1> QED BY <1>3, <1>4, <1>5, <1>6

(* The answers, connected or not.                                          *)
(* The pointers to other replies than the one that is answered.            *)
LEMMA RepliesStay ==
  ASSUME ExportInv, NEW r \in net, r.kind # "targets", net' = net \ {r},
         targetReply' = targetReply,
         postReply' = None \/ (postReply' = postReply /\ (r.kind # "post" \/ r.id # postReply)),
         getReply' = None \/ (getReply' = getReply /\ (r.kind # "get" \/ r.id # getReply))
  PROVE  RepliesInv'
  BY DEF ExportInv, RepliesInv, PointsTo

LEMMA OwnAlone ==
  ASSUME ExportInv, ~strayed, NEW r \in net, r.connected, r.kind # "targets", r.own
  PROVE  /\ Own = {r} /\ r.what = current
         /\ r.kind = "post" => step = 1 /\ check1 = "none" /\ check2 = "none"
         /\ r.kind = "get" => step = 3 /\ check1 = "ok" /\ check2 = "none"
         /\ ~cancelled /\ ~save
  BY DEF ExportInv, OwnInv, CancelledInv, SaveInv, Own, ExportTypeOK

LEMMA ReadKeyKeepsIInv ==
  ASSUME ExportInv, NEW r \in net, r.connected, ReadKey(r)
  PROVE  ExportInv'
  <1> USE DEF ExportInv
  <1> DEFINE e == [r.what EXCEPT !.target = current.target]
             g == [r EXCEPT !.kind = "get", !.what = e]
  <1>1. r \in Replies /\ r.kind = "post" /\ r.id \in Ids /\ r.what \in Exports
        /\ current \in Exports
    BY DEF ReadKey, ExportTypeOK, Replies
  <1>2. e \in Exports /\ (r.what = current => e = current)
    BY <1>1 DEF Exports
  <1> HIDE DEF e
  <1>3. g \in Replies /\ g.kind = "get" /\ g.id = r.id /\ g.what = e /\ g.connected
        /\ g.own = r.own
    BY <1>1, <1>2 DEF Replies
  <1>4. net' = (net \ {r}) \cup {g}
    BY DEF ReadKey, e
  <1> HIDE DEF g
  <1>5. net' \subseteq Replies /\ \A s, t \in net' : s.id = t.id => s = t
    BY <1>3, <1>4 DEF ExportTypeOK, Replies
  <1>6. ExportTypeOK'
    BY <1>1, <1>5 DEF ReadKey, Heard, ExportTypeOK, Replies, chooserVars
  <1>7. RepliesInv'
    BY <1>1, <1>3, <1>4 DEF ReadKey, chooserVars, RepliesInv, PointsTo
  <1>13. ~strayed' => ~strayed /\ r.own
    BY DEF ReadKey, Heard
  <1>8. ASSUME ~strayed' PROVE Own' = {g}
    <2>1. Own' = {s \in (net \ {r}) \cup {g} : s.connected /\ s.kind # "targets" /\ s.own}
      BY <1>4 DEF Own
    <2>2. Own = {r}
      BY <1>1, <1>8, <1>13, OwnAlone
    <2> QED BY <1>3, <1>8, <1>13, <2>1, <2>2 DEF Own
  <1>9. ASSUME ~strayed' PROVE current' = g.what /\ step' = 3 /\ getReply' = g.id /\ check1' = "ok"
                               /\ check2' = "none" /\ ~cancelled' /\ ~save'
    BY <1>1, <1>2, <1>3, <1>9, <1>13, OwnAlone DEF ReadKey, Heard
  <1>10. OwnInv'
    BY <1>3, <1>8, <1>9 DEF ReadKey, OwnInv
  <1>11. SavingInv'
    BY DEF ReadKey, SavingInv, chooserVars
  <1>12. CancelledInv' /\ SaveInv' /\ OfferedIsNamed' /\ StepsInOrder'
    BY <1>9 DEF ReadKey, CancelledInv, SaveInv, OfferedIsNamed, StepsInOrder
  <1> QED BY <1>6, <1>7, <1>10, <1>11, <1>12

(* The last answer of an export: nothing can be answered after it.         *)
LEMMA LastAnswerKeepsIInv ==
  ASSUME ExportInv, NEW r \in net, r.connected, r.kind # "targets",
         net' = net \ {r}, UNCHANGED <<chooserVars, step, current, visible, saving>>, Heard(r),
         IF r.kind = "post" THEN postReply' = None /\ getReply' = getReply
                            ELSE postReply' = postReply /\ getReply' = None,
         \/ r.kind = "get" /\ data' = r.what /\ check2' = "ok" /\ save' = TRUE
            /\ UNCHANGED check1
         \/ /\ step = 1 /\ check1' = "error" /\ UNCHANGED <<check2, data, save>>
         \/ /\ step # 1 /\ check2' = "error" /\ UNCHANGED <<check1, data, save>>
  PROVE  ExportInv'
  <1> USE DEF ExportInv
  <1>6. r.kind \in {"post", "get"}
    BY DEF ExportTypeOK
  <1>1. ExportTypeOK'
    BY DEF ExportTypeOK, Heard, chooserVars
  <1>2. RepliesInv'
    <2>1. /\ targetReply' = targetReply
          /\ postReply' = None \/ (postReply' = postReply /\ r.kind # "post")
          /\ getReply' = None \/ (getReply' = getReply /\ r.kind # "get")
      BY <1>6 DEF chooserVars
    <2> QED BY <2>1, RepliesStay
  <1>8. ~strayed' => ~strayed /\ r.own
    BY DEF Heard
  <1>3. ASSUME ~strayed' PROVE Own' = {}
    BY <1>3, <1>8, OwnAlone DEF Own
  <1>4. OwnInv' /\ CancelledInv'
    BY <1>3 DEF OwnInv, CancelledInv
  <1>5. SavingInv'
    BY DEF SavingInv, chooserVars
  <1>7. SaveInv' /\ OfferedIsNamed' /\ StepsInOrder'
    BY <1>6, <1>8, OwnAlone DEF SaveInv, OfferedIsNamed, StepsInOrder
  <1> QED BY <1>1, <1>2, <1>4, <1>5, <1>7

LEMMA UnheardKeepsIInv ==
  ASSUME ExportInv, NEW r \in net, Unheard(r)
  PROVE  ExportInv'
  <1> USE DEF ExportInv
  <1>1. Own' = Own
    BY DEF Unheard, Own
  <1>2. ExportTypeOK'
    BY DEF Unheard, ExportTypeOK, chooserVars
  <1>3. \A s \in Own : s.id # r.id
    BY DEF Unheard, Own, ExportTypeOK
  <1>4. OwnInv'
    BY <1>1, <1>3 DEF Unheard, OwnInv
  <1>5. r.kind # "targets"
    BY DEF Unheard, RepliesInv
  <1>6. RepliesInv'
    <2>1. /\ targetReply' = targetReply /\ net' = net \ {r}
          /\ postReply' = None \/ (postReply' = postReply /\ r.id # postReply)
          /\ getReply' = None \/ (getReply' = getReply /\ r.id # getReply)
      BY DEF Unheard, chooserVars
    <2> QED BY <1>5, <2>1, RepliesStay
  <1> QED BY <1>1, <1>2, <1>4, <1>6
          DEF Unheard, chooserVars, CancelledInv, SaveInv, SavingInv, OfferedIsNamed, StepsInOrder

LEMMA SaveKeepsIInv ==
  ASSUME ExportInv, AskName \/ WriteFile
  PROVE  ExportInv'
  <1> USE DEF ExportInv
  <1>0. UNCHANGED <<net, chooserVars, step, current, postReply, getReply, check1, check2, save,
                    data, cancelled, strayed>>
        /\ saving' \in {current, NoExport} /\ visible' \in BOOLEAN
    BY DEF AskName, WriteFile, ExportTypeOK
  <1>1. Own' = Own /\ ExportTypeOK' /\ RepliesInv'
    <2>1. Own' = Own
      BY <1>0 DEF Own
    <2>2. ExportTypeOK'
      BY <1>0, ConstantsApart DEF ExportTypeOK, chooserVars
    <2>3. RepliesInv'
      BY <1>0 DEF RepliesInv, PointsTo, chooserVars
    <2> QED BY <2>1, <2>2, <2>3
  <1>2. OwnInv' /\ SaveInv' /\ OfferedIsNamed' /\ StepsInOrder'
    BY <1>1 DEF AskName, WriteFile, OwnInv, SaveInv, OfferedIsNamed, StepsInOrder
  <1>3. SavingInv'
    BY DEF AskName, WriteFile, SavingInv, NoModal, chooserVars
  <1> QED BY <1>1, <1>2, <1>3 DEF AskName, WriteFile, CancelledInv

----------------------------------------------------------------------------
(* The invariant.                                                          *)

LEMMA InitIInv == ExportInit => ExportInv
  <1> SUFFICES ASSUME ExportInit PROVE ExportInv
    OBVIOUS
  <1>1. ExportTypeOK
    BY ConstantsApart DEF ExportInit, ExportTypeOK
  <1> QED BY <1>1
          DEF ExportInit, ExportInv, OwnInv, CancelledInv, SaveInv, SavingInv, RepliesInv, PointsTo,
              OfferedIsNamed, StepsInOrder, Own

LEMMA NextKeepsIInv == ExportInv /\ [ExportNext]_exportVars => ExportInv'
  <1> SUFFICES ASSUME ExportInv, [ExportNext]_exportVars PROVE ExportInv'
    OBVIOUS
  <1>1. ASSUME NEW r \in net, Answered(r) PROVE ExportInv'
    <2>1. CASE Unheard(r)
      BY <2>1, UnheardKeepsIInv
    <2>2. CASE r.connected /\ \E a \in {"list", "unreadable", "error"} :
                                 TargetsDescriptionReceived(r, a)
      BY <2>2, ChooserKeepsIInv
    <2>3. CASE r.connected /\ ReadKey(r)
      BY <2>3, ReadKeyKeepsIInv
    <2>4. CASE r.connected /\ ShowSaveB(r)
      <3>1. postReply \in Ids \cup {None}
        BY DEF ExportInv, ExportTypeOK
      <3> QED BY <2>4, <3>1, LastAnswerKeepsIInv DEF ShowSaveB
    <2>5. CASE r.connected /\ NetworkError(r)
      <3>1. {postReply, getReply} \subseteq Ids \cup {None}
        BY DEF ExportInv, ExportTypeOK
      <3> QED BY <2>5, <3>1, LastAnswerKeepsIInv DEF NetworkError
    <2> QED BY <1>1, <2>1, <2>2, <2>3, <2>4, <2>5 DEF Answered
  <1>2. CASE UNCHANGED exportVars
    BY <1>2 DEF exportVars, chooserVars, dialogVars, ExportInv, ExportTypeOK, OwnInv, CancelledInv, SaveInv,
                SavingInv, RepliesInv, PointsTo, OfferedIsNamed, StepsInOrder, Own
  <1> QED BY <1>1, <1>2, ChooserKeepsIInv, ExportFileKeepsIInv, CancelExportKeepsIInv,
             EscapeExportKeepsIInv, SaveKeepsIInv
          DEF ExportNext

(* In every state, as long as no answer to an earlier export has come, the *)
(* dialog tells of its own export, whose reply is the one it waits for.    *)
THEOREM ExportInvariant == ExportSpec => []ExportInv
  <1> QED BY InitIInv, NextKeepsIInv, PTL DEF ExportSpec

(* The file offered is that of the program and target it is named after,   *)
(* unless an answer to an earlier export was taken for its own.            *)
THEOREM OfferedIsAlwaysNamed == ExportSpec => []OfferedIsNamed
  <1>1. ExportInv => OfferedIsNamed
    BY DEF ExportInv
  <1> QED BY <1>1, ExportInvariant, PTL

(* The file written is that of the name that was asked for, unless an      *)
(* answer to an earlier export was taken for its own.                      *)
THEOREM WrittenIsAlwaysNamed == ExportSpec => WrittenIsNamed
  <1>1. ExportInv /\ [ExportNext]_exportVars => [WriteFile /\ ~strayed => data = saving]_exportVars
    BY DEF ExportInv, WriteFile, SavingInv, OfferedIsNamed
  <1> QED BY <1>1, ExportInvariant, PTL DEF ExportSpec, WrittenIsNamed

(* An export that was cancelled with the button or the box is not heard of *)
(* any more: only an answer to an earlier one changes the dialog.          *)
THEOREM CancelledIsAlwaysSilent == ExportSpec => CancelledIsSilent
  <1> DEFINE Silent == UNCHANGED <<step, current, check1, check2, save, data>>
  <1>1. ASSUME ExportInv, ExportNext, cancelled, cancelled', ~strayed' PROVE Silent
    <2>2. ASSUME NEW r \in net, Answered(r) PROVE Silent
      <3>1. CASE Unheard(r)
        BY <3>1 DEF Unheard
      <3>2. CASE \E a \in {"list", "unreadable", "error"} : TargetsDescriptionReceived(r, a)
        BY <3>2 DEF TargetsDescriptionReceived, dialogVars
      <3>3. CASE r.connected /\ (ReadKey(r) \/ ShowSaveB(r) \/ NetworkError(r))
        <4>1. r.kind # "targets" /\ Heard(r)
          BY <3>3 DEF ReadKey, ShowSaveB, NetworkError
        <4>2. ~strayed /\ r.own
          BY <1>1, <4>1 DEF Heard
        <4> QED BY <1>1, <3>3, <4>1, <4>2, OwnAlone
      <3> QED BY <2>2, <3>1, <3>2, <3>3 DEF Answered
    <2>3. CASE SendTargetRequest \/ CancelChooser \/ CloseChooser \/ \E t \in Targets : Choose(t)
      BY <2>3 DEF SendTargetRequest, CancelChooser, CloseChooser, Choose, dialogVars
    <2>4. ASSUME NEW code \in Codes, ExportFile(code) PROVE FALSE
      BY <1>1, <2>4 DEF ExportFile
    <2>5. CASE CancelExport \/ EscapeExport \/ AskName \/ WriteFile
      BY <2>5 DEF CancelExport, EscapeExport, AskName, WriteFile
    <2> QED BY <1>1, <2>2, <2>3, <2>4, <2>5 DEF ExportNext
  <1>2. ExportInv /\ [ExportNext]_exportVars =>
          [cancelled /\ cancelled' /\ ~strayed' =>
             UNCHANGED <<step, current, check1, check2, save, data>>]_exportVars
    BY <1>1
  <1> QED BY <1>2, ExportInvariant, PTL DEF ExportSpec, CancelledIsSilent

=============================================================================
