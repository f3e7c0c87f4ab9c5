----------------------- MODULE StreamFader_proofs -----------------------
(***************************************************************************)
(* The invariant of StreamFader is inductive, for any set of DSPs, length   *)
(* of fade and size of buffer.  One lemma for each part, with one step for  *)
(* each action.                                                             *)
(***************************************************************************)
EXTENDS StreamFader, TLAPS

\* One buffer lowers a gain that is not zero yet.
LEMMA LessLowers ==
  ASSUME NEW gain \in 0 .. FadeLength
  PROVE  /\ Less(gain) \in 0 .. FadeLength
         /\ gain > 0 => Less(gain) < gain
         /\ gain - Less(gain) \in 0 .. BufferSize
  BY StreamFaderAssumption DEF StreamFaderAssumption, Less

\* The invariant holds at the beginning.
LEMMA InitIInv == Init => IInv
<1> SUFFICES ASSUME Init PROVE IInv
  OBVIOUS
<1> USE StreamFaderAssumption DEF StreamFaderAssumption, Init
<1>1. TypeOK
  <2>1. fOutCoef \in [DSPs -> 0 .. FadeLength] /\ fInCoef \in [DSPs -> 1 .. FadeLength]
    OBVIOUS
  <2>2. render \in [DSPs -> RenderPoints] /\ level \in [DSPs -> 0 .. FadeLength]
    BY DEF RenderPoints
  <2> QED
    BY <2>1, <2>2 DEF TypeOK, GuiPoints
<1>2. GuiInv
  BY DEF GuiInv, Updating
<1>3. DeadInv
  BY DEF DeadInv
<1>4. OutInv
  BY DEF OutInv, FadingOut
<1>5. CutInv
  BY DEF CutInv
<1>6. LevelInv
  BY DEF LevelInv, NotLaunched, Live
<1> QED
  BY <1>1, <1>2, <1>3, <1>4, <1>5, <1>6 DEF IInv

\* A step keeps the types.
LEMMA TypeStep ==
  ASSUME TypeOK, GuiInv, [Next]_vars
  PROVE  TypeOK'
<1> USE StreamFaderAssumption DEF StreamFaderAssumption, TypeOK, GuiPoints, RenderPoints, GuiInv, Updating
<1>1. CASE UNCHANGED vars
  BY <1>1 DEF vars, manager, flags, callback, ghosts
<1>2. ASSUME NEW d \in DSPs, OpenWindow(d)
      PROVE  TypeOK'
  BY <1>2 DEF OpenWindow, manager, flags, callback, ghosts
<1>3. ASSUME NEW d \in DSPs, InitFade(d)
      PROVE  TypeOK'
  BY <1>3 DEF InitFade, manager, flags, callback, ghosts
<1>4. CASE LaunchFadeIn
  BY <1>4 DEF LaunchFadeIn, manager, flags, callback, ghosts
<1>5. CASE LaunchFadeOut
  BY <1>5 DEF LaunchFadeOut, manager, flags, callback, ghosts
<1>6. CASE StartFadeIn
  BY <1>6 DEF StartFadeIn, manager, flags, callback, ghosts
<1>7. CASE SeeEndOfFade
  BY <1>7 DEF SeeEndOfFade, manager, flags, callback, ghosts
<1>8. CASE ForceIn
  BY <1>8 DEF ForceIn, manager, flags, callback, ghosts
<1>9. CASE ForceOut
  BY <1>9 DEF ForceOut, manager, flags, callback, ghosts
<1>10. CASE StopOld
  BY <1>10 DEF StopOld, manager, flags, callback, ghosts
<1>11. CASE DeleteOldFader
  <2>1. fCurrentAudio \in DSPs
    BY <1>11 DEF DeleteOldFader
  <2>2. /\ fOutCoef' \in [DSPs -> 0 .. FadeLength] /\ fInCoef' \in [DSPs -> 1 .. FadeLength]
        /\ level' \in [DSPs -> 0 .. FadeLength]
    BY <1>11, <2>1 DEF DeleteOldFader, ResetValues
  <2> QED
    BY <1>11, <2>1, <2>2 DEF DeleteOldFader, ResetValues
<1>12. CASE DeleteOldDSP
  BY <1>12 DEF DeleteOldDSP, manager, flags, callback, ghosts
<1>13. CASE StopAudio
  BY <1>13 DEF StopAudio, manager, flags, callback, ghosts
<1>14. CASE CloseWindow
  <2>1. fCurrentAudio \in DSPs
    BY <1>14 DEF CloseWindow
  <2>2. /\ fOutCoef' \in [DSPs -> 0 .. FadeLength] /\ fInCoef' \in [DSPs -> 1 .. FadeLength]
        /\ level' \in [DSPs -> 0 .. FadeLength]
    BY <1>14, <2>1 DEF CloseWindow, ResetValues
  <2> QED
    BY <1>14, <2>1, <2>2 DEF CloseWindow, ResetValues
<1>15. ASSUME NEW d \in DSPs, Compute(d)
      PROVE  TypeOK'
  BY <1>15 DEF Compute, manager, flags, callback, ghosts
<1>16. ASSUME NEW d \in DSPs, TestFadeOut(d)
      PROVE  TypeOK'
  BY <1>16 DEF TestFadeOut, manager, flags, callback, ghosts
<1>17. ASSUME NEW d \in DSPs, FadeOut(d)
      PROVE  TypeOK'
  BY <1>17 DEF FadeOut, manager, flags, callback, ghosts, Less
<1>18. ASSUME NEW d \in DSPs, TestFadeIn(d)
      PROVE  TypeOK'
  BY <1>18 DEF TestFadeIn, manager, flags, callback, ghosts
<1>19. ASSUME NEW d \in DSPs, FadeIn(d)
      PROVE  TypeOK'
  BY <1>19 DEF FadeIn, manager, flags, callback, ghosts, Less
<1> QED
  BY <1>1, <1>2, <1>3, <1>4, <1>5, <1>6, <1>7, <1>8, <1>9, <1>10, <1>11, <1>12, <1>13, <1>14, <1>15, <1>16, <1>17, <1>18, <1>19 DEF Next, UpdateSteps, Stream

\* A step keeps what the window holds.
LEMMA GuiStep ==
  ASSUME TypeOK, GuiInv, DeadInv, [Next]_vars
  PROVE  GuiInv'
<1> USE StreamFaderAssumption DEF StreamFaderAssumption, TypeOK, GuiPoints, RenderPoints, GuiInv, DeadInv, Live, Updating
<1>1. CASE UNCHANGED vars
  BY <1>1 DEF vars, manager, flags, callback, ghosts
<1>2. ASSUME NEW d \in DSPs, OpenWindow(d)
      PROVE  GuiInv'
  BY <1>2 DEF OpenWindow, manager, flags, callback, ghosts
<1>3. ASSUME NEW d \in DSPs, InitFade(d)
      PROVE  GuiInv'
  BY <1>3 DEF InitFade, manager, flags, callback, ghosts
<1>4. CASE LaunchFadeIn
  BY <1>4 DEF LaunchFadeIn, manager, flags, callback, ghosts
<1>5. CASE LaunchFadeOut
  BY <1>5 DEF LaunchFadeOut, manager, flags, callback, ghosts
<1>6. CASE StartFadeIn
  BY <1>6 DEF StartFadeIn, manager, flags, callback, ghosts
<1>7. CASE SeeEndOfFade
  BY <1>7 DEF SeeEndOfFade, manager, flags, callback, ghosts
<1>8. CASE ForceIn
  BY <1>8 DEF ForceIn, manager, flags, callback, ghosts
<1>9. CASE ForceOut
  BY <1>9 DEF ForceOut, manager, flags, callback, ghosts
<1>10. CASE StopOld
  BY <1>10 DEF StopOld, manager, flags, callback, ghosts
<1>11. CASE DeleteOldFader
  BY <1>11 DEF DeleteOldFader, manager, flags, callback, ghosts, ResetValues
<1>12. CASE DeleteOldDSP
  BY <1>12 DEF DeleteOldDSP, manager, flags, callback, ghosts
<1>13. CASE StopAudio
  BY <1>13 DEF StopAudio, manager, flags, callback, ghosts
<1>14. CASE CloseWindow
  BY <1>14 DEF CloseWindow, manager, flags, callback, ghosts, ResetValues
<1>15. ASSUME NEW d \in DSPs, Compute(d)
      PROVE  GuiInv'
  BY <1>15 DEF Compute, manager, flags, callback, ghosts
<1>16. ASSUME NEW d \in DSPs, TestFadeOut(d)
      PROVE  GuiInv'
  BY <1>16 DEF TestFadeOut, manager, flags, callback, ghosts
<1>17. ASSUME NEW d \in DSPs, FadeOut(d)
      PROVE  GuiInv'
  BY <1>17 DEF FadeOut, manager, flags, callback, ghosts
<1>18. ASSUME NEW d \in DSPs, TestFadeIn(d)
      PROVE  GuiInv'
  BY <1>18 DEF TestFadeIn, manager, flags, callback, ghosts
<1>19. ASSUME NEW d \in DSPs, FadeIn(d)
      PROVE  GuiInv'
  BY <1>19 DEF FadeIn, manager, flags, callback, ghosts
<1> QED
  BY <1>1, <1>2, <1>3, <1>4, <1>5, <1>6, <1>7, <1>8, <1>9, <1>10, <1>11, <1>12, <1>13, <1>14, <1>15, <1>16, <1>17, <1>18, <1>19 DEF Next, UpdateSteps, Stream

\* A step leaves the faders that are not there as new.
LEMMA DeadStep ==
  ASSUME TypeOK, GuiInv, DeadInv, [Next]_vars
  PROVE  DeadInv'
<1> USE StreamFaderAssumption DEF StreamFaderAssumption, TypeOK, GuiPoints, RenderPoints, GuiInv, DeadInv, Live, Updating
<1>1. CASE UNCHANGED vars
  BY <1>1 DEF vars, manager, flags, callback, ghosts
<1>2. ASSUME NEW d \in DSPs, OpenWindow(d)
      PROVE  DeadInv'
  BY <1>2 DEF OpenWindow, manager, flags, callback, ghosts
<1>3. ASSUME NEW d \in DSPs, InitFade(d)
      PROVE  DeadInv'
  BY <1>3 DEF InitFade, manager, flags, callback, ghosts
<1>4. CASE LaunchFadeIn
  BY <1>4 DEF LaunchFadeIn, manager, flags, callback, ghosts
<1>5. CASE LaunchFadeOut
  BY <1>5 DEF LaunchFadeOut, manager, flags, callback, ghosts
<1>6. CASE StartFadeIn
  BY <1>6 DEF StartFadeIn, manager, flags, callback, ghosts
<1>7. CASE SeeEndOfFade
  BY <1>7 DEF SeeEndOfFade, manager, flags, callback, ghosts
<1>8. CASE ForceIn
  BY <1>8 DEF ForceIn, manager, flags, callback, ghosts
<1>9. CASE ForceOut
  BY <1>9 DEF ForceOut, manager, flags, callback, ghosts
<1>10. CASE StopOld
  BY <1>10 DEF StopOld, manager, flags, callback, ghosts
<1>11. CASE DeleteOldFader
  BY <1>11 DEF DeleteOldFader, manager, flags, callback, ghosts, ResetValues
<1>12. CASE DeleteOldDSP
  BY <1>12 DEF DeleteOldDSP, manager, flags, callback, ghosts
<1>13. CASE StopAudio
  BY <1>13 DEF StopAudio, manager, flags, callback, ghosts
<1>14. CASE CloseWindow
  BY <1>14 DEF CloseWindow, manager, flags, callback, ghosts, ResetValues
<1>15. ASSUME NEW d \in DSPs, Compute(d)
      PROVE  DeadInv'
  BY <1>15 DEF Compute, manager, flags, callback, ghosts
<1>16. ASSUME NEW d \in DSPs, TestFadeOut(d)
      PROVE  DeadInv'
  BY <1>16 DEF TestFadeOut, manager, flags, callback, ghosts
<1>17. ASSUME NEW d \in DSPs, FadeOut(d)
      PROVE  DeadInv'
  BY <1>17 DEF FadeOut, manager, flags, callback, ghosts, Less
<1>18. ASSUME NEW d \in DSPs, TestFadeIn(d)
      PROVE  DeadInv'
  BY <1>18 DEF TestFadeIn, manager, flags, callback, ghosts
<1>19. ASSUME NEW d \in DSPs, FadeIn(d)
      PROVE  DeadInv'
  BY <1>19 DEF FadeIn, manager, flags, callback, ghosts, Less
<1> QED
  BY <1>1, <1>2, <1>3, <1>4, <1>5, <1>6, <1>7, <1>8, <1>9, <1>10, <1>11, <1>12, <1>13, <1>14, <1>15, <1>16, <1>17, <1>18, <1>19 DEF Next, UpdateSteps, Stream

\* A step keeps what is known of the fade out.
LEMMA OutStep ==
  ASSUME TypeOK, GuiInv, DeadInv, OutInv, [Next]_vars
  PROVE  OutInv'
<1> USE StreamFaderAssumption DEF StreamFaderAssumption, TypeOK, GuiPoints, RenderPoints, GuiInv, DeadInv, OutInv, FadingOut, Live, Updating
<1>1. CASE UNCHANGED vars
  BY <1>1 DEF vars, manager, flags, callback, ghosts
<1>2. ASSUME NEW d \in DSPs, OpenWindow(d)
      PROVE  OutInv'
  BY <1>2 DEF OpenWindow, manager, flags, callback, ghosts
<1>3. ASSUME NEW d \in DSPs, InitFade(d)
      PROVE  OutInv'
  BY <1>3 DEF InitFade, manager, flags, callback, ghosts
<1>4. CASE LaunchFadeIn
  BY <1>4 DEF LaunchFadeIn, manager, flags, callback, ghosts
<1>5. CASE LaunchFadeOut
  BY <1>5 DEF LaunchFadeOut, manager, flags, callback, ghosts
<1>6. CASE StartFadeIn
  BY <1>6 DEF StartFadeIn, manager, flags, callback, ghosts
<1>7. CASE SeeEndOfFade
  BY <1>7 DEF SeeEndOfFade, manager, flags, callback, ghosts
<1>8. CASE ForceIn
  BY <1>8 DEF ForceIn, manager, flags, callback, ghosts
<1>9. CASE ForceOut
  BY <1>9 DEF ForceOut, manager, flags, callback, ghosts
<1>10. CASE StopOld
  BY <1>10 DEF StopOld, manager, flags, callback, ghosts
<1>11. CASE DeleteOldFader
  BY <1>11 DEF DeleteOldFader, manager, flags, callback, ghosts, ResetValues
<1>12. CASE DeleteOldDSP
  BY <1>12 DEF DeleteOldDSP, manager, flags, callback, ghosts
<1>13. CASE StopAudio
  BY <1>13 DEF StopAudio, manager, flags, callback, ghosts
<1>14. CASE CloseWindow
  BY <1>14 DEF CloseWindow, manager, flags, callback, ghosts, ResetValues
<1>15. ASSUME NEW d \in DSPs, Compute(d)
      PROVE  OutInv'
  BY <1>15 DEF Compute, manager, flags, callback, ghosts
<1>16. ASSUME NEW d \in DSPs, TestFadeOut(d)
      PROVE  OutInv'
  BY <1>16 DEF TestFadeOut, manager, flags, callback, ghosts
<1>17. ASSUME NEW d \in DSPs, FadeOut(d)
      PROVE  OutInv'
  BY <1>17 DEF FadeOut, manager, flags, callback, ghosts, Less
<1>18. ASSUME NEW d \in DSPs, TestFadeIn(d)
      PROVE  OutInv'
  BY <1>18 DEF TestFadeIn, manager, flags, callback, ghosts
<1>19. ASSUME NEW d \in DSPs, FadeIn(d)
      PROVE  OutInv'
  BY <1>19 DEF FadeIn, manager, flags, callback, ghosts, Less
<1> QED
  BY <1>1, <1>2, <1>3, <1>4, <1>5, <1>6, <1>7, <1>8, <1>9, <1>10, <1>11, <1>12, <1>13, <1>14, <1>15, <1>16, <1>17, <1>18, <1>19 DEF Next, UpdateSteps, Stream

\* A step keeps what is known of a fade that wait_EndFade has stopped waiting for.
LEMMA CutStep ==
  ASSUME TypeOK, GuiInv, DeadInv, OutInv, CutInv, [Next]_vars
  PROVE  CutInv'
<1> USE StreamFaderAssumption DEF StreamFaderAssumption, TypeOK, GuiPoints, RenderPoints, GuiInv, DeadInv, OutInv, CutInv, FadingOut, Live, Updating
<1>1. CASE UNCHANGED vars
  BY <1>1 DEF vars, manager, flags, callback, ghosts
<1>2. ASSUME NEW d \in DSPs, OpenWindow(d)
      PROVE  CutInv'
  BY <1>2 DEF OpenWindow, manager, flags, callback, ghosts
<1>3. ASSUME NEW d \in DSPs, InitFade(d)
      PROVE  CutInv'
  BY <1>3 DEF InitFade, manager, flags, callback, ghosts
<1>4. CASE LaunchFadeIn
  BY <1>4 DEF LaunchFadeIn, manager, flags, callback, ghosts
<1>5. CASE LaunchFadeOut
  BY <1>5 DEF LaunchFadeOut, manager, flags, callback, ghosts
<1>6. CASE StartFadeIn
  BY <1>6 DEF StartFadeIn, manager, flags, callback, ghosts
<1>7. CASE SeeEndOfFade
  BY <1>7 DEF SeeEndOfFade, manager, flags, callback, ghosts
<1>8. CASE ForceIn
  BY <1>8 DEF ForceIn, manager, flags, callback, ghosts
<1>9. CASE ForceOut
  BY <1>9 DEF ForceOut, manager, flags, callback, ghosts
<1>10. CASE StopOld
  BY <1>10 DEF StopOld, manager, flags, callback, ghosts
<1>11. CASE DeleteOldFader
  BY <1>11 DEF DeleteOldFader, manager, flags, callback, ghosts, ResetValues
<1>12. CASE DeleteOldDSP
  BY <1>12 DEF DeleteOldDSP, manager, flags, callback, ghosts
<1>13. CASE StopAudio
  BY <1>13 DEF StopAudio, manager, flags, callback, ghosts
<1>14. CASE CloseWindow
  BY <1>14 DEF CloseWindow, manager, flags, callback, ghosts, ResetValues
<1>15. ASSUME NEW d \in DSPs, Compute(d)
      PROVE  CutInv'
  BY <1>15 DEF Compute, manager, flags, callback, ghosts
<1>16. ASSUME NEW d \in DSPs, TestFadeOut(d)
      PROVE  CutInv'
  BY <1>16 DEF TestFadeOut, manager, flags, callback, ghosts
<1>17. ASSUME NEW d \in DSPs, FadeOut(d)
      PROVE  CutInv'
  BY <1>17 DEF FadeOut, manager, flags, callback, ghosts, Less
<1>18. ASSUME NEW d \in DSPs, TestFadeIn(d)
      PROVE  CutInv'
  BY <1>18 DEF TestFadeIn, manager, flags, callback, ghosts
<1>19. ASSUME NEW d \in DSPs, FadeIn(d)
      PROVE  CutInv'
  BY <1>19 DEF FadeIn, manager, flags, callback, ghosts, Less
<1> QED
  BY <1>1, <1>2, <1>3, <1>4, <1>5, <1>6, <1>7, <1>8, <1>9, <1>10, <1>11, <1>12, <1>13, <1>14, <1>15, <1>16, <1>17, <1>18, <1>19 DEF Next, UpdateSteps, Stream

\* A step keeps the relation of the levels with the flags and the coefficients.
LEMMA LevelStep ==
  ASSUME TypeOK, GuiInv, DeadInv, OutInv, LevelInv, [Next]_vars
  PROVE  LevelInv'
<1> USE StreamFaderAssumption DEF StreamFaderAssumption, TypeOK, GuiPoints, RenderPoints, GuiInv, DeadInv, OutInv, LevelInv, FadingOut, NotLaunched, Live, Updating
<1>1. CASE UNCHANGED vars
  BY <1>1 DEF vars, manager, flags, callback, ghosts
<1>2. ASSUME NEW d \in DSPs, OpenWindow(d)
      PROVE  LevelInv'
  BY <1>2 DEF OpenWindow, manager, flags, callback, ghosts
<1>3. ASSUME NEW d \in DSPs, InitFade(d)
      PROVE  LevelInv'
  BY <1>3 DEF InitFade, manager, flags, callback, ghosts
<1>4. CASE LaunchFadeIn
  BY <1>4 DEF LaunchFadeIn, manager, flags, callback, ghosts
<1>5. CASE LaunchFadeOut
  BY <1>5 DEF LaunchFadeOut, manager, flags, callback, ghosts
<1>6. CASE StartFadeIn
  BY <1>6 DEF StartFadeIn, manager, flags, callback, ghosts
<1>7. CASE SeeEndOfFade
  BY <1>7 DEF SeeEndOfFade, manager, flags, callback, ghosts
<1>8. CASE ForceIn
  BY <1>8 DEF ForceIn, manager, flags, callback, ghosts
<1>9. CASE ForceOut
  BY <1>9 DEF ForceOut, manager, flags, callback, ghosts
<1>10. CASE StopOld
  BY <1>10 DEF StopOld, manager, flags, callback, ghosts
<1>11. CASE DeleteOldFader
  BY <1>11 DEF DeleteOldFader, manager, flags, callback, ghosts, ResetValues
<1>12. CASE DeleteOldDSP
  BY <1>12 DEF DeleteOldDSP, manager, flags, callback, ghosts
<1>13. CASE StopAudio
  BY <1>13 DEF StopAudio, manager, flags, callback, ghosts
<1>14. CASE CloseWindow
  BY <1>14 DEF CloseWindow, manager, flags, callback, ghosts, ResetValues
<1>15. ASSUME NEW d \in DSPs, Compute(d)
      PROVE  LevelInv'
  BY <1>15 DEF Compute, manager, flags, callback, ghosts
<1>16. ASSUME NEW d \in DSPs, TestFadeOut(d)
      PROVE  LevelInv'
  BY <1>16 DEF TestFadeOut, manager, flags, callback, ghosts
<1>17. ASSUME NEW d \in DSPs, FadeOut(d)
      PROVE  LevelInv'
  BY <1>17 DEF FadeOut, manager, flags, callback, ghosts, Less
<1>18. ASSUME NEW d \in DSPs, TestFadeIn(d)
      PROVE  LevelInv'
  BY <1>18 DEF TestFadeIn, manager, flags, callback, ghosts
<1>19. ASSUME NEW d \in DSPs, FadeIn(d)
      PROVE  LevelInv'
  BY <1>19 DEF FadeIn, manager, flags, callback, ghosts, Less
<1> QED
  BY <1>1, <1>2, <1>3, <1>4, <1>5, <1>6, <1>7, <1>8, <1>9, <1>10, <1>11, <1>12, <1>13, <1>14, <1>15, <1>16, <1>17, <1>18, <1>19 DEF Next, UpdateSteps, Stream

\* The invariant is inductive.
LEMMA Invariance == SafetySpec => []IInv
<1>1. IInv /\ [Next]_vars => IInv'
  BY TypeStep, GuiStep, DeadStep, OutStep, CutStep, LevelStep DEF IInv
<1> QED
  BY InitIInv, <1>1, PTL DEF SafetySpec

-----------------------------------------------------------------------------
\* Every variable of the stream drivers keeps its type; no gain leaves 0 .. FadeLength.
THEOREM TypeCorrect == SafetySpec => []TypeOK
<1>1. IInv => TypeOK
  BY DEF IInv
<1> QED BY Invariance, <1>1, PTL

\* A driver never calls a stream whose fader or DSP has been deleted.
THEOREM StreamsStayAlive == SafetySpec => []StreamsAreAlive
<1>1. IInv => StreamsAreAlive
  BY DEF IInv, DeadInv, StreamsAreAlive, Live
<1> QED BY Invariance, <1>1, PTL

\* After any number of updates a window holds one DSP and one stream; NetJack alone may hold
\* faders that it could not initialise.
THEOREM NothingIsLeftOver == SafetySpec => []NothingLeftOver
<1>1. IInv => NothingLeftOver
  BY StreamFaderAssumption
  DEF StreamFaderAssumption, IInv, TypeOK, GuiInv, Updating, NothingLeftOver
<1> QED BY Invariance, <1>1, PTL

\* A stream whose fade out has ended by itself is silent until it stops.
THEOREM StoppedStreamsAreSilent == SafetySpec => []SilentWhenStopped
<1>1. IInv => SilentWhenStopped
  BY DEF IInv, OutInv, SilentWhenStopped
<1> QED BY Invariance, <1>1, PTL

-----------------------------------------------------------------------------
\* One step of the program changes the level of a stream by at most one buffer of the fade,
\* unless its fade was cut short.
LEMMA SmoothStep ==
  ASSUME IInv, [Next]_vars, NEW d \in (faders \cap faders') \ interrupted
  PROVE  level'[d] - level[d] \in -BufferSize .. BufferSize
<1> USE StreamFaderAssumption DEF StreamFaderAssumption, IInv, TypeOK
<1>0. d \in DSPs /\ level[d] \in 0 .. FadeLength
  OBVIOUS
<1>1. CASE level'[d] = level[d]
  BY <1>0, <1>1
<1>2. CASE OpenWindow(d)
  BY <1>2 DEF OpenWindow
<1>3. CASE TestFadeOut(d)
  BY <1>0, <1>3 DEF TestFadeOut, OutInv
<1>4. CASE FadeOut(d)
  <2>1. d \in fDoWeFadeOut /\ d \in Live
    BY <1>4 DEF FadeOut, LevelInv, DeadInv
  <2>2. level[d] = fOutCoef[d] /\ level'[d] = Less(fOutCoef[d])
    BY <1>4, <2>1 DEF FadeOut, LevelInv
  <2>3. fOutCoef[d] - Less(fOutCoef[d]) \in 0 .. BufferSize
    BY <1>0, LessLowers
  <2>4. Less(fOutCoef[d]) \in 0 .. FadeLength
    BY <1>0, LessLowers
  <2> QED
    BY <1>0, <2>2, <2>3, <2>4
<1>5. CASE TestFadeIn(d)
  <2>1. d \in Live /\ ~NotLaunched(d) /\ d \notin fFadedOut
    BY <1>5 DEF TestFadeIn, DeadInv, LevelInv, OutInv
  <2>2. CASE d \in fDoWeFadeIn
    BY <1>0, <1>5, <2>2 DEF TestFadeIn
  <2>3. CASE d \notin fDoWeFadeIn
    <3>1. level[d] = FadeLength
      BY <1>5, <2>1, <2>3 DEF TestFadeIn, LevelInv
    <3> QED
      BY <1>0, <1>5, <2>3, <3>1 DEF TestFadeIn
  <2> QED
    BY <2>2, <2>3
<1>6. CASE FadeIn(d)
  <2>1. d \in Live /\ d \in fDoWeFadeIn /\ d \notin fDoWeFadeOut \cup fFadedOut
    BY <1>6 DEF FadeIn, DeadInv, LevelInv
  <2>2. level[d] = FadeLength - fInCoef[d] /\ level'[d] = FadeLength - Less(fInCoef[d])
    BY <1>6, <2>1 DEF FadeIn, LevelInv
  <2>3. fInCoef[d] - Less(fInCoef[d]) \in 0 .. BufferSize
    BY <1>0, LessLowers
  <2>4. Less(fInCoef[d]) \in 0 .. FadeLength /\ fInCoef[d] \in 0 .. FadeLength
    BY <1>0, LessLowers
  <2> QED
    BY <1>0, <2>2, <2>3, <2>4
<1>7. CASE DeleteOldFader \/ CloseWindow
  <2>1. d # fCurrentAudio
    BY <1>7 DEF DeleteOldFader, CloseWindow
  <2>2. level'[d] = level[d]
    BY <1>0, <1>7, <2>1 DEF DeleteOldFader, CloseWindow, ResetValues
  <2> QED
    BY <1>1, <2>2
<1>8. ASSUME NEW e \in DSPs, e # d, OpenWindow(e) \/ Stream(e)
      PROVE  level'[d] = level[d]
  BY <1>0, <1>8 DEF OpenWindow, Stream, Compute, TestFadeOut, FadeOut, TestFadeIn, FadeIn
<1> QED
  BY <1>0, <1>1, <1>2, <1>3, <1>4, <1>5, <1>6, <1>7, <1>8
  DEF Next, Stream, UpdateSteps, vars, callback, InitFade, Compute, LaunchFadeIn, LaunchFadeOut,
      StartFadeIn, SeeEndOfFade, ForceIn, ForceOut, StopOld, DeleteOldDSP, StopAudio

\* Whatever the order in which the two threads and the GUI thread meet the flags, the gain of
\* a stream does not jump, unless its fade was cut short.
THEOREM StreamsAreSmooth == SafetySpec => Smooth
<1>1. IInv /\ [Next]_vars =>
        [\A d \in (faders \cap faders') \ interrupted :
           level'[d] - level[d] \in -BufferSize .. BufferSize]_vars
  BY SmoothStep
<1> QED
  BY Invariance, <1>1, PTL DEF SafetySpec, Smooth

-----------------------------------------------------------------------------
\* An update of a window whose DSPs have streams of their own is the abstract crossfade, by the
\* gain that the next buffer of the outgoing DSP gets: a fade that wait_EndFade does not give up
\* ends with the buffer that takes it to zero, and the outgoing DSP is not heard any more.
THEOREM StreamsImplementCrossfade == SafetySpec => ImplementsCrossfade
<1> USE StreamFaderAssumption
    DEF StreamFaderAssumption, Promise!vars, FadeBegun, Heard, Phase, manager, flags, callback,
        ghosts
<1>1. Init => Promise!Init
  BY DEF Init, Promise!Init
<1>2. ASSUME IInv, [Next]_vars PROVE [Promise!Next]_(Promise!vars)
  <2> USE <1>2 DEF IInv, TypeOK, GuiInv, Updating
  <2>1. ASSUME NEW d \in DSPs, OpenWindow(d) PROVE Promise!Open(d)
    BY <2>1 DEF OpenWindow, Promise!Open
  <2>2. CASE \E d \in DSPs : InitFade(d)
    BY <2>2 DEF InitFade
  <2>3. CASE LaunchFadeOut
    <3>1. fCurrentAudio \in DSPs /\ fCurrentAudio \notin fFadedOut
      BY <2>3 DEF LaunchFadeOut, OutInv, FadingOut
    <3>2. fOutCoef[fCurrentAudio] = FadeLength
      BY <2>3, <3>1 DEF LaunchFadeOut, OutInv, FadingOut
    <3>3. Promise!Begin(fFadeInAudio)
      BY <2>3, <3>1, <3>2 DEF LaunchFadeOut, Promise!Begin
    <3> QED BY <2>3, <3>3 DEF LaunchFadeOut, Promise!Next
  <2>4. CASE LaunchFadeIn \/ StartFadeIn \/ SeeEndOfFade
    BY <2>4 DEF LaunchFadeIn, StartFadeIn, SeeEndOfFade
  <2>5. CASE StopOld \/ DeleteOldDSP \/ StopAudio
    BY <2>5 DEF StopOld, DeleteOldDSP, StopAudio
  <2>6. CASE ForceIn
    <3>1. fFadeInAudio # fCurrentAudio
      BY <2>6 DEF ForceIn
    <3>2. fCurrentAudio \in fDoWeFadeOut <=> fCurrentAudio \in fDoWeFadeOut'
      BY <2>6, <3>1 DEF ForceIn
    <3> QED BY <2>6, <3>2 DEF ForceIn
  <2>7. CASE ForceOut
    <3>1. Heard' \in 0 .. FadeLength
      BY <2>7 DEF ForceOut
    <3>2. Phase' = "cut" /\ Phase # "none"
      BY <2>7 DEF ForceOut
    <3>3. Promise!Cut
      BY <2>7, <3>1, <3>2 DEF ForceOut, Promise!Cut
    <3> QED BY <3>3 DEF Promise!Next
  <2>8. CASE DeleteOldFader
    <3>1. Phase \in {"silenced", "cut"}
      BY <2>8 DEF DeleteOldFader, CutInv
    <3>2. ~FadeBegun' /\ fCurrentAudio' = fFadeInAudio
      BY <2>8 DEF DeleteOldFader
    <3>3. Promise!Switch
      BY <2>8, <3>1, <3>2 DEF DeleteOldFader, Promise!Switch
    <3> QED BY <3>3 DEF Promise!Next
  <2>9. CASE CloseWindow
    <3>1. Promise!Close
      BY <2>9 DEF CloseWindow, Promise!Close
    <3> QED BY <3>1 DEF Promise!Next
  <2>10. ASSUME NEW d \in DSPs, Compute(d) \/ TestFadeOut(d) \/ TestFadeIn(d) \/ FadeIn(d)
         PROVE  UNCHANGED Promise!vars
    BY <2>10 DEF Compute, TestFadeOut, TestFadeIn, FadeIn
  <2>11. ASSUME NEW d \in DSPs, FadeOut(d) PROVE Promise!Next \/ UNCHANGED Promise!vars
    <3>1. d = fCurrentAudio /\ FadeBegun /\ fOutCoef[d] \in 1 .. FadeLength
      BY <2>11 DEF FadeOut, OutInv, FadingOut
    <3>2. d \notin fFadedOut
      BY <3>1 DEF OutInv
    <3>3. UNCHANGED <<gui, netJack, fCurrentAudio, fFadeInAudio, givenUp>>
      BY <2>11 DEF FadeOut
    <3>4. fOutCoef'[d] = Less(fOutCoef[d])
      BY <2>11 DEF FadeOut
    <3>5. Less(fOutCoef[d]) \in 0 .. fOutCoef[d] - 1
      BY <3>1, LessLowers
    <3>6. CASE d \notin fDoWeFadeOut
      <4>1. givenUp
        BY <3>1, <3>2, <3>6, <2>11 DEF OutInv, CutInv
      <4>2. d \notin fDoWeFadeOut'
        BY <2>11, <3>6 DEF FadeOut
      <4>3. Heard' \in 0 .. FadeLength
        BY <3>1, <3>3, <4>2
      <4>4. Promise!Cut
        BY <3>1, <3>3, <3>6, <4>1, <4>2, <4>3 DEF Promise!Cut
      <4> QED BY <4>4 DEF Promise!Next
    <3>7. CASE d \in fDoWeFadeOut /\ Less(fOutCoef[d]) = 0
      <4>1. fOutCoef[d] <= BufferSize
        BY <3>1, <3>7 DEF Less
      <4>2. d \in fFadedOut' /\ d \notin fDoWeFadeOut'
        BY <2>11, <3>7 DEF FadeOut
      <4>3. ~givenUp
        BY <3>1, <3>7 DEF CutInv
      <4>4. Promise!Silence
        BY <3>1, <3>2, <3>3, <3>7, <4>1, <4>2, <4>3 DEF Promise!Silence
      <4> QED BY <4>4 DEF Promise!Next
    <3>8. CASE d \in fDoWeFadeOut /\ Less(fOutCoef[d]) # 0
      <4>1. fOutCoef[d] - Less(fOutCoef[d]) <= BufferSize
        BY <3>1, <3>8 DEF Less
      <4>2. d \notin fFadedOut' /\ d \in fDoWeFadeOut'
        BY <2>11, <3>2, <3>8 DEF FadeOut
      <4>3. Heard = fOutCoef[d] /\ Heard' = Less(fOutCoef[d])
        BY <3>1, <3>2, <3>3, <3>4, <3>8, <4>2
      <4>4. Phase = "fading" /\ Phase' = "fading"
        BY <3>1, <3>3, <3>8, <4>2
      <4>5. UNCHANGED <<fCurrentAudio, IF FadeBegun THEN fFadeInAudio ELSE None>>
        BY <3>3
      <4>6. Promise!Lower
        BY <3>5, <4>1, <4>3, <4>4, <4>5 DEF Promise!Lower
      <4> QED BY <4>6 DEF Promise!Next
    <3> QED BY <3>6, <3>7, <3>8
  <2>12. CASE UNCHANGED vars
    BY <2>12 DEF vars
  <2> QED
    BY <2>1, <2>2, <2>3, <2>4, <2>5, <2>6, <2>7, <2>8, <2>9, <2>10, <2>11, <2>12
    DEF Next, Stream, UpdateSteps, Promise!Next
<1> QED
  BY <1>1, <1>2, Invariance, PTL DEF SafetySpec, ImplementsCrossfade, Promise!Spec

=============================================================================
