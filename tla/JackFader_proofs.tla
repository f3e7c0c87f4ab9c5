------------------------- MODULE JackFader_proofs -------------------------
(***************************************************************************)
(* Proofs about JackFader, for every set of DSPs, every number of ports,   *)
(* every fade length and every buffer size.                                 *)
(***************************************************************************)
EXTENDS JackFader, TLAPS

-----------------------------------------------------------------------------
\* A new fader, before the window has a DSP, satisfies the invariant.
LEMMA InitInv == Init => IInv
<1> SUFFICES ASSUME Init PROVE IInv
  OBVIOUS
<1>1. TypeOK
  <2>1. fInCoef \in 0 .. FadeLength
    BY JackFaderAssumption DEF JackFaderAssumption, Init
  <2>2. gui \in GuiPoints /\ jack \in JackPoints
    BY DEF Init, GuiPoints, JackPoints
  <2>3. alive \in SUBSET DSPs
    BY DEF Init
  <2> QED
    BY <2>1, <2>2, <2>3 DEF Init, TypeOK
<1>2. GuiInv
  BY DEF Init, GuiInv, Unbuffered
<1>3. JackInv
  BY DEF Init, JackInv, FadePoints
<1>4. FadeInv
  BY DEF Init, FadeInv, FadePoints
<1> QED
  BY <1>1, <1>2, <1>3, <1>4 DEF IInv

\* The steps of the GUI thread preserve the invariant.
LEMMA GuiPreserves == ASSUME IInv, Gui PROVE IInv'
<1> USE JackFaderAssumption DEF JackFaderAssumption, IInv, TypeOK, GuiInv, JackInv, FadeInv, GuiPoints, JackPoints,
      FadePoints, Changing, NoBuffers, Larger, GuiGoes, Overlap, Fits, BothFit,
      Buffered, Unbuffered, TwoDSPs, client, buffers, fade, callback
<1>1. ASSUME NEW d \in DSPs, OpenWindow(d) PROVE IInv'
  BY <1>1 DEF OpenWindow
<1>2. ASSUME NEW d \in DSPs, InitFadeIn(d) PROVE IInv'
  BY <1>2 DEF InitFadeIn
<1>3. CASE Start
  BY <1>3 DEF Start
<1>4. CASE Stop
  BY <1>4 DEF Stop
<1>5. CASE CloseWindow
  <2>1. TypeOK'
    <3>1. fInCoef' \in 0 .. FadeLength
      BY <1>5 DEF CloseWindow
    <3>2. UNCHANGED <<active, jack, fInChannel, fOutFinal, computing, overlapped,
                      fIntermediateFadeOut, fIntermediateFadeIn>>
      BY <1>5 DEF CloseWindow
    <3> QED
      BY <1>5, <3>1, <3>2 DEF CloseWindow
  <2>2. GuiInv'
    BY <1>5 DEF CloseWindow
  <2>3. JackInv'
    BY <1>5 DEF CloseWindow
  <2>4. FadeInv'
    BY <1>5 DEF CloseWindow
  <2> QED BY <2>1, <2>2, <2>3, <2>4
<1>6. CASE AllocateBuffers
  <2>1. TypeOK'
    BY <1>6 DEF AllocateBuffers
  <2>2. GuiInv'
    BY <1>6 DEF AllocateBuffers
  <2>3. JackInv'
    BY <1>6 DEF AllocateBuffers
  <2>4. FadeInv'
    BY <1>6 DEF AllocateBuffers
  <2> QED BY <2>1, <2>2, <2>3, <2>4
<1>7. CASE LaunchFade
  <2>1. TypeOK'
    BY <1>7 DEF LaunchFade
  <2>2. GuiInv'
    BY <1>7 DEF LaunchFade
  <2>3. JackInv'
    BY <1>7 DEF LaunchFade
  <2>4. FadeInv'
    BY <1>7 DEF LaunchFade
  <2> QED BY <2>1, <2>2, <2>3, <2>4
<1>8. CASE SeeEndOfFade
  BY <1>8 DEF SeeEndOfFade
<1>9. CASE GiveUp
  <2>1. TypeOK'
    BY <1>9 DEF GiveUp
  <2>2. GuiInv'
    BY <1>9 DEF GiveUp
  <2>3. JackInv'
    BY <1>9 DEF GiveUp
  <2>4. FadeInv'
    BY <1>9 DEF GiveUp
  <2> QED BY <2>1, <2>2, <2>3, <2>4
<1>10. CASE ErasePorts
  <2>1. TypeOK'
    BY <1>10 DEF ErasePorts
  <2>2. GuiInv'
    BY <1>10 DEF ErasePorts
  <2>3. JackInv'
    BY <1>10 DEF ErasePorts
  <2>4. FadeInv'
    BY <1>10 DEF ErasePorts
  <2> QED BY <2>1, <2>2, <2>3, <2>4
<1>11. CASE FreeBuffers
  <2>1. TypeOK'
    BY <1>11 DEF FreeBuffers
  <2>2. GuiInv'
    BY <1>11 DEF FreeBuffers
  <2>3. JackInv'
    BY <1>11 DEF FreeBuffers
  <2>4. FadeInv'
    BY <1>11 DEF FreeBuffers
  <2> QED BY <2>1, <2>2, <2>3, <2>4
<1>12. CASE SwapDSPs
  BY <1>12 DEF SwapDSPs
<1>13. CASE DeleteOldDSP
  BY <1>13 DEF DeleteOldDSP
<1> QED
  BY <1>1, <1>2, <1>3, <1>4, <1>5, <1>6, <1>7, <1>8, <1>9, <1>10, <1>11,
     <1>12, <1>13 DEF Gui

\* The steps of the JACK thread and of its server preserve the invariant.
LEMMA JackPreserves == ASSUME IInv, Jack \/ ServerStops PROVE IInv'
<1> USE JackFaderAssumption DEF JackFaderAssumption, IInv, TypeOK, GuiInv, JackInv, FadeInv, GuiPoints, JackPoints,
      FadePoints, Changing, NoBuffers, Larger, JackGoes, BeginCompute, Fits, BothFit,
      Buffered, Unbuffered, TwoDSPs, client, buffers, fade, callback
<1>1. CASE BeginPeriod
  <2>1. TypeOK'
    BY <1>1 DEF BeginPeriod
  <2>2. GuiInv'
    BY <1>1 DEF BeginPeriod
  <2>3. JackInv'
    BY <1>1 DEF BeginPeriod
  <2>4. FadeInv'
    BY <1>1 DEF BeginPeriod
  <2> QED BY <2>1, <2>2, <2>3, <2>4
<1>2. CASE TestFlag
  BY <1>2 DEF TestFlag
<1>3. CASE BeginComputeOut
  BY <1>3 DEF BeginComputeOut
<1>4. CASE EndComputeOut
  BY <1>4 DEF EndComputeOut
<1>5. CASE BeginComputeIn
  BY <1>5 DEF BeginComputeIn
<1>6. CASE EndComputeIn
  BY <1>6 DEF EndComputeIn
<1>7. CASE Mix
  <2>1. fInCoef' \in 0 .. FadeLength
    <3>1. GainAfterMix \in 0 .. FadeLength
      BY DEF GainAfterMix
    <3> QED BY <1>7, <3>1 DEF Mix
  <2>2. TypeOK'
    BY <1>7, <2>1 DEF Mix
  <2>3. GuiInv'
    BY <1>7 DEF Mix
  <2>4. JackInv'
    BY <1>7 DEF Mix
  <2>5. FadeInv'
    BY <1>7 DEF Mix
  <2> QED BY <2>2, <2>3, <2>4, <2>5
<1>8. CASE GetOutputs
  BY <1>8 DEF GetOutputs
<1>9. CASE BeginNormal
  BY <1>9 DEF BeginNormal
<1>10. CASE EndNormal
  BY <1>10 DEF EndNormal
<1>11. CASE ServerStops
  <2>1. TypeOK'
    BY <1>11 DEF ServerStops
  <2>2. GuiInv'
    BY <1>11 DEF ServerStops
  <2>3. JackInv'
    BY <1>11 DEF ServerStops
  <2>4. FadeInv'
    BY <1>11 DEF ServerStops
  <2> QED BY <2>1, <2>2, <2>3, <2>4
<1> QED
  BY <1>1, <1>2, <1>3, <1>4, <1>5, <1>6, <1>7, <1>8, <1>9, <1>10, <1>11 DEF Jack

\* The inductive invariant holds in every behaviour of the two threads.
LEMMA Invariance == SafetySpec => []IInv
<1>1. IInv /\ UNCHANGED vars => IInv'
  BY DEF IInv, TypeOK, GuiInv, JackInv, FadeInv, vars, client, buffers, fade,
     callback, Fits, BothFit, Buffered, Unbuffered, TwoDSPs
<1>2. IInv /\ [Next]_vars => IInv'
  BY <1>1, GuiPreserves, JackPreserves DEF Next
<1> QED BY InitInv, <1>2, PTL DEF SafetySpec

-----------------------------------------------------------------------------
\* Every variable keeps its type, however updates, callbacks, fades given up
\* and server failures interleave.
THEOREM TypeCorrect == SafetySpec => []TypeOK
<1>1. IInv => TypeOK
  BY DEF IInv
<1> QED BY Invariance, <1>1, PTL

\* A callback that no update overlaps never touches a deleted DSP, a freed
\* buffer or a missing port, even after fades that were given up.
THEOREM CallbacksAreSafe == SafetySpec => []CallbackSafe
<1>1. IInv => CallbackSafe
  BY JackFaderAssumption
  DEF IInv, TypeOK, GuiInv, JackInv, CallbackSafe, JackPoints, GuiPoints, FadePoints,
      Changing, Larger, Fits, BothFit, Buffered, TwoDSPs, NoBuffers
<1> QED BY Invariance, <1>1, PTL

\* Without a time out, the flag protects the memory of the fade branch.
THEOREM FadeMemoryIsSafe ==
  ASSUME ~MayTimeOut
  PROVE  SafetySpec => []FadeMemory
<1>1. IInv => FadeMemory
  BY JackFaderAssumption
  DEF IInv, TypeOK, GuiInv, FadeInv, FadeMemory, FadePoints, Larger, BothFit,
      Buffered, TwoDSPs
<1> QED BY Invariance, <1>1, PTL

\* Between two updates the client holds what its current DSP needs, no more.
THEOREM NothingIsLeftOver == SafetySpec => []NothingLeftOver
<1>1. IInv => NothingLeftOver
  BY DEF IInv, GuiInv, NothingLeftOver, Fits, Unbuffered
<1> QED BY Invariance, <1>1, PTL

-----------------------------------------------------------------------------
\* Every update of a JACK window is the abstract crossfade, for the gain that the outgoing DSP is
\* really heard with: it comes down by a period at a time, and the new DSP takes over only after
\* it came to zero or after wait_EndFade gave up.
THEOREM JackImplementsCrossfade == SafetySpec => ImplementsCrossfade
<1> USE DEF Promise!vars
<1>1. Init => Promise!Init
  BY DEF Init, Promise!Init
<1>2. ASSUME IInv, IInv', [Next]_vars PROVE [Promise!Next]_(Promise!vars)
  <2> USE <1>2 DEF GuiGoes, JackGoes, client, buffers, fade, callback
  <2>0. gui # "wait" => ~fDoWeFadeOut
    BY DEF IInv, GuiInv
  <2>1. ASSUME NEW d \in DSPs, OpenWindow(d) PROVE Promise!Open(d)
    BY <2>0, <2>1 DEF OpenWindow, Promise!Open, IInv, GuiInv
  <2>2. ASSUME NEW d \in DSPs, InitFadeIn(d) PROVE UNCHANGED Promise!vars
    BY <2>0, <2>2 DEF InitFadeIn
  <2>3. CASE \/ Start \/ Stop \/ AllocateBuffers \/ SeeEndOfFade
             \/ ErasePorts \/ FreeBuffers \/ DeleteOldDSP
    <3>1. UNCHANGED <<fDSP, fDSPIn, fDoWeFadeOut, fInCoef, givenUp>>
      BY <2>3 DEF Start, Stop, AllocateBuffers, SeeEndOfFade, ErasePorts, FreeBuffers,
                  DeleteOldDSP
    <3>2. gui \in {"wait", "erase", "free", "swap"}
            <=> gui' \in {"wait", "erase", "free", "swap"}
      BY <2>3 DEF Start, Stop, AllocateBuffers, SeeEndOfFade, ErasePorts, FreeBuffers,
                  DeleteOldDSP
    <3> QED BY <3>1, <3>2
  <2>4. CASE CloseWindow
    <3>1. fDSP # NoDSP
      BY <2>4, JackFaderAssumption DEF JackFaderAssumption, CloseWindow, IInv, GuiInv
    <3>2. Promise!Close
      BY <2>0, <2>4, <3>1 DEF CloseWindow, Promise!Close
    <3> QED BY <3>2 DEF Promise!Next
  <2>5. CASE LaunchFade
    <3>1. TwoDSPs /\ ~fDoWeFadeOut
      BY <2>5 DEF LaunchFade, IInv, GuiInv
    <3>2. fInCoef = FadeLength \/ (MayTimeOut /\ fInCoef \in 0 .. FadeLength)
      BY <3>1, JackFaderAssumption DEF JackFaderAssumption, IInv, TypeOK, FadeInv
    <3>3. Promise!Begin(fDSPIn)
      BY <2>5, <3>1, <3>2, JackFaderAssumption
      DEF JackFaderAssumption, LaunchFade, TwoDSPs, Promise!Begin
    <3> QED BY <3>1, <3>3 DEF Promise!Next, TwoDSPs
  <2>6. CASE SwapDSPs
    <3>1. ~fDoWeFadeOut
      BY <2>0, <2>6 DEF SwapDSPs
    <3>2. Promise!Switch
      BY <2>6, <3>1 DEF SwapDSPs, Promise!Switch
    <3> QED BY <3>2 DEF Promise!Next
  <2>7. CASE GiveUp
    <3>1. FadeLength \in 0 .. FadeLength
      BY JackFaderAssumption DEF JackFaderAssumption
    <3>2. Promise!Cut
      BY <2>7, <3>1 DEF GiveUp, Promise!Cut
    <3> QED BY <3>2 DEF Promise!Next
  <2>8. CASE Mix
    <3>1. fInCoef \in 0 .. FadeLength
      BY DEF IInv, TypeOK
    <3>2. CASE ~fDoWeFadeOut
      <4>1. ~fDoWeFadeOut'
        BY <2>8, <3>2 DEF Mix
      <4> QED BY <2>8, <3>2, <4>1 DEF Mix
    <3>3. CASE fDoWeFadeOut /\ fInCoef > BufferSize
      <4>1. fInCoef' = fInCoef - BufferSize - 1 /\ fDoWeFadeOut' = fDoWeFadeOut
        <5>1. GainAfterMix = fInCoef - BufferSize /\ GainAfterMix > 0
          BY <3>1, <3>3, JackFaderAssumption DEF JackFaderAssumption, GainAfterMix
        <5> QED BY <2>8, <5>1 DEF Mix
      <4>2. fInCoef' \in 0 .. fInCoef - 1 /\ fInCoef - fInCoef' <= BufferSize + 1
        BY <4>1, <3>1, <3>3, JackFaderAssumption DEF JackFaderAssumption
      <4>3. gui = "wait"
        BY <2>0, <3>3
      <4>4. Promise!Lower
        BY <2>8, <3>3, <4>1, <4>2, <4>3 DEF Mix, Promise!Lower
      <4> QED BY <4>4 DEF Promise!Next
    <3>4. CASE fDoWeFadeOut /\ ~(fInCoef > BufferSize)
      <4>1. ~fDoWeFadeOut'
        BY <2>8, <3>4 DEF Mix, GainAfterMix
      <4>2. gui = "wait" /\ fInCoef <= BufferSize
        BY <2>0, <3>1, <3>4, JackFaderAssumption DEF JackFaderAssumption
      <4>3. CASE givenUp
        <5>1. FALSE
          BY <3>4, <4>3 DEF IInv, GuiInv
        <5> QED BY <5>1
      <4>4. CASE ~givenUp
        <5>1. Promise!Silence
          BY <2>8, <3>4, <4>1, <4>2, <4>4 DEF Mix, Promise!Silence
        <5> QED BY <5>1 DEF Promise!Next
      <4> QED BY <4>3, <4>4
    <3> QED BY <3>2, <3>3, <3>4
  <2>9. CASE (Jack /\ ~Mix) \/ ServerStops
    BY <2>9 DEF Jack, ServerStops, BeginPeriod, TestFlag, BeginComputeOut, EndComputeOut,
       BeginComputeIn, EndComputeIn, GetOutputs, BeginNormal, EndNormal, BeginCompute
  <2>10. CASE UNCHANGED vars
    BY <2>10 DEF vars
  <2> QED
    BY <2>1, <2>2, <2>3, <2>4, <2>5, <2>6, <2>7, <2>8, <2>9, <2>10
    DEF Next, Gui, Promise!Next
<1> QED
  BY <1>1, <1>2, Invariance, PTL DEF SafetySpec, ImplementsCrossfade, Promise!Spec

=============================================================================
