----------------------------- MODULE JackFader -----------------------------
(***************************************************************************)
(* The JACK driver plays both DSPs of a crossfade in one JACK client.  Two *)
(* threads share the client without a lock: the GUI thread, which runs     *)
(* FLWindow::update_Window and the JA_audioManager calls it makes, and the *)
(* JACK thread, which calls JA_audioFader::processAudio every period.      *)
(*                                                                         *)
(* A step is a stretch of one thread between two points where the other    *)
(* thread can make a difference: every read or write of the fields fDSP,   *)
(* fDSPIn, fDoWeFadeOut, of the port vectors and of the intermediate       *)
(* buffers is in a step of its own thread's program counter.               *)
(*                                                                         *)
(* The gain (a float that loses kFadeCoefficient per sample) is counted in *)
(* steps: FadeLength is the full gain, 0 the end.  fOutCoef is always equal *)
(* to fInCoef in this driver, so one variable stands for both.             *)
(***************************************************************************)
EXTENDS Integers

CONSTANTS
  DSPs,         \* the DSP instances that can be created
  NoDSP,        \* the NULL pointer
  NumIn,        \* getNumInputs() of each DSP
  NumOut,       \* getNumOutputs() of each DSP
  FadeLength,   \* gain steps of a complete fade (1 / kFadeCoefficient)
  BufferSize,   \* samples per period, in gain steps
  MayTimeOut    \* may the JACK thread be so late that 3 seconds elapse

ASSUME JackFaderAssumption ==
  /\ NoDSP \notin DSPs
  /\ NumIn \in [DSPs -> Nat]
  /\ NumOut \in [DSPs -> Nat]
  /\ FadeLength \in Nat \ {0}
  /\ BufferSize \in Nat \ {0}
  /\ MayTimeOut \in BOOLEAN

\* A NULL array of intermediate buffers.
NoBuffers == -1

VARIABLES
  gui,                   \* program counter of the GUI thread
  alive,                 \* the DSPs that are allocated
  active,                \* the JACK client is activated
  fDSP, fDSPIn,          \* the current DSP, the DSP that fades in (or that faded out)
  fDoWeFadeOut,          \* the atomic flag: a fade is in progress
  fInCoef,               \* gain of the fade
  inPorts, outPorts,     \* fInputPorts.size(), fOutputPorts.size()
  fIntermediateFadeOut,  \* channels of the buffers of the outgoing DSP
  fIntermediateFadeIn,   \* channels of the buffers of the incoming DSP
  jack,                  \* program counter of the JACK thread
  fInChannel,            \* local: size of the array of input buffers
  fOutFinal,             \* local: size of the array of output buffers
  computing,             \* local: the DSP whose compute() runs
  overlapped,            \* history: an update changes the client during this callback
  givenUp                \* history: the last fade was given up

client == <<alive, active, fDSP, fDSPIn, inPorts, outPorts>>
buffers == <<fIntermediateFadeOut, fIntermediateFadeIn>>
fade == <<fDoWeFadeOut, fInCoef, givenUp>>
callback == <<jack, fInChannel, fOutFinal, computing>>
vars == <<gui, client, buffers, fade, callback, overlapped>>

Larger(m, n) == IF m >= n THEN m ELSE n

GuiPoints ==
  {"closed", "stopped", "running", "allocate", "launch", "wait", "erase",
   "free", "swap", "delete"}

\* upDate_DSP has begun to change the client, the old DSP is not deleted yet.
Changing == {"free", "swap", "delete"}

FadePoints == {"fadeOut", "computeOut", "fadeIn", "computeIn", "mix"}

JackPoints == {"rest", "test", "outputs", "compute", "normal"} \cup FadePoints

TypeOK ==
  /\ gui \in GuiPoints
  /\ alive \in SUBSET DSPs
  /\ active \in BOOLEAN
  /\ fDSP \in DSPs \cup {NoDSP}
  /\ fDSPIn \in DSPs \cup {NoDSP}
  /\ fDoWeFadeOut \in BOOLEAN
  /\ fInCoef \in 0 .. FadeLength
  /\ inPorts \in Nat
  /\ outPorts \in Nat
  /\ fIntermediateFadeOut \in Nat \cup {NoBuffers}
  /\ fIntermediateFadeIn \in Nat \cup {NoBuffers}
  /\ jack \in JackPoints
  /\ fInChannel \in Nat
  /\ fOutFinal \in Nat
  /\ computing \in DSPs \cup {NoDSP}
  /\ overlapped \in BOOLEAN
  /\ givenUp \in BOOLEAN

\* AudioFader_Implementation's constructor calls reset_Values.
Init ==
  /\ gui = "closed"
  /\ alive = {}
  /\ active = FALSE
  /\ fDSP = NoDSP
  /\ fDSPIn = NoDSP
  /\ fDoWeFadeOut = FALSE
  /\ fInCoef = FadeLength
  /\ inPorts = 0
  /\ outPorts = 0
  /\ fIntermediateFadeOut = NoBuffers
  /\ fIntermediateFadeIn = NoBuffers
  /\ jack = "rest"
  /\ fInChannel = 0
  /\ fOutFinal = 0
  /\ computing = NoDSP
  /\ overlapped = FALSE
  /\ givenUp = FALSE

-----------------------------------------------------------------------------
(***************************************************************************)
(* Faulty variants of some of the steps below, one plausible bug each.     *)
(* They are not part of the specification: the mutation checks substitute  *)
(* them to show that the properties depend on the steps they replace.       *)
(***************************************************************************)

\* launch_fadeOut mixes up the two buffers.
AllocateBuffersSwapped ==
  /\ gui = "allocate"
  /\ gui' = "launch"
  /\ fIntermediateFadeIn' = NumOut[fDSP]
  /\ fIntermediateFadeOut' = NumOut[fDSPIn]
  /\ UNCHANGED <<client, fade, callback, overlapped>>

\* wait_EndFade does not wait.
SeeEndOfFadeAtOnce ==
  /\ gui = "wait"
  /\ gui' = "erase"
  /\ UNCHANGED <<client, buffers, fade, callback, overlapped>>

\* wait_EndFade has no time out.
GiveUpNever == FALSE

\* upDate_DSP keeps the ports that the new DSP does not have.
ErasePortsNot ==
  /\ gui = "erase"
  /\ gui' = "free"
  /\ overlapped' = (overlapped \/ jack # "rest")
  /\ UNCHANGED <<client, buffers, fade, callback>>

MixStep ==
  /\ jack = "mix"
  /\ jack' = "rest"
  /\ UNCHANGED <<gui, client, buffers, fInChannel, fOutFinal, computing, overlapped, givenUp>>

\* The fade ends one period too early, as when it ended after a number of callbacks.
MixEndsEarly ==
  /\ MixStep
  /\ fInCoef' = IF fInCoef > 2 * BufferSize THEN fInCoef - BufferSize - 1 ELSE FadeLength
  /\ fDoWeFadeOut' = (fDoWeFadeOut /\ fInCoef > 2 * BufferSize)

\* The end of the fade clears the flag but not the gain.
MixWithoutReset ==
  /\ MixStep
  /\ fInCoef' = IF fInCoef > BufferSize THEN fInCoef - BufferSize - 1 ELSE 0
  /\ fDoWeFadeOut' = (fDoWeFadeOut /\ fInCoef > BufferSize)

-----------------------------------------------------------------------------
(***************************************************************************)
(* The GUI thread: FLWindow::init_Window, update_Window and closeWindow,   *)
(* with the calls they make on the fader.                                   *)
(***************************************************************************)

\* A change of the client made while a callback runs.
Overlap == overlapped' = (overlapped \/ jack # "rest")

GuiGoes(from, to) ==
  /\ gui = from
  /\ gui' = to

\* createDSP, then set_dsp on a client that is not activated yet.
OpenWindow(d) ==
  /\ GuiGoes("closed", "stopped")
  /\ alive' = alive \cup {d}
  /\ fDSP' = d
  /\ inPorts' = NumIn[d]
  /\ outPorts' = NumOut[d]
  /\ UNCHANGED <<active, fDSPIn, buffers, fade, callback, overlapped>>

\* jack_activate fails when the server does not answer; start_Audio goes on.
Start ==
  /\ GuiGoes("stopped", "running")
  /\ active' \in {TRUE, ~MayTimeOut}
  /\ UNCHANGED <<alive, fDSP, fDSPIn, inPorts, outPorts, buffers, fade,
                 callback, overlapped>>

\* jack_deactivate returns when no callback runs.
Stop ==
  /\ GuiGoes("running", "stopped")
  /\ jack = "rest"
  /\ active' = FALSE
  /\ UNCHANGED <<alive, fDSP, fDSPIn, inPorts, outPorts, buffers, fade,
                 callback, overlapped>>

\* closeWindow deletes the DSP, then the manager with its fader.
CloseWindow ==
  /\ GuiGoes("stopped", "closed")
  /\ alive' = alive \ {fDSP}
  /\ fDSP' = NoDSP
  /\ fDSPIn' = NoDSP
  /\ inPorts' = 0
  /\ outPorts' = 0
  /\ fDoWeFadeOut' = FALSE
  /\ fInCoef' = FadeLength
  /\ givenUp' = FALSE
  /\ UNCHANGED <<active, buffers, callback, overlapped>>

\* update_Window creates a DSP; init_FadeIn_Audio registers the ports it adds.
InitFadeIn(d) ==
  /\ GuiGoes("running", "allocate")
  /\ d \notin alive
  /\ alive' = alive \cup {d}
  /\ fDSPIn' = d
  /\ inPorts' = Larger(inPorts, NumIn[d])
  /\ outPorts' = Larger(outPorts, NumOut[d])
  /\ UNCHANGED <<active, fDSP, buffers, fade, callback, overlapped>>

\* launch_fadeOut allocates the buffers of both DSPs ...
AllocateBuffers ==
  /\ GuiGoes("allocate", "launch")
  /\ fIntermediateFadeIn' = NumOut[fDSPIn]
  /\ fIntermediateFadeOut' = NumOut[fDSP]
  /\ UNCHANGED <<client, fade, callback, overlapped>>

\* ... and only then raises the flag.
LaunchFade ==
  /\ GuiGoes("launch", "wait")
  /\ fDoWeFadeOut' = TRUE
  /\ givenUp' = FALSE
  /\ UNCHANGED <<client, buffers, fInCoef, callback, overlapped>>

\* wait_EndFade polls the flag every millisecond.
SeeEndOfFade ==
  /\ GuiGoes("wait", "erase")
  /\ ~fDoWeFadeOut
  /\ UNCHANGED <<client, buffers, fade, callback, overlapped>>

\* After 3 seconds it calls stop_Fade, which leaves the gain as it is.
GiveUp ==
  /\ MayTimeOut
  /\ GuiGoes("wait", "erase")
  /\ fDoWeFadeOut
  /\ fDoWeFadeOut' = FALSE
  /\ givenUp' = TRUE
  /\ UNCHANGED <<client, buffers, fInCoef, callback, overlapped>>

\* upDate_DSP unregisters the ports that the new DSP does not have, ...
ErasePorts ==
  /\ GuiGoes("erase", "free")
  /\ inPorts' = IF NumIn[fDSP] > NumIn[fDSPIn] THEN NumIn[fDSPIn] ELSE inPorts
  /\ outPorts' = IF NumOut[fDSP] > NumOut[fDSPIn] THEN NumOut[fDSPIn] ELSE outPorts
  /\ Overlap
  /\ UNCHANGED <<alive, active, fDSP, fDSPIn, buffers, fade, callback>>

\* ... frees the intermediate buffers, ...
FreeBuffers ==
  /\ GuiGoes("free", "swap")
  /\ fIntermediateFadeIn' = NoBuffers
  /\ fIntermediateFadeOut' = NoBuffers
  /\ Overlap
  /\ UNCHANGED <<client, fade, callback>>

\* ... and exchanges the two DSPs.
SwapDSPs ==
  /\ GuiGoes("swap", "delete")
  /\ fDSP' = fDSPIn
  /\ fDSPIn' = fDSP
  /\ Overlap
  /\ UNCHANGED <<alive, active, inPorts, outPorts, buffers, fade, callback>>

\* update_Window deletes the old DSP; the fader keeps a pointer to it.
DeleteOldDSP ==
  /\ GuiGoes("delete", "running")
  /\ alive' = alive \ {fDSPIn}
  /\ Overlap
  /\ UNCHANGED <<active, fDSP, fDSPIn, inPorts, outPorts, buffers, fade, callback>>

Gui ==
  \/ \E d \in DSPs : OpenWindow(d) \/ InitFadeIn(d)
  \/ Start
  \/ Stop
  \/ CloseWindow
  \/ AllocateBuffers
  \/ LaunchFade
  \/ SeeEndOfFade
  \/ GiveUp
  \/ ErasePorts
  \/ FreeBuffers
  \/ SwapDSPs
  \/ DeleteOldDSP

-----------------------------------------------------------------------------
(***************************************************************************)
(* The JACK thread: one call of processAudio.                               *)
(***************************************************************************)
JackGoes(from, to) ==
  /\ jack = from
  /\ jack' = to

\* The array of input buffers is sized by the current DSP.
BeginPeriod ==
  /\ active
  /\ JackGoes("rest", "test")
  /\ fInChannel' = NumIn[fDSP]
  /\ overlapped' = (gui \in Changing)
  /\ UNCHANGED <<gui, client, buffers, fade, fOutFinal, computing>>

\* The flag is read once.
TestFlag ==
  /\ jack = "test"
  /\ jack' = IF fDoWeFadeOut THEN "fadeOut" ELSE "outputs"
  /\ UNCHANGED <<gui, client, buffers, fade, fInChannel, fOutFinal, computing,
                 overlapped>>

BeginCompute(from, to, d) ==
  /\ JackGoes(from, to)
  /\ computing' = d
  /\ UNCHANGED <<gui, client, buffers, fade, fInChannel, fOutFinal, overlapped>>

\* Step 1 of the fade: both DSPs compute into the intermediate buffers.
BeginComputeOut == BeginCompute("fadeOut", "computeOut", fDSP)
EndComputeOut == BeginCompute("computeOut", "fadeIn", NoDSP)
BeginComputeIn == BeginCompute("fadeIn", "computeIn", fDSPIn)
EndComputeIn == BeginCompute("computeIn", "mix", NoDSP)

GainAfterMix == IF fInCoef > BufferSize THEN fInCoef - BufferSize ELSE 0

\* Step 2: the mix lowers the gain at every sample, then increment_crossFade
\* lowers it once more or, when it is zero, calls reset_Values.
Mix ==
  /\ JackGoes("mix", "rest")
  /\ IF GainAfterMix > 0
     THEN /\ fInCoef' = GainAfterMix - 1
          /\ UNCHANGED fDoWeFadeOut
     ELSE /\ fInCoef' = FadeLength
          /\ fDoWeFadeOut' = FALSE
  /\ UNCHANGED <<gui, client, buffers, fInChannel, fOutFinal, computing, overlapped, givenUp>>

\* Normal processing: fDSP is read again for the outputs, and again to compute.
GetOutputs ==
  /\ JackGoes("outputs", "compute")
  /\ fOutFinal' = NumOut[fDSP]
  /\ UNCHANGED <<gui, client, buffers, fade, fInChannel, computing, overlapped>>

BeginNormal == BeginCompute("compute", "normal", fDSP)
EndNormal == BeginCompute("normal", "rest", NoDSP)

\* The JACK server stops: processAudio is no longer called.
ServerStops ==
  /\ MayTimeOut
  /\ active
  /\ jack = "rest"
  /\ active' = FALSE
  /\ UNCHANGED <<gui, alive, fDSP, fDSPIn, inPorts, outPorts, buffers, fade,
                 callback, overlapped>>

Jack ==
  \/ BeginPeriod
  \/ TestFlag
  \/ BeginComputeOut
  \/ EndComputeOut
  \/ BeginComputeIn
  \/ EndComputeIn
  \/ Mix
  \/ GetOutputs
  \/ BeginNormal
  \/ EndNormal

Next == Gui \/ Jack \/ ServerStops


-----------------------------------------------------------------------------
(***************************************************************************)
(* Fairness.  wait_EndFade and the steps of an update run to their end on   *)
(* the GUI thread; nothing obliges the user to open, close or update.  A    *)
(* responsive JACK server calls processAudio again and again.  A stalled   *)
(* one owes nothing, but then the 3 seconds of wait_EndFade do elapse.      *)
(***************************************************************************)
UpdateSteps ==
  \/ AllocateBuffers
  \/ LaunchFade
  \/ SeeEndOfFade
  \/ GiveUp
  \/ ErasePorts
  \/ FreeBuffers
  \/ SwapDSPs
  \/ DeleteOldDSP

SafetySpec == Init /\ [][Next]_vars
Spec == SafetySpec /\ WF_vars(UpdateSteps) /\ WF_vars(Jack)
StalledSpec == SafetySpec /\ WF_vars(UpdateSteps)

-----------------------------------------------------------------------------
(***************************************************************************)
(* Properties.                                                              *)
(***************************************************************************)

\* While processAudio is in its fade branch, launch_fadeOut's buffers exist
\* with the channels both DSPs write, both DSPs are allocated and they are
\* the ones the fade began with: the flag alone protects this memory.
FadeMemory ==
  jack \in FadePoints =>
    /\ gui = "wait"
    /\ {fDSP, fDSPIn} \subseteq alive
    /\ fIntermediateFadeOut = NumOut[fDSP]
    /\ fIntermediateFadeIn = NumOut[fDSPIn]
    /\ inPorts >= Larger(NumIn[fDSP], NumIn[fDSPIn])
    /\ outPorts >= Larger(NumOut[fDSP], NumOut[fDSPIn])
    /\ jack = "computeOut" => computing = fDSP
    /\ jack = "computeIn" => computing = fDSPIn

\* A callback that upDate_DSP and the deletion of the old DSP did not overlap
\* computes a DSP that is allocated, with arrays and ports that are large
\* enough, even when earlier fades were given up: what an abandoned fade
\* leaves behind is never seen by a later callback.
CallbackSafe ==
  ~overlapped =>
    /\ computing # NoDSP => computing \in alive
    /\ jack = "test" => fInChannel <= inPorts
    /\ jack = "compute" => fOutFinal <= outPorts
    /\ jack = "normal" =>
         /\ NumIn[computing] <= fInChannel
         /\ NumOut[computing] <= fOutFinal
    /\ jack = "computeOut" =>
         /\ NumIn[computing] <= fInChannel
         /\ NumOut[computing] <= fIntermediateFadeOut
    /\ jack = "computeIn" =>
         /\ NumIn[computing] <= inPorts
         /\ NumOut[computing] <= fIntermediateFadeIn
    /\ jack = "mix" => Larger(NumOut[fDSP], NumOut[fDSPIn]) <= outPorts

\* Between two updates the client holds exactly what its current DSP needs:
\* no other DSP, no JACK port more or less, no intermediate buffer, whatever
\* the sequence of updates, of ports added and removed, and of fades given up.
NothingLeftOver ==
  gui \in {"running", "stopped"} =>
    /\ alive = {fDSP}
    /\ inPorts = NumIn[fDSP]
    /\ outPorts = NumOut[fDSP]
    /\ fIntermediateFadeOut = NoBuffers
    /\ fIntermediateFadeIn = NoBuffers

\* Every update ends: the window never stays blocked in wait_EndFade.
UpdateEnds == gui = "wait" ~> gui = "running"

\* Every update is the crossfade promised to the window, by the level that the outgoing DSP is
\* really heard with (processAudio's branches): it goes down by a period at a time and the
\* callback ends the fade only when it comes to zero; then reset_Values lets the outgoing DSP
\* be heard again, at its full level, until upDate_DSP exchanges the two.  Only stop_Fade ends a
\* fade above zero.
Promise == INSTANCE Crossfade WITH
  FullGain <- FadeLength,
  Period <- BufferSize,
  MayCut <- MayTimeOut,
  Shared <- TRUE,
  current <- fDSP,
  incoming <- IF gui \in {"wait", "erase", "free", "swap"} THEN fDSPIn ELSE NoDSP,
  phase <- IF gui \notin {"wait", "erase", "free", "swap"} THEN "none"
           ELSE IF fDoWeFadeOut THEN "fading"
           ELSE IF givenUp THEN "cut" ELSE "silenced",
  gain <- IF fDoWeFadeOut THEN fInCoef ELSE FadeLength

ImplementsCrossfade == Promise!Spec

-----------------------------------------------------------------------------
(***************************************************************************)
(* The inductive invariant: where each thread is tells what the client     *)
(* holds.                                                                   *)
(***************************************************************************)

\* The ports and buffers between the registration and the unregistration of
\* the ports that only one of the two DSPs has.
BothFit ==
  /\ inPorts = Larger(NumIn[fDSP], NumIn[fDSPIn])
  /\ outPorts = Larger(NumOut[fDSP], NumOut[fDSPIn])

Fits(d) ==
  /\ inPorts = NumIn[d]
  /\ outPorts = NumOut[d]

Buffered ==
  /\ fIntermediateFadeOut = NumOut[fDSP]
  /\ fIntermediateFadeIn = NumOut[fDSPIn]

Unbuffered ==
  /\ fIntermediateFadeOut = NoBuffers
  /\ fIntermediateFadeIn = NoBuffers

TwoDSPs ==
  /\ fDSP \in DSPs
  /\ fDSPIn \in DSPs
  /\ fDSP # fDSPIn
  /\ alive = {fDSP, fDSPIn}

GuiInv ==
  /\ gui = "closed" => alive = {} /\ fDSP = NoDSP /\ Unbuffered
  /\ gui \in {"closed", "stopped"} => jack = "rest" /\ ~active
  /\ gui \in {"stopped", "running"} =>
       fDSP \in DSPs /\ alive = {fDSP} /\ Fits(fDSP) /\ Unbuffered
  /\ gui \notin {"closed", "stopped", "running"} => TwoDSPs
  /\ gui = "allocate" => BothFit /\ Unbuffered
  /\ gui \in {"launch", "wait", "erase"} => BothFit /\ Buffered
  /\ gui = "free" => Fits(fDSPIn) /\ Buffered
  /\ gui = "swap" => Fits(fDSPIn) /\ Unbuffered
  /\ gui = "delete" => Fits(fDSP) /\ Unbuffered
  /\ fDoWeFadeOut => gui = "wait" /\ ~givenUp

\* What a callback that no update overlaps has read is still true.
JackInv ==
  /\ jack \in JackPoints \ {"computeOut", "computeIn", "normal"} => computing = NoDSP
  /\ ~overlapped /\ jack # "rest" => gui \notin Changing /\ fInChannel = NumIn[fDSP]
  /\ ~overlapped /\ jack \in FadePoints => gui \in {"wait", "erase"}
  /\ ~overlapped /\ jack \in {"compute", "normal"} => fOutFinal = NumOut[fDSP]
  /\ ~overlapped /\ jack \in {"computeOut", "normal"} => computing = fDSP
  /\ ~overlapped /\ jack = "computeIn" => computing = fDSPIn

\* When the server never lets the 3 seconds elapse, the flag covers the whole
\* fade branch and the gain is only below its full value during a fade.
FadeInv ==
  ~MayTimeOut =>
    /\ jack \in FadePoints => fDoWeFadeOut
    /\ jack = "computeOut" => computing = fDSP
    /\ jack = "computeIn" => computing = fDSPIn
    /\ ~fDoWeFadeOut => fInCoef = FadeLength

IInv == TypeOK /\ GuiInv /\ JackInv /\ FadeInv

=============================================================================
