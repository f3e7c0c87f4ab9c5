---------------------------- MODULE StreamFader ----------------------------
(***************************************************************************)
(* CoreAudio, PortAudio and NetJack play each DSP in an audio stream of its *)
(* own.  The manager of a window has one, fCurrentAudio; during an update   *)
(* it has a second one, fFadeInAudio, and each of the two threads that the  *)
(* driver gives them fades the stream it plays.                              *)
(*                                                                         *)
(* A fader is made for one DSP and deleted before the DSP is, so a DSP also  *)
(* names its fader.  Coefficients are counted in steps, as in JackFader.    *)
(* The threads share only the two flags, which are atomic: a step of a      *)
(* thread reads or writes one of them.                                      *)
(***************************************************************************)
EXTENDS Integers

CONSTANTS
  DSPs,         \* the DSP instances that can be created
  None,
  FadeLength,   \* gain steps of a complete fade (1 / kFadeCoefficient)
  BufferSize    \* samples per period, in gain steps

ASSUME StreamFaderAssumption ==
  /\ None \notin DSPs
  /\ FadeLength \in Nat \ {0}
  /\ BufferSize \in Nat \ {0}

VARIABLES
  gui,                        \* program counter of the GUI thread
  netJack,                    \* is the driver NetJack: chosen once, never changed
  alive, faders,              \* the DSPs, and the faders, that are allocated
  fCurrentAudio, fFadeInAudio,
  running,                    \* the streams that their driver calls
  fDoWeFadeOut, fDoWeFadeIn,  \* the faders whose flag is set
  fOutCoef, fInCoef,
  fFadedOut,                  \* the faders that have become silent
  render,                     \* program counter of the thread of each stream
  level,                      \* ghost: the gain at the end of its last buffer
  interrupted,                \* ghost: the faders whose fade was cut short, until they play
                              \* a buffer at the level they then have
  givenUp                     \* ghost: has the last fade been stopped by force

manager == <<netJack, alive, faders, fCurrentAudio, fFadeInAudio>>
flags == <<fDoWeFadeOut, fDoWeFadeIn>>
callback == <<fOutCoef, fInCoef, fFadedOut, render, level>>
ghosts == <<interrupted, givenUp>>
vars == <<gui, manager, running, flags, callback, ghosts>>

GuiPoints ==
  {"closed", "running", "stopped", "fadeIn", "fadeOut", "start", "wait", "force", "stop",
   "drain", "delete"}

RenderPoints == {"rest", "test", "out", "testIn", "in"}

\* One buffer of a fade.
Less(gain) == IF gain > BufferSize THEN gain - BufferSize ELSE 0

Init ==
  /\ gui = "closed" /\ netJack \in BOOLEAN
  /\ alive = {} /\ faders = {} /\ fCurrentAudio = None /\ fFadeInAudio = None
  /\ running = {} /\ fDoWeFadeOut = {} /\ fDoWeFadeIn = {} /\ fFadedOut = {}
  /\ fOutCoef = [d \in DSPs |-> FadeLength] /\ fInCoef = [d \in DSPs |-> FadeLength]
  /\ render = [d \in DSPs |-> "rest"]
  /\ level = [d \in DSPs |-> 0]
  /\ interrupted = {} /\ givenUp = FALSE

-----------------------------------------------------------------------------
\* reset_Values.  Each fader begins with these values; what a deleted one held is lost, so
\* they are given back when a fader is deleted.
ResetValues(d) ==
  /\ fOutCoef' = [fOutCoef EXCEPT ![d] = FadeLength]
  /\ fInCoef' = [fInCoef EXCEPT ![d] = FadeLength]
  /\ fFadedOut' = fFadedOut \ {d}
  /\ fDoWeFadeOut' = fDoWeFadeOut \ {d} /\ fDoWeFadeIn' = fDoWeFadeIn \ {d}
  /\ level' = [level EXCEPT ![d] = 0]
  /\ interrupted' = interrupted \ {d} /\ givenUp' = FALSE

-----------------------------------------------------------------------------
(* Variants: one plausible bug each, which belong to no specification. *)

\* A fade out ends before the last buffer.
FadeOutEndsEarly(d) ==
  /\ render[d] = "out"
  /\ fOutCoef' = [fOutCoef EXCEPT ![d] = Less(@)]
  /\ fDoWeFadeOut' = IF Less(fOutCoef[d]) < BufferSize THEN fDoWeFadeOut \ {d} ELSE fDoWeFadeOut
  /\ fFadedOut' = IF Less(fOutCoef[d]) = 0 THEN fFadedOut \cup {d} ELSE fFadedOut
  /\ level' = [level EXCEPT ![d] = Less(fOutCoef[d])]
  /\ render' = [render EXCEPT ![d] = "rest"]
  /\ UNCHANGED <<gui, manager, running, fDoWeFadeIn, fInCoef, ghosts>>

\* An initialisation that fails keeps the new fader, whatever the driver.
InitFadeKeepsFader(d) ==
  /\ gui = "running" /\ d \notin alive \cup faders
  /\ faders' = faders \cup {d}
  /\ \/ /\ gui' = IF netJack THEN "fadeOut" ELSE "fadeIn"
        /\ alive' = alive \cup {d}
        /\ fFadeInAudio' = d
     \/ /\ fFadeInAudio' = IF netJack THEN d ELSE None
        /\ UNCHANGED <<gui, alive>>
  /\ UNCHANGED <<netJack, fCurrentAudio, running, flags, callback, ghosts>>

\* The stream that fades in is started before its flag is set, and never gets it.
LaunchFadeInLate ==
  /\ gui = "fadeIn"
  /\ gui' = IF netJack THEN "start" ELSE "fadeOut"
  /\ UNCHANGED <<manager, running, flags, callback, ghosts>>

\* The fade in stops above zero.
FadeInNotToZero(d) ==
  /\ render[d] = "in"
  /\ fInCoef' = [fInCoef EXCEPT ![d] = IF Less(@) = 0 THEN @ ELSE Less(@)]
  /\ level' = [level EXCEPT ![d] = FadeLength - fInCoef'[d]]
  /\ render' = [render EXCEPT ![d] = "rest"]
  /\ UNCHANGED <<gui, manager, running, flags, fOutCoef, fFadedOut, ghosts>>

\* A stream that has faded out is not silenced.
TestFadeOutTwice(d) ==
  /\ render[d] = "test"
  /\ render' = [render EXCEPT ![d] = IF d \in fDoWeFadeOut THEN "out" ELSE "testIn"]
  /\ UNCHANGED <<gui, manager, running, flags, fOutCoef, fInCoef, fFadedOut, level, ghosts>>

-----------------------------------------------------------------------------
(* The GUI thread: the calls of FLWindow to the manager of its driver. *)

\* init_Window: the first DSP plays without a fade, if its stream starts.
OpenWindow(d) ==
  /\ gui = "closed" /\ d \notin faders
  /\ gui' = "running"
  /\ alive' = alive \cup {d} /\ faders' = faders \cup {d}
  /\ level' = [level EXCEPT ![d] = FadeLength]
  /\ fCurrentAudio' = d /\ running' \in {{}, {d}}
  /\ UNCHANGED <<netJack, fFadeInAudio, flags, fOutCoef, fInCoef, fFadedOut, render, ghosts>>

\* init_FadeAudio.  If it fails update_Window deletes the new DSP; the managers delete the new
\* fader, except NetJack's, which keeps it until the next one takes its place.
InitFade(d) ==
  /\ gui = "running" /\ d \notin alive \cup faders
  /\ \/ /\ gui' = IF netJack THEN "fadeOut" ELSE "fadeIn"
        /\ alive' = alive \cup {d} /\ faders' = faders \cup {d}
        /\ fFadeInAudio' = d
     \/ /\ faders' = IF netJack THEN faders \cup {d} ELSE faders
        /\ fFadeInAudio' = IF netJack THEN d ELSE None
        /\ UNCHANGED <<gui, alive>>
  /\ UNCHANGED <<netJack, fCurrentAudio, running, flags, callback, ghosts>>

\* start_Fade: NetJack launches the two fades in the other order.
LaunchFadeIn ==
  /\ gui = "fadeIn"
  /\ fDoWeFadeIn' = fDoWeFadeIn \cup {fFadeInAudio}
  /\ gui' = IF netJack THEN "start" ELSE "fadeOut"
  /\ UNCHANGED <<manager, running, fDoWeFadeOut, callback, ghosts>>

LaunchFadeOut ==
  /\ gui = "fadeOut"
  /\ fDoWeFadeOut' = fDoWeFadeOut \cup {fCurrentAudio}
  /\ gui' = IF netJack THEN "fadeIn" ELSE "start"
  /\ interrupted' = IF fCurrentAudio \in fDoWeFadeIn
                    THEN interrupted \cup {fCurrentAudio} ELSE interrupted
  /\ UNCHANGED <<manager, running, fDoWeFadeIn, callback, givenUp>>

StartFadeIn ==
  /\ gui = "start"
  /\ gui' = "wait"
  /\ running' \in {running, running \cup {fFadeInAudio}}
  /\ UNCHANGED <<manager, flags, callback, ghosts>>

\* wait_EndFade.
SeeEndOfFade ==
  /\ gui = "wait" /\ fCurrentAudio \notin fDoWeFadeOut
  /\ gui' = "stop"
  /\ UNCHANGED <<manager, running, flags, callback, ghosts>>

\* After 3 seconds, or with NetJack at once: stop_Fade for both.
ForceIn ==
  /\ gui = "wait" /\ fCurrentAudio \in fDoWeFadeOut
  /\ gui' = "force"
  /\ fDoWeFadeOut' = fDoWeFadeOut \ {fFadeInAudio} /\ fDoWeFadeIn' = fDoWeFadeIn \ {fFadeInAudio}
  /\ interrupted' = interrupted \cup {fFadeInAudio}
  /\ UNCHANGED <<manager, running, callback, givenUp>>

ForceOut ==
  /\ gui = "force"
  /\ gui' = "stop"
  /\ fDoWeFadeOut' = fDoWeFadeOut \ {fCurrentAudio} /\ fDoWeFadeIn' = fDoWeFadeIn \ {fCurrentAudio}
  /\ interrupted' = interrupted \cup {fCurrentAudio} /\ givenUp' = TRUE
  /\ UNCHANGED <<manager, running, callback>>

\* The driver begins no other buffer; stop returns at the end of the one in progress.
StopOld ==
  /\ gui = "stop"
  /\ gui' = "drain"
  /\ running' = running \ {fCurrentAudio}
  /\ UNCHANGED <<manager, flags, callback, ghosts>>

\* The pointers are exchanged before the old fader is deleted: fFadeInAudio is left dangling.
DeleteOldFader ==
  /\ gui = "drain" /\ render[fCurrentAudio] = "rest"
  /\ gui' = "delete"
  /\ fCurrentAudio' = fFadeInAudio /\ fFadeInAudio' = fCurrentAudio
  /\ faders' = faders \ {fCurrentAudio} /\ ResetValues(fCurrentAudio)
  /\ UNCHANGED <<netJack, alive, running, render>>

\* update_Window.
DeleteOldDSP ==
  /\ gui = "delete"
  /\ gui' = "running"
  /\ alive' = alive \ {fFadeInAudio}
  /\ UNCHANGED <<netJack, faders, fCurrentAudio, fFadeInAudio, running, flags, callback, ghosts>>

\* closeWindow stops the stream, then deletes the DSP and the manager with its fader.
StopAudio ==
  /\ gui = "running"
  /\ gui' = "stopped"
  /\ running' = running \ {fCurrentAudio}
  /\ UNCHANGED <<manager, flags, callback, ghosts>>

CloseWindow ==
  /\ gui = "stopped" /\ render[fCurrentAudio] = "rest"
  /\ gui' = "closed"
  /\ alive' = alive \ {fCurrentAudio} /\ faders' = faders \ {fCurrentAudio}
  /\ ResetValues(fCurrentAudio)
  /\ fCurrentAudio' = None /\ fFadeInAudio' = None
  /\ UNCHANGED <<netJack, running, render>>

-----------------------------------------------------------------------------
(* The thread of a stream: the DSP computes a buffer, then crossfade_Calcul. *)

Compute(d) ==
  /\ d \in running /\ render[d] = "rest"
  /\ render' = [render EXCEPT ![d] = "test"]
  /\ UNCHANGED <<gui, manager, running, flags, fOutCoef, fInCoef, fFadedOut, level, ghosts>>

TestFadeOut(d) ==
  /\ render[d] = "test"
  /\ render' = [render EXCEPT ![d] =
       IF d \in fFadedOut THEN "rest" ELSE IF d \in fDoWeFadeOut THEN "out" ELSE "testIn"]
  /\ level' = IF d \in fFadedOut THEN [level EXCEPT ![d] = 0] ELSE level
  /\ UNCHANGED <<gui, manager, running, flags, fOutCoef, fInCoef, fFadedOut, ghosts>>

\* fFadedOut is set before the flag is cleared; no other thread reads it.
FadeOut(d) ==
  /\ render[d] = "out"
  /\ fOutCoef' = [fOutCoef EXCEPT ![d] = Less(@)]
  /\ fFadedOut' = IF Less(fOutCoef[d]) = 0 THEN fFadedOut \cup {d} ELSE fFadedOut
  /\ fDoWeFadeOut' = IF Less(fOutCoef[d]) = 0 THEN fDoWeFadeOut \ {d} ELSE fDoWeFadeOut
  /\ level' = [level EXCEPT ![d] = Less(fOutCoef[d])]
  /\ render' = [render EXCEPT ![d] = "rest"]
  /\ interrupted' = IF d \in fDoWeFadeOut THEN interrupted \ {d} ELSE interrupted
  /\ UNCHANGED <<gui, manager, running, fDoWeFadeIn, fInCoef, givenUp>>

\* No fade: the buffer is left as it is.
TestFadeIn(d) ==
  /\ render[d] = "testIn"
  /\ \/ /\ d \in fDoWeFadeIn
        /\ render' = [render EXCEPT ![d] = "in"]
        /\ UNCHANGED <<level, interrupted>>
     \/ /\ d \notin fDoWeFadeIn
        /\ render' = [render EXCEPT ![d] = "rest"]
        /\ level' = [level EXCEPT ![d] = FadeLength]
        /\ interrupted' = interrupted \ {d}
  /\ UNCHANGED <<gui, manager, running, flags, fOutCoef, fInCoef, fFadedOut, givenUp>>

FadeIn(d) ==
  /\ render[d] = "in"
  /\ fInCoef' = [fInCoef EXCEPT ![d] = IF Less(@) = 0 THEN FadeLength ELSE Less(@)]
  /\ fDoWeFadeIn' = IF Less(fInCoef[d]) = 0 THEN fDoWeFadeIn \ {d} ELSE fDoWeFadeIn
  /\ level' = [level EXCEPT ![d] = FadeLength - Less(fInCoef[d])]
  /\ render' = [render EXCEPT ![d] = "rest"]
  /\ UNCHANGED <<gui, manager, running, fDoWeFadeOut, fOutCoef, fFadedOut, ghosts>>

Stream(d) == Compute(d) \/ TestFadeOut(d) \/ FadeOut(d) \/ TestFadeIn(d) \/ FadeIn(d)

UpdateSteps ==
  \/ LaunchFadeIn \/ LaunchFadeOut \/ StartFadeIn \/ SeeEndOfFade \/ ForceIn \/ ForceOut
  \/ StopOld \/ DeleteOldFader \/ DeleteOldDSP

Next ==
  \/ \E d \in DSPs : OpenWindow(d) \/ InitFade(d) \/ Stream(d)
  \/ UpdateSteps \/ StopAudio \/ CloseWindow

SafetySpec == Init /\ [][Next]_vars

\* A handler of the GUI thread goes on to its end, and a driver calls the streams it runs.
Spec == SafetySpec /\ WF_vars(UpdateSteps) /\ \A d \in DSPs : WF_vars(Stream(d))

-----------------------------------------------------------------------------
(* Properties. *)

TypeOK ==
  /\ gui \in GuiPoints /\ netJack \in BOOLEAN
  /\ alive \subseteq DSPs /\ faders \subseteq DSPs
  /\ fCurrentAudio \in DSPs \cup {None} /\ fFadeInAudio \in DSPs \cup {None}
  /\ running \subseteq DSPs /\ fDoWeFadeOut \subseteq DSPs /\ fDoWeFadeIn \subseteq DSPs
  /\ fOutCoef \in [DSPs -> 0 .. FadeLength] /\ fInCoef \in [DSPs -> 1 .. FadeLength]
  /\ fFadedOut \subseteq DSPs /\ render \in [DSPs -> RenderPoints]
  /\ level \in [DSPs -> 0 .. FadeLength]
  /\ interrupted \subseteq DSPs /\ givenUp \in BOOLEAN

\* Whatever the thread of a stream is doing, its fader and its DSP exist: wait_EndFade deletes
\* the first, update_Window the second, and closing the window both.
StreamsAreAlive == \A d \in DSPs : d \in running \/ render[d] # "rest" => d \in alive \cap faders

\* Between two updates a window holds its own DSP and its own stream, and only NetJack keeps
\* the faders that it could not initialise.
NothingLeftOver ==
  gui \in {"closed", "running", "stopped"} =>
    /\ alive = {fCurrentAudio} \ {None}
    /\ running \subseteq alive /\ alive \subseteq faders
    /\ netJack \/ faders = alive

\* When wait_EndFade has seen the end of a fade, the DSP that goes is silent and stays so
\* until its stream has stopped ("stay silent", crossfade_Calcul).
SilentWhenStopped ==
  gui \in {"stop", "drain"} /\ ~givenUp => level[fCurrentAudio] = 0

\* From one buffer of a stream to the next the gain changes by at most one buffer of the fade,
\* whatever the order in which the flags of the two streams are set, seen and cleared
\* ("crossfaded to avoid brutal interruption in the sound"), unless a fade was cut short.
Smooth ==
  [][\A d \in (faders \cap faders') \ interrupted :
       level'[d] - level[d] \in -BufferSize .. BufferSize]_vars

\* An update is the crossfade of the abstract specification, by the gain that crossfade_Calcul
\* gives to the next buffer of the outgoing DSP: it starts from the full level and goes down by a
\* buffer at a time, a fade ends by itself only with the buffer that takes it to zero, and from
\* there to the exchange the outgoing DSP is not heard.  Only stop_Fade, which wait_EndFade
\* calls, ends a fade otherwise: the outgoing DSP then comes back at its full level.
FadeBegun ==
  gui \in {"start", "wait", "force", "stop", "drain"} \/ (gui = "fadeIn" /\ netJack)
Heard ==
  IF ~FadeBegun THEN FadeLength
  ELSE IF fCurrentAudio \in fFadedOut THEN 0
  ELSE IF fCurrentAudio \in fDoWeFadeOut THEN fOutCoef[fCurrentAudio] ELSE FadeLength
Phase ==
  IF ~FadeBegun THEN "none"
  ELSE IF fCurrentAudio \in fDoWeFadeOut THEN "fading"
  ELSE IF givenUp THEN "cut" ELSE "silenced"
Promise == INSTANCE Crossfade WITH
  NoDSP <- None, FullGain <- FadeLength, Period <- BufferSize, MayCut <- TRUE, Shared <- FALSE,
  current <- fCurrentAudio, incoming <- IF FadeBegun THEN fFadeInAudio ELSE None,
  phase <- Phase, gain <- Heard
ImplementsCrossfade == Promise!Spec

\* A DSP that plays comes to its full volume, also when its fade in outlasts the update.
FullVolume ==
  \A d \in DSPs : gui = "running" /\ fCurrentAudio = d /\ d \in running
                    ~> level[d] = FadeLength \/ d \notin running \/ gui # "running"

-----------------------------------------------------------------------------
(* The inductive invariant. *)

Live == alive \cap faders

Updating == {"fadeIn", "fadeOut", "start", "wait", "force", "stop", "drain", "delete"}

\* What the window holds at each step of the GUI thread.
GuiInv ==
  /\ gui = "closed" => fCurrentAudio = None /\ alive = {} /\ running = {}
  /\ gui \in {"running", "stopped"} =>
       fCurrentAudio \in DSPs /\ alive = {fCurrentAudio} /\ running \subseteq alive
  /\ gui = "stopped" => running = {}
  /\ gui \in Updating =>
       /\ fCurrentAudio \in DSPs /\ fFadeInAudio \in DSPs \ {fCurrentAudio}
       /\ alive = {fCurrentAudio, fFadeInAudio}
  /\ gui \in {"fadeIn", "fadeOut", "start", "delete"} => running \subseteq {fCurrentAudio}
  /\ gui \in {"wait", "force", "stop"} => running \subseteq alive
  /\ gui = "drain" => running \subseteq {fFadeInAudio}
  /\ gui # "delete" => alive \subseteq faders
  /\ gui = "delete" => fCurrentAudio \in faders /\ fFadeInAudio \notin faders
  /\ netJack \/ faders \subseteq alive

\* No thread uses a fader or a DSP that is not both there, and such a fader is as new.
DeadInv ==
  \A d \in DSPs \ Live :
    /\ d \notin running \cup fDoWeFadeOut \cup fDoWeFadeIn \cup fFadedOut
    /\ render[d] = "rest"
    /\ fOutCoef[d] = FadeLength /\ fInCoef[d] = FadeLength /\ level[d] = 0

\* Only the current stream fades out, once its flag has been set and until it is deleted; when
\* the flag is cleared by the stream itself the fade is complete.
FadingOut(d) ==
  /\ d = fCurrentAudio
  /\ gui \in {"start", "wait", "force", "stop", "drain"} \/ (gui = "fadeIn" /\ netJack)

OutInv ==
  /\ \A d \in DSPs : fOutCoef[d] = 0 <=> d \in fFadedOut
  /\ \A d \in fFadedOut : render[d] \in {"rest", "test"} /\ level[d] = 0
  /\ \A d \in DSPs : ~FadingOut(d) =>
       d \notin fDoWeFadeOut /\ fOutCoef[d] = FadeLength /\ render[d] # "out"
  /\ gui \in {"start", "wait", "force"} \/ (gui = "fadeIn" /\ netJack) =>
       fCurrentAudio \in fDoWeFadeOut \cup fFadedOut
  /\ gui \in {"stop", "drain"} /\ ~givenUp => fCurrentAudio \in fFadedOut

\* wait_EndFade leaves its loop with the flag cleared, and only there has it given up.
CutInv ==
  /\ gui \in {"stop", "drain"} => fCurrentAudio \notin fDoWeFadeOut
  /\ givenUp => gui \in {"stop", "drain"}
  /\ fDoWeFadeOut \cap fFadedOut = {}

\* The fader of the new DSP, before its flag is set.
NotLaunched(d) ==
  d = fFadeInAudio /\ (gui = "fadeIn" \/ (gui = "fadeOut" /\ netJack))

\* The level that each stream has reached follows from its flags and coefficients.
LevelInv ==
  /\ \A d \in DSPs : NotLaunched(d) =>
       /\ d \notin fDoWeFadeIn \cup running
       /\ render[d] = "rest" /\ level[d] = 0 /\ fInCoef[d] = FadeLength
  /\ \A d \in DSPs : render[d] = "out" => d \in fDoWeFadeOut \cup interrupted
  /\ \A d \in DSPs : render[d] = "in" =>
       d \in interrupted \/ (d \in fDoWeFadeIn /\ d \notin fDoWeFadeOut \cup fFadedOut)
  /\ \A d \in fDoWeFadeOut : render[d] = "testIn" =>
       /\ fOutCoef[d] = FadeLength
       /\ d \notin interrupted => d \notin fDoWeFadeIn
  /\ \A d \in Live \ interrupted :
       /\ d \in fDoWeFadeOut => level[d] = fOutCoef[d]
       /\ d \notin fDoWeFadeOut \cup fFadedOut /\ d \in fDoWeFadeIn =>
            level[d] = FadeLength - fInCoef[d]
       /\ d \notin fDoWeFadeOut \cup fFadedOut \cup fDoWeFadeIn =>
            NotLaunched(d) \/ level[d] = FadeLength

IInv == TypeOK /\ GuiInv /\ DeadInv /\ OutInv /\ CutInv /\ LevelInv
=============================================================================
