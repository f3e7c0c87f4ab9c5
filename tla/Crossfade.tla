----------------------------- MODULE Crossfade -----------------------------
(***************************************************************************)
(* What an audio manager promises to the window that owns it: the DSP that *)
(* is heard is replaced by another one with a fade.  The gain is the one    *)
(* that the outgoing DSP is really heard with: it goes down by at most one  *)
(* period at a time and reaches zero before the incoming DSP takes its      *)
(* place, unless the manager has given up on the fade.                      *)
(*                                                                         *)
(* There are two kinds of managers.  JACK plays both DSPs in one client     *)
(* with one fader (Shared): when the outgoing DSP has become silent the     *)
(* fader is reset, so that this DSP is heard again, at its full level,      *)
(* until the exchange; and a fade that was given up leaves its gain to the  *)
(* next one.  The others have a stream and a fader for each DSP, and the    *)
(* outgoing one stays silent.                                               *)
(*                                                                         *)
(* AudioManager.h declares the calls (init_FadeAudio, start_Fade,           *)
(* wait_EndFade); the drivers JackFader and StreamFader implement them.     *)
(***************************************************************************)
EXTENDS Integers

CONSTANTS
  DSPs,      \* the DSP instances
  NoDSP,     \* no instance
  FullGain,  \* number of gain steps of a complete fade
  Period,    \* number of gain steps in one audio period
  MayCut,    \* may a fade be given up before its end
  Shared     \* does one fader serve all the fades

VARIABLES
  current,   \* the DSP that is heard (NoDSP: the window has no audio)
  incoming,  \* the DSP that fades in (NoDSP: no fade)
  phase,     \* the state of the fade
  gain       \* the gain that the current DSP is heard with during the fade

vars == <<current, incoming, phase, gain>>

Phases == {"none", "fading", "silenced", "cut"}

Init ==
  /\ current = NoDSP
  /\ incoming = NoDSP
  /\ phase = "none"
  /\ gain = FullGain

\* The window gets its first DSP.
Open(d) ==
  /\ current = NoDSP
  /\ current' = d
  /\ UNCHANGED <<incoming, phase, gain>>

\* A fade towards d starts from the full gain, or from where a shared fader gave up.
Begin(d) ==
  /\ phase = "none"
  /\ current \notin {NoDSP, d}
  /\ incoming' = d
  /\ phase' = "fading"
  /\ gain' = FullGain \/ (MayCut /\ Shared /\ gain' \in 0 .. FullGain)
  /\ UNCHANGED current

\* One period of the fade, and the sample more that a shared fader takes off.
Lower ==
  /\ phase = "fading"
  /\ gain' \in 0 .. gain - 1
  /\ gain - gain' <= IF Shared THEN Period + 1 ELSE Period
  /\ UNCHANGED <<current, incoming, phase>>

\* The last period, which takes the gain to zero.
Silence ==
  /\ phase = "fading"
  /\ gain <= Period
  /\ phase' = "silenced"
  /\ gain' = IF Shared THEN FullGain ELSE 0
  /\ UNCHANGED <<current, incoming>>

\* The fade is given up: from here to the exchange nothing is promised of the gain.
Cut ==
  /\ MayCut
  /\ phase # "none"
  /\ phase' = "cut"
  /\ gain' \in 0 .. FullGain
  /\ UNCHANGED <<current, incoming>>

\* The incoming DSP becomes the current one.
Switch ==
  /\ phase \in {"silenced", "cut"}
  /\ current' = incoming
  /\ incoming' = NoDSP
  /\ phase' = "none"
  /\ gain' = FullGain

\* The window closes.
Close ==
  /\ current # NoDSP
  /\ phase = "none"
  /\ current' = NoDSP
  /\ UNCHANGED <<incoming, phase, gain>>

Next ==
  \/ \E d \in DSPs : Open(d) \/ Begin(d)
  \/ Lower
  \/ Silence
  \/ Cut
  \/ Switch
  \/ Close

Spec == Init /\ [][Next]_vars

=============================================================================
