------------------------- MODULE MCWindowLifecycle -------------------------
(***************************************************************************)
(* Windows, programs and units are only compared with each other and with  *)
(* None: they are interchangeable (no liveness is checked on this module).  *)
(***************************************************************************)
EXTENDS WindowLifecycle, TLC

Interchangeable == Permutations(Windows) \cup Permutations(Codes) \cup Permutations(Units)
=============================================================================
