--------------------------- MODULE MCStreamFader ---------------------------
(***************************************************************************)
(* Three DSPs: an update needs two, and the third replaces the second while *)
(* it may still be fading in.                                               *)
(***************************************************************************)
EXTENDS StreamFader

CONSTANTS d1, d2, d3

MCDSPs == {d1, d2, d3}

=============================================================================
