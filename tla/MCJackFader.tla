---------------------------- MODULE MCJackFader ----------------------------
(***************************************************************************)
(* Three DSPs whose numbers of ports go up and down in both directions: d1 *)
(* to d2 adds an input and d1 to d3 removes one and adds an output.         *)
(***************************************************************************)
EXTENDS JackFader, TLC

CONSTANTS d1, d2, d3

MCDSPs == {d1, d2, d3}
MCNumIn == d1 :> 1 @@ d2 :> 2 @@ d3 :> 0
MCNumOut == d1 :> 1 @@ d2 :> 1 @@ d3 :> 2

=============================================================================
