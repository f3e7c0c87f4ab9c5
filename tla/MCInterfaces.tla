---------------------------- MODULE MCInterfaces ----------------------------
(* HTTP, OSC and polyphony, whose voices are edited too; the default of    *)
(* HTTP changes.                                                           *)
EXTENDS Interfaces

=============================================================================
