--------------------------- MODULE MCSessionCache ---------------------------
(***************************************************************************)
(* One file, two programs to write in it, and the empty program.            *)
(***************************************************************************)
EXTENDS SessionCache
=============================================================================
