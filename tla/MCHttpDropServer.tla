-------------------------- MODULE MCHttpDropServer -------------------------
(***************************************************************************)
(* Three clients, one more than the server accepts, and one window: a       *)
(* program is for that window, open or closed, or for a new one.            *)
(***************************************************************************)
EXTENDS HttpDropServer
=============================================================================
