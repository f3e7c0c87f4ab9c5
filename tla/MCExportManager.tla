-------------------------- MODULE MCExportManager --------------------------
(* Two programs, two targets, and two requests at a time: the reply of an  *)
(* export and that of an earlier one, or of the list of targets.           *)
EXTENDS ExportManager

=============================================================================
