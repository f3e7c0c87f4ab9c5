--------------------------- MODULE MCAudioDrivers ---------------------------
(* Two windows, two parameters, and three drivers: the first of the list,  *)
(* JACK, whose server may die, and one that negotiates as CoreAudio does.  *)
EXTENDS AudioDrivers

=============================================================================
