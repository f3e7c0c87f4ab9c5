---------------------------- MODULE MCApplication ----------------------------
(* Two windows, three numbers, three files, a menu of two recent files.    *)
(* Nothing depends on which window or which file it is: both are           *)
(* interchangeable.                                                        *)
EXTENDS Application, TLC

Interchangeable == Permutations(Windows) \cup Permutations(Files)

=============================================================================
