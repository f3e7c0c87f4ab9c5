--------------------------- MODULE MCFileWatcher ---------------------------
(***************************************************************************)
(* Files of one folder: f1 may import f2.                                  *)
(***************************************************************************)
EXTENDS FileWatcher, TLC

CONSTANTS w1, w2, f1, f2, d1

MCWindows == {w1, w2}
MCFiles == {f1, f2}
MCDirs == {d1}
MCDirOf == [f \in MCFiles |-> d1]
MCImports == f1 :> {f2} @@ f2 :> {}
OneWindow == {w1}
NoImports == [f \in MCFiles |-> {}]
=============================================================================
