--------------------------- MODULE MCDeployEngine ---------------------------
(* The shape of "up" on four ranks: a check, a changing phase on every      *)
(* rank, one on rank 0 alone, and a last check.                             *)
EXTENDS DeployEngine

MCRows == <<{0, 1, 2}, {0, 1, 2, 3}, {0}, {0, 1, 2}>>
MCChanging == {2, 3}
=============================================================================
