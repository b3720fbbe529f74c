---------------------------- MODULE MCSliceLocks ----------------------------
(***************************************************************************)
(* SliceLocks for TLC: three processes, one Spark, two Sparks and the ring *)
(* (the proofs of SliceLocksProofs are for any).                           *)
(***************************************************************************)
EXTENDS SliceLocks

MCPositions == 0..1
MCRequests == {{1}, {0, 1}, Ring}
=============================================================================
