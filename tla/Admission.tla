------------------------------ MODULE Admission ------------------------------
(***************************************************************************)
(* What runtime/host/slices.py promises its callers, without locks: an     *)
(* operation is granted a set of Spark positions, or the whole ring, only  *)
(* while no other operation holds a Spark of it.  SliceLocks implements    *)
(* this with files and flock; ModelSwitch is written on top of it.         *)
(***************************************************************************)
EXTENDS Integers

CONSTANTS
    Procs,      \* the SparkRing processes on Node A
    Positions,  \* the Spark positions of the ring
    Ring,       \* `positions is None`: the whole ring
    NoGrant     \* a process that holds nothing

\* A placement is a set of positions; Ring and NoGrant are not placements.
ASSUME AdmissionAssumption ==
    /\ Positions \subseteq Nat
    /\ \A S \in SUBSET Positions : Ring # S /\ NoGrant # S
    /\ NoGrant # Ring

Placements == {Ring} \cup SUBSET Positions

\* Mutant: only the same placement overlaps.
OverlapSameOnly(a, b) == a = b

\* placement.overlap: whether two placements share a Spark; None holds every Spark.
Overlap(a, b) == \/ a = Ring
                 \/ b = Ring
                 \/ a \cap b # {}

VARIABLE granted  \* [Procs -> what each process holds]

AdmissionTypeOK == granted \in [Procs -> {NoGrant} \cup Placements]

AdmissionInit == granted = [p \in Procs |-> NoGrant]

\* slices.hold reaches its `yield`.
Grant(p, placement) ==
    /\ granted[p] = NoGrant
    /\ \A q \in Procs \ {p} :
          granted[q] # NoGrant => ~Overlap(granted[q], placement)
    /\ granted' = [granted EXCEPT ![p] = placement]

\* slices.hold's `with` block ends, or the process dies.
Release(p) ==
    /\ granted[p] # NoGrant
    /\ granted' = [granted EXCEPT ![p] = NoGrant]

AdmissionNext == \E p \in Procs :
           \/ \E placement \in Placements : Grant(p, placement)
           \/ Release(p)

AdmissionSpec == AdmissionInit /\ [][AdmissionNext]_granted

(***************************************************************************)
(* Two operations never hold the same Spark: slices.hold's callers change  *)
(* deployments and networking on the strength of this alone.               *)
(***************************************************************************)
Disjoint ==
    \A p, q \in Procs :
        p # q /\ granted[p] # NoGrant /\ granted[q] # NoGrant
            => ~Overlap(granted[p], granted[q])
==============================================================================
