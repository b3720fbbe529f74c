----------------------------- MODULE SliceLocks -----------------------------
(***************************************************************************)
(* runtime/host/slices.py over runtime/common/process_lock.py: admission   *)
(* of operations through three kinds of flock files,                       *)
(*                                                                         *)
(*   admission.lock     waited for; held while locks are taken or probed   *)
(*   install.lock       the ring gate, shared by operations on positions,  *)
(*                      exclusive for the whole ring; never waited for     *)
(*   slice-locks/spark-N.lock   one per position, exclusive, never waited  *)
(*                      for, taken in ascending order                      *)
(*                                                                         *)
(* and of the liveness probe slices.active, which briefly owns every idle  *)
(* lock it asks about.  A process may be killed at any step: the kernel    *)
(* then drops its locks and leaves what it wrote into the files.           *)
(***************************************************************************)
EXTENDS Integers

CONSTANTS
    Procs,      \* processes on Node A: commands, the recovery timer, the dashboard
    Positions,  \* Spark positions
    Ring,       \* `positions is None`
    NoGrant,    \* abstract: a process that holds nothing
    Requests,   \* what operations ask for, expansion (slices.affected) included
    None        \* no process

ASSUME SliceLocksAssumption ==
    /\ Positions \subseteq Nat
    /\ \A S \in SUBSET Positions : Ring # S /\ NoGrant # S
    /\ NoGrant # Ring
    /\ None \notin Procs
    /\ \A r \in Requests : r = Ring \/ (r \in SUBSET Positions /\ r # {})

VARIABLES
    admission,  \* the owner of admission.lock
    gate,       \* [Procs -> {"none", "shared", "exclusive"}]: each one's flock on install.lock
    slice,      \* [Positions -> the owner of spark-N.lock]
    meta,       \* [Positions -> the process named inside spark-N.lock]
    pc,         \* [Procs -> where the process is in hold() or active()]
    sel,        \* [Procs -> `selected` of hold()]
    todo,       \* [Procs -> positions the current loop has still to visit]
    seen        \* [Procs -> the owner _active read before it asked for the lock]

vars == <<admission, gate, slice, meta, pc, sel, todo, seen>>

States == {"idle", "wait_hold", "wait_active", "gate", "take", "close", "body",
           "leave", "probe_gate", "gate_probed", "probe", "read", "probed"}

\* The states between acquiring and releasing admission.lock.
Admitted == {"gate", "take", "close", "probe_gate", "gate_probed", "probe", "read", "probed"}

TypeOK ==
    /\ admission \in Procs \cup {None}
    /\ gate \in [Procs -> {"none", "shared", "exclusive"}]
    /\ slice \in [Positions -> Procs \cup {None}]
    /\ meta \in [Positions -> Procs \cup {None}]
    /\ pc \in [Procs -> States]
    /\ sel \in [Procs -> {Ring} \cup SUBSET Positions]
    /\ todo \in [Procs -> SUBSET Positions]
    /\ seen \in [Procs -> Procs \cup {None}]

Init ==
    /\ admission = None
    /\ gate = [p \in Procs |-> "none"]
    /\ slice = [i \in Positions |-> None]
    /\ meta = [i \in Positions |-> None]
    /\ pc = [p \in Procs |-> "idle"]
    /\ sel = [p \in Procs |-> {}]
    /\ todo = [p \in Procs |-> {}]
    /\ seen = [p \in Procs |-> None]

\* `sorted(set(selected or ()))`: the whole ring takes no position locks.
PositionsOf(s) == IF s = Ring THEN {} ELSE s

\* The next position of a loop over sorted positions.
IsFirst(i, S) == i \in S /\ \A j \in S : i <= j

\* Mutant: the exclusive gate ignores the operations that share it.
GateFreeIgnoresShared(p, s) == \A q \in Procs \ {p} : gate[q] # "exclusive"

\* install.lock is free for p in the mode its selection needs (LOCK_NB succeeds).
GateFree(p, s) ==
    \A q \in Procs \ {p} : IF s = Ring THEN gate[q] = "none"
                                       ELSE gate[q] # "exclusive"

\* The call ended: its local variables are gone.
Forget(p) ==
    /\ pc' = [pc EXCEPT ![p] = "idle"]
    /\ sel' = [sel EXCEPT ![p] = {}]
    /\ todo' = [todo EXCEPT ![p] = {}]
    /\ seen' = [seen EXCEPT ![p] = None]

-----------------------------------------------------------------------------
\* slices.hold is called; it waits for admission.lock.
CallHold(p) ==
    /\ pc[p] = "idle"
    /\ \E r \in Requests : sel' = [sel EXCEPT ![p] = r]
    /\ pc' = [pc EXCEPT ![p] = "wait_hold"]
    /\ UNCHANGED <<admission, gate, slice, meta, todo, seen>>

\* slices.active is called (assess, busy, install --cancel); it waits for admission.lock.
CallActive(p) ==
    /\ pc[p] = "idle"
    /\ pc' = [pc EXCEPT ![p] = "wait_active"]
    /\ UNCHANGED <<admission, gate, slice, meta, sel, todo, seen>>

\* Mutant: a probe does not take admission.lock.
AdmitWithoutProbeLock(p) ==
    /\ \/ /\ pc[p] = "wait_hold"
          /\ admission = None
          /\ admission' = p
          /\ pc' = [pc EXCEPT ![p] = "gate"]
       \/ /\ pc[p] = "wait_active"
          /\ pc' = [pc EXCEPT ![p] = "probe_gate"]
          /\ UNCHANGED admission
    /\ UNCHANGED <<gate, slice, meta, sel, todo, seen>>

\* flock(admission.lock, LOCK_EX) returns.
Admit(p) ==
    /\ admission = None
    /\ \/ pc[p] = "wait_hold" /\ pc' = [pc EXCEPT ![p] = "gate"]
       \/ pc[p] = "wait_active" /\ pc' = [pc EXCEPT ![p] = "probe_gate"]
    /\ admission' = p
    /\ UNCHANGED <<gate, slice, meta, sel, todo, seen>>

\* Mutant: install.lock is always taken shared.
TakeGateShared(p) ==
    /\ pc[p] = "gate"
    /\ IF GateFree(p, sel[p])
         THEN /\ gate' = [gate EXCEPT ![p] = "shared"]
              /\ todo' = [todo EXCEPT ![p] = PositionsOf(sel[p])]
              /\ pc' = [pc EXCEPT ![p] = "take"]
         ELSE /\ pc' = [pc EXCEPT ![p] = "close"]
              /\ UNCHANGED <<gate, todo>>
    /\ UNCHANGED <<admission, slice, meta, sel, seen>>

\* hold() takes install.lock without waiting.
TakeGate(p) ==
    /\ pc[p] = "gate"
    /\ IF GateFree(p, sel[p])
         THEN /\ gate' = [gate EXCEPT ![p] = IF sel[p] = Ring THEN "exclusive" ELSE "shared"]
              /\ todo' = [todo EXCEPT ![p] = PositionsOf(sel[p])]
              /\ pc' = [pc EXCEPT ![p] = "take"]
         ELSE /\ pc' = [pc EXCEPT ![p] = "close"]
              /\ UNCHANGED <<gate, todo>>
    /\ UNCHANGED <<admission, slice, meta, sel, seen>>

\* Mutant: a position lock that is taken is passed over instead of refused.
TakeSliceSkipsTaken(p) ==
    /\ pc[p] = "take"
    /\ \E i \in todo[p] :
          /\ IsFirst(i, todo[p])
          /\ IF slice[i] = None
               THEN slice' = [slice EXCEPT ![i] = p] /\ meta' = [meta EXCEPT ![i] = p]
               ELSE UNCHANGED <<slice, meta>>
          /\ todo' = [todo EXCEPT ![p] = @ \ {i}]
    /\ UNCHANGED <<admission, gate, pc, sel, seen>>

\* Mutant: the owner record is not written into the lock file.
TakeSliceUnsigned(p) ==
    /\ pc[p] = "take"
    /\ \E i \in todo[p] :
          /\ IsFirst(i, todo[p])
          /\ IF slice[i] = None
               THEN /\ slice' = [slice EXCEPT ![i] = p]
                    /\ todo' = [todo EXCEPT ![p] = @ \ {i}]
                    /\ UNCHANGED pc
               ELSE /\ pc' = [pc EXCEPT ![p] = "close"]
                    /\ UNCHANGED <<slice, todo>>
    /\ UNCHANGED <<admission, gate, meta, sel, seen>>

\* hold() takes the next position lock without waiting and writes its owner record into it.
TakeSlice(p) ==
    /\ pc[p] = "take"
    /\ \E i \in todo[p] :
          /\ IsFirst(i, todo[p])
          /\ IF slice[i] = None
               THEN /\ slice' = [slice EXCEPT ![i] = p]
                    /\ meta' = [meta EXCEPT ![i] = p]
                    /\ todo' = [todo EXCEPT ![p] = @ \ {i}]
                    /\ UNCHANGED pc
               ELSE /\ pc' = [pc EXCEPT ![p] = "close"]
                    /\ UNCHANGED <<slice, meta, todo>>
    /\ UNCHANGED <<admission, gate, sel, seen>>

\* A lock was refused: stack.close() drops what was taken, and _active lists the
\* holders for the error, still under admission.lock.
Close(p) ==
    /\ pc[p] = "close"
    /\ gate' = [gate EXCEPT ![p] = "none"]
    /\ slice' = [i \in Positions |-> IF slice[i] = p THEN None ELSE slice[i]]
    /\ pc' = [pc EXCEPT ![p] = "probe_gate"]
    /\ UNCHANGED <<admission, meta, sel, todo, seen>>

\* Mutant: the body runs inside the admission lock.
EnterStillAdmitted(p) ==
    /\ pc[p] = "take"
    /\ todo[p] = {}
    /\ pc' = [pc EXCEPT ![p] = "body"]
    /\ UNCHANGED <<admission, gate, slice, meta, sel, todo, seen>>

\* hold() has every lock: admission.lock is released and the body runs.
Enter(p) ==
    /\ pc[p] = "take"
    /\ todo[p] = {}
    /\ admission' = None
    /\ pc' = [pc EXCEPT ![p] = "body"]
    /\ UNCHANGED <<gate, slice, meta, sel, todo, seen>>

\* The ExitStack unwinds after the body: the last lock taken is released first,
\* the gate last.  Nobody waits for these releases.
LeaveSlice(p) ==
    /\ pc[p] \in {"body", "leave"}
    /\ \E i \in Positions :
          /\ slice[i] = p
          /\ \A j \in Positions : slice[j] = p => j <= i
          /\ slice' = [slice EXCEPT ![i] = None]
    /\ pc' = [pc EXCEPT ![p] = "leave"]
    /\ UNCHANGED <<admission, gate, meta, sel, todo, seen>>

LeaveGate(p) ==
    /\ pc[p] \in {"body", "leave"}
    /\ \A i \in Positions : slice[i] # p
    /\ gate' = [gate EXCEPT ![p] = "none"]
    /\ Forget(p)
    /\ UNCHANGED <<admission, slice, meta>>

\* _held(install.lock, shared=True): a ring-wide holder answers the scan; otherwise
\* the probe itself owns the gate for a moment.
ProbeGate(p) ==
    /\ pc[p] = "probe_gate"
    /\ IF \A q \in Procs \ {p} : gate[q] # "exclusive"
         THEN /\ gate' = [gate EXCEPT ![p] = "shared"]
              /\ pc' = [pc EXCEPT ![p] = "gate_probed"]
              /\ UNCHANGED todo
         ELSE /\ todo' = [todo EXCEPT ![p] = {}]
              /\ pc' = [pc EXCEPT ![p] = "probe"]
              /\ UNCHANGED gate
    /\ UNCHANGED <<admission, slice, meta, sel, seen>>

\* Mutant: the scan runs one position past the ring.
ProbeGateDonePastEnd(p) ==
    /\ pc[p] = "gate_probed"
    /\ gate' = [gate EXCEPT ![p] = "none"]
    /\ todo' = [todo EXCEPT ![p] = {i + 1 : i \in Positions}]
    /\ pc' = [pc EXCEPT ![p] = "probe"]
    /\ UNCHANGED <<admission, slice, meta, sel, seen>>

ProbeGateDone(p) ==
    /\ pc[p] = "gate_probed"
    /\ gate' = [gate EXCEPT ![p] = "none"]
    /\ todo' = [todo EXCEPT ![p] = Positions]
    /\ pc' = [pc EXCEPT ![p] = "probe"]
    /\ UNCHANGED <<admission, slice, meta, sel, seen>>

\* `owner = _owner(path)`: the record is read before the lock is asked for.
ReadOwner(p) ==
    /\ pc[p] = "probe"
    /\ \E i \in todo[p] : IsFirst(i, todo[p]) /\ seen' = [seen EXCEPT ![p] = meta[i]]
    /\ pc' = [pc EXCEPT ![p] = "read"]
    /\ UNCHANGED <<admission, gate, slice, meta, sel, todo>>

\* _held(path): an idle lock is taken, and the prober's pid written into the file.
ProbeSlice(p) ==
    /\ pc[p] = "read"
    /\ \E i \in todo[p] :
          /\ IsFirst(i, todo[p])
          /\ IF slice[i] = None
               THEN /\ slice' = [slice EXCEPT ![i] = p]
                    /\ meta' = [meta EXCEPT ![i] = p]
                    /\ pc' = [pc EXCEPT ![p] = "probed"]
                    /\ UNCHANGED todo
               ELSE /\ todo' = [todo EXCEPT ![p] = @ \ {i}]
                    /\ pc' = [pc EXCEPT ![p] = "probe"]
                    /\ UNCHANGED <<slice, meta>>
    /\ seen' = [seen EXCEPT ![p] = None]
    /\ UNCHANGED <<admission, gate, sel>>

ProbeSliceDone(p) ==
    /\ pc[p] = "probed"
    /\ slice' = [i \in Positions |-> IF slice[i] = p THEN None ELSE slice[i]]
    /\ todo' = [todo EXCEPT ![p] = {j \in @ : \E i \in @ : i < j}]
    /\ pc' = [pc EXCEPT ![p] = "probe"]
    /\ UNCHANGED <<admission, gate, meta, sel, seen>>

\* The scan is complete: admission.lock is released, and active() returns its rows
\* or hold() raises with them.
Return(p) ==
    /\ pc[p] = "probe"
    /\ todo[p] = {}
    /\ admission' = None
    /\ Forget(p)
    /\ UNCHANGED <<gate, slice, meta>>

\* SIGKILL, a lost terminal, the machine's OOM killer: flock ends with the descriptors.
Kill(p) ==
    /\ pc[p] # "idle"
    /\ admission' = IF admission = p THEN None ELSE admission
    /\ gate' = [gate EXCEPT ![p] = "none"]
    /\ slice' = [i \in Positions |-> IF slice[i] = p THEN None ELSE slice[i]]
    /\ Forget(p)
    /\ UNCHANGED meta

\* The steps of a process between a call and its answer.
Advance(p) ==
    \/ TakeGate(p) \/ TakeSlice(p) \/ Close(p) \/ Enter(p)
    \/ ProbeGate(p) \/ ProbeGateDone(p) \/ ReadOwner(p) \/ ProbeSlice(p)
    \/ ProbeSliceDone(p) \/ Return(p)

Leave(p) == LeaveSlice(p) \/ LeaveGate(p)

Next == \E p \in Procs :
           \/ CallHold(p) \/ CallActive(p) \/ Admit(p)
           \/ Advance(p) \/ Leave(p) \/ Kill(p)

Spec == Init /\ [][Next]_vars

\* Every pass through admission.lock is finite and local, so a live process takes its
\* next step; flock grants a waited-for lock to its waiters in turn.  Nothing is assumed
\* of bodies, which may run for hours, nor of Kill.
Fairness == \A p \in Procs : WF_vars(Advance(p)) /\ SF_vars(Admit(p))

FairSpec == Spec /\ Fairness

-----------------------------------------------------------------------------
\* The processes that own locks for an operation, its unwinding included.
Working(p) == pc[p] \in {"body", "leave"}

\* The grants of Admission that the lock files stand for.
grantedBar == [p \in Procs |-> IF pc[p] = "body" THEN sel[p] ELSE NoGrant]

Abs == INSTANCE Admission WITH granted <- grantedBar

(***************************************************************************)
(* slices.hold and slices.active together implement Admission: a body      *)
(* starts only when no other body holds one of its Sparks.                 *)
(***************************************************************************)
ImplementsAdmission == Abs!AdmissionSpec

(***************************************************************************)
(* Two bodies never share a Spark (Admission's promise, on the locks).     *)
(***************************************************************************)
BodiesDisjoint == Abs!Disjoint

(***************************************************************************)
(* What the locks mean at every step: which process may own which file.    *)
(* It is inductive, and BodiesDisjoint follows from it.                    *)
(***************************************************************************)
AdmissionOwner == \A p \in Procs : admission = p <=> pc[p] \in Admitted

GateOwner ==
    /\ \A p \in Procs :
          /\ pc[p] \in {"take", "body", "leave"} =>
                gate[p] = IF sel[p] = Ring THEN "exclusive" ELSE "shared"
          /\ pc[p] = "gate_probed" => gate[p] = "shared"
          /\ pc[p] \in {"idle", "wait_hold", "wait_active", "gate", "probe_gate",
                        "probe", "read", "probed"} => gate[p] = "none"
    /\ \A p, q \in Procs : p # q /\ gate[p] = "exclusive" => gate[q] = "none"

OwnsItsSlices(p) ==
    /\ pc[p] = "take" => /\ todo[p] \subseteq PositionsOf(sel[p])
                         /\ \A i \in Positions :
                               slice[i] = p <=> i \in PositionsOf(sel[p]) /\ i \notin todo[p]
    /\ pc[p] \in {"body", "leave"} => \A i \in Positions : slice[i] = p => i \in PositionsOf(sel[p])
    /\ pc[p] = "body" => \A i \in PositionsOf(sel[p]) : slice[i] = p
    /\ pc[p] \notin {"take", "close", "body", "leave", "probed"} =>
          \A i \in Positions : slice[i] # p

SliceOwner == \A p \in Procs : OwnsItsSlices(p)

OwnerRecord ==
    /\ \A i \in Positions : slice[i] # None => meta[i] = slice[i]
    /\ \A p \in Procs : \A i \in Positions :
          pc[p] = "read" /\ IsFirst(i, todo[p]) /\ slice[i] # None => seen[p] = slice[i]

LockInv == AdmissionOwner /\ GateOwner /\ SliceOwner /\ OwnerRecord

(***************************************************************************)
(* hold() raises "Another operation is active" only when one is: the lock  *)
(* it failed to take belongs to an operation that overlaps it, never to a  *)
(* probe or to another admission that will itself be refused.              *)
(***************************************************************************)
RefusedOnlyByWork ==
    [][\A p \in Procs :
          pc[p] \in {"gate", "take"} /\ pc'[p] = "close" =>
              \E q \in Procs \ {p} : Working(q) /\ Abs!Overlap(sel[q], sel[p])]_vars

(***************************************************************************)
(* Each row active() returns names the operation that owns the lock at     *)
(* that moment, although the name is read from the file before the lock    *)
(* is asked for and stale names stay in the files.  install --cancel       *)
(* addresses its request by that name.                                     *)
(***************************************************************************)
RowsNameLiveWork ==
    [][\A p \in Procs : \A i \in Positions :
          pc[p] = "read" /\ pc'[p] = "probe" /\ IsFirst(i, todo[p]) =>
              seen[p] = slice[i] /\ Working(slice[i])]_vars

(***************************************************************************)
(* hold() and active() are answered whatever the running operations do:    *)
(* admission.lock is never held across a body.                             *)
(***************************************************************************)
EveryCallAnswered ==
    \A p \in Procs :
        pc[p] \in {"wait_hold", "wait_active"} ~> pc[p] \in {"body", "idle"}
=============================================================================
