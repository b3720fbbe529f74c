-------------------------- MODULE SliceLocksProofs --------------------------
(***************************************************************************)
(* Proofs about SliceLocks for any number of processes and positions.      *)
(***************************************************************************)
EXTENDS SliceLocks, TLAPS

(***************************************************************************)
(* Type correctness of hold() and active() under any interleaving.         *)
(***************************************************************************)
THEOREM TypeCorrect == Spec => []TypeOK
<1>1. Init => TypeOK
  BY SliceLocksAssumption DEF Init, TypeOK, States
<1>2. TypeOK /\ [Next]_vars => TypeOK'
  <2> SUFFICES ASSUME TypeOK, [Next]_vars PROVE TypeOK'
    OBVIOUS
  <2> USE SliceLocksAssumption DEF TypeOK, States
  <2>1. ASSUME NEW p \in Procs, CallHold(p) PROVE TypeOK'
    BY <2>1 DEF CallHold
  <2>2. ASSUME NEW p \in Procs, CallActive(p) PROVE TypeOK'
    BY <2>2 DEF CallActive
  <2>3. ASSUME NEW p \in Procs, Admit(p) PROVE TypeOK'
    BY <2>3 DEF Admit
  <2>4. ASSUME NEW p \in Procs, TakeGate(p) PROVE TypeOK'
    BY <2>4 DEF TakeGate, PositionsOf
  <2>5. ASSUME NEW p \in Procs, TakeSlice(p) PROVE TypeOK'
    BY <2>5 DEF TakeSlice
  <2>6. ASSUME NEW p \in Procs, Close(p) PROVE TypeOK'
    BY <2>6 DEF Close
  <2>7. ASSUME NEW p \in Procs, Enter(p) PROVE TypeOK'
    BY <2>7 DEF Enter
  <2>8. ASSUME NEW p \in Procs, ProbeGate(p) PROVE TypeOK'
    BY <2>8 DEF ProbeGate
  <2>9. ASSUME NEW p \in Procs, ProbeGateDone(p) PROVE TypeOK'
    BY <2>9 DEF ProbeGateDone
  <2>10. ASSUME NEW p \in Procs, ReadOwner(p) PROVE TypeOK'
    BY <2>10 DEF ReadOwner, IsFirst
  <2>11. ASSUME NEW p \in Procs, ProbeSlice(p) PROVE TypeOK'
    BY <2>11 DEF ProbeSlice
  <2>12. ASSUME NEW p \in Procs, ProbeSliceDone(p) PROVE TypeOK'
    BY <2>12 DEF ProbeSliceDone
  <2>13. ASSUME NEW p \in Procs, Return(p) PROVE TypeOK'
    BY <2>13 DEF Return, Forget
  <2>14. ASSUME NEW p \in Procs, LeaveSlice(p) PROVE TypeOK'
    BY <2>14 DEF LeaveSlice
  <2>15. ASSUME NEW p \in Procs, LeaveGate(p) PROVE TypeOK'
    BY <2>15 DEF LeaveGate, Forget
  <2>16. ASSUME NEW p \in Procs, Kill(p) PROVE TypeOK'
    BY <2>16 DEF Kill, Forget
  <2>17. CASE UNCHANGED vars
    BY <2>17 DEF vars
  <2>18. QED
    BY <2>1, <2>2, <2>3, <2>4, <2>5, <2>6, <2>7, <2>8, <2>9, <2>10, <2>11, <2>12,
       <2>13, <2>14, <2>15, <2>16, <2>17 DEF Next, Advance, Leave
<1>3. QED
  BY <1>1, <1>2, PTL DEF Spec

\* admission.lock has an owner exactly while a process is inside it.
LEMMA AdmissionOwnerStep == TypeOK /\ TypeOK' /\ LockInv /\ [Next]_vars => AdmissionOwner'
<1> SUFFICES ASSUME TypeOK, TypeOK', LockInv, [Next]_vars PROVE AdmissionOwner'
  OBVIOUS
<1> USE SliceLocksAssumption DEF TypeOK, LockInv, AdmissionOwner, Admitted, States
<1>1. ASSUME NEW p \in Procs, CallHold(p) PROVE AdmissionOwner'
  BY <1>1 DEF CallHold
<1>2. ASSUME NEW p \in Procs, CallActive(p) PROVE AdmissionOwner'
  BY <1>2 DEF CallActive
<1>3. ASSUME NEW p \in Procs, Admit(p) PROVE AdmissionOwner'
  BY <1>3 DEF Admit
<1>4. ASSUME NEW p \in Procs, TakeGate(p) PROVE AdmissionOwner'
  BY <1>4 DEF TakeGate, GateFree
<1>5. ASSUME NEW p \in Procs, TakeSlice(p) PROVE AdmissionOwner'
  BY <1>5 DEF TakeSlice
<1>6. ASSUME NEW p \in Procs, Close(p) PROVE AdmissionOwner'
  BY <1>6 DEF Close
<1>7. ASSUME NEW p \in Procs, Enter(p) PROVE AdmissionOwner'
  BY <1>7 DEF Enter
<1>8. ASSUME NEW p \in Procs, ProbeGate(p) PROVE AdmissionOwner'
  BY <1>8 DEF ProbeGate
<1>9. ASSUME NEW p \in Procs, ProbeGateDone(p) PROVE AdmissionOwner'
  BY <1>9 DEF ProbeGateDone
<1>10. ASSUME NEW p \in Procs, ReadOwner(p) PROVE AdmissionOwner'
  BY <1>10 DEF ReadOwner
<1>11. ASSUME NEW p \in Procs, ProbeSlice(p) PROVE AdmissionOwner'
  BY <1>11 DEF ProbeSlice
<1>12. ASSUME NEW p \in Procs, ProbeSliceDone(p) PROVE AdmissionOwner'
  BY <1>12 DEF ProbeSliceDone
<1>13. ASSUME NEW p \in Procs, Return(p) PROVE AdmissionOwner'
  BY <1>13 DEF Return, Forget
<1>14. ASSUME NEW p \in Procs, LeaveSlice(p) PROVE AdmissionOwner'
  BY <1>14 DEF LeaveSlice
<1>15. ASSUME NEW p \in Procs, LeaveGate(p) PROVE AdmissionOwner'
  BY <1>15 DEF LeaveGate, Forget
<1>16. ASSUME NEW p \in Procs, Kill(p) PROVE AdmissionOwner'
  BY <1>16 DEF Kill, Forget
<1>17. CASE UNCHANGED vars
  BY <1>17 DEF vars
<1>18. QED
  BY <1>1, <1>2, <1>3, <1>4, <1>5, <1>6, <1>7, <1>8, <1>9, <1>10, <1>11, <1>12, <1>13, <1>14, <1>15, <1>16, <1>17 DEF Next, Advance, Leave

\* install.lock: the modes its owners hold exclude one another.
LEMMA GateOwnerStep == TypeOK /\ TypeOK' /\ LockInv /\ [Next]_vars => GateOwner'
<1> SUFFICES ASSUME TypeOK, TypeOK', LockInv, [Next]_vars PROVE GateOwner'
  OBVIOUS
<1> USE SliceLocksAssumption DEF TypeOK, LockInv, GateOwner, AdmissionOwner, Admitted, States
<1>1. ASSUME NEW p \in Procs, CallHold(p) PROVE GateOwner'
  BY <1>1 DEF CallHold
<1>2. ASSUME NEW p \in Procs, CallActive(p) PROVE GateOwner'
  BY <1>2 DEF CallActive
<1>3. ASSUME NEW p \in Procs, Admit(p) PROVE GateOwner'
  BY <1>3 DEF Admit
<1>4. ASSUME NEW p \in Procs, TakeGate(p) PROVE GateOwner'
  BY <1>4 DEF TakeGate, GateFree
<1>5. ASSUME NEW p \in Procs, TakeSlice(p) PROVE GateOwner'
  BY <1>5 DEF TakeSlice
<1>6. ASSUME NEW p \in Procs, Close(p) PROVE GateOwner'
  BY <1>6 DEF Close
<1>7. ASSUME NEW p \in Procs, Enter(p) PROVE GateOwner'
  BY <1>7 DEF Enter
<1>8. ASSUME NEW p \in Procs, ProbeGate(p) PROVE GateOwner'
  BY <1>8 DEF ProbeGate
<1>9. ASSUME NEW p \in Procs, ProbeGateDone(p) PROVE GateOwner'
  BY <1>9 DEF ProbeGateDone
<1>10. ASSUME NEW p \in Procs, ReadOwner(p) PROVE GateOwner'
  BY <1>10 DEF ReadOwner
<1>11. ASSUME NEW p \in Procs, ProbeSlice(p) PROVE GateOwner'
  BY <1>11 DEF ProbeSlice
<1>12. ASSUME NEW p \in Procs, ProbeSliceDone(p) PROVE GateOwner'
  BY <1>12 DEF ProbeSliceDone
<1>13. ASSUME NEW p \in Procs, Return(p) PROVE GateOwner'
  BY <1>13 DEF Return, Forget
<1>14. ASSUME NEW p \in Procs, LeaveSlice(p) PROVE GateOwner'
  BY <1>14 DEF LeaveSlice
<1>15. ASSUME NEW p \in Procs, LeaveGate(p) PROVE GateOwner'
  BY <1>15 DEF LeaveGate, Forget
<1>16. ASSUME NEW p \in Procs, Kill(p) PROVE GateOwner'
  BY <1>16 DEF Kill, Forget
<1>17. CASE UNCHANGED vars
  BY <1>17 DEF vars
<1>18. QED
  BY <1>1, <1>2, <1>3, <1>4, <1>5, <1>6, <1>7, <1>8, <1>9, <1>10, <1>11, <1>12, <1>13, <1>14, <1>15, <1>16, <1>17 DEF Next, Advance, Leave

\* spark-N.lock: every lock a body relies on is its own.
LEMMA SliceOwnerStep == TypeOK /\ TypeOK' /\ LockInv /\ [Next]_vars => SliceOwner'
<1> SUFFICES ASSUME TypeOK, TypeOK', AdmissionOwner, SliceOwner, [Next]_vars,
                    NEW q \in Procs
             PROVE  OwnsItsSlices(q)'
  BY DEF LockInv, SliceOwner
<1> USE SliceLocksAssumption DEF TypeOK, AdmissionOwner, Admitted, States
<1>a. OwnsItsSlices(q) /\ PositionsOf(sel[q]) \subseteq Positions
  BY DEF SliceOwner, PositionsOf
<1>1. ASSUME NEW p \in Procs, CallHold(p) PROVE OwnsItsSlices(q)'
  BY <1>1, <1>a DEF CallHold, OwnsItsSlices
<1>2. ASSUME NEW p \in Procs, CallActive(p) PROVE OwnsItsSlices(q)'
  BY <1>2, <1>a DEF CallActive, OwnsItsSlices
<1>3. ASSUME NEW p \in Procs, Admit(p) PROVE OwnsItsSlices(q)'
  BY <1>3, <1>a DEF Admit, OwnsItsSlices
<1>4. ASSUME NEW p \in Procs, TakeGate(p) PROVE OwnsItsSlices(q)'
  BY <1>4, <1>a DEF TakeGate, GateFree, OwnsItsSlices
<1>5. ASSUME NEW p \in Procs, TakeSlice(p) PROVE OwnsItsSlices(q)'
  <2>1. CASE q = p
    BY <1>5, <1>a, <2>1 DEF TakeSlice, OwnsItsSlices
  <2>2. CASE q # p
    <3>1. pc'[q] = pc[q] /\ pc[q] \notin Admitted /\ sel' = sel /\ todo'[q] = todo[q]
      BY <1>5, <2>2 DEF TakeSlice
    <3>2. \/ slice' = slice
          \/ \E j \in Positions : slice[j] = None /\ slice' = [slice EXCEPT ![j] = p]
      BY <1>5 DEF TakeSlice
    <3>3. \A i \in Positions : slice'[i] = q <=> slice[i] = q
      BY <2>2, <3>2
    <3>4. QED
      BY <1>a, <3>1, <3>3 DEF OwnsItsSlices
  <2>3. QED
    BY <2>1, <2>2
<1>6. ASSUME NEW p \in Procs, Close(p) PROVE OwnsItsSlices(q)'
  BY <1>6, <1>a DEF Close, OwnsItsSlices
<1>7. ASSUME NEW p \in Procs, Enter(p) PROVE OwnsItsSlices(q)'
  <2>1. CASE q = p
    <3>1. pc[q] = "take" /\ todo[q] = {} /\ pc'[q] = "body" /\ sel' = sel /\ slice' = slice
      BY <1>7, <2>1 DEF Enter
    <3>2. \A i \in Positions : slice[i] = q <=> i \in PositionsOf(sel[q])
      BY <1>a, <3>1 DEF OwnsItsSlices
    <3>3. QED
      BY <1>a, <3>1, <3>2 DEF OwnsItsSlices
  <2>2. CASE q # p
    BY <1>7, <1>a, <2>2 DEF Enter, OwnsItsSlices
  <2>3. QED
    BY <2>1, <2>2
<1>8. ASSUME NEW p \in Procs, ProbeGate(p) PROVE OwnsItsSlices(q)'
  BY <1>8, <1>a DEF ProbeGate, OwnsItsSlices
<1>9. ASSUME NEW p \in Procs, ProbeGateDone(p) PROVE OwnsItsSlices(q)'
  BY <1>9, <1>a DEF ProbeGateDone, OwnsItsSlices
<1>10. ASSUME NEW p \in Procs, ReadOwner(p) PROVE OwnsItsSlices(q)'
  BY <1>10, <1>a DEF ReadOwner, OwnsItsSlices
<1>11. ASSUME NEW p \in Procs, ProbeSlice(p) PROVE OwnsItsSlices(q)'
  <2>1. CASE q = p
    BY <1>11, <1>a, <2>1 DEF ProbeSlice, OwnsItsSlices
  <2>2. CASE q # p
    <3>1. pc'[q] = pc[q] /\ pc[q] \notin Admitted /\ sel' = sel /\ todo'[q] = todo[q]
      BY <1>11, <2>2 DEF ProbeSlice
    <3>2. \/ slice' = slice
          \/ \E j \in Positions : slice[j] = None /\ slice' = [slice EXCEPT ![j] = p]
      BY <1>11 DEF ProbeSlice
    <3>3. \A i \in Positions : slice'[i] = q <=> slice[i] = q
      BY <2>2, <3>2
    <3>4. QED
      BY <1>a, <3>1, <3>3 DEF OwnsItsSlices
  <2>3. QED
    BY <2>1, <2>2
<1>12. ASSUME NEW p \in Procs, ProbeSliceDone(p) PROVE OwnsItsSlices(q)'
  BY <1>12, <1>a DEF ProbeSliceDone, OwnsItsSlices
<1>13. ASSUME NEW p \in Procs, Return(p) PROVE OwnsItsSlices(q)'
  BY <1>13, <1>a DEF Return, Forget, OwnsItsSlices
<1>14. ASSUME NEW p \in Procs, LeaveSlice(p) PROVE OwnsItsSlices(q)'
  BY <1>14, <1>a DEF LeaveSlice, OwnsItsSlices
<1>15. ASSUME NEW p \in Procs, LeaveGate(p) PROVE OwnsItsSlices(q)'
  BY <1>15, <1>a DEF LeaveGate, Forget, OwnsItsSlices
<1>16. ASSUME NEW p \in Procs, Kill(p) PROVE OwnsItsSlices(q)'
  BY <1>16, <1>a DEF Kill, Forget, OwnsItsSlices
<1>17. CASE UNCHANGED vars
  BY <1>17, <1>a DEF vars, OwnsItsSlices
<1>18. QED
  BY <1>1, <1>2, <1>3, <1>4, <1>5, <1>6, <1>7, <1>8, <1>9, <1>10, <1>11, <1>12, <1>13, <1>14, <1>15, <1>16, <1>17 DEF Next, Advance, Leave

\* The name inside a held lock file is its owner's, also for a scan that read it earlier.
LEMMA OwnerRecordStep == TypeOK /\ TypeOK' /\ LockInv /\ [Next]_vars => OwnerRecord'
<1> SUFFICES ASSUME TypeOK, TypeOK', LockInv, [Next]_vars PROVE OwnerRecord'
  OBVIOUS
<1> USE SliceLocksAssumption DEF TypeOK, LockInv, OwnerRecord, SliceOwner, AdmissionOwner, Admitted, States, IsFirst
<1>1. ASSUME NEW p \in Procs, CallHold(p) PROVE OwnerRecord'
  BY <1>1 DEF CallHold
<1>2. ASSUME NEW p \in Procs, CallActive(p) PROVE OwnerRecord'
  BY <1>2 DEF CallActive
<1>3. ASSUME NEW p \in Procs, Admit(p) PROVE OwnerRecord'
  BY <1>3 DEF Admit
<1>4. ASSUME NEW p \in Procs, TakeGate(p) PROVE OwnerRecord'
  BY <1>4 DEF TakeGate, GateFree
<1>5. ASSUME NEW p \in Procs, TakeSlice(p) PROVE OwnerRecord'
  BY <1>5 DEF TakeSlice
<1>6. ASSUME NEW p \in Procs, Close(p) PROVE OwnerRecord'
  BY <1>6 DEF Close
<1>7. ASSUME NEW p \in Procs, Enter(p) PROVE OwnerRecord'
  BY <1>7 DEF Enter
<1>8. ASSUME NEW p \in Procs, ProbeGate(p) PROVE OwnerRecord'
  BY <1>8 DEF ProbeGate
<1>9. ASSUME NEW p \in Procs, ProbeGateDone(p) PROVE OwnerRecord'
  BY <1>9 DEF ProbeGateDone
<1>10. ASSUME NEW p \in Procs, ReadOwner(p) PROVE OwnerRecord'
  BY <1>10 DEF ReadOwner
<1>11. ASSUME NEW p \in Procs, ProbeSlice(p) PROVE OwnerRecord'
  BY <1>11 DEF ProbeSlice
<1>12. ASSUME NEW p \in Procs, ProbeSliceDone(p) PROVE OwnerRecord'
  BY <1>12 DEF ProbeSliceDone
<1>13. ASSUME NEW p \in Procs, Return(p) PROVE OwnerRecord'
  BY <1>13 DEF Return, Forget
<1>14. ASSUME NEW p \in Procs, LeaveSlice(p) PROVE OwnerRecord'
  BY <1>14 DEF LeaveSlice
<1>15. ASSUME NEW p \in Procs, LeaveGate(p) PROVE OwnerRecord'
  BY <1>15 DEF LeaveGate, Forget
<1>16. ASSUME NEW p \in Procs, Kill(p) PROVE OwnerRecord'
  BY <1>16 DEF Kill, Forget
<1>17. CASE UNCHANGED vars
  BY <1>17 DEF vars
<1>18. QED
  BY <1>1, <1>2, <1>3, <1>4, <1>5, <1>6, <1>7, <1>8, <1>9, <1>10, <1>11, <1>12, <1>13, <1>14, <1>15, <1>16, <1>17 DEF Next, Advance, Leave

\* Admission keeps two bodies apart because the locks do.
LEMMA LocksKeepBodiesDisjoint == TypeOK /\ LockInv => BodiesDisjoint
<1> SUFFICES ASSUME TypeOK, GateOwner, SliceOwner,
                    NEW p \in Procs, NEW q \in Procs,
                    p # q, pc[p] = "body", pc[q] = "body"
             PROVE  ~Abs!Overlap(sel[p], sel[q])
  BY SliceLocksAssumption DEF LockInv, BodiesDisjoint, Abs!Disjoint, grantedBar, TypeOK
<1>1. sel[p] # Ring /\ sel[q] # Ring
  BY DEF GateOwner
<1>2. sel[p] \subseteq Positions /\ sel[q] \subseteq Positions
  BY <1>1 DEF TypeOK
<1>3. \A i \in sel[p] \cap sel[q] : slice[i] = p /\ slice[i] = q
  BY <1>1, <1>2 DEF SliceOwner, OwnsItsSlices, PositionsOf
<1>4. QED
  BY <1>1, <1>3 DEF Abs!Overlap

(***************************************************************************)
(* The lock files mean what LockInv says at every step of every process,   *)
(* a killed one included.                                                  *)
(***************************************************************************)
THEOREM LocksConsistent == Spec => []LockInv
<1>1. Init => LockInv
  BY SliceLocksAssumption
     DEF Init, LockInv, AdmissionOwner, GateOwner, SliceOwner, OwnsItsSlices, OwnerRecord,
         Admitted, PositionsOf
<1>2. TypeOK /\ TypeOK' /\ LockInv /\ [Next]_vars => LockInv'
  BY AdmissionOwnerStep, GateOwnerStep, SliceOwnerStep, OwnerRecordStep DEF LockInv
<1>3. QED
  BY <1>1, <1>2, TypeCorrect, PTL DEF Spec

(***************************************************************************)
(* Two operations that slices.hold admitted never share a Spark.           *)
(***************************************************************************)
THEOREM MutualExclusion == Spec => []BodiesDisjoint
BY LocksConsistent, TypeCorrect, LocksKeepBodiesDisjoint, PTL

(***************************************************************************)
(* slices.hold over flock implements Admission: reaching the body is a     *)
(* Grant, the first release or a kill is a Release, all else is invisible. *)
(***************************************************************************)
THEOREM Refinement == Spec => ImplementsAdmission
<1>1. Init => Abs!AdmissionInit
  BY DEF Init, Abs!AdmissionInit, grantedBar
<1>2. TypeOK /\ TypeOK' /\ LockInv /\ LockInv' /\ [Next]_vars => [Abs!AdmissionNext]_grantedBar
  <2> SUFFICES ASSUME TypeOK, TypeOK', LockInv, LockInv', [Next]_vars
               PROVE  [Abs!AdmissionNext]_grantedBar
    OBVIOUS
  <2>1. ASSUME NEW p \in Procs, Enter(p) PROVE Abs!AdmissionNext
    <3>1. sel' = sel /\ pc' = [pc EXCEPT ![p] = "body"] /\ pc[p] = "take"
      BY <2>1 DEF Enter
    <3>2. grantedBar' = [grantedBar EXCEPT ![p] = sel[p]]
      BY <3>1 DEF grantedBar, TypeOK
    <3>3. grantedBar[p] = NoGrant /\ sel[p] \in Abs!Placements
      BY <3>1 DEF grantedBar, Abs!Placements, TypeOK
    <3>4. ASSUME NEW q \in Procs \ {p}, grantedBar[q] # NoGrant
          PROVE  ~Abs!Overlap(grantedBar[q], sel[p])
      <4>1. pc[q] = "body" /\ grantedBar[q] = sel[q] /\ grantedBar'[q] = sel[q]
        BY <3>1, <3>2, <3>4 DEF grantedBar, TypeOK
      <4>2. grantedBar'[p] = sel[p] /\ sel[p] # NoGrant /\ sel[q] # NoGrant
        BY <3>2, SliceLocksAssumption DEF grantedBar, TypeOK
      <4>3. BodiesDisjoint'
        BY LocksKeepBodiesDisjoint, PTL
      <4>4. QED
        BY <4>1, <4>2, <4>3, SliceLocksAssumption
           DEF BodiesDisjoint, Abs!Disjoint, Abs!Overlap
    <3>5. Abs!Grant(p, sel[p])
      BY <3>2, <3>3, <3>4 DEF Abs!Grant
    <3>6. QED
      BY <3>3, <3>5 DEF Abs!AdmissionNext
  <2>2. ASSUME NEW p \in Procs, LeaveSlice(p) \/ LeaveGate(p) \/ Kill(p)
        PROVE  [Abs!AdmissionNext]_grantedBar
    <3>1. /\ pc' = [pc EXCEPT ![p] = pc'[p]] /\ pc'[p] # "body"
          /\ sel' = [sel EXCEPT ![p] = sel'[p]]
      BY <2>2 DEF LeaveSlice, LeaveGate, Kill, Forget, TypeOK
    <3>2. grantedBar' = [grantedBar EXCEPT ![p] = NoGrant]
      BY <3>1 DEF grantedBar, TypeOK
    <3>3. CASE grantedBar[p] = NoGrant
      BY <3>2, <3>3 DEF grantedBar
    <3>4. CASE grantedBar[p] # NoGrant
      BY <3>2, <3>4 DEF Abs!AdmissionNext, Abs!Release
    <3>5. QED
      BY <3>3, <3>4
  <2>3. ASSUME NEW p \in Procs,
               \/ CallHold(p) \/ CallActive(p) \/ Admit(p) \/ TakeGate(p) \/ TakeSlice(p)
               \/ Close(p) \/ ProbeGate(p) \/ ProbeGateDone(p) \/ ReadOwner(p)
               \/ ProbeSlice(p) \/ ProbeSliceDone(p) \/ Return(p)
        PROVE  UNCHANGED grantedBar
    <3>1. /\ pc' = [pc EXCEPT ![p] = pc'[p]] /\ pc[p] # "body" /\ pc'[p] # "body"
          /\ sel' = [sel EXCEPT ![p] = sel'[p]]
      BY <2>3 DEF CallHold, CallActive, Admit, TakeGate, TakeSlice, Close, ProbeGate,
                  ProbeGateDone, ReadOwner, ProbeSlice, ProbeSliceDone, Return, Forget, TypeOK
    <3>2. QED
      BY <3>1 DEF grantedBar, TypeOK
  <2>4. CASE UNCHANGED vars
    BY <2>4 DEF vars, grantedBar
  <2>5. QED
    BY <2>1, <2>2, <2>3, <2>4 DEF Next, Advance, Leave
<1>3. QED
  BY <1>1, <1>2, TypeCorrect, LocksConsistent, PTL DEF Spec, ImplementsAdmission, Abs!AdmissionSpec

(***************************************************************************)
(* A refusal always names a reason: hold() fails only on a lock of an      *)
(* operation that overlaps it, never on a probe or on another admission.   *)
(***************************************************************************)
THEOREM RefusalsJustified == Spec => RefusedOnlyByWork
<1> DEFINE Justified == \A p \in Procs :
              pc[p] \in {"gate", "take"} /\ pc'[p] = "close" =>
                  \E q \in Procs \ {p} : Working(q) /\ Abs!Overlap(sel[q], sel[p])
<1>1. TypeOK /\ LockInv /\ [Next]_vars => Justified
  <2> SUFFICES ASSUME TypeOK, LockInv, [Next]_vars,
                      NEW p \in Procs, pc[p] \in {"gate", "take"}, pc'[p] = "close"
               PROVE  \E q \in Procs \ {p} : Working(q) /\ Abs!Overlap(sel[q], sel[p])
    OBVIOUS
  <2>1. TakeGate(p) \/ TakeSlice(p)
    BY DEF Next, Advance, Leave, vars, TypeOK, CallHold, CallActive, Admit, TakeGate, TakeSlice,
           Close, Enter, ProbeGate, ProbeGateDone, ReadOwner, ProbeSlice, ProbeSliceDone,
           Return, LeaveSlice, LeaveGate, Kill, Forget
  <2>2. \A q \in Procs \ {p} : pc[q] \notin Admitted
    BY DEF LockInv, AdmissionOwner, Admitted
  <2>3. CASE TakeGate(p)
    <3>1. PICK q \in Procs \ {p} : IF sel[p] = Ring THEN gate[q] # "none"
                                                    ELSE gate[q] = "exclusive"
      BY <2>3 DEF TakeGate, GateFree, TypeOK
    <3>2. Working(q)
      BY <2>2, <3>1 DEF LockInv, GateOwner, Working, Admitted, TypeOK, States
    <3>3. Abs!Overlap(sel[q], sel[p])
      BY <3>1, <3>2 DEF LockInv, GateOwner, Working, Abs!Overlap
    <3>4. QED
      BY <3>2, <3>3
  <2>4. CASE TakeSlice(p)
    <3>1. PICK i \in todo[p] : slice[i] # None
      BY <2>4 DEF TakeSlice, TypeOK
    <3>2. pc[p] = "take" /\ i \in Positions /\ slice[i] # p /\ sel[p] # Ring /\ i \in sel[p]
      BY <2>4, <3>1 DEF TakeSlice, LockInv, SliceOwner, OwnsItsSlices, PositionsOf, TypeOK
    <3>3. slice[i] \in Procs \ {p}
      BY <3>1, <3>2 DEF TypeOK
    <3>4. Working(slice[i])
      BY <2>2, <3>2, <3>3 DEF LockInv, SliceOwner, OwnsItsSlices, Working, Admitted, TypeOK, States
    <3>5. sel[slice[i]] = Ring \/ i \in sel[slice[i]]
      BY <3>2, <3>3, <3>4 DEF LockInv, SliceOwner, OwnsItsSlices, Working, PositionsOf
    <3>6. QED
      BY <3>2, <3>3, <3>4, <3>5 DEF Abs!Overlap
  <2>5. QED
    BY <2>1, <2>3, <2>4
<1>2. QED
  BY <1>1, TypeCorrect, LocksConsistent, PTL DEF Spec, RefusedOnlyByWork

(***************************************************************************)
(* active() reports the operation that owns the lock, never a stale name.  *)
(***************************************************************************)
THEOREM RowsTruthful == Spec => RowsNameLiveWork
<1> DEFINE Truthful == \A p \in Procs : \A i \in Positions :
              pc[p] = "read" /\ pc'[p] = "probe" /\ IsFirst(i, todo[p]) =>
                  seen[p] = slice[i] /\ Working(slice[i])
<1>1. TypeOK /\ LockInv /\ [Next]_vars => Truthful
  <2> SUFFICES ASSUME TypeOK, LockInv, [Next]_vars,
                      NEW p \in Procs, NEW i \in Positions,
                      pc[p] = "read", pc'[p] = "probe", IsFirst(i, todo[p])
               PROVE  seen[p] = slice[i] /\ Working(slice[i])
    OBVIOUS
  <2>1. ProbeSlice(p)
    BY DEF Next, Advance, Leave, vars, TypeOK, CallHold, CallActive, Admit, TakeGate, TakeSlice,
           Close, Enter, ProbeGate, ProbeGateDone, ReadOwner, ProbeSlice, ProbeSliceDone,
           Return, LeaveSlice, LeaveGate, Kill, Forget
  <2>2. PICK j \in todo[p] : IsFirst(j, todo[p]) /\ slice[j] # None
    BY <2>1 DEF ProbeSlice, TypeOK
  <2>3. j = i
    BY <2>2, SliceLocksAssumption DEF IsFirst, TypeOK
  <2>4. seen[p] = slice[i]
    BY <2>2, <2>3 DEF LockInv, OwnerRecord
  <2>5. slice[i] \in Procs \ {p}
    BY <2>2, <2>3 DEF TypeOK, LockInv, SliceOwner, OwnsItsSlices
  <2>6. pc[slice[i]] \notin Admitted
    BY <2>5 DEF LockInv, AdmissionOwner, Admitted
  <2>7. Working(slice[i])
    BY <2>5, <2>6 DEF LockInv, SliceOwner, OwnsItsSlices, Working, Admitted, TypeOK, States
  <2>8. QED
    BY <2>4, <2>7
<1>2. QED
  BY <1>1, TypeCorrect, LocksConsistent, PTL DEF Spec, RowsNameLiveWork
=============================================================================
