-------------------------- MODULE DeployEngineProofs --------------------------
(***************************************************************************)
(* Proofs about DeployEngine for every plan, every number of controllers   *)
(* and every size of the thread pool.                                      *)
(***************************************************************************)
EXTENDS DeployEngine, TLAPS

\* Exactly the lock's holder is inside an invocation, on an incomplete receipt.
Admitted ==
    \A p \in Procs : pc[p] # "idle" =>
        /\ lock = p /\ file.complete = FALSE /\ mem[p].complete = FALSE /\ mem[p].at = file.at

\* A controller's copy differs from the file only in the rows it has noted and not yet saved.
Synced(p) ==
    pc[p] # "idle" => \A a \in Actions :
        \/ mem[p].state[a] = file.state[a]
        \/ /\ pc[p] = "recheck" /\ a[1] = phase[p] /\ job[p][a[2]] = "queued"
           /\ mem[p].state[a] = "running" /\ file.state[a] \in {"none", "failed"}

\* A row has a command in the pool only after it was noted, and none that is to begin has begun.
Queued(p) ==
    /\ pc[p] = "idle" => phase[p] = 1
    /\ pc[p] \in {"idle", "check"} => job[p] = NoJobs
    /\ pc[p] = "run" => left[p] = {}
    /\ \A h \in Hosts : job[p][h] # "none" =>
          /\ h \in Rows[phase[p]] /\ h \notin left[p]
          /\ mem[p].state[<<phase[p], h>>] = "running"
          /\ pc[p] = "recheck" => job[p][h] = "queued"
          /\ job[p][h] = "queued" => ran[<<phase[p], h>>] = 0
          /\ job[p][h] = "failed" => phase[p] \notin Changing

\* The rows still to be reached have a certain outcome or none.
Certain(p) ==
    pc[p] = "recheck" => \A h \in left[p] :
        /\ h \in Rows[phase[p]]
        /\ mem[p].state[<<phase[p], h>>] \in {"none", "failed", "succeeded"}

\* What this invocation has passed it has seen.
Witnessed(p) ==
    pc[p] # "idle" => \A a \in Actions :
        /\ a[1] < phase[p] => mem[p].state[a] = "succeeded" /\ a \in seen[p]
        /\ /\ a[1] = phase[p] /\ pc[p] # "check" /\ a[2] \notin left[p]
           /\ mem[p].state[a] = "succeeded"
           => a \in seen[p]

\* A changing command that began has left its mark in the file.
Marked ==
    \A a \in Actions :
        /\ a[1] \in Changing => file.state[a] # "failed"
        /\ a[1] \in Changing /\ file.state[a] = "none" => ran[a] = 0
        /\ a[1] \notin Changing => ran[a] = 0
        /\ ran[a] <= 1

Earned == file.complete => \A a \in Actions : file.state[a] = "succeeded"

Inv ==
    /\ TypeOK
    /\ Admitted
    /\ \A p \in Procs : Synced(p) /\ Queued(p) /\ Certain(p) /\ Witnessed(p)
    /\ Marked
    /\ Earned

\* Each action of the plan is a pair of a phase and one of its rows.
LEMMA ActionPairs ==
    /\ \A a \in Actions : /\ a[1] \in Phases /\ a[2] \in Hosts /\ a[2] \in Rows[a[1]]
                          /\ a = <<a[1], a[2]>>
    /\ \A k \in Phases : \A h \in Rows[k] : h \in Hosts /\ <<k, h>> \in Actions
BY DEF Actions, Hosts

\* The constants of the record types.
LEMMA Constants ==
    /\ NoReceipt \in Receipts /\ NoJobs \in [Hosts -> Jobs] /\ 1 \in Phases
    /\ \A k \in Phases : Rows[k] \subseteq Hosts
    /\ \A h \in Hosts : NoJobs[h] = "none"
    /\ {"none", "running", "succeeded", "failed", "uncertain"} = States
BY DeployEngineAssumption DEF NoReceipt, Receipts, States, NoJobs, Jobs, Phases, Hosts

\* A receipt's fields, and what Set makes of them.
LEMMA Fields ==
    ASSUME NEW r \in Receipts
    PROVE  /\ r.state \in [Actions -> States] /\ r.complete \in BOOLEAN /\ r.at \in Times \cup {Absent, Unknown}
           /\ \A a \in Actions, v \in States :
                 /\ Set(r, a, v) \in Receipts
                 /\ Set(r, a, v).complete = r.complete /\ Set(r, a, v).at = r.at
                 /\ Set(r, a, v).state = [r.state EXCEPT ![a] = v]
BY DEF Receipts, Set

LEMMA InitInv == Init => Inv
<1> SUFFICES ASSUME Init PROVE Inv
  OBVIOUS
<1>1. file \in Receipts
  <2>1. CASE file = NoReceipt
    BY <2>1, Constants
  <2>2. CASE file # NoReceipt
    <3>1. file = [state |-> [a \in Actions |-> "succeeded"], complete |-> TRUE, at |-> Absent]
      BY <2>2 DEF Init
    <3>2. [a \in Actions |-> "succeeded"] \in [Actions -> States]
      BY DEF States
    <3> QED
      BY <3>1, <3>2 DEF Receipts
  <2> QED
    BY <2>1, <2>2
<1>2. ran \in [Actions -> 0..2]
  BY DEF Init
<1>3. TypeOK
  BY <1>1, <1>2, Constants DEF Init, TypeOK
<1>4. Marked /\ Earned
  BY ActionPairs DEF Init, Marked, Earned, NoReceipt
<1>5. Admitted /\ \A p \in Procs : Synced(p) /\ Queued(p) /\ Certain(p) /\ Witnessed(p)
  BY DEF Init, Admitted, Synced, Queued, Certain, Witnessed, NoJobs
<1> QED
  BY <1>3, <1>4, <1>5 DEF Inv

\* Type correctness, by actions.
LEMMA TypeStep == Inv /\ [Next]_vars => TypeOK'
<1> SUFFICES ASSUME Inv, [Next]_vars PROVE TypeOK'
  OBVIOUS
<1>b. TypeOK /\ \A p \in Procs : Queued(p) /\ Certain(p)
  BY DEF Inv
<1> USE <1>b, Constants DEF TypeOK
<1>a. ASSUME NEW p \in Procs, Leave(p), file' \in Receipts, ran' = ran PROVE TypeOK'
  BY <1>a DEF Leave
<1>1. ASSUME NEW p \in Procs, Begin(p) PROVE TypeOK'
  <2>1. Opened \in Receipts
    BY Fields DEF Opened, Receipts
  <2> QED
    BY <1>1, <2>1 DEF Begin
<1>2. ASSUME NEW p \in Procs, Check(p) PROVE TypeOK'
  <2>1. CASE Leave(p) /\ UNCHANGED <<file, ran>>
    BY <2>1, <1>a
  <2>2. CASE ~(Leave(p) /\ UNCHANGED <<file, ran>>)
    BY <1>2, <2>2 DEF Check
  <2> QED
    BY <2>1, <2>2
<1>3. ASSUME NEW p \in Procs, CheckFails(p) \/ Drift(p) \/ Unwound(p) \/ PhaseFails(p) \/ Kill(p) PROVE TypeOK'
  BY <1>3, <1>a DEF CheckFails, Drift, Unwound, PhaseFails, Kill
<1>4. ASSUME NEW p \in Procs, Complete(p) PROVE TypeOK'
  <2>1. file' \in Receipts
    BY <1>4, Fields DEF Complete, Receipts
  <2> QED
    BY <1>4, <2>1, <1>a DEF Complete
<1>5. ASSUME NEW p \in Procs, Recheck(p) PROVE TypeOK'
  <2>1. PICK h \in left[p] : /\ mem[p].state[At(p, h)] = "succeeded"
                             /\ left' = [left EXCEPT ![p] = @ \ {h}]
                             /\ seen' = [seen EXCEPT ![p] = @ \cup {At(p, h)}]
    BY <1>5 DEF Recheck
  <2>2. At(p, h) \in Actions
    BY <1>5, ActionPairs DEF Recheck, Certain, At
  <2> QED
    BY <1>5, <2>1, <2>2 DEF Recheck
<1>6. ASSUME NEW p \in Procs, Note(p) PROVE TypeOK'
  <2>1. PICK h \in left[p] : /\ left' = [left EXCEPT ![p] = @ \ {h}]
                             /\ mem' = [mem EXCEPT ![p] = Set(@, At(p, h), "running")]
                             /\ job' = [job EXCEPT ![p][h] = "queued"]
    BY <1>6 DEF Note
  <2>2. At(p, h) \in Actions
    BY <1>6, ActionPairs DEF Note, Certain, At
  <2>3. Set(mem[p], At(p, h), "running") \in Receipts
    BY <2>2, Fields
  <2> QED
    BY <1>6, <2>1, <2>3 DEF Note, Jobs
<1>7. ASSUME NEW p \in Procs, Launch(p) PROVE TypeOK'
  BY <1>7 DEF Launch
<1>8. ASSUME NEW p \in Procs, Start(p) PROVE TypeOK'
  <2>1. PICK h \in Hosts : /\ job' = [job EXCEPT ![p][h] = "flying"]
                           /\ \/ ran' = ran
                              \/ ran[At(p, h)] < 2 /\ ran' = [ran EXCEPT ![At(p, h)] = @ + 1]
    BY <1>8 DEF Start
  <2>2. ran' \in [Actions -> 0..2]
    BY <2>1
  <2> QED
    BY <1>8, <2>1, <2>2 DEF Start, Jobs
<1>9. ASSUME NEW p \in Procs, Land(p) PROVE TypeOK'
  BY <1>9 DEF Land, Rowed, Outcomes, Jobs
<1>10. ASSUME NEW p \in Procs, Collect(p) PROVE TypeOK'
  <2>1. PICK h \in Hosts : /\ job[p][h] \in {"succeeded", "failed", "uncertain"}
                           /\ mem' = [mem EXCEPT ![p] = Set(@, At(p, h), job[p][h])]
                           /\ job' = [job EXCEPT ![p][h] = "none"]
                           /\ seen' = IF job[p][h] = "succeeded" THEN [seen EXCEPT ![p] = @ \cup {At(p, h)}] ELSE seen
    BY <1>10 DEF Collect
  <2>2. At(p, h) \in Actions
    BY <2>1, ActionPairs DEF Queued, At
  <2>3. Set(mem[p], At(p, h), job[p][h]) \in Receipts
    BY <2>1, <2>2, Fields
  <2>4. mem' \in [Procs -> Receipts] /\ file' \in Receipts
    BY <1>10, <2>1, <2>3 DEF Collect
  <2> QED
    BY <1>10, <2>1, <2>2, <2>4 DEF Collect, Jobs
<1>11. ASSUME NEW p \in Procs, Raised(p) PROVE TypeOK'
  BY <1>11 DEF Raised, Jobs
<1>12. ASSUME NEW p \in Procs, NextPhase(p) PROVE TypeOK'
  BY <1>12, DeployEngineAssumption DEF NextPhase, Phases
<1>13. CASE UNCHANGED vars
  BY <1>13 DEF vars
<1> QED
  BY <1>1, <1>2, <1>3, <1>4, <1>5, <1>6, <1>7, <1>8, <1>9, <1>10, <1>11, <1>12, <1>13 DEF Next, Step

\* The parts of Inv that concern controllers.
Controllers == Admitted /\ \A q \in Procs : Synced(q) /\ Queued(q) /\ Certain(q) /\ Witnessed(q)

\* Only the holder of the lock is inside.
LEMMA Alone ==
    ASSUME Inv, NEW p \in Procs, NEW q \in Procs, q # p, lock \in {None, p}
    PROVE  pc[q] = "idle" /\ job[q] = NoJobs /\ phase[q] = 1
BY DeployEngineAssumption DEF Inv, TypeOK, Admitted, Queued

\* An invocation that ends leaves every controller outside.
LEMMA LeaveStep ==
    ASSUME Inv, NEW p \in Procs, pc[p] # "idle", Leave(p)
    PROVE  Controllers'
<1>1. \A q \in Procs : pc'[q] = "idle" /\ job'[q] = NoJobs /\ phase'[q] = 1
  <2> SUFFICES ASSUME NEW q \in Procs PROVE pc'[q] = "idle" /\ job'[q] = NoJobs /\ phase'[q] = 1
    OBVIOUS
  <2>1. lock = p
    BY DEF Inv, Admitted
  <2>2. CASE q = p
    BY <2>2 DEF Leave, Inv, TypeOK
  <2>3. CASE q # p
    BY <2>1, <2>3, Alone DEF Leave, Inv, TypeOK
  <2> QED
    BY <2>2, <2>3
<1> QED
  BY <1>1, Constants DEF Controllers, Admitted, Synced, Queued, Certain, Witnessed, NoJobs

\* The controllers outside are not concerned by the steps of the one inside.
LEMMA OthersStep ==
    ASSUME Inv, NEW p \in Procs, pc[p] # "idle", NEW q \in Procs, q # p,
           pc'[q] = pc[q], job'[q] = job[q], phase'[q] = phase[q]
    PROVE  pc'[q] = "idle" /\ (Synced(q) /\ Queued(q) /\ Certain(q) /\ Witnessed(q))'
<1>1. lock = p
  BY DEF Inv, Admitted
<1>2. pc'[q] = "idle" /\ job'[q] = NoJobs /\ phase'[q] = 1
  BY <1>1, Alone
<1> QED
  BY <1>2, Constants DEF Synced, Queued, Certain, Witnessed, NoJobs

\* Saving the working copy keeps the marks.
LEMMA SaveStep ==
    ASSUME Inv, NEW p \in Procs, pc[p] # "idle", file' = mem[p], ran' = ran
    PROVE  Marked' /\ Earned'
<1>1. \A a \in Actions : mem[p].state[a] = file.state[a] \/ mem[p].state[a] = "running"
  BY DEF Inv, Synced
<1> QED
  BY <1>1 DEF Inv, Marked, Earned, Admitted, TypeOK

LEMMA InvStep == Inv /\ [Next]_vars => Inv'
<1> SUFFICES ASSUME Inv, [Next]_vars PROVE Inv'
  OBVIOUS
<1> USE DEF Inv
<1>t. TypeOK'
  BY TypeStep
<1>c. ASSUME Controllers', Marked', Earned' PROVE Inv'
  BY <1>c, <1>t DEF Controllers
<1>1. ASSUME NEW p \in Procs, Begin(p) PROVE Inv'
  <2>1. Marked' /\ Earned'
    BY <1>1 DEF Begin, Opened, Marked, Earned
  <2>2. Admitted'
    BY <1>1, Alone DEF Begin, Opened, Admitted, TypeOK
  <2>3. ASSUME NEW q \in Procs, q # p PROVE (Synced(q) /\ Queued(q) /\ Certain(q) /\ Witnessed(q))'
    <3>1. pc'[q] = "idle" /\ job'[q] = NoJobs /\ phase'[q] = 1
      BY <1>1, <2>3, Alone DEF Begin, TypeOK
    <3> QED
      BY <3>1, Constants DEF Synced, Queued, Certain, Witnessed, NoJobs
  <2>4. (Synced(p) /\ Queued(p) /\ Certain(p) /\ Witnessed(p))'
    <3>1. /\ pc'[p] = "check" /\ mem'[p].state = file.state /\ file'.state = file.state
          /\ job'[p] = NoJobs /\ phase'[p] = 1
      BY <1>1 DEF Begin, Opened, TypeOK, Queued
    <3>2. \A a \in Actions : ~(a[1] < 1)
      BY ActionPairs, DeployEngineAssumption DEF Phases
    <3> QED
      BY <3>1, <3>2, Constants DEF Synced, Queued, Certain, Witnessed, NoJobs
  <2> QED
    BY <2>1, <2>2, <2>3, <2>4, <1>c DEF Controllers
<1>i. ASSUME NEW p \in Procs, pc[p] # "idle",
             lock' = lock, file'.complete = FALSE, mem'[p].complete = FALSE, mem'[p].at = file'.at,
             \A q \in Procs : q # p => pc'[q] = pc[q] /\ job'[q] = job[q] /\ phase'[q] = phase[q],
             Synced(p)', Queued(p)', Certain(p)', Witnessed(p)', Marked', Earned'
      PROVE  Inv'
  <2>1. \A q \in Procs : q # p => pc'[q] = "idle" /\ (Synced(q) /\ Queued(q) /\ Certain(q) /\ Witnessed(q))'
    BY <1>i, OthersStep
  <2>2. Admitted'
    BY <1>i, <2>1 DEF Admitted
  <2> QED
    BY <1>i, <2>1, <2>2, <1>c DEF Controllers
<1>2. ASSUME NEW p \in Procs, Check(p) PROVE Inv'
  <2>1. CASE Leave(p) /\ UNCHANGED <<file, ran>>
    <3>1. Marked' /\ Earned'
      BY <2>1 DEF Marked, Earned
    <3> QED
      BY <1>2, <2>1, <3>1, LeaveStep, <1>c DEF Check
  <2>2. CASE ~(Leave(p) /\ UNCHANGED <<file, ran>>)
    <3>1. /\ pc[p] = "check" /\ pc'[p] = "recheck" /\ left'[p] = Rows[phase[p]]
          /\ \A h \in Rows[phase[p]] : mem[p].state[At(p, h)] \notin {"running", "uncertain"}
          /\ \A q \in Procs : q # p => pc'[q] = pc[q]
          /\ UNCHANGED <<lock, file, mem, phase, job, ran, seen>>
      BY <1>2, <2>2 DEF Check, TypeOK
    <3>2. Synced(p)' /\ Queued(p)'
      BY <3>1, Constants DEF Synced, Queued, NoJobs
    <3>3. Certain(p)'
      <4>1. \A h \in Rows[phase[p]] : mem[p].state[<<phase[p], h>>] \in States
        BY ActionPairs, Fields DEF TypeOK
      <4> QED
        BY <3>1, <4>1 DEF Certain, At, States
    <3>4. Witnessed(p)'
      BY <3>1, ActionPairs DEF Witnessed
    <3>5. Marked' /\ Earned'
      BY <3>1 DEF Marked, Earned
    <3> QED
      BY <3>1, <3>2, <3>3, <3>4, <3>5, <1>i DEF Admitted
  <2> QED
    BY <2>1, <2>2
<1>3. ASSUME NEW p \in Procs, CheckFails(p) \/ Drift(p) PROVE Inv'
  <2>1. pc[p] # "idle" /\ Leave(p) /\ file' = mem[p] /\ ran' = ran
    BY <1>3 DEF CheckFails, Drift
  <2> QED
    BY <2>1, LeaveStep, SaveStep, <1>c
<1>4. ASSUME NEW p \in Procs, Unwound(p) \/ PhaseFails(p) \/ Kill(p) PROVE Inv'
  <2>1. pc[p] # "idle" /\ Leave(p) /\ file' = file /\ ran' = ran
    BY <1>4 DEF Unwound, PhaseFails, Recorded, Kill
  <2>2. Marked' /\ Earned'
    BY <2>1 DEF Marked, Earned
  <2> QED
    BY <2>1, <2>2, LeaveStep, <1>c
<1>5. ASSUME NEW p \in Procs, Complete(p) PROVE Inv'
  <2>1. /\ pc[p] = "run" /\ Leave(p) /\ file'.state = mem[p].state /\ ran' = ran
        /\ Passed(p) /\ phase[p] = NumPhases
    BY <1>5 DEF Complete, Recorded
  <2>2. \A a \in Actions : mem[p].state[a] = file.state[a]
    BY <2>1 DEF Synced
  <2>3. Marked'
    BY <2>1, <2>2 DEF Marked
  <2>4. \A a \in Actions : mem[p].state[a] = "succeeded"
    <3> SUFFICES ASSUME NEW a \in Actions PROVE mem[p].state[a] = "succeeded"
      OBVIOUS
    <3>1. a[1] \in 1..NumPhases /\ a = <<a[1], a[2]>> /\ a[2] \in Rows[a[1]]
      BY ActionPairs DEF Phases
    <3>2. CASE a[1] < phase[p]
      BY <2>1, <3>2 DEF Witnessed
    <3>3. CASE a[1] = phase[p]
      BY <2>1, <3>1, <3>3 DEF Passed, At
    <3> QED
      BY <2>1, <3>1, <3>2, <3>3, DeployEngineAssumption
  <2>5. Earned'
    BY <2>1, <2>4 DEF Earned
  <2> QED
    BY <2>1, <2>3, <2>5, LeaveStep, <1>c
<1>6. ASSUME NEW p \in Procs, Recheck(p) PROVE Inv'
  <2>1. PICK h \in left[p] : /\ mem[p].state[At(p, h)] = "succeeded"
                             /\ left' = [left EXCEPT ![p] = @ \ {h}]
                             /\ seen' = [seen EXCEPT ![p] = @ \cup {At(p, h)}]
    BY <1>6 DEF Recheck
  <2>2. /\ pc[p] = "recheck" /\ file' = mem[p]
        /\ left'[p] = left[p] \ {h} /\ seen'[p] = seen[p] \cup {At(p, h)}
        /\ UNCHANGED <<lock, mem, pc, phase, job, ran>>
    BY <1>6, <2>1 DEF Recheck, TypeOK
  <2>3. Synced(p)' /\ Queued(p)' /\ Certain(p)'
    BY <2>2 DEF Synced, Queued, Certain
  <2>4. Witnessed(p)'
    <3> SUFFICES ASSUME NEW a \in Actions
                 PROVE  /\ a[1] < phase[p] => mem[p].state[a] = "succeeded" /\ a \in seen'[p]
                        /\ /\ a[1] = phase[p] /\ a[2] \notin left'[p] /\ mem[p].state[a] = "succeeded"
                           => a \in seen'[p]
      BY <2>2 DEF Witnessed
    <3>1. a = <<a[1], a[2]>>
      BY ActionPairs
    <3> QED
      BY <2>2, <3>1 DEF Witnessed, At
  <2>5. Marked' /\ Earned'
    BY <2>2, SaveStep
  <2> QED
    BY <2>2, <2>3, <2>4, <2>5, <1>i DEF Admitted
<1>7. ASSUME NEW p \in Procs, Note(p) PROVE Inv'
  <2>1. PICK h \in left[p] : /\ mem[p].state[At(p, h)] # "succeeded"
                             /\ left' = [left EXCEPT ![p] = @ \ {h}]
                             /\ mem' = [mem EXCEPT ![p] = Set(@, At(p, h), "running")]
                             /\ job' = [job EXCEPT ![p][h] = "queued"]
    BY <1>7 DEF Note
  <2>2. /\ pc[p] = "recheck" /\ h \in Hosts /\ h \in Rows[phase[p]] /\ At(p, h) \in Actions
        /\ At(p, h) = <<phase[p], h>>
        /\ mem[p].state[At(p, h)] \in {"none", "failed"}
        /\ UNCHANGED <<lock, file, pc, phase, ran, seen>>
    BY <1>7, <2>1, ActionPairs DEF Note, Certain, At, TypeOK
  <2>3. /\ left'[p] = left[p] \ {h}
        /\ job'[p] = [job[p] EXCEPT ![h] = "queued"]
        /\ mem'[p].complete = mem[p].complete /\ mem'[p].at = mem[p].at
        /\ mem'[p].state = [mem[p].state EXCEPT ![At(p, h)] = "running"]
        /\ mem[p].state \in [Actions -> States]
        /\ \A q \in Procs : q # p => job'[q] = job[q]
    <3>1. mem'[p] = Set(mem[p], At(p, h), "running") /\ mem[p] \in Receipts
      BY <2>1 DEF TypeOK
    <3>2. "running" \in States
      BY DEF States
    <3>3. /\ mem[p].state \in [Actions -> States]
          /\ mem'[p].complete = mem[p].complete /\ mem'[p].at = mem[p].at
          /\ mem'[p].state = [mem[p].state EXCEPT ![At(p, h)] = "running"]
      <4>1. At(p, h) \in Actions
        BY <2>2
      <4> HIDE DEF Inv
      <4> QED
        BY <3>1, <3>2, <4>1, Fields
    <3>4. left'[p] = left[p] \ {h}
      BY <2>1 DEF TypeOK
    <3>5. job'[p] = [job[p] EXCEPT ![h] = "queued"] /\ \A q \in Procs : q # p => job'[q] = job[q]
      BY <2>1 DEF TypeOK
    <3> QED
      BY <3>3, <3>4, <3>5
  <2>4. \A a \in Actions : IF a = At(p, h) THEN mem'[p].state[a] = "running" ELSE mem'[p].state[a] = mem[p].state[a]
    BY <2>2, <2>3
  <2>5. \A g \in Hosts : IF g = h THEN job'[p][g] = "queued" ELSE job'[p][g] = job[p][g]
    BY <2>2, <2>3 DEF TypeOK
  <2>6. job[p][h] = "none" /\ mem[p].state[At(p, h)] = file.state[At(p, h)]
    BY <2>1, <2>2 DEF Queued, Synced
  <2>7. ran[At(p, h)] = 0
    BY <2>2, <2>6 DEF Marked
  <2>8. Synced(p)'
    <3> SUFFICES ASSUME NEW a \in Actions
                 PROVE  \/ mem'[p].state[a] = file.state[a]
                        \/ /\ a[1] = phase[p] /\ job'[p][a[2]] = "queued"
                           /\ mem'[p].state[a] = "running" /\ file.state[a] \in {"none", "failed"}
      BY <2>2 DEF Synced
    <3>1. CASE a = At(p, h)
      BY <2>2, <2>4, <2>5, <2>6, <3>1
    <3>2. CASE a # At(p, h)
      BY <2>2, <2>4, <2>5, <3>2, ActionPairs DEF Synced
    <3> QED
      BY <3>1, <3>2
  <2>9. Queued(p)'
    <3> SUFFICES ASSUME NEW g \in Hosts, job'[p][g] # "none"
                 PROVE  /\ g \in Rows[phase[p]] /\ g \notin left'[p]
                        /\ mem'[p].state[<<phase[p], g>>] = "running"
                        /\ job'[p][g] = "queued"
                        /\ ran[<<phase[p], g>>] = 0
      BY <2>2 DEF Queued
    <3>1. CASE g = h
      BY <2>2, <2>3, <2>4, <2>5, <2>7, <3>1
    <3>2. CASE g # h
      <4>1. /\ job[p][g] # "none" /\ g \in Rows[phase[p]] /\ g \notin left[p]
            /\ mem[p].state[<<phase[p], g>>] = "running" /\ job[p][g] = "queued" /\ ran[<<phase[p], g>>] = 0
        BY <2>2, <2>5, <3>2 DEF Queued
      <4>2. <<phase[p], g>> \in Actions
        BY <4>1, ActionPairs DEF TypeOK
      <4> QED
        BY <2>2, <2>3, <2>4, <2>5, <3>2, <4>1, <4>2
    <3> QED
      BY <3>1, <3>2
  <2>10. Certain(p)'
    <3> SUFFICES ASSUME NEW g \in left'[p]
                 PROVE  g \in Rows[phase[p]] /\ mem'[p].state[<<phase[p], g>>] \in {"none", "failed", "succeeded"}
      BY <2>2 DEF Certain
    <3>1. g \in left[p] /\ g # h /\ g \in Rows[phase[p]] /\ <<phase[p], g>> \in Actions
      BY <2>2, <2>3, ActionPairs DEF Certain, TypeOK
    <3> QED
      BY <2>2, <2>4, <3>1 DEF Certain
  <2>11. Witnessed(p)'
    <3> SUFFICES ASSUME NEW a \in Actions
                 PROVE  /\ a[1] < phase[p] => mem'[p].state[a] = "succeeded" /\ a \in seen[p]
                        /\ /\ a[1] = phase[p] /\ a[2] \notin left'[p] /\ mem'[p].state[a] = "succeeded"
                           => a \in seen[p]
      BY <2>2 DEF Witnessed
    <3>1. CASE a = At(p, h)
      BY <2>2, <2>4, <3>1 DEF TypeOK, Phases
    <3>2. CASE a # At(p, h)
      BY <2>2, <2>3, <2>4, <3>2, ActionPairs DEF Witnessed
    <3> QED
      BY <3>1, <3>2
  <2>12. Marked' /\ Earned'
    BY <2>2 DEF Marked, Earned
  <2> QED
    BY <2>2, <2>3, <2>8, <2>9, <2>10, <2>11, <2>12, <1>i DEF Admitted
<1>8. ASSUME NEW p \in Procs, Launch(p) PROVE Inv'
  <2>1. /\ pc[p] = "recheck" /\ left[p] = {} /\ file' = mem[p] /\ pc'[p] = "run"
        /\ UNCHANGED <<lock, mem, phase, left, job, ran, seen>>
        /\ \A q \in Procs : q # p => pc'[q] = pc[q]
    BY <1>8 DEF Launch, TypeOK
  <2>2. Synced(p)' /\ Queued(p)' /\ Certain(p)' /\ Witnessed(p)'
    BY <2>1 DEF Synced, Queued, Certain, Witnessed
  <2>3. Marked' /\ Earned'
    BY <2>1, SaveStep
  <2> QED
    BY <2>1, <2>2, <2>3, <1>i DEF Admitted
<1>9. ASSUME NEW p \in Procs, Start(p) PROVE Inv'
  <2>1. PICK h \in Hosts : /\ job[p][h] = "queued"
                           /\ job' = [job EXCEPT ![p][h] = "flying"]
                           /\ ran' = IF phase[p] \in Changing /\ ran[At(p, h)] < 2
                                       THEN [ran EXCEPT ![At(p, h)] = @ + 1] ELSE ran
    BY <1>9 DEF Start, IsFirst, Rowed
  <2>2. /\ pc[p] = "run" /\ UNCHANGED <<lock, file, mem, pc, phase, left, seen>>
        /\ \A q \in Procs : q # p => job'[q] = job[q]
        /\ At(p, h) = <<phase[p], h>>
        /\ h \in Rows[phase[p]] /\ mem[p].state[At(p, h)] = "running" /\ ran[At(p, h)] = 0
    BY <1>9, <2>1 DEF Start, TypeOK, Queued, At
  <2>3. At(p, h) \in Actions /\ \A a \in Actions : mem[p].state[a] = file.state[a]
    <3>1. phase[p] \in Phases
      BY DEF TypeOK
    <3>2. At(p, h) \in Actions
      BY <2>2, <3>1, ActionPairs
    <3>3. \A a \in Actions : mem[p].state[a] = file.state[a]
      BY <2>2 DEF Synced
    <3> QED
      BY <3>2, <3>3
  <2>4. \A g \in Hosts : IF g = h THEN job'[p][g] = "flying" ELSE job'[p][g] = job[p][g]
    BY <2>1 DEF TypeOK
  <2>5. \A a \in Actions : IF a = At(p, h) THEN ran'[a] = (IF phase[p] \in Changing THEN 1 ELSE 0) ELSE ran'[a] = ran[a]
    <3>0. ran \in [Actions -> 0..2]
      BY DEF TypeOK
    <3>1. CASE phase[p] \in Changing
      <4>1. ran' = [ran EXCEPT ![At(p, h)] = @ + 1]
        BY <2>1, <2>2, <3>1
      <4> QED
        BY <2>2, <2>3, <3>0, <3>1, <4>1
    <3>2. CASE phase[p] \notin Changing
      <4>1. ran' = ran
        BY <2>1, <3>2
      <4> QED
        BY <2>2, <3>2, <4>1
    <3> QED
      BY <3>1, <3>2
  <2>6. Synced(p)' /\ Certain(p)' /\ Witnessed(p)'
    BY <2>2, <2>3 DEF Synced, Certain, Witnessed
  <2>7. Queued(p)'
    <3> SUFFICES ASSUME NEW g \in Hosts, job'[p][g] # "none"
                 PROVE  /\ g \in Rows[phase[p]] /\ g \notin left[p]
                        /\ mem[p].state[<<phase[p], g>>] = "running"
                        /\ job'[p][g] = "queued" => ran'[<<phase[p], g>>] = 0
                        /\ job'[p][g] = "failed" => phase[p] \notin Changing
      BY <2>2 DEF Queued
    <3>1. CASE g = h
      BY <2>2, <2>4, <3>1 DEF Queued
    <3>2. CASE g # h
      <4>1. g \in Rows[phase[p]] /\ <<phase[p], g>> \in Actions /\ <<phase[p], g>> # At(p, h)
        BY <2>2, <2>4, <3>2, ActionPairs DEF Queued, TypeOK
      <4> QED
        BY <2>2, <2>4, <2>5, <3>2, <4>1 DEF Queued
    <3> QED
      BY <3>1, <3>2
  <2>8. Marked' /\ Earned'
    <3>1. At(p, h)[1] = phase[p] /\ file.state[At(p, h)] = "running"
      BY <2>2, <2>3
    <3> QED
      BY <2>2, <2>5, <3>1 DEF Marked, Earned
  <2> QED
    BY <2>2, <2>6, <2>7, <2>8, <1>i DEF Admitted
<1>10. ASSUME NEW p \in Procs, Land(p) PROVE Inv'
  <2>1. PICK h \in Hosts, o \in Outcomes(phase[p]) : job[p][h] = "flying" /\ job' = [job EXCEPT ![p][h] = o]
    BY <1>10 DEF Land, Rowed
  <2>2. /\ pc[p] \in {"run", "unwind"} /\ UNCHANGED <<lock, file, mem, pc, phase, left, ran, seen>>
        /\ \A q \in Procs : q # p => job'[q] = job[q]
        /\ \A g \in Hosts : IF g = h THEN job'[p][g] = o ELSE job'[p][g] = job[p][g]
        /\ o # "queued" /\ (o = "failed" => phase[p] \notin Changing)
    BY <1>10, <2>1 DEF Land, TypeOK, Outcomes
  <2>3. Queued(p)'
    BY <2>1, <2>2 DEF Queued
  <2>4. Synced(p)' /\ Certain(p)' /\ Witnessed(p)' /\ Marked' /\ Earned'
    BY <2>2 DEF Synced, Certain, Witnessed, Marked, Earned
  <2> QED
    BY <2>2, <2>3, <2>4, <1>i DEF Admitted
<1>11. ASSUME NEW p \in Procs, Collect(p) PROVE Inv'
  <2>1. PICK h \in Hosts : /\ job[p][h] \in {"succeeded", "failed", "uncertain"}
                           /\ mem' = [mem EXCEPT ![p] = Set(@, At(p, h), job[p][h])]
                           /\ job' = [job EXCEPT ![p][h] = "none"]
                           /\ seen' = IF job[p][h] = "succeeded" THEN [seen EXCEPT ![p] = @ \cup {At(p, h)}] ELSE seen
    BY <1>11 DEF Collect
  <2>2. /\ pc[p] = "run" /\ file' = mem'[p] /\ UNCHANGED <<lock, pc, phase, left, ran>>
        /\ At(p, h) = <<phase[p], h>> /\ left[p] = {}
        /\ h \in Rows[phase[p]] /\ (job[p][h] = "failed" => phase[p] \notin Changing)
    BY <1>11, <2>1 DEF Collect, At, Queued
  <2>3. At(p, h) \in Actions /\ \A a \in Actions : mem[p].state[a] = file.state[a]
    BY <2>2, ActionPairs DEF TypeOK, Synced
  <2>4. /\ mem'[p].complete = mem[p].complete /\ mem'[p].at = mem[p].at
        /\ \A a \in Actions : IF a = At(p, h) THEN mem'[p].state[a] = job[p][h] ELSE mem'[p].state[a] = mem[p].state[a]
    <3>1. mem'[p] = Set(mem[p], At(p, h), job[p][h]) /\ mem[p] \in Receipts
      BY <2>1 DEF TypeOK
    <3>2. job[p][h] \in States
      BY <2>1 DEF States
    <3>3. /\ mem[p].state \in [Actions -> States]
          /\ mem'[p].complete = mem[p].complete /\ mem'[p].at = mem[p].at
          /\ mem'[p].state = [mem[p].state EXCEPT ![At(p, h)] = job[p][h]]
      BY <2>3, <3>1, <3>2, Fields
    <3> QED
      BY <2>3, <3>3
  <2>5. /\ \A g \in Hosts : IF g = h THEN job'[p][g] = "none" ELSE job'[p][g] = job[p][g]
        /\ \A q \in Procs : q # p => job'[q] = job[q]
        /\ seen[p] \subseteq seen'[p] /\ (job[p][h] = "succeeded" => At(p, h) \in seen'[p])
    BY <2>1 DEF TypeOK
  <2>6. Synced(p)' /\ Certain(p)'
    BY <2>2 DEF Synced, Certain
  <2>7. Queued(p)'
    <3> SUFFICES ASSUME NEW g \in Hosts, job'[p][g] # "none"
                 PROVE  /\ g \in Rows[phase[p]] /\ g \notin left[p]
                        /\ mem'[p].state[<<phase[p], g>>] = "running"
                        /\ job'[p][g] = "queued" => ran[<<phase[p], g>>] = 0
                        /\ job'[p][g] = "failed" => phase[p] \notin Changing
      BY <2>2 DEF Queued
    <3>1. g # h /\ job'[p][g] = job[p][g] /\ g \in Rows[phase[p]]
      <4>1. g # h /\ job'[p][g] = job[p][g]
        BY <2>5
      <4> QED
        BY <4>1 DEF Queued
    <3>2. <<phase[p], g>> \in Actions /\ <<phase[p], g>> # At(p, h)
      BY <2>2, <3>1, ActionPairs DEF TypeOK
    <3> QED
      BY <2>2, <2>4, <3>1, <3>2 DEF Queued
  <2>8. Witnessed(p)'
    <3> SUFFICES ASSUME NEW a \in Actions
                 PROVE  /\ a[1] < phase[p] => mem'[p].state[a] = "succeeded" /\ a \in seen'[p]
                        /\ a[1] = phase[p] /\ mem'[p].state[a] = "succeeded" => a \in seen'[p]
      BY <2>2 DEF Witnessed
    <3>1. CASE a = At(p, h)
      BY <2>2, <2>4, <2>5, <3>1 DEF TypeOK, Phases
    <3>2. CASE a # At(p, h)
      BY <2>2, <2>4, <2>5, <3>2 DEF Witnessed
    <3> QED
      BY <3>1, <3>2
  <2>9. Marked' /\ Earned'
    <3>1. At(p, h)[1] = phase[p] /\ file'.complete = FALSE
      BY <2>2, <2>4 DEF Admitted
    <3> QED
      BY <2>1, <2>2, <2>3, <2>4, <3>1 DEF Marked, Earned
  <2> QED
    BY <2>2, <2>4, <2>5, <2>6, <2>7, <2>8, <2>9, <1>i DEF Admitted
<1>12. ASSUME NEW p \in Procs, Raised(p) PROVE Inv'
  <2>1. /\ pc[p] = "run" /\ pc'[p] = "unwind" /\ UNCHANGED <<lock, file, mem, phase, left, ran, seen>>
        /\ \A q \in Procs : q # p => pc'[q] = pc[q] /\ job'[q] = job[q]
        /\ \A h \in Hosts : job'[p][h] # "none" => job'[p][h] = "flying" /\ job[p][h] = "flying"
    BY <1>12 DEF Raised, TypeOK
  <2>2. Queued(p)'
    BY <2>1 DEF Queued
  <2>3. Synced(p)' /\ Certain(p)' /\ Witnessed(p)' /\ Marked' /\ Earned'
    BY <2>1 DEF Synced, Certain, Witnessed, Marked, Earned
  <2> QED
    BY <2>1, <2>2, <2>3, <1>i DEF Admitted
<1>13. ASSUME NEW p \in Procs, NextPhase(p) PROVE Inv'
  <2>1. /\ pc[p] = "run" /\ pc'[p] = "check" /\ phase'[p] = phase[p] + 1 /\ Passed(p)
        /\ UNCHANGED <<lock, file, mem, left, job, ran, seen>>
        /\ \A q \in Procs : q # p => pc'[q] = pc[q] /\ phase'[q] = phase[q]
        /\ Rowed(p, Jobs \ {"none"}) = {} /\ left[p] = {}
    <3>1. /\ pc[p] = "run" /\ Passed(p) /\ Rowed(p, Jobs \ {"none"}) = {}
          /\ pc' = [pc EXCEPT ![p] = "check"] /\ phase' = [phase EXCEPT ![p] = @ + 1]
          /\ UNCHANGED <<lock, file, mem, left, job, ran, seen>>
      BY <1>13 DEF NextPhase, Recorded
    <3>2. left[p] = {}
      BY <3>1 DEF Queued
    <3> QED
      BY <3>1, <3>2 DEF TypeOK
  <2>2. job[p] = NoJobs
    BY <2>1 DEF Rowed, TypeOK, NoJobs
  <2>3. Synced(p)' /\ Queued(p)' /\ Certain(p)'
    BY <2>1, <2>2, Constants DEF Synced, Queued, Certain
  <2>4. Witnessed(p)'
    <3> SUFFICES ASSUME NEW a \in Actions, a[1] < phase[p] + 1
                 PROVE  mem[p].state[a] = "succeeded" /\ a \in seen[p]
      <4>1. \A a \in Actions : a[1] \in Nat
        BY ActionPairs DEF Phases
      <4> QED
        BY <2>1 DEF Witnessed
    <3>1. a[1] \in Nat /\ phase[p] \in Nat /\ a = <<a[1], a[2]>> /\ a[2] \in Rows[a[1]]
      BY ActionPairs DEF TypeOK, Phases
    <3>2. CASE a[1] < phase[p]
      BY <2>1, <3>2 DEF Witnessed
    <3>3. CASE a[1] = phase[p]
      <4>1. mem[p].state[a] = "succeeded"
        BY <2>1, <3>1, <3>3 DEF Passed, At
      <4> QED
        BY <2>1, <3>3, <4>1 DEF Witnessed
    <3> QED
      BY <3>1, <3>2, <3>3
  <2>5. Marked' /\ Earned'
    BY <2>1 DEF Marked, Earned
  <2> QED
    BY <2>1, <2>3, <2>4, <2>5, <1>i DEF Admitted
<1>14. CASE UNCHANGED vars
  BY <1>14, <1>t DEF vars, Admitted, Synced, Queued, Certain, Witnessed, Marked, Earned
<1> QED
  BY <1>1, <1>2, <1>3, <1>4, <1>5, <1>6, <1>7, <1>8, <1>9, <1>10, <1>11, <1>12, <1>13, <1>14 DEF Next, Step

(***************************************************************************)
(* The inductive invariant of every execution.                             *)
(***************************************************************************)
THEOREM Invariance == Spec => []Inv
BY InitInv, InvStep, PTL DEF Spec

(***************************************************************************)
(* Type correctness of the receipt, the controllers' copies and the pool.  *)
(***************************************************************************)
THEOREM TypeCorrect == Spec => []TypeOK
<1>1. Inv => TypeOK
  BY DEF Inv
<1> QED
  BY <1>1, Invariance, PTL

(***************************************************************************)
(* "never retry an uncertain mutation automatically": for every plan, any  *)
(* number of controllers, resumes, failures and kills, the command of a    *)
(* changing action begins at most once for a receipt.                      *)
(***************************************************************************)
THEOREM MutatesOnce == Spec => []MutationsOnce
<1>1. Inv => MutationsOnce
  BY DEF Inv, Marked, MutationsOnce
<1> QED
  BY <1>1, Invariance, PTL

(***************************************************************************)
(* A complete receipt records every action succeeded, and only an          *)
(* invocation that saw every action hold completes it.                     *)
(***************************************************************************)
THEOREM CompletionEarned == Spec => []CompleteMeansSeen
<1>1. Inv => CompleteMeansSeen
  <2> SUFFICES ASSUME Inv, NEW p \in Procs, Recorded(p), Passed(p), phase[p] = NumPhases
               PROVE  seen[p] = Actions
    BY DEF Inv, Earned, CompleteMeansSeen
  <2>1. pc[p] = "run" /\ left[p] = {} /\ seen[p] \subseteq Actions
    BY DEF Recorded, Inv, Queued, TypeOK
  <2>2. ASSUME NEW a \in Actions PROVE a \in seen[p]
    <3>1. a[1] \in 1..NumPhases /\ a = <<a[1], a[2]>> /\ a[2] \in Rows[a[1]]
      BY ActionPairs DEF Phases
    <3>2. CASE a[1] < phase[p]
      BY <2>1, <3>2 DEF Inv, Witnessed
    <3>3. CASE a[1] = phase[p]
      <4>1. mem[p].state[a] = "succeeded"
        BY <3>1, <3>3 DEF Passed, At
      <4> QED
        BY <2>1, <3>3, <4>1 DEF Inv, Witnessed
    <3> QED
      BY <3>1, <3>2, <3>3, DeployEngineAssumption
  <2> QED
    BY <2>1, <2>2
<1> QED
  BY <1>1, Invariance, PTL

(***************************************************************************)
(* Phases are barriers: a command begins only after this invocation saw    *)
(* every action of the earlier phases hold, with its entry on disk.        *)
(***************************************************************************)
THEOREM Barriers == Spec => PhaseBarrier
<1>1. Inv /\ [Next]_vars =>
         [\A p \in Procs, h \in Hosts :
             job[p][h] = "queued" /\ job'[p][h] = "flying" =>
                /\ \A a \in Actions : a[1] < phase[p] => a \in seen[p]
                /\ file.state[At(p, h)] = "running"]_vars
  <2> SUFFICES ASSUME Inv, [Next]_vars, NEW p \in Procs, NEW h \in Hosts,
                      job[p][h] = "queued", job'[p][h] = "flying"
               PROVE  /\ \A a \in Actions : a[1] < phase[p] => a \in seen[p]
                      /\ file.state[At(p, h)] = "running"
    OBVIOUS
  <2>1. pc[p] # "idle" /\ mem[p].state[At(p, h)] = "running" /\ At(p, h) \in Actions
    BY Constants, ActionPairs DEF Inv, Queued, TypeOK, At
  <2>2. \A a \in Actions : a[1] < phase[p] => a \in seen[p]
    BY <2>1 DEF Inv, Witnessed
  <2>3. pc[p] # "recheck"
    <3>1. ASSUME pc[p] = "recheck", NEW q \in Procs, Begin(q) \/ Step(q) \/ Kill(q) PROVE FALSE
      <4>1. q = p
        BY <3>1 DEF Inv, TypeOK, Admitted, Begin, Step, Kill, Check, CheckFails, Recheck, Drift, Note, Launch, Start,
                    Land, Collect, Raised, Unwound, PhaseFails, NextPhase, Complete, Recorded
      <4>2. Recheck(p) \/ Drift(p) \/ Note(p) \/ Launch(p) \/ Kill(p)
        BY <3>1, <4>1 DEF Begin, Step, Check, CheckFails, Start, Land, Collect, Raised, Unwound, PhaseFails, NextPhase,
                          Complete, Recorded
      <4>3. \A g \in Hosts : job'[p][g] = job[p][g] \/ job'[p][g] \in {"none", "queued"}
        BY <4>2, Constants DEF Recheck, Drift, Note, Launch, Kill, Leave, Inv, TypeOK
      <4> QED
        BY <4>3
    <3> QED
      BY <3>1 DEF Next, vars
  <2> QED
    BY <2>1, <2>2, <2>3 DEF Inv, Synced
<1> QED
  BY <1>1, Invariance, PTL DEF Spec, PhaseBarrier

(***************************************************************************)
(* The completion time of a receipt is written once.                       *)
(***************************************************************************)
THEOREM CompletionTimeKept == Spec => CompletedAtKept
<1>1. Inv /\ [Next]_vars =>
         [/\ file.at # Absent => file'.at = file.at
          /\ file.complete /\ file.at = Absent => file'.at \in {Absent, Unknown}]_vars
  <2> SUFFICES ASSUME Inv, NEW p \in Procs, Begin(p) \/ Step(p) \/ Kill(p)
               PROVE  /\ file.at # Absent => file'.at = file.at
                      /\ file.complete /\ file.at = Absent => file'.at \in {Absent, Unknown}
    BY DEF Next
  <2>1. CASE Begin(p)
    BY <2>1 DEF Begin, Opened
  <2>2. CASE Step(p) \/ Kill(p)
    <3>1. pc[p] # "idle"
      BY <2>2 DEF Step, Kill, Check, CheckFails, Recheck, Drift, Note, Launch, Start, Land, Collect, Raised, Unwound,
                  PhaseFails, NextPhase, Complete, Recorded
    <3>2. file.complete = FALSE /\ mem[p].at = file.at
      BY <3>1 DEF Inv, Admitted
    <3>3. CASE Collect(p)
      <4>1. PICK h \in Hosts : mem' = [mem EXCEPT ![p] = Set(@, At(p, h), job[p][h])] /\ file' = mem'[p]
        BY <3>3 DEF Collect
      <4> QED
        BY <3>2, <4>1 DEF Set, Inv, TypeOK
    <3>4. CASE Complete(p)
      BY <3>2, <3>4 DEF Complete
    <3>5. CASE ~Collect(p) /\ ~Complete(p)
      <4>1. file' = file \/ file' = mem[p]
        BY <2>2, <3>5 DEF Step, Kill, Check, CheckFails, Recheck, Drift, Note, Launch, Start, Land, Raised, Unwound,
                    PhaseFails, NextPhase
      <4> QED
        BY <3>2, <4>1
    <3> QED
      BY <3>3, <3>4, <3>5
  <2> QED
    BY <2>1, <2>2
<1> QED
  BY <1>1, Invariance, PTL DEF Spec, CompletedAtKept
==============================================================================
