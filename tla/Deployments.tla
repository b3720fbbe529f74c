----------------------------- MODULE Deployments -----------------------------
(***************************************************************************)
(* installer.apply as its callers see it: start, stop, prepare or verify   *)
(* one deployment through its own adapter.  A deployment has a state.json  *)
(* (last operation, complete or not), the receipt of its current           *)
(* generation, and containers that run on some of its Sparks.  A call may  *)
(* be refused, fail before or after it has begun, or be cut off by a kill; *)
(* the remote commands it has sent run to their own end all the same.      *)
(* DeployEngine models the receipt itself.                                 *)
(***************************************************************************)
EXTENDS Admission, Sequences, FiniteSets

CONSTANTS
    Dirs,       \* deployment directories
    DirSlot,    \* [Dirs -> Placements]: the placement each deployment's lock records
    None,       \* no deployment
    MaxFaults   \* bound: kills, failed actions and Spark restarts of a run

ASSUME DeploymentsAssumption ==
    /\ DirSlot \in [Dirs -> Placements]
    /\ None \notin Dirs
    /\ MaxFaults \in Nat

VARIABLES
    op,       \* [Dirs -> state.json "operation"]
    done,     \* [Dirs -> state.json "complete"]
    receipt,  \* [Dirs -> "fresh", "halfway", "unsure" or "changed"]: the generation's changing
              \* actions not begun, succeeded on the workers of a start only, running or
              \* uncertain, or succeeded
    runs,     \* [Dirs -> the Sparks on which its containers run]
    starting, \* [Dirs -> the Sparks where a start that its caller gave up on goes on]
    stopping, \* [Dirs -> the Sparks where a stop that its caller gave up on goes on]
    strays,   \* history: [Dirs -> the Sparks of runs where a start took effect after its caller
              \* gave up on it, or died]
    work,     \* [Procs -> the calls <<directory, action>> the process is about to make]
    stage,    \* [Procs -> "none", "begun" or "checked"]: progress of the first of them
    err,      \* [Procs -> whether a call has raised]
    faults    \* how much of MaxFaults is spent

dvars == <<op, done, receipt, runs, starting, stopping, strays, work, stage, err, faults>>

SparksOf(d) == IF DirSlot[d] = Ring THEN Positions ELSE DirSlot[d]

Actions == {"prepare", "up", "down", "verify"}

DeploymentsTypeOK ==
    /\ op \in [Dirs -> {"none", "prepare", "up", "down"}]
    /\ done \in [Dirs -> BOOLEAN]
    /\ receipt \in [Dirs -> {"fresh", "halfway", "unsure", "changed"}]
    /\ runs \in [Dirs -> SUBSET Positions] /\ starting \in [Dirs -> SUBSET Positions]
    /\ stopping \in [Dirs -> SUBSET Positions] /\ strays \in [Dirs -> SUBSET Positions]
    /\ \A d \in Dirs : runs[d] \cup starting[d] \subseteq SparksOf(d)
    /\ work \in [Procs -> Seq(Dirs \X Actions)]
    /\ stage \in [Procs -> {"none", "begun", "checked"}]
    /\ err \in [Procs -> BOOLEAN]
    /\ faults \in 0..MaxFaults

\* A deployment in `up` serves; every other one has never been operated.
DeploymentsInit(up) ==
    /\ op = [d \in Dirs |-> IF d \in up THEN "up" ELSE "none"]
    /\ done = [d \in Dirs |-> TRUE]
    /\ receipt = [d \in Dirs |-> IF d \in up THEN "changed" ELSE "fresh"]
    /\ runs = [d \in Dirs |-> IF d \in up THEN SparksOf(d) ELSE {}]
    /\ starting = [d \in Dirs |-> {}] /\ stopping = [d \in Dirs |-> {}] /\ strays = [d \in Dirs |-> {}]
    /\ work = [p \in Procs |-> <<>>]
    /\ stage = [p \in Procs |-> "none"]
    /\ err = [p \in Procs |-> FALSE]
    /\ faults = 0

\* placement.stopped: the last operation is a completed down, or none ran.
Stopped(d) == op[d] = "none" \/ (op[d] = "down" /\ done[d])

\* Every rank's "running" check passes.
AllRun(d) == runs[d] = SparksOf(d)

\* check_workloads and require_idle on every rank: no other deployment's container.
GpusFree(d) == \A e \in Dirs \ {d} : runs[e] \cap SparksOf(d) = {}

\* Rank 0 serves the API; a start begins the other ranks first.
ApiSpark(d) == CHOOSE i \in SparksOf(d) : TRUE
Workers(d) == SparksOf(d) \ {ApiSpark(d)}

\* The process is inside a call that holds the deployment's operation.lock.
Inside(p, d) == stage[p] # "none" /\ Head(work[p])[1] = d

\* apply repeats an incomplete preparation, or a completed start that no rank runs
\* any more, as a new generation.
Again(d, a) == \/ a = "prepare" /\ ~done[d]
               \/ a = "up" /\ done[d] /\ runs[d] = {}

\* apply raises before it runs any action: a change of direction after an incomplete
\* operation other than into down, a model running on some ranks only, a receipt with
\* an action whose outcome is uncertain.
Refused(d, a) ==
    \/ op[d] # a /\ ~done[d] /\ a # "down"
    \/ op[d] = a /\ a = "up" /\ done[d] /\ runs[d] # {} /\ ~AllRun(d)
    \/ op[d] = a /\ ~Again(d, a) /\ receipt[d] = "unsure"

-----------------------------------------------------------------------------
\* What the history keeps of the containers that run after a step.
Track(held) ==
    strays' = [d \in Dirs |-> (strays[d] \cap runs'[d]) \cup (IF held THEN {} ELSE runs'[d] \ runs[d])]

\* The call returned: the process goes on to its next one.
Pop(p) ==
    /\ work' = [work EXCEPT ![p] = Tail(@)]
    /\ stage' = [stage EXCEPT ![p] = "none"]

\* The call raised; a caller that records each error and goes on is `tolerant`.
Raise(p, tolerant) ==
    /\ work' = [work EXCEPT ![p] = IF tolerant THEN Tail(@) ELSE <<>>]
    /\ stage' = [stage EXCEPT ![p] = "none"]
    /\ err' = [err EXCEPT ![p] = TRUE]

ApplyRefuse(p, tolerant) ==
    /\ work[p] # <<>> /\ stage[p] = "none"
    /\ LET d == Head(work[p])[1]
           a == Head(work[p])[2]
       IN  /\ a # "verify"
           /\ Refused(d, a) \/ \E q \in Procs \ {p} : Inside(q, d)
           /\ Raise(p, tolerant)
    /\ UNCHANGED <<op, done, receipt, runs, starting, stopping, strays, faults>>

\* operation.lock is taken and state.json names the operation, incomplete.
ApplyBegin(p) ==
    /\ work[p] # <<>> /\ stage[p] = "none"
    /\ LET d == Head(work[p])[1]
           a == Head(work[p])[2]
       IN  /\ a # "verify"
           /\ ~Refused(d, a) /\ \A q \in Procs \ {p} : ~Inside(q, d)
           /\ receipt' = [receipt EXCEPT ![d] = IF op[d] # a \/ Again(d, a) THEN "fresh" ELSE @]
           /\ op' = [op EXCEPT ![d] = a]
           /\ done' = [done EXCEPT ![d] = FALSE]
    /\ stage' = [stage EXCEPT ![p] = "begun"]
    /\ UNCHANGED <<runs, starting, stopping, strays, work, err, faults>>

\* The GPU checks of up, which a resumed receipt repeats, up to the one minutes before
\* docker start: another workload on a GPU fails the call.
ApplyCheck(p, tolerant) ==
    /\ stage[p] = "begun" /\ Head(work[p])[2] = "up"
    /\ IF GpusFree(Head(work[p])[1])
         THEN stage' = [stage EXCEPT ![p] = "checked"] /\ UNCHANGED <<work, err>>
         ELSE Raise(p, tolerant)
    /\ UNCHANGED <<op, done, receipt, runs, starting, stopping, strays, faults>>

\* The remaining phases succeed.  A receipt whose changing actions had succeeded only
\* verifies them again, and fails when the containers are gone.
Gone(d) == \/ receipt[d] = "changed" /\ ~AllRun(d)
           \/ receipt[d] = "halfway" /\ ~(Workers(d) \subseteq runs[d])

ApplyDone(p, tolerant) ==
    /\ stage[p] # "none"
    /\ LET d == Head(work[p])[1]
           a == Head(work[p])[2]
       IN  /\ stage[p] = IF a = "up" THEN "checked" ELSE "begun"
           /\ IF a = "up" /\ Gone(d)
                THEN Raise(p, tolerant) /\ UNCHANGED <<done, receipt, runs, strays>>
                ELSE /\ runs' = [runs EXCEPT ![d] = CASE a = "up" -> SparksOf(d)
                                                      [] a = "down" -> {}
                                                      [] a = "prepare" -> @]
                     /\ Track(granted[p] # NoGrant)
                     /\ receipt' = [receipt EXCEPT ![d] = "changed"]
                     /\ done' = [done EXCEPT ![d] = TRUE]
                     /\ Pop(p)
                     /\ UNCHANGED err
    /\ UNCHANGED <<op, starting, stopping, faults>>

\* The Sparks where a start has still to begin: after half of it, the API rank's.
ToStart(d) == SparksOf(d) \ (runs[d] \cup IF receipt[d] = "halfway" THEN Workers(d) ELSE {})

\* What an action that failed, or the death of the controller, leaves of an operation:
\* containers started or stopped on the Sparks of S, and on those of L remote commands
\* that nobody waits for any more.  A preparation is always repeated from a fresh receipt.
Interrupted(d, a, st) ==
    IF receipt[d] = "changed" \/ a = "prepare" THEN UNCHANGED <<receipt, runs, starting, stopping>>
    ELSE \/ /\ \E r \in {receipt[d], "unsure"} : receipt' = [receipt EXCEPT ![d] = r]
            /\ UNCHANGED <<runs, starting, stopping>>
         \/ /\ a = "up" /\ st = "checked"
            /\ \E S, L \in SUBSET ToStart(d), r \in {"halfway", "unsure", "changed"} :
                  /\ S \cap L = {}
                  /\ ApiSpark(d) \in S \cup L => Workers(d) \subseteq runs[d] \cup S
                  /\ r = "halfway" => L = {} /\ Workers(d) \subseteq runs[d] \cup S
                  /\ r = "changed" => L = {} /\ runs[d] \cup S = SparksOf(d)
                  /\ receipt' = [receipt EXCEPT ![d] = r]
                  /\ runs' = [runs EXCEPT ![d] = @ \cup S]
                  /\ starting' = [starting EXCEPT ![d] = @ \cup L]
            /\ UNCHANGED stopping
         \/ /\ a = "down"
            /\ \E S, L \in SUBSET runs[d], r \in {"unsure", "changed"} :
                  /\ S \cap L = {}
                  /\ r = "changed" => S = runs[d]
                  /\ receipt' = [receipt EXCEPT ![d] = r]
                  /\ runs' = [runs EXCEPT ![d] = @ \ S]
                  /\ stopping' = [stopping EXCEPT ![d] = @ \cup L]
            /\ UNCHANGED starting

\* The call fails: before it has saved anything (its source is not there, a Spark does not
\* answer), in an action of its plan, or in a verification.
ApplyFail(p, tolerant) ==
    /\ faults < MaxFaults
    /\ faults' = faults + 1
    /\ work[p] # <<>>
    /\ IF stage[p] # "none" THEN Interrupted(Head(work[p])[1], Head(work[p])[2], stage[p])
                            ELSE UNCHANGED <<receipt, runs, starting, stopping>>
    /\ Track(granted[p] # NoGrant)
    /\ Raise(p, tolerant)
    /\ UNCHANGED <<op, done>>

\* retained_source "verify": every rank owned and running, then a smoke request.
Verify(p, tolerant) ==
    /\ work[p] # <<>> /\ Head(work[p])[2] = "verify"
    /\ IF AllRun(Head(work[p])[1]) THEN Pop(p) /\ UNCHANGED err ELSE Raise(p, tolerant)
    /\ UNCHANGED <<op, done, receipt, runs, starting, stopping, strays, faults>>

\* One step of the first call of p.
Apply(p, tolerant) ==
    \/ ApplyRefuse(p, tolerant) \/ ApplyBegin(p) \/ ApplyCheck(p, tolerant)
    \/ ApplyDone(p, tolerant) \/ Verify(p, tolerant)

\* The controller process dies inside or between calls.
ApplyKilled(p) ==
    /\ faults < MaxFaults
    /\ faults' = faults + 1
    /\ IF stage[p] # "none" THEN Interrupted(Head(work[p])[1], Head(work[p])[2], stage[p])
                            ELSE UNCHANGED <<receipt, runs, starting, stopping>>
    /\ Track(granted[p] # NoGrant)
    /\ work' = [work EXCEPT ![p] = <<>>]
    /\ stage' = [stage EXCEPT ![p] = "none"]
    /\ err' = [err EXCEPT ![p] = FALSE]
    /\ UNCHANGED <<op, done>>

\* Only the controller dies: the child process in which the deployment's own source makes
\* the call goes on with it, under operation.lock.
ApplyOrphaned(p) ==
    /\ faults < MaxFaults
    /\ faults' = faults + 1
    /\ stage[p] # "none"
    /\ work' = [work EXCEPT ![p] = <<Head(@)>>]
    /\ err' = [err EXCEPT ![p] = FALSE]
    /\ UNCHANGED <<op, done, receipt, runs, starting, stopping, strays, stage>>

\* A remote command that nobody waits for any more comes to its end.
Lands ==
    /\ \E d \in Dirs :
          \/ \E i \in starting[d] :
                /\ starting' = [starting EXCEPT ![d] = @ \ {i}]
                /\ runs' = [runs EXCEPT ![d] = @ \cup {i}]
                /\ UNCHANGED stopping
          \/ \E i \in stopping[d] :
                /\ stopping' = [stopping EXCEPT ![d] = @ \ {i}]
                /\ runs' = [runs EXCEPT ![d] = @ \ {i}]
                /\ UNCHANGED starting
    /\ Track(FALSE)
    /\ UNCHANGED <<op, done, receipt, work, stage, err, faults>>

\* A Spark restarts: its containers and the commands that run there are gone.
Restart(i) ==
    /\ faults < MaxFaults
    /\ faults' = faults + 1
    /\ \E d \in Dirs : i \in runs[d]
    /\ runs' = [d \in Dirs |-> runs[d] \ {i}]
    /\ starting' = [d \in Dirs |-> starting[d] \ {i}]
    /\ stopping' = [d \in Dirs |-> stopping[d] \ {i}]
    /\ Track(TRUE)
    /\ UNCHANGED <<op, done, receipt, work, stage, err>>

(***************************************************************************)
(* "Slots that share a Spark never serve at the same time" (placement.py): *)
(* two deployments never have containers on one Spark.  It does not hold:  *)
(* a start that its caller gave up on may take effect when another command *)
(* has started a model on that Spark (README, Observations).               *)
(***************************************************************************)
OneModelPerSpark ==
    \A d, e \in Dirs : d # e => runs[d] \cap runs[e] = {}

(***************************************************************************)
(* The same, but for such strays: containers that two commands started     *)
(* while they ran never share a Spark, through switches, displacements,    *)
(* failures, kills, restorations and the strays themselves.                *)
(***************************************************************************)
OnlyStraysShare ==
    \A d, e \in Dirs : d # e => runs[d] \cap runs[e] \subseteq strays[d] \cup strays[e]
==============================================================================
