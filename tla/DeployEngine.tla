----------------------------- MODULE DeployEngine -----------------------------
(***************************************************************************)
(* scripts/deploy_engine.py: controllers execute one sealed plan against   *)
(* one receipt.  The plan is a sequence of phases with at most one action  *)
(* per host each; the phases are barriers.  The receipt file is rewritten  *)
(* after every recorded change, so that a later invocation can resume      *)
(* after a failure or the death of the controller.  Each controller works  *)
(* on its own copy of the receipt; a lock beside the file admits one.      *)
(***************************************************************************)
EXTENDS Naturals, FiniteSets

CONSTANTS
    Procs,      \* controllers
    NumPhases,  \* phases of the plan
    Rows,       \* [1..NumPhases -> the hosts with an action in the phase], in order of their numbers
    Changing,   \* the phases whose actions change a host; the others are read-only
    Workers,    \* threads of the pool
    Times,      \* values of time.time()
    None, Absent, Unknown  \* no controller; no "completed_at"; a "completed_at" of null

Phases == 1..NumPhases
Hosts == UNION {Rows[k] : k \in Phases}
Actions == {a \in Phases \X Hosts : a[2] \in Rows[a[1]]}

ASSUME DeployEngineAssumption ==
    /\ NumPhases \in Nat \ {0}
    /\ Rows \in [1..NumPhases -> SUBSET Nat]
    /\ \A k \in 1..NumPhases : IsFiniteSet(Rows[k])
    /\ Changing \subseteq 1..NumPhases
    /\ Workers \in Nat \ {0}
    /\ None \notin Procs
    /\ Absent # Unknown /\ Absent \notin Times /\ Unknown \notin Times

VARIABLES
    lock,   \* the controller that holds the receipt's lock file
    file,   \* the receipt on disk
    mem,    \* [Procs -> the copy of the receipt a controller works on]
    pc,     \* [Procs -> where its invocation is]
    phase,  \* [Procs -> its current phase]
    left,   \* [Procs -> rows of the phase its current loop has not reached]
    job,    \* [Procs -> [Hosts -> the row's command in the thread pool]]
    ran,    \* [Actions -> how often the command of a changing action began, counted to 2]
    seen    \* [Procs -> actions this invocation observed to hold]

vars == <<lock, file, mem, pc, phase, left, job, ran, seen>>

\* The state of an action's entry; "none" when the receipt has none.
States == {"none", "running", "succeeded", "failed", "uncertain"}
Receipts == [state : [Actions -> States], complete : BOOLEAN, at : Times \cup {Absent, Unknown}]
Jobs == {"none", "queued", "flying", "succeeded", "failed", "uncertain", "raised"}

NoReceipt == [state |-> [a \in Actions |-> "none"], complete |-> FALSE, at |-> Absent]
NoJobs == [h \in Hosts |-> "none"]

TypeOK ==
    /\ lock \in Procs \cup {None}
    /\ file \in Receipts
    /\ mem \in [Procs -> Receipts]
    /\ pc \in [Procs -> {"idle", "check", "recheck", "run", "unwind"}]
    /\ phase \in [Procs -> Phases]
    /\ left \in [Procs -> SUBSET Hosts]
    /\ job \in [Procs -> [Hosts -> Jobs]]
    /\ ran \in [Actions -> 0..2]
    /\ seen \in [Procs -> SUBSET Actions]

\* A plan never executed, or completed by a release that recorded no time.
Init ==
    /\ lock = None
    /\ file \in {NoReceipt, [state |-> [a \in Actions |-> "succeeded"], complete |-> TRUE, at |-> Absent]}
    /\ mem = [p \in Procs |-> NoReceipt]
    /\ pc = [p \in Procs |-> "idle"]
    /\ phase = [p \in Procs |-> 1]
    /\ left = [p \in Procs |-> {}]
    /\ job = [p \in Procs |-> NoJobs]
    /\ ran = [a \in Actions |-> IF file.complete /\ a[1] \in Changing THEN 1 ELSE 0]
    /\ seen = [p \in Procs |-> {}]

-----------------------------------------------------------------------------
IsFirst(h, S) == h \in S /\ \A g \in S : h <= g

\* The action of row h in the phase p is in.
At(p, h) == <<phase[p], h>>
Set(r, a, state) == [state |-> [r.state EXCEPT ![a] = state], complete |-> r.complete, at |-> r.at]

\* The invocation is over: with an exception, its result, or the controller's death.
Leave(p) ==
    /\ lock' = None
    /\ pc' = [pc EXCEPT ![p] = "idle"]
    /\ phase' = [phase EXCEPT ![p] = 1]
    /\ left' = [left EXCEPT ![p] = {}]
    /\ job' = [job EXCEPT ![p] = NoJobs]
    /\ mem' = [mem EXCEPT ![p] = NoReceipt]
    /\ seen' = [seen EXCEPT ![p] = {}]

\* From now on the receipt is incomplete until every phase passes; one that was complete
\* without a time keeps an unknown one.
Opened ==
    [state |-> file.state, complete |-> FALSE,
     at |-> IF file.complete /\ file.at = Absent THEN Unknown ELSE file.at]

\* A controller enters when the lock is free, its approval names the plan and its `resume`
\* agrees with the file; any other call is refused and changes nothing.
Begin(p) ==
    /\ pc[p] = "idle" /\ lock = None
    /\ lock' = p
    /\ mem' = [mem EXCEPT ![p] = Opened]
    /\ file' = Opened
    /\ pc' = [pc EXCEPT ![p] = "check"]
    /\ UNCHANGED <<phase, left, job, ran, seen>>

\* Mutant: an action recorded running is run again.
CheckUncertainOnly(p) ==
    /\ pc[p] = "check"
    /\ IF \E h \in Rows[phase[p]] : mem[p].state[At(p, h)] = "uncertain"
         THEN Leave(p) /\ UNCHANGED <<file, ran>>
         ELSE /\ pc' = [pc EXCEPT ![p] = "recheck"]
              /\ left' = [left EXCEPT ![p] = Rows[phase[p]]]
              /\ UNCHANGED <<lock, file, mem, phase, job, ran, seen>>

\* No action of the phase may have an uncertain outcome, and the checks of the ones
\* to run pass.
Check(p) ==
    /\ pc[p] = "check"
    /\ IF \E h \in Rows[phase[p]] : mem[p].state[At(p, h)] \in {"running", "uncertain"}
         THEN Leave(p) /\ UNCHANGED <<file, ran>>
         ELSE /\ pc' = [pc EXCEPT ![p] = "recheck"]
              /\ left' = [left EXCEPT ![p] = Rows[phase[p]]]
              /\ UNCHANGED <<lock, file, mem, phase, job, ran, seen>>

\* A host does not pass the checks of an action still to run.
CheckFails(p) ==
    /\ pc[p] = "check"
    /\ \E h \in Rows[phase[p]] : mem[p].state[At(p, h)] \in {"none", "failed"}
    /\ file' = mem[p]
    /\ Leave(p)
    /\ UNCHANGED ran

\* An action that succeeded is verified again and the receipt saved, ...
Recheck(p) ==
    /\ pc[p] = "recheck"
    /\ \E h \in left[p] :
          /\ IsFirst(h, left[p]) /\ mem[p].state[At(p, h)] = "succeeded"
          /\ left' = [left EXCEPT ![p] = @ \ {h}]
          /\ seen' = [seen EXCEPT ![p] = @ \cup {At(p, h)}]
    /\ file' = mem[p]
    /\ UNCHANGED <<lock, mem, pc, phase, job, ran>>

\* ... one that no longer verifies ends the invocation, ...
Drift(p) ==
    /\ pc[p] = "recheck"
    /\ \E h \in left[p] : IsFirst(h, left[p]) /\ mem[p].state[At(p, h)] = "succeeded"
    /\ file' = mem[p]
    /\ Leave(p)
    /\ UNCHANGED ran

\* ... and any other is noted as running, in memory.
Note(p) ==
    /\ pc[p] = "recheck"
    /\ \E h \in left[p] :
          /\ IsFirst(h, left[p]) /\ mem[p].state[At(p, h)] # "succeeded"
          /\ left' = [left EXCEPT ![p] = @ \ {h}]
          /\ mem' = [mem EXCEPT ![p] = Set(@, At(p, h), "running")]
          /\ job' = [job EXCEPT ![p][h] = "queued"]
    /\ UNCHANGED <<lock, file, pc, phase, ran, seen>>

\* The receipt names every action about to run before the first one does.
Launch(p) ==
    /\ pc[p] = "recheck" /\ left[p] = {}
    /\ file' = mem[p]
    /\ pc' = [pc EXCEPT ![p] = "run"]
    /\ UNCHANGED <<lock, mem, phase, left, job, ran, seen>>

Rowed(p, J) == {h \in Hosts : job[p][h] \in J}

\* A thread of the pool takes the next queued row and runs its command.
Start(p) ==
    /\ pc[p] = "run"
    /\ Cardinality(Rowed(p, {"flying"})) < Workers
    /\ \E h \in Hosts :
          /\ IsFirst(h, Rowed(p, {"queued"}))
          /\ job' = [job EXCEPT ![p][h] = "flying"]
          /\ ran' = IF phase[p] \in Changing /\ ran[At(p, h)] < 2
                      THEN [ran EXCEPT ![At(p, h)] = @ + 1] ELSE ran
    /\ UNCHANGED <<lock, file, mem, pc, phase, left, seen>>

\* What a command ends with: a read-only one may fail, a changing one that failed, or whose
\* verification fails, is uncertain, as is one that timed out; the runner itself may raise.
Outcomes(k) == {"succeeded", "uncertain", "raised"} \cup IF k \in Changing THEN {} ELSE {"failed"}

Land(p) ==
    /\ pc[p] \in {"run", "unwind"}
    /\ \E h \in Rowed(p, {"flying"}), o \in Outcomes(phase[p]) : job' = [job EXCEPT ![p][h] = o]
    /\ UNCHANGED <<lock, file, mem, pc, phase, left, ran, seen>>

\* pool.map yields the results in the order of the rows; each is saved.
Collect(p) ==
    /\ pc[p] = "run"
    /\ \E h \in Hosts :
          /\ IsFirst(h, Rowed(p, Jobs \ {"none"})) /\ job[p][h] \in {"succeeded", "failed", "uncertain"}
          /\ mem' = [mem EXCEPT ![p] = Set(@, At(p, h), job[p][h])]
          /\ file' = mem'[p]
          /\ job' = [job EXCEPT ![p][h] = "none"]
          /\ seen' = IF job[p][h] = "succeeded" THEN [seen EXCEPT ![p] = @ \cup {At(p, h)}] ELSE seen
    /\ UNCHANGED <<lock, pc, phase, left, ran>>

\* The runner raised: rows not started are cancelled and the pool waits for the others;
\* their results are not recorded.
Raised(p) ==
    /\ pc[p] = "run"
    /\ \E h \in Hosts : IsFirst(h, Rowed(p, Jobs \ {"none"})) /\ job[p][h] = "raised"
    /\ pc' = [pc EXCEPT ![p] = "unwind"]
    /\ job' = [job EXCEPT ![p] = [h \in Hosts |-> IF @[h] = "flying" THEN @[h] ELSE "none"]]
    /\ UNCHANGED <<lock, file, mem, phase, left, ran, seen>>

\* Mutant: the results of the other rows are awaited too.
UnwoundCollected(p) ==
    /\ pc[p] = "unwind" /\ Rowed(p, Jobs \ {"none"}) = {}
    /\ Leave(p)
    /\ UNCHANGED <<file, ran>>

Unwound(p) ==
    /\ pc[p] = "unwind" /\ Rowed(p, {"flying"}) = {}
    /\ Leave(p)
    /\ UNCHANGED <<file, ran>>

Recorded(p) == pc[p] = "run" /\ Rowed(p, Jobs \ {"none"}) = {}
Passed(p) == \A h \in Rows[phase[p]] : mem[p].state[At(p, h)] = "succeeded"

\* A phase with an action that did not succeed ends the invocation.
PhaseFails(p) ==
    /\ Recorded(p) /\ ~Passed(p)
    /\ Leave(p)
    /\ UNCHANGED <<file, ran>>

\* Mutant: the next phase starts whatever this one's results are.
NextPhaseAnyway(p) ==
    /\ Recorded(p) /\ phase[p] < NumPhases
    /\ phase' = [phase EXCEPT ![p] = @ + 1]
    /\ pc' = [pc EXCEPT ![p] = "check"]
    /\ UNCHANGED <<lock, file, mem, left, job, ran, seen>>

\* Mutant: the loop over the phases goes one too far.
NextPhasePastEnd(p) ==
    /\ Recorded(p) /\ Passed(p)
    /\ phase' = [phase EXCEPT ![p] = @ + 1]
    /\ pc' = [pc EXCEPT ![p] = "check"]
    /\ UNCHANGED <<lock, file, mem, left, job, ran, seen>>

NextPhase(p) ==
    /\ Recorded(p) /\ Passed(p) /\ phase[p] < NumPhases
    /\ phase' = [phase EXCEPT ![p] = @ + 1]
    /\ pc' = [pc EXCEPT ![p] = "check"]
    /\ UNCHANGED <<lock, file, mem, left, job, ran, seen>>

\* Mutant: a recheck that passes is another completion.
CompleteAgain(p) ==
    /\ Recorded(p) /\ Passed(p) /\ phase[p] = NumPhases
    /\ \E now \in Times : file' = [state |-> mem[p].state, complete |-> TRUE, at |-> now]
    /\ Leave(p)
    /\ UNCHANGED ran

\* Mutant: the last phase's results are not looked at.
CompleteUnpassed(p) ==
    /\ Recorded(p) /\ phase[p] = NumPhases
    /\ \E now \in Times : file' = [state |-> mem[p].state, complete |-> TRUE,
                                  at |-> IF mem[p].at = Absent THEN now ELSE mem[p].at]
    /\ Leave(p)
    /\ UNCHANGED ran

\* Every phase passed; the first completion records its time.
Complete(p) ==
    /\ Recorded(p) /\ Passed(p) /\ phase[p] = NumPhases
    /\ \E now \in Times : file' = [state |-> mem[p].state, complete |-> TRUE,
                                  at |-> IF mem[p].at = Absent THEN now ELSE mem[p].at]
    /\ Leave(p)
    /\ UNCHANGED ran

\* The controller is killed; commands it began go on by themselves on their hosts.
Kill(p) ==
    /\ pc[p] # "idle"
    /\ Leave(p)
    /\ UNCHANGED <<file, ran>>

Step(p) ==
    \/ Check(p) \/ CheckFails(p) \/ Recheck(p) \/ Drift(p) \/ Note(p) \/ Launch(p) \/ Start(p) \/ Land(p)
    \/ Collect(p) \/ Raised(p) \/ Unwound(p) \/ PhaseFails(p) \/ NextPhase(p) \/ Complete(p)

Next == \E p \in Procs : Begin(p) \/ Step(p) \/ Kill(p)

Spec == Init /\ [][Next]_vars

\* Every command has a timeout, so an invocation goes on until it is over.
FairSpec == Spec /\ \A p \in Procs : WF_vars(Step(p))

-----------------------------------------------------------------------------
(***************************************************************************)
(* "never retry an uncertain mutation automatically" (_execute_plan): the  *)
(* command of a changing action begins at most once for a receipt, however *)
(* often the plan is resumed after failures, kills and rechecks, and       *)
(* whichever controllers try.                                              *)
(***************************************************************************)
MutationsOnce == \A a \in Actions : a[1] \in Changing => ran[a] <= 1

(***************************************************************************)
(* Phases are barriers, also for a resumed plan: when an action begins,    *)
(* the same invocation has seen every action of the earlier phases hold,   *)
(* and the receipt on disk says that this one is running.                  *)
(***************************************************************************)
PhaseBarrier ==
    [][\A p \in Procs, h \in Hosts :
          job[p][h] = "queued" /\ job'[p][h] = "flying" =>
             /\ \A a \in Actions : a[1] < phase[p] => a \in seen[p]
             /\ file.state[At(p, h)] = "running"]_vars

(***************************************************************************)
(* A receipt is complete only after an invocation that saw every action of *)
(* the plan hold, and a complete receipt records every action succeeded    *)
(* ("A resumed receipt describes an in-progress recheck until every phase  *)
(* passes").                                                               *)
(***************************************************************************)
CompleteMeansSeen ==
    /\ file.complete => \A a \in Actions : file.state[a] = "succeeded"
    /\ \A p \in Procs : Recorded(p) /\ Passed(p) /\ phase[p] = NumPhases => seen[p] = Actions

(***************************************************************************)
(* "Verification of a completed operation is not another lifecycle event": *)
(* once a receipt has completed, its completed_at never changes, through   *)
(* failed rechecks and later completions; a legacy completion never gets a *)
(* time.                                                                   *)
(***************************************************************************)
CompletedAtKept ==
    [][/\ file.at # Absent => file'.at = file.at
       /\ file.complete /\ file.at = Absent => file'.at \in {Absent, Unknown}]_vars

(***************************************************************************)
(* Every invocation ends, whatever fails, times out or raises in it.       *)
(***************************************************************************)
InvocationsEnd == \A p \in Procs : pc[p] # "idle" ~> pc[p] = "idle"
==============================================================================
