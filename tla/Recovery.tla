------------------------------ MODULE Recovery ------------------------------
(***************************************************************************)
(* Automatic recovery (runtime/host/recovery.py), the operator's commands  *)
(* that share its record (up, down, restart, recover on|off) and operator  *)
(* holds (hold.py), on top of installer.apply (Deployments) and the slice  *)
(* locks (Admission).                                                      *)
(*                                                                         *)
(* A check reads the record and state.json without a lock, observes the    *)
(* model over SSH, and takes the slice locks only to act; it writes its    *)
(* result after it has released them.  Every write to recovery.json merges *)
(* fields under recovery.lock and is one step here; what a process read    *)
(* before is in `loc`.  Time is a step that ends a backoff, a silence or   *)
(* the window of a restart.                                                *)
(***************************************************************************)
EXTENDS Deployments

CONSTANTS
    Checkers,      \* the processes that run `recover --auto`; the others are operators
    Commands,      \* what the operators do
    MaxCommands,   \* bound: operator commands of a run
    FailureLimit,  \* FAILURE_LIMIT
    RestartLimit,  \* RESTART_LIMIT
    Serving        \* the deployment that serves at the start

ASSUME RecoveryAssumption ==
    /\ Checkers \subseteq Procs
    /\ FailureLimit \in Nat \ {0} /\ RestartLimit \in Nat \ {0}
    /\ Serving \in Dirs /\ None \notin Procs
    /\ MaxCommands \in Nat

\* `active` is the active deployment of one slot: the deployments share its Sparks.
ASSUME OneSlotAssumption == \A d, e \in Dirs : Overlap(DirSlot[d], DirSlot[e])

\* sparkring-recover.service is a oneshot: its timer starts no check while one runs.
ASSUME OneCheckAssumption == \A c, d \in Checkers : c = d

VARIABLES
    gen,       \* [Dirs -> state.json "generation"]
    sick,      \* [Dirs -> what is wrong while every container runs]
    net,       \* what the Sparks' status reports allow
    active,    \* the deployment active.json names
    rec,       \* [Dirs -> record of recovery.json]
    hold,      \* the operator whose hold stands, or None
    pc, loc,   \* [Procs -> where the process is, and what it has read]
    budget,    \* operator commands left
    owner,     \* history: [Dirs -> who began the last operation]
    tries,     \* history: [Dirs -> attempts begun since the failures were last reset]
    restarted, \* history: [Dirs -> successful restarts since the history was last reset]
    unrecorded,\* history: [Dirs -> those of them whose check died before it recorded them]
    crossed    \* history: [Dirs -> whether a check that carried something of an attempt was
               \* under way when an operator's command last forgot the attempt]

rvars == <<gen, sick, net, active, rec, hold, pc, loc, budget, owner, tries, restarted, unrecorded, crossed>>
vars == <<granted, dvars, rvars>>

Operators == Procs \ Checkers
NoAttempt == -1
NoKey == <<>>
Keys == {NoKey} \cup (Nat \X {"none", "prepare", "up", "down"} \X BOOLEAN)
Key(d) == <<gen[d], op[d], done[d]>>

\* record_of: a deployment without a record.
Fresh == [enabled |-> TRUE, failures |-> 0, stopped |-> FALSE, pending |-> 0, backoff |-> FALSE,
          attempt |-> NoAttempt, left |-> NoKey, restarts |-> 0]

\* `pending` counts the runs that found the model down; 3: API_SILENCE has passed too.
Records == [enabled : BOOLEAN, failures : Nat, stopped : BOOLEAN, pending : 0..3, backoff : BOOLEAN,
            attempt : {NoAttempt} \cup Nat, left : Keys, restarts : Nat]

\* What a process has read; `over` is --override-hold and, for a check, history: a hold
\* has stood ever since it took the locks.
Blank == [dir |-> None, rec |-> Fresh, key |-> NoKey, seen |-> "", cmd |-> "", over |-> FALSE]

Findings == {"unreachable", "report", "stopped", "partial", "dead", "silent", "serving"}

Locals == [dir : Dirs \cup {None}, rec : Records, key : Keys, seen : Findings \cup {""},
           cmd : Commands \cup {""}, over : BOOLEAN]

CheckLabels == {"idle", "loaded", "free", "interrupted", "saved", "observed", "lock", "locked",
                "rechecked", "acting", "ended"}
OpLabels == {"idle", "holding", "asked", "oplocked", "operating", "started"}

TypeOK ==
    /\ AdmissionTypeOK /\ DeploymentsTypeOK
    /\ gen \in [Dirs -> Nat]
    /\ sick \in [Dirs -> {"no", "dead", "silent", "mesh"}]
    /\ net \in {"ok", "unreachable", "manual", "hairpin"}
    /\ active \in Dirs
    /\ rec \in [Dirs -> Records]
    /\ hold \in Operators \cup {None}
    /\ pc \in [Procs -> CheckLabels \cup OpLabels] /\ loc \in [Procs -> Locals]
    /\ \A p \in Procs : pc[p] \in (IF p \in Checkers THEN CheckLabels ELSE OpLabels)
    /\ budget \in 0..MaxCommands
    /\ owner \in [Dirs -> Procs \cup {None}]
    /\ tries \in [Dirs -> Nat] /\ restarted \in [Dirs -> Nat] /\ unrecorded \in [Dirs -> Nat]
    /\ crossed \in [Dirs -> BOOLEAN]

Init ==
    /\ AdmissionInit /\ DeploymentsInit({Serving})
    /\ gen = [d \in Dirs |-> IF d = Serving THEN 1 ELSE 0]
    /\ sick = [d \in Dirs |-> "no"] /\ net = "ok"
    /\ active = Serving
    /\ rec = [d \in Dirs |-> Fresh]
    /\ hold = None
    /\ pc = [p \in Procs |-> "idle"] /\ loc = [p \in Procs |-> Blank]
    /\ budget = MaxCommands
    /\ owner = [d \in Dirs |-> None]
    /\ tries = [d \in Dirs |-> 0] /\ restarted = [d \in Dirs |-> 0] /\ unrecorded = [d \in Dirs |-> 0]
    /\ crossed = [d \in Dirs |-> FALSE]

-----------------------------------------------------------------------------
(* What the code computes.                                                 *)

\* assess, in its order of precedence.  "report" stands for the findings without an
\* action: unknown and mesh-cleanup come before the containers, mesh-failed after.
Finding(d) ==
    CASE net = "unreachable"              -> "unreachable"
      [] net = "manual"                   -> "report"
      [] net \in {"ok", "hairpin"} /\ runs[d] = {} -> "stopped"
      [] net \in {"ok", "hairpin"} /\ runs[d] # {} /\ ~AllRun(d) -> "partial"
      [] OTHER -> [no |-> "serving", dead |-> "dead", silent |-> "silent", mesh |-> "report"][sick[d]]

HasAction(finding) == finding \in {"stopped", "partial", "dead", "silent"}

\* may_act
MayAct(key, r) == (key[2] = "up" /\ key[3]) \/ (r.left # NoKey /\ r.left = key)

\* _confirmed; `n` is the pending count with this run.
Confirmed(finding, n) == IF finding = "silent" THEN n = 3 ELSE n >= 2

\* Mutant: only the backoff is recorded.
FailedUncounted(now, r) ==
    [now EXCEPT !.failures = r.failures, !.stopped = r.failures >= FailureLimit, !.backoff = TRUE,
                !.attempt = NoAttempt]

\* What one more failed attempt of a check that read the record as `r` makes of it now.
Failed(now, r) ==
    [now EXCEPT !.failures = r.failures + 1, !.stopped = r.failures + 1 >= FailureLimit, !.backoff = TRUE,
                !.attempt = NoAttempt]

\* Mutant: the restarts are not counted against the limit.
ExhaustedNever(r) == FALSE

\* RESTART_LIMIT restarts within RESTART_WINDOW.
Exhausted(r) == r.restarts >= RestartLimit

\* A state within the generations of an interrupted attempt counts as the attempt's own.
Ours(key, first) == key[2] \in {"up", "down"} /\ key[1] \in first..(first + 2)

\* Mutant: an operator's hold is not looked at.
PermittedDespiteHold(d) == rec[d].enabled /\ ~rec[d].stopped

\* Mutant: the record read before the lock is trusted.
PermittedUnread(d) == hold = None

\* Under the lock: no hold stands and the record is still on.
Permitted(d) == hold = None /\ rec[d].enabled /\ ~rec[d].stopped

\* Mutant: state.json is not compared with what the check read.
SameStateUnread(d, key) == active = d

\* Mutant: state.json is compared with the state recovery left, not with what was read.
SameStateLeft(d, key) == active = d /\ Key(d) = rec[d].left

\* Under the lock: the deployment is active and state.json is what the check read.
SameState(d, key) == active = d /\ Key(d) = key

\* update: the record of d, read again under recovery.lock, with some fields replaced.
Update(d, new) == rec' = [rec EXCEPT ![d] = new]

Goto(p, label) == pc' = [pc EXCEPT ![p] = label]

End(p) == /\ Goto(p, "idle")
          /\ loc' = [loc EXCEPT ![p] = Blank]

Busy(d) == \E q \in Procs : granted[q] # NoGrant /\ Overlap(granted[q], DirSlot[d])

-----------------------------------------------------------------------------
(* sparkring recover --auto: check_one.                                    *)

Env == <<sick, net, active, hold, budget>>
Counts == <<restarted, unrecorded>>
History == <<owner, tries, Counts, crossed>>

\* The record is read.
Check(c) ==
    /\ pc[c] = "idle" /\ rec[active].enabled /\ ~rec[active].stopped
    /\ loc' = [loc EXCEPT ![c].dir = active, ![c].rec = rec[active]]
    /\ Goto(c, "loaded")
    /\ UNCHANGED <<granted, dvars, gen, Env, rec, History>>

\* A check of a record that is off or stopped changes nothing.
CheckOff(c) ==
    /\ pc[c] = "idle" /\ (~rec[active].enabled \/ rec[active].stopped)
    /\ UNCHANGED vars

CheckBusy(c) ==
    /\ pc[c] = "loaded"
    /\ IF Busy(loc[c].dir) THEN End(c) ELSE Goto(c, "free") /\ UNCHANGED loc
    /\ UNCHANGED <<granted, dvars, gen, Env, rec, History>>

CheckState(c) ==
    /\ pc[c] = "free"
    /\ loc' = [loc EXCEPT ![c].key = Key(loc[c].dir)]
    /\ Goto(c, IF loc[c].rec.attempt # NoAttempt THEN "interrupted" ELSE "saved")
    /\ UNCHANGED <<granted, dvars, gen, Env, rec, History>>

\* _interrupted: an attempt stands in the record that was read although no operation
\* runs.
CheckInterrupted(c) ==
    /\ pc[c] = "interrupted"
    /\ LET d == loc[c].dir
           key == loc[c].key
           ours == Ours(key, loc[c].rec.attempt)
           new == [Failed(rec[d], loc[c].rec) EXCEPT !.left = IF ours THEN key ELSE NoKey]
       IN  /\ Update(d, new)
           /\ IF new.stopped THEN End(c)
              ELSE loc' = [loc EXCEPT ![c].rec = new] /\ Goto(c, "saved")
    /\ UNCHANGED <<granted, dvars, gen, Env, History>>

\* may_act refuses, or the deployment is observed.
CheckObserve(c) ==
    /\ pc[c] = "saved"
    /\ IF MayAct(loc[c].key, loc[c].rec)
         THEN /\ loc' = [loc EXCEPT ![c].seen = Finding(loc[c].dir)]
              /\ Goto(c, "observed")
              /\ UNCHANGED rec
         ELSE /\ IF loc[c].rec.pending = 0 THEN UNCHANGED rec ELSE Update(loc[c].dir, [rec[loc[c].dir] EXCEPT !.pending = 0])
              /\ End(c)
    /\ UNCHANGED <<granted, dvars, gen, Env, History>>

\* What the observation leads to: wait, all is well, report, back off, confirm later,
\* stop after too many restarts, or act.
CheckDecide(c) ==
    /\ pc[c] = "observed"
    /\ LET d == loc[c].dir
           r == loc[c].rec
           seen == loc[c].seen
           n == IF r.pending >= 2 THEN r.pending ELSE r.pending + 1
       IN  \/ /\ seen \in {"unreachable", "report"}
              /\ Update(d, [rec[d] EXCEPT !.pending = 0]) /\ End(c)
              /\ UNCHANGED tries
           \/ /\ seen = "serving"
              /\ Update(d, [rec[d] EXCEPT !.pending = 0, !.failures = 0, !.backoff = FALSE, !.left = NoKey]) /\ End(c)
              /\ tries' = [tries EXCEPT ![d] = 0]
           \/ /\ HasAction(seen) /\ (r.backoff \/ ~Confirmed(seen, n))
              /\ Update(d, [rec[d] EXCEPT !.pending = n]) /\ End(c)
              /\ UNCHANGED tries
           \/ /\ HasAction(seen) /\ ~r.backoff /\ Confirmed(seen, n)
              /\ IF Exhausted(r)
                   THEN Update(d, [rec[d] EXCEPT !.pending = 0, !.stopped = TRUE]) /\ End(c)
                   ELSE Update(d, [rec[d] EXCEPT !.pending = n]) /\ Goto(c, "lock") /\ UNCHANGED loc
              /\ UNCHANGED tries
    /\ UNCHANGED <<granted, dvars, gen, Env, owner, Counts, crossed>>

-----------------------------------------------------------------------------
(* attempt                                                                 *)

AttemptLock(c) ==
    /\ pc[c] = "lock"
    /\ IF Busy(loc[c].dir) THEN End(c) /\ UNCHANGED granted
       ELSE /\ Grant(c, DirSlot[loc[c].dir]) /\ Goto(c, "locked")
            /\ loc' = [loc EXCEPT ![c].over = hold # None]
    /\ UNCHANGED <<dvars, gen, Env, rec, History>>

\* Under the lock: a standing hold, a record turned off or stopped, another active
\* deployment or another saved state end the run.
AttemptRecheck(c) ==
    /\ pc[c] = "locked"
    /\ LET d == loc[c].dir
       IN  IF ~Permitted(d)
             THEN End(c) /\ Release(c) /\ UNCHANGED rec
           ELSE IF ~SameState(d, loc[c].key)
             THEN Update(d, [rec[d] EXCEPT !.pending = 0]) /\ End(c) /\ Release(c)
           ELSE /\ loc' = [loc EXCEPT ![c].rec = rec[d]]
                /\ Goto(c, "rechecked")
                /\ UNCHANGED <<granted, rec>>
    /\ UNCHANGED <<dvars, gen, Env, History>>

\* Observed again; the attempt is recorded before the first call of apply.
AttemptBegin(c) ==
    /\ pc[c] = "rechecked"
    /\ LET d == loc[c].dir
           key == loc[c].key
           seen == Finding(d)
           startOnly == seen = "stopped" /\ key[2] = "up" /\ key[3]
       IN  IF ~HasAction(seen) \/ net = "hairpin"
             THEN /\ Update(d, [rec[d] EXCEPT !.pending = 0]) /\ End(c) /\ Release(c)
                  /\ UNCHANGED <<work, err, tries>>
             ELSE /\ Update(d, [rec[d] EXCEPT !.attempt = key[1], !.pending = 0])
                  /\ work' = [work EXCEPT ![c] = IF startOnly THEN <<<<d, "up">>>>
                                                              ELSE <<<<d, "down">>, <<d, "up">>>>]
                  /\ err' = [err EXCEPT ![c] = FALSE]
                  /\ tries' = [tries EXCEPT ![d] = @ + 1]
                  /\ Goto(c, "acting")
                  /\ UNCHANGED <<granted, loc>>
    /\ UNCHANGED <<op, done, receipt, runs, starting, stopping, strays, stage, faults, gen, Env, owner, Counts, crossed>>

\* The calls returned or one raised: state.json is read, then the locks are released.
AttemptEnd(c) ==
    /\ pc[c] = "acting" /\ work[c] = <<>>
    /\ LET d == loc[c].dir
       IN  loc' = [loc EXCEPT ![c].key = Key(d),
                              ![c].seen = IF ~err[c] /\ op[d] = "up" /\ done[d] THEN "serving" ELSE ""]
    /\ Release(c)
    /\ Goto(c, "ended")
    /\ UNCHANGED <<dvars, gen, Env, rec, History>>

\* The result, computed from the record read under the lock, is saved without it.
AttemptRecord(c) ==
    /\ pc[c] = "ended"
    /\ LET d == loc[c].dir
           r == loc[c].rec
       IN  IF loc[c].seen = "serving"
             THEN /\ Update(d, [rec[d] EXCEPT !.attempt = NoAttempt, !.failures = 0, !.backoff = FALSE,
                                            !.left = NoKey, !.restarts = r.restarts + 1])
                  /\ tries' = [tries EXCEPT ![d] = 0]
             ELSE /\ Update(d, [Failed(rec[d], r) EXCEPT !.left = loc[c].key])
                  /\ UNCHANGED tries
    /\ End(c)
    /\ UNCHANGED <<granted, dvars, gen, Env, owner, Counts, crossed>>

-----------------------------------------------------------------------------
(* The operator's commands.                                                *)

\* A standing hold of another operator refuses a command without --override-hold.
Passes(p, over) == hold \in {None, p} \/ over

OpEnv == <<sick, net>>

\* A command is accepted: the active deployment is read and the hold checked, before
\* any lock.  A profile names another deployment than the active one.
Command(p) ==
    /\ pc[p] = "idle" /\ budget > 0
    /\ budget' = budget - 1
    /\ \E cmd \in Commands, d \in Dirs, over \in BOOLEAN :
          /\ Passes(p, over) /\ (cmd \notin {"up", "down"} => d = active)
          /\ loc' = [loc EXCEPT ![p] = [Blank EXCEPT !.dir = d, !.cmd = cmd, !.over = over]]
          /\ Goto(p, IF cmd \in {"hold", "release"} THEN "holding" ELSE "asked")
    /\ UNCHANGED <<granted, dvars, gen, OpEnv, active, hold, rec, History>>

\* hold.take and hold.release write after their check, without a lock.
HoldWrite(p) ==
    /\ pc[p] = "holding"
    /\ hold' = IF loc[p].cmd = "hold" THEN p ELSE None
    /\ Goto(p, "idle")
    /\ loc' = [q \in Procs |-> IF q = p THEN Blank
                              ELSE IF q \in Checkers THEN [loc[q] EXCEPT !.over = @ /\ hold' # None] ELSE loc[q]]
    /\ UNCHANGED <<granted, dvars, gen, OpEnv, active, budget, rec, History>>

\* The slice locks, and the conditions read under them: a start needs the active
\* deployment to be this one or completely stopped.
OpLock(p) ==
    /\ pc[p] = "asked"
    /\ LET d == loc[p].dir
           refused == loc[p].cmd = "up" /\ active # d /\ ~(op[active] = "down" /\ done[active])
       IN  IF Busy(d) \/ refused THEN End(p) /\ UNCHANGED granted
           ELSE Grant(p, DirSlot[d]) /\ Goto(p, "oplocked") /\ UNCHANGED loc
    /\ UNCHANGED <<dvars, gen, OpEnv, active, hold, budget, rec, History>>

\* set_enabled, under the locks.
OpSet(p) ==
    /\ pc[p] = "oplocked" /\ loc[p].cmd \in {"on", "off"}
    /\ LET d == active
       IN  IF loc[p].cmd = "off" THEN Update(d, [rec[d] EXCEPT !.enabled = FALSE]) /\ UNCHANGED <<tries, Counts>>
           ELSE /\ Update(d, [rec[d] EXCEPT !.enabled = TRUE, !.failures = 0, !.stopped = FALSE,
                                          !.restarts = 0, !.backoff = FALSE, !.pending = 0])
                /\ tries' = [tries EXCEPT ![d] = 0]
                /\ restarted' = [restarted EXCEPT ![d] = 0]
                /\ unrecorded' = [unrecorded EXCEPT ![d] = 0]
    /\ Release(p) /\ End(p)
    /\ UNCHANGED <<dvars, gen, OpEnv, active, hold, budget, owner, crossed>>

\* The check has read or made an attempt, or has read the state that one left.
Carries(c, d) ==
    loc[c].dir = d /\ (pc[c] = "ended" \/ loc[c].rec.attempt # NoAttempt \/ loc[c].rec.left # NoKey)

\* forget_attempt of this and of the active deployment, then the calls of apply.  A
\* forgotten attempt counts no more.
OpForget(p) ==
    /\ pc[p] = "oplocked" /\ loc[p].cmd \in {"up", "down", "restart"}
    /\ LET d == loc[p].dir
       IN  /\ rec' = [e \in Dirs |-> IF e \in {d, active}
                        THEN [rec[e] EXCEPT !.attempt = NoAttempt, !.left = NoKey, !.pending = 0] ELSE rec[e]]
           /\ work' = [work EXCEPT ![p] = IF loc[p].cmd = "restart" THEN <<<<d, "down">>, <<d, "up">>>>
                                                                    ELSE <<<<d, loc[p].cmd>>>>]
           /\ tries' = [e \in Dirs |-> IF e \in {d, active} /\ rec[e].attempt # NoAttempt /\ tries[e] > 0
                                        THEN tries[e] - 1 ELSE tries[e]]
           /\ crossed' = [e \in Dirs |-> IF e \in {d, active} THEN \E c \in Checkers : Carries(c, e) ELSE crossed[e]]
    /\ err' = [err EXCEPT ![p] = FALSE]
    /\ Goto(p, "operating")
    /\ UNCHANGED <<granted, op, done, receipt, runs, starting, stopping, strays, stage, faults, gen, OpEnv, active, hold,
                   budget, loc, owner, Counts>>

\* A completed start is recorded active; a failed call ends the command.
OpRecord(p) ==
    /\ pc[p] = "operating" /\ work[p] = <<>>
    /\ IF err[p] \/ loc[p].cmd = "down"
         THEN Release(p) /\ End(p) /\ UNCHANGED active
         ELSE active' = loc[p].dir /\ Goto(p, "started") /\ UNCHANGED <<granted, loc>>
    /\ UNCHANGED <<dvars, gen, OpEnv, hold, budget, rec, History>>

\* started: the record is reset and the command ends.
OpStarted(p) ==
    /\ pc[p] = "started"
    /\ LET d == loc[p].dir
       IN  /\ rec' = [rec EXCEPT ![d] = [Fresh EXCEPT !.enabled = rec[d].enabled]]
           /\ tries' = [tries EXCEPT ![d] = 0]
           /\ restarted' = [restarted EXCEPT ![d] = 0]
           /\ unrecorded' = [unrecorded EXCEPT ![d] = 0]
    /\ Release(p) /\ End(p)
    /\ UNCHANGED <<dvars, gen, OpEnv, active, hold, budget, owner, crossed>>

-----------------------------------------------------------------------------
(* installer.apply, the environment and time.                              *)

\* A new generation begins when the operation changes or is repeated from the start;
\* containers that stop take their fault with them.
Effects ==
    /\ gen' = [d \in Dirs |-> IF \E p \in Procs : stage[p] = "none" /\ stage'[p] = "begun" /\ Head(work[p])[1] = d
                                       /\ (op[d] # Head(work[p])[2] \/ Again(d, Head(work[p])[2]))
                              THEN gen[d] + 1 ELSE gen[d]]
    /\ owner' = [d \in Dirs |-> IF \E p \in Procs : stage[p] = "none" /\ stage'[p] = "begun" /\ Head(work[p])[1] = d
                                THEN CHOOSE p \in Procs : stage[p] = "none" /\ stage'[p] = "begun" ELSE owner[d]]
    /\ sick' = [d \in Dirs |-> IF runs'[d] = {} THEN "no" ELSE sick[d]]

\* The check's start is complete.
Restarted(d) ==
    \E c \in Checkers : work[c] = <<<<d, "up">>>> /\ work'[c] = <<>> /\ err'[c] = FALSE

Operate(p) ==
    /\ pc[p] \in {"acting", "operating"}
    /\ Apply(p, FALSE) /\ Effects
    /\ restarted' = [d \in Dirs |-> IF Restarted(d) THEN restarted[d] + 1 ELSE restarted[d]]
    /\ UNCHANGED <<granted, net, active, rec, hold, pc, loc, budget, tries, unrecorded, crossed>>

\* An action of apply fails.
OperateFail(p) ==
    /\ pc[p] \in {"acting", "operating"}
    /\ ApplyFail(p, FALSE) /\ Effects
    /\ UNCHANGED <<granted, net, active, rec, hold, pc, loc, budget, tries, Counts, crossed>>

\* The check has restarted the model and has not recorded it yet.
Restored(c) ==
    \/ pc[c] = "acting" /\ work[c] = <<>> /\ ~err[c]
    \/ pc[c] = "ended" /\ loc[c].seen = "serving"

\* A check dies at any point: its locks go with it, its record stays.
Killed(c) ==
    /\ pc[c] # "idle"
    /\ ApplyKilled(c) /\ Effects
    /\ granted' = [granted EXCEPT ![c] = NoGrant]
    /\ End(c)
    /\ unrecorded' = [d \in Dirs |-> IF loc[c].dir = d /\ Restored(c) /\ unrecorded[d] < restarted[d]
                               THEN unrecorded[d] + 1 ELSE unrecorded[d]]
    /\ UNCHANGED <<net, active, rec, hold, budget, tries, restarted, crossed>>

\* A Spark restarts, a model stops answering, or the network or the mesh fails.
Trouble ==
    \/ /\ \E i \in Positions : Restart(i)
       /\ Effects /\ UNCHANGED <<granted, net, active, rec, hold, pc, loc, budget, tries, Counts, crossed>>
    \/ /\ faults < MaxFaults /\ faults' = faults + 1
       /\ \/ /\ \E s \in {"dead", "silent", "mesh"} :
                   AllRun(active) /\ sick[active] = "no" /\ sick' = [sick EXCEPT ![active] = s]
             /\ UNCHANGED net
          \/ /\ net = "ok" /\ net' \in {"unreachable", "manual", "hairpin"}
             /\ UNCHANGED sick
       /\ UNCHANGED <<granted, op, done, receipt, runs, starting, stopping, strays, work, stage, err, gen, active, rec,
                      hold, pc, loc, budget, History>>

\* A remote command of a check that died, or of a call that failed, comes to its end.
Late ==
    /\ Lands /\ Effects
    /\ UNCHANGED <<granted, net, active, rec, hold, pc, loc, budget, tries, Counts, crossed>>

\* The operator repairs the network or the mesh.
Repair ==
    /\ net # "ok" \/ (\E d \in Dirs : sick[d] = "mesh")
    /\ net' = "ok"
    /\ sick' = [d \in Dirs |-> IF sick[d] = "mesh" THEN "no" ELSE sick[d]]
    /\ UNCHANGED <<granted, dvars, gen, active, rec, hold, pc, loc, budget, History>>

\* A backoff or a silence has passed, also in the records that were read: a check asks the
\* clock when it has observed the model.
Passed(r) == [r EXCEPT !.backoff = FALSE, !.pending = IF @ = 0 THEN 0 ELSE 3]

Wait(d) ==
    /\ rec[d].backoff \/ rec[d].pending \in 1..2
    /\ Update(d, Passed(rec[d]))
    /\ loc' = [p \in Procs |-> IF loc[p].dir = d THEN [loc[p] EXCEPT !.rec = Passed(@)] ELSE loc[p]]
    /\ UNCHANGED <<granted, dvars, gen, Env, pc, History>>

\* RESTART_WINDOW has passed since the oldest restart, also in the records that were
\* read (recent_restarts judges them by the clock).
Age(d) ==
    /\ rec[d].restarts > 0
    /\ Update(d, [rec[d] EXCEPT !.restarts = @ - 1])
    /\ restarted' = [restarted EXCEPT ![d] = IF @ > 0 THEN @ - 1 ELSE 0]
    /\ loc' = [p \in Procs |-> IF loc[p].dir = d /\ loc[p].rec.restarts > 0
                               THEN [loc[p] EXCEPT !.rec.restarts = @ - 1] ELSE loc[p]]
    /\ UNCHANGED <<granted, dvars, gen, Env, pc, owner, tries, unrecorded, crossed>>

CheckStep(c) ==
    \/ CheckBusy(c) \/ CheckState(c) \/ CheckInterrupted(c) \/ CheckObserve(c) \/ CheckDecide(c)
    \/ AttemptLock(c) \/ AttemptRecheck(c) \/ AttemptBegin(c) \/ Operate(c) \/ AttemptEnd(c) \/ AttemptRecord(c)

OperatorStep(p) ==
    \/ HoldWrite(p) \/ OpLock(p) \/ OpSet(p) \/ OpForget(p) \/ Operate(p) \/ OpRecord(p) \/ OpStarted(p)

\* Every step but the death of a check.
Alive ==
    \/ \E c \in Checkers : Check(c) \/ CheckOff(c) \/ CheckStep(c) \/ OperateFail(c)
    \/ \E p \in Operators : Command(p) \/ OperatorStep(p) \/ OperateFail(p)
    \/ Trouble \/ Late \/ Repair
    \/ \E d \in Dirs : Wait(d) \/ Age(d)

Next == Alive \/ \E c \in Checkers : Killed(c)

Spec == Init /\ [][Next]_vars

(***************************************************************************)
(* The timer starts a check again and again and a check runs to its end    *)
(* unless it dies; commands run to their end; time passes and an operator  *)
(* repairs what recovery only reports.                                     *)
(***************************************************************************)
Fairness ==
    /\ \A c \in Checkers : WF_vars(Check(c)) /\ WF_vars(CheckStep(c))
    /\ \A p \in Operators : WF_vars(OperatorStep(p))
    /\ WF_vars(Repair) /\ \A d \in Dirs : WF_vars(Wait(d))

FairSpec == Spec /\ Fairness

-----------------------------------------------------------------------------
(***************************************************************************)
(* "recovery is on for the active deployment and has not stopped"          *)
(* (recovery.py): no generation is begun by a check once `recover off` or  *)
(* a limit has been recorded, although the record was read before.         *)
(***************************************************************************)
OffIsRespected ==
    [][\A c \in Checkers : stage[c] = "none" /\ stage'[c] = "begun"
          => rec[loc[c].dir].enabled /\ ~rec[loc[c].dir].stopped]_vars

(***************************************************************************)
(* "a manual down is never undone" (recovery.py): a check never begins an  *)
(* operation on a deployment whose last operation is a completed down of   *)
(* an operator.  It does not hold (README, Observations).                  *)
(***************************************************************************)
ManualDownKept ==
    [][\A d \in Dirs :
          op[d] = "down" /\ done[d] /\ owner[d] \in Operators => owner'[d] \notin Checkers]_vars

(***************************************************************************)
(* The same of a down whose command met no check that carried an attempt,  *)
(* or the state one left, when it made recovery forget them: no later      *)
(* check takes what the operator did for its own, whatever fails, dies or  *)
(* is repeated.                                                            *)
(***************************************************************************)
LoneDownKept ==
    [][\A d \in Dirs :
          op[d] = "down" /\ done[d] /\ owner[d] \in Operators /\ ~crossed[d]
             => owner'[d] \notin Checkers]_vars

(***************************************************************************)
(* FAILURE_LIMIT: between two resets (a manual start, recover on, a        *)
(* success, a check that finds the model serving) recovery begins at most  *)
(* FailureLimit attempts, whatever fails and whenever a check dies.  An    *)
(* interrupted one that an operator's command makes it forget is not       *)
(* counted (README, Observations).                                         *)
(***************************************************************************)
AttemptsBounded == \A d \in Dirs : tries[d] <= FailureLimit

(***************************************************************************)
(* RESTART_LIMIT: recovery does not restart a model that keeps falling     *)
(* over more than RestartLimit times within the window, but for restarts   *)
(* whose check died before it recorded them: without that exception it     *)
(* does not hold (README, Observations).                                   *)
(***************************************************************************)
RestartsBounded == \A d \in Dirs : restarted[d] <= RestartLimit + unrecorded[d]

(***************************************************************************)
(* "``on`` also clears failures, restarts and backoff" (set_enabled), and  *)
(* a manual up does: the record never counts restarts from before the last *)
(* reset.  It does not hold (README, Observations).                        *)
(***************************************************************************)
ResetKept == \A d \in Dirs : rec[d].restarts <= restarted[d]

(***************************************************************************)
(* "replaces this operator's own hold, and another's only with override"   *)
(* (hold.take, hold.release): the hold of one operator is neither replaced *)
(* nor cleared by a command of another that did not say --override-hold.   *)
(* It does not hold (README, Observations).                                *)
(***************************************************************************)
HoldKept ==
    [][\A p \in Operators :
          hold' # hold /\ pc[p] = "holding" /\ pc'[p] = "idle" => hold \in {None, p} \/ loc[p].over]_vars

(***************************************************************************)
(* "Automatic recovery never overrides" a hold (hold.py): a check begins   *)
(* no operation under a hold that has stood since it took its locks.       *)
(***************************************************************************)
HoldRespected ==
    [][\A c \in Checkers : stage[c] = "none" /\ stage'[c] = "begun" => ~loc[c].over]_vars

(***************************************************************************)
(* "Node A restarts the model by itself" (install-reference.md): whatever  *)
(* fails or dies, again and again the active model serves or the record    *)
(* says that recovery has stopped.  It does not hold (README,              *)
(* Observations).                                                          *)
(***************************************************************************)
ServesOrStops ==
    []<>((AllRun(active) /\ sick[active] = "no") \/ rec[active].stopped)

(***************************************************************************)
(* Recovery makes progress: the model serves or recovery stops, again and  *)
(* again, unless state.json is for ever one that recovery may not touch    *)
(* (may_act); a deployment it may act on never waits for ever.             *)
(***************************************************************************)
Recovers ==
    ServesOrStops \/ <>[]~MayAct(Key(active), rec[active])
==============================================================================
