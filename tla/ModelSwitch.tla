----------------------------- MODULE ModelSwitch -----------------------------
(***************************************************************************)
(* The model switch of `sparkring install` (runtime/host/rollout.py), the  *)
(* commands that share its records, and `install --cancel`                 *)
(* (runtime/host/cancel.py), over slot records (runtime/host/placement.py) *)
(* and admission (Admission; SliceLocks implements it with files).         *)
(*                                                                         *)
(* A slot is a placement with an active.json and a transaction.json.  A    *)
(* switch prepares its candidate, stops the slot's previous deployment and *)
(* the displaced deployments of overlapping slots, starts and verifies the *)
(* candidate, and commits by writing the active pointer last.  It may be   *)
(* killed, fail or be cancelled at each step, and a later command resumes, *)
(* replaces or settles what its journal says.                              *)
(***************************************************************************)
EXTENDS Deployments, SequencesExt

CONSTANTS
    Commands,   \* which commands run: a subset of {"install", "up", "down", "restart", "cancel"}
    Serving     \* the deployments that serve at the start

VARIABLES
    active,     \* [Slots -> the deployment active.json names, or None]
    journal,    \* [Slots -> transaction.json]
    cancels,    \* the running installations named in install-cancel.json
    pc,         \* [Procs -> the next step of its command]
    loc,        \* [Procs -> its local variables]
    unheld      \* history: [Dirs -> the Sparks of runs where a start took effect although no
                \* call that was making it held the Spark]

svars == <<active, journal, cancels, pc, loc>>
vars == <<granted, dvars, svars, unheld>>

Slots == {DirSlot[d] : d \in Dirs}

ASSUME ModelSwitchAssumption ==
    /\ Serving \subseteq Dirs
    /\ \A d, e \in Serving : d # e => ~Overlap(DirSlot[d], DirSlot[e])
    /\ Commands \subseteq {"install", "up", "down", "restart", "cancel"}

\* placement.PENDING: the switch stopped before it finished.
PENDING == {"stopping-previous", "starting", "verifying", "recovering-previous", "needs-attention"}

\* placement.SETTLED.
SETTLED == {"complete", "failed", "preparation-failed", "failed-recovered", "cancelled"}

Records == [cand : Dirs \cup {None}, prev : Dirs \cup {None}, disp : SUBSET Dirs,
            state : {"none", "preparing"} \cup PENDING \cup SETTLED]

\* A record with nothing left to do: no command here reads more of it than its state.
Closed(state) == [cand |-> None, prev |-> None, disp |-> {}, state |-> state]

NoLocals == [dir |-> None, prev |-> None, disp |-> {}, todo |-> {}, resume |-> FALSE,
             stopped |-> FALSE, switched |-> FALSE, undo |-> FALSE, sel |-> {}, slots |-> {}]

Steps == {"idle", "acquire", "select", "superseding", "preparing", "prepared", "stopping",
          "displacing", "started", "verified", "clearing", "cancelling", "cancel_record",
          "recovering", "recover_record", "check_up", "check_down", "check_restart", "up", "down",
          "clear_up", "waiting", "scan", "settle", "settling", "orphan"}

TypeOK ==
    /\ AdmissionTypeOK
    /\ DeploymentsTypeOK
    /\ active \in [Slots -> Dirs \cup {None}]
    /\ \A s \in Slots : journal[s] \in Records
    /\ cancels \subseteq Procs
    /\ unheld \in [Dirs -> SUBSET Positions]
    /\ pc \in [Procs -> Steps]
    /\ \A p \in Procs :
          /\ loc[p].dir \in Dirs \cup {None} /\ loc[p].prev \in Dirs \cup {None}
          /\ loc[p].todo \subseteq loc[p].disp /\ loc[p].disp \subseteq Dirs
          /\ loc[p].sel \in Placements /\ loc[p].slots \subseteq Slots

\* The deployments `up` serve and their slots record them; no switch has run.
SwitchInit(up) ==
    /\ AdmissionInit
    /\ DeploymentsInit(up)
    /\ active = [s \in Slots |-> IF \E d \in up : DirSlot[d] = s
                                   THEN CHOOSE d \in up : DirSlot[d] = s ELSE None]
    /\ journal = [s \in Slots |-> Closed("none")]
    /\ cancels = {}
    /\ pc = [p \in Procs |-> "idle"]
    /\ loc = [p \in Procs |-> NoLocals]
    /\ unheld = [d \in Dirs |-> {}]

Init == SwitchInit(Serving)

-----------------------------------------------------------------------------
(* Records. *)

\* placement.conflicting: the other slots that share a Spark with s.
Conflicting(s) == {t \in Slots \ {s} : Overlap(s, t)}

Pending(s) == journal[s].state \in PENDING

\* placement.displaced: the deployments of conflicting slots that may run.
Displaced(s) == {active[t] : t \in {u \in Conflicting(s) : active[u] # None /\ ~Stopped(active[u])}}

\* slices.affected: the Sparks of every overlapping slot whose model may run or whose
\* switch did not complete.
Affected(s) ==
    LET live == {t \in Slots : /\ Overlap(s, t)
                               /\ \/ active[t] # None /\ ~Stopped(active[t])
                                  \/ journal[t].state \notin {"none", "complete", "cancelled"}}
    IN  IF s = Ring \/ Ring \in live THEN Ring ELSE s \cup UNION live

\* install_workflow.check_workloads: each of the candidate's Sparks runs nothing, or
\* one deployment of those the switch knows of.
WorkloadsExpected(d, known) ==
    \A i \in SparksOf(d) :
        LET on == {e \in Dirs : i \in runs[e]} IN on = {} \/ \E e \in known : on = {e}

\* The process holds a Spark.
Holds(p, i) == granted[p] # NoGrant /\ (granted[p] = Ring \/ i \in granted[p])

\* Another command holds one of these Sparks.
HeldByOther(p, s) == \E q \in Procs \ {p} : granted[q] # NoGrant /\ Overlap(granted[q], s)

Slot(p) == DirSlot[loc[p].dir]
Installing(p) == pc[p] \in {"select", "superseding", "preparing", "prepared", "stopping", "displacing",
                            "started", "verified", "clearing", "cancelling", "cancel_record",
                            "recovering", "recover_record"}
\* cancel.installations: "install", and "install --cancel" while it settles.
Stoppable(p) == Installing(p) \/ pc[p] = "settling"
LifecycleRuns(p) == pc[p] \in {"check_up", "check_down", "check_restart", "up", "down", "clear_up"}
Idle(p) == work[p] = <<>>
Tolerant(p) == pc[p] \in {"superseding", "settling"}

Go(p, step) == pc' = [pc EXCEPT ![p] = step]

\* save(state): the switch's record goes to transaction.json.
Save(p, state) ==
    journal' = [journal EXCEPT ![Slot(p)] =
                   IF state \in SETTLED \cup {"preparing"} THEN Closed(state)
                   ELSE [cand |-> loc[p].dir, prev |-> loc[p].prev, disp |-> loc[p].disp, state |-> state]]

Call(p, calls) == work' = [work EXCEPT ![p] = calls] /\ UNCHANGED <<op, done, receipt, runs, starting, stopping, strays, stage, err, faults>>

\* The command ends: slices.hold releases its Sparks, and install clears its cancel entry.
Finish(p) ==
    /\ granted' = [granted EXCEPT ![p] = NoGrant]
    /\ cancels' = cancels \ {p}
    /\ Go(p, "idle")
    /\ loc' = [loc EXCEPT ![p] = NoLocals]
    /\ err' = [err EXCEPT ![p] = FALSE]
    /\ UNCHANGED <<op, done, receipt, runs, starting, stopping, strays, work, stage, faults>>

Calls(dirs, action) == SetToSeq({<<d, action>> : d \in dirs})

\* bring_back: stop the candidate and everything to restore, start and verify the latter.
BringBack(p, back) ==
    <<<<loc[p].dir, "down">>>> \o Calls(back \ {loc[p].dir}, "down") \o Calls(back, "up") \o Calls(back, "verify")

\* `restore`: the previous deployment, unless it is the candidate, and the displaced ones.
Restore(p) == ({loc[p].prev} \ {None, loc[p].dir}) \cup loc[p].disp

-----------------------------------------------------------------------------
(* sparkring install. *)

\* slices.hold reads what the installation affects, under admission.lock, ...
Snapshot(p) ==
    /\ "install" \in Commands
    /\ pc[p] = "idle"
    /\ \A q \in Procs : pc[q] # "acquire"
    /\ \E d \in Dirs :
          loc' = [loc EXCEPT ![p] = [NoLocals EXCEPT !.dir = d, !.sel = Affected(DirSlot[d])]]
    /\ Go(p, "acquire")
    /\ UNCHANGED <<granted, dvars, active, journal, cancels>>

\* ... and takes those locks or is refused.
Acquire(p) ==
    /\ pc[p] = "acquire"
    /\ \/ /\ Grant(p, loc[p].sel)
          /\ loc' = [loc EXCEPT ![p].sel = {}]
          /\ Go(p, "select")
       \/ /\ HeldByOther(p, loc[p].sel)
          /\ loc' = [loc EXCEPT ![p] = NoLocals]
          /\ Go(p, "idle")
          /\ UNCHANGED granted
    /\ UNCHANGED <<dvars, active, journal, cancels>>

\* install reads the records under its locks, refuses an unfinished conflicting switch or
\* an unexpected GPU workload, and execute() reads the slot's journal: a pending switch to
\* the same candidate is resumed with what it recorded, any other pending one is replaced
\* after its candidate's stop.
Select(p) ==
    /\ pc[p] = "select"
    /\ LET d == loc[p].dir
           s == Slot(p)
           prev == active[s]
           disp == Displaced(s) \ {d}
           j == journal[s]
           abandoned == j.state \in {"recovering-previous", "needs-attention"} \/ j.cand # d
       IN  IF \/ \E t \in Conflicting(s) : Pending(t)
              \/ ~WorkloadsExpected(d, ({prev, d} \cup disp) \ {None})
             THEN Finish(p)
             ELSE /\ IF Pending(s) /\ ~abandoned
                       THEN /\ loc' = [loc EXCEPT ![p].prev = j.prev, ![p].disp = j.disp,
                                                  ![p].todo = j.disp, ![p].resume = TRUE]
                            /\ Go(p, "stopping")
                            /\ UNCHANGED dvars
                       ELSE /\ loc' = [loc EXCEPT ![p].prev = prev, ![p].disp = disp, ![p].todo = disp]
                            /\ IF Pending(s)
                                 THEN Go(p, "superseding") /\ Call(p, <<<<j.cand, "down">>>>)
                                 ELSE Go(p, "preparing") /\ UNCHANGED dvars
                  /\ UNCHANGED <<granted, cancels>>
    /\ UNCHANGED <<active, journal>>

\* The replaced switch's candidate stopped, or its stop was refused: either is recorded.
Superseded(p) ==
    /\ pc[p] = "superseding" /\ Idle(p)
    /\ err' = [err EXCEPT ![p] = FALSE]
    /\ Go(p, "preparing")
    /\ UNCHANGED <<granted, op, done, receipt, runs, starting, stopping, strays, work, stage, faults, active, journal, cancels, loc>>

\* save("preparing"); a candidate whose last start or stop did not complete stops first.
SavePreparing(p) ==
    /\ pc[p] = "preparing"
    /\ IF p \in cancels
         THEN Save(p, "cancelled") /\ Finish(p)
         ELSE LET d == loc[p].dir
                  left == ~done[d] /\ op[d] \in {"up", "down"}
              IN  /\ Save(p, "preparing")
                  /\ Call(p, (IF left THEN <<<<d, "down">>>> ELSE <<>>) \o <<<<d, "prepare">>>>)
                  /\ loc' = [loc EXCEPT ![p].stopped = left]
                  /\ Go(p, "prepared")
                  /\ UNCHANGED <<granted, cancels>>
    /\ UNCHANGED active

\* prepare() ends with the workload check; when any of it failed, nothing else has stopped.
Prepared(p) ==
    /\ pc[p] = "prepared" /\ Idle(p)
    /\ IF err[p] \/ ~WorkloadsExpected(loc[p].dir, ({loc[p].prev, loc[p].dir} \cup loc[p].disp) \ {None})
         THEN Save(p, "preparation-failed") /\ Finish(p)
         ELSE Go(p, "stopping") /\ UNCHANGED <<granted, dvars, journal, cancels, loc>>
    /\ UNCHANGED active

\* The stop that precedes the start: the previous deployment, or the candidate itself when
\* it is the active one and does not serve.  Even a running model may fail its fabric check.
StopPrevious(p) ==
    /\ pc[p] = "stopping"
    /\ LET d == loc[p].dir
           prev == loc[p].prev
       IN  \/ /\ prev \notin {None, d} /\ p \notin cancels
              /\ Save(p, "stopping-previous")
              /\ Call(p, <<<<prev, "down">>>>)
              /\ loc' = [loc EXCEPT ![p].switched = TRUE]
           \/ /\ prev = d /\ ~loc[p].stopped /\ p \notin cancels
              /\ Save(p, "stopping-previous")
              /\ Call(p, <<<<d, "down">>>>)
              /\ loc' = [loc EXCEPT ![p].undo = TRUE]
           \/ /\ prev = None \/ (prev = d /\ (loc[p].stopped \/ AllRun(d)))
              /\ UNCHANGED <<dvars, journal, loc>>
    /\ Go(p, "displacing")
    /\ UNCHANGED <<granted, active, cancels>>

\* Stop the next displaced deployment, ...
Displace(p) ==
    /\ pc[p] = "displacing" /\ Idle(p) /\ ~err[p] /\ p \notin cancels
    /\ \E d \in loc[p].todo :
          /\ Call(p, <<<<d, "down">>>>)
          /\ loc' = [loc EXCEPT ![p].todo = @ \ {d}, ![p].switched = TRUE]
    /\ Save(p, "stopping-previous")
    /\ UNCHANGED <<granted, active, cancels, pc>>

\* ... or start the candidate when all are stopped, ...
Start(p) ==
    /\ pc[p] = "displacing" /\ Idle(p) /\ ~err[p] /\ p \notin cancels
    /\ loc[p].todo = {}
    /\ Save(p, "starting")
    /\ Call(p, <<<<loc[p].dir, "up">>>>)
    /\ loc' = [loc EXCEPT ![p].undo = TRUE]
    /\ Go(p, "started")
    /\ UNCHANGED <<granted, active, cancels>>

\* ... and verify it.
SaveVerifying(p) ==
    /\ pc[p] = "started" /\ Idle(p) /\ ~err[p] /\ p \notin cancels
    /\ Save(p, "verifying")
    /\ Call(p, <<<<loc[p].dir, "verify">>>>)
    /\ Go(p, "verified")
    /\ UNCHANGED <<granted, active, cancels, loc>>

\* The active pointer commits the switch.
Commit(p) ==
    /\ pc[p] = "verified" /\ Idle(p) /\ ~err[p] /\ p \notin cancels
    /\ active' = [active EXCEPT ![Slot(p)] = loc[p].dir]
    /\ Go(p, "clearing")
    /\ UNCHANGED <<granted, dvars, journal, cancels, loc>>

\* placement.clear_conflicting: one record after the other.
ClearConflicting(p) ==
    /\ pc[p] \in {"clearing", "clear_up"}
    /\ \E t \in Conflicting(Slot(p)) : active[t] # None /\ active' = [active EXCEPT ![t] = None]
    /\ UNCHANGED <<granted, dvars, journal, cancels, pc, loc>>

\* Mutant: the conflicting slots keep their records.
CompleteUncleared(p) ==
    /\ pc[p] = "clearing"
    /\ Save(p, "complete")
    /\ Finish(p)
    /\ UNCHANGED active

\* The switch is recorded complete.
Complete(p) ==
    /\ pc[p] = "clearing"
    /\ \A t \in Conflicting(Slot(p)) : active[t] = None
    /\ Save(p, "complete")
    /\ Finish(p)
    /\ UNCHANGED active

\* Where execute() asks for a cancel: before each honoured save, and before the commit.
AtBoundary(p) ==
    \/ pc[p] = "stopping" /\ (loc[p].prev \notin {None, loc[p].dir}
                              \/ (loc[p].prev = loc[p].dir /\ ~loc[p].stopped))
    \/ pc[p] \in {"displacing", "started", "verified"}

\* cancel.Cancelled: bring back what this switch, or the one it resumes, stopped.
CancelSwitch(p) ==
    /\ AtBoundary(p) /\ Idle(p) /\ ~err[p] /\ p \in cancels
    /\ LET own == IF loc[p].undo \/ loc[p].resume THEN {loc[p].prev} \ {None} ELSE {}
           back == IF Restore(p) # {} THEN Restore(p) ELSE own
       IN  IF loc[p].resume \/ loc[p].switched \/ loc[p].undo
             THEN Call(p, BringBack(p, back)) /\ Go(p, "cancelling") /\ UNCHANGED <<granted, journal, cancels, loc>>
             ELSE Save(p, "cancelled") /\ Finish(p)
    /\ UNCHANGED active

\* Any other error: a switch that stopped something recovers it.
Fail(p) ==
    /\ pc[p] \in {"displacing", "started", "verified"} /\ Idle(p) /\ err[p]
    /\ IF loc[p].switched
         THEN /\ Save(p, "recovering-previous")
              /\ work' = [work EXCEPT ![p] = BringBack(p, Restore(p))]
              /\ err' = [err EXCEPT ![p] = FALSE]
              /\ Go(p, "recovering")
              /\ UNCHANGED <<granted, op, done, receipt, runs, starting, stopping, strays, stage, faults, cancels, loc>>
         ELSE Save(p, "failed") /\ Finish(p)
    /\ UNCHANGED active

\* The restored deployment is recorded active again.
RestorePointer(p) ==
    /\ pc[p] \in {"cancelling", "recovering"} /\ Idle(p) /\ ~err[p]
    /\ active' = IF loc[p].prev \in {None, loc[p].dir} THEN active
                 ELSE [active EXCEPT ![Slot(p)] = loc[p].prev]
    /\ Go(p, IF pc[p] = "cancelling" THEN "cancel_record" ELSE "recover_record")
    /\ UNCHANGED <<granted, dvars, journal, cancels, loc>>

RecordUndone(p) ==
    /\ \/ pc[p] = "cancel_record" /\ Save(p, "cancelled")
       \/ pc[p] = "recover_record" /\ Save(p, "failed-recovered")
    /\ Finish(p)
    /\ UNCHANGED active

\* Mutant: a failed restore is recorded like one that worked.
NeedsAttentionForgiven(p) ==
    /\ pc[p] \in {"cancelling", "recovering"} /\ Idle(p) /\ err[p]
    /\ Save(p, IF pc[p] = "cancelling" THEN "cancelled" ELSE "failed-recovered")
    /\ Finish(p)
    /\ UNCHANGED active

\* The restore itself failed.
NeedsAttention(p) ==
    /\ pc[p] \in {"cancelling", "recovering"} /\ Idle(p) /\ err[p]
    /\ Save(p, "needs-attention")
    /\ Finish(p)
    /\ UNCHANGED active

Install(p) ==
    \/ Acquire(p) \/ Select(p) \/ Superseded(p) \/ SavePreparing(p) \/ Prepared(p) \/ StopPrevious(p)
    \/ Displace(p) \/ Start(p) \/ SaveVerifying(p) \/ Commit(p) \/ ClearConflicting(p) \/ Complete(p)
    \/ CancelSwitch(p) \/ Fail(p) \/ RestorePointer(p) \/ RecordUndone(p) \/ NeedsAttention(p)

-----------------------------------------------------------------------------
(* sparkring up, down and restart, of a deployment named by its profile. *)

Lifecycle(p) ==
    /\ pc[p] = "idle"
    /\ \A q \in Procs : pc[q] # "acquire"
    /\ \E c \in Commands \cap {"up", "down", "restart"}, d \in Dirs :
          /\ Grant(p, DirSlot[d])
          /\ loc' = [loc EXCEPT ![p].dir = d]
          /\ Go(p, CASE c = "up" -> "check_up" [] c = "down" -> "check_down" [] c = "restart" -> "check_restart")
    /\ UNCHANGED <<dvars, active, journal, cancels>>

\* Under the lock: up refuses while another model is selected here or runs on a
\* conflicting slot.  `held_active` is kept for the end.
LifecycleCheck(p) ==
    /\ pc[p] \in {"check_up", "check_down", "check_restart"}
    /\ LET d == loc[p].dir
           held == active[Slot(p)]
       IN  IF /\ pc[p] # "check_down"
              /\ \/ held \notin {None, d} /\ ~Stopped(held)
                 \/ \E t \in Conflicting(Slot(p)) : active[t] # None /\ ~Stopped(active[t])
             THEN Finish(p)
             ELSE /\ Call(p, CASE pc[p] = "check_up" -> <<<<d, "up">>>>
                               [] pc[p] = "check_down" -> <<<<d, "down">>>>
                               [] pc[p] = "check_restart" -> <<<<d, "down">>, <<d, "up">>>>)
                  /\ loc' = [loc EXCEPT ![p].prev = held]
                  /\ Go(p, IF pc[p] = "check_down" THEN "down" ELSE "up")
                  /\ UNCHANGED <<granted, cancels>>
    /\ UNCHANGED <<active, journal>>

\* The deployment acted on is recorded active: after up, and where none was.
LifecycleRecord(p) ==
    /\ pc[p] \in {"up", "down"} /\ Idle(p) /\ ~err[p]
    /\ active' = IF pc[p] = "up" \/ loc[p].prev = None THEN [active EXCEPT ![Slot(p)] = loc[p].dir] ELSE active
    /\ IF pc[p] = "up" THEN Go(p, "clear_up") /\ UNCHANGED <<granted, dvars, cancels, loc>> ELSE Finish(p)
    /\ UNCHANGED journal

LifecycleEnd(p) ==
    /\ \/ pc[p] \in {"up", "down"} /\ Idle(p) /\ err[p]
       \/ pc[p] = "clear_up" /\ \A t \in Conflicting(Slot(p)) : active[t] = None
    /\ Finish(p)
    /\ UNCHANGED <<active, journal>>

-----------------------------------------------------------------------------
(* sparkring install --cancel. *)

\* cancel.run names the running installations in install-cancel.json and waits for them,
\* refuses beside a lifecycle command, or goes on to settle.
CancelRun(p) ==
    /\ "cancel" \in Commands
    /\ pc[p] = "idle"
    /\ \A q \in Procs : pc[q] # "acquire"
    /\ LET running == {q \in Procs : Stoppable(q)}
       IN  \/ /\ running # {}
              /\ cancels' = cancels \cup running
              /\ Go(p, "waiting")
           \/ /\ running = {} /\ \A q \in Procs : ~LifecycleRuns(q)
              /\ Go(p, "scan")
              /\ UNCHANGED cancels
    /\ UNCHANGED <<granted, dvars, active, journal, loc>>

\* No installation it named runs any more, or two minutes have passed.
CancelWaited(p) ==
    /\ pc[p] = "waiting"
    /\ \/ Go(p, "scan") /\ \A q \in Procs : Stoppable(q) => q \notin cancels
       \/ Go(p, "idle") /\ \E q \in Procs : Stoppable(q) /\ q \in cancels
    /\ UNCHANGED <<granted, dvars, active, journal, cancels, loc>>

\* rollout.unfinished: the slots whose switch is pending.
Scan(p) ==
    /\ pc[p] = "scan"
    /\ loc' = [loc EXCEPT ![p].slots = {s \in Slots : Pending(s)}]
    /\ Go(p, "settle")
    /\ UNCHANGED <<granted, dvars, active, journal, cancels>>

\* cancel.settle takes the next slot's Sparks, or reports it busy; under them the journal
\* is read again, and rollout.settle stops the candidate and brings back what it stopped.
SettleHold(p) ==
    /\ pc[p] = "settle"
    /\ \A q \in Procs : pc[q] # "acquire"
    /\ \E s \in loc[p].slots :
          \/ /\ HeldByOther(p, s)
             /\ loc' = [loc EXCEPT ![p].slots = @ \ {s}]
             /\ UNCHANGED <<granted, dvars, pc>>
          \/ /\ Grant(p, s)
             /\ LET j == journal[s]
                    other == ({j.prev} \ {None, j.cand}) \cup j.disp
                    back == IF other # {} THEN other ELSE {j.prev} \ {None}
                IN  IF Pending(s)
                      THEN /\ Call(p, <<<<j.cand, "down">>>> \o Calls(back, "down")
                                      \o Calls(back, "up") \o Calls(back, "verify"))
                           /\ loc' = [loc EXCEPT ![p].dir = j.cand, ![p].prev = j.prev,
                                                 ![p].disp = j.disp, ![p].slots = @ \ {s}]
                      ELSE /\ loc' = [loc EXCEPT ![p].slots = @ \ {s}]
                           /\ UNCHANGED dvars
             /\ Go(p, "settling")
    /\ UNCHANGED <<active, journal, cancels>>

\* The slot is released; the command goes on to the next.
Settled(p) ==
    /\ granted' = [granted EXCEPT ![p] = NoGrant]
    /\ err' = [err EXCEPT ![p] = FALSE]
    /\ loc' = [loc EXCEPT ![p] = [NoLocals EXCEPT !.slots = loc[p].slots]]
    /\ Go(p, "settle")
    /\ UNCHANGED <<op, done, receipt, runs, starting, stopping, strays, work, stage, faults, cancels>>

\* Mutant: the pointer of a switch that had committed stays.
SettleRecordPointerKept(p) ==
    /\ pc[p] = "settling" /\ Idle(p)
    /\ IF loc[p].dir = None THEN UNCHANGED journal
       ELSE Save(p, IF err[p] THEN "needs-attention" ELSE "cancelled")
    /\ Settled(p)
    /\ UNCHANGED active

\* A switch that had committed loses its pointer to what serves again; any error leaves it
\* needing attention.
SettleRecord(p) ==
    /\ pc[p] = "settling" /\ Idle(p)
    /\ IF loc[p].dir = None THEN UNCHANGED <<active, journal>>
       ELSE /\ active' = IF ~err[p] /\ active[Slot(p)] = loc[p].dir
                           THEN [active EXCEPT ![Slot(p)] = loc[p].prev] ELSE active
            /\ Save(p, IF err[p] THEN "needs-attention" ELSE "cancelled")
    /\ Settled(p)

\* Mutant: the command tries again until no switch is unfinished.
SettleEndRetries(p) ==
    /\ pc[p] = "settle" /\ loc[p].slots = {}
    /\ Go(p, IF \E s \in Slots : Pending(s) THEN "scan" ELSE "idle")
    /\ cancels' = cancels \ {p}
    /\ UNCHANGED <<granted, dvars, active, journal, loc>>

SettleEnd(p) ==
    /\ pc[p] = "settle" /\ loc[p].slots = {}
    /\ Go(p, "idle")
    /\ cancels' = cancels \ {p}
    /\ UNCHANGED <<granted, dvars, active, journal, loc>>

-----------------------------------------------------------------------------
\* A command is killed: its locks and cancel entry are gone, its records stay, ...
Dies(p, step) ==
    /\ granted' = [granted EXCEPT ![p] = NoGrant]
    /\ cancels' = cancels \ {p}
    /\ Go(p, step)
    /\ loc' = [loc EXCEPT ![p] = NoLocals]
    /\ UNCHANGED <<active, journal>>

\* ... with the call it made, ...
Kill(p) ==
    /\ pc[p] # "idle"
    /\ ApplyKilled(p)
    /\ Dies(p, "idle")

\* ... or without the child process that makes it ...
Orphan(p) ==
    /\ pc[p] \notin {"idle", "orphan"}
    /\ ApplyOrphaned(p)
    /\ Dies(p, "orphan")

\* ... and ends with it.
OrphanEnd(p) ==
    /\ pc[p] = "orphan" /\ Idle(p)
    /\ err' = [err EXCEPT ![p] = FALSE]
    /\ Go(p, "idle")
    /\ UNCHANGED <<granted, op, done, receipt, runs, starting, stopping, strays, work, stage, faults,
                   active, journal, cancels, loc>>

\* The steps a running command takes by itself.
Proceed(p) ==
    \/ Install(p)
    \/ LifecycleCheck(p) \/ LifecycleRecord(p) \/ LifecycleEnd(p)
    \/ CancelWaited(p) \/ Scan(p) \/ SettleHold(p) \/ SettleRecord(p) \/ SettleEnd(p)
    \/ OrphanEnd(p)
    \/ Apply(p, Tolerant(p)) /\ UNCHANGED <<granted, svars>>

\* History: a call that ends or dies here held the Sparks where it started containers.
Watch ==
    unheld' = [d \in Dirs |-> {i \in runs'[d] : IF i \in runs[d] THEN i \in unheld[d]
                  ELSE \A p \in Procs : Inside(p, d) /\ Holds(p, i) => work'[p] = work[p]}]

Advance(p) == Proceed(p) /\ Watch

Next ==
    \/ \E p \in Procs :
          \/ Advance(p)
          \/ (Snapshot(p) \/ Lifecycle(p) \/ CancelRun(p) \/ Kill(p) \/ Orphan(p)) /\ Watch
          \/ ApplyFail(p, Tolerant(p)) /\ UNCHANGED <<granted, svars>> /\ Watch
    \/ (Lands \/ \E i \in Positions : Restart(i)) /\ UNCHANGED <<granted, svars>> /\ Watch

Spec == Init /\ [][Next]_vars

\* A command that is not killed takes its next step: each call has a timeout.
FairSpec == Spec /\ \A p \in Procs : WF_vars(Advance(p))

-----------------------------------------------------------------------------
\* The deployments a pending switch's record says to bring back.
BackOf(j) == LET other == ({j.prev} \ {None, j.cand}) \cup j.disp
             IN  IF other # {} THEN other ELSE {j.prev} \ {None}

\* p records that the pending switch of s is undone.
Undoes(p, s) ==
    /\ pc[p] \in {"cancelling", "cancel_record", "recovering", "recover_record", "settling"}
    /\ loc[p].dir # None /\ Slot(p) = s
    /\ Pending(s) /\ journal'[s].state \in {"cancelled", "failed-recovered"}

(***************************************************************************)
(* Models that were started under the locks of their Sparks never share    *)
(* one, through switches, displacements, failures, kills, cancels and      *)
(* restorations, whatever starts that were not so do beside them.          *)
(***************************************************************************)
HeldStartsApart ==
    \A d, e \in Dirs : d # e => runs[d] \cap runs[e] \subseteq unheld[d] \cup unheld[e]

(***************************************************************************)
(* A switch is recorded cancelled or recovered only when the last          *)
(* operation of each deployment it stopped is a completed start, and that  *)
(* of the candidate a completed stop; a resumed or settled switch too.     *)
(***************************************************************************)
UndoneMeansRestored ==
    [][\A p \in Procs, s \in Slots : Undoes(p, s) =>
          /\ \A d \in BackOf(journal[s]) : op[d] = "up" /\ done[d]
          /\ journal[s].cand \notin BackOf(journal[s]) => Stopped(journal[s].cand)]_vars

(***************************************************************************)
(* "its candidate is stopped and the model it replaced serves, so nothing  *)
(* it left is unfinished" (CANCELLED, placement.py): the same of every     *)
(* record that turns a pending switch into a cancelled one, also when it   *)
(* is written by the installation that replaces that switch.  It does not  *)
(* hold (README, Observations).                                            *)
(***************************************************************************)
CancelledMeansRestored ==
    [][\A s \in Slots : Pending(s) /\ journal'[s].state = "cancelled" =>
          \A d \in BackOf(journal[s]) : op[d] = "up" /\ done[d]]_vars

(***************************************************************************)
(* A switch that is undone after it had replaced another deployment leaves *)
(* no slot naming its stopped candidate: the slot names what it named      *)
(* before, wherever between the commit and the record the switch stopped.  *)
(***************************************************************************)
RestoredIsRecorded ==
    [][\A p \in Procs, s \in Slots :
          LET j == journal[s]
          IN  Undoes(p, s) /\ j.prev # None /\ active[s] \in {j.cand, j.prev} => active'[s] = j.prev]_vars

(***************************************************************************)
(* "the restore writes the deployment that serves again in its place"      *)
(* (rollout.settle), of every deployment brought back.  It does not hold   *)
(* (README, Observations).                                                 *)
(***************************************************************************)
EachRestoredIsRecorded ==
    [][\A p \in Procs, s \in Slots : Undoes(p, s) =>
          \A d \in BackOf(journal[s]) : active'[DirSlot[d]] = d]_vars

(***************************************************************************)
(* The active pointer commits last: when a switch is recorded complete,    *)
(* the slot names its candidate, whose start is complete, everything it    *)
(* replaced is stopped, and no overlapping slot names a deployment.        *)
(***************************************************************************)
CompleteMeansCommitted ==
    [][\A s \in Slots :
          LET j == journal[s]
          IN  j.state = "verifying" /\ journal'[s].state = "complete" =>
                 /\ active[s] = j.cand /\ op[j.cand] = "up" /\ done[j.cand]
                 /\ \A d \in ({j.prev} \cup j.disp) \ {None, j.cand} : Stopped(d)
                 /\ \A t \in Conflicting(s) : active[t] = None]_vars

(***************************************************************************)
(* Every command ends, whatever was refused, failed or cancelled in it.    *)
(***************************************************************************)
CommandsEnd == \A p \in Procs : pc[p] # "idle" ~> pc[p] = "idle"
==============================================================================
