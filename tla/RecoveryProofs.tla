---------------------------- MODULE RecoveryProofs ----------------------------
(***************************************************************************)
(* Proofs about Recovery for any number of operators and deployments of a  *)
(* slot, any limits and any number of commands and faults.                 *)
(***************************************************************************)
EXTENDS Recovery, DeploymentsProofs

FullKeys == Nat \X {"none", "prepare", "up", "down"} \X BOOLEAN

\* A process that does something knows its deployment, and a check past CheckState the
\* state.json it read.
Located(p) == pc[p] # "idle" => loc[p].dir \in Dirs
KeyRead(p) ==
    pc[p] \in {"interrupted", "saved", "observed", "lock", "locked", "rechecked", "acting"} =>
        loc[p].key \in FullKeys

Typed ==
    /\ TypeOK /\ \A p \in Procs : Working(p)
    /\ \A p \in Procs : Located(p) /\ KeyRead(p)

-----------------------------------------------------------------------------
\* The values that a step puts together.
LEMMA Values ==
    /\ Fresh \in Records /\ Blank \in Locals /\ NoKey \in Keys
    /\ \A key \in FullKeys : key \in Keys /\ key[1] \in Nat
<1>1. NoKey \in Keys /\ \A key \in FullKeys : key \in Keys /\ key[1] \in Nat
  BY DEF Keys, FullKeys
<1>2. Fresh \in Records
  BY <1>1 DEF Fresh, Records
<1> QED
  BY <1>1, <1>2 DEF Blank, Locals

LEMMA KeyTyped == ASSUME TypeOK, NEW d \in Dirs PROVE Key(d) \in FullKeys
  BY DEF TypeOK, DeploymentsTypeOK, Key, FullKeys

\* The updates of a record leave a record.
LEMMA Updates ==
    ASSUME NEW r \in Records
    PROVE  /\ \A n \in 0..3 : [r EXCEPT !.pending = n] \in Records
           /\ [r EXCEPT !.pending = 0] \in Records
           /\ [r EXCEPT !.pending = 0, !.stopped = TRUE] \in Records
           /\ [r EXCEPT !.pending = 0, !.failures = 0, !.backoff = FALSE, !.left = NoKey] \in Records
           /\ \A k \in Nat : [r EXCEPT !.attempt = k, !.pending = 0] \in Records
           /\ \A k \in Nat : [r EXCEPT !.attempt = NoAttempt, !.failures = 0, !.backoff = FALSE,
                                     !.left = NoKey, !.restarts = k] \in Records
           /\ [r EXCEPT !.enabled = FALSE] \in Records
           /\ [r EXCEPT !.enabled = TRUE, !.failures = 0, !.stopped = FALSE,
                        !.restarts = 0, !.backoff = FALSE, !.pending = 0] \in Records
           /\ [r EXCEPT !.attempt = NoAttempt, !.left = NoKey, !.pending = 0] \in Records
           /\ [r EXCEPT !.backoff = FALSE, !.pending = IF @ = 0 THEN 0 ELSE 3] \in Records
           /\ r.restarts > 0 => [r EXCEPT !.restarts = @ - 1] \in Records
<1>1. NoKey \in Keys /\ 0 \in 0..3 /\ 3 \in 0..3 /\ NoAttempt \in {NoAttempt} \cup Nat
  BY Values
<1>2. \A n \in 0..3 : [r EXCEPT !.pending = n] \in Records
  BY DEF Records
<1>3. [r EXCEPT !.pending = 0, !.stopped = TRUE] \in Records
  BY <1>1 DEF Records
<1>4. [r EXCEPT !.pending = 0, !.failures = 0, !.backoff = FALSE, !.left = NoKey] \in Records
  BY <1>1 DEF Records
<1>5. \A k \in Nat : [r EXCEPT !.attempt = k, !.pending = 0] \in Records
  BY <1>1 DEF Records
<1>6. \A k \in Nat : [r EXCEPT !.attempt = NoAttempt, !.failures = 0, !.backoff = FALSE,
                              !.left = NoKey, !.restarts = k] \in Records
  BY <1>1 DEF Records
<1>7. [r EXCEPT !.enabled = FALSE] \in Records
  BY DEF Records
<1>8. [r EXCEPT !.enabled = TRUE, !.failures = 0, !.stopped = FALSE,
               !.restarts = 0, !.backoff = FALSE, !.pending = 0] \in Records
  BY <1>1 DEF Records
<1>9. [r EXCEPT !.attempt = NoAttempt, !.left = NoKey, !.pending = 0] \in Records
  BY <1>1 DEF Records
<1>10. [r EXCEPT !.backoff = FALSE, !.pending = IF @ = 0 THEN 0 ELSE 3] \in Records
  BY <1>1 DEF Records
<1>11. r.restarts > 0 => [r EXCEPT !.restarts = @ - 1] \in Records
  BY DEF Records
<1>12. [r EXCEPT !.pending = 0] \in Records
  BY <1>1, <1>2
<1> QED
  BY <1>2, <1>3, <1>4, <1>5, <1>6, <1>7, <1>8, <1>9, <1>10, <1>11, <1>12, Zenon

\* A failed attempt leaves a record.
LEMMA FailedTyped ==
    ASSUME NEW now \in Records, NEW r \in Records
    PROVE  /\ Failed(now, r) \in Records
           /\ \A key \in Keys : [Failed(now, r) EXCEPT !.left = key] \in Records
<1>1. r.failures + 1 \in Nat /\ (r.failures + 1 >= FailureLimit) \in BOOLEAN
  BY DEF Records
<1>2. Failed(now, r) \in Records
  BY <1>1 DEF Failed, Records
<1> QED
  BY <1>2 DEF Records

\* What a step of apply does to the generations, to the faults of the models and to who
\* began the last operation.
LEMMA EffectsTyped ==
    ASSUME TypeOK, Effects
    PROVE  /\ gen' \in [Dirs -> Nat] /\ sick' \in [Dirs -> {"no", "dead", "silent", "mesh"}]
           /\ owner' \in [Dirs -> Procs \cup {None}]
<1>1. gen' \in [Dirs -> Nat]
  BY DEF TypeOK, Effects
<1>2. sick' \in [Dirs -> {"no", "dead", "silent", "mesh"}]
  BY DEF TypeOK, Effects
<1>3. (\E p \in Procs : stage[p] = "none" /\ stage'[p] = "begun") =>
         (CHOOSE p \in Procs : stage[p] = "none" /\ stage'[p] = "begun") \in Procs
  OBVIOUS
<1>4. owner' \in [Dirs -> Procs \cup {None}]
  BY <1>3, Zenon DEF TypeOK, Effects
<1> QED
  BY <1>1, <1>2, <1>4

LEMMA FindingTyped == ASSUME TypeOK, NEW d \in Dirs PROVE Finding(d) \in Findings
<1>1. sick[d] \in {"no", "dead", "silent", "mesh"} /\ net \in {"ok", "unreachable", "manual", "hairpin"}
  BY DEF TypeOK
<1>2. [no |-> "serving", dead |-> "dead", silent |-> "silent", mesh |-> "report"][sick[d]] \in Findings
  BY <1>1 DEF Findings
<1> QED
  BY <1>1, <1>2 DEF Finding, Findings

LEMMA InitTyped == Init => Typed
<1> SUFFICES ASSUME Init PROVE Typed
  OBVIOUS
<1>1. AdmissionTypeOK
  BY DEF Init, AdmissionInit, AdmissionTypeOK
<1>2. DeploymentsTypeOK
  <2>1. \A d \in Dirs : SparksOf(d) \in SUBSET Positions
    BY Sparks
  <2>2. <<>> \in Seq(Dirs \X Actions) /\ 0 \in 0..MaxFaults
    BY DeploymentsAssumption
  <2> QED
    BY <2>1, <2>2 DEF Init, DeploymentsInit, DeploymentsTypeOK
<1>3. TypeOK
  <2>1. MaxCommands \in 0..MaxCommands
    BY RecoveryAssumption
  <2>2. rec \in [Dirs -> Records] /\ loc \in [Procs -> Locals]
    BY Values DEF Init
  <2>3. /\ tries \in [Dirs -> Nat] /\ restarted \in [Dirs -> Nat] /\ unrecorded \in [Dirs -> Nat]
        /\ crossed \in [Dirs -> BOOLEAN] /\ gen \in [Dirs -> Nat]
    BY DEF Init
  <2> QED
    BY <1>1, <1>2, <2>1, <2>2, <2>3, RecoveryAssumption DEF Init, TypeOK, CheckLabels, OpLabels
<1> QED
  BY <1>3 DEF Init, DeploymentsInit, Typed, Working, Located, KeyRead

\* A process that is given calls.
LEMMA NewWork ==
    ASSUME work \in [Procs -> Seq(Dirs \X Actions)], err \in [Procs -> BOOLEAN],
           NEW p \in Procs, NEW d \in Dirs,
           \E w \in {<<<<d, "up">>>>, <<<<d, "down">>>>, <<<<d, "down">>, <<d, "up">>>>} :
               work' = [work EXCEPT ![p] = w] /\ err' = [err EXCEPT ![p] = FALSE]
    PROVE  /\ work' \in [Procs -> Seq(Dirs \X Actions)] /\ work'[p] # <<>> /\ Head(work'[p])[2] \in {"up", "down"}
           /\ err' \in [Procs -> BOOLEAN] /\ \A q \in Procs \ {p} : work'[q] = work[q]
<1> PICK w \in {<<<<d, "up">>>>, <<<<d, "down">>>>, <<<<d, "down">>, <<d, "up">>>>} :
        work' = [work EXCEPT ![p] = w] /\ err' = [err EXCEPT ![p] = FALSE]
  OBVIOUS
<1>1. w \in Seq(Dirs \X Actions) /\ w # <<>> /\ Head(w)[2] \in {"up", "down"}
  <2>0. <<d, "up">> \in Dirs \X Actions /\ <<d, "down">> \in Dirs \X Actions
    BY DEF Actions
  <2>1. CASE w = <<<<d, "up">>>>
    BY <2>0, <2>1
  <2>2. CASE w = <<<<d, "down">>>>
    BY <2>0, <2>2
  <2>3. CASE w = <<<<d, "down">>, <<d, "up">>>>
    BY <2>0, <2>3
  <2> QED
    BY <2>1, <2>2, <2>3
<1> QED
  BY <1>1

\* A step that does not touch the deployments keeps them.
LEMMA DeploymentsKept == DeploymentsOK /\ UNCHANGED dvars => DeploymentsOK'
  BY DEF DeploymentsOK, DeploymentsTypeOK, Working, dvars

\* The deployments stay typed, by actions.
LEMMA DeploymentsStep ==
    ASSUME Typed, [Next]_vars
    PROVE  DeploymentsOK'
<1>0. DeploymentsOK
  BY DEF Typed, TypeOK, DeploymentsOK
<1> USE <1>0, RecoveryAssumption DEF Operators
<1>1. ASSUME NEW c \in Checkers, Check(c) PROVE DeploymentsOK'
  BY <1>1, DeploymentsKept DEF Check, dvars, vars
<1>2. ASSUME NEW c \in Checkers, CheckOff(c) PROVE DeploymentsOK'
  BY <1>2, DeploymentsKept DEF CheckOff, dvars, vars
<1>3. ASSUME NEW c \in Checkers, CheckBusy(c) PROVE DeploymentsOK'
  BY <1>3, DeploymentsKept DEF CheckBusy, dvars, vars
<1>4. ASSUME NEW c \in Checkers, CheckState(c) PROVE DeploymentsOK'
  BY <1>4, DeploymentsKept DEF CheckState, dvars, vars
<1>5. ASSUME NEW c \in Checkers, CheckInterrupted(c) PROVE DeploymentsOK'
  BY <1>5, DeploymentsKept DEF CheckInterrupted, dvars, vars
<1>6. ASSUME NEW c \in Checkers, CheckObserve(c) PROVE DeploymentsOK'
  BY <1>6, DeploymentsKept DEF CheckObserve, dvars, vars
<1>7. ASSUME NEW c \in Checkers, CheckDecide(c) PROVE DeploymentsOK'
  BY <1>7, DeploymentsKept DEF CheckDecide, dvars, vars
<1>8. ASSUME NEW c \in Checkers, AttemptLock(c) PROVE DeploymentsOK'
  BY <1>8, DeploymentsKept DEF AttemptLock, dvars, vars
<1>9. ASSUME NEW c \in Checkers, AttemptRecheck(c) PROVE DeploymentsOK'
  BY <1>9, DeploymentsKept DEF AttemptRecheck, dvars, vars
<1>10. ASSUME NEW c \in Checkers, AttemptBegin(c) PROVE DeploymentsOK'
  <2>1. loc[c].dir \in Dirs
    BY <1>10 DEF AttemptBegin, Typed, Located
  <2>2. <<<<loc[c].dir, "up">>>> \in Seq(Dirs \X Actions) /\ <<<<loc[c].dir, "down">>, <<loc[c].dir, "up">>>> \in Seq(Dirs \X Actions)
    BY <2>1 DEF Actions
  <2>3. CASE UNCHANGED <<work, err>>
    BY <1>10, <2>3, DeploymentsKept DEF AttemptBegin, dvars
  <2>4. CASE ~UNCHANGED <<work, err>>
    <3>0. \E w \in {<<<<loc[c].dir, "up">>>>, <<<<loc[c].dir, "down">>, <<loc[c].dir, "up">>>>} :
             work' = [work EXCEPT ![c] = w] /\ err' = [err EXCEPT ![c] = FALSE]
      BY <1>10, <2>4 DEF AttemptBegin
    <3>1. /\ work' \in [Procs -> Seq(Dirs \X Actions)] /\ work'[c] # <<>> /\ Head(work'[c])[2] \in {"up", "down"}
          /\ err' \in [Procs -> BOOLEAN] /\ \A q \in Procs \ {c} : work'[q] = work[q]
      BY <2>1, <3>0, NewWork DEF DeploymentsOK, DeploymentsTypeOK
    <3> QED
      BY <1>10, <3>1 DEF AttemptBegin, DeploymentsOK, DeploymentsTypeOK, Working
  <2> QED
    BY <2>3, <2>4
<1>11. ASSUME NEW c \in Checkers, AttemptEnd(c) PROVE DeploymentsOK'
  BY <1>11, DeploymentsKept DEF AttemptEnd, dvars, vars
<1>12. ASSUME NEW c \in Checkers, AttemptRecord(c) PROVE DeploymentsOK'
  BY <1>12, DeploymentsKept DEF AttemptRecord, dvars, vars
<1>13. ASSUME NEW c \in Checkers, Killed(c) PROVE DeploymentsOK'
  BY <1>13, ApplyKilledTyped DEF Killed
<1>14. ASSUME NEW p \in Operators, Command(p) PROVE DeploymentsOK'
  BY <1>14, DeploymentsKept DEF Command, dvars, vars
<1>15. ASSUME NEW p \in Operators, HoldWrite(p) PROVE DeploymentsOK'
  BY <1>15, DeploymentsKept DEF HoldWrite, dvars, vars
<1>16. ASSUME NEW p \in Operators, OpLock(p) PROVE DeploymentsOK'
  BY <1>16, DeploymentsKept DEF OpLock, dvars, vars
<1>17. ASSUME NEW p \in Operators, OpSet(p) PROVE DeploymentsOK'
  BY <1>17, DeploymentsKept DEF OpSet, dvars, vars
<1>18. ASSUME NEW p \in Operators, OpForget(p) PROVE DeploymentsOK'
  <2>1. loc[p].dir \in Dirs /\ p \in Procs
    BY <1>18 DEF OpForget, Typed, Located, Operators
  <2>2. /\ <<<<loc[p].dir, "up">>>> \in Seq(Dirs \X Actions) /\ <<<<loc[p].dir, "down">>>> \in Seq(Dirs \X Actions)
        /\ <<<<loc[p].dir, "down">>, <<loc[p].dir, "up">>>> \in Seq(Dirs \X Actions)
    BY <2>1 DEF Actions
  <2>3. /\ work' \in [Procs -> Seq(Dirs \X Actions)] /\ work'[p] # <<>> /\ Head(work'[p])[2] \in {"up", "down"}
        /\ err' \in [Procs -> BOOLEAN] /\ \A q \in Procs \ {p} : work'[q] = work[q]
    <3>0. \E w \in {<<<<loc[p].dir, "up">>>>, <<<<loc[p].dir, "down">>>>, <<<<loc[p].dir, "down">>, <<loc[p].dir, "up">>>>} :
             work' = [work EXCEPT ![p] = w] /\ err' = [err EXCEPT ![p] = FALSE]
      BY <1>18 DEF OpForget
    <3> QED
      BY <2>1, <2>2, <3>0, NewWork DEF DeploymentsOK, DeploymentsTypeOK
  <2> QED
    BY <1>18, <2>3 DEF OpForget, DeploymentsOK, DeploymentsTypeOK, Working
<1>19. ASSUME NEW p \in Operators, OpRecord(p) PROVE DeploymentsOK'
  BY <1>19, DeploymentsKept DEF OpRecord, dvars, vars
<1>20. ASSUME NEW p \in Operators, OpStarted(p) PROVE DeploymentsOK'
  BY <1>20, DeploymentsKept DEF OpStarted, dvars, vars
<1>21. ASSUME NEW p \in Procs, Operate(p) PROVE DeploymentsOK'
  BY <1>21, ApplyTyped DEF Operate
<1>22. ASSUME NEW p \in Procs, OperateFail(p) PROVE DeploymentsOK'
  BY <1>22, ApplyFailTyped DEF OperateFail
<1>23. ASSUME Trouble PROVE DeploymentsOK'
  <2>1. ASSUME NEW i \in Positions, Restart(i) PROVE DeploymentsOK'
    BY <2>1, RestartTyped
  <2>2. CASE faults < MaxFaults /\ faults' = faults + 1 /\ UNCHANGED <<op, done, receipt, runs, starting, stopping, strays, work, stage, err>>
    <3>1. faults' \in 0..MaxFaults
      BY <2>2, FaultCounted DEF DeploymentsOK
    <3> QED
      BY <2>2, <3>1 DEF DeploymentsOK, DeploymentsTypeOK, Working
  <2> QED
    BY <1>23, <2>1, <2>2 DEF Trouble
<1>24. ASSUME Repair PROVE DeploymentsOK'
  BY <1>24, DeploymentsKept DEF Repair, dvars, vars
<1>25. ASSUME NEW d \in Dirs, Wait(d) PROVE DeploymentsOK'
  BY <1>25, DeploymentsKept DEF Wait, dvars, vars
<1>26. ASSUME NEW d \in Dirs, Age(d) PROVE DeploymentsOK'
  BY <1>26, DeploymentsKept DEF Age, dvars, vars
<1>27. ASSUME Late PROVE DeploymentsOK'
  BY <1>27, LandsTyped DEF Late
<1>28. CASE UNCHANGED vars
  BY <1>28, DeploymentsKept DEF vars
<1> QED
  BY <1>1, <1>2, <1>3, <1>4, <1>5, <1>6, <1>7, <1>8, <1>9, <1>10, <1>11, <1>12, <1>13, <1>14, <1>15,
     <1>16, <1>17, <1>18, <1>19, <1>20, <1>21, <1>22, <1>23, <1>24, <1>25, <1>26, <1>27, <1>28 DEF Next, Alive, CheckStep, OperatorStep, Operators

\* The record stays a record, by actions.
LEMMA RecordStep ==
    ASSUME Typed, [Next]_vars
    PROVE  rec' \in [Dirs -> Records]
<1>0. rec \in [Dirs -> Records] /\ loc \in [Procs -> Locals]
  BY DEF Typed, TypeOK
<1> USE <1>0, RecoveryAssumption DEF Operators
<1>1. ASSUME NEW c \in Checkers, Check(c) PROVE rec' \in [Dirs -> Records]
  BY <1>1 DEF Check, Env, vars, rvars
<1>2. ASSUME NEW c \in Checkers, CheckOff(c) PROVE rec' \in [Dirs -> Records]
  BY <1>2 DEF CheckOff, Env, vars, rvars
<1>3. ASSUME NEW c \in Checkers, CheckBusy(c) PROVE rec' \in [Dirs -> Records]
  BY <1>3 DEF CheckBusy, Env, vars, rvars
<1>4. ASSUME NEW c \in Checkers, CheckState(c) PROVE rec' \in [Dirs -> Records]
  BY <1>4 DEF CheckState, Env, vars, rvars
<1>5. ASSUME NEW c \in Checkers, CheckInterrupted(c) PROVE rec' \in [Dirs -> Records]
  <2>1. loc[c].dir \in Dirs /\ rec[loc[c].dir] \in Records /\ loc[c].rec \in Records
    BY <1>5 DEF CheckInterrupted, Typed, Located, Locals
  <2>2. loc[c].key \in Keys /\ NoKey \in Keys
    BY Values DEF Locals
  <2>3. \A key \in Keys : [Failed(rec[loc[c].dir], loc[c].rec) EXCEPT !.left = key] \in Records
    BY <2>1, FailedTyped
  <2> QED
    BY <1>5, <2>1, <2>2, <2>3 DEF CheckInterrupted, Update
<1>6. ASSUME NEW c \in Checkers, CheckObserve(c) PROVE rec' \in [Dirs -> Records]
  <2>1. loc[c].dir \in Dirs /\ rec[loc[c].dir] \in Records /\ loc[c].rec \in Records
    BY <1>6 DEF CheckObserve, Typed, Located, Locals
  <2>2. [rec[loc[c].dir] EXCEPT !.pending = 0] \in Records
    BY <2>1, Updates
  <2> QED
    BY <1>6, <2>1, <2>2 DEF CheckObserve, Update
<1>7. ASSUME NEW c \in Checkers, CheckDecide(c) PROVE rec' \in [Dirs -> Records]
  <2>1. loc[c].dir \in Dirs /\ rec[loc[c].dir] \in Records /\ loc[c].rec \in Records
    BY <1>7 DEF CheckDecide, Typed, Located, Locals
  <2>2. /\ \A n \in 0..3 : [rec[loc[c].dir] EXCEPT !.pending = n] \in Records
        /\ [rec[loc[c].dir] EXCEPT !.pending = 0, !.stopped = TRUE] \in Records
    BY <2>1, Updates
  <2>3. [rec[loc[c].dir] EXCEPT !.pending = 0, !.failures = 0, !.backoff = FALSE, !.left = NoKey] \in Records
    BY <2>1, Updates
  <2>4. (IF loc[c].rec.pending >= 2 THEN loc[c].rec.pending ELSE loc[c].rec.pending + 1) \in 0..3
    BY <2>1 DEF Records
  <2> QED
    BY <1>7, <2>1, <2>2, <2>3, <2>4 DEF CheckDecide, Update
<1>8. ASSUME NEW c \in Checkers, AttemptLock(c) PROVE rec' \in [Dirs -> Records]
  BY <1>8 DEF AttemptLock, Env, vars, rvars
<1>9. ASSUME NEW c \in Checkers, AttemptRecheck(c) PROVE rec' \in [Dirs -> Records]
  <2>1. loc[c].dir \in Dirs /\ rec[loc[c].dir] \in Records /\ loc[c].rec \in Records
    BY <1>9 DEF AttemptRecheck, Typed, Located, Locals
  <2>2. [rec[loc[c].dir] EXCEPT !.pending = 0] \in Records
    BY <2>1, Updates
  <2> QED
    BY <1>9, <2>1, <2>2 DEF AttemptRecheck, Update
<1>10. ASSUME NEW c \in Checkers, AttemptBegin(c) PROVE rec' \in [Dirs -> Records]
  <2>1. loc[c].dir \in Dirs /\ rec[loc[c].dir] \in Records /\ loc[c].rec \in Records
    BY <1>10 DEF AttemptBegin, Typed, Located, Locals
  <2>2. loc[c].key[1] \in Nat
    BY <1>10, Values DEF AttemptBegin, Typed, KeyRead
  <2>3. [rec[loc[c].dir] EXCEPT !.pending = 0] \in Records
    BY <2>1, Updates
  <2>4. [rec[loc[c].dir] EXCEPT !.attempt = loc[c].key[1], !.pending = 0] \in Records
    BY <2>1, <2>2, Updates
  <2> QED
    BY <1>10, <2>1, <2>3, <2>4 DEF AttemptBegin, Update
<1>11. ASSUME NEW c \in Checkers, AttemptEnd(c) PROVE rec' \in [Dirs -> Records]
  BY <1>11 DEF AttemptEnd, Env, vars, rvars
<1>12. ASSUME NEW c \in Checkers, AttemptRecord(c) PROVE rec' \in [Dirs -> Records]
  <2>1. loc[c].dir \in Dirs /\ rec[loc[c].dir] \in Records /\ loc[c].rec \in Records
    BY <1>12 DEF AttemptRecord, Typed, Located, Locals
  <2>2. loc[c].key \in Keys /\ NoKey \in Keys
    BY Values DEF Locals
  <2>3. \A key \in Keys : [Failed(rec[loc[c].dir], loc[c].rec) EXCEPT !.left = key] \in Records
    BY <2>1, FailedTyped
  <2>4. [rec[loc[c].dir] EXCEPT !.attempt = NoAttempt, !.failures = 0, !.backoff = FALSE,
                                !.left = NoKey, !.restarts = loc[c].rec.restarts + 1] \in Records
    <3>1. loc[c].rec.restarts + 1 \in Nat
      BY <2>1 DEF Records
    <3> QED
      BY <2>1, <3>1, Updates
  <2> QED
    BY <1>12, <2>1, <2>2, <2>3, <2>4 DEF AttemptRecord, Update
<1>13. ASSUME NEW c \in Checkers, Killed(c) PROVE rec' \in [Dirs -> Records]
  BY <1>13 DEF Killed, Env, vars, rvars
<1>14. ASSUME NEW p \in Operators, Command(p) PROVE rec' \in [Dirs -> Records]
  BY <1>14 DEF Command, Env, vars, rvars
<1>15. ASSUME NEW p \in Operators, HoldWrite(p) PROVE rec' \in [Dirs -> Records]
  BY <1>15 DEF HoldWrite, Env, vars, rvars
<1>16. ASSUME NEW p \in Operators, OpLock(p) PROVE rec' \in [Dirs -> Records]
  BY <1>16 DEF OpLock, Env, vars, rvars
<1>17. ASSUME NEW p \in Operators, OpSet(p) PROVE rec' \in [Dirs -> Records]
  <2>1. active \in Dirs /\ rec[active] \in Records
    BY DEF Typed, TypeOK
  <2>2. [rec[active] EXCEPT !.enabled = FALSE] \in Records
    BY <2>1, Updates
  <2>3. [rec[active] EXCEPT !.enabled = TRUE, !.failures = 0, !.stopped = FALSE,
                            !.restarts = 0, !.backoff = FALSE, !.pending = 0] \in Records
    BY <2>1, Updates
  <2> QED
    BY <1>17, <2>1, <2>2, <2>3 DEF OpSet, Update
<1>18. ASSUME NEW p \in Operators, OpForget(p) PROVE rec' \in [Dirs -> Records]
  <2>1. \A e \in Dirs : [rec[e] EXCEPT !.attempt = NoAttempt, !.left = NoKey, !.pending = 0] \in Records
    BY Updates
  <2> QED
    BY <1>18, <2>1 DEF OpForget
<1>19. ASSUME NEW p \in Operators, OpRecord(p) PROVE rec' \in [Dirs -> Records]
  BY <1>19 DEF OpRecord, Env, vars, rvars
<1>20. ASSUME NEW p \in Operators, OpStarted(p) PROVE rec' \in [Dirs -> Records]
  <2>1. loc[p].dir \in Dirs /\ rec[loc[p].dir] \in Records
    BY <1>20 DEF OpStarted, Typed, Located
  <2>2. [Fresh EXCEPT !.enabled = rec[loc[p].dir].enabled] \in Records
    BY <2>1, Values DEF Records
  <2> QED
    BY <1>20, <2>1, <2>2 DEF OpStarted
<1>21. ASSUME NEW p \in Procs, Operate(p) PROVE rec' \in [Dirs -> Records]
  BY <1>21 DEF Operate, Env, vars, rvars
<1>22. ASSUME NEW p \in Procs, OperateFail(p) PROVE rec' \in [Dirs -> Records]
  BY <1>22 DEF OperateFail, Env, vars, rvars
<1>23. ASSUME Trouble PROVE rec' \in [Dirs -> Records]
  BY <1>23 DEF Trouble, Env, vars, rvars
<1>24. ASSUME Repair PROVE rec' \in [Dirs -> Records]
  BY <1>24 DEF Repair, Env, vars, rvars
<1>25. ASSUME NEW d \in Dirs, Wait(d) PROVE rec' \in [Dirs -> Records]
  <2>1. [rec[d] EXCEPT !.backoff = FALSE, !.pending = IF @ = 0 THEN 0 ELSE 3] \in Records
    BY Updates
  <2> QED
    BY <1>25, <2>1 DEF Wait, Passed, Update
<1>26. ASSUME NEW d \in Dirs, Age(d) PROVE rec' \in [Dirs -> Records]
  <2>1. [rec[d] EXCEPT !.restarts = @ - 1] \in Records
    BY <1>26, Updates DEF Age
  <2> QED
    BY <1>26, <2>1 DEF Age, Update
<1>27. ASSUME Late PROVE rec' \in [Dirs -> Records]
  BY <1>27 DEF Late
<1>28. CASE UNCHANGED vars
  BY <1>28 DEF vars, rvars
<1> QED
  BY <1>1, <1>2, <1>3, <1>4, <1>5, <1>6, <1>7, <1>8, <1>9, <1>10, <1>11, <1>12, <1>13, <1>14, <1>15,
     <1>16, <1>17, <1>18, <1>19, <1>20, <1>21, <1>22, <1>23, <1>24, <1>25, <1>26, <1>27, <1>28 DEF Next, Alive, CheckStep, OperatorStep, Operators

\* Every process is at a step of its own program.
AtLabel == pc \in [Procs -> CheckLabels \cup OpLabels] /\ \A p \in Procs : pc[p] \in (IF p \in Checkers THEN CheckLabels ELSE OpLabels)

\* Labels, by actions.
LEMMA LabelStep ==
    ASSUME Typed, [Next]_vars
    PROVE  AtLabel'
<1>0. AtLabel
  BY DEF Typed, TypeOK, AtLabel
<1> USE <1>0, RecoveryAssumption DEF AtLabel, Operators, CheckLabels, OpLabels
<1>1. ASSUME NEW c \in Checkers, Check(c) PROVE AtLabel'
  BY <1>1 DEF Check, Goto, vars, rvars
<1>2. ASSUME NEW c \in Checkers, CheckOff(c) PROVE AtLabel'
  BY <1>2 DEF CheckOff, vars, rvars
<1>3. ASSUME NEW c \in Checkers, CheckBusy(c) PROVE AtLabel'
  BY <1>3 DEF CheckBusy, Goto, End, vars, rvars
<1>4. ASSUME NEW c \in Checkers, CheckState(c) PROVE AtLabel'
  BY <1>4 DEF CheckState, Goto, vars, rvars
<1>5. ASSUME NEW c \in Checkers, CheckInterrupted(c) PROVE AtLabel'
  BY <1>5 DEF CheckInterrupted, Goto, End, vars, rvars
<1>6. ASSUME NEW c \in Checkers, CheckObserve(c) PROVE AtLabel'
  BY <1>6 DEF CheckObserve, Goto, End, vars, rvars
<1>7. ASSUME NEW c \in Checkers, CheckDecide(c) PROVE AtLabel'
  BY <1>7 DEF CheckDecide, Goto, End, vars, rvars
<1>8. ASSUME NEW c \in Checkers, AttemptLock(c) PROVE AtLabel'
  BY <1>8 DEF AttemptLock, Goto, End, vars, rvars
<1>9. ASSUME NEW c \in Checkers, AttemptRecheck(c) PROVE AtLabel'
  BY <1>9 DEF AttemptRecheck, Goto, End, vars, rvars
<1>10. ASSUME NEW c \in Checkers, AttemptBegin(c) PROVE AtLabel'
  BY <1>10 DEF AttemptBegin, Goto, End, vars, rvars
<1>11. ASSUME NEW c \in Checkers, AttemptEnd(c) PROVE AtLabel'
  BY <1>11 DEF AttemptEnd, Goto, vars, rvars
<1>12. ASSUME NEW c \in Checkers, AttemptRecord(c) PROVE AtLabel'
  BY <1>12 DEF AttemptRecord, Goto, End, vars, rvars
<1>13. ASSUME NEW c \in Checkers, Killed(c) PROVE AtLabel'
  BY <1>13 DEF Killed, Goto, End, vars, rvars
<1>14. ASSUME NEW p \in Operators, Command(p) PROVE AtLabel'
  BY <1>14 DEF Command, Goto, vars, rvars
<1>15. ASSUME NEW p \in Operators, HoldWrite(p) PROVE AtLabel'
  BY <1>15 DEF HoldWrite, Goto, vars, rvars
<1>16. ASSUME NEW p \in Operators, OpLock(p) PROVE AtLabel'
  BY <1>16 DEF OpLock, Goto, End, vars, rvars
<1>17. ASSUME NEW p \in Operators, OpSet(p) PROVE AtLabel'
  BY <1>17 DEF OpSet, Goto, End, vars, rvars
<1>18. ASSUME NEW p \in Operators, OpForget(p) PROVE AtLabel'
  BY <1>18 DEF OpForget, Goto, vars, rvars
<1>19. ASSUME NEW p \in Operators, OpRecord(p) PROVE AtLabel'
  BY <1>19 DEF OpRecord, Goto, End, vars, rvars
<1>20. ASSUME NEW p \in Operators, OpStarted(p) PROVE AtLabel'
  BY <1>20 DEF OpStarted, Goto, End, vars, rvars
<1>21. ASSUME NEW p \in Procs, Operate(p) PROVE AtLabel'
  BY <1>21 DEF Operate, vars, rvars
<1>22. ASSUME NEW p \in Procs, OperateFail(p) PROVE AtLabel'
  BY <1>22 DEF OperateFail, vars, rvars
<1>23. ASSUME Trouble PROVE AtLabel'
  BY <1>23 DEF Trouble, vars, rvars
<1>24. ASSUME Repair PROVE AtLabel'
  BY <1>24 DEF Repair, vars, rvars
<1>25. ASSUME NEW d \in Dirs, Wait(d) PROVE AtLabel'
  BY <1>25 DEF Wait, vars, rvars
<1>26. ASSUME NEW d \in Dirs, Age(d) PROVE AtLabel'
  BY <1>26 DEF Age, vars, rvars
<1>27. ASSUME Late PROVE AtLabel'
  BY <1>27 DEF Late
<1>28. CASE UNCHANGED vars
  BY <1>28 DEF vars, rvars
<1> QED
  BY <1>1, <1>2, <1>3, <1>4, <1>5, <1>6, <1>7, <1>8, <1>9, <1>10, <1>11, <1>12, <1>13, <1>14, <1>15,
     <1>16, <1>17, <1>18, <1>19, <1>20, <1>21, <1>22, <1>23, <1>24, <1>25, <1>26, <1>27, <1>28 DEF Next, Alive, CheckStep, OperatorStep, Operators

\* The updates of what a process has read.
LEMMA Reads ==
    ASSUME NEW l \in Locals
    PROVE  /\ \A d \in Dirs, r \in Records : [l EXCEPT !.dir = d, !.rec = r] \in Locals
           /\ \A r \in Records : [l EXCEPT !.rec = r] \in Locals
           /\ \A key \in Keys : [l EXCEPT !.key = key] \in Locals
           /\ \A seen \in Findings \cup {""} : [l EXCEPT !.seen = seen] \in Locals
           /\ \A key \in Keys, seen \in Findings \cup {""} : [l EXCEPT !.key = key, !.seen = seen] \in Locals
           /\ \A b \in BOOLEAN : [l EXCEPT !.over = b] \in Locals
  BY DEF Locals

LEMMA Ages == ASSUME NEW l \in Locals, l.rec.restarts > 0 PROVE [l EXCEPT !.rec.restarts = @ - 1] \in Locals
<1>1. [l.rec EXCEPT !.restarts = @ - 1] \in Records
  BY Updates DEF Locals
<1> QED
  BY <1>1 DEF Locals

\* So do the backoffs and silences that have passed.
LEMMA Waits ==
    ASSUME Typed, NEW d \in Dirs, Wait(d)
    PROVE  /\ pc' = pc /\ loc' \in [Procs -> Locals]
           /\ \A p \in Procs : /\ loc'[p].dir = loc[p].dir /\ loc'[p].key = loc[p].key /\ loc'[p].seen = loc[p].seen
                              /\ loc'[p].over = loc[p].over /\ loc'[p].rec.failures = loc[p].rec.failures
                              /\ loc'[p].rec.attempt = loc[p].rec.attempt /\ loc'[p].rec.left = loc[p].rec.left
                              /\ loc'[p].rec.restarts = loc[p].rec.restarts
<1>0. loc \in [Procs -> Locals]
  BY DEF Typed, TypeOK
<1>1. ASSUME NEW l \in Locals
      PROVE  LET m == [l EXCEPT !.rec = Passed(@)]
             IN  /\ m \in Locals /\ m.dir = l.dir /\ m.key = l.key /\ m.seen = l.seen /\ m.over = l.over
                 /\ m.rec.failures = l.rec.failures /\ m.rec.attempt = l.rec.attempt /\ m.rec.left = l.rec.left
                 /\ m.rec.restarts = l.rec.restarts
  <2>1. l.rec \in Records /\ Passed(l.rec) \in Records
    BY Updates DEF Locals, Passed
  <2>2. /\ Passed(l.rec).failures = l.rec.failures /\ Passed(l.rec).attempt = l.rec.attempt
        /\ Passed(l.rec).left = l.rec.left /\ Passed(l.rec).restarts = l.rec.restarts
    BY <2>1 DEF Records, Passed
  <2> QED
    BY <2>1, <2>2 DEF Locals
<1>2. loc' = [p \in Procs |-> IF loc[p].dir = d THEN [loc[p] EXCEPT !.rec = Passed(@)] ELSE loc[p]] /\ pc' = pc
  BY DEF Wait
<1> QED
  BY <1>0, <1>1, <1>2

\* Locals, by actions.
LEMMA LocalStep ==
    ASSUME Typed, [Next]_vars
    PROVE  loc' \in [Procs -> Locals]
<1>0. rec \in [Dirs -> Records] /\ loc \in [Procs -> Locals] /\ active \in Dirs /\ Blank \in Locals
  BY Values DEF Typed, TypeOK
<1> USE <1>0, RecoveryAssumption DEF Operators
<1>1. ASSUME NEW c \in Checkers, Check(c) PROVE loc' \in [Procs -> Locals]
  <2>1. [loc[c] EXCEPT !.dir = active, !.rec = rec[active]] \in Locals
    BY Reads
  <2> QED
    BY <1>1, <2>1 DEF Check
<1>2. ASSUME NEW c \in Checkers, CheckOff(c) PROVE loc' \in [Procs -> Locals]
  BY <1>2 DEF CheckOff, vars, rvars
<1>3. ASSUME NEW c \in Checkers, CheckBusy(c) PROVE loc' \in [Procs -> Locals]
  BY <1>3 DEF CheckBusy, End, vars, rvars
<1>4. ASSUME NEW c \in Checkers, CheckState(c) PROVE loc' \in [Procs -> Locals]
  <2>1. [loc[c] EXCEPT !.key = Key(loc[c].dir)] \in Locals
    <3>1. Key(loc[c].dir) \in Keys
      BY <1>4, KeyTyped, Values DEF CheckState, Typed, Located
    <3> QED
      BY <3>1, Reads
  <2> QED
    BY <1>4, <2>1 DEF CheckState
<1>5. ASSUME NEW c \in Checkers, CheckInterrupted(c) PROVE loc' \in [Procs -> Locals]
  <2>1. loc[c].dir \in Dirs /\ rec[loc[c].dir] \in Records /\ loc[c].rec \in Records /\ loc[c].key \in Keys /\ NoKey \in Keys
    BY <1>5, Values DEF CheckInterrupted, Typed, Located, Locals
  <2>2. \A key \in Keys : [Failed(rec[loc[c].dir], loc[c].rec) EXCEPT !.left = key] \in Records
    BY <2>1, FailedTyped
  <2>3. \A r \in Records : [loc[c] EXCEPT !.rec = r] \in Locals
    BY Reads
  <2> QED
    BY <1>5, <2>1, <2>2, <2>3 DEF CheckInterrupted, End
<1>6. ASSUME NEW c \in Checkers, CheckObserve(c) PROVE loc' \in [Procs -> Locals]
  <2>1. pc[c] = "saved" => [loc[c] EXCEPT !.seen = Finding(loc[c].dir)] \in Locals
    <3>1. pc[c] = "saved" => Finding(loc[c].dir) \in Findings \cup {""}
      BY FindingTyped DEF Typed, Located
    <3> QED
      BY <3>1, Reads
  <2> QED
    BY <1>6, <2>1 DEF CheckObserve, End
<1>7. ASSUME NEW c \in Checkers, CheckDecide(c) PROVE loc' \in [Procs -> Locals]
  BY <1>7 DEF CheckDecide, End, vars, rvars
<1>8. ASSUME NEW c \in Checkers, AttemptLock(c) PROVE loc' \in [Procs -> Locals]
  <2>1. [loc[c] EXCEPT !.over = hold # None] \in Locals
    BY Reads
  <2> QED
    BY <1>8, <2>1 DEF AttemptLock, End
<1>9. ASSUME NEW c \in Checkers, AttemptRecheck(c) PROVE loc' \in [Procs -> Locals]
  <2>1. [loc[c] EXCEPT !.rec = rec[loc[c].dir]] \in Locals
    <3>1. loc[c].dir \in Dirs
      BY <1>9 DEF AttemptRecheck, Typed, Located
    <3> QED
      BY <3>1, Reads
  <2> QED
    BY <1>9, <2>1 DEF AttemptRecheck, End
<1>10. ASSUME NEW c \in Checkers, AttemptBegin(c) PROVE loc' \in [Procs -> Locals]
  BY <1>10 DEF AttemptBegin, End, vars, rvars
<1>11. ASSUME NEW c \in Checkers, AttemptEnd(c) PROVE loc' \in [Procs -> Locals]
  <2>1. Key(loc[c].dir) \in Keys
    BY <1>11, KeyTyped, Values DEF AttemptEnd, Typed, Located
  <2>2. \A seen \in Findings \cup {""} : [loc[c] EXCEPT !.key = Key(loc[c].dir), !.seen = seen] \in Locals
    BY <2>1, Reads
  <2>3. "serving" \in Findings \cup {""} /\ "" \in Findings \cup {""}
    BY DEF Findings
  <2> QED
    BY <1>11, <2>2, <2>3 DEF AttemptEnd
<1>12. ASSUME NEW c \in Checkers, AttemptRecord(c) PROVE loc' \in [Procs -> Locals]
  BY <1>12 DEF AttemptRecord, End, vars, rvars
<1>13. ASSUME NEW c \in Checkers, Killed(c) PROVE loc' \in [Procs -> Locals]
  BY <1>13 DEF Killed, End, vars, rvars
<1>14. ASSUME NEW p \in Operators, Command(p) PROVE loc' \in [Procs -> Locals]
  <2>1. \A d \in Dirs, cmd \in Commands, over \in BOOLEAN : [Blank EXCEPT !.dir = d, !.cmd = cmd, !.over = over] \in Locals
    <3>1. \A l \in Locals : \A d \in Dirs, cmd \in Commands, over \in BOOLEAN : [l EXCEPT !.dir = d, !.cmd = cmd, !.over = over] \in Locals
      BY DEF Locals
    <3> QED
      BY <3>1
  <2>2. PICK cmd \in Commands, d \in Dirs, over \in BOOLEAN :
           loc' = [loc EXCEPT ![p] = [Blank EXCEPT !.dir = d, !.cmd = cmd, !.over = over]]
    BY <1>14 DEF Command
  <2> QED
    BY <2>1, <2>2
<1>15. ASSUME NEW p \in Operators, HoldWrite(p) PROVE loc' \in [Procs -> Locals]
  <2>1. \A q \in Procs : [loc[q] EXCEPT !.over = @ /\ hold' # None] \in Locals
    <3>1. \A q \in Procs : (loc[q].over /\ hold' # None) \in BOOLEAN
      OBVIOUS
    <3> QED
      BY <3>1, Reads
  <2> QED
    BY <1>15, <2>1 DEF HoldWrite
<1>16. ASSUME NEW p \in Operators, OpLock(p) PROVE loc' \in [Procs -> Locals]
  BY <1>16 DEF OpLock, End, vars, rvars
<1>17. ASSUME NEW p \in Operators, OpSet(p) PROVE loc' \in [Procs -> Locals]
  BY <1>17 DEF OpSet, End, vars, rvars
<1>18. ASSUME NEW p \in Operators, OpForget(p) PROVE loc' \in [Procs -> Locals]
  BY <1>18 DEF OpForget, vars, rvars
<1>19. ASSUME NEW p \in Operators, OpRecord(p) PROVE loc' \in [Procs -> Locals]
  BY <1>19 DEF OpRecord, End, vars, rvars
<1>20. ASSUME NEW p \in Operators, OpStarted(p) PROVE loc' \in [Procs -> Locals]
  BY <1>20 DEF OpStarted, End, vars, rvars
<1>21. ASSUME NEW p \in Procs, Operate(p) PROVE loc' \in [Procs -> Locals]
  BY <1>21 DEF Operate, vars, rvars
<1>22. ASSUME NEW p \in Procs, OperateFail(p) PROVE loc' \in [Procs -> Locals]
  BY <1>22 DEF OperateFail, vars, rvars
<1>23. ASSUME Trouble PROVE loc' \in [Procs -> Locals]
  BY <1>23 DEF Trouble, vars, rvars
<1>24. ASSUME Repair PROVE loc' \in [Procs -> Locals]
  BY <1>24 DEF Repair, vars, rvars
<1>25. ASSUME NEW d \in Dirs, Wait(d) PROVE loc' \in [Procs -> Locals]
  BY <1>25, Waits
<1>26. ASSUME NEW d \in Dirs, Age(d) PROVE loc' \in [Procs -> Locals]
  <2>1. \A q \in Procs : loc[q].rec.restarts > 0 => [loc[q] EXCEPT !.rec.restarts = @ - 1] \in Locals
    BY Ages
  <2> QED
    BY <1>26, <2>1 DEF Age
<1>27. ASSUME Late PROVE loc' \in [Procs -> Locals]
  BY <1>27 DEF Late
<1>28. CASE UNCHANGED vars
  BY <1>28 DEF vars, rvars
<1> QED
  BY <1>1, <1>2, <1>3, <1>4, <1>5, <1>6, <1>7, <1>8, <1>9, <1>10, <1>11, <1>12, <1>13, <1>14, <1>15,
     <1>16, <1>17, <1>18, <1>19, <1>20, <1>21, <1>22, <1>23, <1>24, <1>25, <1>26, <1>27, <1>28 DEF Next, Alive, CheckStep, OperatorStep, Operators

\* The remaining variables have their types.
RestTyped ==
    /\ AdmissionTypeOK /\ gen \in [Dirs -> Nat] /\ sick \in [Dirs -> {"no", "dead", "silent", "mesh"}]
    /\ net \in {"ok", "unreachable", "manual", "hairpin"} /\ active \in Dirs
    /\ hold \in Operators \cup {None} /\ budget \in 0..MaxCommands /\ owner \in [Dirs -> Procs \cup {None}]
    /\ tries \in [Dirs -> Nat] /\ restarted \in [Dirs -> Nat] /\ unrecorded \in [Dirs -> Nat]
    /\ crossed \in [Dirs -> BOOLEAN]

\* The remaining variables, by actions.
LEMMA RestStep ==
    ASSUME Typed, [Next]_vars
    PROVE  RestTyped'
<1>0. RestTyped /\ TypeOK
  BY DEF Typed, TypeOK, RestTyped
<1>00. DirSlot \in [Dirs -> Placements] /\ \A q \in Procs : pc[q] # "idle" => loc[q].dir \in Dirs
  BY DeploymentsAssumption DEF Typed, Located
<1> USE <1>0, <1>00, RecoveryAssumption DEF RestTyped, AdmissionTypeOK, Operators
<1>1. ASSUME NEW c \in Checkers, Check(c) PROVE RestTyped'
  BY <1>1 DEF Check, Env, OpEnv, History, Counts, vars, rvars
<1>2. ASSUME NEW c \in Checkers, CheckOff(c) PROVE RestTyped'
  BY <1>2 DEF CheckOff, Env, OpEnv, History, Counts, vars, rvars
<1>3. ASSUME NEW c \in Checkers, CheckBusy(c) PROVE RestTyped'
  BY <1>3 DEF CheckBusy, Env, OpEnv, History, Counts, vars, rvars
<1>4. ASSUME NEW c \in Checkers, CheckState(c) PROVE RestTyped'
  BY <1>4 DEF CheckState, Env, OpEnv, History, Counts, vars, rvars
<1>5. ASSUME NEW c \in Checkers, CheckInterrupted(c) PROVE RestTyped'
  BY <1>5 DEF CheckInterrupted, Env, OpEnv, History, Counts, vars, rvars
<1>6. ASSUME NEW c \in Checkers, CheckObserve(c) PROVE RestTyped'
  BY <1>6 DEF CheckObserve, Env, OpEnv, History, Counts, vars, rvars
<1>7. ASSUME NEW c \in Checkers, CheckDecide(c) PROVE RestTyped'
  BY <1>7 DEF CheckDecide, Env, OpEnv, History, Counts, vars, rvars
<1>8. ASSUME NEW c \in Checkers, AttemptLock(c) PROVE RestTyped'
  BY <1>8 DEF AttemptLock, Grant, Env, OpEnv, History, Counts, vars, rvars
<1>9. ASSUME NEW c \in Checkers, AttemptRecheck(c) PROVE RestTyped'
  BY <1>9 DEF AttemptRecheck, Release, Env, OpEnv, History, Counts, vars, rvars
<1>10. ASSUME NEW c \in Checkers, AttemptBegin(c) PROVE RestTyped'
  BY <1>10 DEF AttemptBegin, Release, Env, OpEnv, History, Counts, vars, rvars
<1>11. ASSUME NEW c \in Checkers, AttemptEnd(c) PROVE RestTyped'
  BY <1>11 DEF AttemptEnd, Release, Env, OpEnv, History, Counts, vars, rvars
<1>12. ASSUME NEW c \in Checkers, AttemptRecord(c) PROVE RestTyped'
  BY <1>12 DEF AttemptRecord, Env, OpEnv, History, Counts, vars, rvars
<1>13. ASSUME NEW c \in Checkers, Killed(c) PROVE RestTyped'
  BY <1>13, EffectsTyped DEF Killed
<1>14. ASSUME NEW p \in Operators, Command(p) PROVE RestTyped'
  BY <1>14 DEF Command, Env, OpEnv, History, Counts, vars, rvars
<1>15. ASSUME NEW p \in Operators, HoldWrite(p) PROVE RestTyped'
  BY <1>15 DEF HoldWrite, Env, OpEnv, History, Counts, vars, rvars
<1>16. ASSUME NEW p \in Operators, OpLock(p) PROVE RestTyped'
  BY <1>16 DEF OpLock, Grant, Env, OpEnv, History, Counts, vars, rvars
<1>17. ASSUME NEW p \in Operators, OpSet(p) PROVE RestTyped'
  BY <1>17 DEF OpSet, Release, Env, OpEnv, History, Counts, vars, rvars
<1>18. ASSUME NEW p \in Operators, OpForget(p) PROVE RestTyped'
  <2>1. \A e \in Dirs : tries[e] > 0 => tries[e] - 1 \in Nat
    OBVIOUS
  <2>2. tries' \in [Dirs -> Nat]
    BY <1>18, <2>1 DEF OpForget
  <2>3. crossed' \in [Dirs -> BOOLEAN]
    <3>1. \A e \in Dirs : (\E c \in Checkers : Carries(c, e)) \in BOOLEAN
      OBVIOUS
    <3> QED
      BY <1>18, <3>1, Zenon DEF OpForget
  <2> QED
    BY <1>18, <2>2, <2>3 DEF OpForget, OpEnv, Counts
<1>19. ASSUME NEW p \in Operators, OpRecord(p) PROVE RestTyped'
  BY <1>19 DEF OpRecord, Release, Env, OpEnv, History, Counts, vars, rvars
<1>20. ASSUME NEW p \in Operators, OpStarted(p) PROVE RestTyped'
  BY <1>20 DEF OpStarted, Release, Env, OpEnv, History, Counts, vars, rvars
<1>21. ASSUME NEW p \in Procs, Operate(p) PROVE RestTyped'
  BY <1>21, EffectsTyped DEF Operate
<1>22. ASSUME NEW p \in Procs, OperateFail(p) PROVE RestTyped'
  BY <1>22, EffectsTyped DEF OperateFail, Counts
<1>23. ASSUME Trouble PROVE RestTyped'
  <2>1. CASE Effects /\ UNCHANGED <<granted, net, active, hold, budget, tries, Counts, crossed>>
    BY <2>1, EffectsTyped DEF Counts
  <2>2. CASE UNCHANGED <<granted, gen, active, hold, budget, owner, tries, Counts, crossed>>
    BY <1>23, <2>2, EffectsTyped DEF Trouble, Counts
  <2> QED
    BY <1>23, <2>1, <2>2 DEF Trouble, History, Counts
<1>24. ASSUME Repair PROVE RestTyped'
  BY <1>24 DEF Repair, Env, OpEnv, History, Counts, vars, rvars
<1>25. ASSUME NEW d \in Dirs, Wait(d) PROVE RestTyped'
  BY <1>25 DEF Wait, Env, OpEnv, History, Counts, vars, rvars
<1>26. ASSUME NEW d \in Dirs, Age(d) PROVE RestTyped'
  BY <1>26 DEF Age, Env, OpEnv, History, Counts, vars, rvars
<1>27. ASSUME Late PROVE RestTyped'
  BY <1>27, EffectsTyped DEF Late, Counts
<1>28. CASE UNCHANGED vars
  BY <1>28 DEF vars, rvars
<1> QED
  BY <1>1, <1>2, <1>3, <1>4, <1>5, <1>6, <1>7, <1>8, <1>9, <1>10, <1>11, <1>12, <1>13, <1>14, <1>15,
     <1>16, <1>17, <1>18, <1>19, <1>20, <1>21, <1>22, <1>23, <1>24, <1>25, <1>26, <1>27, <1>28 DEF Next, Alive, CheckStep, OperatorStep, Operators

\* Every process knows its deployment and its key, by actions.
LEMMA LocatedStep ==
    ASSUME Typed, [Next]_vars, NEW q \in Procs
    PROVE  Located(q)' /\ KeyRead(q)'
<1>0. /\ loc \in [Procs -> Locals] /\ pc \in [Procs -> CheckLabels \cup OpLabels] /\ active \in Dirs
      /\ Located(q) /\ KeyRead(q) /\ \A d \in Dirs : Key(d) \in FullKeys
  BY KeyTyped DEF Typed, TypeOK
<1> USE <1>0, RecoveryAssumption DEF Located, KeyRead, Locals, Operators
<1>1. ASSUME NEW c \in Checkers, Check(c) PROVE Located(q)' /\ KeyRead(q)'
  BY <1>1 DEF Check, Goto, vars, rvars
<1>2. ASSUME NEW c \in Checkers, CheckOff(c) PROVE Located(q)' /\ KeyRead(q)'
  BY <1>2 DEF CheckOff, vars, rvars
<1>3. ASSUME NEW c \in Checkers, CheckBusy(c) PROVE Located(q)' /\ KeyRead(q)'
  BY <1>3 DEF CheckBusy, Goto, End, vars, rvars
<1>4. ASSUME NEW c \in Checkers, CheckState(c) PROVE Located(q)' /\ KeyRead(q)'
  BY <1>4 DEF CheckState, Goto, vars, rvars
<1>5. ASSUME NEW c \in Checkers, CheckInterrupted(c) PROVE Located(q)' /\ KeyRead(q)'
  <2>1. CASE pc' = [pc EXCEPT ![c] = "idle"] /\ loc' = [loc EXCEPT ![c] = Blank]
    BY <2>1
  <2>2. ASSUME NEW x, NEW label, loc' = [loc EXCEPT ![c].rec = x], pc' = [pc EXCEPT ![c] = label]
        PROVE  Located(q)' /\ KeyRead(q)'
    <3>1. loc'[q].dir = loc[q].dir /\ loc'[q].key = loc[q].key
      BY <2>2
    <3> QED
      BY <1>5, <2>2, <3>1 DEF CheckInterrupted
  <2> QED
    BY <1>5, <2>1, <2>2, Zenon DEF CheckInterrupted, Goto, End
<1>6. ASSUME NEW c \in Checkers, CheckObserve(c) PROVE Located(q)' /\ KeyRead(q)'
  <2>1. CASE pc' = [pc EXCEPT ![c] = "idle"] /\ loc' = [loc EXCEPT ![c] = Blank]
    BY <2>1
  <2>2. ASSUME NEW x, NEW label, loc' = [loc EXCEPT ![c].seen = x], pc' = [pc EXCEPT ![c] = label]
        PROVE  Located(q)' /\ KeyRead(q)'
    <3>1. loc'[q].dir = loc[q].dir /\ loc'[q].key = loc[q].key
      BY <2>2
    <3> QED
      BY <1>6, <2>2, <3>1 DEF CheckObserve
  <2> QED
    BY <1>6, <2>1, <2>2, Zenon DEF CheckObserve, Goto, End
<1>7. ASSUME NEW c \in Checkers, CheckDecide(c) PROVE Located(q)' /\ KeyRead(q)'
  BY <1>7 DEF CheckDecide, Goto, End, vars, rvars
<1>8. ASSUME NEW c \in Checkers, AttemptLock(c) PROVE Located(q)' /\ KeyRead(q)'
  <2>1. CASE pc' = [pc EXCEPT ![c] = "idle"] /\ loc' = [loc EXCEPT ![c] = Blank]
    BY <2>1
  <2>2. ASSUME NEW x, NEW label, loc' = [loc EXCEPT ![c].over = x], pc' = [pc EXCEPT ![c] = label]
        PROVE  Located(q)' /\ KeyRead(q)'
    <3>1. loc'[q].dir = loc[q].dir /\ loc'[q].key = loc[q].key
      BY <2>2
    <3> QED
      BY <1>8, <2>2, <3>1 DEF AttemptLock
  <2> QED
    BY <1>8, <2>1, <2>2, Zenon DEF AttemptLock, Goto, End
<1>9. ASSUME NEW c \in Checkers, AttemptRecheck(c) PROVE Located(q)' /\ KeyRead(q)'
  <2>1. CASE pc' = [pc EXCEPT ![c] = "idle"] /\ loc' = [loc EXCEPT ![c] = Blank]
    BY <2>1
  <2>2. ASSUME NEW x, NEW label, loc' = [loc EXCEPT ![c].rec = x], pc' = [pc EXCEPT ![c] = label]
        PROVE  Located(q)' /\ KeyRead(q)'
    <3>1. loc'[q].dir = loc[q].dir /\ loc'[q].key = loc[q].key
      BY <2>2
    <3> QED
      BY <1>9, <2>2, <3>1 DEF AttemptRecheck
  <2> QED
    BY <1>9, <2>1, <2>2, Zenon DEF AttemptRecheck, Goto, End
<1>10. ASSUME NEW c \in Checkers, AttemptBegin(c) PROVE Located(q)' /\ KeyRead(q)'
  BY <1>10 DEF AttemptBegin, Goto, End, vars, rvars
<1>11. ASSUME NEW c \in Checkers, AttemptEnd(c) PROVE Located(q)' /\ KeyRead(q)'
  BY <1>11 DEF AttemptEnd, Goto, vars, rvars
<1>12. ASSUME NEW c \in Checkers, AttemptRecord(c) PROVE Located(q)' /\ KeyRead(q)'
  BY <1>12 DEF AttemptRecord, Goto, End, vars, rvars
<1>13. ASSUME NEW c \in Checkers, Killed(c) PROVE Located(q)' /\ KeyRead(q)'
  BY <1>13 DEF Killed, Goto, End, vars, rvars
<1>14. ASSUME NEW p \in Operators, Command(p) PROVE Located(q)' /\ KeyRead(q)'
  <2>1. PICK cmd \in Commands, d \in Dirs, over \in BOOLEAN :
           loc' = [loc EXCEPT ![p] = [Blank EXCEPT !.dir = d, !.cmd = cmd, !.over = over]]
    BY <1>14 DEF Command
  <2>2. pc'[p] \in {"holding", "asked"} /\ \A x \in Procs \ {p} : pc'[x] = pc[x] /\ loc'[x] = loc[x]
    BY <1>14, <2>1 DEF Command, Goto
  <2>3. loc'[p].dir = d
    BY <2>1 DEF Blank
  <2> QED
    BY <2>2, <2>3
<1>15. ASSUME NEW p \in Operators, HoldWrite(p) PROVE Located(q)' /\ KeyRead(q)'
  BY <1>15 DEF HoldWrite, Goto, vars, rvars
<1>16. ASSUME NEW p \in Operators, OpLock(p) PROVE Located(q)' /\ KeyRead(q)'
  BY <1>16 DEF OpLock, Goto, End, vars, rvars
<1>17. ASSUME NEW p \in Operators, OpSet(p) PROVE Located(q)' /\ KeyRead(q)'
  BY <1>17 DEF OpSet, Goto, End, vars, rvars
<1>18. ASSUME NEW p \in Operators, OpForget(p) PROVE Located(q)' /\ KeyRead(q)'
  BY <1>18 DEF OpForget, Goto, vars, rvars
<1>19. ASSUME NEW p \in Operators, OpRecord(p) PROVE Located(q)' /\ KeyRead(q)'
  BY <1>19 DEF OpRecord, Goto, End, vars, rvars
<1>20. ASSUME NEW p \in Operators, OpStarted(p) PROVE Located(q)' /\ KeyRead(q)'
  BY <1>20 DEF OpStarted, Goto, End, vars, rvars
<1>21. ASSUME NEW p \in Procs, Operate(p) PROVE Located(q)' /\ KeyRead(q)'
  BY <1>21 DEF Operate, vars, rvars
<1>22. ASSUME NEW p \in Procs, OperateFail(p) PROVE Located(q)' /\ KeyRead(q)'
  BY <1>22 DEF OperateFail, vars, rvars
<1>23. ASSUME Trouble PROVE Located(q)' /\ KeyRead(q)'
  BY <1>23 DEF Trouble, vars, rvars
<1>24. ASSUME Repair PROVE Located(q)' /\ KeyRead(q)'
  BY <1>24 DEF Repair, vars, rvars
<1>25. ASSUME NEW d \in Dirs, Wait(d) PROVE Located(q)' /\ KeyRead(q)'
  BY <1>25, Waits
<1>26. ASSUME NEW d \in Dirs, Age(d) PROVE Located(q)' /\ KeyRead(q)'
  BY <1>26 DEF Age, vars, rvars
<1>27. ASSUME Late PROVE Located(q)' /\ KeyRead(q)'
  BY <1>27 DEF Late
<1>28. CASE UNCHANGED vars
  BY <1>28 DEF vars, rvars
<1> QED
  BY <1>1, <1>2, <1>3, <1>4, <1>5, <1>6, <1>7, <1>8, <1>9, <1>10, <1>11, <1>12, <1>13, <1>14, <1>15,
     <1>16, <1>17, <1>18, <1>19, <1>20, <1>21, <1>22, <1>23, <1>24, <1>25, <1>26, <1>27, <1>28 DEF Next, Alive, CheckStep, OperatorStep, Operators

\* Every step keeps the types.
LEMMA TypedStep == Typed /\ [Next]_vars => Typed'
<1> SUFFICES ASSUME Typed, [Next]_vars PROVE Typed'
  OBVIOUS
<1>1. DeploymentsOK' /\ rec' \in [Dirs -> Records] /\ AtLabel' /\ loc' \in [Procs -> Locals] /\ RestTyped'
  BY DeploymentsStep, RecordStep, LabelStep, LocalStep, RestStep
<1>2. \A q \in Procs : Located(q)' /\ KeyRead(q)'
  BY LocatedStep
<1> QED
  BY <1>1, <1>2 DEF Typed, TypeOK, DeploymentsOK, AtLabel, RestTyped

\* Every variable keeps its type in every behaviour: recovery.json holds records, and what a
\* process has read of them stays a record.
THEOREM TypeCorrect == Spec => []TypeOK
<1>1. Spec => []Typed
  BY InitTyped, TypedStep, PTL DEF Spec
<1>2. Typed => TypeOK
  BY DEF Typed
<1> QED
  BY <1>1, <1>2, PTL

-----------------------------------------------------------------------------
(* The slice locks around an attempt and a command.                        *)

HoldingLabels == {"locked", "rechecked", "acting", "oplocked", "operating", "started"}

\* A process past its lock step holds the placement of its deployment, and no other does.
Holds(p) == /\ pc[p] \in HoldingLabels => granted[p] = DirSlot[loc[p].dir]
            /\ pc[p] \notin HoldingLabels => granted[p] = NoGrant

\* Only a process that acts under the locks is inside a call of apply.
Engaged(p) == stage[p] # "none" => pc[p] \in {"acting", "operating"}

\* The deployments share the slot: one process at a time.
Alone == \A p, q \in Procs : granted[p] # NoGrant /\ granted[q] # NoGrant => p = q

Locked == (\A p \in Procs : Holds(p) /\ Engaged(p)) /\ Alone

\* The locks are taken and given back with the labels, by actions.
LEMMA HoldsStep ==
    ASSUME Typed, [Next]_vars, NEW q \in Procs, Holds(q)
    PROVE  Holds(q)'
<1>0. /\ loc \in [Procs -> Locals] /\ pc \in [Procs -> CheckLabels \cup OpLabels]
      /\ granted \in [Procs -> {NoGrant} \cup Placements] /\ Holds(q)
  BY DEF Typed, TypeOK, AdmissionTypeOK
<1> USE <1>0, RecoveryAssumption DEF Holds, HoldingLabels, Locals, Operators
<1>1. ASSUME NEW c \in Checkers, Check(c) PROVE Holds(q)'
  BY <1>1 DEF Check, Goto, vars, rvars
<1>2. ASSUME NEW c \in Checkers, CheckOff(c) PROVE Holds(q)'
  BY <1>2 DEF CheckOff, vars, rvars
<1>3. ASSUME NEW c \in Checkers, CheckBusy(c) PROVE Holds(q)'
  BY <1>3 DEF CheckBusy, Goto, End, vars, rvars
<1>4. ASSUME NEW c \in Checkers, CheckState(c) PROVE Holds(q)'
  BY <1>4 DEF CheckState, Goto, vars, rvars
<1>5. ASSUME NEW c \in Checkers, CheckInterrupted(c) PROVE Holds(q)'
  <2>1. UNCHANGED granted /\ \E label \in {"idle", "saved"} : pc' = [pc EXCEPT ![c] = label]
    BY <1>5 DEF CheckInterrupted, Goto, End
  <2>2. pc[c] = "interrupted" /\ \A x \in Procs \ {c} : loc'[x] = loc[x]
    BY <1>5 DEF CheckInterrupted, End
  <2> QED
    BY <2>1, <2>2
<1>6. ASSUME NEW c \in Checkers, CheckObserve(c) PROVE Holds(q)'
  BY <1>6 DEF CheckObserve, Goto, End, vars, rvars
<1>7. ASSUME NEW c \in Checkers, CheckDecide(c) PROVE Holds(q)'
  BY <1>7 DEF CheckDecide, Goto, End, vars, rvars
<1>8. ASSUME NEW c \in Checkers, AttemptLock(c) PROVE Holds(q)'
  <2>1. CASE pc' = [pc EXCEPT ![c] = "idle"] /\ loc' = [loc EXCEPT ![c] = Blank] /\ UNCHANGED granted
    BY <1>8, <2>1 DEF AttemptLock
  <2>2. CASE /\ pc' = [pc EXCEPT ![c] = "locked"] /\ granted' = [granted EXCEPT ![c] = DirSlot[loc[c].dir]]
             /\ loc' = [loc EXCEPT ![c].over = hold # None]
    <3>1. \A x \in Procs : loc'[x].dir = loc[x].dir
      BY <2>2
    <3> QED
      BY <2>2, <3>1
  <2> QED
    BY <1>8, <2>1, <2>2 DEF AttemptLock, Goto, End, Grant
<1>9. ASSUME NEW c \in Checkers, AttemptRecheck(c) PROVE Holds(q)'
  <2>1. CASE pc' = [pc EXCEPT ![c] = "idle"] /\ loc' = [loc EXCEPT ![c] = Blank] /\ Release(c)
    BY <2>1 DEF Release
  <2>2. CASE pc' = [pc EXCEPT ![c] = "rechecked"] /\ UNCHANGED granted /\ loc' = [loc EXCEPT ![c].rec = rec[loc[c].dir]]
    <3>1. \A x \in Procs : loc'[x].dir = loc[x].dir
      BY <2>2
    <3> QED
      BY <1>9, <2>2, <3>1 DEF AttemptRecheck
  <2> QED
    BY <1>9, <2>1, <2>2, Zenon DEF AttemptRecheck, Goto, End
<1>10. ASSUME NEW c \in Checkers, AttemptBegin(c) PROVE Holds(q)'
  BY <1>10 DEF AttemptBegin, Goto, End, Release, vars, rvars
<1>11. ASSUME NEW c \in Checkers, AttemptEnd(c) PROVE Holds(q)'
  BY <1>11 DEF AttemptEnd, Goto, Release, vars, rvars
<1>12. ASSUME NEW c \in Checkers, AttemptRecord(c) PROVE Holds(q)'
  BY <1>12 DEF AttemptRecord, Goto, End, vars, rvars
<1>13. ASSUME NEW c \in Checkers, Killed(c) PROVE Holds(q)'
  BY <1>13 DEF Killed, Goto, End, vars, rvars
<1>14. ASSUME NEW p \in Operators, Command(p) PROVE Holds(q)'
  BY <1>14 DEF Command, Goto, vars, rvars
<1>15. ASSUME NEW p \in Operators, HoldWrite(p) PROVE Holds(q)'
  BY <1>15 DEF HoldWrite, Goto, vars, rvars
<1>16. ASSUME NEW p \in Operators, OpLock(p) PROVE Holds(q)'
  <2>1. CASE pc' = [pc EXCEPT ![p] = "idle"] /\ loc' = [loc EXCEPT ![p] = Blank] /\ UNCHANGED granted
    BY <1>16, <2>1 DEF OpLock
  <2>2. CASE pc' = [pc EXCEPT ![p] = "oplocked"] /\ granted' = [granted EXCEPT ![p] = DirSlot[loc[p].dir]]
    <3>1. \A x \in Procs : loc'[x].dir = loc[x].dir
      BY <1>16, <2>2 DEF OpLock, Goto, End
    <3> QED
      BY <2>2, <3>1
  <2> QED
    BY <1>16, <2>1, <2>2 DEF OpLock, Goto, End, Grant
<1>17. ASSUME NEW p \in Operators, OpSet(p) PROVE Holds(q)'
  BY <1>17 DEF OpSet, Goto, End, Release, vars, rvars
<1>18. ASSUME NEW p \in Operators, OpForget(p) PROVE Holds(q)'
  BY <1>18 DEF OpForget, Goto, vars, rvars
<1>19. ASSUME NEW p \in Operators, OpRecord(p) PROVE Holds(q)'
  BY <1>19 DEF OpRecord, Goto, End, Release, vars, rvars
<1>20. ASSUME NEW p \in Operators, OpStarted(p) PROVE Holds(q)'
  BY <1>20 DEF OpStarted, Goto, End, Release, vars, rvars
<1>21. ASSUME NEW p \in Procs, Operate(p) PROVE Holds(q)'
  BY <1>21 DEF Operate, vars, rvars
<1>22. ASSUME NEW p \in Procs, OperateFail(p) PROVE Holds(q)'
  BY <1>22 DEF OperateFail, vars, rvars
<1>23. ASSUME Trouble PROVE Holds(q)'
  BY <1>23 DEF Trouble, vars, rvars
<1>24. ASSUME Repair PROVE Holds(q)'
  BY <1>24 DEF Repair, vars, rvars
<1>25. ASSUME NEW d \in Dirs, Wait(d) PROVE Holds(q)'
  BY <1>25, Waits DEF Wait
<1>26. ASSUME NEW d \in Dirs, Age(d) PROVE Holds(q)'
  BY <1>26 DEF Age, vars, rvars
<1>27. ASSUME Late PROVE Holds(q)'
  BY <1>27 DEF Late
<1>28. CASE UNCHANGED vars
  BY <1>28 DEF vars, rvars
<1> QED
  BY <1>1, <1>2, <1>3, <1>4, <1>5, <1>6, <1>7, <1>8, <1>9, <1>10, <1>11, <1>12, <1>13, <1>14, <1>15,
     <1>16, <1>17, <1>18, <1>19, <1>20, <1>21, <1>22, <1>23, <1>24, <1>25, <1>26, <1>27, <1>28 DEF Next, Alive, CheckStep, OperatorStep, Operators

\* No call outlives the labels of its locks, by actions.
LEMMA EngagedStep ==
    ASSUME Typed, [Next]_vars, NEW q \in Procs, Engaged(q)
    PROVE  Engaged(q)'
<1>0. /\ pc \in [Procs -> CheckLabels \cup OpLabels] /\ Engaged(q) /\ DeploymentsOK /\ Working(q)
      /\ work \in [Procs -> Seq(Dirs \X Actions)]
  BY DEF Typed, TypeOK, DeploymentsOK, DeploymentsTypeOK
<1> USE <1>0, RecoveryAssumption DEF Engaged, Operators
<1>1. ASSUME NEW c \in Checkers, Check(c) PROVE Engaged(q)'
  BY <1>1 DEF Check, Goto, End, dvars, vars, rvars
<1>2. ASSUME NEW c \in Checkers, CheckOff(c) PROVE Engaged(q)'
  BY <1>2 DEF CheckOff, Goto, End, dvars, vars, rvars
<1>3. ASSUME NEW c \in Checkers, CheckBusy(c) PROVE Engaged(q)'
  BY <1>3 DEF CheckBusy, Goto, End, dvars, vars, rvars
<1>4. ASSUME NEW c \in Checkers, CheckState(c) PROVE Engaged(q)'
  BY <1>4 DEF CheckState, Goto, End, dvars, vars, rvars
<1>5. ASSUME NEW c \in Checkers, CheckInterrupted(c) PROVE Engaged(q)'
  BY <1>5 DEF CheckInterrupted, Goto, End, dvars, vars, rvars
<1>6. ASSUME NEW c \in Checkers, CheckObserve(c) PROVE Engaged(q)'
  BY <1>6 DEF CheckObserve, Goto, End, dvars, vars, rvars
<1>7. ASSUME NEW c \in Checkers, CheckDecide(c) PROVE Engaged(q)'
  BY <1>7 DEF CheckDecide, Goto, End, dvars, vars, rvars
<1>8. ASSUME NEW c \in Checkers, AttemptLock(c) PROVE Engaged(q)'
  BY <1>8 DEF AttemptLock, Goto, End, dvars, vars, rvars
<1>9. ASSUME NEW c \in Checkers, AttemptRecheck(c) PROVE Engaged(q)'
  BY <1>9 DEF AttemptRecheck, Goto, End, dvars, vars, rvars
<1>10. ASSUME NEW c \in Checkers, AttemptBegin(c) PROVE Engaged(q)'
  BY <1>10 DEF AttemptBegin, Goto, End, dvars, vars, rvars
<1>11. ASSUME NEW c \in Checkers, AttemptEnd(c) PROVE Engaged(q)'
  BY <1>11 DEF AttemptEnd, Goto, End, dvars, Working
<1>12. ASSUME NEW c \in Checkers, AttemptRecord(c) PROVE Engaged(q)'
  BY <1>12 DEF AttemptRecord, Goto, End, dvars, vars, rvars
<1>13. ASSUME NEW c \in Checkers, Killed(c) PROVE Engaged(q)'
  <2>1. OnlyWork(c) /\ stage'[c] = "none"
    BY <1>13, ApplyKilledTyped DEF Killed
  <2> QED
    BY <1>13, <2>1 DEF Killed, Goto, End, OnlyWork
<1>14. ASSUME NEW p \in Operators, Command(p) PROVE Engaged(q)'
  BY <1>14 DEF Command, Goto, End, dvars, vars, rvars
<1>15. ASSUME NEW p \in Operators, HoldWrite(p) PROVE Engaged(q)'
  BY <1>15 DEF HoldWrite, Goto, End, dvars, vars, rvars
<1>16. ASSUME NEW p \in Operators, OpLock(p) PROVE Engaged(q)'
  BY <1>16 DEF OpLock, Goto, End, dvars, vars, rvars
<1>17. ASSUME NEW p \in Operators, OpSet(p) PROVE Engaged(q)'
  BY <1>17 DEF OpSet, Goto, End, dvars, vars, rvars
<1>18. ASSUME NEW p \in Operators, OpForget(p) PROVE Engaged(q)'
  BY <1>18 DEF OpForget, Goto, End, dvars, vars, rvars
<1>19. ASSUME NEW p \in Operators, OpRecord(p) PROVE Engaged(q)'
  BY <1>19 DEF OpRecord, Goto, End, dvars, Working
<1>20. ASSUME NEW p \in Operators, OpStarted(p) PROVE Engaged(q)'
  BY <1>20 DEF OpStarted, Goto, End, dvars, vars, rvars
<1>21. ASSUME NEW p \in Procs, Operate(p) PROVE Engaged(q)'
  BY <1>21, ApplyTyped DEF Operate, OnlyWork
<1>22. ASSUME NEW p \in Procs, OperateFail(p) PROVE Engaged(q)'
  BY <1>22, ApplyFailTyped DEF OperateFail, OnlyWork
<1>23. ASSUME Trouble PROVE Engaged(q)'
  BY <1>23 DEF Trouble, Restart
<1>24. ASSUME Repair PROVE Engaged(q)'
  BY <1>24 DEF Repair, Goto, End, dvars, vars, rvars
<1>25. ASSUME NEW d \in Dirs, Wait(d) PROVE Engaged(q)'
  BY <1>25 DEF Wait, Goto, End, dvars, vars, rvars
<1>26. ASSUME NEW d \in Dirs, Age(d) PROVE Engaged(q)'
  BY <1>26 DEF Age, Goto, End, dvars, vars, rvars
<1>27. ASSUME Late PROVE Engaged(q)'
  BY <1>27 DEF Late, Lands
<1>28. CASE UNCHANGED vars
  BY <1>28 DEF dvars, vars, rvars
<1> QED
  BY <1>1, <1>2, <1>3, <1>4, <1>5, <1>6, <1>7, <1>8, <1>9, <1>10, <1>11, <1>12, <1>13, <1>14, <1>15,
     <1>16, <1>17, <1>18, <1>19, <1>20, <1>21, <1>22, <1>23, <1>24, <1>25, <1>26, <1>27, <1>28 DEF Next, Alive, CheckStep, OperatorStep, Operators

\* A placement of a deployment is not NoGrant, and the placements of two of them overlap.
LEMMA Slots ==
    /\ \A d \in Dirs : DirSlot[d] # NoGrant
    /\ \A d, e \in Dirs : Overlap(DirSlot[d], DirSlot[e])
<1>1. \A d \in Dirs : DirSlot[d] \in {Ring} \cup SUBSET Positions
  BY DeploymentsAssumption DEF Placements
<1>2. \A S \in SUBSET Positions : NoGrant # S
  BY AdmissionAssumption
<1>3. NoGrant # Ring
  BY AdmissionAssumption
<1> QED
  BY <1>1, <1>2, <1>3, OneSlotAssumption

\* A process that is granted the slot found it free.
LEMMA GrantAlone ==
    ASSUME Typed, \A q \in Procs : Holds(q), NEW p \in Procs, NEW d \in Dirs, Grant(p, DirSlot[d])
    PROVE  \A q \in Procs \ {p} : granted[q] = NoGrant
<1> SUFFICES ASSUME NEW q \in Procs \ {p}, granted[q] # NoGrant PROVE FALSE
  OBVIOUS
<1>1. pc[q] \in HoldingLabels /\ granted[q] = DirSlot[loc[q].dir]
  BY DEF Holds
<1>2. loc[q].dir \in Dirs
  BY <1>1 DEF Typed, Located, HoldingLabels
<1>3. Overlap(granted[q], DirSlot[d])
  BY <1>1, <1>2, Slots
<1> QED
  BY <1>3 DEF Grant

\* One process at a time, by actions.
LEMMA AloneStep ==
    ASSUME Typed, [Next]_vars, \A q \in Procs : Holds(q), Alone
    PROVE  Alone'
<1>0. granted \in [Procs -> {NoGrant} \cup Placements] /\ Alone
  BY DEF Typed, TypeOK, AdmissionTypeOK
<1> USE <1>0, RecoveryAssumption DEF Alone, Operators
<1>1. ASSUME NEW c \in Checkers, Check(c) PROVE Alone'
  BY <1>1 DEF Check, vars, rvars
<1>2. ASSUME NEW c \in Checkers, CheckOff(c) PROVE Alone'
  BY <1>2 DEF CheckOff, vars, rvars
<1>3. ASSUME NEW c \in Checkers, CheckBusy(c) PROVE Alone'
  BY <1>3 DEF CheckBusy, vars, rvars
<1>4. ASSUME NEW c \in Checkers, CheckState(c) PROVE Alone'
  BY <1>4 DEF CheckState, vars, rvars
<1>5. ASSUME NEW c \in Checkers, CheckInterrupted(c) PROVE Alone'
  BY <1>5 DEF CheckInterrupted, vars, rvars
<1>6. ASSUME NEW c \in Checkers, CheckObserve(c) PROVE Alone'
  BY <1>6 DEF CheckObserve, vars, rvars
<1>7. ASSUME NEW c \in Checkers, CheckDecide(c) PROVE Alone'
  BY <1>7 DEF CheckDecide, vars, rvars
<1>8. ASSUME NEW c \in Checkers, AttemptLock(c) PROVE Alone'
  <2>1. CASE UNCHANGED granted
    BY <2>1
  <2>2. CASE Grant(c, DirSlot[loc[c].dir])
    <3>1. \A q \in Procs \ {c} : granted[q] = NoGrant
      BY <1>8, <2>2, GrantAlone DEF AttemptLock, Typed, Located
    <3> QED
      BY <2>2, <3>1 DEF Grant
  <2> QED
    BY <1>8, <2>1, <2>2 DEF AttemptLock
<1>9. ASSUME NEW c \in Checkers, AttemptRecheck(c) PROVE Alone'
  BY <1>9 DEF AttemptRecheck, Release, vars, rvars
<1>10. ASSUME NEW c \in Checkers, AttemptBegin(c) PROVE Alone'
  BY <1>10 DEF AttemptBegin, Release, vars, rvars
<1>11. ASSUME NEW c \in Checkers, AttemptEnd(c) PROVE Alone'
  BY <1>11 DEF AttemptEnd, Release, vars, rvars
<1>12. ASSUME NEW c \in Checkers, AttemptRecord(c) PROVE Alone'
  BY <1>12 DEF AttemptRecord, vars, rvars
<1>13. ASSUME NEW c \in Checkers, Killed(c) PROVE Alone'
  BY <1>13 DEF Killed, vars, rvars
<1>14. ASSUME NEW p \in Operators, Command(p) PROVE Alone'
  BY <1>14 DEF Command, vars, rvars
<1>15. ASSUME NEW p \in Operators, HoldWrite(p) PROVE Alone'
  BY <1>15 DEF HoldWrite, vars, rvars
<1>16. ASSUME NEW p \in Operators, OpLock(p) PROVE Alone'
  <2>1. CASE UNCHANGED granted
    BY <2>1
  <2>2. CASE Grant(p, DirSlot[loc[p].dir])
    <3>1. \A q \in Procs \ {p} : granted[q] = NoGrant
      BY <1>16, <2>2, GrantAlone DEF OpLock, Typed, Located
    <3> QED
      BY <2>2, <3>1 DEF Grant
  <2> QED
    BY <1>16, <2>1, <2>2 DEF OpLock
<1>17. ASSUME NEW p \in Operators, OpSet(p) PROVE Alone'
  BY <1>17 DEF OpSet, Release, vars, rvars
<1>18. ASSUME NEW p \in Operators, OpForget(p) PROVE Alone'
  BY <1>18 DEF OpForget, vars, rvars
<1>19. ASSUME NEW p \in Operators, OpRecord(p) PROVE Alone'
  BY <1>19 DEF OpRecord, Release, vars, rvars
<1>20. ASSUME NEW p \in Operators, OpStarted(p) PROVE Alone'
  BY <1>20 DEF OpStarted, Release, vars, rvars
<1>21. ASSUME NEW p \in Procs, Operate(p) PROVE Alone'
  BY <1>21 DEF Operate, vars, rvars
<1>22. ASSUME NEW p \in Procs, OperateFail(p) PROVE Alone'
  BY <1>22 DEF OperateFail, vars, rvars
<1>23. ASSUME Trouble PROVE Alone'
  BY <1>23 DEF Trouble, vars, rvars
<1>24. ASSUME Repair PROVE Alone'
  BY <1>24 DEF Repair, vars, rvars
<1>25. ASSUME NEW d \in Dirs, Wait(d) PROVE Alone'
  BY <1>25 DEF Wait, vars, rvars
<1>26. ASSUME NEW d \in Dirs, Age(d) PROVE Alone'
  BY <1>26 DEF Age, vars, rvars
<1>27. ASSUME Late PROVE Alone'
  BY <1>27 DEF Late
<1>28. CASE UNCHANGED vars
  BY <1>28 DEF vars, rvars
<1> QED
  BY <1>1, <1>2, <1>3, <1>4, <1>5, <1>6, <1>7, <1>8, <1>9, <1>10, <1>11, <1>12, <1>13, <1>14, <1>15,
     <1>16, <1>17, <1>18, <1>19, <1>20, <1>21, <1>22, <1>23, <1>24, <1>25, <1>26, <1>27, <1>28 DEF Next, Alive, CheckStep, OperatorStep, Operators

LEMMA LockedInv == Spec => [](Typed /\ Locked)
<1>1. Init => Typed /\ Locked
  BY InitTyped DEF Init, AdmissionInit, DeploymentsInit, Locked, Holds, HoldingLabels, Engaged, Alone
<1>2. Typed /\ Locked /\ [Next]_vars => Locked'
  BY HoldsStep, EngagedStep, AloneStep DEF Locked
<1> QED
  BY <1>1, <1>2, TypedStep, PTL DEF Spec

-----------------------------------------------------------------------------
(* No two models on one Spark.                                             *)

Apart == OnlyStraysShare /\ \A p \in Procs : Cleared(p)

\* Two processes are never both inside a call.
LEMMA OneInside ==
    ASSUME Typed, Locked, NEW p \in Procs, NEW q \in Procs, stage[p] # "none", stage[q] # "none"
    PROVE  p = q
<1>1. \A x \in {p, q} : pc[x] \in HoldingLabels /\ loc[x].dir \in Dirs
  BY DEF Locked, Engaged, HoldingLabels, Typed, Located
<1>2. granted[p] # NoGrant /\ granted[q] # NoGrant
  BY <1>1, Slots DEF Locked, Holds
<1> QED
  BY <1>2 DEF Locked, Alone

\* A step that leaves the containers and the processes inside a call alone.
LEMMA ApartKept ==
    ASSUME Apart, UNCHANGED <<runs, strays, stage>>, \A p \in Procs : stage[p] # "none" => work'[p] = work[p]
    PROVE  Apart'
  BY DEF Apart, OnlyStraysShare, Cleared, SparksOf

\* So does a step of apply, which starts a model only where no other runs.
LEMMA ApartApply ==
    ASSUME Typed, Locked, Apart, NEW p \in Procs, OnlyWork(p), StartsOnly(p), Cleared(p)'
    PROVE  Apart'
<1>1. DeploymentsTypeOK /\ OnlyStraysShare /\ Cleared(p)
  BY DEF Typed, TypeOK, Apart
<1>2. OnlyStraysShare'
  BY <1>1, StartsApart
<1>3. ASSUME NEW q \in Procs, q # p PROVE Cleared(q)'
  <2>1. ~(stage[p] = "checked" /\ stage[q] = "checked")
    BY <1>3, OneInside
  <2> QED
    BY <1>3, <2>1, StartsKeepClear DEF Apart
<1> QED
  BY <1>2, <1>3 DEF Apart

\* Nor does a step of no process, which brings nothing but strays.
LEMMA ApartAside ==
    ASSUME Apart, UNCHANGED <<work, stage>>, OnlyStrays
    PROVE  Apart'
<1>1. OnlyStraysShare'
  BY DEF Apart, OnlyStraysShare, OnlyStrays, StraysKept
<1>2. ASSUME NEW q \in Procs PROVE Cleared(q)'
  BY DEF Apart, Cleared, OnlyStrays, StraysKept, SparksOf
<1> QED
  BY <1>1, <1>2 DEF Apart

\* One model per Spark, by actions.
LEMMA ApartStep ==
    ASSUME Typed, Locked, Apart, [Next]_vars
    PROVE  Apart'
<1>0. DeploymentsOK
  BY DEF Typed, TypeOK, DeploymentsOK
<1> USE <1>0, RecoveryAssumption DEF Operators
<1>1. ASSUME NEW c \in Checkers, Check(c) PROVE Apart'
  BY <1>1, ApartKept DEF Check, dvars, vars
<1>2. ASSUME NEW c \in Checkers, CheckOff(c) PROVE Apart'
  BY <1>2, ApartKept DEF CheckOff, dvars, vars
<1>3. ASSUME NEW c \in Checkers, CheckBusy(c) PROVE Apart'
  BY <1>3, ApartKept DEF CheckBusy, dvars, vars
<1>4. ASSUME NEW c \in Checkers, CheckState(c) PROVE Apart'
  BY <1>4, ApartKept DEF CheckState, dvars, vars
<1>5. ASSUME NEW c \in Checkers, CheckInterrupted(c) PROVE Apart'
  BY <1>5, ApartKept DEF CheckInterrupted, dvars, vars
<1>6. ASSUME NEW c \in Checkers, CheckObserve(c) PROVE Apart'
  BY <1>6, ApartKept DEF CheckObserve, dvars, vars
<1>7. ASSUME NEW c \in Checkers, CheckDecide(c) PROVE Apart'
  BY <1>7, ApartKept DEF CheckDecide, dvars, vars
<1>8. ASSUME NEW c \in Checkers, AttemptLock(c) PROVE Apart'
  BY <1>8, ApartKept DEF AttemptLock, dvars, vars
<1>9. ASSUME NEW c \in Checkers, AttemptRecheck(c) PROVE Apart'
  BY <1>9, ApartKept DEF AttemptRecheck, dvars, vars
<1>10. ASSUME NEW c \in Checkers, AttemptBegin(c) PROVE Apart'
  <2>1. stage[c] = "none"
    BY <1>10 DEF AttemptBegin, Locked, Engaged
  <2>2. UNCHANGED <<runs, strays, stage>> /\ \A q \in Procs \ {c} : work'[q] = work[q]
    BY <1>10, <1>0 DEF AttemptBegin, DeploymentsOK, DeploymentsTypeOK
  <2> QED
    BY <2>1, <2>2, ApartKept
<1>11. ASSUME NEW c \in Checkers, AttemptEnd(c) PROVE Apart'
  BY <1>11, ApartKept DEF AttemptEnd, dvars, vars
<1>12. ASSUME NEW c \in Checkers, AttemptRecord(c) PROVE Apart'
  BY <1>12, ApartKept DEF AttemptRecord, dvars, vars
<1>13. ASSUME NEW c \in Checkers, Killed(c) PROVE Apart'
  <2>1. OnlyWork(c) /\ StartsOnly(c) /\ Cleared(c)'
    <3>1. ApplyKilled(c) /\ c \in Procs /\ TRUE \in BOOLEAN
      BY <1>13 DEF Killed
    <3> QED
      BY <3>1, ApplyKilledTyped, ApplyStarts
  <2> QED
    BY <1>13, <2>1, ApartApply
<1>14. ASSUME NEW p \in Operators, Command(p) PROVE Apart'
  BY <1>14, ApartKept DEF Command, dvars, vars
<1>15. ASSUME NEW p \in Operators, HoldWrite(p) PROVE Apart'
  BY <1>15, ApartKept DEF HoldWrite, dvars, vars
<1>16. ASSUME NEW p \in Operators, OpLock(p) PROVE Apart'
  BY <1>16, ApartKept DEF OpLock, dvars, vars
<1>17. ASSUME NEW p \in Operators, OpSet(p) PROVE Apart'
  BY <1>17, ApartKept DEF OpSet, dvars, vars
<1>18. ASSUME NEW p \in Operators, OpForget(p) PROVE Apart'
  <2>1. stage[p] = "none"
    BY <1>18 DEF OpForget, Locked, Engaged
  <2>2. UNCHANGED <<runs, strays, stage>> /\ \A q \in Procs \ {p} : work'[q] = work[q]
    BY <1>18, <1>0 DEF OpForget, DeploymentsOK, DeploymentsTypeOK
  <2> QED
    BY <2>1, <2>2, ApartKept
<1>19. ASSUME NEW p \in Operators, OpRecord(p) PROVE Apart'
  BY <1>19, ApartKept DEF OpRecord, dvars, vars
<1>20. ASSUME NEW p \in Operators, OpStarted(p) PROVE Apart'
  BY <1>20, ApartKept DEF OpStarted, dvars, vars
<1>21. ASSUME NEW p \in Procs, Operate(p) PROVE Apart'
  <2>1. OnlyWork(p) /\ StartsOnly(p) /\ Cleared(p)'
    BY <1>21, ApplyTyped, ApplyStarts DEF Operate
  <2> QED
    BY <2>1, ApartApply
<1>22. ASSUME NEW p \in Procs, OperateFail(p) PROVE Apart'
  <2>1. OnlyWork(p) /\ StartsOnly(p) /\ Cleared(p)'
    BY <1>22, ApplyFailTyped, ApplyStarts DEF OperateFail
  <2> QED
    BY <2>1, ApartApply
<1>23. ASSUME Trouble PROVE Apart'
  <2>1. ASSUME NEW i \in Positions, Restart(i) PROVE Apart'
    BY <2>1, RestartStrays, ApartAside DEF Restart
  <2>2. CASE UNCHANGED <<op, done, receipt, runs, starting, stopping, strays, work, stage, err>>
    BY <2>2, ApartKept
  <2> QED
    BY <1>23, <2>1, <2>2 DEF Trouble
<1>24. ASSUME Repair PROVE Apart'
  BY <1>24, ApartKept DEF Repair, dvars, vars
<1>25. ASSUME NEW d \in Dirs, Wait(d) PROVE Apart'
  BY <1>25, ApartKept DEF Wait, dvars, vars
<1>26. ASSUME NEW d \in Dirs, Age(d) PROVE Apart'
  BY <1>26, ApartKept DEF Age, dvars, vars
<1>27. ASSUME Late PROVE Apart'
  BY <1>27, LandsStrays, ApartAside DEF Late, Lands
<1>28. CASE UNCHANGED vars
  BY <1>28, ApartKept DEF dvars, vars
<1> QED
  BY <1>1, <1>2, <1>3, <1>4, <1>5, <1>6, <1>7, <1>8, <1>9, <1>10, <1>11, <1>12, <1>13, <1>14, <1>15,
     <1>16, <1>17, <1>18, <1>19, <1>20, <1>21, <1>22, <1>23, <1>24, <1>25, <1>26, <1>27, <1>28 DEF Next, Alive, CheckStep, OperatorStep, Operators

\* Recovery, the operators' commands, their failures and deaths leave two deployments with containers
\* on one Spark only where one of them got there by a remote command that ended after its call had:
\* a start looks for other workloads under the slice locks, and the locks keep every other start away
\* until it has ended.
THEOREM RecoverySharesOnlyStrays == Spec => []OnlyStraysShare
<1>1. Init => Apart
  <2> SUFFICES ASSUME Init PROVE Apart
    OBVIOUS
  <2>1. \A d \in Dirs : runs[d] = IF d = Serving THEN SparksOf(d) ELSE {}
    BY DEF Init, DeploymentsInit
  <2>2. \A p \in Procs : stage[p] = "none"
    BY DEF Init, DeploymentsInit
  <2> QED
    BY <2>1, <2>2 DEF Apart, OnlyStraysShare, Cleared
<1>2. Typed /\ Locked /\ Apart /\ [Next]_vars => Apart'
  BY ApartStep
<1>3. Apart => OnlyStraysShare
  BY DEF Apart
<1> QED
  BY <1>1, <1>2, <1>3, LockedInv, PTL DEF Spec

-----------------------------------------------------------------------------
(* The limits on attempts and restarts.                                    *)

\* An attempt that the record names and has not counted.
Open(r) == IF r.attempt = NoAttempt THEN 0 ELSE 1

\* The record counts every attempt; a record that is not stopped has room for another attempt.
Counted(d) ==
    /\ tries[d] <= rec[d].failures + Open(rec[d])
    /\ tries[d] <= FailureLimit
    /\ ~rec[d].stopped => rec[d].failures < FailureLimit
    /\ rec[d].restarts <= RestartLimit

Early == {"loaded", "free", "interrupted"}
Settled == {"saved", "observed", "lock", "locked", "rechecked"}
Under == {"acting", "ended"}

\* What a check has read of the failures is not overtaken: the attempts that it does not know
\* of are at most the one it makes itself.
Tried(c) ==
    LET d == loc[c].dir
        r == loc[c].rec
    IN  /\ pc[c] \in Early => /\ tries[d] <= r.failures + Open(r)
                              /\ rec[d].attempt # NoAttempt => r.attempt # NoAttempt
        /\ pc[c] \in Settled => tries[d] <= r.failures /\ r.attempt = NoAttempt /\ rec[d].attempt = NoAttempt
        /\ pc[c] \in Under => tries[d] <= r.failures + 1
        /\ pc[c] = "interrupted" => r.attempt # NoAttempt
        /\ pc[c] \in {"rechecked", "acting", "ended"} => r.failures < FailureLimit

\* Nor is what it has read of the restarts: it acts only below the limit, and nobody else adds one.
Restarts(c) ==
    LET d == loc[c].dir
        r == loc[c].rec
    IN  /\ pc[c] # "idle" => rec[d].restarts <= r.restarts
        /\ pc[c] \in {"lock", "locked", "rechecked", "acting", "ended"} => r.restarts < RestartLimit

Bounded == (\A d \in Dirs : Counted(d)) /\ \A c \in Checkers : Tried(c) /\ Restarts(c)

\* The restarts of the history are dropped with those of the record.
Dropped(d) ==
    \/ restarted'[d] = 0
    \/ /\ rec'[d].restarts = rec[d].restarts - 1 /\ restarted'[d] = restarted[d] - 1
       /\ unrecorded'[d] = unrecorded[d]

\* A step that adds no attempt and no restart, and keeps the count.
Gentle(d) ==
    /\ tries'[d] <= tries[d] /\ tries'[d] <= rec'[d].failures + Open(rec'[d])
    /\ rec'[d].attempt # NoAttempt => rec[d].attempt # NoAttempt
    /\ ~rec'[d].stopped => rec'[d].failures < FailureLimit
    /\ rec'[d].restarts <= rec[d].restarts
    /\ rec'[d].restarts = rec[d].restarts \/ Dropped(d)

\* The counters of a deployment, as numbers.
LEMMA Numbers ==
    ASSUME TypeOK, NEW d \in Dirs
    PROVE  /\ rec[d] \in Records /\ rec[d].failures \in Nat /\ rec[d].restarts \in Nat
           /\ tries[d] \in Nat /\ Open(rec[d]) \in {0, 1}
           /\ FailureLimit \in Nat \ {0} /\ RestartLimit \in Nat \ {0}
<1>1. rec[d] \in Records /\ tries[d] \in Nat
  BY DEF TypeOK
<1>2. rec[d].failures \in Nat /\ rec[d].restarts \in Nat
  BY <1>1 DEF Records
<1> QED
  BY <1>1, <1>2, RecoveryAssumption DEF Open

\* A record of which nothing that counts has changed, except that it may be stopped.
Alike(r, s) ==
    /\ s.failures = r.failures /\ s.attempt = r.attempt /\ s.restarts = r.restarts
    /\ ~s.stopped => ~r.stopped

LEMMA AlikeUpdates ==
    ASSUME NEW r \in Records
    PROVE  /\ Alike(r, r)
           /\ \A n : Alike(r, [r EXCEPT !.pending = n])
           /\ Alike(r, [r EXCEPT !.pending = 0, !.stopped = TRUE])
           /\ Alike(r, [r EXCEPT !.enabled = FALSE])
           /\ Alike(r, [r EXCEPT !.backoff = FALSE, !.pending = IF @ = 0 THEN 0 ELSE 3])
  BY DEF Alike, Records

LEMMA GentleAlike ==
    ASSUME Typed, NEW d \in Dirs, Counted(d), Alike(rec[d], rec'[d]), tries'[d] = tries[d]
    PROVE  Gentle(d)
<1>1. /\ rec[d].failures \in Nat /\ rec[d].restarts \in Nat /\ tries[d] \in Nat
  BY Numbers DEF Typed
<1>2. Open(rec'[d]) = Open(rec[d])
  BY DEF Alike, Open
<1> QED
  BY <1>1, <1>2 DEF Counted, Alike, Gentle

\* One record is updated with a record alike.
LEMMA GentleUpdate ==
    ASSUME Typed, NEW d \in Dirs, NEW s, Alike(rec[d], s), rec' = [rec EXCEPT ![d] = s], UNCHANGED tries,
           NEW e \in Dirs, Counted(e)
    PROVE  Gentle(e)
<1>1. rec[e] \in Records /\ rec \in [Dirs -> Records]
  BY DEF Typed, TypeOK
<1>2. Alike(rec[e], rec'[e])
  BY <1>1, AlikeUpdates
<1> QED
  BY <1>2, GentleAlike

\* The failures of one record are reset.
LEMMA GentleReset ==
    ASSUME Typed, NEW d \in Dirs, NEW s, rec' = [rec EXCEPT ![d] = s], s.failures = 0,
           s.attempt # NoAttempt => rec[d].attempt # NoAttempt, tries' = [tries EXCEPT ![d] = 0],
           s.restarts = rec[d].restarts \/ (s.restarts = 0 /\ restarted' = [restarted EXCEPT ![d] = 0]),
           NEW e \in Dirs, Counted(e)
    PROVE  Gentle(e)
<1>0. rec \in [Dirs -> Records] /\ tries \in [Dirs -> Nat] /\ rec[e] \in Records
  BY DEF Typed, TypeOK
<1>1. CASE e # d
  <2>1. Alike(rec[e], rec'[e]) /\ tries'[e] = tries[e]
    BY <1>0, <1>1, AlikeUpdates
  <2> QED
    BY <2>1, GentleAlike
<1>2. CASE e = d
  <2>1. /\ rec[d].restarts \in Nat /\ tries[d] \in Nat /\ FailureLimit \in Nat \ {0}
    BY Numbers DEF Typed
  <2>2. rec'[d] = s /\ tries'[d] = 0 /\ Open(s) \in {0, 1}
    BY <1>0 DEF Open
  <2>3. s.restarts = rec[d].restarts \/ (s.restarts = 0 /\ restarted'[d] = 0)
    BY DEF Typed, TypeOK
  <2> QED
    BY <1>2, <2>1, <2>2, <2>3 DEF Gentle, Dropped
<1> QED
  BY <1>1, <1>2

\* Every step is gentle but those of a check that counts a failure, begins an attempt or records
\* its result, by actions.
LEMMA GentleStep ==
    ASSUME Typed, [Next]_vars, NEW e \in Dirs, Counted(e),
           \A c \in Checkers : ~CheckInterrupted(c) /\ ~AttemptBegin(c) /\ ~AttemptRecord(c)
    PROVE  Gentle(e)
<1>0. Alike(rec[e], rec[e])
  BY Numbers, AlikeUpdates DEF Typed
<1> USE RecoveryAssumption DEF Operators
<1>1. ASSUME NEW c \in Checkers, Check(c) PROVE Gentle(e)
  <2>1. UNCHANGED <<rec, tries>>
    BY <1>1 DEF Check, History, Counts, Env, vars, rvars
  <2> QED
    BY <2>1, <1>0, GentleAlike
<1>2. ASSUME NEW c \in Checkers, CheckOff(c) PROVE Gentle(e)
  <2>1. UNCHANGED <<rec, tries>>
    BY <1>2 DEF CheckOff, History, Counts, Env, vars, rvars
  <2> QED
    BY <2>1, <1>0, GentleAlike
<1>3. ASSUME NEW c \in Checkers, CheckBusy(c) PROVE Gentle(e)
  <2>1. UNCHANGED <<rec, tries>>
    BY <1>3 DEF CheckBusy, History, Counts, Env, vars, rvars
  <2> QED
    BY <2>1, <1>0, GentleAlike
<1>4. ASSUME NEW c \in Checkers, CheckState(c) PROVE Gentle(e)
  <2>1. UNCHANGED <<rec, tries>>
    BY <1>4 DEF CheckState, History, Counts, Env, vars, rvars
  <2> QED
    BY <2>1, <1>0, GentleAlike
<1>5. ASSUME NEW c \in Checkers, CheckInterrupted(c) PROVE Gentle(e)
  BY <1>5
<1>6. ASSUME NEW c \in Checkers, CheckObserve(c) PROVE Gentle(e)
  <2>1. loc[c].dir \in Dirs /\ rec[loc[c].dir] \in Records
    BY <1>6, Numbers DEF CheckObserve, Typed, Located
  <2>2. UNCHANGED tries /\ (rec' = rec \/ rec' = [rec EXCEPT ![loc[c].dir] = [rec[loc[c].dir] EXCEPT !.pending = 0]])
    BY <1>6 DEF CheckObserve, Update, History, Counts
  <2> QED
    BY <2>1, <2>2, <1>0, GentleAlike, GentleUpdate, AlikeUpdates
<1>7. ASSUME NEW c \in Checkers, CheckDecide(c) PROVE Gentle(e)
  <2>1. loc[c].dir \in Dirs /\ rec[loc[c].dir] \in Records
    BY <1>7, Numbers DEF CheckDecide, Typed, Located
  <2> DEFINE d == loc[c].dir
             s == [rec[d] EXCEPT !.pending = 0, !.failures = 0, !.backoff = FALSE, !.left = NoKey]
  <2>3. ASSUME NEW n, rec' = [rec EXCEPT ![d] = [rec[d] EXCEPT !.pending = n]], UNCHANGED tries PROVE Gentle(e)
    BY <2>1, <2>3, GentleUpdate, AlikeUpdates
  <2>4. CASE rec' = [rec EXCEPT ![d] = [rec[d] EXCEPT !.pending = 0, !.stopped = TRUE]] /\ UNCHANGED tries
    BY <2>1, <2>4, GentleUpdate, AlikeUpdates
  <2>5. CASE rec' = [rec EXCEPT ![d] = s] /\ tries' = [tries EXCEPT ![d] = 0]
    <3>1. s.failures = 0 /\ s.attempt = rec[d].attempt /\ s.restarts = rec[d].restarts
      BY <2>1 DEF Records
    <3> HIDE DEF s, d
    <3> QED
      BY <2>1, <2>5, <3>1, GentleReset DEF d
  <2> QED
    BY <1>7, <2>3, <2>4, <2>5, Zenon DEF CheckDecide, Update
<1>8. ASSUME NEW c \in Checkers, AttemptLock(c) PROVE Gentle(e)
  <2>1. UNCHANGED <<rec, tries>>
    BY <1>8 DEF AttemptLock, History, Counts, Env, vars, rvars
  <2> QED
    BY <2>1, <1>0, GentleAlike
<1>9. ASSUME NEW c \in Checkers, AttemptRecheck(c) PROVE Gentle(e)
  <2>1. loc[c].dir \in Dirs /\ rec[loc[c].dir] \in Records
    BY <1>9, Numbers DEF AttemptRecheck, Typed, Located
  <2>2. UNCHANGED tries /\ (rec' = rec \/ rec' = [rec EXCEPT ![loc[c].dir] = [rec[loc[c].dir] EXCEPT !.pending = 0]])
    BY <1>9 DEF AttemptRecheck, Update, History, Counts
  <2> QED
    BY <2>1, <2>2, <1>0, GentleAlike, GentleUpdate, AlikeUpdates
<1>10. ASSUME NEW c \in Checkers, AttemptBegin(c) PROVE Gentle(e)
  BY <1>10
<1>11. ASSUME NEW c \in Checkers, AttemptEnd(c) PROVE Gentle(e)
  <2>1. UNCHANGED <<rec, tries>>
    BY <1>11 DEF AttemptEnd, History, Counts, Env, vars, rvars
  <2> QED
    BY <2>1, <1>0, GentleAlike
<1>12. ASSUME NEW c \in Checkers, AttemptRecord(c) PROVE Gentle(e)
  BY <1>12
<1>13. ASSUME NEW c \in Checkers, Killed(c) PROVE Gentle(e)
  <2>1. UNCHANGED <<rec, tries>>
    BY <1>13 DEF Killed, History, Counts
  <2> QED
    BY <2>1, <1>0, GentleAlike
<1>14. ASSUME NEW p \in Operators, Command(p) PROVE Gentle(e)
  <2>1. UNCHANGED <<rec, tries>>
    BY <1>14 DEF Command, History, Counts, Env, vars, rvars
  <2> QED
    BY <2>1, <1>0, GentleAlike
<1>15. ASSUME NEW p \in Operators, HoldWrite(p) PROVE Gentle(e)
  <2>1. UNCHANGED <<rec, tries>>
    BY <1>15 DEF HoldWrite, History, Counts, Env, vars, rvars
  <2> QED
    BY <2>1, <1>0, GentleAlike
<1>16. ASSUME NEW p \in Operators, OpLock(p) PROVE Gentle(e)
  <2>1. UNCHANGED <<rec, tries>>
    BY <1>16 DEF OpLock, History, Counts, Env, vars, rvars
  <2> QED
    BY <2>1, <1>0, GentleAlike
<1>17. ASSUME NEW p \in Operators, OpSet(p) PROVE Gentle(e)
  <2>1. active \in Dirs /\ rec[active] \in Records
    BY Numbers DEF Typed, TypeOK
  <2>2. CASE rec' = [rec EXCEPT ![active] = [rec[active] EXCEPT !.enabled = FALSE]] /\ UNCHANGED tries
    BY <2>1, <2>2, GentleUpdate, AlikeUpdates
  <2> DEFINE s == [rec[active] EXCEPT !.enabled = TRUE, !.failures = 0, !.stopped = FALSE,
                                      !.restarts = 0, !.backoff = FALSE, !.pending = 0]
  <2>3. CASE /\ rec' = [rec EXCEPT ![active] = s] /\ tries' = [tries EXCEPT ![active] = 0]
             /\ restarted' = [restarted EXCEPT ![active] = 0]
    <3>1. s.failures = 0 /\ s.attempt = rec[active].attempt /\ s.restarts = 0
      BY <2>1 DEF Records
    <3> HIDE DEF s
    <3> QED
      BY <2>1, <2>3, <3>1, GentleReset
  <2> QED
    BY <1>17, <2>2, <2>3 DEF OpSet, Update
<1>18. ASSUME NEW p \in Operators, OpForget(p) PROVE Gentle(e)
  <2>0. rec[e] \in Records /\ rec[e].failures \in Nat /\ rec[e].restarts \in Nat /\ tries[e] \in Nat
    BY Numbers DEF Typed
  <2>1. CASE rec'[e] = rec[e] /\ tries'[e] = tries[e]
    BY <1>18, <2>0, <2>1, <1>0, GentleAlike, AlikeUpdates DEF OpForget
  <2>2. CASE /\ rec'[e] = [rec[e] EXCEPT !.attempt = NoAttempt, !.left = NoKey, !.pending = 0]
             /\ tries'[e] = IF rec[e].attempt # NoAttempt /\ tries[e] > 0 THEN tries[e] - 1 ELSE tries[e]
    <3>1. /\ rec'[e].failures = rec[e].failures /\ rec'[e].attempt = NoAttempt /\ rec'[e].restarts = rec[e].restarts
          /\ rec'[e].stopped = rec[e].stopped
      BY <2>0, <2>2 DEF Records
    <3>2. tries'[e] <= tries[e] /\ tries'[e] <= rec'[e].failures
      BY <2>0, <2>2, <3>1 DEF Counted, Open
    <3>3. Open(rec'[e]) = 0
      BY <3>1 DEF Open
    <3> QED
      BY <2>0, <3>1, <3>2, <3>3 DEF Gentle, Counted
  <2> QED
    BY <1>18, <2>1, <2>2, Zenon DEF OpForget
<1>19. ASSUME NEW p \in Operators, OpRecord(p) PROVE Gentle(e)
  <2>1. UNCHANGED <<rec, tries>>
    BY <1>19 DEF OpRecord, History, Counts, Env, vars, rvars
  <2> QED
    BY <2>1, <1>0, GentleAlike
<1>20. ASSUME NEW p \in Operators, OpStarted(p) PROVE Gentle(e)
  <2>1. loc[p].dir \in Dirs /\ rec[loc[p].dir] \in Records
    BY <1>20, Numbers DEF OpStarted, Typed, Located
  <2> DEFINE s == [Fresh EXCEPT !.enabled = rec[loc[p].dir].enabled]
  <2>2. s.failures = 0 /\ s.attempt = NoAttempt /\ s.restarts = 0
    BY DEF Fresh
  <2>3. /\ rec' = [rec EXCEPT ![loc[p].dir] = s] /\ tries' = [tries EXCEPT ![loc[p].dir] = 0]
        /\ restarted' = [restarted EXCEPT ![loc[p].dir] = 0]
    BY <1>20 DEF OpStarted
  <2> HIDE DEF s
  <2> QED
    BY <2>1, <2>2, <2>3, GentleReset
<1>21. ASSUME NEW p \in Procs, Operate(p) PROVE Gentle(e)
  <2>1. UNCHANGED <<rec, tries>>
    BY <1>21 DEF Operate, History, Counts
  <2> QED
    BY <2>1, <1>0, GentleAlike
<1>22. ASSUME NEW p \in Procs, OperateFail(p) PROVE Gentle(e)
  <2>1. UNCHANGED <<rec, tries>>
    BY <1>22 DEF OperateFail, History, Counts
  <2> QED
    BY <2>1, <1>0, GentleAlike
<1>23. ASSUME Trouble PROVE Gentle(e)
  <2>1. UNCHANGED <<rec, tries>>
    BY <1>23 DEF Trouble, History, Counts
  <2> QED
    BY <2>1, <1>0, GentleAlike
<1>24. ASSUME Repair PROVE Gentle(e)
  <2>1. UNCHANGED <<rec, tries>>
    BY <1>24 DEF Repair, History, Counts, Env, vars, rvars
  <2> QED
    BY <2>1, <1>0, GentleAlike
<1>25. ASSUME NEW d \in Dirs, Wait(d) PROVE Gentle(e)
  BY <1>25, Numbers, GentleUpdate, AlikeUpdates DEF Wait, Passed, Update, History, Typed
<1>26. ASSUME NEW d \in Dirs, Age(d) PROVE Gentle(e)
  <2>0. /\ rec[d] \in Records /\ rec[d].failures \in Nat /\ rec[d].restarts \in Nat /\ tries[d] \in Nat
        /\ rec[e] \in Records /\ rec \in [Dirs -> Records]
    BY Numbers DEF Typed, TypeOK
  <2>1. CASE e # d
    <3>1. rec'[e] = rec[e] /\ tries'[e] = tries[e]
      BY <1>26, <2>0, <2>1 DEF Age, Update
    <3> QED
      BY <2>0, <3>1, <1>0, GentleAlike, AlikeUpdates
  <2>2. CASE e = d
    <3>1. /\ rec'[d].failures = rec[d].failures /\ rec'[d].attempt = rec[d].attempt /\ rec'[d].stopped = rec[d].stopped
          /\ rec'[d].restarts = rec[d].restarts - 1
      BY <1>26, <2>0 DEF Age, Update, Records
    <3>2. tries'[d] = tries[d] /\ rec[d].restarts > 0
      BY <1>26, <2>0 DEF Age
    <3>3. Open(rec'[d]) = Open(rec[d])
      BY <3>1 DEF Open
    <3>4. restarted'[d] = (IF restarted[d] > 0 THEN restarted[d] - 1 ELSE 0) /\ unrecorded'[d] = unrecorded[d]
      BY <1>26 DEF Age, Typed, TypeOK
    <3> QED
      BY <2>0, <2>2, <3>1, <3>2, <3>3, <3>4 DEF Counted, Gentle, Dropped
  <2> QED
    BY <2>1, <2>2
<1>27. ASSUME Late PROVE Gentle(e)
  <2>1. UNCHANGED <<rec, tries>>
    BY <1>27 DEF Late
  <2> QED
    BY <2>1, <1>0, GentleAlike
<1>28. CASE UNCHANGED vars
  <2>1. UNCHANGED <<rec, tries>>
    BY <1>28 DEF vars, rvars
  <2> QED
    BY <2>1, <1>0, GentleAlike
<1> QED
  BY <1>1, <1>2, <1>3, <1>4, <1>5, <1>6, <1>7, <1>8, <1>9, <1>10, <1>11, <1>12, <1>13, <1>14, <1>15,
     <1>16, <1>17, <1>18, <1>19, <1>20, <1>21, <1>22, <1>23, <1>24, <1>25, <1>26, <1>27, <1>28 DEF Next, Alive, CheckStep, OperatorStep, Operators

\* A count below or at the limit.
LEMMA FailsOrNot == \A n \in Nat : n + 1 >= FailureLimit \/ n + 1 < FailureLimit
  BY RecoveryAssumption

\* A check that does something has a deployment, and what it has read is a record.
LEMMA ReadNumbers ==
    ASSUME Typed, NEW c \in Checkers, pc[c] # "idle"
    PROVE  /\ loc[c].dir \in Dirs /\ loc[c].rec \in Records /\ c \in Procs
           /\ loc[c].rec.failures \in Nat /\ loc[c].rec.restarts \in Nat /\ Open(loc[c].rec) \in {0, 1}
           /\ rec \in [Dirs -> Records] /\ tries \in [Dirs -> Nat]
<1>1. c \in Procs /\ loc[c] \in Locals
  BY RecoveryAssumption DEF Typed, TypeOK
<1>2. loc[c].dir \in Dirs /\ loc[c].rec \in Records
  BY <1>1 DEF Typed, Located, Locals
<1> QED
  BY <1>1, <1>2 DEF Records, Open, Typed, TypeOK

\* A check that counts an interrupted attempt.
LEMMA InterruptedCounts ==
    ASSUME Typed, Bounded, NEW c \in Checkers, CheckInterrupted(c)
    PROVE  LET d == loc[c].dir
           IN  /\ rec'[d].failures = loc[c].rec.failures + 1 /\ rec'[d].attempt = NoAttempt
               /\ rec'[d].restarts = rec[d].restarts /\ (~rec'[d].stopped => rec'[d].failures < FailureLimit)
               /\ UNCHANGED tries /\ tries[d] <= rec'[d].failures
               /\ \A e \in Dirs \ {d} : rec'[e] = rec[e]
<1> DEFINE d == loc[c].dir
<1>1. /\ d \in Dirs /\ loc[c].rec \in Records /\ loc[c].rec.failures \in Nat /\ Open(loc[c].rec) \in {0, 1}
      /\ rec \in [Dirs -> Records] /\ tries \in [Dirs -> Nat]
  BY ReadNumbers DEF CheckInterrupted
<1>2. PICK key : rec' = [rec EXCEPT ![d] = [Failed(rec[d], loc[c].rec) EXCEPT !.left = key]]
  BY DEF CheckInterrupted, Update
<1>3. UNCHANGED tries
  BY DEF CheckInterrupted, History, Counts
<1>4. /\ rec'[d].failures = loc[c].rec.failures + 1 /\ rec'[d].attempt = NoAttempt
      /\ rec'[d].restarts = rec[d].restarts /\ (~rec'[d].stopped => loc[c].rec.failures + 1 < FailureLimit)
  <2>1. rec'[d] = [Failed(rec[d], loc[c].rec) EXCEPT !.left = key] /\ rec[d] \in Records
    BY <1>1, <1>2
  <2>2. /\ rec'[d].failures = loc[c].rec.failures + 1 /\ rec'[d].attempt = NoAttempt
        /\ rec'[d].restarts = rec[d].restarts /\ rec'[d].stopped = (loc[c].rec.failures + 1 >= FailureLimit)
    BY <1>1, <2>1 DEF Failed, Records
  <2> QED
    BY <1>1, <2>2, FailsOrNot
<1>5. tries[d] <= loc[c].rec.failures + Open(loc[c].rec)
  BY DEF Bounded, Tried, Early, CheckInterrupted
<1>6. tries[d] <= rec'[d].failures
  BY <1>1, <1>4, <1>5
<1> QED
  BY <1>1, <1>2, <1>3, <1>4, <1>6

\* A check that begins an attempt, or finds that there is nothing to do.
LEMMA BeginCounts ==
    ASSUME Typed, Bounded, NEW c \in Checkers, AttemptBegin(c)
    PROVE  LET d == loc[c].dir
           IN  /\ \/ pc'[c] = "idle" /\ UNCHANGED tries /\ Alike(rec[d], rec'[d])
                  \/ /\ pc'[c] = "acting" /\ loc' = loc /\ tries' = [tries EXCEPT ![d] = @ + 1]
                     /\ rec'[d].attempt # NoAttempt
               /\ rec'[d].failures = rec[d].failures /\ rec'[d].restarts = rec[d].restarts
               /\ rec'[d].stopped = rec[d].stopped /\ rec'[d].enabled = rec[d].enabled
               /\ rec[d].attempt = NoAttempt
               /\ \A e \in Dirs \ {d} : rec'[e] = rec[e]
<1> DEFINE d == loc[c].dir
<1>1. d \in Dirs /\ rec \in [Dirs -> Records] /\ tries \in [Dirs -> Nat] /\ c \in Procs /\ pc \in [Procs -> CheckLabels \cup OpLabels]
  BY ReadNumbers DEF AttemptBegin, Typed, TypeOK
<1>2. loc[c].key[1] \in Nat
  BY <1>1, Values DEF AttemptBegin, Typed, KeyRead
<1>3. rec[d].attempt = NoAttempt
  BY DEF Bounded, Tried, Settled, AttemptBegin
<1>4. CASE rec' = [rec EXCEPT ![d] = [rec[d] EXCEPT !.pending = 0]] /\ pc' = [pc EXCEPT ![c] = "idle"] /\ UNCHANGED tries
  <2>1. rec'[d] = [rec[d] EXCEPT !.pending = 0] /\ rec[d] \in Records
    BY <1>1, <1>4
  <2>2. Alike(rec[d], rec'[d]) /\ rec'[d].stopped = rec[d].stopped /\ rec'[d].enabled = rec[d].enabled
    <3> HIDE DEF d
    <3>1. Alike(rec[d], rec'[d])
      BY <2>1 DEF Alike, Records
    <3>2. rec'[d].stopped = rec[d].stopped /\ rec'[d].enabled = rec[d].enabled
      BY <2>1 DEF Records
    <3> QED
      BY <3>1, <3>2
  <2> QED
    BY <1>1, <1>3, <1>4, <2>2 DEF Alike
<1>5. CASE /\ rec' = [rec EXCEPT ![d] = [rec[d] EXCEPT !.attempt = loc[c].key[1], !.pending = 0]]
           /\ pc' = [pc EXCEPT ![c] = "acting"] /\ loc' = loc /\ tries' = [tries EXCEPT ![d] = @ + 1]
  <2>1. rec'[d] = [rec[d] EXCEPT !.attempt = loc[c].key[1], !.pending = 0] /\ rec[d] \in Records
    BY <1>1, <1>5
  <2>2. /\ rec'[d].failures = rec[d].failures /\ rec'[d].restarts = rec[d].restarts
        /\ rec'[d].stopped = rec[d].stopped /\ rec'[d].enabled = rec[d].enabled /\ rec'[d].attempt = loc[c].key[1]
    BY <2>1 DEF Records
  <2>3. rec'[d].attempt # NoAttempt
    BY <1>2, <2>2 DEF NoAttempt
  <2> QED
    BY <1>1, <1>3, <1>5, <2>2, <2>3
<1> QED
  BY <1>4, <1>5 DEF AttemptBegin, Update, Goto, End

\* A check that records the result of its attempt.
LEMMA RecordCounts ==
    ASSUME Typed, Bounded, NEW c \in Checkers, AttemptRecord(c)
    PROVE  LET d == loc[c].dir
           IN  /\ \/ /\ loc[c].seen = "serving"
                     /\ rec'[d].failures = 0 /\ tries' = [tries EXCEPT ![d] = 0]
                     /\ rec'[d].restarts = loc[c].rec.restarts + 1
                  \/ /\ loc[c].seen # "serving"
                     /\ rec'[d].failures = loc[c].rec.failures + 1 /\ rec'[d].restarts = rec[d].restarts
                     /\ (~rec'[d].stopped => rec'[d].failures < FailureLimit)
                     /\ UNCHANGED tries
               /\ pc'[c] = "idle" /\ \A e \in Dirs \ {d} : rec'[e] = rec[e]
<1> DEFINE d == loc[c].dir
<1>1. /\ d \in Dirs /\ rec \in [Dirs -> Records] /\ c \in Procs /\ pc \in [Procs -> CheckLabels \cup OpLabels]
      /\ rec[d] \in Records /\ loc[c].rec \in Records
  BY ReadNumbers DEF AttemptRecord, Typed, TypeOK
<1>2. pc'[c] = "idle"
  BY <1>1 DEF AttemptRecord, End, Goto
<1>3. CASE loc[c].seen = "serving"
  <2>1. /\ rec' = [rec EXCEPT ![d] = [rec[d] EXCEPT !.attempt = NoAttempt, !.failures = 0, !.backoff = FALSE,
                                            !.left = NoKey, !.restarts = loc[c].rec.restarts + 1]]
        /\ tries' = [tries EXCEPT ![d] = 0]
    BY <1>3 DEF AttemptRecord, Update
  <2>2. rec'[d].failures = 0 /\ rec'[d].restarts = loc[c].rec.restarts + 1
    BY <1>1, <2>1 DEF Records
  <2> QED
    BY <1>1, <1>2, <1>3, <2>1, <2>2
<1>4. CASE loc[c].seen # "serving"
  <2>1. rec' = [rec EXCEPT ![d] = [Failed(rec[d], loc[c].rec) EXCEPT !.left = loc[c].key]] /\ UNCHANGED tries
    BY <1>4 DEF AttemptRecord, Update
  <2>2. /\ rec'[d].failures = loc[c].rec.failures + 1 /\ rec'[d].restarts = rec[d].restarts
        /\ (~rec'[d].stopped => loc[c].rec.failures + 1 < FailureLimit)
    <3>1. rec'[d] = [Failed(rec[d], loc[c].rec) EXCEPT !.left = loc[c].key]
      BY <1>1, <2>1
    <3>2. /\ rec'[d].failures = loc[c].rec.failures + 1
          /\ rec'[d].restarts = rec[d].restarts /\ rec'[d].stopped = (loc[c].rec.failures + 1 >= FailureLimit)
      BY <1>1, <3>1 DEF Failed, Records
    <3>3. loc[c].rec.failures \in Nat
      BY <1>1 DEF Records
    <3> QED
      BY <3>2, <3>3, FailsOrNot
  <2> QED
    BY <1>1, <1>2, <1>4, <2>1, <2>2
<1> QED
  BY <1>3, <1>4

\* A deployment whose counters and record stay.
LEMMA CountedKept ==
    ASSUME NEW e \in Dirs, Counted(e), rec'[e] = rec[e], tries'[e] = tries[e]
    PROVE  Counted(e)'
  BY DEF Counted, Open

\* Every step keeps the count.
LEMMA CountedStep ==
    ASSUME Typed, Bounded, [Next]_vars, NEW e \in Dirs
    PROVE  Counted(e)'
<1>0. /\ rec[e].failures \in Nat /\ rec[e].restarts \in Nat /\ tries[e] \in Nat
      /\ FailureLimit \in Nat \ {0} /\ RestartLimit \in Nat \ {0} /\ Counted(e)
  BY Numbers DEF Typed, Bounded
<1>00. Typed'
  BY TypedStep
<1>01. /\ rec'[e].failures \in Nat /\ rec'[e].restarts \in Nat /\ tries'[e] \in Nat
       /\ Open(rec'[e]) \in {0, 1}
  BY <1>00 DEF Typed, TypeOK, Records, Open
<1>1. CASE Gentle(e)
  BY <1>0, <1>01, <1>1 DEF Gentle, Counted
<1>2. ASSUME NEW c \in Checkers, CheckInterrupted(c) PROVE Counted(e)'
  <2>1. CASE e # loc[c].dir
    BY <1>0, <1>2, <2>1, InterruptedCounts, CountedKept
  <2>2. CASE e = loc[c].dir
    <3>1. /\ rec'[e].restarts = rec[e].restarts /\ (~rec'[e].stopped => rec'[e].failures < FailureLimit)
          /\ tries'[e] = tries[e] /\ tries[e] <= rec'[e].failures
      BY <1>2, <2>2, InterruptedCounts
    <3> QED
      BY <1>0, <1>01, <3>1 DEF Counted
  <2> QED
    BY <2>1, <2>2
<1>3. ASSUME NEW c \in Checkers, AttemptBegin(c) PROVE Counted(e)'
  <2>0. loc[c].dir \in Dirs /\ tries \in [Dirs -> Nat] /\ loc[c].rec.failures \in Nat
    BY <1>3, ReadNumbers DEF AttemptBegin
  <2>1. CASE e # loc[c].dir
    <3>1. rec'[e] = rec[e] /\ tries'[e] = tries[e]
      BY <1>3, <2>0, <2>1, BeginCounts
    <3> QED
      BY <1>0, <3>1, CountedKept
  <2>2. CASE e = loc[c].dir
    <3>1. /\ rec'[e].failures = rec[e].failures /\ rec'[e].restarts = rec[e].restarts
          /\ rec'[e].stopped = rec[e].stopped /\ Open(rec[e]) = 0
      BY <1>3, <2>2, BeginCounts DEF Open
    <3>2. CASE tries'[e] = tries[e]
      BY <1>0, <1>01, <3>1, <3>2 DEF Counted
    <3>3. CASE tries'[e] = tries[e] + 1 /\ Open(rec'[e]) = 1
      <4>1. tries[e] <= loc[c].rec.failures /\ loc[c].rec.failures < FailureLimit
        BY <1>3, <2>2 DEF Bounded, Tried, Settled, AttemptBegin
      <4>2. tries'[e] <= FailureLimit
        BY <1>0, <2>0, <3>3, <4>1
      <4>3. tries'[e] <= rec'[e].failures + Open(rec'[e])
        BY <1>0, <3>1, <3>3 DEF Counted
      <4> QED
        BY <1>0, <3>1, <4>2, <4>3 DEF Counted
    <3> QED
      BY <1>3, <2>0, <2>2, <3>2, <3>3, BeginCounts DEF Open
  <2> QED
    BY <2>1, <2>2
<1>4. ASSUME NEW c \in Checkers, AttemptRecord(c) PROVE Counted(e)'
  <2>0. /\ loc[c].dir \in Dirs /\ tries \in [Dirs -> Nat]
        /\ loc[c].rec.failures \in Nat /\ loc[c].rec.restarts \in Nat
    BY <1>4, ReadNumbers DEF AttemptRecord
  <2>1. CASE e # loc[c].dir
    <3>1. rec'[e] = rec[e] /\ tries'[e] = tries[e]
      BY <1>4, <2>0, <2>1, RecordCounts
    <3> QED
      BY <1>0, <3>1, CountedKept
  <2>2. CASE e = loc[c].dir
    <3>0. tries[e] <= loc[c].rec.failures + 1 /\ loc[c].rec.restarts < RestartLimit
      BY <1>4, <2>2 DEF Bounded, Tried, Restarts, Under, AttemptRecord
    <3>1. CASE /\ rec'[e].failures = 0 /\ tries'[e] = 0
               /\ rec'[e].restarts = loc[c].rec.restarts + 1
      BY <1>0, <1>01, <2>0, <3>0, <3>1 DEF Counted
    <3>2. CASE /\ rec'[e].failures = loc[c].rec.failures + 1 /\ rec'[e].restarts = rec[e].restarts
               /\ (~rec'[e].stopped => rec'[e].failures < FailureLimit)
               /\ tries'[e] = tries[e]
      BY <1>0, <1>01, <2>0, <3>0, <3>2 DEF Counted
    <3> QED
      BY <1>4, <2>0, <2>2, <3>1, <3>2, RecordCounts
  <2> QED
    BY <2>1, <2>2
<1> QED
  BY <1>0, <1>1, <1>2, <1>3, <1>4, GentleStep

Past == {"lock", "locked", "rechecked", "acting", "ended"}

\* The check ends: it has read nothing.
LEMMA ReadingEnds == ASSUME NEW k \in Checkers, pc'[k] = "idle" PROVE Tried(k)' /\ Restarts(k)'
  BY DEF Tried, Restarts, Early, Settled, Under

\* The failures that a check has read stay valid while it goes on and others take gentle steps.
LEMMA TriedMoves ==
    ASSUME Typed, Typed', Bounded, NEW k \in Checkers, pc[k] # "idle", pc'[k] # "idle",
           loc'[k].dir = loc[k].dir, loc'[k].rec.failures = loc[k].rec.failures, loc'[k].rec.attempt = loc[k].rec.attempt,
           Gentle(loc[k].dir),
           pc[k] \in Early => pc'[k] \in Early \/ (pc'[k] \in Settled /\ loc[k].rec.attempt = NoAttempt),
           pc[k] \in Settled => pc'[k] \in Settled,
           pc[k] \in Under => pc'[k] \in Under,
           pc'[k] = "interrupted" => loc[k].rec.attempt # NoAttempt,
           pc'[k] \in {"rechecked", "acting", "ended"} => pc[k] \in {"rechecked", "acting", "ended"}
    PROVE  Tried(k)'
<1> DEFINE d == loc[k].dir
           r == loc[k].rec
<1>0. /\ d \in Dirs /\ r.failures \in Nat /\ Open(r) \in {0, 1} /\ tries[d] \in Nat
  BY ReadNumbers
<1>1. tries'[d] \in Nat
  BY <1>0 DEF Typed, TypeOK
<1>2. /\ tries'[d] <= tries[d] /\ (rec'[d].attempt # NoAttempt => rec[d].attempt # NoAttempt)
  BY DEF Gentle
<1>3. Open(loc'[k].rec) = Open(r)
  BY DEF Open
<1>4. pc[k] \in Early \cup Settled \cup Under
  BY RecoveryAssumption DEF Typed, TypeOK, CheckLabels, Early, Settled, Under
<1>5. Tried(k)
  BY DEF Bounded
<1>6. CASE pc[k] \in Early
  <2>1. tries[d] <= r.failures + Open(r) /\ (rec[d].attempt # NoAttempt => r.attempt # NoAttempt)
    BY <1>5, <1>6 DEF Tried
  <2>2. tries'[d] <= r.failures + Open(r) /\ (r.attempt = NoAttempt => Open(r) = 0)
    BY <1>0, <1>1, <1>2, <2>1 DEF Open
  <2>3. pc'[k] \notin Under /\ pc'[k] \notin {"rechecked", "acting", "ended"}
    BY <1>6 DEF Early, Settled, Under
  <2>4. CASE pc'[k] \in Early
    BY <1>2, <1>3, <2>1, <2>2, <2>3, <2>4 DEF Tried, Early, Settled
  <2>5. CASE pc'[k] \in Settled /\ r.attempt = NoAttempt
    BY <1>0, <1>1, <1>2, <2>1, <2>2, <2>3, <2>5 DEF Tried, Early, Settled
  <2> QED
    BY <1>6, <2>4, <2>5
<1>7. CASE pc[k] \in Settled
  <2>1. tries[d] <= r.failures /\ r.attempt = NoAttempt /\ rec[d].attempt = NoAttempt
    BY <1>5, <1>7 DEF Tried
  <2>2. tries'[d] <= r.failures
    BY <1>0, <1>1, <1>2, <2>1
  <2>3. pc'[k] \in {"rechecked", "acting", "ended"} => r.failures < FailureLimit
    BY <1>5 DEF Tried
  <2>4. pc'[k] \notin Under /\ pc'[k] \notin Early
    BY <1>7 DEF Early, Settled, Under
  <2> QED
    BY <1>2, <2>1, <2>2, <2>3, <2>4 DEF Tried, Early
<1>8. CASE pc[k] \in Under
  <2>1. tries[d] <= r.failures + 1
    BY <1>5, <1>8 DEF Tried
  <2>2. tries'[d] <= r.failures + 1
    BY <1>0, <1>1, <1>2, <2>1
  <2>3. pc'[k] \in {"rechecked", "acting", "ended"} => r.failures < FailureLimit
    BY <1>5 DEF Tried
  <2>4. pc'[k] \notin Settled /\ pc'[k] \notin Early
    BY <1>8 DEF Early, Settled, Under
  <2> QED
    BY <2>2, <2>3, <2>4 DEF Tried, Early
<1> QED
  BY <1>4, <1>6, <1>7, <1>8

\* So do the restarts.
LEMMA RestartsMove ==
    ASSUME Typed, Typed', Bounded, NEW k \in Checkers, pc[k] # "idle", pc'[k] # "idle",
           loc'[k].dir = loc[k].dir, loc'[k].rec.restarts = loc[k].rec.restarts,
           rec'[loc[k].dir].restarts <= rec[loc[k].dir].restarts,
           pc'[k] \in Past => pc[k] \in Past \/ loc[k].rec.restarts < RestartLimit
    PROVE  Restarts(k)'
<1> DEFINE d == loc[k].dir
           r == loc[k].rec
<1>0. d \in Dirs /\ r.restarts \in Nat /\ rec[d].restarts \in Nat
  BY ReadNumbers DEF Records
<1>1. rec'[d].restarts \in Nat
  BY <1>0 DEF Typed, TypeOK, Records
<1>2. Restarts(k)
  BY DEF Bounded
<1>3. rec[d].restarts <= r.restarts
  BY <1>2 DEF Restarts
<1>4. rec'[d].restarts <= r.restarts
  BY <1>0, <1>1, <1>3
<1>5. pc'[k] \in Past => r.restarts < RestartLimit
  BY <1>2 DEF Restarts, Past
<1> QED
  BY <1>4, <1>5 DEF Restarts, Past

\* A check at a step of its own, or a check that another process's step leaves alone.
LEMMA ReadingMoves ==
    ASSUME Typed, Typed', Bounded, NEW k \in Checkers, pc[k] # "idle",
           loc'[k].dir = loc[k].dir, loc'[k].rec.failures = loc[k].rec.failures,
           loc'[k].rec.attempt = loc[k].rec.attempt, loc'[k].rec.restarts = loc[k].rec.restarts, Gentle(loc[k].dir),
           \/ pc'[k] = pc[k]
           \/ pc[k] = "loaded" /\ pc'[k] = "free"
           \/ pc[k] = "free" /\ pc'[k] = "interrupted" /\ loc[k].rec.attempt # NoAttempt
           \/ pc[k] = "free" /\ pc'[k] = "saved" /\ loc[k].rec.attempt = NoAttempt
           \/ pc[k] = "saved" /\ pc'[k] = "observed"
           \/ pc[k] = "observed" /\ pc'[k] = "lock" /\ loc[k].rec.restarts < RestartLimit
           \/ pc[k] = "lock" /\ pc'[k] = "locked"
           \/ pc[k] = "acting" /\ pc'[k] = "ended"
    PROVE  Tried(k)' /\ Restarts(k)'
<1>0. Tried(k)
  BY DEF Bounded
<1>1. /\ pc'[k] # "idle"
      /\ pc[k] \in Early => pc'[k] \in Early \/ (pc'[k] \in Settled /\ loc[k].rec.attempt = NoAttempt)
      /\ pc[k] \in Settled => pc'[k] \in Settled
      /\ pc[k] \in Under => pc'[k] \in Under
      /\ pc'[k] \in {"rechecked", "acting", "ended"} => pc[k] \in {"rechecked", "acting", "ended"}
      /\ pc'[k] \in Past => pc[k] \in Past \/ loc[k].rec.restarts < RestartLimit
  BY DEF Early, Settled, Under, Past
<1>2. pc'[k] = "interrupted" => loc[k].rec.attempt # NoAttempt
  BY <1>0 DEF Tried
<1>3. Tried(k)'
  BY <1>1, <1>2, TriedMoves
<1> QED
  BY <1>1, <1>3, RestartsMove DEF Gentle

\* No check counts a failure, begins an attempt or records a result in this step.
NotCounting == \A c \in Checkers : ~CheckInterrupted(c) /\ ~AttemptBegin(c) /\ ~AttemptRecord(c)

\* What a check has read stays valid in every step that does not count, by actions.
LEMMA ReadingStep ==
    ASSUME Typed, Bounded, [Next]_vars, NotCounting, NEW k \in Checkers
    PROVE  Tried(k)' /\ Restarts(k)'
<1>0. k \in Procs /\ pc \in [Procs -> CheckLabels \cup OpLabels] /\ loc \in [Procs -> Locals]
  BY RecoveryAssumption DEF Typed, TypeOK
<1>00. /\ Typed' /\ \A e \in Dirs : Gentle(e)
  BY TypedStep, GentleStep DEF Bounded, NotCounting
<1>01. pc[k] # "idle" => loc[k].dir \in Dirs
  BY ReadNumbers
<1> USE RecoveryAssumption
<1>1. ASSUME NEW c \in Checkers, Check(c) PROVE Tried(k)' /\ Restarts(k)'
  <2>0. c = k
    BY OneCheckAssumption
  <2>1. /\ pc'[k] = "loaded" /\ loc'[k].dir = active /\ loc'[k].rec = rec[active] /\ UNCHANGED <<rec, tries>>
        /\ active \in Dirs
    BY <1>1, <1>0, <2>0 DEF Check, Goto, History, Counts, Locals, Typed, TypeOK
  <2>2. /\ tries[active] <= rec[active].failures + Open(rec[active])
        /\ rec[active].restarts \in Nat
    BY <2>1, Numbers DEF Bounded, Counted, Typed
  <2>3. Tried(k)'
    BY <2>1, <2>2 DEF Tried, Early, Settled, Under
  <2>4. Restarts(k)'
    BY <2>1, <2>2 DEF Restarts
  <2> QED
    BY <2>3, <2>4
<1>2. ASSUME NEW c \in Checkers, CheckOff(c) PROVE Tried(k)' /\ Restarts(k)'
  <2>1. pc'[k] = pc[k] /\ loc'[k].dir = loc[k].dir /\ loc'[k].rec = loc[k].rec
    BY <1>2, <1>0 DEF CheckOff, Operators, Env, vars, rvars
  <2> QED
    BY <2>1, <1>00, <1>01, ReadingMoves, ReadingEnds
<1>3. ASSUME NEW c \in Checkers, CheckBusy(c) PROVE Tried(k)' /\ Restarts(k)'
  <2>0. c = k
    BY OneCheckAssumption
  <2>1. /\ pc[k] = "loaded"
        /\ pc'[k] = "idle" \/ (pc'[k] = "free" /\ loc'[k].dir = loc[k].dir /\ loc'[k].rec = loc[k].rec)
    BY <1>3, <1>0, <2>0 DEF CheckBusy, Goto, End, Locals
  <2> QED
    BY <2>1, <1>00, <1>01, ReadingMoves, ReadingEnds
<1>4. ASSUME NEW c \in Checkers, CheckState(c) PROVE Tried(k)' /\ Restarts(k)'
  <2>0. c = k
    BY OneCheckAssumption
  <2>1. /\ pc[k] = "free"
        /\ (pc'[k] = (IF loc[k].rec.attempt # NoAttempt THEN "interrupted" ELSE "saved") /\ loc'[k].dir = loc[k].dir /\ loc'[k].rec = loc[k].rec)
    BY <1>4, <1>0, <2>0 DEF CheckState, Goto, End, Locals
  <2> QED
    BY <2>1, <1>00, <1>01, ReadingMoves, ReadingEnds
<1>5. ASSUME NEW c \in Checkers, CheckInterrupted(c) PROVE Tried(k)' /\ Restarts(k)'
  BY <1>5 DEF NotCounting
<1>6. ASSUME NEW c \in Checkers, CheckObserve(c) PROVE Tried(k)' /\ Restarts(k)'
  <2>0. c = k
    BY OneCheckAssumption
  <2>1. pc[k] = "saved"
    BY <1>6, <2>0 DEF CheckObserve
  <2>2. pc' = [pc EXCEPT ![c] = "idle"] \/ (pc' = [pc EXCEPT ![c] = "observed"] /\ loc' = [loc EXCEPT ![c].seen = Finding(loc[c].dir)])
    BY <1>6 DEF CheckObserve, Goto, End
  <2>3. pc'[k] = "idle" \/ (pc'[k] = "observed" /\ loc'[k].dir = loc[k].dir /\ loc'[k].rec = loc[k].rec)
    <3>1. CASE pc' = [pc EXCEPT ![c] = "idle"]
      BY <1>0, <2>0, <3>1
    <3>2. CASE pc' = [pc EXCEPT ![c] = "observed"] /\ loc' = [loc EXCEPT ![c].seen = Finding(loc[c].dir)]
      BY <1>0, <2>0, <3>2 DEF Locals
    <3> QED
      BY <2>2, <3>1, <3>2
  <2> QED
    BY <2>1, <2>3, <1>00, <1>01, ReadingMoves, ReadingEnds
<1>7. ASSUME NEW c \in Checkers, CheckDecide(c) PROVE Tried(k)' /\ Restarts(k)'
  <2>0. c = k
    BY OneCheckAssumption
  <2>1. pc[k] = "observed" /\ (pc'[k] = "idle" \/ (pc'[k] = "lock" /\ loc' = loc /\ ~Exhausted(loc[k].rec)))
    BY <1>7, <1>0, <2>0 DEF CheckDecide, Goto, End
  <2>2. ~Exhausted(loc[k].rec) => loc[k].rec.restarts < RestartLimit
    BY <2>1, ReadNumbers, RecoveryAssumption DEF Exhausted
  <2> QED
    BY <2>1, <2>2, <1>00, <1>01, ReadingMoves, ReadingEnds
<1>8. ASSUME NEW c \in Checkers, AttemptLock(c) PROVE Tried(k)' /\ Restarts(k)'
  <2>0. c = k
    BY OneCheckAssumption
  <2>1. pc[k] = "lock"
    BY <1>8, <2>0 DEF AttemptLock
  <2>2. pc' = [pc EXCEPT ![c] = "idle"] \/ (pc' = [pc EXCEPT ![c] = "locked"] /\ loc' = [loc EXCEPT ![c].over = hold # None])
    BY <1>8 DEF AttemptLock, Goto, End
  <2>3. pc'[k] = "idle" \/ (pc'[k] = "locked" /\ loc'[k].dir = loc[k].dir /\ loc'[k].rec = loc[k].rec)
    <3>1. CASE pc' = [pc EXCEPT ![c] = "idle"]
      BY <1>0, <2>0, <3>1
    <3>2. CASE pc' = [pc EXCEPT ![c] = "locked"] /\ loc' = [loc EXCEPT ![c].over = hold # None]
      BY <1>0, <2>0, <3>2 DEF Locals
    <3> QED
      BY <2>2, <3>1, <3>2
  <2> QED
    BY <2>1, <2>3, <1>00, <1>01, ReadingMoves, ReadingEnds
<1>9. ASSUME NEW c \in Checkers, AttemptRecheck(c) PROVE Tried(k)' /\ Restarts(k)'
  <2>0. c = k
    BY OneCheckAssumption
  <2>1. CASE pc'[k] = "idle"
    BY <2>1, ReadingEnds
  <2>2. CASE pc'[k] # "idle"
    <3> DEFINE d == loc[k].dir
               r == loc[k].rec
    <3>1. /\ pc'[k] = "rechecked" /\ loc'[k].dir = d /\ loc'[k].rec = rec[d] /\ UNCHANGED <<rec, tries>>
          /\ pc[k] = "locked" /\ ~rec[d].stopped
      <4>1. pc' # [pc EXCEPT ![c] = "idle"]
        BY <1>0, <2>0, <2>2
      <4>2. Permitted(d) /\ loc' = [loc EXCEPT ![c].rec = rec[loc[c].dir]] /\ pc' = [pc EXCEPT ![c] = "rechecked"] /\ rec' = rec
        BY <1>9, <2>0, <4>1 DEF AttemptRecheck, Goto, End
      <4>3. loc'[k].dir = d /\ loc'[k].rec = rec[d]
        BY <1>0, <2>0, <4>2 DEF Locals
      <4>4. pc'[k] = "rechecked"
        BY <1>0, <2>0, <4>2
      <4> QED
        BY <1>9, <2>0, <4>2, <4>3, <4>4 DEF AttemptRecheck, History, Counts, Permitted
    <3>2. d \in Dirs /\ rec[d].restarts \in Nat /\ r.restarts \in Nat /\ tries[d] \in Nat /\ rec[d].failures \in Nat
      BY <3>1, ReadNumbers, Numbers DEF Typed
    <3>3. rec[d].attempt = NoAttempt /\ rec[d].restarts <= r.restarts /\ r.restarts < RestartLimit
      BY <3>1 DEF Bounded, Tried, Restarts, Settled
    <3>4. /\ tries[d] <= rec[d].failures + Open(rec[d])
          /\ rec[d].failures < FailureLimit
      BY <3>1, <3>2 DEF Bounded, Counted
    <3>5. Open(rec[d]) = 0 /\ rec[d].restarts < RestartLimit
      BY <3>2, <3>3, RecoveryAssumption DEF Open
    <3>6. tries[d] <= rec[d].failures
      BY <3>2, <3>4, <3>5
    <3> HIDE DEF d, r
    <3>7. Tried(k)'
      BY <3>1, <3>3, <3>4, <3>6 DEF Tried, Early, Settled, Under
    <3>8. Restarts(k)'
      BY <3>1, <3>2, <3>4, <3>5 DEF Restarts
    <3> QED
      BY <3>7, <3>8
  <2> QED
    BY <2>1, <2>2
<1>10. ASSUME NEW c \in Checkers, AttemptBegin(c) PROVE Tried(k)' /\ Restarts(k)'
  BY <1>10 DEF NotCounting
<1>11. ASSUME NEW c \in Checkers, AttemptEnd(c) PROVE Tried(k)' /\ Restarts(k)'
  <2>0. c = k
    BY OneCheckAssumption
  <2>1. pc[k] = "acting" /\ pc'[k] = "ended"
    BY <1>11, <1>0, <2>0 DEF AttemptEnd, Goto
  <2>2. PICK key, seen : loc' = [loc EXCEPT ![c].key = key, ![c].seen = seen]
    BY <1>11, Zenon DEF AttemptEnd
  <2>3. loc'[k].dir = loc[k].dir /\ loc'[k].rec = loc[k].rec
    BY <1>0, <2>0, <2>2 DEF Locals
  <2> QED
    BY <2>1, <2>3, <1>00, <1>01, ReadingMoves, ReadingEnds
<1>12. ASSUME NEW c \in Checkers, AttemptRecord(c) PROVE Tried(k)' /\ Restarts(k)'
  BY <1>12 DEF NotCounting
<1>13. ASSUME NEW c \in Checkers, Killed(c) PROVE Tried(k)' /\ Restarts(k)'
  <2>0. c = k
    BY OneCheckAssumption
  <2>1. pc'[k] = "idle"
    BY <1>13, <1>0, <2>0 DEF Killed, End, Goto
  <2> QED
    BY <2>1, ReadingEnds
<1>14. ASSUME NEW p \in Operators, Command(p) PROVE Tried(k)' /\ Restarts(k)'
  <2>1. pc'[k] = pc[k] /\ loc'[k].dir = loc[k].dir /\ loc'[k].rec = loc[k].rec
    BY <1>14, <1>0 DEF Command, Goto, Operators, Env, vars, rvars
  <2> QED
    BY <2>1, <1>00, <1>01, ReadingMoves, ReadingEnds
<1>15. ASSUME NEW p \in Operators, HoldWrite(p) PROVE Tried(k)' /\ Restarts(k)'
  <2>0. k # p /\ k \in Checkers /\ pc'[k] = pc[k]
    BY <1>15, <1>0 DEF HoldWrite, Goto, Operators
  <2>1. loc'[k] = [loc[k] EXCEPT !.over = loc[k].over /\ hold' # None]
    BY <1>15, <1>0, <2>0 DEF HoldWrite
  <2>2. loc'[k].dir = loc[k].dir /\ loc'[k].rec = loc[k].rec
    <3>1. PICK b : loc'[k] = [loc[k] EXCEPT !.over = b]
      BY <2>1, Zenon
    <3>2. loc[k] \in Locals
      BY <1>0
    <3> QED
      BY <3>1, <3>2 DEF Locals
  <2> QED
    BY <2>0, <2>2, <1>00, <1>01, ReadingMoves, ReadingEnds
<1>16. ASSUME NEW p \in Operators, OpLock(p) PROVE Tried(k)' /\ Restarts(k)'
  <2>1. pc'[k] = pc[k] /\ loc'[k].dir = loc[k].dir /\ loc'[k].rec = loc[k].rec
    BY <1>16, <1>0 DEF OpLock, Goto, End, Operators, Env, vars, rvars
  <2> QED
    BY <2>1, <1>00, <1>01, ReadingMoves, ReadingEnds
<1>17. ASSUME NEW p \in Operators, OpSet(p) PROVE Tried(k)' /\ Restarts(k)'
  <2>1. pc'[k] = pc[k] /\ loc'[k].dir = loc[k].dir /\ loc'[k].rec = loc[k].rec
    BY <1>17, <1>0 DEF OpSet, Goto, End, Operators, Env, vars, rvars
  <2> QED
    BY <2>1, <1>00, <1>01, ReadingMoves, ReadingEnds
<1>18. ASSUME NEW p \in Operators, OpForget(p) PROVE Tried(k)' /\ Restarts(k)'
  <2>1. pc'[k] = pc[k] /\ loc'[k].dir = loc[k].dir /\ loc'[k].rec = loc[k].rec
    BY <1>18, <1>0 DEF OpForget, Goto, Operators, Env, vars, rvars
  <2> QED
    BY <2>1, <1>00, <1>01, ReadingMoves, ReadingEnds
<1>19. ASSUME NEW p \in Operators, OpRecord(p) PROVE Tried(k)' /\ Restarts(k)'
  <2>1. pc'[k] = pc[k] /\ loc'[k].dir = loc[k].dir /\ loc'[k].rec = loc[k].rec
    BY <1>19, <1>0 DEF OpRecord, Goto, End, Operators, Env, vars, rvars
  <2> QED
    BY <2>1, <1>00, <1>01, ReadingMoves, ReadingEnds
<1>20. ASSUME NEW p \in Operators, OpStarted(p) PROVE Tried(k)' /\ Restarts(k)'
  <2>1. pc'[k] = pc[k] /\ loc'[k].dir = loc[k].dir /\ loc'[k].rec = loc[k].rec
    BY <1>20, <1>0 DEF OpStarted, Goto, End, Operators, Env, vars, rvars
  <2> QED
    BY <2>1, <1>00, <1>01, ReadingMoves, ReadingEnds
<1>21. ASSUME NEW p \in Procs, Operate(p) PROVE Tried(k)' /\ Restarts(k)'
  <2>1. pc'[k] = pc[k] /\ loc'[k].dir = loc[k].dir /\ loc'[k].rec = loc[k].rec
    BY <1>21, <1>0 DEF Operate, Operators, Env, vars, rvars
  <2> QED
    BY <2>1, <1>00, <1>01, ReadingMoves, ReadingEnds
<1>22. ASSUME NEW p \in Procs, OperateFail(p) PROVE Tried(k)' /\ Restarts(k)'
  <2>1. pc'[k] = pc[k] /\ loc'[k].dir = loc[k].dir /\ loc'[k].rec = loc[k].rec
    BY <1>22, <1>0 DEF OperateFail, Operators, Env, vars, rvars
  <2> QED
    BY <2>1, <1>00, <1>01, ReadingMoves, ReadingEnds
<1>23. ASSUME Trouble PROVE Tried(k)' /\ Restarts(k)'
  <2>1. pc'[k] = pc[k] /\ loc'[k].dir = loc[k].dir /\ loc'[k].rec = loc[k].rec
    BY <1>23, <1>0 DEF Trouble, Operators, Env, vars, rvars
  <2> QED
    BY <2>1, <1>00, <1>01, ReadingMoves, ReadingEnds
<1>24. ASSUME Repair PROVE Tried(k)' /\ Restarts(k)'
  <2>1. pc'[k] = pc[k] /\ loc'[k].dir = loc[k].dir /\ loc'[k].rec = loc[k].rec
    BY <1>24, <1>0 DEF Repair, Operators, Env, vars, rvars
  <2> QED
    BY <2>1, <1>00, <1>01, ReadingMoves, ReadingEnds
<1>25. ASSUME NEW d \in Dirs, Wait(d) PROVE Tried(k)' /\ Restarts(k)'
  <2>1. /\ pc'[k] = pc[k] /\ loc'[k].dir = loc[k].dir /\ loc'[k].rec.failures = loc[k].rec.failures
        /\ loc'[k].rec.attempt = loc[k].rec.attempt /\ loc'[k].rec.restarts = loc[k].rec.restarts
    BY <1>25, <1>0, Waits
  <2> QED
    BY <2>1, <1>00, <1>01, ReadingMoves, ReadingEnds
<1>26. ASSUME NEW d \in Dirs, Age(d) PROVE Tried(k)' /\ Restarts(k)'
  <2>0. pc'[k] = pc[k] /\ rec \in [Dirs -> Records] /\ loc[k] \in Locals
    BY <1>26, <1>0 DEF Age, Typed, TypeOK
  <2>1. CASE pc[k] = "idle"
    BY <2>0, <2>1, ReadingEnds
  <2>2. CASE pc[k] # "idle" /\ loc[k].dir # d
    <3>1. loc'[k] = loc[k]
      BY <1>26, <1>0, <2>2 DEF Age
    <3> QED
      BY <2>0, <2>2, <3>1, <1>00, <1>01, ReadingMoves
  <2>3. CASE pc[k] # "idle" /\ loc[k].dir = d
    <3>1. rec[d].restarts > 0 /\ rec[d].restarts \in Nat /\ loc[k].rec.restarts \in Nat
      BY <1>26, <2>3, Numbers, ReadNumbers DEF Age, Typed
    <3>2. rec[d].restarts <= loc[k].rec.restarts
      BY <2>3 DEF Bounded, Restarts
    <3>3. loc[k].rec.restarts > 0
      BY <3>1, <3>2
    <3>4. loc'[k] = [loc[k] EXCEPT !.rec.restarts = loc[k].rec.restarts - 1]
      BY <1>26, <1>0, <2>3, <3>3 DEF Age
    <3>5. /\ loc'[k].dir = d /\ loc'[k].rec.failures = loc[k].rec.failures /\ loc'[k].rec.attempt = loc[k].rec.attempt
          /\ loc'[k].rec.restarts = loc[k].rec.restarts - 1
      BY <2>0, <2>3, <3>4 DEF Locals, Records
    <3>6. Tried(k)'
      <4>1. pc'[k] = "interrupted" => loc[k].rec.attempt # NoAttempt
        BY <2>0 DEF Bounded, Tried
      <4> QED
        BY <2>0, <2>3, <3>5, <4>1, <1>00, <1>01, TriedMoves
    <3>7. rec'[d].restarts = rec[d].restarts - 1
      <4>1. rec'[d] = [rec[d] EXCEPT !.restarts = rec[d].restarts - 1] /\ rec[d] \in Records
        BY <1>26, <2>0 DEF Age, Update
      <4> QED
        BY <1>26, <4>1 DEF Age, Records
    <3>8. /\ rec'[d].restarts <= loc'[k].rec.restarts
          /\ loc'[k].rec.restarts < loc[k].rec.restarts
      BY <3>1, <3>2, <3>5, <3>7
    <3>9. pc[k] \in Past => loc'[k].rec.restarts < RestartLimit
      <4>1. pc[k] \in Past => loc[k].rec.restarts < RestartLimit
        BY DEF Bounded, Restarts, Past
      <4> QED
        BY <3>1, <3>5, <3>8, <4>1, RecoveryAssumption
    <3> QED
      BY <2>0, <3>5, <3>6, <3>8, <3>9 DEF Restarts, Past
  <2> QED
    BY <2>1, <2>2, <2>3
<1>27. ASSUME Late PROVE Tried(k)' /\ Restarts(k)'
  <2>1. pc'[k] = pc[k] /\ loc'[k].dir = loc[k].dir /\ loc'[k].rec = loc[k].rec
    BY <1>27 DEF Late
  <2> QED
    BY <2>1, <1>00, <1>01, ReadingMoves, ReadingEnds
<1>28. CASE UNCHANGED vars
  <2>1. pc'[k] = pc[k] /\ loc'[k].dir = loc[k].dir /\ loc'[k].rec = loc[k].rec
    BY <1>28, <1>0 DEF Operators, Env, vars, rvars
  <2> QED
    BY <2>1, <1>00, <1>01, ReadingMoves, ReadingEnds
<1> QED
  BY <1>1, <1>2, <1>3, <1>4, <1>5, <1>6, <1>7, <1>8, <1>9, <1>10, <1>11, <1>12, <1>13, <1>14, <1>15,
     <1>16, <1>17, <1>18, <1>19, <1>20, <1>21, <1>22, <1>23, <1>24, <1>25, <1>26, <1>27, <1>28 DEF Next, Alive, CheckStep, OperatorStep, Operators

\* What a check has read when it counts.
LEMMA CountingStep ==
    ASSUME Typed, Bounded, [Next]_vars, NEW k \in Checkers, CheckInterrupted(k) \/ AttemptBegin(k) \/ AttemptRecord(k)
    PROVE  Tried(k)' /\ Restarts(k)'
<1> DEFINE d == loc[k].dir
           r == loc[k].rec
<1>0. k \in Procs /\ pc \in [Procs -> CheckLabels \cup OpLabels] /\ loc \in [Procs -> Locals] /\ Typed'
  BY RecoveryAssumption, TypedStep DEF Typed, TypeOK
<1>1. pc[k] # "idle"
  BY DEF CheckInterrupted, AttemptBegin, AttemptRecord
<1>2. /\ d \in Dirs /\ r.failures \in Nat /\ r.restarts \in Nat /\ rec[d].restarts \in Nat
      /\ tries[d] \in Nat /\ tries \in [Dirs -> Nat]
  BY <1>1, ReadNumbers DEF Records
<1>3. CASE pc'[k] = "idle"
  BY <1>3, ReadingEnds
<1>4. CASE CheckInterrupted(k) /\ pc'[k] # "idle"
  <2>1. pc'[k] = "saved" /\ loc'[k].dir = d /\ loc'[k].rec = rec'[d]
    <3>1. PICK s : rec' = [rec EXCEPT ![d] = s] /\ loc' = [loc EXCEPT ![k].rec = s] /\ pc' = [pc EXCEPT ![k] = "saved"]
      <4>1. pc' # [pc EXCEPT ![k] = "idle"]
        BY <1>0, <1>4
      <4> QED
        BY <1>4, <4>1, Zenon DEF CheckInterrupted, Update, Goto, End
    <3>2. rec'[d] = s
      BY <1>2, <3>1 DEF Typed, TypeOK
    <3> QED
      BY <1>0, <3>1, <3>2 DEF Locals
  <2>2. /\ rec'[d].attempt = NoAttempt /\ rec'[d].restarts = rec[d].restarts /\ tries'[d] = tries[d]
        /\ tries[d] <= rec'[d].failures
    BY <1>4, InterruptedCounts
  <2> HIDE DEF d, r
  <2>4. Tried(k)'
    BY <2>1, <2>2 DEF Tried, Early, Settled, Under
  <2>5. Restarts(k)'
    BY <1>2, <2>1, <2>2 DEF Restarts
  <2> QED
    BY <2>4, <2>5
<1>5. CASE AttemptBegin(k) /\ pc'[k] # "idle"
  <2>1. /\ pc'[k] = "acting" /\ loc' = loc /\ tries'[d] = tries[d] + 1 /\ rec'[d].restarts = rec[d].restarts
        /\ pc[k] = "rechecked"
    BY <1>2, <1>5, BeginCounts DEF AttemptBegin
  <2>2. tries[d] <= r.failures /\ r.failures < FailureLimit
    BY <2>1 DEF Bounded, Tried, Settled
  <2>3. tries'[d] <= r.failures + 1
    BY <1>2, <2>1, <2>2
  <2>4. Tried(k)'
    BY <2>1, <2>2, <2>3 DEF Tried, Early, Settled, Under
  <2>5. Restarts(k)'
    BY <1>0, <1>1, <1>2, <2>1, RestartsMove DEF Past
  <2> QED
    BY <2>4, <2>5
<1>6. CASE AttemptRecord(k)
  BY <1>6, RecordCounts, ReadingEnds
<1> QED
  BY <1>3, <1>4, <1>5, <1>6

LEMMA BoundedStep == Typed /\ Bounded /\ [Next]_vars => Bounded'
<1> SUFFICES ASSUME Typed, Bounded, [Next]_vars PROVE Bounded'
  OBVIOUS
<1>1. \A e \in Dirs : Counted(e)'
  BY CountedStep
<1>2. ASSUME NEW k \in Checkers PROVE Tried(k)' /\ Restarts(k)'
  <2>1. CASE NotCounting
    BY <2>1, ReadingStep
  <2>2. CASE ~NotCounting
    <3>1. CheckInterrupted(k) \/ AttemptBegin(k) \/ AttemptRecord(k)
      BY <2>2, OneCheckAssumption DEF NotCounting
    <3> QED
      BY <3>1, CountingStep
  <2> QED
    BY <2>1, <2>2
<1> QED
  BY <1>1, <1>2 DEF Bounded

LEMMA BoundedInv == Spec => [](Typed /\ Bounded)
<1>1. Init => Bounded
  <2> SUFFICES ASSUME Init PROVE Bounded
    OBVIOUS
  <2>1. \A d \in Dirs : Counted(d)
    <3>1. Fresh.failures = 0 /\ Fresh.attempt = NoAttempt /\ Fresh.restarts = 0
      BY DEF Fresh
    <3>2. \A d \in Dirs : rec[d] = Fresh /\ tries[d] = 0
      BY DEF Init
    <3> QED
      BY <3>1, <3>2, RecoveryAssumption DEF Counted, Open
  <2>2. \A c \in Checkers : pc[c] = "idle"
    BY RecoveryAssumption DEF Init
  <2> QED
    BY <2>1, <2>2 DEF Bounded, Tried, Restarts, Early, Settled, Under
<1> QED
  BY <1>1, InitTyped, TypedStep, BoundedStep, PTL DEF Spec

\* FAILURE_LIMIT for any limits, deployments, operators and faults: recovery begins at most
\* FailureLimit attempts between two resets, although a check writes its result from a record it
\* read before, after it has released the locks, and although it may die at any point.
THEOREM AttemptsAreBounded == Spec => []AttemptsBounded
<1>1. Typed /\ Bounded => AttemptsBounded
  BY DEF Bounded, Counted, AttemptsBounded
<1> QED
  BY <1>1, BoundedInv, PTL

-----------------------------------------------------------------------------
(* What the operator has said stands when a check acts.                    *)

\* A check that has looked at the record under the locks acts on a record that is on, ...
Permits(c) == pc[c] \in {"rechecked", "acting"} => rec[loc[c].dir].enabled /\ ~rec[loc[c].dir].stopped

\* ... and under no hold that stood when it took them.
Unheld(c) == /\ pc[c] \in {"rechecked", "acting"} => ~loc[c].over
             /\ pc[c] = "locked" /\ loc[c].over => hold # None

Allowed == \A c \in Checkers : Permits(c) /\ Unheld(c)

\* While a check acts, no command holds the locks.
LEMMA CommandsWait ==
    ASSUME Typed, Locked, NEW k \in Checkers, pc[k] \in {"rechecked", "acting"}, NEW p \in Operators
    PROVE  pc[p] \notin HoldingLabels /\ granted[p] = NoGrant
<1>1. k \in Procs /\ p \in Procs /\ p # k
  BY RecoveryAssumption DEF Operators
<1>2. granted[k] # NoGrant
  BY <1>1, Slots DEF Locked, Holds, HoldingLabels, Typed, Located
<1>3. granted[p] = NoGrant
  BY <1>1, <1>2 DEF Locked, Alone
<1> QED
  BY <1>1, <1>3, Slots DEF Locked, Holds, HoldingLabels, Typed, Located

\* A step that leaves the check where it is and what the record says of it.
LEMMA PermitsKept ==
    ASSUME NEW k \in Checkers, Permits(k), pc'[k] = pc[k],
           pc[k] \in {"rechecked", "acting"} =>
               /\ loc'[k].dir = loc[k].dir
               /\ rec'[loc[k].dir].enabled = rec[loc[k].dir].enabled /\ rec'[loc[k].dir].stopped = rec[loc[k].dir].stopped
    PROVE  Permits(k)'
  BY DEF Permits

\* The record stays on while a check acts, by actions.
LEMMA PermitsStep ==
    ASSUME Typed, Locked, Bounded, [Next]_vars, NEW k \in Checkers, Permits(k)
    PROVE  Permits(k)'
<1>0. /\ k \in Procs /\ pc \in [Procs -> CheckLabels \cup OpLabels] /\ loc \in [Procs -> Locals]
      /\ rec \in [Dirs -> Records]
  BY RecoveryAssumption DEF Typed, TypeOK
<1>01. pc[k] # "idle" => loc[k].dir \in Dirs
  BY ReadNumbers
<1> USE RecoveryAssumption
<1>1. ASSUME NEW c \in Checkers, Check(c) PROVE Permits(k)'
  <2>0. c = k
    BY OneCheckAssumption
  <2>1. pc'[k] \notin {"rechecked", "acting"}
    BY <1>1, <1>0, <2>0 DEF Check, Goto, End
  <2> QED
    BY <2>1 DEF Permits
<1>2. ASSUME NEW c \in Checkers, CheckOff(c) PROVE Permits(k)'
  <2>1. pc'[k] = pc[k] /\ loc'[k].dir = loc[k].dir /\ rec' = rec
    BY <1>2, <1>0 DEF CheckOff, vars, rvars
  <2> QED
    BY <2>1, PermitsKept
<1>3. ASSUME NEW c \in Checkers, CheckBusy(c) PROVE Permits(k)'
  <2>0. c = k
    BY OneCheckAssumption
  <2>1. pc'[k] \notin {"rechecked", "acting"}
    BY <1>3, <1>0, <2>0 DEF CheckBusy, Goto, End
  <2> QED
    BY <2>1 DEF Permits
<1>4. ASSUME NEW c \in Checkers, CheckState(c) PROVE Permits(k)'
  <2>0. c = k
    BY OneCheckAssumption
  <2>1. pc'[k] \notin {"rechecked", "acting"}
    BY <1>4, <1>0, <2>0 DEF CheckState, Goto, End
  <2> QED
    BY <2>1 DEF Permits
<1>5. ASSUME NEW c \in Checkers, CheckInterrupted(c) PROVE Permits(k)'
  <2>0. c = k
    BY OneCheckAssumption
  <2>1. pc'[k] \notin {"rechecked", "acting"}
    BY <1>5, <1>0, <2>0 DEF CheckInterrupted, Goto, End
  <2> QED
    BY <2>1 DEF Permits
<1>6. ASSUME NEW c \in Checkers, CheckObserve(c) PROVE Permits(k)'
  <2>0. c = k
    BY OneCheckAssumption
  <2>1. pc'[k] \notin {"rechecked", "acting"}
    BY <1>6, <1>0, <2>0 DEF CheckObserve, Goto, End
  <2> QED
    BY <2>1 DEF Permits
<1>7. ASSUME NEW c \in Checkers, CheckDecide(c) PROVE Permits(k)'
  <2>0. c = k
    BY OneCheckAssumption
  <2>1. pc'[k] \notin {"rechecked", "acting"}
    BY <1>7, <1>0, <2>0 DEF CheckDecide, Goto, End
  <2> QED
    BY <2>1 DEF Permits
<1>8. ASSUME NEW c \in Checkers, AttemptLock(c) PROVE Permits(k)'
  <2>0. c = k
    BY OneCheckAssumption
  <2>1. pc'[k] \notin {"rechecked", "acting"}
    BY <1>8, <1>0, <2>0 DEF AttemptLock, Goto, End
  <2> QED
    BY <2>1 DEF Permits
<1>9. ASSUME NEW c \in Checkers, AttemptRecheck(c) PROVE Permits(k)'
  <2>0. c = k
    BY OneCheckAssumption
  <2>1. CASE pc'[k] = "idle"
    BY <2>1 DEF Permits
  <2>2. CASE pc'[k] # "idle"
    <3>1. pc' # [pc EXCEPT ![c] = "idle"]
      BY <1>0, <2>0, <2>2
    <3>2. Permitted(loc[k].dir) /\ rec' = rec /\ loc' = [loc EXCEPT ![c].rec = rec[loc[c].dir]]
      BY <1>9, <2>0, <3>1 DEF AttemptRecheck, Goto, End
    <3>3. loc'[k].dir = loc[k].dir
      BY <1>0, <2>0, <3>2 DEF Locals
    <3> QED
      BY <3>2, <3>3 DEF Permits, Permitted
  <2> QED
    BY <2>1, <2>2
<1>10. ASSUME NEW c \in Checkers, AttemptBegin(c) PROVE Permits(k)'
  <2>0. c = k
    BY OneCheckAssumption
  <2>1. CASE pc'[k] = "idle"
    BY <2>1 DEF Permits
  <2>2. CASE pc'[k] = "acting" /\ loc' = loc
    <3>1. rec'[loc[k].dir].enabled = rec[loc[k].dir].enabled /\ rec'[loc[k].dir].stopped = rec[loc[k].dir].stopped
      BY <1>10, <2>0, BeginCounts
    <3> QED
      BY <1>10, <2>0, <2>2, <3>1 DEF AttemptBegin, Permits
  <2> QED
    BY <1>10, <2>0, <2>1, <2>2, BeginCounts
<1>11. ASSUME NEW c \in Checkers, AttemptEnd(c) PROVE Permits(k)'
  <2>0. c = k
    BY OneCheckAssumption
  <2>1. pc'[k] \notin {"rechecked", "acting"}
    BY <1>11, <1>0, <2>0 DEF AttemptEnd, Goto, End
  <2> QED
    BY <2>1 DEF Permits
<1>12. ASSUME NEW c \in Checkers, AttemptRecord(c) PROVE Permits(k)'
  <2>0. c = k
    BY OneCheckAssumption
  <2>1. pc'[k] \notin {"rechecked", "acting"}
    BY <1>12, <1>0, <2>0 DEF AttemptRecord, Goto, End
  <2> QED
    BY <2>1 DEF Permits
<1>13. ASSUME NEW c \in Checkers, Killed(c) PROVE Permits(k)'
  <2>0. c = k
    BY OneCheckAssumption
  <2>1. pc'[k] \notin {"rechecked", "acting"}
    BY <1>13, <1>0, <2>0 DEF Killed, Goto, End
  <2> QED
    BY <2>1 DEF Permits
<1>14. ASSUME NEW p \in Operators, Command(p) PROVE Permits(k)'
  <2>1. pc'[k] = pc[k] /\ loc'[k].dir = loc[k].dir /\ rec' = rec
    BY <1>14, <1>0 DEF Command, Goto, End, Operators, Locals
  <2> QED
    BY <2>1, PermitsKept
<1>15. ASSUME NEW p \in Operators, HoldWrite(p) PROVE Permits(k)'
  <2>0. k # p /\ k \in Checkers /\ pc'[k] = pc[k] /\ loc[k] \in Locals /\ rec' = rec
    BY <1>15, <1>0 DEF HoldWrite, Goto, Operators
  <2>1. PICK b : loc'[k] = [loc[k] EXCEPT !.over = b]
    BY <1>15, <1>0, <2>0 DEF HoldWrite
  <2>2. loc'[k].dir = loc[k].dir
    BY <2>0, <2>1 DEF Locals
  <2> QED
    BY <2>0, <2>2, PermitsKept
<1>16. ASSUME NEW p \in Operators, OpLock(p) PROVE Permits(k)'
  <2>1. pc'[k] = pc[k] /\ loc'[k].dir = loc[k].dir /\ rec' = rec
    BY <1>16, <1>0 DEF OpLock, Goto, End, Operators, Locals
  <2> QED
    BY <2>1, PermitsKept
<1>17. ASSUME NEW p \in Operators, OpSet(p) PROVE Permits(k)'
  <2>1. pc'[k] = pc[k] /\ pc[p] \in HoldingLabels
    BY <1>17, <1>0 DEF OpSet, Goto, End, Operators, HoldingLabels
  <2>2. pc[k] \notin {"rechecked", "acting"}
    BY <2>1, CommandsWait
  <2> QED
    BY <2>1, <2>2 DEF Permits
<1>18. ASSUME NEW p \in Operators, OpForget(p) PROVE Permits(k)'
  <2>1. pc'[k] = pc[k] /\ pc[p] \in HoldingLabels
    BY <1>18, <1>0 DEF OpForget, Goto, End, Operators, HoldingLabels
  <2>2. pc[k] \notin {"rechecked", "acting"}
    BY <2>1, CommandsWait
  <2> QED
    BY <2>1, <2>2 DEF Permits
<1>19. ASSUME NEW p \in Operators, OpRecord(p) PROVE Permits(k)'
  <2>1. pc'[k] = pc[k] /\ loc'[k].dir = loc[k].dir /\ rec' = rec
    BY <1>19, <1>0 DEF OpRecord, Goto, End, Operators, Locals
  <2> QED
    BY <2>1, PermitsKept
<1>20. ASSUME NEW p \in Operators, OpStarted(p) PROVE Permits(k)'
  <2>1. pc'[k] = pc[k] /\ pc[p] \in HoldingLabels
    BY <1>20, <1>0 DEF OpStarted, Goto, End, Operators, HoldingLabels
  <2>2. pc[k] \notin {"rechecked", "acting"}
    BY <2>1, CommandsWait
  <2> QED
    BY <2>1, <2>2 DEF Permits
<1>21. ASSUME NEW p \in Procs, Operate(p) PROVE Permits(k)'
  <2>1. pc'[k] = pc[k] /\ loc'[k].dir = loc[k].dir /\ rec' = rec
    BY <1>21, <1>0 DEF Operate, vars, rvars
  <2> QED
    BY <2>1, PermitsKept
<1>22. ASSUME NEW p \in Procs, OperateFail(p) PROVE Permits(k)'
  <2>1. pc'[k] = pc[k] /\ loc'[k].dir = loc[k].dir /\ rec' = rec
    BY <1>22, <1>0 DEF OperateFail, vars, rvars
  <2> QED
    BY <2>1, PermitsKept
<1>23. ASSUME Trouble PROVE Permits(k)'
  <2>1. pc'[k] = pc[k] /\ loc'[k].dir = loc[k].dir /\ rec' = rec
    BY <1>23, <1>0 DEF Trouble, vars, rvars
  <2> QED
    BY <2>1, PermitsKept
<1>24. ASSUME Repair PROVE Permits(k)'
  <2>1. pc'[k] = pc[k] /\ loc'[k].dir = loc[k].dir /\ rec' = rec
    BY <1>24, <1>0 DEF Repair, vars, rvars
  <2> QED
    BY <2>1, PermitsKept
<1>25. ASSUME NEW d \in Dirs, Wait(d) PROVE Permits(k)'
  <2>1. /\ pc' = pc /\ loc'[k].dir = loc[k].dir
        /\ rec' = [rec EXCEPT ![d] = [rec[d] EXCEPT !.backoff = FALSE, !.pending = IF rec[d].pending = 0 THEN 0 ELSE 3]]
    BY <1>0, <1>25, Waits DEF Wait, Update, Passed
  <2>2. \A e \in Dirs : rec'[e].enabled = rec[e].enabled /\ rec'[e].stopped = rec[e].stopped
    BY <1>0, <2>1 DEF Records
  <2> QED
    BY <1>01, <2>1, <2>2, PermitsKept
<1>26. ASSUME NEW d \in Dirs, Age(d) PROVE Permits(k)'
  <2>1. pc' = pc /\ rec' = [rec EXCEPT ![d] = [rec[d] EXCEPT !.restarts = rec[d].restarts - 1]]
    BY <1>26 DEF Age, Update
  <2>2. \A e \in Dirs : rec'[e].enabled = rec[e].enabled /\ rec'[e].stopped = rec[e].stopped
    BY <1>0, <2>1 DEF Records
  <2>3. loc'[k].dir = loc[k].dir
    BY <1>26, <1>0 DEF Age, Locals
  <2> QED
    BY <1>01, <2>1, <2>2, <2>3, PermitsKept
<1>27. ASSUME Late PROVE Permits(k)'
  BY <1>27, PermitsKept DEF Late
<1>28. CASE UNCHANGED vars
  <2>1. pc'[k] = pc[k] /\ loc'[k].dir = loc[k].dir /\ rec' = rec
    BY <1>28, <1>0 DEF vars, rvars
  <2> QED
    BY <2>1, PermitsKept
<1> QED
  BY <1>1, <1>2, <1>3, <1>4, <1>5, <1>6, <1>7, <1>8, <1>9, <1>10, <1>11, <1>12, <1>13, <1>14, <1>15,
     <1>16, <1>17, <1>18, <1>19, <1>20, <1>21, <1>22, <1>23, <1>24, <1>25, <1>26, <1>27, <1>28 DEF Next, Alive, CheckStep, OperatorStep, Operators

\* No hold is overlooked, by actions.
LEMMA UnheldStep ==
    ASSUME Typed, Bounded, [Next]_vars, NEW k \in Checkers, Unheld(k)
    PROVE  Unheld(k)'
<1>0. /\ k \in Procs /\ pc \in [Procs -> CheckLabels \cup OpLabels] /\ loc \in [Procs -> Locals]
      /\ rec \in [Dirs -> Records]
  BY RecoveryAssumption DEF Typed, TypeOK
<1>01. pc[k] # "idle" => loc[k].dir \in Dirs
  BY ReadNumbers
<1> USE RecoveryAssumption
<1>1. ASSUME NEW c \in Checkers, Check(c) PROVE Unheld(k)'
  <2>0. c = k
    BY OneCheckAssumption
  <2>1. pc'[k] \notin {"locked", "rechecked", "acting"}
    BY <1>1, <1>0, <2>0 DEF Check, Goto, End
  <2> QED
    BY <2>1 DEF Unheld
<1>2. ASSUME NEW c \in Checkers, CheckOff(c) PROVE Unheld(k)'
  <2>1. pc'[k] = pc[k] /\ loc'[k].over = loc[k].over /\ hold' = hold
    BY <1>2, <1>0 DEF CheckOff, Env, vars, rvars
  <2> QED
    BY <2>1 DEF Unheld
<1>3. ASSUME NEW c \in Checkers, CheckBusy(c) PROVE Unheld(k)'
  <2>0. c = k
    BY OneCheckAssumption
  <2>1. pc'[k] \notin {"locked", "rechecked", "acting"}
    BY <1>3, <1>0, <2>0 DEF CheckBusy, Goto, End
  <2> QED
    BY <2>1 DEF Unheld
<1>4. ASSUME NEW c \in Checkers, CheckState(c) PROVE Unheld(k)'
  <2>0. c = k
    BY OneCheckAssumption
  <2>1. pc'[k] \notin {"locked", "rechecked", "acting"}
    BY <1>4, <1>0, <2>0 DEF CheckState, Goto, End
  <2> QED
    BY <2>1 DEF Unheld
<1>5. ASSUME NEW c \in Checkers, CheckInterrupted(c) PROVE Unheld(k)'
  <2>0. c = k
    BY OneCheckAssumption
  <2>1. pc'[k] \notin {"locked", "rechecked", "acting"}
    BY <1>5, <1>0, <2>0 DEF CheckInterrupted, Goto, End
  <2> QED
    BY <2>1 DEF Unheld
<1>6. ASSUME NEW c \in Checkers, CheckObserve(c) PROVE Unheld(k)'
  <2>0. c = k
    BY OneCheckAssumption
  <2>1. pc'[k] \notin {"locked", "rechecked", "acting"}
    BY <1>6, <1>0, <2>0 DEF CheckObserve, Goto, End
  <2> QED
    BY <2>1 DEF Unheld
<1>7. ASSUME NEW c \in Checkers, CheckDecide(c) PROVE Unheld(k)'
  <2>0. c = k
    BY OneCheckAssumption
  <2>1. pc'[k] \notin {"locked", "rechecked", "acting"}
    BY <1>7, <1>0, <2>0 DEF CheckDecide, Goto, End
  <2> QED
    BY <2>1 DEF Unheld
<1>8. ASSUME NEW c \in Checkers, AttemptLock(c) PROVE Unheld(k)'
  <2>0. c = k
    BY OneCheckAssumption
  <2>1. CASE pc'[k] = "idle"
    BY <2>1 DEF Unheld
  <2>2. CASE pc'[k] # "idle"
    <3>1. pc' # [pc EXCEPT ![c] = "idle"]
      BY <1>0, <2>0, <2>2
    <3>2. /\ loc' = [loc EXCEPT ![c].over = hold # None] /\ pc' = [pc EXCEPT ![c] = "locked"] /\ hold' = hold
      BY <1>8, <3>1 DEF AttemptLock, Goto, End, Env
    <3>3. loc'[k].over = (hold # None) /\ pc'[k] = "locked"
      BY <1>0, <2>0, <3>2 DEF Locals
    <3> QED
      BY <3>2, <3>3 DEF Unheld
  <2> QED
    BY <2>1, <2>2
<1>9. ASSUME NEW c \in Checkers, AttemptRecheck(c) PROVE Unheld(k)'
  <2>0. c = k
    BY OneCheckAssumption
  <2>1. CASE pc'[k] = "idle"
    BY <2>1 DEF Unheld
  <2>2. CASE pc'[k] # "idle"
    <3>1. pc' # [pc EXCEPT ![c] = "idle"]
      BY <1>0, <2>0, <2>2
    <3>2. /\ Permitted(loc[k].dir) /\ pc[k] = "locked" /\ pc' = [pc EXCEPT ![c] = "rechecked"]
          /\ loc' = [loc EXCEPT ![c].rec = rec[loc[c].dir]]
      BY <1>9, <2>0, <3>1 DEF AttemptRecheck, Goto, End
    <3>3. loc'[k].over = loc[k].over /\ pc'[k] = "rechecked"
      BY <1>0, <2>0, <3>2 DEF Locals
    <3> QED
      BY <3>2, <3>3 DEF Unheld, Permitted
  <2> QED
    BY <2>1, <2>2
<1>10. ASSUME NEW c \in Checkers, AttemptBegin(c) PROVE Unheld(k)'
  <2>0. c = k
    BY OneCheckAssumption
  <2>1. CASE pc'[k] = "idle"
    BY <2>1 DEF Unheld
  <2>2. CASE pc'[k] = "acting" /\ loc' = loc
    BY <1>10, <2>0, <2>2 DEF AttemptBegin, Unheld
  <2> QED
    BY <1>10, <2>0, <2>1, <2>2, BeginCounts
<1>11. ASSUME NEW c \in Checkers, AttemptEnd(c) PROVE Unheld(k)'
  <2>0. c = k
    BY OneCheckAssumption
  <2>1. pc'[k] \notin {"locked", "rechecked", "acting"}
    BY <1>11, <1>0, <2>0 DEF AttemptEnd, Goto, End
  <2> QED
    BY <2>1 DEF Unheld
<1>12. ASSUME NEW c \in Checkers, AttemptRecord(c) PROVE Unheld(k)'
  <2>0. c = k
    BY OneCheckAssumption
  <2>1. pc'[k] \notin {"locked", "rechecked", "acting"}
    BY <1>12, <1>0, <2>0 DEF AttemptRecord, Goto, End
  <2> QED
    BY <2>1 DEF Unheld
<1>13. ASSUME NEW c \in Checkers, Killed(c) PROVE Unheld(k)'
  <2>0. c = k
    BY OneCheckAssumption
  <2>1. pc'[k] \notin {"locked", "rechecked", "acting"}
    BY <1>13, <1>0, <2>0 DEF Killed, Goto, End
  <2> QED
    BY <2>1 DEF Unheld
<1>14. ASSUME NEW p \in Operators, Command(p) PROVE Unheld(k)'
  <2>1. pc'[k] = pc[k] /\ loc'[k].over = loc[k].over /\ hold' = hold
    BY <1>14, <1>0 DEF Command, Goto, End, Operators, Locals
  <2> QED
    BY <2>1 DEF Unheld
<1>15. ASSUME NEW p \in Operators, HoldWrite(p) PROVE Unheld(k)'
  <2>0. k # p /\ k \in Checkers /\ pc'[k] = pc[k] /\ loc[k] \in Locals
    BY <1>15, <1>0 DEF HoldWrite, Goto, Operators
  <2>1. loc'[k] = [loc[k] EXCEPT !.over = loc[k].over /\ hold' # None]
    BY <1>15, <1>0, <2>0 DEF HoldWrite
  <2>2. loc'[k].over => loc[k].over /\ hold' # None
    BY <2>0, <2>1 DEF Locals
  <2> QED
    BY <2>0, <2>2 DEF Unheld
<1>16. ASSUME NEW p \in Operators, OpLock(p) PROVE Unheld(k)'
  <2>1. pc'[k] = pc[k] /\ loc'[k].over = loc[k].over /\ hold' = hold
    BY <1>16, <1>0 DEF OpLock, Goto, End, Operators, Locals
  <2> QED
    BY <2>1 DEF Unheld
<1>17. ASSUME NEW p \in Operators, OpSet(p) PROVE Unheld(k)'
  <2>1. pc'[k] = pc[k] /\ loc'[k].over = loc[k].over /\ hold' = hold
    BY <1>17, <1>0 DEF OpSet, Goto, End, Operators, Locals
  <2> QED
    BY <2>1 DEF Unheld
<1>18. ASSUME NEW p \in Operators, OpForget(p) PROVE Unheld(k)'
  <2>1. pc'[k] = pc[k] /\ loc'[k].over = loc[k].over /\ hold' = hold
    BY <1>18, <1>0 DEF OpForget, Goto, End, Operators, Locals
  <2> QED
    BY <2>1 DEF Unheld
<1>19. ASSUME NEW p \in Operators, OpRecord(p) PROVE Unheld(k)'
  <2>1. pc'[k] = pc[k] /\ loc'[k].over = loc[k].over /\ hold' = hold
    BY <1>19, <1>0 DEF OpRecord, Goto, End, Operators, Locals
  <2> QED
    BY <2>1 DEF Unheld
<1>20. ASSUME NEW p \in Operators, OpStarted(p) PROVE Unheld(k)'
  <2>1. pc'[k] = pc[k] /\ loc'[k].over = loc[k].over /\ hold' = hold
    BY <1>20, <1>0 DEF OpStarted, Goto, End, Operators, Locals
  <2> QED
    BY <2>1 DEF Unheld
<1>21. ASSUME NEW p \in Procs, Operate(p) PROVE Unheld(k)'
  <2>1. pc'[k] = pc[k] /\ loc'[k].over = loc[k].over /\ hold' = hold
    BY <1>21, <1>0 DEF Operate, Env, vars, rvars
  <2> QED
    BY <2>1 DEF Unheld
<1>22. ASSUME NEW p \in Procs, OperateFail(p) PROVE Unheld(k)'
  <2>1. pc'[k] = pc[k] /\ loc'[k].over = loc[k].over /\ hold' = hold
    BY <1>22, <1>0 DEF OperateFail, Env, vars, rvars
  <2> QED
    BY <2>1 DEF Unheld
<1>23. ASSUME Trouble PROVE Unheld(k)'
  <2>1. pc'[k] = pc[k] /\ loc'[k].over = loc[k].over /\ hold' = hold
    BY <1>23, <1>0 DEF Trouble, Env, vars, rvars
  <2> QED
    BY <2>1 DEF Unheld
<1>24. ASSUME Repair PROVE Unheld(k)'
  <2>1. pc'[k] = pc[k] /\ loc'[k].over = loc[k].over /\ hold' = hold
    BY <1>24, <1>0 DEF Repair, Env, vars, rvars
  <2> QED
    BY <2>1 DEF Unheld
<1>25. ASSUME NEW d \in Dirs, Wait(d) PROVE Unheld(k)'
  <2>1. pc'[k] = pc[k] /\ loc'[k].over = loc[k].over /\ hold' = hold
    BY <1>25, <1>0, Waits DEF Wait, Env
  <2> QED
    BY <2>1 DEF Unheld
<1>26. ASSUME NEW d \in Dirs, Age(d) PROVE Unheld(k)'
  <2>1. pc'[k] = pc[k] /\ hold' = hold
    BY <1>26 DEF Age, Env
  <2>2. loc'[k] = loc[k] \/ loc'[k] = [loc[k] EXCEPT !.rec.restarts = loc[k].rec.restarts - 1]
    BY <1>26, <1>0 DEF Age
  <2>3. loc[k] \in Locals
    BY <1>0
  <2>4. loc'[k].over = loc[k].over
    BY <2>2, <2>3 DEF Locals
  <2> QED
    BY <2>1, <2>4 DEF Unheld
<1>27. ASSUME Late PROVE Unheld(k)'
  BY <1>27 DEF Late, Unheld
<1>28. CASE UNCHANGED vars
  <2>1. pc'[k] = pc[k] /\ loc'[k].over = loc[k].over /\ hold' = hold
    BY <1>28, <1>0 DEF Env, vars, rvars
  <2> QED
    BY <2>1 DEF Unheld
<1> QED
  BY <1>1, <1>2, <1>3, <1>4, <1>5, <1>6, <1>7, <1>8, <1>9, <1>10, <1>11, <1>12, <1>13, <1>14, <1>15,
     <1>16, <1>17, <1>18, <1>19, <1>20, <1>21, <1>22, <1>23, <1>24, <1>25, <1>26, <1>27, <1>28 DEF Next, Alive, CheckStep, OperatorStep, Operators

\* A check begins an operation only where it acts under the locks, by actions.
LEMMA BeginsActing ==
    ASSUME Typed, [Next]_vars, NEW k \in Checkers, stage[k] = "none", stage'[k] = "begun"
    PROVE  pc[k] = "acting"
<1>0. k \in Procs /\ pc[k] \in CheckLabels /\ DeploymentsOK
  BY RecoveryAssumption DEF Typed, TypeOK, DeploymentsOK
<1> USE RecoveryAssumption DEF Operators
<1>1. ASSUME NEW c \in Checkers, Check(c) PROVE pc[k] = "acting"
  BY <1>1 DEF Check, dvars, vars
<1>2. ASSUME NEW c \in Checkers, CheckOff(c) PROVE pc[k] = "acting"
  BY <1>2 DEF CheckOff, dvars, vars
<1>3. ASSUME NEW c \in Checkers, CheckBusy(c) PROVE pc[k] = "acting"
  BY <1>3 DEF CheckBusy, dvars, vars
<1>4. ASSUME NEW c \in Checkers, CheckState(c) PROVE pc[k] = "acting"
  BY <1>4 DEF CheckState, dvars, vars
<1>5. ASSUME NEW c \in Checkers, CheckInterrupted(c) PROVE pc[k] = "acting"
  BY <1>5 DEF CheckInterrupted, dvars, vars
<1>6. ASSUME NEW c \in Checkers, CheckObserve(c) PROVE pc[k] = "acting"
  BY <1>6 DEF CheckObserve, dvars, vars
<1>7. ASSUME NEW c \in Checkers, CheckDecide(c) PROVE pc[k] = "acting"
  BY <1>7 DEF CheckDecide, dvars, vars
<1>8. ASSUME NEW c \in Checkers, AttemptLock(c) PROVE pc[k] = "acting"
  BY <1>8 DEF AttemptLock, dvars, vars
<1>9. ASSUME NEW c \in Checkers, AttemptRecheck(c) PROVE pc[k] = "acting"
  BY <1>9 DEF AttemptRecheck, dvars, vars
<1>10. ASSUME NEW c \in Checkers, AttemptBegin(c) PROVE pc[k] = "acting"
  BY <1>10 DEF AttemptBegin, dvars, vars
<1>11. ASSUME NEW c \in Checkers, AttemptEnd(c) PROVE pc[k] = "acting"
  BY <1>11 DEF AttemptEnd, dvars, vars
<1>12. ASSUME NEW c \in Checkers, AttemptRecord(c) PROVE pc[k] = "acting"
  BY <1>12 DEF AttemptRecord, dvars, vars
<1>13. ASSUME NEW c \in Checkers, Killed(c) PROVE pc[k] = "acting"
  <2>1. OnlyWork(c) /\ stage'[c] = "none"
    BY <1>13, <1>0, ApplyKilledTyped DEF Killed
  <2> QED
    BY <2>1, <1>0 DEF OnlyWork
<1>14. ASSUME NEW p \in Operators, Command(p) PROVE pc[k] = "acting"
  BY <1>14 DEF Command, dvars, vars
<1>15. ASSUME NEW p \in Operators, HoldWrite(p) PROVE pc[k] = "acting"
  BY <1>15 DEF HoldWrite, dvars, vars
<1>16. ASSUME NEW p \in Operators, OpLock(p) PROVE pc[k] = "acting"
  BY <1>16 DEF OpLock, dvars, vars
<1>17. ASSUME NEW p \in Operators, OpSet(p) PROVE pc[k] = "acting"
  BY <1>17 DEF OpSet, dvars, vars
<1>18. ASSUME NEW p \in Operators, OpForget(p) PROVE pc[k] = "acting"
  BY <1>18 DEF OpForget, dvars, vars
<1>19. ASSUME NEW p \in Operators, OpRecord(p) PROVE pc[k] = "acting"
  BY <1>19 DEF OpRecord, dvars, vars
<1>20. ASSUME NEW p \in Operators, OpStarted(p) PROVE pc[k] = "acting"
  BY <1>20 DEF OpStarted, dvars, vars
<1>21. ASSUME NEW p \in Procs, Operate(p) PROVE pc[k] = "acting"
  <2>1. OnlyWork(p)
    BY <1>21, <1>0, ApplyTyped DEF Operate
  <2>2. p = k
    BY <2>1, <1>0 DEF OnlyWork
  <2> QED
    BY <1>21, <1>0, <2>2 DEF Operate, CheckLabels
<1>22. ASSUME NEW p \in Procs, OperateFail(p) PROVE pc[k] = "acting"
  <2>1. OnlyWork(p)
    BY <1>22, <1>0, ApplyFailTyped DEF OperateFail
  <2>2. p = k
    BY <2>1, <1>0 DEF OnlyWork
  <2> QED
    BY <1>22, <1>0, <2>2 DEF OperateFail, CheckLabels
<1>23. ASSUME Trouble PROVE pc[k] = "acting"
  BY <1>23 DEF Trouble, Restart
<1>24. ASSUME Repair PROVE pc[k] = "acting"
  BY <1>24 DEF Repair, dvars, vars
<1>25. ASSUME NEW d \in Dirs, Wait(d) PROVE pc[k] = "acting"
  BY <1>25 DEF Wait, dvars, vars
<1>26. ASSUME NEW d \in Dirs, Age(d) PROVE pc[k] = "acting"
  BY <1>26 DEF Age, dvars, vars
<1>27. ASSUME Late PROVE pc[k] = "acting"
  BY <1>27 DEF Late, Lands
<1>28. CASE UNCHANGED vars
  BY <1>28 DEF dvars, vars
<1> QED
  BY <1>1, <1>2, <1>3, <1>4, <1>5, <1>6, <1>7, <1>8, <1>9, <1>10, <1>11, <1>12, <1>13, <1>14, <1>15,
     <1>16, <1>17, <1>18, <1>19, <1>20, <1>21, <1>22, <1>23, <1>24, <1>25, <1>26, <1>27, <1>28 DEF Next, Alive, CheckStep, OperatorStep, Operators

LEMMA AllowedInv == Spec => [](Typed /\ Allowed)
<1>1. Init => Allowed
  <2> SUFFICES ASSUME Init PROVE Allowed
    OBVIOUS
  <2>1. \A c \in Checkers : pc[c] = "idle"
    BY RecoveryAssumption DEF Init
  <2> QED
    BY <2>1 DEF Allowed, Permits, Unheld
<1>2. Typed /\ Locked /\ Bounded /\ Allowed /\ [Next]_vars => Allowed'
  BY PermitsStep, UnheldStep DEF Allowed
<1> QED
  BY <1>1, <1>2, LockedInv, BoundedInv, PTL DEF Spec

\* `recover off`, and a limit that recovery has recorded, are respected by every check in every
\* behaviour: the record is read again under the locks, which the command that turns recovery off
\* needs too.
THEOREM OffIsAlwaysRespected == Spec => OffIsRespected
<1>1. ASSUME Typed, Allowed, [Next]_vars
      PROVE  [\A c \in Checkers : stage[c] = "none" /\ stage'[c] = "begun"
                => rec[loc[c].dir].enabled /\ ~rec[loc[c].dir].stopped]_vars
  BY <1>1, BeginsActing DEF Allowed, Permits
<1> QED
  BY <1>1, AllowedInv, PTL DEF Spec, OffIsRespected

\* Automatic recovery never overrides a hold that has stood since it took its locks.
THEOREM HoldIsRespected == Spec => HoldRespected
<1>1. ASSUME Typed, Allowed, [Next]_vars
      PROVE  [\A c \in Checkers : stage[c] = "none" /\ stage'[c] = "begun" => ~loc[c].over]_vars
  BY <1>1, BeginsActing DEF Allowed, Unheld
<1> QED
  BY <1>1, AllowedInv, PTL DEF Spec, HoldRespected

-----------------------------------------------------------------------------
(* The restarts that a check has made and not recorded.                    *)

\* The calls of a check under the locks: one start, or a stop and a start, of its deployment.
\* They return without an error when the start is complete.
Attempting(c) ==
    LET d == loc[c].dir
    IN  pc[c] = "acting" =>
          /\ work[c] \in {<<>>, <<<<d, "up">>>>, <<<<d, "down">>, <<d, "up">>>>}
          /\ stage[c] # "none" => op[d] = Head(work[c])[2]
          /\ work[c] = <<>> /\ ~err[c] => op[d] = "up" /\ done[d]

\* The restart of a deployment that a check has still to record.
Waiting(d) == IF \E c \in Checkers : loc[c].dir = d /\ Restored(c) THEN 1 ELSE 0

\* Every restart is in the record, lost with its check, or waits to be recorded.
Recorded(d) == restarted[d] <= rec[d].restarts + unrecorded[d] + Waiting(d)

Recording == (\A c \in Checkers : Attempting(c)) /\ \A d \in Dirs : Recorded(d)

\* The two lists of calls.
LEMMA Calls ==
    ASSUME NEW d
    PROVE  /\ Head(<<<<d, "up">>>>) = <<d, "up">> /\ Tail(<<<<d, "up">>>>) = <<>>
           /\ Head(<<<<d, "down">>, <<d, "up">>>>) = <<d, "down">>
           /\ Tail(<<<<d, "down">>, <<d, "up">>>>) = <<<<d, "up">>>>
           /\ <<<<d, "up">>>> # <<>> /\ <<<<d, "down">>, <<d, "up">>>> # <<>>
  OBVIOUS

\* What else a process has read does not touch its deployment nor what it saw.
LEMMA Excepts ==
    ASSUME NEW l \in Locals
    PROVE  /\ \A v \in BOOLEAN : [l EXCEPT !.over = v].dir = l.dir /\ [l EXCEPT !.over = v].seen = l.seen
           /\ [l EXCEPT !.rec.restarts = @ - 1].dir = l.dir /\ [l EXCEPT !.rec.restarts = @ - 1].seen = l.seen
<1>1. \A v \in BOOLEAN : [l EXCEPT !.over = v].dir = l.dir /\ [l EXCEPT !.over = v].seen = l.seen
  BY DEF Locals
<1>2. [l EXCEPT !.rec.restarts = @ - 1].dir = l.dir
  BY DEF Locals
<1>3. [l EXCEPT !.rec.restarts = @ - 1].seen = l.seen
  BY DEF Locals
<1> QED
  BY <1>1, <1>2, <1>3

\* A step that is none of the attempt of k leaves it as it is.
Aside(k) ==
    /\ pc[k] \in Under \/ pc'[k] \in Under =>
          /\ pc'[k] = pc[k] /\ loc'[k].dir = loc[k].dir /\ loc'[k].seen = loc[k].seen
          /\ work'[k] = work[k] /\ stage'[k] = stage[k] /\ err'[k] = err[k]
    /\ pc[k] = "acting" => UNCHANGED <<op, done>>

\* Such a step, by actions.
LEMMA AsideStep ==
    ASSUME Typed, Locked, [Next]_vars, NEW k \in Checkers,
           ~AttemptBegin(k), ~Operate(k), ~OperateFail(k), ~AttemptEnd(k), ~AttemptRecord(k), ~Killed(k)
    PROVE  Aside(k)
<1>0. /\ k \in Procs /\ pc \in [Procs -> CheckLabels \cup OpLabels] /\ loc \in [Procs -> Locals]
      /\ work \in [Procs -> Seq(Dirs \X Actions)] /\ err \in [Procs -> BOOLEAN]
      /\ DeploymentsOK
  BY RecoveryAssumption DEF Typed, TypeOK, DeploymentsTypeOK, DeploymentsOK
<1> USE RecoveryAssumption DEF Operators
<1>1. ASSUME NEW c \in Checkers, Check(c) PROVE Aside(k)
  <2>0. c = k
    BY OneCheckAssumption
  <2>1. pc[k] \notin Under /\ pc'[k] \notin Under
    BY <1>1, <1>0, <2>0 DEF Check, Goto, End, Under
  <2> QED
    BY <2>1 DEF Aside, Under
<1>2. ASSUME NEW c \in Checkers, CheckOff(c) PROVE Aside(k)
  BY <1>2 DEF CheckOff, Aside, vars, rvars, dvars
<1>3. ASSUME NEW c \in Checkers, CheckBusy(c) PROVE Aside(k)
  <2>0. c = k
    BY OneCheckAssumption
  <2>1. pc[k] \notin Under /\ pc'[k] \notin Under
    BY <1>3, <1>0, <2>0 DEF CheckBusy, Goto, End, Under
  <2> QED
    BY <2>1 DEF Aside, Under
<1>4. ASSUME NEW c \in Checkers, CheckState(c) PROVE Aside(k)
  <2>0. c = k
    BY OneCheckAssumption
  <2>1. pc[k] \notin Under /\ pc'[k] \notin Under
    BY <1>4, <1>0, <2>0 DEF CheckState, Goto, End, Under
  <2> QED
    BY <2>1 DEF Aside, Under
<1>5. ASSUME NEW c \in Checkers, CheckInterrupted(c) PROVE Aside(k)
  <2>0. c = k
    BY OneCheckAssumption
  <2>1. pc[k] \notin Under /\ pc'[k] \notin Under
    BY <1>5, <1>0, <2>0 DEF CheckInterrupted, Goto, End, Under
  <2> QED
    BY <2>1 DEF Aside, Under
<1>6. ASSUME NEW c \in Checkers, CheckObserve(c) PROVE Aside(k)
  <2>0. c = k
    BY OneCheckAssumption
  <2>1. pc[k] \notin Under /\ pc'[k] \notin Under
    BY <1>6, <1>0, <2>0 DEF CheckObserve, Goto, End, Under
  <2> QED
    BY <2>1 DEF Aside, Under
<1>7. ASSUME NEW c \in Checkers, CheckDecide(c) PROVE Aside(k)
  <2>0. c = k
    BY OneCheckAssumption
  <2>1. pc[k] \notin Under /\ pc'[k] \notin Under
    BY <1>7, <1>0, <2>0 DEF CheckDecide, Goto, End, Under
  <2> QED
    BY <2>1 DEF Aside, Under
<1>8. ASSUME NEW c \in Checkers, AttemptLock(c) PROVE Aside(k)
  <2>0. c = k
    BY OneCheckAssumption
  <2>1. pc[k] \notin Under /\ pc'[k] \notin Under
    BY <1>8, <1>0, <2>0 DEF AttemptLock, Goto, End, Under
  <2> QED
    BY <2>1 DEF Aside, Under
<1>9. ASSUME NEW c \in Checkers, AttemptRecheck(c) PROVE Aside(k)
  <2>0. c = k
    BY OneCheckAssumption
  <2>1. pc[k] \notin Under /\ pc'[k] \notin Under
    BY <1>9, <1>0, <2>0 DEF AttemptRecheck, Goto, End, Under
  <2> QED
    BY <2>1 DEF Aside, Under
<1>10. ASSUME NEW c \in Checkers, AttemptBegin(c) PROVE Aside(k)
  BY <1>10, OneCheckAssumption
<1>11. ASSUME NEW c \in Checkers, AttemptEnd(c) PROVE Aside(k)
  BY <1>11, OneCheckAssumption
<1>12. ASSUME NEW c \in Checkers, AttemptRecord(c) PROVE Aside(k)
  BY <1>12, OneCheckAssumption
<1>13. ASSUME NEW c \in Checkers, Killed(c) PROVE Aside(k)
  BY <1>13, OneCheckAssumption
<1>14. ASSUME NEW p \in Operators, Command(p) PROVE Aside(k)
  <2>0. p \in Procs /\ p # k
    OBVIOUS
  <2>1. pc'[k] = pc[k] /\ loc'[k] = loc[k] /\ UNCHANGED dvars
    BY <1>14, <1>0, <2>0 DEF Command, Goto, End
  <2> QED
    BY <2>1 DEF Aside, dvars
<1>15. ASSUME NEW p \in Operators, HoldWrite(p) PROVE Aside(k)
  <2>0. p \in Procs /\ p # k
    OBVIOUS
  <2>2. (\E v \in BOOLEAN : loc'[k] = [loc[k] EXCEPT !.over = v]) /\ loc[k] \in Locals
    BY <1>15, <1>0, <2>0 DEF HoldWrite
  <2>3. loc'[k].dir = loc[k].dir /\ loc'[k].seen = loc[k].seen
    <3>1. PICK v \in BOOLEAN : loc'[k] = [loc[k] EXCEPT !.over = v]
      BY <2>2
    <3>2. [loc[k] EXCEPT !.over = v].dir = loc[k].dir /\ [loc[k] EXCEPT !.over = v].seen = loc[k].seen
      BY <2>2, Excepts
    <3> QED
      BY <3>1, <3>2, Zenon
  <2>1. pc'[k] = pc[k] /\ loc'[k].dir = loc[k].dir /\ loc'[k].seen = loc[k].seen /\ UNCHANGED dvars
    BY <1>15, <1>0, <2>0, <2>3 DEF HoldWrite, Goto
  <2> QED
    BY <2>1 DEF Aside, dvars
<1>16. ASSUME NEW p \in Operators, OpLock(p) PROVE Aside(k)
  <2>0. p \in Procs /\ p # k
    OBVIOUS
  <2>1. pc'[k] = pc[k] /\ loc'[k] = loc[k] /\ UNCHANGED dvars
    BY <1>16, <1>0, <2>0 DEF OpLock, Goto, End
  <2> QED
    BY <2>1 DEF Aside, dvars
<1>17. ASSUME NEW p \in Operators, OpSet(p) PROVE Aside(k)
  <2>0. p \in Procs /\ p # k
    OBVIOUS
  <2>1. pc'[k] = pc[k] /\ loc'[k] = loc[k] /\ UNCHANGED dvars
    BY <1>17, <1>0, <2>0 DEF OpSet, Goto, End
  <2> QED
    BY <2>1 DEF Aside, dvars
<1>18. ASSUME NEW p \in Operators, OpForget(p) PROVE Aside(k)
  <2>0. p \in Procs /\ p # k
    OBVIOUS
  <2>1. pc'[k] = pc[k] /\ loc' = loc /\ work'[k] = work[k] /\ stage' = stage /\ err'[k] = err[k] /\ UNCHANGED <<op, done>>
    <3>1. (\E w : work' = [work EXCEPT ![p] = w]) /\ err' = [err EXCEPT ![p] = FALSE] /\ pc' = [pc EXCEPT ![p] = "operating"]
      BY <1>18, Zenon DEF OpForget, Goto
    <3>2. loc' = loc /\ stage' = stage /\ UNCHANGED <<op, done>>
      BY <1>18, Zenon DEF OpForget
    <3> QED
      BY <1>0, <2>0, <3>1, <3>2
  <2> QED
    BY <2>1 DEF Aside, dvars
<1>19. ASSUME NEW p \in Operators, OpRecord(p) PROVE Aside(k)
  <2>0. p \in Procs /\ p # k
    OBVIOUS
  <2>1. pc'[k] = pc[k] /\ loc'[k] = loc[k] /\ UNCHANGED dvars
    BY <1>19, <1>0, <2>0 DEF OpRecord, Goto, End
  <2> QED
    BY <2>1 DEF Aside, dvars
<1>20. ASSUME NEW p \in Operators, OpStarted(p) PROVE Aside(k)
  <2>0. p \in Procs /\ p # k
    OBVIOUS
  <2>1. pc'[k] = pc[k] /\ loc'[k] = loc[k] /\ UNCHANGED dvars
    BY <1>20, <1>0, <2>0 DEF OpStarted, Goto, End
  <2> QED
    BY <2>1 DEF Aside, dvars
<1>21. ASSUME NEW p \in Procs, Operate(p) PROVE Aside(k)
  <2>1. p # k /\ p \in Procs /\ OnlyWork(p) /\ pc' = pc /\ loc' = loc
    BY <1>21, <1>0, ApplyTyped DEF Operate
  <2>2. work'[k] = work[k] /\ stage'[k] = stage[k] /\ err'[k] = err[k]
    BY <2>1, <1>0 DEF OnlyWork
  <2>3. pc[k] # "acting"
    <3>1. p \in Operators /\ pc[p] = "operating"
      BY <1>21, <2>1, OneCheckAssumption DEF Operate, Typed, TypeOK, OpLabels
    <3> QED
      BY <3>1, CommandsWait DEF HoldingLabels
  <2> QED
    BY <2>1, <2>2, <2>3 DEF Aside
<1>22. ASSUME NEW p \in Procs, OperateFail(p) PROVE Aside(k)
  <2>1. p # k /\ p \in Procs /\ OnlyWork(p) /\ pc' = pc /\ loc' = loc
    BY <1>22, <1>0, ApplyFailTyped DEF OperateFail
  <2>2. work'[k] = work[k] /\ stage'[k] = stage[k] /\ err'[k] = err[k]
    BY <2>1, <1>0 DEF OnlyWork
  <2>3. pc[k] # "acting"
    <3>1. p \in Operators /\ pc[p] = "operating"
      BY <1>22, <2>1, OneCheckAssumption DEF OperateFail, Typed, TypeOK, OpLabels
    <3> QED
      BY <3>1, CommandsWait DEF HoldingLabels
  <2> QED
    BY <2>1, <2>2, <2>3 DEF Aside
<1>23. ASSUME Trouble PROVE Aside(k)
  BY <1>23 DEF Trouble, Restart, Aside
<1>24. ASSUME Repair PROVE Aside(k)
  BY <1>24 DEF Repair, Aside, dvars
<1>25. ASSUME NEW d \in Dirs, Wait(d) PROVE Aside(k)
  <2>1. pc' = pc /\ loc'[k].dir = loc[k].dir /\ loc'[k].seen = loc[k].seen /\ UNCHANGED dvars
    BY <1>25, <1>0, Waits DEF Wait
  <2> QED
    BY <2>1 DEF Aside, dvars
<1>26. ASSUME NEW d \in Dirs, Age(d) PROVE Aside(k)
  <2>1. pc' = pc /\ UNCHANGED dvars
    BY <1>26 DEF Age
  <2>2. loc'[k] = loc[k] \/ loc'[k] = [loc[k] EXCEPT !.rec.restarts = @ - 1]
    BY <1>26, <1>0 DEF Age
  <2>3. loc[k] \in Locals
    BY <1>0
  <2>4. loc'[k].dir = loc[k].dir /\ loc'[k].seen = loc[k].seen
    BY <2>2, <2>3, Excepts, Zenon
  <2> QED
    BY <2>1, <2>4 DEF Aside, dvars
<1>27. ASSUME Late PROVE Aside(k)
  BY <1>27 DEF Late, Lands, Aside
<1>28. CASE UNCHANGED vars
  BY <1>28 DEF vars, rvars, dvars, Aside
<1> QED
  BY <1>1, <1>2, <1>3, <1>4, <1>5, <1>6, <1>7, <1>8, <1>9, <1>10, <1>11, <1>12, <1>13, <1>14, <1>15,
     <1>16, <1>17, <1>18, <1>19, <1>20, <1>21, <1>22, <1>23, <1>24, <1>25, <1>26, <1>27, <1>28 DEF Next, Alive, CheckStep, OperatorStep, Operators

\* A step that counts no restart.
Still(e) ==
    \/ restarted'[e] = restarted[e] /\ unrecorded'[e] = unrecorded[e]
    \/ restarted'[e] = 0
    \/ rec'[e].restarts = rec[e].restarts - 1

\* Such a step, by actions.
LEMMA StillStep ==
    ASSUME Typed, [Next]_vars, NEW e \in Dirs, \A c \in Checkers : ~Operate(c) /\ ~Killed(c)
    PROVE  Still(e)
<1>0. /\ rec \in [Dirs -> Records] /\ restarted \in [Dirs -> Nat] /\ unrecorded \in [Dirs -> Nat] /\ active \in Dirs
      /\ DeploymentsOK
  BY DEF Typed, TypeOK, DeploymentsOK
<1> USE RecoveryAssumption DEF Operators
<1>1. ASSUME NEW c \in Checkers, Check(c) PROVE Still(e)
  BY <1>1 DEF Check, Still, History, Counts
<1>2. ASSUME NEW c \in Checkers, CheckOff(c) PROVE Still(e)
  BY <1>2 DEF CheckOff, Still, vars, rvars
<1>3. ASSUME NEW c \in Checkers, CheckBusy(c) PROVE Still(e)
  BY <1>3 DEF CheckBusy, Still, History, Counts
<1>4. ASSUME NEW c \in Checkers, CheckState(c) PROVE Still(e)
  BY <1>4 DEF CheckState, Still, History, Counts
<1>5. ASSUME NEW c \in Checkers, CheckInterrupted(c) PROVE Still(e)
  BY <1>5 DEF CheckInterrupted, Still, History, Counts
<1>6. ASSUME NEW c \in Checkers, CheckObserve(c) PROVE Still(e)
  BY <1>6 DEF CheckObserve, Still, History, Counts
<1>7. ASSUME NEW c \in Checkers, CheckDecide(c) PROVE Still(e)
  BY <1>7 DEF CheckDecide, Still, History, Counts
<1>8. ASSUME NEW c \in Checkers, AttemptLock(c) PROVE Still(e)
  BY <1>8 DEF AttemptLock, Still, History, Counts
<1>9. ASSUME NEW c \in Checkers, AttemptRecheck(c) PROVE Still(e)
  BY <1>9 DEF AttemptRecheck, Still, History, Counts
<1>10. ASSUME NEW c \in Checkers, AttemptBegin(c) PROVE Still(e)
  BY <1>10 DEF AttemptBegin, Still, History, Counts
<1>11. ASSUME NEW c \in Checkers, AttemptEnd(c) PROVE Still(e)
  <2>1. UNCHANGED History
    BY <1>11, Zenon DEF AttemptEnd
  <2> QED
    BY <2>1 DEF Still, History, Counts
<1>12. ASSUME NEW c \in Checkers, AttemptRecord(c) PROVE Still(e)
  BY <1>12 DEF AttemptRecord, Still, History, Counts
<1>13. ASSUME NEW c \in Checkers, Killed(c) PROVE Still(e)
  BY <1>13
<1>14. ASSUME NEW p \in Operators, Command(p) PROVE Still(e)
  BY <1>14 DEF Command, Still, History, Counts
<1>15. ASSUME NEW p \in Operators, HoldWrite(p) PROVE Still(e)
  BY <1>15 DEF HoldWrite, Still, History, Counts
<1>16. ASSUME NEW p \in Operators, OpLock(p) PROVE Still(e)
  BY <1>16 DEF OpLock, Still, History, Counts
<1>17. ASSUME NEW p \in Operators, OpSet(p) PROVE Still(e)
  <2>1. \/ UNCHANGED <<restarted, unrecorded>>
        \/ /\ restarted' = [restarted EXCEPT ![active] = 0] /\ unrecorded' = [unrecorded EXCEPT ![active] = 0]
    BY <1>17 DEF OpSet, Counts
  <2> QED
    BY <1>0, <2>1 DEF Still
<1>18. ASSUME NEW p \in Operators, OpForget(p) PROVE Still(e)
  <2>1. UNCHANGED Counts
    BY <1>18, Zenon DEF OpForget
  <2> QED
    BY <2>1 DEF Still, Counts
<1>19. ASSUME NEW p \in Operators, OpRecord(p) PROVE Still(e)
  BY <1>19 DEF OpRecord, Still, History, Counts
<1>20. ASSUME NEW p \in Operators, OpStarted(p) PROVE Still(e)
  <2>1. /\ restarted' = [restarted EXCEPT ![loc[p].dir] = 0] /\ unrecorded' = [unrecorded EXCEPT ![loc[p].dir] = 0]
    BY <1>20 DEF OpStarted
  <2> QED
    BY <1>0, <2>1 DEF Still
<1>21. ASSUME NEW p \in Procs, Operate(p) PROVE Still(e)
  <2>1. p \notin Checkers /\ OnlyWork(p)
    BY <1>21, <1>0, ApplyTyped DEF Operate
  <2>2. \A c \in Checkers : work'[c] = work[c]
    BY <2>1 DEF OnlyWork
  <2>3. ~Restarted(e)
    BY <2>2, Calls DEF Restarted
  <2> QED
    BY <1>21, <2>3 DEF Operate, Still
<1>22. ASSUME NEW p \in Procs, OperateFail(p) PROVE Still(e)
  BY <1>22 DEF OperateFail, Counts, Still
<1>23. ASSUME Trouble PROVE Still(e)
  BY <1>23 DEF Trouble, Still, History, Counts
<1>24. ASSUME Repair PROVE Still(e)
  BY <1>24 DEF Repair, Still, History, Counts
<1>25. ASSUME NEW d \in Dirs, Wait(d) PROVE Still(e)
  BY <1>25 DEF Wait, Still, History, Counts
<1>26. ASSUME NEW d \in Dirs, Age(d) PROVE Still(e)
  <2>1. CASE d = e
    <3>1. rec'[e] = [rec[e] EXCEPT !.restarts = rec[e].restarts - 1] /\ rec[e] \in Records
      BY <1>26, <1>0, <2>1 DEF Age, Update
    <3> QED
      BY <3>1 DEF Still, Records
  <2>2. CASE d # e
    BY <1>26, <1>0, <2>2 DEF Age, Still
  <2> QED
    BY <2>1, <2>2
<1>27. ASSUME Late PROVE Still(e)
  BY <1>27 DEF Late, Still, Counts
<1>28. CASE UNCHANGED vars
  BY <1>28 DEF vars, rvars, Still
<1> QED
  BY <1>1, <1>2, <1>3, <1>4, <1>5, <1>6, <1>7, <1>8, <1>9, <1>10, <1>11, <1>12, <1>13, <1>14, <1>15,
     <1>16, <1>17, <1>18, <1>19, <1>20, <1>21, <1>22, <1>23, <1>24, <1>25, <1>26, <1>27, <1>28 DEF Next, Alive, CheckStep, OperatorStep, Operators

\* One step of the calls that a check makes under the locks.
LEMMA OperateAttempt ==
    ASSUME Typed, NEW k \in Checkers, Operate(k), Attempting(k)
    PROVE  /\ Attempting(k)' /\ work[k] # <<>> /\ pc[k] = "acting" /\ UNCHANGED <<pc, loc>>
           /\ \A e \in Dirs : Restarted(e) => e = loc[k].dir /\ Restored(k)'
<1> DEFINE d == loc[k].dir
<1>0. /\ k \in Procs /\ pc[k] = "acting" /\ UNCHANGED <<pc, loc>> /\ Apply(k, FALSE) /\ Working(k)
  BY RecoveryAssumption DEF Operate, Typed, TypeOK, CheckLabels
<1>00. /\ d \in Dirs /\ work \in [Procs -> Seq(Dirs \X Actions)] /\ stage \in [Procs -> {"none", "begun", "checked"}]
       /\ err \in [Procs -> BOOLEAN] /\ op \in [Dirs -> {"none", "prepare", "up", "down"}] /\ done \in [Dirs -> BOOLEAN]
  BY <1>0 DEF Typed, TypeOK, Located, DeploymentsTypeOK
<1>1. /\ work[k] \in {<<<<d, "up">>>>, <<<<d, "down">>, <<d, "up">>>>}
      /\ stage[k] # "none" => op[d] = Head(work[k])[2]
  <2>1. work[k] # <<>>
    BY <1>0 DEF Working, Apply, ApplyRefuse, ApplyBegin, ApplyCheck, ApplyDone, Verify
  <2> QED
    BY <1>0, <2>1 DEF Attempting
<1>2. Head(work[k])[1] = d /\ Head(work[k])[2] \in {"up", "down"} /\ work[k] # <<>>
  BY <1>1, Calls
<1>3. ASSUME Raise(k, FALSE) PROVE Attempting(k)' /\ \A e \in Dirs : ~Restarted(e)
  <2>1. work'[k] = <<>> /\ stage'[k] = "none" /\ err'[k] = TRUE
    BY <1>0, <1>00, <1>3 DEF Raise
  <2>2. \A c \in Checkers : c = k
    BY OneCheckAssumption
  <2> QED
    BY <2>1, <2>2 DEF Attempting, Restarted
<1>4. ASSUME UNCHANGED work PROVE \A e \in Dirs : ~Restarted(e)
  BY <1>4, Calls DEF Restarted
<1>5. CASE ApplyRefuse(k, FALSE)
  BY <1>0, <1>2, <1>3, <1>5 DEF ApplyRefuse
<1>6. CASE ApplyBegin(k)
  <2>1. op'[d] = Head(work[k])[2] /\ UNCHANGED work
    BY <1>00, <1>2, <1>6 DEF ApplyBegin
  <2>2. Attempting(k)'
    BY <1>0, <1>1, <1>2, <2>1 DEF Attempting
  <2> QED
    BY <1>0, <1>2, <1>4, <2>1, <2>2
<1>7. CASE ApplyCheck(k, FALSE)
  <2>1. CASE UNCHANGED work
    <3>1. stage[k] # "none" /\ UNCHANGED <<op, done>>
      BY <1>7 DEF ApplyCheck
    <3>2. Attempting(k)'
      BY <1>0, <1>1, <1>2, <2>1, <3>1 DEF Attempting
    <3> QED
      BY <1>0, <1>2, <1>4, <2>1, <3>2
  <2>2. CASE Raise(k, FALSE)
    BY <1>0, <1>2, <1>3, <2>2
  <2> QED
    BY <1>7, <2>1, <2>2 DEF ApplyCheck
<1>8. CASE ApplyDone(k, FALSE)
  <2>1. CASE Raise(k, FALSE)
    BY <1>0, <1>2, <1>3, <2>1
  <2>2. CASE Pop(k) /\ UNCHANGED err /\ done' = [done EXCEPT ![d] = TRUE]
    <3>1. /\ work'[k] = Tail(work[k]) /\ stage'[k] = "none" /\ done'[d] = TRUE /\ op' = op /\ stage[k] # "none"
          /\ \A c \in Checkers : c = k
      BY <1>0, <1>00, <1>8, <2>2, OneCheckAssumption DEF Pop, ApplyDone
    <3>2. CASE work[k] = <<<<d, "up">>>>
      <4>1. work'[k] = <<>> /\ op'[d] = "up"
        BY <1>1, <3>1, <3>2, Calls
      <4>2. Attempting(k)'
        BY <1>0, <3>1, <4>1 DEF Attempting
      <4>3. \A e \in Dirs : Restarted(e) => e = d /\ err'[k] = FALSE
        BY <3>1, <3>2 DEF Restarted
      <4> QED
        BY <1>0, <1>2, <4>1, <4>2, <4>3 DEF Restored
    <3>3. CASE work[k] = <<<<d, "down">>, <<d, "up">>>>
      <4>1. work'[k] = <<<<d, "up">>>>
        BY <3>1, <3>3, Calls
      <4>2. Attempting(k)'
        BY <1>0, <3>1, <4>1, Calls DEF Attempting
      <4>3. \A e \in Dirs : ~Restarted(e)
        BY <3>1, <4>1, Calls DEF Restarted
      <4> QED
        BY <1>0, <1>2, <4>2, <4>3
    <3> QED
      BY <1>1, <3>2, <3>3
  <2> QED
    BY <1>2, <1>8, <2>1, <2>2 DEF ApplyDone
<1>9. CASE Verify(k, FALSE)
  BY <1>2, <1>9 DEF Verify
<1> QED
  BY <1>0, <1>5, <1>6, <1>7, <1>8, <1>9 DEF Apply

\* The calls of a check stay what they are.
LEMMA AttemptingStep ==
    ASSUME Typed, Locked, [Next]_vars, NEW k \in Checkers, Attempting(k)
    PROVE  Attempting(k)'
<1>0. /\ k \in Procs /\ pc \in [Procs -> CheckLabels \cup OpLabels] /\ loc \in [Procs -> Locals]
      /\ work \in [Procs -> Seq(Dirs \X Actions)] /\ err \in [Procs -> BOOLEAN]
  BY RecoveryAssumption DEF Typed, TypeOK, DeploymentsTypeOK
<1>1. CASE Aside(k)
  BY <1>1 DEF Aside, Attempting, Under
<1>2. CASE AttemptBegin(k)
  <2>1. CASE pc'[k] = "acting"
    <3>1. /\ work' = [work EXCEPT ![k] = work'[k]] /\ loc' = loc /\ stage' = stage
          /\ work'[k] \in {<<<<loc[k].dir, "up">>>>, <<<<loc[k].dir, "down">>, <<loc[k].dir, "up">>>>}
      BY <1>0, <1>2, <2>1 DEF AttemptBegin, Goto, End
    <3>2. stage[k] = "none"
      BY <1>0, <1>2 DEF AttemptBegin, Locked, Engaged
    <3> QED
      BY <3>1, <3>2, Calls DEF Attempting
  <2>2. CASE pc'[k] # "acting"
    BY <2>2 DEF Attempting
  <2> QED
    BY <2>1, <2>2
<1>3. CASE Operate(k)
  BY <1>3, OperateAttempt
<1>4. CASE OperateFail(k)
  <2>1. work'[k] = <<>> /\ stage'[k] = "none" /\ err'[k] = TRUE
    BY <1>0, <1>4 DEF OperateFail, ApplyFail, Raise, Typed, TypeOK, DeploymentsTypeOK
  <2> QED
    BY <2>1 DEF Attempting
<1>5. CASE AttemptEnd(k) \/ AttemptRecord(k) \/ Killed(k)
  <2>1. pc'[k] # "acting"
    BY <1>0, <1>5 DEF AttemptEnd, AttemptRecord, Killed, Goto, End
  <2> QED
    BY <2>1 DEF Attempting
<1> QED
  BY <1>1, <1>2, <1>3, <1>4, <1>5, AsideStep

\* A restart that waits to be recorded does so until it is recorded or its check dies.
LEMMA WaitingStep ==
    ASSUME Typed, Locked, [Next]_vars, NEW e \in Dirs, NEW k \in Checkers, Attempting(k), ~AttemptRecord(k), ~Killed(k),
           loc[k].dir = e, Restored(k)
    PROVE  loc'[k].dir = e /\ Restored(k)'
<1>0. /\ k \in Procs /\ pc \in [Procs -> CheckLabels \cup OpLabels] /\ loc \in [Procs -> Locals]
  BY RecoveryAssumption DEF Typed, TypeOK
<1>1. pc[k] \in Under /\ (pc[k] = "acting" => work[k] = <<>> /\ ~err[k])
  BY DEF Restored, Under
<1>2. CASE Aside(k)
  BY <1>1, <1>2 DEF Aside, Restored
<1>3. CASE AttemptEnd(k)
  <2>1. pc[k] = "acting" /\ op[e] = "up" /\ done[e]
    BY <1>1, <1>3 DEF AttemptEnd, Attempting
  <2>2. /\ pc'[k] = "ended"
        /\ loc' = [loc EXCEPT ![k].key = Key(e), ![k].seen = "serving"]
    BY <1>0, <1>1, <1>3, <2>1 DEF AttemptEnd, Goto
  <2>3. loc'[k].dir = e /\ loc'[k].seen = "serving"
    <3>1. loc'[k] = [loc[k] EXCEPT !.key = Key(e), !.seen = "serving"] /\ loc[k] \in Locals
      BY <1>0, <2>2
    <3>2. Key(e) \in Keys /\ "serving" \in Findings \cup {""}
      BY KeyTyped, Values DEF Typed, Findings
    <3> QED
      BY <3>1, <3>2 DEF Locals
  <2> QED
    BY <2>2, <2>3 DEF Restored
<1>4. CASE AttemptBegin(k)
  BY <1>1, <1>4 DEF AttemptBegin, Under
<1>5. CASE Operate(k)
  BY <1>1, <1>5, OperateAttempt
<1>6. CASE OperateFail(k)
  BY <1>0, <1>1, <1>6 DEF OperateFail, ApplyFail, Typed, TypeOK, CheckLabels, Under
<1> QED
  BY <1>2, <1>3, <1>4, <1>5, <1>6, AsideStep

\* The restarts of the record change with those of the history, except when one is recorded.
LEMMA RecordKeeps ==
    ASSUME Typed, Bounded, [Next]_vars, NEW e \in Dirs, \A c \in Checkers : ~AttemptRecord(c)
    PROVE  rec'[e].restarts = rec[e].restarts \/ Dropped(e)
<1>1. CASE \E c \in Checkers : CheckInterrupted(c) \/ AttemptBegin(c)
  BY <1>1, InterruptedCounts, BeginCounts
<1>2. CASE \A c \in Checkers : ~CheckInterrupted(c) /\ ~AttemptBegin(c) /\ ~AttemptRecord(c)
  <2>1. Gentle(e)
    BY <1>2, GentleStep DEF Bounded
  <2> QED
    BY <2>1 DEF Gentle
<1> QED
  BY <1>1, <1>2

\* Every restart stays recorded, lost or waiting.
LEMMA RecordedStep ==
    ASSUME Typed, Locked, Bounded, Recording, [Next]_vars, NEW e \in Dirs
    PROVE  Recorded(e)'
<1>0. /\ rec[e].restarts \in Nat /\ restarted[e] \in Nat /\ unrecorded[e] \in Nat
      /\ rec'[e].restarts \in Nat /\ restarted'[e] \in Nat /\ unrecorded'[e] \in Nat
      /\ restarted \in [Dirs -> Nat] /\ unrecorded \in [Dirs -> Nat]
  BY TypedStep, Numbers DEF Typed, TypeOK, Records
<1>1. /\ Waiting(e) \in {0, 1} /\ Waiting(e)' \in {0, 1}
      /\ \A k \in Checkers : Waiting(e) = (IF loc[k].dir = e /\ Restored(k) THEN 1 ELSE 0)
      /\ \A k \in Checkers : Waiting(e)' = (IF loc'[k].dir = e /\ Restored(k)' THEN 1 ELSE 0)
  BY OneCheckAssumption DEF Waiting
<1>2. restarted[e] <= rec[e].restarts + unrecorded[e] + Waiting(e)
  BY DEF Recording, Recorded
<1>3. ASSUME NEW k \in Checkers, AttemptRecord(k) PROVE Recorded(e)'
  <2>1. /\ loc[k].dir \in Dirs /\ pc[k] = "ended" /\ loc[k].rec.restarts \in Nat
        /\ UNCHANGED <<restarted, unrecorded>>
    BY <1>3, ReadNumbers DEF AttemptRecord, Counts
  <2>2. CASE loc[k].dir = e /\ loc[k].seen = "serving"
    <3>1. rec'[e].restarts = loc[k].rec.restarts + 1
      BY <1>3, <2>2, RecordCounts
    <3>2. rec[e].restarts <= loc[k].rec.restarts
      BY <2>1, <2>2 DEF Bounded, Restarts
    <3> QED
      BY <1>0, <1>1, <1>2, <2>1, <3>1, <3>2 DEF Recorded
  <2>3. CASE ~(loc[k].dir = e /\ loc[k].seen = "serving")
    <3>1. rec'[e].restarts = rec[e].restarts
      BY <1>3, <2>1, <2>3, RecordCounts
    <3>2. Waiting(e) = 0
      BY <1>1, <2>1, <2>3 DEF Restored
    <3> QED
      BY <1>0, <1>1, <1>2, <2>1, <3>1, <3>2 DEF Recorded
  <2> QED
    BY <2>2, <2>3
<1>4. ASSUME NEW k \in Checkers, Killed(k) PROVE Recorded(e)'
  <2>1. rec' = rec /\ restarted' = restarted
    BY <1>4 DEF Killed
  <2>2. unrecorded'[e] = IF loc[k].dir = e /\ Restored(k) /\ unrecorded[e] < restarted[e]
                         THEN unrecorded[e] + 1 ELSE unrecorded[e]
    BY <1>4 DEF Killed
  <2> QED
    BY <1>0, <1>1, <1>2, <2>1, <2>2 DEF Recorded
<1>5. ASSUME NEW k \in Checkers, Operate(k) PROVE Recorded(e)'
  <2>1. /\ rec' = rec /\ unrecorded' = unrecorded
        /\ restarted'[e] = IF Restarted(e) THEN restarted[e] + 1 ELSE restarted[e]
    BY <1>5 DEF Operate
  <2>2. /\ work[k] # <<>> /\ pc[k] = "acting" /\ UNCHANGED <<pc, loc>>
        /\ Restarted(e) => e = loc[k].dir /\ Restored(k)'
    BY <1>5, OperateAttempt DEF Recording
  <2>3. Waiting(e) = 0
    BY <1>1, <2>2 DEF Restored
  <2>4. Restarted(e) => Waiting(e)' = 1
    BY <1>1, <2>2
  <2> QED
    BY <1>0, <1>1, <1>2, <2>1, <2>3, <2>4 DEF Recorded
<1>6. ASSUME \A k \in Checkers : ~AttemptRecord(k) /\ ~Killed(k) /\ ~Operate(k) PROVE Recorded(e)'
  <2>1. Still(e) /\ (rec'[e].restarts = rec[e].restarts \/ Dropped(e))
    BY <1>6, StillStep, RecordKeeps
  <2>2. Waiting(e) <= Waiting(e)'
    <3>1. CASE Waiting(e) = 0
      BY <1>1, <3>1
    <3>2. CASE Waiting(e) = 1
      <4>1. PICK k \in Checkers : loc[k].dir = e /\ Restored(k)
        BY <3>2 DEF Waiting
      <4>2. loc'[k].dir = e /\ Restored(k)'
        BY <1>6, <4>1, WaitingStep DEF Recording
      <4> QED
        BY <1>1, <3>2, <4>2
    <3> QED
      BY <1>1, <3>1, <3>2
  <2>3. \/ restarted'[e] = 0
        \/ restarted'[e] = restarted[e] /\ unrecorded'[e] = unrecorded[e] /\ rec'[e].restarts = rec[e].restarts
        \/ /\ restarted'[e] = restarted[e] - 1 /\ unrecorded'[e] = unrecorded[e]
           /\ rec'[e].restarts = rec[e].restarts - 1
    BY <1>0, <2>1 DEF Still, Dropped
  <2> QED
    BY <1>0, <1>1, <1>2, <2>2, <2>3 DEF Recorded
<1> QED
  BY <1>3, <1>4, <1>5, <1>6

\* RESTART_LIMIT for any limits, deployments, operators and faults: recovery restarts a model at
\* most RestartLimit times within the window, but for the restarts that no record could count
\* because their check died before it wrote one, although operators reset the record while a check
\* acts on what it read and although a check records its restart after it has released the locks.
THEOREM RestartsAreBounded == Spec => []RestartsBounded
<1>1. Init => Recording
  <2> SUFFICES ASSUME Init PROVE Recording
    OBVIOUS
  <2>1. \A c \in Checkers : pc[c] = "idle"
    BY RecoveryAssumption DEF Init
  <2>2. \A d \in Dirs : rec[d].restarts = 0 /\ restarted[d] = 0 /\ unrecorded[d] = 0 /\ Waiting(d) = 0
    BY <2>1 DEF Init, Fresh, Waiting, Restored
  <2> QED
    BY <2>1, <2>2 DEF Recording, Attempting, Recorded
<1>2. Typed /\ Locked /\ Bounded /\ Recording /\ [Next]_vars => Recording'
  BY AttemptingStep, RecordedStep DEF Recording
<1>3. Typed /\ Bounded /\ Recording => RestartsBounded
  <2> SUFFICES ASSUME Typed, Bounded, Recording, NEW d \in Dirs
               PROVE  restarted[d] <= RestartLimit + unrecorded[d]
    BY DEF RestartsBounded
  <2>1. /\ rec[d].restarts \in Nat /\ restarted[d] \in Nat /\ unrecorded[d] \in Nat /\ RestartLimit \in Nat
        /\ rec[d].restarts <= RestartLimit
    BY Numbers DEF Typed, TypeOK, Bounded, Counted
  <2>2. restarted[d] <= rec[d].restarts + unrecorded[d] + Waiting(d)
    BY DEF Recording, Recorded
  <2>3. CASE \E k \in Checkers : loc[k].dir = d /\ Restored(k)
    <3>1. PICK k \in Checkers : loc[k].dir = d /\ Restored(k)
      BY <2>3
    <3>2. pc[k] \in {"acting", "ended"}
      BY <3>1 DEF Restored
    <3>3. loc[k].rec.restarts \in Nat
      BY <3>2, ReadNumbers
    <3>4. rec[d].restarts <= loc[k].rec.restarts /\ loc[k].rec.restarts < RestartLimit
      BY <3>1, <3>2 DEF Bounded, Restarts
    <3>5. Waiting(d) = 1
      BY <2>3 DEF Waiting
    <3> QED
      BY <2>1, <2>2, <3>3, <3>4, <3>5
  <2>4. CASE ~\E k \in Checkers : loc[k].dir = d /\ Restored(k)
    <3>1. Waiting(d) = 0
      BY <2>4 DEF Waiting
    <3> QED
      BY <2>1, <2>2, <3>1
  <2> QED
    BY <2>3, <2>4
<1> QED
  BY <1>1, <1>2, <1>3, LockedInv, BoundedInv, PTL DEF Spec

=============================================================================
