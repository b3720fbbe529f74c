-------------------------- MODULE DeploymentsProofs --------------------------
(***************************************************************************)
(* What every step of installer.apply keeps, for any deployments, any      *)
(* placements and any callers: the lemmas that the proofs about its        *)
(* callers use.                                                            *)
(***************************************************************************)
EXTENDS Deployments, TLAPS

\* A process inside a call has that call at the head of its work, and it is not a
\* verification, which takes no operation.lock.
Working(p) == stage[p] # "none" => work[p] # <<>> /\ Head(work[p])[2] # "verify"

DeploymentsOK == DeploymentsTypeOK /\ \A p \in Procs : Working(p)

\* The process p goes on with its calls; the others keep theirs.
OnlyWork(p) == \A q \in Procs \ {p} : work'[q] = work[q] /\ stage'[q] = stage[q] /\ err'[q] = err[q]

\* A Spark of a deployment is a position of the ring.
LEMMA Sparks == ASSUME NEW d \in Dirs PROVE SparksOf(d) \in SUBSET Positions
  BY DeploymentsAssumption DEF SparksOf, Placements

\* The first call of a process names a deployment and an action.
LEMMA FirstCall ==
    ASSUME DeploymentsTypeOK, NEW p \in Procs, work[p] # <<>>
    PROVE  /\ Head(work[p])[1] \in Dirs /\ Head(work[p])[2] \in Actions
           /\ Tail(work[p]) \in Seq(Dirs \X Actions)
<1>1. work[p] \in Seq(Dirs \X Actions)
  BY DEF DeploymentsTypeOK
<1>2. Head(work[p]) \in Dirs \X Actions /\ Tail(work[p]) \in Seq(Dirs \X Actions)
  BY <1>1
<1> QED
  BY <1>2

\* The bound on faults.
LEMMA FaultCounted ==
    ASSUME DeploymentsTypeOK, faults < MaxFaults, faults' = faults + 1
    PROVE  faults' \in 0..MaxFaults
<1>1. faults \in 0..MaxFaults
  BY DEF DeploymentsTypeOK
<1> QED
  BY <1>1, DeploymentsAssumption

\* A call that returns or raises leaves the work typed, and the process outside of a call.
LEMMA CallEnds ==
    ASSUME DeploymentsTypeOK, NEW p \in Procs, NEW t \in BOOLEAN, work[p] # <<>>,
           (Pop(p) /\ UNCHANGED err) \/ Raise(p, t)
    PROVE  /\ work' \in [Procs -> Seq(Dirs \X Actions)] /\ stage'[p] = "none"
           /\ stage' \in [Procs -> {"none", "begun", "checked"}] /\ err' \in [Procs -> BOOLEAN]
           /\ OnlyWork(p)
<1>1. Tail(work[p]) \in Seq(Dirs \X Actions) /\ <<>> \in Seq(Dirs \X Actions)
  BY FirstCall
<1>2. CASE Pop(p) /\ UNCHANGED err
  BY <1>1, <1>2 DEF Pop, DeploymentsTypeOK, OnlyWork
<1>3. CASE Raise(p, t)
  BY <1>1, <1>3 DEF Raise, DeploymentsTypeOK, OnlyWork
<1> QED
  BY <1>2, <1>3

\* What the deployments have on the Sparks is typed.
PlacesTyped ==
    /\ receipt \in [Dirs -> {"fresh", "halfway", "unsure", "changed"}]
    /\ runs \in [Dirs -> SUBSET Positions] /\ starting \in [Dirs -> SUBSET Positions]
    /\ stopping \in [Dirs -> SUBSET Positions]
    /\ \A d \in Dirs : runs[d] \cup starting[d] \subseteq SparksOf(d)

\* So are the strays that the history keeps.
LEMMA TrackTyped ==
    ASSUME DeploymentsTypeOK, PlacesTyped', NEW held \in BOOLEAN, Track(held)
    PROVE  strays' \in [Dirs -> SUBSET Positions]
  BY DEF Track, DeploymentsTypeOK, PlacesTyped

\* An interrupted operation leaves its receipt, containers and late commands typed.
LEMMA InterruptedTyped ==
    ASSUME DeploymentsTypeOK, NEW d \in Dirs, NEW a, NEW st, Interrupted(d, a, st)
    PROVE  PlacesTyped'
<1> USE DEF DeploymentsTypeOK, PlacesTyped
<1>0. SparksOf(d) \in SUBSET Positions
  BY Sparks
<1>1. CASE UNCHANGED <<receipt, runs, starting, stopping>>
  BY <1>1
<1>2. ASSUME NEW r \in {receipt[d], "unsure"}, receipt' = [receipt EXCEPT ![d] = r],
             UNCHANGED <<runs, starting, stopping>>
      PROVE  PlacesTyped'
  BY <1>2
<1>3. ASSUME NEW S \in SUBSET ToStart(d), NEW L \in SUBSET ToStart(d), NEW r \in {"halfway", "unsure", "changed"},
             receipt' = [receipt EXCEPT ![d] = r], runs' = [runs EXCEPT ![d] = @ \cup S],
             starting' = [starting EXCEPT ![d] = @ \cup L], UNCHANGED stopping
      PROVE  PlacesTyped'
  <2>1. S \subseteq SparksOf(d) /\ L \subseteq SparksOf(d)
    BY DEF ToStart
  <2> QED
    BY <1>0, <1>3, <2>1
<1>4. ASSUME NEW S \in SUBSET runs[d], NEW L \in SUBSET runs[d], NEW r \in {"unsure", "changed"},
             receipt' = [receipt EXCEPT ![d] = r], runs' = [runs EXCEPT ![d] = @ \ S],
             stopping' = [stopping EXCEPT ![d] = @ \cup L], UNCHANGED starting
      PROVE  PlacesTyped'
  BY <1>0, <1>4
<1> QED
  BY <1>1, <1>2, <1>3, <1>4 DEF Interrupted

\* A step of installer.apply keeps the types and moves only its own process.
LEMMA ApplyTyped ==
    ASSUME DeploymentsOK, NEW p \in Procs, NEW t \in BOOLEAN, Apply(p, t)
    PROVE  DeploymentsOK' /\ OnlyWork(p)
<1> USE DEF DeploymentsOK
<1>0. DeploymentsTypeOK /\ Working(p)
  OBVIOUS
<1>1. CASE ApplyRefuse(p, t)
  <2>1. work[p] # <<>> /\ Raise(p, t)
    BY <1>1 DEF ApplyRefuse
  <2>2. /\ work' \in [Procs -> Seq(Dirs \X Actions)] /\ stage'[p] = "none"
        /\ stage' \in [Procs -> {"none", "begun", "checked"}] /\ err' \in [Procs -> BOOLEAN] /\ OnlyWork(p)
    BY <2>1, CallEnds
  <2>3. UNCHANGED <<op, done, receipt, runs, starting, stopping, strays, faults>>
    BY <1>1 DEF ApplyRefuse
  <2> QED
    BY <2>2, <2>3 DEF DeploymentsTypeOK, Working, OnlyWork
<1>2. CASE ApplyBegin(p)
  <2>1. Head(work[p])[1] \in Dirs /\ Head(work[p])[2] \in {"prepare", "up", "down"}
    BY <1>2, FirstCall DEF ApplyBegin, Actions
  <2>2. receipt' \in [Dirs -> {"fresh", "halfway", "unsure", "changed"}]
    BY <1>2, <2>1 DEF ApplyBegin, DeploymentsTypeOK
  <2>3. /\ op' \in [Dirs -> {"none", "prepare", "up", "down"}] /\ done' \in [Dirs -> BOOLEAN]
        /\ stage' \in [Procs -> {"none", "begun", "checked"}]
    BY <1>2, <2>1 DEF ApplyBegin, DeploymentsTypeOK
  <2> QED
    BY <1>2, <2>2, <2>3 DEF ApplyBegin, DeploymentsTypeOK, Working, OnlyWork
<1>3. CASE ApplyCheck(p, t)
  <2>1. work[p] # <<>>
    BY <1>0, <1>3 DEF ApplyCheck, Working
  <2>2. CASE GpusFree(Head(work[p])[1])
    BY <1>3, <2>2 DEF ApplyCheck, DeploymentsTypeOK, Working, OnlyWork
  <2>3. CASE Raise(p, t)
    BY <1>3, <2>1, <2>3, CallEnds DEF ApplyCheck, DeploymentsTypeOK, Working, OnlyWork
  <2> QED
    BY <1>3, <2>2, <2>3 DEF ApplyCheck
<1>4. CASE ApplyDone(p, t)
  <2>1. work[p] # <<>> /\ Head(work[p])[2] # "verify"
    BY <1>0, <1>4 DEF ApplyDone, Working
  <2>2. CASE Raise(p, t) /\ UNCHANGED <<done, receipt, runs, strays>>
    BY <1>4, <2>1, <2>2, CallEnds DEF ApplyDone, DeploymentsTypeOK, Working, OnlyWork
  <2>3. CASE ~(Raise(p, t) /\ UNCHANGED <<done, receipt, runs, strays>>)
    <3> DEFINE d == Head(work[p])[1]
               a == Head(work[p])[2]
    <3>0. d \in Dirs /\ a \in {"prepare", "up", "down"} /\ SparksOf(d) \in SUBSET Positions
      BY <2>1, FirstCall, Sparks DEF Actions
    <3>1. /\ runs' = [runs EXCEPT ![d] = CASE a = "up" -> SparksOf(d) [] a = "down" -> {} [] a = "prepare" -> @]
          /\ Track(granted[p] # NoGrant)
          /\ receipt' = [receipt EXCEPT ![d] = "changed"] /\ done' = [done EXCEPT ![d] = TRUE]
          /\ Pop(p) /\ UNCHANGED err /\ UNCHANGED <<op, starting, stopping, faults>>
      BY <1>4, <2>3 DEF ApplyDone
    <3> HIDE DEF d, a
    <3>2. PlacesTyped'
      <4>1. CASE a = "up"
        BY <3>0, <3>1, <4>1 DEF DeploymentsTypeOK, PlacesTyped
      <4>2. CASE a = "down"
        BY <3>0, <3>1, <4>2 DEF DeploymentsTypeOK, PlacesTyped
      <4>3. CASE a = "prepare"
        BY <3>0, <3>1, <4>3 DEF DeploymentsTypeOK, PlacesTyped
      <4> QED
        BY <3>0, <4>1, <4>2, <4>3
    <3>3. strays' \in [Dirs -> SUBSET Positions] /\ done' \in [Dirs -> BOOLEAN]
      BY <3>0, <3>1, <3>2, TrackTyped DEF DeploymentsTypeOK
    <3>4. /\ work' \in [Procs -> Seq(Dirs \X Actions)] /\ stage'[p] = "none"
          /\ stage' \in [Procs -> {"none", "begun", "checked"}] /\ err' \in [Procs -> BOOLEAN] /\ OnlyWork(p)
      BY <2>1, <3>1, CallEnds
    <3> QED
      BY <3>1, <3>2, <3>3, <3>4 DEF DeploymentsTypeOK, PlacesTyped, Working, OnlyWork
  <2> QED
    BY <2>2, <2>3
<1>5. CASE Verify(p, t)
  <2>1. work[p] # <<>> /\ ((Pop(p) /\ UNCHANGED err) \/ Raise(p, t))
    BY <1>5 DEF Verify
  <2> QED
    BY <1>5, <2>1, CallEnds DEF Verify, DeploymentsTypeOK, Working, OnlyWork
<1> QED
  BY <1>1, <1>2, <1>3, <1>4, <1>5 DEF Apply

\* So does a call that fails, ...
LEMMA ApplyFailTyped ==
    ASSUME DeploymentsOK, NEW p \in Procs, NEW t \in BOOLEAN, ApplyFail(p, t)
    PROVE  DeploymentsOK' /\ OnlyWork(p)
<1> USE DEF DeploymentsOK
<1>1. /\ work' \in [Procs -> Seq(Dirs \X Actions)] /\ stage'[p] = "none"
      /\ stage' \in [Procs -> {"none", "begun", "checked"}] /\ err' \in [Procs -> BOOLEAN] /\ OnlyWork(p)
  BY CallEnds DEF ApplyFail
<1>2. faults' \in 0..MaxFaults
  BY FaultCounted DEF ApplyFail
<1>3. PlacesTyped'
  <2>1. CASE UNCHANGED <<receipt, runs, starting, stopping>>
    BY <2>1 DEF DeploymentsTypeOK, PlacesTyped
  <2>2. CASE Interrupted(Head(work[p])[1], Head(work[p])[2], stage[p])
    BY <2>2, FirstCall, InterruptedTyped DEF ApplyFail
  <2> QED
    BY <2>1, <2>2 DEF ApplyFail
<1>4. strays' \in [Dirs -> SUBSET Positions]
  BY <1>3, TrackTyped DEF ApplyFail
<1> QED
  BY <1>1, <1>2, <1>3, <1>4 DEF ApplyFail, DeploymentsTypeOK, PlacesTyped, Working, OnlyWork

\* ... a process that dies, ...
LEMMA ApplyKilledTyped ==
    ASSUME DeploymentsOK, NEW p \in Procs, ApplyKilled(p)
    PROVE  DeploymentsOK' /\ OnlyWork(p) /\ stage'[p] = "none"
<1> USE DEF DeploymentsOK
<1>1. /\ work' \in [Procs -> Seq(Dirs \X Actions)] /\ stage'[p] = "none"
      /\ stage' \in [Procs -> {"none", "begun", "checked"}] /\ err' \in [Procs -> BOOLEAN] /\ OnlyWork(p)
  <2>1. <<>> \in Seq(Dirs \X Actions)
    OBVIOUS
  <2> QED
    BY <2>1 DEF ApplyKilled, DeploymentsTypeOK, OnlyWork
<1>2. faults' \in 0..MaxFaults
  BY FaultCounted DEF ApplyKilled
<1>3. PlacesTyped'
  <2>1. CASE stage[p] = "none"
    BY <2>1 DEF ApplyKilled, DeploymentsTypeOK, PlacesTyped
  <2>2. CASE stage[p] # "none"
    BY <2>2, FirstCall, InterruptedTyped DEF ApplyKilled, Working
  <2> QED
    BY <2>1, <2>2
<1>4. strays' \in [Dirs -> SUBSET Positions]
  BY <1>3, TrackTyped DEF ApplyKilled
<1> QED
  BY <1>1, <1>2, <1>3, <1>4 DEF ApplyKilled, DeploymentsTypeOK, PlacesTyped, Working, OnlyWork

\* ... a late command that ends ...
LEMMA LandsTyped == ASSUME DeploymentsOK, Lands PROVE DeploymentsOK'
<1>1. PlacesTyped'
  <2>1. ASSUME NEW d \in Dirs, NEW i \in starting[d], runs' = [runs EXCEPT ![d] = @ \cup {i}],
               starting' = [starting EXCEPT ![d] = @ \ {i}], UNCHANGED <<receipt, stopping>>
        PROVE  PlacesTyped'
    BY <2>1 DEF DeploymentsOK, DeploymentsTypeOK, PlacesTyped
  <2>2. ASSUME NEW d \in Dirs, NEW i \in stopping[d], runs' = [runs EXCEPT ![d] = @ \ {i}],
               stopping' = [stopping EXCEPT ![d] = @ \ {i}], UNCHANGED <<receipt, starting>>
        PROVE  PlacesTyped'
    BY <2>2 DEF DeploymentsOK, DeploymentsTypeOK, PlacesTyped
  <2> QED
    BY <2>1, <2>2 DEF Lands
<1>2. strays' \in [Dirs -> SUBSET Positions]
  BY <1>1, TrackTyped DEF Lands, DeploymentsOK
<1> QED
  BY <1>1, <1>2 DEF Lands, DeploymentsOK, DeploymentsTypeOK, PlacesTyped, Working

\* ... and a Spark that restarts.
LEMMA RestartTyped == ASSUME DeploymentsOK, NEW i, Restart(i) PROVE DeploymentsOK'
<1>1. faults' \in 0..MaxFaults
  BY FaultCounted DEF Restart, DeploymentsOK
<1>2. PlacesTyped'
  BY DEF Restart, DeploymentsOK, DeploymentsTypeOK, PlacesTyped
<1>3. strays' \in [Dirs -> SUBSET Positions]
  BY <1>2, TrackTyped DEF Restart, DeploymentsOK
<1> QED
  BY <1>1, <1>2, <1>3 DEF Restart, DeploymentsOK, DeploymentsTypeOK, PlacesTyped, Working

-----------------------------------------------------------------------------
(* No two models on one Spark, but for strays.                             *)

\* A start past its prerequisites has only strays of other deployments on its Sparks.
Cleared(p) ==
    stage[p] = "checked" =>
        \A e \in Dirs \ {Head(work[p])[1]} : runs[e] \cap SparksOf(Head(work[p])[1]) \subseteq strays[e]

\* Strays stay strays while they run.
StraysKept == \A e \in Dirs : strays[e] \cap runs'[e] \subseteq strays'[e]

\* Containers appear as strays, or for the deployment that p starts past its prerequisites.
StartsOnly(p) ==
    /\ StraysKept
    /\ \A e \in Dirs : \/ runs'[e] \subseteq runs[e] \cup strays'[e]
                       \/ stage[p] = "checked" /\ e = Head(work[p])[1] /\ runs'[e] \subseteq SparksOf(e)

\* Track keeps the strays, and takes up the containers of a step whose caller holds nothing.
LEMMA TrackKeeps ==
    ASSUME NEW held \in BOOLEAN, Track(held)
    PROVE  StraysKept /\ (~held => \A e \in Dirs : runs'[e] \ runs[e] \subseteq strays'[e])
  BY DEF Track, StraysKept

LEMMA StraysSame == UNCHANGED strays => StraysKept
  BY DEF StraysKept

LEMMA InterruptedStarts ==
    ASSUME DeploymentsTypeOK, NEW p \in Procs, work[p] # <<>>, StraysKept,
           Interrupted(Head(work[p])[1], Head(work[p])[2], stage[p])
    PROVE  StartsOnly(p)
<1> DEFINE d == Head(work[p])[1]
           a == Head(work[p])[2]
<1>0. d \in Dirs
  BY FirstCall
<1> HIDE DEF d, a
<1>1. CASE runs' = runs
  BY <1>1 DEF StartsOnly
<1>2. ASSUME NEW S \in SUBSET ToStart(d), runs' = [runs EXCEPT ![d] = @ \cup S], stage[p] = "checked"
      PROVE  StartsOnly(p)
  BY <1>0, <1>2 DEF StartsOnly, DeploymentsTypeOK, ToStart, d
<1>3. ASSUME NEW S \in SUBSET runs[d], runs' = [runs EXCEPT ![d] = @ \ S]
      PROVE  StartsOnly(p)
  BY <1>0, <1>3 DEF StartsOnly, DeploymentsTypeOK
<1> QED
  BY <1>1, <1>2, <1>3 DEF Interrupted, d, a

\* A step of installer.apply starts containers only past the prerequisites, and passes them
\* only when the Sparks are free.
LEMMA ApplyStarts ==
    ASSUME DeploymentsOK, NEW p \in Procs, NEW t \in BOOLEAN,
           Apply(p, t) \/ ApplyFail(p, t) \/ ApplyKilled(p)
    PROVE  StartsOnly(p) /\ Cleared(p)'
<1> USE DEF DeploymentsOK
<1>0. DeploymentsTypeOK /\ Working(p)
  OBVIOUS
<1>1. CASE ApplyRefuse(p, t)
  BY <1>1, StraysSame DEF ApplyRefuse, Raise, DeploymentsTypeOK, StartsOnly, Cleared
<1>2. CASE ApplyBegin(p)
  BY <1>2, StraysSame DEF ApplyBegin, DeploymentsTypeOK, StartsOnly, Cleared
<1>3. CASE ApplyCheck(p, t)
  BY <1>3, StraysSame DEF ApplyCheck, Raise, DeploymentsTypeOK, StartsOnly, Cleared, GpusFree
<1>4. CASE ApplyDone(p, t)
  <2>1. work[p] # <<>> /\ Head(work[p])[1] \in Dirs
    BY <1>0, <1>4, FirstCall DEF ApplyDone, Working
  <2>2. stage'[p] = "none"
    BY <1>4 DEF ApplyDone, Raise, Pop, DeploymentsTypeOK
  <2>0. StraysKept
    BY <1>4, TrackKeeps, StraysSame DEF ApplyDone
  <2>3. CASE runs' = runs
    BY <2>0, <2>2, <2>3 DEF StartsOnly, Cleared
  <2>4. CASE Head(work[p])[2] = "up" /\ runs' = [runs EXCEPT ![Head(work[p])[1]] = SparksOf(Head(work[p])[1])]
    <3>1. stage[p] = "checked"
      BY <1>4, <2>4 DEF ApplyDone
    <3> QED
      BY <2>0, <2>1, <2>2, <2>4, <3>1 DEF StartsOnly, Cleared, DeploymentsTypeOK
  <2>5. CASE runs' = [runs EXCEPT ![Head(work[p])[1]] = {}]
    BY <2>0, <2>1, <2>2, <2>5 DEF StartsOnly, Cleared, DeploymentsTypeOK
  <2>6. Head(work[p])[2] \in {"prepare", "up", "down"}
    BY <1>0, <1>4, <2>1, FirstCall DEF ApplyDone, Working, Actions
  <2>7. Head(work[p])[2] = "prepare" => runs' = runs
    BY <1>4, <2>1 DEF ApplyDone, DeploymentsTypeOK
  <2> QED
    BY <1>4, <2>3, <2>4, <2>5, <2>6, <2>7 DEF ApplyDone
<1>5. CASE Verify(p, t)
  BY <1>5, StraysSame DEF Verify, Raise, Pop, DeploymentsTypeOK, StartsOnly, Cleared
<1>6. CASE ApplyFail(p, t)
  <2>1. stage'[p] = "none"
    BY <1>6 DEF ApplyFail, Raise, DeploymentsTypeOK
  <2>2. StartsOnly(p)
    <3>0. StraysKept
      BY <1>6, TrackKeeps DEF ApplyFail
    <3>1. CASE runs' = runs
      BY <3>0, <3>1 DEF StartsOnly
    <3> QED
      BY <1>6, <3>0, <3>1, InterruptedStarts DEF ApplyFail
  <2> QED
    BY <2>1, <2>2 DEF Cleared
<1>7. CASE ApplyKilled(p)
  <2>1. stage'[p] = "none"
    BY <1>7 DEF ApplyKilled, DeploymentsTypeOK
  <2>2. StartsOnly(p)
    <3>0. StraysKept
      BY <1>7, TrackKeeps DEF ApplyKilled
    <3>1. CASE runs' = runs
      BY <3>0, <3>1 DEF StartsOnly
    <3>2. CASE stage[p] # "none"
      BY <1>0, <1>7, <3>0, <3>2, InterruptedStarts DEF ApplyKilled, Working
    <3> QED
      BY <1>7, <3>1, <3>2 DEF ApplyKilled
  <2> QED
    BY <2>1, <2>2 DEF Cleared
<1> QED
  BY <1>1, <1>2, <1>3, <1>4, <1>5, <1>6, <1>7 DEF Apply

\* The end of a late command and the restart of a Spark start nothing but strays.
OnlyStrays == StraysKept /\ \A e \in Dirs : runs'[e] \subseteq runs[e] \cup strays'[e]

LEMMA LandsStrays == ASSUME Lands PROVE OnlyStrays
<1>1. StraysKept /\ \A e \in Dirs : runs'[e] \ runs[e] \subseteq strays'[e]
  BY TrackKeeps DEF Lands
<1> QED
  BY <1>1 DEF OnlyStrays

LEMMA RestartStrays == ASSUME NEW i, Restart(i) PROVE OnlyStrays
<1>1. StraysKept
  BY TrackKeeps DEF Restart
<1>2. \A e \in Dirs : runs'[e] \subseteq runs[e]
  BY DEF Restart
<1> QED
  BY <1>1, <1>2 DEF OnlyStrays

\* A step of apply leaves no two deployments on one Spark unless one of them strayed there, ...
LEMMA StartsApart ==
    ASSUME DeploymentsTypeOK, OnlyStraysShare, NEW p \in Procs, Cleared(p), StartsOnly(p)
    PROVE  OnlyStraysShare'
<1> SUFFICES ASSUME NEW d \in Dirs, NEW e \in Dirs, d # e, NEW i \in runs'[d] \cap runs'[e]
             PROVE  i \in strays'[d] \cup strays'[e]
  BY DEF OnlyStraysShare
<1>1. CASE i \in runs[d] /\ i \in runs[e]
  BY <1>1 DEF OnlyStraysShare, StartsOnly, StraysKept
<1>2. CASE i \notin runs[d]
  <2>1. i \in strays'[d] \/ (stage[p] = "checked" /\ d = Head(work[p])[1] /\ i \in SparksOf(d))
    BY <1>2 DEF StartsOnly
  <2>2. i \in strays'[e] \/ i \in runs[e] \/ (stage[p] = "checked" /\ e = Head(work[p])[1])
    BY DEF StartsOnly
  <2> QED
    BY <2>1, <2>2 DEF Cleared, StartsOnly, StraysKept
<1>3. CASE i \notin runs[e]
  <2>1. i \in strays'[e] \/ (stage[p] = "checked" /\ e = Head(work[p])[1] /\ i \in SparksOf(e))
    BY <1>3 DEF StartsOnly
  <2>2. i \in strays'[d] \/ i \in runs[d] \/ (stage[p] = "checked" /\ d = Head(work[p])[1])
    BY DEF StartsOnly
  <2> QED
    BY <2>1, <2>2 DEF Cleared, StartsOnly, StraysKept
<1> QED
  BY <1>1, <1>2, <1>3

\* ... and takes no Spark from another start that has passed its prerequisites, if the locks
\* of their callers keep the two starts on different Sparks.
LEMMA StartsKeepClear ==
    ASSUME NEW p \in Procs, NEW q \in Procs, q # p, Cleared(q), StartsOnly(p), OnlyWork(p),
           stage[p] = "checked" /\ stage[q] = "checked" =>
               SparksOf(Head(work[p])[1]) \cap SparksOf(Head(work[q])[1]) = {}
    PROVE  Cleared(q)'
<1> SUFFICES ASSUME stage[q] = "checked", NEW e \in Dirs \ {Head(work[q])[1]},
                    NEW i \in runs'[e] \cap SparksOf(Head(work[q])[1])
             PROVE  i \in strays'[e]
  BY DEF Cleared, OnlyWork, SparksOf
<1>1. CASE i \in runs[e]
  BY <1>1 DEF Cleared, StartsOnly, StraysKept
<1>2. CASE stage[p] = "checked" /\ e = Head(work[p])[1] /\ runs'[e] \subseteq SparksOf(e)
  BY <1>2
<1> QED
  BY <1>1, <1>2 DEF StartsOnly
=============================================================================
