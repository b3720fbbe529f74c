--------------------------- MODULE TeardownProofs ---------------------------
(***************************************************************************)
(* Proofs about Teardown for any ranks, any objects and any number of      *)
(* faults.                                                                 *)
(***************************************************************************)
EXTENDS Teardown, TLAPS

\* A rank is in the close of at most one object, those it aborts aside.
Sequential ==
    \A e, f \in Ends : e # f /\ e[1] = f[1] /\ ~aborted[e] /\ ~aborted[f] =>
        pc[e] \in {"open", "closed", "left"} \/ pc[f] \in {"open", "closed", "left"}

\* What a close that is past its synchronization knows of its own work.
Settled(e) ==
    /\ aborted[e] => pc[e] \in {"sync", "last_stop", "destroy", "closed", "left"}
    /\ pc[e] \notin {"open", "sync", "left"} =>
          /\ ~own[e] => kernel[e] = "done" /\ ~unsettled[e]
          /\ ~unsettled[e] => kernel[e] # "running"
    /\ pc[e] \in {"open", "sync"} => ~unsettled[e]
    /\ pc[e] \in {"enter2", "round2"} => thread[e] # "running"
    /\ own[e] => result[e] # "healthy"
    /\ result[e] = "interrupted" => pc[e] = "closed" /\ arena[e] = "retained"
    /\ pc[e] # "left" /\ arena[e] = "freed" => kernel[e] # "running"

\* What a note says is what its rank knew, and a second note that its thread had stopped.
Says(note, e) ==
    /\ pc[e] \notin {"open", "sync", "enter1", "left"}
    /\ note.phase = 1 => note.failure = own[e]
    /\ note.phase = 2 => thread[e] # "running" /\ ~note.failure

Truthful(r) ==
    \A k \in DOMAIN calls[r] : \A e \in Ends :
        e[1] = r /\ e[2] = calls[r][k].object => Says(calls[r][k], e)

\* The last note of a rank in a round is that of the close it is in.
InRound(e) ==
    /\ pc[e] \in {"round1", "stop", "enter2", "round2"} => ~unusable[e[1]]
    /\ pc[e] \in {"round1", "round2"} =>
          /\ calls[e[1]] # <<>>
          /\ calls[e[1]][Len(calls[e[1]])].object = e[2]
          /\ calls[e[1]][Len(calls[e[1]])].phase = IF pc[e] = "round1" THEN 1 ELSE 2

\* A healthy close past its first round has every rank's vote; past its second every
\* rank's thread has stopped.
Agreed(e) ==
    ~aborted[e] /\ result[e] = "healthy" =>
        /\ pc[e] # "last_stop"
        /\ pc[e] \in {"stop", "enter2", "round2", "destroy", "closed"} =>
              \A f \in Ends : f[2] = e[2] => ~own[f] /\ pc[f] \notin {"open", "sync", "enter1", "left"}
        /\ pc[e] \in {"destroy", "closed"} => \A f \in Ends : f[2] = e[2] => thread[f] # "running"

\* Without a fault or a missed round every close is healthy and in its place.
Calm(e) ==
    ~disturbed =>
        /\ ~unusable[e[1]] /\ ~aborted[e] /\ ~own[e] /\ result[e] = "healthy" /\ kernel[e] # "expired"
        /\ thread[e] # "broken" /\ pc[e] \notin {"left", "last_stop"}
        /\ thread[e] # "running" => pc[e] \in {"enter2", "round2", "destroy", "closed"}

\* Every rank has issued its k-th collective.
Reached(k) == \A q \in Ranks : Len(calls[q]) >= k

\* Unless it was interrupted, only the last collective of a rank may be pending, and then
\* the rank waits in it or has marked the group.
Paired(r) ==
    (\A e \in Ends : e[1] = r => result[e] # "interrupted") =>
        /\ \A k \in 1..(Len(calls[r]) - 1) : Reached(k)
        /\ \/ Reached(Len(calls[r])) \/ unusable[r]
           \/ \E e \in Ends : e[1] = r /\ pc[e] \in {"round1", "round2"}

Inv ==
    /\ TypeOK
    /\ Sequential
    /\ \A e \in Ends : Settled(e) /\ InRound(e) /\ Agreed(e) /\ Calm(e)
    /\ \A r \in Ranks : Truthful(r) /\ Paired(r)

-----------------------------------------------------------------------------
\* An end is a rank and an object.
LEMMA EndPairs ==
    /\ \A e \in Ends : e[1] \in Ranks /\ e[2] \in Objects /\ e = <<e[1], e[2]>>
    /\ \A r \in Ranks, o \in Objects : <<r, o>> \in Ends /\ <<r, o>>[1] = r /\ <<r, o>>[2] = o
    /\ \A e, f \in Ends : e[1] = f[1] /\ e[2] = f[2] => e = f
BY DEF Ends

\* The bound on faults is kept.
LEMMA FaultBound == TypeOK /\ Fault => faults' \in 0..MaxFaults /\ disturbed'
<1> SUFFICES ASSUME faults \in 0..MaxFaults, faults < MaxFaults, faults' = faults + 1 PROVE faults' \in 0..MaxFaults
  BY DEF TypeOK, Fault
<1> QED
  BY TeardownAssumption

LEMMA InitInv == Init => Inv
<1> SUFFICES ASSUME Init PROVE Inv
  OBVIOUS
<1>1. TypeOK
  <2>1. 0 \in 0..MaxFaults
    BY TeardownAssumption
  <2>2. <<>> \in Seq(Notes)
    OBVIOUS
  <2>3. calls \in [Ranks -> Seq(Notes)]
    BY <2>2 DEF Init
  <2> QED
    BY <2>1, <2>3, Zenon DEF Init, TypeOK, Labels
<1>2. Sequential
  BY DEF Init, Sequential
<1>3. ASSUME NEW e \in Ends PROVE Settled(e) /\ InRound(e) /\ Agreed(e) /\ Calm(e)
  BY EndPairs DEF Init, Settled, InRound, Agreed, Calm
<1>4. ASSUME NEW r \in Ranks PROVE Truthful(r)
  BY DEF Init, Truthful
<1>5. ASSUME NEW r \in Ranks PROVE Paired(r)
  <2>1. \A q \in Ranks : Len(calls[q]) = 0
    BY DEF Init
  <2> QED
    BY <2>1 DEF Paired, Reached
<1> QED
  BY <1>1, <1>2, <1>3, <1>4, <1>5 DEF Inv

\* Type correctness, by actions.
LEMMA TypeStep == TypeOK /\ [Next]_vars => TypeOK'
<1> SUFFICES ASSUME TypeOK, [Next]_vars PROVE TypeOK'
  OBVIOUS
<1>0. Fault => faults' \in 0..MaxFaults /\ disturbed'
  BY FaultBound
<1> USE <1>0, EndPairs DEF TypeOK, Labels
<1>1. ASSUME NEW e \in Ends, PostWrites(e) PROVE TypeOK'
  BY <1>1 DEF PostWrites, Verdict
<1>1a. ASSUME NEW e \in Ends, KernelDone(e) PROVE TypeOK'
  BY <1>1a DEF KernelDone, Verdict
<1>2. ASSUME NEW e \in Ends, KernelExpires(e) PROVE TypeOK'
  BY <1>2 DEF KernelExpires, NoFault, Verdict
<1>3. ASSUME NEW e \in Ends, ThreadBreaks(e) PROVE TypeOK'
  BY <1>3 DEF ThreadBreaks, Work, Verdict
<1>4. ASSUME NEW e \in Ends, Close(e) PROVE TypeOK'
  BY <1>4 DEF Close, Goto, Work, Verdict
<1>5. ASSUME NEW e \in Ends, Abort(e) PROVE TypeOK'
  BY <1>5 DEF Abort, Goto, Work, Verdict
<1>6. ASSUME NEW e \in Ends, Synced(e) PROVE TypeOK'
  <2>1. own' \in [Ends -> BOOLEAN]
    BY <1>6 DEF Synced
  <2>0. result' = [result EXCEPT ![e] = "failed"] \/ result' = result
    BY <1>6, Zenon DEF Synced, Fails
  <2>2. pc' \in [Ends -> Labels] /\ result' \in [Ends -> {"healthy", "failed", "interrupted"}]
    <3>1. pc' = [pc EXCEPT ![e] = "last_stop"] \/ pc' = [pc EXCEPT ![e] = "enter1"]
      BY <1>6, Zenon DEF Synced, Goto
    <3>2. CASE pc' = [pc EXCEPT ![e] = "last_stop"]
      BY <2>0, <3>2
    <3>3. CASE pc' = [pc EXCEPT ![e] = "enter1"]
      BY <2>0, <3>3
    <3> QED
      BY <3>1, <3>2, <3>3
  <2> QED
    BY <1>6, <2>1, <2>2 DEF Synced, Work
<1>7. ASSUME NEW e \in Ends, SyncFails(e) PROVE TypeOK'
  BY <1>7 DEF SyncFails, Goto, Fails, Work
<1>8. ASSUME NEW e \in Ends, Enter(e) PROVE TypeOK'
  <2>1. calls' \in [Ranks -> Seq(Notes)]
    <3>1. (own[e] /\ pc[e] = "enter1") \in BOOLEAN /\ Round(e) \in {1, 2}
      BY DEF Round
    <3>2. [object |-> e[2], phase |-> Round(e), failure |-> own[e] /\ pc[e] = "enter1"] \in Notes
      BY <3>1 DEF Notes
    <3> QED
      BY <1>8, <3>2 DEF Enter
  <2> QED
    BY <1>8, <2>1 DEF Enter, Goto, Work, Verdict
<1>9. ASSUME NEW e \in Ends, SkipRounds(e) PROVE TypeOK'
  BY <1>9 DEF SkipRounds, Goto, Fails, Work
<1>9a. ASSUME NEW e \in Ends, RoundCompletes(e) PROVE TypeOK'
  <2>0. result' = [result EXCEPT ![e] = "failed"] \/ result' = result
    BY <1>9a, Zenon DEF RoundCompletes, Fails
  <2>1. pc' \in [Ends -> Labels] /\ result' \in [Ends -> {"healthy", "failed", "interrupted"}]
    BY <1>9a, <2>0 DEF RoundCompletes, Goto
  <2> QED
    BY <1>9a, <2>1 DEF RoundCompletes, Work
<1>10. ASSUME NEW e \in Ends, RoundFails(e) PROVE TypeOK'
  BY <1>10 DEF RoundFails, MarkUnusable, Goto, Fails, Work
<1>11. ASSUME NEW e \in Ends, RoundLost(e) PROVE TypeOK'
  BY <1>11 DEF RoundLost, MarkUnusable, Goto, Fails, Work
<1>12. ASSUME NEW e \in Ends, Stop(e) PROVE TypeOK'
  BY <1>12 DEF Stop, Goto, Work, Verdict
<1>13. ASSUME NEW e \in Ends, StopRaises(e) PROVE TypeOK'
  BY <1>13 DEF StopRaises, Goto, Fails, Work
<1>14. ASSUME NEW e \in Ends, Destroy(e) PROVE TypeOK'
  BY <1>14 DEF Destroy, Goto, Work, Verdict
<1>15. ASSUME NEW e \in Ends, DestroyFails(e) PROVE TypeOK'
  BY <1>15 DEF DestroyFails, Goto, Fails, Work
<1>16. ASSUME NEW e \in Ends, Interrupt(e) PROVE TypeOK'
  BY <1>16 DEF Interrupt, Goto, Work
<1>16a. ASSUME NEW e \in Ends, InterruptSync(e) PROVE TypeOK'
  BY <1>16a DEF InterruptSync, Goto, Work, Verdict
<1>16b. ASSUME NEW e \in Ends, Collect(e) PROVE TypeOK'
  BY <1>16b DEF Collect, Work, Verdict
<1>17. ASSUME NEW r \in Ranks, Die(r) PROVE TypeOK'
  BY <1>17 DEF Die, Work, Verdict
<1>18. CASE UNCHANGED vars
  BY <1>18 DEF vars, Work, Verdict
<1> QED
  BY <1>1, <1>1a, <1>2, <1>3, <1>4, <1>5, <1>6, <1>7, <1>8, <1>9, <1>9a, <1>10, <1>11, <1>12, <1>13, <1>14, <1>15, <1>16, <1>16a, <1>16b,
     <1>17, <1>18 DEF Next, Device, CloseStep

-----------------------------------------------------------------------------
(* The parts of the invariant, each kept by every action.                  *)

\* The collective that a round issues is its rank's last, and the others stay as they were.
Issued(e) ==
    LET old == calls[e[1]]
        new == calls'[e[1]]
    IN  /\ Len(old) \in Nat /\ Len(new) = Len(old) + 1 /\ new # <<>>
        /\ DOMAIN new = 1..Len(new) /\ DOMAIN old = 1..Len(old)
        /\ \A k \in 1..Len(old) : new[k] = old[k]
        /\ new[Len(new)].object = e[2] /\ new[Len(new)].phase = Round(e)
        /\ pc[e] = "enter1" => new[Len(new)].failure = own[e]
        /\ pc[e] = "enter2" => ~new[Len(new)].failure
        /\ \A q \in Ranks : q # e[1] => calls'[q] = calls[q]

LEMMA EnterNote == ASSUME TypeOK, NEW e \in Ends, Enter(e) PROVE Issued(e)
<1> DEFINE note == [object |-> e[2], phase |-> Round(e), failure |-> own[e] /\ pc[e] = "enter1"]
<1>1. e[1] \in Ranks /\ calls[e[1]] \in Seq(Notes)
  BY EndPairs DEF TypeOK
<1>2. calls' = [calls EXCEPT ![e[1]] = Append(calls[e[1]], note)]
  BY DEF Enter
<1>3. calls'[e[1]] = Append(calls[e[1]], note) /\ \A q \in Ranks : q # e[1] => calls'[q] = calls[q]
  BY <1>1, <1>2 DEF TypeOK
<1>4. /\ note.object = e[2] /\ note.phase = Round(e) /\ note \in Notes
      /\ (pc[e] = "enter1" => note.failure = own[e]) /\ (pc[e] = "enter2" => ~note.failure)
  <2>1. (own[e] /\ pc[e] = "enter1") \in BOOLEAN /\ Round(e) \in {1, 2}
    BY DEF Round
  <2>2. pc[e] = "enter1" => note.failure = own[e]
    BY DEF TypeOK
  <2>3. pc[e] = "enter2" => ~note.failure
    OBVIOUS
  <2> QED
    BY <2>1, <2>2, <2>3, EndPairs DEF Notes
<1> HIDE DEF note
<1>5. /\ Len(calls'[e[1]]) = Len(calls[e[1]]) + 1 /\ Len(calls[e[1]]) \in Nat
      /\ DOMAIN calls'[e[1]] = 1..Len(calls'[e[1]]) /\ DOMAIN calls[e[1]] = 1..Len(calls[e[1]])
      /\ calls'[e[1]] # <<>> /\ calls'[e[1]][Len(calls'[e[1]])] = note
      /\ \A k \in 1..Len(calls[e[1]]) : calls'[e[1]][k] = calls[e[1]][k]
  BY <1>1, <1>3, <1>4
<1> QED
  BY <1>3, <1>4, <1>5 DEF Issued

\* A round that completes has one note of every rank, on the same close.
LEMMA CompletedRound ==
    ASSUME TypeOK, NEW e \in Ends, InRound(e), \A r \in Ranks : Truthful(r), RoundCompletes(e),
           NEW f \in Ends, f[2] = e[2]
    PROVE  LET note == calls[f[1]][Len(calls[e[1]])]
           IN  /\ note \in NotesOf(e[1]) /\ Says(note, f)
               /\ note.phase = IF pc[e] = "round1" THEN 1 ELSE 2
<1> DEFINE L == Len(calls[e[1]])
<1>1. e[1] \in Ranks /\ f[1] \in Ranks /\ calls[e[1]] \in Seq(Notes) /\ calls[f[1]] \in Seq(Notes)
  BY EndPairs DEF TypeOK
<1>2. pc[e] \in {"round1", "round2"} /\ Len(calls[f[1]]) >= L
  BY <1>1 DEF RoundCompletes, Arrived
<1>3. L \in DOMAIN calls[f[1]]
  <2>1. calls[e[1]] # <<>>
    BY <1>2 DEF InRound
  <2> QED
    BY <1>1, <1>2, <2>1
<1>4. calls[f[1]][L] \in NotesOf(e[1])
  BY <1>1 DEF NotesOf
<1>5. SameClose(calls[e[1]][L], calls[f[1]][L])
  BY <1>4 DEF RoundCompletes, Matched
<1>6. calls[f[1]][L].object = f[2] /\ calls[f[1]][L].phase = IF pc[e] = "round1" THEN 1 ELSE 2
  BY <1>2, <1>5 DEF InRound, SameClose
<1>7. Says(calls[f[1]][L], f)
  BY <1>1, <1>3, <1>6 DEF Truthful
<1> QED
  BY <1>4, <1>6, <1>7

\* A step that issues no collective of a rank keeps its notes true if no close of the rank
\* goes back.
LEMMA TruthfulKept ==
    ASSUME NEW q \in Ranks, Truthful(q), calls'[q] = calls[q],
           \A e \in Ends : e[1] = q =>
               /\ pc[e] \notin {"open", "sync", "enter1", "left"} =>
                     pc'[e] \notin {"open", "sync", "enter1", "left"} /\ own'[e] = own[e]
               /\ thread[e] # "running" => thread'[e] # "running"
    PROVE  Truthful(q)'
<1> SUFFICES ASSUME NEW k \in DOMAIN calls[q], NEW e \in Ends, e[1] = q, e[2] = calls[q][k].object
             PROVE  Says(calls[q][k], e)'
  BY DEF Truthful, Says
<1>1. Says(calls[q][k], e)
  BY DEF Truthful
<1> QED
  BY <1>1 DEF Says

\* A step that issues no collective keeps the pairing if the rank leaves a round only when
\* every rank has reached it or the group is marked.
LEMMA PairedKept ==
    ASSUME NEW q \in Ranks, Paired(q), calls' = calls, unusable[q] => unusable'[q],
           \A e \in Ends : e[1] = q =>
               /\ result[e] = "interrupted" => result'[e] = "interrupted"
               /\ pc[e] \in {"round1", "round2"} =>
                     \/ pc'[e] \in {"round1", "round2"} \/ result'[e] = "interrupted"
                     \/ unusable'[q] \/ Reached(Len(calls[q]))
    PROVE  Paired(q)'
<1>1. CASE \E e \in Ends : e[1] = q /\ result'[e] = "interrupted"
  BY <1>1 DEF Paired
<1>2. CASE \A e \in Ends : e[1] = q => result'[e] # "interrupted"
  <2>1. \A e \in Ends : e[1] = q => result[e] # "interrupted"
    BY <1>2
  <2>2. /\ \A k \in 1..(Len(calls[q]) - 1) : Reached(k)
        /\ \/ Reached(Len(calls[q])) \/ unusable[q]
           \/ \E e \in Ends : e[1] = q /\ pc[e] \in {"round1", "round2"}
    BY <2>1 DEF Paired
  <2>3. \/ Reached(Len(calls[q])) \/ unusable'[q]
        \/ \E e \in Ends : e[1] = q /\ pc'[e] \in {"round1", "round2"}
    BY <1>2, <2>2
  <2> QED
    BY <2>2, <2>3 DEF Paired, Reached
<1> QED
  BY <1>1, <1>2

\* What a close knows of its own work stays true, by actions.
LEMMA SettledStep ==
    ASSUME Inv, [Next]_vars, NEW x \in Ends
    PROVE  Settled(x)'
<1>0. TypeOK /\ Settled(x)
  BY DEF Inv
<1> USE <1>0, EndPairs DEF TypeOK, Settled
<1>1. ASSUME NEW e \in Ends, PostWrites(e) PROVE Settled(x)'
  BY <1>1 DEF PostWrites, Verdict
<1>2. ASSUME NEW e \in Ends, KernelDone(e) PROVE Settled(x)'
  BY <1>2 DEF KernelDone, Verdict
<1>3. ASSUME NEW e \in Ends, KernelExpires(e) PROVE Settled(x)'
  BY <1>3 DEF KernelExpires, NoFault, Fault, Verdict
<1>4. ASSUME NEW e \in Ends, ThreadBreaks(e) PROVE Settled(x)'
  BY <1>4 DEF ThreadBreaks, Fault, Work, Verdict
<1>5. ASSUME NEW e \in Ends, Close(e) PROVE Settled(x)'
  BY <1>5 DEF Close, Goto, Work, Verdict
<1>6. ASSUME NEW e \in Ends, Abort(e) PROVE Settled(x)'
  BY <1>6 DEF Abort, Goto, Fault, Work, Verdict
<1>7. ASSUME NEW e \in Ends, Synced(e) PROVE Settled(x)'
  <2>1. CASE x # e
    <3>1. own'[x] = own[x] /\ result'[x] = result[x] /\ pc'[x] = pc[x]
      BY <1>7, <2>1 DEF Synced, Goto, Fails
    <3> QED
      BY <1>7, <2>1, <3>1 DEF Synced, Work
  <2>2. CASE x = e
    <3>1. pc'[e] \in {"last_stop", "enter1"} /\ (aborted[e] => pc'[e] = "last_stop")
      BY <1>7 DEF Synced, Goto
    <3>2. ~own'[e] => kernel[e] = "done"
      BY <1>7 DEF Synced
    <3>3. CASE own'[e]
      <4>1. result'[e] = "failed"
        BY <1>7, <3>3 DEF Synced, Fails
      <4> QED
        BY <1>7, <2>2, <3>1, <3>3, <4>1 DEF Synced, Work
    <3>4. CASE ~own'[e]
      <4>1. result'[e] = result[e] /\ result[e] # "interrupted"
        BY <1>7, <2>2, <3>4 DEF Synced
      <4> QED
        BY <1>7, <2>2, <3>1, <3>2, <3>4, <4>1 DEF Synced, Work
    <3> QED
      BY <3>3, <3>4
  <2> QED
    BY <2>1, <2>2
<1>8. ASSUME NEW e \in Ends, SyncFails(e) PROVE Settled(x)'
  BY <1>8 DEF SyncFails, Goto, Fails, Fault, Work
<1>9. ASSUME NEW e \in Ends, Enter(e) PROVE Settled(x)'
  BY <1>9 DEF Enter, Goto, Round, Work, Verdict
<1>10. ASSUME NEW e \in Ends, SkipRounds(e) PROVE Settled(x)'
  BY <1>10 DEF SkipRounds, Goto, Fails, Work
<1>11. ASSUME NEW e \in Ends, RoundCompletes(e) PROVE Settled(x)'
  BY <1>11 DEF RoundCompletes, Goto, Fails, Work
<1>12. ASSUME NEW e \in Ends, RoundFails(e) PROVE Settled(x)'
  BY <1>12 DEF RoundFails, MarkUnusable, Goto, Fails, Work
<1>13. ASSUME NEW e \in Ends, RoundLost(e) PROVE Settled(x)'
  BY <1>13 DEF RoundLost, MarkUnusable, Goto, Fails, Fault, Work
<1>14. ASSUME NEW e \in Ends, Stop(e) PROVE Settled(x)'
  BY <1>14 DEF Stop, Goto, Work, Verdict
<1>15. ASSUME NEW e \in Ends, StopRaises(e) PROVE Settled(x)'
  BY <1>15 DEF StopRaises, Goto, Fails, Fault, Work
<1>16. ASSUME NEW e \in Ends, Destroy(e) PROVE Settled(x)'
  BY <1>16 DEF Destroy, Goto, Released, Work, Verdict
<1>17. ASSUME NEW e \in Ends, DestroyFails(e) PROVE Settled(x)'
  BY <1>17 DEF DestroyFails, Goto, Fails, Fault, Work
<1>18. ASSUME NEW e \in Ends, Interrupt(e) PROVE Settled(x)'
  BY <1>18 DEF Interrupt, Goto, Fault, Work
<1>19. ASSUME NEW e \in Ends, InterruptSync(e) PROVE Settled(x)'
  BY <1>19 DEF InterruptSync, Goto, Fault, Work, Verdict
<1>19a. ASSUME NEW e \in Ends, Collect(e) PROVE Settled(x)'
  BY <1>19a DEF Collect, Work, Verdict
<1>20. ASSUME NEW r \in Ranks, Die(r) PROVE Settled(x)'
  BY <1>20 DEF Die, Fault, Work, Verdict
<1>21. CASE UNCHANGED vars
  BY <1>21 DEF vars, Work, Verdict
<1> QED
  BY <1>1, <1>2, <1>3, <1>4, <1>5, <1>6, <1>7, <1>8, <1>9, <1>10, <1>11, <1>12, <1>13, <1>14, <1>15, <1>16,
     <1>17, <1>18, <1>19, <1>19a, <1>20, <1>21 DEF Next, Device, CloseStep

\* One close at a time, by actions.
LEMMA SequentialStep ==
    ASSUME Inv, [Next]_vars, NEW x \in Ends, NEW y \in Ends, x # y, x[1] = y[1], ~aborted'[x], ~aborted'[y]
    PROVE  (pc[x] \in {"open", "closed", "left"} \/ pc[y] \in {"open", "closed", "left"})'
<1>0. TypeOK /\ Sequential
  BY DEF Inv
<1> USE <1>0, EndPairs DEF TypeOK, Sequential
<1>1. ASSUME NEW e \in Ends, PostWrites(e) PROVE (pc[x] \in {"open", "closed", "left"} \/ pc[y] \in {"open", "closed", "left"})'
  BY <1>1 DEF PostWrites, Verdict
<1>2. ASSUME NEW e \in Ends, KernelDone(e) PROVE (pc[x] \in {"open", "closed", "left"} \/ pc[y] \in {"open", "closed", "left"})'
  BY <1>2 DEF KernelDone, Verdict
<1>3. ASSUME NEW e \in Ends, KernelExpires(e) PROVE (pc[x] \in {"open", "closed", "left"} \/ pc[y] \in {"open", "closed", "left"})'
  BY <1>3 DEF KernelExpires, NoFault, Fault, Verdict
<1>4. ASSUME NEW e \in Ends, ThreadBreaks(e) PROVE (pc[x] \in {"open", "closed", "left"} \/ pc[y] \in {"open", "closed", "left"})'
  BY <1>4 DEF ThreadBreaks, Fault, Work, Verdict
<1>5. ASSUME NEW e \in Ends, Close(e) PROVE (pc[x] \in {"open", "closed", "left"} \/ pc[y] \in {"open", "closed", "left"})'
  BY <1>5 DEF Close, Goto, Work, Verdict
<1>6. ASSUME NEW e \in Ends, Abort(e) PROVE (pc[x] \in {"open", "closed", "left"} \/ pc[y] \in {"open", "closed", "left"})'
  BY <1>6 DEF Abort, Goto, Fault, Work, Verdict
<1>7. ASSUME NEW e \in Ends, Synced(e) PROVE (pc[x] \in {"open", "closed", "left"} \/ pc[y] \in {"open", "closed", "left"})'
  BY <1>7 DEF Synced, Goto, Fails, Work
<1>8. ASSUME NEW e \in Ends, SyncFails(e) PROVE (pc[x] \in {"open", "closed", "left"} \/ pc[y] \in {"open", "closed", "left"})'
  BY <1>8 DEF SyncFails, Goto, Fails, Fault, Work
<1>9. ASSUME NEW e \in Ends, Enter(e) PROVE (pc[x] \in {"open", "closed", "left"} \/ pc[y] \in {"open", "closed", "left"})'
  BY <1>9 DEF Enter, Goto, Round, Work, Verdict
<1>10. ASSUME NEW e \in Ends, SkipRounds(e) PROVE (pc[x] \in {"open", "closed", "left"} \/ pc[y] \in {"open", "closed", "left"})'
  BY <1>10 DEF SkipRounds, Goto, Fails, Work
<1>11. ASSUME NEW e \in Ends, RoundCompletes(e) PROVE (pc[x] \in {"open", "closed", "left"} \/ pc[y] \in {"open", "closed", "left"})'
  BY <1>11 DEF RoundCompletes, Goto, Fails, Work
<1>12. ASSUME NEW e \in Ends, RoundFails(e) PROVE (pc[x] \in {"open", "closed", "left"} \/ pc[y] \in {"open", "closed", "left"})'
  BY <1>12 DEF RoundFails, MarkUnusable, Goto, Fails, Work
<1>13. ASSUME NEW e \in Ends, RoundLost(e) PROVE (pc[x] \in {"open", "closed", "left"} \/ pc[y] \in {"open", "closed", "left"})'
  BY <1>13 DEF RoundLost, MarkUnusable, Goto, Fails, Fault, Work
<1>14. ASSUME NEW e \in Ends, Stop(e) PROVE (pc[x] \in {"open", "closed", "left"} \/ pc[y] \in {"open", "closed", "left"})'
  BY <1>14 DEF Stop, Goto, Work, Verdict
<1>15. ASSUME NEW e \in Ends, StopRaises(e) PROVE (pc[x] \in {"open", "closed", "left"} \/ pc[y] \in {"open", "closed", "left"})'
  BY <1>15 DEF StopRaises, Goto, Fails, Fault, Work
<1>16. ASSUME NEW e \in Ends, Destroy(e) PROVE (pc[x] \in {"open", "closed", "left"} \/ pc[y] \in {"open", "closed", "left"})'
  BY <1>16 DEF Destroy, Goto, Released, Work, Verdict
<1>17. ASSUME NEW e \in Ends, DestroyFails(e) PROVE (pc[x] \in {"open", "closed", "left"} \/ pc[y] \in {"open", "closed", "left"})'
  BY <1>17 DEF DestroyFails, Goto, Fails, Fault, Work
<1>18. ASSUME NEW e \in Ends, Interrupt(e) PROVE (pc[x] \in {"open", "closed", "left"} \/ pc[y] \in {"open", "closed", "left"})'
  BY <1>18 DEF Interrupt, Goto, Fault, Work
<1>19. ASSUME NEW e \in Ends, InterruptSync(e) PROVE (pc[x] \in {"open", "closed", "left"} \/ pc[y] \in {"open", "closed", "left"})'
  BY <1>19 DEF InterruptSync, Goto, Fault, Work, Verdict
<1>19a. ASSUME NEW e \in Ends, Collect(e) PROVE (pc[x] \in {"open", "closed", "left"} \/ pc[y] \in {"open", "closed", "left"})'
  BY <1>19a DEF Collect, Work, Verdict
<1>20. ASSUME NEW r \in Ranks, Die(r) PROVE (pc[x] \in {"open", "closed", "left"} \/ pc[y] \in {"open", "closed", "left"})'
  BY <1>20 DEF Die, Fault, Work, Verdict
<1>21. CASE UNCHANGED vars
  BY <1>21 DEF vars, Work, Verdict
<1> QED
  BY <1>1, <1>2, <1>3, <1>4, <1>5, <1>6, <1>7, <1>8, <1>9, <1>10, <1>11, <1>12, <1>13, <1>14, <1>15, <1>16,
     <1>17, <1>18, <1>19, <1>19a, <1>20, <1>21 DEF Next, Device, CloseStep

\* The last note of a rank in a round, by actions.
LEMMA InRoundStep ==
    ASSUME Inv, [Next]_vars, NEW x \in Ends
    PROVE  InRound(x)'
<1>0. TypeOK /\ Sequential /\ InRound(x) /\ (\A f \in Ends : Settled(f))
  BY DEF Inv
<1> USE <1>0, EndPairs DEF TypeOK, InRound
<1>1. ASSUME NEW e \in Ends, PostWrites(e) PROVE InRound(x)'
  BY <1>1 DEF PostWrites, Verdict
<1>2. ASSUME NEW e \in Ends, KernelDone(e) PROVE InRound(x)'
  BY <1>2 DEF KernelDone, Verdict
<1>3. ASSUME NEW e \in Ends, KernelExpires(e) PROVE InRound(x)'
  BY <1>3 DEF KernelExpires, NoFault, Fault, Verdict
<1>4. ASSUME NEW e \in Ends, ThreadBreaks(e) PROVE InRound(x)'
  BY <1>4 DEF ThreadBreaks, Fault, Work, Verdict
<1>5. ASSUME NEW e \in Ends, Close(e) PROVE InRound(x)'
  BY <1>5 DEF Close, Goto, Work, Verdict
<1>6. ASSUME NEW e \in Ends, Abort(e) PROVE InRound(x)'
  BY <1>6 DEF Abort, Goto, Fault, Work, Verdict
<1>7. ASSUME NEW e \in Ends, Synced(e) PROVE InRound(x)'
  BY <1>7 DEF Synced, Goto, Fails, Work
<1>8. ASSUME NEW e \in Ends, SyncFails(e) PROVE InRound(x)'
  BY <1>8 DEF SyncFails, Goto, Fails, Fault, Work
<1>9. ASSUME NEW e \in Ends, Enter(e) PROVE InRound(x)'
  <2>1. ASSUME x # e, x[1] = e[1] PROVE pc[x] \in {"open", "sync", "last_stop", "destroy", "closed", "left"}
    BY <1>9, <2>1 DEF Enter, Sequential, Settled
  <2>2. CASE x = e
    <3>2. unusable' = unusable /\ pc'[e] = IF pc[e] = "enter1" THEN "round1" ELSE "round2"
      BY <1>9 DEF Enter, Goto
    <3>3. ~unusable[e[1]]
      BY <1>9, <2>2 DEF Enter
    <3>4. Issued(e)
      BY <1>9, EnterNote
    <3> QED
      BY <1>9, <2>2, <3>2, <3>3, <3>4 DEF Enter, Round, Issued
  <2>3. CASE x[1] # e[1]
    BY <1>9, <2>3 DEF Enter, Goto
  <2>4. CASE x # e /\ x[1] = e[1]
    BY <1>9, <2>1, <2>4 DEF Enter, Goto
  <2> QED
    BY <2>2, <2>3, <2>4
<1>10. ASSUME NEW e \in Ends, SkipRounds(e) PROVE InRound(x)'
  BY <1>10 DEF SkipRounds, Goto, Fails, Work
<1>11. ASSUME NEW e \in Ends, RoundCompletes(e) PROVE InRound(x)'
  BY <1>11 DEF RoundCompletes, Goto, Fails, Work
<1>12. ASSUME NEW e \in Ends, RoundFails(e) PROVE InRound(x)'
  <2>1. ASSUME x # e, x[1] = e[1] PROVE pc[x] \in {"open", "sync", "last_stop", "destroy", "closed", "left"}
    BY <1>12, <2>1 DEF RoundFails, Sequential, Settled
  <2> QED
    BY <1>12, <2>1 DEF RoundFails, MarkUnusable, Goto
<1>13. ASSUME NEW e \in Ends, RoundLost(e) PROVE InRound(x)'
  <2>1. ASSUME x # e, x[1] = e[1] PROVE pc[x] \in {"open", "sync", "last_stop", "destroy", "closed", "left"}
    BY <1>13, <2>1 DEF RoundLost, Sequential, Settled
  <2> QED
    BY <1>13, <2>1 DEF RoundLost, MarkUnusable, Goto
<1>14. ASSUME NEW e \in Ends, Stop(e) PROVE InRound(x)'
  BY <1>14 DEF Stop, Goto, Work, Verdict
<1>15. ASSUME NEW e \in Ends, StopRaises(e) PROVE InRound(x)'
  BY <1>15 DEF StopRaises, Goto, Fails, Fault, Work
<1>16. ASSUME NEW e \in Ends, Destroy(e) PROVE InRound(x)'
  BY <1>16 DEF Destroy, Goto, Released, Work, Verdict
<1>17. ASSUME NEW e \in Ends, DestroyFails(e) PROVE InRound(x)'
  BY <1>17 DEF DestroyFails, Goto, Fails, Fault, Work
<1>18. ASSUME NEW e \in Ends, Interrupt(e) PROVE InRound(x)'
  BY <1>18 DEF Interrupt, Goto, Fault, Work
<1>19. ASSUME NEW e \in Ends, InterruptSync(e) PROVE InRound(x)'
  BY <1>19 DEF InterruptSync, Goto, Fault, Work, Verdict
<1>19a. ASSUME NEW e \in Ends, Collect(e) PROVE InRound(x)'
  BY <1>19a DEF Collect, Work, Verdict
<1>20. ASSUME NEW r \in Ranks, Die(r) PROVE InRound(x)'
  BY <1>20 DEF Die, Fault, Work, Verdict
<1>21. CASE UNCHANGED vars
  BY <1>21 DEF vars, Work, Verdict
<1> QED
  BY <1>1, <1>2, <1>3, <1>4, <1>5, <1>6, <1>7, <1>8, <1>9, <1>10, <1>11, <1>12, <1>13, <1>14, <1>15, <1>16,
     <1>17, <1>18, <1>19, <1>19a, <1>20, <1>21 DEF Next, Device, CloseStep

\* The notes stay true, by actions.
LEMMA TruthfulStep ==
    ASSUME Inv, [Next]_vars, NEW q \in Ranks
    PROVE  Truthful(q)'
<1>0. TypeOK /\ Truthful(q) /\ (\A f \in Ends : Settled(f) /\ InRound(f))
  BY DEF Inv
<1> USE <1>0, EndPairs DEF TypeOK
<1>1. ASSUME NEW e \in Ends, PostWrites(e) PROVE Truthful(q)'
  BY <1>1, TruthfulKept DEF PostWrites, Verdict
<1>2. ASSUME NEW e \in Ends, KernelDone(e) PROVE Truthful(q)'
  BY <1>2, TruthfulKept DEF KernelDone, Verdict
<1>3. ASSUME NEW e \in Ends, KernelExpires(e) PROVE Truthful(q)'
  BY <1>3, TruthfulKept DEF KernelExpires, NoFault, Fault, Verdict
<1>4. ASSUME NEW e \in Ends, ThreadBreaks(e) PROVE Truthful(q)'
  BY <1>4, TruthfulKept DEF ThreadBreaks, Fault, Work, Verdict
<1>5. ASSUME NEW e \in Ends, Close(e) PROVE Truthful(q)'
  BY <1>5, TruthfulKept DEF Close, Goto, Work, Verdict
<1>6. ASSUME NEW e \in Ends, Abort(e) PROVE Truthful(q)'
  BY <1>6, TruthfulKept DEF Abort, Goto, Fault, Work, Verdict
<1>7. ASSUME NEW e \in Ends, Synced(e) PROVE Truthful(q)'
  BY <1>7, TruthfulKept DEF Synced, Goto, Fails, Work
<1>8. ASSUME NEW e \in Ends, SyncFails(e) PROVE Truthful(q)'
  BY <1>8, TruthfulKept DEF SyncFails, Goto, Fails, Fault, Work
<1>9. ASSUME NEW e \in Ends, Enter(e) PROVE Truthful(q)'
  <2>0. /\ own' = own /\ thread' = thread /\ \A f \in Ends : f # e => pc'[f] = pc[f]
        /\ pc[e] \in {"enter1", "enter2"} /\ pc'[e] = IF pc[e] = "enter1" THEN "round1" ELSE "round2"
    BY <1>9 DEF Enter, Goto, Verdict
  <2>1. CASE q # e[1]
    <3>1. calls'[q] = calls[q]
      BY <1>9, <2>1 DEF Enter
    <3> QED
      BY <2>0, <2>1, <3>1, TruthfulKept
  <2>2. CASE q = e[1]
    <3> SUFFICES ASSUME NEW k \in DOMAIN calls'[q], NEW f \in Ends, f[1] = q, f[2] = calls'[q][k].object
                 PROVE  Says(calls[q][k], f)'
      BY DEF Truthful
    <3>0. Issued(e)
      BY <1>9, EnterNote
    <3>1. CASE k = Len(calls'[q])
      <4>1. f = e
        BY <1>9, <2>2, <3>1, <3>0 DEF Issued
      <4>2. CASE pc[e] = "enter1"
        BY <1>9, <2>0, <2>2, <3>1, <4>1, <4>2, <3>0 DEF Issued, Says, Round
      <4>3. CASE pc[e] = "enter2"
        BY <1>9, <2>0, <2>2, <3>1, <4>1, <4>3, <3>0 DEF Issued, Says, Round, Settled
      <4> QED
        BY <2>0, <4>2, <4>3
    <3>2. CASE k # Len(calls'[q])
      <4>1. k \in DOMAIN calls[q] /\ calls'[q][k] = calls[q][k]
        BY <1>9, <2>2, <3>2, <3>0 DEF Issued
      <4>2. Says(calls[q][k], f)
        BY <4>1 DEF Truthful
      <4> QED
        BY <2>0, <4>1, <4>2 DEF Says
    <3> QED
      BY <3>1, <3>2
  <2> QED
    BY <2>1, <2>2
<1>10. ASSUME NEW e \in Ends, SkipRounds(e) PROVE Truthful(q)'
  BY <1>10, TruthfulKept DEF SkipRounds, Goto, Fails, Work
<1>11. ASSUME NEW e \in Ends, RoundCompletes(e) PROVE Truthful(q)'
  BY <1>11, TruthfulKept DEF RoundCompletes, Goto, Fails, Work
<1>12. ASSUME NEW e \in Ends, RoundFails(e) PROVE Truthful(q)'
  BY <1>12, TruthfulKept DEF RoundFails, MarkUnusable, Goto, Fails, Work
<1>13. ASSUME NEW e \in Ends, RoundLost(e) PROVE Truthful(q)'
  BY <1>13, TruthfulKept DEF RoundLost, MarkUnusable, Goto, Fails, Fault, Work
<1>14. ASSUME NEW e \in Ends, Stop(e) PROVE Truthful(q)'
  BY <1>14, TruthfulKept DEF Stop, Goto, Work, Verdict
<1>15. ASSUME NEW e \in Ends, StopRaises(e) PROVE Truthful(q)'
  BY <1>15, TruthfulKept DEF StopRaises, Goto, Fails, Fault, Work
<1>16. ASSUME NEW e \in Ends, Destroy(e) PROVE Truthful(q)'
  BY <1>16, TruthfulKept DEF Destroy, Goto, Released, Work, Verdict
<1>17. ASSUME NEW e \in Ends, DestroyFails(e) PROVE Truthful(q)'
  <2>1. \A f \in Ends : thread[f] # "running" => thread'[f] # "running"
    <3>1. CASE thread' = thread
      BY <3>1
    <3>2. CASE thread' = [thread EXCEPT ![e] = IF thread[e] = "running" THEN "stopped" ELSE thread[e]]
      BY <3>2
    <3> QED
      BY <1>17, <3>1, <3>2 DEF DestroyFails
  <2> QED
    BY <1>17, <2>1, TruthfulKept DEF DestroyFails, Goto
<1>18. ASSUME NEW e \in Ends, Interrupt(e) PROVE Truthful(q)'
  BY <1>18, TruthfulKept DEF Interrupt, Goto, Fault, Work
<1>19. ASSUME NEW e \in Ends, InterruptSync(e) PROVE Truthful(q)'
  BY <1>19, TruthfulKept DEF InterruptSync, Goto, Fault, Work, Verdict
<1>19a. ASSUME NEW e \in Ends, Collect(e) PROVE Truthful(q)'
  BY <1>19a, TruthfulKept DEF Collect, Work, Verdict
<1>20. ASSUME NEW r \in Ranks, Die(r) PROVE Truthful(q)'
  BY <1>20, TruthfulKept DEF Die, Fault, Work, Verdict
<1>21. CASE UNCHANGED vars
  BY <1>21, TruthfulKept DEF vars, Work, Verdict
<1> QED
  BY <1>1, <1>2, <1>3, <1>4, <1>5, <1>6, <1>7, <1>8, <1>9, <1>10, <1>11, <1>12, <1>13, <1>14, <1>15, <1>16,
     <1>17, <1>18, <1>19, <1>19a, <1>20, <1>21 DEF Next, Device, CloseStep

\* What a healthy close knows of the others, by actions.
LEMMA AgreedStep ==
    ASSUME Inv, [Next]_vars, NEW x \in Ends
    PROVE  Agreed(x)'
<1>0. TypeOK /\ Agreed(x) /\ (\A f \in Ends : Settled(f) /\ InRound(f)) /\ (\A r \in Ranks : Truthful(r))
  BY DEF Inv
<1> USE <1>0, EndPairs DEF TypeOK, Agreed
<1>1. ASSUME NEW e \in Ends, PostWrites(e) PROVE Agreed(x)'
  BY <1>1 DEF PostWrites, Verdict
<1>2. ASSUME NEW e \in Ends, KernelDone(e) PROVE Agreed(x)'
  BY <1>2 DEF KernelDone, Verdict
<1>3. ASSUME NEW e \in Ends, KernelExpires(e) PROVE Agreed(x)'
  BY <1>3 DEF KernelExpires, NoFault, Fault, Verdict
<1>4. ASSUME NEW e \in Ends, ThreadBreaks(e) PROVE Agreed(x)'
  BY <1>4 DEF ThreadBreaks, Fault, Work, Verdict
<1>5. ASSUME NEW e \in Ends, Close(e) PROVE Agreed(x)'
  BY <1>5 DEF Close, Goto, Work, Verdict
<1>6. ASSUME NEW e \in Ends, Abort(e) PROVE Agreed(x)'
  BY <1>6 DEF Abort, Goto, Fault, Work, Verdict
<1>7. ASSUME NEW e \in Ends, Synced(e) PROVE Agreed(x)'
  BY <1>7 DEF Synced, Goto, Fails, Work
<1>8. ASSUME NEW e \in Ends, SyncFails(e) PROVE Agreed(x)'
  BY <1>8 DEF SyncFails, Goto, Fails, Fault, Work
<1>9. ASSUME NEW e \in Ends, Enter(e) PROVE Agreed(x)'
  BY <1>9 DEF Enter, Goto, Round, Work, Verdict
<1>10. ASSUME NEW e \in Ends, SkipRounds(e) PROVE Agreed(x)'
  BY <1>10 DEF SkipRounds, Goto, Fails, Work
<1>11. ASSUME NEW e \in Ends, RoundCompletes(e) PROVE Agreed(x)'
  <2>0. \A f \in Ends : f[2] = e[2] =>
           LET note == calls[f[1]][Len(calls[e[1]])]
           IN  /\ note \in NotesOf(e[1]) /\ Says(note, f)
               /\ note.phase = IF pc[e] = "round1" THEN 1 ELSE 2
    BY <1>11, CompletedRound
  <2>1. /\ own' = own /\ thread' = thread /\ aborted' = aborted
        /\ pc[e] \in {"round1", "round2"} /\ \A f \in Ends : f # e => pc'[f] = pc[f] /\ result'[f] = result[f]
        /\ pc'[e] = IF pc[e] = "round1" THEN "stop" ELSE "destroy"
    BY <1>11 DEF RoundCompletes, Goto, Fails
  <2>2. CASE x # e
    BY <2>1, <2>2
  <2>3. CASE x = e
    <3> SUFFICES ASSUME ~aborted[e], result'[e] = "healthy", NEW f \in Ends, f[2] = e[2]
                 PROVE  /\ ~own[f] /\ pc'[f] \notin {"open", "sync", "enter1", "left"}
                        /\ pc'[e] = "destroy" => thread[f] # "running"
      BY <2>1, <2>3
    <3>1. result[e] = "healthy" /\ \A note \in NotesOf(e[1]) : ~note.failure
      BY <1>11 DEF RoundCompletes, Fails
    <3>2. pc'[f] \notin {"open", "sync", "enter1", "left"}
      BY <2>0, <2>1 DEF Says
    <3>3. CASE pc[e] = "round1"
      BY <2>0, <2>1, <3>1, <3>2, <3>3 DEF Says
    <3>4. CASE pc[e] = "round2"
      BY <2>0, <2>1, <2>3, <3>1, <3>2, <3>4 DEF Says
    <3> QED
      BY <2>1, <3>3, <3>4
  <2> QED
    BY <2>2, <2>3
<1>12. ASSUME NEW e \in Ends, RoundFails(e) PROVE Agreed(x)'
  BY <1>12 DEF RoundFails, MarkUnusable, Goto, Fails, Work
<1>13. ASSUME NEW e \in Ends, RoundLost(e) PROVE Agreed(x)'
  BY <1>13 DEF RoundLost, MarkUnusable, Goto, Fails, Fault, Work
<1>14. ASSUME NEW e \in Ends, Stop(e) PROVE Agreed(x)'
  BY <1>14 DEF Stop, Goto, Work, Verdict
<1>15. ASSUME NEW e \in Ends, StopRaises(e) PROVE Agreed(x)'
  BY <1>15 DEF StopRaises, Goto, Fails, Fault, Work
<1>16. ASSUME NEW e \in Ends, Destroy(e) PROVE Agreed(x)'
  BY <1>16 DEF Destroy, Goto, Released, Work, Verdict
<1>17. ASSUME NEW e \in Ends, DestroyFails(e) PROVE Agreed(x)'
  BY <1>17 DEF DestroyFails, Goto, Fails, Fault, Work
<1>18. ASSUME NEW e \in Ends, Interrupt(e) PROVE Agreed(x)'
  BY <1>18 DEF Interrupt, Goto, Fault, Work
<1>19. ASSUME NEW e \in Ends, InterruptSync(e) PROVE Agreed(x)'
  BY <1>19 DEF InterruptSync, Goto, Fault, Work, Verdict
<1>19a. ASSUME NEW e \in Ends, Collect(e) PROVE Agreed(x)'
  BY <1>19a DEF Collect, Work, Verdict
<1>20. ASSUME NEW r \in Ranks, Die(r) PROVE Agreed(x)'
  BY <1>20 DEF Die, Fault, Work, Verdict
<1>21. CASE UNCHANGED vars
  BY <1>21 DEF vars, Work, Verdict
<1> QED
  BY <1>1, <1>2, <1>3, <1>4, <1>5, <1>6, <1>7, <1>8, <1>9, <1>10, <1>11, <1>12, <1>13, <1>14, <1>15, <1>16,
     <1>17, <1>18, <1>19, <1>19a, <1>20, <1>21 DEF Next, Device, CloseStep

\* A group without trouble stays calm, by actions.
LEMMA CalmStep ==
    ASSUME Inv, [Next]_vars, NEW x \in Ends
    PROVE  Calm(x)'
<1>0. TypeOK /\ (\A f \in Ends : Settled(f) /\ InRound(f) /\ Agreed(f) /\ Calm(f)) /\ (\A r \in Ranks : Truthful(r))
  BY DEF Inv
<1> USE <1>0, EndPairs DEF TypeOK, Calm
<1>1. ASSUME NEW e \in Ends, PostWrites(e) PROVE Calm(x)'
  BY <1>1 DEF PostWrites, Verdict
<1>2. ASSUME NEW e \in Ends, KernelDone(e) PROVE Calm(x)'
  BY <1>2 DEF KernelDone, Verdict
<1>3. ASSUME NEW e \in Ends, KernelExpires(e) PROVE Calm(x)'
  <2>1. CASE disturbed'
    BY <2>1
  <2>2. CASE ~disturbed'
    <3>1. NoFault /\ ~disturbed
      BY <1>3, <2>2 DEF KernelExpires, Fault, NoFault
    <3>2. PICK f \in Peers(e) : ~posted[f] /\ thread[f] # "running"
      BY <1>3, <2>2 DEF KernelExpires, Fault
    <3>3. f \in Ends /\ f[2] = e[2]
      BY <3>2 DEF Peers
    <3>4. pc[f] \in {"enter2", "round2", "destroy", "closed"} /\ ~aborted[f] /\ result[f] = "healthy"
      BY <3>1, <3>2, <3>3
    <3>5. ~own[e] /\ pc[e] \notin {"open", "sync", "enter1", "left"}
      BY <3>3, <3>4 DEF Agreed
    <3>6. kernel[e] = "done"
      BY <3>5 DEF Settled
    <3> QED
      BY <1>3, <3>6 DEF KernelExpires
  <2> QED
    BY <2>1, <2>2
<1>4. ASSUME NEW e \in Ends, ThreadBreaks(e) PROVE Calm(x)'
  BY <1>4 DEF ThreadBreaks, Fault, Work, Verdict
<1>5. ASSUME NEW e \in Ends, Close(e) PROVE Calm(x)'
  BY <1>5 DEF Close, Goto, Work, Verdict
<1>6. ASSUME NEW e \in Ends, Abort(e) PROVE Calm(x)'
  BY <1>6 DEF Abort, Goto, Fault, Work, Verdict
<1>7. ASSUME NEW e \in Ends, Synced(e) PROVE Calm(x)'
  BY <1>7 DEF Synced, Goto, Fails, Work
<1>8. ASSUME NEW e \in Ends, SyncFails(e) PROVE Calm(x)'
  BY <1>8 DEF SyncFails, Goto, Fails, Fault, Work
<1>9. ASSUME NEW e \in Ends, Enter(e) PROVE Calm(x)'
  BY <1>9 DEF Enter, Goto, Round, Work, Verdict
<1>10. ASSUME NEW e \in Ends, SkipRounds(e) PROVE Calm(x)'
  BY <1>10 DEF SkipRounds, Goto, Fails, Work
<1>11. ASSUME NEW e \in Ends, RoundCompletes(e) PROVE Calm(x)'
  <2>0. \A f \in Ends : f[2] = e[2] =>
           LET note == calls[f[1]][Len(calls[e[1]])]
           IN  /\ note \in NotesOf(e[1]) /\ Says(note, f)
               /\ note.phase = IF pc[e] = "round1" THEN 1 ELSE 2
    BY <1>11, CompletedRound
  <2>1. /\ own' = own /\ thread' = thread /\ aborted' = aborted
        /\ pc[e] \in {"round1", "round2"} /\ \A f \in Ends : f # e => pc'[f] = pc[f] /\ result'[f] = result[f]
        /\ pc'[e] = IF pc[e] = "round1" THEN "stop" ELSE "destroy"
    BY <1>11 DEF RoundCompletes, Goto, Fails
  <2>2. ASSUME ~disturbed, NEW q \in Ranks PROVE ~calls[q][Len(calls[e[1]])].failure
    <3>1. PICK f \in Ends : f = <<q, e[2]>>
      OBVIOUS
    <3>2. f[1] = q /\ f[2] = e[2] /\ ~own[f]
      BY <2>2, <3>1
    <3> QED
      BY <2>0, <2>1, <3>2 DEF Says
  <2>3. ~disturbed => \A note \in NotesOf(e[1]) : ~note.failure
    BY <2>2 DEF NotesOf
  <2>4. ~disturbed => result' = result
    BY <1>11, <2>3 DEF RoundCompletes
  <2>5. disturbed' = disturbed /\ unusable' = unusable /\ kernel' = kernel
    BY <1>11 DEF RoundCompletes, Work
  <2> QED
    BY <2>1, <2>4, <2>5
<1>12. ASSUME NEW e \in Ends, RoundFails(e) PROVE Calm(x)'
  BY <1>12 DEF RoundFails, MarkUnusable, Goto, Fails, Work
<1>13. ASSUME NEW e \in Ends, RoundLost(e) PROVE Calm(x)'
  BY <1>13 DEF RoundLost, MarkUnusable, Goto, Fails, Fault, Work
<1>14. ASSUME NEW e \in Ends, Stop(e) PROVE Calm(x)'
  BY <1>14 DEF Stop, Goto, Work, Verdict
<1>15. ASSUME NEW e \in Ends, StopRaises(e) PROVE Calm(x)'
  BY <1>15 DEF StopRaises, Goto, Fails, Fault, Work
<1>16. ASSUME NEW e \in Ends, Destroy(e) PROVE Calm(x)'
  BY <1>16 DEF Destroy, Goto, Released, Work, Verdict
<1>17. ASSUME NEW e \in Ends, DestroyFails(e) PROVE Calm(x)'
  BY <1>17 DEF DestroyFails, Goto, Fails, Fault, Work
<1>18. ASSUME NEW e \in Ends, Interrupt(e) PROVE Calm(x)'
  BY <1>18 DEF Interrupt, Goto, Fault, Work
<1>19. ASSUME NEW e \in Ends, InterruptSync(e) PROVE Calm(x)'
  BY <1>19 DEF InterruptSync, Goto, Fault, Work, Verdict
<1>19a. ASSUME NEW e \in Ends, Collect(e) PROVE Calm(x)'
  BY <1>19a DEF Collect, Work, Verdict
<1>20. ASSUME NEW r \in Ranks, Die(r) PROVE Calm(x)'
  BY <1>20 DEF Die, Fault, Work, Verdict
<1>21. CASE UNCHANGED vars
  BY <1>21 DEF vars, Work, Verdict
<1> QED
  BY <1>1, <1>2, <1>3, <1>4, <1>5, <1>6, <1>7, <1>8, <1>9, <1>10, <1>11, <1>12, <1>13, <1>14, <1>15, <1>16,
     <1>17, <1>18, <1>19, <1>19a, <1>20, <1>21 DEF Next, Device, CloseStep

\* Pending collectives, by actions.
LEMMA PairedStep ==
    ASSUME Inv, [Next]_vars, NEW q \in Ranks
    PROVE  Paired(q)'
<1>0. TypeOK /\ Sequential /\ Paired(q) /\ (\A f \in Ends : Settled(f) /\ InRound(f))
  BY DEF Inv
<1> USE <1>0, EndPairs DEF TypeOK, Settled
<1>1. ASSUME NEW e \in Ends, PostWrites(e) PROVE Paired(q)'
  BY <1>1, PairedKept DEF PostWrites, Verdict
<1>2. ASSUME NEW e \in Ends, KernelDone(e) PROVE Paired(q)'
  BY <1>2, PairedKept DEF KernelDone, Verdict
<1>3. ASSUME NEW e \in Ends, KernelExpires(e) PROVE Paired(q)'
  BY <1>3, PairedKept DEF KernelExpires, NoFault, Fault, Verdict
<1>4. ASSUME NEW e \in Ends, ThreadBreaks(e) PROVE Paired(q)'
  BY <1>4, PairedKept DEF ThreadBreaks, Fault, Work, Verdict
<1>5. ASSUME NEW e \in Ends, Close(e) PROVE Paired(q)'
  BY <1>5, PairedKept DEF Close, Goto, Work, Verdict
<1>6. ASSUME NEW e \in Ends, Abort(e) PROVE Paired(q)'
  BY <1>6, PairedKept DEF Abort, Goto, Fault, Work, Verdict
<1>7. ASSUME NEW e \in Ends, Synced(e) PROVE Paired(q)'
  <2>1. \A f \in Ends : result'[f] = "failed" \/ result'[f] = result[f]
    BY <1>7 DEF Synced, Fails
  <2>3. /\ calls' = calls /\ unusable' = unusable /\ \A f \in Ends : f # e => pc'[f] = pc[f]
        /\ pc[e] \in {"sync", "round1", "round2"} /\ result[e] # "interrupted"
        /\ \A f \in Ends : f # e => result'[f] = result[f]
    BY <1>7 DEF Synced, Goto, Fails
  <2> QED
    <3>1. \A f \in Ends : f[1] = q =>
             /\ result[f] = "interrupted" => result'[f] = "interrupted"
             /\ pc[f] \in {"round1", "round2"} => pc'[f] \in {"round1", "round2"} \/ Reached(Len(calls[q]))
      BY <1>7, <2>1, <2>3 DEF Synced
    <3> QED
      BY <2>3, <3>1, PairedKept
<1>8. ASSUME NEW e \in Ends, SyncFails(e) PROVE Paired(q)'
  BY <1>8, PairedKept DEF SyncFails, Goto, Fails, Fault, Work
<1>9. ASSUME NEW e \in Ends, Enter(e) PROVE Paired(q)'
  <2>0. Issued(e)
    BY <1>9, EnterNote
  <2>1. /\ result' = result /\ unusable' = unusable /\ \A f \in Ends : f # e => pc'[f] = pc[f]
        /\ pc[e] \in {"enter1", "enter2"} /\ pc'[e] \in {"round1", "round2"}
    BY <1>9 DEF Enter, Goto, Verdict
  <2>2. \A r \in Ranks : Len(calls'[r]) >= Len(calls[r]) /\ Len(calls[r]) \in Nat /\ Len(calls'[r]) \in Nat
    <3> SUFFICES ASSUME NEW r \in Ranks PROVE Len(calls'[r]) >= Len(calls[r]) /\ Len(calls[r]) \in Nat /\ Len(calls'[r]) \in Nat
      OBVIOUS
    <3>1. Len(calls[r]) \in Nat
      OBVIOUS
    <3>2. CASE r = e[1]
      BY <2>0, <3>1, <3>2 DEF Issued
    <3>3. CASE r # e[1]
      <4>1. calls'[r] = calls[r]
        BY <2>0, <3>3 DEF Issued
      <4> QED
        BY <3>1, <4>1
    <3> QED
      BY <3>2, <3>3
  <2>3. \A k \in Nat : Reached(k) => Reached(k)'
    BY <2>2 DEF Reached
  <2>4. SUFFICES ASSUME \A f \in Ends : f[1] = q => result[f] # "interrupted"
                 PROVE  /\ \A k \in 1..(Len(calls'[q]) - 1) : Reached(k)'
                        /\ \/ Reached(Len(calls[q]))' \/ unusable[q]
                           \/ \E f \in Ends : f[1] = q /\ pc'[f] \in {"round1", "round2"}
    BY <2>1 DEF Paired
  <2>5. /\ \A k \in 1..(Len(calls[q]) - 1) : Reached(k)
        /\ \/ Reached(Len(calls[q])) \/ unusable[q]
           \/ \E f \in Ends : f[1] = q /\ pc[f] \in {"round1", "round2"}
    BY <2>4 DEF Paired
  <2>6. CASE q # e[1]
    <3>1. calls'[q] = calls[q]
      BY <2>0, <2>6 DEF Issued
    <3>2. \A k \in 1..(Len(calls'[q]) - 1) : Reached(k)'
      BY <2>2, <2>3, <2>5, <3>1
    <3>3. Reached(Len(calls[q])) => Reached(Len(calls[q]))'
      BY <2>2, <3>1 DEF Reached
    <3> QED
      BY <2>1, <2>5, <3>2, <3>3
  <2>7. CASE q = e[1]
    <3>1. ~unusable[q]
      BY <1>9, <2>7 DEF Enter, InRound
    <3>2. ASSUME NEW f \in Ends, f[1] = q PROVE pc[f] \notin {"round1", "round2"}
      <4>1. CASE f = e
        BY <2>1, <4>1
      <4>2. CASE f # e
        <5>1. ~aborted[e] /\ (aborted[f] => pc[f] \notin {"round1", "round2"})
          BY <2>1
        <5>2. CASE ~aborted[f]
          <6>1. pc[e] \in {"open", "closed", "left"} \/ pc[f] \in {"open", "closed", "left"}
            BY <2>7, <3>2, <4>2, <5>1, <5>2 DEF Sequential
          <6> QED
            BY <2>1, <6>1
        <5> QED
          BY <5>1, <5>2
      <4> QED
        BY <4>1, <4>2
    <3>3. Reached(Len(calls[q]))
      BY <2>5, <3>1, <3>2
    <3>4. \A k \in 1..Len(calls[q]) : Reached(k)
      BY <2>2, <2>5, <3>3
    <3>5. Len(calls'[q]) - 1 = Len(calls[q])
      BY <2>0, <2>7 DEF Issued
    <3>6. \A k \in 1..Len(calls[q]) : Reached(k)'
      BY <2>2, <2>3, <3>4
    <3> QED
      BY <2>1, <2>7, <3>5, <3>6
  <2> QED
    BY <2>6, <2>7
<1>10. ASSUME NEW e \in Ends, SkipRounds(e) PROVE Paired(q)'
  BY <1>10, PairedKept DEF SkipRounds, Goto, Fails, Work
<1>11. ASSUME NEW e \in Ends, RoundCompletes(e) PROVE Paired(q)'
  <2>1. \A f \in Ends : result'[f] = "failed" \/ result'[f] = result[f]
    BY <1>11 DEF RoundCompletes, Fails
  <2>2. e[1] = q => Reached(Len(calls[q]))
    BY <1>11 DEF RoundCompletes, Arrived, Reached
  <2>3. /\ calls' = calls /\ unusable' = unusable /\ \A f \in Ends : f # e => pc'[f] = pc[f]
        /\ pc[e] \in {"sync", "round1", "round2"} /\ result[e] # "interrupted"
        /\ \A f \in Ends : f # e => result'[f] = result[f]
    BY <1>11 DEF RoundCompletes, Goto, Fails
  <2> QED
    <3>1. \A f \in Ends : f[1] = q =>
             /\ result[f] = "interrupted" => result'[f] = "interrupted"
             /\ pc[f] \in {"round1", "round2"} => pc'[f] \in {"round1", "round2"} \/ Reached(Len(calls[q]))
      BY <1>11, <2>1, <2>2, <2>3 DEF RoundCompletes
    <3> QED
      BY <2>3, <3>1, PairedKept
<1>12. ASSUME NEW e \in Ends, RoundFails(e) PROVE Paired(q)'
  <2>1. /\ calls' = calls /\ unusable'[e[1]] /\ \A f \in Ends : f # e => pc'[f] = pc[f] /\ result'[f] = result[f]
        /\ result[e] # "interrupted" /\ \A r \in Ranks : unusable[r] => unusable'[r]
    BY <1>12 DEF RoundFails, Goto, Fails, MarkUnusable
  <2>2. \A f \in Ends : f[1] = q =>
           /\ result[f] = "interrupted" => result'[f] = "interrupted"
           /\ pc[f] \in {"round1", "round2"} => pc'[f] \in {"round1", "round2"} \/ unusable'[q]
    BY <2>1
  <2> QED
    BY <2>1, <2>2, PairedKept
<1>13. ASSUME NEW e \in Ends, RoundLost(e) PROVE Paired(q)'
  <2>1. /\ calls' = calls /\ unusable'[e[1]] /\ \A f \in Ends : f # e => pc'[f] = pc[f] /\ result'[f] = result[f]
        /\ result[e] # "interrupted" /\ \A r \in Ranks : unusable[r] => unusable'[r]
    BY <1>13 DEF RoundLost, Goto, Fails, MarkUnusable
  <2>2. \A f \in Ends : f[1] = q =>
           /\ result[f] = "interrupted" => result'[f] = "interrupted"
           /\ pc[f] \in {"round1", "round2"} => pc'[f] \in {"round1", "round2"} \/ unusable'[q]
    BY <2>1
  <2> QED
    BY <2>1, <2>2, PairedKept
<1>14. ASSUME NEW e \in Ends, Stop(e) PROVE Paired(q)'
  BY <1>14, PairedKept DEF Stop, Goto, Work, Verdict
<1>15. ASSUME NEW e \in Ends, StopRaises(e) PROVE Paired(q)'
  BY <1>15, PairedKept DEF StopRaises, Goto, Fails, Fault, Work
<1>16. ASSUME NEW e \in Ends, Destroy(e) PROVE Paired(q)'
  BY <1>16, PairedKept DEF Destroy, Goto, Released, Work, Verdict
<1>17. ASSUME NEW e \in Ends, DestroyFails(e) PROVE Paired(q)'
  BY <1>17, PairedKept DEF DestroyFails, Goto, Fails, Fault, Work
<1>18. ASSUME NEW e \in Ends, Interrupt(e) PROVE Paired(q)'
  BY <1>18, PairedKept DEF Interrupt, Goto, Fault, Work
<1>19. ASSUME NEW e \in Ends, InterruptSync(e) PROVE Paired(q)'
  BY <1>19, PairedKept DEF InterruptSync, Goto, Fault, Work, Verdict
<1>19a. ASSUME NEW e \in Ends, Collect(e) PROVE Paired(q)'
  BY <1>19a, PairedKept DEF Collect, Work, Verdict
<1>20. ASSUME NEW r \in Ranks, Die(r) PROVE Paired(q)'
  BY <1>20, PairedKept DEF Die, Fault, Work, Verdict
<1>21. CASE UNCHANGED vars
  BY <1>21, PairedKept DEF vars, Work, Verdict
<1> QED
  BY <1>1, <1>2, <1>3, <1>4, <1>5, <1>6, <1>7, <1>8, <1>9, <1>10, <1>11, <1>12, <1>13, <1>14, <1>15, <1>16,
     <1>17, <1>18, <1>19, <1>19a, <1>20, <1>21 DEF Next, Device, CloseStep

\* The invariant is kept by every step.
LEMMA InvStep == Inv /\ [Next]_vars => Inv'
<1> SUFFICES ASSUME Inv, [Next]_vars PROVE Inv'
  OBVIOUS
<1>1. TypeOK'
  BY TypeStep DEF Inv
<1>2. Sequential'
  <2>1. \A x, y \in Ends : x # y /\ x[1] = y[1] /\ ~aborted'[x] /\ ~aborted'[y] =>
           pc'[x] \in {"open", "closed", "left"} \/ pc'[y] \in {"open", "closed", "left"}
    BY SequentialStep
  <2> QED
    BY <2>1 DEF Sequential
<1>3. ASSUME NEW x \in Ends PROVE (Settled(x) /\ InRound(x) /\ Agreed(x) /\ Calm(x))'
  BY SettledStep, InRoundStep, AgreedStep, CalmStep
<1>4. ASSUME NEW q \in Ranks PROVE (Truthful(q) /\ Paired(q))'
  BY TruthfulStep, PairedStep
<1> QED
  BY <1>1, <1>2, <1>3, <1>4 DEF Inv

\* Every variable of the teardown keeps its type in every behaviour, and the notes of the
\* collectives are notes (teardown.py Note).
THEOREM TypeCorrect == Spec => []TypeOK
<1>1. Init => TypeOK
  BY InitInv DEF Inv
<1> QED
  BY <1>1, TypeStep, PTL DEF Spec

\* The closes of a rank, its notes and what it knows of its peers stay together as Inv says.
THEOREM Invariant == Spec => []Inv
  BY InitInv, InvStep, PTL DEF Spec

\* A close that reports a healthy result (teardown.py ordered_close returns None) has the
\* vote of every rank on this object: every kernel of it has ended well and no progress
\* thread of the group still submits writes for it.
THEOREM HealthyCloseIsShared == Spec => []HealthyIsShared
<1>1. Inv => HealthyIsShared
  <2> SUFFICES ASSUME Inv, NEW e \in Ends, Closed(e), result[e] = "healthy", ~aborted[e]
               PROVE  /\ kernel[e] = "done"
                      /\ \A f \in Peers(e) : kernel[f] = "done" /\ ~own[f] /\ thread[f] # "running"
    BY DEF HealthyIsShared
  <2>1. \A f \in Ends : f[2] = e[2] =>
           ~own[f] /\ pc[f] \notin {"open", "sync", "enter1", "left"} /\ thread[f] # "running"
    BY DEF Inv, Agreed, Closed
  <2>2. \A f \in Ends : f[2] = e[2] => kernel[f] = "done"
    BY <2>1 DEF Inv, Settled
  <2> QED
    BY <2>1, <2>2 DEF Peers
<1> QED
  BY <1>1, Invariant, PTL

\* When every rank closes and nothing fails, no kernel waits in vain: stop() comes after the
\* first round (teardown.py), so a progress thread outlives every kernel that waits for it.
THEOREM KernelsAreServed == Spec => []KernelsServed
<1>1. Inv => KernelsServed
  BY DEF Inv, Calm, KernelsServed
<1> QED
  BY <1>1, Invariant, PTL

\* A rank leaves at most one collective pending on the group: mark_unusable (teardown.py)
\* keeps it from issuing a second one after an abandoned round.
THEOREM AtMostOnePending == Spec => []OnePending
<1>1. Inv => OnePending
  BY DEF Inv, Paired, Reached, OnePending
<1> QED
  BY <1>1, Invariant, PTL

\* The arena of a close is freed only when no kernel of its rank runs on it, unless the close
\* was interrupted in its synchronization (close() of oneshot/runtime.py).
THEOREM ArenaIsSafe == Spec => []ArenaOutlivesKernels
<1>1. Inv => ArenaOutlivesKernels
  BY DEF Inv, Settled, ArenaOutlivesKernels
<1> QED
  BY <1>1, Invariant, PTL

=============================================================================
