------------------------------ MODULE Teardown ------------------------------
(***************************************************************************)
(* How the ranks of a group close the SIRCL sessions and channel sets they *)
(* share (sparkring_sircl/teardown.py, and close() of oneshot/runtime.py   *)
(* and p2p/session.py).                                                    *)
(*                                                                         *)
(* A kernel of one rank ends when every peer's progress thread has posted  *)
(* the writes it waits for.  A round is one collective of the group: the   *)
(* k-th collective that a rank issues pairs with the k-th of every other,  *)
(* whatever each of them is closing.                                       *)
(***************************************************************************)
EXTENDS Integers, Sequences, FiniteSets

CONSTANTS
    Ranks,     \* the ranks of the group
    Objects,   \* the sessions and channel sets, by their ordinal: the same on every rank
    MaxFaults  \* bound: aborts, deaths, interrupts and calls that fail; missed rounds are not counted

ASSUME TeardownAssumption == MaxFaults \in Nat /\ Ranks # {} /\ Objects # {}

VARIABLES
    kernel,     \* [Ends -> the state of the rank's last kernel on the object]
    posted,     \* [Ends -> whether its thread has posted every write a peer waits for]
    thread,     \* [Ends -> the state of its progress thread]
    calls,      \* [Ranks -> the notes of the collectives it has issued]
    unusable,   \* [Ranks -> whether the group is marked unusable in its process]
    pc,         \* [Ends -> where the close of the object is]
    aborted,    \* [Ends -> whether it is closed with abort]
    own,        \* [Ends -> whether the rank has a failure of its own to report]
    unsettled,  \* [Ends -> whether its GPU work was not shown complete]
    result,     \* [Ends -> the close result, as far as the close has come]
    arena,      \* [Ends -> "held", "freed" or "retained"]
    alive,      \* [Ranks -> BOOLEAN]
    faults,     \* faults so far
    disturbed   \* history: whether anything but a healthy close has happened

Ends == Ranks \X Objects

Work == <<kernel, posted>>
Verdict == <<own, unsettled, result>>
vars == <<Work, thread, calls, unusable, pc, aborted, Verdict, arena, alive, faults, disturbed>>

Labels == {"open", "sync", "enter1", "round1", "stop", "last_stop", "enter2", "round2", "destroy", "closed", "left"}

Notes == [object : Objects, phase : {1, 2}, failure : BOOLEAN]

TypeOK ==
    /\ kernel \in [Ends -> {"running", "done", "expired"}] /\ posted \in [Ends -> BOOLEAN]
    /\ thread \in [Ends -> {"running", "stopped", "broken"}]
    /\ calls \in [Ranks -> Seq(Notes)]
    /\ unusable \in [Ranks -> BOOLEAN] /\ alive \in [Ranks -> BOOLEAN]
    /\ pc \in [Ends -> Labels] /\ aborted \in [Ends -> BOOLEAN]
    /\ own \in [Ends -> BOOLEAN] /\ unsettled \in [Ends -> BOOLEAN]
    /\ result \in [Ends -> {"healthy", "failed", "interrupted"}]
    /\ arena \in [Ends -> {"held", "freed", "retained"}]
    /\ faults \in 0..MaxFaults /\ disturbed \in BOOLEAN

Init ==
    /\ kernel = [e \in Ends |-> "running"] /\ posted = [e \in Ends |-> FALSE]
    /\ thread = [e \in Ends |-> "running"]
    /\ calls = [r \in Ranks |-> <<>>] /\ unusable = [r \in Ranks |-> FALSE]
    /\ pc = [e \in Ends |-> "open"] /\ aborted = [e \in Ends |-> FALSE]
    /\ own = [e \in Ends |-> FALSE] /\ unsettled = [e \in Ends |-> FALSE]
    /\ result = [e \in Ends |-> "healthy"]
    /\ arena = [e \in Ends |-> "held"]
    /\ alive = [r \in Ranks |-> TRUE]
    /\ faults = 0 /\ disturbed = FALSE

-----------------------------------------------------------------------------
Goto(e, label) == pc' = [pc EXCEPT ![e] = label]

Fault == faults < MaxFaults /\ faults' = faults + 1 /\ disturbed' = TRUE
NoFault == UNCHANGED <<faults, disturbed>>

Fails(e) == result' = [result EXCEPT ![e] = "failed"]

-----------------------------------------------------------------------------
(* Kernels and progress threads.                                           *)

\* The thread posts what its peers' kernels wait for.
PostWrites(e) ==
    /\ alive[e[1]] /\ thread[e] = "running" /\ ~posted[e]
    /\ posted' = [posted EXCEPT ![e] = TRUE]
    /\ UNCHANGED <<kernel, thread, calls, unusable, pc, aborted, Verdict, arena, alive, faults, disturbed>>

Peers(e) == {f \in Ends : f[2] = e[2] /\ f[1] # e[1]}

KernelDone(e) ==
    /\ alive[e[1]] /\ kernel[e] = "running" /\ \A f \in Peers(e) : posted[f]
    /\ kernel' = [kernel EXCEPT ![e] = "done"]
    /\ UNCHANGED <<posted, thread, calls, unusable, pc, aborted, Verdict, arena, alive, faults, disturbed>>

\* A flag wait reaches its limit: the writes cannot come any more, or come too late.
KernelExpires(e) ==
    /\ alive[e[1]] /\ kernel[e] = "running"
    /\ \/ (\E f \in Peers(e) : ~posted[f] /\ thread[f] # "running") /\ NoFault
       \/ Fault
    /\ kernel' = [kernel EXCEPT ![e] = "expired"]
    /\ UNCHANGED <<posted, thread, calls, unusable, pc, aborted, Verdict, arena, alive>>

\* A progress thread fails by itself.
ThreadBreaks(e) ==
    /\ alive[e[1]] /\ thread[e] = "running" /\ Fault
    /\ thread' = [thread EXCEPT ![e] = "broken"]
    /\ UNCHANGED <<Work, calls, unusable, pc, aborted, Verdict, arena, alive>>

-----------------------------------------------------------------------------
(* close(), close_native and ordered_close.                                *)

\* A rank closes its objects one after the other.
Close(e) ==
    /\ alive[e[1]] /\ pc[e] = "open"
    /\ \A f \in Ends : f[1] = e[1] /\ ~aborted[f] => pc[f] \in {"open", "closed", "left"}
    /\ Goto(e, "sync")
    /\ UNCHANGED <<Work, thread, calls, unusable, aborted, Verdict, arena, alive, faults, disturbed>>

\* close(abort=True): a failed setup, or an object that is collected, at any moment.
Abort(e) ==
    /\ alive[e[1]] /\ pc[e] = "open" /\ Fault
    /\ aborted' = [aborted EXCEPT ![e] = TRUE]
    /\ Goto(e, "sync")
    /\ UNCHANGED <<Work, thread, calls, unusable, Verdict, arena, alive>>

\* Mutant: the progress thread is stopped once the rank's own kernels are done.
SyncedStops(e) ==
    /\ alive[e[1]] /\ pc[e] = "sync" /\ kernel[e] # "running"
    /\ own' = [own EXCEPT ![e] = kernel[e] = "expired" \/ thread[e] = "broken"]
    /\ IF own'[e] THEN Fails(e) ELSE UNCHANGED result
    /\ thread' = [thread EXCEPT ![e] = "stopped"]
    /\ Goto(e, IF aborted[e] THEN "last_stop" ELSE "enter1")
    /\ UNCHANGED <<Work, calls, unusable, aborted, unsettled, arena, alive, faults, disturbed>>

\* The device is synchronized; an expired wait or a broken thread is the rank's failure.
Synced(e) ==
    /\ alive[e[1]] /\ pc[e] = "sync" /\ kernel[e] # "running"
    /\ own' = [own EXCEPT ![e] = kernel[e] = "expired" \/ thread[e] = "broken"]
    /\ IF own'[e] THEN Fails(e) ELSE UNCHANGED result
    /\ Goto(e, IF aborted[e] THEN "last_stop" ELSE "enter1")
    /\ UNCHANGED <<Work, thread, calls, unusable, aborted, unsettled, arena, alive, faults, disturbed>>

\* The synchronization fails: kernels may still run.
SyncFails(e) ==
    /\ alive[e[1]] /\ pc[e] = "sync" /\ Fault
    /\ own' = [own EXCEPT ![e] = TRUE] /\ unsettled' = [unsettled EXCEPT ![e] = TRUE]
    /\ Fails(e)
    /\ Goto(e, IF aborted[e] THEN "last_stop" ELSE "enter1")
    /\ UNCHANGED <<Work, thread, calls, unusable, aborted, arena, alive>>

Round(e) == IF pc[e] \in {"enter1", "round1"} THEN 1 ELSE 2

\* A round begins: the note goes into the rank's next collective.
Enter(e) ==
    /\ alive[e[1]] /\ pc[e] \in {"enter1", "enter2"} /\ (pc[e] = "enter1" => ~unusable[e[1]])
    /\ calls' = [calls EXCEPT ![e[1]] = Append(@, [object |-> e[2], phase |-> Round(e),
                                                   failure |-> own[e] /\ pc[e] = "enter1"])]
    /\ Goto(e, IF pc[e] = "enter1" THEN "round1" ELSE "round2")
    /\ UNCHANGED <<Work, thread, unusable, aborted, Verdict, arena, alive, faults, disturbed>>

\* A group marked unusable: no round, a failed close.
SkipRounds(e) ==
    /\ alive[e[1]] /\ pc[e] = "enter1" /\ unusable[e[1]]
    /\ Fails(e)
    /\ Goto(e, "last_stop")
    /\ UNCHANGED <<Work, thread, calls, unusable, aborted, own, unsettled, arena, alive, faults, disturbed>>

Arrived(r) == \A q \in Ranks : Len(calls[q]) >= Len(calls[r])
NotesOf(r) == {calls[q][Len(calls[r])] : q \in Ranks}

\* Mutant: the ordinal is not part of a note.
SameCloseAnyObject(a, b) == a.phase = b.phase

\* Note.same_close
SameClose(a, b) == a.object = b.object /\ a.phase = b.phase

Matched(r) == \A note \in NotesOf(r) : SameClose(calls[r][Len(calls[r])], note)

\* Every rank answered and every note names this close; round 1 reports the failures.
RoundCompletes(e) ==
    /\ alive[e[1]] /\ pc[e] \in {"round1", "round2"} /\ Arrived(e[1]) /\ Matched(e[1])
    /\ IF \E note \in NotesOf(e[1]) : note.failure THEN Fails(e) ELSE UNCHANGED result
    /\ Goto(e, IF pc[e] = "round1" THEN "stop" ELSE "destroy")
    /\ UNCHANGED <<Work, thread, calls, unusable, aborted, own, unsettled, arena, alive, faults, disturbed>>

\* Mutant: the group is not marked.
MarkUnusableNot(r) == UNCHANGED unusable

\* mark_unusable
MarkUnusable(r) == unusable' = [unusable EXCEPT ![r] = TRUE]

\* Mutant: a round is waited for without a limit.
RoundFailsMismatched(e) ==
    /\ alive[e[1]] /\ pc[e] \in {"round1", "round2"} /\ Arrived(e[1]) /\ ~Matched(e[1])
    /\ MarkUnusable(e[1])
    /\ Fails(e)
    /\ Goto(e, IF pc[e] = "round1" THEN "last_stop" ELSE "destroy")
    /\ disturbed' = TRUE
    /\ UNCHANGED <<Work, thread, calls, aborted, own, unsettled, arena, alive, faults>>

\* The round did not complete: its limit passed, the exchange raised, or a note names
\* another close.  The collective stays issued.
RoundFails(e) ==
    /\ alive[e[1]] /\ pc[e] \in {"round1", "round2"} /\ ~(Arrived(e[1]) /\ Matched(e[1]))
    /\ MarkUnusable(e[1])
    /\ Fails(e)
    /\ Goto(e, IF pc[e] = "round1" THEN "last_stop" ELSE "destroy")
    /\ disturbed' = TRUE
    /\ UNCHANGED <<Work, thread, calls, aborted, own, unsettled, arena, alive, faults>>

\* The thread of a round does not start, or its limit passes just as the last rank
\* arrives.
RoundLost(e) ==
    /\ alive[e[1]] /\ pc[e] \in {"enter1", "enter2", "round1", "round2"} /\ Fault
    /\ pc[e] = "enter1" => ~unusable[e[1]]
    /\ MarkUnusable(e[1])
    /\ Fails(e)
    /\ Goto(e, IF pc[e] \in {"enter1", "round1"} THEN "last_stop" ELSE "destroy")
    /\ UNCHANGED <<Work, thread, calls, aborted, own, unsettled, arena, alive>>

\* stop(): the progress thread submits nothing more.
Stop(e) ==
    /\ alive[e[1]] /\ pc[e] \in {"stop", "last_stop"}
    /\ thread' = [thread EXCEPT ![e] = IF @ = "running" THEN "stopped" ELSE @]
    /\ Goto(e, IF pc[e] = "stop" THEN "enter2" ELSE "destroy")
    /\ UNCHANGED <<Work, calls, unusable, aborted, Verdict, arena, alive, faults, disturbed>>

\* stop() raises: no second round, and the context is destroyed all the same.
StopRaises(e) ==
    /\ alive[e[1]] /\ pc[e] \in {"stop", "last_stop"} /\ Fault
    /\ Fails(e)
    /\ Goto(e, "destroy")
    /\ UNCHANGED <<Work, thread, calls, unusable, aborted, own, unsettled, arena, alive>>

\* Mutant: a failed synchronization does not keep the arena.
ReleasedUnsettled(e) == TRUE

\* The arena may go when the rank's GPU work was shown complete.
Released(e) == ~unsettled[e]

\* The context is destroyed; the arena is kept when a kernel may still use it.
Destroy(e) ==
    /\ alive[e[1]] /\ pc[e] = "destroy"
    /\ thread' = [thread EXCEPT ![e] = IF @ = "running" THEN "stopped" ELSE @]
    /\ arena' = [arena EXCEPT ![e] = IF Released(e) THEN "freed" ELSE "retained"]
    /\ Goto(e, "closed")
    /\ UNCHANGED <<Work, calls, unusable, aborted, Verdict, alive, faults, disturbed>>

\* A verbs object is not released, or the destroy raises: the arena is kept.
DestroyFails(e) ==
    /\ alive[e[1]] /\ pc[e] = "destroy" /\ Fault
    /\ thread' \in {thread, [thread EXCEPT ![e] = IF @ = "running" THEN "stopped" ELSE @]}
    /\ arena' = [arena EXCEPT ![e] = "retained"]
    /\ Fails(e)
    /\ Goto(e, "closed")
    /\ UNCHANGED <<Work, calls, unusable, aborted, own, unsettled, alive>>

\* KeyboardInterrupt: a failed close that keeps its context and its arena.
Interrupt(e) ==
    /\ alive[e[1]] /\ pc[e] \notin {"open", "sync", "closed", "left"} /\ Fault
    /\ arena' = [arena EXCEPT ![e] = "retained"]
    /\ result' = [result EXCEPT ![e] = "interrupted"]
    /\ Goto(e, "closed")
    /\ UNCHANGED <<Work, thread, calls, unusable, aborted, own, unsettled, alive>>

\* An interrupt before the teardown, in the synchronization: the close is left with no
\* result recorded, a later close() does nothing, and nothing retains the arena.
InterruptSync(e) ==
    /\ alive[e[1]] /\ pc[e] = "sync" /\ Fault
    /\ Goto(e, "left")
    /\ UNCHANGED <<Work, thread, calls, unusable, aborted, Verdict, arena, alive>>

\* An object whose close was interrupted is collected: its context is destroyed, and its
\* arena goes unless it is retained.
Collect(e) ==
    /\ alive[e[1]] /\ (pc[e] = "left" \/ (pc[e] = "closed" /\ result[e] = "interrupted"))
    /\ thread' = [thread EXCEPT ![e] = IF @ = "running" THEN "stopped" ELSE @]
    /\ arena' = [arena EXCEPT ![e] = IF @ = "held" THEN "freed" ELSE @]
    /\ UNCHANGED <<Work, calls, unusable, pc, aborted, Verdict, alive, faults, disturbed>>

\* A rank dies, with its threads and kernels.
Die(r) ==
    /\ alive[r] /\ Fault
    /\ alive' = [alive EXCEPT ![r] = FALSE]
    /\ thread' = [e \in Ends |-> IF e[1] = r THEN "broken" ELSE thread[e]]
    /\ UNCHANGED <<Work, calls, unusable, pc, aborted, Verdict, arena>>

-----------------------------------------------------------------------------
\* What the GPU and the progress threads do by themselves.
Device(e) == PostWrites(e) \/ KernelDone(e) \/ KernelExpires(e)

\* The next step of a close.
CloseStep(e) ==
    Synced(e) \/ Enter(e) \/ SkipRounds(e) \/ RoundCompletes(e) \/ RoundFails(e) \/ Stop(e) \/ Destroy(e)

Next ==
    \/ \E e \in Ends : \/ Device(e) \/ ThreadBreaks(e)
                       \/ Close(e) \/ Abort(e) \/ CloseStep(e)
                       \/ SyncFails(e) \/ RoundLost(e) \/ StopRaises(e) \/ DestroyFails(e)
                       \/ Interrupt(e) \/ InterruptSync(e) \/ Collect(e)
    \/ \E r \in Ranks : Die(r)

Spec == Init /\ [][Next]_vars

\* Kernels end or reach their limit, and a close that has begun goes on: every wait of it
\* has a limit.  Nothing makes a rank close.
FairSpec == Spec /\ WF_vars(\E e \in Ends : Device(e) \/ CloseStep(e))

-----------------------------------------------------------------------------
Closed(e) == pc[e] = "closed"

(***************************************************************************)
(* "None when every rank was healthy and both rounds completed"            *)
(* (teardown.py): a close without abort that reports a healthy result has  *)
(* the vote of every rank on this object, every kernel of it has ended     *)
(* well and no thread of the group still submits writes for it, whatever   *)
(* was abandoned on the group before and in whichever order ranks close.   *)
(***************************************************************************)
HealthyIsShared ==
    \A e \in Ends : Closed(e) /\ result[e] = "healthy" /\ ~aborted[e] =>
        /\ kernel[e] = "done"
        /\ \A f \in Peers(e) : kernel[f] = "done" /\ ~own[f] /\ thread[f] # "running"

(***************************************************************************)
(* "a peer's kernels may still wait for writes this rank's progress thread *)
(* posts after its own kernels completed" (teardown.py): when every rank   *)
(* closes and nothing fails, no kernel ever waits in vain.                 *)
(***************************************************************************)
KernelsServed == \A e \in Ends : kernel[e] = "expired" => disturbed

(***************************************************************************)
(* "stops and destroys without rounds instead of issuing a collective that *)
(* would pair with the abandoned one" (teardown.py): a rank leaves at most *)
(* one collective pending on the group.  An interrupted round is not       *)
(* marked (README, Observations).                                          *)
(***************************************************************************)
OnePending ==
    \A r \in Ranks : (\A e \in Ends : e[1] = r => result[e] # "interrupted") =>
        \A k \in 1..(Len(calls[r]) - 1) : \A q \in Ranks : Len(calls[q]) >= k

(***************************************************************************)
(* "a kernel may still read or write it" (close_native): an arena is freed *)
(* only when no kernel of its rank can still use it.  It does not hold of  *)
(* a close that was interrupted in the synchronization (README,            *)
(* Observations).                                                          *)
(***************************************************************************)
FreedIsUnused == \A e \in Ends : arena[e] = "freed" => kernel[e] # "running"

(***************************************************************************)
(* The same of every other close: healthy, failed, aborted, without its    *)
(* rounds, or interrupted later, and then collected.                       *)
(***************************************************************************)
ArenaOutlivesKernels ==
    \A e \in Ends : pc[e] # "left" /\ arena[e] = "freed" => kernel[e] # "running"

(***************************************************************************)
(* "A peer that never answers leaves the thread blocked and the close goes *)
(* on": a close that has begun ends, whatever its peers do, so in the end  *)
(* none is under way.                                                      *)
(***************************************************************************)
ClosesEnd == <>[](\A e \in Ends : pc[e] \in {"open", "closed", "left"} \/ ~alive[e[1]])
==============================================================================
