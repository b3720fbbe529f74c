----------------------------- MODULE P2PChannel -----------------------------
(***************************************************************************)
(* One channel of SIRCL's point-to-point transport, from rank "a" to rank  *)
(* "b": the send and receive kernels (p2p/_kernels.py), the two progress   *)
(* threads (p2p/_p2p_proxy.c) and the queue pairs between them.            *)
(*                                                                         *)
(* Every item is a block of a kernel launch.  Blocks wait, copy and store  *)
(* their word independently, more freely than a launch orders them.  A     *)
(* lane is a reliable queue pair: its writes land in order, a write reads  *)
(* the send slot when it lands, and its completion comes later.  Words are *)
(* Width wide and wrap; the channel starts at item First of its session.   *)
(***************************************************************************)
EXTENDS Integers, Sequences, FiniteSets

CONSTANTS
    N,         \* bound: items of a session; their blocks all exist from its beginning, so
               \* no more than the words can tell apart
    Slots,     \* slots on each end, a power of two
    Lanes,     \* 1 or 2 lanes, numbered from 0
    Width,     \* a word holds 0..Width-1; 2^32 in the code
    First,     \* the channel's first item, 0..Width-1
    Inflight,  \* P2P_INFLIGHT
    Sessions   \* records of the header, <<packs, whether it ends its message>>, of every
               \* send and of every receive, the forward window of a lane in data writes
               \* (0: a direct lane), whether a kernel wait can reach its limit, and the
               \* bound on queue pairs that fail

Items == 0..(N - 1)

ASSUME P2PAssumption ==
    /\ N \in Nat \ {0} /\ Slots \in Nat \ {0} /\ Width \in Nat /\ First \in 0..(Width - 1)
    /\ Width % (2 * Slots) = 0 /\ Width >= 4 * Slots
    /\ N < Width \div 2 + Slots
    /\ Lanes \in {{0}, {0, 1}} /\ Inflight \in Nat \ {0}
    /\ \A s \in Sessions :
          /\ s.sends \in Seq(Nat \X BOOLEAN) /\ s.recvs \in Seq(Nat \X BOOLEAN)
          /\ Len(s.sends) = Len(s.recvs) /\ Len(s.sends) <= N
          /\ s.window \in Nat /\ s.timeouts \in BOOLEAN /\ s.faults \in Nat

VARIABLES
    session,   \* the session of this run
    send,      \* [Items -> state of the item's send block]
    sendSlot,  \* [slot -> the item it holds, Torn while it is copied, or Nothing]
    desc, ready, sent,   \* the sender's desc and ready lines and its sent word
    laneItem, laneBytes, laneHeader, laneDone,  \* the sender's progress thread, per lane
    creditSeen, unacked,
    wire,      \* [Lanes -> writes posted and not completed]
    landed,    \* [Lanes -> how many of them have landed]
    flags,     \* history: [Lanes -> flag writes landed]
    credit,    \* the sender's credit word, written by the receiver
    recvSlot,  \* [slot -> [Lanes -> items whose bytes the stripe's packs hold]]
    flag, header, consumed,  \* the receiver's lines
    released, credited,      \* the receiver's progress thread
    credits,   \* credit writes on their way
    recv,      \* [Items -> state of the item's receive block]
    out,       \* [Items -> [Lanes -> what was copied out of the stripe, or NotCopied]]
    poison, failed, abort,   \* [{"a", "b"} -> control words, and whether the thread stopped]
    broken     \* lanes whose queue pair has failed, for both ranks

Sender == <<session, send, sendSlot, desc, ready>>
Thread == <<sent, laneItem, laneBytes, laneHeader, laneDone, creditSeen, unacked>>
Wires == <<wire, landed, flags, credit, credits, broken>>
Memory == <<recvSlot, flag, header>>
Receiver == <<consumed, recv, out>>
Release == <<released, credited>>
Control == <<poison, failed, abort>>
vars == <<Sender, Thread, Wires, Memory, Receiver, Release, Control>>

Places == 0..(Slots - 1)
Words == 0..(Width - 1)
Headers == Nat \X BOOLEAN
Writes == [kind: {"data", "header", "flag"}, item: Words, piece: Nat, proven: BOOLEAN, value: Headers]

Nothing == -1
Torn == -2
NotCopied == <<Nothing>>
Ranks == {"a", "b"}
Other(r) == IF r = "a" THEN "b" ELSE "a"

-----------------------------------------------------------------------------
Word(n) == n % Width
Slot(g) == g % Slots
Tag(i) == Word(First + i + 1)
SlotOf(i) == Slot(Word(First + i))

\* Mutant: the words are compared as unsigned numbers.
AtLeastUnsigned(x, y) == x >= y

\* (int32)(x - y) >= 0: x has reached y, although both wrap.
AtLeast(x, y) == Word(x - y + Width) < Width \div 2

\* lane_split: packs of one lane.
LaneSplit(packs, lane) ==
    LET lanes == Cardinality(Lanes)
    IN  packs \div lanes + (IF lane < packs % lanes THEN 1 ELSE 0)

\* The least of the lanes' counters, as the code compares them.
Least(counter) == CHOOSE v \in {counter[l] : l \in Lanes} : \A l \in Lanes : AtLeast(counter[l], v)

\* The tag slot m holds before item First: that of the last item that used it.
Before(m) == Word(First + Width - ((First + Width - 1 - m) % Slots))

\* The items of this run.
Used == 0..(Len(session.sends) - 1)

\* What the two ranks say of an item.
SendHeader(i) == session.sends[i + 1]
RecvHeader(i) == session.recvs[i + 1]

Init ==
    /\ session \in Sessions
    /\ send = [i \in Items |-> IF i \in Used THEN "wait" ELSE "none"]
    /\ recv = [i \in Items |-> IF i \in Used THEN "wait" ELSE "none"]
    /\ sendSlot = [m \in Places |-> Nothing]
    /\ desc = [m \in Places |-> <<0, FALSE>>]
    /\ ready = [m \in Places |-> Before(m)]
    /\ sent = First /\ creditSeen = First /\ credit = First
    /\ laneItem = [l \in Lanes |-> First] /\ laneDone = [l \in Lanes |-> First]
    /\ laneBytes = [l \in Lanes |-> 0] /\ laneHeader = FALSE
    /\ unacked = [l \in Lanes |-> 0]
    /\ wire = [l \in Lanes |-> <<>>] /\ landed = [l \in Lanes |-> 0] /\ flags = [l \in Lanes |-> 0]
    /\ recvSlot = [m \in Places |-> [l \in Lanes |-> <<>>]]
    /\ flag = [m \in Places |-> [l \in Lanes |-> Before(m)]]
    /\ header = [m \in Places |-> <<0, FALSE>>]
    /\ consumed = [m \in Places |-> Before(m)]
    /\ released = First /\ credited = First /\ credits = <<>>
    /\ out = [i \in Items |-> [l \in Lanes |-> NotCopied]]
    /\ poison = [r \in Ranks |-> FALSE] /\ failed = [r \in Ranks |-> FALSE] /\ abort = [r \in Ranks |-> FALSE]
    /\ broken = {}

-----------------------------------------------------------------------------
(* P2PSend.kernel, one block per item.                                     *)

\* Mutant: the slot is taken when its previous item was posted, not sent.
SlotFreeEarly(i) == AtLeast(Least(laneItem), Word(Tag(i) - Slots + Width))

\* wait_ge_or_poison(sent, tag - slots)
SlotFree(i) == AtLeast(sent, Word(Tag(i) - Slots + Width))

\* The wait ends well and the block begins to copy into the send slot.
SendBegin(i) ==
    /\ send[i] = "wait" /\ SlotFree(i) /\ ~poison["a"]
    /\ send' = [send EXCEPT ![i] = "copy"]
    /\ sendSlot' = [sendSlot EXCEPT ![SlotOf(i)] = Torn]
    /\ UNCHANGED <<session, desc, ready, Thread, Wires, Memory, Receiver, Release, Control>>

\* The copy is complete: the header, then the tag.
SendReady(i) ==
    /\ send[i] = "copy"
    /\ send' = [send EXCEPT ![i] = "ready"]
    /\ sendSlot' = [sendSlot EXCEPT ![SlotOf(i)] = i]
    /\ desc' = [desc EXCEPT ![SlotOf(i)] = SendHeader(i)]
    /\ ready' = [ready EXCEPT ![SlotOf(i)] = Tag(i)]
    /\ UNCHANGED <<session, Thread, Wires, Memory, Receiver, Release, Control>>

\* The block finds the poison, or its wait reaches the limit and sets it.  The limit is
\* looked at after the poll, so the slot may have come free in between.
SendQuit(i) ==
    /\ send[i] = "wait"
    /\ poison["a"] \/ session.timeouts
    /\ send' = [send EXCEPT ![i] = "quit"]
    /\ poison' = [poison EXCEPT !["a"] = TRUE]
    /\ UNCHANGED <<session, sendSlot, desc, ready, Thread, Wires, Memory, Receiver, Release, failed, abort>>

-----------------------------------------------------------------------------
(* service_out and drain_device: the sender's progress thread.             *)

Post(l, write) == wire' = [wire EXCEPT ![l] = Append(@, write)]

\* room: P2P_INFLIGHT writes of a queue pair at most.
Room(l) == Len(wire[l]) < Inflight

Unproven(l, c) == {k \in DOMAIN wire[l] : wire[l][k].kind = "data" /\ ~wire[l][k].proven
                                          /\ ~AtLeast(wire[l][k].item, c)}

\* A new credit proves delivered the data writes of every item before it.
ReadCredit ==
    /\ ~failed["a"] /\ credit # creditSeen
    /\ creditSeen' = credit
    /\ wire' = [l \in Lanes |-> [k \in DOMAIN wire[l] |->
                   [wire[l][k] EXCEPT !.proven = @ \/ k \in Unproven(l, credit)]]]
    /\ unacked' = [l \in Lanes |-> IF session.window = 0 THEN 0 ELSE unacked[l] - Cardinality(Unproven(l, credit))]
    /\ UNCHANGED <<Sender, sent, laneItem, laneBytes, laneHeader, laneDone, landed, flags, credit, credits, broken,
                   Memory, Receiver, Release, Control>>

\* The receiver has freed the slot of the lane's next item and the kernel has staged it.
MayPost(l) ==
    /\ AtLeast(creditSeen, Word(laneItem[l] + 1 - Slots + Width))
    /\ ready[Slot(laneItem[l])] = Word(laneItem[l] + 1)

Stripe(l) == LaneSplit(desc[Slot(laneItem[l])][1], l)

\* One data write of the lane's stripe, within the window.
PostData(l) ==
    /\ ~failed["a"] /\ MayPost(l) /\ laneBytes[l] < Stripe(l) /\ Room(l)
    /\ session.window = 0 \/ unacked[l] < session.window
    /\ Post(l, [kind |-> "data", item |-> laneItem[l], piece |-> laneBytes[l] + 1, proven |-> FALSE,
                value |-> desc[Slot(laneItem[l])]])
    /\ laneBytes' = [laneBytes EXCEPT ![l] = @ + 1]
    /\ unacked' = [unacked EXCEPT ![l] = IF session.window = 0 THEN 0 ELSE @ + 1]
    /\ UNCHANGED <<Sender, sent, laneItem, laneHeader, laneDone, creditSeen, landed, flags, credit, credits, broken,
                   Memory, Receiver, Release, Control>>

\* Lane 0 writes the header after its data.
PostHeader ==
    /\ ~failed["a"] /\ MayPost(0) /\ laneBytes[0] = Stripe(0) /\ ~laneHeader /\ Room(0)
    /\ Post(0, [kind |-> "header", item |-> laneItem[0], piece |-> 0, proven |-> FALSE,
                value |-> desc[Slot(laneItem[0])]])
    /\ laneHeader' = TRUE
    /\ UNCHANGED <<Sender, sent, laneItem, laneBytes, laneDone, creditSeen, unacked, landed, flags, credit, credits,
                   broken, Memory, Receiver, Release, Control>>

\* Mutant: lane 0's flag does not wait for its header.
PostFlagFirst(l) ==
    /\ ~failed["a"] /\ MayPost(l) /\ laneBytes[l] = Stripe(l) /\ Room(l)
    /\ Post(l, [kind |-> "flag", item |-> laneItem[l], piece |-> 0, proven |-> FALSE, value |-> <<0, FALSE>>])
    /\ laneItem' = [laneItem EXCEPT ![l] = Word(@ + 1)]
    /\ laneBytes' = [laneBytes EXCEPT ![l] = 0]
    /\ laneHeader' = (l # 0 /\ laneHeader)
    /\ UNCHANGED <<Sender, sent, laneDone, creditSeen, unacked, landed, flags, credit, credits, broken, Memory,
                   Receiver, Release, Control>>

\* Every lane ends its part of the item with the flag.
PostFlag(l) ==
    /\ ~failed["a"] /\ MayPost(l) /\ laneBytes[l] = Stripe(l) /\ (l = 0 => laneHeader) /\ Room(l)
    /\ Post(l, [kind |-> "flag", item |-> laneItem[l], piece |-> 0, proven |-> FALSE, value |-> <<0, FALSE>>])
    /\ laneItem' = [laneItem EXCEPT ![l] = Word(@ + 1)]
    /\ laneBytes' = [laneBytes EXCEPT ![l] = 0]
    /\ laneHeader' = (l # 0 /\ laneHeader)
    /\ UNCHANGED <<Sender, sent, laneDone, creditSeen, unacked, landed, flags, credit, credits, broken, Memory,
                   Receiver, Release, Control>>

\* Mutant: a write a credit has proved gives its bytes back a second time.
GivenBackTwice(write) == write.kind = "data"

\* A completed write still counts in the window unless a credit has proved it.
GivenBack(write) == write.kind = "data" /\ ~write.proven

\* drain_device: the oldest write of the lane completed.
Complete(l) ==
    /\ ~failed["a"] /\ landed[l] > 0
    /\ wire' = [wire EXCEPT ![l] = Tail(@)]
    /\ landed' = [landed EXCEPT ![l] = @ - 1]
    /\ laneDone' = [laneDone EXCEPT ![l] = IF Head(wire[l]).kind = "flag" THEN Word(@ + 1) ELSE @]
    /\ unacked' = [unacked EXCEPT ![l] = IF session.window > 0 /\ GivenBack(Head(wire[l])) THEN @ - 1 ELSE @]
    /\ UNCHANGED <<Sender, sent, laneItem, laneBytes, laneHeader, creditSeen, flags, credit, credits, broken, Memory,
                   Receiver, Release, Control>>

\* The sent word follows the slowest lane.
StoreSent ==
    /\ ~failed["a"] /\ sent # Least(laneDone)
    /\ sent' = Least(laneDone)
    /\ UNCHANGED <<Sender, laneItem, laneBytes, laneHeader, laneDone, creditSeen, unacked, Wires, Memory, Receiver,
                   Release, Control>>

-----------------------------------------------------------------------------
(* The network: queue pairs deliver in order until they break.             *)

Land(l) ==
    /\ landed[l] < Len(wire[l]) /\ l \notin broken
    /\ LET write == wire[l][landed[l] + 1]
           m == Slot(write.item)
           stripe == IF write.piece = 1 THEN <<>> ELSE recvSlot[m][l]
       IN  /\ recvSlot' = IF write.kind = "data" THEN [recvSlot EXCEPT ![m][l] = Append(stripe, sendSlot[m])]
                          ELSE recvSlot
           /\ header' = IF write.kind = "header" THEN [header EXCEPT ![m] = write.value] ELSE header
           /\ flag' = IF write.kind = "flag" THEN [flag EXCEPT ![m][l] = Word(write.item + 1)] ELSE flag
           /\ flags' = IF write.kind = "flag" THEN [flags EXCEPT ![l] = @ + 1] ELSE flags
    /\ landed' = [landed EXCEPT ![l] = @ + 1]
    /\ UNCHANGED <<Sender, Thread, wire, credit, credits, broken, Receiver, Release, Control>>

\* A credit write lands and completes.
LandCredit ==
    /\ credits # <<>> /\ 0 \notin broken
    /\ credit' = Head(credits)
    /\ credits' = Tail(credits)
    /\ UNCHANGED <<Sender, Thread, wire, landed, flags, broken, Memory, Receiver, Release, Control>>

-----------------------------------------------------------------------------
(* P2PRecv.kernel, one block per item.                                     *)

\* Every lane's flag of the slot holds the tag.
Arrived(i) == \A l \in Lanes : flag[SlotOf(i)][l] = Tag(i)

\* The header is compared; one that differs poisons the context.
RecvBegin(i) ==
    /\ recv[i] = "wait" /\ Arrived(i) /\ ~poison["b"]
    /\ IF header[SlotOf(i)] = RecvHeader(i)
         THEN recv' = [recv EXCEPT ![i] = "copy"] /\ UNCHANGED poison
         ELSE recv' = [recv EXCEPT ![i] = "size"] /\ poison' = [poison EXCEPT !["b"] = TRUE]
    /\ UNCHANGED <<Sender, Thread, Wires, Memory, consumed, out, Release, failed, abort>>

\* One stripe is copied to the output: the packs that the receive counts.
RecvCopy(i, l) ==
    /\ recv[i] = "copy" /\ out[i][l] = NotCopied
    /\ LET stripe == recvSlot[SlotOf(i)][l]
       IN  out' = [out EXCEPT ![i][l] = [k \in 1..LaneSplit(RecvHeader(i)[1], l) |->
                                            IF k \in DOMAIN stripe THEN stripe[k] ELSE Nothing]]
    /\ UNCHANGED <<Sender, Thread, Wires, Memory, consumed, recv, Release, Control>>

Copied(i) == \A l \in Lanes : out[i][l] # NotCopied

RecvDone(i) ==
    /\ recv[i] = "copy" /\ Copied(i)
    /\ recv' = [recv EXCEPT ![i] = "done"]
    /\ consumed' = [consumed EXCEPT ![SlotOf(i)] = Tag(i)]
    /\ UNCHANGED <<Sender, Thread, Wires, Memory, out, Release, Control>>

RecvQuit(i) ==
    /\ recv[i] = "wait"
    /\ poison["b"] \/ session.timeouts
    /\ recv' = [recv EXCEPT ![i] = "quit"]
    /\ poison' = [poison EXCEPT !["b"] = TRUE]
    /\ UNCHANGED <<Sender, Thread, Wires, Memory, consumed, out, Release, failed, abort>>

-----------------------------------------------------------------------------
(* service_in: the receiver's progress thread.                             *)

ReleaseItem ==
    /\ ~failed["b"] /\ consumed[Slot(released)] = Word(released + 1)
    /\ released' = Word(released + 1)
    /\ UNCHANGED <<Sender, Thread, Wires, Memory, Receiver, credited, Control>>

SendCredit ==
    /\ ~failed["b"] /\ released # credited /\ Len(credits) < Inflight
    /\ credits' = Append(credits, released)
    /\ credited' = released
    /\ UNCHANGED <<Sender, Thread, wire, landed, flags, credit, broken, Memory, Receiver, released, Control>>

-----------------------------------------------------------------------------
(* Failures: progress_main's stops and post_aborts.                        *)

\* Mutant: a thread stops without a notice.
StopSilently(r, down) ==
    /\ failed' = [failed EXCEPT ![r] = TRUE]
    /\ poison' = [poison EXCEPT ![r] = TRUE]
    /\ UNCHANGED abort

\* The thread stops and writes the peer's abort word over lane 0, best effort.
Stop(r, down) ==
    /\ failed' = [failed EXCEPT ![r] = TRUE]
    /\ poison' = [poison EXCEPT ![r] = TRUE]
    /\ abort' = [abort EXCEPT ![Other(r)] = @ \/ 0 \notin down]

\* The abort word or the poison is set.
Notice(r) ==
    /\ ~failed[r] /\ (abort[r] \/ poison[r])
    /\ Stop(r, broken)
    /\ UNCHANGED <<Sender, Thread, Wires, Memory, Receiver, Release>>

Outstanding(r, l) == IF r = "a" THEN wire[l] # <<>> ELSE l = 0 /\ credits # <<>>

\* A write of r completes in error: its queue pair carries nothing more in either direction.
WriteFails(r, l) ==
    /\ ~failed[r] /\ Outstanding(r, l)
    /\ l \in broken \/ Cardinality(broken) < session.faults
    /\ broken' = broken \cup {l}
    /\ Stop(r, broken')
    /\ UNCHANGED <<Sender, Thread, wire, landed, flags, credit, credits, Memory, Receiver, Release>>

-----------------------------------------------------------------------------
SendKernel == \E i \in Used : SendBegin(i) \/ SendReady(i) \/ SendQuit(i)
RecvKernel == \E i \in Used : RecvBegin(i) \/ RecvDone(i) \/ RecvQuit(i) \/ \E l \in Lanes : RecvCopy(i, l)
SendThread ==
    \/ \E l \in Lanes : PostData(l) \/ PostFlag(l) \/ Complete(l)
    \/ PostHeader \/ ReadCredit \/ StoreSent \/ Notice("a")
RecvThread == ReleaseItem \/ SendCredit \/ Notice("b")
Network == LandCredit \/ \E l \in Lanes : Land(l)

Processes == SendKernel \/ RecvKernel \/ SendThread \/ RecvThread \/ Network

Next == Processes \/ \E r \in Ranks, l \in Lanes : WriteFails(r, l)

Spec == Init /\ [][Next]_vars

(***************************************************************************)
(* The GPU runs its resident blocks, the threads poll until they stop, and *)
(* queue pairs that have not failed deliver.  They take finitely many      *)
(* steps in all, so to be fair to each is to be fair to their disjunction. *)
(***************************************************************************)
Fairness == WF_vars(Processes)

FairSpec == Spec /\ Fairness

-----------------------------------------------------------------------------
TypeOK ==
    /\ session \in Sessions
    /\ send \in [Items -> {"none", "wait", "copy", "ready", "quit"}]
    /\ recv \in [Items -> {"none", "wait", "copy", "done", "size", "quit"}]
    /\ sendSlot \in [Places -> Items \cup {Nothing, Torn}]
    /\ desc \in [Places -> Headers] /\ header \in [Places -> Headers]
    /\ ready \in [Places -> Words] /\ consumed \in [Places -> Words]
    /\ {sent, credit, creditSeen, released, credited} \subseteq Words
    /\ laneItem \in [Lanes -> Words] /\ laneDone \in [Lanes -> Words]
    /\ laneBytes \in [Lanes -> Nat] /\ laneHeader \in BOOLEAN
    /\ unacked \in [Lanes -> 0..session.window]
    /\ wire \in [Lanes -> Seq(Writes)] /\ landed \in [Lanes -> Nat] /\ flags \in [Lanes -> Nat]
    /\ \A l \in Lanes : Len(wire[l]) <= Inflight /\ landed[l] <= Len(wire[l])
    /\ credits \in Seq(Words) /\ Len(credits) <= Inflight
    /\ recvSlot \in [Places -> [Lanes -> Seq(Int)]] /\ flag \in [Places -> [Lanes -> Words]]
    /\ out \in [Items -> [Lanes -> Seq(Int)]]
    /\ poison \in [Ranks -> BOOLEAN] /\ failed \in [Ranks -> BOOLEAN] /\ abort \in [Ranks -> BOOLEAN]
    /\ broken \in SUBSET Lanes

(***************************************************************************)
(* The channel implements P2PPipe: every item that a receive completes has *)
(* exactly the bytes its send staged, although both ends reuse their slots *)
(* and every word wraps, and what is staged keeps to two rounds of slots.  *)
(***************************************************************************)
Landed(i) == \A l \in Lanes : flags[l] > i
Whole(i) == IF \A l \in Lanes : out[i][l] = [k \in 1..LaneSplit(SendHeader(i)[1], l) |-> i] THEN i ELSE Torn

Pipe == INSTANCE P2PPipe WITH
    Depth <- Slots,
    staged <- {i \in Items : send[i] = "ready"},
    arrived <- {i \in Items : Landed(i)},
    delivered <- [i \in Items |-> IF recv[i] = "done" THEN Whole(i) ELSE Nothing]

IsAPipe == Pipe!PipeSpec

(***************************************************************************)
(* "a different count fails the group's channels": a receive compares the  *)
(* header of its own item, so it fails exactly when the two ranks disagree *)
(* on it, never because a slot's header word is stale or overwritten.      *)
(***************************************************************************)
SizesCompared ==
    \A i \in Used :
        /\ recv[i] \in {"copy", "done"} => SendHeader(i) = RecvHeader(i)
        /\ recv[i] = "size" => SendHeader(i) # RecvHeader(i)

(***************************************************************************)
(* The forward window is exact: what counts against it is the data writes  *)
(* on the wire that no credit has proved, whichever of the completion and  *)
(* the credit comes first.                                                 *)
(***************************************************************************)
WindowExact ==
    \A l \in Lanes : session.window > 0 =>
        unacked[l] = Cardinality({k \in DOMAIN wire[l] : wire[l][k].kind = "data" /\ ~wire[l][k].proven})

(***************************************************************************)
(* Without timeouts and failures every item arrives: no order of kernels,  *)
(* threads and completions, and no limit in flight, stops the channel.     *)
(***************************************************************************)
Quiet == ~session.timeouts /\ session.faults = 0 /\ session.sends = session.recvs
Delivers == <>(~Quiet \/ \A i \in Used : recv[i] = "done")

(***************************************************************************)
(* A failure on either rank, also one found while nothing limits a wait,   *)
(* ends both: in the end no block waits, and either both contexts are      *)
(* poisoned or neither, unless the queue pair that carries the notice      *)
(* failed.                                                                 *)
(***************************************************************************)
Ended == \A i \in Used : send[i] \in {"ready", "quit"} /\ recv[i] \in {"done", "size", "quit"}
FailsTogether == <>[]((Ended /\ poison["a"] = poison["b"]) \/ 0 \in broken)

(***************************************************************************)
(* "a timeout, a size mismatch or a failed RDMA write poisons the context  *)
(* on every rank of the group" (p2p/session.py), whichever lane fails.  It *)
(* does not hold (README, Observations).                                   *)
(***************************************************************************)
PoisonEverywhere == \A r \in Ranks : poison[r] ~> poison[Other(r)]
==============================================================================
