---------------------------- MODULE ChainAllReduce ----------------------------
(***************************************************************************)
(* The chain all-reduce of SIRCL (_chain_cute.py and the chain part of     *)
(* _roce_proxy.c).  The ranks form a chain of cable neighbours.  A message *)
(* has two halves that travel in opposite directions, each reduced along   *)
(* the chain and its results sent back; this module follows one half, with *)
(* the ranks numbered in the order in which it is summed.  It moves in     *)
(* chunks through rings of slots, one ring per stream.  Three actors share *)
(* the words of a rank's chain area without locks: the blocks of the GPU   *)
(* kernel, the rank's progress thread (the proxy), and the neighbours'     *)
(* RDMA writes.  Counters and tags are machine words that wrap.            *)
(***************************************************************************)
EXTENDS Integers, Sequences, FiniteSets

CONSTANTS
    Slots,      \* slots of a stream's ring (SIRCL_CHAIN_SLOTS)
    Modulus,    \* 2^32: words count modulo it
    OpEntries,  \* ROCE_CHAIN_OPS
    Sessions    \* the sessions explored: records of
                \*   world     the ranks of the chain
                \*   lanes     the queue pairs to a neighbour; a chunk is striped over them
                \*   blocks    the kernel blocks of a role (SIRCL_CHAIN_BLOCKS)
                \*   room      signaled writes in flight to a neighbour on a lane (ROCE_CREDIT - 1)
                \*   ops       the ops, each the number of its chunks, the same on every rank
                \*   timeouts  the ranks that may see a wait time out

Streams == {"partial", "result"}
Other(s) == IF s = "partial" THEN "result" ELSE "partial"
Slot == 0..Slots - 1
Word == 0..Modulus - 1

ASSUME ChainAssumption ==
    /\ Slots \in Nat /\ Slots >= 2
    /\ OpEntries \in Nat /\ OpEntries >= 2
    /\ Modulus \in Nat /\ Modulus % 2 = 0 /\ Modulus % OpEntries = 0 /\ Modulus > 2 * Slots
    /\ \A x \in Sessions :
          /\ x.world \in Nat /\ x.world >= 2 /\ x.timeouts \subseteq 0..x.world - 1
          /\ {x.lanes, x.blocks, x.room} \subseteq Nat \ {0} /\ x.blocks <= Modulus \div 2
          /\ x.ops \in Seq(Nat \ {0})
          /\ \A i \in DOMAIN x.ops : x.ops[i] < Modulus /\ (i > 1 => (OpEntries - 1) * x.ops[i] < Modulus \div 2)

VARIABLES
    session,   \* the session explored
    \* The chain area of every rank.
    recv,      \* [Ranks -> [Streams -> [Slot -> [Lane -> value]]]]: receive slots
    flag,      \* [Ranks -> [Streams -> [Slot -> [Lane -> Word]]]]: tag of the chunk in a receive slot
    send,      \* [Ranks -> [Slot -> [Lane -> value]]]: send slots of the one stream the kernel fills
    ready,     \* [Ranks -> [Slot -> Word]]: tag of the chunk the kernel staged
    finished,  \* [Ranks -> [Streams -> [Slot -> Word]]]: consumed words, tag of the chunk the kernel used
    sent,      \* [Ranks -> Word]: staged chunks whose writes completed
    credit,    \* [Ranks -> [Streams -> Word]]: chunks the downstream neighbour has freed
    doorbell,  \* [Ranks -> Word]
    params,    \* [Ranks -> [{0, 1} -> Nat]]: the sizes of the two newest ops
    \* The proxies.
    last,      \* [Ranks -> Word]: newest op taken
    known,     \* [Ranks -> Word]: chunks of the ops taken
    ops,       \* [Ranks -> [0..OpEntries - 1 -> the first chunk and the chunks of an op]]
    post,      \* [Ranks -> [Streams -> Word]]: next chunk to write downstream
    done,      \* [Ranks -> [Streams -> [Lane -> Word]]]: chunks whose writes completed, per lane
    consumed,  \* [Ranks -> [Streams -> Word]]: inbound chunks the kernel finished, contiguous
    credited,  \* [Ranks -> [Streams -> Word]]: credit last written upstream
    failed,    \* [Ranks -> BOOLEAN]: the progress thread stopped with an error
    wire,      \* [Ranks -> [Ranks -> [Lane -> Seq(write)]]]: writes in flight from a rank to another
    \* The kernels.
    op,        \* [Ranks -> Nat]: ops finished
    base,      \* [Ranks -> Word]: chunks of the ops finished
    running,   \* [Ranks -> BOOLEAN]: a kernel runs op[r] + 1
    at,        \* [Ranks -> [Streams -> [Block -> Nat]]]: a block's chunk of the op
    out,       \* [Ranks -> [chunks of the op -> [Lane -> value]]]: the output tensor
    poison,    \* [Ranks -> BOOLEAN]: a wait timed out
    error      \* [Ranks -> Word]: ERROR_SEQ, the tag a wait timed out on, 0 for none

area == <<recv, flag, send, ready, finished, sent, credit, doorbell, params>>
proxy == <<last, known, ops, post, done, consumed, credited, failed>>
kernel == <<op, base, running, at, out, poison, error>>
vars == <<session, area, proxy, wire, kernel>>

-----------------------------------------------------------------------------
Plus(v, n) == (v + n) % Modulus
Minus(v, w) == (v - w) % Modulus

\* (int32_t)(v - w) < 0
Behind(v, w) == Minus(v, w) >= Modulus \div 2

World == session.world
Ranks == 0..World - 1
Lane == 1..session.lanes
Block == 0..session.blocks - 1
Room == session.room

First(r) == r = 0
Final(r) == r = World - 1

\* Partials go from each rank to the next, results back.
HasIn(r, s) == IF s = "partial" THEN ~First(r) ELSE ~Final(r)
InPeer(r, s) == IF s = "partial" THEN r - 1 ELSE r + 1
OutPeer(r, s) == IF s = "partial" THEN r + 1 ELSE r - 1

\* Who fills a stream's chunks for the proxy to write: the kernel, in send slots, or the
\* neighbour, in receive slots, which the proxy forwards.
OutKind(r, s) ==
    CASE s = "partial" -> IF Final(r) THEN "none" ELSE "kernel"
      [] s = "result"  -> IF First(r) THEN "none" ELSE IF Final(r) THEN "kernel" ELSE "forward"

Sends(r) == {s \in Streams : OutKind(r, s) # "none"}
Receives(r) == {s \in Streams : HasIn(r, s)}

\* Chunk c of op n summed over the first k ranks; other memory is <<>>.
Value(n, c, k) == <<n, c, k>>

Init ==
    /\ session \in Sessions
    /\ recv = [r \in Ranks |-> [s \in Streams |-> [m \in Slot |-> [l \in Lane |-> <<>>]]]]
    /\ flag = [r \in Ranks |-> [s \in Streams |-> [m \in Slot |-> [l \in Lane |-> 0]]]]
    /\ send = [r \in Ranks |-> [m \in Slot |-> [l \in Lane |-> <<>>]]]
    /\ ready = [r \in Ranks |-> [m \in Slot |-> 0]]
    /\ finished = [r \in Ranks |-> [s \in Streams |-> [m \in Slot |-> 0]]]
    /\ sent = [r \in Ranks |-> 0]
    /\ credit = [r \in Ranks |-> [s \in Streams |-> 0]]
    /\ doorbell = [r \in Ranks |-> 0]
    /\ params = [r \in Ranks |-> [i \in {0, 1} |-> 0]]
    /\ last = [r \in Ranks |-> 0]
    /\ known = [r \in Ranks |-> 0]
    /\ ops = [r \in Ranks |-> [i \in 0..OpEntries - 1 |-> [first |-> 0, count |-> 0]]]
    /\ post = [r \in Ranks |-> [s \in Streams |-> 0]]
    /\ done = [r \in Ranks |-> [s \in Streams |-> [l \in Lane |-> 0]]]
    /\ consumed = [r \in Ranks |-> [s \in Streams |-> 0]]
    /\ credited = [r \in Ranks |-> [s \in Streams |-> 0]]
    /\ failed = [r \in Ranks |-> FALSE]
    /\ wire = [r \in Ranks |-> [p \in Ranks |-> [l \in Lane |-> <<>>]]]
    /\ op = [r \in Ranks |-> 0]
    /\ base = [r \in Ranks |-> 0]
    /\ running = [r \in Ranks |-> FALSE]
    /\ at = [r \in Ranks |-> [s \in Streams |-> [b \in Block |-> 0]]]
    /\ out = [r \in Ranks |-> <<>>]
    /\ poison = [r \in Ranks |-> FALSE]
    /\ error = [r \in Ranks |-> 0]

-----------------------------------------------------------------------------
(* The kernel. *)

\* The op a kernel of rank r runs, its sequence number and its chunks.
Op(r) == op[r] + 1
Sequence(r) == Op(r) % Modulus
Chunks(r) == session.ops[Op(r)]

\* A launch reads the counters; its first block publishes the op's size and rings the doorbell.
Launch(r) ==
    /\ ~running[r] /\ ~poison[r] /\ op[r] < Len(session.ops)
    /\ running' = [running EXCEPT ![r] = TRUE]
    /\ at' = [at EXCEPT ![r] = [s \in Streams |-> [b \in Block |-> b]]]
    /\ out' = [out EXCEPT ![r] = [c \in 0..Chunks(r) - 1 |-> [l \in Lane |-> <<>>]]]
    /\ params' = [params EXCEPT ![r][Sequence(r) % 2] = Chunks(r)]
    /\ doorbell' = [doorbell EXCEPT ![r] = Sequence(r)]
    /\ UNCHANGED <<session, recv, flag, send, ready, finished, sent, credit, proxy, wire, op, base, poison,
                   error>>

\* The reduce role fills the ring of partials, or of results at the last rank; a result
\* role runs where results arrive.
Role(r, s) == s = "partial" \/ HasIn(r, s)
Working(r, s, b) == running[r] /\ Role(r, s) /\ at[r][s][b] < Chunks(r)
Global(r, s, b) == Plus(base[r], at[r][s][b])

\* Mutant: the tag is the chunk's index, so that an empty slot passes for chunk 0.
InboundUntagged(r, s, g) == HasIn(r, s) => \A l \in Lane : flag[r][s][g % Slots][l] = g

\* Every lane's flag of the inbound chunk carries its tag ...
Inbound(r, s, g) == HasIn(r, s) => \A l \in Lane : flag[r][s][g % Slots][l] = Plus(g, 1)

\* ... and the send slot's previous chunk was written downstream.
SendSlot(r, s, g) == s = "partial" => ~Behind(sent[r], Minus(Plus(g, 1), Slots))

Waited(r, s, b) == Inbound(r, s, Global(r, s, b)) /\ SendSlot(r, s, Global(r, s, b))

\* A wait lasts longer than the session's limit: _fail records its tag and poisons the session.
Timeout(r, s, b) ==
    /\ r \in session.timeouts
    /\ Working(r, s, b) /\ ~Waited(r, s, b)
    /\ poison' = [poison EXCEPT ![r] = TRUE]
    /\ error' = [error EXCEPT ![r] = Plus(Global(r, s, b), 1)]
    /\ at' = [at EXCEPT ![r][s][b] = Chunks(r)]
    /\ UNCHANGED <<session, area, proxy, wire, op, base, running, out>>

\* In a poisoned session a block whose waits end leaves its loop.
Abandon(r, s, b) ==
    /\ Working(r, s, b) /\ Waited(r, s, b) /\ poison[r]
    /\ at' = [at EXCEPT ![r][s][b] = Chunks(r)]
    /\ UNCHANGED <<session, area, proxy, wire, op, base, running, out, poison, error>>

\* The own values of rank r added to a partial of chunk c; anything but the sum over the
\* ranks before is garbage.
Add(r, c, v) == IF v = Value(Op(r), c, r) THEN Value(Op(r), c, r + 1) ELSE <<>>

\* After its waits a reduce block adds, stages the sum (and stores it, at the last rank) and publishes.
Reduce(r, b) ==
    LET c == at[r]["partial"][b]
        g == Global(r, "partial", b)
        m == g % Slots
        sum == [l \in Lane |-> Add(r, c, IF First(r) THEN Value(Op(r), c, 0) ELSE recv[r]["partial"][m][l])]
    IN /\ Working(r, "partial", b) /\ Waited(r, "partial", b) /\ ~poison[r]
       /\ send' = [send EXCEPT ![r][m] = sum]
       /\ out' = IF Final(r) THEN [out EXCEPT ![r][c] = sum] ELSE out
       /\ finished' = IF First(r) THEN finished ELSE [finished EXCEPT ![r]["partial"][m] = Plus(g, 1)]
       /\ ready' = [ready EXCEPT ![r][m] = Plus(g, 1)]
       /\ at' = [at EXCEPT ![r]["partial"][b] = @ + session.blocks]
       /\ UNCHANGED <<session, recv, flag, sent, credit, doorbell, params, proxy, wire, op, base, running,
                      poison, error>>

\* After its waits a result block copies the inbound chunk to the output.
Copy(r, b) ==
    LET g == Global(r, "result", b)
        m == g % Slots
    IN /\ Working(r, "result", b) /\ Waited(r, "result", b) /\ ~poison[r]
       /\ out' = [out EXCEPT ![r][at[r]["result"][b]] = recv[r]["result"][m]]
       /\ finished' = [finished EXCEPT ![r]["result"][m] = Plus(g, 1)]
       /\ at' = [at EXCEPT ![r]["result"][b] = @ + session.blocks]
       /\ UNCHANGED <<session, recv, flag, send, ready, sent, credit, doorbell, params, proxy, wire, op, base, running,
                      poison, error>>

Arrived(r) == running[r] /\ \A s \in Streams, b \in Block : ~Working(r, s, b)

\* The last block to finish advances the counters unless a wait timed out.
Finish(r) ==
    /\ Arrived(r)
    /\ running' = [running EXCEPT ![r] = FALSE]
    /\ IF error[r] # 0
         THEN UNCHANGED <<op, base>>
         ELSE op' = [op EXCEPT ![r] = @ + 1] /\ base' = [base EXCEPT ![r] = Plus(@, Chunks(r))]
    /\ UNCHANGED <<session, area, proxy, wire, at, out, poison, error>>

-----------------------------------------------------------------------------
(* The proxy.  A pass of chain_service takes the ops whose doorbell rang, posts what can *)
(* be posted, publishes the completions and returns credit, without waiting.            *)

\* Mutant: an op counts as written before its last chunk is.
WrittenPast(r, e) == \A s \in Sends(r) : ~Behind(post[r][s], Plus(e.first, e.count + 1))

\* Op e has no chunk left to write on any stream.
Written(r, e) == \A s \in Sends(r) : ~Behind(post[r][s], Plus(e.first, e.count))

\* The ops taken so far with the next one appended, whose entry must be free.
TakeOp(r, q) ==
    LET next == Plus(q.last, 1)
        size == params[r][next % 2]
        entry == q.ops[next % OpEntries]
    IN [last |-> next, known |-> Plus(q.known, size),
        ops |-> [q.ops EXCEPT ![next % OpEntries] = [first |-> q.known, count |-> size]],
        ok |-> q.ok /\ (entry.count # 0 => Written(r, entry))]

\* chain_take_ops: at most two doorbells may have rung since the last pass.
Taken(r) ==
    LET rung == Minus(doorbell[r], last[r])
        before == [last |-> last[r], known |-> known[r], ops |-> ops[r], ok |-> rung <= 2]
    IN CASE rung = 1 -> TakeOp(r, before)
         [] rung = 2 -> TakeOp(r, TakeOp(r, before))
         [] OTHER -> before

\* Chunk g of stream s is in its slot, whoever fills it.
Filled(r, s, g) ==
    IF OutKind(r, s) = "kernel"
      THEN ready[r][g % Slots] = Plus(g, 1)
      ELSE \A l \in Lane : flag[r][s][g % Slots][l] = Plus(g, 1)

\* The neighbour has freed the slot of chunk g.
Credited(r, s, g) == ~Behind(credit[r][s], Minus(Plus(g, 1), Slots))

\* Mutant: one write too many.
ChainRoomPast(r, p, lanes, n) == \A l \in lanes : Len(wire[r][p][l]) + n <= Room

\* After n more writes to rank p the lanes still have room for one.
ChainRoom(r, p, lanes, n) == \A l \in lanes : Len(wire[r][p][l]) + n < Room

\* How many chunks of stream s can be posted now: as many in a row as are known, filled,
\* credited and find room on every lane.
Postable(r, s, chunks) ==
    LET Can(i) == LET g == Plus(post[r][s], i)
                  IN /\ g # chunks
                     /\ Filled(r, s, g) /\ Credited(r, s, g)
                     /\ ChainRoom(r, OutPeer(r, s), Lane, i)
    IN IF s \in Sends(r)
         THEN CHOOSE n \in 0..Slots : (\A i \in 0..n - 1 : Can(i)) /\ (n = Slots \/ ~Can(n))
         ELSE 0

\* The chunks to post belong to known ops.
Owned(r, s, n, entries) ==
    \A i \in 0..n - 1 : \E e \in DOMAIN entries : Minus(Plus(post[r][s], i), entries[e].first) < entries[e].count

\* The smallest of a stream's lane counters.
Least(d) == CHOOSE v \in {d[l] : l \in Lane} : \A l \in Lane : ~Behind(d[l], v)

\* The inbound chunks in a row that the kernel has finished.
Consumed(r, s) ==
    LET Used(i) == finished[r][s][Plus(consumed[r][s], i) % Slots] = Plus(consumed[r][s], i + 1)
        more == CHOOSE n \in 0..Slots : (\A i \in 0..n - 1 : Used(i)) /\ (n = Slots \/ ~Used(n))
    IN Plus(consumed[r][s], more)

\* Mutant: a forwarded chunk's slot is free as soon as the kernel has used it.
ReleasedConsumed(r, s, d, n) == n

\* Mutant: every stream waits for its chunks to be written on, forwarded or not.
ReleasedWritten(r, s, d, n) == IF Behind(d, n) THEN d ELSE n

\* Of n chunks used and d written on, a forwarded chunk's slot is free when it is both.
Released(r, s, d, n) == IF OutKind(r, s) = "forward" /\ Behind(d, n) THEN d ELSE n

Fail(r) ==
    /\ failed' = [failed EXCEPT ![r] = TRUE]
    /\ UNCHANGED <<session, area, last, known, ops, post, done, consumed, credited, wire, kernel>>

\* The writes of a pass that go the way of stream s: n of its chunks on every lane, then on
\* lane 1 the credit of the stream that comes the other way, if it is paid.
Writes(r, s, n, l, paid, freed) ==
    [i \in 1..n |-> [kind |-> "chunk", stream |-> s, word |-> Plus(post[r][s], i - 1)]]
    \o IF l = 1 /\ paid THEN <<[kind |-> "credit", stream |-> Other(s), word |-> freed]>> ELSE <<>>

\* Toward the next rank go partials and credit for results, toward the one before results
\* and credit for partials.
Service(r) ==
    LET taken == Taken(r)
        partials == Postable(r, "partial", taken.known)
        results == Postable(r, "result", taken.known)
        used == [s \in Streams |-> IF HasIn(r, s) THEN Consumed(r, s) ELSE 0]
        freed == [s \in Streams |-> Released(r, s, Least(done[r][s]), used[s])]
        Paid(s, n) == /\ HasIn(r, s) /\ freed[s] # credited[r][s]
                      /\ ChainRoom(r, InPeer(r, s), {1}, n)
        paidPartial == Paid("partial", results)
        paidResult == Paid("result", partials)
    IN /\ ~failed[r]
       /\ IF taken.ok /\ Owned(r, "partial", partials, taken.ops) /\ Owned(r, "result", results, taken.ops)
            THEN /\ last' = [last EXCEPT ![r] = taken.last]
                 /\ known' = [known EXCEPT ![r] = taken.known]
                 /\ ops' = [ops EXCEPT ![r] = taken.ops]
                 /\ post' = [post EXCEPT ![r] = [partial |-> Plus(@.partial, partials), result |-> Plus(@.result, results)]]
                 /\ sent' = [sent EXCEPT ![r] = Least(done[r][IF Final(r) THEN "result" ELSE "partial"])]
                 /\ consumed' = [consumed EXCEPT ![r] = used]
                 /\ credited' = [credited EXCEPT ![r] = [partial |-> IF paidPartial THEN freed["partial"] ELSE @.partial,
                                                         result |-> IF paidResult THEN freed["result"] ELSE @.result]]
                 /\ wire' = [wire EXCEPT ![r] = [p \in Ranks |-> [l \in Lane |-> @[p][l] \o
                                CASE p = r + 1 -> Writes(r, "partial", partials, l, paidResult, freed["result"])
                                  [] p = r - 1 -> Writes(r, "result", results, l, paidPartial, freed["partial"])
                                  [] OTHER -> <<>>]]]
                 /\ UNCHANGED <<session, recv, flag, send, ready, finished, credit, doorbell, params, done, failed, kernel>>
            ELSE Fail(r)

-----------------------------------------------------------------------------
\* A queue pair performs its writes in order; the source is read only now.
Deliver(r, p, l) ==
    /\ wire[r][p][l] # <<>>
    /\ LET w == Head(wire[r][p][l])
           m == w.word % Slots
       IN IF w.kind = "chunk"
            THEN /\ recv' = [recv EXCEPT ![p][w.stream][m][l] =
                                IF OutKind(r, w.stream) = "kernel" THEN send[r][m][l] ELSE recv[r][w.stream][m][l]]
                 /\ flag' = [flag EXCEPT ![p][w.stream][m][l] = Plus(w.word, 1)]
                 /\ done' = [done EXCEPT ![r][w.stream][l] = Plus(@, 1)]
                 /\ UNCHANGED credit
            ELSE /\ credit' = [credit EXCEPT ![p][w.stream] = w.word]
                 /\ UNCHANGED <<recv, flag, done>>
    /\ wire' = [wire EXCEPT ![r][p][l] = Tail(@)]
    /\ UNCHANGED <<session, send, ready, finished, sent, doorbell, params, last, known, ops, post, consumed, credited, failed,
                   kernel>>

Work(r, s, b) == Abandon(r, s, b) \/ (s = "partial" /\ Reduce(r, b)) \/ (s = "result" /\ Copy(r, b))

\* A step of a kernel, a progress thread or a queue pair.
Progress ==
    \E r \in Ranks :
        \/ Launch(r) \/ Finish(r) \/ Service(r)
        \/ \E s \in Streams, b \in Block : Work(r, s, b)
        \/ \E p \in Ranks, l \in Lane : Deliver(r, p, l)

Next == Progress \/ \E r \in Ranks, s \in Streams, b \in Block : Timeout(r, s, b)

Spec == Init /\ [][Next]_vars

-----------------------------------------------------------------------------
TypeOK ==
    /\ session \in Sessions
    /\ recv \in [Ranks -> [Streams -> [Slot -> [Lane -> Seq(Nat)]]]]
    /\ flag \in [Ranks -> [Streams -> [Slot -> [Lane -> Word]]]]
    /\ send \in [Ranks -> [Slot -> [Lane -> Seq(Nat)]]]
    /\ ready \in [Ranks -> [Slot -> Word]] /\ finished \in [Ranks -> [Streams -> [Slot -> Word]]]
    /\ sent \in [Ranks -> Word] /\ credit \in [Ranks -> [Streams -> Word]]
    /\ doorbell \in [Ranks -> Word] /\ params \in [Ranks -> [{0, 1} -> Nat]]
    /\ last \in [Ranks -> Word] /\ known \in [Ranks -> Word]
    /\ ops \in [Ranks -> [0..OpEntries - 1 -> [first : Word, count : Nat]]]
    /\ post \in [Ranks -> [Streams -> Word]] /\ done \in [Ranks -> [Streams -> [Lane -> Word]]]
    /\ consumed \in [Ranks -> [Streams -> Word]] /\ credited \in [Ranks -> [Streams -> Word]]
    /\ failed \in [Ranks -> BOOLEAN]
    /\ wire \in [Ranks -> [Ranks -> [Lane -> Seq([kind : {"chunk", "credit"}, stream : Streams, word : Word])]]]
    /\ \A r, p \in Ranks, l \in Lane : Len(wire[r][p][l]) <= Room
    /\ op \in [Ranks -> 0..Len(session.ops)] /\ base \in [Ranks -> Word] /\ running \in [Ranks -> BOOLEAN]
    /\ at \in [Ranks -> [Streams -> [Block -> Nat]]]
    /\ \A r \in Ranks : running[r] => out[r] \in [0..Chunks(r) - 1 -> [Lane -> Seq(Nat)]]
    /\ poison \in [Ranks -> BOOLEAN] /\ error \in [Ranks -> Word]

(***************************************************************************)
(* "all ranks hold identical bits" (_chain_cute.py): when the last block   *)
(* of an op that saw no timeout arrives, every chunk of the output is the  *)
(* sum over all ranks of that chunk of that op, on every lane's stripe,    *)
(* whatever slots were reused, forwarded and overwritten on the way.       *)
(***************************************************************************)
ExactSums ==
    \A r \in Ranks : Arrived(r) /\ ~poison[r] =>
        \A c \in 0..Chunks(r) - 1, l \in Lane : out[r][c][l] = Value(Op(r), c, World)

(***************************************************************************)
(* The progress thread's checks never fire: no doorbell is missed, no op   *)
(* entry is replaced while a stream still has its chunks to write, and     *)
(* every chunk belongs to a known op (chain_take_ops, chain_service).      *)
(***************************************************************************)
ProxyNeverFails == \A r \in Ranks : ~failed[r]

\* The ops whose kernel rank r has launched; one that timed out stays begun.
Begun(r) == op[r] + IF running[r] \/ poison[r] THEN 1 ELSE 0

(***************************************************************************)
(* An op ends without a timeout at a rank only when every rank has begun   *)
(* it, so no rank is ever two ops ahead.                                   *)
(***************************************************************************)
Lockstep == \A r, q \in Ranks : ~poison[r] => Begun(q) >= op[r] + IF Arrived(r) THEN 1 ELSE 0

(***************************************************************************)
(* The rings, credits and queue pairs never wait for each other in a       *)
(* circle: without a timeout some kernel, progress thread or queue pair    *)
(* can move until every op has ended on every rank.  An op has finitely    *)
(* many chunks, so it then ends wherever those three keep running.         *)
(***************************************************************************)
NeverStuck ==
    \/ \A r \in Ranks : op[r] = Len(session.ops) /\ ~running[r]
    \/ \E r \in Ranks : poison[r]
    \/ \E r, p \in Ranks, l \in Lane : wire[r][p][l] # <<>>
    \/ ENABLED <<Progress>>_vars
==============================================================================
