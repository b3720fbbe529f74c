------------------------- MODULE ChainAllReduceProofs -------------------------
(***************************************************************************)
(* Proofs about ChainAllReduce for any chain, lanes, blocks, room and      *)
(* ops, however often the words wrap, as long as the slots divide the      *)
(* words.                                                                  *)
(***************************************************************************)
EXTENDS ChainAllReduce, SequenceTheorems, WellFoundedInduction, TLAPS

-----------------------------------------------------------------------------
(* A session x, which no step changes.                                     *)

RanksOf(x) == 0..x.world - 1
LanesOf(x) == 1..x.lanes
BlocksOf(x) == 0..x.blocks - 1

\* Rank r sends stream s on, receives it, forwards it, or has a role in the kernel for it.
Out(x, r, s) == IF s = "partial" THEN r < x.world - 1 ELSE r > 0
In(x, r, s) == IF s = "partial" THEN r > 0 ELSE r < x.world - 1
Forwards(x, r, s) == s = "result" /\ r > 0 /\ r < x.world - 1
Works(x, r, s) == s = "partial" \/ r < x.world - 1

\* The stream whose send slots the kernel fills, and the role that stores the output.
Own(x, r) == IF r = x.world - 1 THEN "result" ELSE "partial"
Stores(x, r) == IF r = x.world - 1 THEN "partial" ELSE "result"

\* The stream that goes from r to its neighbour p.
Toward(r, p) == IF p = r + 1 THEN "partial" ELSE "result"

\* The chunks of the first n ops.
Sums(e, sizes) == e[0] = 0 /\ \A n \in 1..Len(sizes) : e[n] = e[n - 1] + sizes[n]
Total(x) == CHOOSE e \in [0..Len(x.ops) -> Nat] : Sums(e, x.ops)

(***************************************************************************)
(* The counters h that the words stand for, unbounded: b ops launched and  *)
(* t taken, p chunks posted, d written on each lane, c used in a row, k    *)
(* freed and f known to be freed, n known to be sent; the chunks u that a  *)
(* role has used, and the numbers w on the wires.                          *)
(***************************************************************************)
Counters(x) ==
    [b : [RanksOf(x) -> Nat], t : [RanksOf(x) -> Nat],
     p : [RanksOf(x) -> [Streams -> Nat]], d : [RanksOf(x) -> [Streams -> [LanesOf(x) -> Nat]]],
     c : [RanksOf(x) -> [Streams -> Nat]], k : [RanksOf(x) -> [Streams -> Nat]],
     f : [RanksOf(x) -> [Streams -> Nat]], n : [RanksOf(x) -> Nat],
     u : [RanksOf(x) -> [Streams -> SUBSET Nat]],
     w : [RanksOf(x) -> [RanksOf(x) -> [LanesOf(x) -> Seq(Nat)]]]]

Wrap(a) == a % Modulus

\* The slots repeat where the words wrap, as with a power of two.
Aligned == Modulus % Slots = 0

-----------------------------------------------------------------------------
(* The inductive invariant.                                                *)

Typed(x) ==
    /\ recv \in [RanksOf(x) -> [Streams -> [Slot -> [LanesOf(x) -> Seq(Nat)]]]]
    /\ flag \in [RanksOf(x) -> [Streams -> [Slot -> [LanesOf(x) -> Word]]]]
    /\ send \in [RanksOf(x) -> [Slot -> [LanesOf(x) -> Seq(Nat)]]]
    /\ ready \in [RanksOf(x) -> [Slot -> Word]] /\ finished \in [RanksOf(x) -> [Streams -> [Slot -> Word]]]
    /\ sent \in [RanksOf(x) -> Word] /\ credit \in [RanksOf(x) -> [Streams -> Word]]
    /\ doorbell \in [RanksOf(x) -> Word] /\ params \in [RanksOf(x) -> [{0, 1} -> Nat]]
    /\ last \in [RanksOf(x) -> Word] /\ known \in [RanksOf(x) -> Word]
    /\ ops \in [RanksOf(x) -> [0..OpEntries - 1 -> [first : Word, count : Nat]]]
    /\ post \in [RanksOf(x) -> [Streams -> Word]] /\ done \in [RanksOf(x) -> [Streams -> [LanesOf(x) -> Word]]]
    /\ consumed \in [RanksOf(x) -> [Streams -> Word]] /\ credited \in [RanksOf(x) -> [Streams -> Word]]
    /\ failed \in [RanksOf(x) -> BOOLEAN]
    /\ wire \in [RanksOf(x) -> [RanksOf(x) ->
                    [LanesOf(x) -> Seq([kind : {"chunk", "credit"}, stream : Streams, word : Word])]]]
    /\ op \in [RanksOf(x) -> 0..Len(x.ops)] /\ base \in [RanksOf(x) -> Word] /\ running \in [RanksOf(x) -> BOOLEAN]
    /\ at \in [RanksOf(x) -> [Streams -> [BlocksOf(x) -> Nat]]]
    /\ out = [r \in RanksOf(x) |-> out[r]]
    /\ \A r \in RanksOf(x) : running[r] =>
          op[r] < Len(x.ops) /\ out[r] \in [0..x.ops[op[r] + 1] - 1 -> [LanesOf(x) -> Seq(Nat)]]
    /\ poison \in [RanksOf(x) -> BOOLEAN] /\ error \in [RanksOf(x) -> Word]

\* The words are those of the counters.
Counted(x, h) ==
    \A r \in RanksOf(x) :
        /\ doorbell[r] = Wrap(h.b[r]) /\ last[r] = Wrap(h.t[r]) /\ known[r] = Wrap(Total(x)[h.t[r]])
        /\ sent[r] = Wrap(h.n[r])
        /\ \A s \in Streams :
              /\ post[r][s] = Wrap(h.p[r][s]) /\ consumed[r][s] = Wrap(h.c[r][s])
              /\ credited[r][s] = Wrap(h.k[r][s]) /\ credit[r][s] = Wrap(h.f[r][s])
              /\ \A l \in LanesOf(x) : done[r][s][l] = Wrap(h.d[r][s][l])

\* The table of ops when t of them were taken.
Table(x, e, t) ==
    /\ e \in [0..OpEntries - 1 -> [first : Word, count : Nat]]
    /\ \A n \in 1..t : n > t - OpEntries =>
          e[n % OpEntries].first = Wrap(Total(x)[n - 1]) /\ e[n % OpEntries].count = x.ops[n]
    /\ \A i \in 0..OpEntries - 1 : (\A n \in 1..t : n % OpEntries # i) => e[i].count = 0

\* The ops launched and taken; no rank is two ops ahead.
Begins(x, h) ==
    \A r \in RanksOf(x) :
        /\ h.t[r] <= h.b[r] /\ h.b[r] <= Len(x.ops)
        /\ \A q \in RanksOf(x) : h.b[r] <= h.b[q] + 1
        /\ base[r] = Wrap(Total(x)[op[r]])
        /\ h.b[r] <= Begun(r)
        /\ Table(x, ops[r], h.t[r])
        /\ \A n \in 1..h.b[r] : n >= h.b[r] - 1 => params[r][n % 2] = x.ops[n]
        /\ ~failed[r]

\* The chunks a role has used: all of the ops before the newest, and of that one those its blocks are past.
Used(x, h) ==
    \A r \in RanksOf(x) :
        /\ ~poison[r] => error[r] = 0 /\ h.b[r] = Begun(r)
        /\ \A s \in Streams : \A g \in h.u[r][s] : g < Total(x)[h.b[r]]
        /\ \A s \in Streams : Works(x, r, s) =>
             /\ \A n \in 1..h.b[r], g \in Nat : g < Total(x)[n - 1] => g \in h.u[r][s]
             /\ ~poison[r] /\ ~running[r] => \A g \in Nat : g < Total(x)[op[r]] => g \in h.u[r][s]
             /\ ~poison[r] /\ running[r] =>
                  /\ \A b \in BlocksOf(x) : at[r][s][b] % x.blocks = b
                  /\ \A c \in 0..x.ops[op[r] + 1] - 1 :
                        Total(x)[op[r]] + c \in h.u[r][s] <=> c < at[r][s][c % x.blocks]

\* The order of the counters of a stream s, at its sender r, ...
OutOrder(x, h, r, s) ==
    /\ h.p[r][s] <= Total(x)[h.t[r]]
    /\ h.p[r][s] <= h.f[r][s] + Slots
    /\ h.f[r][s] <= h.k[OutPeer(r, s)][s]
    /\ \A l \in LanesOf(x) : h.d[r][s][l] <= h.p[r][s]
    /\ s = Own(x, r) => \A g \in Nat : g < h.p[r][s] => g \in h.u[r]["partial"]
    /\ Forwards(x, r, s) =>
          \A l \in LanesOf(x) : h.p[r][s] <= h.d[InPeer(r, s)][s][l] /\ h.k[r][s] <= h.d[r][s][l]

\* ... at its receiver ...
InOrder(x, h, r, s) ==
    /\ h.k[r][s] <= h.c[r][s]
    /\ \A g \in Nat : g < h.c[r][s] => g \in h.u[r][s]
    /\ \A g \in h.u[r][s], l \in LanesOf(x) : g < h.d[InPeer(r, s)][s][l]
    /\ \A l \in LanesOf(x) : h.c[r][s] <= h.d[InPeer(r, s)][s][l]

\* ... and in the send slots.
SendOrder(x, h, r) ==
    /\ \A l \in LanesOf(x) : h.n[r] <= h.d[r][Own(x, r)][l]
    /\ \A g \in h.u[r]["partial"] : g < h.n[r] + Slots

Ordered(x, h) ==
    \A r \in RanksOf(x) :
        /\ \A s \in Streams : (Out(x, r, s) => OutOrder(x, h, r, s)) /\ (In(x, r, s) => InOrder(x, h, r, s))
        /\ SendOrder(x, h, r)

\* What a rank late in the chain has posted, those before it had posted.
Along(x, h) ==
    /\ \A r, q \in RanksOf(x) : r <= q /\ q < x.world - 1 => h.p[q]["partial"] <= h.p[r]["partial"]
    /\ \A r, q \in RanksOf(x) : r <= q /\ r > 0 => h.p[r]["result"] <= h.p[q]["result"]
    /\ \A r, q \in RanksOf(x) : r > 0 /\ q < x.world - 1 => h.p[r]["result"] <= h.p[q]["partial"]

\* A write from r to p is that of number y: a chunk not written yet, or a credit not known yet.
ChunkWrite(r, p, v, y, d, a) ==
    v = [kind |-> "chunk", stream |-> Toward(r, p), word |-> Wrap(y)] /\ d <= y /\ y < a
CreditWrite(r, p, l, v, y, f, k) ==
    v = [kind |-> "credit", stream |-> Other(Toward(r, p)), word |-> Wrap(y)] /\ l = 1 /\ f <= y /\ y <= k

\* A wire v with the numbers y carries the chunks from d to a and credits between f and k, in order.
Carries(x, r, p, l, v, y, d, a, f, k) ==
    /\ Len(v) = Len(y) /\ Len(v) <= x.room
    /\ p \notin {r - 1, r + 1} => Len(v) = 0
    /\ \A i \in 1..Len(y) : ChunkWrite(r, p, v[i], y[i], d, a) \/ CreditWrite(r, p, l, v[i], y[i], f, k)
    /\ \A i, j \in 1..Len(y) : i < j /\ v[i].kind = "chunk" /\ v[j].kind = "chunk" => y[i] < y[j]
    /\ \A i, j \in 1..Len(y) : i < j /\ v[i].kind = "credit" /\ v[j].kind = "credit" => y[i] <= y[j]
    /\ p \in {r - 1, r + 1} =>
          \A g \in Nat : d <= g /\ g < a => \E i \in 1..Len(y) : v[i].kind = "chunk" /\ y[i] = g

Wired(x, h) ==
    \A r, p \in RanksOf(x), l \in LanesOf(x) :
        Carries(x, r, p, l, wire[r][p][l], h.w[r][p][l], h.d[r][Toward(r, p)][l], h.p[r][Toward(r, p)],
                h.f[p][Other(Toward(r, p))], h.k[r][Other(Toward(r, p))])

\* The flags of the receive slots with d chunks written.
FlagsOf(a, l, d) ==
    /\ \A g \in Nat : d <= g + Slots /\ g < d => a[g % Slots][l] = Wrap(g + 1)
    /\ \A m \in Slot : d <= m => a[m][l] = 0

Flagged(x, h) ==
    \A r \in RanksOf(x), s \in Streams, l \in LanesOf(x) :
        In(x, r, s) => FlagsOf(flag[r][s], l, h.d[InPeer(r, s)][s][l])

\* The words a of a ring's slots are those of the newest chunks of u.
Newest(a, u) ==
    /\ \A g \in u : g + Slots \notin u => a[g % Slots] = Wrap(g + 1)
    /\ \A m \in Slot : m \notin u => a[m] = 0

Marked(x, h) ==
    \A r \in RanksOf(x) :
        /\ \A s \in Streams : In(x, r, s) => Newest(finished[r][s], h.u[r][s])
        /\ Newest(ready[r], h.u[r]["partial"])

\* Chunk c of op n, with number g: the receive slots hold it as it was sent, ...
RecvHolds(x, a, d, r, s, n, c, l, g) ==
    d <= g + Slots /\ g < d => a[g % Slots][l] = Value(n, c, IF s = "partial" THEN r ELSE x.world)

\* ... the send slots with the rank's own values, ...
SendHolds(a, u, r, n, c, l, g) == g \in u /\ g + Slots \notin u => a[g % Slots][l] = Value(n, c, r + 1)

\* ... and the output as the sum over all ranks, from when its role has used it.
OutHolds(x, a, u, n, c, l, g) == g \in u => a[c][l] = Value(n, c, x.world)

Valued(x, h) ==
    \A r \in RanksOf(x), n \in 1..Len(x.ops) : \A c \in 0..x.ops[n] - 1, l \in LanesOf(x) :
        /\ \A s \in Streams :
              In(x, r, s) => RecvHolds(x, recv[r][s], h.d[InPeer(r, s)][s][l], r, s, n, c, l, Total(x)[n - 1] + c)
        /\ SendHolds(send[r], h.u[r]["partial"], r, n, c, l, Total(x)[n - 1] + c)
        /\ ~poison[r] /\ running[r] /\ n = op[r] + 1 =>
              OutHolds(x, out[r], h.u[r][Stores(x, r)], n, c, l, Total(x)[n - 1] + c)

Body(x, h) ==
    /\ Typed(x) /\ Counted(x, h) /\ Begins(x, h) /\ Used(x, h) /\ Ordered(x, h) /\ Along(x, h)
    /\ Wired(x, h) /\ Flagged(x, h) /\ Marked(x, h) /\ Valued(x, h)

Inv == \E x \in Sessions : session = x /\ \E h \in Counters(x) : Body(x, h)

-----------------------------------------------------------------------------
(* Numbers.                                                                *)

\* Division with remainder.
LEMMA Division ==
    ASSUME NEW w \in Nat \ {0}, NEW n \in Int
    PROVE  \E q \in Int, r \in 0..(w - 1) : r = n % w /\ n = w * q + r
<1>1. n \div w \in Int /\ n % w \in 0..(w - 1) /\ n = w * (n \div w) + (n % w)
  BY Z3
<1> QED
  BY <1>1, Zenon

\* The only multiple of w within w of 0 is 0.
LEMMA Multiples ==
    ASSUME NEW w \in Nat \ {0}, NEW q \in Int, -w < w * q, w * q < w
    PROVE  q = 0
<1>1. q >= 1 => w * q >= w
  BY Z3
<1>2. q <= -1 => w * q <= -w
  BY Z3
<1> QED
  BY <1>1, <1>2

\* A remainder is the only number of its kind in 0..w-1.
LEMMA Remainder ==
    ASSUME NEW w \in Nat \ {0}, NEW n \in Int, NEW q \in Int, NEW r \in 0..(w - 1), n = w * q + r
    PROVE  n % w = r
<1>1. PICK p \in Int, t \in 0..(w - 1) : t = n % w /\ n = w * p + t
  BY Division, Zenon
<1>2. w * (p - q) = w * p - w * q /\ w * p \in Int /\ w * q \in Int
  BY Z3
<1>3. -w < w * (p - q) /\ w * (p - q) < w
  BY <1>1, <1>2
<1>4. p - q = 0
  BY <1>3, Multiples
<1> QED
  BY <1>1, <1>4

\* Adding multiples of w changes no remainder.
LEMMA Turns ==
    ASSUME NEW w \in Nat \ {0}, NEW m \in Int, NEW n \in Int, NEW q \in Int, m = n + w * q
    PROVE  m % w = n % w
<1>1. PICK p \in Int, r \in 0..(w - 1) : r = n % w /\ n = w * p + r
  BY Division, Zenon
<1>2. w * (p + q) = w * p + w * q /\ w * p \in Int /\ w * q \in Int /\ p + q \in Int
  BY Z3
<1>3. m = w * (p + q) + r
  BY <1>1, <1>2
<1>4. m % w = r
  BY <1>2, <1>3, Remainder, Zenon
<1> QED
  BY <1>1, <1>4

\* A remainder may be taken before or after an addition.
LEMMA Shift ==
    ASSUME NEW w \in Nat \ {0}, NEW n \in Int, NEW c \in Int
    PROVE  ((n % w) + c) % w = (n + c) % w
<1>1. PICK p \in Int, r \in 0..(w - 1) : r = n % w /\ n = w * p + r
  BY Division, Zenon
<1>2. w * (-p) = -(w * p) /\ w * p \in Int /\ -p \in Int /\ r + c \in Int /\ n + c \in Int
  BY Z3
<1>3. r + c = (n + c) + w * (-p)
  BY <1>1, <1>2
<1>4. (r + c) % w = (n + c) % w
  BY <1>2, <1>3, Turns, Zenon
<1> QED
  BY <1>1, <1>4

\* A remainder by a multiple of w determines the one by w.
LEMMA Nested ==
    ASSUME NEW w \in Nat \ {0}, NEW f \in Nat \ {0}, NEW v \in Nat \ {0}, v = w * f, NEW n \in Int
    PROVE  (n % v) % w = n % w
<1>1. PICK p \in Int, r \in 0..(v - 1) : r = n % v /\ n = v * p + r
  BY Division, Zenon
<1>2. w * (-(f * p)) = -((w * f) * p) /\ -(f * p) \in Int /\ (w * f) * p \in Int
  BY Z3
<1>3. r \in Int /\ r = n + w * (-(f * p))
  BY <1>1, <1>2
<1>4. r % w = n % w
  BY <1>2, <1>3, Turns, Zenon
<1> QED
  BY <1>1, <1>4

\* Two numbers of one remainder are equal or w apart.
LEMMA Congruent ==
    ASSUME NEW w \in Nat \ {0}, NEW m \in Int, NEW n \in Int, m % w = n % w, -w < m - n, m - n < w
    PROVE  m = n
<1>1. PICK p \in Int, r \in 0..(w - 1) : r = m % w /\ m = w * p + r
  BY Division, Zenon
<1>2. PICK q \in Int, t \in 0..(w - 1) : t = n % w /\ n = w * q + t
  BY Division, Zenon
<1>3. w * (p - q) = w * p - w * q /\ w * p \in Int /\ w * q \in Int
  BY Z3
<1>4. m = w * p + r /\ n = w * q + r
  BY <1>1, <1>2
<1>5. m - n = w * (p - q)
  BY <1>3, <1>4
<1>6. p - q = 0
  BY <1>5, Multiples
<1> QED
  BY <1>4, <1>6

\* No remainder: a factor.
LEMMA Factor ==
    ASSUME NEW w \in Nat \ {0}, NEW v \in Nat \ {0}, v % w = 0
    PROVE  \E f \in Nat \ {0} : v = w * f
<1>1. PICK q \in Int, r \in 0..(w - 1) : r = v % w /\ v = w * q + r
  <2>1. v \in Int
    OBVIOUS
  <2> QED
    BY <2>1, Division
<1>2. v = w * q + 0 /\ w * q \in Int
  <2>1. r = 0
    BY <1>1, Zenon
  <2> QED
    BY <1>1, <2>1, Z3
<1>3. q <= 0 => w * q <= 0
  BY Z3
<1>4. v = w * q /\ q \in Nat \ {0}
  BY <1>2, <1>3
<1> QED
  BY <1>4, Zenon

\* Every set of numbers has a smallest one.
LEMMA Smallest ==
    ASSUME NEW S \in SUBSET Nat, S # {}
    PROVE  \E m \in S : \A k \in S : m <= k
<1>1. \E m \in S : \A k \in S : ~(<<k, m>> \in OpToRel(<, Nat))
  BY NatLessThanWellFounded, WFMin
<1>2. \A k, m \in Nat : k < m => <<k, m>> \in OpToRel(<, Nat)
  BY DEF OpToRel
<1>3. \E m \in S : \A k \in S : ~(k < m)
  <2>1. \A k \in S : k \in Nat
    OBVIOUS
  <2> QED
    BY <1>1, <1>2, <2>1, Zenon
<1> QED
  BY <1>3

\* How many numbers from 0 on are in S, up to a.
LEMMA Run ==
    ASSUME NEW a \in Nat, NEW S
    PROVE  \E n \in 0..a : (\A i \in 0..n - 1 : i \in S) /\ (n = a \/ n \notin S)
<1> DEFINE T == {i \in 0..a : i \notin S \/ i = a}
<1>1. T \in SUBSET Nat /\ a \in T
  OBVIOUS
<1>2. PICK n \in T : \A k \in T : n <= k
  <2> HIDE DEF T
  <2> QED
    BY <1>1, Smallest
<1>3. n \in 0..a /\ (n = a \/ n \notin S)
  BY <1>2
<1>4. \A i \in 0..n - 1 : i \in S
  BY <1>2, <1>3
<1> QED
  BY <1>3, <1>4

\* The chunks of the first ops can be summed.
LEMMA SumsExist ==
    ASSUME NEW x \in Seq(Nat \ {0})
    PROVE  \E e \in [0..Len(x) -> Nat] : Sums(e, x)
<1> DEFINE Upto(k) == \E e \in [0..k -> Nat] : e[0] = 0 /\ \A n \in 1..k : e[n] = e[n - 1] + x[n]
<1> DEFINE T == {k \in 0..Len(x) : ~Upto(k)}
<1>1. Len(x) \in Nat
  OBVIOUS
<1>2. CASE T = {}
  <2>1. Upto(Len(x))
    <3>1. Len(x) \in 0..Len(x)
      BY <1>1
    <3> HIDE DEF Upto
    <3> QED
      BY <3>1, <1>2, Zenon
  <2> QED
    BY <2>1 DEF Sums
<1>3. CASE T # {}
  <2>1. PICK k \in T : \A j \in T : k <= j
    <3>1. T \in SUBSET Nat
      BY <1>1
    <3> HIDE DEF T
    <3> QED
      BY <1>3, <3>1, Smallest
  <2>2. k \in 0..Len(x) /\ ~Upto(k)
    OBVIOUS
  <2>3. Upto(0)
    <3>1. [i \in 0..0 |-> 0] \in [0..0 -> Nat] /\ [i \in 0..0 |-> 0][0] = 0
      OBVIOUS
    <3>2. 1..0 = {}
      OBVIOUS
    <3> QED
      BY <3>1, <3>2
  <2>4. k - 1 \in 0..Len(x) /\ Upto(k - 1)
    <3>1. k # 0
      BY <2>2, <2>3
    <3>2. k - 1 \in 0..Len(x) /\ ~(k <= k - 1)
      BY <2>2, <3>1, <1>1
    <3>3. k - 1 \notin T
      BY <2>1, <3>2
    <3> QED
      BY <3>2, <3>3
  <2>5. PICK e \in [0..k - 1 -> Nat] : e[0] = 0 /\ \A n \in 1..k - 1 : e[n] = e[n - 1] + x[n]
    BY <2>4
  <2> DEFINE f == [i \in 0..k |-> IF i = k THEN e[k - 1] + x[k] ELSE e[i]]
  <2>6. f \in [0..k -> Nat]
    BY <1>1, <2>2, <2>4
  <2>7. f[0] = 0 /\ \A n \in 1..k : f[n] = f[n - 1] + x[n]
    BY <1>1, <2>2, <2>4, <2>5, SMTT(60)
  <2>8. Upto(k)
    BY <2>6, <2>7
  <2> QED
    BY <2>2, <2>8
<1> QED
  BY <1>2, <1>3

-----------------------------------------------------------------------------
(* Words.                                                                  *)

\* The constants, as numbers.
LEMMA Sizes ==
    /\ Slots \in Nat \ {0} /\ Slots >= 2 /\ Modulus \in Nat \ {0} /\ Modulus > 2 * Slots
    /\ OpEntries \in Nat \ {0} /\ OpEntries >= 2
    /\ Modulus \div 2 \in Nat /\ Modulus = 2 * (Modulus \div 2) /\ Slots < Modulus \div 2
    /\ \E f \in Nat \ {0} : Modulus = 2 * f
    /\ \E f \in Nat \ {0} : Modulus = OpEntries * f
<1>1. /\ Slots \in Nat \ {0} /\ Slots >= 2 /\ Modulus \in Nat \ {0} /\ Modulus > 2 * Slots
      /\ OpEntries \in Nat \ {0} /\ OpEntries >= 2 /\ Modulus % 2 = 0 /\ Modulus % OpEntries = 0
  BY ChainAssumption
<1>2. /\ Modulus \div 2 \in Nat /\ Modulus = 2 * (Modulus \div 2) /\ Slots < Modulus \div 2
  BY <1>1
<1>3. \E f \in Nat \ {0} : Modulus = OpEntries * f
  BY <1>1, Factor, ZenonT(60)
<1> QED
  BY <1>1, <1>2, <1>3

\* Words added to and subtracted from.
LEMMA Wraps ==
    ASSUME NEW a \in Int, NEW b \in Int
    PROVE  /\ Wrap(a) \in Word /\ Wrap(a) \in Nat
           /\ Plus(Wrap(a), b) = Wrap(a + b) /\ Minus(Wrap(a), b) = Wrap(a - b)
           /\ Minus(Wrap(a), Wrap(b)) = Wrap(a - b)
           /\ 0 <= a /\ a < Modulus => Wrap(a) = a
<1>1. Modulus \in Nat \ {0} /\ -b \in Int /\ a - b \in Int /\ a - b = a + (-b)
  BY Sizes
<1>2. PICK p \in Int, r \in 0..(Modulus - 1) : r = a % Modulus /\ a = Modulus * p + r
  BY <1>1, Division, Zenon
<1>3. PICK q \in Int, t \in 0..(Modulus - 1) : t = b % Modulus /\ b = Modulus * q + t
  BY <1>1, Division, Zenon
<1>4. ((a % Modulus) + b) % Modulus = (a + b) % Modulus
  BY <1>1, Shift, Zenon
<1>5. ((a % Modulus) - b) % Modulus = (a - b) % Modulus
  <2>1. ((a % Modulus) + (-b)) % Modulus = (a + (-b)) % Modulus
    BY <1>1, Shift, Zenon
  <2>2. (a % Modulus) + (-b) = (a % Modulus) - b
    BY <1>1, <1>2
  <2> QED
    BY <1>1, <2>1, <2>2
<1>6. ((a % Modulus) - (b % Modulus)) % Modulus = (a - b) % Modulus
  <2>1. /\ Modulus * p \in Int /\ Modulus * q \in Int /\ q - p \in Int
        /\ Modulus * (q - p) = Modulus * q - Modulus * p
    BY <1>1, Z3
  <2>2. r - t = (a - b) + Modulus * (q - p) /\ r - t \in Int
    BY <1>1, <1>2, <1>3, <2>1
  <2>3. (r - t) % Modulus = (a - b) % Modulus
    BY <1>1, <2>1, <2>2, Turns, Zenon
  <2> QED
    BY <1>2, <1>3, <2>3
<1>7. 0 <= a /\ a < Modulus => a % Modulus = a
  <2> SUFFICES ASSUME 0 <= a, a < Modulus PROVE a % Modulus = a
    OBVIOUS
  <2>1. a = Modulus * 0 + a /\ a \in 0..(Modulus - 1) /\ 0 \in Int
    BY <1>1
  <2> QED
    BY <1>1, <2>1, Remainder, Zenon
<1>8. Wrap(a) \in Word /\ Wrap(a) \in Nat
  BY <1>1, <1>2 DEF Wrap, Word
<1> QED
  BY <1>4, <1>5, <1>6, <1>7, <1>8 DEF Wrap, Plus, Minus

\* Numbers less than the words apart have words of their own.
LEMMA WrapsApart ==
    ASSUME NEW a \in Int, NEW b \in Int, Wrap(a) = Wrap(b), -Modulus < a - b, a - b < Modulus
    PROVE  a = b
  BY Sizes, Congruent DEF Wrap

\* Comparisons of words are those of the numbers, unless these are half the words apart.
LEMMA Compares ==
    ASSUME NEW a \in Int, NEW b \in Int, -(Modulus \div 2) <= a - b, a - b < Modulus \div 2
    PROVE  Behind(Wrap(a), Wrap(b)) <=> a < b
<1>1. Modulus \in Nat \ {0} /\ Modulus \div 2 \in Nat /\ Modulus = 2 * (Modulus \div 2) /\ a - b \in Int
  BY Sizes
<1>2. Minus(Wrap(a), Wrap(b)) = (a - b) % Modulus
  BY Wraps DEF Wrap
<1>3. CASE a >= b
  <2>1. a - b = Modulus * 0 + (a - b) /\ a - b \in 0..(Modulus - 1) /\ 0 \in Int
    BY <1>1, <1>3
  <2>2. (a - b) % Modulus = a - b
    BY <1>1, <2>1, Remainder, Zenon
  <2> QED
    BY <1>1, <1>2, <1>3, <2>2 DEF Behind
<1>4. CASE a < b
  <2>1. a - b = Modulus * (-1) + (a - b + Modulus) /\ a - b + Modulus \in 0..(Modulus - 1) /\ -1 \in Int
    BY <1>1, <1>4
  <2>2. (a - b) % Modulus = a - b + Modulus
    BY <1>1, <2>1, Remainder, Zenon
  <2> QED
    BY <1>1, <1>2, <1>4, <2>2 DEF Behind
<1> QED
  BY <1>3, <1>4

\* Slots repeat after a round and differ within it.
LEMMA Places ==
    ASSUME NEW a \in Int
    PROVE  /\ a % Slots \in Slot /\ a % Slots \in Nat /\ (a + Slots) % Slots = a % Slots
           /\ \A b \in Int : a % Slots = b % Slots /\ -Slots < a - b /\ a - b < Slots => a = b
           /\ 0 <= a /\ a < Slots => a % Slots = a
<1>1. Slots \in Nat \ {0} /\ a + Slots = a + Slots * 1 /\ a + Slots \in Int /\ 1 \in Int /\ 0 \in Int
  BY Sizes
<1>2. a % Slots \in 0..(Slots - 1)
  BY <1>1, Division, Zenon
<1>3. (a + Slots) % Slots = a % Slots
  BY <1>1, Turns, Zenon
<1>4. \A b \in Int : a % Slots = b % Slots /\ -Slots < a - b /\ a - b < Slots => a = b
  BY <1>1, Congruent
<1>5. 0 <= a /\ a < Slots => a % Slots = a
  <2> SUFFICES ASSUME 0 <= a, a < Slots PROVE a % Slots = a
    OBVIOUS
  <2>1. a = Slots * 0 + a /\ a \in 0..(Slots - 1)
    BY <1>1
  <2> QED
    BY <1>1, <2>1, Remainder, Zenon
<1> QED
  BY <1>1, <1>2, <1>3, <1>4, <1>5 DEF Slot

\* A word has the slot of its number.
LEMMA PlaceOfWord ==
    ASSUME Aligned, NEW a \in Int
    PROVE  Wrap(a) % Slots = a % Slots
<1>1. Slots \in Nat \ {0} /\ Modulus \in Nat \ {0}
  BY Sizes
<1>2. Modulus % Slots = 0
  BY DEF Aligned
<1>3. \E f \in Nat \ {0} : Modulus = Slots * f
  BY <1>1, <1>2, Factor
<1>4. PICK f \in Nat \ {0} : Modulus = Slots * f
  BY <1>3
<1>5. (a % Modulus) % Slots = a % Slots
  BY <1>1, <1>4, Nested, Zenon
<1> QED
  BY <1>5 DEF Wrap

\* The parity of a word, and the entry of the table of ops for it.
LEMMA Entries ==
    ASSUME NEW a \in Int
    PROVE  /\ Wrap(a) % 2 = a % 2 /\ a % 2 \in {0, 1} /\ (a + 1) % 2 # a % 2
           /\ Wrap(a) % OpEntries = a % OpEntries /\ a % OpEntries \in 0..OpEntries - 1
           /\ (a + OpEntries) % OpEntries = a % OpEntries
           /\ \A b \in Int : a % OpEntries = b % OpEntries /\ -OpEntries < a - b /\ a - b < OpEntries => a = b
<1>1. Modulus \in Nat \ {0} /\ OpEntries \in Nat \ {0} /\ 2 \in Nat \ {0} /\ a + OpEntries = a + OpEntries * 1
      /\ a + OpEntries \in Int /\ 1 \in Int
  BY Sizes
<1>2. PICK f \in Nat \ {0} : Modulus = 2 * f
  BY Sizes
<1>3. PICK f2 \in Nat \ {0} : Modulus = OpEntries * f2
  BY Sizes
<1>4. Wrap(a) % 2 = a % 2
  BY <1>1, <1>2, Nested, Zenon DEF Wrap
<1>5. Wrap(a) % OpEntries = a % OpEntries
  BY <1>1, <1>3, Nested, Zenon DEF Wrap
<1>6. a % 2 \in {0, 1} /\ (a + 1) % 2 # a % 2
  OBVIOUS
<1>7. a % OpEntries \in 0..(OpEntries - 1)
  BY <1>1, Division, ZenonT(60)
<1>8. (a + OpEntries) % OpEntries = a % OpEntries
  BY <1>1, Turns, Zenon
<1>9. \A b \in Int : a % OpEntries = b % OpEntries /\ -OpEntries < a - b /\ a - b < OpEntries => a = b
  BY <1>1, Congruent
<1> QED
  BY <1>4, <1>5, <1>6, <1>7, <1>8, <1>9

-----------------------------------------------------------------------------
(* Sessions.                                                               *)

\* What a session is.
LEMMA SessionIs ==
    ASSUME NEW x \in Sessions
    PROVE  /\ x.world \in Nat /\ x.world >= 2 /\ x.lanes \in Nat \ {0} /\ x.blocks \in Nat \ {0} /\ x.room \in Nat \ {0}
           /\ x.blocks <= Modulus \div 2 /\ x.ops \in Seq(Nat \ {0}) /\ Len(x.ops) \in Nat
           /\ \A i \in 1..Len(x.ops) : x.ops[i] \in Nat \ {0} /\ x.ops[i] < Modulus
           /\ \A i \in 2..Len(x.ops) : (OpEntries - 1) * x.ops[i] < Modulus \div 2
           /\ 1 \in LanesOf(x)
<1>1. /\ x.world \in Nat /\ x.world >= 2 /\ {x.lanes, x.blocks, x.room} \subseteq Nat \ {0}
      /\ x.blocks <= Modulus \div 2 /\ x.ops \in Seq(Nat \ {0})
      /\ \A i \in DOMAIN x.ops : x.ops[i] < Modulus /\ (i > 1 => (OpEntries - 1) * x.ops[i] < Modulus \div 2)
  BY ChainAssumption
<1>2. Len(x.ops) \in Nat /\ DOMAIN x.ops = 1..Len(x.ops) /\ \A i \in 1..Len(x.ops) : x.ops[i] \in Nat \ {0}
  BY <1>1
<1>3. \A i \in 2..Len(x.ops) : i \in DOMAIN x.ops /\ i > 1
  BY <1>2
<1>4. x.lanes \in Nat \ {0} /\ x.blocks \in Nat \ {0} /\ x.room \in Nat \ {0}
  BY <1>1, Zenon
<1>5. \A i \in 2..Len(x.ops) : (OpEntries - 1) * x.ops[i] < Modulus \div 2
  BY <1>1, <1>3, Zenon
<1>6. \A i \in 1..Len(x.ops) : x.ops[i] \in Nat \ {0} /\ x.ops[i] < Modulus
  BY <1>1, <1>2, Zenon
<1>7. 1 \in LanesOf(x)
  BY <1>4 DEF LanesOf
<1> QED
  BY <1>1, <1>2, <1>4, <1>5, <1>6, <1>7, Zenon

\* The sums of the ops' chunks, which grow with every op.
LEMMA Totals ==
    ASSUME NEW x \in Sessions
    PROVE  /\ Total(x) \in [0..Len(x.ops) -> Nat] /\ Total(x)[0] = 0
           /\ \A n \in 1..Len(x.ops) : Total(x)[n] = Total(x)[n - 1] + x.ops[n]
           /\ \A i, j \in 0..Len(x.ops) : i < j => Total(x)[i] < Total(x)[j]
<1>1. x.ops \in Seq(Nat \ {0}) /\ Len(x.ops) \in Nat /\ \A i \in 1..Len(x.ops) : x.ops[i] \in Nat \ {0}
  BY SessionIs
<1>2. Total(x) \in [0..Len(x.ops) -> Nat] /\ Sums(Total(x), x.ops)
  BY <1>1, SumsExist, Zenon DEF Total
<1>3. Total(x)[0] = 0 /\ \A n \in 1..Len(x.ops) : Total(x)[n] = Total(x)[n - 1] + x.ops[n]
  BY <1>2 DEF Sums
<1> DEFINE e == Total(x)
           N == Len(x.ops)
<1>4. e \in [0..N -> Nat] /\ N \in Nat /\ \A n \in 1..N : e[n] = e[n - 1] + x.ops[n] /\ x.ops[n] \in Nat \ {0}
  BY <1>1, <1>2, <1>3
<1>5. ASSUME NEW i \in 0..N, NEW j0 \in 0..N, i < j0, ~(e[i] < e[j0])
      PROVE  FALSE
  <2> HIDE DEF e, N
  <2> DEFINE T == {j \in 0..N : i < j /\ ~(e[i] < e[j])}
  <2>1. T \in SUBSET Nat /\ j0 \in T
    BY <1>4, <1>5
  <2>2. PICK j \in T : \A k \in T : j <= k
    <3> HIDE DEF T
    <3> QED
      BY <2>1, Smallest
  <2>3. j \in 1..N /\ j - 1 \in 0..N /\ e[j] = e[j - 1] + x.ops[j] /\ x.ops[j] \in Nat \ {0} /\ e[j - 1] \in Nat
    BY <1>4, <2>2
  <2>4. j - 1 = i \/ e[i] < e[j - 1]
    BY <1>4, <2>2, <2>3
  <2>5. e[i] \in Nat /\ ~(e[i] < e[j])
    BY <1>4, <2>2
  <2> QED
    BY <2>3, <2>4, <2>5
<1> QED
  BY <1>2, <1>3, <1>5

\* A chunk of the first ops is a chunk of one of them.
LEMMA ChunkOfOp ==
    ASSUME NEW x \in Sessions, NEW k \in 0..Len(x.ops), NEW g \in Nat, g < Total(x)[k]
    PROVE  \E n \in 1..k : \E c \in 0..x.ops[n] - 1 : g = Total(x)[n - 1] + c
<1> DEFINE e == Total(x)
           N == Len(x.ops)
           T == {j \in 0..k : g < e[j]}
<1>1. /\ e \in [0..N -> Nat] /\ N \in Nat /\ e[0] = 0
      /\ \A n \in 1..N : e[n] = e[n - 1] + x.ops[n] /\ x.ops[n] \in Nat \ {0}
  BY Totals, SessionIs
<1>2. k \in 0..N /\ g < e[k]
  OBVIOUS
<1> HIDE DEF e, N
<1>3. T \in SUBSET Nat /\ k \in T
  BY <1>1, <1>2
<1>4. PICK n \in T : \A j \in T : n <= j
  <2> HIDE DEF T
  <2> QED
    BY <1>3, Smallest
<1>5. n \in 1..k /\ n \in 1..N /\ n - 1 \in 0..k /\ n - 1 \in 0..N /\ g < e[n] /\ e[n - 1] <= g
  <2>1. n \in 0..k /\ g < e[n] /\ n # 0
    BY <1>1, <1>4
  <2>2. n \in 1..k /\ n \in 1..N /\ n - 1 \in 0..k /\ n - 1 \in 0..N
    BY <1>1, <1>2, <2>1
  <2>3. n - 1 \notin T
    BY <1>4, <2>2
  <2>4. e[n - 1] <= g
    BY <1>1, <2>2, <2>3
  <2> QED
    BY <2>1, <2>2, <2>4
<1>6. g - e[n - 1] \in 0..x.ops[n] - 1 /\ g = e[n - 1] + (g - e[n - 1])
  <2>1. e[n] = e[n - 1] + x.ops[n] /\ x.ops[n] \in Nat \ {0} /\ e[n - 1] \in Nat
    BY <1>1, <1>5
  <2> QED
    BY <1>5, <2>1
<1> QED
  BY <1>5, <1>6 DEF e

\* Ops that the table holds together have less than half the words.
LEMMA TableSpans ==
    ASSUME NEW x \in Sessions, NEW n \in 1..Len(x.ops), NEW m \in 1..Len(x.ops), n <= m, m - n < OpEntries
    PROVE  Total(x)[m] - Total(x)[n] < Modulus \div 2
<1> DEFINE e == Total(x)
           N == Len(x.ops)
           K == OpEntries - 1
           H == (Modulus \div 2) - 1
           T == {j \in 0..m - n : ~(K * (e[n + j] - e[n]) <= j * H)}
<1>1. /\ e \in [0..N -> Nat] /\ N \in Nat /\ K \in Nat \ {0} /\ H \in Nat
      /\ \A i \in 1..N : e[i] = e[i - 1] + x.ops[i] /\ x.ops[i] \in Nat \ {0}
      /\ \A i \in 2..N : K * x.ops[i] <= H
  <2>1. \A i \in 2..N : K * x.ops[i] <= H
    <3> SUFFICES ASSUME NEW i \in 2..N PROVE K * x.ops[i] <= H
      OBVIOUS
    <3>1. (OpEntries - 1) * x.ops[i] < Modulus \div 2
      BY SessionIs
    <3>2. x.ops[i] \in Nat /\ K \in Nat /\ Modulus \div 2 \in Nat
      <4>1. i \in 1..N
        BY SessionIs
      <4> QED
        BY <4>1, SessionIs, Sizes
    <3>3. K * x.ops[i] \in Nat
      BY <3>2, Z3
    <3> HIDE DEF K
    <3> QED
      BY <3>1, <3>2, <3>3 DEF K
  <2>2. K \in Nat \ {0} /\ H \in Nat
    BY Sizes
  <2>3. e \in [0..N -> Nat] /\ N \in Nat /\ \A i \in 1..N : e[i] = e[i - 1] + x.ops[i] /\ x.ops[i] \in Nat \ {0}
    BY Totals, SessionIs, Zenon
  <2> HIDE DEF e, N, K, H
  <2> QED
    BY <2>1, <2>2, <2>3
<1>2. n \in 1..N /\ m \in 1..N /\ m - n \in Nat /\ m - n <= K
  BY Sizes, SessionIs
<1> HIDE DEF e, N, K, H
<1>3. T = {}
  <2> SUFFICES ASSUME T # {} PROVE FALSE
    OBVIOUS
  <2>1. T \in SUBSET Nat
    BY <1>2
  <2>2. PICK j \in T : \A i \in T : j <= i
    <3> HIDE DEF T
    <3> QED
      BY <2>1, Smallest
  <2>3. j \in 0..m - n /\ ~(K * (e[n + j] - e[n]) <= j * H)
    BY <2>2
  <2>4. j # 0
    <3> SUFFICES ASSUME j = 0 PROVE K * (e[n + j] - e[n]) <= j * H
      BY <2>3
    <3>1. e[n + j] - e[n] = 0
      BY <1>1, <1>2
    <3> QED
      BY <3>1, <1>1, Z3
  <2>5. /\ j \in Nat /\ j - 1 \in Nat /\ n + j \in 2..N /\ n + j \in 1..N /\ n + j - 1 \in 0..N /\ n \in 0..N
        /\ n + j - 1 = n + (j - 1)
    BY <1>1, <1>2, <2>3, <2>4
  <2>6. K * (e[n + (j - 1)] - e[n]) <= (j - 1) * H
    <3>1. j - 1 \in 0..m - n /\ ~(j <= j - 1)
      BY <1>2, <2>3, <2>5
    <3>2. j - 1 \notin T
      BY <2>2, <3>1, Zenon
    <3> QED
      BY <3>1, <3>2, Zenon
  <2>7. e[n + j] = e[n + (j - 1)] + x.ops[n + j] /\ K * x.ops[n + j] <= H /\ x.ops[n + j] \in Nat
    <3>1. e[n + j] = e[n + j - 1] + x.ops[n + j] /\ x.ops[n + j] \in Nat \ {0}
      <4>1. \A i \in 1..N : e[i] = e[i - 1] + x.ops[i] /\ x.ops[i] \in Nat \ {0}
        BY <1>1, Zenon
      <4>2. n + j \in 1..N
        BY <2>5, Zenon
      <4> QED
        BY <4>1, <4>2
    <3>2. K * x.ops[n + j] <= H
      BY <1>1, <2>5, Zenon
    <3> QED
      BY <2>5, <3>1, <3>2
  <2>8. e[n + j] \in Nat /\ e[n + (j - 1)] \in Nat /\ e[n] \in Nat
    BY <1>1, <2>5
  <2> DEFINE a == e[n + (j - 1)]
             z == x.ops[n + j]
             o == e[n]
  <2>9. a \in Nat /\ z \in Nat /\ o \in Nat /\ K * (a - o) <= (j - 1) * H /\ K * z <= H /\ e[n + j] = a + z
    BY <2>6, <2>7, <2>8
  <2> HIDE DEF a, z, o
  <2>10. K * ((a + z) - o) = K * (a - o) + K * z /\ (j - 1) * H + H = j * H
         /\ K * (a - o) \in Int /\ K * z \in Int /\ (j - 1) * H \in Int /\ j * H \in Int
    BY <1>1, <2>5, <2>9, Z3
  <2>11. K * ((a + z) - o) <= j * H
    BY <1>1, <2>9, <2>10
  <2> QED
    BY <2>3, <2>9, <2>11 DEF o
<1> DEFINE j == m - n
<1>4. K * (e[n + j] - e[n]) <= j * H
  BY <1>2, <1>3
<1>5. n + j = m /\ j \in Nat /\ j <= K /\ e[m] \in Nat /\ e[n] \in Nat
  BY <1>1, <1>2
<1> DEFINE y == e[m] - e[n]
<1>6. K * y <= j * H /\ y \in Int
  BY <1>4, <1>5
<1> HIDE DEF j, y
<1>7. j * H <= K * H /\ j * H \in Int /\ K * H \in Int /\ K * y \in Int
  BY <1>1, <1>5, <1>6, Z3
<1>8. K * y <= K * H
  BY <1>6, <1>7
<1>9. y <= H
  BY <1>1, <1>6, <1>8, Z3
<1>10. e[m] - e[n] < Modulus \div 2
  BY <1>1, <1>6, <1>9, Sizes DEF H, y
<1> QED
  BY <1>10 DEF e

\* The model's names for the parts of a session.
LEMMA NamesOf ==
    ASSUME NEW x \in Sessions, session = x
    PROVE  /\ Ranks = RanksOf(x) /\ Lane = LanesOf(x) /\ Block = BlocksOf(x) /\ Room = x.room /\ World = x.world
           /\ \A r \in RanksOf(x) :
                 /\ First(r) <=> r = 0
                 /\ Final(r) <=> r = x.world - 1
                 /\ \A s \in Streams :
                       /\ HasIn(r, s) <=> In(x, r, s)
                       /\ s \in Sends(r) <=> Out(x, r, s)
                       /\ OutKind(r, s) = "forward" <=> Forwards(x, r, s)
                       /\ OutKind(r, s) = "kernel" <=> s = Own(x, r)
                       /\ Role(r, s) <=> Works(x, r, s)
<1>1. Ranks = RanksOf(x) /\ Lane = LanesOf(x) /\ Block = BlocksOf(x) /\ Room = x.room /\ World = x.world
  BY DEF Ranks, RanksOf, Lane, LanesOf, Block, BlocksOf, Room, World
<1> SUFFICES ASSUME NEW r \in RanksOf(x), NEW s \in Streams
             PROVE  /\ First(r) <=> r = 0
                    /\ Final(r) <=> r = x.world - 1
                    /\ HasIn(r, s) <=> In(x, r, s)
                    /\ s \in Sends(r) <=> Out(x, r, s)
                    /\ OutKind(r, s) = "forward" <=> Forwards(x, r, s)
                    /\ OutKind(r, s) = "kernel" <=> s = Own(x, r)
                    /\ Role(r, s) <=> Works(x, r, s)
  <2>1. "partial" \in Streams
    BY DEF Streams
  <2> QED
    BY <1>1, <2>1, Zenon
<1>2. r \in Int /\ r >= 0 /\ r <= x.world - 1 /\ x.world \in Nat /\ x.world >= 2 /\ s \in {"partial", "result"}
  BY SessionIs DEF RanksOf, Streams
<1>3. (First(r) <=> r = 0) /\ (Final(r) <=> r = x.world - 1)
  BY <1>1 DEF First, Final
<1>4. HasIn(r, s) <=> In(x, r, s)
  BY <1>2, <1>3 DEF HasIn, In
<1>5. /\ s = "partial" => OutKind(r, s) = IF r = x.world - 1 THEN "none" ELSE "kernel"
      /\ s = "result" => OutKind(r, s) = IF r = 0 THEN "none" ELSE IF r = x.world - 1 THEN "kernel" ELSE "forward"
  BY <1>2, <1>3 DEF OutKind
<1>6. s \in Sends(r) <=> OutKind(r, s) # "none"
  BY DEF Sends
<1>7. s \in Sends(r) <=> Out(x, r, s)
  BY <1>2, <1>5, <1>6 DEF Out
<1>8. OutKind(r, s) = "forward" <=> Forwards(x, r, s)
  BY <1>2, <1>5 DEF Forwards
<1>9. OutKind(r, s) = "kernel" <=> s = Own(x, r)
  BY <1>2, <1>5 DEF Own
<1>10. Role(r, s) <=> Works(x, r, s)
  BY <1>2, <1>4 DEF Role, Works, In
<1> QED
  BY <1>3, <1>4, <1>7, <1>8, <1>9, <1>10

\* The counters of a rank.
LEMMA CounterTypes ==
    ASSUME NEW x, NEW h \in Counters(x), NEW r \in RanksOf(x)
    PROVE  /\ h.b[r] \in Nat /\ h.t[r] \in Nat /\ h.n[r] \in Nat
           /\ \A s \in Streams : /\ h.p[r][s] \in Nat /\ h.c[r][s] \in Nat /\ h.k[r][s] \in Nat /\ h.f[r][s] \in Nat
                                 /\ h.u[r][s] \in SUBSET Nat
                                 /\ \A l \in LanesOf(x) : h.d[r][s][l] \in Nat
           /\ \A p \in RanksOf(x), l \in LanesOf(x) : h.w[r][p][l] \in Seq(Nat) /\ Len(h.w[r][p][l]) \in Nat
  BY DEF Counters

\* The type of each counter for all ranks at once.
LEMMA FieldTypes ==
    ASSUME NEW x, NEW h \in Counters(x)
    PROVE  /\ h.b \in [RanksOf(x) -> Nat] /\ h.t \in [RanksOf(x) -> Nat] /\ h.n \in [RanksOf(x) -> Nat]
           /\ h.p \in [RanksOf(x) -> [Streams -> Nat]] /\ h.c \in [RanksOf(x) -> [Streams -> Nat]]
           /\ h.k \in [RanksOf(x) -> [Streams -> Nat]] /\ h.f \in [RanksOf(x) -> [Streams -> Nat]]
           /\ h.d \in [RanksOf(x) -> [Streams -> [LanesOf(x) -> Nat]]]
           /\ h.u \in [RanksOf(x) -> [Streams -> SUBSET Nat]]
           /\ h.w \in [RanksOf(x) -> [RanksOf(x) -> [LanesOf(x) -> Seq(Nat)]]]
  BY DEF Counters

\* The neighbours of a rank on a stream.
LEMMA Neighbours ==
    ASSUME NEW x \in Sessions, NEW r \in RanksOf(x), NEW s \in Streams
    PROVE  /\ r \in Int /\ r >= 0 /\ r <= x.world - 1 /\ x.world \in Int /\ s \in {"partial", "result"}
           /\ In(x, r, s) => /\ InPeer(r, s) \in RanksOf(x) /\ InPeer(r, s) # r /\ Out(x, InPeer(r, s), s)
                             /\ OutPeer(InPeer(r, s), s) = r
           /\ Out(x, r, s) => /\ OutPeer(r, s) \in RanksOf(x) /\ OutPeer(r, s) # r /\ In(x, OutPeer(r, s), s)
                              /\ InPeer(OutPeer(r, s), s) = r
                              /\ s = Own(x, r) \/ (Forwards(x, r, s) /\ In(x, r, s))
           /\ Forwards(x, r, s) => Out(x, r, s) /\ In(x, r, s)
           /\ Own(x, r) \in Streams /\ Out(x, r, Own(x, r)) /\ ~Forwards(x, r, Own(x, r))
           /\ Stores(x, r) \in Streams /\ Works(x, r, Stores(x, r))
           /\ In(x, r, s) => Works(x, r, s)
           /\ Works(x, r, s) => In(x, r, s) \/ (r = 0 /\ s = "partial")
<1>1. r \in Int /\ r >= 0 /\ r <= x.world - 1 /\ x.world \in Int /\ x.world >= 2 /\ s \in {"partial", "result"}
  BY SessionIs DEF RanksOf, Streams
<1>2. CASE s = "partial"
  BY <1>1, <1>2 DEF In, Out, InPeer, OutPeer, RanksOf, Own, Stores, Works, Forwards, Streams
<1>3. CASE s = "result"
  BY <1>1, <1>3 DEF In, Out, InPeer, OutPeer, RanksOf, Own, Stores, Works, Forwards, Streams
<1> QED
  BY <1>1, <1>2, <1>3

-----------------------------------------------------------------------------
(* What the invariant says of a stream and of its slots.                   *)

\* Two ops have no chunk in common.
LEMMA ChunkUnique ==
    ASSUME NEW x \in Sessions, NEW n \in 1..Len(x.ops), NEW m \in 1..Len(x.ops),
           NEW c \in 0..x.ops[n] - 1, NEW a \in 0..x.ops[m] - 1, Total(x)[n - 1] + c = Total(x)[m - 1] + a
    PROVE  n = m /\ c = a
<1>1. /\ Total(x) \in [0..Len(x.ops) -> Nat] /\ Len(x.ops) \in Nat
      /\ \A i, j \in 0..Len(x.ops) : i < j => Total(x)[i] < Total(x)[j]
      /\ Total(x)[n] = Total(x)[n - 1] + x.ops[n] /\ Total(x)[m] = Total(x)[m - 1] + x.ops[m]
      /\ x.ops[n] \in Nat /\ x.ops[m] \in Nat
  BY Totals, SessionIs
<1>2. n - 1 \in 0..Len(x.ops) /\ m - 1 \in 0..Len(x.ops) /\ n \in 0..Len(x.ops) /\ m \in 0..Len(x.ops)
  BY <1>1
<1>3. Total(x)[n - 1] \in Nat /\ Total(x)[m - 1] \in Nat /\ Total(x)[n] \in Nat /\ Total(x)[m] \in Nat
  BY <1>1, <1>2
<1>4. c \in Nat /\ a \in Nat /\ c < x.ops[n] /\ a < x.ops[m]
  <2>1. x.ops[n] \in Nat /\ x.ops[m] \in Nat
    BY <1>1
  <2>2. \A z \in Nat : \A y \in 0..z - 1 : y \in Nat /\ y < z
    OBVIOUS
  <2> QED
    BY <2>1, <2>2, Zenon
<1>5. Total(x)[n - 1] + c < Total(x)[n] /\ Total(x)[m - 1] + a < Total(x)[m]
  <2>1. \A v, y, z \in Nat : y < z => v + y < v + z
    OBVIOUS
  <2>2. x.ops[n] \in Nat /\ x.ops[m] \in Nat
    BY <1>1
  <2>3. Total(x)[n] = Total(x)[n - 1] + x.ops[n] /\ Total(x)[m] = Total(x)[m - 1] + x.ops[m]
    BY <1>1
  <2> QED
    BY <1>3, <1>4, <2>1, <2>2, <2>3, Zenon
<1>6. n < m => n = m - 1 \/ Total(x)[n] < Total(x)[m - 1]
  BY <1>1, <1>2, SMTT(60)
<1>7. m < n => m = n - 1 \/ Total(x)[m] < Total(x)[n - 1]
  <2>1. m < n => m = n - 1 \/ m < n - 1
    BY <1>1
  <2> QED
    BY <1>1, <1>2, <2>1, Zenon
<1>8. ~(n < m)
  BY <1>3, <1>4, <1>5, <1>6, SMTT(60)
<1>9. ~(m < n)
  BY <1>3, <1>4, <1>5, <1>7
<1>10. n = m
  BY <1>2, <1>8, <1>9
<1> QED
  BY <1>3, <1>4, <1>10

\* A number of ops is no larger than another when its chunks are not.
LEMMA TotalsCompare ==
    ASSUME NEW x \in Sessions, NEW i \in 0..Len(x.ops), NEW j \in 0..Len(x.ops), Total(x)[i] <= Total(x)[j]
    PROVE  i <= j
<1>1. Len(x.ops) \in Nat /\ Total(x)[i] \in Nat /\ Total(x)[j] \in Nat
  BY Totals, SessionIs
<1>2. j < i => Total(x)[j] < Total(x)[i]
  BY Totals
<1>3. i \in Nat /\ j \in Nat /\ Total(x)[i] <= Total(x)[j]
  BY <1>1
<1> QED
  BY <1>1, <1>2, <1>3

\* The newest chunk of a slot among the first d.
LEMMA LatestInSlot ==
    ASSUME NEW d \in Nat, NEW m \in Slot, m < d
    PROVE  \E g \in Nat : d <= g + Slots /\ g < d /\ g % Slots = m
<1>1. Slots \in Nat \ {0} /\ m \in 0..(Slots - 1) /\ d - 1 - m \in Int /\ d - 1 - m >= 0
  BY Sizes DEF Slot
<1>2. PICK q \in Int, y \in 0..(Slots - 1) : y = (d - 1 - m) % Slots /\ d - 1 - m = Slots * q + y
  BY <1>1, Division, Zenon
<1>3. Slots * q \in Int /\ (q <= -1 => Slots * q <= -Slots)
  BY <1>1, Z3
<1>4. q \in Nat
  BY <1>1, <1>2, <1>3
<1>5. Slots * q >= 0
  BY <1>1, <1>4, Z3
<1> DEFINE g == Slots * q + m
<1>6. g \in Nat /\ g = d - 1 - y
  BY <1>1, <1>2, <1>3, <1>5
<1>7. g % Slots = m
  <2>1. g \in Int
    BY <1>6
  <2>2. g = Slots * q + m
    OBVIOUS
  <2> HIDE DEF g
  <2> QED
    BY <1>1, <2>1, <2>2, Remainder, Zenon
<1> HIDE DEF g
<1>8. d <= g + Slots /\ g < d
  BY <1>1, <1>2, <1>6
<1> QED
  BY <1>6, <1>7, <1>8

\* The counters of a stream that rank r receives, in their order.
LEMMA LinkBounds ==
    ASSUME NEW x \in Sessions, NEW h \in Counters(x), Ordered(x, h),
           NEW r \in RanksOf(x), NEW s \in Streams, In(x, r, s), NEW l \in LanesOf(x)
    PROVE  LET q == InPeer(r, s)
           IN  /\ q \in RanksOf(x) /\ h.k[r][s] \in Nat /\ h.c[r][s] \in Nat /\ h.d[q][s][l] \in Nat /\ h.p[q][s] \in Nat
               /\ h.f[q][s] \in Nat
               /\ h.k[r][s] <= h.c[r][s] /\ h.c[r][s] <= h.d[q][s][l] /\ h.d[q][s][l] <= h.p[q][s]
               /\ h.p[q][s] <= h.f[q][s] + Slots /\ h.f[q][s] <= h.k[r][s]
               /\ h.p[q][s] <= h.k[r][s] + Slots
               /\ \A g \in Nat : g < h.c[r][s] => g \in h.u[r][s]
               /\ \A g \in h.u[r][s] : g < h.d[q][s][l] /\ g < h.k[r][s] + Slots
<1> DEFINE q == InPeer(r, s)
<1>1. q \in RanksOf(x) /\ Out(x, q, s) /\ OutPeer(q, s) = r
  BY Neighbours
<1>2. /\ h.k[r][s] \in Nat /\ h.c[r][s] \in Nat /\ h.d[q][s][l] \in Nat /\ h.p[q][s] \in Nat /\ h.f[q][s] \in Nat
      /\ h.u[r][s] \in SUBSET Nat
  BY <1>1, CounterTypes
<1>3. /\ h.p[q][s] <= h.f[q][s] + Slots /\ h.f[q][s] <= h.k[OutPeer(q, s)][s] /\ h.d[q][s][l] <= h.p[q][s]
  BY <1>1, Zenon DEF Ordered, OutOrder
<1>4. /\ h.k[r][s] <= h.c[r][s] /\ h.c[r][s] <= h.d[q][s][l]
      /\ \A g \in Nat : g < h.c[r][s] => g \in h.u[r][s]
      /\ \A g \in h.u[r][s] : g < h.d[q][s][l]
  BY Zenon DEF Ordered, InOrder
<1>5. Slots \in Nat
  BY Sizes
<1> HIDE DEF q
<1>6. h.p[q][s] <= h.k[r][s] + Slots /\ \A g \in h.u[r][s] : g < h.k[r][s] + Slots
  BY <1>1, <1>2, <1>3, <1>4, <1>5
<1> QED
  BY <1>1, <1>2, <1>3, <1>4, <1>6 DEF q

\* A flag with the tag of a chunk that is not freed, and not ahead by as much as the words, tells
\* that the chunk is there.
LEMMA FlagTells ==
    ASSUME NEW x \in Sessions, NEW h \in Counters(x), Ordered(x, h), Flagged(x, h),
           NEW r \in RanksOf(x), NEW s \in Streams, In(x, r, s), NEW l \in LanesOf(x),
           NEW g \in Nat, h.k[r][s] <= g, g < h.d[InPeer(r, s)][s][l] + Modulus - Slots,
           flag[r][s][g % Slots][l] = Wrap(g + 1)
    PROVE  g < h.d[InPeer(r, s)][s][l]
<1> DEFINE d == h.d[InPeer(r, s)][s][l]
<1>1. d \in Nat /\ h.k[r][s] \in Nat /\ Slots \in Nat /\ Slots >= 2 /\ Modulus \in Nat /\ Modulus > 2 * Slots
      /\ d <= h.k[r][s] + Slots
  BY LinkBounds, Sizes
<1>2. /\ \A a \in Nat : d <= a + Slots /\ a < d => flag[r][s][a % Slots][l] = Wrap(a + 1)
      /\ \A m \in Slot : d <= m => flag[r][s][m][l] = 0
  BY Zenon DEF Flagged, FlagsOf
<1>3. g < d + Modulus - Slots
  OBVIOUS
<1>4. g % Slots \in Slot /\ g % Slots \in 0..Slots - 1
  BY Places DEF Slot
<1> HIDE DEF d
<1>5. CASE d <= g % Slots
  <2>1. Wrap(g + 1) = 0
    BY <1>2, <1>4, <1>5
  <2>2. g + 1 \in Int /\ 0 <= g + 1 /\ g + 1 < Modulus
    BY <1>1, <1>3, <1>4, <1>5
  <2>3. Wrap(g + 1) = g + 1
    BY <2>2, Wraps
  <2> QED
    BY <2>1, <2>3
<1>6. CASE ~(d <= g % Slots)
  <2>1. g % Slots < d
    BY <1>1, <1>4, <1>6
  <2>2. PICK a \in Nat : d <= a + Slots /\ a < d /\ a % Slots = g % Slots
    BY <1>1, <1>4, <2>1, LatestInSlot
  <2>3. Wrap(a + 1) = Wrap(g + 1)
    BY <1>2, <2>2
  <2>4. a + 1 \in Int /\ g + 1 \in Int /\ -Modulus < (a + 1) - (g + 1) /\ (a + 1) - (g + 1) < Modulus
    BY <1>1, <1>3, <2>2
  <2>5. a + 1 = g + 1
    BY <2>3, <2>4, WrapsApart, Zenon
  <2>6. g < d
    BY <2>2, <2>5
  <2> QED
    BY <2>6 DEF d
<1> QED
  BY <1>5, <1>6

\* A chunk that joins the used ones of a ring is the only newest one in its slot.
LEMMA RingTurns ==
    ASSUME NEW u \in SUBSET Nat, NEW o \in Nat, \A a \in Nat : a < o => a \in u, \A a \in u : a < o + Slots,
           NEW g \in Nat, o <= g, g < o + Slots,
           NEW a \in u \cup {g}, a + Slots \notin u \cup {g}, a % Slots = g % Slots
    PROVE  a = g
<1>1. Slots \in Nat /\ a \in Nat /\ a + Slots \in Nat
  BY Sizes
<1>2. a < g + Slots
  BY <1>1
<1>3. ~(a < g - Slots)
  <2> SUFFICES ASSUME a < g - Slots PROVE FALSE
    OBVIOUS
  <2>1. a + Slots < o \/ a + Slots >= o
    BY <1>1
  <2>2. a + Slots >= o /\ a + Slots < g
    BY <1>1, <2>1
  <2>3. (a + Slots) % Slots = g % Slots
    BY <1>1, Places
  <2>4. a + Slots \in Int /\ g \in Int /\ -Slots < (a + Slots) - g /\ (a + Slots) - g < Slots
    BY <1>1, <2>2
  <2>5. a + Slots = g
    BY <2>3, <2>4, Places
  <2> QED
    BY <2>5
<1>4. a # g - Slots
  BY <1>1
<1>5. a \in Int /\ g \in Int /\ -Slots < a - g /\ a - g < Slots
  BY <1>1, <1>2, <1>3, <1>4
<1> QED
  BY <1>5, Places

\* The words of a ring when a chunk joins the used ones.
LEMMA NewestGrows ==
    ASSUME NEW u \in SUBSET Nat, NEW o \in Nat, \A a \in Nat : a < o => a \in u, \A a \in u : a < o + Slots,
           NEW g \in Nat, o <= g, g < o + Slots,
           NEW v \in [Slot -> Word], NEW v2, v2 = [v EXCEPT ![g % Slots] = Wrap(g + 1)], Newest(v, u)
    PROVE  Newest(v2, u \cup {g})
<1>1. g % Slots \in Slot /\ Slots \in Nat /\ g \in Int
  <2>1. g \in Int /\ Slots \in Nat
    BY Sizes
  <2> QED
    BY <2>1, Places, Zenon
<1>2. ASSUME NEW a \in u \cup {g}, a + Slots \notin u \cup {g}
      PROVE  v2[a % Slots] = Wrap(a + 1)
  <2>1. a % Slots \in Slot /\ a \in Nat
    BY Places
  <2>2. CASE a % Slots = g % Slots
    <3>1. a = g
      BY <1>2, <2>2, RingTurns
    <3> QED
      BY <1>1, <3>1
  <2>3. CASE a % Slots # g % Slots
    <3>1. a \in u /\ a + Slots \notin u
      BY <1>2, <2>3
    <3>2. v[a % Slots] = Wrap(a + 1)
      BY <3>1 DEF Newest
    <3> QED
      BY <2>1, <2>3, <3>2
  <2> QED
    BY <2>2, <2>3
<1>3. ASSUME NEW m \in Slot, m \notin u \cup {g}
      PROVE  v2[m] = 0
  <2>1. m \in Nat /\ m < Slots /\ m \in Int /\ 0 <= m
    BY Sizes DEF Slot
  <2>2. m # g % Slots
    <3> SUFFICES ASSUME m = g % Slots PROVE FALSE
      OBVIOUS
    <3>1. m % Slots = m
      BY <2>1, Places
    <3>2. ~(m < o)
      BY <1>3, <2>1
    <3>3. g - m < Slots /\ m - g < Slots
      BY <1>1, <2>1, <3>2
    <3>4. m % Slots = g % Slots /\ -Slots < m - g /\ m - g < Slots
      BY <1>1, <2>1, <3>1, <3>3
    <3>5. m = g
      BY <1>1, <2>1, <3>4, Places, Zenon
    <3> QED
      BY <1>3, <3>5
  <2>3. v[m] = 0
    BY <1>3 DEF Newest
  <2> QED
    BY <2>2, <2>3
<1> QED
  BY <1>2, <1>3 DEF Newest

\* A word of a ring with the tag of a chunk, of which all a round before it are used, tells that the
\* chunk is used.
LEMMA NewestTells ==
    ASSUME NEW u \in SUBSET Nat, NEW v, Newest(v, u), NEW g \in Nat, g - Slots >= 0 => g - Slots \in u,
           v[g % Slots] = Wrap(g + 1)
    PROVE  g \in u
<1> SUFFICES ASSUME g \notin u PROVE FALSE
  OBVIOUS
<1>1. Slots \in Nat /\ Slots >= 2 /\ Modulus \in Nat /\ Modulus > 2 * Slots /\ g + 1 \in Int /\ g \in Int
  BY Sizes
<1>2. CASE g < Slots
  <2>1. g % Slots = g /\ g \in Slot
    <3>1. 0 <= g /\ g < Slots /\ g \in Slot
      BY <1>1, <1>2 DEF Slot
    <3> QED
      BY <1>1, <3>1, Places, Zenon
  <2>2. v[g] = 0
    BY <2>1 DEF Newest
  <2>3. Wrap(g + 1) = g + 1
    BY <1>1, <1>2, Wraps
  <2> QED
    BY <2>1, <2>2, <2>3
<1>3. CASE g >= Slots
  <2> DEFINE a == g - Slots
  <2>1. a \in Nat /\ a \in u /\ a + Slots = g /\ a \in Int
    BY <1>1, <1>3
  <2>2. a % Slots = g % Slots
    BY <2>1, Places
  <2>3. v[a % Slots] = Wrap(a + 1)
    BY <2>1 DEF Newest
  <2>4. Wrap(a + 1) = Wrap(g + 1)
    BY <2>2, <2>3
  <2>5. a + 1 \in Int /\ -Modulus < (a + 1) - (g + 1) /\ (a + 1) - (g + 1) < Modulus
    BY <1>1, <1>3
  <2> HIDE DEF a
  <2>6. a + 1 = g + 1
    BY <1>1, <2>4, <2>5, WrapsApart, Zenon
  <2> QED
    BY <1>1, <2>1, <2>6
<1> QED
  BY <1>1, <1>2, <1>3

\* An op whose chunks a rank's roles have all used was taken by every other rank.
LEMMA Everywhere ==
    ASSUME NEW x \in Sessions, NEW h \in Counters(x), Ordered(x, h), Along(x, h),
           \A q \in RanksOf(x) : h.t[q] \in 0..Len(x.ops),
           NEW r \in RanksOf(x), NEW n \in 0..Len(x.ops),
           \A s \in Streams : Works(x, r, s) => \A g \in Nat : g < Total(x)[n] => g \in h.u[r][s],
           NEW q \in RanksOf(x), q # r
    PROVE  n <= h.t[q]
<1>1. /\ r \in Int /\ r >= 0 /\ r <= x.world - 1 /\ x.world \in Int /\ x.world >= 2
      /\ q \in Int /\ q >= 0 /\ q <= x.world - 1 /\ Len(x.ops) \in Nat /\ h.t[q] \in 0..Len(x.ops) /\ h.t[q] \in Nat
      /\ Total(x)[n] \in Nat /\ Total(x)[0] = 0 /\ Total(x)[h.t[q]] \in Nat /\ 1 \in LanesOf(x)
      /\ "partial" \in Streams /\ "result" \in Streams
  <2>1. x.world \in Nat /\ x.world >= 2 /\ Len(x.ops) \in Nat /\ 1 \in LanesOf(x)
    BY SessionIs
  <2>2. h.t[q] \in 0..Len(x.ops) /\ Total(x) \in [0..Len(x.ops) -> Nat] /\ Total(x)[0] = 0
    BY Totals
  <2> QED
    BY <2>1, <2>2, SMTT(60) DEF RanksOf, Streams
<1>2. CASE Total(x)[n] = 0
  <2>1. Total(x)[n] <= Total(x)[h.t[q]]
    BY <1>1, <1>2
  <2> QED
    BY <1>1, <2>1, TotalsCompare
<1>3. CASE Total(x)[n] # 0
  <2> DEFINE g == Total(x)[n] - 1
  <2>1. g \in Nat /\ g < Total(x)[n]
    BY <1>1, <1>3
  <2> HIDE DEF g
  <2>2. \E s \in Streams : Out(x, q, s) /\ g < h.p[q][s]
    <3>1. CASE r < x.world - 1
      <4>1. g \in h.u[r]["result"] /\ In(x, r, "result") /\ InPeer(r, "result") = r + 1 /\ r + 1 \in RanksOf(x)
        BY <1>1, <2>1, <3>1 DEF Works, In, InPeer, RanksOf
      <4>2. g < h.d[r + 1]["result"][1] /\ h.d[r + 1]["result"][1] <= h.p[r + 1]["result"]
            /\ h.p[r + 1]["result"] \in Nat /\ h.d[r + 1]["result"][1] \in Nat
        BY <1>1, <4>1, LinkBounds
      <4>3. CASE q < x.world - 1
        <5>1. h.p[r + 1]["result"] <= h.p[q]["partial"] /\ Out(x, q, "partial") /\ h.p[q]["partial"] \in Nat
          BY <1>1, <3>1, <4>1, <4>3, CounterTypes, SMTT(60) DEF Along, Out
        <5>2. g < h.p[q]["partial"]
          BY <2>1, <4>2, <5>1
        <5> QED
          BY <1>1, <5>1, <5>2
      <4>4. CASE q = x.world - 1
        <5>1. h.p[r + 1]["result"] <= h.p[q]["result"] /\ Out(x, q, "result") /\ h.p[q]["result"] \in Nat
          BY <1>1, <3>1, <4>1, <4>4, CounterTypes, SMTT(60) DEF Along, Out
        <5>2. g < h.p[q]["result"]
          BY <2>1, <4>2, <5>1
        <5> QED
          BY <1>1, <5>1, <5>2
      <4> QED
        BY <1>1, <4>3, <4>4
    <3>2. CASE r = x.world - 1
      <4>1. g \in h.u[r]["partial"] /\ In(x, r, "partial") /\ InPeer(r, "partial") = r - 1 /\ r - 1 \in RanksOf(x)
        BY <1>1, <2>1, <3>2, SMTT(60) DEF Works, In, InPeer, RanksOf
      <4>2. g < h.d[r - 1]["partial"][1] /\ h.d[r - 1]["partial"][1] <= h.p[r - 1]["partial"]
            /\ h.p[r - 1]["partial"] \in Nat /\ h.d[r - 1]["partial"][1] \in Nat
        BY <1>1, <4>1, LinkBounds
      <4>3. h.p[r - 1]["partial"] <= h.p[q]["partial"] /\ Out(x, q, "partial") /\ h.p[q]["partial"] \in Nat
        <5>1. q <= r - 1 /\ r - 1 < x.world - 1
          BY <1>1, <3>2
        <5> QED
          BY <1>1, <3>2, <4>1, <5>1, CounterTypes, SMTT(60) DEF Along, Out
      <4>4. g < h.p[q]["partial"]
        BY <2>1, <4>2, <4>3
      <4> QED
        BY <1>1, <4>3, <4>4
    <3> QED
      BY <1>1, <3>1, <3>2
  <2>3. PICK s \in Streams : Out(x, q, s) /\ g < h.p[q][s]
    BY <2>2
  <2>4. h.p[q][s] <= Total(x)[h.t[q]] /\ h.p[q][s] \in Nat
    BY <2>3, CounterTypes DEF Ordered, OutOrder
  <2>5. Total(x)[n] <= Total(x)[h.t[q]]
    <3>1. PICK a \in Nat, b \in Nat, c \in Nat : a = Total(x)[n] /\ b = Total(x)[h.t[q]] /\ c = h.p[q][s]
      BY <1>1, <2>4
    <3>2. g = a - 1
      BY <3>1 DEF g
    <3>3. g < c /\ c <= b
      BY <2>3, <2>4, <3>1
    <3>4. a <= b
      BY <3>1, <3>2, <3>3
    <3> QED
      BY <3>1, <3>4
  <2> QED
    BY <1>1, <2>5, TotalsCompare
<1> QED
  BY <1>2, <1>3

-----------------------------------------------------------------------------
(* The first state, and what a step leaves alone.                          *)

\* A remainder is no larger than its number.
LEMMA Within ==
    ASSUME NEW w \in Nat \ {0}, NEW n \in Nat
    PROVE  n % w \in 0..w - 1 /\ n % w <= n
<1>1. PICK q \in Int, r \in 0..(w - 1) : r = n % w /\ n = w * q + r
  <2>1. n \in Int
    OBVIOUS
  <2> QED
    BY <2>1, Division, Zenon
<1>2. w * q \in Int /\ (q <= -1 => w * q <= -w) /\ (q >= 0 => w * q >= 0)
  BY Z3
<1>3. q >= 0
  BY <1>1, <1>2
<1>4. r <= n
  BY <1>1, <1>2, <1>3
<1> QED
  BY <1>1, <1>4, Zenon

\* Once around.
LEMMA OneTurn ==
    ASSUME NEW w \in Nat \ {0}, NEW y \in Int
    PROVE  (y + w) % w = y % w
<1>1. y + w = y + w * 1 /\ 1 \in Int /\ y + w \in Int
  OBVIOUS
<1> QED
  BY <1>1, Turns, Zenon

\* Each part of the invariant speaks of a few variables and counters.
LEMMA CountedSame ==
    ASSUME NEW x, NEW h, NEW j, Counted(x, h),
           UNCHANGED <<doorbell, last, known, sent, post, consumed, credited, credit, done>>,
           j.b = h.b, j.t = h.t, j.n = h.n, j.p = h.p, j.c = h.c, j.k = h.k, j.f = h.f, j.d = h.d
    PROVE  Counted(x, j)'
  BY DEF Counted

\* The same of the ops launched and taken, ...
LEMMA BeginsSame ==
    ASSUME NEW x, NEW h, NEW j, Begins(x, h), UNCHANGED <<base, op, running, poison, ops, params, failed>>,
           j.b = h.b, j.t = h.t
    PROVE  Begins(x, j)'
  BY DEF Begins, Begun, Table

\* ... the chunks used, ...
LEMMA UsedSame ==
    ASSUME NEW x, NEW h, NEW j, Used(x, h), UNCHANGED <<poison, error, op, running, at>>, j.b = h.b, j.u = h.u
    PROVE  Used(x, j)'
  BY ZenonT(60) DEF Used, Begun

\* ... the order of the counters, ...
LEMMA OrderedSame ==
    ASSUME NEW x, NEW h, NEW j, Ordered(x, h), j.p = h.p, j.t = h.t, j.f = h.f, j.k = h.k, j.d = h.d, j.u = h.u,
           j.n = h.n, j.c = h.c
    PROVE  Ordered(x, j)
<1>1. \A r, s : OutOrder(x, h, r, s) => OutOrder(x, j, r, s)
  BY ZenonT(60) DEF OutOrder
<1>2. \A r, s : InOrder(x, h, r, s) => InOrder(x, j, r, s)
  BY Zenon DEF InOrder
<1>3. \A r : SendOrder(x, h, r) => SendOrder(x, j, r)
  BY Zenon DEF SendOrder
<1> QED
  BY <1>1, <1>2, <1>3, Zenon DEF Ordered

\* ... that along the chain, ...
LEMMA AlongSame ==
    ASSUME NEW x, NEW h, NEW j, Along(x, h), j.p = h.p
    PROVE  Along(x, j)
  BY DEF Along

\* ... the wires, ...
LEMMA WiredSame ==
    ASSUME NEW x, NEW h, NEW j, Wired(x, h), UNCHANGED wire, j.w = h.w, j.d = h.d, j.p = h.p, j.f = h.f, j.k = h.k
    PROVE  Wired(x, j)'
<1>1. wire' = wire
  OBVIOUS
<1> QED
  BY <1>1, Zenon DEF Wired

\* ... the flags, ...
LEMMA FlaggedSame ==
    ASSUME NEW x, NEW h, NEW j, Flagged(x, h), UNCHANGED flag, j.d = h.d
    PROVE  Flagged(x, j)'
  BY Zenon DEF Flagged

\* ... the words of the rings ...
LEMMA MarkedSame ==
    ASSUME NEW x, NEW h, NEW j, Marked(x, h), UNCHANGED <<finished, ready>>, j.u = h.u
    PROVE  Marked(x, j)'
  BY Zenon DEF Marked, Newest

\* ... and the values.
LEMMA ValuedSame ==
    ASSUME NEW x, NEW h, NEW j, Valued(x, h), UNCHANGED <<recv, send, out, poison, running, op>>, j.d = h.d, j.u = h.u
    PROVE  Valued(x, j)'
<1>1. recv' = recv /\ send' = send /\ out' = out /\ poison' = poison /\ running' = running /\ op' = op
  OBVIOUS
<1> SUFFICES ASSUME NEW r \in RanksOf(x), NEW n \in 1..Len(x.ops), NEW c \in 0..x.ops[n] - 1, NEW l \in LanesOf(x)
             PROVE  /\ \A s \in Streams : In(x, r, s) =>
                          RecvHolds(x, recv'[r][s], j.d[InPeer(r, s)][s][l], r, s, n, c, l, Total(x)[n - 1] + c)
                    /\ SendHolds(send'[r], j.u[r]["partial"], r, n, c, l, Total(x)[n - 1] + c)
                    /\ ~poison'[r] /\ running'[r] /\ n = op'[r] + 1 =>
                          OutHolds(x, out'[r], j.u[r][Stores(x, r)], n, c, l, Total(x)[n - 1] + c)
  BY Zenon DEF Valued
<1> QED
  BY <1>1, Zenon DEF Valued

\* Before anything has happened every counter is 0.
LEMMA Initially ==
    ASSUME Init
    PROVE  Inv
<1> PICK x \in Sessions : session = x
  BY DEF Init
<1> DEFINE R == RanksOf(x)
           L == LanesOf(x)
           h == [b |-> [r \in R |-> 0], t |-> [r \in R |-> 0],
                 p |-> [r \in R |-> [s \in Streams |-> 0]], d |-> [r \in R |-> [s \in Streams |-> [l \in L |-> 0]]],
                 c |-> [r \in R |-> [s \in Streams |-> 0]], k |-> [r \in R |-> [s \in Streams |-> 0]],
                 f |-> [r \in R |-> [s \in Streams |-> 0]], n |-> [r \in R |-> 0],
                 u |-> [r \in R |-> [s \in Streams |-> {}]],
                 w |-> [r \in R |-> [q \in R |-> [l \in L |-> <<>>]]]]
<1>1. Ranks = R /\ Lane = L /\ Block = BlocksOf(x)
  BY NamesOf
<1>2. /\ recv = [r \in R |-> [s \in Streams |-> [m \in Slot |-> [l \in L |-> <<>>]]]]
      /\ flag = [r \in R |-> [s \in Streams |-> [m \in Slot |-> [l \in L |-> 0]]]]
      /\ send = [r \in R |-> [m \in Slot |-> [l \in L |-> <<>>]]]
      /\ ready = [r \in R |-> [m \in Slot |-> 0]]
      /\ finished = [r \in R |-> [s \in Streams |-> [m \in Slot |-> 0]]]
      /\ sent = [r \in R |-> 0] /\ credit = [r \in R |-> [s \in Streams |-> 0]]
      /\ doorbell = [r \in R |-> 0] /\ params = [r \in R |-> [i \in {0, 1} |-> 0]]
      /\ last = [r \in R |-> 0] /\ known = [r \in R |-> 0]
      /\ ops = [r \in R |-> [i \in 0..OpEntries - 1 |-> [first |-> 0, count |-> 0]]]
      /\ post = [r \in R |-> [s \in Streams |-> 0]]
      /\ done = [r \in R |-> [s \in Streams |-> [l \in L |-> 0]]]
      /\ consumed = [r \in R |-> [s \in Streams |-> 0]] /\ credited = [r \in R |-> [s \in Streams |-> 0]]
      /\ failed = [r \in R |-> FALSE]
      /\ wire = [r \in R |-> [q \in R |-> [l \in L |-> <<>>]]]
      /\ op = [r \in R |-> 0] /\ base = [r \in R |-> 0] /\ running = [r \in R |-> FALSE]
      /\ at = [r \in R |-> [s \in Streams |-> [b \in BlocksOf(x) |-> 0]]]
      /\ out = [r \in R |-> <<>>]
      /\ poison = [r \in R |-> FALSE] /\ error = [r \in R |-> 0]
  BY <1>1 DEF Init
<1>3. /\ Total(x)[0] = 0 /\ Len(x.ops) \in Nat /\ x.room \in Nat /\ Slots \in Nat /\ Slots >= 2 /\ Modulus \in Nat
      /\ Modulus > 0
  BY Totals, SessionIs, Sizes, SMTT(60)
<1>4. Wrap(0) = 0 /\ 0 \in Word
  BY <1>3, Wraps
<1>5. h \in Counters(x)
  BY DEF Counters
<1>6. /\ h.b = [r \in R |-> 0] /\ h.t = [r \in R |-> 0]
      /\ h.p = [r \in R |-> [s \in Streams |-> 0]] /\ h.d = [r \in R |-> [s \in Streams |-> [l \in L |-> 0]]]
      /\ h.c = [r \in R |-> [s \in Streams |-> 0]] /\ h.k = [r \in R |-> [s \in Streams |-> 0]]
      /\ h.f = [r \in R |-> [s \in Streams |-> 0]] /\ h.n = [r \in R |-> 0]
      /\ h.u = [r \in R |-> [s \in Streams |-> {}]]
      /\ h.w = [r \in R |-> [q \in R |-> [l \in L |-> <<>>]]]
  OBVIOUS
<1> HIDE DEF h, R, L
<1>7. Typed(x)
  <2>1. /\ \A S : <<>> \in Seq(S)
        /\ 0 \in 0..Len(x.ops)
    BY <1>3
  <2> QED
    BY <1>2, <1>3, <1>4, <2>1 DEF Typed, R, L
<1>8. Counted(x, h)
  BY <1>2, <1>3, <1>4, <1>6 DEF Counted, R, L
<1>9. Begins(x, h)
  <2>1. \A n : n \notin 1..0
    OBVIOUS
  <2> SUFFICES ASSUME NEW r \in RanksOf(x)
               PROVE  /\ h.t[r] <= h.b[r] /\ h.b[r] <= Len(x.ops)
                      /\ \A q \in RanksOf(x) : h.b[r] <= h.b[q] + 1
                      /\ base[r] = Wrap(Total(x)[op[r]])
                      /\ h.b[r] <= Begun(r)
                      /\ Table(x, ops[r], h.t[r])
                      /\ \A n \in 1..h.b[r] : n >= h.b[r] - 1 => params[r][n % 2] = x.ops[n]
                      /\ ~failed[r]
    BY Zenon DEF Begins
  <2>2. h.t[r] = 0 /\ h.b[r] = 0 /\ op[r] = 0 /\ base[r] = 0 /\ ~running[r] /\ ~poison[r] /\ ~failed[r]
        /\ ops[r] = [i \in 0..OpEntries - 1 |-> [first |-> 0, count |-> 0]]
    BY <1>2, <1>6 DEF R
  <2>3. Table(x, ops[r], h.t[r])
    <3>1. ops[r] \in [0..OpEntries - 1 -> [first : Word, count : Nat]]
      BY <1>4, <2>2
    <3>2. \A i \in 0..OpEntries - 1 : ops[r][i].count = 0
      BY <2>2
    <3> QED
      BY <2>1, <2>2, <3>1, <3>2, Zenon DEF Table
  <2>4. h.b[r] <= Begun(r)
    BY <2>2 DEF Begun
  <2>5. \A q \in RanksOf(x) : h.b[q] = 0
    BY <1>6 DEF R
  <2>6. h.t[r] <= h.b[r] /\ h.b[r] <= Len(x.ops) /\ \A q \in RanksOf(x) : h.b[r] <= h.b[q] + 1
    BY <1>3, <2>2, <2>5
  <2> QED
    BY <1>3, <1>4, <2>1, <2>2, <2>3, <2>4, <2>6, Zenon
<1>10. Used(x, h)
  <2>1. \A n : n \notin 1..0
    OBVIOUS
  <2>2. \A g \in Nat : ~(g < 0)
    OBVIOUS
  <2>3. /\ \A r \in R : h.b[r] = 0 /\ op[r] = 0 /\ ~running[r] /\ ~poison[r] /\ error[r] = 0
        /\ \A r \in R, s \in Streams : h.u[r][s] = {}
    BY <1>2, <1>6
  <2>4. \A r \in R : h.b[r] = Begun(r)
    BY <2>3 DEF Begun
  <2> QED
    BY <1>3, <2>1, <2>2, <2>3, <2>4, Zenon DEF Used, R
<1>11. Ordered(x, h)
  <2> SUFFICES ASSUME NEW r \in R
               PROVE  /\ \A s \in Streams : /\ Out(x, r, s) => OutOrder(x, h, r, s)
                                            /\ In(x, r, s) => InOrder(x, h, r, s)
                      /\ SendOrder(x, h, r)
    BY Zenon DEF Ordered, R
  <2>1. /\ h.n[r] = 0 /\ h.t[r] = 0 /\ "partial" \in Streams /\ Own(x, r) \in Streams
        /\ \A s \in Streams : /\ h.p[r][s] = 0 /\ h.f[r][s] = 0 /\ h.k[r][s] = 0 /\ h.c[r][s] = 0 /\ h.u[r][s] = {}
                              /\ \A l \in LanesOf(x) : h.d[r][s][l] = 0
    BY <1>6 DEF R, L, Streams, Own
  <2>2. \A s \in Streams : Out(x, r, s) => h.k[OutPeer(r, s)][s] = 0
    BY <1>6, Neighbours DEF R
  <2>3. \A s \in Streams, l \in LanesOf(x) : In(x, r, s) => h.d[InPeer(r, s)][s][l] = 0
    BY <1>6, Neighbours DEF R, L
  <2>4. \A s \in Streams : Forwards(x, r, s) => In(x, r, s)
    BY Neighbours DEF R
  <2>5. 0 <= 0 + Slots /\ 0 <= 0 /\ \A g \in Nat : ~(g < 0)
    BY <1>3
  <2> QED
    BY <1>3, <2>1, <2>2, <2>3, <2>4, <2>5, Zenon DEF OutOrder, InOrder, SendOrder
<1>12. Along(x, h)
  <2>1. \A r \in RanksOf(x), s \in Streams : h.p[r][s] = 0
    BY <1>6 DEF R
  <2>2. "partial" \in Streams /\ "result" \in Streams /\ 0 <= 0
    BY DEF Streams
  <2> QED
    BY <2>1, <2>2, Zenon DEF Along
<1>13. Wired(x, h)
  <2> SUFFICES ASSUME NEW r \in R, NEW q \in R, NEW l \in L
               PROVE  Carries(x, r, q, l, wire[r][q][l], h.w[r][q][l], h.d[r][Toward(r, q)][l], h.p[r][Toward(r, q)],
                              h.f[q][Other(Toward(r, q))], h.k[r][Other(Toward(r, q))])
    BY Zenon DEF Wired, R, L
  <2>1. wire[r][q][l] = <<>> /\ h.w[r][q][l] = <<>> /\ Len(<<>>) = 0 /\ 0 <= x.room
    BY <1>2, <1>3, <1>6
  <2>2. h.d[r][Toward(r, q)][l] = 0 /\ h.p[r][Toward(r, q)] = 0
    BY <1>6 DEF Toward, Streams
  <2>3. (\A n : n \notin 1..0) /\ \A g \in Nat : ~(g < 0)
    OBVIOUS
  <2> QED
    BY <2>1, <2>2, <2>3, Zenon DEF Carries
<1>14. Flagged(x, h)
  <2> SUFFICES ASSUME NEW r \in R, NEW s \in Streams, NEW l \in L, In(x, r, s)
               PROVE  FlagsOf(flag[r][s], l, h.d[InPeer(r, s)][s][l])
    BY Zenon DEF Flagged, R, L
  <2>1. h.d[InPeer(r, s)][s][l] = 0
    BY <1>6, Neighbours DEF R
  <2>2. \A m \in Slot : flag[r][s][m][l] = 0
    BY <1>2
  <2>3. \A g \in Nat : ~(g < 0)
    OBVIOUS
  <2> QED
    BY <2>1, <2>2, <2>3, Zenon DEF FlagsOf
<1>15. Marked(x, h)
  <2>1. /\ \A r \in R, s \in Streams : h.u[r][s] = {} /\ \A m \in Slot : finished[r][s][m] = 0
        /\ \A r \in R, m \in Slot : ready[r][m] = 0
    BY <1>2, <1>6
  <2>2. "partial" \in Streams
    BY DEF Streams
  <2>3. \A a : (\A m \in Slot : a[m] = 0) => Newest(a, {})
    BY Zenon DEF Newest
  <2>4. \A r \in R : Newest(ready[r], {}) /\ \A s \in Streams : Newest(finished[r][s], {})
    BY <2>1, <2>3, Zenon
  <2>5. \A r \in R : h.u[r]["partial"] = {} /\ \A s \in Streams : h.u[r][s] = {}
    BY <2>1, <2>2, Zenon
  <2> QED
    BY <2>4, <2>5, Zenon DEF Marked, R
<1>16. Valued(x, h)
  <2> SUFFICES ASSUME NEW r \in R, NEW n \in 1..Len(x.ops), NEW c \in 0..x.ops[n] - 1, NEW l \in L
               PROVE  /\ \A s \in Streams : In(x, r, s) =>
                            RecvHolds(x, recv[r][s], h.d[InPeer(r, s)][s][l], r, s, n, c, l, Total(x)[n - 1] + c)
                      /\ SendHolds(send[r], h.u[r]["partial"], r, n, c, l, Total(x)[n - 1] + c)
                      /\ ~poison[r] /\ running[r] /\ n = op[r] + 1 =>
                            OutHolds(x, out[r], h.u[r][Stores(x, r)], n, c, l, Total(x)[n - 1] + c)
    BY Zenon DEF Valued, R, L
  <2>1. \A s \in Streams : In(x, r, s) => h.d[InPeer(r, s)][s][l] = 0
    BY <1>6, Neighbours DEF R
  <2>2. Total(x)[n - 1] + c \in Nat
    <3>1. n - 1 \in 0..Len(x.ops) /\ Total(x) \in [0..Len(x.ops) -> Nat] /\ c \in Nat
      BY <1>3, Totals, SessionIs
    <3> QED
      BY <3>1
  <2>3. h.u[r]["partial"] = {} /\ ~running[r]
    BY <1>2, <1>6 DEF Streams
  <2>4. \A g \in Nat : ~(g < 0)
    OBVIOUS
  <2> QED
    BY <2>1, <2>2, <2>3, <2>4, Zenon DEF RecvHolds, SendHolds
<1>17. Body(x, h)
  BY <1>7, <1>8, <1>9, <1>10, <1>11, <1>12, <1>13, <1>14, <1>15, <1>16 DEF Body
<1> QED
  BY <1>5, <1>17 DEF Inv

-----------------------------------------------------------------------------
(* The kernel: launches, timeouts and ends.                                *)

\* The op of a rank's running kernel.
LEMMA RunningOp ==
    ASSUME NEW x \in Sessions, Typed(x), NEW r \in RanksOf(x), running[r]
    PROVE  /\ op[r] \in Nat /\ op[r] + 1 \in 1..Len(x.ops) /\ op[r] \in 0..Len(x.ops) /\ op[r] + 1 \in 0..Len(x.ops)
           /\ (op[r] + 1) - 1 = op[r] /\ Len(x.ops) \in Nat /\ x.ops[op[r] + 1] \in Nat
           /\ Total(x)[op[r]] \in Nat /\ Total(x)[op[r] + 1] \in Nat
           /\ Total(x)[op[r] + 1] = Total(x)[op[r]] + x.ops[op[r] + 1]
<1>1. op[r] \in 0..Len(x.ops) /\ op[r] < Len(x.ops) /\ Len(x.ops) \in Nat
  BY SessionIs DEF Typed
<1>2. op[r] \in Nat /\ op[r] + 1 \in 1..Len(x.ops) /\ op[r] + 1 \in 0..Len(x.ops) /\ (op[r] + 1) - 1 = op[r]
  BY <1>1
<1> DEFINE n == op[r] + 1
<1>3. n \in 1..Len(x.ops) /\ n - 1 = op[r] /\ n \in 0..Len(x.ops)
  BY <1>2
<1> HIDE DEF n
<1>4. Total(x)[n] = Total(x)[n - 1] + x.ops[n] /\ Total(x) \in [0..Len(x.ops) -> Nat] /\ x.ops[n] \in Nat
  BY <1>3, Totals, SessionIs
<1>5. Total(x)[op[r]] \in Nat /\ Total(x)[n] \in Nat
  BY <1>1, <1>3, <1>4
<1> QED
  BY <1>1, <1>2, <1>3, <1>4, <1>5 DEF n

\* A launch counts one more op, which no rank is two ahead with.
LEMMA LaunchKeeps ==
    ASSUME NEW x \in Sessions, session = x, NEW h \in Counters(x), Body(x, h), NEW r \in RanksOf(x), Launch(r)
    PROVE  \E j \in Counters(x) : Body(x, j)'
<1> DEFINE j == [b |-> [h.b EXCEPT ![r] = @ + 1], t |-> h.t, p |-> h.p, d |-> h.d, c |-> h.c, k |-> h.k, f |-> h.f,
                 n |-> h.n, u |-> h.u, w |-> h.w]
<1>1. /\ Typed(x) /\ Counted(x, h) /\ Begins(x, h) /\ Used(x, h) /\ Ordered(x, h) /\ Along(x, h)
      /\ Wired(x, h) /\ Flagged(x, h) /\ Marked(x, h) /\ Valued(x, h)
  BY DEF Body
<1>2. /\ j \in Counters(x) /\ j.b = [h.b EXCEPT ![r] = @ + 1]
      /\ j.t = h.t /\ j.p = h.p /\ j.d = h.d /\ j.c = h.c /\ j.k = h.k /\ j.f = h.f /\ j.n = h.n /\ j.u = h.u /\ j.w = h.w
  BY FieldTypes DEF Counters
<1> HIDE DEF j
<1>3. /\ ~running[r] /\ ~poison[r] /\ op[r] < Len(x.ops)
      /\ running' = [running EXCEPT ![r] = TRUE]
      /\ at' = [at EXCEPT ![r] = [s \in Streams |-> [b \in BlocksOf(x) |-> b]]]
      /\ out' = [out EXCEPT ![r] = [c \in 0..x.ops[op[r] + 1] - 1 |-> [l \in LanesOf(x) |-> <<>>]]]
      /\ params' = [params EXCEPT ![r][((op[r] + 1) % Modulus) % 2] = x.ops[op[r] + 1]]
      /\ doorbell' = [doorbell EXCEPT ![r] = (op[r] + 1) % Modulus]
      /\ UNCHANGED <<session, recv, flag, send, ready, finished, sent, credit, last, known, ops, post, done, consumed,
                     credited, failed, wire, op, base, poison, error>>
  BY NamesOf DEF Launch, Chunks, Sequence, Op, proxy
<1>4. op[r] \in Nat /\ h.b[r] = op[r] /\ op[r] + 1 \in 1..Len(x.ops) /\ x.ops[op[r] + 1] \in Nat /\ Len(x.ops) \in Nat
  <2>1. op[r] \in 0..Len(x.ops) /\ Len(x.ops) \in Nat
    BY <1>1, SessionIs DEF Typed
  <2>2. h.b[r] = op[r] + 0
    BY <1>1, <1>3 DEF Used, Begun
  <2> QED
    BY <1>3, <2>1, <2>2, SessionIs
<1> DEFINE n0 == op[r] + 1
           e == Total(x)
<1>5. /\ n0 \in Nat /\ n0 \in 1..Len(x.ops) /\ n0 - 1 = op[r] /\ j.b[r] = n0 /\ op[r] \in 0..Len(x.ops)
      /\ \A q \in RanksOf(x) : q # r => j.b[q] = h.b[q]
  BY <1>2, <1>4 DEF Counters
<1>6. e \in [0..Len(x.ops) -> Nat] /\ e[op[r]] < e[n0]
  BY <1>4, <1>5, Totals
<1>7. n0 % Modulus = Wrap(n0) /\ Wrap(n0) % 2 = n0 % 2 /\ n0 % 2 \in {0, 1} /\ (op[r]) % 2 # n0 % 2 /\ Wrap(n0) \in Word
  <2>1. n0 \in Int /\ op[r] \in Int
    BY <1>4
  <2>2. Wrap(n0) % 2 = n0 % 2 /\ n0 % 2 \in {0, 1} /\ (op[r] + 1) % 2 # op[r] % 2
    BY <2>1, Entries, Zenon
  <2>3. Wrap(n0) \in Word
    BY <2>1, Wraps
  <2> QED
    BY <2>2, <2>3 DEF Wrap
<1> HIDE DEF n0, e
<1>8. Typed(x)'
  <2>1. doorbell' \in [RanksOf(x) -> Word] /\ params' \in [RanksOf(x) -> [{0, 1} -> Nat]]
    <3>1. params' = [params EXCEPT ![r][n0 % 2] = x.ops[n0]] /\ doorbell' = [doorbell EXCEPT ![r] = Wrap(n0)]
      BY <1>3, <1>7 DEF n0
    <3>2. x.ops[n0] \in Nat /\ n0 % 2 \in {0, 1}
      BY <1>4, <1>7 DEF n0
    <3>3. doorbell \in [RanksOf(x) -> Word] /\ params \in [RanksOf(x) -> [{0, 1} -> Nat]]
      BY <1>1 DEF Typed
    <3> QED
      BY <1>7, <3>1, <3>2, <3>3
  <2>2. at' \in [RanksOf(x) -> [Streams -> [BlocksOf(x) -> Nat]]] /\ running' \in [RanksOf(x) -> BOOLEAN]
    <3>1. \A b \in BlocksOf(x) : b \in Nat
      BY SessionIs DEF BlocksOf
    <3>2. at \in [RanksOf(x) -> [Streams -> [BlocksOf(x) -> Nat]]] /\ running \in [RanksOf(x) -> BOOLEAN]
      BY <1>1 DEF Typed
    <3> QED
      BY <1>3, <3>1, <3>2
  <2>3. /\ out' = [q \in RanksOf(x) |-> out'[q]]
        /\ out'[r] = [c \in 0..x.ops[op[r] + 1] - 1 |-> [l \in LanesOf(x) |-> <<>>]]
        /\ \A q \in RanksOf(x) : q # r => out'[q] = out[q] /\ running'[q] = running[q]
    BY <1>1, <1>3 DEF Typed
  <2>4. out'[r] \in [0..x.ops[op[r] + 1] - 1 -> [LanesOf(x) -> Seq(Nat)]]
    BY <2>3
  <2>5. \A q \in RanksOf(x) : running'[q] =>
          op'[q] < Len(x.ops) /\ out'[q] \in [0..x.ops[op'[q] + 1] - 1 -> [LanesOf(x) -> Seq(Nat)]]
    <3>1. op' = op
      BY <1>3
    <3>2. \A q \in RanksOf(x) : running[q] =>
            op[q] < Len(x.ops) /\ out[q] \in [0..x.ops[op[q] + 1] - 1 -> [LanesOf(x) -> Seq(Nat)]]
      BY <1>1 DEF Typed
    <3> QED
      BY <1>3, <2>3, <2>4, <3>1, <3>2, Zenon
  <2> QED
    BY <1>1, <1>3, <2>1, <2>2, <2>3, <2>5, Zenon DEF Typed
<1>9. Counted(x, j)'
  <2>1. doorbell'[r] = Wrap(j.b[r]) /\ \A q \in RanksOf(x) : q # r => doorbell'[q] = doorbell[q]
    <3>1. doorbell' = [doorbell EXCEPT ![r] = Wrap(n0)]
      BY <1>3, <1>7 DEF n0
    <3> QED
      BY <1>1, <1>5, <3>1 DEF Typed
  <2>2. \A q \in RanksOf(x) : doorbell'[q] = Wrap(j.b[q])
    BY <1>1, <1>5, <2>1 DEF Counted
  <2>3. /\ last' = last /\ known' = known /\ sent' = sent /\ post' = post /\ consumed' = consumed
        /\ credited' = credited /\ credit' = credit /\ done' = done
    BY <1>3
  <2> QED
    BY <1>1, <1>2, <2>2, <2>3 DEF Counted
<1>10. Begins(x, j)'
  <2> SUFFICES ASSUME NEW q \in RanksOf(x)
               PROVE  /\ j.t[q] <= j.b[q] /\ j.b[q] <= Len(x.ops)
                      /\ \A p \in RanksOf(x) : j.b[q] <= j.b[p] + 1
                      /\ base'[q] = Wrap(Total(x)[op'[q]])
                      /\ j.b[q] <= Begun(q)'
                      /\ Table(x, ops'[q], j.t[q])
                      /\ \A n \in 1..j.b[q] : n >= j.b[q] - 1 => params'[q][n % 2] = x.ops[n]
                      /\ ~failed'[q]
    BY Zenon DEF Begins
  <2>1. base' = base /\ op' = op /\ ops' = ops /\ failed' = failed /\ poison' = poison
    BY <1>3
  <2>2. /\ h.t[q] <= h.b[q] /\ h.b[q] <= Len(x.ops) /\ base[q] = Wrap(Total(x)[op[q]]) /\ h.b[q] <= Begun(q)
        /\ Table(x, ops[q], h.t[q]) /\ ~failed[q]
    BY <1>1 DEF Begins
  <2>3. \A p \in RanksOf(x) : h.b[p] \in Nat /\ h.t[p] \in Nat /\ j.b[p] \in Nat /\ h.t[p] <= h.b[p] /\ h.b[p] <= Len(x.ops)
    BY <1>1, <1>2 DEF Begins, Counters
  <2>4. j.t[q] <= j.b[q] /\ j.b[q] <= Len(x.ops)
    BY <1>2, <1>4, <1>5, <2>2, <2>3
  <2>5. ASSUME NEW p \in RanksOf(x)
        PROVE  j.b[q] <= j.b[p] + 1
    <3>1. CASE q = r /\ p # r
      <4>1. op[r] <= h.t[p]
        <5>1. \A s \in Streams : Works(x, r, s) => \A g \in Nat : g < Total(x)[op[r]] => g \in h.u[r][s]
          BY <1>1, <1>3 DEF Used
        <5>2. \A y \in RanksOf(x) : h.t[y] \in 0..Len(x.ops)
          BY <1>4, <2>3
        <5> QED
          BY <1>1, <1>5, <3>1, <5>1, <5>2, Everywhere
      <4> QED
        BY <1>4, <1>5, <2>3, <3>1, <4>1
    <3>2. CASE q = r /\ p = r
      BY <2>3, <3>2
    <3>3. CASE q # r
      <4>1. h.b[q] <= h.b[p] + 1
        BY <1>1 DEF Begins
      <4>2. h.b[p] <= j.b[p]
        BY <1>4, <1>5, <2>3
      <4> QED
        BY <1>5, <2>3, <3>3, <4>1, <4>2
    <3> QED
      BY <3>1, <3>2, <3>3
  <2>6. j.b[q] <= Begun(q)'
    <3>1. CASE q = r
      <4>1. running'[r] /\ op'[r] = op[r]
        BY <1>1, <1>3 DEF Typed
      <4>2. Begun(r)' = op[r] + 1
        BY <4>1 DEF Begun
      <4> QED
        BY <1>4, <1>5, <3>1, <4>2 DEF n0
    <3>2. CASE q # r
      <4>1. running'[q] = running[q]
        BY <1>1, <1>3, <3>2 DEF Typed
      <4>2. Begun(q)' = Begun(q)
        BY <2>1, <4>1 DEF Begun
      <4> QED
        BY <1>5, <2>2, <3>2, <4>2
    <3> QED
      BY <3>1, <3>2
  <2>7. ASSUME NEW n \in 1..j.b[q], n >= j.b[q] - 1
        PROVE  params'[q][n % 2] = x.ops[n]
    <3>1. params' = [params EXCEPT ![r][n0 % 2] = x.ops[n0]] /\ params \in [RanksOf(x) -> [{0, 1} -> Nat]]
      BY <1>1, <1>3, <1>7 DEF n0, Typed
    <3>2. CASE q = r
      <4>1. n = n0 \/ n = op[r]
        BY <1>4, <1>5, <2>7, <3>2 DEF n0
      <4>2. CASE n = n0
        BY <1>7, <3>1, <3>2, <4>2
      <4>3. CASE n = op[r]
        <5>1. n \in 1..h.b[r] /\ n >= h.b[r] - 1
          BY <1>4, <2>7, <4>3
        <5>2. params[r][n % 2] = x.ops[n]
          BY <1>1, <5>1, Zenon DEF Begins
        <5>3. n % 2 # n0 % 2 /\ n % 2 \in {0, 1}
          BY <1>4, <1>7, <4>3
        <5> QED
          BY <1>7, <3>1, <3>2, <5>2, <5>3
      <4> QED
        BY <4>1, <4>2, <4>3
    <3>3. CASE q # r
      <4>1. params'[q] = params[q]
        BY <3>1, <3>3
      <4>2. j.b[q] = h.b[q]
        BY <1>5, <3>3
      <4> QED
        BY <1>1, <2>7, <4>1, <4>2, Zenon DEF Begins
    <3> QED
      BY <3>2, <3>3
  <2> QED
    BY <1>2, <2>1, <2>2, <2>4, <2>5, <2>6, <2>7, Zenon
<1>11. Used(x, j)'
  <2> SUFFICES ASSUME NEW q \in RanksOf(x)
               PROVE  /\ ~poison'[q] => error'[q] = 0 /\ j.b[q] = Begun(q)'
                      /\ \A s \in Streams : \A g \in j.u[q][s] : g < Total(x)[j.b[q]]
                      /\ \A s \in Streams : Works(x, q, s) =>
                           /\ \A n \in 1..j.b[q], g \in Nat : g < Total(x)[n - 1] => g \in j.u[q][s]
                           /\ ~poison'[q] /\ ~running'[q] => \A g \in Nat : g < Total(x)[op'[q]] => g \in j.u[q][s]
                           /\ ~poison'[q] /\ running'[q] =>
                                /\ \A b \in BlocksOf(x) : at'[q][s][b] % x.blocks = b
                                /\ \A c \in 0..x.ops[op'[q] + 1] - 1 :
                                      Total(x)[op'[q]] + c \in j.u[q][s] <=> c < at'[q][s][c % x.blocks]
    BY Zenon DEF Used
  <2>1. poison' = poison /\ error' = error /\ op' = op
    BY <1>3
  <2>2. CASE q # r
    <3>1. at'[q] = at[q] /\ running'[q] = running[q]
      BY <1>1, <1>3, <2>2 DEF Typed
    <3>2. Begun(q)' = Begun(q)
      BY <2>1, <3>1 DEF Begun
    <3>3. j.b[q] = h.b[q] /\ j.u = h.u
      BY <1>2, <1>5, <2>2
    <3> QED
      BY <1>1, <2>1, <3>1, <3>2, <3>3, Zenon DEF Used
  <2>3. CASE q = r
    <3>1. running'[r] /\ at'[r] = [s \in Streams |-> [b \in BlocksOf(x) |-> b]]
      BY <1>1, <1>3 DEF Typed
    <3>2. error'[r] = 0 /\ j.b[r] = Begun(r)'
      <4>1. Begun(r)' = op[r] + 1
        BY <2>1, <3>1 DEF Begun
      <4>2. error[r] = 0 /\ j.b[r] = op[r] + 1
        BY <1>1, <1>3, <1>5 DEF Used, n0
      <4> QED
        BY <2>1, <4>1, <4>2
    <3>3. \A s \in Streams : \A g \in h.u[r][s] : g \in Nat /\ g < e[op[r]]
      <4>1. \A s \in Streams : h.u[r][s] \in SUBSET Nat
        BY CounterTypes
      <4>2. \A s \in Streams : \A g \in h.u[r][s] : g < e[h.b[r]]
        BY <1>1, Zenon DEF Used, e
      <4> QED
        BY <1>4, <4>1, <4>2
    <3>4. \A s \in Streams : \A g \in j.u[r][s] : g < Total(x)[j.b[r]]
      <4> SUFFICES ASSUME NEW s \in Streams, NEW g \in h.u[r][s] PROVE g < e[n0]
        BY <1>2, <1>5 DEF e
      <4>1. g \in Nat /\ g < e[op[r]]
        BY <3>3
      <4>2. e[op[r]] \in Nat /\ e[n0] \in Nat
        BY <1>5, <1>6
      <4> QED
        BY <1>6, <4>1, <4>2
    <3>5. ASSUME NEW s \in Streams, Works(x, r, s)
          PROVE  /\ \A n \in 1..j.b[r], g \in Nat : g < Total(x)[n - 1] => g \in j.u[r][s]
                 /\ \A b \in BlocksOf(x) : at'[r][s][b] % x.blocks = b
                 /\ \A c \in 0..x.ops[op'[r] + 1] - 1 : Total(x)[op'[r]] + c \in j.u[r][s] <=> c < at'[r][s][c % x.blocks]
      <4>1. x.blocks \in Nat \ {0}
        BY SessionIs
      <4>2. ASSUME NEW n \in 1..j.b[r], NEW g \in Nat, g < Total(x)[n - 1]
            PROVE  g \in j.u[r][s]
        <5>1. CASE n = n0
          <6>1. \A a \in Nat : a < Total(x)[op[r]] => a \in h.u[r][s]
            BY <1>1, <1>3, <3>5 DEF Used
          <6> QED
            BY <1>2, <1>5, <4>2, <5>1, <6>1
        <5>2. CASE n # n0
          <6>1. n \in 1..h.b[r]
            BY <1>4, <1>5, <5>2 DEF n0
          <6> QED
            BY <1>1, <1>2, <3>5, <4>2, <6>1, Zenon DEF Used
        <5> QED
          BY <5>1, <5>2
      <4>3. ASSUME NEW b \in BlocksOf(x)
            PROVE  at'[r][s][b] % x.blocks = b
        <5>1. at'[r][s][b] = b
          BY <3>1
        <5>2. b \in 0..(x.blocks - 1) /\ b \in Int /\ 0 \in Int /\ b = x.blocks * 0 + b
          BY <4>1 DEF BlocksOf
        <5>3. b % x.blocks = b
          BY <4>1, <5>2, Remainder, Zenon
        <5> QED
          BY <5>1, <5>3
      <4>4. ASSUME NEW c \in 0..x.ops[op'[r] + 1] - 1
            PROVE  Total(x)[op'[r]] + c \in j.u[r][s] <=> c < at'[r][s][c % x.blocks]
        <5>1. c \in Nat
          BY <1>4, <2>1
        <5>2. c % x.blocks \in 0..x.blocks - 1 /\ c % x.blocks <= c
          BY <4>1, <5>1, Within, Zenon
        <5>3. at'[r][s][c % x.blocks] = c % x.blocks
          BY <3>1, <5>2 DEF BlocksOf
        <5>4. c % x.blocks \in Nat
          BY <4>1, <5>2
        <5>5. ~(c < at'[r][s][c % x.blocks])
          <6>1. \A y, z \in Nat : y <= z => ~(z < y)
            OBVIOUS
          <6> QED
            BY <5>1, <5>2, <5>3, <5>4, <6>1, Zenon
        <5>6. ~(Total(x)[op'[r]] + c \in j.u[r][s])
          <6> SUFFICES ASSUME e[op[r]] + c \in h.u[r][s] PROVE FALSE
            BY <1>2, <2>1 DEF e
          <6>1. e[op[r]] + c < e[op[r]] /\ e[op[r]] \in Nat
            BY <1>5, <1>6, <3>3
          <6> QED
            BY <5>1, <6>1
        <5> QED
          BY <5>5, <5>6
      <4> QED
        BY <4>2, <4>3, <4>4
    <3> QED
      BY <2>3, <3>1, <3>2, <3>4, <3>5, Zenon
  <2> QED
    BY <2>2, <2>3
<1>12. Valued(x, j)'
  <2> SUFFICES ASSUME NEW q \in RanksOf(x), NEW n \in 1..Len(x.ops), NEW c \in 0..x.ops[n] - 1, NEW l \in LanesOf(x)
               PROVE  /\ \A s \in Streams : In(x, q, s) =>
                            RecvHolds(x, recv'[q][s], j.d[InPeer(q, s)][s][l], q, s, n, c, l, Total(x)[n - 1] + c)
                      /\ SendHolds(send'[q], j.u[q]["partial"], q, n, c, l, Total(x)[n - 1] + c)
                      /\ ~poison'[q] /\ running'[q] /\ n = op'[q] + 1 =>
                            OutHolds(x, out'[q], j.u[q][Stores(x, q)], n, c, l, Total(x)[n - 1] + c)
    BY Zenon DEF Valued
  <2>1. recv' = recv /\ send' = send /\ poison' = poison /\ op' = op
    BY <1>3
  <2>2. /\ \A s \in Streams : In(x, q, s) =>
              RecvHolds(x, recv[q][s], h.d[InPeer(q, s)][s][l], q, s, n, c, l, Total(x)[n - 1] + c)
        /\ SendHolds(send[q], h.u[q]["partial"], q, n, c, l, Total(x)[n - 1] + c)
        /\ ~poison[q] /\ running[q] /\ n = op[q] + 1 =>
              OutHolds(x, out[q], h.u[q][Stores(x, q)], n, c, l, Total(x)[n - 1] + c)
    BY <1>1, Zenon DEF Valued
  <2>3. ~poison'[q] /\ running'[q] /\ n = op'[q] + 1 =>
            OutHolds(x, out'[q], j.u[q][Stores(x, q)], n, c, l, Total(x)[n - 1] + c)
    <3>1. CASE q # r
      <4>1. out'[q] = out[q] /\ running'[q] = running[q]
        BY <1>1, <1>3, <3>1 DEF Typed
      <4> QED
        BY <1>2, <2>1, <2>2, <4>1, Zenon
    <3>2. CASE q = r
      <4> SUFFICES ASSUME n = op[r] + 1, Total(x)[n - 1] + c \in h.u[r][Stores(x, r)] PROVE FALSE
        BY <1>2, <2>1, <3>2, Zenon DEF OutHolds
      <4>1. Stores(x, r) \in Streams
        BY DEF Stores, Streams
      <4>2. Total(x)[n - 1] + c < Total(x)[op[r]] /\ n - 1 = op[r]
        BY <1>1, <1>4, <4>1 DEF Used
      <4>3. Total(x)[op[r]] \in Nat /\ c \in Nat
        BY <1>4, <1>5, <1>6, SessionIs DEF e
      <4> QED
        BY <4>2, <4>3
    <3> QED
      BY <3>1, <3>2
  <2> QED
    BY <1>2, <2>1, <2>2, <2>3, Zenon
<1>13. Ordered(x, j) /\ Along(x, j) /\ Wired(x, j)' /\ Flagged(x, j)' /\ Marked(x, j)'
  <2>1. Ordered(x, j) /\ Along(x, j)
    BY <1>1, <1>2, OrderedSame, AlongSame, Zenon
  <2>2. Wired(x, j)' /\ Flagged(x, j)' /\ Marked(x, j)'
    BY <1>1, <1>2, <1>3, WiredSame, FlaggedSame, MarkedSame
  <2> QED
    BY <2>1, <2>2
<1>14. Body(x, j)'
  <2>1. Ordered(x, j)' /\ Along(x, j)'
    BY <1>13 DEF Ordered, OutOrder, InOrder, SendOrder, Along
  <2> QED
    BY <1>8, <1>9, <1>10, <1>11, <1>12, <1>13, <2>1 DEF Body
<1> QED
  BY <1>2, <1>14

\* A block that leaves its loop in a poisoned session changes nothing the invariant speaks of.
LEMMA LeavingKeeps ==
    ASSUME NEW x \in Sessions, session = x, NEW h \in Counters(x), Body(x, h), NEW r \in RanksOf(x), NEW s \in Streams,
           NEW b \in BlocksOf(x), running[r],
           at' = [at EXCEPT ![r][s][b] = Chunks(r)], poison' = [poison EXCEPT ![r] = TRUE],
           NEW v \in Word, error' = [error EXCEPT ![r] = v],
           UNCHANGED <<session, area, proxy, wire, op, base, running, out>>
    PROVE  Body(x, h)'
<1>1. /\ Typed(x) /\ Counted(x, h) /\ Begins(x, h) /\ Used(x, h) /\ Ordered(x, h) /\ Along(x, h)
      /\ Wired(x, h) /\ Flagged(x, h) /\ Marked(x, h) /\ Valued(x, h)
  BY DEF Body
<1>2. /\ recv' = recv /\ flag' = flag /\ send' = send /\ ready' = ready /\ finished' = finished /\ sent' = sent
      /\ credit' = credit /\ doorbell' = doorbell /\ params' = params /\ last' = last /\ known' = known /\ ops' = ops
      /\ post' = post /\ done' = done /\ consumed' = consumed /\ credited' = credited /\ failed' = failed
      /\ wire' = wire /\ op' = op /\ base' = base /\ running' = running /\ out' = out
  BY DEF area, proxy
<1>3. /\ poison'[r] /\ \A q \in RanksOf(x) : q # r => poison'[q] = poison[q] /\ error'[q] = error[q] /\ at'[q] = at[q]
      /\ \A q \in RanksOf(x) : ~poison'[q] => q # r
  BY <1>1 DEF Typed
<1>4. Typed(x)'
  <2>1. Chunks(r) \in Nat
    <3>1. op[r] \in 0..Len(x.ops) /\ op[r] < Len(x.ops) /\ Len(x.ops) \in Nat
      BY <1>1, SessionIs DEF Typed
    <3>2. op[r] + 1 \in 1..Len(x.ops)
      BY <3>1
    <3> QED
      BY <3>2, SessionIs DEF Chunks, Op
  <2>2. at \in [RanksOf(x) -> [Streams -> [BlocksOf(x) -> Nat]]] /\ poison \in [RanksOf(x) -> BOOLEAN]
        /\ error \in [RanksOf(x) -> Word]
    BY <1>1 DEF Typed
  <2>3. at' \in [RanksOf(x) -> [Streams -> [BlocksOf(x) -> Nat]]] /\ poison' \in [RanksOf(x) -> BOOLEAN]
        /\ error' \in [RanksOf(x) -> Word]
    BY <2>1, <2>2
  <2>4. \A q \in RanksOf(x) : running'[q] =>
          op'[q] < Len(x.ops) /\ out'[q] \in [0..x.ops[op'[q] + 1] - 1 -> [LanesOf(x) -> Seq(Nat)]]
    BY <1>1, <1>2 DEF Typed
  <2>5. out' = [q \in RanksOf(x) |-> out'[q]]
    BY <1>1, <1>2, Zenon DEF Typed
  <2> QED
    BY <1>1, <1>2, <2>3, <2>4, <2>5, Zenon DEF Typed
<1>5. \A q \in RanksOf(x) : Begun(q)' = Begun(q)
  <2> SUFFICES ASSUME NEW q \in RanksOf(x) PROVE Begun(q)' = Begun(q)
    OBVIOUS
  <2>1. CASE q = r
    BY <1>2, <2>1 DEF Begun
  <2>2. CASE q # r
    BY <1>2, <1>3, <2>2 DEF Begun
  <2> QED
    BY <2>1, <2>2
<1>6. Begins(x, h)'
  BY <1>1, <1>2, <1>5, Zenon DEF Begins
<1>7. Used(x, h)'
  <2> SUFFICES ASSUME NEW q \in RanksOf(x)
               PROVE  /\ ~poison'[q] => error'[q] = 0 /\ h.b[q] = Begun(q)'
                      /\ \A z \in Streams : \A g \in h.u[q][z] : g < Total(x)[h.b[q]]
                      /\ \A z \in Streams : Works(x, q, z) =>
                           /\ \A n \in 1..h.b[q], g \in Nat : g < Total(x)[n - 1] => g \in h.u[q][z]
                           /\ ~poison'[q] /\ ~running'[q] => \A g \in Nat : g < Total(x)[op'[q]] => g \in h.u[q][z]
                           /\ ~poison'[q] /\ running'[q] =>
                                /\ \A i \in BlocksOf(x) : at'[q][z][i] % x.blocks = i
                                /\ \A c \in 0..x.ops[op'[q] + 1] - 1 :
                                      Total(x)[op'[q]] + c \in h.u[q][z] <=> c < at'[q][z][c % x.blocks]
    BY Zenon DEF Used
  <2>1. CASE q = r
    BY <1>1, <1>3, <2>1, Zenon DEF Used
  <2>2. CASE q # r
    <3>1. poison'[q] = poison[q] /\ error'[q] = error[q] /\ at'[q] = at[q] /\ Begun(q)' = Begun(q)
      BY <1>3, <1>5, <2>2
    <3> QED
      BY <1>1, <1>2, <3>1, ZenonT(60) DEF Used
  <2> QED
    BY <2>1, <2>2
<1>8. Valued(x, h)'
  <2> SUFFICES ASSUME NEW q \in RanksOf(x), NEW n \in 1..Len(x.ops), NEW c \in 0..x.ops[n] - 1, NEW l \in LanesOf(x)
               PROVE  /\ \A z \in Streams : In(x, q, z) =>
                            RecvHolds(x, recv'[q][z], h.d[InPeer(q, z)][z][l], q, z, n, c, l, Total(x)[n - 1] + c)
                      /\ SendHolds(send'[q], h.u[q]["partial"], q, n, c, l, Total(x)[n - 1] + c)
                      /\ ~poison'[q] /\ running'[q] /\ n = op'[q] + 1 =>
                            OutHolds(x, out'[q], h.u[q][Stores(x, q)], n, c, l, Total(x)[n - 1] + c)
    BY Zenon DEF Valued
  <2>1. ~poison'[q] => ~poison[q]
    BY <1>3
  <2>2. /\ \A z \in Streams : In(x, q, z) =>
              RecvHolds(x, recv[q][z], h.d[InPeer(q, z)][z][l], q, z, n, c, l, Total(x)[n - 1] + c)
        /\ SendHolds(send[q], h.u[q]["partial"], q, n, c, l, Total(x)[n - 1] + c)
        /\ ~poison[q] /\ running[q] /\ n = op[q] + 1 =>
              OutHolds(x, out[q], h.u[q][Stores(x, q)], n, c, l, Total(x)[n - 1] + c)
    BY <1>1, Zenon DEF Valued
  <2> QED
    BY <1>2, <2>1, <2>2, Zenon
<1>9. Counted(x, h)' /\ Wired(x, h)' /\ Flagged(x, h)' /\ Marked(x, h)'
  <2>1. Counted(x, h)'
    BY <1>1, <1>2, CountedSame
  <2>2. Wired(x, h)' /\ Flagged(x, h)' /\ Marked(x, h)'
    BY <1>1, <1>2, WiredSame, FlaggedSame, MarkedSame
  <2> QED
    BY <2>1, <2>2
<1>10. Ordered(x, h)' /\ Along(x, h)'
  BY <1>1 DEF Ordered, OutOrder, InOrder, SendOrder, Along
<1> QED
  BY <1>4, <1>6, <1>7, <1>8, <1>9, <1>10 DEF Body

\* When every block of a role is past the op, the role has used all of it.
LEMMA ArrivedUses ==
    ASSUME NEW x \in Sessions, session = x, NEW h \in Counters(x), Typed(x), Used(x, h), NEW r \in RanksOf(x),
           Arrived(r), ~poison[r], NEW s \in Streams, Works(x, r, s), NEW g \in Nat, g < Total(x)[op[r] + 1]
    PROVE  g \in h.u[r][s]
<1>1. running[r] /\ op[r] \in Nat /\ op[r] + 1 \in 1..Len(x.ops) /\ x.ops[op[r] + 1] \in Nat /\ op[r] \in 0..Len(x.ops)
  BY RunningOp DEF Arrived
<1>2. h.b[r] = op[r] + 1
  BY <1>1 DEF Used, Begun
<1>3. Total(x)[op[r] + 1] = Total(x)[op[r]] + x.ops[op[r] + 1] /\ Total(x)[op[r]] \in Nat
  BY RunningOp DEF Arrived
<1>4. CASE g < Total(x)[op[r]]
  <2> DEFINE n == op[r] + 1
  <2>1. n \in 1..h.b[r] /\ n - 1 = op[r]
    BY <1>1, <1>2
  <2> HIDE DEF n
  <2>2. g < Total(x)[n - 1]
    BY <1>4, <2>1
  <2> QED
    BY <2>1, <2>2, Zenon DEF Used
<1>5. CASE ~(g < Total(x)[op[r]])
  <2> DEFINE c == g - Total(x)[op[r]]
  <2>1. c \in 0..x.ops[op[r] + 1] - 1 /\ c \in Nat /\ c < x.ops[op[r] + 1] /\ Total(x)[op[r]] + c = g
    <3>1. \A y, z, a \in Nat : a < y + z /\ ~(a < y) =>
            /\ a - y \in 0..z - 1 /\ a - y \in Nat /\ a - y < z
            /\ y + (a - y) = a
      OBVIOUS
    <3>2. g < Total(x)[op[r]] + x.ops[op[r] + 1]
      BY <1>3
    <3> QED
      BY <1>1, <1>3, <1>5, <3>1, <3>2, ZenonT(60)
  <2> HIDE DEF c
  <2>2. c % x.blocks \in BlocksOf(x)
    <3>1. x.blocks \in Nat \ {0}
      BY SessionIs
    <3> QED
      BY <2>1, <3>1, Within, Zenon DEF BlocksOf
  <2>3. ~(at[r][s][c % x.blocks] < x.ops[op[r] + 1]) /\ at[r][s][c % x.blocks] \in Nat
    <3>1. ~Working(r, s, c % x.blocks)
      BY <2>2, NamesOf DEF Arrived
    <3>2. Role(r, s)
      BY NamesOf
    <3>3. ~(at[r][s][c % x.blocks] < x.ops[op[r] + 1])
      BY <1>1, <3>1, <3>2 DEF Working, Chunks, Op
    <3>4. at \in [RanksOf(x) -> [Streams -> [BlocksOf(x) -> Nat]]]
      BY DEF Typed
    <3> QED
      BY <2>2, <3>3, <3>4, Zenon
  <2>4. c < at[r][s][c % x.blocks]
    <3> DEFINE z == x.ops[op[r] + 1]
               a == at[r][s][c % x.blocks]
    <3>1. c \in Nat /\ z \in Nat /\ a \in Nat /\ c < z /\ ~(a < z)
      BY <1>1, <2>1, <2>3, Zenon
    <3> HIDE DEF a, z
    <3>2. c < a
      BY <3>1
    <3> QED
      BY <3>2 DEF a
  <2>5. Total(x)[op[r]] + c \in h.u[r][s]
    BY <1>1, <2>1, <2>4, Zenon DEF Used
  <2> QED
    BY <2>1, <2>5
<1> QED
  BY <1>4, <1>5

\* The end of an op.
LEMMA FinishKeeps ==
    ASSUME NEW x \in Sessions, session = x, NEW h \in Counters(x), Body(x, h), NEW r \in RanksOf(x), Finish(r)
    PROVE  Body(x, h)'
<1>1. /\ Typed(x) /\ Counted(x, h) /\ Begins(x, h) /\ Used(x, h) /\ Ordered(x, h) /\ Along(x, h)
      /\ Wired(x, h) /\ Flagged(x, h) /\ Marked(x, h) /\ Valued(x, h)
  BY DEF Body
<1>2. /\ recv' = recv /\ flag' = flag /\ send' = send /\ ready' = ready /\ finished' = finished /\ sent' = sent
      /\ credit' = credit /\ doorbell' = doorbell /\ params' = params /\ last' = last /\ known' = known /\ ops' = ops
      /\ post' = post /\ done' = done /\ consumed' = consumed /\ credited' = credited /\ failed' = failed
      /\ wire' = wire /\ at' = at /\ out' = out /\ poison' = poison /\ error' = error
      /\ running' = [running EXCEPT ![r] = FALSE] /\ Arrived(r) /\ running[r]
  BY DEF Finish, Arrived, area, proxy
<1>3. /\ ~running'[r] /\ \A q \in RanksOf(x) : q # r => running'[q] = running[q]
      /\ \A q \in RanksOf(x) : running'[q] => q # r
  BY <1>1, <1>2 DEF Typed
<1>4. /\ op[r] \in Nat /\ op[r] + 1 \in 1..Len(x.ops) /\ op[r] \in 0..Len(x.ops) /\ op[r] + 1 \in 0..Len(x.ops)
      /\ x.ops[op[r] + 1] \in Nat /\ Len(x.ops) \in Nat /\ Total(x)[op[r] + 1] = Total(x)[op[r]] + x.ops[op[r] + 1]
      /\ Total(x)[op[r]] \in Nat
  BY <1>1, <1>2, RunningOp
<1>5. \/ op' = op /\ base' = base /\ poison[r]
      \/ op' = [op EXCEPT ![r] = op[r] + 1] /\ base' = [base EXCEPT ![r] = Plus(base[r], x.ops[op[r] + 1])]
  <2>1. CASE error[r] # 0
    <3>1. poison[r]
      BY <1>1, <2>1 DEF Used
    <3> QED
      BY <2>1, <3>1 DEF Finish
  <2>2. CASE error[r] = 0
    BY <2>2 DEF Finish, Chunks, Op
  <2> QED
    BY <2>1, <2>2
<1>6. /\ \A q \in RanksOf(x) : q # r => op'[q] = op[q] /\ base'[q] = base[q]
      /\ \/ op'[r] = op[r] /\ base'[r] = base[r] /\ poison[r]
         \/ op'[r] = op[r] + 1 /\ base'[r] = Plus(base[r], x.ops[op[r] + 1])
  BY <1>1, <1>5 DEF Typed
<1>7. base'[r] = Wrap(Total(x)[op'[r]])
  <2>1. base[r] = Wrap(Total(x)[op[r]])
    BY <1>1 DEF Begins
  <2>2. Plus(base[r], x.ops[op[r] + 1]) = Wrap(Total(x)[op[r] + 1])
    <3>1. Total(x)[op[r]] \in Int /\ x.ops[op[r] + 1] \in Int
      BY <1>4
    <3> QED
      BY <1>4, <2>1, <3>1, Wraps, Zenon
  <2> QED
    BY <1>6, <2>1, <2>2
<1>8. Typed(x)'
  <2>1. op \in [RanksOf(x) -> 0..Len(x.ops)] /\ base \in [RanksOf(x) -> Word] /\ running \in [RanksOf(x) -> BOOLEAN]
    BY <1>1 DEF Typed
  <2>2. Plus(base[r], x.ops[op[r] + 1]) \in Word
    <3>1. base[r] \in Int /\ x.ops[op[r] + 1] \in Int /\ base[r] + x.ops[op[r] + 1] \in Int
      BY <1>4, <2>1, Sizes DEF Word
    <3>2. Wrap(base[r] + x.ops[op[r] + 1]) \in Word
      BY <3>1, Wraps
    <3> QED
      BY <3>2 DEF Wrap, Plus
  <2>3. op' \in [RanksOf(x) -> 0..Len(x.ops)] /\ base' \in [RanksOf(x) -> Word] /\ running' \in [RanksOf(x) -> BOOLEAN]
    BY <1>2, <1>4, <1>5, <2>1, <2>2
  <2>4. \A q \in RanksOf(x) : running'[q] =>
          op'[q] < Len(x.ops) /\ out'[q] \in [0..x.ops[op'[q] + 1] - 1 -> [LanesOf(x) -> Seq(Nat)]]
    <3>1. \A q \in RanksOf(x) : running[q] =>
            op[q] < Len(x.ops) /\ out[q] \in [0..x.ops[op[q] + 1] - 1 -> [LanesOf(x) -> Seq(Nat)]]
      BY <1>1 DEF Typed
    <3> QED
      BY <1>2, <1>3, <1>6, <3>1, Zenon
  <2> QED
    BY <1>1, <1>2, <2>3, <2>4, Zenon DEF Typed
<1>9. /\ \A q \in RanksOf(x) : q # r => Begun(q)' = Begun(q)
      /\ Begun(r) = op[r] + 1 /\ Begun(r)' >= op[r] + 1 /\ (~poison[r] => Begun(r)' = op[r] + 1)
      /\ (~poison[r] => op'[r] = op[r] + 1)
  <2>1. \A q \in RanksOf(x) : q # r => Begun(q)' = Begun(q)
    BY <1>2, <1>3, <1>6 DEF Begun
  <2>2. Begun(r) = op[r] + 1
    BY <1>2 DEF Begun
  <2>3. Begun(r)' = op'[r] + IF poison[r] THEN 1 ELSE 0
    BY <1>2, <1>3 DEF Begun
  <2> QED
    BY <1>4, <1>6, <2>1, <2>2, <2>3
<1>10. Begins(x, h)'
  <2> SUFFICES ASSUME NEW q \in RanksOf(x)
               PROVE  base'[q] = Wrap(Total(x)[op'[q]]) /\ h.b[q] <= Begun(q)'
    BY <1>1, <1>2, Zenon DEF Begins
  <2>1. CASE q = r
    <3>1. h.b[r] <= Begun(r) /\ h.b[r] \in Nat
      BY <1>1, CounterTypes DEF Begins
    <3>2. Begun(r)' \in Nat
      <4>1. op'[r] \in Nat
        BY <1>4, <1>6
      <4> QED
        BY <4>1 DEF Begun
    <3>3. h.b[r] <= Begun(r)'
      BY <1>4, <1>9, <3>1, <3>2
    <3> QED
      BY <1>7, <2>1, <3>3
  <2>2. CASE q # r
    BY <1>1, <1>6, <1>9, <2>2 DEF Begins
  <2> QED
    BY <2>1, <2>2
<1>11. Used(x, h)'
  <2> SUFFICES ASSUME NEW q \in RanksOf(x)
               PROVE  /\ ~poison'[q] => error'[q] = 0 /\ h.b[q] = Begun(q)'
                      /\ \A z \in Streams : \A g \in h.u[q][z] : g < Total(x)[h.b[q]]
                      /\ \A z \in Streams : Works(x, q, z) =>
                           /\ \A n \in 1..h.b[q], g \in Nat : g < Total(x)[n - 1] => g \in h.u[q][z]
                           /\ ~poison'[q] /\ ~running'[q] => \A g \in Nat : g < Total(x)[op'[q]] => g \in h.u[q][z]
                           /\ ~poison'[q] /\ running'[q] =>
                                /\ \A i \in BlocksOf(x) : at'[q][z][i] % x.blocks = i
                                /\ \A c \in 0..x.ops[op'[q] + 1] - 1 :
                                      Total(x)[op'[q]] + c \in h.u[q][z] <=> c < at'[q][z][c % x.blocks]
    BY Zenon DEF Used
  <2>1. CASE q = r
    <3>1. ~poison[r] => error'[r] = 0 /\ h.b[r] = Begun(r)'
      BY <1>1, <1>2, <1>9 DEF Used
    <3>2. ~poison[r] => \A z \in Streams : Works(x, r, z) => \A g \in Nat : g < Total(x)[op'[r]] => g \in h.u[r][z]
      BY <1>1, <1>2, <1>9, ArrivedUses
    <3> QED
      BY <1>1, <1>2, <1>3, <2>1, <3>1, <3>2, Zenon DEF Used
  <2>2. CASE q # r
    BY <1>1, <1>2, <1>3, <1>6, <1>9, <2>2, Zenon DEF Used
  <2> QED
    BY <2>1, <2>2
<1>12. Valued(x, h)'
  <2> SUFFICES ASSUME NEW q \in RanksOf(x), NEW n \in 1..Len(x.ops), NEW c \in 0..x.ops[n] - 1, NEW l \in LanesOf(x)
               PROVE  /\ \A z \in Streams : In(x, q, z) =>
                            RecvHolds(x, recv'[q][z], h.d[InPeer(q, z)][z][l], q, z, n, c, l, Total(x)[n - 1] + c)
                      /\ SendHolds(send'[q], h.u[q]["partial"], q, n, c, l, Total(x)[n - 1] + c)
                      /\ ~poison'[q] /\ running'[q] /\ n = op'[q] + 1 =>
                            OutHolds(x, out'[q], h.u[q][Stores(x, q)], n, c, l, Total(x)[n - 1] + c)
    BY Zenon DEF Valued
  <2>1. running'[q] => running[q] /\ op'[q] = op[q]
    BY <1>3, <1>6
  <2>2. /\ \A z \in Streams : In(x, q, z) =>
              RecvHolds(x, recv[q][z], h.d[InPeer(q, z)][z][l], q, z, n, c, l, Total(x)[n - 1] + c)
        /\ SendHolds(send[q], h.u[q]["partial"], q, n, c, l, Total(x)[n - 1] + c)
        /\ ~poison[q] /\ running[q] /\ n = op[q] + 1 =>
              OutHolds(x, out[q], h.u[q][Stores(x, q)], n, c, l, Total(x)[n - 1] + c)
    BY <1>1, Zenon DEF Valued
  <2> QED
    BY <1>2, <2>1, <2>2, Zenon
<1>13. Counted(x, h)' /\ Wired(x, h)' /\ Flagged(x, h)' /\ Marked(x, h)'
  <2>1. Counted(x, h)'
    BY <1>1, <1>2, CountedSame
  <2>2. Wired(x, h)' /\ Flagged(x, h)' /\ Marked(x, h)'
    BY <1>1, <1>2, WiredSame, FlaggedSame, MarkedSame
  <2> QED
    BY <2>1, <2>2
<1>14. Ordered(x, h)' /\ Along(x, h)'
  BY <1>1 DEF Ordered, OutOrder, InOrder, SendOrder, Along
<1> QED
  BY <1>8, <1>10, <1>11, <1>12, <1>13, <1>14 DEF Body

-----------------------------------------------------------------------------
(* The kernel: chunks reduced and copied.                                  *)

\* The chunk that block b of a role comes to is not used yet, and at most the blocks ahead of what is.
LEMMA BlockAhead ==
    ASSUME NEW x \in Sessions, session = x, NEW h \in Counters(x), Typed(x), Begins(x, h), Used(x, h), NEW r \in RanksOf(x),
           NEW s \in Streams, NEW b \in BlocksOf(x), Working(r, s, b), ~poison[r],
           NEW g, g = Total(x)[op[r]] + at[r][s][b]
    PROVE  /\ running[r] /\ Works(x, r, s) /\ at[r][s][b] \in Nat /\ at[r][s][b] \in 0..x.ops[op[r] + 1] - 1
           /\ at[r][s][b] % x.blocks = b
           /\ g \in Nat /\ g \notin h.u[r][s] /\ g < Total(x)[op[r] + 1] /\ h.b[r] = op[r] + 1
           /\ Global(r, s, b) = Wrap(g)
           /\ \A d \in Nat : (\A a \in h.u[r][s] : a < d) => g < d + x.blocks
<1> DEFINE c == at[r][s][b]
           e == Total(x)[op[r]]
           k == x.ops[op[r] + 1]
<1>1. running[r] /\ Works(x, r, s) /\ c < k
  BY NamesOf DEF Working, Chunks, Op
<1>2. c \in Nat /\ op[r] \in Nat /\ k \in Nat /\ e \in Nat /\ Total(x)[op[r] + 1] = e + k
  <2>1. at \in [RanksOf(x) -> [Streams -> [BlocksOf(x) -> Nat]]]
    BY DEF Typed
  <2>2. op[r] \in Nat /\ k \in Nat /\ e \in Nat /\ Total(x)[op[r] + 1] = e + k
    BY <1>1, RunningOp
  <2> QED
    BY <2>1, <2>2
<1>3. c % x.blocks = b /\ \A a \in 0..k - 1 : e + a \in h.u[r][s] <=> a < at[r][s][a % x.blocks]
  BY <1>1, Zenon DEF Used
<1>4. h.b[r] = op[r] + 1
  BY <1>1 DEF Used, Begun
<1>5. base[r] = Wrap(e)
  BY DEF Begins
<1>6. Global(r, s, b) = Plus(Wrap(e), c)
  BY <1>5 DEF Global
<1>7. x.blocks \in Nat \ {0} /\ b \in 0..x.blocks - 1
  BY SessionIs DEF BlocksOf
<1>8. \A a \in Nat : a < e => a \in h.u[r][s]
  <2> DEFINE n == op[r] + 1
  <2>1. n \in 1..h.b[r] /\ n - 1 = op[r]
    BY <1>2, <1>4
  <2> HIDE DEF n
  <2>2. \A a \in Nat : a < Total(x)[n - 1] => a \in h.u[r][s]
    BY <1>1, <2>1, Zenon DEF Used
  <2> QED
    BY <2>1, <2>2
<1>9. \A a \in h.u[r][s] : a \in Nat
  BY CounterTypes
<1>10. at[r][s][b] = c /\ g = e + c
  OBVIOUS
<1> HIDE DEF c, e, k
<1>11. g \in Nat /\ g < e + k /\ c \in 0..k - 1
  BY <1>1, <1>2, <1>10
<1>12. Global(r, s, b) = Wrap(g)
  <2>1. e \in Int /\ c \in Int
    BY <1>2
  <2> QED
    BY <1>6, <1>10, <2>1, Wraps, Zenon
<1>13. g \notin h.u[r][s]
  <2> SUFFICES ASSUME e + c \in h.u[r][s] PROVE FALSE
    BY <1>10
  <2>1. c < at[r][s][c % x.blocks]
    BY <1>3, <1>11, Zenon
  <2>2. at[r][s][c % x.blocks] = c
    BY <1>3, <1>10, Zenon
  <2>3. c < c
    BY <2>1, <2>2, Zenon
  <2> QED
    BY <1>2, <2>3
<1>14. ASSUME NEW d \in Nat, \A a \in h.u[r][s] : a < d
       PROVE  g < d + x.blocks
  <2>1. CASE c < x.blocks
    <3>1. e <= d
      <4>1. CASE e = 0
        BY <4>1
      <4>2. CASE e # 0
        <5>1. e - 1 \in Nat /\ e - 1 < e
          BY <1>2, <4>2
        <5>2. e - 1 < d
          BY <1>8, <1>14, <5>1
        <5> QED
          BY <1>2, <5>2
      <4> QED
        BY <4>1, <4>2
    <3> QED
      BY <1>2, <1>7, <1>10, <2>1, <3>1
  <2>2. CASE ~(c < x.blocks)
    <3> DEFINE a == c - x.blocks
    <3>1. a \in Nat /\ a \in 0..k - 1 /\ a < c /\ a + x.blocks = c /\ a \in Int /\ c \in Int
      BY <1>1, <1>2, <1>7, <2>2
    <3>2. c = a + x.blocks * 1 /\ 1 \in Int
      BY <1>7, <3>1
    <3> HIDE DEF a
    <3>3. c % x.blocks = a % x.blocks
      BY <1>7, <3>1, <3>2, Turns, Zenon
    <3>4. a < at[r][s][a % x.blocks]
      BY <1>3, <1>10, <3>1, <3>3, Zenon
    <3>5. e + a \in h.u[r][s]
      BY <1>3, <3>1, <3>4, Zenon
    <3>6. e + a < d
      BY <1>14, <3>5
    <3> QED
      BY <1>2, <1>7, <1>10, <3>1, <3>6
  <2> QED
    BY <2>1, <2>2
<1> QED
  BY <1>1, <1>2, <1>3, <1>4, <1>10, <1>11, <1>12, <1>13, <1>14 DEF c, e, k

\* After its waits the chunk is in the receive slot, whose next one is not, and fits the send slot.
LEMMA WaitedTells ==
    ASSUME Aligned, NEW x \in Sessions, session = x, NEW h \in Counters(x), Body(x, h), NEW r \in RanksOf(x),
           NEW s \in Streams, NEW b \in BlocksOf(x), Working(r, s, b), Waited(r, s, b), ~poison[r],
           NEW g, g = Total(x)[op[r]] + at[r][s][b]
    PROVE  /\ Global(r, s, b) % Slots = g % Slots
           /\ Plus(Global(r, s, b), 1) = Wrap(g + 1)
           /\ In(x, r, s) => /\ h.k[r][s] <= g /\ g < h.k[r][s] + Slots
                             /\ \A l \in LanesOf(x) : /\ g < h.d[InPeer(r, s)][s][l]
                                                      /\ h.d[InPeer(r, s)][s][l] <= g + Slots
           /\ s = "partial" => h.n[r] <= g /\ g < h.n[r] + Slots
<1>1. /\ Typed(x) /\ Counted(x, h) /\ Begins(x, h) /\ Used(x, h) /\ Ordered(x, h) /\ Flagged(x, h)
  BY DEF Body
<1>2. /\ g \in Nat /\ g \notin h.u[r][s] /\ Global(r, s, b) = Wrap(g)
      /\ \A d \in Nat : (\A a \in h.u[r][s] : a < d) => g < d + x.blocks
  BY <1>1, BlockAhead
<1>3. Wrap(g) % Slots = g % Slots /\ Plus(Wrap(g), 1) = Wrap(g + 1)
  <2>1. g \in Int /\ 1 \in Int
    BY <1>2
  <2> QED
    BY <2>1, PlaceOfWord, Wraps, Zenon
<1>4. /\ Slots \in Nat /\ Slots >= 2 /\ Modulus \in Nat /\ Modulus \div 2 \in Nat /\ Modulus = 2 * (Modulus \div 2)
      /\ Slots < Modulus \div 2 /\ x.blocks \in Nat /\ x.blocks <= Modulus \div 2
  BY Sizes, SessionIs
<1>5. ASSUME In(x, r, s), NEW l \in LanesOf(x)
      PROVE  /\ h.k[r][s] <= g /\ g < h.k[r][s] + Slots
             /\ g < h.d[InPeer(r, s)][s][l] /\ h.d[InPeer(r, s)][s][l] <= g + Slots
  <2> DEFINE d == h.d[InPeer(r, s)][s][l]
  <2>1. /\ h.k[r][s] \in Nat /\ h.c[r][s] \in Nat /\ d \in Nat /\ h.p[InPeer(r, s)][s] \in Nat
        /\ h.k[r][s] <= h.c[r][s] /\ d <= h.p[InPeer(r, s)][s]
        /\ h.p[InPeer(r, s)][s] <= h.k[r][s] + Slots
        /\ \A a \in Nat : a < h.c[r][s] => a \in h.u[r][s]
        /\ \A a \in h.u[r][s] : a < d
    BY <1>1, <1>5, LinkBounds
  <2>2. flag[r][s][g % Slots][l] = Wrap(g + 1)
    <3>1. Inbound(r, s, Wrap(g))
      BY <1>2 DEF Waited
    <3>2. HasIn(r, s) /\ l \in Lane
      BY <1>5, NamesOf
    <3> QED
      BY <1>3, <3>1, <3>2, Zenon DEF Inbound
  <2> HIDE DEF d
  <2>3. h.k[r][s] <= g /\ d <= g + Slots
    BY <1>2, <1>4, <2>1
  <2>4. g < d + x.blocks
    BY <1>2, <2>1
  <2>5. g < d + Modulus - Slots
    BY <1>2, <1>4, <2>1, <2>4
  <2>6. g < d
    BY <1>1, <1>2, <1>5, <2>2, <2>3, <2>5, FlagTells DEF d
  <2>7. g < h.k[r][s] + Slots
    BY <1>2, <1>4, <2>1, <2>6
  <2> QED
    BY <2>3, <2>6, <2>7 DEF d
<1>6. ASSUME s = "partial"
      PROVE  h.n[r] <= g /\ g < h.n[r] + Slots
  <2>1. h.n[r] \in Nat /\ 1 \in LanesOf(x) /\ Own(x, r) \in Streams /\ Out(x, r, Own(x, r))
    BY CounterTypes, SessionIs, Neighbours
  <2>2. /\ h.n[r] <= h.d[r][Own(x, r)][1] /\ h.d[r][Own(x, r)][1] <= h.p[r][Own(x, r)]
        /\ \A a \in Nat : a < h.p[r][Own(x, r)] => a \in h.u[r]["partial"]
        /\ \A a \in h.u[r]["partial"] : a < h.n[r] + Slots
    BY <1>1, <2>1, Zenon DEF Ordered, OutOrder, SendOrder
  <2>3. h.d[r][Own(x, r)][1] \in Nat /\ h.p[r][Own(x, r)] \in Nat
    BY <2>1, CounterTypes
  <2>4. ~(g < h.p[r][Own(x, r)])
    BY <1>2, <1>6, <2>2
  <2>5. h.n[r] <= g
    BY <1>2, <2>1, <2>2, <2>3, <2>4
  <2>6. g < h.n[r] + Slots + x.blocks
    <3>1. h.n[r] + Slots \in Nat
      BY <1>4, <2>1
    <3> QED
      BY <1>2, <1>6, <2>2, <3>1
  <2>7. ~Behind(Wrap(h.n[r]), Wrap((g + 1) - Slots))
    <3>1. sent[r] = Wrap(h.n[r])
      BY <1>1 DEF Counted
    <3>2. ~Behind(sent[r], Minus(Plus(Wrap(g), 1), Slots))
      BY <1>2, <1>6 DEF Waited, SendSlot
    <3>3. Minus(Wrap(g + 1), Slots) = Wrap((g + 1) - Slots)
      <4>1. g + 1 \in Int /\ Slots \in Int
        BY <1>2, <1>4
      <4> QED
        BY <4>1, Wraps, Zenon
    <3> QED
      BY <1>3, <3>1, <3>2, <3>3
  <2>8. /\ h.n[r] \in Int /\ (g + 1) - Slots \in Int /\ -(Modulus \div 2) <= h.n[r] - ((g + 1) - Slots)
        /\ h.n[r] - ((g + 1) - Slots) < Modulus \div 2
    BY <1>2, <1>4, <2>1, <2>5, <2>6
  <2>9. ~(h.n[r] < (g + 1) - Slots)
    BY <2>7, <2>8, Compares, Zenon
  <2> QED
    BY <1>2, <1>4, <2>1, <2>5, <2>9
<1>7. 1 \in LanesOf(x)
  BY SessionIs
<1> QED
  BY <1>2, <1>3, <1>5, <1>6, <1>7, Zenon

\* Block b of the role for s uses its chunk, of number g, and goes on by the blocks.
Uses(x, h, j, r, s, b, g) ==
    /\ Working(r, s, b) /\ ~poison[r] /\ g = Total(x)[op[r]] + at[r][s][b]
    /\ j.b = h.b /\ j.u = [h.u EXCEPT ![r][s] = @ \cup {g}]
    /\ at' = [at EXCEPT ![r][s][b] = @ + x.blocks]
    /\ poison' = poison /\ error' = error /\ op' = op /\ running' = running

\* Then that chunk is used as well.
LEMMA UsedGrows ==
    ASSUME NEW x \in Sessions, session = x, NEW h \in Counters(x), Body(x, h), NEW r \in RanksOf(x),
           NEW s \in Streams, NEW b \in BlocksOf(x), NEW g, NEW j, Uses(x, h, j, r, s, b, g)
    PROVE  /\ Used(x, j)'
           /\ at' \in [RanksOf(x) -> [Streams -> [BlocksOf(x) -> Nat]]]
<1>1. Typed(x) /\ Begins(x, h) /\ Used(x, h) /\ Working(r, s, b) /\ ~poison[r]
  BY DEF Body, Uses
<1>2. /\ running[r] /\ Works(x, r, s) /\ at[r][s][b] \in Nat /\ at[r][s][b] \in 0..x.ops[op[r] + 1] - 1
      /\ at[r][s][b] % x.blocks = b
      /\ g \in Nat /\ g \notin h.u[r][s] /\ g < Total(x)[op[r] + 1] /\ h.b[r] = op[r] + 1
  BY <1>1, BlockAhead DEF Uses
<1>3. poison' = poison /\ error' = error /\ op' = op /\ running' = running /\ j.b = h.b
  BY DEF Uses
<1>4. /\ j.u[r][s] = h.u[r][s] \cup {g}
      /\ \A q \in RanksOf(x), z \in Streams : (q # r \/ z # s) => j.u[q][z] = h.u[q][z]
  <2>1. h.u \in [RanksOf(x) -> [Streams -> SUBSET Nat]] /\ j.u = [h.u EXCEPT ![r][s] = @ \cup {g}]
    BY FieldTypes DEF Uses
  <2> QED
    BY <2>1
<1>5. x.blocks \in Nat \ {0}
  BY SessionIs
<1>6. /\ at'[r][s][b] = at[r][s][b] + x.blocks
      /\ \A i \in BlocksOf(x) : i # b => at'[r][s][i] = at[r][s][i]
      /\ \A q \in RanksOf(x), z \in Streams : (q # r \/ z # s) => at'[q][z] = at[q][z]
      /\ at' \in [RanksOf(x) -> [Streams -> [BlocksOf(x) -> Nat]]]
  <2>1. at \in [RanksOf(x) -> [Streams -> [BlocksOf(x) -> Nat]]] /\ at' = [at EXCEPT ![r][s][b] = @ + x.blocks]
    BY <1>1 DEF Typed, Uses
  <2> QED
    BY <1>5, <2>1
<1>7. \A q \in RanksOf(x) : Begun(q)' = Begun(q)
  BY <1>3 DEF Begun
<1> SUFFICES ASSUME NEW q \in RanksOf(x)
             PROVE  /\ ~poison'[q] => error'[q] = 0 /\ j.b[q] = Begun(q)'
                    /\ \A z \in Streams : \A a \in j.u[q][z] : a < Total(x)[j.b[q]]
                    /\ \A z \in Streams : Works(x, q, z) =>
                         /\ \A n \in 1..j.b[q], a \in Nat : a < Total(x)[n - 1] => a \in j.u[q][z]
                         /\ ~poison'[q] /\ ~running'[q] => \A a \in Nat : a < Total(x)[op'[q]] => a \in j.u[q][z]
                         /\ ~poison'[q] /\ running'[q] =>
                              /\ \A i \in BlocksOf(x) : at'[q][z][i] % x.blocks = i
                              /\ \A c \in 0..x.ops[op'[q] + 1] - 1 :
                                    Total(x)[op'[q]] + c \in j.u[q][z] <=> c < at'[q][z][c % x.blocks]
  BY <1>6, Zenon DEF Used
<1>8. ~poison'[q] => error'[q] = 0 /\ j.b[q] = Begun(q)'
  BY <1>1, <1>3, <1>7 DEF Used
<1>9. ASSUME NEW z \in Streams, NEW a \in j.u[q][z]
      PROVE  a < Total(x)[j.b[q]]
  <2>1. CASE a \in h.u[q][z]
    BY <1>1, <1>3, <2>1, Zenon DEF Used
  <2>2. CASE a \notin h.u[q][z]
    <3>1. q = r /\ z = s /\ a = g
      BY <1>4, <1>9, <2>2, Zenon
    <3> QED
      BY <1>2, <1>3, <3>1, Zenon
  <2> QED
    BY <2>1, <2>2
<1>10. ASSUME NEW z \in Streams, Works(x, q, z)
       PROVE  /\ \A n \in 1..j.b[q], a \in Nat : a < Total(x)[n - 1] => a \in j.u[q][z]
              /\ ~poison[q] /\ ~running[q] => \A a \in Nat : a < Total(x)[op[q]] => a \in j.u[q][z]
  <2>1. \A a \in h.u[q][z] : a \in j.u[q][z]
    <3>1. CASE q # r \/ z # s
      BY <1>4, <3>1, Zenon
    <3>2. CASE q = r /\ z = s
      BY <1>4, <3>2, Zenon
    <3> QED
      BY <3>1, <3>2
  <2> QED
    BY <1>1, <1>3, <1>10, <2>1, Zenon DEF Used
<1>11. ASSUME NEW z \in Streams, Works(x, q, z), ~poison[q], running[q], q # r \/ z # s
       PROVE  /\ \A i \in BlocksOf(x) : at'[q][z][i] % x.blocks = i
              /\ \A c \in 0..x.ops[op[q] + 1] - 1 : Total(x)[op[q]] + c \in j.u[q][z] <=> c < at'[q][z][c % x.blocks]
  <2>1. at'[q][z] = at[q][z] /\ j.u[q][z] = h.u[q][z]
    BY <1>4, <1>6, <1>11, Zenon
  <2>2. /\ \A i \in BlocksOf(x) : at[q][z][i] % x.blocks = i
        /\ \A c \in 0..x.ops[op[q] + 1] - 1 : Total(x)[op[q]] + c \in h.u[q][z] <=> c < at[q][z][c % x.blocks]
    BY <1>1, <1>11, Zenon DEF Used
  <2> QED
    BY <2>1, <2>2, Zenon
<1>12. ASSUME NEW i \in BlocksOf(x)
       PROVE  at'[r][s][i] % x.blocks = i
  <2>1. CASE i # b
    <3>1. at[r][s][i] % x.blocks = i
      BY <1>1, <1>2, Zenon DEF Used
    <3> QED
      BY <1>6, <2>1, <3>1, Zenon
  <2>2. CASE i = b
    <3> DEFINE y == at[r][s][b]
               w == x.blocks
    <3>1. y \in Nat /\ w \in Nat \ {0}
      BY <1>2, <1>5
    <3> HIDE DEF y, w
    <3>2. y \in Int
      BY <3>1
    <3>3. (y + w) % w = y % w
      BY <3>1, <3>2, OneTurn, Zenon
    <3> QED
      BY <1>2, <1>6, <2>2, <3>3, Zenon DEF y, w
  <2> QED
    BY <2>1, <2>2
<1>13. ASSUME NEW c \in 0..x.ops[op[r] + 1] - 1
       PROVE  Total(x)[op[r]] + c \in j.u[r][s] <=> c < at'[r][s][c % x.blocks]
  <2>1. Total(x)[op[r]] + c \in h.u[r][s] <=> c < at[r][s][c % x.blocks]
    BY <1>1, <1>2, Zenon DEF Used
  <2>2. c \in Nat /\ Total(x)[op[r]] \in Nat
    BY <1>1, <1>2, RunningOp
  <2>3. c % x.blocks \in BlocksOf(x)
    BY <1>5, <2>2, Within, Zenon DEF BlocksOf
  <2>4. Total(x)[op[r]] + c = g <=> c = at[r][s][b]
    <3> DEFINE e == Total(x)[op[r]]
               y == at[r][s][b]
    <3>1. e \in Nat /\ y \in Nat /\ c \in Nat /\ g = e + y
      BY <1>2, <2>2 DEF Uses
    <3> HIDE DEF e, y
    <3>2. e + c = g <=> c = y
      BY <3>1
    <3> QED
      BY <3>2 DEF e, y
  <2>5. CASE c % x.blocks # b
    <3>1. c # at[r][s][b]
      BY <1>2, <2>5, Zenon
    <3>2. Total(x)[op[r]] + c # g
      BY <2>4, <3>1, Zenon
    <3>3. at'[r][s][c % x.blocks] = at[r][s][c % x.blocks]
      BY <1>6, <2>3, <2>5, Zenon
    <3> QED
      BY <1>4, <2>1, <3>2, <3>3, Zenon
  <2>6. CASE c % x.blocks = b
    <3> DEFINE y == at[r][s][b]
    <3>1. at'[r][s][c % x.blocks] = y + x.blocks /\ at[r][s][c % x.blocks] = y
      BY <1>6, <2>6, Zenon
    <3>2. y \in Nat /\ y % x.blocks = c % x.blocks
      BY <1>2, <2>6, Zenon
    <3> HIDE DEF y
    <3>3. c < y + x.blocks <=> c < y \/ c = y
      <4>1. c < y + x.blocks => c < y \/ c = y
        <5> SUFFICES ASSUME c < y + x.blocks, ~(c < y) PROVE c = y
          OBVIOUS
        <5>1. c \in Int /\ y \in Int /\ -x.blocks < c - y /\ c - y < x.blocks
          BY <1>5, <2>2, <3>2
        <5> QED
          BY <1>5, <3>2, <5>1, Congruent, Zenon
      <4>2. c < y \/ c = y => c < y + x.blocks
        BY <1>5, <2>2, <3>2
      <4> QED
        BY <4>1, <4>2
    <3>4. Total(x)[op[r]] + c \in j.u[r][s] <=> c < y \/ c = y
      BY <1>4, <2>1, <2>4, <3>1, Zenon DEF y
    <3> QED
      BY <3>1, <3>3, <3>4, Zenon
  <2> QED
    BY <2>5, <2>6
<1>14. ASSUME NEW z \in Streams, Works(x, q, z), ~poison[q], running[q]
       PROVE  /\ \A i \in BlocksOf(x) : at'[q][z][i] % x.blocks = i
              /\ \A c \in 0..x.ops[op[q] + 1] - 1 : Total(x)[op[q]] + c \in j.u[q][z] <=> c < at'[q][z][c % x.blocks]
  <2>1. CASE q # r \/ z # s
    BY <1>11, <1>14, <2>1, Zenon
  <2>2. CASE q = r /\ z = s
    BY <1>12, <1>13, <2>2, Zenon
  <2> QED
    BY <2>1, <2>2
<1> QED
  BY <1>3, <1>8, <1>9, <1>10, <1>14, Zenon

\* A used chunk is one of those written, and within the send slots.
LEMMA OrderedGrows ==
    ASSUME NEW x \in Sessions, NEW h \in Counters(x), Ordered(x, h), NEW r \in RanksOf(x), NEW s \in Streams, NEW g \in Nat,
           NEW j, j.u = [h.u EXCEPT ![r][s] = @ \cup {g}], j.p = h.p, j.t = h.t, j.f = h.f, j.k = h.k, j.d = h.d,
           j.n = h.n, j.c = h.c,
           In(x, r, s) => \A l \in LanesOf(x) : g < h.d[InPeer(r, s)][s][l],
           s = "partial" => g < h.n[r] + Slots
    PROVE  Ordered(x, j)
<1>1. /\ j.u[r][s] = h.u[r][s] \cup {g}
      /\ \A q \in RanksOf(x), z \in Streams : (q # r \/ z # s) => j.u[q][z] = h.u[q][z]
  <2>1. h.u \in [RanksOf(x) -> [Streams -> SUBSET Nat]]
    BY FieldTypes
  <2> QED
    BY <2>1
<1>2. \A q \in RanksOf(x), z \in Streams : \A a : a \in h.u[q][z] => a \in j.u[q][z]
  BY <1>1, Zenon
<1>3. \A q \in RanksOf(x), z \in Streams : \A a : a \in j.u[q][z] => a \in h.u[q][z] \/ (q = r /\ z = s /\ a = g)
  BY <1>1, Zenon
<1>4. "partial" \in Streams
  BY DEF Streams
<1>5. ASSUME NEW q \in RanksOf(x), NEW z \in Streams, Out(x, q, z)
      PROVE  OutOrder(x, j, q, z)
  <2>1. OutOrder(x, h, q, z)
    BY <1>5, Zenon DEF Ordered
  <2> QED
    BY <1>2, <1>4, <2>1, Zenon DEF OutOrder
<1>6. ASSUME NEW q \in RanksOf(x), NEW z \in Streams, In(x, q, z)
      PROVE  InOrder(x, j, q, z)
  <2>1. InOrder(x, h, q, z)
    BY <1>6, Zenon DEF Ordered
  <2>2. ASSUME NEW a \in j.u[q][z], NEW l \in LanesOf(x)
        PROVE  a < h.d[InPeer(q, z)][z][l]
    <3>1. CASE a \in h.u[q][z]
      BY <2>1, <3>1, Zenon DEF InOrder
    <3>2. CASE a \notin h.u[q][z]
      <4>1. q = r /\ z = s /\ a = g
        BY <1>3, <2>2, <3>2, Zenon
      <4> QED
        BY <1>6, <4>1, Zenon
    <3> QED
      BY <3>1, <3>2
  <2> QED
    BY <1>2, <2>1, <2>2, Zenon DEF InOrder
<1>7. ASSUME NEW q \in RanksOf(x)
      PROVE  SendOrder(x, j, q)
  <2>1. SendOrder(x, h, q)
    BY Zenon DEF Ordered
  <2>2. \A a \in j.u[q]["partial"] : a < h.n[q] + Slots
    BY <1>3, <1>4, <2>1, Zenon DEF SendOrder
  <2> QED
    BY <2>1, <2>2, Zenon DEF SendOrder
<1> QED
  BY <1>5, <1>6, <1>7, Zenon DEF Ordered

\* The words of a ring whose chunks before o are all used, when the next one is marked.
LEMMA MarkedGrows ==
    ASSUME NEW x \in Sessions, NEW h \in Counters(x), Ordered(x, h), Marked(x, h), Typed(x), NEW r \in RanksOf(x),
           NEW s \in Streams, In(x, r, s), NEW g \in Nat, h.k[r][s] <= g, g < h.k[r][s] + Slots,
           NEW a, a = [finished[r][s] EXCEPT ![g % Slots] = Wrap(g + 1)]
    PROVE  Newest(a, h.u[r][s] \cup {g})
<1>1. 1 \in LanesOf(x)
  BY SessionIs
<1>2. /\ h.k[r][s] \in Nat /\ h.c[r][s] \in Nat /\ h.k[r][s] <= h.c[r][s]
      /\ \A y \in Nat : y < h.c[r][s] => y \in h.u[r][s]
      /\ \A y \in h.u[r][s] : y < h.k[r][s] + Slots
  BY <1>1, LinkBounds
<1>3. \A y \in Nat : y < h.k[r][s] => y \in h.u[r][s]
  BY <1>2
<1>4. h.u[r][s] \in SUBSET Nat /\ finished[r][s] \in [Slot -> Word] /\ Newest(finished[r][s], h.u[r][s])
  <2>1. h.u[r][s] \in SUBSET Nat
    BY CounterTypes
  <2>2. finished \in [RanksOf(x) -> [Streams -> [Slot -> Word]]]
    BY DEF Typed
  <2>3. Newest(finished[r][s], h.u[r][s])
    BY Zenon DEF Marked
  <2> QED
    BY <2>1, <2>2, <2>3
<1> QED
  BY <1>2, <1>3, <1>4, NewestGrows, Zenon

\* The words of the send slots after chunk g is staged.
LEMMA ReadyGrows ==
    ASSUME NEW x \in Sessions, NEW h \in Counters(x), Ordered(x, h), Marked(x, h), Typed(x), NEW r \in RanksOf(x),
           NEW g \in Nat, h.n[r] <= g, g < h.n[r] + Slots,
           NEW a, a = [ready[r] EXCEPT ![g % Slots] = Wrap(g + 1)]
    PROVE  /\ Newest(a, h.u[r]["partial"] \cup {g})
           /\ \A y \in Nat : y < h.n[r] => y \in h.u[r]["partial"]
           /\ \A y \in h.u[r]["partial"] : y < h.n[r] + Slots
           /\ h.u[r]["partial"] \in SUBSET Nat /\ h.n[r] \in Nat
<1>1. /\ h.n[r] \in Nat /\ 1 \in LanesOf(x) /\ Own(x, r) \in Streams /\ Out(x, r, Own(x, r)) /\ "partial" \in Streams
      /\ h.u[r]["partial"] \in SUBSET Nat
  BY CounterTypes, SessionIs, Neighbours DEF Streams
<1>2. /\ h.n[r] <= h.d[r][Own(x, r)][1] /\ h.d[r][Own(x, r)][1] <= h.p[r][Own(x, r)]
      /\ \A y \in Nat : y < h.p[r][Own(x, r)] => y \in h.u[r]["partial"]
      /\ \A y \in h.u[r]["partial"] : y < h.n[r] + Slots
  BY <1>1, Zenon DEF Ordered, OutOrder, SendOrder
<1>3. h.d[r][Own(x, r)][1] \in Nat /\ h.p[r][Own(x, r)] \in Nat
  BY <1>1, CounterTypes
<1>4. \A y \in Nat : y < h.n[r] => y \in h.u[r]["partial"]
  BY <1>1, <1>2, <1>3
<1>5. ready[r] \in [Slot -> Word] /\ Newest(ready[r], h.u[r]["partial"])
  <2>1. ready \in [RanksOf(x) -> [Slot -> Word]]
    BY DEF Typed
  <2>2. Newest(ready[r], h.u[r]["partial"])
    BY Zenon DEF Marked
  <2> QED
    BY <2>1, <2>2
<1>6. Newest(a, h.u[r]["partial"] \cup {g})
  BY <1>1, <1>2, <1>4, <1>5, NewestGrows, Zenon
<1> QED
  BY <1>1, <1>2, <1>4, <1>6

\* A reduced chunk is in the send slot, as the sum over one rank more.
LEMMA ReduceKeeps ==
    ASSUME Aligned, NEW x \in Sessions, session = x, NEW h \in Counters(x), Body(x, h), NEW r \in RanksOf(x),
           NEW b \in BlocksOf(x), Reduce(r, b)
    PROVE  \E j \in Counters(x) : Body(x, j)'
<1>1. PICK c, g : c = at[r]["partial"][b] /\ g = Total(x)[op[r]] + at[r]["partial"][b]
  OBVIOUS
<1> DEFINE gl == Global(r, "partial", b)
           sum == [l \in LanesOf(x) |-> Add(r, c, IF r = 0 THEN Value(Op(r), c, 0) ELSE recv[r]["partial"][gl % Slots][l])]
<1>2. /\ Typed(x) /\ Counted(x, h) /\ Begins(x, h) /\ Used(x, h) /\ Ordered(x, h) /\ Along(x, h)
      /\ Wired(x, h) /\ Flagged(x, h) /\ Marked(x, h) /\ Valued(x, h)
  BY DEF Body
<1>3. "partial" \in Streams
  BY DEF Streams
<1>4. /\ Working(r, "partial", b) /\ Waited(r, "partial", b) /\ ~poison[r]
      /\ send' = [send EXCEPT ![r][gl % Slots] = sum]
      /\ out' = IF r = x.world - 1 THEN [out EXCEPT ![r][c] = sum] ELSE out
      /\ finished' = IF r = 0 THEN finished ELSE [finished EXCEPT ![r]["partial"][gl % Slots] = Plus(gl, 1)]
      /\ ready' = [ready EXCEPT ![r][gl % Slots] = Plus(gl, 1)]
      /\ at' = [at EXCEPT ![r]["partial"][b] = @ + x.blocks]
      /\ UNCHANGED <<session, recv, flag, sent, credit, doorbell, params, proxy, wire, op, base, running, poison, error>>
  <2>1. /\ First(r) <=> r = 0
        /\ Final(r) <=> r = x.world - 1
        /\ Lane = LanesOf(x)
    BY <1>3, NamesOf, Zenon
  <2> QED
    BY <1>1, <2>1 DEF Reduce
<1>5. /\ recv' = recv /\ flag' = flag /\ sent' = sent /\ credit' = credit /\ doorbell' = doorbell /\ params' = params
      /\ last' = last /\ known' = known /\ ops' = ops /\ post' = post /\ done' = done /\ consumed' = consumed
      /\ credited' = credited /\ failed' = failed /\ wire' = wire /\ op' = op /\ base' = base /\ running' = running
      /\ poison' = poison /\ error' = error
  BY <1>4 DEF proxy
<1>6. g = Total(x)[op[r]] + at[r]["partial"][b] /\ c = at[r]["partial"][b] /\ g = Total(x)[op[r]] + c
  BY <1>1
<1>7. /\ running[r] /\ Works(x, r, "partial") /\ c \in Nat /\ c \in 0..x.ops[op[r] + 1] - 1
      /\ g \in Nat /\ g \notin h.u[r]["partial"] /\ h.b[r] = op[r] + 1
  BY <1>2, <1>3, <1>4, <1>6, BlockAhead
<1>8. /\ gl % Slots = g % Slots /\ Plus(gl, 1) = Wrap(g + 1) /\ h.n[r] <= g /\ g < h.n[r] + Slots
      /\ In(x, r, "partial") => /\ h.k[r]["partial"] <= g /\ g < h.k[r]["partial"] + Slots
                                /\ \A l \in LanesOf(x) : /\ g < h.d[InPeer(r, "partial")]["partial"][l]
                                                         /\ h.d[InPeer(r, "partial")]["partial"][l] <= g + Slots
  BY <1>3, <1>4, <1>6, WaitedTells
<1>9. PICK j \in Counters(x) :
         /\ j.u = [h.u EXCEPT ![r]["partial"] = @ \cup {g}]
         /\ j.b = h.b /\ j.t = h.t /\ j.p = h.p /\ j.d = h.d /\ j.c = h.c /\ j.k = h.k /\ j.f = h.f /\ j.n = h.n
         /\ j.w = h.w
  <2> DEFINE y == [b |-> h.b, t |-> h.t, p |-> h.p, d |-> h.d, c |-> h.c, k |-> h.k, f |-> h.f,
                   n |-> h.n, u |-> [h.u EXCEPT ![r]["partial"] = @ \cup {g}], w |-> h.w]
  <2>1. [h.u EXCEPT ![r]["partial"] = @ \cup {g}] \in [RanksOf(x) -> [Streams -> SUBSET Nat]]
    <3>1. h.u \in [RanksOf(x) -> [Streams -> SUBSET Nat]]
      BY FieldTypes
    <3> QED
      BY <1>3, <1>7, <3>1
  <2>2. y \in Counters(x)
    BY <2>1, FieldTypes DEF Counters
  <2> QED
    BY <2>2
<1>10. r \in Int /\ r >= 0 /\ (In(x, r, "partial") <=> r # 0)
  BY <1>3, Neighbours DEF In
<1>11. Op(r) = op[r] + 1 /\ op[r] + 1 \in 1..Len(x.ops) /\ (op[r] + 1) - 1 = op[r] /\ g % Slots \in Slot
  <2>1. g \in Int
    BY <1>7
  <2>2. g % Slots \in Slot
    BY <2>1, Places
  <2> QED
    BY <1>2, <1>7, <2>2, RunningOp DEF Op
<1>12. /\ send' = [send EXCEPT ![r][g % Slots] = sum] /\ ready' = [ready EXCEPT ![r][g % Slots] = Wrap(g + 1)]
       /\ finished' = IF r = 0 THEN finished ELSE [finished EXCEPT ![r]["partial"][g % Slots] = Wrap(g + 1)]
  BY <1>4, <1>8
<1>13. \A l \in LanesOf(x) : sum[l] = Value(op[r] + 1, c, r + 1)
  <2> SUFFICES ASSUME NEW l \in LanesOf(x) PROVE sum[l] = Value(op[r] + 1, c, r + 1)
    OBVIOUS
  <2>1. CASE r = 0
    <3>1. sum[l] = Add(r, c, Value(op[r] + 1, c, r))
      BY <1>11, <2>1
    <3> QED
      BY <1>11, <3>1, Zenon DEF Add
  <2>2. CASE r # 0
    <3>1. sum[l] = Add(r, c, recv[r]["partial"][g % Slots][l])
      BY <1>8, <2>2
    <3> DEFINE n == op[r] + 1
    <3>2. n \in 1..Len(x.ops) /\ Total(x)[n - 1] + c = g /\ c \in 0..x.ops[n] - 1
      BY <1>6, <1>7, <1>11
    <3> HIDE DEF n
    <3>3. RecvHolds(x, recv[r]["partial"], h.d[InPeer(r, "partial")]["partial"][l], r, "partial", n, c, l,
                    Total(x)[n - 1] + c)
      BY <1>2, <1>3, <1>10, <2>2, <3>2, Zenon DEF Valued
    <3>4. recv[r]["partial"][g % Slots][l] = Value(n, c, r)
      BY <1>8, <1>10, <2>2, <3>2, <3>3, Zenon DEF RecvHolds
    <3> QED
      BY <1>11, <3>1, <3>4, Zenon DEF Add, n
  <2> QED
    BY <2>1, <2>2
<1>14. sum \in [LanesOf(x) -> Seq(Nat)]
  <2>1. Value(op[r] + 1, c, r + 1) \in Seq(Nat)
    BY <1>7, <1>10, <1>11 DEF Value
  <2>2. sum = [l \in LanesOf(x) |-> sum[l]]
    OBVIOUS
  <2> HIDE DEF sum
  <2> QED
    BY <1>13, <2>1, <2>2
<1> HIDE DEF gl, sum
<1>15. /\ j.u[r]["partial"] = h.u[r]["partial"] \cup {g}
       /\ \A q \in RanksOf(x), z \in Streams : (q # r \/ z # "partial") => j.u[q][z] = h.u[q][z]
  <2>1. h.u \in [RanksOf(x) -> [Streams -> SUBSET Nat]]
    BY FieldTypes
  <2> QED
    BY <1>3, <1>9, <2>1
<1>16. Used(x, j)' /\ at' \in [RanksOf(x) -> [Streams -> [BlocksOf(x) -> Nat]]]
  <2>1. Uses(x, h, j, r, "partial", b, g)
    BY <1>4, <1>5, <1>6, <1>9 DEF Uses
  <2> QED
    BY <1>3, <2>1, UsedGrows
<1>17. Ordered(x, j)
  BY <1>2, <1>3, <1>7, <1>8, <1>9, OrderedGrows
<1>18. Typed(x)'
  <2>1. /\ send \in [RanksOf(x) -> [Slot -> [LanesOf(x) -> Seq(Nat)]]] /\ ready \in [RanksOf(x) -> [Slot -> Word]]
        /\ finished \in [RanksOf(x) -> [Streams -> [Slot -> Word]]]
        /\ out = [q \in RanksOf(x) |-> out[q]]
    BY <1>2, Zenon DEF Typed
  <2>2. Wrap(g + 1) \in Word
    <3>1. g + 1 \in Int
      BY <1>7
    <3> QED
      BY <3>1, Wraps
  <2>3. /\ send' \in [RanksOf(x) -> [Slot -> [LanesOf(x) -> Seq(Nat)]]] /\ ready' \in [RanksOf(x) -> [Slot -> Word]]
        /\ finished' \in [RanksOf(x) -> [Streams -> [Slot -> Word]]]
    BY <1>3, <1>12, <1>14, <2>1, <2>2
  <2>4. out' = [q \in RanksOf(x) |-> out'[q]]
    BY <1>4, <2>1
  <2>5. \A q \in RanksOf(x) : running'[q] =>
          op'[q] < Len(x.ops) /\ out'[q] \in [0..x.ops[op'[q] + 1] - 1 -> [LanesOf(x) -> Seq(Nat)]]
    <3> SUFFICES ASSUME NEW q \in RanksOf(x), running[q]
                 PROVE  op[q] < Len(x.ops) /\ out'[q] \in [0..x.ops[op[q] + 1] - 1 -> [LanesOf(x) -> Seq(Nat)]]
      BY <1>5
    <3>1. op[q] < Len(x.ops) /\ out[q] \in [0..x.ops[op[q] + 1] - 1 -> [LanesOf(x) -> Seq(Nat)]]
      BY <1>2 DEF Typed
    <3>2. out'[q] = out[q] \/ (q = r /\ out'[q] = [out[q] EXCEPT ![c] = sum])
      BY <1>4, <2>1
    <3>3. out'[q] \in [0..x.ops[op[q] + 1] - 1 -> [LanesOf(x) -> Seq(Nat)]]
      BY <1>14, <3>1, <3>2
    <3> QED
      BY <3>1, <3>3
  <2> QED
    BY <1>2, <1>5, <1>16, <2>3, <2>4, <2>5, Zenon DEF Typed
<1>19. Marked(x, j)'
  <2> SUFFICES ASSUME NEW q \in RanksOf(x)
               PROVE  /\ \A z \in Streams : In(x, q, z) => Newest(finished'[q][z], j.u[q][z])
                      /\ Newest(ready'[q], j.u[q]["partial"])
    BY Zenon DEF Marked
  <2>1. ready \in [RanksOf(x) -> [Slot -> Word]] /\ finished \in [RanksOf(x) -> [Streams -> [Slot -> Word]]]
    BY <1>2, Zenon DEF Typed
  <2>2. Newest(ready'[q], j.u[q]["partial"])
    <3>1. CASE q = r
      <4>1. ready'[r] = [ready[r] EXCEPT ![g % Slots] = Wrap(g + 1)]
        BY <1>12, <2>1
      <4>2. Newest(ready'[r], h.u[r]["partial"] \cup {g})
        BY <1>2, <1>7, <1>8, <4>1, ReadyGrows, Zenon
      <4> QED
        BY <1>15, <3>1, <4>2
    <3>2. CASE q # r
      <4>1. ready'[q] = ready[q]
        BY <1>12, <2>1, <3>2
      <4> QED
        BY <1>2, <1>3, <1>15, <3>2, <4>1, Zenon DEF Marked
    <3> QED
      BY <3>1, <3>2
  <2>3. ASSUME NEW z \in Streams, In(x, q, z)
        PROVE  Newest(finished'[q][z], j.u[q][z])
    <3>1. CASE q = r /\ z = "partial"
      <4>1. finished'[r]["partial"] = [finished[r]["partial"] EXCEPT ![g % Slots] = Wrap(g + 1)]
        BY <1>3, <1>10, <1>12, <2>1, <2>3, <3>1
      <4>2. h.k[r]["partial"] <= g /\ g < h.k[r]["partial"] + Slots /\ In(x, r, "partial")
        BY <1>8, <2>3, <3>1, Zenon
      <4>3. Newest(finished'[r]["partial"], h.u[r]["partial"] \cup {g})
        BY <1>2, <1>3, <1>7, <4>1, <4>2, MarkedGrows, Zenon
      <4> QED
        BY <1>15, <3>1, <4>3, Zenon
    <3>2. CASE q # r \/ z # "partial"
      <4>1. finished'[q][z] = finished[q][z]
        BY <1>12, <2>1, <3>2
      <4> QED
        BY <1>2, <1>15, <2>3, <3>2, <4>1, Zenon DEF Marked
    <3> QED
      BY <3>1, <3>2
  <2> QED
    BY <2>2, <2>3
<1>20. Valued(x, j)'
  <2> SUFFICES ASSUME NEW q \in RanksOf(x), NEW n \in 1..Len(x.ops), NEW y \in 0..x.ops[n] - 1, NEW l \in LanesOf(x)
               PROVE  /\ \A s \in Streams : In(x, q, s) =>
                            RecvHolds(x, recv'[q][s], j.d[InPeer(q, s)][s][l], q, s, n, y, l, Total(x)[n - 1] + y)
                      /\ SendHolds(send'[q], j.u[q]["partial"], q, n, y, l, Total(x)[n - 1] + y)
                      /\ ~poison'[q] /\ running'[q] /\ n = op'[q] + 1 =>
                            OutHolds(x, out'[q], j.u[q][Stores(x, q)], n, y, l, Total(x)[n - 1] + y)
    BY Zenon DEF Valued
  <2>1. /\ \A s \in Streams : In(x, q, s) =>
              RecvHolds(x, recv[q][s], h.d[InPeer(q, s)][s][l], q, s, n, y, l, Total(x)[n - 1] + y)
        /\ SendHolds(send[q], h.u[q]["partial"], q, n, y, l, Total(x)[n - 1] + y)
        /\ ~poison[q] /\ running[q] /\ n = op[q] + 1 =>
              OutHolds(x, out[q], h.u[q][Stores(x, q)], n, y, l, Total(x)[n - 1] + y)
    BY <1>2, Zenon DEF Valued
  <2> DEFINE a == Total(x)[n - 1] + y
  <2>2. a \in Nat /\ a = Total(x)[n - 1] + y
    <3>1. n - 1 \in 0..Len(x.ops) /\ Total(x) \in [0..Len(x.ops) -> Nat] /\ y \in Nat
      BY Totals, SessionIs
    <3> QED
      BY <3>1
  <2> HIDE DEF a
  <2>3. a = g => n = op[r] + 1 /\ y = c
    <3> SUFFICES ASSUME a = g PROVE n = op[r] + 1 /\ y = c
      OBVIOUS
    <3> DEFINE m == op[r] + 1
    <3>1. m \in 1..Len(x.ops) /\ c \in 0..x.ops[m] - 1 /\ m - 1 = op[r]
      BY <1>7, <1>11
    <3> HIDE DEF m
    <3>2. Total(x)[n - 1] + y = Total(x)[m - 1] + c
      BY <1>6, <2>2, <3>1, Zenon
    <3>3. n = m /\ y = c
      BY <3>1, <3>2, ChunkUnique
    <3> QED
      BY <3>3 DEF m
  <2>4. SendHolds(send'[q], j.u[q]["partial"], q, n, y, l, a)
    <3>1. send \in [RanksOf(x) -> [Slot -> [LanesOf(x) -> Seq(Nat)]]]
      BY <1>2, Zenon DEF Typed
    <3>2. CASE q # r
      <4>1. send'[q] = send[q] /\ j.u[q]["partial"] = h.u[q]["partial"]
        BY <1>3, <1>12, <1>15, <3>1, <3>2
      <4> QED
        BY <2>1, <2>2, <4>1, Zenon
    <3>3. CASE q = r
      <4> SUFFICES ASSUME a \in h.u[r]["partial"] \cup {g}, a + Slots \notin h.u[r]["partial"] \cup {g}
                   PROVE  send'[r][a % Slots][l] = Value(n, y, r + 1)
        BY <1>15, <3>3, Zenon DEF SendHolds
      <4>1. a % Slots \in Slot
        <5>1. a \in Int
          BY <2>2
        <5> QED
          BY <5>1, Places
      <4>2. CASE a % Slots = g % Slots
        <5>1. /\ \A z \in Nat : z < h.n[r] => z \in h.u[r]["partial"]
              /\ \A z \in h.u[r]["partial"] : z < h.n[r] + Slots
              /\ h.u[r]["partial"] \in SUBSET Nat /\ h.n[r] \in Nat
          BY <1>2, <1>7, <1>8, ReadyGrows
        <5>2. a = g
          <6> DEFINE u == h.u[r]["partial"]
                     o == h.n[r]
          <6>1. /\ \A z \in Nat : z < o => z \in u
                /\ \A z \in u : z < o + Slots
                /\ u \in SUBSET Nat /\ o \in Nat /\ a \in u \cup {g} /\ a + Slots \notin u \cup {g}
                /\ g \in Nat /\ o <= g /\ g < o + Slots /\ a % Slots = g % Slots
            BY <1>7, <1>8, <4>2, <5>1, Zenon
          <6> HIDE DEF u, o
          <6> QED
            BY <6>1, RingTurns, Zenon
        <5>3. send'[r][a % Slots] = sum
          BY <1>11, <1>12, <3>1, <5>2
        <5> QED
          BY <1>13, <2>3, <5>2, <5>3, Zenon
      <4>3. CASE a % Slots # g % Slots
        <5>1. a \in h.u[r]["partial"] /\ a + Slots \notin h.u[r]["partial"]
          BY <4>3
        <5>2. send'[r][a % Slots] = send[r][a % Slots]
          BY <1>11, <1>12, <3>1, <4>1, <4>3
        <5> QED
          BY <2>1, <2>2, <3>3, <5>1, <5>2, Zenon DEF SendHolds
      <4> QED
        BY <4>2, <4>3
    <3> QED
      BY <3>2, <3>3
  <2>5. ASSUME ~poison'[q], running'[q], n = op'[q] + 1
        PROVE  OutHolds(x, out'[q], j.u[q][Stores(x, q)], n, y, l, a)
    <3>1. out = [z \in RanksOf(x) |-> out[z]] /\ Stores(x, q) \in Streams
      BY <1>2, Zenon DEF Typed, Stores, Streams
    <3>2. OutHolds(x, out[q], h.u[q][Stores(x, q)], n, y, l, a)
      BY <1>5, <2>1, <2>2, <2>5, Zenon
    <3>3. CASE q # r \/ r # x.world - 1
      <4>1. out'[q] = out[q]
        BY <1>4, <3>1, <3>3
      <4>2. j.u[q][Stores(x, q)] = h.u[q][Stores(x, q)]
        BY <1>15, <3>1, <3>3 DEF Stores
      <4> QED
        BY <3>2, <4>1, <4>2, Zenon
    <3>4. CASE q = r /\ r = x.world - 1
      <4>1. Stores(x, q) = "partial" /\ out'[q] = [out[q] EXCEPT ![c] = sum]
        BY <1>4, <3>1, <3>4 DEF Stores
      <4>2. out[q] \in [0..x.ops[op[r] + 1] - 1 -> [LanesOf(x) -> Seq(Nat)]] /\ n = op[r] + 1
        BY <1>2, <1>5, <1>7, <2>5, <3>4 DEF Typed
      <4>3. r + 1 = x.world
        BY <1>10, <3>4, SessionIs
      <4>4. CASE y = c
        <5>1. out'[q][y] = sum
          BY <1>7, <4>1, <4>2, <4>4
        <5>2. out'[q][y][l] = Value(n, y, x.world)
          BY <1>13, <4>2, <4>3, <4>4, <5>1, Zenon
        <5> QED
          BY <5>2, Zenon DEF OutHolds
      <4>5. CASE y # c
        <5>1. out'[q][y] = out[q][y]
          BY <4>1, <4>2, <4>5
        <5>2. a # g
          BY <2>3, <4>5
        <5>3. a \in j.u[q][Stores(x, q)] => a \in h.u[q][Stores(x, q)]
          BY <1>15, <3>4, <4>1, <5>2, Zenon
        <5> QED
          BY <3>2, <5>1, <5>3, Zenon DEF OutHolds
      <4> QED
        BY <4>4, <4>5
    <3> QED
      BY <3>3, <3>4
  <2> QED
    BY <1>5, <1>9, <2>1, <2>2, <2>4, <2>5, Zenon
<1>21. Counted(x, j)' /\ Begins(x, j)' /\ Along(x, j)' /\ Wired(x, j)' /\ Flagged(x, j)'
  <2>1. Counted(x, j)'
    BY <1>2, <1>5, <1>9, CountedSame
  <2>2. Begins(x, j)'
    BY <1>2, <1>5, <1>9, BeginsSame
  <2>3. Wired(x, j)' /\ Flagged(x, j)'
    BY <1>2, <1>5, <1>9, WiredSame, FlaggedSame
  <2>4. Along(x, j)'
    BY <1>2, <1>9, AlongSame DEF Along
  <2> QED
    BY <2>1, <2>2, <2>3, <2>4
<1>22. Ordered(x, j)'
  BY <1>17 DEF Ordered, OutOrder, InOrder, SendOrder
<1> QED
  BY <1>9, <1>16, <1>18, <1>19, <1>20, <1>21, <1>22 DEF Body

\* A copied chunk is the sum over all ranks.
LEMMA CopyKeeps ==
    ASSUME Aligned, NEW x \in Sessions, session = x, NEW h \in Counters(x), Body(x, h), NEW r \in RanksOf(x),
           NEW b \in BlocksOf(x), Copy(r, b)
    PROVE  \E j \in Counters(x) : Body(x, j)'
<1>1. PICK c, g : c = at[r]["result"][b] /\ g = Total(x)[op[r]] + at[r]["result"][b]
  OBVIOUS
<1>2. /\ Typed(x) /\ Counted(x, h) /\ Begins(x, h) /\ Used(x, h) /\ Ordered(x, h) /\ Along(x, h)
      /\ Wired(x, h) /\ Flagged(x, h) /\ Marked(x, h) /\ Valued(x, h)
  BY DEF Body
<1>3. "partial" \in Streams /\ "result" \in Streams
  BY DEF Streams
<1> DEFINE gl == Global(r, "result", b)
<1>4. /\ Working(r, "result", b) /\ Waited(r, "result", b) /\ ~poison[r]
      /\ out' = [out EXCEPT ![r][c] = recv[r]["result"][gl % Slots]]
      /\ finished' = [finished EXCEPT ![r]["result"][gl % Slots] = Plus(gl, 1)]
      /\ at' = [at EXCEPT ![r]["result"][b] = @ + x.blocks]
      /\ UNCHANGED <<session, recv, flag, send, ready, sent, credit, doorbell, params, proxy, wire, op, base, running,
                     poison, error>>
  BY <1>1 DEF Copy
<1> HIDE DEF gl
<1>5. /\ recv' = recv /\ flag' = flag /\ sent' = sent /\ credit' = credit /\ doorbell' = doorbell /\ params' = params
      /\ send' = send /\ ready' = ready
      /\ last' = last /\ known' = known /\ ops' = ops /\ post' = post /\ done' = done /\ consumed' = consumed
      /\ credited' = credited /\ failed' = failed /\ wire' = wire /\ op' = op /\ base' = base /\ running' = running
      /\ poison' = poison /\ error' = error
  BY <1>4 DEF proxy
<1>6. g = Total(x)[op[r]] + at[r]["result"][b] /\ c = at[r]["result"][b] /\ g = Total(x)[op[r]] + c
  BY <1>1
<1>7. /\ running[r] /\ Works(x, r, "result") /\ c \in Nat /\ c \in 0..x.ops[op[r] + 1] - 1
      /\ g \in Nat /\ g \notin h.u[r]["result"] /\ h.b[r] = op[r] + 1
  BY <1>2, <1>3, <1>4, <1>6, BlockAhead
<1>8. In(x, r, "result") /\ Stores(x, r) = "result"
  <2>1. r < x.world - 1 /\ r \in Int /\ x.world \in Int
    BY <1>3, <1>7, Neighbours DEF Works
  <2> QED
    BY <2>1 DEF In, Stores
<1>9. /\ gl % Slots = g % Slots /\ Plus(gl, 1) = Wrap(g + 1)
      /\ h.k[r]["result"] <= g /\ g < h.k[r]["result"] + Slots
      /\ \A l \in LanesOf(x) : /\ g < h.d[InPeer(r, "result")]["result"][l]
                               /\ h.d[InPeer(r, "result")]["result"][l] <= g + Slots
  BY <1>3, <1>4, <1>6, <1>8, WaitedTells DEF gl
<1>10. PICK j \in Counters(x) :
         /\ j.u = [h.u EXCEPT ![r]["result"] = @ \cup {g}]
         /\ j.b = h.b /\ j.t = h.t /\ j.p = h.p /\ j.d = h.d /\ j.c = h.c /\ j.k = h.k /\ j.f = h.f /\ j.n = h.n
         /\ j.w = h.w
  <2> DEFINE y == [b |-> h.b, t |-> h.t, p |-> h.p, d |-> h.d, c |-> h.c, k |-> h.k, f |-> h.f,
                   n |-> h.n, u |-> [h.u EXCEPT ![r]["result"] = @ \cup {g}], w |-> h.w]
  <2>1. [h.u EXCEPT ![r]["result"] = @ \cup {g}] \in [RanksOf(x) -> [Streams -> SUBSET Nat]]
    <3>1. h.u \in [RanksOf(x) -> [Streams -> SUBSET Nat]]
      BY FieldTypes
    <3> QED
      BY <1>3, <1>7, <3>1
  <2>2. y \in Counters(x)
    BY <2>1, FieldTypes DEF Counters
  <2> QED
    BY <2>2
<1>11. op[r] + 1 \in 1..Len(x.ops) /\ (op[r] + 1) - 1 = op[r] /\ g % Slots \in Slot
  <2>1. g \in Int
    BY <1>7
  <2>2. g % Slots \in Slot
    BY <2>1, Places
  <2> QED
    BY <1>2, <1>7, <2>2, RunningOp
<1>12. /\ out' = [out EXCEPT ![r][c] = recv[r]["result"][g % Slots]]
       /\ finished' = [finished EXCEPT ![r]["result"][g % Slots] = Wrap(g + 1)]
  BY <1>4, <1>9
<1>13. \A l \in LanesOf(x) : recv[r]["result"][g % Slots][l] = Value(op[r] + 1, c, x.world)
  <2> SUFFICES ASSUME NEW l \in LanesOf(x) PROVE recv[r]["result"][g % Slots][l] = Value(op[r] + 1, c, x.world)
    OBVIOUS
  <2> DEFINE n == op[r] + 1
  <2>1. n \in 1..Len(x.ops) /\ Total(x)[n - 1] + c = g /\ c \in 0..x.ops[n] - 1
    BY <1>6, <1>7, <1>11
  <2> HIDE DEF n
  <2>2. RecvHolds(x, recv[r]["result"], h.d[InPeer(r, "result")]["result"][l], r, "result", n, c, l,
                  Total(x)[n - 1] + c)
    BY <1>2, <1>3, <1>8, <2>1, Zenon DEF Valued
  <2>3. "result" # "partial"
    OBVIOUS
  <2>4. recv[r]["result"][g % Slots][l] = Value(n, c, x.world)
    BY <1>9, <2>1, <2>2, <2>3, Zenon DEF RecvHolds
  <2> QED
    BY <2>4 DEF n
<1>14. recv[r]["result"][g % Slots] \in [LanesOf(x) -> Seq(Nat)]
  BY <1>2, <1>3, <1>11 DEF Typed
<1>15. /\ j.u[r]["result"] = h.u[r]["result"] \cup {g}
       /\ \A q \in RanksOf(x), z \in Streams : (q # r \/ z # "result") => j.u[q][z] = h.u[q][z]
  <2>1. h.u \in [RanksOf(x) -> [Streams -> SUBSET Nat]]
    BY FieldTypes
  <2> QED
    BY <1>3, <1>10, <2>1
<1>16. Used(x, j)' /\ at' \in [RanksOf(x) -> [Streams -> [BlocksOf(x) -> Nat]]]
  <2>1. Uses(x, h, j, r, "result", b, g)
    BY <1>4, <1>5, <1>6, <1>10 DEF Uses
  <2> QED
    BY <1>3, <2>1, UsedGrows
<1>17. Ordered(x, j)
  <2>1. "result" # "partial"
    OBVIOUS
  <2> QED
    BY <1>2, <1>3, <1>7, <1>9, <1>10, <2>1, OrderedGrows
<1>18. Typed(x)'
  <2>1. finished \in [RanksOf(x) -> [Streams -> [Slot -> Word]]] /\ out = [q \in RanksOf(x) |-> out[q]]
    BY <1>2, Zenon DEF Typed
  <2>2. Wrap(g + 1) \in Word
    <3>1. g + 1 \in Int
      BY <1>7
    <3> QED
      BY <3>1, Wraps
  <2>3. finished' \in [RanksOf(x) -> [Streams -> [Slot -> Word]]]
    BY <1>3, <1>11, <1>12, <2>1, <2>2
  <2>4. out' = [q \in RanksOf(x) |-> out'[q]]
    BY <1>12, <2>1
  <2>5. \A q \in RanksOf(x) : running'[q] =>
          op'[q] < Len(x.ops) /\ out'[q] \in [0..x.ops[op'[q] + 1] - 1 -> [LanesOf(x) -> Seq(Nat)]]
    <3> SUFFICES ASSUME NEW q \in RanksOf(x), running[q]
                 PROVE  op[q] < Len(x.ops) /\ out'[q] \in [0..x.ops[op[q] + 1] - 1 -> [LanesOf(x) -> Seq(Nat)]]
      BY <1>5
    <3>1. op[q] < Len(x.ops) /\ out[q] \in [0..x.ops[op[q] + 1] - 1 -> [LanesOf(x) -> Seq(Nat)]]
      BY <1>2 DEF Typed
    <3>2. out'[q] = out[q] \/ (q = r /\ out'[q] = [out[q] EXCEPT ![c] = recv[r]["result"][g % Slots]])
      BY <1>12, <2>1
    <3>3. out'[q] \in [0..x.ops[op[q] + 1] - 1 -> [LanesOf(x) -> Seq(Nat)]]
      BY <1>14, <3>1, <3>2
    <3> QED
      BY <3>1, <3>3
  <2> QED
    BY <1>2, <1>5, <1>16, <2>3, <2>4, <2>5, Zenon DEF Typed
<1>19. Marked(x, j)'
  <2> SUFFICES ASSUME NEW q \in RanksOf(x)
               PROVE  /\ \A z \in Streams : In(x, q, z) => Newest(finished'[q][z], j.u[q][z])
                      /\ Newest(ready'[q], j.u[q]["partial"])
    BY Zenon DEF Marked
  <2>1. finished \in [RanksOf(x) -> [Streams -> [Slot -> Word]]]
    BY <1>2, Zenon DEF Typed
  <2>2. Newest(ready'[q], j.u[q]["partial"])
    <3>1. "partial" # "result"
      OBVIOUS
    <3>2. j.u[q]["partial"] = h.u[q]["partial"]
      BY <1>3, <1>15, <3>1, Zenon
    <3> QED
      BY <1>2, <1>5, <3>2, Zenon DEF Marked
  <2>3. ASSUME NEW z \in Streams, In(x, q, z)
        PROVE  Newest(finished'[q][z], j.u[q][z])
    <3>1. CASE q = r /\ z = "result"
      <4>1. finished'[r]["result"] = [finished[r]["result"] EXCEPT ![g % Slots] = Wrap(g + 1)]
        BY <1>3, <1>12, <2>1
      <4>2. Newest(finished'[r]["result"], h.u[r]["result"] \cup {g})
        BY <1>2, <1>3, <1>7, <1>8, <1>9, <4>1, MarkedGrows, Zenon
      <4> QED
        BY <1>15, <3>1, <4>2, Zenon
    <3>2. CASE q # r \/ z # "result"
      <4>1. finished'[q][z] = finished[q][z]
        BY <1>12, <2>1, <3>2
      <4> QED
        BY <1>2, <1>15, <2>3, <3>2, <4>1, Zenon DEF Marked
    <3> QED
      BY <3>1, <3>2
  <2> QED
    BY <2>2, <2>3
<1>20. Valued(x, j)'
  <2> SUFFICES ASSUME NEW q \in RanksOf(x), NEW n \in 1..Len(x.ops), NEW y \in 0..x.ops[n] - 1, NEW l \in LanesOf(x)
               PROVE  /\ \A s \in Streams : In(x, q, s) =>
                            RecvHolds(x, recv'[q][s], j.d[InPeer(q, s)][s][l], q, s, n, y, l, Total(x)[n - 1] + y)
                      /\ SendHolds(send'[q], j.u[q]["partial"], q, n, y, l, Total(x)[n - 1] + y)
                      /\ ~poison'[q] /\ running'[q] /\ n = op'[q] + 1 =>
                            OutHolds(x, out'[q], j.u[q][Stores(x, q)], n, y, l, Total(x)[n - 1] + y)
    BY Zenon DEF Valued
  <2>1. /\ \A s \in Streams : In(x, q, s) =>
              RecvHolds(x, recv[q][s], h.d[InPeer(q, s)][s][l], q, s, n, y, l, Total(x)[n - 1] + y)
        /\ SendHolds(send[q], h.u[q]["partial"], q, n, y, l, Total(x)[n - 1] + y)
        /\ ~poison[q] /\ running[q] /\ n = op[q] + 1 =>
              OutHolds(x, out[q], h.u[q][Stores(x, q)], n, y, l, Total(x)[n - 1] + y)
    BY <1>2, Zenon DEF Valued
  <2>2. j.u[q]["partial"] = h.u[q]["partial"]
    <3>1. "partial" # "result"
      OBVIOUS
    <3> QED
      BY <1>3, <1>15, <3>1, Zenon
  <2>3. ASSUME ~poison'[q], running'[q], n = op'[q] + 1
        PROVE  OutHolds(x, out'[q], j.u[q][Stores(x, q)], n, y, l, Total(x)[n - 1] + y)
    <3>1. out = [z \in RanksOf(x) |-> out[z]] /\ Stores(x, q) \in Streams
      BY <1>2, Zenon DEF Typed, Stores, Streams
    <3>2. OutHolds(x, out[q], h.u[q][Stores(x, q)], n, y, l, Total(x)[n - 1] + y)
      BY <1>5, <2>1, <2>3, Zenon
    <3>3. CASE q # r
      <4>1. out'[q] = out[q]
        BY <1>12, <3>1, <3>3
      <4>2. j.u[q][Stores(x, q)] = h.u[q][Stores(x, q)]
        BY <1>15, <3>1, <3>3, Zenon
      <4> QED
        BY <3>2, <4>1, <4>2, Zenon
    <3>4. CASE q = r
      <4>1. out'[q] = [out[q] EXCEPT ![c] = recv[r]["result"][g % Slots]]
        BY <1>12, <3>1, <3>4
      <4>2. out[q] \in [0..x.ops[op[r] + 1] - 1 -> [LanesOf(x) -> Seq(Nat)]] /\ n = op[r] + 1
        BY <1>2, <1>5, <1>7, <2>3, <3>4 DEF Typed
      <4>3. CASE y = c
        <5>1. out'[q][y] = recv[r]["result"][g % Slots]
          BY <1>7, <4>1, <4>2, <4>3
        <5>2. out'[q][y][l] = Value(n, y, x.world)
          BY <1>13, <4>2, <4>3, <5>1, Zenon
        <5> QED
          BY <5>2, Zenon DEF OutHolds
      <4>4. CASE y # c
        <5>1. out'[q][y] = out[q][y]
          BY <4>1, <4>2, <4>4
        <5>2. Total(x)[n - 1] + y # g
          <6> SUFFICES ASSUME Total(x)[n - 1] + y = g PROVE FALSE
            OBVIOUS
          <6>1. n - 1 = op[r] /\ c \in 0..x.ops[n] - 1
            BY <1>7, <1>11, <4>2
          <6>2. Total(x)[n - 1] + y = Total(x)[n - 1] + c
            BY <1>6, <6>1
          <6>3. y = c
            BY <6>1, <6>2, ChunkUnique
          <6> QED
            BY <4>4, <6>3
        <5>3. Total(x)[n - 1] + y \in j.u[q][Stores(x, q)] => Total(x)[n - 1] + y \in h.u[q][Stores(x, q)]
          BY <1>8, <1>15, <3>4, <5>2, Zenon
        <5> QED
          BY <3>2, <5>1, <5>3, Zenon DEF OutHolds
      <4> QED
        BY <4>3, <4>4
    <3> QED
      BY <3>3, <3>4
  <2> QED
    BY <1>5, <1>10, <2>1, <2>2, <2>3, Zenon
<1>21. Counted(x, j)' /\ Begins(x, j)' /\ Along(x, j)' /\ Wired(x, j)' /\ Flagged(x, j)'
  <2>1. Counted(x, j)'
    BY <1>2, <1>5, <1>10, CountedSame
  <2>2. Begins(x, j)'
    BY <1>2, <1>5, <1>10, BeginsSame
  <2>3. Wired(x, j)' /\ Flagged(x, j)'
    BY <1>2, <1>5, <1>10, WiredSame, FlaggedSame
  <2>4. Along(x, j)'
    BY <1>2, <1>10, AlongSame DEF Along
  <2> QED
    BY <2>1, <2>2, <2>3, <2>4
<1>22. Ordered(x, j)'
  BY <1>17 DEF Ordered, OutOrder, InOrder, SendOrder
<1> QED
  BY <1>10, <1>16, <1>18, <1>19, <1>20, <1>21, <1>22 DEF Body

-----------------------------------------------------------------------------
(* The progress thread.                                                    *)

\* The ops before the newest two are written: the neighbour has used them.
LEMMA PostedEnough ==
    ASSUME NEW x \in Sessions, NEW h \in Counters(x), Begins(x, h), Used(x, h), Ordered(x, h), NEW r \in RanksOf(x),
           NEW s \in Streams, Out(x, r, s), NEW n \in 0..Len(x.ops), n + 2 <= h.b[r]
    PROVE  Total(x)[n] <= h.p[r][s]
<1> DEFINE q == OutPeer(r, s)
<1>1. q \in RanksOf(x) /\ In(x, q, s) /\ InPeer(q, s) = r /\ Works(x, q, s) /\ 1 \in LanesOf(x)
  BY Neighbours, SessionIs
<1>2. h.b[r] \in Nat /\ h.b[q] \in Nat /\ h.p[r][s] \in Nat /\ h.d[r][s][1] \in Nat
  BY <1>1, CounterTypes
<1>3. h.b[r] <= h.b[q] + 1
  BY <1>1 DEF Begins
<1>4. n \in Nat /\ Total(x)[n] \in Nat
  BY Totals, SessionIs
<1>5. h.d[r][s][1] <= h.p[r][s] /\ \A g \in h.u[q][s] : g < h.d[r][s][1]
  BY <1>1, Zenon DEF Ordered, OutOrder, InOrder
<1> HIDE DEF q
<1> DEFINE m == n + 1
<1>6. m \in 1..h.b[q] /\ m - 1 = n
  BY <1>2, <1>3, <1>4
<1> HIDE DEF m
<1>7. \A g \in Nat : g < Total(x)[n] => g \in h.u[q][s]
  <2>1. \A g \in Nat : g < Total(x)[m - 1] => g \in h.u[q][s]
    BY <1>1, <1>6, Zenon DEF Used
  <2> QED
    BY <1>6, <2>1
<1>8. CASE Total(x)[n] = 0
  BY <1>2, <1>8
<1>9. CASE Total(x)[n] # 0
  <2>1. Total(x)[n] - 1 \in Nat /\ Total(x)[n] - 1 < Total(x)[n]
    BY <1>4, <1>9
  <2>2. Total(x)[n] - 1 < h.d[r][s][1]
    BY <1>5, <1>7, <2>1
  <2> QED
    BY <1>2, <1>4, <1>5, <2>2
<1> QED
  BY <1>8, <1>9

\* A taken op finds its size published and its table entry written out.
LEMMA TakeOpIs ==
    ASSUME NEW x \in Sessions, session = x, NEW h \in Counters(x), Counted(x, h), Begins(x, h), Used(x, h), Ordered(x, h),
           NEW r \in RanksOf(x), NEW t \in Nat, h.t[r] <= t, t + 1 <= h.b[r], h.b[r] <= t + 2,
           NEW q, q.last = Wrap(t), q.known = Wrap(Total(x)[t]), Table(x, q.ops, t), q.ok
    PROVE  LET o == TakeOp(r, q)
           IN  o.last = Wrap(t + 1) /\ o.known = Wrap(Total(x)[t + 1]) /\ Table(x, o.ops, t + 1) /\ o.ok
<1> DEFINE n == t + 1
           i == n % OpEntries
           o == TakeOp(r, q)
<1>1. /\ n \in Nat /\ n - 1 = t /\ h.b[r] \in Nat /\ h.b[r] <= Len(x.ops) /\ n \in 1..Len(x.ops) /\ t \in 0..Len(x.ops)
      /\ n \in 1..h.b[r] /\ n >= h.b[r] - 1 /\ h.t[r] \in Nat /\ h.t[r] \in 0..Len(x.ops) /\ Len(x.ops) \in Nat
      /\ n \in 0..Len(x.ops)
  <2>1. h.b[r] \in Nat /\ h.b[r] <= Len(x.ops) /\ h.t[r] \in Nat /\ Len(x.ops) \in Nat
    BY CounterTypes, SessionIs DEF Begins
  <2> QED
    BY <2>1
<1>2. Plus(q.last, 1) = Wrap(n) /\ Wrap(n) % 2 = n % 2 /\ Wrap(n) % OpEntries = i /\ i \in 0..OpEntries - 1
  <2>1. t \in Int /\ 1 \in Int /\ n \in Int
    BY <1>1
  <2>2. Plus(Wrap(t), 1) = Wrap(t + 1)
    BY <2>1, Wraps, Zenon
  <2>3. Wrap(n) % 2 = n % 2 /\ Wrap(n) % OpEntries = i /\ i \in 0..OpEntries - 1
    BY <2>1, Entries, Zenon
  <2> QED
    BY <2>2, <2>3
<1>3. params[r][n % 2] = x.ops[n]
  BY <1>1, Zenon DEF Begins
<1>4. /\ x.ops[n] \in Nat /\ Total(x)[t] \in Nat /\ Total(x)[n] = Total(x)[t] + x.ops[n] /\ Total(x)[n] \in Nat
      /\ Total(x)[t] \in Int
  <2>1. Total(x)[n] = Total(x)[n - 1] + x.ops[n]
    BY <1>1, Totals
  <2>2. x.ops[n] \in Nat /\ Total(x)[t] \in Nat /\ Total(x)[n] \in Nat
    BY <1>1, Totals, SessionIs
  <2> QED
    BY <1>1, <2>1, <2>2
<1>5. Plus(q.known, x.ops[n]) = Wrap(Total(x)[n]) /\ Wrap(Total(x)[t]) \in Word
  <2>1. Plus(Wrap(Total(x)[t]), x.ops[n]) = Wrap(Total(x)[t] + x.ops[n]) /\ Wrap(Total(x)[t]) \in Word
    <3>1. x.ops[n] \in Int /\ Total(x)[t] \in Int
      BY <1>4
    <3> QED
      BY <3>1, Wraps, Zenon
  <2> QED
    BY <1>4, <2>1
<1>6. /\ o.last = Wrap(n) /\ o.known = Wrap(Total(x)[n])
      /\ o.ops = [q.ops EXCEPT ![i] = [first |-> Wrap(Total(x)[t]), count |-> x.ops[n]]]
      /\ o.ok <=> (q.ops[i].count # 0 => Written(r, q.ops[i]))
  <2> HIDE DEF i, n
  <2> QED
    BY <1>2, <1>3, <1>5 DEF TakeOp
<1> HIDE DEF o
<1>7. \A m \in 1..t : m % OpEntries = i => m <= n - OpEntries
  <2> SUFFICES ASSUME NEW m \in 1..t, m % OpEntries = i, ~(m <= n - OpEntries) PROVE FALSE
    OBVIOUS
  <2>1. m \in Int /\ n \in Int /\ OpEntries \in Nat
    BY <1>1, Sizes
  <2>2. -OpEntries < m - n /\ m - n < OpEntries
    BY <1>1, <2>1
  <2>3. m = n
    BY <2>1, <2>2, Entries, Zenon
  <2> QED
    BY <1>1, <2>3
<1>8. ASSUME q.ops[i].count # 0
      PROVE  Written(r, q.ops[i])
  <2>1. PICK m0 \in 1..t : m0 % OpEntries = i
    BY <1>2, <1>8, Zenon DEF Table
  <2> DEFINE m == n - OpEntries
  <2>2. m0 <= m
    BY <1>7, <2>1
  <2>3. /\ m \in 1..t /\ m > t - OpEntries /\ m \in 1..Len(x.ops) /\ m - 1 \in 0..Len(x.ops) /\ m + 2 <= h.b[r]
        /\ m \in 0..Len(x.ops) /\ m <= n /\ m \in Nat /\ m + OpEntries = n /\ OpEntries \in Nat /\ OpEntries >= 2
        /\ m <= t /\ t - m < OpEntries
    <3>1. OpEntries \in Nat /\ OpEntries >= 2
      BY Sizes
    <3> QED
      BY <1>1, <2>1, <2>2, <3>1, SMTT(60)
  <2> HIDE DEF m
  <2>4. m % OpEntries = i
    <3>1. m \in Int
      BY <2>3
    <3>2. (m + OpEntries) % OpEntries = m % OpEntries
      BY <3>1, Entries, Zenon
    <3> QED
      BY <2>3, <3>2
  <2>5. q.ops[i].first = Wrap(Total(x)[m - 1]) /\ q.ops[i].count = x.ops[m]
    BY <2>3, <2>4, Zenon DEF Table
  <2>6. Total(x)[m] = Total(x)[m - 1] + x.ops[m] /\ Total(x)[m - 1] \in Nat /\ x.ops[m] \in Nat /\ Total(x)[m] \in Nat
    BY <2>3, Totals, SessionIs
  <2>7. Plus(q.ops[i].first, q.ops[i].count) = Wrap(Total(x)[m])
    <3>1. Total(x)[m - 1] \in Int /\ x.ops[m] \in Int
      BY <2>6
    <3>2. Plus(Wrap(Total(x)[m - 1]), x.ops[m]) = Wrap(Total(x)[m - 1] + x.ops[m])
      BY <3>1, Wraps, Zenon
    <3> QED
      BY <2>5, <2>6, <3>2
  <2>8. ASSUME NEW s \in Streams, Out(x, r, s)
        PROVE  ~Behind(post[r][s], Wrap(Total(x)[m]))
    <3>1. post[r][s] = Wrap(h.p[r][s]) /\ h.p[r][s] \in Nat
      BY CounterTypes DEF Counted
    <3>2. Total(x)[m] <= h.p[r][s]
      BY <2>3, <2>8, PostedEnough
    <3>3. h.p[r][s] <= Total(x)[h.t[r]]
      BY <2>8, Zenon DEF Ordered, OutOrder
    <3>4. Total(x)[h.t[r]] <= Total(x)[t] /\ Total(x)[h.t[r]] \in Nat
      <4>1. Total(x) \in [0..Len(x.ops) -> Nat] /\ \A a, z \in 0..Len(x.ops) : a < z => Total(x)[a] < Total(x)[z]
        BY Totals
      <4>2. h.t[r] < t \/ h.t[r] = t
        BY <1>1
      <4>3. Total(x)[h.t[r]] \in Nat /\ (Total(x)[h.t[r]] < Total(x)[t] \/ h.t[r] = t)
        BY <1>1, <4>1, <4>2
      <4> QED
        BY <1>4, <4>3
    <3>5. Total(x)[t] - Total(x)[m] < Modulus \div 2
      <4>1. t \in 1..Len(x.ops)
        BY <1>1, <2>1
      <4> QED
        BY <2>3, <4>1, TableSpans
    <3>6. Modulus \div 2 \in Nat
      BY Sizes
    <3>7. /\ h.p[r][s] \in Int /\ Total(x)[m] \in Int /\ -(Modulus \div 2) <= h.p[r][s] - Total(x)[m]
          /\ h.p[r][s] - Total(x)[m] < Modulus \div 2 /\ ~(h.p[r][s] < Total(x)[m])
      BY <1>4, <2>6, <3>1, <3>2, <3>3, <3>4, <3>5, <3>6
    <3> QED
      BY <3>1, <3>7, Compares, Zenon
  <2> QED
    BY <2>7, <2>8, NamesOf DEF Written, Sends
<1>9. Table(x, o.ops, n)
  <2>1. q.ops \in [0..OpEntries - 1 -> [first : Word, count : Nat]]
    BY DEF Table
  <2>2. o.ops \in [0..OpEntries - 1 -> [first : Word, count : Nat]]
    BY <1>2, <1>4, <1>5, <1>6, <2>1
  <2>3. ASSUME NEW m \in 1..n, m > n - OpEntries
        PROVE  o.ops[m % OpEntries].first = Wrap(Total(x)[m - 1]) /\ o.ops[m % OpEntries].count = x.ops[m]
    <3>1. CASE m = n
      <4>1. o.ops[i] = [first |-> Wrap(Total(x)[t]), count |-> x.ops[n]]
        BY <1>2, <1>6, <2>1
      <4> QED
        BY <1>1, <3>1, <4>1
    <3>2. CASE m # n
      <4>1. m \in 1..t /\ m > t - OpEntries /\ m \in Int /\ ~(m <= n - OpEntries)
        BY <1>1, <2>3, <3>2, Sizes
      <4>2. m % OpEntries # i /\ m % OpEntries \in 0..OpEntries - 1
        BY <1>7, <4>1, Entries, Zenon
      <4>3. o.ops[m % OpEntries] = q.ops[m % OpEntries]
        BY <1>6, <2>1, <4>2
      <4> QED
        BY <4>1, <4>3, Zenon DEF Table
    <3> QED
      BY <3>1, <3>2
  <2>4. ASSUME NEW a \in 0..OpEntries - 1, \A m \in 1..n : m % OpEntries # a
        PROVE  o.ops[a].count = 0
    <3>1. a # i /\ \A m \in 1..t : m % OpEntries # a
      <4>1. n \in 1..n /\ \A m \in 1..t : m \in 1..n
        BY <1>1
      <4> QED
        BY <2>4, <4>1
    <3>2. o.ops[a] = q.ops[a]
      BY <1>6, <2>1, <3>1
    <3> QED
      BY <3>1, <3>2, Zenon DEF Table
  <2> QED
    BY <2>2, <2>3, <2>4, Zenon DEF Table
<1> QED
  BY <1>6, <1>8, <1>9 DEF o

\* A pass takes every op whose doorbell rang, which are at most two.
LEMMA TakenIs ==
    ASSUME NEW x \in Sessions, session = x, NEW h \in Counters(x), Body(x, h), NEW r \in RanksOf(x)
    PROVE  /\ Taken(r).last = Wrap(h.b[r]) /\ Taken(r).known = Wrap(Total(x)[h.b[r]])
           /\ Table(x, Taken(r).ops, h.b[r]) /\ Taken(r).ok
<1>1. Counted(x, h) /\ Begins(x, h) /\ Used(x, h) /\ Ordered(x, h)
  BY DEF Body
<1>2. /\ h.b[r] \in Nat /\ h.t[r] \in Nat /\ h.t[r] <= h.b[r] /\ h.b[r] <= Len(x.ops) /\ Len(x.ops) \in Nat
      /\ h.t[r] \in 0..Len(x.ops)
  BY <1>1, CounterTypes, SessionIs DEF Begins
<1>3. h.b[r] <= h.t[r] + 2
  <2> SUFFICES ASSUME ~(h.b[r] <= h.t[r] + 2) PROVE FALSE
    OBVIOUS
  <2> DEFINE n == h.b[r] - 2
             s == Own(x, r)
  <2>1. n \in 0..Len(x.ops) /\ n + 2 <= h.b[r] /\ ~(n <= h.t[r])
    BY <1>2
  <2>2. s \in Streams /\ Out(x, r, s)
    BY Neighbours DEF Streams
  <2> HIDE DEF n, s
  <2>3. Total(x)[n] <= h.p[r][s]
    BY <1>1, <2>1, <2>2, PostedEnough
  <2>4. h.p[r][s] <= Total(x)[h.t[r]] /\ h.p[r][s] \in Nat
    BY <1>1, <2>2, CounterTypes DEF Ordered, OutOrder
  <2>5. Total(x)[n] \in Nat /\ Total(x)[h.t[r]] \in Nat
    BY <1>2, <2>1, Totals
  <2>6. Total(x)[n] <= Total(x)[h.t[r]]
    BY <2>3, <2>4, <2>5
  <2> QED
    BY <1>2, <2>1, <2>6, TotalsCompare
<1> DEFINE before == [last |-> last[r], known |-> known[r], ops |-> ops[r], ok |-> Minus(doorbell[r], last[r]) <= 2]
<1>4. Minus(doorbell[r], last[r]) = h.b[r] - h.t[r]
  <2>1. doorbell[r] = Wrap(h.b[r]) /\ last[r] = Wrap(h.t[r])
    BY <1>1 DEF Counted
  <2>2. h.b[r] \in Int /\ h.t[r] \in Int /\ h.b[r] - h.t[r] \in Int /\ 0 <= h.b[r] - h.t[r] /\ h.b[r] - h.t[r] < Modulus
    BY <1>2, <1>3, Sizes
  <2>3. Minus(Wrap(h.b[r]), Wrap(h.t[r])) = Wrap(h.b[r] - h.t[r]) /\ Wrap(h.b[r] - h.t[r]) = h.b[r] - h.t[r]
    BY <2>2, Wraps, Zenon
  <2> QED
    BY <2>1, <2>3
<1>5. /\ before.last = Wrap(h.t[r]) /\ before.known = Wrap(Total(x)[h.t[r]]) /\ Table(x, before.ops, h.t[r])
      /\ before.ok
  <2>1. last[r] = Wrap(h.t[r]) /\ known[r] = Wrap(Total(x)[h.t[r]]) /\ Table(x, ops[r], h.t[r])
    BY <1>1, Zenon DEF Counted, Begins
  <2>2. Minus(doorbell[r], last[r]) <= 2
    BY <1>2, <1>3, <1>4
  <2> QED
    BY <2>1, <2>2
<1>6. Taken(r) = CASE h.b[r] - h.t[r] = 1 -> TakeOp(r, before)
                   [] h.b[r] - h.t[r] = 2 -> TakeOp(r, TakeOp(r, before))
                   [] OTHER -> before
  BY <1>4 DEF Taken
<1> HIDE DEF before
<1>7. CASE h.b[r] = h.t[r]
  <2>1. Taken(r) = before
    BY <1>2, <1>6, <1>7
  <2> QED
    BY <1>5, <1>7, <2>1
<1>8. CASE h.b[r] = h.t[r] + 1
  <2>1. Taken(r) = TakeOp(r, before)
    BY <1>2, <1>6, <1>8
  <2>2. h.t[r] <= h.t[r] /\ h.t[r] + 1 <= h.b[r] /\ h.b[r] <= h.t[r] + 2
    BY <1>2, <1>8
  <2> QED
    BY <1>1, <1>2, <1>5, <1>8, <2>1, <2>2, TakeOpIs
<1>9. CASE h.b[r] = h.t[r] + 2
  <2>1. Taken(r) = TakeOp(r, TakeOp(r, before))
    BY <1>2, <1>6, <1>9
  <2> DEFINE o == TakeOp(r, before)
             t == h.t[r] + 1
  <2>2. /\ h.t[r] <= h.t[r] /\ h.t[r] + 1 <= h.b[r] /\ h.b[r] <= h.t[r] + 2
        /\ t \in Nat /\ h.t[r] <= t /\ t + 1 <= h.b[r] /\ h.b[r] <= t + 2 /\ t + 1 = h.b[r]
    BY <1>2, <1>9
  <2>3. o.last = Wrap(t) /\ o.known = Wrap(Total(x)[t]) /\ Table(x, o.ops, t) /\ o.ok
    BY <1>1, <1>2, <1>5, <2>2, TakeOpIs
  <2> HIDE DEF o, t
  <2>4. /\ TakeOp(r, o).last = Wrap(t + 1) /\ TakeOp(r, o).known = Wrap(Total(x)[t + 1])
        /\ Table(x, TakeOp(r, o).ops, t + 1) /\ TakeOp(r, o).ok
    BY <1>1, <2>2, <2>3, TakeOpIs
  <2> QED
    BY <2>1, <2>2, <2>4 DEF o
<1> QED
  BY <1>2, <1>3, <1>7, <1>8, <1>9

\* The chunks that a pass posts are of the ops taken, find a free slot at the neighbour, are in their
\* own slots, and find room on the wire.
LEMMA Posts ==
    ASSUME Aligned, NEW x \in Sessions, session = x, NEW h \in Counters(x), Body(x, h), NEW r \in RanksOf(x),
           NEW s \in Streams, NEW n, n = Postable(r, s, Wrap(Total(x)[h.b[r]]))
    PROVE  /\ n \in 0..Slots
           /\ ~Out(x, r, s) => n = 0
           /\ Out(x, r, s) =>
                 /\ h.p[r][s] + n <= Total(x)[h.b[r]] /\ h.p[r][s] + n <= h.f[r][s] + Slots
                 /\ s = Own(x, r) => \A g \in Nat : g < h.p[r][s] + n => g \in h.u[r]["partial"]
                 /\ Forwards(x, r, s) => \A l \in LanesOf(x) : h.p[r][s] + n <= h.d[InPeer(r, s)][s][l]
                 /\ \A l \in LanesOf(x) : Len(wire[r][OutPeer(r, s)][l]) + n <= x.room
<1>1. /\ Typed(x) /\ Counted(x, h) /\ Begins(x, h) /\ Ordered(x, h) /\ Wired(x, h) /\ Flagged(x, h) /\ Marked(x, h)
  BY DEF Body
<1>2. /\ Slots \in Nat /\ Slots >= 2 /\ Modulus \in Nat /\ Modulus > 2 * Slots /\ Modulus \div 2 \in Nat
      /\ Modulus = 2 * (Modulus \div 2) /\ Slots < Modulus \div 2
  BY Sizes
<1>3. s \in Sends(r) <=> Out(x, r, s)
  BY NamesOf
<1>4. CASE ~Out(x, r, s)
  <2>1. n = 0
    BY <1>3, <1>4, Zenon DEF Postable
  <2> QED
    BY <1>2, <1>4, <2>1
<1>5. CASE Out(x, r, s)
  <2> DEFINE q == OutPeer(r, s)
             P == h.p[r][s]
             T == Total(x)[h.b[r]]
             Can(i) == LET g == Plus(post[r][s], i)
                       IN /\ g # Wrap(T)
                          /\ Filled(r, s, g) /\ Credited(r, s, g)
                          /\ ChainRoom(r, OutPeer(r, s), Lane, i)
             S == {i \in 0..Slots : Can(i)}
  <2>1. n = CHOOSE a \in 0..Slots : (\A i \in 0..a - 1 : Can(i)) /\ (a = Slots \/ ~Can(a))
    BY <1>3, <1>5 DEF Postable
  <2>2. \E a \in 0..Slots : (\A i \in 0..a - 1 : Can(i)) /\ (a = Slots \/ ~Can(a))
    <3>1. PICK a \in 0..Slots : (\A i \in 0..a - 1 : i \in S) /\ (a = Slots \/ a \notin S)
      BY <1>2, Run
    <3>2. (\A i \in 0..a - 1 : Can(i)) /\ (a = Slots \/ ~Can(a))
      BY <3>1
    <3> QED
      BY <3>2
  <2>3. n \in 0..Slots /\ \A i \in 0..n - 1 : Can(i)
    <3> HIDE DEF Can, S, T
    <3> QED
      BY <2>1, <2>2, Zenon
  <2>4. /\ q \in RanksOf(x) /\ In(x, q, s) /\ InPeer(q, s) = r /\ 1 \in LanesOf(x)
        /\ s = Own(x, r) \/ (Forwards(x, r, s) /\ In(x, r, s))
        /\ ~Forwards(x, r, Own(x, r))
    BY <1>5, Neighbours, SessionIs
  <2>5. /\ P \in Nat /\ h.f[r][s] \in Nat /\ T \in Nat /\ P <= h.f[r][s] + Slots /\ h.f[r][s] <= P /\ P <= T
        /\ \A l \in LanesOf(x) : h.d[r][s][l] <= P /\ h.d[r][s][l] \in Nat
    <3>1. /\ P \in Nat /\ h.f[r][s] \in Nat /\ h.k[q][s] \in Nat /\ h.c[q][s] \in Nat /\ h.d[r][s][1] \in Nat
          /\ h.k[q][s] <= h.c[q][s] /\ h.c[q][s] <= h.d[r][s][1] /\ h.d[r][s][1] <= P
          /\ P <= h.f[r][s] + Slots /\ h.f[r][s] <= h.k[q][s]
      BY <1>1, <2>4, LinkBounds
    <3>2. P <= Total(x)[h.t[r]] /\ \A l \in LanesOf(x) : h.d[r][s][l] <= P
      BY <1>1, <1>5, Zenon DEF Ordered, OutOrder
    <3>3. \A l \in LanesOf(x) : h.d[r][s][l] \in Nat
      BY CounterTypes
    <3>4. h.t[r] \in Nat /\ h.b[r] \in Nat /\ h.t[r] <= h.b[r] /\ h.b[r] <= Len(x.ops) /\ Len(x.ops) \in Nat
      BY <1>1, CounterTypes, SessionIs DEF Begins
    <3>5. h.t[r] \in 0..Len(x.ops) /\ h.b[r] \in 0..Len(x.ops) /\ (h.t[r] < h.b[r] \/ h.t[r] = h.b[r])
      BY <3>4
    <3>6. Total(x)[h.t[r]] \in Nat /\ T \in Nat /\ (Total(x)[h.t[r]] < T \/ Total(x)[h.t[r]] = T)
      BY <3>5, Totals
    <3>7. h.f[r][s] <= P /\ P <= T
      BY <3>1, <3>2, <3>6
    <3> QED
      BY <3>1, <3>2, <3>3, <3>6, <3>7
  <2>6. /\ post[r][s] = Wrap(P) /\ credit[r][s] = Wrap(h.f[r][s])
    BY <1>1 DEF Counted
  <2>7. ASSUME NEW i \in 0..n - 1
        PROVE  /\ P + i \in Nat /\ i \in Nat /\ i < n /\ Plus(post[r][s], i) = Wrap(P + i) /\ Can(i)
               /\ Wrap(P + i) % Slots = (P + i) % Slots /\ Plus(Wrap(P + i), 1) = Wrap((P + i) + 1)
    <3>1. i \in Nat /\ i < n /\ P + i \in Nat /\ P \in Int /\ i \in Int /\ P + i \in Int /\ 1 \in Int
      BY <1>2, <2>3, <2>5
    <3> HIDE DEF P, Can
    <3>2. Plus(Wrap(P), i) = Wrap(P + i) /\ Plus(Wrap(P + i), 1) = Wrap((P + i) + 1)
      BY <3>1, Wraps, Zenon
    <3>3. Wrap(P + i) % Slots = (P + i) % Slots
      BY <3>1, PlaceOfWord, Zenon
    <3> QED
      BY <2>3, <2>6, <3>1, <3>2, <3>3
  <2> DEFINE f == h.f[r][s]
  <2>8. P + n <= T
    <3> SUFFICES ASSUME ~(P + n <= T) PROVE FALSE
      OBVIOUS
    <3> DEFINE i == T - P
    <3>1. i \in 0..n - 1 /\ P + i = T
      BY <2>3, <2>5
    <3> HIDE DEF i, P, T
    <3>2. Plus(post[r][s], i) = Wrap(P + i) /\ Plus(post[r][s], i) # Wrap(T)
      BY <2>7, <3>1
    <3> QED
      BY <3>1, <3>2
  <2>9. P + n <= f + Slots
    <3>1. CASE n = 0
      BY <1>2, <2>5, <3>1
    <3>2. CASE n # 0
      <4> DEFINE i == n - 1
      <4>1. i \in 0..n - 1 /\ (P + i) + 1 = P + n /\ n \in Nat /\ n <= Slots
        BY <1>2, <2>3, <2>5, <3>2
      <4> HIDE DEF i
      <4>2. Plus(post[r][s], i) = Wrap(P + i) /\ Credited(r, s, Plus(post[r][s], i)) /\ Plus(Wrap(P + i), 1) = Wrap((P + i) + 1)
        BY <2>7, <4>1
      <4> HIDE DEF Can, P, f, T, q
      <4>3. ~Behind(Wrap(f), Minus(Wrap(P + n), Slots))
        BY <2>6, <4>1, <4>2 DEF Credited, f
      <4>4. f \in Int /\ P + n \in Int /\ Slots \in Int /\ (P + n) - Slots \in Int
        BY <1>2, <2>5, <4>1 DEF f
      <4>5. Minus(Wrap(P + n), Slots) = Wrap((P + n) - Slots)
        BY <4>4, Wraps, Zenon
      <4>6. -(Modulus \div 2) <= f - ((P + n) - Slots) /\ f - ((P + n) - Slots) < Modulus \div 2
        BY <1>2, <2>5, <4>1 DEF f
      <4>7. ~(f < (P + n) - Slots)
        BY <4>3, <4>4, <4>5, <4>6, Compares, Zenon
      <4> QED
        BY <4>4, <4>7
    <3> QED
      BY <3>1, <3>2
  <2>10. ASSUME s = Own(x, r), NEW g \in Nat, g < P + n
         PROVE  g \in h.u[r]["partial"]
    <3>1. \A a \in Nat : a < P => a \in h.u[r]["partial"]
      BY <1>1, <1>5, <2>10, Zenon DEF Ordered, OutOrder
    <3>2. CASE g < P
      BY <3>1, <3>2
    <3>3. CASE ~(g < P)
      <4> DEFINE i == g - P
      <4>1. i \in 0..n - 1 /\ P + i = g
        BY <2>3, <2>5, <2>10, <3>3
      <4> HIDE DEF i
      <4>2. Plus(post[r][s], i) = Wrap(g) /\ Filled(r, s, Wrap(g)) /\ Wrap(g) % Slots = g % Slots
            /\ Plus(Wrap(g), 1) = Wrap(g + 1)
        BY <2>7, <4>1
      <4>3. OutKind(r, s) = "kernel"
        BY <2>10, NamesOf
      <4>4. ready[r][g % Slots] = Wrap(g + 1)
        BY <4>2, <4>3, Zenon DEF Filled
      <4>5. Newest(ready[r], h.u[r]["partial"]) /\ h.u[r]["partial"] \in SUBSET Nat
        BY <1>1, CounterTypes DEF Marked, Streams
      <4>6. g - Slots >= 0 => g - Slots \in h.u[r]["partial"]
        <5>1. g - Slots >= 0 => g - Slots \in Nat /\ g - Slots < P
          BY <1>2, <2>3, <2>5, <2>9, <2>10
        <5> QED
          BY <3>1, <5>1
      <4> QED
        BY <4>4, <4>5, <4>6, NewestTells, Zenon
    <3> QED
      BY <3>2, <3>3
  <2>11. ASSUME Forwards(x, r, s), NEW l \in LanesOf(x)
         PROVE  P + n <= h.d[InPeer(r, s)][s][l]
    <3> DEFINE D == h.d[InPeer(r, s)][s][l]
    <3>1. In(x, r, s)
      BY <2>11, Neighbours
    <3>2. P <= D /\ h.k[r][s] <= h.d[r][s][l]
      BY <1>1, <1>5, <2>11, Zenon DEF Ordered, OutOrder
    <3>3. D \in Nat /\ h.k[r][s] \in Nat /\ h.d[r][s][l] \in Nat
      <4>1. InPeer(r, s) \in RanksOf(x)
        BY <3>1, Neighbours
      <4> QED
        BY <4>1, CounterTypes
    <3>4. CASE n = 0
      BY <2>5, <3>2, <3>3, <3>4
    <3>5. CASE n # 0
      <4> DEFINE i == n - 1
                 g == P + i
      <4>1. g + 1 = P + n
        BY <1>2, <2>3, <2>5
      <4>2. i \in 0..n - 1 /\ g + 1 = P + n /\ g \in Nat /\ n \in Nat /\ n <= Slots
        BY <1>2, <2>3, <2>5, <3>5
      <4>3. Plus(post[r][s], i) = Wrap(g) /\ Filled(r, s, Wrap(g)) /\ Wrap(g) % Slots = g % Slots
            /\ Plus(Wrap(g), 1) = Wrap(g + 1)
        <5> HIDE DEF i, P
        <5> QED
          BY <2>7, <4>2
      <4>4. OutKind(r, s) # "kernel" /\ Lane = LanesOf(x)
        BY <2>4, <2>11, NamesOf
      <4> HIDE DEF g
      <4>5. flag[r][s][g % Slots][l] = Wrap(g + 1)
        BY <4>3, <4>4, Zenon DEF Filled
      <4>6. h.k[r][s] <= g /\ g < D + Modulus - Slots
        <5>1. h.k[r][s] <= P /\ P <= g
          BY <2>5, <3>2, <3>3, <4>2 DEF g
        <5> HIDE DEF D, P
        <5> QED
          BY <1>2, <2>5, <3>2, <3>3, <4>2, <5>1
      <4>7. g < D
        BY <1>1, <3>1, <4>2, <4>5, <4>6, FlagTells
      <4> HIDE DEF D, P
      <4>8. P + n <= D
        BY <2>5, <3>3, <4>2, <4>7
      <4> QED
        BY <4>8 DEF D
    <3> QED
      BY <3>4, <3>5
  <2>12. ASSUME NEW l \in LanesOf(x)
         PROVE  Len(wire[r][q][l]) + n <= x.room
    <3>1. Lane = LanesOf(x) /\ Room = x.room /\ x.room \in Nat
      BY NamesOf, SessionIs
    <3>2. Len(wire[r][q][l]) \in Nat /\ Len(wire[r][q][l]) <= x.room
      <4>1. wire[r][q][l] \in Seq([kind : {"chunk", "credit"}, stream : Streams, word : Word])
        <5> HIDE DEF q
        <5>1. wire \in [RanksOf(x) -> [RanksOf(x) ->
                    [LanesOf(x) -> Seq([kind : {"chunk", "credit"}, stream : Streams, word : Word])]]]
          BY <1>1 DEF Typed
        <5>2. q \in RanksOf(x)
          BY <2>4
        <5> QED
          BY <5>1, <5>2, Zenon
      <4>2. Len(wire[r][q][l]) <= x.room
        BY <1>1, <2>4, Zenon DEF Wired, Carries
      <4> QED
        BY <4>1, <4>2
    <3>3. CASE n = 0
      BY <3>1, <3>2, <3>3
    <3>4. CASE n # 0
      <4> DEFINE i == n - 1
      <4>1. i \in 0..n - 1 /\ n \in Nat /\ i + 1 = n /\ i \in Nat
        BY <1>2, <2>3, <3>4
      <4>2. ChainRoom(r, q, Lane, i)
        BY <2>7, <4>1
      <4>3. Len(wire[r][q][l]) + i < x.room
        BY <3>1, <4>2, Zenon DEF ChainRoom
      <4> QED
        BY <3>1, <3>2, <4>1, <4>3
    <3> QED
      BY <3>3, <3>4
  <2> QED
    BY <1>5, <2>3, <2>8, <2>9, <2>10, <2>11, <2>12
<1> QED
  BY <1>4, <1>5

\* A chunk that a pass posts is one of the newest two ops, which the table holds.
LEMMA OwnedHolds ==
    ASSUME Aligned, NEW x \in Sessions, session = x, NEW h \in Counters(x), Body(x, h), NEW r \in RanksOf(x),
           NEW s \in Streams, NEW n, n = Postable(r, s, Wrap(Total(x)[h.b[r]])), NEW e, Table(x, e, h.b[r])
    PROVE  Owned(r, s, n, e)
<1>1. Counted(x, h) /\ Begins(x, h) /\ Used(x, h) /\ Ordered(x, h)
  BY DEF Body
<1>2. /\ n \in 0..Slots /\ Slots \in Nat /\ OpEntries \in Nat /\ OpEntries >= 2 /\ Modulus \in Nat
  BY Posts, Sizes
<1>3. h.b[r] \in Nat /\ h.b[r] <= Len(x.ops) /\ Len(x.ops) \in Nat /\ h.b[r] \in 0..Len(x.ops)
  BY <1>1, CounterTypes, SessionIs DEF Begins
<1> SUFFICES ASSUME NEW i \in 0..n - 1
             PROVE  \E a \in DOMAIN e : Minus(Plus(post[r][s], i), e[a].first) < e[a].count
  BY DEF Owned
<1>4. Out(x, r, s)
  BY <1>2, Posts
<1>5. /\ h.p[r][s] \in Nat /\ i \in Nat /\ h.p[r][s] + i < Total(x)[h.b[r]] /\ h.p[r][s] + i \in Nat
      /\ Total(x)[h.b[r]] \in Nat
  <2>1. h.p[r][s] \in Nat /\ h.p[r][s] + n <= Total(x)[h.b[r]] /\ Total(x)[h.b[r]] \in Nat
    BY <1>3, <1>4, CounterTypes, Posts, Totals
  <2> QED
    BY <1>2, <2>1
<1> DEFINE g == h.p[r][s] + i
<1>6. g \in Nat /\ g < Total(x)[h.b[r]] /\ h.p[r][s] <= g
  BY <1>5
<1> HIDE DEF g
<1>7. PICK m \in 1..h.b[r] : \E c \in 0..x.ops[m] - 1 : g = Total(x)[m - 1] + c
  BY <1>3, <1>6, ChunkOfOp
<1>8. PICK c \in 0..x.ops[m] - 1 : g = Total(x)[m - 1] + c
  BY <1>7
<1>9. /\ m \in 1..Len(x.ops) /\ m \in 0..Len(x.ops) /\ m - 1 \in 0..Len(x.ops) /\ m \in Nat
  BY <1>3
<1>10. /\ x.ops[m] \in Nat /\ x.ops[m] < Modulus /\ c \in Nat /\ c < x.ops[m] /\ Total(x)[m] = Total(x)[m - 1] + x.ops[m]
       /\ Total(x)[m - 1] \in Nat /\ Total(x)[m] \in Nat
  <2>1. x.ops[m] \in Nat /\ x.ops[m] < Modulus
    BY <1>9, SessionIs
  <2>2. Total(x)[m] = Total(x)[m - 1] + x.ops[m] /\ Total(x)[m - 1] \in Nat /\ Total(x)[m] \in Nat
    BY <1>9, Totals
  <2>3. c \in Nat /\ c < x.ops[m]
    BY <2>1
  <2> QED
    BY <2>1, <2>2, <2>3
<1>11. m > h.b[r] - OpEntries
  <2> SUFFICES ASSUME m + 2 <= h.b[r] PROVE FALSE
    BY <1>2, <1>3, <1>9, SMTT(60)
  <2>1. Total(x)[m] <= h.p[r][s]
    BY <1>1, <1>4, <1>9, PostedEnough
  <2> QED
    BY <1>5, <1>6, <1>8, <1>10, <2>1
<1> DEFINE a == m % OpEntries
<1>12. e[a].first = Wrap(Total(x)[m - 1]) /\ e[a].count = x.ops[m]
  BY <1>11, Zenon DEF Table
<1>13. a \in 0..OpEntries - 1 /\ DOMAIN e = 0..OpEntries - 1
  <2>1. m \in Int
    BY <1>9
  <2>2. a \in 0..OpEntries - 1
    BY <2>1, Entries, Zenon
  <2>3. e \in [0..OpEntries - 1 -> [first : Word, count : Nat]]
    BY DEF Table
  <2> QED
    BY <2>2, <2>3
<1> HIDE DEF a
<1>14. Plus(post[r][s], i) = Wrap(g)
  <2>1. h.p[r][s] \in Int /\ i \in Int
    BY <1>5
  <2>2. Plus(Wrap(h.p[r][s]), i) = Wrap(h.p[r][s] + i)
    BY <2>1, Wraps, Zenon
  <2> QED
    BY <1>1, <2>2 DEF Counted, g
<1>15. Minus(Wrap(g), Wrap(Total(x)[m - 1])) = c
  <2>1. g \in Int /\ Total(x)[m - 1] \in Int /\ g - Total(x)[m - 1] = c /\ c \in Int /\ 0 <= c /\ c < Modulus
    BY <1>2, <1>6, <1>8, <1>10
  <2>2. Minus(Wrap(g), Wrap(Total(x)[m - 1])) = Wrap(g - Total(x)[m - 1]) /\ Wrap(c) = c
    BY <2>1, Wraps, Zenon
  <2> QED
    BY <2>1, <2>2
<1> QED
  BY <1>10, <1>12, <1>13, <1>14, <1>15

\* The inbound chunks that a pass counts as consumed are used.
LEMMA ConsumedIs ==
    ASSUME Aligned, NEW x \in Sessions, session = x, NEW h \in Counters(x), Body(x, h), NEW r \in RanksOf(x),
           NEW s \in Streams, In(x, r, s)
    PROVE  \E c \in Nat : /\ Consumed(r, s) = Wrap(c) /\ h.c[r][s] <= c
                          /\ \A g \in Nat : g < c => g \in h.u[r][s]
                          /\ \A l \in LanesOf(x) : c <= h.d[InPeer(r, s)][s][l]
<1>1. Counted(x, h) /\ Ordered(x, h) /\ Marked(x, h)
  BY DEF Body
<1>2. Slots \in Nat
  BY Sizes
<1> DEFINE b == h.c[r][s]
           UsedAt(i) == finished[r][s][Plus(consumed[r][s], i) % Slots] = Plus(consumed[r][s], i + 1)
           S == {i \in 0..Slots : UsedAt(i)}
           n == CHOOSE a \in 0..Slots : (\A i \in 0..a - 1 : UsedAt(i)) /\ (a = Slots \/ ~UsedAt(a))
<1>3. Consumed(r, s) = Plus(consumed[r][s], n)
  BY DEF Consumed
<1>4. n \in 0..Slots /\ \A i \in 0..n - 1 : UsedAt(i)
  <2>1. PICK a \in 0..Slots : (\A i \in 0..a - 1 : i \in S) /\ (a = Slots \/ a \notin S)
    BY <1>2, Run
  <2>2. (\A i \in 0..a - 1 : UsedAt(i)) /\ (a = Slots \/ ~UsedAt(a))
    BY <2>1
  <2> HIDE DEF UsedAt, S
  <2> QED
    BY <2>2, Zenon
<1> HIDE DEF n
<1>5. b \in Nat /\ consumed[r][s] = Wrap(b) /\ h.u[r][s] \in SUBSET Nat
  BY <1>1, CounterTypes DEF Counted
<1>6. /\ \A g \in Nat : g < b => g \in h.u[r][s]
      /\ \A g \in h.u[r][s], l \in LanesOf(x) : g < h.d[InPeer(r, s)][s][l]
      /\ \A l \in LanesOf(x) : b <= h.d[InPeer(r, s)][s][l]
  BY <1>1, Zenon DEF Ordered, InOrder
<1>7. n \in Nat /\ b + n \in Nat /\ b <= b + n
  BY <1>2, <1>4, <1>5
<1>8. Plus(consumed[r][s], n) = Wrap(b + n)
  <2>1. b \in Int /\ n \in Int
    BY <1>5, <1>7
  <2> HIDE DEF b
  <2>2. Plus(Wrap(b), n) = Wrap(b + n)
    BY <2>1, Wraps, Zenon
  <2> QED
    BY <1>5, <2>2
<1>9. ASSUME NEW g \in Nat, g < b + n
      PROVE  g \in h.u[r][s]
  <2>1. CASE g < b
    BY <1>6, <2>1
  <2>2. CASE ~(g < b)
    <3> DEFINE i == g - b
    <3>1. i \in 0..n - 1 /\ b + i = g /\ b + (i + 1) = g + 1 /\ i \in Int /\ i + 1 \in Int /\ b \in Int /\ g \in Int
      BY <1>5, <1>7, <1>9, <2>2
    <3>2. UsedAt(i)
      BY <1>4, <3>1
    <3> HIDE DEF i, b
    <3>3. Plus(Wrap(b), i) = Wrap(b + i) /\ Plus(Wrap(b), i + 1) = Wrap(b + (i + 1)) /\ Wrap(g) % Slots = g % Slots
      BY <3>1, Wraps, PlaceOfWord, Zenon
    <3>4. finished[r][s][g % Slots] = Wrap(g + 1)
      BY <1>5, <3>1, <3>2, <3>3
    <3>5. g - Slots >= 0 => g - Slots \in h.u[r][s]
      <4>1. g - Slots >= 0 => g - Slots \in Nat /\ g - Slots < b
        BY <1>2, <1>4, <1>5, <1>9
      <4> QED
        BY <1>6, <4>1
    <3>6. Newest(finished[r][s], h.u[r][s])
      BY <1>1, Zenon DEF Marked
    <3> QED
      BY <1>5, <3>4, <3>5, <3>6, NewestTells, Zenon
  <2> QED
    BY <2>1, <2>2
<1>10. ASSUME NEW l \in LanesOf(x)
       PROVE  b + n <= h.d[InPeer(r, s)][s][l]
  <2>1. CASE n = 0
    BY <1>5, <1>6, <2>1
  <2>2. CASE n # 0
    <3>1. (b + n) - 1 \in Nat /\ (b + n) - 1 < b + n
      BY <1>5, <1>7, <2>2
    <3>2. (b + n) - 1 < h.d[InPeer(r, s)][s][l]
      BY <1>6, <1>9, <3>1
    <3>3. h.d[InPeer(r, s)][s][l] \in Nat
      BY Neighbours, CounterTypes
    <3> QED
      BY <1>5, <1>7, <3>2, <3>3
  <2> QED
    BY <2>1, <2>2
<1> QED
  BY <1>3, <1>7, <1>8, <1>9, <1>10

\* The counter that a pass takes for the chunks written is the smallest of the lanes.
LEMMA LeastIs ==
    ASSUME NEW x \in Sessions, session = x, NEW h \in Counters(x), Body(x, h), NEW r \in RanksOf(x),
           NEW s \in Streams, Out(x, r, s)
    PROVE  \E l \in LanesOf(x) : /\ Least(done[r][s]) = Wrap(h.d[r][s][l])
                                 /\ \A i \in LanesOf(x) : h.d[r][s][l] <= h.d[r][s][i]
<1>1. Counted(x, h) /\ Ordered(x, h)
  BY DEF Body
<1> DEFINE d == h.d[r][s]
           q == OutPeer(r, s)
           V(l) == Wrap(d[l])
<1>2. \A l \in LanesOf(x) : d[l] \in Nat /\ done[r][s][l] = V(l)
  BY <1>1, CounterTypes DEF Counted
<1>3. Lane = LanesOf(x) /\ 1 \in LanesOf(x)
  BY NamesOf, SessionIs
<1>4. q \in RanksOf(x) /\ In(x, q, s) /\ InPeer(q, s) = r
  BY Neighbours
<1>5. h.f[r][s] \in Nat /\ Slots \in Nat /\ Modulus \div 2 \in Nat /\ Slots < Modulus \div 2
  BY CounterTypes, Sizes
<1>6. \A l \in LanesOf(x) : h.f[r][s] <= d[l] /\ d[l] <= h.f[r][s] + Slots
  <2> SUFFICES ASSUME NEW l \in LanesOf(x) PROVE h.f[r][s] <= d[l] /\ d[l] <= h.f[r][s] + Slots
    OBVIOUS
  <2>1. /\ h.k[q][s] \in Nat /\ h.c[q][s] \in Nat /\ d[l] \in Nat /\ h.p[r][s] \in Nat
        /\ h.k[q][s] <= h.c[q][s] /\ h.c[q][s] <= d[l] /\ d[l] <= h.p[r][s]
        /\ h.p[r][s] <= h.f[r][s] + Slots /\ h.f[r][s] <= h.k[q][s]
    BY <1>1, <1>4, LinkBounds
  <2> HIDE DEF d, q
  <2> QED
    BY <1>5, <2>1
<1> HIDE DEF d, q
<1>7. \A i, l \in LanesOf(x) : Behind(V(i), V(l)) <=> d[i] < d[l]
  <2> SUFFICES ASSUME NEW i \in LanesOf(x), NEW l \in LanesOf(x) PROVE Behind(V(i), V(l)) <=> d[i] < d[l]
    OBVIOUS
  <2>1. /\ d[i] \in Nat /\ d[l] \in Nat /\ h.f[r][s] <= d[i] /\ d[i] <= h.f[r][s] + Slots
        /\ h.f[r][s] <= d[l] /\ d[l] <= h.f[r][s] + Slots
    BY <1>2, <1>6
  <2>2. d[i] \in Int /\ d[l] \in Int /\ -(Modulus \div 2) <= d[i] - d[l] /\ d[i] - d[l] < Modulus \div 2
    BY <1>5, <2>1
  <2> QED
    BY <2>2, Compares, Zenon
<1> HIDE DEF V
<1>8. \E m \in LanesOf(x) : \A i \in LanesOf(x) : d[m] <= d[i]
  <2> DEFINE S == {d[l] : l \in LanesOf(x)}
  <2>1. S \in SUBSET Nat /\ d[1] \in S
    BY <1>2, <1>3
  <2>2. PICK v \in S : \A w \in S : v <= w
    <3> HIDE DEF S
    <3> QED
      BY <2>1, Smallest
  <2> QED
    BY <2>2
<1> DEFINE a == done[r][s]
<1>9. \E v \in {a[l] : l \in Lane} : \A l \in Lane : ~Behind(a[l], v)
  <2>1. PICK m \in LanesOf(x) : \A i \in LanesOf(x) : d[m] <= d[i]
    BY <1>8
  <2>2. \A i \in LanesOf(x) : ~(d[i] < d[m])
    BY <1>2, <2>1
  <2>3. \A i \in LanesOf(x) : ~Behind(a[i], a[m])
    BY <1>2, <1>7, <2>2
  <2> HIDE DEF a
  <2> QED
    BY <1>3, <2>3
<1>10. Least(a) \in {a[l] : l \in Lane} /\ \A l \in Lane : ~Behind(a[l], Least(a))
  <2> HIDE DEF a
  <2> QED
    BY <1>9, Zenon DEF Least
<1>11. PICK m \in LanesOf(x) : Least(a) = a[m]
  BY <1>3, <1>10
<1>12. \A i \in LanesOf(x) : ~(d[i] < d[m])
  BY <1>2, <1>3, <1>7, <1>10, <1>11
<1>13. \A i \in LanesOf(x) : d[m] <= d[i]
  BY <1>2, <1>12
<1>14. Least(a) = Wrap(d[m])
  BY <1>2, <1>11 DEF V
<1> QED
  BY <1>13, <1>14 DEF d

\* The chunks that a pass counts as freed are consumed, and written on where they are forwarded.
LEMMA Frees ==
    ASSUME Aligned, NEW x \in Sessions, session = x, NEW h \in Counters(x), Body(x, h), NEW r \in RanksOf(x),
           NEW s \in Streams, In(x, r, s), NEW c \in Nat, Consumed(r, s) = Wrap(c), h.c[r][s] <= c,
           \A l \in LanesOf(x) : c <= h.d[InPeer(r, s)][s][l]
    PROVE  \E k \in Nat : /\ Released(r, s, Least(done[r][s]), Consumed(r, s)) = Wrap(k) /\ h.k[r][s] <= k /\ k <= c
                          /\ Forwards(x, r, s) => \A l \in LanesOf(x) : k <= h.d[r][s][l]
<1>1. Ordered(x, h)
  BY DEF Body
<1>2. Slots \in Nat /\ Modulus \div 2 \in Nat /\ Slots < Modulus \div 2 /\ 1 \in LanesOf(x)
  BY Sizes, SessionIs
<1>3. OutKind(r, s) = "forward" <=> Forwards(x, r, s)
  BY NamesOf
<1>4. h.k[r][s] \in Nat /\ h.c[r][s] \in Nat /\ h.k[r][s] <= h.c[r][s] /\ h.k[r][s] <= c
  <2>1. h.k[r][s] \in Nat /\ h.c[r][s] \in Nat
    BY CounterTypes
  <2>2. h.k[r][s] <= h.c[r][s]
    BY <1>1, Zenon DEF Ordered, InOrder
  <2> QED
    BY <2>1, <2>2
<1>5. CASE ~Forwards(x, r, s)
  <2>1. Released(r, s, Least(done[r][s]), Consumed(r, s)) = Wrap(c)
    BY <1>3, <1>5, Zenon DEF Released
  <2>2. c <= c
    OBVIOUS
  <2> QED
    BY <1>4, <1>5, <2>1, <2>2, Zenon
<1>6. CASE Forwards(x, r, s)
  <2>1. Out(x, r, s)
    BY <1>6, Neighbours
  <2>2. PICK m \in LanesOf(x) : /\ Least(done[r][s]) = Wrap(h.d[r][s][m])
                                /\ \A i \in LanesOf(x) : h.d[r][s][m] <= h.d[r][s][i]
    BY <2>1, LeastIs
  <2> DEFINE d == h.d[r][s][m]
             q == InPeer(r, s)
  <2>3. /\ h.k[r][s] <= d /\ d <= h.p[r][s] /\ h.p[r][s] <= h.d[q][s][m] /\ c <= h.d[q][s][m]
    BY <1>1, <1>6, <2>1, Zenon DEF Ordered, OutOrder
  <2>4. h.d[q][s][m] <= h.p[q][s] /\ h.p[q][s] <= h.k[r][s] + Slots /\ h.d[q][s][m] \in Nat /\ h.p[q][s] \in Nat
    BY <1>1, LinkBounds
  <2>5. d \in Nat /\ h.p[r][s] \in Nat
    BY CounterTypes
  <2>6. \A l \in LanesOf(x) : h.d[r][s][l] \in Nat
    BY CounterTypes
  <2> HIDE DEF d, q
  <2>7. Behind(Wrap(d), Wrap(c)) <=> d < c
    <3>1. d \in Int /\ c \in Int /\ -(Modulus \div 2) <= d - c /\ d - c < Modulus \div 2
      BY <1>2, <1>4, <2>3, <2>4, <2>5
    <3> QED
      BY <3>1, Compares, Zenon
  <2>8. Released(r, s, Wrap(d), Wrap(c)) = IF d < c THEN Wrap(d) ELSE Wrap(c)
    BY <1>3, <1>6, <2>7 DEF Released
  <2>9. CASE d < c
    <3>1. d <= c /\ \A l \in LanesOf(x) : d <= h.d[r][s][l]
      BY <2>2, <2>5, <2>9 DEF d
    <3>2. Released(r, s, Least(done[r][s]), Consumed(r, s)) = Wrap(d)
      BY <2>2, <2>8, <2>9 DEF d
    <3> QED
      BY <2>3, <2>5, <3>1, <3>2, Zenon
  <2>10. CASE ~(d < c)
    <3>1. \A l \in LanesOf(x) : d <= h.d[r][s][l]
      BY <2>2 DEF d
    <3>2. c <= c /\ \A l \in LanesOf(x) : c <= h.d[r][s][l]
      BY <2>5, <2>6, <2>10, <3>1
    <3>3. Released(r, s, Least(done[r][s]), Consumed(r, s)) = Wrap(c)
      BY <2>2, <2>8, <2>10 DEF d
    <3> QED
      BY <1>4, <3>2, <3>3, Zenon
  <2> QED
    BY <2>9, <2>10
<1> QED
  BY <1>5, <1>6

\* A sequence after another.
LEMMA Appended ==
    ASSUME NEW W, NEW v \in Seq(W), NEW w \in Seq(W)
    PROVE  /\ v \o w \in Seq(W) /\ Len(v \o w) = Len(v) + Len(w)
           /\ \A i \in 1..Len(v) : (v \o w)[i] = v[i]
           /\ \A i \in 1..Len(w) : (v \o w)[Len(v) + i] = w[i]
<1> DEFINE V == v \o w
<1>1. /\ V \in Seq(W) /\ Len(V) = Len(v) + Len(w)
      /\ \A i \in 1..Len(v) + Len(w) : V[i] = IF i <= Len(v) THEN v[i] ELSE w[i - Len(v)]
  BY ConcatProperties
<1>2. Len(v) \in Nat /\ Len(w) \in Nat
  OBVIOUS
<1> HIDE DEF V
<1>3. \A i \in 1..Len(v) : V[i] = v[i]
  BY <1>1, <1>2
<1>4. \A i \in 1..Len(w) : V[Len(v) + i] = w[i]
  <2> SUFFICES ASSUME NEW i \in 1..Len(w) PROVE V[Len(v) + i] = w[i]
    OBVIOUS
  <2>1. Len(v) + i \in 1..Len(v) + Len(w) /\ ~(Len(v) + i <= Len(v)) /\ (Len(v) + i) - Len(v) = i
    BY <1>2
  <2>2. V[Len(v) + i] = w[(Len(v) + i) - Len(v)]
    BY <1>1, <2>1, Zenon
  <2> QED
    BY <2>1, <2>2
<1> QED
  BY <1>1, <1>3, <1>4 DEF V

\* What a write on a wire is.
LEMMA WriteIs ==
    ASSUME NEW r, NEW p, NEW l, NEW v, NEW y, NEW d, NEW a, NEW f, NEW k
    PROVE  /\ ChunkWrite(r, p, v, y, d, a) => v.kind = "chunk" /\ d <= y /\ y < a
           /\ CreditWrite(r, p, l, v, y, f, k) => v.kind = "credit" /\ f <= y /\ y <= k
  BY DEF ChunkWrite, CreditWrite

\* The wire V has n chunks after the c writes of v and, when m is 1, a credit.
More(x, r, p, l, v, y, V, Y, c, n, m, d, a, f, o) ==
    /\ p \in {r - 1, r + 1} /\ c + (n + m) <= x.room
    /\ Len(y) = c /\ Len(V) = c + (n + m) /\ Len(Y) = c + (n + m)
    /\ \A i \in 1..c : V[i] = v[i] /\ Y[i] = y[i]
    /\ \A i \in 1..n : ChunkWrite(r, p, V[c + i], Y[c + i], d, a + n) /\ Y[c + i] = a + (i - 1)
    /\ m = 1 => CreditWrite(r, p, l, V[(c + n) + 1], Y[(c + n) + 1], f, o) /\ Y[(c + n) + 1] = o

\* Such a wire carries the chunks and credits.
LEMMA CarriesBoth ==
    ASSUME NEW x, NEW r, NEW p, NEW l, NEW v, NEW y, NEW V, NEW Y, NEW c \in Nat, NEW n \in Nat,
           NEW m \in 0..1,
           NEW d \in Nat, NEW a \in Nat, NEW f \in Nat, NEW k \in Nat, NEW o \in Nat, Carries(x, r, p, l, v, y, d, a, f, k),
           d <= a, f <= k, k <= o, Y \in Seq(Nat), More(x, r, p, l, v, y, V, Y, c, n, m, d, a, f, o)
    PROVE  Carries(x, r, p, l, V, Y, d, a + n, f, o)
<1>1. PICK N \in Nat : N = c + (n + m) /\ N <= x.room
  <2>1. c + (n + m) \in Nat /\ c + (n + m) <= x.room
    BY DEF More
  <2> QED
    BY <2>1, Zenon
<1>2. \A i \in 1..N : Y[i] \in Nat
  <2>1. Len(Y) = N
    BY <1>1 DEF More
  <2> QED
    BY <2>1
<1>3. /\ \A i \in 1..c : ChunkWrite(r, p, V[i], Y[i], d, a) \/ CreditWrite(r, p, l, V[i], Y[i], f, k)
      /\ \A i, j \in 1..c : i < j /\ V[i].kind = "chunk" /\ V[j].kind = "chunk" => Y[i] < Y[j]
      /\ \A i, j \in 1..c : i < j /\ V[i].kind = "credit" /\ V[j].kind = "credit" => Y[i] <= Y[j]
      /\ \A g \in Nat : d <= g /\ g < a => \E i \in 1..c : V[i].kind = "chunk" /\ Y[i] = g
  <2>1. Len(y) = c /\ \A i \in 1..c : V[i] = v[i] /\ Y[i] = y[i]
    BY DEF More
  <2>2. \A i \in 1..c : ChunkWrite(r, p, v[i], y[i], d, a) \/ CreditWrite(r, p, l, v[i], y[i], f, k)
    BY <2>1, Zenon DEF Carries
  <2>3. \A i, j \in 1..c : i < j /\ v[i].kind = "chunk" /\ v[j].kind = "chunk" => y[i] < y[j]
    BY <2>1, Zenon DEF Carries
  <2>4. \A i, j \in 1..c : i < j /\ v[i].kind = "credit" /\ v[j].kind = "credit" => y[i] <= y[j]
    BY <2>1, Zenon DEF Carries
  <2>5. \A g \in Nat : d <= g /\ g < a => \E i \in 1..c : v[i].kind = "chunk" /\ y[i] = g
    <3>1. p \in {r - 1, r + 1} => \A g \in Nat : d <= g /\ g < a => \E i \in 1..Len(y) : v[i].kind = "chunk" /\ y[i] = g
      BY Zenon DEF Carries
    <3> QED
      BY <2>1, <3>1 DEF More
  <2>6. \A i \in 1..c : ChunkWrite(r, p, V[i], Y[i], d, a) \/ CreditWrite(r, p, l, V[i], Y[i], f, k)
    <3> SUFFICES ASSUME NEW i \in 1..c
                 PROVE  ChunkWrite(r, p, V[i], Y[i], d, a) \/ CreditWrite(r, p, l, V[i], Y[i], f, k)
      OBVIOUS
    <3>1. V[i] = v[i] /\ Y[i] = y[i]
      BY <2>1
    <3>2. ChunkWrite(r, p, v[i], y[i], d, a) \/ CreditWrite(r, p, l, v[i], y[i], f, k)
      BY <2>2
    <3> QED
      BY <3>1, <3>2
  <2>7. \A i, j \in 1..c : i < j /\ V[i].kind = "chunk" /\ V[j].kind = "chunk" => Y[i] < Y[j]
    <3> SUFFICES ASSUME NEW i \in 1..c, NEW j \in 1..c, i < j, V[i].kind = "chunk", V[j].kind = "chunk"
                 PROVE  Y[i] < Y[j]
      OBVIOUS
    <3>1. V[i] = v[i] /\ Y[i] = y[i] /\ V[j] = v[j] /\ Y[j] = y[j]
      BY <2>1
    <3>2. y[i] < y[j]
      BY <2>3, <3>1, Zenon
    <3> QED
      BY <3>1, <3>2
  <2>8. \A i, j \in 1..c : i < j /\ V[i].kind = "credit" /\ V[j].kind = "credit" => Y[i] <= Y[j]
    <3> SUFFICES ASSUME NEW i \in 1..c, NEW j \in 1..c, i < j, V[i].kind = "credit", V[j].kind = "credit"
                 PROVE  Y[i] <= Y[j]
      OBVIOUS
    <3>1. V[i] = v[i] /\ Y[i] = y[i] /\ V[j] = v[j] /\ Y[j] = y[j]
      BY <2>1
    <3>2. y[i] <= y[j]
      BY <2>4, <3>1, Zenon
    <3> QED
      BY <3>1, <3>2
  <2>9. \A g \in Nat : d <= g /\ g < a => \E i \in 1..c : V[i].kind = "chunk" /\ Y[i] = g
    BY <2>1, <2>5, Zenon
  <2> QED
    BY <2>6, <2>7, <2>8, <2>9
<1>4. \A i \in 1..c : /\ V[i].kind = "chunk" => Y[i] < a
                      /\ V[i].kind = "credit" => Y[i] <= k
  BY <1>3, WriteIs, Zenon
<1>5. \A i \in 1..n : V[c + i].kind = "chunk" /\ Y[c + i] = a + (i - 1)
  BY WriteIs, Zenon DEF More
<1>6. m = 1 => V[(c + n) + 1].kind = "credit" /\ Y[(c + n) + 1] = o
  BY WriteIs, Zenon DEF More
<1>7. \A i \in 1..N : \/ i \in 1..c
                      \/ \E t \in 1..n : i = c + t
                      \/ m = 1 /\ i = (c + n) + 1
  <2> SUFFICES ASSUME NEW i \in 1..N, ~(i \in 1..c), ~(m = 1 /\ i = (c + n) + 1)
               PROVE  \E t \in 1..n : i = c + t
    OBVIOUS
  <2>1. i - c \in 1..n /\ i = c + (i - c)
    BY <1>1
  <2> QED
    BY <2>1
<1>8. \A i \in 1..c : ChunkWrite(r, p, V[i], Y[i], d, a + n) \/ CreditWrite(r, p, l, V[i], Y[i], f, o)
  <2> SUFFICES ASSUME NEW i \in 1..c
               PROVE  ChunkWrite(r, p, V[i], Y[i], d, a + n) \/ CreditWrite(r, p, l, V[i], Y[i], f, o)
    OBVIOUS
  <2>1. Y[i] \in Nat
    BY <1>1, <1>2
  <2>2. Y[i] < a => Y[i] < a + n
    BY <2>1
  <2>3. Y[i] <= k => Y[i] <= o
    BY <2>1
  <2> QED
    BY <1>3, <2>2, <2>3, Zenon DEF ChunkWrite, CreditWrite
<1>9. \A i \in 1..N : ChunkWrite(r, p, V[i], Y[i], d, a + n) \/ CreditWrite(r, p, l, V[i], Y[i], f, o)
  BY <1>7, <1>8, Zenon DEF More
<1>10. ASSUME NEW i \in 1..N, NEW j \in 1..N, i < j, V[i].kind = "chunk", V[j].kind = "chunk"
      PROVE  Y[i] < Y[j]
  <2>1. CASE j \in 1..c
    <3>1. i \in 1..c
      BY <1>10, <2>1
    <3> QED
      BY <1>3, <1>10, <2>1, <3>1, Zenon
  <2>2. CASE \E t \in 1..n : j = c + t
    <3>1. PICK t \in 1..n : j = c + t
      BY <2>2
    <3>2. Y[j] = a + (t - 1) /\ Y[j] \in Nat
      BY <1>5, <1>2, <3>1
    <3>3. CASE i \in 1..c
      <4>1. Y[i] < a /\ Y[i] \in Nat
        BY <1>4, <1>10, <1>2, <3>3
      <4> QED
        BY <3>2, <4>1
    <3>4. CASE \E e \in 1..n : i = c + e
      <4>1. PICK e \in 1..n : i = c + e
        BY <3>4
      <4>2. Y[i] = a + (e - 1)
        BY <1>5, <4>1
      <4>3. e < t
        BY <1>10, <3>1, <4>1
      <4> QED
        BY <3>2, <4>2, <4>3
    <3>5. CASE i = (c + n) + 1
      BY <1>10, <3>1, <3>5
    <3> QED
      BY <1>7, <3>3, <3>4, <3>5
  <2>3. CASE m = 1 /\ j = (c + n) + 1
    BY <1>6, <1>10, <2>3
  <2> QED
    BY <1>7, <2>1, <2>2, <2>3
<1>11. ASSUME NEW i \in 1..N, NEW j \in 1..N, i < j, V[i].kind = "credit", V[j].kind = "credit"
      PROVE  Y[i] <= Y[j]
  <2>1. CASE j \in 1..c
    <3>1. i \in 1..c
      BY <1>11, <2>1
    <3> QED
      BY <1>3, <1>11, <2>1, <3>1, Zenon
  <2>2. CASE \E t \in 1..n : j = c + t
    BY <1>5, <1>11, <2>2
  <2>3. CASE m = 1 /\ j = (c + n) + 1
    <3>1. Y[j] = o
      BY <1>6, <2>3
    <3>2. CASE i \in 1..c
      <4>1. Y[i] <= k /\ Y[i] \in Nat
        BY <1>4, <1>11, <1>2, <3>2
      <4> QED
        BY <3>1, <4>1
    <3>3. CASE \E e \in 1..n : i = c + e
      BY <1>5, <1>11, <3>3
    <3>4. CASE i = (c + n) + 1
      BY <1>11, <2>3, <3>4
    <3> QED
      BY <1>7, <3>2, <3>3, <3>4
  <2> QED
    BY <1>7, <2>1, <2>2, <2>3
<1>12. ASSUME NEW g \in Nat, d <= g, g < a + n
       PROVE  \E i \in 1..N : V[i].kind = "chunk" /\ Y[i] = g
  <2>1. CASE g < a
    <3>1. PICK i \in 1..c : V[i].kind = "chunk" /\ Y[i] = g
      BY <1>3, <1>12, <2>1
    <3>2. i \in 1..N
      BY <1>1
    <3> QED
      BY <3>1, <3>2
  <2>2. CASE ~(g < a)
    <3>1. PICK t \in Nat : t = (g - a) + 1
      BY <1>12, <2>2
    <3>2. t \in 1..n /\ c + t \in 1..N /\ a + (t - 1) = g
      BY <1>1, <1>12, <2>2, <3>1
    <3>3. V[c + t].kind = "chunk" /\ Y[c + t] = g
      BY <1>5, <3>2
    <3> QED
      BY <3>2, <3>3
  <2> QED
    BY <2>1, <2>2
<1>13. Len(Y) = N /\ Len(V) = Len(Y) /\ Len(V) <= x.room
  BY <1>1 DEF More
<1> QED
  BY <1>9, <1>10, <1>11, <1>12, <1>13, Zenon DEF Carries, More

\* Rank p is a neighbour of r.
Beside(r, p) == p \in {r - 1, r + 1}

\* The writes w and the numbers z of a pass: n chunks and, when m is 1, a credit.
Adds(r, p, l, w, z, n, m, a, o) ==
    /\ Beside(r, p)
    /\ Len(w) = n + m /\ Len(z) = n + m
    /\ \A i \in 1..n : /\ w[i] = [kind |-> "chunk", stream |-> Toward(r, p), word |-> Wrap(z[i])]
                       /\ z[i] = a + (i - 1)
    /\ m = 1 => /\ w[n + 1] = [kind |-> "credit", stream |-> Other(Toward(r, p)), word |-> Wrap(z[n + 1])]
                /\ z[n + 1] = o /\ l = 1

\* A wire that a pass appends to carries its chunks and credits.
LEMMA CarriesMore ==
    ASSUME NEW x, NEW r, NEW p, NEW l, NEW W, NEW v \in Seq(W), NEW y \in Seq(Nat),
           NEW d \in Nat, NEW a \in Nat, NEW f \in Nat, NEW k \in Nat, Carries(x, r, p, l, v, y, d, a, f, k),
           d <= a, f <= k, NEW n \in Nat, NEW m \in 0..1, NEW o \in Nat, k <= o,
           NEW w \in Seq(W), NEW z \in Seq(Nat), Len(v) + (n + m) <= x.room, Adds(r, p, l, w, z, n, m, a, o)
    PROVE  Carries(x, r, p, l, v \o w, y \o z, d, a + n, f, o)
<1>1. Len(v) \in Nat /\ Len(y) = Len(v) /\ Len(w) = n + m /\ Len(z) = n + m
  BY DEF Carries, Adds
<1>2. PICK c \in Nat : c = Len(v)
  BY <1>1, Zenon
<1>3. PICK N \in Nat : N = c + (n + m)
  OBVIOUS
<1>4. PICK V \in Seq(W) : V = v \o w
  <2>1. v \o w \in Seq(W)
    BY Appended
  <2> QED
    BY <2>1, Zenon
<1>5. PICK Y \in Seq(Nat) : Y = y \o z
  <2>1. y \o z \in Seq(Nat)
    BY Appended
  <2> QED
    BY <2>1, Zenon
<1>6. /\ Len(V) = N /\ \A i \in 1..c : V[i] = v[i]
      /\ \A i \in 1..n + m : V[c + i] = w[i]
  <2>1. /\ Len(V) = Len(v) + Len(w)
        /\ \A i \in 1..Len(v) : V[i] = v[i]
        /\ \A i \in 1..Len(w) : V[Len(v) + i] = w[i]
    BY <1>4, Appended
  <2> QED
    BY <1>1, <1>2, <1>3, <2>1
<1>7. /\ Len(Y) = N /\ \A i \in 1..c : Y[i] = y[i]
      /\ \A i \in 1..n + m : Y[c + i] = z[i]
  <2>1. /\ Len(Y) = Len(y) + Len(z)
        /\ \A i \in 1..Len(y) : Y[i] = y[i]
        /\ \A i \in 1..Len(z) : Y[Len(y) + i] = z[i]
    BY <1>5, Appended
  <2> QED
    BY <1>1, <1>2, <1>3, <2>1
<1>8. ASSUME NEW i \in 1..n
      PROVE  ChunkWrite(r, p, V[c + i], Y[c + i], d, a + n) /\ Y[c + i] = a + (i - 1)
  <2>1. i \in 1..n + m /\ d <= a + (i - 1) /\ a + (i - 1) < a + n
    OBVIOUS
  <2>2. V[c + i] = w[i] /\ Y[c + i] = z[i]
    BY <1>6, <1>7, <2>1
  <2>3. w[i] = [kind |-> "chunk", stream |-> Toward(r, p), word |-> Wrap(z[i])] /\ z[i] = a + (i - 1)
    BY Zenon DEF Adds
  <2> QED
    BY <2>1, <2>2, <2>3, Zenon DEF ChunkWrite
<1>9. ASSUME m = 1
      PROVE  CreditWrite(r, p, l, V[(c + n) + 1], Y[(c + n) + 1], f, o) /\ Y[(c + n) + 1] = o
  <2>1. n + 1 \in 1..n + m
    BY <1>9
  <2>2. c + (n + 1) = (c + n) + 1
    OBVIOUS
  <2>3. f <= o /\ o <= o
    OBVIOUS
  <2>4. V[(c + n) + 1] = w[n + 1] /\ Y[(c + n) + 1] = z[n + 1]
    <3>1. V[c + (n + 1)] = w[n + 1] /\ Y[c + (n + 1)] = z[n + 1]
      BY <1>6, <1>7, <2>1, Zenon
    <3> QED
      BY <2>2, <3>1
  <2>5. /\ w[n + 1] = [kind |-> "credit", stream |-> Other(Toward(r, p)), word |-> Wrap(z[n + 1])]
        /\ z[n + 1] = o /\ l = 1
    BY <1>9, Zenon DEF Adds
  <2> QED
    BY <2>4, <2>5, <2>3, Zenon DEF CreditWrite
<1>10. c + (n + m) <= x.room
  BY <1>2
<1>11. More(x, r, p, l, v, y, V, Y, c, n, m, d, a, f, o)
  <2>1. Len(y) = c /\ Len(V) = c + (n + m) /\ Len(Y) = c + (n + m)
    BY <1>1, <1>2, <1>3, <1>6, <1>7
  <2>2. p \in {r - 1, r + 1}
    BY DEF Adds, Beside
  <2> QED
    <3>1. \A i \in 1..c : V[i] = v[i] /\ Y[i] = y[i]
      BY <1>6, <1>7
    <3>2. \A i \in 1..n : ChunkWrite(r, p, V[c + i], Y[c + i], d, a + n) /\ Y[c + i] = a + (i - 1)
      BY <1>8, Zenon
    <3>3. m = 1 => CreditWrite(r, p, l, V[(c + n) + 1], Y[(c + n) + 1], f, o) /\ Y[(c + n) + 1] = o
      BY <1>9, Zenon
    <3> QED
      BY <1>10, <2>1, <2>2, <3>1, <3>2, <3>3 DEF More
<1>12. Carries(x, r, p, l, V, Y, d, a + n, f, o)
  BY <1>11, CarriesBoth
<1> QED
  BY <1>4, <1>5, <1>12

\* The counters j after a pass of rank r over those before, h.
Passes(x, h, j, r) ==
    /\ j.b = h.b /\ j.d = h.d /\ j.f = h.f /\ j.u = h.u /\ j.t[r] = h.b[r]
    /\ \A q \in RanksOf(x) : q # r => /\ j.t[q] = h.t[q] /\ j.p[q] = h.p[q] /\ j.c[q] = h.c[q] /\ j.k[q] = h.k[q]
                                      /\ j.n[q] = h.n[q] /\ j.w[q] = h.w[q]
    /\ h.n[r] <= j.n[r] /\ \A l \in LanesOf(x) : j.n[r] <= h.d[r][Own(x, r)][l]
    /\ \A s \in Streams :
          /\ h.p[r][s] <= j.p[r][s] /\ h.k[r][s] <= j.k[r][s]
          /\ Out(x, r, s) =>
                /\ j.p[r][s] <= Total(x)[h.b[r]] /\ j.p[r][s] <= h.f[r][s] + Slots
                /\ s = Own(x, r) => \A g \in Nat : g < j.p[r][s] => g \in h.u[r]["partial"]
                /\ Forwards(x, r, s) =>
                      \A l \in LanesOf(x) : j.p[r][s] <= h.d[InPeer(r, s)][s][l] /\ j.k[r][s] <= h.d[r][s][l]
          /\ In(x, r, s) =>
                /\ j.k[r][s] <= j.c[r][s] /\ \A g \in Nat : g < j.c[r][s] => g \in h.u[r][s]
                /\ \A l \in LanesOf(x) : j.c[r][s] <= h.d[InPeer(r, s)][s][l]

\* A pass keeps the order of the counters.
LEMMA PassOrdered ==
    ASSUME NEW x \in Sessions, NEW h \in Counters(x), NEW j \in Counters(x), Ordered(x, h), NEW r \in RanksOf(x),
           Passes(x, h, j, r)
    PROVE  Ordered(x, j)
<1>1. /\ j.b = h.b /\ j.d = h.d /\ j.f = h.f /\ j.u = h.u /\ j.t[r] = h.b[r]
      /\ \A q \in RanksOf(x) : q # r => /\ j.t[q] = h.t[q] /\ j.p[q] = h.p[q] /\ j.c[q] = h.c[q] /\ j.k[q] = h.k[q]
                                        /\ j.n[q] = h.n[q] /\ j.w[q] = h.w[q]
  BY DEF Passes
<1>2. ASSUME NEW q \in RanksOf(x), NEW s \in Streams
      PROVE  h.k[q][s] <= j.k[q][s] /\ h.k[q][s] \in Nat /\ j.k[q][s] \in Nat /\ h.p[q][s] <= j.p[q][s]
             /\ h.p[q][s] \in Nat /\ j.p[q][s] \in Nat
  <2>1. h.k[q][s] \in Nat /\ j.k[q][s] \in Nat /\ h.p[q][s] \in Nat /\ j.p[q][s] \in Nat
    BY CounterTypes
  <2>2. q = r => h.k[q][s] <= j.k[q][s] /\ h.p[q][s] <= j.p[q][s]
    BY DEF Passes
  <2> QED
    BY <1>1, <2>1, <2>2
<1>3. ASSUME NEW q \in RanksOf(x), NEW s \in Streams, Out(x, q, s)
      PROVE  OutOrder(x, j, q, s)
  <2>1. OutPeer(q, s) \in RanksOf(x)
    BY <1>3, Neighbours
  <2>2. OutOrder(x, h, q, s)
    BY <1>3, Zenon DEF Ordered
  <2>3. j.f[q][s] <= j.k[OutPeer(q, s)][s]
    <3>1. h.f[q][s] <= h.k[OutPeer(q, s)][s] /\ h.f[q][s] \in Nat
      BY <2>2, CounterTypes, Zenon DEF OutOrder
    <3>2. h.k[OutPeer(q, s)][s] <= j.k[OutPeer(q, s)][s] /\ h.k[OutPeer(q, s)][s] \in Nat /\ j.k[OutPeer(q, s)][s] \in Nat
      BY <1>2, <2>1, Zenon
    <3>3. \A a, y, z \in Nat : a <= y /\ y <= z => a <= z
      OBVIOUS
    <3> QED
      BY <1>1, <3>1, <3>2, <3>3, Zenon
  <2>4. \A l \in LanesOf(x) : j.d[q][s][l] <= j.p[q][s]
    <3>1. \A l \in LanesOf(x) : h.d[q][s][l] <= h.p[q][s] /\ h.d[q][s][l] \in Nat
      BY <2>2, CounterTypes, Zenon DEF OutOrder
    <3>2. h.p[q][s] <= j.p[q][s] /\ h.p[q][s] \in Nat /\ j.p[q][s] \in Nat
      BY <1>2
    <3>3. \A a, y, z \in Nat : a <= y /\ y <= z => a <= z
      OBVIOUS
    <3> QED
      BY <1>1, <3>1, <3>2, <3>3, Zenon
  <2>5. CASE q = r
    <3>1. /\ j.p[r][s] <= Total(x)[h.b[r]] /\ j.p[r][s] <= h.f[r][s] + Slots
          /\ s = Own(x, r) => \A g \in Nat : g < j.p[r][s] => g \in h.u[r]["partial"]
          /\ Forwards(x, r, s) =>
                \A l \in LanesOf(x) : j.p[r][s] <= h.d[InPeer(r, s)][s][l] /\ j.k[r][s] <= h.d[r][s][l]
      BY <1>3, <2>5, Zenon DEF Passes
    <3> QED
      BY <1>1, <2>3, <2>4, <2>5, <3>1, Zenon DEF OutOrder
  <2>6. CASE q # r
    BY <1>1, <2>2, <2>3, <2>4, <2>6, Zenon DEF OutOrder
  <2> QED
    BY <2>5, <2>6
<1>4. ASSUME NEW q \in RanksOf(x), NEW s \in Streams, In(x, q, s)
      PROVE  InOrder(x, j, q, s)
  <2>1. InOrder(x, h, q, s)
    BY <1>4, Zenon DEF Ordered
  <2>2. CASE q = r
    <3>1. /\ j.k[r][s] <= j.c[r][s] /\ \A g \in Nat : g < j.c[r][s] => g \in h.u[r][s]
          /\ \A l \in LanesOf(x) : j.c[r][s] <= h.d[InPeer(r, s)][s][l]
      BY <1>4, <2>2, Zenon DEF Passes
    <3> QED
      BY <1>1, <2>1, <2>2, <3>1, Zenon DEF InOrder
  <2>3. CASE q # r
    BY <1>1, <2>1, <2>3, Zenon DEF InOrder
  <2> QED
    BY <2>2, <2>3
<1>5. ASSUME NEW q \in RanksOf(x)
      PROVE  SendOrder(x, j, q)
  <2>1. SendOrder(x, h, q)
    BY Zenon DEF Ordered
  <2>2. CASE q = r
    <3>1. h.n[r] <= j.n[r] /\ \A l \in LanesOf(x) : j.n[r] <= h.d[r][Own(x, r)][l]
      BY DEF Passes
    <3>2. \A g \in h.u[r]["partial"] : g < j.n[r] + Slots
      <4>1. \A g \in h.u[r]["partial"] : g < h.n[r] + Slots
        BY <2>1, <2>2, Zenon DEF SendOrder
      <4>2. h.n[r] \in Nat /\ j.n[r] \in Nat /\ Slots \in Nat /\ h.u[r]["partial"] \in SUBSET Nat
        BY CounterTypes, Sizes DEF Streams
      <4> QED
        BY <3>1, <4>1, <4>2
    <3> QED
      BY <1>1, <2>2, <3>1, <3>2, Zenon DEF SendOrder
  <2>3. CASE q # r
    BY <1>1, <2>1, <2>3, Zenon DEF SendOrder
  <2> QED
    BY <2>2, <2>3
<1> QED
  BY <1>3, <1>4, <1>5, Zenon DEF Ordered

\* What a rank posts its neighbour had posted.
LEMMA PassAlong ==
    ASSUME NEW x \in Sessions, NEW h \in Counters(x), NEW j \in Counters(x), Ordered(x, h), Along(x, h),
           NEW r \in RanksOf(x), Passes(x, h, j, r)
    PROVE  Along(x, j)
<1> DEFINE P(q) == h.p[q]["partial"]
           R(q) == h.p[q]["result"]
           p == j.p[r]["partial"]
           a == j.p[r]["result"]
<1>1. /\ r \in Int /\ 0 <= r /\ r <= x.world - 1 /\ x.world \in Int /\ 1 \in LanesOf(x)
      /\ \A q \in RanksOf(x) : q \in Int /\ 0 <= q /\ q <= x.world - 1
      /\ \A q \in Int : 0 <= q /\ q <= x.world - 1 => q \in RanksOf(x)
      /\ "partial" \in Streams /\ "result" \in Streams
  BY SessionIs DEF RanksOf, Streams
<1>2. /\ \A q \in RanksOf(x) : P(q) \in Nat /\ R(q) \in Nat
      /\ p \in Nat /\ a \in Nat /\ P(r) <= p /\ R(r) <= a
  <2>1. \A q \in RanksOf(x) : P(q) \in Nat /\ R(q) \in Nat
    BY <1>1, CounterTypes
  <2>2. p \in Nat /\ a \in Nat
    BY <1>1, CounterTypes
  <2>3. P(r) <= p /\ R(r) <= a
    BY <1>1, Zenon DEF Passes
  <2> QED
    BY <2>1, <2>2, <2>3
<1>3. ASSUME NEW z \in Nat, \A g \in Nat : g < z => g \in h.u[r]["partial"], 0 < r
      PROVE  z <= P(r - 1) /\ r - 1 \in RanksOf(x)
  <2>1. In(x, r, "partial") /\ InPeer(r, "partial") = r - 1 /\ r - 1 \in RanksOf(x)
    BY <1>1, <1>3 DEF In, InPeer
  <2>2. \A g \in h.u[r]["partial"] : g < h.d[r - 1]["partial"][1]
    BY <1>1, <2>1, LinkBounds
  <2>3. h.d[r - 1]["partial"][1] <= P(r - 1) /\ h.d[r - 1]["partial"][1] \in Nat /\ P(r - 1) \in Nat
    BY <1>1, <2>1, LinkBounds
  <2>4. CASE z = 0
    BY <2>1, <2>3, <2>4
  <2>5. CASE z # 0
    <3>1. z - 1 \in Nat /\ z - 1 < z
      BY <2>5
    <3>2. z - 1 < h.d[r - 1]["partial"][1]
      BY <1>3, <2>2, <3>1
    <3> QED
      BY <2>1, <2>3, <3>2
  <2> QED
    BY <2>4, <2>5
<1>4. 0 < r /\ r < x.world - 1 => p <= P(r - 1) /\ r - 1 \in RanksOf(x)
  <2> SUFFICES ASSUME 0 < r, r < x.world - 1 PROVE p <= P(r - 1) /\ r - 1 \in RanksOf(x)
    OBVIOUS
  <2>1. Out(x, r, "partial") /\ Own(x, r) = "partial"
    BY <1>1 DEF Out, Own
  <2>2. \A g \in Nat : g < p => g \in h.u[r]["partial"]
    BY <1>1, <2>1, Zenon DEF Passes
  <2> QED
    BY <1>2, <1>3, <2>2
<1>5. r = x.world - 1 /\ 0 < r => a <= P(r - 1) /\ r - 1 \in RanksOf(x)
  <2> SUFFICES ASSUME r = x.world - 1, 0 < r PROVE a <= P(r - 1) /\ r - 1 \in RanksOf(x)
    OBVIOUS
  <2>1. Out(x, r, "result") /\ Own(x, r) = "result"
    BY <1>1 DEF Out, Own
  <2>2. \A g \in Nat : g < a => g \in h.u[r]["partial"]
    BY <1>1, <2>1, Zenon DEF Passes
  <2> QED
    BY <1>2, <1>3, <2>2
<1>6. 0 < r /\ r < x.world - 1 => a <= R(r + 1) /\ r + 1 \in RanksOf(x)
  <2> SUFFICES ASSUME 0 < r, r < x.world - 1 PROVE a <= R(r + 1) /\ r + 1 \in RanksOf(x)
    OBVIOUS
  <2>1. /\ Out(x, r, "result") /\ Forwards(x, r, "result") /\ In(x, r, "result") /\ InPeer(r, "result") = r + 1
        /\ r + 1 \in RanksOf(x)
    BY <1>1 DEF Out, In, Forwards, InPeer
  <2>2. a <= h.d[r + 1]["result"][1]
    BY <1>1, <2>1, Zenon DEF Passes
  <2>3. h.d[r + 1]["result"][1] <= R(r + 1) /\ h.d[r + 1]["result"][1] \in Nat /\ R(r + 1) \in Nat
    BY <1>1, <2>1, LinkBounds
  <2> QED
    BY <1>2, <2>1, <2>2, <2>3
<1>7. /\ \A q \in RanksOf(x) : q # r => j.p[q]["partial"] = P(q) /\ j.p[q]["result"] = R(q)
      /\ j.p[r]["partial"] = p /\ j.p[r]["result"] = a
  BY DEF Passes
<1>8. /\ \A i, q \in RanksOf(x) : i <= q /\ q < x.world - 1 => P(q) <= P(i)
      /\ \A i, q \in RanksOf(x) : i <= q /\ i > 0 => R(i) <= R(q)
      /\ \A i, q \in RanksOf(x) : i > 0 /\ q < x.world - 1 => R(i) <= P(q)
  BY DEF Along
<1> HIDE DEF P, R, p, a
<1>9. ASSUME NEW i \in RanksOf(x), NEW q \in RanksOf(x), i <= q, q < x.world - 1
      PROVE  j.p[q]["partial"] <= j.p[i]["partial"]
  <2>1. CASE q = r /\ i # r
    <3>1. 0 < r /\ r < x.world - 1 /\ i <= r - 1 /\ r - 1 < x.world - 1
      BY <1>1, <1>9, <2>1
    <3>2. p <= P(r - 1) /\ r - 1 \in RanksOf(x)
      BY <1>4, <3>1
    <3>3. P(r - 1) <= P(i)
      BY <1>8, <3>1, <3>2
    <3> QED
      BY <1>2, <1>7, <2>1, <3>2, <3>3
  <2>2. CASE q # r /\ i = r
    <3>1. P(q) <= P(r)
      BY <1>8, <1>9, <2>2
    <3> QED
      BY <1>2, <1>7, <2>2, <3>1
  <2>3. CASE q # r /\ i # r
    BY <1>7, <1>8, <1>9, <2>3
  <2>4. CASE q = r /\ i = r
    BY <1>2, <1>7, <2>4
  <2> QED
    BY <2>1, <2>2, <2>3, <2>4
<1>10. ASSUME NEW i \in RanksOf(x), NEW q \in RanksOf(x), i <= q, i > 0
       PROVE  j.p[i]["result"] <= j.p[q]["result"]
  <2>1. CASE i = r /\ q # r
    <3>1. 0 < r /\ r < x.world - 1 /\ r + 1 <= q /\ r + 1 > 0
      BY <1>1, <1>10, <2>1
    <3>2. a <= R(r + 1) /\ r + 1 \in RanksOf(x)
      BY <1>6, <3>1
    <3>3. R(r + 1) <= R(q)
      BY <1>8, <3>1, <3>2
    <3> QED
      BY <1>2, <1>7, <2>1, <3>2, <3>3
  <2>2. CASE i # r /\ q = r
    <3>1. R(i) <= R(r)
      BY <1>8, <1>10, <2>2
    <3> QED
      BY <1>2, <1>7, <2>2, <3>1
  <2>3. CASE q # r /\ i # r
    BY <1>7, <1>8, <1>10, <2>3
  <2>4. CASE q = r /\ i = r
    BY <1>2, <1>7, <2>4
  <2> QED
    BY <2>1, <2>2, <2>3, <2>4
<1>11. ASSUME NEW i \in RanksOf(x), NEW q \in RanksOf(x), i > 0, q < x.world - 1
       PROVE  j.p[i]["result"] <= j.p[q]["partial"]
  <2>1. P(q) <= j.p[q]["partial"] /\ P(q) \in Nat /\ j.p[q]["partial"] \in Nat
    BY <1>2, <1>7
  <2>2. CASE i = r /\ r < x.world - 1
    <3>1. 0 < r /\ r + 1 > 0
      BY <1>1, <1>11, <2>2
    <3>2. a <= R(r + 1) /\ r + 1 \in RanksOf(x)
      BY <1>6, <2>2, <3>1
    <3>3. R(r + 1) <= P(q)
      BY <1>8, <1>11, <3>1, <3>2
    <3> QED
      BY <1>2, <1>7, <2>1, <2>2, <3>2, <3>3
  <2>3. CASE i = r /\ r = x.world - 1
    <3>1. 0 < r /\ q <= r - 1 /\ r - 1 < x.world - 1
      BY <1>1, <1>11, <2>3
    <3>2. a <= P(r - 1) /\ r - 1 \in RanksOf(x)
      BY <1>5, <2>3, <3>1
    <3>3. P(r - 1) <= P(q)
      BY <1>8, <3>1, <3>2
    <3> QED
      BY <1>2, <1>7, <2>1, <2>3, <3>2, <3>3
  <2>4. CASE i # r
    <3>1. R(i) <= P(q)
      BY <1>8, <1>11
    <3> QED
      BY <1>2, <1>7, <2>1, <2>4, <3>1
  <2> QED
    BY <1>1, <2>2, <2>3, <2>4
<1> QED
  BY <1>9, <1>10, <1>11, Zenon DEF Along

\* The writes that a wire may hold.
WriteOf == [kind : {"chunk", "credit"}, stream : Streams, word : Word]

\* The words that such a pass leaves, and the writes that it adds.
Publishes(x, h, j, r) ==
    /\ last' = [last EXCEPT ![r] = Wrap(j.t[r])] /\ known' = [known EXCEPT ![r] = Wrap(Total(x)[j.t[r]])]
    /\ sent' = [sent EXCEPT ![r] = Wrap(j.n[r])]
    /\ post' = [post EXCEPT ![r] = [s \in Streams |-> Wrap(j.p[r][s])]]
    /\ consumed' = [consumed EXCEPT ![r] = [s \in Streams |-> Wrap(j.c[r][s])]]
    /\ credited' = [credited EXCEPT ![r] = [s \in Streams |-> Wrap(j.k[r][s])]]
    /\ \E e : ops' = [ops EXCEPT ![r] = e] /\ Table(x, e, j.t[r])
    /\ \E v \in [RanksOf(x) -> [LanesOf(x) -> Seq(WriteOf)]] :
          /\ wire' = [wire EXCEPT ![r] = v]
          /\ \A p \in RanksOf(x), l \in LanesOf(x) :
                Carries(x, r, p, l, v[p][l], j.w[r][p][l], h.d[r][Toward(r, p)][l], j.p[r][Toward(r, p)],
                        h.f[p][Other(Toward(r, p))], j.k[r][Other(Toward(r, p))])
    /\ UNCHANGED <<session, recv, flag, send, ready, finished, credit, doorbell, params, done, failed, kernel>>

\* A pass that does so keeps the invariant.
LEMMA PassKeeps ==
    ASSUME NEW x \in Sessions, session = x, NEW h \in Counters(x), NEW j \in Counters(x), Body(x, h),
           NEW r \in RanksOf(x), Passes(x, h, j, r), Publishes(x, h, j, r)
    PROVE  Body(x, j)'
<1>1. /\ Typed(x) /\ Counted(x, h) /\ Begins(x, h) /\ Used(x, h) /\ Ordered(x, h) /\ Along(x, h)
      /\ Wired(x, h) /\ Flagged(x, h) /\ Marked(x, h) /\ Valued(x, h)
  BY DEF Body
<1>2. /\ recv' = recv /\ flag' = flag /\ send' = send /\ ready' = ready /\ finished' = finished
      /\ credit' = credit /\ doorbell' = doorbell /\ params' = params /\ done' = done /\ failed' = failed
      /\ op' = op /\ base' = base /\ running' = running /\ at' = at /\ out' = out /\ poison' = poison /\ error' = error
  BY DEF Publishes, kernel
<1>3. /\ j.b = h.b /\ j.d = h.d /\ j.f = h.f /\ j.u = h.u /\ j.t[r] = h.b[r]
      /\ \A q \in RanksOf(x) : q # r => /\ j.t[q] = h.t[q] /\ j.p[q] = h.p[q] /\ j.c[q] = h.c[q] /\ j.k[q] = h.k[q]
                                        /\ j.n[q] = h.n[q] /\ j.w[q] = h.w[q]
  BY DEF Passes
<1>4. PICK e : ops' = [ops EXCEPT ![r] = e] /\ Table(x, e, j.t[r])
  BY DEF Publishes
<1>5. PICK v \in [RanksOf(x) -> [LanesOf(x) -> Seq(WriteOf)]] :
          /\ wire' = [wire EXCEPT ![r] = v]
          /\ \A p \in RanksOf(x), l \in LanesOf(x) :
                Carries(x, r, p, l, v[p][l], j.w[r][p][l], h.d[r][Toward(r, p)][l], j.p[r][Toward(r, p)],
                        h.f[p][Other(Toward(r, p))], j.k[r][Other(Toward(r, p))])
  BY DEF Publishes
<1>6. /\ last' = [last EXCEPT ![r] = Wrap(j.t[r])] /\ known' = [known EXCEPT ![r] = Wrap(Total(x)[j.t[r]])]
      /\ sent' = [sent EXCEPT ![r] = Wrap(j.n[r])]
      /\ post' = [post EXCEPT ![r] = [s \in Streams |-> Wrap(j.p[r][s])]]
      /\ consumed' = [consumed EXCEPT ![r] = [s \in Streams |-> Wrap(j.c[r][s])]]
      /\ credited' = [credited EXCEPT ![r] = [s \in Streams |-> Wrap(j.k[r][s])]]
  BY DEF Publishes
<1>7. /\ last \in [RanksOf(x) -> Word] /\ known \in [RanksOf(x) -> Word] /\ sent \in [RanksOf(x) -> Word]
      /\ post \in [RanksOf(x) -> [Streams -> Word]] /\ consumed \in [RanksOf(x) -> [Streams -> Word]]
      /\ credited \in [RanksOf(x) -> [Streams -> Word]]
      /\ ops \in [RanksOf(x) -> [0..OpEntries - 1 -> [first : Word, count : Nat]]]
      /\ wire \in [RanksOf(x) -> [RanksOf(x) -> [LanesOf(x) -> Seq(WriteOf)]]]
  BY <1>1 DEF Typed, WriteOf
<1>8. Typed(x)'
  <2>1. \A a \in Nat : Wrap(a) \in Word
    <3>1. \A a \in Nat : a \in Int
      OBVIOUS
    <3> QED
      BY <3>1, Wraps, Zenon
  <2>2. Total(x)[j.t[r]] \in Nat /\ j.t[r] \in Nat /\ j.n[r] \in Nat
    <3>1. h.b[r] \in Nat /\ h.b[r] <= Len(x.ops) /\ Len(x.ops) \in Nat
      BY <1>1, CounterTypes, SessionIs DEF Begins
    <3>2. h.b[r] \in 0..Len(x.ops)
      BY <3>1
    <3> QED
      BY <1>3, <3>2, CounterTypes, Totals
  <2>3. \A s \in Streams : j.p[r][s] \in Nat /\ j.c[r][s] \in Nat /\ j.k[r][s] \in Nat
    BY CounterTypes
  <2>4. last' \in [RanksOf(x) -> Word] /\ known' \in [RanksOf(x) -> Word] /\ sent' \in [RanksOf(x) -> Word]
    <3>1. Wrap(j.t[r]) \in Word /\ Wrap(Total(x)[j.t[r]]) \in Word /\ Wrap(j.n[r]) \in Word
      BY <2>1, <2>2, Zenon
    <3> QED
      BY <1>6, <1>7, <3>1
  <2>5. /\ post' \in [RanksOf(x) -> [Streams -> Word]] /\ consumed' \in [RanksOf(x) -> [Streams -> Word]]
        /\ credited' \in [RanksOf(x) -> [Streams -> Word]]
    <3>1. \A s \in Streams : Wrap(j.p[r][s]) \in Word /\ Wrap(j.c[r][s]) \in Word /\ Wrap(j.k[r][s]) \in Word
      BY <2>1, <2>3, Zenon
    <3> QED
      BY <1>6, <1>7, <3>1
  <2>6. ops' \in [RanksOf(x) -> [0..OpEntries - 1 -> [first : Word, count : Nat]]]
    <3>1. e \in [0..OpEntries - 1 -> [first : Word, count : Nat]]
      BY <1>4 DEF Table
    <3> QED
      BY <1>4, <1>7, <3>1
  <2>7. wire' \in [RanksOf(x) -> [RanksOf(x) -> [LanesOf(x) -> Seq(WriteOf)]]]
    BY <1>5, <1>7
  <2>8. wire' \in [RanksOf(x) -> [RanksOf(x) ->
                    [LanesOf(x) -> Seq([kind : {"chunk", "credit"}, stream : Streams, word : Word])]]]
    BY <2>7 DEF WriteOf
  <2>9. out' = [q \in RanksOf(x) |-> out'[q]]
    BY <1>1, <1>2, Zenon DEF Typed
  <2>10. \A q \in RanksOf(x) : running'[q] =>
          op'[q] < Len(x.ops) /\ out'[q] \in [0..x.ops[op'[q] + 1] - 1 -> [LanesOf(x) -> Seq(Nat)]]
    BY <1>1, <1>2, Zenon DEF Typed
  <2> QED
    BY <1>1, <1>2, <2>4, <2>5, <2>6, <2>8, <2>9, <2>10, Zenon DEF Typed
<1>9. Counted(x, j)'
  <2> SUFFICES ASSUME NEW q \in RanksOf(x)
               PROVE  /\ doorbell'[q] = Wrap(j.b[q]) /\ last'[q] = Wrap(j.t[q]) /\ known'[q] = Wrap(Total(x)[j.t[q]])
                      /\ sent'[q] = Wrap(j.n[q])
                      /\ \A s \in Streams :
                            /\ post'[q][s] = Wrap(j.p[q][s]) /\ consumed'[q][s] = Wrap(j.c[q][s])
                            /\ credited'[q][s] = Wrap(j.k[q][s]) /\ credit'[q][s] = Wrap(j.f[q][s])
                            /\ \A l \in LanesOf(x) : done'[q][s][l] = Wrap(j.d[q][s][l])
    BY Zenon DEF Counted
  <2>1. doorbell'[q] = Wrap(j.b[q]) /\ \A s \in Streams : /\ credit'[q][s] = Wrap(j.f[q][s])
                                                         /\ \A l \in LanesOf(x) : done'[q][s][l] = Wrap(j.d[q][s][l])
    <3>1. doorbell[q] = Wrap(h.b[q]) /\ \A s \in Streams : /\ credit[q][s] = Wrap(h.f[q][s])
                                                           /\ \A l \in LanesOf(x) : done[q][s][l] = Wrap(h.d[q][s][l])
      BY <1>1, ZenonT(60) DEF Counted
    <3> QED
      BY <1>2, <1>3, <3>1
  <2>2. /\ last'[q] = Wrap(j.t[q]) /\ known'[q] = Wrap(Total(x)[j.t[q]]) /\ sent'[q] = Wrap(j.n[q])
        /\ \A s \in Streams : /\ post'[q][s] = Wrap(j.p[q][s]) /\ consumed'[q][s] = Wrap(j.c[q][s])
                              /\ credited'[q][s] = Wrap(j.k[q][s])
    <3>1. CASE q = r
      <4>1. last'[r] = Wrap(j.t[r]) /\ known'[r] = Wrap(Total(x)[j.t[r]]) /\ sent'[r] = Wrap(j.n[r])
        BY <1>6, <1>7
      <4>2. /\ post'[r] = [s \in Streams |-> Wrap(j.p[r][s])] /\ consumed'[r] = [s \in Streams |-> Wrap(j.c[r][s])]
            /\ credited'[r] = [s \in Streams |-> Wrap(j.k[r][s])]
        BY <1>6, <1>7
      <4> QED
        BY <3>1, <4>1, <4>2
    <3>2. CASE q # r
      <4>1. /\ last'[q] = last[q] /\ known'[q] = known[q] /\ sent'[q] = sent[q] /\ post'[q] = post[q]
            /\ consumed'[q] = consumed[q] /\ credited'[q] = credited[q]
        BY <1>6, <1>7, <3>2
      <4> QED
        <5>1. /\ last[q] = Wrap(h.t[q]) /\ known[q] = Wrap(Total(x)[h.t[q]]) /\ sent[q] = Wrap(h.n[q])
              /\ \A s \in Streams : /\ post[q][s] = Wrap(h.p[q][s]) /\ consumed[q][s] = Wrap(h.c[q][s])
                                    /\ credited[q][s] = Wrap(h.k[q][s])
          BY <1>1, ZenonT(60) DEF Counted
        <5> QED
          BY <1>3, <3>2, <4>1, <5>1, SMTT(60)
    <3> QED
      BY <3>1, <3>2
  <2> QED
    BY <2>1, <2>2
<1>10. Begins(x, j)'
  <2> SUFFICES ASSUME NEW q \in RanksOf(x)
               PROVE  /\ j.t[q] <= j.b[q] /\ j.b[q] <= Len(x.ops)
                      /\ \A p \in RanksOf(x) : j.b[q] <= j.b[p] + 1
                      /\ base'[q] = Wrap(Total(x)[op'[q]])
                      /\ j.b[q] <= Begun(q)'
                      /\ Table(x, ops'[q], j.t[q])
                      /\ \A n \in 1..j.b[q] : n >= j.b[q] - 1 => params'[q][n % 2] = x.ops[n]
                      /\ ~failed'[q]
    BY Zenon DEF Begins
  <2>1. Begun(q)' = Begun(q)
    BY <1>2 DEF Begun
  <2>2. j.t[q] <= j.b[q]
    <3>1. h.t[q] <= h.b[q] /\ h.b[q] \in Nat
      BY <1>1, CounterTypes DEF Begins
    <3> QED
      BY <1>3, <3>1
  <2>3. Table(x, ops'[q], j.t[q])
    <3>1. CASE q = r
      <4>1. ops'[r] = e
        BY <1>4, <1>7
      <4> QED
        BY <1>4, <3>1, <4>1
    <3>2. CASE q # r
      <4>1. ops'[q] = ops[q]
        BY <1>4, <1>7, <3>2
      <4>2. Table(x, ops[q], h.t[q])
        BY <1>1, Zenon DEF Begins
      <4> QED
        BY <1>3, <3>2, <4>1, <4>2
    <3> QED
      BY <3>1, <3>2
  <2> QED
    BY <1>1, <1>2, <1>3, <2>1, <2>2, <2>3, Zenon DEF Begins
<1>11. Used(x, j)' /\ Flagged(x, j)' /\ Marked(x, j)' /\ Valued(x, j)'
  <2>1. Used(x, j)'
    BY <1>1, <1>2, <1>3, UsedSame
  <2>2. Flagged(x, j)' /\ Marked(x, j)'
    BY <1>1, <1>2, <1>3, FlaggedSame, MarkedSame
  <2>3. Valued(x, j)'
    BY <1>1, <1>2, <1>3, ValuedSame
  <2> QED
    BY <2>1, <2>2, <2>3
<1>12. Wired(x, j)'
  <2> SUFFICES ASSUME NEW q \in RanksOf(x), NEW p \in RanksOf(x), NEW l \in LanesOf(x)
               PROVE  Carries(x, q, p, l, wire'[q][p][l], j.w[q][p][l], j.d[q][Toward(q, p)][l], j.p[q][Toward(q, p)],
                              j.f[p][Other(Toward(q, p))], j.k[q][Other(Toward(q, p))])
    BY Zenon DEF Wired
  <2>1. CASE q = r
    <3>1. wire'[r] = v
      BY <1>5, <1>7
    <3> QED
      BY <1>3, <1>5, <2>1, <3>1, Zenon
  <2>2. CASE q # r
    <3>1. wire'[q] = wire[q]
      BY <1>5, <1>7, <2>2
    <3>2. Carries(x, q, p, l, wire[q][p][l], h.w[q][p][l], h.d[q][Toward(q, p)][l], h.p[q][Toward(q, p)],
                  h.f[p][Other(Toward(q, p))], h.k[q][Other(Toward(q, p))])
      BY <1>1, Zenon DEF Wired
    <3> QED
      BY <1>3, <2>2, <3>1, <3>2, Zenon
  <2> QED
    BY <2>1, <2>2
<1>13. Ordered(x, j)' /\ Along(x, j)'
  <2>1. Ordered(x, j) /\ Along(x, j)
    BY <1>1, PassOrdered, PassAlong
  <2> QED
    BY <2>1 DEF Ordered, OutOrder, InOrder, SendOrder, Along
<1> QED
  BY <1>8, <1>9, <1>10, <1>11, <1>12, <1>13 DEF Body

\* The streams between two neighbours.
LEMMA Sides ==
    ASSUME NEW x \in Sessions, NEW r \in RanksOf(x), NEW p \in RanksOf(x), Beside(r, p),
           NEW s, s = Toward(r, p), NEW o, o = Other(s)
    PROVE  /\ s \in Streams /\ o \in Streams /\ o # s /\ Other(o) = s /\ Toward(p, r) = o /\ Beside(p, r)
           /\ Out(x, r, s) /\ OutPeer(r, s) = p /\ In(x, r, o) /\ InPeer(r, o) = p
           /\ Out(x, p, o) /\ OutPeer(p, o) = r /\ In(x, p, s) /\ InPeer(p, s) = r
           /\ (p = r + 1 => s = "partial" /\ o = "result") /\ (p = r - 1 => s = "result" /\ o = "partial")
<1>1. /\ r \in Int /\ r >= 0 /\ r <= x.world - 1 /\ x.world \in Int /\ x.world >= 2
      /\ p \in Int /\ p >= 0 /\ p <= x.world - 1
  BY SessionIs DEF RanksOf
<1>2. CASE p = r + 1
  BY <1>1, <1>2 DEF Toward, Other, Streams, Out, OutPeer, In, InPeer, Beside
<1>3. CASE p = r - 1
  BY <1>1, <1>3 DEF Toward, Other, Streams, Out, OutPeer, In, InPeer, Beside
<1> QED
  BY <1>2, <1>3 DEF Beside

\* The writes of a pass in the direction of p.
LEMMA WritesAdd ==
    ASSUME NEW r, NEW p, Beside(r, p), NEW l, NEW s, s = Toward(r, p), s \in Streams, Other(s) \in Streams,
           NEW n \in Nat, NEW a \in Nat, post[r][s] = Wrap(a), NEW paid \in BOOLEAN, NEW o \in Nat,
           NEW m \in 0..1, m = (IF l = 1 /\ paid THEN 1 ELSE 0)
    PROVE  /\ Writes(r, s, n, l, paid, Wrap(o)) \in Seq(WriteOf)
           /\ \E z \in Seq(Nat) : Adds(r, p, l, Writes(r, s, n, l, paid, Wrap(o)), z, n, m, a, o)
<1> DEFINE C == [i \in 1..n |-> [kind |-> "chunk", stream |-> s, word |-> Plus(post[r][s], i - 1)]]
           c == [kind |-> "credit", stream |-> Other(s), word |-> Wrap(o)]
           T == IF l = 1 /\ paid THEN <<c>> ELSE <<>>
           Z == [i \in 1..n + m |-> IF i <= n THEN a + (i - 1) ELSE o]
           V == C \o T
<1>1. Writes(r, s, n, l, paid, Wrap(o)) = V
  BY DEF Writes
<1>2. \A i \in 1..n : Plus(post[r][s], i - 1) = Wrap(a + (i - 1)) /\ Wrap(a + (i - 1)) \in Word
  <2> SUFFICES ASSUME NEW i \in 1..n PROVE Plus(post[r][s], i - 1) = Wrap(a + (i - 1)) /\ Wrap(a + (i - 1)) \in Word
    OBVIOUS
  <2>1. a \in Int /\ i - 1 \in Int /\ a + (i - 1) \in Int
    OBVIOUS
  <2>2. Plus(Wrap(a), i - 1) = Wrap(a + (i - 1)) /\ Wrap(a + (i - 1)) \in Word
    BY <2>1, Wraps, Zenon
  <2> QED
    BY <2>2
<1>3. /\ C \in Seq(WriteOf) /\ Len(C) = n
      /\ \A i \in 1..n : C[i] = [kind |-> "chunk", stream |-> s, word |-> Wrap(a + (i - 1))]
  <2>1. \A i \in 1..n : [kind |-> "chunk", stream |-> s, word |-> Plus(post[r][s], i - 1)] \in WriteOf
    BY <1>2 DEF WriteOf
  <2>2. C \in Seq(WriteOf) /\ Len(C) = n
    BY <2>1
  <2>3. \A i \in 1..n : C[i] = [kind |-> "chunk", stream |-> s, word |-> Wrap(a + (i - 1))]
    BY <1>2
  <2> QED
    BY <2>2, <2>3
<1>4. c \in WriteOf
  <2>1. o \in Int
    OBVIOUS
  <2>2. Wrap(o) \in Word
    BY <2>1, Wraps, Zenon
  <2> QED
    BY <2>2 DEF WriteOf
<1> HIDE DEF c, C
<1>5. T \in Seq(WriteOf) /\ Len(T) = m /\ (m = 1 => T[1] = c /\ l = 1)
  BY <1>4
<1> HIDE DEF T
<1>6. /\ V \in Seq(WriteOf) /\ Len(V) = n + m
      /\ \A i \in 1..n : V[i] = C[i]
      /\ m = 1 => V[n + 1] = T[1]
  <2>1. /\ V \in Seq(WriteOf) /\ Len(V) = Len(C) + Len(T)
        /\ \A i \in 1..Len(C) : V[i] = C[i]
        /\ \A i \in 1..Len(T) : V[Len(C) + i] = T[i]
    <3>1. C \in Seq(WriteOf) /\ T \in Seq(WriteOf)
      BY <1>3, <1>5
    <3> QED
      BY <3>1, Appended
  <2> HIDE DEF V
  <2>2. m = 1 => 1 \in 1..Len(T)
    BY <1>5
  <2> QED
    BY <1>3, <1>5, <2>1, <2>2
<1> HIDE DEF V
<1>7. Z \in Seq(Nat) /\ Len(Z) = n + m
  <2>1. n + m \in Nat /\ \A i \in 1..n + m : (IF i <= n THEN a + (i - 1) ELSE o) \in Nat
    OBVIOUS
  <2> QED
    BY <2>1
<1>8. /\ \A i \in 1..n : Z[i] = a + (i - 1)
      /\ m = 1 => Z[n + 1] = o
  <2>1. \A i \in 1..n : i \in 1..n + m /\ i <= n
    OBVIOUS
  <2>2. m = 1 => n + 1 \in 1..n + m /\ ~(n + 1 <= n)
    OBVIOUS
  <2> QED
    BY <2>1, <2>2
<1> HIDE DEF Z
<1>9. Adds(r, p, l, V, Z, n, m, a, o)
  <2>1. \A i \in 1..n : V[i] = [kind |-> "chunk", stream |-> Toward(r, p), word |-> Wrap(Z[i])] /\ Z[i] = a + (i - 1)
    BY <1>3, <1>6, <1>8, Zenon
  <2>2. m = 1 => /\ V[n + 1] = [kind |-> "credit", stream |-> Other(Toward(r, p)), word |-> Wrap(Z[n + 1])]
                 /\ Z[n + 1] = o /\ l = 1
    BY <1>5, <1>6, <1>8, Zenon DEF c
  <2> QED
    BY <1>6, <1>7, <2>1, <2>2, Zenon DEF Adds
<1> QED
  BY <1>1, <1>6, <1>7, <1>9

\* A wire to a neighbour after a pass that posts n chunks on it and, if it is paid, the credit o.
LEMMA PassWire ==
    ASSUME NEW x \in Sessions, session = x, NEW h \in Counters(x), Body(x, h), NEW r \in RanksOf(x),
           NEW p \in RanksOf(x), Beside(r, p), NEW l \in LanesOf(x), NEW s, s = Toward(r, p),
           NEW n \in Nat, Len(wire[r][p][l]) + n <= x.room,
           NEW paid \in BOOLEAN, NEW o \in Nat, NEW k \in Nat, h.k[r][Other(s)] <= k,
           l = 1 /\ paid => k = o /\ Len(wire[r][p][l]) + n < x.room
    PROVE  /\ wire[r][p][l] \o Writes(r, s, n, l, paid, Wrap(o)) \in Seq(WriteOf)
           /\ \E y \in Seq(Nat) :
                 Carries(x, r, p, l, wire[r][p][l] \o Writes(r, s, n, l, paid, Wrap(o)), y,
                         h.d[r][s][l], h.p[r][s] + n, h.f[p][Other(s)], k)
<1>1. Typed(x) /\ Counted(x, h) /\ Ordered(x, h) /\ Wired(x, h)
  BY DEF Body
<1>2. /\ s \in Streams /\ Other(s) \in Streams /\ Out(x, r, s) /\ Out(x, p, Other(s)) /\ OutPeer(p, Other(s)) = r
  <2>1. PICK e : e = Other(s)
    OBVIOUS
  <2>2. s \in Streams /\ e \in Streams /\ Out(x, r, s) /\ Out(x, p, e) /\ OutPeer(p, e) = r
    BY <2>1, Sides
  <2> QED
    BY <2>1, <2>2
<1>3. post[r][s] = Wrap(h.p[r][s]) /\ h.p[r][s] \in Nat /\ h.d[r][s][l] \in Nat /\ h.f[p][Other(s)] \in Nat
      /\ h.k[r][Other(s)] \in Nat /\ h.w[r][p][l] \in Seq(Nat)
  BY <1>1, <1>2, CounterTypes DEF Counted
<1>4. PICK m \in 0..1 : m = (IF l = 1 /\ paid THEN 1 ELSE 0)
  OBVIOUS
<1> DEFINE w == Writes(r, s, n, l, paid, Wrap(o))
<1>5. PICK z \in Seq(Nat) : Adds(r, p, l, w, z, n, m, h.p[r][s], o)
  BY <1>2, <1>3, <1>4, WritesAdd
<1>6. w \in Seq(WriteOf)
  BY <1>2, <1>3, <1>4, WritesAdd
<1>7. wire[r][p][l] \in Seq(WriteOf)
  <2>1. wire \in [RanksOf(x) -> [RanksOf(x) -> [LanesOf(x) -> Seq(WriteOf)]]]
    BY <1>1 DEF Typed, WriteOf
  <2>2. wire[r] \in [RanksOf(x) -> [LanesOf(x) -> Seq(WriteOf)]]
    BY <2>1
  <2>3. wire[r][p] \in [LanesOf(x) -> Seq(WriteOf)]
    BY <2>2
  <2> QED
    BY <2>3
<1>8. Carries(x, r, p, l, wire[r][p][l], h.w[r][p][l], h.d[r][s][l], h.p[r][s], h.f[p][Other(s)], h.k[r][Other(s)])
  BY <1>1, Zenon DEF Wired
<1>9. h.d[r][s][l] <= h.p[r][s] /\ h.f[p][Other(s)] <= h.k[r][Other(s)]
  BY <1>1, <1>2, Zenon DEF Ordered, OutOrder
<1> HIDE DEF w
<1>10. Adds(r, p, l, w, z, n, m, h.p[r][s], k)
  <2>1. m = 1 => k = o
    BY <1>4
  <2> QED
    BY <1>5, <2>1, Zenon DEF Adds
<1>11. Len(wire[r][p][l]) + (n + m) <= x.room
  <2>1. Len(wire[r][p][l]) \in Nat /\ x.room \in Nat
    BY <1>7, SessionIs
  <2>2. PICK c, e : c = Len(wire[r][p][l]) /\ e = x.room
    OBVIOUS
  <2>3. c \in Nat /\ e \in Nat /\ c + n <= e /\ (m = 1 => c + n < e)
    BY <1>4, <2>1, <2>2
  <2>4. c + (n + m) <= e
    BY <2>3
  <2> QED
    BY <2>2, <2>4
<1>12. PICK v \in Seq(WriteOf) : v = wire[r][p][l]
  BY <1>7, Zenon
<1>13. /\ Carries(x, r, p, l, v, h.w[r][p][l], h.d[r][s][l], h.p[r][s], h.f[p][Other(s)], h.k[r][Other(s)])
       /\ Len(v) + (n + m) <= x.room
  BY <1>8, <1>11, <1>12
<1>14. Carries(x, r, p, l, v \o w, h.w[r][p][l] \o z, h.d[r][s][l], h.p[r][s] + n, h.f[p][Other(s)], k)
  BY <1>3, <1>6, <1>9, <1>10, <1>13, CarriesMore
<1>15. v \o w \in Seq(WriteOf)
  BY <1>6, Appended
<1>16. h.w[r][p][l] \o z \in Seq(Nat)
  BY <1>3, Appended
<1> QED
  BY <1>12, <1>14, <1>15, <1>16 DEF w

\* A pass puts on the wire to p the chunks of the stream that goes there and the credit of the other.
Posted(r, p, l, N, Q, F) ==
    CASE p = r + 1 -> Writes(r, "partial", N["partial"], l, Q["result"], Wrap(F["result"]))
      [] p = r - 1 -> Writes(r, "result", N["result"], l, Q["partial"], Wrap(F["partial"]))
      [] OTHER -> <<>>

\* The writes of a pass find room: N chunks and, where Q says so, the credits F, which makes the freed chunks K.
FindsRoom(x, h, r, N, Q, F, K) ==
    /\ N \in [Streams -> Nat] /\ Q \in [Streams -> BOOLEAN] /\ F \in [Streams -> Nat] /\ K \in [Streams -> Nat]
    /\ \A s \in Streams :
          /\ \A l \in LanesOf(x) : Out(x, r, s) => Len(wire[r][OutPeer(r, s)][l]) + N[s] <= x.room
          /\ h.k[r][s] <= K[s]
          /\ Q[s] => K[s] = F[s] /\ In(x, r, s) /\ Len(wire[r][InPeer(r, s)][1]) + N[Other(s)] < x.room

WiresAfter(x, r, N, Q, F) == [p \in RanksOf(x) |-> [l \in LanesOf(x) |-> wire[r][p][l] \o Posted(r, p, l, N, Q, F)]]

\* All wires of a rank after such a pass.
LEMMA PassWires ==
    ASSUME NEW x \in Sessions, session = x, NEW h \in Counters(x), Body(x, h), NEW r \in RanksOf(x),
           NEW N, NEW Q, NEW F, NEW K, FindsRoom(x, h, r, N, Q, F, K),
           NEW v, v = WiresAfter(x, r, N, Q, F)
    PROVE  /\ v \in [RanksOf(x) -> [LanesOf(x) -> Seq(WriteOf)]]
           /\ \E y \in [RanksOf(x) -> [LanesOf(x) -> Seq(Nat)]] : \A p \in RanksOf(x), l \in LanesOf(x) :
                 Carries(x, r, p, l, v[p][l], y[p][l], h.d[r][Toward(r, p)][l], h.p[r][Toward(r, p)] + N[Toward(r, p)],
                         h.f[p][Other(Toward(r, p))], K[Other(Toward(r, p))])
<1> DEFINE Holds(p, l, y) ==
               Carries(x, r, p, l, v[p][l], y, h.d[r][Toward(r, p)][l], h.p[r][Toward(r, p)] + N[Toward(r, p)],
                       h.f[p][Other(Toward(r, p))], K[Other(Toward(r, p))])
<1>1. Typed(x) /\ Wired(x, h)
  BY DEF Body
<1>2. /\ N \in [Streams -> Nat] /\ Q \in [Streams -> BOOLEAN] /\ F \in [Streams -> Nat] /\ K \in [Streams -> Nat]
      /\ \A s \in Streams :
            /\ \A l \in LanesOf(x) : Out(x, r, s) => Len(wire[r][OutPeer(r, s)][l]) + N[s] <= x.room
            /\ h.k[r][s] <= K[s]
            /\ Q[s] => K[s] = F[s] /\ In(x, r, s) /\ Len(wire[r][InPeer(r, s)][1]) + N[Other(s)] < x.room
  BY DEF FindsRoom
<1>3. ASSUME NEW p \in RanksOf(x), NEW l \in LanesOf(x)
      PROVE  v[p][l] \in Seq(WriteOf) /\ \E y \in Seq(Nat) : Holds(p, l, y)
  <2>1. v[p][l] = wire[r][p][l] \o Posted(r, p, l, N, Q, F)
    BY DEF WiresAfter
  <2>2. wire[r][p][l] \in Seq(WriteOf)
    <3>1. wire \in [RanksOf(x) -> [RanksOf(x) -> [LanesOf(x) -> Seq(WriteOf)]]]
      BY <1>1 DEF Typed, WriteOf
    <3>2. wire[r] \in [RanksOf(x) -> [LanesOf(x) -> Seq(WriteOf)]]
      BY <3>1
    <3>3. wire[r][p] \in [LanesOf(x) -> Seq(WriteOf)]
      BY <3>2
    <3> QED
      BY <3>3
  <2>3. CASE Beside(r, p)
    <3>1. PICK s, o : s = Toward(r, p) /\ o = Other(s)
      OBVIOUS
    <3>2. /\ s \in Streams /\ o \in Streams /\ o # s /\ Other(o) = s
          /\ Out(x, r, s) /\ OutPeer(r, s) = p /\ In(x, r, o) /\ InPeer(r, o) = p
          /\ (p = r + 1 => s = "partial" /\ o = "result") /\ (p = r - 1 => s = "result" /\ o = "partial")
      BY <2>3, <3>1, Sides
    <3>3. Posted(r, p, l, N, Q, F) = Writes(r, s, N[s], l, Q[o], Wrap(F[o]))
      <4>1. CASE p = r + 1
        <5>1. s = "partial" /\ o = "result"
          BY <3>2, <4>1, Zenon
        <5>2. p # r - 1
          BY <4>1, SessionIs DEF RanksOf
        <5>3. Posted(r, p, l, N, Q, F) = Writes(r, "partial", N["partial"], l, Q["result"], Wrap(F["result"]))
          BY <4>1, <5>2 DEF Posted
        <5> QED
          BY <5>1, <5>3, Zenon
      <4>2. CASE p = r - 1
        <5>1. s = "result" /\ o = "partial" /\ p # r + 1
          BY <3>2, <4>2, SessionIs DEF RanksOf
        <5> QED
          BY <4>2, <5>1 DEF Posted
      <4> QED
        BY <2>3, <4>1, <4>2 DEF Beside
    <3>4. N[s] \in Nat /\ F[o] \in Nat /\ K[o] \in Nat /\ Q[o] \in BOOLEAN
      BY <1>2, <3>2
    <3>5. Len(wire[r][p][l]) + N[s] <= x.room
      BY <1>2, <3>2
    <3>6. h.k[r][o] <= K[o]
      BY <1>2, <3>2
    <3>7. l = 1 /\ Q[o] => K[o] = F[o] /\ Len(wire[r][p][l]) + N[s] < x.room
      <4>1. Q[o] => K[o] = F[o] /\ Len(wire[r][p][1]) + N[s] < x.room
        BY <1>2, <3>2, Zenon
      <4> QED
        BY <4>1
    <3>8. /\ wire[r][p][l] \o Writes(r, s, N[s], l, Q[o], Wrap(F[o])) \in Seq(WriteOf)
          /\ \E y \in Seq(Nat) :
                Carries(x, r, p, l, wire[r][p][l] \o Writes(r, s, N[s], l, Q[o], Wrap(F[o])), y,
                        h.d[r][s][l], h.p[r][s] + N[s], h.f[p][Other(s)], K[o])
      <4>1. h.k[r][Other(s)] <= K[o]
        BY <3>1, <3>6
      <4>2. PICK n, e, c, q : n = N[s] /\ e = F[o] /\ c = K[o] /\ q = Q[o]
        OBVIOUS
      <4>3. /\ n \in Nat /\ e \in Nat /\ c \in Nat /\ q \in BOOLEAN /\ Len(wire[r][p][l]) + n <= x.room
            /\ h.k[r][Other(s)] <= c /\ (l = 1 /\ q => c = e /\ Len(wire[r][p][l]) + n < x.room)
        BY <3>4, <3>5, <3>7, <4>1, <4>2, Zenon
      <4>4. /\ wire[r][p][l] \o Writes(r, s, n, l, q, Wrap(e)) \in Seq(WriteOf)
            /\ \E y \in Seq(Nat) :
                  Carries(x, r, p, l, wire[r][p][l] \o Writes(r, s, n, l, q, Wrap(e)), y,
                          h.d[r][s][l], h.p[r][s] + n, h.f[p][Other(s)], c)
        BY <2>3, <3>1, <4>3, PassWire
      <4> QED
        BY <4>2, <4>4, Zenon
    <3> QED
      BY <2>1, <3>1, <3>3, <3>8, Zenon
  <2>4. CASE ~Beside(r, p)
    <3>1. p \notin {r - 1, r + 1}
      BY <2>4 DEF Beside
    <3>2. Posted(r, p, l, N, Q, F) = <<>>
      BY <3>1 DEF Posted
    <3>3. Carries(x, r, p, l, wire[r][p][l], h.w[r][p][l], h.d[r][Toward(r, p)][l], h.p[r][Toward(r, p)],
                  h.f[p][Other(Toward(r, p))], h.k[r][Other(Toward(r, p))])
      BY <1>1, Zenon DEF Wired
    <3>4. Len(wire[r][p][l]) = 0
      BY <3>1, <3>3, Zenon DEF Carries
    <3>5. v[p][l] = <<>>
      BY <2>1, <2>2, <3>2, <3>4
    <3>6. <<>> \in Seq(Nat) /\ <<>> \in Seq(WriteOf) /\ Len(<<>>) = 0 /\ 0 <= x.room /\ 1..0 = {}
      BY SessionIs
    <3>7. Holds(p, l, <<>>)
      BY <3>1, <3>5, <3>6 DEF Carries
    <3> QED
      BY <3>5, <3>6, <3>7, Zenon
  <2> QED
    BY <2>3, <2>4
<1>4. v \in [RanksOf(x) -> [LanesOf(x) -> Seq(WriteOf)]]
  <2>1. v = [p \in RanksOf(x) |-> [l \in LanesOf(x) |-> v[p][l]]]
    BY DEF WiresAfter
  <2>2. \A p \in RanksOf(x), l \in LanesOf(x) : v[p][l] \in Seq(WriteOf)
    BY <1>3
  <2> QED
    BY <2>1, <2>2, Zenon
<1> DEFINE Y == [p \in RanksOf(x) |-> [l \in LanesOf(x) |-> CHOOSE y \in Seq(Nat) : Holds(p, l, y)]]
<1> HIDE DEF Holds
<1>5. Y \in [RanksOf(x) -> [LanesOf(x) -> Seq(Nat)]]
  BY <1>3, Zenon
<1>6. \A p \in RanksOf(x), l \in LanesOf(x) : Holds(p, l, Y[p][l])
  BY <1>3, Zenon
<1> HIDE DEF Y
<1> QED
  BY <1>4, <1>5, <1>6, Zenon DEF Holds

\* A pass posts N chunks, finds the words U consumed and the numbers F freed, and pays the credits Q.
Plans(x, h, r, N, U, F, Q) ==
    /\ N = [s \in Streams |-> Postable(r, s, Wrap(Total(x)[h.b[r]]))]
    /\ U = [s \in Streams |-> IF HasIn(r, s) THEN Consumed(r, s) ELSE 0]
    /\ \A s \in Streams : Released(r, s, Least(done[r][s]), U[s]) = Wrap(F[s])
    /\ Q = [s \in Streams |-> /\ HasIn(r, s) /\ Wrap(F[s]) # credited[r][s]
                               /\ ChainRoom(r, InPeer(r, s), {1}, N[Other(s)])]

\* What such a pass assigns.
LEMMA ServiceIs ==
    ASSUME Aligned, NEW x \in Sessions, session = x, NEW h \in Counters(x), Body(x, h), NEW r \in RanksOf(x), Service(r),
           NEW N, NEW U, NEW F, NEW Q, Plans(x, h, r, N, U, F, Q)
    PROVE  /\ last' = [last EXCEPT ![r] = Wrap(h.b[r])] /\ known' = [known EXCEPT ![r] = Wrap(Total(x)[h.b[r]])]
           /\ sent' = [sent EXCEPT ![r] = Least(done[r][Own(x, r)])]
           /\ post' = [post EXCEPT ![r] = [s \in Streams |-> Plus(post[r][s], N[s])]]
           /\ consumed' = [consumed EXCEPT ![r] = U]
           /\ credited' = [credited EXCEPT ![r] = [s \in Streams |-> IF Q[s] THEN Wrap(F[s]) ELSE credited[r][s]]]
           /\ \E e : ops' = [ops EXCEPT ![r] = e] /\ Table(x, e, h.b[r])
           /\ wire' = [wire EXCEPT ![r] = [p \in RanksOf(x) |-> [l \in LanesOf(x) |->
                                              wire[r][p][l] \o Posted(r, p, l, N, Q, F)]]]
           /\ UNCHANGED <<session, recv, flag, send, ready, finished, credit, doorbell, params, done, failed, kernel>>
<1> DEFINE partials == Postable(r, "partial", Taken(r).known)
           results == Postable(r, "result", Taken(r).known)
           used == [s \in Streams |-> IF HasIn(r, s) THEN Consumed(r, s) ELSE 0]
           freed == [s \in Streams |-> Released(r, s, Least(done[r][s]), used[s])]
           Paid(s, n) == HasIn(r, s) /\ freed[s] # credited[r][s] /\ ChainRoom(r, InPeer(r, s), {1}, n)
           paidPartial == Paid("partial", results)
           paidResult == Paid("result", partials)
<1>1. /\ N = [s \in Streams |-> Postable(r, s, Wrap(Total(x)[h.b[r]]))]
      /\ U = [s \in Streams |-> IF HasIn(r, s) THEN Consumed(r, s) ELSE 0]
      /\ \A s \in Streams : Released(r, s, Least(done[r][s]), U[s]) = Wrap(F[s])
      /\ Q = [s \in Streams |-> /\ HasIn(r, s) /\ Wrap(F[s]) # credited[r][s]
                                 /\ ChainRoom(r, InPeer(r, s), {1}, N[Other(s)])]
  BY DEF Plans
<1>2. /\ Taken(r).last = Wrap(h.b[r]) /\ Taken(r).known = Wrap(Total(x)[h.b[r]])
      /\ Table(x, Taken(r).ops, h.b[r]) /\ Taken(r).ok
  BY TakenIs
<1>3. "partial" \in Streams /\ "result" \in Streams /\ Other("partial") = "result" /\ Other("result") = "partial"
      /\ \A s \in Streams : s = "partial" \/ s = "result"
  BY DEF Streams, Other
<1>4. Owned(r, "partial", partials, Taken(r).ops) /\ Owned(r, "result", results, Taken(r).ops)
  <2>1. partials = Postable(r, "partial", Wrap(Total(x)[h.b[r]])) /\ results = Postable(r, "result", Wrap(Total(x)[h.b[r]]))
    BY <1>2
  <2> HIDE DEF partials, results
  <2> QED
    BY <1>2, <1>3, <2>1, OwnedHolds
<1>5. /\ last' = [last EXCEPT ![r] = Taken(r).last]
      /\ known' = [known EXCEPT ![r] = Taken(r).known]
      /\ ops' = [ops EXCEPT ![r] = Taken(r).ops]
      /\ post' = [post EXCEPT ![r] = [partial |-> Plus(@.partial, partials), result |-> Plus(@.result, results)]]
      /\ sent' = [sent EXCEPT ![r] = Least(done[r][IF Final(r) THEN "result" ELSE "partial"])]
      /\ consumed' = [consumed EXCEPT ![r] = used]
      /\ credited' = [credited EXCEPT ![r] = [partial |-> IF paidPartial THEN freed["partial"] ELSE @.partial,
                                              result |-> IF paidResult THEN freed["result"] ELSE @.result]]
      /\ wire' = [wire EXCEPT ![r] = [p \in Ranks |-> [l \in Lane |-> @[p][l] \o
                     CASE p = r + 1 -> Writes(r, "partial", partials, l, paidResult, freed["result"])
                       [] p = r - 1 -> Writes(r, "result", results, l, paidPartial, freed["partial"])
                       [] OTHER -> <<>>]]]
      /\ UNCHANGED <<session, recv, flag, send, ready, finished, credit, doorbell, params, done, failed, kernel>>
  BY <1>2, <1>4, Zenon DEF Service
<1>6. partials = N["partial"] /\ results = N["result"] /\ used = U
  BY <1>1, <1>2, <1>3, Zenon
<1>7. \A s \in Streams : freed[s] = Wrap(F[s])
  BY <1>1, <1>6, Zenon
<1> HIDE DEF partials, results, used, freed
<1>8. paidPartial = Q["partial"] /\ paidResult = Q["result"]
  BY <1>1, <1>3, <1>6, <1>7, Zenon
<1> HIDE DEF Paid, paidPartial, paidResult
<1>9. post' = [post EXCEPT ![r] = [s \in Streams |-> Plus(post[r][s], N[s])]]
  <2>1. [partial |-> Plus(post[r].partial, partials), result |-> Plus(post[r].result, results)]
        = [s \in Streams |-> Plus(post[r][s], N[s])]
    BY <1>6 DEF Streams
  <2>2. post' = [post EXCEPT ![r] = [partial |-> Plus(post[r].partial, partials), result |-> Plus(post[r].result, results)]]
    BY <1>5
  <2> QED
    BY <2>1, <2>2
<1>10. credited' = [credited EXCEPT ![r] = [s \in Streams |-> IF Q[s] THEN Wrap(F[s]) ELSE credited[r][s]]]
  <2>1. [partial |-> IF paidPartial THEN freed["partial"] ELSE credited[r].partial,
         result |-> IF paidResult THEN freed["result"] ELSE credited[r].result]
        = [s \in Streams |-> IF Q[s] THEN Wrap(F[s]) ELSE credited[r][s]]
    BY <1>7, <1>8 DEF Streams
  <2>2. credited' = [credited EXCEPT ![r] = [partial |-> IF paidPartial THEN freed["partial"] ELSE credited[r].partial,
                                             result |-> IF paidResult THEN freed["result"] ELSE credited[r].result]]
    BY <1>5
  <2> QED
    BY <2>1, <2>2
<1>11. wire' = [wire EXCEPT ![r] = [p \in RanksOf(x) |-> [l \in LanesOf(x) |-> wire[r][p][l] \o Posted(r, p, l, N, Q, F)]]]
  <2> DEFINE A(p, l) == CASE p = r + 1 -> Writes(r, "partial", partials, l, paidResult, freed["result"])
                          [] p = r - 1 -> Writes(r, "result", results, l, paidPartial, freed["partial"])
                          [] OTHER -> <<>>
  <2>1. wire' = [wire EXCEPT ![r] = [p \in RanksOf(x) |-> [l \in LanesOf(x) |-> wire[r][p][l] \o A(p, l)]]]
    BY <1>5, NamesOf
  <2>2. freed["partial"] = Wrap(F["partial"]) /\ freed["result"] = Wrap(F["result"])
    BY <1>3, <1>7
  <2>3. ASSUME NEW p, NEW l
        PROVE  A(p, l) = Posted(r, p, l, N, Q, F)
    BY <1>6, <1>8, <2>2 DEF Posted
  <2> HIDE DEF A
  <2>4. [p \in RanksOf(x) |-> [l \in LanesOf(x) |-> wire[r][p][l] \o A(p, l)]]
        = [p \in RanksOf(x) |-> [l \in LanesOf(x) |-> wire[r][p][l] \o Posted(r, p, l, N, Q, F)]]
    BY <2>3, Zenon
  <2> QED
    BY <2>1, <2>4
<1>12. Own(x, r) = IF Final(r) THEN "result" ELSE "partial"
  BY NamesOf DEF Own
<1> QED
  BY <1>2, <1>5, <1>6, <1>9, <1>10, <1>11, <1>12, Zenon

\* A pass of the progress thread keeps the invariant.
LEMMA ServiceKeeps ==
    ASSUME Aligned, NEW x \in Sessions, session = x, NEW h \in Counters(x), Body(x, h), NEW r \in RanksOf(x), Service(r)
    PROVE  \E j \in Counters(x) : Body(x, j)'
<1>1. Typed(x) /\ Counted(x, h) /\ Begins(x, h) /\ Ordered(x, h)
  BY DEF Body
<1>2. \A s \in Streams : /\ (HasIn(r, s) <=> In(x, r, s)) /\ (s \in Sends(r) <=> Out(x, r, s))
                         /\ (OutKind(r, s) = "forward" <=> Forwards(x, r, s))
  BY NamesOf
<1>3. PICK N : N = [s \in Streams |-> Postable(r, s, Wrap(Total(x)[h.b[r]]))]
  OBVIOUS
<1>4. PICK U : U = [s \in Streams |-> IF HasIn(r, s) THEN Consumed(r, s) ELSE 0]
  OBVIOUS
<1>5. \A s \in Streams :
         /\ N[s] \in 0..Slots
         /\ ~Out(x, r, s) => N[s] = 0
         /\ Out(x, r, s) =>
               /\ h.p[r][s] + N[s] <= Total(x)[h.b[r]] /\ h.p[r][s] + N[s] <= h.f[r][s] + Slots
               /\ s = Own(x, r) => \A g \in Nat : g < h.p[r][s] + N[s] => g \in h.u[r]["partial"]
               /\ Forwards(x, r, s) => \A l \in LanesOf(x) : h.p[r][s] + N[s] <= h.d[InPeer(r, s)][s][l]
               /\ \A l \in LanesOf(x) : Len(wire[r][OutPeer(r, s)][l]) + N[s] <= x.room
  <2> SUFFICES ASSUME NEW s \in Streams
               PROVE  /\ N[s] \in 0..Slots
                      /\ ~Out(x, r, s) => N[s] = 0
                      /\ Out(x, r, s) =>
                            /\ h.p[r][s] + N[s] <= Total(x)[h.b[r]] /\ h.p[r][s] + N[s] <= h.f[r][s] + Slots
                            /\ s = Own(x, r) => \A g \in Nat : g < h.p[r][s] + N[s] => g \in h.u[r]["partial"]
                            /\ Forwards(x, r, s) => \A l \in LanesOf(x) : h.p[r][s] + N[s] <= h.d[InPeer(r, s)][s][l]
                            /\ \A l \in LanesOf(x) : Len(wire[r][OutPeer(r, s)][l]) + N[s] <= x.room
    OBVIOUS
  <2>1. PICK n : n = N[s]
    OBVIOUS
  <2>2. n = Postable(r, s, Wrap(Total(x)[h.b[r]]))
    BY <1>3, <2>1
  <2> QED
    BY <2>1, <2>2, Posts
<1>6. N \in [Streams -> Nat]
  <2>1. \A s \in Streams : N[s] \in Nat
    BY <1>5, Sizes
  <2> QED
    BY <1>3, <2>1
\* What is consumed, and what is freed of it.
<1> DEFINE UsedTo(s, c, k) ==
             /\ U[s] = Wrap(c) /\ Released(r, s, Least(done[r][s]), U[s]) = Wrap(k)
             /\ In(x, r, s) =>
                   /\ h.c[r][s] <= c /\ h.k[r][s] <= k /\ k <= c /\ \A g \in Nat : g < c => g \in h.u[r][s]
                   /\ \A l \in LanesOf(x) : c <= h.d[InPeer(r, s)][s][l]
                   /\ Forwards(x, r, s) => \A l \in LanesOf(x) : k <= h.d[r][s][l]
<1>7. ASSUME NEW s \in Streams
      PROVE  \E c \in Nat, k \in Nat : UsedTo(s, c, k)
  <2>1. CASE In(x, r, s)
    <3>1. PICK c \in Nat : /\ Consumed(r, s) = Wrap(c) /\ h.c[r][s] <= c
                           /\ \A g \in Nat : g < c => g \in h.u[r][s]
                           /\ \A l \in LanesOf(x) : c <= h.d[InPeer(r, s)][s][l]
      BY <2>1, ConsumedIs
    <3>2. PICK k \in Nat : /\ Released(r, s, Least(done[r][s]), Consumed(r, s)) = Wrap(k) /\ h.k[r][s] <= k /\ k <= c
                           /\ Forwards(x, r, s) => \A l \in LanesOf(x) : k <= h.d[r][s][l]
      BY <2>1, <3>1, Frees
    <3>3. U[s] = Consumed(r, s)
      BY <1>2, <1>4, <2>1
    <3> QED
      BY <3>1, <3>2, <3>3, Zenon
  <2>2. CASE ~In(x, r, s)
    <3>1. U[s] = 0
      BY <1>2, <1>4, <2>2
    <3>2. ~Forwards(x, r, s)
      BY <2>2, Neighbours
    <3>3. Released(r, s, Least(done[r][s]), U[s]) = 0
      BY <1>2, <3>1, <3>2, Zenon DEF Released
    <3>4. 0 \in Nat /\ 0 \in Int /\ 0 <= 0 /\ 0 < Modulus
      BY Sizes
    <3>5. Wrap(0) = 0
      BY <3>4, Wraps, Zenon
    <3> QED
      BY <2>2, <3>1, <3>3, <3>4, <3>5, Zenon
  <2> QED
    BY <2>1, <2>2
<1> HIDE DEF UsedTo
<1>8. PICK C \in [Streams -> Nat], F \in [Streams -> Nat] : \A s \in Streams : UsedTo(s, C[s], F[s])
  <2> DEFINE c == [s \in Streams |-> CHOOSE a \in Nat : \E k \in Nat : UsedTo(s, a, k)]
  <2>1. c \in [Streams -> Nat] /\ \A s \in Streams : \E k \in Nat : UsedTo(s, c[s], k)
    BY <1>7, Zenon
  <2> DEFINE f == [s \in Streams |-> CHOOSE k \in Nat : UsedTo(s, c[s], k)]
  <2> HIDE DEF c
  <2>2. f \in [Streams -> Nat] /\ \A s \in Streams : UsedTo(s, c[s], f[s])
    BY <2>1, Zenon
  <2> QED
    BY <2>1, <2>2, Zenon
<1>9. PICK Q \in [Streams -> BOOLEAN] :
          Q = [s \in Streams |-> /\ HasIn(r, s) /\ Wrap(F[s]) # credited[r][s]
                                 /\ ChainRoom(r, InPeer(r, s), {1}, N[Other(s)])]
  <2>1. [s \in Streams |-> /\ HasIn(r, s) /\ Wrap(F[s]) # credited[r][s]
                           /\ ChainRoom(r, InPeer(r, s), {1}, N[Other(s)])] \in [Streams -> BOOLEAN]
    OBVIOUS
  <2> QED
    BY <2>1, Zenon
<1>10. PICK K \in [Streams -> Nat] : K = [s \in Streams |-> IF Q[s] THEN F[s] ELSE h.k[r][s]]
  <2>1. [s \in Streams |-> IF Q[s] THEN F[s] ELSE h.k[r][s]] \in [Streams -> Nat]
    BY CounterTypes
  <2> QED
    BY <2>1, Zenon
<1>11. \A s \in Streams : /\ U[s] = Wrap(C[s]) /\ Released(r, s, Least(done[r][s]), U[s]) = Wrap(F[s])
                          /\ In(x, r, s) =>
                                /\ h.c[r][s] <= C[s] /\ h.k[r][s] <= F[s] /\ F[s] <= C[s]
                                /\ \A g \in Nat : g < C[s] => g \in h.u[r][s]
                                /\ \A l \in LanesOf(x) : C[s] <= h.d[InPeer(r, s)][s][l]
                                /\ Forwards(x, r, s) => \A l \in LanesOf(x) : F[s] <= h.d[r][s][l]
  BY <1>8, Zenon DEF UsedTo
<1>12. \A s \in Streams : Q[s] => In(x, r, s) /\ Len(wire[r][InPeer(r, s)][1]) + N[Other(s)] < x.room
  <2> SUFFICES ASSUME NEW s \in Streams, Q[s]
               PROVE  In(x, r, s) /\ Len(wire[r][InPeer(r, s)][1]) + N[Other(s)] < x.room
    OBVIOUS
  <2>1. HasIn(r, s) /\ ChainRoom(r, InPeer(r, s), {1}, N[Other(s)])
    BY <1>9
  <2>2. Room = x.room
    BY NamesOf
  <2> QED
    BY <1>2, <2>1, <2>2 DEF ChainRoom
<1>13. \A s \in Streams : h.k[r][s] <= K[s] /\ (Q[s] => K[s] = F[s]) /\ (~Q[s] => K[s] = h.k[r][s])
  <2> SUFFICES ASSUME NEW s \in Streams
               PROVE  h.k[r][s] <= K[s] /\ (Q[s] => K[s] = F[s]) /\ (~Q[s] => K[s] = h.k[r][s])
    OBVIOUS
  <2>1. h.k[r][s] \in Nat
    BY CounterTypes
  <2>2. Q[s] => h.k[r][s] <= F[s]
    BY <1>11, <1>12
  <2> QED
    BY <1>10, <2>1, <2>2
<1>14. PICK v : v = WiresAfter(x, r, N, Q, F)
  OBVIOUS
<1>15. /\ v \in [RanksOf(x) -> [LanesOf(x) -> Seq(WriteOf)]]
       /\ \E y \in [RanksOf(x) -> [LanesOf(x) -> Seq(Nat)]] : \A p \in RanksOf(x), l \in LanesOf(x) :
             Carries(x, r, p, l, v[p][l], y[p][l], h.d[r][Toward(r, p)][l], h.p[r][Toward(r, p)] + N[Toward(r, p)],
                     h.f[p][Other(Toward(r, p))], K[Other(Toward(r, p))])
  <2>1. FindsRoom(x, h, r, N, Q, F, K)
    BY <1>5, <1>6, <1>12, <1>13, Zenon DEF FindsRoom
  <2> QED
    BY <1>14, <2>1, PassWires
<1>16. PICK y \in [RanksOf(x) -> [LanesOf(x) -> Seq(Nat)]] : \A p \in RanksOf(x), l \in LanesOf(x) :
             Carries(x, r, p, l, v[p][l], y[p][l], h.d[r][Toward(r, p)][l], h.p[r][Toward(r, p)] + N[Toward(r, p)],
                     h.f[p][Other(Toward(r, p))], K[Other(Toward(r, p))])
  BY <1>15
<1>17. PICK m \in LanesOf(x) : /\ Least(done[r][Own(x, r)]) = Wrap(h.d[r][Own(x, r)][m])
                               /\ \A i \in LanesOf(x) : h.d[r][Own(x, r)][m] <= h.d[r][Own(x, r)][i]
  <2>1. PICK s : s = Own(x, r)
    OBVIOUS
  <2>2. s \in Streams /\ Out(x, r, s)
    <3>1. "partial" \in Streams
      BY DEF Streams
    <3> QED
      BY <2>1, <3>1, Neighbours
  <2> QED
    BY <2>1, <2>2, LeastIs
<1>18. PICK e \in Nat : e = h.d[r][Own(x, r)][m]
  <2>1. Own(x, r) \in Streams
    BY DEF Own, Streams
  <2>2. h.d[r][Own(x, r)][m] \in Nat
    BY <2>1, CounterTypes
  <2> QED
    BY <2>2, Zenon
<1>19. h.n[r] <= e /\ \A l \in LanesOf(x) : e <= h.d[r][Own(x, r)][l]
  <2>1. h.n[r] <= h.d[r][Own(x, r)][m]
    BY <1>1, Zenon DEF Ordered, SendOrder
  <2> QED
    BY <1>17, <1>18, <2>1
<1>20. PICK j \in Counters(x) :
          j = [b |-> h.b, t |-> [h.t EXCEPT ![r] = h.b[r]],
               p |-> [h.p EXCEPT ![r] = [s \in Streams |-> h.p[r][s] + N[s]]], d |-> h.d,
               c |-> [h.c EXCEPT ![r] = C], k |-> [h.k EXCEPT ![r] = K], f |-> h.f,
               n |-> [h.n EXCEPT ![r] = e], u |-> h.u, w |-> [h.w EXCEPT ![r] = y]]
  <2>1. [h.t EXCEPT ![r] = h.b[r]] \in [RanksOf(x) -> Nat] /\ [h.n EXCEPT ![r] = e] \in [RanksOf(x) -> Nat]
    BY FieldTypes, CounterTypes
  <2>2. [h.p EXCEPT ![r] = [s \in Streams |-> h.p[r][s] + N[s]]] \in [RanksOf(x) -> [Streams -> Nat]]
    <3>1. [s \in Streams |-> h.p[r][s] + N[s]] \in [Streams -> Nat]
      BY <1>6, CounterTypes
    <3> QED
      BY <3>1, FieldTypes
  <2>3. [h.c EXCEPT ![r] = C] \in [RanksOf(x) -> [Streams -> Nat]] /\ [h.k EXCEPT ![r] = K] \in [RanksOf(x) -> [Streams -> Nat]]
    BY FieldTypes
  <2>4. [h.w EXCEPT ![r] = y] \in [RanksOf(x) -> [RanksOf(x) -> [LanesOf(x) -> Seq(Nat)]]]
    BY FieldTypes
  <2>5. [b |-> h.b, t |-> [h.t EXCEPT ![r] = h.b[r]],
         p |-> [h.p EXCEPT ![r] = [s \in Streams |-> h.p[r][s] + N[s]]], d |-> h.d,
         c |-> [h.c EXCEPT ![r] = C], k |-> [h.k EXCEPT ![r] = K], f |-> h.f,
         n |-> [h.n EXCEPT ![r] = e], u |-> h.u, w |-> [h.w EXCEPT ![r] = y]] \in Counters(x)
    BY <2>1, <2>2, <2>3, <2>4, FieldTypes DEF Counters
  <2> QED
    BY <2>5, Zenon
<1>21. /\ j.b = h.b /\ j.d = h.d /\ j.f = h.f /\ j.u = h.u /\ j.t[r] = h.b[r] /\ j.n[r] = e /\ j.c[r] = C /\ j.k[r] = K
       /\ j.w[r] = y /\ \A s \in Streams : j.p[r][s] = h.p[r][s] + N[s]
       /\ \A q \in RanksOf(x) : q # r => /\ j.t[q] = h.t[q] /\ j.p[q] = h.p[q] /\ j.c[q] = h.c[q] /\ j.k[q] = h.k[q]
                                         /\ j.n[q] = h.n[q] /\ j.w[q] = h.w[q]
  BY <1>20, FieldTypes
<1>22. Passes(x, h, j, r)
  <2> SUFFICES ASSUME NEW s \in Streams
               PROVE  /\ h.p[r][s] <= j.p[r][s] /\ h.k[r][s] <= j.k[r][s]
                      /\ Out(x, r, s) =>
                            /\ j.p[r][s] <= Total(x)[h.b[r]] /\ j.p[r][s] <= h.f[r][s] + Slots
                            /\ s = Own(x, r) => \A g \in Nat : g < j.p[r][s] => g \in h.u[r]["partial"]
                            /\ Forwards(x, r, s) =>
                                  \A l \in LanesOf(x) : j.p[r][s] <= h.d[InPeer(r, s)][s][l] /\ j.k[r][s] <= h.d[r][s][l]
                      /\ In(x, r, s) =>
                            /\ j.k[r][s] <= j.c[r][s] /\ \A g \in Nat : g < j.c[r][s] => g \in h.u[r][s]
                            /\ \A l \in LanesOf(x) : j.c[r][s] <= h.d[InPeer(r, s)][s][l]
    BY <1>19, <1>21, Zenon DEF Passes
  <2>1. h.p[r][s] <= j.p[r][s] /\ h.k[r][s] <= j.k[r][s]
    <3>1. h.p[r][s] \in Nat /\ N[s] \in Nat
      BY <1>6, CounterTypes
    <3>2. h.p[r][s] <= h.p[r][s] + N[s]
      BY <3>1
    <3> QED
      BY <1>13, <1>21, <3>2
  <2>2. ASSUME Out(x, r, s)
        PROVE  /\ j.p[r][s] <= Total(x)[h.b[r]] /\ j.p[r][s] <= h.f[r][s] + Slots
               /\ s = Own(x, r) => \A g \in Nat : g < j.p[r][s] => g \in h.u[r]["partial"]
               /\ Forwards(x, r, s) => \A l \in LanesOf(x) : j.p[r][s] <= h.d[InPeer(r, s)][s][l]
    <3>1. /\ h.p[r][s] + N[s] <= Total(x)[h.b[r]] /\ h.p[r][s] + N[s] <= h.f[r][s] + Slots
          /\ s = Own(x, r) => \A g \in Nat : g < h.p[r][s] + N[s] => g \in h.u[r]["partial"]
          /\ Forwards(x, r, s) => \A l \in LanesOf(x) : h.p[r][s] + N[s] <= h.d[InPeer(r, s)][s][l]
      BY <1>5, <2>2, Zenon
    <3>2. j.p[r][s] = h.p[r][s] + N[s]
      BY <1>21
    <3> QED
      BY <3>1, <3>2
  <2>3. ASSUME Forwards(x, r, s), Out(x, r, s)
        PROVE  \A l \in LanesOf(x) : j.k[r][s] <= h.d[r][s][l]
    <3>1. \A l \in LanesOf(x) : h.k[r][s] <= h.d[r][s][l]
      BY <1>1, <2>3, Zenon DEF Ordered, OutOrder
    <3>2. In(x, r, s)
      BY <2>3, Neighbours
    <3>3. \A l \in LanesOf(x) : F[s] <= h.d[r][s][l]
      BY <1>11, <2>3, <3>2, Zenon
    <3>4. K[s] = F[s] \/ K[s] = h.k[r][s]
      BY <1>13, Zenon
    <3> QED
      BY <1>21, <3>1, <3>3, <3>4
  <2>4. ASSUME In(x, r, s)
        PROVE  /\ j.k[r][s] <= j.c[r][s] /\ \A g \in Nat : g < j.c[r][s] => g \in h.u[r][s]
               /\ \A l \in LanesOf(x) : j.c[r][s] <= h.d[InPeer(r, s)][s][l]
    <3>1. /\ h.c[r][s] <= C[s] /\ F[s] <= C[s] /\ \A g \in Nat : g < C[s] => g \in h.u[r][s]
          /\ \A l \in LanesOf(x) : C[s] <= h.d[InPeer(r, s)][s][l]
      BY <1>11, <2>4, Zenon
    <3>2. h.k[r][s] <= h.c[r][s]
      BY <1>1, <2>4, Zenon DEF Ordered, InOrder
    <3>3. h.k[r][s] \in Nat /\ h.c[r][s] \in Nat /\ C[s] \in Nat
      BY CounterTypes
    <3>4. K[s] = F[s] \/ K[s] = h.k[r][s]
      BY <1>13, Zenon
    <3>5. K[s] <= C[s]
      BY <3>1, <3>2, <3>3, <3>4
    <3> QED
      BY <1>21, <3>1, <3>5
  <2> QED
    BY <2>1, <2>2, <2>3, <2>4, Zenon
<1>23. Publishes(x, h, j, r)
  <2>1. /\ last' = [last EXCEPT ![r] = Wrap(h.b[r])] /\ known' = [known EXCEPT ![r] = Wrap(Total(x)[h.b[r]])]
        /\ sent' = [sent EXCEPT ![r] = Least(done[r][Own(x, r)])]
        /\ post' = [post EXCEPT ![r] = [s \in Streams |-> Plus(post[r][s], N[s])]]
        /\ consumed' = [consumed EXCEPT ![r] = U]
        /\ credited' = [credited EXCEPT ![r] = [s \in Streams |-> IF Q[s] THEN Wrap(F[s]) ELSE credited[r][s]]]
        /\ \E a : ops' = [ops EXCEPT ![r] = a] /\ Table(x, a, h.b[r])
        /\ wire' = [wire EXCEPT ![r] = [p \in RanksOf(x) |-> [l \in LanesOf(x) |->
                                           wire[r][p][l] \o Posted(r, p, l, N, Q, F)]]]
        /\ UNCHANGED <<session, recv, flag, send, ready, finished, credit, doorbell, params, done, failed, kernel>>
    <3>1. Plans(x, h, r, N, U, F, Q)
      BY <1>3, <1>4, <1>9, <1>11, Zenon DEF Plans
    <3> QED
      BY <3>1, ServiceIs
  <2>2. [s \in Streams |-> Plus(post[r][s], N[s])] = [s \in Streams |-> Wrap(j.p[r][s])]
    <3>1. ASSUME NEW s \in Streams
          PROVE  Plus(post[r][s], N[s]) = Wrap(j.p[r][s])
      <4>1. h.p[r][s] \in Int /\ N[s] \in Int
        BY <1>6, CounterTypes
      <4>2. Plus(Wrap(h.p[r][s]), N[s]) = Wrap(h.p[r][s] + N[s])
        BY <4>1, Wraps, Zenon
      <4>3. post[r][s] = Wrap(h.p[r][s])
        BY <1>1, Zenon DEF Counted
      <4>4. j.p[r][s] = h.p[r][s] + N[s]
        BY <1>21
      <4> QED
        BY <4>2, <4>3, <4>4
    <3> QED
      BY <3>1, Zenon
  <2>3. U = [s \in Streams |-> Wrap(j.c[r][s])]
    <3>1. \A s \in Streams : U[s] = Wrap(j.c[r][s])
      BY <1>11, <1>21
    <3> QED
      BY <1>4, <3>1
  <2>4. [s \in Streams |-> IF Q[s] THEN Wrap(F[s]) ELSE credited[r][s]] = [s \in Streams |-> Wrap(j.k[r][s])]
    <3>1. ASSUME NEW s \in Streams
          PROVE  (IF Q[s] THEN Wrap(F[s]) ELSE credited[r][s]) = Wrap(j.k[r][s])
      <4>1. credited[r][s] = Wrap(h.k[r][s])
        BY <1>1, Zenon DEF Counted
      <4>2. j.k[r][s] = K[s]
        BY <1>21
      <4> QED
        BY <1>13, <4>1, <4>2
    <3> QED
      BY <3>1, Zenon
  <2>5. last' = [last EXCEPT ![r] = Wrap(j.t[r])] /\ known' = [known EXCEPT ![r] = Wrap(Total(x)[j.t[r]])]
        /\ sent' = [sent EXCEPT ![r] = Wrap(j.n[r])]
        /\ \E a : ops' = [ops EXCEPT ![r] = a] /\ Table(x, a, j.t[r])
    <3>1. j.t[r] = h.b[r] /\ Wrap(j.n[r]) = Least(done[r][Own(x, r)])
      BY <1>17, <1>18, <1>21
    <3> QED
      BY <2>1, <3>1, Zenon
  <2>6. /\ wire' = [wire EXCEPT ![r] = v]
        /\ \A p \in RanksOf(x), l \in LanesOf(x) :
              Carries(x, r, p, l, v[p][l], j.w[r][p][l], h.d[r][Toward(r, p)][l], j.p[r][Toward(r, p)],
                      h.f[p][Other(Toward(r, p))], j.k[r][Other(Toward(r, p))])
    <3>1. wire' = [wire EXCEPT ![r] = v]
      BY <1>14, <2>1, Zenon DEF WiresAfter
    <3>2. ASSUME NEW p \in RanksOf(x), NEW l \in LanesOf(x)
          PROVE  Carries(x, r, p, l, v[p][l], j.w[r][p][l], h.d[r][Toward(r, p)][l], j.p[r][Toward(r, p)],
                         h.f[p][Other(Toward(r, p))], j.k[r][Other(Toward(r, p))])
      <4>1. Toward(r, p) \in Streams
        BY DEF Toward, Streams
      <4>2. j.p[r][Toward(r, p)] = h.p[r][Toward(r, p)] + N[Toward(r, p)] /\ j.w[r] = y /\ j.k[r] = K
        BY <1>21, <4>1, Zenon
      <4> QED
        BY <1>16, <4>2, Zenon
    <3> QED
      BY <3>1, <3>2
  <2>7. \E a \in [RanksOf(x) -> [LanesOf(x) -> Seq(WriteOf)]] :
          /\ wire' = [wire EXCEPT ![r] = a]
          /\ \A p \in RanksOf(x), l \in LanesOf(x) :
                Carries(x, r, p, l, a[p][l], j.w[r][p][l], h.d[r][Toward(r, p)][l], j.p[r][Toward(r, p)],
                        h.f[p][Other(Toward(r, p))], j.k[r][Other(Toward(r, p))])
    BY <1>15, <2>6, Zenon
  <2>8. /\ post' = [post EXCEPT ![r] = [s \in Streams |-> Wrap(j.p[r][s])]]
        /\ consumed' = [consumed EXCEPT ![r] = [s \in Streams |-> Wrap(j.c[r][s])]]
        /\ credited' = [credited EXCEPT ![r] = [s \in Streams |-> Wrap(j.k[r][s])]]
        /\ UNCHANGED <<session, recv, flag, send, ready, finished, credit, doorbell, params, done, failed, kernel>>
    BY <2>1, <2>2, <2>3, <2>4, Zenon
  <2> QED
    BY <2>5, <2>7, <2>8, Zenon DEF Publishes
<1>24. Body(x, j)'
  BY <1>22, <1>23, PassKeeps
<1> QED
  BY <1>20, <1>24

-----------------------------------------------------------------------------
(* The queue pairs.                                                        *)

\* The rest of a sequence.
LEMMA RestIs ==
    ASSUME NEW W, NEW v \in Seq(W), v # <<>>
    PROVE  /\ Tail(v) \in Seq(W) /\ Len(v) \in Nat /\ Len(v) >= 1 /\ Len(Tail(v)) = Len(v) - 1
           /\ Head(v) = v[1]
           /\ \A i \in 1..Len(v) - 1 : Tail(v)[i] = v[i + 1]
<1>1. Tail(v) \in Seq(W) /\ Len(Tail(v)) = Len(v) - 1 /\ \A i \in 1..Len(Tail(v)) : Tail(v)[i] = v[i + 1]
  BY HeadTailProperties
<1>2. Len(v) \in Nat /\ Len(v) >= 1 /\ Head(v) = v[1]
  BY EmptySeq
<1> QED
  BY <1>1, <1>2

\* A wire whose first write is delivered carries the rest.
LEMMA CarriesTail ==
    ASSUME NEW x, NEW r, NEW p, NEW l, NEW W, NEW v \in Seq(W), v # <<>>, NEW y \in Seq(Nat),
           NEW d \in Nat, NEW a \in Nat, NEW f \in Nat, NEW k \in Nat, Carries(x, r, p, l, v, y, d, a, f, k),
           x.room \in Nat
    PROVE  /\ Beside(r, p) /\ y # <<>> /\ y[1] \in Nat
           /\ ChunkWrite(r, p, v[1], y[1], d, a) \/ CreditWrite(r, p, l, v[1], y[1], f, k)
           /\ ChunkWrite(r, p, v[1], y[1], d, a) =>
                 y[1] = d /\ Carries(x, r, p, l, Tail(v), Tail(y), d + 1, a, f, k)
           /\ CreditWrite(r, p, l, v[1], y[1], f, k) => Carries(x, r, p, l, Tail(v), Tail(y), d, a, y[1], k)
<1>1. PICK N \in Nat : N = Len(v) - 1 /\ Len(v) = N + 1 /\ Len(y) = N + 1
  <2>1. Len(v) \in Nat /\ Len(v) >= 1 /\ Len(y) = Len(v)
    BY RestIs DEF Carries
  <2>2. Len(v) - 1 \in Nat /\ Len(v) = (Len(v) - 1) + 1
    BY <2>1
  <2> QED
    BY <2>1, <2>2
<1>2. y # <<>>
  BY <1>1
<1>3. PICK V \in Seq(W) : V = Tail(v) /\ Len(V) = N /\ \A i \in 1..N : V[i] = v[i + 1]
  <2>1. Tail(v) \in Seq(W) /\ Len(Tail(v)) = Len(v) - 1 /\ \A i \in 1..Len(v) - 1 : Tail(v)[i] = v[i + 1]
    BY RestIs
  <2>2. Len(v) - 1 = N
    BY <1>1
  <2> QED
    BY <2>1, <2>2, Zenon
<1>4. PICK Y \in Seq(Nat) : Y = Tail(y) /\ Len(Y) = N /\ \A i \in 1..N : Y[i] = y[i + 1]
  <2>1. Tail(y) \in Seq(Nat) /\ Len(Tail(y)) = Len(y) - 1 /\ \A i \in 1..Len(y) - 1 : Tail(y)[i] = y[i + 1]
    BY <1>2, RestIs
  <2>2. Len(y) - 1 = N
    BY <1>1
  <2> QED
    BY <2>1, <2>2, Zenon
<1>5. /\ \A i \in 1..N + 1 : ChunkWrite(r, p, v[i], y[i], d, a) \/ CreditWrite(r, p, l, v[i], y[i], f, k)
      /\ \A i, j \in 1..N + 1 : i < j /\ v[i].kind = "chunk" /\ v[j].kind = "chunk" => y[i] < y[j]
      /\ \A i, j \in 1..N + 1 : i < j /\ v[i].kind = "credit" /\ v[j].kind = "credit" => y[i] <= y[j]
      /\ p \in {r - 1, r + 1} =>
            \A g \in Nat : d <= g /\ g < a => \E i \in 1..N + 1 : v[i].kind = "chunk" /\ y[i] = g
      /\ p \notin {r - 1, r + 1} => Len(v) = 0
      /\ Len(v) <= x.room
  BY <1>1, Zenon DEF Carries
<1>6. Beside(r, p)
  <2>1. Len(v) # 0
    BY <1>1
  <2> QED
    BY <1>5, <2>1, Zenon DEF Beside
<1>7. /\ 1 \in 1..N + 1 /\ N <= x.room
      /\ \A i \in 1..N : i + 1 \in 1..N + 1 /\ 1 < i + 1
      /\ \A i, j \in 1..N : i < j => i + 1 < j + 1
      /\ \A i \in 1..N + 1 : i = 1 \/ \E j \in 1..N : i = j + 1
  <2>1. \A i \in 1..N + 1 : i = 1 \/ \E j \in 1..N : i = j + 1
    <3> SUFFICES ASSUME NEW i \in 1..N + 1, i # 1 PROVE \E j \in 1..N : i = j + 1
      OBVIOUS
    <3>1. i - 1 \in 1..N /\ i = (i - 1) + 1
      OBVIOUS
    <3> QED
      BY <3>1
  <2>2. N <= x.room
    BY <1>1, <1>5
  <2> QED
    BY <2>1, <2>2
<1>8. \A i \in 1..N + 1 : y[i] \in Nat
  BY <1>1, SMTT(60)
<1>9. ChunkWrite(r, p, v[1], y[1], d, a) \/ CreditWrite(r, p, l, v[1], y[1], f, k)
  BY <1>5, <1>7, Zenon
<1>10. /\ \A i, j \in 1..N : i < j /\ V[i].kind = "chunk" /\ V[j].kind = "chunk" => Y[i] < Y[j]
       /\ \A i, j \in 1..N : i < j /\ V[i].kind = "credit" /\ V[j].kind = "credit" => Y[i] <= Y[j]
  <2> SUFFICES ASSUME NEW i \in 1..N, NEW j \in 1..N, i < j
               PROVE  /\ V[i].kind = "chunk" /\ V[j].kind = "chunk" => Y[i] < Y[j]
                      /\ V[i].kind = "credit" /\ V[j].kind = "credit" => Y[i] <= Y[j]
    BY Zenon
  <2>1. V[i] = v[i + 1] /\ V[j] = v[j + 1] /\ Y[i] = y[i + 1] /\ Y[j] = y[j + 1]
    BY <1>3, <1>4, Zenon
  <2>2. /\ v[i + 1].kind = "chunk" /\ v[j + 1].kind = "chunk" => y[i + 1] < y[j + 1]
        /\ v[i + 1].kind = "credit" /\ v[j + 1].kind = "credit" => y[i + 1] <= y[j + 1]
    BY <1>5, <1>7, Zenon
  <2> QED
    BY <2>1, <2>2
<1>11. Len(V) = Len(Y) /\ Len(V) <= x.room
  BY <1>3, <1>4, <1>7
<1>12. ASSUME ChunkWrite(r, p, v[1], y[1], d, a)
       PROVE  y[1] = d /\ Carries(x, r, p, l, V, Y, d + 1, a, f, k)
  <2>1. v[1].kind = "chunk" /\ d <= y[1] /\ y[1] < a
    BY <1>12, WriteIs, Zenon
  <2>2. y[1] = d
    <3>1. y[1] \in Nat /\ d <= d /\ d < a
      BY <1>7, <1>8, <2>1
    <3>2. PICK i \in 1..N + 1 : v[i].kind = "chunk" /\ y[i] = d
      BY <1>5, <1>6, <3>1, Zenon DEF Beside
    <3>3. i # 1 => y[1] < y[i]
      <4>1. i # 1 => 1 < i
        OBVIOUS
      <4> QED
        BY <1>5, <1>7, <2>1, <3>2, <4>1, Zenon
    <3> QED
      BY <2>1, <3>1, <3>2, <3>3
  <2>3. ASSUME NEW i \in 1..N
        PROVE  ChunkWrite(r, p, V[i], Y[i], d + 1, a) \/ CreditWrite(r, p, l, V[i], Y[i], f, k)
    <3>1. V[i] = v[i + 1] /\ Y[i] = y[i + 1] /\ y[i + 1] \in Nat
      BY <1>3, <1>4, <1>7, <1>8
    <3>2. ChunkWrite(r, p, V[i], Y[i], d, a) \/ CreditWrite(r, p, l, V[i], Y[i], f, k)
      BY <1>5, <1>7, <3>1, Zenon
    <3>3. ASSUME ChunkWrite(r, p, V[i], Y[i], d, a)
          PROVE  d + 1 <= Y[i]
      <4>1. v[i + 1].kind = "chunk"
        BY <3>1, <3>3, WriteIs, Zenon
      <4>2. y[1] < y[i + 1]
        BY <1>5, <1>7, <2>1, <4>1, Zenon
      <4> QED
        BY <2>2, <3>1, <4>2
    <3> QED
      BY <3>2, <3>3, Zenon DEF ChunkWrite
  <2>4. ASSUME NEW g \in Nat, d + 1 <= g, g < a
        PROVE  \E i \in 1..N : V[i].kind = "chunk" /\ Y[i] = g
    <3>1. d <= g /\ g # d
      BY <2>4
    <3>2. PICK i \in 1..N + 1 : v[i].kind = "chunk" /\ y[i] = g
      BY <1>5, <1>6, <2>4, <3>1, Zenon DEF Beside
    <3>3. i # 1
      BY <2>2, <3>1, <3>2
    <3>4. PICK j \in 1..N : i = j + 1
      BY <1>7, <3>3
    <3> QED
      BY <1>3, <1>4, <3>2, <3>4
  <2>5. Carries(x, r, p, l, V, Y, d + 1, a, f, k)
    BY <1>4, <1>6, <1>10, <1>11, <2>3, <2>4, Zenon DEF Carries, Beside
  <2> QED
    BY <2>2, <2>5
<1>13. ASSUME CreditWrite(r, p, l, v[1], y[1], f, k)
       PROVE  Carries(x, r, p, l, V, Y, d, a, y[1], k)
  <2>1. v[1].kind = "credit"
    BY <1>13, WriteIs, Zenon
  <2>2. "credit" # "chunk"
    OBVIOUS
  <2>3. ASSUME NEW i \in 1..N
        PROVE  ChunkWrite(r, p, V[i], Y[i], d, a) \/ CreditWrite(r, p, l, V[i], Y[i], y[1], k)
    <3>1. V[i] = v[i + 1] /\ Y[i] = y[i + 1]
      BY <1>3, <1>4
    <3>2. ChunkWrite(r, p, V[i], Y[i], d, a) \/ CreditWrite(r, p, l, V[i], Y[i], f, k)
      BY <1>5, <1>7, <3>1, Zenon
    <3>3. ASSUME CreditWrite(r, p, l, V[i], Y[i], f, k)
          PROVE  y[1] <= Y[i]
      <4>1. v[i + 1].kind = "credit"
        BY <3>1, <3>3, WriteIs, Zenon
      <4>2. y[1] <= y[i + 1]
        BY <1>5, <1>7, <2>1, <4>1, Zenon
      <4> QED
        BY <3>1, <4>2
    <3> QED
      BY <3>2, <3>3, Zenon DEF CreditWrite
  <2>4. ASSUME NEW g \in Nat, d <= g, g < a
        PROVE  \E i \in 1..N : V[i].kind = "chunk" /\ Y[i] = g
    <3>1. PICK i \in 1..N + 1 : v[i].kind = "chunk" /\ y[i] = g
      BY <1>5, <1>6, <2>4, Zenon DEF Beside
    <3>2. i # 1
      BY <2>1, <2>2, <3>1
    <3>3. PICK j \in 1..N : i = j + 1
      BY <1>7, <3>2
    <3> QED
      BY <1>3, <1>4, <3>1, <3>3
  <2> QED
    BY <1>4, <1>6, <1>10, <1>11, <2>3, <2>4, Zenon DEF Carries, Beside
<1> QED
  BY <1>2, <1>3, <1>4, <1>6, <1>7, <1>8, <1>9, <1>12, <1>13, Zenon

\* The numbers of chunks written matter only to a wire between neighbours, those of credit to its first lane.
LEMMA CarriesOff ==
    ASSUME NEW x, NEW r, NEW p, NEW l, NEW v, NEW y, NEW d, NEW a, NEW f, NEW k, Carries(x, r, p, l, v, y, d, a, f, k),
           NEW e, ~Beside(r, p)
    PROVE  Carries(x, r, p, l, v, y, e, a, f, k) /\ Carries(x, r, p, l, v, y, d, a, e, k)
<1>1. Len(y) = 0 /\ 1..0 = {} /\ p \notin {r - 1, r + 1}
  BY DEF Carries, Beside
<1>2. \A i \in 1..Len(y) : FALSE
  BY <1>1
<1> QED
  BY <1>1, <1>2, Zenon DEF Carries

\* No credit goes on the other lanes.
LEMMA CarriesNoCredit ==
    ASSUME NEW x, NEW r, NEW p, NEW l, NEW v, NEW y, NEW d, NEW a, NEW f, NEW k, Carries(x, r, p, l, v, y, d, a, f, k),
           NEW e, l # 1
    PROVE  Carries(x, r, p, l, v, y, d, a, e, k)
  BY Zenon DEF Carries, CreditWrite

\* The function g is f but for one place.
PutTwo(g, f, A, B, a, b, v) == \A q \in A, z \in B : g[q][z] = IF q = a /\ z = b THEN v ELSE f[q][z]
PutThree(g, f, A, B, C, a, b, c, v) ==
    \A q \in A, z \in B, i \in C : g[q][z][i] = IF q = a /\ z = b /\ i = c THEN v ELSE f[q][z][i]

\* A function of functions with one place changed.
LEMMA PutsTwo ==
    ASSUME NEW A, NEW B, NEW W, NEW f \in [A -> [B -> W]], NEW a \in A, NEW b \in B, NEW v \in W,
           NEW g, g = [f EXCEPT ![a][b] = v]
    PROVE  PutTwo(g, f, A, B, a, b, v)
<1>1. g[a] = [f[a] EXCEPT ![b] = v] /\ \A q \in A : q # a => g[q] = f[q]
  OBVIOUS
<1>2. f[a] \in [B -> W]
  OBVIOUS
<1>3. g[a][b] = v /\ \A z \in B : z # b => g[a][z] = f[a][z]
  BY <1>1, <1>2
<1> QED
  BY <1>1, <1>3 DEF PutTwo

\* The same one level deeper.
LEMMA PutsThree ==
    ASSUME NEW A, NEW B, NEW C, NEW W, NEW f \in [A -> [B -> [C -> W]]], NEW a \in A, NEW b \in B, NEW c \in C,
           NEW v \in W, NEW g, g = [f EXCEPT ![a][b][c] = v]
    PROVE  PutThree(g, f, A, B, C, a, b, c, v)
<1>1. PICK e : e = [f[a][b] EXCEPT ![c] = v]
  OBVIOUS
<1>2. g = [f EXCEPT ![a][b] = e]
  BY <1>1
<1>3. f[a][b] \in [C -> W]
  OBVIOUS
<1>4. e \in [C -> W] /\ e[c] = v /\ \A i \in C : i # c => e[i] = f[a][b][i]
  BY <1>1, <1>3
<1>5. PutTwo(g, f, A, B, a, b, e)
  <2>1. PICK V : V = [C -> W]
    OBVIOUS
  <2>2. f \in [A -> [B -> V]] /\ e \in V
    BY <1>4, <2>1
  <2> QED
    BY <1>2, <2>2, PutsTwo
<1>6. \A q \in A, z \in B : g[q][z] = IF q = a /\ z = b THEN e ELSE f[q][z]
  BY <1>5 DEF PutTwo
<1> QED
  BY <1>4, <1>6 DEF PutThree

\* The wires after a write is delivered.
LEMMA WiresRest ==
    ASSUME NEW x \in Sessions, Typed(x), NEW r \in RanksOf(x), NEW p \in RanksOf(x), NEW l \in LanesOf(x),
           NEW v \in Seq(WriteOf), wire' = [wire EXCEPT ![r][p][l] = v]
    PROVE  /\ PutThree(wire', wire, RanksOf(x), RanksOf(x), LanesOf(x), r, p, l, v)
           /\ wire' \in [RanksOf(x) -> [RanksOf(x) ->
                            [LanesOf(x) -> Seq([kind : {"chunk", "credit"}, stream : Streams, word : Word])]]]
<1>1. wire \in [RanksOf(x) -> [RanksOf(x) -> [LanesOf(x) -> Seq(WriteOf)]]]
  BY DEF Typed, WriteOf
<1>2. PICK a, b : a = wire /\ b = wire'
  OBVIOUS
<1>3. a \in [RanksOf(x) -> [RanksOf(x) -> [LanesOf(x) -> Seq(WriteOf)]]] /\ b = [a EXCEPT ![r][p][l] = v]
  BY <1>1, <1>2
<1>4. PutThree(b, a, RanksOf(x), RanksOf(x), LanesOf(x), r, p, l, v)
  BY <1>3, PutsThree
<1>5. wire' \in [RanksOf(x) -> [RanksOf(x) -> [LanesOf(x) -> Seq(WriteOf)]]]
  BY <1>1
<1> QED
  BY <1>2, <1>4, <1>5 DEF WriteOf

\* A credit that is delivered is known.
LEMMA CreditKeeps ==
    ASSUME NEW x \in Sessions, session = x, NEW h \in Counters(x), Body(x, h), NEW r \in RanksOf(x),
           NEW p \in RanksOf(x), NEW l \in LanesOf(x), NEW s, s = Toward(r, p), NEW o, o = Other(s), Beside(r, p),
           NEW v \in Seq(WriteOf), NEW y \in Seq(Nat), NEW e \in Nat,
           Carries(x, r, p, l, v, y, h.d[r][s][l], h.p[r][s], e, h.k[r][o]), h.f[p][o] <= e, e <= h.k[r][o], l = 1,
           credit' = [credit EXCEPT ![p][o] = Wrap(e)], wire' = [wire EXCEPT ![r][p][l] = v],
           UNCHANGED <<session, recv, flag, send, ready, finished, sent, doorbell, params, proxy, kernel>>
    PROVE  \E j \in Counters(x) : Body(x, j)'
<1>1. /\ Typed(x) /\ Counted(x, h) /\ Begins(x, h) /\ Used(x, h) /\ Ordered(x, h) /\ Along(x, h)
      /\ Wired(x, h) /\ Flagged(x, h) /\ Marked(x, h) /\ Valued(x, h)
  BY DEF Body
<1>2. /\ recv' = recv /\ flag' = flag /\ sent' = sent /\ doorbell' = doorbell /\ params' = params
      /\ send' = send /\ ready' = ready /\ finished' = finished
      /\ last' = last /\ known' = known /\ ops' = ops /\ post' = post /\ done' = done /\ consumed' = consumed
      /\ credited' = credited /\ failed' = failed /\ op' = op /\ base' = base /\ running' = running /\ at' = at
      /\ out' = out /\ poison' = poison /\ error' = error
  BY DEF proxy, kernel
<1>3. /\ s \in Streams /\ o \in Streams /\ o # s /\ Other(o) = s /\ Toward(p, r) = o
      /\ Out(x, r, s) /\ OutPeer(r, s) = p /\ Out(x, p, o) /\ OutPeer(p, o) = r /\ In(x, p, s) /\ InPeer(p, s) = r
  BY Sides
<1>4. PICK j \in Counters(x) :
         /\ j.f = [h.f EXCEPT ![p][o] = e] /\ j.w = [h.w EXCEPT ![r][p][l] = y]
         /\ j.b = h.b /\ j.t = h.t /\ j.p = h.p /\ j.d = h.d /\ j.c = h.c /\ j.k = h.k /\ j.n = h.n /\ j.u = h.u
  <2> DEFINE z == [b |-> h.b, t |-> h.t, p |-> h.p, d |-> h.d, c |-> h.c, k |-> h.k, f |-> [h.f EXCEPT ![p][o] = e],
                   n |-> h.n, u |-> h.u, w |-> [h.w EXCEPT ![r][p][l] = y]]
  <2>1. [h.f EXCEPT ![p][o] = e] \in [RanksOf(x) -> [Streams -> Nat]]
    <3>1. h.f \in [RanksOf(x) -> [Streams -> Nat]]
      BY FieldTypes
    <3> QED
      BY <1>3, <3>1
  <2>2. [h.w EXCEPT ![r][p][l] = y] \in [RanksOf(x) -> [RanksOf(x) -> [LanesOf(x) -> Seq(Nat)]]]
    <3>1. h.w \in [RanksOf(x) -> [RanksOf(x) -> [LanesOf(x) -> Seq(Nat)]]]
      BY FieldTypes
    <3> QED
      BY <3>1
  <2>3. z \in Counters(x)
    BY <2>1, <2>2, FieldTypes DEF Counters
  <2> QED
    BY <2>3
<1>5. /\ PutTwo(j.f, h.f, RanksOf(x), Streams, p, o, e)
      /\ PutThree(j.w, h.w, RanksOf(x), RanksOf(x), LanesOf(x), r, p, l, y)
  <2>1. /\ h.f \in [RanksOf(x) -> [Streams -> Nat]]
        /\ h.w \in [RanksOf(x) -> [RanksOf(x) -> [LanesOf(x) -> Seq(Nat)]]]
    BY FieldTypes
  <2>2. PutTwo(j.f, h.f, RanksOf(x), Streams, p, o, e)
    BY <1>3, <1>4, <2>1, PutsTwo
  <2>3. PutThree(j.w, h.w, RanksOf(x), RanksOf(x), LanesOf(x), r, p, l, y)
    BY <1>4, <2>1, PutsThree
  <2> QED
    BY <2>2, <2>3
<1>6. /\ PutThree(wire', wire, RanksOf(x), RanksOf(x), LanesOf(x), r, p, l, v)
      /\ wire' \in [RanksOf(x) -> [RanksOf(x) ->
                       [LanesOf(x) -> Seq([kind : {"chunk", "credit"}, stream : Streams, word : Word])]]]
  BY <1>1, WiresRest
<1>7. /\ credit'[p][o] = Wrap(e) /\ \A q \in RanksOf(x), z \in Streams : (q # p \/ z # o) => credit'[q][z] = credit[q][z]
      /\ credit' \in [RanksOf(x) -> [Streams -> Word]]
  <2>1. credit \in [RanksOf(x) -> [Streams -> Word]]
    BY <1>1, Zenon DEF Typed
  <2>2. Wrap(e) \in Word
    <3>1. e \in Int
      OBVIOUS
    <3> QED
      BY <3>1, Wraps, Zenon
  <2> QED
    BY <1>3, <2>1, <2>2
<1>8. Typed(x)'
  BY <1>1, <1>2, <1>6, <1>7, Zenon DEF Typed
<1>9. Counted(x, j)'
  <2> SUFFICES ASSUME NEW q \in RanksOf(x)
               PROVE  /\ doorbell'[q] = Wrap(j.b[q]) /\ last'[q] = Wrap(j.t[q]) /\ known'[q] = Wrap(Total(x)[j.t[q]])
                      /\ sent'[q] = Wrap(j.n[q])
                      /\ \A z \in Streams :
                            /\ post'[q][z] = Wrap(j.p[q][z]) /\ consumed'[q][z] = Wrap(j.c[q][z])
                            /\ credited'[q][z] = Wrap(j.k[q][z]) /\ credit'[q][z] = Wrap(j.f[q][z])
                            /\ \A i \in LanesOf(x) : done'[q][z][i] = Wrap(j.d[q][z][i])
    BY Zenon DEF Counted
  <2>1. /\ doorbell[q] = Wrap(h.b[q]) /\ last[q] = Wrap(h.t[q]) /\ known[q] = Wrap(Total(x)[h.t[q]])
        /\ sent[q] = Wrap(h.n[q])
        /\ \A z \in Streams :
              /\ post[q][z] = Wrap(h.p[q][z]) /\ consumed[q][z] = Wrap(h.c[q][z])
              /\ credited[q][z] = Wrap(h.k[q][z]) /\ credit[q][z] = Wrap(h.f[q][z])
              /\ \A i \in LanesOf(x) : done[q][z][i] = Wrap(h.d[q][z][i])
    BY <1>1, Zenon DEF Counted
  <2>2. \A z \in Streams : credit'[q][z] = Wrap(j.f[q][z])
    BY <1>5, <1>7, <2>1 DEF PutTwo
  <2> QED
    BY <1>2, <1>4, <2>1, <2>2
<1>10. Ordered(x, j)
  <2>1. \A q \in RanksOf(x), z \in Streams : j.f[q][z] = h.f[q][z] \/ (q = p /\ z = o /\ j.f[q][z] = e)
    BY <1>5 DEF PutTwo
  <2>2. ASSUME NEW q \in RanksOf(x), NEW z \in Streams, Out(x, q, z)
        PROVE  OutOrder(x, j, q, z)
    <3>1. OutOrder(x, h, q, z)
      BY <1>1, <2>2, Zenon DEF Ordered
    <3>2. h.p[q][z] <= j.f[q][z] + Slots /\ j.f[q][z] <= h.k[OutPeer(q, z)][z]
      <4>1. h.p[q][z] <= h.f[q][z] + Slots /\ h.f[q][z] <= h.k[OutPeer(q, z)][z]
        BY <3>1, Zenon DEF OutOrder
      <4>2. h.p[q][z] \in Nat /\ h.f[q][z] \in Nat /\ Slots \in Nat
        BY CounterTypes, Sizes
      <4>3. CASE j.f[q][z] = h.f[q][z]
        BY <4>1, <4>3
      <4>4. CASE q = p /\ z = o /\ j.f[q][z] = e
        BY <1>3, <4>1, <4>2, <4>4
      <4> QED
        BY <2>1, <4>3, <4>4
    <3> QED
      BY <1>4, <3>1, <3>2, Zenon DEF OutOrder
  <2>3. ASSUME NEW q \in RanksOf(x), NEW z \in Streams, In(x, q, z)
        PROVE  InOrder(x, j, q, z)
    <3>1. InOrder(x, h, q, z)
      BY <1>1, <2>3, Zenon DEF Ordered
    <3> QED
      BY <1>4, <3>1, Zenon DEF InOrder
  <2>4. ASSUME NEW q \in RanksOf(x)
        PROVE  SendOrder(x, j, q)
    <3>1. SendOrder(x, h, q)
      BY <1>1, Zenon DEF Ordered
    <3> QED
      BY <1>4, <3>1, Zenon DEF SendOrder
  <2> QED
    BY <2>2, <2>3, <2>4, Zenon DEF Ordered
<1>11. Wired(x, j)'
  <2> SUFFICES ASSUME NEW q \in RanksOf(x), NEW z \in RanksOf(x), NEW i \in LanesOf(x)
               PROVE  Carries(x, q, z, i, wire'[q][z][i], j.w[q][z][i], j.d[q][Toward(q, z)][i], j.p[q][Toward(q, z)],
                              j.f[z][Other(Toward(q, z))], j.k[q][Other(Toward(q, z))])
    BY Zenon DEF Wired
  <2>1. CASE q = r /\ z = p /\ i = l
    <3>1. wire'[q][z][i] = v /\ j.w[q][z][i] = y
      BY <1>5, <1>6, <2>1 DEF PutThree
    <3>2. j.f[p][o] = e
      BY <1>3, <1>5 DEF PutTwo
    <3> QED
      BY <1>4, <2>1, <3>1, <3>2, Zenon
  <2>2. CASE ~(q = r /\ z = p /\ i = l)
    <3>1. Carries(x, q, z, i, wire[q][z][i], h.w[q][z][i], h.d[q][Toward(q, z)][i], h.p[q][Toward(q, z)],
                  h.f[z][Other(Toward(q, z))], h.k[q][Other(Toward(q, z))])
      BY <1>1, Zenon DEF Wired
    <3>2. wire'[q][z][i] = wire[q][z][i] /\ j.w[q][z][i] = h.w[q][z][i]
      BY <1>5, <1>6, <2>2 DEF PutThree
    <3>3. Carries(x, q, z, i, wire[q][z][i], h.w[q][z][i], h.d[q][Toward(q, z)][i], h.p[q][Toward(q, z)],
                  j.f[z][Other(Toward(q, z))], h.k[q][Other(Toward(q, z))])
      <4>1. CASE ~Beside(q, z)
        BY <3>1, <4>1, CarriesOff
      <4>2. CASE i # 1
        BY <3>1, <4>2, CarriesNoCredit
      <4>3. CASE Beside(q, z) /\ i = 1
        <5>1. PICK m, n : m = Toward(q, z) /\ n = Other(m)
          OBVIOUS
        <5>2. m \in Streams /\ n \in Streams /\ Out(x, z, n) /\ OutPeer(z, n) = q
          BY <4>3, <5>1, Sides
        <5>3. z # p \/ n # o
          BY <1>3, <2>2, <4>3, <5>2
        <5>4. j.f[z][n] = h.f[z][n]
          BY <1>5, <5>2, <5>3 DEF PutTwo
        <5> QED
          BY <3>1, <5>1, <5>4
      <4> QED
        BY <4>1, <4>2, <4>3, Zenon
    <3> QED
      BY <1>4, <3>2, <3>3, Zenon
  <2> QED
    BY <2>1, <2>2
<1>12. Begins(x, j)' /\ Used(x, j)' /\ Flagged(x, j)' /\ Marked(x, j)' /\ Valued(x, j)'
  <2>1. Begins(x, j)' /\ Used(x, j)'
    BY <1>1, <1>2, <1>4, BeginsSame, UsedSame
  <2>2. Flagged(x, j)' /\ Marked(x, j)'
    BY <1>1, <1>2, <1>4, FlaggedSame, MarkedSame
  <2>3. Valued(x, j)'
    BY <1>1, <1>2, <1>4, ValuedSame
  <2> QED
    BY <2>1, <2>2, <2>3
<1>13. Ordered(x, j)' /\ Along(x, j)'
  <2>1. Along(x, j)
    BY <1>1, <1>4, AlongSame
  <2> QED
    BY <1>10, <2>1 DEF Ordered, OutOrder, InOrder, SendOrder, Along
<1> QED
  BY <1>4, <1>8, <1>9, <1>11, <1>12, <1>13 DEF Body

PutFour(g, f, A, B, C, D, a, b, c, d, v) ==
    \A q \in A, z \in B, i \in C, j \in D : g[q][z][i][j] = IF q = a /\ z = b /\ i = c /\ j = d THEN v ELSE f[q][z][i][j]

\* The same another level deeper.
LEMMA PutsFour ==
    ASSUME NEW A, NEW B, NEW C, NEW D, NEW W, NEW f \in [A -> [B -> [C -> [D -> W]]]], NEW a \in A, NEW b \in B,
           NEW c \in C, NEW d \in D, NEW v \in W, NEW g, g = [f EXCEPT ![a][b][c][d] = v]
    PROVE  PutFour(g, f, A, B, C, D, a, b, c, d, v)
<1>1. PICK e : e = [f[a][b][c] EXCEPT ![d] = v]
  OBVIOUS
<1>2. g = [f EXCEPT ![a][b][c] = e]
  BY <1>1
<1>3. f[a][b][c] \in [D -> W]
  OBVIOUS
<1>4. e \in [D -> W] /\ e[d] = v /\ \A j \in D : j # d => e[j] = f[a][b][c][j]
  BY <1>1, <1>3
<1>5. PutThree(g, f, A, B, C, a, b, c, e)
  <2>1. PICK V : V = [D -> W]
    OBVIOUS
  <2>2. f \in [A -> [B -> [C -> V]]] /\ e \in V
    BY <1>4, <2>1
  <2> QED
    BY <1>2, <2>2, PutsThree
<1>6. \A q \in A, z \in B, i \in C : g[q][z][i] = IF q = a /\ z = b /\ i = c THEN e ELSE f[q][z][i]
  BY <1>5 DEF PutThree
<1> QED
  BY <1>4, <1>6 DEF PutFour

\* The flags after chunk d is written.
LEMMA FlagsGrow ==
    ASSUME NEW d \in Nat, NEW l, NEW a, FlagsOf(a, l, d), NEW e, e[d % Slots][l] = Wrap(d + 1),
           \A m \in Slot : m # d % Slots => e[m][l] = a[m][l]
    PROVE  FlagsOf(e, l, d + 1)
<1>1. Slots \in Nat /\ d \in Int
  BY Sizes
<1>2. ASSUME NEW g \in Nat, d + 1 <= g + Slots, g < d + 1
      PROVE  e[g % Slots][l] = Wrap(g + 1)
  <2>1. CASE g = d
    BY <2>1
  <2>2. CASE g # d
    <3>1. g \in Int /\ -Slots < g - d /\ g - d < Slots /\ d <= g + Slots /\ g < d
      BY <1>1, <1>2, <2>2
    <3>2. g % Slots # d % Slots /\ g % Slots \in Slot
      BY <1>1, <2>2, <3>1, Places, Zenon
    <3>3. a[g % Slots][l] = Wrap(g + 1)
      BY <3>1, Zenon DEF FlagsOf
    <3> QED
      BY <3>2, <3>3, Zenon
  <2> QED
    BY <2>1, <2>2
<1>3. ASSUME NEW m \in Slot, d + 1 <= m
      PROVE  e[m][l] = 0
  <2>1. 0 <= d /\ d < Slots /\ d # m /\ d <= m
    BY <1>1, <1>3 DEF Slot
  <2>2. d % Slots = d
    BY <1>1, <2>1, Places, Zenon
  <2>3. m # d % Slots
    BY <2>1, <2>2
  <2>4. a[m][l] = 0
    BY <2>1, Zenon DEF FlagsOf
  <2> QED
    BY <2>3, <2>4, Zenon
<1> QED
  BY <1>2, <1>3, Zenon DEF FlagsOf

\* The receive slots after chunk d is written.
LEMMA RecvGrows ==
    ASSUME NEW x, NEW d \in Nat, NEW r, NEW s, NEW n, NEW c, NEW l, NEW g \in Nat, NEW a,
           RecvHolds(x, a, d, r, s, n, c, l, g), NEW e, \A m \in Slot : m # d % Slots => e[m][l] = a[m][l],
           g = d => e[d % Slots][l] = Value(n, c, IF s = "partial" THEN r ELSE x.world)
    PROVE  RecvHolds(x, e, d + 1, r, s, n, c, l, g)
<1>1. Slots \in Nat /\ d \in Int
  BY Sizes
<1> SUFFICES ASSUME d + 1 <= g + Slots, g < d + 1
             PROVE  e[g % Slots][l] = Value(n, c, IF s = "partial" THEN r ELSE x.world)
  BY Zenon DEF RecvHolds
<1>2. CASE g = d
  BY <1>2, Zenon
<1>3. CASE g # d
  <2>1. g \in Int /\ -Slots < g - d /\ g - d < Slots /\ d <= g + Slots /\ g < d
    BY <1>1, <1>3
  <2>2. g % Slots # d % Slots /\ g % Slots \in Slot
    BY <1>1, <1>3, <2>1, Places, Zenon
  <2>3. a[g % Slots][l] = Value(n, c, IF s = "partial" THEN r ELSE x.world)
    BY <2>1, Zenon DEF RecvHolds
  <2> QED
    BY <2>2, <2>3, Zenon
<1> QED
  BY <1>2, <1>3

\* The order of the counters when more chunks are written.
LEMMA OrderedWrites ==
    ASSUME NEW x \in Sessions, NEW h \in Counters(x), NEW j \in Counters(x), Ordered(x, h),
           j.p = h.p, j.t = h.t, j.f = h.f, j.k = h.k, j.u = h.u, j.n = h.n, j.c = h.c,
           \A q \in RanksOf(x), z \in Streams, i \in LanesOf(x) :
              h.d[q][z][i] <= j.d[q][z][i] /\ (Out(x, q, z) => j.d[q][z][i] <= h.p[q][z])
    PROVE  Ordered(x, j)
<1>1. \A q \in RanksOf(x), z \in Streams, i \in LanesOf(x) :
         /\ h.d[q][z][i] \in Nat /\ j.d[q][z][i] \in Nat
         /\ \A a \in Nat : /\ a <= h.d[q][z][i] => a <= j.d[q][z][i]
                           /\ a < h.d[q][z][i] => a < j.d[q][z][i]
  <2> SUFFICES ASSUME NEW q \in RanksOf(x), NEW z \in Streams, NEW i \in LanesOf(x)
               PROVE  /\ h.d[q][z][i] \in Nat /\ j.d[q][z][i] \in Nat
                      /\ \A a \in Nat : /\ a <= h.d[q][z][i] => a <= j.d[q][z][i]
                                        /\ a < h.d[q][z][i] => a < j.d[q][z][i]
    OBVIOUS
  <2>1. h.d[q][z][i] \in Nat /\ j.d[q][z][i] \in Nat /\ h.d[q][z][i] <= j.d[q][z][i]
    BY CounterTypes
  <2> QED
    BY <2>1
<1>2. ASSUME NEW q \in RanksOf(x), NEW z \in Streams, Out(x, q, z)
      PROVE  OutOrder(x, j, q, z)
  <2>1. OutOrder(x, h, q, z)
    BY <1>2, Zenon DEF Ordered
  <2>2. \A i \in LanesOf(x) : j.d[q][z][i] <= j.p[q][z]
    BY <1>2
  <2>3. Forwards(x, q, z) =>
          \A i \in LanesOf(x) : h.p[q][z] <= j.d[InPeer(q, z)][z][i] /\ h.k[q][z] <= j.d[q][z][i]
    <3> SUFFICES ASSUME Forwards(x, q, z), NEW i \in LanesOf(x)
                 PROVE  h.p[q][z] <= j.d[InPeer(q, z)][z][i] /\ h.k[q][z] <= j.d[q][z][i]
      OBVIOUS
    <3>1. InPeer(q, z) \in RanksOf(x)
      BY Neighbours
    <3>2. h.p[q][z] <= h.d[InPeer(q, z)][z][i] /\ h.k[q][z] <= h.d[q][z][i]
      BY <2>1, Zenon DEF OutOrder
    <3>3. h.p[q][z] \in Nat /\ h.k[q][z] \in Nat
      BY CounterTypes
    <3> QED
      BY <1>1, <3>1, <3>2, <3>3, Zenon
  <2> QED
    BY <2>1, <2>2, <2>3, Zenon DEF OutOrder
<1>3. ASSUME NEW q \in RanksOf(x), NEW z \in Streams, In(x, q, z)
      PROVE  InOrder(x, j, q, z)
  <2>1. InOrder(x, h, q, z)
    BY <1>3, Zenon DEF Ordered
  <2>2. InPeer(q, z) \in RanksOf(x)
    BY <1>3, Neighbours
  <2>3. h.c[q][z] \in Nat /\ h.u[q][z] \in SUBSET Nat
    BY CounterTypes
  <2>4. \A g \in h.u[q][z], i \in LanesOf(x) : g < j.d[InPeer(q, z)][z][i]
    <3>1. \A g \in h.u[q][z], i \in LanesOf(x) : g < h.d[InPeer(q, z)][z][i]
      BY <2>1, Zenon DEF InOrder
    <3>2. \A g \in h.u[q][z] : g \in Nat
      BY <2>3
    <3> QED
      BY <1>1, <2>2, <3>1, <3>2, Zenon
  <2>5. \A i \in LanesOf(x) : h.c[q][z] <= j.d[InPeer(q, z)][z][i]
    <3>1. \A i \in LanesOf(x) : h.c[q][z] <= h.d[InPeer(q, z)][z][i]
      BY <2>1, Zenon DEF InOrder
    <3> QED
      BY <1>1, <2>2, <2>3, <3>1, Zenon
  <2> QED
    BY <2>1, <2>4, <2>5, Zenon DEF InOrder
<1>4. ASSUME NEW q \in RanksOf(x)
      PROVE  SendOrder(x, j, q)
  <2>1. SendOrder(x, h, q)
    BY Zenon DEF Ordered
  <2>2. \A i \in LanesOf(x) : h.n[q] <= j.d[q][Own(x, q)][i]
    <3>1. h.n[q] \in Nat /\ Own(x, q) \in Streams
      BY CounterTypes DEF Own, Streams
    <3>2. \A i \in LanesOf(x) : h.n[q] <= h.d[q][Own(x, q)][i]
      BY <2>1, Zenon DEF SendOrder
    <3> QED
      BY <1>1, <3>1, <3>2, Zenon
  <2> QED
    BY <2>1, <2>2, Zenon DEF SendOrder
<1> QED
  BY <1>2, <1>3, <1>4, Zenon DEF Ordered

\* The next chunk of stream s on lane l of rank r is number d, ...
NextOf(h, r, s, l, d) == d = h.d[r][s][l] /\ d < h.p[r][s]

\* ... its source is e.
SourceOf(r, s, l, d, e) == e = IF OutKind(r, s) = "kernel" THEN send[r][d % Slots][l] ELSE recv[r][s][d % Slots][l]

\* The slot that a chunk is written from holds it: the neighbour's kernel, or the rank before, put it there
\* and nothing has overwritten it.
LEMMA SourceHolds ==
    ASSUME NEW x \in Sessions, session = x, NEW h \in Counters(x), Ordered(x, h), Valued(x, h), NEW r \in RanksOf(x),
           NEW s \in Streams, Out(x, r, s), NEW l \in LanesOf(x), NEW d, NextOf(h, r, s, l, d), NEW e,
           SourceOf(r, s, l, d, e),
           NEW n \in 1..Len(x.ops), NEW c \in 0..x.ops[n] - 1, Total(x)[n - 1] + c = d
    PROVE  e = Value(n, c, IF s = "partial" THEN r + 1 ELSE x.world)
<1>1. /\ d = h.d[r][s][l] /\ d < h.p[r][s]
      /\ d \in Nat /\ h.p[r][s] \in Nat /\ h.n[r] \in Nat /\ h.k[r][s] \in Nat /\ Slots \in Nat
      /\ h.u[r]["partial"] \in SUBSET Nat
  <2>1. "partial" \in Streams
    BY DEF Streams
  <2>2. h.p[r][s] \in Nat /\ h.n[r] \in Nat /\ h.k[r][s] \in Nat /\ h.u[r]["partial"] \in SUBSET Nat
    BY <2>1, CounterTypes, Zenon
  <2>3. h.d[r][s][l] \in Nat
    BY CounterTypes, Zenon
  <2>4. Slots \in Nat
    BY Sizes
  <2>5. d = h.d[r][s][l] /\ d < h.p[r][s]
    BY DEF NextOf
  <2> QED
    BY <2>2, <2>3, <2>4, <2>5
<1>2. /\ OutKind(r, s) = "kernel" <=> s = Own(x, r)
      /\ s = Own(x, r) \/ (Forwards(x, r, s) /\ In(x, r, s))
      /\ ~Forwards(x, r, Own(x, r))
  BY NamesOf, Neighbours
<1>3. CASE s = Own(x, r)
  <2>1. d \in h.u[r]["partial"]
    BY <1>1, <1>3, Zenon DEF Ordered, OutOrder
  <2>2. d + Slots \notin h.u[r]["partial"]
    <3>1. h.n[r] <= h.d[r][s][l] /\ \A g \in h.u[r]["partial"] : g < h.n[r] + Slots
      BY <1>3, Zenon DEF Ordered, SendOrder
    <3>2. PICK i \in Nat : i = h.n[r]
      BY <1>1
    <3>3. i <= d
      BY <1>1, <3>1, <3>2
    <3>4. ~(d + Slots < i + Slots)
      BY <1>1, <3>3
    <3> QED
      BY <3>1, <3>2, <3>4, Zenon
  <2>3. SendHolds(send[r], h.u[r]["partial"], r, n, c, l, Total(x)[n - 1] + c)
    BY Zenon DEF Valued
  <2>4. send[r][d % Slots][l] = Value(n, c, r + 1)
    BY <2>1, <2>2, <2>3, Zenon DEF SendHolds
  <2>5. s = "partial" \/ r + 1 = x.world
    BY <1>3, SessionIs, SMTT(60) DEF Own, RanksOf
  <2> QED
    BY <1>2, <1>3, <2>4, <2>5 DEF SourceOf
<1>4. CASE s # Own(x, r)
  <2>1. Forwards(x, r, s) /\ In(x, r, s) /\ s # "partial"
    BY <1>2, <1>4 DEF Forwards
  <2>2. d < h.d[InPeer(r, s)][s][l] /\ h.d[InPeer(r, s)][s][l] <= d + Slots
    <3>1. h.p[r][s] <= h.d[InPeer(r, s)][s][l] /\ h.k[r][s] <= h.d[r][s][l]
      BY <2>1, Zenon DEF Ordered, OutOrder
    <3>2. /\ h.d[InPeer(r, s)][s][l] <= h.p[InPeer(r, s)][s] /\ h.p[InPeer(r, s)][s] <= h.k[r][s] + Slots
          /\ h.d[InPeer(r, s)][s][l] \in Nat /\ h.p[InPeer(r, s)][s] \in Nat
      BY <2>1, LinkBounds
    <3>3. PICK i \in Nat, a \in Nat, k \in Nat, z \in Nat :
             i = h.d[InPeer(r, s)][s][l] /\ a = h.p[InPeer(r, s)][s] /\ k = h.k[r][s] /\ z = h.p[r][s]
      BY <1>1, <3>2
    <3>4. d < z /\ z <= i /\ k <= d /\ i <= a /\ a <= k + Slots
      BY <1>1, <3>1, <3>2, <3>3
    <3>5. d < i /\ i <= d + Slots
      BY <1>1, <3>4, SMTT(60)
    <3> QED
      BY <3>3, <3>5, Zenon
  <2>3. RecvHolds(x, recv[r][s], h.d[InPeer(r, s)][s][l], r, s, n, c, l, Total(x)[n - 1] + c)
    BY <2>1, Zenon DEF Valued
  <2>4. recv[r][s][d % Slots][l] = Value(n, c, x.world)
    BY <2>1, <2>2, <2>3, Zenon DEF RecvHolds
  <2> QED
    BY <1>2, <1>4, <2>1, <2>4 DEF SourceOf
<1> QED
  BY <1>3, <1>4

\* A chunk e is written to slot m of p with tag u.
WritesChunk(r, p, s, l, m, e, u) ==
    /\ recv' = [recv EXCEPT ![p][s][m][l] = e]
    /\ flag' = [flag EXCEPT ![p][s][m][l] = u]
    /\ done' = [done EXCEPT ![r][s][l] = u]

\* A chunk that is delivered is written.
LEMMA ChunkKeeps ==
    ASSUME NEW x \in Sessions, session = x, NEW h \in Counters(x), Body(x, h), NEW r \in RanksOf(x),
           NEW p \in RanksOf(x), NEW l \in LanesOf(x), NEW s, s = Toward(r, p), NEW o, o = Other(s), Beside(r, p),
           NEW v \in Seq(WriteOf), NEW y \in Seq(Nat), NEW d \in Nat, NextOf(h, r, s, l, d),
           Carries(x, r, p, l, v, y, d + 1, h.p[r][s], h.f[p][o], h.k[r][o]), NEW e, SourceOf(r, s, l, d, e),
           WritesChunk(r, p, s, l, d % Slots, e, Wrap(d + 1)), wire' = [wire EXCEPT ![r][p][l] = v],
           UNCHANGED <<session, send, ready, finished, sent, credit, doorbell, params, last, known, ops, post,
                       consumed, credited, failed, kernel>>
    PROVE  \E j \in Counters(x) : Body(x, j)'
<1>1. /\ Typed(x) /\ Counted(x, h) /\ Begins(x, h) /\ Used(x, h) /\ Ordered(x, h) /\ Along(x, h)
      /\ Wired(x, h) /\ Flagged(x, h) /\ Marked(x, h) /\ Valued(x, h)
  BY DEF Body
<1>2. /\ sent' = sent /\ doorbell' = doorbell /\ params' = params
      /\ send' = send /\ ready' = ready /\ finished' = finished /\ credit' = credit
      /\ last' = last /\ known' = known /\ ops' = ops /\ post' = post /\ consumed' = consumed
      /\ credited' = credited /\ failed' = failed /\ op' = op /\ base' = base /\ running' = running /\ at' = at
      /\ out' = out /\ poison' = poison /\ error' = error
  BY DEF kernel
<1>3. /\ s \in Streams /\ o \in Streams /\ o # s /\ Other(o) = s /\ Toward(p, r) = o
      /\ Out(x, r, s) /\ OutPeer(r, s) = p /\ Out(x, p, o) /\ OutPeer(p, o) = r /\ In(x, p, s) /\ InPeer(p, s) = r
  BY Sides
<1>4. PICK m \in Slot : m = d % Slots
  <2>1. d \in Int
    OBVIOUS
  <2> QED
    BY <2>1, Places
<1>5. Wrap(d + 1) \in Word
  <2>1. d + 1 \in Int
    OBVIOUS
  <2> QED
    BY <2>1, Wraps, Zenon
<1>6. e \in Seq(Nat)
  <2>1. send[r][m][l] \in Seq(Nat)
    BY <1>1 DEF Typed
  <2>2. recv[r][s][m][l] \in Seq(Nat)
    BY <1>1, <1>3 DEF Typed
  <2> QED
    BY <1>4, <2>1, <2>2 DEF SourceOf
<1>7. PICK j \in Counters(x) :
         /\ j.d = [h.d EXCEPT ![r][s][l] = d + 1] /\ j.w = [h.w EXCEPT ![r][p][l] = y]
         /\ j.b = h.b /\ j.t = h.t /\ j.p = h.p /\ j.f = h.f /\ j.c = h.c /\ j.k = h.k /\ j.n = h.n /\ j.u = h.u
  <2> DEFINE z == [b |-> h.b, t |-> h.t, p |-> h.p, d |-> [h.d EXCEPT ![r][s][l] = d + 1], c |-> h.c, k |-> h.k,
                   f |-> h.f, n |-> h.n, u |-> h.u, w |-> [h.w EXCEPT ![r][p][l] = y]]
  <2>1. [h.d EXCEPT ![r][s][l] = d + 1] \in [RanksOf(x) -> [Streams -> [LanesOf(x) -> Nat]]]
    <3>1. h.d \in [RanksOf(x) -> [Streams -> [LanesOf(x) -> Nat]]] /\ d + 1 \in Nat
      BY FieldTypes, SMTT(60)
    <3> QED
      BY <1>3, <3>1, ZenonT(60)
  <2>2. [h.w EXCEPT ![r][p][l] = y] \in [RanksOf(x) -> [RanksOf(x) -> [LanesOf(x) -> Seq(Nat)]]]
    <3>1. h.w \in [RanksOf(x) -> [RanksOf(x) -> [LanesOf(x) -> Seq(Nat)]]]
      BY FieldTypes
    <3> QED
      BY <3>1
  <2>3. z \in Counters(x)
    BY <2>1, <2>2, FieldTypes DEF Counters
  <2> QED
    BY <2>3
<1>8. /\ PutThree(j.d, h.d, RanksOf(x), Streams, LanesOf(x), r, s, l, d + 1)
      /\ PutThree(j.w, h.w, RanksOf(x), RanksOf(x), LanesOf(x), r, p, l, y)
  <2>1. /\ h.d \in [RanksOf(x) -> [Streams -> [LanesOf(x) -> Nat]]]
        /\ h.w \in [RanksOf(x) -> [RanksOf(x) -> [LanesOf(x) -> Seq(Nat)]]]
    BY FieldTypes
  <2>2. PutThree(j.d, h.d, RanksOf(x), Streams, LanesOf(x), r, s, l, d + 1)
    <3>1. d + 1 \in Nat
      OBVIOUS
    <3> QED
      BY <1>3, <1>7, <2>1, <3>1, PutsThree
  <2>3. PutThree(j.w, h.w, RanksOf(x), RanksOf(x), LanesOf(x), r, p, l, y)
    BY <1>7, <2>1, PutsThree
  <2> QED
    BY <2>2, <2>3
<1>9. /\ PutThree(wire', wire, RanksOf(x), RanksOf(x), LanesOf(x), r, p, l, v)
      /\ wire' \in [RanksOf(x) -> [RanksOf(x) ->
                       [LanesOf(x) -> Seq([kind : {"chunk", "credit"}, stream : Streams, word : Word])]]]
  BY <1>1, WiresRest
<1>10. /\ PutFour(recv', recv, RanksOf(x), Streams, Slot, LanesOf(x), p, s, m, l, e)
       /\ recv' \in [RanksOf(x) -> [Streams -> [Slot -> [LanesOf(x) -> Seq(Nat)]]]]
  <2>1. PICK V : V = Seq(Nat)
    OBVIOUS
  <2>2. recv \in [RanksOf(x) -> [Streams -> [Slot -> [LanesOf(x) -> V]]]] /\ e \in V
    BY <1>1, <1>6, <2>1, Zenon DEF Typed
  <2>3. PICK a, b : a = recv /\ b = recv'
    OBVIOUS
  <2>4. a \in [RanksOf(x) -> [Streams -> [Slot -> [LanesOf(x) -> V]]]] /\ b = [a EXCEPT ![p][s][m][l] = e]
    BY <1>4, <2>2, <2>3 DEF WritesChunk
  <2>5. PutFour(b, a, RanksOf(x), Streams, Slot, LanesOf(x), p, s, m, l, e)
    BY <1>3, <2>2, <2>4, PutsFour
  <2>6. b \in [RanksOf(x) -> [Streams -> [Slot -> [LanesOf(x) -> V]]]]
    BY <1>3, <2>2, <2>4
  <2> QED
    BY <2>1, <2>3, <2>5, <2>6
<1>11. /\ PutFour(flag', flag, RanksOf(x), Streams, Slot, LanesOf(x), p, s, m, l, Wrap(d + 1))
       /\ flag' \in [RanksOf(x) -> [Streams -> [Slot -> [LanesOf(x) -> Word]]]]
  <2>1. PICK V, u : V = Word /\ u = Wrap(d + 1)
    OBVIOUS
  <2>2. flag \in [RanksOf(x) -> [Streams -> [Slot -> [LanesOf(x) -> V]]]] /\ u \in V
    BY <1>1, <1>5, <2>1, Zenon DEF Typed
  <2>3. PICK a, b : a = flag /\ b = flag'
    OBVIOUS
  <2>4. a \in [RanksOf(x) -> [Streams -> [Slot -> [LanesOf(x) -> V]]]] /\ b = [a EXCEPT ![p][s][m][l] = u]
    BY <1>4, <2>1, <2>2, <2>3 DEF WritesChunk
  <2>5. PutFour(b, a, RanksOf(x), Streams, Slot, LanesOf(x), p, s, m, l, u)
    BY <1>3, <2>2, <2>4, PutsFour
  <2>6. b \in [RanksOf(x) -> [Streams -> [Slot -> [LanesOf(x) -> V]]]]
    BY <1>3, <2>2, <2>4
  <2> QED
    BY <2>1, <2>3, <2>5, <2>6
<1>12. /\ PutThree(done', done, RanksOf(x), Streams, LanesOf(x), r, s, l, Wrap(d + 1))
       /\ done' \in [RanksOf(x) -> [Streams -> [LanesOf(x) -> Word]]]
  <2>1. PICK V, u : V = Word /\ u = Wrap(d + 1)
    OBVIOUS
  <2>2. done \in [RanksOf(x) -> [Streams -> [LanesOf(x) -> V]]] /\ u \in V
    BY <1>1, <1>5, <2>1, Zenon DEF Typed
  <2>3. PICK a, b : a = done /\ b = done'
    OBVIOUS
  <2>4. a \in [RanksOf(x) -> [Streams -> [LanesOf(x) -> V]]] /\ b = [a EXCEPT ![r][s][l] = u]
    BY <2>1, <2>2, <2>3 DEF WritesChunk
  <2>5. PutThree(b, a, RanksOf(x), Streams, LanesOf(x), r, s, l, u)
    BY <1>3, <2>2, <2>4, PutsThree
  <2>6. b \in [RanksOf(x) -> [Streams -> [LanesOf(x) -> V]]]
    BY <1>3, <2>2, <2>4
  <2> QED
    BY <2>1, <2>3, <2>5, <2>6
<1>13. Typed(x)'
  BY <1>1, <1>2, <1>9, <1>10, <1>11, <1>12, Zenon DEF Typed
<1>14. Counted(x, j)'
  <2> SUFFICES ASSUME NEW q \in RanksOf(x)
               PROVE  /\ doorbell'[q] = Wrap(j.b[q]) /\ last'[q] = Wrap(j.t[q]) /\ known'[q] = Wrap(Total(x)[j.t[q]])
                      /\ sent'[q] = Wrap(j.n[q])
                      /\ \A z \in Streams :
                            /\ post'[q][z] = Wrap(j.p[q][z]) /\ consumed'[q][z] = Wrap(j.c[q][z])
                            /\ credited'[q][z] = Wrap(j.k[q][z]) /\ credit'[q][z] = Wrap(j.f[q][z])
                            /\ \A i \in LanesOf(x) : done'[q][z][i] = Wrap(j.d[q][z][i])
    BY Zenon DEF Counted
  <2>1. /\ doorbell[q] = Wrap(h.b[q]) /\ last[q] = Wrap(h.t[q]) /\ known[q] = Wrap(Total(x)[h.t[q]])
        /\ sent[q] = Wrap(h.n[q])
        /\ \A z \in Streams :
              /\ post[q][z] = Wrap(h.p[q][z]) /\ consumed[q][z] = Wrap(h.c[q][z])
              /\ credited[q][z] = Wrap(h.k[q][z]) /\ credit[q][z] = Wrap(h.f[q][z])
              /\ \A i \in LanesOf(x) : done[q][z][i] = Wrap(h.d[q][z][i])
    BY <1>1, Zenon DEF Counted
  <2>2. \A z \in Streams, i \in LanesOf(x) : done'[q][z][i] = Wrap(j.d[q][z][i])
    BY <1>8, <1>12, <2>1 DEF PutThree
  <2> QED
    BY <1>2, <1>7, <2>1, <2>2
<1>15. Ordered(x, j)
  <2>1. ASSUME NEW q \in RanksOf(x), NEW z \in Streams, NEW i \in LanesOf(x)
        PROVE  h.d[q][z][i] <= j.d[q][z][i] /\ (Out(x, q, z) => j.d[q][z][i] <= h.p[q][z])
    <3>1. h.d[q][z][i] \in Nat /\ h.p[q][z] \in Nat
      BY CounterTypes, Zenon
    <3>2. Out(x, q, z) => h.d[q][z][i] <= h.p[q][z]
      BY <1>1, Zenon DEF Ordered, OutOrder
    <3>3. CASE q = r /\ z = s /\ i = l
      <4>1. j.d[q][z][i] = d + 1
        BY <1>8, <3>3 DEF PutThree
      <4>2. PICK a \in Nat : a = h.p[q][z]
        BY <3>1
      <4>3. d < a /\ h.d[r][s][l] = d
        BY <3>3, <4>2 DEF NextOf
      <4>4. d <= d + 1 /\ d + 1 <= a
        BY <4>3
      <4> QED
        BY <3>3, <4>1, <4>2, <4>3, <4>4
    <3>4. CASE ~(q = r /\ z = s /\ i = l)
      <4>1. j.d[q][z][i] = h.d[q][z][i]
        BY <1>8, <3>4 DEF PutThree
      <4> QED
        BY <3>1, <3>2, <4>1
    <3> QED
      BY <3>3, <3>4
  <2> QED
    BY <1>1, <1>7, <2>1, OrderedWrites
<1>16. Wired(x, j)'
  <2> SUFFICES ASSUME NEW q \in RanksOf(x), NEW z \in RanksOf(x), NEW i \in LanesOf(x)
               PROVE  Carries(x, q, z, i, wire'[q][z][i], j.w[q][z][i], j.d[q][Toward(q, z)][i], j.p[q][Toward(q, z)],
                              j.f[z][Other(Toward(q, z))], j.k[q][Other(Toward(q, z))])
    BY Zenon DEF Wired
  <2>1. CASE q = r /\ z = p /\ i = l
    <3>1. wire'[q][z][i] = v /\ j.w[q][z][i] = y
      BY <1>8, <1>9, <2>1 DEF PutThree
    <3>2. j.d[r][s][l] = d + 1
      BY <1>3, <1>8 DEF PutThree
    <3> QED
      BY <1>7, <2>1, <3>1, <3>2, Zenon
  <2>2. CASE ~(q = r /\ z = p /\ i = l)
    <3>1. Carries(x, q, z, i, wire[q][z][i], h.w[q][z][i], h.d[q][Toward(q, z)][i], h.p[q][Toward(q, z)],
                  h.f[z][Other(Toward(q, z))], h.k[q][Other(Toward(q, z))])
      BY <1>1, Zenon DEF Wired
    <3>2. wire'[q][z][i] = wire[q][z][i] /\ j.w[q][z][i] = h.w[q][z][i]
      BY <1>8, <1>9, <2>2 DEF PutThree
    <3>3. Carries(x, q, z, i, wire[q][z][i], h.w[q][z][i], j.d[q][Toward(q, z)][i], h.p[q][Toward(q, z)],
                  h.f[z][Other(Toward(q, z))], h.k[q][Other(Toward(q, z))])
      <4>1. CASE ~Beside(q, z)
        BY <3>1, <4>1, CarriesOff
      <4>2. CASE Beside(q, z)
        <5>1. PICK n : n = Toward(q, z)
          OBVIOUS
        <5>2. n \in Streams /\ OutPeer(q, n) = z
          BY <4>2, <5>1, Sides
        <5>3. ~(q = r /\ n = s /\ i = l)
          BY <1>3, <2>2, <5>2
        <5>4. j.d[q][n][i] = h.d[q][n][i]
          BY <1>8, <5>2, <5>3 DEF PutThree
        <5> QED
          BY <3>1, <5>1, <5>4
      <4> QED
        BY <4>1, <4>2, Zenon
    <3> QED
      BY <1>7, <3>2, <3>3, Zenon
  <2> QED
    BY <2>1, <2>2
<1>17. ASSUME NEW q \in RanksOf(x), NEW z \in Streams, NEW i \in LanesOf(x), In(x, q, z), ~(q = p /\ z = s /\ i = l)
       PROVE  j.d[InPeer(q, z)][z][i] = h.d[InPeer(q, z)][z][i]
  <2>1. InPeer(q, z) \in RanksOf(x) /\ OutPeer(InPeer(q, z), z) = q
    BY <1>17, Neighbours
  <2>2. ~(InPeer(q, z) = r /\ z = s /\ i = l)
    BY <1>3, <1>17, <2>1
  <2> QED
    BY <1>8, <2>1, <2>2 DEF PutThree
<1>18. j.d[InPeer(p, s)][s][l] = d + 1 /\ h.d[InPeer(p, s)][s][l] = d
  BY <1>3, <1>8 DEF PutThree, NextOf
<1>19. Flagged(x, j)'
  <2> SUFFICES ASSUME NEW q \in RanksOf(x), NEW z \in Streams, NEW i \in LanesOf(x), In(x, q, z)
               PROVE  FlagsOf(flag'[q][z], i, j.d[InPeer(q, z)][z][i])
    BY Zenon DEF Flagged
  <2>1. FlagsOf(flag[q][z], i, h.d[InPeer(q, z)][z][i])
    BY <1>1, Zenon DEF Flagged
  <2>2. CASE q = p /\ z = s /\ i = l
    <3>1. /\ flag'[p][s][d % Slots][l] = Wrap(d + 1)
          /\ \A k \in Slot : k # d % Slots => flag'[p][s][k][l] = flag[p][s][k][l]
      BY <1>3, <1>4, <1>11 DEF PutFour
    <3>2. FlagsOf(flag[p][s], l, d)
      BY <1>18, <2>1, <2>2
    <3>3. FlagsOf(flag'[p][s], l, d + 1)
      BY <3>1, <3>2, FlagsGrow, Zenon
    <3> QED
      BY <1>18, <2>2, <3>3, Zenon
  <2>3. CASE ~(q = p /\ z = s /\ i = l)
    <3>1. \A k \in Slot : flag'[q][z][k][i] = flag[q][z][k][i]
      BY <1>11, <2>3 DEF PutFour
    <3>2. j.d[InPeer(q, z)][z][i] = h.d[InPeer(q, z)][z][i]
      BY <1>17, <2>3, Zenon
    <3>3. \A g \in Nat : g % Slots \in Slot
      <4>1. \A g \in Nat : g \in Int
        OBVIOUS
      <4> QED
        BY <4>1, Places, Zenon
    <3> QED
      BY <2>1, <3>1, <3>2, <3>3, Zenon DEF FlagsOf
  <2> QED
    BY <2>2, <2>3
<1>20. ASSUME NEW q \in RanksOf(x), NEW z \in Streams, NEW i \in LanesOf(x), In(x, q, z), NEW n \in 1..Len(x.ops),
              NEW c \in 0..x.ops[n] - 1
       PROVE  RecvHolds(x, recv'[q][z], j.d[InPeer(q, z)][z][i], q, z, n, c, i, Total(x)[n - 1] + c)
  <2>1. PICK g \in Nat : g = Total(x)[n - 1] + c
    <3>1. n - 1 \in 0..Len(x.ops) /\ Total(x)[n - 1] \in Nat
      BY SessionIs, Totals, SMTT(60)
    <3>2. c \in Nat
      BY SessionIs
    <3> QED
      BY <3>1, <3>2
  <2>2. RecvHolds(x, recv[q][z], h.d[InPeer(q, z)][z][i], q, z, n, c, i, g)
    BY <1>1, <1>20, <2>1, Zenon DEF Valued
  <2>3. CASE q = p /\ z = s /\ i = l
    <3>1. /\ recv'[p][s][d % Slots][l] = e
          /\ \A k \in Slot : k # d % Slots => recv'[p][s][k][l] = recv[p][s][k][l]
      BY <1>3, <1>4, <1>10 DEF PutFour
    <3>2. RecvHolds(x, recv[p][s], d, p, s, n, c, l, g)
      BY <1>18, <2>2, <2>3
    <3>3. g = d => e = Value(n, c, IF s = "partial" THEN p ELSE x.world)
      <4>1. s = "partial" => p = r + 1
        <5>1. p = r + 1 \/ p = r - 1
          BY DEF Beside
        <5>2. p = r - 1 => s = "result"
          BY Sides
        <5> QED
          BY <5>1, <5>2
      <4>2. g = d => e = Value(n, c, IF s = "partial" THEN r + 1 ELSE x.world)
        <5> SUFFICES ASSUME g = d PROVE e = Value(n, c, IF s = "partial" THEN r + 1 ELSE x.world)
          OBVIOUS
        <5>1. Total(x)[n - 1] + c = d
          BY <2>1
        <5> QED
          BY <1>1, <1>3, <5>1, SourceHolds
      <4> QED
        BY <4>1, <4>2
    <3>4. RecvHolds(x, recv'[p][s], d + 1, p, s, n, c, l, g)
      BY <3>1, <3>2, <3>3, RecvGrows, Zenon
    <3> QED
      BY <1>18, <2>1, <2>3, <3>4, Zenon
  <2>4. CASE ~(q = p /\ z = s /\ i = l)
    <3>1. \A k \in Slot : recv'[q][z][k][i] = recv[q][z][k][i]
      BY <1>10, <2>4 DEF PutFour
    <3>2. j.d[InPeer(q, z)][z][i] = h.d[InPeer(q, z)][z][i]
      BY <1>17, <1>20, <2>4, Zenon
    <3>3. g % Slots \in Slot
      <4>1. g \in Int
        OBVIOUS
      <4> QED
        BY <4>1, Places, Zenon
    <3> QED
      BY <2>1, <2>2, <3>1, <3>2, <3>3, Zenon DEF RecvHolds
  <2> QED
    BY <2>3, <2>4
<1>21. Valued(x, j)'
  <2> SUFFICES ASSUME NEW q \in RanksOf(x), NEW n \in 1..Len(x.ops), NEW c \in 0..x.ops[n] - 1, NEW i \in LanesOf(x)
               PROVE  /\ \A z \in Streams : In(x, q, z) =>
                            RecvHolds(x, recv'[q][z], j.d[InPeer(q, z)][z][i], q, z, n, c, i, Total(x)[n - 1] + c)
                      /\ SendHolds(send'[q], j.u[q]["partial"], q, n, c, i, Total(x)[n - 1] + c)
                      /\ ~poison'[q] /\ running'[q] /\ n = op'[q] + 1 =>
                            OutHolds(x, out'[q], j.u[q][Stores(x, q)], n, c, i, Total(x)[n - 1] + c)
    BY Zenon DEF Valued, RecvHolds, SendHolds, OutHolds
  <2>1. /\ SendHolds(send[q], h.u[q]["partial"], q, n, c, i, Total(x)[n - 1] + c)
        /\ ~poison[q] /\ running[q] /\ n = op[q] + 1 =>
              OutHolds(x, out[q], h.u[q][Stores(x, q)], n, c, i, Total(x)[n - 1] + c)
    BY <1>1, Zenon DEF Valued
  <2> QED
    BY <1>2, <1>7, <1>20, <2>1, Zenon
<1>22. Begins(x, j)' /\ Used(x, j)' /\ Marked(x, j)'
  <2>1. Begins(x, j)' /\ Used(x, j)'
    BY <1>1, <1>2, <1>7, BeginsSame, UsedSame
  <2>2. Marked(x, j)'
    BY <1>1, <1>2, <1>7, MarkedSame
  <2> QED
    BY <2>1, <2>2
<1>23. Ordered(x, j)' /\ Along(x, j)'
  <2>1. Along(x, j)
    BY <1>1, <1>7, AlongSame
  <2> QED
    BY <1>15, <2>1 DEF Ordered, OutOrder, InOrder, SendOrder, Along
<1> QED
  BY <1>7, <1>13, <1>14, <1>16, <1>19, <1>21, <1>22, <1>23 DEF Body

\* The oldest write of a queue pair is performed.
LEMMA DeliverKeeps ==
    ASSUME Aligned, NEW x \in Sessions, session = x, NEW h \in Counters(x), Body(x, h), NEW r \in RanksOf(x),
           NEW p \in RanksOf(x), NEW l \in LanesOf(x), Deliver(r, p, l)
    PROVE  \E j \in Counters(x) : Body(x, j)'
<1>1. /\ Typed(x) /\ Counted(x, h) /\ Wired(x, h)
      /\ \A q \in RanksOf(x) : h.t[q] <= h.b[q]
  BY Zenon DEF Body, Begins
<1>2. PICK s, o : s = Toward(r, p) /\ o = Other(s)
  OBVIOUS
<1>3. PICK v \in Seq(WriteOf) : v = wire[r][p][l]
  <2>1. wire \in [RanksOf(x) -> [RanksOf(x) -> [LanesOf(x) -> Seq(WriteOf)]]]
    BY <1>1 DEF Typed, WriteOf
  <2>2. wire[r][p][l] \in Seq(WriteOf)
    BY <2>1
  <2> QED
    BY <2>2
<1>4. PICK y \in Seq(Nat) : y = h.w[r][p][l]
  BY CounterTypes
<1>5. /\ v # <<>>
      /\ IF v[1].kind = "chunk"
           THEN /\ recv' = [recv EXCEPT ![p][v[1].stream][v[1].word % Slots][l] =
                               IF OutKind(r, v[1].stream) = "kernel"
                                 THEN send[r][v[1].word % Slots][l] ELSE recv[r][v[1].stream][v[1].word % Slots][l]]
                /\ flag' = [flag EXCEPT ![p][v[1].stream][v[1].word % Slots][l] = Plus(v[1].word, 1)]
                /\ done' = [done EXCEPT ![r][v[1].stream][l] = Plus(@, 1)]
                /\ credit' = credit
           ELSE /\ credit' = [credit EXCEPT ![p][v[1].stream] = v[1].word]
                /\ recv' = recv /\ flag' = flag /\ done' = done
      /\ wire' = [wire EXCEPT ![r][p][l] = Tail(v)]
      /\ UNCHANGED <<session, send, ready, finished, sent, doorbell, params, last, known, ops, post, consumed, credited,
                     failed, kernel>>
  <2>1. v # <<>> => Head(v) = v[1]
    BY RestIs, Zenon
  <2> QED
    BY <1>3, <2>1 DEF Deliver
<1>6. Beside(r, p) /\ s \in Streams /\ o \in Streams
  <2>1. Carries(x, r, p, l, wire[r][p][l], h.w[r][p][l], h.d[r][Toward(r, p)][l], h.p[r][Toward(r, p)],
                h.f[p][Other(Toward(r, p))], h.k[r][Other(Toward(r, p))])
    BY <1>1, Zenon DEF Wired
  <2>2. p \notin {r - 1, r + 1} => Len(v) = 0
    BY <1>3, <2>1 DEF Carries
  <2>3. Len(v) >= 1
    BY <1>5, RestIs
  <2>4. Beside(r, p)
    BY <2>2, <2>3 DEF Beside
  <2> QED
    BY <1>2, <2>4, Sides
<1>7. PICK d \in Nat, a \in Nat, f \in Nat, k \in Nat :
         d = h.d[r][s][l] /\ a = h.p[r][s] /\ f = h.f[p][o] /\ k = h.k[r][o]
  <2>1. h.d[r][s][l] \in Nat /\ h.p[r][s] \in Nat /\ h.f[p][o] \in Nat /\ h.k[r][o] \in Nat
    BY <1>6, CounterTypes, Zenon
  <2> QED
    BY <2>1
<1>8. Carries(x, r, p, l, v, y, d, a, f, k)
  <2>1. Carries(x, r, p, l, wire[r][p][l], h.w[r][p][l], h.d[r][Toward(r, p)][l], h.p[r][Toward(r, p)],
                h.f[p][Other(Toward(r, p))], h.k[r][Other(Toward(r, p))])
    BY <1>1, Zenon DEF Wired
  <2> QED
    BY <1>2, <1>3, <1>4, <1>7, <2>1
<1>9. /\ y # <<>> /\ y[1] \in Nat
      /\ ChunkWrite(r, p, v[1], y[1], d, a) \/ CreditWrite(r, p, l, v[1], y[1], f, k)
      /\ ChunkWrite(r, p, v[1], y[1], d, a) =>
            y[1] = d /\ Carries(x, r, p, l, Tail(v), Tail(y), d + 1, a, f, k)
      /\ CreditWrite(r, p, l, v[1], y[1], f, k) => Carries(x, r, p, l, Tail(v), Tail(y), d, a, y[1], k)
  <2>1. x.room \in Nat
    BY SessionIs
  <2> QED
    BY <1>5, <1>8, <2>1, CarriesTail, Zenon
<1>10. PICK V \in Seq(WriteOf), Y \in Seq(Nat) : V = Tail(v) /\ Y = Tail(y)
  <2>1. Tail(v) \in Seq(WriteOf) /\ Tail(y) \in Seq(Nat)
    BY <1>5, <1>9, RestIs, Zenon
  <2> QED
    BY <2>1
<1>11. CASE ChunkWrite(r, p, v[1], y[1], d, a)
  <2>1. /\ v[1].kind = "chunk" /\ v[1].stream = s /\ v[1].word = Wrap(d) /\ d < a
        /\ Carries(x, r, p, l, V, Y, d + 1, a, f, k)
    BY <1>2, <1>9, <1>10, <1>11 DEF ChunkWrite
  <2>2. Wrap(d) % Slots = d % Slots /\ Plus(Wrap(d), 1) = Wrap(d + 1)
    <3>1. d \in Int /\ 1 \in Int
      OBVIOUS
    <3> QED
      BY <3>1, PlaceOfWord, Wraps, Zenon
  <2>3. done[r][s][l] = Wrap(d)
    BY <1>1, <1>6, <1>7 DEF Counted
  <2>4. PICK e : SourceOf(r, s, l, d, e)
    BY DEF SourceOf
  <2>5. WritesChunk(r, p, s, l, d % Slots, e, Wrap(d + 1))
    <3>1. recv' = [recv EXCEPT ![p][s][d % Slots][l] = e]
      BY <1>5, <2>1, <2>2, <2>4, ZenonT(60) DEF SourceOf
    <3>2. flag' = [flag EXCEPT ![p][s][d % Slots][l] = Wrap(d + 1)]
      BY <1>5, <2>1, <2>2
    <3>3. done' = [done EXCEPT ![r][s][l] = Wrap(d + 1)]
      BY <1>5, <2>1, <2>2, <2>3
    <3> QED
      BY <3>1, <3>2, <3>3 DEF WritesChunk
  <2>6. /\ wire' = [wire EXCEPT ![r][p][l] = V] /\ credit' = credit
        /\ UNCHANGED <<session, send, ready, finished, sent, doorbell, params, last, known, ops, post, consumed, credited,
                       failed, kernel>>
    BY <1>5, <1>10, <2>1
  <2>7. NextOf(h, r, s, l, d) /\ Carries(x, r, p, l, V, Y, d + 1, h.p[r][s], h.f[p][o], h.k[r][o])
    BY <1>7, <2>1 DEF NextOf
  <2> QED
    BY <1>2, <1>6, <2>4, <2>5, <2>6, <2>7, ChunkKeeps
<1>12. CASE CreditWrite(r, p, l, v[1], y[1], f, k)
  <2>1. PICK e \in Nat : e = y[1]
    BY <1>9
  <2>2. /\ v[1].kind = "credit" /\ v[1].stream = o /\ v[1].word = Wrap(e) /\ l = 1 /\ f <= e /\ e <= k
        /\ Carries(x, r, p, l, V, Y, d, a, e, k)
    BY <1>2, <1>9, <1>10, <1>12, <2>1 DEF CreditWrite
  <2>3. /\ credit' = [credit EXCEPT ![p][o] = Wrap(e)] /\ wire' = [wire EXCEPT ![r][p][l] = V]
        /\ UNCHANGED <<session, recv, flag, send, ready, finished, sent, doorbell, params, proxy, kernel>>
    BY <1>5, <1>10, <2>2 DEF proxy
  <2>4. Carries(x, r, p, l, V, Y, h.d[r][s][l], h.p[r][s], e, h.k[r][o]) /\ h.f[p][o] <= e /\ e <= h.k[r][o] /\ l = 1
    BY <1>7, <2>2
  <2> QED
    BY <1>2, <1>6, <2>3, <2>4, CreditKeeps
<1> QED
  BY <1>9, <1>11, <1>12

-----------------------------------------------------------------------------
(* The invariant and what follows from it.                                 *)

\* A step that changes nothing.
LEMMA StutterKeeps ==
    ASSUME NEW x \in Sessions, NEW h \in Counters(x), Body(x, h), UNCHANGED vars
    PROVE  Body(x, h)'
<1>1. /\ Typed(x) /\ Counted(x, h) /\ Begins(x, h) /\ Used(x, h) /\ Ordered(x, h) /\ Along(x, h)
      /\ Wired(x, h) /\ Flagged(x, h) /\ Marked(x, h) /\ Valued(x, h)
  BY DEF Body
<1>2. /\ recv' = recv /\ flag' = flag /\ send' = send /\ ready' = ready /\ finished' = finished /\ sent' = sent
      /\ credit' = credit /\ doorbell' = doorbell /\ params' = params /\ last' = last /\ known' = known /\ ops' = ops
      /\ post' = post /\ done' = done /\ consumed' = consumed /\ credited' = credited /\ failed' = failed
      /\ wire' = wire /\ op' = op /\ base' = base /\ running' = running /\ at' = at /\ out' = out /\ poison' = poison
      /\ error' = error
  BY DEF vars, area, proxy, kernel
<1>3. Typed(x)'
  BY <1>1, <1>2, Zenon DEF Typed
<1>4. Counted(x, h)' /\ Begins(x, h)' /\ Used(x, h)'
  BY <1>1, <1>2, CountedSame, BeginsSame, UsedSame
<1>5. Ordered(x, h)' /\ Along(x, h)'
  BY <1>1 DEF Ordered, OutOrder, InOrder, SendOrder, Along
<1>6. Wired(x, h)'
  BY <1>1, <1>2, WiredSame
<1>7. Flagged(x, h)' /\ Marked(x, h)'
  BY <1>1, <1>2, FlaggedSame, MarkedSame
<1>8. Valued(x, h)'
  BY <1>1, <1>2, ValuedSame
<1> QED
  BY <1>3, <1>4, <1>5, <1>6, <1>7, <1>8 DEF Body

\* A block whose wait timed out, or that leaves a poisoned session.
LEMMA WaitEnds ==
    ASSUME NEW x \in Sessions, session = x, NEW h \in Counters(x), Body(x, h), NEW r \in RanksOf(x), NEW s \in Streams,
           NEW b \in BlocksOf(x), Timeout(r, s, b) \/ Abandon(r, s, b)
    PROVE  Body(x, h)'
<1>1. Typed(x)
  BY Zenon DEF Body
<1>2. CASE Timeout(r, s, b)
  <2>1. base[r] \in Word /\ at[r][s][b] \in Nat
    BY <1>1 DEF Typed
  <2>2. PICK v : v = Plus(Global(r, s, b), 1)
    OBVIOUS
  <2>3. v \in Word
    <3>1. PICK a \in Int : a = Global(r, s, b) + 1
      BY <2>1, Sizes DEF Global, Plus, Word
    <3>2. Wrap(a) \in Word
      BY <3>1, Wraps, Zenon
    <3> QED
      BY <2>2, <3>1, <3>2 DEF Plus, Wrap
  <2>4. /\ running[r] /\ at' = [at EXCEPT ![r][s][b] = Chunks(r)] /\ poison' = [poison EXCEPT ![r] = TRUE]
        /\ error' = [error EXCEPT ![r] = v] /\ UNCHANGED <<session, area, proxy, wire, op, base, running, out>>
    BY <1>2, <2>2 DEF Timeout, Working
  <2> QED
    BY <2>3, <2>4, LeavingKeeps
<1>3. CASE Abandon(r, s, b)
  <2>1. error \in [RanksOf(x) -> Word] /\ poison \in [RanksOf(x) -> BOOLEAN]
    BY <1>1 DEF Typed
  <2>2. /\ running[r] /\ poison[r] /\ at' = [at EXCEPT ![r][s][b] = Chunks(r)] /\ poison' = poison /\ error' = error
        /\ UNCHANGED <<session, area, proxy, wire, op, base, running, out>>
    BY <1>3 DEF Abandon, Working
  <2>3. error[r] \in Word /\ poison' = [poison EXCEPT ![r] = TRUE] /\ error' = [error EXCEPT ![r] = error[r]]
    BY <2>1, <2>2
  <2> QED
    BY <2>2, <2>3, LeavingKeeps
<1> QED
  BY <1>2, <1>3

\* Every step keeps the invariant.
LEMMA Stays ==
    ASSUME Aligned, Inv, [Next]_vars
    PROVE  Inv'
<1>1. PICK x \in Sessions : session = x /\ \E h \in Counters(x) : Body(x, h)
  BY DEF Inv
<1>2. PICK h \in Counters(x) : Body(x, h)
  BY <1>1
<1>3. Ranks = RanksOf(x) /\ Lane = LanesOf(x) /\ Block = BlocksOf(x)
  BY <1>1, NamesOf
<1>4. CASE UNCHANGED vars
  <2>1. Body(x, h)' /\ session' = x
    BY <1>1, <1>2, <1>4, StutterKeeps DEF vars
  <2> QED
    BY <1>2, <2>1 DEF Inv
<1>5. ASSUME NEW r \in RanksOf(x), Launch(r)
      PROVE  Inv'
  <2>1. \E j \in Counters(x) : Body(x, j)'
    BY <1>1, <1>2, <1>5, LaunchKeeps
  <2>2. session' = x
    BY <1>1, <1>5 DEF Launch
  <2> QED
    BY <2>1, <2>2 DEF Inv
<1>6. ASSUME NEW r \in RanksOf(x), Finish(r)
      PROVE  Inv'
  <2>1. Body(x, h)'
    BY <1>1, <1>2, <1>6, FinishKeeps
  <2>2. session' = x
    BY <1>1, <1>6 DEF Finish
  <2> QED
    BY <1>2, <2>1, <2>2 DEF Inv
<1>7. ASSUME NEW r \in RanksOf(x), Service(r)
      PROVE  Inv'
  <2>1. \E j \in Counters(x) : Body(x, j)'
    BY <1>1, <1>2, <1>7, ServiceKeeps
  <2>2. session' = x
    BY <1>1, <1>7 DEF Service, Fail
  <2> QED
    BY <2>1, <2>2 DEF Inv
<1>8. ASSUME NEW r \in RanksOf(x), NEW b \in BlocksOf(x), Reduce(r, b)
      PROVE  Inv'
  <2>1. \E j \in Counters(x) : Body(x, j)'
    BY <1>1, <1>2, <1>8, ReduceKeeps
  <2>2. session' = x
    BY <1>1, <1>8 DEF Reduce
  <2> QED
    BY <2>1, <2>2 DEF Inv
<1>9. ASSUME NEW r \in RanksOf(x), NEW b \in BlocksOf(x), Copy(r, b)
      PROVE  Inv'
  <2>1. \E j \in Counters(x) : Body(x, j)'
    BY <1>1, <1>2, <1>9, CopyKeeps
  <2>2. session' = x
    BY <1>1, <1>9 DEF Copy
  <2> QED
    BY <2>1, <2>2 DEF Inv
<1>10. ASSUME NEW r \in RanksOf(x), NEW s \in Streams, NEW b \in BlocksOf(x), Timeout(r, s, b) \/ Abandon(r, s, b)
       PROVE  Inv'
  <2>1. Body(x, h)'
    BY <1>1, <1>2, <1>10, WaitEnds
  <2>2. session' = x
    BY <1>1, <1>10 DEF Timeout, Abandon
  <2> QED
    BY <1>2, <2>1, <2>2 DEF Inv
<1>11. ASSUME NEW r \in RanksOf(x), NEW p \in RanksOf(x), NEW l \in LanesOf(x), Deliver(r, p, l)
       PROVE  Inv'
  <2>1. \E j \in Counters(x) : Body(x, j)'
    BY <1>1, <1>2, <1>11, DeliverKeeps
  <2>2. session' = x
    BY <1>1, <1>11 DEF Deliver
  <2> QED
    BY <2>1, <2>2 DEF Inv
<1>12. CASE Next
  BY <1>3, <1>5, <1>6, <1>7, <1>8, <1>9, <1>10, <1>11, <1>12, Zenon DEF Next, Progress, Work
<1> QED
  BY <1>4, <1>12

(***************************************************************************)
(* The words stand for unbounded counters that keep their order.           *)
(***************************************************************************)
THEOREM ChainInvariant ==
    ASSUME Aligned
    PROVE  Spec => []Inv
<1>1. Init => Inv
  BY Initially
<1>2. Inv /\ [Next]_vars => Inv'
  BY Stays
<1> QED
  BY <1>1, <1>2, PTL DEF Spec

\* The invariant has TypeOK, ...
LEMMA GivesTypeOK == Inv => TypeOK
<1> SUFFICES ASSUME Inv PROVE TypeOK
  OBVIOUS
<1>1. PICK x \in Sessions : session = x /\ \E h \in Counters(x) : Body(x, h)
  BY DEF Inv
<1>2. PICK h \in Counters(x) : Body(x, h)
  BY <1>1
<1>3. Typed(x) /\ Wired(x, h)
  BY <1>2 DEF Body
<1>4. Ranks = RanksOf(x) /\ Lane = LanesOf(x) /\ Block = BlocksOf(x) /\ Room = x.room
  BY <1>1, NamesOf
<1>5. session \in Sessions
  BY <1>1
<1>6. \A r, p \in Ranks, l \in Lane : Len(wire[r][p][l]) <= Room
  BY <1>3, <1>4 DEF Wired, Carries
<1>7. \A r \in Ranks : running[r] => out[r] \in [0..Chunks(r) - 1 -> [Lane -> Seq(Nat)]]
  BY <1>1, <1>3, <1>4 DEF Typed, Chunks, Op
<1>8. op \in [Ranks -> 0..Len(session.ops)]
  BY <1>1, <1>3, <1>4 DEF Typed
<1> QED
  BY <1>3, <1>4, <1>5, <1>6, <1>7, <1>8 DEF TypeOK, Typed

\* ... Lockstep ...
LEMMA GivesLockstep == Inv => Lockstep
<1> SUFFICES ASSUME Inv PROVE Lockstep
  OBVIOUS
<1>1. PICK x \in Sessions : session = x /\ \E h \in Counters(x) : Body(x, h)
  BY DEF Inv
<1>2. PICK h \in Counters(x) : Body(x, h)
  BY <1>1
<1>3. Typed(x) /\ Begins(x, h) /\ Used(x, h) /\ Ordered(x, h) /\ Along(x, h)
  BY <1>2 DEF Body
<1>4. Ranks = RanksOf(x)
  BY <1>1, NamesOf
<1>5. Len(x.ops) \in Nat
  BY SessionIs
<1>6. ASSUME NEW q \in RanksOf(x)
      PROVE  /\ op[q] \in 0..Len(x.ops) /\ h.t[q] \in 0..Len(x.ops) /\ h.b[q] \in Nat /\ h.t[q] <= h.b[q]
             /\ h.b[q] <= Begun(q)
  <2>1. h.t[q] <= h.b[q] /\ h.b[q] <= Len(x.ops) /\ h.b[q] <= Begun(q)
    BY <1>3, Zenon DEF Begins
  <2>2. h.t[q] \in Nat /\ h.b[q] \in Nat
    BY <1>2, CounterTypes
  <2>3. op[q] \in 0..Len(x.ops)
    BY <1>3 DEF Typed
  <2>4. h.t[q] \in 0..Len(x.ops)
    BY <1>5, <2>1, <2>2
  <2> QED
    BY <2>1, <2>2, <2>3, <2>4
<1>7. ASSUME NEW r \in RanksOf(x), NEW q \in RanksOf(x), q # r, NEW n \in 0..Len(x.ops),
             \A s \in Streams : Works(x, r, s) => \A g \in Nat : g < Total(x)[n] => g \in h.u[r][s]
      PROVE  n <= Begun(q)
  <2>1. \A z \in RanksOf(x) : h.t[z] \in 0..Len(x.ops)
    BY <1>6
  <2>2. n <= h.t[q]
    BY <1>2, <1>3, <1>7, <2>1, Everywhere, Zenon
  <2>3. n \in Nat /\ Begun(q) \in Int
    BY <1>6 DEF Begun
  <2> QED
    BY <1>5, <1>6, <2>2, <2>3
<1>8. SUFFICES ASSUME NEW r \in RanksOf(x), NEW q \in RanksOf(x), ~poison[r]
               PROVE  Begun(q) >= op[r] + IF Arrived(r) THEN 1 ELSE 0
  BY <1>4 DEF Lockstep
<1>9. op[r] \in Nat
  BY <1>6
<1>10. CASE q = r
  <2>1. Arrived(r) => running[r]
    BY DEF Arrived
  <2> QED
    BY <1>9, <1>10, <2>1 DEF Begun
<1>11. CASE q # r /\ Arrived(r)
  <2>1. running[r]
    BY <1>11 DEF Arrived
  <2>2. op[r] + 1 \in 0..Len(x.ops)
    BY <1>3, <2>1, RunningOp
  <2>3. \A s \in Streams : Works(x, r, s) => \A g \in Nat : g < Total(x)[op[r] + 1] => g \in h.u[r][s]
    BY <1>1, <1>2, <1>3, <1>8, <1>11, ArrivedUses, Zenon
  <2>4. op[r] + 1 <= Begun(q)
    BY <1>7, <1>11, <2>2, <2>3, Zenon
  <2> QED
    BY <1>11, <2>4 DEF Begun
<1>12. CASE q # r /\ ~Arrived(r)
  <2>1. \A s \in Streams : Works(x, r, s) => \A g \in Nat : g < Total(x)[op[r]] => g \in h.u[r][s]
    <3>1. CASE running[r]
      <4>1. h.b[r] = op[r] + 1
        <5>1. h.b[r] = Begun(r)
          BY <1>3, <1>8, Zenon DEF Used
        <5> QED
          BY <3>1, <5>1 DEF Begun
      <4>2. op[r] + 1 \in 1..h.b[r] /\ (op[r] + 1) - 1 = op[r]
        BY <1>9, <4>1
      <4>3. \A s \in Streams : Works(x, r, s) =>
               \A n \in 1..h.b[r], g \in Nat : g < Total(x)[n - 1] => g \in h.u[r][s]
        BY <1>3, Zenon DEF Used
      <4>4. \A s \in Streams : Works(x, r, s) => \A g \in Nat : g < Total(x)[(op[r] + 1) - 1] => g \in h.u[r][s]
        BY <4>2, <4>3, Zenon
      <4> QED
        BY <4>2, <4>4
    <3>2. CASE ~running[r]
      BY <1>3, <1>8, <3>2, Zenon DEF Used
    <3> QED
      BY <3>1, <3>2
  <2>2. op[r] \in 0..Len(x.ops)
    BY <1>6
  <2>3. op[r] <= Begun(q)
    BY <1>7, <1>12, <2>1, <2>2, Zenon
  <2> QED
    BY <1>6, <1>9, <1>12, <2>3 DEF Begun
<1> QED
  BY <1>10, <1>11, <1>12

\* ... and ExactSums.
LEMMA GivesSums == Inv => ExactSums
<1> SUFFICES ASSUME Inv PROVE ExactSums
  OBVIOUS
<1>1. PICK x \in Sessions : session = x /\ \E h \in Counters(x) : Body(x, h)
  BY DEF Inv
<1>2. PICK h \in Counters(x) : Body(x, h)
  BY <1>1
<1>3. Typed(x) /\ Used(x, h) /\ Valued(x, h)
  BY <1>2 DEF Body
<1>4. Ranks = RanksOf(x) /\ Lane = LanesOf(x) /\ World = x.world
  BY <1>1, NamesOf
<1>5. SUFFICES ASSUME NEW r \in RanksOf(x), Arrived(r), ~poison[r], NEW c \in 0..Chunks(r) - 1, NEW l \in LanesOf(x)
               PROVE  out[r][c][l] = Value(Op(r), c, x.world)
  BY <1>4 DEF ExactSums
<1>6. running[r]
  BY <1>5 DEF Arrived
<1>7. PICK n \in 1..Len(x.ops) : n = op[r] + 1 /\ Op(r) = n /\ Chunks(r) = x.ops[n] /\ n - 1 = op[r]
  BY <1>1, <1>3, <1>6, RunningOp DEF Op, Chunks
<1>8. PICK g \in Nat : g = Total(x)[n - 1] + c /\ g < Total(x)[op[r] + 1]
  <2>1. Total(x)[op[r]] \in Nat /\ x.ops[n] \in Nat /\ Total(x)[op[r] + 1] = Total(x)[op[r]] + x.ops[n]
    BY <1>3, <1>6, <1>7, RunningOp
  <2>2. PICK i \in Nat, a \in Nat : i = x.ops[n] /\ Chunks(r) = i /\ a = Total(x)[op[r]]
    BY <1>7, <2>1
  <2>3. c \in 0..i - 1
    BY <2>2
  <2>4. a + c \in Nat /\ a + c < a + i
    BY <2>3
  <2> QED
    BY <1>7, <2>1, <2>2, <2>4
<1>9. g \in h.u[r][Stores(x, r)]
  <2>1. Stores(x, r) \in Streams /\ Works(x, r, Stores(x, r))
    <3>1. "partial" \in Streams
      BY DEF Streams
    <3> QED
      BY <3>1, Neighbours, Zenon
  <2> QED
    BY <1>1, <1>2, <1>3, <1>5, <1>8, <2>1, ArrivedUses, Zenon
<1>10. OutHolds(x, out[r], h.u[r][Stores(x, r)], n, c, l, g)
  <2>1. c \in 0..x.ops[n] - 1
    BY <1>7
  <2> QED
    BY <1>3, <1>5, <1>6, <1>7, <1>8, <2>1, Zenon DEF Valued
<1> QED
  BY <1>7, <1>9, <1>10, Zenon DEF OutHolds

(***************************************************************************)
(* Type correctness: the words stay words, every write in flight is of one *)
(* of the two kinds, and no more are in flight on a lane than the queue    *)
(* pair has room for.                                                      *)
(***************************************************************************)
THEOREM TypeCorrect ==
    ASSUME Aligned
    PROVE  Spec => []TypeOK
<1>1. Inv => TypeOK
  BY GivesTypeOK
<1> QED
  BY <1>1, ChainInvariant, PTL

(***************************************************************************)
(* The progress thread's checks of chain_take_ops and chain_service never  *)
(* fire, whatever the sizes of the ops.                                    *)
(***************************************************************************)
THEOREM ChecksStaySilent ==
    ASSUME Aligned
    PROVE  Spec => []ProxyNeverFails
<1>1. Inv => ProxyNeverFails
  <2> SUFFICES ASSUME Inv PROVE ProxyNeverFails
    OBVIOUS
  <2>1. PICK x \in Sessions : session = x /\ \E h \in Counters(x) : Body(x, h)
    BY DEF Inv
  <2>2. PICK h \in Counters(x) : Body(x, h)
    BY <2>1
  <2>3. \A r \in RanksOf(x) : ~failed[r]
    BY <2>2, Zenon DEF Body, Begins
  <2> QED
    BY <2>1, <2>3, NamesOf DEF ProxyNeverFails
<1> QED
  BY <1>1, ChainInvariant, PTL

(***************************************************************************)
(* A rank ends an op without a timeout only when every rank has launched   *)
(* that op, for any number of ranks, lanes and blocks.                     *)
(***************************************************************************)
THEOREM RanksStayInStep ==
    ASSUME Aligned
    PROVE  Spec => []Lockstep
<1>1. Inv => Lockstep
  BY GivesLockstep
<1> QED
  BY <1>1, ChainInvariant, PTL

(***************************************************************************)
(* What the kernel returns for an op without a timeout is the sum over all *)
(* ranks, on every rank and lane, however far the words have wrapped.      *)
(***************************************************************************)
THEOREM SumsAreExact ==
    ASSUME Aligned
    PROVE  Spec => []ExactSums
<1>1. Inv => ExactSums
  BY GivesSums
<1> QED
  BY <1>1, ChainInvariant, PTL
==============================================================================
