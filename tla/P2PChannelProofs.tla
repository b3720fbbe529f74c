--------------------------- MODULE P2PChannelProofs ---------------------------
(***************************************************************************)
(* Proofs about P2PChannel for any number of items, slots and packs, any   *)
(* limit in flight, any window, and wherever the words wrap.  The words    *)
(* are compared and indexed by the item they stand for (Index); the rest   *)
(* of the proof is about items.                                            *)
(***************************************************************************)
EXTENDS P2PChannel, FiniteSetTheorems, SequenceTheorems, TLAPS

\* The word of item a of the channel, counted from its first one; the words before it are those
\* that the slots hold at the beginning.
At(a) == Word(First + a)
Span == (1 - Slots)..N

\* The item that a word stands for.
Index(w) == CHOOSE a \in 0..N : At(a) = w
Counts(w) == \E a \in 0..N : w = At(a)

\* How far the progress threads are, in items.
Posted(l) == Index(laneItem[l])
Finished(l) == Index(laneDone[l])
Sent == Index(sent)
Seen == Index(creditSeen)
Credit == Index(credit)
Told == Index(credited)
Freed == Index(released)

\* The packs of an item on a lane.
Packs(i, l) == LaneSplit(SendHeader(i)[1], l)

\* The counters are words of items, in the order in which an item passes them.
LanesOrdered ==
    /\ Counts(sent)
    /\ \A l \in Lanes : /\ Counts(laneItem[l]) /\ Counts(laneDone[l])
                        /\ Sent <= Finished(l) /\ Finished(l) <= flags[l] /\ flags[l] <= Posted(l)

\* The words of the receiver's thread, and the credits on their way in their order.
CreditsOrdered ==
    /\ Counts(creditSeen) /\ Counts(credit) /\ Counts(credited) /\ Counts(released)
    /\ Seen <= Credit /\ Credit <= Told /\ Told <= Freed
    /\ \A k \in 1..Len(credits) : Counts(credits[k]) /\ Credit <= Index(credits[k]) /\ Index(credits[k]) <= Told
    /\ \A j, k \in 1..Len(credits) : j <= k => Index(credits[j]) <= Index(credits[k])

\* All counters.
Ordered == LanesOrdered /\ CreditsOrdered

\* What the send slots hold: an item that is not sent is not overwritten.
Staged ==
    /\ \A i \in Items : send[i] \in {"copy", "ready"} => i \in Used /\ i < Sent + Slots
    /\ \A i \in Items : send[i] = "ready" /\ Sent <= i =>
          sendSlot[SlotOf(i)] = i /\ desc[SlotOf(i)] = SendHeader(i)
    /\ \A m \in Places : \E a \in Span : ready[m] = At(a) /\ (a >= 1 => send[a - 1] = "ready")
    /\ \A l \in Lanes, i \in Items : i < Posted(l) => send[i] = "ready"

\* The cursor of a lane before the k-th write of its wire: the item, how many of its packs were
\* written and whether its header was.
ItemAt(l, k) == IF k <= Len(wire[l]) THEN Index(wire[l][k].item) ELSE Posted(l)
PacksAt(l, k) ==
    IF k > Len(wire[l]) THEN laneBytes[l]
    ELSE IF wire[l][k].kind = "data" THEN wire[l][k].piece - 1 ELSE Packs(ItemAt(l, k), l)
HeadedAt(k) == IF k <= Len(wire[0]) THEN wire[0][k].kind = "flag" ELSE laneHeader

\* The writes on a wire are the stripes of consecutive items: data, on lane 0 the header, flag.
Follows(l, k) ==
    LET w == wire[l][k]
        i == ItemAt(l, k)
    IN  /\ Counts(w.item) /\ i \in Used /\ send[i] = "ready" /\ i < Seen + Slots
        /\ w.kind = "data" => /\ w.piece \in 1..Packs(i, l)
                              /\ ItemAt(l, k + 1) = i /\ PacksAt(l, k + 1) = w.piece
                              /\ l = 0 => ~HeadedAt(k + 1)
        /\ w.kind = "header" => /\ l = 0 /\ w.value = SendHeader(i)
                                /\ ItemAt(l, k + 1) = i /\ PacksAt(l, k + 1) = Packs(i, l) /\ HeadedAt(k + 1)
        /\ w.kind = "flag" => /\ ItemAt(l, k + 1) = i + 1 /\ PacksAt(l, k + 1) = 0
                              /\ l = 0 => ~HeadedAt(k + 1)

\* The wire begins with the lane's first item that is not finished, what has landed ends with the flags
\* that did, items never go back, and an item that is partly posted is staged.
InOrder(l) ==
    /\ ItemAt(l, 1) = Finished(l) /\ ItemAt(l, landed[l] + 1) = flags[l]
    /\ \A k \in 1..Len(wire[l]) : Follows(l, k)
    /\ \A j, k \in 1..(Len(wire[l]) + 1) : j <= k => ItemAt(l, j) <= ItemAt(l, k)
    /\ laneBytes[l] > 0 \/ (l = 0 /\ laneHeader) =>
          Posted(l) \in Used /\ send[Posted(l)] = "ready" /\ laneBytes[l] <= Packs(Posted(l), l)
          /\ Posted(l) < Seen + Slots
    /\ l = 0 /\ laneHeader => laneBytes[0] = Packs(Posted(0), 0)

\* The cursor of a lane at its next write to land is the same after the step.
Holding(l) == /\ PacksAt(l, landed[l] + 1)' = PacksAt(l, landed[l] + 1)
              /\ l = 0 => HeadedAt(landed[0] + 1)' = HeadedAt(landed[0] + 1)

\* What the receive slots hold: the stripes of the items that arrived and are not released, and the
\* packs of the item that is arriving.
Holds(i, l, n) == n > 0 => recvSlot[SlotOf(i)][l] = [k \in 1..n |-> i]

\* A flag word is that of an item whose flag has landed.
Arriving(l) ==
    /\ \A i \in Items : Freed <= i /\ i < flags[l] =>
          Holds(i, l, Packs(i, l)) /\ (l = 0 => header[SlotOf(i)] = SendHeader(i))
    /\ Holds(flags[l], l, PacksAt(l, landed[l] + 1))
    /\ l = 0 /\ HeadedAt(landed[0] + 1) => header[SlotOf(flags[0])] = SendHeader(flags[0])
    /\ \A m \in Places : \E a \in Span : flag[m][l] = At(a) /\ a <= flags[l]

\* What the receive blocks have taken.
Received ==
    /\ \A i \in Items : i < Freed => recv[i] = "done"
    /\ \A i \in Items : recv[i] \in {"copy", "done", "size"} => i \in Used /\ Landed(i)
    /\ \A i \in Items : recv[i] \in {"copy", "done"} => SendHeader(i) = RecvHeader(i)
    /\ \A i \in Items : recv[i] = "size" => SendHeader(i) # RecvHeader(i)
    /\ \A m \in Places : \E a \in Span : consumed[m] = At(a) /\ (a >= 1 => recv[a - 1] = "done")
    /\ \A i \in Items, l \in Lanes :
          /\ recv[i] \notin {"copy", "done"} => out[i][l] = NotCopied
          /\ recv[i] = "done" => out[i][l] # NotCopied
          /\ out[i][l] # NotCopied => out[i][l] = [k \in 1..Packs(i, l) |-> i]

\* The inductive invariant.
Inv ==
    /\ TypeOK /\ WindowExact /\ Ordered /\ Staged /\ Received
    /\ \A l \in Lanes : InOrder(l) /\ Arriving(l)

-----------------------------------------------------------------------------
(* Arithmetic of words that wrap.                                          *)

\* Division with remainder.
LEMMA Division ==
    ASSUME NEW w \in Nat \ {0}, NEW n \in Int
    PROVE  \E q \in Int, r \in 0..(w - 1) : r = n % w /\ n = w * q + r
<1>1. n \div w \in Int /\ n % w \in 0..(w - 1) /\ n = w * (n \div w) + (n % w)
  BY Z3
<1> QED
  BY <1>1, Zenon

\* The only multiple of w within w of 0 is 0.
LEMMA Multiples ==
    ASSUME NEW w \in Nat \ {0}, NEW q \in Int, -w < w * q, w * q < w
    PROVE  q = 0
<1>1. q >= 1 => w * q >= w
  BY Z3
<1>2. q <= -1 => w * q <= -w
  BY Z3
<1> QED
  BY <1>1, <1>2

\* A remainder is the only number of its kind in 0..w-1.
LEMMA Remainder ==
    ASSUME NEW w \in Nat \ {0}, NEW n \in Int, NEW q \in Int, NEW r \in 0..(w - 1), n = w * q + r
    PROVE  n % w = r
<1>1. PICK p \in Int, t \in 0..(w - 1) : t = n % w /\ n = w * p + t
  BY Division, Zenon
<1>2. w * (p - q) = w * p - w * q /\ w * p \in Int /\ w * q \in Int
  BY Z3
<1>3. -w < w * (p - q) /\ w * (p - q) < w
  BY <1>1, <1>2
<1>4. p - q = 0
  BY <1>3, Multiples
<1> QED
  BY <1>1, <1>4

\* Adding multiples of w changes no remainder.
LEMMA Turns ==
    ASSUME NEW w \in Nat \ {0}, NEW m \in Int, NEW n \in Int, NEW q \in Int, m = n + w * q
    PROVE  m % w = n % w
<1>1. PICK p \in Int, r \in 0..(w - 1) : r = n % w /\ n = w * p + r
  BY Division, Zenon
<1>2. w * (p + q) = w * p + w * q /\ w * p \in Int /\ w * q \in Int /\ p + q \in Int
  BY Z3
<1>3. m = w * (p + q) + r
  BY <1>1, <1>2
<1>4. m % w = r
  BY <1>2, <1>3, Remainder, Zenon
<1> QED
  BY <1>1, <1>4

\* A remainder may be taken before or after an addition.
LEMMA Shift ==
    ASSUME NEW w \in Nat \ {0}, NEW n \in Int, NEW c \in Int
    PROVE  ((n % w) + c) % w = (n + c) % w
<1>1. PICK p \in Int, r \in 0..(w - 1) : r = n % w /\ n = w * p + r
  BY Division, Zenon
<1>2. w * (-p) = -(w * p) /\ w * p \in Int /\ -p \in Int /\ r + c \in Int /\ n + c \in Int
  BY Z3
<1>3. r + c = (n + c) + w * (-p)
  BY <1>1, <1>2
<1>4. (r + c) % w = (n + c) % w
  BY <1>2, <1>3, Turns, Zenon
<1> QED
  BY <1>1, <1>4

\* A remainder by a multiple of w determines the one by w.
LEMMA Nested ==
    ASSUME NEW w \in Nat \ {0}, NEW f \in Nat \ {0}, NEW v \in Nat \ {0}, v = w * f, NEW n \in Int
    PROVE  (n % v) % w = n % w
<1>1. PICK p \in Int, r \in 0..(v - 1) : r = n % v /\ n = v * p + r
  BY Division, Zenon
<1>2. w * (-(f * p)) = -((w * f) * p) /\ -(f * p) \in Int /\ (w * f) * p \in Int
  BY Z3
<1>3. r \in Int /\ r = n + w * (-(f * p))
  BY <1>1, <1>2
<1>4. r % w = n % w
  BY <1>2, <1>3, Turns, Zenon
<1> QED
  BY <1>1, <1>4

\* Two numbers of one remainder are equal or w apart.
LEMMA Congruent ==
    ASSUME NEW w \in Nat \ {0}, NEW m \in Int, NEW n \in Int, m % w = n % w, -w < m - n, m - n < w
    PROVE  m = n
<1>1. PICK p \in Int, r \in 0..(w - 1) : r = m % w /\ m = w * p + r
  BY Division, Zenon
<1>2. PICK q \in Int, t \in 0..(w - 1) : t = n % w /\ n = w * q + t
  BY Division, Zenon
<1>3. w * (p - q) = w * p - w * q /\ w * p \in Int /\ w * q \in Int
  BY Z3
<1>4. m = w * p + r /\ n = w * q + r
  BY <1>1, <1>2
<1>5. m - n = w * (p - q)
  BY <1>3, <1>4
<1>6. p - q = 0
  BY <1>5, Multiples
<1> QED
  BY <1>4, <1>6

-----------------------------------------------------------------------------
(* The words and the slots of items.                                       *)

\* The constants, as numbers.
LEMMA Sizes ==
    /\ N \in Nat \ {0} /\ Slots \in Nat \ {0} /\ Width \in Nat \ {0} /\ First \in Int
    /\ Width \div 2 \in Nat /\ Width = 2 * (Width \div 2) /\ 2 * Slots <= Width \div 2
    /\ N < (Width \div 2) + Slots
    /\ \E f \in Nat \ {0} : Width = Slots * f
<1>1. /\ N \in Nat \ {0} /\ Slots \in Nat \ {0} /\ Width \in Nat \ {0} /\ First \in Int
      /\ Width >= 4 * Slots /\ Width % (2 * Slots) = 0 /\ N < (Width \div 2) + Slots
      /\ 2 * Slots \in Nat \ {0}
  BY P2PAssumption
<1>2. PICK q \in Int, r \in 0..(2 * Slots - 1) : r = Width % (2 * Slots) /\ Width = (2 * Slots) * q + r
  <2>1. Width \in Int
    BY <1>1
  <2> QED
    BY <1>1, <2>1, Division, Zenon
<1>3. (2 * Slots) * q = 2 * (Slots * q) /\ (2 * Slots) * q = Slots * (2 * q) /\ Slots * q \in Int
  BY <1>1, Z3
<1>4. Width = 2 * (Slots * q) /\ Width = Slots * (2 * q)
  BY <1>1, <1>2, <1>3
<1>5. q >= 1
  <2>1. q <= 0 => Slots * q <= 0
    BY <1>1, Z3
  <2> QED
    BY <1>1, <1>3, <1>4, <2>1
<1>6. Width \div 2 = Slots * q
  BY <1>3, <1>4
<1> QED
  BY <1>1, <1>3, <1>4, <1>5, <1>6

\* Adding to a word, which wraps.
LEMMA Wraps ==
    ASSUME NEW a \in Int, NEW c \in Int
    PROVE  At(a) \in Words /\ Word(At(a) + c) = At(a + c) /\ At(a + Width) = At(a)
<1>1. /\ First + a \in Int /\ First + (a + c) = (First + a) + c /\ First + (a + Width) \in Int
      /\ First + (a + Width) = (First + a) + Width * 1 /\ Width \in Nat \ {0} /\ 1 \in Int
  BY Sizes
<1>2. (First + a) % Width \in 0..(Width - 1)
  BY <1>1, Division, Zenon
<1>3. (((First + a) % Width) + c) % Width = ((First + a) + c) % Width
  BY <1>1, Shift, Zenon
<1>4. (First + (a + Width)) % Width = (First + a) % Width
  BY <1>1, Turns, Zenon
<1> QED
  BY <1>1, <1>2, <1>3, <1>4 DEF At, Word, Words

\* Items of a session have words of their own.
LEMMA Distinct ==
    ASSUME NEW a \in Span, NEW b \in Span, At(a) = At(b)
    PROVE  a = b
<1>1. /\ a \in Int /\ b \in Int /\ First \in Int /\ First + a \in Int /\ First + b \in Int /\ Width \in Nat \ {0}
      /\ -Width < (First + a) - (First + b) /\ (First + a) - (First + b) < Width
  BY Sizes DEF Span
<1>2. First + a = First + b
  BY <1>1, Congruent, Zenon DEF At, Word
<1> QED
  BY <1>1, <1>2

\* The index of the word of an item is the item.
LEMMA Indices ==
    ASSUME NEW a \in 0..N
    PROVE  Index(At(a)) = a /\ Counts(At(a)) /\ a \in Span
<1>1. 0..N \subseteq Span
  BY Sizes DEF Span
<1>2. \A b \in 0..N : At(b) = At(a) => b = a
  BY <1>1, Distinct
<1> QED
  BY <1>1, <1>2 DEF Index, Counts

\* A word that counts is that of its index.
LEMMA Counted ==
    ASSUME NEW w, Counts(w)
    PROVE  Index(w) \in 0..N /\ At(Index(w)) = w /\ w \in Words /\ Index(w) \in Int
<1>1. PICK a \in 0..N : w = At(a)
  BY DEF Counts
<1>2. a \in Int /\ At(a) \in Words
  BY <1>1, Sizes, Wraps
<1> QED
  BY <1>1, <1>2, Indices

\* The next word is that of the next item.
LEMMA Advance ==
    ASSUME NEW w, Counts(w), Index(w) < N
    PROVE  /\ Counts(Word(w + 1)) /\ Index(Word(w + 1)) = Index(w) + 1
           /\ Word(w + 1) = At(Index(w) + 1) /\ Word(w + 1) \in Words
<1>1. Index(w) \in 0..N /\ At(Index(w)) = w /\ Index(w) + 1 \in 0..N
  BY Counted, Sizes
<1>2. Word(w + 1) = At(Index(w) + 1)
  BY <1>1, Wraps
<1> QED
  BY <1>1, <1>2, Indices, Wraps

\* Comparisons of words are those of the items, unless these are half the words apart.
LEMMA Compares ==
    ASSUME NEW a \in Int, NEW b \in Int, -(Width \div 2) <= a - b, a - b < Width \div 2
    PROVE  AtLeast(At(a), At(b)) <=> a >= b
<1>1. /\ Width \in Nat \ {0} /\ Width \div 2 \in Nat /\ Width = 2 * (Width \div 2) /\ First \in Int
      /\ First + b \in Int /\ At(a) \in Int /\ At(b) \in Int /\ a - b \in Int
  BY Sizes, Wraps DEF Words
<1>2. PICK q \in Int, r \in 0..(Width - 1) : r = At(b) /\ First + b = Width * q + r
  BY <1>1, Division, Zenon DEF At, Word
<1>3. Width * q \in Int /\ Width * (q + 1) = Width * q + Width /\ q + 1 \in Int
  BY <1>1, Z3
<1> DEFINE c == Width * (q + 1) - (First + b)
<1>4. c \in Int /\ At(a) - At(b) + Width = At(a) + c
  BY <1>1, <1>2, <1>3
<1>5. Word(At(a) - At(b) + Width) = At(a + c)
  BY <1>4, Wraps, Zenon
<1>6. First + (a + c) = (a - b) + Width * (q + 1) /\ First + (a + c) \in Int
  BY <1>1, <1>3
<1> HIDE DEF c
<1>7. At(a + c) = (a - b) % Width
  <2>1. (First + (a + c)) % Width = (a - b) % Width
    BY <1>1, <1>3, <1>6, Turns, Zenon
  <2> QED
    BY <2>1 DEF At, Word
<1>8. CASE a >= b
  <2>1. a - b = Width * 0 + (a - b) /\ a - b \in 0..(Width - 1) /\ 0 \in Int
    BY <1>1, <1>8
  <2>2. (a - b) % Width = a - b
    BY <1>1, <2>1, Remainder, Zenon
  <2> QED
    BY <1>1, <1>5, <1>7, <1>8, <2>2 DEF AtLeast
<1>9. CASE a < b
  <2>1. a - b = Width * (-1) + (a - b + Width) /\ a - b + Width \in 0..(Width - 1) /\ -1 \in Int
    BY <1>1, <1>9
  <2>2. (a - b) % Width = a - b + Width
    BY <1>1, <2>1, Remainder, Zenon
  <2> QED
    BY <1>1, <1>5, <1>7, <1>9, <2>2 DEF AtLeast
<1> QED
  BY <1>8, <1>9

\* The slots of items repeat after Slots items.
LEMMA SlotsOfItems ==
    ASSUME NEW a \in Int
    PROVE  Slot(At(a)) \in Places /\ Slot(At(a)) = (First + a) % Slots
<1>1. PICK f \in Nat \ {0} : Width = Slots * f
  BY Sizes
<1>2. Slots \in Nat \ {0} /\ Width \in Nat \ {0} /\ First + a \in Int
  BY Sizes
<1>3. ((First + a) % Width) % Slots = (First + a) % Slots
  BY <1>1, <1>2, Nested, Zenon
<1>4. (First + a) % Slots \in 0..(Slots - 1)
  BY <1>2, Division, Zenon
<1> QED
  BY <1>3, <1>4 DEF Slot, At, Word, Places

\* Items less than a round apart have different slots.
LEMMA SlotsApart ==
    ASSUME NEW a \in Int, NEW b \in Int, Slot(At(a)) = Slot(At(b)), -Slots < a - b, a - b < Slots
    PROVE  a = b
<1>1. /\ (First + a) % Slots = (First + b) % Slots /\ First + a \in Int /\ First + b \in Int /\ First \in Int
      /\ Slots \in Nat \ {0} /\ -Slots < (First + a) - (First + b) /\ (First + a) - (First + b) < Slots
  BY SlotsOfItems, Sizes
<1>2. First + a = First + b
  BY <1>1, Congruent, Zenon
<1> QED
  BY <1>1, <1>2

\* What the words of an item and of its slot are.
LEMMA ItemWords ==
    ASSUME NEW i \in Items
    PROVE  /\ i \in Int /\ i \in 0..N /\ i + 1 \in 0..N /\ i + 1 \in Span
           /\ Tag(i) = At(i + 1) /\ SlotOf(i) = Slot(At(i)) /\ SlotOf(i) \in Places
           /\ Word(Tag(i) - Slots + Width) = At(i + 1 - Slots)
<1>1. /\ i \in Int /\ i \in 0..N /\ i + 1 \in 0..N /\ i + 1 \in Span /\ i + 1 \in Int
      /\ Width - Slots \in Int /\ i + 1 - Slots \in Int /\ (i + 1) + (Width - Slots) = (i + 1 - Slots) + Width
      /\ First + i + 1 = First + (i + 1) /\ Slots \in Int /\ Width \in Int
  BY Sizes DEF Items, Span
<1>2. Tag(i) = At(i + 1)
  BY <1>1 DEF Tag, At
<1>3. At(i + 1) \in Int
  BY <1>1, Wraps DEF Words
<1>4. At(i + 1) - Slots + Width = At(i + 1) + (Width - Slots)
  BY <1>1, <1>3
<1>5. Word(At(i + 1) + (Width - Slots)) = At((i + 1) + (Width - Slots))
  BY <1>1, Wraps, Zenon
<1>6. At((i + 1 - Slots) + Width) = At(i + 1 - Slots)
  BY <1>1, Wraps, Zenon
<1> QED
  BY <1>1, <1>2, <1>4, <1>5, <1>6, SlotsOfItems DEF SlotOf, At

-----------------------------------------------------------------------------
(* Types.                                                                  *)

\* The lanes, and the packs of a stripe.
LEMMA TheLanes ==
    /\ 0 \in Lanes /\ Lanes \subseteq {0, 1} /\ IsFiniteSet(Lanes)
    /\ \A packs \in Nat, l \in Lanes : LaneSplit(packs, l) \in Nat
<1>1. Cardinality({0}) = 1 /\ IsFiniteSet({0})
  BY FS_Singleton
<1>2. {0, 1} = {0} \cup {1}
  OBVIOUS
<1>3. Cardinality({0, 1}) = 2 /\ IsFiniteSet({0, 1})
  BY <1>1, <1>2, FS_AddElement
<1>4. 0 \in Lanes /\ Lanes \subseteq {0, 1} /\ IsFiniteSet(Lanes) /\ Cardinality(Lanes) \in {1, 2}
  BY <1>1, <1>3, P2PAssumption
<1>5. ASSUME NEW packs \in Nat, NEW l \in Lanes PROVE LaneSplit(packs, l) \in Nat
  <2>1. packs \div 1 \in Nat /\ packs \div 2 \in Nat
    OBVIOUS
  <2> QED
    BY <1>4, <2>1 DEF LaneSplit
<1> QED
  BY <1>4, <1>5

\* The headers of a session's items.
LEMMA TheHeaders ==
    ASSUME session \in Sessions
    PROVE  /\ Used \subseteq Items /\ session.window \in Nat
           /\ \A i \in Used : SendHeader(i) \in Headers /\ RecvHeader(i) \in Headers
           /\ \A i \in Used, l \in Lanes : Packs(i, l) \in Nat /\ LaneSplit(RecvHeader(i)[1], l) \in Nat
<1>1. /\ session.sends \in Seq(Headers) /\ session.recvs \in Seq(Headers) /\ Len(session.sends) = Len(session.recvs)
      /\ Len(session.sends) <= N /\ session.window \in Nat /\ Len(session.sends) \in Nat
  BY P2PAssumption DEF Headers
<1>2. Used \subseteq Items
  BY <1>1, Sizes DEF Used, Items
<1>3. ASSUME NEW i \in Used PROVE SendHeader(i) \in Headers /\ RecvHeader(i) \in Headers
  <2>1. i + 1 \in 1..Len(session.sends) /\ i + 1 \in 1..Len(session.recvs)
    BY <1>1 DEF Used
  <2> QED
    BY <1>1, <2>1 DEF SendHeader, RecvHeader
<1>4. \A h \in Headers : h[1] \in Nat
  BY DEF Headers
<1> QED
  BY <1>1, <1>2, <1>3, <1>4, TheLanes DEF Packs

\* A word stays one.
LEMMA WordIsWord == ASSUME NEW n \in Int PROVE Word(n) \in Words
<1>1. Width \in Nat \ {0}
  BY Sizes
<1>2. n % Width \in 0..(Width - 1)
  BY <1>1, Division, Zenon
<1> QED
  BY <1>2 DEF Word, Words

\* The slot of a word.
LEMMA SlotIsPlace == ASSUME NEW w \in Words PROVE Slot(w) \in Places /\ w \in Int /\ w + 1 \in Int
<1>1. Slots \in Nat \ {0} /\ w \in Int
  BY Sizes DEF Words
<1>2. w % Slots \in 0..(Slots - 1)
  BY <1>1, Division, Zenon
<1> QED
  BY <1>1, <1>2 DEF Slot, Places

\* A write is posted at the end of its wire.
LEMMA Posting ==
    ASSUME TypeOK, NEW l \in Lanes, NEW w \in Writes, Room(l), Post(l, w)
    PROVE  /\ wire' \in [Lanes -> Seq(Writes)] /\ Len(wire'[l]) = Len(wire[l]) + 1 /\ Len(wire[l]) \in Nat
           /\ Len(wire'[l]) <= Inflight /\ wire'[l][Len(wire[l]) + 1] = w
           /\ \A k \in 1..Len(wire[l]) : wire'[l][k] = wire[l][k]
           /\ \A x \in Lanes \ {l} : wire'[x] = wire[x]
<1>1. wire \in [Lanes -> Seq(Writes)] /\ wire[l] \in Seq(Writes) /\ Len(wire[l]) < Inflight /\ Inflight \in Nat
  BY P2PAssumption DEF TypeOK, Room
<1>2. wire'[l] = Append(wire[l], w) /\ (\A x \in Lanes \ {l} : wire'[x] = wire[x])
      /\ wire' = [wire EXCEPT ![l] = Append(wire[l], w)]
  BY <1>1 DEF Post
<1>3. Append(wire[l], w) \in Seq(Writes) /\ Len(Append(wire[l], w)) = Len(wire[l]) + 1
  BY <1>1
<1>4. wire' \in [Lanes -> Seq(Writes)]
  BY <1>1, <1>2, <1>3
<1>5. Append(wire[l], w)[Len(wire[l]) + 1] = w /\ \A k \in 1..Len(wire[l]) : Append(wire[l], w)[k] = wire[l][k]
  BY <1>1
<1> QED
  BY <1>1, <1>2, <1>3, <1>4, <1>5

\* The writes that the progress thread posts.
LEMMA Written ==
    ASSUME TypeOK, NEW l \in Lanes
    PROVE  /\ Slot(laneItem[l]) \in Places /\ desc[Slot(laneItem[l])] \in Headers /\ Stripe(l) \in Nat
           /\ [kind |-> "data", item |-> laneItem[l], piece |-> laneBytes[l] + 1, proven |-> FALSE,
               value |-> desc[Slot(laneItem[l])]] \in Writes
           /\ [kind |-> "header", item |-> laneItem[l], piece |-> 0, proven |-> FALSE,
               value |-> desc[Slot(laneItem[l])]] \in Writes
           /\ [kind |-> "flag", item |-> laneItem[l], piece |-> 0, proven |-> FALSE, value |-> <<0, FALSE>>] \in Writes
<1>1. laneItem[l] \in Words /\ laneBytes[l] + 1 \in Nat /\ laneBytes[l] \in Nat /\ <<0, FALSE>> \in Headers
  <2>1. <<0, FALSE>> \in Headers
    BY DEF Headers
  <2> QED
    BY <2>1 DEF TypeOK
<1>2. Slot(laneItem[l]) \in Places
  BY <1>1, SlotIsPlace
<1>3. desc[Slot(laneItem[l])] \in Headers
  BY <1>2 DEF TypeOK
<1>4. desc[Slot(laneItem[l])][1] \in Nat
  BY <1>3 DEF Headers
<1>5. Stripe(l) \in Nat
  BY <1>4, TheLanes DEF Stripe
<1> QED
  BY <1>1, <1>2, <1>3, <1>5 DEF Writes

\* The oldest write leaves its wire.
LEMMA Completing ==
    ASSUME TypeOK, NEW l \in Lanes, Complete(l)
    PROVE  /\ wire' \in [Lanes -> Seq(Writes)] /\ Len(wire'[l]) = Len(wire[l]) - 1 /\ Len(wire[l]) \in Nat \ {0}
           /\ Head(wire[l]) = wire[l][1] /\ wire[l][1] \in Writes
           /\ \A k \in 1..(Len(wire[l]) - 1) : wire'[l][k] = wire[l][k + 1]
           /\ \A x \in Lanes \ {l} : wire'[x] = wire[x]
<1>1. /\ wire \in [Lanes -> Seq(Writes)] /\ wire[l] \in Seq(Writes) /\ Len(wire[l]) \in Nat \ {0}
  BY DEF TypeOK, Complete
<1>2. /\ wire' = [wire EXCEPT ![l] = Tail(wire[l])]
  BY <1>1 DEF Complete
<1>3. /\ Tail(wire[l]) \in Seq(Writes) /\ Len(Tail(wire[l])) = Len(wire[l]) - 1 /\ wire[l] # <<>>
      /\ Head(wire[l]) = wire[l][1] /\ wire[l][1] \in Writes
  BY <1>1
<1>4. \A k \in 1..(Len(wire[l]) - 1) : Tail(wire[l])[k] = wire[l][k + 1]
  BY <1>1
<1> QED
  BY <1>1, <1>2, <1>3, <1>4

\* A credit marks writes as proven and changes nothing else of them.
LEMMA Proving ==
    ASSUME TypeOK, ReadCredit
    PROVE  /\ wire' \in [Lanes -> Seq(Writes)]
           /\ \A l \in Lanes : /\ Len(wire'[l]) = Len(wire[l]) /\ Len(wire[l]) \in Nat
                               /\ DOMAIN wire'[l] = 1..Len(wire[l]) /\ DOMAIN wire[l] = 1..Len(wire[l])
           /\ \A l \in Lanes : \A k \in 1..Len(wire[l]) :
                 /\ wire'[l][k].kind = wire[l][k].kind /\ wire'[l][k].item = wire[l][k].item
                 /\ wire'[l][k].piece = wire[l][k].piece /\ wire'[l][k].value = wire[l][k].value
                 /\ wire'[l][k].proven = (wire[l][k].proven \/ k \in Unproven(l, credit))
<1> DEFINE new(l, k) == [wire[l][k] EXCEPT !.proven = @ \/ k \in Unproven(l, credit)]
<1>1. wire' = [l \in Lanes |-> [k \in DOMAIN wire[l] |-> new(l, k)]]
  BY DEF ReadCredit
<1>2. ASSUME NEW l \in Lanes
      PROVE  /\ wire[l] \in Seq(Writes) /\ Len(wire[l]) \in Nat /\ DOMAIN wire[l] = 1..Len(wire[l])
             /\ \A k \in 1..Len(wire[l]) : wire[l][k] \in Writes
  BY DEF TypeOK
<1>3. ASSUME NEW l \in Lanes, NEW k \in 1..Len(wire[l])
      PROVE  /\ new(l, k) \in Writes /\ new(l, k).kind = wire[l][k].kind /\ new(l, k).item = wire[l][k].item
             /\ new(l, k).piece = wire[l][k].piece /\ new(l, k).value = wire[l][k].value
             /\ new(l, k).proven = (wire[l][k].proven \/ k \in Unproven(l, credit))
  <2>1. wire[l][k] \in Writes
    BY <1>2
  <2>2. PICK b \in BOOLEAN : b = (wire[l][k].proven \/ k \in Unproven(l, credit))
    OBVIOUS
  <2>3. new(l, k) = [wire[l][k] EXCEPT !.proven = b]
    BY <2>1, <2>2 DEF Writes
  <2>4. /\ [wire[l][k] EXCEPT !.proven = b] \in Writes
        /\ [wire[l][k] EXCEPT !.proven = b].kind = wire[l][k].kind
           /\ [wire[l][k] EXCEPT !.proven = b].item = wire[l][k].item
        /\ [wire[l][k] EXCEPT !.proven = b].piece = wire[l][k].piece
           /\ [wire[l][k] EXCEPT !.proven = b].value = wire[l][k].value
        /\ [wire[l][k] EXCEPT !.proven = b].proven = b
    BY <2>1 DEF Writes
  <2> QED
    BY <2>2, <2>3, <2>4, Zenon
<1> HIDE DEF new
<1>4. ASSUME NEW l \in Lanes
      PROVE  /\ wire'[l] = [k \in 1..Len(wire[l]) |-> new(l, k)] /\ wire'[l] \in Seq(Writes)
             /\ Len(wire'[l]) = Len(wire[l]) /\ DOMAIN wire'[l] = 1..Len(wire[l])
  <2>1. wire'[l] = [k \in 1..Len(wire[l]) |-> new(l, k)]
    BY <1>1, <1>2
  <2> QED
    BY <1>2, <1>3, <2>1
<1>5. wire' \in [Lanes -> Seq(Writes)]
  <2>1. DOMAIN wire' = Lanes /\ wire' = [l \in Lanes |-> wire'[l]]
    BY <1>1
  <2> QED
    BY <1>4, <2>1
<1> QED
  BY <1>2, <1>3, <1>4, <1>5

\* The types of the wires.
WireTyped ==
    /\ wire \in [Lanes -> Seq(Writes)] /\ landed \in [Lanes -> Nat]
    /\ \A l \in Lanes : Len(wire[l]) <= Inflight /\ landed[l] <= Len(wire[l])

\* A post keeps the types of the wires.
LEMMA PostTyped ==
    ASSUME TypeOK, NEW l \in Lanes, NEW w \in Writes, Room(l), Post(l, w), UNCHANGED landed
    PROVE  WireTyped'
<1>1. /\ wire' \in [Lanes -> Seq(Writes)] /\ Len(wire'[l]) = Len(wire[l]) + 1 /\ Len(wire[l]) \in Nat
      /\ Len(wire'[l]) <= Inflight /\ \A x \in Lanes \ {l} : wire'[x] = wire[x]
  BY Posting
<1>2. /\ landed \in [Lanes -> Nat] /\ \A x \in Lanes : Len(wire[x]) <= Inflight /\ landed[x] <= Len(wire[x])
  BY DEF TypeOK
<1>3. landed'[l] <= Len(wire'[l])
  BY <1>1, <1>2
<1>4. \A x \in Lanes : Len(wire'[x]) <= Inflight /\ landed'[x] <= Len(wire'[x])
  BY <1>1, <1>2, <1>3
<1> QED
  BY <1>1, <1>2, <1>4 DEF WireTyped

\* The types of the wires, by actions.
LEMMA WireStep ==
    ASSUME TypeOK, [Next]_vars
    PROVE  WireTyped'
<1>0. WireTyped /\ \A x \in Lanes : Len(wire[x]) \in Nat
  BY DEF TypeOK, WireTyped
<1> USE <1>0 DEF WireTyped
<1>1. ASSUME NEW i \in Used, SendBegin(i) PROVE WireTyped'
  BY <1>1 DEF SendBegin, Thread, Wires, Memory, Receiver, Release, Control
<1>2. ASSUME NEW i \in Used, SendReady(i) PROVE WireTyped'
  BY <1>2 DEF SendReady, Thread, Wires, Memory, Receiver, Release, Control
<1>3. ASSUME NEW i \in Used, SendQuit(i) PROVE WireTyped'
  BY <1>3 DEF SendQuit, Thread, Wires, Memory, Receiver, Release
<1>4. ASSUME ReadCredit PROVE WireTyped'
  BY <1>4, Proving DEF ReadCredit
<1>5. ASSUME NEW l \in Lanes, PostData(l) PROVE WireTyped'
  <2>1. PICK w \in Writes : Room(l) /\ Post(l, w)
    BY <1>5, Written, Zenon DEF PostData
  <2>2. UNCHANGED landed
    BY <1>5 DEF PostData
  <2> QED
    BY <2>1, <2>2, PostTyped
<1>6. ASSUME PostHeader PROVE WireTyped'
  <2>1. PICK w \in Writes : Room(0) /\ Post(0, w)
    BY <1>6, Written, TheLanes, Zenon DEF PostHeader
  <2>2. UNCHANGED landed
    BY <1>6 DEF PostHeader
  <2> QED
    BY <2>1, <2>2, PostTyped, TheLanes
<1>7. ASSUME NEW l \in Lanes, PostFlag(l) PROVE WireTyped'
  <2>1. PICK w \in Writes : Room(l) /\ Post(l, w)
    BY <1>7, Written, Zenon DEF PostFlag
  <2>2. UNCHANGED landed
    BY <1>7 DEF PostFlag
  <2> QED
    BY <2>1, <2>2, PostTyped
<1>8. ASSUME NEW l \in Lanes, Complete(l) PROVE WireTyped'
  <2>1. /\ landed[l] \in Nat \ {0} /\ landed' = [landed EXCEPT ![l] = landed[l] - 1]
    BY <1>8 DEF Complete
  <2>2. /\ landed' \in [Lanes -> Nat] /\ landed'[l] = landed[l] - 1 /\ \A x \in Lanes \ {l} : landed'[x] = landed[x]
    BY <2>1
  <2>3. Inflight \in Nat
    BY P2PAssumption
  <2> QED
    BY <1>8, <2>1, <2>2, <2>3, Completing
<1>9. ASSUME StoreSent PROVE WireTyped'
  BY <1>9 DEF StoreSent, Sender, Wires, Memory, Receiver, Release, Control
<1>10. ASSUME NEW l \in Lanes, Land(l) PROVE WireTyped'
  BY <1>10 DEF Land, Sender, Thread, Receiver, Release, Control
<1>11. ASSUME LandCredit PROVE WireTyped'
  BY <1>11 DEF LandCredit, Sender, Thread, Memory, Receiver, Release, Control
<1>12. ASSUME NEW i \in Used, RecvBegin(i) PROVE WireTyped'
  BY <1>12 DEF RecvBegin, Sender, Thread, Wires, Memory, Release
<1>13. ASSUME NEW i \in Used, NEW l \in Lanes, RecvCopy(i, l) PROVE WireTyped'
  BY <1>13 DEF RecvCopy, Sender, Thread, Wires, Memory, Release, Control
<1>14. ASSUME NEW i \in Used, RecvDone(i) PROVE WireTyped'
  BY <1>14 DEF RecvDone, Sender, Thread, Wires, Memory, Release, Control
<1>15. ASSUME NEW i \in Used, RecvQuit(i) PROVE WireTyped'
  BY <1>15 DEF RecvQuit, Sender, Thread, Wires, Memory, Release
<1>16. ASSUME ReleaseItem PROVE WireTyped'
  BY <1>16 DEF ReleaseItem, Sender, Thread, Wires, Memory, Receiver, Control
<1>17. ASSUME SendCredit PROVE WireTyped'
  BY <1>17 DEF SendCredit, Sender, Thread, Memory, Receiver, Control
<1>18. ASSUME NEW r \in Ranks, Notice(r) PROVE WireTyped'
  BY <1>18 DEF Notice, Sender, Thread, Wires, Memory, Receiver, Release, Stop
<1>19. ASSUME NEW r \in Ranks, NEW l \in Lanes, WriteFails(r, l) PROVE WireTyped'
  BY <1>19 DEF WriteFails, Sender, Thread, Memory, Receiver, Release, Stop
<1>20. CASE UNCHANGED vars
  BY <1>20 DEF vars, Sender, Thread, Wires, Memory, Receiver, Release, Control
<1> QED
  BY <1>1, <1>2, <1>3, <1>4, <1>5, <1>6, <1>7, <1>8, <1>9, <1>10, <1>11, <1>12, <1>13,
     <1>14, <1>15, <1>16, <1>17, <1>18, <1>19, <1>20
     DEF Next, Processes, SendKernel, RecvKernel, SendThread, RecvThread, Network, Ranks

\* The other types, by actions.
RestTyped ==
    /\ session \in Sessions
    /\ send \in [Items -> {"none", "wait", "copy", "ready", "quit"}]
    /\ recv \in [Items -> {"none", "wait", "copy", "done", "size", "quit"}]
    /\ sendSlot \in [Places -> Items \cup {Nothing, Torn}]
    /\ desc \in [Places -> Headers] /\ header \in [Places -> Headers]
    /\ ready \in [Places -> Words] /\ consumed \in [Places -> Words]
    /\ {sent, credit, creditSeen, released, credited} \subseteq Words
    /\ laneItem \in [Lanes -> Words] /\ laneDone \in [Lanes -> Words]
    /\ laneBytes \in [Lanes -> Nat] /\ laneHeader \in BOOLEAN /\ flags \in [Lanes -> Nat]
    /\ credits \in Seq(Words) /\ Len(credits) <= Inflight
    /\ recvSlot \in [Places -> [Lanes -> Seq(Int)]] /\ flag \in [Places -> [Lanes -> Words]]
    /\ out \in [Items -> [Lanes -> Seq(Int)]]
    /\ poison \in [Ranks -> BOOLEAN] /\ failed \in [Ranks -> BOOLEAN] /\ abort \in [Ranks -> BOOLEAN]
    /\ broken \in SUBSET Lanes

\* A function on 1..n is a sequence.
LEMMA FunctionSeq ==
    ASSUME NEW S, NEW n \in Nat, NEW f \in [1..n -> S]
    PROVE  f \in Seq(S)
<1>1. [1..n -> S] \in {[1..k -> S] : k \in Nat}
  OBVIOUS
<1> QED
  BY <1>1, SeqDef, Zenon

\* A thread that stops keeps the types of the control words.
LEMMA StopTyped ==
    ASSUME TypeOK, NEW r \in Ranks, NEW down, Stop(r, down)
    PROVE  poison' \in [Ranks -> BOOLEAN] /\ failed' \in [Ranks -> BOOLEAN] /\ abort' \in [Ranks -> BOOLEAN]
<1>1. PICK b \in BOOLEAN : b = (abort[Other(r)] \/ 0 \notin down)
  OBVIOUS
<1>2. Other(r) \in Ranks
  BY DEF Other, Ranks
<1>3. abort' = [abort EXCEPT ![Other(r)] = b]
  BY <1>1, <1>2 DEF Stop, TypeOK
<1> QED
  BY <1>2, <1>3 DEF Stop, TypeOK

\* What a write that lands leaves in the receiver's memory.
LEMMA LandTyped ==
    ASSUME TypeOK, NEW l \in Lanes, Land(l)
    PROVE  /\ recvSlot' \in [Places -> [Lanes -> Seq(Int)]] /\ flag' \in [Places -> [Lanes -> Words]]
           /\ header' \in [Places -> Headers] /\ flags' \in [Lanes -> Nat]
<1> DEFINE write == wire[l][landed[l] + 1]
           m == Slot(write.item)
           stripe == IF write.piece = 1 THEN <<>> ELSE recvSlot[m][l]
<1>1. landed[l] \in Nat /\ wire[l] \in Seq(Writes) /\ landed[l] < Len(wire[l])
  BY DEF TypeOK, Land
<1>2. write \in Writes
  BY <1>1
<1>3. write.item \in Words /\ write.value \in Headers
  BY <1>2 DEF Writes
<1>4. m \in Places /\ write.item + 1 \in Int
  BY <1>3, SlotIsPlace
<1>5. Word(write.item + 1) \in Words
  BY <1>4, WordIsWord
<1>6. /\ recvSlot' = IF write.kind = "data" THEN [recvSlot EXCEPT ![m][l] = Append(stripe, sendSlot[m])] ELSE recvSlot
      /\ header' = IF write.kind = "header" THEN [header EXCEPT ![m] = write.value] ELSE header
      /\ flag' = IF write.kind = "flag" THEN [flag EXCEPT ![m][l] = Word(write.item + 1)] ELSE flag
      /\ flags' = IF write.kind = "flag" THEN [flags EXCEPT ![l] = @ + 1] ELSE flags
  BY DEF Land
<1> HIDE DEF write, m
<1>7. stripe \in Seq(Int) /\ sendSlot[m] \in Int
  <2>1. Items \cup {Nothing, Torn} \subseteq Int
    BY Sizes DEF Items, Nothing, Torn
  <2>2. sendSlot[m] \in Items \cup {Nothing, Torn} /\ recvSlot[m][l] \in Seq(Int)
    BY <1>4 DEF TypeOK
  <2>3. <<>> \in Seq(Int)
    OBVIOUS
  <2> QED
    BY <2>1, <2>2, <2>3
<1>8. Append(stripe, sendSlot[m]) \in Seq(Int)
  BY <1>7
<1> HIDE DEF stripe
<1>9. recvSlot' \in [Places -> [Lanes -> Seq(Int)]]
  BY <1>4, <1>6, <1>8 DEF TypeOK
<1>10. flag' \in [Places -> [Lanes -> Words]]
  BY <1>4, <1>5, <1>6 DEF TypeOK
<1>11. header' \in [Places -> Headers] /\ flags' \in [Lanes -> Nat]
  BY <1>3, <1>4, <1>6 DEF TypeOK
<1> QED
  BY <1>9, <1>10, <1>11

\* The counters of a lane, as numbers; all of them lie within a round of slots of the sent word.
LEMMA Counters ==
    ASSUME TypeOK, Ordered, Staged, NEW l \in Lanes
    PROVE  /\ Posted(l) \in 0..N /\ Finished(l) \in 0..N /\ Sent \in 0..N /\ flags[l] \in Nat
           /\ laneItem[l] = At(Posted(l)) /\ laneDone[l] = At(Finished(l)) /\ sent = At(Sent)
           /\ Sent <= Finished(l) /\ Finished(l) <= flags[l] /\ flags[l] <= Posted(l) /\ Posted(l) <= Sent + Slots
<1>1. /\ Posted(l) \in 0..N /\ Finished(l) \in 0..N /\ Sent \in 0..N
      /\ laneItem[l] = At(Posted(l)) /\ laneDone[l] = At(Finished(l)) /\ sent = At(Sent)
  BY Counted DEF Ordered, LanesOrdered, Posted, Finished, Sent
<1>2. /\ flags[l] \in Nat /\ Sent <= Finished(l) /\ Finished(l) <= flags[l] /\ flags[l] <= Posted(l)
  BY DEF Ordered, LanesOrdered, TypeOK
<1>3. Posted(l) <= Sent + Slots
  <2>1. CASE Posted(l) = 0
    BY <1>1, <2>1, Sizes
  <2>2. CASE Posted(l) # 0
    <3>1. Posted(l) - 1 \in Items /\ Posted(l) - 1 < Posted(l)
      BY <1>1, <2>2, Sizes DEF Items
    <3>2. send[Posted(l) - 1] = "ready"
      BY <3>1 DEF Staged
    <3>3. Posted(l) - 1 < Sent + Slots
      BY <3>1, <3>2 DEF Staged
    <3> QED
      BY <1>1, <3>3, Sizes
  <2> QED
    BY <2>1, <2>2
<1> QED
  BY <1>1, <1>2, <1>3

\* The least of the lanes' counters is that of the lane that is behind.
LEMMA LeastDone ==
    ASSUME TypeOK, Ordered, Staged
    PROVE  \E l \in Lanes : Least(laneDone) = laneDone[l] /\ \A x \in Lanes : Finished(l) <= Finished(x)
<1>1. \A x \in Lanes : /\ Finished(x) \in Int /\ laneDone[x] = At(Finished(x)) /\ Sent \in Int
                       /\ Sent <= Finished(x) /\ Finished(x) <= Sent + Slots
  BY Counters, Sizes
<1>2. ASSUME NEW x \in Lanes, NEW y \in Lanes
      PROVE  AtLeast(laneDone[x], laneDone[y]) <=> Finished(x) >= Finished(y)
  <2>1. /\ Finished(x) \in Int /\ Finished(y) \in Int
        /\ -(Width \div 2) <= Finished(x) - Finished(y) /\ Finished(x) - Finished(y) < Width \div 2
    BY <1>1, Sizes
  <2>2. AtLeast(At(Finished(x)), At(Finished(y))) <=> Finished(x) >= Finished(y)
    BY <2>1, Compares, Zenon
  <2> QED
    BY <1>1, <2>2
<1>3. PICK l \in Lanes : \A x \in Lanes : Finished(l) <= Finished(x)
  <2>1. CASE \A x \in Lanes : Finished(0) <= Finished(x)
    BY <2>1, TheLanes
  <2>2. CASE ~\A x \in Lanes : Finished(0) <= Finished(x)
    <3>1. PICK x \in Lanes : ~(Finished(0) <= Finished(x))
      BY <2>2
    <3>2. Finished(0) \in Int /\ Finished(x) \in Int /\ x = 1 /\ Lanes \subseteq {0, 1}
      BY <1>1, <3>1, TheLanes
    <3> QED
      BY <3>1, <3>2
  <2> QED
    BY <2>1, <2>2
<1>4. laneDone[l] \in {laneDone[x] : x \in Lanes} /\ \A x \in Lanes : AtLeast(laneDone[x], laneDone[l])
  BY <1>1, <1>2, <1>3
<1>5. Least(laneDone) \in {laneDone[x] : x \in Lanes} /\ \A x \in Lanes : AtLeast(laneDone[x], Least(laneDone))
  BY <1>4, Zenon DEF Least
<1>6. PICK y \in Lanes : Least(laneDone) = laneDone[y]
  BY <1>5
<1> QED
  BY <1>1, <1>2, <1>5, <1>6

\* The other types, by actions.
LEMMA RestStep ==
    ASSUME TypeOK, Ordered, Staged, [Next]_vars
    PROVE  RestTyped'
<1>0. RestTyped /\ Used \subseteq Items /\ \A i \in Used : SendHeader(i) \in Headers /\ SlotOf(i) \in Places
      /\ Tag(i) \in Words
  <2>1. RestTyped /\ Used \subseteq Items /\ \A i \in Used : SendHeader(i) \in Headers
    BY TheHeaders DEF TypeOK, RestTyped
  <2>2. \A i \in Items : SlotOf(i) \in Places /\ Tag(i) \in Words
    BY ItemWords, Wraps
  <2> QED
    BY <2>1, <2>2
<1>00. \A x \in Lanes : Word(laneItem[x] + 1) \in Words /\ Word(laneDone[x] + 1) \in Words
  <2>1. \A x \in Lanes : laneItem[x] \in Words /\ laneDone[x] \in Words
    BY DEF TypeOK
  <2> QED
    BY <2>1, SlotIsPlace, WordIsWord
<1> USE <1>0 DEF RestTyped
<1>1. ASSUME NEW i \in Used, SendBegin(i) PROVE RestTyped'
  BY <1>1 DEF SendBegin, Thread, Wires, Memory, Receiver, Release, Control
<1>2. ASSUME NEW i \in Used, SendReady(i) PROVE RestTyped'
  BY <1>2 DEF SendReady, Thread, Wires, Memory, Receiver, Release, Control
<1>3. ASSUME NEW i \in Used, SendQuit(i) PROVE RestTyped'
  BY <1>3 DEF SendQuit, Thread, Wires, Memory, Receiver, Release
<1>4. ASSUME ReadCredit PROVE RestTyped'
  BY <1>4 DEF ReadCredit, Sender, Memory, Receiver, Release, Control
<1>5. ASSUME NEW l \in Lanes, PostData(l) PROVE RestTyped'
  BY <1>5 DEF PostData, Sender, Memory, Receiver, Release, Control
<1>6. ASSUME PostHeader PROVE RestTyped'
  BY <1>6 DEF PostHeader, Sender, Memory, Receiver, Release, Control
<1>7. ASSUME NEW l \in Lanes, PostFlag(l) PROVE RestTyped'
  <2>1. laneHeader' \in BOOLEAN
    BY <1>7 DEF PostFlag
  <2>2. laneItem' \in [Lanes -> Words] /\ laneBytes' \in [Lanes -> Nat]
    BY <1>7, <1>00 DEF PostFlag
  <2> QED
    BY <1>7, <2>1, <2>2 DEF PostFlag, Sender, Memory, Receiver, Release, Control
<1>8. ASSUME NEW l \in Lanes, Complete(l) PROVE RestTyped'
  <2>1. laneDone' \in [Lanes -> Words]
    BY <1>8, <1>00 DEF Complete
  <2> QED
    BY <1>8, <2>1 DEF Complete, Sender, Memory, Receiver, Release, Control
<1>9. ASSUME StoreSent PROVE RestTyped'
  <2>1. Least(laneDone) \in Words
    BY LeastDone
  <2> QED
    BY <1>9, <2>1 DEF StoreSent, Sender, Wires, Memory, Receiver, Release, Control
<1>10. ASSUME NEW l \in Lanes, Land(l) PROVE RestTyped'
  BY <1>10, LandTyped DEF Land, Sender, Thread, Receiver, Release, Control
<1>11. ASSUME LandCredit PROVE RestTyped'
  <2>1. Head(credits) \in Words /\ Tail(credits) \in Seq(Words) /\ Len(Tail(credits)) <= Inflight
    <3>1. Len(credits) \in Nat \ {0} /\ Len(Tail(credits)) = Len(credits) - 1 /\ Inflight \in Nat
      BY <1>11, P2PAssumption DEF LandCredit
    <3> QED
      BY <1>11, <3>1 DEF LandCredit
  <2> QED
    BY <1>11, <2>1 DEF LandCredit, Sender, Thread, Memory, Receiver, Release, Control
<1>12. ASSUME NEW i \in Used, RecvBegin(i) PROVE RestTyped'
  BY <1>12 DEF RecvBegin, Sender, Thread, Wires, Memory, Release
<1>13. ASSUME NEW i \in Used, NEW l \in Lanes, RecvCopy(i, l) PROVE RestTyped'
  <2>1. LaneSplit(RecvHeader(i)[1], l) \in Nat /\ recvSlot[SlotOf(i)][l] \in Seq(Int) /\ i \in Items
        /\ Nothing \in Int
    BY TheHeaders DEF Nothing
  <2> DEFINE stripe == recvSlot[SlotOf(i)][l]
             copy == [k \in 1..LaneSplit(RecvHeader(i)[1], l) |-> IF k \in DOMAIN stripe THEN stripe[k] ELSE Nothing]
  <2>2. \A k \in DOMAIN stripe : stripe[k] \in Int
    BY <2>1
  <2>3. copy \in Seq(Int)
    <3> HIDE DEF stripe
    <3>1. copy \in [1..LaneSplit(RecvHeader(i)[1], l) -> Int]
      BY <2>1, <2>2
    <3> HIDE DEF copy
    <3> QED
      BY <2>1, <3>1, FunctionSeq
  <2>4. out' = [out EXCEPT ![i][l] = copy]
    BY <1>13 DEF RecvCopy
  <2> HIDE DEF copy
  <2>5. out' \in [Items -> [Lanes -> Seq(Int)]]
    BY <2>1, <2>3, <2>4
  <2> QED
    BY <1>13, <2>5 DEF RecvCopy, Sender, Thread, Wires, Memory, Release, Control
<1>14. ASSUME NEW i \in Used, RecvDone(i) PROVE RestTyped'
  BY <1>14 DEF RecvDone, Sender, Thread, Wires, Memory, Release, Control
<1>15. ASSUME NEW i \in Used, RecvQuit(i) PROVE RestTyped'
  BY <1>15 DEF RecvQuit, Sender, Thread, Wires, Memory, Release
<1>16. ASSUME ReleaseItem PROVE RestTyped'
  <2>1. Word(released + 1) \in Words
    BY SlotIsPlace, WordIsWord
  <2> QED
    BY <1>16, <2>1 DEF ReleaseItem, Sender, Thread, Wires, Memory, Receiver, Control
<1>17. ASSUME SendCredit PROVE RestTyped'
  <2>1. Append(credits, released) \in Seq(Words) /\ Len(Append(credits, released)) <= Inflight
    <3>1. released \in Words /\ Len(credits) \in Nat /\ Inflight \in Nat
      BY P2PAssumption
    <3> QED
      BY <1>17, <3>1 DEF SendCredit
  <2> QED
    BY <1>17, <2>1 DEF SendCredit, Sender, Thread, Memory, Receiver, Control
<1>18. ASSUME NEW r \in Ranks, Notice(r) PROVE RestTyped'
  BY <1>18, StopTyped DEF Notice, Sender, Thread, Wires, Memory, Receiver, Release
<1>19. ASSUME NEW r \in Ranks, NEW l \in Lanes, WriteFails(r, l) PROVE RestTyped'
  <2>1. poison' \in [Ranks -> BOOLEAN] /\ failed' \in [Ranks -> BOOLEAN] /\ abort' \in [Ranks -> BOOLEAN]
    BY <1>19, StopTyped DEF WriteFails
  <2> QED
    BY <1>19, <2>1 DEF WriteFails, Sender, Thread, Memory, Receiver, Release
<1>20. CASE UNCHANGED vars
  BY <1>20 DEF vars, Sender, Thread, Wires, Memory, Receiver, Release, Control
<1> QED
  BY <1>1, <1>2, <1>3, <1>4, <1>5, <1>6, <1>7, <1>8, <1>9, <1>10, <1>11, <1>12, <1>13,
     <1>14, <1>15, <1>16, <1>17, <1>18, <1>19, <1>20
     DEF Next, Processes, SendKernel, RecvKernel, SendThread, RecvThread, Network, Ranks

-----------------------------------------------------------------------------
(* The forward window.                                                     *)

\* The data writes that no credit has proved.
Unacked(l) == {k \in DOMAIN wire[l] : wire[l][k].kind = "data" /\ ~wire[l][k].proven}

\* The window: its type, and that it is exact.
Windowed ==
    /\ unacked \in [Lanes -> 0..session.window]
    /\ \A l \in Lanes : session.window > 0 => unacked[l] = Cardinality(Unacked(l))

\* They are finitely many.
LEMMA UnackedFinite ==
    ASSUME TypeOK, NEW l \in Lanes
    PROVE  IsFiniteSet(Unacked(l)) /\ Cardinality(Unacked(l)) \in Nat /\ Unacked(l) \subseteq 1..Len(wire[l])
           /\ DOMAIN wire[l] = 1..Len(wire[l]) /\ Len(wire[l]) \in Nat
<1>1. wire[l] \in Seq(Writes) /\ Len(wire[l]) \in Nat /\ DOMAIN wire[l] = 1..Len(wire[l])
  BY DEF TypeOK
<1>2. Unacked(l) \subseteq 1..Len(wire[l])
  BY <1>1 DEF Unacked
<1>3. IsFiniteSet(1..Len(wire[l]))
  BY <1>1, FS_Interval
<1>4. IsFiniteSet(Unacked(l))
  BY <1>2, <1>3, FS_Subset
<1> QED
  BY <1>1, <1>2, <1>4, FS_CardinalityType

\* What a step does to the window of its lane.
LEMMA WindowMoves ==
    ASSUME Windowed, UNCHANGED session, session.window \in Nat, NEW l \in Lanes,
           \A x \in Lanes \ {l} : unacked'[x] = unacked[x] /\ wire'[x] = wire[x],
           NEW n \in 0..session.window, unacked' = [unacked EXCEPT ![l] = n],
           session.window > 0 => n = Cardinality(Unacked(l)')
    PROVE  Windowed'
<1>1. unacked' \in [Lanes -> 0..session.window] /\ unacked'[l] = n
  BY DEF Windowed
<1>2. \A x \in Lanes \ {l} : Unacked(x)' = Unacked(x)
  BY DEF Unacked
<1> QED
  BY <1>1, <1>2 DEF Windowed

\* The open data writes stay the same when another write is posted, and one more is open when it is data.
LEMMA UnackedPosts ==
    ASSUME TypeOK, NEW l \in Lanes, NEW w \in Writes, Room(l), Post(l, w)
    PROVE  /\ w.kind # "data" => Unacked(l)' = Unacked(l)
           /\ w.kind = "data" /\ ~w.proven => Cardinality(Unacked(l)') = Cardinality(Unacked(l)) + 1
<1>1. /\ wire' \in [Lanes -> Seq(Writes)] /\ Len(wire'[l]) = Len(wire[l]) + 1 /\ Len(wire[l]) \in Nat
      /\ wire'[l][Len(wire[l]) + 1] = w /\ \A k \in 1..Len(wire[l]) : wire'[l][k] = wire[l][k]
  BY Posting
<1>2. DOMAIN wire'[l] = 1..(Len(wire[l]) + 1) /\ DOMAIN wire[l] = 1..Len(wire[l])
  BY <1>1, UnackedFinite
<1>3. w.kind # "data" => Unacked(l)' = Unacked(l)
  BY <1>1, <1>2 DEF Unacked
<1>4. w.kind = "data" /\ ~w.proven => Unacked(l)' = Unacked(l) \cup {Len(wire[l]) + 1}
  BY <1>1, <1>2 DEF Unacked
<1>5. Len(wire[l]) + 1 \notin Unacked(l) /\ IsFiniteSet(Unacked(l))
  BY <1>1, UnackedFinite
<1>6. Cardinality(Unacked(l) \cup {Len(wire[l]) + 1}) = Cardinality(Unacked(l)) + 1
  BY <1>5, FS_AddElement
<1> QED
  BY <1>3, <1>4, <1>6

\* One less is open when the oldest write completes, if that was open.
LEMMA UnackedCompletes ==
    ASSUME TypeOK, NEW l \in Lanes, Complete(l)
    PROVE  Cardinality(Unacked(l)') = IF GivenBack(Head(wire[l])) THEN Cardinality(Unacked(l)) - 1
                                      ELSE Cardinality(Unacked(l))
<1> DEFINE U == Unacked(l) \ {1}
           V == Unacked(l)'
           f == [k \in U |-> k - 1]
<1>1. /\ wire' \in [Lanes -> Seq(Writes)] /\ Len(wire'[l]) = Len(wire[l]) - 1 /\ Len(wire[l]) \in Nat \ {0}
      /\ Head(wire[l]) = wire[l][1] /\ \A k \in 1..(Len(wire[l]) - 1) : wire'[l][k] = wire[l][k + 1]
  BY Completing
<1>2. DOMAIN wire'[l] = 1..(Len(wire[l]) - 1) /\ DOMAIN wire[l] = 1..Len(wire[l])
  BY <1>1, UnackedFinite
<1>3. \A k \in 1..(Len(wire[l]) - 1) : k \in V <=> k + 1 \in U
  BY <1>1, <1>2 DEF Unacked
<1>4. U \subseteq 2..Len(wire[l]) /\ V \subseteq 1..(Len(wire[l]) - 1)
  BY <1>1, <1>2 DEF Unacked
<1> HIDE DEF U, V
<1>5. f \in [U -> V] /\ \A j, k \in U : f[j] = f[k] => j = k
  BY <1>1, <1>3, <1>4
<1>6. \A k \in V : k + 1 \in U /\ f[k + 1] = k
  BY <1>1, <1>3, <1>4
<1>7. f \in Injection(U, V)
  BY <1>5 DEF Injection, IsInjective
<1>8. f \in Surjection(U, V)
  BY <1>5, <1>6 DEF Surjection
<1>9. ExistsBijection(U, V)
  BY <1>7, <1>8 DEF ExistsBijection, Bijection
<1>10. /\ IsFiniteSet(U)
       /\ Cardinality(U) = IF 1 \in Unacked(l) THEN Cardinality(Unacked(l)) - 1 ELSE Cardinality(Unacked(l))
  BY UnackedFinite, FS_RemoveElement DEF U
<1>11. Cardinality(V) = Cardinality(U)
  BY <1>9, <1>10, FS_Bijection
<1>12. 1 \in Unacked(l) <=> GivenBack(Head(wire[l]))
  BY <1>1, <1>2 DEF Unacked, GivenBack
<1> QED
  BY <1>10, <1>11, <1>12 DEF V

\* A credit closes what it proves.
LEMMA UnackedProves ==
    ASSUME TypeOK, ReadCredit, NEW l \in Lanes
    PROVE  /\ Cardinality(Unacked(l)') = Cardinality(Unacked(l)) - Cardinality(Unproven(l, credit))
           /\ Cardinality(Unproven(l, credit)) \in 0..Cardinality(Unacked(l))
<1>1. /\ DOMAIN wire'[l] = 1..Len(wire[l]) /\ DOMAIN wire[l] = 1..Len(wire[l])
      /\ \A k \in 1..Len(wire[l]) : /\ wire'[l][k].kind = wire[l][k].kind
                                    /\ wire'[l][k].proven = (wire[l][k].proven \/ k \in Unproven(l, credit))
  BY Proving
<1>2. Unacked(l)' = Unacked(l) \ Unproven(l, credit)
  BY <1>1, Zenon DEF Unacked
<1>3. Unproven(l, credit) \subseteq Unacked(l)
  BY DEF Unproven, Unacked
<1>4. IsFiniteSet(Unacked(l)) /\ Cardinality(Unacked(l)) \in Nat
  BY UnackedFinite
<1>5. IsFiniteSet(Unproven(l, credit)) /\ Cardinality(Unproven(l, credit)) <= Cardinality(Unacked(l))
  BY <1>3, <1>4, FS_Subset
<1>6. Cardinality(Unproven(l, credit)) \in Nat
  BY <1>5, FS_CardinalityType
<1>7. Cardinality(Unacked(l) \ Unproven(l, credit))
        = Cardinality(Unacked(l)) - Cardinality(Unacked(l) \cap Unproven(l, credit))
  BY <1>4, <1>5, FS_Difference
<1>8. Unacked(l) \cap Unproven(l, credit) = Unproven(l, credit)
  BY <1>3
<1>9. Cardinality(Unacked(l)') = Cardinality(Unacked(l)) - Cardinality(Unproven(l, credit))
  BY <1>2, <1>7, <1>8
<1>10. Cardinality(Unproven(l, credit)) \in 0..Cardinality(Unacked(l))
  BY <1>4, <1>5, <1>6
<1> QED
  BY <1>9, <1>10

\* Types of the window and its exactness, by actions.
LEMMA WindowStep ==
    ASSUME TypeOK, Windowed, [Next]_vars
    PROVE  Windowed'
<1>0. session.window \in Nat /\ unacked \in [Lanes -> 0..session.window] /\ Windowed
  BY TheHeaders DEF TypeOK
<1>1. ASSUME NEW i \in Used, SendBegin(i) PROVE Windowed'
  BY <1>1, <1>0 DEF SendBegin, Thread, Wires, Memory, Receiver, Release, Control, Windowed, Unacked
<1>2. ASSUME NEW i \in Used, SendReady(i) PROVE Windowed'
  BY <1>2, <1>0 DEF SendReady, Thread, Wires, Memory, Receiver, Release, Control, Windowed, Unacked
<1>3. ASSUME NEW i \in Used, SendQuit(i) PROVE Windowed'
  BY <1>3, <1>0 DEF SendQuit, Thread, Wires, Memory, Receiver, Release, Windowed, Unacked
<1>4. ASSUME ReadCredit PROVE Windowed'
  <2>1. /\ unacked' = [l \in Lanes |-> IF session.window = 0 THEN 0
                                      ELSE unacked[l] - Cardinality(Unproven(l, credit))]
        /\ UNCHANGED session
    BY <1>4 DEF ReadCredit, Sender
  <2>2. CASE session.window = 0
    BY <1>0, <2>1, <2>2 DEF Windowed
  <2>3. CASE session.window # 0
    <3>1. ASSUME NEW l \in Lanes
          PROVE  unacked'[l] \in 0..session.window /\ unacked'[l] = Cardinality(Unacked(l)')
      <4>1. unacked[l] = Cardinality(Unacked(l)) /\ unacked[l] \in 0..session.window
        BY <1>0, <2>3 DEF Windowed
      <4>2. unacked'[l] = unacked[l] - Cardinality(Unproven(l, credit))
        BY <2>1, <2>3
      <4> QED
        BY <1>4, <1>0, <4>1, <4>2, UnackedProves
    <3>2. unacked' = [l \in Lanes |-> unacked'[l]]
      BY <2>1
    <3> QED
      BY <2>1, <3>1, <3>2 DEF Windowed
  <2> QED
    BY <2>2, <2>3
<1>5. ASSUME NEW l \in Lanes, PostData(l) PROVE Windowed'
  <2> DEFINE w == [kind |-> "data", item |-> laneItem[l], piece |-> laneBytes[l] + 1, proven |-> FALSE,
                   value |-> desc[Slot(laneItem[l])]]
             n == IF session.window = 0 THEN 0 ELSE unacked[l] + 1
  <2>1. w \in Writes /\ w.kind = "data" /\ ~w.proven
    BY Written
  <2>2. Room(l) /\ Post(l, w) /\ UNCHANGED session /\ (session.window = 0 \/ unacked[l] < session.window)
    BY <1>5 DEF PostData, Sender
  <2> HIDE DEF w
  <2>3. Cardinality(Unacked(l)') = Cardinality(Unacked(l)) + 1 /\ \A x \in Lanes \ {l} : wire'[x] = wire[x]
    BY <2>1, <2>2, UnackedPosts, Posting
  <2>4. n \in 0..session.window /\ (session.window > 0 => n = Cardinality(Unacked(l)'))
    BY <1>0, <2>2, <2>3 DEF Windowed
  <2>5. unacked' = [unacked EXCEPT ![l] = n]
    BY <1>5, <1>0 DEF PostData
  <2> HIDE DEF n
  <2>6. \A x \in Lanes \ {l} : unacked'[x] = unacked[x]
    BY <1>0, <2>5
  <2> QED
    BY <1>0, <2>2, <2>3, <2>4, <2>5, <2>6, WindowMoves
<1>6. ASSUME PostHeader PROVE Windowed'
  <2> DEFINE w == [kind |-> "header", item |-> laneItem[0], piece |-> 0, proven |-> FALSE,
                   value |-> desc[Slot(laneItem[0])]]
  <2>1. w \in Writes /\ w.kind # "data"
    BY Written, TheLanes
  <2>2. Room(0) /\ Post(0, w) /\ UNCHANGED <<session, unacked>>
    BY <1>6 DEF PostHeader, Sender
  <2> HIDE DEF w
  <2>3. Unacked(0)' = Unacked(0) /\ \A x \in Lanes \ {0} : wire'[x] = wire[x]
    BY <2>1, <2>2, UnackedPosts, Posting, TheLanes
  <2> QED
    BY <1>0, <2>2, <2>3 DEF Windowed, Unacked
<1>7. ASSUME NEW l \in Lanes, PostFlag(l) PROVE Windowed'
  <2> DEFINE w == [kind |-> "flag", item |-> laneItem[l], piece |-> 0, proven |-> FALSE, value |-> <<0, FALSE>>]
  <2>1. w \in Writes /\ w.kind # "data"
    BY Written
  <2>2. Room(l) /\ Post(l, w) /\ UNCHANGED <<session, unacked>>
    BY <1>7 DEF PostFlag, Sender
  <2> HIDE DEF w
  <2>3. Unacked(l)' = Unacked(l) /\ \A x \in Lanes \ {l} : wire'[x] = wire[x]
    BY <2>1, <2>2, UnackedPosts, Posting
  <2> QED
    BY <1>0, <2>2, <2>3 DEF Windowed, Unacked
<1>8. ASSUME NEW l \in Lanes, Complete(l) PROVE Windowed'
  <2> DEFINE n == IF session.window > 0 /\ GivenBack(Head(wire[l])) THEN unacked[l] - 1 ELSE unacked[l]
  <2>1. UNCHANGED session /\ unacked' = [unacked EXCEPT ![l] = n]
    BY <1>8, <1>0 DEF Complete, Sender
  <2>2. \A x \in Lanes \ {l} : unacked'[x] = unacked[x] /\ wire'[x] = wire[x]
    BY <1>8, <1>0, <2>1, Completing
  <2>3. n \in 0..session.window /\ (session.window > 0 => n = Cardinality(Unacked(l)'))
    <3>1. CASE session.window = 0
      BY <1>0, <3>1
    <3>2. CASE session.window > 0
      <4>1. unacked[l] = Cardinality(Unacked(l)) /\ unacked[l] \in 0..session.window
        BY <1>0, <3>2 DEF Windowed
      <4>2. n = Cardinality(Unacked(l)')
        BY <1>8, <3>2, <4>1, UnackedCompletes
      <4>3. Cardinality(Unacked(l)') \in Nat
        <5>1. WireTyped'
          BY <1>8, WireStep DEF Next, Processes, SendThread
        <5>2. wire'[l] \in Seq(Writes)
          BY <5>1 DEF WireTyped
        <5>3. Len(wire'[l]) \in Nat /\ Unacked(l)' \subseteq 1..Len(wire'[l])
          BY <5>2 DEF Unacked
        <5>4. IsFiniteSet(1..Len(wire'[l]))
          BY <5>3, FS_Interval
        <5> QED
          BY <5>3, <5>4, FS_Subset, FS_CardinalityType
      <4> QED
        BY <1>0, <4>1, <4>2, <4>3
    <3> QED
      BY <1>0, <3>1, <3>2
  <2> HIDE DEF n
  <2> QED
    BY <1>0, <2>1, <2>2, <2>3, WindowMoves
<1>9. ASSUME StoreSent PROVE Windowed'
  BY <1>9, <1>0 DEF StoreSent, Sender, Wires, Memory, Receiver, Release, Control, Windowed, Unacked
<1>10. ASSUME NEW l \in Lanes, Land(l) PROVE Windowed'
  BY <1>10, <1>0 DEF Land, Sender, Thread, Receiver, Release, Control, Windowed, Unacked
<1>11. ASSUME LandCredit PROVE Windowed'
  BY <1>11, <1>0 DEF LandCredit, Sender, Thread, Memory, Receiver, Release, Control, Windowed, Unacked
<1>12. ASSUME NEW i \in Used, RecvBegin(i) PROVE Windowed'
  BY <1>12, <1>0 DEF RecvBegin, Sender, Thread, Wires, Memory, Release, Windowed, Unacked
<1>13. ASSUME NEW i \in Used, NEW l \in Lanes, RecvCopy(i, l) PROVE Windowed'
  BY <1>13, <1>0 DEF RecvCopy, Sender, Thread, Wires, Memory, Release, Control, Windowed, Unacked
<1>14. ASSUME NEW i \in Used, RecvDone(i) PROVE Windowed'
  BY <1>14, <1>0 DEF RecvDone, Sender, Thread, Wires, Memory, Release, Control, Windowed, Unacked
<1>15. ASSUME NEW i \in Used, RecvQuit(i) PROVE Windowed'
  BY <1>15, <1>0 DEF RecvQuit, Sender, Thread, Wires, Memory, Release, Windowed, Unacked
<1>16. ASSUME ReleaseItem PROVE Windowed'
  BY <1>16, <1>0 DEF ReleaseItem, Sender, Thread, Wires, Memory, Receiver, Control, Windowed, Unacked
<1>17. ASSUME SendCredit PROVE Windowed'
  BY <1>17, <1>0 DEF SendCredit, Sender, Thread, Memory, Receiver, Control, Windowed, Unacked
<1>18. ASSUME NEW r \in Ranks, Notice(r) PROVE Windowed'
  BY <1>18, <1>0 DEF Notice, Sender, Thread, Wires, Memory, Receiver, Release, Stop, Windowed, Unacked
<1>19. ASSUME NEW r \in Ranks, NEW l \in Lanes, WriteFails(r, l) PROVE Windowed'
  BY <1>19, <1>0 DEF WriteFails, Sender, Thread, Memory, Receiver, Release, Stop, Windowed, Unacked
<1>20. CASE UNCHANGED vars
  BY <1>20, <1>0 DEF vars, Sender, Thread, Wires, Memory, Receiver, Release, Control, Windowed, Unacked
<1> QED
  BY <1>1, <1>2, <1>3, <1>4, <1>5, <1>6, <1>7, <1>8, <1>9, <1>10, <1>11, <1>12, <1>13,
     <1>14, <1>15, <1>16, <1>17, <1>18, <1>19, <1>20
     DEF Next, Processes, SendKernel, RecvKernel, SendThread, RecvThread, Network, Ranks

-----------------------------------------------------------------------------
(* The cursors of a lane.                                                  *)

\* A lane that posts and completes nothing keeps its cursors.
LEMMA CursorsStay ==
    ASSUME NEW l \in Lanes, UNCHANGED session, Len(wire[l]) \in Nat,
           Len(wire'[l]) = Len(wire[l]), laneItem'[l] = laneItem[l], laneBytes'[l] = laneBytes[l],
           l = 0 => laneHeader' = laneHeader,
           \A k \in 1..Len(wire[l]) : /\ wire'[l][k].kind = wire[l][k].kind /\ wire'[l][k].item = wire[l][k].item
                                      /\ wire'[l][k].piece = wire[l][k].piece
    PROVE  \A k \in 1..(Len(wire[l]) + 1) : /\ ItemAt(l, k)' = ItemAt(l, k) /\ PacksAt(l, k)' = PacksAt(l, k)
                                            /\ l = 0 => HeadedAt(k)' = HeadedAt(k)
<1> SUFFICES ASSUME NEW k \in 1..(Len(wire[l]) + 1)
             PROVE  /\ ItemAt(l, k)' = ItemAt(l, k) /\ PacksAt(l, k)' = PacksAt(l, k)
                    /\ l = 0 => HeadedAt(k)' = HeadedAt(k)
  OBVIOUS
<1>1. CASE k <= Len(wire[l])
  <2>1. k \in 1..Len(wire[l])
    BY <1>1
  <2>2. ItemAt(l, k)' = ItemAt(l, k)
    BY <1>1, <2>1 DEF ItemAt
  <2>3. PacksAt(l, k)' = PacksAt(l, k)
    BY <1>1, <2>1, <2>2 DEF PacksAt, Packs, SendHeader
  <2> QED
    BY <1>1, <2>1, <2>2, <2>3 DEF HeadedAt
<1>2. CASE ~(k <= Len(wire[l]))
  BY <1>2 DEF ItemAt, PacksAt, HeadedAt, Posted
<1> QED
  BY <1>1, <1>2

\* A write that is posted continues the lane's cursor.
LEMMA CursorPosts ==
    ASSUME TypeOK, UNCHANGED session, NEW l \in Lanes, NEW w \in Writes, Room(l), Post(l, w), w.item = laneItem[l],
           NEW n \in Nat, n = Len(wire[l]), laneBytes[l] = IF w.kind = "data" THEN w.piece - 1
           ELSE Packs(Posted(l), l),
           l = 0 => laneHeader = (w.kind = "flag")
    PROVE  /\ \A k \in 1..(n + 1) : /\ ItemAt(l, k)' = ItemAt(l, k) /\ PacksAt(l, k)' = PacksAt(l, k)
                                    /\ l = 0 => HeadedAt(k)' = HeadedAt(k)
           /\ ItemAt(l, n + 2)' = Posted(l)' /\ PacksAt(l, n + 2)' = laneBytes'[l]
           /\ l = 0 => HeadedAt(n + 2)' = laneHeader'
<1>1. /\ Len(wire'[l]) = n + 1 /\ n \in Nat /\ wire'[l][n + 1] = w /\ \A k \in 1..n : wire'[l][k] = wire[l][k]
  BY Posting
<1>2. ASSUME NEW k \in 1..n
      PROVE  /\ ItemAt(l, k)' = ItemAt(l, k) /\ PacksAt(l, k)' = PacksAt(l, k)
             /\ l = 0 => HeadedAt(k)' = HeadedAt(k)
  <2>1. k <= Len(wire[l]) /\ k <= Len(wire'[l]) /\ wire'[l][k] = wire[l][k]
    BY <1>1
  <2>2. ItemAt(l, k)' = ItemAt(l, k)
    BY <2>1 DEF ItemAt
  <2>3. PacksAt(l, k)' = PacksAt(l, k)
    <3>1. ~(k > Len(wire[l])) /\ ~(k > Len(wire'[l]))
      BY <1>1
    <3> QED
      BY <2>1, <2>2, <3>1 DEF PacksAt, Packs, SendHeader
  <2> QED
    BY <2>1, <2>2, <2>3 DEF HeadedAt
<1>3. /\ ItemAt(l, n + 1)' = ItemAt(l, n + 1) /\ PacksAt(l, n + 1)' = PacksAt(l, n + 1)
      /\ l = 0 => HeadedAt(n + 1)' = HeadedAt(n + 1)
  <2>1. ~(n + 1 <= Len(wire[l])) /\ n + 1 <= Len(wire'[l]) /\ ~(n + 1 > Len(wire'[l])) /\ wire'[l][n + 1] = w
    BY <1>1
  <2>2. ItemAt(l, n + 1)' = ItemAt(l, n + 1) /\ ItemAt(l, n + 1) = Posted(l) /\ PacksAt(l, n + 1) = laneBytes[l]
    BY <1>1, <2>1 DEF ItemAt, Posted, PacksAt
  <2>3. PacksAt(l, n + 1)' = IF w.kind = "data" THEN w.piece - 1 ELSE Packs(Posted(l), l)
    BY <2>1, <2>2 DEF PacksAt, Packs, SendHeader
  <2>4. l = 0 => HeadedAt(n + 1)' = HeadedAt(n + 1)
    BY <2>1 DEF HeadedAt
  <2> QED
    BY <2>2, <2>3, <2>4
<1>4. /\ ItemAt(l, n + 2)' = Posted(l)' /\ PacksAt(l, n + 2)' = laneBytes'[l]
      /\ l = 0 => HeadedAt(n + 2)' = laneHeader'
  <2>1. ~(n + 2 <= Len(wire'[l])) /\ n + 2 > Len(wire'[l])
    BY <1>1
  <2> QED
    BY <2>1 DEF ItemAt, PacksAt, HeadedAt
<1>5. \A k \in 1..(n + 1) : k \in 1..n \/ k = n + 1
  BY <1>1
<1> QED
  BY <1>2, <1>3, <1>4, <1>5

\* When the oldest write completes, the cursors move down by one.
LEMMA CursorCompletes ==
    ASSUME TypeOK, NEW l \in Lanes, Complete(l)
    PROVE  \A k \in 1..Len(wire[l]) : /\ ItemAt(l, k)' = ItemAt(l, k + 1) /\ PacksAt(l, k)' = PacksAt(l, k + 1)
                                      /\ l = 0 => HeadedAt(k)' = HeadedAt(k + 1)
<1> DEFINE n == Len(wire[l])
<1>1. /\ Len(wire'[l]) = n - 1 /\ n \in Nat \ {0} /\ \A k \in 1..(n - 1) : wire'[l][k] = wire[l][k + 1]
  BY Completing
<1>2. UNCHANGED <<session, laneItem, laneBytes, laneHeader>>
  BY DEF Complete, Sender
<1> HIDE DEF n
<1>3. ASSUME NEW k \in 1..n
      PROVE  /\ ItemAt(l, k)' = ItemAt(l, k + 1) /\ PacksAt(l, k)' = PacksAt(l, k + 1)
             /\ l = 0 => HeadedAt(k)' = HeadedAt(k + 1)
  <2>1. CASE k = n
    <3>1. /\ ~(k <= Len(wire'[l])) /\ k > Len(wire'[l]) /\ ~(k + 1 <= Len(wire[l])) /\ k + 1 > Len(wire[l])
      BY <1>1, <2>1 DEF n
    <3> QED
      BY <1>2, <3>1 DEF ItemAt, PacksAt, HeadedAt, Posted
  <2>2. CASE k # n
    <3>1. /\ k <= Len(wire'[l]) /\ ~(k > Len(wire'[l])) /\ k + 1 <= Len(wire[l]) /\ ~(k + 1 > Len(wire[l]))
          /\ wire'[l][k] = wire[l][k + 1]
      BY <1>1, <2>2 DEF n
    <3>2. ItemAt(l, k)' = ItemAt(l, k + 1)
      BY <3>1 DEF ItemAt
    <3> QED
      BY <1>2, <3>1, <3>2 DEF PacksAt, HeadedAt, Packs, SendHeader
  <2> QED
    BY <2>1, <2>2
<1> QED
  BY <1>3 DEF n

\* What MayPost finds: the lane's next item is staged, and the receiver has room for it.
LEMMA MayPostFinds ==
    ASSUME TypeOK, Ordered, Staged, NEW l \in Lanes, MayPost(l)
    PROVE  /\ Posted(l) \in Items /\ Posted(l) \in Used /\ send[Posted(l)] = "ready" /\ Posted(l) < Seen + Slots
           /\ Seen \in 0..N /\ Stripe(l) = Packs(Posted(l), l) /\ desc[Slot(laneItem[l])] = SendHeader(Posted(l))
<1> DEFINE p == Posted(l)
<1>1. p \in 0..N /\ p \in Int /\ laneItem[l] = At(p) /\ Sent <= p /\ Sent \in 0..N
  BY Counters, Sizes
<1>2. Seen \in 0..N /\ creditSeen = At(Seen)
  BY Counted DEF Ordered, CreditsOrdered, Seen
<1> HIDE DEF p
<1>3. Slot(laneItem[l]) \in Places /\ Word(laneItem[l] + 1) = At(p + 1)
  BY <1>1, SlotsOfItems, Wraps
<1>4. PICK a \in Span : ready[Slot(laneItem[l])] = At(a) /\ (a >= 1 => send[a - 1] = "ready")
  BY <1>3 DEF Staged
<1>5. p < N /\ send[p] = "ready"
  <2>1. At(a) = At(p + 1)
    BY <1>3, <1>4 DEF MayPost
  <2>2. p <= N - 1 => p + 1 \in Span
    BY <1>1, Sizes DEF Span
  <2>3. p <= N - 1 => a = p + 1
    BY <2>1, <2>2, Distinct
  <2>4. CASE p = N
    <3>1. a \in Int /\ 1 - Slots <= a /\ a <= N
      BY Sizes DEF Span
    <3>2. /\ First + a \in Int /\ First + (p + 1) \in Int /\ Width \in Nat \ {0} /\ First \in Int
          /\ -Width < (First + a) - (First + (p + 1))
          /\ (First + a) - (First + (p + 1)) < Width
      BY <2>4, <3>1, Sizes
    <3>3. First + a = First + (p + 1)
      BY <2>1, <3>2, Congruent, Zenon DEF At, Word
    <3> QED
      BY <2>4, <3>1, <3>2, <3>3, Sizes
  <2>5. CASE p # N
    BY <1>1, <1>4, <2>3, <2>5, Sizes
  <2> QED
    BY <2>4, <2>5
<1>6. p \in Items /\ p \in Used
  BY <1>1, <1>5, Sizes DEF Items, Staged
<1>7. desc[Slot(laneItem[l])] = SendHeader(p)
  BY <1>1, <1>5, <1>6, ItemWords DEF Staged
<1>8. p < Seen + Slots
  <2>1. /\ Width - Slots + 1 \in Int /\ laneItem[l] \in Int /\ Slots \in Int /\ Width \in Int
        /\ p + (Width - Slots + 1) = (p + 1 - Slots) + Width /\ p + 1 - Slots \in Int
    BY <1>1, Sizes, Wraps DEF Words
  <2>2. laneItem[l] + 1 - Slots + Width = At(p) + (Width - Slots + 1)
    BY <1>1, <2>1
  <2>3. Word(At(p) + (Width - Slots + 1)) = At(p + (Width - Slots + 1))
    BY <1>1, <2>1, Wraps, Zenon
  <2>4. At((p + 1 - Slots) + Width) = At(p + 1 - Slots)
    BY <2>1, Wraps, Zenon
  <2>5. AtLeast(At(Seen), At(p + 1 - Slots))
    BY <1>2, <2>1, <2>2, <2>3, <2>4 DEF MayPost
  <2>6. CASE Seen - (p + 1 - Slots) < Width \div 2
    <3>1. Seen \in Int /\ -(Width \div 2) <= Seen - (p + 1 - Slots)
      BY <1>1, <1>2, <1>5, Sizes
    <3>2. AtLeast(At(Seen), At(p + 1 - Slots)) <=> Seen >= p + 1 - Slots
      BY <2>1, <2>6, <3>1, Compares, Zenon
    <3> QED
      BY <1>1, <1>2, <2>5, <3>2, Sizes
  <2>7. CASE ~(Seen - (p + 1 - Slots) < Width \div 2)
    BY <1>1, <1>2, <2>7, Sizes
  <2> QED
    BY <2>6, <2>7
<1> QED
  BY <1>2, <1>5, <1>6, <1>7, <1>8 DEF p, Stripe, Packs

\* A flag that lands is that of the lane's next item.
LEMMA FlagsLand ==
    ASSUME TypeOK, Ordered, Staged, NEW l \in Lanes, InOrder(l), Land(l)
    PROVE  /\ flags' = IF wire[l][landed[l] + 1].kind = "flag" THEN [flags EXCEPT ![l] = flags[l] + 1] ELSE flags
           /\ landed[l] + 1 \in 1..Len(wire[l]) /\ ItemAt(l, landed[l] + 1) = flags[l]
           /\ ItemAt(l, landed[l] + 2) = flags'[l] /\ Follows(l, landed[l] + 1)
           /\ flags'[l] \in {flags[l], flags[l] + 1} /\ flags'[l] <= Posted(l)
           /\ \A x \in Lanes \ {l} : flags'[x] = flags[x]
           /\ \A x \in Lanes : flags'[x] >= flags[x] /\ flags'[x] <= Posted(x)
<1> DEFINE n == Len(wire[l])
           c == landed[l] + 1
<1>1. /\ n \in Nat /\ c \in 1..n /\ flags \in [Lanes -> Nat] /\ flags[l] \in Nat
         /\ wire[l][c].kind \in {"data", "header", "flag"}
      /\ landed[l] + 2 = c + 1
  <2>0. landed[l] < n
    BY DEF Land
  <2>1. /\ n \in Nat /\ landed[l] \in Nat /\ landed[l] < n /\ flags \in [Lanes -> Nat] /\ wire[l] \in Seq(Writes)
    BY <2>0 DEF TypeOK
  <2>2. wire[l][c] \in Writes
    BY <2>1
  <2> QED
    BY <2>1, <2>2 DEF Writes
<1>2. flags' = IF wire[l][c].kind = "flag" THEN [flags EXCEPT ![l] = flags[l] + 1] ELSE flags
  BY <1>1 DEF Land
<1>3. ItemAt(l, c) = flags[l] /\ Follows(l, c)
  BY <1>1 DEF InOrder
<1>4. ItemAt(l, c + 1) = flags'[l] /\ flags'[l] \in {flags[l], flags[l] + 1}
  <2>1. CASE wire[l][c].kind = "flag"
    BY <1>1, <1>2, <1>3, <2>1 DEF Follows
  <2>2. CASE wire[l][c].kind # "flag"
    BY <1>1, <1>2, <1>3, <2>2 DEF Follows
  <2> QED
    BY <2>1, <2>2
<1>5. ItemAt(l, c + 1) <= ItemAt(l, n + 1) /\ ItemAt(l, n + 1) = Posted(l)
  <2>1. c + 1 \in 1..(n + 1) /\ n + 1 \in 1..(n + 1) /\ c + 1 <= n + 1 /\ ~(n + 1 <= n)
    BY <1>1
  <2> QED
    BY <2>1 DEF InOrder, ItemAt
<1>6. \A x \in Lanes \ {l} : flags'[x] = flags[x]
  BY <1>1, <1>2
<1>7. \A x \in Lanes : flags[x] <= Posted(x) /\ flags[x] \in Nat
  BY Counters
<1> QED
  BY <1>1, <1>2, <1>3, <1>4, <1>5, <1>6, <1>7

\* A flag that completes is that of the first item the lane has not finished.
LEMMA DoneMoves ==
    ASSUME TypeOK, Ordered, Staged, NEW l \in Lanes, InOrder(l), Complete(l)
    PROVE  /\ Counts(laneDone'[l]) /\ Finished(l)' \in {Finished(l), Finished(l) + 1}
           /\ Finished(l)' <= flags[l] /\ Finished(l)' = ItemAt(l, 2)
<1>00. /\ Posted(l) \in 0..N /\ Finished(l) \in 0..N /\ flags[l] \in Nat /\ laneDone \in [Lanes -> Words]
       /\ Len(wire[l]) \in Nat /\ landed[l] \in 0..Len(wire[l]) /\ LanesOrdered
  BY Counters DEF TypeOK, Ordered
<1>1. /\ Len(wire[l]) \in Nat \ {0} /\ Head(wire[l]) = wire[l][1] /\ landed[l] \in 1..Len(wire[l])
      /\ wire[l][1].kind \in {"data", "header", "flag"} /\ 1 \in 1..Len(wire[l])
  <2>1. /\ Len(wire[l]) \in Nat \ {0} /\ Head(wire[l]) = wire[l][1] /\ wire[l][1] \in Writes /\ landed[l] > 0
    BY Completing DEF Complete
  <2> QED
    BY <1>00, <2>1 DEF Writes
<1>2. laneDone' = [laneDone EXCEPT ![l] = IF wire[l][1].kind = "flag" THEN Word(laneDone[l] + 1) ELSE laneDone[l]]
  BY <1>00, <1>1 DEF Complete
<1>3. ItemAt(l, 1) = Finished(l) /\ ItemAt(l, landed[l] + 1) = flags[l] /\ Follows(l, 1)
  BY <1>1 DEF InOrder
<1>4. CASE wire[l][1].kind # "flag"
  <2>1. laneDone'[l] = laneDone[l] /\ ItemAt(l, 2) = ItemAt(l, 1)
    BY <1>00, <1>1, <1>2, <1>3, <1>4 DEF Follows
  <2> QED
    BY <1>00, <1>3, <2>1 DEF LanesOrdered, Finished
<1>5. CASE wire[l][1].kind = "flag"
  <2>1. ItemAt(l, 2) = Finished(l) + 1
    BY <1>3, <1>5 DEF Follows
  <2>2. ItemAt(l, 2) <= ItemAt(l, landed[l] + 1)
    <3>1. 2 \in 1..(Len(wire[l]) + 1) /\ landed[l] + 1 \in 1..(Len(wire[l]) + 1) /\ 2 <= landed[l] + 1
      BY <1>1
    <3> QED
      BY <3>1 DEF InOrder
  <2>3. Finished(l) + 1 <= flags[l] /\ flags[l] <= Posted(l)
    BY <1>00, <1>3, <2>1, <2>2 DEF LanesOrdered
  <2>4. Counts(laneDone[l]) /\ Index(laneDone[l]) < N /\ laneDone'[l] = Word(laneDone[l] + 1)
    BY <1>00, <1>2, <1>5, <2>3, Sizes DEF LanesOrdered, Finished
  <2>5. Counts(laneDone'[l]) /\ Finished(l)' = Finished(l) + 1
    BY <2>4, Advance DEF Finished
  <2> QED
    BY <2>1, <2>3, <2>5
<1> QED
  BY <1>4, <1>5

-----------------------------------------------------------------------------
(* The counters.                                                           *)

\* The sender's counters, by actions.
LEMMA LanesOrderedStep ==
    ASSUME TypeOK, Ordered, Staged, \A x \in Lanes : InOrder(x), [Next]_vars
    PROVE  LanesOrdered'
<1>0. LanesOrdered
  BY DEF Ordered
<1>00. ASSUME NEW x \in Lanes
       PROVE  /\ Posted(x) \in 0..N /\ Finished(x) \in 0..N /\ Sent \in 0..N /\ flags[x] \in Nat
              /\ Len(wire[x]) \in Nat /\ landed[x] \in 0..Len(wire[x])
              /\ laneItem \in [Lanes -> Words] /\ laneDone \in [Lanes -> Words] /\ flags \in [Lanes -> Nat]
  BY Counters DEF TypeOK
<1> USE <1>0
<1>1. ASSUME NEW i \in Used, SendBegin(i) PROVE LanesOrdered'
  BY <1>1 DEF SendBegin, Thread, Wires, Memory, Receiver, Release, Control, LanesOrdered, Sent, Finished, Posted
<1>2. ASSUME NEW i \in Used, SendReady(i) PROVE LanesOrdered'
  BY <1>2 DEF SendReady, Thread, Wires, Memory, Receiver, Release, Control, LanesOrdered, Sent, Finished, Posted
<1>3. ASSUME NEW i \in Used, SendQuit(i) PROVE LanesOrdered'
  BY <1>3 DEF SendQuit, Thread, Wires, Memory, Receiver, Release, LanesOrdered, Sent, Finished, Posted
<1>4. ASSUME ReadCredit PROVE LanesOrdered'
  BY <1>4 DEF ReadCredit, Sender, Memory, Receiver, Release, Control, LanesOrdered, Sent, Finished, Posted
<1>5. ASSUME NEW l \in Lanes, PostData(l) PROVE LanesOrdered'
  BY <1>5 DEF PostData, Sender, Memory, Receiver, Release, Control, LanesOrdered, Sent, Finished, Posted
<1>6. ASSUME PostHeader PROVE LanesOrdered'
  BY <1>6 DEF PostHeader, Sender, Memory, Receiver, Release, Control, LanesOrdered, Sent, Finished, Posted
<1>7. ASSUME NEW l \in Lanes, PostFlag(l) PROVE LanesOrdered'
  <2>1. Counts(laneItem[l]) /\ Index(laneItem[l]) < N /\ laneItem' = [laneItem EXCEPT ![l] = Word(laneItem[l] + 1)]
    <3>1. MayPost(l)
      BY <1>7 DEF PostFlag
    <3>2. Posted(l) \in Items
      BY <3>1, MayPostFinds
    <3> QED
      BY <1>7, <1>00, <3>2, Sizes DEF PostFlag, LanesOrdered, Items, Posted
  <2>2. Counts(laneItem'[l]) /\ Posted(l)' = Posted(l) + 1
    BY <1>00, <2>1, Advance DEF Posted
  <2>3. \A x \in Lanes \ {l} : laneItem'[x] = laneItem[x] /\ Posted(x)' = Posted(x)
    BY <1>00, <2>1 DEF Posted
  <2>4. UNCHANGED <<sent, laneDone, flags>>
    BY <1>7 DEF PostFlag
  <2>5. Sent' = Sent /\ \A x \in Lanes : Finished(x)' = Finished(x)
    BY <2>4 DEF Sent, Finished
  <2>6. flags[l] <= Posted(l)'
    BY <1>00, <2>2 DEF LanesOrdered
  <2> QED
    BY <1>00, <2>2, <2>3, <2>4, <2>5, <2>6 DEF LanesOrdered
<1>8. ASSUME NEW l \in Lanes, Complete(l) PROVE LanesOrdered'
  <2>1. /\ Len(wire[l]) \in Nat \ {0} /\ Head(wire[l]) = wire[l][1] /\ landed[l] \in 1..Len(wire[l])
    BY <1>8, <1>00, Completing DEF Complete
  <2>2. /\ laneDone' = [laneDone EXCEPT ![l] = IF wire[l][1].kind = "flag" THEN Word(laneDone[l] + 1)
           ELSE laneDone[l]]
        /\ UNCHANGED <<sent, laneItem, flags>>
    BY <1>8, <1>00, <2>1 DEF Complete
  <2>3. Sent' = Sent /\ \A x \in Lanes : Posted(x)' = Posted(x)
    BY <2>2 DEF Sent, Posted
  <2>4. \A x \in Lanes \ {l} : laneDone'[x] = laneDone[x] /\ Finished(x)' = Finished(x)
    BY <1>00, <2>2 DEF Finished
  <2>5. Counts(laneDone'[l]) /\ Finished(l)' \in {Finished(l), Finished(l) + 1} /\ Finished(l)' <= flags[l]
    BY <1>8, DoneMoves
  <2>6. Sent <= Finished(l)'
    BY <1>00, <2>5 DEF LanesOrdered
  <2> QED
    BY <2>2, <2>3, <2>4, <2>5, <2>6 DEF LanesOrdered
<1>9. ASSUME StoreSent PROVE LanesOrdered'
  <2>1. PICK l \in Lanes : Least(laneDone) = laneDone[l] /\ \A x \in Lanes : Finished(l) <= Finished(x)
    BY LeastDone
  <2>2. sent' = laneDone[l] /\ UNCHANGED <<laneItem, laneDone, flags>>
    BY <1>9, <2>1 DEF StoreSent, Wires
  <2>3. Counts(sent') /\ Sent' = Finished(l) /\ \A x \in Lanes : Finished(x)' = Finished(x) /\ Posted(x)' = Posted(x)
    BY <2>2 DEF LanesOrdered, Sent, Finished, Posted
  <2> QED
    BY <2>1, <2>2, <2>3 DEF LanesOrdered
<1>10. ASSUME NEW l \in Lanes, Land(l) PROVE LanesOrdered'
  <2>1. UNCHANGED <<sent, laneItem, laneDone>>
    BY <1>10 DEF Land, Thread
  <2>2. /\ Sent' = Sent /\ \A x \in Lanes : Finished(x)' = Finished(x) /\ Posted(x)' = Posted(x)
    BY <2>1 DEF Sent, Finished, Posted
  <2>3. \A x \in Lanes : flags'[x] >= flags[x] /\ flags'[x] <= Posted(x)
    BY <1>10, <1>00, FlagsLand, Counters
  <2>4. ASSUME NEW x \in Lanes PROVE Finished(x) <= flags'[x]
    <3>1. Finished(x) <= flags[x] /\ flags'[x] \in Int
      BY <1>10, <1>00, LandTyped DEF LanesOrdered
    <3> QED
      BY <1>00, <2>3, <3>1
  <2> QED
    BY <2>1, <2>2, <2>3, <2>4 DEF LanesOrdered
<1>11. ASSUME LandCredit PROVE LanesOrdered'
  BY <1>11 DEF LandCredit, Sender, Thread, Memory, Receiver, Release, Control, LanesOrdered, Sent, Finished, Posted
<1>12. ASSUME NEW i \in Used, RecvBegin(i) PROVE LanesOrdered'
  BY <1>12 DEF RecvBegin, Sender, Thread, Wires, Memory, Release, LanesOrdered, Sent, Finished, Posted
<1>13. ASSUME NEW i \in Used, NEW l \in Lanes, RecvCopy(i, l) PROVE LanesOrdered'
  BY <1>13 DEF RecvCopy, Sender, Thread, Wires, Memory, Release, Control, LanesOrdered, Sent, Finished, Posted
<1>14. ASSUME NEW i \in Used, RecvDone(i) PROVE LanesOrdered'
  BY <1>14 DEF RecvDone, Sender, Thread, Wires, Memory, Release, Control, LanesOrdered, Sent, Finished, Posted
<1>15. ASSUME NEW i \in Used, RecvQuit(i) PROVE LanesOrdered'
  BY <1>15 DEF RecvQuit, Sender, Thread, Wires, Memory, Release, LanesOrdered, Sent, Finished, Posted
<1>16. ASSUME ReleaseItem PROVE LanesOrdered'
  BY <1>16 DEF ReleaseItem, Sender, Thread, Wires, Memory, Receiver, Control, LanesOrdered, Sent, Finished, Posted
<1>17. ASSUME SendCredit PROVE LanesOrdered'
  BY <1>17 DEF SendCredit, Sender, Thread, Memory, Receiver, Control, LanesOrdered, Sent, Finished, Posted
<1>18. ASSUME NEW r \in Ranks, Notice(r) PROVE LanesOrdered'
  BY <1>18 DEF Notice, Sender, Thread, Wires, Memory, Receiver, Release, Stop, LanesOrdered, Sent, Finished, Posted
<1>19. ASSUME NEW r \in Ranks, NEW l \in Lanes, WriteFails(r, l) PROVE LanesOrdered'
  BY <1>19 DEF WriteFails, Sender, Thread, Memory, Receiver, Release, Stop, LanesOrdered, Sent, Finished, Posted
<1>20. CASE UNCHANGED vars
  BY <1>20 DEF vars, Sender, Thread, Wires, Memory, Receiver, Release, Control, LanesOrdered, Sent, Finished, Posted
<1> QED
  BY <1>1, <1>2, <1>3, <1>4, <1>5, <1>6, <1>7, <1>8, <1>9, <1>10, <1>11, <1>12, <1>13,
     <1>14, <1>15, <1>16, <1>17, <1>18, <1>19, <1>20
     DEF Next, Processes, SendKernel, RecvKernel, SendThread, RecvThread, Network, Ranks

\* What ReleaseItem finds: the next item was taken.
LEMMA ReleaseFinds ==
    ASSUME TypeOK, Ordered, Received, consumed[Slot(released)] = Word(released + 1)
    PROVE  Freed \in Items /\ recv[Freed] = "done"
<1> DEFINE p == Freed
<1>1. p \in 0..N /\ p \in Int /\ released = At(p)
  BY Counted DEF Ordered, CreditsOrdered, Freed
<1> HIDE DEF p
<1>2. Slot(released) \in Places /\ Word(released + 1) = At(p + 1)
  BY <1>1, SlotsOfItems, Wraps
<1>3. PICK a \in Span : consumed[Slot(released)] = At(a) /\ (a >= 1 => recv[a - 1] = "done")
  BY <1>2 DEF Received
<1>4. At(a) = At(p + 1)
  BY <1>2, <1>3
<1>5. a = p + 1
  <2>1. a \in Int /\ 1 - Slots <= a /\ a <= N
    BY Sizes DEF Span
  <2>2. /\ First + a \in Int /\ First + (p + 1) \in Int /\ Width \in Nat \ {0} /\ First \in Int
        /\ -Width < (First + a) - (First + (p + 1)) /\ (First + a) - (First + (p + 1)) < Width
    BY <1>1, <2>1, Sizes
  <2>3. First + a = First + (p + 1)
    BY <1>4, <2>2, Congruent, Zenon DEF At, Word
  <2> QED
    BY <1>1, <2>1, <2>2, <2>3
<1>6. a \in Int /\ a <= N
  BY Sizes DEF Span
<1> QED
  BY <1>1, <1>3, <1>5, <1>6, Sizes DEF p, Items

\* The credits, by actions.
LEMMA CreditsOrderedStep ==
    ASSUME TypeOK, Ordered, Received, [Next]_vars
    PROVE  CreditsOrdered'
<1>0. CreditsOrdered
  BY DEF Ordered
<1>00. /\ Seen \in 0..N /\ Credit \in 0..N /\ Told \in 0..N /\ Freed \in 0..N
       /\ credits \in Seq(Words) /\ Len(credits) \in Nat
       /\ \A k \in 1..Len(credits) : Index(credits[k]) \in 0..N
  BY Counted DEF TypeOK, Ordered, CreditsOrdered, Seen, Credit, Told, Freed
<1> USE <1>0
<1>1. ASSUME NEW i \in Used, SendBegin(i) PROVE CreditsOrdered'
  BY <1>1 DEF SendBegin, Thread, Wires, Memory, Receiver, Release, Control, CreditsOrdered, Seen, Credit, Told, Freed
<1>2. ASSUME NEW i \in Used, SendReady(i) PROVE CreditsOrdered'
  BY <1>2 DEF SendReady, Thread, Wires, Memory, Receiver, Release, Control, CreditsOrdered, Seen, Credit, Told, Freed
<1>3. ASSUME NEW i \in Used, SendQuit(i) PROVE CreditsOrdered'
  BY <1>3 DEF SendQuit, Thread, Wires, Memory, Receiver, Release, CreditsOrdered, Seen, Credit, Told, Freed
<1>4. ASSUME ReadCredit PROVE CreditsOrdered'
  <2>1. creditSeen' = credit /\ UNCHANGED <<credit, credits, released, credited>>
    BY <1>4 DEF ReadCredit, Sender, Memory, Receiver, Release, Control
  <2>2. Seen' = Credit /\ Credit' = Credit /\ Told' = Told /\ Freed' = Freed
    BY <2>1 DEF Seen, Credit, Told, Freed
  <2> QED
    BY <1>00, <2>1, <2>2 DEF CreditsOrdered
<1>5. ASSUME NEW l \in Lanes, PostData(l) PROVE CreditsOrdered'
  BY <1>5 DEF PostData, Sender, Memory, Receiver, Release, Control, CreditsOrdered, Seen, Credit, Told, Freed
<1>6. ASSUME PostHeader PROVE CreditsOrdered'
  BY <1>6 DEF PostHeader, Sender, Memory, Receiver, Release, Control, CreditsOrdered, Seen, Credit, Told, Freed
<1>7. ASSUME NEW l \in Lanes, PostFlag(l) PROVE CreditsOrdered'
  BY <1>7 DEF PostFlag, Sender, Memory, Receiver, Release, Control, CreditsOrdered, Seen, Credit, Told, Freed
<1>8. ASSUME NEW l \in Lanes, Complete(l) PROVE CreditsOrdered'
  BY <1>8 DEF Complete, Sender, Memory, Receiver, Release, Control, CreditsOrdered, Seen, Credit, Told, Freed
<1>9. ASSUME StoreSent PROVE CreditsOrdered'
  BY <1>9 DEF StoreSent, Sender, Wires, Memory, Receiver, Release, Control, CreditsOrdered, Seen, Credit, Told, Freed
<1>10. ASSUME NEW l \in Lanes, Land(l) PROVE CreditsOrdered'
  BY <1>10 DEF Land, Sender, Thread, Receiver, Release, Control, CreditsOrdered, Seen, Credit, Told, Freed
<1>11. ASSUME LandCredit PROVE CreditsOrdered'
  <2>1. /\ Len(credits) \in Nat \ {0} /\ credit' = credits[1] /\ credits' = Tail(credits)
        /\ UNCHANGED <<creditSeen, released, credited>>
    BY <1>11, <1>00 DEF LandCredit, Sender, Thread, Memory, Receiver, Release, Control
  <2>2. Len(credits') = Len(credits) - 1 /\ \A k \in 1..Len(credits') : credits'[k] = credits[k + 1]
        /\ k + 1 \in 1..Len(credits)
    BY <1>00, <2>1
  <2>3. 1 \in 1..Len(credits)
    BY <2>1
  <2>4. Seen' = Seen /\ Credit' = Index(credits[1]) /\ Told' = Told /\ Freed' = Freed
    BY <2>1 DEF Seen, Credit, Told, Freed
  <2>5. Counts(credit') /\ Seen <= Credit' /\ Credit' <= Told
    BY <1>00, <2>1, <2>3, <2>4 DEF CreditsOrdered
  <2>6. \A k \in 1..Len(credits') : Counts(credits'[k]) /\ Credit' <= Index(credits'[k]) /\ Index(credits'[k]) <= Told
    <3>1. \A k \in 1..Len(credits') : 1 <= k + 1
      BY <2>1, <2>2
    <3> QED
      BY <2>2, <2>3, <2>4, <3>1 DEF CreditsOrdered
  <2>7. \A j, k \in 1..Len(credits') : j <= k => Index(credits'[j]) <= Index(credits'[k])
    <3>1. \A j, k \in 1..Len(credits') : j <= k => j + 1 <= k + 1
      BY <2>1, <2>2
    <3> QED
      BY <2>2, <3>1 DEF CreditsOrdered
  <2> QED
    BY <2>1, <2>4, <2>5, <2>6, <2>7 DEF CreditsOrdered
<1>12. ASSUME NEW i \in Used, RecvBegin(i) PROVE CreditsOrdered'
  BY <1>12 DEF RecvBegin, Sender, Thread, Wires, Memory, Release, CreditsOrdered, Seen, Credit, Told, Freed
<1>13. ASSUME NEW i \in Used, NEW l \in Lanes, RecvCopy(i, l) PROVE CreditsOrdered'
  BY <1>13 DEF RecvCopy, Sender, Thread, Wires, Memory, Release, Control, CreditsOrdered, Seen, Credit, Told, Freed
<1>14. ASSUME NEW i \in Used, RecvDone(i) PROVE CreditsOrdered'
  BY <1>14 DEF RecvDone, Sender, Thread, Wires, Memory, Release, Control, CreditsOrdered, Seen, Credit, Told, Freed
<1>15. ASSUME NEW i \in Used, RecvQuit(i) PROVE CreditsOrdered'
  BY <1>15 DEF RecvQuit, Sender, Thread, Wires, Memory, Release, CreditsOrdered, Seen, Credit, Told, Freed
<1>16. ASSUME ReleaseItem PROVE CreditsOrdered'
  <2>1. released' = Word(released + 1) /\ UNCHANGED <<creditSeen, credit, credits, credited>>
    BY <1>16 DEF ReleaseItem, Sender, Thread, Wires, Memory, Receiver, Control
  <2>2. Freed \in Items
    BY <1>16, ReleaseFinds DEF ReleaseItem
  <2>3. Counts(released') /\ Freed' = Freed + 1
    BY <2>1, <2>2, Advance, Sizes DEF CreditsOrdered, Freed, Items
  <2>4. Seen' = Seen /\ Credit' = Credit /\ Told' = Told
    BY <2>1 DEF Seen, Credit, Told
  <2> QED
    BY <1>00, <2>1, <2>3, <2>4 DEF CreditsOrdered
<1>17. ASSUME SendCredit PROVE CreditsOrdered'
  <2>1. credits' = Append(credits, released) /\ credited' = released /\ UNCHANGED <<creditSeen, credit, released>>
    BY <1>17 DEF SendCredit, Sender, Thread, Memory, Receiver, Control
  <2>2. released \in Words
    BY DEF TypeOK
  <2>3. /\ Len(credits') = Len(credits) + 1 /\ credits'[Len(credits) + 1] = released
        /\ \A k \in 1..Len(credits) : credits'[k] = credits[k]
    BY <1>00, <2>1, <2>2
  <2>4. Seen' = Seen /\ Credit' = Credit /\ Told' = Freed /\ Freed' = Freed
    BY <2>1 DEF Seen, Credit, Told, Freed
  <2>5. \A k \in 1..Len(credits') : k \in 1..Len(credits) \/ k = Len(credits) + 1
    BY <1>00, <2>3
  <2>6. \A k \in 1..Len(credits) : Counts(credits'[k]) /\ Credit <= Index(credits'[k]) /\ Index(credits'[k]) <= Freed
    BY <1>00, <2>3 DEF CreditsOrdered
  <2>7. \A k \in 1..Len(credits') : Counts(credits'[k]) /\ Credit' <= Index(credits'[k])
        /\ Index(credits'[k]) <= Told'
    BY <1>00, <2>3, <2>4, <2>5, <2>6 DEF CreditsOrdered, Freed
  <2>8. \A j, k \in 1..Len(credits') : j <= k => Index(credits'[j]) <= Index(credits'[k])
    <3>1. SUFFICES ASSUME NEW j \in 1..Len(credits'), NEW k \in 1..Len(credits'), j <= k
                   PROVE  Index(credits'[j]) <= Index(credits'[k])
      OBVIOUS
    <3>2. CASE k = Len(credits) + 1
      BY <2>3, <2>4, <2>7, <3>2 DEF Freed
    <3>3. CASE k # Len(credits) + 1
      <4>1. j \in 1..Len(credits) /\ k \in 1..Len(credits)
        BY <1>00, <2>5, <3>1, <3>3
      <4> QED
        BY <2>3, <3>1, <4>1 DEF CreditsOrdered
    <3> QED
      BY <3>2, <3>3
  <2> QED
    BY <1>00, <2>1, <2>4, <2>7, <2>8 DEF CreditsOrdered
<1>18. ASSUME NEW r \in Ranks, Notice(r) PROVE CreditsOrdered'
  BY <1>18 DEF Notice, Sender, Thread, Wires, Memory, Receiver, Release, Stop, CreditsOrdered, Seen, Credit, Told,
         Freed
<1>19. ASSUME NEW r \in Ranks, NEW l \in Lanes, WriteFails(r, l) PROVE CreditsOrdered'
  BY <1>19 DEF WriteFails, Sender, Thread, Memory, Receiver, Release, Stop, CreditsOrdered, Seen, Credit, Told, Freed
<1>20. CASE UNCHANGED vars
  BY <1>20 DEF vars, Sender, Thread, Wires, Memory, Receiver, Release, Control, CreditsOrdered, Seen, Credit, Told,
         Freed
<1> QED
  BY <1>1, <1>2, <1>3, <1>4, <1>5, <1>6, <1>7, <1>8, <1>9, <1>10, <1>11, <1>12, <1>13,
     <1>14, <1>15, <1>16, <1>17, <1>18, <1>19, <1>20
     DEF Next, Processes, SendKernel, RecvKernel, SendThread, RecvThread, Network, Ranks

-----------------------------------------------------------------------------
(* The send slots.                                                         *)

\* A block that is not ready has an item that is not posted, and the slots of one round are distinct.
LEMMA SlotsOwned ==
    ASSUME TypeOK, Ordered, Staged, NEW i \in Items, send[i] # "ready", i < Sent + Slots,
           NEW j \in Items, send[j] = "ready", Sent <= j
    PROVE  Sent <= i /\ SlotOf(i) # SlotOf(j)
<1>1. Sent \in 0..N /\ Posted(0) \in 0..N /\ Sent <= Posted(0) /\ 0 \in Lanes
  <2>1. flags[0] \in Nat /\ Sent <= Finished(0) /\ Finished(0) <= flags[0] /\ flags[0] <= Posted(0)
        /\ Sent \in 0..N /\ Posted(0) \in 0..N /\ Finished(0) \in 0..N /\ 0 \in Lanes
    BY TheLanes, Counters
  <2> QED
    BY <2>1
<1>2. ~(i < Posted(0)) /\ j < Sent + Slots
  BY <1>1 DEF Staged
<1>3. /\ i \in Int /\ j \in Int /\ SlotOf(i) = Slot(At(i)) /\ SlotOf(j) = Slot(At(j)) /\ Slots \in Int
  BY ItemWords, Sizes
<1>4. Sent <= i
  BY <1>1, <1>2, <1>3
<1>5. ASSUME SlotOf(i) = SlotOf(j) PROVE FALSE
  <2>1. Slot(At(i)) = Slot(At(j)) /\ -Slots < i - j /\ i - j < Slots
    BY <1>1, <1>2, <1>3, <1>4, <1>5
  <2>2. i = j
    BY <1>3, <2>1, SlotsApart
  <2> QED
    BY <2>2
<1> QED
  BY <1>4, <1>5

\* What the wait of a send block finds: its slot's previous item is sent.
LEMMA SlotFreeFinds ==
    ASSUME TypeOK, Ordered, Staged, NEW i \in Items, SlotFree(i)
    PROVE  i < Sent + Slots
<1>1. Sent \in 0..N /\ sent = At(Sent) /\ i \in Int /\ Slots \in Int /\ 0 <= i /\ i < N
  <2>1. Sent \in 0..N /\ sent = At(Sent)
    BY TheLanes, Counters
  <2> QED
    BY <2>1, Sizes, ItemWords DEF Items
<1>2. AtLeast(At(Sent), At(i + 1 - Slots))
  BY <1>1, ItemWords DEF SlotFree
<1>3. CASE Sent - (i + 1 - Slots) < Width \div 2
  <2>1. Sent \in Int /\ i + 1 - Slots \in Int /\ -(Width \div 2) <= Sent - (i + 1 - Slots)
    BY <1>1, Sizes
  <2>2. Sent >= i + 1 - Slots
    BY <1>2, <1>3, <2>1, Compares, Zenon
  <2> QED
    BY <1>1, <2>1, <2>2
<1>4. CASE ~(Sent - (i + 1 - Slots) < Width \div 2)
  BY <1>1, <1>4, Sizes
<1> QED
  BY <1>3, <1>4

\* The send slots, by actions.
LEMMA StagedStep ==
    ASSUME TypeOK, Ordered, Staged, [Next]_vars
    PROVE  Staged'
<1>00. /\ Used \subseteq Items /\ send \in [Items -> {"none", "wait", "copy", "ready", "quit"}]
       /\ sendSlot \in [Places -> Items \cup {Nothing, Torn}] /\ desc \in [Places -> Headers]
       /\ ready \in [Places -> Words] /\ \A i \in Items : SlotOf(i) \in Places
  BY TheHeaders, ItemWords DEF TypeOK
<1>000. ASSUME UNCHANGED session PROVE Used' = Used /\ \A i \in Items : SendHeader(i)' = SendHeader(i)
  BY <1>000 DEF Used, SendHeader
<1>001. ASSUME UNCHANGED <<session, send, sendSlot, desc, ready, sent, laneItem>> PROVE Staged'
  BY <1>000, <1>001 DEF Staged, Sent, Posted
<1>1. ASSUME NEW i \in Used, SendBegin(i) PROVE Staged'
  <2>1. /\ send[i] = "wait" /\ i < Sent + Slots /\ i \in Items
        /\ send' = [send EXCEPT ![i] = "copy"] /\ sendSlot' = [sendSlot EXCEPT ![SlotOf(i)] = Torn]
        /\ UNCHANGED <<session, desc, ready, sent, laneItem>>
    BY <1>1, <1>00, SlotFreeFinds DEF SendBegin, Thread
  <2>2. Sent' = Sent /\ \A l \in Lanes : Posted(l)' = Posted(l)
    BY <2>1 DEF Sent, Posted
  <2>3. \A j \in Items : (send'[j] = "ready" <=> send[j] = "ready") /\ (j # i => send'[j] = send[j])
    BY <1>00, <2>1
  <2>4. \A j \in Items : send'[j] \in {"copy", "ready"} => j \in Used /\ j < Sent + Slots
    BY <1>1, <2>1, <2>3 DEF Staged
  <2>5. ASSUME NEW j \in Items, send'[j] = "ready", Sent <= j
        PROVE  sendSlot'[SlotOf(j)] = j /\ desc'[SlotOf(j)] = SendHeader(j)
    <3>1. send[j] = "ready" /\ send[i] # "ready"
      BY <2>1, <2>3, <2>5
    <3>2. SlotOf(i) # SlotOf(j)
      BY <2>1, <2>5, <3>1, SlotsOwned
    <3>3. sendSlot'[SlotOf(j)] = sendSlot[SlotOf(j)]
      BY <1>00, <2>1, <3>2
    <3> QED
      BY <2>1, <2>5, <3>1, <3>3 DEF Staged
  <2>6. \A m \in Places : \E a \in Span : ready'[m] = At(a) /\ (a >= 1 => send'[a - 1] = "ready")
    <3>1. \A a \in Span : a >= 1 => a - 1 \in Items
      BY Sizes DEF Span, Items
    <3> QED
      BY <2>1, <2>3, <3>1 DEF Staged
  <2>7. \A l \in Lanes, j \in Items : j < Posted(l)' => send'[j] = "ready"
    BY <2>2, <2>3 DEF Staged
  <2> QED
    BY <1>000, <2>1, <2>2, <2>4, <2>5, <2>6, <2>7 DEF Staged
<1>2. ASSUME NEW i \in Used, SendReady(i) PROVE Staged'
  <2>1. /\ send[i] = "copy" /\ i \in Items /\ send' = [send EXCEPT ![i] = "ready"]
        /\ sendSlot' = [sendSlot EXCEPT ![SlotOf(i)] = i] /\ desc' = [desc EXCEPT ![SlotOf(i)] = SendHeader(i)]
        /\ ready' = [ready EXCEPT ![SlotOf(i)] = Tag(i)] /\ UNCHANGED <<session, sent, laneItem>>
    BY <1>2, <1>00 DEF SendReady, Thread
  <2>2. Sent' = Sent /\ \A l \in Lanes : Posted(l)' = Posted(l)
    BY <2>1 DEF Sent, Posted
  <2>3. \A j \in Items : (send'[j] = "ready" <=> send[j] = "ready" \/ j = i) /\ (j # i => send'[j] = send[j])
    BY <1>00, <2>1
  <2>4. i < Sent + Slots
    BY <2>1 DEF Staged
  <2>5. \A j \in Items : send'[j] \in {"copy", "ready"} => j \in Used /\ j < Sent + Slots
    BY <1>2, <2>3, <2>4 DEF Staged
  <2>6. ASSUME NEW j \in Items, send'[j] = "ready", Sent <= j
        PROVE  sendSlot'[SlotOf(j)] = j /\ desc'[SlotOf(j)] = SendHeader(j)
    <3>1. CASE j = i
      BY <1>00, <2>1, <3>1
    <3>2. CASE j # i
      <4>1. send[j] = "ready" /\ send[i] # "ready"
        BY <2>1, <2>3, <2>6, <3>2
      <4>2. SlotOf(i) # SlotOf(j)
        BY <2>1, <2>4, <2>6, <4>1, SlotsOwned
      <4>3. sendSlot'[SlotOf(j)] = sendSlot[SlotOf(j)] /\ desc'[SlotOf(j)] = desc[SlotOf(j)]
        BY <1>00, <2>1, <4>2
      <4> QED
        BY <2>6, <4>1, <4>3 DEF Staged
    <3> QED
      BY <3>1, <3>2
  <2>7. ASSUME NEW m \in Places
        PROVE  \E a \in Span : ready'[m] = At(a) /\ (a >= 1 => send'[a - 1] = "ready")
    <3>1. CASE m = SlotOf(i)
      <4>1. ready'[m] = At(i + 1) /\ i + 1 \in Span /\ (i + 1) - 1 = i
        BY <1>00, <2>1, <3>1, ItemWords
      <4> QED
        BY <2>1, <2>3, <4>1
    <3>2. CASE m # SlotOf(i)
      <4>1. ready'[m] = ready[m]
        BY <1>00, <2>1, <3>2
      <4>2. \A a \in Span : a >= 1 => a - 1 \in Items
        BY Sizes DEF Span, Items
      <4> QED
        BY <2>3, <4>1, <4>2 DEF Staged
    <3> QED
      BY <3>1, <3>2
  <2>8. \A l \in Lanes, j \in Items : j < Posted(l)' => send'[j] = "ready"
    BY <2>2, <2>3 DEF Staged
  <2> QED
    BY <1>000, <2>1, <2>2, <2>5, <2>6, <2>7, <2>8 DEF Staged
<1>3. ASSUME NEW i \in Used, SendQuit(i) PROVE Staged'
  <2>1. /\ send[i] = "wait" /\ i \in Items /\ send' = [send EXCEPT ![i] = "quit"]
        /\ UNCHANGED <<session, sendSlot, desc, ready, sent, laneItem>>
    BY <1>3, <1>00 DEF SendQuit, Thread
  <2>2. Sent' = Sent /\ \A l \in Lanes : Posted(l)' = Posted(l)
    BY <2>1 DEF Sent, Posted
  <2>3. \A j \in Items : /\ send'[j] = "ready" <=> send[j] = "ready"
                         /\ send'[j] \in {"copy", "ready"} => send[j] \in {"copy", "ready"}
    BY <1>00, <2>1
  <2>4. \A a \in Span : a >= 1 => a - 1 \in Items
    BY Sizes DEF Span, Items
  <2>5. \A m \in Places : \E a \in Span : ready'[m] = At(a) /\ (a >= 1 => send'[a - 1] = "ready")
    BY <2>1, <2>3, <2>4 DEF Staged
  <2> QED
    BY <1>000, <2>1, <2>2, <2>3, <2>5 DEF Staged
<1>4. ASSUME ReadCredit PROVE Staged'
  BY <1>4, <1>001 DEF ReadCredit, Sender, Memory, Receiver, Release, Control
<1>5. ASSUME NEW l \in Lanes, PostData(l) PROVE Staged'
  BY <1>5, <1>001 DEF PostData, Sender, Memory, Receiver, Release, Control
<1>6. ASSUME PostHeader PROVE Staged'
  BY <1>6, <1>001 DEF PostHeader, Sender, Memory, Receiver, Release, Control
<1>7. ASSUME NEW l \in Lanes, PostFlag(l) PROVE Staged'
  <2>1. MayPost(l) /\ laneItem' = [laneItem EXCEPT ![l] = Word(laneItem[l] + 1)] /\ UNCHANGED <<Sender, sent>>
    <3>1. laneItem \in [Lanes -> Words]
      BY DEF TypeOK
    <3> QED
      BY <1>7, <3>1 DEF PostFlag
  <2>2. Posted(l) \in Items /\ send[Posted(l)] = "ready"
    BY <2>1, MayPostFinds
  <2>3. Posted(l)' = Posted(l) + 1
    <3>1. Counts(laneItem[l]) /\ Index(laneItem[l]) < N /\ laneItem'[l] = Word(laneItem[l] + 1)
      BY <2>1, <2>2, Sizes DEF Ordered, LanesOrdered, Items, Posted, TypeOK
    <3> QED
      BY <3>1, Advance DEF Posted
  <2>4. \A x \in Lanes \ {l} : Posted(x)' = Posted(x)
    <3>1. \A x \in Lanes \ {l} : laneItem'[x] = laneItem[x]
      BY <2>1 DEF TypeOK
    <3> QED
      BY <3>1 DEF Posted
  <2>5. \A x \in Lanes, j \in Items : j < Posted(x)' => send[j] = "ready"
    <3>1. \A j \in Items : j < Posted(l) + 1 => j < Posted(l) \/ j = Posted(l)
      BY <2>2, Sizes DEF Items
    <3> QED
      BY <2>2, <2>3, <2>4, <3>1 DEF Staged
  <2>6. Sent' = Sent /\ UNCHANGED <<session, send, sendSlot, desc, ready>>
    BY <2>1 DEF Sent, Sender
  <2> QED
    BY <1>000, <2>5, <2>6 DEF Staged
<1>8. ASSUME NEW l \in Lanes, Complete(l) PROVE Staged'
  BY <1>8, <1>001 DEF Complete, Sender, Memory, Receiver, Release, Control
<1>9. ASSUME StoreSent PROVE Staged'
  <2>1. PICK l \in Lanes : Least(laneDone) = laneDone[l] /\ \A x \in Lanes : Finished(l) <= Finished(x)
    BY LeastDone
  <2>2. Sent' = Finished(l) /\ UNCHANGED <<session, send, sendSlot, desc, ready, laneItem>>
    BY <1>9, <2>1 DEF StoreSent, Sender, Sent, Finished
  <2>3. Sent' \in 0..N /\ Sent \in 0..N /\ Sent <= Sent'
    BY <2>2, Counters
  <2>4. \A j \in Items : (j < Sent + Slots => j < Sent' + Slots) /\ (Sent' <= j => Sent <= j)
    <3>1. \A s, t \in 0..N : s <= t => \A j \in Items : (j < s + Slots => j < t + Slots) /\ (t <= j => s <= j)
      BY Sizes DEF Items
    <3> QED
      BY <2>3, <3>1, Zenon
  <2>5. \A x \in Lanes : Posted(x)' = Posted(x)
    BY <2>2 DEF Posted
  <2> QED
    BY <1>000, <2>2, <2>4, <2>5 DEF Staged
<1>10. ASSUME NEW l \in Lanes, Land(l) PROVE Staged'
  BY <1>10, <1>001 DEF Land, Sender, Thread, Receiver, Release, Control
<1>11. ASSUME LandCredit PROVE Staged'
  BY <1>11, <1>001 DEF LandCredit, Sender, Thread, Memory, Receiver, Release, Control
<1>12. ASSUME NEW i \in Used, RecvBegin(i) PROVE Staged'
  BY <1>12, <1>001 DEF RecvBegin, Sender, Thread, Wires, Memory, Release
<1>13. ASSUME NEW i \in Used, NEW l \in Lanes, RecvCopy(i, l) PROVE Staged'
  BY <1>13, <1>001 DEF RecvCopy, Sender, Thread, Wires, Memory, Release, Control
<1>14. ASSUME NEW i \in Used, RecvDone(i) PROVE Staged'
  BY <1>14, <1>001 DEF RecvDone, Sender, Thread, Wires, Memory, Release, Control
<1>15. ASSUME NEW i \in Used, RecvQuit(i) PROVE Staged'
  BY <1>15, <1>001 DEF RecvQuit, Sender, Thread, Wires, Memory, Release
<1>16. ASSUME ReleaseItem PROVE Staged'
  BY <1>16, <1>001 DEF ReleaseItem, Sender, Thread, Wires, Memory, Receiver, Control
<1>17. ASSUME SendCredit PROVE Staged'
  BY <1>17, <1>001 DEF SendCredit, Sender, Thread, Memory, Receiver, Control
<1>18. ASSUME NEW r \in Ranks, Notice(r) PROVE Staged'
  BY <1>18, <1>001 DEF Notice, Sender, Thread, Wires, Memory, Receiver, Release, Stop
<1>19. ASSUME NEW r \in Ranks, NEW l \in Lanes, WriteFails(r, l) PROVE Staged'
  BY <1>19, <1>001 DEF WriteFails, Sender, Thread, Memory, Receiver, Release, Stop
<1>20. CASE UNCHANGED vars
  BY <1>20, <1>001 DEF vars, Sender, Thread, Wires, Memory, Receiver, Release, Control
<1> QED
  BY <1>1, <1>2, <1>3, <1>4, <1>5, <1>6, <1>7, <1>8, <1>9, <1>10, <1>11, <1>12, <1>13,
     <1>14, <1>15, <1>16, <1>17, <1>18, <1>19, <1>20
     DEF Next, Processes, SendKernel, RecvKernel, SendThread, RecvThread, Network, Ranks

-----------------------------------------------------------------------------
(* The writes of a lane.                                                   *)

\* The cursor at the next write to land.
LEMMA LandedCursor ==
    ASSUME NEW l \in Lanes, NEW c, c = landed'[l] + 1
    PROVE  /\ ItemAt(l, landed[l] + 1)' = ItemAt(l, c)' /\ PacksAt(l, landed[l] + 1)' = PacksAt(l, c)'
           /\ l = 0 => HeadedAt(landed[0] + 1)' = HeadedAt(c)'
<1>1. ItemAt(l, landed[l] + 1)' = ItemAt(l, c)'
  BY DEF ItemAt
<1>2. PacksAt(l, landed[l] + 1)' = PacksAt(l, c)'
  BY DEF PacksAt, ItemAt, Packs, SendHeader
<1>3. l = 0 => HeadedAt(landed[0] + 1)' = HeadedAt(c)'
  BY DEF HeadedAt
<1> QED
  BY <1>1, <1>2, <1>3

\* A write that is still on the wire still follows, at whichever place.
LEMMA FollowsMoves ==
    ASSUME UNCHANGED session, session \in Sessions, NEW l \in Lanes, NEW j \in Nat, NEW k \in Nat, Follows(l, j),
           wire'[l][k].kind = wire[l][j].kind, wire'[l][k].item = wire[l][j].item,
           wire'[l][k].piece = wire[l][j].piece, wire'[l][k].value = wire[l][j].value,
           ItemAt(l, k)' = ItemAt(l, j), ItemAt(l, k + 1)' = ItemAt(l, j + 1), PacksAt(l, k + 1)' = PacksAt(l, j + 1),
           l = 0 => HeadedAt(k + 1)' = HeadedAt(j + 1),
           \A i \in Items : send[i] = "ready" => send'[i] = "ready",
           \A i \in Items : i < Seen + Slots => i < Seen' + Slots
    PROVE  Follows(l, k)'
<1>1. PICK i : i = ItemAt(l, j)
  OBVIOUS
<1>2. Used \subseteq Items /\ ItemAt(l, k)' = i
  BY <1>1, TheHeaders
<1>3. Counts(wire'[l][k].item) /\ i \in Used /\ send'[i] = "ready" /\ i < Seen' + Slots
  BY <1>1, <1>2 DEF Follows
<1>4. wire'[l][k].kind = "data" => /\ wire'[l][k].piece \in 1..Packs(i, l)
                                   /\ ItemAt(l, k + 1)' = i /\ PacksAt(l, k + 1)' = wire'[l][k].piece
                                   /\ l = 0 => ~HeadedAt(k + 1)'
  BY <1>1 DEF Follows
<1>5. wire'[l][k].kind = "header" => /\ l = 0 /\ wire'[l][k].value = SendHeader(i)
                                     /\ ItemAt(l, k + 1)' = i
                                     /\ PacksAt(l, k + 1)' = Packs(i, l) /\ HeadedAt(k + 1)'
  BY <1>1 DEF Follows
<1>6. wire'[l][k].kind = "flag" => /\ ItemAt(l, k + 1)' = i + 1 /\ PacksAt(l, k + 1)' = 0
                                   /\ l = 0 => ~HeadedAt(k + 1)'
  BY <1>1 DEF Follows
<1> QED
  BY <1>2, <1>3, <1>4, <1>5, <1>6 DEF Follows, Packs, SendHeader, Used

\* A lane whose writes stay the same keeps its order, while sends get ready, credits come and
\* writes land.
LEMMA InOrderStays ==
    ASSUME TypeOK, NEW l \in Lanes, InOrder(l), UNCHANGED session,
           Len(wire'[l]) = Len(wire[l]), laneItem'[l] = laneItem[l], laneBytes'[l] = laneBytes[l],
           laneDone'[l] = laneDone[l], l = 0 => laneHeader' = laneHeader,
           \A k \in 1..Len(wire[l]) : /\ wire'[l][k].kind = wire[l][k].kind /\ wire'[l][k].item = wire[l][k].item
                                      /\ wire'[l][k].piece = wire[l][k].piece /\ wire'[l][k].value = wire[l][k].value,
           landed'[l] + 1 \in 1..(Len(wire[l]) + 1), ItemAt(l, landed'[l] + 1) = flags'[l],
           \A i \in Items : send[i] = "ready" => send'[i] = "ready",
           \A i \in Items : i < Seen + Slots => i < Seen' + Slots
    PROVE  InOrder(l)' /\ (landed'[l] = landed[l] => Holding(l))
<1> DEFINE n == Len(wire[l])
<1>1. n \in Nat /\ session \in Sessions /\ Used \subseteq Items
  BY TheHeaders DEF TypeOK
<1>2. \A k \in 1..(n + 1) : /\ ItemAt(l, k)' = ItemAt(l, k) /\ PacksAt(l, k)' = PacksAt(l, k)
                            /\ l = 0 => HeadedAt(k)' = HeadedAt(k)
  BY <1>1, CursorsStay
<1>3. Finished(l)' = Finished(l) /\ Posted(l)' = Posted(l)
  BY DEF Finished, Posted
<1>4. Used' = Used /\ \A i : Packs(i, l)' = Packs(i, l)
  BY DEF Used, SendHeader, Packs
<1>5. ASSUME NEW k \in 1..n PROVE Follows(l, k)'
  <2>1. k \in Nat /\ k \in 1..(n + 1) /\ k + 1 \in 1..(n + 1)
    BY <1>1
  <2>2. Follows(l, k)
    BY DEF InOrder
  <2> QED
    BY <1>1, <1>2, <2>1, <2>2, FollowsMoves
<1>6. ItemAt(l, 1)' = Finished(l)' /\ ItemAt(l, landed[l] + 1)' = flags'[l]
  <2>1. 1 \in 1..(n + 1)
    BY <1>1
  <2>2. ASSUME NEW c, c = landed'[l] + 1 PROVE ItemAt(l, c)' = flags'[l]
    BY <1>2, <2>2
  <2>3. ItemAt(l, landed[l] + 1)' = flags'[l]
    BY <2>2 DEF ItemAt
  <2> QED
    BY <1>2, <1>3, <2>1, <2>3 DEF InOrder
<1>7. \A j, k \in 1..(n + 1) : j <= k => ItemAt(l, j)' <= ItemAt(l, k)'
  BY <1>2 DEF InOrder
<1>8. (laneBytes[l] > 0 \/ (l = 0 /\ laneHeader) =>
          Posted(l) \in Used /\ send[Posted(l)] = "ready" /\ laneBytes[l] <= Packs(Posted(l), l)
          /\ Posted(l) < Seen + Slots)'
  BY <1>1, <1>3 DEF InOrder, Packs, SendHeader, Used
<1>9. (l = 0 /\ laneHeader => laneBytes[0] = Packs(Posted(0), 0))'
  BY <1>3 DEF InOrder, Packs, SendHeader
<1>10. ASSUME landed'[l] = landed[l] PROVE Holding(l)
  <2>1. PICK c : c = landed[l] + 1 /\ c = landed'[l] + 1
    BY <1>10
  <2>2. PacksAt(l, c)' = PacksAt(l, c) /\ (l = 0 => HeadedAt(c)' = HeadedAt(c))
    BY <1>2, <2>1
  <2> QED
    BY <2>1, <2>2, LandedCursor DEF Holding
<1> QED
  BY <1>5, <1>6, <1>7, <1>8, <1>9, <1>10 DEF InOrder

\* A write that continues the lane's cursor keeps its order.
LEMMA InOrderPosts ==
    ASSUME TypeOK, NEW l \in Lanes, InOrder(l), UNCHANGED <<session, send, creditSeen, landed, flags>>,
           laneDone'[l] = laneDone[l], NEW w \in Writes, Room(l), Post(l, w), w.item = laneItem[l],
           NEW n \in Nat, n = Len(wire[l]), NEW p \in 0..N, p = Posted(l), Counts(laneItem[l]),
           p \in Used, send[p] = "ready", p < Seen + Slots,
           laneBytes[l] = IF w.kind = "data" THEN w.piece - 1 ELSE Packs(p, l),
           l = 0 => laneHeader = (w.kind = "flag"),
           w.kind = "data" => /\ Posted(l)' = p /\ w.piece \in 1..Packs(p, l) /\ laneBytes'[l] = w.piece
                              /\ l = 0 => ~laneHeader',
           w.kind = "header" => /\ Posted(l)' = p /\ l = 0 /\ w.value = SendHeader(p)
                                /\ laneBytes'[l] = Packs(p, l) /\ laneHeader',
           w.kind = "flag" => /\ Posted(l)' = p + 1 /\ laneBytes'[l] = 0
                              /\ l = 0 => ~laneHeader'
    PROVE  InOrder(l)' /\ Holding(l)
<1>1. /\ Len(wire'[l]) = n + 1 /\ wire'[l][n + 1] = w /\ \A k \in 1..n : wire'[l][k] = wire[l][k]
  BY Posting
<1>2. /\ \A k \in 1..(n + 1) : /\ ItemAt(l, k)' = ItemAt(l, k) /\ PacksAt(l, k)' = PacksAt(l, k)
                               /\ l = 0 => HeadedAt(k)' = HeadedAt(k)
      /\ ItemAt(l, n + 2)' = Posted(l)' /\ PacksAt(l, n + 2)' = laneBytes'[l]
      /\ l = 0 => HeadedAt(n + 2)' = laneHeader'
  <2>1. UNCHANGED session /\ laneBytes[l] = IF w.kind = "data" THEN w.piece - 1 ELSE Packs(Posted(l), l)
    OBVIOUS
  <2> QED
    BY <2>1, CursorPosts
<1>3. /\ session \in Sessions /\ Used \subseteq Items /\ w.kind \in {"data", "header", "flag"} /\ landed[l] \in 0..n
      /\ landed \in [Lanes -> Nat] /\ Packs(p, l) \in Nat
  BY TheHeaders DEF TypeOK, Writes
<1>4. Used' = Used /\ \A i : SendHeader(i)' = SendHeader(i) /\ Packs(i, l)' = Packs(i, l)
  BY DEF Used, SendHeader, Packs
<1>5. Seen' = Seen /\ Finished(l)' = Finished(l)
  BY DEF Seen, Finished
<1>6. ItemAt(l, n + 1)' = p /\ ItemAt(l, n + 1) = p /\ n + 1 + 1 = n + 2
  <2>1. ~(n + 1 <= Len(wire[l])) /\ n + 1 \in 1..(n + 1)
    OBVIOUS
  <2>2. ItemAt(l, n + 1) = p
    BY <2>1 DEF ItemAt
  <2> QED
    BY <1>2, <2>1, <2>2
<1>7. ASSUME NEW k \in 1..n PROVE Follows(l, k)'
  <2>1. k \in Nat /\ k \in 1..(n + 1) /\ k + 1 \in 1..(n + 1)
    OBVIOUS
  <2>2. Follows(l, k)
    BY DEF InOrder
  <2> QED
    BY <1>1, <1>2, <1>3, <1>5, <2>1, <2>2, FollowsMoves
<1>8. Follows(l, n + 1)'
  <2>1. wire'[l][n + 1].item = laneItem[l] /\ Counts(wire'[l][n + 1].item)
    BY <1>1
  <2>2. p \in Used' /\ send'[p] = "ready" /\ p < Seen' + Slots
    BY <1>4, <1>5
  <2>3. w.kind = "data" => /\ w.piece \in 1..Packs(p, l)' /\ ItemAt(l, n + 2)' = p /\ PacksAt(l, n + 2)' = w.piece
                           /\ l = 0 => ~HeadedAt(n + 2)'
    BY <1>2, <1>4
  <2>4. w.kind = "header" => /\ l = 0 /\ w.value = SendHeader(p)' /\ ItemAt(l, n + 2)' = p
                             /\ PacksAt(l, n + 2)' = Packs(p, l)' /\ HeadedAt(n + 2)'
    BY <1>2, <1>4
  <2>5. w.kind = "flag" => /\ ItemAt(l, n + 2)' = p + 1 /\ PacksAt(l, n + 2)' = 0
                           /\ l = 0 => ~HeadedAt(n + 2)'
    BY <1>2
  <2> QED
    BY <1>1, <1>6, <2>1, <2>2, <2>3, <2>4, <2>5 DEF Follows, Packs, SendHeader
<1>9. \A k \in 1..Len(wire'[l]) : Follows(l, k)'
  <2>1. \A k \in 1..Len(wire'[l]) : k \in 1..n \/ k = n + 1
    BY <1>1
  <2> QED
    BY <1>7, <1>8, <2>1
<1>10. ItemAt(l, 1)' = Finished(l)' /\ ItemAt(l, landed[l] + 1)' = flags'[l]
  <2>1. 1 \in 1..(n + 1) /\ landed[l] + 1 \in 1..(n + 1)
    BY <1>3
  <2>2. ASSUME NEW c, c = landed[l] + 1 PROVE ItemAt(l, c)' = flags[l]
    BY <1>2, <2>1, <2>2 DEF InOrder
  <2>3. ItemAt(l, landed[l] + 1)' = flags'[l]
    BY <2>2 DEF ItemAt
  <2> QED
    BY <1>2, <1>5, <2>1, <2>3 DEF InOrder
<1>11. Posted(l)' \in {p, p + 1} /\ p <= Posted(l)'
  BY <1>3
<1>12. ASSUME NEW j \in 1..(Len(wire'[l]) + 1), NEW k \in 1..(Len(wire'[l]) + 1), j <= k
       PROVE  ItemAt(l, j)' <= ItemAt(l, k)'
  <2>1. CASE k \in 1..(n + 1)
    <3>1. j \in 1..(n + 1)
      BY <1>12, <2>1
    <3> QED
      BY <1>2, <1>12, <2>1, <3>1 DEF InOrder
  <2>2. CASE k = n + 2 /\ j \in 1..(n + 1)
    <3>1. j <= n + 1 /\ n + 1 \in 1..(n + 1)
      BY <2>2
    <3>2. ItemAt(l, j)' <= p
      BY <1>2, <1>6, <2>2, <3>1 DEF InOrder
    <3>3. ItemAt(l, k)' = Posted(l)' /\ ItemAt(l, k)' \in {p, p + 1}
      BY <1>2, <1>11, <2>2
    <3>4. ItemAt(l, j)' \in Int
      <4>1. j \in 1..n \/ j = n + 1
        BY <2>2
      <4>2. CASE j \in 1..n
        <5>1. Follows(l, j)'
          BY <1>7, <4>2
        <5>2. ItemAt(l, j)' \in Items
          BY <1>3, <1>4, <5>1 DEF Follows
        <5> QED
          BY <5>2, ItemWords
      <4>3. CASE j = n + 1
        BY <1>6, <4>3
      <4> QED
        BY <4>1, <4>2, <4>3
    <3> QED
      BY <3>2, <3>3, <3>4
  <2>3. CASE k = n + 2 /\ j = n + 2
    BY <1>2, <1>11, <2>3
  <2>4. k \in 1..(n + 1) \/ k = n + 2
    BY <1>1
  <2>5. j \in 1..(n + 1) \/ j = n + 2
    BY <1>1
  <2> QED
    BY <2>1, <2>2, <2>3, <2>4, <2>5
<1>13. (laneBytes[l] > 0 \/ (l = 0 /\ laneHeader) =>
          Posted(l) \in Used /\ send[Posted(l)] = "ready" /\ laneBytes[l] <= Packs(Posted(l), l)
          /\ Posted(l) < Seen + Slots)'
  <2>1. CASE w.kind = "flag"
    BY <2>1
  <2>2. CASE w.kind = "data"
    BY <1>3, <1>4, <1>5, <2>2 DEF Packs, SendHeader
  <2>3. CASE w.kind = "header"
    BY <1>3, <1>4, <1>5, <2>3 DEF Packs, SendHeader
  <2> QED
    BY <1>3, <2>1, <2>2, <2>3
<1>14. (l = 0 /\ laneHeader => laneBytes[0] = Packs(Posted(0), 0))'
  BY <1>3 DEF Packs, SendHeader
<1>15. Holding(l)
  <2>1. PICK x : x = landed[l] + 1 /\ x = landed'[l] + 1
    OBVIOUS
  <2>2. x \in 1..(n + 1)
    BY <1>3, <2>1
  <2>3. PacksAt(l, x)' = PacksAt(l, x) /\ (l = 0 => HeadedAt(x)' = HeadedAt(x))
    BY <1>2, <2>2
  <2> QED
    BY <2>1, <2>3, LandedCursor DEF Holding
<1> QED
  BY <1>9, <1>10, <1>12, <1>13, <1>14, <1>15 DEF InOrder

\* A write that completes leaves the others in their order.
LEMMA InOrderCompletes ==
    ASSUME TypeOK, Ordered, Staged, NEW l \in Lanes, InOrder(l), Complete(l)
    PROVE  InOrder(l)' /\ Holding(l)
<1> DEFINE n == Len(wire[l])
           c == landed[l]
<1>1. /\ Len(wire'[l]) = n - 1 /\ n \in Nat \ {0} /\ \A k \in 1..(n - 1) : wire'[l][k] = wire[l][k + 1]
  BY Completing
<1>2. \A k \in 1..n : /\ ItemAt(l, k)' = ItemAt(l, k + 1) /\ PacksAt(l, k)' = PacksAt(l, k + 1)
                      /\ l = 0 => HeadedAt(k)' = HeadedAt(k + 1)
  BY CursorCompletes
<1>3. /\ session \in Sessions /\ Used \subseteq Items /\ c \in 1..n /\ landed'[l] + 1 = c
  BY TheHeaders DEF TypeOK, Complete
<1>4. UNCHANGED <<session, send, creditSeen, flags, laneItem, laneBytes, laneHeader>>
  BY DEF Complete, Sender
<1>5. Used' = Used /\ Seen' = Seen /\ Posted(l)' = Posted(l) /\ \A i : Packs(i, l)' = Packs(i, l)
  BY <1>4 DEF Used, Seen, Posted, SendHeader, Packs
<1> HIDE DEF n, c
<1>6. ASSUME NEW k \in 1..(n - 1) PROVE Follows(l, k)'
  <2>1. k \in Nat /\ k + 1 \in Nat /\ k \in 1..n /\ k + 1 \in 1..n
    BY <1>1
  <2>2. Follows(l, k + 1)
    BY <2>1 DEF InOrder, n
  <2> QED
    BY <1>1, <1>2, <1>3, <1>4, <1>5, <2>1, <2>2, FollowsMoves
<1>7. ItemAt(l, 1)' = Finished(l)' /\ ItemAt(l, landed[l] + 1)' = flags'[l]
  <2>1. 1 \in 1..n /\ 1 + 1 = 2
    BY <1>1
  <2>2. ItemAt(l, 1)' = Finished(l)'
    BY <1>2, <2>1, DoneMoves
  <2>3. ASSUME NEW x, x = c PROVE ItemAt(l, x)' = flags'[l]
    BY <1>2, <1>3, <1>4, <2>3 DEF InOrder, c
  <2>4. ItemAt(l, landed[l] + 1)' = flags'[l]
    BY <1>3, <2>3 DEF ItemAt
  <2> QED
    BY <2>2, <2>4
<1>8. \A j, k \in 1..n : j <= k => ItemAt(l, j)' <= ItemAt(l, k)'
  <2>1. \A j, k \in 1..n : j <= k => j + 1 <= k + 1 /\ j + 1 \in 1..(n + 1) /\ k + 1 \in 1..(n + 1)
    BY <1>1
  <2> QED
    BY <1>2, <2>1 DEF InOrder, n
<1>9. Len(wire'[l]) + 1 = n
  BY <1>1
<1>10. Holding(l)
  <2>1. PICK x : x = c /\ x = landed'[l] + 1
    BY <1>3
  <2>2. PacksAt(l, x)' = PacksAt(l, x + 1) /\ (l = 0 => HeadedAt(x)' = HeadedAt(x + 1))
    BY <1>2, <1>3, <2>1
  <2> QED
    BY <2>1, <2>2, LandedCursor DEF Holding, c
<1>11. InOrder(l)'
  BY <1>1, <1>4, <1>5, <1>6, <1>7, <1>8, <1>9 DEF InOrder, Packs, SendHeader
<1> QED
  BY <1>10, <1>11

\* The writes of the lanes, by actions.
LEMMA InOrderStep ==
    ASSUME TypeOK, Ordered, Staged, \A x \in Lanes : InOrder(x), [Next]_vars, NEW x \in Lanes
    PROVE  InOrder(x)' /\ (landed'[x] = landed[x] + 1 \/ Holding(x))
<1>00. /\ Used \subseteq Items /\ send \in [Items -> {"none", "wait", "copy", "ready", "quit"}]
       /\ landed[x] \in 0..Len(wire[x]) /\ Len(wire[x]) \in Nat /\ landed[x] + 1 \in 1..(Len(wire[x]) + 1)
       /\ ItemAt(x, landed[x] + 1) = flags[x] /\ session \in Sessions /\ laneHeader \in BOOLEAN
  <2>1. /\ landed[x] \in Nat /\ landed[x] <= Len(wire[x]) /\ wire[x] \in Seq(Writes)
        /\ send \in [Items -> {"none", "wait", "copy", "ready", "quit"}] /\ session \in Sessions
           /\ laneHeader \in BOOLEAN
    BY DEF TypeOK
  <2> QED
    BY <2>1, TheHeaders DEF InOrder
<1>000. /\ wire \in [Lanes -> Seq(Writes)] /\ landed \in [Lanes -> Nat] /\ flags \in [Lanes -> Nat]
        /\ laneItem \in [Lanes -> Words] /\ laneBytes \in [Lanes -> Nat] /\ laneDone \in [Lanes -> Words]
  BY DEF TypeOK
<1>001. ASSUME UNCHANGED <<session, send, creditSeen, wire, landed, flags, laneItem, laneBytes, laneDone, laneHeader>>
        PROVE  InOrder(x)' /\ Holding(x)
  <2>1. Seen' = Seen
    BY <1>001 DEF Seen
  <2> QED
    BY <1>00, <1>001, <2>1, InOrderStays
<1>1. ASSUME NEW i \in Used, SendBegin(i) PROVE InOrder(x)' /\ (landed'[x] = landed[x] + 1 \/ Holding(x))
  <2>1. send' = [send EXCEPT ![i] = "copy"] /\ i \in Items /\ send[i] # "ready"
        /\ UNCHANGED <<session, Thread, Wires>>
    BY <1>1, <1>00 DEF SendBegin
  <2>2. \A j \in Items : send[j] = "ready" => send'[j] = "ready"
    BY <1>00, <2>1
  <2>3. UNCHANGED <<session, creditSeen, landed, flags, wire, laneItem, laneBytes, laneDone, laneHeader>>
        /\ Seen' = Seen
    BY <2>1 DEF Thread, Wires, Seen
  <2> QED
    BY <1>00, <2>2, <2>3, InOrderStays
<1>2. ASSUME NEW i \in Used, SendReady(i) PROVE InOrder(x)' /\ (landed'[x] = landed[x] + 1 \/ Holding(x))
  <2>1. send' = [send EXCEPT ![i] = "ready"] /\ i \in Items /\ send[i] # "ready"
        /\ UNCHANGED <<session, Thread, Wires>>
    BY <1>2, <1>00 DEF SendReady
  <2>2. \A j \in Items : send[j] = "ready" => send'[j] = "ready"
    BY <1>00, <2>1
  <2>3. UNCHANGED <<session, creditSeen, landed, flags, wire, laneItem, laneBytes, laneDone, laneHeader>>
        /\ Seen' = Seen
    BY <2>1 DEF Thread, Wires, Seen
  <2> QED
    BY <1>00, <2>2, <2>3, InOrderStays
<1>3. ASSUME NEW i \in Used, SendQuit(i) PROVE InOrder(x)' /\ (landed'[x] = landed[x] + 1 \/ Holding(x))
  <2>1. send' = [send EXCEPT ![i] = "quit"] /\ i \in Items /\ send[i] # "ready"
        /\ UNCHANGED <<session, Thread, Wires>>
    BY <1>3, <1>00 DEF SendQuit
  <2>2. \A j \in Items : send[j] = "ready" => send'[j] = "ready"
    BY <1>00, <2>1
  <2>3. UNCHANGED <<session, creditSeen, landed, flags, wire, laneItem, laneBytes, laneDone, laneHeader>>
        /\ Seen' = Seen
    BY <2>1 DEF Thread, Wires, Seen
  <2> QED
    BY <1>00, <2>2, <2>3, InOrderStays
<1>4. ASSUME ReadCredit PROVE InOrder(x)' /\ (landed'[x] = landed[x] + 1 \/ Holding(x))
  <2>1. UNCHANGED <<session, send, landed, flags, laneItem, laneBytes, laneDone, laneHeader>> /\ creditSeen' = credit
    BY <1>4 DEF ReadCredit, Sender
  <2>2. Seen \in 0..N /\ Credit \in 0..N /\ Seen <= Credit /\ Seen' = Credit
    BY <2>1, Counted DEF Ordered, CreditsOrdered, Seen, Credit
  <2>3. \A i \in Items : i < Seen + Slots => i < Credit + Slots
    BY <2>2, Sizes DEF Items
  <2>4. /\ Len(wire'[x]) = Len(wire[x])
        /\ \A k \in 1..Len(wire[x]) : /\ wire'[x][k].kind = wire[x][k].kind /\ wire'[x][k].item = wire[x][k].item
                                      /\ wire'[x][k].piece = wire[x][k].piece /\ wire'[x][k].value = wire[x][k].value
    BY <1>4, Proving
  <2> QED
    BY <1>00, <2>1, <2>2, <2>3, <2>4, InOrderStays
<1>5. ASSUME NEW l \in Lanes, PostData(l) PROVE InOrder(x)' /\ (landed'[x] = landed[x] + 1 \/ Holding(x))
  <2> DEFINE w == [kind |-> "data", item |-> laneItem[l], piece |-> laneBytes[l] + 1, proven |-> FALSE,
                   value |-> desc[Slot(laneItem[l])]]
             p == Posted(l)
             n == Len(wire[l])
  <2>1. /\ MayPost(l) /\ Room(l) /\ Post(l, w) /\ UNCHANGED <<session, send, creditSeen, landed, flags, laneDone>>
    BY <1>5 DEF PostData, Sender, Memory, Receiver, Release, Control
  <2>2. w \in Writes /\ n \in Nat
    BY Written, Posting, <2>1
  <2>3. /\ p \in Items /\ p \in Used /\ send[p] = "ready" /\ p < Seen + Slots /\ p \in 0..N
        /\ Stripe(l) = Packs(p, l) /\ desc[Slot(laneItem[l])] = SendHeader(p)
    BY <2>1, MayPostFinds, ItemWords
  <2>4. Counts(laneItem[l])
    BY DEF Ordered, LanesOrdered
  <2>5. Packs(p, l) \in Nat /\ laneBytes[l] \in Nat
    BY <1>00, <1>000, <2>3, TheHeaders
  <2>6. laneBytes[l] < Packs(p, l) /\ laneBytes' = [laneBytes EXCEPT ![l] = laneBytes[l] + 1]
        /\ UNCHANGED <<laneItem, laneHeader>>
    BY <1>5, <1>000, <2>3 DEF PostData
  <2>7. laneBytes'[l] = w.piece /\ w.piece \in 1..Packs(p, l) /\ laneBytes[l] = w.piece - 1 /\ Posted(l)' = p
    <3>1. Posted(l)' = p
      BY <2>6 DEF Posted
    <3>2. laneBytes'[l] = laneBytes[l] + 1 /\ w.piece = laneBytes[l] + 1
      BY <1>000, <2>6
    <3> HIDE DEF w, p
    <3> QED
      BY <2>5, <2>6, <3>1, <3>2
  <2>8. l = 0 => ~laneHeader
    BY <2>5, <2>6 DEF InOrder
  <2>9. CASE x # l
    <3>1. /\ UNCHANGED <<session, send, creditSeen>> /\ wire'[x] = wire[x] /\ laneItem'[x] = laneItem[x]
          /\ laneBytes'[x] = laneBytes[x] /\ laneDone'[x] = laneDone[x] /\ landed'[x] = landed[x]
             /\ flags'[x] = flags[x]
          /\ x = 0 => laneHeader' = laneHeader
      BY <1>5, <1>00, <1>000, <2>9 DEF PostData, Sender, Post
    <3>2. Seen' = Seen
      BY <3>1 DEF Seen
    <3> QED
      BY <1>00, <3>1, <3>2, InOrderStays
  <2>10. CASE x = l
    <3>1. w.kind = "data" /\ w.item = laneItem[l] /\ laneDone'[l] = laneDone[l]
      BY <2>1
    <3> HIDE DEF w, p, n
    <3>2. p = Posted(l) /\ n = Len(wire[l])
      BY DEF p, n
    <3>3. l = 0 => laneHeader = (w.kind = "flag")
      BY <1>00, <2>8, <3>1
    <3> QED
      BY <2>1, <2>2, <2>3, <2>4, <2>6, <2>7, <2>8, <2>10, <3>1, <3>2, <3>3, InOrderPosts
  <2> QED
    BY <2>9, <2>10
<1>6. ASSUME PostHeader PROVE InOrder(x)' /\ (landed'[x] = landed[x] + 1 \/ Holding(x))
  <2>0. PICK l \in Lanes : l = 0
    BY TheLanes
  <2> DEFINE w == [kind |-> "header", item |-> laneItem[l], piece |-> 0, proven |-> FALSE,
                   value |-> desc[Slot(laneItem[l])]]
             p == Posted(l)
             n == Len(wire[l])
  <2>1. /\ MayPost(l) /\ Room(l) /\ Post(l, w) /\ UNCHANGED <<session, send, creditSeen, landed, flags, laneDone>>
    BY <1>6, <2>0 DEF PostHeader, Sender, Memory, Receiver, Release, Control
  <2>2. w \in Writes /\ n \in Nat
    BY Written, Posting, <2>1
  <2>3. /\ p \in Items /\ p \in Used /\ send[p] = "ready" /\ p < Seen + Slots /\ p \in 0..N
        /\ Stripe(l) = Packs(p, l) /\ desc[Slot(laneItem[l])] = SendHeader(p)
    BY <2>1, MayPostFinds, ItemWords
  <2>4. Counts(laneItem[l])
    BY DEF Ordered, LanesOrdered
  <2>5. Packs(p, l) \in Nat /\ laneBytes[l] \in Nat
    BY <1>00, <1>000, <2>3, TheHeaders
  <2>6. laneBytes[l] = Packs(p, l) /\ UNCHANGED <<laneItem, laneBytes>> /\ laneHeader' = TRUE /\ ~laneHeader
    BY <1>6, <2>0, <2>3 DEF PostHeader
  <2>7. Posted(l)' = p
    BY <2>6 DEF Posted
  <2>9. CASE x # l
    <3>1. /\ UNCHANGED <<session, send, creditSeen>> /\ wire'[x] = wire[x] /\ laneItem'[x] = laneItem[x]
          /\ laneBytes'[x] = laneBytes[x] /\ laneDone'[x] = laneDone[x] /\ landed'[x] = landed[x]
             /\ flags'[x] = flags[x]
          /\ x = 0 => laneHeader' = laneHeader
      BY <1>6, <1>00, <1>000, <2>0, <2>9 DEF PostHeader, Sender, Post
    <3>2. Seen' = Seen
      BY <3>1 DEF Seen
    <3> QED
      BY <1>00, <3>1, <3>2, InOrderStays
  <2>10. CASE x = l
    <3>1. w.kind = "header" /\ w.item = laneItem[l] /\ laneDone'[l] = laneDone[l] /\ w.value = SendHeader(p)
      BY <2>1, <2>3
    <3> HIDE DEF w, p, n
    <3>2. p = Posted(l) /\ n = Len(wire[l])
      BY DEF p, n
    <3>3. l = 0 => laneHeader = (w.kind = "flag")
      BY <1>00, <2>6, <3>1
    <3> QED
      BY <2>0, <2>1, <2>2, <2>3, <2>4, <2>6, <2>7, <2>10, <3>1, <3>2, <3>3, InOrderPosts
  <2> QED
    BY <2>9, <2>10
<1>7. ASSUME NEW l \in Lanes, PostFlag(l) PROVE InOrder(x)' /\ (landed'[x] = landed[x] + 1 \/ Holding(x))
  <2> DEFINE w == [kind |-> "flag", item |-> laneItem[l], piece |-> 0, proven |-> FALSE, value |-> <<0, FALSE>>]
             p == Posted(l)
             n == Len(wire[l])
  <2>1. /\ MayPost(l) /\ Room(l) /\ Post(l, w) /\ UNCHANGED <<session, send, creditSeen, landed, flags, laneDone>>
    BY <1>7 DEF PostFlag, Sender, Memory, Receiver, Release, Control
  <2>2. w \in Writes /\ n \in Nat
    BY Written, Posting, <2>1
  <2>3. /\ p \in Items /\ p \in Used /\ send[p] = "ready" /\ p < Seen + Slots /\ p \in 0..N
        /\ Stripe(l) = Packs(p, l) /\ desc[Slot(laneItem[l])] = SendHeader(p)
    BY <2>1, MayPostFinds, ItemWords
  <2>4. Counts(laneItem[l])
    BY DEF Ordered, LanesOrdered
  <2>5. Packs(p, l) \in Nat /\ laneBytes[l] \in Nat
    BY <1>00, <1>000, <2>3, TheHeaders
  <2>6. /\ laneBytes[l] = Packs(p, l) /\ laneBytes' = [laneBytes EXCEPT ![l] = 0]
        /\ laneItem' = [laneItem EXCEPT ![l] = Word(laneItem[l] + 1)]
        /\ l = 0 => laneHeader /\ ~laneHeader'
    BY <1>7, <1>000, <2>3 DEF PostFlag
  <2>7. laneBytes'[l] = 0 /\ Posted(l)' = p + 1
    <3>1. Index(laneItem[l]) < N /\ laneItem'[l] = Word(laneItem[l] + 1)
      BY <1>000, <2>3, <2>6, Sizes DEF Posted, Items
    <3>2. Posted(l)' = Index(laneItem[l]) + 1
      BY <2>4, <3>1, Advance DEF Posted
    <3> QED
      BY <1>000, <2>6, <3>2 DEF Posted
  <2>9. CASE x # l
    <3>1. /\ UNCHANGED <<session, send, creditSeen>> /\ wire'[x] = wire[x] /\ laneItem'[x] = laneItem[x]
          /\ laneBytes'[x] = laneBytes[x] /\ laneDone'[x] = laneDone[x] /\ landed'[x] = landed[x]
             /\ flags'[x] = flags[x]
          /\ x = 0 => laneHeader' = laneHeader
      BY <1>7, <1>00, <1>000, <2>9 DEF PostFlag, Sender, Post
    <3>2. Seen' = Seen
      BY <3>1 DEF Seen
    <3> QED
      BY <1>00, <3>1, <3>2, InOrderStays
  <2>10. CASE x = l
    <3>1. w.kind = "flag" /\ w.item = laneItem[l] /\ laneDone'[l] = laneDone[l]
      BY <2>1
    <3> HIDE DEF w, p, n
    <3>2. p = Posted(l) /\ n = Len(wire[l])
      BY DEF p, n
    <3>3. l = 0 => laneHeader = (w.kind = "flag")
      BY <1>00, <2>6, <3>1
    <3> QED
      BY <2>1, <2>2, <2>3, <2>4, <2>6, <2>7, <2>10, <3>1, <3>2, <3>3, InOrderPosts
  <2> QED
    BY <2>9, <2>10
<1>8. ASSUME NEW l \in Lanes, Complete(l) PROVE InOrder(x)' /\ (landed'[x] = landed[x] + 1 \/ Holding(x))
  <2>9. CASE x # l
    <3>1. /\ UNCHANGED <<session, send, creditSeen>> /\ wire'[x] = wire[x] /\ laneItem'[x] = laneItem[x]
          /\ laneBytes'[x] = laneBytes[x] /\ laneDone'[x] = laneDone[x] /\ landed'[x] = landed[x]
             /\ flags'[x] = flags[x]
          /\ x = 0 => laneHeader' = laneHeader
      BY <1>8, <1>00, <1>000, <2>9 DEF Complete, Sender
    <3>2. Seen' = Seen
      BY <3>1 DEF Seen
    <3> QED
      BY <1>00, <3>1, <3>2, InOrderStays
  <2>10. CASE x = l
    BY <1>8, <2>10, InOrderCompletes
  <2> QED
    BY <2>9, <2>10
<1>9. ASSUME StoreSent PROVE InOrder(x)' /\ (landed'[x] = landed[x] + 1 \/ Holding(x))
  BY <1>9, <1>001 DEF StoreSent, Sender, Wires, Memory, Receiver, Release, Control
<1>10. ASSUME NEW l \in Lanes, Land(l) PROVE InOrder(x)' /\ (landed'[x] = landed[x] + 1 \/ Holding(x))
  <2>1. UNCHANGED <<session, send, creditSeen, wire, laneItem, laneBytes, laneDone, laneHeader>> /\ Seen' = Seen
    BY <1>10 DEF Land, Sender, Thread, Seen
  <2>2. landed' = [landed EXCEPT ![l] = landed[l] + 1]
    BY <1>10, <1>000 DEF Land
  <2>3. landed'[x] + 1 \in 1..(Len(wire[x]) + 1) /\ ItemAt(x, landed'[x] + 1) = flags'[x]
    <3>1. CASE x = l
      <4>1. landed[l] + 1 \in 1..Len(wire[l]) /\ ItemAt(l, landed[l] + 2) = flags'[l]
        BY <1>10, FlagsLand
      <4>2. landed'[l] = landed[l] + 1 /\ landed'[l] + 1 = landed[l] + 2
        BY <1>000, <2>2
      <4> QED
        BY <1>00, <3>1, <4>1, <4>2
    <3>2. CASE x # l
      <4>1. landed'[x] = landed[x] /\ flags'[x] = flags[x]
        BY <1>10, <1>000, <2>2, <3>2, FlagsLand
      <4> QED
        BY <1>00, <4>1
    <3> QED
      BY <3>1, <3>2
  <2>4. landed'[x] = landed[x] + 1 \/ landed'[x] = landed[x]
    BY <1>000, <2>2
  <2> QED
    BY <1>00, <2>1, <2>3, <2>4, InOrderStays
<1>11. ASSUME LandCredit PROVE InOrder(x)' /\ (landed'[x] = landed[x] + 1 \/ Holding(x))
  BY <1>11, <1>001 DEF LandCredit, Sender, Thread, Memory, Receiver, Release, Control
<1>12. ASSUME NEW i \in Used, RecvBegin(i) PROVE InOrder(x)' /\ (landed'[x] = landed[x] + 1 \/ Holding(x))
  BY <1>12, <1>001 DEF RecvBegin, Sender, Thread, Wires, Memory, Release
<1>13. ASSUME NEW i \in Used, NEW l \in Lanes, RecvCopy(i, l)
       PROVE  InOrder(x)' /\ (landed'[x] = landed[x] + 1 \/ Holding(x))
  BY <1>13, <1>001 DEF RecvCopy, Sender, Thread, Wires, Memory, Release, Control
<1>14. ASSUME NEW i \in Used, RecvDone(i) PROVE InOrder(x)' /\ (landed'[x] = landed[x] + 1 \/ Holding(x))
  BY <1>14, <1>001 DEF RecvDone, Sender, Thread, Wires, Memory, Release, Control
<1>15. ASSUME NEW i \in Used, RecvQuit(i) PROVE InOrder(x)' /\ (landed'[x] = landed[x] + 1 \/ Holding(x))
  BY <1>15, <1>001 DEF RecvQuit, Sender, Thread, Wires, Memory, Release
<1>16. ASSUME ReleaseItem PROVE InOrder(x)' /\ (landed'[x] = landed[x] + 1 \/ Holding(x))
  BY <1>16, <1>001 DEF ReleaseItem, Sender, Thread, Wires, Memory, Receiver, Control
<1>17. ASSUME SendCredit PROVE InOrder(x)' /\ (landed'[x] = landed[x] + 1 \/ Holding(x))
  BY <1>17, <1>001 DEF SendCredit, Sender, Thread, Memory, Receiver, Control
<1>18. ASSUME NEW r \in Ranks, Notice(r) PROVE InOrder(x)' /\ (landed'[x] = landed[x] + 1 \/ Holding(x))
  BY <1>18, <1>001 DEF Notice, Sender, Thread, Wires, Memory, Receiver, Release, Stop
<1>19. ASSUME NEW r \in Ranks, NEW l \in Lanes, WriteFails(r, l)
       PROVE  InOrder(x)' /\ (landed'[x] = landed[x] + 1 \/ Holding(x))
  BY <1>19, <1>001 DEF WriteFails, Sender, Thread, Memory, Receiver, Release, Stop
<1>20. CASE UNCHANGED vars
  BY <1>20, <1>001 DEF vars, Sender, Thread, Wires, Memory, Receiver, Release, Control
<1> QED
  BY <1>1, <1>2, <1>3, <1>4, <1>5, <1>6, <1>7, <1>8, <1>9, <1>10, <1>11, <1>12, <1>13,
     <1>14, <1>15, <1>16, <1>17, <1>18, <1>19, <1>20
     DEF Next, Processes, SendKernel, RecvKernel, SendThread, RecvThread, Network, Ranks

-----------------------------------------------------------------------------
(* The receive slots.                                                      *)

\* A lane on which nothing lands keeps what the receive slots hold, while items are released.
LEMMA ArrivingStays ==
    ASSUME TypeOK, NEW l \in Lanes, Arriving(l), UNCHANGED session, Holding(l), flags'[l] = flags[l],
           \A m \in Places : recvSlot'[m][l] = recvSlot[m][l] /\ flag'[m][l] = flag[m][l],
           l = 0 => header' = header, \A i \in Items : Freed' <= i => Freed <= i, SlotOf(flags[l]) \in Places
    PROVE  Arriving(l)'
<1>1. ASSUME NEW i \in Items, Freed' <= i, i < flags'[l]
      PROVE  Holds(i, l, Packs(i, l))' /\ (l = 0 => header'[SlotOf(i)] = SendHeader(i)')
  <2>1. SlotOf(i) \in Places /\ Freed <= i /\ i < flags[l]
    BY <1>1, ItemWords
  <2>2. Holds(i, l, Packs(i, l)) /\ (l = 0 => header[SlotOf(i)] = SendHeader(i))
    BY <2>1 DEF Arriving
  <2>3. Holds(i, l, Packs(i, l))'
    BY <2>1, <2>2 DEF Holds, Packs, SendHeader
  <2> QED
    BY <2>2, <2>3 DEF SendHeader
<1>2. Holds(flags[l], l, PacksAt(l, landed[l] + 1))'
  <2>1. Holds(flags[l], l, PacksAt(l, landed[l] + 1))
    BY DEF Arriving
  <2> QED
    BY <2>1 DEF Holds, Holding
<1>3. (l = 0 /\ HeadedAt(landed[0] + 1) => header[SlotOf(flags[0])] = SendHeader(flags[0]))'
  <2>1. l = 0 /\ HeadedAt(landed[0] + 1) => header[SlotOf(flags[0])] = SendHeader(flags[0])
    BY DEF Arriving
  <2> QED
    BY <2>1 DEF Holding, SendHeader
<1>4. \A m \in Places : \E a \in Span : flag'[m][l] = At(a) /\ a <= flags'[l]
  BY DEF Arriving
<1> QED
  BY <1>1, <1>2, <1>3, <1>4 DEF Arriving

\* One more pack of an item.
LEMMA OneMore ==
    ASSUME NEW f \in Int, NEW q \in Nat, NEW s \in Seq(Int), q = 0 => s = <<>>, q > 0 => s = [k \in 1..q |-> f]
    PROVE  Append(s, f) = [k \in 1..(q + 1) |-> f]
<1>1. Len(s) = q /\ \A k \in 1..q : s[k] = f
  <2>1. CASE q = 0
    BY <2>1
  <2>2. CASE q > 0
    <3>1. s = [k \in 1..q |-> f] /\ DOMAIN s = 1..q
      BY <2>2
    <3> QED
      BY <2>2, <3>1
  <2> QED
    BY <2>1, <2>2
<1>2. DOMAIN Append(s, f) = 1..(q + 1) /\ Append(s, f) \in Seq(Int)
  BY <1>1
<1>3. ASSUME NEW k \in 1..(q + 1) PROVE Append(s, f)[k] = f
  BY <1>1
<1>4. Append(s, f) = [k \in DOMAIN Append(s, f) |-> Append(s, f)[k]]
  <2>1. Append(s, f) \in [1..Len(Append(s, f)) -> Int]
    BY <1>2, LenProperties, Zenon
  <2> QED
    BY <2>1
<1> QED
  BY <1>2, <1>3, <1>4

\* A write that lands comes into the slot of the lane's next item, which holds no other item that
\* is not released.
LEMMA LandFinds ==
    ASSUME TypeOK, Ordered, Staged, NEW l \in Lanes, InOrder(l), Land(l),
           NEW f, f = flags[l], NEW c, c = landed[l] + 1
    PROVE  /\ f \in Items /\ f \in Used /\ send[f] = "ready" /\ f < Seen + Slots /\ wire[l][c].item = At(f)
              /\ Slot(At(f)) = SlotOf(f)
           /\ Word(At(f) + 1) = At(f + 1) /\ f + 1 \in Span /\ SlotOf(f) \in Places
           /\ sendSlot[SlotOf(f)] = f /\ c \in 1..Len(wire[l]) /\ Follows(l, c) /\ ItemAt(l, c) = f
           /\ wire[l][c].kind \in {"data", "header", "flag"} /\ landed'[l] = c
           /\ \A i \in Items : Freed <= i /\ i < f => SlotOf(i) # SlotOf(f)
<1>1. /\ c \in 1..Len(wire[l]) /\ Follows(l, c) /\ ItemAt(l, c) = f
  BY FlagsLand
<1>2. wire[l][c] \in Writes /\ landed'[l] = c
  <2>1. wire[l] \in Seq(Writes) /\ landed \in [Lanes -> Nat]
    BY DEF TypeOK
  <2> QED
    BY <1>1, <2>1 DEF Land
<1>3. /\ Counts(wire[l][c].item) /\ f \in Used /\ send[f] = "ready" /\ f < Seen + Slots /\ f \in Items
      /\ Index(wire[l][c].item) = f
  <2>1. f \in Used /\ Used \subseteq Items
    BY <1>1, TheHeaders DEF Follows, TypeOK
  <2>2. c <= Len(wire[l])
    BY <1>1
  <2> QED
    BY <1>1, <2>1, <2>2 DEF Follows, ItemAt
<1>4. /\ wire[l][c].item = At(f) /\ Slot(At(f)) = SlotOf(f) /\ f + 1 \in Span /\ f \in Int /\ SlotOf(f) \in Places
      /\ Word(At(f) + 1) = At(f + 1)
  BY <1>3, Counted, ItemWords, Wraps
<1>5. Sent <= f
  <2>1. Sent <= Finished(l) /\ Finished(l) <= flags[l] /\ Sent \in 0..N /\ Finished(l) \in 0..N
    BY Counters
  <2> QED
    BY <1>4, <2>1
<1>6. sendSlot[SlotOf(f)] = f
  BY <1>3, <1>5 DEF Staged
<1>7. Seen \in 0..N /\ Freed \in 0..N /\ Seen <= Freed
  <2>1. Seen \in 0..N /\ Freed \in 0..N /\ Credit \in 0..N /\ Told \in 0..N /\ Seen <= Credit /\ Credit <= Told
        /\ Told <= Freed
    BY Counted DEF Ordered, CreditsOrdered, Seen, Credit, Told, Freed
  <2> QED
    BY <2>1
<1>8. ASSUME NEW i \in Items, Freed <= i, i < f PROVE SlotOf(i) # SlotOf(f)
  <2>1. i \in Int /\ SlotOf(i) = Slot(At(i)) /\ Slots \in Int
    BY ItemWords, Sizes
  <2>2. -Slots < i - f /\ i - f < Slots /\ i # f
    BY <1>3, <1>4, <1>7, <1>8, <2>1, Sizes
  <2> QED
    BY <1>4, <2>1, <2>2, SlotsApart
<1>9. wire[l][c].kind \in {"data", "header", "flag"}
  BY <1>2 DEF Writes
<1> QED
  BY <1>1, <1>2, <1>3, <1>4, <1>6, <1>8, <1>9

\* What a write that lands leaves in its slot.
LEMMA ArrivingLands ==
    ASSUME TypeOK, Ordered, Staged, NEW l \in Lanes, InOrder(l), Arriving(l), Land(l)
    PROVE  Arriving(l)'
<1>0. PICK f : f = flags[l]
  OBVIOUS
<1>00. PICK c : c = landed[l] + 1
  OBVIOUS
<1>1. /\ f \in Items /\ f \in Used /\ wire[l][c].item = At(f) /\ Slot(At(f)) = SlotOf(f)
      /\ Word(At(f) + 1) = At(f + 1) /\ f + 1 \in Span /\ SlotOf(f) \in Places
      /\ sendSlot[SlotOf(f)] = f /\ c \in 1..Len(wire[l]) /\ Follows(l, c) /\ ItemAt(l, c) = f
      /\ wire[l][c].kind \in {"data", "header", "flag"} /\ landed'[l] = c
      /\ \A i \in Items : Freed <= i /\ i < f => SlotOf(i) # SlotOf(f)
  BY <1>0, <1>00, LandFinds
<1>2. /\ f \in Int /\ c \in Nat /\ ~(c > Len(wire[l])) /\ c + 1 \in 1..(Len(wire[l]) + 1) /\ Len(wire[l]) \in Nat
      /\ recvSlot \in [Places -> [Lanes -> Seq(Int)]] /\ flag \in [Places -> [Lanes -> Words]]
      /\ header \in [Places -> Headers] /\ flags \in [Lanes -> Nat]
  BY <1>1, ItemWords DEF TypeOK
<1>3. /\ UNCHANGED <<session, wire, laneItem, laneBytes, laneHeader, released>> /\ Freed' = Freed
  BY DEF Land, Sender, Thread, Release, Freed
<1>4. /\ PacksAt(l, landed[l] + 1)' = PacksAt(l, c + 1)
      /\ l = 0 => HeadedAt(landed[0] + 1)' = HeadedAt(c + 1)
  <2>1. PICK x : x = c + 1 /\ x = landed'[l] + 1
    BY <1>1
  <2>2. PacksAt(l, x)' = PacksAt(l, x) /\ (l = 0 => HeadedAt(x)' = HeadedAt(x))
    BY <1>2, <1>3, <2>1, CursorsStay
  <2> QED
    BY <2>1, <2>2, LandedCursor
<1>5. /\ \A i \in Items : Freed <= i /\ i < f =>
            Holds(i, l, Packs(i, l)) /\ (l = 0 => header[SlotOf(i)] = SendHeader(i))
      /\ Holds(f, l, PacksAt(l, c)) /\ (l = 0 /\ HeadedAt(c) => header[SlotOf(f)] = SendHeader(f))
      /\ \A m \in Places : \E a \in Span : flag[m][l] = At(a) /\ a <= f
  BY <1>0, <1>00 DEF Arriving
<1>6. CASE wire[l][c].kind = "data"
  <2> DEFINE q == wire[l][c].piece - 1
             s == IF wire[l][c].piece = 1 THEN <<>> ELSE recvSlot[SlotOf(f)][l]
  <2>1. /\ recvSlot' = [recvSlot EXCEPT ![SlotOf(f)][l] = Append(s, f)] /\ header' = header /\ flag' = flag
           /\ flags' = flags
    BY <1>00, <1>1, <1>6 DEF Land
  <2>2. /\ wire[l][c].piece \in 1..Packs(f, l) /\ PacksAt(l, c + 1) = wire[l][c].piece /\ (l = 0 => ~HeadedAt(c + 1))
        /\ PacksAt(l, c) = q /\ Packs(f, l) \in Nat
    <3>1. Packs(f, l) \in Nat
      BY <1>1, TheHeaders DEF TypeOK
    <3> QED
      BY <1>1, <1>2, <1>6, <3>1 DEF Follows, PacksAt
  <2>3. q \in Nat /\ q + 1 = wire[l][c].piece
    BY <2>2
  <2>4. s \in Seq(Int) /\ (q = 0 => s = <<>>) /\ (q > 0 => s = [k \in 1..q |-> f])
    <3>1. CASE wire[l][c].piece = 1
      BY <2>3, <3>1
    <3>2. CASE wire[l][c].piece # 1
      <4>1. s = recvSlot[SlotOf(f)][l] /\ q > 0
        BY <2>3, <3>2
      <4>2. s = [k \in 1..q |-> f]
        BY <1>5, <2>2, <4>1 DEF Holds
      <4>3. recvSlot[SlotOf(f)][l] \in Seq(Int)
        BY <1>1, <1>2
      <4> QED
        BY <4>1, <4>2, <4>3
    <3> QED
      BY <3>1, <3>2
  <2> HIDE DEF q, s
  <2>5. Append(s, f) = [k \in 1..(q + 1) |-> f]
    BY <1>2, <2>3, <2>4, OneMore
  <2>6. /\ recvSlot'[SlotOf(f)][l] = [k \in 1..(q + 1) |-> f]
        /\ \A i \in Items : Freed <= i /\ i < f => recvSlot'[SlotOf(i)][l] = recvSlot[SlotOf(i)][l]
    <3>1. \A i \in Items : SlotOf(i) \in Places
      BY ItemWords
    <3> QED
      BY <1>1, <1>2, <2>1, <2>5, <3>1
  <2>7. \A i \in Items : Freed' <= i /\ i < flags'[l] =>
           Holds(i, l, Packs(i, l))' /\ (l = 0 => header'[SlotOf(i)] = SendHeader(i)')
    BY <1>0, <1>3, <1>5, <2>1, <2>6 DEF Holds, Packs, SendHeader
  <2>8. Holds(flags[l], l, PacksAt(l, landed[l] + 1))'
    <3>1. flags'[l] = f /\ PacksAt(l, landed[l] + 1)' = q + 1
      BY <1>0, <1>4, <2>1, <2>2, <2>3
    <3> QED
      BY <2>6, <3>1 DEF Holds
  <2>9. (l = 0 /\ HeadedAt(landed[0] + 1) => header[SlotOf(flags[0])] = SendHeader(flags[0]))'
    BY <1>4, <2>2
  <2>10. \A m \in Places : \E a \in Span : flag'[m][l] = At(a) /\ a <= flags'[l]
    BY <1>0, <1>5, <2>1
  <2> QED
    BY <2>7, <2>8, <2>9, <2>10 DEF Arriving
<1>7. CASE wire[l][c].kind = "header"
  <2>1. /\ recvSlot' = recvSlot /\ header' = [header EXCEPT ![SlotOf(f)] = wire[l][c].value] /\ flag' = flag
           /\ flags' = flags
    BY <1>00, <1>1, <1>7 DEF Land
  <2>2. /\ l = 0 /\ wire[l][c].value = SendHeader(f) /\ PacksAt(l, c + 1) = Packs(f, l) /\ PacksAt(l, c) = Packs(f, l)
    BY <1>1, <1>2, <1>7 DEF Follows, PacksAt
  <2>3. /\ header'[SlotOf(f)] = SendHeader(f)
        /\ \A i \in Items : Freed <= i /\ i < f => header'[SlotOf(i)] = header[SlotOf(i)]
    <3>1. \A i \in Items : SlotOf(i) \in Places
      BY ItemWords
    <3> QED
      BY <1>1, <1>2, <2>1, <2>2, <3>1
  <2>4. \A i \in Items : Freed' <= i /\ i < flags'[l] =>
           Holds(i, l, Packs(i, l))' /\ (l = 0 => header'[SlotOf(i)] = SendHeader(i)')
    BY <1>0, <1>3, <1>5, <2>1, <2>3 DEF Holds, Packs, SendHeader
  <2>5. Holds(flags[l], l, PacksAt(l, landed[l] + 1))'
    <3>1. flags'[l] = f /\ PacksAt(l, landed[l] + 1)' = PacksAt(l, c)
      BY <1>0, <1>4, <2>1, <2>2
    <3> QED
      BY <1>5, <2>1, <3>1 DEF Holds
  <2>6. (l = 0 /\ HeadedAt(landed[0] + 1) => header[SlotOf(flags[0])] = SendHeader(flags[0]))'
    BY <1>0, <1>3, <2>1, <2>2, <2>3 DEF SendHeader
  <2>7. \A m \in Places : \E a \in Span : flag'[m][l] = At(a) /\ a <= flags'[l]
    BY <1>0, <1>5, <2>1
  <2> QED
    BY <2>4, <2>5, <2>6, <2>7 DEF Arriving
<1>8. CASE wire[l][c].kind = "flag"
  <2>1. /\ recvSlot' = recvSlot /\ header' = header /\ flag' = [flag EXCEPT ![SlotOf(f)][l] = At(f + 1)]
        /\ flags' = [flags EXCEPT ![l] = f + 1]
    BY <1>0, <1>00, <1>1, <1>8 DEF Land
  <2>2. /\ PacksAt(l, c + 1) = 0 /\ (l = 0 => ~HeadedAt(c + 1)) /\ PacksAt(l, c) = Packs(f, l)
    BY <1>1, <1>2, <1>8 DEF Follows, PacksAt
  <2>3. l = 0 => HeadedAt(c)
    BY <1>1, <1>2, <1>8 DEF HeadedAt
  <2>4. flags'[l] = f + 1
    BY <1>2, <2>1
  <2>5. \A i \in Items : i < f + 1 => i < f \/ i = f
    BY <1>2, Sizes DEF Items
  <2>6. \A i \in Items : Freed <= i /\ i < f + 1 =>
           Holds(i, l, Packs(i, l)) /\ (l = 0 => header[SlotOf(i)] = SendHeader(i))
    BY <1>5, <2>2, <2>3, <2>5
  <2>7. \A i \in Items : Freed' <= i /\ i < flags'[l] =>
           Holds(i, l, Packs(i, l))' /\ (l = 0 => header'[SlotOf(i)] = SendHeader(i)')
    BY <1>3, <2>1, <2>4, <2>6 DEF Holds, Packs, SendHeader
  <2>8. Holds(flags[l], l, PacksAt(l, landed[l] + 1))'
    BY <1>4, <2>2 DEF Holds
  <2>9. (l = 0 /\ HeadedAt(landed[0] + 1) => header[SlotOf(flags[0])] = SendHeader(flags[0]))'
    BY <1>4, <2>2
  <2>10. ASSUME NEW m \in Places PROVE \E a \in Span : flag'[m][l] = At(a) /\ a <= flags'[l]
    <3>1. CASE m = SlotOf(f)
      <4>1. flag'[m][l] = At(f + 1) /\ f + 1 <= f + 1
        BY <1>1, <1>2, <2>1, <3>1
      <4> QED
        BY <1>1, <2>4, <4>1
    <3>2. CASE m # SlotOf(f)
      <4>1. flag'[m][l] = flag[m][l]
        BY <1>2, <2>1, <3>2
      <4>2. \A a \in Span : a <= f => a <= f + 1
        BY <1>2, Sizes DEF Span
      <4> QED
        BY <1>5, <2>4, <4>1, <4>2
    <3> QED
      BY <3>1, <3>2
  <2> QED
    BY <2>7, <2>8, <2>9, <2>10 DEF Arriving
<1> QED
  BY <1>1, <1>6, <1>7, <1>8

\* The receive slots, by actions.
LEMMA ArrivingStep ==
    ASSUME TypeOK, Ordered, Staged, Received, \A x \in Lanes : InOrder(x) /\ Arriving(x), [Next]_vars, NEW x \in Lanes
    PROVE  Arriving(x)'
<1>00. /\ Arriving(x) /\ flags[x] \in Nat /\ landed \in [Lanes -> Nat] /\ Freed \in 0..N
          /\ SlotOf(flags[x]) \in Places
       /\ recvSlot \in [Places -> [Lanes -> Seq(Int)]] /\ flag \in [Places -> [Lanes -> Words]]
       /\ (landed'[x] = landed[x] + 1 \/ Holding(x))
  <2>1. /\ flags \in [Lanes -> Nat] /\ landed \in [Lanes -> Nat] /\ recvSlot \in [Places -> [Lanes -> Seq(Int)]]
        /\ flag \in [Places -> [Lanes -> Words]]
    BY DEF TypeOK
  <2>2. Freed \in 0..N
    BY Counted DEF Ordered, CreditsOrdered, Freed
  <2>3. SlotOf(flags[x]) = Slot(At(flags[x])) /\ flags[x] \in Int
    BY <2>1 DEF SlotOf, At
  <2>4. SlotOf(flags[x]) \in Places
    BY <2>3, SlotsOfItems
  <2>5. landed'[x] = landed[x] + 1 \/ Holding(x)
    BY InOrderStep
  <2> QED
    BY <2>1, <2>2, <2>4, <2>5
<1>001. ASSUME UNCHANGED <<session, landed, flags, recvSlot, flag, header, released>> PROVE Arriving(x)'
  <2>1. Holding(x)
    BY <1>00, <1>001
  <2>2. Freed' = Freed
    BY <1>001 DEF Freed
  <2> QED
    BY <1>00, <1>001, <2>1, <2>2, ArrivingStays
<1>1. ASSUME NEW i \in Used, SendBegin(i) PROVE Arriving(x)'
  BY <1>1, <1>001 DEF SendBegin, Thread, Wires, Memory, Receiver, Release, Control
<1>2. ASSUME NEW i \in Used, SendReady(i) PROVE Arriving(x)'
  BY <1>2, <1>001 DEF SendReady, Thread, Wires, Memory, Receiver, Release, Control
<1>3. ASSUME NEW i \in Used, SendQuit(i) PROVE Arriving(x)'
  BY <1>3, <1>001 DEF SendQuit, Thread, Wires, Memory, Receiver, Release
<1>4. ASSUME ReadCredit PROVE Arriving(x)'
  BY <1>4, <1>001 DEF ReadCredit, Sender, Memory, Receiver, Release, Control
<1>5. ASSUME NEW l \in Lanes, PostData(l) PROVE Arriving(x)'
  BY <1>5, <1>001 DEF PostData, Sender, Memory, Receiver, Release, Control
<1>6. ASSUME PostHeader PROVE Arriving(x)'
  BY <1>6, <1>001 DEF PostHeader, Sender, Memory, Receiver, Release, Control
<1>7. ASSUME NEW l \in Lanes, PostFlag(l) PROVE Arriving(x)'
  BY <1>7, <1>001 DEF PostFlag, Sender, Memory, Receiver, Release, Control
<1>8. ASSUME NEW l \in Lanes, Complete(l) PROVE Arriving(x)'
  <2>1. landed' = [landed EXCEPT ![l] = landed[l] - 1]
        /\ UNCHANGED <<session, flags, recvSlot, flag, header, released>>
    BY <1>8, <1>00 DEF Complete, Sender, Memory, Receiver, Release, Control
  <2>2. Holding(x)
    BY <1>00, <2>1
  <2>3. Freed' = Freed
    BY <2>1 DEF Freed
  <2> QED
    BY <1>00, <2>1, <2>2, <2>3, ArrivingStays
<1>9. ASSUME StoreSent PROVE Arriving(x)'
  BY <1>9, <1>001 DEF StoreSent, Sender, Wires, Memory, Receiver, Release, Control
<1>10. ASSUME NEW l \in Lanes, Land(l) PROVE Arriving(x)'
  <2>1. CASE x = l
    BY <1>10, <2>1, ArrivingLands
  <2>2. CASE x # l
    <3>1. landed' = [landed EXCEPT ![l] = landed[l] + 1] /\ UNCHANGED <<session, released>>
      BY <1>10, <1>00 DEF Land, Sender, Thread, Receiver, Release, Control
    <3>2. Holding(x) /\ Freed' = Freed
      BY <1>00, <2>2, <3>1 DEF Freed
    <3>3. PICK f, c : f = flags[l] /\ c = landed[l] + 1
      OBVIOUS
    <3>4. wire[l][c].item = At(f) /\ Slot(At(f)) \in Places /\ Follows(l, c)
      BY <1>10, <3>3, LandFinds
    <3>5. flags'[x] = flags[x]
      BY <1>10, <2>2, FlagsLand
    <3>6. x = 0 => header' = header
      <4>1. l # 0 => wire[l][c].kind # "header"
        BY <3>4 DEF Follows
      <4> QED
        BY <1>10, <2>2, <3>3, <4>1 DEF Land
    <3>7. \A m \in Places : recvSlot'[m][x] = recvSlot[m][x]
      <4>1. CASE wire[l][c].kind = "data"
        <5>1. PICK z : recvSlot' = [recvSlot EXCEPT ![Slot(At(f))][l] = z]
          BY <1>10, <3>3, <3>4, <4>1 DEF Land
        <5> QED
          BY <1>00, <2>2, <5>1
      <4>2. CASE wire[l][c].kind # "data"
        BY <1>10, <3>3, <4>2 DEF Land
      <4> QED
        BY <4>1, <4>2
    <3>8. \A m \in Places : flag'[m][x] = flag[m][x]
      <4>1. CASE wire[l][c].kind = "flag"
        <5>1. PICK z : flag' = [flag EXCEPT ![Slot(At(f))][l] = z]
          BY <1>10, <3>3, <3>4, <4>1 DEF Land
        <5> QED
          BY <1>00, <2>2, <5>1
      <4>2. CASE wire[l][c].kind # "flag"
        BY <1>10, <3>3, <4>2 DEF Land
      <4> QED
        BY <4>1, <4>2
    <3> QED
      BY <1>00, <3>1, <3>2, <3>5, <3>6, <3>7, <3>8, ArrivingStays
  <2> QED
    BY <2>1, <2>2
<1>11. ASSUME LandCredit PROVE Arriving(x)'
  BY <1>11, <1>001 DEF LandCredit, Sender, Thread, Memory, Receiver, Release, Control
<1>12. ASSUME NEW i \in Used, RecvBegin(i) PROVE Arriving(x)'
  BY <1>12, <1>001 DEF RecvBegin, Sender, Thread, Wires, Memory, Release
<1>13. ASSUME NEW i \in Used, NEW l \in Lanes, RecvCopy(i, l) PROVE Arriving(x)'
  BY <1>13, <1>001 DEF RecvCopy, Sender, Thread, Wires, Memory, Release, Control
<1>14. ASSUME NEW i \in Used, RecvDone(i) PROVE Arriving(x)'
  BY <1>14, <1>001 DEF RecvDone, Sender, Thread, Wires, Memory, Release, Control
<1>15. ASSUME NEW i \in Used, RecvQuit(i) PROVE Arriving(x)'
  BY <1>15, <1>001 DEF RecvQuit, Sender, Thread, Wires, Memory, Release
<1>16. ASSUME ReleaseItem PROVE Arriving(x)'
  <2>1. UNCHANGED <<session, landed, flags, recvSlot, flag, header>> /\ released' = Word(released + 1)
    BY <1>16 DEF ReleaseItem, Sender, Thread, Wires, Memory, Receiver, Control
  <2>2. Holding(x)
    BY <1>00, <2>1
  <2>3. Freed' = Freed + 1
    <3>1. Freed \in Items
      BY <1>16, ReleaseFinds DEF ReleaseItem
    <3>2. Counts(released) /\ Index(released) < N
      BY <3>1, Sizes DEF Ordered, CreditsOrdered, Freed, Items
    <3> QED
      BY <2>1, <3>2, Advance DEF Freed
  <2>4. \A i \in Items : Freed' <= i => Freed <= i
    BY <1>00, <2>3, Sizes DEF Items
  <2> QED
    BY <1>00, <2>1, <2>2, <2>4, ArrivingStays
<1>17. ASSUME SendCredit PROVE Arriving(x)'
  BY <1>17, <1>001 DEF SendCredit, Sender, Thread, Memory, Receiver, Control
<1>18. ASSUME NEW r \in Ranks, Notice(r) PROVE Arriving(x)'
  BY <1>18, <1>001 DEF Notice, Sender, Thread, Wires, Memory, Receiver, Release, Stop
<1>19. ASSUME NEW r \in Ranks, NEW l \in Lanes, WriteFails(r, l) PROVE Arriving(x)'
  BY <1>19, <1>001 DEF WriteFails, Sender, Thread, Memory, Receiver, Release, Stop
<1>20. CASE UNCHANGED vars
  BY <1>20, <1>001 DEF vars, Sender, Thread, Wires, Memory, Receiver, Release, Control
<1> QED
  BY <1>1, <1>2, <1>3, <1>4, <1>5, <1>6, <1>7, <1>8, <1>9, <1>10, <1>11, <1>12, <1>13,
     <1>14, <1>15, <1>16, <1>17, <1>18, <1>19, <1>20
     DEF Next, Processes, SendKernel, RecvKernel, SendThread, RecvThread, Network, Ranks

-----------------------------------------------------------------------------
(* The receive blocks.                                                     *)

\* What a receive block finds whose flags hold its tag: its item arrived, with its own header.
LEMMA ArrivedFinds ==
    ASSUME TypeOK, Ordered, Received, \A l \in Lanes : Arriving(l), NEW i \in Items, recv[i] # "done", Arrived(i)
    PROVE  Landed(i) /\ header[SlotOf(i)] = SendHeader(i)
<1>1. Freed \in 0..N /\ ~(i < Freed) /\ i \in Int
  BY Counted, ItemWords DEF Ordered, CreditsOrdered, Freed, Received
<1>2. Freed <= i
  BY <1>1
<1>3. ASSUME NEW l \in Lanes PROVE flags[l] > i
  <2>1. SlotOf(i) \in Places /\ flag[SlotOf(i)][l] = At(i + 1) /\ i + 1 \in Span
    BY ItemWords DEF Arrived
  <2>2. PICK a \in Span : flag[SlotOf(i)][l] = At(a) /\ a <= flags[l]
    BY <2>1 DEF Arriving
  <2>3. a = i + 1
    BY <2>1, <2>2, Distinct
  <2>4. flags[l] \in Nat
    BY DEF TypeOK
  <2> QED
    BY <1>1, <2>2, <2>3, <2>4
<1>4. 0 \in Lanes /\ i < flags[0]
  <2>1. 0 \in Lanes /\ flags[0] \in Nat
    BY TheLanes DEF TypeOK
  <2> QED
    BY <1>1, <1>3, <2>1
<1> QED
  BY <1>2, <1>3, <1>4 DEF Arriving, Landed

\* What a receive block copies: the packs of its item.
LEMMA CopyFinds ==
    ASSUME TypeOK, Ordered, Received, NEW l \in Lanes, Arriving(l), NEW i \in Items, recv[i] = "copy"
    PROVE  LET stripe == recvSlot[SlotOf(i)][l]
           IN  [k \in 1..LaneSplit(RecvHeader(i)[1], l) |-> IF k \in DOMAIN stripe THEN stripe[k] ELSE Nothing]
               = [k \in 1..Packs(i, l) |-> i]
<1> DEFINE stripe == recvSlot[SlotOf(i)][l]
           p == Packs(i, l)
<1>1. Freed \in 0..N /\ ~(i < Freed) /\ i \in Int
  BY Counted, ItemWords DEF Ordered, CreditsOrdered, Freed, Received
<1>2. Freed <= i /\ i < flags[l] /\ i \in Used /\ SendHeader(i) = RecvHeader(i)
  <2>1. flags[l] > i /\ flags[l] \in Nat
    BY DEF Received, Landed, TypeOK
  <2>2. i \in Used /\ SendHeader(i) = RecvHeader(i)
    BY DEF Received
  <2> QED
    BY <1>1, <2>1, <2>2
<1>3. p \in Nat /\ LaneSplit(RecvHeader(i)[1], l) = p
  BY <1>2, TheHeaders DEF TypeOK, Packs
<1>4. p > 0 => stripe = [k \in 1..p |-> i]
  BY <1>2 DEF Arriving, Holds
<1> HIDE DEF p, stripe
<1>5. ASSUME NEW k \in 1..p PROVE k \in DOMAIN stripe /\ stripe[k] = i
  <2>1. p > 0
    BY <1>3
  <2> QED
    BY <1>4, <2>1
<1>6. [k \in 1..p |-> IF k \in DOMAIN stripe THEN stripe[k] ELSE Nothing] = [k \in 1..p |-> i]
  BY <1>5
<1> QED
  BY <1>3, <1>6 DEF p, stripe

\* The receive blocks, by actions.
LEMMA ReceivedStep ==
    ASSUME TypeOK, Ordered, Staged, Received, \A x \in Lanes : InOrder(x) /\ Arriving(x), [Next]_vars
    PROVE  Received'
<1>00. /\ recv \in [Items -> {"none", "wait", "copy", "done", "size", "quit"}] /\ Used \subseteq Items
       /\ consumed \in [Places -> Words] /\ out \in [Items -> [Lanes -> Seq(Int)]]
       /\ \A a \in Span : a >= 1 => a - 1 \in Items
  <2>1. \A a \in Span : a >= 1 => a - 1 \in Items
    BY Sizes DEF Span, Items
  <2> QED
    BY <2>1, TheHeaders DEF TypeOK
<1>000. ASSUME UNCHANGED session
        PROVE  /\ Used' = Used /\ \A i : SendHeader(i)' = SendHeader(i) /\ RecvHeader(i)' = RecvHeader(i)
               /\ \A i, l : Packs(i, l)' = Packs(i, l)
  BY <1>000 DEF Used, SendHeader, RecvHeader, Packs
<1>001. ASSUME UNCHANGED <<session, consumed, recv, out, released, flags>> PROVE Received'
  <2>1. Freed' = Freed /\ \A j : Landed(j)' = Landed(j)
    BY <1>001 DEF Freed, Landed
  <2> QED
    BY <1>000, <1>001, <2>1 DEF Received
<1>1. ASSUME NEW i \in Used, SendBegin(i) PROVE Received'
  BY <1>1, <1>001 DEF SendBegin, Thread, Wires, Memory, Receiver, Release, Control
<1>2. ASSUME NEW i \in Used, SendReady(i) PROVE Received'
  BY <1>2, <1>001 DEF SendReady, Thread, Wires, Memory, Receiver, Release, Control
<1>3. ASSUME NEW i \in Used, SendQuit(i) PROVE Received'
  BY <1>3, <1>001 DEF SendQuit, Thread, Wires, Memory, Receiver, Release
<1>4. ASSUME ReadCredit PROVE Received'
  BY <1>4, <1>001 DEF ReadCredit, Sender, Memory, Receiver, Release, Control
<1>5. ASSUME NEW l \in Lanes, PostData(l) PROVE Received'
  BY <1>5, <1>001 DEF PostData, Sender, Memory, Receiver, Release, Control
<1>6. ASSUME PostHeader PROVE Received'
  BY <1>6, <1>001 DEF PostHeader, Sender, Memory, Receiver, Release, Control
<1>7. ASSUME NEW l \in Lanes, PostFlag(l) PROVE Received'
  BY <1>7, <1>001 DEF PostFlag, Sender, Memory, Receiver, Release, Control
<1>8. ASSUME NEW l \in Lanes, Complete(l) PROVE Received'
  BY <1>8, <1>001 DEF Complete, Sender, Memory, Receiver, Release, Control
<1>9. ASSUME StoreSent PROVE Received'
  BY <1>9, <1>001 DEF StoreSent, Sender, Wires, Memory, Receiver, Release, Control
<1>10. ASSUME NEW l \in Lanes, Land(l) PROVE Received'
  <2>1. UNCHANGED <<session, consumed, recv, out, released>> /\ Freed' = Freed
    BY <1>10 DEF Land, Sender, Thread, Receiver, Release, Control, Freed
  <2>2. ASSUME NEW i \in Items, Landed(i) PROVE Landed(i)'
    <3>1. \A x \in Lanes : flags'[x] >= flags[x] /\ flags[x] > i /\ flags[x] \in Nat /\ flags'[x] \in Nat
      BY <1>10, <2>2, FlagsLand, LandTyped DEF Landed, TypeOK
    <3>2. i \in Int
      BY ItemWords
    <3> QED
      BY <3>1, <3>2 DEF Landed
  <2> QED
    BY <1>000, <2>1, <2>2 DEF Received
<1>11. ASSUME LandCredit PROVE Received'
  BY <1>11, <1>001 DEF LandCredit, Sender, Thread, Memory, Receiver, Release, Control
<1>12. ASSUME NEW i \in Used, RecvBegin(i) PROVE Received'
  <2>1. /\ recv[i] = "wait" /\ i \in Items /\ Arrived(i) /\ UNCHANGED <<session, consumed, out, released, flags>>
        /\ IF header[SlotOf(i)] = RecvHeader(i) THEN recv' = [recv EXCEPT ![i] = "copy"]
           ELSE recv' = [recv EXCEPT ![i] = "size"]
    BY <1>12, <1>00 DEF RecvBegin, Sender, Wires, Release
  <2>2. Landed(i) /\ header[SlotOf(i)] = SendHeader(i)
    BY <2>1, ArrivedFinds
  <2>3. PICK v \in {"copy", "size"} : /\ recv' = [recv EXCEPT ![i] = v]
                                      /\ v = "copy" => SendHeader(i) = RecvHeader(i)
                                      /\ v = "size" => SendHeader(i) # RecvHeader(i)
    BY <2>1, <2>2
  <2>4. recv'[i] = v /\ \A j \in Items : (j # i => recv'[j] = recv[j]) /\ (recv'[j] = "done" <=> recv[j] = "done")
    BY <1>00, <2>1, <2>3
  <2>5. Freed' = Freed /\ \A j : Landed(j)' = Landed(j)
    BY <2>1 DEF Freed, Landed
  <2>6. \A j \in Items : j < Freed => recv'[j] = "done"
    BY <2>4 DEF Received
  <2>7. \A j \in Items : recv'[j] \in {"copy", "done", "size"} => j \in Used /\ Landed(j)
    BY <1>12, <2>2, <2>4 DEF Received
  <2>8. /\ \A j \in Items : recv'[j] \in {"copy", "done"} => SendHeader(j) = RecvHeader(j)
        /\ \A j \in Items : recv'[j] = "size" => SendHeader(j) # RecvHeader(j)
    BY <2>3, <2>4 DEF Received
  <2>9. \A m \in Places : \E a \in Span : consumed[m] = At(a) /\ (a >= 1 => recv'[a - 1] = "done")
    BY <1>00, <2>4 DEF Received
  <2>10. ASSUME NEW j \in Items, NEW l \in Lanes
         PROVE  /\ recv'[j] \notin {"copy", "done"} => out[j][l] = NotCopied
                /\ recv'[j] = "done" => out[j][l] # NotCopied
                /\ out[j][l] # NotCopied => out[j][l] = [k \in 1..Packs(j, l) |-> j]
    <3>1. recv'[j] \notin {"copy", "done"} => recv[j] \notin {"copy", "done"}
      BY <2>1, <2>4
    <3> QED
      BY <2>4, <3>1 DEF Received
  <2> QED
    BY <1>000, <2>1, <2>5, <2>6, <2>7, <2>8, <2>9, <2>10 DEF Received
<1>13. ASSUME NEW i \in Used, NEW l \in Lanes, RecvCopy(i, l) PROVE Received'
  <2>1. recv[i] = "copy" /\ i \in Items /\ UNCHANGED <<session, consumed, recv, released, flags>>
    BY <1>13, <1>00 DEF RecvCopy, Sender, Wires, Release
  <2>2. out' = [out EXCEPT ![i][l] = [k \in 1..Packs(i, l) |-> i]]
    <3>1. PICK z : z = [k \in 1..Packs(i, l) |-> i] /\ out' = [out EXCEPT ![i][l] = z]
      BY <1>13, <2>1, CopyFinds DEF RecvCopy
    <3> QED
      BY <3>1
  <2>3. Freed' = Freed /\ \A j : Landed(j)' = Landed(j)
    BY <2>1 DEF Freed, Landed
  <2>4. ASSUME NEW j \in Items, NEW x \in Lanes
        PROVE  /\ recv[j] \notin {"copy", "done"} => out'[j][x] = NotCopied
               /\ recv[j] = "done" => out'[j][x] # NotCopied
               /\ out'[j][x] # NotCopied => out'[j][x] = [k \in 1..Packs(j, x) |-> j]
    <3>1. CASE j = i /\ x = l
      <4>1. out'[j][x] = [k \in 1..Packs(j, x) |-> j]
        BY <1>00, <2>1, <2>2, <3>1
      <4> QED
        BY <2>1, <3>1, <4>1
    <3>2. CASE ~(j = i /\ x = l)
      <4>1. out'[j][x] = out[j][x]
        BY <1>00, <2>1, <2>2, <3>2
      <4> QED
        BY <4>1 DEF Received
    <3> QED
      BY <3>1, <3>2
  <2> QED
    BY <1>000, <2>1, <2>3, <2>4 DEF Received
<1>14. ASSUME NEW i \in Used, RecvDone(i) PROVE Received'
  <2>1. /\ recv[i] = "copy" /\ i \in Items /\ Copied(i) /\ UNCHANGED <<session, out, released, flags>>
        /\ recv' = [recv EXCEPT ![i] = "done"] /\ consumed' = [consumed EXCEPT ![SlotOf(i)] = Tag(i)]
    BY <1>14, <1>00 DEF RecvDone, Sender, Wires, Release
  <2>2. recv'[i] = "done" /\ \A j \in Items : (j # i => recv'[j] = recv[j]) /\ (recv[j] = "done" => recv'[j] = "done")
    BY <1>00, <2>1
  <2>3. Freed' = Freed /\ \A j : Landed(j)' = Landed(j)
    BY <2>1 DEF Freed, Landed
  <2>4. \A j \in Items : j < Freed => recv'[j] = "done"
    BY <2>2 DEF Received
  <2>5. \A j \in Items : /\ recv'[j] \in {"copy", "done", "size"} => recv[j] \in {"copy", "done", "size"}
                         /\ recv'[j] \in {"copy", "done"} => recv[j] \in {"copy", "done"}
                         /\ recv'[j] = "size" => recv[j] = "size"
    BY <2>1, <2>2
  <2>6. ASSUME NEW m \in Places PROVE \E a \in Span : consumed'[m] = At(a) /\ (a >= 1 => recv'[a - 1] = "done")
    <3>1. CASE m = SlotOf(i)
      <4>1. consumed'[m] = At(i + 1) /\ i + 1 \in Span /\ (i + 1) - 1 = i
        BY <1>00, <2>1, <3>1, ItemWords
      <4> QED
        BY <2>2, <4>1
    <3>2. CASE m # SlotOf(i)
      <4>1. consumed'[m] = consumed[m]
        BY <1>00, <2>1, <3>2
      <4> QED
        BY <1>00, <2>2, <4>1 DEF Received
    <3> QED
      BY <3>1, <3>2
  <2>7. ASSUME NEW j \in Items, NEW l \in Lanes
        PROVE  /\ recv'[j] \notin {"copy", "done"} => out[j][l] = NotCopied
               /\ recv'[j] = "done" => out[j][l] # NotCopied
               /\ out[j][l] # NotCopied => out[j][l] = [k \in 1..Packs(j, l) |-> j]
    <3>1. CASE j = i
      BY <2>1, <2>2, <3>1 DEF Copied, Received
    <3>2. CASE j # i
      BY <2>2, <3>2 DEF Received
    <3> QED
      BY <3>1, <3>2
  <2> QED
    BY <1>000, <2>1, <2>3, <2>4, <2>5, <2>6, <2>7 DEF Received
<1>15. ASSUME NEW i \in Used, RecvQuit(i) PROVE Received'
  <2>1. /\ recv[i] = "wait" /\ i \in Items /\ UNCHANGED <<session, consumed, out, released, flags>>
        /\ recv' = [recv EXCEPT ![i] = "quit"]
    BY <1>15, <1>00 DEF RecvQuit, Sender, Wires, Release
  <2>2. recv'[i] = "quit" /\ \A j \in Items : (j # i => recv'[j] = recv[j])
        /\ (recv[j] = "done" <=> recv'[j] = "done")
    BY <1>00, <2>1
  <2>3. Freed' = Freed /\ \A j : Landed(j)' = Landed(j)
    BY <2>1 DEF Freed, Landed
  <2>4. \A j \in Items : j < Freed => recv'[j] = "done"
    BY <2>2 DEF Received
  <2>5. \A j \in Items : /\ recv'[j] \in {"copy", "done", "size"} => recv[j] \in {"copy", "done", "size"}
                         /\ recv'[j] \in {"copy", "done"} <=> recv[j] \in {"copy", "done"}
                         /\ recv'[j] = "size" => recv[j] = "size"
    BY <2>1, <2>2
  <2>6. \A m \in Places : \E a \in Span : consumed[m] = At(a) /\ (a >= 1 => recv'[a - 1] = "done")
    BY <1>00, <2>2 DEF Received
  <2> QED
    BY <1>000, <2>1, <2>2, <2>3, <2>4, <2>5, <2>6 DEF Received
<1>16. ASSUME ReleaseItem PROVE Received'
  <2>1. UNCHANGED <<session, consumed, recv, out, flags>> /\ released' = Word(released + 1)
    BY <1>16 DEF ReleaseItem, Sender, Thread, Wires, Memory, Receiver, Control
  <2>2. Freed \in Items /\ recv[Freed] = "done"
    BY <1>16, ReleaseFinds DEF ReleaseItem
  <2>3. Freed' = Freed + 1
    <3>1. Counts(released) /\ Index(released) < N
      BY <2>2, Sizes DEF Ordered, CreditsOrdered, Freed, Items
    <3> QED
      BY <2>1, <3>1, Advance DEF Freed
  <2>4. \A i \in Items : i < Freed' => recv[i] = "done"
    <3>1. \A i \in Items : i < Freed + 1 => i < Freed \/ i = Freed
      BY <2>2, Sizes DEF Items
    <3> QED
      BY <2>2, <2>3, <3>1 DEF Received
  <2>5. \A j : Landed(j)' = Landed(j)
    BY <2>1 DEF Landed
  <2> QED
    BY <1>000, <2>1, <2>4, <2>5 DEF Received
<1>17. ASSUME SendCredit PROVE Received'
  BY <1>17, <1>001 DEF SendCredit, Sender, Thread, Memory, Receiver, Control
<1>18. ASSUME NEW r \in Ranks, Notice(r) PROVE Received'
  BY <1>18, <1>001 DEF Notice, Sender, Thread, Wires, Memory, Receiver, Release, Stop
<1>19. ASSUME NEW r \in Ranks, NEW l \in Lanes, WriteFails(r, l) PROVE Received'
  BY <1>19, <1>001 DEF WriteFails, Sender, Thread, Memory, Receiver, Release, Stop
<1>20. CASE UNCHANGED vars
  BY <1>20, <1>001 DEF vars, Sender, Thread, Wires, Memory, Receiver, Release, Control
<1> QED
  BY <1>1, <1>2, <1>3, <1>4, <1>5, <1>6, <1>7, <1>8, <1>9, <1>10, <1>11, <1>12, <1>13,
     <1>14, <1>15, <1>16, <1>17, <1>18, <1>19, <1>20
     DEF Next, Processes, SendKernel, RecvKernel, SendThread, RecvThread, Network, Ranks

-----------------------------------------------------------------------------
(* The invariant.                                                          *)

\* The words that the slots hold at the beginning are those of items before the first.
LEMMA BeforeFirst ==
    ASSUME NEW m \in Places
    PROVE  Before(m) \in Words /\ \E a \in Span : Before(m) = At(a) /\ a <= 0
<1> DEFINE x == First + Width - 1 - m
<1>1. x \in Int /\ Slots \in Nat \ {0} /\ First \in Int /\ Width \in Nat \ {0}
  BY Sizes DEF Places
<1> HIDE DEF x
<1>2. PICK q \in Int, r \in 0..(Slots - 1) : r = x % Slots /\ x = Slots * q + r
  BY <1>1, Division, Zenon
<1>3. Before(m) = Word(First + Width - r)
  BY <1>2, Zenon DEF Before, x
<1>4. r \in Int /\ -r \in Int /\ 0 - r \in Int /\ First + Width - r = First + ((0 - r) + Width)
      /\ 0 - r \in Span /\ 0 - r <= 0
  BY <1>1, Sizes DEF Span
<1>5. At((0 - r) + Width) = At(0 - r) /\ At(0 - r) \in Words
  BY <1>4, Wraps, Zenon
<1>6. Before(m) = At(0 - r)
  BY <1>3, <1>4, <1>5 DEF At
<1> QED
  BY <1>4, <1>5, <1>6

\* The first word is that of item 0.
LEMMA FirstWord == First = At(0) /\ First \in Words /\ Counts(First) /\ Index(First) = 0
<1>1. First \in 0..(Width - 1) /\ Width \in Nat \ {0} /\ First + 0 = Width * 0 + First /\ First + 0 \in Int
      /\ 0 \in Int
  BY Sizes, P2PAssumption
<1>2. At(0) = First
  BY <1>1, Remainder, Zenon DEF At, Word
<1>3. 0 \in 0..N
  BY Sizes
<1> QED
  BY <1>1, <1>2, <1>3, Indices DEF Words

\* The invariant holds at the beginning.
LEMMA InvInit == ASSUME Init PROVE Inv
<1>1. /\ session \in Sessions /\ Used \subseteq Items /\ session.window \in Nat /\ Inflight \in Nat
  BY TheHeaders, P2PAssumption DEF Init
<1>2. /\ \A m \in Places : Before(m) \in Words /\ \E a \in Span : Before(m) = At(a) /\ a <= 0
      /\ First \in Words /\ Counts(First) /\ Index(First) = 0
  BY BeforeFirst, FirstWord
<1>3. <<>> \in Seq(Writes) /\ <<>> \in Seq(Words) /\ <<>> \in Seq(Int) /\ <<0, FALSE>> \in Headers
      /\ NotCopied \in Seq(Int)
  <2>1. <<>> \in Seq(Writes) /\ <<>> \in Seq(Words) /\ <<>> \in Seq(Int)
    OBVIOUS
  <2>2. <<0, FALSE>> \in Headers
    BY DEF Headers
  <2>3. Nothing \in Int
    BY DEF Nothing
  <2>4. <<Nothing>> \in Seq(Int)
    BY <2>3
  <2> QED
    BY <2>1, <2>2, <2>4 DEF NotCopied
<1>4. TypeOK
  <2>1. RestTyped
    <3>1. /\ send \in [Items -> {"none", "wait", "copy", "ready", "quit"}]
          /\ recv \in [Items -> {"none", "wait", "copy", "done", "size", "quit"}]
      BY DEF Init
    <3>2. /\ sendSlot \in [Places -> Items \cup {Nothing, Torn}] /\ desc \in [Places -> Headers]
          /\ header \in [Places -> Headers] /\ ready \in [Places -> Words] /\ consumed \in [Places -> Words]
      BY <1>2, <1>3 DEF Init
    <3>3. /\ {sent, credit, creditSeen, released, credited} \subseteq Words
          /\ laneItem \in [Lanes -> Words] /\ laneDone \in [Lanes -> Words]
          /\ laneBytes \in [Lanes -> Nat] /\ laneHeader \in BOOLEAN /\ flags \in [Lanes -> Nat]
      BY <1>2 DEF Init
    <3>4. credits \in Seq(Words) /\ Len(credits) <= Inflight
      BY <1>1, <1>3 DEF Init
    <3>5. recvSlot \in [Places -> [Lanes -> Seq(Int)]] /\ flag \in [Places -> [Lanes -> Words]]
      BY <1>2, <1>3 DEF Init
    <3>6. out \in [Items -> [Lanes -> Seq(Int)]]
      BY <1>3 DEF Init
    <3>7. /\ poison \in [Ranks -> BOOLEAN] /\ failed \in [Ranks -> BOOLEAN] /\ abort \in [Ranks -> BOOLEAN]
          /\ broken \in SUBSET Lanes
      BY DEF Init
    <3> QED
      BY <1>1, <3>1, <3>2, <3>3, <3>4, <3>5, <3>6, <3>7 DEF RestTyped
  <2>2. WireTyped
    BY <1>1, <1>3 DEF Init, WireTyped
  <2>3. unacked \in [Lanes -> 0..session.window]
    BY <1>1 DEF Init
  <2> QED
    BY <2>1, <2>2, <2>3 DEF TypeOK, RestTyped, WireTyped
<1>5. \A l \in Lanes : wire[l] = <<>> /\ landed[l] = 0 /\ flags[l] = 0 /\ laneBytes[l] = 0 /\ unacked[l] = 0
      /\ laneHeader = FALSE
  BY DEF Init
<1>6. WindowExact
  <2>1. \A l \in Lanes : {k \in DOMAIN wire[l] : wire[l][k].kind = "data" /\ ~wire[l][k].proven} = {}
    BY <1>5
  <2> QED
    BY <1>5, <2>1, FS_EmptySet DEF WindowExact
<1>7. /\ \A l \in Lanes : Posted(l) = 0 /\ Finished(l) = 0 /\ Counts(laneItem[l]) /\ Counts(laneDone[l])
      /\ Sent = 0 /\ Seen = 0 /\ Credit = 0 /\ Told = 0 /\ Freed = 0
      /\ Counts(sent) /\ Counts(creditSeen) /\ Counts(credit) /\ Counts(credited) /\ Counts(released)
  BY <1>2 DEF Init, Posted, Finished, Sent, Seen, Credit, Told, Freed
<1>8. Ordered
  <2>1. Len(credits) = 0
    BY DEF Init
  <2> QED
    BY <1>5, <1>7, <2>1 DEF Ordered, LanesOrdered, CreditsOrdered
<1>9. \A i \in Items : ~(i < 0)
  BY Sizes DEF Items
<1>10. \A a \in Span : a <= 0 => ~(a >= 1)
  BY Sizes DEF Span
<1>11. Staged
  <2>1. \A i \in Items : send[i] \notin {"copy", "ready"}
    BY DEF Init
  <2>2. \A m \in Places : \E a \in Span : ready[m] = At(a) /\ a <= 0
    BY <1>2 DEF Init
  <2> QED
    BY <1>7, <1>9, <1>10, <2>1, <2>2 DEF Staged
<1>12. Received
  <2>1. \A i \in Items : recv[i] \notin {"copy", "done", "size"} /\ \A l \in Lanes : out[i][l] = NotCopied
    BY DEF Init
  <2>2. \A m \in Places : \E a \in Span : consumed[m] = At(a) /\ a <= 0
    BY <1>2 DEF Init
  <2> QED
    BY <1>7, <1>9, <1>10, <2>1, <2>2 DEF Received
<1>13. ASSUME NEW l \in Lanes PROVE InOrder(l) /\ Arriving(l)
  <2>1. /\ Len(wire[l]) = 0 /\ landed[l] + 1 = 1 /\ flags[l] = 0 /\ ~(1 <= 0) /\ 1 > 0 /\ laneBytes[l] = 0
           /\ ~laneHeader
        /\ Posted(l) = 0 /\ Finished(l) = 0 /\ ~(laneBytes[l] > 0)
    BY <1>5, <1>7
  <2>2. ItemAt(l, 1) = 0 /\ PacksAt(l, 1) = 0 /\ (l = 0 => ~HeadedAt(1))
    BY <2>1 DEF ItemAt, PacksAt, HeadedAt
  <2>3. 1..Len(wire[l]) = {} /\ \A j, k \in 1..(Len(wire[l]) + 1) : j = 1 /\ k = 1
    BY <2>1
  <2>4. InOrder(l)
    BY <2>1, <2>2, <2>3 DEF InOrder
  <2>5. \A m \in Places : \E a \in Span : flag[m][l] = At(a) /\ a <= flags[l]
    BY <1>2, <2>1 DEF Init
  <2>6. Arriving(l)
    BY <1>9, <2>1, <2>2, <2>5 DEF Arriving, Holds
  <2> QED
    BY <2>4, <2>6
<1> QED
  BY <1>4, <1>6, <1>8, <1>11, <1>12, <1>13 DEF Inv

\* Every step keeps the invariant.
LEMMA InvStep == ASSUME Inv, [Next]_vars PROVE Inv'
<1>1. TypeOK /\ Ordered /\ Staged /\ Received /\ \A x \in Lanes : InOrder(x) /\ Arriving(x)
  BY DEF Inv
<1>2. Windowed
  BY DEF Inv, TypeOK, WindowExact, Windowed, Unacked
<1>3. WireTyped' /\ RestTyped' /\ Windowed'
  BY <1>1, <1>2, WireStep, RestStep, WindowStep
<1>4. TypeOK'
  BY <1>3 DEF TypeOK, WireTyped, RestTyped, Windowed
<1>5. WindowExact'
  BY <1>3 DEF WindowExact, Windowed, Unacked
<1>6. Ordered'
  <2>1. LanesOrdered' /\ CreditsOrdered'
    BY <1>1, LanesOrderedStep, CreditsOrderedStep
  <2> QED
    BY <2>1 DEF Ordered
<1>7. Staged' /\ Received'
  BY <1>1, StagedStep, ReceivedStep
<1>8. \A x \in Lanes : InOrder(x)' /\ Arriving(x)'
  BY <1>1, InOrderStep, ArrivingStep
<1> QED
  BY <1>4, <1>5, <1>6, <1>7, <1>8 DEF Inv

\* The invariant of the channel: its counters are words of items in the order in which an item
\* passes them, its slots hold the items that those counters say, and the writes of a lane are
\* the stripes of consecutive items (p2p/_kernels.py, p2p/_p2p_proxy.c).
THEOREM ChannelInvariant == Spec => []Inv
<1>1. Init => Inv
  BY InvInit
<1>2. Inv /\ [Next]_vars => Inv'
  BY InvStep
<1> QED
  BY <1>1, <1>2, PTL DEF Spec

\* The variables keep their types; P2P_INFLIGHT writes of a queue pair at most are on its wire and
\* a lane never exceeds its forward window (service_out of p2p/_p2p_proxy.c).
THEOREM TypeCorrect == Spec => []TypeOK
<1>1. Inv => TypeOK
  BY DEF Inv
<1> QED
  BY <1>1, ChannelInvariant, PTL

\* What counts against the window of a lane is the data writes on its wire that no credit has
\* proved (drain_device and the credit of service_out in p2p/_p2p_proxy.c).
THEOREM WindowIsExact == Spec => []WindowExact
<1>1. Inv => WindowExact
  BY DEF Inv
<1> QED
  BY <1>1, ChannelInvariant, PTL

\* A receive compares the header of its own item, for any number of slots and wherever the words
\* wrap (P2PRecv.kernel of p2p/_kernels.py).
THEOREM SizesAreCompared == Spec => []SizesCompared
<1>1. Inv => SizesCompared
  <2>1. ASSUME Inv PROVE Used \subseteq Items /\ Received
    BY <2>1, TheHeaders DEF Inv, TypeOK
  <2> QED
    BY <2>1 DEF Received, SizesCompared
<1> QED
  BY <1>1, ChannelInvariant, PTL

-----------------------------------------------------------------------------
(* The refinement.                                                         *)

\* The state of the pipe: what a receive that is done has delivered is its item.
Stages == {i \in Items : send[i] = "ready"}
Arrives == {i \in Items : Landed(i)}
Delivered == [i \in Items |-> IF recv[i] = "done" THEN i ELSE Nothing]

\* Every step of the channel is a step of the pipe, or none.
LEMMA PipeStep ==
    ASSUME Inv, Inv', [Next]_vars
    PROVE  [Pipe!PipeNext]_(Pipe!pipeVars)
<1> DEFINE D == [i \in Items |-> IF recv[i] = "done" THEN Whole(i) ELSE Nothing]
<1>000. /\ TypeOK /\ Ordered /\ Staged /\ Received /\ Received' /\ \A x \in Lanes : InOrder(x) /\ Arriving(x)
        /\ Used \subseteq Items /\ Pipe!Items = Items /\ send \in [Items -> {"none", "wait", "copy", "ready", "quit"}]
        /\ recv \in [Items -> {"none", "wait", "copy", "done", "size", "quit"}]
  BY TheHeaders DEF Inv, TypeOK, Pipe!Items, Items
<1>001. D = Delivered
  <2>1. ASSUME NEW i \in Items, recv[i] = "done" PROVE Whole(i) = i
    BY <1>000, <2>1 DEF Received, Whole, Packs
  <2> QED
    BY <2>1 DEF Delivered
<1>002. D' = Delivered'
  <2>1. ASSUME NEW i \in Items, recv'[i] = "done" PROVE Whole(i)' = i
    <3>1. \A l \in Lanes : out'[i][l] = [k \in 1..Packs(i, l)' |-> i]
      BY <1>000, <2>1 DEF Received
    <3> QED
      BY <3>1 DEF Whole, Packs
  <2> QED
    BY <2>1 DEF Delivered
<1> HIDE DEF D
<1>003. ASSUME UNCHANGED <<send, flags, recv>> PROVE UNCHANGED Pipe!pipeVars
  <2>1. Stages' = Stages /\ Arrives' = Arrives /\ Delivered' = Delivered
    BY <1>003 DEF Stages, Arrives, Delivered, Landed
  <2> QED
    BY <1>001, <1>002, <2>1 DEF Pipe!pipeVars, Stages, Arrives, D
<1>1. ASSUME NEW i \in Used, SendBegin(i) PROVE [Pipe!PipeNext]_(Pipe!pipeVars)
  <2>1. send' = [send EXCEPT ![i] = "copy"] /\ send[i] = "wait" /\ i \in Items /\ UNCHANGED <<flags, recv>>
    BY <1>1, <1>000 DEF SendBegin, Thread, Wires, Memory, Receiver, Release, Control
  <2>2. Stages' = Stages /\ Arrives' = Arrives /\ Delivered' = Delivered
    BY <1>000, <2>1 DEF Stages, Arrives, Delivered, Landed
  <2> QED
    BY <1>001, <1>002, <2>2 DEF Pipe!pipeVars, Stages, Arrives, D
<1>2. ASSUME NEW i \in Used, SendReady(i) PROVE [Pipe!PipeNext]_(Pipe!pipeVars)
  <2>1. send' = [send EXCEPT ![i] = "ready"] /\ send[i] = "copy" /\ i \in Items /\ UNCHANGED <<flags, recv>>
    BY <1>2, <1>000 DEF SendReady, Thread, Wires, Memory, Receiver, Release, Control
  <2>2. Stages' = Stages \cup {i} /\ i \notin Stages /\ Arrives' = Arrives /\ Delivered' = Delivered
    BY <1>000, <2>1 DEF Stages, Arrives, Delivered, Landed
  <2>3. ASSUME NEW j \in Items, j + Slots <= i PROVE j \in Arrives
    <3>1. i < Sent + Slots /\ i \in Int /\ j \in Int /\ Slots \in Int
      BY <1>000, <2>1, Sizes, ItemWords DEF Staged
    <3>2. ASSUME NEW l \in Lanes PROVE flags[l] > j
      <4>1. Sent \in 0..N /\ Finished(l) \in 0..N /\ flags[l] \in Nat /\ Sent <= Finished(l)
            /\ Finished(l) <= flags[l]
        BY <1>000, Counters
      <4> QED
        BY <2>3, <3>1, <4>1
    <3> QED
      BY <3>2 DEF Arrives, Landed
  <2>4. Pipe!Stage(i)
    BY <1>000, <1>001, <1>002, <2>1, <2>2, <2>3 DEF Pipe!Stage, Stages, Arrives, D
  <2> QED
    BY <1>000, <2>1, <2>4 DEF Pipe!PipeNext
<1>3. ASSUME NEW i \in Used, SendQuit(i) PROVE [Pipe!PipeNext]_(Pipe!pipeVars)
  <2>1. send' = [send EXCEPT ![i] = "quit"] /\ send[i] = "wait" /\ i \in Items /\ UNCHANGED <<flags, recv>>
    BY <1>3, <1>000 DEF SendQuit, Thread, Wires, Memory, Receiver, Release
  <2>2. Stages' = Stages /\ Arrives' = Arrives /\ Delivered' = Delivered
    BY <1>000, <2>1 DEF Stages, Arrives, Delivered, Landed
  <2> QED
    BY <1>001, <1>002, <2>2 DEF Pipe!pipeVars, Stages, Arrives, D
<1>4. ASSUME ReadCredit PROVE [Pipe!PipeNext]_(Pipe!pipeVars)
  BY <1>4, <1>003 DEF ReadCredit, Sender, Memory, Receiver, Release, Control
<1>5. ASSUME NEW l \in Lanes, PostData(l) PROVE [Pipe!PipeNext]_(Pipe!pipeVars)
  BY <1>5, <1>003 DEF PostData, Sender, Memory, Receiver, Release, Control
<1>6. ASSUME PostHeader PROVE [Pipe!PipeNext]_(Pipe!pipeVars)
  BY <1>6, <1>003 DEF PostHeader, Sender, Memory, Receiver, Release, Control
<1>7. ASSUME NEW l \in Lanes, PostFlag(l) PROVE [Pipe!PipeNext]_(Pipe!pipeVars)
  BY <1>7, <1>003 DEF PostFlag, Sender, Memory, Receiver, Release, Control
<1>8. ASSUME NEW l \in Lanes, Complete(l) PROVE [Pipe!PipeNext]_(Pipe!pipeVars)
  BY <1>8, <1>003 DEF Complete, Sender, Memory, Receiver, Release, Control
<1>9. ASSUME StoreSent PROVE [Pipe!PipeNext]_(Pipe!pipeVars)
  BY <1>9, <1>003 DEF StoreSent, Sender, Wires, Memory, Receiver, Release, Control
<1>10. ASSUME NEW l \in Lanes, Land(l) PROVE [Pipe!PipeNext]_(Pipe!pipeVars)
  <2>0. PICK f, c : f = flags[l] /\ c = landed[l] + 1
    OBVIOUS
  <2>1. /\ f \in Items /\ send[f] = "ready" /\ f < Seen + Slots /\ f \in Int
    BY <1>10, <1>000, <2>0, LandFinds, ItemWords
  <2>2. UNCHANGED <<send, recv>>
    BY <1>10 DEF Land, Sender, Receiver
  <2>3. Stages' = Stages /\ Delivered' = Delivered /\ f \in Stages
    BY <2>1, <2>2 DEF Stages, Delivered
  <2>4. /\ flags'[l] \in {f, f + 1} /\ \A x \in Lanes \ {l} : flags'[x] = flags[x]
    BY <1>10, <1>000, <2>0, FlagsLand
  <2>5. f \notin Arrives
    BY <2>0, <2>1 DEF Arrives, Landed
  <2>6. ASSUME NEW i \in Items, i # f PROVE Landed(i)' <=> Landed(i)
    <3>1. i \in Int
      BY ItemWords
    <3>2. flags'[l] > i <=> flags[l] > i
      BY <2>0, <2>1, <2>4, <2>6, <3>1
    <3> QED
      BY <2>4, <3>2 DEF Landed
  <2>7. CASE ~Landed(f)'
    <3>1. Arrives' = Arrives
      BY <2>5, <2>6, <2>7 DEF Arrives
    <3> QED
      BY <1>001, <1>002, <2>3, <3>1 DEF Pipe!pipeVars, Stages, Arrives, D
  <2>8. CASE Landed(f)'
    <3>1. Arrives' = Arrives \cup {f}
      BY <2>1, <2>6, <2>8 DEF Arrives
    <3>2. ASSUME NEW j \in Items, j + Slots <= f PROVE j \in Items /\ Delivered[j] # Nothing
      <4>1. /\ Seen \in 0..N /\ Freed \in 0..N /\ Credit \in 0..N /\ Told \in 0..N
            /\ Seen <= Credit /\ Credit <= Told /\ Told <= Freed
        BY <1>000, Counted DEF Ordered, CreditsOrdered, Seen, Credit, Told, Freed
      <4>2. j < Freed
        BY <2>1, <3>2, <4>1, Sizes, ItemWords
      <4>3. recv[j] = "done" /\ j # -1
        BY <1>000, <4>2, Sizes DEF Received, Items
      <4> QED
        BY <4>3 DEF Delivered, Nothing
    <3>3. \A j \in Items : j + Slots <= f => j \in Pipe!Taken
      BY <1>000, <1>001, <3>2 DEF Pipe!Taken, D
    <3>4. Pipe!Arrive(f)
      BY <1>000, <1>001, <1>002, <2>1, <2>3, <2>5, <3>1, <3>3 DEF Pipe!Arrive, Stages, Arrives, D
    <3> QED
      BY <1>000, <2>1, <3>4 DEF Pipe!PipeNext
  <2> QED
    BY <2>7, <2>8
<1>11. ASSUME LandCredit PROVE [Pipe!PipeNext]_(Pipe!pipeVars)
  BY <1>11, <1>003 DEF LandCredit, Sender, Thread, Memory, Receiver, Release, Control
<1>12. ASSUME NEW i \in Used, RecvBegin(i) PROVE [Pipe!PipeNext]_(Pipe!pipeVars)
  <2>1. PICK v \in {"copy", "size"} : recv' = [recv EXCEPT ![i] = v]
    BY <1>12 DEF RecvBegin
  <2>2. recv[i] = "wait" /\ i \in Items /\ UNCHANGED <<send, flags>>
    BY <1>12, <1>000 DEF RecvBegin, Sender, Thread, Wires, Memory, Release
  <2>3. Stages' = Stages /\ Arrives' = Arrives
    BY <2>2 DEF Stages, Arrives, Landed
  <2>4. Delivered' = Delivered
    BY <1>000, <2>1, <2>2 DEF Delivered
  <2> QED
    BY <1>001, <1>002, <2>3, <2>4 DEF Pipe!pipeVars, Stages, Arrives, D
<1>13. ASSUME NEW i \in Used, NEW l \in Lanes, RecvCopy(i, l) PROVE [Pipe!PipeNext]_(Pipe!pipeVars)
  BY <1>13, <1>003 DEF RecvCopy, Sender, Thread, Wires, Memory, Release, Control
<1>14. ASSUME NEW i \in Used, RecvDone(i) PROVE [Pipe!PipeNext]_(Pipe!pipeVars)
  <2>1. recv' = [recv EXCEPT ![i] = "done"] /\ recv[i] = "copy" /\ i \in Items /\ UNCHANGED <<send, flags>>
    BY <1>14, <1>000 DEF RecvDone, Sender, Thread, Wires, Memory, Release, Control
  <2>2. Stages' = Stages /\ Arrives' = Arrives
    BY <2>1 DEF Stages, Arrives, Landed
  <2>3. Delivered' = [Delivered EXCEPT ![i] = i] /\ Delivered[i] = Nothing
    BY <1>000, <2>1 DEF Delivered
  <2>4. i \in Arrives
    BY <1>000, <2>1 DEF Arrives, Received
  <2>5. i \notin Pipe!Taken
    BY <1>001, <2>3 DEF Pipe!Taken, D
  <2>6. Pipe!Take(i)
    BY <1>001, <1>002, <2>2, <2>3, <2>4, <2>5 DEF Pipe!Take, Stages, Arrives, D
  <2> QED
    BY <1>000, <2>1, <2>6 DEF Pipe!PipeNext
<1>15. ASSUME NEW i \in Used, RecvQuit(i) PROVE [Pipe!PipeNext]_(Pipe!pipeVars)
  <2>1. recv' = [recv EXCEPT ![i] = "quit"] /\ recv[i] = "wait" /\ i \in Items /\ UNCHANGED <<send, flags>>
    BY <1>15, <1>000 DEF RecvQuit, Sender, Thread, Wires, Memory, Release
  <2>2. Stages' = Stages /\ Arrives' = Arrives
    BY <2>1 DEF Stages, Arrives, Landed
  <2>3. Delivered' = Delivered
    BY <1>000, <2>1 DEF Delivered
  <2> QED
    BY <1>001, <1>002, <2>2, <2>3 DEF Pipe!pipeVars, Stages, Arrives, D
<1>16. ASSUME ReleaseItem PROVE [Pipe!PipeNext]_(Pipe!pipeVars)
  BY <1>16, <1>003 DEF ReleaseItem, Sender, Thread, Wires, Memory, Receiver, Control
<1>17. ASSUME SendCredit PROVE [Pipe!PipeNext]_(Pipe!pipeVars)
  BY <1>17, <1>003 DEF SendCredit, Sender, Thread, Memory, Receiver, Control
<1>18. ASSUME NEW r \in Ranks, Notice(r) PROVE [Pipe!PipeNext]_(Pipe!pipeVars)
  BY <1>18, <1>003 DEF Notice, Sender, Thread, Wires, Memory, Receiver, Release, Stop
<1>19. ASSUME NEW r \in Ranks, NEW l \in Lanes, WriteFails(r, l) PROVE [Pipe!PipeNext]_(Pipe!pipeVars)
  BY <1>19, <1>003 DEF WriteFails, Sender, Thread, Memory, Receiver, Release, Stop
<1>20. CASE UNCHANGED vars
  BY <1>20, <1>003 DEF vars, Sender, Thread, Wires, Memory, Receiver, Release, Control
<1> QED
  BY <1>1, <1>2, <1>3, <1>4, <1>5, <1>6, <1>7, <1>8, <1>9, <1>10, <1>11, <1>12, <1>13,
     <1>14, <1>15, <1>16, <1>17, <1>18, <1>19, <1>20
     DEF Next, Processes, SendKernel, RecvKernel, SendThread, RecvThread, Network, Ranks

\* The channel implements the pipe: every item is staged, arrives and is taken once, with the bytes
\* its send staged, and what is staged keeps to two rounds of slots (the contract of
\* p2p/session.py and p2p/protocol.py), for any number of slots, any lanes and any first word.
THEOREM ChannelIsAPipe == Spec => IsAPipe
<1>1. Init => Pipe!PipeInit
  <2>1. ASSUME Init PROVE Stages = {} /\ Arrives = {} /\ \A i \in Items : recv[i] # "done"
    <3>1. \A i \in Items : send[i] # "ready" /\ recv[i] # "done"
      BY <2>1 DEF Init
    <3>2. \A i \in Items : ~(0 > i)
      BY Sizes DEF Items
    <3>3. 0 \in Lanes /\ flags[0] = 0
      BY <2>1, TheLanes DEF Init
    <3> QED
      BY <3>1, <3>2, <3>3 DEF Stages, Arrives, Landed
  <2> QED
    BY <2>1 DEF Pipe!PipeInit, Pipe!Items, Items, Stages, Arrives
<1>2. Inv /\ Inv' /\ [Next]_vars => [Pipe!PipeNext]_(Pipe!pipeVars)
  BY PipeStep
<1> QED
  BY <1>1, <1>2, ChannelInvariant, PTL DEF Spec, IsAPipe, Pipe!PipeSpec
==============================================================================
