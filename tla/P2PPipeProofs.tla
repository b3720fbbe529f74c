---------------------------- MODULE P2PPipeProofs ----------------------------
(***************************************************************************)
(* Proofs about the pipe that P2PChannel implements, for any number of     *)
(* items and any depth.                                                    *)
(***************************************************************************)
EXTENDS P2PPipe, TLAPS

\* An item passes each end only behind the one Depth items before it.
Ordered ==
    /\ staged \subseteq Items /\ arrived \subseteq staged
    /\ delivered \in [Items -> Items \cup {Nothing}]
    /\ \A i \in staged, j \in Items : j + Depth <= i => j \in arrived
    /\ \A i \in arrived, j \in Items : j + Depth <= i => j \in Taken

\* The order of the pipe is kept by every step (the credit and sent words of
\* _p2p_proxy.c are what keeps it in the code).
LEMMA OrderedStep ==
    ASSUME N \in Nat, Depth \in Nat, Ordered, [PipeNext]_pipeVars
    PROVE  Ordered'
<1>1. ASSUME NEW i \in Items, Stage(i) PROVE Ordered'
  BY <1>1 DEF Ordered, Stage, Taken, Items
<1>2. ASSUME NEW i \in Items, Arrive(i) PROVE Ordered'
  BY <1>2 DEF Ordered, Arrive, Taken, Items
<1>3. ASSUME NEW i \in Items, Take(i) PROVE Ordered'
  <2>1. delivered' \in [Items -> Items \cup {Nothing}]
    BY <1>3 DEF Ordered, Take
  <2>2. Taken \subseteq Taken'
    BY <1>3 DEF Ordered, Take, Taken
  <2>. QED
    BY <1>3, <2>1, <2>2 DEF Ordered, Take
<1>4. CASE UNCHANGED pipeVars
  BY <1>4 DEF Ordered, pipeVars, Taken
<1>. QED
  BY <1>1, <1>2, <1>3, <1>4 DEF PipeNext

\* "A send of more than two rounds of slots waits for the receiver" (p2p/session.py): in
\* every pipe, so in P2PChannel, which implements one, nothing is staged two rounds or
\* more ahead of an item that was not taken.
THEOREM WithinTwoRounds ==
    ASSUME N \in Nat, Depth \in Nat
    PROVE  PipeSpec => []TwoRounds
<1>1. PipeInit => Ordered
  BY DEF PipeInit, Ordered, Items
<1>2. Ordered => TwoRounds
  <2>. SUFFICES ASSUME Ordered, NEW i \in staged, NEW j \in Items \ Taken, ~(i < j + 2 * Depth)
                PROVE  FALSE
    BY DEF TwoRounds
  <2>1. /\ i \in Items /\ j + Depth \in Items
        /\ (j + Depth) + Depth <= i
    BY DEF Ordered, Items
  <2>2. j + Depth \in arrived
    BY <2>1 DEF Ordered
  <2>. QED
    BY <2>1, <2>2 DEF Ordered, Items
<1>3. Ordered /\ [PipeNext]_pipeVars => Ordered'
  BY OrderedStep
<1>. QED
  BY <1>1, <1>2, <1>3, PTL DEF PipeSpec
==============================================================================
