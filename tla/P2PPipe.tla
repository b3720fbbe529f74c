------------------------------- MODULE P2PPipe -------------------------------
(***************************************************************************)
(* What one point-to-point channel of SIRCL promises (the contract in      *)
(* p2p/session.py and p2p/protocol.py): every item is staged, arrives and  *)
(* is taken once and unchanged; an item is staged while the one `Depth`    *)
(* items before it has arrived, and arrives while that one has been taken. *)
(* A failure may stop the channel anywhere, so nothing is promised to      *)
(* happen.                                                                 *)
(***************************************************************************)
EXTENDS Integers

CONSTANTS
    N,       \* items of the channel, numbered from 0
    Depth,   \* slots on each end
    Nothing  \* what an item that was not taken has delivered

Items == 0..(N - 1)

VARIABLES
    staged,    \* items whose bytes the send slot holds or held
    arrived,   \* items whose bytes are in the receiver's memory
    delivered  \* [Items -> the item whose bytes the receiver's tensor got, or Nothing]

pipeVars == <<staged, arrived, delivered>>

Taken == {i \in Items : delivered[i] # Nothing}

PipeInit ==
    /\ staged = {} /\ arrived = {}
    /\ delivered = [i \in Items |-> Nothing]

Stage(i) ==
    /\ i \notin staged /\ \A j \in Items : j + Depth <= i => j \in arrived
    /\ staged' = staged \cup {i}
    /\ UNCHANGED <<arrived, delivered>>

Arrive(i) ==
    /\ i \in staged \ arrived /\ \A j \in Items : j + Depth <= i => j \in Taken
    /\ arrived' = arrived \cup {i}
    /\ UNCHANGED <<staged, delivered>>

Take(i) ==
    /\ i \in arrived \ Taken
    /\ delivered' = [delivered EXCEPT ![i] = i]
    /\ UNCHANGED <<staged, arrived>>

PipeNext == \E i \in Items : Stage(i) \/ Arrive(i) \/ Take(i)

PipeSpec == PipeInit /\ [][PipeNext]_pipeVars

\* "A send of more than two rounds of slots waits for the receiver" (p2p/session.py): what
\* is staged lies within two rounds of the first item that was not taken.
TwoRounds == \A i \in staged, j \in Items \ Taken : i < j + 2 * Depth
==============================================================================
