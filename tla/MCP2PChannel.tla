---------------------------- MODULE MCP2PChannel ----------------------------
(***************************************************************************)
(* Sessions of P2PChannel: items of different sizes on direct lanes and    *)
(* under a forward window, and ranks that disagree about the last item     *)
(* while a queue pair fails, with and without limits on the waits.         *)
(***************************************************************************)
EXTENDS P2PChannel

Small(n) == [k \in 1..n |-> <<1, k = n>>]
Sizes(n) == [k \in 1..n |-> IF k % 3 = 1 THEN <<3, FALSE>> ELSE <<1, TRUE>>]
OneOther(sizes) == [sizes EXCEPT ![Len(sizes)] = <<2, TRUE>>]

Session(sends, recvs, window, timeouts, bound) ==
    [sends |-> sends, recvs |-> recvs, window |-> window, timeouts |-> timeouts, faults |-> bound]

MCSessions ==
    {Session(Sizes(5), Sizes(5), 0, FALSE, 0),
     Session(Sizes(4), Sizes(4), 1, FALSE, 0),
     Session(Sizes(3), OneOther(Sizes(3)), 0, FALSE, 1),
     Session(Small(3), OneOther(Small(3)), 0, TRUE, 1)}
=============================================================================
