--------------------------- MODULE MCChainAllReduce ---------------------------
(* Sessions of ChainAllReduce for TLC. *)
EXTENDS ChainAllReduce

Session(world, lanes, blocks, room, sizes, timeouts) ==
    [world |-> world, lanes |-> lanes, blocks |-> blocks, room |-> room, ops |-> sizes, timeouts |-> timeouts]

\* Two ranks whose words wrap, an op longer than the ring whose results are forwarded with one
\* write in flight at a time, and sessions with timeouts on two and three ranks.
MCSessions == {Session(2, 2, 2, 3, <<3, 2, 2>>, {}),
               Session(3, 1, 1, 1, <<3>>, {}),
               Session(2, 1, 2, 2, <<3>>, {1}),
               Session(3, 2, 1, 2, <<1>>, {1})}

\* Ops whose chunks run past the last word.
MCWrapSessions == {Session(2, 1, 1, 2, <<4, 4, 4>>, {})}
==============================================================================
