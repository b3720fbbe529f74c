----------------------------- MODULE MCRecovery -----------------------------
(***************************************************************************)
(* Instances of Recovery: deployments of the whole ring, one check at a    *)
(* time (a systemd timer starts it) and an operator.  MCSpec starts in one *)
(* of several worlds.  SafeWorlds: every command that starts or stops a    *)
(* model beside checks that run to their end, downs and holds beside       *)
(* checks that die anywhere.                                               *)
(***************************************************************************)
EXTENDS Recovery

CONSTANTS check, d1,
    Worlds  \* records of the operator's commands, whether checks die, and the faults

VARIABLE world

WholeRing == [d \in Dirs |-> Ring]

World(commands, deaths, bound) == [commands |-> commands, deaths |-> deaths, faults |-> bound]

SafeWorlds ==
    {World({"up", "down", "restart", "on", "off"}, FALSE, 1), World({"down", "off"}, FALSE, 2),
     World({"down"}, TRUE, 2), World({"on", "hold", "release"}, TRUE, 2)}
LiveWorlds == {World({"on"}, TRUE, 3), World({"restart"}, TRUE, 2)}
DownWorlds == {World({"down"}, TRUE, 2)}

MCInit == Init /\ world \in Worlds

MCNext ==
    /\ Alive \/ (world.deaths /\ \E c \in Checkers : Killed(c))
    /\ \A p \in Procs : loc'[p].cmd \in world.commands \cup {""}
    /\ faults' <= world.faults
    /\ UNCHANGED world

MCSpec == MCInit /\ [][MCNext]_<<vars, world>>

MCFairSpec == MCSpec /\ Fairness
=============================================================================
