--------------------------- MODULE MCModelSwitch ---------------------------
(***************************************************************************)
(* Instances of ModelSwitch: two deployments of both Sparks, one of the    *)
(* ring and one of each Spark.  MCSpec starts in one of several worlds,    *)
(* each with its own deployments, commands and faults.                     *)
(***************************************************************************)
EXTENDS ModelSwitch

CONSTANTS older, newer, ring, lower, upper, p1,
    Worlds  \* what the deployments and the processes of a behaviour may be and do

VARIABLES
    world,
    left    \* commands that may still begin

Placed == [d \in Dirs |-> CASE d \in {older, newer} -> {0, 1}
                            [] d = ring -> Ring
                            [] d = lower -> {0}
                            [] d = upper -> {1}]

\* The first steps of the commands.
Installs == {"acquire"}
Lifecycles == {"check_up", "check_down", "check_restart"}
Cancels == {"waiting", "scan"}
All == Installs \cup Lifecycles \cup Cancels

\* The deployments, how the commands of p1 and of the other process begin, how many faults
\* and commands there are, and what serves.
World(dirs, first, second, bound, commands, up) ==
    [dirs |-> dirs, first |-> [p \in Procs |-> IF p = p1 THEN first ELSE second],
     faults |-> bound, commands |-> commands, up |-> up]

ManyWorlds ==
    {World({older, newer}, All, {}, 2, 3, {older}),
     World({older, newer}, Installs, Installs \cup Cancels, 2, 3, {older}),
     World({ring, lower}, All, {}, 2, 3, {ring}),
     World({older, lower}, All, All, 1, 3, {older}),
     World({older, lower, upper}, Installs \cup Lifecycles, Installs \cup Lifecycles, 0, 3, {older})}

EndingWorlds ==
    {World({older, newer}, All, {}, 2, 2, {older}),
     World({older, lower, upper}, Installs \cup Cancels, {"check_up"}, 1, 3, {older}),
     World({older, lower, upper}, {"check_up", "check_restart"}, Installs, 1, 3, {older})}

RaceWorlds == {World({older, lower, upper}, Installs \cup Cancels, {"check_up"}, 1, 3, {older})}

Begins(p) == pc[p] = "idle" /\ pc'[p] # "idle"

MCInit == world \in Worlds /\ left = world.commands /\ SwitchInit(world.up)

MCNext ==
    /\ Next
    /\ \A p \in Procs : Begins(p) => pc'[p] \in world.first[p] /\ loc'[p].dir \in world.dirs \cup {None}
    /\ IF \E p \in Procs : Begins(p) THEN left > 0 /\ left' = left - 1 ELSE UNCHANGED left
    /\ faults' <= world.faults
    /\ UNCHANGED world

MCSpec == MCInit /\ [][MCNext]_<<vars, world, left>>

MCFairSpec == MCSpec /\ \A p \in Procs : WF_<<vars, world, left>>(Advance(p) /\ UNCHANGED <<world, left>>)
============================================================================
