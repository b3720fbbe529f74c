# A TLA+ development of sparkring

Sparkring runs one large model per group of DGX Sparks cabled in a ring. A
controller on Node A installs, switches, starts and stops deployments of models
on the Sparks; SIRCL carries the collectives between the Sparks' GPUs over RDMA.
This directory models the parts of both where the order of events decides
whether the program is right, checks them with TLC on small instances and proves
the central claims with TLAPS.

`PROJECT.json` lists every run, property, mutant, theorem, finding and hazard
and maps each definition to the source lines it models. Paths below are relative
to `src/`.

## 1. Inventory

### Controller side (`runtime/`, `scripts/`)

| component | state | operations | hard part | what makes it correct |
|---|---|---|---|---|
| slice locks (`runtime/host/slices.py`, `runtime/common/process_lock.py`) | `admission.lock`, `install.lock`, one lock file per Spark, the owner written in it | `hold`, `active`, process death | commands, a timer and a dashboard interleave at every flock; probes briefly own idle locks; owner records are never erased | admitted operations share no Spark; refusals and rows are about real work; every call is answered |
| deployments (`runtime/common/installer.py`, `scripts/installer_runner.py`) | `state.json`, receipts, containers | `apply` up, down, prepare, verify | refusals, partial effects, kills, remote commands and child processes that outlive their caller, restarted Sparks | no two models on one Spark |
| model switch (`runtime/host/rollout.py`, `placement.py`, `install_workflow.py`, `controller.py`) | `active.json` and `transaction.json` per slot | install, up, down, restart | a switch is cut off anywhere and resumed, replaced or settled by another command from its journal | what is started under its locks shares no Spark; an undone switch restored what it stopped; completion commits last |
| cancellation (`runtime/host/cancel.py`) | `install-cancel.json` | request, wait, settle | the request races the switch's last boundary and the end of its process | what a cancelled switch stopped serves again; no two models on one Spark; every command ends |
| deploy engine (`scripts/deploy_engine.py`) | the receipt, a lock beside it, a thread pool | execute, resume | kills and timeouts between a remote effect and its record | a changing command begins once; phases are barriers; completion is earned |
| recovery and hold (`runtime/host/recovery.py`, `hold.py`) | `recovery.json` (failures, backoff, the attempt, the state it left, restarts), `hold.json` | the timer's `recover --auto`, `recover on` and `off`, the resets of `up`, `down` and `restart`, hold and release | a check reads without a lock, acts under one, writes its result after it, and dies anywhere; operators' commands run in between | never acts once off, stopped or held; never undoes a manual down; keeps to its limits; goes on until the model serves or it has stopped |
| checkpoints, storage, spread, node agent, control network, dashboard, fabric measurement | files, requests | copying, remote commands, views | mostly I/O | not modelled |

### Transport side (`spark_transport/`)

| component | state | operations | hard part | what makes it correct |
|---|---|---|---|---|
| chain all-reduce (`oneshot/_chain_cute.py`, `oneshot/_roce_proxy.c`) | rings of slots with flags, ready, consumed, sent and credit words; the progress thread's counters | kernel launch, reduce and result blocks, `chain_service`, RDMA writes | GPU blocks, a host thread and remote writes share words without locks; words wrap | exact sums everywhere; no slot reused too early; no circle of waits |
| one-shot and two-shot collectives (`oneshot/runtime.py`, `_oneshot_cute.py`, `_twoshot_cute.py`) | two-slot arena, namespaces, windows | all-reduce, all-gather | slot reuse proven from op order | planned |
| chain links, scatter, swing | items, rounds, credits | all-gather, reduce-scatter, all-to-all | relays and several credit streams | planned |
| point to point (`p2p/_kernels.py`, `p2p/_p2p_proxy.c`, `p2p/session.py`) | slots, tags, headers, sent and credit words per channel; lanes and windows of the progress thread | send, receive, credit, poison and abort | two kernels, two host threads and two queue pairs share words that wrap; completions and credits come in either order | a pipe: each item once, whole, in its slot; both ranks fail together |
| teardown (`teardown.py`, `close()` in `oneshot/runtime.py` and `p2p/session.py`) | a close's place, the collectives issued, `unusable` groups, arenas | `close`, `abort`, two rounds, destroy | collectives pair by issue order; rounds are abandoned, ranks die or close something else | a healthy result is everyone's; memory outlives its kernels; every close ends |
| agreement and groups | setup records | compare, derive | none: exchanged once | not modelled |
| routing, pieces, tuning | pure tables | planning | arithmetic | reference checks planned |
| native four-rank sessions, libsircl, NCCL patches, relays, vLLM adapters | | | | not modelled (`PROJECT.json` says why for each) |

Interactions: a command holds its Sparks through the slice locks, decides what to
do from slot records, operates deployments one at a time, and each of those
operations runs a sealed plan through the deploy engine. The model that then
serves uses SIRCL; the two sides share no state.

## 2. Plan

| order | module | composes | status |
|---|---|---|---|
| 1 | `Admission` (abstract), `SliceLocks`, `SliceLocksProofs` | `SliceLocks` implements `Admission` | done |
| 2 | `Deployments`, `DeploymentsProofs` (lemmas), `ModelSwitch` | `ModelSwitch` extends `Deployments` extends `Admission` | checked; the effects of `apply` proved |
| 3 | `DeployEngine`, `DeployEngineProofs` | the receipt that `Deployments` abstracts | done |
| 4 | `ChainAllReduce`, `ChainAllReduceProofs` | | one half, done |
| 5 | `Recovery`, `RecoveryProofs`: the timer's checks and the hold beside the operator's commands | `Recovery` extends `Deployments` extends `Admission` | done |
| 6 | `P2PPipe` (abstract), `P2PChannel`, `P2PPipeProofs`, `P2PChannelProofs` | `P2PChannel` implements `P2PPipe` | done |
| 7 | `Teardown`, `TeardownProofs` | the progress threads and kernels of 4 and 6, abstracted | done |
| 8 | the one-shot arena: two slots, namespaces, delivery proof | | next |
| 9 | an abstract all-reduce implemented by `ChainAllReduce` and the one-shot arena | | later |
| 10 | chain links, routes, pieces and scatter plans | the rings of `ChainAllReduce` | later |

Theorems planned: type correctness and `HeldStartsApart` of `ModelSwitch`; of the
one-shot arena, that a slot is rewritten only when every rank has read it.

## 3. Modules

**`Admission`** is the promise: `granted[p]` is what an operation was admitted to,
and grants that overlap never coexist. The whole ring (`Ring`) overlaps
everything.

**`SliceLocks`** has one action per flock call of `slices.hold`, `_active` and
`_held` and one per read or write of an owner record. `pc` is the place in the
code, `sel` the request, `todo` the positions its loop has left, `seen` the owner
read before the lock is asked for. `Kill` drops a process's locks and leaves the
records, as the kernel does. `Requests` holds requests after their expansion by
`slices.affected`, which `ModelSwitch` models.

**`Deployments`** is `installer.apply` as its callers see it. `op`/`done` are
`state.json`, `receipt` says how far the changing actions of the current generation
have come (after half a start the workers' actions have succeeded and the API rank's
have not begun), `runs` where containers run. A call is refused, fails before it has
saved anything, completes, fails after any part of its effect, or is killed. A remote
command whose caller timed out or died runs to its own end
(`scripts/installer_runner.py:277`): `starting` and `stopping` are the Sparks where one
is under way, and `Lands` is its effect, at any later time. When only the controller
dies, the child process in which a deployment's own source makes the call goes on with
it (`ApplyOrphaned`, `retained_source.py:158`). `strays` watches: it names the Sparks
where a start took effect when nobody who made it held anything. `MaxFaults` bounds
failures, kills and Spark restarts.

**`ModelSwitch`** adds the slots' records and the commands. Each step between two
saves of `rollout.execute` is an action; `work` holds the `apply` calls a step is
about to make. `install --cancel` requests, waits and settles; it waits for another
`--cancel` that settles as it does for an installation (`Stoppable`).
`Affected` is `slices.affected`; `Displaced`, `Conflicting` are those of
`placement.py`. `Kill` ends a command with its call, `Orphan` without it. `unheld`
watches like `strays`, but Spark by Spark: where a start took effect although no call
that was making it held that Spark.

**`DeployEngine`** is `_execute_plan`. `file` is the receipt on disk and `mem` the
controller's copy, so that what is noted and what is saved differ as in the code.
`job` is the row's command in the thread pool: queued, flying, or its outcome.
`ran` counts beginnings of changing commands and `seen` what this invocation
observed; both only watch.

**`ChainAllReduce`** follows one half of the message, with ranks numbered in the
order of summation: the streams of partials and of results. The chain area's
words, the progress thread's counters, the writes in flight on each queue pair and
the kernel's blocks are its variables; words are taken modulo `Modulus`. `Launch`,
`Reduce`, `Copy`, `Timeout`, `Abandon` and `Finish` are the kernel, `Service` a
whole pass of `chain_service`, and `Deliver` a write with its flag and completion
(external: the queue pair is reliable, in order, and reads its source when it
writes). A value is the op, the chunk and how many ranks it sums; anything else is
garbage. Abstractions: a block is one actor; the completion queue is polled as
soon as a write completes (the progress thread also polls it when idle, so a
completion is only seen later, never lost); both halves share a queue pair, so the
other half takes room from this one, which small `room` values cover; failed
writes stop the session and are not modelled.

**`Recovery`** is one action per step of `check_one` and `attempt` between two reads
or writes of shared state, and the same for the commands that share the record.
`rec[d]` is the record of `recovery.json`; its writes merge fields under
`recovery.lock`, so each is one step, but what a process computes them from is what
it read earlier (`loc`). `gen`, `op` and `done` are `state.json`; `sick` and `net`
are what an observation finds, in the precedence of `assess` (`Finding`).
`Deployments!Apply` is the `down` and `up` of an attempt. Clocks are steps, also for
what a check has already read: `Wait` ends a backoff or a silence, `Age` lets a restart
leave its window. `owner`, `tries`, `restarted`, `unrecorded` and `crossed` only watch.
`restarted` counts a restart when the model is up, `unrecorded` those whose check died
before it wrote one down; a manual command that forgets an interrupted attempt
(`OpForget`) takes it out of `tries`, and notes in `crossed` whether a check that
carried an attempt, or the state one left, was under way (section 7 says what follows). The module is
about one slot: the placements of its deployments overlap (`OneSlotAssumption`), and
at most one process runs checks (`OneCheckAssumption`: the timer's unit is a
`Type=oneshot` service). Abstractions: a silence has passed for every record that
counts a finding (`pending` 3), hosts are either all reachable or not, and boot IDs
are not kept.

**`P2PPipe`** is the promise of a channel: items are staged, arrive and are taken
once, each end at most `Depth` ahead of the next.

**`P2PChannel`** is one channel. A block of the send or receive kernel is an actor
per item (`send[i]`, `recv[i]`): it waits, copies and stores its word. The progress
threads' steps are the branches of `service_out`, `drain_device`, `service_in`,
`post_aborts` and `progress_main`, each an action, so they interleave more finely
than a pass does. A lane is a reliable queue pair (external): writes land in order,
read the send slot when they land and complete later; `broken` lanes stop for both
ranks. Slots hold item numbers, and a slot being copied is `Torn`, so a write that
reads too early or lands too early shows as wrong bytes; a receive copies out as many
packs as it counts itself, whatever landed. Words wrap at `Width`. The
refinement mapping: an item is staged when its ready word is stored, has arrived
when the last lane's flag has landed, and is taken when its receive is done, with
the bytes it got.

**`Teardown`** has a close per rank and object. `pc` is the place in `close`,
`close_native` and `ordered_close`; `calls` are the collectives a rank has issued,
the k-th of one rank pairing with the k-th of every other (external: the process
group), each with the note that names its close and carries a failure. A kernel
ends when its peers' threads have posted what it waits for, or expires. `Abort`,
`RoundLost`, `StopRaises`, `DestroyFails`, `SyncFails`, `Interrupt`,
`InterruptSync`, `ThreadBreaks` and `Die` are the calls that fail; a round that is
missed or mismatched is no fault of its own and is not bounded. `Collect` is the end of
an object whose close was interrupted: a second `close()` does nothing, its context is
destroyed and its arena goes unless something retained it.

The `MC…` modules only name instances for TLC.

## 4. Runs

| run | instance | shows |
|---|---|---|
| `slice_locks` | 3 processes, 2 Sparks, one of them, both, the ring | ownership invariant, disjoint bodies, refinement of `Admission`, justified refusals, truthful rows, every call answered |
| `switch` | five worlds: 1 process with every command on one slot, 2 faults; 2 processes that install or cancel on one slot, 2 faults; 1 process with every command over the ring and a half, 2 faults; 2 processes with every command on the pair and a half, 1 fault; 2 processes with install, up, down and restart on the pair and both halves, no fault; 3 commands each | undone means restored and recorded, completion commits last |
| `switch_halves` | three worlds: 1 process with 2 of every command on one slot, 2 faults; install and cancel of the pair or a half beside an up, 3 commands, 1 fault; up and restart beside installs, 3 commands, 1 fault | what is started under its locks shares no Spark, every command ends |
| `deploy_engine` | 2 controllers, 4 phases (two of them changing) on 4 hosts, 2 workers | once-only mutations, barriers, earned completion, kept completion time, termination |
| `chain` | 2 and 3 ranks, 2 slots, 1 and 2 lanes, 1 and 2 blocks, 7 chunks past a wrap at 6, timeouts | exact sums, silent progress-thread checks, lockstep, no circle of waits |
| `recovery` | a check and an operator with 2 commands, 2 deployments of a slot; worlds: up, down, restart, on and off beside living checks, 1 fault; down and off, 2 faults; downs beside checks that die, 2 faults; holds and on beside checks that die, 2 faults | never acts once off, stopped or held, keeps a manual down that met no attempt |
| `recovery_live` | a check that dies at times, limits of 2 failures and 2 restarts; worlds: one `recover on`, 3 faults; one manual restart, 2 faults | both limits, unrecorded restarts aside; the model serves or recovery stops, unless recovery may not touch its state |
| `p2p` | 2 slots, 2 lanes, words wrapping at 8; sessions: 5 items, 4 under a window, 3 of different sizes with a failing queue pair, the same with waits that expire | refines `P2PPipe`, sizes compared, exact window, delivery, common failure |
| `teardown` | 2 ranks, 2 objects, 1 fault | healthy is shared, kernels served, one collective pending, arenas outlive kernels also when objects are collected, closes end |
| `settle_race`, `chain_wrap`, `recovery_down` | small instances of the above | the findings of section 7 |

The types of `ModelSwitch` (`TypeOK`) hold on the same instances; its runs are spent
on the other properties. Those of `Recovery`, `P2PChannel` and `Teardown` are proved.
That of `ChainAllReduce` is both.

A run with several *worlds* or *sessions* chooses one of them in its initial state
and keeps it, so that one run covers several combinations of commands and faults
that would be too large together.

Why the bounds are enough. Locks: two holders, one bystander and a shared boundary
Spark give every conflict between two requests, and a third process gives probes
beside them. Switches: each needs at most a previous, a candidate and a displaced
deployment; two faults are a cut-off switch and a failure of what repairs it. The
world of `switch` with three deployments has no faults and no cancel: with them two
commands may operate one displaced deployment at once, neither of them holding all of
its Sparks, and `UndoneMeansRestored` and `CompleteMeansCommitted` fail (section 7);
`switch_halves` has those worlds. Deploy engine: two changing phases
between two checks give every pair of neighbouring phase kinds; the theorems cover
the rest. Chain: three chunks on two slots reuse a slot while a result is
forwarded; two lanes arrive out of order; 7 chunks with words modulo 6 pass the
wrap. `ChainAssumption` says what the words need: an op is short enough, beside the
table of ops, that a distance between two words stays below half the modulus, which
2^32 gives the code for any real op; the blocks are at most half the words (the code
allows 64, `oneshot/runtime.py:814`); and the entries of the table divide the words
(8 of them, `ROCE_CHAIN_OPS`). Recovery: the
limits are reached within the faults; two commands are an
operator's change of mind during one check. Downs meet checks that die, calls that
fail before they have saved anything, and remote commands that land late. Point to
point: five items on two slots reuse both ends twice and pass the wrap (`First` 6
of 8), sizes 3 and 1 split unevenly over the lanes. Teardown: two objects are what
it takes to pair a round with another close. Its safety properties also hold at two
ranks and two objects with 2 faults, at three ranks and one object with 2, and at
three ranks and two objects without a fault, too long for a regular run.

Fairness. `SliceLocks!Fairness`: a live process takes its next local step (weak)
and a waiter gets `admission.lock` in turn (strong), nothing of bodies and kills.
`MCModelSwitch!MCFairSpec` and `DeployEngine!FairSpec`: a live command goes on,
since every remote call has a timeout, and so does a child process that outlives one;
nothing of remote commands that land late. `Recovery!Fairness`: a systemd timer starts
a check again and again and a check that lives runs to its end, clocks run, and
operators repair what recovery only reports; nothing of faults and deaths, which are
bounded. `P2PChannel!FairSpec` and `Teardown!FairSpec` say that as long as some
kernel, thread, queue pair or close can go on, one does; a single weak fairness is
enough because every one of their behaviours has finitely many steps, and it claims
nothing of queue pairs that break, of waits that expire or of ranks that close. The
chain states absence of deadlock as an invariant and needs none.

Deadlock checking is off in `p2p` and `teardown`, which end when everything is
delivered, failed or closed (`Delivers`, `FailsTogether` and `ClosesEnd` say how
they may end), and in the runs of
`ModelSwitch`, whose worlds end when their commands are spent. In `chain` the progress threads poll for ever,
so a circle of waits is no deadlock to TLC: `NeverStuck` asks for a step that
changes something.

## 5. Proofs

`SliceLocksProofs` (for any processes, positions and requests, from
`SliceLocksAssumption`): `TypeCorrect`; `LocksConsistent` shows `LockInv`
inductive. `LockInv` has four parts: who owns `admission.lock` by `pc`
(`AdmissionOwner`), which modes of `install.lock` coexist (`GateOwner`), which
position locks an operation owns during its loop (`SliceOwner`), and what the
owner record says while a lock is owned (`OwnerRecord`); each has a step lemma
with one step per action. Disjoint bodies alone are not inductive: they say
nothing of an admission half way. `MutualExclusion`, `Refinement`,
`RefusalsJustified` and `RowsTruthful` follow from `LockInv` and one step.

`DeployEngineProofs` (for any plan, controllers and pool, from
`DeployEngineAssumption`): `Inv` adds to the types that only the lock's holder is
inside an invocation (`Admitted`), that its copy differs from the file only in
rows noted and not yet saved (`Synced`), that a queued command has not begun
(`Queued`), that rows still to be reached are certain (`Certain`), that passed
phases were seen (`Witnessed`), and that a changing command that began has left a
mark in the file that stops every later invocation (`Marked`, `Earned`).
`MutationsOnce` alone is not inductive because the count must be tied to the
file. `TypeCorrect`, `MutatesOnce`, `CompletionEarned`, `Barriers` and
`CompletionTimeKept` follow.

`P2PPipeProofs` (for any length and depth): `Ordered`, that an item passes each end
only behind the one `Depth` before it, is inductive and gives `TwoRounds`.

`P2PChannelProofs` (for any number of slots, items, packs and writes in flight, any
window, and any item number `First` the words start from, from `P2PAssumption`): the
words of the code are read back as the items they stand for (`Index`), on which an
"at least" of two words is that of their items. `Inv` is then about items: the
counters of either rank are in their order, and no word is more than the slots ahead
of the one it waits for (`Ordered`); a send slot holds its item's bytes from the ready
word until every lane's flag write has completed (`Staged`); a wire carries what its
lane posted, in order, from the lane's first item that is not finished (`InOrder`); a
receive slot holds what has landed of its item until the item is consumed
(`Arriving`); and a receive has its item's header and bytes (`Received`). That a taken
item has its own bytes is not inductive alone: what a receive finds depends on when
the sender's copy, the write's reading of it and the peer's credit happened, which
only the order of the counters connects. `ChannelInvariant`, `TypeCorrect`,
`WindowIsExact` and `SizesAreCompared` follow, and `ChannelIsAPipe` maps every step to
a step of `P2PPipe` or to none. The assumption `N < Width \div 2 + Slots` belongs to
the model: the blocks of all items of a session exist from its beginning, and one more
than half the words ahead would misread its comparison. In the code a rank launches
its calls in order, so a block waits only behind those before it, and the words have
32 bits; `First` is arbitrary, so the wrap may come at any place.

`ChainAllReduceProofs` (for any number of ranks, lanes, blocks, ops and writes in flight
and however often the words wrap, from `ChainAssumption` and one hypothesis more): the
words are the low bits of counters that do not wrap, which the proof brings in under an
existential quantifier (`Counters`): ops launched and taken, chunks posted, written,
used in a row, freed, known to be freed and known to be sent, the chunks each role has
used, and the numbers of the writes on each wire. `Inv` says that such counters exist,
that the words are theirs (`Counted`), and that

- no rank is two ops ahead of another and the table holds the last ops taken (`Begins`);
- what a role has used is what its blocks are past (`Used`);
- along a stream the counters of sender and receiver keep their order, no chunk is
  posted more than the slots ahead of what was freed, and a forwarded chunk is freed
  only when it is used and written on (`Ordered`);
- what a rank late in the chain posted, those before it had posted (`Along`);
- a wire carries exactly the chunks posted and not written, in order, beside credits
  that never go back (`Wired`);
- flags and ring words are those of the newest chunk of their slot (`Flagged`,
  `Marked`), and receive slots, send slots and output hold that chunk's sum (`Valued`).

`ExactSums` alone is not inductive: that a slot still holds the chunk a block waits for
depends on credits which other ranks computed, sent and read several steps before, and
only the counters' order connects them. Where a word is compared with another the proof
shows that the counters are less than half the words apart (`Compares`); where an entry
of the table is replaced, that its op is written, since a neighbour at most one op
behind has used what came before (`PostedEnough`). That a rank has used all chunks of an
op becomes "every other rank took the op" by following the last of those chunks along
the chain (`Everywhere`). Induction over the ops of a session is by their least
counterexample. The hypothesis of the theorems, `Aligned`, is that the slots divide the
words: `chain_wrap` (section 7) shows that without it the sums are wrong. The default of
4 slots and every power of two satisfy it. `ChainInvariant`, `TypeCorrect`,
`ChecksStaySilent`, `RanksStayInStep` and `SumsAreExact` follow.

`TeardownProofs` (for any ranks, objects and number of faults, from
`TeardownAssumption`): `Inv` is proved inductive (`Invariant`). Its parts: a rank is
in the close of one object at a time, aborts aside (`Sequential`); what a close past
its synchronization knows of its own kernel and thread (`Settled`); what a note says
is what its rank knew, and a second note that its thread had stopped (`Truthful`);
the last note of a rank in a round is that of the close it is in (`InRound`); a
healthy close past its first round has every rank's vote, and past its second every
rank's thread has stopped (`Agreed`); without a fault or a missed round every close
is healthy and in its place (`Calm`); and only the last collective of a rank may be
pending, while the rank waits in it or has marked the group (`Paired`).
`HealthyIsShared` alone is not inductive: one rank's result is decided by notes that
others wrote several steps before, and only `Truthful`, `InRound` and `Agreed` connect
a note to what its writer did and does next. `HealthyCloseIsShared`,
`KernelsAreServed`, `AtMostOnePending` and `ArenaIsSafe` follow; the last is about every
close but one that was interrupted in its synchronization (`FreedIsUnused`, section 7).

`DeploymentsProofs` has the lemmas on `Apply` that the compositions need: it keeps
the types and moves only its own process; containers appear only for the deployment
a process starts past its prerequisites (`StartsOnly`), and that start found no other
deployment on its Sparks, strays aside (`Cleared`); what lands late, and what a Spark's
restart leaves, is in `strays` (`OnlyStrays`). So no two models share a Spark, but for
strays, as long as no two starts past their prerequisites overlap (`StartsApart`,
`StartsKeepClear`), which is what the callers' locks are for.

`RecoveryProofs` (for any deployments of a slot, processes, limits, commands and
faults, from `RecoveryAssumption`, `OneSlotAssumption` and `OneCheckAssumption`):
six invariants, each inductive on top of ones before it, with one step per
action. `Typed` are the types, with those of the processes' local copies. `Locked`
says which places of the code hold the slot's locks (`Holds`), what the holder
is engaged in (`Engaged`), and that two processes do not hold them together
(`Alone`). `Apart` is `OnlyStraysShare` with what it rests on: a start past its
prerequisites still finds its Sparks free but for strays (`Cleared`), because the lock's
holder is the only process inside a call. `Bounded` ties `tries`, which only watches, to
the counters the code keeps: to the record (`Counted`), and to what a check holds in its
local copy between reading the record and writing it (`Tried`, `Restarts`).
`AttemptsBounded` alone is not inductive because a check adds one to a number it read
several steps before. `Recording` says that every restart is in the record, lost with
its check, or waits to be recorded (`Recorded`), which rests on what calls an attempt
still has to make (`Attempting`); with the bound on the record it gives
`RestartsBounded`. `Allowed` says what a check has found out by the time it acts:
recovery is on (`Permits`) and no hold was in place when it looked under the locks
(`Unheld`). The theorems: `TypeCorrect`, `RecoverySharesOnlyStrays`,
`AttemptsAreBounded`, `RestartsAreBounded`, `OffIsAlwaysRespected`,
`HoldIsRespected`. `LoneDownKept` is not among them: it is model-checked.

Only model-checked: liveness (`EveryCallAnswered`, `CommandsEnd`, `InvocationsEnd`,
`Recovers`, `Delivers`, `FailsTogether`, `ClosesEnd`) and `NeverStuck`, which is about
`ENABLED`, are out of the prover's reach. The properties of `ModelSwitch` and
`LoneDownKept` are checked and not yet proved.

## 6. Not modelled

Prompts, formatting, logging, downloads, discovery and reporting everywhere; the
contents of plans, profiles and receipts beyond what the properties tell apart;
GPU memory ordering below the fences the kernels issue (a block's stores before
its fence are seen before the word it publishes); the threads of a block as separate
actors; the GPU queues that order a rank's own calls (two ranks that both send more
than two rounds before they receive hold each other up, `p2p/session.py:43`); of the
point-to-point progress thread, that its abort word is queued behind lane 0's writes
(`_p2p_proxy.c:960`; here it is there when the thread has stopped), the check of a
header against the slot's size (`_p2p_proxy.c:858`), and the room that credits of the
other direction take in lane 0's queue (`_p2p_proxy.c:938`); the components listed as
`not_modelled`.

The mapped lines are a small part of the repository. Most of its implementation
lines are copies of other systems (checkpoints of patched vLLM files kept by digest,
several versions of the external SparkCache, vendored code), vLLM adapters, plan
tables, measurement harnesses and command-line plumbing. What is modelled is where
processes, threads, kernels and remote effects meet. Code of that kind that is left
for later: the one-shot arena, chain links, the native four-rank sessions and
`spread`'s resumable copies.

## 7. Findings

Each is a run TLC refutes.

1. `settle_race`: `install --cancel` settles under the admission of the slot's own
   Sparks (`cancel.py:266`) and restarts deployments of wider slots beside a
   concurrent `up`.
2. `chain_wrap`: a ring of three slots places chunks wrongly once the 32-bit chunk
   index wraps (`_roce_proxy.c:1666`, `_chain_cute.py:286`); every slot count from 2
   to 32 is accepted. The default of four slots is not affected.
3. `recovery_down`: a check that is recording an interrupted attempt writes the state
   it read before as its own (`recovery.py:819`); a manual `down` that ran in between
   leaves exactly that state, and the next check starts the model. No death is needed:
   a check whose `up` fails before it has saved anything writes the state it read as
   left after it has released the locks (`recovery.py:943`, `:952`).

### Observations

Met while modelling, without a run of their own. Where a property is named, it is
stated in the module and TLC refutes it on an instance like those above.

Two models on one Spark (`OneModelPerSpark`; `placement.py:418` "Slots that share a
Spark never serve at the same time"):

- A remote start whose caller timed out or died takes effect after the locks are
  released; another command's GPU check has passed by then
  (`scripts/installer_runner.py:277`).
- A child process of `retained_source.py:160` outlives the controller that is killed
  alone and starts its model after the controller's locks are gone.
- A resumed switch holds its own slot's Sparks only: the displaced deployments it
  operates are stopped and no longer counted as affected (`slices.py:94`).
- What an installation affects is read before it has its locks (`slices.py:108`); a
  restart that is between its `down` and its `up` at that moment is not counted.
- The settling of finding 1.

`OnlyStraysShare` leaves out the first two, `HeldStartsApart` all five. Where two
commands operate one displaced deployment at once, as in the third and the fourth, an
undone switch may also be recorded as restored, or a completed one as committed, while
the other command has stopped or started that deployment (`UndoneMeansRestored`,
`CompleteMeansCommitted`).

Switches:

- An installation that replaces an unfinished switch and is cancelled at its first
  boundary writes `cancelled` over that switch's journal (`rollout.py:126`); the
  model it had stopped stays stopped and no record says so
  (`CancelledMeansRestored`; `placement.py:547`).
- A switch killed between `clear_conflicting` and `save("complete")` is settled
  without writing the displaced slot's pointer again (`rollout.py:303`; the
  docstring at `rollout.py:259` says it is), so that model runs and no slot names it
  (`EachRestoredIsRecorded`).
- `up` after an unfinished switch, then `--cancel`, can leave a slot naming another
  model than the one that runs (`rollout.py:303`).
- A failed first installation is recorded `failed`, which counts as settled, with
  containers left (`rollout.py:213`, `placement.py:550`); undone without a previous
  model, a slot keeps naming the stopped candidate.
- A drift found during a recheck saves earlier rows as `running` that never began;
  later resumes refuse them (`deploy_engine.py:268`). This is on the safe side.

Recovery:

- An attempt's result is computed from the record read under the locks and saved
  after they are released: a `recover on` or a manual start in between is half
  overwritten, and old restarts count again (`ResetKept`; `recovery.py:949` against
  `recovery.py:670` and `:202`).
- A check that dies in its `up` while the model comes up leaves an unfinished
  operation; a later check that finds the model serving clears `left`
  (`recovery.py:787`), after which `may_act` refuses for ever and a later failure is
  neither recovered nor recorded as stopped (`ServesOrStops`; `recovery.py:30`,
  `docs/operations/install-reference.md:1327`). `Recovers` excludes exactly this.
- A restart that succeeded but whose check dies before it has written it down is in
  neither the failures nor the restarts of the record: the next check counts an
  interrupted attempt and clears it when it finds the model serving
  (`recovery.py:943`), so a model that keeps falling over is restarted once more for
  each such death. `RestartsBounded` leaves exactly those out (`unrecorded`).
- A manual `down` that meets a check which carries an attempt, or the state one left,
  may be undone (finding 3, `ManualDownKept`). `LoneDownKept` leaves exactly those out
  (`crossed`).
- A manual command that is refused or fails forgets an interrupted attempt without
  counting it as a failure (`recovery.py:656`, `controller.py:1127`), so each such
  command allows one attempt more than `FAILURE_LIMIT`. `AttemptsBounded` leaves
  exactly that out.
- Two operators that take or release a hold at once both pass the check before
  either writes (`HoldKept`; `hold.py:206`, `:213` against `:200`).

Transport:

- The poison of a failed write is announced over lane 0 only (`_p2p_proxy.c:968`);
  when lane 0's queue pair is what failed, the peer learns of it only from its own
  wait limit (`PoisonEverywhere`; `p2p/session.py:50`). `FailsTogether` excludes
  exactly this.
- A `KeyboardInterrupt` inside a closing round does not mark the group unusable, so
  a later close issues another collective beside the abandoned one
  (`teardown.py:45`). `OnePending` excludes exactly this.
- An interrupt in the device synchronization leaves a close without a recorded
  result (`oneshot/runtime.py:2913`); a later `close()` then returns `None`, which
  means healthy (`teardown.py:31`). Nothing retains the arena of such a close
  (`p2p/session.py:771`; only `close_native` does): when the object is collected its
  memory goes while kernels may still run (`FreedIsUnused`). The model ends such a
  close in a place of its own (`left`), which `ArenaOutlivesKernels` leaves out.
- A chain wait for the chunk whose tag wraps to 0 that times out stores 0 in the
  error word, which means no error: the session is poisoned, its counters advance
  and `check_health` does not see it (`_chain_cute.py:242`, `:443`). The model keeps
  the error word; the host's check is not modelled.
- After the barrier every thread of a block reads the poison word for itself; a
  poison stored between two reads splits the block (`_chain_cute.py:294`).
