# A TLA+ model of HACKT: its simulators and the alias resolution of its compiler

HACKT is a compiler for HAC, a language for hierarchical asynchronous circuits,
with tools that work on the compiled objects. This directory models and verifies
the parts that keep state and are hard to test: `hacprsim`, the event-driven
simulator of production rules (`src/src/sim/prsim`); `hacchpsim`, the simulator of
CHP programs (`src/src/sim/chpsim`); and the union-find structure with which the
compiler resolves aliases (`src/src/Object/inst`). Names of files without a
directory are those of `src/src/sim/prsim`.

Contents: [the system](#the-system) ·
[modules](#modules-and-how-they-correspond-to-the-code) ·
[runs](#runs) · [findings](#findings) · [remarks](#remarks-on-the-code) ·
[proofs](#proofs) · [not modelled](#what-is-not-modelled) · [plan](#plan)

## The system

A production rule `guard -> node+` or `guard -> node-` pulls a node up or down
while its guard holds. A node is 0, 1 or X; rules may be weak, and nodes may be
declared mutually exclusive. The simulator keeps an agenda of future changes: it
takes the earliest, commits it, re-evaluates the rules that read the node, and
schedules, cancels or alters the events of the nodes whose pulls changed. Channel
objects that the user attaches to nodes act as the environment of the circuit.

A CHP program is a set of processes that assign, choose, loop and communicate over
channels. It is compiled to a graph of events. An event is checked when all its
predecessors have executed; it blocks, subscribed to what it depends on, or
executes and hands control to its successors.

A HAC definition declares instances and connects them. Connecting two instances
also connects their ports; parameters of an instance may be given after it was
connected. When the body has been unrolled, the sets of aliases get numbers, a
canonical name each, and the definition exports the aliases among its ports.

| component | state | operations | interacts with |
|---|---|---|---|
| event machinery (`State-prsim.cc`, `src/src/sim/event.hh`, `Event-prsim.hh`) | time, event queue, event pool, each node's pending event | set, force, set-now, (re/de)schedule, freeze, unset, initialize, step, advance | called by the commands; calls the engine in each step |
| evaluation engine (`State-prsim.cc`, `Expr.hh`, `Node.hh`) | counters per expression and per rule group, `updated_nodes` | `evaluate_kernel`, `evaluate`, `propagate_evaluation`, `flush_updated_nodes` | reads values, creates and cancels events |
| pull algebra (`Node.hh`, `pull_set`) | none | who wins, who interferes | `flush_updated_nodes`, `unset_node` |
| forced exclusion (`enforce_exclhi/lo`) | a counter per ring | lock, block, release | between evaluation and flush |
| checked exclusion (`check_excl_rings`) | a lock per ring | take, give back, refuse an event | before the commit |
| channels (`Channel-prsim.cc`) | modes, values, counts of active and X rails | reset, stop, release, ignore, react to node changes | called in the middle of a step; `flush_channel_events` schedules events |
| prsim checkpoints (`State-prsim.cc`) | a file | save, load | everything above |
| timing checks (`TimingChecker.cc`) | last changes, windows | report setup/hold; hold an event back (min-delay) | in `dequeue_event`, after the commit |
| chpsim events and channels (`src/src/sim/chpsim`, `src/src/Object/nonmeta_*`) | countdown per event, two queues, subscriptions, variables, channel status | check, block, execute, recheck | variables and channels wake the events subscribed to them |
| chpsim event allocation (`EventAllocator`) | a graph under construction | a visitor over statements, clean-up | what chpsim runs |
| chpsim checkpoints | a file | save, load, initialize | chpsim |
| alias resolution (`src/src/Object/inst`, `unroll`, `def/footprint.cc`) | next pointer, parameters and ports of every alias; ids; sets of aliases | connect, bind, find, replay, allocate, sift, shorten | footprints of other definitions are replayed |
| commands, traces, VCD, VPI | scripts, files | text in and out | the simulators |
| the rest of the compiler (`src/src/parser`, `AST`, `Object`, `net`, `PR`, `guile`) | object graphs | parse, type-check, unroll, write | produces what the simulators read |

All of it is single-threaded. What makes it hard to test is not concurrency but
the number of ways in which sequences of commands and races of the circuit meet
structures that refer to each other, counters that are only ever changed by
differences, and values that were computed earlier:

* a cancelled event stays in the queue until it reaches the front, so queue,
  pool and nodes have to agree about what is live (`kill_event`);
* an event that has been taken from the queue may be put back (exclusion
  exceptions, min-delay constraints) or skipped by a nested `step()`;
* the time moves by steps and by `advance`, which also jumps over gaps;
* one change reaches a node over several rules, in random order on request, and
  the node must be judged once, by the final state;
* weak rules are filtered *before* the node is judged;
* a node blocked by an exclusion ring is woken by nobody but the ring;
* freezing, forcing and unsetting work against the rules on purpose;
* a checkpoint holds values and events, and everything else is computed again;
* a channel keeps no record of where it is in its handshake, and may be stopped
  and released between any two events of it;
* a blocked CHP event is rechecked by whoever updates what it depends on, and one
  that was unblocked executes later without being checked again;
* ports of a relaxed type come to exist after their instance was connected.

The list of hazards in `PROJECT.json` names the lines, and the properties that
would fail.

## Modules and how they correspond to the code

```
prsim:
  PrsimAgenda                        what the event machinery promises
       ^ implemented by
  PrsimQueue <- PrsimEvents <- MCPrsimEvents
                     ^ ^------ PrsimEventsProofs <- PrsimTimeProofs
                     |                 ^
  PrsimPull <----- Prsim  <--- MCPrsim |        (Prsim implements PrsimEvents)
       |             ^-------- PrsimEngineProofs <- PrsimCounterProofs
       |                                                  ^- PrsimVerdictProofs
       ^---------- PrsimPullProofs <- PrsimVerdictProofs
  PrsimChannel <-- MCPrsimChannel
       ^---------- PrsimChannelProofs

chpsim:
  ChpTokens                          what chpsim promises about control
       ^ implemented by
  Chpsim <-- ChpsimProofs
    ^------- MCChpsim (with ChpEventAlloc: from statements to graphs)
    ^------- ChpsimCheckpoint <- MCChpsimCheckpoint (programs of MCChpsim)

compiler:
  InstanceAlias <- MCInstanceAlias
```

**PrsimQueue** — the data structures and their primitive operations: `queue` is
`event_queue` (a multiset ordered by time: equal times in order of insertion),
`pool` is `event_pool` (an entry with node 0 is on the free list), `pending` is
`NodeState::event_index`, `now` is `current_time`. `KillEvent`, `Schedule`,
`Rewrite`, `FirstLive` (what `flush_killed_events` and `dequeue_event` arrive
at), `NextEventBefore` (`next_event_time`).

**PrsimEvents** — one action per command and per outcome of `step()`. A call of
`step()` is several actions: `idle -> dequeue -> propagate -> unwind -> idle`.
`StepNothing`, `StepMinDelay`, `StepXX`, `StepVacuous`, `StepVacuousStop`,
`StepExclRefused` and `StepCommit` are the ways through `execute_immediately`;
`PropagateKill`, `FlushKill`, `FlushOverwrite` and `FlushSchedule` are what
propagation and `flush_updated_nodes` may do to the events of a node, each node
at most once; `StepReturn` runs the `event_deallocator`s that are still open
(`held`: a vacuous event is skipped by `return step();` inside the scope of its
deallocator). `Restore` is a checkpoint that is saved and loaded between two
steps: the events are written in the order of the queue, killed ones included, and
read into an empty pool. *Which* nodes are touched, and how, is a choice here, so
whatever holds of this module holds for every circuit. `Session` says which
commands and modes are used.

**PrsimAgenda** — the abstract specification: at most one planned change per node
(`plan`) and the order in which the changes will happen (`before`), by time and first
come first served; the first happens next. No pool, no queue, no killed events, no
phases. The refinement mapping is `MCPrsimEvents!PlanOf` (the live placeholder of a
node and its event) and `BeforeOf` (the order of those placeholders in the queue).

**PrsimPull** — the predicates of `pull_set` under their own names; `PullValue`
is the value `flush_updated_nodes` derives from them, `PullCovered` the assertion
that its case analysis is exhaustive. The reference is `Consensus`: resolve each
X pull to on or off in all ways, let a strong pull beat a weak one; if every
resolution gives the same 0 or 1, that is the value, otherwise X.

**Prsim** — the engine. The circuit is a constant: expressions with parents, as
in `Expr` and `ExprGraphNode`; `RuleGroup` says which of the four groups of its
node (up, dn, weak up, weak dn) a root belongs to; `Fanout` lists the expressions
a node feeds; `MkExHi` and `MkExLo` are the forced rings, `CheckExHi` and
`CheckExLo` the checked ones. The actions follow a change: `Refuse` (the check
finds a ring taken; what it locked before stays locked) or `Commit` / `CommitNow`
(the value changes) → `EvaluateNext` (take the next fanout) → `EvaluateExpr` (one
level of `evaluate_kernel`) → `EvaluateRoot` (`evaluate` and `propagate_evaluation`
at the rule's node: suppressed, overtaking a weak event, or listed in
`updated_nodes`) → `Enforce` (`enforce_exclhi`, `enforce_excllo`,
`flush_blocked_excl_nodes`) → `Flush` (one node of `flush_updated_nodes`: pull,
interference, instability, verdict) → `Return`. `Load` resets everything as
`load_checkpoint` does, `LoadNode` gives one node after the other its saved value
and counts it into the expressions, `LoadEvents` reads the queue, `LoadLock` checks
one node after the other against the rings and `LoadDone` ends it. The commands are
those of PrsimEvents restricted to `Settable` nodes, and `CheckExcl` (`checkexcl`,
`nocheckexcl`). Each action is an action of PrsimEvents, or invisible to it:
`ImplementsEvents`.

**PrsimChannel** — the two ends of one channel instance, in one channel object or
in two: a source on one side, a sink that logs and expects on the other, for the
four handshakes (1-of-N with or without validity, LEDR, bundled data with two and
with four phases). `val` and `pending` are the channel's nodes and their events;
`chan` holds each object's modes, values, position and the counts of active and X
rails. `process_node` is the reaction to a change, `reset` and `resume` the
commands, `flush_channel_events` (an operator over all that was asked for) what
happens to the events. Any pending event may execute next, since its delay may be
anything, except that the request of bundled data follows its data. A *careful*
user follows the documented protocol (reset everything, let it settle, release at
rest); a free one gives any command at any time.

**Chpsim** — the simulator of a CHP event graph: one action per iteration of the
loop in `State::step()`. `Arrive`, `Block`, `Proceed` and `Refuse` are the outcomes
for the event taken from `check_event_queue`, `Immediate` executes the front of
`immediate_event_fifo`, and `Recheck` and `Ignore` treat the events that an update
woke, one by one. A channel has the five states of `ChannelState`. Run-time errors
and failed assertions end the run (`halted`).

**ChpTokens** — what Chpsim promises about control: the token game of the graph.

**ChpEventAlloc** — the visitor that turns a statement into events from its end to
its start (it is given the successor and returns the entry), the clean-up of null
events, and the graph of all processes; recursive operators.
`AllocAgreesWithTests` compares it with two expectations of the test suite.

**ChpsimCheckpoint** — Chpsim with `save_checkpoint`, `load_checkpoint` and
`initialize` between two calls of `step()`.

**InstanceAlias** — the alias resolution of one definition with scalar instances. An
alias is a path (instance, ports); a value of the structure has `next` and the
`actuals` of every alias that exists. `FindFinal` is the `find(c)` that also brings
an alias up to date (`FinalizeActuals`), `Find` the one that only compresses paths;
`Unite`, `CheckedConnectPort`, `ConnectPortAliases` and `ReplayConnectPort` connect
(the sides change places at every level of ports, as in the code). One action per
statement (`AliasConnection`, `PortConnection`, `TypeCompletion`), and `Create` for
`footprint::create_dependent_types`: backpatching, `AssignLocalId`, `SiftPorts`,
`ImportPortAliases`, `ShortenCanonicalAliases`. `Meaning` is the reference: the least
equivalence that contains what the statements say and is closed under ports and
under the internal aliases of what is bound.

**MC modules** — symmetry and refinement mapping (MCPrsimEvents); the
circuits (MCPrsim: a wire, a C-element with a
gate whose inputs race, strong against and with weak rules, two grants in a ring);
the channels (MCPrsimChannel); the programs (MCChpsim); a definition with three
instances of a relaxed type (MCInstanceAlias).

**The modules called `...Proofs`** — the theorems, see [Proofs](#proofs).

### Abstractions

* Delays come from a set (`Delays`); rule delays, random delays and estimated
  delays are all choices from it. In Chpsim and PrsimChannel the order of events
  with unknown delays is a choice altogether, except that bundled data precede their
  request (`Before`).
* In PrsimEvents whether the exclusion check refuses an event is a choice (Prsim
  models the check); whether a min-delay constraint holds an event back is a choice.
* Watch, break and trace flags, causes, statistics and diagnostics are left out;
  that a step may stop a command is kept (`barren`, `AdvanceStop`).
* Random priorities of simultaneous events are left out: the queue is that of
  the default, FIFO build.
* Data in CHP is Boolean; an expression is a possibly negated disjunction, a guard a
  conjunction of literals and probes.
* The types of a HAC definition are given, with the port aliases of each of their
  footprints; connecting instances of different types is an error.

## Runs

| run | what it asks | bounds | states |
|---|---|---|---|
| `events_core` | do queue, pool and nodes stay consistent, and is the agenda implemented, with rescheduling, unset, refused and delayed events, re-initialization, checkpoints? | 2 nodes, 3 events, times 0..1 | 440,445 |
| `events_all` | with every command theorem `NoEventInPast` allows beside `advance`: live events in the past, leaks, time going back? | 1 node, 3 events, times 0..1 | 408,648 |
| `engine_races` | counters exact, no change missed, no event without reason, comes to rest | C-element + gate, X inputs, random order, one `unstab` rule | 186,050 |
| `engine_commands` | commands and checkpoints on an input and on the node it drives; implements PrsimEvents | wire, 3 events, times 0..1 | 1,159,992 |
| `engine_weak` | the case analysis of `flush_updated_nodes` over all 81 pulls; weak rules, dequeuing, vacuous forced events skipped, overlapping exclusion checks, checkpoints | strong pull-down, weak pull-up, 2 checked rings | 2,258,881 |
| `engine_excl` | forced rings: exact counts, blocked nodes woken | 2 requests, 2 grants, a high and a low ring | 369,928 |
| `channels` | counters, clean handshakes, order, delivery | 4 handshakes, up to 2 rails or bundles, all senses, 1 to 3 values | 203,780 |
| `chpsim_programs` | wake-ups, channels, joins, the token game, streams | 2 streams, 10 programs by hand, all pairs of 28 small processes beside a sender | 75,784 |
| `hac_aliases` | are aliases, ids, exports and names what the program says, whatever the order? | 6 instances (22 aliases), 19 statements, at most 4 in a body | 24,240 |
| `find_*` | see [Findings](#findings) | | |

The properties, by name. Event machinery:

* `EventQueueCoherent`, `NoEventLeaks` — a live placeholder and its node refer to
  each other and a killed one is forgotten (what `check_event_queue` verifies in
  debug builds); between steps, in use means queued.
* `NoLiveEventInPast`, `TimeMonotonic` — what `advance` could break.
* `NoVacuousEvent` — the assertion of `execute_immediately` that an event about
  to execute changes something.
* `ImplementsAgenda`, `ImplementsEvents` — refinement. The first says that a value
  changes only by the event that was first in the agenda, that ties are kept in
  order, and that `reschedule-now` makes an event the next one.

Evaluation engine:

* `PullSound`, `FlushCovered` — the case analysis is right, and complete for the
  pulls that come about.
* `CountersAgree` — the counters kept by differences equal a recount.
* `NoChangeMissed`, `EventsJustified`, `UnstableMeansChange` — a node without
  event is where its rules pull it; a pending event is for a value it is pulled
  to; the assertion that an unstable event is not for the value the node is
  pulled to.
* `RingCountAgrees` — a forced ring's counter is the number of its active members.
* `LocksAgree` — between steps a checked ring is locked if and only if a member of
  it is active, also after initialization and after a checkpoint.
* `FrozenNotScheduled`, `UnsetRestores` — freeze and unset.
* `Settles` — liveness, below.

Channels:

* `CountersMatch` — the counts of active and X rails equal a recount, whatever the
  user does.
* `HandshakeClean` — with a careful user no pending event is disturbed, no node
  becomes X and no assertion of the channel code fails.
* `InOrder`, `Arrives` — what is logged is what was sent, in order, at most one value
  under way; and once the channels stay released all of it arrives. Both are of the
  code, which logs and checks at stopped channels too; the documentation denies that
  (`find_stopped_logs`).

chpsim:

* `ArmedWhenBlocked`, `NoLostWakeup` — a blocked event has seen all its predecessors
  (or the recheck would ignore it), and one that could go on is about to be rechecked.
  Both leave out an arbiter that found its guards false when it executed (`Deaf`), for
  which they fail (see the [remarks](#remarks-on-the-code)).
* `RendezvousPaired` — the status of a channel names the one party that waits or the
  half of the communication that is left.
* `JoinsNeverOverrun` — no event is entered again before it has executed.
* `ImplementsTokens` — refinement of the token game.
* `StreamInOrder`, `Streaming` — a stream delivers every value, in order, for ever.

Alias resolution:

* `NoSpuriousAlias`, `NoAliasMissed` — the structure never joins more, and in the end
  not less, than `Meaning`, with one canonical alias per set, of the fewest levels.
* `IdsPartition`, `PortAliasesExact` — ids tell sets apart, are dense and low for what
  is reachable through ports; the exported aliases are the equality among ports.
* `ErrorsJustified`, `NoErrorMissed` — the compiler stops for a reason in the program,
  and does not go on with two parameters for one set or none.

**Bounds.** `MaxEvents` bounds the pool (in the code it grows): three events on
two nodes allow a live and a killed event on one node and a live one on the
other, the combinations on which coherence depends. `MaxTime = 1` with delays 0
and 1 gives ties, order and gaps; the runs of the engine that are about races use
a single time, since only the order of the queue matters to them. In Prsim a user
command needs more than `Reserve` free pool entries, so that the circuit always
finds one: without that the *bound* would stop propagation, which the code never
does. Two rails and two bundles are enough for a handshake to see partial data and
partial neutrality, and three values for a repeated one. The small CHP processes meet
on one channel and one variable, which is what makes them interfere. Four statements
allow two connections between three instances, a binding before, between or after
them, and a reference to a port; `sizes`, `conflict`, `bound` and `incomplete` errors
all occur.
Runs of prsim never deadlock: the user may always type a command and an idle `step()`
does nothing. `CHECK_DEADLOCK FALSE` is said where the system may stop: a CHP program
that has ended or failed, a channel program that failed an assertion, a finished
compilation.

**Symmetry** is declared for nodes in runs of PrsimEvents without fairness: no
operation of it orders nodes.

**Fairness.** `FairEngineSpec` has weak fairness of `Engine`, the disjunction of
everything the simulator does by itself. `cycle()` calls `step()` until the queue
is empty (State-prsim.cc:5575) and `step()` runs to its end without waiting for
anything, so the engine never rests while it has something to do. Nothing is
assumed of the user. `Settles` says: if from some point on only the engine moves,
the queue stays empty of live events from some point on — for circuits without a
cycle of rules; a ring oscillator rightly never settles. `FairSpec` of Chpsim has
weak fairness of `Next` for the same reason; it says nothing of *which* event is
taken. PrsimChannel has weak fairness of executing events and none of the user;
`Arrives` assumes that the channels stay released from some point on. InstanceAlias
needs no fairness: its properties are invariants of a program that ends.

## Findings

Each is a run that TLC finishes with a violation.

* `find_skipped_event` (State-prsim.cc:3925) — with unstable events dequeued, a
  vacuous forced event is skipped by a nested `step()`. If that step schedules a
  new event on the same node, the outer deallocator clears the node's reference
  to it afterwards: a live event whose node does not know it. The comment on
  `kill_event` says that node and event are invariably consistent.
* `find_chpsim_load` (src/src/sim/chpsim/State.cc:1911) — the countdown of an event is
  neither saved nor loaded, although the field's comment says that it needs to be
  checkpointed. After a load into a fresh simulator a blocked event is subscribed but
  still counts down, so that every recheck ignores it.
* `find_stopped_logs` (Channel-prsim.cc:3412) — `process_data` is called outside the
  test of `stopped()`, so a stopped channel logs and checks what arrives.
  Command-prsim.cc:9297 says "Stopped channels will not log data nor assert expected
  values", and so does the comment at Channel-prsim.cc:3401.

## Remarks on the code

What TLC showed while the models were written, and how the sessions of the runs and
the provisos of the theorems account for it. To reproduce one, add the feature named
to the run's constants.

Event machinery:

* An exclusion exception during `advance` lets the time move past the event that was
  put back: `Timely` excludes the combination.
* After `advance` has jumped over killed placeholders, `reschedule-now` queues behind
  the live events of the current time: `Orderly` excludes it, `events_core` has no
  advance.
* `unset` (State-prsim.cc:2031) may make a pending event vacuous, after which the
  assertion at :3931 fails, although the comment at :1996 calls it a safe command:
  theorem `NeverVacuous` excludes it.
* A refused event goes behind its equals, so the next attempt to step need not hit the
  same exception, as the comment near :3955 has it.

Engine:

* A forced ring blocks its other members only in the step in which one goes high
  (State-prsim.cc:3376); a grant requested later goes high as well, although
  `mk_exclhi` is documented to enforce mutual exclusion.
* A strong pull-up schedules an event and turns off while a weak pull-up is on; the
  event keeps its strength, so that when the weak rule turns off too its change is
  dropped (:5227) and the node goes high although nothing pulls it. `engine_weak`
  has weak rules on the other side only.
* With weak rules on both sides a strong X pull-up, a weak pull-up that is on and a
  weak X pull-down are covered by no case of `flush_updated_nodes`, whose last
  assertion fails: `PullSound` has the proviso `PullCovered`.
* A weak rule that turns on against a strong X is dropped, so the value depends on
  which came first: `engine_weak` does not check `NoChangeMissed`. `unset` ignores
  weak rules: `engine_commands` has none.
* `initialize` does not reset the counters of the forced rings, a checkpoint does not
  rebuild them (a TODO at :8347), and the release of a ring may schedule a frozen
  member: `engine_excl` has none of the three.
* A forced event for a node's own value breaks `UnstableMeansChange` and, on an active
  member of a checked ring, refuses itself; a refused event keeps the locks it took;
  `checkexcl` after `nocheckexcl` goes on with the old locks. `LocksAgree` is
  about sessions without these (`check.clean`).
* A checkpoint leaves out the rule that caused an event
  (`PRSIM_CHECKPOINT_CAUSE_RULE`), so that an event of an `unstab` rule counts as
  an ordinary one after a load, although Event-prsim.cc:84 says that the rule only
  matters for delays.

Channels:

* Release while events are pending turns them X or sends a value again: a careful user
  waits. Under GLOBAL timing (`setup.global`) the request of bundled data may come
  before the data, of which the code warns: a careful user does not set it.
* Releasing a four-phase bundled channel sends again while the request is active, and
  with an X acknowledge does not make the request X. A LEDR channel reads data at
  transitions of a reset (hence `ignore`), and fails an assertion of
  `summarize_status` when released with an X acknowledge; logging bundled data with X
  rails ends the program.
* An event that a channel drives onto a frozen node fails the assertion at
  State-prsim.cc:755.

chpsim:

* An arbitrated selection that was unblocked and whose guards became false again before
  it executed is to block, "subscribing this event to its set of dependents"
  (EventExecutor.cc:349). It subscribes after its countdown was reset (Event.cc:264), so
  every recheck ignores it (Event.cc:199): in program `Regained` of MCChpsim the guard
  becomes true again and stays so, and the simulation ends with the arbiter blocked.
  `ArmedWhenBlocked` and `NoLostWakeup` name this exception (`Deaf`), and the token game
  has an action of its own for it (`Withdraw`). To see the trace, take `\ Deaf` out of
  `NoLostWakeup`.
* A deterministic selection in the same position fails an assertion (program
  `Unstable`), which ends the run.

Aliases:

* The assertion at `subinstance_manager.cc:267` aborts the compiler on legal programs
  such as `x = y = z` with `z` bound and the others not: a set with parameters is
  connected through a non-canonical alias of a set without. `ErrorsJustified` says
  that it fails nowhere else; the tests of the parser avoid it.
* Acceptance depends on the order of statements: `x<1>; y<1>; x=y` is accepted and
  `x=y; x<1>; y<1>` is refused, since `y` is bound already. `NoAliasMissed` is stated
  for what is accepted.

## Proofs

All proofs are checked by TLAPS, for any nodes, rules, pool size, delays, circuits,
sessions, channels and graphs, from the named assumptions on the constants and the
provisos stated in each theorem. The assumptions are what the data structures of the
code are by construction: `QueueAssumption` and `EventsAssumption` (indices are
positive, the sets finite, delays natural numbers), `CircuitAssumption` and
`SizeAssumption` (expressions form what `ExprAlloc` builds: a parent for each, no
expression without inputs, each fanout and each ring over existing nodes),
`GraphAssumption` (chpsim) and `SetupsAssumption` (channels). TLC evaluates them on
every run.

### Event machinery: PrsimEventsProofs, PrsimTimeProofs

The inductive invariant is
`Inv == QInv /\ StepTypeOK /\ NonVacuous /\ held = <<>>` with
`QInv == QTypeOK /\ Unique(queue) /\ UsedIsQueued /\ BackToEvent /\ BackToNode`.
`EventQueueCoherent` speaks of placeholders and their nodes only; that an insertion
does not alias another event needs that what is in use is exactly what is queued,
once, also in the middle of a step, and that reference and back reference agree
for *events*, queued or not. The lemmas say what an insertion and a removal do to
the queue, then that each primitive (`KillEvent`, `Schedule`, `Rewrite`, `Settle`,
re-enqueueing, emptying) preserves `QInv`, and that a checkpoint restores it
(`RestoreInv`); the actions cite them. `TInv` adds that the queue is sorted, that no
live placeholder is in the past, and when a step may end without a node.

That the agenda is implemented is shown by positions. `LoadedFacts` says that a node
has at most one live placeholder, so that `PlanOf` is determined. A step moves the
placeholders of the nodes it is not about by a monotonic function of their position
and leaves their events alone (`Shifts`; `StayShifts`, `DropShifts`, `InsertShifts`),
so the plans of the others and their order stay (`OthersStay`); what remains is where
the placeholder of the node itself went (`AgendaRemove`, `AgendaMove`, `AgendaPlace`).
Each primitive is then one action of the agenda: `ScheduleAgenda` (`PlanChange`),
`KillAgenda` (`Cancel`), `RewriteAgenda` (`Revise`), `SettleAgenda` (`Fire`),
`PutBackAgenda` (`Postpone`), `ExpediteAgenda` (`Expedite`); a checkpoint, and a step
that finds only killed events, leave it as it is. `AInv` adds to `TInv` that without
`advance` no placeholder at all is in the past, not even a killed one.

| theorem | proviso | states |
|---|---|---|
| `TypeCorrect` | `Benign` | `[]TypeOK` |
| `Coherence` | `Benign` | `[](EventQueueCoherent /\ PlaceholdersUnique /\ NoEventLeaks /\ PendingIsLive)` |
| `NeverVacuous` | `Benign`, no `unset` | `[]NoVacuousEvent` |
| `NoEventInPast` | `Timely` | `[]NoLiveEventInPast` |
| `TimeNeverGoesBack` | `Timely` | `TimeMonotonic` |
| `AgendaImplemented` | `Orderly` | `ImplementsAgenda` |
| `TypeCorrectEver` | – | `[]TypeOK` |
| `NoLeakEver` | – | `[](PlaceholdersUnique /\ NoEventLeaks /\ PendingIsLive)` |

`Benign`: unstable events are not dequeued, or vacuous ones stop the step, or
nothing (force, unset) can make an event vacuous. `find_skipped_event` shows that
coherence needs this; under it `held` is empty, which is why that is part of `Inv`.
`Timely`: benign, and `advance` not combined with exclusion exceptions or stops at
vacuous events. `Orderly`: timely, and `advance` and `reschedule` are not both used:
after an `advance` over killed placeholders `reschedule-now` does not put the event
first (see the [remarks](#remarks-on-the-code)).

The last two theorems (in PrsimEngineProofs) hold in *every* session, also in those of
`find_skipped_event`. What survives the skipped events is `Sound`: the queue and the
open deallocators `held` together are what is in use, each event once, and a node's
reference, if it has one, is right. (What is lost is the converse: a live event may not
be known to its node.)

### Engine: PrsimEngineProofs, PrsimCounterProofs, PrsimVerdictProofs

These are about every circuit and every order in which rules are evaluated. The
invariants build on each other:

* `Sound /\ Control` (`EngineInvariant`) — the structures as above, and the shape of a
  step: where the propagation of a change stands (`todo`, `climb`, `uq`) in each stage,
  which nodes are still to be flushed, and that the value of `cause` is the node's.
  From it every action is shown to be an action of PrsimEvents or a stutter.
* `CountersInv` — the strengthening of `CountersAgree` to the middle of a propagation.
  A recount of an expression is *not* its counter while a change climbs; it is after the
  changes still in `todo` (counted with multiplicity: a node may feed an expression
  twice) and the one step under way in `climb` are subtracted. Loading a checkpoint has
  the same form with the nodes not yet loaded in place of `todo`.
* `RingsInv`, `LocksInv` — the same for the counters of forced rings (which lag behind
  by the change of `cause` until `Enforce`) and the locks of checked rings (which run
  ahead of the value between check and commit, and lag behind while loading).
* `FrozenInv` — no frozen node is listed in `updated_nodes`.
* `JustInv` — every node that is not listed, and that neither the user nor a ring may
  touch, is judged rightly: its event is for the value it is pulled to, and if it has no
  event it is where it is pulled. A node is taken off the list by `Flush` only, and put
  on it whenever its pulls change (`EvaluateRoot`): the proof shows that no action
  changes the pulls, the value or the event of a node that is not listed.
* `ListedInv` — only nodes with rules or in rings are listed.

| theorem | proviso | states |
|---|---|---|
| `EngineImplementsEvents` | – | `ImplementsEvents` |
| `UnsetIsRight` | no weak rules | `UnsetRestores` |
| `CountersAlwaysAgree` | – | `[]CountersAgree` |
| `RingCountsAlwaysAgree` | no `initialize`, no checkpoint | `[]RingCountAgrees` |
| `LocksAlwaysAgree` | – | `[]LocksAgree` |
| `FrozenNeverScheduled` | with `freeze`: no settable node in a forced ring | `[]FrozenNotScheduled` |
| `PullAlwaysSound` | – | `[]PullSound` |
| `AlwaysCovered` | no node with weak rules both ways (if weak rules are enabled) | `[]FlushCovered` |
| `EventsAlwaysJustified` | no weak rules, no rule-driven node in a forced ring, no checkpoint | `[]EventsJustified` |
| `NoChangeEverMissed` | the same, and `Benign` | `[]NoChangeMissed` |
| `UnstableAlwaysMeansChange` | `Benign`, no `unset`; with `setf`: no settable node has rules or is in a forced ring, no weak rules, no checkpoint | `[]UnstableMeansChange` |

The provisos are those the code needs, with two exceptions. Needed are: *no weak rules*
for `UnsetIsRight` and `EventsAlwaysJustified` (see the [remarks](#remarks-on-the-code):
an event of a strong rule survives its pull under a weak one; `unset` ignores weak
rules); *weak rules one way* for `AlwaysCovered`; *no `initialize`, no checkpoint* for
the ring counters, which neither sets; *frozen nodes outside the rings*, whose release
asks nobody; no vacuous forced events for `UnstableAlwaysMeansChange`; *no rule-driven
node in a ring* for `EventsAlwaysJustified`, since a ring cuts off the pull its members
are judged by while an earlier event may still stand in the queue. Stronger than needed
are: *no rule-driven node in a ring* for `NoChangeEverMissed`, which `engine_excl` checks
on its rings with TLC (whether a blocked node is found again depends on all members of
its rings at once); and *no checkpoint*, since a loaded counter equals the saved one only
because a recount is unique, which is an induction over the expression tree.

### Pull algebra: PrsimPullProofs

One lemma per case of `flush_updated_nodes` shows that `Consensus` has its value, by
exhibiting two resolutions that disagree or by showing that all agree; `PullIsSound`
puts them together for every value of the node, and adds that without weak pulls the
case analysis leaves nothing out (`StrongCovered`). With the engine's type invariant
this is `PullAlwaysSound` of PrsimVerdictProofs (`[]PullSound`).

### Channels: PrsimChannelProofs

`ChannelCountersMatch` states `[]CountersMatch`, without proviso. The invariant adds to
it that the channel objects keep their fields and `val` its domain. The lemmas say that
nothing a channel does but `Counted` touches the counters (`SameCounts`), and that
`Counted` adds exactly the difference between two recounts (`OneChange`).

`HandshakeAlwaysClean` states `[]HandshakeClean`, for every setup with a careful user.
A channel looks at the values of the nodes and not at what is pending, so an answer to
one change may hit an event that is still to come; that it never does needs an
invariant of what *can* be pending (`CarefulInv`):

* `Tidy`: no node is X, a pending event always changes its node, and only the request
  of bundled data waits, for exactly the data events that are pending;
* delay-insensitive channels (`DI`): there is a value *v* such that the active rails,
  and those about to change, are a part of its code (`Wave`: up while the acknowledge
  is off, down while it is on), and validity and acknowledge move only when what they
  follow has settled, and not both at once (`Signals`);
* the other types (`Turns`): by parity, or by request and acknowledge, it is either the
  source's turn or the sink's, and only events of the one whose turn it is are pending;
* before the first release (`Unready`): rails and validity are X or idle, and as long
  as events are pending all objects are stopped; so a release, which the user gives at
  rest and without an X, finds an empty channel, whatever the reset did on the way.

`Parts` says who drives which node (the first object the source's, the last the
sink's), so the events of an answer fall into a sink's and a source's part. The proof
goes over the node that changes (`DIRail`, `DIValid`, `DIAck`; `TurnAck`, `TurnData`)
and over a release (`DIRelease`, `TurnRelease`): the events asked for fit what is
pending (`Fits`), and pending events that fit are tidy again (`FlushTidy`).
That a code word has one rail per bundle, so that counting tells whether it is whole,
is arithmetic on the rails (`RailPlace`, `PlaceRail`, `CodeSize`, `CounterFacts`), with
the counters of the first theorem. `SetupOK` states of the weights of the digits that
they are positive, which is true of every radix but not known to the provers.

### chpsim: ChpsimProofs

`Inv == TypeOK /\ Bookkeeping /\ ArmedWhenBlocked /\ Pairing /\ ArmedRechecked`, where
`ArmedRechecked` says of the events whose countdown is zero, and so of all but deaf
arbiters, what `NoLostWakeup` says. That an
event is about to be rechecked whenever it could go on depends on who is subscribed, on
no event being both blocked and unblocked, and on the status of its channel naming the
party that waits, so these are proved together. Theorems `TypeCorrect`,
`BlockedEventsArmed`, `WakeupsNotLost`, `ChannelsExclusive` (`RendezvousPaired`) and
`PlaysTokenGame` (that the token game is implemented), for every graph that
`GraphAssumption` describes.

`JoinsSound` states `[]JoinsNeverOverrun` for every *structured* graph, which is what the
compiler makes of sequences, forks, selections and loops: a set of threads (paths of
edges) covers the edges, a thread leaves an event only if it entered it, and along
several edges only where the event chooses among them, and the edges into an event that
needs fewer arrivals than it has predecessors belong to one thread (`Threads`). A countdown only counts arrivals, so the invariant
(`TokensMarked`) says that the tokens *can* be placed on edges such that no thread
carries two; a step moves the marks of the threads through its event
(`MarkingMoves`), and a second arrival at a join would put two marks on a thread
(`MarkingFits`). The proof uses only that a step is one of the token game. That the
programs of the runs are structured is an assumption TLC evaluates
(`ProgramsAreStructured` in MCChpsim, with the threads computed from the graph).

### Only model-checked

* Liveness (`Settles`, `Arrives`, `Streaming`): out of the prover's reach.
* InstanceAlias and ChpEventAlloc: recursive code, recursive operators, about which the
  prover cannot reason.
* `InOrder` of channels: that the value read is the value sent means that the digits of
  a number add up to it, which is an induction over the bundles.
* `StreamInOrder` of chpsim: it is about the streams, particular programs of the runs.
* The cases outside the provisos above, where a run covers them: rings
  (`engine_excl`), weak rules (`engine_weak`), checkpoints (`engine_commands`).

## What is not modelled

* The rest of the compiler, netlists, place-and-route and scripting: sequential batch
  programs over unbounded object graphs, most of them translations without a state
  that outlives a call. Of alias resolution: arrays, directions of channels, and
  implicit supply ports.
* Setup and hold checks: they look back and report; the default build does not do the
  forward ones (`PRSIM_FWD_POST_TIMING_CHECKS`). Min-delay constraints, which hold
  events back, are a choice in `StepMinDelay`.
* `ExprAlloc`: builds the circuit once before simulation; the circuits are
  constants here.
* Command parsing, printing, traces and VCD: text in and out.
* VPI co-simulation: its order of calls is that of an external simulator.
* Channels: clocked and random sources, signed values and the delays themselves. Of the
  timing modes what matters to the order of events is modelled: bundled data precede
  their request in all modes but GLOBAL, which follows from `set_bd_data_req` (greatest
  delay, enqueued last) and is not computed from delays.
* Atomic nodes, keeper checks and invariants of the engine: diagnostics and a shortcut
  of the same evaluation.

These leave most lines of the repository outside the map: the compiler's front end and
object library, tables, utilities and output formats.

## Plan

Done: the event machinery, the engine with both kinds of exclusion, checkpoints,
channels, chpsim with its event allocation, alias resolution of scalars; the theorems
above. Next, in this order:

1. Proofs: `InOrder` of channels, from the invariant of `HandshakeAlwaysClean` and an
   assumption that digits add up to their number.
2. Implicit supply ports and arrays of aliases, as a module beside InstanceAlias.
   `connect_implicit_port` overwrites a union-find pointer (`instance_alias.tcc:542`)
   and relies on such ports never being pointed to (`subinstance_manager.cc:237`).
