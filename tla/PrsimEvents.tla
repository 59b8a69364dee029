----------------------------- MODULE PrsimEvents -----------------------------
(***************************************************************************)
(* The event machinery of prsim: who may put events in the queue, cancel   *)
(* them, move them and execute them.  The user's commands act between two  *)
(* steps; step() dequeues the next event, commits its value and then       *)
(* flushes the nodes whose pull changed, each at most once.  Which nodes   *)
(* those are, and what they are pulled to, depends on the circuit: here it *)
(* is a choice, so what holds of this module holds whatever the circuit    *)
(* is.  Module Prsim makes the choice the way the rules do, and is checked *)
(* to implement this module.                                               *)
(*                                                                         *)
(* One call of step() is several steps of the model:                       *)
(*   idle -> dequeue -> ... -> propagate -> ... -> unwind -> idle          *)
(***************************************************************************)
EXTENDS PrsimQueue, FiniteSets

CONSTANTS
    Delays,     \* the delays get_delay_up/dn may return
    Session     \* what the user and the configuration make use of

Features == {"setf", "unset", "setnow", "excl", "advance", "reschedule",
             "mindelay", "dequeue_unstable", "stop_vacuous", "initialize",
             "freeze", "checkpoint"}

ASSUME EventsAssumption ==
    /\ Delays \subseteq Nat
    /\ Session \subseteq Features

DequeueUnstable == "dequeue_unstable" \in Session

VARIABLES
    value,      \* NodeState::value
    frozen,     \* nodes with NODE_FROZEN
    phase,      \* where step() is
    updated,    \* nodes flush_updated_nodes may still get to in this step
    held,       \* event_deallocators whose scope is still open
    until,      \* stop_time of the advance command in progress (-1: none)
    barren      \* the last step ended without a node: on an exclusion
                \* exception, or at a vacuous event

stepVars == <<value, frozen, phase, updated, held, until, barren>>
vars == <<now, queue, pool, pending, value, frozen, phase, updated, held,
          until, barren>>

Phase == {"idle", "dequeue", "propagate", "unwind"}
Holder == [node : Node, ev : EventId]

TypeOK ==
    /\ now \in Time
    /\ queue \in Seq(Placeholder)
    /\ pool \in [EventId -> Event]
    /\ pending \in [Node -> EventId \cup {0}]
    /\ value \in [Node -> Value]
    /\ frozen \subseteq Node
    /\ phase \in Phase
    /\ updated \subseteq Node
    /\ held \in Seq(Holder)
    /\ until \in Time \cup {-1}
    /\ barren \in BOOLEAN

Init ==
    /\ now = 0
    /\ queue = <<>>
    /\ pool = [i \in EventId |-> NullEvent]
    /\ pending = [n \in Node |-> 0]
    /\ value = [n \in Node |-> LOGIC_OTHER]
    /\ frozen = {}
    /\ phase = "idle"
    /\ updated = {}
    /\ held = <<>>
    /\ until = -1
    /\ barren = FALSE

-----------------------------------------------------------------------------
(* The user's commands, between two steps.                                   *)

Prompt == phase = "idle" /\ until = -1

\* Mutant of SetNode: an unchanged value is scheduled too.
SetNodeSame(n, v, t) ==
    /\ Prompt
    /\ pending[n] = 0
    /\ n \notin frozen
    /\ t >= now
    /\ Schedule(n, NewEvent(n, v, 0, FALSE, FALSE), t)
    /\ UNCHANGED <<now, stepVars>>

\* set_node_time without force.  A pending event, an unchanged value and a
\* frozen node make it return without effect.
SetNode(n, v, t) ==
    /\ Prompt
    /\ pending[n] = 0
    /\ v # value[n]
    /\ n \notin frozen
    /\ t >= now
    /\ Schedule(n, NewEvent(n, v, 0, FALSE, FALSE), t)
    /\ UNCHANGED <<now, stepVars>>

\* set_node_time with force.  It overrides a pending event whatever its
\* value; without one, an unchanged value is dropped.
SetNodeForced(n, v, t) ==
    /\ "setf" \in Session
    /\ Prompt
    /\ pending[n] # 0 \/ v # value[n]
    /\ t >= now
    /\ Schedule(n, NewEvent(n, v, 0, FALSE, TRUE), t)
    /\ UNCHANGED <<now, stepVars>>

DescheduleEvent(n) ==
    /\ Prompt
    /\ pending[n] # 0
    /\ KillEvent(n)
    /\ UNCHANGED <<now, stepVars>>

\* Mutant of RescheduleEvent: the event may be moved to the past.
RescheduleEventAnytime(n, t) ==
    /\ "reschedule" \in Session
    /\ Prompt
    /\ pending[n] # 0
    /\ Schedule(n, pool[pending[n]], t)
    /\ UNCHANGED <<now, stepVars>>

\* reschedule_event; reschedule_event_future is the same with t = now + dt.
RescheduleEvent(n, t) ==
    /\ "reschedule" \in Session
    /\ Prompt
    /\ t >= now
    /\ pending[n] # 0
    /\ Schedule(n, pool[pending[n]], t)
    /\ UNCHANGED <<now, stepVars>>

\* reschedule_event_relative: dt from the time the event is scheduled at,
\* which is looked up in the queue.
RescheduleEventRelative(n, dt) ==
    \E k \in DOMAIN queue :
        /\ queue[k].ev = pending[n]
        /\ RescheduleEvent(n, queue[k].time + dt)

\* reschedule_event_now pops the placeholders at the front whose time is the
\* current time, enqueues the copy of the event, and puts them back behind it.
RescheduleEventNow(n) ==
    /\ "reschedule" \in Session
    /\ Prompt
    /\ pending[n] # 0
    /\ \E i \in EventId :
        /\ Fresh(i)
        /\ pool' = [PoolAfterKill(n) EXCEPT ![i] = pool[pending[n]]]
        /\ pending' = [pending EXCEPT ![n] = i]
        /\ IF Len(queue) > 0 /\ queue[1].time = now
           THEN queue' = InsertAt(queue, 1, [time |-> now, ev |-> i])
           ELSE Enqueue(queue, i, now)
    /\ UNCHANGED <<now, stepVars>>

\* freeze_node: a pending event stays in the queue and will fire.
FreezeNode(n) ==
    /\ "freeze" \in Session
    /\ Prompt
    /\ frozen' = frozen \cup {n}
    /\ UNCHANGED <<queueVars, value, phase, updated, held, until, barren>>

\* unset_node: thaws the node and, unless it is holding its state, makes the
\* pending event agree with the pull (v and its weakness w) or creates one.
UnsetNode(n, v, w, d) ==
    /\ "unset" \in Session
    /\ Prompt
    /\ frozen' = frozen \ {n}
    /\ \/ UNCHANGED queueVars
       \/ /\ pending[n] # 0
          /\ Rewrite(n, [pool[pending[n]] EXCEPT
                            !.val = v, !.weak = w, !.forced = FALSE])
          /\ UNCHANGED now
       \/ /\ pending[n] = 0
          /\ v # value[n]
          /\ Schedule(n, NewEvent(n, v, 0, w, FALSE), now + d)
          /\ UNCHANGED now
    /\ UNCHANGED <<value, phase, updated, held, until, barren>>

\* Mutant of Initialize: the nodes are reset, the queue is not.
InitializeNodes(t) ==
    /\ "initialize" \in Session
    /\ Prompt
    /\ now' = t
    /\ pending' = [n \in Node |-> 0]
    /\ value' = [n \in Node |-> LOGIC_OTHER]
    /\ frozen' = {}
    /\ UNCHANGED <<queue, pool, phase, updated, held, until, barren>>

\* initialize and reset (t = 0), x_all (t = now): every node is X without an
\* event, and the queue is emptied by deallocating what it refers to.
Initialize(t) ==
    /\ "initialize" \in Session
    /\ Prompt
    /\ now' = t
    /\ queue' = <<>>
    /\ pool' = PoolWithout(QueuedUpTo(Len(queue)))
    /\ pending' = [n \in Node |-> 0]
    /\ value' = [n \in Node |-> LOGIC_OTHER]
    /\ frozen' = {}
    /\ UNCHANGED <<phase, updated, held, until, barren>>

\* What check_event_queue verifies: a live placeholder's node refers back to
\* that very event, so that no two live placeholders are for the same node; a
\* killed one has been dissociated from its node.
EventQueueCoherent ==
    \A k \in DOMAIN queue :
        LET e == pool[queue[k].ev]
        IN  IF e.killed THEN pending[e.node] # queue[k].ev
                        ELSE pending[e.node] = queue[k].ev

\* The live events in the queue that are for node n.
Loaded(n) == {k \in DOMAIN queue :
                ~pool[queue[k].ev].killed /\ pool[queue[k].ev].node = n}

\* save_checkpoint, and load_checkpoint into a simulator that was just
\* started.  Both verify the queue (check_event_queue).  The events are
\* allocated anew in the order of the queue, killed ones too, without the
\* rule that caused them; a node refers to the live event that was loaded
\* for it.
Restore ==
    /\ "checkpoint" \in Session
    /\ Prompt
    /\ EventQueueCoherent
    /\ Len(queue) <= MaxEvents
    /\ queue' = [k \in DOMAIN queue |-> [time |-> queue[k].time, ev |-> k]]
    /\ pool' = [i \in EventId |->
                    IF i \in DOMAIN queue THEN [pool[queue[i].ev] EXCEPT !.rule = 0]
                    ELSE NullEvent]
    /\ pending' = [n \in Node |-> IF Loaded(n) = {} THEN 0
                                  ELSE CHOOSE k \in Loaded(n) : TRUE]
    /\ UNCHANGED <<now, stepVars>>

-----------------------------------------------------------------------------
(* step().                                                                   *)

\* A call of step: from the step and cycle commands at any time, from the
\* loop of prsim_advance under its condition, and from a step that dropped a
\* vacuous or delayed event.
MayDequeue ==
    \/ phase = "dequeue"
    \/ /\ phase = "idle"
       /\ until = -1
       /\ Len(queue) > 0
    \/ /\ phase = "idle"
       /\ until # -1
       /\ ~barren
       /\ NextEventBefore(until)

\* Everything in the queue is killed (or, on a repeated call, the queue is
\* empty): step returns INVALID_NODE_INDEX.
StepNothing ==
    /\ MayDequeue
    /\ NoneLive
    /\ queue' = <<>>
    /\ pool' = PoolWithout(QueuedUpTo(Len(queue)))
    /\ phase' = "unwind"
    /\ UNCHANGED <<now, pending, value, frozen, updated, held, until, barren>>

\* dequeue_event moves an event that a min-delay constraint holds back to the
\* later time t, advances to the time it had, and looks again.
StepMinDelay(k, t) ==
    LET i == queue[k].ev
        n == pool[i].node
    IN  /\ "mindelay" \in Session
        /\ MayDequeue
        /\ FirstLive(k)
        /\ pool[i].val # LOGIC_OTHER
        /\ t > queue[k].time /\ t <= MaxTime
        /\ \E c \in EventId :
            /\ Fresh(c)
            /\ pool' = [j \in EventId |->
                            IF j = c THEN pool[i]
                            ELSE IF j \in QueuedUpTo(k) THEN NullEvent
                            ELSE pool[j]]
            /\ pending' = [pending EXCEPT ![n] = c]
            /\ Enqueue(DropFirst(queue, k), c, t)
        /\ now' = queue[k].time
        /\ phase' = "dequeue"
        /\ UNCHANGED <<value, frozen, updated, held, until, barren>>

\* step takes the first live event, at position k, and execute_immediately
\* asserts that its node refers back to it.
Executing(k) ==
    /\ MayDequeue
    /\ FirstLive(k)
    /\ pending[pool[queue[k].ev].node] = queue[k].ev
    /\ now' = queue[k].time

\* Mutant of Settle: the event stays in the queue and in the pool.
SettleKeepsEvent(k) == UNCHANGED <<queue, pool, pending>>

\* The event is deallocated and its node has no event any more.
Settle(k) ==
    /\ queue' = DropFirst(queue, k)
    /\ pool' = PoolWithout(QueuedUpTo(k))
    /\ pending' = [pending EXCEPT ![pool[queue[k].ev].node] = 0]

\* A node that is X is set to X: return early.
StepXX(k) ==
    LET e == pool[queue[k].ev]
    IN  /\ Executing(k)
        /\ e.val = LOGIC_OTHER /\ value[e.node] = LOGIC_OTHER
        /\ Settle(k)
        /\ phase' = "unwind"
        /\ barren' = FALSE
        /\ UNCHANGED <<value, frozen, updated, held, until>>

\* With unstable events dequeued, a vacuous event is skipped by calling step
\* again -- inside the scope of its event_deallocator, which will only run
\* when that call returns.
StepVacuous(k) ==
    LET i == queue[k].ev
        e == pool[i]
    IN  /\ DequeueUnstable /\ "stop_vacuous" \notin Session
        /\ Executing(k)
        /\ e.val = value[e.node] /\ e.val # LOGIC_OTHER
        /\ queue' = DropFirst(queue, k)
        /\ pool' = PoolWithout(QueuedUpTo(k - 1))
        /\ held' = Append(held, [node |-> e.node, ev |-> i])
        /\ phase' = "dequeue"
        /\ barren' = FALSE
        /\ UNCHANGED <<pending, value, frozen, updated, until>>

\* In the mode that stops at vacuous events step returns instead.
StepVacuousStop(k) ==
    LET e == pool[queue[k].ev]
    IN  /\ DequeueUnstable /\ "stop_vacuous" \in Session
        /\ Executing(k)
        /\ e.val = value[e.node] /\ e.val # LOGIC_OTHER
        /\ Settle(k)
        /\ phase' = "unwind"
        /\ barren' = TRUE
        /\ UNCHANGED <<value, frozen, updated, held, until>>

\* The event gets past the tests for vacuous events: in the default mode it
\* changes the value or is forced (an assertion of the source).
NotVacuous(e) ==
    \/ value[e.node] # e.val
    \/ ~DequeueUnstable /\ e.forced /\ e.val # LOGIC_OTHER

\* The exclusion check fails and the policy is to stop: the event goes back
\* to the queue at its time, behind the other events of that time.
StepExclRefused(k) ==
    /\ "excl" \in Session
    /\ Executing(k)
    /\ NotVacuous(pool[queue[k].ev])
    /\ Enqueue(DropFirst(queue, k), queue[k].ev, queue[k].time)
    /\ pool' = PoolWithout(QueuedUpTo(k - 1))
    /\ phase' = "unwind"
    /\ barren' = TRUE
    /\ UNCHANGED <<pending, value, frozen, updated, held, until>>

\* The value is committed, and any node's pull may change.
StepCommit(k) ==
    LET e == pool[queue[k].ev]
    IN  /\ Executing(k)
        /\ NotVacuous(e)
        /\ Settle(k)
        /\ value' = [value EXCEPT ![e.node] = e.val]
        /\ phase' = "propagate"
        /\ updated' = Node
        /\ barren' = FALSE
        /\ UNCHANGED <<frozen, held, until>>

\* set_node_immediately: an event that never was in the queue.  It may be
\* refused by the exclusion check, without effect.  A vacuous one ends the
\* step, or is dropped by a call of step, when unstable events are dequeued;
\* otherwise it must change the value (the assertion again).
SetNow(n, v) ==
    /\ "setnow" \in Session
    /\ Prompt
    /\ pending[n] = 0
    /\ \/ /\ v # value[n]
          /\ value' = [value EXCEPT ![n] = v]
          /\ phase' = "propagate"
          /\ updated' = Node
          /\ barren' = FALSE
       \/ /\ v # value[n] /\ "excl" \in Session
          /\ phase' = "unwind"
          /\ barren' = TRUE
          /\ UNCHANGED <<value, updated>>
       \/ /\ v = value[n] /\ v # LOGIC_OTHER /\ DequeueUnstable
          /\ barren' = ("stop_vacuous" \in Session)
          /\ phase' = IF barren' \/ Len(queue) = 0 THEN "unwind" ELSE "dequeue"
          /\ UNCHANGED <<value, updated>>
    /\ UNCHANGED <<queueVars, frozen, held, until>>

\* propagate_evaluation kills a weak event that a strong pull overtakes; the
\* node has yet to be flushed.
PropagateKill(n) ==
    /\ phase = "propagate"
    /\ pending[n] # 0
    /\ KillEvent(n)
    /\ UNCHANGED <<now, stepVars>>

\* flush_updated_nodes, once per node: the node's pending event is left alone
\* (no step of this model), killed, ...
FlushKill(n) ==
    /\ phase = "propagate"
    /\ n \in updated
    /\ pending[n] # 0
    /\ KillEvent(n)
    /\ updated' = updated \ {n}
    /\ UNCHANGED <<now, value, frozen, phase, held, until, barren>>

\* ... overwritten to X by interference or instability, ...
FlushOverwrite(n, w) ==
    /\ phase = "propagate"
    /\ n \in updated
    /\ pending[n] # 0
    /\ value[n] # LOGIC_OTHER
    /\ Rewrite(n, [pool[pending[n]] EXCEPT !.val = LOGIC_OTHER, !.weak = w])
    /\ updated' = updated \ {n}
    /\ UNCHANGED <<now, value, frozen, phase, held, until, barren>>

\* ... or replaced by (without a pending event: followed by) a new event, which
\* only a value other than the current one is worth.
FlushSchedule(n, v, r, w, d) ==
    /\ phase = "propagate"
    /\ n \in updated
    /\ n \notin frozen
    /\ v # value[n]
    /\ Schedule(n, NewEvent(n, v, r, w, FALSE), now + d)
    /\ updated' = updated \ {n}
    /\ UNCHANGED <<now, value, frozen, phase, held, until, barren>>

\* Mutant of StepReturn: a deallocator clears its node but frees nothing.
StepReturnLeaks ==
    /\ phase \in {"propagate", "unwind"}
    /\ updated' = {}
    /\ IF held = <<>>
       THEN phase' = "idle" /\ UNCHANGED <<pool, pending, held>>
       ELSE /\ pending' = [pending EXCEPT ![held[Len(held)].node] = 0]
            /\ held' = SubSeq(held, 1, Len(held) - 1)
            /\ phase' = "unwind"
            /\ UNCHANGED pool
    /\ UNCHANGED <<now, queue, value, frozen, until, barren>>

\* step returns.  The deallocators left open by skipped events run, the last
\* one first: each clears its node's event and frees the index it noted.
StepReturn ==
    /\ phase \in {"propagate", "unwind"}
    /\ updated' = {}
    /\ IF held = <<>>
       THEN phase' = "idle" /\ UNCHANGED <<pool, pending, held>>
       ELSE LET h == held[Len(held)]
            IN  /\ pool' = PoolWithout({h.ev})
                /\ pending' = [pending EXCEPT ![h.node] = 0]
                /\ held' = SubSeq(held, 1, Len(held) - 1)
                /\ phase' = "unwind"
    /\ UNCHANGED <<now, queue, value, frozen, until, barren>>

-----------------------------------------------------------------------------
(* The advance command: prsim_advance.                                       *)

AdvanceBegin(t) ==
    /\ "advance" \in Session
    /\ Prompt
    /\ t >= now
    /\ until' = t
    /\ barren' = FALSE
    /\ UNCHANGED <<queueVars, value, frozen, phase, updated, held>>

\* The loop ends because nothing is due before stop_time, or because a step
\* ended without a node.  Neither sets the stop flag, not even an exception:
\* the time moves on to stop_time.
AdvanceEnd ==
    /\ phase = "idle"
    /\ until # -1
    /\ barren \/ ~NextEventBefore(until)
    /\ now' = IF now < until THEN until ELSE now
    /\ until' = -1
    /\ UNCHANGED <<queue, pool, pending, value, frozen, phase, updated, held,
                   barren>>

\* The loop ends at a breakpoint, by an interrupt or by an error policy that
\* sets the stop flag: the time stays that of the last event.
AdvanceStop ==
    /\ phase = "idle"
    /\ until # -1
    /\ ~barren
    /\ until' = -1
    /\ UNCHANGED <<queueVars, value, frozen, phase, updated, held, barren>>

-----------------------------------------------------------------------------
UserNext ==
    \/ \E n \in Node, v \in Value, t \in Time : SetNode(n, v, t)
    \/ \E n \in Node, v \in Value, t \in Time : SetNodeForced(n, v, t)
    \/ \E n \in Node : DescheduleEvent(n)
    \/ \E n \in Node : RescheduleEventNow(n)
    \/ \E n \in Node, t \in Time : RescheduleEvent(n, t)
    \/ \E n \in Node, dt \in {-1, 1} : RescheduleEventRelative(n, dt)
    \/ \E n \in Node : FreezeNode(n)
    \/ \E n \in Node, v \in Value, w \in Strength, d \in Delays :
            UnsetNode(n, v, w, d)
    \/ \E n \in Node, v \in Value : SetNow(n, v)
    \/ \E t \in {0, now} : Initialize(t)
    \/ Restore
    \/ \E t \in Time : AdvanceBegin(t)

SimNext ==
    \/ StepNothing
    \/ \E k \in DOMAIN queue, t \in Time : StepMinDelay(k, t)
    \/ \E k \in DOMAIN queue : StepXX(k)
    \/ \E k \in DOMAIN queue : StepVacuous(k)
    \/ \E k \in DOMAIN queue : StepVacuousStop(k)
    \/ \E k \in DOMAIN queue : StepExclRefused(k)
    \/ \E k \in DOMAIN queue : StepCommit(k)
    \/ \E n \in Node : PropagateKill(n)
    \/ \E n \in Node : FlushKill(n)
    \/ \E n \in Node, w \in Strength : FlushOverwrite(n, w)
    \/ \E n \in Node, v \in Value, r \in Rule \cup {0}, w \in Strength,
          d \in Delays : FlushSchedule(n, v, r, w, d)
    \/ StepReturn
    \/ AdvanceEnd
    \/ AdvanceStop

Next == UserNext \/ SimNext

Spec == Init /\ [][Next]_vars

-----------------------------------------------------------------------------
(* Safety.                                                                   *)

\* EventQueue's own invariant: an event index has at most one placeholder.
PlaceholdersUnique ==
    \A j, k \in DOMAIN queue : queue[j].ev = queue[k].ev => j = k

\* Between two steps the events in use are exactly those with a placeholder:
\* nothing leaks, nothing in the queue is on the free list, and emptying the
\* queue empties the pool (check_valid_empty in __initialize_state).
NoEventLeaks ==
    phase = "idle" =>
        {i \in EventId : InUse(i)} = {queue[k].ev : k \in DOMAIN queue}

\* A node's pending event is in the pool, is for that node and is not killed.
PendingIsLive ==
    phase = "idle" =>
        \A n \in Node : pending[n] # 0 =>
            Live(pending[n]) /\ pool[pending[n]].node = n

\* No live event is scheduled in the past (what safe_fast_forward and
\* load_enqueue_event insist on).
NoLiveEventInPast ==
    \A k \in DOMAIN queue : ~pool[queue[k].ev].killed => queue[k].time >= now

\* The assertion of execute_immediately when unstable events are not
\* dequeued: an event about to execute changes its node, or is X on X, or was
\* forced by the user.
NoVacuousEvent ==
    \A k \in DOMAIN queue :
        LET e == pool[queue[k].ev]
        IN  ~e.killed /\ ~DequeueUnstable /\ e.val # LOGIC_OTHER
                => e.val # value[e.node] \/ e.forced

\* The simulated time never goes back, except by initialize and reset, which
\* make every node X without event.
TimeMonotonic ==
    [][now' >= now \/ (queue' = <<>> /\ \A n \in Node : pending'[n] = 0)]_vars
=============================================================================
