----------------------------- MODULE PrsimQueue -----------------------------
(***************************************************************************)
(* The scheduling data structures of the production-rule simulator prsim   *)
(* and the primitive operations on them: the event pool (State's           *)
(* event_pool, an array_pool), the event queue (event_queue, a multiset of *)
(* placeholders ordered by time), the back reference every node keeps to   *)
(* its pending event (NodeState::event_index) and the simulated time.      *)
(*                                                                         *)
(* An event that is cancelled is not taken out of the queue: it is flagged *)
(* as killed, its node forgets it, and its placeholder is discarded when   *)
(* it reaches the front.  So the queue holds live and killed placeholders, *)
(* and the three structures have to agree on which is which.               *)
(*                                                                         *)
(* Indices are numbers and 0 is the invalid one, as in the source.  A pool *)
(* entry whose node is 0 is on the free list.                              *)
(***************************************************************************)
EXTENDS Integers, Sequences

CONSTANTS
    Node,       \* node indices
    MaxEvents,  \* bound: size the event pool may grow to
    MaxTime,    \* bound: last time at which an event may be scheduled
    Rule,       \* indices of the rules that may cause an event
    Strength    \* {FALSE}: no weak events; BOOLEAN: weak events too

ASSUME QueueAssumption ==
    /\ 0 \notin Node
    /\ MaxEvents \in Nat
    /\ MaxTime \in Nat
    /\ 0 \notin Rule
    /\ Strength \subseteq BOOLEAN
    /\ FALSE \in Strength

VARIABLES
    now,        \* current_time
    queue,      \* event_queue: placeholders [time, ev], earliest first
    pool,       \* event_pool: event index -> event
    pending     \* node index -> event_index of the node (0: none)

queueVars == <<now, queue, pool, pending>>

LOGIC_LOW == 0
LOGIC_HIGH == 1
LOGIC_OTHER == 2
Value == {LOGIC_LOW, LOGIC_HIGH, LOGIC_OTHER}

Time == 0..MaxTime
EventId == 1..MaxEvents
Placeholder == [time : Time, ev : EventId]

Event == [node : Node \cup {0}, val : Value, rule : Rule \cup {0},
          killed : BOOLEAN, forced : BOOLEAN, weak : Strength]

\* The default-constructed event, which stands for an index on the free list.
NullEvent == [node |-> 0, val |-> LOGIC_LOW, rule |-> 0,
              killed |-> FALSE, forced |-> FALSE, weak |-> FALSE]

NewEvent(n, v, r, w, f) ==
    [node |-> n, val |-> v, rule |-> r,
     killed |-> FALSE, forced |-> f, weak |-> w]

InUse(i) == pool[i].node # 0
Live(i) == InUse(i) /\ ~pool[i].killed

-----------------------------------------------------------------------------
(* The pool. *)

\* array_pool::allocate takes the lowest index of the free list, and grows the
\* pool when the list is empty.
Fresh(i) ==
    /\ ~InUse(i)
    /\ \A j \in EventId : j < i => InUse(j)

\* The pool after kill_event on the node's pending event, if it has one.
PoolAfterKill(n) ==
    [i \in EventId |->
        IF i = pending[n] THEN [pool[i] EXCEPT !.killed = TRUE] ELSE pool[i]]

\* The pool after the events of the set S went back to the free list.
PoolWithout(S) == [i \in EventId |-> IF i \in S THEN NullEvent ELSE pool[i]]

-----------------------------------------------------------------------------
(* The queue: a multiset keeps placeholders of equal time in the order in    *)
(* which they were inserted.                                                 *)

InsertAt(q, k, p) ==
    [j \in 1..(Len(q) + 1) |->
        IF j < k THEN q[j] ELSE IF j = k THEN p ELSE q[j - 1]]

\* Mutant of IsUpperBound: a lower bound, last come first served.
IsLowerBound(q, k, t) ==
    /\ \A j \in DOMAIN q : j < k => q[j].time < t
    /\ \A j \in DOMAIN q : j >= k => q[j].time >= t

\* Position k is where multiset::insert puts a placeholder of time t.
IsUpperBound(q, k, t) ==
    /\ \A j \in DOMAIN q : j < k => q[j].time <= t
    /\ \A j \in DOMAIN q : j >= k => q[j].time > t

\* q without its first k placeholders.
DropFirst(q, k) == [j \in 1..(Len(q) - k) |-> q[j + k]]

\* load_enqueue_event; q is the queue that receives event i at time t.  The
\* assertion of the source, t >= current_time, is the caller's obligation.
Enqueue(q, i, t) ==
    \E k \in 1..(Len(q) + 1) :
        /\ IsUpperBound(q, k, t)
        /\ queue' = InsertAt(q, k, [time |-> t, ev |-> i])

\* The event indices that have a placeholder in the first k positions.
QueuedUpTo(k) == {queue[j].ev : j \in 1..k}

\* Position of the first live placeholder: flush_killed_events discards the
\* ones before it.
FirstLive(k) ==
    /\ k \in DOMAIN queue
    /\ ~pool[queue[k].ev].killed
    /\ \A j \in 1..(k - 1) : pool[queue[j].ev].killed

NoneLive == \A j \in DOMAIN queue : pool[queue[j].ev].killed

\* Mutant of NextEventBefore: a killed first placeholder hides the others.
FirstEventBefore(t) ==
    Len(queue) > 0 /\ ~pool[queue[1].ev].killed /\ queue[1].time < t

\* next_event_time() < t: some live placeholder is scheduled before t.
NextEventBefore(t) ==
    \E k \in DOMAIN queue : ~pool[queue[k].ev].killed /\ queue[k].time < t

-----------------------------------------------------------------------------
(* Composite operations on a node.                                           *)

\* Mutant of KillEvent: the node does not forget its event.
KillEventOnly(n) ==
    /\ pool' = PoolAfterKill(n)
    /\ UNCHANGED <<queue, pending>>

\* kill_event: the node forgets its pending event, which stays in the queue.
KillEvent(n) ==
    /\ pool' = PoolAfterKill(n)
    /\ pending' = [pending EXCEPT ![n] = 0]
    /\ UNCHANGED queue

\* The node's pending event (if any) is killed, e is allocated for it and its
\* placeholder enqueued at time t (__allocate_event, enqueue_event).
Schedule(n, e, t) ==
    /\ t <= MaxTime
    /\ \E i \in EventId :
        /\ Fresh(i)
        /\ pool' = [PoolAfterKill(n) EXCEPT ![i] = e]
        /\ pending' = [pending EXCEPT ![n] = i]
        /\ Enqueue(queue, i, t)

\* The pending event of n is rewritten in place, keeping its time.
Rewrite(n, e) ==
    /\ pool' = [pool EXCEPT ![pending[n]] = e]
    /\ UNCHANGED <<queue, pending>>

=============================================================================
