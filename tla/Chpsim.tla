------------------------------- MODULE Chpsim -------------------------------
(***************************************************************************)
(* The event-driven simulator of CHP programs (src/src/sim/chpsim).        *)
(*                                                                         *)
(* A program is a graph of events.  An event waits for its predecessors,   *)
(* is checked, blocks on the variables and channels it depends on or is    *)
(* executed, and hands control to its successors.  One iteration of the    *)
(* loop in State::step() is one action; it leaves in `rechecks' the        *)
(* blocked events that it may have unblocked, and Recheck examines them    *)
(* one by one before the next iteration.                                   *)
(*                                                                         *)
(* Data is Boolean: an expression is the disjunction of some variables,    *)
(* possibly negated, and a guard is a conjunction of literals and probes.  *)
(* The check queue is ordered by times that random delays make arbitrary,  *)
(* so it is a bag.                                                         *)
(***************************************************************************)
EXTENDS Naturals, Sequences, FiniteSets

CONSTANTS Var, Chan,     \* the variables and the channels
          MaxEvent,      \* the index of the last event
          Graphs         \* the programs the simulator may be started with

Event == 0 .. MaxEvent

\* What may block, and what may not ("null": forks, joins and calls too).
Communication == {"send", "receive", "peek"}
Guarded == {"wait", "select", "arbiter"}
Kind == Communication \cup Guarded \cup {"null", "assign", "loop"}

Guard == [on : SUBSET Var, off : SUBSET Var,
          probe : SUBSET Chan, quiet : SUBSET Chan, otherwise : BOOLEAN]

Expression == [any : SUBSET Var, negated : BOOLEAN]

\* An event: its kind, how many predecessors it waits for, its successors,
\* its channel, the variables it writes, the value it writes or sends, and
\* its guards, one per successor.
Node == [kind : Kind, preds : Nat, succ : Seq(Event), chan : Chan,
         lval : SUBSET Var, expr : Expression, guards : Seq(Guard)]

ASSUME GraphAssumption ==
    /\ MaxEvent \in Nat
    /\ Var \cap Chan = {}
    /\ Graphs \subseteq [Event -> Node]
    /\ \A g \in Graphs : \A e \in Event :
            /\ g[e].preds = 0 => g[e].kind = "null"
            /\ g[e].kind \in {"select", "arbiter"} => Len(g[e].succ) = Len(g[e].guards)
            /\ g[e].kind = "loop" => Len(g[e].succ) = Len(g[e].guards) + 1

Status == {"inactive", "receiver_blocked", "sender_blocked", "received", "sent"}

VARIABLES graph,         \* the program
          countdown,     \* predecessors an event still waits for
          queue,         \* check_event_queue: how often an event is in it
          fifo,          \* immediate_event_fifo
          subscribed,    \* the blocked events, each subscribed to all it depends on
          rechecks,      \* events woken by the last update, still to be rechecked
          val,           \* the variables
          status, data,  \* the channels
          halted         \* a run-time error or a failed assertion ended the run

vars == <<graph, countdown, queue, fifo, subscribed, rechecks, val, status, data, halted>>

TypeOK ==
    /\ graph \in [Event -> Node]
    /\ countdown \in [Event -> Nat]
    /\ queue \in [Event -> Nat]
    /\ fifo \in Seq(Event)
    /\ subscribed \subseteq Event
    /\ rechecks \subseteq Event
    /\ val \in [Var -> BOOLEAN]
    /\ status \in [Chan -> Status]
    /\ data \in [Chan -> BOOLEAN]
    /\ halted \in BOOLEAN

-----------------------------------------------------------------------------
(* Reading the program *)

kind(e) == graph[e].kind
chan(e) == graph[e].chan
guards(e) == graph[e].guards

\* The variables and channels whose update may unblock e; a selection with an
\* else clause never blocks.
block_deps(e) ==
    IF kind(e) \in Communication THEN {chan(e)}
    ELSE IF kind(e) \in Guarded /\ ~ \E i \in DOMAIN guards(e) : guards(e)[i].otherwise
    THEN UNION {guards(e)[i].on \cup guards(e)[i].off \cup guards(e)[i].probe
                    \cup guards(e)[i].quiet : i \in DOMAIN guards(e)}
    ELSE {}

\* The members of s to be notified of an update of the variables and channels u.
Watching(s, u) == {e \in s : block_deps(e) \cap u # {}}

Value(e) == (\E v \in graph[e].expr.any : val[v]) # graph[e].expr.negated

Holds(g) ==
    /\ \A v \in g.on : val[v]
    /\ \A v \in g.off : ~val[v]
    /\ \A c \in g.probe : status[c] = "sender_blocked"
    /\ \A c \in g.quiet : status[c] # "sender_blocked"

\* The branches that selection_evaluator finds ready.
ready(e) ==
    LET true == {i \in DOMAIN guards(e) : ~guards(e)[i].otherwise /\ Holds(guards(e)[i])}
    IN  IF true # {} THEN true ELSE {i \in DOMAIN guards(e) : guards(e)[i].otherwise}

Several(s) == \E x, y \in s : x # y

can_send(c) == status[c] \in {"receiver_blocked", "received"}
\* Mutant: a receive waits for a sender that is blocked, not for one that has sent.
can_receive_blocked(c) == status[c] = "sender_blocked"
can_receive(c) == status[c] \in {"sender_blocked", "sent"}

-----------------------------------------------------------------------------
(* Checking an event (EventRechecker) *)

Passes(e) ==
    /\ kind(e) = "send" => can_send(chan(e))
    /\ kind(e) \in {"receive", "peek"} => can_receive(chan(e))
    /\ kind(e) \in Guarded => ready(e) # {}

\* Two guards of a deterministic selection hold, or the channel is busy with
\* another event of the same kind.
CheckFails(e) ==
    \/ kind(e) = "select" /\ Several(ready(e))
    \/ /\ kind(e) \in Communication
       /\ ~Passes(e)
       /\ status[chan(e)] # "inactive"
       /\ e \notin subscribed

\* A send writes its value at every check; one that blocks on an inactive
\* channel, or a receive that does, marks the channel.
\* Mutant: only the marking of the channel is kept, not the value.
OfferedNothing(e) == data
Offered(e) == IF kind(e) = "send" THEN [data EXCEPT ![chan(e)] = Value(e)] ELSE data

Marked(e) ==
    IF kind(e) \in {"send", "receive"} /\ status[chan(e)] = "inactive"
    THEN [status EXCEPT ![chan(e)] =
            IF kind(e) = "send" THEN "sender_blocked" ELSE "receiver_blocked"]
    ELSE status

-----------------------------------------------------------------------------
(* Executing an event (EventExecutor) *)

\* The guards are evaluated a second time when the event executes.
ExecuteFails(e) ==
    \/ kind(e) = "select" /\ (ready(e) = {} \/ Several(ready(e)))
    \/ kind(e) = "loop" /\ Several(ready(e))

\* Mutant: a selection enters all its branches.
first_checks_all(e) == {{graph[e].succ[i] : i \in DOMAIN graph[e].succ}}

\* The alternatives for the set of successors to be checked next.
first_checks(e) ==
    CASE kind(e) = "arbiter" /\ ready(e) = {} -> {{}}
      [] kind(e) \in {"select", "arbiter"} -> {{graph[e].succ[i]} : i \in ready(e)}
      [] kind(e) = "loop" ->
            {{graph[e].succ[i]} :
                i \in IF ready(e) = {} THEN {Len(guards(e)) + 1} ELSE ready(e)}
      [] OTHER -> {{graph[e].succ[i] : i \in DOMAIN graph[e].succ}}

\* The variables after e executed, when d is the data of the channels.
Written(e, d) ==
    LET v == IF kind(e) = "assign" THEN Value(e) ELSE d[chan(e)]
    IN  IF kind(e) \in {"assign", "receive", "peek"}
        THEN [x \in Var |-> IF x \in graph[e].lval THEN v ELSE val[x]]
        ELSE val

\* Mutant: each party believes it is the second one.
HandshakeAtOnce(k, st) == "inactive"

\* The first party to execute leaves its half, the second resets the channel.
Handshake(k, st) ==
    IF k = "send" /\ st = "receiver_blocked" THEN "sent"
    ELSE IF k = "receive" /\ st = "sender_blocked" THEN "received"
    ELSE "inactive"

Communicated(e) ==
    IF kind(e) \in {"send", "receive"}
    THEN [status EXCEPT ![chan(e)] = Handshake(kind(e), @)]
    ELSE status

\* Mutant: a communication does not count as an update of its channel.
updated_variables(e) == IF kind(e) \in {"assign", "receive", "peek"} THEN graph[e].lval ELSE {}

updated(e) ==
    (IF kind(e) \in {"assign", "receive", "peek"} THEN graph[e].lval ELSE {})
        \cup (IF kind(e) \in {"send", "receive"} THEN {chan(e)} ELSE {})

\* Execute e, taken out of the queues (leaving q), unsubscribed (leaving s)
\* and having offered d.  An arbiter whose guards have become false meanwhile
\* subscribes again.  The event never wakes itself.
execute(e, q, s, d) ==
    /\ ~ExecuteFails(e)
    /\ countdown' = [countdown EXCEPT ![e] = graph[e].preds]
    /\ val' = Written(e, d)
    /\ status' = Communicated(e)
    /\ data' = d
    /\ \E b \in first_checks(e) :
            queue' = [x \in Event |-> q[x] + (IF x \in b THEN 1 ELSE 0)]
    /\ subscribed' = IF kind(e) = "arbiter" /\ ready(e) = {} THEN s \cup {e} ELSE s
    /\ rechecks' = Watching(s, updated(e)) \ {e}
    /\ UNCHANGED halted

\* An exception or a failed assertion ends the simulation.
Halt == halted' = TRUE /\ UNCHANGED <<countdown, queue, fifo, subscribed, rechecks, val, status, data>>

-----------------------------------------------------------------------------
(* Iterations of the loop in step() *)

Running == ~halted /\ UNCHANGED graph

\* Take the first event that was unblocked; it is not checked again.
Immediate ==
    /\ Running
    /\ rechecks = {} /\ fifo # <<>>
    /\ \/ fifo' = Tail(fifo) /\ execute(Head(fifo), queue, subscribed, data)
       \/ ExecuteFails(Head(fifo)) /\ Halt

\* Take a successor off the check queue when no event is unblocked.
Dequeue(e) == Running /\ rechecks = {} /\ fifo = <<>> /\ queue[e] > 0

Dequeued(e) == [queue EXCEPT ![e] = @ - 1]

\* Mutant: the count goes down at every arrival.
ArriveUnchecked(e) ==
    /\ Dequeue(e)
    /\ countdown' = [countdown EXCEPT ![e] = @ - 1]
    /\ queue' = Dequeued(e)
    /\ UNCHANGED <<fifo, subscribed, rechecks, val, status, data, halted>>

\* e is not the last of its predecessors to arrive.
Arrive(e) ==
    /\ Dequeue(e) /\ countdown[e] > 1
    /\ countdown' = [countdown EXCEPT ![e] = @ - 1]
    /\ queue' = Dequeued(e)
    /\ UNCHANGED <<fifo, subscribed, rechecks, val, status, data, halted>>

\* Mutant: the first predecessor to arrive is enough.
CompleteAtFirst(e) == Dequeue(e) /\ (countdown[e] >= 1 \/ graph[e].preds = 0)

\* All predecessors of e have arrived (event 0 has none).  It is checked, and
\* blocks or is executed.
Complete(e) == Dequeue(e) /\ (countdown[e] = 1 \/ (countdown[e] = 0 /\ graph[e].preds = 0))

Block(e) ==
    /\ Complete(e)
    /\ ~Passes(e) /\ ~CheckFails(e)
    /\ countdown' = [countdown EXCEPT ![e] = 0]
    /\ queue' = Dequeued(e)
    /\ subscribed' = subscribed \cup {e}
    /\ status' = Marked(e)
    /\ data' = Offered(e)
    /\ rechecks' = IF kind(e) = "send" /\ status[chan(e)] = "inactive"
                   THEN Watching(subscribed, {chan(e)}) \ {e} ELSE {}
    /\ UNCHANGED <<fifo, val, halted>>

Proceed(e) ==
    /\ Complete(e)
    /\ Passes(e) /\ ~CheckFails(e)
    /\ execute(e, Dequeued(e), subscribed \ {e}, Offered(e))
    /\ UNCHANGED fifo

Refuse(e) ==
    /\ Complete(e)
    /\ CheckFails(e) \/ (Passes(e) /\ ExecuteFails(e))
    /\ Halt

\* Recheck a blocked event that was notified, lowest index first.
Notified(e) == Running /\ e \in rechecks /\ \A f \in rechecks : e <= f

\* One that still waits for predecessors is left alone.
Ignore(e) ==
    /\ Notified(e) /\ countdown[e] > 0
    /\ rechecks' = rechecks \ {e}
    /\ UNCHANGED <<countdown, queue, fifo, subscribed, val, status, data, halted>>

\* Mutant: an event that goes on stays subscribed.
StillSubscribed(e) == subscribed

\* An event that goes on is unsubscribed from all it depends on.
Unsubscribed(e) == IF Passes(e) THEN subscribed \ {e} ELSE subscribed

Recheck(e) ==
    /\ Notified(e) /\ countdown[e] = 0
    /\ \/ /\ ~CheckFails(e)
          /\ fifo' = IF Passes(e) THEN Append(fifo, e) ELSE fifo
          /\ subscribed' = Unsubscribed(e)
          /\ status' = IF Passes(e) THEN status ELSE Marked(e)
          /\ data' = Offered(e)
          /\ rechecks' = rechecks \ {e}
          /\ UNCHANGED <<countdown, queue, val, halted>>
       \/ CheckFails(e) /\ Halt

\* State::initialize(): the root event 0 is ready, nothing else.
Init ==
    /\ graph \in Graphs
    /\ countdown = [e \in Event |-> graph[e].preds]
    /\ queue = [e \in Event |-> IF e = 0 THEN 1 ELSE 0]
    /\ fifo = <<>> /\ subscribed = {} /\ rechecks = {}
    /\ val = [v \in Var |-> FALSE]
    /\ status = [c \in Chan |-> "inactive"]
    /\ data = [c \in Chan |-> FALSE]
    /\ halted = FALSE

Next ==
    \/ Immediate
    \/ \E e \in Event : Arrive(e) \/ Block(e) \/ Proceed(e) \/ Refuse(e)
    \/ \E e \in Event : Ignore(e) \/ Recheck(e)

Spec == Init /\ [][Next]_vars

\* The commands that run a simulation call step() until nothing is left.
FairSpec == Spec /\ WF_vars(Next)

-----------------------------------------------------------------------------
(* Properties *)

Unblocked == {fifo[i] : i \in DOMAIN fifo}

Waiting == subscribed \cup Unblocked

\* An event that blocks has seen all its predecessors, so that the recheck
\* that its subscription promises takes it (EventNode::recheck() ignores an
\* event that still counts down).
ArmedWhenBlocked == \A e \in subscribed : kind(e) # "arbiter" => countdown[e] = 0

\* The arbiters that found none of their guards true when they executed: the
\* executor subscribes them again, but execute() has reset their countdown, and
\* every recheck ignores them until control comes to them anew.
Deaf == {e \in subscribed : kind(e) = "arbiter" /\ countdown[e] > 0}

\* No wake-up is lost, except by a deaf arbiter: any other blocked event that
\* could go on is about to be rechecked.  Of deaf arbiters it is not true: in
\* program Regained of MCChpsim one stays blocked while its guard holds.
NoLostWakeup == \A e \in subscribed \ Deaf : Passes(e) => e \in rechecks

\* A channel is exclusive: its status names the one party that waits, and
\* after one half of a communication the other half is on its way.  In
\* particular send() and receive() run only in the states their comments say.
Parties(k, c) == {e \in Waiting : kind(e) = k /\ chan(e) = c}

OnlyParty(k, c, where) ==
    /\ \E e \in where : Parties(k, c) = {e}
    /\ Parties(IF k = "send" THEN "receive" ELSE "send", c) = {}

RendezvousPaired ==
    \A c \in Chan :
        CASE status[c] = "inactive" -> Parties("send", c) = {} /\ Parties("receive", c) = {}
          [] status[c] = "sender_blocked" -> OnlyParty("send", c, subscribed)
          [] status[c] = "receiver_blocked" -> OnlyParty("receive", c, subscribed)
          [] status[c] = "sent" -> OnlyParty("receive", c, rechecks \cup Unblocked)
          [] status[c] = "received" -> OnlyParty("send", c, rechecks \cup Unblocked)

\* The edges of the program g, and the events that lead to an event e.
Edges(g) == UNION {{<<x, g[x].succ[i]>> : i \in DOMAIN g[x].succ} : x \in Event}

Leading(g, e) == {x \in Event : <<x, e>> \in Edges(g)}

\* Control comes to e from all the events that lead to it, not from one of them.
Joins(g, e) == Cardinality(Leading(g, e)) <= g[e].preds

\* A set of edges is a thread when an event that hands on control along one
\* of them was given it along one of them, and chooses if there are several.
Thread(g, t) ==
    /\ \A v \in t : g[v[1]].preds > 0 =>
            \/ \A x \in Leading(g, v[1]) : <<x, v[1]>> \in t
            \/ Joins(g, v[1]) /\ \E x \in Leading(g, v[1]) : <<x, v[1]>> \in t
    /\ \A v, w \in t : v[1] = w[1] =>
            v = w \/ g[v[1]].kind \in {"select", "arbiter", "loop"}

\* A structured program is covered by threads: they run through all its
\* edges, and one through all the edges that meet in an event that is not a
\* join.  It starts in event 0, which nothing leads to.
Threads(g, T) ==
    /\ g[0].preds = 0
    /\ \A e \in Event : g[e].preds = 0 => Leading(g, e) = {}
    /\ \A t \in T : Thread(g, t)
    /\ \A w \in Edges(g) : \E t \in T : w \in t
    /\ \A e \in Event : g[e].preds > 0 =>
            Joins(g, e) \/ \E t \in T : \A x \in Leading(g, e) : <<x, e>> \in t

\* An event is never entered again before it has executed: the assertion on
\* countdown in EventNode::first_check() holds.
JoinsNeverOverrun ==
    \A e \in Event : graph[e].preds > 0 => queue[e] <= countdown[e]

\* The arrivals at each event that it has not taken by executing.
Held == [e \in Event |-> queue[e] + graph[e].preds - countdown[e]]

\* Control is neither lost nor multiplied: the simulator plays the token game
\* of the event graph.
Tokens == INSTANCE ChpTokens WITH tokens <- Held
ImplementsTokens == Tokens!Spec
=============================================================================
