----------------------------- MODULE PrsimAgenda -----------------------------
(***************************************************************************)
(* What prsim's event machinery promises, without pool, queue, killed      *)
(* events or back references: at most one planned change per node, and an  *)
(* order in which the planned changes will happen.  Changes planned for    *)
(* the same time happen in the order in which they were planned.  The next *)
(* change is always the first in the order, and it happens at the time it  *)
(* was planned for.  PrsimEvents implements this module.                   *)
(***************************************************************************)
EXTENDS Integers

CONSTANTS Node, Value, Unknown, Time

VARIABLES
    now,
    plan,       \* the planned change of each node that has one: val and time
    before,     \* <<m, n>>: the change of m will happen before that of n
    value

\* What is left of the plans and of their order without n.
Others(n) == DOMAIN plan \ {n}
PlansWithout(n) == [m \in Others(n) |-> plan[m]]
OrderWithout(n) == {w \in before : n \notin {w[1], w[2]}}

\* n takes its place behind every plan of the same or an earlier time.
Place(n, p) ==
    /\ plan' = [m \in DOMAIN plan \cup {n} |-> IF m = n THEN p ELSE plan[m]]
    /\ before' = OrderWithout(n)
            \cup {<<m, n>> : m \in {l \in Others(n) : plan[l].time <= p.time}}
            \cup {<<n, m>> : m \in {l \in Others(n) : plan[l].time > p.time}}

Remove(n) ==
    /\ plan' = PlansWithout(n)
    /\ before' = OrderWithout(n)

Init ==
    /\ now = 0
    /\ plan = [n \in {} |-> Unknown]
    /\ before = {}
    /\ value = [n \in Node |-> Unknown]

\* A change of n is planned, in place of the one that was planned before.
PlanChange(n, v, t) ==
    /\ t >= now
    /\ Place(n, [val |-> v, time |-> t])
    /\ UNCHANGED <<now, value>>

\* The planned change of n is put first, at the current time.
Expedite(n) ==
    /\ n \in DOMAIN plan
    /\ plan' = [plan EXCEPT ![n].time = now]
    /\ before' = OrderWithout(n) \cup {<<n, m>> : m \in Others(n)}
    /\ UNCHANGED <<now, value>>

Cancel(n) ==
    /\ n \in DOMAIN plan
    /\ Remove(n)
    /\ UNCHANGED <<now, value>>

\* The planned change keeps its place and its time but gets another value.
Revise(n, v) ==
    /\ n \in DOMAIN plan
    /\ plan' = [plan EXCEPT ![n].val = v]
    /\ UNCHANGED <<now, before, value>>

First(n) == n \in DOMAIN plan /\ \A m \in Others(n) : <<n, m>> \in before

\* The first planned change happens.
Fire(n) ==
    /\ First(n)
    /\ now' = plan[n].time
    /\ value' = [value EXCEPT ![n] = plan[n].val]
    /\ Remove(n)

\* The first planned change is due but is put back, behind its equals or, if
\* it has to wait, at a later time.
Postpone(n, t) ==
    /\ First(n)
    /\ t >= plan[n].time
    /\ now' = plan[n].time
    /\ Place(n, [plan[n] EXCEPT !.time = t])
    /\ UNCHANGED value

\* Time passes, but never beyond a planned change.
Wait(t) ==
    /\ t > now
    /\ \A n \in DOMAIN plan : plan[n].time >= t
    /\ now' = t
    /\ UNCHANGED <<plan, before, value>>

\* A node without a planned change is changed from outside.
Impose(n, v) ==
    /\ n \notin DOMAIN plan
    /\ value' = [value EXCEPT ![n] = v]
    /\ UNCHANGED <<now, plan, before>>

Restart(t) ==
    /\ t \in {0, now}
    /\ now' = t
    /\ plan' = [n \in {} |-> Unknown]
    /\ before' = {}
    /\ value' = [n \in Node |-> Unknown]

Next ==
    \/ \E n \in Node, v \in Value, t \in Time : PlanChange(n, v, t)
    \/ \E n \in Node : Expedite(n)
    \/ \E n \in Node : Cancel(n)
    \/ \E n \in Node, v \in Value : Revise(n, v)
    \/ \E n \in Node : Fire(n)
    \/ \E n \in Node, t \in Time : Postpone(n, t)
    \/ \E t \in Time : Wait(t)
    \/ \E n \in Node, v \in Value : Impose(n, v)
    \/ \E t \in Time : Restart(t)

Spec == Init /\ [][Next]_<<now, plan, before, value>>
=============================================================================
