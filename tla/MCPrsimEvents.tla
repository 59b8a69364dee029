--------------------------- MODULE MCPrsimEvents ---------------------------
(***************************************************************************)
(* Model checking PrsimEvents, and its refinement of PrsimAgenda.          *)
(***************************************************************************)
EXTENDS PrsimEvents, TLC

\* No operation compares or orders nodes.
Nodes == Permutations(Node)

\* A node's plan is its live placeholder, with the value of the event.
PlanAt(k) == [val |-> pool[queue[k].ev].val, time |-> queue[k].time]
PlanOf == [n \in {m \in Node : Loaded(m) # {}} |-> PlanAt(CHOOSE k \in Loaded(n) : TRUE)]

\* The order is that of the queue.
BeforeOf == {w \in Node \X Node : \E j \in Loaded(w[1]), k \in Loaded(w[2]) : j < k}

Agenda == INSTANCE PrsimAgenda WITH
    plan <- PlanOf, before <- BeforeOf, Unknown <- LOGIC_OTHER

\* Pool, killed placeholders, copies made by rescheduling and the phases of a
\* step implement the agenda: one planned change per node, executed earliest
\* first and first come first served among equals, a cancelled one never.
ImplementsAgenda == Agenda!Spec
=============================================================================
