-------------------------------- MODULE Prsim --------------------------------
(***************************************************************************)
(* The evaluation engine of prsim: the event machinery of PrsimEvents with *)
(* the choices made by a circuit.  The circuit is a constant: expression   *)
(* trees whose leaves are nodes and whose roots are the rules that pull a  *)
(* node up or down, strongly or weakly, and the rings of nodes that are    *)
(* forced to be mutually exclusive.                                        *)
(*                                                                         *)
(* When a node changes, evaluate_kernel climbs from each expression it     *)
(* feeds towards the root for as long as the pull of the subexpression     *)
(* changes, keeping per expression the number of X children and of the     *)
(* children that decide it; evaluate does the same for the rule groups of  *)
(* the node at the root; propagate_evaluation decides whether that node    *)
(* has to be reconsidered; and, when all fanouts are done,                 *)
(* flush_updated_nodes reconsiders the nodes first come first served.      *)
(* Every action here is an action of PrsimEvents, or invisible to it.      *)
(***************************************************************************)
EXTENDS PrsimEvents, PrsimPull

SeqExt == INSTANCE SequencesExt

CONSTANTS
    ExprId,     \* expression indices
    Expr,       \* expression index -> its structure
    RuleGroup,  \* root expression -> the group of rules it belongs to
    Unstab,     \* the rules with the unstab attribute
    Fanout,     \* node -> the expressions it feeds, in order
    MkExHi,     \* the rings of mk_exclhi directives
    MkExLo,     \* the rings of mk_excllo directives
    CheckExHi,  \* the rings of exclhi directives, which are only checked
    CheckExLo,  \* the rings of excllo directives
    Mode,       \* which of the modes below are on
    Settable,   \* the nodes the user sets, forces and freezes
    Reserve     \* bound: free pool entries the user leaves to the circuit

Modes == {"weak_rules", "dequeue_excl_unstable", "random_order"}

Group == {"up", "dn", "wup", "wdn"}

weak_rules_enabled == "weak_rules" \in Mode

ASSUME CircuitAssumption ==
    /\ Node \subseteq Nat /\ IsFiniteSet(Node)
    /\ ExprId \subseteq Nat \ {0} /\ IsFiniteSet(ExprId)
    /\ \A e \in ExprId :
          /\ Expr[e].conjunctive \in BOOLEAN
          /\ Expr[e].not \in BOOLEAN
          /\ Expr[e].root \in BOOLEAN
          /\ Expr[e].parent \in IF Expr[e].root THEN Node ELSE ExprId
    /\ Rule = {e \in ExprId : Expr[e].root}
    /\ \A r \in Rule : RuleGroup[r] \in Group
    /\ Unstab \subseteq Rule
    /\ \A n \in Node : Fanout[n] \in Seq(ExprId)
    /\ Mode \subseteq Modes
    /\ Settable \subseteq Node
    /\ \A rings \in {MkExHi, MkExLo, CheckExHi, CheckExLo} :
          \A i \in DOMAIN rings : i \in Nat /\ rings[i] \subseteq Node
    /\ weak_rules_enabled => TRUE \in Strength

VARIABLES
    expr,       \* ExprState of every expression
    fanin,      \* fanin_state_type of every node's rule groups
    ring,       \* ring_counter_state::count of the rings
    check,      \* FLAG_CHECK_EXCL, the locked rings of check_exhi_ring_pool and
                \* check_exlo_ring_pool, and whether the locks can be trusted: no
                \* check failed or was left out since the last initialization
    stage,      \* where execute_immediately is
    cause,      \* the node that changed, its value and its former value
    todo,       \* its fanouts that are still to be evaluated
    climb,      \* the expression (or root rule) that evaluation has reached
    uq          \* updated_nodes, in the order of updated_nodes_queue

engineVars == <<expr, fanin, ring, check, stage, cause, todo, climb, uq>>
allVars == <<vars, engineVars>>

NoCause == [node |-> 0, val |-> LOGIC_OTHER, prev |-> LOGIC_OTHER]
NoClimb == [expr |-> 0, rule |-> 0, prev |-> PULL_OFF, next |-> PULL_OFF]

-----------------------------------------------------------------------------
(* Expressions and pulls.                                                    *)

\* The nodes and the expressions under e, as often as they occur.
LeafUses(e) == UNION {{<<n, i>> : i \in {j \in DOMAIN Fanout[n] : Fanout[n][j] = e}} :
                         n \in Node}
Children(e) == {c \in ExprId : ~Expr[c].root /\ Expr[c].parent = e}
Size(e) == Cardinality(LeafUses(e)) + Cardinality(Children(e))

\* "There is no NODE expr, just use AND/OR of size 1": no expression is empty.
ASSUME SizeAssumption == \A e \in ExprId : Size(e) # 0

RulesOf(n, g) == {r \in Rule : Expr[r].parent = n /\ RuleGroup[r] = g}

negate_pull(x) == CASE x = PULL_WEAK -> PULL_WEAK
                    [] x = PULL_OFF -> PULL_ON
                    [] x = PULL_ON -> PULL_OFF

\* or_pull_state and fanin_state_type::pull: a disjunction is decided by a 1 ...
or_pull(c) == IF c.countdown # 0 THEN PULL_ON
              ELSE IF c.unknowns # 0 THEN PULL_WEAK ELSE PULL_OFF

\* ... and and_pull_state: a conjunction by a 0.
and_pull(c) == IF c.countdown # 0 THEN PULL_OFF
               ELSE IF c.unknowns # 0 THEN PULL_WEAK ELSE PULL_ON

pull_state(e, c) ==
    LET ret == IF Expr[e].conjunctive THEN and_pull(c) ELSE or_pull(c)
    IN  IF Expr[e].not THEN negate_pull(ret) ELSE ret

\* Mutant of Count: what a child stops being is not counted.
CountNoDecrease(c, decisive, prev, next) ==
    [countdown |-> c.countdown + (IF next = decisive THEN 1 ELSE 0),
     unknowns  |-> c.unknowns]

\* How the counters change when a child changes from prev to next.
Is(x, v) == IF x = v THEN 1 ELSE 0
Count(c, decisive, prev, next) ==
    [countdown |-> c.countdown + Is(next, decisive) - Is(prev, decisive),
     unknowns  |-> c.unknowns + Is(next, PULL_WEAK) - Is(prev, PULL_WEAK)]

Decisive(e) == IF Expr[e].conjunctive THEN PULL_OFF ELSE PULL_ON

\* The constructor of pull_set, from the fan-in state f of a node.
PullsOf(f) ==
    [up  |-> or_pull(f.up), dn |-> or_pull(f.dn),
     wup |-> IF weak_rules_enabled THEN or_pull(f.wup) ELSE PULL_OFF,
     wdn |-> IF weak_rules_enabled THEN or_pull(f.wdn) ELSE PULL_OFF]

\* Everything is X.
ExprInit == [e \in ExprId |-> [countdown |-> 0, unknowns |-> Size(e)]]
FaninInit == [n \in Node |-> [g \in Group |->
                [countdown |-> 0, unknowns |-> Cardinality(RulesOf(n, g))]]]

RingInit == [hi |-> [i \in DOMAIN MkExHi |-> 0], lo |-> [i \in DOMAIN MkExLo |-> 0]]
CheckInit == [on |-> TRUE, hi |-> {}, lo |-> {}, clean |-> TRUE]

EngineInit ==
    /\ Init
    /\ expr = ExprInit
    /\ fanin = FaninInit
    /\ ring = RingInit
    /\ check = CheckInit
    /\ stage = "idle"
    /\ cause = NoCause
    /\ todo = <<>>
    /\ climb = NoClimb
    /\ uq = <<>>

-----------------------------------------------------------------------------
(* The user's commands.                                                      *)

\* Bound: the circuit finds enough free entries in the pool.
Room == Cardinality({i \in EventId : ~InUse(i)}) > Reserve

Set(n, v, t) == Room /\ SetNode(n, v, t) /\ UNCHANGED engineVars
SetForced(n, v, t) == Room /\ SetNodeForced(n, v, t) /\ UNCHANGED engineVars
Deschedule(n) ==
    "reschedule" \in Session /\ DescheduleEvent(n) /\ UNCHANGED engineVars
Freeze(n) == FreezeNode(n) /\ UNCHANGED engineVars

\* Mutant of Unset: only the pending event is looked at.
UnsetPending(n, d) == Room /\ UnsetNode(n, LOGIC_OTHER, FALSE, d) /\ UNCHANGED pool
                           /\ UNCHANGED engineVars

\* unset_node: nothing is done for a node that holds its state or, without a
\* pending event, is where it is pulled to.
Unset(n, d) ==
    LET p == PullsOf(fanin[n])
        v == IF pull_up_wins_any(p) THEN LOGIC_HIGH
             ELSE IF pull_dn_wins_any(p) THEN LOGIC_LOW ELSE LOGIC_OTHER
        w == weak_wins_any(p)
        satisfied == \/ value[n] = LOGIC_LOW /\ p.up = PULL_OFF
                     \/ value[n] = LOGIC_HIGH /\ p.dn = PULL_OFF
                     \/ value[n] = v
    IN  /\ Room
        /\ UnsetNode(n, v, w, d)
        /\ IF state_holding(p) \/ (pending[n] = 0 /\ satisfied)
           THEN UNCHANGED pool
           ELSE LET i == pending'[n]
                IN  i # 0 /\ pool'[i].val = v /\ pool'[i].weak = w
                          /\ ~pool'[i].forced
        /\ UNCHANGED engineVars

\* initialize and x_all, and reset, which turns the checks on: the ring
\* counters are not among what they initialize.
Reinitialize(t, checking) ==
    /\ Initialize(t)
    /\ checking = check.on \/ (checking /\ t = 0)
    /\ expr' = ExprInit
    /\ fanin' = FaninInit
    /\ check' = [CheckInit EXCEPT !.on = checking, !.clean = checking]
    /\ UNCHANGED <<ring, stage, cause, todo, climb, uq>>

\* checkexcl and nocheckexcl.  Bound: only where there is a ring.
CheckExcl(checking) ==
    /\ Prompt
    /\ CheckExHi # <<>> \/ CheckExLo # <<>>
    /\ checking # check.on
    /\ check' = [check EXCEPT !.on = checking, !.clean = FALSE]
    /\ UNCHANGED <<vars, expr, fanin, ring, stage, cause, todo, climb, uq>>

-----------------------------------------------------------------------------
(* execute_immediately: the exclusion check, and then the commit.             *)

\* Mutant of LockRings: a ring is unlocked by the opposite value only.
LockRingsOpposite(locked, rings, n, v, prev, next) ==
    LET R == {i \in DOMAIN rings : n \in rings[i]}
    IN  CASE next = v -> locked \cup {i \in R : \A j \in R \cap locked : i < j}
          [] next = 1 - v /\ prev = v -> locked \ R
          [] OTHER -> locked

\* n goes from prev to next: the rings of n that are locked afterwards.  The
\* rings are locked in order, up to the first that is taken.
LockRings(locked, rings, n, v, prev, next) ==
    LET R == {i \in DOMAIN rings : n \in rings[i]}
    IN  CASE next = v -> locked \cup {i \in R : \A j \in R \cap locked : i < j}
          [] next # v /\ prev = v -> locked \ R
          [] OTHER -> locked

Taken(locked, rings, n, v, next) ==
    next = v /\ \E i \in locked : n \in rings[i]

\* check_excl_rings finds a ring taken ...
CheckFails(c, n, next) ==
    \/ Taken(c.hi, CheckExHi, n, LOGIC_HIGH, next)
    \/ Taken(c.lo, CheckExLo, n, LOGIC_LOW, next)

\* ... and what it leaves behind: if an exclhi ring is, the excllo rings are
\* not looked at.
Checked(c, n, prev, next) ==
    [c EXCEPT
        !.hi = LockRings(@, CheckExHi, n, LOGIC_HIGH, prev, next),
        !.lo = IF Taken(c.hi, CheckExHi, n, LOGIC_HIGH, next) THEN @
               ELSE LockRings(@, CheckExLo, n, LOGIC_LOW, prev, next),
        !.clean = @ /\ ~CheckFails(c, n, next)]

\* excl_check_fail_policy is fatal or interactive.
CheckIsFatal == "excl" \in Session

\* n, about to become v, gets past the check.  A failure that is not fatal
\* turns the checks off.
Passes(n, v) ==
    IF check.on
    THEN /\ CheckFails(check, n, v) => ~CheckIsFatal
         /\ check' = [Checked(check, n, value[n], v) EXCEPT
                        !.on = ~CheckFails(check, n, v)]
    ELSE UNCHANGED check

Refused(n, v) ==
    /\ check.on
    /\ CheckFails(check, n, v)
    /\ check' = Checked(check, n, value[n], v)
    /\ UNCHANGED <<expr, fanin, ring, stage, cause, todo, climb, uq>>

Begin(n, v) ==
    /\ stage' = "evaluate"
    /\ cause' = [node |-> n, val |-> v, prev |-> value[n]]
    /\ todo' = Fanout[n]
    /\ UNCHANGED <<expr, fanin, ring, climb, uq>>

Commit(k) ==
    LET e == pool[queue[k].ev]
    IN  StepCommit(k) /\ Passes(e.node, e.val) /\ Begin(e.node, e.val)

Refuse(k) ==
    LET e == pool[queue[k].ev]
    IN  StepExclRefused(k) /\ Refused(e.node, e.val)

\* Mutant of CommitNow: a pending event does not stop it.
CommitNowAnyway(n, v) ==
    /\ "setnow" \in Session
    /\ Prompt
    /\ Room
    /\ v # value[n]
    /\ value' = [value EXCEPT ![n] = v]
    /\ phase' = "propagate"
    /\ updated' = Node
    /\ barren' = FALSE
    /\ UNCHANGED <<queueVars, frozen, held, until>>
    /\ Passes(n, v)
    /\ Begin(n, v)

\* set_node_immediately: committed, refused or vacuous.
CommitNow(n, v) ==
    /\ Room
    /\ SetNow(n, v)
    /\ CASE phase' = "propagate" -> Passes(n, v) /\ Begin(n, v)
         [] phase' # "propagate" /\ v # value[n] -> Refused(n, v)
         [] phase' # "propagate" /\ v = value[n] -> UNCHANGED engineVars

Skip(k) == (StepXX(k) \/ StepVacuous(k)) /\ UNCHANGED engineVars
Nothing == StepNothing /\ UNCHANGED engineVars

\* The next fanout: in order, or any when the evaluation order is random.
EvaluateNext(i) ==
    /\ stage \in {"evaluate", "load"}
    /\ climb = NoClimb
    /\ i = 1 \/ (stage = "evaluate" /\ "random_order" \in Mode)
    /\ todo' = SeqExt!RemoveAt(todo, i)
    /\ climb' = [expr |-> todo[i], rule |-> 0,
                 prev |-> cause.prev, next |-> cause.val]
    /\ UNCHANGED <<vars, expr, fanin, ring, check, stage, cause, uq>>

\* One turn of the loop of evaluate_kernel.
EvaluateExpr ==
    LET e == climb.expr
        c == Count(expr[e], Decisive(e), climb.prev, climb.next)
        old == pull_state(e, expr[e])
        new == pull_state(e, c)
    IN  /\ climb.expr # 0
        /\ expr' = [expr EXCEPT ![e] = c]
        /\ climb' = CASE old = new -> NoClimb
                      [] old # new /\ Expr[e].root ->
                            [expr |-> 0, rule |-> e, prev |-> old, next |-> new]
                      [] old # new /\ ~Expr[e].root ->
                            [expr |-> Expr[e].parent, rule |-> 0,
                             prev |-> old, next |-> new]
        /\ UNCHANGED <<vars, fanin, ring, check, stage, cause, todo, uq>>

\* The root rule reached, the node it pulls and the counters of its group.
Root == climb.rule
RootNode == Expr[Root].parent
RootGroup == RuleGroup[Root]
RootFanin == [fanin[RootNode] EXCEPT ![RootGroup] =
                Count(@, PULL_ON, climb.prev, climb.next)]
IsWeak(g) == g \in {"wup", "wdn"}
IsUp(g) == g \in {"up", "wup"}

\* Mutant of RootUnchanged: a group that becomes X is taken to be unchanged.
RootUnchangedIfX == or_pull(RootFanin[RootGroup]) \in
                        {PULL_WEAK, or_pull(fanin[RootNode][RootGroup])}

\* evaluate finds that the pull of the group did not change.
RootUnchanged == or_pull(RootFanin[RootGroup]) = or_pull(fanin[RootNode][RootGroup])

\* A weak rule yields to the opposition, or to a strong X of its own side.
Yields(p, g) ==
    IF IsUp(g)
    THEN (cutoff_up(p) /\ ~cutoff_dn(p)) \/ (weak_pulling_up_x(p) /\ p.dn = PULL_WEAK)
    ELSE (cutoff_dn(p) /\ ~cutoff_up(p)) \/ (weak_pulling_dn_x(p) /\ p.up = PULL_WEAK)

\* propagate_evaluation: the old event was weak and is overtaken.
Overtakes ==
    /\ weak_rules_enabled
    /\ pending[RootNode] # 0
    /\ pool[pending[RootNode]].weak
    /\ ~IsWeak(RootGroup)
    /\ or_pull(RootFanin[RootGroup]) # PULL_OFF

\* Mutants of Suppressed: a frozen node is not spared; a weak rule gives way
\* to any pending event.
SuppressedIfWeak ==
    /\ IsWeak(RootGroup)
    /\ \/ ~weak_rules_enabled
       \/ pending[RootNode] # 0 /\ ~pool[pending[RootNode]].weak
       \/ /\ pending[RootNode] = 0
          /\ ~normal_rules_off(PullsOf(RootFanin))
          /\ ~Yields(PullsOf(RootFanin), RootGroup)

SuppressedIfPending ==
    IsWeak(RootGroup) /\ (pending[RootNode] # 0 \/ SuppressedIfWeak)

\* propagate_evaluation returns without listing the node: it is frozen, or
\* the rule that changed is weak and overpowered.
Suppressed ==
    \/ RootNode \in frozen
    \/ /\ IsWeak(RootGroup)
       /\ \/ ~weak_rules_enabled
          \/ pending[RootNode] # 0 /\ ~pool[pending[RootNode]].weak
          \/ /\ pending[RootNode] = 0
             /\ ~normal_rules_off(PullsOf(RootFanin))
             /\ ~Yields(PullsOf(RootFanin), RootGroup)

Position(q, n) == {i \in DOMAIN q : q[i].node = n}
Listed(n) == [node |-> n, rule |-> 0, blocked |-> FALSE]

\* The node joins updated_nodes; if it is there already, a rule that turned
\* on (more) takes over as the cause.
Enlist ==
    LET i == Position(uq, RootNode)
        p == PullsOf(RootFanin)
        ops == PullsOf(fanin[RootNode])
    IN  uq' = IF i = {} THEN Append(uq, [Listed(RootNode) EXCEPT !.rule = Root])
              ELSE [j \in DOMAIN uq |->
                      IF j \in i /\ p[RootGroup] # PULL_OFF /\ ops[RootGroup] # PULL_ON
                      THEN [uq[j] EXCEPT !.rule = Root] ELSE uq[j]]

\* evaluate, and in a step propagate_evaluation.
EvaluateRoot ==
    /\ Root # 0
    /\ fanin' = [fanin EXCEPT ![RootNode] = RootFanin]
    /\ climb' = NoClimb
    /\ IF stage = "load" \/ RootUnchanged \/ Suppressed
       THEN UNCHANGED <<vars, uq>>
       ELSE /\ Enlist
            /\ IF Overtakes THEN PropagateKill(RootNode) ELSE UNCHANGED vars
    /\ UNCHANGED <<expr, ring, check, stage, cause, todo>>

-----------------------------------------------------------------------------
(* Forced exclusion: enforce_exclhi, enforce_excllo and                      *)
(* flush_blocked_excl_nodes.                                                 *)

\* Mutant of Frees: a change to X is not counted.
FreesToX(v) == cause.val = 1 - v /\ cause.prev = v

\* cause.node becomes (stops being) active, v, in a ring.
Locks(v) == cause.val = v /\ cause.prev # v
Frees(v) == cause.val # v /\ cause.prev = v

RingsOfCause(rings) == {i \in DOMAIN rings : cause.node \in rings[i]}

RingCount(count, rings, v) ==
    [i \in DOMAIN rings |->
        count[i] + IF i \notin RingsOfCause(rings) THEN 0
                   ELSE IF Locks(v) THEN 1 ELSE IF Frees(v) THEN -1 ELSE 0]

\* The nodes blocked by the lock of a ring.
Blocked(rings, v) ==
    IF Locks(v) THEN UNION {rings[i] : i \in RingsOfCause(rings)} \ {cause.node}
    ELSE {}

\* Mutant of Freed: nobody looks at the nodes that were blocked.
FreedNone(rings, count, v) == [i \in DOMAIN rings |-> {}]

\* The other members of the rings that are free now.
Freed(rings, count, v) ==
    [i \in DOMAIN rings |-> IF Frees(v) /\ i \in RingsOfCause(rings) /\ count[i] = 0
                            THEN rings[i] \ {cause.node} ELSE {}]

\* Nodes are taken group by group, and from a group in the order of a std::set.
Precedes(groups, m, n) ==
    \E i \in DOMAIN groups :
        /\ m \in groups[i]
        /\ n \in groups[i] => m < n
        /\ \A j \in DOMAIN groups : j < i => n \notin groups[j]

\* The nodes of the groups that are not in q yet, in that order.
Arranged(q, groups) ==
    LET S == {n \in UNION {groups[i] : i \in DOMAIN groups} : Position(q, n) = {}}
    IN  {f \in [1..Cardinality(S) -> S] :
            \A i, j \in DOMAIN f : i < j => Precedes(groups, f[i], f[j])}

Behind(q, f, blocked) ==
    q \o [i \in DOMAIN f |-> [Listed(f[i]) EXCEPT !.blocked = blocked]]

\* The listed nodes of B are blocked ...
Marked(q, B) == [i \in DOMAIN q |-> [q[i] EXCEPT !.blocked = @ \/ q[i].node \in B]]

\* ... and one that is not listed has to be if its pending event is what the
\* rings forbid now.
Late(B) == {n \in B : pending[n] # 0 /\ pool[pending[n]].val = cause.val}

Enforce ==
    LET hi == RingCount(ring.hi, MkExHi, LOGIC_HIGH)
        lo == RingCount(ring.lo, MkExLo, LOGIC_LOW)
        B == Blocked(MkExHi, LOGIC_HIGH) \cup Blocked(MkExLo, LOGIC_LOW)
    IN  /\ stage = "evaluate"
        /\ todo = <<>>
        /\ climb = NoClimb
        /\ ring' = [hi |-> hi, lo |-> lo]
        /\ \E f \in Arranged(uq, Freed(MkExHi, hi, LOGIC_HIGH)) :
              LET q == Behind(uq, f, FALSE)
              IN  \E g \in Arranged(q, Freed(MkExLo, lo, LOGIC_LOW)) :
                    LET r == Marked(Behind(q, g, FALSE), B)
                    IN  \E h \in Arranged(r, <<Late(B)>>) : uq' = Behind(r, h, TRUE)
        /\ stage' = "flush"
        /\ UNCHANGED <<vars, expr, fanin, check, cause, todo, climb>>

-----------------------------------------------------------------------------
(* flush_updated_nodes, on the first of updated_nodes_queue.                 *)

First == Head(uq)
FlushPulls ==
    LET p == PullsOf(fanin[First.node])
    IN  CASE First.blocked /\ cause.val = LOGIC_HIGH -> cut_off_pull_up(p)
          [] First.blocked /\ cause.val = LOGIC_LOW -> cut_off_pull_dn(p)
          [] OTHER -> p
FlushValue == PullValue(FlushPulls, value[First.node])

\* The strength of the event that would be scheduled.
FlushWeak == IF have_interference(FlushPulls) THEN weak_rule_involved(FlushPulls)
             ELSE weak_wins_any(FlushPulls)

\* Mutants of Instability: an event is unstable only when the node is pulled
\* the other way; and whenever the node is flushed.
InstabilityOpposed(e) ==
    \/ e.val = LOGIC_LOW /\ pulling_up(FlushPulls)
    \/ e.val = LOGIC_HIGH /\ pulling_dn(FlushPulls)

InstabilityAny(e) == e.val # LOGIC_OTHER

\* The pending event is no longer pulled for.
Instability(e) ==
    \/ e.val = LOGIC_LOW /\ ~pulling_dn(FlushPulls)
    \/ e.val = LOGIC_HIGH /\ ~pulling_up(FlushPulls)

\* An unstable event is dequeued instead of becoming X.
Dequeues(e) ==
    \/ DequeueUnstable
    \/ e.rule \in Unstab
    \/ First.blocked /\ "dequeue_excl_unstable" \in Mode

\* What becomes of the node's events: "leave", "kill", "overwrite" with X, or
\* "replace", which schedules a new event if the value would change.
Verdict ==
    LET n == First.node
        e == pool[pending[n]]
    IN  CASE pending[n] = 0 -> "replace"
          [] pending[n] # 0 /\ have_interference(FlushPulls) ->
                IF e.forced THEN "leave"
                ELSE IF value[n] = LOGIC_OTHER THEN "kill" ELSE "overwrite"
          [] pending[n] # 0 /\ ~have_interference(FlushPulls) /\ Instability(e) ->
                IF Dequeues(e) THEN "replace"
                ELSE IF value[n] = LOGIC_OTHER THEN "kill" ELSE "overwrite"
          [] OTHER ->
                IF /\ pulling_dn(FlushPulls) \/ pulling_up(FlushPulls)
                   /\ e.val = LOGIC_OTHER
                   /\ FlushValue # LOGIC_OTHER
                THEN "replace" ELSE "leave"

\* An internal assertion ends the program unless the pulls are covered.
Flush(d) ==
    LET n == First.node
        e == pool[pending[n]]
        new == Verdict = "replace" /\ FlushValue # value[n]
        gone == Verdict = "kill" \/ (Verdict = "replace" /\ ~new /\ pending[n] # 0)
    IN  /\ stage = "flush"
        /\ uq # <<>>
        /\ PullCovered(FlushPulls)
        /\ CASE new -> FlushSchedule(n, FlushValue, First.rule, FlushWeak, d)
             [] gone -> FlushKill(n)
             [] Verdict = "overwrite" ->
                    FlushOverwrite(n, IF have_interference(FlushPulls) THEN e.weak
                                      ELSE FlushWeak)
             [] OTHER -> UNCHANGED vars
        /\ uq' = Tail(uq)
        /\ UNCHANGED <<expr, fanin, ring, check, stage, cause, todo, climb>>

Return ==
    /\ phase = "propagate" => stage = "flush" /\ uq = <<>>
    /\ StepReturn
    /\ stage' = "idle"
    /\ cause' = NoCause
    /\ UNCHANGED <<expr, fanin, ring, check, todo, climb, uq>>

-----------------------------------------------------------------------------
(* save_checkpoint, and load_checkpoint in a simulator that was just         *)
(* started.  What is in the file is what the variables of PrsimEvents hold:  *)
(* the values and flags of the nodes, the queue with its events, the time.   *)

\* The counters are not in the file: they start from X ...
Load ==
    /\ "checkpoint" \in Session
    /\ Prompt
    /\ expr' = ExprInit
    /\ fanin' = FaninInit
    /\ ring' = RingInit
    /\ stage' = "load"
    /\ UNCHANGED <<vars, check, cause, todo, climb, uq>>

\* The nodes that are not X and not yet evaluated.
Unloaded == {n \in Node : n > cause.node /\ value[n] # LOGIC_OTHER}

\* Mutant of LoadNode: a node that is low is taken for X.
LoadNodeHigh(n) ==
    /\ stage = "load"
    /\ todo = <<>>
    /\ climb = NoClimb
    /\ n \in Unloaded
    /\ \A m \in Unloaded : n <= m
    /\ cause' = [node |-> n, val |-> value[n], prev |-> LOGIC_OTHER]
    /\ todo' = IF value[n] = LOGIC_HIGH THEN Fanout[n] ELSE <<>>
    /\ UNCHANGED <<vars, expr, fanin, ring, check, stage, climb, uq>>

\* ... and each node is evaluated as if it had just changed from X.
LoadNode(n) ==
    /\ stage = "load"
    /\ todo = <<>>
    /\ climb = NoClimb
    /\ n \in Unloaded
    /\ \A m \in Unloaded : n <= m
    /\ cause' = [node |-> n, val |-> value[n], prev |-> LOGIC_OTHER]
    /\ todo' = Fanout[n]
    /\ UNCHANGED <<vars, expr, fanin, ring, check, stage, climb, uq>>

\* The events and the modes; without the checks that is all.
LoadEvents ==
    /\ stage = "load"
    /\ todo = <<>>
    /\ climb = NoClimb
    /\ Unloaded = {}
    /\ Restore
    /\ check' = [CheckInit EXCEPT !.on = check.on, !.clean = check.on]
    /\ stage' = IF check.on THEN "lock" ELSE "idle"
    /\ cause' = NoCause
    /\ UNCHANGED <<expr, fanin, ring, todo, climb, uq>>

\* With the checks on the rings of each node are locked as if it had just
\* changed from X: a ring with two active members is reported and nothing else.
LoadLock(n) ==
    /\ stage = "lock"
    /\ n > cause.node
    /\ \A m \in Node : m > cause.node => n <= m
    /\ check' = Checked(check, n, LOGIC_OTHER, value[n])
    /\ cause' = [cause EXCEPT !.node = n]
    /\ UNCHANGED <<vars, expr, fanin, ring, stage, todo, climb, uq>>

LoadDone ==
    /\ stage = "lock"
    /\ \A m \in Node : m <= cause.node
    /\ stage' = "idle"
    /\ cause' = NoCause
    /\ UNCHANGED <<vars, expr, fanin, ring, check, todo, climb, uq>>

-----------------------------------------------------------------------------
Commands ==
    /\ stage = "idle"
    /\ \/ \E n \in Settable, v \in Value, t \in Time : Set(n, v, t)
       \/ \E n \in Settable, v \in Value, t \in Time : SetForced(n, v, t)
       \/ \E n \in Settable : Deschedule(n)
       \/ \E n \in Settable : Freeze(n)
       \/ \E n \in Node, d \in Delays : Unset(n, d)
       \/ \E n \in Settable, v \in Value : CommitNow(n, v)
       \/ \E t \in {0, now}, checking \in BOOLEAN : Reinitialize(t, checking)
       \/ \E checking \in BOOLEAN : CheckExcl(checking)
       \/ Load

Dequeue ==
    /\ stage = "idle"
    /\ \/ Nothing
       \/ \E k \in DOMAIN queue : Skip(k)
       \/ \E k \in DOMAIN queue : Refuse(k)
       \/ \E k \in DOMAIN queue : Commit(k)

Engine ==
    \/ Dequeue
    \/ \E i \in DOMAIN todo : EvaluateNext(i)
    \/ EvaluateExpr
    \/ EvaluateRoot
    \/ Enforce
    \/ \E d \in Delays : Flush(d)
    \/ Return
    \/ \E n \in Node : LoadNode(n)
    \/ LoadEvents
    \/ \E n \in Node : LoadLock(n)
    \/ LoadDone

EngineNext == Commands \/ Engine

EngineSpec == EngineInit /\ [][EngineNext]_allVars

\* cycle() goes on calling step(), and step() runs to its end: the engine is
\* never idle with an event in the queue.  The user's commands need not come.
FairEngineSpec == EngineSpec /\ WF_allVars(Engine)

-----------------------------------------------------------------------------
(* Properties.                                                               *)

\* How many children of e are (pulling) x.
CountOf(e, x) ==
    Cardinality({u \in LeafUses(e) : value[u[1]] = x})
    + Cardinality({c \in Children(e) : pull_state(c, expr[c]) = x})

\* The counters that evaluate_kernel and evaluate keep up to date by
\* differences are those that a recount from the values of the nodes gives,
\* whenever the engine is at rest.
CountersAgree ==
    stage = "idle" =>
        /\ \A e \in ExprId : expr[e] =
                [countdown |-> CountOf(e, Decisive(e)), unknowns |-> CountOf(e, PULL_WEAK)]
        /\ \A n \in Node, g \in Group : fanin[n][g] =
                [countdown |-> Cardinality({r \in RulesOf(n, g) :
                                            pull_state(r, expr[r]) = PULL_ON}),
                 unknowns  |-> Cardinality({r \in RulesOf(n, g) :
                                            pull_state(r, expr[r]) = PULL_WEAK})]

\* Another member of an exclusion ring of n is active.
RingBusy(n) ==
    \/ \E i \in DOMAIN MkExHi : n \in MkExHi[i] /\
            \E m \in MkExHi[i] \ {n} : value[m] = LOGIC_HIGH
    \/ \E i \in DOMAIN MkExLo : n \in MkExLo[i] /\
            \E m \in MkExLo[i] \ {n} : value[m] = LOGIC_LOW

\* The nodes that only the circuit decides on.
RuleDriven(n) == n \notin Settable /\ n \notin frozen

\* No change is missed: a node that is 0 or 1 and has no event pending is
\* where its rules pull it, unless an exclusion ring is in the way.
NoChangeMissed ==
    stage = "idle" =>
        \A n \in Node : RuleDriven(n) /\ pending[n] = 0 /\ value[n] # LOGIC_OTHER
            => PullValue(PullsOf(fanin[n]), value[n]) = value[n] \/ RingBusy(n)

\* No event outlives its reason: what is going to change to 0 or 1 is pulled
\* there still.
EventsJustified ==
    stage = "idle" =>
        \A n \in Node : RuleDriven(n) /\ pending[n] # 0 /\ pool[pending[n]].val # LOGIC_OTHER
            => PullValue(PullsOf(fanin[n]), value[n]) = pool[pending[n]].val

\* ring_counter_state::count is the number of active members.
RingCountAgrees ==
    stage = "idle" =>
        /\ \A i \in DOMAIN MkExHi :
              ring.hi[i] = Cardinality({n \in MkExHi[i] : value[n] = LOGIC_HIGH})
        /\ \A i \in DOMAIN MkExLo :
              ring.lo[i] = Cardinality({n \in MkExLo[i] : value[n] = LOGIC_LOW})

\* As long as every change was checked and no check failed, a ring of an
\* exclhi or excllo directive is locked if and only if one of its members is
\* active, and there is one at most: no violation gets past the locks, and
\* none is seen where there is none.
LocksAgree ==
    check.clean /\ stage \notin {"load", "lock"} =>
        /\ \A i \in DOMAIN CheckExHi :
              Cardinality({n \in CheckExHi[i] : value[n] = LOGIC_HIGH}) = Is(i \in check.hi, TRUE)
        /\ \A i \in DOMAIN CheckExLo :
              Cardinality({n \in CheckExLo[i] : value[n] = LOGIC_LOW}) = Is(i \in check.lo, TRUE)

\* Whatever a node is going to be pulled by, if the case analysis of
\* flush_updated_nodes applies, it gives the value that the node has however
\* the X pulls turn out, and X if they disagree.
PullSound == \A n \in Node : value[n] \in SoundFrom

\* The assertions of flush_updated_nodes: a node is pulled in a way that the
\* cases cover, ...
FlushCovered == stage = "flush" /\ uq # <<>> => PullCovered(FlushPulls)

\* ... an unstable event is for a value the node is not pulled to, ...
UnstableMeansChange ==
    stage = "flush" /\ uq # <<>> =>
        LET i == pending[First.node]
        IN  i # 0 /\ ~have_interference(FlushPulls) /\ Instability(pool[i])
                => FlushValue # pool[i].val

\* ... and (__allocate_event) a frozen node gets no event.
FrozenNotScheduled ==
    /\ stage = "flush" /\ uq # <<>>
    /\ Verdict = "replace" /\ FlushValue # value[First.node]
    => First.node \notin frozen

\* unset "causes the named node to be re-evaluated in terms of its current
\* pull-state": where the pull is decided, the node or its pending event has
\* the value it is pulled to.
UnsetRestores ==
    [][\A n \in Node : (\E d \in Delays : Unset(n, d)) =>
          LET p == PullsOf(fanin[n])
              v == IF pending'[n] = 0 THEN value[n] ELSE pool'[pending'[n]].val
          IN  /\ pull_up_wins_any(p) => v = LOGIC_HIGH
              /\ pull_dn_wins_any(p) => v = LOGIC_LOW]_allVars

\* What holds of the event machinery whatever the circuit holds of this one.
ImplementsEvents == Spec

\* In a circuit without a cycle of rules, once the user stops giving commands
\* the simulation comes to an end.
Settles == (<>[][Engine]_allVars) => <>[]NoneLive
=============================================================================
