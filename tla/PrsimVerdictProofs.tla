-------------------------- MODULE PrsimVerdictProofs --------------------------
(***************************************************************************)
(* What flush_updated_nodes decides: its assertions on frozen nodes and on *)
(* the case analysis of the pulls cannot fail, and its verdicts are right: *)
(* what is going to change is pulled there, and what is pulled elsewhere   *)
(* is going to change.                                                     *)
(***************************************************************************)
EXTENDS PrsimCounterProofs, PrsimPullProofs

-----------------------------------------------------------------------------
(* The nodes of updated_nodes.                                               *)

Nodes(q) == {q[i].node : i \in DOMAIN q}

\* The members of the rings of mk_exclhi and mk_excllo directives.
Ringed == {n \in Node : \/ \E i \in DOMAIN MkExHi : n \in MkExHi[i]
                        \/ \E i \in DOMAIN MkExLo : n \in MkExLo[i]}

\* Only nodes of S are blocked.
Blocks(q, S) == \A i \in DOMAIN q : q[i].blocked => q[i].node \in S

LEMMA NodesEmpty == Nodes(<<>>) = {} /\ \A S : Blocks(<<>>, S)
  BY DEF Nodes, Blocks

LEMMA UqFacts ==
    ASSUME NEW q \in Seq(Entry)
    PROVE  /\ Len(q) \in Nat /\ DOMAIN q = 1..Len(q)
           /\ \A i \in DOMAIN q : /\ q[i] \in Entry /\ q[i].node \in Node
                                  /\ q[i].rule \in Rule \cup {0} /\ q[i].blocked \in BOOLEAN
           /\ Nodes(q) \subseteq Node
  <1>1. Len(q) \in Nat /\ DOMAIN q = 1..Len(q) /\ \A i \in DOMAIN q : q[i] \in Entry
    BY LenProperties, ElementOfSeq
  <1>2. QED
    BY <1>1 DEF Entry, Nodes

\* The first node and the others.
LEMMA HeadTailNodes ==
    ASSUME NEW q \in Seq(Entry), q # <<>>
    PROVE  /\ Head(q) \in Entry /\ Tail(q) \in Seq(Entry)
           /\ Head(q).node \in Node
           /\ Nodes(q) = Nodes(Tail(q)) \cup {Head(q).node}
           /\ \A j \in DOMAIN Tail(q) : \E i \in DOMAIN q : Tail(q)[j] = q[i]
  <1>1. /\ Len(q) \in Nat /\ DOMAIN q = 1..Len(q) /\ Len(q) # 0
    BY UqFacts, EmptySeq
  <1>2. /\ Head(q) = q[1] /\ Tail(q) \in Seq(Entry) /\ Len(Tail(q)) = Len(q) - 1
        /\ \A j \in 1..Len(Tail(q)) : Tail(q)[j] = q[j + 1]
    BY HeadTailProperties
  <1>3. DOMAIN Tail(q) = 1..(Len(q) - 1)
    BY <1>2, UqFacts
  <1>4. Head(q) \in Entry /\ Head(q).node \in Node
    BY <1>1, <1>2, UqFacts
  <1>5. ASSUME NEW i \in DOMAIN q
        PROVE  q[i].node = Head(q).node \/ \E j \in DOMAIN Tail(q) : Tail(q)[j] = q[i]
    <2>1. CASE i = 1
      BY <2>1, <1>2
    <2>2. CASE i # 1
      <3>1. i - 1 \in DOMAIN Tail(q) /\ Tail(q)[i - 1] = q[i]
        BY <1>1, <1>2, <1>3, <2>2
      <3>2. QED
        BY <3>1
    <2>3. QED
      BY <2>1, <2>2
  <1>6. \A j \in DOMAIN Tail(q) : j + 1 \in DOMAIN q /\ Tail(q)[j] = q[j + 1]
    BY <1>1, <1>2, <1>3
  <1>7. 1 \in DOMAIN q
    BY <1>1
  <1>8. QED
    BY <1>2, <1>4, <1>5, <1>6, <1>7 DEF Nodes

LEMMA BehindNodes ==
    ASSUME NEW q \in Seq(Entry), NEW N \in Nat, NEW f \in [1..N -> Node],
           NEW b \in BOOLEAN
    PROVE  /\ Behind(q, f, b) \in Seq(Entry)
           /\ Nodes(Behind(q, f, b)) = Nodes(q) \cup {f[i] : i \in DOMAIN f}
           /\ \A S : Blocks(q, S) /\ (\A i \in DOMAIN f : f[i] \in S) => Blocks(Behind(q, f, b), S)
  <1> DEFINE r == [i \in DOMAIN f |-> [Listed(f[i]) EXCEPT !.blocked = b]]
  <1>1. \A i \in 1..N : [Listed(f[i]) EXCEPT !.blocked = b] \in Entry
    BY DEF Listed, Entry
  <1>2. r \in [1..N -> Entry]
    BY <1>1
  <1>3. r \in Seq(Entry) /\ Len(r) = N
    BY <1>2, SeqDef
  <1>4. \A i \in 1..N : r[i].node = f[i]
    BY DEF Listed
  <1> HIDE DEF r
  <1>5. Behind(q, f, b) = q \o r
    BY DEF Behind, r
  <1>6. /\ q \o r \in Seq(Entry) /\ Len(q \o r) = Len(q) + N
        /\ \A i \in 1..(Len(q) + N) : (q \o r)[i] = IF i <= Len(q) THEN q[i] ELSE r[i - Len(q)]
    BY <1>3, ConcatProperties
  <1>7. Len(q) \in Nat /\ DOMAIN q = 1..Len(q) /\ DOMAIN (q \o r) = 1..(Len(q) + N)
    BY <1>6, UqFacts
  <1>8. ASSUME NEW i \in DOMAIN (q \o r)
        PROVE  (q \o r)[i].node \in Nodes(q) \cup {f[j] : j \in DOMAIN f}
    <2>1. CASE i <= Len(q)
      BY <1>6, <1>7, <2>1 DEF Nodes
    <2>2. CASE ~(i <= Len(q))
      <3>1. i - Len(q) \in 1..N
        BY <1>7, <2>2
      <3>2. QED
        BY <1>4, <1>6, <1>7, <2>2, <3>1
    <2>3. QED
      BY <2>1, <2>2
  <1>9. ASSUME NEW i \in DOMAIN q PROVE q[i].node \in Nodes(q \o r)
    BY <1>6, <1>7 DEF Nodes
  <1>10. ASSUME NEW i \in DOMAIN f PROVE f[i] \in Nodes(q \o r)
    <2>1. i + Len(q) \in DOMAIN (q \o r) /\ ~(i + Len(q) <= Len(q)) /\ (i + Len(q)) - Len(q) = i
      BY <1>7
    <2>2. (q \o r)[i + Len(q)].node = f[i]
      BY <1>4, <1>6, <1>7, <2>1
    <2>3. QED
      BY <2>1, <2>2 DEF Nodes
  <1>11. Nodes(q \o r) \subseteq Nodes(q) \cup {f[i] : i \in DOMAIN f}
    BY <1>8 DEF Nodes
  <1>12. Nodes(q) \subseteq Nodes(q \o r) /\ {f[i] : i \in DOMAIN f} \subseteq Nodes(q \o r)
    <2>1. \A n \in Nodes(q) : \E i \in DOMAIN q : n = q[i].node
      BY DEF Nodes
    <2>2. QED
      BY <1>9, <1>10, <2>1
  <1>13. ASSUME NEW S, Blocks(q, S), \A i \in DOMAIN f : f[i] \in S,
                NEW i \in DOMAIN (q \o r), (q \o r)[i].blocked
         PROVE  (q \o r)[i].node \in S
    <2>1. CASE i <= Len(q)
      <3>1. i \in DOMAIN q /\ (q \o r)[i] = q[i]
        BY <1>6, <1>7, <2>1
      <3>2. QED
        BY <1>13, <3>1 DEF Blocks
    <2>2. CASE ~(i <= Len(q))
      <3>1. i - Len(q) \in 1..N /\ (q \o r)[i] = r[i - Len(q)]
        BY <1>6, <1>7, <2>2
      <3>2. QED
        BY <1>4, <1>13, <3>1
    <2>3. QED
      BY <2>1, <2>2
  <1>14. QED
    BY <1>5, <1>6, <1>11, <1>12, <1>13 DEF Blocks

\* q2 is q with nodes of S added, and others blocked.
Joins(q, q2, S) ==
    /\ q2 \in Seq(Entry)
    /\ Nodes(q) \subseteq Nodes(q2)
    /\ Nodes(q2) \subseteq Nodes(q) \cup S
    /\ Blocks(q, S) => Blocks(q2, S)

LEMMA ArrangedJoins ==
    ASSUME NEW q \in Seq(Entry), NEW groups, NEW f \in Arranged(q, groups),
           \A i \in DOMAIN groups : groups[i] \subseteq Node,
           NEW S, \A i \in DOMAIN groups : groups[i] \subseteq S, NEW b \in BOOLEAN
    PROVE  Joins(q, Behind(q, f, b), S)
  <1>1. PICK N \in Nat : f \in [1..N -> Node]
    BY ArrangedFacts
  <1>2. \A i \in DOMAIN f : f[i] \in UNION {groups[j] : j \in DOMAIN groups}
    BY DEF Arranged
  <1>3. \A i \in DOMAIN f : f[i] \in S
    BY <1>2
  <1>4. /\ Behind(q, f, b) \in Seq(Entry)
        /\ Nodes(Behind(q, f, b)) = Nodes(q) \cup {f[i] : i \in DOMAIN f}
        /\ Blocks(q, S) => Blocks(Behind(q, f, b), S)
    BY <1>1, <1>3, BehindNodes
  <1>5. QED
    BY <1>3, <1>4 DEF Joins

LEMMA MarkedNodes ==
    ASSUME NEW q \in Seq(Entry), NEW B
    PROVE  /\ Marked(q, B) \in Seq(Entry) /\ Nodes(Marked(q, B)) = Nodes(q)
           /\ \A S : Blocks(q, S) /\ B \subseteq S => Blocks(Marked(q, B), S)
  <1>1. ASSUME NEW e \in Entry, NEW b \in BOOLEAN
        PROVE  [e EXCEPT !.blocked = b].node = e.node /\ [e EXCEPT !.blocked = b].blocked = b
    BY DEF Entry
  <1>2. /\ DOMAIN Marked(q, B) = DOMAIN q
        /\ \A i \in DOMAIN q : /\ Marked(q, B)[i].node = q[i].node
                               /\ Marked(q, B)[i].blocked => q[i].blocked \/ q[i].node \in B
    BY <1>1, UqFacts DEF Marked
  <1>3. QED
    BY <1>2, MarkedType DEF Nodes, Blocks

LEMMA RingedFacts ==
    ASSUME NEW rings \in {MkExHi, MkExLo}, NEW i \in DOMAIN rings
    PROVE  rings[i] \subseteq Ringed /\ rings[i] \subseteq Node
  <1>1. rings[i] \subseteq Node
    BY RingFacts DEF IsRings
  <1>2. ASSUME NEW n \in rings[i] PROVE n \in Ringed
    <2>1. n \in Node
      BY <1>1
    <2>2. CASE rings = MkExHi
      <3>1. i \in DOMAIN MkExHi /\ n \in MkExHi[i]
        BY <2>2
      <3>2. QED
        BY <2>1, <3>1 DEF Ringed
    <2>3. CASE rings = MkExLo
      <3>1. \E j \in DOMAIN MkExLo : n \in MkExLo[j]
        BY <2>3
      <3>2. QED
        BY <2>1, <3>1 DEF Ringed
    <2>4. QED
      BY <2>2, <2>3
  <1>3. QED
    BY <1>1, <1>2

LEMMA FreedRinged ==
    ASSUME NEW rings \in {MkExHi, MkExLo}, NEW count, NEW v
    PROVE  /\ \A i \in DOMAIN Freed(rings, count, v) : Freed(rings, count, v)[i] \subseteq Node
           /\ \A i \in DOMAIN Freed(rings, count, v) : Freed(rings, count, v)[i] \subseteq Ringed
  <1>1. DOMAIN Freed(rings, count, v) = DOMAIN rings
    BY DEF Freed
  <1>2. \A i \in DOMAIN rings : Freed(rings, count, v)[i] \subseteq rings[i]
    BY DEF Freed
  <1>3. QED
    BY <1>1, <1>2, RingedFacts

LEMMA BlockedRinged ==
    ASSUME NEW rings \in {MkExHi, MkExLo}, NEW v
    PROVE  Blocked(rings, v) \subseteq Ringed /\ Blocked(rings, v) \subseteq Node
  <1>1. ASSUME NEW n \in Blocked(rings, v) PROVE \E i \in DOMAIN rings : n \in rings[i]
    BY DEF Blocked, RingsOfCause
  <1>2. QED
    BY <1>1, RingedFacts

\* The rings only list and block their members.
LEMMA EnforceNodes ==
    ASSUME ControlTypeOK, Enforce
    PROVE  Joins(uq, uq', Ringed)
  <1> DEFINE hi == Freed(MkExHi, RingCount(ring.hi, MkExHi, LOGIC_HIGH), LOGIC_HIGH)
             lo == Freed(MkExLo, RingCount(ring.lo, MkExLo, LOGIC_LOW), LOGIC_LOW)
             B == Blocked(MkExHi, LOGIC_HIGH) \cup Blocked(MkExLo, LOGIC_LOW)
  <1>1. PICK f \in Arranged(uq, hi) :
            \E g \in Arranged(Behind(uq, f, FALSE), lo) :
                LET r == Marked(Behind(Behind(uq, f, FALSE), g, FALSE), B)
                IN  \E h \in Arranged(r, <<Late(B)>>) : uq' = Behind(r, h, TRUE)
    BY DEF Enforce
  <1>2. /\ \A i \in DOMAIN hi : hi[i] \subseteq Node
        /\ \A i \in DOMAIN hi : hi[i] \subseteq Ringed
        /\ \A i \in DOMAIN lo : lo[i] \subseteq Node
        /\ \A i \in DOMAIN lo : lo[i] \subseteq Ringed
    BY FreedRinged
  <1>3. B \subseteq Ringed /\ B \subseteq Node
    BY BlockedRinged
  <1> HIDE DEF hi, lo, B
  <1> DEFINE q1 == Behind(uq, f, FALSE)
  <1>4. Joins(uq, q1, Ringed)
    BY <1>2, ArrangedJoins DEF ControlTypeOK
  <1>5. PICK g \in Arranged(q1, lo) :
            LET r == Marked(Behind(q1, g, FALSE), B)
            IN  \E h \in Arranged(r, <<Late(B)>>) : uq' = Behind(r, h, TRUE)
    BY <1>1
  <1> HIDE DEF q1
  <1>6. q1 \in Seq(Entry)
    BY <1>4 DEF Joins
  <1>7. Joins(q1, Behind(q1, g, FALSE), Ringed)
    BY <1>2, <1>6, ArrangedJoins
  <1> DEFINE r == Marked(Behind(q1, g, FALSE), B)
  <1>8. /\ r \in Seq(Entry) /\ Nodes(r) = Nodes(Behind(q1, g, FALSE))
        /\ Blocks(Behind(q1, g, FALSE), Ringed) => Blocks(r, Ringed)
    BY <1>3, <1>7, MarkedNodes DEF Joins
  <1>9. PICK h \in Arranged(r, <<Late(B)>>) : uq' = Behind(r, h, TRUE)
    BY <1>5
  <1> HIDE DEF r
  <1>10. /\ \A i \in DOMAIN <<Late(B)>> : <<Late(B)>>[i] \subseteq Node
         /\ \A i \in DOMAIN <<Late(B)>> : <<Late(B)>>[i] \subseteq Ringed
    <2>1. Late(B) \subseteq B
      BY DEF Late
    <2>2. \A i \in DOMAIN <<Late(B)>> : <<Late(B)>>[i] = Late(B)
      OBVIOUS
    <2>3. QED
      BY <1>3, <2>1, <2>2
  <1>11. Joins(r, Behind(r, h, TRUE), Ringed)
    BY <1>8, <1>10, ArrangedJoins
  <1>12. Joins(r, uq', Ringed)
    BY <1>9, <1>11
  <1>13. QED
    BY <1>4, <1>7, <1>8, <1>12 DEF Joins

\* propagate_evaluation only lists the node of the rule.
LEMMA EnlistNodes ==
    ASSUME ControlTypeOK, Root # 0, Enlist
    PROVE  /\ Nodes(uq') = Nodes(uq) \cup {RootNode}
           /\ \A S : Blocks(uq, S) => Blocks(uq', S)
  <1>1. Root \in Rule /\ RootNode \in Node
    BY RuleFacts DEF ControlTypeOK, Climb, Root, RootNode
  <1>2. /\ uq \in Seq(Entry) /\ Len(uq) \in Nat /\ DOMAIN uq = 1..Len(uq)
        /\ \A i \in 1..Len(uq) : uq[i] \in Entry
    BY UqFacts DEF ControlTypeOK
  <1>3. CASE Position(uq, RootNode) = {}
    <2> DEFINE e == [Listed(RootNode) EXCEPT !.rule = Root]
    <2>1. e \in Entry /\ e.node = RootNode /\ ~e.blocked
      BY <1>1 DEF Listed, Entry
    <2>2. uq' = Append(uq, e)
      BY <1>3 DEF Enlist
    <2> HIDE DEF e
    <2>3. /\ Append(uq, e) \in Seq(Entry) /\ Len(Append(uq, e)) = Len(uq) + 1
          /\ \A i \in 1..Len(uq) : Append(uq, e)[i] = uq[i]
          /\ Append(uq, e)[Len(uq) + 1] = e
      BY <1>2, <2>1, AppendProperties
    <2>4. DOMAIN uq' = 1..(Len(uq) + 1)
      BY <2>2, <2>3, UqFacts
    <2>5. \A i \in DOMAIN uq' : i \in DOMAIN uq \/ i = Len(uq) + 1
      BY <1>2, <2>4
    <2>6. \A i \in DOMAIN uq : i \in DOMAIN uq' /\ uq'[i] = uq[i]
      BY <1>2, <2>2, <2>3, <2>4
    <2>7. Len(uq) + 1 \in DOMAIN uq' /\ uq'[Len(uq) + 1].node = RootNode
          /\ ~uq'[Len(uq) + 1].blocked
      BY <1>2, <2>1, <2>2, <2>3, <2>4
    <2>8. QED
      BY <2>5, <2>6, <2>7 DEF Nodes, Blocks
  <1>4. CASE Position(uq, RootNode) # {}
    <2>1. RootNode \in Nodes(uq)
      BY <1>4 DEF Position, Nodes
    <2>2. \A i \in DOMAIN uq : /\ [uq[i] EXCEPT !.rule = Root].node = uq[i].node
                               /\ [uq[i] EXCEPT !.rule = Root].blocked = uq[i].blocked
      BY <1>2 DEF Entry
    <2>3. /\ DOMAIN uq' = DOMAIN uq
          /\ \A i \in DOMAIN uq : uq'[i].node = uq[i].node /\ uq'[i].blocked = uq[i].blocked
      BY <1>4, <2>2 DEF Enlist
    <2>4. QED
      BY <2>1, <2>3 DEF Nodes, Blocks
  <1>5. QED
    BY <1>3, <1>4

-----------------------------------------------------------------------------
(* Frozen nodes.                                                             *)

FrozenInv ==
    /\ frozen \subseteq Settable
    /\ "freeze" \notin Session => frozen = {}
    /\ Nodes(uq) \cap frozen = {}

LEMMA FrozenStep ==
    ASSUME "freeze" \in Session => Ringed \cap Settable = {},
           Sound, Control, FrozenInv, [EngineNext]_allVars
    PROVE  FrozenInv'
  <1>0. ControlTypeOK /\ Tidy /\ InStep
    BY DEF Control
  <1>1. ASSUME UNCHANGED <<frozen, uq>> PROVE FrozenInv'
    BY <1>1 DEF FrozenInv
  <1>2. ASSUME frozen' \subseteq Settable, "freeze" \notin Session => frozen' = {}, uq' = <<>>
        PROVE  FrozenInv'
    BY <1>2, NodesEmpty DEF FrozenInv
  <1>3. ASSUME Commands PROVE FrozenInv'
    <2>0. stage = "idle" /\ uq = <<>> /\ phase # "propagate"
      BY <1>0, <1>3 DEF Commands, Tidy, InStep
    <2>1. ASSUME NEW n \in Settable, Freeze(n) PROVE FrozenInv'
      BY <1>2, <2>0, <2>1 DEF Freeze, FreezeNode, engineVars, FrozenInv
    <2>2. ASSUME NEW n, NEW d, Unset(n, d) PROVE FrozenInv'
      BY <1>2, <2>0, <2>2 DEF Unset, UnsetNode, engineVars, FrozenInv
    <2>3. ASSUME NEW s, NEW b, Reinitialize(s, b) PROVE FrozenInv'
      BY <1>2, <2>0, <2>3 DEF Reinitialize, Initialize
    <2>4. ASSUME NEW n, NEW v, CommitNow(n, v) PROVE FrozenInv'
      BY <1>1, <2>4 DEF CommitNow, SetNow, Begin, Refused, engineVars
    <2>5. QED
      BY <1>1, <1>3, <2>1, <2>2, <2>3, <2>4 DEF Commands, Set, SetForced, Deschedule,
        SetNode, SetNodeForced, DescheduleEvent, CheckExcl, Load, engineVars, stepVars, vars
  <1>4. ASSUME Dequeue PROVE FrozenInv'
    BY <1>1, <1>4 DEF Dequeue, Nothing, StepNothing, Skip, StepXX, StepVacuous, Refuse,
        StepExclRefused, Refused, Commit, StepCommit, Begin, engineVars
  <1>5. ASSUME EvaluateRoot PROVE FrozenInv'
    <2>1. Root # 0 /\ UNCHANGED frozen
      BY <1>5 DEF EvaluateRoot, PropagateKill, stepVars, vars
    <2>2. CASE stage = "load" \/ RootUnchanged \/ Suppressed
      BY <1>1, <1>5, <2>1, <2>2 DEF EvaluateRoot
    <2>3. CASE ~(stage = "load" \/ RootUnchanged \/ Suppressed)
      <3>1. Enlist /\ RootNode \notin frozen
        BY <1>5, <2>3 DEF EvaluateRoot, Suppressed
      <3>2. Nodes(uq') = Nodes(uq) \cup {RootNode}
        BY <1>0, <2>1, <3>1, EnlistNodes
      <3>3. QED
        BY <2>1, <3>1, <3>2 DEF FrozenInv
    <2>4. QED
      BY <2>2, <2>3
  <1>6. ASSUME Enforce PROVE FrozenInv'
    <2>1. UNCHANGED frozen /\ Nodes(uq') \subseteq Nodes(uq) \cup Ringed
      BY <1>0, <1>6, EnforceNodes DEF Enforce, Joins, vars
    <2>2. Ringed \cap frozen = {}
      BY DEF FrozenInv
    <2>3. QED
      BY <2>1, <2>2 DEF FrozenInv
  <1>7. ASSUME NEW d, Flush(d) PROVE FrozenInv'
    <2>1. UNCHANGED frozen /\ uq # <<>> /\ uq' = Tail(uq)
      BY <1>7 DEF Flush, FlushSchedule, FlushKill, FlushOverwrite, vars
    <2>2. Nodes(uq') \subseteq Nodes(uq)
      BY <1>0, <2>1, HeadTailNodes DEF ControlTypeOK
    <2>3. QED
      BY <2>1, <2>2 DEF FrozenInv
  <1>8. CASE UNCHANGED allVars
    BY <1>1, <1>8 DEF allVars, vars, engineVars
  <1>9. ASSUME Engine PROVE FrozenInv'
    BY <1>1, <1>4, <1>5, <1>6, <1>7, <1>9 DEF Engine, EvaluateNext, EvaluateExpr, Return,
        StepReturn, LoadNode, LoadEvents, Restore, LoadLock, LoadDone, stepVars, vars
  <1>10. QED
    BY <1>3, <1>8, <1>9 DEF EngineNext

\* The assertion of __allocate_event never fails: propagate_evaluation does
\* not list a frozen node, and nothing freezes a node within a step.  Only the
\* release of an exclusion ring lists nodes without asking whether they are
\* frozen, so the nodes the user freezes must not be in such a ring.
THEOREM FrozenNeverScheduled ==
    ASSUME "freeze" \in Session => Ringed \cap Settable = {}
    PROVE  EngineSpec => []FrozenNotScheduled
  <1>1. EngineInit => FrozenInv
    BY NodesEmpty DEF EngineInit, Init, FrozenInv
  <1>2. Sound /\ Control /\ FrozenInv /\ [EngineNext]_allVars => FrozenInv'
    BY FrozenStep
  <1>3. Control /\ FrozenInv => FrozenNotScheduled
    <2> SUFFICES ASSUME Control, FrozenInv, uq # <<>> PROVE First.node \notin frozen
      BY DEF FrozenNotScheduled
    <2>1. First.node \in Nodes(uq)
      BY HeadTailNodes DEF First, Control, ControlTypeOK
    <2>2. QED
      BY <2>1 DEF FrozenInv
  <1>4. QED
    BY <1>1, <1>2, <1>3, EngineInvariant, PTL DEF EngineSpec

-----------------------------------------------------------------------------
(* The case analysis of flush_updated_nodes.                                 *)

\* A group without rules never pulls.
LEMMA NoRulesNoPull ==
    ASSUME CountersInv, climb = NoClimb, NEW n \in Node, NEW g \in Group, RulesOf(n, g) = {}
    PROVE  or_pull(fanin[n][g]) = PULL_OFF
  <1>1. ASSUME NEW x \in {PULL_ON, PULL_WEAK} PROVE Tally(fanin[n][g], x) = 0
    <2>1. RuleCount(n, g, expr, x) = 0
      BY FS_EmptySet DEF RuleCount
    <2>2. Rise(n, g, x, climb) = 0
      BY DEF Rise
    <2>3. Tally(fanin[n][g], x) = RuleCount(n, g, expr, x) - Rise(n, g, x, climb)
      BY DEF CountersInv, FaninsAgree
    <2>4. QED
      BY <2>1, <2>2, <2>3
  <1>2. fanin[n][g].countdown = 0 /\ fanin[n][g].unknowns = 0
    BY <1>1 DEF Tally, PULL_ON, PULL_WEAK
  <1>3. QED
    BY <1>2 DEF or_pull

LEMMA OneWeakSideCovered ==
    ASSUME NEW p \in PullSet, p.wup = PULL_OFF \/ p.wdn = PULL_OFF
    PROVE  PullCovered(p)
  <1>1. p.up \in Pull /\ p.dn \in Pull /\ p.wup \in Pull /\ p.wdn \in Pull
    BY DEF PullSet
  <1>2. QED
    BY <1>1 DEF PullCovered, have_interference, possible_interference_strong,
        possible_interference_strong_vs_weak, possible_interference_weak, pull_up_wins_any,
        pull_dn_wins_any, pull_up_x_wins_any, pull_dn_x_wins_any, pulling_up_x, pulling_dn_x,
        weak_pulling_up_x, weak_pulling_dn_x, cutoff_up, cutoff_dn, state_holding,
        normal_rules_off, weak_rules_off, Pull, PULL_OFF, PULL_ON, PULL_WEAK

\* From every value that a node ever has, and for all pulls its cases cover,
\* flush_updated_nodes commits the node to 0 or 1 exactly if every resolution
\* of the X pulls does.
THEOREM PullAlwaysSound == EngineSpec => []PullSound
  <1>1. Sound => PullSound
    <2>1. Sound => value \in [Node -> Value]
      BY DEF Sound, StepTypeOK
    <2>2. Value = Pull
      BY DEF Value, LOGIC_LOW, LOGIC_HIGH, LOGIC_OTHER, Pull, PULL_OFF, PULL_ON, PULL_WEAK
    <2>3. QED
      BY <2>1, <2>2, PullIsSound DEF PullSound
  <1>2. QED
    BY <1>1, EngineInvariant, PTL

\* The assertion at the end of the case analysis of flush_updated_nodes never
\* fails, unless a node has weak rules both ways: a strong pull that is X one
\* way and weak ones that are on both ways fall between its cases.
THEOREM AlwaysCovered ==
    ASSUME weak_rules_enabled =>
               \A n \in Node : RulesOf(n, "wup") = {} \/ RulesOf(n, "wdn") = {}
    PROVE  EngineSpec => []FlushCovered
  <1>1. ASSUME Control, CountersInv, stage = "flush", uq # <<>> PROVE PullCovered(FlushPulls)
    <2> DEFINE n == First.node
               p == PullsOf(fanin[n])
    <2>1. n \in Node /\ climb = NoClimb
      BY <1>1, HeadTailNodes DEF First, Control, ControlTypeOK, Tidy
    <2>2. p \in PullSet
      BY PullsOfType
    <2>3. p.wup = PULL_OFF \/ p.wdn = PULL_OFF
      <3>1. CASE ~weak_rules_enabled
        BY <3>1 DEF PullsOf
      <3>2. CASE RulesOf(n, "wup") = {}
        <4>1. or_pull(fanin[n]["wup"]) = PULL_OFF
          BY <1>1, <2>1, <3>2, NoRulesNoPull DEF Group
        <4>2. QED
          BY <4>1 DEF PullsOf
      <3>3. CASE RulesOf(n, "wdn") = {}
        <4>1. or_pull(fanin[n]["wdn"]) = PULL_OFF
          BY <1>1, <2>1, <3>3, NoRulesNoPull DEF Group
        <4>2. QED
          BY <4>1 DEF PullsOf
      <3>4. QED
        BY <2>1, <3>1, <3>2, <3>3
    <2>4. FlushPulls \in {p, cut_off_pull_up(p), cut_off_pull_dn(p)}
      BY DEF FlushPulls
    <2> HIDE DEF p
    <2>5. /\ cut_off_pull_up(p).wup = PULL_OFF
          /\ cut_off_pull_dn(p).wdn = PULL_OFF
      BY <2>2 DEF cut_off_pull_up, cut_off_pull_dn, PullSet
    <2>6. FlushPulls.wup = PULL_OFF \/ FlushPulls.wdn = PULL_OFF
      BY <2>3, <2>4, <2>5
    <2>7. QED
      BY <2>6, FlushPullsFacts, OneWeakSideCovered
  <1>2. Control /\ CountersInv => FlushCovered
    BY <1>1 DEF FlushCovered
  <1>3. QED
    BY <1>2, EngineInvariant, CountersAlwaysHold, PTL

-----------------------------------------------------------------------------
(* What a step does to the pending event of a node.                          *)

\* The pending event of n is what it was.
SameEvent(n) ==
    /\ pending'[n] = pending[n]
    /\ pending[n] # 0 => pool'[pending[n]] = pool[pending[n]]

\* The events of all nodes but m are.
OthersSame(m) == \A n \in Node : n # m => SameEvent(n)

LEMMA KillOthers ==
    ASSUME Structures, NEW m \in Node, KillEvent(m)
    PROVE  pending'[m] = 0 /\ OthersSame(m)
  <1>1. pending' = [pending EXCEPT ![m] = 0] /\ pool' = PoolAfterKill(m)
    BY DEF KillEvent
  <1>2. pending \in [Node -> EventId \cup {0}]
    BY DEF Structures, QTypeOK
  <1>3. \A i \in EventId : i # pending[m] => pool'[i] = pool[i]
    BY <1>1 DEF PoolAfterKill
  <1>4. ASSUME NEW n \in Node, n # m, pending[n] # 0 PROVE pool'[pending[n]] = pool[pending[n]]
    <2>1. pending[n] \in EventId /\ pool[pending[n]].node = n
      BY <1>4, PendingSound
    <2>2. pending[n] # pending[m]
      BY <1>4, <2>1, PendingSound
    <2>3. QED
      BY <1>3, <2>1, <2>2
  <1>5. QED
    BY <1>1, <1>2, <1>4 DEF OthersSame, SameEvent

LEMMA ScheduleOthers ==
    ASSUME Structures, NEW m \in Node, NEW e, NEW t, Schedule(m, e, t)
    PROVE  /\ pending'[m] # 0 /\ pool'[pending'[m]] = e
           /\ OthersSame(m)
  <1>1. PICK i \in EventId : /\ Fresh(i)
                             /\ pool' = [PoolAfterKill(m) EXCEPT ![i] = e]
                             /\ pending' = [pending EXCEPT ![m] = i]
    BY DEF Schedule
  <1>2. pending \in [Node -> EventId \cup {0}] /\ i # 0
    BY DEF Structures, QTypeOK, EventId
  <1>3. /\ \A j \in EventId : j # pending[m] /\ j # i => pool'[j] = pool[j]
        /\ pool'[i] = e
    BY <1>1 DEF PoolAfterKill
  <1>4. ASSUME NEW n \in Node, n # m, pending[n] # 0 PROVE pool'[pending[n]] = pool[pending[n]]
    <2>1. pending[n] \in EventId /\ pool[pending[n]].node = n
      BY <1>4, PendingSound
    <2>2. pending[n] # pending[m]
      BY <1>4, <2>1, PendingSound
    <2>3. pending[n] # i
      BY <1>1, <2>1, QueueAssumption DEF Fresh, InUse
    <2>4. QED
      BY <1>3, <2>1, <2>2, <2>3
  <1>5. QED
    BY <1>1, <1>2, <1>3, <1>4 DEF OthersSame, SameEvent

LEMMA RewriteOthers ==
    ASSUME Structures, NEW m \in Node, pending[m] # 0, NEW e, Rewrite(m, e)
    PROVE  /\ pending'[m] = pending[m] /\ pool'[pending[m]] = e
           /\ OthersSame(m)
  <1>1. pool' = [pool EXCEPT ![pending[m]] = e] /\ pending' = pending
    BY DEF Rewrite
  <1>2. pending[m] \in EventId /\ pool \in [EventId -> Event] /\ pool[pending[m]].node = m
    BY PendingSound DEF Structures, QTypeOK
  <1>3. ASSUME NEW n \in Node, n # m, pending[n] # 0 PROVE pool'[pending[n]] = pool[pending[n]]
    <2>1. pending[n] \in EventId /\ pool[pending[n]].node = n
      BY <1>3, PendingSound
    <2>2. QED
      BY <1>1, <1>2, <1>3, <2>1
  <1>4. QED
    BY <1>1, <1>2, <1>3 DEF OthersSame, SameEvent

LEMMA SettleOthers ==
    ASSUME Structures, NEW k \in DOMAIN queue, FirstLive(k), Settle(k)
    PROVE  LET m == pool[queue[k].ev].node
           IN  m \in Node /\ pending'[m] = 0 /\ OthersSame(m)
  <1> DEFINE m == pool[queue[k].ev].node
  <1>1. m \in Node /\ pool' = PoolWithout(QueuedUpTo(k)) /\ pending' = [pending EXCEPT ![m] = 0]
    BY FrontFacts DEF Settle
  <1>2. \A i \in EventId : i \notin QueuedUpTo(k) => pool'[i] = pool[i]
    BY <1>1 DEF PoolWithout
  <1>3. ASSUME NEW n \in Node, n # m, pending[n] # 0 PROVE pool'[pending[n]] = pool[pending[n]]
    <2>1. pending[n] \in EventId
      BY <1>3, PendingSound
    <2>2. pending[n] \notin QueuedUpTo(k)
      BY <1>3, FrontFacts
    <2>3. QED
      BY <1>2, <2>1, <2>2
  <1> HIDE DEF m
  <1>4. pending \in [Node -> EventId \cup {0}]
    BY DEF Structures, QTypeOK
  <1>5. m \in Node /\ pending'[m] = 0 /\ OthersSame(m)
    BY <1>1, <1>3, <1>4 DEF OthersSame, SameEvent
  <1>6. QED
    BY <1>5 DEF m

\* Events that are no node's are deallocated.
LEMMA FreeOthers ==
    ASSUME Structures, NEW S, \A n \in Node : pending[n] \notin S,
           pool' = PoolWithout(S), UNCHANGED pending
    PROVE  \A n \in Node : SameEvent(n)
  <1>1. \A i \in EventId : i \notin S => pool'[i] = pool[i]
    BY DEF PoolWithout
  <1>2. QED
    BY <1>1, PendingSound DEF SameEvent

LEMMA NoneLiveOthers ==
    ASSUME Structures, NoneLive, NEW n \in Node
    PROVE  pending[n] \notin QueuedUpTo(Len(queue))
  <1> SUFFICES ASSUME pending[n] \in QueuedUpTo(Len(queue)) PROVE FALSE
    OBVIOUS
  <1>1. /\ Len(queue) \in Nat /\ DOMAIN queue = 1..Len(queue)
        /\ \A j \in 1..Len(queue) : queue[j].ev \in EventId
    BY QueueFacts DEF Structures, QTypeOK
  <1>2. PICK j \in 1..Len(queue) : pending[n] = queue[j].ev
    BY DEF QueuedUpTo
  <1>3. pool[pending[n]].killed /\ pending[n] # 0
    BY <1>1, <1>2 DEF NoneLive, EventId
  <1>4. QED
    BY <1>3, PendingSound

LEMMA ReturnOthers ==
    ASSUME Structures, held # <<>>,
           pool' = PoolWithout({held[Len(held)].ev}),
           pending' = [pending EXCEPT ![held[Len(held)].node] = 0]
    PROVE  pending'[held[Len(held)].node] = 0 /\ OthersSame(held[Len(held)].node)
  <1> DEFINE h == held[Len(held)]
  <1>1. /\ Len(held) \in Nat /\ DOMAIN held = 1..Len(held)
        /\ \A j \in 1..Len(held) : held[j].ev \in EventId /\ held[j].node \in Node
    BY HeldFacts DEF Structures
  <1>2. Len(held) \in 1..Len(held)
    BY <1>1, EmptySeq DEF Structures
  <1>3. h.ev \in EventId /\ h.node \in Node /\ pool[h.ev].node = h.node
    BY <1>1, <1>2 DEF Structures, HeldIsFor
  <1>4. \A i \in EventId : i # h.ev => pool'[i] = pool[i]
    BY DEF PoolWithout
  <1> HIDE DEF h
  <1>5. pending' = [pending EXCEPT ![h.node] = 0] /\ pending \in [Node -> EventId \cup {0}]
    BY DEF h, Structures, QTypeOK
  <1>6. ASSUME NEW n \in Node, n # h.node, pending[n] # 0
        PROVE  pool'[pending[n]] = pool[pending[n]]
    <2>1. pending[n] \in EventId /\ pool[pending[n]].node = n
      BY <1>6, PendingSound
    <2>2. pending[n] # h.ev
      BY <1>3, <1>6, <2>1
    <2>3. QED
      BY <1>4, <2>1, <2>2
  <1>7. pending'[h.node] = 0 /\ OthersSame(h.node)
    BY <1>3, <1>5, <1>6 DEF OthersSame, SameEvent
  <1>8. QED
    BY <1>7 DEF h

-----------------------------------------------------------------------------
(* What a node is pulled to.                                                 *)

\* A node that got where it was pulled is not pulled away by the same pulls.
LEMMA PullStays ==
    ASSUME NEW p, NEW old, NEW v \in {LOGIC_LOW, LOGIC_HIGH}, PullValue(p, old) = v
    PROVE  PullValue(p, v) = v
  BY DEF PullValue, LOGIC_LOW, LOGIC_HIGH

\* Without weak rules: an event that is stable is for the value pulled to, ...
LEMMA StableIsPulled ==
    ASSUME NEW p \in PullSet, weak_rules_off(p), ~have_interference(p), NEW old,
           NEW v \in {LOGIC_LOW, LOGIC_HIGH},
           v = LOGIC_LOW => pulling_dn(p), v = LOGIC_HIGH => pulling_up(p)
    PROVE  PullValue(p, old) = v
  <1>1. p.up \in Pull /\ p.dn \in Pull
    BY DEF PullSet
  <1>2. QED
    BY <1>1 DEF PullValue, pulling_up, pulling_dn, have_interference, weak_rules_off,
        possible_interference_strong, pull_up_wins_any, pull_dn_wins_any, Pull,
        LOGIC_LOW, LOGIC_HIGH, PULL_OFF, PULL_ON, PULL_WEAK

\* ... and a winning pull decides.
LEMMA WinnerIsPulled ==
    ASSUME NEW p, weak_rules_off(p), NEW old
    PROVE  /\ pull_up_wins_any(p) => PullValue(p, old) = LOGIC_HIGH
           /\ pull_dn_wins_any(p) => PullValue(p, old) = LOGIC_LOW
  BY DEF PullValue, have_interference, weak_rules_off, possible_interference_strong,
        possible_interference_strong_vs_weak, possible_interference_weak,
        pull_up_wins_any, pull_dn_wins_any, LOGIC_LOW, LOGIC_HIGH, PULL_OFF, PULL_ON, PULL_WEAK

\* What the rules of n pull it to.
Pulled(n) == PullValue(PullsOf(fanin[n]), value[n])

\* n is going to be 0 or 1 only if it is pulled there, ...
Justified(n) ==
    pending[n] # 0 /\ pool[pending[n]].val # LOGIC_OTHER => Pulled(n) = pool[pending[n]].val

\* ... is 0 or 1 for good only if it is, ...
Content(n) ==
    pending[n] = 0 /\ value[n] # LOGIC_OTHER => Pulled(n) = value[n]

Fine(n) == Justified(n) /\ (Benign => Content(n))

\* ... and was not forced by the user.
Unforced(n) == pending[n] # 0 => ~pool[pending[n]].forced

\* The nodes the rules alone decide on, as soon as they have been flushed.
JustInv ==
    /\ stage \notin {"load", "lock"}
    /\ frozen \subseteq Settable
    /\ Blocks(uq, Ringed)
    /\ \A n \in Node \ Settable : Unforced(n)
    /\ \A n \in Node \ (Settable \cup Ringed \cup Nodes(uq)) : Fine(n)

\* Nothing of this changes for n.
Keeps(n) ==
    SameEvent(n) /\ value'[n] = value[n] /\ PullsOf(fanin'[n]) = PullsOf(fanin[n])

OthersKeep(m) == \A n \in Node : n # m => Keeps(n)

LEMMA KeepsFine ==
    ASSUME NEW n, Keeps(n)
    PROVE  (Fine(n) => Fine(n)') /\ (Unforced(n) => Unforced(n)')
  BY DEF Keeps, SameEvent, Fine, Justified, Content, Pulled, Unforced

\* A step that leaves all nodes but m alone.
LEMMA OneMoves ==
    ASSUME JustInv, stage' \notin {"load", "lock"}, frozen' \subseteq Settable,
           Blocks(uq', Ringed), NEW m, Nodes(uq) \subseteq Nodes(uq') \cup {m}, OthersKeep(m),
           m \notin Settable => Unforced(m)',
           m \notin Settable \cup Ringed \cup Nodes(uq') => Fine(m)'
    PROVE  JustInv'
  <1>1. ASSUME NEW n \in Node \ Settable PROVE Unforced(n)'
    <2>1. CASE n = m
      BY <2>1
    <2>2. CASE n # m
      <3>1. Unforced(n) /\ Keeps(n)
        BY <2>2 DEF JustInv, OthersKeep
      <3>2. QED
        BY <3>1, KeepsFine
    <2>3. QED
      BY <2>1, <2>2
  <1>2. ASSUME NEW n \in Node, n \notin Settable \cup Ringed \cup Nodes(uq') PROVE Fine(n)'
    <2>1. CASE n = m
      BY <1>2, <2>1
    <2>2. CASE n # m
      <3>1. Fine(n) /\ Keeps(n)
        BY <1>2, <2>2 DEF JustInv, OthersKeep
      <3>2. QED
        BY <3>1, KeepsFine
    <2>3. QED
      BY <2>1, <2>2
  <1>3. \A n \in Node \ Settable : Unforced(n)'
    BY <1>1
  <1>4. \A n \in Node \ (Settable \cup Ringed \cup Nodes(uq')) : Fine(n)'
    BY <1>2
  <1>5. QED
    BY <1>3, <1>4 DEF JustInv

\* A step that leaves all nodes alone.
LEMMA NoneMoves ==
    ASSUME JustInv, stage' \notin {"load", "lock"}, frozen' \subseteq Settable,
           Blocks(uq', Ringed), Nodes(uq) \subseteq Nodes(uq'), \A n \in Node : Keeps(n)
    PROVE  JustInv'
  <1>1. ASSUME NEW n \in Node \ Settable PROVE Unforced(n)'
    BY KeepsFine DEF JustInv
  <1>2. ASSUME NEW n \in Node \ (Settable \cup Ringed \cup Nodes(uq')) PROVE Fine(n)'
    BY KeepsFine DEF JustInv
  <1>3. QED
    BY <1>1, <1>2 DEF JustInv

LEMMA QuietJust ==
    ASSUME JustInv, stage' \notin {"load", "lock"},
           UNCHANGED <<pool, pending, value, frozen, fanin, uq>>
    PROVE  JustInv'
  <1>1. \A n \in Node : Keeps(n)
    BY DEF Keeps, SameEvent
  <1>2. QED
    BY <1>1, NoneMoves DEF JustInv

-----------------------------------------------------------------------------
(* Every step keeps the verdicts.                                            *)

\* The events of all nodes but m, and nothing else, are what they were.
LEMMA EventMoves ==
    ASSUME NEW m, OthersSame(m), UNCHANGED <<value, fanin>>
    PROVE  OthersKeep(m)
  BY DEF OthersSame, OthersKeep, Keeps

LEMMA UnsetJust ==
    ASSUME ~weak_rules_enabled, Structures, JustInv, stage = "idle", uq = <<>>,
           NEW n \in Node, NEW d, Unset(n, d)
    PROVE  JustInv'
  <1> DEFINE p == PullsOf(fanin[n])
             v == IF pull_up_wins_any(p) THEN LOGIC_HIGH
                  ELSE IF pull_dn_wins_any(p) THEN LOGIC_LOW ELSE LOGIC_OTHER
             w == weak_wins_any(p)
  <1>1. /\ UNCHANGED <<value, fanin, uq, stage>>
        /\ frozen' \subseteq Settable
        /\ UnsetNode(n, v, w, d)
    BY DEF Unset, UnsetNode, engineVars, JustInv
  <1>2. weak_rules_off(p)
    BY PullsOfWeakOff
  <1>3. PullValue(p, value[n]) = v \/ v = LOGIC_OTHER
    BY <1>2, WinnerIsPulled
  <1>4. ASSUME pending'[n] # 0, pool'[pending'[n]].val = v, ~pool'[pending'[n]].forced,
               OthersSame(n)
        PROVE  JustInv'
    <2>1. Fine(n)' /\ Unforced(n)'
      BY <1>1, <1>3, <1>4 DEF Fine, Justified, Content, Pulled, Unforced
    <2>2. QED
      BY <1>1, <1>4, <2>1, EventMoves, OneMoves, NodesEmpty
  <1>5. ASSUME UNCHANGED <<pool, pending>> PROVE JustInv'
    <2>1. \A m \in Node : Keeps(m)
      BY <1>1, <1>5 DEF Keeps, SameEvent
    <2>2. QED
      BY <1>1, <2>1, NoneMoves, NodesEmpty
  <1>6. \/ UNCHANGED pool
        \/ pending'[n] # 0 /\ pool'[pending'[n]].val = v /\ ~pool'[pending'[n]].forced
    BY DEF Unset
  <1>7. \/ UNCHANGED <<pool, pending>>
        \/ /\ pending[n] # 0
           /\ Rewrite(n, [pool[pending[n]] EXCEPT !.val = v, !.weak = w, !.forced = FALSE])
        \/ Schedule(n, NewEvent(n, v, 0, w, FALSE), now + d)
    BY <1>1 DEF UnsetNode, queueVars
  <1> HIDE DEF p, v, w
  <1>8. CASE UNCHANGED <<pool, pending>>
    BY <1>5, <1>8
  <1>9. CASE pending[n] # 0
             /\ Rewrite(n, [pool[pending[n]] EXCEPT !.val = v, !.weak = w, !.forced = FALSE])
    <2>1. UNCHANGED pending /\ OthersSame(n)
      BY <1>9, RewriteOthers DEF Rewrite
    <2>2. CASE UNCHANGED pool
      BY <1>5, <2>1, <2>2
    <2>3. CASE ~UNCHANGED pool
      BY <1>4, <1>6, <2>1, <2>3
    <2>4. QED
      BY <2>2, <2>3
  <1>10. CASE Schedule(n, NewEvent(n, v, 0, w, FALSE), now + d)
    <2>1. /\ pending'[n] # 0 /\ pool'[pending'[n]] = NewEvent(n, v, 0, w, FALSE)
          /\ OthersSame(n)
      BY <1>10, ScheduleOthers
    <2>2. pool'[pending'[n]].val = v /\ ~pool'[pending'[n]].forced
      BY <2>1 DEF NewEvent
    <2>3. QED
      BY <1>4, <2>1, <2>2
  <1>11. QED
    BY <1>7, <1>8, <1>9, <1>10

LEMMA CommandsJust ==
    ASSUME ~weak_rules_enabled, "checkpoint" \notin Session, Sound, Control, JustInv, Commands
    PROVE  JustInv'
  <1>0. /\ stage = "idle" /\ uq = <<>> /\ Structures /\ value \in [Node -> Value]
        /\ frozen \subseteq Settable /\ Settable \subseteq Node
    BY CircuitAssumption DEF Commands, Control, Tidy, Sound, StepTypeOK, JustInv
  \* A node the user decides on.
  <1>1. ASSUME NEW n \in Settable, OthersKeep(n), frozen' = frozen, uq' = uq,
               stage' \in {"idle", "evaluate"}
        PROVE  JustInv'
    BY <1>0, <1>1, OneMoves, NodesEmpty
  <1>2. ASSUME NEW n \in Settable, NEW v, NEW t, Set(n, v, t) PROVE JustInv'
    <2>1. OthersSame(n) /\ UNCHANGED <<value, fanin, frozen, uq, stage>>
      BY <1>0, <1>2, ScheduleOthers DEF Set, SetNode, engineVars, stepVars
    <2>2. QED
      BY <1>0, <1>1, <2>1, EventMoves
  <1>3. ASSUME NEW n \in Settable, NEW v, NEW t, SetForced(n, v, t) PROVE JustInv'
    <2>1. OthersSame(n) /\ UNCHANGED <<value, fanin, frozen, uq, stage>>
      BY <1>0, <1>3, ScheduleOthers DEF SetForced, SetNodeForced, engineVars, stepVars
    <2>2. QED
      BY <1>0, <1>1, <2>1, EventMoves
  <1>4. ASSUME NEW n \in Settable, Deschedule(n) PROVE JustInv'
    <2>1. OthersSame(n) /\ UNCHANGED <<value, fanin, frozen, uq, stage>>
      BY <1>0, <1>4, KillOthers DEF Deschedule, DescheduleEvent, engineVars, stepVars
    <2>2. QED
      BY <1>0, <1>1, <2>1, EventMoves
  <1>5. ASSUME NEW n \in Settable, Freeze(n) PROVE JustInv'
    <2>1. /\ UNCHANGED <<pool, pending, value, fanin, uq, stage>> /\ frozen' \subseteq Settable
      BY <1>0, <1>5 DEF Freeze, FreezeNode, engineVars, queueVars
    <2>2. \A m \in Node : Keeps(m)
      BY <2>1 DEF Keeps, SameEvent
    <2>3. QED
      BY <1>0, <2>1, <2>2, NoneMoves, NodesEmpty
  <1>6. ASSUME NEW n \in Node, NEW d, Unset(n, d) PROVE JustInv'
    BY <1>0, <1>6, UnsetJust
  <1>7. ASSUME NEW n \in Settable, NEW v, CommitNow(n, v) PROVE JustInv'
    <2>1. /\ UNCHANGED <<pool, pending, frozen, fanin, uq>> /\ stage' \in {"idle", "evaluate"}
      BY <1>0, <1>7 DEF CommitNow, SetNow, Begin, Refused, engineVars, queueVars
    <2>2. value' = value \/ value' = [value EXCEPT ![n] = v]
      BY <1>7 DEF CommitNow, SetNow
    <2>3. \A m \in Node : m # n => value'[m] = value[m]
      BY <1>0, <2>2
    <2>4. OthersKeep(n)
      BY <2>1, <2>3 DEF OthersKeep, Keeps, SameEvent
    <2>5. QED
      BY <1>1, <2>1, <2>4
  <1>8. ASSUME NEW t, NEW b, Reinitialize(t, b) PROVE JustInv'
    <2>1. /\ pending' = [n \in Node |-> 0] /\ value' = [n \in Node |-> LOGIC_OTHER]
          /\ frozen' = {} /\ UNCHANGED <<stage, uq>>
      BY <1>8 DEF Reinitialize, Initialize
    <2>2. \A n \in Node : Fine(n)' /\ Unforced(n)'
      BY <2>1 DEF Fine, Justified, Content, Unforced
    <2>3. QED
      BY <1>0, <2>1, <2>2, NodesEmpty DEF JustInv
  <1>9. ASSUME NEW b, CheckExcl(b) PROVE JustInv'
    BY <1>0, <1>9, QuietJust DEF CheckExcl, vars
  <1>10. QED
    BY <1>0, <1>2, <1>3, <1>4, <1>5, <1>6, <1>7, <1>8, <1>9 DEF Commands, Load

LEMMA DequeueJust ==
    ASSUME ~weak_rules_enabled, Sound, Control, JustInv, Dequeue
    PROVE  JustInv'
  <1>0. /\ stage = "idle" /\ uq = <<>> /\ Structures /\ value \in [Node -> Value]
        /\ frozen \subseteq Settable
    BY DEF Dequeue, Control, Tidy, Sound, StepTypeOK, JustInv
  <1>1. ASSUME \A n \in Node : SameEvent(n), UNCHANGED <<value, frozen, fanin, stage, uq>>
        PROVE  JustInv'
    <2>1. \A n \in Node : Keeps(n)
      BY <1>1 DEF Keeps
    <2>2. QED
      BY <1>0, <1>1, <2>1, NoneMoves, NodesEmpty
  <1>2. ASSUME Nothing PROVE JustInv'
    <2>1. /\ NoneLive /\ pool' = PoolWithout(QueuedUpTo(Len(queue)))
          /\ UNCHANGED <<pending, value, frozen, fanin, stage, uq>>
      BY <1>2 DEF Nothing, StepNothing, engineVars
    <2>2. QED
      BY <1>0, <1>1, <2>1, NoneLiveOthers, FreeOthers
  <1>3. ASSUME NEW k \in DOMAIN queue, StepVacuous(k), UNCHANGED engineVars PROVE JustInv'
    <2>1. /\ FirstLive(k) /\ pool' = PoolWithout(QueuedUpTo(k - 1))
          /\ UNCHANGED <<pending, value, frozen, fanin, stage, uq>>
      BY <1>3 DEF StepVacuous, Executing, engineVars
    <2>2. QED
      BY <1>0, <1>1, <2>1, FrontFacts, FreeOthers
  <1>4. ASSUME NEW k \in DOMAIN queue, Refuse(k) PROVE JustInv'
    <2>1. /\ FirstLive(k) /\ pool' = PoolWithout(QueuedUpTo(k - 1))
          /\ UNCHANGED <<pending, value, frozen, fanin, stage, uq>>
      BY <1>4 DEF Refuse, StepExclRefused, Executing, Refused
    <2>2. QED
      BY <1>0, <1>1, <2>1, FrontFacts, FreeOthers
  <1>5. ASSUME NEW k \in DOMAIN queue, StepXX(k), UNCHANGED engineVars PROVE JustInv'
    <2>0. PICK m : m = pool[queue[k].ev].node
      OBVIOUS
    <2>1. /\ FirstLive(k) /\ Settle(k) /\ value[m] = LOGIC_OTHER
          /\ UNCHANGED <<value, frozen, fanin, stage, uq>>
      BY <1>5, <2>0 DEF StepXX, Executing, engineVars
    <2>2. m \in Node /\ pending'[m] = 0 /\ OthersSame(m)
      BY <1>0, <2>0, <2>1, SettleOthers
    <2>3. Fine(m)' /\ Unforced(m)'
      BY <2>1, <2>2 DEF Fine, Justified, Content, Unforced
    <2>4. QED
      BY <1>0, <2>1, <2>2, <2>3, EventMoves, OneMoves, NodesEmpty
  <1>6. ASSUME NEW k \in DOMAIN queue, Commit(k) PROVE JustInv'
    <2> DEFINE e == pool[queue[k].ev]
    <2>0. PICK m : m = e.node
      OBVIOUS
    <2>1. /\ FirstLive(k) /\ Settle(k) /\ pending[m] = queue[k].ev
          /\ value' = [value EXCEPT ![m] = e.val] /\ stage' = "evaluate"
          /\ UNCHANGED <<frozen, fanin, uq>>
      BY <1>6, <2>0 DEF Commit, StepCommit, Executing, Begin
    <2>2. m \in Node /\ pending'[m] = 0 /\ OthersSame(m)
      BY <1>0, <2>0, <2>1, SettleOthers
    <2>3. pool[pending[m]] = e /\ pending[m] # 0 /\ e.val \in Value
      BY <1>0, <2>1, FrontFacts DEF Event, EventId
    <2> HIDE DEF e
    <2>4. value'[m] = e.val /\ \A n \in Node : n # m => value'[n] = value[n]
      BY <1>0, <2>1, <2>2
    <2>5. OthersKeep(m)
      BY <2>1, <2>2, <2>4 DEF OthersKeep, OthersSame, Keeps
    <2>6. Unforced(m)' /\ Justified(m)'
      BY <2>2 DEF Unforced, Justified
    <2>7. ASSUME m \notin Settable \cup Ringed, e.val # LOGIC_OTHER
          PROVE  PullValue(PullsOf(fanin[m]), e.val) = e.val
      <3>1. Justified(m)
        BY <1>0, <2>2, <2>7, NodesEmpty DEF JustInv, Fine
      <3>2. PullValue(PullsOf(fanin[m]), value[m]) = e.val
        BY <2>3, <2>7, <3>1 DEF Justified, Pulled
      <3>3. e.val \in {LOGIC_LOW, LOGIC_HIGH}
        BY <2>3, <2>7 DEF Value
      <3>4. QED
        BY <3>2, <3>3, PullStays
    <2>8. m \notin Settable \cup Ringed => Content(m)'
      BY <2>1, <2>4, <2>7 DEF Content, Pulled
    <2>9. QED
      BY <1>0, <2>1, <2>5, <2>6, <2>8, OneMoves, NodesEmpty DEF Fine
  <1>7. QED
    BY <1>2, <1>3, <1>4, <1>5, <1>6 DEF Dequeue, Skip

\* A rule that does not change the pull of its group, or is weak where weak
\* rules do not count, does not change the pulls of its node.
LEMMA PullsUnchanged ==
    ASSUME CounterTypeOK, NEW m \in Node, NEW g \in Group, NEW c \in Counter,
           \/ or_pull(c) = or_pull(fanin[m][g])
           \/ IsWeak(g) /\ ~weak_rules_enabled
    PROVE  PullsOf([fanin[m] EXCEPT ![g] = c]) = PullsOf(fanin[m])
  <1> DEFINE f == [fanin[m] EXCEPT ![g] = c]
  <1>1. fanin[m] \in [Group -> Counter]
    BY DEF CounterTypeOK
  <1>2. \A h \in Group : f[h] = IF h = g THEN c ELSE fanin[m][h]
    BY <1>1
  <1> HIDE DEF f
  <1>3. \A h \in Group : \/ or_pull(f[h]) = or_pull(fanin[m][h])
                         \/ h \in {"wup", "wdn"} /\ ~weak_rules_enabled
    BY <1>2 DEF IsWeak
  <1>4. or_pull(f["up"]) = or_pull(fanin[m]["up"]) /\ or_pull(f["dn"]) = or_pull(fanin[m]["dn"])
    BY <1>3 DEF Group
  <1>5. weak_rules_enabled => /\ or_pull(f["wup"]) = or_pull(fanin[m]["wup"])
                              /\ or_pull(f["wdn"]) = or_pull(fanin[m]["wdn"])
    BY <1>3 DEF Group
  <1>6. PullsOf(f) = PullsOf(fanin[m])
    BY <1>4, <1>5 DEF PullsOf
  <1>7. QED
    BY <1>6 DEF f

LEMMA EvaluateRootJust ==
    ASSUME ~weak_rules_enabled, Sound, Control, CountersInv, JustInv, EvaluateRoot
    PROVE  JustInv'
  <1>0. /\ ControlTypeOK /\ CounterTypeOK /\ fanin \in [Node -> [Group -> Counter]]
        /\ Root # 0 /\ UNCHANGED stage
    BY DEF Control, CountersInv, CounterTypeOK, EvaluateRoot
  <1>1. PICK m : m = RootNode
    OBVIOUS
  <1>2. PICK g : g = RootGroup
    OBVIOUS
  <1> DEFINE c == Count(fanin[m][g], PULL_ON, climb.prev, climb.next)
  <1>3. m \in Node /\ g \in Group
    BY <1>0, <1>1, <1>2, RuleFacts DEF ControlTypeOK, Climb, Root, RootNode, RootGroup
  <1>4. c \in Counter
    <2>1. fanin[m][g] \in Counter
      BY <1>0, <1>3
    <2>2. QED
      BY <2>1, TallyCount
  <1>5. RootFanin = [fanin[m] EXCEPT ![g] = c]
    BY <1>1, <1>2 DEF RootFanin
  <1>6. RootFanin[g] = c
    BY <1>0, <1>3, <1>5
  <1> HIDE DEF c
  <1>7. fanin' = [fanin EXCEPT ![m] = RootFanin]
    BY <1>1 DEF EvaluateRoot
  <1>8. fanin'[m] = RootFanin /\ \A n \in Node : n # m => fanin'[n] = fanin[n]
    BY <1>0, <1>3, <1>7
  <1>9. UNCHANGED vars
    BY DEF EvaluateRoot, Overtakes
  <1>10. UNCHANGED <<pool, pending, value, frozen>>
    BY <1>9 DEF vars
  <1>11. OthersKeep(m)
    BY <1>8, <1>10 DEF OthersKeep, Keeps, SameEvent
  <1>12. m \notin Settable => Unforced(m)'
    BY <1>3, <1>10 DEF JustInv, Unforced
  <1>13. CASE stage = "load" \/ RootUnchanged \/ Suppressed
    <2>1. uq' = uq
      BY <1>13 DEF EvaluateRoot
    <2>2. m \in Settable \/ or_pull(c) = or_pull(fanin[m][g]) \/ IsWeak(g)
      BY <1>1, <1>2, <1>6, <1>13 DEF RootUnchanged, Suppressed, JustInv
    <2>3. m \notin Settable => Keeps(m)
      <3>1. m \notin Settable => PullsOf(RootFanin) = PullsOf(fanin[m])
        BY <1>0, <1>3, <1>4, <1>5, <2>2, PullsUnchanged
      <3>2. QED
        BY <1>8, <1>10, <3>1 DEF Keeps, SameEvent
    <2>4. m \notin Settable \cup Ringed \cup Nodes(uq') => Fine(m)'
      BY <1>3, <2>1, <2>3, KeepsFine DEF JustInv
    <2>5. QED
      BY <1>0, <1>10, <1>11, <1>12, <2>1, <2>4, OneMoves DEF JustInv
  <1>14. CASE ~(stage = "load" \/ RootUnchanged \/ Suppressed)
    <2>1. Enlist
      BY <1>14 DEF EvaluateRoot
    <2>2. Nodes(uq') = Nodes(uq) \cup {m} /\ Blocks(uq', Ringed)
      BY <1>0, <1>1, <2>1, EnlistNodes DEF JustInv
    <2>3. QED
      BY <1>0, <1>10, <1>11, <1>12, <2>2, OneMoves DEF JustInv
  <1>15. QED
    BY <1>13, <1>14

LEMMA FlushJust ==
    ASSUME ~weak_rules_enabled, Sound, Control, JustInv, NEW d, Flush(d)
    PROVE  JustInv'
  <1>0. /\ uq \in Seq(Entry) /\ uq # <<>> /\ uq' = Tail(uq) /\ Structures
        /\ frozen \subseteq Settable /\ UNCHANGED <<fanin, stage>>
    BY DEF Control, ControlTypeOK, Flush, Sound, JustInv
  <1>1. PICK n : n = First.node
    OBVIOUS
  <1>2. n \in Node /\ Nodes(uq) = Nodes(uq') \cup {n}
    BY <1>0, <1>1, HeadTailNodes DEF First
  <1>3. Blocks(uq', Ringed) /\ (First.blocked => n \in Ringed)
    <2>1. \A j \in DOMAIN uq' : \E i \in DOMAIN uq : uq'[j] = uq[i]
      BY <1>0, HeadTailNodes
    <2>2. \E i \in DOMAIN uq : First = uq[i]
      <3>1. Len(uq) \in Nat /\ DOMAIN uq = 1..Len(uq) /\ Len(uq) # 0 /\ Head(uq) = uq[1]
        BY <1>0, UqFacts, EmptySeq, HeadTailProperties
      <3>2. 1 \in DOMAIN uq
        BY <3>1
      <3>3. QED
        BY <3>1, <3>2 DEF First
    <2>3. QED
      BY <1>1, <2>1, <2>2 DEF JustInv, Blocks
  <1> DEFINE p == FlushPulls
             e == pool[pending[n]]
  <1>4. p \in PullSet /\ weak_rules_off(p)
    BY FlushPullsFacts
  <1>5. n \notin Ringed => p = PullsOf(fanin[n])
    BY <1>1, <1>3 DEF FlushPulls
  <1>6. n \notin Ringed => FlushValue = Pulled(n)
    BY <1>1, <1>5 DEF FlushValue, Pulled
  <1>7. n \notin Settable => Unforced(n)
    BY <1>2 DEF JustInv
  <1>8. ASSUME OthersSame(n), UNCHANGED <<value, frozen>>, n \notin Settable => Unforced(n)',
               n \notin Settable \cup Ringed => Fine(n)'
        PROVE  JustInv'
    <2>1. OthersKeep(n)
      BY <1>0, <1>8, EventMoves
    <2>2. n \notin Settable \cup Ringed \cup Nodes(uq') => Fine(n)'
      BY <1>8
    <2>3. Nodes(uq) \subseteq Nodes(uq') \cup {n}
      BY <1>2
    <2>4. frozen' \subseteq Settable /\ stage' \notin {"load", "lock"}
      BY <1>0, <1>8 DEF JustInv
    <2>5. QED
      BY <1>3, <1>8, <2>1, <2>2, <2>3, <2>4, OneMoves
  <1> DEFINE new == Verdict = "replace" /\ FlushValue # value[n]
             gone == Verdict = "kill" \/ (Verdict = "replace" /\ ~new /\ pending[n] # 0)
  <1> HIDE DEF p, e
  <1>9. CASE new
    <2>1. FlushSchedule(n, FlushValue, First.rule, FlushWeak, d)
      BY <1>1, <1>9 DEF Flush
    <2>2. /\ UNCHANGED <<value, frozen>>
          /\ pending'[n] # 0 /\ OthersSame(n)
          /\ pool'[pending'[n]] = NewEvent(n, FlushValue, First.rule, FlushWeak, FALSE)
      BY <1>0, <1>2, <2>1, ScheduleOthers DEF FlushSchedule
    <2>3. pool'[pending'[n]].val = FlushValue /\ ~pool'[pending'[n]].forced
      BY <2>2 DEF NewEvent
    <2>4. Unforced(n)' /\ Content(n)'
      BY <2>2, <2>3 DEF Unforced, Content
    <2>5. n \notin Ringed => Justified(n)'
      BY <1>0, <1>6, <2>2, <2>3 DEF Justified, Pulled
    <2>6. QED
      BY <1>8, <2>2, <2>4, <2>5 DEF Fine
  <1>10. CASE ~new /\ gone
    <2>1. FlushKill(n)
      BY <1>1, <1>10 DEF Flush
    <2>2. pending'[n] = 0 /\ OthersSame(n) /\ UNCHANGED <<value, frozen>>
      BY <1>0, <1>2, <2>1, KillOthers DEF FlushKill
    <2>3. Unforced(n)' /\ Justified(n)'
      BY <2>2 DEF Unforced, Justified
    <2>4. n \notin Ringed => Content(n)'
      <3>1. CASE Verdict = "kill"
        <4>1. value[n] = LOGIC_OTHER
          BY <1>1, <3>1 DEF Verdict
        <4>2. QED
          BY <2>2, <4>1 DEF Content
      <3>2. CASE Verdict # "kill"
        BY <1>0, <1>6, <1>10, <2>2, <3>2 DEF Content, Pulled
      <3>3. QED
        BY <3>1, <3>2
    <2>5. QED
      BY <1>8, <2>2, <2>3, <2>4 DEF Fine
  <1>11. CASE ~new /\ ~gone /\ Verdict = "overwrite"
    <2>1. PICK w : FlushOverwrite(n, w)
      BY <1>1, <1>11 DEF Flush
    <2>2. /\ pending[n] # 0 /\ UNCHANGED <<value, frozen>>
          /\ Rewrite(n, [pool[pending[n]] EXCEPT !.val = LOGIC_OTHER, !.weak = w])
      BY <2>1 DEF FlushOverwrite
    <2>3. /\ pending'[n] = pending[n] /\ OthersSame(n)
          /\ pool'[pending[n]] = [pool[pending[n]] EXCEPT !.val = LOGIC_OTHER, !.weak = w]
      BY <1>0, <1>2, <2>2, RewriteOthers
    <2>4. pool[pending[n]] \in Event
      BY <1>0, <1>2, <2>2, PendingSound
    <2>5. pool'[pending'[n]].val = LOGIC_OTHER /\ pool'[pending'[n]].forced = pool[pending[n]].forced
      BY <2>3, <2>4 DEF Event
    <2>6. Justified(n)' /\ Content(n)'
      BY <2>2, <2>3, <2>5 DEF Justified, Content
    <2>7. n \notin Settable => Unforced(n)'
      BY <1>7, <2>3, <2>5 DEF Unforced
    <2>8. QED
      BY <1>8, <2>2, <2>3, <2>6, <2>7 DEF Fine
  <1>12. CASE ~new /\ ~gone /\ Verdict # "overwrite"
    <2>1. UNCHANGED <<pool, pending, value, frozen>>
      BY <1>1, <1>12 DEF Flush, vars
    <2>2. OthersSame(n)
      BY <2>1 DEF OthersSame, SameEvent
    <2>3. n \notin Settable => Unforced(n)'
      BY <1>7, <2>1 DEF Unforced
    <2>4. n \notin Ringed => Content(n)'
      <3>1. CASE pending[n] = 0
        <4>1. FlushValue = value[n]
          BY <1>1, <1>12, <3>1 DEF Verdict
        <4>2. QED
          BY <1>0, <1>6, <2>1, <4>1 DEF Content, Pulled
      <3>2. CASE pending[n] # 0
        BY <2>1, <3>2 DEF Content
      <3>3. QED
        BY <3>1, <3>2
    <2>5. n \notin Settable \cup Ringed => Justified(n)'
      <3> SUFFICES ASSUME n \notin Settable \cup Ringed, pending[n] # 0, e.val # LOGIC_OTHER
                   PROVE  Pulled(n) = e.val
        BY <1>0, <2>1 DEF Justified, Pulled, e
      <3>1. ~e.forced /\ e.val \in {LOGIC_LOW, LOGIC_HIGH}
        <4>1. e \in Event
          BY <1>0, <1>2, PendingSound DEF e
        <4>2. QED
          BY <1>7, <4>1 DEF Unforced, Event, Value, e
      <3>2. ~have_interference(p) /\ ~Instability(e)
        BY <1>1, <1>12, <3>1 DEF Verdict, p, e
      <3>3. /\ e.val = LOGIC_LOW => pulling_dn(p)
            /\ e.val = LOGIC_HIGH => pulling_up(p)
        BY <3>2 DEF Instability, p
      <3>4. PullValue(p, value[n]) = e.val
        BY <1>4, <3>1, <3>2, <3>3, StableIsPulled
      <3>5. QED
        BY <1>5, <3>4 DEF Pulled
    <2>6. QED
      BY <1>8, <2>1, <2>2, <2>3, <2>4, <2>5 DEF Fine
  <1>13. QED
    BY <1>9, <1>10, <1>11, <1>12

LEMMA ReturnJust ==
    ASSUME Sound, Control, JustInv, Benign => held = <<>>, Return
    PROVE  JustInv'
  <1>0. /\ Structures /\ uq' = uq /\ stage' = "idle"
        /\ UNCHANGED <<value, frozen, fanin>>
    BY DEF Sound, Return, StepReturn
  <1>1. CASE held = <<>>
    BY <1>0, <1>1, QuietJust DEF Return, StepReturn
  <1>2. CASE held # <<>>
    <2>1. PICK m : m = held[Len(held)].node
      OBVIOUS
    <2>2. pending'[m] = 0 /\ OthersSame(m)
      BY <1>0, <1>2, <2>1, ReturnOthers DEF Return, StepReturn
    <2>3. Unforced(m)' /\ Fine(m)'
      BY <1>2, <2>2 DEF Unforced, Fine, Justified
    <2>4. QED
      BY <1>0, <2>2, <2>3, EventMoves, OneMoves DEF JustInv
  <1>3. QED
    BY <1>1, <1>2

LEMMA JustStep ==
    ASSUME ~weak_rules_enabled, "checkpoint" \notin Session, Sound, Control, CountersInv,
           Benign => held = <<>>, JustInv, [EngineNext]_allVars
    PROVE  JustInv'
  <1>1. CASE Commands
    BY <1>1, CommandsJust
  <1>2. CASE Dequeue
    BY <1>2, DequeueJust
  <1>3. ASSUME NEW i, EvaluateNext(i) PROVE JustInv'
    BY <1>3, QuietJust DEF EvaluateNext, vars, JustInv
  <1>4. CASE EvaluateExpr
    BY <1>4, QuietJust DEF EvaluateExpr, vars, JustInv
  <1>5. CASE EvaluateRoot
    BY <1>5, EvaluateRootJust
  <1>6. CASE Enforce
    <2>1. Joins(uq, uq', Ringed)
      BY <1>6, EnforceNodes DEF Control
    <2>2. UNCHANGED <<pool, pending, value, frozen, fanin>> /\ stage' = "flush"
      BY <1>6 DEF Enforce, vars
    <2>3. \A n \in Node : Keeps(n)
      BY <2>2 DEF Keeps, SameEvent
    <2>4. QED
      BY <2>1, <2>2, <2>3, NoneMoves DEF JustInv, Joins
  <1>7. ASSUME NEW d, Flush(d) PROVE JustInv'
    BY <1>7, FlushJust
  <1>8. CASE Return
    BY <1>8, ReturnJust
  <1>9. CASE UNCHANGED allVars
    BY <1>9, QuietJust DEF allVars, vars, engineVars, JustInv
  <1>10. QED
    BY <1>1, <1>2, <1>3, <1>4, <1>5, <1>6, <1>7, <1>8, <1>9
    DEF EngineNext, Engine, LoadNode, LoadEvents, LoadLock, LoadDone, JustInv

LEMMA AlwaysJust ==
    ASSUME ~weak_rules_enabled, "checkpoint" \notin Session
    PROVE  EngineSpec => []JustInv
  <1>1. EngineInit => JustInv
    <2> SUFFICES ASSUME EngineInit PROVE JustInv
      OBVIOUS
    <2>1. /\ pending = [n \in Node |-> 0] /\ value = [n \in Node |-> LOGIC_OTHER]
          /\ frozen = {} /\ stage = "idle" /\ uq = <<>>
      BY DEF EngineInit, Init
    <2>2. \A n \in Node : Fine(n) /\ Unforced(n)
      BY <2>1 DEF Fine, Justified, Content, Unforced
    <2>3. QED
      BY <2>1, <2>2, NodesEmpty DEF JustInv
  <1>2. EngineSpec => [](Benign => held = <<>>)
    <2>1. CASE Benign
      <3>1. Inv => (Benign => held = <<>>)
        BY DEF Inv
      <3>2. Spec => []Inv
        BY <2>1, Invariant
      <3>3. EngineSpec => Spec
        BY EngineImplementsEvents DEF ImplementsEvents
      <3>4. QED
        BY <3>1, <3>2, <3>3, PTL
    <2>2. CASE ~Benign
      <3>1. Benign => held = <<>>
        BY <2>2
      <3>2. QED
        BY <3>1, PTL
    <2>3. QED
      BY <2>1, <2>2
  <1>3. Sound /\ Control /\ CountersInv /\ (Benign => held = <<>>) /\ JustInv
          /\ [EngineNext]_allVars => JustInv'
    BY JustStep
  <1>4. QED
    BY <1>1, <1>2, <1>3, EngineInvariant, CountersAlwaysHold, PTL DEF EngineSpec

\* No event of a rule-driven node outlives its reason, in every circuit
\* without weak rules, session and order of evaluation: a pending change to 0
\* or 1 is what flush_updated_nodes would decide now.  (A ring may hold a node
\* back from where its rules pull it; and a checkpoint is loaded without
\* asking whether its events fit its values.)
THEOREM EventsAlwaysJustified ==
    ASSUME ~weak_rules_enabled, Ringed \subseteq Settable, "checkpoint" \notin Session
    PROVE  EngineSpec => []EventsJustified
  <1>1. Control /\ JustInv => EventsJustified
    <2> SUFFICES ASSUME Control, JustInv, stage = "idle", NEW n \in Node, RuleDriven(n),
                        pending[n] # 0, pool[pending[n]].val # LOGIC_OTHER
                 PROVE  PullValue(PullsOf(fanin[n]), value[n]) = pool[pending[n]].val
      BY DEF EventsJustified
    <2>1. n \notin Settable \cup Ringed \cup Nodes(uq)
      BY NodesEmpty DEF Control, Tidy, RuleDriven
    <2>2. Justified(n)
      BY <2>1 DEF JustInv, Fine
    <2>3. QED
      BY <2>2 DEF Justified, Pulled
  <1>2. QED
    BY <1>1, AlwaysJust, EngineInvariant, PTL

\* No change is missed, under the same provisions and in sessions that do not
\* skip vacuous events: a rule-driven node that is 0 or 1 without an event is
\* where its rules pull it.
THEOREM NoChangeEverMissed ==
    ASSUME ~weak_rules_enabled, Ringed \subseteq Settable, "checkpoint" \notin Session, Benign
    PROVE  EngineSpec => []NoChangeMissed
  <1>1. Control /\ JustInv => NoChangeMissed
    <2> SUFFICES ASSUME Control, JustInv, stage = "idle", NEW n \in Node, RuleDriven(n),
                        pending[n] = 0, value[n] # LOGIC_OTHER
                 PROVE  PullValue(PullsOf(fanin[n]), value[n]) = value[n]
      BY DEF NoChangeMissed
    <2>1. n \notin Settable \cup Ringed \cup Nodes(uq)
      BY NodesEmpty DEF Control, Tidy, RuleDriven
    <2>2. Content(n)
      BY <2>1 DEF JustInv, Fine
    <2>3. QED
      BY <2>2 DEF Content, Pulled
  <1>2. QED
    BY <1>1, AlwaysJust, EngineInvariant, PTL
-----------------------------------------------------------------------------
(* Unstable events.                                                          *)

\* The nodes that flush_updated_nodes may come to look at.
Flushable == {Expr[r].parent : r \in Rule} \cup Ringed

ListedInv == Nodes(uq) \subseteq Flushable

LEMMA ListedStep ==
    ASSUME Control, ListedInv, [EngineNext]_allVars
    PROVE  ListedInv'
  <1>0. ControlTypeOK
    BY DEF Control
  <1>1. ASSUME uq' = uq \/ uq' = <<>> PROVE ListedInv'
    BY <1>1, NodesEmpty DEF ListedInv
  <1>2. ASSUME Commands PROVE ListedInv'
    <2>1. ASSUME NEW s, NEW b, Reinitialize(s, b) PROVE ListedInv'
      BY <1>1, <2>1 DEF Reinitialize
    <2>2. ASSUME NEW n, NEW v, CommitNow(n, v) PROVE ListedInv'
      BY <1>1, <2>2 DEF CommitNow, SetNow, Begin, Refused, engineVars
    <2>3. ASSUME NEW n, NEW d, Unset(n, d) PROVE ListedInv'
      BY <1>1, <2>3 DEF Unset, engineVars
    <2>4. ASSUME NEW c, CheckExcl(c) PROVE ListedInv'
      BY <1>1, <2>4 DEF CheckExcl
    <2>5. ASSUME Load PROVE ListedInv'
      BY <1>1, <2>5 DEF Load
    <2>6. ASSUME NEW n, \/ Deschedule(n) \/ Freeze(n)
                        \/ \E v, t : Set(n, v, t) \/ SetForced(n, v, t)
          PROVE  ListedInv'
      BY <1>1, <2>6 DEF Deschedule, Freeze, Set, SetForced, engineVars
    <2>7. QED
      BY <1>2, <2>1, <2>2, <2>3, <2>4, <2>5, <2>6 DEF Commands
  <1>3. ASSUME Dequeue PROVE ListedInv'
    BY <1>1, <1>3 DEF Dequeue, Nothing, Skip, Refuse, Refused, Commit, Begin, engineVars
  <1>4. ASSUME EvaluateRoot PROVE ListedInv'
    <2>1. Root \in Rule /\ RootNode \in Flushable
      BY <1>0, <1>4 DEF EvaluateRoot, ControlTypeOK, Climb, Root, RootNode, Flushable
    <2>2. CASE stage = "load" \/ RootUnchanged \/ Suppressed
      BY <1>1, <1>4, <2>2 DEF EvaluateRoot
    <2>3. CASE ~(stage = "load" \/ RootUnchanged \/ Suppressed)
      <3>1. Root # 0 /\ Enlist
        BY <1>4, <2>3 DEF EvaluateRoot
      <3>2. Nodes(uq') = Nodes(uq) \cup {RootNode}
        BY <1>0, <3>1, EnlistNodes
      <3>3. QED
        BY <2>1, <3>2 DEF ListedInv
    <2>4. QED
      BY <2>2, <2>3
  <1>5. ASSUME Enforce PROVE ListedInv'
    <2>1. Nodes(uq') \subseteq Nodes(uq) \cup Ringed
      BY <1>0, <1>5, EnforceNodes DEF Joins
    <2>2. QED
      BY <2>1 DEF ListedInv, Flushable
  <1>6. ASSUME NEW d, Flush(d) PROVE ListedInv'
    <2>1. uq # <<>> /\ uq' = Tail(uq)
      BY <1>6 DEF Flush
    <2>2. Nodes(uq') \subseteq Nodes(uq)
      BY <1>0, <2>1, HeadTailNodes DEF ControlTypeOK
    <2>3. QED
      BY <2>2 DEF ListedInv
  <1>7. CASE UNCHANGED allVars
    BY <1>1, <1>7 DEF allVars, engineVars
  <1>8. ASSUME Engine PROVE ListedInv'
    BY <1>1, <1>3, <1>4, <1>5, <1>6, <1>8 DEF Engine, EvaluateNext, EvaluateExpr, Return,
        LoadNode, LoadEvents, LoadLock, LoadDone
  <1>9. QED
    BY <1>2, <1>7, <1>8 DEF EngineNext

\* A pull that is gone leaves a node at the value it has, or at another one.
LEMMA UnpulledHolds ==
    ASSUME NEW p \in PullSet, ~have_interference(p), NEW old,
           NEW v \in {LOGIC_LOW, LOGIC_HIGH}, PullValue(p, old) = v,
           v = LOGIC_LOW => ~pulling_dn(p), v = LOGIC_HIGH => ~pulling_up(p)
    PROVE  old = v
  <1>1. p.up \in Pull /\ p.dn \in Pull /\ p.wup \in Pull /\ p.wdn \in Pull
    BY DEF PullSet
  <1>2. QED
    BY <1>1 DEF PullValue, pulling_up, pulling_dn, pull_up_wins_any, pull_dn_wins_any,
        LOGIC_LOW, LOGIC_HIGH

\* The assertion of flush_updated_nodes that an unstable event is for another
\* value than the one the node is pulled to never fails: a node that nothing
\* pulls holds its value, and no event is for the value the node has.  Only
\* unset, and setf on a node that is flushed, make events that are.  (With
\* setf, weak rules and checkpoints are left out, as for AlwaysJust.)
THEOREM UnstableAlwaysMeansChange ==
    ASSUME Benign, "unset" \notin Session,
           "setf" \in Session => /\ ~weak_rules_enabled
                                 /\ "checkpoint" \notin Session
                                 /\ Settable \cap Flushable = {}
    PROVE  EngineSpec => []UnstableMeansChange
  <1>1. EngineSpec => []ListedInv
    <2>1. EngineInit => ListedInv
      BY NodesEmpty DEF EngineInit, ListedInv
    <2>2. Control /\ ListedInv /\ [EngineNext]_allVars => ListedInv'
      BY ListedStep
    <2>3. QED
      BY <2>1, <2>2, EngineInvariant, PTL DEF EngineSpec
  <1>2. EngineSpec => []Inv
    BY Invariant, EngineImplementsEvents, PTL DEF ImplementsEvents
  <1>3. EngineSpec => []("setf" \in Session => JustInv)
    <2>1. CASE "setf" \in Session
      <3>1. EngineSpec => []JustInv
        BY <2>1, AlwaysJust
      <3>2. JustInv => ("setf" \in Session => JustInv)
        OBVIOUS
      <3>3. QED
        BY <3>1, <3>2, PTL
    <2>2. CASE "setf" \notin Session
      <3>1. "setf" \in Session => JustInv
        BY <2>2
      <3>2. QED
        BY <3>1, PTL
    <2>3. QED
      BY <2>1, <2>2
  <1>4. ASSUME Control, Inv, ListedInv, "setf" \in Session => JustInv
        PROVE  UnstableMeansChange
    <2> SUFFICES ASSUME uq # <<>>, pending[First.node] # 0, ~have_interference(FlushPulls),
                        Instability(pool[pending[First.node]]),
                        FlushValue = pool[pending[First.node]].val
                 PROVE  FALSE
      BY DEF UnstableMeansChange
    <2> DEFINE n == First.node
               e == pool[pending[n]]
    <2>1. n \in Node /\ n \in Flushable
      BY <1>4, HeadTailNodes DEF First, Control, ControlTypeOK, ListedInv
    <2>2. pending[n] \in EventId /\ Live(pending[n]) /\ e.node = n
      BY <1>4, <2>1 DEF Inv, QInv, QTypeOK, BackToEvent
    <2>3. ~e.forced
      <3>1. CASE "setf" \notin Session
        BY <1>4, <2>2, <3>1 DEF Inv, NonVacuous, WorthExecuting
      <3>2. CASE "setf" \in Session
        BY <1>4, <2>1, <3>2 DEF JustInv, Unforced
      <3>3. QED
        BY <3>1, <3>2
    <2>4. e.val # value[n] \/ e.val = LOGIC_OTHER
      BY <1>4, <2>2, <2>3 DEF Inv, NonVacuous, WorthExecuting
    <2>5. FlushPulls \in PullSet
      BY <1>4, <2>1, FlushPullsFacts
    <2>6. /\ e.val \in {LOGIC_LOW, LOGIC_HIGH}
          /\ e.val = LOGIC_LOW => ~pulling_dn(FlushPulls)
          /\ e.val = LOGIC_HIGH => ~pulling_up(FlushPulls)
      BY DEF Instability, LOGIC_LOW, LOGIC_HIGH
    <2>7. PullValue(FlushPulls, value[n]) = e.val
      BY DEF FlushValue
    <2>8. value[n] = e.val
      BY <2>5, <2>6, <2>7, UnpulledHolds
    <2>9. QED
      BY <2>4, <2>6, <2>8 DEF LOGIC_LOW, LOGIC_HIGH, LOGIC_OTHER
  <1>5. QED
    BY <1>1, <1>2, <1>3, <1>4, EngineInvariant, PTL

=============================================================================
