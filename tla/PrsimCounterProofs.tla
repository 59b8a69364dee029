------------------------- MODULE PrsimCounterProofs -------------------------
(***************************************************************************)
(* The counters of the evaluation engine.  evaluate_kernel and evaluate    *)
(* never recount: they add and subtract as a change climbs from the nodes  *)
(* to the rules.  Proved here, for every circuit, session and mode, is     *)
(* that the counters are nonetheless those a recount gives, also across    *)
(* initialize and the loading of a checkpoint; and likewise the counters   *)
(* of the forced exclusion rings and the locks of the checked ones.        *)
(***************************************************************************)
EXTENDS PrsimEngineProofs

-----------------------------------------------------------------------------
(* Counting.                                                                 *)

\* Two finite sets that differ in one element at most.
LEMMA OneElement ==
    ASSUME NEW A, NEW B, IsFiniteSet(A), IsFiniteSet(B), NEW a, A \ {a} = B \ {a}
    PROVE  /\ Cardinality(A) \in Nat /\ Cardinality(B) \in Nat
           /\ Cardinality(B) = Cardinality(A)
                + (IF a \in B THEN 1 ELSE 0) - (IF a \in A THEN 1 ELSE 0)
  <1>1. Cardinality(A) \in Nat /\ Cardinality(B) \in Nat
    BY FS_CardinalityType
  <1>2. Cardinality(A \ {a}) = IF a \in A THEN Cardinality(A) - 1 ELSE Cardinality(A)
    BY FS_RemoveElement
  <1>3. Cardinality(B \ {a}) = IF a \in B THEN Cardinality(B) - 1 ELSE Cardinality(B)
    BY FS_RemoveElement
  <1>4. QED
    BY <1>1, <1>2, <1>3

\* Sets with a one-to-one correspondence have the same cardinality.
LEMMA SameSize ==
    ASSUME NEW A, NEW B, IsFiniteSet(A), NEW g \in [A -> B],
           \A a, b \in A : g[a] = g[b] => a = b,
           \A b \in B : \E a \in A : g[a] = b
    PROVE  IsFiniteSet(B) /\ Cardinality(B) = Cardinality(A)
  <1>1. g \in Bijection(A, B)
    BY DEF Bijection, Injection, Surjection, IsInjective
  <1>2. QED
    BY <1>1, FS_Bijection DEF ExistsBijection

\* How often e occurs in the sequence s.
Occurs(s, e) == Cardinality({j \in DOMAIN s : s[j] = e})

LEMMA OccursType ==
    ASSUME NEW S, NEW s \in Seq(S), NEW e
    PROVE  Occurs(s, e) \in Nat /\ IsFiniteSet({j \in DOMAIN s : s[j] = e})
  <1>1. DOMAIN s = 1..Len(s) /\ Len(s) \in Nat
    BY LenProperties
  <1>2. IsFiniteSet(1..Len(s))
    BY <1>1, FS_Interval
  <1>3. {j \in DOMAIN s : s[j] = e} \in SUBSET (1..Len(s))
    BY <1>1
  <1>4. IsFiniteSet({j \in DOMAIN s : s[j] = e})
    BY <1>2, <1>3, FS_Subset
  <1>5. QED
    BY <1>4, FS_CardinalityType DEF Occurs

LEMMA OccursEmpty ==
    ASSUME NEW e
    PROVE  Occurs(<<>>, e) = 0
  <1>1. {j \in DOMAIN <<>> : <<>>[j] = e} = {}
    OBVIOUS
  <1>2. QED
    BY <1>1, FS_EmptySet DEF Occurs

\* Taking one element out of a sequence takes away one of its occurrences.
LEMMA OccursRemoveAt ==
    ASSUME NEW S, NEW s \in Seq(S), NEW i \in DOMAIN s, NEW e
    PROVE  Occurs(SeqExt!RemoveAt(s, i), e) =
                Occurs(s, e) - (IF s[i] = e THEN 1 ELSE 0)
  <1> DEFINE t == SeqExt!RemoveAt(s, i)
             N == Len(s)
             A == {j \in DOMAIN s : s[j] = e}
             B == {j \in DOMAIN t : t[j] = e}
             g == [j \in B |-> IF j < i THEN j ELSE j + 1]
  <1>1. /\ i \in 1..N /\ N \in Nat /\ t \in Seq(S) /\ Len(t) = N - 1
        /\ \A j \in 1..(N - 1) : t[j] = IF j < i THEN s[j] ELSE s[j + 1]
    BY RemoveAtFacts
  <1>2. DOMAIN t = 1..(N - 1) /\ DOMAIN s = 1..N
    BY <1>1, LenProperties
  <1> HIDE DEF t, N
  <1>3. IsFiniteSet(A) /\ IsFiniteSet(B)
    BY <1>1, OccursType
  <1>4. Cardinality(A \ {i}) = Cardinality(B)
    <2>1. ASSUME NEW j \in B PROVE g[j] \in A \ {i}
      <3>1. CASE j < i
        BY <3>1, <1>1, <1>2
      <3>2. CASE ~(j < i)
        <4>1. j + 1 \in 1..N /\ j + 1 # i
          BY <3>2, <1>1, <1>2
        <4>2. QED
          BY <3>2, <4>1, <1>1, <1>2
      <3>3. QED
        BY <3>1, <3>2
    <2>2. g \in [B -> A \ {i}]
      BY <2>1
    <2>3. ASSUME NEW j \in B, NEW k \in B, g[j] = g[k] PROVE j = k
      <3>1. j \in Int /\ k \in Int /\ i \in Int
        BY <1>1, <1>2
      <3>2. QED
        BY <2>3, <3>1
    <2>4. ASSUME NEW k \in A \ {i} PROVE \E j \in B : g[j] = k
      <3>1. k \in 1..N /\ k # i /\ s[k] = e
        BY <1>2
      <3>2. CASE k < i
        <4>1. k \in 1..(N - 1) /\ t[k] = e
          BY <3>1, <3>2, <1>1
        <4>2. k \in B /\ g[k] = k
          BY <3>2, <4>1, <1>2
        <4>3. QED
          BY <4>2
      <3>3. CASE k > i
        <4>1. k - 1 \in 1..(N - 1) /\ ~(k - 1 < i) /\ k - 1 + 1 = k
          BY <3>1, <3>3, <1>1
        <4>2. t[k - 1] = e
          BY <3>1, <4>1, <1>1
        <4>3. k - 1 \in B /\ g[k - 1] = k
          BY <4>1, <4>2, <1>2
        <4>4. QED
          BY <4>3
      <3>4. k < i \/ k > i
        BY <3>1, <1>1
      <3>5. QED
        BY <3>2, <3>3, <3>4
    <2> HIDE DEF A, B, g
    <2>5. QED
      BY <2>2, <2>3, <2>4, <1>3, SameSize
  <1> HIDE DEF A, B, g
  <1>6. Cardinality(A \ {i}) = IF i \in A THEN Cardinality(A) - 1 ELSE Cardinality(A)
    BY <1>3, FS_RemoveElement
  <1>7. i \in A <=> s[i] = e
    BY DEF A
  <1>8. Cardinality(A) \in Nat /\ Occurs(s, e) = Cardinality(A) /\ Occurs(t, e) = Cardinality(B)
    BY <1>3, FS_CardinalityType DEF Occurs, A, B
  <1>9. Occurs(t, e) = Occurs(s, e) - (IF s[i] = e THEN 1 ELSE 0)
    BY <1>4, <1>6, <1>7, <1>8
  <1>10. QED
    BY <1>9 DEF t

-----------------------------------------------------------------------------
(* The children of an expression and the rules of a node.                    *)

\* The places where node n is under e.
UsesOf(n, e) == {<<n, i>> : i \in {j \in DOMAIN Fanout[n] : Fanout[n][j] = e}}

LEMMA UsesOfFacts ==
    ASSUME NEW n \in Node, NEW e \in ExprId
    PROVE  /\ IsFiniteSet(UsesOf(n, e))
           /\ Cardinality(UsesOf(n, e)) = Occurs(Fanout[n], e)
           /\ UsesOf(n, e) = {u \in LeafUses(e) : u[1] = n}
  <1> DEFINE A == {j \in DOMAIN Fanout[n] : Fanout[n][j] = e}
             g == [i \in A |-> <<n, i>>]
  <1>1. IsFiniteSet(A)
    <2>1. Fanout[n] \in Seq(ExprId)
      BY CircuitAssumption
    <2>2. QED
      BY <2>1, OccursType
  <1>2. g \in [A -> UsesOf(n, e)]
    BY DEF UsesOf
  <1>3. \A i, j \in A : g[i] = g[j] => i = j
    OBVIOUS
  <1>4. \A u \in UsesOf(n, e) : \E i \in A : g[i] = u
    BY DEF UsesOf
  <1>5. IsFiniteSet(UsesOf(n, e)) /\ Cardinality(UsesOf(n, e)) = Cardinality(A)
    <2> HIDE DEF A, g
    <2>1. QED
      BY <1>1, <1>2, <1>3, <1>4, SameSize
  <1>6. UsesOf(n, e) = {u \in LeafUses(e) : u[1] = n}
    BY DEF UsesOf, LeafUses
  <1>7. QED
    BY <1>5, <1>6 DEF Occurs

LEMMA LeafUsesFinite ==
    ASSUME NEW e \in ExprId
    PROVE  /\ IsFiniteSet(LeafUses(e))
           /\ \A u \in LeafUses(e) : u[1] \in Node
  <1> DEFINE g == [n \in Node |-> UsesOf(n, e)]
             T == {UsesOf(n, e) : n \in Node}
  <1>1. g \in Surjection(Node, T)
    BY DEF Surjection
  <1>2. IsFiniteSet(Node)
    BY CircuitAssumption
  <1>3. \A U \in T : IsFiniteSet(U)
    BY UsesOfFacts
  <1>4. LeafUses(e) = UNION T
    BY DEF LeafUses, UsesOf
  <1> HIDE DEF g, T
  <1>5. IsFiniteSet(T)
    BY <1>1, <1>2, FS_Surjection
  <1>6. IsFiniteSet(UNION T)
    BY <1>3, <1>5, FS_UNION
  <1>7. \A u \in LeafUses(e) : u[1] \in Node
    BY DEF LeafUses
  <1>8. QED
    BY <1>4, <1>6, <1>7

LEMMA ChildrenFinite ==
    ASSUME NEW e
    PROVE  IsFiniteSet(Children(e)) /\ Children(e) \subseteq ExprId
  <1>1. Children(e) \in SUBSET ExprId /\ IsFiniteSet(ExprId)
    BY CircuitAssumption DEF Children
  <1>2. QED
    BY <1>1, FS_Subset

LEMMA RulesOfFinite ==
    ASSUME NEW n, NEW g
    PROVE  IsFiniteSet(RulesOf(n, g)) /\ RulesOf(n, g) \subseteq Rule
  <1>1. RulesOf(n, g) \in SUBSET ExprId /\ IsFiniteSet(ExprId)
    BY CircuitAssumption DEF RulesOf
  <1>2. QED
    BY <1>1, FS_Subset DEF RulesOf

LEMMA SizeType ==
    ASSUME NEW e \in ExprId
    PROVE  Size(e) \in Nat \ {0}
  BY LeafUsesFinite, ChildrenFinite, FS_CardinalityType, SizeAssumption DEF Size

LEMMA ElseFinite ==
    ASSUME NEW S, IsFiniteSet(S), NEW T \in SUBSET S
    PROVE  IsFiniteSet(T) /\ Cardinality(T) \in Nat
  BY FS_Subset, FS_CardinalityType

-----------------------------------------------------------------------------
(* The counts.                                                               *)

LeafCount(e, val, x) == Cardinality({u \in LeafUses(e) : val[u[1]] = x})
KidCount(e, ex, x) == Cardinality({c \in Children(e) : pull_state(c, ex[c]) = x})
RuleCount(n, g, ex, x) == Cardinality({r \in RulesOf(n, g) : pull_state(r, ex[r]) = x})

\* What k changes from prev to next add to the number of x.
Shift(k, prev, next, x) == (IF next = x THEN k ELSE 0) - (IF prev = x THEN k ELSE 0)

LEMMA CountTypes ==
    /\ \A e \in ExprId : \A val, x : LeafCount(e, val, x) \in Nat
    /\ \A e, ex, x : KidCount(e, ex, x) \in Nat
    /\ \A n, g, ex, x : RuleCount(n, g, ex, x) \in Nat
  <1>1. ASSUME NEW e \in ExprId, NEW val, NEW x PROVE LeafCount(e, val, x) \in Nat
    <2>1. {u \in LeafUses(e) : val[u[1]] = x} \in SUBSET LeafUses(e)
      OBVIOUS
    <2>2. QED
      BY <2>1, LeafUsesFinite, ElseFinite DEF LeafCount
  <1>2. ASSUME NEW e, NEW ex, NEW x PROVE KidCount(e, ex, x) \in Nat
    <2>1. {c \in Children(e) : pull_state(c, ex[c]) = x} \in SUBSET Children(e)
      OBVIOUS
    <2>2. QED
      BY <2>1, ChildrenFinite, ElseFinite DEF KidCount
  <1>3. ASSUME NEW n, NEW g, NEW ex, NEW x PROVE RuleCount(n, g, ex, x) \in Nat
    <2>1. {r \in RulesOf(n, g) : pull_state(r, ex[r]) = x} \in SUBSET RulesOf(n, g)
      OBVIOUS
    <2>2. QED
      BY <2>1, RulesOfFinite, ElseFinite DEF RuleCount
  <1>4. QED
    BY <1>1, <1>2, <1>3

\* Nothing but what belongs to k has changed.
OnlyAt(S, k, old, new) == \A m \in S : m # k => new[m] = old[m]

\* A node changes: every place where it is under e changes.
LEMMA LeafChange ==
    ASSUME NEW val, NEW new, NEW n \in Node, NEW e \in ExprId, NEW x,
           OnlyAt(Node, n, val, new)
    PROVE  LeafCount(e, new, x) =
              LeafCount(e, val, x) + Shift(Occurs(Fanout[n], e), val[n], new[n], x)
  <1> DEFINE L == LeafUses(e)
             U == UsesOf(n, e)
             A == {u \in L : val[u[1]] = x}
             B == {u \in L : new[u[1]] = x}
  <1>1. IsFiniteSet(L) /\ IsFiniteSet(U) /\ Cardinality(U) = Occurs(Fanout[n], e)
    BY LeafUsesFinite, UsesOfFacts
  <1>2. U = {u \in L : u[1] = n} /\ \A u \in L : u[1] \in Node
    BY UsesOfFacts, LeafUsesFinite
  <1>3. IsFiniteSet(A) /\ IsFiniteSet(B) /\ Cardinality(A) \in Nat /\ Cardinality(B) \in Nat
        /\ Cardinality(U) \in Nat
    <2>1. A \in SUBSET L /\ B \in SUBSET L
      OBVIOUS
    <2> HIDE DEF A, B, L, U
    <2>2. QED
      BY <1>1, <2>1, ElseFinite, FS_CardinalityType
  <1>4. A \ U = B \ U
    BY <1>2 DEF OnlyAt
  <1>5. A \cap U = (IF val[n] = x THEN U ELSE {}) /\ B \cap U = (IF new[n] = x THEN U ELSE {})
    BY <1>2
  <1> HIDE DEF A, B, U
  <1>6. Cardinality(A \ U) = Cardinality(A) - Cardinality(A \cap U)
    BY <1>3, FS_Difference
  <1>7. Cardinality(B \ U) = Cardinality(B) - Cardinality(B \cap U)
    BY <1>3, FS_Difference
  <1>8. /\ Cardinality(A \cap U) = IF val[n] = x THEN Cardinality(U) ELSE 0
        /\ Cardinality(B \cap U) = IF new[n] = x THEN Cardinality(U) ELSE 0
    BY <1>5, FS_EmptySet
  <1>9. Cardinality(B) = Cardinality(A) + Shift(Cardinality(U), val[n], new[n], x)
    <2>1. Cardinality(A) - Cardinality(A \cap U) = Cardinality(B) - Cardinality(B \cap U)
      BY <1>4, <1>6, <1>7
    <2>2. QED
      BY <1>3, <1>8, <2>1 DEF Shift
  <1>10. QED
    BY <1>1, <1>9 DEF LeafCount, A, B

\* An expression changes: its parent, and no other, counts one change.
LEMMA KidChange ==
    ASSUME NEW ex, NEW new, NEW c \in ExprId, NEW e, NEW x,
           OnlyAt(ExprId, c, ex, new)
    PROVE  /\ c \in Children(e) =>
                 KidCount(e, new, x) = KidCount(e, ex, x) +
                        Shift(1, pull_state(c, ex[c]), pull_state(c, new[c]), x)
           /\ c \notin Children(e) => KidCount(e, new, x) = KidCount(e, ex, x)
  <1> DEFINE A == {d \in Children(e) : pull_state(d, ex[d]) = x}
             B == {d \in Children(e) : pull_state(d, new[d]) = x}
  <1>1. A \in SUBSET Children(e) /\ B \in SUBSET Children(e)
    OBVIOUS
  <1>2. IsFiniteSet(A) /\ IsFiniteSet(B)
    <2> HIDE DEF A, B
    <2>1. QED
      BY <1>1, ChildrenFinite, ElseFinite
  <1>3. A \ {c} = B \ {c}
    BY ChildrenFinite DEF OnlyAt
  <1>4. /\ c \in A <=> c \in Children(e) /\ pull_state(c, ex[c]) = x
        /\ c \in B <=> c \in Children(e) /\ pull_state(c, new[c]) = x
    OBVIOUS
  <1> HIDE DEF A, B
  <1>5. /\ Cardinality(A) \in Nat /\ Cardinality(B) \in Nat
        /\ Cardinality(B) = Cardinality(A)
                + (IF c \in B THEN 1 ELSE 0) - (IF c \in A THEN 1 ELSE 0)
    BY <1>2, <1>3, OneElement
  <1>6. QED
    BY <1>4, <1>5 DEF KidCount, A, B, Shift

\* A rule changes: its own group, and no other, counts one change.
LEMMA RuleChange ==
    ASSUME NEW ex, NEW new, NEW c \in ExprId, NEW n, NEW g, NEW x,
           OnlyAt(ExprId, c, ex, new)
    PROVE  /\ c \in RulesOf(n, g) =>
                 RuleCount(n, g, new, x) = RuleCount(n, g, ex, x) +
                        Shift(1, pull_state(c, ex[c]), pull_state(c, new[c]), x)
           /\ c \notin RulesOf(n, g) => RuleCount(n, g, new, x) = RuleCount(n, g, ex, x)
  <1> DEFINE A == {d \in RulesOf(n, g) : pull_state(d, ex[d]) = x}
             B == {d \in RulesOf(n, g) : pull_state(d, new[d]) = x}
  <1>1. A \in SUBSET RulesOf(n, g) /\ B \in SUBSET RulesOf(n, g)
    OBVIOUS
  <1>2. IsFiniteSet(A) /\ IsFiniteSet(B)
    <2> HIDE DEF A, B
    <2>1. QED
      BY <1>1, RulesOfFinite, ElseFinite
  <1>3. A \ {c} = B \ {c}
    BY RulesOfFinite, CircuitAssumption DEF OnlyAt
  <1>4. /\ c \in A <=> c \in RulesOf(n, g) /\ pull_state(c, ex[c]) = x
        /\ c \in B <=> c \in RulesOf(n, g) /\ pull_state(c, new[c]) = x
    OBVIOUS
  <1> HIDE DEF A, B
  <1>5. /\ Cardinality(A) \in Nat /\ Cardinality(B) \in Nat
        /\ Cardinality(B) = Cardinality(A)
                + (IF c \in B THEN 1 ELSE 0) - (IF c \in A THEN 1 ELSE 0)
    BY <1>2, <1>3, OneElement
  <1>6. QED
    BY <1>4, <1>5 DEF RuleCount, A, B, Shift

-----------------------------------------------------------------------------
(* The counters agree with the counts, up to what is still to be evaluated.  *)

Counter == [countdown : Int, unknowns : Int]

\* The counter of the children that are x.
Tally(c, x) == IF x = PULL_WEAK THEN c.unknowns ELSE c.countdown

\* The values the counters stand for: while a checkpoint is loaded the nodes
\* that were not reached yet are X.
Seen(st, cs, val) ==
    [n \in Node |-> IF st = "load" /\ n > cs.node THEN LOGIC_OTHER ELSE val[n]]

\* What e has not counted yet: the fanouts s of the cause cs that are to be
\* evaluated, and the change that has climbed to it.
Due(e, x, s, cs, cl) ==
    Shift(Occurs(s, e), cs.prev, cs.val, x)
        + (IF cl.expr = e THEN Shift(1, cl.prev, cl.next, x) ELSE 0)

\* What the group g of n has not counted yet.
Rise(n, g, x, cl) ==
    IF cl.rule \in RulesOf(n, g) THEN Shift(1, cl.prev, cl.next, x) ELSE 0

ExprsAgree(ex, val, s, cs, cl) ==
    \A e \in ExprId : \A x \in {Decisive(e), PULL_WEAK} :
        Tally(ex[e], x) = LeafCount(e, val, x) + KidCount(e, ex, x) - Due(e, x, s, cs, cl)

FaninsAgree(ex, fa, cl) ==
    \A n \in Node, g \in Group : \A x \in {PULL_ON, PULL_WEAK} :
        Tally(fa[n][g], x) = RuleCount(n, g, ex, x) - Rise(n, g, x, cl)

CounterTypeOK ==
    /\ expr \in [ExprId -> Counter]
    /\ fanin \in [Node -> [Group -> Counter]]

CountersInv ==
    /\ CounterTypeOK
    /\ ExprsAgree(expr, Seen(stage, cause, value), todo, cause, climb)
    /\ FaninsAgree(expr, fanin, climb)

LEMMA DecisiveFacts ==
    ASSUME NEW e
    PROVE  Decisive(e) \in {PULL_OFF, PULL_ON} /\ Decisive(e) # PULL_WEAK
  BY DEF Decisive, PULL_OFF, PULL_ON, PULL_WEAK

LEMMA ShiftType ==
    /\ \A k \in Int : \A prev, next, x : Shift(k, prev, next, x) \in Int
    /\ \A prev, next, x : Shift(0, prev, next, x) = 0
  BY DEF Shift

LEMMA TallyCount ==
    ASSUME NEW c \in Counter, NEW decisive \in {PULL_OFF, PULL_ON},
           NEW prev, NEW next
    PROVE  /\ Count(c, decisive, prev, next) \in Counter
           /\ \A x \in {decisive, PULL_WEAK} :
                /\ Tally(c, x) \in Int
                /\ Tally(Count(c, decisive, prev, next), x) =
                        Tally(c, x) + Shift(1, prev, next, x)
  BY DEF Count, Counter, Tally, Shift, Is, PULL_OFF, PULL_ON, PULL_WEAK

LEMMA DueAtRest ==
    ASSUME NEW e \in ExprId, NEW x, NEW cs
    PROVE  Due(e, x, <<>>, cs, NoClimb) = 0
  <1>1. Occurs(<<>>, e) = 0 /\ NoClimb.expr # e
    BY OccursEmpty, NoClimbType, CircuitAssumption
  <1>2. QED
    BY <1>1, ShiftType DEF Due

LEMMA DueType ==
    ASSUME NEW e, NEW x, NEW s \in Seq(ExprId), NEW cs, NEW cl
    PROVE  Due(e, x, s, cs, cl) \in Int
  <1>1. Occurs(s, e) \in Nat
    BY OccursType
  <1>2. QED
    BY <1>1 DEF Due, Shift

\* At rest the cause does not matter.
LEMMA RestAgree ==
    ASSUME NEW ex, NEW val, NEW cs, NEW cs2, ExprsAgree(ex, val, <<>>, cs, NoClimb)
    PROVE  ExprsAgree(ex, val, <<>>, cs2, NoClimb)
  BY DueAtRest DEF ExprsAgree

\* Everything is X.
LEMMA FreshAgree ==
    ASSUME NEW val, \A n \in Node : val[n] = LOGIC_OTHER, NEW cs
    PROVE  /\ ExprInit \in [ExprId -> Counter]
           /\ FaninInit \in [Node -> [Group -> Counter]]
           /\ ExprsAgree(ExprInit, val, <<>>, cs, NoClimb)
           /\ FaninsAgree(ExprInit, FaninInit, NoClimb)
  <1>1. ASSUME NEW e \in ExprId
        PROVE  /\ ExprInit[e] = [countdown |-> 0, unknowns |-> Size(e)]
               /\ pull_state(e, ExprInit[e]) = PULL_WEAK
    <2>1. ExprInit[e] = [countdown |-> 0, unknowns |-> Size(e)] /\ Size(e) # 0
      BY SizeType DEF ExprInit
    <2>2. QED
      BY <2>1 DEF pull_state, or_pull, and_pull, negate_pull, PULL_OFF, PULL_ON, PULL_WEAK
  <1>2. ExprInit \in [ExprId -> Counter]
    BY SizeType DEF ExprInit, Counter
  <1>3. FaninInit \in [Node -> [Group -> Counter]]
    <2>1. \A n \in Node, g \in Group : Cardinality(RulesOf(n, g)) \in Int
      BY RulesOfFinite, FS_CardinalityType
    <2>2. QED
      BY <2>1 DEF FaninInit, Counter
  <1>4. ASSUME NEW e \in ExprId, NEW x \in {Decisive(e), PULL_WEAK}
        PROVE  Tally(ExprInit[e], x) = LeafCount(e, val, x) + KidCount(e, ExprInit, x) - 0
    <2>1. \A u \in LeafUses(e) : val[u[1]] = PULL_WEAK
      BY LeafUsesFinite DEF LOGIC_OTHER, PULL_WEAK
    <2>2. \A c \in Children(e) : pull_state(c, ExprInit[c]) = PULL_WEAK
      BY <1>1, ChildrenFinite
    <2>3. CASE x = PULL_WEAK
      <3>1. /\ {u \in LeafUses(e) : val[u[1]] = x} = LeafUses(e)
            /\ {c \in Children(e) : pull_state(c, ExprInit[c]) = x} = Children(e)
        BY <2>1, <2>2, <2>3
      <3>2. Tally(ExprInit[e], x) = Size(e)
        <4>1. ExprInit[e].unknowns = Size(e)
          BY DEF ExprInit
        <4>2. QED
          BY <2>3, <4>1 DEF Tally
      <3>3. LeafCount(e, val, x) = Cardinality(LeafUses(e))
            /\ KidCount(e, ExprInit, x) = Cardinality(Children(e))
        BY <3>1 DEF LeafCount, KidCount
      <3>4. LeafCount(e, val, x) \in Nat /\ KidCount(e, ExprInit, x) \in Nat
        BY CountTypes
      <3>5. QED
        BY <3>2, <3>3, <3>4 DEF Size
    <2>4. CASE x # PULL_WEAK
      <3>1. /\ {u \in LeafUses(e) : val[u[1]] = x} = {}
            /\ {c \in Children(e) : pull_state(c, ExprInit[c]) = x} = {}
        BY <2>1, <2>2, <2>4
      <3>2. LeafCount(e, val, x) = 0 /\ KidCount(e, ExprInit, x) = 0
        BY <3>1, FS_EmptySet DEF LeafCount, KidCount
      <3>3. Tally(ExprInit[e], x) = 0
        <4>1. ExprInit[e].countdown = 0
          BY DEF ExprInit
        <4>2. QED
          BY <2>4, <4>1 DEF Tally
      <3>4. QED
        BY <3>2, <3>3
    <2>5. QED
      BY <2>3, <2>4
  <1>5. ASSUME NEW n \in Node, NEW g \in Group, NEW x \in {PULL_ON, PULL_WEAK}
        PROVE  Tally(FaninInit[n][g], x) = RuleCount(n, g, ExprInit, x) - Rise(n, g, x, NoClimb)
    <2>1. \A r \in RulesOf(n, g) : pull_state(r, ExprInit[r]) = PULL_WEAK
      BY <1>1, RulesOfFinite, RuleFacts
    <2>2. Rise(n, g, x, NoClimb) = 0
      BY NoClimbType, RulesOfFinite, QueueAssumption DEF Rise
    <2>3. FaninInit[n][g] = [countdown |-> 0, unknowns |-> Cardinality(RulesOf(n, g))]
      BY DEF FaninInit
    <2>4. CASE x = PULL_WEAK
      <3>1. {r \in RulesOf(n, g) : pull_state(r, ExprInit[r]) = x} = RulesOf(n, g)
        BY <2>1, <2>4
      <3>2. RuleCount(n, g, ExprInit, x) = Cardinality(RulesOf(n, g))
            /\ Cardinality(RulesOf(n, g)) \in Nat
        BY <3>1, RulesOfFinite, FS_CardinalityType DEF RuleCount
      <3>3. QED
        BY <2>2, <2>3, <2>4, <3>2 DEF Tally
    <2>5. CASE x # PULL_WEAK
      <3>1. {r \in RulesOf(n, g) : pull_state(r, ExprInit[r]) = x} = {}
        BY <2>1, <2>5
      <3>2. RuleCount(n, g, ExprInit, x) = 0
        BY <3>1, FS_EmptySet DEF RuleCount
      <3>3. QED
        BY <2>2, <2>3, <2>5, <3>2 DEF Tally
    <2>6. QED
      BY <2>4, <2>5
  <1>6. QED
    BY <1>2, <1>3, <1>4, <1>5, DueAtRest DEF ExprsAgree, FaninsAgree

\* A node changes and all its fanouts are to be evaluated.
LEMMA StartAgree ==
    ASSUME NEW ex, NEW val, NEW new, NEW cs, NEW cs2, NEW n \in Node,
           ExprsAgree(ex, val, <<>>, cs, NoClimb), ex \in [ExprId -> Counter],
           OnlyAt(Node, n, val, new),
           cs2.prev = val[n], cs2.val = new[n]
    PROVE  ExprsAgree(ex, new, Fanout[n], cs2, NoClimb)
  <1> SUFFICES ASSUME NEW e \in ExprId, NEW x \in {Decisive(e), PULL_WEAK}
               PROVE  Tally(ex[e], x) = LeafCount(e, new, x) + KidCount(e, ex, x)
                                            - Due(e, x, Fanout[n], cs2, NoClimb)
    BY DEF ExprsAgree
  <1>1. Tally(ex[e], x) = LeafCount(e, val, x) + KidCount(e, ex, x) - 0
    BY DueAtRest DEF ExprsAgree
  <1>2. LeafCount(e, new, x) = LeafCount(e, val, x) + Shift(Occurs(Fanout[n], e), val[n], new[n], x)
    BY LeafChange
  <1>3. Due(e, x, Fanout[n], cs2, NoClimb) = Shift(Occurs(Fanout[n], e), val[n], new[n], x) + 0
    BY NoClimbType, CircuitAssumption DEF Due
  <1>4. Shift(Occurs(Fanout[n], e), val[n], new[n], x) \in Int
    <2>1. Fanout[n] \in Seq(ExprId)
      BY CircuitAssumption
    <2>2. Occurs(Fanout[n], e) \in Nat
      BY <2>1, OccursType
    <2>3. QED
      BY <2>2 DEF Shift
  <1>5. LeafCount(e, val, x) \in Int /\ KidCount(e, ex, x) \in Int
    BY CountTypes
  <1>6. QED
    BY <1>1, <1>2, <1>3, <1>4, <1>5

\* The next fanout is taken up.
LEMMA NextAgree ==
    ASSUME NEW ex, NEW val, NEW s \in Seq(ExprId), NEW i \in DOMAIN s, NEW cs, NEW cl,
           ExprsAgree(ex, val, s, cs, NoClimb),
           cl.expr = s[i], cl.prev = cs.prev, cl.next = cs.val
    PROVE  ExprsAgree(ex, val, SeqExt!RemoveAt(s, i), cs, cl)
  <1> SUFFICES ASSUME NEW e \in ExprId, NEW x \in {Decisive(e), PULL_WEAK}
               PROVE  Due(e, x, SeqExt!RemoveAt(s, i), cs, cl) = Due(e, x, s, cs, NoClimb)
    BY DEF ExprsAgree
  <1>1. Occurs(SeqExt!RemoveAt(s, i), e) = Occurs(s, e) - (IF s[i] = e THEN 1 ELSE 0)
    BY OccursRemoveAt
  <1>2. Occurs(s, e) \in Nat /\ NoClimb.expr # e
    BY OccursType, NoClimbType, CircuitAssumption
  <1>3. CASE s[i] = e
    BY <1>1, <1>2, <1>3 DEF Due, Shift
  <1>4. CASE s[i] # e
    BY <1>1, <1>2, <1>4 DEF Due, Shift
  <1>5. QED
    BY <1>3, <1>4

\* A change of the pull of e, and no other, climbs on.
ClimbsOn(cl, e, old, new) ==
    /\ old = new => cl.expr = 0 /\ cl.rule = 0
    /\ old # new /\ Expr[e].root => cl.expr = 0 /\ cl.rule = e
    /\ old # new /\ ~Expr[e].root => cl.expr = Expr[e].parent /\ cl.rule = 0
    /\ old # new => cl.prev = old /\ cl.next = new

\* The turn of evaluate_kernel for the expression that cl has reached.
Turn(ex, ex2, cl, cl2) ==
    LET e == cl.expr
    IN  /\ ex2[e] = Count(ex[e], Decisive(e), cl.prev, cl.next)
        /\ OnlyAt(ExprId, e, ex, ex2)
        /\ ClimbsOn(cl2, e, pull_state(e, ex[e]), pull_state(e, ex2[e]))

\* The expression counts the change that has climbed to it, and what becomes
\* of its own pull climbs on.
LEMMA ClimbAgree ==
    ASSUME NEW ex \in [ExprId -> Counter], NEW fa, NEW val, NEW s \in Seq(ExprId), NEW cs,
           NEW cl \in Climb, cl.expr # 0, cl.rule = 0, NEW ex2, NEW cl2, Turn(ex, ex2, cl, cl2),
           ExprsAgree(ex, val, s, cs, cl), FaninsAgree(ex, fa, cl)
    PROVE  /\ Count(ex[cl.expr], Decisive(cl.expr), cl.prev, cl.next) \in Counter
           /\ ExprsAgree(ex2, val, s, cs, cl2)
           /\ FaninsAgree(ex2, fa, cl2)
  <1> DEFINE e == cl.expr
             c == Count(ex[e], Decisive(e), cl.prev, cl.next)
             old == pull_state(e, ex[e])
             new == pull_state(e, ex2[e])
  <1>1. e \in ExprId /\ Decisive(e) \in {PULL_OFF, PULL_ON}
    BY DecisiveFacts DEF Climb
  <1>2. c \in Counter /\ \A x \in {Decisive(e), PULL_WEAK} :
            Tally(ex[e], x) \in Int /\ Tally(c, x) = Tally(ex[e], x) + Shift(1, cl.prev, cl.next, x)
    <2>1. ex[e] \in Counter
      BY <1>1
    <2>2. ASSUME NEW b, NEW prev, NEW next, b = ex[e],
                 NEW a, a = Count(b, Decisive(e), prev, next)
          PROVE  a \in Counter /\ \A x \in {Decisive(e), PULL_WEAK} :
                    Tally(b, x) \in Int /\ Tally(a, x) = Tally(b, x) + Shift(1, prev, next, x)
      BY <1>1, <2>1, <2>2, TallyCount
    <2>3. QED
      BY <2>2
  <1>3. ex2[e] = c /\ OnlyAt(ExprId, e, ex, ex2) /\ ClimbsOn(cl2, e, old, new)
    BY DEF Turn
  <1>4. ASSUME NEW x
        PROVE  /\ Shift(1, old, new, x) \in Int /\ Shift(1, cl.prev, cl.next, x) \in Int
               /\ Shift(1, cl2.prev, cl2.next, x) \in Int
               /\ old = new => Shift(1, old, new, x) = 0
    BY DEF Shift
  <1>5. /\ old = new => cl2.expr = 0 /\ cl2.rule = 0
        /\ old # new /\ Expr[e].root => cl2.expr = 0 /\ cl2.rule = e
        /\ old # new /\ ~Expr[e].root => cl2.expr = Expr[e].parent /\ cl2.rule = 0
        /\ old # new => cl2.prev = old /\ cl2.next = new
    BY <1>3 DEF ClimbsOn
  <1>6. ASSUME NEW f \in ExprId, NEW x \in {Decisive(f), PULL_WEAK}
        PROVE  Tally(ex2[f], x) = LeafCount(f, val, x) + KidCount(f, ex2, x) - Due(f, x, s, cs, cl2)
    <2> DEFINE k == IF e \in Children(f) THEN Shift(1, old, new, x) ELSE 0
               d == Shift(Occurs(s, f), cs.prev, cs.val, x)
               h == IF e = f THEN Shift(1, cl.prev, cl.next, x) ELSE 0
               h2 == IF cl2.expr = f THEN Shift(1, cl2.prev, cl2.next, x) ELSE 0
    <2>1. KidCount(f, ex2, x) = KidCount(f, ex, x) + k
      <3>1. /\ e \in Children(f) => KidCount(f, ex2, x) = KidCount(f, ex, x) +
                    Shift(1, pull_state(e, ex[e]), pull_state(e, ex2[e]), x)
            /\ e \notin Children(f) => KidCount(f, ex2, x) = KidCount(f, ex, x)
        BY <1>1, <1>3, KidChange
      <3>2. KidCount(f, ex, x) \in Int
        BY CountTypes
      <3>3. QED
        BY <1>3, <3>1, <3>2
    <2>2. k = h2
      <3>1. f # 0 /\ (e \in Children(f) <=> ~Expr[e].root /\ Expr[e].parent = f)
        BY <1>1, CircuitAssumption DEF Children
      <3>2. CASE old = new
        BY <3>1, <3>2, <1>4, <1>5
      <3>3. CASE old # new /\ Expr[e].root
        BY <3>1, <3>3, <1>5
      <3>4. CASE old # new /\ ~Expr[e].root
        BY <3>1, <3>4, <1>5
      <3>5. QED
        BY <3>2, <3>3, <3>4
    <2>3. Tally(ex2[f], x) = Tally(ex[f], x) + h
      <3>1. CASE f = e
        BY <1>2, <1>3, <3>1
      <3>2. CASE f # e
        <4>1. ex2[f] = ex[f] /\ h = 0
          BY <1>3, <3>2 DEF OnlyAt
        <4>2. Tally(ex[f], x) \in Int
          BY TallyCount, DecisiveFacts
        <4>3. QED
          BY <4>1, <4>2
      <3>3. QED
        BY <3>1, <3>2
    <2>4. Tally(ex[f], x) = LeafCount(f, val, x) + KidCount(f, ex, x) - (d + h)
      BY DEF ExprsAgree, Due
    <2>5. Due(f, x, s, cs, cl2) = d + h2
      BY DEF Due
    <2>6. d \in Int /\ h \in Int /\ h2 \in Int
      <3>1. Occurs(s, f) \in Nat
        BY OccursType
      <3>2. d \in Int
        BY <3>1 DEF Shift
      <3>3. QED
        BY <3>2, <1>4
    <2>7. LeafCount(f, val, x) \in Int /\ KidCount(f, ex, x) \in Int
      BY CountTypes
    <2> HIDE DEF k, d, h, h2
    <2>8. QED
      BY <2>1, <2>2, <2>3, <2>4, <2>5, <2>6, <2>7
  <1>7. ASSUME NEW n \in Node, NEW g \in Group, NEW x \in {PULL_ON, PULL_WEAK}
        PROVE  Tally(fa[n][g], x) = RuleCount(n, g, ex2, x) - Rise(n, g, x, cl2)
    <2>1. RuleCount(n, g, ex2, x) = RuleCount(n, g, ex, x) +
                IF e \in RulesOf(n, g) THEN Shift(1, old, new, x) ELSE 0
      <3>1. /\ e \in RulesOf(n, g) => RuleCount(n, g, ex2, x) = RuleCount(n, g, ex, x) +
                    Shift(1, pull_state(e, ex[e]), pull_state(e, ex2[e]), x)
            /\ e \notin RulesOf(n, g) => RuleCount(n, g, ex2, x) = RuleCount(n, g, ex, x)
        BY <1>1, <1>3, RuleChange
      <3>2. RuleCount(n, g, ex, x) \in Int
        BY CountTypes
      <3>3. QED
        BY <1>3, <3>1, <3>2
    <2>2. 0 \notin RulesOf(n, g) /\ (e \in RulesOf(n, g) => Expr[e].root)
      BY CircuitAssumption, QueueAssumption DEF RulesOf
    <2>3. Rise(n, g, x, cl) = 0
      BY <2>2 DEF Rise
    <2>4. Rise(n, g, x, cl2) = IF e \in RulesOf(n, g) THEN Shift(1, old, new, x) ELSE 0
      <3>1. CASE old = new
        BY <2>2, <3>1, <1>4, <1>5 DEF Rise
      <3>2. CASE old # new /\ Expr[e].root
        BY <3>2, <1>5 DEF Rise
      <3>3. CASE old # new /\ ~Expr[e].root
        BY <2>2, <3>3, <1>5 DEF Rise
      <3>4. QED
        BY <3>1, <3>2, <3>3
    <2>5. Tally(fa[n][g], x) = RuleCount(n, g, ex, x) - 0
      BY <2>3 DEF FaninsAgree
    <2>6. RuleCount(n, g, ex, x) \in Int
      BY CountTypes
    <2>7. QED
      BY <1>4, <2>1, <2>4, <2>5, <2>6
  <1>8. QED
    BY <1>2, <1>6, <1>7 DEF ExprsAgree, FaninsAgree

\* The group of the rule that cl has reached, and no other, counts the change.
Recounted(fa, fa2, cl) ==
    LET n == Expr[cl.rule].parent
        g == RuleGroup[cl.rule]
    IN  \A m \in Node, h \in Group : fa2[m][h] =
            IF m = n /\ h = g THEN Count(fa[n][g], PULL_ON, cl.prev, cl.next) ELSE fa[m][h]

\* evaluate: the group of the rule that has changed counts it.
LEMMA RiseAgree ==
    ASSUME NEW ex, NEW fa \in [Node -> [Group -> Counter]], NEW cl, NEW r \in Rule,
           cl.rule = r, NEW fa2, Recounted(fa, fa2, cl), FaninsAgree(ex, fa, cl)
    PROVE  /\ Count(fa[Expr[r].parent][RuleGroup[r]], PULL_ON, cl.prev, cl.next) \in Counter
           /\ FaninsAgree(ex, fa2, NoClimb)
  <1> DEFINE n == Expr[r].parent
             g == RuleGroup[r]
  <1>1. n \in Node /\ g \in Group
    BY RuleFacts
  <1>2. fa[n][g] \in Counter
    BY <1>1
  <1>3. /\ Count(fa[n][g], PULL_ON, cl.prev, cl.next) \in Counter
        /\ \A x \in {PULL_ON, PULL_WEAK} :
              /\ Tally(fa[n][g], x) \in Int
              /\ Tally(Count(fa[n][g], PULL_ON, cl.prev, cl.next), x) =
                    Tally(fa[n][g], x) + Shift(1, cl.prev, cl.next, x)
    BY <1>2, TallyCount
  <1>5. ASSUME NEW m \in Node, NEW h \in Group, NEW x \in {PULL_ON, PULL_WEAK}
        PROVE  Tally(fa2[m][h], x) = RuleCount(m, h, ex, x) - Rise(m, h, x, NoClimb)
    <2>1. r \in RulesOf(m, h) <=> m = n /\ h = g
      BY DEF RulesOf
    <2>2. Rise(m, h, x, NoClimb) = 0
      BY NoClimbType, RulesOfFinite, QueueAssumption DEF Rise
    <2>3. Tally(fa[m][h], x) = RuleCount(m, h, ex, x) - Rise(m, h, x, cl)
      BY DEF FaninsAgree
    <2>4. RuleCount(m, h, ex, x) \in Int /\ Shift(1, cl.prev, cl.next, x) \in Int
      BY CountTypes, ShiftType
    <2>5. CASE m = n /\ h = g
      <3>1. fa2[m][h] = Count(fa[n][g], PULL_ON, cl.prev, cl.next)
        BY <2>5 DEF Recounted
      <3>2. Rise(m, h, x, cl) = Shift(1, cl.prev, cl.next, x)
        BY <2>1, <2>5 DEF Rise
      <3>3. QED
        BY <2>2, <2>3, <2>4, <2>5, <3>1, <3>2, <1>3
    <2>6. CASE ~(m = n /\ h = g)
      <3>1. fa2[m][h] = fa[m][h]
        BY <2>6 DEF Recounted
      <3>2. Rise(m, h, x, cl) = 0
        BY <2>1, <2>6 DEF Rise
      <3>3. QED
        BY <2>2, <2>3, <3>1, <3>2
    <2>7. QED
      BY <2>5, <2>6
  <1>6. QED
    BY <1>3, <1>5 DEF FaninsAgree

-----------------------------------------------------------------------------
(* Every step of the engine.                                                 *)

LEMMA NodeFacts ==
    ASSUME NEW n \in Node
    PROVE  n \in Nat /\ n > 0
  <1>1. n \in Nat /\ n # 0
    BY CircuitAssumption, QueueAssumption
  <1>2. QED
    BY <1>1

LEMMA SeenAll ==
    ASSUME NEW st, st # "load", NEW cs, NEW val \in [Node -> Value]
    PROVE  Seen(st, cs, val) = val
  BY DEF Seen

LEMMA RestCounters ==
    ASSUME CountersInv, value \in [Node -> Value],
           todo = <<>>, climb = NoClimb, stage # "load", stage' # "load",
           UNCHANGED <<value, expr, fanin, todo, climb>>
    PROVE  CountersInv'
  <1>1. CounterTypeOK' /\ FaninsAgree(expr', fanin', climb')
    BY DEF CountersInv, CounterTypeOK
  <1>2. ExprsAgree(expr, value, <<>>, cause, NoClimb)
    BY SeenAll DEF CountersInv
  <1>3. ExprsAgree(expr, value, <<>>, cause', NoClimb)
    BY <1>2, RestAgree
  <1>4. Seen(stage', cause', value') = value
    BY SeenAll
  <1>5. ExprsAgree(expr', Seen(stage', cause', value'), todo', cause', climb')
    BY <1>3, <1>4
  <1>6. QED
    BY <1>1, <1>5 DEF CountersInv

\* initialize and load_checkpoint begin with every node at X.
LEMMA FreshCounters ==
    ASSUME \A n \in Node : Seen(stage', cause', value')[n] = LOGIC_OTHER,
           expr' = ExprInit, fanin' = FaninInit, todo' = <<>>, climb' = NoClimb
    PROVE  CountersInv'
  <1>1. /\ ExprInit \in [ExprId -> Counter]
        /\ FaninInit \in [Node -> [Group -> Counter]]
        /\ ExprsAgree(ExprInit, Seen(stage', cause', value'), <<>>, cause', NoClimb)
        /\ FaninsAgree(ExprInit, FaninInit, NoClimb)
    BY FreshAgree
  <1>2. QED
    BY <1>1 DEF CountersInv, CounterTypeOK

\* A committed change.
LEMMA BeginCounters ==
    ASSUME CountersInv, Tidy, stage = "idle", value \in [Node -> Value],
           NEW n \in Node, NEW v \in Value, Begin(n, v), value' = [value EXCEPT ![n] = v]
    PROVE  CountersInv'
  <1>1. /\ stage' = "evaluate" /\ cause' = [node |-> n, val |-> v, prev |-> value[n]]
        /\ todo' = Fanout[n] /\ UNCHANGED <<expr, fanin, climb>>
        /\ todo = <<>> /\ climb = NoClimb
    BY DEF Begin, Tidy
  <1>2. CounterTypeOK' /\ FaninsAgree(expr', fanin', climb')
    BY <1>1 DEF CountersInv, CounterTypeOK
  <1>3. ExprsAgree(expr, value, <<>>, cause, NoClimb)
    BY <1>1, SeenAll DEF CountersInv
  <1>4. OnlyAt(Node, n, value, value') /\ value' \in [Node -> Value]
        /\ cause'.prev = value[n] /\ cause'.val = value'[n]
    BY <1>1 DEF OnlyAt
  <1>5. ExprsAgree(expr, value', Fanout[n], cause', NoClimb)
    <2>1. expr \in [ExprId -> Counter]
      BY DEF CountersInv, CounterTypeOK
    <2>2. QED
      BY <1>3, <1>4, <2>1, StartAgree
  <1>6. Seen(stage', cause', value') = value'
    BY <1>1, <1>4, SeenAll
  <1>7. ExprsAgree(expr', Seen(stage', cause', value'), todo', cause', climb')
    BY <1>1, <1>5, <1>6
  <1>8. QED
    BY <1>2, <1>7 DEF CountersInv

LEMMA CommandsCounters == Sound /\ Control /\ CountersInv /\ Commands => CountersInv'
  <1> SUFFICES ASSUME Sound, Control, CountersInv, Commands PROVE CountersInv'
    OBVIOUS
  <1>0. /\ stage = "idle" /\ todo = <<>> /\ climb = NoClimb /\ cause = NoCause /\ Tidy
        /\ value \in [Node -> Value] /\ Settable \subseteq Node
    BY CircuitAssumption DEF Commands, Control, Tidy, CauseIsValue, Sound, StepTypeOK
  <1>1. ASSUME NEW n, NEW v, NEW s, Set(n, v, s) PROVE CountersInv'
    BY <1>0, <1>1, RestCounters DEF Set, SetNode, stepVars, engineVars
  <1>2. ASSUME NEW n, NEW v, NEW s, SetForced(n, v, s) PROVE CountersInv'
    BY <1>0, <1>2, RestCounters DEF SetForced, SetNodeForced, stepVars, engineVars
  <1>3. ASSUME NEW n, Deschedule(n) PROVE CountersInv'
    BY <1>0, <1>3, RestCounters DEF Deschedule, DescheduleEvent, stepVars, engineVars
  <1>4. ASSUME NEW n, Freeze(n) PROVE CountersInv'
    BY <1>0, <1>4, RestCounters DEF Freeze, FreezeNode, engineVars
  <1>5. ASSUME NEW n, NEW d, Unset(n, d) PROVE CountersInv'
    BY <1>0, <1>5, RestCounters DEF Unset, UnsetNode, engineVars
  <1>6. ASSUME NEW n \in Node, NEW v \in Value, CommitNow(n, v) PROVE CountersInv'
    <2>1. CASE phase' = "propagate"
      <3>1. Begin(n, v) /\ value' = [value EXCEPT ![n] = v]
        BY <1>6, <2>1 DEF CommitNow, SetNow
      <3>2. QED
        BY <1>0, <3>1, BeginCounters
    <2>2. CASE phase' # "propagate"
      <3>1. UNCHANGED <<value, expr, fanin, stage, todo, climb>>
        BY <1>6, <2>2 DEF CommitNow, SetNow, Refused, engineVars
      <3>2. QED
        BY <1>0, <3>1, RestCounters
    <2>3. QED
      BY <2>1, <2>2
  <1>7. ASSUME NEW s, NEW b, Reinitialize(s, b) PROVE CountersInv'
    <2>1. /\ value' = [n \in Node |-> LOGIC_OTHER] /\ expr' = ExprInit /\ fanin' = FaninInit
          /\ todo' = <<>> /\ climb' = NoClimb
      BY <1>0, <1>7 DEF Reinitialize, Initialize
    <2>2. \A n \in Node : Seen(stage', cause', value')[n] = LOGIC_OTHER
      BY <2>1 DEF Seen
    <2>3. QED
      BY <2>1, <2>2, FreshCounters
  <1>8. ASSUME NEW b, CheckExcl(b) PROVE CountersInv'
    BY <1>0, <1>8, RestCounters DEF CheckExcl, vars
  <1>9. ASSUME Load PROVE CountersInv'
    <2>1. /\ stage' = "load" /\ cause' = NoCause /\ expr' = ExprInit /\ fanin' = FaninInit
          /\ todo' = <<>> /\ climb' = NoClimb
      BY <1>0, <1>9 DEF Load
    <2>2. \A n \in Node : n > 0
      BY NodeFacts
    <2>3. \A n \in Node : Seen(stage', cause', value')[n] = LOGIC_OTHER
      BY <2>1, <2>2, NoCauseType DEF Seen
    <2>4. QED
      BY <2>1, <2>3, FreshCounters
  <1>10. QED
    BY <1>0, <1>1, <1>2, <1>3, <1>4, <1>5, <1>6, <1>7, <1>8, <1>9 DEF Commands

LEMMA EngineCounters == Sound /\ Control /\ CountersInv /\ Engine => CountersInv'
  <1> SUFFICES ASSUME Sound, Control, CountersInv, Engine PROVE CountersInv'
    OBVIOUS
  <1>0. /\ ControlTypeOK /\ InStep /\ Loading /\ Tidy /\ CauseIsValue
        /\ value \in [Node -> Value] /\ Structures
        /\ expr \in [ExprId -> Counter] /\ fanin \in [Node -> [Group -> Counter]]
        /\ ExprsAgree(expr, Seen(stage, cause, value), todo, cause, climb)
        /\ FaninsAgree(expr, fanin, climb)
    BY DEF Control, Sound, StepTypeOK, CountersInv, CounterTypeOK
  <1>1. ASSUME NEW i \in DOMAIN todo, EvaluateNext(i) PROVE CountersInv'
    <2>1. /\ climb = NoClimb /\ todo' = SeqExt!RemoveAt(todo, i)
          /\ climb' = [expr |-> todo[i], rule |-> 0, prev |-> cause.prev, next |-> cause.val]
          /\ UNCHANGED <<value, stage, cause, expr, fanin>>
      BY <1>1 DEF EvaluateNext, vars
    <2>2. climb'.expr = todo[i] /\ climb'.rule = 0
          /\ climb'.prev = cause.prev /\ climb'.next = cause.val
      BY <2>1
    <2>3. ExprsAgree(expr, Seen(stage, cause, value), SeqExt!RemoveAt(todo, i), cause, climb')
      <3>1. todo \in Seq(ExprId)
        BY <1>0 DEF ControlTypeOK
      <3>2. ExprsAgree(expr, Seen(stage, cause, value), todo, cause, NoClimb)
        BY <1>0, <2>1
      <3>3. QED
        BY <2>2, <3>1, <3>2, NextAgree
    <2>4. FaninsAgree(expr, fanin, climb')
      <3>1. \A n, g, x : Rise(n, g, x, climb') = 0 /\ Rise(n, g, x, climb) = 0
        BY <2>1, <2>2, NoClimbType, RulesOfFinite, QueueAssumption DEF Rise
      <3>2. QED
        BY <1>0, <3>1 DEF FaninsAgree
    <2>5. QED
      BY <1>0, <2>1, <2>3, <2>4 DEF CountersInv, CounterTypeOK
  <1>2. ASSUME EvaluateExpr PROVE CountersInv'
    <2> DEFINE e == climb.expr
               c == Count(expr[e], Decisive(e), climb.prev, climb.next)
               old == pull_state(e, expr[e])
               new == pull_state(e, c)
    <2>1. /\ e \in ExprId /\ climb.rule = 0 /\ climb \in Climb /\ e # 0
          /\ expr' = [expr EXCEPT ![e] = c]
          /\ climb' = CASE old = new -> NoClimb
                        [] old # new /\ Expr[e].root ->
                              [expr |-> 0, rule |-> e, prev |-> old, next |-> new]
                        [] old # new /\ ~Expr[e].root ->
                              [expr |-> Expr[e].parent, rule |-> 0,
                               prev |-> old, next |-> new]
          /\ UNCHANGED <<value, stage, cause, todo, fanin>>
      BY <1>0, <1>2 DEF EvaluateExpr, vars, ControlTypeOK, Climb, Tidy
    <2>2. expr'[e] = c /\ OnlyAt(ExprId, e, expr, expr')
      BY <1>0, <2>1 DEF OnlyAt
    <2>9. new = pull_state(e, expr'[e])
      BY <2>2
    <2>3. todo \in Seq(ExprId)
      BY <1>0 DEF ControlTypeOK
    <2>8. ClimbsOn(climb', e, old, new)
      <3> HIDE DEF old, new, c
      <3>1. CASE old = new
        BY <2>1, <3>1, NoClimbType DEF ClimbsOn
      <3>2. CASE old # new /\ Expr[e].root
        <4>1. climb' = [expr |-> 0, rule |-> e, prev |-> old, next |-> new]
          BY <2>1, <3>2
        <4>2. QED
          BY <3>2, <4>1 DEF ClimbsOn
      <3>3. CASE old # new /\ ~Expr[e].root
        <4>1. climb' = [expr |-> Expr[e].parent, rule |-> 0, prev |-> old, next |-> new]
          BY <2>1, <3>3
        <4>2. QED
          BY <3>3, <4>1 DEF ClimbsOn
      <3>4. QED
        BY <3>1, <3>2, <3>3
    <2>10. Turn(expr, expr', climb, climb')
      BY <2>2, <2>8, <2>9 DEF Turn
    <2> DEFINE seen == Seen(stage, cause, value)
    <2>4. ExprsAgree(expr, seen, todo, cause, climb)
      BY <1>0
    <2>5. /\ c \in Counter
          /\ ExprsAgree(expr', seen, todo, cause, climb')
          /\ FaninsAgree(expr', fanin, climb')
      <3>1. climb \in Climb /\ climb.expr # 0 /\ climb.rule = 0
        BY <2>1
      <3> HIDE DEF seen
      <3>2. QED
        BY <1>0, <2>3, <2>4, <2>10, <3>1, ClimbAgree
    <2>6. expr' \in [ExprId -> Counter]
      <3> HIDE DEF c
      <3>1. QED
        BY <1>0, <2>1, <2>5
    <2>7. QED
      BY <1>0, <2>1, <2>5, <2>6 DEF CountersInv, CounterTypeOK
  <1>3. ASSUME EvaluateRoot PROVE CountersInv'
    <2>1. /\ Root \in Rule /\ Root # 0 /\ climb' = NoClimb /\ UNCHANGED <<stage, cause, todo, expr>>
          /\ fanin' = [fanin EXCEPT ![RootNode] = RootFanin]
      BY <1>0, <1>3 DEF EvaluateRoot, ControlTypeOK, Climb, Root
    <2>2. UNCHANGED value
      BY <1>3 DEF EvaluateRoot, PropagateKill, stepVars, vars
    <2>3. RootFanin = [fanin[RootNode] EXCEPT ![RootGroup] =
                            Count(fanin[RootNode][RootGroup], PULL_ON, climb.prev, climb.next)]
      BY <1>0, <2>1, RuleFacts DEF RootFanin, RootNode, RootGroup
    <2> DEFINE c == Count(fanin[RootNode][RootGroup], PULL_ON, climb.prev, climb.next)
    <2>8. RootNode \in Node /\ RootGroup \in Group
      BY <2>1, RuleFacts DEF RootNode, RootGroup
    <2>9. Recounted(fanin, fanin', climb)
      <3> HIDE DEF c
      <3>1. RootFanin = [fanin[RootNode] EXCEPT ![RootGroup] = c]
        BY <2>3 DEF c
      <3>2. QED
        BY <1>0, <2>1, <2>8, <3>1 DEF Recounted, c, Root, RootNode, RootGroup
    <2>10. c \in Counter /\ FaninsAgree(expr, fanin', NoClimb)
      <3>1. climb.rule \in Rule
        BY <2>1 DEF Root
      <3>2. QED
        BY <1>0, <2>9, <3>1, RiseAgree DEF Root, RootNode, RootGroup
    <2>4. fanin' \in [Node -> [Group -> Counter]] /\ FaninsAgree(expr, fanin', NoClimb)
      <3>1. RootFanin = [fanin[RootNode] EXCEPT ![RootGroup] = c]
        BY <2>3
      <3> HIDE DEF c
      <3>2. QED
        BY <1>0, <2>1, <2>8, <2>10, <3>1
    <2>5. climb.expr = 0
      BY <1>0, <2>1 DEF Tidy, Root
    <2>6. ExprsAgree(expr, Seen(stage, cause, value), todo, cause, NoClimb)
      <3>1. \A e \in ExprId : e # 0
        BY CircuitAssumption
      <3>2. \A e \in ExprId : \A x :
                Due(e, x, todo, cause, NoClimb) = Due(e, x, todo, cause, climb)
        BY <2>5, <3>1, NoClimbType DEF Due
      <3>3. QED
        BY <1>0, <3>2 DEF ExprsAgree
    <2>7. QED
      BY <1>0, <2>1, <2>2, <2>4, <2>6 DEF CountersInv, CounterTypeOK
  <1>4. ASSUME Enforce PROVE CountersInv'
    BY <1>0, <1>4, RestCounters DEF Enforce, vars
  <1>5. ASSUME NEW d, Flush(d) PROVE CountersInv'
    <2>1. stage = "flush" /\ UNCHANGED <<value, expr, fanin, stage, todo, climb>>
      BY <1>5 DEF Flush, FlushSchedule, FlushKill, FlushOverwrite, vars
    <2>2. QED
      BY <1>0, <2>1, RestCounters DEF Tidy
  <1>6. ASSUME Return PROVE CountersInv'
    <2>1. /\ phase \in {"propagate", "unwind"}
          /\ phase = "propagate" => stage = "flush"
          /\ stage' = "idle" /\ UNCHANGED <<value, expr, fanin, todo, climb>>
      BY <1>6 DEF Return, StepReturn
    <2>2. stage \in {"idle", "flush"}
      BY <1>0, <2>1 DEF ControlTypeOK, Stage, InStep, Loading
    <2>3. QED
      BY <1>0, <2>1, <2>2, RestCounters DEF Tidy
  <1>7. ASSUME NEW n \in Node, LoadNode(n) PROVE CountersInv'
    <2> DEFINE old == Seen(stage, cause, value)
               new == Seen(stage', cause', value')
    <2>1. /\ stage = "load" /\ climb = NoClimb /\ todo = <<>>
          /\ n \in Unloaded /\ \A m \in Unloaded : n <= m
          /\ cause' = [node |-> n, val |-> value[n], prev |-> LOGIC_OTHER]
          /\ todo' = Fanout[n] /\ UNCHANGED <<value, stage, climb, expr, fanin>>
      BY <1>7 DEF LoadNode, vars
    <2>2. Node \subseteq Nat /\ cause.node \in Nat /\ n > cause.node
      BY <1>0, <2>1, NodeFacts DEF Unloaded, ControlTypeOK, Cause
    <2>3. ASSUME NEW m \in Node, m # n PROVE new[m] = old[m]
      <3>1. new[m] = (IF m > n THEN LOGIC_OTHER ELSE value[m])
            /\ old[m] = (IF m > cause.node THEN LOGIC_OTHER ELSE value[m])
        BY <2>1 DEF Seen
      <3>2. m > cause.node /\ ~(m > n) => value[m] = LOGIC_OTHER
        BY <2>1, <2>2, <2>3 DEF Unloaded
      <3>3. m > n => m > cause.node
        BY <2>2
      <3>4. QED
        BY <3>1, <3>2, <3>3
    <2>4. cause'.prev = old[n] /\ cause'.val = new[n]
      BY <2>1, <2>2 DEF Seen
    <2>5. OnlyAt(Node, n, old, new) /\ ExprsAgree(expr, old, <<>>, cause, NoClimb)
      BY <1>0, <2>1, <2>3 DEF OnlyAt
    <2>6. ExprsAgree(expr, new, Fanout[n], cause', NoClimb)
      <3> HIDE DEF old, new
      <3>1. QED
        BY <1>0, <2>4, <2>5, StartAgree
    <2>7. QED
      BY <1>0, <2>1, <2>6 DEF CountersInv, CounterTypeOK
  <1>8. ASSUME LoadEvents PROVE CountersInv'
    <2>1. /\ stage = "load" /\ todo = <<>> /\ climb = NoClimb /\ Unloaded = {}
          /\ stage' # "load" /\ UNCHANGED <<value, todo, climb, expr, fanin>>
      BY <1>8 DEF LoadEvents, Restore, stepVars
    <2>2. Seen(stage, cause, value) = value
      BY <1>0, <2>1 DEF Seen, Unloaded
    <2>3. ExprsAgree(expr, value, <<>>, cause', NoClimb)
      BY <1>0, <2>1, <2>2, RestAgree
    <2>4. Seen(stage', cause', value') = value
      BY <1>0, <2>1, SeenAll
    <2>5. QED
      BY <1>0, <2>1, <2>3, <2>4 DEF CountersInv, CounterTypeOK
  <1>9. ASSUME NEW n \in Node, LoadLock(n) PROVE CountersInv'
    BY <1>0, <1>9, RestCounters DEF LoadLock, vars, Tidy
  <1>10. ASSUME LoadDone PROVE CountersInv'
    BY <1>0, <1>10, RestCounters DEF LoadDone, vars, Tidy
  <1>11. CASE Dequeue
    <2>0. stage = "idle"
      BY <1>11 DEF Dequeue
    <2>1. CASE Nothing
      BY <1>0, <2>0, <2>1, RestCounters DEF Nothing, StepNothing, engineVars, Tidy
    <2>2. ASSUME NEW k \in DOMAIN queue, Skip(k) PROVE CountersInv'
      <3>1. UNCHANGED <<value, engineVars>>
        BY <2>2 DEF Skip, StepXX, StepVacuous
      <3>2. QED
        BY <1>0, <2>0, <3>1, RestCounters DEF engineVars, Tidy
    <2>3. ASSUME NEW k \in DOMAIN queue, Refuse(k) PROVE CountersInv'
      <3>1. UNCHANGED <<value, expr, fanin, stage, todo, climb>>
        BY <2>3 DEF Refuse, StepExclRefused, Refused
      <3>2. QED
        BY <1>0, <2>0, <3>1, RestCounters DEF Tidy
    <2>4. ASSUME NEW k \in DOMAIN queue, Commit(k) PROVE CountersInv'
      <3> DEFINE e == pool[queue[k].ev]
      <3>1. /\ FirstLive(k) /\ value' = [value EXCEPT ![e.node] = e.val]
            /\ Begin(e.node, e.val)
        BY <2>4 DEF Commit, StepCommit, Executing
      <3>2. e \in Event /\ e.node \in Node
        BY <1>0, <3>1, FrontFacts
      <3>3. e.val \in Value
        BY <3>2 DEF Event
      <3> HIDE DEF e
      <3>4. QED
        BY <1>0, <2>0, <3>1, <3>2, <3>3, BeginCounters
    <2>5. QED
      BY <1>11, <2>1, <2>2, <2>3, <2>4 DEF Dequeue
  <1>12. QED
    BY <1>1, <1>2, <1>3, <1>4, <1>5, <1>6, <1>7, <1>8, <1>9, <1>10, <1>11 DEF Engine

LEMMA CountersStep == Sound /\ Control /\ CountersInv /\ [EngineNext]_allVars => CountersInv'
  <1>1. ASSUME CountersInv, UNCHANGED allVars PROVE CountersInv'
    <2>1. UNCHANGED <<value, expr, fanin, stage, cause, todo, climb>>
      BY <1>1 DEF allVars, vars, engineVars
    <2>2. QED
      BY <1>1, <2>1 DEF CountersInv, CounterTypeOK
  <1>2. QED
    BY <1>1, CommandsCounters, EngineCounters DEF EngineNext

LEMMA CountersAlwaysHold == EngineSpec => []CountersInv
  <1>1. EngineInit => CountersInv
    <2> SUFFICES ASSUME EngineInit PROVE CountersInv
      OBVIOUS
    <2>1. /\ \A n \in Node : Seen(stage, cause, value)[n] = LOGIC_OTHER
          /\ expr = ExprInit /\ fanin = FaninInit /\ todo = <<>> /\ climb = NoClimb
      BY DEF EngineInit, Init, Seen
    <2>2. QED
      BY <2>1, FreshAgree DEF CountersInv, CounterTypeOK
  <1>2. QED
    BY <1>1, CountersStep, EngineInvariant, PTL DEF EngineSpec

\* evaluate_kernel and evaluate keep the counters of every expression and rule
\* group what a recount from the values of the nodes gives, in every circuit,
\* session, mode and order of evaluation, also after initialize and when a
\* checkpoint was loaded.
THEOREM CountersAlwaysAgree == EngineSpec => []CountersAgree
  <1>1. Sound /\ Control /\ CountersInv => CountersAgree
    <2> SUFFICES ASSUME Sound, Control, CountersInv, stage = "idle" PROVE CountersAgree
      BY DEF CountersAgree
    <2>1. /\ todo = <<>> /\ climb = NoClimb /\ Seen(stage, cause, value) = value
          /\ expr \in [ExprId -> Counter] /\ fanin \in [Node -> [Group -> Counter]]
          /\ ExprsAgree(expr, Seen(stage, cause, value), todo, cause, climb)
          /\ FaninsAgree(expr, fanin, climb)
      BY SeenAll DEF Control, Tidy, Sound, StepTypeOK, CountersInv, CounterTypeOK
    <2>2. ASSUME NEW e \in ExprId
          PROVE  expr[e] = [countdown |-> CountOf(e, Decisive(e)),
                            unknowns |-> CountOf(e, PULL_WEAK)]
      <3>1. ASSUME NEW x \in {Decisive(e), PULL_WEAK} PROVE Tally(expr[e], x) = CountOf(e, x)
        <4>1. Tally(expr[e], x) = LeafCount(e, value, x) + KidCount(e, expr, x) - 0
          BY <2>1, DueAtRest DEF ExprsAgree
        <4>2. LeafCount(e, value, x) \in Int /\ KidCount(e, expr, x) \in Int
          BY CountTypes
        <4>3. Tally(expr[e], x) = LeafCount(e, value, x) + KidCount(e, expr, x)
          BY <4>1, <4>2
        <4>4. QED
          BY <4>3 DEF CountOf, LeafCount, KidCount
      <3>2. expr[e].countdown = CountOf(e, Decisive(e)) /\ expr[e].unknowns = CountOf(e, PULL_WEAK)
        BY <3>1, DecisiveFacts DEF Tally
      <3>3. expr[e] \in Counter
        BY <2>1
      <3>4. QED
        BY <3>2, <3>3 DEF Counter
    <2>3. ASSUME NEW n \in Node, NEW g \in Group
          PROVE  fanin[n][g] =
                    [countdown |-> Cardinality({r \in RulesOf(n, g) :
                                                pull_state(r, expr[r]) = PULL_ON}),
                     unknowns  |-> Cardinality({r \in RulesOf(n, g) :
                                                pull_state(r, expr[r]) = PULL_WEAK})]
      <3>1. ASSUME NEW x \in {PULL_ON, PULL_WEAK}
            PROVE  Tally(fanin[n][g], x) = RuleCount(n, g, expr, x)
        <4>1. Rise(n, g, x, NoClimb) = 0
          BY NoClimbType, RulesOfFinite, QueueAssumption DEF Rise
        <4>2. Tally(fanin[n][g], x) = RuleCount(n, g, expr, x) - 0
          BY <2>1, <4>1 DEF FaninsAgree
        <4>3. RuleCount(n, g, expr, x) \in Int
          BY CountTypes
        <4>4. QED
          BY <4>2, <4>3
      <3>2. fanin[n][g].countdown = RuleCount(n, g, expr, PULL_ON)
            /\ fanin[n][g].unknowns = RuleCount(n, g, expr, PULL_WEAK)
        BY <3>1 DEF Tally, PULL_ON, PULL_WEAK
      <3>3. fanin[n][g] \in Counter
        BY <2>1
      <3>4. QED
        BY <3>2, <3>3 DEF Counter, RuleCount
    <2>4. QED
      BY <2>2, <2>3 DEF CountersAgree
  <1>2. QED
    BY <1>1, CountersAlwaysHold, EngineInvariant, PTL

-----------------------------------------------------------------------------
(* The counters of the forced exclusion rings.                               *)

\* The members of ring i that are v.
Active(rings, i, val, v) == {n \in rings[i] : val[n] = v}

\* How many there are.
RingsAgree(count, rings, val, v) ==
    \A i \in DOMAIN rings : count[i] = Cardinality(Active(rings, i, val, v))

IsRings(rings) == \A i \in DOMAIN rings : i \in Nat /\ rings[i] \subseteq Node

LEMMA RingFacts == IsRings(MkExHi) /\ IsRings(MkExLo) /\ IsRings(CheckExHi) /\ IsRings(CheckExLo)
  BY CircuitAssumption DEF IsRings

\* A node changes: the rings it is in have one active member more, or less.
LEMMA ActiveChange ==
    ASSUME NEW rings, IsRings(rings), NEW i \in DOMAIN rings, NEW n, NEW val, NEW new, NEW v,
           OnlyAt(Node, n, val, new)
    PROVE  /\ Cardinality(Active(rings, i, val, v)) \in Nat
           /\ Cardinality(Active(rings, i, new, v)) = Cardinality(Active(rings, i, val, v))
                + (IF n \in rings[i] /\ new[n] = v THEN 1 ELSE 0)
                - (IF n \in rings[i] /\ val[n] = v THEN 1 ELSE 0)
           /\ n \in rings[i] /\ val[n] = v => Cardinality(Active(rings, i, val, v)) # 0
  <1> DEFINE A == Active(rings, i, val, v)
             B == Active(rings, i, new, v)
  <1>1. rings[i] \in SUBSET Node
    BY DEF IsRings
  <1>2. A \in SUBSET Node /\ B \in SUBSET Node
    BY <1>1 DEF Active
  <1>3. IsFiniteSet(A) /\ IsFiniteSet(B)
    <2> HIDE DEF A, B
    <2>1. QED
      BY <1>2, ElseFinite, CircuitAssumption
  <1>4. A \ {n} = B \ {n}
    BY <1>1 DEF OnlyAt, Active
  <1>5. /\ n \in A <=> n \in rings[i] /\ val[n] = v
        /\ n \in B <=> n \in rings[i] /\ new[n] = v
    BY DEF Active
  <1> HIDE DEF A, B
  <1>6. /\ Cardinality(A) \in Nat
        /\ Cardinality(B) = Cardinality(A)
                + (IF n \in B THEN 1 ELSE 0) - (IF n \in A THEN 1 ELSE 0)
    BY <1>3, <1>4, OneElement
  <1>7. n \in A => Cardinality(A) # 0
    BY <1>3, FS_EmptySet
  <1>8. QED
    BY <1>5, <1>6, <1>7 DEF A, B

\* The values the counters stand for: a committed change is counted when all
\* its fanouts are done.
Before(st, cs, val) ==
    [n \in Node |-> IF st = "evaluate" /\ n = cs.node THEN cs.prev ELSE val[n]]

RingsInv ==
    /\ RingsAgree(ring.hi, MkExHi, Before(stage, cause, value), LOGIC_HIGH)
    /\ RingsAgree(ring.lo, MkExLo, Before(stage, cause, value), LOGIC_LOW)

LEMMA RingCountAgree ==
    ASSUME NEW rings, IsRings(rings), NEW count, NEW v, NEW val, NEW new,
           OnlyAt(Node, cause.node, val, new),
           val[cause.node] = cause.prev, new[cause.node] = cause.val,
           RingsAgree(count, rings, val, v)
    PROVE  RingsAgree(RingCount(count, rings, v), rings, new, v)
  <1> SUFFICES ASSUME NEW i \in DOMAIN rings
               PROVE  RingCount(count, rings, v)[i] = Cardinality(Active(rings, i, new, v))
    BY DEF RingsAgree
  <1> DEFINE n == cause.node
  <1>1. /\ Cardinality(Active(rings, i, val, v)) \in Nat
        /\ Cardinality(Active(rings, i, new, v)) = Cardinality(Active(rings, i, val, v))
                + (IF n \in rings[i] /\ new[n] = v THEN 1 ELSE 0)
                - (IF n \in rings[i] /\ val[n] = v THEN 1 ELSE 0)
    BY ActiveChange
  <1>2. RingCount(count, rings, v)[i] =
            count[i] + IF n \notin rings[i] THEN 0
                       ELSE IF Locks(v) THEN 1 ELSE IF Frees(v) THEN -1 ELSE 0
    BY DEF RingCount, RingsOfCause
  <1>3. count[i] = Cardinality(Active(rings, i, val, v))
    BY DEF RingsAgree
  <1>4. /\ Locks(v) <=> new[n] = v /\ val[n] # v
        /\ Frees(v) <=> new[n] # v /\ val[n] = v
    BY DEF Locks, Frees
  <1>5. QED
    BY <1>1, <1>2, <1>3, <1>4

LEMMA RestRings ==
    ASSUME RingsInv, value \in [Node -> Value], stage # "evaluate", stage' # "evaluate",
           UNCHANGED <<value, ring>>
    PROVE  RingsInv'
  <1>1. Before(stage, cause, value) = value /\ Before(stage', cause', value') = value
    BY DEF Before
  <1>2. QED
    BY <1>1 DEF RingsInv

LEMMA BeginRings ==
    ASSUME RingsInv, stage # "evaluate", value \in [Node -> Value],
           NEW n \in Node, NEW v, Begin(n, v), value' = [value EXCEPT ![n] = v]
    PROVE  RingsInv'
  <1>1. /\ stage' = "evaluate" /\ cause' = [node |-> n, val |-> v, prev |-> value[n]]
        /\ ring' = ring
    BY DEF Begin
  <1>2. Before(stage, cause, value) = value
    BY DEF Before
  <1>3. Before(stage', cause', value') = value
    BY <1>1 DEF Before
  <1>4. QED
    BY <1>1, <1>2, <1>3 DEF RingsInv

LEMMA RingsStep ==
    ASSUME "initialize" \notin Session, "checkpoint" \notin Session
    PROVE  Sound /\ Control /\ RingsInv /\ [EngineNext]_allVars => RingsInv'
  <1> SUFFICES ASSUME Sound, Control, RingsInv, [EngineNext]_allVars PROVE RingsInv'
    OBVIOUS
  <1>0. /\ ControlTypeOK /\ InStep /\ Loading /\ Tidy /\ CauseIsValue
        /\ value \in [Node -> Value] /\ Structures
    BY DEF Control, Sound, StepTypeOK
  <1>1. CASE UNCHANGED <<value, ring, stage, cause>>
    BY <1>1 DEF RingsInv
  <1>2. CASE stage # "evaluate" /\ stage' # "evaluate" /\ UNCHANGED <<value, ring>>
    BY <1>0, <1>2, RestRings
  <1>3. ASSUME NEW n \in Node, NEW v, stage = "idle", Begin(n, v),
               value' = [value EXCEPT ![n] = v]
        PROVE  RingsInv'
    BY <1>0, <1>3, BeginRings
  <1>4. CASE Commands
    <2>1. ASSUME NEW n \in Node, NEW v, CommitNow(n, v) PROVE RingsInv'
      <3>1. CASE phase' = "propagate"
        BY <1>3, <1>4, <2>1, <3>1 DEF CommitNow, SetNow, Commands
      <3>2. CASE phase' # "propagate"
        <4>1. UNCHANGED <<value, ring, stage, cause>>
          BY <2>1, <3>2 DEF CommitNow, SetNow, Refused, engineVars
        <4>2. QED
          BY <4>1, <1>1
      <3>3. QED
        BY <3>1, <3>2
    <2>2. ASSUME ~\E n \in Node, v \in Value : CommitNow(n, v) PROVE RingsInv'
      <3>1. UNCHANGED <<value, ring, stage, cause>>
        BY <1>4, <2>2, CircuitAssumption DEF Commands, Set, SetForced, Deschedule, Freeze, Unset,
            Reinitialize, CheckExcl, Load, SetNode, SetNodeForced, DescheduleEvent, FreezeNode,
            UnsetNode, Initialize, stepVars, vars, engineVars
      <3>2. QED
        BY <3>1, <1>1
    <2>3. QED
      BY <2>1, <2>2
  <1>5. CASE Dequeue
    <2>1. ASSUME NEW k \in DOMAIN queue, Commit(k) PROVE RingsInv'
      <3> DEFINE e == pool[queue[k].ev]
      <3>1. /\ FirstLive(k) /\ value' = [value EXCEPT ![e.node] = e.val]
            /\ Begin(e.node, e.val)
        BY <2>1 DEF Commit, StepCommit, Executing
      <3>2. e.node \in Node
        BY <1>0, <3>1, FrontFacts
      <3> HIDE DEF e
      <3>3. QED
        BY <1>3, <1>5, <3>1, <3>2 DEF Dequeue
    <2>2. ASSUME ~\E k \in DOMAIN queue : Commit(k) PROVE RingsInv'
      <3>1. UNCHANGED <<value, ring, stage, cause>>
        BY <1>5, <2>2 DEF Dequeue, Nothing, StepNothing, Skip, StepXX, StepVacuous, Refuse,
            StepExclRefused, Refused, engineVars
      <3>2. QED
        BY <3>1, <1>1
    <2>3. QED
      BY <2>1, <2>2
  <1>6. ASSUME Enforce PROVE RingsInv'
    <2> DEFINE old == Before(stage, cause, value)
    <2>1. /\ stage = "evaluate" /\ stage' = "flush" /\ UNCHANGED <<value, cause>>
          /\ ring' = [hi |-> RingCount(ring.hi, MkExHi, LOGIC_HIGH),
                      lo |-> RingCount(ring.lo, MkExLo, LOGIC_LOW)]
      BY <1>6 DEF Enforce, vars
    <2>2. cause.node \in Node /\ cause.node # 0 /\ cause.val = value[cause.node]
      BY <1>0, <2>1, NodeFacts DEF CauseIsValue
    <2>3. /\ OnlyAt(Node, cause.node, old, value)
          /\ old[cause.node] = cause.prev /\ value[cause.node] = cause.val
      BY <2>1, <2>2 DEF OnlyAt, Before
    <2>4. RingsAgree(ring.hi, MkExHi, old, LOGIC_HIGH) /\ RingsAgree(ring.lo, MkExLo, old, LOGIC_LOW)
      BY DEF RingsInv
    <2>5. Before(stage', cause', value') = value
      BY <1>0, <2>1 DEF Before
    <2> HIDE DEF old
    <2>6. /\ RingsAgree(RingCount(ring.hi, MkExHi, LOGIC_HIGH), MkExHi, value, LOGIC_HIGH)
          /\ RingsAgree(RingCount(ring.lo, MkExLo, LOGIC_LOW), MkExLo, value, LOGIC_LOW)
      BY <2>3, <2>4, RingFacts, RingCountAgree
    <2>7. ring'.hi = RingCount(ring.hi, MkExHi, LOGIC_HIGH)
          /\ ring'.lo = RingCount(ring.lo, MkExLo, LOGIC_LOW)
      BY <2>1
    <2>8. QED
      BY <2>5, <2>6, <2>7 DEF RingsInv
  <1>7. ASSUME Return PROVE RingsInv'
    <2>1. /\ phase \in {"propagate", "unwind"}
          /\ phase = "propagate" => stage = "flush"
          /\ stage' = "idle" /\ UNCHANGED <<value, ring>>
      BY <1>7 DEF Return, StepReturn
    <2>2. stage # "evaluate"
      BY <1>0, <2>1 DEF InStep
    <2>3. QED
      BY <2>1, <2>2, <1>2
  <1>8. ASSUME NEW d, Flush(d) PROVE RingsInv'
    BY <1>1, <1>8 DEF Flush, FlushSchedule, FlushKill, FlushOverwrite, vars
  <1>9. ASSUME EvaluateRoot PROVE RingsInv'
    BY <1>1, <1>9 DEF EvaluateRoot, PropagateKill, stepVars, vars
  <1>10. ASSUME NEW n, LoadNode(n) PROVE RingsInv'
    BY <1>2, <1>10 DEF LoadNode, vars
  <1>11. ASSUME LoadEvents PROVE RingsInv'
    BY <1>2, <1>11 DEF LoadEvents, Restore, stepVars
  <1>12. ASSUME NEW n, LoadLock(n) PROVE RingsInv'
    BY <1>2, <1>12 DEF LoadLock, vars
  <1>13. ASSUME LoadDone PROVE RingsInv'
    BY <1>2, <1>13 DEF LoadDone, vars
  <1>14. ASSUME NEW i, EvaluateNext(i) PROVE RingsInv'
    BY <1>1, <1>14 DEF EvaluateNext, vars
  <1>15. ASSUME EvaluateExpr PROVE RingsInv'
    BY <1>1, <1>15 DEF EvaluateExpr, vars
  <1>16. CASE UNCHANGED allVars
    BY <1>1, <1>16 DEF allVars, vars, engineVars
  <1>17. QED
    BY <1>4, <1>5, <1>6, <1>7, <1>8, <1>9, <1>10, <1>11, <1>12, <1>13, <1>14, <1>15, <1>16
    DEF EngineNext, Engine

\* The counters of the mk_excl rings are the numbers of their active members:
\* enforce_exclhi and enforce_excllo, which see one change at a time and only
\* after its propagation, never lose one.  initialize and load_checkpoint are
\* left out: they do not set the counters to what the values are.
THEOREM RingCountsAlwaysAgree ==
    ASSUME "initialize" \notin Session, "checkpoint" \notin Session
    PROVE  EngineSpec => []RingCountAgrees
  <1>1. EngineInit => RingsInv
    <2> SUFFICES ASSUME EngineInit PROVE RingsInv
      OBVIOUS
    <2>1. /\ \A n \in Node : Before(stage, cause, value)[n] = LOGIC_OTHER
          /\ ring.hi = [i \in DOMAIN MkExHi |-> 0] /\ ring.lo = [i \in DOMAIN MkExLo |-> 0]
      BY DEF EngineInit, Init, Before, RingInit
    <2>2. /\ \A i \in DOMAIN MkExHi : Active(MkExHi, i, Before(stage, cause, value), LOGIC_HIGH) = {}
          /\ \A i \in DOMAIN MkExLo : Active(MkExLo, i, Before(stage, cause, value), LOGIC_LOW) = {}
      BY <2>1, RingFacts DEF Active, IsRings, LOGIC_OTHER, LOGIC_HIGH, LOGIC_LOW
    <2>3. QED
      BY <2>1, <2>2, FS_EmptySet DEF RingsInv, RingsAgree
  <1>2. Sound /\ RingsInv => RingCountAgrees
    <2> SUFFICES ASSUME Sound, RingsInv, stage = "idle" PROVE RingCountAgrees
      BY DEF RingCountAgrees
    <2>1. Before(stage, cause, value) = value
      BY DEF Before, Sound, StepTypeOK
    <2>2. QED
      BY <2>1 DEF RingsInv, RingsAgree, RingCountAgrees, Active
  <1>3. QED
    BY <1>1, <1>2, RingsStep, EngineInvariant, PTL DEF EngineSpec

-----------------------------------------------------------------------------
(* The locks of the checked exclusion rings.                                 *)

\* A ring is locked if it has one active member, free if it has none, and
\* there is no other.
Locked(locked, rings, val, v) ==
    \A i \in DOMAIN rings :
        Cardinality(Active(rings, i, val, v)) = IF i \in locked THEN 1 ELSE 0

Check == [on : BOOLEAN, hi : SUBSET DOMAIN CheckExHi, lo : SUBSET DOMAIN CheckExLo,
          clean : BOOLEAN]

\* The values the locks stand for: while a checkpoint is loaded the nodes that
\* were not reached yet are X.
Noted(st, cs, val) ==
    [n \in Node |-> IF st = "lock" /\ n > cs.node THEN LOGIC_OTHER ELSE val[n]]

LocksHold(c, val) ==
    /\ Locked(c.hi, CheckExHi, val, LOGIC_HIGH)
    /\ Locked(c.lo, CheckExLo, val, LOGIC_LOW)

LocksInv ==
    /\ check \in Check
    /\ check.clean => check.on
    /\ check.clean /\ stage # "load" => LocksHold(check, Noted(stage, cause, value))

\* One ring set: a node that gets past the check leaves the locks right.
LEMMA LockStep ==
    ASSUME NEW rings, IsRings(rings), NEW locked \in SUBSET DOMAIN rings, NEW n \in Node,
           NEW val, NEW new, NEW v, OnlyAt(Node, n, val, new),
           Locked(locked, rings, val, v), ~Taken(locked, rings, n, v, new[n])
    PROVE  Locked(LockRings(locked, rings, n, v, val[n], new[n]), rings, new, v)
  <1> SUFFICES ASSUME NEW i \in DOMAIN rings
               PROVE  Cardinality(Active(rings, i, new, v)) =
                        IF i \in LockRings(locked, rings, n, v, val[n], new[n]) THEN 1 ELSE 0
    BY DEF Locked
  <1> DEFINE R == {j \in DOMAIN rings : n \in rings[j]}
             A == Cardinality(Active(rings, i, val, v))
             B == Cardinality(Active(rings, i, new, v))
  <1>1. /\ A \in Nat
        /\ B = A + (IF n \in rings[i] /\ new[n] = v THEN 1 ELSE 0)
                 - (IF n \in rings[i] /\ val[n] = v THEN 1 ELSE 0)
        /\ n \in rings[i] /\ val[n] = v => A # 0
    BY ActiveChange
  <1>2. A = IF i \in locked THEN 1 ELSE 0
    BY DEF Locked
  <1> HIDE DEF A, B
  <1>3. CASE new[n] = v
    <2>1. \A j \in locked : n \notin rings[j]
      BY <1>3 DEF Taken
    <2>2. R \cap locked = {}
      BY <2>1
    <2>3. LockRings(locked, rings, n, v, val[n], new[n]) = locked \cup R
      BY <1>3, <2>2 DEF LockRings
    <2>4. i \in R <=> n \in rings[i]
      OBVIOUS
    <2> HIDE DEF R
    <2>5. CASE n \in rings[i]
      <3>1. i \notin locked /\ i \in locked \cup R
        BY <2>1, <2>4, <2>5
      <3>2. A = 0 /\ val[n] # v
        BY <1>1, <1>2, <3>1, <2>5
      <3>3. B = 1
        BY <1>1, <1>3, <2>5, <3>2
      <3>4. QED
        BY <2>3, <3>1, <3>3 DEF B
    <2>6. CASE n \notin rings[i]
      <3>1. B = A /\ (i \in locked \cup R <=> i \in locked)
        BY <1>1, <2>4, <2>6
      <3>2. QED
        BY <1>2, <2>3, <3>1 DEF A, B
    <2>7. QED
      BY <2>5, <2>6
  <1>4. CASE new[n] # v /\ val[n] = v
    <2>1. LockRings(locked, rings, n, v, val[n], new[n]) = locked \ R
      BY <1>4 DEF LockRings
    <2>2. i \in R <=> n \in rings[i]
      OBVIOUS
    <2> HIDE DEF R
    <2>3. CASE n \in rings[i]
      <3>1. A = 1 /\ i \notin locked \ R
        BY <1>1, <1>2, <1>4, <2>2, <2>3
      <3>2. B = 0
        BY <1>1, <1>4, <2>3, <3>1
      <3>3. QED
        BY <2>1, <3>1, <3>2 DEF B
    <2>4. CASE n \notin rings[i]
      <3>1. B = A /\ (i \in locked \ R <=> i \in locked)
        BY <1>1, <2>2, <2>4
      <3>2. QED
        BY <1>2, <2>1, <3>1 DEF A, B
    <2>5. QED
      BY <2>3, <2>4
  <1>5. CASE new[n] # v /\ val[n] # v
    <2>1. LockRings(locked, rings, n, v, val[n], new[n]) = locked
      BY <1>5 DEF LockRings
    <2>2. B = A
      BY <1>1, <1>5
    <2>3. QED
      BY <1>2, <2>1, <2>2 DEF A, B
  <1>6. QED
    BY <1>3, <1>4, <1>5

LEMMA CheckedType ==
    ASSUME NEW c \in Check, NEW n, NEW prev, NEW next
    PROVE  /\ Checked(c, n, prev, next) \in Check
           /\ Checked(c, n, prev, next).on = c.on
           /\ Checked(c, n, prev, next).clean <=> c.clean /\ ~CheckFails(c, n, next)
  <1>1. /\ LockRings(c.hi, CheckExHi, n, LOGIC_HIGH, prev, next) \subseteq DOMAIN CheckExHi
        /\ LockRings(c.lo, CheckExLo, n, LOGIC_LOW, prev, next) \subseteq DOMAIN CheckExLo
    BY DEF Check, LockRings
  <1>2. CheckFails(c, n, next) \in BOOLEAN
    BY DEF CheckFails, Taken
  <1>3. QED
    BY <1>1, <1>2 DEF Check, Checked

\* Both sets: check_excl_rings.
LEMMA CheckedHolds ==
    ASSUME NEW c \in Check, NEW n \in Node, NEW val, NEW new, OnlyAt(Node, n, val, new),
           LocksHold(c, val), ~CheckFails(c, n, new[n])
    PROVE  LocksHold(Checked(c, n, val[n], new[n]), new)
  <1>1. /\ ~Taken(c.hi, CheckExHi, n, LOGIC_HIGH, new[n])
        /\ ~Taken(c.lo, CheckExLo, n, LOGIC_LOW, new[n])
    BY DEF CheckFails
  <1>2. c.hi \in SUBSET DOMAIN CheckExHi /\ c.lo \in SUBSET DOMAIN CheckExLo
    BY DEF Check
  <1>3. /\ Locked(LockRings(c.hi, CheckExHi, n, LOGIC_HIGH, val[n], new[n]), CheckExHi, new, LOGIC_HIGH)
        /\ Locked(LockRings(c.lo, CheckExLo, n, LOGIC_LOW, val[n], new[n]), CheckExLo, new, LOGIC_LOW)
    BY <1>1, <1>2, RingFacts, LockStep DEF LocksHold
  <1>4. /\ Checked(c, n, val[n], new[n]).hi = LockRings(c.hi, CheckExHi, n, LOGIC_HIGH, val[n], new[n])
        /\ Checked(c, n, val[n], new[n]).lo = LockRings(c.lo, CheckExLo, n, LOGIC_LOW, val[n], new[n])
    BY <1>1 DEF Checked, Check
  <1>5. QED
    BY <1>3, <1>4 DEF LocksHold

\* Nothing is active and nothing is locked.
LEMMA FreeHolds ==
    ASSUME NEW val, \A n \in Node : val[n] = LOGIC_OTHER, NEW c, c.hi = {}, c.lo = {}
    PROVE  LocksHold(c, val)
  <1>1. /\ \A i \in DOMAIN CheckExHi : Active(CheckExHi, i, val, LOGIC_HIGH) = {}
        /\ \A i \in DOMAIN CheckExLo : Active(CheckExLo, i, val, LOGIC_LOW) = {}
    BY RingFacts DEF Active, IsRings, LOGIC_OTHER, LOGIC_HIGH, LOGIC_LOW
  <1>2. QED
    BY <1>1, FS_EmptySet DEF LocksHold, Locked

LEMMA RestLocks ==
    ASSUME LocksInv, value \in [Node -> Value], stage \notin {"load", "lock"}, stage' # "lock",
           UNCHANGED <<value, check>>
    PROVE  LocksInv'
  <1>1. Noted(stage, cause, value) = value /\ Noted(stage', cause', value') = value
    BY DEF Noted
  <1>2. QED
    BY <1>1 DEF LocksInv

\* A check that failed leaves nothing to be trusted.
LEMMA RefusedLocks ==
    ASSUME LocksInv, NEW n, NEW v, Refused(n, v)
    PROVE  LocksInv'
  <1>1. /\ check' = Checked(check, n, value[n], v) /\ CheckFails(check, n, v)
        /\ check \in Check
    BY DEF Refused, LocksInv
  <1>2. check' \in Check /\ ~check'.clean
    BY <1>1, CheckedType
  <1>3. QED
    BY <1>2 DEF LocksInv

LEMMA BeginLocks ==
    ASSUME LocksInv, stage = "idle", value \in [Node -> Value], NEW n \in Node, NEW v \in Value,
           Passes(n, v), Begin(n, v), value' = [value EXCEPT ![n] = v]
    PROVE  LocksInv'
  <1>1. check \in Check /\ stage' = "evaluate"
    BY DEF LocksInv, Begin
  <1>2. /\ Noted(stage, cause, value) = value /\ Noted(stage', cause', value') = value'
        /\ OnlyAt(Node, n, value, value') /\ value'[n] = v
    BY <1>1 DEF Noted, OnlyAt
  <1>3. CASE ~check.on
    BY <1>3 DEF Passes, LocksInv
  <1>4. CASE check.on
    <2> DEFINE c == Checked(check, n, value[n], v)
    <2>1. check' = [c EXCEPT !.on = ~CheckFails(check, n, v)]
      BY <1>4 DEF Passes
    <2>2. c \in Check /\ (c.clean <=> check.clean /\ ~CheckFails(check, n, v))
      BY <1>1, CheckedType
    <2>3. CheckFails(check, n, v) \in BOOLEAN
      BY DEF CheckFails, Taken
    <2>4. check.clean /\ ~CheckFails(check, n, v) => LocksHold(c, value')
      <3>1. check.clean => LocksHold(check, value)
        BY <1>2 DEF LocksInv
      <3>2. ASSUME check.clean, ~CheckFails(check, n, v) PROVE LocksHold(c, value')
        <4>1. LocksHold(check, value) /\ ~CheckFails(check, n, value'[n])
          BY <1>2, <3>1, <3>2
        <4>2. LocksHold(Checked(check, n, value[n], value'[n]), value')
          BY <1>1, <1>2, <4>1, CheckedHolds
        <4>3. QED
          BY <1>2, <4>2
      <3>3. QED
        BY <3>2
    <2> HIDE DEF c
    <2>5. /\ check' \in Check /\ check'.hi = c.hi /\ check'.lo = c.lo /\ check'.clean = c.clean
          /\ check'.on = ~CheckFails(check, n, v)
      BY <2>1, <2>2, <2>3 DEF Check
    <2>6. check'.clean => LocksHold(check', value')
      BY <2>2, <2>4, <2>5 DEF LocksHold
    <2>7. QED
      BY <1>2, <2>2, <2>5, <2>6 DEF LocksInv
  <1>5. QED
    BY <1>3, <1>4

LEMMA CommandsLocks == Sound /\ Control /\ LocksInv /\ Commands => LocksInv'
  <1> SUFFICES ASSUME Sound, Control, LocksInv, Commands PROVE LocksInv'
    OBVIOUS
  <1>0. /\ stage = "idle" /\ value \in [Node -> Value] /\ Settable \subseteq Node /\ check \in Check
    BY CircuitAssumption DEF Commands, Sound, StepTypeOK, LocksInv
  <1>1. ASSUME NEW n \in Node, NEW v \in Value, CommitNow(n, v) PROVE LocksInv'
    <2>1. CASE phase' = "propagate"
      <3>1. Passes(n, v) /\ Begin(n, v) /\ value' = [value EXCEPT ![n] = v]
        BY <1>1, <2>1 DEF CommitNow, SetNow
      <3>2. QED
        BY <1>0, <3>1, BeginLocks
    <2>2. CASE phase' # "propagate" /\ v # value[n]
      BY <1>1, <2>2, RefusedLocks DEF CommitNow
    <2>3. CASE phase' # "propagate" /\ v = value[n]
      <3>1. UNCHANGED <<value, check, stage>>
        BY <1>1, <2>3 DEF CommitNow, SetNow, engineVars
      <3>2. QED
        BY <1>0, <3>1, RestLocks
    <2>4. QED
      BY <2>1, <2>2, <2>3
  <1>2. ASSUME NEW s, NEW b \in BOOLEAN, Reinitialize(s, b) PROVE LocksInv'
    <2>1. /\ check' = [CheckInit EXCEPT !.on = b, !.clean = b] /\ stage' = stage
          /\ value' = [n \in Node |-> LOGIC_OTHER]
      BY <1>2 DEF Reinitialize, Initialize
    <2>2. check' = [on |-> b, hi |-> {}, lo |-> {}, clean |-> b]
      BY <2>1 DEF CheckInit
    <2>3. \A n \in Node : Noted(stage', cause', value')[n] = LOGIC_OTHER
      BY <2>1 DEF Noted
    <2>4. check' \in Check /\ check'.hi = {} /\ check'.lo = {} /\ check'.on = b /\ check'.clean = b
      BY <2>2 DEF Check
    <2>5. LocksHold(check', Noted(stage', cause', value'))
      BY <2>3, <2>4, FreeHolds
    <2>6. QED
      BY <2>4, <2>5 DEF LocksInv
  <1>3. ASSUME NEW b \in BOOLEAN, CheckExcl(b) PROVE LocksInv'
    <2>1. check' = [check EXCEPT !.on = b, !.clean = FALSE]
      BY <1>3 DEF CheckExcl
    <2>2. check' \in Check /\ ~check'.clean
      BY <1>0, <2>1 DEF Check
    <2>3. QED
      BY <2>2 DEF LocksInv
  <1>4. ASSUME Load PROVE LocksInv'
    BY <1>0, <1>4, RestLocks DEF Load, vars
  <1>5. ASSUME NEW n, NEW v, NEW s, Set(n, v, s) PROVE LocksInv'
    BY <1>0, <1>5, RestLocks DEF Set, SetNode, stepVars, engineVars
  <1>6. ASSUME NEW n, NEW v, NEW s, SetForced(n, v, s) PROVE LocksInv'
    BY <1>0, <1>6, RestLocks DEF SetForced, SetNodeForced, stepVars, engineVars
  <1>7. ASSUME NEW n, Deschedule(n) PROVE LocksInv'
    BY <1>0, <1>7, RestLocks DEF Deschedule, DescheduleEvent, stepVars, engineVars
  <1>8. ASSUME NEW n, Freeze(n) PROVE LocksInv'
    BY <1>0, <1>8, RestLocks DEF Freeze, FreezeNode, engineVars
  <1>9. ASSUME NEW n, NEW d, Unset(n, d) PROVE LocksInv'
    BY <1>0, <1>9, RestLocks DEF Unset, UnsetNode, engineVars
  <1>10. QED
    BY <1>0, <1>1, <1>2, <1>3, <1>4, <1>5, <1>6, <1>7, <1>8, <1>9 DEF Commands

LEMMA LoadLocks ==
    ASSUME Sound, Control, LocksInv, NEW n \in Node, LoadLock(n)
    PROVE  LocksInv'
  <1> DEFINE old == Noted(stage, cause, value)
             new == Noted(stage', cause', value')
  <1>1. /\ stage = "lock" /\ n > cause.node /\ \A m \in Node : m > cause.node => n <= m
        /\ check' = Checked(check, n, LOGIC_OTHER, value[n]) /\ cause' = [cause EXCEPT !.node = n]
        /\ UNCHANGED <<value, stage>>
    BY DEF LoadLock, vars
  <1>2. Node \subseteq Nat /\ cause.node \in Nat /\ cause'.node = n /\ check \in Check
    BY <1>1, NodeFacts DEF Control, ControlTypeOK, Cause, LocksInv
  <1>3. ASSUME NEW m \in Node, m # n PROVE new[m] = old[m]
    <2>1. /\ new[m] = IF m > n THEN LOGIC_OTHER ELSE value[m]
          /\ old[m] = IF m > cause.node THEN LOGIC_OTHER ELSE value[m]
      BY <1>1, <1>2 DEF Noted
    <2>2. m > n <=> m > cause.node
      BY <1>1, <1>2, <1>3
    <2>3. QED
      BY <2>1, <2>2
  <1>4. old[n] = LOGIC_OTHER /\ new[n] = value[n]
    BY <1>1, <1>2 DEF Noted
  <1>5. OnlyAt(Node, n, old, new) /\ (check.clean => LocksHold(check, old))
    BY <1>1, <1>3 DEF OnlyAt, LocksInv
  <1> HIDE DEF old, new
  <1>6. /\ check' \in Check /\ check'.on = check.on
        /\ check'.clean <=> check.clean /\ ~CheckFails(check, n, value[n])
    BY <1>1, <1>2, CheckedType
  <1>7. check'.clean => LocksHold(check', new)
    BY <1>1, <1>2, <1>4, <1>5, <1>6, CheckedHolds
  <1>8. QED
    BY <1>6, <1>7 DEF LocksInv, new

LEMMA LocksStep == Sound /\ Control /\ LocksInv /\ [EngineNext]_allVars => LocksInv'
  <1> SUFFICES ASSUME Sound, Control, LocksInv, [EngineNext]_allVars PROVE LocksInv'
    OBVIOUS
  <1>0. /\ ControlTypeOK /\ InStep /\ Loading /\ Tidy /\ CauseIsValue
        /\ value \in [Node -> Value] /\ Structures
    BY DEF Control, Sound, StepTypeOK
  <1>1. CASE UNCHANGED <<value, check, stage>> /\ stage # "lock"
    <2>1. stage # "lock" => Noted(stage, cause, value) = Noted(stage, cause', value)
      BY DEF Noted
    <2>2. QED
      BY <1>1, <2>1 DEF LocksInv
  <1>2. CASE Dequeue
    <2>0. stage = "idle"
      BY <1>2 DEF Dequeue
    <2>1. ASSUME NEW k \in DOMAIN queue, Commit(k) PROVE LocksInv'
      <3> DEFINE e == pool[queue[k].ev]
      <3>1. /\ FirstLive(k) /\ value' = [value EXCEPT ![e.node] = e.val]
            /\ Passes(e.node, e.val) /\ Begin(e.node, e.val)
        BY <2>1 DEF Commit, StepCommit, Executing
      <3>2. e \in Event /\ e.node \in Node
        BY <1>0, <3>1, FrontFacts
      <3>3. e.val \in Value
        BY <3>2 DEF Event
      <3> HIDE DEF e
      <3>4. QED
        BY <1>0, <2>0, <3>1, <3>2, <3>3, BeginLocks
    <2>2. ASSUME NEW k \in DOMAIN queue, Refuse(k) PROVE LocksInv'
      BY <2>2, RefusedLocks DEF Refuse
    <2>3. ASSUME Nothing \/ \E k \in DOMAIN queue : Skip(k) PROVE LocksInv'
      <3>1. UNCHANGED <<value, check, stage>>
        BY <2>3 DEF Nothing, StepNothing, Skip, StepXX, StepVacuous, engineVars
      <3>2. QED
        BY <2>0, <3>1, <1>1
    <2>4. QED
      BY <1>2, <2>1, <2>2, <2>3 DEF Dequeue
  <1>3. ASSUME Enforce PROVE LocksInv'
    BY <1>0, <1>3, RestLocks DEF Enforce, vars
  <1>4. ASSUME Return PROVE LocksInv'
    <2>1. /\ phase \in {"propagate", "unwind"}
          /\ phase = "propagate" => stage = "flush"
          /\ stage' = "idle" /\ UNCHANGED <<value, check>>
      BY <1>4 DEF Return, StepReturn
    <2>2. stage \notin {"load", "lock"}
      BY <1>0, <2>1 DEF Loading
    <2>3. QED
      BY <1>0, <2>1, <2>2, RestLocks
  <1>5. ASSUME NEW d, Flush(d) PROVE LocksInv'
    BY <1>1, <1>5 DEF Flush, FlushSchedule, FlushKill, FlushOverwrite, vars
  <1>6. ASSUME EvaluateRoot PROVE LocksInv'
    <2>1. climb # NoClimb
      BY <1>6, NoClimbType DEF EvaluateRoot, Root
    <2>2. stage # "lock"
      BY <1>0, <2>1 DEF Tidy
    <2>3. QED
      BY <1>1, <1>6, <2>2 DEF EvaluateRoot, PropagateKill, stepVars, vars
  <1>7. ASSUME EvaluateExpr PROVE LocksInv'
    <2>1. climb # NoClimb
      BY <1>7, NoClimbType DEF EvaluateExpr
    <2>2. stage # "lock"
      BY <1>0, <2>1 DEF Tidy
    <2>3. QED
      BY <1>1, <1>7, <2>2 DEF EvaluateExpr, vars
  <1>8. ASSUME NEW i, EvaluateNext(i) PROVE LocksInv'
    BY <1>1, <1>8 DEF EvaluateNext, vars
  <1>9. ASSUME NEW n, LoadNode(n) PROVE LocksInv'
    BY <1>1, <1>9 DEF LoadNode, vars
  <1>10. ASSUME LoadEvents PROVE LocksInv'
    <2>1. /\ check' = [CheckInit EXCEPT !.on = check.on, !.clean = check.on]
          /\ stage' = (IF check.on THEN "lock" ELSE "idle") /\ cause' = NoCause
      BY <1>10 DEF LoadEvents
    <2>2. check' = [on |-> check.on, hi |-> {}, lo |-> {}, clean |-> check.on]
      BY <2>1 DEF CheckInit
    <2>3. check.on \in BOOLEAN
      BY DEF LocksInv, Check
    <2>4. /\ check' \in Check /\ check'.hi = {} /\ check'.lo = {}
          /\ check'.on = check.on /\ check'.clean = check.on
      BY <2>2, <2>3 DEF Check
    <2>5. check.on => \A n \in Node : Noted(stage', cause', value')[n] = LOGIC_OTHER
      BY <2>1, NodeFacts, NoCauseType DEF Noted
    <2>6. check.on => LocksHold(check', Noted(stage', cause', value'))
      BY <2>4, <2>5, FreeHolds
    <2>7. QED
      BY <2>4, <2>6 DEF LocksInv
  <1>11. ASSUME LoadDone PROVE LocksInv'
    <2>1. /\ stage = "lock" /\ stage' = "idle" /\ \A m \in Node : m <= cause.node
          /\ UNCHANGED <<value, check>>
      BY <1>11 DEF LoadDone, vars
    <2>2. Node \subseteq Nat /\ cause.node \in Nat
      BY <1>0, NodeFacts DEF ControlTypeOK, Cause
    <2>3. Noted(stage, cause, value) = value
      <3>1. \A n \in Node : ~(n > cause.node)
        BY <2>1, <2>2
      <3>2. QED
        BY <1>0, <3>1 DEF Noted
    <2>4. Noted(stage', cause', value') = value
      BY <1>0, <2>1 DEF Noted
    <2>5. QED
      BY <2>1, <2>3, <2>4 DEF LocksInv
  <1>12. CASE UNCHANGED allVars
    BY <1>12 DEF allVars, vars, engineVars, LocksInv
  <1>13. QED
    BY <1>2, <1>3, <1>4, <1>5, <1>6, <1>7, <1>8, <1>9, <1>10, <1>11, <1>12,
       CommandsLocks, LoadLocks
    DEF EngineNext, Engine

\* As long as every change was checked and no check failed, the locks of the
\* exclhi and excllo rings say exactly which of them have an active member,
\* and none has two: whatever the order of the changes, however many rings a
\* node is in, also when the locks come from a checkpoint.
THEOREM LocksAlwaysAgree == EngineSpec => []LocksAgree
  <1>1. EngineInit => LocksInv
    <2> SUFFICES ASSUME EngineInit PROVE LocksInv
      OBVIOUS
    <2>1. /\ \A n \in Node : Noted(stage, cause, value)[n] = LOGIC_OTHER
          /\ check = [on |-> TRUE, hi |-> {}, lo |-> {}, clean |-> TRUE]
      BY DEF EngineInit, Init, Noted, CheckInit
    <2>2. check \in Check /\ check.hi = {} /\ check.lo = {} /\ check.on
      BY <2>1 DEF Check
    <2>3. QED
      BY <2>1, <2>2, FreeHolds DEF LocksInv
  <1>2. Sound /\ LocksInv => LocksAgree
    <2> SUFFICES ASSUME Sound, LocksInv, check.clean, stage \notin {"load", "lock"}
                 PROVE  LocksAgree
      BY DEF LocksAgree
    <2>1. Noted(stage, cause, value) = value
      BY DEF Noted, Sound, StepTypeOK
    <2>2. LocksHold(check, value)
      BY <2>1 DEF LocksInv
    <2>3. QED
      BY <2>2 DEF LocksAgree, LocksHold, Locked, Active, Is
  <1>3. QED
    BY <1>1, <1>2, LocksStep, EngineInvariant, PTL DEF EngineSpec
=============================================================================
