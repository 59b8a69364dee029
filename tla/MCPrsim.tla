------------------------------ MODULE MCPrsim ------------------------------
(***************************************************************************)
(* Circuits for model checking Prsim.                                      *)
(***************************************************************************)
EXTENDS Prsim

E(conjunctive, not, root, parent) ==
    [conjunctive |-> conjunctive, not |-> not, root |-> root, parent |-> parent]

Or(p) == E(FALSE, FALSE, FALSE, p)
Nor(p) == E(FALSE, TRUE, FALSE, p)
RuleAnd(n) == E(TRUE, FALSE, TRUE, n)
RuleOr(n) == E(FALSE, FALSE, TRUE, n)
RuleNor(n) == E(FALSE, TRUE, TRUE, n)

NoRing == <<>>

\* A gate 2 that follows its input 1:  1 -> 2+    ~1 -> 2-
WireExpr == <<RuleOr(2), RuleNor(2)>>
WireGroup == <<"up", "dn">>
WireFanout == <<<<1, 2>>, <<>>>>

\* A C-element 3 of the inputs 1 and 2, and behind it the gate 4 = ~(3 & (1 | 2)),
\* whose inputs race:
\*    1 &  2 -> 3+    ~3 | ~(1 | 2) -> 4+
\*   ~1 & ~2 -> 3-     3 &  (1 | 2) -> 4-
CElementExpr == <<RuleAnd(3), RuleNor(3), RuleAnd(4), Or(3), RuleOr(4), Nor(5), Nor(5)>>
CElementGroup == [r \in {1, 2, 3, 5} |-> IF r \in {1, 5} THEN "up" ELSE "dn"]
CElementFanout == <<<<1, 2, 4, 6>>, <<1, 2, 4, 6>>, <<3, 7>>, <<>>>>

\* A node 3 that is pulled down, against a weak pull-up:
\*    1 -> 3-    2 -> 3+ (weak)
WeakExpr == <<RuleOr(3), RuleOr(3)>>
WeakGroup == <<"dn", "wup">>
WeakFanout == <<<<1>>, <<2>>, <<>>>>
WeakCheck == <<{1, 3}, {1, 2}>>

\* Two requests 1 and 2, and their grants 3 and 4 in one ring:
\*    1 -> 3+    ~1 -> 3-    2 -> 4+    ~2 -> 4-
GrantExpr == <<RuleOr(3), RuleNor(3), RuleOr(4), RuleNor(4)>>
GrantGroup == <<"up", "dn", "up", "dn">>
GrantFanout == <<<<1, 2>>, <<3, 4>>, <<>>, <<>>>>
GrantRing == <<{3, 4}>>
=============================================================================
