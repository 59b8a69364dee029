------------------------------ MODULE PrsimPull ------------------------------
(***************************************************************************)
(* How prsim decides what a node is pulled to (struct pull_set).  A node   *)
(* has up to four groups of rules: strong and weak, pull-up and pull-down. *)
(* Each group pulls (PULL_ON), does not (PULL_OFF) or may be pulling       *)
(* because some input is X (PULL_WEAK).  The member functions of pull_set  *)
(* become operators on a record p with the fields up, dn, wup and wdn.     *)
(***************************************************************************)
EXTENDS Integers

PULL_OFF == 0
PULL_ON == 1
PULL_WEAK == 2
Pull == {PULL_OFF, PULL_ON, PULL_WEAK}
PullSet == [up : Pull, dn : Pull, wup : Pull, wdn : Pull]

normal_rules_off(p) == p.up = PULL_OFF /\ p.dn = PULL_OFF
weak_rules_off(p) == p.wup = PULL_OFF /\ p.wdn = PULL_OFF
state_holding(p) == normal_rules_off(p) /\ weak_rules_off(p)

pulling_up(p) == p.up = PULL_ON \/ p.wup = PULL_ON
pulling_dn(p) == p.dn = PULL_ON \/ p.wdn = PULL_ON
cutoff_up(p) == p.up = PULL_OFF /\ p.wup = PULL_OFF
cutoff_dn(p) == p.dn = PULL_OFF /\ p.wdn = PULL_OFF

\* Nothing pulls up (down) any more: an exclusion ring blocks the node.
cut_off_pull_up(p) == [p EXCEPT !.up = PULL_OFF, !.wup = PULL_OFF]
cut_off_pull_dn(p) == [p EXCEPT !.dn = PULL_OFF, !.wdn = PULL_OFF]

\* A strong X is not an X pull when a weak rule pulls the same way for sure.
weak_pulling_up_x(p) == p.up = PULL_OFF /\ p.wup = PULL_WEAK
weak_pulling_dn_x(p) == p.dn = PULL_OFF /\ p.wdn = PULL_WEAK
pulling_up_x(p) == (p.up = PULL_WEAK /\ p.wup # PULL_ON) \/ weak_pulling_up_x(p)
pulling_dn_x(p) == (p.dn = PULL_WEAK /\ p.wdn # PULL_ON) \/ weak_pulling_dn_x(p)

weak_pull_up_wins(p) ==
    /\ p.dn = PULL_OFF
    /\ weak_pulling_up_x(p) \/ (p.up # PULL_ON /\ p.wup = PULL_ON)

weak_pull_dn_wins(p) ==
    /\ p.up = PULL_OFF
    /\ weak_pulling_dn_x(p) \/ (p.dn # PULL_ON /\ p.wdn = PULL_ON)

weak_wins_any(p) == weak_pull_up_wins(p) \/ weak_pull_dn_wins(p)

\* Mutant of pull_up_wins_any: the weak rules of the other side are forgotten.
pull_up_wins_strong(p) ==
    p.dn = PULL_OFF /\ (p.up = PULL_ON \/ p.wup = PULL_ON)

pull_up_wins_any(p) ==
    /\ p.dn = PULL_OFF
    /\ p.up = PULL_ON \/ (p.wup = PULL_ON /\ p.wdn = PULL_OFF)

pull_dn_wins_any(p) ==
    /\ p.up = PULL_OFF
    /\ p.dn = PULL_ON \/ (p.wdn = PULL_ON /\ p.wup = PULL_OFF)

pull_up_x_wins_any(p) == cutoff_dn(p) /\ pulling_up_x(p)
pull_dn_x_wins_any(p) == cutoff_up(p) /\ pulling_dn_x(p)

possible_interference_strong(p) == p.dn # PULL_OFF /\ p.up # PULL_OFF

\* Mutant of possible_interference_strong_vs_weak: the pull-up side only.
possible_interference_strong_up(p) ==
    /\ p.up = PULL_WEAK /\ p.wup # PULL_ON
    /\ p.dn = PULL_OFF /\ p.wdn # PULL_OFF

possible_interference_strong_vs_weak(p) ==
    \/ /\ p.up = PULL_WEAK /\ p.wup # PULL_ON
       /\ p.dn = PULL_OFF /\ p.wdn # PULL_OFF
    \/ /\ p.dn = PULL_WEAK /\ p.wdn # PULL_ON
       /\ p.up = PULL_OFF /\ p.wup # PULL_OFF

possible_interference_weak(p) ==
    normal_rules_off(p) /\ p.wdn # PULL_OFF /\ p.wup # PULL_OFF

\* interference_info: the flags flush_updated_nodes goes by.
have_interference(p) ==
    \/ possible_interference_strong(p)
    \/ possible_interference_strong_vs_weak(p)
    \/ possible_interference_weak(p)

weak_rule_involved(p) == have_interference(p) /\ ~possible_interference_strong(p)

\* pull_val of flush_updated_nodes: what a node of value old is pulled to.
\* Its last alternative holds its state, which an assertion checks (see
\* PullCovered).
PullValue(p, old) ==
    IF have_interference(p) THEN 2
    ELSE IF pull_up_wins_any(p) THEN 1
    ELSE IF pull_dn_wins_any(p) THEN 0
    ELSE IF pull_up_x_wins_any(p) THEN IF old = 0 THEN 2 ELSE old
    ELSE IF pull_dn_x_wins_any(p) /\ old = 1 THEN 2
    ELSE old

\* The assertion at the end of flush_updated_nodes' case analysis: what none
\* of its cases covers is holding its state.
PullCovered(p) ==
    \/ have_interference(p)
    \/ pull_up_wins_any(p) \/ pull_dn_wins_any(p)
    \/ pull_up_x_wins_any(p) \/ pull_dn_x_wins_any(p)
    \/ state_holding(p)

-----------------------------------------------------------------------------
(* What X means: the group may or may not be pulling.  The reference for     *)
(* PullValue resolves every X both ways and takes the value all resolutions  *)
(* agree on.                                                                 *)

Resolutions(x) == IF x = PULL_WEAK THEN {PULL_OFF, PULL_ON} ELSE {x}

\* The value of a node of value old under pulls that are on or off: a strong
\* pull beats a weak one, opposite pulls of equal strength fight (2).
Driven(up, dn, old) ==
    IF up = PULL_ON
    THEN IF dn = PULL_ON THEN 2 ELSE 1
    ELSE IF dn = PULL_ON THEN 0 ELSE old

Settled(up, dn, wup, wdn, old) == Driven(up, dn, Driven(wup, wdn, old))

Outcomes(p, old) ==
    {Settled(up, dn, wup, wdn, old) :
        up \in Resolutions(p.up), dn \in Resolutions(p.dn),
        wup \in Resolutions(p.wup), wdn \in Resolutions(p.wdn)}

Consensus(p, old) == IF \E v \in {0, 1} : Outcomes(p, old) = {v}
                     THEN CHOOSE v \in {0, 1} : Outcomes(p, old) = {v}
                     ELSE 2

\* The values from which the case analysis is right for all 81 combinations of
\* pulls it covers.
SoundFrom ==
    {old \in Pull : \A p \in PullSet : PullCovered(p) => PullValue(p, old) = Consensus(p, old)}

\* Without weak pulls the case analysis leaves out nothing.
StrongCovered == \A p \in PullSet : weak_rules_off(p) => PullCovered(p)
=============================================================================
