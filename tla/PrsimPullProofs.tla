--------------------------- MODULE PrsimPullProofs ---------------------------
(***************************************************************************)
(* The case analysis of flush_updated_nodes against the meaning of X.      *)
(***************************************************************************)
EXTENDS PrsimPull, TLAPS

\* An X is resolved both ways, what is not X only one way, to what it is.
LEMMA ResolutionsFacts ==
    ASSUME NEW x \in Pull
    PROVE  /\ Resolutions(x) \subseteq {PULL_OFF, PULL_ON}
           /\ x # PULL_ON => PULL_OFF \in Resolutions(x)
           /\ x # PULL_OFF => PULL_ON \in Resolutions(x)
           /\ x = PULL_ON => Resolutions(x) = {PULL_ON}
           /\ x = PULL_OFF => Resolutions(x) = {PULL_OFF}
           /\ Resolutions(x) # {}
BY DEF Resolutions, Pull, PULL_OFF, PULL_ON, PULL_WEAK

\* If all resolutions agree on v then so does the consensus.
LEMMA AllAgree ==
    ASSUME NEW q \in PullSet, NEW old \in Pull, NEW v \in {0, 1},
           \A up \in Resolutions(q.up), dn \in Resolutions(q.dn),
              wup \in Resolutions(q.wup), wdn \in Resolutions(q.wdn) :
                  Settled(up, dn, wup, wdn, old) = v
    PROVE  Consensus(q, old) = v
<1>1. /\ Resolutions(q.up) # {} /\ Resolutions(q.dn) # {}
      /\ Resolutions(q.wup) # {} /\ Resolutions(q.wdn) # {}
  <2>1. q.up \in Pull /\ q.dn \in Pull /\ q.wup \in Pull /\ q.wdn \in Pull
    BY DEF PullSet
  <2> QED BY <2>1, ResolutionsFacts
<1>2. PICK up \in Resolutions(q.up), dn \in Resolutions(q.dn),
           wup \in Resolutions(q.wup), wdn \in Resolutions(q.wdn) : TRUE
  BY <1>1
<1>3. v \in Outcomes(q, old)
  BY <1>2 DEF Outcomes
<1>4. \A w \in Outcomes(q, old) : w = v
  BY DEF Outcomes
<1>5. Outcomes(q, old) = {v}
  BY <1>3, <1>4
<1> QED BY <1>5 DEF Consensus

\* If two resolutions disagree, or one of them is X, the consensus is X.
LEMMA SomeDisagree ==
    ASSUME NEW q, NEW old,
           NEW a \in Outcomes(q, old), NEW b \in Outcomes(q, old),
           a # b \/ a = 2
    PROVE  Consensus(q, old) = 2
<1>1. ~ \E v \in {0, 1} : Outcomes(q, old) = {v}
  OBVIOUS
<1> QED BY <1>1 DEF Consensus

\* What one choice of resolutions gives is an outcome.
LEMMA OutcomeOf ==
    ASSUME NEW q, NEW old,
           NEW up \in Resolutions(q.up), NEW dn \in Resolutions(q.dn),
           NEW wup \in Resolutions(q.wup), NEW wdn \in Resolutions(q.wdn)
    PROVE  Settled(up, dn, wup, wdn, old) \in Outcomes(q, old)
BY DEF Outcomes

\* Interference: the node is X, and so is the consensus.
LEMMA Interfering ==
    ASSUME NEW q \in PullSet, NEW old \in Pull, have_interference(q)
    PROVE  Consensus(q, old) = 2
<1> DEFINE S(up, dn, wup, wdn) == Settled(up, dn, wup, wdn, old)
<1> q.up \in Pull /\ q.dn \in Pull /\ q.wup \in Pull /\ q.wdn \in Pull
  BY DEF PullSet
<1>0. PICK w \in Resolutions(q.wup), z \in Resolutions(q.wdn) : TRUE
  BY ResolutionsFacts
<1>1. CASE possible_interference_strong(q)
  <2>1. PULL_ON \in Resolutions(q.up) /\ PULL_ON \in Resolutions(q.dn)
    BY <1>1, ResolutionsFacts DEF possible_interference_strong
  <2>2. S(PULL_ON, PULL_ON, w, z) \in Outcomes(q, old)
    BY <1>0, <2>1, OutcomeOf
  <2>3. S(PULL_ON, PULL_ON, w, z) = 2
    BY DEF Settled, Driven
  <2> QED BY <2>2, <2>3, SomeDisagree
<1>2. CASE /\ q.up = PULL_WEAK /\ q.wup # PULL_ON
           /\ q.dn = PULL_OFF /\ q.wdn # PULL_OFF
  <2>1. /\ PULL_ON \in Resolutions(q.up) /\ PULL_OFF \in Resolutions(q.up)
        /\ PULL_OFF \in Resolutions(q.dn)
        /\ PULL_OFF \in Resolutions(q.wup) /\ PULL_ON \in Resolutions(q.wdn)
    BY <1>2, ResolutionsFacts DEF PULL_OFF, PULL_ON, PULL_WEAK
  <2>2. /\ S(PULL_ON, PULL_OFF, PULL_OFF, PULL_ON) \in Outcomes(q, old)
        /\ S(PULL_OFF, PULL_OFF, PULL_OFF, PULL_ON) \in Outcomes(q, old)
    BY <2>1, OutcomeOf
  <2>3. /\ S(PULL_ON, PULL_OFF, PULL_OFF, PULL_ON) = 1
        /\ S(PULL_OFF, PULL_OFF, PULL_OFF, PULL_ON) = 0
    BY DEF Settled, Driven, PULL_OFF, PULL_ON
  <2> QED BY <2>2, <2>3, SomeDisagree
<1>3. CASE /\ q.dn = PULL_WEAK /\ q.wdn # PULL_ON
           /\ q.up = PULL_OFF /\ q.wup # PULL_OFF
  <2>1. /\ PULL_ON \in Resolutions(q.dn) /\ PULL_OFF \in Resolutions(q.dn)
        /\ PULL_OFF \in Resolutions(q.up)
        /\ PULL_OFF \in Resolutions(q.wdn) /\ PULL_ON \in Resolutions(q.wup)
    BY <1>3, ResolutionsFacts DEF PULL_OFF, PULL_ON, PULL_WEAK
  <2>2. /\ S(PULL_OFF, PULL_ON, PULL_ON, PULL_OFF) \in Outcomes(q, old)
        /\ S(PULL_OFF, PULL_OFF, PULL_ON, PULL_OFF) \in Outcomes(q, old)
    BY <2>1, OutcomeOf
  <2>3. /\ S(PULL_OFF, PULL_ON, PULL_ON, PULL_OFF) = 0
        /\ S(PULL_OFF, PULL_OFF, PULL_ON, PULL_OFF) = 1
    BY DEF Settled, Driven, PULL_OFF, PULL_ON
  <2> QED BY <2>2, <2>3, SomeDisagree
<1>4. CASE possible_interference_weak(q)
  <2>1. /\ PULL_OFF \in Resolutions(q.up) /\ PULL_OFF \in Resolutions(q.dn)
        /\ PULL_ON \in Resolutions(q.wup) /\ PULL_ON \in Resolutions(q.wdn)
    BY <1>4, ResolutionsFacts
       DEF possible_interference_weak, normal_rules_off, PULL_OFF, PULL_ON
  <2>2. S(PULL_OFF, PULL_OFF, PULL_ON, PULL_ON) \in Outcomes(q, old)
    BY <2>1, OutcomeOf
  <2>3. S(PULL_OFF, PULL_OFF, PULL_ON, PULL_ON) = 2
    BY DEF Settled, Driven, PULL_OFF, PULL_ON
  <2> QED BY <2>2, <2>3, SomeDisagree
<1> QED BY <1>1, <1>2, <1>3, <1>4
        DEF have_interference, possible_interference_strong_vs_weak

\* One side wins for certain.
LEMMA UpWins ==
    ASSUME NEW q \in PullSet, NEW old \in Pull, pull_up_wins_any(q)
    PROVE  Consensus(q, old) = 1
<1> q.up \in Pull /\ q.dn \in Pull /\ q.wup \in Pull /\ q.wdn \in Pull
  BY DEF PullSet
<1>1. ASSUME NEW up \in Resolutions(q.up), NEW dn \in Resolutions(q.dn),
             NEW wup \in Resolutions(q.wup), NEW wdn \in Resolutions(q.wdn)
      PROVE  Settled(up, dn, wup, wdn, old) = 1
  <2>1. dn = PULL_OFF /\ up \in {PULL_OFF, PULL_ON}
    BY ResolutionsFacts DEF pull_up_wins_any
  <2>2. up = PULL_ON \/ (wup = PULL_ON /\ wdn = PULL_OFF)
    BY ResolutionsFacts DEF pull_up_wins_any
  <2> QED BY <2>1, <2>2 DEF Settled, Driven, PULL_OFF, PULL_ON
<1> QED BY <1>1, AllAgree

LEMMA DnWins ==
    ASSUME NEW q \in PullSet, NEW old \in Pull, pull_dn_wins_any(q)
    PROVE  Consensus(q, old) = 0
<1> q.up \in Pull /\ q.dn \in Pull /\ q.wup \in Pull /\ q.wdn \in Pull
  BY DEF PullSet
<1>1. ASSUME NEW up \in Resolutions(q.up), NEW dn \in Resolutions(q.dn),
             NEW wup \in Resolutions(q.wup), NEW wdn \in Resolutions(q.wdn)
      PROVE  Settled(up, dn, wup, wdn, old) = 0
  <2>1. up = PULL_OFF /\ dn \in {PULL_OFF, PULL_ON}
    BY ResolutionsFacts DEF pull_dn_wins_any
  <2>2. dn = PULL_ON \/ (wdn = PULL_ON /\ wup = PULL_OFF)
    BY ResolutionsFacts DEF pull_dn_wins_any
  <2> QED BY <2>1, <2>2 DEF Settled, Driven, PULL_OFF, PULL_ON
<1> QED BY <1>1, AllAgree

\* One side pulls with X against nothing: the node keeps a value that is
\* already there, and is X otherwise.
LEMMA UpXWins ==
    ASSUME NEW q \in PullSet, NEW old \in Pull, pull_up_x_wins_any(q)
    PROVE  Consensus(q, old) = IF old = 1 THEN 1 ELSE 2
<1> q.up \in Pull /\ q.dn \in Pull /\ q.wup \in Pull /\ q.wdn \in Pull
  BY DEF PullSet
<1>0. /\ q.dn = PULL_OFF /\ q.wdn = PULL_OFF
      /\ \/ q.up = PULL_WEAK /\ q.wup # PULL_ON
         \/ q.up = PULL_OFF /\ q.wup = PULL_WEAK
  BY DEF pull_up_x_wins_any, cutoff_dn, pulling_up_x, weak_pulling_up_x
<1>1. CASE old = 1
  <2>1. ASSUME NEW up \in Resolutions(q.up), NEW dn \in Resolutions(q.dn),
               NEW wup \in Resolutions(q.wup), NEW wdn \in Resolutions(q.wdn)
        PROVE  Settled(up, dn, wup, wdn, old) = 1
    <3>1. /\ dn = PULL_OFF /\ wdn = PULL_OFF
          /\ up \in {PULL_OFF, PULL_ON} /\ wup \in {PULL_OFF, PULL_ON}
      BY <1>0, ResolutionsFacts
    <3> QED BY <1>1, <3>1 DEF Settled, Driven, PULL_OFF, PULL_ON
  <2> QED BY <1>1, <2>1, AllAgree
<1>2. CASE old # 1
  <2>1. /\ PULL_OFF \in Resolutions(q.up) /\ PULL_OFF \in Resolutions(q.wup)
        /\ PULL_OFF \in Resolutions(q.dn) /\ PULL_OFF \in Resolutions(q.wdn)
        /\ PULL_ON \in Resolutions(q.up) \/ PULL_ON \in Resolutions(q.wup)
    BY <1>0, ResolutionsFacts DEF PULL_OFF, PULL_ON, PULL_WEAK
  <2>2. old \in Outcomes(q, old)
    <3>1. Settled(PULL_OFF, PULL_OFF, PULL_OFF, PULL_OFF, old) = old
      BY DEF Settled, Driven, PULL_OFF, PULL_ON
    <3> QED BY <2>1, <3>1, OutcomeOf
  <2>3. 1 \in Outcomes(q, old)
    <3>1. /\ Settled(PULL_ON, PULL_OFF, PULL_OFF, PULL_OFF, old) = 1
          /\ Settled(PULL_OFF, PULL_OFF, PULL_ON, PULL_OFF, old) = 1
      BY DEF Settled, Driven, PULL_OFF, PULL_ON
    <3> QED BY <2>1, <3>1, OutcomeOf
  <2> QED BY <1>2, <2>2, <2>3, SomeDisagree
<1> QED BY <1>1, <1>2

LEMMA DnXWins ==
    ASSUME NEW q \in PullSet, NEW old \in Pull, pull_dn_x_wins_any(q)
    PROVE  Consensus(q, old) = IF old = 0 THEN 0 ELSE 2
<1> q.up \in Pull /\ q.dn \in Pull /\ q.wup \in Pull /\ q.wdn \in Pull
  BY DEF PullSet
<1>0. /\ q.up = PULL_OFF /\ q.wup = PULL_OFF
      /\ \/ q.dn = PULL_WEAK /\ q.wdn # PULL_ON
         \/ q.dn = PULL_OFF /\ q.wdn = PULL_WEAK
  BY DEF pull_dn_x_wins_any, cutoff_up, pulling_dn_x, weak_pulling_dn_x
<1>1. CASE old = 0
  <2>1. ASSUME NEW up \in Resolutions(q.up), NEW dn \in Resolutions(q.dn),
               NEW wup \in Resolutions(q.wup), NEW wdn \in Resolutions(q.wdn)
        PROVE  Settled(up, dn, wup, wdn, old) = 0
    <3>1. /\ up = PULL_OFF /\ wup = PULL_OFF
          /\ dn \in {PULL_OFF, PULL_ON} /\ wdn \in {PULL_OFF, PULL_ON}
      BY <1>0, ResolutionsFacts
    <3> QED BY <1>1, <3>1 DEF Settled, Driven, PULL_OFF, PULL_ON
  <2> QED BY <1>1, <2>1, AllAgree
<1>2. CASE old # 0
  <2>1. /\ PULL_OFF \in Resolutions(q.up) /\ PULL_OFF \in Resolutions(q.wup)
        /\ PULL_OFF \in Resolutions(q.dn) /\ PULL_OFF \in Resolutions(q.wdn)
        /\ PULL_ON \in Resolutions(q.dn) \/ PULL_ON \in Resolutions(q.wdn)
    BY <1>0, ResolutionsFacts DEF PULL_OFF, PULL_ON, PULL_WEAK
  <2>2. old \in Outcomes(q, old)
    <3>1. Settled(PULL_OFF, PULL_OFF, PULL_OFF, PULL_OFF, old) = old
      BY DEF Settled, Driven, PULL_OFF, PULL_ON
    <3> QED BY <2>1, <3>1, OutcomeOf
  <2>3. 0 \in Outcomes(q, old)
    <3>1. /\ Settled(PULL_OFF, PULL_ON, PULL_OFF, PULL_OFF, old) = 0
          /\ Settled(PULL_OFF, PULL_OFF, PULL_OFF, PULL_ON, old) = 0
      BY DEF Settled, Driven, PULL_OFF, PULL_ON
    <3> QED BY <2>1, <3>1, OutcomeOf
  <2> QED BY <1>2, <2>2, <2>3, SomeDisagree
<1> QED BY <1>1, <1>2

\* Nothing pulls.
LEMMA Holding ==
    ASSUME NEW q \in PullSet, NEW old \in Pull, state_holding(q)
    PROVE  Consensus(q, old) = old
<1> q.up \in Pull /\ q.dn \in Pull /\ q.wup \in Pull /\ q.wdn \in Pull
  BY DEF PullSet
<1>0. /\ Resolutions(q.up) = {PULL_OFF} /\ Resolutions(q.dn) = {PULL_OFF}
      /\ Resolutions(q.wup) = {PULL_OFF} /\ Resolutions(q.wdn) = {PULL_OFF}
  BY ResolutionsFacts DEF state_holding, normal_rules_off, weak_rules_off
<1>1. Settled(PULL_OFF, PULL_OFF, PULL_OFF, PULL_OFF, old) = old
  BY DEF Settled, Driven, PULL_OFF, PULL_ON
<1>2. CASE old = 2
  <2>1. old \in Outcomes(q, old)
    BY <1>0, <1>1, OutcomeOf
  <2> QED BY <1>2, <2>1, SomeDisagree
<1>3. CASE old \in {0, 1}
  BY <1>0, <1>1, <1>3, AllAgree
<1> QED BY <1>2, <1>3 DEF Pull, PULL_OFF, PULL_ON, PULL_WEAK

\* Where the case analysis of flush_updated_nodes applies, it commits a node
\* to 0 or 1 exactly if every resolution of the X pulls does.
LEMMA PullValueIsConsensus ==
    ASSUME NEW q \in PullSet, NEW old \in Pull, PullCovered(q)
    PROVE  PullValue(q, old) = Consensus(q, old)
<1>1. CASE have_interference(q)
  BY <1>1, Interfering DEF PullValue
<1>2. CASE ~have_interference(q) /\ pull_up_wins_any(q)
  BY <1>2, UpWins DEF PullValue
<1>3. CASE ~have_interference(q) /\ ~pull_up_wins_any(q) /\ pull_dn_wins_any(q)
  BY <1>3, DnWins DEF PullValue
<1> DEFINE Certain == have_interference(q) \/ pull_up_wins_any(q) \/ pull_dn_wins_any(q)
<1>4. CASE ~Certain /\ pull_up_x_wins_any(q)
  <2>1. PullValue(q, old) = IF old = 0 THEN 2 ELSE old
    BY <1>4 DEF PullValue
  <2> QED BY <1>4, <2>1, UpXWins DEF Pull, PULL_OFF, PULL_ON, PULL_WEAK
<1>5. CASE ~Certain /\ ~pull_up_x_wins_any(q) /\ pull_dn_x_wins_any(q)
  <2>1. PullValue(q, old) = IF old = 1 THEN 2 ELSE old
    BY <1>5 DEF PullValue
  <2> QED BY <1>5, <2>1, DnXWins DEF Pull, PULL_OFF, PULL_ON, PULL_WEAK
<1>6. CASE ~Certain /\ ~pull_up_x_wins_any(q) /\ ~pull_dn_x_wins_any(q)
  <2>1. state_holding(q)
    BY <1>6 DEF PullCovered
  <2>2. PullValue(q, old) = old
    BY <1>6 DEF PullValue
  <2> QED BY <2>1, <2>2, Holding
<1> QED BY <1>1, <1>2, <1>3, <1>4, <1>5, <1>6

\* Without weak pulls the case analysis leaves out nothing.
LEMMA StrongIsCovered ==
    ASSUME NEW q \in PullSet, weak_rules_off(q)
    PROVE  PullCovered(q)
BY DEF PullSet, Pull, PULL_OFF, PULL_ON, PULL_WEAK, weak_rules_off, PullCovered,
       have_interference, possible_interference_strong, pull_up_wins_any,
       pull_dn_wins_any, pull_up_x_wins_any, pull_dn_x_wins_any, cutoff_up,
       cutoff_dn, pulling_up_x, pulling_dn_x, weak_pulling_up_x,
       weak_pulling_dn_x, state_holding, normal_rules_off

\* The case analysis of flush_updated_nodes is right, and complete without
\* weak pulls.
THEOREM PullIsSound == SoundFrom = Pull /\ StrongCovered
BY PullValueIsConsensus, StrongIsCovered DEF SoundFrom, StrongCovered
=============================================================================
