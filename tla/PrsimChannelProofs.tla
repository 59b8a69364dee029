------------------------- MODULE PrsimChannelProofs -------------------------
(***************************************************************************)
(* Two results about the channels of prsim, for every type, size and       *)
(* encoding of the channel and in every order of the events.               *)
(*                                                                         *)
(* The counters: the numbers of active and X rails, which process_node     *)
(* keeps by differences, are what a recount gives, whatever the user does. *)
(*                                                                         *)
(* The handshake: with a careful user no channel ever disturbs a pending   *)
(* event and no assertion fails.  Source and sink look at the nodes and    *)
(* not at what is pending, so the invariant says what can be pending: of   *)
(* delay-insensitive rails a part of the wave towards one value or back    *)
(* from it (DI), otherwise what belongs to the one whose turn it is        *)
(* (Turns), and nothing but X and neutral before the first release         *)
(* (Unready).                                                              *)
(***************************************************************************)
EXTENDS PrsimChannel, FiniteSetTheorems, TLAPS

\* A channel object has the counters, and d those of c.
Counting(c) == {"x", "counter"} \subseteq DOMAIN c
SameCounts(c, d) == DOMAIN d = DOMAIN c /\ d.x = c.x /\ d.counter = c.counter

LEMMA SameCountsTrans ==
    ASSUME NEW c, NEW d, NEW e, SameCounts(c, d), SameCounts(d, e)
    PROVE  SameCounts(c, e)
  BY DEF SameCounts

LEMMA AdvanceKeeps ==
    ASSUME NEW c
    PROVE  SameCounts(c, advance_value(c))
  BY DEF SameCounts, advance_value

LEMMA SendKeeps ==
    ASSUME NEW c, NEW w
    PROVE  SameCounts(c, Send(c, w).chan)
  <1> DEFINE d == [c EXCEPT !.sourcing = have_value(c),
                            !.values = IF have_value(c) THEN @ ELSE <<>>]
  <1>1. SameCounts(c, d)
    BY DEF SameCounts
  <1>2. SameCounts(d, advance_value(d))
    BY AdvanceKeeps
  <1>3. Send(c, w).chan = advance_value(d)
    BY DEF Send, Reply
  <1> HIDE DEF d
  <1>4. QED
    BY <1>1, <1>2, <1>3, SameCountsTrans

LEMMA SendRequestKeeps ==
    ASSUME NEW c, NEW w
    PROVE  SameCounts(c, set_bd_data_req(c, w).chan)
  <1>1. set_bd_data_req(c, w).chan = Send(c, w).chan
    BY DEF set_bd_data_req, Reply
  <1>2. QED
    BY <1>1, SendKeeps

LEMMA SilentKeeps ==
    ASSUME NEW c, NEW evs
    PROVE  SameCounts(c, Reply(c, evs).chan) /\ SameCounts(c, Silent(c).chan)
  BY DEF SameCounts, Reply, Silent

\* A source advances at most.
LEMMA SourceAtAckKeeps ==
    ASSUME setup.type \in Type, NEW c, NEW w
    PROVE  SameCounts(c, SourceAtAck(c, w).chan)
  <1>1. CASE setup.type = "1ofN"
    BY <1>1, SendKeeps, SilentKeeps DEF SourceAtAck
  <1>2. CASE setup.type = "LEDR"
    BY <1>2, SendKeeps, SilentKeeps DEF SourceAtAck
  <1>3. CASE setup.type = "BD_2P"
    BY <1>3, SendRequestKeeps, SilentKeeps DEF SourceAtAck
  <1>4. CASE setup.type = "BD_4P"
    BY <1>4, SendRequestKeeps, SilentKeeps DEF SourceAtAck
  <1>5. QED
    BY <1>1, <1>2, <1>3, <1>4 DEF Type

LEMMA SourceAtRailKeeps ==
    ASSUME NEW c, NEW w
    PROVE  SameCounts(c, SourceAtRail(c, w).chan)
  BY SendKeeps, SilentKeeps DEF SourceAtRail

LEMMA ProcessDataKeeps ==
    ASSUME NEW c, NEW w
    PROVE  SameCounts(c, process_data(c, w))
  <1>1. PICK next : /\ SameCounts(c, next)
                    /\ SameCounts(next, process_data(c, w))
    <2>1. SameCounts(c, c)
      BY DEF SameCounts
    <2>2. SameCounts(c, advance_value(c))
      BY AdvanceKeeps
    <2>3. \/ SameCounts(c, process_data(c, w))
          \/ SameCounts(advance_value(c), process_data(c, w))
      BY DEF process_data, SameCounts
    <2>4. QED
      BY <2>1, <2>2, <2>3
  <1>2. QED
    BY <1>1, SameCountsTrans

\* Whatever process_node does, it counts the change of the node and no other.
LEMMA ProcessNodeCounts ==
    ASSUME setup.type \in Type, NEW c0, NEW n, NEW prev, NEW w
    PROVE  SameCounts(Counted(c0, n, prev, w), process_node(c0, n, prev, w).chan)
  <1> DEFINE c == Counted(c0, n, prev, w)
             src == IF ~c.sourcing THEN Silent(c)
                    ELSE IF n = Ack THEN IF c.stopped THEN Silent(c) ELSE SourceAtAck(c, w)
                    ELSE IF n = Valid /\ setup.type # "LEDR" THEN Silent(c)
                    ELSE SourceAtRail(c, w)
             read == IF Samples(c, n, w) THEN process_data(src.chan, w) ELSE src.chan
  <1> HIDE DEF c
  <1>1. SameCounts(c, src.chan)
    BY SilentKeeps, SourceAtAckKeeps, SourceAtRailKeeps
  <1> HIDE DEF src
  <1>2. SameCounts(src.chan, read)
    BY ProcessDataKeeps DEF SameCounts
  <1>3. SameCounts(c, read)
    BY <1>1, <1>2, SameCountsTrans
  <1> HIDE DEF read
  <1>4. PICK b : process_node(c0, n, prev, w).chan = [read EXCEPT !.abort = b]
    BY DEF process_node, Reply, read, src, c
  <1>5. QED
    BY <1>3, <1>4 DEF SameCounts, c

LEMMA ResumeKeeps ==
    ASSUME setup.type \in Type, NEW c, NEW w
    PROVE  SameCounts(c, resume(c, w).chan)
  <1> DEFINE d == [c EXCEPT !.stopped = FALSE]
             src == IF c.sourcing THEN ResumeSource(d, w) ELSE Silent(d)
  <1>1. SameCounts(c, d)
    BY DEF SameCounts
  <1> HIDE DEF d
  <1>2. SameCounts(d, ResumeSource(d, w).chan)
    <2>1. SameCounts(d, Send(d, w).chan) /\ SameCounts(d, Silent(d).chan)
      BY SendKeeps, SilentKeeps
    <2>2. SameCounts(d, SourceAtAck(d, w).chan)
      BY SourceAtAckKeeps
    <2>3. ASSUME NEW evs PROVE SameCounts(d, Reply(Send(d, w).chan, evs).chan)
      BY <2>1 DEF Reply
    <2>4. ASSUME NEW evs PROVE SameCounts(d, Reply(Silent(d).chan, evs).chan)
      BY <2>1 DEF Reply
    <2>5. QED
      BY <2>1, <2>2, <2>3, <2>4, SilentKeeps DEF ResumeSource
  <1>3. SameCounts(d, src.chan)
    BY <1>2, SilentKeeps
  <1> HIDE DEF src
  <1>4. PICK b : resume(c, w).chan = [src.chan EXCEPT !.abort = b]
    BY DEF resume, Reply, src, d
  <1>5. SameCounts(c, src.chan)
    BY <1>1, <1>3, SameCountsTrans
  <1>6. QED
    BY <1>4, <1>5 DEF SameCounts

LEMMA ResetKeeps ==
    ASSUME NEW c
    PROVE  SameCounts(c, reset(c).chan)
  <1>1. reset(c).chan = [c EXCEPT !.stopped = TRUE]
    BY DEF reset, Reply
  <1>2. QED
    BY <1>1 DEF SameCounts

-----------------------------------------------------------------------------
(* Counting nodes.                                                           *)

\* The nodes process_node counts at an X, and the ones that are active.
DataNodes == {n \in Nodes \ {Ack} : n = Valid => setup.type = "LEDR"}
At(S, w, v) == {n \in S : w[n] = v}
Xs(w) == At(DataNodes, w, LOGIC_OTHER)
Ons(w) == At(Rails, w, Active)

LEMMA NodesFinite ==
    ASSUME SetupOK(setup)
    PROVE  /\ Rails \subseteq Nodes /\ Ack \notin Rails /\ Valid \notin Rails
           /\ IsFiniteSet(Rails) /\ Cardinality(Rails) \in Nat
           /\ IsFiniteSet(DataNodes)
           /\ DataNodes = Rails \cup (IF setup.type = "LEDR" THEN {Valid} ELSE {})
  <1>1. setup.bundles * setup.radix \in Nat
    BY DEF SetupOK
  <1>2. IsFiniteSet(Rails) /\ Cardinality(Rails) \in Nat
    BY <1>1, FS_Interval, FS_CardinalityType DEF Rails
  <1>3. Rails \subseteq Nodes /\ Ack \notin Rails /\ Valid \notin Rails
    BY <1>1 DEF Nodes, Rails, Ack, Valid
  <1>4. setup.type = "LEDR" => setup.valid
    BY DEF SetupOK
  <1>5. DataNodes = Rails \cup (IF setup.type = "LEDR" THEN {Valid} ELSE {})
    BY <1>3, <1>4 DEF DataNodes, Nodes, Ack, Valid
  <1>6. IsFiniteSet(DataNodes)
    BY <1>2, <1>5, FS_EmptySet, FS_Singleton, FS_Union
  <1>7. QED
    BY <1>2, <1>3, <1>5, <1>6

\* One element changes.
LEMMA OneElement ==
    ASSUME NEW A, NEW B, IsFiniteSet(A), IsFiniteSet(B), NEW a, A \ {a} = B \ {a}
    PROVE  /\ Cardinality(A) \in Nat /\ Cardinality(B) \in Nat
           /\ Cardinality(B) = Cardinality(A)
                + (IF a \in B THEN 1 ELSE 0) - (IF a \in A THEN 1 ELSE 0)
  <1>1. Cardinality(A) \in Nat /\ Cardinality(B) \in Nat
    BY FS_CardinalityType
  <1>2. /\ Cardinality(A \ {a}) = IF a \in A THEN Cardinality(A) - 1 ELSE Cardinality(A)
        /\ Cardinality(B \ {a}) = IF a \in B THEN Cardinality(B) - 1 ELSE Cardinality(B)
    BY FS_RemoveElement
  <1>3. QED
    BY <1>1, <1>2

\* No node but n has another value in u than in w.
OnlyChanges(n, w, u) == \A m \in Nodes : m # n => u[m] = w[m]

\* Of a finite set S of nodes, how many have the value v after node n changed.
LEMMA OneChange ==
    ASSUME NEW S, S \subseteq Nodes, IsFiniteSet(S), NEW w, NEW u, NEW n, OnlyChanges(n, w, u),
           NEW v
    PROVE  /\ Cardinality(At(S, w, v)) \in Int
           /\ Cardinality(At(S, u, v)) =
                Cardinality(At(S, w, v)) + (IF n \in S THEN Change(v, w[n], u[n]) ELSE 0)
  <1> DEFINE A == At(S, w, v)
             B == At(S, u, v)
  <1>1. \A m \in S : m # n => u[m] = w[m]
    BY DEF OnlyChanges
  <1>2. IsFiniteSet(A) /\ IsFiniteSet(B)
    BY FS_Subset DEF At
  <1>3. A \ {n} = B \ {n}
    BY <1>1 DEF At
  <1>4. /\ n \in A <=> n \in S /\ w[n] = v
        /\ n \in B <=> n \in S /\ u[n] = v
    BY <1>1 DEF At
  <1> HIDE DEF A, B
  <1>5. /\ Cardinality(A) \in Nat /\ Cardinality(B) \in Nat
        /\ Cardinality(B) = Cardinality(A)
                + (IF n \in B THEN 1 ELSE 0) - (IF n \in A THEN 1 ELSE 0)
    BY <1>2, <1>3, OneElement
  <1>6. QED
    BY <1>4, <1>5 DEF Change, A, B

-----------------------------------------------------------------------------
(* The invariant.                                                            *)

Counts(c, w) == /\ Counting(c)
                /\ c.x = Cardinality(Xs(w))
                /\ setup.type # "LEDR" => c.counter = Cardinality(Ons(w))

ChannelInv ==
    /\ setup \in Setups
    /\ DOMAIN val = Nodes
    /\ \A i \in DOMAIN chan : Counts(chan[i], val)

LEMMA KeepsCounts ==
    ASSUME NEW c, NEW d, NEW w, Counts(c, w), SameCounts(c, d)
    PROVE  Counts(d, w)
  BY DEF Counts, SameCounts, Counting

LEMMA CountedCounts ==
    ASSUME SetupOK(setup), NEW c, NEW w, NEW u, NEW n \in Nodes, OnlyChanges(n, w, u),
           Counts(c, w)
    PROVE  Counts(Counted(c, n, w[n], u), u)
  <1> DEFINE d == Counted(c, n, w[n], u)
  <1>1. /\ IsFiniteSet(DataNodes) /\ DataNodes \subseteq Nodes
        /\ IsFiniteSet(Rails) /\ Rails \subseteq Nodes
    BY NodesFinite DEF DataNodes
  <1>2. /\ Cardinality(Xs(w)) \in Int
        /\ Cardinality(Xs(u)) = Cardinality(Xs(w))
                + (IF n \in DataNodes THEN Change(LOGIC_OTHER, w[n], u[n]) ELSE 0)
    BY <1>1, OneChange DEF Xs
  <1>3. /\ Cardinality(Ons(w)) \in Int
        /\ Cardinality(Ons(u)) = Cardinality(Ons(w))
                + (IF n \in Rails THEN Change(Active, w[n], u[n]) ELSE 0)
    BY <1>1, OneChange DEF Ons
  <1>4. CASE n = Ack \/ (n = Valid /\ setup.type # "LEDR")
    <2>1. d = c
      BY <1>4 DEF Counted
    <2>2. n \notin DataNodes /\ n \notin Rails
      BY <1>4, NodesFinite DEF Ack, Valid
    <2>3. QED
      BY <1>2, <1>3, <2>1, <2>2 DEF Counts
  <1>5. CASE ~(n = Ack \/ (n = Valid /\ setup.type # "LEDR"))
    <2>1. n \in DataNodes /\ (setup.type # "LEDR" => n \in Rails)
      BY <1>5, NodesFinite DEF DataNodes
    <2>2. d = [c EXCEPT !.x = @ + Change(LOGIC_OTHER, w[n], u[n]),
                        !.counter = IF setup.type = "LEDR" THEN @
                                    ELSE @ + Change(Active, w[n], u[n])]
      BY <1>5 DEF Counted
    <2>3. /\ DOMAIN d = DOMAIN c
          /\ d.x = c.x + Change(LOGIC_OTHER, w[n], u[n])
          /\ setup.type # "LEDR" => d.counter = c.counter + Change(Active, w[n], u[n])
      BY <2>2 DEF Counts, Counting
    <2>4. QED
      BY <1>2, <1>3, <2>1, <2>3 DEF Counts, Counting
  <1>6. QED
    BY <1>4, <1>5

\* A command that the channels answer without a change of a node.
LEMMA RespondKeeps ==
    ASSUME ChannelInv, NEW replies, NEW p, Respond(replies, p, val), UNCHANGED <<setup, val>>,
           \A i \in DOMAIN chan : SameCounts(chan[i], replies[i].chan)
    PROVE  ChannelInv'
  <1>1. chan' = [i \in DOMAIN chan |-> replies[i].chan]
    BY DEF Respond
  <1>2. \A i \in DOMAIN chan : Counts(chan'[i], val)
    BY <1>1, KeepsCounts DEF ChannelInv
  <1>3. QED
    BY <1>1, <1>2 DEF ChannelInv, Counts, Counting, Xs, Ons, DataNodes, Nodes, Rails, Active

\* A command that changes the channels only.
LEMMA CommandKeeps ==
    ASSUME ChannelInv, UNCHANGED <<setup, val>>, DOMAIN chan' = DOMAIN chan,
           \A i \in DOMAIN chan : SameCounts(chan[i], chan'[i])
    PROVE  ChannelInv'
  <1>1. \A i \in DOMAIN chan : Counts(chan'[i], val)
    BY KeepsCounts DEF ChannelInv
  <1>2. QED
    BY <1>1 DEF ChannelInv, Counts, Counting, Xs, Ons, DataNodes, Nodes, Rails, Active

\* At initialize, and at the start, everything is X and nothing is active.
LEMMA AllXCounts ==
    ASSUME SetupOK(setup), NEW c, Counting(c), c.counter = 0,
           c.x = Cardinality(Rails) + (IF setup.type = "LEDR" THEN 1 ELSE 0)
    PROVE  Counts(c, [n \in Nodes |-> LOGIC_OTHER])
  <1> DEFINE w == [n \in Nodes |-> LOGIC_OTHER]
  <1>1. Rails \subseteq Nodes /\ DataNodes \subseteq Nodes
    BY NodesFinite DEF DataNodes
  <1>2. Xs(w) = DataNodes
    BY <1>1 DEF Xs, At
  <1>3. Ons(w) = {}
    BY <1>1 DEF Ons, At, Active, Logic, LOGIC_OTHER, LOGIC_HIGH, LOGIC_LOW
  <1>4. Cardinality(Ons(w)) = 0
    BY <1>3, FS_EmptySet
  <1>5. Cardinality(DataNodes) = Cardinality(Rails) + (IF setup.type = "LEDR" THEN 1 ELSE 0)
    <2>1. CASE setup.type = "LEDR"
      <3>1. DataNodes = Rails \cup {Valid} /\ Valid \notin Rails /\ IsFiniteSet(Rails)
        BY <2>1, NodesFinite
      <3>2. QED
        BY <2>1, <3>1, FS_AddElement
    <2>2. CASE setup.type # "LEDR"
      <3>1. DataNodes = Rails /\ Cardinality(Rails) \in Nat
        BY <2>2, NodesFinite
      <3>2. QED
        BY <2>2, <3>1
    <2>3. QED
      BY <2>1, <2>2
  <1> HIDE DEF w
  <1>6. Counts(c, w)
    BY <1>2, <1>4, <1>5 DEF Counts
  <1>7. QED
    BY <1>6 DEF w

LEMMA ChannelInit == Init => ChannelInv
  <1> SUFFICES ASSUME Init PROVE ChannelInv
    OBVIOUS
  <1>1. setup \in Setups /\ SetupOK(setup)
    BY SetupsAssumption DEF Init
  <1>2. ASSUME NEW a, NEW b PROVE Counts(Channel(a, b), val)
    <2>1. /\ Counting(Channel(a, b)) /\ Channel(a, b).counter = 0
          /\ Channel(a, b).x = Cardinality(Rails) + (IF setup.type = "LEDR" THEN 1 ELSE 0)
      BY DEF Channel, Counting
    <2>2. val = [n \in Nodes |-> LOGIC_OTHER]
      BY DEF Init
    <2>3. QED
      BY <1>1, <2>1, <2>2, AllXCounts
  <1>3. \A i \in DOMAIN chan : Counts(chan[i], val)
    <2>1. ASSUME NEW a, NEW b, chan = <<a, b>>, Counts(a, val), Counts(b, val)
          PROVE  \A i \in DOMAIN chan : Counts(chan[i], val)
      <3>1. \A i \in DOMAIN chan : chan[i] = a \/ chan[i] = b
        BY <2>1
      <3>2. QED
        BY <2>1, <3>1
    <2>2. ASSUME NEW a, chan = <<a>>, Counts(a, val)
          PROVE  \A i \in DOMAIN chan : Counts(chan[i], val)
      <3>1. \A i \in DOMAIN chan : chan[i] = a
        BY <2>2
      <3>2. QED
        BY <2>2, <3>1
    <2>3. \/ chan = <<Channel(TRUE, FALSE), Channel(FALSE, setup.ack)>>
          \/ chan = <<Channel(TRUE, setup.ack)>>
      BY DEF Init
    <2>4. QED
      BY <1>2, <2>1, <2>2, <2>3
  <1>4. DOMAIN val = Nodes
    BY DEF Init
  <1>5. QED
    BY <1>1, <1>3, <1>4 DEF ChannelInv

LEMMA ExecuteKeeps ==
    ASSUME ChannelInv, NEW n \in Nodes, Execute(n)
    PROVE  ChannelInv'
  <1> DEFINE w == [val EXCEPT ![n] = pending[n].val]
  <1>1. SetupOK(setup) /\ setup.type \in Type /\ setup' = setup
    BY SetupsAssumption DEF ChannelInv, SetupOK, Execute
  <1>2. val' = w /\ DOMAIN w = Nodes /\ OnlyChanges(n, val, w)
    BY DEF Execute, ChannelInv, OnlyChanges
  <1>3. CASE w = val
    <2>1. chan' = chan /\ val' = val
      BY <1>2, <1>3 DEF Execute
    <2>2. QED
      BY <1>1, <2>1, CommandKeeps DEF SameCounts
  <1>4. CASE w # val
    <2> HIDE DEF w
    <2> DEFINE replies == [i \in DOMAIN chan |-> process_node(chan[i], n, val[n], w)]
    <2>1. PICK p : Respond(replies, p, w)
      BY <1>4 DEF Execute, w
    <2>2. chan' = [i \in DOMAIN chan |-> replies[i].chan]
      BY <2>1 DEF Respond
    <2>3. ASSUME NEW i \in DOMAIN chan PROVE Counts(chan'[i], w)
      <3>1. Counts(Counted(chan[i], n, val[n], w), w)
        BY <1>1, <1>2, CountedCounts DEF ChannelInv
      <3>2. SameCounts(Counted(chan[i], n, val[n], w), process_node(chan[i], n, val[n], w).chan)
        BY <1>1, ProcessNodeCounts
      <3>3. Counts(process_node(chan[i], n, val[n], w).chan, w)
        BY <3>1, <3>2, KeepsCounts
      <3>4. QED
        BY <2>2, <3>3
    <2>4. QED
      BY <1>1, <1>2, <2>2, <2>3 DEF ChannelInv, Counts, Counting, Xs, Ons, DataNodes, Nodes,
        Rails, Active
  <1>5. QED
    BY <1>3, <1>4

LEMMA UserKeeps ==
    ASSUME ChannelInv, User
    PROVE  ChannelInv'
  <1>1. SetupOK(setup) /\ setup.type \in Type
    BY SetupsAssumption DEF ChannelInv, SetupOK
  <1>2. ASSUME NEW I, Reset(I) PROVE ChannelInv'
    <2> DEFINE replies == [i \in DOMAIN chan |-> IF i \in I THEN reset(chan[i])
                                                 ELSE Silent(chan[i])]
    <2>1. Respond(replies, pending, val) /\ UNCHANGED <<setup, val>>
      BY <1>2 DEF Reset
    <2>2. \A i \in DOMAIN chan : SameCounts(chan[i], replies[i].chan)
      BY ResetKeeps, SilentKeeps
    <2> HIDE DEF replies
    <2>3. QED
      BY <2>1, <2>2, RespondKeeps
  <1>3. ASSUME NEW I, Release(I) PROVE ChannelInv'
    <2> DEFINE replies == [i \in DOMAIN chan |-> IF i \in I THEN resume(chan[i], val)
                                                 ELSE Silent(chan[i])]
    <2>1. Respond(replies, pending, val) /\ UNCHANGED <<setup, val>>
      BY <1>3 DEF Release
    <2>2. \A i \in DOMAIN chan : SameCounts(chan[i], replies[i].chan)
      BY <1>1, ResumeKeeps, SilentKeeps
    <2> HIDE DEF replies
    <2>3. QED
      BY <2>1, <2>2, RespondKeeps
  <1>4. ASSUME NEW i \in DOMAIN chan, Stop(i) PROVE ChannelInv'
    BY <1>4, CommandKeeps DEF Stop, SameCounts
  <1>5. ASSUME NEW b, IgnoreAll(b) PROVE ChannelInv'
    <2>1. /\ UNCHANGED <<setup, val>> /\ DOMAIN chan' = DOMAIN chan
          /\ \A i \in DOMAIN chan : chan'[i] = [chan[i] EXCEPT !.ignored = b]
      BY <1>5 DEF IgnoreAll
    <2>2. ASSUME NEW i \in DOMAIN chan PROVE SameCounts(chan[i], chan'[i])
      <3>1. chan'[i] = [chan[i] EXCEPT !.ignored = b]
        BY <2>1
      <3>2. QED
        BY <3>1 DEF SameCounts
    <2>3. QED
      BY <2>1, <2>2, CommandKeeps
  <1>6. ASSUME NEW i \in DOMAIN chan, Refill(i) PROVE ChannelInv'
    <2>1. /\ UNCHANGED <<setup, val>> /\ DOMAIN chan' = DOMAIN chan
          /\ \A j \in DOMAIN chan : j # i => chan'[j] = chan[j]
      BY <1>6 DEF Refill
    <2>2. PICK a, b, c, d : chan'[i] = [chan[i] EXCEPT !.values = a, !.index = b,
                                                       !.sourcing = c, !.expecting = d]
      BY <1>6 DEF Refill
    <2>3. SameCounts(chan[i], chan'[i])
      BY <2>2 DEF SameCounts
    <2>4. \A j \in DOMAIN chan : SameCounts(chan[j], chan'[j])
      BY <2>1, <2>3 DEF SameCounts
    <2>5. QED
      BY <2>1, <2>4, CommandKeeps
  <1>7. ASSUME Initialize PROVE ChannelInv'
    <2>1. /\ setup' = setup /\ val' = [n \in Nodes |-> LOGIC_OTHER]
          /\ chan' = [i \in DOMAIN chan |-> Initialized(chan[i])]
      BY <1>7 DEF Initialize
    <2>2. ASSUME NEW i \in DOMAIN chan PROVE Counts(chan'[i], val')
      <3>1. Counting(chan[i])
        BY DEF ChannelInv, Counts
      <3>2. Channel(FALSE, FALSE).x = Cardinality(Rails) + (IF setup.type = "LEDR" THEN 1 ELSE 0)
        BY DEF Channel
      <3>3. /\ Counting(chan'[i]) /\ chan'[i].counter = 0
            /\ chan'[i].x = Cardinality(Rails) + (IF setup.type = "LEDR" THEN 1 ELSE 0)
        BY <2>1, <3>1, <3>2 DEF Initialized, Counting
      <3>4. QED
        BY <1>1, <2>1, <3>3, AllXCounts
    <2>3. QED
      BY <2>1, <2>2 DEF ChannelInv, Counts, Counting, Xs, Ons, DataNodes, Nodes, Rails, Active
  <1>8. QED
    BY <1>2, <1>3, <1>4, <1>5, <1>6, <1>7 DEF User

LEMMA ChannelNext ==
    ASSUME ChannelInv, [Next]_vars PROVE ChannelInv'
  <1>1. CASE User
    BY <1>1, UserKeeps
  <1>2. ASSUME NEW n \in Nodes, Execute(n) PROVE ChannelInv'
    BY <1>2, ExecuteKeeps
  <1>3. CASE UNCHANGED vars
    BY <1>3, CommandKeeps DEF vars, SameCounts
  <1>4. QED
    BY <1>1, <1>2, <1>3 DEF Next

LEMMA SetupStays == ASSUME [Next]_vars PROVE setup' = setup
  BY DEF Next, User, Reset, Release, Stop, IgnoreAll, Refill, Initialize, Execute, vars

\* The counters of a channel are what initialize_data_counter would compute,
\* for every type, number and encoding of the rails, for one object or two,
\* whatever the user does and however the events of the channel interleave.
THEOREM ChannelCountersMatch == Spec => []CountersMatch
  <1>1. ChannelInv /\ [Next]_vars => ChannelInv'
    BY ChannelNext
  <1>2. ChannelInv => CountersMatch
    <2>1. \A w : Xs(w) = {n \in Nodes \ {Ack} : /\ n = Valid => setup.type = "LEDR"
                                                /\ w[n] = LOGIC_OTHER}
      BY DEF Xs, At, DataNodes
    <2>2. \A w : Ons(w) = {r \in Rails : w[r] = Active}
      BY DEF Ons, At
    <2>3. QED
      BY <2>1, <2>2 DEF ChannelInv, Counts, CountersMatch
  <1>3. QED
    BY <1>1, <1>2, ChannelInit, PTL DEF Spec

-----------------------------------------------------------------------------
(* Delay-insensitive codes.                                                  *)

LEMMA DivMod ==
    ASSUME NEW v \in Int, NEW k \in Int, k > 0, NEW q \in Int, NEW r \in Int,
           q = v \div k, r = v % k
    PROVE  r \in 0 .. k - 1 /\ v = q * k + r
  <1>1. r \in 0 .. k - 1
    OBVIOUS
  <1>2. v = q * k + r
    BY SMTT(30)
  <1>3. QED
    BY <1>1, <1>2

LEMMA DivModUnique ==
    ASSUME NEW b \in Int, NEW k \in Nat \ {0}, NEW d \in 0 .. k - 1
    PROVE  (b * k + d) \div k = b /\ (b * k + d) % k = d
  OBVIOUS

\* A rail is one of the rails of its bundle.
LEMMA RailPlace ==
    ASSUME SetupOK(setup), NEW r \in Rails
    PROVE  /\ Bundle(r) \in 0 .. setup.bundles - 1 /\ Digit(r) \in 0 .. setup.radix - 1
           /\ r = Bundle(r) * setup.radix + Digit(r) + 1
  <1> DEFINE k == setup.radix
             n == setup.bundles
  <1>1. k \in Nat \ {0} /\ n \in Nat \ {0} /\ n * k \in Nat
    BY DEF SetupOK
  <1>2. r \in Int /\ r >= 1 /\ r <= n * k
    BY <1>1 DEF Rails
  <1>3. /\ Bundle(r) \in Int /\ Digit(r) \in 0 .. k - 1
        /\ r - 1 = Bundle(r) * k + Digit(r)
    <2>1. r - 1 \in Int /\ k > 0 /\ Bundle(r) = (r - 1) \div k /\ Digit(r) = (r - 1) % k
      BY <1>1, <1>2 DEF Bundle, Digit
    <2>2. Bundle(r) \in Int /\ Digit(r) \in Int
      BY <1>1, <2>1
    <2>3. k \in Int
      BY <1>1
    <2> HIDE DEF k
    <2>4. Digit(r) \in 0 .. k - 1 /\ r - 1 = Bundle(r) * k + Digit(r)
      BY <2>1, <2>2, <2>3, DivMod, ZenonT(30)
    <2>5. QED
      BY <2>2, <2>4
  <1> HIDE DEF k, n
  <1>4. Bundle(r) >= 0
    <2>1. CASE Bundle(r) <= -1
      <3>1. Bundle(r) * k <= -k
        BY <1>1, <1>3, <2>1
      <3>2. QED
        BY <1>1, <1>2, <1>3, <3>1
    <2>2. QED
      BY <1>3, <2>1
  <1>5. Bundle(r) < n
    <2>1. CASE Bundle(r) >= n
      <3>1. Bundle(r) * k >= n * k
        BY <1>1, <1>3, <2>1
      <3>2. QED
        BY <1>1, <1>2, <1>3, <3>1
    <2>2. QED
      BY <1>1, <1>3, <2>1
  <1>6. r = Bundle(r) * k + Digit(r) + 1
    BY <1>1, <1>2, <1>3
  <1>7. QED
    BY <1>1, <1>3, <1>4, <1>5, <1>6 DEF k, n

LEMMA PlaceRail ==
    ASSUME SetupOK(setup), NEW b \in 0 .. setup.bundles - 1, NEW d \in 0 .. setup.radix - 1,
           NEW q, q = b * setup.radix + d + 1
    PROVE  q \in Rails /\ Bundle(q) = b /\ Digit(q) = d
  <1>1. PICK k \in Nat \ {0}, n \in Nat \ {0} : k = setup.radix /\ n = setup.bundles
    BY DEF SetupOK
  <1>2. b \in Nat /\ d \in Nat /\ b + 1 <= n /\ d + 1 <= k /\ d \in 0 .. k - 1
    BY <1>1
  <1>3. b * k \in Nat /\ n * k \in Nat /\ (b + 1) * k <= n * k /\ (b + 1) * k = b * k + k
    BY <1>2
  <1>4. q \in Int /\ q - 1 = b * k + d /\ q >= 1 /\ q <= n * k
    BY <1>1, <1>2, <1>3
  <1>5. (b * k + d) \div k = b /\ (b * k + d) % k = d
    <2>1. b \in Int
      BY <1>2
    <2>2. QED
      BY <1>2, <2>1, DivModUnique, Zenon
  <1>6. q \in Rails
    BY <1>1, <1>3, <1>4 DEF Rails
  <1>7. Bundle(q) = b /\ Digit(q) = d
    BY <1>1, <1>4, <1>5 DEF Bundle, Digit
  <1>8. QED
    BY <1>6, <1>7

\* The rails that are active when value v is on them.
Code(v) == {r \in Rails : Encodes(v, r)}

\* A value has one active rail in every bundle.
LEMMA CodeRails ==
    ASSUME SetupOK(setup), setup.type = "1ofN", NEW v \in Int
    PROVE  \A b \in 0 .. setup.bundles - 1 : \E q \in Code(v) :
                \A r \in Rails : Bundle(r) = b /\ r \in Code(v) <=> r = q
  <1> SUFFICES ASSUME NEW b \in 0 .. setup.bundles - 1
               PROVE  \E q \in Code(v) : \A r \in Rails :
                            Bundle(r) = b /\ r \in Code(v) <=> r = q
    OBVIOUS
  <1> DEFINE d == (v \div setup.radix ^ b) % setup.radix
  <1>1. setup.radix \in Nat \ {0} /\ setup.bundles \in Nat \ {0} /\ b \in Nat
    BY DEF SetupOK
  <1>2. setup.radix ^ b \in Int /\ setup.radix ^ b > 0
    BY <1>1 DEF SetupOK
  <1>3. v \div setup.radix ^ b \in Int
    BY <1>2
  <1>4. d \in 0 .. setup.radix - 1
    BY <1>1, <1>3
  <1>5. \A r \in Rails : Bundle(r) = b => (r \in Code(v) <=> d = Digit(r))
    BY DEF Code, Encodes
  <1> HIDE DEF d
  <1> DEFINE q == b * setup.radix + d + 1
  <1>6. q \in Rails /\ Bundle(q) = b /\ Digit(q) = d
    BY <1>4, PlaceRail
  <1>7. ASSUME NEW r \in Rails, Bundle(r) = b, Digit(r) = d PROVE r = q
    BY <1>7, RailPlace
  <1> HIDE DEF q
  <1>8. QED
    BY <1>5, <1>6, <1>7

LEMMA CodeSize ==
    ASSUME SetupOK(setup), setup.type = "1ofN", NEW v \in Int
    PROVE  IsFiniteSet(Code(v)) /\ Cardinality(Code(v)) = setup.bundles
  <1> DEFINE B == 0 .. setup.bundles - 1
             f == [r \in Code(v) |-> Bundle(r)]
  <1>1. IsFiniteSet(Code(v))
    BY NodesFinite, FS_Subset DEF Code
  <1>2. setup.bundles \in Nat \ {0}
    BY DEF SetupOK
  <1>3. Cardinality(B) = setup.bundles
    BY <1>2, FS_Interval
  <1>4. \A b \in B : \E q \in Code(v) : \A r \in Rails : Bundle(r) = b /\ r \in Code(v) <=> r = q
    BY CodeRails
  <1>5. \A r \in Code(v) : r \in Rails /\ Bundle(r) \in B
    BY RailPlace DEF Code
  <1> HIDE DEF B
  <1>6. f \in [Code(v) -> B]
    BY <1>5
  <1>7. \A r, s \in Code(v) : f[r] = f[s] => r = s
    BY <1>4, <1>5
  <1>8. \A b \in B : \E r \in Code(v) : f[r] = b
    BY <1>4, <1>5
  <1>9. f \in Bijection(Code(v), B)
    BY <1>6, <1>7, <1>8 DEF Bijection, Injection, Surjection, IsInjective
  <1>10. QED
    BY <1>1, <1>3, <1>9, FS_Bijection DEF ExistsBijection

\* Rails that carry a whole value can be read.
LEMMA CodeReadable ==
    ASSUME SetupOK(setup), setup.type = "1ofN", NEW v \in Int, NEW w,
           \A r \in Rails : w[r] # LOGIC_OTHER, Ons(w) = Code(v)
    PROVE  readable(w)
  <1> SUFFICES ASSUME NEW r \in Rails
               PROVE  Cardinality({q \in Rails : Bundle(q) = Bundle(r) /\ w[q] = Active}) = 1
    BY DEF readable
  <1>1. PICK q \in Code(v) : \A s \in Rails : Bundle(s) = Bundle(r) /\ s \in Code(v) <=> s = q
    BY CodeRails, RailPlace
  <1>2. \A s \in Rails : w[s] = Active <=> s \in Code(v)
    BY DEF Ons, At
  <1>3. {s \in Rails : Bundle(s) = Bundle(r) /\ w[s] = Active} = {q}
    BY <1>1, <1>2 DEF Code
  <1>4. QED
    BY <1>3, FS_Singleton

-----------------------------------------------------------------------------
(* The objects of the channel.                                               *)

\* What is needed of an object, and that d is c with its part in the channel.
Object(c) ==
    /\ {"sourcing", "sinking", "stopped", "values", "index", "abort"} \subseteq DOMAIN c
    /\ c.values \in Seq(Int) /\ c.index \in Nat

SamePart(c, d) ==
    /\ DOMAIN d = DOMAIN c /\ Object(d)
    /\ d.sinking = c.sinking
    /\ d.sourcing => c.sourcing

\* Nor does it start or fail.
Continues(c, d) == SamePart(c, d) /\ (c.stopped => d.stopped) /\ (d.abort => c.abort)

LEMMA ContinuesTrans ==
    ASSUME NEW c, NEW d, NEW e, Continues(c, d), Continues(d, e)
    PROVE  Continues(c, e)
  BY DEF Continues, SamePart

LEMMA ContinuesSelf == ASSUME NEW c, Object(c) PROVE Continues(c, c)
  BY DEF Continues, SamePart

LEMMA AdvanceContinues ==
    ASSUME NEW c, Object(c) PROVE Continues(c, advance_value(c))
  <1>1. ASSUME NEW j \in Nat PROVE Continues(c, [c EXCEPT !.index = j])
    BY DEF Continues, SamePart, Object
  <1>2. Continues(c, [c EXCEPT !.index = 0, !.values = <<>>])
    BY DEF Continues, SamePart, Object
  <1>3. c.index \in Nat /\ c.index + 1 \in Nat
    BY DEF Object
  <1>4. advance_value(c) \in {[c EXCEPT !.index = c.index + 1], [c EXCEPT !.index = 0],
                              [c EXCEPT !.index = 0, !.values = <<>>]}
    BY DEF advance_value
  <1>5. QED
    BY <1>1, <1>2, <1>3, <1>4

LEMMA SendContinues ==
    ASSUME NEW c, NEW w, Object(c), c.sourcing PROVE Continues(c, Send(c, w).chan)
  <1> DEFINE d == [c EXCEPT !.sourcing = have_value(c),
                            !.values = IF have_value(c) THEN @ ELSE <<>>]
  <1>1. Continues(c, d)
    BY DEF Continues, SamePart, Object
  <1>2. Send(c, w).chan = advance_value(d)
    BY DEF Send, Reply
  <1> HIDE DEF d
  <1>3. Continues(d, advance_value(d))
    BY <1>1, AdvanceContinues DEF Continues, SamePart
  <1>4. QED
    BY <1>1, <1>2, <1>3, ContinuesTrans

LEMMA SilentContinues ==
    ASSUME NEW c, NEW evs, Object(c)
    PROVE  Continues(c, Reply(c, evs).chan) /\ Continues(c, Silent(c).chan)
  BY ContinuesSelf DEF Reply, Silent

LEMMA SourceContinues ==
    ASSUME setup.type \in Type, NEW c, NEW w, Object(c), c.sourcing
    PROVE  /\ Continues(c, SourceAtAck(c, w).chan)
           /\ Continues(c, SourceAtRail(c, w).chan)
  <1>1. Continues(c, set_bd_data_req(c, w).chan)
    BY SendContinues DEF set_bd_data_req, Reply
  <1>2. /\ Continues(c, Send(c, w).chan) /\ Continues(c, Silent(c).chan)
        /\ \A evs : Continues(c, Reply(c, evs).chan)
    BY SendContinues, SilentContinues
  <1>3. CASE setup.type = "1ofN"
    BY <1>2, <1>3 DEF SourceAtAck, SourceAtRail
  <1>4. CASE setup.type = "LEDR"
    BY <1>2, <1>4 DEF SourceAtAck, SourceAtRail
  <1>5. CASE setup.type = "BD_2P"
    BY <1>1, <1>2, <1>5 DEF SourceAtAck, SourceAtRail
  <1>6. CASE setup.type = "BD_4P"
    BY <1>1, <1>2, <1>6 DEF SourceAtAck, SourceAtRail
  <1>7. QED
    BY <1>3, <1>4, <1>5, <1>6 DEF Type

\* Reading the data can only fail when they cannot be read.
LEMMA ProcessDataContinues ==
    ASSUME NEW c, NEW w, Object(c)
    PROVE  /\ SamePart(c, process_data(c, w))
           /\ c.stopped => process_data(c, w).stopped
           /\ readable(w) => Continues(c, process_data(c, w))
  <1> DEFINE v == data_is_valid(c)
             sampled == v \/ bundled
             logs == c.logging /\ ~c.ignored
             checks == c.expecting /\ ~c.ignored /\ have_value(c)
             picky == checks /\ current_value(c) # DontCare
             next == IF checks /\ sampled THEN advance_value(c) ELSE c
             spent == c.expecting /\ ~c.ignored /\ ~have_value(c)
             empties == IF four_phase THEN spent ELSE checks /\ ~have_value(next)
             log == IF ~logs THEN next.log
                    ELSE Append(next.log, IF sampled /\ readable(w) THEN data_rails_value(w)
                                          ELSE DontCare)
             mismatch == next.mismatch \/ (picky /\ (v /\ readable(w)
                                                => data_rails_value(w) # current_value(c)))
             abort == next.abort \/ (~readable(w) /\ ((logs /\ sampled) \/ (picky /\ v)))
             values == IF spent THEN <<>> ELSE next.values
             expecting == next.expecting /\ ~spent
             stopped == next.stopped \/ (empties /\ c.sinking /\ c.stop_on_empty)
  <1>1. process_data(c, w) =
            [next EXCEPT !.log = log, !.mismatch = mismatch, !.abort = abort,
                         !.expecting = expecting, !.values = values, !.stopped = stopped]
    BY DEF process_data
  <1>2. Continues(c, next)
    BY ContinuesSelf, AdvanceContinues
  <1>3. /\ values = <<>> \/ values = next.values
        /\ next.stopped => stopped
        /\ readable(w) => (abort => next.abort)
    OBVIOUS
  <1> HIDE DEF v, sampled, logs, checks, picky, next, spent, empties, log, mismatch, abort,
               values, expecting, stopped
  <1>o. Object(next)
    BY <1>2 DEF Continues, SamePart
  <1>4. SamePart(next, process_data(c, w))
    <2>1. values \in Seq(Int)
      <3>1. <<>> \in Seq(Int) /\ next.values \in Seq(Int)
        BY <1>o DEF Object
      <3>2. QED
        BY <1>3, <3>1, Zenon
    <2>2. DOMAIN process_data(c, w) = DOMAIN next
      BY <1>1
    <2>3. Object(process_data(c, w))
      BY <1>1, <1>o, <2>1, <2>2 DEF Object
    <2>4. QED
      BY <1>1, <2>2, <2>3 DEF SamePart
  <1>5. next.stopped => process_data(c, w).stopped
    BY <1>1, <1>3, <1>o DEF Object
  <1>6. readable(w) => (process_data(c, w).abort => next.abort)
    BY <1>1, <1>3, <1>o DEF Object
  <1>7. QED
    BY <1>2, <1>4, <1>5, <1>6 DEF Continues, SamePart

\* The part that a source has in process_node.
SourceReply(c, n, w) ==
    IF ~c.sourcing THEN Silent(c)
    ELSE IF n = Ack THEN IF c.stopped THEN Silent(c) ELSE SourceAtAck(c, w)
    ELSE IF n = Valid /\ setup.type # "LEDR" THEN Silent(c)
    ELSE SourceAtRail(c, w)

LEMMA CountedContinues ==
    ASSUME NEW c, NEW n, NEW prev, NEW w, Object(c)
    PROVE  Continues(c, Counted(c, n, prev, w))
  BY DEF Counted, Continues, SamePart, Object

LEMMA ProcessNodeParts ==
    ASSUME setup.type \in Type, NEW c0, NEW n, NEW prev, NEW w, Object(c0),
           NEW c, c = Counted(c0, n, prev, w), NEW d, d = process_node(c0, n, prev, w)
    PROVE  /\ SamePart(c0, d.chan) /\ (c0.stopped => d.chan.stopped)
           /\ (Samples(c, n, w) => readable(w)) /\ ~status_fails(c, w) => Continues(c0, d.chan)
           /\ \E K : /\ \/ K = NoEvents
                        \/ K = SinkAtNode(c, n, w) /\ c0.sinking /\ ~c0.stopped
                     /\ d.evs = Also(K, SourceReply(c, n, w).evs)
  <1> DEFINE src == SourceReply(c, n, w)
             read == IF Samples(c, n, w) THEN process_data(src.chan, w) ELSE src.chan
             stopped == IF setup.type = "LEDR" THEN c.stopped ELSE read.stopped
             asserts == setup.type # "LEDR" /\ n \in {Ack, Valid} /\ status_fails(c, w)
             K == IF c.sinking /\ ~stopped THEN SinkAtNode(c, n, w) ELSE NoEvents
  <1>1. /\ d.chan = [read EXCEPT !.abort = @ \/ asserts]
        /\ d.evs = Also(K, src.evs)
    BY DEF process_node, SourceReply, Reply
  <1>2. Continues(c0, c) /\ Object(c)
    BY CountedContinues DEF Continues, SamePart
  <1>3. Continues(c, src.chan)
    BY <1>2, SilentContinues, SourceContinues DEF SourceReply
  <1> HIDE DEF src
  <1>4. /\ SamePart(src.chan, read) /\ (src.chan.stopped => read.stopped)
        /\ (Samples(c, n, w) => readable(w)) => Continues(src.chan, read)
    <2>1. Object(src.chan)
      BY <1>3 DEF Continues, SamePart
    <2>2. QED
      BY <2>1, ProcessDataContinues, ContinuesSelf DEF Continues
  <1> HIDE DEF read
  <1>5. /\ SamePart(c0, read) /\ (c0.stopped => read.stopped)
        /\ (Samples(c, n, w) => readable(w)) => Continues(c0, read)
    BY <1>2, <1>3, <1>4 DEF Continues, SamePart
  <1>6. asserts => status_fails(c, w)
    OBVIOUS
  <1> HIDE DEF asserts
  <1>7. /\ SamePart(read, d.chan) /\ (read.stopped => d.chan.stopped)
        /\ ~status_fails(c, w) => (d.chan.abort => read.abort)
    <2>1. Object(read)
      BY <1>5 DEF SamePart
    <2>2. QED
      BY <1>1, <1>6, <2>1 DEF SamePart, Object
  <1>8. K = NoEvents \/ (K = SinkAtNode(c, n, w) /\ c0.sinking /\ ~c0.stopped)
    BY <1>2, <1>5 DEF Continues, SamePart
  <1> HIDE DEF K
  <1>9. QED
    BY <1>1, <1>5, <1>7, <1>8 DEF Continues, SamePart, src

LEMMA ResetPart ==
    ASSUME NEW c, Object(c)
    PROVE  SamePart(c, reset(c).chan) /\ reset(c).chan.stopped /\ reset(c).chan.abort = c.abort
  <1>1. reset(c).chan = [c EXCEPT !.stopped = TRUE]
    BY DEF reset, Reply
  <1>2. QED
    BY <1>1 DEF SamePart, Object

LEMMA ResumeParts ==
    ASSUME setup.type \in Type, NEW c, NEW w, Object(c), NEW d, d = [c EXCEPT !.stopped = FALSE],
           NEW r, r = resume(c, w)
    PROVE  /\ SamePart(c, r.chan)
           /\ r.chan.abort => c.abort \/ status_fails(c, w)
           /\ r.evs = Also(IF c.sourcing THEN ResumeSource(d, w).evs ELSE NoEvents,
                           IF c.sinking THEN ResumeSink(c, w) ELSE NoEvents)
  <1> DEFINE src == IF c.sourcing THEN ResumeSource(d, w) ELSE Silent(d)
  <1>1. SamePart(c, d) /\ d.abort = c.abort /\ d.sourcing = c.sourcing /\ Object(d)
    BY DEF SamePart, Object
  <1>2. c.sourcing => Continues(d, ResumeSource(d, w).chan)
    <2> SUFFICES ASSUME c.sourcing PROVE Continues(d, ResumeSource(d, w).chan)
      OBVIOUS
    <2>1. Continues(d, Send(d, w).chan) /\ Continues(d, SourceAtAck(d, w).chan)
      BY <1>1, SendContinues, SourceContinues
    <2>2. \A evs : Continues(d, Reply(d, evs).chan) /\ Continues(d, Silent(d).chan)
      BY <1>1, SilentContinues
    <2>3. \A evs : /\ Continues(d, Reply(Send(d, w).chan, evs).chan)
                   /\ Continues(d, Reply(Silent(d).chan, evs).chan)
      BY <2>1, <2>2 DEF Reply
    <2>4. QED
      BY <2>1, <2>2, <2>3 DEF ResumeSource
  <1>3. Continues(d, src.chan)
    BY <1>1, <1>2, SilentContinues
  <1>4. src.evs = IF c.sourcing THEN ResumeSource(d, w).evs ELSE NoEvents
    BY DEF Silent, Reply
  <1>5. /\ r.chan = [src.chan EXCEPT !.abort = @ \/ status_fails(c, w)]
        /\ r.evs = Also(src.evs, IF c.sinking THEN ResumeSink(c, w) ELSE NoEvents)
    BY DEF resume, Reply
  <1> HIDE DEF src
  <1>6. Object(src.chan)
    BY <1>3 DEF Continues, SamePart
  <1>7. SamePart(src.chan, r.chan) /\ (r.chan.abort => src.chan.abort \/ status_fails(c, w))
    BY <1>5, <1>6 DEF SamePart, Object
  <1>8. QED
    BY <1>1, <1>3, <1>4, <1>5, <1>7 DEF Continues, SamePart

-----------------------------------------------------------------------------
(* Who drives which node: the first object is the source, the last the sink. *)

Parts ==
    /\ DOMAIN chan = IF setup.split THEN {1, 2} ELSE {1}
    /\ \A i \in DOMAIN chan :
            /\ Object(chan[i])
            /\ chan[i].sourcing => i = 1
            /\ chan[i].sinking => setup.ack /\ (setup.split => i = 2)
    /\ ~dead => \A i \in DOMAIN chan : ~chan[i].abort

\* The events of E are those of K and of S.
Together(E, K, S) ==
    /\ DOMAIN E = DOMAIN K \cup DOMAIN S
    /\ \A m \in DOMAIN K : E[m] = K[m]
    /\ \A m \in DOMAIN S : E[m] = S[m]

LEMMA NoEventsEmpty == DOMAIN NoEvents = {}
  BY DEF NoEvents

LEMMA AlsoTogether ==
    ASSUME NEW K, NEW S, DOMAIN K \cap DOMAIN S = {}
    PROVE  Together(Also(K, S), K, S)
  BY DEF Together, Also

\* Two objects ask for the events that one would ask for.
LEMMA AlsoSplit ==
    ASSUME NEW K, NEW S, DOMAIN K \cap DOMAIN S = {}
    PROVE  /\ Together(Also(Also(NoEvents, S), Also(K, NoEvents)), K, S)
           /\ Together(Also(Also(S, NoEvents), Also(NoEvents, K)), K, S)
  <1>1. /\ DOMAIN Also(NoEvents, S) = DOMAIN S /\ DOMAIN Also(S, NoEvents) = DOMAIN S
        /\ DOMAIN Also(NoEvents, K) = DOMAIN K /\ DOMAIN Also(K, NoEvents) = DOMAIN K
    BY NoEventsEmpty DEF Also
  <1>2. /\ \A m \in DOMAIN S : Also(NoEvents, S)[m] = S[m] /\ Also(S, NoEvents)[m] = S[m]
        /\ \A m \in DOMAIN K : Also(NoEvents, K)[m] = K[m] /\ Also(K, NoEvents)[m] = K[m]
    BY NoEventsEmpty DEF Also
  <1>3. ASSUME NEW f, NEW g, DOMAIN f = DOMAIN S, DOMAIN g = DOMAIN K,
               \A m \in DOMAIN S : f[m] = S[m], \A m \in DOMAIN K : g[m] = K[m]
        PROVE  Together(Also(f, g), K, S)
    BY <1>3 DEF Together, Also
  <1>4. QED
    BY <1>1, <1>2, <1>3

\* What the objects ask for after node n has changed.
LEMMA NodeAsked ==
    ASSUME setup.type \in Type, Parts, NEW n, NEW prev, NEW w, NEW E,
           E = Asked([i \in DOMAIN chan |-> process_node(chan[i], n, prev, w)])
    PROVE  \E i \in DOMAIN chan : \E K :
              /\ \/ K = NoEvents
                 \/ /\ K = SinkAtNode(Counted(chan[i], n, prev, w), n, w)
                    /\ setup.ack /\ ~chan[i].stopped
              /\ LET S == SourceReply(Counted(chan[1], n, prev, w), n, w).evs
                 IN  DOMAIN K \cap DOMAIN S = {} => Together(E, K, S)
  <1> DEFINE c(i) == Counted(chan[i], n, prev, w)
             S == SourceReply(c(1), n, w).evs
  <1>1. \A i \in DOMAIN chan : Object(chan[i])
    BY DEF Parts
  <1>2. \A i \in DOMAIN chan : \E K :
            /\ K = NoEvents \/ (K = SinkAtNode(c(i), n, w) /\ chan[i].sinking /\ ~chan[i].stopped)
            /\ process_node(chan[i], n, prev, w).evs = Also(K, SourceReply(c(i), n, w).evs)
    BY <1>1, ProcessNodeParts
  <1> HIDE DEF c
  <1>3. CASE ~setup.split
    <2>1. DOMAIN chan = {1}
      BY <1>3 DEF Parts
    <2>2. E = process_node(chan[1], n, prev, w).evs
      BY <2>1 DEF Asked
    <2>3. PICK K :
            /\ K = NoEvents \/ (K = SinkAtNode(c(1), n, w) /\ chan[1].sinking /\ ~chan[1].stopped)
            /\ E = Also(K, S)
      BY <1>2, <2>1, <2>2
    <2>4. DOMAIN K \cap DOMAIN S = {} => Together(E, K, S)
      BY <2>3, AlsoTogether
    <2>5. QED
      BY <2>1, <2>3, <2>4 DEF Parts, c
  <1>4. CASE setup.split
    <2>1. DOMAIN chan = {1, 2} /\ ~chan[1].sinking /\ ~chan[2].sourcing
      BY <1>4 DEF Parts
    <2>2. E = Also(process_node(chan[1], n, prev, w).evs, process_node(chan[2], n, prev, w).evs)
      BY <2>1 DEF Asked
    <2>3. process_node(chan[1], n, prev, w).evs = Also(NoEvents, S)
      BY <1>2, <2>1
    <2>4. ~c(2).sourcing
      BY <1>1, <2>1, CountedContinues DEF Continues, SamePart, c
    <2>5. SourceReply(c(2), n, w).evs = NoEvents
      BY <2>4 DEF SourceReply, Silent, Reply
    <2>6. PICK K :
            /\ K = NoEvents \/ (K = SinkAtNode(c(2), n, w) /\ chan[2].sinking /\ ~chan[2].stopped)
            /\ process_node(chan[2], n, prev, w).evs = Also(K, NoEvents)
      BY <1>2, <2>1, <2>5
    <2>7. DOMAIN K \cap DOMAIN S = {} => Together(E, K, S)
      BY <2>2, <2>3, <2>6, AlsoSplit
    <2>8. QED
      BY <2>1, <2>6, <2>7 DEF Parts, c
  <1>5. QED
    BY <1>3, <1>4

\* What they ask for when those in I are released.
ReleasedSink(K) ==
    K = NoEvents \/ \E i \in DOMAIN chan : K = ResumeSink(chan[i], val) /\ setup.ack
ReleasedSource(S, I) ==
    \/ S = NoEvents
    \/ /\ S = ResumeSource([chan[1] EXCEPT !.stopped = FALSE], val).evs
       /\ 1 \in I /\ chan[1].sourcing

LEMMA ReleaseAsked ==
    ASSUME setup.type \in Type, Parts, NEW I, NEW E,
           E = Asked([i \in DOMAIN chan |-> IF i \in I THEN resume(chan[i], val)
                                            ELSE Silent(chan[i])])
    PROVE  \E K, S : /\ ReleasedSink(K) /\ ReleasedSource(S, I)
                     /\ DOMAIN K \cap DOMAIN S = {} => Together(E, K, S)
  <1> DEFINE e(i) == (IF i \in I THEN resume(chan[i], val) ELSE Silent(chan[i])).evs
             S == IF 1 \in I /\ chan[1].sourcing
                  THEN ResumeSource([chan[1] EXCEPT !.stopped = FALSE], val).evs ELSE NoEvents
  <1>1. ASSUME NEW i \in DOMAIN chan
        PROVE  e(i) = Also(IF i \in I /\ chan[i].sourcing
                           THEN ResumeSource([chan[i] EXCEPT !.stopped = FALSE], val).evs
                           ELSE NoEvents,
                           IF i \in I /\ chan[i].sinking THEN ResumeSink(chan[i], val) ELSE NoEvents)
    <2>1. CASE i \in I
      BY <2>1, ResumeParts DEF Parts
    <2>2. CASE i \notin I
      <3>1. e(i) = NoEvents
        BY <2>2 DEF Silent, Reply
      <3>2. Also(NoEvents, NoEvents) = NoEvents
        BY NoEventsEmpty DEF Also, NoEvents
      <3>3. QED
        BY <2>2, <3>1, <3>2
    <2>3. QED
      BY <2>1, <2>2
  <1>2. CASE ~setup.split
    <2>1. DOMAIN chan = {1}
      BY <1>2 DEF Parts
    <2>2. E = e(1)
      BY <2>1 DEF Asked
    <2> HIDE DEF e
    <2> DEFINE K == IF 1 \in I /\ chan[1].sinking THEN ResumeSink(chan[1], val) ELSE NoEvents
    <2>3. E = Also(S, K)
      BY <1>1, <2>1, <2>2
    <2>4. DOMAIN K \cap DOMAIN S = {} => Together(E, K, S)
      <3> HIDE DEF K, S
      <3>1. QED
        BY <2>3 DEF Together, Also
    <2>5. K = NoEvents \/ (K = ResumeSink(chan[1], val) /\ setup.ack)
      BY <2>1 DEF Parts
    <2>6. ReleasedSink(K) /\ ReleasedSource(S, I)
      BY <2>1, <2>5 DEF ReleasedSink, ReleasedSource
    <2> HIDE DEF K, S
    <2>7. QED
      BY <2>4, <2>6
  <1>3. CASE setup.split
    <2>1. DOMAIN chan = {1, 2} /\ ~chan[1].sinking /\ ~chan[2].sourcing
      BY <1>3 DEF Parts
    <2>2. E = Also(e(1), e(2))
      BY <2>1 DEF Asked
    <2> HIDE DEF e
    <2> DEFINE K == IF 2 \in I /\ chan[2].sinking THEN ResumeSink(chan[2], val) ELSE NoEvents
    <2>3. e(1) = Also(S, NoEvents) /\ e(2) = Also(NoEvents, K)
      BY <1>1, <2>1
    <2>4. DOMAIN K \cap DOMAIN S = {} => Together(E, K, S)
      <3> HIDE DEF K, S
      <3>1. QED
        BY <2>2, <2>3, AlsoSplit
    <2>5. K = NoEvents \/ (K = ResumeSink(chan[2], val) /\ setup.ack)
      BY <2>1 DEF Parts
    <2>6. ReleasedSink(K) /\ ReleasedSource(S, I)
      BY <2>1, <2>5 DEF ReleasedSink, ReleasedSource
    <2> HIDE DEF K, S
    <2>7. QED
      BY <2>4, <2>6
  <1>4. QED
    BY <1>2, <1>3

-----------------------------------------------------------------------------
(* What sources and sinks ask for.                                           *)

Typed(w) == \A n \in Nodes : w[n] \in Value
Ev == [val : Value, after : SUBSET Rails]
SourceEvs(S) == DOMAIN S \subseteq Rails \cup {Valid} /\ \A m \in DOMAIN S : S[m] \in Ev
SinkEvs(K) == DOMAIN K \subseteq {Ack} /\ \A m \in DOMAIN K : K[m] \in Ev

LEMMA NodeNames ==
    ASSUME SetupOK(setup)
    PROVE  /\ Nodes = Rails \cup {n \in {Ack, Valid} : IF n = Ack THEN setup.ack ELSE setup.valid}
           /\ Ack \notin Rails /\ Valid \notin Rails /\ Ack # Valid /\ 1 \in Rails
           /\ setup.ack => Ack \in Nodes
           /\ setup.valid => Valid \in Nodes
           /\ setup.type # "1ofN" => setup.valid
           /\ setup.type # "LEDR" => setup.ack
           /\ setup.type = "LEDR" => Rails = {1}
           /\ setup.type \in Type
  <1>1. /\ setup.type # "1ofN" => setup.valid /\ setup.bundles = 1
        /\ setup.type # "LEDR" => setup.ack
        /\ setup.type = "LEDR" => setup.radix = 1
        /\ setup.type \in Type
        /\ setup.radix \in Nat \ {0} /\ setup.bundles \in Nat \ {0}
    BY DEF SetupOK
  <1>2. 1 \in Rails
    <2>1. ASSUME NEW a \in Nat \ {0}, NEW b \in Nat \ {0} PROVE 1 \in 1 .. (a * b)
      <3>1. a * b >= a
        OBVIOUS
      <3>2. QED
        BY <3>1
    <2>2. QED
      BY <1>1, <2>1 DEF Rails
  <1>3. setup.type = "LEDR" => Rails = {1}
    BY <1>1 DEF Rails
  <1>4. Ack # Valid
    BY DEF Ack, Valid
  <1>5. QED
    BY <1>1, <1>2, <1>3, <1>4, NodesFinite DEF Nodes

LEMMA LogicType ==
    /\ \A b : Logic(b) \in {0, 1}
    /\ Active \in {0, 1} /\ Neutral = 1 - Active /\ Neutral \in {0, 1}
    /\ Value = {0, 1, 2} /\ LOGIC_OTHER = 2
  BY DEF Logic, Active, Neutral, Value, LOGIC_LOW, LOGIC_HIGH, LOGIC_OTHER

LEMMA EventFacts ==
    ASSUME NEW n, NEW v
    PROVE  DOMAIN Event(n, v) = {n} /\ Event(n, v)[n] = [val |-> v, after |-> {}]
  BY DEF Event

LEMMA SourceEvent ==
    ASSUME NEW n \in Rails \cup {Valid}, NEW v \in Value PROVE SourceEvs(Event(n, v))
  BY DEF Event, SourceEvs, Ev

LEMMA SinkEvent ==
    ASSUME NEW v \in Value PROVE SinkEvs(Event(Ack, v))
  BY DEF Event, SinkEvs, Ev

LEMMA NoEventsBoth == SourceEvs(NoEvents) /\ SinkEvs(NoEvents)
  BY NoEventsEmpty DEF SourceEvs, SinkEvs

LEMMA SourceAlso ==
    ASSUME NEW f, NEW g, SourceEvs(f), SourceEvs(g) PROVE SourceEvs(Also(f, g))
  BY DEF SourceEvs, Also

LEMMA SourceRails ==
    ASSUME NEW v \in Value PROVE SourceEvs(AllRails(v))
  BY DEF SourceEvs, Ev, AllRails

LEMMA SourceXs ==
    SourceEvs(X_all_data_rails) /\ SourceEvs(reset_all_data_rails)
  <1>1. LOGIC_OTHER \in Value /\ Neutral \in Value
    BY LogicType
  <1>2. QED
    BY <1>1, SourceEvent, NoEventsBoth, SourceAlso, SourceRails
       DEF X_all_data_rails, reset_all_data_rails

LEMMA InvertType ==
    ASSUME NEW v \in Value PROVE invert_value(v) \in Value
  BY DEF invert_value, Value, LOGIC_LOW, LOGIC_HIGH, LOGIC_OTHER

LEMMA SendEvs ==
    ASSUME SetupOK(setup), NEW c, NEW w, Typed(w) PROVE SourceEvs(Send(c, w).evs)
  <1>1. Send(c, w).evs = set_all_data_rails(c, w)
    BY DEF Send, Reply
  <1> DEFINE Rail(r) == IF Encodes(current_value(c), r) THEN Active ELSE Neutral
  <1>2. \A r : Rail(r) \in {0, 1} /\ Rail(r) \in Value
    BY LogicType
  <1>3. CASE ~have_value(c)
    BY <1>1, <1>3, SourceXs DEF set_all_data_rails
  <1>4. CASE have_value(c) /\ setup.type # "LEDR"
    <2>1. set_all_data_rails(c, w) = [r \in Rails |-> [val |-> Rail(r), after |-> {}]]
      BY <1>4 DEF set_all_data_rails
    <2> HIDE DEF Rail
    <2>2. QED
      BY <1>1, <1>2, <2>1 DEF SourceEvs, Ev
  <1>5. CASE have_value(c) /\ setup.type = "LEDR"
    <2>1. set_all_data_rails(c, w) =
             CASE w[1] = LOGIC_OTHER -> NoEvents
               [] w[1] = Rail(1) -> Toggle(Valid, w)
               [] w[1] = 1 - Rail(1) -> Event(1, Rail(1))
      BY <1>5 DEF set_all_data_rails
    <2>2. /\ 1 \in Rails \cup {Valid} /\ Valid \in Rails \cup {Valid}
          /\ w[1] \in Value /\ w[Valid] \in Value
      BY <1>5, NodeNames DEF Typed
    <2>3. SourceEvs(Toggle(Valid, w)) /\ SourceEvs(Event(1, Rail(1)))
      BY <1>2, <2>2, SourceEvent, InvertType DEF Toggle
    <2>4. \/ w[1] = LOGIC_OTHER \/ w[1] = Rail(1) \/ w[1] = 1 - Rail(1)
      BY <1>2, <2>2, LogicType
    <2> HIDE DEF Rail
    <2>5. set_all_data_rails(c, w) \in {NoEvents, Toggle(Valid, w), Event(1, Rail(1))}
      BY <2>1, <2>4
    <2>6. QED
      BY <1>1, <2>3, <2>5, NoEventsBoth
  <1>6. QED
    BY <1>3, <1>4, <1>5

LEMMA RequestEvs ==
    ASSUME SetupOK(setup), bundled, NEW c, NEW w, Typed(w)
    PROVE  SourceEvs(set_bd_data_req(c, w).evs)
  <1> DEFINE reqv == IF setup.type = "BD_4P" THEN Logic(setup.valid_sense)
                     ELSE IF EmptyParity = 0 THEN invert_value(w[Ack]) ELSE w[Ack]
             req == [n \in {Valid} |-> [val |-> reqv, after |-> Before(Send(c, w).evs, w)]]
  <1>1. set_bd_data_req(c, w).evs = Also(Send(c, w).evs, req)
    BY DEF set_bd_data_req, Reply
  <1>2. w[Ack] \in Value
    BY NodeNames DEF Typed, bundled
  <1>3. reqv \in Value
    BY <1>2, InvertType, LogicType
  <1>4. Before(Send(c, w).evs, w) \subseteq Rails
    BY DEF Before
  <1> HIDE DEF reqv
  <1>5. SourceEvs(req)
    BY <1>3, <1>4 DEF SourceEvs, Ev
  <1>6. QED
    BY <1>1, <1>5, SendEvs, SourceAlso

LEMMA SourceAtEvs ==
    ASSUME SetupOK(setup), NEW c, NEW w, Typed(w)
    PROVE  /\ SourceEvs(SourceAtAck(c, w).evs)
           /\ SourceEvs(SourceAtRail(c, w).evs)
           /\ SourceEvs(ResumeSource(c, w).evs)
  <1>1. /\ \A d, evs : Reply(d, evs).evs = evs
        /\ Silent(c).evs = NoEvents
    BY DEF Reply, Silent
  <1>2. /\ SourceEvs(Event(Valid, LOGIC_OTHER))
        /\ \A b : SourceEvs(ValidEvent(b))
    <2>1. LOGIC_OTHER \in Value /\ \A b : Logic(b) \in Value /\ Valid \in Rails \cup {Valid}
      BY LogicType
    <2>2. QED
      BY <2>1, SourceEvent DEF ValidEvent
  <1>3. SourceEvs(Also(X_all_data_rails, Event(Valid, LOGIC_OTHER)))
    BY <1>2, SourceXs, SourceAlso
  <1>4. /\ SourceEvs(Send(c, w).evs) /\ SourceEvs(NoEvents)
        /\ SourceEvs(X_all_data_rails) /\ SourceEvs(reset_all_data_rails)
        /\ bundled => SourceEvs(set_bd_data_req(c, w).evs)
    BY SendEvs, SourceXs, NoEventsBoth, RequestEvs
  <1>5. SourceEvs(SourceAtAck(c, w).evs)
    <2>1. CASE setup.type = "1ofN"
      BY <1>1, <1>4, <2>1 DEF SourceAtAck
    <2>2. CASE setup.type = "LEDR"
      BY <1>1, <1>4, <2>2 DEF SourceAtAck
    <2>3. CASE setup.type = "BD_2P"
      <3>1. SourceAtAck(c, w).evs \in {Also(X_all_data_rails, Event(Valid, LOGIC_OTHER)),
                                       set_bd_data_req(c, w).evs, NoEvents}
        BY <2>3 DEF SourceAtAck, Reply, Silent
      <3>2. QED
        BY <1>3, <1>4, <2>3, <3>1 DEF bundled
    <2>4. CASE setup.type = "BD_4P"
      <3>1. SourceAtAck(c, w).evs \in {Also(X_all_data_rails, Event(Valid, LOGIC_OTHER)),
                                       ValidEvent(FALSE), set_bd_data_req(c, w).evs, NoEvents}
        BY <2>4 DEF SourceAtAck, Reply, Silent
      <3>2. QED
        BY <1>2, <1>3, <1>4, <2>4, <3>1 DEF bundled
    <2>5. QED
      BY <2>1, <2>2, <2>3, <2>4, NodeNames DEF Type
  <1>6. SourceEvs(SourceAtRail(c, w).evs)
    <2>1. SourceAtRail(c, w).evs \in {Event(Valid, LOGIC_OTHER), ValidEvent(FALSE),
                                      ValidEvent(TRUE), NoEvents, Send(c, w).evs,
                                      X_all_data_rails}
      BY DEF SourceAtRail, Reply, Silent
    <2>2. QED
      BY <1>2, <1>4, <2>1
  <1>7. SourceEvs(ResumeSource(c, w).evs)
    <2>1. \A s \in {Send(c, w), Silent(c)} : SourceEvs(Also(s.evs, SourceAtRail(c, w).evs))
      BY <1>1, <1>4, <1>6, SourceAlso
    <2>2. QED
      BY <1>1, <1>4, <1>5, <2>1 DEF ResumeSource
  <1>8. QED
    BY <1>5, <1>6, <1>7

LEMMA SinkAtEvs ==
    ASSUME SetupOK(setup), setup.ack, NEW c, NEW n, NEW w, Typed(w)
    PROVE  SinkEvs(SinkAtNode(c, n, w)) /\ SinkEvs(ResumeSink(c, w))
  <1>1. /\ SinkEvs(Event(Ack, LOGIC_OTHER)) /\ SinkEvs(NoEvents)
        /\ \A b : SinkEvs(AckEvent(b))
        /\ SinkEvs(Toggle(Ack, w)) /\ SinkEvs(RailAck(c))
    <2>1. LOGIC_OTHER \in Value /\ \A b : Logic(b) \in Value
      BY LogicType
    <2>2. invert_value(w[Ack]) \in Value
      BY NodeNames, InvertType DEF Typed
    <2>3. \A b : SinkEvs(AckEvent(b))
      BY <2>1, SinkEvent DEF AckEvent
    <2>4. QED
      BY <2>1, <2>2, <2>3, SinkEvent, NoEventsBoth DEF Toggle, RailAck
  <1>2. \A m : SinkEvs(SinkAtNode(c, m, w))
    BY <1>1 DEF SinkAtNode
  <1>3. SinkEvs(ResumeSink(c, w))
    BY <1>1, <1>2 DEF ResumeSink
  <1>4. QED
    BY <1>2, <1>3

\* What is asked for after node n has changed, and at a release.
SinkPart(K, n, prev, w) ==
    \/ K = NoEvents
    \/ \E i \in DOMAIN chan : /\ K = SinkAtNode(Counted(chan[i], n, prev, w), n, w)
                              /\ setup.ack /\ ~chan[i].stopped
SourcePart(n, prev, w) == SourceReply(Counted(chan[1], n, prev, w), n, w).evs

LEMMA NodeEvents ==
    ASSUME SetupOK(setup), Parts, NEW n, NEW prev, NEW w, Typed(w), NEW E,
           E = Asked([i \in DOMAIN chan |-> process_node(chan[i], n, prev, w)])
    PROVE  \E K : /\ SinkPart(K, n, prev, w)
                  /\ SinkEvs(K) /\ SourceEvs(SourcePart(n, prev, w))
                  /\ Together(E, K, SourcePart(n, prev, w))
  <1>1. SourceEvs(SourcePart(n, prev, w))
    BY SourceAtEvs, NoEventsBoth DEF SourcePart, SourceReply, Silent, Reply
  <1>2. \A K : SinkPart(K, n, prev, w) => SinkEvs(K)
    BY SinkAtEvs, NoEventsBoth DEF SinkPart
  <1>3. \A K : SinkEvs(K) => DOMAIN K \cap DOMAIN SourcePart(n, prev, w) = {}
    BY <1>1, NodeNames DEF SinkEvs, SourceEvs
  <1>4. PICK K : /\ SinkPart(K, n, prev, w)
                 /\ DOMAIN K \cap DOMAIN SourcePart(n, prev, w) = {}
                    => Together(E, K, SourcePart(n, prev, w))
    <2>1. PICK i \in DOMAIN chan : \E K :
              /\ \/ K = NoEvents
                 \/ /\ K = SinkAtNode(Counted(chan[i], n, prev, w), n, w)
                    /\ setup.ack /\ ~chan[i].stopped
              /\ DOMAIN K \cap DOMAIN SourcePart(n, prev, w) = {}
                    => Together(E, K, SourcePart(n, prev, w))
      BY NodeAsked, NodeNames DEF SourcePart
    <2>2. QED
      BY <2>1 DEF SinkPart
  <1>5. QED
    BY <1>1, <1>2, <1>3, <1>4

LEMMA ReleaseEvents ==
    ASSUME SetupOK(setup), Parts, Typed(val), NEW I, NEW E,
           E = Asked([i \in DOMAIN chan |-> IF i \in I THEN resume(chan[i], val)
                                            ELSE Silent(chan[i])])
    PROVE  \E K, S : /\ ReleasedSink(K) /\ ReleasedSource(S, I)
                     /\ SinkEvs(K) /\ SourceEvs(S) /\ Together(E, K, S)
  <1>1. setup.type \in Type
    BY NodeNames
  <1>2. PICK K, S : /\ ReleasedSink(K) /\ ReleasedSource(S, I)
                    /\ DOMAIN K \cap DOMAIN S = {} => Together(E, K, S)
    BY <1>1, ReleaseAsked
  <1>3. SinkEvs(K) /\ SourceEvs(S)
    BY <1>2, SourceAtEvs, SinkAtEvs, NoEventsBoth DEF ReleasedSink, ReleasedSource
  <1>4. DOMAIN K \cap DOMAIN S = {}
    BY <1>3, NodeNames DEF SinkEvs, SourceEvs
  <1>5. QED
    BY <1>2, <1>3, <1>4

-----------------------------------------------------------------------------
(* Pending events.                                                           *)

PendingOK(p) == DOMAIN p = Nodes /\ \A n \in Nodes : p[n] = NoEvent \/ p[n] \in Ev
EvsOK(E) == \A m \in DOMAIN E : E[m] \in Ev

LEMMA TogetherOK ==
    ASSUME NEW E, NEW K, NEW S, Together(E, K, S), SinkEvs(K), SourceEvs(S)
    PROVE  EvsOK(E)
  BY DEF Together, SinkEvs, SourceEvs, EvsOK

LEMMA FlushOK ==
    ASSUME NEW p, PendingOK(p), NEW E, EvsOK(E), NEW w
    PROVE  PendingOK(flush_channel_events(p, E, w))
  <1> DEFINE q == flush_channel_events(p, E, w)
  <1>1. DOMAIN q = Nodes
    BY DEF flush_channel_events
  <1>2. ASSUME NEW n \in Nodes PROVE q[n] = NoEvent \/ q[n] \in Ev
    <2>1. CASE n \notin DOMAIN E
      <3>1. PICK A : q[n] = [p[n] EXCEPT !.after = A] /\ A \subseteq p[n].after
        BY <2>1 DEF flush_channel_events
      <3>2. CASE p[n] = NoEvent
        BY <3>1, <3>2 DEF NoEvent
      <3>3. CASE p[n] \in Ev
        BY <3>1, <3>3 DEF Ev
      <3>4. QED
        BY <3>2, <3>3 DEF PendingOK
    <2>2. CASE n \in DOMAIN E /\ p[n] # NoEvent /\ ~setup.dequeue
      <3>1. q[n] = [p[n] EXCEPT !.val = LOGIC_OTHER]
        BY <2>2 DEF flush_channel_events
      <3>2. p[n] \in Ev
        BY <2>2 DEF PendingOK
      <3>3. QED
        BY <3>1, <3>2, LogicType DEF Ev
    <2>3. CASE n \in DOMAIN E /\ ~(p[n] # NoEvent /\ ~setup.dequeue)
      BY <2>3 DEF flush_channel_events, EvsOK
    <2>4. QED
      BY <2>1, <2>2, <2>3
  <1>3. QED
    BY <1>1, <1>2 DEF PendingOK

\* What is pending once node n has changed.
Without(n) == [m \in Nodes |-> IF m = n THEN NoEvent
                               ELSE [pending[m] EXCEPT !.after = @ \ {n}]]

LEMMA WithoutOK ==
    ASSUME NEW n, PendingOK(pending) PROVE PendingOK(Without(n))
  <1>1. ASSUME NEW m \in Nodes PROVE Without(n)[m] = NoEvent \/ Without(n)[m] \in Ev
    <2>1. CASE m = n
      BY <2>1 DEF Without
    <2>2. CASE m # n
      <3>1. Without(n)[m] = [pending[m] EXCEPT !.after = @ \ {n}]
        BY <2>2 DEF Without
      <3>2. CASE pending[m] = NoEvent
        BY <3>1, <3>2 DEF NoEvent
      <3>3. CASE pending[m] \in Ev
        BY <3>1, <3>3 DEF Ev
      <3>4. QED
        BY <3>2, <3>3 DEF PendingOK
    <2>3. QED
      BY <2>1, <2>2
  <1>2. QED
    BY <1>1 DEF PendingOK, Without

\* No node is X, every event that is pending changes its node, and that of
\* the request alone waits: for the events of the data, which are pending
\* only together with it.
Busy(p) == {n \in Nodes : p[n] # NoEvent}
Behind(p, n) == IF bundled /\ n = Valid THEN Busy(p) \cap Rails ELSE {}
Tidy(w, p) ==
    /\ \A n \in Nodes : /\ w[n] \in {0, 1}
                        /\ p[n] # NoEvent => p[n] = [val |-> 1 - w[n], after |-> Behind(p, n)]
    /\ bundled /\ Valid \notin Busy(p) => Busy(p) \cap Rails = {}

LEMMA WithoutTidy ==
    ASSUME SetupOK(setup), Tidy(val, pending), DOMAIN val = Nodes, NEW n \in Nodes,
           pending[n] # NoEvent, pending[n].after = {},
           NEW w, w = [val EXCEPT ![n] = pending[n].val]
    PROVE  /\ Tidy(w, Without(n)) /\ Busy(Without(n)) = Busy(pending) \ {n}
           /\ w[n] = 1 - val[n] /\ OnlyChanges(n, val, w) /\ w # val
  <1> DEFINE p == Without(n)
  <1>1. pending[n] = [val |-> 1 - val[n], after |-> Behind(pending, n)] /\ val[n] \in {0, 1}
    BY DEF Tidy
  <1>2. w[n] = 1 - val[n] /\ OnlyChanges(n, val, w) /\ w # val
    <2>1. pending[n].val = 1 - val[n] /\ val[n] # 1 - val[n]
      BY <1>1
    <2>2. w[n] = 1 - val[n] /\ OnlyChanges(n, val, w)
      BY <2>1 DEF OnlyChanges
    <2>3. QED
      BY <2>1, <2>2
  <1>3. p[n] = NoEvent
    BY DEF Without
  <1>4. ASSUME NEW m \in Nodes, m # n, pending[m] = NoEvent PROVE p[m] = NoEvent
    BY <1>4 DEF Without, NoEvent
  <1>5. ASSUME NEW m \in Nodes, m # n, pending[m] # NoEvent
        PROVE  p[m] = [val |-> 1 - w[m], after |-> Behind(pending, m) \ {n}] /\ p[m] # NoEvent
    <2>1. w[m] = val[m] /\ pending[m] = [val |-> 1 - w[m], after |-> Behind(pending, m)]
      BY <1>2, <1>5 DEF Tidy, OnlyChanges
    <2>2. p[m] = [pending[m] EXCEPT !.after = @ \ {n}]
      BY <1>5 DEF Without
    <2>3. p[m] = [val |-> 1 - w[m], after |-> Behind(pending, m) \ {n}]
      BY <2>1, <2>2
    <2>4. w[m] \in {0, 1}
      BY <2>1 DEF Tidy
    <2>5. QED
      BY <2>3, <2>4 DEF NoEvent
  <1> HIDE DEF p
  <1>6. Busy(p) = Busy(pending) \ {n}
    BY <1>3, <1>4, <1>5 DEF Busy
  <1>7. \A m : Behind(p, m) = Behind(pending, m) \ {n}
    BY <1>6 DEF Behind
  <1>8. \A m \in Nodes : /\ w[m] \in {0, 1}
                         /\ p[m] # NoEvent => p[m] = [val |-> 1 - w[m], after |-> Behind(p, m)]
    <2>1. \A m \in Nodes : w[m] \in {0, 1}
      <3>1. w[n] \in {0, 1}
        BY <1>1, <1>2
      <3>2. \A m \in Nodes : m # n => w[m] \in {0, 1}
        BY <1>2 DEF Tidy, OnlyChanges
      <3>3. QED
        BY <3>1, <3>2
    <2>2. QED
      BY <1>3, <1>4, <1>5, <1>7, <2>1
  <1>9. ASSUME bundled, Valid \notin Busy(p) PROVE Busy(p) \cap Rails = {}
    <2>1. CASE n = Valid
      <3>1. Behind(pending, Valid) = {}
        BY <1>1, <2>1
      <3>2. QED
        BY <1>6, <1>9, <3>1 DEF Behind
    <2>2. CASE n # Valid
      BY <1>6, <1>9, <2>2 DEF Tidy
    <2>3. QED
      BY <2>1, <2>2
  <1>10. Tidy(w, p)
    BY <1>8, <1>9 DEF Tidy
  <1>11. QED
    BY <1>2, <1>6, <1>10 DEF p

\* Events that disturb none that is pending.
Changed(E, w) == {m \in DOMAIN E \cap Nodes : E[m].val # w[m]}
Fits(w, p, E) ==
    /\ \A m \in DOMAIN E \cap Nodes :
            /\ p[m] = NoEvent
            /\ E[m].val \in {0, 1}
            /\ E[m] = [val |-> E[m].val,
                       after |-> IF bundled /\ m = Valid THEN Changed(E, w) \cap Rails ELSE {}]
    /\ bundled /\ DOMAIN E # {} => p[Valid] = NoEvent
    /\ bundled /\ DOMAIN E \cap Rails # {} => Valid \in Changed(E, w)

LEMMA FlushTidy ==
    ASSUME SetupOK(setup), NEW w, NEW p, Tidy(w, p), NEW E, Fits(w, p, E),
           NEW q, q = flush_channel_events(p, E, w)
    PROVE  Tidy(w, q) /\ Busy(q) = Busy(p) \cup Changed(E, w)
  <1>1. ASSUME NEW m \in Nodes, m \notin DOMAIN E PROVE q[m] = p[m]
    <2>1. PICK A : q[m] = [p[m] EXCEPT !.after = A] /\ A \in {p[m].after, p[m].after \ DOMAIN E}
      BY <1>1 DEF flush_channel_events
    <2>2. CASE p[m] = NoEvent
      BY <2>1, <2>2 DEF NoEvent
    <2>3. CASE p[m] # NoEvent
      <3>1. p[m] = [val |-> 1 - w[m], after |-> Behind(p, m)]
        BY <2>3 DEF Tidy
      <3>2. Behind(p, m) = {} \/ DOMAIN E = {}
        BY <2>3 DEF Behind, Fits
      <3>3. A = Behind(p, m)
        <4>1. p[m].after = Behind(p, m)
          BY <3>1
        <4>2. QED
          BY <2>1, <3>2, <4>1
      <3>4. QED
        BY <2>1, <3>1, <3>3
    <2>4. QED
      BY <2>2, <2>3
  <1>2. ASSUME NEW m \in Nodes, m \in DOMAIN E
        PROVE  /\ m \in Changed(E, w) => q[m] = E[m] /\ q[m] # NoEvent
               /\ m \notin Changed(E, w) => q[m] = NoEvent
    <2>1. p[m] = NoEvent /\ E[m].val # NoEvent.val
      BY <1>2 DEF Fits, NoEvent
    <2>2. q[m] = IF E[m].val # w[m] THEN E[m] ELSE NoEvent
      BY <1>2, <2>1 DEF flush_channel_events
    <2>3. QED
      BY <1>2, <2>1, <2>2 DEF Changed
  <1>3. Busy(q) = Busy(p) \cup Changed(E, w)
    BY <1>1, <1>2 DEF Busy, Changed, Fits
  <1>4. ASSUME NEW m \in Nodes, q[m] # NoEvent
        PROVE  q[m] = [val |-> 1 - w[m], after |-> Behind(q, m)]
    <2>1. CASE m \notin DOMAIN E
      <3>1. q[m] = [val |-> 1 - w[m], after |-> Behind(p, m)] /\ p[m] # NoEvent
        BY <1>1, <1>4, <2>1 DEF Tidy
      <3>2. bundled /\ m = Valid => DOMAIN E = {}
        BY <3>1 DEF Fits
      <3>3. Behind(q, m) = Behind(p, m)
        BY <1>3, <3>2 DEF Behind, Changed
      <3>4. QED
        BY <3>1, <3>3
    <2>2. CASE m \in DOMAIN E
      <3>1. m \in Changed(E, w) /\ q[m] = E[m]
        BY <1>2, <1>4, <2>2
      <3>2. w[m] \in {0, 1} /\ E[m].val \in {0, 1} /\ E[m].val # w[m]
        BY <3>1 DEF Tidy, Fits, Changed
      <3>3. E[m].val = 1 - w[m]
        BY <3>2
      <3>4. bundled /\ m = Valid => Busy(p) \cap Rails = {}
        BY <2>2 DEF Tidy, Fits, Busy
      <3>5. Behind(q, m) = IF bundled /\ m = Valid THEN Changed(E, w) \cap Rails ELSE {}
        BY <1>3, <3>4 DEF Behind
      <3>6. QED
        BY <2>2, <3>1, <3>3, <3>5 DEF Fits
    <2>3. QED
      BY <2>1, <2>2
  <1>5. ASSUME bundled, Valid \notin Busy(q) PROVE Busy(q) \cap Rails = {}
    <2>1. Valid \notin Busy(p) /\ Valid \notin Changed(E, w)
      BY <1>3, <1>5
    <2>2. Busy(p) \cap Rails = {} /\ Changed(E, w) \cap Rails = {}
      BY <1>5, <2>1 DEF Tidy, Fits, Changed
    <2>3. QED
      BY <1>3, <2>2
  <1>6. QED
    BY <1>3, <1>4, <1>5 DEF Tidy

-----------------------------------------------------------------------------
(* Events that change a node or leave it as it is.                           *)

Levels(w) == \A n \in Nodes : w[n] \in {0, 1}
Plain(p, F) ==
    \A m \in DOMAIN F \cap Nodes : /\ p[m] = NoEvent
                                   /\ F[m].val \in {0, 1}
                                   /\ F[m] = [val |-> F[m].val, after |-> {}]

LEMMA TogetherChanged ==
    ASSUME NEW w, NEW E, NEW K, NEW S, Together(E, K, S)
    PROVE  Changed(E, w) = Changed(K, w) \cup Changed(S, w)
  BY DEF Together, Changed

LEMMA TogetherFits ==
    ASSUME NEW w, NEW p, NEW E, NEW K, NEW S, Together(E, K, S), Plain(p, K), Plain(p, S),
           ~bundled
    PROVE  Fits(w, p, E)
  <1>1. Plain(p, E)
    BY DEF Together, Plain
  <1>2. QED
    BY <1>1 DEF Plain, Fits

\* A bundle: the data stay as they are.
LEMMA TogetherFitsBundle ==
    ASSUME NEW w, NEW p, NEW E, NEW K, NEW S, Together(E, K, S), Plain(p, K), Plain(p, S),
           DOMAIN K \cap Rails = {}, DOMAIN S \cap Rails = {},
           p[Valid] = NoEvent \/ (DOMAIN K = {} /\ DOMAIN S = {})
    PROVE  Fits(w, p, E)
  <1>1. Plain(p, E)
    BY DEF Together, Plain
  <1>2. DOMAIN E \cap Rails = {} /\ (DOMAIN E # {} => p[Valid] = NoEvent)
    BY DEF Together
  <1>3. Changed(E, w) \cap Rails = {}
    BY <1>2 DEF Changed
  <1>4. QED
    BY <1>1, <1>2, <1>3 DEF Plain, Fits

LEMMA PlainNone ==
    ASSUME NEW w, NEW p PROVE Plain(p, NoEvents) /\ Changed(NoEvents, w) = {}
  BY NoEventsEmpty DEF Plain, Changed

LEMMA PlainEvent ==
    ASSUME NEW w, NEW p, NEW n \in Nodes, n \notin Busy(p), NEW v \in {0, 1}
    PROVE  /\ Plain(p, Event(n, v)) /\ DOMAIN Event(n, v) = {n}
           /\ Changed(Event(n, v), w) = IF v # w[n] THEN {n} ELSE {}
  BY DEF Event, Plain, Changed, Busy

LEMMA LogicLevel ==
    ASSUME NEW a \in BOOLEAN, NEW b \in BOOLEAN, NEW v \in {0, 1}
    PROVE  Logic(b = a) # v <=> ~((v = Logic(a)) <=> b)
  <1>1. Logic(TRUE) = 1 /\ Logic(FALSE) = 0
    BY DEF Logic, LOGIC_LOW, LOGIC_HIGH
  <1>2. CASE a = TRUE /\ b = TRUE
    BY <1>2 DEF Logic, LOGIC_LOW, LOGIC_HIGH
  <1>3. CASE a = TRUE /\ b = FALSE
    <2>1. (b = a) = FALSE
      BY <1>3
    <2>2. Logic(b = a) = 0 /\ Logic(a) = 1
      BY <1>1, <1>3, <2>1
    <2>3. ~b
      BY <1>3, Zenon
    <2>4. 0 # v <=> v = 1
      OBVIOUS
    <2>5. QED
      BY <2>2, <2>3, <2>4, Zenon
  <1>4. CASE a = FALSE /\ b = TRUE
    BY <1>4 DEF Logic, LOGIC_LOW, LOGIC_HIGH
  <1>5. CASE a = FALSE /\ b = FALSE
    BY <1>5 DEF Logic, LOGIC_LOW, LOGIC_HIGH
  <1>6. QED
    BY <1>2, <1>3, <1>4, <1>5

LEMMA PlainAck ==
    ASSUME SetupOK(setup), setup.ack, NEW w, Levels(w), NEW p, Ack \notin Busy(p),
           NEW b \in BOOLEAN
    PROVE  /\ Plain(p, AckEvent(b)) /\ DOMAIN AckEvent(b) = {Ack}
           /\ Changed(AckEvent(b), w) = IF ack_active(w) <=> b THEN {} ELSE {Ack}
  <1>1. Ack \in Nodes /\ w[Ack] \in {0, 1} /\ setup.ack_active \in BOOLEAN
    BY NodeNames DEF Levels, SetupOK
  <1> DEFINE v == Logic(b = setup.ack_active)
  <1>2. v # w[Ack] <=> ~(ack_active(w) <=> b)
    BY <1>1, LogicLevel, Zenon DEF ack_active
  <1>3. v \in {0, 1} /\ AckEvent(b) = Event(Ack, v)
    BY LogicType DEF AckEvent
  <1> HIDE DEF v
  <1>4. /\ Plain(p, Event(Ack, v)) /\ DOMAIN Event(Ack, v) = {Ack}
        /\ v # w[Ack] => Changed(Event(Ack, v), w) = {Ack}
        /\ v = w[Ack] => Changed(Event(Ack, v), w) = {}
    BY <1>1, <1>3 DEF Event, Plain, Changed, Busy
  <1>5. QED
    BY <1>2, <1>3, <1>4

LEMMA PlainValid ==
    ASSUME SetupOK(setup), setup.valid, NEW w, Levels(w), NEW p, Valid \notin Busy(p),
           NEW b \in BOOLEAN
    PROVE  /\ Plain(p, ValidEvent(b)) /\ DOMAIN ValidEvent(b) = {Valid}
           /\ Changed(ValidEvent(b), w) = IF valid_active(w) <=> b THEN {} ELSE {Valid}
  <1>1. Valid \in Nodes /\ w[Valid] \in {0, 1} /\ setup.valid_sense \in BOOLEAN
    BY NodeNames DEF Levels, SetupOK
  <1> DEFINE v == Logic(b = setup.valid_sense)
  <1>2. v # w[Valid] <=> ~(valid_active(w) <=> b)
    BY <1>1, LogicLevel, Zenon DEF valid_active
  <1>3. v \in {0, 1} /\ ValidEvent(b) = Event(Valid, v)
    BY LogicType DEF ValidEvent
  <1> HIDE DEF v
  <1>4. /\ Plain(p, Event(Valid, v)) /\ DOMAIN Event(Valid, v) = {Valid}
        /\ v # w[Valid] => Changed(Event(Valid, v), w) = {Valid}
        /\ v = w[Valid] => Changed(Event(Valid, v), w) = {}
    BY <1>1, <1>3 DEF Event, Plain, Changed, Busy
  <1>5. QED
    BY <1>2, <1>3, <1>4

LEMMA PlainToggle ==
    ASSUME NEW w, Levels(w), NEW p, NEW n \in Nodes, n \notin Busy(p)
    PROVE  /\ Plain(p, Toggle(n, w)) /\ DOMAIN Toggle(n, w) = {n}
           /\ Changed(Toggle(n, w), w) = {n}
  <1>1. invert_value(w[n]) \in {0, 1} /\ invert_value(w[n]) # w[n]
    BY DEF Levels, invert_value, LOGIC_OTHER
  <1>2. QED
    BY <1>1, PlainEvent DEF Toggle

LEMMA PlainRails ==
    ASSUME SetupOK(setup), NEW w, Levels(w), NEW p, Busy(p) \cap Rails = {}
    PROVE  Plain(p, AllRails(Neutral)) /\ Changed(AllRails(Neutral), w) = Ons(w)
  <1>1. Rails \subseteq Nodes
    BY NodesFinite
  <1>2. \A r \in Rails : p[r] = NoEvent
    BY <1>1 DEF Busy
  <1>3. \A r \in Rails : Neutral # w[r] <=> w[r] = Active
    BY <1>1, LogicType DEF Levels
  <1>4. Plain(p, AllRails(Neutral))
    BY <1>2, LogicType DEF Plain, AllRails
  <1>5. QED
    BY <1>1, <1>3, <1>4 DEF Changed, AllRails, Ons, At

\* Rails are set to the next value.
LEMMA PlainSend ==
    ASSUME SetupOK(setup), setup.type # "LEDR", NEW w, Levels(w), NEW p, Busy(p) \cap Rails = {},
           NEW c, Object(c), have_value(c), NEW S, S = Send(c, w).evs
    PROVE  /\ Plain(p, S) /\ DOMAIN S = Rails
           /\ \E v \in Int : Ons(w) = {} => Changed(S, w) = Code(v)
  <1> DEFINE v == current_value(c)
             Rail(r) == IF Encodes(v, r) THEN Active ELSE Neutral
  <1>1. v \in Int
    <2>1. PICK s \in Seq(Int), k \in Nat : s = c.values /\ k = c.index /\ k < Len(s)
      BY DEF Object, have_value
    <2>2. k + 1 \in 1 .. Len(s) /\ v = s[k + 1]
      BY <2>1 DEF current_value
    <2>3. QED
      BY <2>2
  <1>2. S = [r \in Rails |-> [val |-> Rail(r), after |-> {}]]
    BY DEF Send, Reply, set_all_data_rails
  <1> HIDE DEF v
  <1>3. \A r \in Rails : p[r] = NoEvent /\ r \in Nodes /\ w[r] \in {0, 1}
    BY NodesFinite DEF Busy, Levels
  <1>4. \A r : Rail(r) \in {0, 1}
    BY LogicType
  <1>5. Plain(p, S) /\ DOMAIN S = Rails
    <2> HIDE DEF Rail
    <2>1. \A m \in DOMAIN S : /\ S[m] = [val |-> Rail(m), after |-> {}]
                              /\ S[m].val = Rail(m) /\ m \in Rails
      BY <1>2
    <2>2. DOMAIN S = Rails
      BY <1>2
    <2>3. QED
      BY <1>3, <1>4, <2>1, <2>2 DEF Plain
  <1>6. ASSUME Ons(w) = {} PROVE Changed(S, w) = Code(v)
    <2>1. \A r \in Rails : w[r] = Neutral
      BY <1>3, <1>6, LogicType DEF Ons, At
    <2>2. \A r \in Rails : Rail(r) # w[r] <=> Encodes(v, r)
      BY <2>1, LogicType
    <2> HIDE DEF Rail
    <2>3. QED
      BY <1>2, <1>3, <2>2 DEF Changed, Code
  <1>7. QED
    BY <1>1, <1>5, <1>6

-----------------------------------------------------------------------------
(* The handshake of delay-insensitive rails.                                 *)

\* The rails go up one after the other until they are a value and, after the
\* acknowledge, down again; B are the nodes about to change.
Settled(w, B, v) == B \cap Rails = {} /\ Ons(w) = IF ack_active(w) THEN {} ELSE Code(v)
Wave(w, B, v) ==
    IF ack_active(w)
    THEN \/ B \cap Rails = Ons(w) /\ Ons(w) \subseteq Code(v)
         \/ B \cap Rails = {} /\ Ons(w) = Code(v)
    ELSE /\ Ons(w) \cap B = {}
         /\ Ons(w) \cup (B \cap Rails) \in {{}, Code(v)}

\* The validity follows the rails and the acknowledge follows the validity, or
\* the rails, and each only when what it follows has settled.
Matched(w) == valid_active(w) <=> ack_active(w)
Signals(w, B, v) ==
    /\ Ack \in B => Settled(w, B, v)
    /\ setup.valid => /\ Valid \in B \/ ~Matched(w) => Settled(w, B, v)
                      /\ Ack \in B => Valid \notin B /\ ~Matched(w)
                      /\ Valid \in B => Matched(w)
DI(w, B) == \E v \in Int : Wave(w, B, v) /\ Signals(w, B, v)

LEMMA WaveCode ==
    ASSUME NEW w, NEW B, NEW v, Wave(w, B, v) PROVE Ons(w) \subseteq Code(v)
  BY DEF Wave

LEMMA CounterFacts ==
    ASSUME SetupOK(setup), setup.type = "1ofN", NEW v \in Int, NEW c, NEW w, Counts(c, w),
           Levels(w), Ons(w) \subseteq Code(v)
    PROVE  /\ c.x = 0
           /\ c.counter = 0 <=> Ons(w) = {}
           /\ c.counter = setup.bundles <=> Ons(w) = Code(v)
           /\ Code(v) # {} /\ setup.bundles # 0
  <1>1. Xs(w) = {}
    BY LogicType, NodesFinite DEF Xs, At, Levels, DataNodes
  <1>2. c.x = 0 /\ c.counter = Cardinality(Ons(w))
    BY <1>1, FS_EmptySet DEF Counts
  <1>3. IsFiniteSet(Code(v)) /\ Cardinality(Code(v)) = setup.bundles /\ setup.bundles \in Nat \ {0}
    BY CodeSize DEF SetupOK
  <1>4. IsFiniteSet(Ons(w))
    BY <1>3, FS_Subset
  <1>5. Cardinality(Ons(w)) = 0 <=> Ons(w) = {}
    BY <1>4, FS_EmptySet
  <1>6. Cardinality(Ons(w)) = Cardinality(Code(v)) <=> Ons(w) = Code(v)
    BY <1>3, FS_Subset
  <1>7. Code(v) # {}
    BY <1>3, FS_EmptySet
  <1>8. QED
    BY <1>2, <1>3, <1>5, <1>6, <1>7

LEMMA CounterReadable ==
    ASSUME SetupOK(setup), setup.type = "1ofN", NEW v \in Int, NEW c, NEW w, Counts(c, w),
           Levels(w), Ons(w) \subseteq Code(v)
    PROVE  /\ ~status_fails(c, w)
           /\ Ons(w) = Code(v) => readable(w)
  <1>1. \A r \in Rails : w[r] # LOGIC_OTHER
    BY NodesFinite, LogicType DEF Levels
  <1>2. Ons(w) = Code(v) => readable(w)
    BY <1>1, CodeReadable
  <1>3. QED
    BY <1>2, CounterFacts DEF status_fails

\* A rail changes.
LEMMA RailWave ==
    ASSUME SetupOK(setup), setup.type = "1ofN", Levels(val), NEW v \in Int, NEW B,
           Wave(val, B, v), Signals(val, B, v), NEW n \in Rails, n \in B,
           NEW w, OnlyChanges(n, val, w), w[n] = 1 - val[n],
           NEW P, P = B \ {n}
    PROVE  /\ Ack \notin B /\ (setup.valid => Valid \notin B /\ Matched(w))
           /\ Wave(w, P, v)
           /\ Ons(w) = {} => Settled(w, P, v) /\ ack_active(w)
           /\ Ons(w) = Code(v) => Settled(w, P, v) /\ ~ack_active(w)
  <1>1. ~Settled(val, B, v)
    BY DEF Settled
  <1>2. Ack \notin B /\ (setup.valid => Valid \notin B /\ Matched(val))
    BY <1>1 DEF Signals
  <1>3. /\ w[Ack] = val[Ack] /\ (setup.valid => w[Valid] = val[Valid])
        /\ ack_active(w) <=> ack_active(val)
        /\ setup.valid => (Matched(w) <=> Matched(val))
    <2>1. Ack \in Nodes /\ Ack # n /\ Valid # n /\ (setup.valid => Valid \in Nodes)
      BY NodeNames
    <2>2. w[Ack] = val[Ack] /\ (setup.valid => w[Valid] = val[Valid])
      BY <2>1 DEF OnlyChanges
    <2>3. QED
      BY <2>2 DEF ack_active, valid_active, Matched
  <1>4. val[n] \in {0, 1} /\ Rails \subseteq Nodes
    BY NodesFinite DEF Levels
  <1>5. n \in Ons(val) <=> n \notin Ons(w)
    BY <1>4, LogicType DEF Ons, At
  <1>6. \A r \in Rails : r # n => (r \in Ons(w) <=> r \in Ons(val))
    BY <1>4 DEF Ons, At, OnlyChanges
  <1>7. Ons(w) \subseteq Rails /\ Ons(val) \subseteq Rails /\ Code(v) \subseteq Rails
    BY DEF Ons, At, Code
  <1>8. CASE ack_active(val)
    <2>1. B \cap Rails = Ons(val) /\ Ons(val) \subseteq Code(v)
      BY <1>8 DEF Wave
    <2>2. Ons(w) = Ons(val) \ {n} /\ n \in Code(v) /\ P \cap Rails = Ons(w)
      BY <1>5, <1>6, <1>7, <2>1
    <2>3. QED
      BY <1>2, <1>3, <1>8, <2>1, <2>2 DEF Wave, Settled
  <1>9. CASE ~ack_active(val)
    <2>1. Ons(val) \cap B = {} /\ Ons(val) \cup (B \cap Rails) = Code(v)
      BY <1>9 DEF Wave
    <2>2. Ons(w) = Ons(val) \cup {n}
      BY <1>5, <1>6, <1>7, <2>1
    <2>3. Ons(w) \cap P = {} /\ Ons(w) \cup (P \cap Rails) = Code(v)
      BY <2>1, <2>2
    <2>4. Ons(w) = Code(v) => P \cap Rails = {}
      BY <2>3
    <2>5. QED
      BY <1>2, <1>3, <1>9, <2>2, <2>3, <2>4 DEF Wave, Settled
  <1>10. QED
    BY <1>8, <1>9

\* Beside the rails nothing is about to change, and C changes next.
LEMMA WaveSignal ==
    ASSUME SetupOK(setup), NEW w, NEW v \in Int, NEW P, Wave(w, P, v),
           Ack \notin P, setup.valid => Valid \notin P /\ Matched(w), NEW C,
           \/ C = {}
           \/ C = {Ack} /\ ~setup.valid /\ Settled(w, P, v)
           \/ C = {Valid} /\ setup.valid /\ Settled(w, P, v)
    PROVE  DI(w, P \cup C)
  <1>1. (P \cup C) \cap Rails = P \cap Rails /\ Ons(w) \cap (P \cup C) = Ons(w) \cap P
    BY NodeNames DEF Ons, At
  <1>2. Wave(w, P \cup C, v) /\ (Settled(w, P, v) => Settled(w, P \cup C, v))
    BY <1>1 DEF Wave, Settled
  <1>3. Signals(w, P \cup C, v)
    BY <1>2, NodeNames DEF Signals
  <1>4. QED
    BY <1>2, <1>3 DEF DI

LEMMA RailEvents ==
    ASSUME SetupOK(setup), setup.type = "1ofN", NEW w, Levels(w), NEW v \in Int,
           Ons(w) \subseteq Code(v), NEW n \in Rails, NEW c, Counts(c, w)
    PROVE  /\ LET S == SourceReply(c, n, w).evs
              IN  \/ S = NoEvents
                  \/ setup.valid /\ S = ValidEvent(FALSE) /\ Ons(w) = {}
                  \/ setup.valid /\ S = ValidEvent(TRUE) /\ Ons(w) = Code(v)
           /\ LET K == SinkAtNode(c, n, w)
              IN  \/ K = NoEvents
                  \/ ~setup.valid /\ K = AckEvent(FALSE) /\ Ons(w) = {}
                  \/ ~setup.valid /\ K = AckEvent(TRUE) /\ Ons(w) = Code(v)
  <1>1. /\ c.x = 0
        /\ c.counter = 0 <=> Ons(w) = {}
        /\ c.counter = setup.bundles <=> Ons(w) = Code(v)
        /\ Code(v) # {} /\ setup.bundles # 0
    BY CounterFacts
  <1>2. n # Ack /\ n # Valid
    BY NodeNames
  <1>3. SourceReply(c, n, w).evs \in {NoEvents, SourceAtRail(c, w).evs}
    BY <1>2 DEF SourceReply, Silent, Reply
  <1>4. CASE setup.valid
    <2>1. SourceAtRail(c, w).evs = IF c.counter = 0 THEN ValidEvent(FALSE)
                                   ELSE IF c.counter = setup.bundles THEN ValidEvent(TRUE)
                                   ELSE NoEvents
      BY <1>1, <1>4 DEF SourceAtRail, Reply
    <2>2. SinkAtNode(c, n, w) = NoEvents
      BY <1>2, <1>4 DEF SinkAtNode
    <2>3. QED
      BY <1>1, <1>3, <1>4, <2>1, <2>2
  <1>5. CASE ~setup.valid
    <2>1. SourceAtRail(c, w).evs = NoEvents
      BY <1>5 DEF SourceAtRail, Silent, Reply
    <2>2. SinkAtNode(c, n, w) = RailAck(c)
      BY <1>1, <1>2, <1>5 DEF SinkAtNode
    <2>3. RailAck(c) = IF c.counter = 0 THEN AckEvent(FALSE)
                       ELSE IF c.counter = setup.bundles THEN AckEvent(TRUE)
                       ELSE NoEvents
      BY <1>1 DEF RailAck
    <2>4. QED
      BY <1>1, <1>3, <1>5, <2>1, <2>2, <2>3
  <1>6. QED
    BY <1>4, <1>5

-----------------------------------------------------------------------------
(* Node n executes its event, the nodes are w then, and E is asked for.      *)

Stepping(n, w, E) ==
    /\ n \in Nodes /\ n \in Busy(pending)
    /\ OnlyChanges(n, val, w) /\ w[n] = 1 - val[n]
    /\ Levels(val) /\ Levels(w)
    /\ Busy(Without(n)) = Busy(pending) \ {n}
    /\ bundled /\ n = Valid => Busy(pending) \cap Rails = {}
    /\ \E K : /\ SinkPart(K, n, val[n], w)
              /\ Together(E, K, SourcePart(n, val[n], w))
    /\ \A i \in DOMAIN chan : Counts(Counted(chan[i], n, val[n], w), w)
    /\ 1 \in DOMAIN chan
    /\ \A i \in DOMAIN chan : Object(chan[i])

LEMMA DIRail ==
    ASSUME SetupOK(setup), setup.type = "1ofN", NEW n, NEW w, NEW E, Stepping(n, w, E),
           DI(val, Busy(pending)), n \in Rails
    PROVE  Fits(w, Without(n), E) /\ DI(w, Busy(Without(n)) \cup Changed(E, w))
  <1> DEFINE B == Busy(pending)
             p == Without(n)
             P == B \ {n}
             S == SourcePart(n, val[n], w)
  <1>1. /\ OnlyChanges(n, val, w) /\ w[n] = 1 - val[n] /\ Levels(val) /\ Levels(w)
        /\ Busy(p) = P /\ n \in B /\ 1 \in DOMAIN chan
    BY DEF Stepping
  <1>2. PICK v \in Int : Wave(val, B, v) /\ Signals(val, B, v)
    BY DEF DI
  <1> HIDE DEF B, p
  <1>3. /\ Ack \notin B /\ (setup.valid => Valid \notin B /\ Matched(w))
        /\ Wave(w, P, v)
        /\ Ons(w) = {} => Settled(w, P, v) /\ ack_active(w)
        /\ Ons(w) = Code(v) => Settled(w, P, v) /\ ~ack_active(w)
    BY <1>1, <1>2, RailWave
  <1>4. Ons(w) \subseteq Code(v) /\ setup.ack /\ ~bundled
    BY <1>3, WaveCode, NodeNames DEF bundled
  <1>5. PICK K : SinkPart(K, n, val[n], w) /\ Together(E, K, S)
    BY DEF Stepping
  <1>6. /\ \/ S = NoEvents
           \/ setup.valid /\ S = ValidEvent(FALSE) /\ Ons(w) = {}
           \/ setup.valid /\ S = ValidEvent(TRUE) /\ Ons(w) = Code(v)
        /\ \/ K = NoEvents
           \/ ~setup.valid /\ K = AckEvent(FALSE) /\ Ons(w) = {}
           \/ ~setup.valid /\ K = AckEvent(TRUE) /\ Ons(w) = Code(v)
    <2>1. \A i \in DOMAIN chan : Counts(Counted(chan[i], n, val[n], w), w)
      BY DEF Stepping
    <2>2. \/ S = NoEvents
          \/ setup.valid /\ S = ValidEvent(FALSE) /\ Ons(w) = {}
          \/ setup.valid /\ S = ValidEvent(TRUE) /\ Ons(w) = Code(v)
      BY <1>1, <1>4, <2>1, RailEvents DEF SourcePart
    <2>3. CASE K = NoEvents
      BY <2>2, <2>3
    <2>4. ASSUME NEW i \in DOMAIN chan, K = SinkAtNode(Counted(chan[i], n, val[n], w), n, w)
          PROVE  \/ K = NoEvents
                 \/ ~setup.valid /\ K = AckEvent(FALSE) /\ Ons(w) = {}
                 \/ ~setup.valid /\ K = AckEvent(TRUE) /\ Ons(w) = Code(v)
      BY <1>1, <1>4, <2>1, <2>4, RailEvents
    <2> HIDE DEF S
    <2>5. QED
      BY <1>5, <2>2, <2>3, <2>4 DEF SinkPart
  <1> HIDE DEF S
  <1>7. /\ Plain(p, S) /\ Changed(S, w) \in {{}, {Valid}}
        /\ Changed(S, w) # {} => setup.valid /\ Settled(w, P, v)
    <2>1. ASSUME setup.valid, NEW b \in BOOLEAN
          PROVE  Plain(p, ValidEvent(b)) /\ Changed(ValidEvent(b), w) \in {{}, {Valid}}
      BY <1>1, <1>3, <2>1, PlainValid
    <2>2. QED
      BY <1>3, <1>6, <2>1, PlainNone
  <1>8. /\ Plain(p, K) /\ Changed(K, w) \in {{}, {Ack}}
        /\ Changed(K, w) # {} => ~setup.valid /\ Settled(w, P, v)
    <2>1. ASSUME NEW b \in BOOLEAN
          PROVE  Plain(p, AckEvent(b)) /\ Changed(AckEvent(b), w) \in {{}, {Ack}}
      BY <1>1, <1>3, <1>4, PlainAck
    <2>2. QED
      BY <1>3, <1>6, <2>1, PlainNone
  <1>9. Fits(w, p, E) /\ Changed(E, w) = Changed(K, w) \cup Changed(S, w)
    <2>1. Fits(w, p, E)
      BY <1>4, <1>5, <1>7, <1>8, TogetherFits
    <2>2. QED
      BY <1>5, <2>1, TogetherChanged
  <1>10. \/ Changed(E, w) = {}
         \/ Changed(E, w) = {Ack} /\ ~setup.valid /\ Settled(w, P, v)
         \/ Changed(E, w) = {Valid} /\ setup.valid /\ Settled(w, P, v)
    BY <1>7, <1>8, <1>9
  <1>11. DI(w, P \cup Changed(E, w))
    BY <1>3, <1>10, WaveSignal
  <1>12. QED
    BY <1>1, <1>9, <1>11 DEF p

\* The validity changes.
LEMMA DIValid ==
    ASSUME SetupOK(setup), setup.type = "1ofN", NEW w, NEW E, Stepping(Valid, w, E),
           DI(val, Busy(pending))
    PROVE  /\ Fits(w, Without(Valid), E) /\ DI(w, Busy(Without(Valid)) \cup Changed(E, w))
           /\ valid_active(w) => \E v \in Int : Ons(w) = Code(v)
  <1> DEFINE B == Busy(pending)
             p == Without(Valid)
             P == B \ {Valid}
             S == SourcePart(Valid, val[Valid], w)
  <1>1. /\ OnlyChanges(Valid, val, w) /\ w[Valid] = 1 - val[Valid] /\ Levels(val) /\ Levels(w)
        /\ Busy(p) = P /\ Valid \in B /\ Valid \in Nodes
    BY DEF Stepping
  <1>2. PICK v \in Int : Wave(val, B, v) /\ Signals(val, B, v)
    BY DEF DI
  <1> HIDE DEF B, p
  <1>3. setup.valid /\ setup.ack /\ Ack \in Nodes /\ ~bundled /\ Ack # Valid
    BY <1>1, NodeNames DEF bundled
  <1>4. Settled(val, B, v) /\ Matched(val) /\ Ack \notin B
    BY <1>1, <1>2, <1>3 DEF Signals
  <1>5. /\ ack_active(w) <=> ack_active(val)
        /\ Ons(w) = Ons(val)
    BY <1>1, <1>3, NodesFinite DEF ack_active, OnlyChanges, Ons, At
  <1>6. ~Matched(w)
    <2>1. valid_active(w) <=> ~valid_active(val)
      BY <1>1, LogicType DEF valid_active, Levels
    <2>2. QED
      BY <1>4, <1>5, <2>1 DEF Matched
  <1>7. P \cap Rails = B \cap Rails /\ Ons(w) \subseteq Rails /\ Code(v) \subseteq Rails
    BY NodeNames DEF Ons, At, Code
  <1>8. Settled(w, P, v)
    BY <1>4, <1>5, <1>7 DEF Settled
  <1>9. PICK K : SinkPart(K, Valid, val[Valid], w) /\ Together(E, K, S)
    BY DEF Stepping
  <1>10. S = NoEvents
    BY <1>3 DEF SourcePart, SourceReply, Silent, Reply
  <1>11. K \in {NoEvents, AckEvent(valid_active(w))}
    <2>1. w[Valid] # LOGIC_OTHER
      BY <1>1, LogicType DEF Levels
    <2>2. \A c : SinkAtNode(c, Valid, w) = AckEvent(valid_active(w))
      BY <1>3, <2>1 DEF SinkAtNode, four_phase
    <2>3. QED
      BY <1>9, <2>2 DEF SinkPart
  <1>12. Plain(p, K) /\ Changed(K, w) \subseteq {Ack}
    <2>1. valid_active(w) \in BOOLEAN
      BY DEF valid_active
    <2>2. QED
      BY <1>1, <1>3, <1>4, <1>11, <2>1, PlainNone, PlainAck
  <1>13. Fits(w, p, E) /\ Changed(E, w) \subseteq {Ack}
    <2>1. Plain(p, S) /\ Changed(S, w) = {}
      BY <1>10, PlainNone
    <2>2. Fits(w, p, E)
      BY <1>3, <1>9, <1>12, <2>1, TogetherFits
    <2>3. Changed(E, w) = Changed(K, w) \cup Changed(S, w)
      BY <1>9, TogetherChanged
    <2>4. QED
      BY <1>12, <2>1, <2>2, <2>3
  <1> DEFINE C == Changed(E, w)
  <1> HIDE DEF C
  <1>14. Settled(w, P \cup C, v)
    BY <1>8, <1>13, NodeNames DEF Settled, C
  <1>15. Wave(w, P \cup C, v)
    BY <1>7, <1>14 DEF Wave, Settled
  <1>16. Signals(w, P \cup C, v)
    BY <1>3, <1>6, <1>13, <1>14 DEF Signals, C
  <1>17. valid_active(w) => Ons(w) = Code(v)
    BY <1>6, <1>8 DEF Matched, Settled
  <1>18. QED
    BY <1>1, <1>13, <1>15, <1>16, <1>17 DEF DI, C, p

LEMMA SendChanges ==
    ASSUME SetupOK(setup), setup.type = "1ofN", NEW w, Levels(w), Ons(w) = {}, NEW p,
           Busy(p) \cap Rails = {}, NEW c, Object(c), NEW S, S = Send(c, w).evs
    PROVE  /\ Plain(p, S) /\ DOMAIN S = Rails
           /\ \E v \in Int : Changed(S, w) \in {{}, Code(v)}
  <1>1. CASE have_value(c)
    BY <1>1, PlainSend
  <1>2. CASE ~have_value(c)
    <2>1. S = AllRails(Neutral)
      BY <1>2 DEF Send, Reply, set_all_data_rails, reset_all_data_rails
    <2>2. DOMAIN S = Rails
      BY <2>1 DEF AllRails
    <2>3. Plain(p, S) /\ Changed(S, w) = {} /\ 0 \in Int
      BY <2>1, PlainRails
    <2>4. QED
      BY <2>2, <2>3
  <1>3. QED
    BY <1>1, <1>2

\* The acknowledge changes.
LEMMA DIAck ==
    ASSUME SetupOK(setup), setup.type = "1ofN", NEW w, NEW E, Stepping(Ack, w, E),
           DI(val, Busy(pending))
    PROVE  Fits(w, Without(Ack), E) /\ DI(w, Busy(Without(Ack)) \cup Changed(E, w))
  <1> DEFINE B == Busy(pending)
             p == Without(Ack)
             P == B \ {Ack}
             S == SourcePart(Ack, val[Ack], w)
  <1>1. /\ OnlyChanges(Ack, val, w) /\ w[Ack] = 1 - val[Ack] /\ Levels(val) /\ Levels(w)
        /\ Busy(p) = P /\ Ack \in B /\ Ack \in Nodes
    BY DEF Stepping
  <1>2. PICK v \in Int : Wave(val, B, v) /\ Signals(val, B, v)
    BY DEF DI
  <1> HIDE DEF B, p
  <1>3. Ack # Valid /\ ~bundled /\ Ack \notin Rails /\ Valid \notin Rails
    BY NodeNames DEF bundled
  <1>4. Settled(val, B, v) /\ (setup.valid => ~Matched(val) /\ Valid \notin B)
    BY <1>1, <1>2 DEF Signals
  <1>5. /\ ack_active(w) <=> ~ack_active(val)
        /\ Ons(w) = Ons(val)
        /\ setup.valid => w[Valid] = val[Valid]
    <2>1. ack_active(w) <=> ~ack_active(val)
      BY <1>1, LogicType DEF ack_active, Levels
    <2>2. QED
      BY <1>1, <1>3, <2>1, NodesFinite, NodeNames DEF OnlyChanges, Ons, At
  <1>6. /\ P \cap Rails = {} /\ Ack \notin P
        /\ setup.valid => Matched(w) /\ Valid \notin P
        /\ Ons(w) = IF ack_active(w) THEN Code(v) ELSE {}
        /\ Ons(w) \subseteq Rails
    BY <1>4, <1>5 DEF Settled, Matched, valid_active, Ons, At
  <1>7. PICK K : SinkPart(K, Ack, val[Ack], w) /\ Together(E, K, S)
    BY DEF Stepping
  <1>8. K = NoEvents
    <2>1. \A c : SinkAtNode(c, Ack, w) = NoEvents
      BY <1>3 DEF SinkAtNode
    <2>2. QED
      BY <1>7, <2>1 DEF SinkPart
  <1>9. /\ Plain(p, S)
        /\ \/ Changed(S, w) = {}
           \/ ack_active(w) /\ Changed(S, w) = Ons(w)
           \/ ~ack_active(w) /\ \E u \in Int : Changed(S, w) = Code(u)
    <2> DEFINE c == Counted(chan[1], Ack, val[Ack], w)
    <2>1. Object(c)
      BY CountedContinues DEF Stepping, Continues, SamePart
    <2>2. S = IF ~c.sourcing \/ c.stopped THEN NoEvents ELSE SourceAtAck(c, w).evs
      BY DEF SourcePart, SourceReply, Silent, Reply
    <2> HIDE DEF c, S
    <2>3. w[Ack] # LOGIC_OTHER
      BY <1>1, LogicType DEF Levels
    <2>4. SourceAtAck(c, w).evs =
            IF ack_active(w) THEN AllRails(Neutral) ELSE Send(c, w).evs
      BY <2>3 DEF SourceAtAck, Reply, reset_all_data_rails
    <2>5. Plain(p, AllRails(Neutral)) /\ Changed(AllRails(Neutral), w) = Ons(w)
      BY <1>1, <1>6, PlainRails
    <2>6. ~ack_active(w) =>
            /\ Plain(p, Send(c, w).evs)
            /\ \E u \in Int : Changed(Send(c, w).evs, w) \in {{}, Code(u)}
      BY <1>1, <1>6, <2>1, SendChanges
    <2>7. QED
      BY <2>2, <2>4, <2>5, <2>6, PlainNone
  <1>10. Fits(w, p, E)
    BY <1>3, <1>7, <1>8, <1>9, TogetherFits, PlainNone
  <1>11. Changed(E, w) = Changed(S, w)
    BY <1>7, <1>8, TogetherChanged, PlainNone
  <1> DEFINE C == Changed(E, w)
  <1> HIDE DEF C, S
  <1>12. \E u \in Int : Wave(w, P \cup C, u) /\ C \subseteq Rails
    <2>1. CASE C = {}
      BY <1>6, <2>1 DEF Wave
    <2>2. CASE ack_active(w) /\ C = Ons(w)
      <3>1. (P \cup C) \cap Rails = Ons(w)
        BY <1>6, <2>2
      <3>2. QED
        BY <1>6, <2>2, <3>1 DEF Wave
    <2>3. ASSUME ~ack_active(w), NEW u \in Int, C = Code(u) PROVE Wave(w, P \cup C, u) /\ C \subseteq Rails
      <3>1. (P \cup C) \cap Rails = Code(u) /\ C \subseteq Rails
        BY <1>6, <2>3 DEF Code
      <3>2. QED
        BY <1>6, <2>3, <3>1 DEF Wave
    <2>4. QED
      BY <1>9, <1>11, <2>1, <2>2, <2>3 DEF C
  <1>13. PICK u \in Int : Wave(w, P \cup C, u) /\ C \subseteq Rails
    BY <1>12
  <1>14. Signals(w, P \cup C, u)
    BY <1>3, <1>6, <1>13 DEF Signals
  <1>15. QED
    BY <1>1, <1>10, <1>13, <1>14 DEF DI, C, p

\* A value is read only when it is whole, and no assertion fails.
LEMMA DIReads ==
    ASSUME SetupOK(setup), setup.type = "1ofN", NEW n, NEW w, NEW E, Stepping(n, w, E),
           DI(val, Busy(pending)), NEW i \in DOMAIN chan, NEW c,
           c = Counted(chan[i], n, val[n], w)
    PROVE  (Samples(c, n, w) => readable(w)) /\ ~status_fails(c, w)
  <1>1. PICK u \in Int : Ons(w) \subseteq Code(u) /\ (n = Valid /\ valid_active(w) => Ons(w) = Code(u))
    <2>1. CASE n \in Rails
      <3>1. DI(w, Busy(Without(n)) \cup Changed(E, w))
        BY <2>1, DIRail
      <3>2. QED
        BY <2>1, <3>1, WaveCode, NodeNames DEF DI
    <2>2. CASE n = Valid
      <3>1. DI(w, Busy(Without(n)) \cup Changed(E, w))
        BY <2>2, DIValid
      <3>2. valid_active(w) => \E v \in Int : Ons(w) = Code(v)
        BY <2>2, DIValid
      <3>3. QED
        BY <3>1, <3>2, WaveCode DEF DI
    <2>3. CASE n = Ack
      <3>1. DI(w, Busy(Without(n)) \cup Changed(E, w))
        BY <2>3, DIAck
      <3>2. QED
        BY <2>3, <3>1, WaveCode, NodeNames DEF DI
    <2>4. QED
      BY <2>1, <2>2, <2>3, NodeNames DEF Stepping
  <1>2. Counts(c, w) /\ Levels(w)
    BY DEF Stepping
  <1>3. ~status_fails(c, w) /\ (Ons(w) = Code(u) => readable(w))
    BY <1>1, <1>2, CounterReadable
  <1>4. c.counter = setup.bundles <=> Ons(w) = Code(u)
    BY <1>1, <1>2, CounterFacts
  <1>5. QED
    BY <1>1, <1>3, <1>4 DEF Samples

-----------------------------------------------------------------------------
(* The channels in I are released at rest, and E is asked for.               *)

Releasing(I, E) ==
    /\ Busy(pending) = {} /\ Levels(val)
    /\ setup.type = "BD_4P" /\ valid_active(val) => \A i \in I \cap DOMAIN chan : ~chan[i].sourcing
    /\ \E K, S : ReleasedSink(K) /\ ReleasedSource(S, I) /\ Together(E, K, S)
    /\ \A i \in DOMAIN chan : Counts(chan[i], val) /\ Object(chan[i])
    /\ 1 \in DOMAIN chan

\* At rest the rails carry a value or nothing.
LEMMA RestWave ==
    ASSUME NEW w, NEW v, Wave(w, {}, v)
    PROVE  Ons(w) = {} \/ Ons(w) = Code(v)
  BY DEF Wave

\* The source takes its turn or sees to its validity.
LEMMA DIReleaseSource ==
    ASSUME SetupOK(setup), setup.type = "1ofN", NEW w, Levels(w), NEW v \in Int,
           Wave(w, {}, v), Signals(w, {}, v), NEW p, Busy(p) = {},
           NEW d, Object(d), Counts(d, w), NEW S, S = ResumeSource(d, w).evs
    PROVE  /\ Plain(p, S)
           /\ \/ Changed(S, w) = {}
              \/ ack_active(w) /\ Changed(S, w) = Ons(w)
              \/ /\ ~ack_active(w) /\ Ons(w) = {}
                 /\ \E u \in Int : Changed(S, w) = Code(u)
              \/ /\ setup.valid /\ ~ack_active(w) /\ Ons(w) = Code(v)
                 /\ Changed(S, w) = {Valid} /\ ~valid_active(w)
  <1>1. Ack \in Nodes /\ w[Ack] # LOGIC_OTHER /\ Rails \subseteq Nodes /\ Valid \notin Rails
    BY NodeNames, LogicType DEF Levels
  <1>2. /\ d.x = 0
        /\ d.counter = 0 <=> Ons(w) = {}
        /\ d.counter = setup.bundles <=> Ons(w) = Code(v)
        /\ Code(v) # {} /\ setup.bundles # 0
    BY WaveCode, CounterFacts
  <1>3. CASE ack_active(w)
    <2>1. S = AllRails(Neutral)
      BY <1>1, <1>3 DEF ResumeSource, SourceAtAck, Reply, reset_all_data_rails
    <2>2. QED
      BY <1>3, <2>1, PlainRails
  <1>4. CASE ~ack_active(w)
    <2> DEFINE s == (IF d.counter # setup.bundles \/ d.x # 0 THEN Send(d, w) ELSE Silent(d)).evs
               t == SourceAtRail(d, w).evs
    <2>1. S = Also(s, t)
      BY <1>1, <1>4 DEF ResumeSource, Reply
    <2>2. t = IF ~setup.valid THEN NoEvents
              ELSE IF d.counter = 0 THEN ValidEvent(FALSE)
              ELSE IF d.counter = setup.bundles THEN ValidEvent(TRUE)
              ELSE NoEvents
      BY <1>2 DEF SourceAtRail, Reply, Silent
    <2>3. setup.valid => \A b \in BOOLEAN :
             /\ Plain(p, ValidEvent(b)) /\ DOMAIN ValidEvent(b) = {Valid}
             /\ Changed(ValidEvent(b), w) = IF valid_active(w) <=> b THEN {} ELSE {Valid}
      BY PlainValid
    <2>4. Plain(p, NoEvents) /\ Changed(NoEvents, w) = {} /\ DOMAIN NoEvents = {}
      BY PlainNone, NoEventsEmpty
    <2>5. CASE Ons(w) = {}
      <3>1. s = Send(d, w).evs
        BY <1>2, <2>5
      <3>2. /\ Plain(p, s) /\ DOMAIN s = Rails
            /\ \E u \in Int : Changed(s, w) \in {{}, Code(u)}
        BY <2>5, <3>1, SendChanges
      <3> HIDE DEF s, t
      <3>3. ASSUME setup.valid PROVE ~valid_active(w)
        <4>1. ~Settled(w, {}, v)
          BY <1>2, <1>4, <2>5 DEF Settled
        <4>2. Matched(w)
          BY <3>3, <4>1 DEF Signals
        <4>3. QED
          BY <1>4, <4>2 DEF Matched
      <3>4. t = IF setup.valid THEN ValidEvent(FALSE) ELSE NoEvents
        BY <1>2, <2>2, <2>5
      <3>5. Plain(p, t) /\ DOMAIN t \subseteq {Valid} /\ Changed(t, w) = {}
        BY <2>3, <2>4, <3>3, <3>4
      <3>6. Together(S, s, t)
        BY <1>1, <2>1, <3>2, <3>5, AlsoTogether
      <3>7. Plain(p, S) /\ Changed(S, w) = Changed(s, w)
        <4>1. Plain(p, S)
          BY <3>2, <3>5, <3>6 DEF Together, Plain
        <4>2. QED
          BY <3>5, <3>6, <4>1, TogetherChanged
      <3>8. QED
        BY <1>4, <2>5, <3>2, <3>7
    <2>6. CASE Ons(w) = Code(v)
      <3>1. s = NoEvents
        BY <1>2, <2>6 DEF Silent, Reply
      <3> HIDE DEF s, t
      <3>2. t = IF setup.valid THEN ValidEvent(TRUE) ELSE NoEvents
        BY <1>2, <2>2, <2>6
      <3>3. /\ Plain(p, t)
            /\ Changed(t, w) = {} \/ (Changed(t, w) = {Valid} /\ ~valid_active(w) /\ setup.valid)
        BY <2>3, <2>4, <3>2
      <3>4. Together(S, s, t)
        BY <2>1, <2>4, <3>1, AlsoTogether
      <3>5. Plain(p, S) /\ Changed(S, w) = Changed(t, w)
        <4>1. Plain(p, S)
          BY <2>4, <3>1, <3>3, <3>4 DEF Together, Plain
        <4>2. Changed(S, w) = Changed(s, w) \cup Changed(t, w)
          BY <3>4, TogetherChanged
        <4>3. QED
          BY <2>4, <3>1, <4>1, <4>2
      <3>6. QED
        BY <1>4, <2>6, <3>3, <3>5
    <2>7. QED
      BY <2>5, <2>6, RestWave
  <1>5. QED
    BY <1>3, <1>4

\* The sink acknowledges what has settled.
LEMMA DIReleaseSink ==
    ASSUME SetupOK(setup), setup.type = "1ofN", NEW w, Levels(w), NEW v \in Int,
           Wave(w, {}, v), NEW p, Busy(p) = {}, NEW c, Counts(c, w),
           NEW K, K = ResumeSink(c, w)
    PROVE  /\ Plain(p, K)
           /\ \/ Changed(K, w) = {}
              \/ /\ Changed(K, w) = {Ack}
                 /\ setup.valid => ~Matched(w)
                 /\ ~setup.valid => \/ Ons(w) = {} /\ ack_active(w)
                                    \/ Ons(w) = Code(v) /\ ~ack_active(w)
  <1>1. /\ c.x = 0
        /\ c.counter = 0 <=> Ons(w) = {}
        /\ c.counter = setup.bundles <=> Ons(w) = Code(v)
        /\ Code(v) # {} /\ setup.bundles # 0
    BY WaveCode, CounterFacts
  <1>2. setup.ack
    BY NodeNames
  <1>3. \A b \in BOOLEAN :
             /\ Plain(p, AckEvent(b))
             /\ Changed(AckEvent(b), w) = IF ack_active(w) <=> b THEN {} ELSE {Ack}
    BY <1>2, PlainAck
  <1>4. CASE setup.valid
    <2>1. w[Valid] # LOGIC_OTHER
      BY <1>4, NodeNames, LogicType DEF Levels
    <2>2. K = AckEvent(valid_active(w)) /\ valid_active(w) \in BOOLEAN
      BY <1>4, <2>1 DEF ResumeSink, SinkAtNode, four_phase, valid_active
    <2>3. QED
      BY <1>3, <1>4, <2>2 DEF Matched
  <1>5. CASE ~setup.valid
    <2>1. K = RailAck(c)
      BY <1>1, <1>5 DEF ResumeSink, four_phase
    <2>2. CASE Ons(w) = {}
      <3>1. K = AckEvent(FALSE)
        BY <1>1, <2>1, <2>2 DEF RailAck
      <3>2. QED
        BY <1>3, <1>5, <2>2, <3>1
    <2>3. CASE Ons(w) = Code(v)
      <3>1. K = AckEvent(TRUE)
        BY <1>1, <2>1, <2>3 DEF RailAck
      <3>2. QED
        BY <1>3, <1>5, <2>3, <3>1
    <2>4. QED
      BY <2>2, <2>3, RestWave
  <1>6. QED
    BY <1>4, <1>5

LEMMA DIRelease ==
    ASSUME SetupOK(setup), setup.type = "1ofN", NEW I, NEW E, Releasing(I, E), DI(val, {})
    PROVE  Fits(val, pending, E) /\ DI(val, Changed(E, val))
  <1>1. PICK v \in Int : Wave(val, {}, v) /\ Signals(val, {}, v)
    BY DEF DI
  <1>2. PICK K, S : ReleasedSink(K) /\ ReleasedSource(S, I) /\ Together(E, K, S)
    BY DEF Releasing
  <1>3. /\ Levels(val) /\ Busy(pending) = {} /\ 1 \in DOMAIN chan
        /\ \A i \in DOMAIN chan : Counts(chan[i], val) /\ Object(chan[i])
    BY DEF Releasing
  <1> DEFINE A == ack_active(val)
             O == Ons(val)
             KC == Changed(K, val)
             SC == Changed(S, val)
  <1>4. /\ Plain(pending, S)
        /\ \/ SC = {}
           \/ A /\ SC = O
           \/ ~A /\ O = {} /\ \E u \in Int : SC = Code(u)
           \/ setup.valid /\ ~A /\ O = Code(v) /\ SC = {Valid} /\ ~valid_active(val)
    <2> DEFINE d == [chan[1] EXCEPT !.stopped = FALSE]
    <2>1. Object(d) /\ Counts(d, val)
      BY <1>3 DEF Object, Counts, Counting
    <2>2. S = NoEvents \/ S = ResumeSource(d, val).evs
      BY <1>2 DEF ReleasedSource
    <2> HIDE DEF d
    <2>3. QED
      BY <1>1, <1>3, <2>1, <2>2, DIReleaseSource, PlainNone
  <1>5. /\ Plain(pending, K)
        /\ \/ KC = {}
           \/ /\ KC = {Ack}
              /\ setup.valid => ~Matched(val)
              /\ ~setup.valid => (O = {} /\ A) \/ (O = Code(v) /\ ~A)
    BY <1>1, <1>2, <1>3, DIReleaseSink, PlainNone DEF ReleasedSink
  <1>6. Fits(val, pending, E) /\ Changed(E, val) = KC \cup SC
    <2>1. Fits(val, pending, E)
      BY <1>2, <1>4, <1>5, TogetherFits DEF bundled
    <2>2. QED
      BY <1>2, <2>1, TogetherChanged
  <1> DEFINE C == KC \cup SC
  <1>7. /\ Ack \notin Rails /\ Valid \notin Rails /\ Ack # Valid /\ O \subseteq Rails
        /\ \A u : Code(u) \subseteq Rails
        /\ Code(v) # {}
    <2>1. Code(v) # {}
      BY <1>1, <1>3, WaveCode, CounterFacts
    <2>2. QED
      BY <2>1, NodeNames DEF Ons, At, Code
  <1>8. setup.valid /\ ~Matched(val) => O = IF A THEN {} ELSE Code(v)
    BY <1>1 DEF Signals, Settled
  <1>9. \E u \in Int : Wave(val, C, u) /\ Signals(val, C, u)
    <2> HIDE DEF KC, SC
    <2>1. CASE KC = {Ack}
      <3>1. SC \cap Rails = {} /\ (setup.valid => Valid \notin SC) /\ Ack \notin SC
        BY <1>4, <1>5, <1>7, <1>8, <2>1 DEF Matched
      <3>2. Settled(val, C, v) /\ C \cap Rails = {}
        BY <1>5, <1>7, <1>8, <2>1, <3>1 DEF Settled
      <3>3. Wave(val, C, v)
        BY <1>7, <3>2 DEF Wave, Settled
      <3>4. Signals(val, C, v)
        BY <1>5, <1>7, <2>1, <3>1, <3>2 DEF Signals
      <3>5. QED
        BY <3>3, <3>4
    <2>2. CASE KC = {} /\ SC = {}
      BY <1>1, <2>2
    <2>3. CASE KC = {} /\ A /\ SC = O
      <3>1. C = O /\ Ack \notin C /\ Valid \notin C /\ C \cap Rails = O
        BY <1>7, <2>3
      <3>2. Wave(val, C, v)
        BY <1>1, <2>3, <3>1, WaveCode DEF Wave
      <3>3. Signals(val, C, v)
        BY <1>8, <2>3, <3>1 DEF Signals, Settled
      <3>4. QED
        BY <3>2, <3>3
    <2>4. ASSUME KC = {}, ~A, O = {}, NEW u \in Int, SC = Code(u)
          PROVE  Wave(val, C, u) /\ Signals(val, C, u)
      <3>1. C = Code(u) /\ Ack \notin C /\ Valid \notin C /\ C \cap Rails = Code(u)
        BY <1>7, <2>4
      <3>2. QED
        BY <1>7, <1>8, <2>4, <3>1 DEF Wave, Signals
    <2>5. CASE /\ KC = {} /\ setup.valid /\ ~A /\ O = Code(v) /\ SC = {Valid}
               /\ ~valid_active(val)
      <3>1. C = {Valid} /\ C \cap Rails = {} /\ Ack \notin C
        BY <1>7, <2>5
      <3>2. QED
        BY <1>7, <2>5, <3>1 DEF Wave, Signals, Settled, Matched
    <2>6. QED
      BY <1>4, <1>5, <2>1, <2>2, <2>3, <2>4, <2>5
  <1>10. QED
    BY <1>6, <1>9 DEF DI

-----------------------------------------------------------------------------
(* Two-phase handshakes and bundled data: source and sink take turns.        *)

SourceTurn(w) == IF setup.type = "BD_4P" THEN Matched(w) ELSE IsEmpty(w)
Turns(w, B) ==
    /\ Ack \in B => ~SourceTurn(w)
    /\ setup.ack /\ B \ {Ack} # {} => SourceTurn(w)
    /\ setup.type = "LEDR" => 1 \notin B \/ Valid \notin B

LEMMA ParityFacts ==
    ASSUME SetupOK(setup)
    PROVE  /\ ParityNodes \subseteq Nodes /\ IsFiniteSet(ParityNodes)
           /\ EmptyParity \in {0, 1}
           /\ \A w : Levels(w) => /\ ParityKnown(w) /\ Parity(w) \in {0, 1}
                                  /\ IsFull(w) <=> ~IsEmpty(w)
  <1>1. ParityNodes \subseteq Nodes /\ ParityNodes \subseteq {Ack, Valid, 1}
    BY NodeNames, NodesFinite DEF ParityNodes
  <1>2. IsFiniteSet({Ack, Valid, 1})
    <2>1. IsFiniteSet({Ack}) /\ IsFiniteSet({Ack} \cup {Valid})
      BY FS_Singleton, FS_AddElement
    <2>2. IsFiniteSet(({Ack} \cup {Valid}) \cup {1})
      BY <2>1, FS_AddElement
    <2>3. {Ack, Valid, 1} = ({Ack} \cup {Valid}) \cup {1}
      OBVIOUS
    <2>4. QED
      BY <2>2, <2>3
  <1>3. \A T : T \subseteq {Ack, Valid, 1} => Cardinality(T) % 2 \in {0, 1}
    <2>1. \A T : T \subseteq {Ack, Valid, 1} => Cardinality(T) \in Nat
      BY <1>2, FS_Subset, FS_CardinalityType
    <2>2. \A k \in Nat : k % 2 \in {0, 1}
      OBVIOUS
    <2>3. QED
      BY <2>1, <2>2
  <1>4. EmptyParity \in {0, 1}
    BY <1>3 DEF EmptyParity
  <1>5. \A w : Parity(w) \in {0, 1}
    BY <1>1, <1>3 DEF Parity
  <1>6. \A w : Levels(w) => ParityKnown(w)
    BY <1>1, LogicType DEF Levels, ParityKnown
  <1>7. QED
    BY <1>1, <1>2, <1>4, <1>5, <1>6, FS_Subset DEF IsFull, IsEmpty

\* One node of the parity changes, or none.
LEMMA ParityFlips ==
    ASSUME SetupOK(setup), NEW u, Levels(u), NEW w, Levels(w), NEW n \in Nodes,
           OnlyChanges(n, u, w), w[n] = 1 - u[n]
    PROVE  IsEmpty(w) <=> (IsEmpty(u) <=> n \notin ParityNodes)
  <1> DEFINE k == Cardinality(At(ParityNodes, u, LOGIC_HIGH))
             m == Cardinality(At(ParityNodes, w, LOGIC_HIGH))
  <1>1. Parity(u) = k % 2 /\ Parity(w) = m % 2
    BY DEF Parity, At
  <1>2. k \in Int /\ m = k + (IF n \in ParityNodes THEN Change(LOGIC_HIGH, u[n], w[n]) ELSE 0)
    BY ParityFacts, OneChange
  <1>3. Change(LOGIC_HIGH, u[n], w[n]) \in {1, -1}
    BY DEF Change, LOGIC_HIGH, Levels
  <1>4. n \in ParityNodes => m = k + 1 \/ m = k - 1
    BY <1>2, <1>3
  <1>5. n \notin ParityNodes => m = k
    BY <1>2
  <1> HIDE DEF k, m
  <1>6. n \in ParityNodes => Parity(w) = 1 - Parity(u)
    BY <1>1, <1>2, <1>4
  <1>7. n \notin ParityNodes => Parity(w) = Parity(u)
    BY <1>1, <1>5
  <1>8. /\ ParityKnown(u) /\ ParityKnown(w) /\ EmptyParity \in {0, 1}
        /\ Parity(u) \in {0, 1} /\ Parity(w) \in {0, 1}
    BY ParityFacts
  <1>9. QED
    BY <1>6, <1>7, <1>8 DEF IsEmpty

\* A step of the handshake passes the turn, a change of bundled data does not.
LEMMA TurnFlips ==
    ASSUME SetupOK(setup), setup.type # "1ofN", NEW u, Levels(u), NEW w, Levels(w),
           NEW n \in Nodes, OnlyChanges(n, u, w), w[n] = 1 - u[n]
    PROVE  SourceTurn(w) <=> (SourceTurn(u) <=> bundled /\ n \in Rails)
  <1>1. CASE setup.type = "BD_4P"
    <2>1. Ack \in Nodes /\ Valid \in Nodes /\ Ack # Valid /\ Ack \notin Rails /\ Valid \notin Rails
      BY <1>1, NodeNames
    <2>2. /\ w[Ack] \in {0, 1} /\ w[Valid] \in {0, 1} /\ u[Ack] \in {0, 1} /\ u[Valid] \in {0, 1}
          /\ \A m \in Nodes : m # n => w[m] = u[m]
      BY <2>1 DEF Levels, OnlyChanges
    <2>3. CASE n = Ack
      <3>1. ack_active(w) <=> ~ack_active(u)
        BY <2>2, <2>3, LogicType DEF ack_active
      <3>2. valid_active(w) <=> valid_active(u)
        BY <2>1, <2>2, <2>3 DEF valid_active
      <3>3. QED
        BY <1>1, <2>1, <2>3, <3>1, <3>2 DEF SourceTurn, Matched
    <2>4. CASE n = Valid
      <3>1. valid_active(w) <=> ~valid_active(u)
        BY <2>2, <2>4, LogicType DEF valid_active
      <3>2. ack_active(w) <=> ack_active(u)
        BY <2>1, <2>2, <2>4 DEF ack_active
      <3>3. QED
        BY <1>1, <2>1, <2>4, <3>1, <3>2 DEF SourceTurn, Matched
    <2>5. CASE n \in Rails
      <3>1. (valid_active(w) <=> valid_active(u)) /\ (ack_active(w) <=> ack_active(u))
        BY <2>1, <2>2, <2>5 DEF ack_active, valid_active
      <3>2. QED
        BY <1>1, <2>5, <3>1 DEF SourceTurn, Matched, bundled
    <2>6. QED
      BY <2>3, <2>4, <2>5, NodeNames
  <1>2. CASE setup.type # "BD_4P"
    <2>1. IsEmpty(w) <=> (IsEmpty(u) <=> n \notin ParityNodes)
      BY ParityFlips
    <2>2. n \notin ParityNodes <=> bundled /\ n \in Rails
      BY <1>2, NodeNames DEF ParityNodes, bundled, Type
    <2>3. QED
      BY <1>2, <2>1, <2>2 DEF SourceTurn
  <1>3. QED
    BY <1>1, <1>2

LEMMA OtherReads ==
    ASSUME SetupOK(setup), setup.type # "1ofN", NEW w, Levels(w)
    PROVE  readable(w) /\ \A c : ~status_fails(c, w)
  <1>1. \A r \in Rails : w[r] # LOGIC_OTHER
    BY NodesFinite, LogicType DEF Levels
  <1>2. QED
    BY <1>1, ParityFacts DEF readable, status_fails

LEMMA NoXs ==
    ASSUME SetupOK(setup), NEW w, Levels(w), NEW c, Counts(c, w) PROVE c.x = 0
  <1>1. Xs(w) = {}
    BY LogicType, NodesFinite DEF Xs, At, Levels, DataNodes
  <1>2. QED
    BY <1>1, FS_EmptySet DEF Counts

\* The request of two-phase bundled data is a change.
LEMMA RequestChanges ==
    ASSUME SetupOK(setup), setup.type = "BD_2P", NEW w, Levels(w), IsEmpty(w)
    PROVE  IF EmptyParity = 0 THEN invert_value(w[Ack]) = 1 - w[Valid] ELSE w[Ack] = 1 - w[Valid]
  <1>1. /\ Ack \in Nodes /\ Valid \in Nodes /\ Ack # Valid
        /\ w[Ack] \in {0, 1} /\ w[Valid] \in {0, 1}
    BY NodeNames DEF Levels
  <1>2. ParityNodes = {Ack, Valid}
    BY <1>1 DEF ParityNodes
  <1> DEFINE T == {n \in ParityNodes : w[n] = LOGIC_HIGH}
  <1>3. Parity(w) = Cardinality(T) % 2
    BY DEF Parity
  <1> HIDE DEF T
  <1>4. CASE w[Ack] = w[Valid]
    <2>1. Cardinality(T) \in {0, 2}
      <3>1. CASE w[Ack] = 0
        <4>1. \A n \in ParityNodes : w[n] = 0
          BY <1>2, <1>4, <3>1
        <4>2. T = {}
          BY <4>1 DEF LOGIC_HIGH, T
        <4>3. QED
          BY <4>2, FS_EmptySet
      <3>2. CASE w[Ack] = 1
        <4>1. T = {Ack} \cup {Valid}
          BY <1>2, <1>4, <3>2 DEF LOGIC_HIGH, T
        <4>2. IsFiniteSet({Ack}) /\ Cardinality({Ack}) = 1 /\ Valid \notin {Ack}
          BY <1>1, FS_Singleton
        <4>3. QED
          BY <4>1, <4>2, FS_AddElement
      <3>3. QED
        BY <1>1, <3>1, <3>2
    <2>2. Parity(w) = 0
      BY <1>3, <2>1
    <2>3. EmptyParity = 0
      BY <2>2 DEF IsEmpty
    <2>4. QED
      BY <1>1, <1>4, <2>3 DEF invert_value, LOGIC_OTHER
  <1>5. CASE w[Ack] # w[Valid]
    <2>1. T = {Ack} \/ T = {Valid}
      BY <1>1, <1>2, <1>5 DEF LOGIC_HIGH, T
    <2>2. Parity(w) = 1
      <3>1. Cardinality(T) = 1
        BY <2>1, FS_Singleton
      <3>2. QED
        BY <1>3, <3>1
    <2>3. EmptyParity = 1
      BY <2>2 DEF IsEmpty
    <2>4. QED
      BY <1>1, <1>5, <2>3
  <1>6. QED
    BY <1>4, <1>5

\* Whatever the sink asks for, the events of the source fit.
SourceFits(w, p, S) ==
    \A K, E : Plain(p, K) /\ DOMAIN K \subseteq {Ack} /\ Together(E, K, S) => Fits(w, p, E)

LEMMA PlainSourceFits ==
    ASSUME SetupOK(setup), NEW w, NEW p, Busy(p) = {}, NEW S, Plain(p, S),
           bundled => DOMAIN S \cap Rails = {}
    PROVE  SourceFits(w, p, S)
  <1> SUFFICES ASSUME NEW K, NEW E, Plain(p, K), DOMAIN K \subseteq {Ack}, Together(E, K, S)
               PROVE  Fits(w, p, E)
    BY DEF SourceFits
  <1>1. CASE ~bundled
    BY <1>1, TogetherFits
  <1>2. CASE bundled
    <2>1. DOMAIN K \cap Rails = {} /\ DOMAIN S \cap Rails = {}
      BY <1>2, NodeNames
    <2>2. p[Valid] = NoEvent
      BY <1>2, NodeNames DEF Busy, bundled
    <2>3. QED
      BY <2>1, <2>2, TogetherFitsBundle
  <1>3. QED
    BY <1>1, <1>2

\* The data and, behind them, the request.
LEMMA RequestFits ==
    ASSUME SetupOK(setup), setup.careful, bundled, NEW w, Levels(w), SourceTurn(w),
           setup.type = "BD_4P" => ~ack_active(w), NEW p, Busy(p) = {},
           NEW c, Object(c), have_value(c), NEW S, S = set_bd_data_req(c, w).evs
    PROVE  SourceFits(w, p, S)
  <1> DEFINE s == Send(c, w).evs
             reqv == IF setup.type = "BD_4P" THEN Logic(setup.valid_sense)
                     ELSE IF EmptyParity = 0 THEN invert_value(w[Ack]) ELSE w[Ack]
             req == [n \in {Valid} |-> [val |-> reqv, after |-> Before(s, w)]]
  <1>1. S = Also(s, req)
    BY DEF set_bd_data_req, Reply
  <1>2. Plain(p, s) /\ DOMAIN s = Rails
    BY PlainSend DEF bundled
  <1>3. Valid \in Nodes /\ Valid \notin Rails /\ Ack \notin Rails /\ Ack # Valid /\ Rails \subseteq Nodes
        /\ w[Valid] \in {0, 1}
    BY NodeNames DEF Levels, bundled
  <1>4. reqv \in {0, 1} /\ reqv # w[Valid]
    <2>1. CASE setup.type = "BD_4P"
      <3>1. ~valid_active(w)
        BY <2>1 DEF SourceTurn, Matched
      <3>2. QED
        BY <2>1, <3>1, LogicType DEF valid_active
    <2>2. CASE setup.type = "BD_2P"
      <3>1. IsEmpty(w)
        BY <2>2 DEF SourceTurn
      <3>2. reqv = 1 - w[Valid]
        BY <2>2, <3>1, RequestChanges
      <3>3. QED
        BY <1>3, <3>2
    <2>3. QED
      BY <2>1, <2>2 DEF bundled
  <1> HIDE DEF s, reqv
  <1>5. Together(S, s, req)
    <2>1. DOMAIN req = {Valid}
      OBVIOUS
    <2>2. DOMAIN s \cap DOMAIN req = {}
      BY <1>2, <1>3, <2>1
    <2>3. QED
      BY <1>1, <2>2, AlsoTogether
  <1>6. DOMAIN S = Rails \cup {Valid} /\ S[Valid] = [val |-> reqv, after |-> Before(s, w)]
        /\ \A r \in Rails : S[r] = s[r]
    BY <1>2, <1>5 DEF Together
  <1> SUFFICES ASSUME NEW K, NEW E, Plain(p, K), DOMAIN K \subseteq {Ack}, Together(E, K, S)
               PROVE  Fits(w, p, E)
    BY DEF SourceFits
  <1>7. /\ DOMAIN E \subseteq Rails \cup {Ack, Valid} /\ Rails \cup {Valid} \subseteq DOMAIN E
        /\ E[Valid] = [val |-> reqv, after |-> Before(s, w)]
        /\ \A r \in Rails : E[r] = s[r]
        /\ Ack \in DOMAIN E => Ack \in DOMAIN K /\ E[Ack] = K[Ack]
    BY <1>3, <1>6 DEF Together
  <1>8. Changed(E, w) \cap Rails = Before(s, w)
    <2>1. ~setup.global
      BY DEF SetupOK, bundled
    <2>2. QED
      BY <1>3, <1>7, <2>1 DEF Changed, Before
  <1>9. Valid \in Changed(E, w)
    BY <1>3, <1>4, <1>7 DEF Changed
  <1>10. \A m \in Nodes : p[m] = NoEvent
    BY DEF Busy
  <1>11. ASSUME NEW m \in DOMAIN E \cap Nodes
         PROVE  /\ E[m].val \in {0, 1}
                /\ E[m] = [val |-> E[m].val,
                           after |-> IF bundled /\ m = Valid THEN Changed(E, w) \cap Rails ELSE {}]
    <2>1. CASE m = Valid
      BY <1>4, <1>7, <1>8, <2>1
    <2>2. CASE m \in Rails
      BY <1>2, <1>3, <1>7, <2>2 DEF Plain
    <2>3. CASE m = Ack
      BY <1>3, <1>7, <2>3 DEF Plain
    <2>4. QED
      BY <1>7, <2>1, <2>2, <2>3
  <1>12. QED
    BY <1>3, <1>9, <1>10, <1>11 DEF Fits

\* LEDR sources change one of their two rails.
LEMMA LedrSend ==
    ASSUME SetupOK(setup), setup.type = "LEDR", NEW w, Levels(w), NEW p, Busy(p) = {},
           NEW c, NEW S, S = Send(c, w).evs
    PROVE  Plain(p, S) /\ Changed(S, w) \in {{}, {1}, {Valid}}
  <1> DEFINE v == IF Encodes(current_value(c), 1) THEN Active ELSE Neutral
  <1>1. v \in {0, 1}
    BY LogicType
  <1>2. 1 \in Nodes /\ Valid \in Nodes /\ w[1] \in {0, 1}
    BY NodeNames DEF Levels
  <1>3. \/ S = NoEvents
        \/ S = CASE w[1] = LOGIC_OTHER -> NoEvents
                 [] w[1] = v -> Toggle(Valid, w)
                 [] w[1] = 1 - v -> Event(1, v)
    <2>1. S = set_all_data_rails(c, w)
      BY DEF Send, Reply
    <2>2. CASE have_value(c)
      BY <2>1, <2>2 DEF set_all_data_rails
    <2>3. CASE ~have_value(c)
      BY <2>1, <2>3 DEF set_all_data_rails, reset_all_data_rails
    <2>4. QED
      BY <2>2, <2>3
  <1>4. w[1] # LOGIC_OTHER /\ (w[1] = v \/ w[1] = 1 - v)
    BY <1>1, <1>2, LogicType
  <1> HIDE DEF v
  <1>5. S \in {NoEvents, Toggle(Valid, w), Event(1, v)}
    BY <1>3, <1>4
  <1>6. Plain(p, Toggle(Valid, w)) /\ Changed(Toggle(Valid, w), w) = {Valid}
    BY <1>2, PlainToggle
  <1>7. Plain(p, Event(1, v)) /\ Changed(Event(1, v), w) \in {{}, {1}}
    BY <1>1, <1>2 DEF Event, Plain, Changed, Busy
  <1>8. QED
    <2>1. Plain(p, NoEvents) /\ Changed(NoEvents, w) = {}
      BY PlainNone
    <2>2. QED
      BY <1>5, <1>6, <1>7, <2>1

LEMMA TurnSource ==
    ASSUME SetupOK(setup), setup.careful, setup.type # "1ofN", setup.ack, NEW w, Levels(w),
           setup.type = "BD_4P" /\ ~ack_active(w) => SourceTurn(w), NEW p, Busy(p) = {},
           NEW c, Object(c), NEW S, S = SourceAtAck(c, w).evs
    PROVE  /\ SourceFits(w, p, S)
           /\ Changed(S, w) # {} => SourceTurn(w)
           /\ setup.type = "LEDR" => 1 \notin Changed(S, w) \/ Valid \notin Changed(S, w)
  <1>1. w[Ack] # LOGIC_OTHER /\ ParityKnown(w) /\ (IsFull(w) <=> ~IsEmpty(w))
    BY NodeNames, LogicType, ParityFacts DEF Levels
  <1>2. SourceFits(w, p, NoEvents) /\ Changed(NoEvents, w) = {}
    BY PlainNone, NoEventsEmpty, PlainSourceFits
  <1>3. CASE setup.type = "LEDR"
    <2>1. S = IF IsEmpty(w) THEN Send(c, w).evs ELSE NoEvents
      BY <1>1, <1>3 DEF SourceAtAck, Silent, Reply
    <2>2. Plain(p, Send(c, w).evs) /\ Changed(Send(c, w).evs, w) \in {{}, {1}, {Valid}}
      BY <1>3, LedrSend
    <2>3. SourceFits(w, p, Send(c, w).evs)
      BY <1>3, <2>2, PlainSourceFits DEF bundled
    <2>4. 1 # Valid
      BY DEF Valid
    <2>5. QED
      BY <1>2, <1>3, <2>1, <2>2, <2>3, <2>4 DEF SourceTurn
  <1>4. CASE setup.type = "BD_2P"
    <2>1. S = IF ~IsFull(w) /\ have_value(c) THEN set_bd_data_req(c, w).evs ELSE NoEvents
      BY <1>1, <1>4 DEF SourceAtAck, Silent, Reply
    <2>2. CASE ~IsFull(w) /\ have_value(c)
      <3>1. SourceTurn(w) /\ bundled
        BY <1>1, <1>4, <2>2 DEF SourceTurn, bundled
      <3>2. SourceFits(w, p, S)
        BY <1>4, <2>1, <2>2, <3>1, RequestFits
      <3>3. QED
        BY <1>4, <3>1, <3>2
    <2>3. QED
      BY <1>2, <1>4, <2>1, <2>2
  <1>5. CASE setup.type = "BD_4P"
    <2>1. S = IF ack_active(w) THEN ValidEvent(FALSE)
              ELSE IF have_value(c) THEN set_bd_data_req(c, w).evs ELSE NoEvents
      BY <1>1, <1>5 DEF SourceAtAck, Silent, Reply
    <2>2. CASE ack_active(w)
      <3>1. setup.valid /\ Valid \notin Rails
        BY <1>5, NodeNames
      <3>2. /\ Plain(p, S) /\ DOMAIN S = {Valid}
            /\ Changed(S, w) = IF valid_active(w) <=> FALSE THEN {} ELSE {Valid}
        BY <2>1, <2>2, <3>1, PlainValid
      <3>3. SourceFits(w, p, S)
        BY <3>1, <3>2, PlainSourceFits
      <3>4. QED
        BY <1>5, <2>2, <3>2, <3>3 DEF SourceTurn, Matched
    <2>3. CASE ~ack_active(w) /\ have_value(c)
      <3>1. SourceTurn(w) /\ bundled
        BY <1>5, <2>3 DEF bundled
      <3>2. SourceFits(w, p, S)
        BY <2>1, <2>3, <3>1, RequestFits
      <3>3. QED
        BY <1>5, <3>1, <3>2
    <2>4. QED
      BY <1>2, <1>5, <2>1, <2>2, <2>3
  <1>6. QED
    BY <1>3, <1>4, <1>5, NodeNames DEF Type

LEMMA TurnSink ==
    ASSUME SetupOK(setup), setup.type # "1ofN", setup.ack, NEW w, Levels(w), NEW n,
           NEW c, Counts(c, w), NEW p, Ack \notin Busy(p), NEW K, K = SinkAtNode(c, n, w)
    PROVE  /\ Plain(p, K) /\ DOMAIN K \subseteq {Ack}
           /\ n = Ack \/ (bundled /\ n \in Rails) => K = NoEvents
  <1>1. Ack \in Nodes /\ Ack # Valid /\ Valid \notin Rails /\ setup.valid
    BY NodeNames
  <1>2. Plain(p, NoEvents) /\ DOMAIN NoEvents = {}
    BY PlainNone, NoEventsEmpty
  <1>3. Plain(p, Toggle(Ack, w)) /\ DOMAIN Toggle(Ack, w) = {Ack}
    BY <1>1, PlainToggle
  <1>4. CASE setup.type = "LEDR"
    <2>1. c.x = 0
      BY NoXs
    <2>2. K = IF n # Ack THEN Toggle(Ack, w) ELSE NoEvents
      BY <1>4, <2>1 DEF SinkAtNode, four_phase
    <2>3. QED
      BY <1>2, <1>3, <1>4, <2>2 DEF bundled
  <1>5. CASE setup.type = "BD_2P"
    <2>1. w[Valid] # LOGIC_OTHER
      BY <1>1, NodeNames, LogicType DEF Levels
    <2>2. K = IF n = Valid THEN Toggle(Ack, w) ELSE NoEvents
      BY <1>5, <2>1 DEF SinkAtNode, four_phase
    <2>3. QED
      BY <1>1, <1>2, <1>3, <2>2
  <1>6. CASE setup.type = "BD_4P"
    <2>1. w[Valid] # LOGIC_OTHER
      BY <1>1, NodeNames, LogicType DEF Levels
    <2>2. K = IF n = Valid THEN AckEvent(valid_active(w)) ELSE NoEvents
      BY <1>1, <1>6, <2>1 DEF SinkAtNode, four_phase
    <2>3. Plain(p, AckEvent(valid_active(w))) /\ DOMAIN AckEvent(valid_active(w)) = {Ack}
      BY PlainAck DEF valid_active
    <2>4. QED
      BY <1>1, <1>2, <2>2, <2>3
  <1>7. QED
    BY <1>4, <1>5, <1>6, NodeNames DEF Type

\* The sink has its turn back to give: the acknowledge changes.
LEMMA TurnAck ==
    ASSUME SetupOK(setup), setup.careful, setup.type # "1ofN", NEW w, NEW E,
           Stepping(Ack, w, E), Turns(val, Busy(pending))
    PROVE  Fits(w, Without(Ack), E) /\ Turns(w, Busy(Without(Ack)) \cup Changed(E, w))
  <1> DEFINE p == Without(Ack)
             S == SourcePart(Ack, val[Ack], w)
             c == Counted(chan[1], Ack, val[Ack], w)
  <1>1. /\ OnlyChanges(Ack, val, w) /\ w[Ack] = 1 - val[Ack] /\ Levels(val) /\ Levels(w)
        /\ Ack \in Busy(pending) /\ Ack \in Nodes
        /\ Busy(p) = Busy(pending) \ {Ack}
    BY DEF Stepping
  <1>2. setup.ack /\ Ack # Valid /\ Ack \notin Rails
    BY <1>1, NodeNames
  <1>3. ~SourceTurn(val) /\ Busy(p) = {}
    BY <1>1, <1>2 DEF Turns
  <1>4. SourceTurn(w)
    BY <1>1, <1>2, <1>3, TurnFlips
  <1>5. PICK K : SinkPart(K, Ack, val[Ack], w) /\ Together(E, K, S)
    BY DEF Stepping
  <1> HIDE DEF p
  <1>6. K = NoEvents /\ Plain(p, K) /\ DOMAIN K \subseteq {Ack} /\ Changed(K, w) = {}
    <2>1. \A i \in DOMAIN chan : Counts(Counted(chan[i], Ack, val[Ack], w), w)
      BY DEF Stepping
    <2>2. K = NoEvents
      BY <1>1, <1>2, <1>3, <1>5, <2>1, TurnSink DEF SinkPart
    <2>3. QED
      BY <2>2, PlainNone, NoEventsEmpty
  <1>7. /\ SourceFits(w, p, S) /\ Ack \notin Changed(S, w)
        /\ setup.type = "LEDR" => 1 \notin Changed(S, w) \/ Valid \notin Changed(S, w)
    <2>1. Object(c)
      BY CountedContinues DEF Stepping, Continues, SamePart
    <2>2. S = NoEvents \/ S = SourceAtAck(c, w).evs
      BY DEF SourcePart, SourceReply, Silent, Reply
    <2> HIDE DEF c, S
    <2>3. SourceEvs(S)
      <3>1. Typed(w)
        BY <1>1, LogicType DEF Typed, Levels
      <3>2. QED
        BY <2>2, <3>1, SourceAtEvs, NoEventsBoth
    <2>4. Ack \notin Changed(S, w)
      BY <1>2, <2>3 DEF SourceEvs, Changed
    <2>5. CASE S = NoEvents
      BY <1>3, <2>4, <2>5, PlainSourceFits, PlainNone, NoEventsEmpty
    <2>6. CASE S = SourceAtAck(c, w).evs
      BY <1>1, <1>2, <1>3, <1>4, <2>1, <2>4, <2>6, TurnSource
    <2>7. QED
      BY <2>2, <2>5, <2>6
  <1> HIDE DEF S
  <1>8. Fits(w, p, E)
    BY <1>5, <1>6, <1>7 DEF SourceFits
  <1>9. Changed(E, w) = Changed(S, w)
    BY <1>5, <1>6, TogetherChanged
  <1>10. Turns(w, Busy(p) \cup Changed(E, w))
    BY <1>3, <1>4, <1>7, <1>9 DEF Turns
  <1>11. QED
    BY <1>8, <1>10 DEF p

\* Another node than the acknowledge changes.
LEMMA TurnData ==
    ASSUME SetupOK(setup), setup.type # "1ofN", NEW n, n # Ack, NEW w, NEW E, Stepping(n, w, E),
           Turns(val, Busy(pending))
    PROVE  Fits(w, Without(n), E) /\ Turns(w, Busy(Without(n)) \cup Changed(E, w))
  <1> DEFINE B == Busy(pending)
             p == Without(n)
             S == SourcePart(n, val[n], w)
             c == Counted(chan[1], n, val[n], w)
  <1>1. /\ OnlyChanges(n, val, w) /\ w[n] = 1 - val[n] /\ Levels(val) /\ Levels(w)
        /\ n \in B /\ n \in Nodes /\ Busy(p) = B \ {n}
        /\ bundled /\ n = Valid => B \cap Rails = {}
        /\ 1 \in DOMAIN chan
        /\ \A i \in DOMAIN chan : Counts(Counted(chan[i], n, val[n], w), w)
    BY DEF Stepping
  <1>2. /\ Nodes \subseteq Rails \cup {Ack, Valid} /\ Ack # Valid
        /\ Ack \notin Rails /\ Valid \notin Rails
        /\ setup.type = "LEDR" => Rails = {1}
        /\ ~bundled => setup.type = "LEDR"
        /\ bundled => setup.ack
        /\ ~setup.ack => Ack \notin Nodes
        /\ B \subseteq Nodes
    BY NodeNames DEF bundled, Type, Busy
  <1>3. Ack \notin B /\ (setup.ack => SourceTurn(val))
    BY <1>1, <1>2 DEF Turns
  <1>4. SourceTurn(w) <=> (SourceTurn(val) <=> bundled /\ n \in Rails)
    BY <1>1, TurnFlips
  <1>5. PICK K : SinkPart(K, n, val[n], w) /\ Together(E, K, S)
    BY DEF Stepping
  <1> HIDE DEF B, p
  <1>6. /\ Plain(p, K) /\ DOMAIN K \subseteq {Ack}
        /\ bundled /\ n \in Rails => K = NoEvents
        /\ ~setup.ack => K = NoEvents
    <2>1. Plain(p, NoEvents) /\ DOMAIN NoEvents = {}
      BY PlainNone, NoEventsEmpty
    <2>2. Ack \notin Busy(p)
      BY <1>1, <1>3
    <2>3. QED
      BY <1>1, <1>5, <2>1, <2>2, TurnSink DEF SinkPart
  <1>7. Changed(K, w) \subseteq {Ack}
    BY <1>6 DEF Changed
  <1>8. Changed(E, w) = Changed(K, w) \cup Changed(S, w)
    BY <1>5, TogetherChanged
  <1>9. Plain(p, NoEvents) /\ Changed(NoEvents, w) = {} /\ DOMAIN NoEvents = {}
    BY PlainNone, NoEventsEmpty
  <1>10. CASE bundled /\ n \in Rails
    <2>1. S = NoEvents
      BY <1>2, <1>10 DEF SourcePart, SourceReply, SourceAtRail, Silent, Reply, bundled
    <2> HIDE DEF S
    <2>2. Fits(w, p, E)
      BY <1>5, <1>6, <1>9, <1>10, <2>1, TogetherFitsBundle
    <2>3. Changed(E, w) = {}
      BY <1>6, <1>8, <1>9, <1>10, <2>1
    <2>4. Turns(w, Busy(p) \cup Changed(E, w))
      BY <1>1, <1>2, <1>3, <1>4, <1>10, <2>3 DEF Turns, bundled
    <2>5. QED
      BY <2>2, <2>4 DEF p
  <1>11. CASE ~(bundled /\ n \in Rails)
    <2>1. Busy(p) = {}
      <3>1. CASE bundled
        <4>1. n = Valid
          BY <1>1, <1>2, <1>11, <3>1
        <4>2. QED
          BY <1>1, <1>2, <1>3, <3>1, <4>1
      <3>2. CASE setup.type = "LEDR"
        <4>1. 1 \notin B \/ Valid \notin B
          BY <3>2 DEF Turns, B
        <4>2. QED
          BY <1>1, <1>2, <1>3, <3>2, <4>1
      <3>3. QED
        BY <1>2, <3>1, <3>2
    <2>2. CASE setup.ack
      <3>1. S = NoEvents
        BY <1>2, <1>11, <2>2 DEF SourcePart, SourceReply, SourceAtRail, Silent, Reply, bundled, Type
      <3> HIDE DEF S
      <3>2. SourceFits(w, p, S)
        BY <1>9, <2>1, <3>1, PlainSourceFits
      <3>3. Fits(w, p, E)
        BY <1>5, <1>6, <3>2 DEF SourceFits
      <3>4. Changed(E, w) \subseteq {Ack}
        BY <1>7, <1>8, <1>9, <3>1
      <3>5. ~SourceTurn(w)
        BY <1>3, <1>4, <1>11, <2>2
      <3>6. Turns(w, Busy(p) \cup Changed(E, w))
        BY <1>2, <2>1, <3>4, <3>5 DEF Turns
      <3>7. QED
        BY <3>3, <3>6 DEF p
    <2>3. CASE ~setup.ack
      <3>1. setup.type = "LEDR"
        BY <1>2, <2>3
      <3>2. c.x = 0
        BY <1>1, NoXs
      <3>3. S = NoEvents \/ S = Send(c, w).evs
        BY <2>3, <3>1, <3>2 DEF SourcePart, SourceReply, SourceAtRail, Silent, Reply
      <3> HIDE DEF c, S
      <3>4. Plain(p, S) /\ Changed(S, w) \in {{}, {1}, {Valid}}
        <4>1. CASE S = NoEvents
          BY <1>9, <4>1
        <4>2. CASE S = Send(c, w).evs
          BY <1>1, <2>1, <3>1, <4>2, LedrSend
        <4>3. QED
          BY <3>3, <4>1, <4>2
      <3>5. SourceFits(w, p, S)
        BY <2>1, <3>1, <3>4, PlainSourceFits DEF bundled
      <3>6. Fits(w, p, E)
        BY <1>5, <1>6, <3>5 DEF SourceFits
      <3>7. Changed(E, w) \in {{}, {1}, {Valid}}
        BY <1>6, <1>8, <1>9, <2>3, <3>4
      <3>8. 1 # Ack /\ Ack # Valid /\ 1 # Valid
        BY DEF Ack, Valid
      <3>9. Turns(w, Busy(p) \cup Changed(E, w))
        BY <2>1, <2>3, <3>7, <3>8 DEF Turns
      <3>10. QED
        BY <3>6, <3>9 DEF p
    <2>4. QED
      BY <2>2, <2>3
  <1>12. QED
    BY <1>10, <1>11

LEMMA TurnReleaseSink ==
    ASSUME SetupOK(setup), setup.type # "1ofN", setup.ack, NEW w, Levels(w),
           NEW p, Busy(p) = {}, NEW c, NEW K, K = ResumeSink(c, w)
    PROVE  /\ Plain(p, K) /\ DOMAIN K \subseteq {Ack}
           /\ Changed(K, w) # {} => ~SourceTurn(w)
  <1>1. Ack \in Nodes /\ Valid \in Nodes /\ setup.valid /\ setup.type \in Type
    BY NodeNames
  <1>2. /\ w[Valid] # LOGIC_OTHER /\ ParityKnown(w) /\ (IsFull(w) <=> ~IsEmpty(w))
    BY <1>1, LogicType, ParityFacts DEF Levels
  <1>3. CASE setup.type = "BD_4P"
    <2>1. K = AckEvent(valid_active(w)) /\ valid_active(w) \in BOOLEAN
      BY <1>1, <1>2, <1>3 DEF ResumeSink, SinkAtNode, four_phase, valid_active
    <2>2. /\ Plain(p, K) /\ DOMAIN K = {Ack}
          /\ Changed(K, w) = IF ack_active(w) <=> valid_active(w) THEN {} ELSE {Ack}
      BY <2>1, PlainAck
    <2>3. QED
      BY <1>3, <2>2 DEF SourceTurn, Matched
  <1>4. CASE setup.type # "BD_4P"
    <2>1. K = IF IsFull(w) THEN Toggle(Ack, w) ELSE NoEvents
      BY <1>1, <1>2, <1>4 DEF ResumeSink, four_phase
    <2>2. Plain(p, Toggle(Ack, w)) /\ DOMAIN Toggle(Ack, w) = {Ack}
      BY <1>1, PlainToggle
    <2>3. Plain(p, NoEvents) /\ Changed(NoEvents, w) = {} /\ DOMAIN NoEvents = {}
      BY PlainNone, NoEventsEmpty
    <2>4. QED
      BY <1>2, <1>4, <2>1, <2>2, <2>3 DEF SourceTurn
  <1>5. QED
    BY <1>3, <1>4

LEMMA TurnRelease ==
    ASSUME SetupOK(setup), setup.careful, setup.type # "1ofN", NEW I, NEW E, Releasing(I, E)
    PROVE  Fits(val, pending, E) /\ Turns(val, Changed(E, val))
  <1>1. PICK K, S : ReleasedSink(K) /\ ReleasedSource(S, I) /\ Together(E, K, S)
    BY DEF Releasing
  <1>2. /\ Levels(val) /\ Busy(pending) = {} /\ 1 \in DOMAIN chan /\ Object(chan[1])
        /\ setup.type = "BD_4P" /\ valid_active(val) =>
                \A i \in I \cap DOMAIN chan : ~chan[i].sourcing
    BY DEF Releasing
  <1>3. Plain(pending, NoEvents) /\ Changed(NoEvents, val) = {} /\ DOMAIN NoEvents = {}
    BY PlainNone, NoEventsEmpty
  <1>4. /\ Plain(pending, K) /\ DOMAIN K \subseteq {Ack}
        /\ Changed(K, val) # {} => ~SourceTurn(val)
        /\ ~setup.ack => K = NoEvents
    BY <1>1, <1>2, <1>3, TurnReleaseSink DEF ReleasedSink
  <1> DEFINE d == [chan[1] EXCEPT !.stopped = FALSE]
  <1>5. Object(d)
    BY <1>2 DEF Object
  <1>6. S = NoEvents \/ (S = ResumeSource(d, val).evs /\ 1 \in I /\ chan[1].sourcing)
    BY <1>1 DEF ReleasedSource
  <1> HIDE DEF d
  <1>7. /\ SourceFits(val, pending, S) /\ Ack \notin Changed(S, val)
        /\ setup.ack /\ Changed(S, val) # {} => SourceTurn(val)
        /\ setup.type = "LEDR" => 1 \notin Changed(S, val) \/ Valid \notin Changed(S, val)
    <2>1. SourceEvs(S)
      <3>1. Typed(val)
        BY <1>2, LogicType DEF Typed, Levels
      <3>2. QED
        BY <1>6, <3>1, SourceAtEvs, NoEventsBoth
    <2>2. Ack \notin Changed(S, val)
      BY <2>1, NodeNames DEF SourceEvs, Changed
    <2>3. CASE S = NoEvents
      BY <1>2, <1>3, <2>2, <2>3, PlainSourceFits
    <2>4. CASE setup.ack /\ S = ResumeSource(d, val).evs /\ 1 \in I /\ chan[1].sourcing
      <3>1. val[Ack] # LOGIC_OTHER
        BY <1>2, <2>4, NodeNames, LogicType DEF Levels
      <3>2. S = SourceAtAck(d, val).evs
        BY <2>4, <3>1 DEF ResumeSource
      <3>3. setup.type = "BD_4P" /\ ~ack_active(val) => SourceTurn(val)
        <4>1. setup.type = "BD_4P" => ~valid_active(val)
          BY <1>2, <2>4
        <4>2. QED
          BY <4>1 DEF SourceTurn, Matched
      <3>4. QED
        BY <1>2, <1>5, <2>2, <2>4, <3>2, <3>3, TurnSource
    <2>5. CASE ~setup.ack /\ S = ResumeSource(d, val).evs
      <3>1. setup.type = "LEDR"
        BY <2>5, NodeNames
      <3>2. S = Send(d, val).evs
        BY <2>5, <3>1 DEF ResumeSource
      <3>3. Plain(pending, S) /\ Changed(S, val) \in {{}, {1}, {Valid}}
        BY <1>2, <3>1, <3>2, LedrSend
      <3>4. SourceFits(val, pending, S)
        BY <1>2, <3>1, <3>3, PlainSourceFits DEF bundled
      <3>5. 1 # Valid
        BY DEF Valid
      <3>6. QED
        BY <2>2, <2>5, <3>3, <3>4, <3>5
    <2>6. QED
      BY <1>6, <2>3, <2>4, <2>5
  <1>8. Fits(val, pending, E)
    BY <1>1, <1>4, <1>7 DEF SourceFits
  <1>9. Changed(E, val) = Changed(K, val) \cup Changed(S, val)
    BY <1>1, TogetherChanged
  <1>10. Changed(K, val) \subseteq {Ack} /\ (~setup.ack => Changed(K, val) = {})
    BY <1>3, <1>4 DEF Changed
  <1>11. Turns(val, Changed(E, val))
    <2>1. 1 # Ack /\ Valid # Ack
      BY DEF Ack, Valid
    <2>2. QED
      BY <1>4, <1>7, <1>9, <1>10, <2>1 DEF Turns
  <1>12. QED
    BY <1>8, <1>11

-----------------------------------------------------------------------------
(* The invariant of a channel with a careful user.                           *)

\* The handshake is under way.
Handshake(w, p) ==
    Tidy(w, p) /\ IF setup.type = "1ofN" THEN DI(w, Busy(p)) ELSE Turns(w, Busy(p))

\* Before the first release delay-insensitive rails are X or neutral.
Idle(n) == IF n = Valid THEN Logic(~setup.valid_sense) ELSE Neutral
Unready(w, p) ==
    setup.type = "1ofN" =>
        \A n \in Nodes \ {Ack} : /\ w[n] \in {LOGIC_OTHER, Idle(n)}
                                 /\ p[n] = NoEvent \/ p[n].val \in {LOGIC_OTHER, Idle(n)}
Quiescent == Busy(pending) = {} \/ \A i \in DOMAIN chan : chan[i].stopped

CarefulInv ==
    /\ Parts /\ Typed(val) /\ PendingOK(pending)
    /\ started => Handshake(val, pending) /\ ~dead
    /\ ~started => Unready(val, pending) /\ Quiescent

LEMMA Frame ==
    ASSUME setup' = setup
    PROVE  /\ Nodes' = Nodes
           /\ Typed(val)' <=> Typed(val')
           /\ PendingOK(pending)' <=> PendingOK(pending')
           /\ Unready(val, pending)' <=> Unready(val', pending')
           /\ Busy(pending)' = Busy(pending')
           /\ Handshake(val, pending)' <=> Handshake(val', pending')
  <1>1. /\ Rails' = Rails /\ (bundled' <=> bundled)
        /\ Active' = Active /\ Neutral' = Neutral
    BY DEF Rails, bundled, Active, Neutral, Logic
  <1>2. Nodes' = Nodes
    BY <1>1 DEF Nodes
  <1>3. Typed(val)' <=> Typed(val')
    BY <1>2 DEF Typed
  <1>4. PendingOK(pending)' <=> PendingOK(pending')
    BY <1>1, <1>2 DEF PendingOK, Ev
  <1>5. Unready(val, pending)' <=> Unready(val', pending')
    BY <1>1, <1>2 DEF Unready, Idle, Logic
  <1>6. Busy(pending)' = Busy(pending')
    BY <1>2 DEF Busy
  <1>7. ASSUME NEW v PROVE Code(v)' = Code(v)
    BY <1>1 DEF Code, Encodes, Bundle, Digit
  <1>8. /\ Ons(val)' = Ons(val')
        /\ ack_active(val)' <=> ack_active(val')
        /\ valid_active(val)' <=> valid_active(val')
    BY <1>1 DEF Ons, At, ack_active, valid_active, Logic
  <1>9. Matched(val)' <=> Matched(val')
    BY <1>8 DEF Matched
  <1>10. IsEmpty(val)' <=> IsEmpty(val')
    <2>1. ParityNodes' = ParityNodes
      BY <1>2 DEF ParityNodes
    <2>2. EmptyParity' = EmptyParity
      BY DEF EmptyParity
    <2>3. (ParityKnown(val)' <=> ParityKnown(val')) /\ Parity(val)' = Parity(val')
      BY <2>1 DEF ParityKnown, Parity
    <2>4. QED
      BY <2>2, <2>3 DEF IsEmpty
  <1>11. Tidy(val, pending)' <=> Tidy(val', pending')
    <2>1. ASSUME NEW n PROVE Behind(pending, n)' = Behind(pending', n)
      BY <1>1, <1>6 DEF Behind
    <2>2. QED
      BY <1>1, <1>2, <1>6, <2>1 DEF Tidy
  <1>12. Turns(val, Busy(pending))' <=> Turns(val', Busy(pending'))
    BY <1>6, <1>9, <1>10 DEF Turns, SourceTurn
  <1>13. DI(val, Busy(pending))' <=> DI(val', Busy(pending'))
    <2>1. ASSUME NEW v \in Int
          PROVE  /\ Settled(val, Busy(pending), v)' <=> Settled(val', Busy(pending'), v)
                 /\ Wave(val, Busy(pending), v)' <=> Wave(val', Busy(pending'), v)
      BY <1>1, <1>6, <1>7, <1>8 DEF Settled, Wave
    <2>2. ASSUME NEW v \in Int
          PROVE  Signals(val, Busy(pending), v)' <=> Signals(val', Busy(pending'), v)
      BY <1>6, <1>9, <2>1 DEF Signals
    <2>3. QED
      BY <2>1, <2>2 DEF DI
  <1>14. Handshake(val, pending)' <=> Handshake(val', pending')
    BY <1>11, <1>12, <1>13 DEF Handshake
  <1>15. QED
    BY <1>2, <1>3, <1>4, <1>5, <1>6, <1>14

\* The objects reply and keep their parts.
LEMMA RespondParts ==
    ASSUME Parts, setup' = setup, NEW replies, NEW p, NEW w, Respond(replies, p, w),
           \A i \in DOMAIN chan : SamePart(chan[i], replies[i].chan)
    PROVE  Parts' /\ chan' = [i \in DOMAIN chan |-> replies[i].chan]
  <1>1. /\ chan' = [i \in DOMAIN chan |-> replies[i].chan]
        /\ dead' <=> \E i \in DOMAIN chan : replies[i].chan.abort
    BY DEF Respond
  <1>2. DOMAIN chan' = DOMAIN chan /\ \A i \in DOMAIN chan : chan'[i] = replies[i].chan
    BY <1>1
  <1>3. \A i \in DOMAIN chan : /\ Object(chan'[i])
                               /\ chan'[i].sourcing => i = 1
                               /\ chan'[i].sinking => setup.ack /\ (setup.split => i = 2)
    BY <1>2 DEF Parts, SamePart
  <1>4. ~dead' => \A i \in DOMAIN chan : ~chan'[i].abort
    BY <1>1, <1>2
  <1>5. QED
    BY <1>1, <1>2, <1>3, <1>4 DEF Parts, Object

\* A command that changes the objects only.
LEMMA CommandParts ==
    ASSUME Parts, UNCHANGED <<setup, dead>>, DOMAIN chan' = DOMAIN chan,
           \A i \in DOMAIN chan : /\ Object(chan'[i])
                                  /\ chan'[i].sourcing = chan[i].sourcing
                                  /\ chan'[i].sinking = chan[i].sinking
                                  /\ chan'[i].abort = chan[i].abort
    PROVE  Parts'
  BY DEF Parts, Object

LEMMA FlushHandshake ==
    ASSUME SetupOK(setup), NEW w, NEW p, Tidy(w, p), NEW E, Fits(w, p, E),
           IF setup.type = "1ofN" THEN DI(w, Busy(p) \cup Changed(E, w))
           ELSE Turns(w, Busy(p) \cup Changed(E, w))
    PROVE  Handshake(w, flush_channel_events(p, E, w))
  BY FlushTidy DEF Handshake

\* The events that are pending, and those asked for after one of them.
LEMMA LevelsTyped ==
    ASSUME NEW w, Levels(w) PROVE Typed(w)
  BY LogicType DEF Levels, Typed

LEMMA SteppingFacts ==
    ASSUME ChannelInv, Parts, Tidy(val, pending), NEW n \in Nodes,
           pending[n] # NoEvent, pending[n].after = {},
           NEW w, w = [val EXCEPT ![n] = pending[n].val],
           NEW E, E = Asked([i \in DOMAIN chan |-> process_node(chan[i], n, val[n], w)])
    PROVE  Stepping(n, w, E) /\ Tidy(w, Without(n)) /\ w # val
  <1>1. SetupOK(setup) /\ DOMAIN val = Nodes /\ \A i \in DOMAIN chan : Counts(chan[i], val)
    BY SetupsAssumption DEF ChannelInv
  <1>2. /\ Tidy(w, Without(n)) /\ Busy(Without(n)) = Busy(pending) \ {n}
        /\ w[n] = 1 - val[n] /\ OnlyChanges(n, val, w) /\ w # val
    BY <1>1, WithoutTidy
  <1>3. Levels(val) /\ Levels(w)
    BY <1>2 DEF Tidy, Levels
  <1>4. n \in Busy(pending)
    BY DEF Busy
  <1>5. bundled /\ n = Valid => Busy(pending) \cap Rails = {}
    <2>1. pending[n] = [val |-> 1 - val[n], after |-> Behind(pending, n)]
      BY DEF Tidy
    <2>2. Behind(pending, n) = {}
      BY <2>1
    <2>3. QED
      BY <2>2 DEF Behind
  <1>6. \E K : SinkPart(K, n, val[n], w) /\ Together(E, K, SourcePart(n, val[n], w))
    BY <1>1, <1>3, LevelsTyped, NodeEvents
  <1>7. \A i \in DOMAIN chan : Counts(Counted(chan[i], n, val[n], w), w)
    BY <1>1, <1>2, CountedCounts
  <1>8. 1 \in DOMAIN chan /\ \A i \in DOMAIN chan : Object(chan[i])
    BY DEF Parts
  <1>9. QED
    BY <1>2, <1>3, <1>4, <1>5, <1>6, <1>7, <1>8 DEF Stepping

\* The handshake goes on, and no assertion fails.
LEMMA SteppingHandshake ==
    ASSUME SetupOK(setup), setup.careful, Handshake(val, pending), NEW n, NEW w, NEW E,
           Stepping(n, w, E), Tidy(w, Without(n))
    PROVE  /\ Handshake(w, flush_channel_events(Without(n), E, w))
           /\ \A i \in DOMAIN chan :
                LET c == Counted(chan[i], n, val[n], w)
                IN  (Samples(c, n, w) => readable(w)) /\ ~status_fails(c, w)
  <1>1. n \in Nodes /\ Levels(w)
    BY DEF Stepping
  <1>2. CASE setup.type = "1ofN"
    <2>1. DI(val, Busy(pending))
      BY <1>2 DEF Handshake
    <2>2. Fits(w, Without(n), E) /\ DI(w, Busy(Without(n)) \cup Changed(E, w))
      <3>1. n \in Rails \/ n = Ack \/ n = Valid
        BY <1>1, NodeNames
      <3>2. QED
        BY <1>2, <2>1, <3>1, DIRail, DIAck, DIValid
    <2>3. \A i \in DOMAIN chan :
                LET c == Counted(chan[i], n, val[n], w)
                IN  (Samples(c, n, w) => readable(w)) /\ ~status_fails(c, w)
      BY <1>2, <2>1, DIReads
    <2>4. QED
      BY <1>2, <2>2, <2>3, FlushHandshake
  <1>3. CASE setup.type # "1ofN"
    <2>1. Turns(val, Busy(pending))
      BY <1>3 DEF Handshake
    <2>2. Fits(w, Without(n), E) /\ Turns(w, Busy(Without(n)) \cup Changed(E, w))
      BY <1>3, <2>1, TurnAck, TurnData
    <2>3. QED
      BY <1>1, <1>3, <2>2, FlushHandshake, OtherReads
  <1>4. QED
    BY <1>2, <1>3

LEMMA ExecuteStarted ==
    ASSUME ChannelInv, CarefulInv, setup.careful, started, NEW n \in Nodes, Execute(n)
    PROVE  CarefulInv'
  <1> DEFINE w == [val EXCEPT ![n] = pending[n].val]
             replies == [i \in DOMAIN chan |-> process_node(chan[i], n, val[n], w)]
             E == Asked(replies)
  <1>1. /\ SetupOK(setup) /\ setup.type \in Type
        /\ Parts /\ Handshake(val, pending) /\ Tidy(val, pending) /\ ~dead /\ PendingOK(pending)
    BY SetupsAssumption DEF ChannelInv, CarefulInv, SetupOK, Handshake
  <1>2. Stepping(n, w, E) /\ Tidy(w, Without(n)) /\ w # val
    BY <1>1, SteppingFacts DEF Execute
  <1>3. /\ val' = w /\ setup' = setup /\ started' = started
        /\ Respond(replies, Without(n), w)
    BY <1>2 DEF Execute, Without
  <1>4. /\ Handshake(w, flush_channel_events(Without(n), E, w))
        /\ \A i \in DOMAIN chan :
                LET c == Counted(chan[i], n, val[n], w)
                IN  (Samples(c, n, w) => readable(w)) /\ ~status_fails(c, w)
    BY <1>1, <1>2, SteppingHandshake
  <1>5. Typed(w) /\ Levels(w)
    BY <1>2, LevelsTyped DEF Stepping
  <1>6. EvsOK(E)
    BY <1>1, <1>5, NodeEvents, TogetherOK
  <1> HIDE DEF w
  <1>7. \A i \in DOMAIN chan : Continues(chan[i], replies[i].chan)
    BY <1>1, <1>4, ProcessNodeParts DEF Parts
  <1>8. Parts'
    <2>1. \A i \in DOMAIN chan : SamePart(chan[i], replies[i].chan)
      BY <1>7 DEF Continues
    <2> HIDE DEF replies
    <2>2. QED
      BY <1>1, <1>3, <2>1, RespondParts
  <1>9. ~dead'
    <2>1. \A i \in DOMAIN chan : ~replies[i].chan.abort
      BY <1>1, <1>7 DEF Continues, Parts
    <2> HIDE DEF replies
    <2>2. QED
      BY <1>3, <2>1 DEF Respond
  <1>10. pending' = flush_channel_events(Without(n), E, w)
    BY <1>3 DEF Respond
  <1> HIDE DEF E
  <1>11. PendingOK(pending')
    BY <1>1, <1>6, <1>10, WithoutOK, FlushOK
  <1>12. QED
    BY <1>3, <1>4, <1>5, <1>8, <1>9, <1>10, <1>11, Frame DEF CarefulInv

-----------------------------------------------------------------------------
(* Before the first release.                                                 *)

\* Events that make a node X or idle.
Shy(E) == setup.type = "1ofN" =>
              \A m \in DOMAIN E \cap (Nodes \ {Ack}) : E[m].val \in {LOGIC_OTHER, Idle(m)}

LEMMA FlushUnready ==
    ASSUME NEW w, NEW p, PendingOK(p), Unready(w, p), NEW E, Shy(E)
    PROVE  Unready(w, flush_channel_events(p, E, w))
  <1> SUFFICES ASSUME setup.type = "1ofN", NEW n \in Nodes \ {Ack}
               PROVE  LET q == flush_channel_events(p, E, w)
                      IN  q[n] = NoEvent \/ q[n].val \in {LOGIC_OTHER, Idle(n)}
    BY DEF Unready
  <1> DEFINE q == flush_channel_events(p, E, w)
  <1>1. p[n] = NoEvent \/ (p[n] \in Ev /\ p[n].val \in {LOGIC_OTHER, Idle(n)})
    BY DEF Unready, PendingOK
  <1>2. CASE n \notin DOMAIN E
    <2>1. PICK A : q[n] = [p[n] EXCEPT !.after = A] /\ A \subseteq p[n].after
      BY <1>2 DEF flush_channel_events
    <2>2. CASE p[n] = NoEvent
      BY <2>1, <2>2 DEF NoEvent
    <2>3. CASE p[n] \in Ev /\ p[n].val \in {LOGIC_OTHER, Idle(n)}
      <3>1. [p[n] EXCEPT !.after = A].val = p[n].val
        BY <2>3 DEF Ev
      <3>2. QED
        BY <2>1, <2>3, <3>1
    <2>4. QED
      BY <1>1, <2>2, <2>3
  <1>3. CASE n \in DOMAIN E /\ p[n] # NoEvent /\ ~setup.dequeue
    <2>1. q[n] = [p[n] EXCEPT !.val = LOGIC_OTHER] /\ p[n] \in Ev
      BY <1>1, <1>3 DEF flush_channel_events
    <2>2. QED
      BY <2>1 DEF Ev
  <1>4. CASE n \in DOMAIN E /\ ~(p[n] # NoEvent /\ ~setup.dequeue)
    BY <1>4 DEF flush_channel_events, Shy
  <1>5. QED
    BY <1>2, <1>3, <1>4

LEMMA WithoutUnready ==
    ASSUME PendingOK(pending), Unready(val, pending), NEW n \in Nodes, pending[n] # NoEvent,
           NEW w, w = [val EXCEPT ![n] = pending[n].val], DOMAIN val = Nodes
    PROVE  Unready(w, Without(n))
  <1> SUFFICES ASSUME setup.type = "1ofN", NEW m \in Nodes \ {Ack}
               PROVE  /\ w[m] \in {LOGIC_OTHER, Idle(m)}
                      /\ \/ Without(n)[m] = NoEvent
                         \/ Without(n)[m].val \in {LOGIC_OTHER, Idle(m)}
    BY DEF Unready
  <1>1. /\ val[m] \in {LOGIC_OTHER, Idle(m)}
        /\ pending[m] = NoEvent \/ (pending[m] \in Ev /\ pending[m].val \in {LOGIC_OTHER, Idle(m)})
    BY DEF Unready, PendingOK
  <1>2. CASE m = n
    BY <1>1, <1>2 DEF Without
  <1>3. CASE m # n
    <2>1. Without(n)[m] = [pending[m] EXCEPT !.after = @ \ {n}] /\ w[m] = val[m]
      BY <1>3 DEF Without
    <2>2. CASE pending[m] = NoEvent
      BY <1>1, <2>1, <2>2 DEF NoEvent
    <2>3. CASE pending[m] \in Ev
      BY <1>1, <2>1, <2>3 DEF Ev, NoEvent
    <2>4. QED
      BY <1>1, <2>2, <2>3
  <1>4. QED
    BY <1>2, <1>3

\* A stopped source only lets the validity follow the rails.
LEMMA StoppedShy ==
    ASSUME SetupOK(setup), NEW w, NEW p, Unready(w, p), NEW c, Counts(c, w), c.stopped, NEW n
    PROVE  Shy(SourceReply(c, n, w).evs)
  <1> SUFFICES ASSUME setup.type = "1ofN" PROVE Shy(SourceReply(c, n, w).evs)
    BY DEF Shy
  <1>1. Shy(NoEvents)
    BY NoEventsEmpty DEF Shy
  <1>2. ASSUME NEW v, v \in {LOGIC_OTHER, Idle(Valid)} PROVE Shy(Event(Valid, v))
    BY <1>2 DEF Event, Shy
  <1>3. Shy(ValidEvent(FALSE))
    <2>1. Logic(FALSE = setup.valid_sense) = Idle(Valid)
      <3>1. setup.valid_sense \in BOOLEAN
        BY DEF SetupOK
      <3>2. (FALSE = setup.valid_sense) <=> ~setup.valid_sense
        BY <3>1, Zenon
      <3>3. QED
        BY <3>2 DEF Idle, Logic
    <2>2. QED
      BY <1>2, <2>1 DEF ValidEvent
  <1>4. c.counter = 0
    <2>1. Ons(w) = {}
      <3>1. ASSUME NEW r \in Rails PROVE w[r] # Active
        <4>1. r \in Nodes \ {Ack} /\ r # Valid
          BY NodeNames
        <4>2. w[r] \in {LOGIC_OTHER, Neutral}
          BY <4>1 DEF Unready, Idle
        <4>3. QED
          BY <4>2, LogicType
      <3>2. QED
        BY <3>1 DEF Ons, At
    <2>2. QED
      BY <2>1, FS_EmptySet DEF Counts
  <1>5. Shy(SourceAtRail(c, w).evs)
    BY <1>1, <1>2, <1>3, <1>4 DEF SourceAtRail, Reply, Silent
  <1>6. QED
    BY <1>1, <1>5 DEF SourceReply, Silent, Reply

LEMMA ExecuteUnready ==
    ASSUME ChannelInv, CarefulInv, ~started, NEW n \in Nodes, Execute(n)
    PROVE  CarefulInv'
  <1> DEFINE w == [val EXCEPT ![n] = pending[n].val]
             replies == [i \in DOMAIN chan |-> process_node(chan[i], n, val[n], w)]
             E == Asked(replies)
  <1>1. /\ SetupOK(setup) /\ setup.type \in Type /\ DOMAIN val = Nodes
        /\ \A i \in DOMAIN chan : Counts(chan[i], val)
        /\ Parts /\ Typed(val) /\ PendingOK(pending) /\ Unready(val, pending) /\ Quiescent
    BY SetupsAssumption DEF ChannelInv, CarefulInv, SetupOK
  <1>2. /\ val' = w /\ setup' = setup /\ started' = started /\ pending[n] # NoEvent
    BY DEF Execute
  <1>3. Typed(w) /\ OnlyChanges(n, val, w)
    <2>1. pending[n].val \in Value
      BY <1>1, <1>2 DEF PendingOK, Ev
    <2>2. QED
      BY <1>1, <2>1 DEF Typed, OnlyChanges
  <1>4. PendingOK(Without(n)) /\ Unready(w, Without(n))
    BY <1>1, <1>2, WithoutOK, WithoutUnready
  <1>5. \A i \in DOMAIN chan : chan[i].stopped
    BY <1>1, <1>2 DEF Quiescent, Busy
  <1>6. CASE w = val
    <2>1. pending' = Without(n) /\ chan' = chan /\ dead' = dead
      BY <1>6 DEF Execute, Without
    <2>2. Parts'
      BY <1>1, <1>2, <2>1, CommandParts DEF Parts
    <2>3. Quiescent'
      BY <1>5, <2>1 DEF Quiescent
    <2> HIDE DEF w
    <2>4. QED
      BY <1>2, <1>3, <1>4, <2>1, <2>2, <2>3, Frame DEF CarefulInv
  <1>7. CASE w # val
    <2>1. Respond(replies, Without(n), w)
      BY <1>7 DEF Execute, Without
    <2> HIDE DEF w
    <2>2. \A i \in DOMAIN chan : SamePart(chan[i], replies[i].chan) /\ replies[i].chan.stopped
      BY <1>1, <1>5, ProcessNodeParts DEF Parts
    <2> DEFINE c == Counted(chan[1], n, val[n], w)
               S == SourceReply(c, n, w).evs
    <2>3. PICK K : /\ SinkPart(K, n, val[n], w)
                   /\ SinkEvs(K) /\ SourceEvs(S) /\ Together(E, K, S)
      BY <1>1, <1>3, NodeEvents DEF SourcePart
    <2>4. EvsOK(E)
      BY <2>3, TogetherOK
    <2>5. Shy(E)
      <3>1. K = NoEvents
        BY <1>5, <2>3 DEF SinkPart
      <3>2. Counts(c, w) /\ c.stopped
        <4>1. 1 \in DOMAIN chan /\ Object(chan[1])
          BY <1>1 DEF Parts
        <4>2. Counts(c, w)
          BY <1>1, <1>3, <4>1, CountedCounts
        <4>3. QED
          BY <1>5, <4>1, <4>2, CountedContinues DEF Continues
      <3>3. Shy(S)
        BY <1>1, <1>4, <3>2, StoppedShy
      <3> HIDE DEF S, E
      <3>4. QED
        BY <2>3, <3>1, <3>3, NoEventsEmpty DEF Together, Shy
    <2>6. pending' = flush_channel_events(Without(n), E, w)
      BY <2>1 DEF Respond
    <2> HIDE DEF E, replies
    <2>7. Parts' /\ chan' = [i \in DOMAIN chan |-> replies[i].chan]
      BY <1>1, <1>2, <2>1, <2>2, RespondParts
    <2>8. Quiescent'
      BY <2>2, <2>7 DEF Quiescent
    <2>9. PendingOK(pending') /\ Unready(w, pending')
      BY <1>4, <2>4, <2>5, <2>6, FlushOK, FlushUnready
    <2>10. QED
      BY <1>2, <1>3, <2>7, <2>8, <2>9, Frame DEF CarefulInv
  <1>8. QED
    BY <1>6, <1>7

\* What a reset asks for.
Fine(E) == EvsOK(E) /\ Shy(E)

LEMMA AlsoFine ==
    ASSUME NEW f, NEW g, Fine(f), Fine(g) PROVE Fine(Also(f, g))
  BY DEF Fine, EvsOK, Shy, Also

LEMMA ResetFine ==
    ASSUME SetupOK(setup), NEW c PROVE Fine(reset(c).evs)
  <1>1. Fine(NoEvents)
    BY NoEventsEmpty DEF Fine, EvsOK, Shy
  <1>2. ASSUME NEW n, NEW v \in Value, setup.type = "1ofN" => n = Ack PROVE Fine(Event(n, v))
    BY <1>2 DEF Fine, EvsOK, Shy, Event, Ev
  <1>3. Fine(AllRails(Neutral))
    <2>1. EvsOK(AllRails(Neutral))
      BY LogicType DEF EvsOK, AllRails, Ev
    <2>2. Shy(AllRails(Neutral))
      BY NodeNames DEF Shy, AllRails, Idle
    <2>3. QED
      BY <2>1, <2>2 DEF Fine
  <1>4. \A b : Logic(b) \in Value
    BY LogicType
  <1>5. Fine(reset_all_data_rails)
    BY <1>1, <1>3 DEF reset_all_data_rails
  <1>6. setup.type # "1ofN" => \A n, b : Fine(Event(n, Logic(b)))
    BY <1>2, <1>4
  <1>7. Fine(Event(Ack, Logic(setup.ack_init)))
    BY <1>2, <1>4
  <1>8. Fine(CASE setup.type = "1ofN" -> reset_all_data_rails
                 [] setup.type = "LEDR" -> Also(Event(1, Logic(setup.ack_active)),
                                                Event(Valid, Logic(setup.valid_sense)))
                 [] setup.type = "BD_4P" -> Also(AllRails(Neutral), ValidEvent(FALSE))
                 [] setup.type = "BD_2P" -> Also(AllRails(Neutral),
                                                 Event(Valid, Logic(setup.valid_sense))))
    <2>1. CASE setup.type = "1ofN"
      BY <1>5, <2>1
    <2>2. CASE setup.type = "LEDR"
      BY <1>6, <2>2, AlsoFine
    <2>3. CASE setup.type = "BD_4P"
      <3>1. Fine(ValidEvent(FALSE))
        BY <1>6, <2>3 DEF ValidEvent
      <3>2. Fine(Also(AllRails(Neutral), ValidEvent(FALSE)))
        BY <1>3, <3>1, AlsoFine
      <3>3. QED
        BY <2>3, <3>2
    <2>4. CASE setup.type = "BD_2P"
      <3>1. Fine(Also(AllRails(Neutral), Event(Valid, Logic(setup.valid_sense))))
        BY <1>3, <1>6, <2>4, AlsoFine
      <3>2. QED
        BY <2>4, <3>1
    <2>5. QED
      BY <2>1, <2>2, <2>3, <2>4, NodeNames DEF Type
  <1>9. QED
    BY <1>1, <1>7, <1>8, AlsoFine DEF reset, Reply

LEMMA AtRestBusy == AtRest <=> Busy(pending) = {}
  BY DEF AtRest, Busy

LEMMA ResetCareful ==
    ASSUME ChannelInv, CarefulInv, setup.careful, NEW I, Reset(I)
    PROVE  CarefulInv'
  <1> DEFINE replies == [i \in DOMAIN chan |-> IF i \in I THEN reset(chan[i])
                                               ELSE Silent(chan[i])]
             E == Asked(replies)
  <1>1. /\ SetupOK(setup) /\ Parts /\ Typed(val) /\ PendingOK(pending)
        /\ ~started => Unready(val, pending)
    BY SetupsAssumption DEF ChannelInv, CarefulInv
  <1>2. /\ I = DOMAIN chan /\ ~started
        /\ Respond(replies, pending, val) /\ UNCHANGED <<setup, val, started>>
    BY DEF Reset, Careful
  <1>3. \A i \in DOMAIN chan : replies[i] = reset(chan[i])
    BY <1>2
  <1>4. Fine(E)
    <2>1. \A i \in DOMAIN chan : Fine(replies[i].evs)
      BY <1>1, <1>3, ResetFine
    <2>2. 1 \in DOMAIN chan /\ DOMAIN replies = DOMAIN chan
      BY <1>1 DEF Parts
    <2> HIDE DEF replies
    <2>3. QED
      BY <2>1, <2>2, AlsoFine DEF Asked
  <1>5. \A i \in DOMAIN chan : SamePart(chan[i], replies[i].chan) /\ replies[i].chan.stopped
    BY <1>1, <1>3, ResetPart DEF Parts
  <1>6. pending' = flush_channel_events(pending, E, val)
    BY <1>2 DEF Respond
  <1> HIDE DEF E, replies
  <1>7. Parts' /\ chan' = [i \in DOMAIN chan |-> replies[i].chan]
    BY <1>1, <1>2, <1>5, RespondParts
  <1>8. Quiescent'
    BY <1>5, <1>7 DEF Quiescent
  <1>9. PendingOK(pending') /\ Unready(val, pending')
    BY <1>1, <1>2, <1>4, <1>6, FlushOK, FlushUnready DEF Fine
  <1>10. QED
    BY <1>1, <1>2, <1>7, <1>8, <1>9, Frame DEF CarefulInv

\* Before the first release, at rest and without an X, a channel is empty.
LEMMA UnreadyDI ==
    ASSUME SetupOK(setup), setup.type = "1ofN", NEW w, NEW p, Unready(w, p),
           \A n \in Nodes : w[n] # LOGIC_OTHER
    PROVE  DI(w, {})
  <1>1. \A n \in Nodes \ {Ack} : w[n] = Idle(n)
    BY DEF Unready
  <1>2. Ons(w) = {}
    <2>1. ASSUME NEW r \in Rails PROVE w[r] # Active
      <3>1. r \in Nodes \ {Ack} /\ r # Valid
        BY NodeNames
      <3>2. w[r] = Neutral
        BY <1>1, <3>1 DEF Idle
      <3>3. QED
        BY <3>2, LogicType
    <2>2. QED
      BY <2>1 DEF Ons, At
  <1>3. setup.valid => ~valid_active(w)
    <2> SUFFICES ASSUME setup.valid PROVE ~valid_active(w)
      OBVIOUS
    <2>1. w[Valid] = Logic(~setup.valid_sense)
      BY <1>1, NodeNames DEF Idle
    <2>2. setup.valid_sense \in BOOLEAN
      BY DEF SetupOK
    <2>3. Logic(~setup.valid_sense) # Logic(setup.valid_sense)
      BY <2>2 DEF Logic, LOGIC_LOW, LOGIC_HIGH
    <2>4. QED
      BY <2>1, <2>3 DEF valid_active
  <1>4. Wave(w, {}, 0)
    BY <1>2 DEF Wave
  <1>5. Signals(w, {}, 0)
    BY <1>2, <1>3 DEF Signals, Settled, Matched
  <1>6. QED
    BY <1>4, <1>5 DEF DI

LEMMA ReleaseCareful ==
    ASSUME ChannelInv, CarefulInv, setup.careful, NEW I, Release(I)
    PROVE  CarefulInv'
  <1> DEFINE replies == [i \in DOMAIN chan |-> IF i \in I THEN resume(chan[i], val)
                                               ELSE Silent(chan[i])]
             E == Asked(replies)
  <1>1. /\ SetupOK(setup) /\ setup.type \in Type
        /\ \A i \in DOMAIN chan : Counts(chan[i], val)
        /\ Parts /\ Typed(val) /\ PendingOK(pending)
    BY SetupsAssumption DEF ChannelInv, CarefulInv, SetupOK
  <1>2. /\ ~dead /\ AtRest /\ \A n \in Nodes : val[n] # LOGIC_OTHER
        /\ setup.type = "BD_4P" /\ valid_active(val) => \A i \in I : ~chan[i].sourcing
        /\ Respond(replies, pending, val) /\ UNCHANGED <<setup, val>> /\ started'
    BY DEF Release, Careful
  <1>3. Busy(pending) = {} /\ Levels(val)
    BY <1>1, <1>2, AtRestBusy, LogicType DEF Typed, Levels
  <1>4. Tidy(val, pending)
    BY <1>3 DEF Tidy, Levels, Busy
  <1>5. PICK K, S : /\ ReleasedSink(K) /\ ReleasedSource(S, I)
                    /\ SinkEvs(K) /\ SourceEvs(S) /\ Together(E, K, S)
    BY <1>1, ReleaseEvents
  <1>6. EvsOK(E)
    BY <1>5, TogetherOK
  <1>7. Releasing(I, E)
    <2>1. 1 \in DOMAIN chan /\ \A i \in DOMAIN chan : Object(chan[i])
      BY <1>1 DEF Parts
    <2>2. setup.type = "BD_4P" /\ valid_active(val) =>
                \A i \in I \cap DOMAIN chan : ~chan[i].sourcing
      BY <1>2
    <2> HIDE DEF E
    <2>3. QED
      BY <1>1, <1>3, <1>5, <2>1, <2>2 DEF Releasing
  <1>8. /\ Handshake(val, flush_channel_events(pending, E, val))
        /\ \A i \in DOMAIN chan : ~status_fails(chan[i], val)
    <2> HIDE DEF E
    <2>1. CASE setup.type = "1ofN"
      <3>1. DI(val, {})
        <4>1. CASE started
          BY <1>3, <2>1, <4>1 DEF CarefulInv, Handshake
        <4>2. CASE ~started
          BY <1>1, <1>2, <2>1, <4>2, UnreadyDI DEF CarefulInv
        <4>3. QED
          BY <4>1, <4>2
      <3>2. Fits(val, pending, E) /\ DI(val, Changed(E, val))
        BY <1>1, <1>7, <2>1, <3>1, DIRelease
      <3>3. Busy(pending) \cup Changed(E, val) = Changed(E, val)
        BY <1>3
      <3>4. Handshake(val, flush_channel_events(pending, E, val))
        BY <1>1, <1>4, <2>1, <3>2, <3>3, FlushHandshake
      <3>5. PICK v \in Int : Wave(val, {}, v)
        BY <3>1 DEF DI
      <3>6. \A i \in DOMAIN chan : ~status_fails(chan[i], val)
        BY <1>1, <1>3, <2>1, <3>5, WaveCode, CounterReadable
      <3>7. QED
        BY <3>4, <3>6
    <2>2. CASE setup.type # "1ofN"
      <3>1. Fits(val, pending, E) /\ Turns(val, Changed(E, val))
        BY <1>1, <1>7, <2>2, TurnRelease
      <3>2. Busy(pending) \cup Changed(E, val) = Changed(E, val)
        BY <1>3
      <3>3. Handshake(val, flush_channel_events(pending, E, val))
        BY <1>1, <1>4, <2>2, <3>1, <3>2, FlushHandshake
      <3>4. QED
        BY <1>1, <1>3, <2>2, <3>3, OtherReads
    <2>3. QED
      BY <2>1, <2>2
  <1>9. \A i \in DOMAIN chan : SamePart(chan[i], replies[i].chan) /\ ~replies[i].chan.abort
    <2> SUFFICES ASSUME NEW i \in DOMAIN chan
                 PROVE  SamePart(chan[i], replies[i].chan) /\ ~replies[i].chan.abort
      OBVIOUS
    <2>1. Object(chan[i]) /\ ~chan[i].abort
      BY <1>1, <1>2 DEF Parts
    <2>2. CASE i \in I
      BY <1>1, <1>8, <2>1, <2>2, ResumeParts
    <2>3. CASE i \notin I
      BY <2>1, <2>3, SilentContinues DEF Continues
    <2>4. QED
      BY <2>2, <2>3
  <1>10. pending' = flush_channel_events(pending, E, val)
    BY <1>2 DEF Respond
  <1> HIDE DEF E, replies
  <1>11. Parts'
    BY <1>1, <1>2, <1>9, RespondParts
  <1>12. ~dead'
    BY <1>2, <1>9 DEF Respond
  <1>13. PendingOK(pending')
    BY <1>1, <1>6, <1>10, FlushOK
  <1>14. QED
    BY <1>1, <1>2, <1>8, <1>10, <1>11, <1>12, <1>13, Frame DEF CarefulInv

\* The commands that change the objects only.
LEMMA CommandCareful ==
    ASSUME CarefulInv, UNCHANGED <<setup, val, pending, started, dead>>,
           DOMAIN chan' = DOMAIN chan,
           \A i \in DOMAIN chan : /\ Object(chan'[i])
                                  /\ chan'[i].sourcing = chan[i].sourcing
                                  /\ chan'[i].sinking = chan[i].sinking
                                  /\ chan'[i].abort = chan[i].abort
                                  /\ chan[i].stopped => chan'[i].stopped
    PROVE  CarefulInv'
  <1>1. Parts'
    BY CommandParts DEF CarefulInv
  <1>2. Quiescent => Quiescent'
    BY Frame DEF Quiescent
  <1>3. QED
    BY <1>1, <1>2, Frame DEF CarefulInv

LEMMA UserCareful ==
    ASSUME ChannelInv, CarefulInv, setup.careful, User
    PROVE  CarefulInv'
  <1>1. \A i \in DOMAIN chan : Object(chan[i])
    BY DEF CarefulInv, Parts
  <1>2. ASSUME NEW i \in DOMAIN chan, Stop(i) PROVE CarefulInv'
    <2>1. /\ UNCHANGED <<setup, val, pending, started, dead>> /\ DOMAIN chan' = DOMAIN chan
          /\ \A j \in DOMAIN chan : j # i => chan'[j] = chan[j]
          /\ chan'[i] = [chan[i] EXCEPT !.stopped = TRUE]
      BY <1>2 DEF Stop
    <2>2. /\ Object(chan'[i]) /\ chan'[i].sourcing = chan[i].sourcing
          /\ chan'[i].sinking = chan[i].sinking /\ chan'[i].abort = chan[i].abort
          /\ chan'[i].stopped
      BY <1>1, <2>1 DEF Object
    <2>3. QED
      BY <1>1, <2>1, <2>2, CommandCareful
  <1>3. ASSUME NEW b, IgnoreAll(b) PROVE CarefulInv'
    <2>1. /\ UNCHANGED <<setup, val, pending, started, dead>> /\ DOMAIN chan' = DOMAIN chan
          /\ \A i \in DOMAIN chan : chan'[i] = [chan[i] EXCEPT !.ignored = b]
      BY <1>3 DEF IgnoreAll
    <2>2. ASSUME NEW i \in DOMAIN chan
          PROVE  /\ Object(chan'[i]) /\ chan'[i].sourcing = chan[i].sourcing
                 /\ chan'[i].sinking = chan[i].sinking /\ chan'[i].abort = chan[i].abort
                 /\ chan'[i].stopped = chan[i].stopped
      <3>1. chan'[i] = [chan[i] EXCEPT !.ignored = b]
        BY <2>1
      <3>2. QED
        BY <1>1, <3>1 DEF Object
    <2>3. QED
      BY <2>1, <2>2, CommandCareful
  <1>4. ~Initialize /\ \A i \in DOMAIN chan : ~Refill(i)
    BY DEF Initialize, Refill, Careful
  <1>5. QED
    BY <1>2, <1>3, <1>4, ResetCareful, ReleaseCareful DEF User

LEMMA InitCareful == Init => CarefulInv
  <1> SUFFICES ASSUME Init PROVE CarefulInv
    OBVIOUS
  <1>1. SetupOK(setup)
    BY SetupsAssumption DEF Init
  <1>2. ASSUME NEW a \in BOOLEAN, NEW b PROVE
            /\ Object(Channel(a, b)) /\ Channel(a, b).sourcing = a /\ Channel(a, b).sinking = b
            /\ ~Channel(a, b).abort
    <2>1. setup.stream \in Seq(Int) /\ setup.expected \in Seq(Int)
      <3>1. setup.stream \in Seq(Nat) /\ setup.expected \in Seq(Nat \cup {DontCare})
        BY <1>1 DEF SetupOK
      <3>2. ASSUME NEW T, T \subseteq Int, NEW s \in Seq(T) PROVE s \in Seq(Int)
        <4>1. Len(s) \in Nat /\ s \in [1 .. Len(s) -> T]
          OBVIOUS
        <4>2. s \in [1 .. Len(s) -> Int]
          BY <3>2, <4>1
        <4>3. QED
          BY <4>1, <4>2
      <3>3. Nat \subseteq Int /\ Nat \cup {DontCare} \subseteq Int
        BY DEF DontCare
      <3>4. QED
        BY <3>1, <3>2, <3>3
    <2>2. QED
      BY <2>1 DEF Channel, Object
  <1>3. Parts
    <2>1. CASE setup.split
      <3>1. chan = <<Channel(TRUE, FALSE), Channel(FALSE, setup.ack)>>
        BY <2>1 DEF Init
      <3>2. DOMAIN chan = {1, 2} /\ chan[1] = Channel(TRUE, FALSE)
            /\ chan[2] = Channel(FALSE, setup.ack)
        BY <3>1
      <3>3. /\ Object(chan[1]) /\ ~chan[1].sinking /\ ~chan[1].abort
            /\ Object(chan[2]) /\ ~chan[2].sourcing /\ ~chan[2].abort
            /\ chan[2].sinking = setup.ack
        BY <1>2, <3>2
      <3>4. QED
        BY <2>1, <3>2, <3>3 DEF Parts
    <2>2. CASE ~setup.split
      <3>1. chan = <<Channel(TRUE, setup.ack)>>
        BY <2>2 DEF Init
      <3>2. DOMAIN chan = {1} /\ chan[1] = Channel(TRUE, setup.ack)
        BY <3>1
      <3>3. Object(chan[1]) /\ ~chan[1].abort /\ chan[1].sinking = setup.ack
        BY <1>2, <3>2
      <3>4. QED
        BY <2>2, <3>2, <3>3 DEF Parts
    <2>3. QED
      BY <2>1, <2>2
  <1>4. Typed(val) /\ PendingOK(pending)
    BY LogicType DEF Init, Typed, PendingOK
  <1>5. ~started /\ Unready(val, pending) /\ Quiescent
    <2>1. Busy(pending) = {}
      BY DEF Init, Busy
    <2>2. Unready(val, pending)
      BY DEF Init, Unready
    <2>3. QED
      BY <2>1, <2>2 DEF Init, Quiescent
  <1>6. QED
    BY <1>3, <1>4, <1>5 DEF CarefulInv

LEMMA CarefulClean ==
    ASSUME setup.careful => CarefulInv PROVE HandshakeClean
  <1> SUFFICES ASSUME CarefulInv, started
               PROVE  ~dead /\ \A n \in Nodes : LOGIC_OTHER \notin {val[n], pending[n].val}
    BY DEF HandshakeClean
  <1>1. ~dead /\ Tidy(val, pending)
    BY DEF CarefulInv, Handshake
  <1>2. ASSUME NEW n \in Nodes PROVE LOGIC_OTHER \notin {val[n], pending[n].val}
    <2>1. val[n] \in {0, 1}
      BY <1>1 DEF Tidy
    <2>2. pending[n].val \in {0, 1, 3}
      <3>1. CASE pending[n] = NoEvent
        BY <3>1 DEF NoEvent
      <3>2. CASE pending[n] # NoEvent
        <4>1. pending[n] = [val |-> 1 - val[n], after |-> Behind(pending, n)]
          BY <1>1, <3>2 DEF Tidy
        <4>2. pending[n].val = 1 - val[n]
          BY <4>1
        <4>3. QED
          BY <2>1, <4>2
      <3>3. QED
        BY <3>1, <3>2
    <2>3. QED
      BY <2>1, <2>2, LogicType
  <1>3. QED
    BY <1>1, <1>2

\* Once a careful user has released the channels, process_node never asks for
\* a change of a node that has one pending, so that flush_channel_events makes
\* no node X, and the assertions of data_rails_value and summarize_status
\* hold: for every type, size and encoding of the channel, one object or two,
\* every stream of values, and every order of the events and of later stops
\* and releases.
THEOREM HandshakeAlwaysClean == Spec => []HandshakeClean
  <1> DEFINE Inv == ChannelInv /\ (setup.careful => CarefulInv)
  <1>1. Init => Inv
    BY ChannelInit, InitCareful
  <1>2. Inv /\ [Next]_vars => Inv'
    <2> SUFFICES ASSUME Inv, [Next]_vars PROVE Inv'
      OBVIOUS
    <2>1. ChannelInv'
      BY ChannelNext
    <2>2. setup' = setup
      BY SetupStays
    <2>3. ASSUME setup.careful PROVE CarefulInv'
      <3>1. CASE User
        BY <2>3, <3>1, UserCareful
      <3>2. ASSUME NEW n \in Nodes, Execute(n) PROVE CarefulInv'
        BY <2>3, <3>2, ExecuteStarted, ExecuteUnready
      <3>3. CASE UNCHANGED vars
        <4>1. \A i \in DOMAIN chan : Object(chan[i])
          BY <2>3 DEF CarefulInv, Parts
        <4>2. QED
          BY <2>3, <3>3, <4>1, CommandCareful DEF vars
      <3>4. QED
        BY <3>1, <3>2, <3>3 DEF Next
    <2>4. QED
      BY <2>1, <2>2, <2>3
  <1>3. Inv => HandshakeClean
    BY CarefulClean
  <1>4. QED
    BY <1>1, <1>2, <1>3, PTL DEF Spec
=============================================================================
