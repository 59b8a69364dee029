-------------------------- MODULE PrsimEngineProofs --------------------------
(***************************************************************************)
(* The evaluation engine implements the event machinery: every step of     *)
(* Prsim is a step of PrsimEvents or invisible to it, for every circuit,   *)
(* every session and every mode.  The argument needs what holds of the     *)
(* event machinery in every session, also in those that skip vacuous       *)
(* events and leave deallocators behind: that is the first part.           *)
(***************************************************************************)
EXTENDS Prsim, PrsimEventsProofs, FiniteSetTheorems

-----------------------------------------------------------------------------
(* The event machinery in every session.                                     *)

\* An event is in use exactly when it has a placeholder or a deallocator.
UsedIsKnown == \A i \in EventId : InUse(i) <=> i \in Evs(queue) \cup Evs(held)

\* A deallocator clears the node its event is for.
HeldIsFor == \A j \in DOMAIN held : pool[held[j].ev].node = held[j].node

Structures ==
    /\ QTypeOK
    /\ held \in Seq(Holder)
    /\ Unique(queue) /\ Unique(held)
    /\ Evs(queue) \cap Evs(held) = {}
    /\ UsedIsKnown
    /\ BackToEvent
    /\ HeldIsFor

\* The open deallocators are gone when step has returned.
Sound == Structures /\ StepTypeOK /\ (phase = "idle" => held = <<>>)

LEMMA NullEventType == NullEvent \in Event /\ NullEvent.node = 0
  BY QueueAssumption DEF NullEvent, Event, Value, LOGIC_OTHER

LEMMA HeldFacts ==
    ASSUME held \in Seq(Holder)
    PROVE  /\ Len(held) \in Nat /\ DOMAIN held = 1..Len(held)
           /\ \A j \in 1..Len(held) : held[j].ev \in EventId /\ held[j].node \in Node
  <1>1. Len(held) \in Nat /\ DOMAIN held = 1..Len(held)
    BY LenProperties
  <1>2. \A j \in 1..Len(held) : held[j] \in Holder
    BY ElementOfSeq
  <1>3. QED
    BY <1>1, <1>2 DEF Holder

LEMMA NewEventType ==
    ASSUME NEW n \in Node, NEW v \in Value, NEW r \in Rule \cup {0},
           NEW w \in Strength, NEW f \in BOOLEAN
    PROVE  NewEvent(n, v, r, w, f) \in Event /\ NewEvent(n, v, r, w, f).node = n
           /\ ~NewEvent(n, v, r, w, f).killed
  BY DEF NewEvent, Event

\* Killing the pending event of a node.
LEMMA KillSound ==
    ASSUME Structures, NEW n \in Node, KillEvent(n), UNCHANGED held
    PROVE  Structures'
  <1>1. /\ pool' \in [EventId -> Event]
        /\ \A i \in EventId : /\ pool'[i].node = pool[i].node
                              /\ i # pending[n] => pool'[i] = pool[i]
    BY PoolAfterKillFacts DEF KillEvent, Structures
  <1>2. QTypeOK'
    BY <1>1 DEF KillEvent, Structures, QTypeOK
  <1>3. UsedIsKnown'
    BY <1>1 DEF KillEvent, Structures, UsedIsKnown, InUse, Evs
  <1>4. BackToEvent'
    <2> SUFFICES ASSUME NEW m \in Node, pending'[m] # 0
                 PROVE  /\ pool'[pending'[m]].node = m
                        /\ pool'[pending'[m]].node # 0 /\ ~pool'[pending'[m]].killed
      BY DEF BackToEvent, Live, InUse
    <2>1. m # n /\ pending'[m] = pending[m]
      BY DEF KillEvent, Structures, QTypeOK
    <2>2. pending[m] \in EventId /\ Live(pending[m]) /\ pool[pending[m]].node = m
      BY <2>1 DEF Structures, QTypeOK, BackToEvent
    <2>3. pending[m] # pending[n]
      BY <2>1, <2>2, QueueAssumption DEF Structures, QTypeOK, BackToEvent, EventId
    <2>4. QED
      BY <2>1, <2>2, <2>3, <1>1 DEF Live, InUse
  <1>5. HeldIsFor'
    BY <1>1, HeldFacts DEF Structures, HeldIsFor
  <1>6. queue' = queue /\ held' = held
    BY DEF KillEvent
  <1>7. QED
    BY <1>2, <1>3, <1>4, <1>5, <1>6 DEF Structures

\* An event is allocated for a node, whose former event is killed.
LEMMA AllocateSound ==
    ASSUME Structures, UNCHANGED held,
           NEW n \in Node, NEW e \in Event, e.node = n, ~e.killed,
           NEW i \in EventId, Fresh(i), NEW t \in Time,
           NEW k \in 1..(Len(queue) + 1),
           pool' = [PoolAfterKill(n) EXCEPT ![i] = e],
           pending' = [pending EXCEPT ![n] = i],
           queue' = InsertAt(queue, k, [time |-> t, ev |-> i])
    PROVE  Structures'
  <1>1. [time |-> t, ev |-> i] \in Placeholder /\ [time |-> t, ev |-> i].ev = i
    BY DEF Placeholder
  <1>2. i \notin Evs(queue) /\ i \notin Evs(held) /\ n # 0
    BY QueueAssumption DEF Structures, UsedIsKnown, Fresh
  <1>3. /\ queue' \in Seq(Placeholder) /\ Unique(queue')
        /\ Evs(queue') = Evs(queue) \cup {i}
    BY <1>1, <1>2, InsertAtFacts DEF Structures, QTypeOK
  <1>4. /\ PoolAfterKill(n) \in [EventId -> Event]
        /\ \A j \in EventId : /\ PoolAfterKill(n)[j].node = pool[j].node
                              /\ j # pending[n] => PoolAfterKill(n)[j] = pool[j]
    BY PoolAfterKillFacts DEF Structures
  <1>5. /\ pool' \in [EventId -> Event]
        /\ pool'[i] = e
        /\ \A j \in EventId : j # i => /\ pool'[j].node = pool[j].node
                                       /\ j # pending[n] => pool'[j] = pool[j]
    BY <1>4
  <1>6. QTypeOK'
    BY <1>3, <1>5 DEF Structures, QTypeOK
  <1>7. UsedIsKnown'
    <2> SUFFICES ASSUME NEW j \in EventId
                 PROVE  pool'[j].node # 0 <=> j \in Evs(queue') \cup Evs(held')
      BY DEF UsedIsKnown, InUse
    <2>1. Evs(held') = Evs(held)
      OBVIOUS
    <2>2. CASE j = i
      BY <2>2, <1>2, <1>3, <1>5
    <2>3. CASE j # i
      BY <2>1, <2>3, <1>3, <1>5 DEF Structures, UsedIsKnown, InUse
    <2>4. QED
      BY <2>2, <2>3
  <1>8. BackToEvent'
    <2> SUFFICES ASSUME NEW m \in Node, pending'[m] # 0
                 PROVE  /\ pool'[pending'[m]].node = m
                        /\ pool'[pending'[m]].node # 0 /\ ~pool'[pending'[m]].killed
      BY DEF BackToEvent, Live, InUse
    <2>1. CASE m = n
      BY <2>1, <1>2, <1>5 DEF Structures, QTypeOK
    <2>2. CASE m # n
      <3>1. pending'[m] = pending[m]
        BY <2>2 DEF Structures, QTypeOK
      <3>2. /\ pending[m] \in EventId /\ pool[pending[m]].node = m
            /\ pool[pending[m]].node # 0 /\ ~pool[pending[m]].killed
        BY <3>1 DEF Structures, QTypeOK, BackToEvent, Live, InUse
      <3>3. pending[m] # i
        BY <3>2 DEF Fresh, InUse
      <3>4. pending[m] # pending[n]
        BY <2>2, <3>1, <3>2, QueueAssumption DEF Structures, QTypeOK, BackToEvent, EventId
      <3>5. QED
        BY <3>1, <3>2, <3>3, <3>4, <1>5
    <2>3. QED
      BY <2>1, <2>2
  <1>9. HeldIsFor'
    <2>1. \A j \in DOMAIN held : held[j].ev \in EventId /\ held[j].ev \in Evs(held)
      BY HeldFacts DEF Structures, Evs
    <2>2. QED
      BY <2>1, <1>2, <1>5 DEF Structures, HeldIsFor
  <1>10. QED
    BY <1>2, <1>3, <1>6, <1>7, <1>8, <1>9 DEF Structures

LEMMA ScheduleSound ==
    ASSUME Structures, UNCHANGED held,
           NEW n \in Node, NEW e \in Event, e.node = n, ~e.killed,
           NEW t \in Nat, Schedule(n, e, t)
    PROVE  Structures'
  <1>1. t \in Time
    BY QueueAssumption DEF Schedule, Time
  <1>2. PICK i \in EventId :
            /\ Fresh(i)
            /\ pool' = [PoolAfterKill(n) EXCEPT ![i] = e]
            /\ pending' = [pending EXCEPT ![n] = i]
            /\ Enqueue(queue, i, t)
    BY DEF Schedule
  <1>3. PICK k \in 1..(Len(queue) + 1) :
            queue' = InsertAt(queue, k, [time |-> t, ev |-> i])
    BY <1>2 DEF Enqueue
  <1>4. QED
    BY <1>1, <1>2, <1>3, AllocateSound

\* The pending event is rewritten.
LEMMA RewriteSound ==
    ASSUME Structures, UNCHANGED held, NEW n \in Node, pending[n] # 0,
           NEW e \in Event, e.node = n, ~e.killed, Rewrite(n, e)
    PROVE  Structures'
  <1>1. /\ pending[n] \in EventId /\ Live(pending[n]) /\ pool[pending[n]].node = n
    BY DEF Structures, QTypeOK, BackToEvent
  <1>2. /\ pool' \in [EventId -> Event]
        /\ \A i \in EventId : /\ pool'[i].node = pool[i].node
                              /\ ~pool[i].killed => ~pool'[i].killed
    <2>1. pool' \in [EventId -> Event]
      BY <1>1 DEF Rewrite, Structures, QTypeOK
    <2>2. \A i \in EventId : pool'[i] = IF i = pending[n] THEN e ELSE pool[i]
      BY DEF Rewrite, Structures, QTypeOK
    <2>3. QED
      BY <1>1, <2>1, <2>2
  <1>3. QTypeOK' /\ UsedIsKnown'
    BY <1>2 DEF Rewrite, Structures, QTypeOK, UsedIsKnown, InUse, Evs
  <1>4. BackToEvent'
    BY <1>2 DEF Rewrite, Structures, QTypeOK, BackToEvent, Live, InUse
  <1>5. HeldIsFor'
    BY <1>2, HeldFacts DEF Structures, HeldIsFor
  <1>6. queue' = queue /\ held' = held
    BY DEF Rewrite
  <1>7. QED
    BY <1>3, <1>4, <1>5, <1>6 DEF Structures

\* The events of S are deallocated: their placeholders and deallocators are
\* gone and no node refers to them any more.
LEMMA FreeSound ==
    ASSUME Structures, NEW S \in SUBSET EventId,
           queue' \in Seq(Placeholder), Unique(queue'),
           held' \in Seq(Holder), Unique(held'),
           Evs(queue') \cap Evs(held') = {},
           Evs(queue') \cup Evs(held') = (Evs(queue) \cup Evs(held)) \ S,
           \A j \in DOMAIN held' : pool[held'[j].ev].node = held'[j].node,
           pool' = PoolWithout(S),
           pending' \in [Node -> EventId \cup {0}],
           \A n \in Node : pending'[n] # 0 => pending'[n] = pending[n] /\ pending[n] \notin S
    PROVE  Structures'
  <1>1. \A i \in EventId : pool'[i] = IF i \in S THEN NullEvent ELSE pool[i]
    BY DEF PoolWithout
  <1>2. QTypeOK'
    <2>1. pool' \in [EventId -> Event]
      BY NullEventType DEF PoolWithout, Structures, QTypeOK
    <2>2. QED
      BY <2>1 DEF QTypeOK
  <1>3. UsedIsKnown'
    BY <1>1, NullEventType DEF Structures, UsedIsKnown, InUse
  <1>4. BackToEvent'
    <2> SUFFICES ASSUME NEW m \in Node, pending'[m] # 0
                 PROVE  /\ pool'[pending'[m]].node = m
                        /\ pool'[pending'[m]].node # 0 /\ ~pool'[pending'[m]].killed
      BY DEF BackToEvent, Live, InUse
    <2>1. pending'[m] = pending[m] /\ pending[m] \in EventId \ S
      BY DEF Structures, QTypeOK
    <2>2. QED
      BY <2>1, <1>1 DEF Structures, BackToEvent, Live, InUse
  <1>5. HeldIsFor'
    <2> SUFFICES ASSUME NEW j \in DOMAIN held' PROVE pool'[held'[j].ev].node = held'[j].node
      BY DEF HeldIsFor
    <2>1. held'[j].ev \in Evs(held')
      BY DEF Evs
    <2>2. held'[j].ev \in EventId
      <3>1. held'[j] \in Holder
        BY ElementOfSeq, LenProperties
      <3>2. QED
        BY <3>1 DEF Holder
    <2>3. QED
      BY <2>1, <2>2, <1>1
  <1>6. QED
    BY <1>2, <1>3, <1>4, <1>5 DEF Structures

\* The placeholder of the first live event and those before it.
LEMMA FrontFacts ==
    ASSUME Structures, NEW k \in DOMAIN queue, FirstLive(k)
    PROVE  /\ Len(queue) \in Nat /\ k \in 1..Len(queue)
           /\ queue[k].ev \in EventId /\ queue[k].time \in Time
           /\ queue[k].ev \in Evs(queue)
           /\ pool[queue[k].ev] \in Event /\ ~pool[queue[k].ev].killed
           /\ pool[queue[k].ev].node \in Node
           /\ QueuedUpTo(k) \subseteq EventId
           /\ QueuedUpTo(k) \subseteq Evs(queue)
           /\ QueuedUpTo(k) = QueuedUpTo(k - 1) \cup {queue[k].ev}
           /\ queue[k].ev \notin QueuedUpTo(k - 1)
           /\ \A n \in Node : pending[n] \notin QueuedUpTo(k - 1)
           /\ \A n \in Node : pending[n] = queue[k].ev => n = pool[queue[k].ev].node
           /\ DropFirst(queue, k) \in Seq(Placeholder)
           /\ Unique(DropFirst(queue, k))
           /\ Evs(DropFirst(queue, k)) = Evs(queue) \ QueuedUpTo(k)
  <1> USE QueueAssumption
  <1>1. /\ Len(queue) \in Nat /\ DOMAIN queue = 1..Len(queue)
        /\ \A j \in 1..Len(queue) : queue[j].ev \in EventId /\ queue[j].time \in Time
    BY QueueFacts DEF Structures, QTypeOK
  <1>2. k \in 1..Len(queue) /\ queue[k].ev \in Evs(queue)
    BY <1>1 DEF Evs
  <1>3. pool[queue[k].ev] \in Event /\ pool[queue[k].ev].node \in Node
    BY <1>1, <1>2 DEF Structures, QTypeOK, UsedIsKnown, InUse, Event
  <1>4. QueuedUpTo(k) = QueuedUpTo(k - 1) \cup {queue[k].ev}
    <2>1. 1..k = 1..(k - 1) \cup {k}
      BY <1>1, <1>2
    <2>2. QED
      BY <2>1 DEF QueuedUpTo
  <1>5. QueuedUpTo(k) \subseteq EventId /\ QueuedUpTo(k) \subseteq Evs(queue)
    BY <1>1, <1>2 DEF QueuedUpTo, Evs
  <1>6. queue[k].ev \notin QueuedUpTo(k - 1)
    BY <1>1, <1>2 DEF QueuedUpTo, Structures, Unique
  <1>7. ASSUME NEW n \in Node, pending[n] \in QueuedUpTo(k - 1) PROVE FALSE
    <2>1. PICK j \in 1..(k - 1) : pending[n] = queue[j].ev
      BY <1>7 DEF QueuedUpTo
    <2>2. pool[pending[n]].killed
      BY <2>1 DEF FirstLive
    <2>3. pending[n] \in EventId
      BY <2>1, <1>1, <1>2
    <2>4. QED
      BY <2>2, <2>3 DEF Structures, BackToEvent, Live, EventId
  <1>8. \A n \in Node : pending[n] = queue[k].ev => n = pool[queue[k].ev].node
    BY <1>1, <1>2 DEF Structures, BackToEvent, EventId
  <1>9. k \in 0..Len(queue)
    BY <1>1, <1>2
  <1>10. /\ DropFirst(queue, k) \in Seq(Placeholder)
         /\ Unique(DropFirst(queue, k))
         /\ Evs(DropFirst(queue, k)) = Evs(queue) \ QueuedUpTo(k)
    BY <1>9, DropFirstFacts DEF Structures, QTypeOK, QueuedUpTo
  <1>11. QED
    BY <1>1, <1>2, <1>3, <1>4, <1>5, <1>6, <1>7, <1>8, <1>10 DEF FirstLive

\* The first live event is executed.
LEMMA SettleSound ==
    ASSUME Structures, NEW k \in DOMAIN queue, FirstLive(k), Settle(k), UNCHANGED held
    PROVE  Structures'
  <1> DEFINE n == pool[queue[k].ev].node
  <1>1. /\ queue' \in Seq(Placeholder) /\ Unique(queue')
        /\ Evs(queue') = Evs(queue) \ QueuedUpTo(k)
    BY FrontFacts DEF Settle
  <1>2. QueuedUpTo(k) \subseteq Evs(queue) /\ QueuedUpTo(k) \in SUBSET EventId
    BY FrontFacts
  <1>3. pending' = [pending EXCEPT ![n] = 0] /\ n \in Node
    BY FrontFacts DEF Settle
  <1>4. pending' \in [Node -> EventId \cup {0}]
    BY <1>3 DEF Structures, QTypeOK
  <1>5. ASSUME NEW m \in Node, pending'[m] # 0
        PROVE  pending'[m] = pending[m] /\ pending[m] \notin QueuedUpTo(k)
    <2>1. m # n /\ pending'[m] = pending[m]
      BY <1>3, <1>5 DEF Structures, QTypeOK
    <2>2. QED
      BY <2>1, FrontFacts
  <1>6. Evs(queue') \cup Evs(held') = (Evs(queue) \cup Evs(held)) \ QueuedUpTo(k)
    BY <1>1, <1>2 DEF Structures
  <1>7. /\ held' \in Seq(Holder) /\ Unique(held') /\ Evs(queue') \cap Evs(held') = {}
        /\ \A j \in DOMAIN held' : pool[held'[j].ev].node = held'[j].node
    BY <1>1 DEF Structures, HeldIsFor
  <1>8. pool' = PoolWithout(QueuedUpTo(k))
    BY DEF Settle
  <1> HIDE DEF n
  <1>9. QED
    BY <1>1, <1>2, <1>4, <1>5, <1>6, <1>7, <1>8, FreeSound

\* A vacuous event is skipped: it loses its placeholder and gets a deallocator.
LEMMA SkipSound ==
    ASSUME Structures, NEW k \in DOMAIN queue, FirstLive(k), UNCHANGED pending,
           queue' = DropFirst(queue, k),
           pool' = PoolWithout(QueuedUpTo(k - 1)),
           held' = Append(held, [node |-> pool[queue[k].ev].node, ev |-> queue[k].ev])
    PROVE  Structures'
  <1> DEFINE i == queue[k].ev
             h == [node |-> pool[i].node, ev |-> i]
             S == QueuedUpTo(k - 1)
  <1>1. /\ i \in EventId /\ i \in Evs(queue) /\ pool[i].node \in Node
        /\ QueuedUpTo(k) = S \cup {i} /\ i \notin S
        /\ S \subseteq Evs(queue) /\ S \in SUBSET EventId
        /\ \A n \in Node : pending[n] \notin S
    BY FrontFacts
  <1>2. /\ queue' \in Seq(Placeholder) /\ Unique(queue')
        /\ Evs(queue') = Evs(queue) \ QueuedUpTo(k)
    BY FrontFacts
  <1>3. h \in Holder /\ h.ev = i /\ h.node = pool[i].node
    BY <1>1 DEF Holder
  <1>4. held' = Append(held, h)
    OBVIOUS
  <1>5. /\ Len(held) \in Nat /\ DOMAIN held = 1..Len(held)
        /\ held \in Seq(Holder)
    BY HeldFacts DEF Structures
  <1> HIDE DEF h
  <1>6. /\ held' \in Seq(Holder) /\ Len(held') = Len(held) + 1
        /\ \A j \in 1..Len(held) : held'[j] = held[j]
        /\ held'[Len(held) + 1] = h
    BY <1>3, <1>4, <1>5, AppendProperties
  <1>7. DOMAIN held' = 1..(Len(held) + 1)
    BY <1>6, LenProperties
  <1>8. \A j \in DOMAIN held' : \/ j \in DOMAIN held /\ held'[j] = held[j]
                                \/ j = Len(held) + 1 /\ held'[j] = h
    BY <1>5, <1>6, <1>7
  <1>9. DOMAIN held \subseteq DOMAIN held' /\ Len(held) + 1 \in DOMAIN held'
    BY <1>5, <1>7
  <1>10. Evs(held') = Evs(held) \cup {i}
    BY <1>3, <1>5, <1>6, <1>8, <1>9 DEF Evs
  <1>11. i \notin Evs(held)
    BY <1>1 DEF Structures
  <1>12. Unique(held')
    <2> SUFFICES ASSUME NEW j \in DOMAIN held', NEW l \in DOMAIN held',
                        held'[j].ev = held'[l].ev
                 PROVE  j = l
      BY DEF Unique
    <2>1. \A m \in DOMAIN held : held[m].ev # i
      BY <1>11 DEF Evs
    <2>2. QED
      BY <2>1, <1>3, <1>8 DEF Structures, Unique
  <1>13. \A j \in DOMAIN held' : pool[held'[j].ev].node = held'[j].node
    BY <1>3, <1>8 DEF Structures, HeldIsFor
  <1>14. /\ Evs(queue') \cap Evs(held') = {}
         /\ Evs(queue') \cup Evs(held') = (Evs(queue) \cup Evs(held)) \ S
    BY <1>1, <1>2, <1>10, <1>11 DEF Structures
  <1>15. pending' \in [Node -> EventId \cup {0}]
    BY DEF Structures, QTypeOK
  <1> HIDE DEF i, S
  <1>16. pool' = PoolWithout(S)
    BY DEF S
  <1>17. QED
    BY <1>1, <1>2, <1>6, <1>12, <1>13, <1>14, <1>15, <1>16, FreeSound

\* The event is put back behind the others of its time.
LEMMA RequeueSound ==
    ASSUME Structures, NEW k \in DOMAIN queue, FirstLive(k), UNCHANGED <<pending, held>>,
           Enqueue(DropFirst(queue, k), queue[k].ev, queue[k].time),
           pool' = PoolWithout(QueuedUpTo(k - 1))
    PROVE  Structures'
  <1> DEFINE q == DropFirst(queue, k)
             p == [time |-> queue[k].time, ev |-> queue[k].ev]
             S == QueuedUpTo(k - 1)
  <1>1. /\ p \in Placeholder /\ p.ev = queue[k].ev /\ p.ev \in Evs(queue)
        /\ QueuedUpTo(k) = S \cup {p.ev} /\ p.ev \notin S
        /\ S \subseteq Evs(queue) /\ S \in SUBSET EventId
        /\ \A n \in Node : pending[n] \notin S
    BY FrontFacts DEF Placeholder
  <1>2. q \in Seq(Placeholder) /\ Unique(q) /\ Evs(q) = Evs(queue) \ QueuedUpTo(k)
    BY FrontFacts
  <1>3. PICK l \in 1..(Len(q) + 1) : queue' = InsertAt(q, l, p)
    BY DEF Enqueue
  <1>4. p.ev \notin Evs(q)
    BY <1>1, <1>2
  <1> HIDE DEF q, p
  <1>5. queue' \in Seq(Placeholder) /\ Unique(queue') /\ Evs(queue') = Evs(q) \cup {p.ev}
    BY <1>1, <1>2, <1>3, <1>4, InsertAtFacts
  <1>6. Evs(queue') = Evs(queue) \ S
    BY <1>1, <1>2, <1>5
  <1>7. /\ Evs(queue') \cap Evs(held') = {}
        /\ Evs(queue') \cup Evs(held') = (Evs(queue) \cup Evs(held)) \ S
        /\ held' \in Seq(Holder) /\ Unique(held')
        /\ \A j \in DOMAIN held' : pool[held'[j].ev].node = held'[j].node
        /\ pending' \in [Node -> EventId \cup {0}]
    BY <1>1, <1>6 DEF Structures, HeldIsFor, QTypeOK
  <1> HIDE DEF S
  <1>8. pool' = PoolWithout(S)
    BY DEF S
  <1>9. QED
    BY <1>1, <1>5, <1>7, <1>8, FreeSound

\* The whole queue is emptied, and no node refers to what was in it.
LEMMA EmptySound ==
    ASSUME Structures, queue' = <<>>, pool' = PoolWithout(QueuedUpTo(Len(queue))),
           pending' \in [Node -> EventId \cup {0}], UNCHANGED held,
           \A n \in Node : pending'[n] # 0 =>
                pending'[n] = pending[n] /\ pending[n] \notin Evs(queue)
    PROVE  Structures'
  <1>1. /\ Len(queue) \in Nat /\ DOMAIN queue = 1..Len(queue)
        /\ \A j \in 1..Len(queue) : queue[j].ev \in EventId
    BY QueueFacts DEF Structures, QTypeOK
  <1>2. QueuedUpTo(Len(queue)) = Evs(queue) /\ Evs(queue) \in SUBSET EventId
    BY <1>1 DEF QueuedUpTo, Evs
  <1>3. queue' \in Seq(Placeholder) /\ DOMAIN queue' = {}
    BY EmptySeq
  <1>4. Unique(queue') /\ Evs(queue') = {}
    BY <1>3 DEF Unique, Evs
  <1>5. /\ Evs(queue') \cap Evs(held') = {}
        /\ Evs(queue') \cup Evs(held') = (Evs(queue) \cup Evs(held)) \ Evs(queue)
        /\ held' \in Seq(Holder) /\ Unique(held')
        /\ \A j \in DOMAIN held' : pool[held'[j].ev].node = held'[j].node
    BY <1>4 DEF Structures, HeldIsFor
  <1>6. pool' = PoolWithout(Evs(queue))
    BY <1>2
  <1>7. QED
    BY <1>2, <1>3, <1>4, <1>5, <1>6, FreeSound

\* A live event at the front is replaced by a copy with a later placeholder.
LEMMA MoveSound ==
    ASSUME Structures, NEW k \in DOMAIN queue, FirstLive(k), UNCHANGED held,
           NEW c \in EventId, Fresh(c), NEW t \in Time,
           pool' = [j \in EventId |->
                       IF j = c THEN pool[queue[k].ev]
                       ELSE IF j \in QueuedUpTo(k) THEN NullEvent
                       ELSE pool[j]],
           pending' = [pending EXCEPT ![pool[queue[k].ev].node] = c],
           Enqueue(DropFirst(queue, k), c, t)
    PROVE  Structures'
  <1> USE QueueAssumption
  <1> DEFINE q == DropFirst(queue, k)
             p == [time |-> t, ev |-> c]
             e == pool[queue[k].ev]
             S == QueuedUpTo(k)
  <1>1. /\ e \in Event /\ e.node \in Node /\ ~e.killed
        /\ S \subseteq EventId /\ S \subseteq Evs(queue)
        /\ \A m \in Node : m # e.node => pending[m] \notin S
    BY FrontFacts
  <1>2. q \in Seq(Placeholder) /\ Unique(q) /\ Evs(q) = Evs(queue) \ S
    BY FrontFacts
  <1>3. PICK l \in 1..(Len(q) + 1) : queue' = InsertAt(q, l, p)
    BY DEF Enqueue
  <1>4. /\ c \notin Evs(queue) /\ c \notin Evs(held) /\ p \in Placeholder /\ p.ev = c
    BY DEF Structures, UsedIsKnown, Fresh, Placeholder
  <1>5. \A j \in EventId :
            pool'[j] = IF j = c THEN e ELSE IF j \in S THEN NullEvent ELSE pool[j]
    OBVIOUS
  <1>6. \A m \in Node : pending'[m] = IF m = e.node THEN c ELSE pending[m]
    BY <1>1 DEF Structures, QTypeOK
  <1>7. pending' \in [Node -> EventId \cup {0}]
    BY DEF Structures, QTypeOK
  <1>8. pool' \in [EventId -> Event]
    BY <1>1, <1>5, NullEventType DEF Structures, QTypeOK
  <1> HIDE DEF q, p, e, S
  <1>9. /\ queue' \in Seq(Placeholder) /\ Unique(queue')
        /\ Evs(queue') = (Evs(queue) \ S) \cup {c}
    BY <1>2, <1>3, <1>4, InsertAtFacts
  <1>10. QTypeOK'
    BY <1>7, <1>8, <1>9 DEF QTypeOK
  <1>11. UsedIsKnown'
    <2> SUFFICES ASSUME NEW j \in EventId
                 PROVE  pool'[j].node # 0 <=> j \in Evs(queue') \cup Evs(held)
      BY DEF UsedIsKnown, InUse
    <2>1. j \in S => j \notin Evs(held)
      BY <1>1 DEF Structures
    <2>2. pool[j].node # 0 <=> j \in Evs(queue) \cup Evs(held)
      BY DEF Structures, UsedIsKnown, InUse
    <2>3. CASE j = c
      BY <2>3, <1>1, <1>5, <1>9
    <2>4. CASE j # c /\ j \in S
      BY <2>1, <2>4, <1>5, <1>9, NullEventType
    <2>5. CASE j # c /\ j \notin S
      BY <2>2, <2>5, <1>5, <1>9
    <2>6. QED
      BY <2>3, <2>4, <2>5
  <1>12. BackToEvent'
    <2> SUFFICES ASSUME NEW m \in Node, pending'[m] # 0
                 PROVE  /\ pool'[pending'[m]].node = m
                        /\ pool'[pending'[m]].node # 0 /\ ~pool'[pending'[m]].killed
      BY DEF BackToEvent, Live, InUse
    <2>1. CASE m = e.node
      BY <2>1, <1>1, <1>5, <1>6
    <2>2. CASE m # e.node
      <3>1. /\ pending'[m] = pending[m] /\ pending[m] \in EventId /\ pending[m] \notin S
            /\ pool[pending[m]].node = m /\ pool[pending[m]].node # 0
            /\ ~pool[pending[m]].killed
        BY <2>2, <1>1, <1>6 DEF Structures, QTypeOK, BackToEvent, Live, InUse
      <3>2. pending[m] # c
        BY <3>1 DEF Fresh, InUse
      <3>3. QED
        BY <3>1, <3>2, <1>5
    <2>3. QED
      BY <2>1, <2>2
  <1>13. HeldIsFor'
    <2> SUFFICES ASSUME NEW j \in DOMAIN held
                 PROVE  pool'[held[j].ev].node = held[j].node
      BY DEF HeldIsFor
    <2>1. held[j].ev \in EventId /\ held[j].ev \in Evs(held)
      BY HeldFacts DEF Structures, Evs
    <2>2. held[j].ev # c /\ held[j].ev \notin S
      BY <2>1, <1>1, <1>4 DEF Structures
    <2>3. QED
      BY <2>1, <2>2, <1>5 DEF Structures, HeldIsFor
  <1>14. Evs(queue') \cap Evs(held) = {}
    BY <1>4, <1>9 DEF Structures
  <1>15. QED
    BY <1>9, <1>10, <1>11, <1>12, <1>13, <1>14 DEF Structures

\* The last open deallocator runs.
LEMMA DeallocateSound ==
    ASSUME Structures, held # <<>>, UNCHANGED queue,
           pool' = PoolWithout({held[Len(held)].ev}),
           pending' = [pending EXCEPT ![held[Len(held)].node] = 0],
           held' = SubSeq(held, 1, Len(held) - 1)
    PROVE  Structures'
  <1> DEFINE N == Len(held)
             h == held[N]
  <1>1. /\ N \in Nat /\ DOMAIN held = 1..N
        /\ \A j \in 1..N : held[j].ev \in EventId /\ held[j].node \in Node
    BY HeldFacts DEF Structures
  <1>2. N >= 1
    BY <1>1, EmptySeq DEF Structures
  <1>3. /\ held' \in Seq(Holder) /\ Len(held') = N - 1
        /\ \A j \in 1..(N - 1) : held'[j] = held[j]
    BY <1>1, <1>2, SubSeqProperties DEF Structures
  <1>4. DOMAIN held' = 1..(N - 1)
    BY <1>3, LenProperties
  <1>5. \A j \in DOMAIN held' : j \in DOMAIN held /\ j # N /\ held'[j] = held[j]
    BY <1>1, <1>2, <1>3, <1>4
  <1>6. N \in DOMAIN held /\ h.ev \in EventId /\ h.node \in Node
    BY <1>1, <1>2
  <1>7. \A j \in DOMAIN held : j # N => j \in DOMAIN held' /\ held[j].ev # h.ev
    BY <1>1, <1>2, <1>4, <1>6 DEF Structures, Unique
  <1>8. Evs(held') = Evs(held) \ {h.ev}
    BY <1>5, <1>6, <1>7 DEF Evs
  <1>9. h.ev \in Evs(held) /\ h.ev \notin Evs(queue)
    BY <1>6 DEF Evs, Structures
  <1>10. Unique(held')
    BY <1>5 DEF Unique, Structures
  <1>11. pool[h.ev].node = h.node
    BY <1>6 DEF Structures, HeldIsFor
  <1> HIDE DEF h, N
  <1>12. pool' = PoolWithout({h.ev}) /\ pending' = [pending EXCEPT ![h.node] = 0]
    BY DEF h, N
  <1>13. pending' \in [Node -> EventId \cup {0}]
    BY <1>12 DEF Structures, QTypeOK
  <1>14. ASSUME NEW n \in Node, pending'[n] # 0
         PROVE  pending'[n] = pending[n] /\ pending[n] \notin {h.ev}
    <2>1. n # h.node /\ pending'[n] = pending[n]
      BY <1>6, <1>12, <1>14 DEF Structures, QTypeOK
    <2>2. pool[pending[n]].node = n
      BY <2>1, <1>14 DEF Structures, BackToEvent
    <2>3. QED
      BY <2>1, <2>2, <1>11
  <1>15. /\ Evs(queue') \cap Evs(held') = {}
         /\ Evs(queue') \cup Evs(held') = (Evs(queue) \cup Evs(held)) \ {h.ev}
    BY <1>8, <1>9 DEF Structures
  <1>16. \A j \in DOMAIN held' : pool[held'[j].ev].node = held'[j].node
    BY <1>5 DEF Structures, HeldIsFor
  <1>17. queue' \in Seq(Placeholder) /\ Unique(queue') /\ {h.ev} \in SUBSET EventId
    BY <1>6 DEF Structures, QTypeOK
  <1>18. QED
    BY <1>3, <1>10, <1>12, <1>13, <1>14, <1>15, <1>16, <1>17, FreeSound

\* Loading a checkpoint gives every event a new index.
LEMMA RestoreSound ==
    ASSUME Structures, Restore, held = <<>>
    PROVE  Structures'
  <1> USE QueueAssumption
  <1> DEFINE N == Len(queue)
  <1>1. /\ N \in Nat /\ DOMAIN queue = 1..N /\ N <= MaxEvents
        /\ \A k \in 1..N : queue[k].ev \in EventId /\ queue[k].time \in Time
    BY QueueFacts DEF Structures, QTypeOK, Restore
  <1>2. 1..N \subseteq EventId /\ 0 \notin EventId
    BY <1>1 DEF EventId
  <1>3. /\ queue' = [k \in 1..N |-> [time |-> queue[k].time, ev |-> k]]
        /\ pool' = [i \in EventId |->
                        IF i \in 1..N THEN [pool[queue[i].ev] EXCEPT !.rule = 0]
                        ELSE NullEvent]
        /\ pending' = [n \in Node |-> IF Loaded(n) = {} THEN 0
                                      ELSE CHOOSE k \in Loaded(n) : TRUE]
        /\ held' = <<>>
    BY <1>1 DEF Restore, stepVars
  <1> HIDE DEF N
  <1>4. ASSUME NEW k \in 1..N
        PROVE  /\ pool[queue[k].ev] \in Event /\ pool[queue[k].ev].node # 0
    BY <1>1 DEF Structures, QTypeOK, UsedIsKnown, InUse, Evs
  <1>5. ASSUME NEW e \in Event
        PROVE  /\ [e EXCEPT !.rule = 0] \in Event
               /\ [e EXCEPT !.rule = 0].node = e.node
               /\ [e EXCEPT !.rule = 0].killed = e.killed
    <2>1. [e EXCEPT !.rule = 0] \in Event
      BY DEF Event
    <2>2. QED
      BY <2>1 DEF Event
  <1>6. \A i \in 1..N :
            /\ pool'[i] \in Event
            /\ pool'[i].node = pool[queue[i].ev].node
            /\ pool'[i].killed = pool[queue[i].ev].killed
    <2> TAKE i \in 1..N
    <2>1. pool'[i] = [pool[queue[i].ev] EXCEPT !.rule = 0]
      BY <1>2, <1>3
    <2>2. QED
      BY <2>1, <1>4, <1>5
  <1>7. \A i \in EventId : i \notin 1..N => pool'[i] = NullEvent
    BY <1>3
  <1>8. \A n \in Node : \A k \in Loaded(n) :
            k \in 1..N /\ pool[queue[k].ev].node = n /\ ~pool[queue[k].ev].killed
    BY <1>1 DEF Loaded
  <1>9. \A n \in Node : pending'[n] = 0 \/ pending'[n] \in Loaded(n)
    BY <1>3
  <1>10. QTypeOK'
    <2>1. pool' \in [EventId -> Event]
      BY <1>3, <1>6, <1>7, NullEventType
    <2>2. pending' \in [Node -> EventId \cup {0}]
      BY <1>2, <1>3, <1>8, <1>9
    <2>3. queue' \in [1..N -> Placeholder]
      BY <1>1, <1>2, <1>3 DEF Placeholder
    <2>4. queue' \in Seq(Placeholder)
      BY <2>3, <1>1, SeqDef
    <2>5. QED
      BY <2>1, <2>2, <2>4 DEF QTypeOK
  <1>11. DOMAIN queue' = 1..N /\ \A k \in 1..N : queue'[k].ev = k
    BY <1>3
  <1>12. Unique(queue') /\ Evs(queue') = 1..N
    BY <1>11 DEF Unique, Evs
  <1>13. held' \in Seq(Holder) /\ Unique(held') /\ Evs(held') = {} /\ HeldIsFor'
    <2>1. held' \in Seq(Holder) /\ DOMAIN held' = {}
      BY <1>3, EmptySeq
    <2>2. QED
      BY <2>1 DEF Unique, Evs, HeldIsFor
  <1>14. UsedIsKnown'
    <2>1. \A i \in EventId : pool'[i].node # 0 <=> i \in 1..N
      BY <1>4, <1>6, <1>7, NullEventType
    <2>2. QED
      BY <2>1, <1>12, <1>13 DEF UsedIsKnown, InUse
  <1>15. BackToEvent'
    <2> SUFFICES ASSUME NEW n \in Node, pending'[n] # 0
                 PROVE  /\ pool'[pending'[n]].node = n
                        /\ pool'[pending'[n]].node # 0 /\ ~pool'[pending'[n]].killed
      BY DEF BackToEvent, Live, InUse
    <2>1. QED
      BY <1>4, <1>6, <1>8, <1>9
  <1>16. QED
    BY <1>10, <1>12, <1>13, <1>14, <1>15 DEF Structures

\* A step that touches none of the structures.
LEMMA QuietSound ==
    ASSUME Structures, UNCHANGED <<queue, pool, pending, held>>
    PROVE  Structures'
  <1>1. queue' = queue /\ pool' = pool /\ pending' = pending /\ held' = held
    OBVIOUS
  <1>2. UsedIsKnown' /\ BackToEvent' /\ HeldIsFor' /\ QTypeOK'
    BY <1>1 DEF Structures, QTypeOK, UsedIsKnown, BackToEvent, HeldIsFor, Live, InUse
  <1>3. QED
    BY <1>1, <1>2 DEF Structures

\* The pending event of a node.
LEMMA PendingSound ==
    ASSUME Structures, NEW n \in Node, pending[n] # 0
    PROVE  /\ pending[n] \in EventId
           /\ pool[pending[n]] \in Event
           /\ pool[pending[n]].node = n /\ ~pool[pending[n]].killed
  BY DEF Structures, QTypeOK, BackToEvent, Live

LEMMA InitSound == Init => Sound
  <1> USE QueueAssumption
  <1> SUFFICES ASSUME Init PROVE Sound
    OBVIOUS
  <1>1. Inv /\ held = <<>> /\ queue = <<>>
    BY InitInv DEF Init
  <1>2. DOMAIN held = {} /\ held \in Seq(Holder)
    BY <1>1, EmptySeq
  <1>3. Unique(held) /\ Evs(held) = {} /\ HeldIsFor
    BY <1>2 DEF Unique, Evs, HeldIsFor
  <1>4. UsedIsKnown
    BY <1>1, <1>3 DEF Inv, QInv, UsedIsQueued, UsedIsKnown
  <1>5. QED
    BY <1>1, <1>2, <1>3, <1>4 DEF Inv, QInv, Structures, Sound

LEMMA UserSound == Sound /\ UserNext => Sound'
  <1> USE QueueAssumption, EventsAssumption
  <1> SUFFICES ASSUME Sound, UserNext PROVE Sound'
    OBVIOUS
  <1>0. Structures /\ StepTypeOK /\ (phase = "idle" => held = <<>>)
    BY DEF Sound
  <1>t. Time \subseteq Nat /\ now \in Time
    BY <1>0 DEF Time, StepTypeOK
  <1>s. ASSUME Structures', UNCHANGED <<now, stepVars>> PROVE Sound'
    BY <1>s, <1>0 DEF Sound, StepTypeOK, stepVars
  <1>1. ASSUME NEW n \in Node, NEW v \in Value, NEW t \in Time, SetNode(n, v, t)
        PROVE  Sound'
    <2> DEFINE e == NewEvent(n, v, 0, FALSE, FALSE)
    <2>1. e \in Event /\ e.node = n /\ ~e.killed
      BY NewEventType
    <2>2. Schedule(n, e, t) /\ UNCHANGED <<now, stepVars>>
      BY <1>1 DEF SetNode
    <2> HIDE DEF e
    <2>3. QED
      BY <2>1, <2>2, <1>0, <1>s, <1>t, ScheduleSound DEF stepVars
  <1>2. ASSUME NEW n \in Node, NEW v \in Value, NEW t \in Time, SetNodeForced(n, v, t)
        PROVE  Sound'
    <2> DEFINE e == NewEvent(n, v, 0, FALSE, TRUE)
    <2>1. e \in Event /\ e.node = n /\ ~e.killed
      BY NewEventType
    <2>2. Schedule(n, e, t) /\ UNCHANGED <<now, stepVars>>
      BY <1>2 DEF SetNodeForced
    <2> HIDE DEF e
    <2>3. QED
      BY <2>1, <2>2, <1>0, <1>s, <1>t, ScheduleSound DEF stepVars
  <1>3. ASSUME NEW n \in Node, DescheduleEvent(n) PROVE Sound'
    BY <1>3, <1>0, <1>s, KillSound DEF DescheduleEvent, stepVars
  <1>4. ASSUME NEW n \in Node, NEW t \in Int, RescheduleEvent(n, t) PROVE Sound'
    <2> DEFINE e == pool[pending[n]]
    <2>1. /\ pending[n] # 0 /\ t \in Nat /\ Schedule(n, e, t)
          /\ UNCHANGED <<now, stepVars>>
      BY <1>4, <1>t DEF RescheduleEvent
    <2>2. e \in Event /\ e.node = n /\ ~e.killed
      BY <2>1, <1>0, PendingSound
    <2> HIDE DEF e
    <2>3. QED
      BY <2>1, <2>2, <1>0, <1>s, ScheduleSound DEF stepVars
  <1>5. ASSUME NEW n \in Node, NEW dt \in {-1, 1}, RescheduleEventRelative(n, dt)
        PROVE  Sound'
    <2>1. PICK k \in DOMAIN queue : RescheduleEvent(n, queue[k].time + dt)
      BY <1>5 DEF RescheduleEventRelative
    <2>2. k \in 1..Len(queue) /\ \A j \in 1..Len(queue) : queue[j].time \in Time
      BY <1>0, QueueFacts DEF Structures, QTypeOK
    <2>3. queue[k].time + dt \in Int
      BY <2>2 DEF Time
    <2>4. QED
      BY <2>1, <2>3, <1>4
  <1>6. ASSUME NEW n \in Node, RescheduleEventNow(n) PROVE Sound'
    <2> DEFINE e == pool[pending[n]]
    <2>1. pending[n] # 0 /\ UNCHANGED <<now, stepVars>>
      BY <1>6 DEF RescheduleEventNow
    <2>2. e \in Event /\ e.node = n /\ ~e.killed
      BY <2>1, <1>0, PendingSound
    <2>3. PICK i \in EventId :
            /\ Fresh(i)
            /\ pool' = [PoolAfterKill(n) EXCEPT ![i] = e]
            /\ pending' = [pending EXCEPT ![n] = i]
            /\ IF Len(queue) > 0 /\ queue[1].time = now
               THEN queue' = InsertAt(queue, 1, [time |-> now, ev |-> i])
               ELSE Enqueue(queue, i, now)
      BY <1>6 DEF RescheduleEventNow
    <2>4. PICK k \in 1..(Len(queue) + 1) :
            queue' = InsertAt(queue, k, [time |-> now, ev |-> i])
      <3>1. 1 \in 1..(Len(queue) + 1)
        BY <1>0, QueueFacts DEF Structures, QTypeOK
      <3>2. QED
        BY <3>1, <2>3 DEF Enqueue
    <2> HIDE DEF e
    <2>5. Structures'
      BY <2>1, <2>2, <2>3, <2>4, <1>0, <1>t, AllocateSound DEF stepVars
    <2>6. QED
      BY <2>1, <2>5, <1>s
  <1>7. ASSUME NEW n \in Node, FreezeNode(n) PROVE Sound'
    <2>1. /\ UNCHANGED <<now, queue, pool, pending, value, phase, updated, held, until, barren>>
          /\ frozen' \subseteq Node
      BY <1>7, <1>0 DEF FreezeNode, queueVars, StepTypeOK
    <2>2. QED
      BY <2>1, <1>0, QuietSound DEF Sound, StepTypeOK
  <1>8. ASSUME NEW n \in Node, NEW v \in Value, NEW w \in Strength,
               NEW d \in Delays, UnsetNode(n, v, w, d)
        PROVE  Sound'
    <2>1. /\ frozen' = frozen \ {n} /\ now' = now
          /\ UNCHANGED <<value, phase, updated, held, until, barren>>
      BY <1>8 DEF UnsetNode, queueVars
    <2>2. StepTypeOK' /\ (phase' = "idle" => held' = <<>>)
      BY <2>1, <1>0 DEF StepTypeOK
    <2>3. CASE UNCHANGED queueVars
      BY <2>1, <2>2, <2>3, <1>0, QuietSound DEF queueVars, Sound
    <2>4. ASSUME pending[n] # 0,
                 Rewrite(n, [pool[pending[n]] EXCEPT
                               !.val = v, !.weak = w, !.forced = FALSE])
          PROVE  Sound'
      <3> DEFINE e == [pool[pending[n]] EXCEPT
                          !.val = v, !.weak = w, !.forced = FALSE]
      <3>1. /\ pool[pending[n]] \in Event /\ pool[pending[n]].node = n
            /\ ~pool[pending[n]].killed
        BY <2>4, <1>0, PendingSound
      <3>2. e \in Event
        BY <3>1 DEF Event
      <3>3. e.node = n /\ ~e.killed
        BY <3>1 DEF Event
      <3> HIDE DEF e
      <3>4. Structures'
        BY <2>1, <2>4, <3>2, <3>3, <1>0, RewriteSound DEF e
      <3>5. QED
        BY <2>2, <3>4 DEF Sound
    <2>5. ASSUME Schedule(n, NewEvent(n, v, 0, w, FALSE), now + d) PROVE Sound'
      <3> DEFINE e == NewEvent(n, v, 0, w, FALSE)
      <3>1. e \in Event /\ e.node = n /\ ~e.killed
        BY NewEventType
      <3>2. now + d \in Nat
        BY <1>t
      <3> HIDE DEF e
      <3>3. Structures'
        BY <2>1, <2>5, <3>1, <3>2, <1>0, ScheduleSound DEF e
      <3>4. QED
        BY <2>2, <3>3 DEF Sound
    <2>6. QED
      BY <2>3, <2>4, <2>5, <1>8 DEF UnsetNode
  <1>9. ASSUME NEW n \in Node, NEW v \in Value, SetNow(n, v)
        PROVE  Sound'
    <2>1. UNCHANGED <<now, queue, pool, pending, held, frozen, until>>
      BY <1>9 DEF SetNow, queueVars
    <2>2. barren' \in BOOLEAN
      <3>1. \/ barren' = FALSE \/ barren' = TRUE
            \/ barren' = ("stop_vacuous" \in Session)
        BY <1>9, Zenon DEF SetNow
      <3>2. ("stop_vacuous" \in Session) \in BOOLEAN
        OBVIOUS
      <3>3. QED
        BY <3>1, <3>2, Zenon
    <2>3. /\ value' = [value EXCEPT ![n] = v] \/ value' = value
          /\ updated' = Node \/ updated' = updated
          /\ phase' \in {"propagate", "unwind", "dequeue"}
      BY <1>9 DEF SetNow
    <2>4. StepTypeOK'
      BY <2>1, <2>2, <2>3, <1>0 DEF StepTypeOK, Phase
    <2>5. QED
      BY <2>1, <2>3, <2>4, <1>0, QuietSound DEF Sound
  <1>10. ASSUME NEW t \in {0, now}, Initialize(t) PROVE Sound'
    <2>1. /\ queue' = <<>> /\ pool' = PoolWithout(QueuedUpTo(Len(queue)))
          /\ pending' = [n \in Node |-> 0]
          /\ value' = [n \in Node |-> LOGIC_OTHER]
          /\ now' = t /\ frozen' = {}
          /\ UNCHANGED <<phase, updated, held, until, barren>>
      BY <1>10 DEF Initialize
    <2>2. pending' \in [Node -> EventId \cup {0}] /\ \A n \in Node : pending'[n] = 0
      BY <2>1
    <2>3. Structures'
      BY <2>1, <2>2, <1>0, EmptySound
    <2>4. now' \in Time /\ value' \in [Node -> Value]
      BY <2>1, <1>t DEF Time, Value
    <2>5. StepTypeOK'
      BY <2>1, <2>4, <1>0 DEF StepTypeOK
    <2>6. QED
      BY <2>1, <2>3, <2>5, <1>0 DEF Sound
  <1>11. ASSUME NEW t \in Time, AdvanceBegin(t) PROVE Sound'
    <2>1. /\ UNCHANGED <<now, queue, pool, pending, value, frozen, phase, updated, held>>
          /\ until' = t /\ barren' = FALSE
      BY <1>11 DEF AdvanceBegin, queueVars
    <2>2. QED
      BY <2>1, <1>0, QuietSound DEF Sound, StepTypeOK
  <1>12. ASSUME Restore PROVE Sound'
    <2>1. held = <<>> /\ UNCHANGED <<now, stepVars>>
      BY <1>12, <1>0 DEF Restore, Prompt
    <2>2. QED
      BY <2>1, <1>12, <1>0, <1>s, RestoreSound
  <1>13. QED
    BY <1>1, <1>2, <1>3, <1>4, <1>5, <1>6, <1>7, <1>8, <1>9, <1>10, <1>11, <1>12, <1>t
    DEF UserNext

LEMMA SimSound == Sound /\ SimNext => Sound'
  <1> USE QueueAssumption, EventsAssumption
  <1> SUFFICES ASSUME Sound, SimNext PROVE Sound'
    OBVIOUS
  <1>0. Structures /\ StepTypeOK /\ (phase = "idle" => held = <<>>)
    BY DEF Sound
  <1>t. Time \subseteq Nat /\ now \in Time
    BY <1>0 DEF Time, StepTypeOK
  <1>1. ASSUME StepNothing PROVE Sound'
    <2>1. /\ NoneLive /\ queue' = <<>>
          /\ pool' = PoolWithout(QueuedUpTo(Len(queue)))
          /\ phase' = "unwind"
          /\ UNCHANGED <<now, pending, value, frozen, updated, held, until, barren>>
      BY <1>1 DEF StepNothing
    <2>2. ASSUME NEW n \in Node, pending[n] # 0 PROVE pending[n] \notin Evs(queue)
      BY <2>1, <2>2, <1>0, PendingSound DEF NoneLive, Evs
    <2>3. pending' \in [Node -> EventId \cup {0}]
      BY <2>1, <1>0 DEF Structures, QTypeOK
    <2>4. Structures'
      BY <2>1, <2>2, <2>3, <1>0, EmptySound
    <2>5. QED
      BY <2>1, <2>4, <1>0 DEF Sound, StepTypeOK, Phase
  <1>2. ASSUME NEW k \in DOMAIN queue, NEW t \in Time, StepMinDelay(k, t)
        PROVE  Sound'
    <2> DEFINE e == pool[queue[k].ev]
    <2>1. /\ FirstLive(k) /\ now' = queue[k].time /\ phase' = "dequeue"
          /\ UNCHANGED <<value, frozen, updated, held, until, barren>>
      BY <1>2 DEF StepMinDelay
    <2>2. Structures'
      <3>1. PICK c \in EventId :
              /\ Fresh(c)
              /\ pool' = [j \in EventId |->
                              IF j = c THEN e
                              ELSE IF j \in QueuedUpTo(k) THEN NullEvent
                              ELSE pool[j]]
              /\ pending' = [pending EXCEPT ![e.node] = c]
              /\ Enqueue(DropFirst(queue, k), c, t)
        BY <1>2 DEF StepMinDelay
      <3>2. QED
        BY <3>1, <2>1, <1>0, MoveSound
    <2>3. queue[k].time \in Time
      BY <2>1, <1>0, FrontFacts
    <2>4. QED
      BY <2>1, <2>2, <2>3, <1>0 DEF Sound, StepTypeOK, Phase
  <1>3. ASSUME NEW k \in DOMAIN queue, StepXX(k) PROVE Sound'
    <2>1. /\ FirstLive(k) /\ Settle(k) /\ now' = queue[k].time
          /\ phase' = "unwind" /\ barren' = FALSE
          /\ UNCHANGED <<value, frozen, updated, held, until>>
      BY <1>3 DEF StepXX, Executing
    <2>2. Structures' /\ queue[k].time \in Time
      BY <2>1, <1>0, SettleSound, FrontFacts
    <2>3. QED
      BY <2>1, <2>2, <1>0 DEF Sound, StepTypeOK, Phase
  <1>4. ASSUME NEW k \in DOMAIN queue, StepVacuousStop(k) PROVE Sound'
    <2>1. /\ FirstLive(k) /\ Settle(k) /\ now' = queue[k].time
          /\ phase' = "unwind" /\ barren' = TRUE
          /\ UNCHANGED <<value, frozen, updated, held, until>>
      BY <1>4 DEF StepVacuousStop, Executing
    <2>2. Structures' /\ queue[k].time \in Time
      BY <2>1, <1>0, SettleSound, FrontFacts
    <2>3. QED
      BY <2>1, <2>2, <1>0 DEF Sound, StepTypeOK, Phase
  <1>5. ASSUME NEW k \in DOMAIN queue, StepVacuous(k) PROVE Sound'
    <2>1. /\ FirstLive(k) /\ now' = queue[k].time
          /\ queue' = DropFirst(queue, k)
          /\ pool' = PoolWithout(QueuedUpTo(k - 1))
          /\ held' = Append(held, [node |-> pool[queue[k].ev].node, ev |-> queue[k].ev])
          /\ phase' = "dequeue" /\ barren' = FALSE
          /\ UNCHANGED <<pending, value, frozen, updated, until>>
      BY <1>5 DEF StepVacuous, Executing
    <2>2. Structures' /\ queue[k].time \in Time
      BY <2>1, <1>0, SkipSound, FrontFacts
    <2>3. QED
      BY <2>1, <2>2, <1>0 DEF Sound, StepTypeOK, Phase
  <1>6. ASSUME NEW k \in DOMAIN queue, StepExclRefused(k) PROVE Sound'
    <2>1. /\ FirstLive(k) /\ now' = queue[k].time
          /\ Enqueue(DropFirst(queue, k), queue[k].ev, queue[k].time)
          /\ pool' = PoolWithout(QueuedUpTo(k - 1))
          /\ phase' = "unwind" /\ barren' = TRUE
          /\ UNCHANGED <<pending, value, frozen, updated, held, until>>
      BY <1>6 DEF StepExclRefused, Executing
    <2>2. Structures' /\ queue[k].time \in Time
      BY <2>1, <1>0, RequeueSound, FrontFacts
    <2>3. QED
      BY <2>1, <2>2, <1>0 DEF Sound, StepTypeOK, Phase
  <1>7. ASSUME NEW k \in DOMAIN queue, StepCommit(k) PROVE Sound'
    <2> DEFINE e == pool[queue[k].ev]
    <2>1. /\ FirstLive(k) /\ Settle(k) /\ now' = queue[k].time
          /\ value' = [value EXCEPT ![e.node] = e.val]
          /\ phase' = "propagate" /\ updated' = Node /\ barren' = FALSE
          /\ UNCHANGED <<frozen, held, until>>
      BY <1>7 DEF StepCommit, Executing
    <2>2. Structures' /\ queue[k].time \in Time /\ e \in Event
      BY <2>1, <1>0, SettleSound, FrontFacts
    <2>3. e.val \in Value
      BY <2>2 DEF Event
    <2> HIDE DEF e
    <2>4. QED
      BY <2>1, <2>2, <2>3, <1>0 DEF Sound, StepTypeOK, Phase
  <1>8. ASSUME NEW n \in Node, PropagateKill(n) PROVE Sound'
    <2>1. /\ KillEvent(n)
          /\ UNCHANGED <<now, value, frozen, phase, updated, held, until, barren>>
      BY <1>8 DEF PropagateKill, stepVars
    <2>2. QED
      BY <2>1, <1>0, KillSound DEF Sound, StepTypeOK
  <1>9. ASSUME NEW n \in Node, FlushKill(n) PROVE Sound'
    <2>1. /\ KillEvent(n) /\ updated' = updated \ {n}
          /\ UNCHANGED <<now, value, frozen, phase, held, until, barren>>
      BY <1>9 DEF FlushKill
    <2>2. QED
      BY <2>1, <1>0, KillSound DEF Sound, StepTypeOK
  <1>10. ASSUME NEW n \in Node, NEW w \in Strength, FlushOverwrite(n, w)
         PROVE  Sound'
    <2> DEFINE e == [pool[pending[n]] EXCEPT !.val = LOGIC_OTHER, !.weak = w]
    <2>1. /\ pending[n] # 0 /\ Rewrite(n, e) /\ updated' = updated \ {n}
          /\ UNCHANGED <<now, value, frozen, phase, held, until, barren>>
      BY <1>10 DEF FlushOverwrite
    <2>2. /\ pool[pending[n]] \in Event /\ pool[pending[n]].node = n
          /\ ~pool[pending[n]].killed
      BY <2>1, <1>0, PendingSound
    <2>3. e \in Event
      BY <2>2 DEF Event, Value
    <2>4. e.node = n /\ ~e.killed
      BY <2>2 DEF Event
    <2> HIDE DEF e
    <2>5. Structures'
      BY <2>1, <2>3, <2>4, <1>0, RewriteSound
    <2>6. QED
      BY <2>1, <2>5, <1>0 DEF Sound, StepTypeOK
  <1>11. ASSUME NEW n \in Node, NEW v \in Value, NEW r \in Rule \cup {0},
                NEW w \in Strength, NEW d \in Delays,
                FlushSchedule(n, v, r, w, d)
         PROVE  Sound'
    <2> DEFINE e == NewEvent(n, v, r, w, FALSE)
    <2>1. /\ Schedule(n, e, now + d) /\ updated' = updated \ {n}
          /\ UNCHANGED <<now, value, frozen, phase, held, until, barren>>
      BY <1>11 DEF FlushSchedule
    <2>2. e \in Event /\ e.node = n /\ ~e.killed
      BY NewEventType
    <2>3. now + d \in Nat
      BY <1>t
    <2> HIDE DEF e
    <2>4. Structures'
      BY <2>1, <2>2, <2>3, <1>0, ScheduleSound
    <2>5. QED
      BY <2>1, <2>4, <1>0 DEF Sound, StepTypeOK
  <1>12. ASSUME StepReturn PROVE Sound'
    <2>1. updated' = {} /\ UNCHANGED <<now, queue, value, frozen, until, barren>>
      BY <1>12 DEF StepReturn
    <2>2. CASE held = <<>>
      <3>1. phase' = "idle" /\ UNCHANGED <<pool, pending, held>>
        BY <1>12, <2>2 DEF StepReturn
      <3>2. QED
        BY <3>1, <2>1, <2>2, <1>0, QuietSound DEF Sound, StepTypeOK, Phase
    <2>3. CASE held # <<>>
      <3>1. /\ pool' = PoolWithout({held[Len(held)].ev})
            /\ pending' = [pending EXCEPT ![held[Len(held)].node] = 0]
            /\ held' = SubSeq(held, 1, Len(held) - 1)
            /\ phase' = "unwind"
        BY <1>12, <2>3 DEF StepReturn
      <3>2. Structures'
        BY <3>1, <2>1, <2>3, <1>0, DeallocateSound
      <3>3. QED
        BY <3>1, <3>2, <2>1, <1>0 DEF Sound, StepTypeOK, Phase
    <2>4. QED
      BY <2>2, <2>3
  <1>13. ASSUME AdvanceEnd PROVE Sound'
    <2>1. /\ UNCHANGED <<queue, pool, pending, value, frozen, phase, updated, held, barren>>
          /\ now' = IF now < until THEN until ELSE now
          /\ until' = -1 /\ until # -1
      BY <1>13 DEF AdvanceEnd
    <2>2. now' \in Time
      BY <2>1, <1>0, <1>t DEF StepTypeOK
    <2>3. QED
      BY <2>1, <2>2, <1>0, QuietSound DEF Sound, StepTypeOK
  <1>14. ASSUME AdvanceStop PROVE Sound'
    <2>1. /\ UNCHANGED <<now, queue, pool, pending, value, frozen, phase, updated, held, barren>>
          /\ until' = -1
      BY <1>14 DEF AdvanceStop, queueVars
    <2>2. QED
      BY <2>1, <1>0, QuietSound DEF Sound, StepTypeOK
  <1>15. QED
    BY <1>1, <1>2, <1>3, <1>4, <1>5, <1>6, <1>7, <1>8, <1>9, <1>10, <1>11,
       <1>12, <1>13, <1>14 DEF SimNext

\* The structures stay sound in every session.
THEOREM AlwaysSound == Spec => []Sound
  <1>1. Sound /\ [Next]_vars => Sound'
    <2> SUFFICES ASSUME Sound, [Next]_vars PROVE Sound'
      OBVIOUS
    <2>1. CASE Next
      BY <2>1, UserSound, SimSound DEF Next
    <2>2. CASE UNCHANGED vars
      BY <2>2, QuietSound DEF vars, Sound, StepTypeOK
    <2>3. QED
      BY <2>1, <2>2
  <1>2. QED
    BY <1>1, InitSound, PTL DEF Spec

\* Whatever the session, also when vacuous events are skipped and leave their
\* deallocators behind: no index has two placeholders, what is in use between
\* two steps is what is in the queue, and a node's event is live and its own.
THEOREM NoLeakEver == Spec => [](PlaceholdersUnique /\ NoEventLeaks /\ PendingIsLive)
  <1>1. Sound => PlaceholdersUnique
    BY DEF Sound, Structures, Unique, PlaceholdersUnique
  <1>2. ASSUME Sound PROVE NoEventLeaks
    <2> SUFFICES ASSUME phase = "idle"
                 PROVE  {i \in EventId : InUse(i)} = Evs(queue)
      BY DEF NoEventLeaks, Evs
    <2>1. Evs(queue) \subseteq EventId
      BY <1>2, QueueFacts DEF Sound, Structures, QTypeOK, Evs
    <2>2. Evs(held) = {}
      BY <1>2, EmptySeq DEF Sound, Evs
    <2>3. QED
      BY <1>2, <2>1, <2>2 DEF Sound, Structures, UsedIsKnown
  <1>3. Sound => PendingIsLive
    BY DEF Sound, Structures, BackToEvent, PendingIsLive
  <1>4. QED
    BY <1>1, <1>2, <1>3, AlwaysSound, PTL

\* Type correctness in every session.
THEOREM TypeCorrectEver == Spec => []TypeOK
  <1>1. Sound => TypeOK
    BY DEF Sound, Structures, QTypeOK, StepTypeOK, TypeOK
  <1>2. QED
    BY <1>1, AlwaysSound, PTL

-----------------------------------------------------------------------------
(* The types and the control of the engine.                                  *)

Stage == {"idle", "evaluate", "flush", "load", "lock"}
Cause == [node : Node \cup {0}, val : Value, prev : Value]
Climb == [expr : ExprId \cup {0}, rule : Rule \cup {0}, prev : Pull, next : Pull]
Entry == [node : Node, rule : Rule \cup {0}, blocked : BOOLEAN]

ControlTypeOK ==
    /\ stage \in Stage
    /\ cause \in Cause
    /\ todo \in Seq(ExprId)
    /\ climb \in Climb
    /\ uq \in Seq(Entry)

\* A step propagates exactly while the engine evaluates and flushes, ...
InStep == stage \in {"evaluate", "flush"} <=> phase = "propagate"

\* ... a checkpoint is loaded between two steps, ...
Loading == stage \in {"load", "lock"} => phase = "idle"

\* ... and where the engine is not evaluating nothing is left to evaluate,
\* where it is not in a step no node is to be flushed.
Tidy ==
    /\ stage \in {"idle", "flush", "lock"} => todo = <<>> /\ climb = NoClimb
    /\ stage \in {"idle", "load", "lock"} => uq = <<>>
    /\ climb.expr # 0 => climb.rule = 0
    /\ climb.expr = 0 /\ climb.rule = 0 => climb = NoClimb

\* The cause is the node that changed, and its value is the committed one.
CauseIsValue ==
    /\ stage = "idle" => cause = NoCause
    /\ stage \in {"evaluate", "flush"} => cause.node \in Node
    /\ stage # "lock" /\ cause.node # 0 => cause.val = value[cause.node]
    /\ stage = "load" => cause.prev = LOGIC_OTHER

Control == ControlTypeOK /\ InStep /\ Loading /\ Tidy /\ CauseIsValue

LEMMA NoCauseType == NoCause \in Cause /\ NoCause.node = 0 /\ NoCause.prev = LOGIC_OTHER
  BY DEF NoCause, Cause, Value

LEMMA NoClimbType == NoClimb \in Climb /\ NoClimb.expr = 0 /\ NoClimb.rule = 0
  BY DEF NoClimb, Climb, Pull

LEMMA PullIsValue == Pull = Value
  BY DEF Pull, Value, PULL_OFF, PULL_ON, PULL_WEAK, LOGIC_LOW, LOGIC_HIGH, LOGIC_OTHER

LEMMA PullsOfType ==
    ASSUME NEW f
    PROVE  PullsOf(f) \in PullSet
  BY DEF PullsOf, PullSet, or_pull, Pull, PULL_OFF, PULL_ON, PULL_WEAK

LEMMA PullStateType ==
    ASSUME NEW e \in ExprId, NEW c
    PROVE  pull_state(e, c) \in Pull
  BY DEF pull_state, or_pull, and_pull, negate_pull, Pull, PULL_OFF, PULL_ON, PULL_WEAK

\* A sequence without its i-th element.
LEMMA RemoveAtFacts ==
    ASSUME NEW S, NEW s \in Seq(S), NEW i \in DOMAIN s
    PROVE  /\ i \in 1..Len(s) /\ Len(s) \in Nat
           /\ SeqExt!RemoveAt(s, i) \in Seq(S)
           /\ Len(SeqExt!RemoveAt(s, i)) = Len(s) - 1
           /\ \A j \in 1..(Len(s) - 1) :
                SeqExt!RemoveAt(s, i)[j] = IF j < i THEN s[j] ELSE s[j + 1]
  <1> DEFINE a == SubSeq(s, 1, i - 1)
             b == SubSeq(s, i + 1, Len(s))
  <1>1. Len(s) \in Nat /\ i \in 1..Len(s) /\ \A j \in 1..Len(s) : s[j] \in S
    BY LenProperties, ElementOfSeq
  <1>2. /\ a \in Seq(S) /\ Len(a) = i - 1
        /\ \A j \in 1..(i - 1) : a[j] = s[j]
    BY <1>1, SubSeqProperties
  <1>3. /\ b \in Seq(S) /\ Len(b) = Len(s) - i
        /\ \A j \in 1..(Len(s) - i) : b[j] = s[i + j]
    <2>1. \A j \in (i + 1)..Len(s) : s[j] \in S
      BY <1>1
    <2>2. /\ b \in Seq(S) /\ Len(b) = IF i + 1 <= Len(s) THEN Len(s) - (i + 1) + 1 ELSE 0
          /\ \A j \in 1..(Len(s) - (i + 1) + 1) : b[j] = s[i + 1 + j - 1]
      BY <1>1, <2>1, SubSeqProperties
    <2>3. QED
      BY <1>1, <2>2
  <1> HIDE DEF a, b
  <1>4. /\ a \o b \in Seq(S) /\ Len(a \o b) = Len(a) + Len(b)
        /\ \A j \in 1..(Len(a) + Len(b)) :
                (a \o b)[j] = IF j <= Len(a) THEN a[j] ELSE b[j - Len(a)]
    BY <1>2, <1>3, ConcatProperties
  <1>5. SeqExt!RemoveAt(s, i) = a \o b
    BY DEF SeqExt!RemoveAt, a, b
  <1>6. Len(a) + Len(b) = Len(s) - 1 /\ i \in Int /\ Len(s) \in Int
    BY <1>1, <1>2, <1>3
  <1>7. \A j \in 1..(Len(s) - 1) :
            (a \o b)[j] = IF j <= i - 1 THEN a[j] ELSE b[j - (i - 1)]
    BY <1>2, <1>4, <1>6
  <1>8. ASSUME NEW j \in 1..(Len(s) - 1)
        PROVE  (a \o b)[j] = IF j < i THEN s[j] ELSE s[j + 1]
    <2>1. CASE j < i
      <3>1. j <= i - 1 /\ j \in 1..(i - 1)
        BY <2>1, <1>1
      <3>2. QED
        BY <2>1, <3>1, <1>2, <1>7
    <2>2. CASE j >= i
      <3>1. /\ ~(j <= i - 1) /\ ~(j < i)
            /\ j - (i - 1) \in 1..(Len(s) - i) /\ i + (j - (i - 1)) = j + 1
        BY <2>2, <1>1
      <3>2. (a \o b)[j] = b[j - (i - 1)]
        BY <3>1, <1>7
      <3>3. QED
        BY <3>1, <3>2, <1>3
    <2>3. j < i \/ j >= i
      BY <1>6
    <2>4. QED
      BY <2>1, <2>2, <2>3
  <1>9. QED
    BY <1>1, <1>4, <1>5, <1>6, <1>8

-----------------------------------------------------------------------------
(* What the engine asks of the event machinery is within its types.          *)

LEMMA RuleFacts ==
    ASSUME NEW r \in Rule
    PROVE  /\ r \in ExprId /\ r # 0 /\ Expr[r].root
           /\ Expr[r].parent \in Node /\ RuleGroup[r] \in Group
  BY CircuitAssumption, QueueAssumption

LEMMA ParentFacts ==
    ASSUME NEW e \in ExprId, ~Expr[e].root
    PROVE  Expr[e].parent \in ExprId /\ e # 0 /\ Expr[e].parent # 0
  BY CircuitAssumption

LEMMA PullValueIsValue ==
    ASSUME NEW p, NEW old \in Value
    PROVE  PullValue(p, old) \in Value
  BY DEF PullValue, Value, LOGIC_LOW, LOGIC_HIGH, LOGIC_OTHER

\* Events are weak only where the weak rules count.
LEMMA StrengthOK ==
    ASSUME NEW p, ~weak_rules_enabled => weak_rules_off(p)
    PROVE  weak_wins_any(p) \in Strength /\ weak_rule_involved(p) \in Strength
  <1>1. weak_wins_any(p) \in BOOLEAN /\ weak_rule_involved(p) \in BOOLEAN
    BY DEF weak_wins_any, weak_rule_involved
  <1>2. CASE weak_rules_enabled
    BY <1>1, <1>2, QueueAssumption, CircuitAssumption
  <1>3. CASE ~weak_rules_enabled
    <2>1. ~weak_wins_any(p) /\ ~weak_rule_involved(p)
      BY <1>3 DEF weak_rules_off, weak_wins_any, weak_pull_up_wins, weak_pull_dn_wins,
        weak_pulling_up_x, weak_pulling_dn_x, weak_rule_involved, have_interference,
        possible_interference_strong_vs_weak, possible_interference_weak,
        PULL_OFF, PULL_ON, PULL_WEAK
    <2>2. weak_wins_any(p) = FALSE /\ weak_rule_involved(p) = FALSE
      BY <2>1, <1>1
    <2>3. QED
      BY <2>2, QueueAssumption
  <1>4. QED
    BY <1>2, <1>3

LEMMA PullsOfWeakOff ==
    ASSUME NEW f, ~weak_rules_enabled
    PROVE  weak_rules_off(PullsOf(f))
  BY DEF weak_rules_off, PullsOf

LEMMA FlushPullsFacts ==
    /\ FlushPulls \in PullSet
    /\ ~weak_rules_enabled => weak_rules_off(FlushPulls)
  <1> DEFINE p == PullsOf(fanin[First.node])
  <1>1. p \in PullSet /\ (~weak_rules_enabled => weak_rules_off(p))
    BY PullsOfType, PullsOfWeakOff
  <1>2. \/ FlushPulls = p \/ FlushPulls = cut_off_pull_up(p) \/ FlushPulls = cut_off_pull_dn(p)
    BY DEF FlushPulls
  <1> HIDE DEF p
  <1>3. CASE FlushPulls = p
    BY <1>1, <1>3
  <1>4. CASE FlushPulls = cut_off_pull_up(p)
    BY <1>1, <1>4 DEF cut_off_pull_up, PullSet, Pull, weak_rules_off
  <1>5. CASE FlushPulls = cut_off_pull_dn(p)
    BY <1>1, <1>5 DEF cut_off_pull_dn, PullSet, Pull, weak_rules_off
  <1>6. QED
    BY <1>2, <1>3, <1>4, <1>5

LEMMA FlushWeakStrength == FlushWeak \in Strength
  BY StrengthOK, FlushPullsFacts DEF FlushWeak

-----------------------------------------------------------------------------
(* The lists of nodes to flush.                                              *)

LEMMA ArrangedFacts ==
    ASSUME NEW q, NEW groups, \A i \in DOMAIN groups : groups[i] \subseteq Node,
           NEW f \in Arranged(q, groups)
    PROVE  \E N \in Nat : f \in [1..N -> Node]
  <1> DEFINE S == {n \in UNION {groups[i] : i \in DOMAIN groups} : Position(q, n) = {}}
  <1>1. S \in SUBSET Node
    OBVIOUS
  <1>2. Cardinality(S) \in Nat
    <2>1. IsFiniteSet(Node)
      BY CircuitAssumption
    <2> HIDE DEF S
    <2>2. IsFiniteSet(S)
      BY <1>1, <2>1, FS_Subset
    <2>3. QED
      BY <2>2, FS_CardinalityType
  <1>3. f \in [1..Cardinality(S) -> S]
    BY DEF Arranged
  <1> HIDE DEF S
  <1>4. QED
    BY <1>1, <1>2, <1>3

LEMMA BehindType ==
    ASSUME NEW q \in Seq(Entry), NEW N \in Nat, NEW f \in [1..N -> Node],
           NEW b \in BOOLEAN
    PROVE  Behind(q, f, b) \in Seq(Entry)
  <1> DEFINE r == [i \in DOMAIN f |-> [Listed(f[i]) EXCEPT !.blocked = b]]
  <1>1. DOMAIN f = 1..N
    OBVIOUS
  <1>2. \A i \in 1..N : [Listed(f[i]) EXCEPT !.blocked = b] \in Entry
    BY DEF Listed, Entry
  <1>3. r \in [1..N -> Entry]
    BY <1>1, <1>2
  <1>4. r \in Seq(Entry)
    BY <1>3, SeqDef
  <1> HIDE DEF r
  <1>5. Behind(q, f, b) = q \o r
    BY DEF Behind, r
  <1>6. QED
    BY <1>4, <1>5, ConcatProperties

LEMMA MarkedType ==
    ASSUME NEW q \in Seq(Entry), NEW B
    PROVE  Marked(q, B) \in Seq(Entry)
  <1>1. Len(q) \in Nat /\ DOMAIN q = 1..Len(q) /\ \A i \in 1..Len(q) : q[i] \in Entry
    BY LenProperties, ElementOfSeq
  <1>2. ASSUME NEW e \in Entry, NEW b \in BOOLEAN PROVE [e EXCEPT !.blocked = b] \in Entry
    BY DEF Entry
  <1>3. \A i \in 1..Len(q) : [q[i] EXCEPT !.blocked = @ \/ q[i].node \in B] \in Entry
    BY <1>1, <1>2
  <1>4. Marked(q, B) \in [1..Len(q) -> Entry]
    BY <1>1, <1>3 DEF Marked
  <1>5. QED
    BY <1>1, <1>4, SeqDef

LEMMA EnlistType ==
    ASSUME ControlTypeOK, Root # 0, Enlist
    PROVE  uq' \in Seq(Entry)
  <1>1. Root \in Rule /\ RootNode \in Node
    BY RuleFacts DEF ControlTypeOK, Climb, Root, RootNode
  <1>2. Len(uq) \in Nat /\ DOMAIN uq = 1..Len(uq) /\ \A i \in 1..Len(uq) : uq[i] \in Entry
    BY LenProperties, ElementOfSeq DEF ControlTypeOK
  <1>3. [Listed(RootNode) EXCEPT !.rule = Root] \in Entry
    BY <1>1 DEF Listed, Entry
  <1>4. \A i \in 1..Len(uq) : [uq[i] EXCEPT !.rule = Root] \in Entry
    BY <1>1, <1>2 DEF Entry
  <1>5. CASE Position(uq, RootNode) = {}
    BY <1>3, <1>5, AppendProperties DEF Enlist, ControlTypeOK
  <1>6. CASE Position(uq, RootNode) # {}
    <2>1. uq' \in [1..Len(uq) -> Entry]
      BY <1>2, <1>4, <1>6 DEF Enlist
    <2>2. QED
      BY <1>2, <2>1, SeqDef
  <1>7. QED
    BY <1>5, <1>6

-----------------------------------------------------------------------------
(* The control invariant.                                                    *)

LEMMA InitControl == EngineInit => Control
  <1> SUFFICES ASSUME EngineInit PROVE Control
    OBVIOUS
  <1>1. /\ stage = "idle" /\ cause = NoCause /\ todo = <<>> /\ climb = NoClimb
        /\ uq = <<>> /\ phase = "idle"
    BY DEF EngineInit, Init
  <1>2. ControlTypeOK
    BY <1>1, NoCauseType, NoClimbType, EmptySeq DEF ControlTypeOK, Stage
  <1>3. QED
    BY <1>1, <1>2, NoCauseType, NoClimbType
    DEF Control, InStep, Loading, Tidy, CauseIsValue

\* A step from the idle stage that leaves the engine alone.
LEMMA IdleControl ==
    ASSUME Control, stage = "idle", phase' # "propagate",
           UNCHANGED <<stage, cause, todo, climb, uq>>
    PROVE  Control'
  <1>1. ControlTypeOK' /\ InStep' /\ Loading' /\ Tidy'
    BY DEF Control, ControlTypeOK, InStep, Loading, Tidy
  <1>2. CauseIsValue'
    BY NoCauseType DEF Control, CauseIsValue
  <1>3. QED
    BY <1>1, <1>2 DEF Control

\* The engine begins to evaluate a committed change.
LEMMA BeginControl ==
    ASSUME Control, stage = "idle", value \in [Node -> Value],
           NEW n \in Node, NEW v \in Value, Begin(n, v),
           phase' = "propagate", value' = [value EXCEPT ![n] = v]
    PROVE  Control'
  <1>1. /\ stage' = "evaluate" /\ cause' = [node |-> n, val |-> v, prev |-> value[n]]
        /\ todo' = Fanout[n] /\ UNCHANGED <<climb, uq>>
    BY DEF Begin
  <1>2. cause' \in Cause /\ cause'.node = n /\ cause'.val = v
    BY <1>1 DEF Cause
  <1>3. value'[n] = v
    OBVIOUS
  <1>4. todo' \in Seq(ExprId)
    BY <1>1, CircuitAssumption
  <1>5. ControlTypeOK' /\ Tidy'
    BY <1>1, <1>2, <1>4 DEF Control, ControlTypeOK, Stage, Tidy
  <1>6. InStep' /\ Loading' /\ CauseIsValue'
    BY <1>1, <1>2, <1>3 DEF InStep, Loading, CauseIsValue
  <1>7. QED
    BY <1>5, <1>6 DEF Control

\* A step inside a stage that leaves the event machinery and the stage alone.
LEMMA InsideControl ==
    ASSUME Control, UNCHANGED <<phase, stage, cause>>, UNCHANGED value,
           ControlTypeOK', Tidy'
    PROVE  Control'
  <1>1. InStep' /\ Loading' /\ CauseIsValue'
    BY DEF Control, InStep, Loading, CauseIsValue
  <1>2. QED
    BY <1>1 DEF Control

LEMMA CommandsControl == Sound /\ Control /\ Commands => Control'
  <1> SUFFICES ASSUME Sound, Control, Commands PROVE Control'
    OBVIOUS
  <1>0. stage = "idle" /\ phase # "propagate" /\ value \in [Node -> Value] /\ Settable \subseteq Node
    BY CircuitAssumption DEF Commands, Control, InStep, Sound, StepTypeOK
  <1>1. ASSUME NEW n, NEW v, NEW s, Set(n, v, s) PROVE Control'
    BY <1>0, <1>1, IdleControl DEF Set, SetNode, stepVars, engineVars
  <1>2. ASSUME NEW n, NEW v, NEW s, SetForced(n, v, s) PROVE Control'
    BY <1>0, <1>2, IdleControl DEF SetForced, SetNodeForced, stepVars, engineVars
  <1>3. ASSUME NEW n, Deschedule(n) PROVE Control'
    BY <1>0, <1>3, IdleControl DEF Deschedule, DescheduleEvent, stepVars, engineVars
  <1>4. ASSUME NEW n, Freeze(n) PROVE Control'
    BY <1>0, <1>4, IdleControl DEF Freeze, FreezeNode, engineVars
  <1>5. ASSUME NEW n, NEW d, Unset(n, d) PROVE Control'
    BY <1>0, <1>5, IdleControl DEF Unset, UnsetNode, engineVars
  <1>6. ASSUME NEW n \in Node, NEW v \in Value, CommitNow(n, v) PROVE Control'
    <2>1. CASE phase' = "propagate"
      <3>1. Begin(n, v) /\ value' = [value EXCEPT ![n] = v]
        BY <1>6, <2>1 DEF CommitNow, SetNow
      <3>2. QED
        BY <1>0, <2>1, <3>1, BeginControl
    <2>2. CASE phase' # "propagate"
      <3>1. UNCHANGED <<stage, cause, todo, climb, uq>>
        BY <1>6, <2>2 DEF CommitNow, Refused, engineVars
      <3>2. QED
        BY <1>0, <2>2, <3>1, IdleControl
    <2>3. QED
      BY <2>1, <2>2
  <1>7. ASSUME NEW s, NEW b, Reinitialize(s, b) PROVE Control'
    BY <1>0, <1>7, IdleControl DEF Reinitialize, Initialize
  <1>8. ASSUME NEW b, CheckExcl(b) PROVE Control'
    BY <1>0, <1>8, IdleControl DEF CheckExcl, vars
  <1>9. ASSUME Load PROVE Control'
    <2>1. /\ stage' = "load" /\ phase' = phase /\ phase = "idle" /\ cause = NoCause
          /\ UNCHANGED <<value, cause, todo, climb, uq>>
      BY <1>0, <1>9 DEF Load, Prompt, vars, Control, CauseIsValue
    <2>2. ControlTypeOK' /\ Tidy'
      BY <1>0, <2>1 DEF Control, ControlTypeOK, Tidy, Stage
    <2>3. InStep' /\ Loading' /\ CauseIsValue'
      BY <2>1, NoCauseType DEF InStep, Loading, CauseIsValue
    <2>4. QED
      BY <2>2, <2>3 DEF Control
  <1>10. QED
    BY <1>0, <1>1, <1>2, <1>3, <1>4, <1>5, <1>6, <1>7, <1>8, <1>9 DEF Commands

LEMMA DequeueControl == Sound /\ Control /\ Dequeue => Control'
  <1> SUFFICES ASSUME Sound, Control, Dequeue PROVE Control'
    OBVIOUS
  <1>0. stage = "idle" /\ value \in [Node -> Value] /\ Structures
    BY DEF Dequeue, Sound, StepTypeOK
  <1>1. CASE Nothing
    BY <1>0, <1>1, IdleControl DEF Nothing, StepNothing, engineVars
  <1>2. ASSUME NEW k \in DOMAIN queue, Skip(k) PROVE Control'
    <2>1. phase' # "propagate" /\ UNCHANGED engineVars
      BY <1>2 DEF Skip, StepXX, StepVacuous
    <2>2. QED
      BY <1>0, <2>1, IdleControl DEF engineVars
  <1>3. ASSUME NEW k \in DOMAIN queue, Refuse(k) PROVE Control'
    <2>1. phase' # "propagate" /\ UNCHANGED <<stage, cause, todo, climb, uq>>
      BY <1>3 DEF Refuse, StepExclRefused, Refused
    <2>2. QED
      BY <1>0, <2>1, IdleControl
  <1>4. ASSUME NEW k \in DOMAIN queue, Commit(k) PROVE Control'
    <2> DEFINE e == pool[queue[k].ev]
    <2>1. /\ FirstLive(k) /\ value' = [value EXCEPT ![e.node] = e.val]
          /\ phase' = "propagate" /\ Begin(e.node, e.val)
      BY <1>4 DEF Commit, StepCommit, Executing
    <2>2. e \in Event /\ e.node \in Node
      BY <1>0, <2>1, FrontFacts
    <2>3. e.val \in Value
      BY <2>2 DEF Event
    <2> HIDE DEF e
    <2>4. QED
      BY <1>0, <2>1, <2>2, <2>3, BeginControl
  <1>5. QED
    BY <1>1, <1>2, <1>3, <1>4 DEF Dequeue

LEMMA EnforceType ==
    ASSUME ControlTypeOK, Enforce
    PROVE  uq' \in Seq(Entry)
  <1> DEFINE hi == RingCount(ring.hi, MkExHi, LOGIC_HIGH)
             lo == RingCount(ring.lo, MkExLo, LOGIC_LOW)
             B == Blocked(MkExHi, LOGIC_HIGH) \cup Blocked(MkExLo, LOGIC_LOW)
  <1>1. ASSUME NEW rings \in {MkExHi, MkExLo}, NEW count, NEW v
        PROVE  \A i \in DOMAIN Freed(rings, count, v) : Freed(rings, count, v)[i] \subseteq Node
    BY CircuitAssumption DEF Freed
  <1>2. PICK f \in Arranged(uq, Freed(MkExHi, hi, LOGIC_HIGH)) :
            \E g \in Arranged(Behind(uq, f, FALSE), Freed(MkExLo, lo, LOGIC_LOW)) :
                LET r == Marked(Behind(Behind(uq, f, FALSE), g, FALSE), B)
                IN  \E h \in Arranged(r, <<Late(B)>>) : uq' = Behind(r, h, TRUE)
    BY DEF Enforce
  <1> HIDE DEF hi, lo
  <1>3. Behind(uq, f, FALSE) \in Seq(Entry)
    BY <1>1, ArrangedFacts, BehindType DEF ControlTypeOK
  <1>4. PICK g \in Arranged(Behind(uq, f, FALSE), Freed(MkExLo, lo, LOGIC_LOW)) :
                LET r == Marked(Behind(Behind(uq, f, FALSE), g, FALSE), B)
                IN  \E h \in Arranged(r, <<Late(B)>>) : uq' = Behind(r, h, TRUE)
    BY <1>2
  <1>5. Behind(Behind(uq, f, FALSE), g, FALSE) \in Seq(Entry)
    BY <1>1, <1>3, ArrangedFacts, BehindType
  <1> DEFINE r == Marked(Behind(Behind(uq, f, FALSE), g, FALSE), B)
  <1>6. r \in Seq(Entry)
    BY <1>5, MarkedType
  <1>7. PICK h \in Arranged(r, <<Late(B)>>) : uq' = Behind(r, h, TRUE)
    BY <1>4
  <1>8. \A i \in DOMAIN <<Late(B)>> : <<Late(B)>>[i] \subseteq Node
    <2>1. B \subseteq Node
      BY CircuitAssumption DEF Blocked, RingsOfCause
    <2> HIDE DEF B
    <2>2. QED
      BY <2>1 DEF Late
  <1> HIDE DEF r
  <1>9. QED
    BY <1>6, <1>7, <1>8, ArrangedFacts, BehindType

LEMMA EngineControl == Sound /\ Control /\ Engine => Control'
  <1> SUFFICES ASSUME Sound, Control, Engine PROVE Control'
    OBVIOUS
  <1>0. ControlTypeOK /\ InStep /\ Loading /\ Tidy /\ CauseIsValue
        /\ value \in [Node -> Value]
    BY DEF Control, Sound, StepTypeOK
  <1>1. ASSUME NEW i \in DOMAIN todo, EvaluateNext(i) PROVE Control'
    <2>1. /\ stage \in {"evaluate", "load"}
          /\ todo' = SeqExt!RemoveAt(todo, i)
          /\ climb' = [expr |-> todo[i], rule |-> 0, prev |-> cause.prev, next |-> cause.val]
          /\ UNCHANGED <<phase, value, stage, cause, uq>>
      BY <1>1 DEF EvaluateNext, vars
    <2>2. todo' \in Seq(ExprId) /\ todo[i] \in ExprId
      BY <1>0, <2>1, RemoveAtFacts, ElementOfSeq DEF ControlTypeOK
    <2>3. todo[i] # 0
      BY <2>2, CircuitAssumption
    <2>4. climb' \in Climb /\ climb'.expr = todo[i] /\ climb'.rule = 0
      BY <1>0, <2>1, <2>2, PullIsValue DEF Climb, ControlTypeOK, Cause
    <2>5. ControlTypeOK' /\ Tidy'
      BY <1>0, <2>1, <2>2, <2>3, <2>4 DEF ControlTypeOK, Tidy
    <2>6. QED
      BY <2>1, <2>5, InsideControl
  <1>2. ASSUME EvaluateExpr PROVE Control'
    <2> DEFINE e == climb.expr
               c == Count(expr[e], Decisive(e), climb.prev, climb.next)
               old == pull_state(e, expr[e])
               new == pull_state(e, c)
    <2>1. /\ e \in ExprId /\ e # 0
          /\ climb' = CASE old = new -> NoClimb
                        [] old # new /\ Expr[e].root ->
                              [expr |-> 0, rule |-> e, prev |-> old, next |-> new]
                        [] old # new /\ ~Expr[e].root ->
                              [expr |-> Expr[e].parent, rule |-> 0,
                               prev |-> old, next |-> new]
          /\ UNCHANGED <<phase, value, stage, cause, todo, uq>>
      BY <1>0, <1>2 DEF EvaluateExpr, vars, ControlTypeOK, Climb
    <2>2. stage \in {"evaluate", "load"}
      BY <1>0, <2>1, NoClimbType DEF Tidy, ControlTypeOK, Stage
    <2>3. old \in Pull /\ new \in Pull
      BY <2>1, PullStateType
    <2> HIDE DEF c, old, new
    <2>4. /\ climb' \in Climb
          /\ climb'.expr # 0 => climb'.rule = 0
          /\ climb'.expr = 0 /\ climb'.rule = 0 => climb' = NoClimb
      <3>1. CASE old = new
        BY <2>1, <3>1, NoClimbType
      <3>2. CASE old # new /\ Expr[e].root
        <4>1. climb' = [expr |-> 0, rule |-> e, prev |-> old, next |-> new]
          BY <2>1, <3>2
        <4>2. e \in Rule
          BY <2>1, <3>2, CircuitAssumption
        <4>3. QED
          BY <2>1, <2>3, <4>1, <4>2 DEF Climb
      <3>3. CASE old # new /\ ~Expr[e].root
        <4>1. climb' = [expr |-> Expr[e].parent, rule |-> 0, prev |-> old, next |-> new]
          BY <2>1, <3>3
        <4>2. Expr[e].parent \in ExprId /\ Expr[e].parent # 0
          BY <2>1, <3>3, ParentFacts
        <4>3. QED
          BY <2>3, <4>1, <4>2 DEF Climb
      <3>4. QED
        BY <3>1, <3>2, <3>3
    <2>5. ControlTypeOK' /\ Tidy'
      BY <1>0, <2>1, <2>2, <2>4 DEF ControlTypeOK, Tidy
    <2>6. QED
      BY <2>1, <2>5, InsideControl
  <1>3. ASSUME EvaluateRoot PROVE Control'
    <2>1. Root # 0 /\ climb' = NoClimb /\ UNCHANGED <<stage, cause, todo>>
      BY <1>3 DEF EvaluateRoot
    <2>2. stage \in {"evaluate", "load"}
      BY <1>0, <2>1, NoClimbType DEF Tidy, ControlTypeOK, Stage, Root
    <2>3. UNCHANGED <<phase, value>>
      BY <1>3 DEF EvaluateRoot, PropagateKill, stepVars, vars
    <2>4. uq' \in Seq(Entry) /\ (stage = "load" => uq' = uq)
      <3>1. CASE stage = "load" \/ RootUnchanged \/ Suppressed
        BY <1>0, <1>3, <3>1 DEF EvaluateRoot, ControlTypeOK
      <3>2. CASE ~(stage = "load" \/ RootUnchanged \/ Suppressed)
        BY <1>0, <1>3, <2>1, <3>2, EnlistType DEF EvaluateRoot
      <3>3. QED
        BY <3>1, <3>2
    <2>5. ControlTypeOK' /\ Tidy'
      BY <1>0, <2>1, <2>2, <2>4, NoClimbType DEF ControlTypeOK, Tidy
    <2>6. QED
      BY <2>1, <2>3, <2>5, InsideControl
  <1>4. ASSUME Enforce PROVE Control'
    <2>1. /\ stage = "evaluate" /\ stage' = "flush" /\ todo = <<>> /\ climb = NoClimb
          /\ UNCHANGED <<phase, value, cause, todo, climb>>
      BY <1>4 DEF Enforce, vars
    <2>2. uq' \in Seq(Entry)
      BY <1>0, <1>4, EnforceType
    <2>3. ControlTypeOK' /\ Tidy'
      BY <1>0, <2>1, <2>2 DEF ControlTypeOK, Tidy, Stage
    <2>4. InStep' /\ Loading' /\ CauseIsValue'
      BY <1>0, <2>1 DEF InStep, Loading, CauseIsValue
    <2>5. QED
      BY <2>3, <2>4 DEF Control
  <1>5. ASSUME NEW d, Flush(d) PROVE Control'
    <2>1. /\ stage = "flush" /\ uq # <<>> /\ uq' = Tail(uq)
          /\ UNCHANGED <<stage, cause, todo, climb>>
      BY <1>5 DEF Flush
    <2>2. UNCHANGED <<phase, value>>
      BY <1>5 DEF Flush, FlushSchedule, FlushKill, FlushOverwrite, vars
    <2>3. uq' \in Seq(Entry)
      BY <1>0, <2>1, HeadTailProperties DEF ControlTypeOK
    <2>4. ControlTypeOK' /\ Tidy'
      BY <1>0, <2>1, <2>3 DEF ControlTypeOK, Tidy
    <2>5. QED
      BY <2>1, <2>2, <2>4, InsideControl
  <1>6. ASSUME Return PROVE Control'
    <2>1. /\ phase \in {"propagate", "unwind"} /\ phase' # "propagate"
          /\ phase = "propagate" => stage = "flush" /\ uq = <<>>
          /\ stage' = "idle" /\ cause' = NoCause /\ UNCHANGED <<value, todo, climb, uq>>
      BY <1>6 DEF Return, StepReturn
    <2>2. stage \in {"idle", "flush"} /\ uq = <<>>
      BY <1>0, <2>1 DEF ControlTypeOK, Stage, InStep, Loading, Tidy
    <2>3. ControlTypeOK' /\ Tidy'
      BY <1>0, <2>1, <2>2, NoCauseType DEF ControlTypeOK, Tidy, Stage
    <2>4. InStep' /\ Loading' /\ CauseIsValue'
      BY <2>1, NoCauseType DEF InStep, Loading, CauseIsValue
    <2>5. QED
      BY <2>3, <2>4 DEF Control
  <1>7. ASSUME NEW n \in Node, LoadNode(n) PROVE Control'
    <2>1. /\ stage = "load" /\ climb = NoClimb
          /\ cause' = [node |-> n, val |-> value[n], prev |-> LOGIC_OTHER]
          /\ todo' = Fanout[n] /\ UNCHANGED <<phase, value, stage, climb, uq>>
      BY <1>7 DEF LoadNode, vars
    <2>2. cause' \in Cause /\ cause'.node = n /\ cause'.val = value[n]
          /\ cause'.prev = LOGIC_OTHER
      BY <1>0, <2>1 DEF Cause, Value
    <2>3. todo' \in Seq(ExprId)
      BY <2>1, CircuitAssumption
    <2>4. ControlTypeOK' /\ Tidy'
      BY <1>0, <2>1, <2>2, <2>3 DEF ControlTypeOK, Tidy
    <2>5. InStep' /\ Loading' /\ CauseIsValue'
      BY <1>0, <2>1, <2>2 DEF InStep, Loading, CauseIsValue
    <2>6. QED
      BY <2>4, <2>5 DEF Control
  <1>8. ASSUME LoadEvents PROVE Control'
    <2>1. /\ stage = "load" /\ todo = <<>> /\ climb = NoClimb
          /\ stage' \in {"lock", "idle"} /\ cause' = NoCause
          /\ phase = "idle" /\ UNCHANGED <<phase, value, todo, climb, uq>>
      BY <1>8 DEF LoadEvents, Restore, Prompt, stepVars
    <2>2. ControlTypeOK' /\ Tidy'
      BY <1>0, <2>1, NoCauseType DEF ControlTypeOK, Tidy, Stage
    <2>3. InStep' /\ Loading' /\ CauseIsValue'
      BY <2>1, NoCauseType DEF InStep, Loading, CauseIsValue
    <2>4. QED
      BY <2>2, <2>3 DEF Control
  <1>9. ASSUME NEW n \in Node, LoadLock(n) PROVE Control'
    <2>1. /\ stage = "lock" /\ cause' = [cause EXCEPT !.node = n]
          /\ UNCHANGED <<phase, value, stage, todo, climb, uq>>
      BY <1>9 DEF LoadLock, vars
    <2>2. cause' \in Cause
      BY <1>0, <2>1 DEF ControlTypeOK, Cause
    <2>3. ControlTypeOK' /\ Tidy'
      BY <1>0, <2>1, <2>2 DEF ControlTypeOK, Tidy
    <2>4. InStep' /\ Loading' /\ CauseIsValue'
      BY <1>0, <2>1 DEF InStep, Loading, CauseIsValue
    <2>5. QED
      BY <2>3, <2>4 DEF Control
  <1>10. ASSUME LoadDone PROVE Control'
    <2>1. /\ stage = "lock" /\ stage' = "idle" /\ cause' = NoCause
          /\ UNCHANGED <<phase, value, todo, climb, uq>>
      BY <1>10 DEF LoadDone, vars
    <2>2. ControlTypeOK' /\ Tidy'
      BY <1>0, <2>1, NoCauseType DEF ControlTypeOK, Tidy, Stage
    <2>3. InStep' /\ Loading' /\ CauseIsValue'
      BY <1>0, <2>1, NoCauseType DEF InStep, Loading, CauseIsValue
    <2>4. QED
      BY <2>2, <2>3 DEF Control
  <1>11. QED
    BY <1>1, <1>2, <1>3, <1>4, <1>5, <1>6, <1>7, <1>8, <1>9, <1>10, DequeueControl
    DEF Engine

-----------------------------------------------------------------------------
(* The engine implements the event machinery.                                *)

LEMMA CommandsImplement == Sound /\ Control /\ Commands => [Next]_vars
  <1> SUFFICES ASSUME Sound, Control, Commands PROVE [Next]_vars
    OBVIOUS
  <1>0. Settable \subseteq Node
    BY CircuitAssumption
  <1>1. ASSUME NEW n \in Node, NEW d \in Delays, Unset(n, d) PROVE Next
    <2> DEFINE p == PullsOf(fanin[n])
               v == IF pull_up_wins_any(p) THEN LOGIC_HIGH
                    ELSE IF pull_dn_wins_any(p) THEN LOGIC_LOW ELSE LOGIC_OTHER
    <2>1. UnsetNode(n, v, weak_wins_any(p), d)
      BY <1>1 DEF Unset
    <2>2. v \in Value
      BY DEF Value
    <2>3. weak_wins_any(p) \in Strength
      BY StrengthOK, PullsOfWeakOff
    <2> HIDE DEF p, v
    <2>4. QED
      BY <2>1, <2>2, <2>3 DEF Next, UserNext
  <1>2. QED
    BY <1>0, <1>1 DEF Commands, Set, SetForced, Deschedule, Freeze, CommitNow,
        Reinitialize, CheckExcl, Load, Next, UserNext

LEMMA FlushImplements ==
    ASSUME Sound, Control, NEW d \in Delays, Flush(d)
    PROVE  [Next]_vars
  <1> DEFINE n == First.node
  <1>1. First \in Entry
    BY HeadTailProperties DEF First, Flush, Control, ControlTypeOK
  <1>2. n \in Node /\ First.rule \in Rule \cup {0}
    BY <1>1 DEF Entry
  <1>3. FlushValue \in Value /\ FlushWeak \in Strength
    BY <1>2, PullValueIsValue, FlushWeakStrength DEF FlushValue, Sound, StepTypeOK
  <1>4. ASSUME NEW w, FlushOverwrite(n, IF w THEN pool[pending[n]].weak ELSE FlushWeak)
        PROVE  Next
    <2>1. pending[n] # 0
      BY <1>4 DEF FlushOverwrite
    <2>2. pool[pending[n]] \in Event
      BY <1>2, <2>1, PendingSound DEF Sound
    <2>3. pool[pending[n]].weak \in Strength
      BY <2>2 DEF Event
    <2>4. (IF w THEN pool[pending[n]].weak ELSE FlushWeak) \in Strength
      BY <2>3, <1>3
    <2>5. QED
      BY <1>2, <1>4, <2>4 DEF Next, SimNext
  <1>5. ASSUME FlushSchedule(n, FlushValue, First.rule, FlushWeak, d) PROVE Next
    BY <1>2, <1>3, <1>5 DEF Next, SimNext
  <1>6. ASSUME FlushKill(n) PROVE Next
    BY <1>2, <1>6 DEF Next, SimNext
  <1>7. \/ FlushSchedule(n, FlushValue, First.rule, FlushWeak, d)
        \/ FlushKill(n)
        \/ FlushOverwrite(n, IF have_interference(FlushPulls) THEN pool[pending[n]].weak
                             ELSE FlushWeak)
        \/ UNCHANGED vars
    BY DEF Flush
  <1>8. QED
    BY <1>4, <1>5, <1>6, <1>7

LEMMA EngineImplements == Sound /\ Control /\ EngineNext => [Next]_vars
  <1> SUFFICES ASSUME Sound, Control, EngineNext PROVE [Next]_vars
    OBVIOUS
  <1>1. CASE Dequeue
    BY <1>1 DEF Dequeue, Nothing, Skip, Refuse, Commit, Next, SimNext
  <1>2. CASE EvaluateRoot
    <2>1. RootNode \in Node
      BY <1>2, RuleFacts DEF EvaluateRoot, Control, ControlTypeOK, Climb, Root, RootNode
    <2>2. QED
      BY <1>2, <2>1 DEF EvaluateRoot, Next, SimNext
  <1>3. CASE Return
    BY <1>3 DEF Return, Next, SimNext
  <1>4. CASE LoadEvents
    BY <1>4 DEF LoadEvents, Next, UserNext
  <1>5. QED
    BY <1>1, <1>2, <1>3, <1>4, CommandsImplement, FlushImplements
    DEF EngineNext, Engine, EvaluateNext, EvaluateExpr, Enforce, LoadNode, LoadLock, LoadDone

\* In every circuit, session and mode the structures and the control of the
\* engine are sound.
THEOREM EngineInvariant == EngineSpec => [](Sound /\ Control)
  <1>1. EngineInit => Sound /\ Control
    BY InitSound, InitControl DEF EngineInit
  <1>2. Sound /\ Control /\ [EngineNext]_allVars => (Sound /\ Control)'
    <2> SUFFICES ASSUME Sound, Control, [EngineNext]_allVars PROVE Sound' /\ Control'
      OBVIOUS
    <2>1. CASE EngineNext
      <3>1. [Next]_vars
        BY <2>1, EngineImplements
      <3>2. CASE Next
        BY <2>1, <3>2, UserSound, SimSound, CommandsControl, EngineControl DEF Next, EngineNext
      <3>3. CASE UNCHANGED vars
        <4>1. Sound'
          BY <3>3, QuietSound DEF vars, Sound, StepTypeOK
        <4>2. QED
          BY <2>1, <4>1, CommandsControl, EngineControl DEF EngineNext
      <3>4. QED
        BY <3>1, <3>2, <3>3
    <2>2. CASE UNCHANGED allVars
      <3>1. UNCHANGED vars /\ UNCHANGED engineVars
        BY <2>2 DEF allVars
      <3>2. Sound'
        BY <3>1, QuietSound DEF vars, Sound, StepTypeOK
      <3>3. ControlTypeOK' /\ Tidy'
        BY <3>1 DEF Control, ControlTypeOK, Tidy, engineVars
      <3>4. QED
        BY <3>1, <3>2, <3>3, InsideControl DEF vars, engineVars
    <2>3. QED
      BY <2>1, <2>2
  <1>3. QED
    BY <1>1, <1>2, PTL DEF EngineSpec

\* Every behaviour of the engine is one of the event machinery, whatever the
\* circuit: what is proved of PrsimEvents holds of prsim's own choices.
THEOREM EngineImplementsEvents == EngineSpec => ImplementsEvents
  <1>1. EngineInit => Init
    BY DEF EngineInit
  <1>2. Sound /\ Control /\ [EngineNext]_allVars => [Next]_vars
    BY EngineImplements DEF allVars
  <1>3. QED
    BY <1>1, <1>2, EngineInvariant, PTL DEF EngineSpec, ImplementsEvents, Spec

\* unset_node leaves the node, or its pending event, with the value it is
\* pulled to.  With weak rules it need not: a 0 whose strong pull-up is off is
\* taken to be satisfied though a weak pull-up wins.
THEOREM UnsetIsRight ==
    ASSUME ~weak_rules_enabled
    PROVE  EngineSpec => UnsetRestores
  <1> DEFINE Wanted(n) == LET p == PullsOf(fanin[n])
                          IN  IF pull_up_wins_any(p) THEN LOGIC_HIGH
                              ELSE IF pull_dn_wins_any(p) THEN LOGIC_LOW ELSE LOGIC_OTHER
             Result(n) == IF pending'[n] = 0 THEN value[n] ELSE pool'[pending'[n]].val
             Right(n) == /\ pull_up_wins_any(PullsOf(fanin[n])) => Result(n) = LOGIC_HIGH
                         /\ pull_dn_wins_any(PullsOf(fanin[n])) => Result(n) = LOGIC_LOW
  <1>1. ASSUME Sound, NEW n \in Node, NEW d \in Delays, Unset(n, d)
        PROVE  Right(n)
    <2> DEFINE p == PullsOf(fanin[n])
    <2>1. weak_rules_off(p)
      BY PullsOfWeakOff
    <2>2. ~(pull_up_wins_any(p) /\ pull_dn_wins_any(p))
      BY DEF pull_up_wins_any, pull_dn_wins_any, PULL_ON, PULL_OFF
    <2>3. CASE state_holding(p)
      BY <2>1, <2>3 DEF pull_up_wins_any, pull_dn_wins_any, state_holding,
        normal_rules_off, weak_rules_off, PULL_ON, PULL_OFF
    <2>4. CASE pending[n] = 0 /\ pool' = pool
                /\ \/ value[n] = LOGIC_LOW /\ p.up = PULL_OFF
                   \/ value[n] = LOGIC_HIGH /\ p.dn = PULL_OFF
                   \/ value[n] = Wanted(n)
      <3>1. pending' = pending
        <4>1. ASSUME Schedule(n, NewEvent(n, Wanted(n), 0, weak_wins_any(p), FALSE), now + d)
              PROVE  FALSE
          <5>1. PICK i \in EventId :
                    /\ Fresh(i)
                    /\ pool' = [PoolAfterKill(n) EXCEPT ![i] =
                                    NewEvent(n, Wanted(n), 0, weak_wins_any(p), FALSE)]
            BY <4>1 DEF Schedule
          <5>2. pool'[i].node = n
            BY <5>1 DEF PoolAfterKill, NewEvent
          <5>3. QED
            BY <5>1, <5>2, <2>4, QueueAssumption DEF Fresh, InUse
        <4>2. QED
          BY <1>1, <2>4, <4>1 DEF Unset, UnsetNode, Rewrite, queueVars
      <3>2. Result(n) = value[n]
        BY <2>4, <3>1
      <3>3. QED
        BY <2>1, <2>2, <2>4, <3>2 DEF pull_up_wins_any, pull_dn_wins_any,
            weak_rules_off, PULL_ON, PULL_OFF
    <2>5. CASE pending'[n] # 0 /\ pool'[pending'[n]].val = Wanted(n)
      BY <2>2, <2>5
    <2>6. QED
      BY <1>1, <2>3, <2>4, <2>5 DEF Unset
  <1>2. Sound /\ Control /\ [EngineNext]_allVars =>
            [\A n \in Node : (\E d \in Delays : Unset(n, d)) => Right(n)]_allVars
    BY <1>1
  <1>3. EngineSpec => [][\A n \in Node : (\E d \in Delays : Unset(n, d)) => Right(n)]_allVars
    BY <1>2, EngineInvariant, PTL DEF EngineSpec
  <1>4. QED
    BY <1>3 DEF UnsetRestores
=============================================================================
