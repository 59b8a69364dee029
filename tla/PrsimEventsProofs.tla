------------------------- MODULE PrsimEventsProofs -------------------------
(***************************************************************************)
(* Proofs about PrsimEvents, for any set of nodes, any pool size, any      *)
(* bound on time, any delays and any circuit.                              *)
(***************************************************************************)
EXTENDS PrsimEvents, SequenceTheorems, TLAPS

-----------------------------------------------------------------------------
(* The queue as a sequence of placeholders.                                  *)

Evs(q) == {q[k].ev : k \in DOMAIN q}
Unique(q) == \A j, k \in DOMAIN q : q[j].ev = q[k].ev => j = k

\* Inserting a placeholder of a new event adds that event and no other, and
\* keeps the placeholders unique.
LEMMA InsertAtFacts ==
    ASSUME NEW q \in Seq(Placeholder), NEW p \in Placeholder,
           NEW k \in 1..(Len(q) + 1)
    PROVE  /\ InsertAt(q, k, p) \in Seq(Placeholder)
           /\ Len(InsertAt(q, k, p)) = Len(q) + 1
           /\ DOMAIN InsertAt(q, k, p) = 1..(Len(q) + 1)
           /\ \A j \in 1..(Len(q) + 1) :
                InsertAt(q, k, p)[j] =
                    IF j < k THEN q[j] ELSE IF j = k THEN p ELSE q[j - 1]
           /\ Evs(InsertAt(q, k, p)) = Evs(q) \cup {p.ev}
           /\ Unique(q) /\ p.ev \notin Evs(q) => Unique(InsertAt(q, k, p))
  <1> DEFINE r == InsertAt(q, k, p)
  <1>1. Len(q) \in Nat /\ DOMAIN q = 1..Len(q)
    BY LenProperties
  <1>2. \A j \in 1..Len(q) : q[j] \in Placeholder
    BY ElementOfSeq
  <1>3. DOMAIN r = 1..(Len(q) + 1)
    BY DEF InsertAt
  <1>4. \A j \in 1..(Len(q) + 1) :
            r[j] = IF j < k THEN q[j] ELSE IF j = k THEN p ELSE q[j - 1]
    BY DEF InsertAt
  <1>5. \A j \in 1..(Len(q) + 1) : r[j] \in Placeholder
    BY <1>1, <1>2, <1>4
  <1>6. r \in [1..(Len(q) + 1) -> Placeholder]
    BY <1>5 DEF InsertAt
  <1>7. r \in Seq(Placeholder) /\ Len(r) = Len(q) + 1
    <2>1. r \in Seq(Placeholder)
      BY <1>1, <1>6, SeqDef, Len(q) + 1 \in Nat
    <2>2. QED
      BY <2>1, <1>1, <1>3, LenProperties
  <1>8. Evs(r) = Evs(q) \cup {p.ev}
    <2>1. ASSUME NEW x \in Evs(r) PROVE x \in Evs(q) \cup {p.ev}
      <3>1. PICK j \in 1..(Len(q) + 1) : x = r[j].ev
        BY <1>3 DEF Evs
      <3>2. CASE j < k
        BY <3>1, <3>2, <1>1, <1>4 DEF Evs
      <3>3. CASE j = k
        BY <3>1, <3>3, <1>4
      <3>4. CASE j > k
        <4>1. j - 1 \in 1..Len(q) /\ r[j] = q[j - 1]
          BY <3>4, <1>1, <1>4
        <4>2. QED
          BY <4>1, <3>1, <1>1 DEF Evs
      <3>5. QED
        BY <3>2, <3>3, <3>4
    <2>2. p.ev \in Evs(r)
      BY <1>1, <1>3, <1>4 DEF Evs
    <2>3. ASSUME NEW x \in Evs(q) PROVE x \in Evs(r)
      <3>1. PICK j \in 1..Len(q) : x = q[j].ev
        BY <1>1 DEF Evs
      <3>2. CASE j < k
        <4>1. j \in 1..(Len(q) + 1) /\ r[j] = q[j]
          BY <3>2, <1>1, <1>4
        <4>2. QED
          BY <4>1, <3>1, <1>3 DEF Evs
      <3>3. CASE j >= k
        <4>1. j + 1 \in 1..(Len(q) + 1) /\ r[j + 1] = q[j]
          BY <3>3, <1>1, <1>4
        <4>2. QED
          BY <4>1, <3>1, <1>3 DEF Evs
      <3>4. QED
        BY <3>2, <3>3, <1>1
    <2>4. QED
      BY <2>1, <2>2, <2>3
  <1>9. ASSUME Unique(q), p.ev \notin Evs(q) PROVE Unique(r)
    <2> SUFFICES ASSUME NEW i \in 1..(Len(q) + 1), NEW j \in 1..(Len(q) + 1),
                        r[i].ev = r[j].ev
                 PROVE  i = j
      BY <1>3 DEF Unique
    <2>1. \A m \in 1..Len(q) : q[m].ev # p.ev
      BY <1>9, <1>1 DEF Evs
    <2>2. \A l, m \in 1..Len(q) : q[l].ev = q[m].ev => l = m
      BY <1>9, <1>1 DEF Unique
    <2>3. CASE i < k /\ j < k
      BY <2>2, <2>3, <1>1, <1>4
    <2>4. CASE i > k /\ j > k
      BY <2>2, <2>4, <1>1, <1>4
    <2>5. CASE i = k \/ j = k
      BY <2>1, <2>5, <1>1, <1>4
    <2>6. CASE i < k /\ j > k
      BY <2>2, <2>6, <1>1, <1>4
    <2>7. CASE i > k /\ j < k
      BY <2>2, <2>7, <1>1, <1>4
    <2>8. QED
      BY <2>3, <2>4, <2>5, <2>6, <2>7
  <1>10. QED
    BY <1>3, <1>4, <1>7, <1>8, <1>9

\* Dropping the first k placeholders drops exactly their events, because the
\* placeholders are unique.
LEMMA DropFirstFacts ==
    ASSUME NEW q \in Seq(Placeholder), NEW k \in 0..Len(q), Unique(q)
    PROVE  /\ DropFirst(q, k) \in Seq(Placeholder)
           /\ Len(DropFirst(q, k)) = Len(q) - k
           /\ DOMAIN DropFirst(q, k) = 1..(Len(q) - k)
           /\ \A j \in 1..(Len(q) - k) : DropFirst(q, k)[j] = q[j + k]
           /\ Unique(DropFirst(q, k))
           /\ Evs(DropFirst(q, k)) = Evs(q) \ {q[j].ev : j \in 1..k}
  <1> DEFINE r == DropFirst(q, k)
  <1>1. Len(q) \in Nat /\ DOMAIN q = 1..Len(q)
    BY LenProperties
  <1>2. \A j \in 1..Len(q) : q[j] \in Placeholder
    BY ElementOfSeq
  <1>3. DOMAIN r = 1..(Len(q) - k)
    BY DEF DropFirst
  <1>4. \A j \in 1..(Len(q) - k) : r[j] = q[j + k] /\ j + k \in 1..Len(q)
    BY <1>1 DEF DropFirst
  <1>5. r \in [1..(Len(q) - k) -> Placeholder]
    BY <1>2, <1>4 DEF DropFirst
  <1>6. r \in Seq(Placeholder) /\ Len(r) = Len(q) - k
    <2>1. Len(q) - k \in Nat
      BY <1>1
    <2>2. r \in Seq(Placeholder)
      BY <2>1, <1>5, SeqDef
    <2>3. QED
      BY <2>1, <2>2, <1>3, LenProperties
  <1>7. \A l, m \in 1..Len(q) : q[l].ev = q[m].ev => l = m
    BY <1>1 DEF Unique
  <1>8. Unique(r)
    BY <1>1, <1>3, <1>4, <1>7 DEF Unique
  <1>9. Evs(r) = Evs(q) \ {q[j].ev : j \in 1..k}
    <2>1. ASSUME NEW x \in Evs(r)
          PROVE  x \in Evs(q) /\ x \notin {q[j].ev : j \in 1..k}
      <3>1. PICK j \in 1..(Len(q) - k) : x = q[j + k].ev
        BY <1>3, <1>4 DEF Evs
      <3>2. x \in Evs(q)
        BY <3>1, <1>1, <1>4 DEF Evs
      <3>3. ASSUME NEW l \in 1..k, x = q[l].ev PROVE FALSE
        <4>1. l \in 1..Len(q) /\ j + k \in 1..Len(q) /\ l # j + k
          BY <1>1
        <4>2. q[l].ev = q[j + k].ev
          BY <3>1, <3>3
        <4>3. QED
          BY <4>1, <4>2, <1>7
      <3>4. QED
        BY <3>2, <3>3
    <2>2. ASSUME NEW x \in Evs(q), x \notin {q[j].ev : j \in 1..k}
          PROVE  x \in Evs(r)
      <3>1. PICK l \in 1..Len(q) : x = q[l].ev
        BY <1>1 DEF Evs
      <3>2. l > k
        BY <2>2, <3>1, <1>1
      <3>3. l - k \in 1..(Len(q) - k) /\ r[l - k] = q[l]
        BY <3>2, <1>1, <1>4
      <3>4. QED
        BY <3>1, <3>3, <1>3 DEF Evs
    <2>3. QED
      BY <2>1, <2>2
  <1>10. QED
    BY <1>3, <1>4, <1>6, <1>8, <1>9

-----------------------------------------------------------------------------
(* The inductive invariant of pool, queue and back references.               *)

QTypeOK ==
    /\ queue \in Seq(Placeholder)
    /\ pool \in [EventId -> Event]
    /\ pending \in [Node -> EventId \cup {0}]

\* An event is in use exactly when it has a placeholder.
UsedIsQueued == \A i \in EventId : InUse(i) <=> i \in Evs(queue)

\* Node and event refer to each other, in both directions.
BackToEvent ==
    \A n \in Node : pending[n] # 0 =>
        Live(pending[n]) /\ pool[pending[n]].node = n
BackToNode == \A i \in EventId : Live(i) => pending[pool[i].node] = i

QInv == QTypeOK /\ Unique(queue) /\ UsedIsQueued /\ BackToEvent /\ BackToNode

\* A step makes no event live, except those that become e.
LiveOrNew(e) ==
    \A i \in EventId : Live(i)' =>
        (Live(i) /\ pool'[i] = pool[i]) \/ pool'[i] = e
NothingRevived ==
    \A i \in EventId : Live(i)' => Live(i) /\ pool'[i] = pool[i]

\* The placeholders of a queue of the right type.
LEMMA QueueFacts ==
    ASSUME queue \in Seq(Placeholder)
    PROVE  /\ Len(queue) \in Nat /\ DOMAIN queue = 1..Len(queue)
           /\ \A j \in 1..Len(queue) :
                /\ queue[j] \in Placeholder
                /\ queue[j].ev \in EventId
                /\ queue[j].time \in Time
  <1>1. Len(queue) \in Nat /\ DOMAIN queue = 1..Len(queue)
    BY LenProperties
  <1>2. \A j \in 1..Len(queue) : queue[j] \in Placeholder
    BY ElementOfSeq
  <1>3. QED
    BY <1>1, <1>2 DEF Placeholder

\* Killing an event changes nothing else in it.
LEMMA KilledFacts ==
    ASSUME NEW e \in Event
    PROVE  /\ [e EXCEPT !.killed = TRUE] \in Event
           /\ [e EXCEPT !.killed = TRUE].node = e.node
           /\ [e EXCEPT !.killed = TRUE].killed
  <1>1. [e EXCEPT !.killed = TRUE] \in Event
    BY DEF Event
  <1>2. /\ [e EXCEPT !.killed = TRUE].node = e.node
        /\ [e EXCEPT !.killed = TRUE].killed
    BY DEF Event
  <1>3. QED
    BY <1>1, <1>2

\* The pool after killing the pending event of n.
LEMMA PoolAfterKillFacts ==
    ASSUME QTypeOK, NEW n \in Node
    PROVE  /\ PoolAfterKill(n) \in [EventId -> Event]
           /\ \A i \in EventId :
                /\ PoolAfterKill(n)[i].node = pool[i].node
                /\ i # pending[n] => PoolAfterKill(n)[i] = pool[i]
                /\ i = pending[n] => PoolAfterKill(n)[i].killed
  <1>1. \A i \in EventId : pool[i] \in Event
    BY DEF QTypeOK
  <1>2. \A i \in EventId :
            PoolAfterKill(n)[i] = IF i = pending[n]
                                  THEN [pool[i] EXCEPT !.killed = TRUE]
                                  ELSE pool[i]
    BY DEF PoolAfterKill
  <1>3. \A i \in EventId : PoolAfterKill(n)[i] \in Event
    BY <1>1, <1>2, KilledFacts
  <1>4. PoolAfterKill(n) \in [EventId -> Event]
    BY <1>3 DEF PoolAfterKill
  <1>5. QED
    BY <1>1, <1>2, <1>4, KilledFacts

\* Killing the pending event of a node keeps the structures in agreement.
LEMMA KillEventInv ==
    ASSUME QInv, NEW n \in Node, pending[n] # 0, KillEvent(n)
    PROVE  QInv' /\ NothingRevived
  <1> USE QueueAssumption
  <1>1. pending[n] \in EventId /\ 0 \notin EventId
    BY DEF QInv, QTypeOK, EventId
  <1>2. /\ pool' \in [EventId -> Event]
        /\ \A i \in EventId : /\ pool'[i].node = pool[i].node
                              /\ i # pending[n] => pool'[i] = pool[i]
                              /\ i = pending[n] => pool'[i].killed
    BY PoolAfterKillFacts DEF KillEvent, QInv
  <1>3. QTypeOK'
    BY <1>1, <1>2 DEF KillEvent, QInv, QTypeOK
  <1>4. \A i \in EventId : /\ pool'[i].node = pool[i].node
                           /\ ~pool'[i].killed =>
                                 i # pending[n] /\ ~pool[i].killed
                           /\ i # pending[n] /\ ~pool[i].killed =>
                                 ~pool'[i].killed
    BY <1>2
  <1>5. Unique(queue)' /\ UsedIsQueued'
    BY <1>4 DEF KillEvent, QInv, Unique, UsedIsQueued, InUse, Evs
  <1>6. \A m \in Node : pending'[m] = IF m = n THEN 0 ELSE pending[m]
    BY DEF KillEvent, QInv, QTypeOK
  <1>7. BackToEvent'
    <2> SUFFICES ASSUME NEW m \in Node, pending'[m] # 0
                 PROVE  /\ pool'[pending'[m]].node = m
                        /\ pool'[pending'[m]].node # 0
                        /\ ~pool'[pending'[m]].killed
      BY DEF BackToEvent, Live, InUse
    <2>1. m # n /\ pending'[m] = pending[m] /\ pending[m] \in EventId
      BY <1>6 DEF QInv, QTypeOK
    <2>2. Live(pending[m]) /\ pool[pending[m]].node = m
      BY <2>1 DEF QInv, BackToEvent
    <2>3. pending[m] # pending[n]
      BY <2>1, <2>2, <1>1 DEF QInv, BackToEvent
    <2>4. QED
      BY <2>1, <2>2, <2>3, <1>4 DEF Live, InUse
  <1>8. BackToNode'
    <2> SUFFICES ASSUME NEW i \in EventId, Live(i)'
                 PROVE  pending'[pool'[i].node] = i
      BY DEF BackToNode
    <2>1. i # pending[n] /\ Live(i) /\ pool'[i].node = pool[i].node
      BY <1>4 DEF Live, InUse
    <2>2. pending[pool[i].node] = i /\ pool[i].node \in Node
      BY <2>1 DEF QInv, QTypeOK, Event, BackToNode, Live, InUse
    <2>3. QED
      BY <2>1, <2>2, <1>6
  <1>9. NothingRevived
    BY <1>2, <1>4 DEF NothingRevived, Live, InUse
  <1>10. QED
    BY <1>3, <1>5, <1>7, <1>8, <1>9 DEF QInv

\* So does allocating an event for a node, after killing the one it had, and
\* giving it a placeholder anywhere in the queue.
LEMMA AllocateInv ==
    ASSUME QInv, NEW n \in Node, NEW e \in Event, e.node = n, ~e.killed,
           NEW i \in EventId, Fresh(i), NEW t \in Time,
           NEW k \in 1..(Len(queue) + 1),
           pool' = [PoolAfterKill(n) EXCEPT ![i] = e],
           pending' = [pending EXCEPT ![n] = i],
           queue' = InsertAt(queue, k, [time |-> t, ev |-> i])
    PROVE  QInv' /\ LiveOrNew(e)
  <1> USE QueueAssumption
  <1>1. /\ pending[n] \in EventId \cup {0} /\ 0 \notin EventId
        /\ ~InUse(i) /\ i # pending[n] /\ n # 0
    BY DEF QInv, QTypeOK, EventId, Fresh, BackToEvent, Live, InUse
  <1>2. /\ queue \in Seq(Placeholder) /\ Unique(queue)
        /\ [time |-> t, ev |-> i] \in Placeholder
    BY DEF QInv, QTypeOK, Placeholder
  <1>3. i \notin Evs(queue)
    BY <1>1 DEF QInv, UsedIsQueued
  <1>4. /\ queue' \in Seq(Placeholder) /\ Unique(queue')
        /\ Evs(queue') = Evs(queue) \cup {i}
    BY <1>2, <1>3, InsertAtFacts
  <1>5. pool' \in [EventId -> Event] /\ pool'[i] = e
    BY PoolAfterKillFacts DEF QInv
  <1>6. \A j \in EventId :
            j # i => /\ pool'[j].node = pool[j].node
                     /\ j # pending[n] => pool'[j] = pool[j]
                     /\ ~pool'[j].killed =>
                            j # pending[n] /\ ~pool[j].killed
                     /\ j # pending[n] /\ ~pool[j].killed => ~pool'[j].killed
    BY PoolAfterKillFacts DEF QInv
  <1>7. pool'[i] = e
    BY <1>5
  <1>8. \A m \in Node : pending'[m] = IF m = n THEN i ELSE pending[m]
    BY DEF QInv, QTypeOK
  <1>9. QTypeOK'
    BY <1>4, <1>5 DEF QInv, QTypeOK
  <1>10. UsedIsQueued'
    BY <1>1, <1>4, <1>6, <1>7 DEF QInv, UsedIsQueued, InUse
  <1>11. BackToEvent'
    <2> SUFFICES ASSUME NEW m \in Node, pending'[m] # 0
                 PROVE  /\ pool'[pending'[m]].node = m
                        /\ pool'[pending'[m]].node # 0
                        /\ ~pool'[pending'[m]].killed
      BY DEF BackToEvent, Live, InUse
    <2>1. CASE m = n
      BY <2>1, <1>1, <1>7, <1>8 DEF Live, InUse
    <2>2. CASE m # n
      <3>1. pending'[m] = pending[m] /\ pending[m] \in EventId
        BY <2>2, <1>8 DEF QInv, QTypeOK
      <3>2. Live(pending[m]) /\ pool[pending[m]].node = m
        BY <3>1 DEF QInv, BackToEvent
      <3>3. pending[m] # i /\ pending[m] # pending[n]
        BY <2>2, <3>1, <3>2, <1>1 DEF QInv, BackToEvent, Live
      <3>4. QED
        BY <3>1, <3>2, <3>3, <1>6 DEF Live, InUse
    <2>3. QED
      BY <2>1, <2>2
  <1>12. BackToNode'
    <2> SUFFICES ASSUME NEW j \in EventId, Live(j)'
                 PROVE  pending'[pool'[j].node] = j
      BY DEF BackToNode
    <2>1. CASE j = i
      BY <2>1, <1>7, <1>8
    <2>2. CASE j # i
      <3>1. j # pending[n] /\ Live(j) /\ pool'[j].node = pool[j].node
        BY <2>2, <1>6 DEF Live, InUse
      <3>2. pending[pool[j].node] = j /\ pool[j].node \in Node
        BY <3>1 DEF QInv, QTypeOK, Event, BackToNode, Live, InUse
      <3>3. QED
        BY <3>1, <3>2, <1>8
    <2>3. QED
      BY <2>1, <2>2
  <1>13. LiveOrNew(e)
    BY <1>6, <1>7 DEF LiveOrNew, Live, InUse
  <1>14. QED
    BY <1>4, <1>9, <1>10, <1>11, <1>12, <1>13 DEF QInv

\* The usual way: the placeholder goes where the multiset puts it.
LEMMA ScheduleInv ==
    ASSUME QInv, NEW n \in Node, NEW e \in Event, e.node = n, ~e.killed,
           NEW t \in Nat, Schedule(n, e, t)
    PROVE  QInv' /\ LiveOrNew(e)
  <1>1. t \in Time
    BY QueueAssumption DEF Schedule, Time
  <1>2. PICK i \in EventId :
            /\ Fresh(i)
            /\ pool' = [PoolAfterKill(n) EXCEPT ![i] = e]
            /\ pending' = [pending EXCEPT ![n] = i]
            /\ Enqueue(queue, i, t)
    BY DEF Schedule
  <1>3. PICK k \in 1..(Len(queue) + 1) :
            queue' = InsertAt(queue, k, [time |-> t, ev |-> i])
    BY <1>2 DEF Enqueue
  <1>4. QED
    BY <1>1, <1>2, <1>3, AllocateInv

\* Rewriting a pending event without changing what it is for.
LEMMA RewriteInv ==
    ASSUME QInv, NEW n \in Node, pending[n] # 0,
           NEW e \in Event, e.node = n, ~e.killed, Rewrite(n, e)
    PROVE  QInv' /\ LiveOrNew(e)
  <1>1. pending[n] \in EventId /\ pool[pending[n]].node = n
        /\ ~pool[pending[n]].killed
    BY DEF QInv, QTypeOK, BackToEvent, Live
  <1>2. \A i \in EventId : /\ pool'[i].node = pool[i].node
                           /\ pool'[i].killed = pool[i].killed
    BY <1>1 DEF Rewrite, QInv, QTypeOK, Event
  <1>3. QTypeOK'
    BY DEF Rewrite, QInv, QTypeOK
  <1>4. Unique(queue)' /\ UsedIsQueued'
    BY <1>2 DEF Rewrite, QInv, Unique, UsedIsQueued, InUse, Evs
  <1>5. BackToEvent' /\ BackToNode'
    BY <1>2 DEF Rewrite, QInv, QTypeOK, BackToEvent, BackToNode, Live, InUse
  <1>6. LiveOrNew(e)
    BY <1>1 DEF Rewrite, QInv, QTypeOK, LiveOrNew, Live, InUse
  <1>7. QED
    BY <1>3, <1>4, <1>5, <1>6 DEF QInv
\* Freeing a set of events with their placeholders, provided that exactly the
\* nodes that refer to one of them forget it.
LEMMA FreeInv ==
    ASSUME QInv, NEW S \in SUBSET EventId,
           queue' \in Seq(Placeholder), Unique(queue'),
           Evs(queue') = Evs(queue) \ S,
           pool' = PoolWithout(S),
           pending' \in [Node -> EventId \cup {0}],
           \A n \in Node :
               pending'[n] = IF pending[n] \in S THEN 0 ELSE pending[n]
    PROVE  QInv' /\ NothingRevived
  <1> USE QueueAssumption
  <1>1. NullEvent \in Event /\ NullEvent.node = 0
    BY DEF NullEvent, Event, Value, LOGIC_OTHER
  <1>2. \A i \in EventId : pool'[i] = IF i \in S THEN NullEvent ELSE pool[i]
    BY DEF PoolWithout
  <1>3. QTypeOK'
    <2>1. \A i \in EventId : pool'[i] \in Event
      BY <1>1, <1>2 DEF QInv, QTypeOK
    <2>2. pool' \in [EventId -> Event]
      BY <2>1 DEF PoolWithout
    <2>3. QED
      BY <2>2 DEF QTypeOK
  <1>4. UsedIsQueued'
    BY <1>1, <1>2 DEF QInv, UsedIsQueued, InUse
  <1>5. BackToEvent'
    <2> SUFFICES ASSUME NEW m \in Node, pending'[m] # 0
                 PROVE  /\ pool'[pending'[m]].node = m
                        /\ pool'[pending'[m]].node # 0
                        /\ ~pool'[pending'[m]].killed
      BY DEF BackToEvent, Live, InUse
    <2>1. pending'[m] = pending[m] /\ pending[m] \in EventId \ S
      BY DEF QInv, QTypeOK
    <2>2. QED
      BY <2>1, <1>2 DEF QInv, BackToEvent, Live, InUse
  <1>6. \A i \in EventId : pool'[i].node # 0 => i \notin S /\ pool'[i] = pool[i]
    BY <1>1, <1>2
  <1>7. NothingRevived
    BY <1>6 DEF NothingRevived, Live, InUse
  <1>8. BackToNode'
    <2> SUFFICES ASSUME NEW i \in EventId,
                        pool'[i].node # 0, ~pool'[i].killed
                 PROVE  pending'[pool'[i].node] = i
      BY DEF BackToNode, Live, InUse
    <2>1. i \notin S /\ pool'[i] = pool[i]
      BY <1>6
    <2>2. pending[pool[i].node] = i /\ pool[i].node \in Node
      BY <2>1 DEF QInv, QTypeOK, Event, BackToNode, Live, InUse
    <2>3. QED
      BY <2>1, <2>2
  <1>9. QED
    BY <1>3, <1>4, <1>5, <1>7, <1>8 DEF QInv

\* The placeholder of the first live event and those before it: their events
\* are in use, and only the last of them is a node's pending event.
LEMMA FirstLiveFacts ==
    ASSUME QInv, NEW k \in DOMAIN queue, FirstLive(k)
    PROVE  /\ Len(queue) \in Nat /\ k \in 1..Len(queue)
           /\ DOMAIN queue = 1..Len(queue)
           /\ \A j \in 1..Len(queue) : queue[j] \in Placeholder
           /\ queue[k].ev \in EventId /\ queue[k].time \in Time
           /\ Live(queue[k].ev)
           /\ pool[queue[k].ev] \in Event
           /\ pool[queue[k].ev].node \in Node
           /\ pending[pool[queue[k].ev].node] = queue[k].ev
           /\ QueuedUpTo(k) \subseteq EventId
           /\ QueuedUpTo(k) = QueuedUpTo(k - 1) \cup {queue[k].ev}
           /\ queue[k].ev \notin QueuedUpTo(k - 1)
           /\ \A n \in Node : pending[n] \notin QueuedUpTo(k - 1)
  <1> USE QueueAssumption
  <1>1. /\ Len(queue) \in Nat /\ DOMAIN queue = 1..Len(queue)
        /\ \A j \in 1..Len(queue) : queue[j] \in Placeholder
    BY QueueFacts DEF QInv, QTypeOK
  <1>2. \A j \in 1..Len(queue) : queue[j].ev \in EventId /\ queue[j].time \in Time
    BY QueueFacts DEF QInv, QTypeOK
  <1>3. k \in 1..Len(queue) /\ queue[k].ev \in Evs(queue)
    BY <1>1 DEF Evs
  <1>4. Live(queue[k].ev)
    BY <1>1, <1>2, <1>3 DEF QInv, UsedIsQueued, FirstLive, Live
  <1>5. /\ pool[queue[k].ev] \in Event
        /\ pool[queue[k].ev].node \in Node
        /\ pending[pool[queue[k].ev].node] = queue[k].ev
    BY <1>2, <1>3, <1>4 DEF QInv, QTypeOK, Event, BackToNode, Live, InUse
  <1>6. QueuedUpTo(k) = QueuedUpTo(k - 1) \cup {queue[k].ev}
    <2>1. 1..k = 1..(k - 1) \cup {k}
      BY <1>1, <1>3
    <2>2. QED
      BY <2>1 DEF QueuedUpTo
  <1>7. QueuedUpTo(k) \subseteq EventId
    BY <1>1, <1>2, <1>3 DEF QueuedUpTo
  <1>8. queue[k].ev \notin QueuedUpTo(k - 1)
    BY <1>1, <1>3 DEF QueuedUpTo, QInv, Unique
  <1>9. ASSUME NEW n \in Node, pending[n] \in QueuedUpTo(k - 1) PROVE FALSE
    <2>1. PICK j \in 1..(k - 1) : pending[n] = queue[j].ev
      BY <1>9 DEF QueuedUpTo
    <2>2. pool[pending[n]].killed
      BY <2>1 DEF FirstLive
    <2>3. pending[n] \in EventId
      BY <2>1, <1>1, <1>2, <1>3
    <2>4. QED
      BY <2>2, <2>3 DEF QInv, BackToEvent, Live, EventId
  <1>10. QED
    BY <1>1, <1>2, <1>3, <1>4, <1>5, <1>6, <1>7, <1>8, <1>9

\* The first live event is executed: it and the killed ones before it go.
LEMMA SettleInv ==
    ASSUME QInv, NEW k \in DOMAIN queue, FirstLive(k), Settle(k)
    PROVE  /\ QInv' /\ NothingRevived
           /\ \A i \in EventId :
                Live(i)' => pool[i].node # pool[queue[k].ev].node
  <1> DEFINE n == pool[queue[k].ev].node
  <1>1. /\ Len(queue) \in Nat /\ k \in 0..Len(queue)
        /\ n \in Node /\ pending[n] = queue[k].ev
        /\ queue[k].ev \in EventId
        /\ QueuedUpTo(k) \subseteq EventId
        /\ QueuedUpTo(k) = QueuedUpTo(k - 1) \cup {queue[k].ev}
        /\ \A m \in Node : pending[m] \notin QueuedUpTo(k - 1)
    BY FirstLiveFacts
  <1>2. /\ queue' \in Seq(Placeholder) /\ Unique(queue')
        /\ Evs(queue') = Evs(queue) \ QueuedUpTo(k)
    BY <1>1, DropFirstFacts DEF Settle, QInv, QTypeOK, QueuedUpTo
  <1>3. pending' = [pending EXCEPT ![n] = 0]
    BY DEF Settle
  <1>4. pending' \in [Node -> EventId \cup {0}]
    BY <1>1, <1>3 DEF QInv, QTypeOK
  <1>5. ASSUME NEW m \in Node, m # n PROVE pending[m] # queue[k].ev
    <2>1. pending[m] # 0 => pool[pending[m]].node = m
      BY DEF QInv, BackToEvent
    <2>2. QED
      BY <2>1, <1>5, <1>1, QueueAssumption DEF EventId
  <1>6. \A m \in Node :
            pending'[m] = IF pending[m] \in QueuedUpTo(k) THEN 0 ELSE pending[m]
    BY <1>1, <1>3, <1>5 DEF QInv, QTypeOK
  <1>7. QInv' /\ NothingRevived
    BY <1>1, <1>2, <1>4, <1>6, FreeInv DEF Settle
  <1>8. ASSUME NEW i \in EventId, Live(i)', pool[i].node = n PROVE FALSE
    <2>1. pool'[i] = pool[i] /\ Live(i)
      BY <1>7, <1>8 DEF NothingRevived
    <2>2. pending[n] = i
      BY <2>1, <1>8 DEF QInv, BackToNode
    <2>3. pending'[n] = i
      BY <2>1, <1>7, <1>8 DEF QInv, BackToNode
    <2>4. QED
      BY <2>3, <1>1, <1>3, QueueAssumption DEF EventId, QInv, QTypeOK
  <1>9. QED
    BY <1>7, <1>8

\* The event is put back: only the killed ones before it go.
LEMMA RequeueInv ==
    ASSUME QInv, NEW k \in DOMAIN queue, FirstLive(k),
           Enqueue(DropFirst(queue, k), queue[k].ev, queue[k].time),
           pool' = PoolWithout(QueuedUpTo(k - 1)), UNCHANGED pending
    PROVE  QInv' /\ NothingRevived
  <1> DEFINE q == DropFirst(queue, k)
  <1> DEFINE p == [time |-> queue[k].time, ev |-> queue[k].ev]
  <1>1. /\ Len(queue) \in Nat /\ k \in 0..Len(queue)
        /\ p \in Placeholder /\ p.ev = queue[k].ev
        /\ queue[k].ev \in Evs(queue)
        /\ QueuedUpTo(k) \subseteq EventId
        /\ QueuedUpTo(k) = QueuedUpTo(k - 1) \cup {queue[k].ev}
        /\ queue[k].ev \notin QueuedUpTo(k - 1)
        /\ \A m \in Node : pending[m] \notin QueuedUpTo(k - 1)
    BY FirstLiveFacts DEF Placeholder, Evs
  <1>2. /\ q \in Seq(Placeholder) /\ Unique(q)
        /\ Evs(q) = Evs(queue) \ QueuedUpTo(k)
    BY <1>1, DropFirstFacts DEF QInv, QTypeOK, QueuedUpTo
  <1>3. PICK l \in 1..(Len(q) + 1) : queue' = InsertAt(q, l, p)
    BY DEF Enqueue
  <1>4. p.ev \notin Evs(q)
    BY <1>1, <1>2
  <1> HIDE DEF q, p
  <1>5. /\ queue' \in Seq(Placeholder) /\ Unique(queue')
        /\ Evs(queue') = Evs(q) \cup {p.ev}
    BY <1>1, <1>2, <1>3, <1>4, InsertAtFacts
  <1>6. Evs(queue') = Evs(queue) \ QueuedUpTo(k - 1)
    BY <1>1, <1>2, <1>5
  <1>7. QED
    BY <1>1, <1>5, <1>6, FreeInv DEF QInv, QTypeOK

\* The whole queue is emptied, and no node refers to an event afterwards.
LEMMA EmptyInv ==
    ASSUME QInv, queue' = <<>>, pool' = PoolWithout(QueuedUpTo(Len(queue))),
           pending' \in [Node -> EventId \cup {0}],
           \A n \in Node : pending'[n] = 0
    PROVE  QInv' /\ NothingRevived
  <1>1. /\ Len(queue) \in Nat /\ DOMAIN queue = 1..Len(queue)
        /\ \A j \in 1..Len(queue) : queue[j].ev \in EventId
    BY QueueFacts DEF QInv, QTypeOK
  <1>2. QueuedUpTo(Len(queue)) = Evs(queue)
    BY <1>1 DEF QueuedUpTo, Evs
  <1>3. Evs(queue) \subseteq EventId
    BY <1>1 DEF Evs
  <1>4. queue' \in Seq(Placeholder) /\ DOMAIN queue' = {}
    BY EmptySeq
  <1>5. Unique(queue') /\ Evs(queue') = {}
    BY <1>4 DEF Unique, Evs
  <1>6. \A n \in Node : pending[n] # 0 => pending[n] \in Evs(queue)
    BY DEF QInv, QTypeOK, BackToEvent, UsedIsQueued, Live
  <1>7. \A n \in Node :
            pending'[n] = IF pending[n] \in Evs(queue) THEN 0 ELSE pending[n]
    BY <1>6
  <1>8. QED
    BY <1>2, <1>3, <1>4, <1>5, <1>7, FreeInv

\* A live event at the front is replaced by a copy with a later placeholder.
LEMMA MoveInv ==
    ASSUME QInv, NEW k \in DOMAIN queue, FirstLive(k),
           NEW c \in EventId, Fresh(c), NEW t \in Time,
           pool' = [j \in EventId |->
                       IF j = c THEN pool[queue[k].ev]
                       ELSE IF j \in QueuedUpTo(k) THEN NullEvent
                       ELSE pool[j]],
           pending' = [pending EXCEPT ![pool[queue[k].ev].node] = c],
           Enqueue(DropFirst(queue, k), c, t)
    PROVE  QInv' /\ LiveOrNew(pool[queue[k].ev])
  <1> USE QueueAssumption
  <1> DEFINE q == DropFirst(queue, k)
             p == [time |-> t, ev |-> c]
             e == pool[queue[k].ev]
             S == QueuedUpTo(k)
  <1>1. /\ Len(queue) \in Nat /\ k \in 0..Len(queue)
        /\ e \in Event /\ e.node \in Node /\ ~e.killed
        /\ pending[e.node] = queue[k].ev
        /\ queue[k].ev \in S /\ S \subseteq EventId
        /\ S = QueuedUpTo(k - 1) \cup {queue[k].ev}
        /\ \A m \in Node : pending[m] \notin QueuedUpTo(k - 1)
    BY FirstLiveFacts DEF Live
  <1>2. /\ q \in Seq(Placeholder) /\ Unique(q)
        /\ Evs(q) = Evs(queue) \ S
    BY <1>1, DropFirstFacts DEF QInv, QTypeOK, QueuedUpTo
  <1>3. PICK l \in 1..(Len(q) + 1) : queue' = InsertAt(q, l, p)
    BY DEF Enqueue
  <1>4. c \notin Evs(queue) /\ p \in Placeholder /\ p.ev = c
    BY DEF QInv, UsedIsQueued, Fresh, Placeholder
  <1>5. /\ queue' \in Seq(Placeholder) /\ Unique(queue')
        /\ Evs(queue') = (Evs(queue) \ S) \cup {c}
    <2> HIDE DEF q, p
    <2>1. QED
      BY <1>2, <1>3, <1>4, InsertAtFacts
  <1>6. S \subseteq Evs(queue)
    BY QueueFacts DEF QueuedUpTo, Evs, QInv, QTypeOK
  <1>7. NullEvent \in Event /\ NullEvent.node = 0
    BY DEF NullEvent, Event, Value, LOGIC_OTHER
  <1>8. \A j \in EventId :
            pool'[j] = IF j = c THEN e ELSE IF j \in S THEN NullEvent ELSE pool[j]
    OBVIOUS
  <1>9. \A m \in Node : pending'[m] = IF m = e.node THEN c ELSE pending[m]
    BY <1>1 DEF QInv, QTypeOK
  <1>10. \A m \in Node : m # e.node => pending[m] \notin S /\ pending[m] # c
    BY <1>1, <1>4 DEF QInv, QTypeOK, BackToEvent, UsedIsQueued, Live, EventId
  <1> HIDE DEF q, p, e, S
  <1>11. QTypeOK'
    <2>1. \A j \in EventId : pool'[j] \in Event
      BY <1>1, <1>7, <1>8 DEF QInv, QTypeOK
    <2>2. pool' \in [EventId -> Event]
      BY <2>1
    <2>3. pending' \in [Node -> EventId \cup {0}]
      BY DEF QInv, QTypeOK
    <2>4. QED
      BY <2>2, <2>3, <1>5 DEF QTypeOK
  <1>12. UsedIsQueued'
    BY <1>1, <1>4, <1>5, <1>7, <1>8 DEF QInv, UsedIsQueued, InUse
  <1>13. BackToEvent'
    <2> SUFFICES ASSUME NEW m \in Node, pending'[m] # 0
                 PROVE  /\ pool'[pending'[m]].node = m
                        /\ pool'[pending'[m]].node # 0
                        /\ ~pool'[pending'[m]].killed
      BY DEF BackToEvent, Live, InUse
    <2>1. CASE m = e.node
      <3>1. pending'[m] = c /\ pool'[c] = e /\ m # 0
        BY <2>1, <1>8, <1>9
      <3>2. QED
        BY <2>1, <3>1, <1>1
    <2>2. CASE m # e.node
      <3>1. /\ pending'[m] = pending[m] /\ pending[m] \in EventId
            /\ pool'[pending[m]] = pool[pending[m]]
        BY <2>2, <1>8, <1>9, <1>10 DEF QInv, QTypeOK
      <3>2. QED
        BY <3>1 DEF QInv, BackToEvent, Live, InUse
    <2>3. QED
      BY <2>1, <2>2
  <1>14. LiveOrNew(e)
    BY <1>7, <1>8 DEF LiveOrNew, Live, InUse
  <1>15. BackToNode'
    <2> SUFFICES ASSUME NEW j \in EventId, pool'[j].node # 0, ~pool'[j].killed
                 PROVE  pending'[pool'[j].node] = j
      BY DEF BackToNode, Live, InUse
    <2>1. CASE j = c
      BY <2>1, <1>1, <1>8, <1>9
    <2>2. CASE j # c
      <3>1. j \notin S /\ pool'[j] = pool[j]
        BY <2>2, <1>7, <1>8
      <3>2. pending[pool[j].node] = j /\ pool[j].node \in Node
        BY <3>1 DEF QInv, QTypeOK, Event, BackToNode, Live, InUse
      <3>3. pool[j].node # e.node
        BY <3>1, <3>2, <1>1
      <3>4. QED
        BY <3>1, <3>2, <3>3, <1>9
    <2>3. QED
      BY <2>1, <2>2
  <1>16. QED
    BY <1>5, <1>11, <1>12, <1>13, <1>14, <1>15 DEF QInv, e

-----------------------------------------------------------------------------
(* The inductive invariant of the specification.                             *)

\* The sessions for which the structures stay coherent: skipping a vacuous
\* event leaves a deallocator behind, so either vacuous events are not skipped
\* or there must be nothing that makes events vacuous.
Benign ==
    \/ ~DequeueUnstable
    \/ "stop_vacuous" \in Session
    \/ Session \cap {"setf", "unset"} = {}

\* What a live event e may look like when the node values are val.
WorthExecuting(e, val) ==
    /\ "setf" \notin Session => ~e.forced
    /\ "unset" \notin Session =>
            e.val # val[e.node] \/ e.val = LOGIC_OTHER \/ e.forced

NonVacuous == \A i \in EventId : Live(i) => WorthExecuting(pool[i], value)

StepTypeOK ==
    /\ now \in Time
    /\ value \in [Node -> Value]
    /\ frozen \subseteq Node
    /\ phase \in Phase
    /\ updated \subseteq Node
    /\ until \in Time \cup {-1}
    /\ barren \in BOOLEAN

Inv == QInv /\ StepTypeOK /\ NonVacuous /\ held = <<>>

LEMMA InitInv == Init => Inv
  <1> USE QueueAssumption
  <1> SUFFICES ASSUME Init PROVE Inv
    OBVIOUS
  <1>1. NullEvent \in Event /\ NullEvent.node = 0
    BY DEF NullEvent, Event, Value, LOGIC_OTHER
  <1>2. queue \in Seq(Placeholder) /\ Len(queue) = 0
    BY EmptySeq DEF Init
  <1>3. DOMAIN queue = {}
    BY <1>2, LenProperties
  <1>4. QTypeOK
    BY <1>1, <1>2 DEF Init, QTypeOK
  <1>5. \A i \in EventId : pool[i].node = 0
    BY <1>1 DEF Init
  <1>6. Unique(queue) /\ Evs(queue) = {}
    BY <1>3 DEF Unique, Evs
  <1>7. UsedIsQueued /\ BackToEvent /\ BackToNode /\ NonVacuous
    BY <1>5, <1>6 DEF Init, UsedIsQueued, BackToEvent, BackToNode, NonVacuous,
        Live, InUse
  <1>8. StepTypeOK
    <2>1. now \in Time /\ value \in [Node -> Value]
      BY DEF Init, Time, Value
    <2>2. phase \in Phase /\ until \in Time \cup {-1} /\ barren \in BOOLEAN
      BY DEF Init, Phase
    <2>3. QED
      BY <2>1, <2>2 DEF Init, StepTypeOK
  <1>9. QED
    BY <1>4, <1>6, <1>7, <1>8 DEF Inv, QInv, Init

\* A step that keeps the node values and only adds an event worth executing
\* keeps every live event worth executing.
LEMMA NonVacuousKept ==
    ASSUME NonVacuous, UNCHANGED value, NEW e, LiveOrNew(e),
           WorthExecuting(e, value)
    PROVE  NonVacuous'
  BY DEF NonVacuous, LiveOrNew, WorthExecuting

LEMMA NonVacuousLess ==
    ASSUME NonVacuous, UNCHANGED value, NothingRevived
    PROVE  NonVacuous'
  BY DEF NonVacuous, NothingRevived, WorthExecuting

\* A step that touches neither the structures nor the values.
LEMMA QuietInv ==
    ASSUME Inv, UNCHANGED <<queue, pool, pending, value, held>>, StepTypeOK'
    PROVE  Inv'
  <1>1. QInv'
    BY DEF Inv, QInv, QTypeOK, Unique, UsedIsQueued, BackToEvent, BackToNode,
        Live, InUse, Evs
  <1>2. NonVacuous'
    BY DEF Inv, NonVacuous, WorthExecuting, Live, InUse
  <1>3. QED
    BY <1>1, <1>2 DEF Inv

\* A step that changes the value of a node that has no live event afterwards.
LEMMA NonVacuousCommit ==
    ASSUME NonVacuous, QTypeOK, value \in [Node -> Value], NothingRevived,
           NEW n \in Node, NEW v, value' = [value EXCEPT ![n] = v],
           \A i \in EventId : Live(i)' => pool[i].node # n
    PROVE  NonVacuous'
  <1> SUFFICES ASSUME NEW i \in EventId, Live(i)'
               PROVE  WorthExecuting(pool[i], value')
    BY DEF NonVacuous, NothingRevived, WorthExecuting
  <1>1. Live(i) /\ pool[i].node # n
    BY DEF NothingRevived
  <1>2. value'[pool[i].node] = value[pool[i].node]
    BY <1>1 DEF QTypeOK, Event, Live, InUse
  <1>3. QED
    BY <1>1, <1>2 DEF NonVacuous, WorthExecuting

\* The pending event of a node, as a copy or rewritten.
LEMMA PendingFacts ==
    ASSUME Inv, NEW n \in Node, pending[n] # 0
    PROVE  /\ pool[pending[n]] \in Event
           /\ pool[pending[n]].node = n
           /\ ~pool[pending[n]].killed
           /\ WorthExecuting(pool[pending[n]], value)
  <1>1. pending[n] \in EventId /\ Live(pending[n])
    BY DEF Inv, QInv, QTypeOK, BackToEvent
  <1>2. QED
    BY <1>1 DEF Inv, QInv, QTypeOK, BackToEvent, NonVacuous, Live

-----------------------------------------------------------------------------
(* The user's commands.                                                      *)

\* Loading a checkpoint gives every event a new index and changes nothing
\* else that the invariant is about.
LEMMA RestoreInv ==
    ASSUME Inv, Restore
    PROVE  Inv'
  <1> USE QueueAssumption
  <1> DEFINE N == Len(queue)
  <1>0. QInv /\ StepTypeOK /\ NonVacuous /\ held = <<>>
    BY DEF Inv
  <1>1. /\ N \in Nat /\ DOMAIN queue = 1..N /\ N <= MaxEvents
        /\ \A k \in 1..N : queue[k].ev \in EventId /\ queue[k].time \in Time
    BY <1>0, QueueFacts DEF QInv, QTypeOK, Restore
  <1>2. 1..N \subseteq EventId /\ 0 \notin EventId
    BY <1>1 DEF EventId
  <1>3. /\ queue' = [k \in 1..N |-> [time |-> queue[k].time, ev |-> k]]
        /\ pool' = [i \in EventId |->
                        IF i \in 1..N THEN [pool[queue[i].ev] EXCEPT !.rule = 0]
                        ELSE NullEvent]
        /\ pending' = [n \in Node |-> IF Loaded(n) = {} THEN 0
                                      ELSE CHOOSE k \in Loaded(n) : TRUE]
        /\ UNCHANGED <<now, value, frozen, phase, updated, held, until, barren>>
    BY <1>1 DEF Restore, stepVars
  <1> HIDE DEF N
  <1>4. ASSUME NEW k \in 1..N
        PROVE  /\ pool[queue[k].ev] \in Event /\ pool[queue[k].ev].node \in Node
               /\ pool[queue[k].ev].node # 0
    <2>1. queue[k].ev \in EventId /\ queue[k].ev \in Evs(queue)
      BY <1>1 DEF Evs
    <2>2. InUse(queue[k].ev) /\ pool[queue[k].ev] \in Event
      BY <2>1, <1>0 DEF QInv, QTypeOK, UsedIsQueued
    <2>3. QED
      BY <2>2 DEF InUse, Event
  <1>5. ASSUME NEW e \in Event
        PROVE  /\ [e EXCEPT !.rule = 0] \in Event
               /\ [e EXCEPT !.rule = 0].node = e.node
               /\ [e EXCEPT !.rule = 0].killed = e.killed
               /\ [e EXCEPT !.rule = 0].val = e.val
               /\ [e EXCEPT !.rule = 0].forced = e.forced
    <2>1. [e EXCEPT !.rule = 0] \in Event
      BY DEF Event
    <2>2. QED
      BY <2>1 DEF Event
  <1>6. \A i \in 1..N :
            /\ pool'[i] \in Event
            /\ pool'[i].node = pool[queue[i].ev].node
            /\ pool'[i].killed = pool[queue[i].ev].killed
            /\ pool'[i].val = pool[queue[i].ev].val
            /\ pool'[i].forced = pool[queue[i].ev].forced
    <2> TAKE i \in 1..N
    <2>1. pool'[i] = [pool[queue[i].ev] EXCEPT !.rule = 0]
      BY <1>2, <1>3
    <2>2. QED
      BY <2>1, <1>4, <1>5
  <1>7. \A i \in EventId : i \notin 1..N => pool'[i] = NullEvent
    BY <1>3
  <1>8. ASSUME NEW i \in EventId
        PROVE  Live(i)' => i \in 1..N /\ Live(queue[i].ev)
    BY <1>4, <1>6, <1>7 DEF Live, InUse, NullEvent
  <1>9. ASSUME NEW n \in Node, NEW k \in Loaded(n)
        PROVE  /\ k \in 1..N /\ Live(queue[k].ev) /\ pool[queue[k].ev].node = n
               /\ \A l \in Loaded(n) : l = k
    <2>1. ASSUME NEW l \in Loaded(n)
          PROVE  /\ l \in 1..N /\ Live(queue[l].ev) /\ pool[queue[l].ev].node = n
                 /\ pending[n] = queue[l].ev
      <3>1. l \in 1..N /\ pool[queue[l].ev].node = n /\ ~pool[queue[l].ev].killed
        BY <1>1 DEF Loaded
      <3>2. Live(queue[l].ev)
        BY <3>1, <1>4 DEF Live, InUse
      <3>3. QED
        BY <3>1, <3>2, <1>0, <1>1 DEF QInv, BackToNode
    <2>2. ASSUME NEW l \in Loaded(n) PROVE l = k
      BY <2>1, <1>0, <1>1 DEF QInv, Unique
    <2>3. QED
      BY <2>1, <2>2
  <1>10. \A n \in Node : \/ pending'[n] = 0 /\ Loaded(n) = {}
                         \/ pending'[n] \in Loaded(n)
    BY <1>3
  <1>11. QTypeOK'
    <2>1. pool' \in [EventId -> Event]
      <3>1. NullEvent \in Event
        BY DEF NullEvent, Event, Value
      <3>2. QED
        BY <3>1, <1>3, <1>6, <1>7
    <2>2. pending' \in [Node -> EventId \cup {0}]
      BY <1>2, <1>3, <1>9, <1>10
    <2>3. queue' \in Seq(Placeholder)
      <3>1. queue' \in [1..N -> Placeholder]
        BY <1>1, <1>2, <1>3 DEF Placeholder
      <3>2. QED
        BY <3>1, <1>1, SeqDef
    <2>4. QED
      BY <2>1, <2>2, <2>3 DEF QTypeOK
  <1>12. DOMAIN queue' = 1..N /\ \A k \in 1..N : queue'[k].ev = k
    BY <1>3
  <1>13. Unique(queue)' /\ UsedIsQueued'
    <2>1. Unique(queue')
      BY <1>12 DEF Unique
    <2>2. Evs(queue') = 1..N
      BY <1>12 DEF Evs
    <2>3. \A i \in EventId : InUse(i)' <=> i \in 1..N
      BY <1>4, <1>6, <1>7 DEF InUse, NullEvent
    <2>4. QED
      BY <2>1, <2>2, <2>3 DEF UsedIsQueued
  <1>14. BackToEvent'
    <2> SUFFICES ASSUME NEW n \in Node, pending'[n] # 0
                 PROVE  /\ pool'[pending'[n]].node = n
                        /\ pool'[pending'[n]].node # 0
                        /\ ~pool'[pending'[n]].killed
      BY DEF BackToEvent, Live, InUse
    <2>1. /\ pending'[n] \in 1..N /\ Live(queue[pending'[n]].ev)
          /\ pool[queue[pending'[n]].ev].node = n
      BY <1>9, <1>10
    <2>2. QED
      BY <2>1, <1>6 DEF Live, InUse
  <1>15. BackToNode'
    <2> SUFFICES ASSUME NEW i \in EventId, Live(i)'
                 PROVE  pending'[pool'[i].node] = i
      BY DEF BackToNode
    <2>1. i \in 1..N /\ Live(queue[i].ev) /\ pool'[i].node = pool[queue[i].ev].node
      BY <1>6, <1>8
    <2>2. i \in Loaded(pool'[i].node) /\ pool'[i].node \in Node
      BY <2>1, <1>1, <1>4 DEF Loaded, Live
    <2>3. QED
      BY <2>2, <1>9, <1>10
  <1>16. NonVacuous'
    <2> SUFFICES ASSUME NEW i \in EventId, Live(i)'
                 PROVE  WorthExecuting(pool'[i], value')
      BY DEF NonVacuous
    <2>1. i \in 1..N /\ Live(queue[i].ev) /\ queue[i].ev \in EventId
      BY <1>1, <1>8
    <2>2. WorthExecuting(pool[queue[i].ev], value)
      BY <2>1, <1>0 DEF NonVacuous
    <2>3. QED
      BY <2>1, <2>2, <1>3, <1>6 DEF WorthExecuting
  <1>17. StepTypeOK'
    BY <1>0, <1>3 DEF StepTypeOK
  <1>18. QED
    BY <1>0, <1>3, <1>11, <1>13, <1>14, <1>15, <1>16, <1>17 DEF Inv, QInv

LEMMA UserInv == Inv /\ UserNext => Inv'
  <1> USE QueueAssumption, EventsAssumption
  <1> SUFFICES ASSUME Inv, UserNext PROVE Inv'
    OBVIOUS
  <1>0. QInv /\ StepTypeOK /\ NonVacuous /\ held = <<>>
    BY DEF Inv
  <1>t. Time \subseteq Nat /\ now \in Time
    BY <1>0 DEF Time, StepTypeOK
  <1>1. ASSUME NEW n \in Node, NEW v \in Value, NEW t \in Time, SetNode(n, v, t)
        PROVE  Inv'
    <2> DEFINE e == NewEvent(n, v, 0, FALSE, FALSE)
    <2>1. e \in Event /\ e.node = n /\ e.val = v /\ e.forced = FALSE /\ ~e.killed
      BY DEF NewEvent, Event
    <2>2. v # value[n] /\ Schedule(n, e, t) /\ UNCHANGED <<now, stepVars>>
      BY <1>1 DEF SetNode
    <2> HIDE DEF e
    <2>3. QInv' /\ LiveOrNew(e)
      BY <2>1, <2>2, <1>0, <1>t, ScheduleInv
    <2>4. WorthExecuting(e, value)
      BY <2>1, <2>2 DEF WorthExecuting
    <2>5. NonVacuous' /\ StepTypeOK'
      BY <2>2, <2>3, <2>4, <1>0, NonVacuousKept DEF stepVars, StepTypeOK
    <2>6. QED
      BY <2>2, <2>3, <2>5, <1>0 DEF Inv, stepVars
  <1>2. ASSUME NEW n \in Node, NEW v \in Value, NEW t \in Time,
               SetNodeForced(n, v, t)
        PROVE  Inv'
    <2> DEFINE e == NewEvent(n, v, 0, FALSE, TRUE)
    <2>1. e \in Event /\ e.node = n /\ e.val = v /\ e.forced = TRUE /\ ~e.killed
      BY DEF NewEvent, Event
    <2>2. "setf" \in Session /\ Schedule(n, e, t) /\ UNCHANGED <<now, stepVars>>
      BY <1>2 DEF SetNodeForced
    <2> HIDE DEF e
    <2>3. QInv' /\ LiveOrNew(e)
      BY <2>1, <2>2, <1>0, <1>t, ScheduleInv
    <2>4. WorthExecuting(e, value)
      BY <2>1, <2>2 DEF WorthExecuting
    <2>5. NonVacuous' /\ StepTypeOK'
      BY <2>2, <2>3, <2>4, <1>0, NonVacuousKept DEF stepVars, StepTypeOK
    <2>6. QED
      BY <2>2, <2>3, <2>5, <1>0 DEF Inv, stepVars
  <1>3. ASSUME NEW n \in Node, DescheduleEvent(n) PROVE Inv'
    <2>1. pending[n] # 0 /\ KillEvent(n) /\ UNCHANGED <<now, stepVars>>
      BY <1>3 DEF DescheduleEvent
    <2>2. QInv' /\ NothingRevived
      BY <2>1, <1>0, KillEventInv
    <2>3. NonVacuous' /\ StepTypeOK'
      BY <2>1, <2>2, <1>0, NonVacuousLess DEF stepVars, StepTypeOK
    <2>4. QED
      BY <2>1, <2>2, <2>3, <1>0 DEF Inv, stepVars
  <1>4. ASSUME NEW n \in Node, NEW t \in Int, RescheduleEvent(n, t) PROVE Inv'
    <2> DEFINE e == pool[pending[n]]
    <2>1. /\ pending[n] # 0 /\ t \in Nat /\ Schedule(n, e, t)
          /\ UNCHANGED <<now, stepVars>>
      BY <1>4, <1>t DEF RescheduleEvent
    <2>2. e \in Event /\ e.node = n /\ ~e.killed /\ WorthExecuting(e, value)
      BY <2>1, PendingFacts
    <2> HIDE DEF e
    <2>3. QInv' /\ LiveOrNew(e)
      BY <2>1, <2>2, <1>0, ScheduleInv
    <2>4. NonVacuous' /\ StepTypeOK'
      BY <2>1, <2>2, <2>3, <1>0, NonVacuousKept DEF stepVars, StepTypeOK
    <2>5. QED
      BY <2>1, <2>3, <2>4, <1>0 DEF Inv, stepVars
  <1>5. ASSUME NEW n \in Node, NEW dt \in {-1, 1}, RescheduleEventRelative(n, dt)
        PROVE  Inv'
    <2>1. PICK k \in DOMAIN queue : RescheduleEvent(n, queue[k].time + dt)
      BY <1>5 DEF RescheduleEventRelative
    <2>2. k \in 1..Len(queue) /\ \A j \in 1..Len(queue) : queue[j].time \in Time
      BY <1>0, QueueFacts DEF QInv, QTypeOK
    <2>3. queue[k].time + dt \in Int
      BY <2>2 DEF Time
    <2>4. QED
      BY <2>1, <2>3, <1>4
  <1>6. ASSUME NEW n \in Node, RescheduleEventNow(n) PROVE Inv'
    <2> DEFINE e == pool[pending[n]]
    <2>1. pending[n] # 0 /\ UNCHANGED <<now, stepVars>>
      BY <1>6 DEF RescheduleEventNow
    <2>2. e \in Event /\ e.node = n /\ ~e.killed /\ WorthExecuting(e, value)
      BY <2>1, PendingFacts
    <2>3. PICK i \in EventId :
            /\ Fresh(i)
            /\ pool' = [PoolAfterKill(n) EXCEPT ![i] = e]
            /\ pending' = [pending EXCEPT ![n] = i]
            /\ IF Len(queue) > 0 /\ queue[1].time = now
               THEN queue' = InsertAt(queue, 1, [time |-> now, ev |-> i])
               ELSE Enqueue(queue, i, now)
      BY <1>6 DEF RescheduleEventNow
    <2>4. \E k \in 1..(Len(queue) + 1) :
            queue' = InsertAt(queue, k, [time |-> now, ev |-> i])
      <3>1. 1 \in 1..(Len(queue) + 1)
        BY <1>0, QueueFacts DEF QInv, QTypeOK
      <3>2. QED
        BY <3>1, <2>3 DEF Enqueue
    <2> HIDE DEF e
    <2>5. QInv' /\ LiveOrNew(e)
      BY <2>2, <2>3, <2>4, <1>0, <1>t, AllocateInv
    <2>6. NonVacuous' /\ StepTypeOK'
      BY <2>1, <2>2, <2>5, <1>0, NonVacuousKept DEF stepVars, StepTypeOK
    <2>7. QED
      BY <2>1, <2>5, <2>6, <1>0 DEF Inv, stepVars
  <1>7. ASSUME NEW n \in Node, FreezeNode(n) PROVE Inv'
    BY <1>7, <1>0, QuietInv DEF FreezeNode, queueVars, StepTypeOK
  <1>8. ASSUME NEW n \in Node, NEW v \in Value, NEW w \in Strength,
               NEW d \in Delays, UnsetNode(n, v, w, d)
        PROVE  Inv'
    <2>1. /\ "unset" \in Session /\ frozen' = frozen \ {n}
          /\ UNCHANGED <<value, phase, updated, held, until, barren>>
      BY <1>8 DEF UnsetNode
    <2>2. CASE UNCHANGED queueVars
      BY <2>1, <2>2, <1>0, QuietInv DEF queueVars, StepTypeOK
    <2>3. ASSUME pending[n] # 0, UNCHANGED now,
                 Rewrite(n, [pool[pending[n]] EXCEPT
                               !.val = v, !.weak = w, !.forced = FALSE])
          PROVE  Inv'
      <3> DEFINE e == [pool[pending[n]] EXCEPT
                          !.val = v, !.weak = w, !.forced = FALSE]
      <3>1. /\ pool[pending[n]] \in Event /\ pool[pending[n]].node = n
            /\ ~pool[pending[n]].killed
        BY <2>3, PendingFacts
      <3>2. e \in Event
        BY <3>1 DEF Event
      <3>3. e.node = n /\ ~e.killed /\ e.forced = FALSE
        BY <3>1 DEF Event
      <3> HIDE DEF e
      <3>4. QInv' /\ LiveOrNew(e)
        BY <2>3, <3>2, <3>3, <1>0, RewriteInv DEF e
      <3>5. WorthExecuting(e, value)
        BY <2>1, <3>3 DEF WorthExecuting
      <3>6. NonVacuous' /\ StepTypeOK'
        BY <2>1, <2>3, <3>4, <3>5, <1>0, NonVacuousKept DEF StepTypeOK
      <3>7. QED
        BY <2>1, <3>4, <3>6, <1>0 DEF Inv
    <2>4. ASSUME Schedule(n, NewEvent(n, v, 0, w, FALSE), now + d), UNCHANGED now
          PROVE  Inv'
      <3> DEFINE e == NewEvent(n, v, 0, w, FALSE)
      <3>1. e \in Event /\ e.node = n /\ e.forced = FALSE /\ ~e.killed
        BY DEF NewEvent, Event
      <3> HIDE DEF e
      <3>2. QInv' /\ LiveOrNew(e)
        BY <2>4, <3>1, <1>0, <1>t, ScheduleInv, now + d \in Nat DEF e
      <3>3. WorthExecuting(e, value)
        BY <2>1, <3>1 DEF WorthExecuting
      <3>4. NonVacuous' /\ StepTypeOK'
        BY <2>1, <2>4, <3>2, <3>3, <1>0, NonVacuousKept DEF StepTypeOK
      <3>5. QED
        BY <2>1, <3>2, <3>4, <1>0 DEF Inv
    <2>5. QED
      BY <2>2, <2>3, <2>4, <1>8 DEF UnsetNode
  <1>9. ASSUME NEW n \in Node, NEW v \in Value,
               SetNow(n, v)
        PROVE  Inv'
    <2>1. /\ pending[n] = 0 /\ UNCHANGED <<now, queue, pool, pending, held>>
          /\ UNCHANGED <<frozen, until>>
      BY <1>9 DEF SetNow, queueVars
    <2>b. barren' \in BOOLEAN
      <3>1. \/ barren' = FALSE \/ barren' = TRUE
            \/ barren' = ("stop_vacuous" \in Session)
        BY <1>9, Zenon DEF SetNow
      <3>2. ("stop_vacuous" \in Session) \in BOOLEAN
        OBVIOUS
      <3>3. QED
        BY <3>1, <3>2, Zenon
    <2>2. CASE UNCHANGED <<value, updated>> /\ phase' \in {"dequeue", "unwind"}
      <3>1. StepTypeOK'
        BY <2>1, <2>b, <2>2, <1>0 DEF StepTypeOK, Phase
      <3>2. QED
        BY <3>1, <2>1, <2>2, QuietInv
    <2>3. CASE /\ value' = [value EXCEPT ![n] = v]
               /\ phase' = "propagate" /\ updated' = Node
      <3>1. QInv'
        BY <2>1, <1>0 DEF QInv, QTypeOK, Unique, UsedIsQueued, BackToEvent,
            BackToNode, Live, InUse, Evs
      <3>2. NothingRevived
        BY <2>1 DEF NothingRevived, Live, InUse
      <3>3. \A i \in EventId : Live(i)' => pool[i].node # n
        BY <3>2, <2>1, <1>0 DEF NothingRevived, QInv, BackToNode, EventId
      <3>4. NonVacuous'
        BY <2>3, <3>2, <3>3, <1>0, NonVacuousCommit DEF QInv, StepTypeOK
      <3>5. StepTypeOK'
        BY <2>1, <2>b, <2>3, <1>0 DEF StepTypeOK, Phase
      <3>6. QED
        BY <2>1, <3>1, <3>4, <3>5, <1>0 DEF Inv
    <2>4. QED
      BY <2>2, <2>3, <1>9 DEF SetNow
  <1>10. ASSUME NEW t \in {0, now}, Initialize(t) PROVE Inv'
    <2>1. /\ queue' = <<>> /\ pool' = PoolWithout(QueuedUpTo(Len(queue)))
          /\ pending' = [n \in Node |-> 0]
          /\ value' = [n \in Node |-> LOGIC_OTHER]
          /\ now' = t /\ frozen' = {}
          /\ UNCHANGED <<phase, updated, held, until, barren>>
      BY <1>10 DEF Initialize
    <2>2. pending' \in [Node -> EventId \cup {0}] /\ \A n \in Node : pending'[n] = 0
      BY <2>1
    <2>3. QInv' /\ NothingRevived
      BY <2>1, <2>2, <1>0, EmptyInv
    <2>4. ASSUME NEW i \in EventId, Live(i)' PROVE FALSE
      <3>1. pool'[i].node \in Node
        BY <2>3, <2>4 DEF QInv, QTypeOK, Event, Live, InUse
      <3>2. pending'[pool'[i].node] = i
        BY <2>3, <2>4 DEF QInv, BackToNode
      <3>3. QED
        BY <2>2, <3>1, <3>2 DEF EventId
    <2>5. NonVacuous'
      BY <2>4 DEF NonVacuous
    <2>6. now' \in Time /\ value' \in [Node -> Value]
      BY <2>1, <1>t DEF Time, Value
    <2>7. StepTypeOK'
      BY <2>1, <2>6, <1>0 DEF StepTypeOK
    <2>8. QED
      BY <2>1, <2>3, <2>5, <2>7, <1>0 DEF Inv
  <1>11. ASSUME NEW t \in Time, AdvanceBegin(t) PROVE Inv'
    BY <1>11, <1>0, QuietInv DEF AdvanceBegin, queueVars, StepTypeOK
  <1>12. QED
    BY <1>1, <1>2, <1>3, <1>4, <1>5, <1>6, <1>7, <1>8, <1>9, <1>10, <1>11, <1>t,
       RestoreInv DEF UserNext

-----------------------------------------------------------------------------
(* The simulator's own steps.                                                *)

LEMMA SimInv == Benign /\ Inv /\ SimNext => Inv'
  <1> USE QueueAssumption, EventsAssumption
  <1> SUFFICES ASSUME Benign, Inv, SimNext PROVE Inv'
    OBVIOUS
  <1>0. QInv /\ StepTypeOK /\ NonVacuous /\ held = <<>>
    BY DEF Inv
  <1>t. Time \subseteq Nat /\ now \in Time
    BY <1>0 DEF Time, StepTypeOK
  <1>1. ASSUME StepNothing PROVE Inv'
    <2>1. /\ NoneLive /\ queue' = <<>>
          /\ pool' = PoolWithout(QueuedUpTo(Len(queue)))
          /\ phase' = "unwind"
          /\ UNCHANGED <<now, pending, value, frozen, updated, held, until, barren>>
      BY <1>1 DEF StepNothing
    <2>2. ASSUME NEW n \in Node PROVE pending[n] = 0
      <3>1. ASSUME pending[n] # 0 PROVE FALSE
        <4>1. pending[n] \in EventId /\ Live(pending[n])
          BY <3>1, <1>0 DEF QInv, QTypeOK, BackToEvent
        <4>2. pending[n] \in Evs(queue)
          BY <4>1, <1>0 DEF QInv, UsedIsQueued, Live
        <4>3. PICK k \in DOMAIN queue : queue[k].ev = pending[n]
          BY <4>2 DEF Evs
        <4>4. QED
          BY <4>1, <4>3, <2>1 DEF NoneLive, Live
      <3>2. QED
        BY <3>1
    <2>3. QInv' /\ NothingRevived
      BY <2>1, <2>2, <1>0, EmptyInv DEF QInv, QTypeOK
    <2>4. NonVacuous' /\ StepTypeOK'
      BY <2>1, <2>3, <1>0, NonVacuousLess DEF StepTypeOK, Phase
    <2>5. QED
      BY <2>1, <2>3, <2>4, <1>0 DEF Inv
  <1>2. ASSUME NEW k \in DOMAIN queue, NEW t \in Time, StepMinDelay(k, t)
        PROVE  Inv'
    <2> DEFINE e == pool[queue[k].ev]
    <2>1. /\ FirstLive(k) /\ now' = queue[k].time /\ phase' = "dequeue"
          /\ UNCHANGED <<value, frozen, updated, held, until, barren>>
      BY <1>2 DEF StepMinDelay
    <2>2. QInv' /\ LiveOrNew(e)
      <3>1. PICK c \in EventId :
              /\ Fresh(c)
              /\ pool' = [j \in EventId |->
                              IF j = c THEN e
                              ELSE IF j \in QueuedUpTo(k) THEN NullEvent
                              ELSE pool[j]]
              /\ pending' = [pending EXCEPT ![e.node] = c]
              /\ Enqueue(DropFirst(queue, k), c, t)
        BY <1>2 DEF StepMinDelay
      <3>2. QED
        BY <3>1, <2>1, <1>0, MoveInv
    <2>3. queue[k].ev \in EventId /\ Live(queue[k].ev) /\ queue[k].time \in Time
      BY <2>1, <1>0, FirstLiveFacts
    <2>4. WorthExecuting(e, value)
      BY <2>3, <1>0 DEF NonVacuous
    <2> HIDE DEF e
    <2>5. NonVacuous'
      BY <2>1, <2>2, <2>4, <1>0, NonVacuousKept
    <2>6. StepTypeOK'
      BY <2>1, <2>3, <1>0 DEF StepTypeOK, Phase
    <2>7. QED
      BY <2>1, <2>2, <2>5, <2>6, <1>0 DEF Inv
  <1>3. ASSUME NEW k \in DOMAIN queue, StepXX(k) PROVE Inv'
    <2>1. /\ FirstLive(k) /\ Settle(k) /\ now' = queue[k].time
          /\ phase' = "unwind" /\ barren' = FALSE
          /\ UNCHANGED <<value, frozen, updated, held, until>>
      BY <1>3 DEF StepXX, Executing
    <2>2. QInv' /\ NothingRevived /\ queue[k].time \in Time
      BY <2>1, <1>0, SettleInv, FirstLiveFacts
    <2>3. NonVacuous' /\ StepTypeOK'
      BY <2>1, <2>2, <1>0, NonVacuousLess DEF StepTypeOK, Phase
    <2>4. QED
      BY <2>1, <2>2, <2>3, <1>0 DEF Inv
  <1>s. ASSUME NEW k \in DOMAIN queue, StepVacuousStop(k) PROVE Inv'
    <2>1. /\ FirstLive(k) /\ Settle(k) /\ now' = queue[k].time
          /\ phase' = "unwind" /\ barren' = TRUE
          /\ UNCHANGED <<value, frozen, updated, held, until>>
      BY <1>s DEF StepVacuousStop, Executing
    <2>2. QInv' /\ NothingRevived /\ queue[k].time \in Time
      BY <2>1, <1>0, SettleInv, FirstLiveFacts
    <2>3. NonVacuous' /\ StepTypeOK'
      BY <2>1, <2>2, <1>0, NonVacuousLess DEF StepTypeOK, Phase
    <2>4. QED
      BY <2>1, <2>2, <2>3, <1>0 DEF Inv
  <1>4. ASSUME NEW k \in DOMAIN queue, StepVacuous(k) PROVE FALSE
    <2> DEFINE e == pool[queue[k].ev]
    <2>1. /\ DequeueUnstable /\ "stop_vacuous" \notin Session /\ FirstLive(k)
          /\ e.val = value[e.node] /\ e.val # LOGIC_OTHER
      BY <1>4 DEF StepVacuous, Executing
    <2>2. "setf" \notin Session /\ "unset" \notin Session
      BY <2>1 DEF Benign
    <2>3. queue[k].ev \in EventId /\ Live(queue[k].ev)
      BY <2>1, <1>0, FirstLiveFacts
    <2>4. WorthExecuting(e, value)
      BY <2>3, <1>0 DEF NonVacuous
    <2>5. QED
      BY <2>1, <2>2, <2>4 DEF WorthExecuting
  <1>5. ASSUME NEW k \in DOMAIN queue, StepExclRefused(k) PROVE Inv'
    <2>1. /\ FirstLive(k) /\ now' = queue[k].time
          /\ Enqueue(DropFirst(queue, k), queue[k].ev, queue[k].time)
          /\ pool' = PoolWithout(QueuedUpTo(k - 1))
          /\ phase' = "unwind" /\ barren' = TRUE
          /\ UNCHANGED <<pending, value, frozen, updated, held, until>>
      BY <1>5 DEF StepExclRefused, Executing
    <2>2. QInv' /\ NothingRevived /\ queue[k].time \in Time
      BY <2>1, <1>0, RequeueInv, FirstLiveFacts
    <2>3. NonVacuous' /\ StepTypeOK'
      BY <2>1, <2>2, <1>0, NonVacuousLess DEF StepTypeOK, Phase
    <2>4. QED
      BY <2>1, <2>2, <2>3, <1>0 DEF Inv
  <1>6. ASSUME NEW k \in DOMAIN queue, StepCommit(k)
        PROVE  Inv'
    <2> DEFINE e == pool[queue[k].ev]
    <2>1. /\ FirstLive(k) /\ Settle(k) /\ now' = queue[k].time
          /\ value' = [value EXCEPT ![e.node] = e.val]
          /\ phase' = "propagate" /\ updated' = Node /\ barren' = FALSE
          /\ UNCHANGED <<frozen, held, until>>
      BY <1>6 DEF StepCommit, Executing
    <2>2. /\ QInv' /\ NothingRevived
          /\ \A i \in EventId : Live(i)' => pool[i].node # e.node
      BY <2>1, <1>0, SettleInv
    <2>3. queue[k].time \in Time /\ e \in Event /\ e.node \in Node
      BY <2>1, <1>0, FirstLiveFacts
    <2>4. e.val \in Value
      BY <2>3 DEF Event
    <2> HIDE DEF e
    <2>5. NonVacuous'
      BY <2>1, <2>2, <2>3, <1>0, NonVacuousCommit DEF QInv, StepTypeOK
    <2>6. StepTypeOK'
      BY <2>1, <2>3, <2>4, <1>0 DEF StepTypeOK, Phase
    <2>7. QED
      BY <2>1, <2>2, <2>5, <2>6, <1>0 DEF Inv
  <1>7. ASSUME NEW n \in Node, PropagateKill(n) PROVE Inv'
    <2>1. /\ pending[n] # 0 /\ KillEvent(n)
          /\ UNCHANGED <<now, value, frozen, phase, updated, held, until, barren>>
      BY <1>7 DEF PropagateKill, stepVars
    <2>2. QInv' /\ NothingRevived
      BY <2>1, <1>0, KillEventInv
    <2>3. NonVacuous' /\ StepTypeOK'
      BY <2>1, <2>2, <1>0, NonVacuousLess DEF StepTypeOK
    <2>4. QED
      BY <2>1, <2>2, <2>3, <1>0 DEF Inv
  <1>8. ASSUME NEW n \in Node, FlushKill(n) PROVE Inv'
    <2>1. /\ pending[n] # 0 /\ KillEvent(n) /\ updated' = updated \ {n}
          /\ UNCHANGED <<now, value, frozen, phase, held, until, barren>>
      BY <1>8 DEF FlushKill
    <2>2. QInv' /\ NothingRevived
      BY <2>1, <1>0, KillEventInv
    <2>3. NonVacuous' /\ StepTypeOK'
      BY <2>1, <2>2, <1>0, NonVacuousLess DEF StepTypeOK
    <2>4. QED
      BY <2>1, <2>2, <2>3, <1>0 DEF Inv
  <1>9. ASSUME NEW n \in Node, NEW w \in Strength, FlushOverwrite(n, w)
        PROVE  Inv'
    <2> DEFINE e == [pool[pending[n]] EXCEPT !.val = LOGIC_OTHER, !.weak = w]
    <2>1. /\ pending[n] # 0 /\ Rewrite(n, e) /\ updated' = updated \ {n}
          /\ UNCHANGED <<now, value, frozen, phase, held, until, barren>>
      BY <1>9 DEF FlushOverwrite
    <2>2. /\ pool[pending[n]] \in Event /\ pool[pending[n]].node = n
          /\ ~pool[pending[n]].killed
          /\ WorthExecuting(pool[pending[n]], value)
      BY <2>1, PendingFacts
    <2>3. e \in Event
      BY <2>2 DEF Event, Value
    <2>4. /\ e.node = n /\ e.killed = pool[pending[n]].killed
          /\ e.forced = pool[pending[n]].forced /\ e.val = LOGIC_OTHER
      BY <2>2 DEF Event
    <2> HIDE DEF e
    <2>5. QInv' /\ LiveOrNew(e)
      BY <2>1, <2>2, <2>3, <2>4, <1>0, RewriteInv
    <2>6. WorthExecuting(e, value)
      BY <2>2, <2>4 DEF WorthExecuting
    <2>7. NonVacuous' /\ StepTypeOK'
      BY <2>1, <2>5, <2>6, <1>0, NonVacuousKept DEF StepTypeOK
    <2>8. QED
      BY <2>1, <2>5, <2>7, <1>0 DEF Inv
  <1>10. ASSUME NEW n \in Node, NEW v \in Value, NEW r \in Rule \cup {0},
                NEW w \in Strength, NEW d \in Delays,
                FlushSchedule(n, v, r, w, d)
         PROVE  Inv'
    <2> DEFINE e == NewEvent(n, v, r, w, FALSE)
    <2>1. /\ v # value[n] /\ Schedule(n, e, now + d) /\ updated' = updated \ {n}
          /\ UNCHANGED <<now, value, frozen, phase, held, until, barren>>
      BY <1>10 DEF FlushSchedule
    <2>2. e \in Event /\ e.node = n /\ e.val = v /\ e.forced = FALSE /\ ~e.killed
      BY DEF NewEvent, Event
    <2>d. now + d \in Nat
      BY <1>t
    <2> HIDE DEF e
    <2>3. QInv' /\ LiveOrNew(e)
      BY <2>1, <2>2, <2>d, <1>0, ScheduleInv
    <2>4. WorthExecuting(e, value)
      BY <2>1, <2>2 DEF WorthExecuting
    <2>5. NonVacuous' /\ StepTypeOK'
      BY <2>1, <2>3, <2>4, <1>0, NonVacuousKept DEF StepTypeOK
    <2>6. QED
      BY <2>1, <2>3, <2>5, <1>0 DEF Inv
  <1>11. ASSUME StepReturn PROVE Inv'
    <2>1. /\ phase' = "idle"
          /\ UNCHANGED <<pool, pending, held>>
          /\ updated' = {}
          /\ UNCHANGED <<now, queue, value, frozen, until, barren>>
      BY <1>11, <1>0 DEF StepReturn
    <2>2. StepTypeOK'
      BY <2>1, <1>0 DEF StepTypeOK, Phase
    <2>3. QED
      BY <2>1, <2>2, QuietInv
  <1>12. ASSUME AdvanceEnd PROVE Inv'
    <2>1. StepTypeOK'
      BY <1>12, <1>0 DEF AdvanceEnd, StepTypeOK, Time
    <2>2. QED
      BY <1>12, <2>1, QuietInv DEF AdvanceEnd
  <1>13. ASSUME AdvanceStop PROVE Inv'
    BY <1>13, <1>0, QuietInv DEF AdvanceStop, queueVars, StepTypeOK
  <1>14. QED
    BY <1>1, <1>2, <1>3, <1>s, <1>4, <1>5, <1>6, <1>7, <1>8, <1>9, <1>10,
       <1>11, <1>12, <1>13 DEF SimNext

\* The inductive invariant holds in every benign session.
THEOREM Invariant ==
    ASSUME Benign
    PROVE  Spec => []Inv
  <1>1. Inv /\ [Next]_vars => Inv'
    <2> SUFFICES ASSUME Inv, [Next]_vars PROVE Inv'
      OBVIOUS
    <2>1. CASE Next
      BY <2>1, UserInv, SimInv DEF Next
    <2>2. CASE UNCHANGED vars
      BY <2>2, QuietInv DEF vars, Inv, StepTypeOK
    <2>3. QED
      BY <2>1, <2>2
  <1>2. QED
    BY <1>1, InitInv, PTL DEF Spec

\* Type correctness, for any number of nodes, pool size and delays.
THEOREM TypeCorrect ==
    ASSUME Benign
    PROVE  Spec => []TypeOK
  <1>1. Inv => TypeOK
    BY EmptySeq DEF Inv, QInv, QTypeOK, StepTypeOK, TypeOK
  <1>2. QED
    BY <1>1, Invariant, PTL

\* Whatever the circuit does and the user types, every live placeholder and
\* its node refer to each other, no event has two placeholders, no event
\* leaks, and no node refers to a dead event: what check_event_queue verifies
\* and the assertions of execute_immediately and kill_event rely on.
THEOREM Coherence ==
    ASSUME Benign
    PROVE  Spec => []( /\ EventQueueCoherent /\ PlaceholdersUnique
                       /\ NoEventLeaks /\ PendingIsLive )
  <1>1. ASSUME Inv PROVE EventQueueCoherent
    <2> SUFFICES ASSUME NEW k \in DOMAIN queue
                 PROVE  IF pool[queue[k].ev].killed
                        THEN pending[pool[queue[k].ev].node] # queue[k].ev
                        ELSE pending[pool[queue[k].ev].node] = queue[k].ev
      BY DEF EventQueueCoherent
    <2>1. queue[k].ev \in EventId /\ queue[k].ev \in Evs(queue)
      BY <1>1, QueueFacts DEF Inv, QInv, QTypeOK, Evs
    <2>2. InUse(queue[k].ev)
      BY <1>1, <2>1 DEF Inv, QInv, UsedIsQueued
    <2>3. pool[queue[k].ev].node \in Node
      BY <1>1, <2>1, <2>2 DEF Inv, QInv, QTypeOK, Event, InUse
    <2>4. CASE pool[queue[k].ev].killed
      <3>1. ASSUME pending[pool[queue[k].ev].node] = queue[k].ev PROVE FALSE
        <4>1. queue[k].ev # 0
          BY <2>1 DEF EventId
        <4>2. Live(queue[k].ev)
          BY <1>1, <2>3, <3>1, <4>1 DEF Inv, QInv, BackToEvent
        <4>3. QED
          BY <2>4, <4>2 DEF Live
      <3>2. QED
        BY <2>4, <3>1
    <2>5. CASE ~pool[queue[k].ev].killed
      BY <1>1, <2>1, <2>2, <2>5 DEF Inv, QInv, BackToNode, Live
    <2>6. QED
      BY <2>4, <2>5
  <1>2. Inv => PlaceholdersUnique
    BY DEF Inv, QInv, Unique, PlaceholdersUnique
  <1>3. ASSUME Inv PROVE NoEventLeaks
    <2>1. Evs(queue) \subseteq EventId
      BY <1>3, QueueFacts DEF Inv, QInv, QTypeOK, Evs
    <2>2. {i \in EventId : InUse(i)} = Evs(queue)
      BY <1>3, <2>1 DEF Inv, QInv, UsedIsQueued
    <2>3. QED
      BY <2>2 DEF NoEventLeaks, Evs
  <1>4. Inv => PendingIsLive
    BY DEF Inv, QInv, BackToEvent, PendingIsLive
  <1>5. QED
    BY <1>1, <1>2, <1>3, <1>4, Invariant, PTL

\* Without unset commands, the assertion of execute_immediately on vacuous
\* events never fails: no circuit and no other command produces one.
THEOREM NeverVacuous ==
    ASSUME Benign, "unset" \notin Session
    PROVE  Spec => []NoVacuousEvent
  <1>1. ASSUME Inv PROVE NoVacuousEvent
    <2> SUFFICES ASSUME NEW k \in DOMAIN queue, ~pool[queue[k].ev].killed,
                        pool[queue[k].ev].val # LOGIC_OTHER
                 PROVE  \/ pool[queue[k].ev].val # value[pool[queue[k].ev].node]
                        \/ pool[queue[k].ev].forced
      BY DEF NoVacuousEvent
    <2>1. queue[k].ev \in EventId /\ queue[k].ev \in Evs(queue)
      BY <1>1, QueueFacts DEF Inv, QInv, QTypeOK, Evs
    <2>2. Live(queue[k].ev)
      BY <1>1, <2>1 DEF Inv, QInv, UsedIsQueued, Live
    <2>3. QED
      BY <1>1, <2>1, <2>2 DEF Inv, NonVacuous, WorthExecuting
  <1>2. QED
    BY <1>1, Invariant, PTL
=============================================================================
