-------------------------- MODULE PrsimTimeProofs --------------------------
(***************************************************************************)
(* Proofs about PrsimEvents, continued: the queue is in the order of time, *)
(* no live event is left behind, and simulated time does not go back; and  *)
(* PrsimEvents implements PrsimAgenda.                                     *)
(***************************************************************************)
EXTENDS PrsimEventsProofs, MCPrsimEvents

-----------------------------------------------------------------------------
(* Order in the queue.                                                       *)

Sorted(q) == \A j, k \in DOMAIN q : j < k => q[j].time <= q[k].time

\* multiset::insert keeps the order.
LEMMA InsertSorted ==
    ASSUME NEW q \in Seq(Placeholder), NEW p \in Placeholder, Sorted(q),
           NEW k \in 1..(Len(q) + 1),
           \A j \in 1..Len(q) : /\ j < k => q[j].time <= p.time
                                /\ j >= k => q[j].time >= p.time
    PROVE  Sorted(InsertAt(q, k, p))
  <1> DEFINE r == InsertAt(q, k, p)
  <1>1. /\ Len(q) \in Nat /\ DOMAIN q = 1..Len(q)
        /\ \A j \in 1..Len(q) : q[j].time \in Nat
    <2>1. \A j \in 1..Len(q) : q[j] \in Placeholder
      BY ElementOfSeq
    <2>2. QED
      BY <2>1, LenProperties, QueueAssumption DEF Placeholder, Time
  <1>2. /\ DOMAIN r = 1..(Len(q) + 1) /\ p.time \in Nat
        /\ \A j \in 1..(Len(q) + 1) :
                r[j] = IF j < k THEN q[j] ELSE IF j = k THEN p ELSE q[j - 1]
    <2>1. p.time \in Nat
      BY QueueAssumption DEF Placeholder, Time
    <2>2. QED
      BY <2>1, InsertAtFacts
  <1> HIDE DEF r
  <1> SUFFICES ASSUME NEW i \in 1..(Len(q) + 1), NEW j \in 1..(Len(q) + 1), i < j
               PROVE  r[i].time <= r[j].time
    BY <1>2 DEF Sorted, r
  <1>3. \A l, m \in 1..Len(q) : l < m => q[l].time <= q[m].time
    BY <1>1 DEF Sorted
  <1>4. CASE j < k
    BY <1>1, <1>2, <1>3, <1>4
  <1>5. CASE j = k
    BY <1>1, <1>2, <1>5
  <1>6. CASE j > k /\ i < k
    <2>1. r[i] = q[i] /\ r[j] = q[j - 1] /\ i \in 1..Len(q) /\ j - 1 \in 1..Len(q)
      BY <1>1, <1>2, <1>6
    <2>2. q[i].time <= p.time /\ q[j - 1].time >= p.time
      BY <2>1, <1>6
    <2>3. QED
      BY <2>1, <2>2, <1>1, <1>2
  <1>7. CASE j > k /\ i = k
    BY <1>1, <1>2, <1>7
  <1>8. CASE i > k
    <2>1. /\ r[i] = q[i - 1] /\ r[j] = q[j - 1]
          /\ i - 1 \in 1..Len(q) /\ j - 1 \in 1..Len(q) /\ i - 1 < j - 1
      BY <1>1, <1>2, <1>8
    <2>2. QED
      BY <2>1, <1>3
  <1>9. QED
    BY <1>1, <1>4, <1>5, <1>6, <1>7, <1>8

LEMMA DropSorted ==
    ASSUME NEW q \in Seq(Placeholder), NEW k \in 0..Len(q), Sorted(q), Unique(q)
    PROVE  Sorted(DropFirst(q, k))
  <1>1. /\ Len(q) \in Nat /\ DOMAIN q = 1..Len(q)
        /\ DOMAIN DropFirst(q, k) = 1..(Len(q) - k)
        /\ \A j \in 1..(Len(q) - k) : DropFirst(q, k)[j] = q[j + k]
    BY LenProperties, DropFirstFacts
  <1>2. \A l, m \in 1..Len(q) : l < m => q[l].time <= q[m].time
    BY <1>1 DEF Sorted
  <1> HIDE DEF DropFirst
  <1> SUFFICES ASSUME NEW i \in 1..(Len(q) - k), NEW j \in 1..(Len(q) - k), i < j
               PROVE  DropFirst(q, k)[i].time <= DropFirst(q, k)[j].time
    BY <1>1 DEF Sorted
  <1>3. i + k \in 1..Len(q) /\ j + k \in 1..Len(q) /\ i + k < j + k
    BY <1>1
  <1>4. QED
    BY <1>1, <1>2, <1>3

-----------------------------------------------------------------------------
(* The inductive invariant.                                                  *)

\* A step that ends without a node in the middle of an advance lets the time
\* run past a live event; the theorems are about sessions without that.
Timely ==
    /\ Benign
    /\ "advance" \in Session => Session \cap {"excl", "stop_vacuous"} = {}

Modes == /\ until # -1 => "advance" \in Session
         /\ barren => Session \cap {"excl", "stop_vacuous"} # {}

TInv == Inv /\ Sorted(queue) /\ NoLiveEventInPast /\ Modes

\* A placeholder is added for an event that had none; the placeholders that
\* stay are for events that are killed if they were.
LEMMA InsertTimely ==
    ASSUME NEW q \in Seq(Placeholder), NEW i \in EventId, NEW t \in Time,
           Sorted(q), i \notin Evs(q), NEW k \in 1..(Len(q) + 1),
           \A j \in 1..Len(q) : /\ j < k => q[j].time <= t
                                /\ j >= k => q[j].time >= t,
           queue' = InsertAt(q, k, [time |-> t, ev |-> i]),
           now' \in Time, t >= now',
           \A j \in 1..Len(q) : ~pool'[q[j].ev].killed => q[j].time >= now'
    PROVE  Sorted(queue)' /\ NoLiveEventInPast'
  <1> DEFINE p == [time |-> t, ev |-> i]
  <1>1. p \in Placeholder /\ p.time = t
    BY DEF Placeholder
  <1>2. Sorted(queue')
    BY <1>1, InsertSorted
  <1>3. /\ DOMAIN queue' = 1..(Len(q) + 1) /\ Len(q) \in Nat
        /\ \A j \in 1..(Len(q) + 1) :
                queue'[j] = IF j < k THEN q[j] ELSE IF j = k THEN p ELSE q[j - 1]
    BY <1>1, InsertAtFacts, LenProperties
  <1>4. ASSUME NEW j \in DOMAIN queue', ~pool'[queue'[j].ev].killed
        PROVE  queue'[j].time >= now'
    <2>1. CASE j < k
      BY <1>3, <1>4, <2>1
    <2>2. CASE j = k
      BY <1>1, <1>3, <1>4, <2>2
    <2>3. CASE j > k
      <3>1. j - 1 \in 1..Len(q) /\ queue'[j] = q[j - 1]
        BY <1>3, <2>3
      <3>2. QED
        BY <3>1, <1>4
    <2>4. QED
      BY <1>3, <2>1, <2>2, <2>3
  <1>5. QED
    BY <1>2, <1>4 DEF NoLiveEventInPast

\* A new event at t >= now, with the old one of the node killed.
LEMMA ScheduleTimely ==
    ASSUME TInv, NEW n \in Node, NEW e, NEW t \in Nat, t >= now, now' = now,
           Schedule(n, e, t)
    PROVE  Sorted(queue)' /\ NoLiveEventInPast'
  <1>1. t \in Time /\ now \in Time
    BY QueueAssumption DEF Schedule, Time, TInv, Inv, StepTypeOK
  <1>2. PICK i \in EventId :
            /\ Fresh(i)
            /\ pool' = [PoolAfterKill(n) EXCEPT ![i] = e]
            /\ Enqueue(queue, i, t)
    BY DEF Schedule
  <1>3. PICK k \in 1..(Len(queue) + 1) :
            /\ IsUpperBound(queue, k, t)
            /\ queue' = InsertAt(queue, k, [time |-> t, ev |-> i])
    BY <1>2 DEF Enqueue
  <1>4. /\ Len(queue) \in Nat /\ DOMAIN queue = 1..Len(queue)
        /\ queue \in Seq(Placeholder) /\ QTypeOK
        /\ \A j \in 1..Len(queue) : queue[j].ev \in EventId /\ queue[j].time \in Nat
    BY QueueFacts DEF TInv, Inv, QInv, QTypeOK, Time
  <1>5. i \notin Evs(queue)
    BY <1>2 DEF TInv, Inv, QInv, UsedIsQueued, Fresh
  <1>6. \A j \in 1..Len(queue) : /\ j < k => queue[j].time <= t
                                 /\ j >= k => queue[j].time >= t
    BY <1>3, <1>4 DEF IsUpperBound
  <1>7. ASSUME NEW j \in 1..Len(queue), ~pool'[queue[j].ev].killed
        PROVE  queue[j].time >= now'
    <2>1. queue[j].ev # i
      BY <1>4, <1>5 DEF Evs
    <2>2. pool'[queue[j].ev] = PoolAfterKill(n)[queue[j].ev]
      BY <1>2, <1>4, <2>1, PoolAfterKillFacts
    <2>3. ~pool[queue[j].ev].killed
      BY <1>4, <1>7, <2>2, PoolAfterKillFacts
    <2>4. QED
      BY <1>4, <2>3 DEF TInv, NoLiveEventInPast
  <1>8. Sorted(queue)
    BY DEF TInv
  <1>9. QED
    BY <1>1, <1>3, <1>4, <1>5, <1>6, <1>7, <1>8, InsertTimely

\* What is left behind the first live placeholder is due no earlier.
LEMMA FrontTimely ==
    ASSUME TInv, NEW k \in DOMAIN queue, FirstLive(k)
    PROVE  /\ queue[k].time >= now /\ queue[k].time \in Time
           /\ DropFirst(queue, k) \in Seq(Placeholder)
           /\ Sorted(DropFirst(queue, k))
           /\ \A j \in 1..Len(DropFirst(queue, k)) :
                /\ DropFirst(queue, k)[j].time >= queue[k].time
                /\ DropFirst(queue, k)[j].time \in Nat
           /\ DOMAIN DropFirst(queue, k) = 1..Len(DropFirst(queue, k))
           /\ queue[k].ev \notin Evs(DropFirst(queue, k))
           /\ Evs(DropFirst(queue, k)) \subseteq Evs(queue)
  <1>1. /\ Len(queue) \in Nat /\ k \in 1..Len(queue) /\ k \in 0..Len(queue)
        /\ DOMAIN queue = 1..Len(queue)
        /\ queue[k].time \in Time
        /\ queue[k].ev \in QueuedUpTo(k)
    BY FirstLiveFacts DEF TInv, Inv
  <1>2. queue \in Seq(Placeholder) /\ Unique(queue) /\ Sorted(queue)
    BY DEF TInv, Inv, QInv, QTypeOK
  <1>3. /\ DropFirst(queue, k) \in Seq(Placeholder)
        /\ Len(DropFirst(queue, k)) = Len(queue) - k
        /\ DOMAIN DropFirst(queue, k) = 1..(Len(queue) - k)
        /\ \A j \in 1..(Len(queue) - k) : DropFirst(queue, k)[j] = queue[j + k]
        /\ Evs(DropFirst(queue, k)) = Evs(queue) \ QueuedUpTo(k)
    BY <1>1, <1>2, DropFirstFacts DEF QueuedUpTo
  <1>4. queue[k].time >= now
    BY <1>1 DEF FirstLive, TInv, NoLiveEventInPast
  <1>5. ASSUME NEW j \in 1..(Len(queue) - k)
        PROVE  queue[j + k].time >= queue[k].time /\ queue[j + k].time \in Nat
    <2>1. j + k \in 1..Len(queue) /\ k < j + k
      BY <1>1
    <2>2. queue[j + k].time \in Time
      BY <1>2, <2>1, QueueFacts
    <2>3. queue[k].time <= queue[j + k].time
      BY <1>1, <1>2, <2>1 DEF Sorted
    <2>4. QED
      BY <1>1, <2>2, <2>3 DEF Time
  <1>6. Sorted(DropFirst(queue, k))
    BY <1>1, <1>2, DropSorted
  <1>7. QED
    BY <1>1, <1>3, <1>4, <1>5, <1>6

\* The first live event is taken off the queue.
LEMMA TakeTimely ==
    ASSUME TInv, NEW k \in DOMAIN queue, FirstLive(k),
           queue' = DropFirst(queue, k), now' = queue[k].time
    PROVE  Sorted(queue)' /\ NoLiveEventInPast'
  <1>1. /\ Sorted(queue')
        /\ \A j \in DOMAIN queue' : queue'[j].time >= now'
    BY FrontTimely
  <1>2. QED
    BY <1>1 DEF NoLiveEventInPast

\* It is put back, or a copy of it is, at a time t not before its own.
LEMMA PutBackTimely ==
    ASSUME TInv, NEW k \in DOMAIN queue, FirstLive(k), now' = queue[k].time,
           NEW i \in EventId, i \notin Evs(DropFirst(queue, k)),
           NEW t \in Time, t >= queue[k].time,
           Enqueue(DropFirst(queue, k), i, t)
    PROVE  Sorted(queue)' /\ NoLiveEventInPast'
  <1> DEFINE q == DropFirst(queue, k)
  <1>1. /\ q \in Seq(Placeholder) /\ Sorted(q) /\ now' \in Time
        /\ \A j \in 1..Len(q) : q[j].time >= now' /\ q[j].time \in Nat
        /\ DOMAIN q = 1..Len(q)
    BY FrontTimely
  <1>2. PICK l \in 1..(Len(q) + 1) :
            /\ IsUpperBound(q, l, t)
            /\ queue' = InsertAt(q, l, [time |-> t, ev |-> i])
    BY DEF Enqueue
  <1> HIDE DEF q
  <1>3. \A j \in 1..Len(q) : /\ j < l => q[j].time <= t
                             /\ j >= l => q[j].time >= t
    <2>1. t \in Nat
      BY QueueAssumption DEF Time
    <2>2. \A j \in 1..Len(q) : j >= l => q[j].time > t
      BY <1>1, <1>2 DEF IsUpperBound
    <2>3. \A j \in 1..Len(q) : j < l => q[j].time <= t
      BY <1>1, <1>2 DEF IsUpperBound
    <2>4. QED
      BY <2>1, <2>2, <2>3, <1>1
  <1>4. i \notin Evs(q)
    BY DEF q
  <1>5. QED
    BY <1>1, <1>2, <1>3, <1>4, InsertTimely

\* Nothing changes the queue or the time, and no killed event comes back.
LEMMA StillTimely ==
    ASSUME TInv, UNCHANGED <<now, queue>>,
           \A j \in EventId : ~pool'[j].killed => ~pool[j].killed \/ ~InUse(j)
    PROVE  Sorted(queue)' /\ NoLiveEventInPast'
  <1>1. /\ DOMAIN queue = 1..Len(queue)
        /\ \A j \in 1..Len(queue) : queue[j].ev \in EventId
    BY QueueFacts DEF TInv, Inv, QInv, QTypeOK
  <1>2. \A j \in DOMAIN queue : InUse(queue[j].ev)
    BY <1>1 DEF TInv, Inv, QInv, UsedIsQueued, Evs
  <1>3. QED
    BY <1>1, <1>2 DEF TInv, NoLiveEventInPast, Sorted

LEMMA KillTimely ==
    ASSUME TInv, NEW n \in Node, KillEvent(n), now' = now
    PROVE  Sorted(queue)' /\ NoLiveEventInPast'
  <1>1. \A j \in EventId : ~pool'[j].killed => ~pool[j].killed
    BY PoolAfterKillFacts DEF KillEvent, TInv, Inv, QInv
  <1>2. QED
    BY <1>1, StillTimely DEF KillEvent

LEMMA RewriteTimely ==
    ASSUME TInv, NEW n \in Node, pending[n] # 0, NEW e, Rewrite(n, e), now' = now
    PROVE  Sorted(queue)' /\ NoLiveEventInPast'
  <1>1. pending[n] \in EventId /\ ~pool[pending[n]].killed
    BY DEF TInv, Inv, QInv, QTypeOK, BackToEvent, Live
  <1>2. \A j \in EventId : j # pending[n] => pool'[j] = pool[j]
    BY DEF Rewrite, TInv, Inv, QInv, QTypeOK
  <1>3. QED
    BY <1>1, <1>2, StillTimely DEF Rewrite

\* The queue is emptied.
LEMMA EmptyTimely ==
    ASSUME queue' = <<>>
    PROVE  Sorted(queue)' /\ NoLiveEventInPast'
  <1>1. Len(queue') = 0 /\ queue' \in Seq(Placeholder)
    BY EmptySeq
  <1>2. DOMAIN queue' = {}
    BY <1>1, LenProperties
  <1>3. QED
    BY <1>2 DEF Sorted, NoLiveEventInPast

LEMMA UserTimely == TInv /\ UserNext => TInv' /\ (now' >= now \/ queue' = <<>>)
  <1> USE QueueAssumption, EventsAssumption
  <1> SUFFICES ASSUME TInv, UserNext
               PROVE  TInv' /\ (now' >= now \/ queue' = <<>>)
    OBVIOUS
  <1> DEFINE Goal == /\ Sorted(queue)' /\ NoLiveEventInPast' /\ Modes'
                     /\ now' >= now \/ queue' = <<>>
  <1>0. /\ Modes /\ Inv /\ Time \subseteq Nat /\ Time \subseteq Int
        /\ now \in Time /\ now \in Int /\ now >= now /\ now <= MaxTime
    BY DEF TInv, Inv, StepTypeOK, Time
  <1>1. ASSUME NEW n \in Node, NEW e, NEW t \in Int, t >= now,
               Schedule(n, e, t), UNCHANGED <<now, until, barren>>
        PROVE  Goal
    <2>1. t \in Nat
      BY <1>0, <1>1 DEF Time
    <2>2. Sorted(queue)' /\ NoLiveEventInPast'
      BY <1>1, <2>1, ScheduleTimely
    <2>3. QED
      BY <2>2, <1>0, <1>1 DEF Modes
  <1>2. ASSUME NEW n \in Node, NEW v \in Value, NEW t \in Time, SetNode(n, v, t)
        PROVE  Goal
    <2>1. /\ Schedule(n, NewEvent(n, v, 0, FALSE, FALSE), t) /\ t >= now
          /\ UNCHANGED <<now, until, barren>> /\ t \in Int
      BY <1>0, <1>2 DEF SetNode, stepVars
    <2>2. QED
      BY <2>1, <1>1
  <1>3. ASSUME NEW n \in Node, NEW v \in Value, NEW t \in Time,
               SetNodeForced(n, v, t)
        PROVE  Goal
    <2>1. /\ Schedule(n, NewEvent(n, v, 0, FALSE, TRUE), t) /\ t >= now
          /\ UNCHANGED <<now, until, barren>> /\ t \in Int
      BY <1>0, <1>3 DEF SetNodeForced, stepVars
    <2>2. QED
      BY <2>1, <1>1
  <1>4. ASSUME NEW n \in Node, DescheduleEvent(n) PROVE Goal
    BY <1>0, <1>4, KillTimely DEF DescheduleEvent, stepVars, Modes
  <1>5. ASSUME NEW n \in Node, NEW t \in Int, RescheduleEvent(n, t) PROVE Goal
    BY <1>1, <1>5 DEF RescheduleEvent, stepVars
  <1>6. ASSUME NEW n \in Node, NEW dt \in {-1, 1}, RescheduleEventRelative(n, dt)
        PROVE  Goal
    <2>1. PICK k \in DOMAIN queue : RescheduleEvent(n, queue[k].time + dt)
      BY <1>6 DEF RescheduleEventRelative
    <2>2. k \in 1..Len(queue) /\ \A j \in 1..Len(queue) : queue[j].time \in Time
      BY QueueFacts DEF TInv, Inv, QInv, QTypeOK
    <2>3. queue[k].time + dt \in Int
      BY <2>2 DEF Time
    <2>4. QED
      BY <2>1, <2>3, <1>5
  <1>7. ASSUME NEW n \in Node, RescheduleEventNow(n) PROVE Goal
    <2>1. UNCHANGED <<now, until, barren>>
      BY <1>7 DEF RescheduleEventNow, stepVars
    <2>2. PICK i \in EventId :
            /\ Fresh(i)
            /\ pool' = [PoolAfterKill(n) EXCEPT ![i] = pool[pending[n]]]
            /\ pending' = [pending EXCEPT ![n] = i]
            /\ IF Len(queue) > 0 /\ queue[1].time = now
               THEN queue' = InsertAt(queue, 1, [time |-> now, ev |-> i])
               ELSE Enqueue(queue, i, now)
      BY <1>7 DEF RescheduleEventNow
    <2>3. CASE Enqueue(queue, i, now)
      <3>1. Schedule(n, pool[pending[n]], now)
        BY <2>2, <2>3, <1>0 DEF Schedule
      <3>2. QED
        BY <3>1, <2>1, <1>0, <1>1
    <2>4. CASE /\ Len(queue) > 0 /\ queue[1].time = now
               /\ queue' = InsertAt(queue, 1, [time |-> now, ev |-> i])
      <3>1. /\ Len(queue) \in Nat /\ DOMAIN queue = 1..Len(queue)
            /\ queue \in Seq(Placeholder) /\ QTypeOK /\ Sorted(queue)
            /\ \A j \in 1..Len(queue) :
                    queue[j].ev \in EventId /\ queue[j].time \in Nat
        BY QueueFacts DEF TInv, Inv, QInv, QTypeOK, Time
      <3>2. i \notin Evs(queue)
        BY <2>2 DEF TInv, Inv, QInv, UsedIsQueued, Fresh
      <3>3. \A j \in 1..Len(queue) : queue[j].time >= now
        <4> SUFFICES ASSUME NEW j \in 1..Len(queue) PROVE queue[j].time >= now
          OBVIOUS
        <4>1. CASE j = 1
          BY <4>1, <2>4, <1>0
        <4>2. CASE j > 1
          <5>1. queue[1].time <= queue[j].time
            BY <4>2, <3>1 DEF Sorted
          <5>2. QED
            BY <5>1, <2>4, <3>1, <1>0
        <4>3. QED
          BY <4>1, <4>2
      <3>4. \A j \in 1..Len(queue) : /\ j < 1 => queue[j].time <= now
                                     /\ j >= 1 => queue[j].time >= now
        BY <3>1, <3>3
      <3>5. 1 \in 1..(Len(queue) + 1)
        BY <3>1
      <3>6. Sorted(queue)' /\ NoLiveEventInPast'
        BY <3>1, <3>2, <3>3, <3>4, <3>5, <2>1, <2>4, <1>0, InsertTimely
      <3>7. QED
        BY <3>6, <2>1, <1>0 DEF Modes
    <2>5. QED
      BY <2>2, <2>3, <2>4
  <1>8. ASSUME UNCHANGED <<queue, pool, now>>, Modes' PROVE Goal
    BY <1>0, <1>8, StillTimely
  <1>9. ASSUME NEW n \in Node, FreezeNode(n) PROVE Goal
    BY <1>0, <1>8, <1>9 DEF FreezeNode, queueVars, Modes
  <1>10. ASSUME NEW n \in Node, NEW v \in Value, NEW w \in Strength,
                NEW d \in Delays, UnsetNode(n, v, w, d)
         PROVE  Goal
    <2>1. UNCHANGED <<until, barren>> /\ UNCHANGED now
      BY <1>10 DEF UnsetNode, queueVars
    <2>2. CASE UNCHANGED queueVars
      BY <2>1, <2>2, <1>0, <1>8 DEF queueVars, Modes
    <2>3. ASSUME pending[n] # 0,
                 Rewrite(n, [pool[pending[n]] EXCEPT
                               !.val = v, !.weak = w, !.forced = FALSE])
          PROVE  Goal
      BY <2>1, <2>3, <1>0, RewriteTimely DEF Modes
    <2>4. ASSUME Schedule(n, NewEvent(n, v, 0, w, FALSE), now + d)
          PROVE  Goal
      <3>1. now + d \in Int /\ now + d >= now
        BY <1>0 DEF Time
      <3>2. QED
        BY <3>1, <2>1, <2>4, <1>1
    <2>5. QED
      BY <2>2, <2>3, <2>4, <1>10 DEF UnsetNode
  <1>11. ASSUME NEW n \in Node, NEW v \in Value,
                SetNow(n, v)
         PROVE  Goal
    BY <1>0, <1>8, <1>11 DEF SetNow, queueVars, Modes
  <1>12. ASSUME NEW t \in {0, now}, Initialize(t) PROVE Goal
    BY <1>0, <1>12, EmptyTimely DEF Initialize, Modes
  <1>r. ASSUME Restore PROVE Goal
    <2>1. /\ Len(queue) \in Nat /\ DOMAIN queue = 1..Len(queue)
          /\ \A k \in 1..Len(queue) : queue[k].ev \in EventId /\ pool[queue[k].ev] \in Event
          /\ Len(queue) <= MaxEvents
      BY <1>0, <1>r, QueueFacts DEF TInv, Inv, QInv, QTypeOK, Restore
    <2>2. /\ DOMAIN queue' = 1..Len(queue) /\ UNCHANGED <<now, until, barren>>
          /\ \A k \in 1..Len(queue) :
                queue'[k].time = queue[k].time /\ queue'[k].ev = k
      BY <2>1, <1>r DEF Restore, stepVars
    <2>3. \A k \in 1..Len(queue) : pool'[k].killed = pool[queue[k].ev].killed
      BY <2>1, <1>r DEF Restore, EventId, Event
    <2>4. QED
      BY <2>1, <2>2, <2>3, <1>0 DEF TInv, Sorted, NoLiveEventInPast, Modes
  <1>13. ASSUME NEW t \in Time, AdvanceBegin(t) PROVE Goal
    BY <1>0, <1>8, <1>13 DEF AdvanceBegin, queueVars, Modes
  <1>14. Inv'
    BY <1>0, UserInv
  <1>15. Goal
    BY <1>0, <1>2, <1>3, <1>4, <1>5, <1>6, <1>7, <1>9, <1>10, <1>11, <1>12, <1>r,
       <1>13 DEF UserNext
  <1>16. QED
    BY <1>14, <1>15 DEF TInv

LEMMA SimTimely == Timely /\ TInv /\ SimNext => TInv' /\ now' >= now
  <1> USE QueueAssumption, EventsAssumption
  <1> SUFFICES ASSUME Timely, TInv, SimNext
               PROVE  TInv' /\ now' >= now
    OBVIOUS
  <1> DEFINE Goal == Sorted(queue)' /\ NoLiveEventInPast' /\ Modes' /\ now' >= now
  <1>0. /\ Modes /\ Inv /\ Time \subseteq Nat /\ Time \subseteq Int
        /\ now \in Time /\ now \in Int /\ now >= now
    BY DEF TInv, Inv, StepTypeOK, Time
  <1>1. ASSUME StepNothing PROVE Goal
    BY <1>0, <1>1, EmptyTimely DEF StepNothing, Modes
  <1>2. ASSUME NEW k \in DOMAIN queue, NEW t \in Time, StepMinDelay(k, t)
        PROVE  Goal
    <2>1. /\ FirstLive(k) /\ now' = queue[k].time /\ t > queue[k].time
          /\ UNCHANGED <<until, barren>>
          /\ \E c \in EventId : Fresh(c) /\ Enqueue(DropFirst(queue, k), c, t)
      BY <1>2 DEF StepMinDelay
    <2>2. PICK c \in EventId : Fresh(c) /\ Enqueue(DropFirst(queue, k), c, t)
      BY <2>1
    <2>3. /\ queue[k].time >= now /\ queue[k].time \in Time
          /\ Evs(DropFirst(queue, k)) \subseteq Evs(queue)
      BY <2>1, FrontTimely
    <2>4. c \notin Evs(DropFirst(queue, k)) /\ t >= queue[k].time
      <3>1. c \notin Evs(queue)
        BY <2>2, <1>0 DEF Inv, QInv, UsedIsQueued, Fresh
      <3>2. QED
        BY <2>1, <2>3, <3>1 DEF Time
    <2>5. Sorted(queue)' /\ NoLiveEventInPast'
      BY <2>1, <2>2, <2>4, PutBackTimely
    <2>6. QED
      BY <2>1, <2>3, <2>5, <1>0 DEF Modes
  <1>3. ASSUME NEW k \in DOMAIN queue, FirstLive(k), now' = queue[k].time,
               queue' = DropFirst(queue, k), UNCHANGED until,
               barren' => "stop_vacuous" \in Session
        PROVE  Goal
    BY <1>0, <1>3, TakeTimely, FrontTimely DEF Modes
  <1>4. ASSUME NEW k \in DOMAIN queue, StepXX(k) PROVE Goal
    BY <1>3, <1>4 DEF StepXX, Executing, Settle
  <1>5. ASSUME NEW k \in DOMAIN queue, StepVacuous(k) PROVE Goal
    BY <1>3, <1>5 DEF StepVacuous, Executing
  <1>s. ASSUME NEW k \in DOMAIN queue, StepVacuousStop(k) PROVE Goal
    BY <1>3, <1>s DEF StepVacuousStop, Executing, Settle
  <1>6. ASSUME NEW k \in DOMAIN queue, StepExclRefused(k) PROVE Goal
    <2>1. /\ FirstLive(k) /\ now' = queue[k].time /\ UNCHANGED until
          /\ Enqueue(DropFirst(queue, k), queue[k].ev, queue[k].time)
          /\ "excl" \in Session
      BY <1>6 DEF StepExclRefused, Executing
    <2>2. /\ queue[k].time >= now /\ queue[k].time \in Time
          /\ queue[k].time >= queue[k].time
          /\ queue[k].ev \notin Evs(DropFirst(queue, k))
          /\ queue[k].ev \in EventId
      <3>1. queue[k].ev \in EventId
        BY <2>1, <1>0, FirstLiveFacts DEF Inv
      <3>2. queue[k].time \in Time
        BY <2>1, FrontTimely
      <3>3. queue[k].time >= queue[k].time
        BY <3>2 DEF Time
      <3>4. QED
        BY <2>1, <3>1, <3>3, FrontTimely
    <2>3. Sorted(queue)' /\ NoLiveEventInPast'
      BY <2>1, <2>2, PutBackTimely
    <2>4. QED
      BY <2>1, <2>2, <2>3, <1>0 DEF Modes
  <1>7. ASSUME NEW k \in DOMAIN queue, StepCommit(k)
        PROVE  Goal
    BY <1>3, <1>7 DEF StepCommit, Executing, Settle
  <1>8. ASSUME UNCHANGED <<queue, pool, now, until, barren>> PROVE Goal
    BY <1>0, <1>8, StillTimely DEF Modes
  <1>9. ASSUME NEW n \in Node, PropagateKill(n) PROVE Goal
    BY <1>0, <1>9, KillTimely DEF PropagateKill, stepVars, Modes
  <1>10. ASSUME NEW n \in Node, FlushKill(n) PROVE Goal
    BY <1>0, <1>10, KillTimely DEF FlushKill, Modes
  <1>11. ASSUME NEW n \in Node, NEW w \in Strength, FlushOverwrite(n, w)
         PROVE  Goal
    <2>1. /\ pending[n] # 0 /\ UNCHANGED <<now, until, barren>>
          /\ Rewrite(n, [pool[pending[n]] EXCEPT !.val = LOGIC_OTHER, !.weak = w])
      BY <1>11 DEF FlushOverwrite
    <2>2. QED
      BY <2>1, <1>0, RewriteTimely DEF Modes
  <1>12. ASSUME NEW n \in Node, NEW v \in Value, NEW r \in Rule \cup {0},
                NEW w \in Strength, NEW d \in Delays,
                FlushSchedule(n, v, r, w, d)
         PROVE  Goal
    <2>1. /\ Schedule(n, NewEvent(n, v, r, w, FALSE), now + d)
          /\ UNCHANGED <<now, until, barren>>
      BY <1>12 DEF FlushSchedule
    <2>2. now + d \in Nat /\ now + d >= now
      BY <1>0
    <2>3. Sorted(queue)' /\ NoLiveEventInPast'
      BY <2>1, <2>2, ScheduleTimely
    <2>4. QED
      BY <2>1, <2>3, <1>0 DEF Modes
  <1>13. ASSUME StepReturn PROVE Goal
    <2>1. UNCHANGED <<queue, pool, now, until, barren>>
      BY <1>0, <1>13 DEF StepReturn, Inv
    <2>2. QED
      BY <2>1, <1>8
  <1>14. ASSUME AdvanceEnd PROVE Goal
    <2>1. /\ ~NextEventBefore(until) /\ until \in Time /\ until' = -1
          /\ now' = IF now < until THEN until ELSE now
          /\ UNCHANGED <<queue, pool, barren>>
      BY <1>0, <1>14 DEF AdvanceEnd, Timely, Modes, Inv, StepTypeOK
    <2>2. DOMAIN queue = 1..Len(queue)
          /\ \A j \in 1..Len(queue) : queue[j].time \in Time
      BY <1>0, QueueFacts DEF Inv, QInv, QTypeOK
    <2>3. ASSUME NEW k \in DOMAIN queue, ~pool[queue[k].ev].killed
          PROVE  queue[k].time >= now'
      <3>1. queue[k].time >= now
        BY <2>3 DEF TInv, NoLiveEventInPast
      <3>2. ~(queue[k].time < until)
        BY <2>1, <2>3 DEF NextEventBefore
      <3>3. QED
        BY <2>1, <2>2, <3>1, <3>2, <1>0 DEF Time
    <2>4. Sorted(queue)' /\ NoLiveEventInPast'
      BY <2>1, <2>3 DEF TInv, Sorted, NoLiveEventInPast
    <2>5. now' >= now
      BY <2>1, <1>0
    <2>6. QED
      BY <2>1, <2>4, <2>5, <1>0 DEF Modes
  <1>15. ASSUME AdvanceStop PROVE Goal
    <2>1. UNCHANGED <<queue, pool, now, barren>> /\ until' = -1
      BY <1>15 DEF AdvanceStop, queueVars
    <2>2. QED
      BY <2>1, <1>0, StillTimely DEF Modes
  <1>16. Inv'
    BY <1>0, SimInv DEF Timely
  <1>17. Goal
    BY <1>1, <1>2, <1>4, <1>5, <1>s, <1>6, <1>7, <1>9, <1>10, <1>11, <1>12,
       <1>13, <1>14, <1>15 DEF SimNext
  <1>18. QED
    BY <1>16, <1>17 DEF TInv

LEMMA InitTimely == Init => TInv
  <1> SUFFICES ASSUME Init PROVE TInv
    OBVIOUS
  <1>1. Inv
    BY InitInv
  <1>2. Len(queue) = 0 /\ queue \in Seq(Placeholder)
    BY EmptySeq DEF Init
  <1>3. DOMAIN queue = {}
    BY <1>2, LenProperties
  <1>4. QED
    BY <1>1, <1>3 DEF TInv, Sorted, NoLiveEventInPast, Modes, Init

LEMMA StutterTimely == TInv /\ UNCHANGED vars => TInv'
  <1> SUFFICES ASSUME TInv, UNCHANGED vars PROVE TInv'
    OBVIOUS
  <1>1. Inv'
    BY QuietInv DEF TInv, Inv, vars, StepTypeOK
  <1>2. QED
    BY <1>1, StillTimely DEF TInv, vars, Modes

\* A live event is never scheduled in the past, so the next one taken off the
\* queue never takes the time back.
THEOREM NoEventInPast ==
    ASSUME Timely
    PROVE  Spec => []NoLiveEventInPast
  <1>1. TInv /\ [Next]_vars => TInv'
    BY UserTimely, SimTimely, StutterTimely DEF Next
  <1>2. TInv => NoLiveEventInPast
    BY DEF TInv
  <1>3. QED
    BY <1>1, <1>2, InitTimely, PTL DEF Spec

\* The simulated time never goes back while anything is planned.
THEOREM TimeNeverGoesBack ==
    ASSUME Timely
    PROVE  Spec => TimeMonotonic
  <1>1. TInv /\ [Next]_vars => TInv'
    BY UserTimely, SimTimely, StutterTimely DEF Next
  <1>2. TInv /\ [Next]_vars =>
            [now' >= now \/ (queue' = <<>> /\ \A n \in Node : pending'[n] = 0)]_vars
    <2> SUFFICES ASSUME TInv, Next
                 PROVE  now' >= now \/ (queue' = <<>> /\ \A n \in Node : pending'[n] = 0)
      OBVIOUS
    <2>1. TInv' /\ (now' >= now \/ queue' = <<>>)
      BY UserTimely, SimTimely DEF Next
    <2>2. ASSUME queue' = <<>>, NEW n \in Node PROVE pending'[n] = 0
      <3>1. Len(queue') = 0 /\ queue' \in Seq(Placeholder)
        BY <2>2, EmptySeq
      <3>2. DOMAIN queue' = {}
        BY <3>1, LenProperties
      <3>3. \A i \in EventId : ~InUse(i)'
        BY <2>1, <3>2 DEF TInv, Inv, QInv, UsedIsQueued, Evs
      <3>4. QED
        BY <2>1, <3>3 DEF TInv, Inv, QInv, QTypeOK, BackToEvent, Live
    <2>3. QED
      BY <2>1, <2>2
  <1>3. QED
    BY <1>1, <1>2, InitTimely, PTL DEF Spec, TimeMonotonic

-----------------------------------------------------------------------------
(* The agenda.  A node has a plan if it has a live placeholder, of which     *)
(* there is one at most.                                                     *)

LoadedIn(q, P, m) == {k \in DOMAIN q : ~P[q[k].ev].killed /\ P[q[k].ev].node = m}

LEMMA LoadedFacts ==
    ASSUME Inv, NEW n \in Node
    PROVE  /\ Loaded(n) = LoadedIn(queue, pool, n)
           /\ Loaded(n) \subseteq 1..Len(queue)
           /\ pending[n] = 0 => Loaded(n) = {}
           /\ \A k \in Loaded(n) : queue[k].ev = pending[n] /\ Loaded(n) = {k}
           /\ pending[n] # 0 => \E k \in Loaded(n) : TRUE
  <1>1. /\ DOMAIN queue = 1..Len(queue) /\ Len(queue) \in Nat
        /\ \A j \in 1..Len(queue) : queue[j].ev \in EventId
        /\ 0 \notin EventId /\ 0 \notin Node
    BY QueueFacts, QueueAssumption DEF Inv, QInv, QTypeOK, EventId
  <1>2. ASSUME NEW k \in Loaded(n) PROVE queue[k].ev = pending[n] /\ pending[n] # 0
    <2>1. k \in 1..Len(queue) /\ Live(queue[k].ev) /\ pool[queue[k].ev].node = n
      BY <1>1, <1>2 DEF Loaded, Live, InUse
    <2>2. QED
      BY <1>1, <2>1 DEF Inv, QInv, BackToNode
  <1>3. ASSUME NEW k \in Loaded(n) PROVE Loaded(n) = {k}
    BY <1>1, <1>2 DEF Loaded, Inv, QInv, Unique
  <1>4. ASSUME pending[n] # 0 PROVE \E k \in Loaded(n) : TRUE
    <2>1. pending[n] \in EventId /\ Live(pending[n]) /\ pool[pending[n]].node = n
      BY <1>4 DEF Inv, QInv, QTypeOK, BackToEvent
    <2>2. PICK k \in DOMAIN queue : queue[k].ev = pending[n]
      BY <2>1 DEF Inv, QInv, UsedIsQueued, Live, Evs
    <2>3. QED
      BY <2>1, <2>2 DEF Loaded, Live
  <1>5. Loaded(n) \subseteq 1..Len(queue)
    BY <1>1 DEF Loaded
  <1>6. QED
    BY <1>2, <1>3, <1>4, <1>5 DEF Loaded, LoadedIn

\* The plans in terms of the placeholders.
LEMMA PlanFacts ==
    ASSUME Inv
    PROVE  /\ DOMAIN PlanOf = {m \in Node : Loaded(m) # {}}
           /\ \A m \in Node : \A p \in Loaded(m) : PlanOf[m] = PlanAt(p)
           /\ \A m \in Node : m \in DOMAIN PlanOf <=> pending[m] # 0
  <1>1. DOMAIN PlanOf = {m \in Node : Loaded(m) # {}}
    BY DEF PlanOf
  <1>2. ASSUME NEW m \in Node, NEW k \in Loaded(m) PROVE PlanOf[m] = PlanAt(k)
    <2>1. Loaded(m) = {k}
      BY <1>2, LoadedFacts
    <2>2. PlanOf[m] = PlanAt(CHOOSE j \in Loaded(m) : TRUE)
      BY <1>2 DEF PlanOf
    <2>3. (CHOOSE j \in Loaded(m) : TRUE) = k
      BY <2>1
    <2>4. QED
      BY <2>2, <2>3
  <1>3. \A m \in Node : Loaded(m) # {} <=> pending[m] # 0
    BY LoadedFacts
  <1>4. QED
    BY <1>1, <1>2, <1>3

\* The placeholders of all nodes but n move, without change of their plans and
\* of their order.
Shifts(n, g) ==
    /\ \A m \in Node \ {n} : Loaded(m)' = {g[j] : j \in Loaded(m)}
    /\ \A m \in Node \ {n} : \A j \in Loaded(m) : g[j] \in Int /\ PlanAt(g[j])' = PlanAt(j)
    /\ \A l, m \in Node \ {n} : \A i \in Loaded(l), j \in Loaded(m) : g[i] < g[j] <=> i < j

LEMMA OthersStay ==
    ASSUME Inv, Inv', NEW n, NEW g, Shifts(n, g)
    PROVE  /\ \A m \in Node \ {n} : /\ m \in DOMAIN PlanOf' <=> m \in DOMAIN PlanOf
                                    /\ m \in DOMAIN PlanOf => PlanOf'[m] = PlanOf[m]
           /\ \A l, m \in Node \ {n} : <<l, m>> \in BeforeOf' <=> <<l, m>> \in BeforeOf
  <1>1. /\ DOMAIN PlanOf = {m \in Node : Loaded(m) # {}}
        /\ \A m \in Node : \A p \in Loaded(m) : PlanOf[m] = PlanAt(p)
    BY PlanFacts
  <1>2. /\ DOMAIN PlanOf' = {m \in Node : Loaded(m)' # {}}
        /\ \A m \in Node : \A k \in Loaded(m)' : PlanOf'[m] = PlanAt(k)'
    <2>1. (/\ DOMAIN PlanOf = {m \in Node : Loaded(m) # {}}
           /\ \A m \in Node : \A p \in Loaded(m) : PlanOf[m] = PlanAt(p))'
      BY PlanFacts, PTL
    <2>2. QED
      BY <2>1
  <1>3. ASSUME NEW m \in Node \ {n}
        PROVE  /\ m \in DOMAIN PlanOf' <=> m \in DOMAIN PlanOf
               /\ m \in DOMAIN PlanOf => PlanOf'[m] = PlanOf[m]
    <2>1. Loaded(m)' = {g[j] : j \in Loaded(m)}
      BY DEF Shifts
    <2>2. ASSUME m \in DOMAIN PlanOf PROVE PlanOf'[m] = PlanOf[m]
      <3>1. PICK j \in Loaded(m) : TRUE
        BY <1>1, <2>2
      <3>2. g[j] \in Loaded(m)' /\ PlanAt(g[j])' = PlanAt(j)
        BY <2>1 DEF Shifts
      <3>3. QED
        BY <1>1, <1>2, <3>2
    <2>3. QED
      BY <1>1, <1>2, <2>1, <2>2
  <1>4. ASSUME NEW l \in Node \ {n}, NEW m \in Node \ {n}
        PROVE  <<l, m>> \in BeforeOf' <=> <<l, m>> \in BeforeOf
    <2>1. Loaded(l)' = {g[j] : j \in Loaded(l)} /\ Loaded(m)' = {g[j] : j \in Loaded(m)}
      BY DEF Shifts
    <2>2. \A i \in Loaded(l), j \in Loaded(m) : g[i] < g[j] <=> i < j
      BY DEF Shifts
    <2>3. <<l, m>> \in BeforeOf' <=> \E i \in Loaded(l)', j \in Loaded(m)' : i < j
      BY DEF BeforeOf
    <2>4. <<l, m>> \in BeforeOf <=> \E i \in Loaded(l), j \in Loaded(m) : i < j
      BY DEF BeforeOf
    <2>5. QED
      BY <2>1, <2>2, <2>3, <2>4
  <1>5. QED
    BY <1>3, <1>4

LEMMA BeforeFacts ==
    ASSUME Inv
    PROVE  /\ \A w \in BeforeOf : /\ w = <<w[1], w[2]>> /\ w[1] \in Node /\ w[2] \in Node
                                  /\ Loaded(w[1]) # {} /\ Loaded(w[2]) # {}
           /\ \A b \in Node : <<b, b>> \notin BeforeOf
           /\ \A a, b \in Node : \A i \in Loaded(a), j \in Loaded(b) :
                 /\ <<a, b>> \in BeforeOf <=> i < j
                 /\ a # b => i # j
  <1>1. \A w \in BeforeOf : /\ w = <<w[1], w[2]>> /\ w[1] \in Node /\ w[2] \in Node
                            /\ Loaded(w[1]) # {} /\ Loaded(w[2]) # {}
    BY DEF BeforeOf
  <1>2. ASSUME NEW m \in Node, NEW n \in Node, NEW i \in Loaded(m), NEW j \in Loaded(n)
        PROVE  /\ <<m, n>> \in BeforeOf <=> i < j
               /\ m # n => i # j
    <2>1. Loaded(m) = {i} /\ Loaded(n) = {j}
      BY LoadedFacts
    <2>2. <<m, n>> \in BeforeOf <=> i < j
      BY <2>1 DEF BeforeOf
    <2>3. pool[queue[i].ev].node = m /\ pool[queue[j].ev].node = n
      BY DEF Loaded
    <2>4. QED
      BY <2>2, <2>3
  <1>3. ASSUME NEW n \in Node PROVE <<n, n>> \notin BeforeOf
    <2>1. CASE Loaded(n) = {}
      BY <1>1, <2>1
    <2>2. ASSUME NEW k \in Loaded(n) PROVE <<n, n>> \notin BeforeOf
      <3>1. k \in Int
        BY LoadedFacts
      <3>2. <<n, n>> \in BeforeOf <=> k < k
        BY <1>2
      <3>3. QED
        BY <3>1, <3>2
    <2>3. QED
      BY <2>1, <2>2
  <1>4. QED
    BY <1>1, <1>2, <1>3

\* The placeholder of n is taken away, those of the others move.
LEMMA AgendaRemove ==
    ASSUME Inv, Inv', NEW n \in Node, NEW g, Shifts(n, g), pending'[n] = 0
    PROVE  Agenda!Remove(n)
  <1>1. /\ \A m \in Node \ {n} : /\ m \in DOMAIN PlanOf' <=> m \in DOMAIN PlanOf
                                 /\ m \in DOMAIN PlanOf => PlanOf'[m] = PlanOf[m]
        /\ \A l, m \in Node \ {n} : <<l, m>> \in BeforeOf' <=> <<l, m>> \in BeforeOf
    BY OthersStay
  <1>2. Loaded(n)' = {}
    <2>1. (pending[n] = 0 => Loaded(n) = {})'
      BY LoadedFacts, PTL
    <2>2. QED
      BY <2>1
  <1>3. DOMAIN PlanOf \subseteq Node /\ DOMAIN PlanOf' \subseteq Node /\ n \notin DOMAIN PlanOf'
    BY <1>2 DEF PlanOf
  <1>4. PlanOf' = [m \in DOMAIN PlanOf \ {n} |-> PlanOf[m]]
    <2>1. DOMAIN PlanOf' = DOMAIN PlanOf \ {n}
      BY <1>1, <1>3
    <2>2. PlanOf' = [m \in DOMAIN PlanOf' |-> PlanOf'[m]]
      BY DEF PlanOf
    <2>3. \A m \in DOMAIN PlanOf' : PlanOf'[m] = PlanOf[m]
      BY <1>1, <1>3, <2>1
    <2>4. QED
      BY <2>1, <2>2, <2>3
  <1>5. /\ \A w \in BeforeOf : w = <<w[1], w[2]>> /\ w[1] \in Node /\ w[2] \in Node
        /\ \A w \in BeforeOf' : w = <<w[1], w[2]>> /\ w[1] \in Node \ {n} /\ w[2] \in Node \ {n}
    BY <1>2 DEF BeforeOf
  <1>6. BeforeOf' = {w \in BeforeOf : n \notin {w[1], w[2]}}
    <2>1. ASSUME NEW w \in BeforeOf' PROVE w \in BeforeOf /\ n \notin {w[1], w[2]}
      BY <1>1, <1>5
    <2>2. ASSUME NEW w \in BeforeOf, n \notin {w[1], w[2]} PROVE w \in BeforeOf'
      BY <1>1, <1>5, <2>2
    <2>3. QED
      BY <2>1, <2>2
  <1>7. QED
    BY <1>4, <1>6 DEF Agenda!Remove, Agenda!PlansWithout, Agenda!OrderWithout, Agenda!Others
\* Position k is the one that n has got; E and L are the nodes whose plans are
\* then before and behind it.
LEMMA AgendaMove ==
    ASSUME Inv, Inv', NEW n \in Node, NEW g, Shifts(n, g), NEW k \in Loaded(n)', k \in Int,
           NEW E \in SUBSET (Node \ {n}), NEW L \in SUBSET (Node \ {n}),
           \A m \in E \cup L : Loaded(m) # {},
           \A m \in Node \ {n} : \A j \in Loaded(m) : /\ m \in E <=> g[j] < k
                                                      /\ m \in L <=> g[j] > k
    PROVE  /\ PlanOf' = [m \in DOMAIN PlanOf \cup {n} |->
                            IF m = n THEN PlanAt(k)' ELSE PlanOf[m]]
           /\ BeforeOf' = Agenda!OrderWithout(n)
                    \cup {<<m, n>> : m \in E} \cup {<<n, m>> : m \in L}
  <1>1. /\ \A m \in Node \ {n} : /\ m \in DOMAIN PlanOf' <=> m \in DOMAIN PlanOf
                                 /\ m \in DOMAIN PlanOf => PlanOf'[m] = PlanOf[m]
        /\ \A l, m \in Node \ {n} : <<l, m>> \in BeforeOf' <=> <<l, m>> \in BeforeOf
    BY OthersStay
  <1>2. DOMAIN PlanOf \subseteq Node
    BY DEF PlanOf
  <1>3. /\ DOMAIN PlanOf' = {m \in Node : Loaded(m)' # {}}
        /\ PlanOf'[n] = PlanAt(k)'
    <2>1. (/\ DOMAIN PlanOf = {m \in Node : Loaded(m) # {}}
           /\ \A m \in Node : \A p \in Loaded(m) : PlanOf[m] = PlanAt(p))'
      BY PlanFacts, PTL
    <2>2. QED
      BY <2>1
  <1>4. PlanOf' = [m \in DOMAIN PlanOf \cup {n} |-> IF m = n THEN PlanAt(k)' ELSE PlanOf[m]]
    <2>1. DOMAIN PlanOf' = DOMAIN PlanOf \cup {n}
      BY <1>1, <1>2, <1>3
    <2>2. PlanOf' = [m \in DOMAIN PlanOf' |-> PlanOf'[m]]
      BY DEF PlanOf
    <2>3. \A m \in DOMAIN PlanOf' : PlanOf'[m] = IF m = n THEN PlanAt(k)' ELSE PlanOf[m]
      BY <1>1, <1>2, <1>3, <2>1
    <2>4. QED
      BY <2>1, <2>2, <2>3
  <1>5. /\ \A w \in BeforeOf : w = <<w[1], w[2]>> /\ w[1] \in Node /\ w[2] \in Node
        /\ \A w \in BeforeOf' : /\ w = <<w[1], w[2]>> /\ w[1] \in Node /\ w[2] \in Node
                                /\ Loaded(w[1])' # {} /\ Loaded(w[2])' # {}
    BY DEF BeforeOf
  <1>6. /\ \A m \in Node : <<m, m>> \notin BeforeOf'
        /\ \A l, m \in Node : \A i \in Loaded(l)', j \in Loaded(m)' :
                 <<l, m>> \in BeforeOf' <=> i < j
    <2>1. (/\ \A b \in Node : <<b, b>> \notin BeforeOf
           /\ \A a, b \in Node : \A i \in Loaded(a), j \in Loaded(b) :
                 /\ <<a, b>> \in BeforeOf <=> i < j
                 /\ a # b => i # j)'
      BY BeforeFacts, PTL
    <2>2. QED
      BY <2>1
  <1>7. ASSUME NEW m \in Node \ {n}
        PROVE  /\ <<m, n>> \in BeforeOf' <=> m \in E
               /\ <<n, m>> \in BeforeOf' <=> m \in L
    <2>1. CASE Loaded(m) = {}
      <3>1. Loaded(m)' = {}
        BY <2>1 DEF Shifts
      <3>2. <<m, n>> \notin BeforeOf' /\ <<n, m>> \notin BeforeOf'
        BY <3>1 DEF BeforeOf
      <3>3. QED
        BY <2>1, <3>2
    <2>2. ASSUME NEW j \in Loaded(m)
          PROVE  /\ <<m, n>> \in BeforeOf' <=> m \in E
                 /\ <<n, m>> \in BeforeOf' <=> m \in L
      <3>1. g[j] \in Loaded(m)' /\ g[j] \in Int
        BY DEF Shifts
      <3>2. /\ <<m, n>> \in BeforeOf' <=> g[j] < k
            /\ <<n, m>> \in BeforeOf' <=> k < g[j]
        BY <1>6, <3>1
      <3>3. QED
        BY <3>1, <3>2
    <2>3. QED
      BY <2>1, <2>2
  <1>8. BeforeOf' = {w \in BeforeOf : n \notin {w[1], w[2]}}
            \cup {<<m, n>> : m \in E} \cup {<<n, m>> : m \in L}
    <2>1. ASSUME NEW w \in BeforeOf'
          PROVE  \/ w \in BeforeOf /\ n \notin {w[1], w[2]}
                 \/ \E m \in E : w = <<m, n>>
                 \/ \E m \in L : w = <<n, m>>
      <3>1. w = <<w[1], w[2]>> /\ w[1] \in Node /\ w[2] \in Node
        BY <1>5
      <3>2. CASE w[1] # n /\ w[2] # n
        BY <3>1, <3>2, <1>1
      <3>3. CASE w[1] # n /\ w[2] = n
        BY <3>1, <3>3, <1>7
      <3>4. CASE w[1] = n /\ w[2] # n
        BY <3>1, <3>4, <1>7
      <3>5. CASE w[1] = n /\ w[2] = n
        BY <3>1, <3>5, <1>6
      <3>6. QED
        BY <3>2, <3>3, <3>4, <3>5
    <2>2. ASSUME NEW w \in BeforeOf, n \notin {w[1], w[2]} PROVE w \in BeforeOf'
      BY <1>1, <1>5, <2>2
    <2>3. ASSUME NEW m \in E PROVE <<m, n>> \in BeforeOf'
      BY <1>7
    <2>4. ASSUME NEW m \in L PROVE <<n, m>> \in BeforeOf'
      BY <1>7
    <2>5. QED
      BY <2>1, <2>2, <2>3, <2>4
  <1>9. QED
    BY <1>4, <1>8 DEF Agenda!OrderWithout

\* The new place of n is behind its equals.
LEMMA AgendaPlace ==
    ASSUME Inv, Inv', NEW n \in Node, NEW g, Shifts(n, g), NEW k \in Loaded(n)', k \in Int,
           NEW p, p = PlanAt(k)', p.time \in Int,
           \A m \in Node \ {n} : \A j \in Loaded(m) :
                /\ queue[j].time <= p.time => g[j] < k
                /\ queue[j].time > p.time => g[j] > k
    PROVE  Agenda!Place(n, p)
  <1> DEFINE E == {l \in DOMAIN PlanOf \ {n} : PlanOf[l].time <= p.time}
             L == {l \in DOMAIN PlanOf \ {n} : PlanOf[l].time > p.time}
  <1>1. DOMAIN PlanOf = {m \in Node : Loaded(m) # {}}
    BY PlanFacts
  <1>2. /\ E \in SUBSET (Node \ {n}) /\ L \in SUBSET (Node \ {n})
        /\ \A m \in E \cup L : Loaded(m) # {}
    BY <1>1
  <1>3. ASSUME NEW m \in Node \ {n}, NEW j \in Loaded(m)
        PROVE  /\ m \in E <=> g[j] < k
               /\ m \in L <=> g[j] > k
    <2>1. queue[j].time \in Int
      BY LoadedFacts, QueueFacts DEF Inv, QInv, QTypeOK, Time
    <2>2. PlanOf[m].time = queue[j].time /\ m \in DOMAIN PlanOf
      <3>1. PlanOf[m] = PlanAt(j) /\ Loaded(m) # {}
        BY PlanFacts
      <3>2. QED
        BY <3>1, <1>1 DEF PlanAt
    <2>3. g[j] \in Int
      BY DEF Shifts
    <2>4. /\ queue[j].time <= p.time => g[j] < k
          /\ queue[j].time > p.time => g[j] > k
      BY <1>3
    <2>5. /\ m \in E <=> queue[j].time <= p.time
          /\ m \in L <=> queue[j].time > p.time
      BY <2>2
    <2>6. QED
      BY <2>1, <2>3, <2>4, <2>5
  <1> HIDE DEF E, L
  <1>4. /\ PlanOf' = [m \in DOMAIN PlanOf \cup {n} |->
                            IF m = n THEN PlanAt(k)' ELSE PlanOf[m]]
        /\ BeforeOf' = Agenda!OrderWithout(n)
                    \cup {<<m, n>> : m \in E} \cup {<<n, m>> : m \in L}
    BY <1>2, <1>3, AgendaMove
  <1>5. QED
    BY <1>4 DEF Agenda!Place, Agenda!Others, E, L

\* A live placeholder of another node than n.
Other(n, j) == ~pool[queue[j].ev].killed /\ pool[queue[j].ev].node # n

\* To show that the plans of the others stay it is enough to say where their
\* placeholders go.
LEMMA ShiftsByPosition ==
    ASSUME NEW n, NEW g,
           \A j \in DOMAIN queue : Other(n, j) =>
                /\ g[j] \in Int /\ g[j] \in DOMAIN queue'
                /\ queue'[g[j]].time = queue[j].time
                /\ ~pool'[queue'[g[j]].ev].killed
                /\ pool'[queue'[g[j]].ev].node = pool[queue[j].ev].node
                /\ pool'[queue'[g[j]].ev].val = pool[queue[j].ev].val,
           \A i \in DOMAIN queue' : Other(n, i)' =>
                \E j \in DOMAIN queue : Other(n, j) /\ g[j] = i,
           \A i, j \in DOMAIN queue : g[i] < g[j] <=> i < j
    PROVE  Shifts(n, g)
  <1>1. ASSUME NEW m \in Node \ {n}, NEW j \in Loaded(m)
        PROVE  g[j] \in Int /\ g[j] \in Loaded(m)' /\ PlanAt(g[j])' = PlanAt(j)
    <2>1. j \in DOMAIN queue /\ Other(n, j) /\ pool[queue[j].ev].node = m
      BY DEF Loaded, Other
    <2>2. QED
      BY <2>1 DEF Loaded, PlanAt
  <1>2. ASSUME NEW m \in Node \ {n}, NEW i \in Loaded(m)'
        PROVE  \E j \in Loaded(m) : g[j] = i
    <2>1. i \in DOMAIN queue' /\ Other(n, i)' /\ pool'[queue'[i].ev].node = m
      BY DEF Loaded, Other
    <2>2. PICK j \in DOMAIN queue : Other(n, j) /\ g[j] = i
      BY <2>1
    <2>3. pool[queue[j].ev].node = m
      BY <2>1, <2>2
    <2>4. QED
      BY <2>2, <2>3 DEF Loaded, Other
  <1>3. \A m \in Node \ {n} : Loaded(m)' = {g[j] : j \in Loaded(m)}
    BY <1>1, <1>2
  <1>4. \A l, m \in Node \ {n} : \A i \in Loaded(l), j \in Loaded(m) : g[i] < g[j] <=> i < j
    BY DEF Loaded
  <1>5. QED
    BY <1>1, <1>3, <1>4 DEF Shifts

\* The first d placeholders are dropped: killed ones and, if live, one of n.
Dropped(n, d) == \A j \in 1..d : ~Other(n, j)

\* Apart from that, events of other nodes are not touched and none is revived.
EventsStay(n, d) ==
    \A j \in (d + 1)..Len(queue) :
        \/ pool'[queue[j].ev] = pool[queue[j].ev]
        \/ ~Other(n, j) /\ (pool'[queue[j].ev].killed \/ pool'[queue[j].ev].node = n)

LEMMA DropShifts ==
    ASSUME Inv, NEW n, NEW d \in 0..Len(queue), Dropped(n, d), EventsStay(n, d),
           queue' = DropFirst(queue, d)
    PROVE  Shifts(n, [j \in Int |-> j - d])
  <1> DEFINE g == [j \in Int |-> j - d]
             N == Len(queue)
  <1>1. /\ N \in Nat /\ DOMAIN queue = 1..N /\ d \in Nat /\ d <= N
    BY QueueFacts DEF Inv, QInv, QTypeOK
  <1>2. /\ DOMAIN queue' = 1..(N - d)
        /\ \A j \in 1..(N - d) : queue'[j] = queue[j + d]
    BY DropFirstFacts DEF Inv, QInv, QTypeOK
  <1> HIDE DEF N
  <1>3. ASSUME NEW j \in DOMAIN queue, Other(n, j)
        PROVE  /\ g[j] \in Int /\ g[j] \in DOMAIN queue'
               /\ queue'[g[j]].time = queue[j].time
               /\ ~pool'[queue'[g[j]].ev].killed
               /\ pool'[queue'[g[j]].ev].node = pool[queue[j].ev].node
               /\ pool'[queue'[g[j]].ev].val = pool[queue[j].ev].val
    <2>1. j \in (d + 1)..N
      BY <1>1, <1>3 DEF Dropped
    <2>2. g[j] = j - d /\ g[j] \in 1..(N - d) /\ g[j] + d = j
      BY <1>1, <2>1
    <2>3. queue'[g[j]] = queue[j]
      BY <1>2, <2>2
    <2>4. pool'[queue[j].ev] = pool[queue[j].ev]
      BY <2>1, <1>3 DEF EventsStay, N
    <2> HIDE DEF g
    <2>5. g[j] \in Int
      BY <2>2
    <2>6. QED
      BY <2>2, <2>3, <2>4, <2>5, <1>2, <1>3 DEF Other
  <1>4. ASSUME NEW i \in DOMAIN queue', Other(n, i)'
        PROVE  \E j \in DOMAIN queue : Other(n, j) /\ g[j] = i
    <2>1. /\ i \in 1..(N - d) /\ i + d \in 1..N /\ i + d \in (d + 1)..N /\ g[i + d] = i
          /\ queue'[i] = queue[i + d]
      <3>1. i \in 1..(N - d) /\ queue'[i] = queue[i + d]
        BY <1>2
      <3>2. i + d \in 1..N /\ i + d \in (d + 1)..N /\ i + d \in Int /\ i + d - d = i
        BY <1>1, <3>1
      <3>3. QED
        BY <3>1, <3>2
    <2>2. Other(n, i + d)
      BY <2>1, <1>4 DEF EventsStay, Other, N
    <2>3. QED
      BY <2>1, <2>2, <1>1
  <1>5. \A i, j \in DOMAIN queue : g[i] < g[j] <=> i < j
    BY <1>1
  <1> HIDE DEF g
  <1>6. Shifts(n, g)
    BY <1>3, <1>4, <1>5, ShiftsByPosition
  <1>7. QED
    BY <1>6 DEF g

\* A placeholder of n is inserted at k.
LEMMA InsertShifts ==
    ASSUME Inv, NEW n, NEW d \in 0..Len(queue), Dropped(n, d), EventsStay(n, d),
           NEW k \in 1..(Len(queue) - d + 1), NEW p \in Placeholder,
           pool'[p.ev].node = n,
           queue' = InsertAt(DropFirst(queue, d), k, p)
    PROVE  Shifts(n, [j \in Int |-> IF j - d < k THEN j - d ELSE j - d + 1])
  <1> DEFINE g == [j \in Int |-> IF j - d < k THEN j - d ELSE j - d + 1]
             N == Len(queue)
  <1>1. /\ N \in Nat /\ DOMAIN queue = 1..N /\ d \in Nat /\ d <= N
    BY QueueFacts DEF Inv, QInv, QTypeOK
  <1>2. /\ DropFirst(queue, d) \in Seq(Placeholder)
        /\ Len(DropFirst(queue, d)) = N - d
        /\ \A j \in 1..(N - d) : DropFirst(queue, d)[j] = queue[j + d]
    BY DropFirstFacts DEF Inv, QInv, QTypeOK
  <1> HIDE DEF N
  <1>3. /\ DOMAIN queue' = 1..(N - d + 1)
        /\ \A j \in 1..(N - d + 1) :
              queue'[j] = IF j < k THEN DropFirst(queue, d)[j] ELSE IF j = k THEN p
                          ELSE DropFirst(queue, d)[j - 1]
    <2>1. k \in 1..(Len(DropFirst(queue, d)) + 1)
      BY <1>2 DEF N
    <2>2. QED
      BY <1>1, <1>2, <2>1, InsertAtFacts
  <1>4. ASSUME NEW j \in (d + 1)..N
        PROVE  g[j] \in 1..(N - d + 1) /\ g[j] # k /\ queue'[g[j]] = queue[j]
    <2>1. j - d \in 1..(N - d) /\ j \in Int /\ k \in Int
      BY <1>1
    <2>2. CASE j - d < k
      <3>1. g[j] = j - d /\ g[j] \in 1..(N - d + 1) /\ j - d + d = j
        BY <1>1, <2>1, <2>2
      <3>2. QED
        BY <3>1, <2>1, <2>2, <1>2, <1>3
    <2>3. CASE j - d >= k
      <3>1. g[j] = j - d + 1 /\ g[j] \in 1..(N - d + 1) /\ g[j] > k /\ g[j] - 1 = j - d
            /\ j - d + d = j
        BY <1>1, <2>1, <2>3
      <3>2. QED
        BY <3>1, <2>1, <2>3, <1>2, <1>3
    <2>4. QED
      BY <2>1, <2>2, <2>3
  <1>5. ASSUME NEW j \in DOMAIN queue, Other(n, j)
        PROVE  /\ g[j] \in Int /\ g[j] \in DOMAIN queue'
               /\ queue'[g[j]].time = queue[j].time
               /\ ~pool'[queue'[g[j]].ev].killed
               /\ pool'[queue'[g[j]].ev].node = pool[queue[j].ev].node
               /\ pool'[queue'[g[j]].ev].val = pool[queue[j].ev].val
    <2>1. j \in (d + 1)..N
      BY <1>1, <1>5 DEF Dropped
    <2>2. g[j] \in 1..(N - d + 1) /\ queue'[g[j]] = queue[j]
      BY <1>4, <2>1
    <2>4. pool'[queue[j].ev] = pool[queue[j].ev]
      BY <2>1, <1>5 DEF EventsStay, N
    <2> HIDE DEF g
    <2>5. g[j] \in Int
      BY <2>2
    <2>6. QED
      BY <2>2, <2>4, <2>5, <1>3, <1>5 DEF Other
  <1>6. ASSUME NEW i \in DOMAIN queue', Other(n, i)'
        PROVE  \E j \in DOMAIN queue : Other(n, j) /\ g[j] = i
    <2>1. i # k
      BY <1>3, <1>6 DEF Other
    <2>2. PICK j \in (d + 1)..N : g[j] = i
      <3>0. i \in 1..(N - d + 1) /\ k \in Int /\ k >= 1 /\ k <= N - d + 1
        BY <1>1, <1>3 DEF N
      <3>1. CASE i < k
        <4> DEFINE j == i + d
        <4>1. j \in Int /\ j - d = i
          BY <1>1, <3>0
        <4>2. j >= d + 1 /\ j <= N
          BY <1>1, <3>0, <3>1
        <4> HIDE DEF j
        <4>3. g[j] = i
          BY <4>1, <3>1
        <4>4. j \in (d + 1)..N
          BY <4>1, <4>2, <1>1
        <4>5. QED
          BY <4>3, <4>4
      <3>2. CASE i > k
        <4> DEFINE j == i + d - 1
        <4>1. j \in Int /\ j - d = i - 1
          BY <1>1, <3>0
        <4>2. j >= d + 1 /\ j <= N
          BY <1>1, <3>0, <3>2
        <4> HIDE DEF j
        <4>3. g[j] = i
          BY <4>1, <3>0, <3>2
        <4>4. j \in (d + 1)..N
          BY <4>1, <4>2, <1>1
        <4>5. QED
          BY <4>3, <4>4
      <3>3. QED
        BY <3>1, <3>2, <2>1, <1>1, <1>3
    <2>3. queue'[i] = queue[j] /\ j \in DOMAIN queue
      BY <2>2, <1>1, <1>4
    <2>4. Other(n, j)
      BY <2>2, <2>3, <1>6 DEF EventsStay, Other, N
    <2>5. QED
      BY <2>2, <2>3, <2>4
  <1>7. \A i, j \in DOMAIN queue : g[i] < g[j] <=> i < j
    BY <1>1
  <1> HIDE DEF g
  <1>8. Shifts(n, g)
    BY <1>5, <1>6, <1>7, ShiftsByPosition
  <1>9. QED
    BY <1>8 DEF g

\* Nothing is moved.
LEMMA StayShifts ==
    ASSUME Inv, NEW n, EventsStay(n, 0), queue' = queue
    PROVE  Shifts(n, [j \in Int |-> j])
  <1>1. /\ Len(queue) \in Nat /\ DOMAIN queue = 1..Len(queue)
        /\ \A j \in 1..Len(queue) :
                \/ pool'[queue[j].ev] = pool[queue[j].ev]
                \/ ~Other(n, j) /\ (pool'[queue[j].ev].killed \/ pool'[queue[j].ev].node = n)
    BY QueueFacts DEF Inv, QInv, QTypeOK, EventsStay
  <1> DEFINE g == [j \in Int |-> j]
  <1>2. \A j \in 1..Len(queue) : g[j] = j /\ g[j] \in Int
    BY <1>1
  <1> HIDE DEF g
  <1>3. \A j \in DOMAIN queue : Other(n, j) =>
                /\ g[j] \in Int /\ g[j] \in DOMAIN queue'
                /\ queue'[g[j]].time = queue[j].time
                /\ ~pool'[queue'[g[j]].ev].killed
                /\ pool'[queue'[g[j]].ev].node = pool[queue[j].ev].node
                /\ pool'[queue'[g[j]].ev].val = pool[queue[j].ev].val
    BY <1>1, <1>2 DEF Other
  <1>4. \A i \in DOMAIN queue' : Other(n, i)' =>
                \E j \in DOMAIN queue : Other(n, j) /\ g[j] = i
    BY <1>1, <1>2 DEF Other
  <1>5. \A i, j \in DOMAIN queue : g[i] < g[j] <=> i < j
    BY <1>1, <1>2
  <1>6. QED
    BY <1>3, <1>4, <1>5, ShiftsByPosition DEF g

-----------------------------------------------------------------------------
(* What the operations on the queue are on the agenda.                       *)

\* The plan of a node that has one.
LEMMA PlannedFacts ==
    ASSUME Inv, NEW n \in Node, pending[n] # 0
    PROVE  /\ n \in DOMAIN PlanOf
           /\ \E k \in 1..Len(queue) :
                /\ Loaded(n) = {k} /\ queue[k].ev = pending[n]
                /\ PlanOf[n] = [val |-> pool[pending[n]].val, time |-> queue[k].time]
  <1>1. PICK k \in Loaded(n) : TRUE
    BY LoadedFacts
  <1>2. /\ k \in 1..Len(queue) /\ Loaded(n) = {k} /\ queue[k].ev = pending[n]
        /\ n \in DOMAIN PlanOf /\ PlanOf[n] = PlanAt(k)
    BY <1>1, LoadedFacts, PlanFacts
  <1>3. QED
    BY <1>2 DEF PlanAt

\* An event of another node than n is not the pending event of n.
LEMMA OthersPending ==
    ASSUME Inv, NEW n \in Node, NEW j \in 1..Len(queue)
    PROVE  /\ queue[j].ev \in EventId
           /\ queue[j].ev = pending[n] => ~Other(n, j) /\ pool[queue[j].ev].node = n
  <1>1. queue[j].ev \in EventId /\ 0 \notin EventId
    BY QueueFacts DEF Inv, QInv, QTypeOK, EventId
  <1>2. QED
    BY <1>1 DEF Inv, QInv, BackToEvent, Other

\* A new event i for n, with the old one killed.
FreshStays(n, i, e) == pool'[i] = e /\ EventsStay(n, 0)

LEMMA FreshEvent ==
    ASSUME Inv, NEW n \in Node, NEW i \in EventId, Fresh(i), NEW e,
           pool' = [PoolAfterKill(n) EXCEPT ![i] = e]
    PROVE  FreshStays(n, i, e)
  <1>1. /\ PoolAfterKill(n) \in [EventId -> Event]
        /\ \A j \in EventId :
                /\ j # pending[n] => PoolAfterKill(n)[j] = pool[j]
                /\ j = pending[n] => PoolAfterKill(n)[j].killed
    BY PoolAfterKillFacts DEF Inv, QInv
  <1>2. pool'[i] = e /\ \A j \in EventId : j # i => pool'[j] = PoolAfterKill(n)[j]
    BY <1>1
  <1>3. i \notin Evs(queue)
    BY DEF Inv, QInv, UsedIsQueued, Fresh
  <1>4. ASSUME NEW j \in 1..Len(queue)
        PROVE  \/ pool'[queue[j].ev] = pool[queue[j].ev]
               \/ ~Other(n, j) /\ pool'[queue[j].ev].killed
    <2>1. queue[j].ev \in EventId /\ queue[j].ev # i
      BY <1>3, QueueFacts DEF Inv, QInv, QTypeOK, Evs
    <2>2. QED
      BY <2>1, <1>1, <1>2, OthersPending
  <1>5. QED
    BY <1>2, <1>4 DEF FreshStays, EventsStay

LEMMA DropNone ==
    ASSUME Inv
    PROVE  /\ DropFirst(queue, 0) = queue
           /\ Len(queue) \in Nat /\ 0 \in 0..Len(queue)
           /\ \A k \in 1..(Len(queue) + 1) : k \in 1..(Len(queue) - 0 + 1)
           /\ \A n : Dropped(n, 0)
  <1>1. Len(queue) \in Nat /\ queue = [j \in 1..Len(queue) |-> queue[j]]
    <2>1. queue \in Seq(Placeholder)
      BY DEF Inv, QInv, QTypeOK
    <2>2. Len(queue) \in Nat /\ queue \in [1..Len(queue) -> Placeholder]
      BY <2>1, LenProperties
    <2>3. QED
      BY <2>2
  <1>2. DropFirst(queue, 0) = [j \in 1..Len(queue) |-> queue[j]]
    <2>1. Len(queue) - 0 = Len(queue) /\ \A j \in 1..Len(queue) : j + 0 = j
      BY <1>1
    <2>2. QED
      BY <2>1 DEF DropFirst
  <1>3. QED
    BY <1>1, <1>2 DEF Dropped

\* Placing an event of n in the queue, whatever becomes of the one it had.
LEMMA InsertAgenda ==
    ASSUME Inv, Inv', NEW n \in Node, NEW e \in Event, e.node = n, ~e.killed,
           NEW d \in 0..Len(queue), Dropped(n, d), EventsStay(n, d),
           NEW i \in EventId, NEW t \in Time, pool'[i] = e,
           NEW k \in 1..(Len(queue) - d + 1),
           queue' = InsertAt(DropFirst(queue, d), k, [time |-> t, ev |-> i])
    PROVE  /\ k \in Loaded(n)' /\ k \in Int
           /\ PlanAt(k)' = [val |-> e.val, time |-> t]
  <1>1. /\ Len(queue) \in Nat /\ d \in Int /\ d <= Len(queue)
    BY QueueFacts DEF Inv, QInv, QTypeOK
  <1>2. /\ DropFirst(queue, d) \in Seq(Placeholder)
        /\ Len(DropFirst(queue, d)) = Len(queue) - d
    BY DropFirstFacts DEF Inv, QInv, QTypeOK
  <1>3. [time |-> t, ev |-> i] \in Placeholder
    BY DEF Placeholder
  <1>4. k \in 1..(Len(DropFirst(queue, d)) + 1) /\ k \in Int
    BY <1>1, <1>2
  <1>5. DOMAIN queue' = 1..(Len(DropFirst(queue, d)) + 1)
        /\ queue'[k] = [time |-> t, ev |-> i]
    BY <1>2, <1>3, <1>4, InsertAtFacts
  <1>6. k \in Loaded(n)' /\ PlanAt(k)' = [val |-> e.val, time |-> t]
    BY <1>4, <1>5 DEF Loaded, PlanAt
  <1>7. QED
    BY <1>4, <1>6

\* Scheduling an event plans a change.
LEMMA ScheduleAgenda ==
    ASSUME Inv, Inv', NEW n \in Node, NEW e \in Event, e.node = n, ~e.killed,
           NEW t \in Nat, t >= now, Schedule(n, e, t), UNCHANGED <<now, value>>
    PROVE  t \in Time /\ Agenda!PlanChange(n, e.val, t)
  <1>1. t \in Time
    BY QueueAssumption DEF Schedule, Time
  <1>2. PICK i \in EventId :
            /\ Fresh(i)
            /\ pool' = [PoolAfterKill(n) EXCEPT ![i] = e]
            /\ Enqueue(queue, i, t)
    BY DEF Schedule
  <1>3. PICK k \in 1..(Len(queue) + 1) :
            /\ IsUpperBound(queue, k, t)
            /\ queue' = InsertAt(queue, k, [time |-> t, ev |-> i])
    BY <1>2 DEF Enqueue
  <1>4. FreshStays(n, i, e)
    BY <1>2, FreshEvent
  <1>5. /\ queue' = InsertAt(DropFirst(queue, 0), k, [time |-> t, ev |-> i])
        /\ k \in 1..(Len(queue) - 0 + 1) /\ 0 \in 0..Len(queue) /\ Dropped(n, 0)
        /\ Len(queue) \in Nat
    BY <1>3, DropNone
  <1> DEFINE g == [j \in Int |-> IF j - 0 < k THEN j - 0 ELSE j - 0 + 1]
             p == [val |-> e.val, time |-> t]
  <1>6. Shifts(n, g)
    <2>1. [time |-> t, ev |-> i] \in Placeholder
      BY <1>1 DEF Placeholder
    <2>2. QED
      BY <2>1, <1>4, <1>5, InsertShifts DEF FreshStays
  <1>7. k \in Loaded(n)' /\ k \in Int /\ PlanAt(k)' = p
    BY <1>1, <1>4, <1>5, InsertAgenda DEF FreshStays
  <1>8. ASSUME NEW m \in Node \ {n}, NEW j \in Loaded(m)
        PROVE  /\ queue[j].time <= t => g[j] < k
               /\ queue[j].time > t => g[j] > k
    <2>1. j \in 1..Len(queue) /\ j \in Int /\ k \in Int /\ j \in DOMAIN queue
      BY <1>5, <1>7, LoadedFacts DEF Loaded
    <2>2. queue[j].time \in Int
      BY <2>1, QueueFacts DEF Inv, QInv, QTypeOK, Time
    <2>3. /\ j < k => queue[j].time <= t
          /\ j >= k => queue[j].time > t
      BY <1>3, <2>1 DEF IsUpperBound
    <2>4. QED
      BY <2>1, <2>2, <2>3
  <1> HIDE DEF g
  <1>9. Agenda!Place(n, p)
    BY <1>6, <1>7, <1>8, AgendaPlace
  <1>10. QED
    BY <1>1, <1>9 DEF Agenda!PlanChange

\* Killing the pending event of n cancels its plan.
LEMMA KillAgenda ==
    ASSUME Inv, Inv', NEW n \in Node, pending[n] # 0, KillEvent(n), UNCHANGED <<now, value>>
    PROVE  Agenda!Cancel(n)
  <1>1. /\ \A j \in EventId :
                /\ j # pending[n] => pool'[j] = pool[j]
                /\ j = pending[n] => pool'[j].killed
        /\ queue' = queue /\ pending'[n] = 0
    BY PoolAfterKillFacts DEF Inv, QInv, QTypeOK, KillEvent
  <1>2. EventsStay(n, 0)
    BY <1>1, OthersPending DEF EventsStay
  <1>3. Agenda!Remove(n)
    BY <1>1, <1>2, StayShifts, AgendaRemove
  <1>4. QED
    BY <1>3, PlannedFacts DEF Agenda!Cancel

\* Nothing but values may change: positions and nodes of the live events stay.
LEMMA SameOrder ==
    ASSUME \A m \in Node : Loaded(m)' = Loaded(m)
    PROVE  BeforeOf' = BeforeOf /\ DOMAIN PlanOf' = DOMAIN PlanOf
  BY DEF BeforeOf, PlanOf

\* Rewriting the pending event of n revises its plan.
LEMMA RewriteAgenda ==
    ASSUME Inv, Inv', NEW n \in Node, pending[n] # 0, NEW e \in Event, e.node = n, ~e.killed,
           Rewrite(n, e), UNCHANGED <<now, value>>
    PROVE  Agenda!Revise(n, e.val)
  <1>1. /\ pending[n] \in EventId /\ queue' = queue /\ pending' = pending
        /\ pool'[pending[n]] = e
        /\ \A j \in EventId : j # pending[n] => pool'[j] = pool[j]
        /\ DOMAIN queue = 1..Len(queue)
    BY QueueFacts DEF Inv, QInv, QTypeOK, Rewrite
  <1>2. pool[pending[n]].node = n /\ ~pool[pending[n]].killed
    BY PendingFacts
  <1>3. ASSUME NEW m \in Node PROVE Loaded(m)' = Loaded(m)
    <2>1. ASSUME NEW j \in 1..Len(queue)
          PROVE  /\ pool'[queue[j].ev].killed <=> pool[queue[j].ev].killed
                 /\ pool'[queue[j].ev].node = pool[queue[j].ev].node
      BY <1>1, <1>2, OthersPending
    <2>2. QED
      BY <2>1, <1>1 DEF Loaded
  <1>4. BeforeOf' = BeforeOf /\ DOMAIN PlanOf' = DOMAIN PlanOf
    BY <1>3, SameOrder
  <1>5. PICK k \in 1..Len(queue) :
                /\ Loaded(n) = {k} /\ queue[k].ev = pending[n]
                /\ PlanOf[n] = [val |-> pool[pending[n]].val, time |-> queue[k].time]
    BY PlannedFacts
  <1>6. (\A m \in Node : \A p \in Loaded(m) : PlanOf[m] = PlanAt(p))'
    BY PlanFacts, PTL
  <1>7. PlanOf'[n] = [val |-> e.val, time |-> queue[k].time]
    <2>1. PlanOf'[n] = PlanAt(k)'
      BY <1>3, <1>5, <1>6
    <2>2. QED
      BY <2>1, <1>1, <1>5 DEF PlanAt
  <1>8. ASSUME NEW m \in DOMAIN PlanOf, m # n PROVE PlanOf'[m] = PlanOf[m]
    <2>1. m \in Node /\ Loaded(m) # {} /\ DOMAIN PlanOf = {l \in Node : Loaded(l) # {}}
      BY PlanFacts
    <2>2. PICK j \in Loaded(m) : TRUE
      BY <2>1
    <2>3. PlanOf'[m] = PlanAt(j)' /\ PlanOf[m] = PlanAt(j)
      BY <1>3, <1>6, <2>1, <2>2, PlanFacts
    <2>4. j \in 1..Len(queue) /\ queue[j].ev \in EventId /\ queue[j].ev # pending[n]
      <3>1. j \in 1..Len(queue) /\ pool[queue[j].ev].node = m
        BY <2>1, <1>1 DEF Loaded
      <3>2. QED
        BY <3>1, <1>8, OthersPending
    <2>5. QED
      BY <2>3, <2>4, <1>1 DEF PlanAt
  <1>9. PlanOf' = [PlanOf EXCEPT ![n].val = e.val]
    <2>1. /\ PlanOf' = [m \in DOMAIN PlanOf' |-> PlanOf'[m]]
          /\ PlanOf = [m \in DOMAIN PlanOf |-> PlanOf[m]]
      BY DEF PlanOf
    <2>2. [PlanOf[n] EXCEPT !.val = e.val] = [val |-> e.val, time |-> queue[k].time]
      BY <1>5
    <2>3. QED
      BY <2>1, <2>2, <1>4, <1>7, <1>8
  <1>10. n \in DOMAIN PlanOf
    BY PlannedFacts
  <1>11. QED
    BY <1>4, <1>9, <1>10 DEF Agenda!Revise

\* The first live placeholder is that of the first plan.
LEMMA FirstAgenda ==
    ASSUME Inv, NEW k \in DOMAIN queue, FirstLive(k), NEW n, n = pool[queue[k].ev].node
    PROVE  /\ n \in Node /\ pending[n] = queue[k].ev /\ Agenda!First(n)
           /\ PlanOf[n] = [val |-> pool[queue[k].ev].val, time |-> queue[k].time]
           /\ k \in 0..Len(queue) /\ Dropped(n, k)
           /\ \A m \in Node \ {n} : \A j \in Loaded(m) : j > k /\ j \in 1..Len(queue)
  <1>1. /\ Len(queue) \in Nat /\ k \in 1..Len(queue) /\ n \in Node
        /\ pending[n] = queue[k].ev /\ queue[k].ev \in EventId /\ 0 \notin EventId
    BY FirstLiveFacts DEF Inv, EventId
  <1>2. k \in Loaded(n) /\ k \in Int /\ k \in 0..Len(queue)
    BY <1>1 DEF Loaded, FirstLive
  <1>3. PlanOf[n] = PlanAt(k) /\ n \in DOMAIN PlanOf
    BY <1>1, <1>2, PlanFacts
  <1>4. Dropped(n, k)
    <2>1. \A j \in 1..(k - 1) : pool[queue[j].ev].killed
      BY DEF FirstLive
    <2>2. \A j \in 1..k : j = k \/ j \in 1..(k - 1)
      BY <1>2
    <2>3. QED
      BY <2>1, <2>2 DEF Dropped, Other
  <1>5. ASSUME NEW m \in Node \ {n}, NEW j \in Loaded(m) PROVE j > k /\ j \in 1..Len(queue)
    <2>1. j \in 1..Len(queue) /\ ~pool[queue[j].ev].killed /\ pool[queue[j].ev].node = m
      BY LoadedFacts DEF Loaded
    <2>2. j \notin 1..k
      BY <2>1, <1>4 DEF Dropped, Other
    <2>3. QED
      BY <2>1, <2>2, <1>1
  <1>6. ASSUME NEW m \in DOMAIN PlanOf \ {n} PROVE <<n, m>> \in BeforeOf
    <2>1. m \in Node \ {n} /\ Loaded(m) # {}
      BY PlanFacts
    <2>2. PICK j \in Loaded(m) : TRUE
      BY <2>1
    <2>3. k < j
      BY <2>1, <2>2, <1>2, <1>5, <1>1
    <2>4. QED
      BY <2>1, <2>2, <2>3, <1>1, <1>2, BeforeFacts
  <1>7. QED
    BY <1>1, <1>2, <1>3, <1>4, <1>5, <1>6 DEF Agenda!First, Agenda!Others, PlanAt

\* Freeing the events up to k leaves the others alone.
LEMMA FreeStays ==
    ASSUME Inv, NEW k \in 0..Len(queue), NEW n,
           \A i \in EventId : i \notin QueuedUpTo(k) /\ InUse(i) => pool'[i] = pool[i]
    PROVE  EventsStay(n, k)
  <1>1. /\ Len(queue) \in Nat /\ DOMAIN queue = 1..Len(queue)
        /\ \A j \in 1..Len(queue) : queue[j].ev \in EventId
    BY QueueFacts DEF Inv, QInv, QTypeOK
  <1>2. ASSUME NEW j \in (k + 1)..Len(queue) PROVE pool'[queue[j].ev] = pool[queue[j].ev]
    <2>1. j \in 1..Len(queue) /\ j \notin 1..k /\ 1..k \subseteq 1..Len(queue)
      BY <1>1
    <2>2. queue[j].ev \notin QueuedUpTo(k)
      BY <2>1, <1>1 DEF Inv, QInv, Unique, QueuedUpTo
    <2>3. InUse(queue[j].ev)
      BY <2>1, <1>1 DEF Inv, QInv, UsedIsQueued, Evs
    <2>4. QED
      BY <2>1, <2>2, <2>3, <1>1
  <1>3. QED
    BY <1>2 DEF EventsStay

\* Executing the first live event is the first plan happening.
LEMMA SettleAgenda ==
    ASSUME Inv, Inv', NEW k \in DOMAIN queue, Executing(k), Settle(k),
           value' = [value EXCEPT ![pool[queue[k].ev].node] = pool[queue[k].ev].val]
    PROVE  \E n \in Node : Agenda!Fire(n)
  <1> DEFINE n == pool[queue[k].ev].node
  <1>1. FirstLive(k) /\ now' = queue[k].time
    BY DEF Executing
  <1>2. /\ n \in Node /\ pending[n] = queue[k].ev /\ Agenda!First(n)
        /\ PlanOf[n] = [val |-> pool[queue[k].ev].val, time |-> queue[k].time]
        /\ k \in 0..Len(queue) /\ Dropped(n, k)
    BY <1>1, FirstAgenda
  <1>3. EventsStay(n, k)
    <2>1. \A i \in EventId : i \notin QueuedUpTo(k) /\ InUse(i) => pool'[i] = pool[i]
      BY DEF Settle, PoolWithout
    <2>2. QED
      BY <1>2, <2>1, FreeStays
  <1>4. queue' = DropFirst(queue, k) /\ pending'[n] = 0
    BY <1>2 DEF Settle, Inv, QInv, QTypeOK
  <1>5. Shifts(n, [j \in Int |-> j - k])
    BY <1>2, <1>3, <1>4, DropShifts
  <1>6. Agenda!Remove(n)
    BY <1>2, <1>4, <1>5, AgendaRemove
  <1>7. Agenda!Fire(n)
    BY <1>1, <1>2, <1>6 DEF Agenda!Fire
  <1>8. QED
    BY <1>2, <1>7

\* Putting it back, or a copy of it, postpones its plan.
LEMMA PutBackAgenda ==
    ASSUME Inv, Inv', NEW k \in DOMAIN queue, FirstLive(k), now' = queue[k].time,
           NEW t \in Time, t >= queue[k].time, NEW i \in EventId,
           pool'[i] = pool[queue[k].ev],
           \A j \in EventId : j \notin QueuedUpTo(k) /\ InUse(j) => pool'[j] = pool[j],
           Enqueue(DropFirst(queue, k), i, t), UNCHANGED value
    PROVE  \E n \in Node : Agenda!Postpone(n, t)
  <1>0. PICK e \in Event, n \in Node :
            e = pool[queue[k].ev] /\ n = e.node /\ ~e.killed
    BY FirstLiveFacts DEF Inv, FirstLive
  <1> DEFINE q == DropFirst(queue, k)
             p == [val |-> e.val, time |-> t]
  <1>1. /\ n \in Node /\ pending[n] = queue[k].ev /\ Agenda!First(n)
        /\ PlanOf[n] = [val |-> e.val, time |-> queue[k].time]
        /\ k \in 0..Len(queue) /\ Dropped(n, k)
        /\ \A m \in Node \ {n} : \A j \in Loaded(m) : j > k /\ j \in 1..Len(queue)
    BY <1>0, FirstAgenda
  <1>2. EventsStay(n, k)
    BY <1>1, FreeStays
  <1>3. e.node = n /\ ~e.killed /\ pool'[i] = e /\ pool'[i].node = n /\ Len(queue) \in Nat
    BY <1>0, FirstLiveFacts DEF Inv
  <1>4. /\ Len(q) = Len(queue) - k /\ DOMAIN q = 1..(Len(queue) - k)
        /\ \A j \in 1..(Len(queue) - k) : q[j] = queue[j + k]
    BY <1>1, DropFirstFacts DEF Inv, QInv, QTypeOK
  <1>5. PICK l \in 1..(Len(q) + 1) :
            /\ IsUpperBound(q, l, t)
            /\ queue' = InsertAt(q, l, [time |-> t, ev |-> i])
    BY DEF Enqueue
  <1>6. l \in 1..(Len(queue) - k + 1)
    BY <1>4, <1>5
  <1> DEFINE g == [j \in Int |-> IF j - k < l THEN j - k ELSE j - k + 1]
  <1>7. Shifts(n, g)
    <2>1. [time |-> t, ev |-> i] \in Placeholder
      BY DEF Placeholder
    <2>2. QED
      BY <2>1, <1>1, <1>2, <1>3, <1>5, <1>6, InsertShifts
  <1>8. l \in Loaded(n)' /\ l \in Int /\ PlanAt(l)' = p
    BY <1>1, <1>2, <1>3, <1>5, <1>6, InsertAgenda
  <1>9. ASSUME NEW m \in Node \ {n}, NEW j \in Loaded(m)
        PROVE  /\ queue[j].time <= t => g[j] < l
               /\ queue[j].time > t => g[j] > l
    <2>1. j > k /\ j \in 1..Len(queue) /\ k \in Int
      BY <1>1
    <2>2. j - k \in 1..(Len(queue) - k) /\ j - k + k = j /\ j \in Int /\ j - k \in Int
      BY <2>1, <1>3
    <2>3. queue[j].time \in Int /\ t \in Int
      BY <2>1, QueueFacts DEF Inv, QInv, QTypeOK, Time
    <2>4. /\ j - k < l => queue[j].time <= t
          /\ j - k >= l => queue[j].time > t
      BY <2>2, <1>4, <1>5 DEF IsUpperBound
    <2>5. QED
      BY <2>2, <2>3, <2>4, <1>8
  <1> HIDE DEF g
  <1>10. Agenda!Place(n, p)
    <2>1. p.time = t /\ t \in Int
      BY DEF Time
    <2> HIDE DEF p
    <2>2. QED
      BY <2>1, <1>1, <1>7, <1>8, <1>9, AgendaPlace
  <1>11. p = [PlanOf[n] EXCEPT !.time = t] /\ PlanOf[n].time = queue[k].time
    BY <1>1
  <1>12. Agenda!Postpone(n, t)
    BY <1>1, <1>10, <1>11 DEF Agenda!Postpone
  <1>13. QED
    BY <1>1, <1>12

\* Neither plans nor order change.
LEMMA SamePlans ==
    ASSUME Inv, Inv',
           \A m \in Node : /\ Loaded(m)' = Loaded(m)
                           /\ \A k \in Loaded(m) : PlanAt(k)' = PlanAt(k)
    PROVE  UNCHANGED <<PlanOf, BeforeOf>>
  <1>1. BeforeOf' = BeforeOf /\ DOMAIN PlanOf' = DOMAIN PlanOf
    BY SameOrder
  <1>2. (\A m \in Node : \A p \in Loaded(m) : PlanOf[m] = PlanAt(p))'
    BY PlanFacts, PTL
  <1>3. ASSUME NEW m \in DOMAIN PlanOf PROVE PlanOf'[m] = PlanOf[m]
    <2>1. m \in Node /\ Loaded(m) # {}
      BY PlanFacts
    <2>2. PICK k \in Loaded(m) : TRUE
      BY <2>1
    <2>3. PlanOf[m] = PlanAt(k)
      BY <2>1, <2>2, PlanFacts
    <2>4. PlanOf'[m] = PlanAt(k)'
      BY <1>2, <2>1, <2>2
    <2>5. QED
      BY <2>1, <2>2, <2>3, <2>4
  <1>4. /\ PlanOf' = [m \in DOMAIN PlanOf' |-> PlanOf'[m]]
        /\ PlanOf = [m \in DOMAIN PlanOf |-> PlanOf[m]]
    BY DEF PlanOf
  <1>5. PlanOf' = PlanOf
    BY <1>1, <1>3, <1>4
  <1>6. QED
    BY <1>1, <1>5

LEMMA QuietAgenda ==
    ASSUME Inv, Inv', UNCHANGED <<queue, pool>>
    PROVE  UNCHANGED <<PlanOf, BeforeOf>>
  <1>1. \A m \in Node : /\ Loaded(m)' = Loaded(m)
                        /\ \A k \in Loaded(m) : PlanAt(k)' = PlanAt(k)
    BY DEF Loaded, PlanAt
  <1>2. QED
    BY <1>1, SamePlans

\* Loading a checkpoint gives back the agenda that was saved.
LEMMA RestoreAgenda ==
    ASSUME Inv, Inv', Restore
    PROVE  UNCHANGED <<PlanOf, BeforeOf>>
  <1>1. /\ Len(queue) \in Nat /\ DOMAIN queue = 1..Len(queue)
        /\ \A k \in 1..Len(queue) : queue[k].ev \in EventId /\ pool[queue[k].ev] \in Event
        /\ Len(queue) <= MaxEvents
    BY QueueFacts DEF Inv, QInv, QTypeOK, Restore
  <1>2. /\ DOMAIN queue' = 1..Len(queue)
        /\ \A k \in 1..Len(queue) :
              queue'[k].time = queue[k].time /\ queue'[k].ev = k /\ k \in EventId
    BY <1>1, QueueAssumption DEF Restore, EventId
  <1>3. \A k \in 1..Len(queue) : pool'[k] = [pool[queue[k].ev] EXCEPT !.rule = 0]
    BY <1>1, <1>2 DEF Restore
  <1>4. ASSUME NEW k \in 1..Len(queue)
        PROVE  /\ pool'[queue'[k].ev].node = pool[queue[k].ev].node
               /\ pool'[queue'[k].ev].killed = pool[queue[k].ev].killed
               /\ pool'[queue'[k].ev].val = pool[queue[k].ev].val
    <2>1. PICK e \in Event : e = pool[queue[k].ev]
      BY <1>1
    <2>2. /\ [e EXCEPT !.rule = 0].node = e.node
          /\ [e EXCEPT !.rule = 0].killed = e.killed
          /\ [e EXCEPT !.rule = 0].val = e.val
      BY DEF Event
    <2>3. pool'[queue'[k].ev] = [e EXCEPT !.rule = 0]
      BY <2>1, <1>2, <1>3
    <2>4. QED
      BY <2>1, <2>2, <2>3
  <1>5. \A m \in Node : /\ Loaded(m)' = Loaded(m)
                        /\ \A k \in Loaded(m) : PlanAt(k)' = PlanAt(k)
    BY <1>1, <1>2, <1>4 DEF Loaded, PlanAt
  <1>6. QED
    BY <1>5, SamePlans

\* Without live events there is no plan.
LEMMA NothingPlanned ==
    ASSUME NoneLive
    PROVE  /\ \A m \in Node : Loaded(m) = {}
           /\ PlanOf = [n \in {} |-> LOGIC_OTHER] /\ BeforeOf = {}
  <1>1. \A m \in Node : Loaded(m) = {}
    BY DEF NoneLive, Loaded
  <1>2. {m \in Node : Loaded(m) # {}} = {} /\ BeforeOf = {}
    BY <1>1 DEF BeforeOf
  <1>3. PlanOf = [n \in {} |-> LOGIC_OTHER]
    BY <1>2 DEF PlanOf
  <1>4. QED
    BY <1>1, <1>2, <1>3

LEMMA EmptyAgenda ==
    ASSUME queue = <<>>
    PROVE  NoneLive
  <1>1. Len(queue) = 0 /\ queue \in Seq(Placeholder)
    BY EmptySeq
  <1>2. DOMAIN queue = {}
    BY <1>1, LenProperties
  <1>3. QED
    BY <1>2 DEF NoneLive

-----------------------------------------------------------------------------
(* Moving an event to the front needs more: that not even a killed           *)
(* placeholder is left behind, which the advance command does.               *)

Ahead == \A k \in DOMAIN queue : queue[k].time >= now

AInv == TInv /\ ("advance" \notin Session => Ahead)

\* The agenda is about sessions that do not both advance and reschedule:
\* reschedule_event_now looks for the placeholders of the current time at the
\* front of the queue, where advance may have left killed ones of an earlier
\* time.
Orderly == Timely /\ ~({"advance", "reschedule"} \subseteq Session)

\* The event that is rescheduled to the current time becomes the first.
LEMMA ExpediteAgenda ==
    ASSUME Inv, Inv', Ahead, NEW n \in Node, RescheduleEventNow(n)
    PROVE  Agenda!Expedite(n)
  <1>1. PICK i \in EventId :
            /\ Fresh(i)
            /\ pool' = [PoolAfterKill(n) EXCEPT ![i] = pool[pending[n]]]
            /\ IF Len(queue) > 0 /\ queue[1].time = now
               THEN queue' = InsertAt(queue, 1, [time |-> now, ev |-> i])
               ELSE Enqueue(queue, i, now)
    BY DEF RescheduleEventNow
  <1>2. /\ pending[n] # 0 /\ UNCHANGED <<now, value>>
    BY DEF RescheduleEventNow, stepVars
  <1>3. /\ Len(queue) \in Nat /\ DOMAIN queue = 1..Len(queue) /\ now \in Time /\ now \in Int
        /\ \A j \in 1..Len(queue) : queue[j].time \in Int /\ queue[j].time >= now
    BY QueueFacts DEF Inv, QInv, QTypeOK, StepTypeOK, Time, Ahead
  <1>4. PICK e \in Event : e = pool[pending[n]] /\ e.node = n /\ ~e.killed
    BY <1>2, PendingFacts
  <1>5. FreshStays(n, i, e)
    BY <1>1, <1>4, FreshEvent
  <1>6. PICK k \in 1..(Len(queue) + 1) :
            /\ k = 1 \/ \A j \in 1..Len(queue) : j >= k
            /\ queue' = InsertAt(queue, k, [time |-> now, ev |-> i])
    <2>1. CASE Len(queue) > 0 /\ queue[1].time = now
      <3>1. 1 \in 1..(Len(queue) + 1)
        BY <1>3
      <3>2. QED
        BY <3>1, <2>1, <1>1
    <2>2. CASE ~(Len(queue) > 0 /\ queue[1].time = now)
      <3>1. PICK k \in 1..(Len(queue) + 1) :
                /\ IsUpperBound(queue, k, now)
                /\ queue' = InsertAt(queue, k, [time |-> now, ev |-> i])
        BY <1>1, <2>2 DEF Enqueue
      <3>2. CASE Len(queue) = 0
        BY <3>1, <3>2, <1>3
      <3>3. CASE Len(queue) > 0
        <4>1. 1 \in 1..Len(queue) /\ queue[1].time > now
          BY <3>3, <2>2, <1>3
        <4>2. ~(1 < k)
          BY <4>1, <3>1, <1>3 DEF IsUpperBound
        <4>3. k = 1
          BY <4>2, <3>1, <1>3
        <4>4. QED
          BY <4>3, <3>1
      <3>4. QED
        BY <3>2, <3>3, <1>3
    <2>3. QED
      BY <2>1, <2>2
  <1>7. /\ queue' = InsertAt(DropFirst(queue, 0), k, [time |-> now, ev |-> i])
        /\ k \in 1..(Len(queue) - 0 + 1) /\ 0 \in 0..Len(queue) /\ Dropped(n, 0)
    BY <1>6, DropNone
  <1> DEFINE g == [j \in Int |-> IF j - 0 < k THEN j - 0 ELSE j - 0 + 1]
             L == DOMAIN PlanOf \ {n}
  <1>8. Shifts(n, g)
    <2>1. [time |-> now, ev |-> i] \in Placeholder
      BY <1>3 DEF Placeholder
    <2>2. QED
      BY <2>1, <1>4, <1>5, <1>7, InsertShifts DEF FreshStays
  <1>9. k \in Loaded(n)' /\ k \in Int /\ PlanAt(k)' = [val |-> e.val, time |-> now]
    <2>1. PICK t \in Time : t = now
      BY <1>3
    <2>2. QED
      BY <2>1, <1>4, <1>5, <1>7, InsertAgenda DEF FreshStays
  <1>10. ASSUME NEW m \in Node \ {n}, NEW j \in Loaded(m)
         PROVE  g[j] > k /\ g[j] \in Int
    <2>1. j \in 1..Len(queue) /\ j \in Int /\ k \in Int
      BY <1>3, <1>9, LoadedFacts
    <2>2. j >= k
      BY <2>1, <1>3, <1>6
    <2>3. QED
      BY <2>1, <2>2
  <1> HIDE DEF g
  <1>11. /\ L \in SUBSET (Node \ {n}) /\ {} \in SUBSET (Node \ {n})
         /\ \A m \in {} \cup L : Loaded(m) # {}
         /\ \A m \in Node \ {n} : \A j \in Loaded(m) : /\ m \in {} <=> g[j] < k
                                                       /\ m \in L <=> g[j] > k
    <2>1. DOMAIN PlanOf = {m \in Node : Loaded(m) # {}}
      BY PlanFacts
    <2>2. ASSUME NEW m \in Node \ {n}, NEW j \in Loaded(m)
          PROVE  ~(g[j] < k) /\ g[j] > k /\ m \in L
      BY <2>1, <2>2, <1>9, <1>10
    <2>3. QED
      BY <2>1, <2>2
  <1>12. /\ PlanOf' = [m \in DOMAIN PlanOf \cup {n} |->
                            IF m = n THEN PlanAt(k)' ELSE PlanOf[m]]
         /\ BeforeOf' = Agenda!OrderWithout(n)
                    \cup {<<m, n>> : m \in {}} \cup {<<n, m>> : m \in L}
    <2> HIDE DEF L
    <2>1. QED
      BY <1>8, <1>9, <1>11, AgendaMove
  <1>13. n \in DOMAIN PlanOf /\ \E l \in 1..Len(queue) :
                PlanOf[n] = [val |-> e.val, time |-> queue[l].time]
    BY <1>2, <1>4, PlannedFacts
  <1>14. PlanOf' = [PlanOf EXCEPT ![n].time = now]
    <2>1. [PlanOf[n] EXCEPT !.time = now] = [val |-> e.val, time |-> now]
      BY <1>13
    <2>2. PlanOf = [m \in DOMAIN PlanOf |-> PlanOf[m]]
      BY DEF PlanOf
    <2>3. DOMAIN PlanOf \cup {n} = DOMAIN PlanOf
      BY <1>13
    <2>4. QED
      BY <2>1, <2>2, <2>3, <1>9, <1>12, <1>13
  <1>15. BeforeOf' = Agenda!OrderWithout(n) \cup {<<n, m>> : m \in L}
    BY <1>12
  <1>16. QED
    BY <1>2, <1>13, <1>14, <1>15 DEF Agenda!Expedite, Agenda!Others

LEMMA InsertAhead ==
    ASSUME NEW q \in Seq(Placeholder), NEW i \in EventId, NEW t \in Time, t >= now',
           NEW k \in 1..(Len(q) + 1), queue' = InsertAt(q, k, [time |-> t, ev |-> i]),
           \A j \in 1..Len(q) : q[j].time >= now'
    PROVE  Ahead'
  <1>1. PICK p \in Placeholder : p = [time |-> t, ev |-> i] /\ Len(q) \in Nat /\ p.time = t
    BY LenProperties DEF Placeholder
  <1>2. /\ DOMAIN queue' = 1..(Len(q) + 1)
        /\ \A j \in 1..(Len(q) + 1) :
              queue'[j] = IF j < k THEN q[j] ELSE IF j = k THEN p ELSE q[j - 1]
    <2>1. /\ DOMAIN InsertAt(q, k, p) = 1..(Len(q) + 1)
          /\ \A j \in 1..(Len(q) + 1) :
                InsertAt(q, k, p)[j] = IF j < k THEN q[j] ELSE IF j = k THEN p ELSE q[j - 1]
      BY <1>1, InsertAtFacts
    <2>2. queue' = InsertAt(q, k, p)
      BY <1>1
    <2>3. QED
      BY <2>1, <2>2
  <1>3. ASSUME NEW j \in 1..(Len(q) + 1) PROVE queue'[j].time >= now'
    <2>1. CASE j < k
      BY <1>1, <1>2, <2>1
    <2>2. CASE j = k
      BY <1>1, <1>2, <2>2
    <2>3. CASE j > k
      <3>1. j - 1 \in 1..Len(q) /\ queue'[j] = q[j - 1]
        BY <1>1, <1>2, <2>3
      <3>2. QED
        BY <3>1
    <2>4. QED
      BY <1>1, <2>1, <2>2, <2>3
  <1>4. QED
    BY <1>2, <1>3 DEF Ahead

\* Every placeholder stays ahead of the time while nobody advances.
LEMMA AheadKept == Timely /\ TInv /\ Ahead /\ Next /\ "advance" \notin Session => Ahead'
  <1> USE QueueAssumption, EventsAssumption
  <1> SUFFICES ASSUME Timely, TInv, Ahead, Next, "advance" \notin Session PROVE Ahead'
    OBVIOUS
  <1>0. /\ Modes /\ Inv /\ Time \subseteq Nat /\ now \in Time /\ now \in Int /\ now >= now
        /\ queue \in Seq(Placeholder) /\ Len(queue) \in Nat /\ DOMAIN queue = 1..Len(queue)
        /\ until = -1 /\ held = <<>> /\ now <= MaxTime
        /\ \A j \in 1..Len(queue) : queue[j].time \in Time
    BY QueueFacts DEF TInv, Inv, QInv, QTypeOK, StepTypeOK, Time, Modes
  <1>1. ASSUME UNCHANGED <<now, queue>> PROVE Ahead'
    BY <1>1 DEF Ahead
  <1>2. ASSUME NEW i \in EventId, NEW t \in Time, t >= now, now' = now, Enqueue(queue, i, t)
        PROVE  Ahead'
    <2>1. PICK k \in 1..(Len(queue) + 1) : queue' = InsertAt(queue, k, [time |-> t, ev |-> i])
      BY <1>2 DEF Enqueue
    <2>2. \A j \in 1..Len(queue) : queue[j].time >= now'
      BY <1>0, <1>2 DEF Ahead
    <2>3. QED
      BY <1>0, <1>2, <2>1, <2>2, InsertAhead
  <1>3. ASSUME NEW n \in Node, NEW e, NEW t \in Int, t >= now, now' = now, Schedule(n, e, t)
        PROVE  Ahead'
    <2>1. t \in Time
      BY <1>0, <1>3 DEF Schedule, Time
    <2>2. QED
      BY <2>1, <1>2, <1>3 DEF Schedule
  <1>4. ASSUME queue' = <<>> PROVE Ahead'
    <2>1. Len(queue') = 0 /\ queue' \in Seq(Placeholder)
      BY <1>4, EmptySeq
    <2>2. DOMAIN queue' = {}
      BY <2>1, LenProperties
    <2>3. QED
      BY <2>2 DEF Ahead
  <1>5. ASSUME NEW k \in DOMAIN queue, FirstLive(k), now' = queue[k].time,
               queue' = DropFirst(queue, k)
        PROVE  Ahead'
    BY <1>5, FrontTimely DEF Ahead
  <1>6. ASSUME NEW k \in DOMAIN queue, FirstLive(k), now' = queue[k].time,
               NEW i \in EventId, NEW t \in Time, t >= queue[k].time,
               Enqueue(DropFirst(queue, k), i, t)
        PROVE  Ahead'
    <2>1. PICK l \in 1..(Len(DropFirst(queue, k)) + 1) :
              queue' = InsertAt(DropFirst(queue, k), l, [time |-> t, ev |-> i])
      BY <1>6 DEF Enqueue
    <2>2. /\ DropFirst(queue, k) \in Seq(Placeholder)
          /\ \A j \in 1..Len(DropFirst(queue, k)) : DropFirst(queue, k)[j].time >= now'
      BY <1>6, FrontTimely
    <2> HIDE DEF DropFirst
    <2>3. QED
      BY <1>6, <2>1, <2>2, InsertAhead
  <1>7. ASSUME UserNext PROVE Ahead'
    <2>1. ASSUME NEW n \in Node, NEW v \in Value, NEW t \in Time,
                 SetNode(n, v, t) \/ SetNodeForced(n, v, t)
          PROVE  Ahead'
      <3>0. t \in Int
        BY <1>0
      <3>1. now' = now /\ t >= now
        BY <2>1 DEF SetNode, SetNodeForced, stepVars
      <3>2. \/ Schedule(n, NewEvent(n, v, 0, FALSE, FALSE), t)
            \/ Schedule(n, NewEvent(n, v, 0, FALSE, TRUE), t)
        BY <2>1 DEF SetNode, SetNodeForced
      <3>3. QED
        BY <3>0, <3>1, <3>2, <1>3
    <2>2. ASSUME NEW n \in Node, DescheduleEvent(n) PROVE Ahead'
      BY <2>2, <1>1 DEF DescheduleEvent, KillEvent
    <2>3. ASSUME NEW n \in Node, NEW t \in Int, RescheduleEvent(n, t) PROVE Ahead'
      BY <2>3, <1>3 DEF RescheduleEvent
    <2>4. ASSUME NEW n \in Node, NEW dt \in {-1, 1}, RescheduleEventRelative(n, dt)
          PROVE  Ahead'
      <3>1. PICK k \in DOMAIN queue : RescheduleEvent(n, queue[k].time + dt)
        BY <2>4 DEF RescheduleEventRelative
      <3>2. queue[k].time + dt \in Int
        BY <1>0 DEF Time
      <3>3. QED
        BY <3>1, <3>2, <2>3
    <2>5. ASSUME NEW n \in Node, RescheduleEventNow(n) PROVE Ahead'
      <3>1. PICK i \in EventId :
                IF Len(queue) > 0 /\ queue[1].time = now
                THEN queue' = InsertAt(queue, 1, [time |-> now, ev |-> i])
                ELSE Enqueue(queue, i, now)
        BY <2>5 DEF RescheduleEventNow
      <3>2. now' = now
        BY <2>5 DEF RescheduleEventNow
      <3>3. CASE Enqueue(queue, i, now)
        BY <3>2, <3>3, <1>0, <1>2
      <3>4. CASE queue' = InsertAt(queue, 1, [time |-> now, ev |-> i])
        <4>1. \A j \in 1..Len(queue) : queue[j].time >= now'
          BY <1>0, <3>2 DEF Ahead
        <4>2. 1 \in 1..(Len(queue) + 1) /\ now >= now'
          BY <1>0, <3>2
        <4>3. PICK t \in Time : t = now
          BY <1>0
        <4>4. QED
          BY <4>1, <4>2, <4>3, <3>4, <1>0, InsertAhead
      <3>5. QED
        BY <3>1, <3>3, <3>4
    <2>6. ASSUME NEW n \in Node, NEW v \in Value,
                 FreezeNode(n) \/ SetNow(n, v)
          PROVE  Ahead'
      BY <2>6, <1>1 DEF FreezeNode, SetNow, queueVars
    <2>7. ASSUME NEW n \in Node, NEW v \in Value, NEW w \in Strength, NEW d \in Delays,
                 UnsetNode(n, v, w, d)
          PROVE  Ahead'
      <3>1. CASE UNCHANGED queueVars
        BY <3>1, <1>1 DEF queueVars
      <3>2. ASSUME NEW e, Rewrite(n, e), now' = now PROVE Ahead'
        BY <3>2, <1>1 DEF Rewrite
      <3>3. ASSUME NEW e, Schedule(n, e, now + d), now' = now PROVE Ahead'
        <4>1. now + d \in Int /\ now + d >= now
          BY <1>0
        <4>2. QED
          BY <4>1, <3>3, <1>3
      <3>4. QED
        BY <2>7, <3>1, <3>2, <3>3 DEF UnsetNode
    <2>8. ASSUME NEW t \in {0, now}, Initialize(t) PROVE Ahead'
      BY <2>8, <1>4 DEF Initialize
    <2>9. ASSUME Restore PROVE Ahead'
      <3>1. /\ DOMAIN queue' = 1..Len(queue) /\ now' = now
            /\ \A k \in 1..Len(queue) : queue'[k].time = queue[k].time
        BY <2>9, <1>0 DEF Restore
      <3>2. QED
        BY <3>1, <1>0 DEF Ahead
    <2>10. ASSUME NEW t \in Time, AdvanceBegin(t) PROVE Ahead'
      BY <2>10 DEF AdvanceBegin
    <2>11. LOGIC_LOW \in Value
      BY DEF Value
    <2>12. QED
      BY <1>0, <1>7, <2>1, <2>2, <2>3, <2>4, <2>5, <2>6, <2>7, <2>8, <2>9, <2>10, <2>11
         DEF UserNext
  <1>8. ASSUME SimNext PROVE Ahead'
    <2>1. ASSUME StepNothing PROVE Ahead'
      BY <2>1, <1>4 DEF StepNothing
    <2>2. ASSUME NEW k \in DOMAIN queue, NEW t \in Time, StepMinDelay(k, t) PROVE Ahead'
      <3>1. /\ FirstLive(k) /\ now' = queue[k].time /\ t > queue[k].time
            /\ \E c \in EventId : Enqueue(DropFirst(queue, k), c, t)
        BY <2>2 DEF StepMinDelay
      <3>2. t >= queue[k].time
        <4>1. t \in Nat /\ queue[k].time \in Nat
          BY <1>0
        <4>2. QED
          BY <3>1, <4>1
      <3>3. QED
        BY <3>1, <3>2, <1>6
    <2>3. ASSUME NEW k \in DOMAIN queue,
                 StepXX(k) \/ StepVacuous(k) \/ StepVacuousStop(k) \/ StepCommit(k)
          PROVE  Ahead'
      BY <2>3, <1>5 DEF StepXX, StepVacuous, StepVacuousStop, StepCommit, Executing, Settle
    <2>4. ASSUME NEW k \in DOMAIN queue, StepExclRefused(k) PROVE Ahead'
      <3>1. /\ FirstLive(k) /\ now' = queue[k].time
            /\ Enqueue(DropFirst(queue, k), queue[k].ev, queue[k].time)
        BY <2>4 DEF StepExclRefused, Executing
      <3>2. PICK i \in EventId, t \in Time : i = queue[k].ev /\ t = queue[k].time
        BY <1>0, <3>1, FirstLiveFacts DEF Inv
      <3>3. t >= queue[k].time
        BY <3>2, <1>0
      <3>4. QED
        BY <3>1, <3>2, <3>3, <1>6
    <2>5. ASSUME NEW n \in Node, PropagateKill(n) \/ FlushKill(n) PROVE Ahead'
      BY <2>5, <1>1 DEF PropagateKill, FlushKill, KillEvent
    <2>6. ASSUME NEW n \in Node, NEW w \in Strength, FlushOverwrite(n, w) PROVE Ahead'
      BY <2>6, <1>1 DEF FlushOverwrite, Rewrite
    <2>7. ASSUME NEW n \in Node, NEW v \in Value, NEW r \in Rule \cup {0},
                 NEW w \in Strength, NEW d \in Delays, FlushSchedule(n, v, r, w, d)
          PROVE  Ahead'
      <3>1. now + d \in Int /\ now + d >= now
        BY <1>0
      <3>2. QED
        BY <3>1, <2>7, <1>3 DEF FlushSchedule
    <2>8. ASSUME StepReturn \/ AdvanceStop PROVE Ahead'
      BY <2>8, <1>1 DEF StepReturn, AdvanceStop, queueVars
    <2>9. ~AdvanceEnd
      BY <1>0 DEF AdvanceEnd
    <2>10. QED
      BY <1>8, <2>1, <2>2, <2>3, <2>4, <2>5, <2>6, <2>7, <2>8, <2>9 DEF SimNext
  <1>9. QED
    BY <1>7, <1>8 DEF Next

-----------------------------------------------------------------------------
(* Every step is a step of the agenda, or leaves it as it is.                *)

AgendaStep == Agenda!Next \/ UNCHANGED <<now, PlanOf, BeforeOf, value>>

LEMMA UserAgenda ==
    ASSUME Orderly, AInv, Inv', UserNext
    PROVE  AgendaStep
  <1> USE QueueAssumption, EventsAssumption
  <1>0. /\ Inv /\ now \in Time /\ now \in Int /\ Time \subseteq Nat
        /\ value \in [Node -> Value] /\ now >= now
    BY DEF AInv, TInv, Inv, StepTypeOK, Time
  <1>1. ASSUME NEW n \in Node, NEW e \in Event, e.node = n, ~e.killed, NEW t \in Int,
               t >= now, Schedule(n, e, t), UNCHANGED <<now, value>>
        PROVE  AgendaStep
    <2>1. t \in Nat /\ e.val \in Value
      BY <1>0, <1>1 DEF Event
    <2>2. t \in Time /\ Agenda!PlanChange(n, e.val, t)
      BY <1>0, <1>1, <2>1, ScheduleAgenda
    <2>3. QED
      BY <2>1, <2>2 DEF AgendaStep, Agenda!Next
  <1>2. ASSUME UNCHANGED <<queue, pool, now, value>> PROVE AgendaStep
    BY <1>0, <1>2, QuietAgenda DEF AgendaStep
  <1>3. ASSUME NEW n \in Node, NEW v \in Value, NEW t \in Time,
               SetNode(n, v, t) \/ SetNodeForced(n, v, t)
        PROVE  AgendaStep
    <2>1. PICK f \in BOOLEAN : Schedule(n, NewEvent(n, v, 0, FALSE, f), t)
      BY <1>3 DEF SetNode, SetNodeForced
    <2>2. t >= now /\ UNCHANGED <<now, value>>
      BY <1>3 DEF SetNode, SetNodeForced, stepVars
    <2>3. /\ NewEvent(n, v, 0, FALSE, f) \in Event
          /\ NewEvent(n, v, 0, FALSE, f).node = n /\ ~NewEvent(n, v, 0, FALSE, f).killed
      BY <2>1 DEF NewEvent, Event
    <2>4. t \in Int
      BY <1>0
    <2>5. QED
      BY <2>1, <2>2, <2>3, <2>4, <1>1
  <1>4. ASSUME NEW n \in Node, DescheduleEvent(n) PROVE AgendaStep
    <2>1. Agenda!Cancel(n)
      BY <1>0, <1>4, KillAgenda DEF DescheduleEvent, stepVars
    <2>2. QED
      BY <2>1 DEF AgendaStep, Agenda!Next
  <1>5. ASSUME NEW n \in Node, NEW t \in Int, RescheduleEvent(n, t) PROVE AgendaStep
    <2>1. /\ pending[n] # 0 /\ Schedule(n, pool[pending[n]], t) /\ t >= now
          /\ UNCHANGED <<now, value>>
      BY <1>5 DEF RescheduleEvent, stepVars
    <2>2. /\ pool[pending[n]] \in Event /\ pool[pending[n]].node = n
          /\ ~pool[pending[n]].killed
      BY <2>1, <1>0, PendingFacts
    <2>3. QED
      BY <2>1, <2>2, <1>1
  <1>6. ASSUME NEW n \in Node, NEW dt \in {-1, 1}, RescheduleEventRelative(n, dt)
        PROVE  AgendaStep
    <2>1. PICK k \in DOMAIN queue : RescheduleEvent(n, queue[k].time + dt)
      BY <1>6 DEF RescheduleEventRelative
    <2>2. queue[k].time \in Time
      BY <1>0, QueueFacts DEF Inv, QInv, QTypeOK
    <2>3. queue[k].time + dt \in Int
      BY <2>2 DEF Time
    <2>4. QED
      BY <2>1, <2>3, <1>5
  <1>7. ASSUME NEW n \in Node, RescheduleEventNow(n) PROVE AgendaStep
    <2>1. Ahead
      BY <1>7 DEF RescheduleEventNow, Orderly, AInv
    <2>2. Agenda!Expedite(n)
      BY <2>1, <1>0, <1>7, ExpediteAgenda
    <2>3. QED
      BY <2>2 DEF AgendaStep, Agenda!Next
  <1>8. ASSUME NEW n \in Node, FreezeNode(n) PROVE AgendaStep
    BY <1>2, <1>8 DEF FreezeNode, queueVars
  <1>9. ASSUME NEW n \in Node, NEW v \in Value, NEW w \in Strength,
               NEW d \in Delays, UnsetNode(n, v, w, d)
        PROVE  AgendaStep
    <2>1. UNCHANGED <<now, value>>
      BY <1>9 DEF UnsetNode, queueVars
    <2>2. CASE UNCHANGED queueVars
      BY <2>1, <2>2, <1>2 DEF queueVars
    <2>3. ASSUME pending[n] # 0,
                 Rewrite(n, [pool[pending[n]] EXCEPT
                               !.val = v, !.weak = w, !.forced = FALSE])
          PROVE  AgendaStep
      <3>1. PICK a \in Event : a = pool[pending[n]] /\ a.node = n /\ ~a.killed
        BY <2>3, <1>0, PendingFacts
      <3>2. PICK e \in Event : /\ e = [a EXCEPT !.val = v, !.weak = w, !.forced = FALSE]
                               /\ e.node = a.node /\ e.killed = a.killed /\ e.val = v
        <4>1. /\ [a EXCEPT !.val = v, !.weak = w, !.forced = FALSE] \in Event
              /\ [a EXCEPT !.val = v, !.weak = w, !.forced = FALSE].node = a.node
              /\ [a EXCEPT !.val = v, !.weak = w, !.forced = FALSE].killed = a.killed
              /\ [a EXCEPT !.val = v, !.weak = w, !.forced = FALSE].val = v
          BY <3>1 DEF Event
        <4>2. QED
          BY <4>1
      <3>3. e.node = n /\ ~e.killed /\ Rewrite(n, e)
        BY <2>3, <3>1, <3>2
      <3>4. Agenda!Revise(n, v)
        BY <1>0, <2>1, <2>3, <3>2, <3>3, RewriteAgenda
      <3>5. QED
        BY <3>4 DEF AgendaStep, Agenda!Next
    <2>4. ASSUME Schedule(n, NewEvent(n, v, 0, w, FALSE), now + d)
          PROVE  AgendaStep
      <3>1. now + d \in Int /\ now + d >= now
        BY <1>0
      <3>2. /\ NewEvent(n, v, 0, w, FALSE) \in Event
            /\ NewEvent(n, v, 0, w, FALSE).node = n /\ ~NewEvent(n, v, 0, w, FALSE).killed
        BY DEF NewEvent, Event
      <3>3. QED
        BY <3>1, <3>2, <2>1, <2>4, <1>1
    <2>5. QED
      BY <2>2, <2>3, <2>4, <1>9 DEF UnsetNode
  <1>10. ASSUME NEW n \in Node, NEW v \in Value, SetNow(n, v) PROVE AgendaStep
    <2>1. UNCHANGED <<queue, pool, now>> /\ pending[n] = 0
          /\ (value' = value \/ value' = [value EXCEPT ![n] = v])
      BY <1>10 DEF SetNow, queueVars
    <2>2. UNCHANGED <<PlanOf, BeforeOf>> /\ n \notin DOMAIN PlanOf
      BY <1>0, <2>1, QuietAgenda, PlanFacts
    <2>3. CASE value' = value
      BY <2>1, <2>3, <1>2
    <2>4. CASE value' = [value EXCEPT ![n] = v]
      <3>1. Agenda!Impose(n, v)
        BY <2>1, <2>2, <2>4 DEF Agenda!Impose
      <3>2. QED
        BY <3>1 DEF AgendaStep, Agenda!Next
    <2>5. QED
      BY <2>1, <2>3, <2>4
  <1>11. ASSUME NEW t \in {0, now}, Initialize(t) PROVE AgendaStep
    <2>1. /\ queue' = <<>> /\ now' = t /\ value' = [n \in Node |-> LOGIC_OTHER] /\ t \in Time
      BY <1>0, <1>11 DEF Initialize, Time
    <2>2. (queue = <<>> => NoneLive)'
      BY EmptyAgenda, PTL
    <2>3. (NoneLive => PlanOf = [n \in {} |-> LOGIC_OTHER] /\ BeforeOf = {})'
      BY NothingPlanned, PTL
    <2>4. Agenda!Restart(t)
      BY <2>1, <2>2, <2>3 DEF Agenda!Restart
    <2>5. QED
      BY <2>1, <2>4 DEF AgendaStep, Agenda!Next
  <1>12. ASSUME Restore PROVE AgendaStep
    BY <1>0, <1>12, RestoreAgenda DEF AgendaStep, Restore, stepVars
  <1>13. ASSUME NEW t \in Time, AdvanceBegin(t) PROVE AgendaStep
    BY <1>2, <1>13 DEF AdvanceBegin, queueVars
  <1>14. QED
    BY <1>0, <1>3, <1>4, <1>5, <1>6, <1>7, <1>8, <1>9, <1>10, <1>11, <1>12, <1>13
       DEF UserNext

LEMMA SimAgenda ==
    ASSUME Orderly, AInv, Inv', SimNext
    PROVE  AgendaStep
  <1> USE QueueAssumption, EventsAssumption
  <1>0. /\ Inv /\ now \in Time /\ now \in Int /\ Time \subseteq Nat
        /\ value \in [Node -> Value]
    BY DEF AInv, TInv, Inv, StepTypeOK, Time
  <1>1. ASSUME UNCHANGED <<queue, pool, now, value>> PROVE AgendaStep
    BY <1>0, <1>1, QuietAgenda DEF AgendaStep
  <1>2. ASSUME StepNothing PROVE AgendaStep
    <2>1. NoneLive /\ queue' = <<>> /\ UNCHANGED <<now, value>>
      BY <1>2 DEF StepNothing
    <2>2. (queue = <<>> => NoneLive)'
      BY EmptyAgenda, PTL
    <2>3. (NoneLive => PlanOf = [n \in {} |-> LOGIC_OTHER] /\ BeforeOf = {})'
      BY NothingPlanned, PTL
    <2>4. PlanOf = [n \in {} |-> LOGIC_OTHER] /\ BeforeOf = {}
      BY <2>1, NothingPlanned
    <2>5. QED
      BY <2>1, <2>2, <2>3, <2>4 DEF AgendaStep
  <1>3. ASSUME NEW k \in DOMAIN queue, NEW t \in Time, StepMinDelay(k, t) PROVE AgendaStep
    <2>1. /\ FirstLive(k) /\ now' = queue[k].time /\ t > queue[k].time /\ value' = value
          /\ \E c \in EventId :
                /\ Fresh(c)
                /\ pool' = [j \in EventId |->
                                IF j = c THEN pool[queue[k].ev]
                                ELSE IF j \in QueuedUpTo(k) THEN NullEvent
                                ELSE pool[j]]
                /\ Enqueue(DropFirst(queue, k), c, t)
      BY <1>3 DEF StepMinDelay
    <2>2. PICK c \in EventId :
                /\ Fresh(c)
                /\ pool' = [j \in EventId |->
                                IF j = c THEN pool[queue[k].ev]
                                ELSE IF j \in QueuedUpTo(k) THEN NullEvent
                                ELSE pool[j]]
                /\ Enqueue(DropFirst(queue, k), c, t)
      BY <2>1
    <2>3. /\ pool'[c] = pool[queue[k].ev]
          /\ \A j \in EventId : j \notin QueuedUpTo(k) /\ InUse(j) => pool'[j] = pool[j]
      BY <2>2 DEF Fresh
    <2>4. t >= queue[k].time
      <3>1. queue[k].time \in Time
        BY <1>0, <2>1, FirstLiveFacts DEF Inv
      <3>2. t \in Nat /\ queue[k].time \in Nat
        BY <3>1, <1>0
      <3>3. QED
        BY <2>1, <3>2
    <2>5. \E n \in Node : Agenda!Postpone(n, t)
      BY <1>0, <2>1, <2>2, <2>3, <2>4, PutBackAgenda
    <2>6. QED
      BY <2>5 DEF AgendaStep, Agenda!Next
  <1>4. ASSUME NEW k \in DOMAIN queue, Executing(k), Settle(k),
               value' = [value EXCEPT ![pool[queue[k].ev].node] = pool[queue[k].ev].val]
        PROVE  AgendaStep
    BY <1>0, <1>4, SettleAgenda DEF AgendaStep, Agenda!Next
  <1>5. ASSUME NEW k \in DOMAIN queue, StepXX(k) \/ StepVacuousStop(k) PROVE AgendaStep
    <2>1. /\ Executing(k) /\ Settle(k) /\ value' = value
          /\ value[pool[queue[k].ev].node] = pool[queue[k].ev].val
      BY <1>5 DEF StepXX, StepVacuousStop
    <2>2. pool[queue[k].ev].node \in Node
      BY <1>0, <2>1, FirstLiveFacts DEF Executing, Inv
    <2>3. value' = [value EXCEPT ![pool[queue[k].ev].node] = pool[queue[k].ev].val]
      BY <1>0, <2>1, <2>2
    <2>4. QED
      BY <2>1, <2>3, <1>4
  <1>6. ASSUME NEW k \in DOMAIN queue, StepVacuous(k) PROVE AgendaStep
    <2>1. /\ Executing(k) /\ FirstLive(k) /\ pool[queue[k].ev].val # LOGIC_OTHER
          /\ pool[queue[k].ev].val = value[pool[queue[k].ev].node]
      BY <1>6 DEF StepVacuous, Executing
    <2>2. Live(queue[k].ev) /\ queue[k].ev \in EventId
      BY <1>0, <2>1, FirstLiveFacts DEF Inv
    <2>3. WorthExecuting(pool[queue[k].ev], value)
      BY <1>0, <2>2 DEF Inv, NonVacuous
    <2>4. Session \cap {"setf", "unset"} = {}
      BY <1>6 DEF StepVacuous, Orderly, Timely, Benign
    <2>5. QED
      BY <2>1, <2>3, <2>4 DEF WorthExecuting
  <1>7. ASSUME NEW k \in DOMAIN queue, StepExclRefused(k) PROVE AgendaStep
    <2>1. /\ FirstLive(k) /\ now' = queue[k].time /\ value' = value
          /\ Enqueue(DropFirst(queue, k), queue[k].ev, queue[k].time)
          /\ pool' = PoolWithout(QueuedUpTo(k - 1))
      BY <1>7 DEF StepExclRefused, Executing
    <2>2. /\ queue[k].time \in Time /\ queue[k].ev \in EventId
          /\ QueuedUpTo(k) = QueuedUpTo(k - 1) \cup {queue[k].ev}
          /\ queue[k].ev \notin QueuedUpTo(k - 1)
      BY <1>0, <2>1, FirstLiveFacts DEF Inv
    <2>3. /\ pool'[queue[k].ev] = pool[queue[k].ev]
          /\ \A j \in EventId : j \notin QueuedUpTo(k) /\ InUse(j) => pool'[j] = pool[j]
      BY <2>1, <2>2 DEF PoolWithout
    <2>4. PICK i \in EventId, t \in Time : i = queue[k].ev /\ t = queue[k].time
      BY <2>2
    <2>5. t >= queue[k].time
      BY <2>4, <1>0
    <2>6. \E n \in Node : Agenda!Postpone(n, t)
      BY <1>0, <2>1, <2>3, <2>4, <2>5, PutBackAgenda
    <2>7. QED
      BY <2>6 DEF AgendaStep, Agenda!Next
  <1>8. ASSUME NEW k \in DOMAIN queue, StepCommit(k) PROVE AgendaStep
    BY <1>4, <1>8 DEF StepCommit
  <1>9. ASSUME NEW n \in Node, PropagateKill(n) \/ FlushKill(n) PROVE AgendaStep
    <2>1. pending[n] # 0 /\ KillEvent(n) /\ UNCHANGED <<now, value>>
      BY <1>9 DEF PropagateKill, FlushKill, stepVars
    <2>2. Agenda!Cancel(n)
      BY <1>0, <2>1, KillAgenda
    <2>3. QED
      BY <2>2 DEF AgendaStep, Agenda!Next
  <1>10. ASSUME NEW n \in Node, NEW w \in Strength, FlushOverwrite(n, w) PROVE AgendaStep
    <2>1. /\ pending[n] # 0 /\ UNCHANGED <<now, value>>
          /\ Rewrite(n, [pool[pending[n]] EXCEPT !.val = LOGIC_OTHER, !.weak = w])
      BY <1>10 DEF FlushOverwrite
    <2>2. PICK a \in Event : a = pool[pending[n]] /\ a.node = n /\ ~a.killed
      BY <2>1, <1>0, PendingFacts
    <2>3. PICK e \in Event : /\ e = [a EXCEPT !.val = LOGIC_OTHER, !.weak = w]
                             /\ e.node = a.node /\ e.killed = a.killed /\ e.val = LOGIC_OTHER
      <3>1. /\ [a EXCEPT !.val = LOGIC_OTHER, !.weak = w] \in Event
            /\ [a EXCEPT !.val = LOGIC_OTHER, !.weak = w].node = a.node
            /\ [a EXCEPT !.val = LOGIC_OTHER, !.weak = w].killed = a.killed
            /\ [a EXCEPT !.val = LOGIC_OTHER, !.weak = w].val = LOGIC_OTHER
        BY <2>2 DEF Event, Value
      <3>2. QED
        BY <3>1
    <2>4. e.node = n /\ ~e.killed /\ Rewrite(n, e)
      BY <2>1, <2>2, <2>3
    <2>5. Agenda!Revise(n, LOGIC_OTHER) /\ LOGIC_OTHER \in Value
      <3>1. Agenda!Revise(n, e.val)
        BY <1>0, <2>1, <2>3, <2>4, RewriteAgenda
      <3>2. QED
        BY <2>3, <3>1 DEF Value
    <2>6. QED
      BY <2>5 DEF AgendaStep, Agenda!Next
  <1>11. ASSUME NEW n \in Node, NEW v \in Value, NEW r \in Rule \cup {0},
                NEW w \in Strength, NEW d \in Delays, FlushSchedule(n, v, r, w, d)
         PROVE  AgendaStep
    <2> DEFINE e == NewEvent(n, v, r, w, FALSE)
    <2>1. Schedule(n, e, now + d) /\ UNCHANGED <<now, value>>
      BY <1>11 DEF FlushSchedule
    <2>2. now + d \in Nat /\ now + d >= now
      BY <1>0
    <2>3. e \in Event /\ e.node = n /\ ~e.killed /\ e.val = v
      BY DEF NewEvent, Event
    <2> HIDE DEF e
    <2>4. now + d \in Time /\ Agenda!PlanChange(n, v, now + d)
      <3>1. PICK t \in Nat : t = now + d
        BY <2>2
      <3>2. t \in Time /\ Agenda!PlanChange(n, e.val, t)
        BY <1>0, <2>1, <2>2, <2>3, <3>1, ScheduleAgenda
      <3>3. QED
        BY <2>3, <3>1, <3>2
    <2>5. QED
      BY <2>4 DEF AgendaStep, Agenda!Next
  <1>12. ASSUME StepReturn \/ AdvanceStop PROVE AgendaStep
    <2>1. UNCHANGED <<queue, pool, now, value>>
      BY <1>0, <1>12 DEF StepReturn, AdvanceStop, queueVars, Inv
    <2>2. QED
      BY <2>1, <1>1
  <1>13. ASSUME AdvanceEnd PROVE AgendaStep
    <2>1. /\ ~NextEventBefore(until) /\ until \in Time
          /\ now' = IF now < until THEN until ELSE now
          /\ UNCHANGED <<queue, pool, value>>
      BY <1>0, <1>13 DEF AdvanceEnd, Orderly, Timely, AInv, TInv, Modes, Inv, StepTypeOK
    <2>2. UNCHANGED <<PlanOf, BeforeOf>>
      BY <1>0, <2>1, QuietAgenda
    <2>3. ASSUME NEW n \in DOMAIN PlanOf PROVE PlanOf[n].time >= until
      <3>1. n \in Node /\ Loaded(n) # {}
        BY <1>0, PlanFacts
      <3>2. PICK k \in Loaded(n) : TRUE
        BY <3>1
      <3>3. /\ k \in DOMAIN queue /\ k \in 1..Len(queue) /\ ~pool[queue[k].ev].killed
            /\ PlanOf[n] = PlanAt(k)
        BY <1>0, <3>1, <3>2, PlanFacts, LoadedFacts DEF Loaded
      <3>4. queue[k].time \in Nat /\ until \in Nat
        BY <1>0, <2>1, <3>3, QueueFacts DEF Inv, QInv, QTypeOK, Time
      <3>5. ~(queue[k].time < until)
        BY <2>1, <3>3 DEF NextEventBefore
      <3>6. PlanOf[n].time = queue[k].time
        BY <3>3 DEF PlanAt
      <3>7. QED
        BY <3>4, <3>5, <3>6
    <2>4. CASE now < until
      <3>1. until \in Time /\ until > now
        BY <2>1, <2>4, <1>0
      <3>2. Agenda!Wait(until)
        BY <2>1, <2>2, <2>3, <2>4, <3>1 DEF Agenda!Wait
      <3>3. QED
        BY <3>1, <3>2 DEF AgendaStep, Agenda!Next
    <2>5. CASE ~(now < until)
      BY <2>1, <2>2, <2>5 DEF AgendaStep
    <2>6. QED
      BY <2>4, <2>5
  <1>14. QED
    BY <1>2, <1>3, <1>5, <1>6, <1>7, <1>8, <1>9, <1>10, <1>11, <1>12, <1>13 DEF SimNext

\* Pool, queue, killed placeholders, back references and the phases of a step
\* implement the agenda: every node has at most one planned change, the next
\* one to happen is the first in the order, changes planned for the same time
\* keep the order in which they were planned, a cancelled one never happens
\* and time never passes a planned change.
THEOREM AgendaImplemented ==
    ASSUME Orderly
    PROVE  Spec => ImplementsAgenda
  <1>1. Init => AInv
    <2> SUFFICES ASSUME Init PROVE AInv
      OBVIOUS
    <2>1. TInv
      BY InitTimely
    <2>2. Len(queue) = 0 /\ queue \in Seq(Placeholder)
      BY EmptySeq DEF Init
    <2>3. DOMAIN queue = {}
      BY <2>2, LenProperties
    <2>4. QED
      BY <2>1, <2>3 DEF AInv, Ahead
  <1>2. Init => Agenda!Init
    <2> SUFFICES ASSUME Init PROVE Agenda!Init
      OBVIOUS
    <2>1. NoneLive
      BY EmptyAgenda DEF Init
    <2>2. PlanOf = [n \in {} |-> LOGIC_OTHER] /\ BeforeOf = {}
      BY <2>1, NothingPlanned
    <2>3. QED
      BY <2>2 DEF Agenda!Init, Init
  <1>3. AInv /\ [Next]_vars => AInv'
    <2> SUFFICES ASSUME AInv, [Next]_vars PROVE AInv'
      OBVIOUS
    <2>1. TInv'
      BY UserTimely, SimTimely, StutterTimely DEF Next, AInv, Orderly
    <2>2. ASSUME "advance" \notin Session PROVE Ahead'
      <3>1. CASE Next
        BY <2>2, <3>1, AheadKept DEF AInv, Orderly
      <3>2. CASE UNCHANGED vars
        BY <2>2, <3>2 DEF AInv, Ahead, vars
      <3>3. QED
        BY <3>1, <3>2
    <2>3. QED
      BY <2>1, <2>2 DEF AInv
  <1>4. AInv /\ AInv' /\ [Next]_vars => [Agenda!Next]_<<now, PlanOf, BeforeOf, value>>
    <2> SUFFICES ASSUME AInv, AInv', [Next]_vars PROVE AgendaStep
      BY DEF AgendaStep
    <2>1. Inv /\ Inv'
      BY DEF AInv, TInv
    <2>2. CASE Next
      BY <2>1, <2>2, UserAgenda, SimAgenda DEF Next
    <2>3. CASE UNCHANGED vars
      BY <2>1, <2>3, QuietAgenda DEF vars, AgendaStep
    <2>4. QED
      BY <2>2, <2>3
  <1>5. QED
    BY <1>1, <1>2, <1>3, <1>4, PTL DEF Spec, ImplementsAgenda, Agenda!Spec
=============================================================================
