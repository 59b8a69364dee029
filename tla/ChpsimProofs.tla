---------------------------- MODULE ChpsimProofs ----------------------------
(***************************************************************************)
(* Proofs about Chpsim, for every program graph: no wake-up is lost, the   *)
(* parties of a channel are paired, and control follows the token game.    *)
(* If the graph is structured, no join is overrun.                         *)
(***************************************************************************)
EXTENDS Chpsim, FiniteSetTheorems, TLAPS

\* Where an event may be: blocked, unblocked or elsewhere.
Bookkeeping ==
    /\ graph \in Graphs
    /\ rechecks \subseteq subscribed
    /\ Unblocked \cap subscribed = {}
    /\ \A i, j \in DOMAIN fifo : fifo[i] = fifo[j] => i = j
    /\ \A e \in Unblocked : countdown[e] = 0
    /\ \A e \in Waiting : kind(e) \in Communication \cup Guarded
    /\ \A e \in Event : countdown[e] <= graph[e].preds

\* A waiting send or receive is the only one, and the channel's status says
\* whether its partner has still to come or has gone ahead.
Placed(e, before, after) ==
    \/ status[chan(e)] = before /\ e \in subscribed
    \/ status[chan(e)] = after /\ e \in rechecks \cup Unblocked

Pairing ==
    /\ \A e \in Waiting : kind(e) = "send" => Placed(e, "sender_blocked", "received")
    /\ \A e \in Waiting : kind(e) = "receive" => Placed(e, "receiver_blocked", "sent")
    /\ \A e, f \in Waiting :
            kind(e) \in {"send", "receive"} /\ kind(f) = kind(e) /\ chan(f) = chan(e) => e = f
    /\ \A c \in Chan : status[c] \in {"sender_blocked", "received"} =>
            \E e \in Waiting : kind(e) = "send" /\ chan(e) = c
    /\ \A c \in Chan : status[c] \in {"receiver_blocked", "sent"} =>
            \E e \in Waiting : kind(e) = "receive" /\ chan(e) = c

\* The wake-ups of the events that a recheck takes.
ArmedRechecked == \A e \in subscribed : countdown[e] = 0 /\ Passes(e) => e \in rechecks

Inv == TypeOK /\ Bookkeeping /\ ArmedWhenBlocked /\ Pairing /\ ArmedRechecked

-----------------------------------------------------------------------------
(* The queue of unblocked events *)

\* Taking the first event off a queue without duplicates removes just it.
LEMMA TailRange ==
    ASSUME NEW S, NEW q \in Seq(S), q # <<>>,
           \A i, j \in DOMAIN q : q[i] = q[j] => i = j
    PROVE  /\ Head(q) \in S /\ Tail(q) \in Seq(S)
           /\ {Tail(q)[i] : i \in DOMAIN Tail(q)} = {q[i] : i \in DOMAIN q} \ {Head(q)}
           /\ Head(q) \in {q[i] : i \in DOMAIN q}
           /\ \A i, j \in DOMAIN Tail(q) : Tail(q)[i] = Tail(q)[j] => i = j
<1> DEFINE t == Tail(q)
<1>1. Len(q) \in Nat /\ Len(q) > 0 /\ DOMAIN q = 1 .. Len(q) /\ Head(q) = q[1]
  OBVIOUS
<1>2. t \in Seq(S) /\ Len(t) = Len(q) - 1 /\ DOMAIN t = 1 .. Len(q) - 1
  BY <1>1
<1>3. \A i \in 1 .. Len(q) - 1 : t[i] = q[i + 1]
  BY <1>1
<1>4. {t[i] : i \in DOMAIN t} \subseteq {q[i] : i \in DOMAIN q} \ {Head(q)}
  <2> SUFFICES ASSUME NEW i \in DOMAIN t
               PROVE  t[i] \in {q[k] : k \in DOMAIN q} \ {Head(q)}
    OBVIOUS
  <2>1. i + 1 \in DOMAIN q /\ t[i] = q[i + 1] /\ i + 1 # 1 /\ 1 \in DOMAIN q
    BY <1>1, <1>2, <1>3
  <2> QED  BY <2>1, <1>1
<1>5. {q[i] : i \in DOMAIN q} \ {Head(q)} \subseteq {t[i] : i \in DOMAIN t}
  <2> SUFFICES ASSUME NEW k \in DOMAIN q, q[k] # q[1]
               PROVE  q[k] \in {t[i] : i \in DOMAIN t}
    BY <1>1
  <2>1. k - 1 \in DOMAIN t /\ t[k - 1] = q[k]
    BY <1>1, <1>2, <1>3
  <2> QED  BY <2>1
<1>6. \A i, j \in DOMAIN t : t[i] = t[j] => i = j
  <2> SUFFICES ASSUME NEW i \in DOMAIN t, NEW j \in DOMAIN t, t[i] = t[j]
               PROVE  i = j
    OBVIOUS
  <2>1. q[i + 1] = q[j + 1] /\ i + 1 \in DOMAIN q /\ j + 1 \in DOMAIN q
    BY <1>1, <1>2, <1>3
  <2>2. i + 1 = j + 1
    BY <2>1
  <2> QED  BY <2>2, <1>2
<1>7. Head(q) \in S /\ Head(q) \in {q[i] : i \in DOMAIN q}
  BY <1>1
<1> QED  BY <1>2, <1>4, <1>5, <1>6, <1>7

\* Appending a new event adds just it.
LEMMA AppendRange ==
    ASSUME NEW S, NEW q \in Seq(S), NEW e \in S,
           \A i, j \in DOMAIN q : q[i] = q[j] => i = j,
           e \notin {q[i] : i \in DOMAIN q}
    PROVE  /\ Append(q, e) \in Seq(S)
           /\ {Append(q, e)[i] : i \in DOMAIN Append(q, e)} = {q[i] : i \in DOMAIN q} \cup {e}
           /\ \A i, j \in DOMAIN Append(q, e) : Append(q, e)[i] = Append(q, e)[j] => i = j
<1> DEFINE a == Append(q, e)
<1>1. /\ Len(q) \in Nat /\ DOMAIN q = 1 .. Len(q)
      /\ a \in Seq(S) /\ Len(a) = Len(q) + 1 /\ DOMAIN a = 1 .. Len(q) + 1
      /\ a[Len(q) + 1] = e
      /\ \A i \in DOMAIN q : a[i] = q[i]
  OBVIOUS
<1> HIDE DEF a
<1>2. {a[i] : i \in DOMAIN a} \subseteq {q[i] : i \in DOMAIN q} \cup {e}
  BY <1>1
<1>3. {q[i] : i \in DOMAIN q} \cup {e} \subseteq {a[i] : i \in DOMAIN a}
  <2>1. \A i \in DOMAIN q : i \in DOMAIN a
    BY <1>1
  <2>2. Len(q) + 1 \in DOMAIN a
    BY <1>1
  <2> QED  BY <1>1, <2>1, <2>2
<1>4. ASSUME NEW i \in DOMAIN a, NEW j \in DOMAIN a, a[i] = a[j]
      PROVE  i = j
  <2>1. CASE i \in DOMAIN q /\ j \in DOMAIN q
    BY <1>1, <1>4, <2>1
  <2>2. CASE i = Len(q) + 1 /\ j = Len(q) + 1
    BY <2>2
  <2>3. CASE i \in DOMAIN q /\ j = Len(q) + 1
    BY <1>1, <1>4, <2>3
  <2>4. CASE i = Len(q) + 1 /\ j \in DOMAIN q
    BY <1>1, <1>4, <2>4
  <2> QED  BY <1>1, <2>1, <2>2, <2>3, <2>4
<1> QED  BY <1>1, <1>2, <1>3, <1>4 DEF a

-----------------------------------------------------------------------------
(* Types *)

\* What an event of the program is made of.
LEMMA NodeFacts ==
    ASSUME TypeOK, NEW e \in Event
    PROVE  /\ kind(e) \in Kind /\ chan(e) \in Chan
           /\ graph[e].preds \in Nat /\ graph[e].lval \subseteq Var
           /\ graph[e].succ \in Seq(Event) /\ guards(e) \in Seq(Guard)
           /\ \A i \in DOMAIN guards(e) : guards(e)[i] \in Guard
<1>1. graph[e] \in Node
  BY DEF TypeOK
<1>2. /\ graph[e].kind \in Kind /\ graph[e].chan \in Chan
      /\ graph[e].preds \in Nat /\ graph[e].lval \subseteq Var
      /\ graph[e].succ \in Seq(Event) /\ graph[e].guards \in Seq(Guard)
  BY <1>1 DEF Node
<1> QED  BY <1>2 DEF kind, chan, guards

\* What the graphs guarantee of the program that runs.
LEMMA GraphFacts ==
    ASSUME TypeOK, Bookkeeping, NEW e \in Event
    PROVE  /\ graph[e].preds = 0 => kind(e) = "null"
           /\ kind(e) \in {"select", "arbiter"} => Len(graph[e].succ) = Len(guards(e))
           /\ kind(e) = "loop" => Len(graph[e].succ) = Len(guards(e)) + 1
  BY GraphAssumption DEF Bookkeeping, kind, guards

LEMMA ValueType == ASSUME NEW e PROVE Value(e) \in BOOLEAN
  BY DEF Value

\* Executing an event keeps the types.
LEMMA ExecuteType ==
    ASSUME TypeOK, NEW e \in Event, NEW q \in [Event -> Nat], NEW s \in SUBSET Event,
           NEW d \in [Chan -> BOOLEAN], execute(e, q, s, d), UNCHANGED graph, fifo' \in Seq(Event)
    PROVE  TypeOK'
<1>1. countdown' \in [Event -> Nat]
  BY NodeFacts DEF TypeOK, execute
<1>2. queue' \in [Event -> Nat]
  <2>1. PICK b \in first_checks(e) :
            queue' = [x \in Event |-> q[x] + (IF x \in b THEN 1 ELSE 0)]
    BY DEF execute
  <2> QED  BY <2>1
<1>3. subscribed' \subseteq Event /\ rechecks' \subseteq Event
  BY DEF execute, Watching
<1>4. val' \in [Var -> BOOLEAN]
  <2>1. CASE kind(e) = "assign"
    BY <2>1, ValueType, Zenon DEF TypeOK, execute, Written
  <2>2. CASE kind(e) \in {"receive", "peek"}
    <3>1. d[chan(e)] \in BOOLEAN
      BY NodeFacts
    <3>2. kind(e) # "assign"
      BY <2>2
    <3> QED  BY <2>2, <3>1, <3>2, Zenon DEF TypeOK, execute, Written
  <2>3. CASE kind(e) \notin {"assign", "receive", "peek"}
    BY <2>3 DEF TypeOK, execute, Written
  <2> QED  BY <2>1, <2>2, <2>3
<1>5. status' \in [Chan -> Status]
  BY NodeFacts DEF TypeOK, execute, Communicated, Handshake, Status
<1>6. data' \in [Chan -> BOOLEAN] /\ halted' \in BOOLEAN /\ graph' \in [Event -> Node]
  BY DEF TypeOK, execute
<1> QED  BY <1>1, <1>2, <1>3, <1>4, <1>5, <1>6 DEF TypeOK

\* What a check offers and marks is well typed.
LEMMA CheckType ==
    ASSUME TypeOK, NEW e \in Event
    PROVE  Offered(e) \in [Chan -> BOOLEAN] /\ Marked(e) \in [Chan -> Status]
<1>1. Offered(e) \in [Chan -> BOOLEAN]
  BY NodeFacts, ValueType DEF TypeOK, Offered
<1>2. Marked(e) \in [Chan -> Status]
  BY NodeFacts DEF TypeOK, Marked, Status
<1> QED  BY <1>1, <1>2

LEMMA DequeuedType ==
    ASSUME TypeOK, NEW e \in Event, queue[e] > 0
    PROVE  Dequeued(e) \in [Event -> Nat]
  BY DEF TypeOK, Dequeued

-----------------------------------------------------------------------------
(* What a check depends on *)

\* A check reads the program, the variables and the channels.
LEMMA PassesSame ==
    ASSUME UNCHANGED <<graph, val, status>>
    PROVE  \A x : Passes(x)' = Passes(x)
<1> TAKE x
<1>1. kind(x)' = kind(x) /\ guards(x)' = guards(x) /\ chan(x)' = chan(x)
  BY DEF kind, guards, chan
<1>2. can_send(chan(x))' = can_send(chan(x)) /\ can_receive(chan(x))' = can_receive(chan(x))
  BY <1>1 DEF can_send, can_receive
<1>3. \A i : Holds(guards(x)[i])' = Holds(guards(x)[i])
  BY <1>1 DEF Holds
<1>4. ready(x)' = ready(x)
  BY <1>1, <1>3 DEF ready
<1> QED  BY <1>1, <1>2, <1>4 DEF Passes

\* An update elsewhere cannot let a blocked event pass.
LEMMA PassesFrame ==
    ASSUME TypeOK, TypeOK', UNCHANGED graph, NEW x \in Event,
           kind(x) \in Guarded =>
                /\ \A v \in Var \cap block_deps(x) : val'[v] = val[v]
                /\ \A c \in Chan \cap block_deps(x) :
                        (status'[c] = "sender_blocked") <=> (status[c] = "sender_blocked"),
           kind(x) = "send" => (can_send(chan(x))' => can_send(chan(x))),
           kind(x) \in {"receive", "peek"} => (can_receive(chan(x))' => can_receive(chan(x))),
           Passes(x)'
    PROVE  Passes(x)
<1>0. kind(x)' = kind(x) /\ guards(x)' = guards(x) /\ chan(x)' = chan(x)
  BY DEF kind, guards, chan
<1>1. CASE kind(x) = "send"
  BY <1>0, <1>1 DEF Passes, can_send, Guarded
<1>2. CASE kind(x) \in {"receive", "peek"}
  BY <1>0, <1>2 DEF Passes, can_receive, Guarded
<1>3. CASE kind(x) \in Guarded
  <2>1. Passes(x) <=> ready(x) # {}
    BY <1>3 DEF Passes, Guarded
  <2>2. ready(x)' # {}
    BY <1>0, <1>3 DEF Passes, Guarded
  <2>3. CASE \E i \in DOMAIN guards(x) : guards(x)[i].otherwise
    BY <2>1, <2>3 DEF ready
  <2>4. CASE ~ \E i \in DOMAIN guards(x) : guards(x)[i].otherwise
    <3>1. PICK i \in DOMAIN guards(x) : Holds(guards(x)[i])'
      BY <1>0, <2>2, <2>4 DEF ready
    <3> DEFINE g == guards(x)[i]
    <3>2. g \in Guard
      BY NodeFacts
    <3>3. g.on \subseteq Var /\ g.off \subseteq Var /\ g.probe \subseteq Chan /\ g.quiet \subseteq Chan
      BY <3>2 DEF Guard
    <3>4. g.on \cup g.off \cup g.probe \cup g.quiet \subseteq block_deps(x)
      <4>1. block_deps(x) = UNION {guards(x)[k].on \cup guards(x)[k].off \cup guards(x)[k].probe
                                     \cup guards(x)[k].quiet : k \in DOMAIN guards(x)}
        BY <1>3, <2>4 DEF block_deps, Guarded, Communication
      <4> QED  BY <4>1
    <3>5. g' = g
      BY <1>0
    <3>6. Holds(g)
      <4>1. \A v \in g.on \cup g.off : val'[v] = val[v]
        BY <3>3, <3>4, <1>3
      <4>2. \A c \in g.probe \cup g.quiet :
                (status'[c] = "sender_blocked") <=> (status[c] = "sender_blocked")
        BY <3>3, <3>4, <1>3
      <4>3. /\ \A v \in g.on : val'[v]
            /\ \A v \in g.off : ~val'[v]
            /\ \A c \in g.probe : status'[c] = "sender_blocked"
            /\ \A c \in g.quiet : status'[c] # "sender_blocked"
        BY <3>1, <3>5 DEF Holds
      <4> HIDE DEF g
      <4> QED  BY <4>1, <4>2, <4>3 DEF Holds
    <3>7. i \in ready(x)
      BY <2>4, <3>6 DEF ready
    <3> QED  BY <2>1, <3>7
  <2> QED  BY <2>3, <2>4
<1>4. CASE kind(x) \notin Communication \cup Guarded
  BY <1>4 DEF Passes, Communication
<1> QED  BY <1>1, <1>2, <1>3, <1>4 DEF Communication

-----------------------------------------------------------------------------
(* Executing an event *)

\* A send or receive that is executed is the first party, newly arrived, or
\* the second, unblocked.
Due(e) ==
    /\ kind(e) = "send" =>
            \/ status[chan(e)] = "receiver_blocked" /\ e \notin Waiting
            \/ status[chan(e)] = "received" /\ e \in Unblocked
    /\ kind(e) = "receive" =>
            \/ status[chan(e)] = "sender_blocked" /\ e \notin Waiting
            \/ status[chan(e)] = "sent" /\ e \in Unblocked

\* What the two actions that execute an event have in common.
Executing(e, d) ==
    /\ rechecks = {} /\ Due(e) /\ UNCHANGED graph
    /\ Unblocked' = Unblocked \ {e}
    /\ \A i, j \in DOMAIN fifo' : fifo'[i] = fifo'[j] => i = j
    /\ countdown' = [countdown EXCEPT ![e] = graph[e].preds]
    /\ val' = Written(e, d)
    /\ status' = Communicated(e)
    /\ subscribed' = IF kind(e) = "arbiter" /\ ready(e) = {}
                     THEN (subscribed \ {e}) \cup {e} ELSE subscribed \ {e}
    /\ rechecks' = Watching(subscribed \ {e}, updated(e)) \ {e}

LEMMA ExecutingWaiting ==
    ASSUME Inv, NEW e \in Event, NEW d, Executing(e, d)
    PROVE  /\ \A x : x # e => (x \in subscribed' <=> x \in subscribed)
           /\ \A x : x # e => (x \in Unblocked' <=> x \in Unblocked)
           /\ \A x : x # e => (x \in Waiting' <=> x \in Waiting)
           /\ e \notin Unblocked'
           /\ e \in Waiting' => kind(e) = "arbiter" /\ e \in subscribed'
           /\ \A x : kind(x)' = kind(x) /\ chan(x)' = chan(x)
<1>1. \A x : x # e => (x \in subscribed' <=> x \in subscribed)
  BY DEF Executing
<1>2. \A x : x \in Unblocked' <=> (x \in Unblocked /\ x # e)
  BY DEF Executing
<1>3. e \in subscribed' => kind(e) = "arbiter"
  BY DEF Executing
<1>4. \A x : kind(x)' = kind(x) /\ chan(x)' = chan(x)
  BY DEF Executing, kind, chan
<1>5. Waiting' = subscribed' \cup Unblocked'
  BY DEF Waiting
<1>6. Waiting = subscribed \cup Unblocked
  BY DEF Waiting
<1> QED  BY <1>1, <1>2, <1>3, <1>4, <1>5, <1>6

LEMMA ExecutingBookkeeping ==
    ASSUME Inv, NEW e \in Event, NEW d, Executing(e, d)
    PROVE  Bookkeeping' /\ ArmedWhenBlocked'
<1> USE DEF Inv
<1>w. Waiting = subscribed \cup Unblocked /\ subscribed \subseteq Event /\ Unblocked \subseteq Event
  BY DEF TypeOK, Waiting, Unblocked
<1>1. (graph \in Graphs)'
  BY DEF Bookkeeping, Executing
<1>2. rechecks' \subseteq subscribed'
  BY DEF Executing, Watching
<1>3. Unblocked' \cap subscribed' = {}
  BY ExecutingWaiting DEF Bookkeeping
<1>4. \A i, j \in DOMAIN fifo' : fifo'[i] = fifo'[j] => i = j
  BY DEF Executing
<1>5. \A x \in Event : x # e => countdown'[x] = countdown[x]
  BY DEF Executing, TypeOK
<1>6. countdown'[e] = graph[e].preds
  BY DEF Executing, TypeOK
<1>7. \A x \in Unblocked' : countdown'[x] = 0
  BY <1>w, <1>5, ExecutingWaiting DEF Bookkeeping
<1>8. \A x \in Waiting' : kind(x)' \in Communication \cup Guarded
  BY ExecutingWaiting DEF Bookkeeping, Guarded
<1>9. \A x \in Event : countdown'[x] <= graph'[x].preds
  BY <1>5, <1>6, NodeFacts DEF Bookkeeping, Executing
<1>10. ArmedWhenBlocked'
  <2> SUFFICES ASSUME NEW x \in subscribed', kind(x)' # "arbiter"
               PROVE  countdown'[x] = 0
    BY DEF ArmedWhenBlocked
  <2>1. x # e
    BY ExecutingWaiting DEF Executing
  <2> QED  BY <2>1, <1>w, <1>5, ExecutingWaiting DEF ArmedWhenBlocked
<1> QED  BY <1>1, <1>2, <1>3, <1>4, <1>7, <1>8, <1>9, <1>10 DEF Bookkeeping

LEMMA ExecutingWakes ==
    ASSUME Inv, TypeOK', NEW e \in Event, NEW d, Executing(e, d)
    PROVE  ArmedRechecked'
<1> USE DEF Inv
<1> SUFFICES ASSUME NEW x \in subscribed', countdown'[x] = 0, Passes(x)'
             PROVE  x \in rechecks'
  BY DEF ArmedRechecked
<1>0. x \in Event
  BY DEF TypeOK
<1>1. x # e
  <2> SUFFICES ASSUME x = e PROVE FALSE
    OBVIOUS
  <2>1. kind(e) = "arbiter"
    BY DEF Executing
  <2>2. graph[e].preds = 0
    BY DEF Executing, TypeOK
  <2> QED  BY <2>1, <2>2, GraphFacts
<1>2. x \in subscribed /\ countdown[x] = 0
  BY <1>0, <1>1, ExecutingWaiting DEF Executing, TypeOK
<1>3. CASE block_deps(x) \cap updated(e) # {}
  BY <1>1, <1>2, <1>3 DEF Executing, Watching
<1>4. CASE block_deps(x) \cap updated(e) = {}
  <2>1. \A v \in Var : v \notin updated(e) => val'[v] = val[v]
    BY DEF Executing, Written, updated, TypeOK
  <2>2. \A c \in Chan : c \notin updated(e) => status'[c] = status[c]
    BY NodeFacts DEF Executing, Communicated, updated, TypeOK
  <2>3. kind(x) \in Communication => chan(x) \in block_deps(x)
    BY DEF block_deps
  <2>4. kind(x) \in Communication => status'[chan(x)] = status[chan(x)]
    BY <1>0, <1>4, <2>2, <2>3, NodeFacts
  <2>5. chan(x)' = chan(x) /\ UNCHANGED graph
    BY ExecutingWaiting DEF Executing
  <2>6. kind(x) = "send" => (can_send(chan(x))' => can_send(chan(x)))
    BY <2>4, <2>5 DEF can_send, Communication
  <2>7. kind(x) \in {"receive", "peek"} => (can_receive(chan(x))' => can_receive(chan(x)))
    BY <2>4, <2>5 DEF can_receive, Communication
  <2>8. \A v \in Var \cap block_deps(x) : val'[v] = val[v]
    BY <1>4, <2>1
  <2>9. \A c \in Chan \cap block_deps(x) :
            (status'[c] = "sender_blocked") <=> (status[c] = "sender_blocked")
    BY <1>4, <2>2
  <2>10. Passes(x)
    BY <1>0, <2>5, <2>6, <2>7, <2>8, <2>9, PassesFrame
  <2>11. x \in rechecks
    BY <1>2, <2>10 DEF ArmedRechecked
  <2> QED  BY <2>11 DEF Executing
<1> QED  BY <1>3, <1>4

LEMMA ExecutingPairing ==
    ASSUME Inv, NEW e \in Event, NEW d, Executing(e, d)
    PROVE  Pairing'
<1> USE DEF Inv
<1>w. /\ \A x : x # e => (x \in subscribed' <=> x \in subscribed)
      /\ \A x : x # e => (x \in Unblocked' <=> x \in Unblocked)
      /\ \A x : x # e => (x \in Waiting' <=> x \in Waiting)
      /\ e \in Waiting' => kind(e) = "arbiter"
  BY ExecutingWaiting
<1>k. \A x : kind(x)' = kind(x) /\ chan(x)' = chan(x)
  BY ExecutingWaiting
<1>t. Waiting \subseteq Event /\ Unblocked \subseteq Waiting
  BY DEF TypeOK, Waiting, Unblocked
<1>r. rechecks = {}
  BY DEF Executing
<1>due. /\ kind(e) = "send" =>
            \/ status[chan(e)] = "receiver_blocked" /\ e \notin Waiting
            \/ status[chan(e)] = "received" /\ e \in Unblocked
        /\ kind(e) = "receive" =>
            \/ status[chan(e)] = "sender_blocked" /\ e \notin Waiting
            \/ status[chan(e)] = "sent" /\ e \in Unblocked
  BY DEF Executing, Due
<1>s. \A c \in Chan : kind(e) \notin {"send", "receive"} \/ c # chan(e) => status'[c] = status[c]
  BY NodeFacts DEF Executing, Communicated, TypeOK
<1>c. kind(e) \in {"send", "receive"} =>
        status'[chan(e)] = Handshake(kind(e), status[chan(e)])
  BY NodeFacts DEF Executing, Communicated, TypeOK
<1>1. \A x \in Waiting' : kind(x)' = "send" => Placed(x, "sender_blocked", "received")'
  <2> SUFFICES ASSUME NEW x \in Waiting', kind(x) = "send"
               PROVE  Placed(x, "sender_blocked", "received")'
    BY <1>k
  <2>1. x # e
    BY <1>w
  <2>2. x \in Waiting /\ x \in Event /\ Placed(x, "sender_blocked", "received")
    BY <1>w, <1>t, <2>1 DEF Pairing
  <2>3. \/ status[chan(x)] = "sender_blocked" /\ x \in subscribed
        \/ status[chan(x)] = "received" /\ x \in Unblocked
    BY <1>r, <2>2 DEF Placed
  <2>4. CASE kind(e) \notin {"send", "receive"} \/ chan(x) # chan(e)
    <3>1. status'[chan(x)] = status[chan(x)]
      BY <1>s, <2>2, <2>4, NodeFacts
    <3> QED  BY <3>1, <2>1, <2>3, <1>k, <1>w DEF Placed
  <2>5. CASE kind(e) = "send" /\ chan(x) = chan(e)
    <3>1. e \notin Waiting
      BY <2>1, <2>2, <2>5 DEF Pairing
    <3> QED  BY <3>1, <2>3, <2>5, <1>due, <1>t
  <2>6. CASE kind(e) = "receive" /\ chan(x) = chan(e)
    <3>1. status[chan(x)] = "sender_blocked" /\ x \in subscribed
      BY <1>due, <2>3, <2>6
    <3>2. status'[chan(x)] = "received"
      BY <3>1, <2>6, <1>c DEF Handshake
    <3>3. block_deps(x) = {chan(x)} /\ chan(x) \in updated(e)
      BY <2>6 DEF block_deps, Communication, updated
    <3>4. x \in rechecks'
      BY <3>1, <3>3, <2>1 DEF Executing, Watching
    <3> QED  BY <3>2, <3>4, <1>k DEF Placed
  <2> QED  BY <2>4, <2>5, <2>6
<1>2. \A x \in Waiting' : kind(x)' = "receive" => Placed(x, "receiver_blocked", "sent")'
  <2> SUFFICES ASSUME NEW x \in Waiting', kind(x) = "receive"
               PROVE  Placed(x, "receiver_blocked", "sent")'
    BY <1>k
  <2>1. x # e
    BY <1>w
  <2>2. x \in Waiting /\ x \in Event /\ Placed(x, "receiver_blocked", "sent")
    BY <1>w, <1>t, <2>1 DEF Pairing
  <2>3. \/ status[chan(x)] = "receiver_blocked" /\ x \in subscribed
        \/ status[chan(x)] = "sent" /\ x \in Unblocked
    BY <1>r, <2>2 DEF Placed
  <2>4. CASE kind(e) \notin {"send", "receive"} \/ chan(x) # chan(e)
    <3>1. status'[chan(x)] = status[chan(x)]
      BY <1>s, <2>2, <2>4, NodeFacts
    <3> QED  BY <3>1, <2>1, <2>3, <1>k, <1>w DEF Placed
  <2>5. CASE kind(e) = "receive" /\ chan(x) = chan(e)
    <3>1. e \notin Waiting
      BY <2>1, <2>2, <2>5 DEF Pairing
    <3> QED  BY <3>1, <2>3, <2>5, <1>due, <1>t
  <2>6. CASE kind(e) = "send" /\ chan(x) = chan(e)
    <3>1. status[chan(x)] = "receiver_blocked" /\ x \in subscribed
      BY <1>due, <2>3, <2>6
    <3>2. status'[chan(x)] = "sent"
      BY <3>1, <2>6, <1>c DEF Handshake
    <3>3. block_deps(x) = {chan(x)} /\ chan(x) \in updated(e)
      BY <2>6 DEF block_deps, Communication, updated
    <3>4. x \in rechecks'
      BY <3>1, <3>3, <2>1 DEF Executing, Watching
    <3> QED  BY <3>2, <3>4, <1>k DEF Placed
  <2> QED  BY <2>4, <2>5, <2>6
<1>3. \A x, y \in Waiting' :
        kind(x)' \in {"send", "receive"} /\ kind(y)' = kind(x)' /\ chan(y)' = chan(x)' => x = y
  <2> SUFFICES ASSUME NEW x \in Waiting', NEW y \in Waiting', kind(x) \in {"send", "receive"},
                      kind(y) = kind(x), chan(y) = chan(x)
               PROVE  x = y
    BY <1>k
  <2>1. x # e /\ y # e
    BY <1>w
  <2> QED  BY <2>1, <1>w DEF Pairing
<1>4. \A c \in Chan : status'[c] \in {"sender_blocked", "received"} =>
        \E x \in Waiting' : kind(x)' = "send" /\ chan(x)' = c
  <2> SUFFICES ASSUME NEW c \in Chan, status'[c] \in {"sender_blocked", "received"}
               PROVE  \E x \in Waiting' : kind(x) = "send" /\ chan(x) = c
    BY <1>k
  <2>1. CASE kind(e) \notin {"send", "receive"} \/ c # chan(e)
    <3>1. PICK x \in Waiting : kind(x) = "send" /\ chan(x) = c
      BY <1>s, <2>1 DEF Pairing
    <3> QED  BY <3>1, <2>1, <1>w
  <2>2. CASE kind(e) \in {"send", "receive"} /\ c = chan(e)
    <3>1. kind(e) = "receive" /\ status[c] = "sender_blocked"
      BY <2>2, <1>c DEF Handshake
    <3>2. PICK x \in Waiting : kind(x) = "send" /\ chan(x) = c
      BY <3>1 DEF Pairing
    <3> QED  BY <3>1, <3>2, <1>w
  <2> QED  BY <2>1, <2>2
<1>5. \A c \in Chan : status'[c] \in {"receiver_blocked", "sent"} =>
        \E x \in Waiting' : kind(x)' = "receive" /\ chan(x)' = c
  <2> SUFFICES ASSUME NEW c \in Chan, status'[c] \in {"receiver_blocked", "sent"}
               PROVE  \E x \in Waiting' : kind(x) = "receive" /\ chan(x) = c
    BY <1>k
  <2>1. CASE kind(e) \notin {"send", "receive"} \/ c # chan(e)
    <3>1. PICK x \in Waiting : kind(x) = "receive" /\ chan(x) = c
      BY <1>s, <2>1 DEF Pairing
    <3> QED  BY <3>1, <2>1, <1>w
  <2>2. CASE kind(e) \in {"send", "receive"} /\ c = chan(e)
    <3>1. kind(e) = "send" /\ status[c] = "receiver_blocked"
      BY <2>2, <1>c DEF Handshake
    <3>2. PICK x \in Waiting : kind(x) = "receive" /\ chan(x) = c
      BY <3>1 DEF Pairing
    <3> QED  BY <3>1, <3>2, <1>w
  <2> QED  BY <2>1, <2>2
<1> QED  BY <1>1, <1>2, <1>3, <1>4, <1>5 DEF Pairing

LEMMA ExecutingInv ==
    ASSUME Inv, TypeOK', NEW e \in Event, NEW d, Executing(e, d)
    PROVE  Inv'
  BY ExecutingBookkeeping, ExecutingWakes, ExecutingPairing DEF Inv

-----------------------------------------------------------------------------
(* The actions *)

LEMMA InitInv == Init => Inv
<1> SUFFICES ASSUME Init PROVE Inv
  OBVIOUS
<1>1. TypeOK
  <2>1. graph \in [Event -> Node]
    BY GraphAssumption DEF Init
  <2>2. \A e \in Event : graph[e].preds \in Nat
    BY <2>1 DEF Node
  <2>3. countdown \in [Event -> Nat] /\ queue \in [Event -> Nat]
    BY <2>2 DEF Init
  <2>4. status \in [Chan -> Status]
    BY DEF Init, Status
  <2>5. fifo \in Seq(Event) /\ subscribed \subseteq Event /\ rechecks \subseteq Event
    BY DEF Init
  <2>6. val \in [Var -> BOOLEAN] /\ data \in [Chan -> BOOLEAN] /\ halted \in BOOLEAN
    BY DEF Init
  <2> QED  BY <2>1, <2>3, <2>4, <2>5, <2>6 DEF TypeOK
<1>2. Unblocked = {} /\ Waiting = {}
  BY DEF Init, Unblocked, Waiting
<1>3. \A e \in Event : countdown[e] <= graph[e].preds
  BY <1>1 DEF Init, TypeOK, Node
<1>4. Bookkeeping
  BY <1>2, <1>3 DEF Init, Bookkeeping
<1>5. ArmedWhenBlocked /\ ArmedRechecked
  BY DEF Init, ArmedWhenBlocked, ArmedRechecked
<1>6. Pairing
  BY <1>2 DEF Init, Pairing
<1> QED  BY <1>1, <1>4, <1>5, <1>6 DEF Inv

LEMMA ImmediateInv ==
    ASSUME Inv, Immediate, ~Halt PROVE Inv'
<1> USE DEF Inv
<1> DEFINE e == Head(fifo)
<1>1. /\ rechecks = {} /\ fifo # <<>> /\ UNCHANGED graph
      /\ fifo' = Tail(fifo) /\ execute(e, queue, subscribed, data)
  BY DEF Immediate, Running
<1>2. /\ e \in Event /\ Tail(fifo) \in Seq(Event) /\ e \in Unblocked
      /\ Unblocked' = Unblocked \ {e}
      /\ \A i, j \in DOMAIN fifo' : fifo'[i] = fifo'[j] => i = j
  <2>1. fifo \in Seq(Event) /\ \A i, j \in DOMAIN fifo : fifo[i] = fifo[j] => i = j
    BY DEF TypeOK, Bookkeeping
  <2> QED  BY <1>1, <2>1, TailRange DEF Unblocked
<1> HIDE DEF e
<1>3. TypeOK'
  BY <1>1, <1>2, ExecuteType DEF TypeOK
<1>4. e \notin subscribed
  BY <1>2 DEF Bookkeeping
<1>5. Due(e)
  BY <1>1, <1>2, <1>4 DEF Pairing, Placed, Due, Waiting
<1>6. subscribed = subscribed \ {e}
  BY <1>4
<1>7. Executing(e, data)
  BY <1>1, <1>2, <1>5, <1>6 DEF execute, Executing
<1> QED  BY <1>2, <1>3, <1>7, ExecutingInv

\* An event of a blocking kind that is checked for the first time waits
\* nowhere yet, unless it is an arbiter.
LEMMA CompleteFacts ==
    ASSUME Inv, NEW e \in Event, Complete(e)
    PROVE  /\ rechecks = {} /\ fifo = <<>> /\ queue[e] > 0 /\ UNCHANGED graph
           /\ Unblocked = {} /\ Waiting = subscribed
           /\ kind(e) # "null" => countdown[e] = 1
           /\ kind(e) # "arbiter" => e \notin Waiting
<1> USE DEF Inv
<1>1. rechecks = {} /\ fifo = <<>> /\ queue[e] > 0 /\ UNCHANGED graph
  BY DEF Complete, Dequeue, Running
<1>2. Unblocked = {} /\ Waiting = subscribed
  BY <1>1 DEF Unblocked, Waiting
<1>3. kind(e) # "null" => countdown[e] = 1
  BY GraphFacts DEF Complete
<1>4. kind(e) # "arbiter" => e \notin Waiting
  <2>1. kind(e) = "null" => e \notin Waiting
    BY DEF Bookkeeping, Communication, Guarded
  <2>2. kind(e) \notin {"null", "arbiter"} => e \notin subscribed
    BY <1>3 DEF ArmedWhenBlocked
  <2> QED  BY <1>2, <2>1, <2>2
<1> QED  BY <1>1, <1>2, <1>3, <1>4

\* Between two iterations no communication is half done.
LEMMA NoHalfDone ==
    ASSUME Inv, rechecks = {}, Unblocked = {}, NEW c \in Chan
    PROVE  status[c] \notin {"sent", "received"}
<1> USE DEF Inv
<1>1. ASSUME status[c] = "received" PROVE FALSE
  <2>1. PICK f \in Waiting : kind(f) = "send" /\ chan(f) = c
    BY <1>1 DEF Pairing
  <2> QED  BY <1>1, <2>1 DEF Pairing, Placed
<1>2. ASSUME status[c] = "sent" PROVE FALSE
  <2>1. PICK f \in Waiting : kind(f) = "receive" /\ chan(f) = c
    BY <1>2 DEF Pairing
  <2> QED  BY <1>2, <2>1 DEF Pairing, Placed
<1> QED  BY <1>1, <1>2

LEMMA ProceedInv ==
    ASSUME Inv, NEW e \in Event, Proceed(e) PROVE Inv'
<1> USE DEF Inv
<1>1. Complete(e) /\ Passes(e) /\ UNCHANGED fifo
      /\ execute(e, Dequeued(e), subscribed \ {e}, Offered(e))
  BY DEF Proceed
<1>2. /\ rechecks = {} /\ queue[e] > 0 /\ UNCHANGED graph /\ Unblocked = {}
      /\ kind(e) # "arbiter" => e \notin Waiting
  BY <1>1, CompleteFacts
<1>3. TypeOK'
  <2>1. Dequeued(e) \in [Event -> Nat] /\ Offered(e) \in [Chan -> BOOLEAN]
    BY <1>2, DequeuedType, CheckType
  <2>2. subscribed \ {e} \in SUBSET Event /\ fifo' \in Seq(Event)
    BY <1>1 DEF TypeOK
  <2> QED  BY <1>1, <1>2, <2>1, <2>2, ExecuteType
<1>4. chan(e) \in Chan /\ status[chan(e)] \notin {"sent", "received"}
  BY <1>2, NoHalfDone, NodeFacts
<1>5. Due(e)
  BY <1>1, <1>2, <1>4 DEF Passes, can_send, can_receive, Due
<1>6. Unblocked' = Unblocked \ {e}
  BY <1>1, <1>2 DEF Unblocked
<1>7. \A i, j \in DOMAIN fifo' : fifo'[i] = fifo'[j] => i = j
  BY <1>1 DEF Bookkeeping
<1>8. Executing(e, Offered(e))
  BY <1>1, <1>2, <1>5, <1>6, <1>7 DEF execute, Executing
<1> QED  BY <1>3, <1>8, ExecutingInv

\* The invariant does not depend on the check queue, the data, or halting.
LEMMA FrameInv ==
    ASSUME Inv, TypeOK', UNCHANGED <<graph, countdown, fifo, subscribed, rechecks, val, status>>
    PROVE  Inv'
<1> USE DEF Inv
<1>1. Unblocked' = Unblocked /\ Waiting' = Waiting
  BY DEF Unblocked, Waiting
<1>2. \A x : kind(x)' = kind(x) /\ chan(x)' = chan(x)
  BY DEF kind, chan
<1>3. Bookkeeping'
  BY <1>1, <1>2 DEF Bookkeeping
<1>4. ArmedWhenBlocked'
  BY <1>2 DEF ArmedWhenBlocked
<1>5. Pairing'
  BY <1>1, <1>2 DEF Pairing, Placed
<1>6. ArmedRechecked'
  BY PassesSame DEF ArmedRechecked
<1> QED  BY <1>3, <1>4, <1>5, <1>6

LEMMA ArriveInv ==
    ASSUME Inv, NEW e \in Event, Arrive(e) PROVE Inv'
<1> USE DEF Inv
<1>1. /\ UNCHANGED <<graph, fifo, subscribed, rechecks, val, status, data, halted>>
      /\ queue[e] > 0 /\ countdown[e] > 1 /\ queue' = Dequeued(e)
      /\ countdown' = [countdown EXCEPT ![e] = @ - 1]
  BY DEF Arrive, Dequeue, Running
<1>2. TypeOK'
  <2>1. queue' \in [Event -> Nat]
    BY <1>1, DequeuedType
  <2>2. countdown' \in [Event -> Nat]
    BY <1>1 DEF TypeOK
  <2> QED  BY <1>1, <2>1, <2>2 DEF TypeOK
<1>3. Unblocked' = Unblocked /\ Waiting' = Waiting
  BY <1>1 DEF Unblocked, Waiting
<1>4. \A x : kind(x)' = kind(x) /\ chan(x)' = chan(x)
  BY <1>1 DEF kind, chan
<1>5. /\ \A x \in Event : x # e => countdown'[x] = countdown[x]
      /\ countdown'[e] = countdown[e] - 1 /\ countdown'[e] > 0
      /\ \A x \in Event : countdown[x] \in Nat /\ graph[x].preds \in Nat
  BY <1>1, NodeFacts DEF TypeOK
<1>6. Unblocked \subseteq Event /\ e \notin Unblocked /\ subscribed \subseteq Event
  <2>1. Unblocked \subseteq Event /\ subscribed \subseteq Event
    BY DEF TypeOK, Unblocked
  <2>2. \A x \in Unblocked : countdown[x] = 0
    BY DEF Bookkeeping
  <2>3. e \notin Unblocked
    BY <1>5, <2>2, <1>1
  <2> QED  BY <2>1, <2>3
<1>7. \A x \in Event : countdown'[x] <= graph[x].preds
  BY <1>5 DEF Bookkeeping
<1>8. Bookkeeping'
  BY <1>1, <1>3, <1>4, <1>5, <1>6, <1>7 DEF Bookkeeping
<1>9. ArmedWhenBlocked'
  BY <1>1, <1>4, <1>5, <1>6 DEF ArmedWhenBlocked
<1>10. Pairing'
  BY <1>1, <1>3, <1>4 DEF Pairing, Placed
<1>11. ArmedRechecked'
  <2>1. \A x : Passes(x)' = Passes(x)
    BY <1>1, PassesSame
  <2>2. \A x \in subscribed : countdown'[x] = 0 => countdown[x] = 0
    BY <1>5, <1>6
  <2> QED  BY <1>1, <2>1, <2>2 DEF ArmedRechecked
<1> QED  BY <1>2, <1>8, <1>9, <1>10, <1>11

LEMMA IgnoreInv ==
    ASSUME Inv, NEW e \in Event, Ignore(e) PROVE Inv'
<1> USE DEF Inv
<1>1. /\ UNCHANGED <<graph, countdown, queue, fifo, subscribed, val, status, data, halted>>
      /\ e \in rechecks /\ rechecks' = rechecks \ {e} /\ countdown[e] > 0
  BY DEF Ignore, Notified, Running
<1>2. TypeOK'
  BY <1>1 DEF TypeOK
<1>3. Unblocked' = Unblocked /\ Waiting' = Waiting
  BY <1>1 DEF Unblocked, Waiting
<1>4. \A x : kind(x)' = kind(x) /\ chan(x)' = chan(x)
  BY <1>1 DEF kind, chan
<1>5. Bookkeeping' /\ ArmedWhenBlocked'
  BY <1>1, <1>3, <1>4 DEF Bookkeeping, ArmedWhenBlocked
<1>6. kind(e) = "arbiter"
  BY <1>1 DEF ArmedWhenBlocked, Bookkeeping, TypeOK
<1>7. \A x : x # e => (x \in rechecks' <=> x \in rechecks)
  BY <1>1
<1>8. Pairing'
  BY <1>1, <1>3, <1>4, <1>6, <1>7 DEF Pairing, Placed
<1>9. ArmedRechecked'
  <2>1. \A x : Passes(x)' = Passes(x)
    BY <1>1, PassesSame
  <2> QED  BY <1>1, <1>7, <2>1 DEF ArmedRechecked, TypeOK
<1> QED  BY <1>2, <1>5, <1>8, <1>9

\* An event that blocks, and what it changes.
LEMMA BlockFacts ==
    ASSUME Inv, NEW e \in Event, Block(e)
    PROVE  /\ Unblocked = {} /\ Unblocked' = {} /\ rechecks = {} /\ UNCHANGED <<graph, fifo, val>>
           /\ Waiting = subscribed /\ Waiting' = subscribed \cup {e}
           /\ subscribed' = subscribed \cup {e} /\ subscribed \subseteq Event
           /\ kind(e) \in Communication \cup Guarded
           /\ kind(e) \in Communication => e \notin subscribed /\ status[chan(e)] = "inactive"
           /\ \A c \in Chan : kind(e) \notin {"send", "receive"} \/ c # chan(e)
                                => status'[c] = status[c]
           /\ kind(e) = "send" => status'[chan(e)] = "sender_blocked"
           /\ kind(e) = "receive" => status'[chan(e)] = "receiver_blocked"
           /\ \A x : kind(x)' = kind(x) /\ chan(x)' = chan(x)
           /\ countdown' = [countdown EXCEPT ![e] = 0]
<1> USE DEF Inv
<1>1. /\ Complete(e) /\ ~Passes(e) /\ ~CheckFails(e)
      /\ countdown' = [countdown EXCEPT ![e] = 0]
      /\ subscribed' = subscribed \cup {e} /\ status' = Marked(e)
      /\ UNCHANGED <<fifo, val>>
  BY DEF Block
<1>2. /\ rechecks = {} /\ UNCHANGED graph /\ Unblocked = {} /\ Waiting = subscribed
      /\ kind(e) # "arbiter" => e \notin Waiting
  BY <1>1, CompleteFacts
<1>3. Unblocked' = {} /\ Waiting' = subscribed'
  <2>1. Unblocked' = Unblocked
    BY <1>1 DEF Unblocked
  <2> QED  BY <1>2, <2>1 DEF Waiting
<1>4. kind(e) \in Communication \cup Guarded
  BY <1>1 DEF Passes, Communication
<1>5. kind(e) \in Communication => e \notin subscribed /\ status[chan(e)] = "inactive"
  BY <1>1, <1>2 DEF CheckFails, Communication
<1>6. \A c \in Chan : kind(e) \notin {"send", "receive"} \/ c # chan(e)
                                => status'[c] = status[c]
  BY <1>1, NodeFacts DEF Marked, TypeOK
<1>7. /\ kind(e) = "send" => status'[chan(e)] = "sender_blocked"
      /\ kind(e) = "receive" => status'[chan(e)] = "receiver_blocked"
  BY <1>1, <1>5, NodeFacts DEF Marked, TypeOK, Communication
<1>8. \A x : kind(x)' = kind(x) /\ chan(x)' = chan(x)
  BY <1>2 DEF kind, chan
<1>9. subscribed \subseteq Event
  BY DEF TypeOK
<1> QED  BY <1>1, <1>2, <1>3, <1>4, <1>5, <1>6, <1>7, <1>8, <1>9

LEMMA BlockPairing ==
    ASSUME Inv, NEW e \in Event, Block(e) PROVE Pairing'
<1> USE DEF Inv
<1>b. /\ Unblocked = {} /\ rechecks = {}
      /\ Waiting = subscribed /\ Waiting' = subscribed \cup {e} /\ subscribed' = subscribed \cup {e}
      /\ subscribed \subseteq Event
      /\ kind(e) \in Communication => status[chan(e)] = "inactive"
      /\ \A c \in Chan : kind(e) \notin {"send", "receive"} \/ c # chan(e) => status'[c] = status[c]
      /\ kind(e) = "send" => status'[chan(e)] = "sender_blocked"
      /\ kind(e) = "receive" => status'[chan(e)] = "receiver_blocked"
  BY BlockFacts
<1>k. \A x : kind(x)' = kind(x) /\ chan(x)' = chan(x)
  BY BlockFacts
<1>c. \A x \in Event : chan(x) \in Chan
  BY NodeFacts
<1>s. \A x \in subscribed : kind(x) = "send" => status[chan(x)] = "sender_blocked"
  BY <1>b DEF Pairing, Placed
<1>r. \A x \in subscribed : kind(x) = "receive" => status[chan(x)] = "receiver_blocked"
  BY <1>b DEF Pairing, Placed
<1>1. \A x \in Waiting' : kind(x)' = "send" => Placed(x, "sender_blocked", "received")'
  <2> SUFFICES ASSUME NEW x \in Waiting', kind(x) = "send"
               PROVE  status'[chan(x)] = "sender_blocked"
    BY <1>b, <1>k DEF Placed
  <2>1. CASE x = e
    BY <2>1, <1>b
  <2>2. CASE x # e
    <3>1. x \in subscribed
      BY <2>2, <1>b
    <3>2. kind(e) \notin {"send", "receive"} \/ chan(x) # chan(e)
      BY <3>1, <1>s, <1>b DEF Communication
    <3> QED  BY <3>1, <3>2, <1>s, <1>b, <1>c
  <2> QED  BY <2>1, <2>2
<1>2. \A x \in Waiting' : kind(x)' = "receive" => Placed(x, "receiver_blocked", "sent")'
  <2> SUFFICES ASSUME NEW x \in Waiting', kind(x) = "receive"
               PROVE  status'[chan(x)] = "receiver_blocked"
    BY <1>b, <1>k DEF Placed
  <2>1. CASE x = e
    BY <2>1, <1>b
  <2>2. CASE x # e
    <3>1. x \in subscribed
      BY <2>2, <1>b
    <3>2. kind(e) \notin {"send", "receive"} \/ chan(x) # chan(e)
      BY <3>1, <1>r, <1>b DEF Communication
    <3> QED  BY <3>1, <3>2, <1>r, <1>b, <1>c
  <2> QED  BY <2>1, <2>2
<1>3. \A x, y \in Waiting' :
        kind(x)' \in {"send", "receive"} /\ kind(y)' = kind(x)' /\ chan(y)' = chan(x)' => x = y
  <2> SUFFICES ASSUME NEW x \in Waiting', NEW y \in Waiting', kind(x) \in {"send", "receive"},
                      kind(y) = kind(x), chan(y) = chan(x)
               PROVE  x = y
    BY <1>k
  <2>1. CASE x \in subscribed /\ y \in subscribed
    BY <2>1, <1>b DEF Pairing
  <2>2. CASE x = e /\ y \in subscribed
    BY <2>2, <1>b, <1>s, <1>r DEF Communication
  <2>3. CASE y = e /\ x \in subscribed
    BY <2>3, <1>b, <1>s, <1>r DEF Communication
  <2> QED  BY <2>1, <2>2, <2>3, <1>b
<1>4. \A c \in Chan : status'[c] \in {"sender_blocked", "received"} =>
        \E x \in Waiting' : kind(x)' = "send" /\ chan(x)' = c
  BY <1>b, <1>k DEF Pairing
<1>5. \A c \in Chan : status'[c] \in {"receiver_blocked", "sent"} =>
        \E x \in Waiting' : kind(x)' = "receive" /\ chan(x)' = c
  BY <1>b, <1>k DEF Pairing
<1> QED  BY <1>1, <1>2, <1>3, <1>4, <1>5 DEF Pairing

LEMMA BlockWakes ==
    ASSUME Inv, TypeOK', NEW e \in Event, Block(e) PROVE ArmedRechecked'
<1> USE DEF Inv
<1> SUFFICES ASSUME NEW x \in subscribed', countdown'[x] = 0, Passes(x)'
             PROVE  x \in rechecks'
  BY DEF ArmedRechecked
<1>b. /\ Unblocked = {} /\ rechecks = {} /\ UNCHANGED <<graph, val>>
      /\ subscribed' = subscribed \cup {e} /\ subscribed \subseteq Event /\ Waiting = subscribed
      /\ kind(e) \in Communication => status[chan(e)] = "inactive"
      /\ \A c \in Chan : kind(e) \notin {"send", "receive"} \/ c # chan(e) => status'[c] = status[c]
      /\ kind(e) = "send" => status'[chan(e)] = "sender_blocked"
      /\ kind(e) = "receive" => status'[chan(e)] = "receiver_blocked"
      /\ countdown' = [countdown EXCEPT ![e] = 0]
      /\ \A y : kind(y)' = kind(y) /\ chan(y)' = chan(y)
  BY BlockFacts
<1>c. x \in Event /\ chan(x) \in Chan /\ chan(e) \in Chan
  BY <1>b, NodeFacts
<1>n. \/ x \in subscribed /\ x # e /\ countdown[x] = 0
      \/ x = e
  BY <1>b, <1>c DEF TypeOK
<1>p. ~Passes(x)
  <2>1. ~Passes(e)
    BY DEF Block
  <2>2. CASE x # e
    BY <2>2, <1>b, <1>n DEF ArmedRechecked
  <2> QED  BY <2>1, <2>2
<1>o. /\ x \in subscribed /\ kind(x) = "send" => status[chan(x)] = "sender_blocked"
      /\ x \in subscribed /\ kind(x) = "receive" => status[chan(x)] = "receiver_blocked"
  BY <1>b DEF Pairing, Placed
<1>1. kind(x) = "send" => (can_send(chan(x))' => can_send(chan(x)))
  <2> SUFFICES ASSUME kind(x) = "send", status'[chan(x)] \in {"receiver_blocked", "received"}
               PROVE  status'[chan(x)] = status[chan(x)]
    BY <1>b DEF can_send
  <2>1. x # e
    BY <1>b
  <2>2. kind(e) \notin {"send", "receive"} \/ chan(x) # chan(e)
    BY <2>1, <1>n, <1>o, <1>b DEF Communication
  <2> QED  BY <2>2, <1>b, <1>c
<1>2. kind(x) \in {"receive", "peek"} => (can_receive(chan(x))' => can_receive(chan(x)) \/ x \in rechecks')
  <2> SUFFICES ASSUME kind(x) \in {"receive", "peek"},
                      status'[chan(x)] \in {"sender_blocked", "sent"},
                      status'[chan(x)] # status[chan(x)]
               PROVE  x \in rechecks'
    BY <1>b DEF can_receive
  <2>1. kind(e) = "send" /\ chan(x) = chan(e)
    BY <1>b, <1>c
  <2>2. x # e /\ x \in subscribed
    BY <2>1, <1>n
  <2>3. chan(e) \in block_deps(x)
    BY <2>1 DEF block_deps, Communication
  <2>4. status[chan(e)] = "inactive"
    BY <2>1, <1>b DEF Communication
  <2> QED  BY <2>1, <2>2, <2>3, <2>4 DEF Block, Watching
<1>3. ASSUME kind(x) \in Guarded, NEW c \in Chan \cap block_deps(x),
             ~((status'[c] = "sender_blocked") <=> (status[c] = "sender_blocked"))
      PROVE  x \in rechecks'
  <2>1. kind(e) = "send" /\ c = chan(e)
    BY <1>3, <1>b DEF Communication
  <2>2. x # e /\ x \in subscribed
    BY <2>1, <1>3, <1>n DEF Guarded
  <2>3. status[chan(e)] = "inactive"
    BY <2>1, <1>b DEF Communication
  <2> QED  BY <2>1, <2>2, <2>3, <1>3 DEF Block, Watching
<1>4. CASE x \notin rechecks'
  <2>1. Passes(x)
    BY <1>1, <1>2, <1>3, <1>4, <1>b, <1>c, PassesFrame
  <2> QED  BY <2>1, <1>p
<1> QED  BY <1>4

LEMMA BlockInv ==
    ASSUME Inv, NEW e \in Event, Block(e) PROVE Inv'
<1> USE DEF Inv
<1>b. /\ Unblocked' = {} /\ UNCHANGED <<graph, fifo, val>>
      /\ Waiting = subscribed /\ Waiting' = subscribed \cup {e}
      /\ subscribed' = subscribed \cup {e} /\ subscribed \subseteq Event
      /\ kind(e) \in Communication \cup Guarded
      /\ countdown' = [countdown EXCEPT ![e] = 0]
      /\ \A x : kind(x)' = kind(x) /\ chan(x)' = chan(x)
  BY BlockFacts
<1>1. TypeOK'
  <2>1. queue' \in [Event -> Nat]
    BY CompleteFacts, DequeuedType DEF Block
  <2>2. status' \in [Chan -> Status] /\ data' \in [Chan -> BOOLEAN]
    BY CheckType DEF Block
  <2>3. countdown' \in [Event -> Nat] /\ rechecks' \subseteq Event /\ UNCHANGED halted
    BY DEF Block, Watching, TypeOK
  <2> QED  BY <2>1, <2>2, <2>3, <1>b DEF TypeOK
<1>2. rechecks' \subseteq subscribed'
  BY <1>b DEF Block, Watching
<1>3. \A x \in Event : countdown'[x] = (IF x = e THEN 0 ELSE countdown[x])
  BY <1>b DEF TypeOK
<1>4. \A x \in Event : countdown'[x] <= graph'[x].preds
  BY <1>3, <1>b, NodeFacts DEF Bookkeeping
<1>5. Bookkeeping'
  BY <1>b, <1>2, <1>4 DEF Bookkeeping
<1>6. ArmedWhenBlocked'
  BY <1>b, <1>3 DEF ArmedWhenBlocked
<1> QED  BY <1>1, <1>5, <1>6, BlockPairing, BlockWakes

LEMMA RecheckInv ==
    ASSUME Inv, NEW e \in Event, Recheck(e), ~Halt PROVE Inv'
<1> USE DEF Inv
<1>1. /\ UNCHANGED <<graph, countdown, queue, val, halted>>
      /\ e \in rechecks /\ countdown[e] = 0
      /\ fifo' = IF Passes(e) THEN Append(fifo, e) ELSE fifo
      /\ subscribed' = IF Passes(e) THEN subscribed \ {e} ELSE subscribed
      /\ status' = IF Passes(e) THEN status ELSE Marked(e)
      /\ data' = Offered(e)
      /\ rechecks' = rechecks \ {e}
  BY DEF Recheck, Unsubscribed, Notified, Running
<1>2. e \in subscribed /\ e \notin Unblocked /\ e \in Waiting
  BY <1>1 DEF Bookkeeping, Waiting
<1>3. UNCHANGED status
  <2>1. kind(e) \in {"send", "receive"} => status[chan(e)] # "inactive"
    BY <1>2 DEF Pairing, Placed
  <2> QED  BY <1>1, <2>1 DEF Marked
<1>4. /\ fifo' \in Seq(Event)
      /\ Unblocked' = IF Passes(e) THEN Unblocked \cup {e} ELSE Unblocked
      /\ \A i, j \in DOMAIN fifo' : fifo'[i] = fifo'[j] => i = j
  <2>0. fifo \in Seq(Event) /\ \A i, j \in DOMAIN fifo : fifo[i] = fifo[j] => i = j
    BY DEF TypeOK, Bookkeeping
  <2>1. CASE Passes(e)
    <3>1. fifo' = Append(fifo, e) /\ e \notin {fifo[i] : i \in DOMAIN fifo}
      BY <1>1, <1>2, <2>1 DEF Unblocked
    <3> QED  BY <2>0, <2>1, <3>1, AppendRange DEF Unblocked
  <2>2. CASE ~Passes(e)
    BY <1>1, <2>0, <2>2 DEF Unblocked
  <2> QED  BY <2>1, <2>2
<1>5. TypeOK'
  BY <1>1, <1>3, <1>4, CheckType DEF TypeOK
<1>6. Waiting' = Waiting
  BY <1>1, <1>2, <1>4 DEF Waiting
<1>7. \A x : kind(x)' = kind(x) /\ chan(x)' = chan(x)
  BY <1>1 DEF kind, chan
<1>8. Bookkeeping'
  <2>1. rechecks' \subseteq subscribed' /\ Unblocked' \cap subscribed' = {}
    BY <1>1, <1>4 DEF Bookkeeping
  <2>2. \A x \in Unblocked' : countdown'[x] = 0
    BY <1>1, <1>4 DEF Bookkeeping
  <2> QED  BY <1>1, <1>4, <1>6, <1>7, <2>1, <2>2 DEF Bookkeeping
<1>9. ArmedWhenBlocked'
  BY <1>1, <1>7 DEF ArmedWhenBlocked
<1>10. Pairing'
  <2>1. \A x \in Waiting : x # e =>
            /\ x \in subscribed' <=> x \in subscribed
            /\ x \in rechecks' \cup Unblocked' <=> x \in rechecks \cup Unblocked
    BY <1>1, <1>4
  <2>2. Passes(e) => e \in Unblocked'
    BY <1>4
  <2>3. \A x \in Waiting : kind(x) = "send" => Placed(x, "sender_blocked", "received")'
    <3> SUFFICES ASSUME NEW x \in Waiting, kind(x) = "send"
                 PROVE  Placed(x, "sender_blocked", "received")'
      OBVIOUS
    <3>1. Placed(x, "sender_blocked", "received")
      BY DEF Pairing
    <3>2. CASE x # e
      BY <3>1, <3>2, <2>1, <1>3, <1>7 DEF Placed
    <3>3. CASE x = e /\ Passes(e)
      BY <3>1, <3>3, <2>2, <1>3, <1>7 DEF Placed, Passes, can_send
    <3>4. CASE x = e /\ ~Passes(e)
      BY <3>1, <3>4, <1>1, <1>2, <1>3, <1>7 DEF Placed, Passes, can_send, Guarded
    <3> QED  BY <3>2, <3>3, <3>4
  <2>4. \A x \in Waiting : kind(x) = "receive" => Placed(x, "receiver_blocked", "sent")'
    <3> SUFFICES ASSUME NEW x \in Waiting, kind(x) = "receive"
                 PROVE  Placed(x, "receiver_blocked", "sent")'
      OBVIOUS
    <3>1. Placed(x, "receiver_blocked", "sent")
      BY DEF Pairing
    <3>2. CASE x # e
      BY <3>1, <3>2, <2>1, <1>3, <1>7 DEF Placed
    <3>3. CASE x = e /\ Passes(e)
      BY <3>1, <3>3, <2>2, <1>3, <1>7 DEF Placed, Passes, can_receive
    <3>4. CASE x = e /\ ~Passes(e)
      BY <3>1, <3>4, <1>1, <1>2, <1>3, <1>7 DEF Placed, Passes, can_receive, Guarded
    <3> QED  BY <3>2, <3>3, <3>4
  <2> QED  BY <1>3, <1>6, <1>7, <2>3, <2>4 DEF Pairing
<1>11. ArmedRechecked'
  <2>1. \A x : Passes(x)' = Passes(x)
    BY <1>1, <1>3, PassesSame
  <2>2. \A x \in subscribed' : x \in subscribed /\ (x = e => ~Passes(e))
    BY <1>1
  <2> QED  BY <1>1, <2>1, <2>2 DEF ArmedRechecked
<1> QED  BY <1>5, <1>8, <1>9, <1>10, <1>11

\* A run-time error leaves everything as it is.
LEMMA HaltInv == ASSUME Inv, Halt, UNCHANGED graph PROVE Inv'
<1>1. TypeOK'
  BY DEF Inv, TypeOK, Halt
<1> QED  BY <1>1, FrameInv DEF Halt

LEMMA NextInv == Inv /\ [Next]_vars => Inv'
<1> SUFFICES ASSUME Inv, [Next]_vars PROVE Inv'
  OBVIOUS
<1>1. CASE UNCHANGED vars
  <2>1. TypeOK'
    BY <1>1 DEF Inv, TypeOK, vars
  <2> QED  BY <1>1, <2>1, FrameInv DEF vars
<1>2. CASE Immediate
  BY <1>2, ImmediateInv, HaltInv DEF Immediate, Running
<1>3. ASSUME NEW e \in Event, Arrive(e) \/ Block(e) \/ Proceed(e) \/ Refuse(e)
      PROVE  Inv'
  <2>1. CASE Arrive(e)
    BY <2>1, ArriveInv
  <2>2. CASE Block(e)
    BY <2>2, BlockInv
  <2>3. CASE Proceed(e)
    BY <2>3, ProceedInv
  <2>4. CASE Refuse(e)
    BY <2>4, HaltInv DEF Refuse, Complete, Dequeue, Running
  <2> QED  BY <1>3, <2>1, <2>2, <2>3, <2>4
<1>4. ASSUME NEW e \in Event, Ignore(e) \/ Recheck(e)
      PROVE  Inv'
  <2>1. CASE Ignore(e)
    BY <2>1, IgnoreInv
  <2>2. CASE Recheck(e)
    BY <2>2, RecheckInv, HaltInv DEF Recheck, Unsubscribed, Notified, Running
  <2> QED  BY <1>4, <2>1, <2>2
<1> QED  BY <1>1, <1>2, <1>3, <1>4 DEF Next

LEMMA InvHolds == Spec => []Inv
  BY InitInv, NextInv, PTL DEF Spec

-----------------------------------------------------------------------------
(* Theorems *)

\* The state of the simulator is always well formed.
THEOREM TypeCorrect == Spec => []TypeOK
<1>1. Inv => TypeOK
  BY DEF Inv
<1> QED  BY <1>1, InvHolds, PTL

\* For every program: EventNode::recheck() never ignores a blocked event
\* other than an arbiter.
THEOREM BlockedEventsArmed == Spec => []ArmedWhenBlocked
<1>1. Inv => ArmedWhenBlocked
  BY DEF Inv
<1> QED  BY <1>1, InvHolds, PTL

\* For every program: __notify_updates_for_recheck() reaches every blocked
\* event that an update lets go on, before the next event is taken, unless it
\* is an arbiter that subscribed after its countdown was reset.
THEOREM WakeupsNotLost == Spec => []NoLostWakeup
<1>1. Inv => NoLostWakeup
  <2> SUFFICES ASSUME Inv, NEW e \in subscribed \ Deaf, Passes(e) PROVE e \in rechecks
    BY DEF NoLostWakeup
  <2>1. countdown[e] = 0
    <3>1. countdown[e] \in Nat
      BY DEF Inv, TypeOK
    <3>2. CASE kind(e) = "arbiter"
      BY <3>1, <3>2 DEF Deaf
    <3>3. CASE kind(e) # "arbiter"
      BY <3>3 DEF Inv, ArmedWhenBlocked
    <3> QED  BY <3>2, <3>3
  <2> QED  BY <2>1 DEF Inv, ArmedRechecked
<1> QED  BY <1>1, InvHolds, PTL

LEMMA PairingSuffices == Inv => RendezvousPaired
<1> SUFFICES ASSUME Inv, NEW c \in Chan
             PROVE  CASE status[c] = "inactive" -> Parties("send", c) = {} /\ Parties("receive", c) = {}
                      [] status[c] = "sender_blocked" -> OnlyParty("send", c, subscribed)
                      [] status[c] = "receiver_blocked" -> OnlyParty("receive", c, subscribed)
                      [] status[c] = "sent" -> OnlyParty("receive", c, rechecks \cup Unblocked)
                      [] status[c] = "received" -> OnlyParty("send", c, rechecks \cup Unblocked)
  BY DEF RendezvousPaired
<1> USE DEF Inv
<1>1. status[c] \in Status
  BY DEF TypeOK
<1>2. /\ \A e \in Parties("send", c) : Placed(e, "sender_blocked", "received") /\ chan(e) = c
      /\ \A e \in Parties("receive", c) : Placed(e, "receiver_blocked", "sent") /\ chan(e) = c
  BY DEF Pairing, Parties
<1>3. /\ \A e, f \in Parties("send", c) : e = f
      /\ \A e, f \in Parties("receive", c) : e = f
  BY DEF Pairing, Parties
<1>4. /\ status[c] \in {"sender_blocked", "received"} => \E e : e \in Parties("send", c)
      /\ status[c] \in {"receiver_blocked", "sent"} => \E e : e \in Parties("receive", c)
  BY DEF Pairing, Parties
<1>5. CASE status[c] = "inactive"
  <2>1. Parties("send", c) = {} /\ Parties("receive", c) = {}
    BY <1>5, <1>2 DEF Placed
  <2> QED  BY <1>5, <2>1
<1>6. CASE status[c] = "sender_blocked"
  <2>1. Parties("receive", c) = {}
    BY <1>6, <1>2 DEF Placed
  <2>2. PICK e : e \in Parties("send", c)
    BY <1>6, <1>4
  <2>3. e \in subscribed /\ Parties("send", c) = {e}
    BY <1>6, <1>2, <1>3, <2>2 DEF Placed
  <2>4. OnlyParty("send", c, subscribed)
    BY <2>1, <2>3 DEF OnlyParty
  <2> QED  BY <1>6, <2>4
<1>7. CASE status[c] = "receiver_blocked"
  <2>1. Parties("send", c) = {}
    BY <1>7, <1>2 DEF Placed
  <2>2. PICK e : e \in Parties("receive", c)
    BY <1>7, <1>4
  <2>3. e \in subscribed /\ Parties("receive", c) = {e}
    BY <1>7, <1>2, <1>3, <2>2 DEF Placed
  <2>4. OnlyParty("receive", c, subscribed)
    BY <2>1, <2>3 DEF OnlyParty
  <2> QED  BY <1>7, <2>4
<1>8. CASE status[c] = "sent"
  <2>1. Parties("send", c) = {}
    BY <1>8, <1>2 DEF Placed
  <2>2. PICK e : e \in Parties("receive", c)
    BY <1>8, <1>4
  <2>3. e \in rechecks \cup Unblocked /\ Parties("receive", c) = {e}
    BY <1>8, <1>2, <1>3, <2>2 DEF Placed
  <2>4. OnlyParty("receive", c, rechecks \cup Unblocked)
    BY <2>1, <2>3 DEF OnlyParty
  <2> QED  BY <1>8, <2>4
<1>9. CASE status[c] = "received"
  <2>1. Parties("receive", c) = {}
    BY <1>9, <1>2 DEF Placed
  <2>2. PICK e : e \in Parties("send", c)
    BY <1>9, <1>4
  <2>3. e \in rechecks \cup Unblocked /\ Parties("send", c) = {e}
    BY <1>9, <1>2, <1>3, <2>2 DEF Placed
  <2>4. OnlyParty("send", c, rechecks \cup Unblocked)
    BY <2>1, <2>3 DEF OnlyParty
  <2> QED  BY <1>9, <2>4
<1> QED  BY <1>1, <1>5, <1>6, <1>7, <1>8, <1>9 DEF Status

\* For every program: the channel states of nonmeta_variable.hh are used as
\* their comments say, by one sender and one receiver at a time.
THEOREM ChannelsExclusive == Spec => []RendezvousPaired
  BY InvHolds, PairingSuffices, PTL

-----------------------------------------------------------------------------
(* The token game *)

\* An event hands control to its successors as the token game does, or, an
\* arbiter without a true guard, to none.
LEMMA ChecksAreTargets ==
    ASSUME TypeOK, Bookkeeping, NEW e \in Event, NEW b \in first_checks(e)
    PROVE  b \in Tokens!Targets(e) \/ (kind(e) = "arbiter" /\ b = {})
<1>1. ready(e) \subseteq DOMAIN guards(e)
  BY DEF ready
<1>2. /\ Len(guards(e)) \in Nat /\ DOMAIN guards(e) = 1 .. Len(guards(e))
      /\ DOMAIN graph[e].succ = 1 .. Len(graph[e].succ)
  BY NodeFacts
<1>3. CASE kind(e) = "arbiter" /\ ready(e) = {}
  BY <1>3 DEF first_checks
<1>4. CASE kind(e) \in {"select", "arbiter"} /\ ~(kind(e) = "arbiter" /\ ready(e) = {})
  <2>1. PICK i \in ready(e) : b = {graph[e].succ[i]}
    BY <1>4 DEF first_checks
  <2>2. i \in DOMAIN graph[e].succ
    BY <1>1, <1>2, <1>4, GraphFacts
  <2> QED  BY <2>1, <2>2, <1>4 DEF Tokens!Targets, kind
<1>5. CASE kind(e) = "loop"
  <2>1. PICK i \in (IF ready(e) = {} THEN {Len(guards(e)) + 1} ELSE ready(e)) :
            b = {graph[e].succ[i]}
    BY <1>5 DEF first_checks
  <2>2. i \in DOMAIN graph[e].succ
    BY <1>1, <1>2, <1>5, <2>1, GraphFacts
  <2> QED  BY <2>1, <2>2, <1>5 DEF Tokens!Targets, kind
<1>6. CASE kind(e) \notin {"select", "arbiter", "loop"}
  <2>1. b = {graph[e].succ[i] : i \in DOMAIN graph[e].succ}
    BY <1>6 DEF first_checks
  <2> QED  BY <2>1, <1>6 DEF Tokens!Targets, kind
<1> QED  BY <1>3, <1>4, <1>5, <1>6

\* An event is executed when it holds all its tokens, and takes them; q is
\* the check queue without it.
LEMMA ExecuteFires ==
    ASSUME TypeOK, Bookkeeping, NEW e \in Event, NEW q \in [Event -> Nat], NEW s, NEW d,
           execute(e, q, s, d), UNCHANGED graph,
           \A x \in Event : x # e => q[x] = queue[x],
           Held[e] = q[e] + Tokens!Need(e)
    PROVE  Tokens!Next
<1>1. PICK b \in first_checks(e) :
            queue' = [x \in Event |-> q[x] + (IF x \in b THEN 1 ELSE 0)]
  BY DEF execute
<1>2. countdown' = [countdown EXCEPT ![e] = graph[e].preds]
  BY DEF execute
<1>3. Tokens!Need(e) \in Nat /\ graph[e].preds \in Nat /\ q[e] \in Nat
  BY NodeFacts DEF Tokens!Need
<1>4. Tokens!Move(e, b)
  <2> SUFFICES ASSUME NEW x \in Event
               PROVE  queue'[x] + graph'[x].preds - countdown'[x]
                        = Held[x] - (IF x = e THEN Tokens!Need(e) ELSE 0)
                                  + (IF x \in b THEN 1 ELSE 0)
    BY DEF Tokens!Move, Held
  <2>1. queue'[x] = q[x] + (IF x \in b THEN 1 ELSE 0) /\ q[x] \in Nat
    BY <1>1
  <2>2. countdown[x] \in Nat /\ graph[x].preds \in Nat /\ queue[x] \in Nat
    BY NodeFacts DEF TypeOK
  <2>3. CASE x = e
    BY <1>2, <1>3, <2>1, <2>3 DEF TypeOK
  <2>4. CASE x # e
    <3>1. countdown'[x] = countdown[x] /\ q[x] = queue[x]
      BY <1>2, <2>4 DEF TypeOK
    <3>2. Held[x] = queue[x] + graph[x].preds - countdown[x]
      BY DEF Held
    <3> QED  BY <2>1, <2>2, <2>4, <3>1, <3>2
  <2> QED  BY <2>3, <2>4
<1>5. Held[e] >= Tokens!Need(e)
  BY <1>3
<1>6. CASE b \in Tokens!Targets(e)
  BY <1>4, <1>5, <1>6 DEF Tokens!Next, Tokens!Fire
<1>7. CASE kind(e) = "arbiter" /\ b = {}
  BY <1>4, <1>5, <1>7 DEF Tokens!Next, Tokens!Withdraw, kind
<1> QED  BY <1>6, <1>7, ChecksAreTargets

\* Steps that execute nothing move no token.
LEMMA TokensKept ==
    ASSUME TypeOK, Bookkeeping, UNCHANGED graph,
           \A x \in Event : queue'[x] - countdown'[x] = queue[x] - countdown[x],
           TypeOK'
    PROVE  UNCHANGED <<graph, Held>>
<1> SUFFICES ASSUME NEW x \in Event
             PROVE  queue'[x] + graph'[x].preds - countdown'[x]
                      = queue[x] + graph[x].preds - countdown[x]
  BY DEF Held
<1>1. /\ countdown[x] \in Nat /\ graph[x].preds \in Nat /\ queue[x] \in Nat
      /\ countdown'[x] \in Nat /\ queue'[x] \in Nat
  BY NodeFacts DEF TypeOK
<1> QED  BY <1>1

LEMMA StepTokens ==
    ASSUME Inv, Inv', [Next]_vars PROVE [Tokens!Next]_<<graph, Held>>
<1> USE DEF Inv
<1>h. \A e \in Event : Held[e] = queue[e] + graph[e].preds - countdown[e]
  BY DEF Held
<1>t. \A e \in Event : queue[e] \in Nat /\ graph[e].preds \in Nat /\ countdown[e] \in Nat
  BY NodeFacts DEF TypeOK
<1>1. CASE UNCHANGED vars
  BY <1>1, TokensKept DEF vars
<1>2. CASE Immediate
  <2>1. CASE Halt
    BY <1>2, <2>1, TokensKept DEF Immediate, Running, Halt
  <2>2. CASE ~Halt
    <3> DEFINE e == Head(fifo)
    <3>1. execute(e, queue, subscribed, data) /\ fifo # <<>> /\ UNCHANGED graph
      BY <1>2, <2>2 DEF Immediate, Running
    <3>2. e \in Event /\ e \in Unblocked /\ e \in Waiting
      BY <3>1 DEF TypeOK, Unblocked, Waiting
    <3> HIDE DEF e
    <3>3. countdown[e] = 0 /\ kind(e) # "null"
      BY <3>2 DEF Bookkeeping, Communication, Guarded
    <3>4. graph[e].preds # 0
      BY <3>2, <3>3, GraphFacts
    <3>5. Held[e] = queue[e] + Tokens!Need(e)
      BY <1>h, <1>t, <3>2, <3>3, <3>4 DEF Tokens!Need
    <3>6. queue \in [Event -> Nat]
      BY DEF TypeOK
    <3> QED  BY <3>1, <3>2, <3>5, <3>6, ExecuteFires
  <2> QED  BY <2>1, <2>2
<1>3. ASSUME NEW e \in Event, Arrive(e)
      PROVE  UNCHANGED <<graph, Held>>
  <2>1. \A x \in Event : queue'[x] - countdown'[x] = queue[x] - countdown[x]
    BY <1>3, <1>t DEF Arrive, Dequeued, TypeOK
  <2> QED  BY <1>3, <2>1, TokensKept DEF Arrive, Dequeue, Running
<1>4. ASSUME NEW e \in Event, Block(e)
      PROVE  UNCHANGED <<graph, Held>>
  <2>1. kind(e) # "null" /\ UNCHANGED graph
    BY <1>4, BlockFacts DEF Communication, Guarded
  <2>2. countdown[e] = 1 /\ queue[e] > 0
    BY <1>4, <2>1, CompleteFacts DEF Block
  <2>3. queue' = Dequeued(e) /\ countdown' = [countdown EXCEPT ![e] = 0]
    BY <1>4 DEF Block
  <2>4. \A x \in Event : queue'[x] - countdown'[x] = queue[x] - countdown[x]
    BY <2>2, <2>3, <1>t DEF Dequeued, TypeOK
  <2> QED  BY <2>1, <2>4, TokensKept
<1>5. ASSUME NEW e \in Event, Proceed(e)
      PROVE  Tokens!Next
  <2>1. /\ execute(e, Dequeued(e), subscribed \ {e}, Offered(e)) /\ Complete(e)
        /\ UNCHANGED graph /\ queue[e] > 0
    BY <1>5, CompleteFacts DEF Proceed
  <2>2. Dequeued(e) \in [Event -> Nat]
    BY <2>1, DequeuedType
  <2>3. /\ Dequeued(e)[e] = queue[e] - 1
        /\ \A x \in Event : x # e => Dequeued(e)[x] = queue[x]
    BY DEF Dequeued, TypeOK
  <2>4. CASE countdown[e] = 1
    <3>1. graph[e].preds # 0
      BY <1>t, <2>4 DEF Bookkeeping
    <3>2. Held[e] = Dequeued(e)[e] + Tokens!Need(e)
      BY <1>h, <1>t, <2>3, <2>4, <3>1 DEF Tokens!Need
    <3> QED  BY <2>1, <2>2, <2>3, <3>2, ExecuteFires
  <2>5. CASE countdown[e] = 0 /\ graph[e].preds = 0
    <3>1. Held[e] = Dequeued(e)[e] + Tokens!Need(e)
      BY <1>h, <1>t, <2>3, <2>5 DEF Tokens!Need
    <3> QED  BY <2>1, <2>2, <2>3, <3>1, ExecuteFires
  <2> QED  BY <2>1, <2>4, <2>5 DEF Complete
<1>6. ASSUME NEW e \in Event, Refuse(e)
      PROVE  UNCHANGED <<graph, Held>>
  BY <1>6, TokensKept DEF Refuse, Complete, Dequeue, Running, Halt
<1>7. ASSUME NEW e \in Event, Ignore(e) \/ Recheck(e)
      PROVE  UNCHANGED <<graph, Held>>
  BY <1>7, TokensKept DEF Ignore, Recheck, Notified, Running, Halt
<1> QED  BY <1>1, <1>2, <1>3, <1>4, <1>5, <1>6, <1>7 DEF Next

LEMMA InitTokens == Init => Tokens!Init
<1> SUFFICES ASSUME Init, Inv PROVE Tokens!Init
  BY InitInv
<1>1. \A e \in Event : queue[e] \in Nat /\ graph[e].preds \in Nat
  BY NodeFacts DEF Inv, TypeOK
<1>2. \A e \in Event : queue[e] + graph[e].preds - countdown[e] = (IF e = 0 THEN 1 ELSE 0)
  BY <1>1 DEF Init
<1> QED  BY <1>2 DEF Tokens!Init, Held

\* For every program: control follows the event graph.  An event executes
\* once for each complete set of arrivals and passes control on exactly as
\* its kind says; only an arbiter can lose it.
THEOREM PlaysTokenGame == Spec => ImplementsTokens
<1>1. Init /\ [][Next]_vars /\ []Inv => Tokens!Init /\ [][Tokens!Next]_<<graph, Held>>
  BY InitTokens, StepTokens, PTL
<1> QED  BY <1>1, InvHolds, PTL DEF Spec, ImplementsTokens, Tokens!Spec

-----------------------------------------------------------------------------
(* Joins *)

Structured(g) == \E T \in SUBSET SUBSET (Event \X Event) : Threads(g, T)

\* Where the tokens of M on the edges to e come from.
Given(M, e) == {x \in Event : <<x, e>> \in M}

\* The tokens come from edges: there is a set of marked edges, at most one in
\* each thread, and an event holds as many tokens as marked edges lead to it.
Marking(T, M) ==
    /\ M \subseteq Edges(graph)
    /\ \A e \in Event : e # 0 => Held[e] = Cardinality(Given(M, e))
    /\ \A t \in T : \A v, w \in M : v \in t /\ w \in t => v = w
    /\ Held[0] = 0 \/ (Held[0] = 1 /\ M = {})

TokensMarked ==
    \E T \in SUBSET SUBSET (Event \X Event), M \in SUBSET (Event \X Event) :
        Threads(graph, T) /\ Marking(T, M)

LEMMA EdgeFacts ==
    ASSUME TypeOK
    PROVE  /\ Edges(graph) \subseteq Event \X Event
           /\ \A x, y \in Event : <<x, y>> \in Edges(graph) <=>
                    \E i \in DOMAIN graph[x].succ : y = graph[x].succ[i]
  <1>1. \A x \in Event : \A i \in DOMAIN graph[x].succ : graph[x].succ[i] \in Event
    BY NodeFacts
  <1> QED  BY <1>1 DEF Edges

LEMMA EventsFinite == IsFiniteSet(Event) /\ \A S \in SUBSET Event : IsFiniteSet(S)
  <1>1. MaxEvent \in Nat
    BY GraphAssumption
  <1>2. IsFiniteSet(Event)
    BY <1>1, FS_Interval DEF Event
  <1> QED  BY <1>2, FS_Subset

\* No event holds more tokens than it waits for.
LEMMA MarkingFits ==
    ASSUME TypeOK, NEW T, NEW M, Threads(graph, T), Marking(T, M),
           NEW e \in Event, graph[e].preds > 0
    PROVE  Cardinality(Given(M, e)) <= graph[e].preds
  <1>1. Given(M, e) \subseteq Leading(graph, e)
    BY DEF Given, Leading, Marking
  <1>2. IsFiniteSet(Leading(graph, e)) /\ IsFiniteSet(Given(M, e))
    BY EventsFinite DEF Leading, Given
  <1>3. /\ Cardinality(Given(M, e)) \in Nat /\ Cardinality(Leading(graph, e)) \in Nat
        /\ graph[e].preds \in Nat
    BY <1>2, FS_CardinalityType, NodeFacts
  <1>4. CASE Joins(graph, e)
    <2>1. Cardinality(Given(M, e)) <= Cardinality(Leading(graph, e))
      BY <1>1, <1>2, FS_Subset
    <2> QED  BY <1>3, <1>4, <2>1 DEF Joins
  <1>5. CASE ~Joins(graph, e)
    <2>1. PICK t \in T : \A x \in Leading(graph, e) : <<x, e>> \in t
      BY <1>5 DEF Threads
    <2>2. ASSUME NEW x \in Given(M, e), NEW y \in Given(M, e) PROVE x = y
      <3>1. <<x, e>> \in t /\ <<y, e>> \in t /\ <<x, e>> \in M /\ <<y, e>> \in M
        BY <1>1, <2>1 DEF Given
      <3> QED  BY <3>1 DEF Marking
    <2>3. Cardinality(Given(M, e)) <= 1
      <3>1. CASE Given(M, e) = {}
        BY <3>1, FS_EmptySet
      <3>2. ASSUME NEW x \in Given(M, e) PROVE Cardinality(Given(M, e)) = 1
        <4>1. Given(M, e) = {x}
          BY <2>2
        <4> QED  BY <4>1, FS_Singleton
      <3> QED  BY <3>1, <3>2
    <2> QED  BY <1>3, <2>3
  <1> QED  BY <1>4, <1>5

\* An event that can occur holds just the tokens it needs, and one of them is
\* in each thread that leads on from it.
LEMMA MarkingTaken ==
    ASSUME TypeOK, NEW T, NEW M, Threads(graph, T), Marking(T, M),
           NEW e \in Event, e # 0, Held[e] >= Tokens!Need(e)
    PROVE  /\ Held[e] = Tokens!Need(e) /\ Tokens!Need(e) \in Nat /\ M # {}
           /\ \A t \in T : \A v \in t : v[1] = e => \E x \in Given(M, e) : <<x, e>> \in t
  <1>1. Given(M, e) \subseteq Leading(graph, e)
    BY DEF Given, Leading, Marking
  <1>2. IsFiniteSet(Leading(graph, e)) /\ IsFiniteSet(Given(M, e))
    BY EventsFinite DEF Leading, Given
  <1>3. Held[e] = Cardinality(Given(M, e)) /\ graph[e].preds \in Nat
    BY NodeFacts DEF Marking
  <1>4. /\ Cardinality(Given(M, e)) \in Nat /\ Cardinality(Leading(graph, e)) \in Nat
        /\ Cardinality({}) = 0
    BY <1>2, FS_CardinalityType, FS_EmptySet
  <1>5. graph[e].preds > 0
    <2>1. CASE graph[e].preds = 0
      <3>1. Given(M, e) = {} /\ Tokens!Need(e) = 1
        BY <1>1, <2>1 DEF Threads, Tokens!Need
      <3> QED  BY <1>3, <1>4, <3>1
    <2> QED  BY <1>3, <2>1
  <1>6. Cardinality(Given(M, e)) <= graph[e].preds
    BY <1>5, MarkingFits
  <1>7. Tokens!Need(e) = graph[e].preds /\ Cardinality(Given(M, e)) = graph[e].preds
    BY <1>3, <1>4, <1>5, <1>6 DEF Tokens!Need
  <1>8. PICK x \in Event : x \in Given(M, e)
    <2>1. Given(M, e) # {}
      BY <1>4, <1>5, <1>7
    <2> QED  BY <2>1 DEF Given
  <1>9. ASSUME NEW t \in T, NEW v \in t, v[1] = e
        PROVE  \E y \in Given(M, e) : <<y, e>> \in t
    <2>1. \/ \A y \in Leading(graph, e) : <<y, e>> \in t
          \/ Joins(graph, e) /\ \E y \in Leading(graph, e) : <<y, e>> \in t
      BY <1>5, <1>9 DEF Threads, Thread
    <2>2. CASE \A y \in Leading(graph, e) : <<y, e>> \in t
      BY <1>1, <1>8, <2>2
    <2>3. CASE Joins(graph, e) /\ \E y \in Leading(graph, e) : <<y, e>> \in t
      <3>1. Cardinality(Given(M, e)) <= Cardinality(Leading(graph, e))
        BY <1>1, <1>2, FS_Subset
      <3>2. Cardinality(Given(M, e)) = Cardinality(Leading(graph, e))
        BY <1>4, <1>7, <2>3, <3>1 DEF Joins
      <3>3. Given(M, e) = Leading(graph, e)
        BY <1>1, <1>2, <3>2, FS_Subset
      <3> QED  BY <2>3, <3>3
    <2> QED  BY <2>1, <2>2, <2>3
  <1> QED  BY <1>3, <1>7, <1>8, <1>9 DEF Given

\* What an event that occurs passes on is a marking again.
LEMMA MarkingMoves ==
    ASSUME TypeOK, NEW T, NEW M, Threads(graph, T), Marking(T, M),
           NEW e \in Event, NEW to, to \in Tokens!Targets(e) \/ to = {},
           Held[e] >= Tokens!Need(e), Tokens!Move(e, to), UNCHANGED graph
    PROVE  \E N \in SUBSET (Event \X Event) : Marking(T, N)'
  <1> DEFINE Old == {w \in M : w[2] # e}
             New == {<<e, y>> : y \in to}
             N   == Old \cup New
  <1>1. to \subseteq Event /\ New \subseteq Edges(graph)
    <2>1. ASSUME NEW y \in to PROVE y \in Event /\ <<e, y>> \in Edges(graph)
      <3>1. PICK i \in DOMAIN graph[e].succ : y = graph[e].succ[i]
        BY <2>1 DEF Tokens!Targets
      <3>2. y \in Event
        BY <3>1, NodeFacts
      <3> QED  BY <3>1, <3>2, EdgeFacts
    <2> QED  BY <2>1
  <1>2. M \subseteq Edges(graph) /\ Edges(graph) \subseteq Event \X Event
    BY EdgeFacts DEF Marking
  <1>3. /\ \A x \in Event : x # 0 => Held[x] = Cardinality(Given(M, x))
        /\ \A t \in T : \A v, w \in M : v \in t /\ w \in t => v = w
        /\ Held[0] = 0 \/ (Held[0] = 1 /\ M = {})
    BY DEF Marking
  <1>4. 0 \in Event /\ graph[0].preds = 0 /\ 0 \notin to
    <2>1. 0 \in Event
      BY GraphAssumption DEF Event
    <2>2. Leading(graph, 0) = {} /\ graph[0].preds = 0
      BY <2>1 DEF Threads
    <2> QED  BY <1>1, <2>1, <2>2 DEF Leading
  <1>5. Held[e] = Tokens!Need(e) /\ Tokens!Need(e) \in Nat
    BY <1>3, <1>4, MarkingTaken DEF Tokens!Need
  <1>6. /\ e = 0 => M = {} /\ Held[0] = 1
        /\ e # 0 => M # {} /\ Held[0] = 0
    BY <1>3, <1>4, <1>5, MarkingTaken DEF Tokens!Need
  <1>7. ASSUME NEW t \in T, NEW v \in t, v[1] = e, e # 0
        PROVE  \E u \in M : u \in t /\ u[2] = e
    <2>1. PICK x \in Given(M, e) : <<x, e>> \in t
      BY <1>7, MarkingTaken
    <2> QED  BY <2>1 DEF Given
  <1>8. ASSUME NEW y \in to, y # e PROVE <<e, y>> \notin M
    <2>1. CASE e = 0
      BY <1>6, <2>1
    <2>2. CASE e # 0
      <3>1. PICK t \in T : <<e, y>> \in t
        BY <1>1 DEF Threads
      <3>2. PICK u \in M : u \in t /\ u[2] = e
        BY <1>7, <2>2, <3>1
      <3> QED  BY <1>3, <1>8, <3>1, <3>2
    <2> QED  BY <2>1, <2>2
  <1>9. ASSUME NEW t \in T, NEW v \in N, NEW w \in N, v \in t, w \in t
        PROVE  v = w
    <2>1. CASE v \in M /\ w \in M
      BY <1>3, <1>9, <2>1
    <2>2. ASSUME NEW p \in New, NEW q \in Old, p \in t, q \in t PROVE FALSE
      <3>1. p[1] = e /\ q \in M /\ q[2] # e
        BY <2>2
      <3>2. e # 0
        BY <1>6, <3>1
      <3>3. PICK u \in M : u \in t /\ u[2] = e
        BY <1>7, <2>2, <3>1, <3>2
      <3> QED  BY <1>3, <2>2, <3>1, <3>3
    <2>3. CASE v \in New /\ w \in New
      <3>1. PICK y \in to : v = <<e, y>>
        BY <2>3
      <3>2. PICK z \in to : w = <<e, z>>
        BY <2>3
      <3>3. CASE graph[e].kind \in {"select", "arbiter", "loop"}
        <4>1. y = z
          BY <3>3, <3>1, <3>2 DEF Tokens!Targets
        <4> QED  BY <4>1, <3>1, <3>2
      <3>4. CASE graph[e].kind \notin {"select", "arbiter", "loop"}
        BY <1>9, <3>1, <3>2, <3>4 DEF Threads, Thread
      <3> QED  BY <3>3, <3>4
    <2> QED  BY <1>9, <2>1, <2>2, <2>3
  <1>10. \A x \in Event : Held'[x] = Held[x] - (IF x = e THEN Tokens!Need(e) ELSE 0)
                                             + (IF x \in to THEN 1 ELSE 0)
    BY DEF Tokens!Move
  <1>11. ASSUME NEW x \in Event, x # 0
         PROVE  Held'[x] = Cardinality(Given(N, x))
    <2>1. IsFiniteSet(Given(M, x))
      BY EventsFinite DEF Given
    <2>2. Held[x] \in Nat /\ Held[x] = Cardinality(Given(M, x))
      BY <1>3, <1>11, <2>1, FS_CardinalityType
    <2>3. Cardinality({}) = 0 /\ Cardinality({e}) = 1
      BY FS_EmptySet, FS_Singleton
    <2>4. CASE x = e
      <3>1. Given(N, x) = IF e \in to THEN {e} ELSE {}
        BY <2>4, <1>1 DEF Given
      <3>2. Cardinality(Given(N, x)) = IF x \in to THEN 1 ELSE 0
        BY <2>3, <2>4, <3>1
      <3>3. Held'[x] = Held[x] - Tokens!Need(x) + (IF x \in to THEN 1 ELSE 0)
        BY <1>10, <2>4
      <3> QED  BY <1>5, <2>2, <2>4, <3>2, <3>3
    <2>5. CASE x # e /\ x \in to
      <3>1. Given(N, x) = Given(M, x) \cup {e} /\ e \notin Given(M, x)
        BY <2>5, <1>8 DEF Given
      <3>2. Cardinality(Given(N, x)) = Cardinality(Given(M, x)) + 1
        BY <2>1, <3>1, FS_AddElement
      <3> QED  BY <1>10, <2>2, <2>5, <3>2
    <2>6. CASE x # e /\ x \notin to
      <3>1. Given(N, x) = Given(M, x)
        BY <2>6 DEF Given
      <3> QED  BY <1>10, <2>2, <2>6, <3>1
    <2> QED  BY <2>4, <2>5, <2>6
  <1>12. Held'[0] = 0
    BY <1>4, <1>5, <1>6, <1>10
  <1>13. N \subseteq Edges(graph)
    BY <1>1, <1>2
  <1>14. N \in SUBSET (Event \X Event)
    BY <1>2, <1>13
  <1> HIDE DEF N
  <1>15. Marking(T, N)'
    BY <1>9, <1>11, <1>12, <1>13 DEF Marking
  <1> QED  BY <1>14, <1>15

LEMMA InitMarked ==
    ASSUME Init, Inv, Structured(graph) PROVE TokensMarked
  <1>1. PICK T \in SUBSET SUBSET (Event \X Event) : Threads(graph, T)
    BY DEF Structured
  <1>2. Held = [e \in Event |-> IF e = 0 THEN 1 ELSE 0]
    BY InitTokens DEF Tokens!Init
  <1>3. ASSUME NEW e \in Event PROVE Cardinality(Given({}, e)) = 0
    BY FS_EmptySet DEF Given
  <1>4. 0 \in Event
    BY GraphAssumption DEF Event
  <1>5. Marking(T, {})
    BY <1>2, <1>3, <1>4 DEF Marking
  <1>6. {} \in SUBSET (Event \X Event)
    OBVIOUS
  <1> QED  BY <1>1, <1>5, <1>6 DEF TokensMarked

LEMMA StepMarked ==
    ASSUME Inv, TokensMarked, [Tokens!Next]_<<graph, Held>> PROVE TokensMarked'
  <1>1. PICK T \in SUBSET SUBSET (Event \X Event), M \in SUBSET (Event \X Event) :
            Threads(graph, T) /\ Marking(T, M)
    BY DEF TokensMarked
  <1>2. UNCHANGED graph /\ Threads(graph, T)'
    <2>1. UNCHANGED graph
      BY DEF Tokens!Next
    <2> QED  BY <1>1, <2>1
  <1>3. CASE UNCHANGED <<graph, Held>>
    <2>1. Marking(T, M)'
      BY <1>1, <1>3 DEF Marking, Edges
    <2> QED  BY <1>2, <2>1 DEF TokensMarked
  <1>4. CASE Tokens!Next
    <2>1. PICK e \in Event : Tokens!Fire(e) \/ Tokens!Withdraw(e)
      BY <1>4 DEF Tokens!Next
    <2>2. PICK to : /\ to \in Tokens!Targets(e) \/ to = {}
                    /\ Held[e] >= Tokens!Need(e) /\ Tokens!Move(e, to)
      BY <2>1 DEF Tokens!Fire, Tokens!Withdraw
    <2>3. PICK N \in SUBSET (Event \X Event) : Marking(T, N)'
      BY <1>1, <1>2, <2>2, MarkingMoves DEF Inv
    <2> QED  BY <1>2, <2>3 DEF TokensMarked
  <1> QED  BY <1>3, <1>4

LEMMA MarkedSuffices ==
    ASSUME Inv, TokensMarked PROVE JoinsNeverOverrun
  <1>1. PICK T \in SUBSET SUBSET (Event \X Event), M \in SUBSET (Event \X Event) :
            Threads(graph, T) /\ Marking(T, M)
    BY DEF TokensMarked
  <1>2. ASSUME NEW e \in Event, graph[e].preds > 0
        PROVE  queue[e] <= countdown[e]
    <2>1. Held[e] <= graph[e].preds
      <3>1. e # 0
        BY <1>1, <1>2 DEF Threads
      <3> QED  BY <1>1, <1>2, <3>1, MarkingFits DEF Inv, Marking
    <2>2. queue[e] \in Nat /\ graph[e].preds \in Nat /\ countdown[e] \in Nat
      BY NodeFacts DEF Inv, TypeOK
    <2> QED  BY <2>1, <2>2 DEF Held
  <1> QED  BY <1>2 DEF JoinsNeverOverrun

\* No event of a structured program is entered again before it has executed,
\* whatever its data and delays: the assertion on countdown in
\* EventNode::first_check() holds.
THEOREM JoinsSound ==
    ASSUME \A g \in Graphs : Structured(g)
    PROVE  Spec => []JoinsNeverOverrun
  <1>1. Init /\ Inv => TokensMarked
    BY InitMarked DEF Init
  <1>2. Inv /\ Inv' /\ TokensMarked /\ [Next]_vars => TokensMarked'
    BY StepTokens, StepMarked
  <1>3. Inv /\ TokensMarked => JoinsNeverOverrun
    BY MarkedSuffices
  <1> QED  BY <1>1, <1>2, <1>3, InvHolds, PTL DEF Spec
=============================================================================
