---------------------------- MODULE PrsimChannel ----------------------------
(***************************************************************************)
(* The channels of prsim: sources, sinks, expects and logs that the user   *)
(* attaches to the nodes of a channel instance, and that speak its         *)
(* handshake with the circuit, or with each other.                         *)
(*                                                                         *)
(* A channel keeps no state of the handshake: it counts the active and the *)
(* X data rails, and reacts to every change of one of its nodes by looking *)
(* at the others.  What it schedules goes through flush_channel_events,    *)
(* which takes an event that is pending already for an instability.        *)
(*                                                                         *)
(* Here the two ends of one channel instance are attached to it, by one    *)
(* channel object or by two, and nothing else drives its nodes.  Delays    *)
(* are abstracted to the order of the events: any pending event may be the *)
(* next, except that the request of bundled data comes after the data it   *)
(* was scheduled with.  That order is not computed here: set_bd_data_req   *)
(* gives the request the greatest delay of the data and enqueues it last,  *)
(* for all timing modes of a channel but GLOBAL, in which the data have    *)
(* no delay of their own and the order is arbitrary (setup.global).        *)
(***************************************************************************)
EXTENDS Integers, SequencesExt

CONSTANT
    Setups      \* the channels and the users to be looked at, see SetupOK

LOGIC_LOW == 0
LOGIC_HIGH == 1
LOGIC_OTHER == 2
Value == {LOGIC_LOW, LOGIC_HIGH, LOGIC_OTHER}

\* An expected value that may be anything.
DontCare == -1

\* A channel type.  Of LEDR channels ack_active is the initial value of the
\* data rail and valid_sense that of the repeat rail, which is the "valid"
\* node; of BD_2P channels valid_sense is that of the request.
Type == {"1ofN", "LEDR", "BD_2P", "BD_4P"}
SetupOK(u) ==
    /\ u.type \in Type
    /\ u.bundles \in Nat \ {0} /\ u.radix \in Nat \ {0}
    /\ \A b \in 0 .. u.bundles - 1 : u.radix ^ b > 0      \* the weights of the digits
    /\ u.ack \in BOOLEAN            \* has an acknowledge
    /\ u.valid \in BOOLEAN          \* has a validity, request or repeat rail
    /\ u.ack_active \in BOOLEAN /\ u.ack_init \in BOOLEAN
    /\ u.valid_sense \in BOOLEAN
    /\ u.active_low \in BOOLEAN     \* get_data_sense
    /\ u.stream \in Seq(Nat)        \* what the source is given to send
    /\ u.expected \in Seq(Nat \cup {DontCare})
    /\ u.loop \in BOOLEAN           \* source and expect start over at the end
    /\ u.split \in BOOLEAN          \* two channel objects, or one for all
    /\ u.stop_on_empty \in BOOLEAN
    /\ u.dequeue \in BOOLEAN        \* dequeue_unstable_events()
    /\ u.global \in BOOLEAN         \* timing_mode is CHANNEL_TIMING_GLOBAL
    /\ u.careful \in BOOLEAN        \* the user, see below
    /\ u.type # "1ofN" => u.bundles = 1 /\ u.valid
    /\ u.type = "LEDR" => u.radix = 1
    /\ u.type # "LEDR" => u.ack
    /\ u.split \/ u.expected = <<>>
    \* set_timing warns of it: "the request signal may fire prematurely"
    /\ u.careful /\ u.type \in {"BD_2P", "BD_4P"} => ~u.global

ASSUME SetupsAssumption == \A u \in Setups : SetupOK(u)

VARIABLES
    setup,      \* which of the Setups this is; never changes
    val,        \* the values of the nodes
    pending,    \* the event pending on each node
    chan,       \* channel_pool
    started,    \* the user has taken the channels out of reset
    dead        \* an assertion has ended the program

vars == <<setup, val, pending, chan, started, dead>>

-----------------------------------------------------------------------------
(* Nodes and data rails.                                                     *)

Ack == 0
Valid == -1
Rails == 1..(setup.bundles * setup.radix)
Nodes == Rails \cup {n \in {Ack, Valid} : IF n = Ack THEN setup.ack ELSE setup.valid}

bundled == setup.type \in {"BD_2P", "BD_4P"}
four_phase == setup.type \in {"1ofN", "BD_4P"}

Logic(b) == IF b THEN LOGIC_HIGH ELSE LOGIC_LOW
invert_value(v) == IF v = LOGIC_OTHER THEN v ELSE 1 - v

Active == Logic(~setup.active_low)
Neutral == Logic(setup.active_low)

\* Rail r stands for the digit (r - 1) % radix of bundle (r - 1) \div radix,
\* or for the bit r - 1 of bundled data.
Bundle(r) == (r - 1) \div setup.radix
Digit(r) == (r - 1) % setup.radix

\* set_all_data_rails: whether value v has rail r active.
Encodes(v, r) == IF setup.type = "1ofN"
                 THEN (v \div setup.radix ^ Bundle(r)) % setup.radix = Digit(r)
                 ELSE (v \div 2 ^ (r - 1)) % 2 = 1

\* The assertions of data_rails_value, and its result.
readable(w) ==
    /\ setup.type # "LEDR" => \A r \in Rails : w[r] # LOGIC_OTHER
    /\ setup.type = "1ofN" => \A r \in Rails :
          Cardinality({q \in Rails : Bundle(q) = Bundle(r) /\ w[q] = Active}) = 1

data_rails_value(w) ==
    LET on == {r \in Rails : w[r] = Active}
    IN  IF setup.type = "1ofN"
        THEN MapThenSumSet(LAMBDA r : Digit(r) * setup.radix ^ Bundle(r), on)
        ELSE MapThenSumSet(LAMBDA r : 2 ^ (r - 1), on)

\* current_ledr_parity, current_bd2p_parity and the parity of the empty channel.
ParityNodes == (Nodes \cap {Ack, Valid}) \cup (IF setup.type = "LEDR" THEN {1} ELSE {})
ParityKnown(w) == \A n \in ParityNodes : w[n] # LOGIC_OTHER
Parity(w) == Cardinality({n \in ParityNodes : w[n] = LOGIC_HIGH}) % 2
EmptyParity ==
    Cardinality({n \in {Ack, Valid, 1} :
        CASE n = Ack -> setup.ack_init
          [] n = Valid -> setup.valid_sense
          [] n = 1 -> setup.type = "LEDR" /\ setup.ack_active}) % 2
IsEmpty(w) == ParityKnown(w) /\ Parity(w) = EmptyParity
IsFull(w) == ParityKnown(w) /\ Parity(w) # EmptyParity

ack_active(w) == w[Ack] = Logic(setup.ack_active)
valid_active(w) == w[Valid] = Logic(setup.valid_sense)

-----------------------------------------------------------------------------
(* The events a channel asks for: a function from some of its nodes to the   *)
(* value and to the rails whose events come first.                           *)

NoEvent == [val |-> 3, after |-> {}]
NoEvents == <<>>

\* The events f and, for other nodes, g.
Also(f, g) == [n \in DOMAIN f \cup DOMAIN g |-> IF n \in DOMAIN f THEN f[n] ELSE g[n]]

Event(n, v) == [m \in {n} |-> [val |-> v, after |-> {}]]
AllRails(v) == [r \in Rails |-> [val |-> v, after |-> {}]]

AckEvent(active) == Event(Ack, Logic(active = setup.ack_active))
ValidEvent(active) == Event(Valid, Logic(active = setup.valid_sense))
Toggle(n, w) == Event(n, invert_value(w[n]))

X_all_data_rails ==
    Also(AllRails(LOGIC_OTHER),
         IF setup.type = "LEDR" THEN Event(Valid, LOGIC_OTHER) ELSE NoEvents)

\* Only delay-insensitive rails return to neutral.
reset_all_data_rails == IF setup.type = "1ofN" THEN AllRails(Neutral) ELSE NoEvents

-----------------------------------------------------------------------------
(* The sequence of values of a channel object.                               *)

have_value(c) == c.index < Len(c.values)
current_value(c) == c.values[c.index + 1]

advance_value(c) ==
    IF c.index + 1 < Len(c.values) THEN [c EXCEPT !.index = @ + 1]
    ELSE IF c.loop /\ (c.sourcing \/ c.expecting) THEN [c EXCEPT !.index = 0]
    ELSE [c EXCEPT !.index = 0, !.values = <<>>]

\* set_all_data_rails.  An LEDR channel changes its data rail or, for the same
\* value again, its repeat rail.
set_all_data_rails(c, w) ==
    IF ~have_value(c) THEN reset_all_data_rails
    ELSE LET Rail(r) == IF Encodes(current_value(c), r) THEN Active ELSE Neutral
         IN  IF setup.type # "LEDR"
             THEN [r \in Rails |-> [val |-> Rail(r), after |-> {}]]
             ELSE CASE w[1] = LOGIC_OTHER -> NoEvents
                    [] w[1] = Rail(1) -> Toggle(Valid, w)
                    [] w[1] = 1 - Rail(1) -> Event(1, Rail(1))

\* What a source becomes and asks for, as a pair.
Reply(c, evs) == [chan |-> c, evs |-> evs]
Silent(c) == Reply(c, NoEvents)

\* The next value; a source that has none left ceases to be one.
Send(c, w) ==
    Reply(advance_value([c EXCEPT !.sourcing = have_value(c),
                                  !.values = IF have_value(c) THEN @ ELSE <<>>]),
          set_all_data_rails(c, w))

\* Mutant of Before: the request does not wait for the data.
BeforeNone(evs, w) == {}

\* The rails that change before the request does.
Before(evs, w) == {r \in Rails : ~setup.global /\ evs[r].val # w[r]}

\* The next value and, behind it, the request.
set_bd_data_req(c, w) ==
    LET send == Send(c, w)
        reqv == IF setup.type = "BD_4P" THEN Logic(setup.valid_sense)
                ELSE IF EmptyParity = 0 THEN invert_value(w[Ack]) ELSE w[Ack]
    IN  Reply(send.chan,
              Also(send.evs, [n \in {Valid} |-> [val |-> reqv, after |-> Before(send.evs, w)]]))

-----------------------------------------------------------------------------
(* process_data: what is on the rails is logged and compared.                *)

data_is_valid(c) == c.x = 0 /\ (setup.type = "1ofN" => c.counter = setup.bundles)

process_data(c, w) ==
    LET v == data_is_valid(c)
        sampled == v \/ bundled
        logs == c.logging /\ ~c.ignored
        checks == c.expecting /\ ~c.ignored /\ have_value(c)
        picky == checks /\ current_value(c) # DontCare
        next == IF checks /\ sampled THEN advance_value(c) ELSE c
        spent == c.expecting /\ ~c.ignored /\ ~have_value(c)
        empties == IF four_phase THEN spent ELSE checks /\ ~have_value(next)
    IN  [next EXCEPT
            !.log = IF ~logs THEN @
                    ELSE Append(@, IF sampled /\ readable(w) THEN data_rails_value(w)
                                   ELSE DontCare),
            !.mismatch = @ \/ (picky /\ (v /\ readable(w)
                                         => data_rails_value(w) # current_value(c))),
            !.abort = @ \/ (~readable(w) /\ ((logs /\ sampled) \/ (picky /\ v))),
            !.expecting = @ /\ ~spent,
            !.values = IF spent THEN <<>> ELSE @,
            !.stopped = @ \/ (empties /\ c.sinking /\ c.stop_on_empty)]

-----------------------------------------------------------------------------
(* process_node: node n has changed from prev, the nodes are w now.          *)

\* How the number of nodes at v changes.
Change(v, prev, next) == (IF next = v THEN 1 ELSE 0) - (IF prev = v THEN 1 ELSE 0)

\* update_bd_data_counter; for LEDR only the Xs are counted, the repeat rail's too.
Counted(c, n, prev, w) ==
    IF n = Ack \/ (n = Valid /\ setup.type # "LEDR") THEN c
    ELSE [c EXCEPT !.x = @ + Change(LOGIC_OTHER, prev, w[n]),
                   !.counter = IF setup.type = "LEDR" THEN @
                               ELSE @ + Change(Active, prev, w[n])]

\* The assertions of summarize_status.
status_fails(c, w) ==
    /\ c.x = 0
    /\ \/ setup.type = "1ofN" /\ c.counter = setup.bundles /\ ~readable(w)
       \/ setup.type = "LEDR" /\ ~ParityKnown(w)

\* A source that is not stopped sees a change of the acknowledge.
SourceAtAck(c, w) ==
    CASE setup.type = "1ofN" ->
            IF w[Ack] = LOGIC_OTHER THEN Reply(c, X_all_data_rails)
            ELSE IF ack_active(w) THEN Reply(c, reset_all_data_rails)
            ELSE Send(c, w)
      [] setup.type = "LEDR" ->
            IF ~ParityKnown(w) THEN Reply(c, X_all_data_rails)
            ELSE IF IsEmpty(w) THEN Send(c, w)
            ELSE Silent(c)
      [] setup.type = "BD_2P" ->
            IF w[Ack] = LOGIC_OTHER
            THEN Reply(c, Also(X_all_data_rails, Event(Valid, LOGIC_OTHER)))
            ELSE IF ~IsFull(w) /\ have_value(c) THEN set_bd_data_req(c, w)
            ELSE Silent(c)
      [] setup.type = "BD_4P" ->
            IF w[Ack] = LOGIC_OTHER
            THEN Reply(c, Also(X_all_data_rails, Event(Valid, LOGIC_OTHER)))
            ELSE IF ack_active(w) THEN Reply(c, ValidEvent(FALSE))
            ELSE IF have_value(c) THEN set_bd_data_req(c, w)
            ELSE Silent(c)

\* A source sees a change of its own rails: the validity follows them, even
\* when the channel is stopped, and without an acknowledge the next value
\* follows at once.
SourceAtRail(c, w) ==
    CASE setup.type = "1ofN" /\ setup.valid ->
            Reply(c, IF c.x # 0 THEN Event(Valid, LOGIC_OTHER)
                     ELSE IF c.counter = 0 THEN ValidEvent(FALSE)
                     ELSE IF c.counter = setup.bundles THEN ValidEvent(TRUE)
                     ELSE NoEvents)
      [] setup.type = "LEDR" /\ ~setup.ack /\ ~c.stopped ->
            IF c.x = 0 THEN Send(c, w) ELSE Reply(c, X_all_data_rails)
      [] OTHER -> Silent(c)

\* Mutant of RailAck: the sink does not wait for all bundles.
RailAckEager(c) == AckEvent(c.counter # 0)

\* The answer to rails without an X: nothing while they are in between.
RailAck(c) == IF c.counter \in {0, setup.bundles} THEN AckEvent(c.counter # 0)
              ELSE NoEvents

\* A sink that is not stopped sees a change of node n.
SinkAtNode(c, n, w) ==
    CASE four_phase /\ setup.valid /\ n = Valid ->
            IF w[Valid] = LOGIC_OTHER THEN Event(Ack, LOGIC_OTHER)
            ELSE AckEvent(valid_active(w))
      [] setup.type = "1ofN" /\ ~setup.valid /\ n \in Rails ->
            IF c.x # 0
            THEN IF w[n] = LOGIC_OTHER /\ c.x = 1 THEN Event(Ack, LOGIC_OTHER) ELSE NoEvents
            ELSE RailAck(c)
      [] setup.type = "BD_2P" /\ n = Valid ->
            IF w[Valid] = LOGIC_OTHER THEN Event(Ack, LOGIC_OTHER) ELSE Toggle(Ack, w)
      [] setup.type = "LEDR" /\ setup.ack /\ n # Ack ->
            IF c.x # 0 THEN Event(Ack, LOGIC_OTHER) ELSE Toggle(Ack, w)
      [] OTHER -> NoEvents

\* A change of node n makes the channel look at its data.
Samples(c, n, w) ==
    CASE setup.type = "LEDR" -> n # Ack
      [] setup.type = "1ofN" /\ ~setup.valid ->
            n \in Rails /\ c.x = 0 /\ c.counter = setup.bundles
      [] setup.type = "BD_2P" -> n = Valid /\ IsFull(w)
      [] OTHER -> n = Valid /\ valid_active(w)

\* The channel looks at its data before it answers, except for LEDR: a sink
\* that stops at the last expected value has acknowledged it by then.
process_node(c0, n, prev, w) ==
    LET c == Counted(c0, n, prev, w)
        src == IF ~c.sourcing THEN Silent(c)
               ELSE IF n = Ack THEN IF c.stopped THEN Silent(c) ELSE SourceAtAck(c, w)
               ELSE IF n = Valid /\ setup.type # "LEDR" THEN Silent(c)
               ELSE SourceAtRail(c, w)
        read == IF Samples(c, n, w) THEN process_data(src.chan, w) ELSE src.chan
        stopped == IF setup.type = "LEDR" THEN c.stopped ELSE read.stopped
        asserts == /\ setup.type # "LEDR"
                   /\ n \in {Ack, Valid}
                   /\ status_fails(c, w)
    IN  Reply([read EXCEPT !.abort = @ \/ asserts],
              Also(IF c.sinking /\ ~stopped THEN SinkAtNode(c, n, w) ELSE NoEvents, src.evs))

-----------------------------------------------------------------------------
(* Reset and release.                                                        *)

\* reset: sources and sinks drive their nodes to the initial values and stop.
reset(c) ==
    LET src == CASE setup.type = "1ofN" -> reset_all_data_rails
                 [] setup.type = "LEDR" -> Also(Event(1, Logic(setup.ack_active)),
                                                Event(Valid, Logic(setup.valid_sense)))
                 [] setup.type = "BD_4P" -> Also(AllRails(Neutral), ValidEvent(FALSE))
                 [] setup.type = "BD_2P" -> Also(AllRails(Neutral),
                                                 Event(Valid, Logic(setup.valid_sense)))
    IN  Reply([c EXCEPT !.stopped = TRUE],
              Also(IF c.sourcing THEN src ELSE NoEvents,
                   IF c.sinking THEN Event(Ack, Logic(setup.ack_init)) ELSE NoEvents))

\* resume: a source infers from its nodes whether it is its turn.
ResumeSource(c, w) ==
    CASE setup.type = "1ofN" /\ w[Ack] # LOGIC_OTHER /\ ~ack_active(w) ->
            LET send == IF c.counter # setup.bundles \/ c.x # 0 THEN Send(c, w) ELSE Silent(c)
            IN  Reply(send.chan, Also(send.evs, SourceAtRail(c, w).evs))
      [] setup.type = "BD_4P" /\ w[Ack] = LOGIC_OTHER -> Reply(c, X_all_data_rails)
      [] setup.type = "LEDR" /\ ~setup.ack -> Send(c, w)
      [] OTHER -> SourceAtAck(c, w)

\* Mutant of ResumeSink: a 2-phase sink waits for the next change.
ResumeSinkLazy(c, w) ==
    IF four_phase THEN SinkAtNode(c, IF setup.valid THEN Valid ELSE 1, w) ELSE NoEvents

\* __resume_4p_sink and the like of 2-phase channels.
ResumeSink(c, w) ==
    CASE four_phase /\ ~setup.valid ->
            IF c.x # 0 THEN Event(Ack, LOGIC_OTHER) ELSE RailAck(c)
      [] four_phase /\ setup.valid -> SinkAtNode(c, Valid, w)
      [] ~four_phase /\ setup.ack ->
            IF IF setup.type = "LEDR" THEN ~ParityKnown(w) ELSE w[Valid] = LOGIC_OTHER
            THEN Event(Ack, LOGIC_OTHER)
            ELSE IF IsFull(w) THEN Toggle(Ack, w) ELSE NoEvents
      [] OTHER -> NoEvents

resume(c, w) ==
    LET src == IF c.sourcing THEN ResumeSource([c EXCEPT !.stopped = FALSE], w)
               ELSE Silent([c EXCEPT !.stopped = FALSE])
    IN  Reply([src.chan EXCEPT !.abort = @ \/ status_fails(c, w)],
              Also(src.evs, IF c.sinking THEN ResumeSink(c, w) ELSE NoEvents))

-----------------------------------------------------------------------------
(* The simulator around the channels.                                        *)

Channel(source, sink) ==
    [sourcing |-> source, sinking |-> sink,
     expecting |-> ~source,
     logging |-> setup.careful /\ ~setup.loop /\ (source => ~setup.split),
     stop_on_empty |-> setup.stop_on_empty,
     stopped |-> FALSE, ignored |-> FALSE,
     values |-> IF source THEN setup.stream ELSE setup.expected,
     index |-> 0, loop |-> setup.loop,
     counter |-> 0,
     x |-> Cardinality(Rails) + (IF setup.type = "LEDR" THEN 1 ELSE 0),
     log |-> <<>>, mismatch |-> FALSE, abort |-> FALSE]

Init ==
    /\ setup \in Setups
    /\ val = [n \in Nodes |-> LOGIC_OTHER]
    /\ pending = [n \in Nodes |-> NoEvent]
    /\ chan = IF setup.split THEN <<Channel(TRUE, FALSE), Channel(FALSE, setup.ack)>>
              ELSE <<Channel(TRUE, setup.ack)>>
    /\ started = FALSE
    /\ dead = FALSE

AtRest == \A n \in Nodes : pending[n] = NoEvent

\* flush_channel_events, with p pending: what is pending already becomes X, or
\* is overtaken; what would change nothing is left out.
flush_channel_events(p, evs, w) ==
    [n \in Nodes |->
        IF n \notin DOMAIN evs
        THEN [p[n] EXCEPT !.after = IF setup.dequeue THEN @ \ DOMAIN evs ELSE @]
        ELSE IF p[n] # NoEvent /\ ~setup.dequeue THEN [p[n] EXCEPT !.val = LOGIC_OTHER]
        ELSE IF evs[n].val # w[n] THEN evs[n] ELSE NoEvent]

\* What the channels ask for together: of two events for a node the first.
Asked(replies) == IF 2 \in DOMAIN replies THEN Also(replies[1].evs, replies[2].evs)
                  ELSE replies[1].evs

\* The channels reply, in the order of the pool, to what made the nodes w and
\* left the events p.
Respond(replies, p, w) ==
    \E rs \in {replies} :
        /\ chan' = [i \in DOMAIN chan |-> rs[i].chan]
        /\ pending' = flush_channel_events(p, Asked(rs), w)
        /\ dead' = \E i \in DOMAIN chan : rs[i].chan.abort

\* A pending event executes; an X on a node that is X is dropped.
Execute(n) ==
    LET w == [val EXCEPT ![n] = pending[n].val]
        p == [m \in Nodes |-> IF m = n THEN NoEvent
                              ELSE [pending[m] EXCEPT !.after = @ \ {n}]]
    IN  /\ ~dead
        /\ pending[n] # NoEvent
        /\ pending[n].after = {}
        /\ val' = w
        /\ IF w = val THEN pending' = p /\ UNCHANGED <<chan, dead>>
           ELSE Respond([i \in DOMAIN chan |-> process_node(chan[i], n, val[n], w)], p, w)
        /\ UNCHANGED <<setup, started>>

-----------------------------------------------------------------------------
(* The user.  A careful one resets the channels together before anything     *)
(* else, ignoring them if the reset itself looks like data, lets the events  *)
(* execute before the next step, stops channels at any time, and releases    *)
(* them only at rest.  Any other gives any command at any time.              *)

Careful(guard) == ~dead /\ (setup.careful => guard)
Groups == {DOMAIN chan} \cup {{i} : i \in DOMAIN chan}
Reset(I) ==
    /\ Careful(/\ I = DOMAIN chan /\ ~started /\ AtRest
               /\ setup.type = "LEDR" => \A i \in I : chan[i].ignored)
    /\ Respond([i \in DOMAIN chan |-> IF i \in I THEN reset(chan[i]) ELSE Silent(chan[i])],
               pending, val)
    /\ UNCHANGED <<setup, val, started>>

\* A BD_4P source takes it for its turn whenever the acknowledge is off, even if
\* the request is on.
Release(I) ==
    /\ Careful(/\ AtRest
               /\ \A n \in Nodes : val[n] # LOGIC_OTHER
               /\ \A i \in DOMAIN chan : ~chan[i].ignored
               /\ setup.type = "BD_4P" /\ valid_active(val) =>
                     \A i \in I : ~chan[i].sourcing)
    /\ Respond([i \in DOMAIN chan |-> IF i \in I THEN resume(chan[i], val)
                                      ELSE Silent(chan[i])], pending, val)
    /\ started' = TRUE
    /\ UNCHANGED <<setup, val>>

Stop(i) ==
    /\ ~dead
    /\ chan' = [chan EXCEPT ![i].stopped = TRUE]
    /\ UNCHANGED <<setup, val, pending, started, dead>>

\* channel-ignore-all and channel-heed-all.
IgnoreAll(b) ==
    /\ Careful(~started /\ AtRest)
    /\ chan' = [i \in DOMAIN chan |-> [chan[i] EXCEPT !.ignored = b]]
    /\ UNCHANGED <<setup, val, pending, started, dead>>

\* set_source_args and set_expect_args: the values are given again.
Refill(i) ==
    /\ Careful(FALSE)
    /\ chan' = [chan EXCEPT ![i].values = IF i = 1 THEN setup.stream ELSE setup.expected,
                            ![i].index = 0,
                            ![i].sourcing = (i = 1),
                            ![i].expecting = (i # 1)]
    /\ UNCHANGED <<setup, val, pending, started, dead>>

\* Mutant of Initialized: the counters are kept.
InitializedIndex(c) == [c EXCEPT !.index = 0, !.logging = FALSE]

\* channel::initialize: modes and values are kept.
Initialized(c) == [c EXCEPT !.counter = 0, !.x = Channel(FALSE, FALSE).x,
                            !.index = 0, !.logging = FALSE]

\* State::initialize: all nodes are X, no events are pending.
Initialize ==
    /\ Careful(FALSE)
    /\ val' = [n \in Nodes |-> LOGIC_OTHER]
    /\ pending' = [n \in Nodes |-> NoEvent]
    /\ chan' = [i \in DOMAIN chan |-> Initialized(chan[i])]
    /\ UNCHANGED <<setup, started, dead>>

User ==
    \/ \E I \in Groups : Reset(I)
    \/ \E I \in Groups : Release(I)
    \/ \E i \in DOMAIN chan : Stop(i)
    \/ \E b \in BOOLEAN : IgnoreAll(b)
    \/ \E i \in DOMAIN chan : Refill(i)
    \/ Initialize

Next == User \/ \E n \in Nodes : Execute(n)

\* The cycle command executes events for as long as there are any.
Spec == Init /\ [][Next]_vars /\ WF_vars(\E n \in Nodes : Execute(n))

-----------------------------------------------------------------------------
(* Properties.                                                               *)

\* The counters that process_node keeps by differences, in every state of the
\* channel and whatever the user does, are those of initialize_data_counter.
CountersMatch ==
    \A i \in DOMAIN chan :
        /\ chan[i].x = Cardinality({n \in Nodes \ {Ack} :
                /\ n = Valid => setup.type = "LEDR"
                /\ val[n] = LOGIC_OTHER})
        /\ setup.type # "LEDR" =>
                chan[i].counter = Cardinality({r \in Rails : val[r] = Active})

\* With a careful user the channels never disturb a pending event: no node
\* becomes X, and (data_rails_value, summarize_status) no assertion fails.
HandshakeClean ==
    setup.careful /\ started =>
        /\ ~dead
        /\ \A n \in Nodes : LOGIC_OTHER \notin {val[n], pending[n].val}

\* How many values the source has begun to send.
Taken == IF chan[1].values = <<>> THEN Len(setup.stream) ELSE chan[1].index

\* With a careful user what is logged is what was sent, in order, nothing lost
\* or repeated, with at most one value under way; expected values match.  This
\* is of the code, which logs and checks what arrives at a stopped channel
\* too: see StoppedNotLogged.
InOrder ==
    setup.careful =>
        \A i \in DOMAIN chan :
            /\ ~chan[i].mismatch
            /\ chan[i].logging =>
                  /\ IsPrefix(chan[i].log, setup.stream)
                  /\ Taken - Len(chan[i].log) \in {0, 1}

\* A channel that is stopped does not log, as channel-stop is documented and
\* the comment in process_node says.  It fails: process_data is called outside
\* the test of stopped().
StoppedNotLogged ==
    [][\A i \in DOMAIN chan : chan[i].stopped => chan'[i].log = chan[i].log]_vars

\* Once channels are no longer stopped, all values arrive; those that came
\* while they were stopped count, since they were logged then.
Delivered == setup.careful /\ ~setup.loop => Last(chan).log = setup.stream
Arrives == <>[](started /\ \A i \in DOMAIN chan : ~chan[i].stopped) => <>Delivered
=============================================================================
