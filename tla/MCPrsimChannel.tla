--------------------------- MODULE MCPrsimChannel ---------------------------
(***************************************************************************)
(* Channels for model checking PrsimChannel.                               *)
(***************************************************************************)
EXTENDS PrsimChannel

\* Up to two rails or two bundles, everything active high.
Setup(type, bundles, radix, stream) ==
    [type |-> type, bundles |-> bundles, radix |-> radix,
     ack |-> TRUE, valid |-> type # "1ofN",
     ack_active |-> TRUE, ack_init |-> FALSE, valid_sense |-> TRUE,
     active_low |-> FALSE, stream |-> stream, expected |-> stream,
     loop |-> FALSE, split |-> TRUE, stop_on_empty |-> FALSE,
     dequeue |-> FALSE, global |-> FALSE, careful |-> TRUE]

Types == {Setup("1ofN", 1, 2, <<1, 0, 0>>), Setup("1ofN", 2, 2, <<2, 1>>),
          Setup("LEDR", 1, 1, <<1, 0, 0>>),
          Setup("BD_2P", 1, 2, <<1, 2, 2>>), Setup("BD_4P", 1, 2, <<1, 2, 2>>)}
Valids == Types \cup {[u EXCEPT !.valid = TRUE] : u \in Types}

\* All combinations of senses and initial values.
Senses ==
    {[u EXCEPT !.ack_active = a, !.ack_init = i, !.valid_sense = v, !.active_low = d] :
        u \in Valids, a \in BOOLEAN, i \in BOOLEAN, v \in BOOLEAN, d \in BOOLEAN}

\* Both ends are one object, the LEDR channel has no acknowledge, the sink
\* stops when it has got what it expects, some values may be anything, source
\* and expect loop.
Variants(u) ==
    {u, [u EXCEPT !.split = FALSE, !.expected = <<>>],
     [u EXCEPT !.ack = (u.type # "LEDR")],
     [u EXCEPT !.stop_on_empty = TRUE, !.expected = SubSeq(u.stream, 1, 1)],
     [u EXCEPT !.expected = Append([u.stream EXCEPT ![2] = DontCare], 0)],
     [u EXCEPT !.loop = TRUE]}

CarefulSetups == UNION {Variants(u) : u \in Senses}

\* A user who gives any command at any time, or lets the request come early.
FreeSetups ==
    {[u EXCEPT !.careful = FALSE, !.stream = <<1>>, !.expected = <<1>>] :
        u \in {Setup("1ofN", 1, 2, <<>>), Setup("LEDR", 1, 1, <<>>),
               [Setup("BD_4P", 1, 1, <<>>) EXCEPT !.dequeue = TRUE],
               [Setup("BD_2P", 1, 1, <<>>) EXCEPT !.global = TRUE]}}

AllSetups == CarefulSetups \cup FreeSetups

\* Delay-insensitive channels without and with a validity.
StoppedSetups == {u \in Valids : u.type = "1ofN"}
=============================================================================
