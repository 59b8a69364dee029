------------------------------ MODULE ChpTokens ------------------------------
(***************************************************************************)
(* What chpsim promises about control: the token game of an event graph.   *)
(* Every predecessor that completes puts one token on an event; the event  *)
(* occurs when it has one of each, takes them, and passes one token to     *)
(* each of its successors, or to one of them when it is a choice.          *)
(***************************************************************************)
EXTENDS Integers, Sequences

CONSTANTS Event

VARIABLES graph,     \* the event graph
          tokens     \* how many tokens an event holds

\* The root event has no predecessor, and occurs when it is scheduled.
Need(e) == IF graph[e].preds = 0 THEN 1 ELSE graph[e].preds

Targets(e) ==
    IF graph[e].kind \in {"select", "arbiter", "loop"}
    THEN {{graph[e].succ[i]} : i \in DOMAIN graph[e].succ}
    ELSE {{graph[e].succ[i] : i \in DOMAIN graph[e].succ}}

Move(e, to) ==
    tokens' = [x \in Event |-> tokens[x] - (IF x = e THEN Need(e) ELSE 0)
                                         + (IF x \in to THEN 1 ELSE 0)]

Fire(e) == tokens[e] >= Need(e) /\ \E to \in Targets(e) : Move(e, to)

\* An arbiter whose guards were true but are false again gives up its tokens.
Withdraw(e) == graph[e].kind = "arbiter" /\ tokens[e] >= Need(e) /\ Move(e, {})

Init == tokens = [e \in Event |-> IF e = 0 THEN 1 ELSE 0]

Next == UNCHANGED graph /\ \E e \in Event : Fire(e) \/ Withdraw(e)

Spec == Init /\ [][Next]_<<graph, tokens>>
=============================================================================
