------------------------------ MODULE MCChpsim ------------------------------
(***************************************************************************)
(* Programs for model checking Chpsim.                                     *)
(***************************************************************************)
EXTENDS Chpsim, ChpEventAlloc

T == [any |-> {}, negated |-> TRUE]
F == [any |-> {}, negated |-> FALSE]
Is(v) == [any |-> {v}, negated |-> FALSE]
Not(v) == [any |-> {v}, negated |-> TRUE]

Ev(k, c, l, x, g) ==
    [kind |-> k, preds |-> 0, succ |-> <<>>, chan |-> c, lval |-> l, expr |-> x, guards |-> g]

Blank(k, g) == Ev(k, CHOOSE c \in Chan : TRUE, {}, F, g)
Root == Blank("null", <<>>)

Atom(ev) == [op |-> "atom", body |-> <<>>, node |-> ev]
Assign(v, x) == Atom(Ev("assign", CHOOSE c \in Chan : TRUE, {v}, x, <<>>))
Send(c, x) == Atom(Ev("send", c, {}, x, <<>>))
Receive(c, v) == Atom(Ev("receive", c, {v}, F, <<>>))
Drop(c) == Atom(Ev("receive", c, {}, F, <<>>))
Peek(c, v) == Atom(Ev("peek", c, {v}, F, <<>>))
Wait(g) == Atom(Blank("wait", <<g>>))
Many(op, body) == [op |-> op, body |-> body, node |-> Root]
Seq_(body) == Many("seq", body)
Par(body) == Many("par", body)
Skip == Seq_(<<>>)
Forever(st) == Many("forever", <<st>>)
Choice(op, k, g, body) == [op |-> op, body |-> body, node |-> Blank(k, g)]
Select(g, body) == Choice("select", "select", g, body)
Arbiter(g, body) == Choice("arbiter", "arbiter", g, body)
While(g, body) == Choice("while", "loop", g, body)

If(on, off, probe) == [on |-> on, off |-> off, probe |-> probe, quiet |-> {}, otherwise |-> FALSE]
Else == [If({}, {}, {}) EXCEPT !.otherwise = TRUE]

-----------------------------------------------------------------------------
(* Legal programs *)

A == "A"
B == "B"

\* A source that alternates, a one-place buffer, a sink.
Alternate(c, v) == Forever(Seq_(<<Assign(v, Not(v)), Send(c, Is(v))>>))
Sink(c, v) == Forever(Receive(c, v))
Stream == <<Alternate(A, "s"), Forever(Seq_(<<Receive(A, "b"), Send(B, Is("b"))>>)), Sink(B, "k")>>

\* The same with a buffer that peeks and completes the receive at the end.
PeekStream ==
    <<Alternate(A, "s"), Forever(Seq_(<<Peek(A, "b"), Send(B, Is("b")), Drop(A)>>)), Sink(B, "k")>>

\* Two sources received together once both wait; the receives join.
ProbeBoth ==
    <<Alternate(A, "s"), Forever(Send(B, T)),
      Forever(Seq_(<<Wait(If({}, {}, {A, B})), Par(<<Receive(A, "b"), Receive(B, "k")>>)>>))>>

\* Two sources compete for one consumer.
Compete ==
    <<Forever(Send(A, T)), Forever(Send(B, F)),
      Forever(Arbiter(<<If({}, {}, {A}), If({}, {}, {B})>>, <<Receive(A, "k"), Receive(B, "k")>>))>>

\* A loop counts in two bits, then a selection waits for the other process,
\* and one with an else clause decides.
Count ==
    <<Seq_(<<While(<<If({}, {"s"}, {}), If({"s"}, {"b"}, {})>>,
                   <<Assign("s", T), Par(<<Assign("b", T), Assign("s", F)>>)>>),
             Select(<<If({"k"}, {}, {}), Else>>, <<Skip, Assign("k", F)>>)>>),
      Seq_(<<Select(<<If({"b"}, {}, {}), If({}, {"b"}, {A})>>, <<Assign("k", T), Drop(A)>>),
             Send(A, T)>>),
      Seq_(<<Wait([If({"k"}, {}, {}) EXCEPT !.quiet = {A}]), Drop(A)>>)>>

-----------------------------------------------------------------------------
(* Programs with a run-time error or a race *)

TwoSenders == <<Send(A, T), Send(A, F)>>
TwoReceivers == <<Drop(A), Drop(A)>>
BothGuards == <<Select(<<If({"x"}, {}, {}), If({"x"}, {}, {})>>, <<Skip, Skip>>), Assign("x", T)>>
LoopGuards ==
    <<While(<<If({}, {"x"}, {}), If({}, {"k"}, {})>>, <<Assign("x", T), Assign("k", T)>>)>>

\* The peek of A makes a guard on x false that the arrival on A made true.
Invalidate(selection_) ==
    <<Seq_(<<Peek(A, "x"), Drop(A)>>), selection_, Send(A, T)>>
Withdrawn == Invalidate(Arbiter(<<If({}, {"x"}, {A})>>, <<Assign("k", T)>>))
Unstable == Invalidate(Select(<<If({}, {"x"}, {A})>>, <<Assign("k", T)>>))

\* The same with an arbiter, but the guard becomes true again and stays so.
Regained ==
    <<Seq_(<<Peek(A, "x"), Assign("x", F)>>),
      Arbiter(<<If({}, {"x"}, {A})>>, <<Assign("k", T)>>), Send(A, T)>>

-----------------------------------------------------------------------------
(* The instances *)

MCVar == {"s", "b", "k", "x"}
MCChan == {A, B}
MCMaxEvent == 16

Program(processes) ==
    LET g == Spawn(processes, Root)
    IN  [e \in 0 .. MCMaxEvent |-> IF e \in DOMAIN g THEN g[e] ELSE Root]

\* Every program of three small processes: a statement, once or for ever, or
\* two in sequence or in parallel.
Statement ==
    {Send(A, Is("x")), Receive(A, "x"), Peek(A, "x"), Assign("x", Not("x")),
     Wait(If({}, {"x"}, {A})),
     Select(<<If({"x"}, {}, {}), If({}, {}, {A})>>, <<Drop(A), Skip>>),
     Arbiter(<<If({"x"}, {}, {}), If({}, {"x"}, {A})>>, <<Skip, Drop(A)>>)}
Process ==
    Statement \cup {Forever(st) : st \in Statement}
        \cup {Seq_(<<st, Send(A, T)>>) : st \in Statement}
        \cup {Par(<<st, Seq_(<<Drop(A), Assign("x", F)>>)>>) : st \in Statement}
SmallPrograms == {<<p, q, Send(A, Is("x"))>> : p, q \in Process}

Streams == {Program(Stream), Program(PeekStream)}
MCGraphs ==
    Streams \cup {Program(p) : p \in SmallPrograms \cup {ProbeBoth, Compete, Count, TwoSenders, TwoReceivers,
                                      BothGuards, LoopGuards, Withdrawn, Unstable, Regained}}

\* All programs are structured: choose one branch of each event that starts
\* several, and follow the control that takes it.
Forks(g) == {e \in DOMAIN g : /\ g[e].kind \notin {"select", "arbiter", "loop"}
                              /\ Len(g[e].succ) > 1}

Route(g, choice) ==
    LET Out(e) == IF e \in DOMAIN choice THEN {choice[e]} ELSE ToSet(g[e].succ)
        reach[n \in Event] ==
            IF n = 0 THEN {0}
            ELSE LET r == reach[n - 1] IN r \cup UNION {Out(e) : e \in r}
    IN  UNION {{<<e, f>> : f \in Out(e)} : e \in reach[MaxEvent]}

MaxBranches == 3
Routes(g) ==
    {Route(g, [e \in Forks(g) |-> g[e].succ[Min({choice[e], Len(g[e].succ)})]]) :
        choice \in [Forks(g) -> 1 .. MaxBranches]}

\* Every value the source sends reaches the sink, once and in order: the
\* source alternates, so each receive of the sink flips its variable.
StreamInOrder ==
    [][/\ graph \in Streams
       /\ can_receive(B)
       /\ status'[B] \in {"received", "inactive"}
       => val'["k"] # val["k"]]_vars

\* A stream never stops: the sink sees both values again and again.
Streaming == graph \in Streams => []<>(val["k"]) /\ []<>(~val["k"])

-----------------------------------------------------------------------------
(* The graphs that test/chpsim expects of select-loop-a.hac and             *)
(* countdown-nested-a.hac: kind, predecessors and successors of each event. *)

Shape(g) == [e \in DOMAIN g |-> <<g[e].kind, g[e].preds, g[e].succ>>]

SelectLoop ==
    <<Seq_(<<Assign("b", F),
             Forever(Select(<<If({"b"}, {}, {}), Else>>,
                            <<Seq_(<<Assign("k", T), Assign("b", F)>>), Assign("b", T)>>))>>)>>

CountdownNested ==
    <<Seq_(<<Assign("s", F),
             While(<<If({"s"}, {}, {})>>,
                   <<Seq_(<<Par(<<Assign("s", T), Assign("b", F)>>),
                            While(<<If({"b"}, {}, {})>>, <<Assign("b", T)>>)>>)>>)>>)>>

ASSUME AllocAgreesWithTests ==
    /\ Shape(Spawn(SelectLoop, Root)) =
        [e \in 0 .. 6 |->
            <<<<"null", 0, <<1>>>>, <<"assign", 1, <<6>>>>, <<"null", 1, <<6>>>>,
              <<"assign", 1, <<2>>>>, <<"assign", 1, <<3>>>>, <<"assign", 1, <<2>>>>,
              <<"select", 1, <<4, 5>>>>>>[e + 1]]
    /\ Shape(Spawn(CountdownNested, Root)) =
        [e \in 0 .. 9 |->
            <<<<"null", 0, <<1>>>>, <<"assign", 1, <<9>>>>, <<"null", 1, <<>>>>,
              <<"loop", 1, <<4, 9>>>>, <<"assign", 1, <<3>>>>, <<"null", 2, <<3>>>>,
              <<"assign", 1, <<5>>>>, <<"assign", 1, <<5>>>>, <<"null", 1, <<6, 7>>>>,
              <<"loop", 1, <<8, 2>>>>>>[e + 1]]

ASSUME ProgramsAreStructured ==
    \A g \in Graphs \cup {Program(SelectLoop), Program(CountdownNested)} : Threads(g, Routes(g))
=============================================================================
