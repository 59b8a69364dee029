--------------------------- MODULE MCInstanceAlias ---------------------------
(* defproc D(S f; bool q) with instances x, y, z of relaxed type R and w of  *)
(* type W.  S has two bools; R has an S and a bool, and R<1> connects the    *)
(* first bool of that S with its own; W connects its two bools.              *)
EXTENDS InstanceAlias

TheInstances == <<"f", "q", "x", "y", "z", "w">>
TheFormals == {"f", "q"}
TheRelaxed == {"x", "y", "z"}
TheTypeOf == ("f" :> "S") @@ ("q" :> Bool) @@ ("w" :> "W") @@ [v \in TheRelaxed |-> "R"]
ThePortTypes == [S |-> <<Bool, Bool>>, W |-> <<Bool, Bool>>, R |-> <<"S", Bool>>]
TheInternal ==
    [S |-> (None :> << >>),
     W |-> (None :> << << <<1>>, <<2>> >> >>),
     R |-> (1 :> << << <<1, 1>>, <<2>> >> >>) @@ (2 :> << >>)]

Alias(refs) == [kind |-> "alias", refs |-> refs]
Ports(x, refs) == [kind |-> "ports", inst |-> <<x>>, refs |-> refs]
Bind(x, v) == [kind |-> "bind", inst |-> <<x>>, param |-> v]

TheStatements ==
    {Alias(<< <<v>>, <<u>> >>) : v, u \in TheRelaxed} \cup
    {Alias(<< <<"x">>, <<"y">>, <<"z">> >>)} \cup
    {Bind("x", 1), Bind("y", 1), Bind("z", 2)} \cup
    {Alias(<< <<"x", 1>>, <<"f">> >>), Alias(<< <<"w", 1>>, <<"y", 2>> >>),
     Alias(<< <<"z", 1, 2>>, <<"q">> >>), Alias(<< <<"q">>, <<"w", 2>> >>)} \cup
    {Ports("y", << <<"f">>, <<"q">> >>), Ports("z", << << >>, <<"w", 2>> >>)}
=============================================================================
