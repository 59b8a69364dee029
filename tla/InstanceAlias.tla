---------------------------- MODULE InstanceAlias ----------------------------
(* How the HAC compiler resolves aliases while it unrolls one definition     *)
(* (src/src/Object/inst/instance_alias.tcc and what it calls).  Every        *)
(* instance, and every port of it, is an element of a union-find structure:  *)
(* next points towards the canonical alias of its set.  Connecting two       *)
(* instances also connects their ports, recursively.                         *)
(*                                                                           *)
(* An instance of a relaxed type has no ports until its template parameters  *)
(* (its "actuals") are known, and these may be bound to any alias of it, or  *)
(* to none but another member of its set, before or after the connections    *)
(* are made.  Its ports are then instantiated and connected late, when the   *)
(* alias is next looked up, or in the pass that ends the unrolling.          *)
(*                                                                           *)
(* An alias is named by its path: the instance, then the positions of ports. *)
(* Connection flags (directions of channels) are left out, and so are arrays *)
(* (collections of aliases that are connected one by one) and the implicit   *)
(* supply ports.                                                             *)
EXTENDS Naturals, SequencesExt, FiniteSetsExt

CONSTANTS
    Instances,   \* the instances of the definition, in the order of declaration
    Formals,     \* those that are ports of the definition
    Relaxed,     \* those of relaxed type, without actuals yet
    TypeOf,      \* the type of each instance
    PortTypes,   \* the types of the ports of each process type, in order
    None,        \* no parameters
    Internal,    \* Internal[type][parameter]: the port aliases of that footprint
    Statements,  \* the connections and type bindings a program may make
    MaxStatements

VARIABLES
    alias,       \* next and actuals of each alias that exists
    said,        \* the statements unrolled so far
    failed,      \* the statement that stopped the compiler, and its error
    stage,       \* "unroll", "created" or "failed"
    id,          \* instance_index of each alias, once created
    portAliases  \* the aliases among ports, exported for replay

vars == <<alias, said, failed, stage, id, portAliases>>

Bool == "bool"
NoStatement == [kind |-> "none"]

\* The member paths below an instance of a type, each after its parent.
SubPaths[t \in DOMAIN PortTypes \cup {Bool}] ==
    IF t = Bool THEN <<>>
    ELSE FlattenSeq([i \in DOMAIN PortTypes[t] |->
            LET below == SubPaths[PortTypes[t][i]]
            IN <<<<i>>>> \o [k \in DOMAIN below |-> <<i>> \o below[k]]])

Tops == ToSet(Instances)

\* All members of an instance, itself first: the order in which they are visited.
Members == [x \in Tops |->
    <<<<x>>>> \o [k \in DOMAIN SubPaths[TypeOf[x]] |->
                      <<x>> \o SubPaths[TypeOf[x]][k]]]

Paths == UNION {ToSet(Members[x]) : x \in Tops}

\* The type of each alias, which for a port is the type of the formal.
TypeAt == [p \in Paths |->
    FoldLeft(LAMBDA t, i : PortTypes[t][i], TypeOf[p[1]], Tail(p))]

IsRelaxed(p) == Len(p) = 1 /\ p[1] \in Relaxed
PortsOf(t) == IF t = Bool THEN <<>> ELSE PortTypes[t]

-----------------------------------------------------------------------------
(* The union-find structure.  A value a has next, act and err; an operation  *)
(* does nothing once an error has been raised.                               *)

Ok(a) == a.err = "none"
Raise(a, e) == [a EXCEPT !.err = e]

\* Op(a, x) for each x of a sequence, until an error.
Each(Op(_, _), a, s) == FoldLeft(LAMBDA b, x : IF Ok(b) THEN Op(b, x) ELSE b, a, s)

\* Op after the operation that gave a.
Then(a, Op(_)) == IF Ok(a) THEN Op(a) ELSE a

\* The number of ports that have been instantiated, subinstance_array.size().
Size(a, p) ==
    LET n == Len(PortsOf(TypeAt[p]))
    IN IF n > 0 /\ Append(p, 1) \in DOMAIN a.next THEN n ELSE 0

RECURSIVE Root(_, _)
Root(a, p) == IF a.next[p] = p THEN p ELSE Root(a, a.next[p])

\* The next alias has found the canonical one, and p points to it from now on.
Compress(a, p) == [a EXCEPT !.next[p] = a.next[a.next[p]]]

\* find(): the canonical alias is Root; every alias on the way then points to it.
RECURSIVE Find(_, _)
Find(a, p) ==
    IF a.next[p] = a.next[a.next[p]] THEN a ELSE Compress(Find(a, a.next[p]), p)

\* Op for the ports of two aliases in order: the sides change places.
EachPort(Op(_, _, _), a, l, r) ==
    IF Size(a, l) # Size(a, r) THEN Raise(a, "sizes")
    ELSE Each(LAMBDA b, i : Op(b, Append(r, i), Append(l, i)), a, [i \in 1..Size(a, l) |-> i])

Link(a, l, r) == [a EXCEPT !.next[Root(a, l)] = Root(a, r)]

\* replay_connect_port: connect two aliases and their ports, already checked.
RECURSIVE ReplayConnectPort(_, _, _)
ReplayConnectPort(a, l, r) ==
    EachPort(ReplayConnectPort, Link(Find(Find(a, l), r), l, r), l, r)

\* Mutant: the aliases of all footprints of the definition are replayed.
ReplayInternalAliasesAny(a, p) ==
    LET rings == UNION {ToSet(Internal[TypeAt[p]][v]) : v \in DOMAIN Internal[TypeAt[p]]}
    IN IF TypeAt[p] = Bool THEN a
       ELSE Each(LAMBDA b, ring : ReplayConnectPort(b, p \o ring[1], p \o ring[2]), a, SetToSeq(rings))

\* replay_internal_aliases: the footprint's port aliases, on the ports of p.
ReplayInternalAliases(a, p) ==
    LET Ring(b, ring) ==
            Each(LAMBDA c, q : ReplayConnectPort(c, p \o Head(ring), p \o q), b, Tail(ring))
    IN IF TypeAt[p] = Bool THEN a
       ELSE Each(Ring, a, Internal[TypeAt[p]][a.act[p]])

HasCompleteType(a, p) == IsRelaxed(p) => a.act[p] # None

\* instantiate_actuals_only: once the type is complete, its ports come to exist.
InstantiateActuals(a, p) ==
    LET below == {p \o q : q \in ToSet(SubPaths[TypeAt[p]])}
    IN IF ~HasCompleteType(a, p) THEN a
       ELSE IF Size(a, p) > 0 THEN Raise(a, "twice")
       ELSE ReplayInternalAliases(
                [a EXCEPT !.next = [q \in below |-> q] @@ @,
                          !.act = [q \in below |-> None] @@ @], p)

-----------------------------------------------------------------------------
(* Connecting with type checks.  This find() also brings the alias up to     *)
(* date with its canonical alias.                                            *)

RECURSIVE FindFinal(_, _)
RECURSIVE CheckedConnectPort(_, _, _)
RECURSIVE ConnectPortAliases(_, _, _)

\* connect_port_aliases_recursive
ConnectPortAliases(a, l, r) == EachPort(CheckedConnectPort, a, l, r)

\* Mutant: the ports that were just instantiated are not connected.
FinalizeActualsAlone(a, p) ==
    LET n == a.next[p]
        b == [a EXCEPT !.act[p] = a.act[n]]
    IN IF a.act[n] # None /\ a.act[p] = None THEN InstantiateActuals(b, p) ELSE b

\* finalize_actuals_and_substructure_aliases: copy the actuals of the next
\* alias, instantiate, and connect the ports to those of the next alias.
FinalizeActuals(a, p) ==
    LET n == a.next[p]
        b == [a EXCEPT !.act[p] = a.act[n]]
    IN Then(IF a.act[n] # None /\ a.act[p] = None THEN InstantiateActuals(b, p) ELSE b,
            LAMBDA c : IF p # n /\ c.act[p] # None THEN ConnectPortAliases(c, p, n) ELSE c)

\* find(c)
FindFinal(a, p) ==
    Then(IF a.next[p] = a.next[a.next[p]] THEN a ELSE Compress(FindFinal(a, a.next[p]), p),
         LAMBDA b : FinalizeActuals(b, p))

\* The side without parameters gets those of the other.
CopyActuals(a, l, r) ==
    LET from == IF a.act[l] # None THEN l ELSE r
        to == IF a.act[l] # None THEN r ELSE l
    IN InstantiateActuals([a EXCEPT !.act[to] = a.act[from]], to)

\* Mutant: parameters on both sides are not compared.
SynchronizeActualsBlind(a, l, r) ==
    IF (a.act[l] = None) = (a.act[r] = None) THEN a ELSE CopyActuals(a, l, r)

\* synchronize_actuals, of two canonical aliases.
SynchronizeActuals(a, l, r) ==
    IF a.act[l] = a.act[r] THEN a
    ELSE IF None \in {a.act[l], a.act[r]} THEN CopyActuals(a, l, r)
    ELSE Raise(a, "conflict")

\* unite: the canonical alias of l is made to point to that of r.
Unite(a, l, r) ==
    LET Join(c, lc, rc) == SynchronizeActuals([c EXCEPT !.next[lc] = rc], lc, rc)
    IN Then(FindFinal(a, l), LAMBDA b :
       Then(FindFinal(b, r), LAMBDA c : Join(c, b.next[l], c.next[r])))

\* must_match_type
MatchType(l, r) == TypeAt[l] = TypeAt[r] /\ (IsRelaxed(l) <=> IsRelaxed(r))

CheckedConnectPort(a, l, r) ==
    IF MatchType(l, r)
    THEN Then(Unite(a, l, r), LAMBDA b : ConnectPortAliases(b, l, r))
    ELSE Raise(a, "type")

\* Mutant: the type is examined before the alias is brought up to date.
FinalizeFindStale(a, p) ==
    IF HasCompleteType(a, p) THEN FindFinal(a, p) ELSE Raise(a, "incomplete")

\* finalize_find: looked up, an alias must have a complete type.
FinalizeFind(a, p) ==
    Then(FindFinal(a, p), LAMBDA b : IF HasCompleteType(b, p) THEN b ELSE Raise(b, "incomplete"))

-----------------------------------------------------------------------------
(* The statements of a definition's body.                                    *)

\* A reference to a member looks up each of its parents first.
ResolveReference(a, p) ==
    Each(LAMBDA b, k : FinalizeFind(b, SubSeq(p, 1, k)), a, [k \in 1..(Len(p) - 1) |-> k])

\* x = y = z connects the first with each of the others.
AliasConnection(a, s) ==
    Each(LAMBDA b, r : CheckedConnectPort(b, s.refs[1], r),
         Each(ResolveReference, a, s.refs), Tail(s.refs))

\* x(a, , c) connects the ports of x in order; a reference may be left out.
PortConnection(a, s) ==
    LET Connect(b, i) ==
            Then(ResolveReference(b, s.refs[i]), LAMBDA c :
                 CheckedConnectPort(c, s.refs[i], Append(s.inst, i)))
    IN Each(Connect, Each(FinalizeFind, ResolveReference(a, s.inst), <<s.inst>>),
            SelectSeq([i \in DOMAIN s.refs |-> i], LAMBDA i : s.refs[i] # <<>>))

BindActuals(a, s) ==
    LET ca == a.next[s.inst]
        both == IF ca = s.inst THEN <<ca>> ELSE <<s.inst, ca>>
        bound == [a EXCEPT !.act = [p \in ToSet(both) |-> s.param] @@ @]
    IN IF ~IsRelaxed(s.inst) THEN Raise(a, "strict")
       ELSE IF \E p \in ToSet(both) : a.act[p] # None THEN Raise(a, "bound")
       ELSE Each(ReplayInternalAliases, Each(InstantiateActuals, bound, both), <<ca>>)

\* x<param>: both the alias and its canonical alias must be free of actuals.
TypeCompletion(a, s) == Then(FindFinal(a, s.inst), LAMBDA b : BindActuals(b, s))

Unroll(a, s) ==
    CASE s.kind = "alias" -> AliasConnection(a, s)
      [] s.kind = "ports" -> PortConnection(a, s)
      [] s.kind = "bind"  -> TypeCompletion(a, s)

-----------------------------------------------------------------------------
(* The end of a definition: footprint::create_dependent_types.               *)

\* The members of the instances of some types, in the order of declaration.
Visited(types) ==
    FlattenSeq([k \in DOMAIN Instances |->
        IF TypeOf[Instances[k]] \in types THEN Members[Instances[k]] ELSE <<>>])

\* Processes are visited before bools.
PoolOrder == Visited(DOMAIN PortTypes) \o Visited({Bool})

\* Internal aliases are replayed and every instance is brought up to date.
CreateDependentTypes(a) ==
    LET strict == SelectSeq(PoolOrder, LAMBDA p : Len(p) = 1 /\ ~IsRelaxed(p))
        actual == SelectSeq(PoolOrder, LAMBDA p : Len(p) > 1 /\ p \in DOMAIN a.next)
        procs == SelectSeq(PoolOrder, LAMBDA p : Len(p) = 1 /\ TypeAt[p] # Bool)
    IN Each(FinalizeFind, Each(ReplayInternalAliases, a, strict \o actual), procs)

Kind(p) == IF TypeAt[p] = Bool THEN "bool" ELSE "process"

\* assign_local_instance_id: the canonical alias allocates, the others copy, and
\* each goes on to its ports.  s has the ids and the number allocated of each kind.
RECURSIVE AssignLocalId(_, _, _)
AssignLocalId(a, s, p) ==
    LET r == Root(a, p)
        Below(t, q) == FoldLeft(LAMBDA u, i : AssignLocalId(a, u, Append(q, i)), t,
                                [i \in DOMAIN PortsOf(TypeAt[q]) |-> i])
        t == IF r \in DOMAIN s.id THEN s
             ELSE LET n == s.count[Kind(r)] + 1
                  IN Below([id |-> (r :> n) @@ s.id, count |-> [s.count EXCEPT ![Kind(r)] = n]], r)
    IN IF p \in DOMAIN s.id THEN s
       ELSE IF p = r THEN t
       ELSE Below([t EXCEPT !.id = (p :> t.id[r]) @@ @], p)

LocalIds(a) ==
    FoldLeft(LAMBDA s, p : AssignLocalId(a, s, p),
             [id |-> << >>, count |-> [k \in {"process", "bool"} |-> 0]], PoolOrder)

IsPortAlias(p) == p[1] \in Formals

\* collect_scope_aliases: the aliases of each id, in the order of collection.
ScopeAliases(local) ==
    [k \in DOMAIN local.count |-> [n \in 1..local.count[k] |->
        SelectSeq(PoolOrder, LAMBDA p : Kind(p) = k /\ local.id[p] = n)]]

\* Mutant: the ids stay as allocated.
SiftPortsNot(scope) == scope

\* sift_ports: renumber, the sets that contain a port first, otherwise in order.
SiftPorts(scope) ==
    LET HasPort(s) == \E p \in ToSet(s) : IsPortAlias(p)
    IN [k \in DOMAIN scope |-> SelectSeq(scope[k], HasPort)
                                \o SelectSeq(scope[k], LAMBDA s : ~HasPort(s))]

\* override_id: the place of its set is the id of an alias.
IdIn(scope, p) == CHOOSE n \in DOMAIN scope[Kind(p)] : p \in ToSet(scope[Kind(p)][n])

\* Mutant: a set with a port is imported with all its aliases.
ImportPortAliasesWhole(scope) ==
    {s \in UNION {ToSet(scope[k]) : k \in DOMAIN scope} :
        Len(s) > 1 /\ \E p \in ToSet(s) : IsPortAlias(p)}

\* import_port_aliases: the ports in each set, where there are several.
ImportPortAliases(scope) ==
    {s \in UNION {{SelectSeq(t, IsPortAlias) : t \in ToSet(scope[k])} : k \in DOMAIN scope} :
        Len(s) > 1}

\* find_shortest_alias: the first of the aliases with the fewest levels.
ShortestAlias(s) ==
    LET depth == Min({Len(p) : p \in ToSet(s)})
    IN SelectSeq(s, LAMBDA p : Len(p) = depth)[1]

\* shorten_canonical_aliases: every alias of a set points to the shortest.
ShortenCanonicalAliases(scope) ==
    [p \in Paths |-> ShortestAlias(scope[Kind(p)][IdIn(scope, p)])]

-----------------------------------------------------------------------------
Declared ==
    LET tops == [x \in {<<t>> : t \in Tops} |-> x]
    IN Each(InstantiateActuals,
            [next |-> tops, act |-> [x \in DOMAIN tops |-> None], err |-> "none"],
            [k \in DOMAIN Instances |-> <<Instances[k]>>])

Init ==
    /\ alias = [next |-> Declared.next, act |-> Declared.act]
    /\ said = {}
    /\ failed = [stmt |-> NoStatement, err |-> "none"]
    /\ stage = "unroll"
    /\ id = << >>
    /\ portAliases = {}

Now == [next |-> alias.next, act |-> alias.act, err |-> "none"]

Fail(s, e) ==
    /\ stage' = "failed"
    /\ failed' = [stmt |-> s, err |-> e]
    /\ UNCHANGED <<alias, said, id, portAliases>>

UnrollStatement(s) ==
    /\ stage = "unroll"
    /\ Cardinality(said) < MaxStatements
    /\ \E a \in {Unroll(Now, s)} :
         IF Ok(a)
         THEN /\ alias' = [next |-> a.next, act |-> a.act]
              /\ said' = said \cup {s}
              /\ UNCHANGED <<failed, stage, id, portAliases>>
         ELSE Fail(s, a.err)

Create ==
    /\ stage = "unroll"
    /\ \E a \in {CreateDependentTypes(Now)} :
         IF ~Ok(a) THEN Fail(NoStatement, a.err)
         ELSE \E scope \in {SiftPorts(ScopeAliases(LocalIds(a)))} :
              /\ id' = [p \in Paths |-> IdIn(scope, p)]
              /\ portAliases' = ImportPortAliases(scope)
              /\ alias' = [next |-> ShortenCanonicalAliases(scope), act |-> a.act]
              /\ stage' = "created"
              /\ UNCHANGED <<said, failed>>

Next == Create \/ \E s \in Statements : UnrollStatement(s)

Spec == Init /\ [][Next]_vars

-----------------------------------------------------------------------------
(* What the statements mean, whatever their order: the least equivalence     *)
(* that joins what they connect and the internal aliases of what they bind,  *)
(* and that joins the ports of what it joins.                                *)

PairsOf(s) ==
    CASE s.kind = "alias" -> {<<s.refs[1], s.refs[k]>> : k \in DOMAIN s.refs}
      [] s.kind = "ports" -> {<<s.refs[i], Append(s.inst, i)>> :
                                 i \in {k \in DOMAIN s.refs : s.refs[k] # <<>>}}
      [] s.kind = "bind"  -> {}

\* The class of p in a partition of the paths.
Class(m, p) == CHOOSE c \in m : p \in c

\* The parameters with which the type of p is complete.
ActualsOf(m, stmts, p) ==
    IF IsRelaxed(p)
    THEN {s.param : s \in {t \in stmts : t.kind = "bind" /\ t.inst \in Class(m, p)}}
    ELSE {None}

InternalPairs(p, act) ==
    UNION {{<<p \o Head(ring), p \o q>> : q \in ToSet(Tail(ring))} :
              ring \in ToSet(Internal[TypeAt[p]][act])}

\* What must be equal, given the classes so far.
Required(m, stmts) ==
    UNION {PairsOf(s) : s \in stmts}
    \cup UNION {UNION {{<<Append(p, i), Append(q, i)>> : i \in DOMAIN PortsOf(TypeAt[p])} :
                          p, q \in c} : c \in {d \in m : Cardinality(d) > 1}}
    \cup UNION {UNION {InternalPairs(p, act) : act \in ActualsOf(m, stmts, p)} :
                   p \in {q \in Paths : TypeAt[q] # Bool}}

RECURSIVE Close(_, _)
Close(m, stmts) ==
    LET open == {w \in Required(m, stmts) : w[2] \notin Class(m, w[1])}
        w == CHOOSE v \in open : TRUE
        joined == {Class(m, w[1]), Class(m, w[2])}
    IN IF open = {} THEN m ELSE Close((m \ joined) \cup {UNION joined}, stmts)

Meaning(stmts) == Close({{p} : p \in Paths}, stmts)

\* The instances whose types a statement needs to be complete.
Parents(s) ==
    LET refs == (IF s.kind = "bind" THEN {} ELSE ToSet(s.refs))
        Up(p) == {SubSeq(p, 1, k) : k \in 1..(Len(p) - 1)}
    IN UNION {Up(p) : p \in refs} \cup (IF s.kind = "ports" THEN {s.inst} \cup Up(s.inst) ELSE {})

Incomplete(label, stmts, p) == ActualsOf(label, stmts, p) = {}
InConflict(label, stmts) == \E p \in Paths : Cardinality(ActualsOf(label, stmts, p)) > 1

-----------------------------------------------------------------------------
(* Properties                                                                *)

\* At no time are two aliases in one set that the program does not make equal:
\* what find(), unite() and the replay of internal aliases do to the union-find
\* structure, with ports that are instantiated late, never joins too much.
NoSpuriousAlias ==
    LET m == Meaning(said) IN
    \A p, q \in DOMAIN alias.next :
        Root(alias, p) = Root(alias, q) => q \in Class(m, p)

\* In a created footprint all that the program makes equal is in one set: no
\* connection is lost, whether it was made before or after the binding that
\* instantiated the ports it concerns, and in whatever order.  The set agrees on
\* its canonical alias, of which no alias is nearer to the top: netlists and
\* simulators name it so.
NoAliasMissed ==
    stage = "created" =>
        \A c \in Meaning(said) : \E r \in c : \A p \in c :
            alias.next[p] = r /\ Len(r) <= Len(p)

\* Ids tell the sets of one kind apart, are dense, and the sets that are
\* reachable through a port have the lower ones (partition_local_instance_pool
\* relies on it, and frames of instances are indexed by them).
IdsPartition ==
    stage = "created" =>
        LET m == Meaning(said)
            Public(p) == \E q \in Class(m, p) : IsPortAlias(q)
        IN \A k \in {"process", "bool"} :
               LET same == {p \in Paths : Kind(p) = k} IN
               /\ {id[p] : p \in same} = 1..Cardinality({c \in m : c \subseteq same})
               /\ \A p, q \in same :
                      /\ id[p] = id[q] <=> q \in Class(m, p)
                      /\ Public(p) /\ ~Public(q) => id[p] < id[q]

\* What the definition exports for replay in its instances is the program's
\* equality among its ports, and nothing about what is behind them.
PortAliasesExact ==
    stage = "created" =>
        {ToSet(s) : s \in portAliases} =
        {c \in {{p \in d : IsPortAlias(p)} : d \in Meaning(said)} : Cardinality(c) > 1}

\* The compiler stops only for a reason the program gives: a member is named of
\* an instance without parameters, a set with parameters is bound again, two
\* sets with different parameters are connected.  The assertion on the number
\* of ports (subinstance_manager.cc:267) does fail without such a reason, but
\* only where a statement connects a set with parameters and one without.
ErrorsJustified ==
    stage = "failed" =>
        LET m == Meaning(said)
            s == failed.stmt
            bound(p) == ~Incomplete(m, said, p)
            withIt == said \cup {s}
        IN CASE failed.err = "incomplete" ->
                    \E p \in IF s = NoStatement THEN Paths ELSE Parents(s) : ~bound(p)
             [] failed.err = "bound" -> s.kind = "bind" /\ bound(s.inst)
             [] failed.err = "conflict" -> InConflict(Meaning(withIt), withIt)
             [] failed.err = "sizes" ->
                    /\ s.kind = "alias"
                    /\ \E p, q \in ToSet(s.refs) : IsRelaxed(p) /\ bound(p) /\ ~bound(q)
             [] OTHER -> FALSE

\* As long as the compiler goes on, no set has been given two different
\* parameters, by whatever chain of connections they meet; and a footprint is
\* created only if every set has some (synchronize_actuals, __assert_complete_type).
NoErrorMissed ==
    stage # "failed" =>
        LET m == Meaning(said) IN
        /\ ~InConflict(m, said)
        /\ stage = "created" => \A p \in Paths : ~Incomplete(m, said, p)

=============================================================================
