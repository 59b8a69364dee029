---------------------------- MODULE ChpEventAlloc ----------------------------
(***************************************************************************)
(* How a CHP program becomes the event graph that chpsim runs              *)
(* (src/src/Object/lang/CHP_event_alloc.cc, and the spawning event that    *)
(* the constructor of State puts in front of the processes).               *)
(*                                                                         *)
(* A statement is a record: an "atom" with its event, a "seq" or a "par"   *)
(* of statements, a "select", an "arbiter" or a "while" with guarded       *)
(* clauses, or a "forever" loop.  The graph is built backwards: `last' is  *)
(* the event that follows the statement being visited, and then its first  *)
(* event.  Events are numbered from 0 as in the code.                      *)
(***************************************************************************)
EXTENDS Naturals, Integers, Sequences, SequencesExt, FiniteSetsExt

NoEvent == -1

Size(s) == Cardinality(DOMAIN s.pool)

Empty == [pool |-> [i \in {} |-> 0], free |-> {}, last |-> NoEvent]

\* The lowest free slot, or a new one at the end.
NewIndex(s) == IF s.free = {} THEN Size(s) ELSE Min(s.free)

allocate_event(s, ev) ==
    LET i == NewIndex(s)
    IN  [s EXCEPT !.pool = [j \in DOMAIN s.pool \cup {i} |-> IF j = i THEN ev ELSE s.pool[j]],
                  !.free = @ \ {i}]

deallocate_event(s, i) ==
    IF i = Size(s) - 1
    THEN [s EXCEPT !.pool = [j \in DOMAIN s.pool \ {i} |-> s.pool[j]]]
    ELSE [s EXCEPT !.free = @ \cup {i}]

Follow(s) == IF s.last \in DOMAIN s.pool THEN <<s.last>> ELSE <<>>

set_predecessors(s, I, n) ==
    [s EXCEPT !.pool = [j \in DOMAIN s.pool |->
                            [s.pool[j] EXCEPT !.preds = IF j \in I THEN n ELSE @]]]

count_predecessors(s, i) == set_predecessors(s, ToSet(s.pool[i].succ), 1)

\* Redirect every edge to f; the code confines itself to the reachable events.
substitute_successor(s, f, r) ==
    [s EXCEPT !.pool = [j \in DOMAIN s.pool |->
        [s.pool[j] EXCEPT !.succ = [k \in DOMAIN @ |-> IF @[k] = f THEN r ELSE @[k]]]]]

\* Allocate ev in front of what follows, and lead on from it.
Prepend(s, ev) ==
    LET i == NewIndex(s)
        t == allocate_event(s, [ev EXCEPT !.succ = Follow(s)])
    IN  [count_predecessors(t, i) EXCEPT !.last = i]

NullEvent(ev) == [ev EXCEPT !.kind = "null", !.preds = 0, !.succ = <<>>, !.guards = <<>>]

RECURSIVE visit(_, _)

\* Visit each of the statements with the same event to follow; the heads of
\* the chains are collected in order.
Chains(s, stmts, tail) ==
    FoldLeft(LAMBDA a, st :
                LET t == visit([a.s EXCEPT !.last = tail], st)
                IN  [s |-> t, heads |-> Append(a.heads, t.last)],
             [s |-> s, heads |-> <<>>], stmts)

\* Allocate ev, whose branches are the given events.
Split(s, ev, heads) ==
    LET i == NewIndex(s)
        t == allocate_event(s, [ev EXCEPT !.succ = heads])
    IN  [count_predecessors(t, i) EXCEPT !.last = i]

concurrent_actions(s, st) ==
    LET join   == NewIndex(s)
        joined == Prepend(s, NullEvent(st.node))
        c      == Chains(joined, st.body, join)
        n      == Len(st.body)
        again  == count_predecessors(set_predecessors(c.s, {join}, n), join)
    IN  CASE n = 0 -> s
          [] n = 1 -> visit(s, st.body[1])
          [] OTHER -> Split(again, NullEvent(st.node), c.heads)

selection(s, st) ==
    LET merge  == NewIndex(s)
        merged == set_predecessors(Prepend(s, NullEvent(st.node)), {merge}, 1)
        c      == Chains(merged, st.body, merge)
    IN  Split(c.s, st.node, c.heads)

\* The loopback event is a placeholder that is cut out of the finished loop.
do_forever_loop(s, st) ==
    LET loopback == NewIndex(s)
        opened   == allocate_event(s, NullEvent(st.node))
        body     == visit([opened EXCEPT !.last = loopback], st.body[1])
        closed   == substitute_successor(body, loopback, body.last)
    IN  set_predecessors(deallocate_event(closed, loopback), {body.last}, 1)

\* The exit branch comes last; without a successor it leads to a new null event.
do_while_loop(s, st) ==
    LET loopback == NewIndex(s)
        opened   == allocate_event(s, st.node)
        exit     == IF s.last \in DOMAIN s.pool THEN s.last ELSE NewIndex(opened)
        exited   == IF s.last \in DOMAIN s.pool THEN opened
                    ELSE allocate_event(opened, NullEvent(st.node))
        c        == Chains(exited, st.body, loopback)
        closed   == [c.s EXCEPT !.pool[loopback].succ = Append(c.heads, exit)]
    IN  [count_predecessors(closed, loopback) EXCEPT !.last = loopback]

visit(s, st) ==
    CASE st.op = "atom" -> Prepend(s, st.node)
      [] st.op = "seq" -> FoldRight(LAMBDA x, t : visit(t, x), st.body, s)
      [] st.op = "par" -> concurrent_actions(s, st)
      [] st.op \in {"select", "arbiter"} -> selection(s, st)
      [] st.op = "forever" -> do_forever_loop(s, st)
      [] st.op = "while" -> do_while_loop(s, st)

-----------------------------------------------------------------------------
(* compact_and_canonicalize() *)

\* Events that no event leads to are freed, until there are none; a freed
\* event still counts as leading to its successors.
RECURSIVE remove_unreached(_)
remove_unreached(s) ==
    LET reached == UNION {ToSet(s.pool[j].succ) : j \in DOMAIN s.pool}
        dead    == (DOMAIN s.pool \ reached) \ (s.free \cup {s.last})
    IN  IF dead = {} THEN s
        ELSE remove_unreached(FoldLeft(deallocate_event, s, SetToSortSeq(dead, <)))

\* Events at the end fill the free slots, and the tail is cut off.
RECURSIVE compact(_)
compact(s) ==
    LET holes == {i \in s.free : \E j \in DOMAIN s.pool \ s.free : i < j}
        tail  == Max(DOMAIN s.pool \ s.free)
        slot  == Min(holes)
        moved == substitute_successor(allocate_event(s, s.pool[tail]), tail, slot)
    IN  IF holes = {}
        THEN [s EXCEPT !.pool = [j \in DOMAIN s.pool \ s.free |-> s.pool[j]], !.free = {}]
        ELSE compact(deallocate_event(
                        [moved EXCEPT !.last = IF @ = tail THEN slot ELSE @], tail))

\* The root event trades places with event 0, and counts its entry.
canonicalize(s) ==
    LET swap(i) == IF i = 0 THEN s.last ELSE IF i = s.last THEN 0 ELSE i
    IN  [j \in DOMAIN s.pool |->
            [s.pool[swap(j)] EXCEPT
                !.succ = [k \in DOMAIN @ |-> swap(@[k])],
                !.preds = IF j = 0 /\ @ = 0 THEN 1 ELSE @]]

allocate_chp_events(st) == canonicalize(compact(remove_unreached(visit(Empty, st))))

\* Event 0 spawns the processes, whose events follow each other.
Spawn(processes, root) ==
    LET chunk == [p \in DOMAIN processes |-> allocate_chp_events(processes[p])]
        size(p) == Cardinality(DOMAIN chunk[p])
        offset[p \in 1 .. Len(processes) + 1] ==
            IF p = 1 THEN 1 ELSE offset[p - 1] + size(p - 1)
        Of(e) == CHOOSE p \in DOMAIN processes : offset[p] <= e /\ e < offset[p + 1]
        Global(ev, o) == [ev EXCEPT !.succ = [k \in DOMAIN @ |-> @[k] + o]]
    IN  [e \in 0 .. offset[Len(processes) + 1] - 1 |->
            IF e = 0
            THEN [root EXCEPT !.succ = [p \in DOMAIN processes |-> offset[p]]]
            ELSE Global(chunk[Of(e)][e - offset[Of(e)]], offset[Of(e)])]
=============================================================================
