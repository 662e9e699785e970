---------------------------------- MODULE Wto ----------------------------------
(***************************************************************************)
(* Weak topological orders, as weak_topological_order computes them        *)
(* (utils/containers/graph.ml, after Bourdoncle): one depth-first visit    *)
(* finds the strongly connected components and decomposes each of them     *)
(* again without its head.  An order is a sequence of elements, a node or  *)
(* a component; a component is a sequence that starts with its head.       *)
(***************************************************************************)
EXTENDS Integers, Sequences, SequencesExt, FiniteSets, Functions

Simple(n) == [node |-> n, list |-> << >>]
Composed(l) == [node |-> Head(l).node, list |-> l]
IsSimple(e) == e.list = << >>

(***************************************************************************)
(* succ maps a node to the sequence of its successors.  The state of the   *)
(* visit is [stack, index, idx, order]; index is -1 on finished nodes and  *)
(* undefined on unvisited ones.  Both visits return that state, Visit      *)
(* along with the least index that the node reaches on the stack.          *)
(***************************************************************************)
\* Fault: a node that is its own successor is not seen to be in a loop.
LoopsStrict(least, head) == least >= 0 /\ least < head

\* A successor that reaches no later than head closes a loop.
Loops(least, head) == least >= 0 /\ least <= head

RECURSIVE Visit(_, _, _), Component(_, _, _)

Visit(succ, node, st0) ==
    LET orghead == st0.idx + 1
        st == [st0 EXCEPT !.stack = <<node>> \o @, !.idx = orghead,
                          !.index = @ @@ (node :> orghead)]
        Scan(r, next) ==
            LET v == IF next \in DOMAIN r.st.index THEN [st |-> r.st, head |-> r.st.index[next]]
                     ELSE Visit(succ, next, r.st)
            IN IF Loops(v.head, r.head)
               THEN [st |-> v.st, head |-> v.head, loop |-> TRUE] ELSE [r EXCEPT !.st = v.st]
        r == FoldLeft(Scan, [st |-> st, head |-> orghead, loop |-> FALSE], succ[node])
    IN IF r.head # orghead THEN [st |-> r.st, head |-> r.head]
       ELSE LET k == CHOOSE i \in DOMAIN r.st.stack : r.st.stack[i] = node
                body == {r.st.stack[i] : i \in 1..(k - 1)}
                done == [r.st EXCEPT !.stack = SubSeq(@, k + 1, Len(@)),
                                     !.index = [Restrict(@, DOMAIN @ \ body) EXCEPT ![node] = -1]]
            IN [head |-> r.head,
                st   |-> IF r.loop THEN Component(succ, node, done)
                         ELSE [done EXCEPT !.order = <<Simple(node)>> \o @]]

Component(succ, node, st) ==
    LET Scan(s, next) == IF next \in DOMAIN s.index THEN s ELSE Visit(succ, next, s).st
        inner == FoldLeft(Scan, [st EXCEPT !.order = << >>], succ[node])
    IN [inner EXCEPT !.order = <<Composed(<<Simple(node)>> \o @)>> \o st.order]

WeakTopologicalOrder(succ, entry) ==
    Visit(succ, entry, [stack |-> << >>, index |-> << >>, idx |-> 0, order |-> << >>]).st.order

RECURSIVE Flatten(_)
Flatten(order) ==
    FoldLeft(LAMBDA s, e : s \o (IF IsSimple(e) THEN <<e.node>> ELSE Flatten(e.list)), << >>, order)

\* The components of an order whose first element is at a position: pairs of
\* the positions of their first and last nodes.
RECURSIVE Spans(_, _)
Spans(order, at) ==
    IF order = << >> THEN {}
    ELSE LET size == Len(Flatten(<<Head(order)>>))
         IN (IF IsSimple(Head(order)) THEN {}
             ELSE {<<at, at + size - 1>>} \union Spans(Tail(Head(order).list), at + 1))
            \union Spans(Tail(order), at + size)

Reachable(succ, entry) ==
    LET upTo[k \in 0..Cardinality(DOMAIN succ)] ==
            IF k = 0 THEN {entry}
            ELSE LET before == upTo[k - 1] IN before \union UNION {Range(succ[n]) : n \in before}
    IN upTo[Cardinality(DOMAIN succ)]
===============================================================================
