---------------------------- MODULE MC_CfgIterator ----------------------------
(***************************************************************************)
(* Graphs of four nodes over one variable that ranges over 0..MaxValue:    *)
(* the edge out of a node is a test or a statement, and leads anywhere.    *)
(* The environments are intervals, whose transfer functions are the best   *)
(* ones and whose widening jumps to the extreme values.  Jumps into the    *)
(* middle of a loop are left out: no statement of the language makes one.  *)
(***************************************************************************)
EXTENDS CfgIterator, FiniteSetsExt

CONSTANTS MaxValue, StartValue, Conditions, MCDelays

W == INSTANCE Wto

Values == 0..MaxValue

MCEnv == {<<lo, hi>> \in Values \X Values : lo <= hi} \union {<<1, 0>>}
MCBottom == <<1, 0>>
MCGamma(e) == e[1]..e[2]
Alpha(X) == IF X = {} THEN MCBottom ELSE <<Min(X), Max(X)>>
MCLeq(a, b) == MCGamma(a) \subseteq MCGamma(b)
MCJoin(a, b) == Alpha(MCGamma(a) \union MCGamma(b))
MCWiden(a, b) ==
    IF a = MCBottom THEN b
    ELSE IF b = MCBottom THEN a
    ELSE <<IF b[1] < a[1] THEN 0 ELSE a[1], IF b[2] > a[2] THEN MaxValue ELSE a[2]>>

MCToken == {"cur", "true", "false", "return"}
MCAlarm == {"earlier", "high"}

\* A statement is a test, or a function from values to outcomes.
Test(C) == [test |-> TRUE, holds |-> C, step |-> << >>]
Step(f) == [test |-> FALSE, holds |-> {}, step |-> f]

MCSem(s, x) ==
    IF s.test THEN {<<IF x \in s.holds THEN "true" ELSE "false", x>>} ELSE {s.step[x]}

MCErrors(s, x) == IF ~s.test /\ x = MaxValue THEN {"high"} ELSE {}

MCTransfer(s, e) ==
    [out |-> [tk \in MCToken |->
                Alpha({o[2] : o \in {p \in UNION {MCSem(s, x) : x \in MCGamma(e)} : p[1] = tk}})],
     report |-> UNION {MCErrors(s, x) : x \in MCGamma(e)}]

Succ(edge) ==
    [n \in Node |->
        IF n \notin DOMAIN edge THEN << >>
        ELSE IF edge[n].stmt.test THEN <<edge[n].dst["true"], edge[n].dst["false"]>>
        ELSE <<edge[n].dst["cur"]>>]

Exit == Max(Node)

\* cfg_graph and cfg_order, flattened.
Graph(edge) ==
    LET order == W!WeakTopologicalOrder(Succ(edge), 1)
        spans == W!Spans(order, 1)
    IN [entry |-> 1, exit |-> Exit, edge |-> edge, order |-> W!Flatten(order),
        last  |-> [h \in {s[1] : s \in spans} |-> CHOOSE l \in 1..Cardinality(Node) : <<h, l>> \in spans]]

\* Structured: without the edges that lead back to a node that dominates their
\* source, there is no loop.
Structured(edge) ==
    LET succ == Succ(edge)
        away(d) == [n \in Node |-> IF n = d THEN << >> ELSE succ[n]]
        reached == W!Reachable(succ, 1)
        avoiding == [d \in Node |-> IF d = 1 THEN {} ELSE W!Reachable(away(d), 1) \ {d}]
        forward == [n \in Node |-> SelectSeq(succ[n], LAMBDA d : n \in avoiding[d])]
    IN \A n \in reached : \A i \in DOMAIN forward[n] : n \notin W!Reachable(forward, forward[n][i])

TestEdge(C, t, f) == [stmt |-> Test(C), dst |-> [tk \in {"true", "false"} |-> IF tk = "true" THEN t ELSE f]]
StepEdge(f, n) == [stmt |-> Step(f), dst |-> [tk \in {"cur"} |-> n]]

Increment == [x \in Values |-> IF x = MaxValue THEN <<"return", x>> ELSE <<"cur", x + 1>>]

SomeEdges ==
    {TestEdge(C, t, f) : C \in Conditions, t \in Node, f \in Node}
    \union {StepEdge(Increment, n) : n \in Node}

\* All structured graphs.
MCGraphs == {Graph(edge) : edge \in {e \in [Node \ {Exit} -> SomeEdges] : Structured(e)}}

\* while (C) x = f(x), for any f.
Whiles ==
    {Graph(<<TestEdge(C, 2, Exit), StepEdge(f, 1)>>)
        : C \in Conditions, f \in [Values -> {"cur"} \X Values]}

MCOptions == [delay : MCDelays, decr : {1}]

MCInFlows ==
    {[tmap |-> [tk \in MCToken |-> CASE tk = "cur" -> <<StartValue, StartValue>> [] tk = "return" -> <<1, 1>> [] OTHER -> MCBottom],
      report |-> {"earlier"}]}
===============================================================================
