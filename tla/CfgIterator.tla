------------------------------ MODULE CfgIterator ------------------------------
(***************************************************************************)
(* The iterator on control flow graphs (languages/cfg/iterator.ml): it     *)
(* visits the nodes in a weak topological order, iterates each component   *)
(* until its head is stable, with widening at the head, then runs some     *)
(* decreasing iterations.  The environments of the nodes, the cached post  *)
(* of each edge and the entry live on tokens of the flow; here they are    *)
(* variables beside the flow.                                              *)
(*                                                                         *)
(* Graphs are those of cfg/frontend.ml: one entry and one exit, both on    *)
(* "cur", and at most one edge out of a node, from "cur" to one node for   *)
(* each of its ports; loops are entered at their heads only.  The body of  *)
(* a call may be another graph but not the one being iterated: recursion   *)
(* shares the tokens and is left out.                                      *)
(*                                                                         *)
(* The nested list that is the order is flattened: it is the sequence of   *)
(* its nodes, and the position where each component ends, by the position  *)
(* of its head.                                                            *)
(***************************************************************************)
EXTENDS Flows, Integers, Sequences

CONSTANTS
    Node,
    Graphs,           \* [entry, exit, edge, order, last]: edge maps nodes to
                      \* [stmt, dst], and dst maps ports to nodes; order is a
                      \* sequence of nodes and last maps positions to positions
    Sem(_, _),        \* Sem(s, x): pairs <<token, state>> that s reaches from x
    Errors(_, _),     \* Errors(s, x): alarms that s must report from x
    Transfer(_, _),   \* Transfer(s, e): [out : [Token -> Env], report]
    Options,          \* [delay, decr]: -widening-delay, -decreasing-iter
    InFlows,          \* flows that may reach the statement
    MaxSteps          \* executions of a graph have at most so many steps

PortsOf(g, n) == DOMAIN g.edge[n].dst
PortTokens(g) == {"cur"} \union UNION {PortsOf(g, n) : n \in DOMAIN g.edge}
Stmts == UNION {{g.edge[n].stmt : n \in DOMAIN g.edge} : g \in Graphs}

ASSUME CfgTokenAssumption == "cur" \in Token

ASSUME CfgInputAssumption == InFlows \subseteq Flow /\ MaxSteps \in Nat

ASSUME CfgOptionsAssumption == Options \subseteq [delay : Nat, decr : Nat]

ASSUME GraphsAssumption ==
    /\ IsFiniteSet(Node)
    /\ \A g \in Graphs :
         /\ g.entry \in Node /\ g.exit \in Node
         /\ DOMAIN g.edge \subseteq Node
         /\ \A n \in DOMAIN g.edge :
              /\ PortsOf(g, n) \subseteq Token /\ IsFiniteSet(PortsOf(g, n))
              /\ \A tk \in PortsOf(g, n) : g.edge[n].dst[tk] \in Node
         /\ g.order \in Seq(Node) /\ DOMAIN g.last \subseteq DOMAIN g.order
         /\ \A h \in DOMAIN g.last : g.last[h] \in DOMAIN g.order

\* A statement leaves on the ports of its edge or on tokens that lead nowhere
\* in the graph.
ASSUME CfgSemAssumption ==
    \A g \in Graphs : \A n \in DOMAIN g.edge, x \in State :
        \A o \in Sem(g.edge[n].stmt, x) :
            /\ o[1] \in Token /\ o[2] \in State
            /\ o[1] \in PortTokens(g) => o[1] \in PortsOf(g, n)

ASSUME CfgTransferAssumption ==
    \A s \in Stmts, e \in Env :
        /\ Transfer(s, e) \in [out : [Token -> Env], report : SUBSET Alarm]
        /\ \A x \in Gamma(e) :
             /\ \A o \in Sem(s, x) : o[2] \in Gamma(Transfer(s, e).out[o[1]])
             /\ Errors(s, x) \subseteq Transfer(s, e).report

VARIABLES
    graph, opts,
    flow_in,   \* the flow the handler was called with
    flow,      \* the flow, but for the tokens of the graph
    entry,     \* T_cfg_entry "cur"
    node,      \* T_cfg_node
    post,      \* T_cfg_edge_post, by source node and port
    tasks,     \* the calls of the recursive functions that are not finished,
               \* innermost last
    done,
    jumped     \* history: widening gave something else than its second argument

vars == <<graph, opts, flow_in, flow, entry, node, post, tasks, done, jumped>>

Edges == DOMAIN graph.edge
Ports(n) == PortsOf(graph, n)

\* The component whose head is at a position, 0 for the graph itself.
Heads == DOMAIN graph.last
LastOf(head) == IF head = 0 THEN Len(graph.order) ELSE graph.last[head]

(***************************************************************************)
(* The functions under way: analyze_component on what is left, from        *)
(* position at, of the list of a component; fix_component and              *)
(* refine_component on a component.                                        *)
(***************************************************************************)
List(head, at, weak) ==
    [op |-> "list", head |-> head, at |-> at, weak |-> weak, count |-> 0, old |-> Bottom]
Fix(head, count, old) ==
    [op |-> "fix", head |-> head, at |-> 0, weak |-> FALSE, count |-> count, old |-> old]
Refining(head, count) ==
    [op |-> "refine", head |-> head, at |-> 0, weak |-> FALSE, count |-> count, old |-> Bottom]

Task == tasks[Len(tasks)]
Doing(op) == tasks # << >> /\ Task.op = op
Becomes(task) == [tasks EXCEPT ![Len(tasks)] = task]
Returned == SubSeq(tasks, 1, Len(tasks) - 1)

AtEnd == Task.at > LastOf(Task.head)
AtSimple == Task.at = Task.head \/ Task.at \notin Heads
WideningNode == graph.order[Task.head]

\* flow_in: the current flow becomes the entry.
Init ==
    /\ graph \in Graphs /\ opts \in Options /\ flow_in \in InFlows
    /\ flow = Remove({"cur"}, flow_in)
    /\ entry = flow_in.tmap["cur"]
    /\ node = [n \in Node |-> Bottom]
    /\ post = [n \in Edges |-> [tk \in Ports(n) |-> Bottom]]
    /\ tasks = <<List(0, 1, FALSE)>>
    /\ done = FALSE /\ jumped = FALSE

-----------------------------------------------------------------------------

Incoming(n) == {e \in Edges \X Token : e[2] \in Ports(e[1]) /\ graph.edge[e[1]].dst[e[2]] = n}

\* The join of start and of the values of the members of I.
JoinOf(start, I, values) ==
    LET join[S \in SUBSET I] ==
            IF S = {} THEN start
            ELSE LET e == CHOOSE e \in S : TRUE IN EnvJoin(join[S \ {e}], values[e])
    IN join[I]

JoinPosts(n, start) ==
    JoinOf(start, Incoming(n), [e \in Incoming(n) |-> post[e[1]][e[2]]])

\* Fault: the entry of the graph is forgotten once the node has a value.
UpdateNodeOnce(weak, n) ==
    JoinPosts(n, IF weak THEN node[n] ELSE IF n = graph.entry /\ node[n] = Bottom THEN entry ELSE Bottom)

\* The new environment of a node.
UpdateNode(weak, n) ==
    LET old == IF weak THEN node[n] ELSE Bottom
    IN JoinPosts(n, IF n = graph.entry THEN EnvJoin(old, entry) ELSE old)

\* Fault: the other tokens are overwritten.
ExecAlone(s, f) ==
    LET r == Transfer(s, f.tmap["cur"])
    IN [tmap |-> r.out, report |-> f.report \union r.report]

\* man.exec: a statement acts on "cur" and leaves the other tokens in place.
Exec(s, f) ==
    LET r == Transfer(s, f.tmap["cur"])
    IN [tmap   |-> [tk \in Token |-> IF tk = "cur" THEN r.out[tk] ELSE EnvJoin(r.out[tk], f.tmap[tk])],
        report |-> f.report \union r.report]

\* The posts of the edge out of n, whose environment is e, and the flow.
ApplyEdge(n, e) ==
    LET f == Exec(graph.edge[n].stmt, Add("cur", e, flow))
    IN [post |-> [tk \in Ports(n) |-> f.tmap[tk]], flow |-> Remove({"cur"} \union Ports(n), f)]

\* analyze_component on a node, with propagate_node.
Propagate ==
    /\ Doing("list") /\ ~AtEnd /\ AtSimple
    /\ LET n == graph.order[Task.at]
           e == UpdateNode(Task.weak, n)
       IN /\ node' = [node EXCEPT ![n] = e]
          /\ IF n \in Edges
             THEN /\ post' = [post EXCEPT ![n] = ApplyEdge(n, e).post]
                  /\ flow' = ApplyEdge(n, e).flow
             ELSE UNCHANGED <<post, flow>>
    /\ tasks' = Becomes(List(Task.head, Task.at + 1, FALSE))
    /\ UNCHANGED <<graph, opts, flow_in, entry, done, jumped>>

\* analyze_component on a component: the first call of fix_component.
EnterComponent ==
    /\ Doing("list") /\ ~AtEnd /\ ~AtSimple
    /\ LET h == Task.at
       IN tasks' = Becomes(List(Task.head, graph.last[h] + 1, FALSE))
                   \o <<Fix(h, 0, node[graph.order[h]]), List(h, h, TRUE)>>
    /\ UNCHANGED <<graph, opts, flow_in, flow, entry, node, post, done, jumped>>

EndList ==
    /\ Doing("list") /\ AtEnd
    /\ tasks' = Returned
    /\ UNCHANGED <<graph, opts, flow_in, flow, entry, node, post, done, jumped>>

HeadStable == EnvLeq(node[WideningNode], Task.old)

\* fix_component, when the head is stable.
Stable ==
    /\ Doing("fix") /\ HeadStable
    /\ tasks' = Becomes(Refining(Task.head, 0))
    /\ UNCHANGED <<graph, opts, flow_in, flow, entry, node, post, done, jumped>>

\* fix_component, when it is not: another iteration from the widened head.
Unstable ==
    /\ Doing("fix") /\ ~HeadStable
    /\ LET widened == IF Task.count < opts.delay THEN node[WideningNode]
                      ELSE EnvWiden(Task.old, node[WideningNode])
       IN /\ node' = [node EXCEPT ![WideningNode] = widened]
          /\ tasks' = Append(Becomes(Fix(Task.head, Task.count + 1, widened)),
                             List(Task.head, Task.head, TRUE))
          /\ jumped' = (jumped \/ widened # node[WideningNode])
    /\ UNCHANGED <<graph, opts, flow_in, flow, entry, post, done>>

\* Fault: the decreasing iterations are not counted.
RefineForever ==
    /\ Doing("refine") /\ Task.count < opts.decr
    /\ tasks' = Append(tasks, List(Task.head, Task.head, FALSE))
    /\ UNCHANGED <<graph, opts, flow_in, flow, entry, node, post, done, jumped>>

\* Fault: one decreasing iteration too many.
RefineOneMore ==
    /\ Doing("refine") /\ Task.count <= opts.decr
    /\ tasks' = Append(Becomes(Refining(Task.head, Task.count + 1)),
                       List(Task.head, Task.head, FALSE))
    /\ UNCHANGED <<graph, opts, flow_in, flow, entry, node, post, done, jumped>>

\* refine_component: a decreasing iteration.
Refine ==
    /\ Doing("refine") /\ Task.count < opts.decr
    /\ tasks' = Append(Becomes(Refining(Task.head, Task.count + 1)),
                       List(Task.head, Task.head, FALSE))
    /\ UNCHANGED <<graph, opts, flow_in, flow, entry, node, post, done, jumped>>

Refined ==
    /\ Doing("refine") /\ Task.count >= opts.decr
    /\ tasks' = Returned
    /\ UNCHANGED <<graph, opts, flow_in, flow, entry, node, post, done, jumped>>

\* flow_out and cleanup.
Finish ==
    /\ tasks = << >> /\ ~done
    /\ flow' = Add("cur", node[graph.exit], flow)
    /\ entry' = Bottom
    /\ node' = [n \in Node |-> Bottom]
    /\ post' = [n \in Edges |-> [tk \in Ports(n) |-> Bottom]]
    /\ done' = TRUE
    /\ UNCHANGED <<graph, opts, flow_in, tasks, jumped>>

Next ==
    \/ Propagate \/ EnterComponent \/ EndList
    \/ Stable \/ Unstable \/ Refine \/ Refined \/ Finish

Spec == Init /\ [][Next]_vars

\* The analyzer runs alone: weak fairness of Next, which is enabled until done.
FairSpec == Spec /\ (<>[]done \/ []<><<Next>>_vars)

-----------------------------------------------------------------------------

\* Types; decreasing iterations stay within their budget.
TypeOK ==
    /\ opts \in Options /\ flow_in \in InFlows /\ flow \in Flow
    /\ entry \in Env /\ node \in [Node -> Env]
    /\ DOMAIN post = Edges /\ \A n \in Edges : post[n] \in [Ports(n) -> Env]
    /\ \A i \in DOMAIN tasks :
          /\ tasks[i].op \in {"list", "fix", "refine"} /\ tasks[i].old \in Env
          /\ tasks[i].op = "refine" => tasks[i].count <= opts.decr

(***************************************************************************)
(* What the iterator needs of the order: it holds the entry, first, and    *)
(* what it leads to, each node once; components are nested; an edge goes   *)
(* forward or to the head of a component that it starts in, where the      *)
(* iterator will look again; it enters a component at its head only.       *)
(***************************************************************************)
OrderValid ==
    LET N == Len(graph.order)
        Edge(i, j) == /\ graph.order[i] \in Edges
                      /\ \E tk \in Ports(graph.order[i]) :
                            graph.edge[graph.order[i]].dst[tk] = graph.order[j]
    IN /\ N >= 1 /\ graph.order[1] = graph.entry
       /\ \A i, j \in 1..N : graph.order[i] = graph.order[j] => i = j
       /\ \A i \in 1..N : graph.order[i] \in Edges =>
             \A tk \in Ports(graph.order[i]) :
                \E j \in 1..N : graph.edge[graph.order[i]].dst[tk] = graph.order[j]
       /\ \A h \in Heads : h <= graph.last[h]
       /\ \A h, k \in Heads : h < k /\ k <= graph.last[h] => graph.last[k] <= graph.last[h]
       /\ \A i, j \in 1..N : Edge(i, j) =>
             /\ i < j \/ (j \in Heads /\ i <= graph.last[j])
             /\ \A h \in Heads : h < j /\ j <= graph.last[h] => h <= i /\ i <= graph.last[h]

(***************************************************************************)
(* The concrete executions: pairs of a node and a state, from the entry.   *)
(***************************************************************************)
Successors(c) ==
    IF c[1] \notin Edges THEN {}
    ELSE {<<graph.edge[c[1]].dst[o[1]], o[2]>> :
             o \in {p \in Sem(graph.edge[c[1]].stmt, c[2]) : p[1] \in Ports(c[1])}}

Reached ==
    LET upTo[k \in 0..MaxSteps] ==
            IF k = 0 THEN {graph.entry} \X Gamma(flow_in.tmap["cur"])
            ELSE LET before == upTo[k - 1] IN before \union UNION {Successors(c) : c \in before}
    IN upTo[MaxSteps]

\* Every concrete execution of the graph is covered by the flow returned:
\* what reaches the exit, what leaves an edge on a token that is none of its
\* ports, and the alarms of every statement that is executed.
Soundness ==
    done => \A c \in Reached :
        /\ c[1] = graph.exit => c[2] \in Gamma(flow.tmap["cur"])
        /\ c[1] \in Edges =>
              /\ \A o \in Sem(graph.edge[c[1]].stmt, c[2]) :
                    o[1] \notin Ports(c[1]) => o[2] \in Gamma(flow.tmap[o[1]])
              /\ Errors(graph.edge[c[1]].stmt, c[2]) \subseteq flow.report

\* So it is when widening never jumps further than the environment computed.
SoundnessUnlessJumped == ~jumped => Soundness

\* The flows of the enclosing code and its alarms survive the graph, except on
\* the tokens that lead from node to node, which only graphs use.
EnclosingFlowKept ==
    done =>
        /\ \A tk \in Token \ PortTokens(graph) :
              Gamma(flow_in.tmap[tk]) \subseteq Gamma(flow.tmap[tk])
        /\ flow_in.report \subseteq flow.report

\* The iteration ends, nested components included.
Termination == <>done
===============================================================================
