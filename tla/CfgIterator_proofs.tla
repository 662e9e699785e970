-------------------------- MODULE CfgIterator_proofs --------------------------
(***************************************************************************)
(* Proofs about the iterator on control flow graphs, for any graphs,       *)
(* lattice, statements and budgets.                                        *)
(*                                                                         *)
(* Soundness rests on an invariant of the recursive functions under way.   *)
(* Executions that start at the head of a component and stay in it make up *)
(* a region.  The stack of tasks always holds the components that the      *)
(* position being visited is in, and only those; each list has covered the *)
(* region of its component up to its position; a component that is not on  *)
(* the stack covers all of its region from the value that its head has     *)
(* now; and a component that an iteration leaves stable is covered by what *)
(* its head had before that iteration, so its head is above all that comes *)
(* back to it.                                                             *)
(***************************************************************************)
EXTENDS CfgIterator, BasicFacts

-----------------------------------------------------------------------------
(***************************************************************************)
(* Joins of the posts that reach a node.                                   *)
(***************************************************************************)
\* What JoinOf needs of the function it computes with.
JoinTable(join, start, I, values) ==
    /\ join[{}] = start
    /\ \A S \in SUBSET I : S # {} => \E e \in S : join[S] = EnvJoin(join[S \ {e}], values[e])

\* The recursive function in JoinOf is defined on every set.
LEMMA JoinOfIs ==
  ASSUME NEW start, NEW I, IsFiniteSet(I), NEW values
  PROVE  \E join : JoinTable(join, start, I, values) /\ JoinOf(start, I, values) = join[I]
<1> DEFINE Some(S) == CHOOSE e \in S : TRUE
           Small(n) == {S \in SUBSET I : Cardinality(S) <= n}
           K == {n \in Nat : \E g : g = [S \in Small(n) |->
                    IF S = {} THEN start ELSE EnvJoin(g[S \ {Some(S)}], values[Some(S)])]}
<1>1. \A S \in SUBSET I : IsFiniteSet(S) /\ Cardinality(S) \in Nat /\ (Cardinality(S) = 0 <=> S = {})
  BY FS_Subset, FS_CardinalityType, FS_EmptySet
<1>2. \A n \in Nat : \A S \in Small(n + 1) : S # {} => S \ {Some(S)} \in Small(n)
  <2> SUFFICES ASSUME NEW n \in Nat, NEW S \in Small(n + 1), S # {}
               PROVE  S \ {Some(S)} \in Small(n)
    OBVIOUS
  <2>1. Some(S) \in S
    OBVIOUS
  <2> HIDE DEF Some
  <2>2. Cardinality(S \ {Some(S)}) = Cardinality(S) - 1
    BY <1>1, <2>1, FS_RemoveElement
  <2> QED BY <1>1, <2>2
<1>3. 0 \in K
  <2>1. Small(0) = {{}}
    BY <1>1, FS_EmptySet
  <2>2. [S \in Small(0) |-> start] = [S \in Small(0) |->
           IF S = {} THEN start ELSE EnvJoin([T \in Small(0) |-> start][S \ {Some(S)}], values[Some(S)])]
    BY <2>1, Zenon
  <2> QED BY <2>2
<1>4. ASSUME NEW n \in Nat, n \in K PROVE n + 1 \in K
  <2>1. PICK g : g = [S \in Small(n) |-> IF S = {} THEN start ELSE EnvJoin(g[S \ {Some(S)}], values[Some(S)])]
    BY <1>4
  <2> DEFINE h == [S \in Small(n + 1) |-> IF S = {} THEN start ELSE EnvJoin(g[S \ {Some(S)}], values[Some(S)])]
  <2>2. h = [S \in Small(n + 1) |-> IF S = {} THEN start ELSE EnvJoin(h[S \ {Some(S)}], values[Some(S)])]
    <3>1. ASSUME NEW S \in Small(n + 1), S # {}
          PROVE  g[S \ {Some(S)}] = h[S \ {Some(S)}]
      <4> DEFINE T == S \ {Some(S)}
      <4>1. T \in Small(n)
        BY <1>2, <3>1
      <4>2. T \in Small(n + 1)
        BY <4>1, <1>1
      <4> HIDE DEF T, Small, Some
      <4>3. g[T] = IF T = {} THEN start ELSE EnvJoin(g[T \ {Some(T)}], values[Some(T)])
        BY <2>1, <4>1, Zenon
      <4>4. h[T] = IF T = {} THEN start ELSE EnvJoin(g[T \ {Some(T)}], values[Some(T)])
        BY <4>2, Zenon
      <4> QED BY <4>3, <4>4, Zenon DEF T
    <3> HIDE DEF Small, Some
    <3>2. \A S \in Small(n + 1) : h[S] = IF S = {} THEN start ELSE EnvJoin(g[S \ {Some(S)}], values[Some(S)])
      BY Zenon
    <3>3. \A S \in Small(n + 1) : h[S] = IF S = {} THEN start ELSE EnvJoin(h[S \ {Some(S)}], values[Some(S)])
      BY <3>1, <3>2, Zenon
    <3>4. h = [S \in Small(n + 1) |-> h[S]]
      BY Zenon
    <3> HIDE DEF h
    <3> QED BY <3>3, <3>4, Zenon
  <2> HIDE DEF h, Small, Some
  <2>3. \E k : k = [S \in Small(n + 1) |-> IF S = {} THEN start ELSE EnvJoin(k[S \ {Some(S)}], values[Some(S)])]
    BY <2>2, Zenon
  <2>4. n + 1 \in Nat
    OBVIOUS
  <2> QED BY <2>3, <2>4, Zenon
<1>5. Cardinality(I) \in K
  <2> HIDE DEF K
  <2> QED BY <1>1, <1>3, <1>4, SetInduction
<1>6. Small(Cardinality(I)) = SUBSET I
  BY FS_Subset, FS_CardinalityType
<1> DEFINE join[S \in SUBSET I] ==
              IF S = {} THEN start
              ELSE LET e == CHOOSE e \in S : TRUE IN EnvJoin(join[S \ {e}], values[e])
<1>7. \E g : g = [S \in SUBSET I |->
                    IF S = {} THEN start ELSE EnvJoin(g[S \ {Some(S)}], values[Some(S)])]
  BY <1>5, <1>6
<1>8. join = [S \in SUBSET I |->
                    IF S = {} THEN start ELSE EnvJoin(join[S \ {Some(S)}], values[Some(S)])]
  BY <1>7, Zenon
<1>9. JoinOf(start, I, values) = join[I]
  BY Zenon DEF JoinOf
<1> HIDE DEF join
<1>10. join[{}] = start
  BY <1>8
<1>11. \A S \in SUBSET I : S # {} => \E e \in S : join[S] = EnvJoin(join[S \ {e}], values[e])
  <2> TAKE S \in SUBSET I
  <2> HAVE S # {}
  <2>1. Some(S) \in S
    OBVIOUS
  <2>2. join[S] = EnvJoin(join[S \ {Some(S)}], values[Some(S)])
    BY <1>8, Zenon
  <2> WITNESS Some(S) \in S
  <2> QED BY <2>2
<1> QED BY <1>9, <1>10, <1>11 DEF JoinTable

\* The join of the incoming environments is above each of them.
LEMMA JoinOfUpper ==
  ASSUME NEW start \in Env, NEW I, IsFiniteSet(I), NEW values, \A e \in I : values[e] \in Env
  PROVE  /\ JoinOf(start, I, values) \in Env
         /\ Gamma(start) \subseteq Gamma(JoinOf(start, I, values))
         /\ \A e \in I : Gamma(values[e]) \subseteq Gamma(JoinOf(start, I, values))
<1>1. PICK join : JoinTable(join, start, I, values) /\ JoinOf(start, I, values) = join[I]
  BY JoinOfIs, Zenon
<1> DEFINE Upper(S) == /\ join[S] \in Env /\ Gamma(start) \subseteq Gamma(join[S])
                       /\ \A e \in S : Gamma(values[e]) \subseteq Gamma(join[S])
           K == {n \in Nat : \A S \in SUBSET I : Cardinality(S) = n => Upper(S)}
<1>2. \A S \in SUBSET I : IsFiniteSet(S) /\ Cardinality(S) \in Nat /\ (Cardinality(S) = 0 <=> S = {})
  BY FS_Subset, FS_CardinalityType, FS_EmptySet
<1>3. 0 \in K
  BY <1>1, <1>2 DEF JoinTable
<1>4. ASSUME NEW n \in Nat, n \in K PROVE n + 1 \in K
  <2> HIDE DEF Upper
  <2> SUFFICES ASSUME NEW S \in SUBSET I, Cardinality(S) = n + 1 PROVE Upper(S)
    OBVIOUS
  <2> USE DEF Upper
  <2>1. S # {}
    BY <1>2
  <2>2. PICK e \in S : join[S] = EnvJoin(join[S \ {e}], values[e])
    BY <1>1, <2>1 DEF JoinTable
  <2> DEFINE T == S \ {e}
  <2>3. T \in SUBSET I /\ Cardinality(T) = n
    BY <1>2, FS_RemoveElement
  <2>4. Upper(T)
    BY <1>4, <2>3
  <2>5. values[e] \in Env
    OBVIOUS
  <2>6. join[S] \in Env /\ Gamma(join[T]) \subseteq Gamma(join[S]) /\ Gamma(values[e]) \subseteq Gamma(join[S])
    BY <2>2, <2>4, <2>5, LatticeAssumption
  <2> QED BY <2>4, <2>6
<1>5. Cardinality(I) \in K
  <2> HIDE DEF K
  <2> QED BY <1>2, <1>3, <1>4, SetInduction
<1> QED BY <1>1, <1>5

-----------------------------------------------------------------------------
(***************************************************************************)
(* Types.                                                                  *)
(***************************************************************************)
TaskTyped(t) ==
    /\ t.op \in {"list", "fix", "refine"} /\ t.old \in Env /\ t.count \in Nat
    /\ t.op = "refine" => t.count <= opts.decr
    /\ t.op # "list" => t.head \in Heads

Typed ==
    /\ graph \in Graphs /\ TypeOK
    /\ IsSeq(tasks) /\ \A i \in 1..Len(tasks) : TaskTyped(tasks[i])

\* A node that has a value has a finite number of incoming edges.
LEMMA IncomingFinite ==
  ASSUME Typed, NEW n
  PROVE  /\ IsFiniteSet(Incoming(n))
         /\ \A e \in Incoming(n) : e[1] \in Edges /\ e[2] \in Ports(e[1]) /\ post[e[1]][e[2]] \in Env
<1>1. IsFiniteSet(Edges) /\ Edges \subseteq Node
  BY GraphsAssumption, FS_Subset DEF Edges, Typed
<1>2. \A m \in Edges : IsFiniteSet(Ports(m)) /\ Ports(m) \subseteq Token
  BY GraphsAssumption DEF Edges, Ports, Typed
<1>3. IsFiniteSet(UNION {Ports(m) : m \in Edges})
  <2> DEFINE ports == [m \in Edges |-> Ports(m)]
  <2>1. ports \in Surjection(Edges, {Ports(m) : m \in Edges})
    BY DEF Surjection
  <2>2. IsFiniteSet({Ports(m) : m \in Edges})
    BY <1>1, <2>1, FS_Surjection
  <2> QED BY <2>2, <1>2, FS_UNION
<1>4. IsFiniteSet(Edges \X UNION {Ports(m) : m \in Edges})
  BY <1>1, <1>3, FS_Product
<1>5. Incoming(n) \subseteq Edges \X UNION {Ports(m) : m \in Edges}
  BY DEF Incoming
<1>6. IsFiniteSet(Incoming(n))
  BY <1>4, <1>5, FS_Subset
<1>7. \A e \in Incoming(n) : e[1] \in Edges /\ e[2] \in Ports(e[1])
  BY DEF Incoming
<1>8. \A e \in Incoming(n) : post[e[1]][e[2]] \in Env
  BY <1>7 DEF Typed, TypeOK
<1> QED BY <1>6, <1>7, <1>8

\* The new value of a node is above the posts of its incoming edges, above the
\* entry of the graph if the node is that, and above its old value if weak.
LEMMA UpdateNodeUpper ==
  ASSUME Typed, NEW n \in Node, NEW weak
  PROVE  /\ UpdateNode(weak, n) \in Env
         /\ \A e \in Incoming(n) : Gamma(post[e[1]][e[2]]) \subseteq Gamma(UpdateNode(weak, n))
         /\ n = graph.entry => Gamma(entry) \subseteq Gamma(UpdateNode(weak, n))
<1> DEFINE old == IF weak THEN node[n] ELSE Bottom
           start == IF n = graph.entry THEN EnvJoin(old, entry) ELSE old
           values == [e \in Incoming(n) |-> post[e[1]][e[2]]]
<1>1. old \in Env /\ entry \in Env
  BY LatticeAssumption DEF Typed, TypeOK
<1>2. start \in Env /\ (n = graph.entry => Gamma(entry) \subseteq Gamma(start))
  BY <1>1, LatticeAssumption
<1>3. IsFiniteSet(Incoming(n)) /\ \A e \in Incoming(n) : values[e] = post[e[1]][e[2]] /\ values[e] \in Env
  BY IncomingFinite
<1>4. UpdateNode(weak, n) = JoinOf(start, Incoming(n), values)
  BY DEF UpdateNode, JoinPosts
<1> HIDE DEF start, values
<1>5. /\ JoinOf(start, Incoming(n), values) \in Env
      /\ Gamma(start) \subseteq Gamma(JoinOf(start, Incoming(n), values))
      /\ \A e \in Incoming(n) : Gamma(values[e]) \subseteq Gamma(JoinOf(start, Incoming(n), values))
  BY <1>2, <1>3, JoinOfUpper
<1> QED BY <1>2, <1>3, <1>4, <1>5

\* Executing the edge out of a node covers its statement, on the ports and off
\* them, and keeps what the flow has on tokens that are nobody's port.
LEMMA ApplyEdgeSound ==
  ASSUME Typed, NEW n \in Edges, NEW e \in Env
  PROVE  LET r == ApplyEdge(n, e)
             s == graph.edge[n].stmt
         IN /\ r.flow \in Flow /\ r.post \in [Ports(n) -> Env]
            /\ \A tk \in Token \ PortTokens(graph) : Gamma(flow.tmap[tk]) \subseteq Gamma(r.flow.tmap[tk])
            /\ flow.report \subseteq r.flow.report
            /\ \A x \in Gamma(e) :
                  /\ \A o \in Sem(s, x) :
                        IF o[1] \in Ports(n) THEN o[2] \in Gamma(r.post[o[1]])
                        ELSE o[1] \in Token \ PortTokens(graph) /\ o[2] \in Gamma(r.flow.tmap[o[1]])
                  /\ Errors(s, x) \subseteq r.flow.report
<1> DEFINE s == graph.edge[n].stmt
           g == Add("cur", e, flow)
           t == Transfer(s, g.tmap["cur"])
           f == Exec(s, g)
<1>1. /\ graph \in Graphs /\ n \in DOMAIN graph.edge /\ Ports(n) = PortsOf(graph, n)
      /\ Ports(n) \subseteq PortTokens(graph) /\ "cur" \in PortTokens(graph) /\ Ports(n) \subseteq Token
  BY GraphsAssumption DEF Edges, Ports, PortTokens, Typed
<1>2. s \in Stmts
  BY <1>1 DEF Stmts
<1>3. flow \in Flow /\ flow.tmap \in [Token -> Env] /\ flow.report \in SUBSET Alarm
  BY DEF Typed, TypeOK, Flow
<1>4. /\ g.tmap \in [Token -> Env] /\ g.report = flow.report
      /\ Gamma(e) \subseteq Gamma(g.tmap["cur"])
      /\ \A tk \in Token \ {"cur"} : g.tmap[tk] = flow.tmap[tk]
  BY <1>3, LatticeAssumption, CfgTokenAssumption DEF Add, Set
<1>5. /\ t.out \in [Token -> Env] /\ t.report \in SUBSET Alarm
      /\ \A x \in Gamma(g.tmap["cur"]) :
            /\ \A o \in Sem(s, x) : o[2] \in Gamma(t.out[o[1]])
            /\ Errors(s, x) \subseteq t.report
  BY <1>2, <1>4, CfgTransferAssumption, CfgTokenAssumption
<1>6. /\ f.tmap = [tk \in Token |-> IF tk = "cur" THEN t.out[tk] ELSE EnvJoin(t.out[tk], g.tmap[tk])]
      /\ f.report = flow.report \union t.report
  BY <1>4 DEF Exec
<1>7. ApplyEdge(n, e).post = [tk \in Ports(n) |-> f.tmap[tk]] /\ ApplyEdge(n, e).flow = Remove({"cur"} \union Ports(n), f)
  BY DEF ApplyEdge
<1> HIDE DEF g, t, f
<1>8. /\ f.tmap \in [Token -> Env]
      /\ \A tk \in Token : Gamma(t.out[tk]) \subseteq Gamma(f.tmap[tk])
      /\ \A tk \in Token \ {"cur"} : Gamma(flow.tmap[tk]) \subseteq Gamma(f.tmap[tk])
  BY <1>3, <1>4, <1>5, <1>6, LatticeAssumption
<1> DEFINE rf == ApplyEdge(n, e).flow
           rp == ApplyEdge(n, e).post
<1>9. rf = [tmap |-> [tk \in Token |-> IF tk \in {"cur"} \union Ports(n) THEN Bottom ELSE f.tmap[tk]],
            report |-> f.report]
  BY <1>7 DEF Remove
<1> HIDE DEF rf, rp
<1>10. /\ \A tk \in Token \ PortTokens(graph) : rf.tmap[tk] = f.tmap[tk]
       /\ rf.report = f.report
  BY <1>1, <1>9
<1>11. rf \in Flow
  BY <1>3, <1>5, <1>6, <1>8, <1>9, LatticeAssumption DEF Flow
<1>12. rp \in [Ports(n) -> Env] /\ \A tk \in Ports(n) : rp[tk] = f.tmap[tk]
  BY <1>1, <1>7, <1>8 DEF rp
<1>13. ASSUME NEW x \in Gamma(e)
       PROVE  /\ \A o \in Sem(s, x) :
                    IF o[1] \in Ports(n) THEN o[2] \in Gamma(rp[o[1]])
                    ELSE o[1] \in Token \ PortTokens(graph) /\ o[2] \in Gamma(rf.tmap[o[1]])
              /\ Errors(s, x) \subseteq rf.report
  <2>1. x \in State /\ x \in Gamma(g.tmap["cur"])
    BY <1>4, LatticeAssumption
  <2>2. Errors(s, x) \subseteq rf.report
    BY <2>1, <1>5, <1>6, <1>10
  <2>3. ASSUME NEW o \in Sem(s, x)
        PROVE  o[1] \in Token /\ (o[1] \in PortTokens(graph) => o[1] \in Ports(n)) /\ o[2] \in Gamma(f.tmap[o[1]])
    <3>1. o[1] \in Token /\ (o[1] \in PortTokens(graph) => o[1] \in Ports(n))
      BY <1>1, <2>1, CfgSemAssumption
    <3>2. o[2] \in Gamma(t.out[o[1]])
      BY <1>5, <2>1
    <3> QED BY <1>8, <3>1, <3>2
  <2> QED BY <2>2, <2>3, <1>10, <1>12
<1>14. \A tk \in Token \ PortTokens(graph) : Gamma(flow.tmap[tk]) \subseteq Gamma(rf.tmap[tk])
  BY <1>1, <1>8, <1>10
<1>15. flow.report \subseteq rf.report
  BY <1>6, <1>10
<1> QED BY <1>11, <1>12, <1>13, <1>14, <1>15 DEF rf, rp

\* The tasks stay typed when those that are new or replaced are.
LEMMA TasksTyped ==
  ASSUME Typed, graph' = graph, opts' = opts, IsSeq(tasks'),
         \A i \in 1..Len(tasks') : (i \in 1..Len(tasks) /\ tasks'[i] = tasks[i]) \/ TaskTyped(tasks'[i])
  PROVE  /\ \A i \in 1..Len(tasks') : TaskTyped(tasks[i])'
         /\ \A i \in DOMAIN tasks' :
               /\ tasks'[i].op \in {"list", "fix", "refine"} /\ tasks'[i].old \in Env
               /\ tasks'[i].op = "refine" => tasks'[i].count <= opts'.decr
<1>1. \A t : TaskTyped(t) => TaskTyped(t)'
  BY DEF TaskTyped, Heads
<1>2. ASSUME NEW i \in 1..Len(tasks') PROVE TaskTyped(tasks'[i])
  BY DEF Typed
<1>3. \A i \in 1..Len(tasks') : TaskTyped(tasks[i])'
  BY <1>2 DEF TaskTyped, Heads
<1>4. DOMAIN tasks' = 1..Len(tasks')
  BY DEF IsSeq
<1> QED BY <1>2, <1>3, <1>4 DEF TaskTyped

LEMMA InitTyped == Init => Typed
<1> SUFFICES ASSUME Init PROVE Typed
  OBVIOUS
<1>1. /\ flow_in.tmap \in [Token -> Env] /\ flow_in.report \in SUBSET Alarm
      /\ opts.decr \in Nat /\ graph \in Graphs /\ flow_in \in InFlows /\ opts \in Options
  BY CfgInputAssumption, CfgOptionsAssumption DEF Init, Flow
<1>2. flow \in Flow /\ entry \in Env
  BY <1>1, LatticeAssumption, CfgTokenAssumption DEF Init, Remove, Flow
<1>3. node \in [Node -> Env] /\ DOMAIN post = Edges /\ \A n \in Edges : post[n] \in [Ports(n) -> Env]
  BY LatticeAssumption DEF Init
<1>4. tasks = <<List(0, 1, FALSE)>>
  BY DEF Init
<1>5. IsSeq(tasks) /\ Len(tasks) = 1 /\ tasks[1] = List(0, 1, FALSE)
  BY <1>4 DEF IsSeq
<1>6. TaskTyped(List(0, 1, FALSE))
  BY LatticeAssumption DEF TaskTyped, List
<1>7. ASSUME NEW i \in 1..Len(tasks) PROVE TaskTyped(tasks[i])
  <2>1. i = 1
    BY <1>5
  <2> QED BY <2>1, <1>5, <1>6
<1>8. DOMAIN tasks = 1..Len(tasks)
  BY <1>5 DEF IsSeq
<1> QED BY <1>1, <1>2, <1>3, <1>5, <1>7, <1>8 DEF Typed, TypeOK, TaskTyped

\* The stack after the actions: its last task popped, replaced, replaced and
\* another one pushed, or two.
Kept(old, new) == \A i \in 1..(Len(old) - 1) : new[i] = old[i]

Popped(old, new) ==
    IsSeq(new) /\ Len(new) = Len(old) - 1 /\ Kept(old, new)
Replaced(old, new, s) ==
    IsSeq(new) /\ Len(new) = Len(old) /\ new[Len(old)] = s /\ Kept(old, new)
Pushed(old, new, s, t) ==
    /\ IsSeq(new) /\ Len(new) = Len(old) + 1 /\ Kept(old, new)
    /\ new[Len(old)] = s /\ new[Len(old) + 1] = t
PushedTwo(old, new, s, t, u) ==
    /\ IsSeq(new) /\ Len(new) = Len(old) + 2 /\ Kept(old, new)
    /\ new[Len(old)] = s /\ new[Len(old) + 1] = t /\ new[Len(old) + 2] = u

LEMMA TaskFacts ==
  ASSUME Typed, tasks # << >>
  PROVE  IsSeq(tasks) /\ Len(tasks) \in Nat /\ Len(tasks) >= 1 /\ Task = tasks[Len(tasks)] /\ TaskTyped(Task)
<1>1. IsSeq(tasks) /\ Len(tasks) \in Nat /\ Len(tasks) >= 1
  BY NotEmptyFacts DEF Typed, IsSeq
<1> QED BY <1>1 DEF Typed, Task

LEMMA ReturnedIs == Typed /\ tasks # << >> => Popped(tasks, Returned)
BY TaskFacts, PrefixFacts DEF Popped, Kept, Returned

LEMMA BecomesIs == ASSUME Typed, tasks # << >>, NEW s PROVE Replaced(tasks, Becomes(s), s)
BY TaskFacts, ReplaceLastFacts DEF Replaced, Kept, Becomes

LEMMA BecomesThenPushed ==
  ASSUME Typed, tasks # << >>, NEW s, NEW t
  PROVE  Pushed(tasks, Append(Becomes(s), t), s, t)
<1> DEFINE b == Becomes(s)
<1>1. Len(tasks) \in Nat /\ Len(tasks) >= 1 /\ Replaced(tasks, b, s)
  BY TaskFacts, BecomesIs
<1> HIDE DEF b
<1>2. /\ IsSeq(Append(b, t)) /\ Len(Append(b, t)) = Len(b) + 1
      /\ \A i \in 1..Len(b) : Append(b, t)[i] = b[i]
      /\ Append(b, t)[Len(b) + 1] = t
  BY <1>1, AppendFacts DEF Replaced
<1>3. Pushed(tasks, Append(b, t), s, t)
  BY <1>1, <1>2 DEF Replaced, Pushed, Kept
<1> QED BY <1>3 DEF b

LEMMA BecomesThenPushedTwo ==
  ASSUME Typed, tasks # << >>, NEW s, NEW t, NEW u
  PROVE  PushedTwo(tasks, Becomes(s) \o <<t, u>>, s, t, u)
<1> DEFINE b == Becomes(s)
           ts == b \o <<t, u>>
<1>1. Len(tasks) \in Nat /\ Len(tasks) >= 1 /\ Replaced(tasks, b, s)
  BY TaskFacts, BecomesIs
<1> HIDE DEF b
<1>2. /\ IsSeq(ts) /\ Len(ts) = Len(b) + 2 /\ \A i \in 1..Len(b) : ts[i] = b[i]
      /\ ts[Len(b) + 1] = t /\ ts[Len(b) + 2] = u
  BY <1>1, PushTwoFacts DEF Replaced
<1> HIDE DEF ts
<1>3. PushedTwo(tasks, ts, s, t, u)
  BY <1>1, <1>2 DEF Replaced, PushedTwo, Kept
<1> QED BY <1>3 DEF b, ts

\* Typed for a step that is typed except for the tasks.
DataTyped ==
    /\ graph \in Graphs /\ opts \in Options /\ flow_in \in InFlows /\ flow \in Flow
    /\ entry \in Env /\ node \in [Node -> Env]
    /\ DOMAIN post = Edges /\ \A n \in Edges : post[n] \in [Ports(n) -> Env]

LEMMA TypedWhen ==
  ASSUME Typed, DataTyped', graph' = graph, opts' = opts, IsSeq(tasks'),
         \A i \in 1..Len(tasks') : (i \in 1..Len(tasks) /\ tasks'[i] = tasks[i]) \/ TaskTyped(tasks'[i])
  PROVE  Typed'
BY TasksTyped DEF Typed, TypeOK, DataTyped

LEMMA SameData ==
  ASSUME Typed, UNCHANGED <<graph, opts, flow_in, flow, entry, node, post>>
  PROVE  DataTyped'
BY DEF Typed, TypeOK, DataTyped, Edges, Ports

\* Propagate: the node has the new value, the edge out of it its posts, and
\* the rest of the flow has grown.
LEMMA PropagateData ==
  ASSUME Typed, Propagate
  PROVE  LET n == graph.order[Task.at]
             e == UpdateNode(Task.weak, n)
         IN /\ DataTyped'
            /\ n \in Node => e \in Env
            /\ n \in Edges => /\ flow' = ApplyEdge(n, e).flow
                              /\ post' = [post EXCEPT ![n] = ApplyEdge(n, e).post]
            /\ n \notin Edges => flow' = flow /\ post' = post
            /\ node' = [node EXCEPT ![n] = e]
<1> DEFINE n == graph.order[Task.at]
           e == UpdateNode(Task.weak, n)
<1>1. /\ node' = [node EXCEPT ![n] = e]
      /\ n \in Edges => /\ flow' = ApplyEdge(n, e).flow
                        /\ post' = [post EXCEPT ![n] = ApplyEdge(n, e).post]
      /\ n \notin Edges => flow' = flow /\ post' = post
      /\ UNCHANGED <<graph, opts, flow_in, entry>>
  BY Zenon DEF Propagate
<1>2. n \in Node => e \in Env
  BY UpdateNodeUpper
<1>3. Edges \subseteq Node
  BY GraphsAssumption DEF Edges, Typed
<1> HIDE DEF n, e
<1>4. node' \in [Node -> Env]
  <2>1. node \in [Node -> Env]
    BY DEF Typed, TypeOK
  <2> QED BY <2>1, <1>1, <1>2
<1>5. n \in Edges => flow' \in Flow /\ ApplyEdge(n, e).post \in [Ports(n) -> Env]
  BY <1>1, <1>2, <1>3, ApplyEdgeSound
<1>6. flow' \in Flow
  BY <1>1, <1>5 DEF Typed, TypeOK
<1>7. Edges' = Edges /\ \A m : Ports(m)' = Ports(m)
  BY <1>1 DEF Edges, Ports
<1>8. DOMAIN post' = Edges /\ \A m \in Edges : post'[m] \in [Ports(m) -> Env]
  <2>1. DOMAIN post = Edges /\ \A m \in Edges : post[m] \in [Ports(m) -> Env]
    BY DEF Typed, TypeOK
  <2>2. CASE n \notin Edges
    BY <2>1, <2>2, <1>1
  <2>3. CASE n \in Edges
    <3>1. post' = [post EXCEPT ![n] = ApplyEdge(n, e).post]
      BY <2>3, <1>1
    <3> DEFINE p == ApplyEdge(n, e).post
    <3>2. p \in [Ports(n) -> Env]
      BY <2>3, <1>5
    <3> HIDE DEF p
    <3>3. DOMAIN post' = Edges
      BY <2>1, <3>1
    <3>4. \A m \in Edges : post'[m] = IF m = n THEN p ELSE post[m]
      BY <2>1, <3>1 DEF p
    <3> QED BY <2>1, <3>2, <3>3, <3>4
  <2> QED BY <2>2, <2>3
<1>9. DataTyped'
  <2>1. graph' \in Graphs /\ opts' \in Options /\ flow_in' \in InFlows /\ entry' \in Env
    BY <1>1 DEF Typed, TypeOK
  <2>2. DOMAIN post' = Edges' /\ \A m \in Edges' : post'[m] \in [Ports(m)' -> Env]
    BY <1>7, <1>8
  <2> QED BY <2>1, <2>2, <1>4, <1>6 DEF DataTyped
<1> QED BY <1>1, <1>2, <1>9 DEF n, e

LEMMA FinishData ==
  ASSUME Typed, Finish
  PROVE  DataTyped' /\ \A tk \in Token \ {"cur"} : flow'.tmap[tk] = flow.tmap[tk] /\ flow'.report = flow.report
<1>1. node[graph.exit] \in Env /\ flow.tmap \in [Token -> Env] /\ flow.report \in SUBSET Alarm
  BY GraphsAssumption DEF Typed, TypeOK, Flow
<1> DEFINE e == EnvJoin(node[graph.exit], flow.tmap["cur"])
<1>2. e \in Env
  BY <1>1, LatticeAssumption, CfgTokenAssumption
<1>3. flow' = [tmap |-> [flow.tmap EXCEPT !["cur"] = e], report |-> flow.report]
  BY DEF Finish, Add, Set
<1> HIDE DEF e
<1>4. flow' \in Flow /\ \A tk \in Token \ {"cur"} : flow'.tmap[tk] = flow.tmap[tk] /\ flow'.report = flow.report
  BY <1>1, <1>2, <1>3 DEF Flow
<1>5. entry' \in Env /\ node' \in [Node -> Env]
  BY LatticeAssumption DEF Finish
<1>6. UNCHANGED <<graph, opts, flow_in>>
  BY DEF Finish
<1>7. DOMAIN post' = Edges' /\ \A n \in Edges' : post'[n] \in [Ports(n)' -> Env]
  <2>1. post' = [n \in Edges |-> [tk \in Ports(n) |-> Bottom]]
    BY DEF Finish
  <2>2. Edges' = Edges /\ \A m : Ports(m)' = Ports(m)
    BY <1>6 DEF Edges, Ports
  <2> QED BY <2>1, <2>2, LatticeAssumption
<1> QED BY <1>4, <1>5, <1>6, <1>7 DEF DataTyped, Typed, TypeOK

LEMMA UnstableData ==
  ASSUME Typed, Unstable
  PROVE  /\ DataTyped'
         /\ Task.head \in Heads /\ WideningNode \in Node
         /\ ~ jumped' => ~ jumped /\ node' = node
         /\ \E widened \in Env :
               /\ node' = [node EXCEPT ![WideningNode] = widened]
               /\ tasks' = Append(Becomes(Fix(Task.head, Task.count + 1, widened)), List(Task.head, Task.head, TRUE))
<1> DEFINE widened == IF Task.count < opts.delay THEN node[WideningNode]
                      ELSE EnvWiden(Task.old, node[WideningNode])
<1>1. TaskTyped(Task) /\ Task.op = "fix"
  BY TaskFacts DEF Unstable, Doing
<1>2. Task.head \in Heads /\ WideningNode \in Node
  BY <1>1, GraphsAssumption DEF TaskTyped, WideningNode, Heads, Typed
<1>3. node \in [Node -> Env]
  BY DEF Typed, TypeOK
<1>4. widened \in Env
  BY <1>1, <1>2, <1>3, LatticeAssumption DEF TaskTyped
<1>5. /\ node' = [node EXCEPT ![WideningNode] = widened]
      /\ tasks' = Append(Becomes(Fix(Task.head, Task.count + 1, widened)), List(Task.head, Task.head, TRUE))
      /\ jumped' = (jumped \/ widened # node[WideningNode])
      /\ UNCHANGED <<graph, opts, flow_in, flow, entry, post>>
  BY DEF Unstable
<1> HIDE DEF widened
<1>6. node' \in [Node -> Env] /\ (widened = node[WideningNode] => node' = node)
  BY <1>2, <1>3, <1>4, <1>5
<1>7. DataTyped'
  BY <1>5, <1>6 DEF DataTyped, Typed, TypeOK, Edges, Ports
<1> QED BY <1>2, <1>4, <1>5, <1>6, <1>7

\* The tasks that the actions create are typed.
LEMMA NewTasksTyped ==
  /\ \A h, at, weak : TaskTyped(List(h, at, weak))
  /\ \A h \in Heads, c \in Nat, e \in Env : TaskTyped(Fix(h, c, e))
  /\ \A h \in Heads, c \in Nat : c <= opts.decr => TaskTyped(Refining(h, c))
BY LatticeAssumption DEF TaskTyped, List, Fix, Refining

LEMMA TypedStep == Typed /\ [Next]_vars => Typed'
<1> SUFFICES ASSUME Typed, [Next]_vars PROVE Typed'
  OBVIOUS
<1>1. graph' = graph /\ opts' = opts
  BY DEF Next, Propagate, EnterComponent, EndList, Stable, Unstable, Refine, Refined, Finish, vars
<1>2. IsSeq(tasks) /\ Len(tasks) \in Nat
  BY DEF Typed, IsSeq
<1>3. ASSUME DataTyped', tasks # << >>, NEW s, NEW t, NEW u, TaskTyped(s), TaskTyped(t), TaskTyped(u),
             \/ Popped(tasks, tasks') \/ Replaced(tasks, tasks', s)
             \/ Pushed(tasks, tasks', s, t) \/ PushedTwo(tasks, tasks', s, t, u)
      PROVE  Typed'
  <2>1. IsSeq(tasks')
    BY <1>3 DEF Popped, Replaced, Pushed, PushedTwo
  <2>2. \A i \in 1..Len(tasks') : (i \in 1..Len(tasks) /\ tasks'[i] = tasks[i]) \/ TaskTyped(tasks'[i])
    BY <1>2, <1>3, TaskFacts DEF Popped, Replaced, Pushed, PushedTwo, Kept
  <2> QED BY <1>1, <1>3, <2>1, <2>2, TypedWhen
<1>4. TaskTyped(List(0, 0, FALSE))
  BY NewTasksTyped
<1>5. CASE Propagate
  <2> DEFINE t == List(Task.head, Task.at + 1, FALSE)
  <2>1. tasks # << >> /\ tasks' = Becomes(t)
    BY <1>5 DEF Propagate, Doing
  <2>2. DataTyped' /\ TaskTyped(t)
    BY <1>5, PropagateData, NewTasksTyped
  <2> HIDE DEF t
  <2>3. Replaced(tasks, tasks', t)
    BY <2>1, BecomesIs
  <2> QED BY <1>3, <2>1, <2>2, <2>3
<1>6. CASE EnterComponent
  <2> DEFINE h == Task.at
             s == List(Task.head, graph.last[h] + 1, FALSE)
             t == Fix(h, 0, node[graph.order[h]])
             u == List(h, h, TRUE)
  <2>1. tasks # << >> /\ h \in Heads /\ tasks' = Becomes(s) \o <<t, u>>
    BY <1>6, Zenon DEF EnterComponent, Doing, AtSimple
  <2>2. DataTyped'
    BY <1>6, SameData DEF EnterComponent
  <2>3. node[graph.order[h]] \in Env
    BY <2>1, GraphsAssumption DEF Heads, Typed, TypeOK
  <2>4. TaskTyped(s) /\ TaskTyped(t) /\ TaskTyped(u)
    BY <2>1, <2>3, NewTasksTyped
  <2> HIDE DEF s, t, u
  <2>5. PushedTwo(tasks, tasks', s, t, u)
    BY <2>1, BecomesThenPushedTwo
  <2> QED BY <1>3, <2>1, <2>2, <2>4, <2>5
<1>7. CASE EndList
  <2>1. tasks # << >> /\ tasks' = Returned /\ DataTyped'
    BY <1>7, SameData DEF EndList, Doing
  <2>2. Popped(tasks, tasks')
    BY <2>1, ReturnedIs
  <2> QED BY <1>3, <1>4, <2>1, <2>2
<1>8. CASE Stable
  <2> DEFINE t == Refining(Task.head, 0)
  <2>1. tasks # << >> /\ tasks' = Becomes(t) /\ DataTyped' /\ Task.op = "fix"
    BY <1>8, SameData DEF Stable, Doing
  <2>2. Task.head \in Heads /\ 0 \in Nat /\ 0 <= opts.decr
    BY <2>1, TaskFacts, CfgOptionsAssumption DEF TaskTyped, Typed, TypeOK
  <2>3. TaskTyped(t)
    BY <2>2, NewTasksTyped
  <2> HIDE DEF t
  <2>4. Replaced(tasks, tasks', t)
    BY <2>1, BecomesIs
  <2> QED BY <1>3, <2>1, <2>3, <2>4
<1>9. CASE Unstable
  <2>1. DataTyped' /\ Task.head \in Heads
    BY <1>9, UnstableData
  <2>2. PICK widened \in Env :
           tasks' = Append(Becomes(Fix(Task.head, Task.count + 1, widened)), List(Task.head, Task.head, TRUE))
    BY <1>9, UnstableData
  <2>3. tasks # << >>
    BY <1>9 DEF Unstable, Doing
  <2>4. Task.count + 1 \in Nat
    BY <2>3, TaskFacts DEF TaskTyped
  <2> DEFINE s == Fix(Task.head, Task.count + 1, widened)
             t == List(Task.head, Task.head, TRUE)
  <2>5. TaskTyped(s) /\ TaskTyped(t) /\ tasks' = Append(Becomes(s), t)
    BY <2>1, <2>2, <2>4, NewTasksTyped
  <2> HIDE DEF s, t
  <2>6. Pushed(tasks, tasks', s, t)
    BY <2>3, <2>5, BecomesThenPushed
  <2> QED BY <1>3, <2>1, <2>3, <2>5, <2>6
<1>10. CASE Refine
  <2> DEFINE s == Refining(Task.head, Task.count + 1)
             t == List(Task.head, Task.head, FALSE)
  <2>1. /\ tasks # << >> /\ Task.op = "refine" /\ Task.count < opts.decr
        /\ tasks' = Append(Becomes(s), t) /\ DataTyped'
    BY <1>10, SameData DEF Refine, Doing
  <2>2. Task.head \in Heads /\ Task.count + 1 \in Nat /\ Task.count + 1 <= opts.decr
    BY <2>1, TaskFacts, CfgOptionsAssumption DEF TaskTyped, Typed, TypeOK
  <2>3. TaskTyped(s) /\ TaskTyped(t)
    BY <2>2, NewTasksTyped
  <2> HIDE DEF s, t
  <2>4. Pushed(tasks, tasks', s, t)
    BY <2>1, BecomesThenPushed
  <2> QED BY <1>3, <2>1, <2>3, <2>4
<1>11. CASE Refined
  <2>1. tasks # << >> /\ tasks' = Returned /\ DataTyped'
    BY <1>11, SameData DEF Refined, Doing
  <2>2. Popped(tasks, tasks')
    BY <2>1, ReturnedIs
  <2> QED BY <1>3, <1>4, <2>1, <2>2
<1>12. CASE Finish
  <2>1. DataTyped' /\ tasks' = tasks
    BY <1>12, FinishData DEF Finish
  <2> QED BY <2>1, <1>1, <1>2, TypedWhen
<1>13. CASE UNCHANGED vars
  <2>1. DataTyped' /\ tasks' = tasks
    BY <1>13, SameData DEF vars
  <2> QED BY <2>1, <1>1, <1>2, TypedWhen
<1> QED BY <1>5, <1>6, <1>7, <1>8, <1>9, <1>10, <1>11, <1>12, <1>13 DEF Next

LEMMA TypedAlways == Spec => []Typed
<1> QED BY InitTyped, TypedStep, PTL DEF Spec

\* The state of the iterator is well typed, and the decreasing iterations of
\* a component stay within their budget, for every set of graphs.
THEOREM CfgTypeCorrect == Spec => []TypeOK
<1>1. Typed => TypeOK
  BY DEF Typed
<1> QED BY <1>1, TypedAlways, PTL

-----------------------------------------------------------------------------
(***************************************************************************)
(* The enclosing flow: at all times, not only at the end, the flow has     *)
(* what it came with on the tokens that are nobody's port.                 *)
(***************************************************************************)
FlowKept ==
    /\ \A tk \in Token \ PortTokens(graph) : Gamma(flow_in.tmap[tk]) \subseteq Gamma(flow.tmap[tk])
    /\ flow_in.report \subseteq flow.report

LEMMA FlowKeptStep == Typed /\ FlowKept /\ [Next]_vars => FlowKept'
<1> SUFFICES ASSUME Typed, FlowKept, [Next]_vars PROVE FlowKept'
  OBVIOUS
<1>1. graph' = graph /\ flow_in' = flow_in
  BY DEF Next, Propagate, EnterComponent, EndList, Stable, Unstable, Refine, Refined, Finish, vars
<1>2. ASSUME /\ \A tk \in Token \ PortTokens(graph) : Gamma(flow.tmap[tk]) \subseteq Gamma(flow'.tmap[tk])
             /\ flow.report \subseteq flow'.report
      PROVE  FlowKept'
  BY <1>1, <1>2 DEF FlowKept
<1>3. CASE Propagate
  <2> DEFINE n == graph.order[Task.at]
             e == UpdateNode(Task.weak, n)
  <2>1. CASE n \in Edges
    <3>1. n \in Node
      BY <2>1, GraphsAssumption DEF Edges, Typed
    <3>2. e \in Env /\ flow' = ApplyEdge(n, e).flow
      BY <1>3, <2>1, <3>1, PropagateData
    <3> HIDE DEF n, e
    <3>3. /\ \A tk \in Token \ PortTokens(graph) : Gamma(flow.tmap[tk]) \subseteq Gamma(flow'.tmap[tk])
          /\ flow.report \subseteq flow'.report
      BY <2>1, <3>2, ApplyEdgeSound
    <3> QED BY <1>2, <3>3
  <2>2. CASE n \notin Edges
    <3>1. flow' = flow
      BY <1>3, <2>2, PropagateData
    <3> QED BY <1>2, <3>1
  <2> QED BY <2>1, <2>2
<1>4. CASE Finish
  <2>1. "cur" \in PortTokens(graph)
    BY DEF PortTokens
  <2>2. \A tk \in Token \ {"cur"} : flow'.tmap[tk] = flow.tmap[tk] /\ flow'.report = flow.report
    BY <1>4, FinishData
  <2>3. flow'.report = flow.report
    BY <1>4 DEF Finish, Add, Set
  <2> QED BY <1>2, <2>1, <2>2, <2>3
<1>5. CASE EnterComponent \/ EndList \/ Stable \/ Unstable \/ Refine \/ Refined \/ UNCHANGED vars
  <2>1. flow' = flow
    BY <1>5 DEF EnterComponent, EndList, Stable, Unstable, Refine, Refined, vars
  <2> QED BY <1>2, <2>1
<1> QED BY <1>3, <1>4, <1>5 DEF Next

\* Whatever the graph does, the flows of the enclosing code and the alarms it
\* came with are still there when the iteration ends.
THEOREM CfgKeepsEnclosingFlow == Spec => []EnclosingFlowKept
<1>1. Init => FlowKept
  <2> SUFFICES ASSUME Init PROVE FlowKept
    OBVIOUS
  <2>1. /\ flow.report = flow_in.report
        /\ flow.tmap = [tk \in Token |-> IF tk \in {"cur"} THEN Bottom ELSE flow_in.tmap[tk]]
    BY DEF Init, Remove
  <2>2. "cur" \in PortTokens(graph)
    BY DEF PortTokens
  <2> QED BY <2>1, <2>2 DEF FlowKept
<1>2. FlowKept => EnclosingFlowKept
  BY DEF FlowKept, EnclosingFlowKept
<1> QED BY <1>1, <1>2, TypedAlways, FlowKeptStep, PTL DEF Spec

-----------------------------------------------------------------------------
(***************************************************************************)
(* Regions.  A configuration is a position of the order and a state; a     *)
(* move is a step of an execution, by an edge of the graph.  The region of *)
(* some configurations, up to a position, is what executions reach from    *)
(* them while they stay after position lo and before position hi.          *)
(***************************************************************************)
Size(gr) == Len(gr.order)
HeadsOf(gr) == DOMAIN gr.last
Configs(gr) == (1..Size(gr)) \X State

Moves(gr, c) ==
    {d \in Configs(gr) :
        /\ gr.order[c[1]] \in DOMAIN gr.edge
        /\ \E o \in Sem(gr.edge[gr.order[c[1]]].stmt, c[2]) :
              /\ o[1] \in PortsOf(gr, gr.order[c[1]])
              /\ gr.edge[gr.order[c[1]]].dst[o[1]] = gr.order[d[1]]
              /\ o[2] = d[2]}

Closed(gr, R, lo, hi) ==
    \A c \in R : \A d \in Moves(gr, c) : lo < d[1] /\ d[1] < hi => d \in R

Region(gr, B, lo, hi) ==
    {c \in Configs(gr) :
        \A R \in SUBSET Configs(gr) : B \subseteq R /\ Closed(gr, R, lo, hi) => c \in R}

\* The order of the graph is valid, in terms of moves.
Ordered(gr) ==
    /\ Size(gr) \in Nat /\ Size(gr) >= 1
    /\ \A h \in HeadsOf(gr) : h \in 1..Size(gr) /\ gr.last[h] \in h..Size(gr)
    /\ \A h, k \in HeadsOf(gr) : h < k /\ k <= gr.last[h] => gr.last[k] <= gr.last[h]
    /\ \A c \in Configs(gr) : \A d \in Moves(gr, c) :
          /\ c[1] < d[1] \/ (d[1] \in HeadsOf(gr) /\ c[1] <= gr.last[d[1]])
          /\ \A h \in HeadsOf(gr) : h < d[1] /\ d[1] <= gr.last[h] => h <= c[1] /\ c[1] <= gr.last[h]

\* g gives the states that each position covers, E those the graph starts in.
Values(gr, g, E) == E \subseteq State /\ \A i \in 1..Size(gr) : g[i] \subseteq State

\* Where the executions of a component start, 0 for the graph itself.
Base(g, E, h) == IF h = 0 THEN {1} \X E ELSE {h} \X g[h]

LEMMA ConfigFacts ==
  ASSUME NEW gr, Size(gr) \in Nat, NEW c \in Configs(gr)
  PROVE  c[1] \in 1..Size(gr) /\ c[1] \in Int /\ c[2] \in State /\ c = <<c[1], c[2]>>
BY DEF Configs

LEMMA MovesFacts == \A gr, c : Moves(gr, c) \subseteq Configs(gr)
BY DEF Moves

LEMMA RegionBase ==
  ASSUME NEW gr, NEW B \in SUBSET Configs(gr), NEW lo, NEW hi
  PROVE  B \subseteq Region(gr, B, lo, hi) /\ Region(gr, B, lo, hi) \subseteq Configs(gr)
BY DEF Region

LEMMA RegionClosed ==
  ASSUME NEW gr, NEW B \in SUBSET Configs(gr), NEW lo, NEW hi,
         NEW c \in Region(gr, B, lo, hi), NEW d \in Moves(gr, c), lo < d[1], d[1] < hi
  PROVE  d \in Region(gr, B, lo, hi)
<1>1. d \in Configs(gr)
  BY MovesFacts
<1>2. ASSUME NEW R \in SUBSET Configs(gr), B \subseteq R, Closed(gr, R, lo, hi) PROVE d \in R
  BY <1>2 DEF Region, Closed
<1> QED BY <1>1, <1>2 DEF Region

LEMMA RegionLeast ==
  ASSUME NEW gr, NEW B, NEW lo, NEW hi, NEW Q, Q \subseteq Configs(gr), B \subseteq Q, Closed(gr, Q, lo, hi)
  PROVE  Region(gr, B, lo, hi) \subseteq Q
BY DEF Region

\* A region is its base and positions after lo and before hi.
LEMMA RegionWithin ==
  ASSUME NEW gr, NEW B \in SUBSET Configs(gr), NEW lo, NEW hi, NEW c \in Region(gr, B, lo, hi)
  PROVE  c \in B \/ (lo < c[1] /\ c[1] < hi)
<1> DEFINE Q == {q \in Configs(gr) : q \in B \/ (lo < q[1] /\ q[1] < hi)}
<1>1. Closed(gr, Q, lo, hi)
  BY MovesFacts DEF Closed
<1>2. B \subseteq Q /\ Q \subseteq Configs(gr)
  OBVIOUS
<1> HIDE DEF Q
<1>3. c \in Q
  BY <1>1, <1>2, RegionLeast
<1> QED BY <1>3 DEF Q

\* More configurations have a larger region.
LEMMA RegionGrows ==
  ASSUME NEW gr, NEW B \in SUBSET Configs(gr), NEW C \in SUBSET Configs(gr), B \subseteq C, NEW lo, NEW hi
  PROVE  Region(gr, B, lo, hi) \subseteq Region(gr, C, lo, hi)
<1> DEFINE Q == Region(gr, C, lo, hi)
<1>1. C \subseteq Q /\ Q \subseteq Configs(gr)
  BY RegionBase
<1>2. Closed(gr, Q, lo, hi)
  BY RegionClosed DEF Closed
<1> HIDE DEF Q
<1>3. Region(gr, B, lo, hi) \subseteq Q
  BY <1>1, <1>2, RegionLeast
<1> QED BY <1>3 DEF Q

\* What executions reach from the start of component h up to position p.
Within(gr, g, E, h, p) == Region(gr, Base(g, E, h), h, p)

\* The positions of component h before p cover what executions reach there.
Covers(gr, g, E, h, p) == \A c \in Within(gr, g, E, h, p) : c[1] < p => c[2] \in g[c[1]]
Full(gr, g, E, h) == Covers(gr, g, E, h, gr.last[h] + 1)

\* The head of a component covers what comes back to it.
HeadInductive(gr, g, E, h) ==
    \A c \in Within(gr, g, E, h, gr.last[h] + 1) : \A d \in Moves(gr, c) : d[1] = h => d[2] \in g[h]

\* The head of a component covers what comes from the positions before it.
Entered(gr, g, E, h) ==
    /\ \A c \in Configs(gr) : c[1] < h /\ c[2] \in g[c[1]] =>
          \A d \in Moves(gr, c) : d[1] = h => d[2] \in g[h]
    /\ h = 1 => E \subseteq g[h]

\* The head of a component covers what executions of the enclosing component,
\* hd, reach there.
HeadCovers(gr, g, E, hd, h) ==
    \A c \in Within(gr, g, E, hd, gr.last[h] + 1) : c[1] = h => c[2] \in g[h]

\* No component starts after h and before p and has not ended at p.
Direct(gr, h, p) == \A j \in HeadsOf(gr) : h < j /\ j < p => gr.last[j] < p

\* The value of position p is computed again from all that leads to it.
Updated(gr, g, new, E, p) ==
    /\ \A i \in 1..Size(gr) : i # p => new[i] = g[i]
    /\ \A c \in Configs(gr) : c[2] \in g[c[1]] => \A d \in Moves(gr, c) : d[1] = p => d[2] \in new[p]
    /\ p = 1 => E \subseteq new[p]

LEMMA BaseFacts ==
  ASSUME NEW gr, Ordered(gr), NEW g, NEW E, Values(gr, g, E), NEW h \in {0} \union HeadsOf(gr)
  PROVE  /\ Base(g, E, h) \in SUBSET Configs(gr)
         /\ \A c \in Base(g, E, h) : IF h = 0 THEN c[1] = 1 /\ c[2] \in E ELSE c[1] = h /\ c[2] \in g[h]
         /\ h # 0 => \A x \in g[h] : <<h, x>> \in Base(g, E, h)
BY DEF Ordered, Values, Base, Configs

LEMMA CoversSame ==
  ASSUME NEW gr, Ordered(gr), NEW g, NEW E, Values(gr, g, E), NEW h \in {0} \union HeadsOf(gr),
         NEW p \in Int, h < p, NEW new, \A i \in 1..Size(gr) : h <= i /\ i < p => new[i] = g[i],
         Covers(gr, g, E, h, p)
  PROVE  Covers(gr, new, E, h, p)
<1>1. h # 0 => new[h] = g[h]
  BY DEF Ordered
<1>2. Base(new, E, h) = Base(g, E, h)
  BY <1>1 DEF Base
<1>3. ASSUME NEW c \in Within(gr, g, E, h, p), c[1] < p PROVE c[2] \in new[c[1]]
  <2>1. c[2] \in g[c[1]]
    BY <1>3 DEF Covers
  <2>2. c \in Base(g, E, h) \/ h < c[1]
    BY BaseFacts, RegionWithin DEF Within
  <2>3. c[1] \in 1..Size(gr)
    BY BaseFacts, RegionBase, ConfigFacts DEF Within, Ordered
  <2>4. h <= c[1]
    <3>1. h \in Int /\ (c \in Base(g, E, h) => IF h = 0 THEN c[1] = 1 ELSE c[1] = h)
      BY BaseFacts DEF Ordered
    <3> QED BY <2>2, <2>3, <3>1
  <2> QED BY <1>3, <2>1, <2>3, <2>4
<1> QED BY <1>2, <1>3 DEF Covers, Within

\* Propagation to a node that heads no component.
LEMMA SimpleStep ==
  ASSUME NEW gr, Ordered(gr), NEW g, NEW E, Values(gr, g, E), NEW h \in {0} \union HeadsOf(gr),
         NEW p \in 1..Size(gr), h < p, p \notin HeadsOf(gr), Direct(gr, h, p),
         Covers(gr, g, E, h, p), NEW new, Updated(gr, g, new, E, p)
  PROVE  Covers(gr, new, E, h, p + 1)
<1> DEFINE W == Within(gr, g, E, h, p)
           B == Base(g, E, h)
           Q == {c \in Configs(gr) : IF c[1] < p THEN c \in W ELSE c[1] = p => c[2] \in new[p]}
<1>1. Base(new, E, h) = B
  BY DEF Base, Updated, Ordered
<1>2. W \subseteq Configs(gr) /\ B \subseteq W /\ B \in SUBSET Configs(gr)
  BY BaseFacts, RegionBase DEF Within
<1>3. B \subseteq Q
  <2> SUFFICES ASSUME NEW b \in B, ~ (b[1] < p) PROVE b[1] = p => b[2] \in new[p]
    BY <1>2
  <2> QED BY BaseFacts DEF Updated, Ordered
<1>4. Closed(gr, Q, h, p + 1)
  <2> SUFFICES ASSUME NEW c \in Q, NEW d \in Moves(gr, c), h < d[1], d[1] < p + 1 PROVE d \in Q
    BY DEF Closed
  <2>1. d \in Configs(gr) /\ c \in Configs(gr) /\ c[1] \in Int /\ d[1] \in Int
    BY MovesFacts, ConfigFacts DEF Ordered
  <2>2. c[1] < d[1] \/ (d[1] \in HeadsOf(gr) /\ c[1] <= gr.last[d[1]])
    BY <2>1 DEF Ordered
  <2>3. CASE d[1] < p
    <3>1. (gr.last[d[1]] \in Int /\ gr.last[d[1]] < p) \/ d[1] \notin HeadsOf(gr)
      BY <2>3 DEF Direct, Ordered
    <3>2. c[1] < p
      BY <2>1, <2>2, <2>3, <3>1
    <3>3. c \in W
      BY <3>2
    <3>4. d \in W
      BY <1>2, <2>3, <3>3, RegionClosed DEF Within
    <3> QED BY <2>1, <2>3, <3>4
  <2>4. CASE d[1] = p
    <3>1. c[1] < p
      BY <2>2, <2>4
    <3>2. c[2] \in g[c[1]]
      BY <3>1 DEF Covers
    <3>3. d[2] \in new[p]
      BY <2>1, <2>4, <3>2 DEF Updated
    <3> QED BY <2>1, <2>4, <3>3
  <2> QED BY <2>1, <2>3, <2>4
<1>5. Within(gr, new, E, h, p + 1) \subseteq Q
  <2> HIDE DEF Q, B
  <2>1. Q \subseteq Configs(gr)
    BY DEF Q
  <2> QED BY <1>1, <1>3, <1>4, <2>1, RegionLeast DEF Within
<1>6. ASSUME NEW c \in Q, c[1] < p + 1 PROVE c[2] \in new[c[1]]
  <2>1. c[1] \in 1..Size(gr)
    BY ConfigFacts DEF Ordered
  <2>2. CASE c[1] < p
    <3>1. c[2] \in g[c[1]]
      BY <2>2 DEF Covers
    <3> QED BY <2>1, <2>2, <3>1 DEF Updated
  <2>3. CASE c[1] = p
    BY <2>3
  <2> QED BY <1>6, <2>1, <2>2, <2>3
<1> HIDE DEF Q
<1> QED BY <1>5, <1>6 DEF Covers

\* Propagation to the head of a component: nothing else is reached yet.
LEMMA HeadStep ==
  ASSUME NEW gr, Ordered(gr), NEW g, NEW E, Values(gr, g, E), NEW h \in HeadsOf(gr)
  PROVE  Covers(gr, g, E, h, h + 1)
<1> SUFFICES ASSUME NEW c \in Within(gr, g, E, h, h + 1), c[1] < h + 1 PROVE c[2] \in g[c[1]]
  BY DEF Covers
<1>1. h \in 1..Size(gr)
  BY DEF Ordered
<1>2. c \in Base(g, E, h) \/ (h < c[1] /\ c[1] < h + 1)
  BY BaseFacts, RegionWithin DEF Within
<1>3. c[1] \in Int
  BY BaseFacts, RegionBase, ConfigFacts DEF Within, Ordered
<1> QED BY <1>1, <1>2, <1>3, BaseFacts

\* An iteration that does not raise the head leaves it inductive.
LEMMA IterationStable ==
  ASSUME NEW gr, Ordered(gr), NEW g, NEW E, Values(gr, g, E), NEW h \in HeadsOf(gr),
         Full(gr, g, E, h), NEW new, Values(gr, new, E), Updated(gr, g, new, E, h)
  PROVE  /\ Entered(gr, new, E, h)
         /\ new[h] \subseteq g[h] => HeadInductive(gr, new, E, h)
<1>1. h \in 1..Size(gr) /\ gr.last[h] \in Int /\ h <= gr.last[h]
  BY DEF Ordered
<1>2. Entered(gr, new, E, h)
  <2>1. ASSUME NEW c \in Configs(gr), c[1] < h, c[2] \in new[c[1]] PROVE c[2] \in g[c[1]]
    <3>1. c[1] \in 1..Size(gr) /\ c[1] # h
      BY <1>1, <2>1, ConfigFacts DEF Ordered
    <3> QED BY <2>1, <3>1 DEF Updated
  <2> QED BY <2>1 DEF Entered, Updated
<1>3. ASSUME new[h] \subseteq g[h] PROVE HeadInductive(gr, new, E, h)
  <2> SUFFICES ASSUME NEW c \in Within(gr, new, E, h, gr.last[h] + 1), NEW d \in Moves(gr, c), d[1] = h
               PROVE  d[2] \in new[h]
    BY DEF HeadInductive
  <2>1. Base(new, E, h) \subseteq Base(g, E, h) /\ Base(new, E, h) \in SUBSET Configs(gr) /\ Base(g, E, h) \in SUBSET Configs(gr)
    <3>1. Base(new, E, h) \subseteq Base(g, E, h)
      BY <1>1, <1>3 DEF Base
    <3> QED BY <3>1, BaseFacts
  <2>2. c \in Within(gr, g, E, h, gr.last[h] + 1)
    BY <2>1, RegionGrows DEF Within
  <2>3. c \in Configs(gr) /\ c[1] < gr.last[h] + 1
    <3>1. c \in Configs(gr) /\ c[1] \in Int
      BY <2>1, <2>2, RegionBase, ConfigFacts DEF Within, Ordered
    <3>2. c \in Base(g, E, h) \/ c[1] < gr.last[h] + 1
      BY <2>1, <2>2, RegionWithin DEF Within
    <3>3. c \in Base(g, E, h) => c[1] = h
      BY <1>1, BaseFacts
    <3> QED BY <1>1, <3>1, <3>2, <3>3
  <2>4. c[2] \in g[c[1]]
    BY <2>2, <2>3 DEF Full, Covers
  <2> QED BY <2>3, <2>4 DEF Updated
<1> QED BY <1>2, <1>3

\* What executions of component hd reach until component h ends splits at h,
\* once the head of h covers what they reach there.
LEMMA Split ==
  ASSUME NEW gr, Ordered(gr), NEW g, NEW E, Values(gr, g, E), NEW hd \in {0} \union HeadsOf(gr),
         NEW h \in HeadsOf(gr), hd < h, Direct(gr, hd, h), HeadCovers(gr, g, E, hd, h),
         NEW c \in Within(gr, g, E, hd, gr.last[h] + 1)
  PROVE  IF c[1] < h THEN c \in Within(gr, g, E, hd, h) ELSE c \in Within(gr, g, E, h, gr.last[h] + 1)
<1> DEFINE W == Within(gr, g, E, hd, h)
           V == Within(gr, g, E, h, gr.last[h] + 1)
           R == Within(gr, g, E, hd, gr.last[h] + 1)
           B == Base(g, E, hd)
           Q == {q \in R : IF q[1] < h THEN q \in W ELSE q \in V}
<1>1. h \in 1..Size(gr) /\ gr.last[h] \in Int /\ h <= gr.last[h] /\ hd \in Int /\ hd >= 0
  BY DEF Ordered
<1>2. /\ B \in SUBSET Configs(gr) /\ B \subseteq W /\ B \subseteq R /\ R \subseteq Configs(gr)
      /\ W \subseteq Configs(gr) /\ V \subseteq Configs(gr)
      /\ Base(g, E, h) \in SUBSET Configs(gr) /\ Base(g, E, h) \subseteq V
  <2>1. B \in SUBSET Configs(gr) /\ Base(g, E, h) \in SUBSET Configs(gr)
    BY BaseFacts
  <2> QED BY <2>1, RegionBase DEF Within
<1>3. ASSUME NEW d \in R, d[1] = h PROVE d \in V
  <2>1. d[2] \in g[h] /\ d = <<h, d[2]>>
    BY <1>2, <1>3, ConfigFacts DEF HeadCovers, Ordered
  <2>2. d \in Base(g, E, h)
    BY <1>1, <2>1, BaseFacts
  <2> QED BY <1>2, <2>2
<1>4. B \subseteq Q
  <2> SUFFICES ASSUME NEW b \in B, ~ (b[1] < h) PROVE b \in V
    BY <1>2
  <2>1. b[1] = h
    BY <1>1, BaseFacts
  <2> QED BY <1>2, <1>3, <2>1
<1>5. Closed(gr, Q, hd, gr.last[h] + 1)
  <2> SUFFICES ASSUME NEW a \in Q, NEW d \in Moves(gr, a), hd < d[1], d[1] < gr.last[h] + 1 PROVE d \in Q
    BY DEF Closed
  <2>1. d \in Configs(gr) /\ a \in Configs(gr) /\ a[1] \in Int /\ d[1] \in Int
    BY <1>2, MovesFacts, ConfigFacts DEF Ordered
  <2>2. d \in R
    BY <1>2, RegionClosed DEF Within
  <2>3. a[1] < d[1] \/ (d[1] \in HeadsOf(gr) /\ a[1] <= gr.last[d[1]])
    BY <2>1 DEF Ordered
  <2>4. CASE d[1] < h
    <3>1. (gr.last[d[1]] \in Int /\ gr.last[d[1]] < h) \/ d[1] \notin HeadsOf(gr)
      BY <2>4 DEF Direct, Ordered
    <3>2. a[1] < h
      BY <1>1, <2>1, <2>3, <2>4, <3>1
    <3>3. d \in W
      BY <1>2, <2>4, <3>2, RegionClosed DEF Within
    <3> QED BY <2>2, <2>4, <3>3
  <2>5. CASE d[1] = h
    BY <1>1, <2>2, <2>5, <1>3
  <2>6. CASE d[1] > h
    <3>1. h < d[1] /\ d[1] <= gr.last[h]
      BY <1>1, <2>1, <2>6
    <3>2. h <= a[1]
      BY <2>1, <3>1 DEF Ordered
    <3>3. a \in V
      BY <1>1, <2>1, <3>2
    <3>4. d \in V
      BY <1>2, <3>1, <3>3, RegionClosed DEF Within
    <3> QED BY <1>1, <2>1, <2>2, <2>6, <3>4
  <2> QED BY <1>1, <2>1, <2>4, <2>5, <2>6
<1> HIDE DEF W, V, Q
<1>6. Q \subseteq Configs(gr)
  BY <1>2 DEF Q
<1>7. R \subseteq Q
  BY <1>4, <1>5, <1>6, RegionLeast DEF Within
<1> QED BY <1>7 DEF Q, W, V

\* The head of a component that is entered and inductive covers what reaches it.
LEMMA StableHeadCovers ==
  ASSUME NEW gr, Ordered(gr), NEW g, NEW E, Values(gr, g, E), NEW hd \in {0} \union HeadsOf(gr),
         NEW h \in HeadsOf(gr), hd < h, Direct(gr, hd, h),
         Covers(gr, g, E, hd, h), HeadInductive(gr, g, E, h), Entered(gr, g, E, h)
  PROVE  HeadCovers(gr, g, E, hd, h)
<1> DEFINE W == Within(gr, g, E, hd, h)
           V == Within(gr, g, E, h, gr.last[h] + 1)
           R == Within(gr, g, E, hd, gr.last[h] + 1)
           B == Base(g, E, hd)
           Q == {q \in Configs(gr) : IF q[1] < h THEN q \in W ELSE q \in V}
<1>1. h \in 1..Size(gr) /\ gr.last[h] \in Int /\ h <= gr.last[h] /\ hd \in Int /\ hd >= 0
  BY DEF Ordered
<1>2. /\ B \in SUBSET Configs(gr) /\ B \subseteq W
      /\ W \subseteq Configs(gr) /\ V \subseteq Configs(gr)
      /\ Base(g, E, h) \in SUBSET Configs(gr) /\ Base(g, E, h) \subseteq V
  <2>1. B \in SUBSET Configs(gr) /\ Base(g, E, h) \in SUBSET Configs(gr)
    BY BaseFacts
  <2> QED BY <2>1, RegionBase DEF Within
<1>3. ASSUME NEW d \in Configs(gr), d[1] = h, d[2] \in g[h] PROVE d \in V
  <2>1. d = <<h, d[2]>>
    BY <1>3, ConfigFacts DEF Ordered
  <2>2. d \in Base(g, E, h)
    BY <1>1, <1>3, <2>1, BaseFacts
  <2> QED BY <1>2, <2>2
<1>4. B \subseteq Q
  <2> SUFFICES ASSUME NEW b \in B, ~ (b[1] < h) PROVE b \in V
    BY <1>2
  <2>1. b[1] = h /\ h = 1 /\ b[2] \in E
    BY <1>1, BaseFacts
  <2>2. b[2] \in g[h]
    BY <2>1 DEF Entered
  <2> QED BY <1>2, <1>3, <2>1, <2>2
<1>5. Closed(gr, Q, hd, gr.last[h] + 1)
  <2> SUFFICES ASSUME NEW a \in Q, NEW d \in Moves(gr, a), hd < d[1], d[1] < gr.last[h] + 1 PROVE d \in Q
    BY DEF Closed
  <2>1. d \in Configs(gr) /\ a \in Configs(gr) /\ a[1] \in Int /\ d[1] \in Int
    BY <1>2, MovesFacts, ConfigFacts DEF Ordered
  <2>2. a[1] < d[1] \/ (d[1] \in HeadsOf(gr) /\ a[1] <= gr.last[d[1]])
    BY <2>1 DEF Ordered
  <2>3. CASE d[1] < h
    <3>1. (gr.last[d[1]] \in Int /\ gr.last[d[1]] < h) \/ d[1] \notin HeadsOf(gr)
      BY <2>3 DEF Direct, Ordered
    <3>2. a[1] < h
      BY <1>1, <2>1, <2>2, <2>3, <3>1
    <3>3. d \in W
      BY <1>2, <2>3, <3>2, RegionClosed DEF Within
    <3> QED BY <2>1, <2>3, <3>3
  <2>4. CASE d[1] = h
    <3>1. d[2] \in g[h]
      <4>1. CASE a[1] < h
        <5>1. a[2] \in g[a[1]]
          BY <4>1 DEF Covers
        <5> QED BY <2>1, <2>4, <4>1, <5>1 DEF Entered
      <4>2. CASE ~ (a[1] < h)
        BY <2>4, <4>2 DEF HeadInductive
      <4> QED BY <4>1, <4>2
    <3>2. d \in V
      BY <1>3, <2>1, <2>4, <3>1
    <3> QED BY <1>1, <2>1, <2>4, <3>2
  <2>5. CASE d[1] > h
    <3>1. h < d[1] /\ d[1] <= gr.last[h]
      BY <1>1, <2>1, <2>5
    <3>2. h <= a[1]
      BY <2>1, <3>1 DEF Ordered
    <3>3. a \in V
      BY <1>1, <2>1, <3>2
    <3>4. d \in V
      BY <1>2, <3>1, <3>3, RegionClosed DEF Within
    <3> QED BY <1>1, <2>1, <2>5, <3>4
  <2> QED BY <1>1, <2>1, <2>3, <2>4, <2>5
<1>6. R \subseteq Q
  <2> HIDE DEF Q
  <2>1. Q \subseteq Configs(gr)
    BY DEF Q
  <2> QED BY <1>4, <1>5, <2>1, RegionLeast DEF Within
<1>7. ASSUME NEW c \in R, c[1] = h PROVE c[2] \in g[h]
  <2>1. c \in V
    BY <1>1, <1>6, <1>7
  <2>2. c \in Base(g, E, h) \/ h < c[1]
    BY <1>2, <2>1, RegionWithin DEF Within
  <2> QED BY <1>1, <1>7, <2>2, BaseFacts
<1> QED BY <1>7 DEF HeadCovers

\* A head that is computed again still covers what reaches it.
LEMMA HeadAgain ==
  ASSUME NEW gr, Ordered(gr), NEW g, NEW E, Values(gr, g, E), NEW hd \in {0} \union HeadsOf(gr),
         NEW h \in HeadsOf(gr), hd < h, Direct(gr, hd, h),
         Covers(gr, g, E, hd, h), HeadCovers(gr, g, E, hd, h), Full(gr, g, E, h),
         NEW new, Updated(gr, g, new, E, h)
  PROVE  HeadCovers(gr, new, E, hd, h)
<1> DEFINE R == Within(gr, g, E, hd, gr.last[h] + 1)
           B == Base(g, E, hd)
           Q == {q \in R : q[1] = h => q[2] \in new[h]}
<1>1. h \in 1..Size(gr) /\ gr.last[h] \in Int /\ h <= gr.last[h] /\ hd \in Int /\ hd >= 0
  BY DEF Ordered
<1>2. Base(new, E, hd) = B
  BY <1>1 DEF Base, Updated, Ordered
<1>3. B \in SUBSET Configs(gr) /\ B \subseteq R /\ R \subseteq Configs(gr)
  BY BaseFacts, RegionBase DEF Within
<1>4. B \subseteq Q
  <2> SUFFICES ASSUME NEW b \in B, b[1] = h PROVE b[2] \in new[h]
    BY <1>3
  <2>1. h = 1 /\ b[2] \in E
    BY <1>1, BaseFacts
  <2> QED BY <2>1 DEF Updated
<1>5. Closed(gr, Q, hd, gr.last[h] + 1)
  <2> SUFFICES ASSUME NEW a \in Q, NEW d \in Moves(gr, a), hd < d[1], d[1] < gr.last[h] + 1 PROVE d \in Q
    BY DEF Closed
  <2>1. d \in Configs(gr) /\ a \in Configs(gr) /\ a[1] \in Int /\ d[1] \in Int
    BY <1>3, MovesFacts, ConfigFacts DEF Ordered
  <2>2. d \in R
    BY <1>3, RegionClosed DEF Within
  <2>3. a[2] \in g[a[1]]
    <3>1. IF a[1] < h THEN a \in Within(gr, g, E, hd, h) ELSE a \in Within(gr, g, E, h, gr.last[h] + 1)
      BY Split
    <3>2. a[1] < gr.last[h] + 1
      <4>1. a \in B \/ a[1] < gr.last[h] + 1
        BY <1>3, RegionWithin DEF Within
      <4> QED BY <1>1, <2>1, <4>1, BaseFacts
    <3> QED BY <3>1, <3>2 DEF Covers, Full
  <2>4. d[1] = h => d[2] \in new[h]
    BY <2>1, <2>3 DEF Updated
  <2> QED BY <2>2, <2>4
<1>6. R \subseteq Q
  <2> HIDE DEF Q
  <2>1. Q \subseteq Configs(gr)
    BY <1>3 DEF Q
  <2> QED BY <1>4, <1>5, <2>1, RegionLeast DEF Within
<1> QED BY <1>2, <1>6 DEF HeadCovers, Within

\* When a component is over, the list it is in is covered up to its end.
LEMMA ComponentDone ==
  ASSUME NEW gr, Ordered(gr), NEW g, NEW E, Values(gr, g, E), NEW hd \in {0} \union HeadsOf(gr),
         NEW h \in HeadsOf(gr), hd < h, Direct(gr, hd, h),
         Covers(gr, g, E, hd, h), HeadCovers(gr, g, E, hd, h), Full(gr, g, E, h)
  PROVE  Covers(gr, g, E, hd, gr.last[h] + 1)
<1> SUFFICES ASSUME NEW c \in Within(gr, g, E, hd, gr.last[h] + 1), c[1] < gr.last[h] + 1 PROVE c[2] \in g[c[1]]
  BY DEF Covers
<1>1. IF c[1] < h THEN c \in Within(gr, g, E, hd, h) ELSE c \in Within(gr, g, E, h, gr.last[h] + 1)
  BY Split
<1> QED BY <1>1 DEF Covers, Full

-----------------------------------------------------------------------------
(***************************************************************************)
(* The stack.  Lists and components alternate on it, from the list of the  *)
(* graph; each component is an element of the list under it.               *)
(***************************************************************************)
LastIn(gr, h) == IF h = 0 THEN Size(gr) ELSE gr.last[h]

ListAt(gr, ts, k) ==
    /\ ts[k].head \in {0} \union HeadsOf(gr)
    /\ ts[k].at \in Nat /\ ts[k].at >= 1
    /\ ts[k].head <= ts[k].at /\ ts[k].at <= LastIn(gr, ts[k].head) + 1
    /\ Direct(gr, ts[k].head, ts[k].at)
    /\ IF k = 1 THEN ts[k].head = 0 ELSE ts[k - 1].op # "list" /\ ts[k - 1].head = ts[k].head

ComponentAt(gr, ts, k) ==
    /\ k > 1 /\ ts[k - 1].op = "list"
    /\ ts[k].head \in HeadsOf(gr) /\ ts[k - 1].head < ts[k].head
    /\ ts[k - 1].at = gr.last[ts[k].head] + 1
    /\ Direct(gr, ts[k - 1].head, ts[k].head)

\* A task is of a component inside those of the tasks under it, and each
\* component that it is inside of has a task there.
Nested(gr, ts, k) ==
    /\ \A m \in 1..(k - 1) : /\ ts[m].head <= ts[k].head
                             /\ ts[k].op # "list" => ts[m].head < ts[k].head
    /\ \A j \in HeadsOf(gr) : j < ts[k].head /\ ts[k].head <= gr.last[j] =>
          \E m \in 1..(k - 1) : ts[m].op # "list" /\ ts[m].head = j

TaskAt(gr, ts, k) ==
    /\ IF ts[k].op = "list" THEN ListAt(gr, ts, k) ELSE ComponentAt(gr, ts, k)
    /\ Nested(gr, ts, k)

StackOK(gr, ts) == \A k \in 1..Len(ts) : TaskAt(gr, ts, k)

LEMMA TaskAtSame ==
  ASSUME NEW gr, NEW old, NEW new, NEW k \in Nat, k >= 1, \A i \in 1..k : new[i] = old[i], TaskAt(gr, old, k)
  PROVE  TaskAt(gr, new, k)
<1>1. new[k] = old[k] /\ (k > 1 => new[k - 1] = old[k - 1])
  OBVIOUS
<1>2. Nested(gr, new, k)
  BY <1>1 DEF TaskAt, Nested
<1> QED BY <1>1, <1>2 DEF TaskAt, ListAt, ComponentAt

\* What the stack says of the heads of its tasks.
LEMMA TaskHeads ==
  ASSUME NEW gr, Ordered(gr), NEW ts, StackOK(gr, ts), NEW k \in 1..Len(ts)
  PROVE  /\ ts[k].head \in {0} \union HeadsOf(gr) /\ ts[k].head \in Int /\ ts[k].head >= 0
         /\ ts[k].op # "list" => ts[k].head \in HeadsOf(gr) /\ ts[k].head >= 1
BY DEF StackOK, TaskAt, ListAt, ComponentAt, Ordered

LEMMA StackPopped ==
  ASSUME NEW gr, NEW old, NEW new, Len(old) \in Nat, Len(old) >= 1, StackOK(gr, old), Popped(old, new)
  PROVE  StackOK(gr, new)
<1> SUFFICES ASSUME NEW k \in 1..Len(new) PROVE TaskAt(gr, new, k)
  BY DEF StackOK
<1>1. k \in 1..Len(old) /\ k \in Nat /\ k >= 1 /\ \A i \in 1..k : new[i] = old[i]
  BY DEF Popped, Kept
<1> QED BY <1>1, TaskAtSame DEF StackOK

\* A list advances.
LEMMA StackAdvanced ==
  ASSUME NEW gr, Ordered(gr), NEW old, NEW new, NEW s, Len(old) \in Nat, Len(old) >= 1, StackOK(gr, old),
         Replaced(old, new, s), old[Len(old)].op = "list", s.op = "list", s.head = old[Len(old)].head,
         s.at \in Nat, s.at >= 1, s.head <= s.at, s.at <= LastIn(gr, s.head) + 1, Direct(gr, s.head, s.at)
  PROVE  StackOK(gr, new)
<1> SUFFICES ASSUME NEW k \in 1..Len(new) PROVE TaskAt(gr, new, k)
  BY DEF StackOK
<1> DEFINE L == Len(old)
<1>1. Len(new) = L /\ new[L] = s /\ \A i \in 1..(L - 1) : new[i] = old[i]
  BY DEF Replaced, Kept
<1>2. CASE k < L
  <2>1. k \in 1..L /\ k \in Nat /\ k >= 1 /\ \A i \in 1..k : new[i] = old[i]
    BY <1>1, <1>2
  <2> QED BY <2>1, TaskAtSame DEF StackOK
<1>3. CASE k = L
  <2>1. TaskAt(gr, old, L)
    BY DEF StackOK
  <2>2. new[k] = s /\ (k > 1 => new[k - 1] = old[k - 1]) /\ \A m \in 1..(k - 1) : new[m] = old[m]
    BY <1>1, <1>3
  <2>3. ListAt(gr, new, k)
    BY <2>1, <2>2, <1>3, TaskHeads DEF TaskAt, ListAt
  <2>4. Nested(gr, new, k)
    BY <2>1, <2>2, <1>3 DEF TaskAt, Nested
  <2> QED BY <2>2, <2>3, <2>4 DEF TaskAt
<1> QED BY <1>1, <1>2, <1>3

\* The function under way on a component becomes another one.
LEMMA StackSwapped ==
  ASSUME NEW gr, NEW old, NEW new, NEW s, Len(old) \in Nat, Len(old) >= 1, StackOK(gr, old),
         old[Len(old)].op # "list", s.op # "list", s.head = old[Len(old)].head,
         new[Len(old)] = s, Kept(old, new)
  PROVE  \A k \in 1..Len(old) : TaskAt(gr, new, k)
<1> TAKE k \in 1..Len(old)
<1> DEFINE L == Len(old)
<1>1. new[L] = s /\ \A i \in 1..(L - 1) : new[i] = old[i]
  BY DEF Kept
<1>2. CASE k < L
  <2>1. k \in 1..L /\ k \in Nat /\ k >= 1 /\ \A i \in 1..k : new[i] = old[i]
    BY <1>1, <1>2
  <2> QED BY <2>1, TaskAtSame DEF StackOK
<1>3. CASE k = L
  <2>1. TaskAt(gr, old, L)
    BY DEF StackOK
  <2>2. new[k] = s /\ (k > 1 => new[k - 1] = old[k - 1]) /\ \A m \in 1..(k - 1) : new[m] = old[m]
    BY <1>1, <1>3
  <2>3. ComponentAt(gr, new, k)
    BY <2>1, <2>2, <1>3 DEF TaskAt, ComponentAt
  <2>4. Nested(gr, new, k)
    BY <2>1, <2>2, <1>3 DEF TaskAt, Nested
  <2> QED BY <2>2, <2>3, <2>4 DEF TaskAt
<1> QED BY <1>2, <1>3

\* An iteration of a component starts: its list is pushed.
LEMMA StackPushed ==
  ASSUME NEW gr, Ordered(gr), NEW old, NEW new, NEW s, NEW t, Len(old) \in Nat, Len(old) >= 1, StackOK(gr, old),
         Pushed(old, new, s, t), old[Len(old)].op # "list", s.op # "list", s.head = old[Len(old)].head,
         t.op = "list", t.head = s.head, t.at = s.head
  PROVE  StackOK(gr, new)
<1> SUFFICES ASSUME NEW k \in 1..Len(new) PROVE TaskAt(gr, new, k)
  BY DEF StackOK
<1> DEFINE L == Len(old)
<1>1. Len(new) = L + 1 /\ new[L] = s /\ new[L + 1] = t /\ Kept(old, new)
  BY DEF Pushed
<1>2. \A m \in 1..L : TaskAt(gr, new, m)
  BY <1>1, StackSwapped
<1>3. CASE k = L + 1
  <2>1. t.head \in HeadsOf(gr) /\ t.head \in 1..Size(gr) /\ t.head <= gr.last[t.head] /\ gr.last[t.head] \in Int
    BY TaskHeads DEF Ordered
  <2>2. Direct(gr, t.head, t.head)
    BY <2>1 DEF Direct, Ordered
  <2>3. ListAt(gr, new, k)
    BY <1>1, <1>3, <2>1, <2>2 DEF ListAt, LastIn
  <2>4. Nested(gr, new, L)
    BY <1>2 DEF TaskAt
  <2>5. Nested(gr, new, k)
    <3>1. \A m \in 1..(k - 1) : m = L \/ m \in 1..(L - 1)
      BY <1>3
    <3>2. \A m \in 1..(k - 1) : new[m].head <= new[k].head
      BY <3>1, <2>4, <2>1, <1>1, <1>3 DEF Nested
    <3>3. \A j \in HeadsOf(gr) : j < new[k].head /\ new[k].head <= gr.last[j] =>
             \E m \in 1..(k - 1) : new[m].op # "list" /\ new[m].head = j
      <4>1. \A m \in 1..(L - 1) : m \in 1..(k - 1)
        BY <1>3
      <4> QED BY <4>1, <2>4, <1>1, <1>3 DEF Nested
    <3> QED BY <3>2, <3>3, <1>1, <1>3 DEF Nested
  <2> QED BY <1>1, <1>3, <2>3, <2>5 DEF TaskAt
<1> QED BY <1>1, <1>2, <1>3

\* A component is entered.
LEMMA StackEntered ==
  ASSUME NEW gr, Ordered(gr), NEW old, NEW new, NEW s, NEW t, NEW u, Len(old) \in Nat, Len(old) >= 1, StackOK(gr, old),
         PushedTwo(old, new, s, t, u), old[Len(old)].op = "list", NEW h \in HeadsOf(gr),
         old[Len(old)].at = h, h # old[Len(old)].head, h <= LastIn(gr, old[Len(old)].head),
         s.op = "list", s.head = old[Len(old)].head, s.at = gr.last[h] + 1,
         t.op # "list", t.head = h, u.op = "list", u.head = h, u.at = h
  PROVE  StackOK(gr, new)
<1> SUFFICES ASSUME NEW k \in 1..Len(new) PROVE TaskAt(gr, new, k)
  BY DEF StackOK
<1> DEFINE L == Len(old)
           hd == s.head
<1>1. /\ Len(new) = L + 2 /\ new[L] = s /\ new[L + 1] = t /\ new[L + 2] = u
      /\ \A i \in 1..(L - 1) : new[i] = old[i]
  BY DEF PushedTwo, Kept
<1>2. /\ h \in 1..Size(gr) /\ gr.last[h] \in Int /\ h <= gr.last[h] /\ gr.last[h] <= Size(gr)
      /\ hd \in {0} \union HeadsOf(gr) /\ hd \in Int /\ hd >= 0 /\ hd < h /\ Size(gr) \in Nat
      /\ hd # 0 => gr.last[hd] \in Int /\ h <= gr.last[hd]
  <2>1. TaskAt(gr, old, L)
    BY DEF StackOK
  <2>2. hd <= h /\ hd # h
    BY <2>1 DEF TaskAt, ListAt
  <2>3. hd \in {0} \union HeadsOf(gr) /\ hd \in Int /\ hd >= 0
    BY <2>1 DEF TaskAt, ListAt, Ordered
  <2>4. h \in 1..Size(gr) /\ gr.last[h] \in Int /\ h <= gr.last[h] /\ gr.last[h] <= Size(gr) /\ Size(gr) \in Nat
    BY DEF Ordered
  <2>5. hd # 0 => gr.last[hd] \in Int /\ h <= gr.last[hd]
    BY <2>3 DEF LastIn, Ordered
  <2> QED BY <2>2, <2>3, <2>4, <2>5
<1>3. TaskAt(gr, old, L)
  BY DEF StackOK
<1>11. Direct(gr, hd, h)
  BY <1>3 DEF TaskAt, ListAt
<1>4. gr.last[h] <= LastIn(gr, hd) /\ LastIn(gr, hd) \in Int
  BY <1>2 DEF Ordered, LastIn
<1>5. Direct(gr, hd, gr.last[h] + 1)
  <2> SUFFICES ASSUME NEW j \in HeadsOf(gr), hd < j, j < gr.last[h] + 1 PROVE gr.last[j] < gr.last[h] + 1
    BY DEF Direct
  <2>1. j \in Int /\ gr.last[j] \in Int
    BY DEF Ordered
  <2>2. CASE j < h
    BY <1>2, <1>11, <2>1, <2>2 DEF Direct
  <2>3. CASE j = h
    BY <1>2, <2>3
  <2>4. CASE j > h
    BY <1>2, <2>1, <2>4 DEF Ordered
  <2> QED BY <1>2, <2>1, <2>2, <2>3, <2>4
<1>6. CASE k < L
  <2>1. k \in 1..L /\ k \in Nat /\ k >= 1 /\ \A i \in 1..k : new[i] = old[i]
    BY <1>1, <1>6
  <2> QED BY <2>1, TaskAtSame DEF StackOK
<1>7. CASE k = L
  <2>1. new[k] = s /\ (k > 1 => new[k - 1] = old[k - 1]) /\ \A m \in 1..(k - 1) : new[m] = old[m]
    BY <1>1, <1>7
  <2>2. ListAt(gr, new, k)
    <3>1. /\ ListAt(gr, old, L) /\ hd \in {0} \union HeadsOf(gr)
          /\ gr.last[h] + 1 \in Nat /\ gr.last[h] + 1 >= 1 /\ hd <= gr.last[h] + 1 /\ gr.last[h] + 1 <= LastIn(gr, hd) + 1
      BY <1>2, <1>3, <1>4 DEF TaskAt
    <3>2. new[k].head = hd /\ new[k].at = gr.last[h] + 1 /\ hd = old[L].head /\ k = L /\ (k # 1 => new[k - 1] = old[k - 1])
      BY <2>1, <1>7
    <3> HIDE DEF L, hd
    <3>3. IF k = 1 THEN hd = 0 ELSE old[k - 1].op # "list" /\ old[k - 1].head = hd
      BY <3>1, <3>2 DEF ListAt
    <3> QED BY <3>1, <3>2, <3>3, <1>5 DEF ListAt
  <2>3. Nested(gr, new, k)
    BY <2>1, <1>3, <1>7 DEF TaskAt, Nested
  <2> QED BY <2>1, <2>2, <2>3 DEF TaskAt
<1>8. /\ \A m \in 1..L : new[m].head < h /\ new[m].head \in Int
      /\ \A j \in HeadsOf(gr) : j < h /\ h <= gr.last[j] => \E m \in 1..L : new[m].op # "list" /\ new[m].head = j
  <2>1. \A m \in 1..(L - 1) : new[m].head <= hd /\ new[m].head \in Int
    <3>1. \A m \in 1..(L - 1) : old[m].head <= hd /\ m \in 1..L
      BY <1>3 DEF TaskAt, Nested
    <3>2. \A m \in 1..(L - 1) : old[m].head \in Int
      BY <3>1, TaskHeads
    <3> QED BY <1>1, <3>1, <3>2
  <2>2. \A m \in 1..L : new[m].head < h /\ new[m].head \in Int
    <3>1. \A m \in 1..L : m = L \/ m \in 1..(L - 1)
      OBVIOUS
    <3> QED BY <1>1, <1>2, <2>1, <3>1
  <2>3. ASSUME NEW j \in HeadsOf(gr), j < h, h <= gr.last[j]
        PROVE  \E m \in 1..(L - 1) : old[m].op # "list" /\ old[m].head = j
    <3>1. j \in Int /\ gr.last[j] \in Int /\ j >= 1
      BY DEF Ordered
    <3>2. j <= hd
      BY <1>2, <1>11, <2>3, <3>1 DEF Direct
    <3>3. CASE j = hd
      <4>1. L # 1 /\ old[L - 1].op # "list" /\ old[L - 1].head = hd
        BY <1>3, <3>1, <3>3 DEF TaskAt, ListAt
      <4>2. L - 1 \in 1..(L - 1)
        <5>1. L \in Nat /\ L >= 1 /\ L # 1
          BY <4>1
        <5> HIDE DEF L
        <5> QED BY <5>1
      <4> QED BY <3>3, <4>1, <4>2
    <3>4. CASE j < hd
      BY <1>2, <1>3, <2>3, <3>1, <3>4 DEF TaskAt, Nested
    <3> QED BY <1>2, <3>1, <3>2, <3>3, <3>4
  <2>4. ASSUME NEW j \in HeadsOf(gr), j < h, h <= gr.last[j]
        PROVE  \E m \in 1..L : new[m].op # "list" /\ new[m].head = j
    <3>1. PICK m \in 1..(L - 1) : old[m].op # "list" /\ old[m].head = j
      BY <2>3, <2>4
    <3>2. m \in 1..L /\ new[m] = old[m]
      BY <1>1
    <3> QED BY <3>1, <3>2
  <2> QED BY <2>2, <2>4
<1>9. CASE k = L + 1
  <2>1. new[k] = t /\ new[k - 1] = s /\ k - 1 = L /\ k > 1
    BY <1>1, <1>9
  <2>2. ComponentAt(gr, new, k)
    BY <2>1, <1>2, <1>11 DEF ComponentAt
  <2>3. Nested(gr, new, k)
    <3>1. new[k].head = h /\ new[k].op # "list" /\ k - 1 = L
      BY <2>1
    <3> HIDE DEF L
    <3>2. \A m \in 1..(k - 1) : new[m].head <= new[k].head /\ new[m].head < new[k].head
      BY <3>1, <1>2, <1>8
    <3> QED BY <3>1, <3>2, <1>8 DEF Nested
  <2> QED BY <2>1, <2>2, <2>3 DEF TaskAt
<1>10. CASE k = L + 2
  <2>1. new[k] = u /\ new[k - 1] = t /\ k - 1 = L + 1 /\ k # 1
    BY <1>1, <1>10
  <2>2. Direct(gr, h, h)
    BY <1>2 DEF Direct, Ordered
  <2>3. ListAt(gr, new, k)
    BY <2>1, <2>2, <1>2 DEF ListAt, LastIn
  <2>4. \A m \in 1..(k - 1) : m \in 1..L \/ m = L + 1
    BY <2>1
  <2>5. \A m \in 1..(k - 1) : new[m].head <= h
    BY <2>4, <1>1, <1>2, <1>8
  <2>6. \A j \in HeadsOf(gr) : j < h /\ h <= gr.last[j] => \E m \in 1..(k - 1) : new[m].op # "list" /\ new[m].head = j
    <3>1. \A m \in 1..L : m \in 1..(k - 1)
      BY <2>1
    <3> QED BY <3>1, <1>8
  <2> QED BY <2>1, <2>3, <2>5, <2>6 DEF TaskAt, Nested
<1> QED BY <1>1, <1>6, <1>7, <1>9, <1>10

-----------------------------------------------------------------------------
(***************************************************************************)
(* Progress: what the values of the nodes cover at each point of the       *)
(* iteration, g the values and E those that the graph starts in.           *)
(***************************************************************************)
Active(ts, h) == \E k \in 1..Len(ts) : ts[k].op # "list" /\ ts[k].head = h

\* A component that no task is on covers what starts at its head.
Idle(gr, g, E, ts) == \A h \in HeadsOf(gr) : ~ Active(ts, h) => Full(gr, g, E, h)

\* The iteration that a component runs has not reached its head.
Starting(ts, k) == k < Len(ts) /\ ts[k + 1].at = ts[k].head

ListCovers(gr, g, E, ts, k) ==
    IF k < Len(ts) THEN Covers(gr, g, E, ts[k].head, ts[k + 1].head)
    ELSE IF ts[k].at = ts[k].head THEN Full(gr, g, E, ts[k].head)
    ELSE Covers(gr, g, E, ts[k].head, ts[k].at)

FixCovers(gr, g, E, ts, k) ==
    IF Starting(ts, k) THEN g[ts[k].head] = Gamma(ts[k].old)
    ELSE /\ Entered(gr, g, E, ts[k].head)
         /\ g[ts[k].head] \subseteq Gamma(ts[k].old) => HeadInductive(gr, g, E, ts[k].head)

TaskCovers(gr, g, E, ts, k) ==
    /\ ts[k].op = "list" => ListCovers(gr, g, E, ts, k)
    /\ ts[k].op # "list" => (k = Len(ts) => Full(gr, g, E, ts[k].head))
    /\ ts[k].op = "fix" => FixCovers(gr, g, E, ts, k)
    /\ ts[k].op = "refine" => HeadCovers(gr, g, E, ts[k - 1].head, ts[k].head)

Progress(gr, g, E, ts) ==
    /\ Idle(gr, g, E, ts)
    /\ \A k \in 1..Len(ts) : TaskCovers(gr, g, E, ts, k)
    /\ Len(ts) = 0 => Covers(gr, g, E, 0, Size(gr) + 1)

\* A task that is not the last one has what it had.
LEMMA TaskCoversSame ==
  ASSUME NEW gr, NEW g, NEW E, NEW old, NEW new, NEW k \in Nat, k >= 1,
         Len(old) \in Nat, Len(new) \in Nat, k < Len(old), k < Len(new),
         \A i \in 1..k : new[i] = old[i], new[k + 1].head = old[k + 1].head,
         new[k + 1].at = old[k].head <=> old[k + 1].at = old[k].head,
         new[k].op = "refine" => k > 1, TaskCovers(gr, g, E, old, k)
  PROVE  TaskCovers(gr, g, E, new, k)
<1>1. new[k] = old[k] /\ (k > 1 => new[k - 1] = old[k - 1]) /\ k # Len(new)
  <2>1. k \in 1..k /\ (k > 1 => k - 1 \in 1..k) /\ k # Len(new)
    OBVIOUS
  <2> QED BY <2>1
<1>2. Starting(new, k) <=> Starting(old, k)
  BY <1>1 DEF Starting
<1>3. new[k].op = "list" => ListCovers(gr, g, E, new, k)
  BY <1>1 DEF TaskCovers, ListCovers
<1>4. new[k].op = "fix" => FixCovers(gr, g, E, new, k)
  BY <1>1, <1>2 DEF TaskCovers, FixCovers
<1>5. new[k].op = "refine" => HeadCovers(gr, g, E, new[k - 1].head, new[k].head)
  BY <1>1 DEF TaskCovers
<1> QED BY <1>1, <1>3, <1>4, <1>5 DEF TaskCovers

\* A position that is no head, or the head of the list it is in, leaves no
\* component that starts after that head open.
LEMMA DirectNext ==
  ASSUME NEW gr, Ordered(gr), NEW h \in {0} \union HeadsOf(gr), NEW p \in Int, h <= p,
         p = h \/ p \notin HeadsOf(gr), Direct(gr, h, p)
  PROVE  Direct(gr, h, p + 1)
<1> SUFFICES ASSUME NEW j \in HeadsOf(gr), h < j, j < p + 1 PROVE gr.last[j] < p + 1
  BY DEF Direct
<1>1. j \in Int /\ gr.last[j] \in Int /\ h \in Int
  BY DEF Ordered
<1>2. j # p
  BY <1>1
<1>3. gr.last[j] < p
  BY <1>1, <1>2 DEF Direct
<1> QED BY <1>1, <1>3

\* A component is on the stack when the position that a list is at is in it.
LEMMA InsideActive ==
  ASSUME NEW gr, Ordered(gr), NEW ts, Len(ts) \in Nat, Len(ts) >= 1, StackOK(gr, ts),
         ts[Len(ts)].op = "list", ts[Len(ts)].at = ts[Len(ts)].head \/ ts[Len(ts)].at \notin HeadsOf(gr),
         NEW h \in HeadsOf(gr), h <= ts[Len(ts)].at, ts[Len(ts)].at <= gr.last[h]
  PROVE  Active(ts, h)
<1> DEFINE L == Len(ts)
           hd == ts[L].head
           p == ts[L].at
<1>1. ListAt(gr, ts, L) /\ Nested(gr, ts, L)
  BY DEF StackOK, TaskAt
<1>2. hd \in Int /\ h \in Int /\ h >= 1 /\ p \in Int /\ hd <= p /\ gr.last[h] \in Int /\ L \in Nat /\ L >= 1
  BY <1>1, TaskHeads DEF ListAt, Ordered
<1>3. CASE h = hd
  <2>1. L # 1 /\ ts[L - 1].op # "list" /\ ts[L - 1].head = h
    BY <1>1, <1>2, <1>3 DEF ListAt
  <2>2. L - 1 \in 1..L
    <3> HIDE DEF L
    <3> QED BY <1>2, <2>1
  <2> QED BY <2>1, <2>2 DEF Active
<1>4. CASE h < hd
  <2>1. hd <= gr.last[h]
    BY <1>2
  <2>2. \E m \in 1..(L - 1) : ts[m].op # "list" /\ ts[m].head = h
    BY <1>1, <1>4, <2>1 DEF Nested
  <2> QED BY <2>2 DEF Active
<1>5. CASE hd < h
  <2>1. h # p
    BY <1>5, <1>2
  <2>2. h < p
    BY <1>2, <2>1
  <2>3. gr.last[h] < p
    BY <1>1, <1>5, <2>2 DEF ListAt, Direct
  <2> QED BY <1>2, <2>3
<1> QED BY <1>2, <1>3, <1>4, <1>5

-----------------------------------------------------------------------------
\* What the tasks under the last one are.
LEMMA UnderTop ==
  ASSUME NEW gr, Ordered(gr), NEW ts, Len(ts) \in Nat, Len(ts) >= 1, StackOK(gr, ts),
         NEW k \in Nat, k >= 1, k < Len(ts)
  PROVE  /\ ts[k].head \in {0} \union HeadsOf(gr) /\ ts[k].head \in Int
         /\ ts[Len(ts)].head \in Int /\ ts[k].head <= ts[Len(ts)].head
         /\ ts[k].op = "refine" => k > 1
         /\ IF ts[k].op = "list"
            THEN ts[k + 1].op # "list" /\ ts[k].head < ts[k + 1].head /\ ts[k + 1].head <= ts[Len(ts)].head
                 /\ ts[k + 1].head \in Int
            ELSE /\ ts[k + 1].op = "list" /\ ts[k + 1].head = ts[k].head
                 /\ k + 1 # Len(ts) => ts[k].head < ts[Len(ts)].head
                 /\ ts[k].head \in HeadsOf(gr)
<1> DEFINE L == Len(ts)
<1>1. k \in 1..L /\ k + 1 \in 1..L /\ L \in 1..L /\ k \in 1..(L - 1)
  OBVIOUS
<1>2. TaskAt(gr, ts, k) /\ TaskAt(gr, ts, k + 1) /\ TaskAt(gr, ts, L)
  BY <1>1 DEF StackOK
<1>3. ts[k].head \in {0} \union HeadsOf(gr) /\ ts[k].head \in Int /\ ts[L].head \in Int /\ ts[k + 1].head \in Int
  BY <1>1, TaskHeads
<1>4. ts[k].head <= ts[L].head
  BY <1>1, <1>2 DEF TaskAt, Nested
<1>5. k + 1 # L => k + 1 \in 1..(L - 1)
  OBVIOUS
<1>6. ts[k + 1].head <= ts[L].head
  BY <1>2, <1>3, <1>5 DEF TaskAt, Nested
<1>7. ts[k].op = "refine" => k > 1
  BY <1>2 DEF TaskAt, ComponentAt
<1>8. k + 1 # 1 /\ k + 1 - 1 = k
  OBVIOUS
<1>9. CASE ts[k].op = "list"
  <2>1. ts[k + 1].op # "list"
    BY <1>2, <1>8, <1>9 DEF TaskAt, ListAt
  <2>2. ts[k].head < ts[k + 1].head
    BY <1>2, <1>8, <2>1 DEF TaskAt, ComponentAt
  <2> QED BY <1>3, <1>4, <1>6, <1>7, <1>9, <2>1, <2>2
<1>10. CASE ts[k].op # "list"
  <2>1. ts[k + 1].op = "list"
    BY <1>2, <1>8, <1>10 DEF TaskAt, ComponentAt
  <2>2. ts[k + 1].head = ts[k].head
    BY <1>2, <1>8, <2>1 DEF TaskAt, ListAt
  <2>3. ts[k].head \in HeadsOf(gr)
    BY <1>2, <1>10 DEF TaskAt, ComponentAt
  <2>4. ASSUME k + 1 # L PROVE ts[k].head < ts[L].head
    <3>1. k + 2 \in 1..L /\ k + 2 - 1 = k + 1 /\ k + 2 # 1
      BY <2>4, <1>1
    <3>2. TaskAt(gr, ts, k + 2)
      BY <3>1 DEF StackOK
    <3>3. ts[k + 2].op # "list"
      BY <2>1, <3>1, <3>2 DEF TaskAt, ListAt
    <3>4. ts[k + 1].head < ts[k + 2].head
      BY <3>1, <3>2, <3>3 DEF TaskAt, ComponentAt
    <3>5. ts[k + 2].head <= ts[L].head /\ ts[k + 2].head \in Int
      <4>1. ts[k + 2].head \in Int /\ (k + 2 # L => k + 2 \in 1..(L - 1))
        BY <3>1, TaskHeads
      <4> QED BY <4>1, <1>2, <1>3 DEF TaskAt, Nested
    <3> QED BY <1>3, <2>2, <3>4, <3>5
  <2> QED BY <1>3, <1>4, <1>7, <1>10, <2>1, <2>2, <2>3, <2>4
<1> QED BY <1>9, <1>10

\* Propagation: the list moves on from position p, whose value is new.
LEMMA ProgressPropagated ==
  ASSUME NEW gr, Ordered(gr), NEW g, NEW E, Values(gr, g, E), NEW old, NEW new, NEW s,
         Len(old) \in Nat, Len(old) >= 1, StackOK(gr, old), Progress(gr, g, E, old),
         old[Len(old)].op = "list", NEW p, p = old[Len(old)].at,
         p <= LastIn(gr, old[Len(old)].head), p = old[Len(old)].head \/ p \notin HeadsOf(gr),
         Replaced(old, new, s), s.op = "list", s.head = old[Len(old)].head, s.at = p + 1,
         NEW gnew, Values(gr, gnew, E), Updated(gr, g, gnew, E, p)
  PROVE  Progress(gr, gnew, E, new)
<1> DEFINE L == Len(old)
           hd == s.head
<1>1. /\ Len(new) = L /\ new[L] = s /\ \A i \in 1..(L - 1) : new[i] = old[i]
  BY DEF Replaced, Kept
<1>2. ListAt(gr, old, L) /\ Nested(gr, old, L) /\ old[L].head = hd
  BY DEF StackOK, TaskAt
<1>3. /\ hd \in {0} \union HeadsOf(gr) /\ hd \in Int /\ hd >= 0 /\ hd <= p /\ Direct(gr, hd, p)
      /\ p \in 1..Size(gr) /\ p \in Int /\ L \in Nat /\ L >= 1
  <2>1. hd \in {0} \union HeadsOf(gr) /\ hd \in Int /\ hd >= 0
    BY <1>2 DEF ListAt, Ordered
  <2>2. LastIn(gr, hd) <= Size(gr) /\ LastIn(gr, hd) \in Int /\ Size(gr) \in Int
    BY <2>1 DEF LastIn, Ordered
  <2>3. p \in Nat /\ p >= 1 /\ hd <= p /\ Direct(gr, hd, p) /\ p <= LastIn(gr, hd)
    BY <1>2 DEF ListAt
  <2> HIDE DEF hd
  <2> QED BY <2>1, <2>2, <2>3
<1>4. \A i \in 1..Size(gr) : i # p => gnew[i] = g[i]
  BY DEF Updated
<1>5. ListCovers(gr, g, E, old, L)
  BY DEF Progress, TaskCovers
<1>6. \A h : Active(new, h) <=> Active(old, h)
  <2>1. \A k \in 1..L : new[k].op = old[k].op /\ new[k].head = old[k].head
    <3>1. \A k \in 1..L : k = L \/ k \in 1..(L - 1)
      BY <1>3
    <3> QED BY <3>1, <1>1
  <2> QED BY <1>1, <2>1 DEF Active
<1>7. ASSUME NEW h \in HeadsOf(gr), p < h \/ gr.last[h] < p, Full(gr, g, E, h)
      PROVE  Full(gr, gnew, E, h)
  <2>1. h \in 1..Size(gr) /\ gr.last[h] \in Int /\ h <= gr.last[h] /\ Size(gr) \in Int
    BY DEF Ordered
  <2>2. \A i \in 1..Size(gr) : h <= i /\ i < gr.last[h] + 1 => gnew[i] = g[i]
    BY <1>3, <1>4, <1>7, <2>1
  <2>3. gr.last[h] + 1 \in Int /\ h < gr.last[h] + 1
    BY <2>1
  <2> QED BY <1>7, <2>2, <2>3, CoversSame DEF Full
<1>8. Idle(gr, gnew, E, new)
  <2> SUFFICES ASSUME NEW h \in HeadsOf(gr), ~ Active(old, h) PROVE Full(gr, gnew, E, h)
    BY <1>6 DEF Idle
  <2>1. Full(gr, g, E, h)
    BY DEF Progress, Idle
  <2>2. ~ (h <= p /\ p <= gr.last[h])
    BY InsideActive
  <2>3. h \in Int /\ gr.last[h] \in Int
    BY DEF Ordered
  <2> QED BY <1>3, <1>7, <2>1, <2>2, <2>3
<1>9. ListCovers(gr, gnew, E, new, L)
  <2>1. p + 1 # hd /\ p + 1 \in Int
    BY <1>3
  <2>2. CASE p = hd
    <3>1. hd \in HeadsOf(gr)
      BY <1>3, <2>2
    <3>2. Covers(gr, gnew, E, hd, p + 1)
      BY <2>2, <3>1, HeadStep
    <3> QED BY <1>1, <2>1, <3>2 DEF ListCovers
  <2>3. CASE p # hd
    <3>1. Covers(gr, g, E, hd, p)
      BY <1>2, <1>5, <2>3 DEF ListCovers
    <3>2. hd < p /\ p \notin HeadsOf(gr)
      BY <1>2, <1>3, <2>3
    <3>3. Covers(gr, gnew, E, hd, p + 1)
      BY <1>3, <3>1, <3>2, SimpleStep
    <3> QED BY <1>1, <2>1, <3>3 DEF ListCovers
  <2> QED BY <2>2, <2>3
<1>10. ASSUME NEW k \in 1..(L - 1) PROVE TaskCovers(gr, gnew, E, new, k)
  <2> DEFINE h == old[k].head
  <2>1. k \in Nat /\ k >= 1 /\ k < L /\ k \in 1..L /\ k # L
    BY <1>3
  <2>2. /\ h \in {0} \union HeadsOf(gr) /\ h \in Int /\ h <= hd
        /\ old[k].op = "refine" => k > 1
        /\ IF old[k].op = "list"
           THEN h < old[k + 1].head /\ old[k + 1].head <= hd /\ old[k + 1].head \in Int
           ELSE /\ old[k + 1].head = h /\ (k + 1 # L => h < hd) /\ h \in HeadsOf(gr) /\ old[k + 1].op = "list"
    BY <1>2, <2>1, UnderTop
  <2>3. TaskCovers(gr, g, E, old, k)
    BY <2>1 DEF Progress
  <2>4. new[k] = old[k] /\ new[k + 1].head = old[k + 1].head
    <3>1. k + 1 = L \/ k + 1 \in 1..(L - 1)
      BY <2>1
    <3> QED BY <1>1, <1>2, <3>1
  <2>5. ASSUME NEW x \in Int, x < p
        PROVE  \A i \in 1..Size(gr) : i < x + 1 => gnew[i] = g[i]
    BY <1>3, <1>4, <2>5
  <2>6. h # 0 => h \in 1..Size(gr) /\ h \in HeadsOf(gr)
    BY <2>2 DEF Ordered
  <2>7. new[k].op = "list" => ListCovers(gr, gnew, E, new, k)
    <3> SUFFICES ASSUME old[k].op = "list" PROVE ListCovers(gr, gnew, E, new, k)
      BY <2>4
    <3> DEFINE q == old[k + 1].head
    <3>1. Covers(gr, g, E, h, q)
      BY <2>1, <2>3 DEF TaskCovers, ListCovers
    <3>2. h < q /\ q <= p /\ q \in Int
      BY <1>3, <2>2
    <3>3. \A i \in 1..Size(gr) : h <= i /\ i < q => gnew[i] = g[i]
      BY <1>3, <1>4, <3>2
    <3>4. Covers(gr, gnew, E, h, q)
      BY <2>2, <3>1, <3>2, <3>3, CoversSame
    <3> QED BY <1>1, <2>1, <2>4, <3>4 DEF ListCovers
  <2>8. ASSUME h < p, h \in HeadsOf(gr)
        PROVE  /\ gnew[h] = g[h]
               /\ Entered(gr, g, E, h) => Entered(gr, gnew, E, h)
               /\ HeadInductive(gr, g, E, h) => HeadInductive(gr, gnew, E, h)
    <3>1. gnew[h] = g[h] /\ h \in 1..Size(gr)
      BY <1>3, <1>4, <2>2, <2>8 DEF Ordered
    <3>2. \A c \in Configs(gr) : c[1] < h => gnew[c[1]] = g[c[1]]
      <4>1. \A c \in Configs(gr) : c[1] \in 1..Size(gr)
        BY DEF Configs
      <4> QED BY <4>1, <1>3, <1>4, <2>2, <2>8
    <3>3. Base(gnew, E, h) = Base(g, E, h)
      BY <3>1 DEF Base
    <3> HIDE DEF h
    <3>4. Entered(gr, g, E, h) => Entered(gr, gnew, E, h)
      BY <3>1, <3>2 DEF Entered
    <3>5. HeadInductive(gr, g, E, h) => HeadInductive(gr, gnew, E, h)
      BY <3>1, <3>3 DEF HeadInductive, Within
    <3> QED BY <3>1, <3>4, <3>5
  <2>9. new[k].op = "fix" => FixCovers(gr, gnew, E, new, k)
    <3> SUFFICES ASSUME old[k].op = "fix" PROVE FixCovers(gr, gnew, E, new, k)
      BY <2>4
    <3>1. FixCovers(gr, g, E, old, k) /\ h \in HeadsOf(gr) /\ old[k + 1].head = h /\ (k + 1 # L => h < hd)
      BY <2>2, <2>3 DEF TaskCovers
    <3>2. CASE k + 1 # L
      <4>1. new[k + 1] = old[k + 1]
        BY <1>1, <2>1, <3>2
      <4>2. Starting(new, k) <=> Starting(old, k)
        BY <1>1, <2>4, <4>1 DEF Starting
      <4>3. h < p
        BY <1>3, <2>2, <3>1, <3>2
      <4> QED BY <2>4, <2>8, <3>1, <4>2, <4>3 DEF FixCovers
    <3>3. CASE k + 1 = L
      <4>1. h = hd /\ ~ Starting(new, k) /\ (Starting(old, k) <=> p = hd)
        <5>1. h = hd
          BY <1>2, <3>1, <3>3
        <5>2. new[k + 1].at = p + 1 /\ old[k + 1].at = p /\ p + 1 # hd
          BY <1>1, <1>3, <3>3
        <5> QED BY <1>1, <2>1, <2>4, <5>1, <5>2 DEF Starting
      <4>2. CASE p = hd
        <5>1. g[h] = Gamma(old[k].old)
          BY <3>1, <4>1, <4>2 DEF FixCovers
        <5>2. Full(gr, g, E, hd)
          BY <1>2, <1>5, <4>2 DEF ListCovers
        <5>3. Entered(gr, gnew, E, h) /\ (gnew[h] \subseteq g[h] => HeadInductive(gr, gnew, E, h))
          BY <3>1, <4>1, <4>2, <5>2, IterationStable
        <5> QED BY <2>4, <4>1, <5>1, <5>3 DEF FixCovers
      <4>3. CASE p # hd
        <5>1. h < p
          BY <1>3, <4>1, <4>3
        <5>2. Entered(gr, g, E, h) /\ (g[h] \subseteq Gamma(old[k].old) => HeadInductive(gr, g, E, h))
          BY <3>1, <4>1, <4>3 DEF FixCovers
        <5> QED BY <2>4, <2>8, <3>1, <4>1, <5>1, <5>2 DEF FixCovers
      <4> QED BY <4>2, <4>3
    <3> QED BY <3>2, <3>3
  <2>10. new[k].op = "refine" => HeadCovers(gr, gnew, E, new[k - 1].head, new[k].head)
    <3> SUFFICES ASSUME old[k].op = "refine" PROVE HeadCovers(gr, gnew, E, new[k - 1].head, h)
      BY <2>4
    <3> DEFINE b == old[k - 1].head
    <3>1. k > 1 /\ k - 1 \in 1..(L - 1) /\ k - 1 \in 1..L /\ k - 1 >= 1 /\ k - 1 < L /\ k - 1 \in Nat
      BY <1>3, <2>1, <2>2
    <3>2. new[k - 1] = old[k - 1]
      BY <1>1, <3>1
    <3>3. ComponentAt(gr, old, k)
      BY <2>1 DEF StackOK, TaskAt
    <3>4. b \in {0} \union HeadsOf(gr) /\ b \in Int /\ b < h /\ Direct(gr, b, h) /\ h \in HeadsOf(gr) /\ old[k - 1].op = "list"
      BY <3>1, <3>3, TaskHeads DEF ComponentAt
    <3>5. HeadCovers(gr, g, E, b, h)
      BY <2>3 DEF TaskCovers
    <3>6. CASE h < p
      <4>1. gnew[h] = g[h]
        BY <2>8, <3>4, <3>6
      <4>2. b # 0 => b \in 1..Size(gr) /\ gnew[b] = g[b]
        BY <1>3, <1>4, <2>2, <3>4, <3>6 DEF Ordered
      <4>3. Base(gnew, E, b) = Base(g, E, b)
        BY <4>2 DEF Base
      <4> HIDE DEF b, h
      <4> QED BY <3>2, <3>5, <4>1, <4>3 DEF HeadCovers, Within, b
    <3>7. CASE ~ (h < p)
      <4>1. h = hd /\ p = hd
        BY <1>3, <2>2, <3>7
      <4>2. k + 1 = L
        BY <2>2, <4>1
      <4>3. Full(gr, g, E, h)
        BY <1>2, <1>5, <4>1 DEF ListCovers
      <4>4. Covers(gr, g, E, b, h)
        <5>1. TaskCovers(gr, g, E, old, k - 1) /\ k - 1 + 1 = k
          BY <3>1 DEF Progress
        <5> QED BY <3>1, <3>4, <5>1 DEF TaskCovers, ListCovers
      <4>5. HeadCovers(gr, gnew, E, b, h)
        BY <3>4, <3>5, <4>1, <4>3, <4>4, HeadAgain
      <4> QED BY <3>2, <4>5
    <3> QED BY <3>6, <3>7
  <2> QED BY <1>1, <2>1, <2>7, <2>9, <2>10 DEF TaskCovers
<1>11. TaskCovers(gr, gnew, E, new, L)
  BY <1>1, <1>9 DEF TaskCovers
<1>12. \A k \in 1..Len(new) : k = L \/ k \in 1..(L - 1)
  BY <1>1, <1>3
<1> QED BY <1>1, <1>3, <1>8, <1>10, <1>11, <1>12 DEF Progress

\* The step of the tasks under the last one, in all the other actions.
LEMMA UnderTopSame ==
  ASSUME NEW gr, Ordered(gr), NEW g, NEW E, NEW old, NEW new,
         Len(old) \in Nat, Len(new) \in Nat, Len(old) >= 1, StackOK(gr, old), Progress(gr, g, E, old),
         Kept(old, new), NEW n \in Nat, n < Len(old), n < Len(new),
         n = Len(old) - 1 =>
            /\ new[n + 1].head = old[n + 1].head
            /\ new[n + 1].op = "list" =>
                  (new[n + 1].at = new[n + 1].head <=> old[n + 1].at = old[n + 1].head)
            /\ new[n + 1].op = "list" <=> old[n + 1].op = "list"
  PROVE  \A k \in 1..n : TaskCovers(gr, g, E, new, k)
<1> TAKE k \in 1..n
<1>1. k \in Nat /\ k >= 1 /\ k < Len(old) /\ k < Len(new) /\ k \in 1..Len(old)
  OBVIOUS
<1>2. \A i \in 1..k : new[i] = old[i]
  BY <1>1 DEF Kept
<1>3. TaskCovers(gr, g, E, old, k)
  BY <1>1 DEF Progress
<1>4. /\ old[k].op = "refine" => k > 1
      /\ IF old[k].op = "list" THEN old[k + 1].op # "list" /\ old[k].head < old[k + 1].head
         ELSE old[k + 1].op = "list" /\ old[k + 1].head = old[k].head
  BY <1>1, UnderTop
<1>5. new[k] = old[k]
  BY <1>1, <1>2
<1>6. CASE k + 1 # Len(old)
  <2>1. new[k + 1] = old[k + 1]
    BY <1>1, <1>6 DEF Kept
  <2> QED BY <1>1, <1>2, <1>3, <1>4, <1>5, <2>1, TaskCoversSame
<1>7. CASE k + 1 = Len(old)
  <2>1. k = n /\ n = Len(old) - 1
    BY <1>1, <1>7
  <2>2. new[k + 1].head = old[k + 1].head
    BY <2>1
  <2>3. CASE old[k].op = "list"
    <3>1. new[k].op = "list"
      BY <1>5, <2>3
    <3>2. ListCovers(gr, g, E, new, k)
      BY <1>1, <1>3, <1>5, <2>2, <2>3 DEF TaskCovers, ListCovers
    <3> QED BY <3>1, <3>2 DEF TaskCovers
  <2>4. CASE old[k].op # "list"
    <3>1. new[k + 1].at = old[k].head <=> old[k + 1].at = old[k].head
      BY <1>4, <2>1, <2>4
    <3> QED BY <1>1, <1>2, <1>3, <1>4, <1>5, <2>2, <3>1, TaskCoversSame
  <2> QED BY <2>3, <2>4
<1> QED BY <1>6, <1>7

\* What the last task of a stack that is fine is.
LEMMA TopFacts ==
  ASSUME NEW gr, Ordered(gr), NEW g, NEW E, NEW ts, Len(ts) \in Nat, Len(ts) >= 1, StackOK(gr, ts),
         Progress(gr, g, E, ts)
  PROVE  LET L == Len(ts)
         IN /\ IF ts[L].op = "list" THEN ListAt(gr, ts, L) ELSE ComponentAt(gr, ts, L)
            /\ Nested(gr, ts, L)
            /\ ts[L].head \in {0} \union HeadsOf(gr) /\ ts[L].head \in Int /\ ts[L].head >= 0
            /\ \A m \in 1..(L - 1) : ts[m].head \in Int
            /\ TaskCovers(gr, g, E, ts, L)
<1> DEFINE L == Len(ts)
<1>1. L \in 1..L /\ \A m \in 1..(L - 1) : m \in 1..L
  OBVIOUS
<1>2. TaskAt(gr, ts, L) /\ TaskCovers(gr, g, E, ts, L)
  BY <1>1 DEF StackOK, Progress
<1>3. /\ ts[L].head \in {0} \union HeadsOf(gr) /\ ts[L].head \in Int /\ ts[L].head >= 0
      /\ \A m \in 1..(L - 1) : ts[m].head \in Int
  BY <1>1, TaskHeads
<1> QED BY <1>2, <1>3 DEF TaskAt

\* A component is entered.
LEMMA ProgressEntered ==
  ASSUME NEW gr, Ordered(gr), NEW g, NEW E, Values(gr, g, E), NEW old, NEW new, NEW s, NEW t, NEW u,
         Len(old) \in Nat, Len(old) >= 1, StackOK(gr, old), Progress(gr, g, E, old),
         old[Len(old)].op = "list", NEW h \in HeadsOf(gr), h = old[Len(old)].at, h # old[Len(old)].head,
         PushedTwo(old, new, s, t, u), s.op = "list", s.head = old[Len(old)].head, s.at = gr.last[h] + 1,
         t.op = "fix", t.head = h, g[h] = Gamma(t.old), u.op = "list", u.head = h, u.at = h
  PROVE  Progress(gr, g, E, new)
<1> DEFINE L == Len(old)
           hd == s.head
<1>1. /\ Len(new) = L + 2 /\ new[L] = s /\ new[L + 1] = t /\ new[L + 2] = u /\ Kept(old, new)
      /\ \A i \in 1..(L - 1) : new[i] = old[i]
  BY DEF PushedTwo, Kept
<1>2. /\ ListAt(gr, old, L) /\ Nested(gr, old, L) /\ old[L].head = hd /\ hd \in Int
      /\ TaskCovers(gr, g, E, old, L) /\ \A m \in 1..(L - 1) : old[m].head \in Int
  BY TopFacts
<1>3. h \in Int /\ gr.last[h] \in Int /\ h <= gr.last[h] /\ hd < h /\ L \in Nat /\ L >= 1
  BY <1>2 DEF ListAt, Ordered
<1>4. \A k \in 1..(L - 1) : TaskCovers(gr, g, E, new, k)
  <2>1. new[L].head = old[L].head /\ new[L].at # new[L].head /\ old[L].at # old[L].head /\ new[L].op = "list"
    BY <1>1, <1>2, <1>3
  <2>2. L - 1 \in Nat /\ L - 1 < Len(old) /\ L - 1 < Len(new) /\ L - 1 + 1 = L /\ Len(new) \in Nat
    BY <1>1, <1>3
  <2> HIDE DEF L
  <2> QED BY <1>1, <2>1, <2>2, UnderTopSame DEF L
<1>5. TaskCovers(gr, g, E, new, L)
  <2>1. Covers(gr, g, E, hd, h)
    BY <1>2, <1>3 DEF TaskCovers, ListCovers
  <2>2. ListCovers(gr, g, E, new, L)
    BY <1>1, <1>3, <2>1 DEF ListCovers
  <2> QED BY <1>1, <2>2 DEF TaskCovers
<1>6. TaskCovers(gr, g, E, new, L + 1)
  <2>1. Starting(new, L + 1)
    BY <1>1, <1>3 DEF Starting
  <2>2. FixCovers(gr, g, E, new, L + 1)
    BY <1>1, <2>1 DEF FixCovers
  <2> QED BY <1>1, <1>3, <2>2 DEF TaskCovers
<1>7. TaskCovers(gr, g, E, new, L + 2)
  <2>1. ~ Active(old, h)
    <3> SUFFICES ASSUME NEW k \in 1..L, old[k].op # "list", old[k].head = h PROVE FALSE
      BY DEF Active
    <3>1. k # L
      OBVIOUS
    <3>2. k \in 1..(L - 1)
      BY <3>1
    <3>3. old[k].head <= hd
      BY <1>2, <3>2 DEF Nested
    <3>4. h <= hd
      BY <3>3
    <3> HIDE DEF hd
    <3> QED BY <1>2, <1>3, <3>4
  <2>2. Full(gr, g, E, h)
    BY <2>1 DEF Progress, Idle
  <2>3. ListCovers(gr, g, E, new, L + 2)
    BY <1>1, <1>3, <2>2 DEF ListCovers
  <2> QED BY <1>1, <2>3 DEF TaskCovers
<1>8. Idle(gr, g, E, new)
  <2> SUFFICES ASSUME NEW j \in HeadsOf(gr), Active(old, j) PROVE Active(new, j)
    BY DEF Progress, Idle
  <2>1. PICK k \in 1..L : old[k].op # "list" /\ old[k].head = j
    BY DEF Active
  <2>2. k # L
    BY <2>1
  <2>3. k \in 1..(L - 1) /\ k \in 1..(L + 2)
    BY <2>2, <1>3
  <2> QED BY <1>1, <2>1, <2>3 DEF Active
<1>9. \A k \in 1..(L + 2) : k \in 1..(L - 1) \/ k = L \/ k = L + 1 \/ k = L + 2
  BY <1>3
<1> QED BY <1>1, <1>3, <1>4, <1>5, <1>6, <1>7, <1>8, <1>9 DEF Progress

\* A list ends.
LEMMA ProgressEnded ==
  ASSUME NEW gr, Ordered(gr), NEW g, NEW E, Values(gr, g, E), NEW old, NEW new,
         Len(old) \in Nat, Len(old) >= 1, StackOK(gr, old), Progress(gr, g, E, old),
         old[Len(old)].op = "list", old[Len(old)].at > LastIn(gr, old[Len(old)].head), Popped(old, new)
  PROVE  Progress(gr, g, E, new)
<1> DEFINE L == Len(old)
           hd == old[L].head
<1>1. Len(new) = L - 1 /\ Kept(old, new) /\ \A i \in 1..(L - 1) : new[i] = old[i]
  BY DEF Popped, Kept
<1>2. /\ ListAt(gr, old, L) /\ hd \in {0} \union HeadsOf(gr) /\ hd \in Int
      /\ TaskCovers(gr, g, E, old, L)
  BY TopFacts
<1>3. L \in Nat /\ L >= 1 /\ L \in 1..L
  OBVIOUS
<1>4. old[L].at = LastIn(gr, hd) + 1 /\ LastIn(gr, hd) \in Int /\ hd <= LastIn(gr, hd)
  <2>1. LastIn(gr, hd) \in Int /\ hd <= LastIn(gr, hd)
    BY <1>2 DEF LastIn, Ordered
  <2>2. old[L].at \in Int /\ old[L].at <= LastIn(gr, hd) + 1 /\ old[L].at > LastIn(gr, hd)
    BY <1>2 DEF ListAt
  <2> HIDE DEF hd
  <2> QED BY <2>1, <2>2
<1>5. Covers(gr, g, E, hd, LastIn(gr, hd) + 1)
  <2>1. old[L].at # hd
    BY <1>2, <1>4
  <2> QED BY <1>2, <1>4, <2>1 DEF TaskCovers, ListCovers
<1>6. \A j : Active(old, j) => Active(new, j)
  <2> SUFFICES ASSUME NEW k \in 1..L, old[k].op # "list" PROVE k \in 1..(L - 1) /\ new[k] = old[k]
    BY <1>1 DEF Active
  <2>1. k # L
    OBVIOUS
  <2> QED BY <1>1, <2>1
<1>7. Idle(gr, g, E, new)
  BY <1>6 DEF Progress, Idle
<1>8. CASE L = 1
  <2>1. Len(new) = 0 /\ hd = 0
    BY <1>1, <1>2, <1>8 DEF ListAt
  <2>2. Covers(gr, g, E, 0, Size(gr) + 1)
    BY <1>5, <2>1 DEF LastIn
  <2> QED BY <1>7, <2>1, <2>2 DEF Progress
<1>9. CASE L # 1
  <2>1. L - 1 \in Nat /\ L - 1 >= 1 /\ L - 1 < L /\ L - 1 \in 1..(L - 1) /\ L - 1 + 1 = L /\ Len(new) # 0
    BY <1>1, <1>3, <1>9
  <2>2. old[L - 1].op # "list" /\ old[L - 1].head = hd /\ hd \in HeadsOf(gr) /\ (old[L - 1].op = "refine" => L - 1 > 1)
    BY <1>2, <1>9, <2>1, UnderTop DEF ListAt
  <2>3. new[L - 1] = old[L - 1] /\ TaskCovers(gr, g, E, old, L - 1)
    BY <1>1, <2>1 DEF Progress
  <2>4. Full(gr, g, E, hd)
    <3>1. hd # 0
      BY <2>2 DEF Ordered
    <3> QED BY <1>5, <3>1 DEF LastIn, Full
  <2>5. ~ Starting(new, L - 1) /\ ~ Starting(old, L - 1)
    BY <1>1, <1>2, <1>4, <2>1, <2>2, <2>3 DEF Starting
  <2>6. new[L - 1].op = "fix" => FixCovers(gr, g, E, new, L - 1)
    BY <2>3, <2>5 DEF TaskCovers, FixCovers
  <2>7. new[L - 1].op = "refine" => HeadCovers(gr, g, E, new[L - 1 - 1].head, new[L - 1].head)
    <3>1. new[L - 1].op = "refine" => L - 1 - 1 \in 1..(L - 1)
      BY <2>1, <2>2, <2>3
    <3> HIDE DEF L
    <3> QED BY <1>1, <2>3, <3>1 DEF TaskCovers
  <2>8. TaskCovers(gr, g, E, new, L - 1)
    BY <2>2, <2>3, <2>4, <2>6, <2>7 DEF TaskCovers
  <2>9. CASE L - 1 = 1
    <3>1. \A k \in 1..Len(new) : k = L - 1
      <4>1. Len(new) = 1
        BY <1>1, <2>9
      <4> HIDE DEF L
      <4> QED BY <2>9, <4>1
    <3> QED BY <1>7, <2>1, <2>8, <3>1 DEF Progress
  <2>10. CASE L - 1 # 1
    <3> DEFINE n == L - 2
    <3>1. n \in Nat /\ n < Len(old) /\ n < Len(new) /\ Len(new) \in Nat /\ n # Len(old) - 1
      BY <1>1, <2>1, <2>10
    <3> HIDE DEF n
    <3>2. \A k \in 1..n : TaskCovers(gr, g, E, new, k)
      BY <1>1, <3>1, UnderTopSame
    <3>3. \A k \in 1..Len(new) : k = L - 1 \/ k \in 1..n
      BY <1>1, <2>1 DEF n
    <3> QED BY <1>7, <2>1, <2>8, <3>2, <3>3 DEF Progress
  <2> QED BY <2>9, <2>10
<1> QED BY <1>8, <1>9

\* The positions of a stack are the last one and those under it.
LEMMA LastOrUnder ==
  ASSUME NEW L \in Nat, NEW k \in 1..L
  PROVE  (k = L \/ k \in 1..(L - 1)) /\ k \in 1..(L + 1)
OBVIOUS

\* The head of a component is stable: it covers what reaches it.
LEMMA ProgressStable ==
  ASSUME NEW gr, Ordered(gr), NEW g, NEW E, Values(gr, g, E), NEW old, NEW new, NEW s,
         Len(old) \in Nat, Len(old) >= 1, StackOK(gr, old), Progress(gr, g, E, old),
         old[Len(old)].op = "fix", g[old[Len(old)].head] \subseteq Gamma(old[Len(old)].old),
         Replaced(old, new, s), s.op = "refine", s.head = old[Len(old)].head
  PROVE  Progress(gr, g, E, new)
<1> DEFINE L == Len(old)
           h == s.head
           hd == old[L - 1].head
<1>1. Len(new) = L /\ new[L] = s /\ Kept(old, new) /\ \A i \in 1..(L - 1) : new[i] = old[i]
  BY DEF Replaced, Kept
<1>2. ComponentAt(gr, old, L) /\ TaskCovers(gr, g, E, old, L) /\ old[L].head = h
  BY TopFacts
<1>3. L \in Nat /\ L > 1 /\ L - 1 \in 1..L /\ L - 1 \in 1..(L - 1) /\ L - 1 + 1 = L /\ L - 1 < L /\ L - 1 \in Nat
  BY <1>2 DEF ComponentAt
<1>4. hd \in {0} \union HeadsOf(gr) /\ hd < h /\ h \in HeadsOf(gr) /\ Direct(gr, hd, h)
  BY <1>2, <1>3, TaskHeads DEF ComponentAt
<1>5. Covers(gr, g, E, hd, h)
  <2>1. TaskCovers(gr, g, E, old, L - 1) /\ old[L - 1].op = "list"
    BY <1>2, <1>3 DEF Progress, ComponentAt
  <2> QED BY <1>2, <1>3, <2>1 DEF TaskCovers, ListCovers
<1>6. Full(gr, g, E, h) /\ Entered(gr, g, E, h) /\ HeadInductive(gr, g, E, h)
  <2>1. ~ Starting(old, L)
    BY <1>3 DEF Starting
  <2> QED BY <1>2, <2>1 DEF TaskCovers, FixCovers
<1>7. HeadCovers(gr, g, E, hd, h)
  BY <1>4, <1>5, <1>6, StableHeadCovers
<1>8. TaskCovers(gr, g, E, new, L)
  BY <1>1, <1>3, <1>6, <1>7 DEF TaskCovers
<1>9. \A k \in 1..(L - 1) : TaskCovers(gr, g, E, new, k)
  <2>1. new[L].head = old[L].head /\ new[L].op # "list" /\ old[L].op # "list" /\ Len(new) \in Nat
    BY <1>1, <1>2
  <2> HIDE DEF L
  <2> QED BY <1>1, <1>3, <2>1, UnderTopSame DEF L
<1>10. Idle(gr, g, E, new)
  <2> SUFFICES ASSUME NEW j \in HeadsOf(gr), Active(old, j) PROVE Active(new, j)
    BY DEF Progress, Idle
  <2>1. PICK k \in 1..L : old[k].op # "list" /\ old[k].head = j
    BY DEF Active
  <2>2. k = L \/ k \in 1..(L - 1)
    BY <1>3, LastOrUnder
  <2> QED BY <1>1, <1>2, <2>1, <2>2 DEF Active
<1>11. \A k \in 1..L : k \in 1..(L - 1) \/ k = L
  BY <1>3, LastOrUnder
<1> QED BY <1>1, <1>3, <1>8, <1>9, <1>10, <1>11 DEF Progress

\* Another iteration of a component starts.
LEMMA ProgressAgain ==
  ASSUME NEW gr, Ordered(gr), NEW g, NEW E, Values(gr, g, E), NEW old, NEW new, NEW s, NEW t,
         Len(old) \in Nat, Len(old) >= 1, StackOK(gr, old), Progress(gr, g, E, old),
         old[Len(old)].op # "list", Pushed(old, new, s, t), s.op # "list", s.head = old[Len(old)].head,
         s.op = "fix" => g[s.head] = Gamma(s.old), s.op = "refine" => old[Len(old)].op = "refine",
         t.op = "list", t.head = s.head, t.at = s.head
  PROVE  Progress(gr, g, E, new)
<1> DEFINE L == Len(old)
           h == s.head
<1>1. /\ Len(new) = L + 1 /\ new[L] = s /\ new[L + 1] = t /\ Kept(old, new)
      /\ \A i \in 1..(L - 1) : new[i] = old[i]
  BY DEF Pushed, Kept
<1>2. ComponentAt(gr, old, L) /\ TaskCovers(gr, g, E, old, L) /\ old[L].head = h
  BY TopFacts
<1>3. L \in Nat /\ L > 1 /\ L - 1 \in 1..(L - 1) /\ L - 1 + 1 = L /\ L - 1 < L /\ L - 1 \in Nat /\ L < L + 1
  BY <1>2 DEF ComponentAt
<1>4. Full(gr, g, E, h)
  BY <1>2 DEF TaskCovers
<1>5. TaskCovers(gr, g, E, new, L)
  <2>1. Starting(new, L)
    BY <1>1, <1>3 DEF Starting
  <2>2. s.op = "fix" => FixCovers(gr, g, E, new, L)
    BY <1>1, <2>1 DEF FixCovers
  <2>3. s.op = "refine" => HeadCovers(gr, g, E, new[L - 1].head, h)
    BY <1>1, <1>2, <1>3 DEF TaskCovers
  <2>4. L # Len(new)
    BY <1>1, <1>3
  <2> QED BY <1>1, <2>2, <2>3, <2>4 DEF TaskCovers
<1>6. TaskCovers(gr, g, E, new, L + 1)
  <2>1. ListCovers(gr, g, E, new, L + 1)
    BY <1>1, <1>3, <1>4 DEF ListCovers
  <2> QED BY <1>1, <2>1 DEF TaskCovers
<1>7. \A k \in 1..(L - 1) : TaskCovers(gr, g, E, new, k)
  <2>1. new[L].head = old[L].head /\ new[L].op # "list" /\ old[L].op # "list" /\ Len(new) \in Nat /\ L - 1 < Len(new)
    BY <1>1, <1>2, <1>3
  <2> HIDE DEF L
  <2> QED BY <1>1, <1>3, <2>1, UnderTopSame DEF L
<1>8. Idle(gr, g, E, new)
  <2> SUFFICES ASSUME NEW j \in HeadsOf(gr), Active(old, j) PROVE Active(new, j)
    BY DEF Progress, Idle
  <2>1. PICK k \in 1..L : old[k].op # "list" /\ old[k].head = j
    BY DEF Active
  <2>2. (k = L \/ k \in 1..(L - 1)) /\ k \in 1..(L + 1)
    BY <1>3, LastOrUnder
  <2> QED BY <1>1, <1>2, <2>1, <2>2 DEF Active
<1>9. \A k \in 1..Len(new) : k \in 1..(L - 1) \/ k = L \/ k = L + 1
  <2>1. L + 1 \in Nat /\ L + 1 - 1 = L
    BY <1>3
  <2>2. ASSUME NEW k \in 1..(L + 1) PROVE k \in 1..(L - 1) \/ k = L \/ k = L + 1
    <3>1. k = L + 1 \/ k \in 1..L
      BY <2>1, LastOrUnder
    <3> QED BY <1>3, <3>1, LastOrUnder
  <2> QED BY <1>1, <2>2
<1>10. Len(new) # 0
  BY <1>1, <1>3
<1> QED BY <1>5, <1>6, <1>7, <1>8, <1>9, <1>10 DEF Progress

\* A component is over.
LEMMA ProgressRefined ==
  ASSUME NEW gr, Ordered(gr), NEW g, NEW E, Values(gr, g, E), NEW old, NEW new,
         Len(old) \in Nat, Len(old) >= 1, StackOK(gr, old), Progress(gr, g, E, old),
         old[Len(old)].op = "refine", Popped(old, new)
  PROVE  Progress(gr, g, E, new)
<1> DEFINE L == Len(old)
           h == old[L].head
           hd == old[L - 1].head
<1>1. Len(new) = L - 1 /\ Kept(old, new) /\ \A i \in 1..(L - 1) : new[i] = old[i]
  BY DEF Popped, Kept
<1>2. ComponentAt(gr, old, L) /\ TaskCovers(gr, g, E, old, L)
  BY TopFacts
<1>3. L \in Nat /\ L > 1 /\ L - 1 \in 1..L /\ L - 1 \in 1..(L - 1) /\ L - 1 + 1 = L /\ L - 1 < L /\ L - 1 \in Nat
  BY <1>2 DEF ComponentAt
<1>4. hd \in {0} \union HeadsOf(gr) /\ hd < h /\ h \in HeadsOf(gr) /\ Direct(gr, hd, h) /\ hd \in Int
  BY <1>2, <1>3, TaskHeads DEF ComponentAt
<1>5. old[L - 1].op = "list" /\ old[L - 1].at = gr.last[h] + 1
  BY <1>2 DEF ComponentAt
<1>6. Covers(gr, g, E, hd, gr.last[h] + 1) /\ Full(gr, g, E, h)
  <2>1. TaskCovers(gr, g, E, old, L - 1)
    BY <1>3 DEF Progress
  <2>2. Covers(gr, g, E, hd, h)
    BY <1>3, <1>5, <2>1 DEF TaskCovers, ListCovers
  <2>3. Full(gr, g, E, h) /\ HeadCovers(gr, g, E, hd, h)
    BY <1>2 DEF TaskCovers
  <2> QED BY <1>4, <2>2, <2>3, ComponentDone
<1>7. TaskCovers(gr, g, E, new, L - 1)
  <2>1. new[L - 1] = old[L - 1]
    BY <1>1, <1>3
  <2>2. gr.last[h] + 1 # hd
    BY <1>4 DEF Ordered
  <2>3. ListCovers(gr, g, E, new, L - 1)
    BY <1>1, <1>3, <1>5, <1>6, <2>1, <2>2 DEF ListCovers
  <2> QED BY <1>5, <2>1, <2>3 DEF TaskCovers
<1>8. Idle(gr, g, E, new)
  <2> SUFFICES ASSUME NEW j \in HeadsOf(gr), Active(old, j), j # h PROVE Active(new, j)
    BY <1>6 DEF Progress, Idle
  <2>1. PICK k \in 1..L : old[k].op # "list" /\ old[k].head = j
    BY DEF Active
  <2>2. k # L
    BY <2>1
  <2>3. k \in 1..(L - 1)
    BY <1>3, <2>2, LastOrUnder
  <2> QED BY <1>1, <2>1, <2>3 DEF Active
<1>9. CASE L - 1 = 1
  <2>1. \A k \in 1..Len(new) : k = L - 1
    <3>1. Len(new) = 1
      BY <1>1, <1>9
    <3> HIDE DEF L
    <3> QED BY <1>9, <3>1
  <2>2. Len(new) # 0
    <3>1. Len(new) = 1
      BY <1>1, <1>9
    <3> QED BY <3>1
  <2> QED BY <1>7, <1>8, <2>1, <2>2 DEF Progress
<1>10. CASE L - 1 # 1
  <2> DEFINE n == L - 2
  <2>1. n \in Nat /\ n < Len(old) /\ n < Len(new) /\ Len(new) \in Nat /\ n # Len(old) - 1 /\ Len(new) # 0
    BY <1>1, <1>3, <1>10
  <2> HIDE DEF n
  <2>2. \A k \in 1..n : TaskCovers(gr, g, E, new, k)
    BY <1>1, <2>1, UnderTopSame
  <2>3. \A k \in 1..Len(new) : k = L - 1 \/ k \in 1..n
    BY <1>1, <1>3 DEF n
  <2> QED BY <1>7, <1>8, <2>1, <2>2, <2>3 DEF Progress
<1> QED BY <1>9, <1>10

\* An iteration has not started, and no node has a value.
LEMMA ProgressFirst ==
  ASSUME NEW gr, Ordered(gr), NEW g, NEW E, Values(gr, g, E), \A i \in 1..Size(gr) : g[i] = {},
         NEW ts, Len(ts) = 1, ts[1].op = "list", ts[1].head = 0, ts[1].at = 1
  PROVE  StackOK(gr, ts) /\ Progress(gr, g, E, ts)
<1>1. Direct(gr, 0, 1)
  BY DEF Direct, Ordered
<1>2. ListAt(gr, ts, 1)
  BY <1>1 DEF ListAt, LastIn, Ordered
<1>3. Nested(gr, ts, 1)
  BY DEF Nested, Ordered
<1>4. \A k \in 1..Len(ts) : k = 1
  OBVIOUS
<1>5. Covers(gr, g, E, 0, 1)
  <2> SUFFICES ASSUME NEW c \in Within(gr, g, E, 0, 1), c[1] < 1 PROVE FALSE
    BY DEF Covers
  <2>1. c \in Configs(gr)
    BY BaseFacts, RegionBase DEF Within
  <2> QED BY <2>1 DEF Configs, Ordered
<1>6. ASSUME NEW h \in HeadsOf(gr) PROVE Full(gr, g, E, h)
  <2>1. g[h] = {} /\ h # 0
    BY DEF Ordered
  <2>2. Base(g, E, h) = {}
    BY <2>1 DEF Base
  <2>3. Within(gr, g, E, h, gr.last[h] + 1) \subseteq {}
    <3>1. Closed(gr, {}, h, gr.last[h] + 1)
      BY DEF Closed
    <3> QED BY <2>2, <3>1, RegionLeast DEF Within
  <2> QED BY <2>3 DEF Full, Covers
<1>7. TaskCovers(gr, g, E, ts, 1)
  BY <1>5 DEF TaskCovers, ListCovers
<1> QED BY <1>2, <1>3, <1>4, <1>6, <1>7 DEF StackOK, TaskAt, Progress, Idle

-----------------------------------------------------------------------------
(***************************************************************************)
(* Soundness.                                                              *)
(***************************************************************************)
\* What the nodes and the entry stand for.
Vals == [i \in 1..Size(graph) |-> Gamma(node[graph.order[i]])]
Start == Gamma(entry)

\* The posts of the edge out of a node, and the flow, cover what its statement
\* does from the value of the node.
Fresh(n) ==
    \A x \in Gamma(node[n]) :
        /\ \A o \in Sem(graph.edge[n].stmt, x) :
              IF o[1] \in Ports(n) THEN o[2] \in Gamma(post[n][o[1]])
              ELSE o[1] \in Token \ PortTokens(graph) /\ o[2] \in Gamma(flow.tmap[o[1]])
        /\ Errors(graph.edge[n].stmt, x) \subseteq flow.report
AllFresh == \A n \in Edges : Fresh(n)

LEMMA OrderFacts ==
  ASSUME Typed, OrderValid
  PROVE  /\ Size(graph) \in Nat /\ Size(graph) >= 1 /\ graph.order[1] = graph.entry
         /\ \A i \in 1..Size(graph) : graph.order[i] \in Node
         /\ \A i, j \in 1..Size(graph) : graph.order[i] = graph.order[j] => i = j
         /\ \A i \in 1..Size(graph) : graph.order[i] \in Edges =>
               \A tk \in Ports(graph.order[i]) :
                  \E j \in 1..Size(graph) : graph.edge[graph.order[i]].dst[tk] = graph.order[j]
<1>1. graph.order \in Seq(Node)
  BY GraphsAssumption DEF Typed
<1> QED BY <1>1 DEF OrderValid, Size

LEMMA OrderedGraph ==
  ASSUME Typed, OrderValid
  PROVE  Ordered(graph) /\ Values(graph, Vals, Start)
<1> DEFINE N == Size(graph)
           Edge(i, j) == /\ graph.order[i] \in Edges
                         /\ \E tk \in Ports(graph.order[i]) :
                               graph.edge[graph.order[i]].dst[tk] = graph.order[j]
<1>1. N \in Nat /\ N >= 1 /\ \A i \in 1..N : graph.order[i] \in Node
  BY OrderFacts
<1>2. \A h \in Heads : h \in 1..N /\ graph.last[h] \in 1..N
  <2>1. graph.order \in Seq(Node) /\ DOMAIN graph.last \subseteq DOMAIN graph.order
        /\ \A h \in DOMAIN graph.last : graph.last[h] \in DOMAIN graph.order
    BY GraphsAssumption DEF Typed
  <2>2. DOMAIN graph.order = 1..N
    BY <2>1 DEF Size
  <2> QED BY <2>1, <2>2 DEF Heads
<1>3. /\ \A h \in Heads : h <= graph.last[h]
      /\ \A h, k \in Heads : h < k /\ k <= graph.last[h] => graph.last[k] <= graph.last[h]
      /\ \A i, j \in 1..N : Edge(i, j) =>
            /\ i < j \/ (j \in Heads /\ i <= graph.last[j])
            /\ \A h \in Heads : h < j /\ j <= graph.last[h] => h <= i /\ i <= graph.last[h]
  BY Zenon DEF OrderValid, Size
<1>4. ASSUME NEW c \in Configs(graph), NEW d \in Moves(graph, c)
      PROVE  c[1] \in 1..N /\ d[1] \in 1..N /\ Edge(c[1], d[1])
  <2>1. c[1] \in 1..N /\ d[1] \in 1..N
    BY MovesFacts DEF Configs
  <2>2. Edge(c[1], d[1])
    BY DEF Moves, Edges, Ports
  <2> QED BY <2>1, <2>2
<1> HIDE DEF Edge
<1>5. \A c \in Configs(graph) : \A d \in Moves(graph, c) :
          /\ c[1] < d[1] \/ (d[1] \in Heads /\ c[1] <= graph.last[d[1]])
          /\ \A h \in Heads : h < d[1] /\ d[1] <= graph.last[h] => h <= c[1] /\ c[1] <= graph.last[h]
  BY <1>3, <1>4
<1>6. \A h \in Heads : h \in 1..N /\ graph.last[h] \in h..N
  BY <1>1, <1>2, <1>3
<1>7. Ordered(graph)
  <2>1. HeadsOf(graph) = Heads
    BY DEF HeadsOf, Heads
  <2> QED BY <1>1, <1>3, <1>5, <1>6, <2>1 DEF Ordered
<1>8. Values(graph, Vals, Start)
  <2>1. \A e \in Env : Gamma(e) \subseteq State
    BY LatticeAssumption
  <2>2. entry \in Env /\ \A i \in 1..N : node[graph.order[i]] \in Env
    BY <1>1 DEF Typed, TypeOK
  <2> QED BY <2>1, <2>2 DEF Values, Vals, Start
<1> QED BY <1>7, <1>8

-----------------------------------------------------------------------------
\* The executions of length k, as the recursive function in Reached has them.
LEMMA ReachedIs ==
  \E upTo : /\ Reached = upTo[MaxSteps]
            /\ upTo[0] = {graph.entry} \X Gamma(flow_in.tmap["cur"])
            /\ \A k \in Nat : k + 1 <= MaxSteps =>
                  upTo[k + 1] = upTo[k] \union UNION {Successors(c) : c \in upTo[k]}
<1> DEFINE first == {graph.entry} \X Gamma(flow_in.tmap["cur"])
           K == {n \in Nat : \E g : g = [k \in 0..n |->
                   IF k = 0 THEN first ELSE g[k - 1] \union UNION {Successors(c) : c \in g[k - 1]}]}
<1> HIDE DEF first
<1>1. 0 \in K
  <2>1. [k \in 0..0 |-> first] = [k \in 0..0 |->
           IF k = 0 THEN first
           ELSE [j \in 0..0 |-> first][k - 1] \union UNION {Successors(c) : c \in [j \in 0..0 |-> first][k - 1]}]
    <3>1. \A k \in 0..0 : k = 0
      OBVIOUS
    <3> QED BY <3>1, Zenon
  <2> QED BY <2>1
<1>2. ASSUME NEW n \in Nat, n \in K PROVE n + 1 \in K
  <2>1. PICK g : g = [k \in 0..n |->
                   IF k = 0 THEN first ELSE g[k - 1] \union UNION {Successors(c) : c \in g[k - 1]}]
    BY <1>2
  <2> DEFINE h == [k \in 0..(n + 1) |->
                   IF k = 0 THEN first ELSE g[k - 1] \union UNION {Successors(c) : c \in g[k - 1]}]
  <2>2. \A k \in 0..n : k \in 0..(n + 1)
    OBVIOUS
  <2>3. \A k \in 0..n : h[k] = g[k]
    <3> TAKE k \in 0..n
    <3>1. h[k] = IF k = 0 THEN first ELSE g[k - 1] \union UNION {Successors(c) : c \in g[k - 1]}
      BY <2>2, Zenon
    <3>2. g[k] = IF k = 0 THEN first ELSE g[k - 1] \union UNION {Successors(c) : c \in g[k - 1]}
      BY <2>1, Zenon
    <3> HIDE DEF h
    <3> QED BY <3>1, <3>2
  <2>4. \A k \in 0..(n + 1) : k # 0 => h[k - 1] = g[k - 1]
    <3>1. \A k \in 0..(n + 1) : k # 0 => k - 1 \in 0..n
      OBVIOUS
    <3> HIDE DEF h
    <3> QED BY <2>3, <3>1
  <2>5. h = [k \in 0..(n + 1) |->
                   IF k = 0 THEN first ELSE h[k - 1] \union UNION {Successors(c) : c \in h[k - 1]}]
    <3>1. \A k \in 0..(n + 1) :
             h[k] = IF k = 0 THEN first ELSE g[k - 1] \union UNION {Successors(c) : c \in g[k - 1]}
      BY Zenon
    <3>2. h = [k \in 0..(n + 1) |-> h[k]]
      BY Zenon
    <3> HIDE DEF h
    <3>3. \A k \in 0..(n + 1) :
             h[k] = IF k = 0 THEN first ELSE h[k - 1] \union UNION {Successors(c) : c \in h[k - 1]}
      BY <2>4, <3>1, Zenon
    <3> QED BY <3>2, <3>3, Zenon
  <2> HIDE DEF h
  <2>6. \E f : f = [k \in 0..(n + 1) |->
                   IF k = 0 THEN first ELSE f[k - 1] \union UNION {Successors(c) : c \in f[k - 1]}]
    BY <2>5, Zenon
  <2>7. n + 1 \in Nat
    OBVIOUS
  <2> QED BY <2>6, <2>7, Zenon
<1>3. MaxSteps \in K
  <2> HIDE DEF K
  <2> QED BY <1>1, <1>2, SetInduction, CfgInputAssumption
<1> DEFINE upTo[k \in 0..MaxSteps] ==
              IF k = 0 THEN {graph.entry} \X Gamma(flow_in.tmap["cur"])
              ELSE LET before == upTo[k - 1] IN before \union UNION {Successors(c) : c \in before}
<1>4. \E g : g = [k \in 0..MaxSteps |->
                IF k = 0 THEN first ELSE g[k - 1] \union UNION {Successors(c) : c \in g[k - 1]}]
  BY <1>3
<1>5. upTo = [k \in 0..MaxSteps |->
                IF k = 0 THEN first ELSE upTo[k - 1] \union UNION {Successors(c) : c \in upTo[k - 1]}]
  BY <1>4, Zenon DEF first
<1>6. Reached = upTo[MaxSteps]
  BY Zenon DEF Reached
<1> HIDE DEF upTo
<1>7. MaxSteps \in Nat
  BY CfgInputAssumption
<1>8. \A k \in 0..MaxSteps : upTo[k] = IF k = 0 THEN first ELSE upTo[k - 1] \union UNION {Successors(c) : c \in upTo[k - 1]}
  BY <1>5, Zenon
<1>9. upTo[0] = first
  <2>1. 0 \in 0..MaxSteps
    BY <1>7
  <2> QED BY <1>8, <2>1
<1> DEFINE Longer(S) == S \union UNION {Successors(c) : c \in S}
<1>10. \A k \in 0..MaxSteps : k # 0 => upTo[k] = Longer(upTo[k - 1])
  BY <1>8, Zenon
<1>11. \A k \in Nat : k + 1 <= MaxSteps => upTo[k + 1] = Longer(upTo[k])
  <2> HIDE DEF Longer
  <2> QED BY <1>7, <1>10
<1> QED BY <1>6, <1>9, <1>11 DEF first

\* A configuration of an execution, as a node.
Inside(c) ==
    \E i \in 1..Size(graph) :
        c[1] = graph.order[i] /\ <<i, c[2]>> \in Within(graph, Vals, Start, 0, Size(graph) + 1)

\* Executions stay in the region of the graph.
LEMMA ReachedInside ==
  ASSUME Typed, OrderValid, entry = flow_in.tmap["cur"]
  PROVE  \A c \in Reached : Inside(c)
<1> DEFINE N == Size(graph)
           W == Within(graph, Vals, Start, 0, N + 1)
<1>1. Ordered(graph) /\ Values(graph, Vals, Start)
  BY OrderedGraph
<1>2. /\ N \in Nat /\ N >= 1 /\ graph.order[1] = graph.entry
      /\ \A i \in 1..N : graph.order[i] \in Edges =>
            \A tk \in Ports(graph.order[i]) : \E j \in 1..N : graph.edge[graph.order[i]].dst[tk] = graph.order[j]
  BY OrderFacts
<1>3. Base(Vals, Start, 0) \in SUBSET Configs(graph) /\ Base(Vals, Start, 0) \subseteq W /\ W \subseteq Configs(graph)
  <2>1. Base(Vals, Start, 0) \in SUBSET Configs(graph)
    BY <1>1, BaseFacts
  <2> QED BY <2>1, RegionBase DEF Within
<1>4. \A c \in {graph.entry} \X Gamma(flow_in.tmap["cur"]) : Inside(c)
  <2> SUFFICES ASSUME NEW x \in Start PROVE Inside(<<graph.entry, x>>)
    BY DEF Start
  <2>1. <<1, x>> \in W
    BY <1>3 DEF Base
  <2>2. 1 \in 1..N
    BY <1>2
  <2> QED BY <1>2, <2>1, <2>2 DEF Inside
<1>5. ASSUME NEW c, Inside(c), NEW d \in Successors(c) PROVE Inside(d)
  <2>1. PICK i \in 1..N : c[1] = graph.order[i] /\ <<i, c[2]>> \in W
    BY <1>5 DEF Inside
  <2> DEFINE a == <<i, c[2]>>
  <2>2. c[1] \in Edges
    BY DEF Successors
  <2>3. PICK o \in Sem(graph.edge[c[1]].stmt, c[2]) :
           o[1] \in Ports(c[1]) /\ d = <<graph.edge[c[1]].dst[o[1]], o[2]>>
    BY <2>2 DEF Successors
  <2>4. PICK j \in 1..N : graph.edge[c[1]].dst[o[1]] = graph.order[j]
    BY <1>2, <2>1, <2>2, <2>3
  <2>5. c[2] \in State /\ a \in Configs(graph)
    BY <1>3, <2>1 DEF Configs
  <2>6. o[2] \in State
    BY <2>2, <2>3, <2>5, CfgSemAssumption DEF Edges, Typed
  <2> DEFINE b == <<j, o[2]>>
  <2>7. b \in Configs(graph)
    BY <2>6 DEF Configs
  <2>8. b \in Moves(graph, a)
    BY <2>1, <2>2, <2>3, <2>4, <2>7 DEF Moves, Edges, Ports
  <2>9. 0 < b[1] /\ b[1] < N + 1
    BY <1>2
  <2>10. b \in W
    BY <1>3, <2>1, <2>8, <2>9, RegionClosed DEF Within
  <2> QED BY <2>3, <2>4, <2>10 DEF Inside
<1>6. PICK upTo : /\ Reached = upTo[MaxSteps]
                  /\ upTo[0] = {graph.entry} \X Gamma(flow_in.tmap["cur"])
                  /\ \A k \in Nat : k + 1 <= MaxSteps =>
                        upTo[k + 1] = upTo[k] \union UNION {Successors(c) : c \in upTo[k]}
  BY ReachedIs
<1> DEFINE K == {k \in Nat : k <= MaxSteps => \A c \in upTo[k] : Inside(c)}
<1>7. 0 \in K
  BY <1>4, <1>6
<1>8. ASSUME NEW k \in Nat, k \in K PROVE k + 1 \in K
  <2> SUFFICES ASSUME k + 1 <= MaxSteps, NEW c \in upTo[k + 1] PROVE Inside(c)
    OBVIOUS
  <2>1. \A b \in upTo[k] : Inside(b)
    BY <1>8, CfgInputAssumption
  <2>2. c \in upTo[k] \/ \E b \in upTo[k] : c \in Successors(b)
    BY <1>6
  <2> QED BY <1>5, <2>1, <2>2
<1>9. MaxSteps \in K
  <2> HIDE DEF K
  <2> QED BY <1>7, <1>8, SetInduction, CfgInputAssumption
<1> QED BY <1>6, <1>9, CfgInputAssumption

-----------------------------------------------------------------------------
LEMMA SameValues ==
  ASSUME graph' = graph, node' = node, entry' = entry
  PROVE  Vals' = Vals /\ Start' = Start
BY DEF Vals, Start

LEMMA SameFresh ==
  ASSUME graph' = graph, node' = node, post' = post, flow' = flow, AllFresh
  PROVE  AllFresh'
BY DEF AllFresh, Fresh, Edges, Ports

\* Propagate leaves every node fresh.
LEMMA PropagateFresh ==
  ASSUME Typed, OrderValid, AllFresh, Propagate, graph.order[Task.at] \in Node
  PROVE  AllFresh'
<1> DEFINE n == graph.order[Task.at]
           e == UpdateNode(Task.weak, n)
           r == ApplyEdge(n, e)
<1>1. /\ e \in Env
      /\ n \in Edges => flow' = r.flow /\ post' = [post EXCEPT ![n] = r.post]
      /\ n \notin Edges => flow' = flow /\ post' = post
      /\ node' = [node EXCEPT ![n] = e]
  BY PropagateData
<1>2. graph' = graph /\ Edges' = Edges /\ \A m : Ports(m)' = Ports(m)
  BY DEF Propagate, Edges, Ports
<1>3. node \in [Node -> Env] /\ DOMAIN post = Edges
  BY DEF Typed, TypeOK
<1>4. n \in Edges =>
         /\ \A tk \in Token \ PortTokens(graph) : Gamma(flow.tmap[tk]) \subseteq Gamma(r.flow.tmap[tk])
         /\ flow.report \subseteq r.flow.report
         /\ \A x \in Gamma(e) :
               /\ \A o \in Sem(graph.edge[n].stmt, x) :
                     IF o[1] \in Ports(n) THEN o[2] \in Gamma(r.post[o[1]])
                     ELSE o[1] \in Token \ PortTokens(graph) /\ o[2] \in Gamma(r.flow.tmap[o[1]])
               /\ Errors(graph.edge[n].stmt, x) \subseteq r.flow.report
  BY <1>1, ApplyEdgeSound
<1>5. Edges \subseteq Node
  BY GraphsAssumption DEF Edges, Typed
<1> HIDE DEF n, e, r
<1>6. /\ \A tk \in Token \ PortTokens(graph) : Gamma(flow.tmap[tk]) \subseteq Gamma(flow'.tmap[tk])
      /\ flow.report \subseteq flow'.report
  BY <1>1, <1>4
<1>7. ASSUME NEW m \in Edges PROVE Fresh(m)'
  <2>1. CASE m = n
    <3>1. node'[m] = e /\ post'[m] = r.post /\ flow' = r.flow
      BY <1>1, <1>3, <1>5, <2>1
    <3> QED BY <1>2, <1>4, <2>1, <3>1 DEF Fresh
  <2>2. CASE m # n
    <3>1. node'[m] = node[m] /\ post'[m] = post[m]
      BY <1>1, <1>3, <1>5, <2>2
    <3>2. Fresh(m)
      BY DEF AllFresh
    <3> QED BY <1>2, <1>6, <3>1, <3>2 DEF Fresh
  <2> QED BY <2>1, <2>2
<1> QED BY <1>2, <1>7 DEF AllFresh

\* Propagate computes the value of a position again from all that leads there.
LEMMA PropagateUpdates ==
  ASSUME Typed, OrderValid, AllFresh, Propagate, Task.at \in 1..Size(graph)
  PROVE  Updated(graph, Vals, Vals', Start, Task.at)
<1> DEFINE p == Task.at
           n == graph.order[p]
           e == UpdateNode(Task.weak, n)
           N == Size(graph)
<1>1. /\ N \in Nat /\ N >= 1 /\ graph.order[1] = graph.entry
      /\ \A i \in 1..N : graph.order[i] \in Node
      /\ \A i, j \in 1..N : graph.order[i] = graph.order[j] => i = j
  BY OrderFacts
<1>2. n \in Node
  BY <1>1
<1>3. node' = [node EXCEPT ![n] = e] /\ node \in [Node -> Env]
  BY PropagateData DEF Typed, TypeOK
<1>4. graph' = graph
  BY DEF Propagate
<1>5. /\ \A a \in Incoming(n) : Gamma(post[a[1]][a[2]]) \subseteq Gamma(e)
      /\ n = graph.entry => Gamma(entry) \subseteq Gamma(e)
  BY <1>2, UpdateNodeUpper
<1>6. Vals' = [i \in 1..N |-> Gamma(node'[graph.order[i]])]
  BY <1>4 DEF Vals
<1> HIDE DEF e, p
<1>7. p \in 1..N /\ Vals'[p] = Gamma(e)
  BY <1>2, <1>3, <1>6 DEF p
<1>8. \A i \in 1..N : i # p => Vals'[i] = Vals[i]
  BY <1>1, <1>3, <1>6, <1>7 DEF Vals
<1>9. ASSUME NEW c \in Configs(graph), c[2] \in Vals[c[1]], NEW d \in Moves(graph, c), d[1] = p
      PROVE  d[2] \in Vals'[p]
  <2> DEFINE m == graph.order[c[1]]
  <2>1. c[1] \in 1..N /\ c[2] \in Gamma(node[m])
    BY <1>9 DEF Configs, Vals
  <2>2. m \in Edges
    BY DEF Moves, Edges
  <2>3. PICK o \in Sem(graph.edge[m].stmt, c[2]) :
           o[1] \in Ports(m) /\ graph.edge[m].dst[o[1]] = graph.order[d[1]] /\ o[2] = d[2]
    BY DEF Moves, Ports
  <2>4. <<m, o[1]>> \in Incoming(n)
    <3>1. Ports(m) \subseteq Token
      BY <2>2, GraphsAssumption DEF Edges, Ports, Typed
    <3> QED BY <1>9, <2>2, <2>3, <3>1 DEF Incoming
  <2>5. Gamma(post[m][o[1]]) \subseteq Gamma(e)
    BY <1>5, <2>4
  <2>6. o[2] \in Gamma(post[m][o[1]])
    BY <2>1, <2>2, <2>3 DEF AllFresh, Fresh
  <2> QED BY <1>7, <2>3, <2>5, <2>6
<1>10. p = 1 => Start \subseteq Vals'[p]
  BY <1>1, <1>5, <1>7 DEF Start
<1> QED BY <1>8, <1>9, <1>10 DEF Updated, p

-----------------------------------------------------------------------------
\* The invariant of the iteration, until it is done.
Going ==
    /\ entry = flow_in.tmap["cur"]
    /\ StackOK(graph, tasks)
    /\ ~ jumped => AllFresh /\ Progress(graph, Vals, Start, tasks)

\* What every action on the stack knows.
LEMMA GoingFacts ==
  ASSUME Typed, OrderValid, Going, tasks # << >>
  PROVE  /\ Ordered(graph) /\ Values(graph, Vals, Start)
         /\ Len(tasks) \in Nat /\ Len(tasks) >= 1 /\ StackOK(graph, tasks) /\ Task = tasks[Len(tasks)]
         /\ LastOf(Task.head) = LastIn(graph, Task.head) /\ Heads = HeadsOf(graph)
         /\ TaskAt(graph, tasks, Len(tasks))
         /\ \A i \in 1..Size(graph) : Vals[i] = Gamma(node[graph.order[i]])
<1>1. Len(tasks) \in Nat /\ Len(tasks) >= 1 /\ Task = tasks[Len(tasks)]
  BY TaskFacts
<1>2. TaskAt(graph, tasks, Len(tasks))
  BY <1>1 DEF Going, StackOK
<1>3. LastOf(Task.head) = LastIn(graph, Task.head) /\ Heads = HeadsOf(graph)
  BY DEF LastOf, LastIn, Size, Heads, HeadsOf
<1>4. \A i \in 1..Size(graph) : Vals[i] = Gamma(node[graph.order[i]])
  BY DEF Vals
<1> QED BY <1>1, <1>2, <1>3, <1>4, OrderedGraph DEF Going

LEMMA PropagateGoes == Typed /\ OrderValid /\ Going /\ Propagate => Going'
<1> SUFFICES ASSUME Typed, OrderValid, Going, Propagate PROVE Going'
  OBVIOUS
<1> DEFINE L == Len(tasks)
           hd == Task.head
           p == Task.at
           s == List(hd, p + 1, FALSE)
<1>1. /\ tasks # << >> /\ Task.op = "list" /\ ~ (p > LastOf(hd)) /\ (p = hd \/ p \notin Heads)
      /\ tasks' = Becomes(s) /\ UNCHANGED <<graph, flow_in, entry, jumped>>
  BY Zenon DEF Propagate, Doing, AtEnd, AtSimple
<1>2. /\ Ordered(graph) /\ Values(graph, Vals, Start)
      /\ L \in Nat /\ L >= 1 /\ StackOK(graph, tasks) /\ Task = tasks[L]
      /\ LastOf(hd) = LastIn(graph, hd) /\ Heads = HeadsOf(graph) /\ TaskAt(graph, tasks, L)
  BY <1>1, GoingFacts
<1>3. ListAt(graph, tasks, L) /\ hd \in {0} \union HeadsOf(graph) /\ Direct(graph, hd, p)
  BY <1>1, <1>2 DEF TaskAt, ListAt
<1>4. p \in Nat /\ p >= 1 /\ hd <= p /\ p <= LastIn(graph, hd) /\ LastIn(graph, hd) <= Size(graph)
      /\ p \in 1..Size(graph) /\ Size(graph) \in Nat
  <2>1. p \in Nat /\ p >= 1 /\ hd <= p
    BY <1>2, <1>3 DEF ListAt
  <2>2. LastIn(graph, hd) \in Int /\ LastIn(graph, hd) <= Size(graph) /\ Size(graph) \in Nat
    BY <1>2, <1>3 DEF LastIn, Ordered
  <2> QED BY <1>1, <1>2, <2>1, <2>2
<1>5. Replaced(tasks, tasks', s)
  BY <1>1, BecomesIs
<1>6. s.op = "list" /\ s.head = hd /\ s.at = p + 1
  BY DEF List
<1>7. Direct(graph, hd, p + 1)
  <2>1. p \in Int /\ (p = hd \/ p \notin HeadsOf(graph))
    BY <1>1, <1>2, <1>4
  <2> HIDE DEF hd, p
  <2> QED BY <1>2, <1>3, <1>4, <2>1, DirectNext
<1>8. p + 1 \in Nat /\ p + 1 >= 1 /\ hd <= p + 1 /\ p + 1 <= LastIn(graph, hd) + 1
  <2>1. hd \in Int /\ LastIn(graph, hd) \in Int
    BY <1>2, <1>3 DEF LastIn, Ordered
  <2> QED BY <1>4, <2>1
<1> HIDE DEF s
<1>9. StackOK(graph, tasks')
  BY <1>1, <1>2, <1>5, <1>6, <1>7, <1>8, StackAdvanced
<1>10. ASSUME ~ jumped PROVE AllFresh' /\ Progress(graph, Vals', Start, tasks')
  <2>1. AllFresh /\ Progress(graph, Vals, Start, tasks)
    BY <1>10 DEF Going
  <2>2. graph.order[p] \in Node
    BY <1>4, OrderFacts
  <2>3. AllFresh'
    BY <2>1, <2>2, PropagateFresh
  <2>4. Updated(graph, Vals, Vals', Start, p)
    BY <1>4, <2>1, PropagateUpdates
  <2>5. Values(graph, Vals', Start)
    <3>1. \A i \in 1..Size(graph) : Vals'[i] = Gamma(node'[graph.order[i]]) /\ node'[graph.order[i]] \in Env
      <4>1. Vals' = [i \in 1..Size(graph) |-> Gamma(node'[graph.order[i]])]
        BY <1>1 DEF Vals
      <4>2. node' \in [Node -> Env]
        BY PropagateData DEF DataTyped
      <4> QED BY <4>1, <4>2, OrderFacts
    <3> QED BY <1>2, <3>1, LatticeAssumption DEF Values
  <2> QED BY <1>1, <1>2, <1>4, <1>5, <1>6, <2>1, <2>3, <2>4, <2>5, ProgressPropagated
<1>11. Start' = Start
  BY <1>1 DEF Start
<1> QED BY <1>1, <1>9, <1>10, <1>11 DEF Going

\* The other actions that only move the stack.
LEMMA StackGoes ==
  ASSUME Typed, OrderValid, Going, UNCHANGED <<graph, flow_in, flow, entry, node, post>>,
         StackOK(graph, tasks'), ~ jumped' => ~ jumped,
         ~ jumped /\ Progress(graph, Vals, Start, tasks) => Progress(graph, Vals, Start, tasks')
  PROVE  Going'
<1>1. Vals' = Vals /\ Start' = Start
  BY SameValues
<1>2. AllFresh => AllFresh'
  BY SameFresh
<1> QED BY <1>1, <1>2 DEF Going

LEMMA EnterComponentGoes == Typed /\ OrderValid /\ Going /\ EnterComponent => Going'
<1> SUFFICES ASSUME Typed, OrderValid, Going, EnterComponent PROVE Going'
  OBVIOUS
<1> DEFINE L == Len(tasks)
           hd == Task.head
           h == Task.at
           s == List(hd, graph.last[h] + 1, FALSE)
           t == Fix(h, 0, node[graph.order[h]])
           u == List(h, h, TRUE)
<1>1. /\ tasks # << >> /\ Task.op = "list" /\ ~ (h > LastOf(hd)) /\ h # hd /\ h \in Heads
      /\ tasks' = Becomes(s) \o <<t, u>>
      /\ UNCHANGED <<graph, flow_in, flow, entry, node, post, jumped>>
  BY Zenon DEF EnterComponent, Doing, AtEnd, AtSimple
<1>2. /\ Ordered(graph) /\ Values(graph, Vals, Start)
      /\ L \in Nat /\ L >= 1 /\ StackOK(graph, tasks) /\ Task = tasks[L]
      /\ LastOf(hd) = LastIn(graph, hd) /\ Heads = HeadsOf(graph) /\ TaskAt(graph, tasks, L)
      /\ \A i \in 1..Size(graph) : Vals[i] = Gamma(node[graph.order[i]])
  BY <1>1, GoingFacts
<1>3. h <= LastIn(graph, hd) /\ h \in 1..Size(graph)
  <2>1. hd \in {0} \union HeadsOf(graph)
    BY <1>1, <1>2 DEF TaskAt, ListAt
  <2>2. h \in HeadsOf(graph)
    BY <1>1, <1>2
  <2> HIDE DEF h, hd
  <2>3. h \in 1..Size(graph)
    BY <1>2, <2>2 DEF Ordered
  <2>4. LastIn(graph, hd) \in Int
    BY <1>2, <2>1 DEF LastIn, Ordered
  <2>5. ~ (h > LastIn(graph, hd))
    BY <1>1, <1>2
  <2> QED BY <2>3, <2>4, <2>5
<1>4. /\ s.op = "list" /\ s.head = hd /\ s.at = graph.last[h] + 1
      /\ t.op = "fix" /\ t.head = h /\ t.old = node[graph.order[h]]
      /\ u.op = "list" /\ u.head = h /\ u.at = h
  BY DEF List, Fix
<1> HIDE DEF s, t, u
<1>5. PushedTwo(tasks, tasks', s, t, u)
  BY <1>1, BecomesThenPushedTwo
<1>6. StackOK(graph, tasks')
  BY <1>1, <1>2, <1>3, <1>4, <1>5, StackEntered
<1>7. Vals[h] = Gamma(t.old)
  BY <1>2, <1>3, <1>4
<1>8. Progress(graph, Vals, Start, tasks) => Progress(graph, Vals, Start, tasks')
  BY <1>1, <1>2, <1>4, <1>5, <1>7, ProgressEntered
<1> QED BY <1>1, <1>6, <1>8, StackGoes

LEMMA EndListGoes == Typed /\ OrderValid /\ Going /\ EndList => Going'
<1> SUFFICES ASSUME Typed, OrderValid, Going, EndList PROVE Going'
  OBVIOUS
<1>1. /\ tasks # << >> /\ Task.op = "list" /\ Task.at > LastOf(Task.head)
      /\ tasks' = Returned /\ UNCHANGED <<graph, flow_in, flow, entry, node, post, jumped>>
  BY DEF EndList, Doing, AtEnd
<1>2. Popped(tasks, tasks')
  BY <1>1, ReturnedIs
<1>3. /\ Ordered(graph) /\ Values(graph, Vals, Start)
      /\ Len(tasks) \in Nat /\ Len(tasks) >= 1 /\ StackOK(graph, tasks) /\ Task = tasks[Len(tasks)]
      /\ LastOf(Task.head) = LastIn(graph, Task.head)
  BY <1>1, GoingFacts
<1>4. StackOK(graph, tasks')
  BY <1>2, <1>3, StackPopped
<1>5. Progress(graph, Vals, Start, tasks) => Progress(graph, Vals, Start, tasks')
  BY <1>1, <1>2, <1>3, ProgressEnded
<1> QED BY <1>1, <1>4, <1>5, StackGoes

LEMMA RefinedGoes == Typed /\ OrderValid /\ Going /\ Refined => Going'
<1> SUFFICES ASSUME Typed, OrderValid, Going, Refined PROVE Going'
  OBVIOUS
<1>1. /\ tasks # << >> /\ Task.op = "refine"
      /\ tasks' = Returned /\ UNCHANGED <<graph, flow_in, flow, entry, node, post, jumped>>
  BY DEF Refined, Doing
<1>2. Popped(tasks, tasks')
  BY <1>1, ReturnedIs
<1>3. /\ Ordered(graph) /\ Values(graph, Vals, Start)
      /\ Len(tasks) \in Nat /\ Len(tasks) >= 1 /\ StackOK(graph, tasks) /\ Task = tasks[Len(tasks)]
  BY <1>1, GoingFacts
<1>4. StackOK(graph, tasks')
  BY <1>2, <1>3, StackPopped
<1>5. Progress(graph, Vals, Start, tasks) => Progress(graph, Vals, Start, tasks')
  BY <1>1, <1>2, <1>3, ProgressRefined
<1> QED BY <1>1, <1>4, <1>5, StackGoes

LEMMA StableGoes == Typed /\ OrderValid /\ Going /\ Stable => Going'
<1> SUFFICES ASSUME Typed, OrderValid, Going, Stable PROVE Going'
  OBVIOUS
<1> DEFINE L == Len(tasks)
           h == Task.head
           s == Refining(h, 0)
<1>1. /\ tasks # << >> /\ Task.op = "fix" /\ EnvLeq(node[graph.order[h]], Task.old)
      /\ tasks' = Becomes(s) /\ UNCHANGED <<graph, flow_in, flow, entry, node, post, jumped>>
  BY DEF Stable, Doing, HeadStable, WideningNode
<1>2. /\ Ordered(graph) /\ Values(graph, Vals, Start)
      /\ L \in Nat /\ L >= 1 /\ StackOK(graph, tasks) /\ Task = tasks[L]
      /\ TaskAt(graph, tasks, L) /\ \A i \in 1..Size(graph) : Vals[i] = Gamma(node[graph.order[i]])
  BY <1>1, GoingFacts
<1>3. h \in HeadsOf(graph) /\ h \in 1..Size(graph)
  BY <1>1, <1>2 DEF TaskAt, ComponentAt, Ordered
<1>4. s.op = "refine" /\ s.head = h
  BY DEF Refining
<1> HIDE DEF s
<1>5. Replaced(tasks, tasks', s)
  BY <1>1, BecomesIs
<1>6. StackOK(graph, tasks')
  <2>1. Len(tasks') = L /\ tasks'[L] = s /\ Kept(tasks, tasks')
    BY <1>5 DEF Replaced
  <2>2. \A k \in 1..L : TaskAt(graph, tasks', k)
    BY <1>1, <1>2, <1>4, <2>1, StackSwapped
  <2> QED BY <2>1, <2>2 DEF StackOK
<1>7. Vals[h] \subseteq Gamma(Task.old)
  <2>1. node[graph.order[h]] \in Env
    BY <1>3, OrderFacts DEF Typed, TypeOK
  <2>2. Task.old \in Env
    BY <1>1, TaskFacts DEF TaskTyped
  <2>3. Gamma(node[graph.order[h]]) \subseteq Gamma(Task.old)
    BY <1>1, <2>1, <2>2, LatticeAssumption
  <2> QED BY <1>2, <1>3, <2>3
<1>8. Progress(graph, Vals, Start, tasks) => Progress(graph, Vals, Start, tasks')
  BY <1>1, <1>2, <1>4, <1>5, <1>7, ProgressStable
<1> QED BY <1>1, <1>6, <1>8, StackGoes

LEMMA RefineGoes == Typed /\ OrderValid /\ Going /\ Refine => Going'
<1> SUFFICES ASSUME Typed, OrderValid, Going, Refine PROVE Going'
  OBVIOUS
<1> DEFINE s == Refining(Task.head, Task.count + 1)
           t == List(Task.head, Task.head, FALSE)
<1>1. /\ tasks # << >> /\ Task.op = "refine"
      /\ tasks' = Append(Becomes(s), t) /\ UNCHANGED <<graph, flow_in, flow, entry, node, post, jumped>>
  BY DEF Refine, Doing
<1>2. /\ Ordered(graph) /\ Values(graph, Vals, Start)
      /\ Len(tasks) \in Nat /\ Len(tasks) >= 1 /\ StackOK(graph, tasks) /\ Task = tasks[Len(tasks)]
  BY <1>1, GoingFacts
<1>3. s.op = "refine" /\ s.head = Task.head /\ t.op = "list" /\ t.head = s.head /\ t.at = s.head
  BY DEF Refining, List
<1> HIDE DEF s, t
<1>4. Pushed(tasks, tasks', s, t)
  BY <1>1, BecomesThenPushed
<1>5. StackOK(graph, tasks')
  BY <1>1, <1>2, <1>3, <1>4, StackPushed
<1>6. Progress(graph, Vals, Start, tasks) => Progress(graph, Vals, Start, tasks')
  BY <1>1, <1>2, <1>3, <1>4, ProgressAgain
<1> QED BY <1>1, <1>5, <1>6, StackGoes

LEMMA UnstableGoes == Typed /\ OrderValid /\ Going /\ Unstable => Going'
<1> SUFFICES ASSUME Typed, OrderValid, Going, Unstable PROVE Going'
  OBVIOUS
<1> DEFINE h == Task.head
<1>1. tasks # << >> /\ Task.op = "fix" /\ UNCHANGED <<graph, flow_in, flow, entry, post>>
  BY DEF Unstable, Doing
<1>2. PICK widened \in Env :
         /\ node' = [node EXCEPT ![WideningNode] = widened]
         /\ tasks' = Append(Becomes(Fix(h, Task.count + 1, widened)), List(h, h, TRUE))
  BY UnstableData
<1> DEFINE s == Fix(h, Task.count + 1, widened)
           t == List(h, h, TRUE)
<1>3. /\ Ordered(graph) /\ Values(graph, Vals, Start)
      /\ Len(tasks) \in Nat /\ Len(tasks) >= 1 /\ StackOK(graph, tasks) /\ Task = tasks[Len(tasks)]
      /\ TaskAt(graph, tasks, Len(tasks)) /\ \A i \in 1..Size(graph) : Vals[i] = Gamma(node[graph.order[i]])
  BY <1>1, GoingFacts
<1>4. s.op = "fix" /\ s.head = h /\ s.old = widened /\ t.op = "list" /\ t.head = s.head /\ t.at = s.head
  BY DEF Fix, List
<1>5. tasks' = Append(Becomes(s), t)
  BY <1>2
<1> HIDE DEF s, t
<1>6. Pushed(tasks, tasks', s, t)
  BY <1>1, <1>5, BecomesThenPushed
<1>7. StackOK(graph, tasks')
  BY <1>1, <1>3, <1>4, <1>6, StackPushed
<1>8. ASSUME ~ jumped' PROVE ~ jumped /\ AllFresh' /\ Progress(graph, Vals, Start, tasks') /\ Vals' = Vals
  <2>1. ~ jumped /\ node' = node /\ WideningNode \in Node
    BY <1>8, UnstableData
  <2>2. AllFresh /\ Progress(graph, Vals, Start, tasks)
    BY <2>1 DEF Going
  <2>3. AllFresh' /\ Vals' = Vals
    BY <1>1, <2>1, <2>2, SameFresh, SameValues
  <2>4. h \in 1..Size(graph)
    BY <1>1, <1>3 DEF TaskAt, ComponentAt, Ordered
  <2>5. Vals[h] = Gamma(s.old)
    <3>1. node[WideningNode] = widened
      BY <1>2, <2>1 DEF Typed, TypeOK
    <3> QED BY <1>3, <1>4, <2>4, <3>1 DEF WideningNode
  <2>6. Progress(graph, Vals, Start, tasks')
    BY <1>1, <1>3, <1>4, <1>6, <2>2, <2>5, ProgressAgain
  <2> QED BY <2>1, <2>3, <2>6
<1>9. Start' = Start
  BY <1>1 DEF Start
<1> QED BY <1>1, <1>7, <1>8, <1>9 DEF Going

-----------------------------------------------------------------------------
\* When the iteration is over the values of the nodes cover every execution.
LEMMA FinishSound ==
  ASSUME Typed, OrderValid, Going, Finish
  PROVE  SoundnessUnlessJumped'
<1> SUFFICES ASSUME ~ jumped, NEW c \in Reached
             PROVE  /\ c[1] = graph.exit => c[2] \in Gamma(flow'.tmap["cur"])
                    /\ c[1] \in Edges =>
                          /\ \A o \in Sem(graph.edge[c[1]].stmt, c[2]) :
                                o[1] \notin Ports(c[1]) => o[2] \in Gamma(flow'.tmap[o[1]])
                          /\ Errors(graph.edge[c[1]].stmt, c[2]) \subseteq flow'.report
  <2>1. graph' = graph /\ flow_in' = flow_in /\ jumped' = jumped
    BY DEF Finish
  <2>2. Reached' = Reached /\ Edges' = Edges /\ \A n : Ports(n)' = Ports(n)
    BY <2>1 DEF Reached, Successors, Edges, Ports
  <2> QED BY <2>1, <2>2 DEF SoundnessUnlessJumped, Soundness
<1> DEFINE N == Size(graph)
<1>1. tasks = << >> /\ AllFresh /\ Progress(graph, Vals, Start, tasks)
  BY DEF Finish, Going
<1>2. Covers(graph, Vals, Start, 0, N + 1)
  BY <1>1 DEF Progress
<1>3. PICK i \in 1..N : c[1] = graph.order[i] /\ <<i, c[2]>> \in Within(graph, Vals, Start, 0, N + 1)
  BY ReachedInside DEF Going, Inside
<1>4. c[2] \in Gamma(node[c[1]])
  <2>1. i < N + 1
    BY OrderFacts
  <2>2. c[2] \in Vals[i]
    BY <1>2, <1>3, <2>1 DEF Covers
  <2> QED BY <1>3, <2>2 DEF Vals
<1>5. node[graph.exit] \in Env /\ flow.tmap \in [Token -> Env]
  BY GraphsAssumption DEF Typed, TypeOK, Flow
<1>6. flow' = [tmap |-> [flow.tmap EXCEPT !["cur"] = EnvJoin(node[graph.exit], flow.tmap["cur"])], report |-> flow.report]
  BY DEF Finish, Add, Set
<1>7. Gamma(node[graph.exit]) \subseteq Gamma(flow'.tmap["cur"])
  BY <1>5, <1>6, LatticeAssumption, CfgTokenAssumption
<1>8. \A tk \in Token \ {"cur"} : flow'.tmap[tk] = flow.tmap[tk]
  BY <1>5, <1>6
<1>9. ASSUME c[1] \in Edges
      PROVE  /\ \A o \in Sem(graph.edge[c[1]].stmt, c[2]) :
                   o[1] \notin Ports(c[1]) => o[2] \in Gamma(flow'.tmap[o[1]])
             /\ Errors(graph.edge[c[1]].stmt, c[2]) \subseteq flow'.report
  <2>1. Fresh(c[1])
    BY <1>1, <1>9 DEF AllFresh
  <2>2. ASSUME NEW o \in Sem(graph.edge[c[1]].stmt, c[2]), o[1] \notin Ports(c[1])
        PROVE  o[2] \in Gamma(flow'.tmap[o[1]])
    <3>1. o[1] \in Token \ PortTokens(graph) /\ o[2] \in Gamma(flow.tmap[o[1]])
      BY <1>4, <2>1, <2>2 DEF Fresh
    <3>2. o[1] # "cur"
      BY <3>1 DEF PortTokens
    <3> QED BY <1>8, <3>1, <3>2
  <2>3. Errors(graph.edge[c[1]].stmt, c[2]) \subseteq flow'.report
    BY <1>4, <1>6, <2>1 DEF Fresh
  <2> QED BY <2>2, <2>3
<1> QED BY <1>4, <1>7, <1>9

\* The invariant: the iteration is under way, or it is over and sound.
Iterating ==
    /\ OrderValid
    /\ ~ done => Going
    /\ done => tasks = << >> /\ SoundnessUnlessJumped

LEMMA InitIterating == Init /\ OrderValid => Iterating
<1> SUFFICES ASSUME Init, OrderValid PROVE Iterating
  OBVIOUS
<1>1. Typed
  BY InitTyped
<1>2. Ordered(graph) /\ Values(graph, Vals, Start)
  BY <1>1, OrderedGraph
<1>3. \A n \in Node : Gamma(node[n]) = {}
  BY LatticeAssumption DEF Init
<1>4. \A i \in 1..Size(graph) : Vals[i] = {}
  BY <1>1, <1>3, OrderFacts DEF Vals
<1>5. Len(tasks) = 1 /\ tasks[1].op = "list" /\ tasks[1].head = 0 /\ tasks[1].at = 1
  BY DEF Init, List
<1>6. StackOK(graph, tasks) /\ Progress(graph, Vals, Start, tasks)
  BY <1>2, <1>4, <1>5, ProgressFirst
<1>7. AllFresh
  <2>1. Edges \subseteq Node
    BY <1>1, GraphsAssumption DEF Edges, Typed
  <2> QED BY <1>3, <2>1 DEF AllFresh, Fresh
<1> QED BY <1>6, <1>7 DEF Iterating, Going, Init

LEMMA IteratingStep == Typed /\ Iterating /\ [Next]_vars => Iterating'
<1> SUFFICES ASSUME Typed, Iterating, [Next]_vars PROVE Iterating'
  OBVIOUS
<1>1. graph' = graph
  BY DEF Next, Propagate, EnterComponent, EndList, Stable, Unstable, Refine, Refined, Finish, vars
<1>2. OrderValid'
  BY <1>1 DEF Iterating, OrderValid, Heads, Edges, Ports
<1>3. CASE UNCHANGED vars
  <2>1. UNCHANGED <<graph, flow_in, flow, entry, node, post, tasks, done, jumped>>
    BY <1>3 DEF vars
  <2>2. Going => Going'
    <3>1. Vals' = Vals /\ Start' = Start /\ (AllFresh => AllFresh')
      BY <2>1, SameValues, SameFresh
    <3> QED BY <2>1, <3>1 DEF Going
  <2>3. SoundnessUnlessJumped => SoundnessUnlessJumped'
    BY <2>1 DEF SoundnessUnlessJumped, Soundness, Reached, Successors, Edges, Ports
  <2> QED BY <1>2, <2>1, <2>2, <2>3 DEF Iterating
<1>4. CASE Propagate \/ EnterComponent \/ EndList \/ Stable \/ Unstable \/ Refine \/ Refined
  <2>1. tasks # << >> /\ done' = done
    BY <1>4 DEF Propagate, EnterComponent, EndList, Stable, Unstable, Refine, Refined, Doing
  <2>2. ~ done /\ Going /\ OrderValid
    BY <2>1 DEF Iterating
  <2>3. Going'
    BY <1>4, <2>2, PropagateGoes, EnterComponentGoes, EndListGoes, StableGoes, UnstableGoes,
       RefineGoes, RefinedGoes
  <2> QED BY <1>2, <2>1, <2>2, <2>3 DEF Iterating
<1>5. CASE Finish
  <2>1. ~ done /\ tasks' = << >> /\ done'
    BY <1>5 DEF Finish
  <2>2. SoundnessUnlessJumped'
    BY <1>5, <2>1, FinishSound DEF Iterating
  <2> QED BY <1>2, <2>1, <2>2 DEF Iterating
<1> QED BY <1>3, <1>4, <1>5 DEF Next

\* From a valid order, and while widening gives its second argument, the flow
\* that the iterator returns covers every execution of the graph, with loops
\* nested to any depth and any number of executions.
THEOREM CfgSoundness == Spec /\ OrderValid => []SoundnessUnlessJumped
<1>1. Iterating => SoundnessUnlessJumped
  BY DEF Iterating, SoundnessUnlessJumped, Soundness
<1> QED BY <1>1, InitIterating, IteratingStep, TypedAlways, PTL DEF Spec
===============================================================================
