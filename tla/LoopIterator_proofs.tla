------------------------- MODULE LoopIterator_proofs -------------------------
(***************************************************************************)
(* Type correctness and soundness of the loop iterator, for every lattice, *)
(* every body and every choice of the unrolling, delay and decreasing      *)
(* iteration options.                                                      *)
(*                                                                         *)
(* The argument.  While unrolling, every head of the concrete loop is      *)
(* either still ahead (a head of the loop entered from the current flow)   *)
(* or behind (its ways out are already in the flow and in flow_out).  A    *)
(* converged iterate is a set of states closed under the iterations of the *)
(* concrete loop, so it contains every head that was still ahead.          *)
(***************************************************************************)
EXTENDS LoopIterator, TLAPS

\* What an iteration from head h leaves the loop with is in flow f.
Escaped(l, h, f) ==
    /\ \A o \in Escapes(l, h) : o[2] \in Gamma(f.tmap[o[1]])
    /\ IterationErrors(l, h) \subseteq f.report

\* The normal exit from head h is in flow f.
Exited(l, h, f) ==
    /\ \A o \in Sem(l, "assume_not", h) : o[2] \in Gamma(f.tmap[o[1]])
    /\ Errors(l, "assume_not", h) \subseteq f.report

Ahead(f) == Heads(loop, Gamma(f.tmap["cur"]))

\* Every head is still ahead of f or behind it.
Unrolled(f) ==
    \A h \in Heads(loop, EntryStates) :
        h \in Ahead(f) \/ (Escaped(loop, h, f) /\ Exited(loop, h, flow_out))

\* f holds every head, and the ways out of all of them.
Stable(f) ==
    \A h \in Heads(loop, EntryStates) :
        /\ Escaped(loop, h, f)
        /\ h \in Gamma(f.tmap["cur"]) \/ Exited(loop, h, flow_out)

Others == Token \ {"cur", "break", "continue"}

\* What reached the statement on other tokens, and its report, is in f.
Kept(f) ==
    /\ \A tk \in Others : Gamma(flow_in.tmap[tk]) \subseteq Gamma(f.tmap[tk])
    /\ flow_in.report \subseteq f.report

IInv ==
    /\ TypeOK
    /\ pc = "unroll" => Unrolled(flow) /\ Kept(flow)
    /\ pc \in {"lfp", "decr"} => Unrolled(flow_init) /\ Kept(flow_init)
    /\ pc = "decr" => Stable(flow) /\ Ahead(flow_init) \subseteq Gamma(flow.tmap["cur"])
    /\ pc = "exit" => Stable(flow) /\ Kept(flow)
    /\ Soundness /\ EnclosingFlowKept

-----------------------------------------------------------------------------
(***************************************************************************)
(* Lemmas on flows.                                                        *)
(***************************************************************************)

\* Flow.bottom is a flow.
LEMMA BottomFlowType == \A r \in SUBSET Alarm : BottomFlow(r) \in Flow
BY LatticeAssumption DEF BottomFlow, Flow

\* Flow.join is an upper bound, on every token and on the report.
LEMMA JoinUpper ==
    ASSUME NEW f \in Flow, NEW g \in Flow
    PROVE  /\ Join(f, g) \in Flow
           /\ \A tk \in Token : /\ Gamma(f.tmap[tk]) \subseteq Gamma(Join(f, g).tmap[tk])
                                /\ Gamma(g.tmap[tk]) \subseteq Gamma(Join(f, g).tmap[tk])
           /\ f.report \subseteq Join(f, g).report
           /\ g.report \subseteq Join(f, g).report
BY LatticeAssumption DEF Join, Flow

\* Flow.widen produces a flow.
LEMMA WidenType == \A f, g \in Flow : Widen(f, g) \in Flow
BY LatticeAssumption DEF Widen, Flow

\* Flow.set and Flow.add produce flows.
LEMMA SetType ==
    ASSUME NEW f \in Flow, NEW tk \in Token, NEW e \in Env
    PROVE  Set(tk, e, f) \in Flow /\ Add(tk, e, f) \in Flow
<1>1. \A d \in Env : Set(tk, d, f) \in Flow
  BY DEF Set, Flow
<1>2. EnvJoin(e, f.tmap[tk]) \in Env
  BY LatticeAssumption DEF Flow
<1> QED BY <1>1, <1>2 DEF Add

\* Removing tokens and replacing the report leave the current environment.
LEMMA ResetType ==
    ASSUME NEW f \in Flow, NEW r \in SUBSET Alarm
    PROVE  LET g == SetReport(r, Remove({"continue", "break"}, f))
           IN g \in Flow /\ g.tmap["cur"] = f.tmap["cur"] /\ g.report = r
BY LatticeAssumption, TokenAssumption DEF SetReport, Remove, Flow

\* The same without a change of report.
LEMMA RemoveType ==
    ASSUME NEW f \in Flow
    PROVE  LET g == Remove({"continue", "break"}, f)
           IN /\ g \in Flow
              /\ \A tk \in Token \ {"continue", "break"} : g.tmap[tk] = f.tmap[tk]
              /\ g.report = f.report
BY LatticeAssumption, TokenAssumption DEF Remove, Flow

\* Executing a statement covers its concrete semantics and keeps the rest.
LEMMA ExecSound ==
    ASSUME NEW f \in Flow, NEW s \in Stmts, loop \in Loops
    PROVE  /\ Exec(s, f) \in Flow
           /\ f.report \subseteq Exec(s, f).report
           /\ \A tk \in Token \ {"cur"} :
                Gamma(f.tmap[tk]) \subseteq Gamma(Exec(s, f).tmap[tk])
           /\ \A x \in Gamma(f.tmap["cur"]) :
                /\ \A o \in Sem(loop, s, x) : o[2] \in Gamma(Exec(s, f).tmap[o[1]])
                /\ Errors(loop, s, x) \subseteq Exec(s, f).report
<1> DEFINE r == Transfer(loop, s, f.tmap["cur"])
<1>1. f.tmap["cur"] \in Env /\ f.tmap \in [Token -> Env] /\ f.report \in SUBSET Alarm
  BY TokenAssumption DEF Flow
<1>2. r \in [out : [Token -> Env], report : SUBSET Alarm]
  BY <1>1, TransferAssumption
<1>3. /\ Exec(s, f).tmap = [tk \in Token |->
           IF tk = "cur" THEN r.out[tk] ELSE EnvJoin(r.out[tk], f.tmap[tk])]
      /\ Exec(s, f).report = f.report \union r.report
      /\ Exec(s, f) = [tmap |-> Exec(s, f).tmap, report |-> Exec(s, f).report]
  BY DEF Exec
<1>4. Exec(s, f) \in Flow
  <2>1. \A tk \in Token : Exec(s, f).tmap[tk] \in Env
    BY <1>1, <1>2, <1>3, LatticeAssumption
  <2> QED BY <2>1, <1>1, <1>2, <1>3 DEF Flow
<1>5. \A tk \in Token : Gamma(r.out[tk]) \subseteq Gamma(Exec(s, f).tmap[tk])
  BY <1>1, <1>2, <1>3, LatticeAssumption
<1>6. \A tk \in Token \ {"cur"} : Gamma(f.tmap[tk]) \subseteq Gamma(Exec(s, f).tmap[tk])
  BY <1>1, <1>2, <1>3, LatticeAssumption
<1>7. ASSUME NEW x \in Gamma(f.tmap["cur"])
      PROVE  /\ \A o \in Sem(loop, s, x) : o[2] \in Gamma(Exec(s, f).tmap[o[1]])
             /\ Errors(loop, s, x) \subseteq Exec(s, f).report
  <2>1. x \in State
    BY <1>1, LatticeAssumption
  <2>2. /\ \A o \in Sem(loop, s, x) : o[2] \in Gamma(r.out[o[1]])
        /\ Errors(loop, s, x) \subseteq r.report
    BY <1>1, TransferAssumption
  <2>3. \A o \in Sem(loop, s, x) : o[1] \in Token
    BY <2>1, SemAssumption
  <2> QED BY <2>2, <2>3, <1>3, <1>5
<1> QED BY <1>3, <1>4, <1>6, <1>7

\* Merging cur and continue keeps both, and every token but continue.
LEMMA MergeSound ==
    ASSUME NEW f \in Flow
    PROVE  LET g == MergeCurAndContinue(f)
           IN /\ g \in Flow
              /\ g.report = f.report
              /\ Gamma(f.tmap["cur"]) \subseteq Gamma(g.tmap["cur"])
              /\ Gamma(f.tmap["continue"]) \subseteq Gamma(g.tmap["cur"])
              /\ \A tk \in Token \ {"cur", "continue"} : g.tmap[tk] = f.tmap[tk]
BY LatticeAssumption, TokenAssumption DEF MergeCurAndContinue, Remove, Set, Flow

\* One abstract iteration covers one concrete iteration.
LEMMA IterateSound ==
    ASSUME NEW f \in Flow, loop \in Loops
    PROVE  /\ Iterate(f) \in Flow
           /\ f.report \subseteq Iterate(f).report
           /\ \A tk \in Token \ {"cur", "continue"} :
                Gamma(f.tmap[tk]) \subseteq Gamma(Iterate(f).tmap[tk])
           /\ \A x \in Gamma(f.tmap["cur"]) :
                /\ NextHeads(loop, x) \subseteq Gamma(Iterate(f).tmap["cur"])
                /\ Escaped(loop, x, Iterate(f))
<1> DEFINE a == Exec("assume", f)
           b == Exec("body", a)
<1>1. /\ a \in Flow /\ f.report \subseteq a.report
      /\ \A tk \in Token \ {"cur"} : Gamma(f.tmap[tk]) \subseteq Gamma(a.tmap[tk])
      /\ \A x \in Gamma(f.tmap["cur"]) :
           /\ \A o \in Sem(loop, "assume", x) : o[2] \in Gamma(a.tmap[o[1]])
           /\ Errors(loop, "assume", x) \subseteq a.report
  BY ExecSound DEF Stmts
<1>2. /\ b \in Flow /\ a.report \subseteq b.report
      /\ \A tk \in Token \ {"cur"} : Gamma(a.tmap[tk]) \subseteq Gamma(b.tmap[tk])
      /\ \A x \in Gamma(a.tmap["cur"]) :
           /\ \A o \in Sem(loop, "body", x) : o[2] \in Gamma(b.tmap[o[1]])
           /\ Errors(loop, "body", x) \subseteq b.report
  BY <1>1, ExecSound DEF Stmts
<1> DEFINE g == MergeCurAndContinue(b)
<1>3. /\ g \in Flow /\ g.report = b.report
      /\ Gamma(b.tmap["cur"]) \subseteq Gamma(g.tmap["cur"])
      /\ Gamma(b.tmap["continue"]) \subseteq Gamma(g.tmap["cur"])
      /\ \A tk \in Token \ {"cur", "continue"} : g.tmap[tk] = b.tmap[tk]
  BY <1>2, MergeSound
<1>4. Iterate(f) = g
  BY DEF Iterate
<1> HIDE DEF a, b, g
<1>5. ASSUME NEW x \in Gamma(f.tmap["cur"])
      PROVE  /\ NextHeads(loop, x) \subseteq Gamma(g.tmap["cur"])
             /\ Escaped(loop, x, g)
  <2>1. x \in State
    BY TokenAssumption, LatticeAssumption DEF Flow
  <2>2. \A o \in Sem(loop, "assume", x) : o[1] \in Token \ {"break", "continue"}
    BY <2>1, SemAssumption DEF Stmts
  <2>3. \A o \in Sem(loop, "assume", x) : o[1] = "cur" => o[2] \in Gamma(a.tmap["cur"])
    BY <1>1
  <2>4. \A o \in BodyOutcomes(loop, x) : o[1] \in Token /\ o[2] \in Gamma(b.tmap[o[1]])
    <3> SUFFICES ASSUME NEW p \in Sem(loop, "assume", x), p[1] = "cur",
                        NEW o \in Sem(loop, "body", p[2])
                 PROVE  o[1] \in Token /\ o[2] \in Gamma(b.tmap[o[1]])
      BY DEF BodyOutcomes
    <3>1. p[2] \in Gamma(a.tmap["cur"])
      BY <2>3
    <3>2. p[2] \in State
      BY <3>1, <1>1, TokenAssumption, LatticeAssumption DEF Flow
    <3> QED BY <3>1, <3>2, <1>2, SemAssumption DEF Stmts
  <2>5. NextHeads(loop, x) \subseteq Gamma(g.tmap["cur"])
    BY <2>4, <1>3 DEF NextHeads
  <2>6. ASSUME NEW o \in Escapes(loop, x) PROVE o[2] \in Gamma(g.tmap[o[1]])
    <3>1. CASE o \in BodyOutcomes(loop, x)
      BY <3>1, <2>4, <1>3 DEF Escapes
    <3>2. CASE o \in Sem(loop, "assume", x)
      <4>1. o[1] \in Token \ {"cur", "continue"} /\ o[2] \in Gamma(a.tmap[o[1]])
        BY <3>2, <2>2, <1>1 DEF Escapes
      <4> QED BY <4>1, <1>2, <1>3
    <3> QED BY <3>1, <3>2 DEF Escapes
  <2>7. IterationErrors(loop, x) \subseteq g.report
    <3>1. Errors(loop, "assume", x) \subseteq g.report
      BY <1>1, <1>2, <1>3
    <3>2. ASSUME NEW p \in Sem(loop, "assume", x), p[1] = "cur"
          PROVE  Errors(loop, "body", p[2]) \subseteq g.report
      BY <3>2, <2>3, <1>2, <1>3
    <3> QED BY <3>1, <3>2 DEF IterationErrors
  <2> QED BY <2>5, <2>6, <2>7 DEF Escaped
<1>6. \A tk \in Token \ {"cur", "continue"} : Gamma(f.tmap[tk]) \subseteq Gamma(g.tmap[tk])
  BY <1>1, <1>2, <1>3
<1> QED BY <1>1, <1>2, <1>3, <1>4, <1>5, <1>6

-----------------------------------------------------------------------------
(***************************************************************************)
(* Lemmas on the heads of the concrete loop.                               *)
(***************************************************************************)

\* A set closed under iterations that holds the entry holds every head.
LEMMA HeadsLeast ==
    ASSUME NEW l, NEW X, NEW I \in SUBSET State, X \subseteq I, Closed(l, I)
    PROVE  Heads(l, X) \subseteq I
BY DEF Heads

\* The entry states are heads.
LEMMA HeadsEntry ==
    ASSUME NEW l, NEW X \in SUBSET State
    PROVE  X \subseteq Heads(l, X)
BY DEF Heads

\* What an iteration leads to is a state.
LEMMA NextHeadsType ==
    ASSUME NEW l \in Loops, NEW x \in State
    PROVE  NextHeads(l, x) \subseteq State
<1>1. \A o \in Sem(l, "assume", x) : o[2] \in State
  BY SemAssumption DEF Stmts
<1>2. \A o \in BodyOutcomes(l, x) : o[2] \in State
  BY <1>1, SemAssumption DEF Stmts, BodyOutcomes
<1> QED BY <1>2 DEF NextHeads

\* The heads are closed under iterations.
LEMMA HeadsClosed ==
    ASSUME NEW l \in Loops, NEW X \in SUBSET State
    PROVE  Closed(l, Heads(l, X))
<1> SUFFICES ASSUME NEW h \in Heads(l, X), NEW t \in NextHeads(l, h),
                    NEW I \in SUBSET State, X \subseteq I, Closed(l, I)
             PROVE  t \in I
  BY NextHeadsType DEF Closed, Heads
<1>1. h \in I
  BY DEF Heads
<1> QED BY <1>1 DEF Closed

\* A head is an entry state or a head of the loop entered one iteration
\* later from any set that holds the successors of the entry.
LEMMA HeadsUnroll ==
    ASSUME NEW l \in Loops, NEW X \in SUBSET State, NEW Y \in SUBSET State,
           \A x \in X : NextHeads(l, x) \subseteq Y
    PROVE  Heads(l, X) \subseteq X \union Heads(l, Y)
<1>1. Y \subseteq Heads(l, Y) /\ Closed(l, Heads(l, Y))
  BY HeadsEntry, HeadsClosed
<1>2. Heads(l, Y) \subseteq State
  BY DEF Heads
<1>3. Closed(l, X \union Heads(l, Y))
  BY <1>1 DEF Closed
<1> QED BY <1>2, <1>3, HeadsLeast

-----------------------------------------------------------------------------
(***************************************************************************)
(* Lemmas on the invariant.                                                *)
(***************************************************************************)

\* A way out of an iteration is neither a normal end nor a continue.
LEMMA EscapesType ==
    ASSUME NEW l \in Loops, NEW h \in State
    PROVE  \A o \in Escapes(l, h) : o[1] \in Token \ {"cur", "continue"}
<1>1. \A o \in Sem(l, "assume", h) : o[1] \in Token /\ o[2] \in State
  BY SemAssumption DEF Stmts
<1>2. \A o \in BodyOutcomes(l, h) : o[1] \in Token
  BY <1>1, SemAssumption DEF Stmts, BodyOutcomes
<1> QED BY <1>1, <1>2 DEF Escapes

\* f is below g, except on cur and continue.
BelowOut(f, g) ==
    /\ \A tk \in Token \ {"cur", "continue"} : Gamma(f.tmap[tk]) \subseteq Gamma(g.tmap[tk])
    /\ f.report \subseteq g.report

\* A flow that grows keeps the ways out it already holds.
LEMMA EscapedGrows ==
    ASSUME NEW l \in Loops, NEW h \in State, NEW f, NEW g,
           Escaped(l, h, f), BelowOut(f, g)
    PROVE  Escaped(l, h, g)
BY EscapesType DEF Escaped, BelowOut

\* f is below g, except on break and continue.
BelowExit(f, g) ==
    /\ \A tk \in Token \ {"break", "continue"} : Gamma(f.tmap[tk]) \subseteq Gamma(g.tmap[tk])
    /\ f.report \subseteq g.report

\* A flow that grows keeps the normal exits it already holds.
LEMMA ExitedGrows ==
    ASSUME NEW l \in Loops, NEW h \in State, NEW f, NEW g,
           Exited(l, h, f), BelowExit(f, g)
    PROVE  Exited(l, h, g)
BY SemAssumption DEF Exited, BelowExit, Stmts

\* The heads ahead of a flow are states.
LEMMA AheadType ==
    ASSUME NEW f \in Flow, loop \in Loops
    PROVE  /\ Gamma(f.tmap["cur"]) \in SUBSET State
           /\ Ahead(f) \in SUBSET State
           /\ Gamma(f.tmap["cur"]) \subseteq Ahead(f)
           /\ Closed(loop, Ahead(f))
<1>1. Gamma(f.tmap["cur"]) \in SUBSET State
  BY TokenAssumption, LatticeAssumption DEF Flow
<1> QED BY <1>1, HeadsEntry, HeadsClosed DEF Ahead, Heads

\* An iterate of a flow that holds every head still ahead of flow_init,
\* joined with flow_init, holds them again and holds their ways out.
LEMMA FixpointStep ==
    ASSUME NEW f \in Flow, flow_init \in Flow, loop \in Loops,
           Ahead(flow_init) \subseteq Gamma(f.tmap["cur"])
    PROVE  LET g == Join(Iterate(f), flow_init)
           IN /\ Ahead(flow_init) \subseteq Gamma(g.tmap["cur"])
              /\ \A h \in Ahead(flow_init) : Escaped(loop, h, g)
<1> DEFINE it == Iterate(f)
           g == Join(it, flow_init)
           R == Ahead(flow_init)
<1>1. /\ it \in Flow
      /\ \A x \in Gamma(f.tmap["cur"]) :
           NextHeads(loop, x) \subseteq Gamma(it.tmap["cur"]) /\ Escaped(loop, x, it)
  BY IterateSound
<1>2. /\ g \in Flow
      /\ \A tk \in Token : /\ Gamma(it.tmap[tk]) \subseteq Gamma(g.tmap[tk])
                            /\ Gamma(flow_init.tmap[tk]) \subseteq Gamma(g.tmap[tk])
      /\ it.report \subseteq g.report
  BY <1>1, JoinUpper
<1>3. /\ R \in SUBSET State /\ Closed(loop, R)
      /\ Gamma(flow_init.tmap["cur"]) \subseteq R
      /\ Gamma(g.tmap["cur"]) \in SUBSET State
  BY <1>2, AheadType
<1> HIDE DEF it, g
<1>4. R \subseteq Gamma(g.tmap["cur"])
  <2> DEFINE I == R \intersect Gamma(g.tmap["cur"])
  <2>1. Closed(loop, I)
    BY <1>1, <1>2, <1>3, TokenAssumption DEF Closed
  <2>2. Gamma(flow_init.tmap["cur"]) \subseteq I
    BY <1>2, <1>3, TokenAssumption
  <2>3. R \subseteq I
    <3> HIDE DEF I
    <3>1. I \in SUBSET State
      BY <1>3 DEF I
    <3> QED BY <2>1, <2>2, <3>1, HeadsLeast DEF Ahead
  <2> QED BY <2>3
<1>5. \A h \in R : Escaped(loop, h, g)
  <2> TAKE h \in R
  <2>1. Escaped(loop, h, it)
    BY <1>1
  <2>2. BelowOut(it, g)
    BY <1>2 DEF BelowOut
  <2> QED BY <1>3, <2>1, <2>2, EscapedGrows
<1> QED BY <1>4, <1>5 DEF it, g

\* Such a step keeps what flow_init holds, so it is stable.
LEMMA StableStep ==
    ASSUME TypeOK, NEW f \in Flow, Unrolled(flow_init), Kept(flow_init),
           Ahead(flow_init) \subseteq Gamma(f.tmap["cur"])
    PROVE  LET g == Join(Iterate(f), flow_init)
           IN g \in Flow /\ Stable(g) /\ Kept(g)
              /\ Ahead(flow_init) \subseteq Gamma(g.tmap["cur"])
<1> DEFINE g == Join(Iterate(f), flow_init)
<1> USE DEF TypeOK
<1>1. /\ Iterate(f) \in Flow /\ g \in Flow
      /\ \A tk \in Token : Gamma(flow_init.tmap[tk]) \subseteq Gamma(g.tmap[tk])
      /\ flow_init.report \subseteq g.report
  BY IterateSound, JoinUpper
<1>2. /\ Ahead(flow_init) \subseteq Gamma(g.tmap["cur"])
      /\ \A h \in Ahead(flow_init) : Escaped(loop, h, g)
  BY FixpointStep
<1> HIDE DEF g
<1>3. BelowOut(flow_init, g)
  BY <1>1 DEF BelowOut
<1>4. Stable(g)
  <2> SUFFICES ASSUME NEW h \in Heads(loop, EntryStates)
               PROVE  /\ Escaped(loop, h, g)
                      /\ h \in Gamma(g.tmap["cur"]) \/ Exited(loop, h, flow_out)
    BY DEF Stable
  <2>1. h \in State
    BY DEF Heads
  <2>2. CASE h \in Ahead(flow_init)
    BY <2>2, <1>2
  <2>3. CASE Escaped(loop, h, flow_init) /\ Exited(loop, h, flow_out)
    BY <2>1, <2>3, <1>3, EscapedGrows
  <2> QED BY <2>2, <2>3 DEF Unrolled
<1>5. Kept(g)
  BY <1>1 DEF Kept, Others
<1> QED BY <1>1, <1>2, <1>4, <1>5 DEF g

-----------------------------------------------------------------------------
(***************************************************************************)
(* The invariant and the theorems.                                         *)
(***************************************************************************)

\* The invariant holds when the handler is called.
LEMMA InitIInv == Init => IInv
<1> SUFFICES ASSUME Init PROVE IInv
  OBVIOUS
<1> USE DEF Init
<1>1. /\ flow_in \in Flow /\ flow \in Flow
      /\ \A tk \in Token \ {"continue", "break"} : flow.tmap[tk] = flow_in.tmap[tk]
      /\ flow.report = flow_in.report
  BY InFlowsAssumption, RemoveType
<1>2. TypeOK
  BY <1>1, OptionsAssumption, BottomFlowType DEF TypeOK
<1>3. Unrolled(flow)
  BY <1>1, TokenAssumption DEF Unrolled, Ahead, EntryStates
<1>4. Kept(flow)
  BY <1>1 DEF Kept, Others
<1> QED BY <1>2, <1>3, <1>4 DEF IInv, Soundness, EnclosingFlowKept

\* Every step keeps the types.
LEMMA TypeStep == TypeOK /\ [Next]_vars => TypeOK'
<1> SUFFICES ASSUME TypeOK, [Next]_vars PROVE TypeOK'
  OBVIOUS
<1> USE DEF TypeOK
<1>1. /\ Iterate(flow) \in Flow /\ LfpIterate \in Flow /\ DecrIterate(flow) \in Flow
      /\ Join(flow_out, Exec("assume_not", flow)) \in Flow
      /\ Join(flow_out, BottomFlow(flow.report)) \in Flow
  <2>1. {} \in SUBSET Alarm /\ flow.report \in SUBSET Alarm /\ flow_init.report \in SUBSET Alarm
    BY DEF Flow
  <2>2. Exec("assume_not", flow) \in Flow /\ BottomFlow(flow.report) \in Flow
    BY <2>1, ExecSound, BottomFlowType DEF Stmts
  <2>3. /\ SetReport(flow_init.report, Remove({"continue", "break"}, flow)) \in Flow
        /\ SetReport({}, Remove({"continue", "break"}, flow)) \in Flow
    BY <2>1, ResetType
  <2> QED BY <2>2, <2>3, IterateSound, JoinUpper DEF LfpIterate, DecrIterate
<1>2. CASE UnrollExhausted
  BY <1>1, <1>2 DEF UnrollExhausted
<1>3. CASE UnrollStable
  BY <1>1, <1>3 DEF UnrollStable
<1>4. CASE UnrollMore
  BY <1>1, <1>4 DEF UnrollMore, Full
<1>5. CASE LfpConverge
  BY <1>1, <1>5 DEF LfpConverge
<1>6. CASE LfpWiden
  BY <1>1, <1>6, WidenType, OptionsAssumption DEF LfpWiden
<1>7. CASE LfpDelay
  BY <1>1, <1>7 DEF LfpDelay
<1>8. CASE DecrIteration
  BY <1>1, <1>8 DEF DecrIteration
<1>9. CASE Exit
  <2> DEFINE res0 == Join(flow_out, Exec("assume_not", flow))
  <2>1. res0 \in Flow
    BY <1>1
  <2> HIDE DEF res0
  <2>2. result' = Set("continue", flow_in.tmap["continue"],
                     Set("break", flow_in.tmap["break"], Add("cur", res0.tmap["break"], res0)))
    BY <1>9 DEF Exit, res0
  <2>3. /\ res0.tmap["break"] \in Env
        /\ flow_in.tmap["break"] \in Env /\ flow_in.tmap["continue"] \in Env
    BY <2>1, InFlowsAssumption, TokenAssumption DEF Flow
  <2>4. result' \in Flow
    BY <2>1, <2>2, <2>3, SetType, TokenAssumption
  <2> QED BY <1>9, <2>4 DEF Exit
<1>10. CASE UNCHANGED vars
  BY <1>10 DEF vars
<1> QED BY <1>2, <1>3, <1>4, <1>5, <1>6, <1>7, <1>8, <1>9, <1>10 DEF Next

\* THEOREM TypeCorrect: the handler never builds an ill-formed flow, and
\* the unrolling budget and the widening delay never go below their range.
THEOREM TypeCorrect == Spec => []TypeOK
<1>1. Init => TypeOK
  BY InitIInv DEF IInv
<1> QED BY <1>1, TypeStep, PTL DEF Spec

\* What is said of flow_init holds as long as lfp runs.
LEMMA InitKept ==
    ASSUME Unrolled(flow_init), Kept(flow_init),
           UNCHANGED <<loop, flow_in, flow_init, flow_out>>
    PROVE  (Unrolled(flow_init) /\ Kept(flow_init))'
BY DEF Unrolled, Kept, Ahead, EntryStates

\* A step that changes nothing keeps every part of the invariant.
LEMMA StutterKept ==
    ASSUME UNCHANGED vars
    PROVE  /\ Unrolled(flow) => Unrolled(flow)'
           /\ Unrolled(flow_init) => Unrolled(flow_init)'
           /\ Stable(flow) => Stable(flow)'
           /\ Kept(flow) => Kept(flow)'
           /\ Kept(flow_init) => Kept(flow_init)'
           /\ Ahead(flow_init) \subseteq Gamma(flow.tmap["cur"])
                => (Ahead(flow_init) \subseteq Gamma(flow.tmap["cur"]))'
BY DEF vars, Unrolled, Stable, Kept, Ahead, EntryStates

\* When unrolling stops, the last flow is where lfp starts.
LEMMA UnrollExhaustedStep ==
    IInv /\ UnrollExhausted => Unrolled(flow_init)' /\ Kept(flow_init)'
<1> SUFFICES ASSUME IInv, UnrollExhausted PROVE Unrolled(flow_init)' /\ Kept(flow_init)'
  OBVIOUS
<1> DEFINE bot == BottomFlow(flow.report)
           out == Join(flow_out, bot)
<1>1. /\ TypeOK /\ Unrolled(flow) /\ Kept(flow)
      /\ flow_init' = flow /\ flow_out' = out /\ loop' = loop /\ flow_in' = flow_in
  BY DEF IInv, UnrollExhausted
<1>2. bot \in Flow
  BY <1>1, BottomFlowType DEF TypeOK, Flow
<1> HIDE DEF bot
<1>3. BelowExit(flow_out, out)
  BY <1>1, <1>2, JoinUpper DEF TypeOK, BelowExit
<1> HIDE DEF out
<1>4. \A h \in Heads(loop, EntryStates) :
         h \in Ahead(flow) \/ (Escaped(loop, h, flow) /\ Exited(loop, h, out))
  <2> TAKE h \in Heads(loop, EntryStates)
  <2>1. h \in State
    BY DEF Heads
  <2> QED BY <2>1, <1>1, <1>3, ExitedGrows DEF Unrolled, TypeOK
<1> QED BY <1>1, <1>4 DEF Unrolled, Kept, Ahead, EntryStates

\* One more unrolling: the heads ahead are those of the next iteration.
LEMMA UnrollMoreStep == IInv /\ UnrollMore => Unrolled(flow)' /\ Kept(flow)'
<1> SUFFICES ASSUME IInv, UnrollMore PROVE Unrolled(flow)' /\ Kept(flow)'
  OBVIOUS
<1> DEFINE it == Iterate(flow)
           ex == Exec("assume_not", flow)
           out == Join(flow_out, ex)
<1>1. /\ TypeOK /\ Unrolled(flow) /\ Kept(flow)
      /\ flow' = it /\ flow_out' = out /\ loop' = loop /\ flow_in' = flow_in
  BY DEF IInv, UnrollMore
<1>2. /\ it \in Flow /\ flow.report \subseteq it.report
      /\ \A tk \in Token \ {"cur", "continue"} : Gamma(flow.tmap[tk]) \subseteq Gamma(it.tmap[tk])
      /\ \A x \in Gamma(flow.tmap["cur"]) :
           NextHeads(loop, x) \subseteq Gamma(it.tmap["cur"]) /\ Escaped(loop, x, it)
  BY <1>1, IterateSound DEF TypeOK
<1>3. /\ ex \in Flow
      /\ \A x \in Gamma(flow.tmap["cur"]) : Exited(loop, x, ex)
  BY <1>1, ExecSound DEF TypeOK, Stmts, Exited
<1>4. /\ BelowExit(flow_out, out)
      /\ BelowExit(ex, out)
  BY <1>1, <1>3, JoinUpper DEF TypeOK, BelowExit
<1> HIDE DEF it, ex, out
<1>5. BelowOut(flow, it)
  BY <1>2 DEF BelowOut
<1>6. Ahead(flow) \subseteq Gamma(flow.tmap["cur"]) \union Ahead(it)
  <2>1. Gamma(flow.tmap["cur"]) \in SUBSET State /\ Gamma(it.tmap["cur"]) \in SUBSET State
    BY <1>1, <1>2, AheadType DEF TypeOK
  <2> QED BY <1>1, <1>2, <2>1, HeadsUnroll DEF Ahead, TypeOK
<1>7. \A h \in Heads(loop, EntryStates) :
         h \in Ahead(it) \/ (Escaped(loop, h, it) /\ Exited(loop, h, out))
  <2> TAKE h \in Heads(loop, EntryStates)
  <2>1. h \in State
    BY DEF Heads
  <2>2. CASE h \in Gamma(flow.tmap["cur"])
    BY <2>1, <2>2, <1>2, <1>3, <1>4, <1>1, ExitedGrows DEF TypeOK
  <2>3. CASE Escaped(loop, h, flow) /\ Exited(loop, h, flow_out)
    BY <2>1, <2>3, <1>1, <1>4, <1>5, EscapedGrows, ExitedGrows DEF TypeOK
  <2> QED BY <2>2, <2>3, <1>1, <1>6 DEF Unrolled
<1>8. Unrolled(flow)'
  BY <1>1, <1>7 DEF Unrolled, Ahead, EntryStates
<1>9. Kept(flow)'
  BY <1>1, <1>2 DEF Kept, Others
<1> QED BY <1>8, <1>9

\* A fixpoint found while unrolling is stable from there on.
LEMMA UnrollStableStep == IInv /\ UnrollStable => Stable(flow)' /\ Kept(flow)'
<1> SUFFICES ASSUME IInv, UnrollStable PROVE Stable(flow)' /\ Kept(flow)'
  OBVIOUS
<1> DEFINE it == Iterate(flow)
           ex == Exec("assume_not", flow)
           out == Join(flow_out, ex)
<1>1. /\ TypeOK /\ Unrolled(flow) /\ Kept(flow) /\ Subset(it, flow)
      /\ flow' = it /\ flow_out' = out /\ loop' = loop /\ flow_in' = flow_in
  BY DEF IInv, UnrollStable
<1>2. /\ it \in Flow /\ flow.report \subseteq it.report
      /\ \A tk \in Token \ {"cur", "continue"} : Gamma(flow.tmap[tk]) \subseteq Gamma(it.tmap[tk])
      /\ \A x \in Gamma(flow.tmap["cur"]) :
           NextHeads(loop, x) \subseteq Gamma(it.tmap["cur"]) /\ Escaped(loop, x, it)
  BY <1>1, IterateSound DEF TypeOK
<1>3. /\ ex \in Flow
      /\ \A x \in Gamma(flow.tmap["cur"]) : Exited(loop, x, ex)
  BY <1>1, ExecSound DEF TypeOK, Stmts, Exited
<1>4. BelowExit(flow_out, out) /\ BelowExit(ex, out)
  BY <1>1, <1>3, JoinUpper DEF TypeOK, BelowExit
<1>5. /\ Gamma(flow.tmap["cur"]) \in SUBSET State
      /\ Gamma(it.tmap["cur"]) \subseteq Gamma(flow.tmap["cur"])
  BY <1>1, <1>2, AheadType, LatticeAssumption, TokenAssumption DEF TypeOK, Subset, Flow
<1> HIDE DEF it, ex, out
<1>6. Ahead(flow) \subseteq Gamma(flow.tmap["cur"])
  <2>1. Closed(loop, Gamma(flow.tmap["cur"]))
    BY <1>2, <1>5 DEF Closed
  <2> QED BY <1>5, <2>1, HeadsLeast DEF Ahead
<1>7. BelowOut(flow, it)
  BY <1>2 DEF BelowOut
<1>8. \A h \in Heads(loop, EntryStates) : Escaped(loop, h, it) /\ Exited(loop, h, out)
  <2> TAKE h \in Heads(loop, EntryStates)
  <2>1. h \in State
    BY DEF Heads
  <2>2. CASE h \in Gamma(flow.tmap["cur"])
    BY <2>1, <2>2, <1>2, <1>3, <1>4, <1>1, ExitedGrows DEF TypeOK
  <2>3. CASE Escaped(loop, h, flow) /\ Exited(loop, h, flow_out)
    BY <2>1, <2>3, <1>1, <1>4, <1>7, EscapedGrows, ExitedGrows DEF TypeOK
  <2> QED BY <2>2, <2>3, <1>1, <1>6 DEF Unrolled
<1>9. Stable(flow)'
  BY <1>1, <1>8 DEF Stable, EntryStates
<1>10. Kept(flow)'
  BY <1>1, <1>2 DEF Kept, Others
<1> QED BY <1>9, <1>10

\* The convergence test makes the current flow an invariant of the loop.
LEMMA LfpConvergeStep ==
    IInv /\ LfpConverge =>
        Stable(flow)' /\ Kept(flow)' /\ (Ahead(flow_init) \subseteq Gamma(flow.tmap["cur"]))'
<1> SUFFICES ASSUME IInv, LfpConverge
             PROVE  Stable(flow)' /\ Kept(flow)'
                    /\ (Ahead(flow_init) \subseteq Gamma(flow.tmap["cur"]))'
  OBVIOUS
<1> DEFINE f == SetReport(flow_init.report, Remove({"continue", "break"}, flow))
           g == Join(Iterate(f), flow_init)
<1>1. /\ TypeOK /\ Unrolled(flow_init) /\ Kept(flow_init)
      /\ EnvLeq(g.tmap["cur"], flow.tmap["cur"])
      /\ flow' = g /\ flow_out' = flow_out /\ flow_init' = flow_init
      /\ loop' = loop /\ flow_in' = flow_in
  BY DEF IInv, LfpConverge, Converged, LfpIterate
<1>2. f \in Flow /\ f.tmap["cur"] = flow.tmap["cur"]
  BY <1>1, ResetType DEF TypeOK, Flow
<1>3. /\ Iterate(f) \in Flow /\ g \in Flow
      /\ \A x \in Gamma(f.tmap["cur"]) : NextHeads(loop, x) \subseteq Gamma(Iterate(f).tmap["cur"])
      /\ Gamma(Iterate(f).tmap["cur"]) \subseteq Gamma(g.tmap["cur"])
      /\ Gamma(flow_init.tmap["cur"]) \subseteq Gamma(g.tmap["cur"])
  BY <1>1, <1>2, IterateSound, JoinUpper, TokenAssumption DEF TypeOK
<1>4. Gamma(g.tmap["cur"]) \subseteq Gamma(f.tmap["cur"]) /\ Gamma(f.tmap["cur"]) \in SUBSET State
  BY <1>1, <1>2, <1>3, LatticeAssumption, TokenAssumption DEF Flow
<1> HIDE DEF f, g
<1>5. Ahead(flow_init) \subseteq Gamma(f.tmap["cur"])
  <2>1. Closed(loop, Gamma(f.tmap["cur"]))
    BY <1>3, <1>4 DEF Closed
  <2>2. Gamma(flow_init.tmap["cur"]) \subseteq Gamma(f.tmap["cur"])
    BY <1>3, <1>4
  <2> QED BY <1>4, <2>1, <2>2, HeadsLeast DEF Ahead
<1>6. Stable(g) /\ Kept(g) /\ Ahead(flow_init) \subseteq Gamma(g.tmap["cur"])
  BY <1>1, <1>2, <1>5, StableStep DEF g
<1> QED BY <1>1, <1>6 DEF Stable, Kept, Ahead, EntryStates

\* A decreasing iteration from an invariant gives an invariant.
LEMMA DecrStep == IInv /\ DecrIteration => Stable(flow)' /\ Kept(flow)'
<1> SUFFICES ASSUME IInv, DecrIteration PROVE Stable(flow)' /\ Kept(flow)'
  OBVIOUS
<1> DEFINE f == SetReport({}, Remove({"continue", "break"}, flow))
           g == Join(Iterate(f), flow_init)
<1>1. /\ TypeOK /\ Unrolled(flow_init) /\ Kept(flow_init)
      /\ Ahead(flow_init) \subseteq Gamma(flow.tmap["cur"])
      /\ flow' = g /\ flow_out' = flow_out /\ loop' = loop /\ flow_in' = flow_in
  BY DEF IInv, DecrIteration, DecrIterate
<1>2. f \in Flow /\ f.tmap["cur"] = flow.tmap["cur"]
  BY <1>1, ResetType DEF TypeOK, Flow
<1>3. Stable(g) /\ Kept(g)
  BY <1>1, <1>2, StableStep
<1> HIDE DEF g
<1> QED BY <1>1, <1>3 DEF Stable, Kept, EntryStates

\* Leaving the loop from a stable flow gives a sound result.
LEMMA ExitStep == IInv /\ Exit => Soundness' /\ EnclosingFlowKept'
<1> SUFFICES ASSUME IInv, Exit PROVE Soundness' /\ EnclosingFlowKept'
  OBVIOUS
<1> DEFINE ex == Exec("assume_not", flow)
           res0 == Join(flow_out, ex)
<1>1. /\ TypeOK /\ Stable(flow) /\ Kept(flow)
      /\ loop' = loop /\ flow_in' = flow_in /\ pc' = "done"
      /\ result' = Set("continue", flow_in.tmap["continue"],
                      Set("break", flow_in.tmap["break"],
                          Add("cur", res0.tmap["break"], res0)))
  BY DEF IInv, Exit
<1>2. /\ ex \in Flow /\ flow.report \subseteq ex.report
      /\ \A tk \in Token \ {"cur"} : Gamma(flow.tmap[tk]) \subseteq Gamma(ex.tmap[tk])
      /\ \A x \in Gamma(flow.tmap["cur"]) : Exited(loop, x, ex)
  BY <1>1, ExecSound DEF TypeOK, Stmts, Exited
<1>3. /\ res0 \in Flow /\ BelowExit(flow_out, res0) /\ BelowExit(ex, res0)
      /\ \A tk \in Token : Gamma(ex.tmap[tk]) \subseteq Gamma(res0.tmap[tk])
  BY <1>1, <1>2, JoinUpper DEF TypeOK, BelowExit
<1>4. BelowOut(flow, res0)
  BY <1>2, <1>3 DEF BelowOut, BelowExit
<1> HIDE DEF ex, res0
<1>5. /\ Gamma(res0.tmap["cur"]) \subseteq Gamma(result'.tmap["cur"])
      /\ Gamma(res0.tmap["break"]) \subseteq Gamma(result'.tmap["cur"])
      /\ \A tk \in Others : result'.tmap[tk] = res0.tmap[tk]
      /\ result'.tmap["break"] = flow_in.tmap["break"]
      /\ result'.tmap["continue"] = flow_in.tmap["continue"]
      /\ result'.report = res0.report
  BY <1>1, <1>3, LatticeAssumption, TokenAssumption DEF Set, Add, Flow, Others
<1>6. ASSUME NEW h \in Heads(loop, EntryStates)
      PROVE  SoundExit(h)' /\ SoundEscape(h)' /\ SoundAlarms(h)'
  <2>1. h \in State
    BY DEF Heads
  <2>2. Escaped(loop, h, res0)
    BY <2>1, <1>1, <1>4, EscapedGrows DEF Stable, TypeOK
  <2>3. Exited(loop, h, res0)
    <3>1. CASE h \in Gamma(flow.tmap["cur"])
      BY <3>1, <2>1, <1>1, <1>2, <1>3, ExitedGrows DEF TypeOK
    <3>2. CASE Exited(loop, h, flow_out)
      BY <3>2, <2>1, <1>1, <1>3, ExitedGrows DEF TypeOK
    <3> QED BY <3>1, <3>2, <1>1 DEF Stable
  <2>4. SoundExit(h)'
    <3>1. \A o \in Sem(loop, "assume_not", h) : o[1] \in Token \ {"break", "continue"}
      BY <2>1, <1>1, SemAssumption DEF TypeOK, Stmts
    <3> QED BY <3>1, <2>3, <1>1, <1>5 DEF SoundExit, Exited, Others
  <2>5. SoundEscape(h)'
    <3>1. \A o \in Escapes(loop, h) : o[1] \in Token \ {"cur", "continue"}
      BY <2>1, <1>1, EscapesType DEF TypeOK
    <3> QED BY <3>1, <2>2, <1>1, <1>5 DEF SoundEscape, Escaped, Others
  <2>6. SoundAlarms(h)'
    BY <2>2, <2>3, <1>1, <1>5 DEF SoundAlarms, Escaped, Exited
  <2> QED BY <2>4, <2>5, <2>6
<1>7. Soundness'
  BY <1>1, <1>6 DEF Soundness, EntryStates
<1>8. EnclosingFlowKept'
  BY <1>1, <1>4, <1>5, TokenAssumption DEF EnclosingFlowKept, Kept, Others, BelowOut
<1> QED BY <1>7, <1>8

\* Every step preserves the invariant.
LEMMA IInvStep == IInv /\ [Next]_vars => IInv'
<1> SUFFICES ASSUME IInv, [Next]_vars PROVE IInv'
  OBVIOUS
<1>1. TypeOK /\ TypeOK'
  BY TypeStep DEF IInv
<1>2. CASE UnrollExhausted
  BY <1>1, <1>2, UnrollExhaustedStep DEF IInv, UnrollExhausted, Soundness, EnclosingFlowKept
<1>3. CASE UnrollStable
  BY <1>1, <1>3, UnrollStableStep DEF IInv, UnrollStable, Soundness, EnclosingFlowKept
<1>4. CASE UnrollMore
  BY <1>1, <1>4, UnrollMoreStep DEF IInv, UnrollMore, Soundness, EnclosingFlowKept
<1>5. CASE LfpConverge
  <2>1. Stable(flow)' /\ Kept(flow)' /\ (Ahead(flow_init) \subseteq Gamma(flow.tmap["cur"]))'
    BY <1>5, LfpConvergeStep
  <2>2. (Unrolled(flow_init) /\ Kept(flow_init))'
    BY <1>5, InitKept DEF IInv, LfpConverge
  <2> QED BY <1>1, <1>5, <2>1, <2>2 DEF IInv, LfpConverge, Soundness, EnclosingFlowKept
<1>6. CASE LfpWiden
  <2>1. (Unrolled(flow_init) /\ Kept(flow_init))'
    BY <1>6, InitKept DEF IInv, LfpWiden
  <2> QED BY <1>1, <1>6, <2>1 DEF IInv, LfpWiden, Soundness, EnclosingFlowKept
<1>7. CASE LfpDelay
  <2>1. (Unrolled(flow_init) /\ Kept(flow_init))'
    BY <1>7, InitKept DEF IInv, LfpDelay
  <2> QED BY <1>1, <1>7, <2>1 DEF IInv, LfpDelay, Soundness, EnclosingFlowKept
<1>8. CASE DecrIteration
  BY <1>1, <1>8, DecrStep DEF IInv, DecrIteration, Soundness, EnclosingFlowKept
<1>9. CASE Exit
  BY <1>1, <1>9, ExitStep DEF IInv, Exit
<1>10. CASE UNCHANGED vars
  BY <1>1, <1>10, StutterKept DEF IInv, vars, Soundness, EnclosingFlowKept, SoundExit,
     SoundEscape, SoundAlarms, EntryStates
<1> QED BY <1>2, <1>3, <1>4, <1>5, <1>6, <1>7, <1>8, <1>9, <1>10 DEF Next

\* The invariant holds in every reachable state.
LEMMA Invariance == Spec => []IInv
BY InitIInv, IInvStep, PTL DEF Spec

\* THEOREM LoopSoundness: every state in which a concrete execution leaves
\* the loop is in the flow that S_while's handler returns, and every alarm
\* of an iteration is in its report (loops.ml, exec on S_while).
THEOREM LoopSoundness == Spec => []Soundness
<1>1. IInv => Soundness
  BY DEF IInv
<1> QED BY <1>1, Invariance, PTL

\* THEOREM LoopKeepsEnclosingFlow: the handler gives back the break and
\* continue flows of the enclosing loop and loses no other flow or alarm.
THEOREM LoopKeepsEnclosingFlow == Spec => []EnclosingFlowKept
<1>1. IInv => EnclosingFlowKept
  BY DEF IInv
<1> QED BY <1>1, Invariance, PTL
===============================================================================
