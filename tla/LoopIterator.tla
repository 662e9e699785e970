----------------------------- MODULE LoopIterator -----------------------------
(***************************************************************************)
(* The fixpoint engine for S_while(cond, body)                             *)
(* (languages/universal/iterators/loops.ml): unrolling, increasing         *)
(* iteration with delayed widening, optional decreasing iteration, exit.   *)
(*                                                                         *)
(* man.exec on the condition, its negation and the body is a parameter:    *)
(* Transfer(l, s, e) is what one statement adds to each token from the     *)
(* current environment e, and the alarms it reports.  Its only obligation  *)
(* is to cover the concrete semantics Sem and Errors of that statement;    *)
(* it need not be monotone, and the body may itself be a loop.  Conditions  *)
(* may leave on other tokens (an exception) but neither break nor continue.*)
(***************************************************************************)
EXTENDS Flows, Integers

CONSTANTS
    Loops,               \* the S_while statements
    Sem(_, _, _),        \* Sem(l, s, x): pairs <<token, state>> s reaches from x
    Errors(_, _, _),     \* Errors(l, s, x): alarms s must report from x
    Transfer(_, _, _),   \* Transfer(l, s, e): [out : [Token -> Env], report]
    Options,             \* [unroll, delay, decr]: the -loop-* options
    InFlows              \* flows that may reach the statement

Stmts == {"assume", "body", "assume_not"}

\* -1 stands for -loop-full-unrolling (None in the code).
Full == -1

ASSUME TokenAssumption == {"cur", "break", "continue"} \subseteq Token

ASSUME OptionsAssumption ==
    Options \subseteq [unroll : Nat \union {Full}, delay : Nat, decr : BOOLEAN]

ASSUME InFlowsAssumption == InFlows \subseteq Flow

ASSUME SemAssumption ==
    \A l \in Loops, s \in Stmts, x \in State :
        /\ Sem(l, s, x) \subseteq Token \X State
        /\ s # "body" => \A o \in Sem(l, s, x) : o[1] \notin {"break", "continue"}

ASSUME TransferAssumption ==
    \A l \in Loops, s \in Stmts, e \in Env :
        /\ Transfer(l, s, e) \in [out : [Token -> Env], report : SUBSET Alarm]
        /\ \A x \in Gamma(e) :
             /\ \A o \in Sem(l, s, x) : o[2] \in Gamma(Transfer(l, s, e).out[o[1]])
             /\ Errors(l, s, x) \subseteq Transfer(l, s, e).report

VARIABLES
    pc,        \* where the handler is
    loop,      \* the statement being executed
    opts,      \* the options of this analysis
    flow_in,   \* the flow the handler was called with
    flow,      \* argument of the current call of unroll or lfp
    budget,    \* argument i of unroll
    delay,     \* argument delay of lfp
    flow_init, \* second result of unroll, where lfp starts
    flow_out,  \* exits collected while unrolling
    is_fp,     \* unroll found a fixpoint
    result     \* the flow returned

vars == <<pc, loop, opts, flow_in, flow, budget, delay, flow_init, flow_out,
          is_fp, result>>

(***************************************************************************)
(* man.exec: a statement acts on the current environment only and leaves   *)
(* what is already on the other tokens in place.                           *)
(***************************************************************************)
Exec(s, f) ==
    LET r == Transfer(loop, s, f.tmap["cur"])
    IN [tmap |-> [tk \in Token |->
                    IF tk = "cur" THEN r.out[tk] ELSE EnvJoin(r.out[tk], f.tmap[tk])],
        report |-> f.report \union r.report]

\* Fault: the continue flow is dropped instead of merged.
MergeDropsContinue(f) == Remove({"continue"}, f)

MergeCurAndContinue(f) ==
    Remove({"continue"},
           Set("cur", EnvJoin(f.tmap["cur"], f.tmap["continue"]), f))

\* One abstract iteration of the loop from f.
Iterate(f) == MergeCurAndContinue(Exec("body", Exec("assume", f)))

\* What one call of lfp computes before it tests convergence.
LfpIterate ==
    Join(Iterate(SetReport(flow_init.report, Remove({"continue", "break"}, flow))),
         flow_init)

\* Fault: the iterate does not start again from the entry of the loop.
DecrIterateAlone(f) == Iterate(SetReport({}, Remove({"continue", "break"}, f)))

DecrIterate(f) ==
    Join(Iterate(SetReport({}, Remove({"continue", "break"}, f))), flow_init)

-----------------------------------------------------------------------------

Init ==
    /\ loop \in Loops /\ opts \in Options /\ flow_in \in InFlows
    /\ pc = "unroll"
    /\ flow = Remove({"continue", "break"}, flow_in)
    /\ budget = opts.unroll
    /\ delay = opts.delay
    /\ flow_init = BottomFlow({})
    /\ flow_out = BottomFlow({})
    /\ is_fp = FALSE
    /\ result = BottomFlow({})

\* unroll (Some 0)
UnrollExhausted ==
    /\ pc = "unroll" /\ budget = 0
    /\ flow_init' = flow
    /\ flow_out' = Join(flow_out, BottomFlow(flow.report))
    /\ pc' = "lfp"
    /\ UNCHANGED <<loop, opts, flow_in, flow, budget, delay, is_fp, result>>

UnrollStable ==
    /\ pc = "unroll" /\ budget # 0
    /\ Subset(Iterate(flow), flow)
    /\ flow_init' = Iterate(flow)
    /\ flow_out' = Join(flow_out, Exec("assume_not", flow))
    /\ is_fp' = TRUE
    /\ flow' = Iterate(flow)
    /\ pc' = "exit"
    /\ UNCHANGED <<loop, opts, flow_in, budget, delay, result>>

\* Fault: full unrolling counts down like a bounded one.
UnrollMoreCounting ==
    /\ pc = "unroll" /\ budget # 0
    /\ ~Subset(Iterate(flow), flow)
    /\ flow' = Iterate(flow)
    /\ flow_out' = Join(flow_out, Exec("assume_not", flow))
    /\ budget' = budget - 1
    /\ UNCHANGED <<pc, loop, opts, flow_in, delay, flow_init, is_fp, result>>

UnrollMore ==
    /\ pc = "unroll" /\ budget # 0
    /\ ~Subset(Iterate(flow), flow)
    /\ flow' = Iterate(flow)
    /\ flow_out' = Join(flow_out, Exec("assume_not", flow))
    /\ budget' = IF budget = Full THEN Full ELSE budget - 1
    /\ UNCHANGED <<pc, loop, opts, flow_in, delay, flow_init, is_fp, result>>

Converged == EnvLeq(LfpIterate.tmap["cur"], flow.tmap["cur"])

LfpConverge ==
    /\ pc = "lfp" /\ Converged
    /\ flow' = LfpIterate
    /\ pc' = IF opts.decr THEN "decr" ELSE "exit"
    /\ UNCHANGED <<loop, opts, flow_in, budget, delay, flow_init, flow_out,
                   is_fp, result>>

\* Fault: the next iterate is not widened.
LfpNoWiden ==
    /\ pc = "lfp" /\ ~Converged /\ delay = 0
    /\ flow' = LfpIterate
    /\ delay' = opts.delay
    /\ UNCHANGED <<pc, loop, opts, flow_in, budget, flow_init, flow_out, is_fp,
                   result>>

LfpWiden ==
    /\ pc = "lfp" /\ ~Converged /\ delay = 0
    /\ flow' = Widen(flow, LfpIterate)
    /\ delay' = opts.delay
    /\ UNCHANGED <<pc, loop, opts, flow_in, budget, flow_init, flow_out, is_fp,
                   result>>

LfpDelay ==
    /\ pc = "lfp" /\ ~Converged /\ delay # 0
    /\ flow' = LfpIterate
    /\ delay' = delay - 1
    /\ UNCHANGED <<pc, loop, opts, flow_in, budget, flow_init, flow_out, is_fp,
                   result>>

DecrIteration ==
    /\ pc = "decr"
    /\ flow' = DecrIterate(flow)
    /\ pc' = "exit"
    /\ UNCHANGED <<loop, opts, flow_in, budget, delay, flow_init, flow_out,
                   is_fp, result>>

\* Fault: the tokens of the enclosing loop stay merged with those of this one.
ExitKeepsTokens ==
    /\ pc = "exit"
    /\ LET res0 == Join(flow_out, Exec("assume_not", flow))
       IN result' = Add("cur", res0.tmap["break"], res0)
    /\ pc' = "done"
    /\ UNCHANGED <<loop, opts, flow_in, flow, budget, delay, flow_init,
                   flow_out, is_fp>>

\* res0 and res1: leave through the negated condition, then turn the breaks
\* of this loop into normal flow and put back those of the enclosing loop.
Exit ==
    /\ pc = "exit"
    /\ LET res0 == Join(flow_out, Exec("assume_not", flow))
       IN result' = Set("continue", flow_in.tmap["continue"],
                        Set("break", flow_in.tmap["break"],
                            Add("cur", res0.tmap["break"], res0)))
    /\ pc' = "done"
    /\ UNCHANGED <<loop, opts, flow_in, flow, budget, delay, flow_init,
                   flow_out, is_fp>>

Next ==
    \/ UnrollExhausted \/ UnrollStable \/ UnrollMore
    \/ LfpConverge \/ LfpWiden \/ LfpDelay
    \/ DecrIteration \/ Exit

Spec == Init /\ [][Next]_vars

\* The analyzer runs alone and a handler is never suspended: weak fairness
\* of Next, spelled out because Next is disabled exactly when pc = "done"
\* (TLC's ENABLED is too slow on the transfer functions).
FairSpec == Spec /\ (<>[](pc = "done") \/ []<><<Next>>_vars)

-----------------------------------------------------------------------------

TypeOK ==
    /\ pc \in {"unroll", "lfp", "decr", "exit", "done"}
    /\ loop \in Loops /\ opts \in Options /\ flow_in \in InFlows
    /\ {flow, flow_init, flow_out, result} \subseteq Flow
    /\ budget \in Nat \union {Full} /\ delay \in Nat /\ is_fp \in BOOLEAN

(***************************************************************************)
(* The concrete loop.  Heads(l, X) are the states in which an execution    *)
(* entering loop l from X tests the condition: the least set that holds X  *)
(* and what a full iteration, or one cut short by continue, leads to.      *)
(***************************************************************************)
BodyOutcomes(l, x) ==
    UNION {Sem(l, "body", o[2]) : o \in {p \in Sem(l, "assume", x) : p[1] = "cur"}}

NextHeads(l, x) == {o[2] : o \in {p \in BodyOutcomes(l, x) : p[1] \in {"cur", "continue"}}}

Closed(l, X) == \A x \in X : NextHeads(l, x) \subseteq X

Heads(l, X) == {h \in State : \A I \in SUBSET State : X \subseteq I /\ Closed(l, I) => h \in I}

\* Ways out of an iteration that starts in head h, other than the condition.
Escapes(l, h) ==
    {o \in BodyOutcomes(l, h) \union Sem(l, "assume", h) : o[1] \notin {"cur", "continue"}}

IterationErrors(l, h) ==
    Errors(l, "assume", h) \union
    UNION {Errors(l, "body", o[2]) : o \in {p \in Sem(l, "assume", h) : p[1] = "cur"}}

EntryStates == Gamma(flow_in.tmap["cur"])

(***************************************************************************)
(* Soundness of the fixpoint engine: whatever the options, every way a     *)
(* concrete execution may leave the loop (condition false, break, any      *)
(* other token such as return) is in the returned flow, and every alarm a  *)
(* concrete iteration deserves is in the returned report.                  *)
(***************************************************************************)
SoundExit(h) ==
    \A o \in Sem(loop, "assume_not", h) : o[2] \in Gamma(result.tmap[o[1]])

SoundEscape(h) ==
    \A o \in Escapes(loop, h) :
        o[2] \in Gamma(result.tmap[IF o[1] = "break" THEN "cur" ELSE o[1]])

SoundAlarms(h) ==
    IterationErrors(loop, h) \union Errors(loop, "assume_not", h) \subseteq result.report

Soundness ==
    pc = "done" =>
        \A h \in Heads(loop, EntryStates) : SoundExit(h) /\ SoundEscape(h) /\ SoundAlarms(h)

\* The tokens of the enclosing loop come back exactly as they were, flows
\* on other tokens and earlier alarms survive the loop.
EnclosingFlowKept ==
    pc = "done" =>
        /\ result.tmap["break"] = flow_in.tmap["break"]
        /\ result.tmap["continue"] = flow_in.tmap["continue"]
        /\ \A tk \in Token \ {"cur", "break", "continue"} :
             Gamma(flow_in.tmap[tk]) \subseteq Gamma(result.tmap[tk])
        /\ flow_in.report \subseteq result.report

\* Every loop the unrolling limit bounds is analysed in finite time.
Termination == opts.unroll # Full => <>(pc = "done")
===============================================================================
