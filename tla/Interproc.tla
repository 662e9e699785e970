------------------------------- MODULE Interproc -------------------------------
(***************************************************************************)
(* Function calls by inlining (languages/universal/iterators/interproc):   *)
(* init_fun_params names the parameters and locals of the callee, binds    *)
(* the arguments and pushes the call site; exec_fun_body runs the body on  *)
(* a flow without return flows, then turns every return flow of the callee *)
(* into the value of the call; a call that recurses too deep is ignored.   *)
(* Parameters outlive the call, up to the end of the caller's statement.   *)
(*                                                                         *)
(* The abstract environments are sets of stores, so that the analysis is   *)
(* exact and what goes wrong is due to the calls.  Each store travels with *)
(* the execution it stands for: the input it started from, the true        *)
(* variables of each live frame, and the true value being returned.        *)
(* The return flows of one body are merged: each becomes a case of the     *)
(* call, and the cases are joined at the end of the statement.  Reading a  *)
(* variable that the store lost stops the analyzer, and is left out.       *)
(***************************************************************************)
EXTENDS Naturals, Sequences, SequencesExt, FiniteSets, Functions

CONSTANTS
    Programs,   \* functions from names to [params, locals, body]; the locals of
                \* main are the globals
    Inputs,     \* initial values of the globals
    Limits,     \* values of -recursion-limit
    MaxValue,   \* values are the naturals up to MaxValue
    None        \* no variable, no renaming

ASSUME ValuesAssumption == MaxValue \in Nat

ASSUME LimitsAssumption == Limits \subseteq Nat

Owned(p, f) == Range(p[f].params) \union p[f].locals
IsCall(stmt) == stmt.op \in {"call", "return_call"}
StmtsOf(p) == UNION {Range(p[f].body) : f \in DOMAIN p}
CallsOf(p) == {stmt.call : stmt \in {st \in StmtsOf(p) : IsCall(st)}}
Ranges(p) == {c.range : c \in CallsOf(p)}
Reads(stmt) ==
    IF IsCall(stmt) THEN {stmt.plus.var} \union {stmt.call.args[i].var : i \in DOMAIN stmt.call.args}
    ELSE {stmt.expr.var}
Writes(stmt) == IF stmt.op \in {"assign", "call"} THEN {stmt.var} ELSE {}

\* A statement uses the variables of its function and globals, and reads a
\* local only after a statement that sets it.
WellScoped(p, f) ==
    \A k \in DOMAIN p[f].body :
        LET set == UNION {Writes(p[f].body[j]) : j \in 1..(k - 1)}
            globals == p["main"].locals
        IN /\ Writes(p[f].body[k]) \subseteq Owned(p, f) \union globals
           /\ Reads(p[f].body[k]) \subseteq Range(p[f].params) \union set \union globals \union {None}

(***************************************************************************)
(* Programs as the frontends give them, with direct calls whose value is   *)
(* used: a variable belongs to one function; the range of a call tells     *)
(* which function it calls, and no variable has its name; the body of a    *)
(* function but main ends by returning, or the return variable could be    *)
(* read without having been set.                                           *)
(***************************************************************************)
ASSUME ProgramsAssumption ==
    \A p \in Programs :
        /\ "main" \in DOMAIN p /\ p["main"].params = << >>
        /\ \A f \in DOMAIN p :
              /\ p[f].params \in Seq(Owned(p, f)) /\ p[f].body \in Seq(StmtsOf(p))
              /\ IsInjective(p[f].params) /\ Range(p[f].params) \intersect p[f].locals = {}
              /\ \A g \in DOMAIN p \ {f} : Owned(p, f) \intersect Owned(p, g) = {}
              /\ WellScoped(p, f)
              /\ f # "main" => /\ p[f].body # << >>
                                /\ p[f].body[Len(p[f].body)].op \in {"return", "return_call"}
              /\ Owned(p, f) \intersect Ranges(p) = {}
              /\ LET words == Owned(p, f) \union Ranges(p)
                 IN None \notin words \union (words \X (Ranges(p) \union {None}))
        /\ \A c \in CallsOf(p) :
              /\ c.fun \in DOMAIN p \ {"main"} /\ DOMAIN c.args = DOMAIN p[c.fun].params
              /\ \A d \in CallsOf(p) : c.range = d.range => c.fun = d.fun

VARIABLES
    prog,      \* the program analysed
    limit,     \* -recursion-limit
    flow,      \* the current flow: [cur, returns, other], sets of stores
    calls,     \* live activations, innermost last
    callstack, \* the callstack of the context, innermost first
    history    \* "apart" until a call is made that renaming may not tell apart
               \* from a live one, then "reentered"; "ignored" once a call was

vars == <<prog, limit, flow, calls, callstack, history>>

Val == 0..MaxValue
Plus(a, b) == (a + b) % (MaxValue + 1)
Minus(a, b) == IF a >= b THEN a - b ELSE 0

Bind(f, k, v) == [x \in DOMAIN f \union {k} |-> IF x = k THEN v ELSE f[x]]
Without(f, ks) == Restrict(f, DOMAIN f \ ks)

\* The name of a variable in an activation: globals are never renamed.
Globals == prog["main"].locals
Name(v, tag) == <<v, IF v \in Globals THEN None ELSE tag>>
Frame(v, real) == IF v \in Globals THEN 1 ELSE Len(real)
SetReal(real, v, value) == [real EXCEPT ![Frame(v, real)] = Bind(@, v, value)]

\* Expressions: e.var - e.less, or the constant e.less.
Eval(e, store, tag) ==
    IF e.var = None THEN e.less ELSE Minus(store[Name(e.var, tag)], e.less)
RealEval(e, real) ==
    IF e.var = None THEN e.less ELSE Minus(real[Frame(e.var, real)][e.var], e.less)

\* mk_return: the variable of a call is named after the call as it stands in
\* the body of the caller, which may have been renamed.
ReturnVar(call, tag) ==
    <<call.range, IF \E i \in DOMAIN call.args : call.args[i].var # None THEN tag ELSE None>>

Top == calls[Len(calls)]
Body == prog[Top.fun].body
AtEnd == Top.pc > Len(Body)
StmtOf(c) == prog[c.fun].body[c.pc]
Stmt == StmtOf(Top)
AtStmt(op) == ~AtEnd /\ Stmt.op = op

Activation(fun, pc, site, tag, ret, saved) ==
    [fun |-> fun, pc |-> pc, site |-> site, tag |-> tag, ret |-> ret, saved |-> saved]
Advance(cs) ==
    LET c == cs[Len(cs)]
    IN [cs EXCEPT ![Len(cs)] = Activation(c.fun, c.pc + 1, c.site, c.tag, c.ret, c.saved)]

Init ==
    /\ prog \in Programs /\ limit \in Limits
    /\ flow = [cur     |-> {[from |-> n, val |-> 0,
                             store |-> [x \in {<<v, None>> : v \in Globals} |-> n],
                             real  |-> <<[v \in Globals |-> n]>>] : n \in Inputs},
               returns |-> {}, other |-> {}]
    /\ calls = <<Activation("main", 1, None, None, None, {})>>
    /\ callstack = << >>
    /\ history = "apart"

-----------------------------------------------------------------------------
\* Statements without calls.

Assigned(s) ==
    [s EXCEPT !.store = Bind(@, Name(Stmt.var, Top.tag), Eval(Stmt.expr, s.store, Top.tag)),
              !.real = SetReal(@, Stmt.var, RealEval(Stmt.expr, @))]

Assign ==
    /\ AtStmt("assign")
    /\ flow' = [flow EXCEPT !.cur = {Assigned(s) : s \in @}]
    /\ calls' = Advance(calls)
    /\ UNCHANGED <<prog, limit, callstack, history>>

\* S_return (Some e), under "if e = 0" or not.
Returning == {s \in flow.cur :
    Stmt.op = "return_if_zero" => Eval(Stmt.expr, s.store, Top.tag) = 0}

Returned(s) ==
    [s EXCEPT !.store = Bind(@, Top.ret, Eval(Stmt.expr, s.store, Top.tag)),
              !.val = RealEval(Stmt.expr, s.real)]

Return ==
    /\ AtStmt("return") \/ AtStmt("return_if_zero")
    /\ flow' = [flow EXCEPT !.cur = @ \ Returning,
                            !.returns = @ \union {Returned(s) : s \in Returning}]
    /\ calls' = Advance(calls)
    /\ UNCHANGED <<prog, limit, callstack, history>>

\* Any statement that leaves on another token, an exception for instance.
EscapeIfZero ==
    /\ AtStmt("escape_if_zero")
    /\ LET gone == {s \in flow.cur : Eval(Stmt.expr, s.store, Top.tag) = 0}
       IN flow' = [flow EXCEPT !.cur = @ \ gone, !.other = @ \union gone]
    /\ calls' = Advance(calls)
    /\ UNCHANGED <<prog, limit, callstack, history>>

-----------------------------------------------------------------------------
\* Calls: x = e + f(args), and return e + f(args), e without calls.

AtCall == AtStmt("call") \/ AtStmt("return_call")
Callee == prog[Stmt.call.fun]
Site == [fun |-> Stmt.call.fun, range |-> Stmt.call.range]
Pushed == <<Site>> \o callstack

\* Renaming goes by the range of the call, and leaves out parameterless functions.
Reentrant ==
    \E i \in DOMAIN calls :
        calls[i].site = Site \/ (calls[i].fun = Stmt.call.fun /\ Callee.params = << >>)

Occurrences(site, cs) == {i \in DOMAIN cs : cs[i] = site}

\* Fault: one nested call too many is accepted.
CheckRecursionLate(site, cs) == Cardinality(Occurrences(site, cs)) > limit + 1

CheckRecursion(site, cs) == Cardinality(Occurrences(site, cs)) > limit

CheckNestedCalls(f, cs) == \E i \in 2..Len(cs) : cs[i].fun = f

\* Fault: recursive calls are not detected by the renaming.
NeverRenamed(call, cs) == None

\* The renaming of the callee: none, or after the range of the call.
CalleeTag(call, cs) ==
    IF prog[call.fun].params # << >> /\ CheckNestedCalls(call.fun, cs) THEN call.range ELSE None

Params(f, tag) == {<<prog[f].params[i], tag>> : i \in DOMAIN prog[f].params}
LocalVars(f, tag) == {<<v, tag>> : v \in prog[f].locals}

\* init_fun_params: the assignments are done one after the other.
BoundParams(store, call, tag) ==
    LET params == prog[call.fun].params
        bound[i \in 0..Len(params)] ==
            IF i = 0 THEN store
            ELSE Bind(bound[i - 1], <<params[i], tag>>, Eval(call.args[i], bound[i - 1], Top.tag))
    IN bound[Len(params)]

RealParams(real, call) ==
    LET params == prog[call.fun].params
        arg(p) == call.args[CHOOSE i \in DOMAIN params : params[i] = p]
    IN [p \in Range(params) |-> RealEval(arg(p), real)]

InitFunParams(s, call, tag) ==
    [s EXCEPT !.store = BoundParams(@, call, tag), !.real = Append(@, RealParams(@, call))]

(***************************************************************************)
(* The end of the caller's statement: the value of the call, held by the   *)
(* variable ret in each store of results, is used, then the cleaners       *)
(* remove ret and the parameters of the callee from every token.           *)
(***************************************************************************)
Used(s, caller, ret) ==
    LET stmt  == StmtOf(caller)
        value == Plus(Eval(stmt.plus, s.store, caller.tag), s.store[ret])
        real  == Plus(RealEval(stmt.plus, s.real), s.val)
    IN IF stmt.op = "return_call"
       THEN [s EXCEPT !.store = Bind(@, caller.ret, value), !.val = real]
       ELSE [s EXCEPT !.store = Bind(@, Name(stmt.var, caller.tag), value),
                      !.val = 0, !.real = SetReal(@, stmt.var, real)]

Clean(s, names) == [s EXCEPT !.store = Without(@, names)]

Completed(caller, results, ret, tag, returns, other) ==
    LET stmt  == StmtOf(caller)
        names == {ret} \union Params(stmt.call.fun, tag)
        used  == {Clean(Used(s, caller, ret), names) : s \in results}
    IN [cur     |-> IF stmt.op = "return_call" THEN {} ELSE used,
        returns |-> {Clean(s, names) : s \in returns}
                    \union (IF stmt.op = "return_call" THEN used ELSE {}),
        other   |-> {Clean(s, names) : s \in other}]

\* T_cur is at bottom.
CallUnreachable ==
    /\ AtCall /\ flow.cur = {}
    /\ calls' = Advance(calls)
    /\ UNCHANGED <<prog, limit, flow, callstack, history>>

\* exec_fun_body, up to the body.
Enter ==
    /\ AtCall /\ flow.cur # {} /\ ~CheckRecursion(Site, Pushed)
    /\ LET tag == CalleeTag(Stmt.call, Pushed)
       IN /\ flow' = [cur |-> {InitFunParams(s, Stmt.call, tag) : s \in flow.cur},
                      returns |-> {}, other |-> flow.other]
          /\ calls' = Append(calls, Activation(Stmt.call.fun, 1, Site, tag,
                                               ReturnVar(Stmt.call, Top.tag), flow.returns))
    /\ callstack' = Pushed
    /\ history' = IF history = "apart" /\ Reentrant THEN "reentered" ELSE history
    /\ UNCHANGED <<prog, limit>>

AnyResult(s, call, tag, v) ==
    [InitFunParams(s, call, tag) EXCEPT
        !.store = Bind(@, ReturnVar(call, Top.tag), v), !.real = Front(@), !.val = v]

\* A call past the limit returns any value and has no effect.
Ignore ==
    /\ AtCall /\ flow.cur # {} /\ CheckRecursion(Site, Pushed)
    /\ LET tag == CalleeTag(Stmt.call, Pushed)
       IN flow' = Completed(Top, {AnyResult(s, Stmt.call, tag, v) : s \in flow.cur, v \in Val},
                            ReturnVar(Stmt.call, Top.tag), tag, flow.returns, flow.other)
    /\ callstack' = Pushed
    /\ history' = "ignored"
    /\ calls' = Advance(calls)
    /\ UNCHANGED <<prog, limit>>

Popped(s) ==
    [s EXCEPT !.store = Without(@, LocalVars(Top.fun, Top.tag)), !.real = Front(@)]

\* Fault: the return flows of the caller are lost with those of the callee.
LeaveForgets ==
    /\ AtEnd /\ Len(calls) > 1
    /\ flow' = Completed(calls[Len(calls) - 1], {Popped(s) : s \in flow.cur \union flow.returns},
                         Top.ret, Top.tag, {}, flow.other)
    /\ callstack' = Tail(callstack)
    /\ calls' = Advance(Front(calls))
    /\ UNCHANGED <<prog, limit, history>>

\* Fault: the parameters are removed with the locals, and nothing else later.
LeaveKeepsParams ==
    /\ AtEnd /\ Len(calls) > 1
    /\ flow' = Completed(calls[Len(calls) - 1], {Popped(s) : s \in flow.cur \union flow.returns},
                         Top.ret, Top.fun, Top.saved, flow.other)
    /\ callstack' = Tail(callstack)
    /\ calls' = Advance(Front(calls))
    /\ UNCHANGED <<prog, limit, history>>

\* Fault: the callstack is not restored.
LeaveUnpopped ==
    /\ AtEnd /\ Len(calls) > 1
    /\ flow' = Completed(calls[Len(calls) - 1], {Popped(s) : s \in flow.cur \union flow.returns},
                         Top.ret, Top.tag, Top.saved, flow.other)
    /\ calls' = Advance(Front(calls))
    /\ UNCHANGED <<prog, limit, callstack, history>>

\* exec_fun_body, from the end of the body.
Leave ==
    /\ AtEnd /\ Len(calls) > 1
    /\ flow' = Completed(calls[Len(calls) - 1], {Popped(s) : s \in flow.cur \union flow.returns},
                         Top.ret, Top.tag, Top.saved, flow.other)
    /\ callstack' = Tail(callstack)
    /\ calls' = Advance(Front(calls))
    /\ UNCHANGED <<prog, limit, history>>

Next == Assign \/ Return \/ EscapeIfZero \/ CallUnreachable \/ Enter \/ Ignore \/ Leave

Spec == Init /\ [][Next]_vars

-----------------------------------------------------------------------------

Stores == flow.cur \union flow.returns \union flow.other

Holds(store, x, v) == x \in DOMAIN store /\ store[x] = v

\* The renaming of variables keeps live activations of a function apart: under
\* the name that its activation gave it, each variable holds its true value,
\* whatever the other activations did; and a returned value is the true one.
FramesTrue ==
    /\ \A s \in flow.cur : \A i \in DOMAIN calls : \A v \in DOMAIN s.real[i] :
          Holds(s.store, <<v, calls[i].tag>>, s.real[i][v])
    /\ \A s \in flow.returns : Holds(s.store, Top.ret, s.val)

\* So it does as long as no call site is live twice and no function without
\* parameters is.
FramesTrueApart == history = "apart" => FramesTrue

\* Where the analysis keeps the stores of the executions under way.
Places ==
    {<<"cur", 0, s>> : s \in flow.cur} \union {<<"returns", 0, s>> : s \in flow.returns}
    \union {<<"other", 0, s>> : s \in flow.other}
    \union UNION {{<<"saved", i, s>> : s \in calls[i].saved} : i \in DOMAIN calls}

\* Each execution is in exactly one place: none is lost when a callee
\* replaces the return flows of its caller, none is taken back from there.
\* An ignored call makes several of one execution, and still loses none.
PathsOnce ==
    \A n \in Inputs :
        LET places == {p \in Places : p[3].from = n}
        IN IF history = "ignored" THEN places # {} ELSE Cardinality(places) = 1

\* The callstack that alarms are given is the list of the live calls.
CallstackTrue ==
    callstack = Reverse([i \in 1..(Len(calls) - 1) |-> calls[i + 1].site])

\* So it is until a call is ignored.
CallstackTrueBefore == history # "ignored" => CallstackTrue

\* When main ends nothing is left of the calls it made, ignored ones included.
NothingLeft ==
    AtEnd /\ Len(calls) = 1 =>
        \A s \in flow.cur : DOMAIN s.store = {<<v, None>> : v \in Globals}

\* No call site is ever inlined more than -recursion-limit times in itself,
\* whatever ignored calls did to the callstack: the analysis of recursive
\* functions without a base case ends.
DepthBounded ==
    \A i \in 2..Len(calls) :
        Cardinality({j \in 2..Len(calls) : calls[j].site = calls[i].site}) <= limit
===============================================================================
