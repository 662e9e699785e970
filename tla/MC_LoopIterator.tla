--------------------------- MODULE MC_LoopIterator ---------------------------
(***************************************************************************)
(* Every loop over one variable that ranges over 0..MaxValue: a condition  *)
(* is any set of values; the body either assigns a value that depends on   *)
(* the current one, breaks, continues or leaves on another token.          *)
(* The environments are intervals, whose transfer functions are the best   *)
(* ones and whose widening jumps to the extreme values.  Some bodies, as   *)
(* those with a loop inside, are analysed by a function that is not        *)
(* monotone: it swings, and only widening ends the iteration.              *)
(***************************************************************************)
EXTENDS LoopIterator, FiniteSetsExt

CONSTANTS MaxValue, MaxUnroll, MaxDelay, AllowFull

Values == 0..MaxValue

MCEnv == {<<lo, hi>> \in Values \X Values : lo <= hi} \union {<<1, 0>>}
MCBottom == <<1, 0>>
MCGamma(e) == e[1]..e[2]
Alpha(X) == IF X = {} THEN MCBottom ELSE <<Min(X), Max(X)>>
MCLeq(a, b) == MCGamma(a) \subseteq MCGamma(b)
MCJoin(a, b) == Alpha(MCGamma(a) \union MCGamma(b))
MCWiden(a, b) ==
    IF a = MCBottom THEN b
    ELSE IF b = MCBottom THEN a
    ELSE <<IF b[1] < a[1] THEN 0 ELSE a[1], IF b[2] > a[2] THEN MaxValue ELSE a[2]>>

MCToken == {"cur", "break", "continue", "return"}
MCAlarm == {"earlier", "body", "exit"}

MCSteps == [Values -> ({"cur"} \X Values) \union ({"break", "continue", "return"} \X {0})]
MCLoops ==
    [cond : SUBSET Values, step : MCSteps, swings : {FALSE}]
        \union [cond : {Values}, step : MCSteps, swings : {TRUE}]

\* A jump keeps the value of the variable.
Outcome(l, x) == IF l.step[x][1] = "cur" THEN l.step[x] ELSE <<l.step[x][1], x>>

MCSem(l, s, x) ==
    CASE s = "assume"     -> IF x \in l.cond THEN {<<"cur", x>>} ELSE {}
      [] s = "assume_not" -> IF x \in l.cond THEN {} ELSE {<<"cur", x>>}
      [] s = "body"       -> {Outcome(l, x)}

MCErrors(l, s, x) ==
    CASE s = "assume"     -> {}
      [] s = "assume_not" -> IF x = 1 THEN {"exit"} ELSE {}
      [] s = "body"       -> IF x = MaxValue THEN {"body"} ELSE {}

\* What a body that swings adds: high values from low ones and the reverse.
Swing(l, s, e) ==
    IF ~l.swings \/ s # "body" \/ e = MCBottom THEN MCBottom
    ELSE IF e[2] = MaxValue THEN <<0, 1>> ELSE <<1, MaxValue>>

Best(l, s, e, tk) ==
    Alpha({o[2] : o \in {p \in UNION {MCSem(l, s, x) : x \in MCGamma(e)} : p[1] = tk}})

MCTransfer(l, s, e) ==
    [out |-> [tk \in MCToken |->
                MCJoin(Best(l, s, e, tk), IF tk = "cur" THEN Swing(l, s, e) ELSE MCBottom)],
     report |-> UNION {MCErrors(l, s, x) : x \in MCGamma(e)}]

MCOptions ==
    [unroll : (0..MaxUnroll) \union (IF AllowFull THEN {Full} ELSE {}),
     delay : 0..MaxDelay, decr : BOOLEAN]

EntryFlow(cur, outer) ==
    [tmap |-> [tk \in MCToken |-> IF tk = "cur" THEN cur ELSE outer], report |-> {"earlier"}]

MCInFlows ==
    {EntryFlow(<<0, 0>>, MCBottom), EntryFlow(<<1, 1>>, MCBottom),
     EntryFlow(<<1, MaxValue>>, <<1, 1>>)}
===============================================================================
