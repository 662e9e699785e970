--------------------------- MODULE Interproc_proofs ---------------------------
(***************************************************************************)
(* Proofs about function calls, for any programs, inputs and recursion     *)
(* limits.  IInv: the callstack of the analyzer is the live calls, no site *)
(* is inlined too often.  Followed: every execution has a store in one     *)
(* place.  Control: the activations follow the calls of the program.       *)
(* Scoped: the variables that a store may have.  Faithful: as long as the  *)
(* renaming tells live activations apart, their variables have their true  *)
(* values.  Each is inductive with those before it.                        *)
(***************************************************************************)
EXTENDS Interproc, BasicFacts

Shapes ==
    /\ limit \in Nat
    /\ IsSeq(callstack)
    /\ IsSeq(calls) /\ Len(calls) >= 1

\* The callstack is the live calls, innermost first.
StackIsCalls ==
    /\ Len(callstack) = Len(calls) - 1
    /\ \A i \in 2..Len(calls) : callstack[Len(calls) + 1 - i] = calls[i].site

\* The operations on the stacks.
LEMMA FrontFacts ==
  ASSUME NEW s, IsSeq(s), Len(s) >= 1
  PROVE  /\ IsSeq(Front(s)) /\ Len(Front(s)) = Len(s) - 1
         /\ \A i \in 1..(Len(s) - 1) : Front(s)[i] = s[i]
BY PrefixFacts DEF Front

LEMMA TailFacts ==
  ASSUME NEW s, IsSeq(s), Len(s) >= 1
  PROVE  /\ IsSeq(Tail(s)) /\ Len(Tail(s)) = Len(s) - 1
         /\ \A i \in 1..(Len(s) - 1) : Tail(s)[i] = s[i + 1]
<1>1. PICK S : s \in Seq(S)
  BY SeqFacts
<1>2. /\ Tail(s) \in Seq(S) /\ Len(Tail(s)) = Len(s) - 1
      /\ \A i \in 1..(Len(s) - 1) : Tail(s)[i] = s[i + 1]
  BY <1>1
<1>3. IsSeq(Tail(s))
  BY <1>2, SeqIs
<1> QED BY <1>2, <1>3

LEMMA PushFacts ==
  ASSUME NEW s, IsSeq(s), NEW e
  PROVE  /\ IsSeq(<<e>> \o s) /\ Len(<<e>> \o s) = Len(s) + 1
         /\ (<<e>> \o s)[1] = e
         /\ \A i \in 1..Len(s) : (<<e>> \o s)[i + 1] = s[i]
<1>1. PICK S : s \in Seq(S)
  BY SeqFacts
<1>2. s \in Seq(S \union {e}) /\ <<e>> \in Seq(S \union {e})
  BY <1>1
<1>3. <<e>> \o s \in Seq(S \union {e})
  BY <1>2
<1>4. IsSeq(<<e>> \o s)
  BY <1>3, SeqIs
<1> QED BY <1>1, <1>2, <1>4

LEMMA AdvanceFacts ==
  ASSUME NEW cs, IsSeq(cs), Len(cs) >= 1
  PROVE  LET n == Len(cs)
             next == Advance(cs)
         IN /\ IsSeq(next) /\ Len(next) = n
            /\ \A i \in 1..(n - 1) : next[i] = cs[i]
            /\ next[n].fun = cs[n].fun /\ next[n].pc = cs[n].pc + 1 /\ next[n].site = cs[n].site
            /\ next[n].tag = cs[n].tag /\ next[n].ret = cs[n].ret /\ next[n].saved = cs[n].saved
            /\ \A i \in 1..n : next[i].site = cs[i].site
<1> DEFINE n == Len(cs)
           c == cs[n]
           moved == Activation(c.fun, c.pc + 1, c.site, c.tag, c.ret, c.saved)
<1>1. Advance(cs) = [cs EXCEPT ![n] = moved]
  BY DEF Advance
<1>2. /\ moved.fun = c.fun /\ moved.pc = c.pc + 1 /\ moved.site = c.site
      /\ moved.tag = c.tag /\ moved.ret = c.ret /\ moved.saved = c.saved
  BY DEF Activation
<1> HIDE DEF moved
<1>3. /\ IsSeq(Advance(cs)) /\ Len(Advance(cs)) = n /\ Advance(cs)[n] = moved
      /\ \A i \in 1..(n - 1) : Advance(cs)[i] = cs[i]
  <2> DEFINE next == [cs EXCEPT ![n] = moved]
  <2>1. /\ IsSeq(next) /\ Len(next) = n /\ next[n] = moved
        /\ \A i \in 1..(n - 1) : next[i] = cs[i]
    BY ReplaceLastFacts
  <2> QED BY <1>1, <2>1
<1>4. n \in Nat /\ n >= 1
  BY DEF IsSeq
<1> QED BY <1>2, <1>3, <1>4

-----------------------------------------------------------------------------

\* Whatever ignored calls left on the callstack, the live calls are in it, in
\* their order: depth(i) is the place of the i-th.
Embeds(depth, cs, stack) ==
    /\ depth \in [2..Len(cs) -> 1..Len(stack)]
    /\ \A i, j \in 2..Len(cs) : i < j => depth[j] < depth[i]
    /\ \A i \in 2..Len(cs) : stack[depth[i]] = cs[i].site
CallsInStack == \E depth : Embeds(depth, calls, callstack)

\* The inductive invariant.
IInv ==
    /\ Shapes /\ CallsInStack /\ DepthBounded
    /\ history # "ignored" => StackIsCalls

LEMMA InitIInv == Init => IInv
<1> SUFFICES ASSUME Init PROVE IInv
  OBVIOUS
<1>1. /\ Len(callstack) = 0 /\ IsSeq(callstack)
      /\ Len(calls) = 1 /\ IsSeq(calls)
  BY DEF Init, IsSeq
<1>2. Embeds([i \in 2..1 |-> 1], calls, callstack)
  BY <1>1 DEF Embeds
<1> QED BY <1>1, <1>2, LimitsAssumption DEF Init, IInv, Shapes, CallsInStack, DepthBounded, StackIsCalls

\* A statement that is no call moves on and keeps both lists.
LEMMA MoveOn ==
  ASSUME IInv, calls' = Advance(calls), UNCHANGED <<callstack, limit, history>> PROVE IInv'
<1>1. /\ IsSeq(calls') /\ Len(calls') = Len(calls) /\ Len(calls) \in Nat
      /\ \A i \in 2..Len(calls) : calls'[i].site = calls[i].site
  BY AdvanceFacts DEF IInv, Shapes, IsSeq
<1>2. Shapes'
  BY <1>1 DEF IInv, Shapes, IsSeq
<1>3. CallsInStack'
  <2>1. PICK depth : Embeds(depth, calls, callstack)
    BY DEF IInv, CallsInStack
  <2>2. Embeds(depth, calls', callstack')
    BY <1>1, <2>1 DEF Embeds
  <2> QED BY <2>2 DEF CallsInStack
<1>4. DepthBounded'
  <2> SUFFICES ASSUME NEW i \in 2..Len(calls)
               PROVE  Cardinality({j \in 2..Len(calls) : calls'[j].site = calls'[i].site}) <= limit
    BY <1>1 DEF DepthBounded
  <2>1. {j \in 2..Len(calls) : calls'[j].site = calls'[i].site} = {j \in 2..Len(calls) : calls[j].site = calls[i].site}
    BY <1>1
  <2> QED BY <2>1 DEF IInv, DepthBounded
<1>5. (history # "ignored" => StackIsCalls)'
  BY <1>1 DEF IInv, StackIsCalls
<1> QED BY <1>2, <1>3, <1>4, <1>5 DEF IInv

\* A call that is inlined comes on top of both lists.
LEMMA EnterStep == ASSUME IInv, Enter PROVE IInv'
<1> DEFINE n == Len(calls)
           top == calls'[n + 1]
<1>1. /\ IsSeq(calls') /\ Len(calls') = n + 1 /\ n \in Nat /\ n >= 1
      /\ \A i \in 1..n : calls'[i] = calls[i]
      /\ top.site = Site
  <2>1. PICK e : calls' = Append(calls, e) /\ e.site = Site
    BY DEF Enter, Activation
  <2> QED BY <2>1, AppendFacts DEF IInv, Shapes, IsSeq
<1>2. /\ callstack' = Pushed /\ IsSeq(callstack') /\ Len(callstack') = Len(callstack) + 1
      /\ callstack'[1] = Site
      /\ \A i \in 1..Len(callstack) : callstack'[i + 1] = callstack[i]
      /\ Len(callstack) \in Nat
  BY PushFacts DEF IInv, Shapes, Enter, Pushed, IsSeq
<1> HIDE DEF n, top
<1>3. Shapes'
  BY <1>1, <1>2 DEF IInv, Shapes, Enter
<1>4. PICK depth : Embeds(depth, calls, callstack)
  BY DEF IInv, CallsInStack
<1> DEFINE deeper == [i \in 2..(n + 1) |-> IF i = n + 1 THEN 1 ELSE depth[i] + 1]
<1>5. Embeds(deeper, calls', callstack')
  <2>1. \A i \in 2..n : depth[i] \in 1..Len(callstack)
    BY <1>4 DEF Embeds, n
  <2>2. deeper \in [2..(n + 1) -> 1..Len(callstack')]
    BY <1>1, <1>2, <2>1
  <2>3. \A i, j \in 2..(n + 1) : i < j => deeper[j] < deeper[i]
    <3> SUFFICES ASSUME NEW i \in 2..(n + 1), NEW j \in 2..(n + 1), i < j
                 PROVE  deeper[j] < deeper[i]
      OBVIOUS
    <3>1. i \in 2..n /\ deeper[i] = depth[i] + 1
      BY <1>1
    <3>2. depth[i] \in 1..Len(callstack)
      BY <2>1, <3>1
    <3>3. CASE j = n + 1
      <4>1. deeper[j] = 1
        BY <3>3
      <4> HIDE DEF deeper
      <4> QED BY <1>2, <3>1, <3>2, <4>1
    <3>4. CASE j # n + 1
      <4>1. j \in 2..n /\ deeper[j] = depth[j] + 1
        BY <1>1, <3>4
      <4>2. depth[j] < depth[i]
        BY <1>4, <3>1, <4>1 DEF Embeds, n
      <4>3. depth[j] \in 1..Len(callstack)
        BY <2>1, <4>1
      <4> HIDE DEF deeper
      <4> QED BY <1>2, <3>1, <3>2, <4>1, <4>2, <4>3
    <3> QED BY <3>3, <3>4
  <2>4. \A i \in 2..(n + 1) : callstack'[deeper[i]] = calls'[i].site
    <3> TAKE i \in 2..(n + 1)
    <3>1. CASE i = n + 1
      BY <1>1, <1>2, <3>1 DEF top
    <3>2. CASE i # n + 1
      BY <1>1, <1>2, <1>4, <2>1, <3>2 DEF Embeds, n
    <3> QED BY <3>1, <3>2
  <2> QED BY <1>1, <2>2, <2>3, <2>4 DEF Embeds
<1>6. DepthBounded'
  <2> SUFFICES ASSUME NEW i \in 2..(n + 1)
               PROVE  Cardinality({j \in 2..(n + 1) : calls'[j].site = calls'[i].site}) <= limit
    BY <1>1 DEF DepthBounded, Enter
  <2>1. CASE calls'[i].site # Site
    <3>1. i \in 2..n /\ calls'[i].site = calls[i].site
      BY <1>1, <2>1 DEF top
    <3>2. {j \in 2..(n + 1) : calls'[j].site = calls'[i].site} = {j \in 2..n : calls[j].site = calls[i].site}
      BY <1>1, <2>1, <3>1 DEF top
    <3> QED BY <3>1, <3>2 DEF IInv, DepthBounded, n
  <2>2. CASE calls'[i].site = Site
    <3> DEFINE live == {j \in 2..(n + 1) : calls'[j].site = Site}
               places == Occurrences(Site, Pushed)
               place == [j \in live |-> deeper[j]]
    <3>1. IsFiniteSet(places) /\ Cardinality(places) \in Nat
      <4>1. places \subseteq 1..Len(callstack')
        BY <1>2 DEF Occurrences, IsSeq
      <4>2. IsFiniteSet(1..Len(callstack'))
        BY <1>2, FS_Interval
      <4> QED BY <4>1, <4>2, FS_Subset, FS_CardinalityType
    <3>2. place \in Injection(live, places)
      <4>1. \A j \in live : deeper[j] \in 1..Len(callstack') /\ callstack'[deeper[j]] = Site
        BY <1>1, <1>5 DEF Embeds
      <4>2. \A j \in live : deeper[j] \in places
        BY <1>2, <4>1 DEF Occurrences, IsSeq
      <4>3. \A j, k \in live : deeper[j] = deeper[k] => j = k
        <5>1. \A j, k \in 2..(n + 1) : j < k => deeper[k] < deeper[j]
          BY <1>1, <1>5 DEF Embeds
        <5>2. \A j \in live : j \in Int /\ deeper[j] \in Int
          BY <1>1, <4>1
        <5> QED BY <5>1, <5>2
      <4> QED BY <4>2, <4>3 DEF Injection, IsInjective
    <3>3. Cardinality(live) <= Cardinality(places) /\ Cardinality(live) \in Nat
      BY <3>1, <3>2, FS_Injection, FS_CardinalityType
    <3>4. ~(Cardinality(places) > limit)
      BY DEF Enter, CheckRecursion
    <3> QED BY <2>2, <3>1, <3>3, <3>4 DEF IInv, Shapes
  <2> QED BY <2>1, <2>2
<1>7. (history # "ignored" => StackIsCalls)'
  <2> SUFFICES ASSUME history # "ignored" PROVE StackIsCalls'
    BY DEF Enter
  <2>1. /\ Len(callstack) = n - 1
        /\ \A i \in 2..n : callstack[n + 1 - i] = calls[i].site
    BY DEF IInv, StackIsCalls, n
  <2>2. \A i \in 2..(n + 1) : callstack'[n + 2 - i] = calls'[i].site
    <3> TAKE i \in 2..(n + 1)
    <3>1. CASE i = n + 1
      BY <1>1, <1>2, <3>1 DEF top
    <3>2. CASE i # n + 1
      <4>1. i \in 2..n /\ n + 1 - i \in 1..Len(callstack) /\ n + 2 - i = n + 1 - i + 1
        BY <1>1, <2>1, <3>2
      <4>2. callstack'[n + 1 - i + 1] = callstack[n + 1 - i]
        BY <1>2, <4>1
      <4>3. callstack'[n + 2 - i] = callstack[n + 1 - i]
        BY <4>1, <4>2
      <4>4. i \in 1..n
        BY <1>1, <4>1
      <4>5. callstack[n + 1 - i] = calls[i].site /\ calls'[i] = calls[i]
        BY <1>1, <2>1, <4>1, <4>4
      <4> QED BY <4>3, <4>5
    <3> QED BY <3>1, <3>2
  <2> QED BY <1>1, <1>2, <2>1, <2>2 DEF StackIsCalls
<1> QED BY <1>3, <1>5, <1>6, <1>7 DEF IInv, CallsInStack

\* A call that is ignored leaves its site on the callstack.
LEMMA IgnoreStep == ASSUME IInv, Ignore PROVE IInv'
<1>0. calls' = Advance(calls) /\ callstack' = Pushed /\ history' = "ignored" /\ limit' = limit
  BY Zenon DEF Ignore
<1>1. /\ IsSeq(calls') /\ Len(calls') = Len(calls) /\ Len(calls) \in Nat
      /\ \A i \in 2..Len(calls) : calls'[i].site = calls[i].site
  BY <1>0, AdvanceFacts DEF IInv, Shapes, IsSeq
<1>2. /\ IsSeq(callstack') /\ Len(callstack') = Len(callstack) + 1
      /\ \A i \in 1..Len(callstack) : callstack'[i + 1] = callstack[i]
      /\ Len(callstack) \in Nat
  BY <1>0, PushFacts DEF IInv, Shapes, Pushed, IsSeq
<1>3. Shapes'
  BY <1>0, <1>1, <1>2 DEF IInv, Shapes
<1>4. CallsInStack'
  <2>1. PICK depth : Embeds(depth, calls, callstack)
    BY DEF IInv, CallsInStack
  <2> DEFINE deeper == [i \in 2..Len(calls) |-> depth[i] + 1]
  <2>2. \A i \in 2..Len(calls) : depth[i] \in 1..Len(callstack)
    BY <2>1 DEF Embeds
  <2>3. Embeds(deeper, calls', callstack')
    BY <1>1, <1>2, <2>1, <2>2 DEF Embeds
  <2> QED BY <2>3 DEF CallsInStack
<1>5. DepthBounded'
  <2> SUFFICES ASSUME NEW i \in 2..Len(calls)
               PROVE  Cardinality({j \in 2..Len(calls) : calls'[j].site = calls'[i].site}) <= limit
    BY <1>0, <1>1 DEF DepthBounded
  <2>1. {j \in 2..Len(calls) : calls'[j].site = calls'[i].site} = {j \in 2..Len(calls) : calls[j].site = calls[i].site}
    BY <1>1
  <2> QED BY <2>1 DEF IInv, DepthBounded
<1> QED BY <1>0, <1>3, <1>4, <1>5 DEF IInv

\* The end of a call pops the innermost call, and what is on top of the
\* callstack, which the calls that go on do not need.
LEMMA LeaveStep == ASSUME IInv, Leave PROVE IInv'
<1> DEFINE n == Len(calls)
<1>1. /\ IsSeq(calls') /\ Len(calls') = n - 1 /\ n \in Nat /\ n >= 2
      /\ \A i \in 2..(n - 1) : calls'[i].site = calls[i].site
  <2>1. n \in Nat /\ n >= 2 /\ IsSeq(calls)
    BY DEF IInv, Shapes, IsSeq, Leave
  <2>2. /\ IsSeq(Front(calls)) /\ Len(Front(calls)) = n - 1
        /\ \A i \in 1..(n - 1) : Front(calls)[i] = calls[i]
    BY <2>1, FrontFacts
  <2>3. /\ IsSeq(calls') /\ Len(calls') = n - 1
        /\ \A i \in 1..(n - 1) : calls'[i].site = Front(calls)[i].site
    <3>1. Len(Front(calls)) >= 1
      BY <2>1, <2>2
    <3>2. calls' = Advance(Front(calls))
      BY DEF Leave
    <3> QED BY <2>2, <3>1, <3>2, AdvanceFacts
  <2> QED BY <2>1, <2>2, <2>3
<1>2. PICK depth : Embeds(depth, calls, callstack)
  BY DEF IInv, CallsInStack
<1>3. /\ IsSeq(callstack) /\ Len(callstack) \in Nat
      /\ \A i \in 2..n : depth[i] \in 1..Len(callstack)
  BY <1>2 DEF Embeds, IInv, Shapes, IsSeq
<1>4. \A i \in 2..(n - 1) : depth[i] >= 2
  <2>1. \A i \in 2..(n - 1) : depth[n] < depth[i]
    BY <1>1, <1>2 DEF Embeds
  <2> QED BY <1>1, <1>3, <2>1
<1>5. /\ IsSeq(callstack') /\ Len(callstack') = Len(callstack) - 1
      /\ \A i \in 1..(Len(callstack) - 1) : callstack'[i] = callstack[i + 1]
  <2>1. Len(callstack) >= 1
    BY <1>1, <1>3
  <2> QED BY <1>3, <2>1, TailFacts DEF Leave
<1> HIDE DEF n
<1>6. Shapes'
  BY <1>1, <1>5 DEF IInv, Shapes, Leave
<1>7. CallsInStack'
  <2> DEFINE higher == [i \in 2..(n - 1) |-> depth[i] - 1]
  <2>1. higher \in [2..(n - 1) -> 1..Len(callstack')]
    BY <1>1, <1>3, <1>4, <1>5
  <2>2. \A i, j \in 2..(n - 1) : i < j => higher[j] < higher[i]
    BY <1>1, <1>2, <1>3 DEF Embeds, n
  <2>3. \A i \in 2..(n - 1) : callstack'[higher[i]] = calls'[i].site
    <3> TAKE i \in 2..(n - 1)
    <3>1. higher[i] \in 1..(Len(callstack) - 1) /\ higher[i] + 1 = depth[i] /\ i \in 2..n
      BY <1>1, <1>3, <1>4
    <3> QED BY <1>1, <1>2, <1>5, <3>1 DEF Embeds, n
  <2>4. Embeds(higher, calls', callstack')
    BY <1>1, <2>1, <2>2, <2>3 DEF Embeds
  <2> QED BY <2>4 DEF CallsInStack
<1>8. DepthBounded'
  <2> SUFFICES ASSUME NEW i \in 2..(n - 1)
               PROVE  Cardinality({j \in 2..(n - 1) : calls'[j].site = calls'[i].site}) <= limit
    BY <1>1 DEF DepthBounded, Leave
  <2> DEFINE before == {j \in 2..n : calls[j].site = calls[i].site}
             after == {j \in 2..(n - 1) : calls'[j].site = calls'[i].site}
  <2>1. after \subseteq before
    BY <1>1
  <2>2. IsFiniteSet(before)
    <3>1. IsFiniteSet(2..n) /\ before \subseteq 2..n
      BY <1>1, FS_Interval
    <3> QED BY <3>1, FS_Subset
  <2>3. Cardinality(after) <= Cardinality(before) /\ IsFiniteSet(after)
    BY <2>1, <2>2, FS_Subset
  <2>4. Cardinality(before) <= limit
    BY <1>1 DEF IInv, DepthBounded, n
  <2>5. Cardinality(after) \in Nat /\ Cardinality(before) \in Nat /\ limit \in Nat
    BY <2>2, <2>3, FS_CardinalityType DEF IInv, Shapes
  <2> HIDE DEF before, after
  <2>6. Cardinality(after) <= limit
    BY <2>3, <2>4, <2>5
  <2> QED BY <2>6 DEF after
<1>9. (history # "ignored" => StackIsCalls)'
  <2> SUFFICES ASSUME history # "ignored" PROVE StackIsCalls'
    BY DEF Leave
  <2>1. /\ Len(callstack) = n - 1
        /\ \A i \in 2..n : callstack[n + 1 - i] = calls[i].site
    BY DEF IInv, StackIsCalls, n
  <2>2. \A i \in 2..(n - 1) : callstack'[n - i] = calls'[i].site
    <3> TAKE i \in 2..(n - 1)
    <3>1. i \in 2..n /\ n - i \in 1..(Len(callstack) - 1) /\ n - i + 1 = n + 1 - i
      BY <1>1, <2>1
    <3> QED BY <1>1, <1>5, <2>1, <3>1
  <2> QED BY <1>1, <1>5, <2>1, <2>2 DEF StackIsCalls
<1> QED BY <1>6, <1>7, <1>8, <1>9 DEF IInv

LEMMA IInvStep == ASSUME IInv, [Next]_vars PROVE IInv'
<1>1. CASE Assign \/ Return \/ EscapeIfZero \/ CallUnreachable
  <2>1. calls' = Advance(calls) /\ UNCHANGED <<callstack, limit, history>>
    BY <1>1 DEF Assign, Return, EscapeIfZero, CallUnreachable
  <2> QED BY <2>1, MoveOn
<1>2. CASE Enter \/ Ignore \/ Leave
  BY <1>2, EnterStep, IgnoreStep, LeaveStep
<1>3. CASE UNCHANGED vars
  BY <1>3 DEF vars, IInv, Shapes, CallsInStack, Embeds, DepthBounded, StackIsCalls
<1> QED BY <1>1, <1>2, <1>3 DEF Next

\* The callstack in the context, by which alarms, renaming and the recursion
\* limit go, is the list of live calls until a call is ignored.
THEOREM CallstackIsCalls == Spec => []CallstackTrueBefore
<1>1. IInv => CallstackTrueBefore
  <2> SUFFICES ASSUME IInv, history # "ignored" PROVE CallstackTrue
    BY DEF CallstackTrueBefore
  <2> DEFINE n == Len(calls)
             sites == [i \in 1..(n - 1) |-> calls[i + 1].site]
  <2>1. /\ n \in Nat /\ n >= 1 /\ Len(callstack) = n - 1
        /\ \A i \in 2..n : callstack[n + 1 - i] = calls[i].site
        /\ callstack = [i \in 1..(n - 1) |-> callstack[i]]
    BY DEF IInv, Shapes, IsSeq, StackIsCalls
  <2>2. Len(sites) = n - 1
    BY <2>1
  <2>3. Reverse(sites) = [i \in 1..(n - 1) |-> sites[n - 1 - i + 1]]
    <3> HIDE DEF sites
    <3> QED BY <2>2 DEF Reverse
  <2>4. \A i \in 1..(n - 1) : sites[n - 1 - i + 1] = callstack[i]
    <3> TAKE i \in 1..(n - 1)
    <3>1. n - 1 - i + 1 \in 1..(n - 1) /\ n - 1 - i + 2 \in 2..n /\ n + 1 - (n - 1 - i + 2) = i
      BY <2>1
    <3> QED BY <2>1, <3>1
  <2> QED BY <2>1, <2>3, <2>4 DEF CallstackTrue
<1> QED BY <1>1, InitIInv, IInvStep, PTL DEF Spec

\* No call site is inlined in itself more often than -recursion-limit, even
\* when the callstack holds sites of calls that were ignored.
THEOREM RecursionIsCut == Spec => []DepthBounded
<1>1. IInv => DepthBounded
  BY DEF IInv
<1> QED BY <1>1, InitIInv, IInvStep, PTL DEF Spec

-----------------------------------------------------------------------------
(***************************************************************************)
(* The executions.  Every store comes with the execution it stands for.    *)
(***************************************************************************)
IsStore(s) == s = [from |-> s.from, val |-> s.val, store |-> s.store, real |-> s.real]
AllStores == \A p \in Places : IsStore(p[3])

Of(n) == {p \in Places : p[3].from = n}
InOnePlace ==
    \A n \in Inputs : Of(n) # {} /\ (history # "ignored" => \E p \in Places : Of(n) = {p})

-----------------------------------------------------------------------------
(***************************************************************************)
(* The transformations of stores.                                          *)
(***************************************************************************)
\* [s EXCEPT !.store = .., !.val = .., !.real = ..]
Store(s, store, real, val) == [from |-> s.from, val |-> val, store |-> store, real |-> real]

LEMMA StoreFacts ==
  ASSUME NEW s, NEW store, NEW real, NEW val
  PROVE  LET t == Store(s, store, real, val)
         IN IsStore(t) /\ t.from = s.from /\ t.store = store /\ t.real = real /\ t.val = val
BY DEF Store, IsStore

LEMMA SetStore == ASSUME NEW s, IsStore(s), NEW a PROVE [s EXCEPT !.store = a] = Store(s, a, s.real, s.val)
<1> DEFINE r == [from |-> s.from, val |-> s.val, store |-> s.store, real |-> s.real]
<1>1. s = r
  BY DEF IsStore
<1>2. [r EXCEPT !.store = a] = Store(r, a, r.real, r.val)
  BY DEF Store
<1> HIDE DEF r
<1> QED BY <1>1, <1>2

LEMMA SetReals == ASSUME NEW s, IsStore(s), NEW a PROVE [s EXCEPT !.real = a] = Store(s, s.store, a, s.val)
<1> DEFINE r == [from |-> s.from, val |-> s.val, store |-> s.store, real |-> s.real]
<1>1. s = r
  BY DEF IsStore
<1>2. [r EXCEPT !.real = a] = Store(r, r.store, a, r.val)
  BY DEF Store
<1> HIDE DEF r
<1> QED BY <1>1, <1>2

LEMMA SetVal == ASSUME NEW s, IsStore(s), NEW a PROVE [s EXCEPT !.val = a] = Store(s, s.store, s.real, a)
<1> DEFINE r == [from |-> s.from, val |-> s.val, store |-> s.store, real |-> s.real]
<1>1. s = r
  BY DEF IsStore
<1>2. [r EXCEPT !.val = a] = Store(r, r.store, r.real, a)
  BY DEF Store
<1> HIDE DEF r
<1> QED BY <1>1, <1>2

LEMMA SetStoreVal ==
  ASSUME NEW s, IsStore(s), NEW a, NEW b
  PROVE  [s EXCEPT !.store = a, !.val = b] = Store(s, a, s.real, b)
<1> DEFINE t == [s EXCEPT !.store = a]
<1>1. [s EXCEPT !.store = a, !.val = b] = [t EXCEPT !.val = b]
  BY Zenon
<1>2. t = Store(s, a, s.real, s.val)
  BY SetStore
<1> HIDE DEF t
<1>3. IsStore(t) /\ t.from = s.from /\ t.store = a /\ t.real = s.real /\ t.val = s.val
  BY <1>2, StoreFacts
<1>4. [t EXCEPT !.val = b] = Store(t, t.store, t.real, b)
  BY <1>3, SetVal
<1>5. Store(t, a, s.real, b) = Store(s, a, s.real, b)
  BY <1>3 DEF Store
<1> QED BY <1>1, <1>3, <1>4, <1>5

LEMMA SetStoreReals ==
  ASSUME NEW s, IsStore(s), NEW a, NEW b
  PROVE  [s EXCEPT !.store = a, !.real = b] = Store(s, a, b, s.val)
<1> DEFINE t == [s EXCEPT !.store = a]
<1>1. [s EXCEPT !.store = a, !.real = b] = [t EXCEPT !.real = b]
  BY Zenon
<1>2. t = Store(s, a, s.real, s.val)
  BY SetStore
<1> HIDE DEF t
<1>3. IsStore(t) /\ t.from = s.from /\ t.store = a /\ t.real = s.real /\ t.val = s.val
  BY <1>2, StoreFacts
<1>4. [t EXCEPT !.real = b] = Store(t, t.store, b, t.val)
  BY <1>3, SetReals
<1>5. Store(t, a, b, s.val) = Store(s, a, b, s.val)
  BY <1>3 DEF Store
<1> QED BY <1>1, <1>3, <1>4, <1>5

LEMMA AssignedIs ==
  ASSUME NEW s, IsStore(s)
  PROVE  Assigned(s) = Store(s, Bind(s.store, Name(Stmt.var, Top.tag), Eval(Stmt.expr, s.store, Top.tag)),
                             SetReal(s.real, Stmt.var, RealEval(Stmt.expr, s.real)), s.val)
<1> DEFINE st == Bind(s.store, Name(Stmt.var, Top.tag), Eval(Stmt.expr, s.store, Top.tag))
           re == SetReal(s.real, Stmt.var, RealEval(Stmt.expr, s.real))
<1>1. Assigned(s) = [s EXCEPT !.store = st, !.real = re]
  BY Zenon DEF Assigned
<1> HIDE DEF st, re
<1>2. [s EXCEPT !.store = st, !.real = re] = Store(s, st, re, s.val)
  BY SetStoreReals
<1> QED BY <1>1, <1>2 DEF st, re

LEMMA ReturnedIs ==
  ASSUME NEW s, IsStore(s)
  PROVE  Returned(s) = Store(s, Bind(s.store, Top.ret, Eval(Stmt.expr, s.store, Top.tag)), s.real,
                             RealEval(Stmt.expr, s.real))
<1> DEFINE st == Bind(s.store, Top.ret, Eval(Stmt.expr, s.store, Top.tag))
           va == RealEval(Stmt.expr, s.real)
<1>1. Returned(s) = [s EXCEPT !.store = st, !.val = va]
  BY Zenon DEF Returned
<1> HIDE DEF st, va
<1>2. [s EXCEPT !.store = st, !.val = va] = Store(s, st, s.real, va)
  BY SetStoreVal
<1> QED BY <1>1, <1>2 DEF st, va

LEMMA InitFunParamsIs ==
  ASSUME NEW s, IsStore(s), NEW call, NEW tag
  PROVE  InitFunParams(s, call, tag) = Store(s, BoundParams(s.store, call, tag),
                                             Append(s.real, RealParams(s.real, call)), s.val)
<1> DEFINE st == BoundParams(s.store, call, tag)
           re == Append(s.real, RealParams(s.real, call))
<1>1. InitFunParams(s, call, tag) = [s EXCEPT !.store = st, !.real = re]
  BY Zenon DEF InitFunParams
<1> HIDE DEF st, re
<1>2. [s EXCEPT !.store = st, !.real = re] = Store(s, st, re, s.val)
  BY SetStoreReals
<1> QED BY <1>1, <1>2 DEF st, re

LEMMA CleanIs ==
  ASSUME NEW s, IsStore(s), NEW names
  PROVE  Clean(s, names) = Store(s, Without(s.store, names), s.real, s.val)
BY SetStore, Zenon DEF Clean

LEMMA PoppedIs ==
  ASSUME NEW s, IsStore(s)
  PROVE  Popped(s) = Store(s, Without(s.store, LocalVars(Top.fun, Top.tag)), Front(s.real), s.val)
<1> DEFINE st == Without(s.store, LocalVars(Top.fun, Top.tag))
           re == Front(s.real)
<1>1. Popped(s) = [s EXCEPT !.store = st, !.real = re]
  BY Zenon DEF Popped
<1> HIDE DEF st, re
<1>2. [s EXCEPT !.store = st, !.real = re] = Store(s, st, re, s.val)
  BY SetStoreReals
<1> QED BY <1>1, <1>2 DEF st, re

\* The value of a call, in the analysis and in the execution.
CallValue(s, caller, ret) ==
    Plus(Eval(StmtOf(caller).plus, s.store, caller.tag), s.store[ret])
RealValue(s, caller) == Plus(RealEval(StmtOf(caller).plus, s.real), s.val)

LEMMA UsedIs ==
  ASSUME NEW s, IsStore(s), NEW caller, NEW ret
  PROVE  /\ StmtOf(caller).op = "return_call" =>
               Used(s, caller, ret) = Store(s, Bind(s.store, caller.ret, CallValue(s, caller, ret)),
                                            s.real, RealValue(s, caller))
         /\ StmtOf(caller).op # "return_call" =>
               Used(s, caller, ret) =
                  Store(s, Bind(s.store, Name(StmtOf(caller).var, caller.tag), CallValue(s, caller, ret)),
                        SetReal(s.real, StmtOf(caller).var, RealValue(s, caller)), 0)
<1> DEFINE stmt == StmtOf(caller)
           value == CallValue(s, caller, ret)
           real == RealValue(s, caller)
<1>1. CASE stmt.op = "return_call"
  <2> DEFINE st == Bind(s.store, caller.ret, value)
  <2>1. Used(s, caller, ret) = [s EXCEPT !.store = st, !.val = real]
    BY <1>1, Zenon DEF Used, CallValue, RealValue
  <2> HIDE DEF st, real
  <2>2. [s EXCEPT !.store = st, !.val = real] = Store(s, st, s.real, real)
    BY SetStoreVal
  <2> QED BY <1>1, <2>1, <2>2 DEF st, real
<1>2. CASE stmt.op # "return_call"
  <2> DEFINE st == Bind(s.store, Name(stmt.var, caller.tag), value)
             re == SetReal(s.real, stmt.var, real)
             va == 0
  <2>1. Used(s, caller, ret) = [s EXCEPT !.store = st, !.val = va, !.real = re]
    BY <1>2, Zenon DEF Used, CallValue, RealValue
  <2> HIDE DEF st, re, va
  <2> DEFINE t == [s EXCEPT !.store = st, !.val = va]
  <2>2. [s EXCEPT !.store = st, !.val = va, !.real = re] = [t EXCEPT !.real = re]
    BY Zenon
  <2>3. t = Store(s, st, s.real, va)
    BY SetStoreVal
  <2> HIDE DEF t
  <2>4. IsStore(t) /\ t.from = s.from /\ t.store = st /\ t.val = va
    BY <2>3, StoreFacts
  <2>5. [t EXCEPT !.real = re] = Store(t, t.store, re, t.val)
    BY <2>4, SetReals
  <2>6. Store(t, st, re, va) = Store(s, st, re, va)
    BY <2>4 DEF Store
  <2> QED BY <1>2, <2>1, <2>2, <2>4, <2>5, <2>6 DEF st, re, va
<1> QED BY <1>1, <1>2

-----------------------------------------------------------------------------
(***************************************************************************)
(* What the actions do to the flow.                                        *)
(***************************************************************************)
IsFlow == flow = [cur |-> flow.cur, returns |-> flow.returns, other |-> flow.other]

LEMMA FlowExcept ==
  ASSUME IsFlow, NEW c
  PROVE  LET f == [flow EXCEPT !.cur = c]
         IN f = [cur |-> c, returns |-> flow.returns, other |-> flow.other]
<1> DEFINE g == [cur |-> flow.cur, returns |-> flow.returns, other |-> flow.other]
<1>1. flow = g
  BY DEF IsFlow
<1>2. [g EXCEPT !.cur = c] = [cur |-> c, returns |-> g.returns, other |-> g.other]
  OBVIOUS
<1> HIDE DEF g
<1> QED BY <1>1, <1>2

LEMMA AssignEffect ==
  ASSUME IsFlow, Assign
  PROVE  IsFlow' /\ flow'.cur = {Assigned(s) : s \in flow.cur}
         /\ flow'.returns = flow.returns /\ flow'.other = flow.other
<1> DEFINE c == {Assigned(s) : s \in flow.cur}
<1>1. flow' = [flow EXCEPT !.cur = c]
  BY DEF Assign
<1> HIDE DEF c
<1>2. flow' = [cur |-> c, returns |-> flow.returns, other |-> flow.other]
  BY <1>1, FlowExcept
<1> QED BY <1>2 DEF IsFlow, c

LEMMA ReturnEffect ==
  ASSUME IsFlow, Return
  PROVE  IsFlow' /\ flow'.cur = flow.cur \ Returning
         /\ flow'.returns = flow.returns \union {Returned(s) : s \in Returning}
         /\ flow'.other = flow.other
<1> DEFINE c == flow.cur \ Returning
           r == flow.returns \union {Returned(s) : s \in Returning}
           f == [flow EXCEPT !.cur = c]
<1>1. flow' = [f EXCEPT !.returns = r]
  <2>1. flow' = [flow EXCEPT !.cur = c, !.returns = r]
    BY DEF Return
  <2> HIDE DEF c, r
  <2> QED BY <2>1, Zenon
<1> HIDE DEF c, r
<1>2. f = [cur |-> c, returns |-> flow.returns, other |-> flow.other]
  BY FlowExcept
<1> HIDE DEF f
<1>3. [f EXCEPT !.returns = r] = [cur |-> c, returns |-> r, other |-> flow.other]
  BY <1>2
<1> QED BY <1>1, <1>3 DEF IsFlow, c, r

Gone == {s \in flow.cur : Eval(Stmt.expr, s.store, Top.tag) = 0}

LEMMA EscapeEffect ==
  ASSUME IsFlow, EscapeIfZero
  PROVE  IsFlow' /\ flow'.cur = flow.cur \ Gone /\ flow'.returns = flow.returns
         /\ flow'.other = flow.other \union Gone
<1> DEFINE c == flow.cur \ Gone
           o == flow.other \union Gone
           f == [flow EXCEPT !.cur = c]
<1>1. flow' = [f EXCEPT !.other = o]
  <2>1. flow' = [flow EXCEPT !.cur = c, !.other = o]
    BY DEF EscapeIfZero, Gone
  <2> HIDE DEF c, o
  <2> QED BY <2>1, Zenon
<1> HIDE DEF c, o
<1>2. f = [cur |-> c, returns |-> flow.returns, other |-> flow.other]
  BY FlowExcept
<1> HIDE DEF f
<1>3. [f EXCEPT !.other = o] = [cur |-> c, returns |-> flow.returns, other |-> o]
  BY <1>2
<1> QED BY <1>1, <1>3 DEF IsFlow, c, o

\* The renaming of the callee of the call that the innermost activation is at.
NewTag == CalleeTag(Stmt.call, Pushed)

LEMMA EnterEffect ==
  ASSUME Enter
  PROVE  /\ IsFlow' /\ flow'.cur = {InitFunParams(s, Stmt.call, NewTag) : s \in flow.cur}
         /\ flow'.returns = {} /\ flow'.other = flow.other
         /\ calls' = Append(calls, Activation(Stmt.call.fun, 1, Site, NewTag,
                                              ReturnVar(Stmt.call, Top.tag), flow.returns))
BY DEF Enter, NewTag, IsFlow

\* The names that the cleaners of a call remove.
Cleaned(caller, ret, tag) == {ret} \union Params(StmtOf(caller).call.fun, tag)

\* The stores of results, after the caller used the value of the call.
UsedBy(caller, results, ret, tag) ==
    {Clean(Used(s, caller, ret), Cleaned(caller, ret, tag)) : s \in results}
CleanAll(ss, caller, ret, tag) == {Clean(s, Cleaned(caller, ret, tag)) : s \in ss}

LEMMA CompletedIs ==
  ASSUME NEW caller, NEW results, NEW ret, NEW tag, NEW returns, NEW other, NEW f,
         f = Completed(caller, results, ret, tag, returns, other)
  PROVE  /\ f = [cur |-> f.cur, returns |-> f.returns, other |-> f.other]
         /\ f.cur = (IF StmtOf(caller).op = "return_call" THEN {} ELSE UsedBy(caller, results, ret, tag))
         /\ f.returns = CleanAll(returns, caller, ret, tag)
                        \union (IF StmtOf(caller).op = "return_call"
                                THEN UsedBy(caller, results, ret, tag) ELSE {})
         /\ f.other = CleanAll(other, caller, ret, tag)
BY DEF Completed, Cleaned, CleanAll, UsedBy

\* The call that ends, and its caller.
Caller == calls[Len(calls) - 1]
Results == {Popped(s) : s \in flow.cur \union flow.returns}

LEMMA LeaveEffect ==
  ASSUME Leave
  PROVE  /\ IsFlow'
         /\ flow'.cur = (IF StmtOf(Caller).op = "return_call" THEN {}
                         ELSE UsedBy(Caller, Results, Top.ret, Top.tag))
         /\ flow'.returns = CleanAll(Top.saved, Caller, Top.ret, Top.tag)
                            \union (IF StmtOf(Caller).op = "return_call"
                                    THEN UsedBy(Caller, Results, Top.ret, Top.tag) ELSE {})
         /\ flow'.other = CleanAll(flow.other, Caller, Top.ret, Top.tag)
<1>1. flow' = Completed(Caller, Results, Top.ret, Top.tag, Top.saved, flow.other)
  BY Zenon DEF Leave, Caller, Results
<1> QED BY <1>1, CompletedIs DEF IsFlow

\* What a call that is ignored may return.
AnyResults == {AnyResult(s, Stmt.call, NewTag, v) : s \in flow.cur, v \in Val}

LEMMA IgnoreEffect ==
  ASSUME Ignore
  PROVE  LET ret == ReturnVar(Stmt.call, Top.tag)
         IN /\ IsFlow'
            /\ flow'.cur = (IF StmtOf(Top).op = "return_call" THEN {}
                            ELSE UsedBy(Top, AnyResults, ret, NewTag))
            /\ flow'.returns = CleanAll(flow.returns, Top, ret, NewTag)
                               \union (IF StmtOf(Top).op = "return_call"
                                       THEN UsedBy(Top, AnyResults, ret, NewTag) ELSE {})
            /\ flow'.other = CleanAll(flow.other, Top, ret, NewTag)
<1> DEFINE ret == ReturnVar(Stmt.call, Top.tag)
<1>1. flow' = Completed(Top, AnyResults, ret, NewTag, flow.returns, flow.other)
  BY DEF Ignore, AnyResults, NewTag
<1> HIDE DEF ret
<1>2. /\ IsFlow'
      /\ flow'.cur = (IF StmtOf(Top).op = "return_call" THEN {}
                      ELSE UsedBy(Top, AnyResults, ret, NewTag))
      /\ flow'.returns = CleanAll(flow.returns, Top, ret, NewTag)
                         \union (IF StmtOf(Top).op = "return_call"
                                 THEN UsedBy(Top, AnyResults, ret, NewTag) ELSE {})
      /\ flow'.other = CleanAll(flow.other, Top, ret, NewTag)
  BY <1>1, CompletedIs DEF IsFlow
<1> QED BY <1>2 DEF ret

LEMMA AnyResultIs ==
  ASSUME NEW s, IsStore(s), NEW v
  PROVE  LET t == AnyResult(s, Stmt.call, NewTag, v)
             i == InitFunParams(s, Stmt.call, NewTag)
         IN /\ IsStore(t) /\ t.from = s.from
            /\ t.store = Bind(i.store, ReturnVar(Stmt.call, Top.tag), v)
<1> DEFINE i == InitFunParams(s, Stmt.call, NewTag)
           a == Bind(i.store, ReturnVar(Stmt.call, Top.tag), v)
           b == Front(i.real)
<1>1. AnyResult(s, Stmt.call, NewTag, v) = [i EXCEPT !.store = a, !.real = b, !.val = v]
  BY Zenon DEF AnyResult
<1>2. IsStore(i) /\ i.from = s.from
  BY InitFunParamsIs, StoreFacts
<1> HIDE DEF i, a, b
<1> DEFINE t == [i EXCEPT !.store = a, !.real = b]
<1>3. [i EXCEPT !.store = a, !.real = b, !.val = v] = [t EXCEPT !.val = v]
  BY Zenon
<1>4. t = Store(i, a, b, i.val)
  BY <1>2, SetStoreReals
<1> HIDE DEF t
<1>5. IsStore(t) /\ t.from = i.from /\ t.store = a /\ t.real = b
  BY <1>4, StoreFacts
<1>6. [t EXCEPT !.val = v] = Store(t, t.store, t.real, v)
  BY <1>5, SetVal
<1>7. AnyResult(s, Stmt.call, NewTag, v) = Store(t, a, b, v)
  BY <1>1, <1>3, <1>5, <1>6
<1> QED BY <1>2, <1>5, <1>7, StoreFacts DEF i, a

-----------------------------------------------------------------------------
(***************************************************************************)
(* No execution is lost at a call.                                         *)
(***************************************************************************)
PlaceIn(q, f, cs) ==
    \/ \E s \in f.cur : q = <<"cur", 0, s>>
    \/ \E s \in f.returns : q = <<"returns", 0, s>>
    \/ \E s \in f.other : q = <<"other", 0, s>>
    \/ \E i \in DOMAIN cs : \E s \in cs[i].saved : q = <<"saved", i, s>>

LEMMA PlacesAre ==
  /\ \A q : q \in Places <=> PlaceIn(q, flow, calls)
  /\ \A q : q \in Places' <=> PlaceIn(q, flow', calls')
BY DEF Places, PlaceIn

LEMMA StoresAre ==
  ASSUME AllStores
  PROVE  /\ \A s \in flow.cur : IsStore(s)
         /\ \A s \in flow.returns : IsStore(s)
         /\ \A s \in flow.other : IsStore(s)
         /\ \A i \in DOMAIN calls : \A s \in calls[i].saved : IsStore(s)
<1>1. \A q : PlaceIn(q, flow, calls) => IsStore(q[3])
  BY PlacesAre DEF AllStores
<1>2. ASSUME NEW s \in flow.cur PROVE IsStore(s)
  <2>1. PICK q : q = <<"cur", 0, s>> /\ PlaceIn(q, flow, calls)
    BY DEF PlaceIn
  <2>2. IsStore(q[3]) /\ q[3] = s
    BY <1>1, <2>1
  <2> QED BY <2>2
<1>3. ASSUME NEW s \in flow.returns PROVE IsStore(s)
  <2>1. PICK q : q = <<"returns", 0, s>> /\ PlaceIn(q, flow, calls)
    BY DEF PlaceIn
  <2>2. IsStore(q[3]) /\ q[3] = s
    BY <1>1, <2>1
  <2> QED BY <2>2
<1>4. ASSUME NEW s \in flow.other PROVE IsStore(s)
  <2>1. PICK q : q = <<"other", 0, s>> /\ PlaceIn(q, flow, calls)
    BY DEF PlaceIn
  <2>2. IsStore(q[3]) /\ q[3] = s
    BY <1>1, <2>1
  <2> QED BY <2>2
<1>5. ASSUME NEW i \in DOMAIN calls, NEW s \in calls[i].saved PROVE IsStore(s)
  <2>1. PICK q : q = <<"saved", i, s>> /\ PlaceIn(q, flow, calls)
    BY DEF PlaceIn
  <2>2. IsStore(q[3]) /\ q[3] = s
    BY <1>1, <2>1
  <2> QED BY <2>2
<1> QED BY <1>2, <1>3, <1>4, <1>5

Followed == IsFlow /\ AllStores /\ InOnePlace

\* A step moves each store to one place, and its execution with it.
LEMMA Moved ==
  ASSUME Followed, IsFlow', history' # "ignored" => history # "ignored", NEW m,
         \A p \in Places : m[p] \in Places' /\ m[p][3].from = p[3].from /\ IsStore(m[p][3]),
         \A q \in Places' : \E p \in Places : q = m[p]
  PROVE  Followed'
<1>1. AllStores'
  BY DEF AllStores
<1>2. ASSUME NEW n \in Inputs
      PROVE  /\ Of(n)' # {}
             /\ history' # "ignored" => \E p \in Places' : Of(n)' = {p}
  <2>1. \A p \in Of(n) : m[p] \in Of(n)'
    BY DEF Of
  <2>2. \A q \in Of(n)' : \E p \in Of(n) : q = m[p]
    BY DEF Of
  <2>3. Of(n) # {} /\ (history # "ignored" => \E p \in Places : Of(n) = {p})
    BY DEF Followed, InOnePlace
  <2>4. Of(n)' # {}
    BY <2>1, <2>3
  <2>5. ASSUME history' # "ignored" PROVE \E p \in Places' : Of(n)' = {p}
    <3>1. PICK p \in Places : Of(n) = {p}
      BY <2>3, <2>5
    <3>2. m[p] \in Places' /\ Of(n)' = {m[p]}
      BY <2>1, <2>2, <3>1
    <3> QED BY <3>2
  <2> QED BY <2>4, <2>5
<1>3. InOnePlace'
  BY <1>2 DEF InOnePlace
<1> QED BY <1>1, <1>3 DEF Followed

LEMMA InitFollowed == Init => Followed
<1> SUFFICES ASSUME Init PROVE Followed
  OBVIOUS
<1> DEFINE s(n) == [from |-> n, val |-> 0, store |-> [x \in {<<v, None>> : v \in Globals} |-> n],
                    real |-> <<[v \in Globals |-> n]>>]
<1>1. flow = [cur |-> {s(n) : n \in Inputs}, returns |-> {}, other |-> {}]
  BY DEF Init
<1>2. /\ \A n : IsStore(s(n)) /\ s(n).from = n
  BY DEF IsStore
<1>3. DOMAIN calls = {1} /\ calls[1].saved = {}
  BY DEF Init, Activation
<1> HIDE DEF s
<1>4. IsFlow
  BY <1>1 DEF IsFlow
<1>5. \A q : q \in Places <=> \E n \in Inputs : q = <<"cur", 0, s(n)>>
  <2>1. flow.cur = {s(n) : n \in Inputs} /\ flow.returns = {} /\ flow.other = {}
    BY <1>1
  <2> QED BY <1>3, <2>1, PlacesAre DEF PlaceIn
<1>6. AllStores
  BY <1>2, <1>5 DEF AllStores
<1>7. ASSUME NEW n \in Inputs PROVE Of(n) = {<<"cur", 0, s(n)>>} /\ <<"cur", 0, s(n)>> \in Places
  <2>1. <<"cur", 0, s(n)>> \in Of(n)
    BY <1>2, <1>5 DEF Of
  <2>2. ASSUME NEW q \in Of(n) PROVE q = <<"cur", 0, s(n)>>
    <3>1. PICK k \in Inputs : q = <<"cur", 0, s(k)>>
      BY <1>5 DEF Of
    <3>2. q[3].from = n /\ q[3] = s(k)
      BY <3>1 DEF Of
    <3>3. k = n
      BY <1>2, <3>2
    <3> QED BY <3>1, <3>3
  <2> QED BY <2>1, <2>2 DEF Of
<1>8. InOnePlace
  BY <1>7 DEF InOnePlace
<1> QED BY <1>4, <1>6, <1>8 DEF Followed

\* The stores put aside stay where they are in a step that is no call.
LEMMA SavedKept ==
  ASSUME Shapes, calls' = Advance(calls)
  PROVE  /\ DOMAIN calls' = DOMAIN calls
         /\ \A i \in DOMAIN calls : calls'[i].saved = calls[i].saved
<1> DEFINE n == Len(calls)
<1>1. n \in Nat /\ n >= 1 /\ IsSeq(calls) /\ DOMAIN calls = 1..n
  BY DEF Shapes, IsSeq
<1>2. /\ IsSeq(calls') /\ Len(calls') = n
      /\ \A i \in 1..(n - 1) : calls'[i] = calls[i]
      /\ calls'[n].saved = calls[n].saved
  BY <1>1, AdvanceFacts
<1>3. DOMAIN calls' = 1..n
  BY <1>2 DEF IsSeq
<1> QED BY <1>1, <1>2, <1>3

LEMMA AssignFollowed == ASSUME Shapes, Followed, Assign PROVE Followed'
<1>1. calls' = Advance(calls) /\ history' = history
  BY DEF Assign
<1>2. IsFlow' /\ flow'.cur = {Assigned(s) : s \in flow.cur}
      /\ flow'.returns = flow.returns /\ flow'.other = flow.other
  BY AssignEffect DEF Followed
<1>3. \A s \in flow.cur : IsStore(Assigned(s)) /\ Assigned(s).from = s.from
  <2> TAKE s \in flow.cur
  <2>1. IsStore(s)
    BY StoresAre DEF Followed
  <2> QED BY <2>1, AssignedIs, StoreFacts
<1> DEFINE m == [p \in Places |-> IF p[1] = "cur" THEN <<"cur", 0, Assigned(p[3])>> ELSE p]
<1>4. ASSUME NEW p \in Places
      PROVE  m[p] \in Places' /\ m[p][3].from = p[3].from /\ IsStore(m[p][3])
  <2>1. PlaceIn(p, flow, calls) /\ IsStore(p[3])
    BY PlacesAre DEF Followed, AllStores
  <2>2. CASE p[1] = "cur"
    <3>1. PICK s \in flow.cur : p = <<"cur", 0, s>>
      BY <2>1, <2>2 DEF PlaceIn
    <3>2. m[p] = <<"cur", 0, Assigned(s)>>
      BY <3>1
    <3> HIDE DEF m
    <3>3. PlaceIn(m[p], flow', calls')
      BY <1>2, <3>2 DEF PlaceIn
    <3> QED BY <1>3, <3>1, <3>2, <3>3, PlacesAre
  <2>3. CASE p[1] # "cur"
    <3>1. m[p] = p
      BY <2>3
    <3> HIDE DEF m
    <3>2. PlaceIn(p, flow', calls')
      BY <1>1, <1>2, <2>1, <2>3, SavedKept DEF PlaceIn
    <3> QED BY <2>1, <3>1, <3>2, PlacesAre
  <2> QED BY <2>2, <2>3
<1>5. ASSUME NEW q \in Places' PROVE \E p \in Places : q = m[p]
  <2>1. PlaceIn(q, flow', calls')
    BY PlacesAre
  <2>2. CASE q[1] = "cur"
    <3>1. PICK s \in flow.cur : q = <<"cur", 0, Assigned(s)>>
      BY <1>2, <2>1, <2>2 DEF PlaceIn
    <3>2. <<"cur", 0, s>> \in Places
      BY PlacesAre DEF PlaceIn
    <3> QED BY <3>1, <3>2
  <2>3. CASE q[1] # "cur"
    <3>1. q \in Places
      BY <1>1, <1>2, <2>1, <2>3, SavedKept, PlacesAre DEF PlaceIn
    <3> QED BY <2>3, <3>1
  <2> QED BY <2>2, <2>3
<1> HIDE DEF m
<1> QED BY <1>1, <1>2, <1>4, <1>5, Moved

LEMMA ReturnFollowed == ASSUME Shapes, Followed, Return PROVE Followed'
<1>1. calls' = Advance(calls) /\ history' = history
  BY DEF Return
<1>2. IsFlow' /\ flow'.cur = flow.cur \ Returning
      /\ flow'.returns = flow.returns \union {Returned(s) : s \in Returning}
      /\ flow'.other = flow.other
  BY ReturnEffect DEF Followed
<1>3. \A s \in Returning : s \in flow.cur /\ IsStore(Returned(s)) /\ Returned(s).from = s.from
  <2> TAKE s \in Returning
  <2>1. s \in flow.cur /\ IsStore(s)
    BY StoresAre DEF Followed, Returning
  <2> QED BY <2>1, ReturnedIs, StoreFacts
<1> DEFINE m == [p \in Places |-> IF p[1] = "cur" /\ p[3] \in Returning
                                  THEN <<"returns", 0, Returned(p[3])>> ELSE p]
<1>4. ASSUME NEW p \in Places
      PROVE  m[p] \in Places' /\ m[p][3].from = p[3].from /\ IsStore(m[p][3])
  <2>1. PlaceIn(p, flow, calls) /\ IsStore(p[3])
    BY PlacesAre DEF Followed, AllStores
  <2>2. CASE p[1] = "cur" /\ p[3] \in Returning
    <3>1. m[p] = <<"returns", 0, Returned(p[3])>>
      BY <2>2
    <3> HIDE DEF m
    <3>2. PlaceIn(m[p], flow', calls')
      BY <1>2, <2>2, <3>1 DEF PlaceIn
    <3> QED BY <1>3, <2>2, <3>1, <3>2, PlacesAre
  <2>3. CASE ~(p[1] = "cur" /\ p[3] \in Returning)
    <3>1. m[p] = p
      BY <2>3
    <3> HIDE DEF m
    <3>2. PlaceIn(p, flow', calls')
      BY <1>1, <1>2, <2>1, <2>3, SavedKept DEF PlaceIn
    <3> QED BY <2>1, <3>1, <3>2, PlacesAre
  <2> QED BY <2>2, <2>3
<1>5. ASSUME NEW q \in Places' PROVE \E p \in Places : q = m[p]
  <2>1. PlaceIn(q, flow', calls')
    BY PlacesAre
  <2>2. CASE \E s \in Returning : q = <<"returns", 0, Returned(s)>>
    <3>1. PICK s \in Returning : q = <<"returns", 0, Returned(s)>>
      BY <2>2
    <3>2. <<"cur", 0, s>> \in Places
      BY <1>3, PlacesAre DEF PlaceIn
    <3> QED BY <3>1, <3>2
  <2>3. CASE ~ \E s \in Returning : q = <<"returns", 0, Returned(s)>>
    <3>1. PlaceIn(q, flow, calls) /\ ~(q[1] = "cur" /\ q[3] \in Returning)
      BY <1>1, <1>2, <2>1, <2>3, SavedKept DEF PlaceIn
    <3>2. q \in Places
      BY <3>1, PlacesAre
    <3> QED BY <3>1, <3>2
  <2> QED BY <2>2, <2>3
<1> HIDE DEF m
<1> QED BY <1>1, <1>2, <1>4, <1>5, Moved

LEMMA EscapeFollowed == ASSUME Shapes, Followed, EscapeIfZero PROVE Followed'
<1>1. calls' = Advance(calls) /\ history' = history
  BY DEF EscapeIfZero
<1>2. IsFlow' /\ flow'.cur = flow.cur \ Gone /\ flow'.returns = flow.returns
      /\ flow'.other = flow.other \union Gone
  BY EscapeEffect DEF Followed
<1> DEFINE m == [p \in Places |-> IF p[1] = "cur" /\ p[3] \in Gone THEN <<"other", 0, p[3]>> ELSE p]
<1>3. \A s \in Gone : s \in flow.cur
  BY DEF Gone
<1>4. ASSUME NEW p \in Places
      PROVE  m[p] \in Places' /\ m[p][3].from = p[3].from /\ IsStore(m[p][3])
  <2>1. PlaceIn(p, flow, calls) /\ IsStore(p[3])
    BY PlacesAre DEF Followed, AllStores
  <2>2. CASE p[1] = "cur" /\ p[3] \in Gone
    <3>1. m[p] = <<"other", 0, p[3]>>
      BY <2>2
    <3> HIDE DEF m
    <3>2. PlaceIn(m[p], flow', calls')
      BY <1>2, <2>2, <3>1 DEF PlaceIn
    <3> QED BY <2>1, <3>1, <3>2, PlacesAre
  <2>3. CASE ~(p[1] = "cur" /\ p[3] \in Gone)
    <3>1. m[p] = p
      BY <2>3
    <3> HIDE DEF m
    <3>2. PlaceIn(p, flow', calls')
      BY <1>1, <1>2, <2>1, <2>3, SavedKept DEF PlaceIn
    <3> QED BY <2>1, <3>1, <3>2, PlacesAre
  <2> QED BY <2>2, <2>3
<1>5. ASSUME NEW q \in Places' PROVE \E p \in Places : q = m[p]
  <2>1. PlaceIn(q, flow', calls')
    BY PlacesAre
  <2>2. CASE \E s \in Gone : q = <<"other", 0, s>>
    <3>1. PICK s \in Gone : q = <<"other", 0, s>>
      BY <2>2
    <3>2. <<"cur", 0, s>> \in Places
      BY <1>3, PlacesAre DEF PlaceIn
    <3> QED BY <3>1, <3>2
  <2>3. CASE ~ \E s \in Gone : q = <<"other", 0, s>>
    <3>1. PlaceIn(q, flow, calls) /\ ~(q[1] = "cur" /\ q[3] \in Gone)
      BY <1>1, <1>2, <2>1, <2>3, SavedKept DEF PlaceIn
    <3>2. q \in Places
      BY <3>1, PlacesAre
    <3> QED BY <3>1, <3>2
  <2> QED BY <2>2, <2>3
<1> HIDE DEF m
<1> QED BY <1>1, <1>2, <1>4, <1>5, Moved

LEMMA CallUnreachableFollowed == ASSUME Shapes, Followed, CallUnreachable PROVE Followed'
<1>1. calls' = Advance(calls) /\ history' = history /\ flow' = flow
  BY DEF CallUnreachable
<1>2. \A q : q \in Places' <=> q \in Places
  BY <1>1, SavedKept, PlacesAre DEF PlaceIn
<1>3. Places' = Places
  BY <1>2
<1> QED BY <1>1, <1>3 DEF Followed, IsFlow, AllStores, InOnePlace, Of

\* The return flows of the caller are put aside with the call.
LEMMA EnterFollowed == ASSUME Shapes, Followed, Enter PROVE Followed'
<1> DEFINE n == Len(calls)
<1>1. history' # "ignored" => history # "ignored"
  BY DEF Enter
<1>2. /\ IsFlow' /\ flow'.cur = {InitFunParams(s, Stmt.call, NewTag) : s \in flow.cur}
      /\ flow'.returns = {} /\ flow'.other = flow.other
  BY EnterEffect
<1>3. /\ n \in Nat /\ DOMAIN calls = 1..n /\ DOMAIN calls' = 1..(n + 1)
      /\ \A i \in 1..n : calls'[i] = calls[i]
      /\ calls'[n + 1].saved = flow.returns
  <2>1. PICK e : calls' = Append(calls, e) /\ e.saved = flow.returns
    BY EnterEffect DEF Activation
  <2>2. /\ IsSeq(calls') /\ Len(calls') = n + 1 /\ \A i \in 1..n : calls'[i] = calls[i]
        /\ calls'[n + 1] = e
    BY <2>1, AppendFacts DEF Shapes
  <2> QED BY <2>1, <2>2 DEF Shapes, IsSeq
<1>4. \A s \in flow.cur : /\ IsStore(InitFunParams(s, Stmt.call, NewTag))
                          /\ InitFunParams(s, Stmt.call, NewTag).from = s.from
  <2> TAKE s \in flow.cur
  <2>1. IsStore(s)
    BY StoresAre DEF Followed
  <2> QED BY <2>1, InitFunParamsIs, StoreFacts
<1> HIDE DEF n
<1> DEFINE m == [p \in Places |->
                    CASE p[1] = "cur" -> <<"cur", 0, InitFunParams(p[3], Stmt.call, NewTag)>>
                      [] p[1] = "returns" -> <<"saved", n + 1, p[3]>>
                      [] OTHER -> p]
<1>5. ASSUME NEW p \in Places
      PROVE  m[p] \in Places' /\ m[p][3].from = p[3].from /\ IsStore(m[p][3])
  <2>1. PlaceIn(p, flow, calls) /\ IsStore(p[3])
    BY PlacesAre DEF Followed, AllStores
  <2>2. CASE p[1] = "cur"
    <3>1. PICK s \in flow.cur : p = <<"cur", 0, s>>
      BY <2>1, <2>2 DEF PlaceIn
    <3>2. m[p] = <<"cur", 0, InitFunParams(s, Stmt.call, NewTag)>>
      BY <3>1
    <3> HIDE DEF m
    <3>3. PlaceIn(m[p], flow', calls')
      BY <1>2, <3>2 DEF PlaceIn
    <3> QED BY <1>4, <3>1, <3>2, <3>3, PlacesAre
  <2>3. CASE p[1] = "returns"
    <3>1. PICK s \in flow.returns : p = <<"returns", 0, s>>
      BY <2>1, <2>3 DEF PlaceIn
    <3>2. m[p] = <<"saved", n + 1, s>>
      BY <3>1
    <3> HIDE DEF m
    <3>3. n + 1 \in DOMAIN calls'
      BY <1>3
    <3>4. PlaceIn(m[p], flow', calls')
      BY <1>3, <3>1, <3>2, <3>3 DEF PlaceIn
    <3> QED BY <2>1, <3>1, <3>2, <3>4, PlacesAre
  <2>4. CASE p[1] # "cur" /\ p[1] # "returns"
    <3>1. m[p] = p
      BY <2>4
    <3> HIDE DEF m
    <3>2. CASE \E s \in flow.other : p = <<"other", 0, s>>
      <4>1. PlaceIn(p, flow', calls')
        BY <1>2, <3>2 DEF PlaceIn
      <4> QED BY <2>1, <3>1, <4>1, PlacesAre
    <3>3. CASE \E i \in DOMAIN calls : \E s \in calls[i].saved : p = <<"saved", i, s>>
      <4>1. PICK i \in 1..n : \E s \in calls[i].saved : p = <<"saved", i, s>>
        BY <1>3, <3>3
      <4>2. i \in DOMAIN calls' /\ calls'[i] = calls[i]
        BY <1>3
      <4>3. PlaceIn(p, flow', calls')
        BY <4>1, <4>2 DEF PlaceIn
      <4> QED BY <2>1, <3>1, <4>3, PlacesAre
    <3> QED BY <2>1, <2>4, <3>2, <3>3 DEF PlaceIn
  <2> QED BY <2>2, <2>3, <2>4
<1>6. ASSUME NEW q \in Places' PROVE \E p \in Places : q = m[p]
  <2>1. PlaceIn(q, flow', calls')
    BY PlacesAre
  <2>2. CASE \E s \in flow.cur : q = <<"cur", 0, InitFunParams(s, Stmt.call, NewTag)>>
    <3>1. PICK s \in flow.cur : q = <<"cur", 0, InitFunParams(s, Stmt.call, NewTag)>>
      BY <2>2
    <3>2. <<"cur", 0, s>> \in Places
      BY PlacesAre DEF PlaceIn
    <3> QED BY <3>1, <3>2
  <2>3. CASE \E s \in flow.other : q = <<"other", 0, s>>
    <3>1. q \in Places
      BY <2>3, PlacesAre DEF PlaceIn
    <3>2. m[q] = q
      BY <2>3, <3>1
    <3> QED BY <3>1, <3>2
  <2>4. CASE \E i \in 1..(n + 1) : \E s \in calls'[i].saved : q = <<"saved", i, s>>
    <3>0. PICK i \in 1..(n + 1) : \E s \in calls'[i].saved : q = <<"saved", i, s>>
      BY <2>4
    <3>1. PICK s \in calls'[i].saved : q = <<"saved", i, s>>
      BY <3>0
    <3>2. CASE i = n + 1
      <4>1. s \in flow.returns
        BY <1>3, <3>1, <3>2
      <4>2. <<"returns", 0, s>> \in Places
        BY <4>1, PlacesAre DEF PlaceIn
      <4>3. m[<<"returns", 0, s>>] = <<"saved", n + 1, s>>
        BY <4>2
      <4> HIDE DEF m
      <4> QED BY <3>1, <3>2, <4>2, <4>3
    <3>3. CASE i # n + 1
      <4>1. i \in 1..n
        BY <1>3, <3>3
      <4>2. s \in calls[i].saved /\ i \in DOMAIN calls
        BY <1>3, <3>1, <4>1
      <4>3. q \in Places
        BY <3>1, <4>2, PlacesAre DEF PlaceIn
      <4>4. m[q] = q
        BY <3>1, <4>3
      <4> QED BY <4>3, <4>4
    <3> QED BY <3>2, <3>3
  <2> HIDE DEF m
  <2> QED BY <1>2, <1>3, <2>1, <2>2, <2>3, <2>4 DEF PlaceIn
<1> HIDE DEF m
<1> QED BY <1>1, <1>2, <1>5, <1>6, Moved

\* A store of results, used by the caller and cleaned.
LEMMA UsedByIs ==
  ASSUME NEW s, IsStore(s), NEW caller, NEW ret, NEW names
  PROVE  /\ IsStore(Used(s, caller, ret)) /\ Used(s, caller, ret).from = s.from
         /\ IsStore(Clean(Used(s, caller, ret), names))
         /\ Clean(Used(s, caller, ret), names).from = s.from
<1>1. IsStore(Used(s, caller, ret)) /\ Used(s, caller, ret).from = s.from
  BY UsedIs, StoreFacts
<1> QED BY <1>1, CleanIs, StoreFacts

\* The calls after the end of the innermost one.
LEMMA LeaveCalls ==
  ASSUME Shapes, Leave
  PROVE  LET n == Len(calls)
         IN /\ n \in Nat /\ n >= 2 /\ DOMAIN calls = 1..n
            /\ IsSeq(calls') /\ Len(calls') = n - 1 /\ DOMAIN calls' = 1..(n - 1)
            /\ \A i \in 1..(n - 2) : calls'[i] = calls[i]
            /\ calls'[n - 1].fun = Caller.fun /\ calls'[n - 1].pc = Caller.pc + 1
            /\ calls'[n - 1].site = Caller.site /\ calls'[n - 1].tag = Caller.tag
            /\ calls'[n - 1].ret = Caller.ret /\ calls'[n - 1].saved = Caller.saved
<1> DEFINE n == Len(calls)
           front == Front(calls)
<1>1. n \in Nat /\ n >= 2 /\ IsSeq(calls) /\ DOMAIN calls = 1..n
  BY DEF Shapes, IsSeq, Leave
<1>2. /\ IsSeq(front) /\ Len(front) = n - 1
      /\ \A i \in 1..(n - 1) : front[i] = calls[i]
  <2>1. Len(calls) >= 1
    BY <1>1
  <2> QED BY <1>1, <2>1, FrontFacts
<1>3. calls' = Advance(front)
  BY DEF Leave
<1> HIDE DEF front, n
<1>4. /\ IsSeq(calls') /\ Len(calls') = n - 1
      /\ \A i \in 1..(n - 1 - 1) : calls'[i] = front[i]
      /\ calls'[n - 1].fun = front[n - 1].fun /\ calls'[n - 1].pc = front[n - 1].pc + 1
      /\ calls'[n - 1].site = front[n - 1].site /\ calls'[n - 1].tag = front[n - 1].tag
      /\ calls'[n - 1].ret = front[n - 1].ret /\ calls'[n - 1].saved = front[n - 1].saved
  <2>1. Len(front) >= 1
    BY <1>1, <1>2
  <2>2. LET k == Len(front)
        IN /\ IsSeq(Advance(front)) /\ Len(Advance(front)) = k
           /\ \A i \in 1..(k - 1) : Advance(front)[i] = front[i]
           /\ Advance(front)[k].fun = front[k].fun /\ Advance(front)[k].pc = front[k].pc + 1
           /\ Advance(front)[k].site = front[k].site /\ Advance(front)[k].tag = front[k].tag
           /\ Advance(front)[k].ret = front[k].ret /\ Advance(front)[k].saved = front[k].saved
    BY <1>2, <2>1, AdvanceFacts
  <2> QED BY <1>2, <1>3, <2>2
<1>5. DOMAIN calls' = 1..(n - 1)
  BY <1>4 DEF IsSeq
<1>6. front[n - 1] = Caller
  BY <1>1, <1>2 DEF Caller, n
<1>7. \A i \in 1..(n - 2) : calls'[i] = calls[i]
  BY <1>1, <1>2, <1>4
<1> QED BY <1>1, <1>4, <1>5, <1>6, <1>7 DEF n

\* The stores of results go to the caller, who gets back those put aside.
LEMMA LeaveFollowed == ASSUME Shapes, Followed, Leave PROVE Followed'
<1> DEFINE n == Len(calls)
           names == Cleaned(Caller, Top.ret, Top.tag)
           used(s) == Clean(Used(Popped(s), Caller, Top.ret), names)
           clean(s) == Clean(s, names)
           to == IF StmtOf(Caller).op = "return_call" THEN "returns" ELSE "cur"
<1>1. history' = history
  BY DEF Leave
<1>2. /\ n \in Nat /\ n >= 2 /\ DOMAIN calls = 1..n /\ DOMAIN calls' = 1..(n - 1)
      /\ \A i \in 1..(n - 1) : calls'[i].saved = calls[i].saved
      /\ Top = calls[n]
  <2>1. \A i \in 1..(n - 2) : calls'[i] = calls[i]
    BY LeaveCalls
  <2>2. calls'[n - 1].saved = calls[n - 1].saved /\ n \in Nat /\ n >= 2
    BY LeaveCalls DEF Caller
  <2>3. \A i \in 1..(n - 1) : i \in 1..(n - 2) \/ i = n - 1
    BY <2>2
  <2>4. \A i \in 1..(n - 1) : calls'[i].saved = calls[i].saved
    BY <2>1, <2>2, <2>3
  <2> QED BY <2>4, LeaveCalls DEF Top
<1>3. /\ IsFlow'
      /\ flow'.cur = (IF StmtOf(Caller).op = "return_call" THEN {} ELSE {used(s) : s \in flow.cur \union flow.returns})
      /\ flow'.returns = {clean(s) : s \in Top.saved}
                         \union (IF StmtOf(Caller).op = "return_call"
                                 THEN {used(s) : s \in flow.cur \union flow.returns} ELSE {})
      /\ flow'.other = {clean(s) : s \in flow.other}
  <2>1. UsedBy(Caller, Results, Top.ret, Top.tag) = {used(s) : s \in flow.cur \union flow.returns}
    BY DEF UsedBy, Results
  <2> QED BY <2>1, LeaveEffect DEF CleanAll
<1>4. /\ \A s \in flow.cur \union flow.returns : IsStore(used(s)) /\ used(s).from = s.from
      /\ \A s : IsStore(s) => IsStore(clean(s)) /\ clean(s).from = s.from
  <2>1. ASSUME NEW s \in flow.cur \union flow.returns PROVE IsStore(used(s)) /\ used(s).from = s.from
    <3>1. IsStore(s)
      BY StoresAre DEF Followed
    <3>2. IsStore(Popped(s)) /\ Popped(s).from = s.from
      BY <3>1, PoppedIs, StoreFacts
    <3> QED BY <3>2, UsedByIs
  <2>2. ASSUME NEW s, IsStore(s) PROVE IsStore(clean(s)) /\ clean(s).from = s.from
    BY <2>2, CleanIs, StoreFacts
  <2> QED BY <2>1, <2>2
<1> HIDE DEF n, used, clean
<1> DEFINE m == [p \in Places |->
                    CASE p[1] \in {"cur", "returns"} -> <<to, 0, used(p[3])>>
                      [] p[1] = "other" -> <<"other", 0, clean(p[3])>>
                      [] p[1] = "saved" /\ p[2] = n -> <<"returns", 0, clean(p[3])>>
                      [] OTHER -> p]
<1>5. ASSUME NEW p \in Places
      PROVE  m[p] \in Places' /\ m[p][3].from = p[3].from /\ IsStore(m[p][3])
  <2>1. PlaceIn(p, flow, calls) /\ IsStore(p[3])
    BY PlacesAre DEF Followed, AllStores
  <2>2. CASE p[1] \in {"cur", "returns"}
    <3>1. PICK s \in flow.cur \union flow.returns : p = <<"cur", 0, s>> \/ p = <<"returns", 0, s>>
      BY <2>1, <2>2 DEF PlaceIn
    <3>2. m[p] = <<to, 0, used(s)>> /\ p[3] = s
      BY <3>1
    <3> HIDE DEF m
    <3>3. PlaceIn(m[p], flow', calls')
      BY <1>3, <3>2 DEF PlaceIn
    <3> QED BY <1>4, <3>1, <3>2, <3>3, PlacesAre
  <2>3. CASE p[1] = "other"
    <3>1. PICK s \in flow.other : p = <<"other", 0, s>>
      BY <2>1, <2>3 DEF PlaceIn
    <3>2. m[p] = <<"other", 0, clean(s)>>
      BY <3>1
    <3> HIDE DEF m
    <3>3. PlaceIn(m[p], flow', calls')
      BY <1>3, <3>2 DEF PlaceIn
    <3> QED BY <1>4, <2>1, <3>1, <3>2, <3>3, PlacesAre
  <2>4. CASE p[1] = "saved"
    <3>0. PICK i \in 1..n : \E s \in calls[i].saved : p = <<"saved", i, s>>
      BY <1>2, <2>1, <2>4 DEF PlaceIn
    <3>1. PICK s \in calls[i].saved : p = <<"saved", i, s>>
      BY <3>0
    <3>2. CASE i = n
      <4>1. m[p] = <<"returns", 0, clean(s)>>
        BY <3>1, <3>2
      <4> HIDE DEF m
      <4>2. PlaceIn(m[p], flow', calls')
        BY <1>2, <1>3, <3>1, <3>2, <4>1 DEF PlaceIn
      <4> QED BY <1>4, <2>1, <3>1, <4>1, <4>2, PlacesAre
    <3>3. CASE i # n
      <4>1. m[p] = p
        BY <3>1, <3>3
      <4> HIDE DEF m
      <4>2. i \in 1..(n - 1)
        BY <1>2, <3>3
      <4>3. s \in calls'[i].saved /\ i \in DOMAIN calls'
        BY <1>2, <3>1, <4>2
      <4>4. PlaceIn(p, flow', calls')
        BY <3>1, <4>3 DEF PlaceIn
      <4> QED BY <2>1, <4>1, <4>4, PlacesAre
    <3> QED BY <3>2, <3>3
  <2> QED BY <2>1, <2>2, <2>3, <2>4 DEF PlaceIn
<1>6. ASSUME NEW q \in Places' PROVE \E p \in Places : q = m[p]
  <2>1. PlaceIn(q, flow', calls')
    BY PlacesAre
  <2>2. CASE \E s \in flow.cur \union flow.returns : q = <<to, 0, used(s)>>
    <3>1. PICK s \in flow.cur \union flow.returns : q = <<to, 0, used(s)>>
      BY <2>2
    <3>2. CASE s \in flow.cur
      <4>1. <<"cur", 0, s>> \in Places
        BY <3>2, PlacesAre DEF PlaceIn
      <4>2. m[<<"cur", 0, s>>] = <<to, 0, used(s)>>
        BY <4>1
      <4> HIDE DEF m
      <4> QED BY <3>1, <4>1, <4>2
    <3>3. CASE s \in flow.returns
      <4>1. <<"returns", 0, s>> \in Places
        BY <3>3, PlacesAre DEF PlaceIn
      <4>2. m[<<"returns", 0, s>>] = <<to, 0, used(s)>>
        BY <4>1
      <4> HIDE DEF m
      <4> QED BY <3>1, <4>1, <4>2
    <3> QED BY <3>2, <3>3
  <2>3. CASE \E s \in flow.other : q = <<"other", 0, clean(s)>>
    <3>1. PICK s \in flow.other : q = <<"other", 0, clean(s)>>
      BY <2>3
    <3>2. <<"other", 0, s>> \in Places
      BY PlacesAre DEF PlaceIn
    <3>3. m[<<"other", 0, s>>] = <<"other", 0, clean(s)>>
      BY <3>2
    <3> HIDE DEF m
    <3> QED BY <3>1, <3>2, <3>3
  <2>4. CASE \E s \in Top.saved : q = <<"returns", 0, clean(s)>>
    <3>1. PICK s \in Top.saved : q = <<"returns", 0, clean(s)>>
      BY <2>4
    <3>2. n \in DOMAIN calls /\ s \in calls[n].saved
      BY <1>2
    <3>3. <<"saved", n, s>> \in Places
      BY <3>2, PlacesAre DEF PlaceIn
    <3>4. m[<<"saved", n, s>>] = <<"returns", 0, clean(s)>>
      BY <3>3
    <3> HIDE DEF m
    <3> QED BY <3>1, <3>3, <3>4
  <2>5. CASE \E i \in 1..(n - 1) : \E s \in calls'[i].saved : q = <<"saved", i, s>>
    <3>0. PICK i \in 1..(n - 1) : \E s \in calls'[i].saved : q = <<"saved", i, s>>
      BY <2>5
    <3>1. PICK s \in calls'[i].saved : q = <<"saved", i, s>>
      BY <3>0
    <3>2. s \in calls[i].saved /\ i \in DOMAIN calls /\ i # n
      BY <1>2, <3>1
    <3>3. q \in Places
      BY <3>1, <3>2, PlacesAre DEF PlaceIn
    <3>4. m[q] = q
      BY <3>1, <3>2, <3>3
    <3> QED BY <3>3, <3>4
  <2> HIDE DEF m
  <2>6. CASE \E i \in DOMAIN calls' : \E s \in calls'[i].saved : q = <<"saved", i, s>>
    BY <1>2, <2>5, <2>6
  <2>7. CASE \E s \in flow'.cur : q = <<"cur", 0, s>>
    BY <1>3, <2>2, <2>7
  <2>8. CASE \E s \in flow'.returns : q = <<"returns", 0, s>>
    BY <1>3, <2>2, <2>4, <2>8
  <2>9. CASE \E s \in flow'.other : q = <<"other", 0, s>>
    BY <1>3, <2>3, <2>9
  <2> QED BY <2>1, <2>6, <2>7, <2>8, <2>9 DEF PlaceIn
<1> HIDE DEF m
<1> QED BY <1>1, <1>3, <1>5, <1>6, Moved

\* A call that is ignored has at least one result for each store.
LEMMA IgnoreFollowed == ASSUME Shapes, Followed, Ignore PROVE Followed'
<1> DEFINE ret == ReturnVar(Stmt.call, Top.tag)
           names == Cleaned(Top, ret, NewTag)
           used(s) == Clean(Used(s, Top, ret), names)
           clean(s) == Clean(s, names)
           to == IF StmtOf(Top).op = "return_call" THEN "returns" ELSE "cur"
<1>1. history' = "ignored" /\ calls' = Advance(calls)
  BY Zenon DEF Ignore
<1>2. /\ IsFlow'
      /\ flow'.cur = (IF StmtOf(Top).op = "return_call" THEN {} ELSE {used(s) : s \in AnyResults})
      /\ flow'.returns = {clean(s) : s \in flow.returns}
                         \union (IF StmtOf(Top).op = "return_call" THEN {used(s) : s \in AnyResults} ELSE {})
      /\ flow'.other = {clean(s) : s \in flow.other}
  BY IgnoreEffect DEF UsedBy, CleanAll
<1>3. \A s : IsStore(s) => IsStore(clean(s)) /\ clean(s).from = s.from
  BY CleanIs, StoreFacts
<1>4. \A t \in AnyResults : IsStore(used(t))
  <2> TAKE t \in AnyResults
  <2>1. PICK s \in flow.cur, v \in Val : t = AnyResult(s, Stmt.call, NewTag, v)
    BY DEF AnyResults
  <2>2. IsStore(s)
    BY StoresAre DEF Followed
  <2>3. IsStore(t)
    BY <2>1, <2>2, AnyResultIs
  <2> QED BY <2>3, UsedByIs
<1>5. ASSUME NEW s \in flow.cur
      PROVE  \E t \in AnyResults : used(t).from = s.from
  <2> DEFINE t == AnyResult(s, Stmt.call, NewTag, 0)
  <2>1. 0 \in Val
    BY ValuesAssumption DEF Val
  <2>2. t \in AnyResults
    BY <2>1 DEF AnyResults
  <2>3. IsStore(s)
    BY StoresAre DEF Followed
  <2>4. IsStore(t) /\ t.from = s.from
    BY <2>3, AnyResultIs
  <2> HIDE DEF t
  <2>5. used(t).from = s.from
    BY <2>4, UsedByIs
  <2> QED BY <2>2, <2>5
<1> HIDE DEF used, clean
<1>6. ASSUME NEW q \in Places' PROVE IsStore(q[3])
  <2>1. PlaceIn(q, flow', calls')
    BY PlacesAre
  <2>2. CASE \E s \in flow'.cur : q = <<"cur", 0, s>>
    BY <1>2, <1>4, <2>2
  <2>3. CASE \E s \in flow'.returns : q = <<"returns", 0, s>>
    <3>1. PICK s \in flow'.returns : q = <<"returns", 0, s>>
      BY <2>3
    <3>2. CASE s \in {clean(r) : r \in flow.returns}
      BY <1>3, <3>1, <3>2, StoresAre DEF Followed
    <3>3. CASE s \in {used(r) : r \in AnyResults}
      BY <1>4, <3>1, <3>3
    <3> QED BY <1>2, <3>1, <3>2, <3>3
  <2>4. CASE \E s \in flow'.other : q = <<"other", 0, s>>
    BY <1>2, <1>3, <2>4, StoresAre DEF Followed
  <2>5. CASE \E i \in DOMAIN calls' : \E s \in calls'[i].saved : q = <<"saved", i, s>>
    <3>1. PICK i \in DOMAIN calls' : \E s \in calls'[i].saved : q = <<"saved", i, s>>
      BY <2>5
    <3>2. i \in DOMAIN calls /\ calls'[i].saved = calls[i].saved
      BY <1>1, <3>1, SavedKept
    <3> QED BY <3>1, <3>2, StoresAre DEF Followed
  <2> QED BY <2>1, <2>2, <2>3, <2>4, <2>5 DEF PlaceIn
<1>7. ASSUME NEW p \in Places PROVE \E q \in Places' : q[3].from = p[3].from
  <2>1. PlaceIn(p, flow, calls) /\ IsStore(p[3])
    BY PlacesAre DEF Followed, AllStores
  <2>2. CASE \E s \in flow.cur : p = <<"cur", 0, s>>
    <3>1. PICK s \in flow.cur : p = <<"cur", 0, s>>
      BY <2>2
    <3>2. PICK t \in AnyResults : used(t).from = s.from
      BY <1>5
    <3>3. PlaceIn(<<to, 0, used(t)>>, flow', calls')
      BY <1>2 DEF PlaceIn
    <3>4. <<to, 0, used(t)>> \in Places'
      BY <3>3, PlacesAre
    <3> QED BY <3>1, <3>2, <3>4
  <2>3. CASE \E s \in flow.returns : p = <<"returns", 0, s>>
    <3>1. PICK s \in flow.returns : p = <<"returns", 0, s>>
      BY <2>3
    <3>2. PlaceIn(<<"returns", 0, clean(s)>>, flow', calls')
      BY <1>2 DEF PlaceIn
    <3>3. <<"returns", 0, clean(s)>> \in Places'
      BY <3>2, PlacesAre
    <3> QED BY <1>3, <2>1, <3>1, <3>3
  <2>4. CASE \E s \in flow.other : p = <<"other", 0, s>>
    <3>1. PICK s \in flow.other : p = <<"other", 0, s>>
      BY <2>4
    <3>2. PlaceIn(<<"other", 0, clean(s)>>, flow', calls')
      BY <1>2 DEF PlaceIn
    <3>3. <<"other", 0, clean(s)>> \in Places'
      BY <3>2, PlacesAre
    <3> QED BY <1>3, <2>1, <3>1, <3>3
  <2>5. CASE \E i \in DOMAIN calls : \E s \in calls[i].saved : p = <<"saved", i, s>>
    <3>1. PlaceIn(p, flow', calls')
      BY <1>1, <2>5, SavedKept DEF PlaceIn
    <3> QED BY <3>1, PlacesAre
  <2> QED BY <2>1, <2>2, <2>3, <2>4, <2>5 DEF PlaceIn
<1>8. AllStores'
  BY <1>6 DEF AllStores
<1>9. InOnePlace'
  <2> SUFFICES ASSUME NEW n \in Inputs PROVE Of(n)' # {}
    BY <1>1 DEF InOnePlace
  <2>1. PICK p \in Places : p[3].from = n
    BY DEF Followed, InOnePlace, Of
  <2>2. PICK q \in Places' : q[3].from = p[3].from
    BY <1>7
  <2>3. q \in Of(n)'
    BY <2>1, <2>2 DEF Of
  <2> QED BY <2>3
<1> QED BY <1>2, <1>8, <1>9 DEF Followed

LEMMA FollowedStep == ASSUME IInv, Followed, [Next]_vars PROVE Followed'
<1>1. Shapes
  BY DEF IInv
<1>2. CASE Next
  BY <1>1, <1>2, AssignFollowed, ReturnFollowed, EscapeFollowed, CallUnreachableFollowed,
     EnterFollowed, IgnoreFollowed, LeaveFollowed DEF Next
<1>3. CASE UNCHANGED vars
  <2>1. Places' = Places
    BY <1>3 DEF vars, Places
  <2> QED BY <1>3, <2>1 DEF vars, Followed, IsFlow, AllStores, InOnePlace, Of
<1> QED BY <1>2, <1>3

\* No execution is lost when a callee replaces the return flows of its caller,
\* and none is taken back twice: each input has its store in one place of the
\* flow or among those put aside, or at least in one once a call is ignored.
THEOREM NoPathLost == Spec => []PathsOnce
<1>1. Followed => PathsOnce
  <2> SUFFICES ASSUME Followed, NEW n \in Inputs
               PROVE  LET places == {p \in Places : p[3].from = n}
                      IN IF history = "ignored" THEN places # {} ELSE Cardinality(places) = 1
    BY DEF PathsOnce
  <2>1. Of(n) # {} /\ (history # "ignored" => \E p \in Places : Of(n) = {p})
    BY DEF Followed, InOnePlace
  <2>2. history # "ignored" => Cardinality(Of(n)) = 1
    BY <2>1, FS_Singleton
  <2> QED BY <2>1, <2>2 DEF Of
<1>2. Init => IInv /\ Followed
  BY InitIInv, InitFollowed
<1>3. IInv /\ Followed /\ [Next]_vars => IInv' /\ Followed'
  BY IInvStep, FollowedStep
<1> QED BY <1>1, <1>2, <1>3, PTL DEF Spec

-----------------------------------------------------------------------------
(***************************************************************************)
(* The calls under way, and the variables that a store may have: p is the  *)
(* program, cs the activations.                                            *)
(***************************************************************************)
StmtIn(p, c) == p[c.fun].body[c.pc]

InProgram(p, c) ==
    /\ c.fun \in DOMAIN p
    /\ c.pc \in 1..(Len(p[c.fun].body) + 1)

\* The activation d was started by the statement that c is at.
Started(p, c, d) ==
    LET stmt == StmtIn(p, c)
    IN /\ c.pc \in DOMAIN p[c.fun].body /\ IsCall(stmt)
       /\ d.fun = stmt.call.fun /\ d.fun # "main"
       /\ d.site = [fun |-> stmt.call.fun, range |-> stmt.call.range]
       /\ d.ret = ReturnVar(stmt.call, c.tag)
       /\ d.tag \in {None, stmt.call.range}

Control(p, cs) ==
    /\ p \in Programs
    /\ cs[1].fun = "main" /\ cs[1].tag = None /\ cs[1].ret = None
    /\ \A i \in 1..Len(cs) : InProgram(p, cs[i])
    /\ \A i \in 2..Len(cs) : Started(p, cs[i - 1], cs[i])

\* The names of the variables of an activation.
Names(p, c) == {<<v, c.tag>> : v \in Owned(p, c.fun)}
NamesUpTo(p, cs, k) == UNION {Names(p, cs[i]) : i \in 1..k}

\* A store has the globals, and no variable but those of the first k
\* activations and those in others.
Within(p, s, cs, k, others) ==
    /\ Names(p, cs[1]) \subseteq DOMAIN s.store
    /\ DOMAIN s.store \subseteq NamesUpTo(p, cs, k) \union others

\* Where a return flow of the k-th activation may be.
ReturnsWithin(p, ss, cs, k) == \A s \in ss : Within(p, s, cs, k, {cs[k].ret})

Scoped ==
    /\ \A s \in flow.cur : Within(prog, s, calls, Len(calls), {})
    /\ ReturnsWithin(prog, flow.returns, calls, Len(calls))
    /\ \A i \in 2..Len(calls) : ReturnsWithin(prog, calls[i].saved, calls, i - 1)

LEMMA BodyFacts ==
  ASSUME NEW p \in Programs, NEW f \in DOMAIN p
  PROVE  /\ IsSeq(p[f].body) /\ DOMAIN p[f].body = 1..Len(p[f].body) /\ Len(p[f].body) \in Nat
         /\ IsSeq(p[f].params) /\ DOMAIN p[f].params = 1..Len(p[f].params) /\ Len(p[f].params) \in Nat
         /\ p["main"].params = << >> /\ "main" \in DOMAIN p
<1>1. p[f].params \in Seq(Owned(p, f)) /\ p[f].body \in Seq(StmtsOf(p))
  BY ProgramsAssumption
<1>2. IsSeq(p[f].body) /\ IsSeq(p[f].params)
  BY <1>1, SeqIs
<1> QED BY <1>1, <1>2, ProgramsAssumption

LEMMA CallFacts ==
  ASSUME NEW p \in Programs, NEW c, c.fun \in DOMAIN p, c.pc \in DOMAIN p[c.fun].body,
         IsCall(StmtIn(p, c))
  PROVE  LET call == StmtIn(p, c).call
         IN /\ call \in CallsOf(p) /\ call.fun \in DOMAIN p /\ call.fun # "main"
            /\ call.range \in Ranges(p) /\ DOMAIN call.args = DOMAIN p[call.fun].params
<1>1. StmtIn(p, c) \in StmtsOf(p)
  BY DEF StmtsOf, StmtIn, Range
<1>2. StmtIn(p, c).call \in CallsOf(p)
  BY <1>1 DEF CallsOf
<1> QED BY <1>2, ProgramsAssumption DEF Ranges

LEMMA AtStmtFacts ==
  ASSUME Shapes, Control(prog, calls), ~AtEnd
  PROVE  /\ Top.fun \in DOMAIN prog /\ Top.pc \in DOMAIN prog[Top.fun].body
         /\ Stmt = StmtIn(prog, Top)
<1>1. Len(calls) \in 1..Len(calls)
  BY DEF Shapes, IsSeq
<1>2. InProgram(prog, Top)
  BY <1>1 DEF Control, Top
<1>3. Top.pc \in 1..Len(prog[Top.fun].body)
  BY <1>2, BodyFacts DEF Control, InProgram, AtEnd, Body
<1> QED BY <1>2, <1>3, BodyFacts DEF InProgram, Control, Stmt, StmtOf, StmtIn

LEMMA CalleeFacts ==
  ASSUME Shapes, Control(prog, calls), AtCall
  PROVE  /\ Top.fun \in DOMAIN prog /\ Top.pc \in DOMAIN prog[Top.fun].body
         /\ Stmt = StmtIn(prog, Top) /\ IsCall(Stmt)
         /\ Stmt.call \in CallsOf(prog) /\ Stmt.call.fun \in DOMAIN prog /\ Stmt.call.fun # "main"
         /\ Stmt.call.range \in Ranges(prog)
         /\ DOMAIN Stmt.call.args = DOMAIN prog[Stmt.call.fun].params
         /\ NewTag \in {None, Stmt.call.range}
<1>1. ~AtEnd /\ IsCall(Stmt)
  BY DEF AtCall, AtStmt, IsCall
<1>2. /\ Top.fun \in DOMAIN prog /\ Top.pc \in DOMAIN prog[Top.fun].body
      /\ Stmt = StmtIn(prog, Top)
  BY <1>1, AtStmtFacts
<1>3. prog \in Programs
  BY DEF Control
<1>4. NewTag \in {None, Stmt.call.range}
  BY DEF NewTag, CalleeTag
<1> QED BY <1>1, <1>2, <1>3, <1>4, CallFacts

\* The last activation went on.
Moved1(c, d) ==
    /\ d.fun = c.fun /\ d.pc = c.pc + 1 /\ d.site = c.site /\ d.tag = c.tag /\ d.ret = c.ret

LEMMA ControlMoves ==
  ASSUME NEW p, NEW cs, NEW ds, NEW n \in Nat, n >= 1, n = Len(ds), n <= Len(cs), Len(cs) \in Nat,
         Control(p, cs), \A i \in 1..(n - 1) : ds[i] = cs[i], Moved1(cs[n], ds[n]),
         cs[n].pc \in DOMAIN p[cs[n].fun].body
  PROVE  Control(p, ds)
<1>1. \A i \in 1..n : ds[i].fun = cs[i].fun /\ ds[i].site = cs[i].site /\ ds[i].tag = cs[i].tag
                      /\ ds[i].ret = cs[i].ret
  BY DEF Moved1
<1>2. ASSUME NEW i \in 1..n PROVE InProgram(p, ds[i])
  <2>1. CASE i = n
    <3>1. InProgram(p, cs[n]) /\ p \in Programs
      BY DEF Control
    <3>2. ds[n].pc \in 1..(Len(p[cs[n].fun].body) + 1)
      BY <3>1, BodyFacts DEF InProgram, Moved1
    <3> QED BY <2>1, <3>1, <3>2 DEF InProgram, Moved1
  <2>2. CASE i # n
    <3>1. i \in 1..(n - 1) /\ i \in 1..Len(cs)
      BY <2>2
    <3> QED BY <3>1 DEF Control
  <2> QED BY <2>1, <2>2
<1>3. ASSUME NEW i \in 2..n PROVE Started(p, ds[i - 1], ds[i])
  <2>1. i - 1 \in 1..(n - 1) /\ i \in 1..n /\ i \in 2..Len(cs)
    OBVIOUS
  <2>2. Started(p, cs[i - 1], cs[i]) /\ ds[i - 1] = cs[i - 1]
    BY <2>1 DEF Control
  <2> QED BY <1>1, <2>1, <2>2 DEF Started
<1> QED BY <1>1, <1>2, <1>3 DEF Control

LEMMA ControlAdvance ==
  ASSUME Shapes, Control(prog, calls), ~AtEnd, calls' = Advance(calls), prog' = prog
  PROVE  Control(prog', calls')
<1> DEFINE n == Len(calls)
<1>1. n \in Nat /\ n >= 1
  BY DEF Shapes, IsSeq
<1>2. /\ Len(calls') = n /\ \A i \in 1..(n - 1) : calls'[i] = calls[i] /\ Moved1(calls[n], calls'[n])
  BY AdvanceFacts DEF Shapes, Moved1
<1>3. calls[n].pc \in DOMAIN prog[calls[n].fun].body
  BY AtStmtFacts DEF Top
<1>4. Moved1(calls[n], calls'[n])
  BY AdvanceFacts DEF Shapes, Moved1
<1> HIDE DEF n
<1> QED BY <1>1, <1>2, <1>3, <1>4, ControlMoves DEF n

LEMMA ControlEnter ==
  ASSUME Shapes, Control(prog, calls), Enter
  PROVE  Control(prog', calls')
<1> DEFINE n == Len(calls)
<1>1. n \in Nat /\ n >= 1 /\ Top = calls[n]
  BY DEF Shapes, IsSeq, Top
<1>2. PICK e : /\ calls' = Append(calls, e)
               /\ e.fun = Stmt.call.fun /\ e.pc = 1 /\ e.site = Site /\ e.tag = NewTag
               /\ e.ret = ReturnVar(Stmt.call, Top.tag)
  BY EnterEffect DEF Activation
<1>3. Len(calls') = n + 1 /\ calls'[n + 1] = e /\ \A i \in 1..n : calls'[i] = calls[i]
  BY <1>2, AppendFacts DEF Shapes
<1>4. /\ prog' = prog /\ AtCall
  BY DEF Enter
<1>5. InProgram(prog, e)
  <2>1. e.fun \in DOMAIN prog /\ prog \in Programs
    BY <1>2, <1>4, CalleeFacts DEF Control
  <2>2. e.pc \in 1..(Len(prog[e.fun].body) + 1)
    BY <1>2, <2>1, BodyFacts
  <2> QED BY <2>1, <2>2 DEF InProgram
<1>6. Started(prog, Top, e)
  BY <1>2, <1>4, CalleeFacts DEF Started, Site
<1> HIDE DEF n
<1>7. ASSUME NEW i \in 1..(n + 1) PROVE InProgram(prog, calls'[i])
  <2>1. CASE i = n + 1
    BY <1>3, <1>5, <2>1
  <2>2. CASE i # n + 1
    <3>1. i \in 1..n
      BY <1>1, <2>2
    <3> QED BY <1>3, <3>1 DEF Control, n
  <2> QED BY <2>1, <2>2
<1>8. ASSUME NEW i \in 2..(n + 1) PROVE Started(prog, calls'[i - 1], calls'[i])
  <2>1. CASE i = n + 1
    <3>1. i - 1 = n /\ n \in 1..n
      BY <1>1, <2>1
    <3> QED BY <1>1, <1>3, <1>6, <2>1, <3>1
  <2>2. CASE i # n + 1
    <3>1. i \in 1..n /\ i - 1 \in 1..n /\ i \in 2..n
      BY <1>1, <2>2
    <3> QED BY <1>3, <3>1 DEF Control, n
  <2> QED BY <2>1, <2>2
<1>9. calls'[1] = calls[1]
  BY <1>1, <1>3
<1> QED BY <1>3, <1>4, <1>7, <1>8, <1>9 DEF Control

LEMMA ControlLeave ==
  ASSUME Shapes, Control(prog, calls), Leave
  PROVE  Control(prog', calls')
<1> DEFINE n == Len(calls) - 1
<1>1. /\ n \in Nat /\ n >= 1 /\ Len(calls) = n + 1 /\ Len(calls') = n
      /\ \A i \in 1..(n - 1) : calls'[i] = calls[i]
      /\ Caller = calls[n] /\ Moved1(calls[n], calls'[n])
  <2>1. /\ Len(calls) \in Nat /\ Len(calls) >= 2 /\ Len(calls') = n
        /\ \A i \in 1..(Len(calls) - 2) : calls'[i] = calls[i]
        /\ Moved1(Caller, calls'[n]) /\ Caller = calls[n]
    BY LeaveCalls DEF Moved1, Caller
  <2>2. n - 1 = Len(calls) - 2 /\ Len(calls) = n + 1 /\ n \in Nat /\ n >= 1
    BY <2>1
  <2> HIDE DEF n
  <2> QED BY <2>1, <2>2
<1>2. calls[n].pc \in DOMAIN prog[calls[n].fun].body
  <2>1. n + 1 \in 2..Len(calls) /\ n + 1 - 1 = n
    BY <1>1
  <2>2. Started(prog, calls[n], calls[n + 1])
    BY <2>1 DEF Control
  <2> QED BY <2>2 DEF Started
<1>3. prog' = prog
  BY DEF Leave
<1> HIDE DEF n
<1>4. n <= Len(calls) /\ Len(calls) \in Nat
  BY <1>1
<1> QED BY <1>1, <1>2, <1>3, <1>4, ControlMoves

LEMMA ControlStep ==
  ASSUME Shapes, Control(prog, calls), [Next]_vars
  PROVE  Control(prog', calls')
<1>1. CASE Assign \/ Return \/ EscapeIfZero \/ CallUnreachable \/ Ignore
  <2>1. prog' = prog /\ calls' = Advance(calls)
    <3>1. ASSUME Ignore PROVE prog' = prog /\ calls' = Advance(calls)
      <4>1. calls' = Advance(calls) /\ UNCHANGED <<prog, limit>>
        BY <3>1, Zenon DEF Ignore
      <4> QED BY <4>1
    <3> QED BY <1>1, <3>1 DEF Assign, Return, EscapeIfZero, CallUnreachable
  <2>2. ~AtEnd
    BY <1>1 DEF Assign, Return, EscapeIfZero, CallUnreachable, Ignore, AtCall, AtStmt
  <2> QED BY <2>1, <2>2, ControlAdvance
<1>2. CASE Enter \/ Leave
  BY <1>2, ControlEnter, ControlLeave
<1>3. CASE UNCHANGED vars
  BY <1>3 DEF vars
<1> QED BY <1>1, <1>2, <1>3 DEF Next

LEMMA InitControl == Init => Control(prog, calls)
<1> SUFFICES ASSUME Init PROVE Control(prog, calls)
  OBVIOUS
<1>1. /\ prog \in Programs /\ Len(calls) = 1 /\ calls[1].fun = "main" /\ calls[1].pc = 1
      /\ calls[1].tag = None /\ calls[1].ret = None
  BY DEF Init, Activation
<1>2. "main" \in DOMAIN prog
  BY <1>1, ProgramsAssumption
<1>3. InProgram(prog, calls[1])
  BY <1>1, <1>2, BodyFacts DEF InProgram
<1> QED BY <1>1, <1>3 DEF Control

-----------------------------------------------------------------------------
(***************************************************************************)
(* The assignments of the arguments to the parameters.                     *)
(***************************************************************************)
BoundTable(b, store, call, tag) ==
    LET params == prog[call.fun].params
    IN /\ b[0] = store
       /\ \A i \in 1..Len(params) :
             b[i] = Bind(b[i - 1], <<params[i], tag>>, Eval(call.args[i], b[i - 1], Top.tag))

LEMMA BoundParamsIs ==
  ASSUME NEW store, NEW call, NEW tag, Len(prog[call.fun].params) \in Nat
  PROVE  \E b : /\ BoundTable(b, store, call, tag)
                /\ BoundParams(store, call, tag) = b[Len(prog[call.fun].params)]
<1> DEFINE params == prog[call.fun].params
           N == Len(params)
           G(i, before) == Bind(before, <<params[i], tag>>, Eval(call.args[i], before, Top.tag))
           K == {n \in Nat : \E f : f = [i \in 0..n |-> IF i = 0 THEN store ELSE G(i, f[i - 1])]}
<1> HIDE DEF G
<1>1. 0 \in K
  <2>1. [i \in 0..0 |-> store] = [i \in 0..0 |-> IF i = 0 THEN store ELSE G(i, [j \in 0..0 |-> store][i - 1])]
    BY \A i \in 0..0 : i = 0
  <2> QED BY <2>1
<1>2. ASSUME NEW n \in Nat, n \in K PROVE n + 1 \in K
  <2>1. PICK f : f = [i \in 0..n |-> IF i = 0 THEN store ELSE G(i, f[i - 1])]
    BY <1>2
  <2> DEFINE h == [i \in 0..(n + 1) |-> IF i = 0 THEN store ELSE G(i, f[i - 1])]
  <2>2. \A i \in 0..n : i \in 0..(n + 1)
    OBVIOUS
  <2>3. \A i \in 0..n : h[i] = f[i]
    <3> TAKE i \in 0..n
    <3>1. f[i] = IF i = 0 THEN store ELSE G(i, f[i - 1])
      BY <2>1, Zenon
    <3>2. h[i] = IF i = 0 THEN store ELSE G(i, f[i - 1])
      BY <2>2, Zenon
    <3> QED BY <3>1, <3>2, Zenon
  <2>4. \A i \in 0..(n + 1) : i # 0 => h[i - 1] = f[i - 1]
    <3> TAKE i \in 0..(n + 1)
    <3>1. i # 0 => i - 1 \in 0..n
      OBVIOUS
    <3> QED BY <2>3, <3>1, Zenon
  <2>5. h = [i \in 0..(n + 1) |-> h[i]] /\ \A i \in 0..(n + 1) : h[i] = IF i = 0 THEN store ELSE G(i, f[i - 1])
    BY Zenon
  <2> HIDE DEF h
  <2>6. h = [i \in 0..(n + 1) |-> IF i = 0 THEN store ELSE G(i, h[i - 1])]
    BY <2>4, <2>5, Zenon
  <2>7. n + 1 \in Nat
    OBVIOUS
  <2> QED BY <2>6, <2>7
<1>3. N \in K
  <2> HIDE DEF K
  <2> QED BY <1>1, <1>2, SetInduction
<1> DEFINE bound[i \in 0..N] == IF i = 0 THEN store ELSE G(i, bound[i - 1])
<1>4. bound = [i \in 0..N |-> IF i = 0 THEN store ELSE G(i, bound[i - 1])]
  <2>1. \E f : f = [i \in 0..N |-> IF i = 0 THEN store ELSE G(i, f[i - 1])]
    BY <1>3
  <2> HIDE DEF N
  <2> QED BY <2>1, Zenon DEF bound
<1>5. BoundParams(store, call, tag) = bound[N]
  BY Zenon DEF BoundParams, G
<1> HIDE DEF bound
<1>6. bound[0] = store /\ \A i \in 1..N : bound[i] = G(i, bound[i - 1])
  <2>1. 0 \in 0..N /\ \A i \in 1..N : i \in 0..N /\ i # 0
    OBVIOUS
  <2> HIDE DEF N
  <2> QED BY <1>4, <2>1, Zenon
<1>7. BoundTable(bound, store, call, tag)
  BY <1>6, Zenon DEF BoundTable, G
<1> QED BY <1>5, <1>7

\* The parameters are added, the rest is kept, and each parameter has the value
\* its argument has in a store where the parameters before have theirs.
LEMMA BoundParamsFacts ==
  ASSUME NEW store, NEW call, NEW tag, Len(prog[call.fun].params) \in Nat,
         DOMAIN prog[call.fun].params = 1..Len(prog[call.fun].params)
  PROVE  /\ \A x : x \in DOMAIN BoundParams(store, call, tag) <=> x \in DOMAIN store \/ x \in Params(call.fun, tag)
         /\ \A x \in DOMAIN store \ Params(call.fun, tag) : BoundParams(store, call, tag)[x] = store[x]
<1> DEFINE params == prog[call.fun].params
           N == Len(params)
           names == Params(call.fun, tag)
<1>1. PICK b : BoundTable(b, store, call, tag) /\ BoundParams(store, call, tag) = b[N]
  BY BoundParamsIs
<1> DEFINE upTo(n) == {<<params[i], tag>> : i \in 1..n}
           K == {n \in Nat : n <= N =>
                    /\ DOMAIN b[n] = DOMAIN store \union upTo(n)
                    /\ \A x \in DOMAIN store \ names : b[n][x] = store[x]}
<1>2. 0 \in K
  BY <1>1 DEF BoundTable
<1>3. ASSUME NEW n \in Nat, n \in K PROVE n + 1 \in K
  <2> SUFFICES ASSUME n + 1 <= N
               PROVE  /\ DOMAIN b[n + 1] = DOMAIN store \union upTo(n + 1)
                      /\ \A x \in DOMAIN store \ names : b[n + 1][x] = store[x]
    OBVIOUS
  <2> DEFINE x1 == <<params[n + 1], tag>>
             v1 == Eval(call.args[n + 1], b[n], Top.tag)
  <2>1. /\ DOMAIN b[n] = DOMAIN store \union upTo(n)
        /\ \A x \in DOMAIN store \ names : b[n][x] = store[x]
    BY <1>3
  <2>2. n + 1 \in 1..N /\ n + 1 - 1 = n
    OBVIOUS
  <2>3. b[n + 1] = Bind(b[n], x1, v1)
    BY <1>1, <2>2 DEF BoundTable
  <2>4. x1 \in names
    BY <2>2 DEF Params
  <2>5. upTo(n + 1) = upTo(n) \union {x1}
    <3>1. \A i \in 1..(n + 1) : i \in 1..n \/ i = n + 1
      OBVIOUS
    <3>2. \A i \in 1..n : i \in 1..(n + 1)
      OBVIOUS
    <3>3. n + 1 \in 1..(n + 1)
      OBVIOUS
    <3> HIDE DEF params
    <3> QED BY <3>1, <3>2, <3>3
  <2> HIDE DEF x1, v1, upTo, names
  <2>6. /\ DOMAIN b[n + 1] = DOMAIN b[n] \union {x1}
        /\ \A x \in DOMAIN b[n] : x # x1 => b[n + 1][x] = b[n][x]
    <3>1. /\ DOMAIN Bind(b[n], x1, v1) = DOMAIN b[n] \union {x1}
          /\ \A x \in DOMAIN b[n] : x # x1 => Bind(b[n], x1, v1)[x] = b[n][x]
      BY DEF Bind
    <3> QED BY <2>3, <3>1, Zenon
  <2>7. DOMAIN b[n + 1] = DOMAIN store \union upTo(n + 1)
    BY <2>1, <2>5, <2>6
  <2>8. \A x \in DOMAIN store \ names : b[n + 1][x] = store[x]
    BY <2>1, <2>4, <2>6
  <2> QED BY <2>7, <2>8
<1>4. N \in K
  <2> HIDE DEF K
  <2> QED BY <1>2, <1>3, SetInduction
<1>5. upTo(N) = names
  BY DEF Params
<1> HIDE DEF upTo, names
<1> QED BY <1>1, <1>4, <1>5 DEF names

-----------------------------------------------------------------------------
(***************************************************************************)
(* No store has a variable of a call that ended.                           *)
(***************************************************************************)
LEMMA WithinKept ==
  ASSUME NEW p, NEW cs, NEW ds, NEW k \in Nat, k >= 1,
         \A i \in 1..k : ds[i].fun = cs[i].fun /\ ds[i].tag = cs[i].tag
  PROVE  \A s, o : Within(p, s, cs, k, o) => Within(p, s, ds, k, o)
<1>1. \A i \in 1..k : Names(p, ds[i]) = Names(p, cs[i])
  BY DEF Names
<1>2. NamesUpTo(p, ds, k) = NamesUpTo(p, cs, k)
  BY <1>1 DEF NamesUpTo
<1> QED BY <1>1, <1>2 DEF Within

LEMMA GlobalNames ==
  ASSUME NEW p \in Programs, NEW c, c.fun = "main", c.tag = None
  PROVE  Names(p, c) = {<<v, None>> : v \in p["main"].locals}
<1>1. p["main"].params = << >>
  BY ProgramsAssumption
<1>2. Owned(p, "main") = p["main"].locals
  BY <1>1 DEF Owned, Range
<1> QED BY <1>2 DEF Names

LEMMA NameIn ==
  ASSUME NEW cs, Control(prog, cs), NEW k \in 1..Len(cs), Len(cs) \in Nat,
         NEW v \in Owned(prog, cs[k].fun) \union Globals
  PROVE  Name(v, cs[k].tag) \in NamesUpTo(prog, cs, k)
<1>1. CASE v \in Globals
  <2>1. Name(v, cs[k].tag) \in Names(prog, cs[1])
    BY <1>1, GlobalNames DEF Name, Globals, Control
  <2>2. 1 \in 1..k
    OBVIOUS
  <2> QED BY <2>1, <2>2 DEF NamesUpTo
<1>2. CASE v \notin Globals
  <2>1. Name(v, cs[k].tag) \in Names(prog, cs[k]) /\ k \in 1..k
    BY <1>2 DEF Name, Names
  <2> QED BY <2>1 DEF NamesUpTo
<1> QED BY <1>1, <1>2

\* What a statement writes.
LEMMA WritesFacts ==
  ASSUME NEW p \in Programs, NEW c, c.fun \in DOMAIN p, c.pc \in DOMAIN p[c.fun].body,
         StmtIn(p, c).op \in {"assign", "call"}
  PROVE  StmtIn(p, c).var \in Owned(p, c.fun) \union p["main"].locals
<1>1. Writes(StmtIn(p, c)) \subseteq Owned(p, c.fun) \union p["main"].locals
  BY ProgramsAssumption DEF WellScoped, StmtIn
<1>2. StmtIn(p, c).var \in Writes(StmtIn(p, c))
  BY DEF Writes
<1> QED BY <1>1, <1>2

\* The activations and the stores put aside keep their variables in a step
\* that is no call.
LEMMA ScopedAdvance ==
  ASSUME Shapes, Scoped, calls' = Advance(calls), prog' = prog
  PROVE  /\ Len(calls) \in 1..Len(calls) /\ Len(calls) \in Nat /\ Top = calls[Len(calls)]
         /\ Len(calls') = Len(calls) /\ calls'[Len(calls)].ret = Top.ret
         /\ \A s, o : Within(prog, s, calls, Len(calls), o) => Within(prog', s, calls', Len(calls'), o)
         /\ \A i \in 2..Len(calls') : ReturnsWithin(prog', calls'[i].saved, calls', i - 1)
<1> DEFINE n == Len(calls)
<1>1. n \in Nat /\ n >= 1 /\ n \in 1..n /\ Top = calls[n]
  BY DEF Shapes, IsSeq, Top
<1>2. /\ Len(calls') = n
      /\ \A i \in 1..(n - 1) : calls'[i] = calls[i]
      /\ calls'[n].fun = calls[n].fun /\ calls'[n].tag = calls[n].tag /\ calls'[n].ret = calls[n].ret
      /\ calls'[n].saved = calls[n].saved
  BY AdvanceFacts DEF Shapes
<1>3. Scoped => \A i \in 2..n : ReturnsWithin(prog, calls[i].saved, calls, i - 1)
  BY DEF Scoped
<1> HIDE DEF n
<1>4. \A i \in 1..n : calls'[i].fun = calls[i].fun /\ calls'[i].tag = calls[i].tag /\ calls'[i].ret = calls[i].ret
                      /\ calls'[i].saved = calls[i].saved
  <2>1. \A i \in 1..n : i \in 1..(n - 1) \/ i = n
    BY <1>1
  <2> QED BY <1>2, <2>1
<1>5. ASSUME NEW k \in 1..n
      PROVE  \A s, o : Within(prog, s, calls, k, o) => Within(prog, s, calls', k, o)
  <2>1. \A i \in 1..k : calls'[i].fun = calls[i].fun /\ calls'[i].tag = calls[i].tag
    BY <1>1, <1>4
  <2> QED BY <1>1, <2>1, WithinKept
<1>6. ASSUME NEW i \in 2..n PROVE ReturnsWithin(prog, calls'[i].saved, calls', i - 1)
  <2>1. i - 1 \in 1..n /\ i \in 1..n
    BY <1>1
  <2> QED BY <1>3, <1>4, <1>5, <2>1 DEF ReturnsWithin
<1> QED BY <1>1, <1>2, <1>4, <1>5, <1>6 DEF n

LEMMA WithinBind ==
  ASSUME NEW p, NEW s, NEW cs, NEW k, NEW o, NEW q, Within(p, s, cs, k, o), o \subseteq q,
         NEW x \in NamesUpTo(p, cs, k) \union q, NEW v, NEW t, t.store = Bind(s.store, x, v)
  PROVE  Within(p, t, cs, k, q)
<1>1. DOMAIN t.store = DOMAIN s.store \union {x}
  BY DEF Bind
<1> QED BY <1>1 DEF Within

LEMMA AssignScoped ==
  ASSUME Shapes, Followed, Control(prog, calls), Scoped, Assign PROVE Scoped'
<1> DEFINE n == Len(calls)
<1>1. calls' = Advance(calls) /\ prog' = prog /\ ~AtEnd /\ Stmt.op = "assign"
  BY DEF Assign, AtStmt
<1>2. /\ flow'.cur = {Assigned(s) : s \in flow.cur} /\ flow'.returns = flow.returns
  BY AssignEffect DEF Followed
<1>3. Stmt.var \in Owned(prog, Top.fun) \union Globals
  BY <1>1, AtStmtFacts, WritesFacts DEF Control, Globals
<1>4. Name(Stmt.var, Top.tag) \in NamesUpTo(prog, calls, n)
  BY <1>1, <1>3, ScopedAdvance, NameIn
<1>5. ASSUME NEW s \in flow.cur PROVE Within(prog, Assigned(s), calls, n, {})
  <2>1. IsStore(s) /\ Within(prog, s, calls, n, {})
    BY StoresAre DEF Followed, Scoped
  <2>2. Assigned(s).store = Bind(s.store, Name(Stmt.var, Top.tag), Eval(Stmt.expr, s.store, Top.tag))
    BY <2>1, AssignedIs, StoreFacts
  <2> HIDE DEF n
  <2>3. DOMAIN Assigned(s).store = DOMAIN s.store \union {Name(Stmt.var, Top.tag)}
    BY <2>2 DEF Bind
  <2> QED BY <1>4, <2>1, <2>3 DEF Within
<1>6. ASSUME NEW s \in flow.returns PROVE Within(prog, s, calls, n, {Top.ret})
  BY DEF Scoped, ReturnsWithin, Top
<1> QED BY <1>1, <1>2, <1>5, <1>6, ScopedAdvance DEF Scoped, ReturnsWithin

LEMMA ReturnScoped ==
  ASSUME Shapes, Followed, Scoped, Return PROVE Scoped'
<1> DEFINE n == Len(calls)
<1>1. calls' = Advance(calls) /\ prog' = prog
  BY DEF Return
<1>2. flow'.cur = flow.cur \ Returning
      /\ flow'.returns = flow.returns \union {Returned(s) : s \in Returning}
  BY ReturnEffect DEF Followed
<1>3. ASSUME NEW s \in Returning PROVE Within(prog, Returned(s), calls, n, {Top.ret})
  <2>1. s \in flow.cur
    BY DEF Returning
  <2>2. IsStore(s) /\ Within(prog, s, calls, n, {})
    BY <2>1, StoresAre DEF Followed, Scoped
  <2>3. Returned(s).store = Bind(s.store, Top.ret, Eval(Stmt.expr, s.store, Top.tag))
    BY <2>2, ReturnedIs, StoreFacts
  <2>4. Top.ret \in NamesUpTo(prog, calls, n) \union {Top.ret} /\ {} \subseteq {Top.ret}
    OBVIOUS
  <2> HIDE DEF n
  <2> QED BY <2>2, <2>3, <2>4, WithinBind
<1>4. ASSUME NEW s \in flow.returns PROVE Within(prog, s, calls, n, {Top.ret})
  BY DEF Scoped, ReturnsWithin, Top
<1>5. ASSUME NEW s \in flow.cur PROVE Within(prog, s, calls, n, {})
  BY DEF Scoped
<1> QED BY <1>1, <1>2, <1>3, <1>4, <1>5, ScopedAdvance DEF Scoped, ReturnsWithin

LEMMA EscapeScoped ==
  ASSUME Shapes, Followed, Scoped, EscapeIfZero PROVE Scoped'
<1> DEFINE n == Len(calls)
<1>1. calls' = Advance(calls) /\ prog' = prog
  BY DEF EscapeIfZero
<1>2. flow'.cur = flow.cur \ Gone /\ flow'.returns = flow.returns
  BY EscapeEffect DEF Followed
<1>4. ASSUME NEW s \in flow.returns PROVE Within(prog, s, calls, n, {Top.ret})
  BY DEF Scoped, ReturnsWithin, Top
<1>5. ASSUME NEW s \in flow.cur PROVE Within(prog, s, calls, n, {})
  BY DEF Scoped
<1> QED BY <1>1, <1>2, <1>4, <1>5, ScopedAdvance DEF Scoped, ReturnsWithin

LEMMA CallUnreachableScoped ==
  ASSUME Shapes, Scoped, CallUnreachable PROVE Scoped'
<1> DEFINE n == Len(calls)
<1>1. calls' = Advance(calls) /\ prog' = prog /\ flow' = flow
  BY DEF CallUnreachable
<1>4. ASSUME NEW s \in flow.returns PROVE Within(prog, s, calls, n, {Top.ret})
  BY DEF Scoped, ReturnsWithin, Top
<1>5. ASSUME NEW s \in flow.cur PROVE Within(prog, s, calls, n, {})
  BY DEF Scoped
<1> QED BY <1>1, <1>4, <1>5, ScopedAdvance DEF Scoped, ReturnsWithin

\* What the cleaners and the end of a call remove is no global.
LEMMA GlobalsStay ==
  ASSUME prog \in Programs, NEW call \in CallsOf(prog), NEW c, c.fun = "main", NEW t, NEW tag
  PROVE  /\ Names(prog, c) \intersect Params(call.fun, tag) = {}
         /\ Names(prog, c) \intersect LocalVars(call.fun, tag) = {}
         /\ ReturnVar(call, t) \notin Names(prog, c)
<1>1. /\ call.fun \in DOMAIN prog \ {"main"} /\ "main" \in DOMAIN prog
      /\ Owned(prog, "main") \intersect Ranges(prog) = {}
  BY ProgramsAssumption
<1>2. Owned(prog, call.fun) \intersect Owned(prog, "main") = {}
  BY <1>1, ProgramsAssumption
<1>3. \A x \in Params(call.fun, tag) : x[1] \in Owned(prog, call.fun)
  BY DEF Params, Owned, Range
<1>4. \A x \in LocalVars(call.fun, tag) : x[1] \in Owned(prog, call.fun)
  BY DEF LocalVars, Owned
<1>5. \A x \in Names(prog, c) : x[1] \in Owned(prog, "main")
  BY DEF Names
<1>6. ReturnVar(call, t)[1] \in Ranges(prog)
  BY DEF ReturnVar, Ranges
<1> QED BY <1>1, <1>2, <1>3, <1>4, <1>5, <1>6

\* The variables of an activation are its parameters and its locals.
LEMMA NamesAre ==
  ASSUME NEW c, DOMAIN prog[c.fun].params = 1..Len(prog[c.fun].params)
  PROVE  Names(prog, c) = Params(c.fun, c.tag) \union LocalVars(c.fun, c.tag)
BY DEF Names, Owned, Range, Params, LocalVars

\* After the end of a statement with a call, nothing is left of the call.
LEMMA UsedWithin ==
  ASSUME NEW s, IsStore(s), NEW cs, Control(prog, cs), NEW k \in 1..Len(cs), Len(cs) \in Nat,
         cs[k].pc \in DOMAIN prog[cs[k].fun].body, IsCall(StmtIn(prog, cs[k])),
         NEW ret, ret = ReturnVar(StmtIn(prog, cs[k]).call, cs[k].tag), NEW tag,
         Within(prog, s, cs, k, Cleaned(cs[k], ret, tag))
  PROVE  LET t == Clean(Used(s, cs[k], ret), Cleaned(cs[k], ret, tag))
         IN /\ StmtIn(prog, cs[k]).op = "return_call" => Within(prog, t, cs, k, {cs[k].ret})
            /\ StmtIn(prog, cs[k]).op # "return_call" => Within(prog, t, cs, k, {})
<1> DEFINE c == cs[k]
           stmt == StmtIn(prog, c)
           names == Cleaned(c, ret, tag)
           u == Used(s, c, ret)
           t == Clean(u, names)
<1>1. stmt = StmtOf(c) /\ prog \in Programs /\ c.fun \in DOMAIN prog
  BY DEF StmtIn, StmtOf, Control, InProgram
<1>2. stmt.call \in CallsOf(prog)
  BY <1>1, CallFacts
<1>3. Names(prog, cs[1]) \intersect names = {}
  <2>1. names = {ret} \union Params(stmt.call.fun, tag)
    BY <1>1 DEF Cleaned
  <2>2. cs[1].fun = "main"
    BY DEF Control
  <2>3. /\ Names(prog, cs[1]) \intersect Params(stmt.call.fun, tag) = {}
        /\ ReturnVar(stmt.call, c.tag) \notin Names(prog, cs[1])
    BY <1>1, <1>2, <2>2, GlobalsStay
  <2> HIDE DEF names
  <2> QED BY <2>1, <2>3
<1>4. IsStore(u)
  BY UsedByIs
<1>5. t.store = Without(u.store, names)
  BY <1>4, CleanIs, StoreFacts
<1>6. DOMAIN t.store = DOMAIN u.store \ names
  BY <1>5 DEF Without, Restrict
<1>7. CASE stmt.op = "return_call"
  <2>1. u.store = Bind(s.store, c.ret, CallValue(s, c, ret))
    BY <1>1, <1>7, UsedIs, StoreFacts
  <2>2. DOMAIN u.store = DOMAIN s.store \union {c.ret}
    BY <2>1 DEF Bind
  <2> HIDE DEF names, t, u, stmt
  <2> QED BY <1>3, <1>6, <1>7, <2>2 DEF Within, names, t, u, stmt
<1>8. CASE stmt.op # "return_call"
  <2>1. u.store = Bind(s.store, Name(stmt.var, c.tag), CallValue(s, c, ret))
    BY <1>1, <1>8, UsedIs, StoreFacts
  <2>2. DOMAIN u.store = DOMAIN s.store \union {Name(stmt.var, c.tag)}
    BY <2>1 DEF Bind
  <2>3. stmt.op = "call"
    BY <1>8 DEF IsCall
  <2>4. stmt.var \in Owned(prog, c.fun) \union Globals
    BY <1>1, <2>3, WritesFacts DEF Globals
  <2>5. Name(stmt.var, c.tag) \in NamesUpTo(prog, cs, k)
    BY <2>4, NameIn
  <2> HIDE DEF names, t, u, stmt
  <2> QED BY <1>3, <1>6, <1>8, <2>2, <2>5 DEF Within, names, t, u, stmt
<1> QED BY <1>7, <1>8

LEMMA CleanWithin ==
  ASSUME prog \in Programs, NEW s, IsStore(s), NEW cs, cs[1].fun = "main", NEW k, NEW o, Within(prog, s, cs, k, o),
         NEW call \in CallsOf(prog), NEW t, NEW tag, NEW names,
         names = {ReturnVar(call, t)} \union Params(call.fun, tag)
  PROVE  Within(prog, Clean(s, names), cs, k, o)
<1>1. Names(prog, cs[1]) \intersect names = {}
  BY GlobalsStay
<1>2. Clean(s, names).store = Without(s.store, names)
  BY CleanIs, StoreFacts
<1>3. DOMAIN Clean(s, names).store = DOMAIN s.store \ names
  BY <1>2 DEF Without, Restrict
<1> QED BY <1>1, <1>3 DEF Within

LEMMA EnterScoped ==
  ASSUME Shapes, Followed, Control(prog, calls), Scoped, Enter PROVE Scoped'
<1> DEFINE n == Len(calls)
<1>1. /\ flow'.cur = {InitFunParams(s, Stmt.call, NewTag) : s \in flow.cur} /\ flow'.returns = {}
  BY EnterEffect
<1>2. PICK e : /\ calls' = Append(calls, e)
               /\ e.fun = Stmt.call.fun /\ e.tag = NewTag /\ e.saved = flow.returns
  BY EnterEffect DEF Activation
<1>3. /\ n \in Nat /\ n >= 1 /\ Len(calls') = n + 1 /\ calls'[n + 1] = e
      /\ \A i \in 1..n : calls'[i] = calls[i]
  BY <1>2, AppendFacts DEF Shapes, IsSeq
<1>4. prog' = prog /\ AtCall /\ prog \in Programs
  BY DEF Enter, Control
<1>5. \A k \in 1..n : \A s, o : Within(prog, s, calls, k, o) => Within(prog, s, calls', k, o)
  <2> TAKE k \in 1..n
  <2>1. k \in Nat /\ k >= 1 /\ \A i \in 1..k : i \in 1..n
    BY <1>3
  <2> HIDE DEF n
  <2> QED BY <1>3, <2>1, WithinKept
<1>6. ASSUME NEW s \in flow.cur
      PROVE  Within(prog, InitFunParams(s, Stmt.call, NewTag), calls', n + 1, {})
  <2> DEFINE b == BoundParams(s.store, Stmt.call, NewTag)
  <2>1. IsStore(s) /\ Within(prog, s, calls, n, {})
    BY StoresAre DEF Followed, Scoped
  <2>2. InitFunParams(s, Stmt.call, NewTag).store = b
    BY <2>1, InitFunParamsIs, StoreFacts
  <2>3. Stmt.call.fun \in DOMAIN prog
    BY <1>4, CalleeFacts
  <2>4. /\ Len(prog[Stmt.call.fun].params) \in Nat
        /\ DOMAIN prog[Stmt.call.fun].params = 1..Len(prog[Stmt.call.fun].params)
    BY <1>4, <2>3, BodyFacts
  <2>5. DOMAIN b = DOMAIN s.store \union Params(Stmt.call.fun, NewTag)
    <3>1. \A x : x \in DOMAIN b <=> x \in DOMAIN s.store \/ x \in Params(Stmt.call.fun, NewTag)
      BY <2>4, BoundParamsFacts
    <3> HIDE DEF b
    <3> QED BY <3>1
  <2>6. Params(Stmt.call.fun, NewTag) \subseteq Names(prog, e)
    BY <1>2, <2>4, NamesAre
  <2> HIDE DEF b, n
  <2>7. NamesUpTo(prog, calls, n) \union Names(prog, e) \subseteq NamesUpTo(prog, calls', n + 1)
    <3>1. n + 1 \in 1..(n + 1) /\ \A i \in 1..n : i \in 1..(n + 1)
      BY <1>3
    <3> QED BY <1>3, <3>1 DEF NamesUpTo
  <2>8. calls'[1] = calls[1]
    BY <1>3
  <2> QED BY <2>1, <2>2, <2>5, <2>6, <2>7, <2>8 DEF Within
<1>7. ASSUME NEW i \in 2..(n + 1) PROVE ReturnsWithin(prog, calls'[i].saved, calls', i - 1)
  <2>1. CASE i = n + 1
    <3>1. ReturnsWithin(prog, flow.returns, calls, n)
      BY DEF Scoped
    <3> HIDE DEF n
    <3>2. i - 1 = n /\ n \in 1..n /\ calls'[i].saved = flow.returns /\ calls'[n] = calls[n]
      BY <1>2, <1>3, <2>1
    <3> QED BY <1>5, <3>1, <3>2 DEF ReturnsWithin
  <2>2. CASE i # n + 1
    <3>1. i \in 2..n /\ i - 1 \in 1..n /\ i \in 1..n
      BY <1>3, <2>2
    <3>2. ReturnsWithin(prog, calls[i].saved, calls, i - 1)
      BY <3>1 DEF Scoped
    <3> HIDE DEF n
    <3> QED BY <1>3, <1>5, <3>1, <3>2 DEF ReturnsWithin
  <2> QED BY <2>1, <2>2
<1> QED BY <1>1, <1>3, <1>4, <1>6, <1>7 DEF Scoped, ReturnsWithin

LEMMA IgnoreScoped ==
  ASSUME Shapes, Followed, Control(prog, calls), Scoped, Ignore PROVE Scoped'
<1> DEFINE n == Len(calls)
           ret == ReturnVar(Stmt.call, Top.tag)
           names == Cleaned(Top, ret, NewTag)
           used(s) == Clean(Used(s, Top, ret), names)
<1>1. calls' = Advance(calls) /\ prog' = prog /\ AtCall /\ prog \in Programs
  <2>1. calls' = Advance(calls) /\ UNCHANGED <<prog, limit>> /\ AtCall
    BY Zenon DEF Ignore
  <2> QED BY <2>1 DEF Control
<1>2. /\ flow'.cur = (IF StmtOf(Top).op = "return_call" THEN {} ELSE {used(s) : s \in AnyResults})
      /\ flow'.returns = {Clean(s, names) : s \in flow.returns}
                         \union (IF StmtOf(Top).op = "return_call" THEN {used(s) : s \in AnyResults} ELSE {})
  BY IgnoreEffect DEF UsedBy, CleanAll
<1>3. /\ Stmt.call \in CallsOf(prog) /\ Stmt.call.fun \in DOMAIN prog
      /\ Top.fun \in DOMAIN prog /\ Top.pc \in DOMAIN prog[Top.fun].body
      /\ Stmt = StmtIn(prog, Top) /\ IsCall(Stmt) /\ StmtOf(Top) = Stmt
  BY <1>1, CalleeFacts DEF Stmt
<1>4. n \in Nat /\ n >= 1 /\ n \in 1..n /\ Top = calls[n] /\ calls[1].fun = "main"
  BY DEF Shapes, IsSeq, Top, Control
<1>5. names = {ret} \union Params(Stmt.call.fun, NewTag)
  BY <1>3 DEF Cleaned
<1>6. ASSUME NEW s \in flow.returns PROVE Within(prog, Clean(s, names), calls, n, {Top.ret})
  <2>1. IsStore(s) /\ Within(prog, s, calls, n, {Top.ret})
    BY StoresAre DEF Followed, Scoped, ReturnsWithin, Top
  <2> HIDE DEF n, names
  <2> QED BY <1>1, <1>3, <1>4, <1>5, <2>1, CleanWithin
<1>7. ASSUME NEW t \in AnyResults
      PROVE  /\ Stmt.op = "return_call" => Within(prog, used(t), calls, n, {Top.ret})
             /\ Stmt.op # "return_call" => Within(prog, used(t), calls, n, {})
  <2>1. PICK s \in flow.cur, v \in Val : t = AnyResult(s, Stmt.call, NewTag, v)
    BY DEF AnyResults
  <2>2. IsStore(s) /\ Within(prog, s, calls, n, {})
    BY StoresAre DEF Followed, Scoped
  <2> DEFINE b == BoundParams(s.store, Stmt.call, NewTag)
  <2>3. IsStore(t) /\ t.store = Bind(b, ret, v)
    <3>1. InitFunParams(s, Stmt.call, NewTag).store = b
      BY <2>2, InitFunParamsIs, StoreFacts
    <3> QED BY <2>1, <2>2, <3>1, AnyResultIs
  <2>4. DOMAIN b = DOMAIN s.store \union Params(Stmt.call.fun, NewTag)
    <3>1. /\ Len(prog[Stmt.call.fun].params) \in Nat
          /\ DOMAIN prog[Stmt.call.fun].params = 1..Len(prog[Stmt.call.fun].params)
      BY <1>1, <1>3, BodyFacts
    <3>2. \A x : x \in DOMAIN b <=> x \in DOMAIN s.store \/ x \in Params(Stmt.call.fun, NewTag)
      BY <3>1, BoundParamsFacts
    <3> HIDE DEF b
    <3> QED BY <3>2
  <2> HIDE DEF b, n, names
  <2>5. DOMAIN t.store = DOMAIN b \union {ret}
    BY <2>3 DEF Bind
  <2> HIDE DEF ret
  <2>6. Within(prog, t, calls, n, names)
    BY <1>5, <2>2, <2>4, <2>5 DEF Within
  <2> QED BY <1>3, <1>4, <2>3, <2>6, UsedWithin DEF names, ret, n
<1> HIDE DEF used, names, n
<1>8. \A s \in flow'.cur : Within(prog, s, calls, n, {})
  BY <1>2, <1>3, <1>7
<1>9. \A s \in flow'.returns : Within(prog, s, calls, n, {Top.ret})
  <2> TAKE s \in flow'.returns
  <2>1. CASE s \in {Clean(r, names) : r \in flow.returns}
    BY <1>6, <2>1
  <2>2. CASE s \notin {Clean(r, names) : r \in flow.returns}
    BY <1>2, <1>3, <1>7, <2>2
  <2> QED BY <2>1, <2>2
<1> QED BY <1>1, <1>8, <1>9, ScopedAdvance DEF Scoped, ReturnsWithin, n

LEMMA LeaveScoped ==
  ASSUME Shapes, Followed, Control(prog, calls), Scoped, Leave PROVE Scoped'
<1> DEFINE n == Len(calls)
           m == n - 1
           names == Cleaned(Caller, Top.ret, Top.tag)
           used(s) == Clean(Used(Popped(s), Caller, Top.ret), names)
<1>1. prog' = prog /\ prog \in Programs
  BY DEF Leave, Control
<1>2. /\ n \in Nat /\ n >= 2 /\ m \in Nat /\ m >= 1 /\ m \in 1..n /\ n = m + 1 /\ n \in 2..n /\ n \in 1..n
      /\ Top = calls[n] /\ Caller = calls[m] /\ calls[1].fun = "main"
  BY LeaveCalls DEF Top, Caller, Control
<1>3. /\ Len(calls') = m
      /\ \A i \in 1..m : /\ calls'[i].fun = calls[i].fun /\ calls'[i].tag = calls[i].tag
                         /\ calls'[i].ret = calls[i].ret /\ calls'[i].saved = calls[i].saved
  <2>1. \A i \in 1..m : i \in 1..(n - 2) \/ i = m
    <3> HIDE DEF m, n
    <3> QED BY <1>2
  <2>2. /\ \A i \in 1..(n - 2) : calls'[i] = calls[i]
        /\ Len(calls') = m
        /\ calls'[m].fun = calls[m].fun /\ calls'[m].tag = calls[m].tag
        /\ calls'[m].ret = calls[m].ret /\ calls'[m].saved = calls[m].saved
    BY <1>2, LeaveCalls
  <2> HIDE DEF m, n
  <2> QED BY <2>1, <2>2
<1>4. /\ flow'.cur = (IF StmtOf(Caller).op = "return_call" THEN {} ELSE {used(s) : s \in flow.cur \union flow.returns})
      /\ flow'.returns = {Clean(s, names) : s \in Top.saved}
                         \union (IF StmtOf(Caller).op = "return_call"
                                 THEN {used(s) : s \in flow.cur \union flow.returns} ELSE {})
  <2>1. UsedBy(Caller, Results, Top.ret, Top.tag) = {used(s) : s \in flow.cur \union flow.returns}
    BY DEF UsedBy, Results
  <2> QED BY <2>1, LeaveEffect DEF CleanAll
<1>5. /\ Started(prog, Caller, Top) /\ StmtOf(Caller) = StmtIn(prog, Caller)
      /\ InProgram(prog, Caller) /\ InProgram(prog, Top)
  BY <1>2 DEF Control, StmtOf, StmtIn
<1> DEFINE call == StmtIn(prog, Caller).call
<1>6. /\ call \in CallsOf(prog) /\ Top.ret = ReturnVar(call, Caller.tag)
      /\ call.fun = Top.fun /\ Top.fun \in DOMAIN prog
      /\ Caller.pc \in DOMAIN prog[Caller.fun].body /\ IsCall(StmtIn(prog, Caller))
  BY <1>1, <1>5, CallFacts DEF Started, InProgram
<1>7. names = {Top.ret} \union Params(call.fun, Top.tag)
  BY <1>5 DEF Cleaned
<1>8. \A k \in 1..m : \A s, o : Within(prog, s, calls, k, o) => Within(prog, s, calls', k, o)
  <2> TAKE k \in 1..m
  <2>1. k \in Nat /\ k >= 1 /\ \A i \in 1..k : i \in 1..m
    BY <1>2
  <2> HIDE DEF m, n
  <2> QED BY <1>3, <2>1, WithinKept
<1>9. ASSUME NEW s \in flow.cur \union flow.returns
      PROVE  /\ StmtIn(prog, Caller).op = "return_call" => Within(prog, used(s), calls, m, {Caller.ret})
             /\ StmtIn(prog, Caller).op # "return_call" => Within(prog, used(s), calls, m, {})
  <2> DEFINE t == Popped(s)
  <2>1. IsStore(s) /\ Within(prog, s, calls, n, {Top.ret})
    BY StoresAre DEF Followed, Scoped, ReturnsWithin, Top, Within
  <2>2. IsStore(t) /\ t.store = Without(s.store, LocalVars(Top.fun, Top.tag))
    BY <2>1, PoppedIs, StoreFacts
  <2>3. DOMAIN t.store = DOMAIN s.store \ LocalVars(Top.fun, Top.tag)
    BY <2>2 DEF Without, Restrict
  <2> HIDE DEF t
  <2>4. Names(prog, Top) = Params(Top.fun, Top.tag) \union LocalVars(Top.fun, Top.tag)
    BY <1>1, <1>6, BodyFacts, NamesAre
  <2>5. NamesUpTo(prog, calls, n) \subseteq NamesUpTo(prog, calls, m) \union Names(prog, Top)
    <3>1. \A i \in 1..n : i \in 1..m \/ i = n
      BY <1>2
    <3> HIDE DEF n, m
    <3> QED BY <1>2, <3>1 DEF NamesUpTo
  <2>6. Names(prog, calls[1]) \intersect LocalVars(Top.fun, Top.tag) = {}
    BY <1>1, <1>2, <1>6, GlobalsStay
  <2> HIDE DEF n, m, names, call
  <2>7. Within(prog, t, calls, m, names)
    BY <1>6, <1>7, <2>1, <2>3, <2>4, <2>5, <2>6 DEF Within
  <2>8. Len(calls) \in Nat /\ m \in 1..Len(calls)
    BY <1>2 DEF n
  <2>9. LET u == Clean(Used(t, calls[m], Top.ret), Cleaned(calls[m], Top.ret, Top.tag))
        IN /\ StmtIn(prog, calls[m]).op = "return_call" => Within(prog, u, calls, m, {calls[m].ret})
           /\ StmtIn(prog, calls[m]).op # "return_call" => Within(prog, u, calls, m, {})
    BY <1>2, <1>6, <2>2, <2>7, <2>8, UsedWithin DEF names, call
  <2> QED BY <1>2, <2>9 DEF t, names
<1>10. ASSUME NEW s \in Top.saved PROVE Within(prog, Clean(s, names), calls, m, {Caller.ret})
  <2>1. IsStore(s)
    BY <1>2, StoresAre, LeaveCalls DEF Followed
  <2>2. ReturnsWithin(prog, calls[n].saved, calls, m)
    BY <1>2 DEF Scoped
  <2>3. Within(prog, s, calls, m, {Caller.ret})
    BY <1>2, <2>2 DEF ReturnsWithin
  <2> HIDE DEF n, m, names, call
  <2> QED BY <1>1, <1>2, <1>6, <1>7, <2>1, <2>3, CleanWithin
<1>11. ASSUME NEW i \in 2..m PROVE ReturnsWithin(prog, calls'[i].saved, calls', i - 1)
  <2>1. i \in 2..n /\ i - 1 \in 1..m /\ i \in 1..m
    BY <1>2
  <2>2. ReturnsWithin(prog, calls[i].saved, calls, i - 1)
    BY <2>1 DEF Scoped
  <2> HIDE DEF n, m
  <2> QED BY <1>3, <1>8, <2>1, <2>2 DEF ReturnsWithin
<1> HIDE DEF used, names, n, m, call
<1>12. m \in 1..m
  BY <1>2
<1>13. \A s \in flow'.cur : Within(prog, s, calls', m, {})
  BY <1>4, <1>5, <1>8, <1>9, <1>12
<1>14. \A s \in flow'.returns : Within(prog, s, calls', m, {calls'[m].ret})
  <2> SUFFICES ASSUME NEW s \in flow'.returns PROVE Within(prog, s, calls, m, {Caller.ret})
    BY <1>2, <1>3, <1>8, <1>12
  <2>1. CASE s \in {Clean(r, names) : r \in Top.saved}
    BY <1>10, <2>1
  <2>2. CASE s \notin {Clean(r, names) : r \in Top.saved}
    BY <1>4, <1>5, <1>9, <2>2
  <2> QED BY <2>1, <2>2
<1> QED BY <1>1, <1>3, <1>11, <1>13, <1>14 DEF Scoped, ReturnsWithin

LEMMA ScopedStep ==
  ASSUME Shapes, Followed, Control(prog, calls), Scoped, [Next]_vars PROVE Scoped'
<1>1. CASE Next
  BY <1>1, AssignScoped, ReturnScoped, EscapeScoped, CallUnreachableScoped, EnterScoped,
     IgnoreScoped, LeaveScoped DEF Next
<1>2. CASE UNCHANGED vars
  BY <1>2 DEF vars, Scoped
<1> QED BY <1>1, <1>2

LEMMA InitScoped == Init => Scoped
<1> SUFFICES ASSUME Init PROVE Scoped
  OBVIOUS
<1>1. /\ prog \in Programs /\ Len(calls) = 1 /\ calls[1].fun = "main" /\ calls[1].tag = None
      /\ flow.returns = {}
  BY DEF Init, Activation
<1>2. \A s \in flow.cur : DOMAIN s.store = {<<v, None>> : v \in Globals}
  <2> DEFINE start(n) == [from |-> n, val |-> 0, store |-> [x \in {<<v, None>> : v \in Globals} |-> n],
                          real |-> <<[v \in Globals |-> n]>>]
  <2>1. flow.cur = {start(n) : n \in Inputs}
    BY DEF Init
  <2>2. \A n : DOMAIN start(n).store = {<<v, None>> : v \in Globals}
    OBVIOUS
  <2> HIDE DEF start
  <2> QED BY <2>1, <2>2
<1>3. Names(prog, calls[1]) = {<<v, None>> : v \in Globals}
  BY <1>1, GlobalNames DEF Globals
<1>4. Names(prog, calls[1]) \subseteq NamesUpTo(prog, calls, 1)
  BY DEF NamesUpTo
<1> QED BY <1>1, <1>2, <1>3, <1>4 DEF Scoped, Within, ReturnsWithin

\* When the analysis of main is back at its own statements, no variable of a
\* call is left in the stores: the cleaners and the ends of the calls removed
\* all parameters, locals and return variables, those of ignored calls too.
THEOREM CallsCleanUp == Spec => []NothingLeft
<1> DEFINE Inv == IInv /\ Followed /\ Control(prog, calls) /\ Scoped
<1>1. Inv => NothingLeft
  <2> SUFFICES ASSUME Inv, Len(calls) = 1, NEW s \in flow.cur
               PROVE  DOMAIN s.store = {<<v, None>> : v \in Globals}
    BY DEF NothingLeft
  <2>1. Within(prog, s, calls, 1, {})
    BY DEF Scoped
  <2>2. NamesUpTo(prog, calls, 1) = Names(prog, calls[1])
    BY \A i \in 1..1 : i = 1 DEF NamesUpTo
  <2>3. Names(prog, calls[1]) = {<<v, None>> : v \in Globals}
    BY GlobalNames DEF Control, Globals
  <2> QED BY <2>1, <2>2, <2>3 DEF Within
<1>2. Init => Inv
  BY InitIInv, InitFollowed, InitControl, InitScoped
<1>3. Inv /\ [Next]_vars => Inv'
  BY IInvStep, FollowedStep, ControlStep, ScopedStep DEF IInv
<1> QED BY <1>1, <1>2, <1>3, PTL DEF Spec

-----------------------------------------------------------------------------
(***************************************************************************)
(* The values of the variables.                                            *)
(***************************************************************************)
\* What the statements of an activation have set.
SetBefore(p, c) == UNION {Writes(p[c.fun].body[j]) : j \in 1..(c.pc - 1)}

\* The real variables of the first k activations.
Shaped(p, real, cs, k) ==
    /\ IsSeq(real) /\ Len(real) = k
    /\ \A i \in 1..k : /\ Range(p[cs[i].fun].params) \subseteq DOMAIN real[i]
                       /\ DOMAIN real[i] \subseteq Owned(p, cs[i].fun)
    /\ DOMAIN real[1] = p["main"].locals

\* Each of the first k activations has set what its body says it has, and has
\* its true values in the store.
Truth(p, s, cs, k) ==
    \A i \in 1..k :
        /\ SetBefore(p, cs[i]) \subseteq DOMAIN s.real[i] \union p["main"].locals
        /\ \A v \in DOMAIN s.real[i] : Holds(s.store, <<v, cs[i].tag>>, s.real[i][v])

\* A return flow of the k-th activation: its own variables may have changed.
ReturnTrue(p, s, cs, k) ==
    /\ Shaped(p, s.real, cs, k) /\ Truth(p, s, cs, k - 1)
    /\ Holds(s.store, cs[k].ret, s.val)

\* Two activations are told apart by their sites, and by their names when they
\* are of one function.
Apart(cs) ==
    \A i, j \in 1..Len(cs) : i < j =>
        /\ cs[i].site # cs[j].site
        /\ cs[i].fun = cs[j].fun => cs[i].tag # cs[j].tag

\* What follows a return is not reached.
Passed(p, c) == c.pc > 1 /\ p[c.fun].body[c.pc - 1].op \in {"return", "return_call"}

Faithful ==
    /\ Apart(calls)
    /\ \A s \in flow.cur : Shaped(prog, s.real, calls, Len(calls)) /\ Truth(prog, s, calls, Len(calls))
    /\ \A s \in flow.returns : ReturnTrue(prog, s, calls, Len(calls))
    /\ \A i \in 2..Len(calls) : \A s \in calls[i].saved : ReturnTrue(prog, s, calls, i - 1)

-----------------------------------------------------------------------------
(***************************************************************************)
(* Live variables do not disturb each other.                               *)
(***************************************************************************)
LEMMA NamesApart ==
  ASSUME NEW cs, Control(prog, cs), Apart(cs), Len(cs) \in Nat,
         NEW i \in 1..Len(cs), NEW j \in 1..Len(cs), i # j
  PROVE  Names(prog, cs[i]) \intersect Names(prog, cs[j]) = {}
<1>1. /\ prog \in Programs /\ cs[i].fun \in DOMAIN prog /\ cs[j].fun \in DOMAIN prog
  BY DEF Control, InProgram
<1>2. cs[i].fun = cs[j].fun => cs[i].tag # cs[j].tag
  <2>1. i < j \/ j < i
    OBVIOUS
  <2> QED BY <2>1 DEF Apart
<1>3. cs[i].fun # cs[j].fun => Owned(prog, cs[i].fun) \intersect Owned(prog, cs[j].fun) = {}
  BY <1>1, ProgramsAssumption
<1> QED BY <1>2, <1>3 DEF Names

\* No variable has the name of a return variable, nor None.
LEMMA RetIsNoName ==
  ASSUME NEW cs, Control(prog, cs), Len(cs) \in Nat, NEW i \in 1..Len(cs), NEW j \in 1..Len(cs)
  PROVE  cs[j].ret \notin Names(prog, cs[i])
<1>1. prog \in Programs /\ cs[i].fun \in DOMAIN prog
  BY DEF Control, InProgram
<1>2. /\ Owned(prog, cs[i].fun) \intersect Ranges(prog) = {}
      /\ None \notin Owned(prog, cs[i].fun) \X (Ranges(prog) \union {None})
  BY <1>1, ProgramsAssumption
<1>3. cs[i].tag \in Ranges(prog) \union {None}
  <2>1. CASE i = 1
    BY <2>1 DEF Control
  <2>2. CASE i # 1
    <3>1. i \in 2..Len(cs) /\ i - 1 \in 1..Len(cs)
      BY <2>2
    <3>2. Started(prog, cs[i - 1], cs[i]) /\ cs[i - 1].fun \in DOMAIN prog
      BY <3>1 DEF Control, InProgram
    <3> QED BY <1>1, <3>2, CallFacts DEF Started
  <2> QED BY <2>1, <2>2
<1>4. CASE j = 1
  BY <1>2, <1>3, <1>4 DEF Control, Names
<1>5. CASE j # 1
  <2>1. j \in 2..Len(cs) /\ j - 1 \in 1..Len(cs)
    BY <1>5
  <2>2. Started(prog, cs[j - 1], cs[j]) /\ cs[j - 1].fun \in DOMAIN prog
    BY <2>1 DEF Control, InProgram
  <2>3. cs[j].ret[1] \in Ranges(prog)
    BY <1>1, <2>2, CallFacts DEF Started, ReturnVar
  <2>4. \A x \in Names(prog, cs[i]) : x[1] \in Owned(prog, cs[i].fun)
    BY DEF Names
  <2> QED BY <1>2, <2>3, <2>4
<1> QED BY <1>4, <1>5

\* The return variable of a call is not that of its caller.
LEMMA RetsApart ==
  ASSUME NEW cs, Control(prog, cs), Apart(cs), Len(cs) \in Nat, NEW i \in 1..Len(cs), NEW j \in 2..Len(cs), i < j
  PROVE  cs[i].ret # cs[j].ret
<1>1. prog \in Programs
  BY DEF Control
<1> DEFINE call(k) == StmtIn(prog, cs[k - 1]).call
<1>2. ASSUME NEW k \in 2..Len(cs)
      PROVE  /\ cs[k].ret[1] = call(k).range /\ cs[k].ret \in Ranges(prog) \X (Ranges(prog) \union {None})
             /\ cs[k].site = [fun |-> call(k).fun, range |-> call(k).range]
             /\ call(k) \in CallsOf(prog)
  <2>1. k - 1 \in 1..Len(cs)
    OBVIOUS
  <2>2. Started(prog, cs[k - 1], cs[k]) /\ cs[k - 1].fun \in DOMAIN prog
    BY <2>1 DEF Control, InProgram
  <2>3. call(k) \in CallsOf(prog) /\ call(k).range \in Ranges(prog)
    BY <1>1, <2>2, CallFacts DEF Started
  <2>4. cs[k - 1].tag \in Ranges(prog) \union {None}
    <3>1. CASE k - 1 = 1
      BY <3>1 DEF Control
    <3>2. CASE k - 1 # 1
      <4>1. k - 1 \in 2..Len(cs) /\ k - 1 - 1 \in 1..Len(cs)
        BY <3>2
      <4>2. Started(prog, cs[k - 1 - 1], cs[k - 1]) /\ cs[k - 1 - 1].fun \in DOMAIN prog
        BY <4>1 DEF Control, InProgram
      <4> QED BY <1>1, <4>2, CallFacts DEF Started
    <3> QED BY <3>1, <3>2
  <2>5. cs[k].ret = ReturnVar(call(k), cs[k - 1].tag)
    BY <2>2 DEF Started
  <2> HIDE DEF call
  <2> QED BY <2>2, <2>3, <2>4, <2>5 DEF Started, ReturnVar, call
<1> HIDE DEF call
<1>3. CASE i = 1
  <2>1. cs[i].ret = None
    BY <1>3 DEF Control
  <2>2. None \notin Ranges(prog) \X (Ranges(prog) \union {None})
    BY <1>1, ProgramsAssumption
  <2> QED BY <1>2, <2>1, <2>2
<1>4. CASE i # 1
  <2>1. i \in 2..Len(cs) /\ j \in 1..Len(cs)
    BY <1>4
  <2>2. cs[i].site # cs[j].site
    BY <2>1 DEF Apart
  <2>3. call(i).range # call(j).range
    <3> SUFFICES ASSUME call(i).range = call(j).range PROVE FALSE
      OBVIOUS
    <3>1. call(i).fun = call(j).fun
      <4>1. \A c, d \in CallsOf(prog) : c.range = d.range => c.fun = d.fun
        BY <1>1, ProgramsAssumption
      <4>2. call(i) \in CallsOf(prog) /\ call(j) \in CallsOf(prog)
        BY <1>2, <2>1
      <4> QED BY <4>1, <4>2
    <3> QED BY <1>2, <2>1, <2>2, <3>1
  <2> QED BY <1>2, <2>1, <2>3
<1> QED BY <1>3, <1>4

\* The activation whose variable v is, for the k-th.
LEMMA FrameFacts ==
  ASSUME NEW cs, Control(prog, cs), Len(cs) \in Nat, NEW k \in 1..Len(cs), NEW real, Len(real) = k,
         NEW v \in Owned(prog, cs[k].fun) \union Globals
  PROVE  /\ Frame(v, real) \in 1..k
         /\ Name(v, cs[k].tag) = <<v, cs[Frame(v, real)].tag>>
         /\ v \in Owned(prog, cs[Frame(v, real)].fun)
         /\ v \notin Globals => Frame(v, real) = k
         /\ v \in Globals => Frame(v, real) = 1
         /\ Frame(v, real) = 1 => v \in Globals
<1>1. cs[1].fun = "main" /\ cs[1].tag = None /\ prog \in Programs
  BY DEF Control
<1>2. Owned(prog, "main") = Globals
  <2>1. prog["main"].params = << >>
    BY <1>1, ProgramsAssumption
  <2> QED BY <2>1 DEF Owned, Range, Globals
<1>3. CASE v \in Globals
  BY <1>1, <1>2, <1>3 DEF Frame, Name
<1>4. CASE v \notin Globals
  BY <1>1, <1>2, <1>4 DEF Frame, Name
<1> QED BY <1>3, <1>4

\* An expression of the statement that the k-th activation is at has its true value.
LEMMA ReadTrue ==
  ASSUME NEW cs, Control(prog, cs), Len(cs) \in Nat, NEW k \in 1..Len(cs), cs[k].pc \in DOMAIN prog[cs[k].fun].body,
         NEW s, Shaped(prog, s.real, cs, k), Truth(prog, s, cs, k),
         NEW e, e.var \in Reads(StmtIn(prog, cs[k]))
  PROVE  /\ Eval(e, s.store, cs[k].tag) = RealEval(e, s.real)
         /\ e.var # None => \E i \in 1..k : Name(e.var, cs[k].tag) \in DOMAIN s.store \intersect Names(prog, cs[i])
<1>1. /\ prog \in Programs /\ cs[k].fun \in DOMAIN prog
      /\ Len(s.real) = k
  BY DEF Control, InProgram, Shaped
<1>2. e.var \in Range(prog[cs[k].fun].params) \union SetBefore(prog, cs[k]) \union Globals \union {None}
  <2>1. WellScoped(prog, cs[k].fun)
    BY <1>1, ProgramsAssumption
  <2> QED BY <1>1, <2>1 DEF WellScoped, StmtIn, SetBefore, Globals
<1>3. CASE e.var = None
  BY <1>3 DEF Eval, RealEval
<1>4. CASE e.var # None
  <2> DEFINE j == Frame(e.var, s.real)
  <2>1. e.var \in Globals \/ e.var \in DOMAIN s.real[k]
    BY <1>2, <1>4 DEF Shaped, Truth, Globals
  <2>2. e.var \in Owned(prog, cs[k].fun) \union Globals
    BY <2>1 DEF Shaped
  <2>3. /\ j \in 1..k
        /\ Name(e.var, cs[k].tag) = <<e.var, cs[j].tag>>
        /\ e.var \notin Globals => j = k
        /\ e.var \in Globals => j = 1
        /\ e.var \in Owned(prog, cs[j].fun)
    <3> DEFINE v == e.var
               real == s.real
    <3>1. v \in Owned(prog, cs[k].fun) \union Globals /\ Len(real) = k
      BY <1>1, <2>2
    <3> HIDE DEF v, real
    <3>2. /\ Frame(v, real) \in 1..k
          /\ Name(v, cs[k].tag) = <<v, cs[Frame(v, real)].tag>>
          /\ v \in Owned(prog, cs[Frame(v, real)].fun)
          /\ v \notin Globals => Frame(v, real) = k
          /\ v \in Globals => Frame(v, real) = 1
      BY <3>1, FrameFacts
    <3> QED BY <3>2 DEF v, real
  <2> HIDE DEF j
  <2>4. e.var \in DOMAIN s.real[j]
    BY <2>1, <2>3 DEF Shaped, Globals
  <2>5. Holds(s.store, <<e.var, cs[j].tag>>, s.real[j][e.var])
    BY <2>3, <2>4 DEF Truth
  <2>6. s.store[Name(e.var, cs[k].tag)] = s.real[j][e.var] /\ Name(e.var, cs[k].tag) \in DOMAIN s.store
    BY <2>3, <2>5 DEF Holds
  <2>7. Name(e.var, cs[k].tag) \in Names(prog, cs[j])
    BY <2>3 DEF Names
  <2>8. Eval(e, s.store, cs[k].tag) = RealEval(e, s.real)
    BY <1>4, <2>6 DEF Eval, RealEval, j
  <2> QED BY <2>3, <2>6, <2>7, <2>8
<1> QED BY <1>3, <1>4

LEMMA SetBeforeMoves ==
  ASSUME NEW p, NEW c, NEW d, Moved1(c, d), c.pc \in Nat \ {0}
  PROVE  \A v : v \in SetBefore(p, d) <=> v \in SetBefore(p, c) \/ v \in Writes(StmtIn(p, c))
<1>1. d.pc - 1 = c.pc /\ d.fun = c.fun
  BY DEF Moved1
<1>2. \A j \in 1..c.pc : j \in 1..(c.pc - 1) \/ j = c.pc
  OBVIOUS
<1>3. c.pc \in 1..c.pc /\ \A j \in 1..(c.pc - 1) : j \in 1..c.pc
  OBVIOUS
<1> QED BY <1>1, <1>2, <1>3 DEF SetBefore, StmtIn

\* A statement sets a variable in the store and in the execution.
LEMMA SetTrue ==
  ASSUME NEW cs, Control(prog, cs), Len(cs) \in Nat, Apart(cs), NEW k \in 1..Len(cs),
         cs[k].pc \in DOMAIN prog[cs[k].fun].body,
         NEW s, Shaped(prog, s.real, cs, k), Truth(prog, s, cs, k),
         NEW v \in Owned(prog, cs[k].fun) \union Globals, Writes(StmtIn(prog, cs[k])) = {v}, NEW value,
         NEW t, t.store = Bind(s.store, Name(v, cs[k].tag), value), t.real = SetReal(s.real, v, value),
         NEW ds, \A i \in 1..(k - 1) : ds[i] = cs[i], Moved1(cs[k], ds[k])
  PROVE  Shaped(prog, t.real, ds, k) /\ Truth(prog, t, ds, k)
<1> DEFINE j == Frame(v, s.real)
           b == Bind(s.real[j], v, value)
<1>1. /\ prog \in Programs /\ cs[k].fun \in DOMAIN prog /\ k \in Nat /\ k >= 1
      /\ IsSeq(s.real) /\ Len(s.real) = k
  BY DEF Control, InProgram, Shaped
<1>2. /\ j \in 1..k /\ Name(v, cs[k].tag) = <<v, cs[j].tag>> /\ v \in Owned(prog, cs[j].fun)
      /\ v \notin Globals => j = k
      /\ v \in Globals => j = 1
      /\ j = 1 => v \in Globals
  <2>1. /\ Frame(v, s.real) \in 1..k
        /\ Name(v, cs[k].tag) = <<v, cs[Frame(v, s.real)].tag>>
        /\ v \in Owned(prog, cs[Frame(v, s.real)].fun)
        /\ v \notin Globals => Frame(v, s.real) = k
        /\ v \in Globals => Frame(v, s.real) = 1
        /\ Frame(v, s.real) = 1 => v \in Globals
    <3> HIDE DEF j, b
    <3> QED BY <1>1, FrameFacts
  <2> QED BY <2>1
<1>3. t.real = [s.real EXCEPT ![j] = b]
  BY DEF SetReal
<1> HIDE DEF j, b
<1>4. /\ IsSeq(t.real) /\ Len(t.real) = k
      /\ \A i \in 1..k : t.real[i] = IF i = j THEN b ELSE s.real[i]
  <2>1. j \in 1..Len(s.real)
    BY <1>1, <1>2
  <2>2. /\ IsSeq(t.real) /\ Len(t.real) = Len(s.real) /\ t.real[j] = b
        /\ \A i \in 1..Len(s.real) : i # j => t.real[i] = s.real[i]
    <3> DEFINE real == s.real
               new == t.real
    <3>1. IsSeq(real) /\ j \in 1..Len(real) /\ new = [real EXCEPT ![j] = b]
      BY <1>1, <1>3, <2>1
    <3> HIDE DEF real, new
    <3>2. PICK S : real \in Seq(S)
      BY <3>1, SeqFacts
    <3>3. real \in Seq(S \union {b})
      BY <3>2
    <3>4. /\ new \in Seq(S \union {b}) /\ Len(new) = Len(real)
          /\ \A i \in 1..Len(real) : new[i] = IF i = j THEN b ELSE real[i]
      BY <3>1, <3>3
    <3>5. IsSeq(new)
      BY <3>4, SeqIs
    <3> QED BY <3>1, <3>4, <3>5 DEF real, new
  <2> QED BY <1>1, <2>2
<1>5. /\ \A x : x \in DOMAIN b <=> x \in DOMAIN s.real[j] \/ x = v
      /\ b[v] = value /\ \A x \in DOMAIN s.real[j] : x # v => b[x] = s.real[j][x]
  BY DEF Bind, b
<1>6. \A i \in 1..k : ds[i].fun = cs[i].fun /\ ds[i].tag = cs[i].tag
  <2>1. \A i \in 1..k : i \in 1..(k - 1) \/ i = k
    BY <1>1
  <2> QED BY <2>1 DEF Moved1
<1>7. Shaped(prog, t.real, ds, k)
  <2>1. ASSUME NEW i \in 1..k
        PROVE  /\ Range(prog[ds[i].fun].params) \subseteq DOMAIN t.real[i]
               /\ DOMAIN t.real[i] \subseteq Owned(prog, ds[i].fun)
    BY <1>2, <1>4, <1>5, <1>6 DEF Shaped
  <2>2. DOMAIN t.real[1] = prog["main"].locals
    <3>1. 1 \in 1..k /\ DOMAIN s.real[1] = Globals
      BY <1>1 DEF Shaped, Globals
    <3>2. CASE j = 1
      <4>1. t.real[1] = b /\ v \in Globals
        BY <1>2, <1>4, <3>1, <3>2
      <4>2. DOMAIN b = DOMAIN s.real[1]
        BY <1>5, <3>1, <3>2, <4>1
      <4> QED BY <3>1, <4>1, <4>2 DEF Globals
    <3>3. CASE j # 1
      BY <1>4, <3>1, <3>3 DEF Globals
    <3> QED BY <3>2, <3>3
  <2> QED BY <1>4, <2>1, <2>2 DEF Shaped
<1>8. ASSUME NEW i \in 1..k PROVE SetBefore(prog, ds[i]) \subseteq DOMAIN t.real[i] \union prog["main"].locals
  <2>1. DOMAIN s.real[i] \subseteq DOMAIN t.real[i]
    BY <1>4, <1>5
  <2>2. SetBefore(prog, cs[i]) \subseteq DOMAIN s.real[i] \union prog["main"].locals
    BY DEF Truth
  <2>3. CASE i = k
    <3>1. \A x : x \in SetBefore(prog, ds[k]) <=> x \in SetBefore(prog, cs[k]) \/ x = v
      <4>1. cs[k].pc \in Nat \ {0}
        BY <1>1, BodyFacts
      <4>2. \A x : x \in SetBefore(prog, ds[k]) <=>
                     x \in SetBefore(prog, cs[k]) \/ x \in Writes(StmtIn(prog, cs[k]))
        BY <4>1, SetBeforeMoves
      <4> QED BY <4>2
    <3>2. v \in DOMAIN t.real[k] \union Globals
      BY <1>1, <1>2, <1>4, <1>5
    <3> QED BY <2>1, <2>2, <2>3, <3>1, <3>2 DEF Globals
  <2>4. CASE i # k
    <3>1. ds[i] = cs[i]
      BY <1>1, <2>4
    <3> QED BY <2>1, <2>2, <3>1
  <2> QED BY <2>3, <2>4
<1>9. ASSUME NEW i \in 1..k, NEW x \in DOMAIN t.real[i]
      PROVE  Holds(t.store, <<x, ds[i].tag>>, t.real[i][x])
  <2> DEFINE name == <<v, cs[j].tag>>
  <2>1. /\ \A y \in DOMAIN s.store : y # name => y \in DOMAIN t.store /\ t.store[y] = s.store[y]
        /\ name \in DOMAIN t.store /\ t.store[name] = value
    BY <1>2 DEF Bind
  <2>2. CASE i = j /\ x = v
    BY <1>4, <1>5, <1>6, <2>1, <2>2 DEF Holds
  <2>3. CASE ~(i = j /\ x = v)
    <3>1. x \in DOMAIN s.real[i] /\ t.real[i][x] = s.real[i][x]
      <4>1. CASE i = j
        BY <1>2, <1>4, <1>5, <2>3, <4>1
      <4>2. CASE i # j
        BY <1>4, <4>2
      <4> QED BY <4>1, <4>2
    <3>2. Holds(s.store, <<x, cs[i].tag>>, s.real[i][x])
      BY <3>1 DEF Truth
    <3>3. <<x, cs[i].tag>> # name
      <4>1. CASE i = j
        BY <2>3, <4>1
      <4>2. CASE i # j
        <5>1. i \in 1..Len(cs) /\ j \in 1..Len(cs)
          BY <1>1, <1>2
        <5>2. Names(prog, cs[i]) \intersect Names(prog, cs[j]) = {}
          BY <4>2, <5>1, NamesApart
        <5>3. <<x, cs[i].tag>> \in Names(prog, cs[i]) /\ name \in Names(prog, cs[j])
          BY <1>2, <3>1 DEF Shaped, Names
        <5> HIDE DEF name
        <5> QED BY <5>2, <5>3
      <4> QED BY <4>1, <4>2
    <3> HIDE DEF name
    <3> QED BY <1>6, <2>1, <3>1, <3>2, <3>3 DEF Holds
  <2> QED BY <2>2, <2>3
<1> QED BY <1>7, <1>8, <1>9 DEF Truth

\* A statement that sets no variable.
LEMMA StayTrue ==
  ASSUME NEW p \in Programs, NEW cs, NEW k \in Nat, k >= 1, cs[k].fun \in DOMAIN p,
         cs[k].pc \in DOMAIN p[cs[k].fun].body, Writes(StmtIn(p, cs[k])) = {},
         NEW ds, \A i \in 1..(k - 1) : ds[i] = cs[i], Moved1(cs[k], ds[k]),
         NEW s, Shaped(p, s.real, cs, k), Truth(p, s, cs, k)
  PROVE  Shaped(p, s.real, ds, k) /\ Truth(p, s, ds, k)
<1>1. \A i \in 1..k : ds[i].fun = cs[i].fun /\ ds[i].tag = cs[i].tag
  <2>1. \A i \in 1..k : i \in 1..(k - 1) \/ i = k
    OBVIOUS
  <2> QED BY <2>1 DEF Moved1
<1>2. \A v : v \in SetBefore(p, ds[k]) <=> v \in SetBefore(p, cs[k])
  <2>1. cs[k].pc \in Nat \ {0}
    BY BodyFacts
  <2> QED BY <2>1, SetBeforeMoves
<1>3. \A i \in 1..k : \A v : v \in SetBefore(p, ds[i]) <=> v \in SetBefore(p, cs[i])
  <2>1. \A i \in 1..k : i \in 1..(k - 1) \/ i = k
    OBVIOUS
  <2> QED BY <1>2, <2>1
<1> QED BY <1>1, <1>3 DEF Shaped, Truth

\* The return flows of an activation do not depend on where it is.
LEMMA ReturnTrueKept ==
  ASSUME NEW p, NEW cs, NEW k \in Nat, k >= 1, NEW ds, \A i \in 1..(k - 1) : ds[i] = cs[i],
         ds[k].fun = cs[k].fun, ds[k].ret = cs[k].ret,
         NEW s, ReturnTrue(p, s, cs, k)
  PROVE  ReturnTrue(p, s, ds, k)
<1>1. \A i \in 1..k : ds[i].fun = cs[i].fun
  <2>1. \A i \in 1..k : i \in 1..(k - 1) \/ i = k
    OBVIOUS
  <2> QED BY <2>1
<1>2. Shaped(p, s.real, ds, k)
  BY <1>1 DEF ReturnTrue, Shaped
<1>3. Truth(p, s, ds, k - 1)
  BY DEF ReturnTrue, Truth
<1> QED BY <1>2, <1>3 DEF ReturnTrue

\* What is added to or removed from a store besides live variables.
LEMMA TrueElsewhere ==
  ASSUME NEW p, NEW cs, NEW k \in Nat, NEW s, Truth(p, s, cs, k), NEW m, Shaped(p, s.real, cs, m), m \in Nat, k <= m,
         NEW t, \A i \in 1..k : t.real[i] = s.real[i],
         \A i \in 1..k : \A x \in Names(p, cs[i]) :
            x \in DOMAIN s.store => x \in DOMAIN t.store /\ t.store[x] = s.store[x]
  PROVE  Truth(p, t, cs, k)
<1> SUFFICES ASSUME NEW i \in 1..k
             PROVE  /\ SetBefore(p, cs[i]) \subseteq DOMAIN t.real[i] \union p["main"].locals
                    /\ \A v \in DOMAIN t.real[i] : Holds(t.store, <<v, cs[i].tag>>, t.real[i][v])
  BY DEF Truth
<1>1. t.real[i] = s.real[i] /\ i \in 1..m
  OBVIOUS
<1>2. SetBefore(p, cs[i]) \subseteq DOMAIN s.real[i] \union p["main"].locals
  BY DEF Truth
<1>3. ASSUME NEW v \in DOMAIN s.real[i] PROVE Holds(t.store, <<v, cs[i].tag>>, s.real[i][v])
  <2>1. Holds(s.store, <<v, cs[i].tag>>, s.real[i][v])
    BY DEF Truth
  <2>2. <<v, cs[i].tag>> \in Names(p, cs[i])
    BY <1>1 DEF Shaped, Names
  <2> QED BY <2>1, <2>2 DEF Holds
<1> QED BY <1>1, <1>2, <1>3

-----------------------------------------------------------------------------
(***************************************************************************)
(* Statements without calls keep the values of all activations true.       *)
(***************************************************************************)
LEMMA ApartKept ==
  ASSUME NEW cs, NEW ds, Apart(cs), Len(cs) \in Nat, Len(ds) \in Nat, Len(ds) <= Len(cs),
         \A i \in 1..Len(ds) : ds[i].site = cs[i].site /\ ds[i].fun = cs[i].fun /\ ds[i].tag = cs[i].tag
  PROVE  Apart(ds)
<1>1. \A i \in 1..Len(ds) : i \in 1..Len(cs)
  OBVIOUS
<1> QED BY <1>1 DEF Apart

LEMMA FaithfulAdvance ==
  ASSUME Shapes, Control(prog, calls), Faithful, ~AtEnd, calls' = Advance(calls), prog' = prog
  PROVE  LET n == Len(calls)
         IN /\ n \in Nat /\ n >= 1 /\ n \in 1..n /\ Top = calls[n] /\ Len(calls') = n
            /\ prog \in Programs /\ Top.fun \in DOMAIN prog /\ Top.pc \in DOMAIN prog[Top.fun].body
            /\ Stmt = StmtIn(prog, Top)
            /\ \A i \in 1..(n - 1) : calls'[i] = calls[i]
            /\ Moved1(Top, calls'[n])
            /\ Apart(calls')
            /\ \A s : ReturnTrue(prog, s, calls, n) => ReturnTrue(prog, s, calls', n)
            /\ \A i \in 2..n : \A s \in calls'[i].saved : ReturnTrue(prog, s, calls', i - 1)
<1> DEFINE n == Len(calls)
<1>1. n \in Nat /\ n >= 1 /\ n \in 1..n /\ Top = calls[n]
  BY DEF Shapes, IsSeq, Top
<1>2. /\ Len(calls') = n
      /\ \A i \in 1..(n - 1) : calls'[i] = calls[i]
      /\ Moved1(Top, calls'[n]) /\ calls'[n].saved = calls[n].saved
  BY AdvanceFacts DEF Shapes, Top, Moved1
<1>3. /\ prog \in Programs /\ Top.fun \in DOMAIN prog /\ Top.pc \in DOMAIN prog[Top.fun].body
      /\ Stmt = StmtIn(prog, Top)
  BY AtStmtFacts DEF Control
<1>4. /\ Apart(calls)
      /\ \A i \in 2..n : \A s \in calls[i].saved : ReturnTrue(prog, s, calls, i - 1)
  BY DEF Faithful
<1> HIDE DEF n
<1>5. \A i \in 1..n : i \in 1..(n - 1) \/ i = n
  BY <1>1
<1>6. \A i \in 1..n : /\ calls'[i].site = calls[i].site /\ calls'[i].fun = calls[i].fun
                      /\ calls'[i].tag = calls[i].tag /\ calls'[i].ret = calls[i].ret
                      /\ calls'[i].saved = calls[i].saved
  BY <1>1, <1>2, <1>5 DEF Moved1
<1>7. Apart(calls')
  BY <1>1, <1>2, <1>4, <1>6, ApartKept DEF n
<1>8. ASSUME NEW k \in 1..n, NEW s, ReturnTrue(prog, s, calls, k) PROVE ReturnTrue(prog, s, calls', k)
  <2>1. k \in Nat /\ k >= 1 /\ \A i \in 1..(k - 1) : i \in 1..(n - 1)
    BY <1>1
  <2> QED BY <1>2, <1>6, <1>8, <2>1, ReturnTrueKept
<1>9. ASSUME NEW i \in 2..n, NEW s \in calls'[i].saved PROVE ReturnTrue(prog, s, calls', i - 1)
  <2>1. i - 1 \in 1..n /\ i \in 1..n
    BY <1>1
  <2> QED BY <1>4, <1>6, <1>8, <2>1
<1> QED BY <1>1, <1>2, <1>3, <1>7, <1>8, <1>9 DEF n

\* What the statement of the innermost activation reads.
LEMMA ExprTrue ==
  ASSUME Shapes, Control(prog, calls), Faithful, ~AtEnd, ~IsCall(Stmt), NEW s \in flow.cur
  PROVE  Eval(Stmt.expr, s.store, Top.tag) = RealEval(Stmt.expr, s.real)
<1>1. /\ Top.fun \in DOMAIN prog /\ Top.pc \in DOMAIN prog[Top.fun].body
      /\ Stmt = StmtIn(prog, Top)
  BY AtStmtFacts
<1>2. Len(calls) \in Nat /\ Len(calls) \in 1..Len(calls) /\ Top = calls[Len(calls)]
  BY DEF Shapes, IsSeq, Top
<1>3. Stmt.expr.var \in Reads(StmtIn(prog, Top))
  BY <1>1 DEF Reads
<1>4. Shaped(prog, s.real, calls, Len(calls)) /\ Truth(prog, s, calls, Len(calls))
  BY DEF Faithful
<1> QED BY <1>1, <1>2, <1>3, <1>4, ReadTrue

LEMMA AssignFaithful ==
  ASSUME Shapes, Followed, Control(prog, calls), Faithful, Assign PROVE Faithful'
<1> DEFINE n == Len(calls)
<1>1. calls' = Advance(calls) /\ prog' = prog /\ ~AtEnd /\ Stmt.op = "assign"
  BY DEF Assign, AtStmt
<1>2. /\ flow'.cur = {Assigned(s) : s \in flow.cur} /\ flow'.returns = flow.returns
  BY AssignEffect DEF Followed
<1>3. /\ n \in Nat /\ n >= 1 /\ n \in 1..n /\ Top = calls[n] /\ Len(calls') = n
      /\ prog \in Programs /\ Top.fun \in DOMAIN prog /\ Top.pc \in DOMAIN prog[Top.fun].body
      /\ Stmt = StmtIn(prog, Top)
      /\ \A i \in 1..(n - 1) : calls'[i] = calls[i]
      /\ Moved1(Top, calls'[n])
      /\ Apart(calls')
      /\ \A s : ReturnTrue(prog, s, calls, n) => ReturnTrue(prog, s, calls', n)
      /\ \A i \in 2..n : \A s \in calls'[i].saved : ReturnTrue(prog, s, calls', i - 1)
  BY <1>1, FaithfulAdvance
<1>4. Stmt.var \in Owned(prog, Top.fun) \union Globals /\ Writes(Stmt) = {Stmt.var} /\ ~IsCall(Stmt)
  BY <1>1, <1>3, WritesFacts DEF Globals, Writes, IsCall
<1>5. ASSUME NEW s \in flow.cur
      PROVE  Shaped(prog, Assigned(s).real, calls', n) /\ Truth(prog, Assigned(s), calls', n)
  <2> DEFINE value == Eval(Stmt.expr, s.store, Top.tag)
             t == Assigned(s)
  <2>1. IsStore(s) /\ Shaped(prog, s.real, calls, n) /\ Truth(prog, s, calls, n) /\ Apart(calls)
    BY StoresAre DEF Followed, Faithful
  <2>2. value = RealEval(Stmt.expr, s.real)
    BY <1>1, <1>4, ExprTrue
  <2>3. /\ t.store = Bind(s.store, Name(Stmt.var, Top.tag), value)
        /\ t.real = SetReal(s.real, Stmt.var, value)
    BY <2>1, <2>2, AssignedIs, StoreFacts
  <2> HIDE DEF value, t
  <2>4. Len(calls) \in Nat /\ n \in 1..Len(calls)
    BY <1>3
  <2> HIDE DEF n
  <2> QED BY <1>3, <1>4, <2>1, <2>3, <2>4, SetTrue DEF t
<1>6. ASSUME NEW s \in flow.returns PROVE ReturnTrue(prog, s, calls', n)
  BY <1>3 DEF Faithful
<1> HIDE DEF n
<1> QED BY <1>1, <1>2, <1>3, <1>5, <1>6 DEF Faithful

\* The stores that stay, in a statement that writes no variable.
LEMMA CurStays ==
  ASSUME Shapes, Followed, Control(prog, calls), Faithful, ~AtEnd, Writes(Stmt) = {}, calls' = Advance(calls),
         NEW s \in flow.cur
  PROVE  Shaped(prog, s.real, calls', Len(calls)) /\ Truth(prog, s, calls', Len(calls))
<1> DEFINE n == Len(calls)
<1>1. n \in Nat /\ n >= 1 /\ Top = calls[n] /\ prog \in Programs
  BY DEF Shapes, IsSeq, Top, Control
<1>2. /\ \A i \in 1..(n - 1) : calls'[i] = calls[i]
      /\ Moved1(Top, calls'[n])
  BY AdvanceFacts DEF Shapes, Top, Moved1
<1>3. /\ Top.fun \in DOMAIN prog /\ Top.pc \in DOMAIN prog[Top.fun].body
      /\ Stmt = StmtIn(prog, Top)
  BY AtStmtFacts
<1>4. Shaped(prog, s.real, calls, n) /\ Truth(prog, s, calls, n)
  BY DEF Faithful
<1> HIDE DEF n
<1> QED BY <1>1, <1>2, <1>3, <1>4, StayTrue DEF n

LEMMA ReturnFaithful ==
  ASSUME Shapes, Followed, Control(prog, calls), Faithful, Return PROVE Faithful'
<1> DEFINE n == Len(calls)
<1>1. /\ calls' = Advance(calls) /\ prog' = prog /\ ~AtEnd /\ ~IsCall(Stmt) /\ Writes(Stmt) = {}
  BY DEF Return, AtStmt, IsCall, Writes
<1>2. /\ flow'.cur = flow.cur \ Returning
      /\ flow'.returns = flow.returns \union {Returned(s) : s \in Returning}
  BY ReturnEffect DEF Followed
<1>3. /\ n \in Nat /\ n >= 1 /\ n \in 1..n /\ Top = calls[n] /\ Len(calls') = n
      /\ Apart(calls')
      /\ \A s : ReturnTrue(prog, s, calls, n) => ReturnTrue(prog, s, calls', n)
      /\ \A i \in 2..n : \A s \in calls'[i].saved : ReturnTrue(prog, s, calls', i - 1)
  BY <1>1, FaithfulAdvance
<1>4. ASSUME NEW s \in Returning PROVE ReturnTrue(prog, Returned(s), calls, n)
  <2> DEFINE value == Eval(Stmt.expr, s.store, Top.tag)
             t == Returned(s)
  <2>1. s \in flow.cur
    BY DEF Returning
  <2>2. IsStore(s) /\ Shaped(prog, s.real, calls, n) /\ Truth(prog, s, calls, n)
    BY <2>1, StoresAre DEF Followed, Faithful
  <2>3. value = RealEval(Stmt.expr, s.real)
    BY <1>1, <2>1, ExprTrue
  <2>4. t.store = Bind(s.store, Top.ret, value) /\ t.real = s.real /\ t.val = value
    BY <2>2, <2>3, ReturnedIs, StoreFacts
  <2> HIDE DEF value, t
  <2>5. /\ \A x \in DOMAIN s.store : x # Top.ret => x \in DOMAIN t.store /\ t.store[x] = s.store[x]
        /\ Holds(t.store, Top.ret, t.val)
    BY <2>4 DEF Bind, Holds
  <2>6. \A i \in 1..n : Top.ret \notin Names(prog, calls[i])
    BY <1>3, RetIsNoName
  <2> HIDE DEF n
  <2>7. Truth(prog, t, calls, n - 1)
    <3>1. Truth(prog, s, calls, n - 1) /\ n - 1 \in Nat /\ n - 1 <= n /\ \A i \in 1..(n - 1) : i \in 1..n
      BY <1>3, <2>2 DEF Truth
    <3>2. \A i \in 1..(n - 1) : \A x \in Names(prog, calls[i]) :
             x \in DOMAIN s.store => x \in DOMAIN t.store /\ t.store[x] = s.store[x]
      BY <2>5, <2>6, <3>1
    <3>3. \A i \in 1..(n - 1) : t.real[i] = s.real[i]
      BY <2>4
    <3> QED BY <1>3, <2>2, <3>1, <3>2, <3>3, TrueElsewhere
  <2> QED BY <1>3, <2>2, <2>4, <2>5, <2>7 DEF ReturnTrue, t
<1>5. ASSUME NEW s \in flow.returns PROVE ReturnTrue(prog, s, calls, n)
  BY DEF Faithful
<1>6. ASSUME NEW s \in flow.cur PROVE Shaped(prog, s.real, calls', n) /\ Truth(prog, s, calls', n)
  BY <1>1, CurStays
<1> HIDE DEF n
<1>7. \A s \in flow'.returns : ReturnTrue(prog, s, calls', n)
  BY <1>2, <1>3, <1>4, <1>5
<1> QED BY <1>1, <1>2, <1>3, <1>6, <1>7 DEF Faithful

LEMMA EscapeFaithful ==
  ASSUME Shapes, Followed, Control(prog, calls), Faithful, EscapeIfZero PROVE Faithful'
<1> DEFINE n == Len(calls)
<1>1. /\ calls' = Advance(calls) /\ prog' = prog /\ ~AtEnd /\ Writes(Stmt) = {}
  BY DEF EscapeIfZero, AtStmt, Writes
<1>2. flow'.cur = flow.cur \ Gone /\ flow'.returns = flow.returns
  BY EscapeEffect DEF Followed
<1>3. /\ Len(calls') = n /\ Apart(calls')
      /\ \A s : ReturnTrue(prog, s, calls, n) => ReturnTrue(prog, s, calls', n)
      /\ \A i \in 2..n : \A s \in calls'[i].saved : ReturnTrue(prog, s, calls', i - 1)
  BY <1>1, FaithfulAdvance
<1>4. ASSUME NEW s \in flow.returns PROVE ReturnTrue(prog, s, calls', n)
  BY <1>3 DEF Faithful
<1>5. ASSUME NEW s \in flow.cur PROVE Shaped(prog, s.real, calls', n) /\ Truth(prog, s, calls', n)
  BY <1>1, CurStays
<1> HIDE DEF n
<1> QED BY <1>1, <1>2, <1>3, <1>4, <1>5 DEF Faithful

LEMMA CallUnreachableFaithful ==
  ASSUME Shapes, Followed, Control(prog, calls), Faithful, CallUnreachable PROVE Faithful'
<1> DEFINE n == Len(calls)
<1>1. /\ calls' = Advance(calls) /\ prog' = prog /\ ~AtEnd /\ flow' = flow /\ flow.cur = {}
  BY DEF CallUnreachable, AtCall, AtStmt
<1>2. /\ Len(calls') = n /\ Apart(calls')
      /\ \A s : ReturnTrue(prog, s, calls, n) => ReturnTrue(prog, s, calls', n)
      /\ \A i \in 2..n : \A s \in calls'[i].saved : ReturnTrue(prog, s, calls', i - 1)
  BY <1>1, FaithfulAdvance
<1>3. ASSUME NEW s \in flow.returns PROVE ReturnTrue(prog, s, calls', n)
  BY <1>2 DEF Faithful
<1> HIDE DEF n
<1> QED BY <1>1, <1>2, <1>3 DEF Faithful

-----------------------------------------------------------------------------
(***************************************************************************)
(* A call that is inlined: the renaming tells the callee from the live     *)
(* calls of the same function.                                             *)
(***************************************************************************)
LEMMA CalleeApart ==
  ASSUME Shapes, Control(prog, calls), StackIsCalls, AtCall, ~Reentrant
  PROVE  \A i \in 1..Len(calls) : /\ calls[i].site # Site
                                  /\ calls[i].fun = Stmt.call.fun => calls[i].tag # NewTag
<1> DEFINE n == Len(calls)
<1>1. n \in Nat /\ n >= 1 /\ DOMAIN calls = 1..n
  BY DEF Shapes, IsSeq
<1>2. \A i \in 1..n : calls[i].site # Site /\ ~(calls[i].fun = Stmt.call.fun /\ Callee.params = << >>)
  BY <1>1 DEF Reentrant
<1> SUFFICES ASSUME NEW i \in 1..n, calls[i].fun = Stmt.call.fun PROVE calls[i].tag # NewTag
  BY <1>2
<1>3. /\ Stmt.call \in CallsOf(prog) /\ Stmt.call.fun # "main" /\ Stmt.call.range \in Ranges(prog)
      /\ prog \in Programs /\ Stmt.call.fun \in DOMAIN prog
  BY CalleeFacts DEF Control
<1>4. i \in 2..n /\ i - 1 \in 1..n
  <2>1. i # 1
    BY <1>3 DEF Control
  <2> QED BY <1>1, <2>1
<1>5. Started(prog, calls[i - 1], calls[i])
  BY <1>4 DEF Control
<1> DEFINE other == StmtIn(prog, calls[i - 1]).call
<1>6. /\ calls[i].fun = other.fun /\ calls[i].site = [fun |-> other.fun, range |-> other.range]
      /\ calls[i].tag \in {None, other.range}
  BY <1>5 DEF Started
<1> HIDE DEF other
<1>7. other.range # Stmt.call.range
  BY <1>2, <1>6 DEF Site
<1>8. Stmt.call.range # None
  BY <1>3, ProgramsAssumption
<1>9. NewTag = Stmt.call.range
  <2>1. callstack[n + 1 - i] = calls[i].site
    BY <1>4 DEF StackIsCalls
  <2>2. Len(callstack) = n - 1 /\ IsSeq(callstack)
    BY DEF StackIsCalls, Shapes
  <2>3. n + 1 - i \in 1..Len(callstack) /\ n + 1 - i + 1 \in 2..(Len(callstack) + 1)
    BY <1>1, <1>4, <2>2
  <2>4. Len(Pushed) = Len(callstack) + 1 /\ Pushed[n + 1 - i + 1] = callstack[n + 1 - i]
    BY <2>2, <2>3, PushFacts DEF Pushed
  <2>5. calls[i].site.fun = Stmt.call.fun
    BY <1>6
  <2>6. CheckNestedCalls(Stmt.call.fun, Pushed)
    BY <2>1, <2>3, <2>4, <2>5 DEF CheckNestedCalls
  <2>7. prog[Stmt.call.fun].params # << >>
    BY <1>2 DEF Callee
  <2> QED BY <2>6, <2>7 DEF NewTag, CalleeTag
<1> QED BY <1>6, <1>7, <1>8, <1>9

\* The arguments are read in the store that the assignments before have
\* changed, with the values they had.
LEMMA BoundParamsValues ==
  ASSUME NEW store, NEW call, NEW tag, Len(prog[call.fun].params) \in Nat,
         DOMAIN prog[call.fun].params = 1..Len(prog[call.fun].params), IsInjective(prog[call.fun].params),
         \A i \in 1..Len(prog[call.fun].params) :
            call.args[i].var # None => /\ Name(call.args[i].var, Top.tag) \in DOMAIN store
                                       /\ Name(call.args[i].var, Top.tag) \notin Params(call.fun, tag)
  PROVE  \A i \in 1..Len(prog[call.fun].params) :
            Holds(BoundParams(store, call, tag), <<prog[call.fun].params[i], tag>>,
                  Eval(call.args[i], store, Top.tag))
<1> DEFINE params == prog[call.fun].params
           N == Len(params)
           names == Params(call.fun, tag)
<1>1. PICK b : BoundTable(b, store, call, tag) /\ BoundParams(store, call, tag) = b[N]
  BY BoundParamsIs
<1> DEFINE K == {n \in Nat : n <= N =>
                    /\ \A x \in DOMAIN store \ names : x \in DOMAIN b[n] /\ b[n][x] = store[x]
                    /\ \A i \in 1..n : Holds(b[n], <<params[i], tag>>, Eval(call.args[i], store, Top.tag))}
<1>2. 0 \in K
  BY <1>1 DEF BoundTable
<1>3. ASSUME NEW n \in Nat, n \in K PROVE n + 1 \in K
  <2> SUFFICES ASSUME n + 1 <= N
               PROVE  /\ \A x \in DOMAIN store \ names : x \in DOMAIN b[n + 1] /\ b[n + 1][x] = store[x]
                      /\ \A i \in 1..(n + 1) : Holds(b[n + 1], <<params[i], tag>>, Eval(call.args[i], store, Top.tag))
    OBVIOUS
  <2> DEFINE x1 == <<params[n + 1], tag>>
             v1 == Eval(call.args[n + 1], b[n], Top.tag)
  <2>1. /\ \A x \in DOMAIN store \ names : x \in DOMAIN b[n] /\ b[n][x] = store[x]
        /\ \A i \in 1..n : Holds(b[n], <<params[i], tag>>, Eval(call.args[i], store, Top.tag))
    BY <1>3
  <2>2. n + 1 \in 1..N /\ n + 1 - 1 = n
    OBVIOUS
  <2>3. b[n + 1] = Bind(b[n], x1, v1)
    BY <1>1, <2>2 DEF BoundTable
  <2>4. x1 \in names
    BY <2>2 DEF Params
  <2>5. v1 = Eval(call.args[n + 1], store, Top.tag)
    BY <2>1, <2>2 DEF Eval
  <2>6. /\ x1 \in DOMAIN b[n + 1] /\ b[n + 1][x1] = v1
        /\ \A x \in DOMAIN b[n] : x # x1 => x \in DOMAIN b[n + 1] /\ b[n + 1][x] = b[n][x]
    <3> HIDE DEF x1, v1
    <3> QED BY <2>3 DEF Bind
  <2>7. \A i \in 1..n : <<params[i], tag>> # x1
    <3> TAKE i \in 1..n
    <3>1. i \in 1..N /\ i # n + 1
      OBVIOUS
    <3>2. params[i] # params[n + 1]
      BY <2>2, <3>1 DEF IsInjective
    <3> QED BY <3>2
  <2>8. \A x \in DOMAIN store \ names : x \in DOMAIN b[n + 1] /\ b[n + 1][x] = store[x]
    <3> HIDE DEF names, x1, v1
    <3> QED BY <2>1, <2>4, <2>6
  <2>9. ASSUME NEW i \in 1..(n + 1)
        PROVE  Holds(b[n + 1], <<params[i], tag>>, Eval(call.args[i], store, Top.tag))
    <3>1. CASE i = n + 1
      <4>1. Holds(b[n + 1], x1, v1)
        BY <2>6 DEF Holds
      <4> QED BY <2>5, <3>1, <4>1
    <3>2. CASE i # n + 1
      <4>1. i \in 1..n
        BY <3>2
      <4>2. Holds(b[n], <<params[i], tag>>, Eval(call.args[i], store, Top.tag)) /\ <<params[i], tag>> # x1
        BY <2>1, <2>7, <4>1
      <4> HIDE DEF x1, v1, params
      <4> QED BY <2>6, <4>2 DEF Holds
    <3> QED BY <3>1, <3>2
  <2> QED BY <2>8, <2>9
<1>4. N \in K
  <2> HIDE DEF K
  <2> QED BY <1>2, <1>3, SetInduction
<1> QED BY <1>1, <1>4

\* The callee starts with the true values of its parameters.
LEMMA EnterTrue ==
  ASSUME Shapes, Followed, Control(prog, calls), Faithful, AtCall, StackIsCalls, ~Reentrant,
         NEW ds, \A i \in 1..Len(calls) : ds[i] = calls[i],
         LET e == ds[Len(calls) + 1] IN e.fun = Stmt.call.fun /\ e.pc = 1 /\ e.tag = NewTag,
         NEW s \in flow.cur
  PROVE  LET t == InitFunParams(s, Stmt.call, NewTag)
         IN Shaped(prog, t.real, ds, Len(calls) + 1) /\ Truth(prog, t, ds, Len(calls) + 1)
<1> DEFINE n == Len(calls)
           t == InitFunParams(s, Stmt.call, NewTag)
           f == Stmt.call.fun
           params == prog[f].params
           names == Params(f, NewTag)
           args == RealParams(s.real, Stmt.call)
           b == BoundParams(s.store, Stmt.call, NewTag)
           e == ds[n + 1]
<1>1. n \in Nat /\ n >= 1 /\ n \in 1..n /\ Top = calls[n]
  BY DEF Shapes, IsSeq, Top
<1>2. /\ Top.fun \in DOMAIN prog /\ Top.pc \in DOMAIN prog[Top.fun].body
      /\ Stmt = StmtIn(prog, Top) /\ IsCall(Stmt) /\ prog \in Programs
      /\ f \in DOMAIN prog /\ f # "main" /\ DOMAIN Stmt.call.args = DOMAIN params
  BY CalleeFacts DEF Control
<1>3. /\ Len(params) \in Nat /\ DOMAIN params = 1..Len(params) /\ IsInjective(params)
      /\ Range(params) \subseteq Owned(prog, f)
  <2>1. Len(params) \in Nat /\ DOMAIN params = 1..Len(params)
    BY <1>2, BodyFacts
  <2>2. IsInjective(params)
    BY <1>2, ProgramsAssumption
  <2>3. Range(params) \subseteq Owned(prog, f)
    BY DEF Owned
  <2> QED BY <2>1, <2>2, <2>3
<1>4. IsStore(s) /\ Shaped(prog, s.real, calls, n) /\ Truth(prog, s, calls, n) /\ Apart(calls)
  BY StoresAre DEF Followed, Faithful
<1>5. t.store = b /\ t.real = Append(s.real, args)
  <2>1. t = Store(s, b, Append(s.real, args), s.val)
    BY <1>4, InitFunParamsIs
  <2> DEFINE re == Append(s.real, args)
  <2> HIDE DEF t, b, args, re
  <2> QED BY <2>1 DEF Store, re
<1>6. ASSUME NEW i \in 1..n PROVE Names(prog, calls[i]) \intersect names = {}
  <2>1. calls[i].fun \in DOMAIN prog
    BY DEF Control, InProgram
  <2>2. CASE calls[i].fun = f
    <3>1. calls[i].tag # NewTag
      BY <2>2, CalleeApart
    <3> QED BY <3>1 DEF Names, Params
  <2>3. CASE calls[i].fun # f
    <3>1. Owned(prog, calls[i].fun) \intersect Owned(prog, f) = {}
      BY <1>2, <2>1, <2>3, ProgramsAssumption
    <3>2. \A x \in names : x[1] \in Owned(prog, f)
      BY <1>3 DEF Params, Range
    <3>3. \A x \in Names(prog, calls[i]) : x[1] \in Owned(prog, calls[i].fun)
      BY DEF Names
    <3> QED BY <3>1, <3>2, <3>3
  <2> QED BY <2>2, <2>3
<1>7. ASSUME NEW i \in 1..Len(params)
      PROVE  /\ Eval(Stmt.call.args[i], s.store, Top.tag) = RealEval(Stmt.call.args[i], s.real)
             /\ Stmt.call.args[i].var # None => /\ Name(Stmt.call.args[i].var, Top.tag) \in DOMAIN s.store
                                                /\ Name(Stmt.call.args[i].var, Top.tag) \notin names
  <2> DEFINE arg == Stmt.call.args[i]
  <2>1. i \in DOMAIN Stmt.call.args
    BY <1>2, <1>3
  <2>2. arg.var \in Reads(StmtIn(prog, Top))
    BY <1>2, <2>1 DEF Reads
  <2> HIDE DEF arg
  <2>3. /\ Eval(arg, s.store, Top.tag) = RealEval(arg, s.real)
        /\ arg.var # None => \E j \in 1..n : Name(arg.var, Top.tag) \in DOMAIN s.store \intersect Names(prog, calls[j])
    BY <1>1, <1>2, <1>4, <2>2, ReadTrue
  <2> HIDE DEF names
  <2> QED BY <1>6, <2>3 DEF arg
<1>8. ASSUME NEW i \in 1..Len(params)
      PROVE  Holds(b, <<params[i], NewTag>>, RealEval(Stmt.call.args[i], s.real))
  <2>1. \A k \in 1..Len(params) :
           Stmt.call.args[k].var # None => /\ Name(Stmt.call.args[k].var, Top.tag) \in DOMAIN s.store
                                           /\ Name(Stmt.call.args[k].var, Top.tag) \notin names
    BY <1>7
  <2>2. Holds(b, <<params[i], NewTag>>, Eval(Stmt.call.args[i], s.store, Top.tag))
    BY <1>3, <2>1, BoundParamsValues
  <2> QED BY <1>7, <2>2
<1>9. DOMAIN args = Range(params) /\ \A i \in 1..Len(params) : args[params[i]] = RealEval(Stmt.call.args[i], s.real)
  <2>1. DOMAIN args = Range(params)
    BY DEF RealParams
  <2>2. ASSUME NEW i \in 1..Len(params) PROVE args[params[i]] = RealEval(Stmt.call.args[i], s.real)
    <3>1. \A j \in DOMAIN params : params[j] = params[i] => j = i
      BY <1>3 DEF IsInjective
    <3>2. (CHOOSE j \in DOMAIN params : params[j] = params[i]) = i
      BY <1>3, <3>1
    <3>3. params[i] \in Range(params)
      BY <1>3 DEF Range
    <3> QED BY <3>2, <3>3 DEF RealParams
  <2> QED BY <2>1, <2>2
<1>10. /\ IsSeq(t.real) /\ Len(t.real) = n + 1 /\ t.real[n + 1] = args
       /\ \A i \in 1..n : t.real[i] = s.real[i]
  <2>1. IsSeq(s.real) /\ Len(s.real) = n
    BY <1>4 DEF Shaped
  <2> HIDE DEF args, t
  <2> QED BY <1>5, <2>1, AppendFacts
<1>11. \A i \in 1..(n + 1) : i \in 1..n \/ i = n + 1
  BY <1>1
<1>12. ASSUME NEW i \in 1..n
       PROVE  /\ SetBefore(prog, ds[i]) \subseteq DOMAIN t.real[i] \union prog["main"].locals
              /\ \A v \in DOMAIN t.real[i] : Holds(t.store, <<v, ds[i].tag>>, t.real[i][v])
              /\ Range(prog[ds[i].fun].params) \subseteq DOMAIN t.real[i]
              /\ DOMAIN t.real[i] \subseteq Owned(prog, ds[i].fun)
  <2>1. ds[i] = calls[i]
    OBVIOUS
  <2>2. ASSUME NEW v \in DOMAIN s.real[i] PROVE Holds(b, <<v, calls[i].tag>>, s.real[i][v])
    <3>1. Holds(s.store, <<v, calls[i].tag>>, s.real[i][v])
      BY <1>4 DEF Truth
    <3>2. <<v, calls[i].tag>> \in Names(prog, calls[i])
      BY <1>4 DEF Shaped, Names
    <3>3. <<v, calls[i].tag>> \notin names
      BY <1>6, <3>2
    <3> HIDE DEF names
    <3>4. /\ \A x : x \in DOMAIN b <=> x \in DOMAIN s.store \/ x \in names
          /\ \A x \in DOMAIN s.store \ names : b[x] = s.store[x]
      BY <1>3, BoundParamsFacts DEF names
    <3> HIDE DEF b
    <3> QED BY <3>1, <3>3, <3>4 DEF Holds
  <2> HIDE DEF t, b
  <2> QED BY <1>4, <1>5, <1>10, <2>1, <2>2 DEF Shaped, Truth
<1>13. /\ SetBefore(prog, e) \subseteq DOMAIN args \union prog["main"].locals
       /\ \A v \in DOMAIN args : Holds(b, <<v, e.tag>>, args[v])
       /\ Range(prog[e.fun].params) \subseteq DOMAIN args
       /\ DOMAIN args \subseteq Owned(prog, e.fun)
  <2>1. e.pc = 1 /\ e.fun = f /\ e.tag = NewTag
    OBVIOUS
  <2> HIDE DEF e
  <2>2. SetBefore(prog, e) = {}
    BY <2>1 DEF SetBefore
  <2>3. ASSUME NEW v \in DOMAIN args PROVE Holds(b, <<v, NewTag>>, args[v])
    <3>1. PICK i \in 1..Len(params) : v = params[i]
      BY <1>3, <1>9 DEF Range
    <3> HIDE DEF b, args, params
    <3> QED BY <1>8, <1>9, <3>1
  <2> HIDE DEF b, args
  <2> QED BY <1>3, <1>9, <2>1, <2>2, <2>3
<1> HIDE DEF e, t, b, args, names, n
<1>14. Shaped(prog, t.real, ds, n + 1)
  <2>1. 1 \in 1..n
    BY <1>1
  <2>2. DOMAIN t.real[1] = prog["main"].locals
    BY <1>4, <1>10, <2>1 DEF Shaped
  <2>3. ASSUME NEW i \in 1..(n + 1)
        PROVE  /\ Range(prog[ds[i].fun].params) \subseteq DOMAIN t.real[i]
               /\ DOMAIN t.real[i] \subseteq Owned(prog, ds[i].fun)
    <3>1. CASE i = n + 1
      BY <1>10, <1>13, <3>1 DEF e
    <3>2. CASE i # n + 1
      BY <1>11, <1>12, <3>2
    <3> QED BY <3>1, <3>2
  <2> QED BY <1>10, <2>2, <2>3 DEF Shaped
<1>15. Truth(prog, t, ds, n + 1)
  <2> SUFFICES ASSUME NEW i \in 1..(n + 1)
               PROVE  /\ SetBefore(prog, ds[i]) \subseteq DOMAIN t.real[i] \union prog["main"].locals
                      /\ \A v \in DOMAIN t.real[i] : Holds(t.store, <<v, ds[i].tag>>, t.real[i][v])
    BY DEF Truth
  <2>1. CASE i = n + 1
    BY <1>5, <1>10, <1>13, <2>1 DEF e
  <2>2. CASE i # n + 1
    BY <1>11, <1>12, <2>2
  <2> QED BY <2>1, <2>2
<1> QED BY <1>14, <1>15 DEF n, t

LEMMA EnterFaithful ==
  ASSUME IInv, Followed, Control(prog, calls), Faithful, Enter, history' = "apart" PROVE Faithful'
<1> DEFINE n == Len(calls)
<1>1. Shapes /\ AtCall /\ prog' = prog /\ ~Reentrant /\ history = "apart"
  BY DEF IInv, Enter
<1>2. StackIsCalls
  BY <1>1 DEF IInv
<1>3. /\ flow'.cur = {InitFunParams(s, Stmt.call, NewTag) : s \in flow.cur} /\ flow'.returns = {}
  BY EnterEffect
<1>4. PICK e : /\ calls' = Append(calls, e)
               /\ e.fun = Stmt.call.fun /\ e.pc = 1 /\ e.site = Site /\ e.tag = NewTag
               /\ e.saved = flow.returns
  BY EnterEffect DEF Activation
<1>5. /\ n \in Nat /\ n >= 1 /\ Len(calls') = n + 1 /\ calls'[n + 1] = e
      /\ \A i \in 1..n : calls'[i] = calls[i]
  BY <1>1, <1>4, AppendFacts DEF Shapes, IsSeq
<1>6. ASSUME NEW s \in flow.cur
      PROVE  /\ Shaped(prog, InitFunParams(s, Stmt.call, NewTag).real, calls', n + 1)
             /\ Truth(prog, InitFunParams(s, Stmt.call, NewTag), calls', n + 1)
  BY <1>1, <1>2, <1>4, <1>5, EnterTrue
<1>7. Apart(calls')
  <2> SUFFICES ASSUME NEW i \in 1..(n + 1), NEW j \in 1..(n + 1), i < j
               PROVE  /\ calls'[i].site # calls'[j].site
                      /\ calls'[i].fun = calls'[j].fun => calls'[i].tag # calls'[j].tag
    BY <1>5 DEF Apart
  <2>1. CASE j = n + 1
    <3>1. i \in 1..n
      BY <1>5, <2>1
    <3>2. /\ calls[i].site # Site
          /\ calls[i].fun = Stmt.call.fun => calls[i].tag # NewTag
      BY <1>1, <1>2, <3>1, CalleeApart
    <3> HIDE DEF n
    <3> QED BY <1>4, <1>5, <2>1, <3>1, <3>2
  <2>2. CASE j # n + 1
    <3>1. i \in 1..n /\ j \in 1..n
      BY <1>5, <2>2
    <3>2. Apart(calls)
      BY DEF Faithful
    <3> QED BY <1>5, <3>1, <3>2 DEF Apart
  <2> QED BY <2>1, <2>2
<1>8. ASSUME NEW k \in 1..n, NEW s, ReturnTrue(prog, s, calls, k) PROVE ReturnTrue(prog, s, calls', k)
  <2>1. k \in Nat /\ k >= 1 /\ \A i \in 1..(k - 1) : i \in 1..n
    BY <1>5
  <2> HIDE DEF n
  <2> QED BY <1>5, <1>8, <2>1, ReturnTrueKept
<1>9. ASSUME NEW i \in 2..(n + 1), NEW s \in calls'[i].saved PROVE ReturnTrue(prog, s, calls', i - 1)
  <2>1. CASE i = n + 1
    <3>1. i - 1 = n /\ n \in 1..n /\ s \in flow.returns
      BY <1>4, <1>5, <2>1
    <3> QED BY <1>8, <3>1 DEF Faithful
  <2>2. CASE i # n + 1
    <3>1. i \in 2..n /\ i - 1 \in 1..n /\ i \in 1..n
      BY <1>5, <2>2
    <3>2. s \in calls[i].saved
      BY <1>5, <3>1
    <3> QED BY <1>8, <3>1, <3>2 DEF Faithful
  <2> QED BY <2>1, <2>2
<1> HIDE DEF n
<1>10. (\A s \in flow'.cur : Shaped(prog, s.real, calls', n + 1) /\ Truth(prog, s, calls', n + 1))
  BY <1>3, <1>6
<1> QED BY <1>1, <1>3, <1>5, <1>7, <1>9, <1>10 DEF Faithful

-----------------------------------------------------------------------------
\* The names that the cleaners remove at the end of a call are not those of the
\* activations that go on.
LEMMA CleanedApart ==
  ASSUME Shapes, Control(prog, calls), Apart(calls), Len(calls) >= 2
  PROVE  LET n == Len(calls)
             names == Cleaned(Caller, Top.ret, Top.tag)
         IN /\ n - 1 \in Nat /\ n - 1 \in 1..n /\ n \in 2..n /\ n \in 1..n /\ Top = calls[n] /\ Caller = calls[n - 1]
            /\ Caller.fun \in DOMAIN prog /\ Caller.pc \in DOMAIN prog[Caller.fun].body
            /\ IsCall(StmtIn(prog, Caller)) /\ StmtOf(Caller) = StmtIn(prog, Caller)
            /\ Params(Top.fun, Top.tag) \subseteq Names(prog, Top)
            /\ LocalVars(Top.fun, Top.tag) \subseteq Names(prog, Top)
            /\ \A x : x \in names <=> x = Top.ret \/ x \in Params(Top.fun, Top.tag)
            /\ \A i \in 1..(n - 1) : /\ Names(prog, calls[i]) \intersect names = {}
                                     /\ Names(prog, calls[i]) \intersect LocalVars(Top.fun, Top.tag) = {}
            /\ Top.ret \notin LocalVars(Top.fun, Top.tag)
            /\ Caller.ret \notin names
<1> DEFINE n == Len(calls)
           names == Cleaned(Caller, Top.ret, Top.tag)
<1>1. /\ n \in Nat /\ n - 1 \in Nat /\ n - 1 \in 1..n /\ n \in 2..n /\ n \in 1..n /\ n - 1 < n
      /\ Top = calls[n] /\ Caller = calls[n - 1]
  BY DEF Shapes, IsSeq, Top, Caller
<1>2. Started(prog, Caller, Top) /\ InProgram(prog, Caller) /\ InProgram(prog, Top) /\ prog \in Programs
  BY <1>1 DEF Control
<1>3. /\ Caller.fun \in DOMAIN prog /\ Caller.pc \in DOMAIN prog[Caller.fun].body
      /\ IsCall(StmtIn(prog, Caller)) /\ StmtOf(Caller) = StmtIn(prog, Caller)
      /\ StmtIn(prog, Caller).call.fun = Top.fun /\ Top.fun \in DOMAIN prog
  BY <1>2 DEF Started, InProgram, StmtOf, StmtIn
<1>4. Params(Top.fun, Top.tag) \subseteq Names(prog, Top) /\ LocalVars(Top.fun, Top.tag) \subseteq Names(prog, Top)
  BY <1>2, <1>3, BodyFacts, NamesAre
<1>5. \A x : x \in names <=> x = Top.ret \/ x \in Params(Top.fun, Top.tag)
  BY <1>3 DEF Cleaned
<1> HIDE DEF n, names
<1>6. ASSUME NEW i \in 1..(n - 1)
      PROVE  /\ Names(prog, calls[i]) \intersect names = {}
             /\ Names(prog, calls[i]) \intersect LocalVars(Top.fun, Top.tag) = {}
  <2>1. i \in 1..n /\ i # n
    BY <1>1
  <2>2. Names(prog, calls[i]) \intersect Names(prog, Top) = {}
    BY <1>1, <2>1, NamesApart DEF n
  <2>3. Top.ret \notin Names(prog, calls[i])
    BY <1>1, <2>1, RetIsNoName DEF n
  <2> QED BY <1>4, <1>5, <2>2, <2>3
<1>7. Top.ret \notin LocalVars(Top.fun, Top.tag) /\ Caller.ret \notin names
  <2>1. Top.ret \notin Names(prog, Top) /\ Caller.ret \notin Names(prog, Top)
    BY <1>1, RetIsNoName DEF n
  <2>2. Caller.ret # Top.ret
    BY <1>1, RetsApart DEF n
  <2> QED BY <1>4, <1>5, <2>1, <2>2
<1> QED BY <1>1, <1>3, <1>4, <1>5, <1>6, <1>7 DEF n, names

\* A return flow at the end of the callee, without its locals.
LEMMA PoppedTrue ==
  ASSUME Shapes, Followed, Control(prog, calls), Faithful, Len(calls) >= 2, NEW s \in flow.returns
  PROVE  LET t == Popped(s)
             m == Len(calls) - 1
         IN /\ IsStore(t) /\ Shaped(prog, t.real, calls, m) /\ Truth(prog, t, calls, m)
            /\ Holds(t.store, Top.ret, t.val)
<1> DEFINE n == Len(calls)
           m == n - 1
           t == Popped(s)
<1>1. Apart(calls) /\ ReturnTrue(prog, s, calls, n) /\ IsStore(s)
  BY StoresAre DEF Faithful, Followed
<1>2. /\ n \in Nat /\ m \in Nat /\ m <= n /\ Top = calls[n] /\ m \in 1..n
      /\ \A i \in 1..m : Names(prog, calls[i]) \intersect LocalVars(Top.fun, Top.tag) = {}
      /\ Top.ret \notin LocalVars(Top.fun, Top.tag)
  BY <1>1, CleanedApart DEF Shapes, IsSeq
<1>3. /\ Shaped(prog, s.real, calls, n) /\ Truth(prog, s, calls, m) /\ Holds(s.store, Top.ret, s.val)
  BY <1>1, <1>2 DEF ReturnTrue
<1>4. /\ IsStore(t) /\ t.val = s.val /\ t.real = Front(s.real)
      /\ t.store = Without(s.store, LocalVars(Top.fun, Top.tag))
  BY <1>1, PoppedIs, StoreFacts
<1> HIDE DEF t
<1>5. \A x \in DOMAIN s.store : x \notin LocalVars(Top.fun, Top.tag) => x \in DOMAIN t.store /\ t.store[x] = s.store[x]
  BY <1>4 DEF Without, Restrict
<1>6. IsSeq(t.real) /\ Len(t.real) = m /\ \A i \in 1..m : t.real[i] = s.real[i]
  <2>1. IsSeq(s.real) /\ Len(s.real) = n
    BY <1>3 DEF Shaped
  <2>2. Len(s.real) >= 1
    BY <1>2, <2>1
  <2> QED BY <1>4, <2>1, <2>2, FrontFacts
<1> HIDE DEF n, m
<1>7. Shaped(prog, t.real, calls, m)
  <2>1. 1 \in 1..m /\ \A i \in 1..m : i \in 1..n
    BY <1>2
  <2> QED BY <1>3, <1>6, <2>1 DEF Shaped
<1>8. Truth(prog, t, calls, m)
  <2>1. \A i \in 1..m : \A x \in Names(prog, calls[i]) :
           x \in DOMAIN s.store => x \in DOMAIN t.store /\ t.store[x] = s.store[x]
    BY <1>2, <1>5
  <2> QED BY <1>2, <1>3, <1>6, <2>1, TrueElsewhere
<1>9. Holds(t.store, Top.ret, t.val)
  BY <1>2, <1>3, <1>4, <1>5 DEF Holds
<1> QED BY <1>4, <1>7, <1>8, <1>9 DEF n, m, t

\* The stores keep the truth about the activations that go on when the cleaners
\* remove the names of the call.
LEMMA CleanTrue ==
  ASSUME Shapes, Control(prog, calls), Apart(calls), Len(calls) >= 2,
         NEW k \in Nat, k <= Len(calls) - 1, NEW m \in Nat, k <= m,
         NEW cs, \A i \in 1..k : cs[i].fun = calls[i].fun /\ cs[i].tag = calls[i].tag,
         NEW s, IsStore(s), Shaped(prog, s.real, cs, m), Truth(prog, s, cs, k)
  PROVE  Truth(prog, Clean(s, Cleaned(Caller, Top.ret, Top.tag)), cs, k)
<1> DEFINE names == Cleaned(Caller, Top.ret, Top.tag)
           t == Clean(s, names)
<1>1. t.store = Without(s.store, names) /\ t.real = s.real
  BY CleanIs, StoreFacts
<1>2. \A i \in 1..(Len(calls) - 1) : Names(prog, calls[i]) \intersect names = {}
  BY CleanedApart
<1>3. Len(calls) \in Nat
  BY DEF Shapes, IsSeq
<1> HIDE DEF t, names
<1>4. \A x \in DOMAIN s.store : x \notin names => x \in DOMAIN t.store /\ t.store[x] = s.store[x]
  BY <1>1 DEF Without, Restrict
<1>5. ASSUME NEW i \in 1..k, NEW x \in Names(prog, cs[i]), x \in DOMAIN s.store
      PROVE  x \in DOMAIN t.store /\ t.store[x] = s.store[x]
  <2>1. i \in 1..(Len(calls) - 1)
    BY <1>3
  <2>2. x \in Names(prog, calls[i])
    BY DEF Names
  <2> QED BY <1>2, <1>4, <1>5, <2>1, <2>2
<1>6. \A i \in 1..k : t.real[i] = s.real[i]
  BY <1>1
<1>7. Truth(prog, t, cs, k)
  BY <1>5, <1>6, TrueElsewhere
<1> QED BY <1>7 DEF t, names

\* The value of the call is the true one.
LEMMA CallValueTrue ==
  ASSUME Control(prog, calls), Len(calls) \in Nat, NEW m \in 1..Len(calls),
         calls[m].pc \in DOMAIN prog[calls[m].fun].body,
         IsCall(StmtIn(prog, calls[m])), StmtOf(calls[m]) = StmtIn(prog, calls[m]),
         NEW s, Shaped(prog, s.real, calls, m), Truth(prog, s, calls, m),
         NEW ret, Holds(s.store, ret, s.val)
  PROVE  CallValue(s, calls[m], ret) = RealValue(s, calls[m])
<1> DEFINE plus == StmtIn(prog, calls[m]).plus
<1>1. plus.var \in Reads(StmtIn(prog, calls[m]))
  BY DEF Reads
<1> HIDE DEF plus
<1>2. Eval(plus, s.store, calls[m].tag) = RealEval(plus, s.real)
  BY <1>1, ReadTrue
<1>3. s.store[ret] = s.val
  BY DEF Holds
<1> QED BY <1>2, <1>3 DEF CallValue, RealValue, plus

\* The caller uses the value of the call.
LEMMA UsedTrue ==
  ASSUME Shapes, Control(prog, calls), Apart(calls), Len(calls) >= 2,
         NEW ds, Len(ds) = Len(calls) - 1, \A i \in 1..(Len(calls) - 2) : ds[i] = calls[i],
         Moved1(Caller, ds[Len(calls) - 1]),
         NEW s, IsStore(s), Shaped(prog, s.real, calls, Len(calls) - 1),
         Truth(prog, s, calls, Len(calls) - 1), Holds(s.store, Top.ret, s.val)
  PROVE  LET m == Len(calls) - 1
             u == Clean(Used(s, Caller, Top.ret), Cleaned(Caller, Top.ret, Top.tag))
         IN /\ StmtIn(prog, Caller).op = "return_call" => ReturnTrue(prog, u, calls, m)
            /\ StmtIn(prog, Caller).op # "return_call" => Shaped(prog, u.real, ds, m) /\ Truth(prog, u, ds, m)
<1> DEFINE m == Len(calls) - 1
           names == Cleaned(Caller, Top.ret, Top.tag)
           v == Used(s, Caller, Top.ret)
           u == Clean(v, names)
           value == RealValue(s, Caller)
<1>1. /\ Len(calls) \in Nat /\ m \in Nat /\ m >= 1 /\ m - 1 \in Nat /\ m - 1 <= m /\ m \in 1..Len(calls)
      /\ Len(calls) - 2 = m - 1 /\ m - 1 <= Len(calls) - 1 /\ m <= Len(calls) - 1
      /\ \A i \in 1..(m - 1) : i \in 1..m
  BY DEF Shapes, IsSeq
<1>2. /\ Caller = calls[m] /\ Caller.fun \in DOMAIN prog /\ Caller.pc \in DOMAIN prog[Caller.fun].body
      /\ IsCall(StmtIn(prog, Caller)) /\ StmtOf(Caller) = StmtIn(prog, Caller)
      /\ Caller.ret \notin names /\ prog \in Programs
  BY CleanedApart DEF Control
<1>3. CallValue(s, Caller, Top.ret) = value
  BY <1>1, <1>2, CallValueTrue DEF m
<1>4. IsStore(v) /\ u.store = Without(v.store, names) /\ u.real = v.real /\ u.val = v.val
  BY UsedByIs, CleanIs, StoreFacts
<1>5. CASE StmtIn(prog, Caller).op = "return_call"
  <2>1. v.store = Bind(s.store, Caller.ret, value) /\ v.real = s.real /\ v.val = value
    <3> HIDE DEF value
    <3> QED BY <1>2, <1>3, <1>5, UsedIs, StoreFacts DEF value
  <2> HIDE DEF u, v, names, value
  <2>2. Holds(u.store, Caller.ret, u.val)
    <3>1. Holds(v.store, Caller.ret, v.val)
      BY <2>1 DEF Bind, Holds
    <3> QED BY <1>2, <1>4, <3>1 DEF Without, Restrict, Holds
  <2>3. Truth(prog, v, calls, m - 1)
    <3>1. Truth(prog, s, calls, m - 1)
      BY <1>1 DEF Truth, m
    <3>2. \A x \in DOMAIN s.store : x # Caller.ret => x \in DOMAIN v.store /\ v.store[x] = s.store[x]
      BY <2>1 DEF Bind
    <3>3. ASSUME NEW i \in 1..(m - 1) PROVE Caller.ret \notin Names(prog, calls[i])
      <4>1. i \in 1..Len(calls)
        BY <1>1
      <4> QED BY <1>1, <1>2, <4>1, RetIsNoName
    <3> HIDE DEF m
    <3>4. \A i \in 1..(m - 1) : \A x \in Names(prog, calls[i]) :
             x \in DOMAIN s.store => x \in DOMAIN v.store /\ v.store[x] = s.store[x]
      BY <3>2, <3>3
    <3>5. \A i \in 1..(m - 1) : v.real[i] = s.real[i]
      BY <2>1
    <3>6. Shaped(prog, s.real, calls, m)
      BY DEF m
    <3> DEFINE k == m - 1
    <3>7. k \in Nat /\ k <= m /\ m \in Nat
      BY <1>1
    <3> HIDE DEF k
    <3> QED BY <3>1, <3>4, <3>5, <3>6, <3>7, TrueElsewhere DEF k
  <2>4. Truth(prog, u, calls, m - 1)
    <3>1. Shaped(prog, v.real, calls, m)
      BY <2>1 DEF m
    <3> HIDE DEF m
    <3> QED BY <1>1, <1>4, <2>3, <3>1, CleanTrue DEF u, names
  <2>5. Shaped(prog, u.real, calls, m)
    BY <1>4, <2>1 DEF m
  <2> HIDE DEF m
  <2>6. ReturnTrue(prog, u, calls, m)
    BY <1>2, <2>2, <2>4, <2>5 DEF ReturnTrue
  <2> QED BY <1>5, <2>6 DEF u, v, names, m
<1>6. CASE StmtIn(prog, Caller).op # "return_call"
  <2> DEFINE x == StmtIn(prog, Caller).var
  <2>1. /\ v.store = Bind(s.store, Name(x, Caller.tag), value)
        /\ v.real = SetReal(s.real, x, value)
    <3> HIDE DEF value
    <3> QED BY <1>2, <1>3, <1>6, UsedIs, StoreFacts DEF value
  <2>2. StmtIn(prog, Caller).op = "call" /\ Writes(StmtIn(prog, Caller)) = {x}
    BY <1>2, <1>6 DEF IsCall, Writes
  <2>3. x \in Owned(prog, Caller.fun) \union Globals
    BY <1>2, <2>2, WritesFacts DEF Globals
  <2> HIDE DEF u, v, names, value, x
  <2>4. Shaped(prog, v.real, ds, m) /\ Truth(prog, v, ds, m)
    <3>1. /\ Shaped(prog, s.real, calls, m) /\ Truth(prog, s, calls, m)
          /\ \A i \in 1..(m - 1) : ds[i] = calls[i]
          /\ Moved1(calls[m], ds[m])
      BY <1>1, <1>2 DEF m
    <3> HIDE DEF m
    <3> QED BY <1>1, <1>2, <2>1, <2>2, <2>3, <3>1, SetTrue
  <2>5. \A i \in 1..m : ds[i].fun = calls[i].fun /\ ds[i].tag = calls[i].tag
    <3>1. \A i \in 1..m : i \in 1..(m - 1) \/ i = m
      BY <1>1
    <3>2. \A i \in 1..(m - 1) : ds[i] = calls[i]
      BY <1>1
    <3>3. Moved1(calls[m], ds[m])
      BY <1>2
    <3> HIDE DEF m
    <3> QED BY <3>1, <3>2, <3>3 DEF Moved1
  <2> HIDE DEF m
  <2>6. Truth(prog, u, ds, m)
    BY <1>1, <1>4, <2>4, <2>5, CleanTrue DEF u, names
  <2>7. Shaped(prog, u.real, ds, m)
    BY <1>4, <2>4
  <2> QED BY <1>6, <2>6, <2>7 DEF u, v, names, m
<1> QED BY <1>5, <1>6

\* A return flow of the caller, put aside during the call.
LEMMA SavedTrue ==
  ASSUME Shapes, Followed, Control(prog, calls), Faithful, Len(calls) >= 2, NEW s \in Top.saved
  PROVE  ReturnTrue(prog, Clean(s, Cleaned(Caller, Top.ret, Top.tag)), calls, Len(calls) - 1)
<1> DEFINE n == Len(calls)
           m == n - 1
           k == m - 1
           names == Cleaned(Caller, Top.ret, Top.tag)
           t == Clean(s, names)
<1>1. /\ n \in Nat /\ m \in Nat /\ m >= 1 /\ k \in Nat /\ k <= m /\ k <= Len(calls) - 1 /\ n \in 2..n
      /\ Top = calls[n] /\ Caller = calls[m] /\ n \in DOMAIN calls
  BY DEF Shapes, IsSeq, Top, Caller
<1>2. IsStore(s)
  BY <1>1, StoresAre DEF Followed
<1>3. ReturnTrue(prog, s, calls, m)
  BY <1>1 DEF Faithful
<1>4. Shaped(prog, s.real, calls, m) /\ Truth(prog, s, calls, k) /\ Holds(s.store, Caller.ret, s.val)
  BY <1>1, <1>3 DEF ReturnTrue
<1>5. t.store = Without(s.store, names) /\ t.real = s.real /\ t.val = s.val
  BY <1>2, CleanIs, StoreFacts
<1>6. Caller.ret \notin names /\ Apart(calls)
  BY CleanedApart DEF Faithful
<1> HIDE DEF t, k, m
<1>7. Truth(prog, t, calls, k)
  BY <1>1, <1>2, <1>4, <1>6, CleanTrue DEF t, names
<1> HIDE DEF names
<1>8. Holds(t.store, Caller.ret, t.val)
  BY <1>4, <1>5, <1>6 DEF Without, Restrict, Holds
<1>9. ReturnTrue(prog, t, calls, m)
  BY <1>1, <1>4, <1>5, <1>7, <1>8 DEF ReturnTrue, k
<1> QED BY <1>9 DEF t, names, m, n

\* A function ends by returning: what remains is in its return flows.
LEMMA NothingFallsThrough ==
  ASSUME Shapes, Control(prog, calls), Passed(prog, Top) => flow.cur = {}, AtEnd, Len(calls) >= 2
  PROVE  flow.cur = {}
<1> DEFINE n == Len(calls)
           body == prog[Top.fun].body
<1>1. n \in 2..n /\ n \in 1..n /\ Top = calls[n] /\ prog \in Programs
  BY DEF Shapes, IsSeq, Top, Control
<1>2. Top.fun # "main" /\ Top.fun \in DOMAIN prog /\ Top.pc \in 1..(Len(body) + 1)
  BY <1>1 DEF Control, Started, InProgram
<1>3. body \in Seq(StmtsOf(prog)) /\ body # << >> /\ body[Len(body)].op \in {"return", "return_call"}
  BY <1>1, <1>2, ProgramsAssumption
<1>4. Len(body) \in Nat /\ Len(body) # 0
  BY <1>3
<1>5. Top.pc = Len(body) + 1 /\ Top.pc > 1 /\ Top.pc - 1 = Len(body)
  BY <1>2, <1>4 DEF AtEnd, Body
<1>6. Passed(prog, Top)
  BY <1>3, <1>5 DEF Passed
<1> QED BY <1>6

LEMMA LeaveFaithful ==
  ASSUME Shapes, Followed, Control(prog, calls), Faithful, Passed(prog, Top) => flow.cur = {}, Leave PROVE Faithful'
<1> DEFINE n == Len(calls)
           m == n - 1
           names == Cleaned(Caller, Top.ret, Top.tag)
           used(s) == Clean(Used(Popped(s), Caller, Top.ret), names)
<1>1. prog' = prog /\ AtEnd /\ Len(calls) >= 2 /\ Apart(calls)
  BY DEF Leave, Faithful, Shapes, IsSeq
<1>2. /\ n \in Nat /\ m \in Nat /\ m >= 1 /\ m \in 1..m /\ n - 2 = m - 1 /\ m <= n
      /\ Caller = calls[m] /\ StmtOf(Caller) = StmtIn(prog, Caller)
  BY <1>1, CleanedApart DEF Shapes, IsSeq
<1>3. /\ Len(calls') = m
      /\ \A i \in 1..(n - 2) : calls'[i] = calls[i]
      /\ Moved1(Caller, calls'[m]) /\ calls'[m].saved = Caller.saved
  BY LeaveCalls DEF Moved1
<1>4. flow.cur = {}
  BY <1>1, NothingFallsThrough
<1>5. /\ flow'.cur = (IF StmtIn(prog, Caller).op = "return_call" THEN {} ELSE {used(s) : s \in flow.returns})
      /\ flow'.returns = {Clean(s, names) : s \in Top.saved}
                         \union (IF StmtIn(prog, Caller).op = "return_call"
                                 THEN {used(s) : s \in flow.returns} ELSE {})
  <2>1. UsedBy(Caller, Results, Top.ret, Top.tag) = {used(s) : s \in flow.returns}
    BY <1>4 DEF UsedBy, Results
  <2> QED BY <1>2, <2>1, LeaveEffect DEF CleanAll
<1>6. ASSUME NEW s \in flow.returns
      PROVE  /\ StmtIn(prog, Caller).op = "return_call" => ReturnTrue(prog, used(s), calls, m)
             /\ StmtIn(prog, Caller).op # "return_call" =>
                   Shaped(prog, used(s).real, calls', m) /\ Truth(prog, used(s), calls', m)
  <2> DEFINE t == Popped(s)
  <2>1. /\ IsStore(t) /\ Shaped(prog, t.real, calls, m) /\ Truth(prog, t, calls, m)
        /\ Holds(t.store, Top.ret, t.val)
    BY <1>1, PoppedTrue
  <2> HIDE DEF t
  <2>2. LET u == Clean(Used(t, Caller, Top.ret), names)
        IN /\ StmtIn(prog, Caller).op = "return_call" => ReturnTrue(prog, u, calls, m)
           /\ StmtIn(prog, Caller).op # "return_call" => Shaped(prog, u.real, calls', m) /\ Truth(prog, u, calls', m)
    BY <1>1, <1>3, <2>1, UsedTrue
  <2> QED BY <2>2 DEF t
<1>7. ASSUME NEW s \in Top.saved PROVE ReturnTrue(prog, Clean(s, names), calls, m)
  BY <1>1, SavedTrue
<1>8. \A i \in 1..m : /\ calls'[i].fun = calls[i].fun /\ calls'[i].site = calls[i].site
                      /\ calls'[i].tag = calls[i].tag /\ calls'[i].ret = calls[i].ret
  <2> HIDE DEF n, m
  <2>1. \A i \in 1..m : i \in 1..(n - 2) \/ i = m
    BY <1>2
  <2> QED BY <1>2, <1>3, <2>1 DEF Moved1
<1>9. Apart(calls')
  <2> HIDE DEF m
  <2> QED BY <1>1, <1>2, <1>3, <1>8, ApartKept
<1>10. ASSUME NEW k \in 1..m, NEW s, ReturnTrue(prog, s, calls, k) PROVE ReturnTrue(prog, s, calls', k)
  <2>1. k \in Nat /\ k >= 1 /\ \A i \in 1..(k - 1) : i \in 1..(n - 2)
    BY <1>2
  <2>2. calls'[k].fun = calls[k].fun /\ calls'[k].ret = calls[k].ret
    BY <1>8
  <2> HIDE DEF n, m
  <2> QED BY <1>3, <1>10, <2>1, <2>2, ReturnTrueKept
<1>11. ASSUME NEW i \in 2..m, NEW s \in calls'[i].saved PROVE ReturnTrue(prog, s, calls', i - 1)
  <2>1. i \in 2..n /\ i - 1 \in 1..m /\ (i \in 1..(n - 2) \/ i = m)
    <3> HIDE DEF n, m
    <3> QED BY <1>2
  <2>2. s \in calls[i].saved
    BY <1>2, <1>3, <2>1
  <2>3. ReturnTrue(prog, s, calls, i - 1)
    BY <2>1, <2>2 DEF Faithful
  <2> HIDE DEF n, m
  <2> QED BY <1>10, <2>1, <2>3
<1> HIDE DEF used, names, n, m
<1>12. \A s \in flow'.returns : ReturnTrue(prog, s, calls', m)
  <2> SUFFICES ASSUME NEW s \in flow'.returns PROVE ReturnTrue(prog, s, calls, m)
    BY <1>2, <1>10
  <2>1. CASE s \in {Clean(r, names) : r \in Top.saved}
    BY <1>7, <2>1
  <2>2. CASE s \notin {Clean(r, names) : r \in Top.saved}
    BY <1>5, <1>6, <2>2
  <2> QED BY <2>1, <2>2
<1>13. \A s \in flow'.cur : Shaped(prog, s.real, calls', m) /\ Truth(prog, s, calls', m)
  BY <1>5, <1>6
<1> QED BY <1>1, <1>3, <1>9, <1>11, <1>12, <1>13 DEF Faithful

\* No store goes on after a return.
LEMMA PassedAdvance ==
  ASSUME Shapes, Control(prog, calls), ~AtEnd, calls' = Advance(calls), prog' = prog,
         Stmt.op \in {"return", "return_call"} => flow'.cur = {}
  PROVE  Passed(prog', Top') => flow'.cur = {}
<1> DEFINE n == Len(calls)
<1>1. Top' = calls'[n] /\ Top = calls[n]
  BY AdvanceFacts DEF Shapes, Top
<1>2. calls'[n].fun = calls[n].fun /\ calls'[n].pc = calls[n].pc + 1
  BY AdvanceFacts DEF Shapes
<1>3. Top.pc \in Nat /\ Stmt = StmtIn(prog, Top)
  <2>1. Top.pc \in DOMAIN prog[Top.fun].body /\ Top.fun \in DOMAIN prog /\ prog \in Programs
    BY AtStmtFacts DEF Control
  <2>2. Top.pc \in 1..Len(prog[Top.fun].body) /\ Len(prog[Top.fun].body) \in Nat
    BY <2>1, BodyFacts
  <2> QED BY <2>2, AtStmtFacts
<1> HIDE DEF n
<1>4. Top'.fun = Top.fun /\ Top'.pc - 1 = Top.pc
  BY <1>1, <1>2, <1>3
<1> QED BY <1>3, <1>4 DEF Passed, StmtIn

LEMMA PassedStep ==
  ASSUME Shapes, Followed, Control(prog, calls), Passed(prog, Top) => flow.cur = {}, [Next]_vars
  PROVE  Passed(prog', Top') => flow'.cur = {}
<1>1. CASE Assign
  <2>1. calls' = Advance(calls) /\ prog' = prog /\ ~AtEnd /\ Stmt.op = "assign"
    BY <1>1 DEF Assign, AtStmt
  <2> QED BY <2>1, PassedAdvance
<1>2. CASE Return
  <2>1. calls' = Advance(calls) /\ prog' = prog /\ ~AtEnd /\ Stmt.op \in {"return", "return_if_zero"}
    BY <1>2 DEF Return, AtStmt
  <2>2. flow'.cur = flow.cur \ Returning
    BY <1>2, ReturnEffect DEF Followed
  <2>3. Stmt.op = "return" => Returning = flow.cur
    BY DEF Returning
  <2> QED BY <2>1, <2>2, <2>3, PassedAdvance
<1>3. CASE EscapeIfZero
  <2>1. calls' = Advance(calls) /\ prog' = prog /\ ~AtEnd /\ Stmt.op = "escape_if_zero"
    BY <1>3 DEF EscapeIfZero, AtStmt
  <2> QED BY <2>1, PassedAdvance
<1>4. CASE CallUnreachable
  BY <1>4 DEF CallUnreachable
<1>5. CASE Enter
  <2>1. PICK e : calls' = Append(calls, e) /\ e.pc = 1
    BY <1>5, EnterEffect DEF Activation
  <2>2. Top' = e
    BY <2>1, AppendFacts DEF Shapes, Top
  <2> QED BY <2>1, <2>2 DEF Passed
<1>6. CASE Ignore
  <2>1. calls' = Advance(calls) /\ UNCHANGED <<prog, limit>> /\ AtCall
    BY <1>6, Zenon DEF Ignore
  <2>2. ~AtEnd /\ Stmt.op \in {"call", "return_call"} /\ StmtOf(Top) = Stmt
    BY <2>1 DEF AtCall, AtStmt, Stmt
  <2>3. Stmt.op = "return_call" => flow'.cur = {}
    BY <1>6, <2>2, IgnoreEffect
  <2> QED BY <2>1, <2>2, <2>3, PassedAdvance
<1>7. CASE Leave
  <2> DEFINE m == Len(calls) - 1
  <2>1. /\ Len(calls) \in Nat /\ m >= 1 /\ m \in 1..Len(calls) /\ m + 1 \in 2..Len(calls) /\ Len(calls') = m
        /\ calls'[m].fun = Caller.fun /\ calls'[m].pc = Caller.pc + 1 /\ Caller = calls[m]
    <3>1. LET n == Len(calls)
          IN /\ n \in Nat /\ n >= 2 /\ Len(calls') = n - 1
             /\ calls'[n - 1].fun = Caller.fun /\ calls'[n - 1].pc = Caller.pc + 1
      BY <1>7, LeaveCalls
    <3> QED BY <3>1 DEF Caller
  <2>2. Top' = calls'[m] /\ prog' = prog
    BY <1>7, <2>1 DEF Top, Leave
  <2>3. /\ Started(prog, calls[m], calls[m + 1]) /\ InProgram(prog, calls[m]) /\ prog \in Programs
    <3> DEFINE i == m + 1
    <3>1. i \in 2..Len(calls) /\ i - 1 = m
      BY <2>1
    <3> HIDE DEF i, m
    <3> QED BY <2>1, <3>1 DEF Control, i
  <2>4. IsCall(StmtIn(prog, Caller)) /\ StmtOf(Caller) = StmtIn(prog, Caller) /\ Caller.pc \in Nat
    <3>1. Caller.pc \in 1..(Len(prog[Caller.fun].body) + 1) /\ Caller.fun \in DOMAIN prog
      BY <2>1, <2>3 DEF InProgram
    <3>2. Len(prog[Caller.fun].body) \in Nat
      BY <2>3, <3>1, BodyFacts
    <3>3. Caller.pc \in Nat
      BY <3>1, <3>2
    <3>4. IsCall(StmtIn(prog, Caller))
      BY <2>1, <2>3 DEF Started
    <3> QED BY <3>3, <3>4 DEF StmtOf, StmtIn
  <2> HIDE DEF m
  <2>5. Top'.fun = Caller.fun /\ Top'.pc - 1 = Caller.pc
    BY <2>1, <2>2, <2>4
  <2>6. StmtIn(prog, Caller).op = "return_call" => flow'.cur = {}
    BY <1>7, <2>4, LeaveEffect
  <2>7. StmtIn(prog, Caller).op # "return"
    BY <2>4 DEF IsCall
  <2> QED BY <2>2, <2>5, <2>6, <2>7 DEF Passed, StmtIn
<1>8. CASE UNCHANGED vars
  BY <1>8 DEF vars, Top
<1> QED BY <1>1, <1>2, <1>3, <1>4, <1>5, <1>6, <1>7, <1>8 DEF Next

LEMMA InitFaithful == Init => Faithful /\ (Passed(prog, Top) => flow.cur = {})
<1> SUFFICES ASSUME Init PROVE Faithful /\ (Passed(prog, Top) => flow.cur = {})
  OBVIOUS
<1>1. /\ prog \in Programs /\ Len(calls) = 1 /\ calls[1].fun = "main" /\ calls[1].tag = None /\ calls[1].pc = 1
      /\ flow.returns = {}
  BY DEF Init, Activation
<1>2. Apart(calls)
  <2>1. \A i, j \in 1..1 : ~(i < j)
    OBVIOUS
  <2> QED BY <1>1, <2>1 DEF Apart
<1>3. ~Passed(prog, Top)
  BY <1>1 DEF Passed, Top
<1>4. prog["main"].params = << >> /\ "main" \in DOMAIN prog
  BY <1>1, ProgramsAssumption
<1>5. ASSUME NEW s \in flow.cur PROVE Shaped(prog, s.real, calls, 1) /\ Truth(prog, s, calls, 1)
  <2> DEFINE start(n) == [from |-> n, val |-> 0, store |-> [x \in {<<v, None>> : v \in Globals} |-> n],
                          real |-> <<[v \in Globals |-> n]>>]
  <2>1. flow.cur = {start(n) : n \in Inputs}
    BY DEF Init
  <2>2. PICK n \in Inputs : s = start(n)
    BY <2>1
  <2>3. s.real = <<[v \in Globals |-> n]>> /\ s.store = [x \in {<<v, None>> : v \in Globals} |-> n]
    BY <2>2
  <2>4. IsSeq(s.real) /\ Len(s.real) = 1 /\ s.real[1] = [v \in Globals |-> n]
    BY <2>3 DEF IsSeq
  <2>5. \A i \in 1..1 : i = 1
    OBVIOUS
  <2>6. Range(prog["main"].params) = {} /\ Globals \subseteq Owned(prog, "main")
    BY <1>4 DEF Range, Owned, Globals
  <2>7. Shaped(prog, s.real, calls, 1)
    BY <1>1, <2>4, <2>5, <2>6 DEF Shaped, Globals
  <2>8. SetBefore(prog, calls[1]) = {}
    BY <1>1 DEF SetBefore
  <2>9. \A v \in Globals : Holds(s.store, <<v, None>>, s.real[1][v])
    BY <2>3, <2>4 DEF Holds
  <2> QED BY <1>1, <2>4, <2>5, <2>7, <2>8, <2>9 DEF Truth
<1> QED BY <1>1, <1>2, <1>3, <1>5 DEF Faithful

LEMMA FaithfulStep ==
  ASSUME IInv, Followed, Control(prog, calls), Passed(prog, Top) => flow.cur = {},
         history = "apart" => Faithful, [Next]_vars, history' = "apart"
  PROVE  Faithful'
<1>1. Shapes
  BY DEF IInv
<1>2. CASE Next
  <2>1. ~Ignore
    BY DEF Ignore
  <2>2. history = "apart"
    BY <1>2, <2>1 DEF Next, Assign, Return, EscapeIfZero, CallUnreachable, Enter, Leave
  <2> QED BY <1>1, <1>2, <2>1, <2>2, AssignFaithful, ReturnFaithful, EscapeFaithful,
             CallUnreachableFaithful, EnterFaithful, LeaveFaithful DEF Next
<1>3. CASE UNCHANGED vars
  BY <1>3 DEF vars, Faithful
<1> QED BY <1>2, <1>3

\* As long as no live call is made again from its own site, and no function
\* without parameters while it is live, the renaming keeps the activations
\* apart: each variable holds its true value under the name that its activation
\* gave it, whatever the others did, and each returned value is the true one.
THEOREM FramesStayApart == Spec => []FramesTrueApart
<1> DEFINE Inv == /\ IInv /\ Followed /\ Control(prog, calls)
                  /\ Passed(prog, Top) => flow.cur = {}
                  /\ history = "apart" => Faithful
<1>1. Inv => FramesTrueApart
  <2> SUFFICES ASSUME IInv, Faithful PROVE FramesTrue
    BY DEF FramesTrueApart
  <2>1. DOMAIN calls = 1..Len(calls) /\ Len(calls) \in 1..Len(calls) /\ Top = calls[Len(calls)]
    BY DEF IInv, Shapes, IsSeq, Top
  <2>2. \A s \in flow.cur : \A i \in DOMAIN calls : \A v \in DOMAIN s.real[i] :
           Holds(s.store, <<v, calls[i].tag>>, s.real[i][v])
    BY <2>1 DEF Faithful, Truth
  <2>3. \A s \in flow.returns : Holds(s.store, Top.ret, s.val)
    BY <2>1 DEF Faithful, ReturnTrue
  <2> QED BY <2>2, <2>3 DEF FramesTrue
<1>2. Init => Inv
  BY InitIInv, InitFollowed, InitControl, InitFaithful
<1>3. Inv /\ [Next]_vars => Inv'
  <2> SUFFICES ASSUME Inv, [Next]_vars PROVE Inv'
    OBVIOUS
  <2>1. Shapes
    BY DEF IInv
  <2>2. IInv' /\ Followed' /\ Control(prog', calls')
    BY <2>1, IInvStep, FollowedStep, ControlStep
  <2>3. Passed(prog', Top') => flow'.cur = {}
    BY <2>1, PassedStep
  <2>4. history' = "apart" => Faithful'
    BY FaithfulStep
  <2> QED BY <2>2, <2>3, <2>4
<1> QED BY <1>1, <1>2, <1>3, PTL DEF Spec
===============================================================================
