--------------------------- MODULE StubContracts ---------------------------
(***************************************************************************)
(* The vocabulary of the contracts of the C library (the special comments  *)
(* of share/mopsa/stubs/c/libc), in which the tables of the next modules   *)
(* are written, and what the analyser makes of a contract at a call.       *)
(*                                                                         *)
(* A parameter is named by its role: what is passed to the function        *)
(* ("path", "string", "buf"), where it writes ("out", "out2"), or the      *)
(* resource it works on ("fd", "stream", "dir", "timer", "mem", ...).      *)
(* A size "n" is zero or not (too small or not, for initstate), an integer *)
(* "k" is its sign, and "x" may also be the least of its type.  Left out   *)
(* are flags, modes, bases and alignments, which have one of the values    *)
(* their requirement lists, the contents of buffers, and the upper bounds  *)
(* of sizes and positions; what is required of an unsigned integer to be   *)
(* at least 0 always holds.                                                *)
(***************************************************************************)
EXTENDS Naturals, Sequences, FiniteSets, TLC

(* Results.                                                                *)
Zero    == {"0"}
MinusOne == {"-1"}
One     == {"1"}
All     == {"all"}                \* as many as asked for
Count   == {"0", "1", "+", "all"}
AnyInt  == {"-", "-1"} \cup Count
Positive == Count \ Zero
NonZero == AnyInt \ Zero
Object  == {"object"}
Null    == {"null"}
Maybe   == Object \cup Null
Nothing == {"none"}
Descriptor == {"descriptor"}

(* requires: what must hold of a parameter for the call to be accepted.    *)
Valid(p)     == <<"valid", p>>        \* valid_string, valid_ptr, valid_bytes
OrNull(p)    == <<"null or valid", p>>
Open(p)      == <<"open", p>>         \* alive_resource(_mopsa_find_file_resource(fd), FileRes)
OpenOrCwd(p) == <<"open or cwd", p>>
Alive(p)     == <<"alive", p>>        \* alive_resource(p, File), or Dir
ValidIf(p, q) == <<"valid if given", p, q>>   \* q # NULL implies valid(p)
ValidFor(p, n) == <<"valid for", p, n>>       \* valid_bytes and null_or_valid_bytes(p, n): NULL when n = 0 only
NotNegative(k) == <<"not negative", k>>
AtLeastOne(k)  == <<"at least one", k>>
NotZero(x)     == <<"not zero", x>>
NotLeast(x)    == <<"not least", x>>
AliveIfGiven(p) == <<"alive if given", p>>
In(p)        == <<"in", p>>           \* p in File: also when it was freed
Either(p, q) == <<"either", p, q>>    \* p # NULL or q # NULL
EitherRoom(p, n, q, m) == <<"either room", p, n, q, m>>  \* p # NULL and n > 0, or q # NULL and m > 0

(* case: what the call may do.  "writes" is assigned whole, "bytes" up to  *)
(* a size, and "op" is what becomes of the resources.                      *)
Case(ret, errno) == [when |-> {}, needs |-> {}, writes |-> {}, bytes |-> {}, errno |-> errno, ret |-> ret,
                     frees |-> {}, op |-> "none"]
Ret(ret)  == Case(ret, FALSE)
Err(ret)  == Case(ret, TRUE)
Into(ps, c)    == [c EXCEPT !.writes = @ \cup ps]
UpTo(p, n, c)  == [c EXCEPT !.bytes = @ \cup {<<p, n>>}]   \* assigns: p[0, n)
When(conds, c) == [c EXCEPT !.when = conds]
Needing(needs, c) == [c EXCEPT !.needs = needs]
Doing(op, c)   == [c EXCEPT !.op = op]
Freeing(p, c)  == [c EXCEPT !.frees = {p}]
Given(p)  == <<"given", p>>
Missing(p) == <<"null", p>>
Taken(p)  == <<"taken", p>>
Vacant(p) == <<"vacant", p>>
Empty(n)  == <<"zero", n>>
Filled(n) == <<"more", n>>
Negative(k) == <<"negative", k>>
AtLeastZero(k) == <<"at least zero", k>>
Room(p, n)   == <<"room", p, n>>      \* p # NULL and n > 0
NoRoom(p, n) == <<"no room", p, n>>

Ok   == Ret(Zero)
FailQuietly == Ret(MinusOne)    \* fault: the failure leaves errno out
Fail == Err(MinusOne)
FailNull == Err(Null)

On(fs, stub) == [f \in fs |-> stub]
Stub(needs, cases) == [needs |-> needs, cases |-> cases]
OkOrFail(needs) == Stub(needs, {Ok, Fail})
RetOrFail(needs, ret) == Stub(needs, {Ret(ret), Fail})
Returns(needs, ret) == Stub(needs, {Ret(ret)})
ObjectOrFail(needs) == Stub(needs, {Ret(Object), FailNull})
ReturnsFilling(needs, outs, ret) == Stub(needs, {Into(outs, Ret(ret))})
FillsOrFail(needs, outs) == Stub(needs, {Into(outs, Ok), Fail})
FillsUpTo(needs, n, ret) == Stub(needs \cup {ValidFor("out", n)}, {UpTo("out", n, Ret(ret)), Fail})

(* A call gives each parameter of the function a state: "valid" or "null"  *)
(* for a pointer, "open", "closed" or "cwd" for a descriptor, "alive" or   *)
(* "dead" for a resource, "negative", "zero" or "more" for an integer.     *)
NotNull(state) == state # "null"
HasRoom(p, n, args) == NotNull(args[p]) /\ args[n] = "more"
\* Fault: an argument that may be NULL is required to be valid.
AcceptsNoNull(need, args) ==
  LET state == args[need[2]] IN
  CASE need[1] \in {"open", "open or cwd"} -> state = "open"
    [] need[1] \in {"alive", "alive if given"} -> state = "alive"
    [] OTHER -> NotNull(state)
Accepts(need, args) ==
  LET state == args[need[2]] IN
  CASE need[1] = "valid"          -> NotNull(state)
    [] need[1] = "null or valid"  -> TRUE
    [] need[1] = "open"           -> state = "open"
    [] need[1] = "open or cwd"    -> state \in {"open", "cwd"}
    [] need[1] = "alive"          -> state = "alive"
    [] need[1] = "alive if given" -> state # "dead"
    [] need[1] = "in"             -> NotNull(state)
    [] need[1] = "valid if given" -> NotNull(args[need[3]]) => NotNull(state)
    [] need[1] = "valid for"      -> args[need[3]] = "more" => state \notin {"null", "dead"}
    [] need[1] = "not negative"   -> state # "negative"
    [] need[1] = "at least one"   -> state = "more"
    [] need[1] = "not zero"       -> state # "zero"
    [] need[1] = "not least"      -> state # "least"
    [] need[1] = "either"         -> NotNull(state) \/ NotNull(args[need[3]])
    [] need[1] = "either room"    -> HasRoom(need[2], need[3], args) \/ HasRoom(need[4], need[5], args)

Holds(cond, args) ==
  LET state == args[cond[2]] IN
  CASE cond[1] = "given"  -> NotNull(state)
    [] cond[1] = "null"   -> ~NotNull(state)
    [] cond[1] = "taken"  -> state = "open"
    [] cond[1] = "vacant" -> state = "closed"
    [] cond[1] = "room"    -> HasRoom(cond[2], cond[3], args)
    [] cond[1] = "no room" -> ~HasRoom(cond[2], cond[3], args)
    [] cond[1] = "at least zero" -> state # "negative"
    [] OTHER              -> state = cond[1]

(* Sections are run in order, then every case whose assumptions hold       *)
(* apart, and the results are joined; assigns checks that its target is    *)
(* valid, unless its range is empty, and free that its resource was not    *)
(* freed before.                                                           *)
Applicable(stub, args) == {c \in stub.cases : \A cond \in c.when : Holds(cond, args)}
\* Fault: assigns and free check nothing.
AlarmedByNeeds(stub, args) ==
  \/ \E need \in stub.needs : ~Accepts(need, args)
  \/ \E c \in Applicable(stub, args) : \E need \in c.needs : ~Accepts(need, args)
Alarmed(stub, args) ==
  \/ \E need \in stub.needs : ~Accepts(need, args)
  \/ \E c \in Applicable(stub, args) :
       \/ \E need \in c.needs : ~Accepts(need, args)
       \/ \E p \in c.writes : ~NotNull(args[p])
       \/ \E b \in c.bytes : args[b[2]] = "more" /\ ~NotNull(args[b[1]])
       \/ \E p \in c.frees : args[p] = "dead"
Allows(c, out) ==
  out.ret \in c.ret /\ (out.errno => c.errno) /\ out.written \subseteq c.writes \cup {b[1] : b \in c.bytes}
RolesOf(stub) ==
  LET Named(tuples) == UNION {{t[i] : i \in 2..Len(t)} : t \in tuples} IN
  Named(stub.needs) \cup
  UNION {Named(c.needs) \cup Named(c.when) \cup c.writes \cup c.frees \cup UNION {{b[1], b[2]} : b \in c.bytes} :
           c \in stub.cases}
=============================================================================
