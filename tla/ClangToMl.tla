----------------------------- MODULE ClangToMl -----------------------------
(***************************************************************************)
(* The translation of the syntax tree Clang has built into OCaml values    *)
(* (parsers/c/lib/parser/Clang_to_ml.cc): the recursive calls of the       *)
(* translators as a stack of frames, the blocks they allocate and the      *)
(* caches that keep sharing and end the recursion on cyclic trees.         *)
(***************************************************************************)
EXTENDS ClangTranslators, FiniteSets

CONSTANTS
  Programs,             \* the translation units
  Root(_),              \* the TranslationUnitDecl of a program
  ClassOf(_, _),        \* the class of a node of a program
  Inherited(_),         \* the classes a class inherits from, itself included
  Children(_, _, _),    \* the nodes an accessor, a field of a node, gives
  Enumerator(_, _, _),  \* the value of an enumeration at a node, if it has one
  CacheWords,           \* the words of a new cache: 100 in the code
  MaxDepth              \* how many nested calls the C++ stack holds

ASSUME CacheWordsAssumption == CacheWords \in Nat \ {0}

VARIABLES prog,    \* the program translated
          caches,  \* the caches, by name
          heap,    \* the blocks allocated
          stack,   \* the calls under way: the last one runs
          uid,     \* the next identifier of an entity
          result,  \* what the outermost call returned
          status   \* "running" | "done" | "exception" | "abort" | "overflow"
vars == <<prog, caches, heap, stack, uid, result, status>>

(* A value is a block or an immediate; the constructor an immediate stands *)
(* for is kept beside it.                                                  *)
Ref(b)      == <<"ref", b, "">>
Const(i, c) == <<"imm", i, c>>
Unset       == [how |-> "unit", vs |-> <<>>]

(* The class Cache: the key of a node gives an index of one OCaml block,   *)
(* doubled when it is full.                                                *)
ValUnitWord == Const(0, "")
EmptyCache == [map |-> <<>>, mlvalues |-> [i \in 1..CacheWords |-> ValUnitWord], nb |-> 0]
Contains(c, key) == key \in DOMAIN caches[c].map
Get(c, key) == caches[c].mlvalues[caches[c].map[key]]
RoomCleared(c) == LET old == caches[c].mlvalues IN
  IF caches[c].nb >= Len(old) THEN [i \in 1..2 * Len(old) |-> ValUnitWord] ELSE old
Room(c) == LET old == caches[c].mlvalues IN
  IF caches[c].nb >= Len(old) THEN old \o [i \in 1..Len(old) |-> ValUnitWord] ELSE old
Index(c, key) == IF Contains(c, key) THEN caches[c].map[key] ELSE caches[c].nb + 1
Store(c, key, v) ==
  LET i == Index(c, key) IN
  [caches EXCEPT ![c] =
     [map      |-> [k \in DOMAIN caches[c].map \cup {key} |-> IF k = key THEN i ELSE caches[c].map[k]],
      mlvalues |-> [IF Contains(c, key) THEN caches[c].mlvalues ELSE Room(c) EXCEPT ![i] = v],
      nb       |-> IF Contains(c, key) THEN caches[c].nb ELSE i]]

(* The block a translator fills for a node: GENERATE_NODE and its variants *)
(* try the classes in order.                                               *)
First(I) == CHOOSE i \in I : \A j \in I : i <= j
NoMatch == Constant("no match")
Choose(fn, classes) ==
  LET matching == {i \in 1..Len(Kinds[fn]) : Kinds[fn][i].cls \in classes} IN
  IF matching # {} THEN Kinds[fn][First(matching)]
  ELSE IF fn \in DOMAIN Unknown THEN Node(Unknown[fn], <<Imm, Boxed>>)
  ELSE NoMatch
ShapeIn(p, fn, n) ==
  IF fn \in DOMAIN Records THEN Node("record", Records[fn])
  ELSE Choose(fn, Inherited(ClassOf(p, n)))
Shape(fn, n) == ShapeIn(prog, fn, n)
BlockTag(fn, ctor) == IF fn \in DOMAIN Records THEN 0 ELSE TagOf(BlockTags(fn), ctor)

(* A block, with the node it is made for; the record of an indirect        *)
(* constructor has tag 0, like any record.                                 *)
Block(fn, n, ctor, part, tag, fields) ==
  [fn |-> fn, node |-> n, ctor |-> ctor, part |-> part, tag |-> tag, fields |-> fields]
Allocated(fn, n) ==
  LET s == Shape(fn, n) IN
  Block(fn, n, s.cls, IF s.how = "indirect" THEN "argument" ELSE "whole",
        IF s.how = "indirect" THEN 0 ELSE BlockTag(fn, s.cls), [i \in 1..Len(s.fields) |-> Unset])
WrapperUntagged(fn, n, b) ==
  Block(fn, n, Shape(fn, n).cls, "whole", 0, <<[how |-> "one", vs |-> <<Ref(b)>>]>>)
Wrapper(fn, n, b) ==
  LET s == Shape(fn, n) IN
  Block(fn, n, s.cls, "whole", BlockTag(fn, s.cls), <<[how |-> "one", vs |-> <<Ref(b)>>]>>)
WithField(b, i, v) == Block(b.fn, b.node, b.ctor, b.part, b.tag, [b.fields EXCEPT ![i] = v])

(* TranslateBaseUsingDecl hands a UsingDecl to its translator.             *)
Target(fn) == IF fn = "BaseUsingDecl" THEN "UsingDecl" ELSE fn

(* What all the tables have in common: a field that translates names a     *)
(* translator, a block has one identifier at most, and what is stored      *)
(* before it is filled is not wrapped afterwards.                          *)
Translating(f) == f[1] \in {"one", "opt", "list", "array", "opt list"}
Translators == DOMAIN Records \cup DOMAIN Kinds
ShapesOf(fn) ==
  IF fn \in DOMAIN Records THEN {Node("record", Records[fn])}
  ELSE {Kinds[fn][i] : i \in 1..Len(Kinds[fn])}
       \cup (IF fn \in DOMAIN Unknown THEN {Node(Unknown[fn], <<Imm, Boxed>>)} ELSE {})
Regular(fn, s) ==
  /\ Len(s.fields) \in Nat /\ s.fields = [i \in 1..Len(s.fields) |-> s.fields[i]]
  /\ \A i \in 1..Len(s.fields) : Translating(s.fields[i]) => Target(s.fields[i][2]) \in Translators
  /\ \A i, j \in 1..Len(s.fields) : s.fields[i] = Uid /\ s.fields[j] = Uid => i = j
  /\ StoredBefore(fn) => s.how # "indirect"
ASSUME TablesAssumption ==
  /\ {"Decl", "UsingDecl"} \subseteq DOMAIN Records
  /\ \A fn \in Translators : \A s \in ShapesOf(fn) : Regular(fn, s)
RejectedIn(p, fn, n) ==
  IF fn = "BaseUsingDecl" THEN "UsingDecl" \notin Inherited(ClassOf(p, n)) ELSE ShapeIn(p, fn, n) = NoMatch
Rejected(fn, n) == RejectedIn(prog, fn, n)

(* The call that runs, the field it fills and the nodes to translate.      *)
Top == stack[Len(stack)]
Fields == Top.fields
Filling == status = "running" /\ stack # <<>> /\ Top.next <= Len(Fields)
Field == Fields[Top.next]
NodesOf(p, n, f) == IF f[3] = "this" THEN <<n>> ELSE Children(p, n, f)
Translates == Translating(Field)
Switches == Field[1] \in {"switch", "opt switch"}
Nodes == NodesOf(prog, Top.node, Field)
Calling == Filling /\ Translates /\ Len(Top.got) < Len(Nodes)
Callee  == Target(Field[2])
Arg     == Nodes[Len(Top.got) + 1]

Frame(fn, n, b, fields, next, got) ==
  [fn |-> fn, node |-> n, blk |-> b, fields |-> fields, next |-> next, got |-> got]
ReceivedInFront(fr, v) ==
  Frame(fr.fn, fr.node, fr.blk, fr.fields, fr.next,
        IF fr.fields[fr.next][1] = "list" THEN <<v>> \o fr.got ELSE Append(fr.got, v))
Received(fr, v) == Frame(fr.fn, fr.node, fr.blk, fr.fields, fr.next, Append(fr.got, v))
Advanced(fr) == Frame(fr.fn, fr.node, fr.blk, fr.fields, fr.next + 1, <<>>)
Got(v) == [stack EXCEPT ![Len(stack)] = Received(Top, v)]
Stop(why) == status' = why /\ UNCHANGED <<prog, caches, heap, stack, uid, result>>

Init ==
  /\ prog \in Programs
  /\ caches = [c \in CacheNames |-> EmptyCache]
  /\ heap = <<>> /\ stack = <<>> /\ uid = 0
  /\ result = ValUnitWord /\ status = "running"

(* A call that misses its cache allocates its block, stores it and runs.   *)
Enter(fn, n) ==
  LET b == Len(heap) + 1 IN
  /\ heap' = Append(heap, Allocated(fn, n))
  /\ stack' = Append(stack, Frame(fn, n, b, Shape(fn, n).fields, 1, <<>>))
  /\ caches' = IF StoredBefore(fn) THEN Store(CacheOf(fn), n, Ref(b)) ELSE caches
  /\ UNCHANGED <<prog, uid, result, status>>

(* MLTreeBuilderConsumer::HandleTranslationUnit.                           *)
HandleTranslationUnit ==
  /\ status = "running" /\ stack = <<>>
  /\ Enter("Decl", Root(prog))

(* A child found in the cache.                                             *)
Cached == CacheOf(Callee) # "none" /\ Contains(CacheOf(Callee), Arg)
Hit ==
  /\ Calling /\ ~Rejected(Field[2], Arg) /\ Cached
  /\ stack' = Got(Get(CacheOf(Callee), Arg))
  /\ UNCHANGED <<prog, caches, heap, uid, result, status>>

(* A child whose kind is a constructor without arguments.                  *)
ConstantKind ==
  /\ Calling /\ ~Rejected(Field[2], Arg) /\ ~Cached /\ Shape(Callee, Arg).how = "constant"
  /\ LET c == Shape(Callee, Arg).cls
     IN stack' = Got(Const(TagOf(ConstantTags(Callee), c), c))
  /\ UNCHANGED <<prog, caches, heap, uid, result, status>>

(* A child to translate.                                                   *)
Miss ==
  /\ Calling /\ ~Rejected(Field[2], Arg) /\ ~Cached /\ Shape(Callee, Arg).how # "constant"
  /\ IF Len(stack) = MaxDepth THEN Stop("overflow") ELSE Enter(Callee, Arg)

(* caml_failwith: no macro or no case applies.                             *)
Raise ==
  /\ Filling
  /\ \/ Calling /\ Rejected(Field[2], Arg)
     \/ Field = Failwith
     \/ /\ Switches
        /\ \E v \in Enumerator(prog, Top.node, Field) : ~Handled(Field[2], v)
  /\ Stop("exception")

(* check_null: a child that must be there is not.                          *)
Abort == Filling /\ Translates /\ Field[1] = "one" /\ Nodes = <<>> /\ Stop("abort")

(* Store_field, when the value of the field is known.                      *)
SwitchValue ==
  LET vs == Enumerator(prog, Top.node, Field) IN
  [how |-> IF Field[1] = "switch" THEN "one" ELSE "opt",
   vs  |-> IF vs = {} THEN <<>>
           ELSE LET v == CHOOSE v \in vs : TRUE IN <<Const(SwitchTag(Field[2], v), v)>>]
FieldValue ==
  CASE Translates        -> [how |-> Field[1], vs |-> Top.got]
    [] Switches          -> SwitchValue
    [] Field = Uid       -> [how |-> "imm", vs |-> <<Const(uid, "uid")>>]
    [] Field[1] = "leaf" -> [how |-> Field[2], vs |-> <<>>]
    [] OTHER             -> Unset
Storable ==
  /\ Field # Failwith
  /\ Translates => Len(Top.got) = Len(Nodes) /\ (Field[1] = "one" => Nodes # <<>>)
  /\ Switches => \A v \in Enumerator(prog, Top.node, Field) : Handled(Field[2], v)
StoreFieldFresh ==
  /\ Filling /\ Storable
  /\ heap' = [heap EXCEPT ![Top.blk] = WithField(heap[Top.blk], Top.next, FieldValue)]
  /\ uid' = uid + 1
  /\ stack' = [stack EXCEPT ![Len(stack)] = Advanced(Top)]
  /\ UNCHANGED <<prog, caches, result, status>>
StoreField ==
  /\ Filling /\ Storable
  /\ heap' = [heap EXCEPT ![Top.blk] = WithField(heap[Top.blk], Top.next, FieldValue)]
  /\ uid' = IF Field = Uid THEN uid + 1 ELSE uid
  /\ stack' = [stack EXCEPT ![Len(stack)] = Advanced(Top)]
  /\ UNCHANGED <<prog, caches, result, status>>

(* The end of a call: an indirect record is wrapped, a qualified type      *)
(* enters its cache, and the caller gets the value.                        *)
Indirectly == heap[Top.blk].part = "argument"
Returned == IF Indirectly THEN Ref(Len(heap) + 1) ELSE Ref(Top.blk)
Return ==
  /\ status = "running" /\ stack # <<>> /\ Top.next > Len(Fields)
  /\ heap' = IF Indirectly THEN Append(heap, Wrapper(Top.fn, Top.node, Top.blk)) ELSE heap
  /\ caches' = IF StoredAfter(Top.fn) THEN Store(CacheOf(Top.fn), Top.node, Returned) ELSE caches
  /\ LET up == Len(stack) - 1 IN
     IF up = 0 THEN stack' = <<>> /\ result' = Returned /\ status' = "done"
     ELSE /\ stack' = [SubSeq(stack, 1, up) EXCEPT ![up] = Received(stack[up], Returned)]
          /\ UNCHANGED <<result, status>>
  /\ UNCHANGED <<prog, uid>>

Step == HandleTranslationUnit \/ Hit \/ ConstantKind \/ Miss \/ Raise \/ Abort \/ StoreField \/ Return
Ended == status # "running" /\ UNCHANGED vars
Next == Step \/ Ended
Spec == Init /\ [][Next]_vars
=============================================================================
