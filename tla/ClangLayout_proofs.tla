------------------------- MODULE ClangLayout_proofs -------------------------
(***************************************************************************)
(* What the translator of the syntax tree of Clang promises for every      *)
(* program: its caches answer for the right node, it keeps sharing, the    *)
(* blocks form the graph of the program and have the layout of its types,  *)
(* and the recursion is bounded.                                           *)
(***************************************************************************)
EXTENDS ClangLayout, BasicFacts

----------------------------------------------------------------------------
(* Sequences.                                                              *)
Replaced(t, s, k, e) ==
  IsSeq(t) /\ Len(t) = Len(s) /\ \A i \in 1..Len(s) : t[i] = IF i = k THEN e ELSE s[i]

LEMMA ElementReplaced ==
  ASSUME NEW s, IsSeq(s), NEW k \in 1..Len(s), NEW e
  PROVE  Replaced([s EXCEPT ![k] = e], s, k, e)
<1> DEFINE t == [s EXCEPT ![k] = e]
<1>1. PICK Elts : s \in Seq(Elts)
  BY SeqFacts
<1>2. s \in Seq(Elts \cup {e})
  BY <1>1
<1>3. t \in Seq(Elts \cup {e}) /\ Len(t) = Len(s) /\ \A i \in 1..Len(s) : t[i] = IF i = k THEN e ELSE s[i]
  BY <1>2
<1> QED BY <1>3, SeqIs DEF Replaced

LEMMA Concatenated ==
  ASSUME NEW s, IsSeq(s), NEW t, IsSeq(t)
  PROVE  IsSeq(s \o t) /\ Len(s \o t) = Len(s) + Len(t) /\ \A i \in 1..Len(s) : (s \o t)[i] = s[i]
<1>1. PICK Elts1 : s \in Seq(Elts1)
  BY SeqFacts
<1>2. PICK Elts2 : t \in Seq(Elts2)
  BY SeqFacts
<1> DEFINE Elts == Elts1 \cup Elts2
<1>3. s \in Seq(Elts) /\ t \in Seq(Elts)
  BY <1>1, <1>2
<1> HIDE DEF Elts
<1>4. /\ s \o t \in Seq(Elts) /\ Len(s \o t) = Len(s) + Len(t)
      /\ \A i \in 1..Len(s) : (s \o t)[i] = s[i]
  BY <1>3
<1> QED BY <1>4, SeqIs

LEMMA Repeated == ASSUME NEW n \in Nat, NEW e PROVE LET t == [i \in 1..n |-> e] IN IsSeq(t) /\ Len(t) = n
  BY DEF IsSeq

(* A smallest number.                                                      *)
Below == {ss \in Nat \X Nat : ss[1] < ss[2]}

LEMMA FirstIs == ASSUME NEW I \in SUBSET Nat, I # {} PROVE First(I) \in I
<1>1. IsWellFoundedOn(Below, Nat)
  BY NatLessThanWellFounded DEF OpToRel, Below
<1>2. PICK x \in I : \A y \in I : ~(<<y, x>> \in Below)
  BY <1>1, WFMin
<1>3. ASSUME NEW y \in I PROVE x <= y
  <2>1. x \in Nat /\ y \in Nat
    OBVIOUS
  <2>2. ~(<<y, x>> \in Below)
    BY <1>2
  <2>3. ~(y < x)
    BY <2>1, <2>2 DEF Below
  <2> QED BY <2>1, <2>3
<1>4. \E z \in I : \A y \in I : z <= y
  BY <1>3
<1> QED BY <1>4 DEF First

----------------------------------------------------------------------------
(* The tables.                                                             *)
LEMMA CacheIsNamed == ASSUME NEW fn, CacheOf(fn) # "none" PROVE CacheOf(fn) \in CacheNames
  BY DEF CacheOf, CacheNames

LEMMA ChosenIs ==
  ASSUME NEW fn \in Translators, fn \notin DOMAIN Records, NEW classes, Choose(fn, classes) # NoMatch
  PROVE  Choose(fn, classes) \in ShapesOf(fn)
<1> DEFINE matching == {i \in 1..Len(Kinds[fn]) : Kinds[fn][i].cls \in classes}
<1>1. CASE matching # {}
  <2>1. Choose(fn, classes) = Kinds[fn][First(matching)]
    BY <1>1 DEF Choose
  <2>2. First(matching) \in 1..Len(Kinds[fn])
    <3>1. matching \in SUBSET Nat
      OBVIOUS
    <3>2. First(matching) \in matching
      <4> HIDE DEF matching
      <4> QED BY <1>1, <3>1, FirstIs
    <3> QED BY <3>2
  <2> HIDE DEF matching
  <2> QED BY <2>1, <2>2 DEF ShapesOf
<1>2. CASE matching = {}
  <2>1. fn \in DOMAIN Unknown /\ Choose(fn, classes) = Node(Unknown[fn], <<Imm, Boxed>>)
    BY <1>2 DEF Choose
  <2> QED BY <2>1 DEF ShapesOf
<1> QED BY <1>1, <1>2

LEMMA ShapeIs ==
  ASSUME NEW fn \in Translators, NEW p, NEW n, ShapeIn(p, fn, n) # NoMatch
  PROVE  ShapeIn(p, fn, n) \in ShapesOf(fn) /\ Regular(fn, ShapeIn(p, fn, n))
<1>1. CASE fn \in DOMAIN Records
  <2>1. ShapeIn(p, fn, n) = Node("record", Records[fn])
    BY <1>1, Zenon DEF ShapeIn
  <2> QED BY <1>1, <2>1, TablesAssumption DEF ShapesOf
<1>2. CASE fn \notin DOMAIN Records
  <2>1. PICK classes : ShapeIn(p, fn, n) = Choose(fn, classes)
    BY <1>2, Zenon DEF ShapeIn
  <2>2. ShapeIn(p, fn, n) \in ShapesOf(fn)
    BY <1>2, <2>1, ChosenIs
  <2> QED BY <2>2, TablesAssumption
<1> QED BY <1>1, <1>2

----------------------------------------------------------------------------
(* The caches.                                                             *)
(*                                                                         *)
(* The indices of a cache are numbered from 1, each belongs to one key and *)
(* holds a block made for this key by a translator of the cache.  Blocks   *)
(* are filled but what they are does not change.                           *)
Kept(h, h1) ==
  /\ Len(h) <= Len(h1)
  /\ \A b \in 1..Len(h) :
       /\ h1[b].fn = h[b].fn /\ h1[b].node = h[b].node /\ h1[b].part = h[b].part /\ h1[b].ctor = h[b].ctor
       /\ Len(h1[b].fields) = Len(h[b].fields)
EntryFor(c, k, v, h) ==
  \E b \in 1..Len(h) : v = Ref(b) /\ h[b].node = k /\ CacheOf(h[b].fn) = c /\ h[b].part = "whole"
Numbered(m, nb) ==
  /\ \A k \in DOMAIN m : m[k] \in 1..nb
  /\ \A k, l \in DOMAIN m : m[k] = m[l] => k = l
Sized(vs, nb) == nb \in Nat /\ IsSeq(vs) /\ 1 <= Len(vs) /\ nb <= Len(vs)
Answers(c, m, vs, h) == \A k \in DOMAIN m : EntryFor(c, k, vs[m[k]], h)
CacheOK(c, r, h) == Numbered(r.map, r.nb) /\ Sized(r.mlvalues, r.nb) /\ Answers(c, r.map, r.mlvalues, h)
CachesOK(cs, h) == cs = [c \in CacheNames |-> cs[c]] /\ \A c \in CacheNames : CacheOK(c, cs[c], h)

LEMMA EntryKept ==
  ASSUME NEW c, NEW k, NEW v, NEW h, NEW h1, IsSeq(h), IsSeq(h1), Kept(h, h1), EntryFor(c, k, v, h)
  PROVE  EntryFor(c, k, v, h1)
<1>1. PICK b \in 1..Len(h) : v = Ref(b) /\ h[b].node = k /\ CacheOf(h[b].fn) = c /\ h[b].part = "whole"
  BY DEF EntryFor
<1>2. b \in 1..Len(h1) /\ h1[b].node = k /\ CacheOf(h1[b].fn) = c /\ h1[b].part = "whole"
  BY <1>1 DEF Kept, IsSeq
<1> QED BY <1>1, <1>2 DEF EntryFor

LEMMA CachesKept ==
  ASSUME NEW cs, NEW h, NEW h1, IsSeq(h), IsSeq(h1), Kept(h, h1), CachesOK(cs, h)
  PROVE  CachesOK(cs, h1)
<1>1. ASSUME NEW c \in CacheNames, NEW k \in DOMAIN cs[c].map
      PROVE  EntryFor(c, k, cs[c].mlvalues[cs[c].map[k]], h1)
  <2>1. EntryFor(c, k, cs[c].mlvalues[cs[c].map[k]], h)
    BY DEF CachesOK, CacheOK, Answers
  <2> QED BY <2>1, EntryKept
<1> QED BY <1>1 DEF CachesOK, CacheOK, Answers

(* A cache that gains an index, doubled or not; one that changes an entry. *)
LEMMA RoomIs ==
  ASSUME NEW c, Sized(caches[c].mlvalues, caches[c].nb)
  PROVE  /\ IsSeq(Room(c)) /\ caches[c].nb + 1 <= Len(Room(c))
         /\ \A i \in 1..caches[c].nb : Room(c)[i] = caches[c].mlvalues[i]
<1> DEFINE old == caches[c].mlvalues
           nb == caches[c].nb
           more == [i \in 1..Len(old) |-> ValUnitWord]
<1>1. IsSeq(old) /\ Len(old) \in Nat /\ 1 <= Len(old) /\ nb \in Nat /\ nb <= Len(old)
  BY DEF Sized, IsSeq
<1>2. IsSeq(more) /\ Len(more) = Len(old)
  BY <1>1, Repeated
<1>3. Room(c) = IF nb >= Len(old) THEN old \o more ELSE old
  BY DEF Room
<1> HIDE DEF old, nb, more
<1>4. /\ IsSeq(old \o more) /\ Len(old \o more) = Len(old) + Len(old)
      /\ \A i \in 1..Len(old) : (old \o more)[i] = old[i]
  BY <1>1, <1>2, Concatenated
<1>5. IsSeq(Room(c)) /\ nb + 1 <= Len(Room(c)) /\ \A i \in 1..nb : Room(c)[i] = old[i]
  BY <1>1, <1>3, <1>4
<1> QED BY <1>5 DEF old, nb

LEMMA StoredSound ==
  ASSUME NEW c \in CacheNames, NEW key, NEW v, NEW h, CachesOK(caches, h), EntryFor(c, key, v, h)
  PROVE  CachesOK(Store(c, key, v), h)
<1> DEFINE m == caches[c].map
           vs == caches[c].mlvalues
           nb == caches[c].nb
           i == Index(c, key)
           m1 == [k \in DOMAIN m \cup {key} |-> IF k = key THEN i ELSE m[k]]
           vs0 == IF Contains(c, key) THEN vs ELSE Room(c)
           vs1 == [vs0 EXCEPT ![i] = v]
           nb1 == IF Contains(c, key) THEN nb ELSE i
<1>1. Numbered(m, nb) /\ Sized(vs, nb) /\ Answers(c, m, vs, h) /\ nb \in Nat
  BY DEF CachesOK, CacheOK, Sized
<1>2. /\ i \in 1..nb1 /\ nb1 \in Nat /\ nb <= nb1 /\ \A k \in DOMAIN m : m[k] = i <=> k = key
      /\ IsSeq(vs0) /\ nb1 <= Len(vs0) /\ Len(vs0) \in Nat /\ \A j \in 1..nb : vs0[j] = vs[j]
  <2>1. CASE Contains(c, key)
    <3>1. key \in DOMAIN m /\ i = m[key] /\ nb1 = nb /\ vs0 = vs
      BY <2>1 DEF Contains, Index
    <3> QED BY <1>1, <3>1 DEF Numbered, Sized, IsSeq
  <2>2. CASE ~Contains(c, key)
    <3>1. key \notin DOMAIN m /\ i = nb + 1 /\ nb1 = nb + 1 /\ vs0 = Room(c)
      BY <2>2 DEF Contains, Index
    <3>2. IsSeq(Room(c)) /\ nb + 1 <= Len(Room(c)) /\ \A j \in 1..nb : Room(c)[j] = vs[j]
      BY <1>1, RoomIs
    <3> HIDE DEF m, vs, nb, i, nb1, vs0
    <3> QED BY <1>1, <3>1, <3>2 DEF Numbered, IsSeq
  <2> QED BY <2>1, <2>2
<1> DEFINE r1 == [map |-> m1, mlvalues |-> vs1, nb |-> nb1]
<1>3. Store(c, key, v) = [caches EXCEPT ![c] = r1]
  BY DEF Store
<1>4. r1.map = m1 /\ r1.mlvalues = vs1 /\ r1.nb = nb1
  OBVIOUS
<1>5. /\ DOMAIN m1 = DOMAIN m \cup {key} /\ m1[key] = i
      /\ \A k \in DOMAIN m : k # key => m1[k] = m[k]
  OBVIOUS
<1>6. vs1 = [vs0 EXCEPT ![i] = v]
  OBVIOUS
<1> HIDE DEF m, vs, nb, i, m1, vs0, vs1, nb1
<1>7. Numbered(m1, nb1)
  BY <1>1, <1>2, <1>5 DEF Numbered
<1>8. IsSeq(vs1) /\ Len(vs1) = Len(vs0) /\ \A j \in 1..Len(vs0) : vs1[j] = IF j = i THEN v ELSE vs0[j]
  <2>1. i \in 1..Len(vs0)
    BY <1>2
  <2>2. Replaced(vs1, vs0, i, v)
    BY <1>2, <1>6, <2>1, ElementReplaced
  <2> QED BY <2>2 DEF Replaced
<1>9. Sized(vs1, nb1)
  BY <1>2, <1>8 DEF Sized
<1>10. Answers(c, m1, vs1, h)
  <2> SUFFICES ASSUME NEW k \in DOMAIN m1 PROVE EntryFor(c, k, vs1[m1[k]], h)
    BY DEF Answers
  <2>1. CASE k = key
    <3>1. vs1[i] = v
      BY <1>2, <1>8
    <3> QED BY <1>5, <2>1, <3>1
  <2>2. CASE k # key
    <3>1. k \in DOMAIN m /\ m1[k] = m[k] /\ m[k] # i /\ m[k] \in 1..nb
      BY <1>1, <1>2, <1>5, <2>2 DEF Numbered
    <3>2. m[k] \in 1..Len(vs0)
      BY <1>1, <1>2, <3>1
    <3>3. vs1[m[k]] = vs[m[k]]
      BY <1>2, <1>8, <3>1, <3>2
    <3> QED BY <1>1, <3>1, <3>3 DEF Answers
  <2> QED BY <2>1, <2>2
<1>11. CacheOK(c, r1, h)
  BY <1>4, <1>7, <1>9, <1>10 DEF CacheOK
<1> HIDE DEF r1
<1> QED BY <1>3, <1>11 DEF CachesOK

----------------------------------------------------------------------------
(* The blocks and the calls.                                               *)
(*                                                                         *)
(* A call fills a block of its own, made for its node, and has reached one *)
(* of the fields of its shape.                                             *)
HeapOK(h) == IsSeq(h) /\ \A b \in 1..Len(h) : IsSeq(h[b].fields)
PartOf(s) == IF s.how = "indirect" THEN "argument" ELSE "whole"
FrameOK(p, fr, h) ==
  LET s == ShapeIn(p, fr.fn, fr.node) IN
  /\ fr.fn \in Translators /\ Regular(fr.fn, s) /\ fr.fields = s.fields
  /\ fr.blk \in 1..Len(h) /\ h[fr.blk].fn = fr.fn /\ h[fr.blk].node = fr.node
  /\ h[fr.blk].part = PartOf(s) /\ Len(h[fr.blk].fields) = Len(fr.fields)
  /\ fr.next \in 1..Len(fr.fields) + 1 /\ IsSeq(fr.got)
FramesOK(p, s, h) ==
  /\ IsSeq(s)
  /\ \A i \in 1..Len(s) : FrameOK(p, s[i], h)
  /\ \A i, j \in 1..Len(s) : s[i].blk = s[j].blk => i = j
Statuses == {"running", "done", "exception", "abort", "overflow"}
Begins == status = "running" /\ stack = <<>> => Len(heap) = 0

(* The inductive invariant.                                                *)
IInv ==
  /\ HeapOK(heap) /\ CachesOK(caches, heap) /\ FramesOK(prog, stack, heap)
  /\ Begins /\ status \in Statuses /\ prog \in Programs /\ uid \in Nat

LEMMA InitInv == Init => IInv
<1> SUFFICES ASSUME Init PROVE IInv
  OBVIOUS
<1>1. IsSeq(heap) /\ Len(heap) = 0 /\ IsSeq(stack) /\ Len(stack) = 0
  BY DEF Init, IsSeq
<1>2. HeapOK(heap) /\ FramesOK(prog, stack, heap)
  BY <1>1 DEF HeapOK, FramesOK
<1>3. CachesOK(caches, heap)
  <2>1. Sized(EmptyCache.mlvalues, EmptyCache.nb)
    <3>1. CacheWords \in Nat /\ 1 <= CacheWords
      BY CacheWordsAssumption
    <3> DEFINE words == [i \in 1..CacheWords |-> ValUnitWord]
    <3>3. IsSeq(words) /\ Len(words) = CacheWords
      BY <3>1, Repeated
    <3> HIDE DEF words
    <3>2. EmptyCache.mlvalues = words /\ EmptyCache.nb = 0
      BY DEF EmptyCache, words
    <3> QED BY <3>1, <3>2, <3>3 DEF Sized
  <2>2. DOMAIN EmptyCache.map = {}
    BY DEF EmptyCache
  <2>3. \A c \in CacheNames : CacheOK(c, EmptyCache, heap)
    BY <2>1, <2>2 DEF CacheOK, Numbered, Answers
  <2>4. caches = [c \in CacheNames |-> EmptyCache]
    BY DEF Init
  <2> QED BY <2>3, <2>4 DEF CachesOK
<1> QED BY <1>1, <1>2, <1>3 DEF IInv, Begins, Statuses, Init

LEMMA FrameKept ==
  ASSUME NEW p, NEW fr, NEW h, NEW h1, IsSeq(h), IsSeq(h1), Kept(h, h1), FrameOK(p, fr, h)
  PROVE  FrameOK(p, fr, h1)
<1>1. fr.blk \in 1..Len(h) /\ fr.blk \in 1..Len(h1)
  BY DEF FrameOK, Kept, IsSeq
<1> QED BY <1>1 DEF FrameOK, Kept

LEMMA FramesKept ==
  ASSUME NEW p, NEW s, NEW h, NEW h1, IsSeq(h), IsSeq(h1), Kept(h, h1), FramesOK(p, s, h)
  PROVE  FramesOK(p, s, h1)
  BY FrameKept DEF FramesOK

(* The call that runs moves on.                                            *)
LEMMA LastReplaced ==
  ASSUME NEW p, NEW s, NEW h, FramesOK(p, s, h), Len(s) >= 1,
         NEW fr, FrameOK(p, fr, h), fr.blk = s[Len(s)].blk
  PROVE  FramesOK(p, [s EXCEPT ![Len(s)] = fr], h)
<1> DEFINE t == [s EXCEPT ![Len(s)] = fr]
<1>1. IsSeq(s) /\ Len(s) \in 1..Len(s)
  BY DEF FramesOK, IsSeq
<1>2. Replaced(t, s, Len(s), fr)
  BY <1>1, ElementReplaced
<1> HIDE DEF t
<1>3. IsSeq(t) /\ Len(t) = Len(s) /\ \A i \in 1..Len(s) : t[i] = IF i = Len(s) THEN fr ELSE s[i]
  BY <1>2 DEF Replaced
<1>4. \A i \in 1..Len(t) : FrameOK(p, t[i], h) /\ t[i].blk = s[i].blk
  BY <1>3 DEF FramesOK
<1>5. FramesOK(p, t, h)
  BY <1>3, <1>4 DEF FramesOK
<1> QED BY <1>5 DEF t

(* What a new block and a new field keep.                                  *)
LEMMA AppendKeeps ==
  ASSUME NEW h, HeapOK(h), NEW b, IsSeq(b.fields)
  PROVE  HeapOK(Append(h, b)) /\ Kept(h, Append(h, b))
<1> DEFINE h1 == Append(h, b)
<1>1. /\ IsSeq(h) /\ Len(h) \in Nat /\ IsSeq(h1) /\ Len(h1) = Len(h) + 1
      /\ \A i \in 1..Len(h) : h1[i] = h[i]
      /\ h1[Len(h) + 1] = b
  BY AppendFacts DEF HeapOK, IsSeq
<1> HIDE DEF h1
<1>2. HeapOK(h1)
  <2> SUFFICES ASSUME NEW i \in 1..Len(h1) PROVE IsSeq(h1[i].fields)
    BY <1>1 DEF HeapOK
  <2>1. i \in 1..Len(h) \/ i = Len(h) + 1
    BY <1>1
  <2> QED BY <1>1, <2>1 DEF HeapOK
<1>3. Kept(h, h1)
  BY <1>1 DEF Kept
<1> QED BY <1>2, <1>3 DEF h1

LEMMA FieldKeeps ==
  ASSUME NEW h, HeapOK(h), NEW k \in 1..Len(h), NEW i \in 1..Len(h[k].fields), NEW v
  PROVE  LET h1 == [h EXCEPT ![k] = WithField(h[k], i, v)] IN HeapOK(h1) /\ Kept(h, h1)
<1> DEFINE b == WithField(h[k], i, v)
           h1 == [h EXCEPT ![k] = b]
<1>1. /\ b.fn = h[k].fn /\ b.node = h[k].node /\ b.part = h[k].part /\ b.ctor = h[k].ctor
      /\ b.fields = [h[k].fields EXCEPT ![i] = v]
  BY DEF WithField, Block
<1>2. IsSeq(b.fields) /\ Len(b.fields) = Len(h[k].fields)
  <2>1. Replaced([h[k].fields EXCEPT ![i] = v], h[k].fields, i, v)
    BY ElementReplaced DEF HeapOK
  <2> QED BY <1>1, <2>1 DEF Replaced
<1>3. Replaced(h1, h, k, b)
  <2> HIDE DEF b
  <2> QED BY ElementReplaced DEF HeapOK
<1> HIDE DEF b, h1
<1>4. IsSeq(h1) /\ Len(h1) = Len(h) /\ \A j \in 1..Len(h) : h1[j] = IF j = k THEN b ELSE h[j]
  BY <1>3 DEF Replaced
<1>5. HeapOK(h1)
  BY <1>2, <1>4 DEF HeapOK
<1>6. Kept(h, h1)
  <2>1. Len(h) <= Len(h1)
    BY <1>4 DEF HeapOK, IsSeq
  <2> QED BY <1>1, <1>2, <1>4, <2>1 DEF Kept
<1> QED BY <1>5, <1>6 DEF b, h1

----------------------------------------------------------------------------
(* A call that begins.                                                     *)
TagIn(fn, s) == IF s.how = "indirect" THEN 0 ELSE BlockTag(fn, s.cls)

LEMMA AllocatedIs ==
  ASSUME NEW fn, NEW n
  PROVE  LET b == Allocated(fn, n)
             s == Shape(fn, n)
         IN b.fn = fn /\ b.node = n /\ b.part = PartOf(s) /\ b.fields = [i \in 1..Len(s.fields) |-> Unset]
  BY DEF Allocated, Block, PartOf

LEMMA FrameIs ==
  ASSUME NEW fn, NEW n, NEW b, NEW fields, NEW next, NEW got
  PROVE  LET fr == Frame(fn, n, b, fields, next, got)
         IN fr.fn = fn /\ fr.node = n /\ fr.blk = b /\ fr.fields = fields /\ fr.next = next /\ fr.got = got
  BY DEF Frame

(* The heap, the caches and the frame of a call that begins.               *)
Begun(fn, n) ==
  LET b  == Len(heap) + 1
      fr == stack'[Len(stack) + 1]
  IN /\ HeapOK(heap') /\ Kept(heap, heap') /\ Len(heap') = b
     /\ heap'[b].fn = fn /\ heap'[b].node = n /\ heap'[b].part = PartOf(Shape(fn, n))
     /\ heap'[b].ctor = Shape(fn, n).cls /\ heap'[b].tag = TagIn(fn, Shape(fn, n))
     /\ heap'[b].fields = [i \in 1..Len(Shape(fn, n).fields) |-> Unset]
     /\ \A a \in 1..Len(heap) : heap'[a] = heap[a]
     /\ IsSeq(stack') /\ Len(stack') = Len(stack) + 1 /\ \A i \in 1..Len(stack) : stack'[i] = stack[i]
     /\ fr.fn = fn /\ fr.node = n /\ fr.blk = b /\ fr.fields = Shape(fn, n).fields
     /\ fr.next = 1 /\ fr.got = <<>>
     /\ caches' = IF StoredBefore(fn) THEN Store(CacheOf(fn), n, Ref(b)) ELSE caches
     /\ UNCHANGED <<prog, uid, result, status>>

LEMMA EnterBegins ==
  ASSUME IInv, NEW fn, NEW n, Regular(fn, Shape(fn, n)), Enter(fn, n)
  PROVE  Begun(fn, n)
<1> DEFINE b == Len(heap) + 1
           new == Allocated(fn, n)
           fr == Frame(fn, n, b, Shape(fn, n).fields, 1, <<>>)
<1>1. heap' = Append(heap, new) /\ stack' = Append(stack, fr)
  BY DEF Enter
<1>2. /\ new.fn = fn /\ new.node = n /\ new.part = PartOf(Shape(fn, n))
      /\ new.fields = [i \in 1..Len(Shape(fn, n).fields) |-> Unset]
  BY AllocatedIs
<1>9. new.ctor = Shape(fn, n).cls /\ new.tag = TagIn(fn, Shape(fn, n))
  BY DEF Allocated, Block, TagIn
<1>3. /\ fr.fn = fn /\ fr.node = n /\ fr.blk = b /\ fr.fields = Shape(fn, n).fields
      /\ fr.next = 1 /\ fr.got = <<>>
  BY FrameIs
<1>4. IsSeq(new.fields)
  <2>1. Len(Shape(fn, n).fields) \in Nat
    BY DEF Regular
  <2> HIDE DEF new
  <2> QED BY <1>2, <2>1, Repeated
<1> HIDE DEF new, fr
<1>5. HeapOK(heap') /\ Kept(heap, heap')
  BY <1>1, <1>4, AppendKeeps DEF IInv
<1>6. Len(heap') = b /\ heap'[b] = new /\ \A a \in 1..Len(heap) : heap'[a] = heap[a]
  BY <1>1, AppendFacts DEF IInv, HeapOK
<1>7. /\ IsSeq(stack') /\ Len(stack') = Len(stack) + 1 /\ stack'[Len(stack) + 1] = fr
      /\ \A i \in 1..Len(stack) : stack'[i] = stack[i]
  BY <1>1, AppendFacts DEF IInv, FramesOK
<1>8. /\ caches' = IF StoredBefore(fn) THEN Store(CacheOf(fn), n, Ref(b)) ELSE caches
      /\ UNCHANGED <<prog, uid, result, status>>
  BY DEF Enter
<1> QED BY <1>2, <1>3, <1>5, <1>6, <1>7, <1>8, <1>9 DEF Begun

LEMMA EnterInv ==
  ASSUME IInv, NEW fn \in Translators, NEW n, Regular(fn, Shape(fn, n)), Begun(fn, n), status = "running"
  PROVE  IInv'
<1> DEFINE b == Len(heap) + 1
           s == Shape(fn, n)
<1>1. /\ HeapOK(heap') /\ IsSeq(heap) /\ IsSeq(heap') /\ Kept(heap, heap') /\ Len(heap) \in Nat
      /\ Len(heap') = b /\ b \in 1..Len(heap') /\ b \notin 1..Len(heap) /\ b # 0
  BY DEF Begun, IInv, HeapOK, IsSeq
<1>2. CachesOK(caches', heap')
  <2>1. CachesOK(caches, heap')
    BY <1>1, CachesKept DEF IInv
  <2>2. CASE StoredBefore(fn)
    <3>1. CacheOf(fn) \in CacheNames
      BY <2>2, CacheIsNamed DEF StoredBefore
    <3>2. EntryFor(CacheOf(fn), n, Ref(b), heap')
      <4>1. heap'[b].part = "whole"
        BY <2>2 DEF Begun, PartOf, Regular
      <4> QED BY <1>1, <4>1 DEF EntryFor, Begun
    <3>3. caches' = Store(CacheOf(fn), n, Ref(b))
      BY <2>2 DEF Begun
    <3> DEFINE h == heap'
    <3>4. CachesOK(caches, h) /\ EntryFor(CacheOf(fn), n, Ref(b), h)
      BY <2>1, <3>2
    <3> HIDE DEF h, b
    <3>5. CachesOK(Store(CacheOf(fn), n, Ref(b)), h)
      BY <3>1, <3>4, StoredSound
    <3> QED BY <3>3, <3>5 DEF h
  <2>3. CASE ~StoredBefore(fn)
    BY <2>1, <2>3 DEF Begun
  <2> QED BY <2>2, <2>3
<1>3. FramesOK(prog, stack', heap')
  <2>1. FramesOK(prog, stack, heap')
    BY <1>1, FramesKept DEF IInv
  <2>2. /\ IsSeq(stack) /\ Len(stack) \in Nat /\ IsSeq(stack') /\ Len(stack') = Len(stack) + 1
        /\ \A i \in 1..Len(stack) : stack'[i] = stack[i] /\ stack[i].blk \in 1..Len(heap)
    BY DEF Begun, IInv, FramesOK, FrameOK, IsSeq
  <2> DEFINE fr == stack'[Len(stack) + 1]
  <2>3. FrameOK(prog, fr, heap') /\ fr.blk = b
    <3>1. /\ fr.fn = fn /\ fr.node = n /\ fr.blk = b /\ fr.fields = s.fields /\ fr.next = 1 /\ fr.got = <<>>
          /\ heap'[b].fn = fn /\ heap'[b].node = n /\ heap'[b].part = PartOf(s)
          /\ heap'[b].fields = [i \in 1..Len(s.fields) |-> Unset]
      BY DEF Begun
    <3>2. s = ShapeIn(prog, fn, n) /\ Regular(fn, s) /\ Len(s.fields) \in Nat
      BY DEF Shape, Regular
    <3> HIDE DEF b, s, fr
    <3>3. Len(heap'[b].fields) = Len(s.fields)
      BY <3>1, <3>2
    <3>4. IsSeq(fr.got) /\ fr.next \in 1..Len(s.fields) + 1
      BY <3>1, <3>2 DEF IsSeq
    <3> QED BY <1>1, <3>1, <3>2, <3>3, <3>4 DEF FrameOK
  <2> HIDE DEF b, s
  <2>4. \A i \in 1..Len(stack') : i \in 1..Len(stack) \/ i = Len(stack) + 1
    BY <2>2
  <2> HIDE DEF fr
  <2>5. \A i \in 1..Len(stack') : FrameOK(prog, stack'[i], heap')
    BY <2>1, <2>2, <2>3, <2>4 DEF FramesOK, fr
  <2>6. ASSUME NEW i \in 1..Len(stack'), NEW j \in 1..Len(stack'), stack'[i].blk = stack'[j].blk PROVE i = j
    BY <1>1, <2>1, <2>2, <2>3, <2>4, <2>6 DEF FramesOK, fr
  <2> QED BY <2>2, <2>5, <2>6 DEF FramesOK
<1>4. /\ UNCHANGED <<prog, uid, status>> /\ Len(stack') >= 1 /\ IsSeq(stack')
  BY DEF Begun, IInv, FramesOK, IsSeq
<1>5. Begins'
  <2>1. stack' # <<>>
    BY <1>4
  <2> QED BY <2>1 DEF Begins
<1> HIDE DEF b, s
<1> QED BY <1>1, <1>2, <1>3, <1>4, <1>5 DEF IInv

----------------------------------------------------------------------------
(* The other steps.                                                        *)
LEMMA TopIs ==
  ASSUME IInv, stack # <<>>
  PROVE  Len(stack) \in Nat /\ Len(stack) >= 1 /\ IsSeq(stack) /\ FrameOK(prog, Top, heap)
<1>1. IsSeq(stack) /\ Len(stack) \in Nat
  BY DEF IInv, FramesOK, IsSeq
<1>2. Len(stack) >= 1
  BY <1>1, NotEmptyFacts
<1> QED BY <1>1, <1>2 DEF IInv, FramesOK, Top

LEMMA FieldIs ==
  ASSUME IInv, Filling
  PROVE  /\ stack # <<>> /\ status = "running" /\ Top.next \in 1..Len(Fields) /\ Len(Fields) \in Nat
         /\ Fields = Top.fields /\ Field = Top.fields[Top.next]
         /\ Translates => Target(Field[2]) \in Translators
<1>1. stack # <<>> /\ status = "running" /\ Top.next <= Len(Fields)
  BY DEF Filling
<1>2. FrameOK(prog, Top, heap)
  BY <1>1, TopIs
<1>3. Top.next \in 1..Len(Fields) /\ Len(Fields) \in Nat
  BY <1>1, <1>2 DEF FrameOK, Regular, Fields
<1> QED BY <1>1, <1>2, <1>3 DEF FrameOK, Regular, Fields, Field, Translates

LEMMA ReceivedOK ==
  ASSUME NEW p, NEW fr, NEW h, FrameOK(p, fr, h), NEW v
  PROVE  FrameOK(p, Received(fr, v), h) /\ Received(fr, v).blk = fr.blk
<1> DEFINE fr1 == Received(fr, v)
<1>1. /\ fr1.fn = fr.fn /\ fr1.node = fr.node /\ fr1.blk = fr.blk /\ fr1.fields = fr.fields
      /\ fr1.next = fr.next /\ fr1.got = Append(fr.got, v)
  BY DEF Received, Frame
<1>2. IsSeq(fr1.got)
  BY <1>1, AppendFacts DEF FrameOK
<1> HIDE DEF fr1
<1>3. FrameOK(p, fr1, h)
  BY <1>1, <1>2 DEF FrameOK
<1> QED BY <1>1, <1>3 DEF fr1

LEMMA AdvancedOK ==
  ASSUME NEW p, NEW fr, NEW h, FrameOK(p, fr, h), fr.next <= Len(fr.fields)
  PROVE  FrameOK(p, Advanced(fr), h) /\ Advanced(fr).blk = fr.blk
<1> DEFINE fr1 == Advanced(fr)
<1>1. /\ fr1.fn = fr.fn /\ fr1.node = fr.node /\ fr1.blk = fr.blk /\ fr1.fields = fr.fields
      /\ fr1.next = fr.next + 1 /\ fr1.got = <<>>
  BY DEF Advanced, Frame
<1>2. IsSeq(fr1.got)
  BY <1>1 DEF IsSeq
<1> HIDE DEF fr1
<1>3. Len(fr.fields) \in Nat
  BY DEF FrameOK, Regular
<1>4. fr1.next \in 1..Len(fr.fields) + 1
  BY <1>1, <1>3 DEF FrameOK
<1>5. FrameOK(p, fr1, h)
  BY <1>1, <1>2, <1>4 DEF FrameOK
<1> QED BY <1>1, <1>5 DEF fr1

(* The call that runs gets a value.                                        *)
LEMMA GotInv ==
  ASSUME IInv, Filling, NEW v, stack' = Got(v), UNCHANGED <<prog, caches, heap, uid, status>>
  PROVE  IInv'
<1>1. /\ Len(stack) \in Nat /\ Len(stack) >= 1 /\ IsSeq(stack) /\ FrameOK(prog, Top, heap)
      /\ FramesOK(prog, stack, heap)
  BY TopIs, FieldIs DEF IInv
<1>2. Top = stack[Len(stack)]
  BY DEF Top
<1> DEFINE fr == Received(Top, v)
<1>3. stack' = [stack EXCEPT ![Len(stack)] = fr]
  BY DEF Got
<1>4. FrameOK(prog, fr, heap) /\ fr.blk = stack[Len(stack)].blk
  BY <1>1, <1>2, ReceivedOK
<1> HIDE DEF fr
<1>5. FramesOK(prog, stack', heap)
  <2>1. FramesOK(prog, stack, heap) /\ Len(stack) >= 1
    BY <1>1
  <2>2. FramesOK(prog, [stack EXCEPT ![Len(stack)] = fr], heap)
    BY <1>4, <2>1, LastReplaced
  <2> QED BY <1>3, <2>2
<1>9. Len(stack) \in 1..Len(stack)
  BY <1>1
<1>6. Replaced(stack', stack, Len(stack), fr)
  BY <1>1, <1>3, <1>9, ElementReplaced
<1>7. Len(stack') >= 1
  BY <1>1, <1>6 DEF Replaced
<1>8. Begins'
  <2>1. stack' # <<>>
    BY <1>7
  <2> QED BY <2>1 DEF Begins
<1> QED BY <1>5, <1>8 DEF IInv

(* It stores a field.                                                      *)
LEMMA FieldStored ==
  ASSUME IInv, Filling
  PROVE  LET h1 == [heap EXCEPT ![Top.blk] = WithField(heap[Top.blk], Top.next, FieldValue)]
         IN HeapOK(h1) /\ Kept(heap, h1)
<1>1. FrameOK(prog, Top, heap) /\ Top.next \in 1..Len(Fields) /\ Fields = Top.fields
  BY TopIs, FieldIs
<1>2. Top.blk \in 1..Len(heap) /\ Top.next \in 1..Len(heap[Top.blk].fields)
  BY <1>1 DEF FrameOK
<1>3. HeapOK(heap)
  BY DEF IInv
<1> QED BY <1>2, <1>3, FieldKeeps

LEMMA StoreFieldInv == ASSUME IInv, StoreField PROVE IInv'
<1>1. Filling /\ UNCHANGED <<prog, caches, result, status>> /\ uid' \in Nat
  BY DEF StoreField, IInv
<1>2. heap' = [heap EXCEPT ![Top.blk] = WithField(heap[Top.blk], Top.next, FieldValue)]
  BY DEF StoreField
<1>3. stack' = [stack EXCEPT ![Len(stack)] = Advanced(Top)]
  BY DEF StoreField
<1>4. HeapOK(heap') /\ Kept(heap, heap')
  BY <1>1, <1>2, FieldStored
<1>5. IsSeq(heap) /\ IsSeq(heap')
  BY <1>4 DEF IInv, HeapOK
<1>6. CachesOK(caches', heap')
  <2>1. CachesOK(caches, heap')
    BY <1>4, <1>5, CachesKept DEF IInv
  <2> QED BY <1>1, <2>1
<1>7. FramesOK(prog, stack, heap')
  BY <1>4, <1>5, FramesKept DEF IInv
<1>8. /\ Len(stack) \in Nat /\ Len(stack) >= 1 /\ IsSeq(stack)
      /\ Top.next <= Len(Top.fields) /\ Top = stack[Len(stack)]
  BY <1>1, TopIs, FieldIs DEF Top
<1> DEFINE h == heap'
<1>9. FrameOK(prog, Top, h)
  <2>1. Len(stack) \in 1..Len(stack)
    BY <1>8
  <2> QED BY <1>7, <1>8, <2>1 DEF FramesOK
<1>10. FramesOK(prog, stack, h)
  BY <1>7
<1> HIDE DEF h
<1>11. FrameOK(prog, Advanced(Top), h) /\ Advanced(Top).blk = stack[Len(stack)].blk
  BY <1>8, <1>9, AdvancedOK
<1>12. FramesOK(prog, stack', h)
  BY <1>3, <1>8, <1>10, <1>11, LastReplaced
<1>16. Len(stack) \in 1..Len(stack)
  BY <1>8
<1>13. Replaced(stack', stack, Len(stack), Advanced(Top))
  BY <1>3, <1>8, <1>16, ElementReplaced
<1>14. Len(stack') >= 1
  BY <1>8, <1>13 DEF Replaced
<1>15. Begins'
  <2>1. stack' # <<>>
    BY <1>14
  <2> QED BY <2>1 DEF Begins
<1> QED BY <1>1, <1>4, <1>6, <1>12, <1>15 DEF IInv, h

(* It ends.                                                                *)
ReturnHeap == IF Indirectly THEN Append(heap, Wrapper(Top.fn, Top.node, Top.blk)) ELSE heap

LEMMA ReturnedIs ==
  ASSUME IInv, stack # <<>>
  PROVE  LET b == Returned[2] IN
         /\ Returned = Ref(b) /\ b \in 1..Len(ReturnHeap) /\ Returned[1] = "ref"
         /\ ReturnHeap[b].fn = Top.fn /\ ReturnHeap[b].node = Top.node /\ ReturnHeap[b].part = "whole"
         /\ HeapOK(ReturnHeap) /\ Kept(heap, ReturnHeap)
         /\ \A a \in 1..Len(heap) : ReturnHeap[a] = heap[a]
         /\ Len(ReturnHeap) = IF Indirectly THEN Len(heap) + 1 ELSE Len(heap)
<1>1. FrameOK(prog, Top, heap)
  BY TopIs
<1>2. HeapOK(heap) /\ IsSeq(heap) /\ Len(heap) \in Nat
  BY DEF IInv, HeapOK, IsSeq
<1>3. CASE Indirectly
  <2> DEFINE w == Wrapper(Top.fn, Top.node, Top.blk)
  <2>1. ReturnHeap = Append(heap, w)
    BY <1>3 DEF ReturnHeap
  <2>2. w.fn = Top.fn /\ w.node = Top.node /\ w.part = "whole" /\ IsSeq(w.fields)
    BY DEF Wrapper, Block, IsSeq
  <2>3. Returned = Ref(Len(heap) + 1) /\ Returned[2] = Len(heap) + 1 /\ Returned[1] = "ref"
    BY <1>3 DEF Returned, Ref
  <2> HIDE DEF w
  <2>4. HeapOK(ReturnHeap) /\ Kept(heap, ReturnHeap)
    BY <1>2, <2>1, <2>2, AppendKeeps
  <2>5. /\ Len(ReturnHeap) = Len(heap) + 1 /\ ReturnHeap[Len(heap) + 1] = w
        /\ \A a \in 1..Len(heap) : ReturnHeap[a] = heap[a]
    BY <1>2, <2>1, AppendFacts
  <2> QED BY <1>2, <1>3, <2>2, <2>3, <2>4, <2>5
<1>4. CASE ~Indirectly
  <2>1. ReturnHeap = heap /\ Returned = Ref(Top.blk) /\ Returned[2] = Top.blk /\ Returned[1] = "ref"
    BY <1>4 DEF ReturnHeap, Returned, Ref
  <2>2. heap[Top.blk].part = "whole"
    BY <1>1, <1>4 DEF FrameOK, PartOf, Indirectly
  <2>3. Kept(heap, heap)
    BY <1>2 DEF Kept
  <2> QED BY <1>1, <1>2, <1>4, <2>1, <2>2, <2>3 DEF FrameOK
<1> QED BY <1>3, <1>4

Popped(s, v) == LET up == Len(s) - 1 IN [SubSeq(s, 1, up) EXCEPT ![up] = Received(s[up], v)]

LEMMA PoppedOK ==
  ASSUME NEW p, NEW s, NEW h, FramesOK(p, s, h), Len(s) - 1 >= 1, NEW v
  PROVE  LET up == Len(s) - 1
             t  == Popped(s, v)
         IN /\ FramesOK(p, t, h) /\ Len(t) = up /\ t[up] = Received(s[up], v)
            /\ \A i \in 1..up : i # up => t[i] = s[i]
<1> DEFINE up == Len(s) - 1
           front == SubSeq(s, 1, up)
           fr == Received(s[up], v)
           t == [front EXCEPT ![up] = fr]
<1>0. t = Popped(s, v)
  BY DEF Popped
<1>1. IsSeq(s) /\ Len(s) \in Nat /\ Len(s) >= 1 /\ up \in 1..Len(s) /\ up \in Nat
  BY DEF FramesOK, IsSeq
<1>2. front = SubSeq(s, 1, Len(s) - 1)
  OBVIOUS
<1> HIDE DEF front
<1>3. IsSeq(front) /\ Len(front) = up /\ \A i \in 1..up : front[i] = s[i]
  BY <1>1, <1>2, PrefixFacts
<1>4. FramesOK(p, front, h)
  BY <1>1, <1>3 DEF FramesOK
<1>5. FrameOK(p, fr, h) /\ fr.blk = front[Len(front)].blk
  <2>1. FrameOK(p, s[up], h)
    BY <1>1 DEF FramesOK
  <2> QED BY <1>1, <1>3, <2>1, ReceivedOK
<1>6. t = [front EXCEPT ![Len(front)] = fr]
  BY <1>3
<1> HIDE DEF fr, t
<1>7. FramesOK(p, t, h)
  BY <1>1, <1>3, <1>4, <1>5, <1>6, LastReplaced
<1>8. Replaced(t, front, up, fr)
  <2>1. up \in 1..Len(front)
    BY <1>1, <1>3
  <2> QED BY <1>3, <1>6, <2>1, ElementReplaced
<1>9. Len(t) = up /\ t[up] = fr /\ \A i \in 1..up : i # up => t[i] = s[i]
  BY <1>1, <1>3, <1>8 DEF Replaced
<1> QED BY <1>0, <1>7, <1>9 DEF fr

LEMMA ReturnInv == ASSUME IInv, Return PROVE IInv'
<1> DEFINE up == Len(stack) - 1
<1>1. /\ stack # <<>> /\ heap' = ReturnHeap /\ UNCHANGED <<prog, uid>>
      /\ caches' = IF StoredAfter(Top.fn) THEN Store(CacheOf(Top.fn), Top.node, Returned) ELSE caches
  BY DEF Return, ReturnHeap
<1>2. /\ up = 0 => stack' = <<>> /\ status' = "done"
      /\ up # 0 => /\ stack' = [SubSeq(stack, 1, up) EXCEPT ![up] = Received(stack[up], Returned)]
                   /\ status' = status
  BY DEF Return
<1>3. Len(stack) \in Nat /\ Len(stack) >= 1
  BY <1>1, TopIs
<1>4. HeapOK(ReturnHeap) /\ Kept(heap, ReturnHeap) /\ IsSeq(heap) /\ IsSeq(ReturnHeap)
  BY <1>1, ReturnedIs DEF IInv, HeapOK
<1>5. CachesOK(caches', ReturnHeap)
  <2>1. CachesOK(caches, ReturnHeap)
    BY <1>4, CachesKept DEF IInv
  <2>2. CASE StoredAfter(Top.fn)
    <3>1. CacheOf(Top.fn) # "none"
      BY <2>2 DEF StoredAfter, CacheOf, MiscTranslators, Misc2Translators
    <3>2. CacheOf(Top.fn) \in CacheNames
      BY <3>1, CacheIsNamed
    <3>3. EntryFor(CacheOf(Top.fn), Top.node, Returned, ReturnHeap)
      BY <1>1, ReturnedIs DEF EntryFor
    <3>4. CachesOK(Store(CacheOf(Top.fn), Top.node, Returned), ReturnHeap)
      BY <2>1, <3>2, <3>3, StoredSound
    <3> QED BY <1>1, <2>2, <3>4
  <2>3. CASE ~StoredAfter(Top.fn)
    BY <1>1, <2>1, <2>3
  <2> QED BY <2>2, <2>3
<1>6. FramesOK(prog, stack, ReturnHeap)
  BY <1>4, FramesKept DEF IInv
<1>7. FramesOK(prog, stack', ReturnHeap) /\ Begins' /\ status' \in Statuses
  <2>1. CASE up = 0
    <3>1. stack' = <<>> /\ status' = "done"
      BY <1>2, <2>1
    <3> QED BY <3>1 DEF FramesOK, IsSeq, Begins, Statuses
  <2>2. CASE up # 0
    <3>1. up >= 1 /\ up = Len(stack) - 1
      <4>1. ASSUME NEW l \in Nat, l >= 1, l - 1 # 0 PROVE l - 1 >= 1
        BY <4>1
      <4> QED BY <1>3, <2>2, <4>1
    <3>2. stack' = [SubSeq(stack, 1, up) EXCEPT ![up] = Received(stack[up], Returned)] /\ status' = status
      BY <1>2, <2>2
    <3> HIDE DEF up
    <3>5. FramesOK(prog, Popped(stack, Returned), ReturnHeap) /\ Len(Popped(stack, Returned)) = up
      BY <1>6, <3>1, PoppedOK
    <3>3. FramesOK(prog, stack', ReturnHeap) /\ Len(stack') = up
      BY <1>2, <2>2, <3>5 DEF Popped, up
    <3>4. stack' # <<>>
      BY <3>1, <3>3
    <3> QED BY <3>2, <3>3, <3>4 DEF Begins, IInv
  <2> QED BY <2>1, <2>2
<1> QED BY <1>1, <1>4, <1>5, <1>7 DEF IInv

(* What a call that begins is for.                                         *)
LEMMA DeclBegins == \A n : "Decl" \in Translators /\ Regular("Decl", Shape("Decl", n))
<1> TAKE n
<1>1. "Decl" \in DOMAIN Records
  BY TablesAssumption
<1>2. "Decl" \in Translators
  BY <1>1 DEF Translators
<1>3. Shape("Decl", n).how = "direct" /\ NoMatch.how = "constant"
  BY <1>1, Zenon DEF Shape, ShapeIn, Node, NoMatch, Constant
<1>4. Shape("Decl", n) # NoMatch
  BY <1>3
<1> QED BY <1>2, <1>4, ShapeIs DEF Shape

LEMMA HandleBegins ==
  ASSUME IInv, HandleTranslationUnit
  PROVE  /\ Begun("Decl", Root(prog)) /\ Regular("Decl", Shape("Decl", Root(prog)))
         /\ stack = <<>> /\ status = "running"
<1>1. Enter("Decl", Root(prog)) /\ stack = <<>> /\ status = "running"
  BY Zenon DEF HandleTranslationUnit
<1>2. Regular("Decl", Shape("Decl", Root(prog)))
  BY DeclBegins, Zenon
<1>3. Begun("Decl", Root(prog))
  BY <1>1, <1>2, EnterBegins, Zenon
<1> QED BY <1>1, <1>2, <1>3, Zenon

LEMMA MissBegins ==
  ASSUME IInv, Miss, ~Stop("overflow")
  PROVE  /\ Begun(Callee, Arg) /\ Callee \in Translators /\ Regular(Callee, Shape(Callee, Arg))
         /\ Calling /\ ~Cached /\ status = "running"
<1>1. Calling /\ ~Cached /\ Shape(Callee, Arg).how # "constant" /\ Enter(Callee, Arg)
  BY DEF Miss
<1>2. Callee \in Translators /\ status = "running"
  BY <1>1, FieldIs DEF Calling, Callee
<1>3. Shape(Callee, Arg) # NoMatch
  <2>1. NoMatch.how = "constant"
    BY DEF NoMatch, Constant
  <2> QED BY <1>1, <2>1
<1> DEFINE fn == Callee
           n == Arg
<1>4. Regular(fn, Shape(fn, n))
  <2>1. fn \in Translators /\ Shape(fn, n) # NoMatch
    BY <1>2, <1>3
  <2> HIDE DEF fn, n
  <2> QED BY <2>1, ShapeIs DEF Shape
<1>5. Begun(fn, n)
  <2>1. Enter(fn, n)
    BY <1>1
  <2> HIDE DEF fn, n
  <2> QED BY <1>4, <2>1, EnterBegins
<1> QED BY <1>1, <1>2, <1>4, <1>5

LEMMA StopInv == ASSUME IInv, NEW why \in Statuses, why # "running", Stop(why) PROVE IInv'
<1>1. status' = why /\ UNCHANGED <<prog, caches, heap, stack, uid>>
  BY DEF Stop
<1> QED BY <1>1 DEF IInv, Begins

(* Every step keeps the invariant.                                         *)
LEMMA NextInv == IInv /\ [Next]_vars => IInv'
<1> SUFFICES ASSUME IInv, [Next]_vars PROVE IInv'
  OBVIOUS
<1>1. CASE HandleTranslationUnit
  <2> DEFINE n == Root(prog)
  <2>1. "Decl" \in Translators /\ Begun("Decl", n) /\ Regular("Decl", Shape("Decl", n)) /\ status = "running"
    BY <1>1, HandleBegins, DeclBegins, Zenon
  <2> HIDE DEF n
  <2> QED BY <2>1, EnterInv
<1>2. CASE Hit
  <2>1. /\ Filling /\ stack' = Got(Get(CacheOf(Callee), Arg))
        /\ UNCHANGED <<prog, caches, heap, uid, status>>
    BY <1>2 DEF Hit, Calling
  <2> QED BY <2>1, GotInv
<1>3. CASE ConstantKind
  <2> DEFINE c == Shape(Callee, Arg).cls
             v == Const(TagOf(ConstantTags(Callee), c), c)
  <2>1. Filling /\ stack' = Got(v) /\ UNCHANGED <<prog, caches, heap, uid, status>>
    BY <1>3 DEF ConstantKind, Calling
  <2> HIDE DEF v
  <2> QED BY <2>1, GotInv
<1>4. CASE Miss
  <2>1. CASE Stop("overflow")
    BY <2>1, StopInv DEF Statuses
  <2>2. CASE ~Stop("overflow")
    BY <1>4, <2>2, MissBegins, EnterInv
  <2> QED BY <2>1, <2>2
<1>5. CASE Raise
  <2>1. Stop("exception")
    BY <1>5, Zenon DEF Raise
  <2> QED BY <2>1, StopInv DEF Statuses
<1>6. CASE Abort
  <2>1. Stop("abort")
    BY <1>6 DEF Abort
  <2> QED BY <2>1, StopInv DEF Statuses
<1>7. CASE StoreField
  BY <1>7, StoreFieldInv
<1>8. CASE Return
  BY <1>8, ReturnInv
<1>9. CASE UNCHANGED vars
  BY <1>9 DEF vars, IInv, Begins
<1> QED BY <1>1, <1>2, <1>3, <1>4, <1>5, <1>6, <1>7, <1>8, <1>9 DEF Next, Step, Ended

LEMMA InvHolds == Spec => []IInv
  BY InitInv, NextInv, PTL DEF Spec

(* A cache answers for a node with a block that a translator of this cache *)
(* made for this very node, however often the block of the cache was       *)
(* doubled: class Cache, and the translators that go through it.           *)
THEOREM CachesAnswer == Spec => []CacheSound
<1>1. IInv => CacheSound
  <2> SUFFICES ASSUME IInv, NEW c \in CacheNames, NEW key \in DOMAIN caches[c].map
               PROVE  /\ Get(c, key)[1] = "ref" /\ Entry(c, key) \in 1..Len(heap)
                      /\ heap[Entry(c, key)].node = key /\ CacheOf(heap[Entry(c, key)].fn) = c
    BY DEF CacheSound
  <2>1. EntryFor(c, key, Get(c, key), heap)
    BY DEF IInv, CachesOK, CacheOK, Answers, Get
  <2>2. PICK b \in 1..Len(heap) : Get(c, key) = Ref(b) /\ heap[b].node = key /\ CacheOf(heap[b].fn) = c
    BY <2>1 DEF EntryFor
  <2>3. Get(c, key)[1] = "ref" /\ Entry(c, key) = b
    <3>1. Ref(b)[1] = "ref" /\ Ref(b)[2] = b
      BY DEF Ref
    <3> QED BY <2>2, <3>1 DEF Entry
  <2> QED BY <2>2, <2>3
<1> QED BY <1>1, InvHolds, PTL

----------------------------------------------------------------------------
(* Sharing.                                                                *)
(*                                                                         *)
(* A block stored before it is filled is known to its cache from then on,  *)
(* so no other is made for its node; and it is never wrapped.              *)
Known(cs, h) ==
  \A b \in 1..Len(h) : StoredBefore(h[b].fn) => h[b].node \in DOMAIN cs[CacheOf(h[b].fn)].map
Once(h) == \A a, b \in 1..Len(h) : StoredBefore(h[a].fn) /\ h[a].fn = h[b].fn /\ h[a].node = h[b].node => a = b
SharedInv == Known(caches, heap) /\ Once(heap)

LEMMA StoreKnows ==
  ASSUME NEW c \in CacheNames, NEW key, NEW v, caches = [d \in CacheNames |-> caches[d]]
  PROVE  /\ key \in DOMAIN Store(c, key, v)[c].map
         /\ \A d \in CacheNames : \A k \in DOMAIN caches[d].map : k \in DOMAIN Store(c, key, v)[d].map
  BY DEF Store

LEMMA KnownMore ==
  ASSUME NEW c \in CacheNames, NEW key, NEW v, NEW h, IInv, Known(caches, h)
  PROVE  Known(Store(c, key, v), h)
<1>1. \A d \in CacheNames : \A k \in DOMAIN caches[d].map : k \in DOMAIN Store(c, key, v)[d].map
  <2>1. caches = [d \in CacheNames |-> caches[d]]
    BY DEF IInv, CachesOK
  <2> QED BY <2>1, StoreKnows
<1>2. \A b \in 1..Len(h) : StoredBefore(h[b].fn) => CacheOf(h[b].fn) \in CacheNames
  BY CacheIsNamed DEF StoredBefore
<1> QED BY <1>1, <1>2 DEF Known

LEMMA BegunShared ==
  ASSUME IInv, SharedInv, NEW fn, NEW n, Begun(fn, n),
         StoredBefore(fn) => \A a \in 1..Len(heap) : ~(heap[a].fn = fn /\ heap[a].node = n)
  PROVE  SharedInv'
<1> DEFINE b == Len(heap) + 1
           h == heap'
           cs == caches'
<1>1. /\ Len(heap) \in Nat /\ Len(h) = b /\ h[b].fn = fn /\ h[b].node = n
      /\ \A a \in 1..Len(heap) : h[a] = heap[a]
  BY DEF Begun, IInv, HeapOK, IsSeq
<1>2. \A a \in 1..Len(h) : a \in 1..Len(heap) \/ a = b
  BY <1>1
<1>3. \A a \in 1..Len(heap) : StoredBefore(heap[a].fn) => heap[a].node \in DOMAIN cs[CacheOf(heap[a].fn)].map
  <2>1. CASE StoredBefore(fn)
    <3>1. CacheOf(fn) \in CacheNames /\ cs = Store(CacheOf(fn), n, Ref(b))
      BY <2>1, CacheIsNamed DEF StoredBefore, Begun
    <3> HIDE DEF cs, b
    <3>2. Known(cs, heap)
      BY <3>1, KnownMore DEF SharedInv
    <3> QED BY <3>2 DEF Known
  <2>2. CASE ~StoredBefore(fn)
    BY <2>2 DEF SharedInv, Known, Begun
  <2> QED BY <2>1, <2>2
<1>4. StoredBefore(fn) => n \in DOMAIN cs[CacheOf(fn)].map
  <2> SUFFICES ASSUME StoredBefore(fn) PROVE n \in DOMAIN cs[CacheOf(fn)].map
    OBVIOUS
  <2>1. CacheOf(fn) \in CacheNames /\ cs = Store(CacheOf(fn), n, Ref(b))
    BY CacheIsNamed DEF StoredBefore, Begun
  <2>2. caches = [d \in CacheNames |-> caches[d]]
    BY DEF IInv, CachesOK
  <2> HIDE DEF cs, b
  <2> QED BY <2>1, <2>2, StoreKnows
<1>7. b \notin 1..Len(heap)
  BY <1>1
<1> HIDE DEF b, h, cs
<1>5. Known(cs, h)
  BY <1>1, <1>2, <1>3, <1>4 DEF Known
<1>6. Once(h)
  BY <1>1, <1>2, <1>7 DEF Once, SharedInv
<1> QED BY <1>5, <1>6 DEF SharedInv, cs, h

LEMMA StoreFieldShared == ASSUME IInv, SharedInv, StoreField PROVE SharedInv'
<1>1. Filling /\ caches' = caches
  BY DEF StoreField
<1> DEFINE h == [heap EXCEPT ![Top.blk] = WithField(heap[Top.blk], Top.next, FieldValue)]
<1>2. heap' = h
  BY DEF StoreField
<1>3. Kept(heap, h)
  BY <1>1, FieldStored
<1>4. Len(h) = Len(heap)
  <2>1. IsSeq(heap) /\ Top.blk \in 1..Len(heap)
    BY <1>1, TopIs, FieldIs DEF FrameOK, IInv, HeapOK
  <2> DEFINE e == WithField(heap[Top.blk], Top.next, FieldValue)
             k == Top.blk
  <2>2. k \in 1..Len(heap) /\ h = [heap EXCEPT ![k] = e]
    BY <2>1
  <2> HIDE DEF e, k, h
  <2>3. Replaced(h, heap, k, e)
    BY <2>1, <2>2, ElementReplaced
  <2> QED BY <2>3 DEF Replaced
<1> HIDE DEF h
<1>5. Known(caches, h) /\ Once(h)
  BY <1>3, <1>4 DEF Known, Once, Kept, SharedInv
<1> QED BY <1>1, <1>2, <1>5 DEF SharedInv

LEMMA ReturnShared == ASSUME IInv, SharedInv, Return PROVE SharedInv'
<1>1. /\ stack # <<>> /\ heap' = ReturnHeap
      /\ caches' = IF StoredAfter(Top.fn) THEN Store(CacheOf(Top.fn), Top.node, Returned) ELSE caches
  BY DEF Return, ReturnHeap
<1>2. FrameOK(prog, Top, heap) /\ Len(heap) \in Nat
  BY <1>1, TopIs DEF IInv, HeapOK, IsSeq
<1>3. Indirectly => ~StoredBefore(Top.fn)
  BY <1>2 DEF FrameOK, Regular, PartOf, Indirectly
<1>4. /\ \A a \in 1..Len(heap) : ReturnHeap[a] = heap[a]
      /\ Len(ReturnHeap) = IF Indirectly THEN Len(heap) + 1 ELSE Len(heap)
      /\ Indirectly => ReturnHeap[Len(heap) + 1].fn = Top.fn
  <2>1. /\ \A a \in 1..Len(heap) : ReturnHeap[a] = heap[a]
        /\ Len(ReturnHeap) = IF Indirectly THEN Len(heap) + 1 ELSE Len(heap)
        /\ ReturnHeap[Returned[2]].fn = Top.fn
    BY <1>1, ReturnedIs
  <2>2. Indirectly => Returned[2] = Len(heap) + 1
    BY DEF Returned, Ref
  <2> QED BY <2>1, <2>2
<1>5. \A a \in 1..Len(ReturnHeap) : a \in 1..Len(heap) \/ ~StoredBefore(ReturnHeap[a].fn)
  <2> SUFFICES ASSUME NEW a \in 1..Len(ReturnHeap), a \notin 1..Len(heap) PROVE ~StoredBefore(ReturnHeap[a].fn)
    OBVIOUS
  <2>1. Indirectly /\ a = Len(heap) + 1
    BY <1>2, <1>4
  <2> QED BY <1>3, <1>4, <2>1
<1>6. Known(caches, ReturnHeap) /\ Once(ReturnHeap)
  BY <1>4, <1>5 DEF Known, Once, SharedInv
<1>7. Known(caches', ReturnHeap)
  <2>1. CASE StoredAfter(Top.fn)
    <3>1. CacheOf(Top.fn) # "none"
      BY <2>1 DEF StoredAfter, CacheOf, MiscTranslators, Misc2Translators
    <3>2. CacheOf(Top.fn) \in CacheNames
      BY <3>1, CacheIsNamed
    <3>3. Known(Store(CacheOf(Top.fn), Top.node, Returned), ReturnHeap)
      BY <1>6, <3>2, KnownMore
    <3> QED BY <1>1, <2>1, <3>3
  <2>2. CASE ~StoredAfter(Top.fn)
    BY <1>1, <1>6, <2>2
  <2> QED BY <2>1, <2>2
<1> QED BY <1>1, <1>6, <1>7 DEF SharedInv

LEMMA NextShared == IInv /\ SharedInv /\ [Next]_vars => SharedInv'
<1> SUFFICES ASSUME IInv, SharedInv, [Next]_vars PROVE SharedInv'
  OBVIOUS
<1>1. CASE HandleTranslationUnit
  <2> DEFINE n == Root(prog)
  <2>1. Begun("Decl", n) /\ stack = <<>> /\ status = "running"
    BY <1>1, HandleBegins, Zenon
  <2> HIDE DEF n
  <2>2. Len(heap) = 0
    BY <2>1 DEF IInv, Begins
  <2> QED BY <2>1, <2>2, BegunShared
<1>2. CASE Miss
  <2>1. CASE Stop("overflow")
    BY <2>1 DEF Stop, SharedInv
  <2>2. CASE ~Stop("overflow")
    <3> DEFINE fn == Callee
               n == Arg
    <3>1. Begun(fn, n) /\ ~(CacheOf(fn) # "none" /\ Contains(CacheOf(fn), n))
      BY <1>2, <2>2, MissBegins DEF Cached
    <3> HIDE DEF fn, n
    <3>2. ASSUME StoredBefore(fn), NEW a \in 1..Len(heap), heap[a].fn = fn, heap[a].node = n PROVE FALSE
      BY <3>1, <3>2 DEF SharedInv, Known, Contains, StoredBefore
    <3> QED BY <3>1, <3>2, BegunShared
  <2> QED BY <2>1, <2>2
<1>3. CASE StoreField
  BY <1>3, StoreFieldShared
<1>4. CASE Return
  BY <1>4, ReturnShared
<1>5. CASE Hit \/ ConstantKind \/ Raise \/ Abort \/ UNCHANGED vars
  <2>1. UNCHANGED <<caches, heap>>
    BY <1>5, Zenon DEF Hit, ConstantKind, Raise, Abort, Stop, vars
  <2> QED BY <2>1 DEF SharedInv
<1> QED BY <1>1, <1>2, <1>3, <1>4, <1>5 DEF Next, Step, Ended

(* Sharing is kept, on cyclic trees as well: a translator with a cache     *)
(* that is stored before its block is filled (WITH_CACHE) makes one block  *)
(* for a node.                                                             *)
THEOREM SharingIsKept == Spec => []SharingKept
<1>1. Init => SharedInv
  <2> SUFFICES ASSUME Init PROVE SharedInv
    OBVIOUS
  <2>1. Len(heap) = 0
    BY DEF Init
  <2> QED BY <2>1 DEF SharedInv, Known, Once
<1>2. SharedInv => SharingKept
  BY DEF SharedInv, Once, SharingKept, SharesBlocks, OneBlock, StoredBefore
<1> QED BY <1>1, <1>2, InvHolds, NextShared, PTL DEF Spec

----------------------------------------------------------------------------
(* Identifiers.                                                            *)
(*                                                                         *)
(* An identifier is given to a field of a block, and a block has only one  *)
(* such field: a call that has not reached it has given none.              *)
IsUid(v) == v.how = "imm" /\ v.vs # <<>>
HasUid(b) == \E k \in 1..Len(b.fields) : IsUid(b.fields[k])
Identified(h) == {b \in 1..Len(h) : HasUid(h[b])}
GivenAt(fr, h) == \A k \in 1..Len(fr.fields) : IsUid(h[fr.blk].fields[k]) => k < fr.next /\ fr.fields[k] = Uid
UidInv ==
  /\ uid <= Cardinality(Identified(heap))
  /\ \A i \in 1..Len(stack) : GivenAt(stack[i], heap)

LEMMA SwitchGives == SwitchValue.how \in {"one", "opt"}
<1>1. \E vs : SwitchValue = [how |-> IF Field[1] = "switch" THEN "one" ELSE "opt", vs |-> vs]
  BY Zenon DEF SwitchValue
<1>2. PICK vs : SwitchValue = [how |-> IF Field[1] = "switch" THEN "one" ELSE "opt", vs |-> vs]
  BY <1>1
<1> QED BY <1>2

LEMMA FieldIsNoUid == Filling /\ Field # Uid => ~IsUid(FieldValue)
<1> SUFFICES ASSUME Filling, Field # Uid PROVE ~IsUid(FieldValue)
  OBVIOUS
<1>1. CASE Translates
  <2>1. FieldValue = [how |-> Field[1], vs |-> Top.got] /\ Field[1] # "imm"
    BY <1>1 DEF FieldValue, Translates, Translating, Switches
  <2> QED BY <2>1 DEF IsUid
<1>2. CASE ~Translates /\ Switches
  <2>1. FieldValue = SwitchValue
    BY <1>2 DEF FieldValue, Switches
  <2> QED BY <2>1, SwitchGives DEF IsUid
<1>3. CASE ~Translates /\ ~Switches /\ Field[1] = "leaf"
  <2>1. FieldValue = [how |-> Field[2], vs |-> <<>>]
    BY <1>3 DEF FieldValue
  <2> QED BY <2>1 DEF IsUid
<1>4. CASE ~Translates /\ ~Switches /\ Field[1] # "leaf"
  <2>1. FieldValue = Unset
    BY <1>4 DEF FieldValue
  <2> QED BY <2>1 DEF IsUid, Unset
<1> QED BY <1>1, <1>2, <1>3, <1>4

LEMMA UidIsUid == Filling /\ Field = Uid => IsUid(FieldValue)
<1> SUFFICES ASSUME Filling, Field = Uid PROVE IsUid(FieldValue)
  OBVIOUS
<1>1. ~Translates /\ ~Switches /\ Field[1] # "leaf"
  BY DEF Translates, Translating, Switches, Uid
<1>2. FieldValue = [how |-> "imm", vs |-> <<Const(uid, "uid")>>]
  BY <1>1 DEF FieldValue
<1>3. <<Const(uid, "uid")>> # <<>>
  OBVIOUS
<1> QED BY <1>2, <1>3 DEF IsUid

LEMMA IdentifiedIs ==
  ASSUME NEW h, HeapOK(h)
  PROVE  /\ IsFiniteSet(Identified(h)) /\ Cardinality(Identified(h)) \in Nat
         /\ Cardinality(Identified(h)) <= Len(h)
<1>1. Len(h) \in Nat
  BY DEF HeapOK, IsSeq
<1>2. IsFiniteSet(1..Len(h)) /\ Cardinality(1..Len(h)) = Len(h)
  <2>1. 1 \in Int /\ Len(h) \in Int /\ (IF 1 > Len(h) THEN 0 ELSE Len(h) - 1 + 1) = Len(h)
    BY <1>1
  <2> QED BY <2>1, FS_Interval
<1>3. Identified(h) \subseteq 1..Len(h)
  BY DEF Identified
<1> QED BY <1>2, <1>3, FS_Subset, FS_CardinalityType

LEMMA MoreIdentified ==
  ASSUME NEW h, NEW h1, HeapOK(h), HeapOK(h1), Identified(h) \subseteq Identified(h1)
  PROVE  Cardinality(Identified(h)) <= Cardinality(Identified(h1))
  BY IdentifiedIs, FS_Subset

(* A heap where the old blocks are as they were.                           *)
LEMMA UidKept ==
  ASSUME IInv, UidInv, NEW h, HeapOK(h), Len(heap) <= Len(h), \A a \in 1..Len(heap) : h[a] = heap[a]
  PROVE  /\ uid <= Cardinality(Identified(h))
         /\ \A i \in 1..Len(stack) : GivenAt(stack[i], h)
<1>1. HeapOK(heap) /\ uid \in Nat /\ Len(heap) \in Nat /\ Len(h) \in Nat
  BY DEF IInv, HeapOK, IsSeq
<1>2. Identified(heap) \subseteq Identified(h)
  BY <1>1 DEF Identified
<1>3. /\ Cardinality(Identified(heap)) <= Cardinality(Identified(h))
      /\ Cardinality(Identified(heap)) \in Nat /\ Cardinality(Identified(h)) \in Nat
  BY <1>1, <1>2, MoreIdentified, IdentifiedIs
<1>4. uid <= Cardinality(Identified(h))
  BY <1>1, <1>3 DEF UidInv
<1>5. ASSUME NEW i \in 1..Len(stack) PROVE GivenAt(stack[i], h)
  <2>1. stack[i].blk \in 1..Len(heap) /\ GivenAt(stack[i], heap)
    BY DEF IInv, FramesOK, FrameOK, UidInv
  <2> QED BY <2>1 DEF GivenAt
<1> QED BY <1>4, <1>5

LEMMA BegunUid == ASSUME IInv, UidInv, NEW fn, NEW n, Regular(fn, Shape(fn, n)), Begun(fn, n) PROVE UidInv'
<1> DEFINE b == Len(heap) + 1
           h == heap'
           st == stack'
           fr == st[Len(stack) + 1]
           s == Shape(fn, n)
<1>1. /\ HeapOK(h) /\ Len(heap) \in Nat /\ Len(heap) <= Len(h) /\ uid' = uid
      /\ \A a \in 1..Len(heap) : h[a] = heap[a]
      /\ h[b].fields = [i \in 1..Len(s.fields) |-> Unset] /\ Len(s.fields) \in Nat
      /\ fr.blk = b /\ fr.fields = s.fields
      /\ IsSeq(st) /\ Len(stack) \in Nat /\ Len(st) = Len(stack) + 1 /\ \A i \in 1..Len(stack) : st[i] = stack[i]
  BY DEF Begun, IInv, HeapOK, FramesOK, IsSeq, Regular
<1> HIDE DEF h, st, s
<1>2. /\ uid <= Cardinality(Identified(h))
      /\ \A i \in 1..Len(stack) : GivenAt(stack[i], h)
  BY <1>1, UidKept
<1>3. GivenAt(fr, h)
  <2>1. \A k \in 1..Len(s.fields) : h[b].fields[k] = Unset
    BY <1>1
  <2>2. ~IsUid(Unset)
    BY DEF IsUid, Unset
  <2> HIDE DEF fr, b
  <2> QED BY <1>1, <2>1, <2>2 DEF GivenAt
<1>4. \A i \in 1..Len(st) : i \in 1..Len(stack) \/ i = Len(stack) + 1
  BY <1>1
<1>5. \A i \in 1..Len(st) : GivenAt(st[i], h)
  BY <1>1, <1>2, <1>3, <1>4
<1> QED BY <1>1, <1>2, <1>5 DEF UidInv, h, st

LEMMA StoreFieldUid == ASSUME IInv, UidInv, StoreField PROVE UidInv'
<1> DEFINE k == Top.blk
           i == Top.next
           e == WithField(heap[k], i, FieldValue)
           h == [heap EXCEPT ![k] = e]
           st == stack'
           top == Len(stack)
<1>1. /\ Filling /\ heap' = h /\ uid' = IF Field = Uid THEN uid + 1 ELSE uid
      /\ stack' = [stack EXCEPT ![top] = Advanced(Top)]
  BY DEF StoreField
<1>2. /\ FrameOK(prog, Top, heap) /\ i \in 1..Len(Top.fields) /\ Field = Top.fields[i]
      /\ top \in Nat /\ top >= 1 /\ top \in 1..top /\ IsSeq(stack) /\ Top = stack[top]
  BY <1>1, TopIs, FieldIs DEF Top
<1>3. /\ k \in 1..Len(heap) /\ Len(heap[k].fields) = Len(Top.fields) /\ HeapOK(heap) /\ uid \in Nat
      /\ \A m, l \in 1..Len(Top.fields) : Top.fields[m] = Uid /\ Top.fields[l] = Uid => m = l
  BY <1>2 DEF FrameOK, IInv, Regular
<1>4. HeapOK(h)
  BY <1>1, FieldStored
<1>5. /\ Len(h) = Len(heap) /\ h[k].fields[i] = FieldValue /\ Len(h[k].fields) = Len(heap[k].fields)
      /\ \A m \in 1..Len(heap[k].fields) : m # i => h[k].fields[m] = heap[k].fields[m]
      /\ \A a \in 1..Len(heap) : a # k => h[a] = heap[a]
  <2>1. e.fields = [heap[k].fields EXCEPT ![i] = FieldValue]
    BY DEF WithField, Block
  <2>2. IsSeq(heap) /\ IsSeq(heap[k].fields) /\ i \in 1..Len(heap[k].fields)
    BY <1>2, <1>3 DEF HeapOK
  <2> HIDE DEF e, k, i
  <2>3. Replaced(e.fields, heap[k].fields, i, FieldValue)
    BY <2>1, <2>2, ElementReplaced
  <2>4. Replaced(h, heap, k, e)
    BY <1>3, <2>2, ElementReplaced
  <2> HIDE DEF h
  <2> QED BY <1>3, <2>2, <2>3, <2>4 DEF Replaced
<1>6. Replaced(st, stack, top, Advanced(Top))
  BY <1>1, <1>2, ElementReplaced
<1>7. /\ Advanced(Top).fields = Top.fields /\ Advanced(Top).blk = k /\ Advanced(Top).next = i + 1
  BY DEF Advanced, Frame
<1>8. GivenAt(Top, heap)
  BY <1>2 DEF UidInv
<1>9. \A j \in 1..top : j # top => stack[j].blk # k
  BY <1>2 DEF IInv, FramesOK
<1>10. \A j \in 1..top : GivenAt(stack[j], heap) /\ stack[j].blk \in 1..Len(heap)
  BY DEF UidInv, IInv, FramesOK, FrameOK
<1>11. uid <= Cardinality(Identified(heap))
  BY DEF UidInv
<1>12. Field # Uid => ~IsUid(FieldValue)
  BY <1>1, FieldIsNoUid
<1>13. Field = Uid => IsUid(FieldValue)
  BY <1>1, UidIsUid
<1>14. i \in Nat /\ \A m \in 1..Len(Top.fields) : m \in Nat
  BY <1>2
<1>15. \A m \in 1..Len(Top.fields) : IsUid(heap[k].fields[m]) => m < i /\ Top.fields[m] = Uid
  BY <1>8 DEF GivenAt
<1> HIDE DEF k, i, h, st, top, e
<1>16. \A m \in 1..Len(Top.fields) : IsUid(h[k].fields[m]) => m < i + 1 /\ Top.fields[m] = Uid
  <2> SUFFICES ASSUME NEW m \in 1..Len(Top.fields), IsUid(h[k].fields[m])
               PROVE  m < i + 1 /\ Top.fields[m] = Uid
    OBVIOUS
  <2>1. CASE m = i
    BY <1>2, <1>5, <1>12, <1>14, <2>1
  <2>2. CASE m # i
    BY <1>3, <1>5, <1>14, <1>15, <2>2
  <2> QED BY <2>1, <2>2
<1>17. GivenAt(Advanced(Top), h)
  BY <1>7, <1>16 DEF GivenAt
<1>18. \A j \in 1..Len(st) : GivenAt(st[j], h)
  <2> SUFFICES ASSUME NEW j \in 1..Len(st) PROVE GivenAt(st[j], h)
    OBVIOUS
  <2>1. Len(st) = top /\ st[j] = IF j = top THEN Advanced(Top) ELSE stack[j]
    BY <1>6 DEF Replaced, top
  <2>2. CASE j = top
    BY <1>17, <2>1, <2>2
  <2>3. CASE j # top
    <3>1. st[j] = stack[j] /\ GivenAt(stack[j], heap) /\ stack[j].blk \in 1..Len(heap) /\ stack[j].blk # k
      BY <1>9, <1>10, <2>1, <2>3
    <3> QED BY <1>5, <3>1 DEF GivenAt
  <2> QED BY <2>2, <2>3
<1>19. Identified(heap) \subseteq Identified(h)
  <2> SUFFICES ASSUME NEW a \in 1..Len(heap), HasUid(heap[a]) PROVE HasUid(h[a])
    BY <1>5 DEF Identified
  <2>1. CASE a # k
    BY <1>5, <2>1
  <2>2. CASE a = k
    <3>1. PICK m \in 1..Len(heap[k].fields) : IsUid(heap[k].fields[m])
      BY <2>2 DEF HasUid
    <3>2. m # i
      BY <1>3, <1>14, <1>15, <3>1
    <3> QED BY <1>5, <2>2, <3>1, <3>2 DEF HasUid
  <2> QED BY <2>1, <2>2
<1>20. uid' <= Cardinality(Identified(h))
  <2>1. /\ Cardinality(Identified(heap)) <= Cardinality(Identified(h)) /\ IsFiniteSet(Identified(heap))
        /\ Cardinality(Identified(heap)) \in Nat /\ Cardinality(Identified(h)) \in Nat
        /\ IsFiniteSet(Identified(h))
    BY <1>3, <1>4, <1>19, MoreIdentified, IdentifiedIs
  <2>2. CASE Field # Uid
    BY <1>1, <1>3, <1>11, <2>1, <2>2
  <2>3. CASE Field = Uid
    <3>1. k \notin Identified(heap)
      <4> SUFFICES ASSUME NEW m \in 1..Len(heap[k].fields), IsUid(heap[k].fields[m]) PROVE FALSE
        BY DEF Identified, HasUid
      <4> QED BY <1>2, <1>3, <1>14, <1>15, <2>3
    <3>2. k \in Identified(h)
      BY <1>2, <1>3, <1>5, <1>13, <2>3 DEF Identified, HasUid
    <3>3. Cardinality(Identified(heap) \cup {k}) = Cardinality(Identified(heap)) + 1
      BY <2>1, <3>1, FS_AddElement
    <3>4. Cardinality(Identified(heap) \cup {k}) <= Cardinality(Identified(h))
      BY <1>19, <2>1, <3>2, FS_Subset
    <3> QED BY <1>1, <1>3, <1>11, <2>1, <2>3, <3>3, <3>4
  <2> QED BY <2>2, <2>3
<1> QED BY <1>1, <1>18, <1>20 DEF UidInv, st

LEMMA ReceivedGiven == ASSUME NEW fr, NEW h, GivenAt(fr, h), NEW v PROVE GivenAt(Received(fr, v), h)
<1>1. /\ Received(fr, v).fields = fr.fields /\ Received(fr, v).blk = fr.blk
      /\ Received(fr, v).next = fr.next
  BY DEF Received, Frame
<1> QED BY <1>1 DEF GivenAt

LEMMA GotUid == ASSUME IInv, UidInv, Filling, NEW v, stack' = Got(v), UNCHANGED <<heap, uid>> PROVE UidInv'
<1> DEFINE top == Len(stack)
           st == stack'
<1>1. top \in 1..Len(stack) /\ IsSeq(stack) /\ Top = stack[top]
  BY TopIs, FieldIs DEF Top
<1>2. stack' = [stack EXCEPT ![top] = Received(Top, v)]
  BY DEF Got
<1>3. \A i \in 1..Len(stack) : GivenAt(stack[i], heap)
  BY DEF UidInv
<1>4. GivenAt(Received(Top, v), heap)
  <2>1. GivenAt(Top, heap)
    BY <1>1, <1>3
  <2> QED BY <2>1, ReceivedGiven
<1> HIDE DEF top, st
<1>5. Replaced(st, stack, top, Received(Top, v))
  BY <1>1, <1>2, ElementReplaced DEF st
<1>6. \A i \in 1..Len(st) : GivenAt(st[i], heap)
  BY <1>3, <1>4, <1>5 DEF Replaced
<1> QED BY <1>6 DEF UidInv, st

LEMMA ReturnUid == ASSUME IInv, UidInv, Return PROVE UidInv'
<1> DEFINE up == Len(stack) - 1
           h == ReturnHeap
           st == stack'
<1>1. stack # <<>> /\ heap' = h /\ uid' = uid
  BY DEF Return, ReturnHeap
<1>2. /\ HeapOK(h) /\ Len(heap) <= Len(h) /\ \A a \in 1..Len(heap) : h[a] = heap[a]
      /\ Len(stack) \in Nat /\ Len(stack) >= 1 /\ FramesOK(prog, stack, heap)
  BY <1>1, ReturnedIs, TopIs DEF IInv, Kept
<1>3. /\ up = 0 => st = <<>>
      /\ up # 0 => st = Popped(stack, Returned)
  BY DEF Return, Popped
<1> HIDE DEF h, st
<1>4. /\ uid <= Cardinality(Identified(h))
      /\ \A i \in 1..Len(stack) : GivenAt(stack[i], h)
  BY <1>2, UidKept
<1>5. \A i \in 1..Len(st) : GivenAt(st[i], h)
  <2>1. CASE up = 0
    <3>1. Len(st) = 0
      BY <1>3, <2>1
    <3> QED BY <3>1
  <2>2. CASE up # 0
    <3>1. up >= 1 /\ up \in 1..Len(stack) /\ \A i \in 1..up : i \in 1..Len(stack)
      <4>1. ASSUME NEW l \in Nat, l >= 1, l - 1 # 0
            PROVE l - 1 >= 1 /\ l - 1 \in 1..l /\ \A i \in 1..(l - 1) : i \in 1..l
        BY <4>1
      <4> QED BY <1>2, <2>2, <4>1
    <3>2. /\ Len(Popped(stack, Returned)) = up /\ Popped(stack, Returned)[up] = Received(stack[up], Returned)
          /\ \A i \in 1..up : i # up => Popped(stack, Returned)[i] = stack[i]
      BY <1>2, <3>1, PoppedOK
    <3> HIDE DEF up
    <3>3. GivenAt(Received(stack[up], Returned), h)
      BY <1>4, <3>1, ReceivedGiven
    <3> QED BY <1>3, <1>4, <2>2, <3>1, <3>2, <3>3
  <2> QED BY <2>1, <2>2
<1> QED BY <1>1, <1>4, <1>5 DEF UidInv, st

LEMMA NextUid == IInv /\ UidInv /\ [Next]_vars => UidInv'
<1> SUFFICES ASSUME IInv, UidInv, [Next]_vars PROVE UidInv'
  OBVIOUS
<1>1. CASE HandleTranslationUnit
  <2> DEFINE n == Root(prog)
  <2>1. Begun("Decl", n) /\ Regular("Decl", Shape("Decl", n))
    BY <1>1, HandleBegins, Zenon
  <2> HIDE DEF n
  <2> QED BY <2>1, BegunUid
<1>2. CASE Miss
  <2>1. CASE Stop("overflow")
    BY <2>1 DEF Stop, UidInv
  <2>2. CASE ~Stop("overflow")
    BY <1>2, <2>2, MissBegins, BegunUid
  <2> QED BY <2>1, <2>2
<1>3. CASE Hit
  <2>1. Filling /\ stack' = Got(Get(CacheOf(Callee), Arg)) /\ UNCHANGED <<heap, uid>>
    BY <1>3 DEF Hit, Calling
  <2> QED BY <2>1, GotUid
<1>4. CASE ConstantKind
  <2> DEFINE c == Shape(Callee, Arg).cls
             v == Const(TagOf(ConstantTags(Callee), c), c)
  <2>1. Filling /\ stack' = Got(v) /\ UNCHANGED <<heap, uid>>
    BY <1>4 DEF ConstantKind, Calling
  <2> HIDE DEF v
  <2> QED BY <2>1, GotUid
<1>5. CASE StoreField
  BY <1>5, StoreFieldUid
<1>6. CASE Return
  BY <1>6, ReturnUid
<1>7. CASE Raise \/ Abort \/ UNCHANGED vars
  <2>1. UNCHANGED <<heap, stack, uid>>
    BY <1>7, Zenon DEF Raise, Abort, Stop, vars
  <2> QED BY <2>1 DEF UidInv
<1> QED BY <1>1, <1>2, <1>3, <1>4, <1>5, <1>6, <1>7 DEF Next, Step, Ended

(* A call fills a block of its own and has reached one of its fields, and  *)
(* no more identifiers were given than there are blocks.                   *)
THEOREM ClangTypeCorrect == Spec => []TypeOK
<1>1. Init => UidInv
  <2> SUFFICES ASSUME Init PROVE UidInv
    OBVIOUS
  <2>1. Len(heap) = 0 /\ Len(stack) = 0 /\ uid = 0
    BY DEF Init
  <2>2. Identified(heap) = {}
    BY <2>1 DEF Identified
  <2>3. Cardinality(Identified(heap)) = 0
    BY <2>2, FS_EmptySet
  <2> QED BY <2>1, <2>3 DEF UidInv
<1>2. IInv /\ UidInv => TypeOK
  <2> SUFFICES ASSUME IInv, UidInv PROVE TypeOK
    OBVIOUS
  <2>1. ASSUME NEW i \in 1..Len(stack)
        PROVE  stack[i].blk \in 1..Len(heap) /\ stack[i].next \in 1..Len(heap[stack[i].blk].fields) + 1
    BY DEF IInv, FramesOK, FrameOK
  <2>2. uid \in Nat /\ Cardinality(Identified(heap)) \in Nat /\ Cardinality(Identified(heap)) <= Len(heap)
        /\ Len(heap) \in Nat /\ uid <= Cardinality(Identified(heap))
    BY IdentifiedIs DEF IInv, UidInv, HeapOK, IsSeq
  <2>3. uid \in 0..Len(heap)
    BY <2>2
  <2> QED BY <2>1, <2>3 DEF TypeOK, IInv, Statuses
<1> QED BY <1>1, <1>2, InvHolds, NextUid, PTL DEF Spec

----------------------------------------------------------------------------
(* The graph.                                                              *)
(*                                                                         *)
(* Requests that each keep to one translator of a cache and, if there are  *)
(* such, to what the tables agree about.                                   *)
AskedOf(p) == CHOOSE asked :
  AskedFor(p, asked) /\ SeparateCaches(asked) /\ (AgreeingPrograms => Agreeing(p, asked))

(* What a field holds stands for the nodes it was asked for, at any time:  *)
(* once it is stored, and while its values are received.  A call under way *)
(* is for the next node of the call below it.                              *)
ConstantFor(p, v, fn, n) ==
  LET s == ShapeIn(p, fn, n)
  IN s # NoMatch /\ s.how = "constant" /\ v = Const(TagOf(ConstantTags(fn), s.cls), s.cls) /\ <<fn, n>> \in AskedOf(p)
Stands(p, v, fn, n, h) ==
  IF v[1] = "ref" THEN v[2] \in 1..Len(h) /\ h[v[2]].fn = fn /\ h[v[2]].node = n /\ h[v[2]].part = "whole"
  ELSE ConstantFor(p, v, fn, n)
AllStand(p, vs, fn, ns, h) == \A i \in 1..Len(vs) : Stands(p, vs[i], fn, ns[i], h)
FilledIn(p, b) ==
  LET s == ShapeIn(p, b.fn, b.node) IN
  IF s.how = "indirect" /\ b.part = "whole" THEN {}
  ELSE {k \in 1..Len(s.fields) : Translating(s.fields[k]) /\ b.fields[k] # Unset}
FaithfulAt(p, b, k, h) ==
  LET f  == ShapeIn(p, b.fn, b.node).fields[k]
      ns == NodesOf(p, b.node, f)
  IN Len(b.fields[k].vs) = Len(ns) /\ AllStand(p, b.fields[k].vs, Target(f[2]), ns, h)
Faithful(p, h) == \A b \in 1..Len(h) : \A k \in FilledIn(p, h[b]) : FaithfulAt(p, h[b], k, h)

BlocksAsked(p, h) == \A b \in 1..Len(h) : <<h[b].fn, h[b].node>> \in AskedOf(p)

FieldAt(fr) == fr.fields[fr.next]
Collects(p, fr, h) ==
  fr.next <= Len(fr.fields) /\ Translating(FieldAt(fr)) =>
    AllStand(p, fr.got, Target(FieldAt(fr)[2]), NodesOf(p, fr.node, FieldAt(fr)), h)
CalledBy(p, fr, below) ==
  /\ below.next <= Len(below.fields) /\ Translating(FieldAt(below))
  /\ fr.fn = Target(FieldAt(below)[2])
  /\ fr.node = NodesOf(p, below.node, FieldAt(below))[Len(below.got) + 1]
Linked(p, s) == \A i \in 1..Len(s) : i > 1 => CalledBy(p, s[i], s[i - 1])

FaithIn(p, h, s) ==
  /\ Faithful(p, h) /\ BlocksAsked(p, h)
  /\ \A i \in 1..Len(s) : Collects(p, s[i], h)
  /\ Linked(p, s)
FaithInv == FaithIn(prog, heap, stack)

LEMMA AskedIs ==
  ASSUME OneTranslator, NEW p \in Programs
  PROVE  /\ AskedFor(p, AskedOf(p)) /\ SeparateCaches(AskedOf(p))
         /\ AgreeingPrograms => Agreeing(p, AskedOf(p))
<1> DEFINE Wanted(a) == AskedFor(p, a) /\ SeparateCaches(a) /\ (AgreeingPrograms => Agreeing(p, a))
<1>1. \E a : Wanted(a)
  BY Zenon DEF OneTranslator, AgreeingPrograms
<1>2. AskedOf(p) = CHOOSE a : Wanted(a)
  BY DEF AskedOf
<1> HIDE DEF Wanted
<1>3. Wanted(AskedOf(p))
  BY <1>1, <1>2
<1> QED BY <1>3 DEF Wanted

LEMMA StandsKept ==
  ASSUME NEW p, NEW v, NEW fn, NEW n, NEW h, NEW h1, IsSeq(h), IsSeq(h1), Kept(h, h1), Stands(p, v, fn, n, h)
  PROVE  Stands(p, v, fn, n, h1)
<1>1. CASE v[1] = "ref"
  <2>1. v[2] \in 1..Len(h) /\ v[2] \in 1..Len(h1)
    BY <1>1 DEF Stands, Kept, IsSeq
  <2> QED BY <1>1, <2>1 DEF Stands, Kept
<1>2. CASE v[1] # "ref"
  BY <1>2 DEF Stands
<1> QED BY <1>1, <1>2

LEMMA AllStandKept ==
  ASSUME NEW p, NEW vs, NEW fn, NEW ns, NEW h, NEW h1, IsSeq(h), IsSeq(h1), Kept(h, h1),
         AllStand(p, vs, fn, ns, h)
  PROVE  AllStand(p, vs, fn, ns, h1)
  BY StandsKept DEF AllStand

LEMMA CollectsKept ==
  ASSUME NEW p, NEW fr, NEW h, NEW h1, IsSeq(h), IsSeq(h1), Kept(h, h1), Collects(p, fr, h)
  PROVE  Collects(p, fr, h1)
  BY AllStandKept DEF Collects

LEMMA FaithfulKept ==
  ASSUME NEW p, NEW b, NEW k, NEW h, NEW h1, IsSeq(h), IsSeq(h1), Kept(h, h1), FaithfulAt(p, b, k, h)
  PROVE  FaithfulAt(p, b, k, h1)
  BY AllStandKept DEF FaithfulAt

(* What the call that runs asks for.                                       *)
LEMMA ArgIsAsked ==
  ASSUME OneTranslator, IInv, FaithInv, Calling, ~Rejected(Field[2], Arg)
  PROVE  <<Callee, Arg>> \in AskedOf(prog)
<1> DEFINE A == AskedOf(prog)
           s == ShapeIn(prog, Top.fn, Top.node)
           k == Top.next
           i == Len(Top.got) + 1
<1>1. Filling /\ Translates /\ Len(Top.got) < Len(Nodes)
  BY DEF Calling
<1>2. /\ FrameOK(prog, Top, heap) /\ k \in 1..Len(Fields) /\ Fields = Top.fields /\ Field = Top.fields[k]
  BY <1>1, TopIs, FieldIs
<1>3. /\ Top.fields = s.fields /\ Top.blk \in 1..Len(heap) /\ heap[Top.blk].fn = Top.fn
      /\ heap[Top.blk].node = Top.node /\ IsSeq(Top.got)
  BY <1>2 DEF FrameOK
<1>4. <<Top.fn, Top.node>> \in A
  BY <1>3 DEF FaithInv, FaithIn, BlocksAsked
<1>5. AskedFor(prog, A)
  BY AskedIs DEF IInv
<1>6. k \in 1..Len(s.fields) /\ Field = s.fields[k] /\ Translating(Field)
  BY <1>1, <1>2, <1>3 DEF Translates
<1>7. Nodes = NodesOf(prog, Top.node, Field)
  BY DEF Nodes
<1>8. Callee = Target(Field[2]) /\ Arg = Nodes[i] /\ ~RejectedIn(prog, Field[2], Arg)
  BY DEF Callee, Arg, Rejected
<1> DEFINE r == <<Top.fn, Top.node>>
<1>9. r[1] = Top.fn /\ r[2] = Top.node /\ r \in A
  BY <1>4
<1> HIDE DEF A, k, r
<1>10. /\ Len(Nodes) \in Nat
       /\ \A j \in 1..Len(Nodes) : ~RejectedIn(prog, Field[2], Nodes[j]) => <<Target(Field[2]), Nodes[j]>> \in A
  <2> HIDE DEF s
  <2>1. /\ Len(NodesOf(prog, r[2], Field)) \in Nat
        /\ \A j \in 1..Len(NodesOf(prog, r[2], Field)) :
              ~RejectedIn(prog, Field[2], NodesOf(prog, r[2], Field)[j])
                 => <<Target(Field[2]), NodesOf(prog, r[2], Field)[j]>> \in A
    BY <1>5, <1>6, <1>9, Zenon DEF AskedFor, s
  <2> QED BY <1>7, <1>9, <2>1
<1>11. i \in 1..Len(Nodes)
  <2>1. Len(Top.got) \in Nat
    BY <1>3 DEF IsSeq
  <2> QED BY <1>1, <1>10, <2>1
<1> HIDE DEF i
<1> QED BY <1>8, <1>10, <1>11 DEF A

(* The blocks that are left alone, and the calls.                          *)
LEMMA OldFaithful ==
  ASSUME NEW p, NEW h, NEW h1, IsSeq(h), IsSeq(h1), Kept(h, h1), Faithful(p, h),
         NEW b \in 1..Len(h), h1[b] = h[b], NEW k \in FilledIn(p, h1[b])
  PROVE  FaithfulAt(p, h1[b], k, h1)
<1>1. FaithfulAt(p, h[b], k, h)
  BY DEF Faithful
<1>2. FaithfulAt(p, h[b], k, h1)
  BY <1>1, FaithfulKept
<1> QED BY <1>2

LEMMA ReceivedCollects ==
  ASSUME NEW p, NEW fr, NEW h, NEW v, IsSeq(fr.got), Collects(p, fr, h),
         fr.next <= Len(fr.fields), Translating(FieldAt(fr)),
         Stands(p, v, Target(FieldAt(fr)[2]), NodesOf(p, fr.node, FieldAt(fr))[Len(fr.got) + 1], h)
  PROVE  Collects(p, Received(fr, v), h)
<1> DEFINE fr1 == Received(fr, v)
           fn == Target(FieldAt(fr)[2])
           ns == NodesOf(p, fr.node, FieldAt(fr))
<1>1. /\ fr1.fn = fr.fn /\ fr1.node = fr.node /\ fr1.fields = fr.fields
      /\ fr1.next = fr.next /\ fr1.got = Append(fr.got, v)
  BY DEF Received, Frame
<1> HIDE DEF fr1
<1>2. FieldAt(fr1) = FieldAt(fr)
  BY <1>1 DEF FieldAt
<1>3. Target(FieldAt(fr1)[2]) = fn /\ NodesOf(p, fr1.node, FieldAt(fr1)) = ns
  BY <1>1, <1>2
<1>4. AllStand(p, fr.got, fn, ns, h) /\ Stands(p, v, fn, ns[Len(fr.got) + 1], h)
  BY DEF Collects
<1> HIDE DEF fn, ns
<1>5. /\ Len(fr1.got) = Len(fr.got) + 1 /\ \A i \in 1..Len(fr.got) : fr1.got[i] = fr.got[i]
      /\ fr1.got[Len(fr.got) + 1] = v /\ Len(fr.got) \in Nat
  BY <1>1, AppendFacts DEF IsSeq
<1>6. AllStand(p, fr1.got, fn, ns, h)
  <2> SUFFICES ASSUME NEW i \in 1..Len(fr1.got) PROVE Stands(p, fr1.got[i], fn, ns[i], h)
    BY DEF AllStand
  <2>1. i \in 1..Len(fr.got) \/ i = Len(fr.got) + 1
    BY <1>5
  <2> QED BY <1>4, <1>5, <2>1 DEF AllStand
<1>7. Collects(p, fr1, h)
  BY <1>3, <1>6 DEF Collects
<1> QED BY <1>7 DEF fr1

LEMMA LastLinked ==
  ASSUME NEW p, NEW s, NEW t, NEW fr, Len(s) \in Nat, Linked(p, s), Replaced(t, s, Len(s), fr),
         fr.fn = s[Len(s)].fn, fr.node = s[Len(s)].node
  PROVE  Linked(p, t)
<1> SUFFICES ASSUME NEW i \in 1..Len(t), i > 1 PROVE CalledBy(p, t[i], t[i - 1])
  BY DEF Linked
<1>1. i \in 1..Len(s) /\ i - 1 \in 1..Len(s) /\ i - 1 # Len(s) /\ Len(t) = Len(s)
  BY DEF Replaced
<1>2. CalledBy(p, s[i], s[i - 1])
  BY <1>1 DEF Linked
<1>3. t[i - 1] = s[i - 1] /\ t[i].fn = s[i].fn /\ t[i].node = s[i].node
  BY <1>1 DEF Replaced
<1> QED BY <1>2, <1>3 DEF CalledBy

(* A value received by the call that runs.                                 *)
LEMMA GotFaith ==
  ASSUME IInv, FaithInv, Calling, NEW v, Stands(prog, v, Callee, Arg, heap),
         stack' = Got(v), UNCHANGED <<prog, heap>>
  PROVE  FaithInv'
<1> DEFINE top == Len(stack)
           st == stack'
           fr == Received(Top, v)
<1>1. Filling /\ Translates
  BY DEF Calling
<1>2. /\ top \in 1..Len(stack) /\ top \in Nat /\ IsSeq(stack) /\ Top = stack[top]
      /\ Top.next <= Len(Top.fields) /\ Field = FieldAt(Top) /\ Translating(FieldAt(Top)) /\ IsSeq(Top.got)
  BY <1>1, TopIs, FieldIs DEF Top, FieldAt, FrameOK, Translates
<1>3. Replaced(st, stack, top, fr)
  <2>1. stack' = [stack EXCEPT ![top] = fr]
    BY DEF Got
  <2> HIDE DEF fr, st, top
  <2> QED BY <1>2, <2>1, ElementReplaced DEF st
<1>4. fr.fn = Top.fn /\ fr.node = Top.node
  BY DEF Received, Frame
<1>5. \A i \in 1..Len(stack) : Collects(prog, stack[i], heap)
  BY DEF FaithInv, FaithIn
<1>6. Collects(prog, fr, heap)
  <2>1. Stands(prog, v, Target(FieldAt(Top)[2]), NodesOf(prog, Top.node, FieldAt(Top))[Len(Top.got) + 1], heap)
    BY <1>2 DEF Callee, Arg, Nodes
  <2>2. Collects(prog, Top, heap)
    BY <1>2, <1>5
  <2> QED BY <1>2, <2>1, <2>2, ReceivedCollects
<1>7. Faithful(prog, heap) /\ BlocksAsked(prog, heap) /\ Linked(prog, stack)
  BY DEF FaithInv, FaithIn
<1> HIDE DEF fr, st
<1>8. Linked(prog, st)
  BY <1>2, <1>3, <1>4, <1>7, LastLinked
<1> HIDE DEF top
<1>9. \A i \in 1..Len(st) : Collects(prog, st[i], heap)
  BY <1>3, <1>5, <1>6 DEF Replaced, top
<1>10. FaithIn(prog, heap, st)
  BY <1>7, <1>8, <1>9 DEF FaithIn
<1>11. prog' = prog /\ heap' = heap
  OBVIOUS
<1> QED BY <1>10, <1>11 DEF FaithInv, st

LEMMA HitFaith == ASSUME OneTranslator, IInv, FaithInv, Hit PROVE FaithInv'
<1> DEFINE fn == Callee
           n == Arg
           c == CacheOf(fn)
           v == Get(c, n)
<1>1. /\ Calling /\ ~Rejected(Field[2], Arg) /\ c # "none" /\ Contains(c, n)
      /\ stack' = Got(v) /\ UNCHANGED <<prog, heap>>
  BY DEF Hit, Cached
<1>2. <<fn, n>> \in AskedOf(prog)
  BY <1>1, ArgIsAsked
<1> HIDE DEF fn, n
<1>3. EntryFor(c, n, v, heap)
  <2>1. c \in CacheNames
    BY <1>1, CacheIsNamed
  <2> QED BY <1>1, <2>1 DEF Contains, IInv, CachesOK, CacheOK, Answers, Get
<1> HIDE DEF v
<1>4. PICK b \in 1..Len(heap) : v = Ref(b) /\ heap[b].node = n /\ CacheOf(heap[b].fn) = c /\ heap[b].part = "whole"
  BY <1>3 DEF EntryFor
<1>5. <<heap[b].fn, heap[b].node>> \in AskedOf(prog)
  BY DEF FaithInv, FaithIn, BlocksAsked
<1>6. heap[b].fn = fn
  <2> DEFINE q == <<heap[b].fn, heap[b].node>>
             r == <<fn, n>>
             A == AskedOf(prog)
  <2>1. SeparateCaches(A)
    BY AskedIs DEF IInv
  <2>2. /\ q \in A /\ r \in A /\ q[1] = heap[b].fn /\ q[2] = n /\ r[1] = fn /\ r[2] = n
    BY <1>2, <1>4, <1>5
  <2>3. CacheOf(q[1]) = CacheOf(r[1]) /\ CacheOf(q[1]) # "none"
    BY <1>1, <1>4, <2>2
  <2> HIDE DEF q, r, A
  <2>4. q[1] = r[1]
    BY <2>1, <2>2, <2>3, Zenon DEF SeparateCaches
  <2> QED BY <2>2, <2>4
<1>7. Stands(prog, v, fn, n, heap)
  <2>1. v[1] = "ref" /\ v[2] = b
    BY <1>4 DEF Ref
  <2> QED BY <1>4, <1>6, <2>1 DEF Stands
<1> QED BY <1>1, <1>7, GotFaith DEF fn, n

LEMMA ConstantFaith == ASSUME OneTranslator, IInv, FaithInv, ConstantKind PROVE FaithInv'
<1> DEFINE fn == Callee
           n == Arg
           c == Shape(fn, n).cls
           i == TagOf(ConstantTags(fn), c)
           v == Const(i, c)
<1>1. /\ Calling /\ stack' = Got(v) /\ UNCHANGED <<prog, heap>> /\ ~Rejected(Field[2], Arg)
      /\ Shape(fn, n).how = "constant"
  BY DEF ConstantKind
<1>3. <<fn, n>> \in AskedOf(prog)
  BY <1>1, ArgIsAsked
<1>4. Shape(fn, n) # NoMatch
  <2>1. CASE Field[2] = "BaseUsingDecl"
    <3>1. fn = "UsingDecl" /\ fn \in DOMAIN Records
      BY <2>1, TablesAssumption DEF Callee, Target
    <3> HIDE DEF fn, n
    <3>2. Shape(fn, n).how = "direct"
      BY <3>1, Zenon DEF Shape, ShapeIn, Node
    <3> QED BY <1>1, <3>2
  <2>2. CASE Field[2] # "BaseUsingDecl"
    <3>1. fn = Field[2]
      BY <2>2 DEF Callee, Target
    <3>2. ~RejectedIn(prog, fn, n)
      BY <1>1, <3>1 DEF Rejected
    <3> HIDE DEF fn, n
    <3> QED BY <2>2, <3>1, <3>2 DEF RejectedIn, Shape
  <2> QED BY <2>1, <2>2
<1> HIDE DEF fn, n
<1>2. Stands(prog, v, fn, n, heap)
  <2>1. v[1] = "imm"
    BY DEF Const
  <2>2. ConstantFor(prog, v, fn, n)
    BY <1>1, <1>3, <1>4 DEF ConstantFor, Shape
  <2> HIDE DEF v
  <2> QED BY <2>1, <2>2 DEF Stands
<1> HIDE DEF v
<1> QED BY <1>1, <1>2, GotFaith DEF fn, n

(* A call that begins: its block is empty, and it is for the next node.    *)
LEMMA BegunFaith ==
  ASSUME IInv, FaithInv, NEW fn, NEW n, Regular(fn, Shape(fn, n)), Begun(fn, n),
         <<fn, n>> \in AskedOf(prog), stack = <<>> \/ (Calling /\ fn = Callee /\ n = Arg)
  PROVE  FaithInv'
<1> DEFINE b == Len(heap) + 1
           top == Len(stack)
           h == heap'
           st == stack'
           s == ShapeIn(prog, fn, n)
<1>1. /\ IsSeq(heap) /\ IsSeq(h) /\ Kept(heap, h) /\ Len(h) = b /\ Len(heap) \in Nat
      /\ h[b].fn = fn /\ h[b].node = n /\ h[b].fields = [i \in 1..Len(s.fields) |-> Unset]
      /\ \A a \in 1..Len(heap) : h[a] = heap[a]
  BY DEF Begun, IInv, HeapOK, IsSeq, Shape
<1>2. /\ IsSeq(stack) /\ top \in Nat /\ Len(st) = top + 1 /\ \A i \in 1..top : st[i] = stack[i]
      /\ st[top + 1].fn = fn /\ st[top + 1].node = n /\ st[top + 1].got = <<>>
  BY DEF Begun, IInv, FramesOK, IsSeq
<1>3. /\ Faithful(prog, heap) /\ BlocksAsked(prog, heap) /\ Linked(prog, stack)
      /\ \A i \in 1..top : Collects(prog, stack[i], heap)
  BY DEF FaithInv, FaithIn
<1>4. prog' = prog
  BY DEF Begun
<1>6. \A a \in 1..Len(h) : a \in 1..Len(heap) \/ a = b
  BY <1>1
<1>7. \A i \in 1..Len(st) : i \in 1..top \/ i = top + 1
  BY <1>2
<1> HIDE DEF b, h, st, s
<1>8. FilledIn(prog, h[b]) = {}
  <2>1. ShapeIn(prog, h[b].fn, h[b].node) = s
    BY <1>1 DEF s
  <2>2. \A k \in 1..Len(s.fields) : h[b].fields[k] = Unset
    BY <1>1
  <2> QED BY <2>1, <2>2 DEF FilledIn
<1>9. Faithful(prog, h)
  <2> SUFFICES ASSUME NEW a \in 1..Len(h), NEW k \in FilledIn(prog, h[a]) PROVE FaithfulAt(prog, h[a], k, h)
    BY DEF Faithful
  <2>1. a \in 1..Len(heap) /\ h[a] = heap[a]
    BY <1>1, <1>6, <1>8
  <2> QED BY <1>1, <1>3, <2>1, OldFaithful
<1>10. BlocksAsked(prog, h)
  BY <1>1, <1>3, <1>6 DEF BlocksAsked
<1>11. \A i \in 1..Len(st) : Collects(prog, st[i], h)
  <2> SUFFICES ASSUME NEW i \in 1..Len(st) PROVE Collects(prog, st[i], h)
    OBVIOUS
  <2>1. CASE i \in 1..top
    BY <1>1, <1>2, <1>3, <2>1, CollectsKept
  <2>2. CASE i = top + 1
    <3>1. Len(st[i].got) = 0
      BY <1>2, <2>2
    <3> QED BY <3>1 DEF Collects, AllStand
  <2> QED BY <1>7, <2>1, <2>2
<1>12. Linked(prog, st)
  <2> SUFFICES ASSUME NEW i \in 1..Len(st), i > 1 PROVE CalledBy(prog, st[i], st[i - 1])
    BY DEF Linked
  <2>1. CASE i \in 1..top
    <3>1. CalledBy(prog, stack[i], stack[i - 1])
      BY <1>3, <2>1 DEF Linked
    <3>2. st[i] = stack[i] /\ st[i - 1] = stack[i - 1]
      BY <1>2, <2>1
    <3> QED BY <3>1, <3>2
  <2>2. CASE i = top + 1
    <3>1. top >= 1 /\ i - 1 = top /\ st[top] = Top
      BY <1>2, <2>2 DEF Top
    <3>2. Calling /\ fn = Callee /\ n = Arg
      <4>1. stack # <<>>
        BY <3>1
      <4> QED BY <4>1
    <3>3. Filling /\ Translates
      BY <3>2 DEF Calling
    <3>4. Top.next <= Len(Top.fields) /\ Field = FieldAt(Top) /\ Translating(FieldAt(Top))
      BY <3>3, FieldIs DEF FieldAt, Translates
    <3>5. fn = Target(FieldAt(Top)[2]) /\ n = NodesOf(prog, Top.node, FieldAt(Top))[Len(Top.got) + 1]
      BY <3>2, <3>4 DEF Callee, Arg, Nodes
    <3>6. CalledBy(prog, st[i], Top)
      BY <1>2, <2>2, <3>4, <3>5 DEF CalledBy
    <3> QED BY <3>1, <3>6
  <2> QED BY <1>7, <2>1, <2>2
<1>13. FaithIn(prog, h, st)
  BY <1>9, <1>10, <1>11, <1>12 DEF FaithIn
<1> QED BY <1>4, <1>13 DEF FaithInv, h, st

(* A field stored.                                                         *)
LEMMA StoreFieldFaith == ASSUME IInv, FaithInv, StoreField PROVE FaithInv'
<1> DEFINE k == Top.blk
           m == Top.next
           v == FieldValue
           e == WithField(heap[k], m, v)
           h == [heap EXCEPT ![k] = e]
           top == Len(stack)
           fr == Advanced(Top)
           st == stack'
           s == ShapeIn(prog, Top.fn, Top.node)
<1>1. Filling /\ heap' = h /\ stack' = [stack EXCEPT ![top] = fr] /\ prog' = prog
  BY DEF StoreField
<1>2. /\ FrameOK(prog, Top, heap) /\ m \in 1..Len(Top.fields) /\ Field = Top.fields[m]
      /\ top \in Nat /\ top \in 1..Len(stack) /\ IsSeq(stack) /\ Top = stack[top]
  BY <1>1, TopIs, FieldIs DEF Top
<1>3. /\ k \in 1..Len(heap) /\ heap[k].fn = Top.fn /\ heap[k].node = Top.node /\ Top.fields = s.fields
      /\ Len(heap[k].fields) = Len(Top.fields) /\ IsSeq(heap) /\ IsSeq(heap[k].fields)
  BY <1>2 DEF FrameOK, IInv, HeapOK
<1>4. HeapOK(h) /\ Kept(heap, h)
  BY <1>1, FieldStored
<1>5. Translates => /\ v.vs = Top.got /\ Len(Top.got) = Len(NodesOf(prog, Top.node, Field))
                    /\ Translating(Field)
  <2>1. Translates => Len(Top.got) = Len(Nodes)
    BY Zenon DEF StoreField, Storable
  <2>2. Translates => FieldValue = [how |-> Field[1], vs |-> Top.got]
    <3> SUFFICES ASSUME Translates PROVE FieldValue = [how |-> Field[1], vs |-> Top.got]
      OBVIOUS
    <3>0. Uid[1] = "uid"
      BY DEF Uid
    <3>1. ~Switches /\ Field # Uid /\ Field[1] # "leaf"
      BY <3>0 DEF Translates, Translating, Switches
    <3> QED BY <3>1 DEF FieldValue
  <2> QED BY <2>1, <2>2 DEF Nodes, Translates
<1>6. /\ e.fn = Top.fn /\ e.node = Top.node /\ e.part = heap[k].part
      /\ e.fields = [heap[k].fields EXCEPT ![m] = v]
  BY <1>3 DEF WithField, Block
<1>7. fr.fn = Top.fn /\ fr.node = Top.node /\ fr.got = <<>>
  BY DEF Advanced, Frame
<1>8. /\ Faithful(prog, heap) /\ BlocksAsked(prog, heap) /\ Linked(prog, stack)
      /\ \A i \in 1..top : Collects(prog, stack[i], heap)
  BY DEF FaithInv, FaithIn
<1>9. Translating(Field) <=> Translates
  BY DEF Translates
<1>10. FieldAt(Top) = Field
  BY <1>2 DEF FieldAt
<1> HIDE DEF k, m, v, e
<1>11. Replaced(h, heap, k, e)
  BY <1>3, ElementReplaced
<1>12. Replaced(e.fields, heap[k].fields, m, v)
  BY <1>2, <1>3, <1>6, ElementReplaced
<1> HIDE DEF fr, h
<1>13. Replaced(st, stack, top, fr)
  BY <1>1, <1>2, ElementReplaced
<1> HIDE DEF st, s
<1>14. IsSeq(h) /\ Len(h) = Len(heap) /\ h[k] = e /\ \A a \in 1..Len(heap) : a # k => h[a] = heap[a]
  BY <1>3, <1>11 DEF Replaced
<1>15. /\ e.fields[m] = v
       /\ \A l \in 1..Len(Top.fields) : l # m => e.fields[l] = heap[k].fields[l]
  BY <1>2, <1>3, <1>12 DEF Replaced
<1>16. Len(stack) = top
  BY DEF top
<1> HIDE DEF top
<1>17. Linked(prog, st)
  BY <1>2, <1>7, <1>8, <1>13, <1>16, LastLinked
<1>18. \A i \in 1..Len(st) : Collects(prog, st[i], h)
  <2> SUFFICES ASSUME NEW i \in 1..Len(st) PROVE Collects(prog, st[i], h)
    OBVIOUS
  <2>1. CASE i = top
    <3>1. Len(st[i].got) = 0
      BY <1>2, <1>7, <1>13, <2>1 DEF Replaced
    <3> QED BY <3>1 DEF Collects, AllStand
  <2>2. CASE i # top
    <3>1. st[i] = stack[i] /\ i \in 1..top
      BY <1>13, <1>16, <2>2 DEF Replaced
    <3> QED BY <1>3, <1>4, <1>8, <1>14, <3>1, CollectsKept
  <2> QED BY <2>1, <2>2
<1>19. BlocksAsked(prog, h)
  BY <1>3, <1>6, <1>8, <1>14 DEF BlocksAsked
<1>20. Faithful(prog, h)
  <2> SUFFICES ASSUME NEW a \in 1..Len(h), NEW l \in FilledIn(prog, h[a]) PROVE FaithfulAt(prog, h[a], l, h)
    BY DEF Faithful
  <2>1. CASE a # k
    BY <1>3, <1>4, <1>8, <1>14, <2>1, OldFaithful
  <2>2. CASE a = k
    <3>1. ShapeIn(prog, h[a].fn, h[a].node) = s /\ ShapeIn(prog, heap[k].fn, heap[k].node) = s
      BY <1>3, <1>6, <1>14, <2>2 DEF s
    <3>2. l \in 1..Len(s.fields) /\ Translating(s.fields[l])
      BY <3>1 DEF FilledIn
    <3>3. h[a].node = Top.node /\ heap[k].node = Top.node
      BY <1>3, <1>6, <1>14, <2>2
    <3>4. CASE l = m
      <4>1. Translates /\ s.fields[l] = Field /\ h[a].fields[l] = v
        BY <1>2, <1>3, <1>9, <1>14, <1>15, <2>2, <3>2, <3>4
      <4> DEFINE ns == NodesOf(prog, Top.node, Field)
                 fn == Target(Field[2])
      <4>2. AllStand(prog, Top.got, fn, ns, heap)
        <5>1. Collects(prog, Top, heap)
          BY <1>2, <1>8, <1>16
        <5>2. Top.next <= Len(Top.fields) /\ Translating(FieldAt(Top))
          BY <1>2, <1>9, <1>10, <4>1 DEF m
        <5> QED BY <1>10, <5>1, <5>2 DEF Collects
      <4> HIDE DEF ns, fn
      <4>3. AllStand(prog, Top.got, fn, ns, h)
        BY <1>3, <1>4, <1>14, <4>2, AllStandKept
      <4>4. Len(h[a].fields[l].vs) = Len(ns) /\ h[a].fields[l].vs = Top.got
        BY <1>5, <4>1 DEF ns
      <4> QED BY <3>1, <3>3, <4>1, <4>3, <4>4 DEF FaithfulAt, ns, fn
    <3>5. CASE l # m
      <4>1. h[a].fields[l] = heap[k].fields[l]
        BY <1>3, <1>14, <1>15, <2>2, <3>2, <3>5
      <4>2. l \in FilledIn(prog, heap[k])
        <5>1. h[a].part = heap[k].part /\ h[a] = e
          BY <1>6, <1>14, <2>2
        <5> QED BY <3>1, <4>1, <5>1 DEF FilledIn
      <4>3. FaithfulAt(prog, heap[k], l, heap)
        BY <1>3, <1>8, <4>2 DEF Faithful
      <4>4. FaithfulAt(prog, heap[k], l, h)
        BY <1>3, <1>4, <1>14, <4>3, FaithfulKept
      <4> QED BY <3>1, <3>3, <4>1, <4>4 DEF FaithfulAt
    <3> QED BY <3>4, <3>5
  <2> QED BY <2>1, <2>2
<1>21. FaithIn(prog, h, st)
  BY <1>17, <1>18, <1>19, <1>20 DEF FaithIn
<1> QED BY <1>1, <1>21 DEF FaithInv, st

(* A call that ends: its block, or the record around it, stands for its    *)
(* node in the call below.                                                 *)
LEMMA WrapperIsEmpty ==
  ASSUME IInv, stack # <<>>, Indirectly
  PROVE  FilledIn(prog, ReturnHeap[Returned[2]]) = {}
<1>1. FrameOK(prog, Top, heap)
  BY TopIs
<1>2. ShapeIn(prog, Top.fn, Top.node).how = "indirect"
  BY <1>1 DEF FrameOK, PartOf, Indirectly
<1> DEFINE b == ReturnHeap[Returned[2]]
<1>3. b.fn = Top.fn /\ b.node = Top.node /\ b.part = "whole"
  BY ReturnedIs
<1> HIDE DEF b
<1>4. FilledIn(prog, b) = {}
  BY <1>2, <1>3 DEF FilledIn
<1> QED BY <1>4 DEF b

LEMMA ReturnFaith == ASSUME IInv, FaithInv, Return PROVE FaithInv'
<1> DEFINE up == Len(stack) - 1
           top == Len(stack)
           h == ReturnHeap
           v == Returned
           st == stack'
<1>1. stack # <<>> /\ heap' = h /\ prog' = prog
  BY DEF Return, ReturnHeap
<1>2. /\ HeapOK(h) /\ IsSeq(h) /\ Kept(heap, h) /\ \A a \in 1..Len(heap) : h[a] = heap[a]
      /\ Len(h) = IF Indirectly THEN Len(heap) + 1 ELSE Len(heap)
      /\ v[1] = "ref" /\ v[2] \in 1..Len(h)
      /\ h[v[2]].fn = Top.fn /\ h[v[2]].node = Top.node /\ h[v[2]].part = "whole"
  BY <1>1, ReturnedIs DEF HeapOK
<1>3. /\ top \in Nat /\ top >= 1 /\ Top = stack[top] /\ FrameOK(prog, Top, heap)
      /\ FramesOK(prog, stack, heap) /\ IsSeq(heap) /\ Len(heap) \in Nat
  BY <1>1, TopIs DEF IInv, HeapOK, IsSeq, Top
<1>4. /\ up = 0 => st = <<>>
      /\ up # 0 => st = Popped(stack, v)
  BY DEF Return, Popped
<1>5. /\ Faithful(prog, heap) /\ BlocksAsked(prog, heap) /\ Linked(prog, stack)
      /\ \A i \in 1..top : Collects(prog, stack[i], heap)
  BY DEF FaithInv, FaithIn
<1>6. Indirectly => v[2] = Len(heap) + 1 /\ FilledIn(prog, h[v[2]]) = {}
  <2>1. Indirectly => v[2] = Len(heap) + 1
    BY DEF Returned, Ref
  <2> QED BY <1>1, <2>1, WrapperIsEmpty
<1>7. FramesOK(prog, stack, h)
  BY <1>2, <1>3, FramesKept
<1> HIDE DEF h, v, st
<1>8. \A a \in 1..Len(h) : a \in 1..Len(heap) \/ (Indirectly /\ a = v[2])
  BY <1>2, <1>3, <1>6
<1>9. Faithful(prog, h)
  <2> SUFFICES ASSUME NEW a \in 1..Len(h), NEW k \in FilledIn(prog, h[a]) PROVE FaithfulAt(prog, h[a], k, h)
    BY DEF Faithful
  <2>1. a \in 1..Len(heap)
    BY <1>6, <1>8
  <2> QED BY <1>2, <1>3, <1>5, <2>1, OldFaithful
<1>10. BlocksAsked(prog, h)
  <2>1. <<Top.fn, Top.node>> \in AskedOf(prog)
    BY <1>3, <1>5 DEF FrameOK, BlocksAsked
  <2> QED BY <1>2, <1>5, <1>8, <2>1 DEF BlocksAsked
<1>11. FaithIn(prog, h, st)
  <2>1. CASE up = 0
    <3>1. Len(st) = 0
      BY <1>4, <2>1
    <3> QED BY <1>9, <1>10, <3>1 DEF FaithIn, Linked
  <2>2. CASE up # 0
    <3>1. up >= 1 /\ up = Len(stack) - 1 /\ up \in Nat /\ up \in 1..top /\ up = top - 1
          /\ top > 1 /\ top \in 1..top /\ \A i \in 1..up : i \in 1..top
      <4>1. ASSUME NEW l \in Nat, l >= 1, l - 1 # 0
            PROVE /\ l - 1 >= 1 /\ l - 1 \in Nat /\ l - 1 \in 1..l /\ l > 1 /\ l \in 1..l
                  /\ \A i \in 1..(l - 1) : i \in 1..l
        BY <4>1
      <4> QED BY <1>3, <2>2, <4>1
    <3> DEFINE fr == Received(stack[up], v)
    <3>2. /\ Len(st) = up /\ st[up] = fr /\ \A i \in 1..up : i # up => st[i] = stack[i]
      BY <1>4, <1>7, <2>2, <3>1, PoppedOK
    <3> HIDE DEF up, top
    <3>3. CalledBy(prog, stack[top], stack[up])
      BY <1>5, <3>1 DEF Linked, top
    <3>4. FrameOK(prog, stack[up], heap)
      BY <1>3, <3>1 DEF FramesOK, top
    <3>5. Collects(prog, stack[up], h)
      BY <1>2, <1>3, <1>5, <3>1, CollectsKept
    <3>6. Collects(prog, fr, h)
      <4> DEFINE below == stack[up]
      <4>1. /\ below.next <= Len(below.fields) /\ Translating(FieldAt(below)) /\ IsSeq(below.got)
            /\ Top.fn = Target(FieldAt(below)[2])
            /\ Top.node = NodesOf(prog, below.node, FieldAt(below))[Len(below.got) + 1]
        BY <1>3, <3>3, <3>4 DEF CalledBy, FrameOK
      <4>2. Stands(prog, v, Top.fn, Top.node, h)
        BY <1>2 DEF Stands
      <4>3. Collects(prog, below, h)
        BY <3>5
      <4> HIDE DEF below
      <4>4. Collects(prog, Received(below, v), h)
        BY <4>1, <4>2, <4>3, ReceivedCollects
      <4> QED BY <4>4 DEF below
    <3>7. fr.fn = stack[up].fn /\ fr.node = stack[up].node
      BY DEF Received, Frame
    <3> HIDE DEF fr
    <3>8. \A i \in 1..Len(st) : Collects(prog, st[i], h)
      BY <1>2, <1>3, <1>5, <3>1, <3>2, <3>6, CollectsKept
    <3>9. Linked(prog, st)
      <4> SUFFICES ASSUME NEW i \in 1..Len(st), i > 1 PROVE CalledBy(prog, st[i], st[i - 1])
        BY DEF Linked
      <4>1. i \in 1..Len(stack) /\ i \in 1..up /\ i - 1 \in 1..up /\ i - 1 # up
        BY <3>1, <3>2 DEF top
      <4>2. CalledBy(prog, stack[i], stack[i - 1])
        BY <1>5, <4>1 DEF Linked
      <4>3. st[i - 1] = stack[i - 1] /\ st[i].fn = stack[i].fn /\ st[i].node = stack[i].node
        BY <3>2, <3>7, <4>1
      <4> QED BY <4>2, <4>3 DEF CalledBy
    <3> QED BY <1>9, <1>10, <3>8, <3>9 DEF FaithIn
  <2> QED BY <2>1, <2>2
<1> QED BY <1>1, <1>11 DEF FaithInv, h, st

LEMMA NextFaith == OneTranslator /\ IInv /\ FaithInv /\ [Next]_vars => FaithInv'
<1> SUFFICES ASSUME OneTranslator, IInv, FaithInv, [Next]_vars PROVE FaithInv'
  OBVIOUS
<1>1. CASE HandleTranslationUnit
  <2> DEFINE n == Root(prog)
  <2>1. Begun("Decl", n) /\ Regular("Decl", Shape("Decl", n)) /\ stack = <<>>
    BY <1>1, HandleBegins, Zenon
  <2>2. <<"Decl", n>> \in AskedOf(prog)
    <3>1. AskedFor(prog, AskedOf(prog))
      BY AskedIs DEF IInv
    <3> QED BY <3>1, Zenon DEF AskedFor
  <2> HIDE DEF n
  <2> QED BY <2>1, <2>2, BegunFaith
<1>2. CASE Miss
  <2>1. CASE Stop("overflow")
    BY <2>1 DEF Stop, FaithInv
  <2>2. CASE ~Stop("overflow")
    <3>1. Begun(Callee, Arg) /\ Regular(Callee, Shape(Callee, Arg)) /\ Calling
      BY <1>2, <2>2, MissBegins
    <3>2. ~Rejected(Field[2], Arg)
      BY <1>2, Zenon DEF Miss
    <3>3. <<Callee, Arg>> \in AskedOf(prog)
      BY <3>1, <3>2, ArgIsAsked
    <3> DEFINE fn == Callee
               n == Arg
    <3>4. /\ Begun(fn, n) /\ Regular(fn, Shape(fn, n)) /\ <<fn, n>> \in AskedOf(prog)
          /\ Calling /\ fn = Callee /\ n = Arg
      BY <3>1, <3>3
    <3> HIDE DEF fn, n
    <3> QED BY <3>4, BegunFaith
  <2> QED BY <2>1, <2>2
<1>3. CASE Hit
  BY <1>3, HitFaith
<1>4. CASE ConstantKind
  BY <1>4, ConstantFaith
<1>5. CASE StoreField
  BY <1>5, StoreFieldFaith
<1>6. CASE Return
  BY <1>6, ReturnFaith
<1>7. CASE Raise \/ Abort \/ UNCHANGED vars
  <2>1. UNCHANGED <<prog, heap, stack>>
    BY <1>7, Zenon DEF Raise, Abort, Stop, vars
  <2> QED BY <2>1 DEF FaithInv
<1> QED BY <1>1, <1>2, <1>3, <1>4, <1>5, <1>6, <1>7 DEF Next, Step, Ended

LEMMA GraphFollows == FaithInv => GraphFaithful
<1> SUFFICES ASSUME FaithInv, NEW b \in 1..Len(heap), NEW k \in Filled(heap[b])
             PROVE  FieldFaithful(heap[b], k)
  BY DEF GraphFaithful
<1> DEFINE e == heap[b]
           f == Shape(e.fn, e.node).fields[k]
           vs == e.fields[k].vs
           ns == NodesOf(prog, e.node, f)
           fn == Target(f[2])
<1>1. k \in FilledIn(prog, e)
  BY DEF Filled, FilledIn, Shape
<1>2. FaithfulAt(prog, e, k, heap)
  BY <1>1 DEF FaithInv, FaithIn, Faithful
<1>3. Len(vs) = Len(ns) /\ AllStand(prog, vs, fn, ns, heap)
  BY <1>2 DEF FaithfulAt, Shape
<1> HIDE DEF fn, ns, vs
<1>4. \A i \in 1..Len(vs) : StandsFor(vs[i], fn, ns[i])
  <2> SUFFICES ASSUME NEW i \in 1..Len(vs) PROVE StandsFor(vs[i], fn, ns[i])
    OBVIOUS
  <2>1. Stands(prog, vs[i], fn, ns[i], heap)
    BY <1>3 DEF AllStand
  <2>2. CASE vs[i][1] = "ref"
    BY <2>1, <2>2 DEF Stands, StandsFor
  <2>3. CASE vs[i][1] # "ref"
    <3>1. ConstantFor(prog, vs[i], fn, ns[i])
      BY <2>1, <2>3 DEF Stands
    <3>2. vs[i][3] = ShapeIn(prog, fn, ns[i]).cls
      BY <3>1 DEF ConstantFor, Const
    <3> QED BY <2>3, <3>2 DEF StandsFor, Shape
  <2> QED BY <2>2, <2>3
<1> QED BY <1>3, <1>4 DEF FieldFaithful, fn, ns, vs

(* The blocks form the graph of the program: every field holds, in order,  *)
(* the translations of the nodes its accessor gives, although the caches   *)
(* are keyed by the address of a node alone; provided the translators that *)
(* share a cache are asked for different nodes.                            *)
THEOREM GraphIsFaithful == OneTranslator /\ Spec => []GraphFaithful
<1> SUFFICES ASSUME OneTranslator PROVE Spec => []GraphFaithful
  OBVIOUS
<1>1. Init => FaithInv
  <2> SUFFICES ASSUME Init PROVE FaithInv
    OBVIOUS
  <2>1. Len(heap) = 0 /\ Len(stack) = 0
    BY DEF Init
  <2> QED BY <2>1 DEF FaithInv, FaithIn, Faithful, BlocksAsked, Linked
<1>2. IInv /\ FaithInv /\ [Next]_vars => FaithInv'
  BY NextFaith
<1> QED BY <1>1, <1>2, InvHolds, GraphFollows, PTL DEF Spec

----------------------------------------------------------------------------
(* The layout.                                                             *)
(*                                                                         *)
(* A block has the tag of its constructor, and is the record an indirect   *)
(* constructor takes, the wrapper of one, or whole; a field holds what its *)
(* translator stores there, unless a call under way has not reached it.    *)
IsWrapper(p, b) == ShapeIn(p, b.fn, b.node).how = "indirect" /\ b.part = "whole"
MadeFor(p, b) ==
  LET s == ShapeIn(p, b.fn, b.node) IN
  /\ b.fn \in Translators /\ s # NoMatch /\ s.how # "constant" /\ b.ctor = s.cls
  /\ b.part = "whole" \/ (b.part = "argument" /\ s.how = "indirect")
  /\ b.tag = IF b.part = "whole" THEN BlockTag(b.fn, s.cls) ELSE 0
  /\ ~IsWrapper(p, b) => Len(b.fields) = Len(s.fields)
Wraps(b, h) == \E a \in 1..Len(h) :
  /\ b.fields = <<[how |-> "one", vs |-> <<Ref(a)>>]>>
  /\ h[a].fn = b.fn /\ h[a].ctor = b.ctor /\ h[a].part = "argument"
Enumerates(p, n, f, vs) == \A i \in 1..Len(vs) : \E e \in Enumerator(p, n, f) :
  Handled(f[2], e) /\ vs[i] = Const(SwitchTag(f[2], e), e)
LeafOf(f) == IF f = Uid THEN "imm" ELSE IF f[1] = "leaf" THEN f[2] ELSE "unit"
StoredAs(p, n, f, v) ==
  /\ f # Failwith
  /\ Translating(f) => v.how = f[1]
  /\ Switching(f) => v.how = (IF f[1] = "switch" THEN "one" ELSE "opt") /\ Enumerates(p, n, f, v.vs)
  /\ ~Translating(f) /\ ~Switching(f) => v.how = LeafOf(f)
FieldDone(p, b, k) == StoredAs(p, b.node, ShapeIn(p, b.fn, b.node).fields[k], b.fields[k])
Pending(b, k, s) == \E i \in 1..Len(s) : s[i].blk = b /\ s[i].next <= k
BlockLaid(p, b, h, s) ==
  /\ MadeFor(p, h[b])
  /\ IsWrapper(p, h[b]) => Wraps(h[b], h)
  /\ ~IsWrapper(p, h[b]) => \A k \in 1..Len(h[b].fields) : FieldDone(p, h[b], k) \/ Pending(b, k, s)
Laid(p, h, s) == \A b \in 1..Len(h) : BlockLaid(p, b, h, s)
LayInv == Laid(prog, heap, stack) /\ (status = "done" => stack = <<>>)

(* A block that is left alone, whose fields no call forgets.               *)
LEMMA WrapsKept ==
  ASSUME NEW b, NEW h, NEW h1, IsSeq(h), IsSeq(h1), Kept(h, h1), Wraps(b, h)
  PROVE  Wraps(b, h1)
<1>1. PICK a \in 1..Len(h) : /\ b.fields = <<[how |-> "one", vs |-> <<Ref(a)>>]>>
                             /\ h[a].fn = b.fn /\ h[a].ctor = b.ctor /\ h[a].part = "argument"
  BY DEF Wraps
<1>2. a \in 1..Len(h1) /\ h1[a].fn = b.fn /\ h1[a].ctor = b.ctor /\ h1[a].part = "argument"
  BY <1>1 DEF Kept, IsSeq
<1> QED BY <1>1, <1>2 DEF Wraps

LEMMA LaidKept ==
  ASSUME NEW p, NEW h, NEW h1, IsSeq(h), IsSeq(h1), Kept(h, h1), NEW s, NEW t,
         NEW b \in 1..Len(h), h1[b] = h[b], BlockLaid(p, b, h, s),
         \A k \in 1..Len(h[b].fields) : Pending(b, k, s) => Pending(b, k, t)
  PROVE  BlockLaid(p, b, h1, t)
  BY WrapsKept DEF BlockLaid

(* The value of a field.                                                   *)
LEMMA SwitchStores ==
  ASSUME Switches, \A e \in Enumerator(prog, Top.node, Field) : Handled(Field[2], e)
  PROVE  /\ SwitchValue.how = IF Field[1] = "switch" THEN "one" ELSE "opt"
         /\ Enumerates(prog, Top.node, Field, SwitchValue.vs)
<1> DEFINE es == Enumerator(prog, Top.node, Field)
           e == CHOOSE v \in es : TRUE
           vs == IF es = {} THEN <<>> ELSE <<Const(SwitchTag(Field[2], e), e)>>
           how == IF Field[1] = "switch" THEN "one" ELSE "opt"
<1>1. SwitchValue = [how |-> how, vs |-> vs]
  BY Zenon DEF SwitchValue
<1>2. es # {} => e \in es
  <2> HIDE DEF es
  <2> QED OBVIOUS
<1>3. \A v \in es : Handled(Field[2], v)
  OBVIOUS
<1> HIDE DEF es, e
<1>4. \A i \in 1..Len(vs) : \E v \in es : Handled(Field[2], v) /\ vs[i] = Const(SwitchTag(Field[2], v), v)
  <2>1. CASE es = {}
    BY <2>1
  <2>2. CASE es # {}
    <3> DEFINE w == Const(SwitchTag(Field[2], e), e)
    <3>1. vs = <<w>> /\ e \in es /\ Handled(Field[2], e)
      BY <1>2, <1>3, <2>2
    <3> SUFFICES ASSUME NEW i \in 1..Len(vs) PROVE Handled(Field[2], e) /\ vs[i] = w
      BY <3>1
    <3> HIDE DEF w, vs
    <3> QED BY <3>1
  <2> QED BY <2>1, <2>2
<1> HIDE DEF vs, how
<1>5. SwitchValue.how = how /\ SwitchValue.vs = vs
  BY <1>1
<1>6. Enumerates(prog, Top.node, Field, vs)
  BY <1>4, Zenon DEF Enumerates, es
<1> QED BY <1>5, <1>6 DEF how

LEMMA ValueStored ==
  ASSUME Filling, Storable
  PROVE  StoredAs(prog, Top.node, Field, FieldValue)
<1>0. Field # Failwith /\ Uid[1] = "uid"
  BY DEF Storable, Uid
<1>1. CASE Translates
  <2>1. ~Switches /\ Field # Uid /\ Field[1] # "leaf"
    BY <1>0, <1>1 DEF Translates, Translating, Switches
  <2>2. FieldValue = [how |-> Field[1], vs |-> Top.got]
    BY <1>1, <2>1 DEF FieldValue
  <2> QED BY <1>0, <1>1, <2>1, <2>2 DEF StoredAs, Translates, Switches, Switching
<1>2. CASE ~Translates /\ Switches
  <2>1. FieldValue = SwitchValue
    BY <1>0, <1>2 DEF FieldValue, Switches
  <2>2. \A e \in Enumerator(prog, Top.node, Field) : Handled(Field[2], e)
    BY <1>2, Zenon DEF Storable
  <2>3. /\ SwitchValue.how = IF Field[1] = "switch" THEN "one" ELSE "opt"
        /\ Enumerates(prog, Top.node, Field, SwitchValue.vs)
    BY <1>2, <2>2, SwitchStores
  <2> QED BY <1>0, <1>2, <2>1, <2>3 DEF StoredAs, Translates, Switches, Switching
<1>3. CASE ~Translates /\ ~Switches
  <2>1. FieldValue.how = LeafOf(Field)
    <3>1. CASE Field = Uid
      BY <1>0, <1>3, <3>1 DEF FieldValue, LeafOf
    <3>2. CASE Field # Uid /\ Field[1] = "leaf"
      BY <1>3, <3>2 DEF FieldValue, LeafOf
    <3>3. CASE Field # Uid /\ Field[1] # "leaf"
      BY <1>3, <3>3 DEF FieldValue, LeafOf, Unset
    <3> QED BY <3>1, <3>2, <3>3
  <2> QED BY <1>0, <1>3, <2>1 DEF StoredAs, Translates, Switches, Switching
<1> QED BY <1>1, <1>2, <1>3

(* A call that begins: none of the fields of its block is reached.         *)
LEMMA BegunLay ==
  ASSUME IInv, LayInv, NEW fn \in Translators, NEW n, Regular(fn, Shape(fn, n)), Begun(fn, n),
         Shape(fn, n) # NoMatch, Shape(fn, n).how # "constant", status = "running"
  PROVE  LayInv'
<1> DEFINE b == Len(heap) + 1
           top == Len(stack)
           h == heap'
           st == stack'
           s == ShapeIn(prog, fn, n)
<1>1. /\ IsSeq(heap) /\ IsSeq(h) /\ Kept(heap, h) /\ Len(h) = b /\ Len(heap) \in Nat
      /\ \A a \in 1..Len(heap) : h[a] = heap[a]
  BY DEF Begun, IInv, HeapOK, IsSeq
<1>2. /\ h[b].fn = fn /\ h[b].node = n /\ h[b].part = PartOf(s) /\ h[b].ctor = s.cls /\ h[b].tag = TagIn(fn, s)
      /\ h[b].fields = [i \in 1..Len(s.fields) |-> Unset] /\ Len(s.fields) \in Nat
      /\ s # NoMatch /\ s.how # "constant"
  BY DEF Begun, Shape, Regular
<1>3. /\ IsSeq(stack) /\ top \in Nat /\ Len(st) = top + 1 /\ \A i \in 1..top : st[i] = stack[i]
      /\ st[top + 1].blk = b /\ st[top + 1].next = 1
  BY DEF Begun, IInv, FramesOK, IsSeq
<1>4. prog' = prog /\ status' # "done"
  BY DEF Begun
<1>5. \A a \in 1..Len(h) : a \in 1..Len(heap) \/ a = b
  BY <1>1
<1> HIDE DEF b, h, st, top
<1>6. BlockLaid(prog, b, h, st)
  <2>1. ShapeIn(prog, h[b].fn, h[b].node) = s
    BY <1>2
  <2> HIDE DEF s
  <2>2. Len(h[b].fields) = Len(s.fields)
    BY <1>2
  <2>3. MadeFor(prog, h[b]) /\ ~IsWrapper(prog, h[b])
    BY <1>2, <2>1, <2>2 DEF MadeFor, IsWrapper, PartOf, TagIn
  <2>4. \A k \in 1..Len(h[b].fields) : Pending(b, k, st)
    <3>1. top + 1 \in 1..Len(st)
      BY <1>3
    <3> QED BY <1>3, <3>1 DEF Pending
  <2> QED BY <2>3, <2>4 DEF BlockLaid
<1>7. \A a, k : Pending(a, k, stack) => Pending(a, k, st)
  BY <1>3 DEF Pending, top
<1>8. \A a \in 1..Len(heap) : BlockLaid(prog, a, heap, stack)
  BY DEF LayInv, Laid
<1>9. ASSUME NEW a \in 1..Len(heap) PROVE BlockLaid(prog, a, h, st)
  BY <1>1, <1>7, <1>8, LaidKept
<1>10. Laid(prog, h, st)
  BY <1>5, <1>6, <1>9 DEF Laid
<1> QED BY <1>4, <1>10 DEF LayInv, h, st

(* A call that gets a value stays where it is.                             *)
LEMMA GotLay ==
  ASSUME IInv, LayInv, Filling, NEW v, stack' = Got(v), UNCHANGED <<prog, heap, status>>
  PROVE  LayInv'
<1> DEFINE top == Len(stack)
           fr == Received(Top, v)
           st == stack'
<1>1. top \in 1..Len(stack) /\ IsSeq(stack) /\ Top = stack[top] /\ IsSeq(heap) /\ Len(heap) \in Nat
  BY TopIs, FieldIs DEF Top, IInv, HeapOK, IsSeq
<1>2. Replaced(st, stack, top, fr)
  <2>1. stack' = [stack EXCEPT ![top] = fr]
    BY DEF Got
  <2> HIDE DEF fr, st, top
  <2> QED BY <1>1, <2>1, ElementReplaced DEF st
<1>3. fr.blk = Top.blk /\ fr.next = Top.next
  BY DEF Received, Frame
<1>4. heap' = heap /\ prog' = prog /\ status' # "done"
  BY DEF Filling
<1> HIDE DEF fr, st
<1>5. \A a, k : Pending(a, k, stack) => Pending(a, k, st)
  BY <1>1, <1>2, <1>3 DEF Pending, Replaced
<1>6. Kept(heap, heap) /\ \A a \in 1..Len(heap) : BlockLaid(prog, a, heap, stack)
  BY <1>1 DEF LayInv, Laid, Kept
<1>7. ASSUME NEW a \in 1..Len(heap) PROVE BlockLaid(prog, a, heap, st)
  BY <1>1, <1>5, <1>6, LaidKept
<1> QED BY <1>4, <1>7 DEF LayInv, Laid, st

(* A field stored: the call that runs has no other business with it.       *)
LEMMA StoreFieldLay == ASSUME IInv, LayInv, StoreField PROVE LayInv'
<1> DEFINE k == Top.blk
           m == Top.next
           v == FieldValue
           e == WithField(heap[k], m, v)
           h == [heap EXCEPT ![k] = e]
           top == Len(stack)
           fr == Advanced(Top)
           st == stack'
           s == ShapeIn(prog, Top.fn, Top.node)
<1>1. /\ Filling /\ Storable /\ heap' = h /\ stack' = [stack EXCEPT ![top] = fr] /\ prog' = prog
      /\ status' # "done"
  BY DEF StoreField, Filling
<1>2. /\ FrameOK(prog, Top, heap) /\ m \in 1..Len(Top.fields) /\ Field = Top.fields[m]
      /\ top \in Nat /\ top \in 1..Len(stack) /\ IsSeq(stack) /\ Top = stack[top]
  BY <1>1, TopIs, FieldIs DEF Top
<1>3. /\ k \in 1..Len(heap) /\ heap[k].fn = Top.fn /\ heap[k].node = Top.node /\ Top.fields = s.fields
      /\ heap[k].part = PartOf(s)
      /\ Len(heap[k].fields) = Len(Top.fields) /\ IsSeq(heap) /\ IsSeq(heap[k].fields)
      /\ \A i \in 1..Len(stack) : stack[i].blk = k => i = top
  BY <1>2 DEF FrameOK, IInv, HeapOK, FramesOK
<1>4. HeapOK(h) /\ Kept(heap, h)
  BY <1>1, FieldStored
<1>5. StoredAs(prog, Top.node, Field, v)
  BY <1>1, ValueStored
<1>6. /\ e.fn = heap[k].fn /\ e.node = heap[k].node /\ e.part = heap[k].part /\ e.ctor = heap[k].ctor
      /\ e.tag = heap[k].tag /\ e.fields = [heap[k].fields EXCEPT ![m] = v]
  BY DEF WithField, Block
<1>7. fr.blk = k /\ fr.next = m + 1 /\ m \in Nat
  BY <1>2 DEF Advanced, Frame
<1>8. Top.blk = k /\ Top.next = m
  OBVIOUS
<1> HIDE DEF k, m, v, e
<1>9. Replaced(h, heap, k, e)
  BY <1>3, ElementReplaced
<1>10. Replaced(e.fields, heap[k].fields, m, v)
  BY <1>2, <1>3, <1>6, ElementReplaced
<1> HIDE DEF fr, h
<1>11. Replaced(st, stack, top, fr)
  BY <1>1, <1>2, ElementReplaced
<1> HIDE DEF st, s
<1>12. IsSeq(h) /\ Len(h) = Len(heap) /\ h[k] = e /\ \A a \in 1..Len(heap) : a # k => h[a] = heap[a]
  BY <1>3, <1>9 DEF Replaced
<1>13. /\ Len(e.fields) = Len(heap[k].fields) /\ e.fields[m] = v
       /\ \A l \in 1..Len(heap[k].fields) : l # m => e.fields[l] = heap[k].fields[l]
  BY <1>2, <1>3, <1>10 DEF Replaced
<1>14. \A a \in 1..Len(heap) : BlockLaid(prog, a, heap, stack)
  BY DEF LayInv, Laid
<1>15. \A i \in 1..Len(stack) : i \in 1..Len(st) /\ i # top => st[i] = stack[i]
  BY <1>11 DEF Replaced
<1>16. top \in 1..Len(st) /\ st[top] = fr /\ Len(st) = Len(stack)
  BY <1>2, <1>11 DEF Replaced
<1> HIDE DEF top
<1>17. ASSUME NEW a \in 1..Len(heap), a # k PROVE BlockLaid(prog, a, h, st)
  <2>1. \A l : Pending(a, l, stack) => Pending(a, l, st)
    BY <1>2, <1>8, <1>15, <1>16, <1>17 DEF Pending
  <2>2. h[a] = heap[a] /\ BlockLaid(prog, a, heap, stack)
    BY <1>12, <1>14, <1>17
  <2> QED BY <1>3, <1>4, <1>12, <2>1, <2>2, LaidKept
<1>18. BlockLaid(prog, k, h, st)
  <2>1. BlockLaid(prog, k, heap, stack)
    BY <1>3, <1>14
  <2>2. ShapeIn(prog, heap[k].fn, heap[k].node) = s /\ ShapeIn(prog, h[k].fn, h[k].node) = s
    BY <1>3, <1>6, <1>12 DEF s
  <2>3. ~IsWrapper(prog, heap[k]) /\ ~IsWrapper(prog, h[k])
    BY <1>3, <1>6, <1>12, <2>2 DEF IsWrapper, PartOf
  <2>4. MadeFor(prog, h[k])
    <3>1. MadeFor(prog, heap[k])
      BY <2>1 DEF BlockLaid
    <3>2. /\ h[k].fn = heap[k].fn /\ h[k].node = heap[k].node /\ h[k].part = heap[k].part
          /\ h[k].ctor = heap[k].ctor /\ h[k].tag = heap[k].tag /\ Len(h[k].fields) = Len(heap[k].fields)
      BY <1>6, <1>12, <1>13
    <3> QED BY <2>2, <2>3, <3>1, <3>2 DEF MadeFor
  <2>5. ASSUME NEW l \in 1..Len(h[k].fields) PROVE FieldDone(prog, h[k], l) \/ Pending(k, l, st)
    <3>1. l \in 1..Len(heap[k].fields) /\ h[k].fields[l] = e.fields[l] /\ h[k].node = Top.node
          /\ heap[k].node = Top.node /\ l \in Nat
      BY <1>3, <1>6, <1>12, <1>13
    <3>2. CASE l = m
      <4>1. h[k].fields[l] = v /\ s.fields[l] = Field
        BY <1>2, <1>3, <1>13, <3>1, <3>2
      <4> QED BY <1>5, <2>2, <3>1, <4>1 DEF FieldDone
    <3>3. CASE l # m
      <4>1. h[k].fields[l] = heap[k].fields[l]
        BY <1>13, <3>1, <3>3
      <4>2. FieldDone(prog, heap[k], l) \/ Pending(k, l, stack)
        BY <2>1, <2>3, <3>1 DEF BlockLaid
      <4>3. FieldDone(prog, heap[k], l) => FieldDone(prog, h[k], l)
        BY <2>2, <3>1, <4>1 DEF FieldDone
      <4>4. Pending(k, l, stack) => Pending(k, l, st)
        <5> SUFFICES ASSUME NEW i \in 1..Len(stack), stack[i].blk = k, stack[i].next <= l
                     PROVE  Pending(k, l, st)
          BY DEF Pending
        <5>1. i = top /\ m <= l
          BY <1>2, <1>3, <1>8
        <5>2. m + 1 <= l
          BY <1>7, <3>1, <3>3, <5>1
        <5> QED BY <1>7, <1>16, <5>2 DEF Pending
      <4> QED BY <4>2, <4>3, <4>4
    <3> QED BY <3>2, <3>3
  <2> QED BY <2>3, <2>4, <2>5 DEF BlockLaid
<1>19. Laid(prog, h, st)
  BY <1>12, <1>17, <1>18 DEF Laid
<1> QED BY <1>1, <1>19 DEF LayInv, st

(* A call that ends has stored all its fields, and is the one that fills   *)
(* the record its wrapper holds.                                           *)
LEMMA WrapperIs ==
  ASSUME NEW fn, NEW n, NEW b
  PROVE  LET w == Wrapper(fn, n, b) IN
         /\ w.fn = fn /\ w.node = n /\ w.part = "whole" /\ w.ctor = Shape(fn, n).cls
         /\ w.tag = BlockTag(fn, Shape(fn, n).cls)
         /\ w.fields = <<[how |-> "one", vs |-> <<Ref(b)>>]>>
  BY DEF Wrapper, Block

LEMMA WrapperLaid ==
  ASSUME IInv, LayInv, stack # <<>>, Indirectly, NEW s
  PROVE  BlockLaid(prog, Len(heap) + 1, ReturnHeap, s)
<1> DEFINE b == Len(heap) + 1
           k == Top.blk
           w == Wrapper(Top.fn, Top.node, k)
           h == ReturnHeap
           sh == ShapeIn(prog, Top.fn, Top.node)
<1>1. FrameOK(prog, Top, heap) /\ IsSeq(heap) /\ Len(heap) \in Nat
  BY TopIs DEF IInv, HeapOK, IsSeq
<1>2. /\ k \in 1..Len(heap) /\ heap[k].fn = Top.fn /\ heap[k].node = Top.node /\ heap[k].part = "argument"
      /\ heap[k].part = PartOf(sh)
  BY <1>1 DEF FrameOK, Indirectly
<1>3. /\ MadeFor(prog, heap[k])
  BY <1>2 DEF LayInv, Laid, BlockLaid
<1>4. /\ w.fn = Top.fn /\ w.node = Top.node /\ w.part = "whole" /\ w.ctor = sh.cls
      /\ w.tag = BlockTag(Top.fn, sh.cls) /\ w.fields = <<[how |-> "one", vs |-> <<Ref(k)>>]>>
  BY WrapperIs DEF Shape
<1>5. h = Append(heap, w)
  BY DEF ReturnHeap
<1> HIDE DEF k, w, h
<1>6. Len(h) = b /\ h[b] = w /\ \A a \in 1..Len(heap) : h[a] = heap[a]
  BY <1>1, <1>5, AppendFacts
<1>7. ShapeIn(prog, heap[k].fn, heap[k].node) = sh /\ ShapeIn(prog, w.fn, w.node) = sh
  BY <1>2, <1>4
<1> HIDE DEF sh
<1>8. Top.fn \in Translators /\ sh # NoMatch /\ sh.how = "indirect" /\ heap[k].ctor = sh.cls
  <2>1. sh.how = "indirect"
    BY <1>2 DEF PartOf
  <2> QED BY <1>2, <1>3, <1>7, <2>1 DEF MadeFor
<1>9. IsWrapper(prog, w)
  BY <1>4, <1>7, <1>8 DEF IsWrapper
<1>10. MadeFor(prog, w)
  BY <1>4, <1>7, <1>8, <1>9 DEF MadeFor
<1>11. Wraps(w, h)
  <2>1. k \in 1..Len(h) /\ h[k] = heap[k]
    BY <1>1, <1>2, <1>6
  <2> QED BY <1>2, <1>4, <1>8, <2>1 DEF Wraps
<1> QED BY <1>6, <1>9, <1>10, <1>11 DEF BlockLaid, h

LEMMA ReturnLay == ASSUME IInv, LayInv, Return PROVE LayInv'
<1> DEFINE up == Len(stack) - 1
           top == Len(stack)
           h == ReturnHeap
           v == Returned
           st == stack'
<1>1. /\ stack # <<>> /\ heap' = h /\ prog' = prog /\ Top.next > Len(Top.fields) /\ status = "running"
      /\ up = 0 => st = <<>>
      /\ up # 0 => st = Popped(stack, v) /\ status' # "done"
  BY DEF Return, ReturnHeap, Popped, Fields
<1>2. /\ HeapOK(h) /\ IsSeq(h) /\ Kept(heap, h) /\ \A a \in 1..Len(heap) : h[a] = heap[a]
      /\ Len(h) = IF Indirectly THEN Len(heap) + 1 ELSE Len(heap)
  BY <1>1, ReturnedIs DEF HeapOK
<1>3. /\ top \in Nat /\ top >= 1 /\ Top = stack[top] /\ FrameOK(prog, Top, heap)
      /\ FramesOK(prog, stack, heap) /\ IsSeq(heap) /\ Len(heap) \in Nat
  BY <1>1, TopIs DEF IInv, HeapOK, IsSeq, Top
<1>4. Indirectly => BlockLaid(prog, Len(heap) + 1, h, st)
  BY <1>1, WrapperLaid
<1>5. \A a \in 1..Len(heap) : BlockLaid(prog, a, heap, stack)
  BY DEF LayInv, Laid
<1>6. /\ Top.blk \in 1..Len(heap) /\ Len(heap[Top.blk].fields) = Len(Top.fields)
      /\ Len(Top.fields) \in Nat /\ Top.next \in Nat
  BY <1>3 DEF FrameOK, Regular
<1> HIDE DEF h, v, st
<1>7. up = 0 \/ (/\ up >= 1 /\ up \in Nat /\ top = up + 1 /\ Len(st) = up
                 /\ \A i \in 1..up : st[i].blk = stack[i].blk /\ st[i].next = stack[i].next)
  <2> SUFFICES ASSUME up # 0
               PROVE  /\ up >= 1 /\ up \in Nat /\ top = up + 1 /\ Len(st) = up
                      /\ \A i \in 1..up : st[i].blk = stack[i].blk /\ st[i].next = stack[i].next
    OBVIOUS
  <2>1. up >= 1 /\ up = Len(stack) - 1 /\ up \in Nat /\ top = up + 1
    <3>1. ASSUME NEW l \in Nat, l >= 1, l - 1 # 0 PROVE l - 1 >= 1 /\ l - 1 \in Nat /\ l = (l - 1) + 1
      BY <3>1
    <3> QED BY <1>3, <3>1
  <2>2. st = Popped(stack, v)
    BY <1>1
  <2> DEFINE fr == Received(stack[up], v)
  <2>3. Len(st) = up /\ st[up] = fr /\ \A i \in 1..up : i # up => st[i] = stack[i]
    <3>1. FramesOK(prog, stack, heap) /\ Len(stack) - 1 >= 1
      BY <1>3, <2>1
    <3>2. /\ Len(Popped(stack, v)) = Len(stack) - 1
          /\ Popped(stack, v)[Len(stack) - 1] = Received(stack[Len(stack) - 1], v)
          /\ \A i \in 1..(Len(stack) - 1) : i # Len(stack) - 1 => Popped(stack, v)[i] = stack[i]
      BY <3>1, PoppedOK
    <3> QED BY <2>2, <3>2
  <2>4. fr.blk = stack[up].blk /\ fr.next = stack[up].next
    BY DEF Received, Frame
  <2> HIDE DEF fr, up, top
  <2> QED BY <2>1, <2>3, <2>4
<1>8. ASSUME NEW a \in 1..Len(heap), NEW l \in 1..Len(heap[a].fields), Pending(a, l, stack)
      PROVE  Pending(a, l, st)
  <2>1. PICK i \in 1..Len(stack) : stack[i].blk = a /\ stack[i].next <= l
    BY <1>8 DEF Pending
  <2>2. i # top
    <3> SUFFICES ASSUME i = top PROVE FALSE
      OBVIOUS
    <3>1. Top.blk = a /\ Top.next <= l /\ l <= Len(Top.fields) /\ l \in Nat
      BY <1>3, <1>6, <2>1
    <3> QED BY <1>1, <1>6, <3>1
  <2>3. up # 0
    BY <1>3, <2>1, <2>2
  <2>4. i \in 1..up
    BY <1>3, <2>1, <2>2
  <2> HIDE DEF up, top
  <2> QED BY <1>7, <2>1, <2>3, <2>4 DEF Pending
<1> HIDE DEF up, top
<1>9. ASSUME NEW a \in 1..Len(heap) PROVE BlockLaid(prog, a, h, st)
  BY <1>2, <1>3, <1>5, <1>8, LaidKept
<1>10. \A a \in 1..Len(h) : a \in 1..Len(heap) \/ (Indirectly /\ a = Len(heap) + 1)
  BY <1>2, <1>3
<1>11. Laid(prog, h, st)
  BY <1>4, <1>9, <1>10 DEF Laid
<1>12. status' = "done" => stack' = <<>>
  BY <1>1 DEF st
<1> QED BY <1>1, <1>11, <1>12 DEF LayInv, h, st

LEMMA NextLay == IInv /\ LayInv /\ [Next]_vars => LayInv'
<1> SUFFICES ASSUME IInv, LayInv, [Next]_vars PROVE LayInv'
  OBVIOUS
<1>1. CASE HandleTranslationUnit
  <2> DEFINE n == Root(prog)
  <2>1. /\ "Decl" \in Translators /\ Begun("Decl", n) /\ Regular("Decl", Shape("Decl", n))
        /\ status = "running"
    BY <1>1, HandleBegins, DeclBegins, Zenon
  <2>2. Shape("Decl", n) # NoMatch /\ Shape("Decl", n).how # "constant"
    <3>1. "Decl" \in DOMAIN Records
      BY TablesAssumption
    <3>2. Shape("Decl", n).how = "direct" /\ NoMatch.how = "constant"
      BY <3>1, Zenon DEF Shape, ShapeIn, Node, NoMatch, Constant
    <3> HIDE DEF n
    <3> QED BY <3>2
  <2> HIDE DEF n
  <2> QED BY <2>1, <2>2, BegunLay
<1>2. CASE Miss
  <2>1. CASE Stop("overflow")
    BY <2>1 DEF Stop, LayInv
  <2>2. CASE ~Stop("overflow")
    <3> DEFINE fn == Callee
               n == Arg
    <3>1. /\ Begun(fn, n) /\ fn \in Translators /\ Regular(fn, Shape(fn, n)) /\ status = "running"
      BY <1>2, <2>2, MissBegins
    <3>2. Shape(fn, n).how # "constant"
      BY <1>2 DEF Miss
    <3> HIDE DEF fn, n
    <3>3. Shape(fn, n) # NoMatch
      <4>1. NoMatch.how = "constant"
        BY DEF NoMatch, Constant
      <4> QED BY <3>2, <4>1
    <3> QED BY <3>1, <3>2, <3>3, BegunLay
  <2> QED BY <2>1, <2>2
<1>3. CASE Hit
  <2>1. /\ Filling /\ stack' = Got(Get(CacheOf(Callee), Arg)) /\ UNCHANGED <<prog, heap, status>>
    BY <1>3 DEF Hit, Calling
  <2> QED BY <2>1, GotLay
<1>4. CASE ConstantKind
  <2> DEFINE c == Shape(Callee, Arg).cls
             v == Const(TagOf(ConstantTags(Callee), c), c)
  <2>1. Filling /\ stack' = Got(v) /\ UNCHANGED <<prog, heap, status>>
    BY <1>4 DEF ConstantKind, Calling
  <2> HIDE DEF v
  <2> QED BY <2>1, GotLay
<1>5. CASE StoreField
  BY <1>5, StoreFieldLay
<1>6. CASE Return
  BY <1>6, ReturnLay
<1>7. CASE Raise \/ Abort
  <2>1. UNCHANGED <<prog, heap, stack>> /\ status' # "done"
    BY <1>7, Zenon DEF Raise, Abort, Stop
  <2> QED BY <2>1 DEF LayInv
<1>8. CASE UNCHANGED vars
  BY <1>8 DEF LayInv, vars
<1> QED BY <1>1, <1>2, <1>3, <1>4, <1>5, <1>6, <1>7, <1>8 DEF Next, Step, Ended

(* Without calls under way nothing is pending: the fields of a block are   *)
(* those of the table, which agrees with the OCaml type.                   *)
LEMMA AgreeingIsSeparate == AgreeingPrograms => OneTranslator
  BY Zenon DEF AgreeingPrograms, OneTranslator

LEMMA BlockAgreeing ==
  ASSUME AgreeingPrograms, IInv, FaithInv, NEW b \in 1..Len(heap), MadeFor(prog, heap[b])
  PROVE  LET s == ShapeIn(prog, heap[b].fn, heap[b].node) IN
         /\ ShapeAgrees(heap[b].fn, s)
         /\ \A k \in 1..Len(s.fields) : Switching(s.fields[k]) =>
               Enumerator(prog, heap[b].node, s.fields[k]) \cap Misnamed = {}
<1> DEFINE fn == heap[b].fn
           n == heap[b].node
           s == ShapeIn(prog, fn, n)
           r == <<fn, n>>
<1>1. fn \in Translators /\ s # NoMatch
  BY DEF MadeFor
<1>2. s \in ShapesOf(fn)
  BY <1>1, ShapeIs
<1>3. Agreeing(prog, AskedOf(prog))
  BY AgreeingIsSeparate, AskedIs DEF IInv
<1>4. r \in AskedOf(prog) /\ r[1] = fn /\ r[2] = n
  BY DEF FaithInv, FaithIn, BlocksAsked
<1>5. LET t == ShapeIn(prog, r[1], r[2]) IN
      /\ <<r[1], t.cls>> \notin Disagreeing
      /\ \A k \in 1..Len(t.fields) : Switching(t.fields[k]) =>
            Enumerator(prog, r[2], t.fields[k]) \cap Misnamed = {}
  BY <1>3, <1>4, Zenon DEF Agreeing
<1> HIDE DEF r
<1>6. /\ <<fn, s.cls>> \notin Disagreeing
      /\ \A k \in 1..Len(s.fields) : Switching(s.fields[k]) =>
            Enumerator(prog, n, s.fields[k]) \cap Misnamed = {}
  BY <1>4, <1>5, Zenon
<1> HIDE DEF s, fn, n
<1>7. ShapeAgrees(fn, s)
  BY <1>1, <1>2, <1>6, LayoutAssumption
<1> QED BY <1>6, <1>7, Zenon DEF s, fn, n

(* What stands for a node has the type of its translator.                  *)
LEMMA ConstantAgrees ==
  ASSUME AgreeingPrograms, IInv, NEW v, NEW fn \in Translators, NEW n, ConstantFor(prog, v, fn, n)
  PROVE  IsConstantOf(OCamlType[fn], v[2], v[3])
<1> DEFINE s == ShapeIn(prog, fn, n)
           tag == TagOf(ConstantTags(fn), s.cls)
           r == <<fn, n>>
<1>1. s # NoMatch /\ s.how = "constant" /\ v = Const(tag, s.cls) /\ r \in AskedOf(prog)
  BY DEF ConstantFor
<1>2. s \in ShapesOf(fn)
  BY <1>1, ShapeIs
<1>3. Agreeing(prog, AskedOf(prog))
  BY AgreeingIsSeparate, AskedIs DEF IInv
<1>4. <<r[1], ShapeIn(prog, r[1], r[2]).cls>> \notin Disagreeing
  BY <1>1, <1>3, Zenon DEF Agreeing
<1>5. r[1] = fn /\ r[2] = n
  OBVIOUS
<1> HIDE DEF r, tag
<1>6. <<fn, s.cls>> \notin Disagreeing
  BY <1>4, <1>5
<1> HIDE DEF s
<1>7. ShapeAgrees(fn, s)
  BY <1>2, <1>6, LayoutAssumption
<1>8. IsConstantOf(OCamlType[fn], tag, s.cls)
  BY <1>1, <1>7 DEF ShapeAgrees, tag
<1>9. v[2] = tag /\ v[3] = s.cls
  BY <1>1 DEF Const
<1> QED BY <1>8, <1>9

LEMMA StandingTyped ==
  ASSUME AgreeingPrograms, IInv, NEW v, NEW fn \in Translators, NEW n, Stands(prog, v, fn, n, heap)
  PROVE  HasType(v, OCamlType[fn])
<1>1. CASE v[1] = "ref"
  BY <1>1 DEF Stands, HasType, TypeOf
<1>2. CASE v[1] # "ref"
  BY <1>2, ConstantAgrees DEF Stands, HasType
<1> QED BY <1>1, <1>2

(* What an enumeration gives has the type of its switch.                   *)
LEMMA SwitchTyped ==
  ASSUME NEW n, NEW f, f[2] \in DOMAIN SwitchTags, Enumerator(prog, n, f) \cap Misnamed = {},
         NEW vs, Enumerates(prog, n, f, vs), NEW i \in 1..Len(vs)
  PROVE  HasType(vs[i], f[2])
<1> DEFINE es == Enumerator(prog, n, f)
           sw == f[2]
           names == SwitchTags[sw]
<1>1. PICK e \in es : Handled(sw, e) /\ vs[i] = Const(SwitchTag(sw, e), e)
  BY Zenon DEF Enumerates
<1>2. e \notin Misnamed
  <2> HIDE DEF es
  <2> QED BY <1>1 DEF es
<1>3. PICK j \in 1..Len(names) : names[j] = e
  BY <1>1 DEF Handled, InTags
<1>4. IsConstantOf(sw, SwitchTag(sw, names[j]), names[j])
  BY <1>2, <1>3, LayoutAssumption
<1> HIDE DEF es, sw, names
<1>5. vs[i][1] = "imm" /\ vs[i][2] = SwitchTag(sw, e) /\ vs[i][3] = e
  BY <1>1 DEF Const
<1>6. HasType(vs[i], sw)
  BY <1>3, <1>4, <1>5 DEF HasType
<1> QED BY <1>6 DEF sw

(* A field stored as its table says has the type its table agrees with.    *)
LEMMA FieldTyped ==
  ASSUME AgreeingPrograms, IInv, NEW n, NEW f, NEW s, NEW v, StoredAs(prog, n, f, v), FieldAgrees(f, s),
         Switching(f) => Enumerator(prog, n, f) \cap Misnamed = {},
         Translating(f) => /\ Target(f[2]) \in Translators
                           /\ \E ns : AllStand(prog, v.vs, Target(f[2]), ns, heap)
  PROVE  FieldConforms(v, s)
<1>1. CASE Translating(f)
  <2> DEFINE t == OCamlType[Target(f[2])]
  <2>1. v.how = f[1] /\ s = <<f[1], t>>
    BY <1>1 DEF StoredAs, FieldAgrees
  <2>2. PICK ns : AllStand(prog, v.vs, Target(f[2]), ns, heap)
    BY <1>1
  <2>3. \A i \in 1..Len(v.vs) : HasType(v.vs[i], t)
    BY <1>1, <2>2, StandingTyped DEF AllStand
  <2>4. f[1] # "leaf" /\ f[1] # "unit"
    BY <1>1 DEF Translating
  <2> HIDE DEF t
  <2>5. s[1] = f[1] /\ s[2] = t
    BY <2>1
  <2> QED BY <2>1, <2>3, <2>4, <2>5 DEF FieldConforms
<1>2. CASE ~Translating(f) /\ Switching(f)
  <2> DEFINE how == IF f[1] = "switch" THEN "one" ELSE "opt"
  <2>1. /\ v.how = how /\ Enumerates(prog, n, f, v.vs)
    BY <1>2 DEF StoredAs
  <2>2. f[2] \in DOMAIN SwitchTags /\ s = <<how, f[2]>>
    BY <1>2 DEF FieldAgrees
  <2>3. \A i \in 1..Len(v.vs) : HasType(v.vs[i], f[2])
    BY <1>2, <2>1, <2>2, SwitchTyped
  <2>4. how # "leaf" /\ how # "unit"
    OBVIOUS
  <2> HIDE DEF how
  <2>5. s[1] = how /\ s[2] = f[2]
    BY <2>2
  <2> QED BY <2>1, <2>3, <2>4, <2>5 DEF FieldConforms
<1>3. CASE ~Translating(f) /\ ~Switching(f)
  <2>1. v.how = LeafOf(f) /\ f # Failwith
    BY <1>3 DEF StoredAs
  <2>2. CASE f = Uid
    BY <1>3, <2>1, <2>2 DEF FieldAgrees, FieldConforms, LeafConforms, LeafOf, Imm, Leaf
  <2>3. CASE f # Uid /\ f[1] = "leaf"
    BY <1>3, <2>1, <2>3 DEF FieldAgrees, FieldConforms, LeafOf
  <2>4. CASE f # Uid /\ f[1] # "leaf"
    BY <1>3, <2>1, <2>4 DEF FieldAgrees, FieldConforms, LeafOf
  <2> QED BY <2>2, <2>3, <2>4
<1> QED BY <1>1, <1>2, <1>3

LEMMA StoredFieldTyped ==
  ASSUME AgreeingPrograms, IInv, FaithInv, NEW b \in 1..Len(heap), MadeFor(prog, heap[b]),
         ~IsWrapper(prog, heap[b]), NEW k \in 1..Len(heap[b].fields), FieldDone(prog, heap[b], k), NEW c,
         FieldAgrees(ShapeIn(prog, heap[b].fn, heap[b].node).fields[k], c)
  PROVE  FieldConforms(heap[b].fields[k], c)
<1> DEFINE e == heap[b]
           s == ShapeIn(prog, e.fn, e.node)
           f == s.fields[k]
           v == e.fields[k]
<1>1. k \in 1..Len(s.fields) /\ s # NoMatch /\ e.fn \in Translators
  BY DEF MadeFor
<1>2. StoredAs(prog, e.node, f, v)
  BY DEF FieldDone
<1>3. Switching(f) => Enumerator(prog, e.node, f) \cap Misnamed = {}
  BY <1>1, BlockAgreeing, Zenon
<1>4. ASSUME Translating(f) PROVE Target(f[2]) \in Translators
  <2>1. Regular(e.fn, s)
    BY <1>1, ShapeIs
  <2> HIDE DEF s
  <2> QED BY <1>1, <1>4, <2>1 DEF Regular
<1>5. ASSUME Translating(f) PROVE \E ns : AllStand(prog, v.vs, Target(f[2]), ns, heap)
  <2>1. v.how = f[1] /\ f[1] # "unit"
    BY <1>2, <1>5 DEF StoredAs, Translating
  <2>2. v # Unset
    BY <2>1 DEF Unset
  <2>3. k \in FilledIn(prog, e)
    BY <1>1, <1>5, <2>2 DEF FilledIn, IsWrapper
  <2>4. FaithfulAt(prog, e, k, heap)
    BY <2>3 DEF FaithInv, FaithIn, Faithful
  <2> QED BY <2>4, Zenon DEF FaithfulAt
<1>6. FieldAgrees(f, c)
  OBVIOUS
<1> HIDE DEF f, v
<1>7. FieldConforms(v, c)
  BY <1>2, <1>3, <1>4, <1>5, <1>6, FieldTyped
<1> QED BY <1>7 DEF v

(* A block whose fields all hold what their translators store.             *)
LEMMA BlockTyped ==
  ASSUME AgreeingPrograms, IInv, FaithInv, NEW b \in 1..Len(heap), MadeFor(prog, heap[b]),
         ~IsWrapper(prog, heap[b]), \A k \in 1..Len(heap[b].fields) : FieldDone(prog, heap[b], k)
  PROVE  BlockConforms(heap[b])
<1> DEFINE e == heap[b]
           s == ShapeIn(prog, e.fn, e.node)
           t == TypeOf(e)
<1>1. /\ e.ctor = s.cls /\ s.how # "constant" /\ Len(e.fields) = Len(s.fields) /\ IsSeq(e.fields)
      /\ e.part = "whole" \/ (e.part = "argument" /\ s.how = "indirect")
      /\ e.tag = IF e.part = "whole" THEN BlockTag(e.fn, s.cls) ELSE 0
  BY DEF MadeFor, IInv, HeapOK
<1>2. ShapeAgrees(e.fn, s)
  BY BlockAgreeing, Zenon
<1>3. BlockAgrees(t, e.tag, s.cls, s.fields)
  <2>1. CASE e.part = "whole"
    <3>1. s.how # "indirect"
      BY <2>1 DEF IsWrapper
    <3> DEFINE u == OCamlType[e.fn]
               tag == BlockTag(e.fn, s.cls)
    <3>2. BlockAgrees(u, tag, s.cls, s.fields)
      BY <1>1, <1>2, <3>1 DEF ShapeAgrees
    <3>3. t = u /\ e.tag = tag
      BY <1>1, <2>1 DEF TypeOf
    <3> HIDE DEF t, u, tag
    <3> QED BY <3>2, <3>3
  <2>2. CASE e.part # "whole"
    <3>1. s.how = "indirect" /\ e.tag = 0
      BY <1>1, <2>2
    <3> DEFINE u == Argument(e.fn, s.cls)
    <3>2. BlockAgrees(u, 0, s.cls, s.fields)
      BY <1>2, <3>1 DEF ShapeAgrees
    <3>3. t = u
      BY <1>1, <2>2 DEF TypeOf
    <3> HIDE DEF t, u
    <3> QED BY <3>1, <3>2, <3>3
  <2> QED BY <2>1, <2>2
<1>4. PICK i \in Variants(t, e.tag) :
        LET c == Schema[t].blocks[i] IN
        /\ c.ctor = "record" \/ c.ctor = OCamlName(s.cls)
        /\ Len(c.fields) <= Len(s.fields)
        /\ \A k \in 1..Len(c.fields) : FieldAgrees(s.fields[k], c.fields[k])
  BY <1>3, Zenon DEF BlockAgrees
<1> DEFINE c == Schema[t].blocks[i]
<1>5. /\ c.ctor = "record" \/ c.ctor = OCamlName(e.ctor)
      /\ Len(c.fields) <= Len(e.fields)
      /\ \A k \in 1..Len(c.fields) : FieldAgrees(s.fields[k], c.fields[k])
  BY <1>1, <1>4
<1>6. ASSUME NEW k \in 1..Len(c.fields) PROVE FieldConforms(e.fields[k], c.fields[k])
  <2>1. k \in 1..Len(e.fields)
    <3> HIDE DEF e, c
    <3> QED BY <1>1, <1>5 DEF IsSeq
  <2>2. FieldDone(prog, e, k)
    BY <2>1
  <2>3. FieldAgrees(s.fields[k], c.fields[k])
    BY <1>5
  <2> HIDE DEF c
  <2> QED BY <2>1, <2>2, <2>3, StoredFieldTyped
<1> QED BY <1>4, <1>5, <1>6, Zenon DEF BlockConforms

(* The wrapper of an indirect constructor holds its record.                *)
LEMMA WrapperTyped ==
  ASSUME AgreeingPrograms, IInv, FaithInv, NEW b \in 1..Len(heap), MadeFor(prog, heap[b]),
         IsWrapper(prog, heap[b]), Wraps(heap[b], heap)
  PROVE  BlockConforms(heap[b])
<1> DEFINE e == heap[b]
           s == ShapeIn(prog, e.fn, e.node)
           t == TypeOf(e)
           arg == Argument(e.fn, s.cls)
<1>1. e.ctor = s.cls /\ s.how = "indirect" /\ e.part = "whole" /\ e.tag = BlockTag(e.fn, s.cls)
  BY DEF MadeFor, IsWrapper
<1>2. ShapeAgrees(e.fn, s)
  BY BlockAgreeing, Zenon
<1>3. WrapperAgrees(t, e.tag, s.cls, arg)
  <2> DEFINE u == OCamlType[e.fn]
             tag == BlockTag(e.fn, s.cls)
  <2>1. WrapperAgrees(u, tag, s.cls, arg)
    BY <1>1, <1>2 DEF ShapeAgrees
  <2>2. t = u /\ e.tag = tag
    BY <1>1 DEF TypeOf
  <2> HIDE DEF t, u, tag, arg
  <2> QED BY <2>1, <2>2
<1>4. PICK i \in Variants(t, e.tag) :
        LET c == Schema[t].blocks[i] IN (c.ctor = "record" \/ c.ctor = OCamlName(s.cls)) /\ c.fields = <<T(arg)>>
  BY <1>3, Zenon DEF WrapperAgrees
<1> DEFINE c == Schema[t].blocks[i]
<1>5. (c.ctor = "record" \/ c.ctor = OCamlName(e.ctor)) /\ c.fields = <<T(arg)>>
  BY <1>1, <1>4
<1>6. PICK a \in 1..Len(heap) : /\ e.fields = <<[how |-> "one", vs |-> <<Ref(a)>>]>>
                                /\ heap[a].fn = e.fn /\ heap[a].ctor = e.ctor /\ heap[a].part = "argument"
  BY DEF Wraps
<1>7. HasType(Ref(a), arg)
  <2>1. TypeOf(heap[a]) = arg
    BY <1>1, <1>6 DEF TypeOf
  <2> HIDE DEF arg
  <2> QED BY <2>1 DEF HasType, Ref
<1> DEFINE v == [how |-> "one", vs |-> <<Ref(a)>>]
<1>8. FieldConforms(v, T(arg))
  <2> DEFINE w == Ref(a)
  <2>1. v.how = "one" /\ v.vs = <<w>>
    OBVIOUS
  <2>2. HasType(w, arg)
    BY <1>7
  <2> HIDE DEF v, arg, w
  <2>3. \A j \in 1..Len(v.vs) : HasType(v.vs[j], arg)
    BY <2>1, <2>2
  <2> QED BY <2>1, <2>3 DEF FieldConforms, T
<1> HIDE DEF arg, v, c
<1>9. /\ Len(c.fields) <= Len(e.fields)
      /\ \A k \in 1..Len(c.fields) : FieldConforms(e.fields[k], c.fields[k])
  <2>1. c.fields = <<T(arg)>> /\ e.fields = <<v>>
    BY <1>5, <1>6 DEF v
  <2> HIDE DEF e
  <2> QED BY <1>8, <2>1
<1> QED BY <1>4, <1>5, <1>9, Zenon DEF BlockConforms, c

LEMMA LayoutFollows == AgreeingPrograms /\ IInv /\ FaithInv /\ LayInv => LayoutAgrees
<1> SUFFICES ASSUME AgreeingPrograms, IInv, FaithInv, LayInv, status = "done", NEW b \in 1..Len(heap)
             PROVE  BlockConforms(heap[b])
  BY DEF LayoutAgrees
<1>1. MadeFor(prog, heap[b]) /\ (IsWrapper(prog, heap[b]) => Wraps(heap[b], heap))
  BY DEF LayInv, Laid, BlockLaid
<1>2. CASE IsWrapper(prog, heap[b])
  BY <1>1, <1>2, WrapperTyped
<1>3. CASE ~IsWrapper(prog, heap[b])
  <2>1. \A k : ~Pending(b, k, stack)
    <3>1. stack = <<>>
      BY DEF LayInv
    <3> QED BY <3>1 DEF Pending
  <2>2. \A k \in 1..Len(heap[b].fields) : FieldDone(prog, heap[b], k)
    BY <1>3, <2>1 DEF LayInv, Laid, BlockLaid
  <2> QED BY <1>1, <1>3, <2>2, BlockTyped
<1> QED BY <1>2, <1>3

(* What OCaml receives has, at every place, the tag and the fields its     *)
(* type gives it, whatever the shape of the tree: the wrappers of the      *)
(* indirect constructors hold their record, no field is left out and none  *)
(* holds the translation of another translator, as long as no node is of   *)
(* a class for which the tables themselves disagree.                       *)
THEOREM LayoutIsRight == AgreeingPrograms /\ Spec => []LayoutAgrees
<1> SUFFICES ASSUME AgreeingPrograms PROVE Spec => []LayoutAgrees
  OBVIOUS
<1>1. Init => FaithInv /\ LayInv
  <2> SUFFICES ASSUME Init PROVE FaithInv /\ LayInv
    OBVIOUS
  <2>1. Len(heap) = 0 /\ Len(stack) = 0 /\ status = "running"
    BY DEF Init
  <2> QED BY <2>1 DEF FaithInv, FaithIn, Faithful, BlocksAsked, Linked, LayInv, Laid
<1>2. IInv /\ FaithInv /\ LayInv /\ [Next]_vars => (FaithInv /\ LayInv)'
  BY NextFaith, NextLay, AgreeingIsSeparate
<1>3. IInv /\ FaithInv /\ LayInv => LayoutAgrees
  BY LayoutFollows
<1> QED BY <1>1, <1>2, <1>3, InvHolds, PTL DEF Spec

----------------------------------------------------------------------------
(* The depth of the calls.                                                 *)
(*                                                                         *)
(* What the hypothesis gives for a program.                                *)
FitOf(p)    == CHOOSE t : t[3] \in Nat /\ Fits(p, t[1], t[2], t[3])
Reached(p)  == FitOf(p)[1]
HeightIn(p) == FitOf(p)[2]
MostIn(p)   == FitOf(p)[3]
SharersIn(p) == {r \in Reached(p) : SharesBlocks(r[1])}

(* A call is as deep as the calls below it that share their block allow,   *)
(* and leaves room for those that may follow before the next of them.      *)
Pair(fr) == <<fr.fn, fr.node>>
Sharers(s, i) == {Pair(s[j]) : j \in {l \in 1..i : SharesBlocks(s[l].fn)}}
DepthAt(p, s, i) ==
  /\ Pair(s[i]) \in Reached(p)
  /\ i + HeightIn(p)[Pair(s[i])] <= Cardinality(Sharers(s, i)) * (MostIn(p) + 1)
DepthInv == status # "overflow" /\ \A i \in 1..Len(stack) : DepthAt(prog, stack, i)

LEMMA FitIs ==
  ASSUME FittingPrograms, NEW p \in Programs
  PROVE  MostIn(p) \in Nat /\ Fits(p, Reached(p), HeightIn(p), MostIn(p))
<1> DEFINE Wanted(t) == t[3] \in Nat /\ Fits(p, t[1], t[2], t[3])
<1>1. PICK asked, height : \E most \in Nat : Fits(p, asked, height, most)
  BY Zenon DEF FittingPrograms
<1>2. PICK most \in Nat : Fits(p, asked, height, most)
  BY <1>1
<1>3. \E t : Wanted(t)
  <2> DEFINE u == <<asked, height, most>>
  <2>1. u[1] = asked /\ u[2] = height /\ u[3] = most
    OBVIOUS
  <2> HIDE DEF u
  <2>2. Wanted(u)
    BY <1>2, <2>1
  <2> HIDE DEF Wanted
  <2> QED BY <2>2
<1>4. FitOf(p) = CHOOSE t : Wanted(t)
  BY DEF FitOf
<1> HIDE DEF Wanted
<1>5. Wanted(FitOf(p))
  BY <1>3, <1>4
<1> QED BY <1>5 DEF Wanted, Reached, HeightIn, MostIn

LEMMA RoomForNext ==
  ASSUME NEW i \in Nat, NEW c \in Nat, NEW most \in Nat, NEW h1 \in 0..most
  PROVE  /\ \A h0 \in Nat : i + h0 <= c * (most + 1) => (i + 1) + h1 <= (c + 1) * (most + 1)
         /\ \A h0 \in Nat : i + h0 <= c * (most + 1) /\ h1 < h0 => (i + 1) + h1 <= c * (most + 1)
         /\ \A d \in Nat : c <= d => c * (most + 1) <= d * (most + 1)
<1>1. (c + 1) * (most + 1) = c * (most + 1) + (most + 1)
  OBVIOUS
<1> DEFINE room == c * (most + 1)
<1>2. room \in Nat
  OBVIOUS
<1>3. \A d \in Nat : c <= d => room <= d * (most + 1)
  <2> SUFFICES ASSUME NEW d \in Nat, c <= d PROVE c * (most + 1) <= d * (most + 1)
    OBVIOUS
  <2>1. d - c \in Nat /\ (d - c) * (most + 1) \in Nat
    OBVIOUS
  <2>2. d * (most + 1) = c * (most + 1) + (d - c) * (most + 1)
    OBVIOUS
  <2> QED BY <1>2, <2>1, <2>2
<1> HIDE DEF room
<1> QED BY <1>1, <1>2, <1>3 DEF room

(* The calls under way, as far as they are for the same nodes.             *)
LEMMA SharersKept ==
  ASSUME NEW s, NEW t, NEW n \in Nat, \A i \in 1..n : t[i].fn = s[i].fn /\ t[i].node = s[i].node, NEW i \in 1..n
  PROVE  Sharers(t, i) = Sharers(s, i) /\ Pair(t[i]) = Pair(s[i])
<1>1. \A j \in 1..i : t[j].fn = s[j].fn /\ Pair(t[j]) = Pair(s[j])
  BY DEF Pair
<1> QED BY <1>1 DEF Sharers

LEMMA DepthKept ==
  ASSUME NEW p, NEW s, NEW t, NEW n \in Nat, \A i \in 1..n : t[i].fn = s[i].fn /\ t[i].node = s[i].node,
         \A i \in 1..n : DepthAt(p, s, i)
  PROVE  \A i \in 1..n : DepthAt(p, t, i)
  BY SharersKept DEF DepthAt

LEMMA SharersMore ==
  ASSUME NEW s, NEW n \in Nat
  PROVE  Sharers(s, n + 1) = Sharers(s, n) \cup (IF SharesBlocks(s[n + 1].fn) THEN {Pair(s[n + 1])} ELSE {})
<1>1. \A j : j \in 1..n + 1 <=> j \in 1..n \/ j = n + 1
  OBVIOUS
<1> QED BY <1>1 DEF Sharers

(* The next call is one of those asked for.                                *)
LEMMA CalleeFits ==
  ASSUME FittingPrograms, IInv, DepthInv, Calling, ~Rejected(Field[2], Arg)
  PROVE  LET q == <<Callee, Arg>> IN
         /\ q \in Reached(prog)
         /\ ~SharesBlocks(Callee) => HeightIn(prog)[q] < HeightIn(prog)[Pair(Top)]
<1> DEFINE A == Reached(prog)
           H == HeightIn(prog)
           s == ShapeIn(prog, Top.fn, Top.node)
           k == Top.next
           i == Len(Top.got) + 1
           r == Pair(Top)
           q == <<Callee, Arg>>
<1>1. Filling /\ Translates /\ Len(Top.got) < Len(Nodes)
  BY DEF Calling
<1>2. /\ FrameOK(prog, Top, heap) /\ k \in 1..Len(Fields) /\ Fields = Top.fields /\ Field = Top.fields[k]
      /\ Len(stack) \in 1..Len(stack)
  BY <1>1, TopIs, FieldIs
<1>3. Top.fields = s.fields /\ IsSeq(Top.got)
  BY <1>2 DEF FrameOK
<1>4. r \in A /\ r[1] = Top.fn /\ r[2] = Top.node
  BY <1>2 DEF DepthInv, DepthAt, Top, Pair
<1>5. AskedFor(prog, A) /\ Descends(prog, A, H)
  BY FitIs DEF IInv, Fits
<1>6. k \in 1..Len(s.fields) /\ Field = s.fields[k] /\ Translating(Field)
  BY <1>1, <1>2, <1>3 DEF Translates
<1>7. Nodes = NodesOf(prog, Top.node, Field)
  BY DEF Nodes
<1>8. Callee = Target(Field[2]) /\ Arg = Nodes[i] /\ ~RejectedIn(prog, Field[2], Arg)
  BY DEF Callee, Arg, Rejected
<1> HIDE DEF A, H, k, r
<1>9. /\ Len(NodesOf(prog, r[2], Field)) \in Nat
      /\ \A j \in 1..Len(NodesOf(prog, r[2], Field)) :
           ~RejectedIn(prog, Field[2], NodesOf(prog, r[2], Field)[j])
              => <<Target(Field[2]), NodesOf(prog, r[2], Field)[j]>> \in A
  BY <1>4, <1>5, <1>6, Zenon DEF AskedFor
<1>10. \A j \in 1..Len(NodesOf(prog, r[2], Field)) :
          LET u == <<Target(Field[2]), NodesOf(prog, r[2], Field)[j]>> IN
          u \in A /\ ~SharesBlocks(u[1]) => H[u] < H[r]
  BY <1>4, <1>5, <1>6, Zenon DEF Descends
<1>11. i \in 1..Len(Nodes)
  <2>1. Len(Top.got) \in Nat /\ Len(Nodes) \in Nat
    BY <1>3, <1>4, <1>7, <1>9 DEF IsSeq
  <2> QED BY <1>1, <2>1
<1> HIDE DEF i
<1>12. NodesOf(prog, r[2], Field) = Nodes
  BY <1>4, <1>7
<1> HIDE DEF s
<1>13. q \in A
  BY <1>8, <1>9, <1>11, <1>12
<1>14. LET u == <<Target(Field[2]), Nodes[i]>> IN u \in A /\ ~SharesBlocks(u[1]) => H[u] < H[r]
  BY <1>10, <1>11, <1>12
<1>15. q = <<Target(Field[2]), Nodes[i]>> /\ q[1] = Callee
  BY <1>8
<1> HIDE DEF q
<1>16. ~SharesBlocks(Callee) => H[q] < H[r]
  BY <1>13, <1>14, <1>15
<1> QED BY <1>13, <1>16 DEF q, A, H, r

(* Its node is none of those whose calls under way share their block, so   *)
(* that there is room for it.                                              *)
LEMMA SharersReached ==
  ASSUME FittingPrograms, IInv, DepthInv, stack # <<>>
  PROVE  /\ Sharers(stack, Len(stack)) \subseteq SharersIn(prog) /\ IsFiniteSet(SharersIn(prog))
         /\ MostIn(prog) \in Nat /\ Cardinality(SharersIn(prog)) * (MostIn(prog) + 1) <= MaxDepth
<1>1. MostIn(prog) \in Nat /\ Fits(prog, Reached(prog), HeightIn(prog), MostIn(prog))
  BY FitIs DEF IInv
<1>2. IsFiniteSet(Reached(prog)) /\ Cardinality(SharersIn(prog)) * (MostIn(prog) + 1) <= MaxDepth
  BY <1>1 DEF Fits, SharersIn
<1>3. IsFiniteSet(SharersIn(prog))
  <2>1. SharersIn(prog) \in SUBSET Reached(prog)
    BY DEF SharersIn
  <2> QED BY <1>2, <2>1, FS_Subset
<1>4. \A j \in 1..Len(stack) : Pair(stack[j]) \in Reached(prog) /\ Pair(stack[j])[1] = stack[j].fn
  BY DEF DepthInv, DepthAt, Pair
<1>5. Sharers(stack, Len(stack)) \subseteq SharersIn(prog)
  BY <1>4 DEF Sharers, SharersIn
<1> QED BY <1>1, <1>2, <1>3, <1>5

LEMMA CallFits ==
  ASSUME FittingPrograms, IInv, SharedInv, DepthInv, Calling, ~Rejected(Field[2], Arg), ~Cached
  PROVE  LET q == <<Callee, Arg>>
             u == Sharers(stack, Len(stack)) \cup (IF SharesBlocks(Callee) THEN {q} ELSE {})
         IN /\ q \in Reached(prog)
            /\ Len(stack) + 1 + HeightIn(prog)[q] <= Cardinality(u) * (MostIn(prog) + 1)
            /\ Len(stack) + 1 <= MaxDepth \/ MaxDepth \notin Nat
<1> DEFINE q == <<Callee, Arg>>
           l == Len(stack)
           c == Sharers(stack, l)
           u == c \cup (IF SharesBlocks(Callee) THEN {q} ELSE {})
           H == HeightIn(prog)
           m == MostIn(prog)
           r == Pair(Top)
<1>1. stack # <<>> /\ l \in Nat /\ l \in 1..l /\ Top = stack[l]
  BY TopIs, FieldIs DEF Calling, Top
<1>2. q \in Reached(prog) /\ (~SharesBlocks(Callee) => H[q] < H[r])
  BY CalleeFits
<1>3. /\ c \subseteq SharersIn(prog) /\ IsFiniteSet(SharersIn(prog))
      /\ m \in Nat /\ Cardinality(SharersIn(prog)) * (m + 1) <= MaxDepth
  BY <1>1, SharersReached
<1>4. r \in Reached(prog) /\ l + H[r] <= Cardinality(c) * (m + 1)
  BY <1>1 DEF DepthInv, DepthAt
<1>5. H[q] \in 0..m /\ H[r] \in 0..m
  BY <1>2, <1>4, FitIs DEF IInv, Fits
<1>6. IsFiniteSet(c) /\ Cardinality(c) \in Nat
  BY <1>3, FS_Subset, FS_CardinalityType
<1>7. SharesBlocks(Callee) => q \notin c
  <2> SUFFICES ASSUME SharesBlocks(Callee), q \in c PROVE FALSE
    OBVIOUS
  <2>1. PICK j \in 1..l : q = Pair(stack[j])
    BY DEF Sharers
  <2>2. stack[j].fn = Callee /\ stack[j].node = Arg
    BY <2>1 DEF Pair
  <2>3. FrameOK(prog, stack[j], heap)
    BY DEF IInv, FramesOK
  <2> DEFINE b == stack[j].blk
             fn == Callee
             n == Arg
  <2>4. b \in 1..Len(heap) /\ heap[b].fn = fn /\ heap[b].node = n /\ StoredBefore(fn)
    BY <2>2, <2>3 DEF FrameOK, SharesBlocks, StoredBefore
  <2>5. ~(CacheOf(fn) # "none" /\ Contains(CacheOf(fn), n))
    BY DEF Cached
  <2> HIDE DEF b, fn, n
  <2> QED BY <2>4, <2>5 DEF SharedInv, Known, Contains, StoredBefore
<1>8. u \subseteq SharersIn(prog)
  <2>1. q[1] = Callee
    OBVIOUS
  <2> HIDE DEF q
  <2> QED BY <1>2, <1>3, <2>1 DEF SharersIn
<1>9. Cardinality(u) = IF SharesBlocks(Callee) THEN Cardinality(c) + 1 ELSE Cardinality(c)
  <2>1. CASE SharesBlocks(Callee)
    <3>1. u = c \cup {q}
      BY <2>1
    <3> HIDE DEF u, c, q
    <3> QED BY <1>6, <1>7, <2>1, <3>1, FS_AddElement
  <2>2. CASE ~SharesBlocks(Callee)
    <3>1. u = c
      BY <2>2
    <3> QED BY <2>2, <3>1
  <2> QED BY <2>1, <2>2
<1>10. Cardinality(u) <= Cardinality(SharersIn(prog)) /\ Cardinality(SharersIn(prog)) \in Nat
  <2>1. u \in SUBSET SharersIn(prog)
    BY <1>8
  <2> QED BY <1>3, <2>1, FS_Subset, FS_CardinalityType
<1> DEFINE cc == Cardinality(c)
           cu == Cardinality(u)
           all == Cardinality(SharersIn(prog))
           hq == H[q]
           hr == H[r]
<1>11. /\ cc \in Nat /\ cu = IF SharesBlocks(Callee) THEN cc + 1 ELSE cc
       /\ cu <= all /\ all \in Nat /\ l + hr <= cc * (m + 1) /\ hq \in 0..m /\ hr \in 0..m
       /\ ~SharesBlocks(Callee) => hq < hr
       /\ all * (m + 1) <= MaxDepth
  BY <1>2, <1>3, <1>4, <1>5, <1>6, <1>9, <1>10
<1> HIDE DEF q, l, c, u, H, m, r, cc, cu, all, hq, hr
<1>12. cu \in Nat /\ l + 1 + hq <= cu * (m + 1)
  BY <1>1, <1>3, <1>11, RoomForNext
<1>13. cu * (m + 1) <= all * (m + 1)
  BY <1>3, <1>11, <1>12, RoomForNext
<1>14. cu * (m + 1) \in Nat /\ all * (m + 1) \in Nat
  BY <1>3, <1>11, <1>12
<1>15. MaxDepth \in Nat => l + 1 <= MaxDepth
  <2> DEFINE x == cu * (m + 1)
             y == all * (m + 1)
  <2>1. x \in Nat /\ y \in Nat /\ x <= y /\ y <= MaxDepth /\ l + 1 + hq <= x /\ hq \in Nat
    BY <1>3, <1>11, <1>12, <1>13, <1>14
  <2> HIDE DEF x, y
  <2> QED BY <1>1, <2>1
<1> QED BY <1>2, <1>12, <1>15 DEF q, l, c, u, H, m, cu, hq

(* A call that begins.                                                     *)
LEMMA BegunDeep ==
  ASSUME IInv, DepthInv, NEW fn, NEW n, Begun(fn, n), status # "overflow",
         <<fn, n>> \in Reached(prog),
         LET u == Sharers(stack, Len(stack)) \cup (IF SharesBlocks(fn) THEN {<<fn, n>>} ELSE {}) IN
         Len(stack) + 1 + HeightIn(prog)[<<fn, n>>] <= Cardinality(u) * (MostIn(prog) + 1)
  PROVE  DepthInv'
<1> DEFINE l == Len(stack)
           st == stack'
<1>1. /\ Len(st) = l + 1 /\ \A i \in 1..l : st[i] = stack[i]
      /\ st[l + 1].fn = fn /\ st[l + 1].node = n /\ prog' = prog /\ status' = status
  BY DEF Begun
<1>2. l \in Nat
  BY DEF IInv, FramesOK, IsSeq
<1> HIDE DEF st
<1>3. \A i \in 1..l : DepthAt(prog, st, i)
  <2>1. \A i \in 1..l : st[i].fn = stack[i].fn /\ st[i].node = stack[i].node
    BY <1>1
  <2>2. \A i \in 1..l : DepthAt(prog, stack, i)
    BY DEF DepthInv
  <2> HIDE DEF l
  <2> QED BY <1>2, <2>1, <2>2, DepthKept
<1>4. DepthAt(prog, st, l + 1)
  <2>1. Sharers(st, l) = Sharers(stack, l)
    <3>1. \A j \in 1..l : st[j] = stack[j]
      BY <1>1
    <3> HIDE DEF l
    <3> QED BY <3>1 DEF Sharers
  <2>2. Pair(st[l + 1]) = <<fn, n>>
    BY <1>1 DEF Pair
  <2>3. Sharers(st, l + 1) = Sharers(stack, l) \cup (IF SharesBlocks(fn) THEN {<<fn, n>>} ELSE {})
    BY <1>1, <1>2, <2>1, <2>2, SharersMore
  <2> QED BY <2>2, <2>3 DEF DepthAt
<1>5. \A i \in 1..Len(st) : i \in 1..l \/ i = l + 1
  BY <1>1, <1>2
<1> HIDE DEF l
<1>6. \A i \in 1..Len(st) : DepthAt(prog, st, i)
  BY <1>3, <1>4, <1>5
<1> QED BY <1>1, <1>6 DEF DepthInv, st

(* The calls below one that goes on or ends are for the nodes they were.   *)
LEMMA StackDeep ==
  ASSUME DepthInv, IInv, prog' = prog, status' # "overflow", Len(stack') \in Nat, Len(stack') <= Len(stack),
         \A i \in 1..Len(stack') : stack'[i].fn = stack[i].fn /\ stack'[i].node = stack[i].node
  PROVE  DepthInv'
<1> DEFINE st == stack'
           n == Len(stack')
<1>1. \A i \in 1..n : DepthAt(prog, stack, i)
  BY DEF DepthInv, IInv, FramesOK, IsSeq
<1>2. n \in Nat /\ Len(st) = n /\ \A i \in 1..n : st[i].fn = stack[i].fn /\ st[i].node = stack[i].node
  OBVIOUS
<1> HIDE DEF st, n
<1>3. \A i \in 1..n : DepthAt(prog, st, i)
  BY <1>1, <1>2, DepthKept
<1> QED BY <1>2, <1>3 DEF DepthInv, st

LEMMA NextDeep == FittingPrograms /\ IInv /\ SharedInv /\ DepthInv /\ [Next]_vars => DepthInv'
<1> SUFFICES ASSUME FittingPrograms, IInv, SharedInv, DepthInv, [Next]_vars PROVE DepthInv'
  OBVIOUS
<1>0. Len(stack) \in Nat
  BY DEF IInv, FramesOK, IsSeq
<1>1. CASE HandleTranslationUnit
  <2> DEFINE n == Root(prog)
             q == <<"Decl", n>>
             m == MostIn(prog)
  <2>1. Begun("Decl", n) /\ stack = <<>> /\ status # "overflow"
    BY <1>1, HandleBegins, Zenon DEF DepthInv
  <2>2. Fits(prog, Reached(prog), HeightIn(prog), m) /\ m \in Nat
    BY FitIs DEF IInv
  <2>3. q \in Reached(prog)
    BY <2>2, Zenon DEF Fits, AskedFor
  <2>4. HeightIn(prog)[q] \in 0..m
    BY <2>2, <2>3 DEF Fits
  <2>5. SharesBlocks("Decl")
    BY DEF SharesBlocks, CacheOf, MiscTranslators, Misc2Translators
  <2>6. Sharers(stack, Len(stack)) = {}
    <3>1. Len(stack) = 0
      BY <2>1
    <3> QED BY <3>1 DEF Sharers
  <2> HIDE DEF n
  <2>7. Cardinality({} \cup {q}) = 1
    <3>1. {} \cup {q} = {q}
      OBVIOUS
    <3> HIDE DEF q
    <3> QED BY <3>1, FS_Singleton
  <2>8. Len(stack) + 1 + HeightIn(prog)[q] <= Cardinality({} \cup {q}) * (m + 1)
    <3>1. Len(stack) = 0
      BY <2>1
    <3> DEFINE hq == HeightIn(prog)[q]
    <3>2. hq \in 0..m
      BY <2>4
    <3> HIDE DEF m, hq
    <3>3. 0 + 1 + hq <= 1 * (m + 1)
      BY <2>2, <3>2
    <3> QED BY <2>7, <3>1, <3>3 DEF hq
  <2> QED BY <2>1, <2>3, <2>5, <2>6, <2>8, BegunDeep
<1>2. CASE Miss
  <2>1. Calling /\ ~Rejected(Field[2], Arg) /\ ~Cached
    BY <1>2 DEF Miss
  <2> DEFINE fn == Callee
             n == Arg
             q == <<fn, n>>
             u == Sharers(stack, Len(stack)) \cup (IF SharesBlocks(fn) THEN {q} ELSE {})
  <2>2. /\ q \in Reached(prog) /\ Len(stack) + 1 + HeightIn(prog)[q] <= Cardinality(u) * (MostIn(prog) + 1)
        /\ Len(stack) + 1 <= MaxDepth \/ MaxDepth \notin Nat
    BY <2>1, CallFits
  <2>3. Len(stack) # MaxDepth
    BY <1>0, <2>2
  <2>4. ~Stop("overflow") /\ Begun(fn, n)
    <3>1. Enter(Callee, Arg)
      BY <1>2, <2>3 DEF Miss
    <3>2. ~Stop("overflow")
      <4>1. Len(stack') = Len(stack) + 1
        <5>1. stack' = Append(stack, Frame(Callee, Arg, Len(heap) + 1, Shape(Callee, Arg).fields, 1, <<>>))
          BY <3>1 DEF Enter
        <5> QED BY <5>1, AppendFacts DEF IInv, FramesOK
      <4> QED BY <1>0, <4>1 DEF Stop
    <3> QED BY <1>2, <3>2, MissBegins
  <2>5. status # "overflow"
    BY DEF DepthInv
  <2> HIDE DEF fn, n
  <2> QED BY <2>2, <2>4, <2>5, BegunDeep
<1>3. CASE Hit \/ ConstantKind \/ StoreField
  <2>1. /\ stack # <<>> /\ prog' = prog /\ status' # "overflow"
    BY <1>3, FieldIs DEF Hit, ConstantKind, StoreField, Calling, DepthInv
  <2>2. \E fr : fr.fn = Top.fn /\ fr.node = Top.node /\ stack' = [stack EXCEPT ![Len(stack)] = fr]
    <3>1. CASE Hit \/ ConstantKind
      <4>1. PICK v : stack' = Got(v)
        BY <3>1, Zenon DEF Hit, ConstantKind
      <4>2. Received(Top, v).fn = Top.fn /\ Received(Top, v).node = Top.node
        BY DEF Received, Frame
      <4> QED BY <4>1, <4>2 DEF Got
    <3>2. CASE StoreField
      <4>1. stack' = [stack EXCEPT ![Len(stack)] = Advanced(Top)]
        BY <3>2 DEF StoreField
      <4>2. Advanced(Top).fn = Top.fn /\ Advanced(Top).node = Top.node
        BY DEF Advanced, Frame
      <4> QED BY <4>1, <4>2
    <3> QED BY <1>3, <3>1, <3>2
  <2>3. PICK fr : fr.fn = Top.fn /\ fr.node = Top.node /\ stack' = [stack EXCEPT ![Len(stack)] = fr]
    BY <2>2
  <2>4. Len(stack) \in 1..Len(stack) /\ IsSeq(stack) /\ Top = stack[Len(stack)]
    BY <2>1, TopIs DEF Top
  <2>5. Replaced(stack', stack, Len(stack), fr)
    BY <2>3, <2>4, ElementReplaced
  <2>6. Len(stack') = Len(stack) /\ \A i \in 1..Len(stack') : stack'[i].fn = stack[i].fn /\ stack'[i].node = stack[i].node
    BY <2>3, <2>4, <2>5 DEF Replaced
  <2> QED BY <1>0, <2>1, <2>6, StackDeep
<1>4. CASE Return
  <2> DEFINE up == Len(stack) - 1
             v == Returned
             fr == Received(stack[up], v)
  <2>1. /\ stack # <<>> /\ prog' = prog /\ status' # "overflow"
        /\ up = 0 => stack' = <<>>
        /\ up # 0 => stack' = Popped(stack, v)
    BY <1>4 DEF Return, Popped, DepthInv
  <2>2. Len(stack) >= 1
    BY <2>1, TopIs
  <2>3. fr.fn = stack[up].fn /\ fr.node = stack[up].node
    BY DEF Received, Frame
  <2>4. CASE up = 0
    <3>1. Len(stack') = 0
      BY <2>1, <2>4
    <3> QED BY <1>0, <2>1, <3>1, StackDeep
  <2>5. CASE up # 0
    <3>1. FramesOK(prog, stack, heap) /\ Len(stack) - 1 >= 1
      <4>1. ASSUME NEW l \in Nat, l >= 1, l - 1 # 0 PROVE l - 1 >= 1
        BY <4>1
      <4> QED BY <1>0, <2>2, <2>5, <4>1 DEF IInv
    <3>2. /\ Len(Popped(stack, v)) = Len(stack) - 1
          /\ Popped(stack, v)[Len(stack) - 1] = Received(stack[Len(stack) - 1], v)
          /\ \A i \in 1..(Len(stack) - 1) : i # Len(stack) - 1 => Popped(stack, v)[i] = stack[i]
      BY <3>1, PoppedOK
    <3>3. /\ Len(stack') = up /\ up \in Nat /\ up <= Len(stack) /\ stack'[up] = fr
          /\ \A i \in 1..up : i # up => stack'[i] = stack[i]
      <4>1. ASSUME NEW l \in Nat, l - 1 >= 1 PROVE l - 1 \in Nat /\ l - 1 <= l
        BY <4>1
      <4> QED BY <1>0, <2>1, <2>5, <3>1, <3>2, <4>1
    <3> HIDE DEF up, fr
    <3> QED BY <2>1, <2>3, <3>3, StackDeep
  <2> QED BY <2>4, <2>5
<1>5. CASE Raise \/ Abort \/ UNCHANGED vars
  <2>1. UNCHANGED <<prog, stack>> /\ status' # "overflow"
    BY <1>5, Zenon DEF Raise, Abort, Stop, vars, DepthInv
  <2> QED BY <2>1 DEF DepthInv
<1> QED BY <1>1, <1>2, <1>3, <1>4, <1>5 DEF Next, Step, Ended

(* The recursion is bounded by the number of nodes, however the tree is    *)
(* cyclic: no call overflows the C++ stack if it holds, for each node      *)
(* translated with sharing, the calls that may follow before the next one. *)
(* The blocks stored before they are filled are what stops it.             *)
THEOREM SmallTreesFit == FittingPrograms /\ Spec => []NoOverflow
<1> SUFFICES ASSUME FittingPrograms PROVE Spec => []NoOverflow
  OBVIOUS
<1>1. Init => SharedInv /\ DepthInv
  <2> SUFFICES ASSUME Init PROVE SharedInv /\ DepthInv
    OBVIOUS
  <2>1. Len(heap) = 0 /\ Len(stack) = 0 /\ status = "running"
    BY DEF Init
  <2> QED BY <2>1 DEF SharedInv, Known, Once, DepthInv
<1>2. IInv /\ SharedInv /\ DepthInv /\ [Next]_vars => (SharedInv /\ DepthInv)'
  BY NextShared, NextDeep
<1>3. DepthInv => NoOverflow
  BY DEF DepthInv, NoOverflow
<1> QED BY <1>1, <1>2, <1>3, InvHolds, PTL DEF Spec
=============================================================================
