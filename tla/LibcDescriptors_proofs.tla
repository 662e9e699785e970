----------------------- MODULE LibcDescriptors_proofs -----------------------
(***************************************************************************)
(* What the domain of file descriptors knows, however many calls the       *)
(* program makes and whatever it calls them with.  First the operators of  *)
(* the domain: what a join keeps of its members, what a registration       *)
(* returns, what a search finds.  Then the calls, when every stub may      *)
(* fail, whatever failures the analysis ignores, when it ignores them all. *)
(***************************************************************************)
EXTENDS LibcDescriptors, BasicFacts

----------------------------------------------------------------------------
(* Smallest and largest elements.                                          *)
Below == {ss \in Nat \X Nat : ss[1] < ss[2]}

(* A set of naturals that is not empty has a smallest element.             *)
LEMMA MinIs == ASSUME NEW S \in SUBSET Nat, S # {} PROVE Min(S) \in S /\ \A y \in S : Min(S) <= y
<1>1. IsWellFoundedOn(Below, Nat)
  BY NatLessThanWellFounded DEF OpToRel, Below
<1>2. PICK x \in S : \A y \in S : ~(<<y, x>> \in Below)
  BY <1>1, WFMin
<1>3. ASSUME NEW y \in S PROVE x <= y
  <2>1. x \in Nat /\ y \in Nat
    OBVIOUS
  <2>2. ~(<<y, x>> \in Below)
    BY <1>2
  <2>3. ~(y < x)
    BY <2>1, <2>2 DEF Below
  <2> QED BY <2>1, <2>3
<1>4. \E z \in S : \A y \in S : z <= y
  BY <1>3
<1> QED BY <1>4 DEF Min

(* The same for integers that are not below a bound, or not above one.     *)
LEMMA MinOfBounded ==
  ASSUME NEW S \in SUBSET Int, S # {}, NEW l \in Int, \A y \in S : l <= y
  PROVE  Min(S) \in S /\ \A y \in S : Min(S) <= y
<1> DEFINE T == {y - l : y \in S}
<1>1. T \in SUBSET Nat /\ T # {}
  <2>1. \A y \in S : y - l \in Nat
    OBVIOUS
  <2> QED BY <2>1
<1>2. Min(T) \in T /\ \A y \in T : Min(T) <= y
  BY <1>1, MinIs
<1>3. PICK x \in S : Min(T) = x - l
  BY <1>2
<1>4. \A y \in S : x - l <= y - l
  BY <1>2, <1>3
<1>5. \A y \in S : x <= y
  BY <1>4
<1> QED BY <1>5 DEF Min

LEMMA MaxOfBounded ==
  ASSUME NEW S \in SUBSET Int, S # {}, NEW h \in Int, \A y \in S : y <= h
  PROVE  Max(S) \in S /\ \A y \in S : y <= Max(S)
<1> DEFINE T == {h - y : y \in S}
<1>1. T \in SUBSET Nat /\ T # {}
  <2>1. \A y \in S : h - y \in Nat
    OBVIOUS
  <2> QED BY <2>1
<1>2. Min(T) \in T /\ \A y \in T : Min(T) <= y
  BY <1>1, MinIs
<1>3. PICK x \in S : Min(T) = h - x
  BY <1>2
<1>4. \A y \in S : h - x <= h - y
  BY <1>2, <1>3
<1>5. \A y \in S : x >= y
  BY <1>4
<1>6. Max(S) \in S /\ \A y \in S : Max(S) >= y
  BY <1>5 DEF Max
<1> QED BY <1>6

(* A finite set of naturals has an upper bound.                            *)
LEMMA FiniteBounded ==
  ASSUME NEW S \in SUBSET Nat, IsFiniteSet(S) PROVE \E m \in Nat : \A y \in S : y <= m
<1> DEFINE K == {n \in Nat : \A T \in SUBSET Nat :
                   IsFiniteSet(T) /\ Cardinality(T) = n => \E m \in Nat : \A y \in T : y <= m}
<1>1. 0 \in K
  <2>1. \A T \in SUBSET Nat : IsFiniteSet(T) /\ Cardinality(T) = 0 => T = {}
    BY FS_EmptySet
  <2> QED BY <2>1
<1>2. ASSUME NEW n \in Nat, n \in K PROVE n + 1 \in K
  <2> SUFFICES ASSUME NEW T \in SUBSET Nat, IsFiniteSet(T), Cardinality(T) = n + 1
               PROVE  \E m \in Nat : \A y \in T : y <= m
    OBVIOUS
  <2>1. T # {}
    BY FS_EmptySet
  <2>2. PICK x \in T : TRUE
    BY <2>1
  <2>3. IsFiniteSet(T \ {x}) /\ Cardinality(T \ {x}) = n
    <3>1. Cardinality(T \ {x}) = Cardinality(T) - 1 /\ IsFiniteSet(T \ {x})
      BY <2>2, FS_RemoveElement
    <3> QED BY <3>1
  <2>4. PICK m \in Nat : \A y \in T \ {x} : y <= m
    BY <1>2, <2>3
  <2>5. x \in Nat /\ x + m \in Nat
    OBVIOUS
  <2>6. \A y \in T : y <= x + m
    BY <2>4, <2>5
  <2> QED BY <2>5, <2>6
<1>3. Cardinality(S) \in K
  <2> HIDE DEF K
  <2>1. Cardinality(S) \in Nat
    BY FS_CardinalityType
  <2> QED BY <1>1, <1>2, <2>1, SetInduction
<1> QED BY <1>3

----------------------------------------------------------------------------
(* Intervals that are not empty, between two bounds.                       *)
Within(itv, l, h) ==
  /\ itv.lo \in Int /\ itv.hi \in Int
  /\ l <= itv.lo /\ itv.lo <= itv.hi /\ itv.hi <= h

LEMMA WithinMore ==
  ASSUME NEW l1 \in Int, NEW l2 \in Int, l2 <= l1, NEW h1 \in Int, NEW h2 \in Int, h1 <= h2,
         NEW itv, Within(itv, l1, h1)
  PROVE  Within(itv, l2, h2)
  BY DEF Within

(* A hull is within the bounds of its members and contains them.           *)
LEMMA HullIs ==
  ASSUME NEW itvs, itvs # {}, NEW l \in Int, NEW h \in Int, \A i \in itvs : Within(i, l, h)
  PROVE  /\ Within(Hull(itvs), l, h)
         /\ \A i \in itvs : Hull(itvs).lo <= i.lo /\ i.hi <= Hull(itvs).hi
         /\ \A i \in itvs, n \in Int : Contains(i, n) => Contains(Hull(itvs), n)
<1> DEFINE los == {i.lo : i \in itvs}
           his == {i.hi : i \in itvs}
           lo == Min(los)
           hi == Max(his)
<1>1. los \in SUBSET Int /\ los # {} /\ \A y \in los : l <= y
  BY DEF Within
<1>2. his \in SUBSET Int /\ his # {} /\ \A y \in his : y <= h
  BY DEF Within
<1>3. lo \in los /\ \A y \in los : lo <= y
  BY <1>1, MinOfBounded
<1>4. hi \in his /\ \A y \in his : y <= hi
  BY <1>2, MaxOfBounded
<1>5. Hull(itvs).lo = lo /\ Hull(itvs).hi = hi
  BY DEF Hull, Itv
<1>6. lo \in Int /\ hi \in Int /\ l <= lo /\ hi <= h
  BY <1>1, <1>2, <1>3, <1>4
<1>7. \A i \in itvs : lo <= i.lo /\ i.hi <= hi
  BY <1>3, <1>4
<1> HIDE DEF lo, hi, los, his
<1>8. PICK i \in itvs : TRUE
  OBVIOUS
<1>9. lo <= hi
  BY <1>6, <1>7, <1>8 DEF Within
<1>10. ASSUME NEW j \in itvs, NEW n \in Int, Contains(j, n) PROVE Contains(Hull(itvs), n)
  BY <1>5, <1>6, <1>7, <1>10 DEF Contains, Within
<1> QED BY <1>5, <1>6, <1>7, <1>9, <1>10 DEF Within

(* Only a single number can be removed from an interval.                   *)
LEMMA DifferingKeeps ==
  ASSUME NEW l \in Int, NEW h \in Int, NEW itv, itv.lo \in Int, itv.hi \in Int, NEW other, NEW n \in Int,
         Contains(itv, n), ~(other.lo = n /\ other.hi = n)
  PROVE  Contains(Differing(itv, other), n)
  BY DEF Differing, Contains, Singleton, Itv

LEMMA DifferingWithin ==
  ASSUME NEW itv, itv.lo \in Int, itv.hi \in Int, NEW other
  PROVE  LET rest == Differing(itv, other)
         IN rest.lo \in Int /\ rest.hi \in Int /\ itv.lo <= rest.lo /\ rest.hi <= itv.hi
  BY DEF Differing, Itv

----------------------------------------------------------------------------
(* Tables whose addresses are 1..m and whose descriptors are after the     *)
(* window, up to h.                                                        *)
TableWithin(t, m, h) ==
  /\ Keys(t) \subseteq 1..m
  /\ \A a \in Keys(t) : Within(t.map[a], window, h)

(* A descriptor that is bound to an address, and one that is not above all *)
(* those of the table.                                                     *)
BoundTo(a, t, n) == a \in Keys(t) /\ Contains(t.map[a], n)
Reached(t, n) == \E a \in Keys(t) : n <= t.map[a].hi

(* The recursive function of NewItv is defined.                            *)
HasRefined(top, itv0, t) ==
  \E g : g = [a \in 0..top |->
                IF a = 0 THEN itv0
                ELSE IF top + 1 - a \in t.support \cap Keys(t)
                     THEN Differing(g[a - 1], t.map[top + 1 - a]) ELSE g[a - 1]]
LEMMA RefinedIs ==
  ASSUME NEW top \in Nat, NEW itv0, NEW t PROVE HasRefined(top, itv0, t)
<1> DEFINE G(x, a) == IF top + 1 - a \in t.support \cap Keys(t) THEN Differing(x, t.map[top + 1 - a]) ELSE x
           K == {n \in Nat : \E g : g = [a \in 0..n |-> IF a = 0 THEN itv0 ELSE G(g[a - 1], a)]}
<1>1. 0 \in K
  <2> DEFINE g == [a \in 0..0 |-> itv0]
  <2>1. \A a \in 0..0 : a = 0
    OBVIOUS
  <2> HIDE DEF G
  <2>2. g = [a \in 0..0 |-> IF a = 0 THEN itv0 ELSE G(g[a - 1], a)]
    BY <2>1, Zenon
  <2> HIDE DEF g
  <2> QED BY <2>2
<1>2. ASSUME NEW n \in Nat, n \in K PROVE n + 1 \in K
  <2> HIDE DEF G
  <2>1. PICK g : g = [a \in 0..n |-> IF a = 0 THEN itv0 ELSE G(g[a - 1], a)]
    BY <1>2
  <2> DEFINE h == [a \in 0..(n + 1) |-> IF a = 0 THEN itv0 ELSE G(g[a - 1], a)]
  <2>2. ASSUME NEW a \in 0..(n + 1), a # 0 PROVE g[a - 1] = h[a - 1]
    <3> DEFINE b == a - 1
    <3>1. b \in 0..n /\ b \in 0..(n + 1)
      BY <2>2
    <3> HIDE DEF b
    <3>2. g[b] = IF b = 0 THEN itv0 ELSE G(g[b - 1], b)
      BY <2>1, <3>1, Zenon
    <3>3. h[b] = IF b = 0 THEN itv0 ELSE G(g[b - 1], b)
      BY <3>1, Zenon
    <3> QED BY <3>2, <3>3, Zenon DEF b
  <2>3. \A a \in 0..(n + 1) : h[a] = IF a = 0 THEN itv0 ELSE G(g[a - 1], a)
    BY Zenon
  <2>4. \A a \in 0..(n + 1) : h[a] = IF a = 0 THEN itv0 ELSE G(h[a - 1], a)
    BY <2>2, <2>3, Zenon
  <2>5. h = [a \in 0..(n + 1) |-> h[a]]
    BY Zenon
  <2> HIDE DEF h
  <2>6. h = [a \in 0..(n + 1) |-> IF a = 0 THEN itv0 ELSE G(h[a - 1], a)]
    BY <2>4, <2>5, Zenon
  <2> QED BY <2>6
<1>3. top \in K
  <2> HIDE DEF K
  <2> QED BY <1>1, <1>2, SetInduction
<1> QED BY <1>3 DEF HasRefined

(* The interval of a new descriptor is after the window and at most one    *)
(* past the largest of the table.  It has all the descriptors from the     *)
(* window to there that no address of the support is alone with.           *)
LEMMA NewItvIs ==
  ASSUME NEW t, NEW m \in Nat, NEW h \in Int, window - 1 <= h, TableWithin(t, m, h)
  PROVE  /\ NewItv(t).lo \in Int /\ NewItv(t).hi \in Int
         /\ window <= NewItv(t).lo /\ NewItv(t).hi <= h + 1
         /\ \A n \in Int :
              /\ n = window \/ (window < n /\ Reached(t, n - 1))
              /\ \A a \in t.support \cap Keys(t) : ~(t.map[a].lo = n /\ t.map[a].hi = n)
              => Contains(NewItv(t), n)
<1>0. window = 3
  BY DEF window
<1>1. CASE Keys(t) = {}
  BY <1>0, <1>1 DEF NewItv, Const, Itv, Contains, Reached
<1>2. CASE Keys(t) # {}
  <2> DEFINE his == {t.map[a].hi : a \in Keys(t)}
             itv0 == Itv(window, Max(his) + 1)
             top == Max(Keys(t))
             Refined[a \in 0..top] ==
               IF a = 0 THEN itv0
               ELSE LET addr == top + 1 - a IN
                    IF addr \in t.support \cap Keys(t) THEN Differing(Refined[a - 1], t.map[addr])
                    ELSE Refined[a - 1]
  <2>1. top \in Nat
    <3>1. Keys(t) \in SUBSET Int /\ \A a \in Keys(t) : a <= m
      BY DEF TableWithin
    <3>2. Max(Keys(t)) \in Keys(t)
      BY <1>2, <3>1, MaxOfBounded
    <3> QED BY <3>2 DEF TableWithin
  <2>2. Max(his) \in his /\ \A y \in his : y <= Max(his)
    BY <1>2, MaxOfBounded DEF TableWithin, Within
  <2>3. Max(his) \in Int /\ window <= Max(his) /\ Max(his) <= h
    BY <1>0, <2>2 DEF TableWithin, Within
  <2> DEFINE Good(n) == /\ n = window \/ (window < n /\ Reached(t, n - 1))
                        /\ \A a \in t.support \cap Keys(t) : ~(t.map[a].lo = n /\ t.map[a].hi = n)
             Fine(itv) == /\ itv.lo \in Int /\ itv.hi \in Int /\ window <= itv.lo /\ itv.hi <= h + 1
                          /\ \A n \in Int : Good(n) => Contains(itv, n)
             K == {k \in Nat : k <= top => Fine(Refined[k])}
  <2>4. NewItv(t) = Refined[top]
    BY <1>2, Zenon DEF NewItv
  <2> HIDE DEF top, itv0
  <2>5. /\ Refined[0] = itv0
        /\ \A a \in 1..top :
             Refined[a] = IF top + 1 - a \in t.support \cap Keys(t)
                          THEN Differing(Refined[a - 1], t.map[top + 1 - a]) ELSE Refined[a - 1]
    <3>1. \E g : g = [a \in 0..top |->
                       IF a = 0 THEN itv0
                       ELSE IF top + 1 - a \in t.support \cap Keys(t)
                            THEN Differing(g[a - 1], t.map[top + 1 - a]) ELSE g[a - 1]]
      <4>1. HasRefined(top, itv0, t)
        BY <2>1, RefinedIs
      <4> QED BY <4>1 DEF HasRefined
    <3>2. Refined = [a \in 0..top |->
                       IF a = 0 THEN itv0
                       ELSE IF top + 1 - a \in t.support \cap Keys(t)
                            THEN Differing(Refined[a - 1], t.map[top + 1 - a]) ELSE Refined[a - 1]]
      BY <3>1, Zenon
    <3> HIDE DEF Refined
    <3>3. 0 \in 0..top /\ \A a \in 1..top : a \in 0..top /\ a # 0
      BY <2>1
    <3> QED BY <3>2, <3>3, Zenon
  <2> HIDE DEF Refined
  <2>6. Fine(itv0)
    <3>1. itv0.lo = window /\ itv0.hi = Max(his) + 1
      BY DEF itv0, Itv
    <3>2. ASSUME NEW n \in Int, Good(n) PROVE Contains(itv0, n)
      <4>1. CASE n = window
        BY <1>0, <2>3, <3>1, <4>1 DEF Contains
      <4>2. CASE window < n /\ Reached(t, n - 1)
        <5>1. PICK a \in Keys(t) : n - 1 <= t.map[a].hi
          BY <4>2 DEF Reached
        <5>2. t.map[a].hi \in Int /\ t.map[a].hi <= Max(his)
          BY <2>2 DEF TableWithin, Within
        <5> HIDE DEF his
        <5> QED BY <1>0, <2>3, <3>1, <4>2, <5>1, <5>2 DEF Contains
      <4> QED BY <3>2, <4>1, <4>2
    <3> HIDE DEF Good, his
    <3> QED BY <1>0, <2>3, <3>1, <3>2
  <2>7. ASSUME NEW k \in Nat, k \in K PROVE k + 1 \in K
    <3> SUFFICES ASSUME k + 1 <= top PROVE Fine(Refined[k + 1])
      OBVIOUS
    <3> DEFINE x == Refined[k]
    <3>1. Fine(x)
      BY <2>1, <2>7
    <3>2. k + 1 \in 1..top /\ (k + 1) - 1 = k
      BY <2>1
    <3>3. CASE Refined[k + 1] = x
      BY <3>1, <3>3, Zenon
    <3>4. CASE \E a \in t.support \cap Keys(t) : Refined[k + 1] = Differing(x, t.map[a])
      <4>1. PICK a \in t.support \cap Keys(t) : Refined[k + 1] = Differing(x, t.map[a])
        BY <3>4
      <4> DEFINE y == Differing(x, t.map[a])
      <4> HIDE DEF x
      <4>2. /\ x.lo \in Int /\ x.hi \in Int /\ window <= x.lo /\ x.hi <= h + 1
            /\ \A n \in Int : Good(n) => Contains(x, n)
        BY <3>1
      <4>3. y.lo \in Int /\ y.hi \in Int /\ x.lo <= y.lo /\ y.hi <= x.hi
        BY <4>2, DifferingWithin
      <4>4. ASSUME NEW n \in Int, Good(n) PROVE Contains(y, n)
        <5>1. ~(t.map[a].lo = n /\ t.map[a].hi = n)
          BY <4>4
        <5>2. Contains(x, n)
          BY <4>2, <4>4
        <5> HIDE DEF Good
        <5> QED BY <4>2, <5>1, <5>2, DifferingKeeps
      <4> HIDE DEF y, Good
      <4>5. window <= y.lo /\ y.hi <= h + 1
        BY <1>0, <4>2, <4>3
      <4>6. Fine(y)
        BY <4>3, <4>4, <4>5
      <4>7. Refined[k + 1] = y
        BY <4>1 DEF y
      <4> QED BY <4>6, <4>7
    <3>5. Refined[k + 1] = IF top + 1 - (k + 1) \in t.support \cap Keys(t)
                           THEN Differing(x, t.map[top + 1 - (k + 1)]) ELSE x
      <4> HIDE DEF Fine, K
      <4>1. Refined[k + 1] = IF top + 1 - (k + 1) \in t.support \cap Keys(t)
                           THEN Differing(Refined[(k + 1) - 1], t.map[top + 1 - (k + 1)]) ELSE Refined[(k + 1) - 1]
        BY <2>5, <3>2, Zenon
      <4> QED BY <3>2, <4>1, Zenon
    <3> HIDE DEF Fine, x
    <3> QED BY <3>3, <3>4, <3>5
  <2>8. 0 \in K
    <3> HIDE DEF Fine
    <3> QED BY <2>5, <2>6
  <2>9. top \in K
    <3> HIDE DEF K
    <3> QED BY <2>1, <2>7, <2>8, SetInduction
  <2>10. Fine(NewItv(t))
    BY <2>1, <2>4, <2>9
  <2> QED BY <2>10
<1> QED BY <1>1, <1>2

----------------------------------------------------------------------------
(* The shape of an abstract state, of which NULL is not an address.        *)
SlotShape(s) == s = Slot(s.free, s.taken) /\ s.free \in BOOLEAN /\ NoAddr \notin s.taken
WellFormed(st) ==
  /\ st = State(st.first, st.others)
  /\ st.first = [i \in Slots |-> st.first[i]]
  /\ \A i \in Slots : SlotShape(st.first[i])
NoNull(st) == \A i \in Slots : NoAddr \notin st.first[i].taken

(* A state whose addresses are 1..m and whose descriptors go up to h, the  *)
(* addresses a descriptor has in it, and the descriptors that have one.    *)
Addressed(st, m, h) ==
  /\ TableWithin(st.others, m, h)
  /\ \A i \in Slots : st.first[i].taken \subseteq 1..m
At(a, st, n) == IF n \in Slots THEN a \in st.first[n].taken ELSE BoundTo(a, st.others, n)
Covered(st, n) ==
  IF n \in Slots THEN st.first[n].taken # {} ELSE \E a \in Keys(st.others) : BoundTo(a, st.others, n)

LEMMA AtIsCovered ==
  ASSUME NEW a, NEW st, NEW n, At(a, st, n) PROVE Covered(st, n) /\ a \in Held(st)
  BY DEF At, Covered, BoundTo, Held

LEMMA AddressedMore ==
  ASSUME NEW st, NEW m, NEW h1 \in Int, NEW h2 \in Int, h1 <= h2, Addressed(st, m, h1)
  PROVE  Addressed(st, m, h2)
<1>1. window \in Int /\ window <= window
  BY DEF window
<1>2. \A a \in Keys(st.others) : Within(st.others.map[a], window, h2)
  <2> TAKE a \in Keys(st.others)
  <2>1. Within(st.others.map[a], window, h1)
    BY DEF Addressed, TableWithin
  <2> QED BY <1>1, <2>1, WithinMore
<1> QED BY <1>2 DEF Addressed, TableWithin

LEMMA AddressedNoNull ==
  ASSUME NEW st, NEW m \in Nat, NEW h, Addressed(st, m, h) PROVE NoNull(st)
  BY DEF Addressed, NoNull, NoAddr

LEMMA EmptyTableWithin ==
  ASSUME NEW m, NEW h
  PROVE  TableWithin(EmptyTable, m, h) /\ EmptyTable.support = {} /\ Keys(EmptyTable) = {}
<1>1. DOMAIN <<>> = {}
  OBVIOUS
<1>2. Keys(EmptyTable) = {} /\ EmptyTable.support = {}
  BY <1>1 DEF Keys, EmptyTable
<1> QED BY <1>2 DEF TableWithin

LEMMA SlotJoinIs ==
  ASSUME NEW slots
  PROVE  /\ SlotJoin(slots).taken = UNION {f.taken : f \in slots}
         /\ SlotJoin(slots).free <=> \E f \in slots : f.free
<1> DEFINE free == \E f \in slots : f.free
           taken == UNION {f.taken : f \in slots}
<1>1. SlotJoin(slots) = Slot(free, taken)
  BY DEF SlotJoin
<1> HIDE DEF free, taken
<1>2. SlotJoin(slots).free = free /\ SlotJoin(slots).taken = taken
  BY <1>1 DEF Slot
<1> QED BY <1>2 DEF free, taken

(* What a join is made of.                                                 *)
LEMMA JoinIs ==
  ASSUME NEW states
  PROVE  LET live == {s \in states : ~IsBottom(s)}
             J == Join(states)
         IN  /\ live = {} => J = BottomState
             /\ live # {} => /\ \A i \in Slots : J.first[i] = SlotJoin({s.first[i] : s \in live})
                             /\ J.others = TableJoin({s.others : s \in live})
  BY DEF Join, State

(* A table joined with others.                                             *)
LEMMA TableJoinKeys ==
  ASSUME NEW tables
  PROVE  LET J == TableJoin(tables)
         IN  /\ Keys(J) = UNION {Keys(t) : t \in tables}
             /\ \A a \in Keys(J) : J.map[a] = Hull({t.map[a] : t \in {u \in tables : a \in Keys(u)}})
<1> DEFINE J == TableJoin(tables)
           itvs(a) == {t.map[a] : t \in {u \in tables : a \in Keys(u)}}
           map == [a \in UNION {Keys(t) : t \in tables} |-> Hull(itvs(a))]
<1>1. J.map = map
  BY DEF TableJoin
<1>2. DOMAIN map = UNION {Keys(t) : t \in tables} /\ \A a \in DOMAIN map : map[a] = Hull(itvs(a))
  BY Zenon
<1> HIDE DEF J, map
<1>3. Keys(J) = UNION {Keys(t) : t \in tables} /\ \A a \in Keys(J) : J.map[a] = Hull(itvs(a))
  BY <1>1, <1>2, Zenon DEF Keys
<1> QED BY <1>3, Zenon DEF J

LEMMA TableJoinIs ==
  ASSUME NEW tables, NEW m, NEW h \in Int, \A t \in tables : TableWithin(t, m, h)
  PROVE  LET J == TableJoin(tables)
         IN  /\ TableWithin(J, m, h)
             /\ \A t \in tables : J.support \subseteq t.support
             /\ \A t \in tables : \A a : \A n \in Int : BoundTo(a, t, n) => BoundTo(a, J, n)
<1> DEFINE J == TableJoin(tables)
           itvs(a) == {t.map[a] : t \in {u \in tables : a \in Keys(u)}}
<1>1. Keys(J) = UNION {Keys(t) : t \in tables} /\ \A a \in Keys(J) : J.map[a] = Hull(itvs(a))
  BY TableJoinKeys
<1>2. J.support = {a \in UNION {t.support : t \in tables} : \A t \in tables : a \in t.support}
  BY DEF TableJoin
<1> HIDE DEF J
<1>3. ASSUME NEW a, NEW t \in tables, a \in Keys(t)
      PROVE  /\ a \in Keys(J) /\ Within(J.map[a], window, h)
             /\ \A n \in Int : Contains(t.map[a], n) => Contains(J.map[a], n)
  <2>1. window \in Int
    BY DEF window
  <2>2. t.map[a] \in itvs(a) /\ \A i \in itvs(a) : Within(i, window, h)
    BY <1>3 DEF TableWithin
  <2>3. a \in Keys(J) /\ J.map[a] = Hull(itvs(a))
    BY <1>1, <1>3
  <2> HIDE DEF itvs
  <2> QED BY <2>1, <2>2, <2>3, HullIs
<1>4. TableWithin(J, m, h)
  BY <1>1, <1>3 DEF TableWithin
<1>5. \A t \in tables : J.support \subseteq t.support
  BY <1>2
<1>6. \A t \in tables : \A a : \A n \in Int : BoundTo(a, t, n) => BoundTo(a, J, n)
  BY <1>3 DEF BoundTo
<1> QED BY <1>4, <1>5, <1>6 DEF J

(* A join keeps the bounds of its members, what is bound in one of them    *)
(* and only the support they share.                                        *)
LEMMA JoinAddressed ==
  ASSUME NEW states, NEW m, NEW h \in Int, \A s \in states : Addressed(s, m, h)
  PROVE  Addressed(Join(states), m, h)
<1> DEFINE live == {s \in states : ~IsBottom(s)}
           J == Join(states)
<1>1. CASE live = {}
  <2>1. J = BottomState
    BY <1>1 DEF Join
  <2>2. J.others = EmptyTable /\ \A i \in Slots : J.first[i].taken = {}
    BY <2>1 DEF BottomState, State, Bot, Slot
  <2> QED BY <2>2, EmptyTableWithin DEF Addressed
<1>2. CASE live # {}
  <2>1. /\ \A i \in Slots : J.first[i] = SlotJoin({s.first[i] : s \in live})
        /\ J.others = TableJoin({s.others : s \in live})
    BY <1>2, JoinIs
  <2>2. \A t \in {s.others : s \in live} : TableWithin(t, m, h)
    BY DEF Addressed
  <2> HIDE DEF J
  <2>3. TableWithin(J.others, m, h)
    BY <2>1, <2>2, TableJoinIs
  <2>4. ASSUME NEW i \in Slots PROVE J.first[i].taken \subseteq 1..m
    <3>1. J.first[i].taken = UNION {f.taken : f \in {s.first[i] : s \in live}}
      BY <2>1, SlotJoinIs
    <3>2. \A s \in live : s.first[i].taken \subseteq 1..m
      BY DEF Addressed
    <3> QED BY <3>1, <3>2
  <2> QED BY <2>3, <2>4 DEF Addressed, J
<1> QED BY <1>1, <1>2

LEMMA JoinKeeps ==
  ASSUME NEW states, NEW m, NEW h \in Int, \A s \in states : Addressed(s, m, h),
         NEW s \in states, ~IsBottom(s)
  PROVE  LET J == Join(states)
         IN  /\ \A i \in Slots : s.first[i].taken \subseteq J.first[i].taken
             /\ \A i \in Slots : s.first[i].free => J.first[i].free
             /\ \A a : \A n \in Int : BoundTo(a, s.others, n) => BoundTo(a, J.others, n)
             /\ \A n \in Int : Covered(s, n) => Covered(J, n)
             /\ J.others.support \subseteq s.others.support
<1> DEFINE live == {s0 \in states : ~IsBottom(s0)}
           J == Join(states)
<1>1. s \in live
  OBVIOUS
<1>2. /\ \A i \in Slots : J.first[i] = SlotJoin({s0.first[i] : s0 \in live})
      /\ J.others = TableJoin({s0.others : s0 \in live})
  <2>1. live # {}
    BY <1>1
  <2> QED BY <2>1, JoinIs
<1> DEFINE tables == {s0.others : s0 \in live}
<1>3. \A t \in tables : TableWithin(t, m, h)
  BY DEF Addressed
<1>4. s.others \in tables /\ J.others = TableJoin(tables)
  BY <1>1, <1>2
<1> HIDE DEF J, tables
<1>5. J.others.support \subseteq s.others.support
  BY <1>3, <1>4, TableJoinIs
<1>6. \A a : \A n \in Int : BoundTo(a, s.others, n) => BoundTo(a, J.others, n)
  BY <1>3, <1>4, TableJoinIs
<1>7. \A i \in Slots : s.first[i].taken \subseteq J.first[i].taken /\ (s.first[i].free => J.first[i].free)
  <2> TAKE i \in Slots
  <2>1. /\ J.first[i].taken = UNION {f.taken : f \in {s0.first[i] : s0 \in live}}
        /\ J.first[i].free <=> (\E f \in {s0.first[i] : s0 \in live} : f.free)
    BY <1>2, SlotJoinIs
  <2>2. s.first[i] \in {s0.first[i] : s0 \in live}
    BY <1>1
  <2> QED BY <2>1, <2>2
<1>8. \A n \in Int : Covered(s, n) => Covered(J, n)
  <2> TAKE n \in Int
  <2>1. CASE n \in Slots
    BY <1>7, <2>1 DEF Covered
  <2>2. CASE n \notin Slots
    BY <1>6, <2>2 DEF Covered, BoundTo
  <2> QED BY <2>1, <2>2
<1> QED BY <1>5, <1>6, <1>7, <1>8 DEF J

(* A slot of a join has what the slots of its members have.                *)
LEMMA JoinSlots ==
  ASSUME NEW states, NEW i \in Slots, NEW x \in Join(states).first[i].taken
  PROVE  \E s \in states : ~IsBottom(s) /\ x \in s.first[i].taken
<1> DEFINE live == {s \in states : ~IsBottom(s)}
           J == Join(states)
<1>1. CASE live = {}
  BY <1>1 DEF Join, BottomState, State, Bot, Slot
<1>2. CASE live # {}
  <2>1. J.first[i] = SlotJoin({s.first[i] : s \in live})
    BY <1>2, JoinIs
  <2> DEFINE slots == {s.first[i] : s \in live}
  <2>2. J.first[i].taken = UNION {f.taken : f \in slots}
    <3> HIDE DEF slots, J
    <3> QED BY <2>1, SlotJoinIs DEF slots
  <2> HIDE DEF J
  <2> QED BY <2>2 DEF J
<1> QED BY <1>1, <1>2

LEMMA JoinFree ==
  ASSUME NEW states, NEW i \in Slots, Join(states).first[i].free
  PROVE  \E s \in states : ~IsBottom(s) /\ s.first[i].free
<1> DEFINE live == {s \in states : ~IsBottom(s)}
           J == Join(states)
<1>1. CASE live = {}
  BY <1>1 DEF Join, BottomState, State, Bot, Slot
<1>2. CASE live # {}
  <2>1. J.first[i] = SlotJoin({s.first[i] : s \in live})
    BY <1>2, JoinIs
  <2> DEFINE slots == {s.first[i] : s \in live}
  <2>2. J.first[i].free <=> \E f \in slots : f.free
    <3> HIDE DEF slots, J
    <3> QED BY <2>1, SlotJoinIs DEF slots
  <2>3. J.first[i].free
    OBVIOUS
  <2> HIDE DEF J
  <2> QED BY <2>2, <2>3
<1> QED BY <1>1, <1>2

LEMMA JoinKeys ==
  ASSUME NEW states, NEW a \in Keys(Join(states).others)
  PROVE  \E s \in states : ~IsBottom(s) /\ a \in Keys(s.others)
<1> DEFINE live == {s \in states : ~IsBottom(s)}
           tables == {s.others : s \in live}
           J == Join(states)
<1>1. live # {}
  <2>1. Keys(EmptyTable) = {}
    BY EmptyTableWithin
  <2>2. BottomState.others = EmptyTable
    BY DEF BottomState, State
  <2>3. live = {} => J = BottomState
    BY JoinIs
  <2> QED BY <2>1, <2>2, <2>3
<1>2. J.others = TableJoin(tables)
  BY <1>1, JoinIs
<1>3. Keys(TableJoin(tables)) = UNION {Keys(t) : t \in tables}
  <2> HIDE DEF tables
  <2> QED BY TableJoinKeys
<1>4. PICK t \in tables : a \in Keys(t)
  <2> HIDE DEF tables, J
  <2>1. a \in Keys(J.others)
    BY DEF J
  <2> QED BY <1>2, <1>3, <2>1
<1> QED BY <1>4

LEMMA JoinKeepsAt ==
  ASSUME NEW states, NEW m, NEW h \in Int, \A s \in states : Addressed(s, m, h),
         NEW s \in states, ~IsBottom(s), NEW a, NEW n \in Int, At(a, s, n)
  PROVE  At(a, Join(states), n)
<1>1. CASE n \in Slots
  BY <1>1, JoinKeeps DEF At
<1>2. CASE n \notin Slots
  BY <1>2, JoinKeeps DEF At
<1> QED BY <1>1, <1>2

(* A join of states that never hold NULL is well formed.                   *)
LEMMA JoinWellFormed ==
  ASSUME NEW states, \A s \in states : NoNull(s) PROVE WellFormed(Join(states))
<1> DEFINE live == {s \in states : ~IsBottom(s)}
<1>1. CASE live = {}
  BY <1>1 DEF Join, BottomState, WellFormed, SlotShape, State, Bot, Slot
<1>2. CASE live # {}
  <2> DEFINE first == [i \in Slots |-> SlotJoin({s.first[i] : s \in live})]
             others == TableJoin({s.others : s \in live})
  <2>1. Join(states) = State(first, others)
    BY <1>2 DEF Join
  <2> HIDE DEF others
  <2>2. Join(states).first = first /\ Join(states) = State(Join(states).first, Join(states).others)
    BY <2>1 DEF State
  <2>3. ASSUME NEW i \in Slots
        PROVE  SlotShape(first[i])
    <3> DEFINE free == \E s \in {s0.first[i] : s0 \in live} : s.free
               taken == UNION {s.taken : s \in {s0.first[i] : s0 \in live}}
    <3>1. first[i] = Slot(free, taken)
      BY DEF SlotJoin
    <3>2. NoAddr \notin taken /\ free \in BOOLEAN
      BY DEF NoNull
    <3> HIDE DEF first, free, taken
    <3>3. first[i].free = free /\ first[i].taken = taken
      BY <3>1 DEF Slot
    <3> QED BY <3>1, <3>2, <3>3 DEF SlotShape
  <2>4. Join(states).first = [i \in Slots |-> Join(states).first[i]]
    BY <2>2
  <2> QED BY <2>2, <2>3, <2>4 DEF WellFormed
<1> QED BY <1>1, <1>2

----------------------------------------------------------------------------
(* Registration.                                                           *)

(* Binding an address replaces its interval and keeps the others.          *)
LEMMA BindIs ==
  ASSUME NEW addr, NEW itv, NEW t
  PROVE  LET B == Bind(addr, itv, t)
         IN  /\ Keys(B) = Keys(t) \cup {addr}
             /\ B.map[addr] = itv
             /\ \A a \in Keys(t) : a # addr => B.map[a] = t.map[a]
             /\ B.support = t.support \cup {addr}
<1> DEFINE map == [a \in Keys(t) \cup {addr} |-> IF a = addr THEN itv ELSE t.map[a]]
           B == Bind(addr, itv, t)
<1>1. B.map = map /\ B.support = t.support \cup {addr}
  BY DEF Bind
<1>2. /\ DOMAIN map = Keys(t) \cup {addr} /\ map[addr] = itv
      /\ \A a \in Keys(t) : a # addr => map[a] = t.map[a]
  OBVIOUS
<1> HIDE DEF map, B
<1>3. Keys(B) = DOMAIN map
  BY <1>1 DEF Keys
<1> QED BY <1>1, <1>2, <1>3 DEF B

LEMMA BindWithin ==
  ASSUME NEW m, NEW h \in Int, NEW t, TableWithin(t, m, h), NEW addr \in 1..m,
         NEW itv, Within(itv, window, h)
  PROVE  TableWithin(Bind(addr, itv, t), m, h)
<1> DEFINE B == Bind(addr, itv, t)
<1>1. /\ Keys(B) = Keys(t) \cup {addr} /\ B.map[addr] = itv
      /\ \A a \in Keys(t) : a # addr => B.map[a] = t.map[a]
  BY BindIs
<1> HIDE DEF B
<1>2. Keys(B) \subseteq 1..m /\ \A a \in Keys(B) : Within(B.map[a], window, h)
  BY <1>1 DEF TableWithin
<1> QED BY <1>2 DEF TableWithin, B

(* The slots that stay as they are, and those that are no longer free.     *)
Certain(st) == {i \in Slots : NotInserted(st.first[i]) = Bot}
LastTried(st) == IF Certain(st) = {} THEN window ELSE Min(Certain(st))
Rests(st) == [i \in Slots |-> IF i <= LastTried(st) THEN NotInserted(st.first[i]) ELSE st.first[i]]
InSlot(addr, st, i) == State([Rests(st) EXCEPT ![i] = InsertedHere(addr, st.first[i])], st.others)

LEMMA InsertIs ==
  ASSUME NEW addr, NEW st
  PROVE  /\ \A r \in Insert(addr, st) :
              /\ ~IsBottom(r.st)
              /\ \/ \E i \in Slots : /\ i <= LastTried(st) /\ st.first[i].free
                                     /\ r = Result(Const(i), InSlot(addr, st, i))
                 \/ r \in InsertOthers(addr, State(Rests(st), st.others))
         /\ \A i \in Slots : i <= LastTried(st) /\ st.first[i].free /\ ~IsBottom(InSlot(addr, st, i))
              => Result(Const(i), InSlot(addr, st, i)) \in Insert(addr, st)
         /\ ~IsBottom(State(Rests(st), st.others))
              => InsertOthers(addr, State(Rests(st), st.others)) \subseteq Insert(addr, st)
<1>1. InsertFirst(addr, st) =
        [cases |-> {Result(Const(i), InSlot(addr, st, i)) : i \in {j \in Slots : j <= LastTried(st) /\ st.first[j].free}},
         rest |-> State(Rests(st), st.others)]
  BY Zenon DEF InsertFirst, Rests, LastTried, Certain, InSlot
<1> DEFINE cases == {Result(Const(i), InSlot(addr, st, i)) : i \in {j \in Slots : j <= LastTried(st) /\ st.first[j].free}}
           rest == State(Rests(st), st.others)
<1>2. InsertFirst(addr, st).cases = cases /\ InsertFirst(addr, st).rest = rest
  BY <1>1
<1>3. \A r \in InsertOthers(addr, rest) : IsBottom(r.st) => IsBottom(rest)
  BY DEF InsertOthers, Result, State, IsBottom
<1>4. \A r \in cases : \E i \in Slots : /\ i <= LastTried(st) /\ st.first[i].free
                                        /\ r = Result(Const(i), InSlot(addr, st, i))
  OBVIOUS
<1>5. \A i \in Slots : i <= LastTried(st) /\ st.first[i].free => Result(Const(i), InSlot(addr, st, i)) \in cases
  OBVIOUS
<1>6. \A i \in Slots : Result(Const(i), InSlot(addr, st, i)).st = InSlot(addr, st, i)
  BY DEF Result
<1> HIDE DEF cases, rest
<1>7. Insert(addr, st) = {r \in cases : ~IsBottom(r.st)} \cup (IF IsBottom(rest) THEN {} ELSE InsertOthers(addr, rest))
  BY <1>2 DEF Insert
<1>8. \A r \in Insert(addr, st) :
              /\ ~IsBottom(r.st)
              /\ \/ \E i \in Slots : /\ i <= LastTried(st) /\ st.first[i].free
                                     /\ r = Result(Const(i), InSlot(addr, st, i))
                 \/ r \in InsertOthers(addr, rest)
  BY <1>3, <1>4, <1>7
<1>9. \A i \in Slots : i <= LastTried(st) /\ st.first[i].free /\ ~IsBottom(InSlot(addr, st, i))
              => Result(Const(i), InSlot(addr, st, i)) \in Insert(addr, st)
  BY <1>5, <1>6, <1>7
<1>10. ~IsBottom(rest) => InsertOthers(addr, rest) \subseteq Insert(addr, st)
  BY <1>7
<1> QED BY <1>8, <1>9, <1>10 DEF rest

(* The slots of each result.                                               *)
LEMMA RestsIs ==
  ASSUME NEW st
  PROVE  \A i \in Slots : Rests(st)[i] = IF i <= LastTried(st) THEN NotFree(st.first[i].taken) ELSE st.first[i]
  BY DEF Rests, NotInserted

LEMMA InSlotIs ==
  ASSUME NEW addr, NEW st, NEW i \in Slots, st.first[i].free
  PROVE  InSlot(addr, st, i).first[i] = NotFree(st.first[i].taken \cup {addr})
<1>1. DOMAIN Rests(st) = Slots
  BY DEF Rests
<1>2. InsertedHere(addr, st.first[i]) = NotFree(st.first[i].taken \cup {addr})
  BY DEF InsertedHere
<1> QED BY <1>1, <1>2 DEF InSlot, State

LEMMA InSlotElsewhere ==
  ASSUME NEW addr, NEW st, NEW i \in Slots, NEW j \in Slots, j # i
  PROVE  InSlot(addr, st, i).first[j] = Rests(st)[j]
  BY DEF InSlot, State, Rests

LEMMA InSlotOthers == ASSUME NEW addr, NEW st, NEW i PROVE InSlot(addr, st, i).others = st.others
  BY DEF InSlot, State

LEMMA OthersIs ==
  ASSUME NEW addr, NEW first, NEW others, NEW r \in InsertOthers(addr, State(first, others))
  PROVE  /\ r.itv = NewItv(others) /\ ~IsEmpty(r.itv)
         /\ r.st = State(first, Bind(addr, r.itv, others))
         /\ r.st.first = first /\ r.st.others = Bind(addr, r.itv, others)
  BY DEF InsertOthers, State, Result

LEMMA OthersAre ==
  ASSUME NEW addr, NEW first, NEW others, ~IsEmpty(NewItv(others))
  PROVE  \E r \in InsertOthers(addr, State(first, others)) :
           r.itv = NewItv(others) /\ r.st.first = first /\ r.st.others = Bind(addr, r.itv, others)
  BY DEF InsertOthers, State, Result

(* No result of a registration takes an address away from a slot or, but   *)
(* for the address it binds, from the table.                               *)
LEMMA InsertKeeps ==
  ASSUME NEW st, NEW addr, NEW r \in Insert(addr, st)
  PROVE  /\ ~IsBottom(r.st)
         /\ \A i \in Slots : st.first[i].taken \subseteq r.st.first[i].taken
         /\ \A i \in Slots : r.st.first[i].taken \subseteq st.first[i].taken \cup {addr}
         /\ \A a, n : a # addr /\ BoundTo(a, st.others, n) => BoundTo(a, r.st.others, n)
         /\ r.st.others.support \subseteq st.others.support \cup {addr}
<1> DEFINE Kept(s) ==
         /\ \A i \in Slots : st.first[i].taken \subseteq s.first[i].taken
         /\ \A i \in Slots : s.first[i].taken \subseteq st.first[i].taken \cup {addr}
         /\ \A a, n : a # addr /\ BoundTo(a, st.others, n) => BoundTo(a, s.others, n)
         /\ s.others.support \subseteq st.others.support \cup {addr}
<1>1. \A i \in Slots : Rests(st)[i].taken = st.first[i].taken
  <2> TAKE i \in Slots
  <2>1. Rests(st)[i] = NotFree(st.first[i].taken) \/ Rests(st)[i] = st.first[i]
    BY RestsIs, Zenon
  <2> QED BY <2>1 DEF NotFree, Slot
<1>2. ASSUME NEW i \in Slots, st.first[i].free PROVE Kept(InSlot(addr, st, i))
  <2>1. InSlot(addr, st, i).first[i].taken = st.first[i].taken \cup {addr}
    <3>1. InSlot(addr, st, i).first[i] = NotFree(st.first[i].taken \cup {addr})
      BY <1>2, InSlotIs, Zenon
    <3> QED BY <3>1 DEF NotFree, Slot
  <2>2. /\ \A j \in Slots : j # i => InSlot(addr, st, i).first[j] = Rests(st)[j]
        /\ InSlot(addr, st, i).others = st.others
    <3> HIDE DEF Kept
    <3> QED BY InSlotElsewhere, InSlotOthers, Zenon
  <2> QED BY <1>1, <2>1, <2>2
<1>3. ASSUME r \in InsertOthers(addr, State(Rests(st), st.others)) PROVE Kept(r.st)
  <2>1. r.st.first = Rests(st) /\ r.st.others = Bind(addr, r.itv, st.others)
    BY <1>3, OthersIs
  <2>2. /\ \A a \in Keys(st.others) : a # addr => r.st.others.map[a] = st.others.map[a]
        /\ Keys(r.st.others) = Keys(st.others) \cup {addr}
        /\ r.st.others.support = st.others.support \cup {addr}
    BY <2>1, BindIs
  <2>3. \A a, n : a # addr /\ BoundTo(a, st.others, n) => BoundTo(a, r.st.others, n)
    BY <2>2 DEF BoundTo
  <2> QED BY <1>1, <2>1, <2>2, <2>3
<1>4. \A i \in Slots : Result(Const(i), InSlot(addr, st, i)).st = InSlot(addr, st, i)
  BY DEF Result
<1>5. Kept(r.st) /\ ~IsBottom(r.st)
  <2> HIDE DEF Kept
  <2> QED BY <1>2, <1>3, <1>4, InsertIs
<1> QED BY <1>5

(* The results of a registration are within bounds.                        *)
LEMMA InsertKeepsAt ==
  ASSUME NEW st, NEW addr, NEW r \in Insert(addr, st), NEW a, a # addr, NEW n, At(a, st, n)
  PROVE  At(a, r.st, n)
<1>1. CASE n \in Slots
  BY <1>1, InsertKeeps DEF At
<1>2. CASE n \notin Slots
  BY <1>2, InsertKeeps DEF At
<1> QED BY <1>1, <1>2

LEMMA InsertAddressed ==
  ASSUME NEW m \in Nat, NEW h \in Int, window - 1 <= h, NEW st, Addressed(st, m, h),
         NEW addr \in 1..m, NEW r \in Insert(addr, st)
  PROVE  Addressed(r.st, m, h + 1) /\ Within(r.itv, 0, h + 1)
<1>0. window = 3 /\ \A i \in Slots : i \in Int /\ 0 <= i /\ i < window
  BY DEF window, Slots
<1>1. Addressed(st, m, h + 1)
  BY AddressedMore
<1>2. \A i \in Slots : r.st.first[i].taken \subseteq 1..m
  BY InsertKeeps DEF Addressed
<1>3. ASSUME NEW i \in Slots, st.first[i].free, r = Result(Const(i), InSlot(addr, st, i))
      PROVE  TableWithin(r.st.others, m, h + 1) /\ Within(r.itv, 0, h + 1)
  <2>1. r.itv.lo = i /\ r.itv.hi = i /\ r.st.others = st.others
    <3>1. InSlot(addr, st, i).others = st.others
      BY InSlotOthers
    <3> QED BY <1>3, <3>1 DEF Result, Const, Itv
  <2> QED BY <1>0, <1>1, <2>1 DEF Within, Addressed
<1>4. ASSUME r \in InsertOthers(addr, State(Rests(st), st.others))
      PROVE  TableWithin(r.st.others, m, h + 1) /\ Within(r.itv, 0, h + 1)
  <2>1. r.itv = NewItv(st.others) /\ ~IsEmpty(r.itv) /\ r.st.others = Bind(addr, r.itv, st.others)
    BY <1>4, OthersIs
  <2>2. /\ r.itv.lo \in Int /\ r.itv.hi \in Int
        /\ window <= r.itv.lo /\ r.itv.hi <= h + 1
    BY <2>1, NewItvIs DEF Addressed
  <2>3. Within(r.itv, window, h + 1)
    BY <2>1, <2>2 DEF Within, IsEmpty
  <2>4. Within(r.itv, 0, h + 1)
    BY <1>0, <2>3 DEF Within
  <2> QED BY <1>1, <2>1, <2>3, <2>4, BindWithin DEF Addressed
<1>5. TableWithin(r.st.others, m, h + 1) /\ Within(r.itv, 0, h + 1)
  BY <1>3, <1>4, InsertIs
<1> QED BY <1>2, <1>5 DEF Addressed

LEMMA SlotIs ==
  ASSUME NEW s, SlotShape(s)
  PROVE  /\ s = Bot <=> ~s.free /\ s.taken = {}
         /\ s = Free <=> s.free /\ s.taken = {}
         /\ s.free \in BOOLEAN
<1> DEFINE free == s.free
           taken == s.taken
<1>1. s = Slot(free, taken) /\ free \in BOOLEAN
  BY DEF SlotShape
<1> HIDE DEF free, taken
<1>2. s = Bot <=> ~free /\ taken = {}
  BY <1>1 DEF Slot, Bot
<1>3. s = Free <=> free /\ taken = {}
  BY <1>1 DEF Slot, Free
<1> QED BY <1>1, <1>2, <1>3 DEF free, taken

LEMMA NotFreeIs ==
  ASSUME NEW addrs
  PROVE  NotFree(addrs).taken = addrs /\ ~NotFree(addrs).free /\ (NotFree(addrs) = Bot <=> addrs = {})
  BY DEF NotFree, Slot, Bot

(* Slots are tried up to the first one that is certainly free.             *)
LEMMA LastTriedIs ==
  ASSUME NEW st, NEW i \in Slots
  PROVE  /\ (\A j \in Slots : j < i => st.first[j].taken # {}) => i <= LastTried(st)
         /\ i < LastTried(st) => st.first[i].taken # {}
         /\ i = LastTried(st) => st.first[i].taken = {}
<1>0. window = 3 /\ Slots \in SUBSET Nat /\ \A j \in Slots : j \in Nat /\ j < window
  BY DEF window, Slots
<1>1. \A j \in Slots : j \in Certain(st) <=> st.first[j].taken = {}
  BY NotFreeIs DEF Certain, NotInserted
<1>2. CASE Certain(st) = {}
  BY <1>0, <1>1, <1>2 DEF LastTried
<1>3. CASE Certain(st) # {}
  <2>1. Certain(st) \in SUBSET Nat /\ LastTried(st) = Min(Certain(st))
    BY <1>0, <1>3 DEF Certain, LastTried
  <2>2. LastTried(st) \in Certain(st) /\ \A y \in Certain(st) : LastTried(st) <= y
    BY <1>3, <2>1, MinIs
  <2>3. LastTried(st) \in Slots
    BY <2>2 DEF Certain
  <2> DEFINE last == LastTried(st)
  <2>4. last \in Slots /\ st.first[last].taken = {} /\ \A y \in Slots : st.first[y].taken = {} => last <= y
    BY <1>1, <2>2, <2>3
  <2>5. last \in Nat /\ i \in Nat
    BY <1>0, <2>4
  <2> HIDE DEF last
  <2>6. /\ (\A j \in Slots : j < i => st.first[j].taken # {}) => i <= last
        /\ i < last => st.first[i].taken # {}
        /\ i = last => st.first[i].taken = {}
    BY <2>4, <2>5
  <2> QED BY <2>6 DEF last
<1> QED BY <1>2, <1>3

(* A join with a state that is not bottom is not bottom.                   *)
LEMMA JoinNotBottom ==
  ASSUME NEW states, NEW m, NEW h \in Int, \A s \in states : Addressed(s, m, h),
         NEW s \in states, ~IsBottom(s), WellFormed(s), WellFormed(Join(states))
  PROVE  ~IsBottom(Join(states))
<1> SUFFICES ASSUME NEW i \in Slots PROVE Join(states).first[i] # Bot
  BY DEF IsBottom
<1>1. SlotShape(s.first[i]) /\ s.first[i] # Bot
  BY DEF WellFormed, IsBottom
<1>2. s.first[i].free \/ s.first[i].taken # {}
  BY <1>1, SlotIs
<1>3. Join(states).first[i].free \/ Join(states).first[i].taken # {}
  BY <1>2, JoinKeeps
<1> QED BY <1>3 DEF Bot, Slot

(* No registration puts NULL in a slot.                                    *)
LEMMA InsertWellFormed ==
  ASSUME NEW st, WellFormed(st), NEW addr, addr # NoAddr, NEW r \in Insert(addr, st)
  PROVE  WellFormed(r.st)
<1> DEFINE rests == Rests(st)
<1>1. (\A i \in Slots : SlotShape(rests[i])) /\ rests = [i \in Slots |-> rests[i]]
  BY DEF Rests, WellFormed, SlotShape, NotInserted, NotFree, Slot
<1>2. ASSUME NEW i \in Slots, r = Result(Const(i), InSlot(addr, st, i))
      PROVE  WellFormed(r.st)
  <2>1. SlotShape(InsertedHere(addr, st.first[i]))
    BY DEF WellFormed, SlotShape, InsertedHere, NotFree, Slot, Bot
  <2>2. /\ r.st.first = [rests EXCEPT ![i] = InsertedHere(addr, st.first[i])]
        /\ r.st = State(r.st.first, r.st.others)
    BY <1>2 DEF Result, State, InSlot
  <2> HIDE DEF rests
  <2>3. \A j \in Slots : r.st.first[j] = IF j = i THEN InsertedHere(addr, st.first[i]) ELSE rests[j]
    BY <1>1, <2>2
  <2>4. r.st.first = [j \in Slots |-> r.st.first[j]]
    BY <1>1, <2>2
  <2> QED BY <1>1, <2>1, <2>2, <2>3, <2>4 DEF WellFormed
<1>3. ASSUME r \in InsertOthers(addr, State(rests, st.others)) PROVE WellFormed(r.st)
  <2>1. r.st.first = rests /\ r.st = State(r.st.first, r.st.others)
    BY <1>3 DEF InsertOthers, Result, State
  <2> QED BY <1>1, <2>1 DEF WellFormed
<1> QED BY <1>2, <1>3, InsertIs

LEMMA LastTriedNat == ASSUME NEW st PROVE LastTried(st) \in Nat
<1>0. window = 3 /\ Slots \in SUBSET Nat
  BY DEF window, Slots
<1>1. CASE Certain(st) = {}
  BY <1>0, <1>1 DEF LastTried
<1>2. CASE Certain(st) # {}
  BY <1>0, <1>2, MinIs DEF LastTried, Certain
<1> QED BY <1>1, <1>2

(* A slot that is certainly free, the first one, is taken in every result; *)
(* the slots after it stay as they are.                                    *)
LEMMA LaterSlots ==
  ASSUME NEW st, NEW n \in Slots, st.first[n] = Free, NEW addr, NEW r \in Insert(addr, st),
         NEW j \in Slots, n < j
  PROVE  r.st.first[j] = st.first[j]
<1>0. \A i \in Slots : i \in Nat
  BY DEF Slots
<1>1. st.first[n].taken = {}
  BY DEF Free, Slot
<1>2. ~(n < LastTried(st))
  BY <1>1, LastTriedIs
<1> DEFINE last == LastTried(st)
<1>3. \A i \in Slots : i <= last => i # j
  <2>1. last \in Nat
    BY LastTriedNat
  <2> HIDE DEF last
  <2>2. ~(n < last)
    BY <1>2 DEF last
  <2> QED BY <1>0, <2>1, <2>2
<1>4. Rests(st)[j] = st.first[j]
  BY <1>3, RestsIs
<1>5. ASSUME NEW i \in Slots, i <= LastTried(st), r = Result(Const(i), InSlot(addr, st, i))
      PROVE  r.st.first[j] = st.first[j]
  <2>1. r.st = InSlot(addr, st, i) /\ j # i
    BY <1>3, <1>5 DEF Result
  <2> QED BY <1>4, <2>1, InSlotElsewhere
<1>6. ASSUME r \in InsertOthers(addr, State(Rests(st), st.others)) PROVE r.st.first[j] = st.first[j]
  BY <1>4, <1>6, OthersIs
<1> QED BY <1>5, <1>6, InsertIs

LEMMA FirstFreeIs ==
  ASSUME NEW st, NEW n \in Slots, st.first[n] = Free, \A j \in Slots : j < n => st.first[j].taken # {},
         NEW addr, NEW r \in Insert(addr, st)
  PROVE  r = Result(Const(n), InSlot(addr, st, n)) /\ n <= LastTried(st) /\ st.first[n].taken = {} /\ st.first[n].free
<1>1. n <= LastTried(st) /\ st.first[n].taken = {} /\ st.first[n].free
  BY LastTriedIs DEF Free, Slot
<1>2. Rests(st)[n] = Bot
  BY <1>1, RestsIs, NotFreeIs
<1>3. ~IsBottom(r.st)
  BY InsertIs
<1>4. r \notin InsertOthers(addr, State(Rests(st), st.others))
  BY <1>2, <1>3, OthersIs DEF IsBottom
<1>5. r = Result(Const(n), InSlot(addr, st, n))
  <2>1. PICK i \in Slots : st.first[i].free /\ r = Result(Const(i), InSlot(addr, st, i))
    BY <1>4, InsertIs
  <2>2. CASE i = n
    BY <2>1, <2>2
  <2>3. CASE i # n
    <3>1. r.st = InSlot(addr, st, i)
      BY <2>1 DEF Result
    <3>2. r.st.first[n] = Bot
      BY <1>2, <2>3, <3>1, InSlotElsewhere
    <3> QED BY <1>3, <3>2 DEF IsBottom
  <2> QED BY <2>2, <2>3
<1> QED BY <1>1, <1>5

LEMMA FirstFreeTaken ==
  ASSUME NEW st, NEW n \in Slots, st.first[n] = Free, \A j \in Slots : j < n => st.first[j].taken # {},
         NEW addr, NEW r \in Insert(addr, st)
  PROVE  /\ r.itv = Const(n) /\ r.st.others = st.others
         /\ r.st.first[n] = NotFree({addr})
         /\ \A j \in Slots : j < n => r.st.first[j] = NotFree(st.first[j].taken)
<1>1. n <= LastTried(st) /\ st.first[n].taken = {} /\ st.first[n].free
  BY FirstFreeIs
<1>5. r = Result(Const(n), InSlot(addr, st, n))
  BY FirstFreeIs
<1>6. r.itv = Const(n) /\ r.st = InSlot(addr, st, n)
  BY <1>5 DEF Result
<1>7. r.st.others = st.others
  BY <1>6, InSlotOthers
<1>8. r.st.first[n] = NotFree({addr})
  <2>1. r.st.first[n] = NotFree(st.first[n].taken \cup {addr})
    BY <1>1, <1>6, InSlotIs
  <2>2. st.first[n].taken \cup {addr} = {addr}
    BY <1>1
  <2> QED BY <2>1, <2>2
<1>9. ASSUME NEW j \in Slots, j < n PROVE r.st.first[j] = NotFree(st.first[j].taken)
  <2>1. r.st.first[j] = Rests(st)[j]
    BY <1>6, <1>9, InSlotElsewhere DEF Slots
  <2>2. j <= LastTried(st)
    <3>1. j \in Int /\ n \in Int /\ LastTried(st) \in Int
      BY LastTriedNat DEF Slots
    <3> QED BY <1>1, <1>9, <3>1
  <2> QED BY <2>1, <2>2, RestsIs
<1> QED BY <1>6, <1>7, <1>8, <1>9

(* The descriptor that a registration must return, in the window: no slot  *)
(* before it is known to be free, it may be free, and no later one is      *)
(* certainly free unless it is too.                                        *)
LEMMA InsertInWindow ==
  ASSUME NEW st, WellFormed(st), ~IsBottom(st), NEW addr, NEW n \in Slots,
         \A j \in Slots : j < n => st.first[j].taken # {},
         st.first[n].free,
         \A j \in Slots : n < j => ~(st.first[n] # Free /\ st.first[j] = Free)
  PROVE  \E r \in Insert(addr, st) :
           /\ Contains(r.itv, n) /\ At(addr, r.st, n)
           /\ r.st.others = st.others
<1>0. window = 3 /\ \A j \in Slots : j \in Nat /\ j < window
  BY DEF window, Slots
<1>1. n <= LastTried(st)
  BY LastTriedIs
<1> DEFINE s == InSlot(addr, st, n)
           r == Result(Const(n), s)
<1>2. s.first[n] = NotFree(st.first[n].taken \cup {addr})
  BY InSlotIs
<1>3. \A j \in Slots : j # n => s.first[j] = Rests(st)[j]
  BY InSlotElsewhere
<1>4. s.others = st.others
  BY InSlotOthers
<1>5. \A j \in Slots : SlotShape(st.first[j]) /\ st.first[j] # Bot
  BY DEF WellFormed, IsBottom
<1>6. \A j \in Slots : Rests(st)[j] = IF j <= LastTried(st) THEN NotFree(st.first[j].taken) ELSE st.first[j]
  BY RestsIs
<1>7. LastTried(st) \in Nat
  BY LastTriedNat
<1> HIDE DEF s
<1>8. ASSUME NEW j \in Slots PROVE s.first[j] # Bot
  <2>1. CASE j = n
    BY <1>2, <2>1, NotFreeIs
  <2>2. CASE j # n /\ st.first[j].taken # {}
    BY <1>3, <1>5, <1>6, <2>2, NotFreeIs
  <2>3. CASE j # n /\ st.first[j].taken = {}
    <3>1. n < j
      BY <1>0, <2>3
    <3>2. st.first[j] = Free
      BY <1>5, <2>3, SlotIs
    <3>3. st.first[n].taken = {}
      BY <1>5, <3>1, <3>2, SlotIs
    <3>4. ~(n < LastTried(st))
      BY <3>3, LastTriedIs
    <3>5. ~(j <= LastTried(st))
      BY <1>0, <1>7, <3>1, <3>4
    <3> QED BY <1>3, <1>5, <1>6, <2>3, <3>5
  <2> QED BY <2>1, <2>2, <2>3
<1>9. r \in Insert(addr, st)
  <2>1. ~IsBottom(s)
    BY <1>8 DEF IsBottom
  <2> QED BY <1>1, <2>1, InsertIs DEF s
<1>10. r.itv = Const(n) /\ r.st = s
  BY DEF Result
<1>11. Contains(r.itv, n)
  BY <1>0, <1>10 DEF Contains, Const, Itv
<1>12. At(addr, s, n)
  BY <1>2, NotFreeIs DEF At
<1> HIDE DEF r
<1> QED BY <1>4, <1>9, <1>10, <1>11, <1>12

(* After the window: every slot has an address.                            *)
LEMMA InsertBeyond ==
  ASSUME NEW m \in Nat, NEW h \in Int, window - 1 <= h, NEW st, Addressed(st, m, h),
         NEW addr, NEW n \in Nat, window <= n,
         \A j \in Slots : st.first[j].taken # {},
         n = window \/ Reached(st.others, n - 1),
         \A a \in st.others.support \cap Keys(st.others) :
           ~(st.others.map[a].lo = n /\ st.others.map[a].hi = n)
  PROVE  \E r \in Insert(addr, st) :
           /\ r.itv = NewItv(st.others) /\ Contains(r.itv, n) /\ At(addr, r.st, n)
           /\ r.st.others = Bind(addr, r.itv, st.others)
<1>0. window = 3 /\ n \notin Slots
  BY DEF window, Slots
<1> DEFINE itv == NewItv(st.others)
<1>1. itv.lo \in Int /\ itv.hi \in Int /\ Contains(itv, n)
  <2>1. n = window \/ (window < n /\ Reached(st.others, n - 1))
    BY <1>0
  <2> QED BY <2>1, NewItvIs DEF Addressed
<1>2. ~IsEmpty(itv)
  BY <1>1 DEF IsEmpty, Contains
<1>3. \A j \in Slots : Rests(st)[j] # Bot
  <2> TAKE j \in Slots
  <2>1. Rests(st)[j] = NotFree(st.first[j].taken) \/ Rests(st)[j] = st.first[j]
    BY RestsIs, Zenon
  <2>2. st.first[j] # Bot
    BY DEF Bot, Slot
  <2> QED BY <2>1, <2>2, NotFreeIs
<1>4. ~IsBottom(State(Rests(st), st.others))
  BY <1>3 DEF IsBottom, State
<1> HIDE DEF itv
<1>5. PICK r \in InsertOthers(addr, State(Rests(st), st.others)) :
           r.itv = itv /\ r.st.others = Bind(addr, r.itv, st.others)
  BY <1>2, OthersAre DEF itv
<1>6. r \in Insert(addr, st)
  BY <1>4, InsertIs
<1>7. BoundTo(addr, r.st.others, n)
  BY <1>1, <1>5, BindIs DEF BoundTo
<1>8. At(addr, r.st, n)
  BY <1>0, <1>7 DEF At
<1> QED BY <1>1, <1>5, <1>6, <1>8 DEF itv

(* dup2 and fdopen bind an address to a given descriptor.                  *)
LEMMA TableInsertAtIs ==
  ASSUME NEW m, NEW h \in Int, NEW t, TableWithin(t, m, h), NEW addr \in 1..m,
         NEW itv, Within(itv, window, h)
  PROVE  LET B == TableInsertAt(addr, itv, t)
         IN  /\ TableWithin(B, m, h)
             /\ \A n \in Int : Contains(itv, n) => BoundTo(addr, B, n)
             /\ \A a, n : a # addr /\ BoundTo(a, t, n) => BoundTo(a, B, n)
             /\ Keys(B) = Keys(t) \cup {addr} /\ B.support = t.support \cup {addr}
<1> DEFINE bound == IF addr \in Keys(t) THEN Hull({itv, t.map[addr]}) ELSE itv
           B == TableInsertAt(addr, itv, t)
<1>1. Within(bound, window, h) /\ \A n \in Int : Contains(itv, n) => Contains(bound, n)
  <2>1. CASE addr \in Keys(t)
    <3> DEFINE itvs == {itv, t.map[addr]}
    <3>1. itvs # {} /\ itv \in itvs /\ \A i \in itvs : Within(i, window, h)
      BY <2>1 DEF TableWithin
    <3>2. bound = Hull(itvs) /\ window \in Int
      BY <2>1 DEF window
    <3> HIDE DEF itvs, bound
    <3> QED BY <3>1, <3>2, HullIs
  <2>2. CASE addr \notin Keys(t)
    BY <2>2
  <2> QED BY <2>1, <2>2
<1>2. B = Bind(addr, bound, t)
  BY DEF TableInsertAt
<1> HIDE DEF B, bound
<1>3. TableWithin(B, m, h)
  BY <1>1, <1>2, BindWithin
<1>4. /\ addr \in Keys(B) /\ B.map[addr] = bound
      /\ Keys(B) = Keys(t) \cup {addr} /\ B.support = t.support \cup {addr}
  BY <1>2, BindIs
<1>5. \A a, n : a # addr /\ BoundTo(a, t, n) => BoundTo(a, B, n)
  BY <1>2, BindIs DEF BoundTo
<1> QED BY <1>1, <1>3, <1>4, <1>5 DEF BoundTo, B

LEMMA SlotAddIs ==
  ASSUME NEW addr, NEW s
  PROVE  /\ SlotAdd(addr, s).taken \subseteq s.taken \cup {addr}
         /\ s # Bot => /\ SlotAdd(addr, s) # Bot /\ SlotAdd(addr, s).taken = s.taken \cup {addr}
                       /\ ~SlotAdd(addr, s).free
  BY NotFreeIs DEF SlotAdd, Bot, Slot

(* The part of an interval that is after the window.                       *)
LEMMA BeyondIs ==
  ASSUME NEW l \in Int, NEW h \in Int, NEW itv, Within(itv, l, h), window <= itv.hi
  PROVE  LET beyond == Itv(Max({itv.lo, window}), itv.hi)
         IN  /\ Within(beyond, window, h)
             /\ \A n \in Int : window <= n /\ Contains(itv, n) => Contains(beyond, n)
<1> DEFINE S == {itv.lo, window}
           lo == Max(S)
<1>0. window \in Int
  BY DEF window
<1>1. S \in SUBSET Int /\ S # {} /\ itv.lo \in S /\ window \in S /\ \A y \in S : y <= itv.hi
  BY <1>0 DEF Within
<1>2. itv.hi \in Int
  BY DEF Within
<1> HIDE DEF S
<1>3. lo \in S /\ \A y \in S : y <= lo
  BY <1>1, <1>2, MaxOfBounded
<1>4. lo = itv.lo \/ lo = window
  BY <1>3 DEF S
<1>5. itv.lo <= lo /\ window <= lo
  BY <1>1, <1>3
<1> HIDE DEF lo
<1> DEFINE beyond == Itv(lo, itv.hi)
<1>6. beyond.lo = lo /\ beyond.hi = itv.hi
  BY DEF Itv
<1> HIDE DEF beyond
<1>7. Within(beyond, window, h)
  BY <1>0, <1>4, <1>5, <1>6 DEF Within
<1>8. \A n \in Int : window <= n /\ Contains(itv, n) => Contains(beyond, n)
  BY <1>4, <1>6 DEF Contains
<1> QED BY <1>7, <1>8 DEF beyond, lo, S

LEMMA InsertAtAddressed ==
  ASSUME NEW m \in Nat, NEW h \in Int, NEW st, Addressed(st, m, h), NEW addr \in 1..m,
         NEW itv, Within(itv, -1, h), NEW s \in InsertAt(addr, itv, st)
  PROVE  Addressed(s, m, h)
<1>1. CASE \E i \in Slots : s = State([st.first EXCEPT ![i] = SlotAdd(addr, @)], st.others)
  <2>1. PICK i \in Slots : s = State([st.first EXCEPT ![i] = SlotAdd(addr, st.first[i])], st.others)
    BY <1>1
  <2>2. s.others = st.others /\ s.first = [st.first EXCEPT ![i] = SlotAdd(addr, st.first[i])]
    BY <2>1 DEF State
  <2>3. \A j \in Slots : s.first[j] = SlotAdd(addr, st.first[i]) \/ s.first[j] = st.first[j]
    BY <2>2
  <2>4. SlotAdd(addr, st.first[i]).taken \subseteq 1..m
    BY SlotAddIs DEF Addressed
  <2> QED BY <2>2, <2>3, <2>4 DEF Addressed
<1>2. CASE /\ ~(itv.hi < window)
           /\ s = State(st.first, TableInsertAt(addr, Itv(Max({itv.lo, window}), itv.hi), st.others))
  <2> DEFINE beyond == Itv(Max({itv.lo, window}), itv.hi)
  <2>1. window <= itv.hi
    BY <1>2 DEF Within, window
  <2>2. Within(beyond, window, h)
    BY <2>1, BeyondIs
  <2> HIDE DEF beyond
  <2>3. s.first = st.first /\ s.others = TableInsertAt(addr, beyond, st.others)
    BY <1>2 DEF beyond, State
  <2> QED BY <2>2, <2>3, TableInsertAtIs DEF Addressed
<1> QED BY <1>1, <1>2 DEF InsertAt

(* One result of a registration at a descriptor of an interval adds an     *)
(* address to that descriptor and changes no other.                        *)
Registers(addr, n, st, s) ==
  /\ ~IsBottom(s) /\ At(addr, s, n)
  /\ \A a, k : a # addr /\ At(a, st, k) => At(a, s, k)
  /\ \A i \in Slots : i # n /\ st.first[i].free => s.first[i].free
  /\ n \in Slots => s.others = st.others
  /\ s.others.support \subseteq st.others.support \cup {addr}

LEMMA InsertAtCovers ==
  ASSUME NEW m \in Nat, NEW h \in Int, NEW st, WellFormed(st), Addressed(st, m, h), ~IsBottom(st),
         NEW addr \in 1..m, NEW itv, Within(itv, -1, h), NEW n \in Nat, Contains(itv, n)
  PROVE  \E s \in InsertAt(addr, itv, st) : Registers(addr, n, st, s)
<1>0. window = 3 /\ (n \in Slots <=> n < window)
  BY DEF window, Slots
<1>1. CASE n \in Slots
  <2> DEFINE s == State([st.first EXCEPT ![n] = SlotAdd(addr, @)], st.others)
             added == SlotAdd(addr, st.first[n])
  <2>1. s \in InsertAt(addr, itv, st)
    BY <1>1 DEF InsertAt
  <2>2. s.first = [st.first EXCEPT ![n] = added] /\ s.others = st.others
    BY DEF State
  <2>3. added # Bot /\ added.taken = st.first[n].taken \cup {addr}
    BY <1>1, SlotAddIs DEF IsBottom
  <2>4. n \in DOMAIN st.first
    <3>1. st.first = [i \in Slots |-> st.first[i]]
      BY DEF WellFormed
    <3> QED BY <1>1, <3>1
  <2> HIDE DEF s, added
  <2>5. s.first[n] = added /\ \A i \in Slots : i # n => s.first[i] = st.first[i]
    BY <2>2, <2>4
  <2>6. ~IsBottom(s)
    BY <2>3, <2>5 DEF IsBottom
  <2>7. \A a, k : a # addr /\ At(a, st, k) => At(a, s, k)
    BY <2>2, <2>3, <2>5 DEF At
  <2>8. At(addr, s, n)
    BY <1>1, <2>3, <2>5 DEF At
  <2>9. \A i \in Slots : i # n /\ st.first[i].free => s.first[i].free
    BY <2>5
  <2>10. Registers(addr, n, st, s)
    BY <2>2, <2>6, <2>7, <2>8, <2>9 DEF Registers
  <2> QED BY <2>1, <2>10
<1>2. CASE n \notin Slots
  <2> DEFINE beyond == Itv(Max({itv.lo, window}), itv.hi)
             s == State(st.first, TableInsertAt(addr, beyond, st.others))
  <2>1. window <= n /\ window <= itv.hi
    BY <1>0, <1>2 DEF Contains, Within
  <2>2. s \in InsertAt(addr, itv, st)
    <3>1. ~(itv.hi < window)
      BY <1>0, <2>1 DEF Within
    <3> QED BY <3>1 DEF InsertAt
  <2>3. Within(beyond, window, h) /\ Contains(beyond, n)
    BY <2>1, BeyondIs
  <2> HIDE DEF beyond
  <2>4. s.first = st.first /\ s.others = TableInsertAt(addr, beyond, st.others)
    BY DEF State
  <2> HIDE DEF s
  <2>5. /\ BoundTo(addr, s.others, n)
        /\ \A a, k : a # addr /\ BoundTo(a, st.others, k) => BoundTo(a, s.others, k)
        /\ s.others.support = st.others.support \cup {addr}
    <3> DEFINE t == st.others
               B == TableInsertAt(addr, beyond, t)
    <3>1. TableWithin(t, m, h) /\ n \in Int
      BY DEF Addressed
    <3>2. /\ BoundTo(addr, B, n)
          /\ \A a, k : a # addr /\ BoundTo(a, t, k) => BoundTo(a, B, k)
          /\ B.support = t.support \cup {addr}
      <4> HIDE DEF t
      <4> QED BY <2>3, <3>1, TableInsertAtIs
    <3> QED BY <2>4, <3>2
  <2>6. At(addr, s, n) /\ \A a, k : a # addr /\ At(a, st, k) => At(a, s, k)
    BY <1>2, <2>4, <2>5 DEF At
  <2>7. ~IsBottom(s)
    BY <2>4 DEF IsBottom
  <2>8. Registers(addr, n, st, s)
    BY <1>2, <2>4, <2>5, <2>6, <2>7 DEF Registers
  <2> QED BY <2>2, <2>8
<1> QED BY <1>1, <1>2

----------------------------------------------------------------------------
(* Searches and releases.                                                  *)

(* A descriptor stays in what is left of an interval after the slots that  *)
(* are not its own, and after its own when it has no address.              *)
LEMMA AfterIs ==
  ASSUME NEW l \in Int, NEW h \in Int, NEW itv, itv.lo \in Int, itv.hi \in Int, NEW i \in Slots, NEW st,
         NEW n \in Int, Contains(itv, n), n # i \/ st.first[i].taken = {}
  PROVE  /\ Contains(After(i, itv, st), n)
         /\ After(i, itv, st).lo \in Int /\ After(i, itv, st).hi \in Int
<1>1. i \in Int
  BY DEF Slots, window
<1>2. CASE st.first[i].taken = {} \/ IsEmpty(itv)
  BY <1>2 DEF After
<1>3. CASE ~(st.first[i].taken = {} \/ IsEmpty(itv))
  <2>1. After(i, itv, st) = Differing(itv, Const(i)) /\ n # i
    BY <1>3 DEF After
  <2>2. ~(Const(i).lo = n /\ Const(i).hi = n)
    BY <2>1 DEF Const, Itv
  <2> QED BY <2>1, <2>2, DifferingKeeps, DifferingWithin
<1> QED BY <1>2, <1>3

Rest(itv, st) == After(2, After(1, After(0, itv, st), st), st)

LEMMA RestIs ==
  ASSUME NEW itv, itv.lo \in Int, itv.hi \in Int, NEW st,
         NEW n \in Int, Contains(itv, n), n \in Slots => st.first[n].taken = {}
  PROVE  Contains(Rest(itv, st), n) /\ Rest(itv, st).lo \in Int /\ Rest(itv, st).hi \in Int
<1>0. 0 \in Slots /\ 1 \in Slots /\ 2 \in Slots
  BY DEF Slots, window
<1> DEFINE itv1 == After(0, itv, st)
           itv2 == After(1, itv1, st)
           itv3 == After(2, itv2, st)
<1>1. Contains(itv1, n) /\ itv1.lo \in Int /\ itv1.hi \in Int
  BY <1>0, AfterIs
<1> HIDE DEF itv1
<1>2. Contains(itv2, n) /\ itv2.lo \in Int /\ itv2.hi \in Int
  BY <1>0, <1>1, AfterIs
<1> HIDE DEF itv2
<1>3. Contains(itv3, n) /\ itv3.lo \in Int /\ itv3.hi \in Int
  BY <1>0, <1>2, AfterIs
<1> QED BY <1>3 DEF Rest, itv1, itv2

LEMMA RestBelow ==
  ASSUME NEW itv, itv.lo \in Int, itv.hi \in Int, NEW st PROVE Rest(itv, st).hi \in Int /\ Rest(itv, st).hi <= itv.hi
<1>1. ASSUME NEW i, NEW old, old.lo \in Int, old.hi \in Int
      PROVE  LET new == After(i, old, st) IN new.lo \in Int /\ new.hi \in Int /\ new.hi <= old.hi
  BY <1>1, DifferingWithin DEF After
<1> DEFINE itv1 == After(0, itv, st)
           itv2 == After(1, itv1, st)
           itv3 == After(2, itv2, st)
<1>2. itv1.lo \in Int /\ itv1.hi \in Int /\ itv1.hi <= itv.hi
  BY <1>1
<1> HIDE DEF itv1
<1>3. itv2.lo \in Int /\ itv2.hi \in Int /\ itv2.hi <= itv1.hi
  BY <1>1, <1>2
<1> HIDE DEF itv2
<1>4. itv3.lo \in Int /\ itv3.hi \in Int /\ itv3.hi <= itv2.hi
  BY <1>1, <1>3
<1> HIDE DEF itv3
<1>5. itv3.hi \in Int /\ itv3.hi <= itv.hi
  BY <1>2, <1>3, <1>4
<1> QED BY <1>5 DEF Rest, itv1, itv2, itv3

LEMMA FindAddrIs ==
  ASSUME NEW itv, NEW st
  PROVE  /\ \A i \in Slots : Contains(itv, i) => st.first[i].taken \subseteq FindAddr(itv, st)
         /\ ~IsEmpty(Rest(itv, st)) =>
              /\ \A a \in Keys(st.others) : Meets(Rest(itv, st), st.others.map[a]) => a \in FindAddr(itv, st)
              /\ (\A b \in Keys(st.others) : MayDiffer(Rest(itv, st), st.others.map[b])) => NoAddr \in FindAddr(itv, st)
         /\ FindAddr(itv, st) \subseteq Held(st) \cup {NoAddr}
<1> DEFINE rest == After(2, After(1, After(0, itv, st), st), st)
           slots == UNION {st.first[i].taken : i \in {j \in Slots : Contains(itv, j)}}
           table == {a \in Keys(st.others) : Meets(rest, st.others.map[a])}
           null == {a \in {NoAddr} : \A b \in Keys(st.others) : MayDiffer(rest, st.others.map[b])}
<1>1. FindAddr(itv, st) = slots \cup (IF IsEmpty(rest) THEN {} ELSE table \cup null)
  BY DEF FindAddr
<1>2. \A i \in Slots : Contains(itv, i) => st.first[i].taken \subseteq slots
  OBVIOUS
<1>3. slots \subseteq Held(st) /\ table \subseteq Held(st)
  BY DEF Held
<1> HIDE DEF slots, rest
<1>4. rest = Rest(itv, st)
  BY DEF rest, Rest
<1> QED BY <1>1, <1>2, <1>3, <1>4

(* The addresses of a descriptor are found.                                *)
LEMMA FindAt ==
  ASSUME NEW m \in Nat, NEW h \in Int, NEW st, Addressed(st, m, h),
         NEW itv, itv.lo \in Int, itv.hi \in Int, NEW n \in Int, Contains(itv, n), NEW a, At(a, st, n)
  PROVE  a \in FindAddr(itv, st) \ {NoAddr}
<1>1. CASE n \in Slots
  <2>1. a \in FindAddr(itv, st)
    BY <1>1, FindAddrIs DEF At
  <2>2. a # NoAddr
    BY <1>1 DEF At, Addressed, NoAddr
  <2> QED BY <2>1, <2>2
<1>2. CASE n \notin Slots
  <2> DEFINE rest == Rest(itv, st)
  <2>1. Contains(rest, n) /\ rest.lo \in Int /\ rest.hi \in Int
    BY <1>2, RestIs
  <2>2. a \in Keys(st.others) /\ Contains(st.others.map[a], n)
    BY <1>2 DEF At, BoundTo
  <2>3. a # NoAddr /\ st.others.map[a].lo \in Int /\ st.others.map[a].hi \in Int
    BY <2>2 DEF Addressed, TableWithin, Within, NoAddr
  <2> HIDE DEF rest
  <2>4. ~IsEmpty(rest) /\ Meets(rest, st.others.map[a])
    BY <2>1, <2>2, <2>3 DEF IsEmpty, Meets, Contains
  <2>5. a \in FindAddr(itv, st)
    BY <2>2, <2>4, FindAddrIs DEF rest
  <2> QED BY <2>3, <2>5
<1> QED BY <1>1, <1>2

LEMMA FindCovered ==
  ASSUME NEW m \in Nat, NEW h \in Int, NEW st, Addressed(st, m, h),
         NEW itv, itv.lo \in Int, itv.hi \in Int, NEW n \in Int, Contains(itv, n), Covered(st, n)
  PROVE  FindAddr(itv, st) \ {NoAddr} # {}
<1>1. PICK a : At(a, st, n)
  BY DEF At, Covered
<1> QED BY <1>1, FindAt

(* One that has none may be NULL, and so may one that has no slot and no   *)
(* interval for itself.                                                    *)
LEMMA FindUnbound ==
  ASSUME NEW m \in Nat, NEW h \in Int, NEW st, Addressed(st, m, h),
         NEW itv, itv.lo \in Int, itv.hi \in Int, NEW n \in Int, Contains(itv, n),
         n \in Slots => st.first[n].taken = {},
         \A b \in Keys(st.others) : ~(st.others.map[b].lo = n /\ st.others.map[b].hi = n)
  PROVE  NoAddr \in FindAddr(itv, st)
<1> DEFINE rest == Rest(itv, st)
<1>1. Contains(rest, n) /\ rest.lo \in Int /\ rest.hi \in Int
  BY RestIs
<1> HIDE DEF rest
<1>2. ASSUME NEW b \in Keys(st.others) PROVE MayDiffer(rest, st.others.map[b])
  <2> DEFINE other == st.others.map[b]
  <2>1. ~(other.lo = n /\ other.hi = n)
    OBVIOUS
  <2> HIDE DEF other
  <2> DEFINE left == Differing(rest, other)
  <2>2. Contains(left, n) /\ left.lo \in Int /\ left.hi \in Int
    BY <1>1, <2>1, DifferingKeeps, DifferingWithin
  <2> HIDE DEF left
  <2>3. ~IsEmpty(left)
    BY <2>2 DEF IsEmpty, Contains
  <2> QED BY <2>3 DEF MayDiffer, left, other
<1>3. ~IsEmpty(rest)
  BY <1>1 DEF IsEmpty, Contains
<1> QED BY <1>2, <1>3, FindAddrIs DEF rest

LEMMA FindNull ==
  ASSUME NEW m \in Nat, NEW h \in Int, NEW st, Addressed(st, m, h),
         NEW itv, itv.lo \in Int, itv.hi \in Int, NEW n \in Int, Contains(itv, n), ~Covered(st, n)
  PROVE  NoAddr \in FindAddr(itv, st)
<1>1. n \in Slots => st.first[n].taken = {}
  BY DEF Covered
<1>2. ASSUME NEW b \in Keys(st.others) PROVE ~(st.others.map[b].lo = n /\ st.others.map[b].hi = n)
  <2>1. Within(st.others.map[b], window, h)
    BY DEF Addressed, TableWithin
  <2>2. CASE n \in Slots
    BY <2>1, <2>2 DEF Within, Slots, window
  <2>3. CASE n \notin Slots
    <3>1. ~Contains(st.others.map[b], n)
      BY <2>3 DEF Covered, BoundTo
    <3> QED BY <3>1 DEF Contains
  <2> QED BY <2>2, <2>3
<1> QED BY <1>1, <1>2, FindUnbound

(* A slot without an address has no candidate.                             *)
LEMMA FindEmptySlot ==
  ASSUME NEW m \in Nat, NEW h \in Int, NEW st, Addressed(st, m, h), NEW n \in Slots, st.first[n].taken = {}
  PROVE  FindAddr(Const(n), st) \subseteq {NoAddr}
<1> DEFINE itv == Const(n)
           rest == Rest(itv, st)
           table == {a \in Keys(st.others) : Meets(rest, st.others.map[a])}
<1>1. itv.lo = n /\ itv.hi = n /\ n \in Int /\ n < window /\ window \in Int
  BY DEF Const, Itv, Slots, window
<1> HIDE DEF itv
<1>2. Contains(itv, n) /\ rest.lo \in Int /\ rest.hi \in Int /\ rest.hi <= n
  <2>1. Contains(itv, n)
    BY <1>1 DEF Contains
  <2> QED BY <1>1, <2>1, RestIs, RestBelow
<1>3. table = {}
  <2> SUFFICES ASSUME NEW a \in Keys(st.others), Meets(rest, st.others.map[a]) PROVE FALSE
    OBVIOUS
  <2>1. Within(st.others.map[a], window, h)
    BY DEF Addressed, TableWithin
  <2> HIDE DEF rest
  <2> QED BY <1>1, <1>2, <2>1 DEF Meets, Within
<1>4. \A i \in Slots : Contains(itv, i) => i = n
  BY <1>1 DEF Contains, Slots
<1> DEFINE slots == UNION {st.first[i].taken : i \in {j \in Slots : Contains(itv, j)}}
<1>5. slots = {}
  BY <1>4
<1>6. FindAddr(itv, st) \subseteq slots \cup table \cup {NoAddr}
  BY DEF FindAddr, Rest
<1> HIDE DEF slots, table
<1> QED BY <1>3, <1>5, <1>6 DEF itv

(* The candidates of a search are addresses of the state.                  *)
LEMMA FindAddressed ==
  ASSUME NEW m \in Nat, NEW h, NEW st, Addressed(st, m, h), NEW itv
  PROVE  FindAddr(itv, st) \ {NoAddr} \subseteq 1..m
<1>1. Held(st) \subseteq 1..m
  BY DEF Held, Addressed, TableWithin
<1> QED BY <1>1, FindAddrIs

LEMMA RemoveIs ==
  ASSUME NEW st, NEW addr
  PROVE  /\ \A i \in Slots : Remove(addr, st).first[i] = SlotRemove(addr, st.first[i])
         /\ Keys(Remove(addr, st).others) = Keys(st.others) \ {addr}
         /\ \A a \in Keys(st.others) : a # addr => Remove(addr, st).others.map[a] = st.others.map[a]
         /\ Remove(addr, st).others.support = st.others.support \ {addr}
<1> DEFINE s == Remove(addr, st)
           map == [a \in Keys(st.others) \ {addr} |-> st.others.map[a]]
<1>1. /\ s.others.map = map /\ s.others.support = st.others.support \ {addr}
      /\ \A i \in Slots : s.first[i] = SlotRemove(addr, st.first[i])
  BY DEF Remove, State, TableRemove
<1>2. DOMAIN map = Keys(st.others) \ {addr} /\ \A a \in DOMAIN map : map[a] = st.others.map[a]
  OBVIOUS
<1> HIDE DEF map, s
<1>3. Keys(s.others) = Keys(st.others) \ {addr}
  BY <1>1, <1>2 DEF Keys
<1>4. \A a \in Keys(st.others) : a # addr => s.others.map[a] = st.others.map[a]
  BY <1>1, <1>2
<1> QED BY <1>1, <1>3, <1>4 DEF s

(* A removal takes its address away from every descriptor, frees the slots *)
(* that had it, and changes nothing else.                                  *)
LEMMA RemoveKeeps ==
  ASSUME NEW st, NEW addr
  PROVE  /\ ~IsBottom(st) => ~IsBottom(Remove(addr, st))
         /\ \A a, n : a # addr /\ At(a, st, n) => At(a, Remove(addr, st), n)
         /\ \A i \in Slots : st.first[i].free \/ addr \in st.first[i].taken => Remove(addr, st).first[i].free
<1> DEFINE s == Remove(addr, st)
<1>1. \A i \in Slots : /\ s.first[i].taken = st.first[i].taken \ {addr}
                       /\ s.first[i].free <=> st.first[i].free \/ addr \in st.first[i].taken
                       /\ st.first[i] # Bot => s.first[i] # Bot
  <2> TAKE i \in Slots
  <2>1. s.first[i] = SlotRemove(addr, st.first[i])
    BY RemoveIs
  <2> HIDE DEF s
  <2> QED BY <2>1 DEF SlotRemove, Slot, Bot
<1>2. \A a, n : a # addr /\ BoundTo(a, st.others, n) => BoundTo(a, s.others, n)
  BY RemoveIs DEF BoundTo
<1> HIDE DEF s
<1>3. ~IsBottom(st) => ~IsBottom(s)
  BY <1>1 DEF IsBottom
<1>4. \A a, n : a # addr /\ At(a, st, n) => At(a, s, n)
  BY <1>1, <1>2 DEF At
<1> QED BY <1>1, <1>3, <1>4 DEF s

LEMMA RemoveAddressed ==
  ASSUME NEW m, NEW h, NEW st, Addressed(st, m, h), NEW addr
  PROVE  Addressed(Remove(addr, st), m, h)
<1> DEFINE s == Remove(addr, st)
           map == [a \in Keys(st.others) \ {addr} |-> st.others.map[a]]
           first == [i \in Slots |-> SlotRemove(addr, st.first[i])]
<1>1. s.others = TableRemove(addr, st.others) /\ s.first = first
  BY DEF Remove, State
<1>2. s.others.map = map
  BY <1>1 DEF TableRemove
<1>3. DOMAIN map = Keys(st.others) \ {addr} /\ \A a \in DOMAIN map : map[a] = st.others.map[a]
  OBVIOUS
<1> HIDE DEF map
<1>4. TableWithin(s.others, m, h)
  <2> HIDE DEF s
  <2>1. Keys(s.others) = DOMAIN map
    BY <1>2 DEF Keys
  <2> QED BY <1>2, <1>3, <2>1 DEF Addressed, TableWithin
<1>5. \A i \in Slots : SlotRemove(addr, st.first[i]).taken \subseteq st.first[i].taken
  BY DEF SlotRemove, Slot
<1>6. \A i \in Slots : s.first[i].taken \subseteq 1..m
  BY <1>1, <1>5 DEF Addressed
<1> QED BY <1>4, <1>6 DEF Addressed

----------------------------------------------------------------------------
(* An address the state does not hold, at one descriptor and nowhere else: *)
(* when the slots are known exactly, this is all a registration does.      *)
Placed(addr, n, st, s) ==
  /\ ~IsBottom(s)
  /\ \A i \in Slots : s.first[i].taken \subseteq st.first[i].taken \cup {x \in {addr} : i = n}
  /\ \A i \in Slots : s.first[i].free => i # n /\ st.first[i].free
  /\ Keys(s.others) \subseteq Keys(st.others) \cup {x \in {addr} : n \notin Slots}
  /\ \A a, k : a # addr /\ BoundTo(a, st.others, k) => BoundTo(a, s.others, k)
  /\ n \notin Slots => BoundTo(addr, s.others, n)

LEMMA InsertPlacesSlot ==
  ASSUME NEW st, NEW n \in Slots, st.first[n] = Free, \A j \in Slots : j < n => st.first[j].taken # {},
         NEW addr, NEW r \in Insert(addr, st)
  PROVE  r.itv = Const(n) /\ Placed(addr, n, st, r.st)
<1>1. r = Result(Const(n), InSlot(addr, st, n)) /\ st.first[n].free
  BY FirstFreeIs
<1>2. r.itv = Const(n) /\ r.st = InSlot(addr, st, n)
  BY <1>1 DEF Result
<1>3. /\ r.st.first[n].taken = st.first[n].taken \cup {addr} /\ ~r.st.first[n].free
      /\ r.st.others = st.others
  <2>1. InSlot(addr, st, n).first[n] = NotFree(st.first[n].taken \cup {addr})
    BY <1>1, InSlotIs
  <2>2. InSlot(addr, st, n).others = st.others
    BY InSlotOthers
  <2> QED BY <1>2, <2>1, <2>2, NotFreeIs
<1>4. ASSUME NEW i \in Slots, i # n
      PROVE  r.st.first[i].taken = st.first[i].taken /\ (r.st.first[i].free => st.first[i].free)
  <2>1. r.st.first[i] = Rests(st)[i]
    BY <1>2, <1>4, InSlotElsewhere
  <2> QED BY <2>1, RestsIs, NotFreeIs
<1>5. \A i \in Slots : r.st.first[i].taken \subseteq st.first[i].taken \cup {x \in {addr} : i = n}
  BY <1>3, <1>4
<1>6. \A i \in Slots : r.st.first[i].free => i # n /\ st.first[i].free
  BY <1>3, <1>4
<1> QED BY <1>2, <1>3, <1>5, <1>6, InsertIs DEF Placed

LEMMA InsertPlacesBeyond ==
  ASSUME NEW st, \A i \in Slots : ~st.first[i].free, NEW n, n \notin Slots, Contains(NewItv(st.others), n),
         NEW addr, NEW r \in Insert(addr, st)
  PROVE  r.itv = NewItv(st.others) /\ Placed(addr, n, st, r.st)
<1>1. r \in InsertOthers(addr, State(Rests(st), st.others))
  BY InsertIs
<1>2. r.itv = NewItv(st.others) /\ r.st.first = Rests(st) /\ r.st.others = Bind(addr, r.itv, st.others)
  BY <1>1, OthersIs
<1>3. \A i \in Slots : r.st.first[i].taken = st.first[i].taken /\ ~r.st.first[i].free
  BY <1>2, RestsIs, NotFreeIs
<1>4. /\ Keys(r.st.others) = Keys(st.others) \cup {addr}
      /\ BoundTo(addr, r.st.others, n)
  BY <1>2, BindIs DEF BoundTo
<1> QED BY <1>2, <1>3, <1>4, InsertKeeps DEF Placed

LEMMA InsertAtPlaces ==
  ASSUME NEW m \in Nat, NEW h \in Int, NEW st, WellFormed(st), Addressed(st, m, h), ~IsBottom(st),
         NEW addr \in 1..m, NEW itv, Within(itv, -1, h), NEW n \in Nat, Contains(itv, n),
         IF n \in Slots THEN itv = Const(n) ELSE window <= itv.lo,
         NEW s \in InsertAt(addr, itv, st)
  PROVE  Placed(addr, n, st, s)
<1>0. window = 3 /\ (n \in Slots <=> n < window) /\ \A j \in Slots : j \in Nat /\ j < window
  BY DEF window, Slots
<1>1. CASE n \in Slots
  <2> DEFINE added == SlotAdd(addr, st.first[n])
  <2>1. itv.lo = n /\ itv.hi = n
    BY <1>1 DEF Const, Itv
  <2>2. \A j \in Slots : Contains(itv, j) => j = n
    BY <1>0, <2>1 DEF Contains
  <2>3. s = State([st.first EXCEPT ![n] = SlotAdd(addr, @)], st.others)
    BY <1>0, <1>1, <2>1, <2>2 DEF InsertAt
  <2>4. s.first = [st.first EXCEPT ![n] = added] /\ s.others = st.others
    BY <2>3 DEF State
  <2>5. added # Bot /\ added.taken = st.first[n].taken \cup {addr} /\ ~added.free
    BY <1>1, SlotAddIs DEF IsBottom
  <2>6. n \in DOMAIN st.first
    <3>1. st.first = [i \in Slots |-> st.first[i]]
      BY DEF WellFormed
    <3> QED BY <1>1, <3>1
  <2> HIDE DEF added
  <2>7. s.first[n] = added /\ \A i \in Slots : i # n => s.first[i] = st.first[i]
    BY <2>4, <2>6
  <2>8. ~IsBottom(s)
    BY <2>5, <2>7 DEF IsBottom
  <2> QED BY <1>1, <2>4, <2>5, <2>7, <2>8 DEF Placed
<1>2. CASE n \notin Slots
  <2> DEFINE beyond == Itv(Max({itv.lo, window}), itv.hi)
  <2>1. window <= itv.hi /\ \A j \in Slots : ~Contains(itv, j)
    BY <1>0, <1>2 DEF Contains, Within
  <2>2. s = State(st.first, TableInsertAt(addr, beyond, st.others))
    BY <1>0, <2>1 DEF InsertAt
  <2>3. Within(beyond, window, h) /\ Contains(beyond, n)
    BY <1>0, <1>2, <2>1, BeyondIs
  <2> HIDE DEF beyond
  <2>4. s.first = st.first /\ s.others = TableInsertAt(addr, beyond, st.others)
    BY <2>2 DEF State
  <2>5. /\ BoundTo(addr, s.others, n)
        /\ \A a, k : a # addr /\ BoundTo(a, st.others, k) => BoundTo(a, s.others, k)
        /\ Keys(s.others) = Keys(st.others) \cup {addr}
    <3> DEFINE t == st.others
               B == TableInsertAt(addr, beyond, t)
    <3>1. TableWithin(t, m, h) /\ n \in Int
      BY DEF Addressed
    <3>2. /\ BoundTo(addr, B, n)
          /\ \A a, k : a # addr /\ BoundTo(a, t, k) => BoundTo(a, B, k)
          /\ Keys(B) = Keys(t) \cup {addr}
      <4> HIDE DEF t
      <4> QED BY <2>3, <3>1, TableInsertAtIs
    <3> QED BY <2>4, <3>2
  <2>6. ~IsBottom(s)
    BY <2>4 DEF IsBottom
  <2>7. \A i \in Slots : i # n
    BY <1>2
  <2> QED BY <1>2, <2>4, <2>5, <2>6, <2>7 DEF Placed
<1> QED BY <1>1, <1>2

----------------------------------------------------------------------------
(* Constants.                                                              *)
LEMMA SlotsInDescriptors == Slots \subseteq Descriptors /\ Descriptors \subseteq Nat
  BY MaxCallsAssumption DEF Slots, Descriptors, window

(* The largest address.                                                    *)
Top == CHOOSE m \in Nat : Resources \subseteq 1..m

LEMMA TopIs == Top \in Nat /\ Resources \subseteq 1..Top
<1>1. PICK m \in Nat : \A y \in Sites : y <= m
  BY SitesAssumption, FiniteBounded
<1>2. Resources \subseteq 1..(m + 3)
  <2>1. \A y \in Sites : y \in Nat /\ y # 0 /\ y <= m
    BY <1>1, SitesAssumption DEF NoAddr
  <2>2. StdStreams = 1..3
    BY DEF StdStreams, window
  <2> QED BY <2>1, <2>2 DEF Resources
<1>3. m + 3 \in Nat
  OBVIOUS
<1> QED BY <1>2, <1>3 DEF Top

(* The largest descriptor of the table, after so many calls.               *)
Bound == window + 2 * calls

LEMMA SitesAreAddresses == Sites \subseteq 1..Top /\ StdStreams \subseteq 1..Top /\ NoAddr \notin 1..Top
  BY TopIs DEF Resources, NoAddr

LEMMA LowestIsFree ==
  ASSUME NEW own, Unused(own) # {}
  PROVE  /\ LowestFree(own) \in Descriptors /\ own[LowestFree(own)] = NoAddr
         /\ \A fd \in Descriptors : fd < LowestFree(own) => own[fd] # NoAddr
<1>1. Unused(own) \in SUBSET Nat
  BY SlotsInDescriptors DEF Unused
<1>2. LowestFree(own) \in Unused(own) /\ \A y \in Unused(own) : LowestFree(own) <= y
  BY <1>1, MinIs DEF LowestFree
<1> HIDE DEF LowestFree
<1>3. LowestFree(own) \in Descriptors /\ own[LowestFree(own)] = NoAddr
  BY <1>2 DEF Unused
<1>4. ASSUME NEW fd \in Descriptors, fd < LowestFree(own) PROVE own[fd] # NoAddr
  <2>1. fd \in Nat /\ LowestFree(own) \in Nat
    BY <1>3, SlotsInDescriptors
  <2>2. ~(LowestFree(own) <= fd)
    BY <1>4, <2>1
  <2> QED BY <1>2, <2>2 DEF Unused
<1> QED BY <1>3, <1>4

----------------------------------------------------------------------------
(* The inductive invariant.                                                *)
(*                                                                         *)
(* The second conjunct of ByDefault is about pclose and closedir, which    *)
(* close a descriptor the analyser keeps: a variable was given its         *)
(* descriptor when the slot could be free.                                 *)
(*                                                                         *)
(* Known: an open descriptor has an address.  Every call is joined with    *)
(* the state before it, so nothing is forgotten and nothing is ever known  *)
(* to be open: the support is empty.                                       *)
HeldShape(h, b) == h = Unset \/ (h.fd \in Descriptors /\ Within(h.itv, -1, b))
Shapes ==
  /\ WellFormed(state)
  /\ calls \in Nat
  /\ Addressed(state, Top, Bound)
  /\ owner = [fd \in Descriptors |-> owner[fd]]
  /\ held = [v \in Variables |-> held[v]]
  /\ \A v \in Variables : HeldShape(held[v], Bound)

ClosedMayBeFree == \A i \in Slots : owner[i] = NoAddr => state.first[i].free
HeldMayBeFree == \A v \in Variables : held[v].fd \in Slots => state.first[held[v].fd].free
ByDefault == ClosedMayBeFree /\ HeldMayBeFree

OpenCovered == \A fd \in Descriptors : IsOpen(fd) => Covered(state, fd)
HeldCovered == \A v \in Variables : held[v] # Unset => Contains(held[v].itv, held[v].fd)
NoSupport == state.others.support = {}
Known == OpenCovered /\ HeldCovered /\ NoSupport
NoGuess == ignored = {} /\ "guessed" \notin met

IInv == Shapes /\ (ignored = {} => ByDefault) /\ (NoGuess => Known)

LEMMA BoundIs ==
  ASSUME Shapes
  PROVE  Bound \in Nat /\ window - 1 <= Bound /\ window = 3
  BY DEF Shapes, Bound, window

LEMMA BoundGrows ==
  ASSUME Shapes, Calling PROVE Bound' = Bound + 2 /\ Bound' \in Nat /\ calls' \in Nat
  BY DEF Shapes, Calling, Bound, window

LEMMA MeetIs ==
  ASSUME NEW kinds, Meet(kinds), UNCHANGED ignored, NoGuess' PROVE NoGuess /\ "guessed" \notin kinds
  BY DEF Meet, NoGuess

(* The argument of a call is in its interval.                              *)
LEMMA ArgumentIs ==
  ASSUME IInv, NEW arg \in Arguments
  PROVE  /\ arg.fd \in Descriptors /\ arg.fd \in Nat /\ Within(arg.itv, -1, Bound)
         /\ NoGuess => Contains(arg.itv, arg.fd)
<1>1. CASE \E i \in Slots : arg = Holding(i, Const(i))
  <2>1. PICK i \in Slots : arg = Holding(i, Const(i))
    BY <1>1
  <2>2. arg.fd = i /\ arg.itv.lo = i /\ arg.itv.hi = i
    BY <2>1 DEF Holding, Const, Itv
  <2>3. i \in Nat /\ i < window
    BY DEF Slots, window
  <2> QED BY <2>2, <2>3, SlotsInDescriptors, BoundIs DEF Within, Contains, IInv
<1>2. CASE \E v \in Variables : arg = held[v] /\ held[v] # Unset
  <2>1. PICK v \in Variables : arg = held[v] /\ held[v] # Unset
    BY <1>2
  <2> QED BY <2>1, SlotsInDescriptors DEF IInv, Shapes, HeldShape, Known, HeldCovered
<1> QED BY <1>1, <1>2 DEF Arguments

(* A call whose failure is joined takes no possibility away: neither that  *)
(* a slot is free nor that a descriptor has an address.                    *)
LEMMA AnalysedStep ==
  ASSUME NEW stub \in Stubs, NEW successes, NEW h \in Int, ~IsBottom(state),
         Addressed(state, Top, h), \A s \in successes : Addressed(s, Top, h),
         Analysed(stub, successes)
  PROVE  /\ WellFormed(state') /\ Addressed(state', Top, h)
         /\ \A s \in successes : ~IsBottom(s) => \A n \in Int : Covered(s, n) => Covered(state', n)
         /\ ignored = {} => /\ \A i \in Slots : state.first[i].free => state'.first[i].free
                            /\ \A n \in Int : Covered(state, n) => Covered(state', n)
                            /\ state'.others.support \subseteq state.others.support
<1> DEFINE states == successes \cup (IF MayFail(stub) THEN {state} ELSE {})
<1>1. state' = Join(states)
  BY DEF Analysed
<1>2. \A s \in states : Addressed(s, Top, h)
  OBVIOUS
<1>3. \A s \in states : NoNull(s)
  BY <1>2, TopIs, AddressedNoNull
<1>4. (ignored = {} => state \in states) /\ successes \subseteq states
  BY DEF MayFail
<1> HIDE DEF states
<1>5. WellFormed(state') /\ Addressed(state', Top, h)
  BY <1>1, <1>2, <1>3, JoinWellFormed, JoinAddressed
<1>6. \A s \in successes : ~IsBottom(s) => \A n \in Int : Covered(s, n) => Covered(state', n)
  BY <1>1, <1>2, <1>4, JoinKeeps
<1>7. ignored = {} => /\ \A i \in Slots : state.first[i].free => state'.first[i].free
                      /\ \A n \in Int : Covered(state, n) => Covered(state', n)
                      /\ state'.others.support \subseteq state.others.support
  BY <1>1, <1>2, <1>4, JoinKeeps
<1> QED BY <1>5, <1>6, <1>7

----------------------------------------------------------------------------
(* The invariant holds once the three streams are registered.              *)
LEMMA InitKnown ==
  ASSUME Init
  PROVE  /\ WellFormed(state) /\ Addressed(state, Top, Bound)
         /\ \A i \in Slots : state.first[i] = NotFree({i + 1})
         /\ state.others = EmptyTable
<1>0. 0 \in Slots /\ 1 \in Slots /\ 2 \in Slots /\ \A i \in Slots : i = 0 \/ i = 1 \/ i = 2
  BY DEF Slots, window
<1>1. 1 \in 1..Top /\ 2 \in 1..Top /\ 3 \in 1..Top
  BY SitesAreAddresses DEF StdStreams, window
<1>2. 1 # NoAddr /\ 2 # NoAddr /\ 3 # NoAddr
  BY DEF NoAddr
<1>3. WellFormed(InitState) /\ InitState.others = EmptyTable /\ \A i \in Slots : InitState.first[i] = Free
  BY DEF InitState, WellFormed, State, SlotShape, Free, Slot, NoAddr
<1>4. PICK r1 \in Insert(1, InitState) : \E r2 \in Insert(2, r1.st) : \E r3 \in Insert(3, r2.st) : state = r3.st
  BY DEF Init
<1>5. PICK r2 \in Insert(2, r1.st) : \E r3 \in Insert(3, r2.st) : state = r3.st
  BY <1>4
<1>6. PICK r3 \in Insert(3, r2.st) : state = r3.st
  BY <1>5
<1>7. WellFormed(state)
  <2>1. WellFormed(r1.st)
    BY <1>2, <1>3, InsertWellFormed
  <2>2. WellFormed(r2.st)
    BY <1>2, <2>1, InsertWellFormed
  <2> QED BY <1>2, <1>6, <2>2, InsertWellFormed
<1> DEFINE s1 == r1.st
           s2 == r2.st
           s3 == r3.st
<1>8. s1.first[0] = NotFree({1}) /\ s1.first[1] = Free /\ s1.first[2] = Free /\ s1.others = EmptyTable
  <2>1. InitState.first[0] = Free /\ \A j \in Slots : j < 0 => InitState.first[j].taken # {}
    BY <1>0, <1>3
  <2>2. s1.first[0] = NotFree({1}) /\ s1.others = InitState.others
    BY <1>0, <2>1, FirstFreeTaken
  <2>3. s1.first[1] = InitState.first[1] /\ s1.first[2] = InitState.first[2]
    BY <1>0, <2>1, LaterSlots
  <2> QED BY <1>0, <1>3, <2>2, <2>3
<1> HIDE DEF s1
<1>9. s2.first[0] = NotFree({1}) /\ s2.first[1] = NotFree({2}) /\ s2.first[2] = Free /\ s2.others = EmptyTable
  <2>0. r2 \in Insert(2, s1)
    BY DEF s1
  <2>1. s1.first[1] = Free /\ s1.first[0].taken = {1} /\ \A j \in Slots : j < 1 => s1.first[j].taken # {}
    BY <1>0, <1>8, NotFreeIs
  <2>2. /\ s2.first[1] = NotFree({2}) /\ s2.others = s1.others
        /\ \A j \in Slots : j < 1 => s2.first[j] = NotFree(s1.first[j].taken)
    BY <1>0, <2>0, <2>1, FirstFreeTaken
  <2>4. s2.first[0] = NotFree({1})
    <3>1. 0 < 1
      OBVIOUS
    <3>2. s2.first[0] = NotFree(s1.first[0].taken)
      BY <1>0, <2>2, <3>1, Zenon
    <3> QED BY <2>1, <3>2, Zenon
  <2>3. s2.first[2] = s1.first[2]
    BY <1>0, <2>0, <2>1, LaterSlots
  <2> QED BY <1>8, <2>2, <2>3, <2>4
<1> HIDE DEF s2
<1>10. s3.first[0] = NotFree({1}) /\ s3.first[1] = NotFree({2}) /\ s3.first[2] = NotFree({3}) /\ s3.others = EmptyTable
  <2>0. r3 \in Insert(3, s2)
    BY DEF s2
  <2>1. /\ s2.first[2] = Free /\ s2.first[0].taken = {1} /\ s2.first[1].taken = {2}
        /\ \A j \in Slots : j < 2 => s2.first[j].taken # {}
    BY <1>0, <1>9, NotFreeIs
  <2>2. /\ s3.first[2] = NotFree({3}) /\ s3.others = s2.others
        /\ \A j \in Slots : j < 2 => s3.first[j] = NotFree(s2.first[j].taken)
    BY <1>0, <2>0, <2>1, FirstFreeTaken
  <2>3. s3.first[0] = NotFree({1}) /\ s3.first[1] = NotFree({2})
    <3>1. 0 < 2 /\ 1 < 2
      OBVIOUS
    <3>2. s3.first[0] = NotFree(s2.first[0].taken) /\ s3.first[1] = NotFree(s2.first[1].taken)
      BY <1>0, <2>2, <3>1, Zenon
    <3> QED BY <2>1, <3>2, Zenon
  <2> QED BY <1>9, <2>2, <2>3
<1>11. state = s3
  BY <1>6
<1> HIDE DEF s3
<1>12. \A i \in Slots : state.first[i] = NotFree({i + 1})
  BY <1>0, <1>10, <1>11
<1>13. Addressed(state, Top, Bound)
  <2>1. \A i \in Slots : state.first[i].taken \subseteq 1..Top
    BY <1>0, <1>1, <1>10, <1>11, NotFreeIs
  <2> QED BY <2>1, <1>10, <1>11, EmptyTableWithin DEF Addressed
<1> QED BY <1>7, <1>10, <1>11, <1>12, <1>13

LEMMA InitIInv == Init => IInv
<1> SUFFICES ASSUME Init PROVE IInv
  OBVIOUS
<1>1. /\ WellFormed(state) /\ Addressed(state, Top, Bound)
      /\ \A i \in Slots : state.first[i].taken # {}
      /\ state.others.support = {}
  BY InitKnown, NotFreeIs, EmptyTableWithin
<1>2. Shapes
  BY <1>1 DEF Init, Shapes, HeldShape
<1>3. \A fd \in Descriptors : IsOpen(fd) <=> fd \in Slots
  <2> TAKE fd \in Descriptors
  <2>1. owner[fd] = IF fd < window THEN fd + 1 ELSE NoAddr
    BY DEF Init
  <2>2. fd \in Nat /\ window = 3
    BY SlotsInDescriptors DEF window
  <2> QED BY <2>1, <2>2 DEF IsOpen, NoAddr, Slots
<1>4. ClosedMayBeFree
  BY <1>3, SlotsInDescriptors DEF ClosedMayBeFree, IsOpen
<1>5. HeldMayBeFree
  BY DEF Init, HeldMayBeFree, Unset, Slots, window
<1>6. Known
  BY <1>1, <1>3 DEF Init, Known, OpenCovered, HeldCovered, NoSupport, Covered
<1> QED BY <1>2, <1>4, <1>5, <1>6 DEF IInv, ByDefault

----------------------------------------------------------------------------
(* What a registration returns.                                            *)

(* The interval given to the result of a call.                             *)
ResultItv(results) == IF results = {} THEN Unset.itv ELSE Hull({r.itv : r \in results})

LEMMA ResultItvIs ==
  ASSUME NEW results, NEW h \in Nat, \A r \in results : Within(r.itv, 0, h)
  PROVE  /\ Within(ResultItv(results), -1, h)
         /\ \A r \in results, n \in Int : Contains(r.itv, n) => Contains(ResultItv(results), n)
<1>1. CASE results = {}
  BY <1>1 DEF ResultItv, Unset, Itv, Within
<1>2. CASE results # {}
  <2> DEFINE itvs == {r.itv : r \in results}
  <2>1. itvs # {} /\ \A i \in itvs : Within(i, 0, h)
    BY <1>2
  <2>2. ResultItv(results) = Hull(itvs)
    BY <1>2 DEF ResultItv
  <2>3. \A r \in results : r.itv \in itvs
    OBVIOUS
  <2> HIDE DEF itvs
  <2>4. /\ Within(Hull(itvs), 0, h)
        /\ \A i \in itvs, n \in Int : Contains(i, n) => Contains(Hull(itvs), n)
    BY <2>1, HullIs
  <2>5. Within(Hull(itvs), -1, h)
    BY <2>4 DEF Within
  <2> QED BY <2>2, <2>3, <2>4, <2>5
<1> QED BY <1>1, <1>2

(* In a state that covers the open descriptors, the smallest descriptor    *)
(* that is free is in a result of a registration.                          *)
LEMMA LowestReturned ==
  ASSUME NEW m \in Nat, NEW h \in Int, window - 1 <= h, NEW st, WellFormed(st), ~IsBottom(st), Addressed(st, m, h),
         NEW own, Unused(own) # {}, \A fd \in Descriptors : own[fd] # NoAddr => Covered(st, fd),
         LowestFree(own) \in Slots =>
           /\ st.first[LowestFree(own)].free
           /\ \A j \in Slots : LowestFree(own) < j => ~(st.first[LowestFree(own)] # Free /\ st.first[j] = Free),
         \A a \in st.others.support \cap Keys(st.others) :
           ~(st.others.map[a].lo = LowestFree(own) /\ st.others.map[a].hi = LowestFree(own)),
         NEW addr
  PROVE  /\ LowestFree(own) \in Slots =>
              \E r \in Insert(addr, st) :
                /\ Contains(r.itv, LowestFree(own)) /\ At(addr, r.st, LowestFree(own))
                /\ r.st.others = st.others
         /\ LowestFree(own) \notin Slots =>
              \E r \in Insert(addr, st) :
                /\ r.itv = NewItv(st.others) /\ Contains(r.itv, LowestFree(own)) /\ At(addr, r.st, LowestFree(own))
                /\ r.st.others = Bind(addr, r.itv, st.others)
<1> DEFINE n == LowestFree(own)
<1>1. n \in Descriptors /\ n \in Nat /\ \A fd \in Descriptors : fd < n => own[fd] # NoAddr
  BY LowestIsFree, SlotsInDescriptors
<1> HIDE DEF n
<1>2. \A fd \in Descriptors : fd < n => Covered(st, fd)
  BY <1>1
<1>3. window = 3 /\ \A j \in Slots : j \in Nat /\ j < window /\ j \in Descriptors
  BY SlotsInDescriptors DEF Slots, window
<1>4. ASSUME n \in Slots
      PROVE  \E r \in Insert(addr, st) :
                Contains(r.itv, n) /\ At(addr, r.st, n) /\ r.st.others = st.others
  <2>1. \A j \in Slots : j < n => st.first[j].taken # {}
    BY <1>2, <1>3 DEF Covered
  <2>2. /\ st.first[n].free
        /\ \A j \in Slots : n < j => ~(st.first[n] # Free /\ st.first[j] = Free)
    BY <1>4 DEF n
  <2> QED BY <1>4, <2>1, <2>2, InsertInWindow
<1>5. ASSUME n \notin Slots
      PROVE  \E r \in Insert(addr, st) :
                /\ r.itv = NewItv(st.others) /\ Contains(r.itv, n) /\ At(addr, r.st, n)
                /\ r.st.others = Bind(addr, r.itv, st.others)
  <2>1. window <= n
    BY <1>1, <1>5 DEF Slots, window
  <2>2. \A j \in Slots : st.first[j].taken # {}
    BY <1>1, <1>2, <1>3, <2>1 DEF Covered
  <2>3. n = window \/ Reached(st.others, n - 1)
    <3> SUFFICES ASSUME n # window PROVE Reached(st.others, n - 1)
      OBVIOUS
    <3> DEFINE k == n - 1
    <3>1. k \in Nat /\ k < n /\ window <= k
      BY <1>1, <1>3, <2>1
    <3>2. k \in Descriptors
      BY <1>1, <3>1, MaxCallsAssumption DEF Descriptors, window
    <3>3. k \notin Slots
      BY <3>1 DEF Slots, window
    <3> HIDE DEF k
    <3>4. PICK a \in Keys(st.others) : BoundTo(a, st.others, k)
      BY <1>2, <3>1, <3>2, <3>3 DEF Covered
    <3>5. k <= st.others.map[a].hi
      BY <3>4 DEF BoundTo, Contains
    <3> QED BY <3>5 DEF Reached, k
  <2>4. \A a \in st.others.support \cap Keys(st.others) :
           ~(st.others.map[a].lo = n /\ st.others.map[a].hi = n)
    BY DEF n
  <2> QED BY <1>1, <2>1, <2>2, <2>3, <2>4, InsertBeyond
<1> QED BY <1>4, <1>5 DEF n

(* So it is in a state between two calls, unless the domain has to guess.  *)
LEMMA NextReturned ==
  ASSUME IInv, NoGuess, ~IsBottom(state), ~Drops, Unused(owner) # {}, NEW addr
  PROVE  \E r \in Insert(addr, state) : Contains(r.itv, LowestFree(owner)) /\ Covered(r.st, LowestFree(owner))
<1> DEFINE n == LowestFree(owner)
<1>1. owner[n] = NoAddr
  BY LowestIsFree
<1> HIDE DEF n
<1>2. n \in Slots => /\ state.first[n].free
                     /\ \A j \in Slots : n < j => ~(state.first[n] # Free /\ state.first[j] = Free)
  BY <1>1 DEF IInv, NoGuess, ByDefault, ClosedMayBeFree, Drops, Unsure
<1>3. \A fd \in Descriptors : owner[fd] # NoAddr => Covered(state, fd)
  BY DEF IInv, Known, OpenCovered, IsOpen
<1>4. state.others.support = {}
  BY DEF IInv, Known, NoSupport
<1>5. Bound \in Int /\ window - 1 <= Bound
  BY BoundIs DEF IInv
<1>6. WellFormed(state) /\ Addressed(state, Top, Bound)
  BY DEF IInv, Shapes
<1> QED BY <1>2, <1>3, <1>4, <1>5, <1>6, TopIs, LowestReturned, AtIsCovered DEF n

----------------------------------------------------------------------------
(* A step keeps ByDefault when it closes nothing of the window and gives   *)
(* the variables only descriptors that were closed.                        *)
LEMMA ByDefaultKept ==
  ASSUME ByDefault,
         \A i \in Slots : state.first[i].free => state'.first[i].free,
         \A i \in Slots : owner'[i] = NoAddr => owner[i] = NoAddr,
         \A v \in Variables : \/ held'[v] = held[v]
                             \/ held'[v].fd \notin Slots
                             \/ owner[held'[v].fd] = NoAddr
  PROVE  ByDefault'
  BY DEF ByDefault, ClosedMayBeFree, HeldMayBeFree

(* One lemma for each call: what it does to the state, then what it does   *)
(* to the descriptors and to the variables, then what is known of them.    *)
KeepsDescriptors ==
  /\ owner' = [d \in Descriptors |-> owner'[d]]
  /\ \A i \in Slots : owner'[i] = NoAddr => owner[i] = NoAddr
  /\ held' = [u \in Variables |-> held'[u]]
  /\ \A u \in Variables : \/ held'[u] = held[u]
                          \/ held'[u].fd \notin Slots
                          \/ owner[held'[u].fd] = NoAddr
  /\ \A u \in Variables : held'[u] = held[u] \/ HeldShape(held'[u], Bound')

KeepsKnown(successes) ==
  /\ \A fd \in Descriptors : owner'[fd] # NoAddr =>
       owner[fd] # NoAddr \/ Covered(state, fd) \/ \E s \in successes : ~IsBottom(s) /\ Covered(s, fd)
  /\ \A u \in Variables : held'[u] # Unset => held'[u] = held[u] \/ Contains(held'[u].itv, held'[u].fd)

LEMMA HeldShapeMore ==
  ASSUME NEW h, NEW h1 \in Int, NEW h2 \in Int, h1 <= h2, HeldShape(h, h1) PROVE HeldShape(h, h2)
  BY DEF HeldShape, Within

LEMMA CallStep ==
  ASSUME IInv, Calling, NEW stub \in Stubs, NEW successes,
         \A s \in successes : Addressed(s, Top, Bound'),
         Analysed(stub, successes), KeepsDescriptors,
         NoGuess' => NoGuess /\ KeepsKnown(successes)
  PROVE  IInv'
<1>0. /\ Shapes /\ Bound \in Int /\ Bound' \in Int /\ Bound <= Bound' /\ calls' \in Nat
      /\ ~IsBottom(state) /\ UNCHANGED ignored
  BY BoundIs, BoundGrows DEF IInv, Calling
<1>1. Addressed(state, Top, Bound')
  BY <1>0, AddressedMore DEF Shapes
<1>2. /\ WellFormed(state') /\ Addressed(state', Top, Bound')
      /\ \A s \in successes : ~IsBottom(s) => \A n \in Int : Covered(s, n) => Covered(state', n)
      /\ ignored = {} => /\ \A i \in Slots : state.first[i].free => state'.first[i].free
                         /\ \A n \in Int : Covered(state, n) => Covered(state', n)
                         /\ state'.others.support \subseteq state.others.support
  BY <1>0, <1>1, AnalysedStep
<1>3. \A v \in Variables : HeldShape(held'[v], Bound')
  BY <1>0, HeldShapeMore DEF KeepsDescriptors, Shapes
<1>4. Shapes'
  BY <1>0, <1>2, <1>3 DEF Shapes, KeepsDescriptors
<1>5. ignored' = {} => ByDefault'
  BY <1>0, <1>2, ByDefaultKept DEF IInv, KeepsDescriptors
<1>6. ASSUME NoGuess' PROVE Known'
  <2>1. Known /\ KeepsKnown(successes) /\ ignored = {}
    BY <1>6 DEF IInv, NoGuess
  <2>2. \A fd \in Descriptors : fd \in Int
    BY SlotsInDescriptors
  <2>3. OpenCovered'
    BY <1>2, <2>1, <2>2 DEF Known, OpenCovered, IsOpen, KeepsKnown
  <2>4. HeldCovered'
    BY <2>1 DEF Known, HeldCovered, KeepsKnown
  <2>5. NoSupport'
    BY <1>2, <2>1 DEF Known, NoSupport
  <2> QED BY <2>3, <2>4, <2>5 DEF Known
<1> QED BY <1>4, <1>5, <1>6 DEF IInv

(* The results of a registration, between two calls.                       *)
LEMMA ResultsAddressed ==
  ASSUME IInv, Calling, NEW addr \in 1..Top, NEW r \in Insert(addr, state)
  PROVE  Addressed(r.st, Top, Bound') /\ Within(r.itv, 0, Bound')
<1>1. Bound \in Int /\ window - 1 <= Bound /\ Bound' = Bound + 2 /\ Bound + 1 \in Int /\ Bound + 1 <= Bound + 2 /\ Bound + 2 \in Int
  BY BoundIs, BoundGrows DEF IInv
<1>2. Addressed(r.st, Top, Bound + 1) /\ Within(r.itv, 0, Bound + 1)
  BY <1>1, TopIs, InsertAddressed DEF IInv, Shapes
<1> DEFINE b == Bound + 1
           c == Bound + 2
<1> HIDE DEF b
<1>3. Addressed(r.st, Top, c)
  BY <1>1, <1>2, AddressedMore DEF b
<1>4. Within(r.itv, 0, c)
  BY <1>1, <1>2, WithinMore DEF b
<1> QED BY <1>1, <1>3, <1>4

(* A call that returns the smallest free descriptor, or fails.             *)
Successes(results) == {r.st : r \in results}
Returns(results, addr, v) ==
  \/ /\ Unused(owner) # {}
     /\ owner' = [owner EXCEPT ![LowestFree(owner)] = addr]
     /\ held' = [held EXCEPT ![v] = Holding(LowestFree(owner), ResultItv(results))]
  \/ owner' = owner /\ held' = [held EXCEPT ![v] = Unset]

LEMMA ReturnStep ==
  ASSUME IInv, Calling, NEW stub \in Stubs, NEW results, NEW addr, addr # NoAddr, NEW v \in Variables,
         \A r \in results : Addressed(r.st, Top, Bound') /\ Within(r.itv, 0, Bound') /\ ~IsBottom(r.st),
         Analysed(stub, Successes(results)),
         NoGuess' => NoGuess,
         NoGuess' /\ Unused(owner) # {} =>
           \E r \in results : Contains(r.itv, LowestFree(owner)) /\ Covered(r.st, LowestFree(owner)),
         Returns(results, addr, v)
  PROVE  IInv'
<1> DEFINE successes == {r.st : r \in results}
           fd == LowestFree(owner)
           itv == ResultItv(results)
           given == Holding(fd, itv)
<1>1. \A s \in successes : Addressed(s, Top, Bound')
  OBVIOUS
<1>2. Bound' \in Nat
  BY BoundGrows DEF IInv
<1>3. /\ Within(itv, -1, Bound')
      /\ \A r \in results, n \in Int : Contains(r.itv, n) => Contains(itv, n)
  BY <1>2, ResultItvIs
<1>4. CASE Unused(owner) # {} /\ owner' = [owner EXCEPT ![fd] = addr] /\ held' = [held EXCEPT ![v] = given]
  <2>1. fd \in Descriptors /\ owner[fd] = NoAddr /\ fd \in Int
    <3>1. Unused(owner) # {}
      BY <1>4
    <3>2. fd \in Descriptors /\ owner[fd] = NoAddr
      BY <3>1, LowestIsFree, Zenon
    <3> HIDE DEF fd
    <3> QED BY <3>2, SlotsInDescriptors
  <2>2. NoGuess' => \E r \in results : Contains(r.itv, fd) /\ Covered(r.st, fd)
    BY <1>4
  <2>3. HeldShape(given, Bound') /\ given.fd = fd /\ given.itv = itv
    BY <1>3, <2>1 DEF HeldShape, Holding
  <2> HIDE DEF fd, itv, given
  <2>4. \A u \in Variables : held'[u] = held[u] \/ held'[u] = given
    BY <1>4 DEF IInv, Shapes
  <2>5. \A d \in Descriptors : owner'[d] = IF d = fd THEN addr ELSE owner[d]
    BY <1>4 DEF IInv, Shapes
  <2>6. KeepsDescriptors
    <3>1. owner' = [d \in Descriptors |-> owner'[d]] /\ held' = [u \in Variables |-> held'[u]]
      BY <1>4 DEF IInv, Shapes
    <3>2. \A i \in Slots : owner'[i] = NoAddr => owner[i] = NoAddr
      BY <2>1, <2>5, SlotsInDescriptors
    <3> QED BY <2>1, <2>3, <2>4, <3>1, <3>2 DEF KeepsDescriptors
  <2>7. ASSUME NoGuess' PROVE KeepsKnown(successes)
    <3>1. PICK r \in results : Contains(r.itv, fd) /\ Covered(r.st, fd)
      BY <2>2, <2>7
    <3>2. r.st \in successes /\ ~IsBottom(r.st)
      BY <3>1
    <3>3. Contains(itv, fd)
      BY <1>3, <2>1, <3>1
    <3> HIDE DEF successes
    <3> QED BY <2>3, <2>4, <2>5, <3>1, <3>2, <3>3 DEF KeepsKnown
  <2> HIDE DEF successes
  <2>8. Analysed(stub, successes)
    BY DEF successes, Successes
  <2> QED BY <1>1, <2>6, <2>7, <2>8, CallStep
<1>5. CASE owner' = owner /\ held' = [held EXCEPT ![v] = Unset]
  <2>1. KeepsDescriptors
    BY <1>5 DEF IInv, Shapes, Unset, Slots, KeepsDescriptors, HeldShape
  <2>2. KeepsKnown(successes)
    BY <1>5 DEF IInv, Shapes, KeepsKnown
  <2> HIDE DEF successes
  <2>3. Analysed(stub, successes)
    BY DEF successes, Successes
  <2> QED BY <1>1, <2>1, <2>2, <2>3, CallStep
<1> QED BY <1>4, <1>5 DEF Returns

LEMMA OpenStep ==
  ASSUME IInv, NEW site \in Sites, NEW v \in Variables, Open(site, v) PROVE IInv'
<1> DEFINE results == Insert(site, state)
<1>1. /\ Calling /\ site \in 1..Top /\ site # NoAddr /\ UNCHANGED ignored /\ ~IsBottom(state)
      /\ Analysed("open", Successes(results)) /\ "open" \in Stubs
      /\ Meet(Guessed(MayFail("open")) \cup Shared({site}))
  BY SitesAreAddresses, SitesAssumption DEF Open, Calling, Stubs, Successes
<1>2. \A r \in results : Addressed(r.st, Top, Bound') /\ Within(r.itv, 0, Bound') /\ ~IsBottom(r.st)
  BY <1>1, ResultsAddressed, InsertKeeps
<1>3. ASSUME NoGuess' PROVE NoGuess /\ ~Drops
  <2>1. NoGuess /\ "guessed" \notin Guessed(MayFail("open")) \cup Shared({site})
    BY <1>1, <1>3, MeetIs
  <2> QED BY <2>1 DEF Guessed, Kinds
<1>4. NoGuess' /\ Unused(owner) # {} =>
        \E r \in results : Contains(r.itv, LowestFree(owner)) /\ Covered(r.st, LowestFree(owner))
  BY <1>1, <1>3, NextReturned
<1>5. Returns(results, site, v)
  BY DEF Returns, Open, Fails, ResultItv
<1> HIDE DEF results
<1> QED BY <1>1, <1>2, <1>3, <1>4, <1>5, ReturnStep

LEMMA DupStep ==
  ASSUME IInv, NEW arg \in OpenArguments, NEW v \in Variables, Dup(arg, v) PROVE IInv'
<1> DEFINE results == UNION {Insert(addr, state) : addr \in Candidates(arg)}
<1>1. /\ Calling /\ UNCHANGED ignored /\ ~IsBottom(state)
      /\ Analysed("dup", Successes(results)) /\ "dup" \in Stubs
      /\ Meet(Guessed(MayFail("dup")) \cup Shared(Candidates(arg)))
      /\ Addressed(state, Top, Bound)
      /\ owner[arg.fd] # NoAddr
  BY DEF IInv, Shapes, Dup, Calling, Stubs, OpenArguments, IsOpen, Successes
<1>2. \A r \in results : Addressed(r.st, Top, Bound') /\ Within(r.itv, 0, Bound') /\ ~IsBottom(r.st)
  <2>1. Candidates(arg) \subseteq 1..Top
    BY <1>1, TopIs, FindAddressed DEF Candidates
  <2> QED BY <1>1, <2>1, ResultsAddressed, InsertKeeps
<1>3. ASSUME NoGuess' PROVE NoGuess /\ ~Drops
  <2>1. NoGuess /\ "guessed" \notin Guessed(MayFail("dup")) \cup Shared(Candidates(arg))
    BY <1>1, <1>3, MeetIs
  <2> QED BY <2>1 DEF Guessed, Kinds
<1>4. ASSUME NoGuess', Unused(owner) # {}
      PROVE  \E r \in results : Contains(r.itv, LowestFree(owner)) /\ Covered(r.st, LowestFree(owner))
  <2>1. Candidates(arg) # {}
    <3>1. /\ arg.fd \in Descriptors /\ arg.fd \in Int /\ Within(arg.itv, -1, Bound)
          /\ Contains(arg.itv, arg.fd) /\ IsOpen(arg.fd)
      BY <1>3, <1>4, ArgumentIs DEF OpenArguments
    <3>2. Covered(state, arg.fd)
      BY <1>3, <1>4, <3>1 DEF IInv, Known, OpenCovered
    <3>3. arg.itv.lo \in Int /\ arg.itv.hi \in Int /\ Bound \in Int
      BY <3>1, BoundIs DEF IInv, Within
    <3> QED BY <1>1, <3>1, <3>2, <3>3, TopIs, FindCovered DEF Candidates
  <2>2. PICK addr \in Candidates(arg) : TRUE
    BY <2>1
  <2>3. PICK r \in Insert(addr, state) : Contains(r.itv, LowestFree(owner)) /\ Covered(r.st, LowestFree(owner))
    BY <1>1, <1>3, <1>4, NextReturned
  <2> QED BY <2>2, <2>3
<1>5. Returns(results, owner[arg.fd], v)
  BY DEF Returns, Dup, Fails, ResultItv
<1> HIDE DEF results
<1> QED BY <1>1, <1>2, <1>3, <1>4, <1>5, ReturnStep

(* pipe: the first registration leaves the slots after the one it fills,   *)
(* when none of them had to be guessed.                                    *)
LEMMA PipeSlots ==
  ASSUME IInv, ~IsBottom(state), ClosedMayBeFree, ~Guesses, Unused(owner) # {}, NEW s1 \in Sites,
         NEW state1, state1 = Join(Successes(Insert(s1, state))),
         WellFormed(state1), Insert(s1, state) # {},
         NEW owner1, owner1 = [owner EXCEPT ![LowestFree(owner)] = s1],
         Unused(owner1) # {}, LowestFree(owner1) \in Slots
  PROVE  /\ state1.first[LowestFree(owner1)].free
         /\ \A j \in Slots : LowestFree(owner1) < j =>
              ~(state1.first[LowestFree(owner1)] # Free /\ state1.first[j].free)
<1> DEFINE results == Insert(s1, state)
           n == LowestFree(owner)
           k == LowestFree(owner1)
           states == Successes(results)
<1>0. WellFormed(state) /\ s1 # NoAddr
  BY SitesAssumption DEF IInv, Shapes
<1>1. n \in Descriptors /\ owner[n] = NoAddr /\ \A fd \in Descriptors : fd < n => owner[fd] # NoAddr
  BY LowestIsFree
<1>2. k \in Descriptors /\ owner1[k] = NoAddr
  BY LowestIsFree
<1>3. \A s \in states : \E q \in results : s = q.st
  BY DEF Successes
<1>4. \A q \in results : q.st \in states
  BY DEF Successes
<1>5. state1 = Join(states) /\ k \in Slots
  OBVIOUS
<1>6. owner[k] = NoAddr /\ k # n
  <2>1. n \in Descriptors => owner1[n] = s1
    BY DEF IInv, Shapes
  <2>2. k # n => owner1[k] = owner[k]
    BY <1>1, <1>2 DEF IInv, Shapes
  <2> HIDE DEF n, k
  <2> QED BY <1>0, <1>1, <1>2, <2>1, <2>2
<1> HIDE DEF n, k, results, states
<1>7. n \in Nat /\ k \in Nat
  BY <1>1, <1>2, SlotsInDescriptors
<1>8. n < k /\ n \in Slots
  <2>1. k < 3
    BY <1>5 DEF Slots, window
  <2>2. ~(k < n)
    BY <1>1, <1>2, <1>6
  <2>3. n < k /\ n < 3
    BY <1>6, <1>7, <2>1, <2>2
  <2> QED BY <1>7, <2>3 DEF Slots, window
<1>9. state.first[k].free /\ state.first[n].free
  BY <1>1, <1>5, <1>6, <1>8 DEF ClosedMayBeFree
<1>10. state.first[n] = Free
  BY <1>5, <1>8, <1>9 DEF Guesses, Unsure
<1>11. \A q \in results : \A j \in Slots : n < j => q.st.first[j] = state.first[j]
  BY <1>8, <1>10, LaterSlots DEF results
<1>12. \A j \in Slots : n < j /\ state1.first[j].free => state.first[j].free
  <2> TAKE j \in Slots
  <2> HAVE n < j /\ state1.first[j].free
  <2>1. PICK s \in states : s.first[j].free
    BY <1>5, JoinFree
  <2>2. PICK q \in results : s = q.st
    BY <1>3
  <2> QED BY <1>11, <2>1, <2>2
<1>13. state1.first[k].free /\ state1.first[k].taken \subseteq state.first[k].taken
  <2>1. PICK q \in results : TRUE
    BY DEF results
  <2>2. q.st.first[k].free /\ q.st \in states /\ ~IsBottom(q.st)
    BY <1>4, <1>5, <1>8, <1>9, <1>11, InsertKeeps DEF results
  <2>3. state1.first[k].free
    <3>1. \A s \in states : Addressed(s, Top, Bound + 1)
      <4>1. /\ s1 \in 1..Top /\ Top \in Nat /\ Bound \in Int /\ window - 1 <= Bound
            /\ Addressed(state, Top, Bound)
        BY SitesAreAddresses, TopIs, BoundIs DEF IInv, Shapes
      <4>2. \A q0 \in results : Addressed(q0.st, Top, Bound + 1)
        BY <4>1, InsertAddressed DEF results
      <4> QED BY <1>3, <4>2
    <3>2. Bound + 1 \in Int
      BY BoundIs DEF IInv
    <3> QED BY <1>5, <2>2, <3>1, <3>2, JoinKeeps
  <2>4. ASSUME NEW x \in state1.first[k].taken PROVE x \in state.first[k].taken
    <3>1. PICK s \in states : x \in s.first[k].taken
      BY <1>5, <2>4, JoinSlots
    <3>2. PICK q0 \in results : s = q0.st
      BY <1>3
    <3> QED BY <1>5, <1>8, <1>11, <3>1, <3>2
  <2> QED BY <2>3, <2>4
<1>14. ASSUME NEW j \in Slots, k < j, state1.first[k] # Free, state1.first[j].free PROVE FALSE
  <2>1. n < j
    BY <1>5, <1>7, <1>8, <1>14 DEF Slots
  <2>2. state1.first[k].taken # {}
    BY <1>5, <1>13, <1>14, SlotIs DEF WellFormed
  <2>3. state.first[k].taken # {}
    BY <1>13, <2>2
  <2>4. state.first[k] # Free
    BY <2>3 DEF Free, Slot
  <2> QED BY <1>5, <1>9, <1>12, <1>14, <2>1, <2>4 DEF Guesses, Unsure
<1> QED BY <1>13, <1>14 DEF k

(* pipe: the state after the first registration covers what is open then,  *)
(* and the next descriptor may be free in it.                              *)
LEMMA PipeFirst ==
  ASSUME IInv, Calling, NoGuess, ~Drops, ~Guesses, Unused(owner) # {}, NEW s1 \in Sites,
         NEW state1, state1 = Join(Successes(Insert(s1, state))),
         NEW owner1, owner1 = [owner EXCEPT ![LowestFree(owner)] = s1]
  PROVE  /\ WellFormed(state1) /\ ~IsBottom(state1) /\ Addressed(state1, Top, Bound + 1)
         /\ \E r \in Insert(s1, state) : Contains(r.itv, LowestFree(owner))
         /\ \A fd \in Descriptors : owner1[fd] # NoAddr => Covered(state1, fd)
         /\ LowestFree(owner) \notin Slots => BoundTo(s1, state1.others, LowestFree(owner))
         /\ \A a \in state1.others.support \cap Keys(state1.others) :
              Contains(state1.others.map[a], LowestFree(owner))
         /\ Unused(owner1) # {} /\ LowestFree(owner1) \in Slots =>
              /\ state1.first[LowestFree(owner1)].free
              /\ \A j \in Slots : LowestFree(owner1) < j =>
                   ~(state1.first[LowestFree(owner1)] # Free /\ state1.first[j] = Free)
<1> DEFINE results == Insert(s1, state)
           n == LowestFree(owner)
           states == Successes(results)
<1>0. /\ WellFormed(state) /\ ~IsBottom(state) /\ Addressed(state, Top, Bound)
      /\ ByDefault /\ Known /\ state.others.support = {}
      /\ s1 \in 1..Top /\ s1 # NoAddr
      /\ Bound \in Int /\ Bound + 1 \in Int /\ window - 1 <= Bound /\ window = 3 /\ Top \in Nat
  BY SitesAreAddresses, SitesAssumption, BoundIs, TopIs DEF IInv, Shapes, NoGuess, Calling, Known, NoSupport
<1>1. n \in Descriptors /\ owner[n] = NoAddr /\ \A fd \in Descriptors : fd < n => owner[fd] # NoAddr
  BY LowestIsFree
<1>2. n \in Int /\ n \in Nat
  <2> HIDE DEF n
  <2> QED BY <1>1, SlotsInDescriptors
<1>3. \A r \in results : r.st \in states /\ ~IsBottom(r.st) /\ WellFormed(r.st) /\ Addressed(r.st, Top, Bound + 1)
  BY <1>0, InsertKeeps, InsertWellFormed, InsertAddressed DEF Successes
<1>4. \A s \in states : \E r \in results : s = r.st
  BY DEF Successes
<1>5. \A s \in states : Addressed(s, Top, Bound + 1) /\ NoNull(s)
  BY <1>0, <1>3, <1>4, AddressedNoNull
<1>6. state1 = Join(states)
  OBVIOUS
<1>7. /\ n \in Slots => \E r \in results : Contains(r.itv, n) /\ Covered(r.st, n) /\ r.st.others = state.others
      /\ n \notin Slots => \E r \in results : /\ r.itv = NewItv(state.others) /\ Contains(r.itv, n)
                                              /\ Covered(r.st, n) /\ r.st.others = Bind(s1, r.itv, state.others)
  <2> HIDE DEF n
  <2>1. n \in Slots => /\ state.first[n].free
                       /\ \A j \in Slots : n < j => ~(state.first[n] # Free /\ state.first[j] = Free)
    BY <1>0, <1>1 DEF ByDefault, ClosedMayBeFree, Drops, Unsure
  <2>2. \A fd \in Descriptors : owner[fd] # NoAddr => Covered(state, fd)
    BY <1>0 DEF Known, OpenCovered, IsOpen
  <2> QED BY <1>0, <2>1, <2>2, LowestReturned, AtIsCovered DEF n
<1> HIDE DEF n, results, states
<1>8. PICK r \in results :
        /\ Contains(r.itv, n) /\ Covered(r.st, n)
        /\ n \in Slots => r.st.others = state.others
        /\ n \notin Slots => r.itv = NewItv(state.others) /\ r.st.others = Bind(s1, r.itv, state.others)
  BY <1>7
<1>9. /\ WellFormed(state1) /\ Addressed(state1, Top, Bound + 1)
      /\ \A i \in Slots : r.st.first[i].taken \subseteq state1.first[i].taken
      /\ \A i \in Slots : r.st.first[i].free => state1.first[i].free
      /\ \A a : \A k \in Int : BoundTo(a, r.st.others, k) => BoundTo(a, state1.others, k)
      /\ \A k \in Int : Covered(r.st, k) => Covered(state1, k)
      /\ state1.others.support \subseteq r.st.others.support
      /\ ~IsBottom(state1)
  <2>1. WellFormed(state1) /\ Addressed(state1, Top, Bound + 1)
    BY <1>0, <1>5, <1>6, JoinWellFormed, JoinAddressed
  <2>2. r.st \in states /\ ~IsBottom(r.st) /\ WellFormed(r.st)
    BY <1>3
  <2>3. ~IsBottom(state1)
    BY <1>0, <1>5, <1>6, <2>1, <2>2, JoinNotBottom
  <2> QED BY <1>0, <1>5, <1>6, <2>1, <2>2, <2>3, JoinKeeps
<1>10. n \notin Slots => BoundTo(s1, r.st.others, n) /\ r.st.others.support = {s1}
  BY <1>0, <1>8, BindIs DEF BoundTo
<1>11. \A fd \in Descriptors : owner1[fd] # NoAddr => fd = n \/ owner[fd] # NoAddr
  BY DEF n, IInv, Shapes
<1>12. ASSUME NEW fd \in Descriptors, owner1[fd] # NoAddr PROVE Covered(state1, fd)
  <2>0. fd \in Int /\ fd \in Nat
    BY SlotsInDescriptors
  <2>1. CASE fd = n
    BY <1>2, <1>8, <1>9, <2>1
  <2>2. CASE fd # n
    <3>1. Covered(state, fd)
      BY <1>0, <1>11, <1>12, <2>2 DEF Known, OpenCovered, IsOpen
    <3>2. /\ \A i \in Slots : state.first[i].taken \subseteq r.st.first[i].taken
          /\ \A a, k : a # s1 /\ BoundTo(a, state.others, k) => BoundTo(a, r.st.others, k)
      BY InsertKeeps DEF results
    <3>3. CASE fd \in Slots
      BY <1>9, <3>1, <3>2, <3>3 DEF Covered
    <3>4. CASE fd \notin Slots
      <4>1. PICK a \in Keys(state.others) : BoundTo(a, state.others, fd)
        BY <3>1, <3>4 DEF Covered
      <4>2. CASE a # s1 \/ n \in Slots
        <5>1. BoundTo(a, r.st.others, fd)
          BY <1>8, <3>2, <4>1, <4>2
        <5>2. BoundTo(a, state1.others, fd)
          BY <1>9, <2>0, <5>1
        <5> QED BY <3>4, <5>2 DEF Covered, BoundTo
      <4>3. CASE a = s1 /\ n \notin Slots
        <5>1. r.itv = NewItv(state.others) /\ r.st.others = Bind(s1, r.itv, state.others)
          BY <1>8, <4>3
        <5>2. fd = window \/ (window < fd /\ Reached(state.others, fd - 1))
          <6>1. Within(state.others.map[a], window, Bound)
            BY <1>0, <4>1 DEF Addressed, TableWithin
          <6>2. state.others.map[a].lo <= fd /\ fd <= state.others.map[a].hi
            BY <4>1 DEF BoundTo, Contains
          <6>3. window <= fd /\ fd - 1 <= state.others.map[a].hi
            BY <1>0, <2>0, <6>1, <6>2 DEF Within
          <6>4. fd = window \/ window < fd
            BY <1>0, <2>0, <6>3
          <6> QED BY <6>3, <6>4 DEF Reached
        <5>3. Contains(NewItv(state.others), fd)
          BY <1>0, <2>0, <5>2, NewItvIs DEF Addressed
        <5>4. BoundTo(s1, r.st.others, fd)
          BY <5>1, <5>3, BindIs DEF BoundTo
        <5>5. BoundTo(s1, state1.others, fd)
          BY <1>9, <2>0, <5>4
        <5> QED BY <3>4, <5>5 DEF Covered, BoundTo
      <4> QED BY <4>2, <4>3
    <3> QED BY <3>3, <3>4
  <2> QED BY <2>1, <2>2
<1>13. n \notin Slots => BoundTo(s1, state1.others, n)
  BY <1>2, <1>9, <1>10
<1>14. \A a \in state1.others.support \cap Keys(state1.others) : Contains(state1.others.map[a], n)
  <2>1. CASE n \in Slots
    BY <1>0, <1>8, <1>9, <2>1
  <2>2. CASE n \notin Slots
    BY <1>9, <1>10, <1>13, <2>2 DEF BoundTo
  <2> QED BY <2>1, <2>2
<1>15. ASSUME Unused(owner1) # {}, LowestFree(owner1) \in Slots
       PROVE  /\ state1.first[LowestFree(owner1)].free
              /\ \A j \in Slots : LowestFree(owner1) < j =>
                   ~(state1.first[LowestFree(owner1)] # Free /\ state1.first[j] = Free)
  <2>1. Insert(s1, state) # {}
    BY <1>8 DEF results
  <2>2. /\ state1.first[LowestFree(owner1)].free
        /\ \A j \in Slots : LowestFree(owner1) < j =>
             ~(state1.first[LowestFree(owner1)] # Free /\ state1.first[j].free)
    BY <1>0, <1>9, <1>15, <2>1, PipeSlots DEF ByDefault
  <2>3. \A j \in Slots : state1.first[j] = Free => state1.first[j].free
    <3>1. Free.free
      BY DEF Free, Slot
    <3> QED BY <3>1
  <2> QED BY <2>2, <2>3
<1>16. r \in Insert(s1, state)
  BY DEF results
<1> QED BY <1>8, <1>9, <1>12, <1>13, <1>14, <1>15, <1>16 DEF n

(* pipe: whatever is known, the two registrations keep the state bounded.  *)
LEMMA PipeAddressed ==
  ASSUME IInv, Calling, NEW s1 \in Sites, NEW s2 \in Sites,
         NEW state1, state1 = Join(Successes(Insert(s1, state)))
  PROVE  /\ \A r \in Insert(s1, state) : Addressed(r.st, Top, Bound') /\ Within(r.itv, 0, Bound')
         /\ \A r \in Insert(s2, state1) : Addressed(r.st, Top, Bound') /\ Within(r.itv, 0, Bound')
<1> DEFINE h == Bound + 1
           states == Successes(Insert(s1, state))
<1>0. /\ s1 \in 1..Top /\ s2 \in 1..Top /\ Top \in Nat /\ Addressed(state, Top, Bound)
      /\ Bound \in Int /\ h \in Int /\ window - 1 <= Bound /\ window - 1 <= h /\ h + 1 = Bound'
  BY SitesAreAddresses, TopIs, BoundIs, BoundGrows DEF IInv, Shapes
<1>1. \A r \in Insert(s1, state) : Addressed(r.st, Top, h)
  BY <1>0, InsertAddressed
<1>2. \A s \in states : Addressed(s, Top, h)
  BY <1>1 DEF Successes
<1>3. state1 = Join(states)
  OBVIOUS
<1> HIDE DEF states, h
<1>4. Addressed(state1, Top, h)
  BY <1>0, <1>2, <1>3, JoinAddressed
<1>5. \A r \in Insert(s2, state1) : Addressed(r.st, Top, h + 1) /\ Within(r.itv, 0, h + 1)
  BY <1>0, <1>4, InsertAddressed
<1>6. \A r \in Insert(s1, state) : Addressed(r.st, Top, Bound') /\ Within(r.itv, 0, Bound')
  BY <1>0, ResultsAddressed
<1> QED BY <1>0, <1>5, <1>6

(* pipe: the second registration keeps the descriptor of the first, and    *)
(* returns the next one.                                                   *)
LEMMA PipeSecond ==
  ASSUME IInv, NEW s1 \in Sites, NEW s2 \in Sites, s1 # s2, NEW n \in Descriptors,
         NEW st, WellFormed(st), ~IsBottom(st), Addressed(st, Top, Bound + 1),
         NEW own, own[n] = s1, Unused(own) # {},
         \A fd \in Descriptors : own[fd] # NoAddr => Covered(st, fd),
         n \notin Slots => BoundTo(s1, st.others, n),
         \A a \in st.others.support \cap Keys(st.others) : Contains(st.others.map[a], n),
         LowestFree(own) \in Slots =>
           /\ st.first[LowestFree(own)].free
           /\ \A j \in Slots : LowestFree(own) < j => ~(st.first[LowestFree(own)] # Free /\ st.first[j] = Free)
  PROVE  /\ \A r \in Insert(s2, st) : ~IsBottom(r.st) /\ Covered(r.st, n)
         /\ \E r \in Insert(s2, st) : Contains(r.itv, LowestFree(own)) /\ Covered(r.st, LowestFree(own))
<1> DEFINE k == LowestFree(own)
           h == Bound + 1
<1>1. k \in Descriptors /\ own[k] = NoAddr
  BY LowestIsFree
<1>2. /\ s1 # NoAddr /\ Top \in Nat /\ h \in Int /\ window - 1 <= h
      /\ Addressed(st, Top, h)
  BY SitesAssumption, TopIs, BoundIs DEF IInv
<1> HIDE DEF k, h
<1>3. n \in Int /\ k \in Int /\ n # k
  BY <1>1, <1>2, SlotsInDescriptors
<1>4. ASSUME NEW r \in Insert(s2, st) PROVE ~IsBottom(r.st) /\ Covered(r.st, n)
  <2>1. /\ ~IsBottom(r.st)
        /\ \A i \in Slots : st.first[i].taken \subseteq r.st.first[i].taken
        /\ \A a, d : a # s2 /\ BoundTo(a, st.others, d) => BoundTo(a, r.st.others, d)
    BY InsertKeeps
  <2>2. CASE n \in Slots
    BY <1>2, <2>1, <2>2 DEF Covered
  <2>3. CASE n \notin Slots
    BY <2>1, <2>3 DEF Covered, BoundTo
  <2> QED BY <2>1, <2>2, <2>3
<1>5. \A a \in st.others.support \cap Keys(st.others) : ~(st.others.map[a].lo = k /\ st.others.map[a].hi = k)
  BY <1>3 DEF Contains
<1>6. \E r \in Insert(s2, st) : Contains(r.itv, k) /\ Covered(r.st, k)
  BY <1>2, <1>5, LowestReturned, AtIsCovered DEF k
<1> QED BY <1>4, <1>6 DEF k

LEMMA PipeStep ==
  ASSUME IInv, NEW s1 \in Sites, NEW s2 \in Sites, NEW v1 \in Variables, NEW v2 \in Variables,
         s1 # s2, v1 # v2, Pipe(s1, s2, v1, v2)
  PROVE  IInv'
<1> DEFINE results1 == Insert(s1, state)
           state1 == Join(Successes(results1))
           results2 == Insert(s2, state1)
           successes == Successes(results2)
           fd1 == LowestFree(owner)
           owner1 == [owner EXCEPT ![fd1] = s1]
           fd2 == LowestFree(owner1)
           given1 == Holding(fd1, Hull({r.itv : r \in results1}))
           given2 == Holding(fd2, Hull({r.itv : r \in results2}))
<1>0. /\ Calling /\ UNCHANGED ignored /\ results1 # {} /\ results2 # {}
      /\ Analysed("pipe", successes) /\ "pipe" \in Stubs
      /\ Meet(Guessed(FALSE) \cup Shared({s1, s2}))
      /\ s1 # NoAddr /\ s2 # NoAddr
      /\ Bound' \in Nat
  BY SitesAssumption, BoundGrows DEF IInv, Pipe, Calling, Stubs, Successes
<1>1. /\ \A r \in results1 : Addressed(r.st, Top, Bound') /\ Within(r.itv, 0, Bound')
      /\ \A r \in results2 : Addressed(r.st, Top, Bound') /\ Within(r.itv, 0, Bound')
  BY <1>0, PipeAddressed
<1>2. \A s \in successes : Addressed(s, Top, Bound')
  BY <1>1 DEF Successes
<1>3. \A r \in results2 : r.st \in successes
  BY DEF Successes
<1>4. ASSUME NoGuess' PROVE NoGuess /\ ~Drops /\ ~Guesses
  <2>1. NoGuess /\ "guessed" \notin Guessed(FALSE) \cup Shared({s1, s2})
    BY <1>0, <1>4, MeetIs
  <2> QED BY <2>1 DEF Guessed, Kinds
<1>5. CASE /\ Unused(owner) # {} /\ Unused(owner1) # {}
           /\ owner' = [owner1 EXCEPT ![fd2] = s2]
           /\ held' = [held EXCEPT ![v1] = given1, ![v2] = given2]
  <2>1. fd1 \in Descriptors /\ owner[fd1] = NoAddr /\ fd2 \in Descriptors /\ owner1[fd2] = NoAddr
    BY <1>5, LowestIsFree
  <2>2. ASSUME NoGuess'
        PROVE  /\ \E r \in results1 : Contains(r.itv, fd1)
               /\ \A r \in results2 : ~IsBottom(r.st) /\ Covered(r.st, fd1)
               /\ \E r \in results2 : Contains(r.itv, fd2) /\ Covered(r.st, fd2)
    <3>1. NoGuess /\ ~Drops /\ ~Guesses /\ Unused(owner1) # {} /\ owner1[fd1] = s1
      BY <1>4, <1>5, <2>1, <2>2 DEF IInv, Shapes
    <3>2. /\ WellFormed(state1) /\ ~IsBottom(state1) /\ Addressed(state1, Top, Bound + 1)
          /\ \E r \in results1 : Contains(r.itv, fd1)
          /\ \A fd \in Descriptors : owner1[fd] # NoAddr => Covered(state1, fd)
          /\ fd1 \notin Slots => BoundTo(s1, state1.others, fd1)
          /\ \A a \in state1.others.support \cap Keys(state1.others) : Contains(state1.others.map[a], fd1)
          /\ fd2 \in Slots =>
               /\ state1.first[fd2].free
               /\ \A j \in Slots : fd2 < j => ~(state1.first[fd2] # Free /\ state1.first[j] = Free)
      BY <1>0, <1>5, <3>1, PipeFirst
    <3> HIDE DEF state1, results1, fd1, owner1
    <3> QED BY <2>1, <3>1, <3>2, PipeSecond DEF results2
  <2>3. /\ given1.fd = fd1 /\ given1.itv = ResultItv(results1)
        /\ given2.fd = fd2 /\ given2.itv = ResultItv(results2)
    BY <1>0 DEF Holding, ResultItv
  <2>4. \A d \in Descriptors : owner'[d] = IF d = fd2 THEN s2 ELSE IF d = fd1 THEN s1 ELSE owner[d]
    BY <1>5, <2>1 DEF IInv, Shapes
  <2>5. \A d \in Descriptors : owner1[d] = IF d = fd1 THEN s1 ELSE owner[d]
    BY <2>1 DEF IInv, Shapes
  <2>6. owner' = [d \in Descriptors |-> owner'[d]] /\ held' = [u \in Variables |-> held'[u]]
    BY <1>5 DEF IInv, Shapes
  <2>7. \A u \in Variables : held'[u] = IF u = v2 THEN given2 ELSE IF u = v1 THEN given1 ELSE held[u]
    BY <1>5 DEF IInv, Shapes
  <2> HIDE DEF results1, results2, successes, fd1, fd2, given1, given2, owner1
  <2>8. owner[fd2] = NoAddr
    BY <1>0, <2>1, <2>5
  <2>9. /\ Within(ResultItv(results1), -1, Bound') /\ Within(ResultItv(results2), -1, Bound')
        /\ \A r \in results1, d \in Int : Contains(r.itv, d) => Contains(ResultItv(results1), d)
        /\ \A r \in results2, d \in Int : Contains(r.itv, d) => Contains(ResultItv(results2), d)
    BY <1>0, <1>1, ResultItvIs
  <2>10. HeldShape(given1, Bound') /\ HeldShape(given2, Bound')
    BY <2>1, <2>3, <2>9 DEF HeldShape
  <2>11. KeepsDescriptors
    <3>1. \A i \in Slots : owner'[i] = NoAddr => owner[i] = NoAddr
      BY <2>1, <2>4, <2>8, SlotsInDescriptors
    <3>2. \A u \in Variables : held'[u] = held[u] \/ owner[held'[u].fd] = NoAddr
      BY <2>1, <2>3, <2>7, <2>8
    <3>3. \A u \in Variables : held'[u] = held[u] \/ HeldShape(held'[u], Bound')
      BY <2>7, <2>10
    <3> QED BY <2>6, <3>1, <3>2, <3>3 DEF KeepsDescriptors
  <2>12. ASSUME NoGuess' PROVE KeepsKnown(successes)
    <3>1. PICK r1 \in results1 : Contains(r1.itv, fd1)
      BY <2>2, <2>12
    <3>2. PICK r2 \in results2 : Contains(r2.itv, fd2) /\ Covered(r2.st, fd2)
      BY <2>2, <2>12
    <3>3. r2.st \in successes /\ ~IsBottom(r2.st) /\ Covered(r2.st, fd1)
      BY <1>3, <2>2, <2>12
    <3>4. fd1 \in Int /\ fd2 \in Int
      BY <2>1, SlotsInDescriptors
    <3>5. Contains(given1.itv, given1.fd) /\ Contains(given2.itv, given2.fd)
      BY <2>3, <2>9, <3>1, <3>2, <3>4
    <3>6. \A fd \in Descriptors : owner'[fd] # NoAddr =>
            owner[fd] # NoAddr \/ \E s \in successes : ~IsBottom(s) /\ Covered(s, fd)
      BY <2>4, <3>2, <3>3
    <3>7. \A u \in Variables : held'[u] # Unset => held'[u] = held[u] \/ Contains(held'[u].itv, held'[u].fd)
      BY <2>7, <3>5
    <3> QED BY <3>6, <3>7 DEF KeepsKnown
  <2>13. NoGuess' => NoGuess /\ KeepsKnown(successes)
    BY <1>4, <2>12
  <2> QED BY <1>0, <1>2, <2>11, <2>13, CallStep
<1>6. CASE UNCHANGED <<owner, held>>
  <2> HIDE DEF successes
  <2>1. KeepsDescriptors /\ KeepsKnown(successes)
    BY <1>6 DEF IInv, Shapes, KeepsDescriptors, KeepsKnown
  <2> QED BY <1>0, <1>2, <1>4, <2>1, CallStep
<1> QED BY <1>5, <1>6 DEF Pipe, Fails, Successes

(* dup2: a target without an address may be NULL, and is then given one.   *)
LEMMA Dup2Step ==
  ASSUME IInv, NEW arg \in OpenArguments, NEW target \in Arguments, NEW site \in Sites,
         Dup2(arg, target, site)
  PROVE  IInv'
<1> DEFINE found == FindAddr(target.itv, state)
           successes == (IF NoAddr \in found THEN InsertAt(site, target.itv, state) ELSE {}) \cup
                        (IF found = {NoAddr} THEN {} ELSE {state})
           kinds == IF NoAddr \in found THEN Shared({site}) ELSE Kinds(~IsOpen(target.fd), "shared")
<1>0. /\ Calling /\ UNCHANGED <<ignored, held>> /\ ~IsBottom(state) /\ WellFormed(state)
      /\ Analysed("dup2", successes) /\ "dup2" \in Stubs
      /\ Meet(kinds)
      /\ site \in 1..Top /\ site # NoAddr
      /\ Bound \in Int /\ Bound' \in Int /\ Bound <= Bound' /\ -1 \in Int
      /\ Addressed(state, Top, Bound)
  BY SitesAreAddresses, SitesAssumption, BoundIs, BoundGrows DEF IInv, Shapes, Dup2, Calling, Stubs
<1>1. /\ Within(target.itv, -1, Bound) /\ target.itv.lo \in Int /\ target.itv.hi \in Int
      /\ target.fd \in Descriptors /\ target.fd \in Nat
      /\ NoGuess => Contains(target.itv, target.fd)
  BY ArgumentIs DEF Within
<1>2. \A s \in successes : Addressed(s, Top, Bound')
  <2>1. Addressed(state, Top, Bound')
    BY <1>0, AddressedMore
  <2>2. Within(target.itv, -1, Bound')
    BY <1>0, <1>1 DEF Within
  <2>3. \A s \in InsertAt(site, target.itv, state) : Addressed(s, Top, Bound')
    BY <1>0, <2>1, <2>2, TopIs, InsertAtAddressed
  <2> QED BY <2>1, <2>3
<1>3. ASSUME NoGuess, ~Covered(state, target.fd)
      PROVE  \E s \in successes : ~IsBottom(s) /\ Covered(s, target.fd)
  <2>1. NoAddr \in found
    BY <1>0, <1>1, <1>3, TopIs, FindNull
  <2>2. \E s \in InsertAt(site, target.itv, state) : ~IsBottom(s) /\ Covered(s, target.fd)
    BY <1>0, <1>1, <1>3, TopIs, InsertAtCovers, AtIsCovered DEF Registers
  <2> QED BY <2>1, <2>2
<1>4. NoGuess' => NoGuess
  <2> HIDE DEF kinds
  <2> QED BY <1>0, MeetIs
<1> HIDE DEF successes
<1>5. CASE owner' = [owner EXCEPT ![target.fd] = IF @ = NoAddr THEN site ELSE @]
  <2> DEFINE fd == target.fd
             addr == IF owner[target.fd] = NoAddr THEN site ELSE owner[target.fd]
  <2>1. fd \in Descriptors /\ addr # NoAddr
    BY <1>0, <1>1
  <2>2. owner' = [owner EXCEPT ![fd] = addr]
    BY <1>5
  <2>3. ASSUME NoGuess PROVE Covered(state, fd) \/ \E s \in successes : ~IsBottom(s) /\ Covered(s, fd)
    BY <1>3, <2>3
  <2> HIDE DEF fd, addr
  <2>4. \A d \in Descriptors : owner'[d] = IF d = fd THEN addr ELSE owner[d]
    BY <2>1, <2>2 DEF IInv, Shapes
  <2>5. KeepsDescriptors
    <3>1. owner' = [d \in Descriptors |-> owner'[d]]
      BY <2>2 DEF IInv, Shapes
    <3>2. \A i \in Slots : owner'[i] = NoAddr => owner[i] = NoAddr
      BY <2>1, <2>4, SlotsInDescriptors
    <3> QED BY <1>0, <3>1, <3>2 DEF IInv, Shapes, KeepsDescriptors
  <2>6. NoGuess' => KeepsKnown(successes)
    BY <1>0, <1>4, <2>3, <2>4 DEF KeepsKnown
  <2> QED BY <1>0, <1>2, <1>4, <2>5, <2>6, CallStep
<1>6. CASE UNCHANGED owner
  <2>1. KeepsDescriptors
    BY <1>0, <1>6 DEF IInv, Shapes, KeepsDescriptors
  <2>2. KeepsKnown(successes)
    BY <1>0, <1>6 DEF KeepsKnown
  <2> QED BY <1>0, <1>2, <1>4, <2>1, <2>2, CallStep
<1> QED BY <1>5, <1>6 DEF Dup2, Fails

LEMMA FdopenStep ==
  ASSUME IInv, NEW arg \in OpenArguments, NEW site \in Sites, Fdopen(arg, site) PROVE IInv'
<1> DEFINE successes == InsertAt(site, arg.itv, state)
<1>0. /\ Calling /\ UNCHANGED <<ignored, owner, held>>
      /\ Analysed("fdopen", successes) /\ "fdopen" \in Stubs
      /\ Meet(Shared({site}))
      /\ site \in 1..Top
      /\ Bound \in Int /\ Bound' \in Int /\ Bound <= Bound' /\ -1 \in Int
      /\ Addressed(state, Top, Bound)
  BY SitesAreAddresses, BoundIs, BoundGrows DEF IInv, Shapes, Fdopen, Calling, Stubs
<1>1. Within(arg.itv, -1, Bound)
  BY ArgumentIs DEF OpenArguments
<1>2. \A s \in successes : Addressed(s, Top, Bound')
  <2>1. Addressed(state, Top, Bound') /\ Within(arg.itv, -1, Bound')
    BY <1>0, <1>1, AddressedMore, WithinMore
  <2> QED BY <1>0, <2>1, TopIs, InsertAtAddressed
<1> HIDE DEF successes
<1>3. KeepsDescriptors /\ KeepsKnown(successes)
  BY <1>0 DEF IInv, Shapes, KeepsDescriptors, KeepsKnown
<1>4. NoGuess' => NoGuess
  BY <1>0, MeetIs
<1> QED BY <1>0, <1>2, <1>3, <1>4, CallStep

(* A descriptor of the window that is closed by its number is found in its *)
(* slot, and the case of each address found frees that slot.               *)
LEMMA CloseStep ==
  ASSUME IInv, NEW arg \in OpenArguments, Close(arg) PROVE IInv'
<1> DEFINE successes == {Remove(addr, state) : addr \in Candidates(arg)}
<1>0. /\ WellFormed(state) /\ ~IsBottom(state) /\ UNCHANGED ignored /\ Analysed("close", successes)
      /\ Shapes /\ Calling /\ "close" \in Stubs
      /\ Meet(Kinds(Cardinality(Candidates(arg)) > 1, "ambiguous"))
      /\ Bound \in Int /\ Bound' \in Int /\ Bound <= Bound' /\ calls' \in Nat
  BY BoundIs, BoundGrows DEF IInv, Shapes, Close, Calling, Stubs
<1>1. Addressed(state, Top, Bound')
  BY <1>0, AddressedMore DEF Shapes
<1>2. \A s \in successes : Addressed(s, Top, Bound')
  BY <1>1, RemoveAddressed
<1>3. /\ WellFormed(state') /\ Addressed(state', Top, Bound')
      /\ ignored = {} => /\ \A i \in Slots : state.first[i].free => state'.first[i].free
                         /\ \A n \in Int : Covered(state, n) => Covered(state', n)
                         /\ state'.others.support \subseteq state.others.support
  <2> HIDE DEF successes
  <2> QED BY <1>0, <1>1, <1>2, AnalysedStep
<1>4. ASSUME ignored = {}, arg.fd \in Slots PROVE state'.first[arg.fd].free
  <2>1. CASE state.first[arg.fd].free
    BY <1>3, <1>4, <2>1
  <2>2. CASE ~state.first[arg.fd].free
    <3> DEFINE fd == arg.fd
    <3>1. arg.itv = Const(fd)
      BY <1>4, <2>2 DEF OpenArguments, Arguments, Holding, IInv, ByDefault, HeldMayBeFree
    <3>2. PICK a : a \in state.first[fd].taken
      BY <1>0, <1>4, <2>2 DEF WellFormed, SlotShape, IsBottom, Bot
    <3>3. a # NoAddr
      BY <1>0, <1>4, <3>2 DEF WellFormed, SlotShape
    <3>4. Contains(arg.itv, fd)
      BY <1>4, <3>1 DEF Contains, Const, Itv, Slots, window
    <3>5. a \in Candidates(arg)
      BY <1>4, <3>2, <3>3, <3>4, FindAddrIs DEF Candidates
    <3>6. Remove(a, state).first[fd].free
      BY <1>4, <3>2 DEF Remove, State, SlotRemove, Slot
    <3>7. ~IsBottom(Remove(a, state))
      BY <1>0 DEF IsBottom, Remove, State, SlotRemove, Slot, Bot
    <3> DEFINE states == successes \cup (IF MayFail("close") THEN {state} ELSE {})
    <3>8. state' = Join(states) /\ Remove(a, state) \in states /\ \A s \in states : Addressed(s, Top, Bound')
      BY <1>0, <1>1, <1>2, <3>5 DEF Analysed
    <3> HIDE DEF states
    <3> QED BY <1>0, <1>4, <3>6, <3>7, <3>8, JoinKeeps
  <2> QED BY <2>1, <2>2
<1>5. /\ owner' = [d \in Descriptors |-> owner'[d]]
      /\ \A d \in Descriptors : owner'[d] = owner[d] \/ (d = arg.fd /\ owner'[d] = NoAddr)
      /\ UNCHANGED held
  BY DEF Close, Fails, Shapes, IInv
<1>6. ignored = {} => ByDefault'
  BY <1>3, <1>4, <1>5, SlotsInDescriptors DEF IInv, ByDefault, ClosedMayBeFree, HeldMayBeFree
<1>7. ASSUME NoGuess' PROVE Known'
  <2>1. NoGuess
    BY <1>0, <1>7, MeetIs
  <2>2. Known /\ ignored = {}
    BY <2>1 DEF IInv, NoGuess
  <2>3. OpenCovered'
    BY <1>3, <1>5, <2>2, SlotsInDescriptors DEF Known, OpenCovered, IsOpen
  <2> QED BY <1>3, <1>5, <2>2, <2>3 DEF Known, HeldCovered, NoSupport
<1>8. Shapes'
  BY <1>0, <1>3, <1>5, HeldShapeMore DEF Shapes
<1> QED BY <1>0, <1>6, <1>7, <1>8 DEF IInv

LEMMA CloseStreamStep ==
  ASSUME IInv, NEW v \in Variables, CloseStream(v) PROVE IInv'
<1>0. /\ Shapes /\ Calling /\ Meet({"left"})
      /\ Bound \in Int /\ Bound' \in Int /\ Bound <= Bound' /\ calls' \in Nat
  BY BoundIs, BoundGrows DEF IInv, CloseStream
<1>1. /\ owner' = [d \in Descriptors |-> owner'[d]]
      /\ \A d \in Descriptors : owner'[d] = owner[d] \/ (d = held[v].fd /\ owner'[d] = NoAddr)
      /\ UNCHANGED <<held, state, ignored>>
  BY DEF CloseStream, Calling, IInv, Shapes
<1>2. ignored = {} => ByDefault'
  BY <1>1, SlotsInDescriptors DEF IInv, ByDefault, ClosedMayBeFree, HeldMayBeFree
<1>3. NoGuess' => Known'
  BY <1>0, <1>1, MeetIs DEF IInv, Known, OpenCovered, IsOpen, HeldCovered, NoSupport
<1>4. Shapes'
  <2>1. Addressed(state, Top, Bound')
    BY <1>0, AddressedMore DEF Shapes
  <2>2. \A u \in Variables : HeldShape(held[u], Bound')
    BY <1>0, HeldShapeMore DEF Shapes
  <2> QED BY <1>0, <1>1, <2>1, <2>2 DEF Shapes
<1> QED BY <1>1, <1>2, <1>3, <1>4 DEF IInv

LEMMA IInvStep == ASSUME IInv, [Next]_vars PROVE IInv'
<1>1. CASE UNCHANGED vars
  BY <1>1 DEF IInv, Shapes, Bound, ByDefault, ClosedMayBeFree, HeldMayBeFree, NoGuess, Known,
             OpenCovered, IsOpen, HeldCovered, NoSupport, vars
<1>2. CASE Next
  BY <1>2, OpenStep, PipeStep, DupStep, Dup2Step, FdopenStep, CloseStep, CloseStreamStep DEF Next
<1> QED BY <1>1, <1>2

----------------------------------------------------------------------------
(* Whatever failures are ignored, until a situation is met.                *)
(*                                                                         *)
(* Tracked: every open descriptor has its own address, the support of the  *)
(* table is open, a slot that is closed may be free, and a variable is in  *)
(* its interval.  No two descriptors have the same address: so the case of *)
(* a close that removes the right one keeps all the others, and that case  *)
(* is enough, for a join keeps what one of its members says.  This is what *)
(* a second registration of an address breaks ("shared").                  *)
Plain == met \cap {"guessed", "shared", "left"} = {}
Labelled(st, own) == \A fd \in Descriptors : own[fd] # NoAddr => At(own[fd], st, fd)
SupportedBy(a, st, own) == \E fd \in Descriptors : own[fd] # NoAddr /\ BoundTo(a, st.others, fd)
Supported(st, own) == \A a \in st.others.support : SupportedBy(a, st, own)
FreeIfClosed(st, own) == \A i \in Slots : own[i] = NoAddr => st.first[i].free
Describes(st, own) == Labelled(st, own) /\ Supported(st, own) /\ FreeIfClosed(st, own)
OneOwner(own) == \A f, g \in Descriptors : own[f] # NoAddr /\ own[f] = own[g] => f = g
Tracked == Describes(state, owner) /\ OneOwner(owner) /\ HeldCovered

TrackInv == IInv /\ (Plain => Tracked)

LEMMA MeetPlain ==
  ASSUME NEW kinds, Meet(kinds), Plain'
  PROVE  Plain /\ "guessed" \notin kinds /\ "shared" \notin kinds /\ "left" \notin kinds
  BY DEF Meet, Plain

LEMMA InitTracked == Init => TrackInv
<1> SUFFICES ASSUME Init PROVE TrackInv
  OBVIOUS
<1>1. IInv /\ \A i \in Slots : state.first[i].taken = {i + 1}
  BY InitIInv, InitKnown, NotFreeIs
<1>2. state.others.support = {}
  BY InitKnown, EmptyTableWithin
<1>3. \A fd \in Descriptors : /\ fd \in Nat
                              /\ owner[fd] = IF fd < window THEN fd + 1 ELSE NoAddr
  BY SlotsInDescriptors DEF Init
<1>4. window = 3 /\ NoAddr = 0 /\ \A fd \in Nat : fd \in Slots <=> fd < window
  BY DEF Slots, window, NoAddr
<1>5. Labelled(state, owner)
  BY <1>1, <1>3, <1>4 DEF Labelled, At
<1>6. FreeIfClosed(state, owner)
  BY <1>3, <1>4, SlotsInDescriptors DEF FreeIfClosed
<1>7. OneOwner(owner)
  BY <1>3, <1>4 DEF OneOwner
<1>8. HeldCovered
  BY DEF Init, HeldCovered
<1> QED BY <1>1, <1>2, <1>5, <1>6, <1>7, <1>8 DEF TrackInv, Tracked, Describes, Supported

(* Two descriptors of a state have different addresses still when one more *)
(* is opened with an address the state does not hold.                      *)
LEMMA FreshOwner ==
  ASSUME NEW st, NEW own, Labelled(st, own), NEW addr, addr \notin Held(st), NEW fd \in Descriptors
  PROVE  own[fd] # NoAddr => own[fd] # addr
  BY AtIsCovered DEF Labelled

LEMMA OneMoreOwner ==
  ASSUME NEW own, OneOwner(own), NEW n, NEW addr, \A fd \in Descriptors : own[fd] # NoAddr => own[fd] # addr,
         NEW own1, \A fd \in Descriptors : own1[fd] = IF fd = n THEN addr ELSE own[fd]
  PROVE  OneOwner(own1)
  BY DEF OneOwner

(* A join describes what one of its members labels, what its support holds *)
(* in one of them, and what is free in one of them.                        *)
LEMMA JoinDescribes ==
  ASSUME NEW states, NEW m, NEW h \in Int, \A s \in states : Addressed(s, m, h), NEW own,
         \E s \in states : ~IsBottom(s) /\ Labelled(s, own),
         \A a \in Join(states).others.support : \E s \in states : ~IsBottom(s) /\ SupportedBy(a, s, own),
         \A i \in Slots : own[i] = NoAddr => \E s \in states : ~IsBottom(s) /\ s.first[i].free
  PROVE  Describes(Join(states), own)
<1> DEFINE J == Join(states)
<1>1. \A fd \in Descriptors : fd \in Int
  BY SlotsInDescriptors
<1>2. Labelled(J, own)
  <2>1. PICK s \in states : ~IsBottom(s) /\ Labelled(s, own)
    OBVIOUS
  <2> QED BY <1>1, <2>1, JoinKeepsAt DEF Labelled
<1>3. ASSUME NEW a \in J.others.support PROVE SupportedBy(a, J, own)
  <2>1. PICK s \in states : ~IsBottom(s) /\ SupportedBy(a, s, own)
    BY <1>3
  <2>2. \A n \in Int : BoundTo(a, s.others, n) => BoundTo(a, J.others, n)
    BY <2>1, JoinKeeps
  <2> QED BY <1>1, <2>1, <2>2 DEF SupportedBy
<1>4. ASSUME NEW i \in Slots, own[i] = NoAddr PROVE J.first[i].free
  <2>1. PICK s \in states : ~IsBottom(s) /\ s.first[i].free
    BY <1>4
  <2> QED BY <2>1, JoinKeeps
<1> QED BY <1>2, <1>3, <1>4 DEF Describes, Supported, FreeIfClosed

(* The registration of an address that no open descriptor has, at the      *)
(* smallest descriptor that is free.                                       *)
LEMMA RegisterDescribes ==
  ASSUME NEW m \in Nat, NEW h \in Int, window - 1 <= h, NEW st, WellFormed(st), ~IsBottom(st), Addressed(st, m, h),
         NEW own, Describes(st, own), Unused(own) # {},
         LowestFree(own) \in Slots =>
           \A j \in Slots : LowestFree(own) < j => ~(st.first[LowestFree(own)] # Free /\ st.first[j] = Free),
         NEW addr, addr # NoAddr, \A fd \in Descriptors : own[fd] # NoAddr => own[fd] # addr,
         NEW own1, \A fd \in Descriptors : own1[fd] = IF fd = LowestFree(own) THEN addr ELSE own[fd]
  PROVE  \E r \in Insert(addr, st) :
           /\ Contains(r.itv, LowestFree(own))
           /\ Labelled(r.st, own1) /\ Supported(r.st, own1)
           /\ (LowestFree(own) \in Slots =>
                 \A j \in Slots : LowestFree(own) < j => ~(st.first[LowestFree(own)] # Free /\ st.first[j].free))
              => FreeIfClosed(r.st, own1)
<1> DEFINE n == LowestFree(own)
<1>1. /\ n \in Descriptors /\ own[n] = NoAddr
      /\ \A fd \in Descriptors : fd < n => own[fd] # NoAddr
  BY LowestIsFree
<1>2. \A fd \in Descriptors : own[fd] # NoAddr => Covered(st, fd)
  BY AtIsCovered DEF Describes, Labelled
<1>3. n \in Slots => st.first[n].free
  BY <1>1 DEF Describes, FreeIfClosed
<1>4. \A a \in st.others.support : ~(st.others.map[a].lo = n /\ st.others.map[a].hi = n)
  <2> SUFFICES ASSUME NEW a \in st.others.support, st.others.map[a].lo = n, st.others.map[a].hi = n PROVE FALSE
    OBVIOUS
  <2>1. PICK fd \in Descriptors : own[fd] # NoAddr /\ BoundTo(a, st.others, fd)
    BY DEF Describes, Supported, SupportedBy
  <2> HIDE DEF n
  <2>2. n <= fd /\ fd <= n /\ n \in Int /\ fd \in Int
    BY <1>1, <2>1, SlotsInDescriptors DEF BoundTo, Contains
  <2> QED BY <1>1, <2>1, <2>2
<1>5. /\ n \in Slots =>
           \E r \in Insert(addr, st) :
             Contains(r.itv, n) /\ At(addr, r.st, n) /\ r.st.others = st.others
      /\ n \notin Slots =>
           \E r \in Insert(addr, st) :
             /\ r.itv = NewItv(st.others) /\ Contains(r.itv, n) /\ At(addr, r.st, n)
             /\ r.st.others = Bind(addr, r.itv, st.others)
  BY <1>2, <1>3, <1>4, LowestReturned
<1>6. \A fd \in Descriptors : own1[fd] = IF fd = n THEN addr ELSE own[fd]
  OBVIOUS
<1> DEFINE Sure == n \in Slots => \A j \in Slots : n < j => ~(st.first[n] # Free /\ st.first[j].free)
<1> SUFFICES \E r \in Insert(addr, st) :
               /\ Contains(r.itv, n) /\ Labelled(r.st, own1) /\ Supported(r.st, own1)
               /\ Sure => FreeIfClosed(r.st, own1)
  OBVIOUS
<1> HIDE DEF n
<1>7. PICK r \in Insert(addr, st) :
        /\ Contains(r.itv, n) /\ At(addr, r.st, n)
        /\ n \in Slots => r.st.others = st.others
        /\ n \notin Slots => r.st.others = Bind(addr, r.itv, st.others)
  BY <1>5
<1>8. Labelled(r.st, own1)
  BY <1>6, <1>7, InsertKeepsAt DEF Describes, Labelled
<1>9. ASSUME NEW a \in r.st.others.support PROVE SupportedBy(a, r.st, own1)
  <2>1. CASE n \in Slots
    BY <1>1, <1>6, <1>7, <1>9, <2>1 DEF Describes, Supported, SupportedBy
  <2>2. CASE n \notin Slots /\ a = addr
    <3>1. BoundTo(a, r.st.others, n)
      BY <1>7, <2>2 DEF At
    <3>2. own1[n] # NoAddr
      BY <1>1, <1>6
    <3> QED BY <1>1, <3>1, <3>2 DEF SupportedBy
  <2>3. CASE n \notin Slots /\ a # addr
    <3>1. a \in st.others.support
      BY <1>7, <1>9, <2>3, BindIs
    <3>2. PICK fd \in Descriptors : own[fd] # NoAddr /\ BoundTo(a, st.others, fd)
      BY <3>1 DEF Describes, Supported, SupportedBy
    <3>3. BoundTo(a, r.st.others, fd)
      BY <2>3, <3>2, InsertKeeps
    <3> QED BY <1>1, <1>6, <3>2, <3>3 DEF SupportedBy
  <2> QED BY <2>1, <2>2, <2>3
<1>10. ASSUME Sure, NEW i \in Slots, own1[i] = NoAddr PROVE r.st.first[i].free
  <2>0. i \in Descriptors /\ i \in Nat /\ n \in Nat /\ i < 3
    BY <1>1, SlotsInDescriptors DEF Slots, window
  <2>1. i # n /\ own[i] = NoAddr
    BY <1>6, <1>10, <2>0
  <2>2. ~(i < n)
    BY <1>1, <2>0, <2>1
  <2>3. n < i /\ n < 3
    BY <2>0, <2>1, <2>2
  <2>4. n \in Slots
    BY <2>0, <2>3 DEF Slots, window
  <2>5. st.first[i].free
    BY <2>1 DEF Describes, FreeIfClosed
  <2>6. st.first[n] = Free
    BY <1>10, <2>3, <2>4, <2>5
  <2> QED BY <2>3, <2>4, <2>5, <2>6, LaterSlots
<1> QED BY <1>7, <1>8, <1>9, <1>10 DEF Supported, FreeIfClosed

(* The argument of a call is in its interval.                              *)
LEMMA TrackedArgument ==
  ASSUME IInv, Tracked, NEW arg \in Arguments PROVE Contains(arg.itv, arg.fd)
<1>1. CASE \E i \in Slots : arg = Holding(i, Const(i))
  <2>1. PICK i \in Slots : arg = Holding(i, Const(i))
    BY <1>1
  <2>2. arg.fd = i /\ arg.itv.lo = i /\ arg.itv.hi = i /\ i \in Nat
    BY <2>1 DEF Holding, Const, Itv, Slots, window
  <2> QED BY <2>2 DEF Contains
<1>2. CASE \E v \in Variables : arg = held[v] /\ held[v] # Unset
  BY <1>2 DEF Tracked, HeldCovered
<1> QED BY <1>1, <1>2 DEF Arguments

(* What the table binds is not a slot.                                     *)
LEMMA KeysBeyond ==
  ASSUME NEW st, NEW m, NEW h, Addressed(st, m, h), NEW a, NEW n, BoundTo(a, st.others, n)
  PROVE  n \notin Slots
<1>1. st.others.map[a].lo \in Int /\ window <= st.others.map[a].lo /\ st.others.map[a].lo <= n
  BY DEF Addressed, TableWithin, BoundTo, Within, Contains
<1> QED BY <1>1 DEF Slots, window

(* A call keeps Tracked when a case of the analysis describes the kernel   *)
(* after it: the state before it when it fails, one of its successes       *)
(* otherwise.                                                              *)
LEMMA TrackedStep ==
  ASSUME IInv, Calling, NEW stub \in Stubs, NEW successes,
         \A s \in successes : Addressed(s, Top, Bound'),
         Analysed(stub, successes), OneOwner(owner'), HeldCovered',
         NEW states, states = successes \cup (IF MayFail(stub) THEN {state} ELSE {}),
         \E s \in states : ~IsBottom(s) /\ Labelled(s, owner'),
         \A a \in Join(states).others.support : \E s \in states : ~IsBottom(s) /\ SupportedBy(a, s, owner'),
         \A i \in Slots : owner'[i] = NoAddr => \E s \in states : ~IsBottom(s) /\ s.first[i].free
  PROVE  Tracked'
<1>1. Bound \in Int /\ Bound' \in Int /\ Bound <= Bound'
  BY BoundIs, BoundGrows DEF IInv
<1>2. Addressed(state, Top, Bound')
  BY <1>1, AddressedMore DEF IInv, Shapes
<1>3. \A s \in states : Addressed(s, Top, Bound')
  BY <1>2
<1>4. state' = Join(states)
  BY DEF Analysed
<1> DEFINE own == owner'
<1>5. /\ \E s \in states : ~IsBottom(s) /\ Labelled(s, own)
      /\ \A a \in Join(states).others.support : \E s \in states : ~IsBottom(s) /\ SupportedBy(a, s, own)
      /\ \A i \in Slots : own[i] = NoAddr => \E s \in states : ~IsBottom(s) /\ s.first[i].free
  OBVIOUS
<1> HIDE DEF own
<1>6. Describes(Join(states), own)
  BY <1>1, <1>3, <1>5, JoinDescribes
<1>7. Describes(state', owner')
  BY <1>4, <1>6 DEF own
<1> QED BY <1>7 DEF Tracked

(* The support of the join is in that of every member.                     *)
LEMMA DescribedStep ==
  ASSUME IInv, Calling, NEW stub \in Stubs, NEW successes,
         \A s \in successes : Addressed(s, Top, Bound'),
         Analysed(stub, successes), OneOwner(owner'), HeldCovered',
         NEW s0, s0 \in successes \/ (MayFail(stub) /\ s0 = state), ~IsBottom(s0),
         Labelled(s0, owner'), Supported(s0, owner'),
         FreeIfClosed(s0, owner') \/ (MayFail(stub) /\ FreeIfClosed(state, owner'))
  PROVE  Tracked'
<1> DEFINE states == successes \cup (IF MayFail(stub) THEN {state} ELSE {})
<1>1. s0 \in states /\ ~IsBottom(state)
  BY DEF Calling
<1>2. Bound \in Int /\ Bound' \in Int /\ Bound <= Bound'
  BY BoundIs, BoundGrows DEF IInv
<1>3. Addressed(state, Top, Bound')
  BY <1>2, AddressedMore DEF IInv, Shapes
<1>4. \A s \in states : Addressed(s, Top, Bound')
  BY <1>3
<1>5. MayFail(stub) => state \in states
  OBVIOUS
<1>6. states = successes \cup (IF MayFail(stub) THEN {state} ELSE {})
  OBVIOUS
<1> HIDE DEF states
<1>7. Join(states).others.support \subseteq s0.others.support
  BY <1>1, <1>2, <1>4, JoinKeeps
<1>8. \A a \in Join(states).others.support : \E s \in states : ~IsBottom(s) /\ SupportedBy(a, s, owner')
  BY <1>1, <1>7 DEF Supported
<1>9. \A i \in Slots : owner'[i] = NoAddr => \E s \in states : ~IsBottom(s) /\ s.first[i].free
  BY <1>1, <1>5 DEF FreeIfClosed
<1> QED BY <1>1, <1>6, <1>8, <1>9, TrackedStep

LEMMA OpenTracked ==
  ASSUME IInv, NEW site \in Sites, NEW v \in Variables, Open(site, v), Plain', Plain => Tracked
  PROVE  Tracked'
<1> DEFINE results == Insert(site, state)
           successes == Successes(results)
           n == LowestFree(owner)
<1>1. /\ Calling /\ site \in 1..Top /\ site # NoAddr /\ ~IsBottom(state) /\ WellFormed(state)
      /\ Analysed("open", successes) /\ "open" \in Stubs
      /\ Meet(Guessed(MayFail("open")) \cup Shared({site}))
      /\ Bound \in Int /\ window - 1 <= Bound /\ Top \in Nat /\ Addressed(state, Top, Bound)
      /\ Bound' \in Nat
  BY SitesAreAddresses, SitesAssumption, BoundIs, BoundGrows, TopIs
     DEF IInv, Shapes, Open, Calling, Stubs, Successes
<1>2. Tracked /\ ~Drops /\ (Guesses => MayFail("open")) /\ site \notin Held(state)
  <2>1. /\ Plain
        /\ "guessed" \notin Guessed(MayFail("open")) \cup Shared({site})
        /\ "shared" \notin Guessed(MayFail("open")) \cup Shared({site})
    BY <1>1, MeetPlain
  <2> QED BY <2>1 DEF Guessed, Shared, Kinds
<1>3. \A r \in results : Addressed(r.st, Top, Bound') /\ Within(r.itv, 0, Bound') /\ ~IsBottom(r.st)
  BY <1>1, ResultsAddressed, InsertKeeps
<1>4. \A s \in successes : Addressed(s, Top, Bound')
  BY <1>3 DEF Successes
<1>5. /\ Within(ResultItv(results), -1, Bound')
      /\ \A r \in results, d \in Int : Contains(r.itv, d) => Contains(ResultItv(results), d)
  BY <1>1, <1>3, ResultItvIs
<1>6. \A fd \in Descriptors : owner[fd] # NoAddr => owner[fd] # site
  BY <1>2, FreshOwner DEF Tracked, Describes
<1>7. CASE /\ Unused(owner) # {}
           /\ owner' = [owner EXCEPT ![n] = site]
           /\ held' = [held EXCEPT ![v] = Holding(n, ResultItv(results))]
  <2>1. /\ n \in Descriptors /\ owner[n] = NoAddr /\ n \in Int
        /\ \A fd \in Descriptors : owner'[fd] = IF fd = n THEN site ELSE owner[fd]
    <3>1. n \in Descriptors /\ owner[n] = NoAddr
      BY <1>7, LowestIsFree
    <3>2. \A fd \in Descriptors : owner'[fd] = IF fd = n THEN site ELSE owner[fd]
      BY <1>7 DEF IInv, Shapes
    <3> HIDE DEF n
    <3> QED BY <3>1, <3>2, SlotsInDescriptors
  <2>2. n \in Slots => \A j \in Slots : n < j => ~(state.first[n] # Free /\ state.first[j] = Free)
    <3>1. n \in Slots => state.first[n].free
      BY <1>2, <2>1 DEF Tracked, Describes, FreeIfClosed
    <3> HIDE DEF n
    <3> QED BY <1>2, <3>1 DEF Drops, Unsure
  <2>3. ~Guesses /\ n \in Slots => \A j \in Slots : n < j => ~(state.first[n] # Free /\ state.first[j].free)
    <3>1. n \in Slots => state.first[n].free
      BY <1>2, <2>1 DEF Tracked, Describes, FreeIfClosed
    <3> HIDE DEF n
    <3> QED BY <3>1 DEF Guesses, Unsure
  <2> DEFINE own1 == owner'
  <2>4. \A fd \in Descriptors : own1[fd] = IF fd = n THEN site ELSE owner[fd]
    BY <2>1
  <2> HIDE DEF own1
  <2>5. PICK r \in results :
          /\ Contains(r.itv, n) /\ Labelled(r.st, own1) /\ Supported(r.st, own1)
          /\ (n \in Slots => \A j \in Slots : n < j => ~(state.first[n] # Free /\ state.first[j].free))
             => FreeIfClosed(r.st, own1)
    BY <1>1, <1>2, <1>6, <1>7, <2>2, <2>4, RegisterDescribes DEF Tracked
  <2> HIDE DEF n
  <2>6. FreeIfClosed(state, own1)
    BY <1>1, <1>2, <2>1, <2>4, SlotsInDescriptors DEF Tracked, Describes, FreeIfClosed
  <2>7. FreeIfClosed(r.st, own1) \/ (MayFail("open") /\ FreeIfClosed(state, own1))
    BY <1>2, <2>3, <2>5, <2>6
  <2>8. OneOwner(own1)
    BY <1>2, <1>6, <2>4, OneMoreOwner DEF Tracked
  <2>9. HeldCovered'
    <3>1. Contains(ResultItv(results), n)
      BY <1>5, <2>1, <2>5
    <3>2. \A u \in Variables : held'[u] = IF u = v THEN Holding(n, ResultItv(results)) ELSE held[u]
      BY <1>7 DEF IInv, Shapes
    <3> QED BY <1>2, <3>1, <3>2 DEF Tracked, HeldCovered, Holding
  <2>10. r.st \in successes /\ ~IsBottom(r.st)
    BY <1>3, <2>5 DEF Successes
  <2> HIDE DEF successes, results
  <2> QED BY <1>1, <1>4, <2>5, <2>7, <2>8, <2>9, <2>10, DescribedStep DEF own1
<1>8. CASE MayFail("open") /\ owner' = owner /\ held' = [held EXCEPT ![v] = Unset]
  <2>1. HeldCovered'
    BY <1>2, <1>8 DEF Tracked, HeldCovered, IInv, Shapes
  <2> HIDE DEF successes, results
  <2> QED BY <1>1, <1>2, <1>4, <1>8, <2>1, DescribedStep DEF Tracked, Describes
<1> QED BY <1>7, <1>8 DEF Open, Fails, ResultItv

(* dup registers an address the state holds: "shared".                     *)
LEMMA DupTracked ==
  ASSUME IInv, NEW arg \in OpenArguments, NEW v \in Variables, Dup(arg, v), Plain', Plain => Tracked
  PROVE  FALSE
<1>1. /\ arg.fd \in Descriptors /\ arg.fd \in Int /\ IsOpen(arg.fd)
      /\ arg.itv.lo \in Int /\ arg.itv.hi \in Int
      /\ Bound \in Int /\ Top \in Nat /\ Addressed(state, Top, Bound)
  BY ArgumentIs, SlotsInDescriptors, BoundIs, TopIs DEF OpenArguments, Within, IInv, Shapes
<1>2. Plain /\ Candidates(arg) \cap Held(state) = {}
  <2>1. Meet(Guessed(MayFail("dup")) \cup Shared(Candidates(arg)))
    BY DEF Dup
  <2>2. Plain /\ "shared" \notin Guessed(MayFail("dup")) \cup Shared(Candidates(arg))
    BY <2>1, MeetPlain
  <2> QED BY <2>2 DEF Shared, Kinds
<1>3. Contains(arg.itv, arg.fd) /\ At(owner[arg.fd], state, arg.fd)
  <2>1. Contains(arg.itv, arg.fd)
    BY <1>2, TrackedArgument DEF OpenArguments
  <2>2. At(owner[arg.fd], state, arg.fd)
    BY <1>1, <1>2 DEF Tracked, Describes, Labelled, IsOpen
  <2> QED BY <2>1, <2>2
<1>4. owner[arg.fd] \in Candidates(arg)
  BY <1>1, <1>3, FindAt DEF Candidates
<1> QED BY <1>2, <1>3, <1>4, AtIsCovered

(* dup2: a target that is open is found; one that is closed is given the   *)
(* site.                                                                   *)
LEMMA RegisteredDescribes ==
  ASSUME NEW m, NEW h, NEW st, Addressed(st, m, h), NEW own, Describes(st, own), NEW addr, addr # NoAddr,
         NEW n \in Descriptors, NEW s, Registers(addr, n, st, s),
         \A fd \in Descriptors : own[fd] # NoAddr => own[fd] # addr,
         NEW own1, own1[n] # NoAddr,
         \A fd \in Descriptors : own[fd] # NoAddr => own1[fd] = own[fd],
         \A fd \in Descriptors : own[fd] = NoAddr => IF fd = n THEN own1[fd] = addr ELSE own1[fd] = NoAddr
  PROVE  Describes(s, own1)
<1>1. /\ At(addr, s, n)
      /\ \A a, k : a # addr /\ At(a, st, k) => At(a, s, k)
      /\ \A i \in Slots : i # n /\ st.first[i].free => s.first[i].free
      /\ n \in Slots => s.others = st.others
      /\ s.others.support \subseteq st.others.support \cup {addr}
  BY DEF Registers
<1>2. Labelled(s, own1)
  <2> SUFFICES ASSUME NEW fd \in Descriptors, own1[fd] # NoAddr PROVE At(own1[fd], s, fd)
    BY DEF Labelled
  <2>1. CASE own[fd] # NoAddr
    BY <1>1, <2>1 DEF Describes, Labelled
  <2>2. CASE own[fd] = NoAddr
    BY <1>1, <2>2
  <2> QED BY <2>1, <2>2
<1>3. ASSUME NEW a \in s.others.support PROVE SupportedBy(a, s, own1)
  <2>1. CASE a = addr /\ n \notin Slots
    BY <1>1, <2>1 DEF SupportedBy, At
  <2>2. CASE a \in st.others.support /\ (a # addr \/ n \in Slots)
    <3>1. PICK fd \in Descriptors : own[fd] # NoAddr /\ BoundTo(a, st.others, fd)
      BY <2>2 DEF Describes, Supported, SupportedBy
    <3>2. fd \notin Slots
      BY <3>1, KeysBeyond
    <3>3. BoundTo(a, s.others, fd)
      <4>1. CASE a # addr
        BY <1>1, <3>1, <3>2, <4>1 DEF At
      <4>2. CASE n \in Slots
        BY <1>1, <3>1, <4>2
      <4> QED BY <2>2, <4>1, <4>2
    <3> QED BY <3>1, <3>3 DEF SupportedBy
  <2>3. n \in Slots => a \in st.others.support
    BY <1>1, <1>3
  <2> QED BY <1>1, <1>3, <2>1, <2>2, <2>3
<1>4. FreeIfClosed(s, own1)
  <2> SUFFICES ASSUME NEW i \in Slots, own1[i] = NoAddr PROVE s.first[i].free
    BY DEF FreeIfClosed
  <2>1. i \in Descriptors /\ i # n
    BY SlotsInDescriptors
  <2>2. own[i] = NoAddr
    BY <2>1
  <2> QED BY <1>1, <2>1, <2>2 DEF Describes, FreeIfClosed
<1> QED BY <1>2, <1>3, <1>4 DEF Describes, Supported

LEMMA Dup2Tracked ==
  ASSUME IInv, NEW arg \in OpenArguments, NEW target \in Arguments, NEW site \in Sites,
         Dup2(arg, target, site), Plain', Plain => Tracked
  PROVE  Tracked'
<1> DEFINE found == FindAddr(target.itv, state)
           successes == (IF NoAddr \in found THEN InsertAt(site, target.itv, state) ELSE {}) \cup
                        (IF found = {NoAddr} THEN {} ELSE {state})
           kinds == IF NoAddr \in found THEN Shared({site}) ELSE Kinds(~IsOpen(target.fd), "shared")
           n == target.fd
<1>1. /\ Calling /\ UNCHANGED held /\ ~IsBottom(state) /\ WellFormed(state)
      /\ Analysed("dup2", successes) /\ "dup2" \in Stubs /\ Meet(kinds)
      /\ site \in 1..Top /\ Top \in Nat /\ site # NoAddr
      /\ Bound \in Int /\ Bound' \in Int /\ Bound <= Bound' /\ -1 \in Int
      /\ Addressed(state, Top, Bound)
  BY SitesAreAddresses, SitesAssumption, BoundIs, BoundGrows, TopIs DEF IInv, Shapes, Dup2, Calling, Stubs
<1>2. Plain /\ "shared" \notin kinds
  <2> HIDE DEF kinds
  <2> QED BY <1>1, MeetPlain
<1>3. Tracked /\ (NoAddr \in found => site \notin Held(state)) /\ (NoAddr \notin found => IsOpen(n))
  BY <1>2 DEF Shared, Kinds
<1>4. /\ Within(target.itv, -1, Bound) /\ target.itv.lo \in Int /\ target.itv.hi \in Int
      /\ n \in Descriptors /\ n \in Nat /\ n \in Int /\ Contains(target.itv, n)
  BY <1>2, <1>3, ArgumentIs, TrackedArgument DEF Within
<1>5. \A s \in successes : Addressed(s, Top, Bound')
  <2>1. Addressed(state, Top, Bound') /\ Within(target.itv, -1, Bound')
    BY <1>1, <1>4, AddressedMore DEF Within
  <2>2. \A s \in InsertAt(site, target.itv, state) : Addressed(s, Top, Bound')
    BY <1>1, <2>1, InsertAtAddressed
  <2> QED BY <2>1, <2>2
<1>6. HeldCovered'
  BY <1>1, <1>3 DEF Tracked, HeldCovered
<1>7. owner' = owner => OneOwner(owner')
  BY <1>3 DEF Tracked
<1>8. CASE owner' = [owner EXCEPT ![n] = IF @ = NoAddr THEN site ELSE @] /\ IsOpen(n)
  <2>1. owner[n] # NoAddr /\ owner' = [owner EXCEPT ![n] = owner[n]]
    BY <1>8 DEF IsOpen
  <2>2. owner' = owner
    BY <2>1 DEF IInv, Shapes
  <2>3. At(owner[n], state, n)
    BY <1>3, <1>4, <2>1 DEF Tracked, Describes, Labelled
  <2>4. owner[n] \in found
    BY <1>1, <1>4, <2>3, FindAt
  <2>5. state \in successes
    BY <2>1, <2>4
  <2>6. Describes(state, owner')
    BY <1>3, <2>2 DEF Tracked
  <2> HIDE DEF successes
  <2> QED BY <1>1, <1>5, <1>6, <1>7, <2>2, <2>5, <2>6, DescribedStep DEF Describes
<1>9. CASE owner' = [owner EXCEPT ![n] = IF @ = NoAddr THEN site ELSE @] /\ ~IsOpen(n)
  <2>1. owner[n] = NoAddr /\ owner' = [owner EXCEPT ![n] = site] /\ NoAddr \in found /\ site \notin Held(state)
    BY <1>3, <1>9 DEF IsOpen
  <2>2. PICK s \in InsertAt(site, target.itv, state) : Registers(site, n, state, s)
    BY <1>1, <1>4, InsertAtCovers
  <2>3. s \in successes /\ ~IsBottom(s)
    BY <2>1, <2>2 DEF Registers
  <2>4. \A fd \in Descriptors : owner[fd] # NoAddr => owner[fd] # site
    BY <1>3, <2>1, FreshOwner DEF Tracked, Describes
  <2> DEFINE own1 == owner'
  <2>5. \A fd \in Descriptors : own1[fd] = IF fd = n THEN site ELSE owner[fd]
    BY <2>1 DEF IInv, Shapes
  <2> HIDE DEF own1, n, successes
  <2>6. own1[n] # NoAddr
    BY <1>1, <1>4, <2>5
  <2>7. /\ \A fd \in Descriptors : owner[fd] # NoAddr => own1[fd] = owner[fd]
        /\ \A fd \in Descriptors : owner[fd] = NoAddr => IF fd = n THEN own1[fd] = site ELSE own1[fd] = NoAddr
    BY <2>1, <2>5
  <2>8. Describes(s, own1)
    BY <1>1, <1>3, <1>4, <2>2, <2>4, <2>6, <2>7, RegisteredDescribes DEF Tracked
  <2>9. OneOwner(own1)
    BY <1>3, <2>4, <2>5, OneMoreOwner DEF Tracked
  <2> QED BY <1>1, <1>5, <1>6, <2>3, <2>8, <2>9, DescribedStep DEF own1, Describes
<1>10. CASE MayFail("dup2") /\ UNCHANGED owner
  <2> HIDE DEF successes
  <2> QED BY <1>1, <1>3, <1>5, <1>6, <1>7, <1>10, DescribedStep DEF Tracked, Describes
<1> QED BY <1>8, <1>9, <1>10 DEF Dup2, Fails

LEMMA FdopenTracked ==
  ASSUME IInv, NEW arg \in OpenArguments, NEW site \in Sites, Fdopen(arg, site), Plain', Plain => Tracked
  PROVE  Tracked'
<1> DEFINE successes == InsertAt(site, arg.itv, state)
           n == arg.fd
<1>1. /\ Calling /\ UNCHANGED <<owner, held>> /\ ~IsBottom(state) /\ WellFormed(state)
      /\ Analysed("fdopen", successes) /\ "fdopen" \in Stubs /\ Meet(Shared({site}))
      /\ site \in 1..Top /\ Top \in Nat /\ site # NoAddr
      /\ Bound \in Int /\ Bound' \in Int /\ Bound <= Bound' /\ -1 \in Int
      /\ Addressed(state, Top, Bound)
  BY SitesAreAddresses, SitesAssumption, BoundIs, BoundGrows, TopIs DEF IInv, Shapes, Fdopen, Calling, Stubs
<1>2. Plain /\ "shared" \notin Shared({site})
  BY <1>1, MeetPlain
<1>3. Tracked /\ site \notin Held(state)
  BY <1>2 DEF Shared, Kinds
<1>4. /\ Within(arg.itv, -1, Bound) /\ arg \in Arguments
      /\ n \in Descriptors /\ n \in Nat /\ Contains(arg.itv, n) /\ owner[n] # NoAddr
  BY <1>2, <1>3, ArgumentIs, TrackedArgument DEF OpenArguments, IsOpen
<1>5. \A s \in successes : Addressed(s, Top, Bound')
  <2>1. Addressed(state, Top, Bound') /\ Within(arg.itv, -1, Bound')
    BY <1>1, <1>4, AddressedMore, WithinMore
  <2> QED BY <1>1, <2>1, InsertAtAddressed
<1>6. PICK s \in successes : Registers(site, n, state, s)
  BY <1>1, <1>4, InsertAtCovers
<1>7. \A fd \in Descriptors : owner[fd] # NoAddr => owner[fd] # site
  BY <1>3, FreshOwner DEF Tracked, Describes
<1> HIDE DEF n, successes
<1>8. Describes(s, owner)
  BY <1>1, <1>3, <1>4, <1>6, <1>7, RegisteredDescribes DEF Tracked
<1>9. HeldCovered' /\ OneOwner(owner') /\ ~IsBottom(s)
  BY <1>1, <1>3, <1>6 DEF Tracked, HeldCovered, Registers
<1> QED BY <1>1, <1>5, <1>6, <1>8, <1>9, DescribedStep DEF Describes

(* close: the case of the right address takes away that address only, and  *)
(* the support loses the address of every case.                            *)
LEMMA CloseTracked ==
  ASSUME IInv, NEW arg \in OpenArguments, Close(arg), Plain', Plain => Tracked
  PROVE  Tracked'
<1> DEFINE successes == {Remove(addr, state) : addr \in Candidates(arg)}
           states == successes \cup (IF MayFail("close") THEN {state} ELSE {})
           n == arg.fd
           addr == owner[n]
           rest == Remove(addr, state)
           kinds == Kinds(Cardinality(Candidates(arg)) > 1, "ambiguous")
<1>1. /\ Calling /\ UNCHANGED held /\ ~IsBottom(state)
      /\ Analysed("close", successes) /\ "close" \in Stubs /\ Meet(kinds)
      /\ Top \in Nat /\ Bound \in Int /\ Bound' \in Int /\ Bound <= Bound'
      /\ Addressed(state, Top, Bound)
  BY BoundIs, BoundGrows, TopIs DEF IInv, Shapes, Close, Calling, Stubs
<1>2. Plain /\ Tracked
  <2> HIDE DEF kinds
  <2> QED BY <1>1, MeetPlain
<1>3. /\ n \in Descriptors /\ n \in Int /\ Contains(arg.itv, n) /\ owner[n] # NoAddr
      /\ arg.itv.lo \in Int /\ arg.itv.hi \in Int /\ arg \in Arguments
  BY <1>2, ArgumentIs, TrackedArgument DEF OpenArguments, IsOpen, Within
<1>4. Addressed(state, Top, Bound')
  BY <1>1, AddressedMore
<1>5. \A s \in successes : Addressed(s, Top, Bound')
  BY <1>4, RemoveAddressed
<1>6. HeldCovered'
  BY <1>1, <1>2 DEF Tracked, HeldCovered
<1>7. CASE owner' = [owner EXCEPT ![n] = NoAddr]
  <2>1. \A fd \in Descriptors : owner'[fd] = IF fd = n THEN NoAddr ELSE owner[fd]
    BY <1>7 DEF IInv, Shapes
  <2>2. At(addr, state, n)
    BY <1>2, <1>3 DEF Tracked, Describes, Labelled
  <2>3. addr \in Candidates(arg)
    BY <1>1, <1>3, <2>2, FindAt DEF Candidates
  <2>4. rest \in states /\ \A a \in Candidates(arg) : Remove(a, state) \in states
    BY <2>3
  <2>5. /\ ~IsBottom(rest)
        /\ \A a, k : a # addr /\ At(a, state, k) => At(a, rest, k)
        /\ \A i \in Slots : state.first[i].free \/ addr \in state.first[i].taken => rest.first[i].free
        /\ rest.others.support \subseteq state.others.support
        /\ \A a \in Candidates(arg) : /\ ~IsBottom(Remove(a, state))
                                      /\ a \notin Remove(a, state).others.support
    BY <1>1, RemoveKeeps, RemoveIs
  <2>6. \A s \in states : Addressed(s, Top, Bound')
    BY <1>4, <1>5
  <2>7. states = successes \cup (IF MayFail("close") THEN {state} ELSE {})
    OBVIOUS
  <2> DEFINE own1 == owner'
  <2>8. \A fd \in Descriptors : own1[fd] = IF fd = n THEN NoAddr ELSE owner[fd]
    BY <2>1
  <2> HIDE DEF own1, states, rest, addr, n
  <2>9. Labelled(rest, own1)
    <3> SUFFICES ASSUME NEW fd \in Descriptors, own1[fd] # NoAddr PROVE At(own1[fd], rest, fd)
      BY DEF Labelled
    <3>1. fd # n /\ own1[fd] = owner[fd]
      BY <2>8
    <3>2. owner[fd] # addr
      BY <1>2, <1>3, <3>1 DEF Tracked, OneOwner, addr
    <3> QED BY <1>2, <2>5, <3>1, <3>2 DEF Tracked, Describes, Labelled
  <2>10. ASSUME NEW a \in Join(states).others.support PROVE SupportedBy(a, rest, own1)
    <3>1. \A s \in states : ~IsBottom(s) => a \in s.others.support
      BY <1>1, <2>6, <2>10, JoinKeeps
    <3>2. a \in rest.others.support /\ a \notin Candidates(arg)
      BY <2>4, <2>5, <3>1
    <3>3. a \in state.others.support /\ a # addr
      BY <2>3, <2>5, <3>2
    <3>4. PICK fd \in Descriptors : owner[fd] # NoAddr /\ BoundTo(a, state.others, fd)
      BY <1>2, <3>3 DEF Tracked, Describes, Supported, SupportedBy
    <3>5. fd \notin Slots
      BY <1>1, <3>4, KeysBeyond
    <3>6. At(a, state, fd) /\ At(a, rest, fd)
      BY <2>5, <3>3, <3>4, <3>5 DEF At
    <3>7. fd # n
      BY <1>1, <1>3, <3>2, <3>6, FindAt DEF Candidates
    <3> QED BY <2>8, <3>4, <3>5, <3>6, <3>7 DEF SupportedBy, At
  <2>11. ASSUME NEW i \in Slots, own1[i] = NoAddr PROVE rest.first[i].free
    <3>1. i \in Descriptors
      BY SlotsInDescriptors
    <3>2. CASE i = n
      BY <2>2, <2>5, <3>2 DEF At
    <3>3. CASE i # n
      BY <1>2, <2>5, <2>8, <2>11, <3>1, <3>3 DEF Tracked, Describes, FreeIfClosed
    <3> QED BY <3>2, <3>3
  <2>12. OneOwner(own1)
    BY <1>2, <2>8 DEF Tracked, OneOwner
  <2> HIDE DEF successes
  <2> QED BY <1>1, <1>5, <1>6, <2>4, <2>5, <2>7, <2>9, <2>10, <2>11, <2>12, TrackedStep DEF own1
<1>8. CASE MayFail("close") /\ UNCHANGED owner
  <2>1. OneOwner(owner')
    BY <1>2, <1>8 DEF Tracked
  <2> HIDE DEF successes
  <2> QED BY <1>1, <1>2, <1>5, <1>6, <1>8, <2>1, DescribedStep DEF Tracked, Describes
<1> QED BY <1>7, <1>8 DEF Close, Fails

LEMMA CloseStreamTracked ==
  ASSUME NEW v \in Variables, CloseStream(v), Plain' PROVE FALSE
  BY MeetPlain DEF CloseStream

(* pipe: the state after the first registration describes the kernel after *)
(* it, and the second registration does not have to guess either.          *)
LEMMA PipeFirstDescribes ==
  ASSUME IInv, Calling, Tracked, ~Guesses, Unused(owner) # {}, NEW s1 \in Sites, s1 \notin Held(state),
         NEW state1, state1 = Join(Successes(Insert(s1, state))),
         NEW owner1, owner1 = [owner EXCEPT ![LowestFree(owner)] = s1]
  PROVE  /\ WellFormed(state1) /\ ~IsBottom(state1) /\ Addressed(state1, Top, Bound + 1)
         /\ \E r \in Insert(s1, state) : Contains(r.itv, LowestFree(owner))
         /\ Describes(state1, owner1) /\ OneOwner(owner1)
         /\ Unused(owner1) # {} /\ LowestFree(owner1) \in Slots =>
              \A j \in Slots : LowestFree(owner1) < j =>
                ~(state1.first[LowestFree(owner1)] # Free /\ state1.first[j].free)
<1> DEFINE results == Insert(s1, state)
           n == LowestFree(owner)
           states == Successes(results)
<1>0. /\ WellFormed(state) /\ ~IsBottom(state) /\ Addressed(state, Top, Bound)
      /\ s1 \in 1..Top /\ s1 # NoAddr
      /\ Bound \in Int /\ Bound + 1 \in Int /\ window - 1 <= Bound /\ Top \in Nat
  BY SitesAreAddresses, SitesAssumption, BoundIs, TopIs DEF IInv, Shapes, Calling
<1>1. n \in Descriptors /\ owner[n] = NoAddr
  BY LowestIsFree
<1>2. \A fd \in Descriptors : owner1[fd] = IF fd = n THEN s1 ELSE owner[fd]
  BY DEF IInv, Shapes
<1>3. \A fd \in Descriptors : owner[fd] # NoAddr => owner[fd] # s1
  BY FreshOwner DEF Tracked, Describes
<1>4. n \in Slots => \A j \in Slots : n < j => ~(state.first[n] # Free /\ state.first[j].free)
  <2>1. n \in Slots => state.first[n].free
    BY <1>1 DEF Tracked, Describes, FreeIfClosed
  <2> HIDE DEF n
  <2> QED BY <2>1 DEF Guesses, Unsure
<1>5. Free.free
  BY DEF Free, Slot
<1>6. n \in Slots => \A j \in Slots : n < j => ~(state.first[n] # Free /\ state.first[j] = Free)
  <2> HIDE DEF n
  <2> QED BY <1>4, <1>5
<1>7. \E r \in results :
        /\ Contains(r.itv, n) /\ Labelled(r.st, owner1) /\ Supported(r.st, owner1)
        /\ (n \in Slots => \A j \in Slots : n < j => ~(state.first[n] # Free /\ state.first[j].free))
           => FreeIfClosed(r.st, owner1)
  BY <1>0, <1>2, <1>3, <1>6, RegisterDescribes DEF Tracked
<1>8. \A q \in results : q.st \in states /\ ~IsBottom(q.st) /\ WellFormed(q.st) /\ Addressed(q.st, Top, Bound + 1)
  BY <1>0, InsertKeeps, InsertWellFormed, InsertAddressed DEF Successes
<1>9. \A s \in states : \E q \in results : s = q.st
  BY DEF Successes
<1>10. \A s \in states : Addressed(s, Top, Bound + 1) /\ NoNull(s)
  BY <1>0, <1>8, <1>9, AddressedNoNull
<1>11. state1 = Join(states)
  OBVIOUS
<1> HIDE DEF n, results, states
<1>12. PICK r \in results :
         Contains(r.itv, n) /\ Labelled(r.st, owner1) /\ Supported(r.st, owner1) /\ FreeIfClosed(r.st, owner1)
  BY <1>4, <1>7
<1>13. r.st \in states /\ ~IsBottom(r.st) /\ WellFormed(r.st)
  BY <1>8, <1>12
<1>14. WellFormed(state1) /\ Addressed(state1, Top, Bound + 1)
  BY <1>0, <1>10, <1>11, JoinWellFormed, JoinAddressed
<1>15. ~IsBottom(state1)
  BY <1>0, <1>10, <1>11, <1>13, <1>14, JoinNotBottom
<1>16. Join(states).others.support \subseteq r.st.others.support
  BY <1>0, <1>10, <1>13, JoinKeeps
<1>17. \A a \in Join(states).others.support : \E s \in states : ~IsBottom(s) /\ SupportedBy(a, s, owner1)
  BY <1>12, <1>13, <1>16 DEF Supported
<1>18. \A i \in Slots : owner1[i] = NoAddr => \E s \in states : ~IsBottom(s) /\ s.first[i].free
  BY <1>12, <1>13 DEF FreeIfClosed
<1>19. Describes(state1, owner1)
  <2> DEFINE h == Bound + 1
  <2>1. h \in Int /\ \A s \in states : Addressed(s, Top, h)
    BY <1>0, <1>10
  <2> HIDE DEF h
  <2> QED BY <1>11, <1>12, <1>13, <1>17, <1>18, <2>1, JoinDescribes
<1>20. OneOwner(owner1)
  BY <1>2, <1>3 DEF Tracked, OneOwner
<1>21. Unused(owner1) # {} /\ LowestFree(owner1) \in Slots =>
         \A j \in Slots : LowestFree(owner1) < j =>
           ~(state1.first[LowestFree(owner1)] # Free /\ state1.first[j].free)
  <2>1. ClosedMayBeFree
    BY DEF Tracked, Describes, FreeIfClosed, ClosedMayBeFree
  <2>2. Insert(s1, state) # {}
    BY <1>12 DEF results
  <2> QED BY <1>0, <1>14, <2>1, <2>2, PipeSlots
<1> QED BY <1>12, <1>14, <1>15, <1>19, <1>20, <1>21 DEF n, results

LEMMA PipeTracked ==
  ASSUME IInv, NEW s1 \in Sites, NEW s2 \in Sites, NEW v1 \in Variables, NEW v2 \in Variables,
         s1 # s2, v1 # v2, Pipe(s1, s2, v1, v2), Plain', Plain => Tracked
  PROVE  Tracked'
<1> DEFINE results1 == Insert(s1, state)
           state1 == Join(Successes(results1))
           results2 == Insert(s2, state1)
           successes == Successes(results2)
           fd1 == LowestFree(owner)
           owner1 == [owner EXCEPT ![fd1] = s1]
           fd2 == LowestFree(owner1)
           given1 == Holding(fd1, Hull({r.itv : r \in results1}))
           given2 == Holding(fd2, Hull({r.itv : r \in results2}))
<1>1. /\ Calling /\ results1 # {} /\ results2 # {} /\ ~IsBottom(state)
      /\ Analysed("pipe", successes) /\ "pipe" \in Stubs
      /\ Meet(Guessed(FALSE) \cup Shared({s1, s2}))
      /\ s1 # NoAddr /\ s2 # NoAddr /\ Top \in Nat
      /\ Bound \in Int /\ Bound + 1 \in Int /\ window - 1 <= Bound + 1 /\ Bound' \in Nat
  BY SitesAssumption, BoundIs, BoundGrows, TopIs DEF IInv, Pipe, Calling, Stubs, Successes
<1>2. Tracked /\ ~Guesses /\ s1 \notin Held(state) /\ s2 \notin Held(state)
  <2>1. /\ Plain
        /\ "guessed" \notin Guessed(FALSE) \cup Shared({s1, s2})
        /\ "shared" \notin Guessed(FALSE) \cup Shared({s1, s2})
    BY <1>1, MeetPlain
  <2> QED BY <2>1 DEF Guessed, Shared, Kinds
<1>3. /\ \A r \in results1 : Addressed(r.st, Top, Bound') /\ Within(r.itv, 0, Bound')
      /\ \A r \in results2 : Addressed(r.st, Top, Bound') /\ Within(r.itv, 0, Bound')
  BY <1>1, PipeAddressed
<1>4. \A s \in successes : Addressed(s, Top, Bound')
  BY <1>3 DEF Successes
<1>5. CASE /\ Unused(owner) # {} /\ Unused(owner1) # {}
           /\ owner' = [owner1 EXCEPT ![fd2] = s2]
           /\ held' = [held EXCEPT ![v1] = given1, ![v2] = given2]
  <2>1. fd1 \in Descriptors /\ fd2 \in Descriptors
    BY <1>5, LowestIsFree
  <2>2. /\ WellFormed(state1) /\ ~IsBottom(state1) /\ Addressed(state1, Top, Bound + 1)
        /\ \E r \in results1 : Contains(r.itv, fd1)
        /\ Describes(state1, owner1) /\ OneOwner(owner1)
        /\ fd2 \in Slots => \A j \in Slots : fd2 < j => ~(state1.first[fd2] # Free /\ state1.first[j].free)
    BY <1>1, <1>2, <1>5, PipeFirstDescribes
  <2>3. /\ given1.fd = fd1 /\ given1.itv = ResultItv(results1)
        /\ given2.fd = fd2 /\ given2.itv = ResultItv(results2)
    BY <1>1 DEF Holding, ResultItv
  <2>4. \A d \in Descriptors : owner'[d] = IF d = fd2 THEN s2 ELSE owner1[d]
    BY <1>5, <2>1 DEF IInv, Shapes
  <2>5. \A d \in Descriptors : owner1[d] = IF d = fd1 THEN s1 ELSE owner[d]
    BY <2>1 DEF IInv, Shapes
  <2>6. \A u \in Variables : held'[u] = IF u = v2 THEN given2 ELSE IF u = v1 THEN given1 ELSE held[u]
    BY <1>5 DEF IInv, Shapes
  <2> DEFINE own1 == owner'
  <2>7. \A d \in Descriptors : own1[d] = IF d = fd2 THEN s2 ELSE owner1[d]
    BY <2>4
  <2>8. Unused(owner1) # {}
    BY <1>5
  <2> HIDE DEF own1, state1, results1, successes, given1, given2, fd1, owner1
  <2>9. \A fd \in Descriptors : owner1[fd] # NoAddr => owner1[fd] # s2
    BY <1>2, <2>5, FreshOwner DEF Tracked, Describes
  <2>10. PICK r \in results2 : Contains(r.itv, fd2) /\ Labelled(r.st, own1) /\ Supported(r.st, own1) /\ FreeIfClosed(r.st, own1)
    <3>1. Free.free
      BY DEF Free, Slot
    <3>2. fd2 \in Slots => \A j \in Slots : fd2 < j => ~(state1.first[fd2] # Free /\ state1.first[j] = Free)
      BY <2>2, <3>1
    <3> DEFINE h == Bound + 1
    <3>3. h \in Int /\ window - 1 <= h /\ Addressed(state1, Top, h)
      BY <1>1, <2>2
    <3> HIDE DEF h
    <3>4. \E r \in Insert(s2, state1) :
            /\ Contains(r.itv, fd2) /\ Labelled(r.st, own1) /\ Supported(r.st, own1)
            /\ (fd2 \in Slots => \A j \in Slots : fd2 < j => ~(state1.first[fd2] # Free /\ state1.first[j].free))
               => FreeIfClosed(r.st, own1)
      BY <1>1, <2>2, <2>7, <2>8, <2>9, <3>2, <3>3, RegisterDescribes
    <3> QED BY <2>2, <3>4
  <2> HIDE DEF fd2
  <2>11. OneOwner(own1)
    BY <2>2, <2>7, <2>9 DEF OneOwner
  <2>12. HeldCovered'
    <3>1. /\ \A r1 \in results1, d \in Int : Contains(r1.itv, d) => Contains(ResultItv(results1), d)
          /\ \A r2 \in results2, d \in Int : Contains(r2.itv, d) => Contains(ResultItv(results2), d)
      <4> HIDE DEF results2
      <4> QED BY <1>1, <1>3, ResultItvIs
    <3>2. fd1 \in Int /\ fd2 \in Int
      BY <2>1, SlotsInDescriptors
    <3>3. Contains(given1.itv, given1.fd) /\ Contains(given2.itv, given2.fd)
      BY <2>2, <2>3, <2>10, <3>1, <3>2
    <3> QED BY <1>2, <2>6, <3>3 DEF Tracked, HeldCovered
  <2>13. r.st \in successes /\ ~IsBottom(r.st)
    BY <2>10, InsertKeeps DEF successes, Successes
  <2> QED BY <1>1, <1>4, <2>10, <2>11, <2>12, <2>13, DescribedStep DEF own1
<1>6. CASE MayFail("pipe") /\ UNCHANGED <<owner, held>>
  <2>1. HeldCovered' /\ OneOwner(owner')
    BY <1>2, <1>6 DEF Tracked, HeldCovered
  <2> HIDE DEF successes
  <2> QED BY <1>1, <1>2, <1>4, <1>6, <2>1, DescribedStep DEF Tracked, Describes
<1> QED BY <1>5, <1>6 DEF Pipe, Fails, Successes

LEMMA TrackInvStep == ASSUME TrackInv, [Next]_vars PROVE TrackInv'
<1>0. IInv /\ IInv' /\ (Plain => Tracked)
  BY IInvStep DEF TrackInv
<1>1. CASE UNCHANGED vars
  BY <1>0, <1>1 DEF TrackInv, Plain, Tracked, HeldCovered, vars
<1>2. CASE Next
  <2>1. Plain' => Tracked'
    BY <1>0, <1>2, OpenTracked, PipeTracked, DupTracked, Dup2Tracked, FdopenTracked, CloseTracked, CloseStreamTracked
       DEF Next
  <2> QED BY <1>0, <2>1 DEF TrackInv
<1> QED BY <1>1, <1>2

----------------------------------------------------------------------------
(* A state that is trusted describes the kernel, or covers it.             *)
LEMMA TrustedIs == ASSUME TrackInv, Trusted PROVE (NoGuess /\ Known /\ ByDefault) \/ (Plain /\ Tracked)
<1>1. CASE ignored = {}
  BY <1>1 DEF Trusted, TrackInv, IInv, NoGuess
<1>2. CASE met \cap {"shared", "left"} = {}
  <2>1. Plain
    BY <1>2 DEF Trusted, Plain
  <2> QED BY <2>1 DEF TrackInv
<1> QED BY <1>1, <1>2 DEF Trusted

(* A descriptor 0, 1 or 2 that is closed may be free in the abstract       *)
(* state: the next "open" of the program is analysed with it as one of its *)
(* results.  This holds until a situation is met and, when every stub may  *)
(* fail, whatever is met.                                                  *)
THEOREM ClosedSlotFree == Spec => [](ClosedFree /\ (ignored = {} => ClosedMayBeFree))
<1>1. TrackInv => ClosedFree /\ (ignored = {} => ClosedMayBeFree)
  BY TrustedIs DEF TrackInv, IInv, ByDefault, ClosedMayBeFree, ClosedFree, IsOpen, Tracked, Describes, FreeIfClosed
<1> QED BY <1>1, InitTracked, TrackInvStep, PTL DEF Spec

(* Until a situation is met that the domain does not handle, find_addr     *)
(* gives every open descriptor at least one resource, whatever failures    *)
(* the analysis ignores: no "read", "close" or "dup" of an open descriptor *)
(* is analysed as an error only.                                           *)
THEOREM OpenDescriptorFound == Spec => []OpenFound
<1>1. TrackInv => OpenFound
  <2> SUFFICES ASSUME TrackInv, Trusted, NEW fd \in Descriptors, IsOpen(fd)
               PROVE  FindAddr(Const(fd), state) \ {NoAddr} # {}
    BY DEF OpenFound
  <2>1. Covered(state, fd)
    BY TrustedIs, AtIsCovered DEF Known, OpenCovered, Tracked, Describes, Labelled, IsOpen
  <2>2. fd \in Int /\ Bound \in Int /\ Top \in Nat /\ Addressed(state, Top, Bound)
    BY SlotsInDescriptors, BoundIs, TopIs DEF TrackInv, IInv, Shapes
  <2> DEFINE itv == Const(fd)
  <2>3. itv.lo \in Int /\ itv.hi \in Int /\ Contains(itv, fd)
    BY <2>2 DEF Const, Itv, Contains
  <2> HIDE DEF itv
  <2>4. FindAddr(itv, state) \ {NoAddr} # {}
    BY <2>1, <2>2, <2>3, FindCovered
  <2> QED BY <2>4 DEF itv
<1> QED BY <1>1, InitTracked, TrackInvStep, PTL DEF Spec

(* Until a situation is met that the domain does not handle, the           *)
(* descriptor a variable was given by "open", "pipe" or "dup" is in the    *)
(* interval insert_addr returned for it, whatever failures the analysis    *)
(* ignores: the branch a program takes on the number is always analysed.   *)
THEOREM ReturnedInInterval == Spec => []ReturnedCovered
<1>1. TrackInv => ReturnedCovered
  BY TrustedIs DEF Known, HeldCovered, Tracked, ReturnedCovered
<1> QED BY <1>1, InitTracked, TrackInvStep, PTL DEF Spec

(* The interval of an address of the support has an open descriptor.  Only *)
(* an interval of one descriptor narrows the result of the next "open": so *)
(* the number it takes away is not free.                                   *)
THEOREM SupportIsOpen == Spec => []SupportOpen
<1>1. TrackInv => SupportOpen
  <2> SUFFICES ASSUME TrackInv, Trusted, NEW a \in state.others.support
               PROVE  \E fd \in Descriptors : IsOpen(fd) /\ Contains(state.others.map[a], fd)
    BY DEF SupportOpen
  <2>1. SupportedBy(a, state, owner)
    BY TrustedIs DEF Known, NoSupport, Tracked, Describes, Supported
  <2> QED BY <2>1 DEF SupportedBy, BoundTo, IsOpen
<1> QED BY <1>1, InitTracked, TrackInvStep, PTL DEF Spec

----------------------------------------------------------------------------
(* When every failure is ignored, until a situation is met.                *)
(*                                                                         *)
(* Exact: a slot that is closed has no address and one that is open is not *)
(* free, every interval of the table has an open descriptor, and an        *)
(* address of a slot is nowhere else.  So a close removes from its         *)
(* descriptor all that is found there ("ambiguous" when that is more than  *)
(* one address) and from no other.  A variable that holds a descriptor of  *)
(* the window holds its number, the others an interval after the window.   *)
SlotsExact(st, own) ==
  \A i \in Slots : /\ own[i] = NoAddr => st.first[i].taken = {}
                   /\ own[i] # NoAddr => ~st.first[i].free
KeysOpen(st, own) == \A a \in Keys(st.others) : SupportedBy(a, st, own)
Apart(st) ==
  \A i \in Slots : \A a \in st.first[i].taken :
    a \notin Keys(st.others) /\ \A j \in Slots : a \in st.first[j].taken => i = j
Exact(st, own) == SlotsExact(st, own) /\ KeysOpen(st, own) /\ Apart(st)
ItvExact(fd, itv) == IF fd \in Slots THEN itv = Const(fd) ELSE window <= itv.lo
HeldExact == \A v \in Variables : held[v] # Unset => ItvExact(held[v].fd, held[v].itv)
Sure == Plain /\ "ambiguous" \notin met /\ ignored = Stubs

SureInv == TrackInv /\ (Sure => Exact(state, owner) /\ HeldExact)

LEMMA MeetSure ==
  ASSUME NEW kinds, Meet(kinds), UNCHANGED ignored, Sure'
  PROVE  /\ Sure /\ Plain' /\ \A stub \in Stubs : ~MayFail(stub)
         /\ "guessed" \notin kinds /\ "shared" \notin kinds /\ "left" \notin kinds /\ "ambiguous" \notin kinds
  BY MeetPlain DEF Meet, Plain, Sure, MayFail

LEMMA AnalysedSure ==
  ASSUME NEW stub, NEW successes, Analysed(stub, successes), ~MayFail(stub) PROVE state' = Join(successes)
<1>1. successes \cup {} = successes
  OBVIOUS
<1> QED BY <1>1 DEF Analysed

LEMMA InitSure == Init => SureInv
<1> SUFFICES ASSUME Init PROVE SureInv
  OBVIOUS
<1>1. TrackInv
  BY InitTracked
<1>2. /\ \A i \in Slots : state.first[i].taken = {i + 1} /\ ~state.first[i].free
      /\ Keys(state.others) = {}
  BY InitKnown, NotFreeIs, EmptyTableWithin
<1>3. \A i \in Slots : owner[i] # NoAddr /\ i \in Nat
  BY SlotsInDescriptors DEF Init, NoAddr, Slots, window
<1>4. SlotsExact(state, owner) /\ KeysOpen(state, owner)
  BY <1>2, <1>3 DEF SlotsExact, KeysOpen
<1>5. Apart(state)
  BY <1>2, <1>3 DEF Apart
<1>6. HeldExact
  BY DEF Init, HeldExact
<1> QED BY <1>1, <1>4, <1>5, <1>6 DEF SureInv, Exact

(* The argument of a call.                                                 *)
LEMMA SureArgument ==
  ASSUME HeldExact, NEW arg \in Arguments PROVE ItvExact(arg.fd, arg.itv)
<1>1. CASE \E i \in Slots : arg = Holding(i, Const(i))
  BY <1>1 DEF Holding, ItvExact
<1>2. CASE \E v \in Variables : arg = held[v] /\ held[v] # Unset
  BY <1>2 DEF HeldExact
<1> QED BY <1>1, <1>2 DEF Arguments

(* A join of states where a new address was placed at an open descriptor,  *)
(* or of the state itself when the descriptor was open already.            *)
Member(addr, n, st, own, s) == Placed(addr, n, st, s) \/ (s = st /\ (n \in Slots => own[n] # NoAddr))

Members(states, addr, n, st, own) == \A s \in states : Member(addr, n, st, own, s)

(* What their join J holds, and the descriptors after the call.            *)
Gathered(J, addr, n, st, own) ==
  /\ \A i \in Slots : \A a \in J.first[i].taken : a \in st.first[i].taken \/ (a = addr /\ i = n)
  /\ \A i \in Slots : J.first[i].free => st.first[i].free /\ (i = n => own[n] # NoAddr)
  /\ \A a \in Keys(J.others) : a \in Keys(st.others) \/ (a = addr /\ n \notin Slots)
AllAddressed(states, m, h) == \A s \in states : Addressed(s, m, h)
OpenedAt(n, own, own1) == own1[n] # NoAddr /\ \A fd \in Descriptors : fd # n => own1[fd] = own[fd]

LEMMA MemberIs ==
  ASSUME NEW st, NEW own, NEW addr, addr \notin Held(st), NEW n, NEW s, Member(addr, n, st, own, s)
  PROVE  Gathered(s, addr, n, st, own)
<1>1. CASE Placed(addr, n, st, s)
  BY <1>1 DEF Placed, Gathered
<1>2. CASE s = st /\ (n \in Slots => own[n] # NoAddr)
  BY <1>2 DEF Gathered
<1> QED BY <1>1, <1>2 DEF Member

LEMMA MemberPlaces ==
  ASSUME NEW st, NEW own, NEW addr, NEW n, NEW s, Member(addr, n, st, own, s),
         NEW a \in Keys(s.others), a \notin Keys(st.others)
  PROVE  BoundTo(a, s.others, n)
<1>1. CASE Placed(addr, n, st, s)
  BY <1>1 DEF Placed
<1>2. CASE s = st
  BY <1>2
<1> QED BY <1>1, <1>2 DEF Member

LEMMA MemberKeeps ==
  ASSUME NEW st, NEW own, NEW addr, NEW n, NEW s, Member(addr, n, st, own, s),
         NEW a, a # addr, NEW k, BoundTo(a, st.others, k)
  PROVE  BoundTo(a, s.others, k)
<1>1. CASE Placed(addr, n, st, s)
  BY <1>1 DEF Placed
<1>2. CASE s = st
  BY <1>2
<1> QED BY <1>1, <1>2 DEF Member

LEMMA MembersHave ==
  ASSUME NEW states, NEW st, NEW own, NEW addr, addr \notin Held(st), NEW n, Members(states, addr, n, st, own)
  PROVE  Gathered(Join(states), addr, n, st, own)
<1> DEFINE J == Join(states)
<1>0. ASSUME NEW s \in states PROVE Gathered(s, addr, n, st, own)
  <2>1. Member(addr, n, st, own, s)
    BY DEF Members
  <2> QED BY <2>1, MemberIs
<1>1. ASSUME NEW i \in Slots, NEW a \in J.first[i].taken PROVE a \in st.first[i].taken \/ (a = addr /\ i = n)
  <2>1. PICK s \in states : a \in s.first[i].taken
    BY <1>1, JoinSlots
  <2> QED BY <1>0, <2>1 DEF Gathered
<1>2. ASSUME NEW i \in Slots, J.first[i].free PROVE st.first[i].free /\ (i = n => own[n] # NoAddr)
  <2>1. PICK s \in states : s.first[i].free
    BY <1>2, JoinFree
  <2> QED BY <1>0, <2>1 DEF Gathered
<1>3. ASSUME NEW a \in Keys(J.others) PROVE a \in Keys(st.others) \/ (a = addr /\ n \notin Slots)
  <2>1. PICK s \in states : a \in Keys(s.others)
    BY <1>3, JoinKeys
  <2> QED BY <1>0, <2>1 DEF Gathered
<1> HIDE DEF J
<1>4. Gathered(J, addr, n, st, own)
  BY <1>1, <1>2, <1>3 DEF Gathered
<1> QED BY <1>4 DEF J

LEMMA PlacedHeld ==
  ASSUME NEW states, NEW st, NEW own, NEW addr, addr \notin Held(st), NEW n, Members(states, addr, n, st, own)
  PROVE  Held(Join(states)) \subseteq Held(st) \cup {addr}
<1> DEFINE J == Join(states)
<1>1. Gathered(J, addr, n, st, own)
  BY MembersHave
<1> HIDE DEF J
<1>2. Held(J) \subseteq Held(st) \cup {addr}
  BY <1>1 DEF Held, Gathered
<1> QED BY <1>2 DEF J

LEMMA PlacedExact ==
  ASSUME NEW states, NEW m, NEW h \in Int, AllAddressed(states, m, h),
         NEW st, NEW own, Exact(st, own), NEW addr, addr \notin Held(st), NEW n \in Descriptors,
         Members(states, addr, n, st, own),
         NEW own1, OpenedAt(n, own, own1)
  PROVE  Exact(Join(states), own1)
<1> DEFINE J == Join(states)
<1>0. Gathered(J, addr, n, st, own)
  BY MembersHave
<1> HIDE DEF J
<1>1. \A i \in Slots : \A a \in J.first[i].taken : a \in st.first[i].taken \/ (a = addr /\ i = n)
  BY <1>0 DEF Gathered
<1>2. \A i \in Slots : J.first[i].free => st.first[i].free /\ (i = n => own[n] # NoAddr)
  BY <1>0 DEF Gathered
<1>3. \A a \in Keys(J.others) : a \in Keys(st.others) \/ (a = addr /\ n \notin Slots)
  BY <1>0 DEF Gathered
<1>9. own1[n] # NoAddr /\ \A fd \in Descriptors : fd # n => own1[fd] = own[fd]
  BY DEF OpenedAt
<1>10. \A s \in states : Addressed(s, m, h)
  BY DEF AllAddressed
<1>4. \A i \in Slots : addr \notin st.first[i].taken
  BY DEF Held
<1>5. addr \notin Keys(st.others)
  BY DEF Held
<1>6. SlotsExact(J, own1)
  <2> SUFFICES ASSUME NEW i \in Slots
               PROVE  /\ own1[i] = NoAddr => J.first[i].taken = {}
                      /\ own1[i] # NoAddr => ~J.first[i].free
    BY DEF SlotsExact
  <2>1. i \in Descriptors
    BY SlotsInDescriptors
  <2>2. ASSUME own1[i] = NoAddr PROVE J.first[i].taken = {}
    <3>1. i # n /\ own[i] = NoAddr
      BY <1>9, <2>1, <2>2
    <3> QED BY <1>1, <3>1 DEF Exact, SlotsExact
  <2>3. ASSUME own1[i] # NoAddr, J.first[i].free PROVE FALSE
    <3>1. own[i] # NoAddr
      BY <1>2, <1>9, <2>1, <2>3
    <3> QED BY <1>2, <2>3, <3>1 DEF Exact, SlotsExact
  <2> QED BY <2>2, <2>3
<1>7. ASSUME NEW a \in Keys(J.others) PROVE SupportedBy(a, J, own1)
  <2>1. PICK s \in states : ~IsBottom(s) /\ a \in Keys(s.others)
    BY <1>7, JoinKeys DEF J
  <2>0. Member(addr, n, st, own, s)
    BY DEF Members
  <2>2. \A k \in Int : BoundTo(a, s.others, k) => BoundTo(a, J.others, k)
    BY <1>10, <2>1, JoinKeeps DEF J
  <2>3. CASE a \in Keys(st.others)
    <3>1. PICK fd \in Descriptors : own[fd] # NoAddr /\ BoundTo(a, st.others, fd)
      BY <2>3 DEF Exact, KeysOpen, SupportedBy
    <3>2. BoundTo(a, s.others, fd)
      <4>1. a # addr
        BY <1>5, <2>3
      <4> QED BY <2>0, <3>1, <4>1, MemberKeeps
    <3>3. fd \in Int /\ own1[fd] # NoAddr
      BY <1>9, <3>1, SlotsInDescriptors
    <3> QED BY <2>2, <3>2, <3>3 DEF SupportedBy
  <2>4. CASE a \notin Keys(st.others)
    <3>1. BoundTo(a, s.others, n)
      BY <2>0, <2>1, <2>4, MemberPlaces
    <3> QED BY <1>9, <2>2, <3>1, SlotsInDescriptors DEF SupportedBy
  <2> QED BY <2>3, <2>4
<1>8. Apart(J)
  BY <1>1, <1>3, <1>4, <1>5 DEF Apart, Exact
<1>11. Exact(J, own1)
  BY <1>6, <1>7, <1>8 DEF Exact, KeysOpen
<1> QED BY <1>11 DEF J

(* A registration in a state that is exact places its address at the       *)
(* smallest descriptor that is free.                                       *)
LEMMA InsertPlaces ==
  ASSUME NEW m \in Nat, NEW h \in Int, window - 1 <= h, NEW st, WellFormed(st), ~IsBottom(st), Addressed(st, m, h),
         NEW own, Describes(st, own), Exact(st, own), Unused(own) # {},
         NEW addr, addr # NoAddr, \A fd \in Descriptors : own[fd] # NoAddr => own[fd] # addr,
         NEW r \in Insert(addr, st)
  PROVE  Placed(addr, LowestFree(own), st, r.st) /\ ItvExact(LowestFree(own), r.itv)
<1> DEFINE n == LowestFree(own)
           own1 == [fd \in Descriptors |-> IF fd = n THEN addr ELSE own[fd]]
<1>1. /\ n \in Descriptors /\ own[n] = NoAddr
      /\ \A fd \in Descriptors : fd < n => own[fd] # NoAddr
  BY LowestIsFree
<1>2. n \in Slots => st.first[n] = Free
  <2> HIDE DEF n
  <2> QED BY <1>1, SlotIs DEF WellFormed, Describes, FreeIfClosed, Exact, SlotsExact
<1>3. \A fd \in Descriptors : own1[fd] = IF fd = n THEN addr ELSE own[fd]
  OBVIOUS
<1> HIDE DEF own1
<1>4. n \in Slots => \A j \in Slots : n < j => ~(st.first[n] # Free /\ st.first[j] = Free)
  BY <1>2
<1>5. \E q \in Insert(addr, st) : Contains(q.itv, n)
  BY <1>3, <1>4, RegisterDescribes
<1> HIDE DEF n
<1>6. CASE n \in Slots
  <2>1. \A j \in Slots : j < n => st.first[j].taken # {}
    BY <1>1, SlotsInDescriptors DEF Describes, Labelled, At
  <2> QED BY <1>2, <1>6, <2>1, InsertPlacesSlot DEF ItvExact, n
<1>7. CASE n \notin Slots
  <2>1. \A i \in Slots : ~st.first[i].free
    <3>1. n \in Nat /\ \A i \in Slots : i \in Descriptors /\ i \in Nat /\ i < 3
      BY <1>1, SlotsInDescriptors DEF Slots, window
    <3>2. 3 <= n
      BY <1>7, <3>1 DEF Slots, window
    <3>3. \A i \in Slots : i < n
      BY <3>1, <3>2
    <3> QED BY <1>1, <3>1, <3>3 DEF Exact, SlotsExact
  <2>2. \A q \in Insert(addr, st) : q.itv = NewItv(st.others)
    BY <2>1, InsertIs, OthersIs
  <2>3. Contains(NewItv(st.others), n)
    BY <1>5, <2>2
  <2>4. window <= NewItv(st.others).lo
    BY NewItvIs DEF Addressed
  <2>5. Placed(addr, n, st, r.st)
    BY <1>7, <2>1, <2>3, InsertPlacesBeyond
  <2> QED BY <1>7, <2>2, <2>4, <2>5 DEF ItvExact, n
<1> QED BY <1>6, <1>7

LEMMA ResultExact ==
  ASSUME NEW results, results # {}, NEW h \in Nat, \A r \in results : Within(r.itv, 0, h), NEW n \in Nat,
         \A r \in results : ItvExact(n, r.itv)
  PROVE  ItvExact(n, ResultItv(results))
<1> DEFINE itvs == {r.itv : r \in results}
<1>1. itvs # {} /\ \A i \in itvs : Within(i, 0, h) /\ ItvExact(n, i)
  OBVIOUS
<1>2. ResultItv(results) = Hull(itvs)
  BY DEF ResultItv
<1>3. Hull(itvs) = Itv(Hull(itvs).lo, Hull(itvs).hi)
  BY DEF Hull, Itv
<1> HIDE DEF itvs
<1>4. CASE n \in Slots
  <2>1. \A i \in itvs : Within(i, n, n)
    BY <1>1, <1>4 DEF ItvExact, Const, Itv, Within
  <2>2. Within(Hull(itvs), n, n)
    <3>1. n \in Int
      OBVIOUS
    <3> QED BY <1>1, <2>1, <3>1, HullIs
  <2>3. Hull(itvs).lo = n /\ Hull(itvs).hi = n
    BY <2>2 DEF Within
  <2>4. Hull(itvs) = Itv(n, n)
    BY <1>3, <2>3
  <2> QED BY <1>2, <1>4, <2>4 DEF ItvExact, Const
<1>5. CASE n \notin Slots
  <2>1. window \in Int /\ h \in Int /\ \A i \in itvs : Within(i, window, h)
    BY <1>1, <1>5 DEF ItvExact, Within, window
  <2>2. Within(Hull(itvs), window, h)
    BY <1>1, <2>1, HullIs
  <2> QED BY <1>2, <1>5, <2>2 DEF ItvExact, Within
<1> QED BY <1>4, <1>5

LEMMA SureReturns ==
  ASSUME IInv, Tracked, Exact(state, owner), ~IsBottom(state), Unused(owner) # {},
         NEW addr, addr # NoAddr, addr \notin Held(state)
  PROVE  Insert(addr, state) # {}
<1> DEFINE n == LowestFree(owner)
           own1 == [fd \in Descriptors |-> IF fd = n THEN addr ELSE owner[fd]]
<1>1. /\ WellFormed(state) /\ Addressed(state, Top, Bound)
      /\ Bound \in Int /\ window - 1 <= Bound /\ Top \in Nat
  BY BoundIs, TopIs DEF IInv, Shapes
<1>2. \A fd \in Descriptors : owner[fd] # NoAddr => owner[fd] # addr
  BY FreshOwner DEF Tracked, Describes
<1>3. n \in Slots => state.first[n] = Free
  <2>1. n \in Descriptors /\ owner[n] = NoAddr
    BY LowestIsFree
  <2> HIDE DEF n
  <2> QED BY <1>1, <2>1, SlotIs DEF WellFormed, Tracked, Describes, FreeIfClosed, Exact, SlotsExact
<1>4. n \in Slots => \A j \in Slots : n < j => ~(state.first[n] # Free /\ state.first[j] = Free)
  BY <1>3
<1>5. \A fd \in Descriptors : own1[fd] = IF fd = n THEN addr ELSE owner[fd]
  OBVIOUS
<1> HIDE DEF own1
<1> QED BY <1>1, <1>2, <1>4, <1>5, RegisterDescribes DEF Tracked

(* A call that registers one address the state does not hold.              *)
LEMMA SureStep ==
  ASSUME IInv, Calling, NEW stub \in Stubs, ~MayFail(stub), NEW successes,
         \A s \in successes : Addressed(s, Top, Bound'),
         Analysed(stub, successes), Exact(state, owner),
         NEW addr, addr \notin Held(state), NEW n \in Descriptors,
         Members(successes, addr, n, state, owner),
         owner'[n] # NoAddr, \A fd \in Descriptors : fd # n => owner'[fd] = owner[fd]
  PROVE  Exact(state', owner')
<1>1. Bound' \in Int
  BY BoundGrows DEF IInv
<1>2. state' = Join(successes)
  BY AnalysedSure
<1> DEFINE own1 == owner'
<1>3. OpenedAt(n, owner, own1)
  BY DEF OpenedAt
<1>5. AllAddressed(successes, Top, Bound')
  BY DEF AllAddressed
<1> HIDE DEF own1
<1>4. Exact(Join(successes), own1)
  BY <1>1, <1>3, <1>5, PlacedExact
<1> QED BY <1>2, <1>4 DEF own1

LEMMA OpenSure ==
  ASSUME TrackInv, NEW site \in Sites, NEW v \in Variables, Open(site, v), Sure',
         Sure => Exact(state, owner) /\ HeldExact
  PROVE  Exact(state', owner') /\ HeldExact'
<1> DEFINE results == Insert(site, state)
           successes == Successes(results)
           n == LowestFree(owner)
<1>1. /\ IInv /\ Calling /\ UNCHANGED ignored
      /\ site \in 1..Top /\ site # NoAddr /\ ~IsBottom(state) /\ WellFormed(state)
      /\ Analysed("open", successes) /\ "open" \in Stubs
      /\ Meet(Guessed(MayFail("open")) \cup Shared({site}))
      /\ Bound \in Int /\ window - 1 <= Bound /\ Top \in Nat /\ Addressed(state, Top, Bound)
      /\ Bound' \in Nat
  BY SitesAreAddresses, SitesAssumption, BoundIs, BoundGrows, TopIs
     DEF TrackInv, IInv, Shapes, Open, Calling, Stubs, Successes
<1>2. /\ Exact(state, owner) /\ HeldExact /\ Tracked /\ ~MayFail("open") /\ site \notin Held(state)
  <2>1. /\ Sure /\ ~MayFail("open")
        /\ "shared" \notin Guessed(MayFail("open")) \cup Shared({site})
    BY <1>1, MeetSure
  <2> QED BY <2>1 DEF Guessed, Shared, Kinds, TrackInv, Sure
<1>3. \A r \in results : Addressed(r.st, Top, Bound') /\ Within(r.itv, 0, Bound')
  BY <1>1, ResultsAddressed
<1>4. \A s \in successes : Addressed(s, Top, Bound')
  BY <1>3 DEF Successes
<1>5. \A fd \in Descriptors : owner[fd] # NoAddr => owner[fd] # site
  BY <1>2, FreshOwner DEF Tracked, Describes
<1>6. /\ Unused(owner) # {} /\ owner' = [owner EXCEPT ![n] = site]
      /\ held' = [held EXCEPT ![v] = Holding(n, ResultItv(results))]
  BY <1>2 DEF Open, Fails, ResultItv
<1>7. n \in Descriptors /\ n \in Nat
  <2>1. n \in Descriptors
    BY <1>6, LowestIsFree
  <2> HIDE DEF n
  <2> QED BY <2>1, SlotsInDescriptors
<1>8. \A r \in results : Placed(site, n, state, r.st) /\ ItvExact(n, r.itv)
  BY <1>1, <1>2, <1>5, <1>6, InsertPlaces DEF Tracked
<1>9. Members(successes, site, n, state, owner)
  BY <1>8 DEF Successes, Members, Member
<1>10. owner'[n] # NoAddr /\ \A fd \in Descriptors : fd # n => owner'[fd] = owner[fd]
  <2>1. owner = [fd \in Descriptors |-> owner[fd]]
    BY <1>1 DEF IInv, Shapes
  <2> HIDE DEF n
  <2> QED BY <1>1, <1>6, <1>7, <2>1
<1>11. Exact(state', owner')
  <2> HIDE DEF successes, n
  <2> QED BY <1>1, <1>2, <1>4, <1>7, <1>9, <1>10, SureStep
<1>12. results # {}
  BY <1>1, <1>2, <1>6, SureReturns
<1>13. ItvExact(n, ResultItv(results))
  <2> HIDE DEF results, n
  <2> QED BY <1>1, <1>3, <1>7, <1>8, <1>12, ResultExact
<1>14. \A u \in Variables : held'[u] = IF u = v THEN Holding(n, ResultItv(results)) ELSE held[u]
  BY <1>1, <1>6 DEF IInv, Shapes
<1>15. HeldExact'
  <2> HIDE DEF n, results
  <2> QED BY <1>2, <1>13, <1>14 DEF HeldExact, Holding
<1> QED BY <1>11, <1>15

LEMMA PipeSure ==
  ASSUME TrackInv, NEW s1 \in Sites, NEW s2 \in Sites, NEW v1 \in Variables, NEW v2 \in Variables,
         s1 # s2, v1 # v2, Pipe(s1, s2, v1, v2), Sure', Sure => Exact(state, owner) /\ HeldExact
  PROVE  Exact(state', owner') /\ HeldExact'
<1> DEFINE results1 == Insert(s1, state)
           states1 == Successes(results1)
           state1 == Join(states1)
           results2 == Insert(s2, state1)
           successes == Successes(results2)
           fd1 == LowestFree(owner)
           owner1 == [owner EXCEPT ![fd1] = s1]
           fd2 == LowestFree(owner1)
           given1 == Holding(fd1, ResultItv(results1))
           given2 == Holding(fd2, ResultItv(results2))
<1>1. /\ IInv /\ Calling /\ UNCHANGED ignored /\ results1 # {} /\ results2 # {} /\ ~IsBottom(state) /\ WellFormed(state)
      /\ Analysed("pipe", successes) /\ "pipe" \in Stubs
      /\ Meet(Guessed(FALSE) \cup Shared({s1, s2}))
      /\ s1 # NoAddr /\ s2 # NoAddr /\ s1 \in 1..Top /\ Top \in Nat
      /\ Bound \in Int /\ window - 1 <= Bound /\ Bound + 1 \in Int /\ window - 1 <= Bound + 1 /\ Bound' \in Nat
      /\ Addressed(state, Top, Bound)
  <2>1. IInv /\ Shapes /\ WellFormed(state) /\ Addressed(state, Top, Bound)
    BY DEF TrackInv, IInv, Shapes
  <2>2. /\ Calling /\ results1 # {} /\ results2 # {} /\ Analysed("pipe", successes)
        /\ Meet(Guessed(FALSE) \cup Shared({s1, s2}))
    BY DEF Pipe, Successes
  <2> HIDE DEF results1, results2, successes
  <2>3. UNCHANGED ignored /\ ~IsBottom(state) /\ "pipe" \in Stubs
    BY <2>2 DEF Calling, Stubs
  <2>4. s1 # NoAddr /\ s2 # NoAddr /\ s1 \in 1..Top /\ Top \in Nat
    BY SitesAreAddresses, SitesAssumption, TopIs
  <2>5. /\ Bound \in Int /\ window - 1 <= Bound /\ Bound + 1 \in Int /\ window - 1 <= Bound + 1 /\ Bound' \in Nat
    BY <2>1, <2>2, BoundIs, BoundGrows
  <2> QED BY <2>1, <2>2, <2>3, <2>4, <2>5
<1>2. /\ Exact(state, owner) /\ HeldExact /\ Tracked /\ ~MayFail("pipe") /\ ~Guesses
      /\ s1 \notin Held(state) /\ s2 \notin Held(state)
  <2>1. /\ Sure /\ ~MayFail("pipe")
        /\ "guessed" \notin Guessed(FALSE) \cup Shared({s1, s2})
        /\ "shared" \notin Guessed(FALSE) \cup Shared({s1, s2})
    BY <1>1, MeetSure
  <2> QED BY <2>1 DEF Guessed, Shared, Kinds, TrackInv, Sure
<1>3. /\ \A r \in results1 : Addressed(r.st, Top, Bound') /\ Within(r.itv, 0, Bound')
      /\ \A r \in results2 : Addressed(r.st, Top, Bound') /\ Within(r.itv, 0, Bound')
  BY <1>1, PipeAddressed
<1>4. /\ Unused(owner) # {} /\ Unused(owner1) # {} /\ owner' = [owner1 EXCEPT ![fd2] = s2]
      /\ held' = [held EXCEPT ![v1] = given1, ![v2] = given2]
  BY <1>1, <1>2 DEF Pipe, Fails, Successes, ResultItv
<1>5. /\ WellFormed(state1) /\ ~IsBottom(state1) /\ Addressed(state1, Top, Bound + 1)
      /\ Describes(state1, owner1)
  BY <1>1, <1>2, <1>4, PipeFirstDescribes
<1>6. fd1 \in Descriptors /\ fd2 \in Descriptors
  BY <1>4, LowestIsFree
<1>7. \A d \in Descriptors : owner1[d] = IF d = fd1 THEN s1 ELSE owner[d]
  BY <1>1, <1>6 DEF IInv, Shapes
<1>8. \A d \in Descriptors : owner'[d] = IF d = fd2 THEN s2 ELSE owner1[d]
  BY <1>1, <1>4, <1>6 DEF IInv, Shapes
<1>9. \A fd \in Descriptors : owner[fd] # NoAddr => owner[fd] # s1 /\ owner[fd] # s2
  BY <1>2, FreshOwner DEF Tracked, Describes
<1>10. \A r \in results1 : Placed(s1, fd1, state, r.st) /\ ItvExact(fd1, r.itv)
  BY <1>1, <1>2, <1>4, <1>9, InsertPlaces DEF Tracked
<1>11. /\ Members(states1, s1, fd1, state, owner)
       /\ \A s \in states1 : Addressed(s, Top, Bound')
  BY <1>3, <1>10 DEF Successes, Members, Member
<1>12. \A u \in Variables : held'[u] = IF u = v2 THEN given2 ELSE IF u = v1 THEN given1 ELSE held[u]
  BY <1>1, <1>4 DEF IInv, Shapes
<1>13. \A s \in successes : \E r \in results2 : s = r.st
  BY DEF Successes
<1>14. state1 = Join(states1) /\ results2 = Insert(s2, state1)
  OBVIOUS
<1>15. Unused(owner1) # {} /\ fd2 = LowestFree(owner1)
  BY <1>4
<1> HIDE DEF results1, results2, states1, state1, successes, fd1, owner1, fd2
<1>16. Exact(state1, owner1)
  <2>1. OpenedAt(fd1, owner, owner1)
    BY <1>1, <1>6, <1>7 DEF OpenedAt
  <2> DEFINE h == Bound'
  <2>2. h \in Int /\ AllAddressed(states1, Top, h)
    BY <1>1, <1>11 DEF AllAddressed
  <2> HIDE DEF h
  <2> QED BY <1>2, <1>6, <1>11, <1>14, <2>1, <2>2, PlacedExact
<1>17. s2 \notin Held(state1)
  <2>1. Held(Join(states1)) \subseteq Held(state) \cup {s1}
    <3>1. s1 \notin Held(state)
      BY <1>2
    <3>2. Members(states1, s1, fd1, state, owner)
      BY <1>11
    <3> QED BY <3>1, <3>2, PlacedHeld
  <2> QED BY <1>2, <1>14, <2>1
<1>18. \A r \in results2 : Placed(s2, fd2, state1, r.st) /\ ItvExact(fd2, r.itv)
  <2> DEFINE h == Bound + 1
  <2>1. h \in Int /\ window - 1 <= h /\ Addressed(state1, Top, h)
    BY <1>1, <1>5
  <2>2. \A fd \in Descriptors : owner1[fd] # NoAddr => owner1[fd] # s2
    BY <1>7, <1>9
  <2> HIDE DEF h
  <2> QED BY <1>1, <1>5, <1>14, <1>15, <1>16, <2>1, <2>2, InsertPlaces
<1>19. Exact(state', owner')
  <2>1. state' = Join(successes)
    BY <1>1, <1>2, AnalysedSure
  <2> DEFINE own1 == owner'
             h == Bound'
  <2>2. OpenedAt(fd2, owner1, own1)
    BY <1>1, <1>6, <1>8 DEF OpenedAt
  <2>3. h \in Int /\ AllAddressed(successes, Top, h)
    BY <1>1, <1>3, <1>13 DEF AllAddressed
  <2>5. Members(successes, s2, fd2, state1, owner1)
    BY <1>13, <1>18 DEF Members, Member
  <2> HIDE DEF own1, h
  <2>4. Exact(Join(successes), own1)
    BY <1>6, <1>16, <1>17, <2>2, <2>3, <2>5, PlacedExact
  <2> QED BY <2>1, <2>4 DEF own1
<1>20. ItvExact(fd1, ResultItv(results1)) /\ ItvExact(fd2, ResultItv(results2))
  <2>1. fd1 \in Nat /\ fd2 \in Nat
    BY <1>6, SlotsInDescriptors
  <2> QED BY <1>1, <1>3, <1>10, <1>18, <2>1, ResultExact
<1>21. HeldExact'
  BY <1>2, <1>12, <1>20 DEF HeldExact, Holding
<1> QED BY <1>19, <1>21

LEMMA FdopenSure ==
  ASSUME TrackInv, NEW arg \in OpenArguments, NEW site \in Sites, Fdopen(arg, site), Sure',
         Sure => Exact(state, owner) /\ HeldExact
  PROVE  Exact(state', owner') /\ HeldExact'
<1> DEFINE successes == InsertAt(site, arg.itv, state)
           n == arg.fd
<1>1. /\ IInv /\ Calling /\ UNCHANGED <<owner, held, ignored>> /\ ~IsBottom(state) /\ WellFormed(state)
      /\ Analysed("fdopen", successes) /\ "fdopen" \in Stubs /\ Meet(Shared({site}))
      /\ site \in 1..Top /\ Top \in Nat
      /\ Bound \in Int /\ Bound' \in Int /\ Bound <= Bound' /\ -1 \in Int
      /\ Addressed(state, Top, Bound)
  BY SitesAreAddresses, BoundIs, BoundGrows, TopIs DEF TrackInv, IInv, Shapes, Fdopen, Calling, Stubs
<1>2. Exact(state, owner) /\ HeldExact /\ Tracked /\ ~MayFail("fdopen") /\ site \notin Held(state)
  <2>1. Sure /\ ~MayFail("fdopen") /\ "shared" \notin Shared({site})
    BY <1>1, MeetSure
  <2> QED BY <2>1 DEF Shared, Kinds, TrackInv, Sure
<1>3. /\ Within(arg.itv, -1, Bound) /\ arg \in Arguments
      /\ n \in Descriptors /\ n \in Nat /\ Contains(arg.itv, n) /\ owner[n] # NoAddr
  BY <1>1, <1>2, ArgumentIs, TrackedArgument DEF OpenArguments, IsOpen
<1>4. \A s \in successes : Addressed(s, Top, Bound')
  <2>1. Addressed(state, Top, Bound') /\ Within(arg.itv, -1, Bound')
    BY <1>1, <1>3, AddressedMore, WithinMore
  <2> QED BY <1>1, <2>1, InsertAtAddressed
<1>5. \A s \in successes : Placed(site, n, state, s)
  <2>1. IF n \in Slots THEN arg.itv = Const(n) ELSE window <= arg.itv.lo
    BY <1>2, <1>3, SureArgument DEF ItvExact
  <2> QED BY <1>1, <1>3, <2>1, InsertAtPlaces
<1>6. Members(successes, site, n, state, owner)
  BY <1>5 DEF Members, Member
<1>7. owner'[n] # NoAddr /\ \A fd \in Descriptors : fd # n => owner'[fd] = owner[fd]
  BY <1>1, <1>3
<1> HIDE DEF successes, n
<1>8. Exact(state', owner')
  BY <1>1, <1>2, <1>3, <1>4, <1>6, <1>7, SureStep
<1> QED BY <1>1, <1>2, <1>8 DEF HeldExact

LEMMA Dup2Sure ==
  ASSUME TrackInv, NEW arg \in OpenArguments, NEW target \in Arguments, NEW site \in Sites,
         Dup2(arg, target, site), Sure', Sure => Exact(state, owner) /\ HeldExact
  PROVE  Exact(state', owner') /\ HeldExact'
<1> DEFINE found == FindAddr(target.itv, state)
           successes == (IF NoAddr \in found THEN InsertAt(site, target.itv, state) ELSE {}) \cup
                        (IF found = {NoAddr} THEN {} ELSE {state})
           kinds == IF NoAddr \in found THEN Shared({site}) ELSE Kinds(~IsOpen(target.fd), "shared")
           n == target.fd
<1>1. /\ IInv /\ Calling /\ UNCHANGED <<held, ignored>> /\ ~IsBottom(state) /\ WellFormed(state)
      /\ Analysed("dup2", successes) /\ "dup2" \in Stubs /\ Meet(kinds)
      /\ site \in 1..Top /\ Top \in Nat /\ site # NoAddr
      /\ Bound \in Int /\ Bound' \in Int /\ Bound <= Bound' /\ -1 \in Int
      /\ Addressed(state, Top, Bound)
  BY SitesAreAddresses, SitesAssumption, BoundIs, BoundGrows, TopIs DEF TrackInv, IInv, Shapes, Dup2, Calling, Stubs
<1>2. Sure /\ "shared" \notin kinds /\ ~MayFail("dup2")
  <2> HIDE DEF kinds
  <2> QED BY <1>1, MeetSure
<1>3. /\ Exact(state, owner) /\ HeldExact /\ Tracked
      /\ (NoAddr \in found => site \notin Held(state)) /\ (NoAddr \notin found => IsOpen(n))
  BY <1>2 DEF Shared, Kinds, TrackInv, Sure
<1>4. /\ Within(target.itv, -1, Bound)
      /\ n \in Descriptors /\ n \in Nat /\ Contains(target.itv, n)
      /\ IF n \in Slots THEN target.itv = Const(n) ELSE window <= target.itv.lo
  BY <1>1, <1>3, ArgumentIs, TrackedArgument, SureArgument DEF ItvExact
<1>5. \A s \in successes : Addressed(s, Top, Bound')
  <2>1. Addressed(state, Top, Bound') /\ Within(target.itv, -1, Bound')
    BY <1>1, <1>4, AddressedMore, WithinMore
  <2>2. \A s \in InsertAt(site, target.itv, state) : Addressed(s, Top, Bound')
    BY <1>1, <2>1, InsertAtAddressed
  <2> QED BY <2>1, <2>2
<1>6. owner'[n] # NoAddr /\ \A fd \in Descriptors : fd # n => owner'[fd] = owner[fd]
  <2>1. owner' = [owner EXCEPT ![n] = IF @ = NoAddr THEN site ELSE @]
    BY <1>2 DEF Dup2, Fails
  <2>2. owner = [fd \in Descriptors |-> owner[fd]]
    BY <1>1 DEF IInv, Shapes
  <2> HIDE DEF n
  <2> QED BY <1>1, <1>4, <2>1, <2>2
<1>7. CASE NoAddr \in found
  <2>1. \A s \in InsertAt(site, target.itv, state) : Placed(site, n, state, s)
    BY <1>1, <1>4, InsertAtPlaces
  <2>2. state \in successes => (n \in Slots => owner[n] # NoAddr) \/ Placed(site, n, state, state)
    <3> SUFFICES ASSUME state \in successes, n \in Slots, owner[n] = NoAddr PROVE Placed(site, n, state, state)
      OBVIOUS
    <3>1. state.first[n].taken = {} /\ target.itv = Const(n)
      BY <1>3, <1>4 DEF Exact, SlotsExact
    <3>2. FindAddr(Const(n), state) \subseteq {NoAddr}
      <4> HIDE DEF n
      <4> QED BY <1>1, <3>1, FindEmptySlot
    <3>3. found = {NoAddr}
      BY <1>7, <3>1, <3>2
    <3> QED BY <2>1, <3>3
  <2>3. Members(successes, site, n, state, owner)
    BY <2>1, <2>2 DEF Members, Member
  <2>4. site \notin Held(state)
    BY <1>3, <1>7
  <2> HIDE DEF successes, n
  <2>5. Exact(state', owner')
    BY <1>1, <1>2, <1>3, <1>4, <1>5, <1>6, <2>3, <2>4, SureStep
  <2> QED BY <1>1, <1>3, <2>5 DEF HeldExact
<1>8. CASE NoAddr \notin found
  <2> DEFINE fresh == Top + 1
  <2>1. fresh \notin Held(state)
    BY <1>1 DEF Held, Addressed, TableWithin
  <2> HIDE DEF fresh
  <2>2. Members(successes, fresh, n, state, owner)
    BY <1>3, <1>8 DEF Members, Member, IsOpen
  <2> HIDE DEF successes, n
  <2>5. Exact(state', owner')
    BY <1>1, <1>2, <1>3, <1>4, <1>5, <1>6, <2>1, <2>2, SureStep
  <2> QED BY <1>1, <1>3, <2>5 DEF HeldExact
<1> QED BY <1>7, <1>8

(* A removal of the only candidate of a descriptor.                        *)
LEMMA OnlyOne ==
  ASSUME NEW S, IsFiniteSet(S), Cardinality(S) <= 1, NEW x \in S PROVE S = {x}
<1>1. Cardinality(S \ {x}) = Cardinality(S) - 1 /\ IsFiniteSet(S \ {x})
  BY FS_RemoveElement
<1>2. Cardinality(S) \in Nat /\ Cardinality(S \ {x}) \in Nat
  BY <1>1, FS_CardinalityType
<1>3. Cardinality(S \ {x}) = 0
  BY <1>1, <1>2
<1>4. S \ {x} = {}
  BY <1>1, <1>3, FS_EmptySet
<1> QED BY <1>4

LEMMA RemovedExact ==
  ASSUME NEW m \in Nat, NEW h \in Int, NEW st, Addressed(st, m, h), ~IsBottom(st), NEW own, Exact(st, own),
         NEW n \in Descriptors, NEW addr, At(addr, st, n), \A a : At(a, st, n) => a = addr,
         NEW own1, own1[n] = NoAddr, \A fd \in Descriptors : fd # n => own1[fd] = own[fd]
  PROVE  Exact(Join({Remove(addr, st)}), own1)
<1> DEFINE s == Remove(addr, st)
           J == Join({s})
<1>1. /\ \A i \in Slots : J.first[i].taken \subseteq s.first[i].taken
      /\ \A i \in Slots : J.first[i].free => s.first[i].free
      /\ Keys(J.others) \subseteq Keys(s.others)
  <2> DEFINE S == {s}
  <2>1. \A t \in S : t = s
    OBVIOUS
  <2> HIDE DEF S, s
  <2> QED BY <2>1, JoinSlots, JoinFree, JoinKeys DEF S
<1>2. /\ \A i \in Slots : s.first[i].taken = st.first[i].taken \ {addr}
      /\ \A i \in Slots : s.first[i].free => st.first[i].free \/ addr \in st.first[i].taken
      /\ Keys(s.others) = Keys(st.others) \ {addr}
  <2>1. Keys(s.others) = Keys(st.others) \ {addr}
    BY RemoveIs
  <2>2. ASSUME NEW i \in Slots
        PROVE  /\ s.first[i].taken = st.first[i].taken \ {addr}
               /\ s.first[i].free => st.first[i].free \/ addr \in st.first[i].taken
    <3>1. s.first[i] = SlotRemove(addr, st.first[i])
      BY RemoveIs
    <3> HIDE DEF s
    <3> QED BY <3>1 DEF SlotRemove, Slot
  <2> HIDE DEF s
  <2> QED BY <2>1, <2>2
<1>3. /\ ~IsBottom(s) /\ Addressed(s, m, h)
      /\ \A a, k : a # addr /\ At(a, st, k) => At(a, s, k)
  BY RemoveKeeps, RemoveAddressed
<1>4. \A a : \A k \in Int : BoundTo(a, s.others, k) => BoundTo(a, J.others, k)
  <2> DEFINE S == {s}
  <2>1. s \in S /\ \A t \in S : Addressed(t, m, h)
    BY <1>3
  <2> HIDE DEF S, s
  <2> QED BY <1>3, <2>1, JoinKeeps DEF S
<1> HIDE DEF J, s
<1>5. SlotsExact(J, own1)
  <2> SUFFICES ASSUME NEW i \in Slots
               PROVE  /\ own1[i] = NoAddr => J.first[i].taken = {}
                      /\ own1[i] # NoAddr => ~J.first[i].free
    BY DEF SlotsExact
  <2>1. i \in Descriptors
    BY SlotsInDescriptors
  <2>2. CASE i = n
    BY <1>1, <1>2, <2>2 DEF At
  <2>3. CASE i # n
    <3>1. own1[i] = own[i]
      BY <2>1, <2>3
    <3>2. addr \notin st.first[i].taken
      BY <2>3 DEF At, BoundTo, Exact, Apart
    <3> QED BY <1>1, <1>2, <3>1, <3>2 DEF Exact, SlotsExact
  <2> QED BY <2>2, <2>3
<1>6. ASSUME NEW a \in Keys(J.others) PROVE SupportedBy(a, J, own1)
  <2>1. a \in Keys(st.others) /\ a # addr
    BY <1>1, <1>2, <1>6
  <2>2. PICK fd \in Descriptors : own[fd] # NoAddr /\ BoundTo(a, st.others, fd)
    BY <2>1 DEF Exact, KeysOpen, SupportedBy
  <2>3. fd \notin Slots /\ fd \in Int
    BY <2>2, KeysBeyond, SlotsInDescriptors
  <2>4. fd # n
    BY <2>1, <2>2, <2>3 DEF At
  <2>5. BoundTo(a, s.others, fd)
    BY <1>3, <2>1, <2>2, <2>3 DEF At
  <2> QED BY <1>4, <2>2, <2>3, <2>4, <2>5 DEF SupportedBy
<1>7. Apart(J)
  BY <1>1, <1>2 DEF Exact, Apart
<1>8. Exact(J, own1)
  BY <1>5, <1>6, <1>7 DEF Exact, KeysOpen
<1> QED BY <1>8 DEF J, s

LEMMA CloseSure ==
  ASSUME TrackInv, NEW arg \in OpenArguments, Close(arg), Sure', Sure => Exact(state, owner) /\ HeldExact
  PROVE  Exact(state', owner') /\ HeldExact'
<1> DEFINE successes == {Remove(a, state) : a \in Candidates(arg)}
           n == arg.fd
           addr == owner[n]
           kinds == Kinds(Cardinality(Candidates(arg)) > 1, "ambiguous")
<1>1. /\ IInv /\ Calling /\ UNCHANGED <<held, ignored>> /\ ~IsBottom(state)
      /\ Analysed("close", successes) /\ "close" \in Stubs /\ Meet(kinds)
      /\ Top \in Nat /\ Bound \in Int /\ Addressed(state, Top, Bound)
  BY BoundIs, TopIs DEF TrackInv, IInv, Shapes, Close, Calling, Stubs
<1>2. Sure /\ ~MayFail("close") /\ "ambiguous" \notin kinds
  <2> HIDE DEF kinds
  <2> QED BY <1>1, MeetSure
<1>3. Exact(state, owner) /\ HeldExact /\ Tracked /\ ~(Cardinality(Candidates(arg)) > 1)
  BY <1>2 DEF Kinds, TrackInv, Sure
<1>4. /\ n \in Descriptors /\ n \in Int /\ Contains(arg.itv, n) /\ owner[n] # NoAddr
      /\ arg.itv.lo \in Int /\ arg.itv.hi \in Int
  BY <1>1, <1>3, ArgumentIs, TrackedArgument DEF OpenArguments, IsOpen, Within
<1>5. At(addr, state, n)
  BY <1>3, <1>4 DEF Tracked, Describes, Labelled
<1>6. \A a : At(a, state, n) => a \in Candidates(arg)
  BY <1>1, <1>4, FindAt DEF Candidates
<1>7. Candidates(arg) = {addr}
  <2> DEFINE C == Candidates(arg)
  <2>1. C \subseteq 1..Top
    BY <1>1, FindAddressed DEF Candidates
  <2>2. IsFiniteSet(1..Top)
    BY <1>1, FS_Interval
  <2>3. addr \in C /\ ~(Cardinality(C) > 1)
    BY <1>3, <1>5, <1>6
  <2> HIDE DEF C, addr
  <2>4. IsFiniteSet(C)
    BY <2>1, <2>2, FS_Subset
  <2>5. Cardinality(C) \in Nat
    BY <2>4, FS_CardinalityType
  <2>6. C = {addr}
    BY <2>3, <2>4, <2>5, OnlyOne
  <2> QED BY <2>6 DEF C
<1>8. state' = Join({Remove(addr, state)})
  <2>1. successes = {Remove(addr, state)}
    BY <1>7
  <2> HIDE DEF successes
  <2> QED BY <1>1, <1>2, <2>1, AnalysedSure
<1> DEFINE own1 == owner'
<1>9. own1[n] = NoAddr /\ \A fd \in Descriptors : fd # n => own1[fd] = owner[fd]
  <2>1. owner' = [owner EXCEPT ![n] = NoAddr]
    BY <1>2 DEF Close, Fails
  <2>2. owner = [fd \in Descriptors |-> owner[fd]]
    BY <1>1 DEF IInv, Shapes
  <2> HIDE DEF n
  <2> QED BY <1>4, <2>1, <2>2
<1>10. \A a : At(a, state, n) => a = addr
  BY <1>6, <1>7
<1> HIDE DEF own1, addr, n
<1>11. Exact(Join({Remove(addr, state)}), own1)
  BY <1>1, <1>3, <1>4, <1>5, <1>9, <1>10, RemovedExact
<1> QED BY <1>1, <1>3, <1>8, <1>11 DEF own1, HeldExact

LEMMA SureInvStep == ASSUME SureInv, [Next]_vars PROVE SureInv'
<1>0. TrackInv /\ TrackInv' /\ (Sure => Exact(state, owner) /\ HeldExact)
  BY TrackInvStep DEF SureInv
<1>1. CASE UNCHANGED vars
  BY <1>0, <1>1 DEF SureInv, Sure, Plain, HeldExact, vars
<1>2. CASE Next
  <2>1. ASSUME Sure' PROVE Exact(state', owner') /\ HeldExact'
    <3>1. Plain' /\ IInv /\ (Plain => Tracked)
      BY <1>0, <2>1 DEF Sure, TrackInv
    <3> QED BY <1>0, <1>2, <2>1, <3>1, OpenSure, PipeSure, DupTracked, Dup2Sure, FdopenSure, CloseSure,
               CloseStreamTracked DEF Next
  <2> QED BY <1>0, <2>1 DEF SureInv
<1> QED BY <1>1, <1>2

(* When every failure is ignored, and until a situation is met that the    *)
(* domain does not handle or a close has several candidates, find_addr     *)
(* gives NULL for every descriptor that is closed: a use after a close,    *)
(* which the contracts refuse, is never analysed as correct only.          *)
THEOREM ClosedIsRefused == Spec => []ClosedRefused
<1>1. SureInv => ClosedRefused
  <2> SUFFICES ASSUME SureInv, Trusted, "ambiguous" \notin met, ignored = Stubs,
                      NEW fd \in Descriptors, owner[fd] = NoAddr
               PROVE  NoAddr \in FindAddr(Const(fd), state)
    BY DEF ClosedRefused, IsOpen
  <2>1. Exact(state, owner)
    <3>1. "open" \in Stubs
      BY DEF Stubs
    <3> QED BY <3>1 DEF SureInv, Sure, Plain, Trusted
  <2>2. fd \in Int /\ Bound \in Int /\ Top \in Nat /\ Addressed(state, Top, Bound)
    BY SlotsInDescriptors, BoundIs, TopIs DEF SureInv, TrackInv, IInv, Shapes
  <2> DEFINE itv == Const(fd)
  <2>3. itv.lo \in Int /\ itv.hi \in Int /\ Contains(itv, fd)
    BY <2>2 DEF Const, Itv, Contains
  <2> HIDE DEF itv
  <2>4. fd \in Slots => state.first[fd].taken = {}
    BY <2>1 DEF Exact, SlotsExact
  <2>5. \A b \in Keys(state.others) : ~(state.others.map[b].lo = fd /\ state.others.map[b].hi = fd)
    <3> TAKE b \in Keys(state.others)
    <3>1. PICK g \in Descriptors : owner[g] # NoAddr /\ BoundTo(b, state.others, g)
      BY <2>1 DEF Exact, KeysOpen, SupportedBy
    <3>2. g # fd /\ g \in Int /\ Contains(state.others.map[b], g)
      BY <3>1, SlotsInDescriptors DEF BoundTo
    <3> QED BY <2>2, <3>2 DEF Contains
  <2> QED BY <2>2, <2>3, <2>4, <2>5, FindUnbound DEF itv
<1> QED BY <1>1, InitSure, SureInvStep, PTL DEF Spec
=============================================================================
