------------------------- MODULE AnalysisCache_proofs -------------------------
(***************************************************************************)
(* Proofs about the analysis cache, for every size of the ring and any     *)
(* nesting of calls.                                                       *)
(***************************************************************************)
EXTENDS AnalysisCache, WellFoundedInduction, TLAPS

\* The remainder that moves next is a wrap-around.
LEMMA NextWraps ==
  ASSUME NEW s \in Nat, s # 0, NEW n \in Nat, n < s
  PROVE  (n + 1) % s = IF n + 1 = s THEN 0 ELSE n + 1
  OBVIOUS

\* The inductive invariant.
IInv == TypeOK /\ RingHoldsLog

\* The empty ring remembers the empty past.
LEMMA InitIInv == Init => IInv
  <1> SUFFICES ASSUME Init PROVE IInv
    OBVIOUS
  <1>1. size \in Nat /\ Len(log) = 0
    BY CacheAssumption DEF Init
  <1>2. TypeOK
    BY <1>1 DEF Init, TypeOK
  <1>3. \A d \in 1..size : Slot(d) \in 0..(size - 1)
    BY <1>1 DEF Init, Slot
  <1> QED BY <1>1, <1>2, <1>3 DEF Init, IInv, RingHoldsLog

\* Steps that leave the ring and the past alone.
LEMMA Untouched ==
  ASSUME IInv, size' = size, elements' = elements, next' = next, log' = log,
         calls' \in Seq(Key)
  PROVE  IInv'
  BY DEF IInv, TypeOK, RingHoldsLog, Slot, Past

\* After an addition, the slot just written is one step back, and every other
\* slot is one step further back than it was.
LEMMA SlotsShift ==
  ASSUME size \in Nat, size # 0, next \in Nat, next < size,
         size' = size, next' = (next + 1) % size
  PROVE  /\ next' \in Nat /\ next' < size
         /\ Slot(1)' = next
         /\ \A d \in 2..size : Slot(d)' = Slot(d - 1)
         /\ \A d \in 1..(size - 1) : Slot(d) # next
         /\ \A d \in 1..size : Slot(d) \in 0..(size - 1)
  <1>1. next' = IF next + 1 = size THEN 0 ELSE next + 1
    BY NextWraps
  <1> QED BY <1>1 DEF Slot

\* The return of a transfer function adds its result to the ring and to the
\* past.
LEMMA ComputeStep ==
  ASSUME IInv, Compute
  PROVE  IInv'
  <1> DEFINE entry == [key |-> calls[Len(calls)], result |-> Len(log) + 1]
  <1>1. /\ calls \in Seq(Key) /\ calls # << >> /\ log \in Seq(Entry)
        /\ size \in Nat /\ size' = size
        /\ elements \in [0..(size - 1) -> Entry \union {None}]
        /\ next \in Nat /\ (size # 0 => next < size)
    BY DEF IInv, TypeOK, Compute
  <1>2. entry \in Entry /\ calls' \in Seq(Key)
    BY <1>1 DEF Entry, Compute
  <1>3. log' = Append(log, entry) /\ log' \in Seq(Entry) /\ Len(log') = Len(log) + 1
    BY <1>1, <1>2 DEF Compute
  <1>4. CASE size = 0
    BY <1>1, <1>2, <1>3, <1>4 DEF Compute, IInv, TypeOK, RingHoldsLog
  <1>5. CASE size # 0
    <2>1. elements' = [elements EXCEPT ![next] = entry] /\ next' = (next + 1) % size
      BY <1>5 DEF Compute, Add
    <2>2. /\ next' \in Nat /\ next' < size
          /\ Slot(1)' = next
          /\ \A d \in 2..size : Slot(d)' = Slot(d - 1)
          /\ \A d \in 1..(size - 1) : Slot(d) # next
          /\ \A d \in 1..size : Slot(d) \in 0..(size - 1)
      BY <1>1, <1>5, <2>1, SlotsShift
    <2>3. TypeOK'
      BY <1>1, <1>2, <1>3, <2>1, <2>2 DEF TypeOK
    <2>4. ASSUME NEW d \in 1..size
          PROVE  (elements[Slot(d)] = IF d <= Len(log) THEN Past(d) ELSE None)'
      <3>1. CASE d = 1
        <4>1. elements'[Slot(1)'] = entry
          BY <1>1, <1>5, <2>1, <2>2
        <4>2. Past(1)' = entry
          BY <1>1, <1>2, <1>3 DEF Past
        <4> QED BY <1>3, <3>1, <4>1, <4>2, <1>1
      <3>2. CASE d # 1
        <4>1. d - 1 \in 1..(size - 1) /\ d \in 2..size
          BY <1>1, <3>2
        <4>2. elements'[Slot(d)'] = elements[Slot(d - 1)]
          BY <1>1, <1>5, <2>1, <2>2, <4>1
        <4>3. elements[Slot(d - 1)] = IF d - 1 <= Len(log) THEN Past(d - 1) ELSE None
          BY <1>1, <1>5, <4>1 DEF IInv, RingHoldsLog
        <4>4. d <= Len(log') => Past(d)' = Past(d - 1)
          BY <1>1, <1>2, <1>3, <4>1 DEF Past
        <4> QED BY <1>1, <1>3, <4>1, <4>2, <4>3, <4>4
      <3> QED BY <3>1, <3>2
    <2> QED BY <1>1, <2>3, <2>4 DEF IInv, RingHoldsLog
  <1> QED BY <1>4, <1>5

\* Every step preserves the invariant.
LEMMA IInvStep == IInv /\ [Next]_vars => IInv'
  <1> SUFFICES ASSUME IInv, [Next]_vars PROVE IInv'
    OBVIOUS
  <1>1. calls \in Seq(Key)
    BY DEF IInv, TypeOK
  <1>2. ASSUME NEW k \in Key, Hit(k) PROVE IInv'
    BY <1>1, <1>2, Untouched DEF Hit
  <1>3. ASSUME NEW k \in Key, Miss(k) PROVE IInv'
    BY <1>1, <1>3, Untouched DEF Miss
  <1>4. CASE Raise
    BY <1>1, <1>4, Untouched DEF Raise
  <1>5. CASE Compute
    BY <1>5, ComputeStep
  <1>6. CASE UNCHANGED vars
    BY <1>1, <1>6, Untouched DEF vars
  <1> QED BY <1>2, <1>3, <1>4, <1>5, <1>6 DEF Next

\* The invariant holds in every reachable state.
LEMMA Invariance == Spec => []IInv
  BY InitIInv, IInvStep, PTL DEF Spec

\* Every variable keeps its type.
THEOREM TypeCorrect == Spec => []TypeOK
  BY Invariance, PTL DEF IInv

\* Going back round the ring is going back in time.
THEOREM RingIsThePast == Spec => []RingHoldsLog
  BY Invariance, PTL DEF IInv

-----------------------------------------------------------------------------

\* The scan of the ring and the search in the past see the same entries.
LEMMA ScanIsRecent ==
  ASSUME IInv, size # 0
  PROVE  /\ Scanned = Recent(size - 1)
         /\ \A d \in Scanned : elements[Slot(d)] = Past(d)
  <1>1. size \in Nat /\ log \in Seq(Entry)
    BY DEF IInv, TypeOK
  <1>2. \A d \in 1..size : elements[Slot(d)] = IF d <= Len(log) THEN Past(d) ELSE None
    BY DEF IInv, RingHoldsLog
  <1>3. \A d \in 1..Len(log) : Past(d) # None
    <2>1. \A d \in 1..Len(log) : Past(d) \in Entry
      BY <1>1 DEF Past
    <2>2. None \notin Entry
      BY CacheAssumption DEF Entry
    <2> QED BY <2>1, <2>2
  <1>4. ASSUME NEW d \in 1..(size - 1)
        PROVE  (\A e \in 1..d : elements[Slot(e)] # None) <=> d <= Len(log)
    BY <1>1, <1>2, <1>3
  <1>5. Scanned = Recent(size - 1)
    BY <1>4 DEF Scanned, Recent
  <1> QED BY <1>1, <1>2, <1>5 DEF Recent

\* Every non-empty set of naturals has a least element.
LEMMA LeastNat ==
  ASSUME NEW T, T \subseteq Nat, T # {}
  PROVE  \E m \in T : \A k \in T : m <= k
  <1> DEFINE R == {ss \in Nat \X Nat : ss[1] < ss[2]}
  <1>1. IsWellFoundedOn(R, Nat)
    BY NatLessThanWellFounded DEF OpToRel
  <1>2. \E m \in T : \A k \in T : ~ (<<k, m>> \in R)
    <2> HIDE DEF R
    <2> QED BY <1>1, WFMin
  <1>3. PICK m \in T : \A k \in T : ~ (<<k, m>> \in R)
    BY <1>2
  <1>4. ASSUME NEW k \in T PROVE m <= k
    <2>1. k \in Nat /\ m \in Nat /\ <<k, m>> \in Nat \X Nat
      OBVIOUS
    <2>2. ~ (k < m)
      BY <1>3, <2>1
    <2> QED BY <2>1, <2>2
  <1> QED BY <1>4

\* The first match on the way back is the newest match in the past.
LEMMA FindIsNewest ==
  ASSUME IInv, size # 0, NEW k
  PROVE  Find(k) = Newest(k, size - 1)
  <1>1. size \in Nat
    BY DEF IInv, TypeOK
  <1> DEFINE First(d) == /\ elements[Slot(d)].key = k
                         /\ \A e \in 1..(d - 1) : elements[Slot(e)].key # k
             Last(d)  == /\ Past(d).key = k
                         /\ \A e \in 1..(d - 1) : Past(e).key # k
  <1>2. Scanned = Recent(size - 1) /\ \A d \in Scanned : elements[Slot(d)] = Past(d)
    BY ScanIsRecent
  <1>3. \A d \in Scanned : \A e \in 1..(d - 1) : e \in Scanned
    BY <1>1 DEF Scanned
  <1>4. \A d \in Scanned : First(d) <=> Last(d)
    BY <1>2, <1>3
  <1>5. (CHOOSE d \in Scanned : First(d)) = (CHOOSE d \in Recent(size - 1) : Last(d))
    BY <1>2, <1>4
  <1>6. ASSUME NEW d \in Scanned, elements[Slot(d)].key = k
        PROVE  \E e \in Scanned : First(e)
    <2> DEFINE Match == {e \in Scanned : elements[Slot(e)].key = k}
    <2>1. Match \subseteq Nat /\ Match # {}
      BY <1>1, <1>6 DEF Scanned
    <2>2. PICK e \in Match : \A f \in Match : e <= f
      BY <2>1, LeastNat
    <2>3. ASSUME NEW f \in 1..(e - 1) PROVE elements[Slot(f)].key # k
      <3>1. f \in Scanned /\ ~ (e <= f)
        BY <1>1, <1>3, <2>1, <2>2
      <3> QED BY <2>2, <3>1
    <2> QED BY <2>2, <2>3
  <1>7. CASE \E d \in Scanned : elements[Slot(d)].key = k
    <2> DEFINE c == CHOOSE d \in Scanned : First(d)
    <2>1. c \in Scanned /\ First(c)
      BY <1>6, <1>7
    <2>2. Find(k) = elements[Slot(c)].result
      BY <1>7 DEF Find
    <2>3. c = CHOOSE d \in Recent(size - 1) : Last(d)
      BY <1>5
    <2>4. Newest(k, size - 1) = Past(CHOOSE d \in Recent(size - 1) : Last(d)).result
      BY <1>2, <1>7 DEF Newest
    <2> HIDE DEF c
    <2> QED BY <1>2, <2>1, <2>2, <2>3, <2>4
  <1>8. CASE ~ \E d \in Scanned : elements[Slot(d)].key = k
    BY <1>2, <1>8 DEF Find, Newest
  <1> QED BY <1>7, <1>8

\* The cache is a memory of the last size - 1 results: it finds the newest
\* result of a key among them, and nothing else.
THEOREM CacheFindsRecent == Spec => []FindsRecent
  <1>1. IInv => FindsRecent
    BY FindIsNewest DEF FindsRecent
  <1> QED BY <1>1, Invariance, PTL

\* A match among the last n results is the newest one there is.
LEMMA NewestOfAll ==
  ASSUME IInv, NEW k, NEW n \in Nat, Newest(k, n) # None
  PROVE  Newest(k, n) = Newest(k, Len(log))
  <1> DEFINE Match    == {d \in Recent(n) : Past(d).key = k}
             Last(d) == /\ Past(d).key = k
                        /\ \A e \in 1..(d - 1) : Past(e).key # k
  <1>1. Len(log) \in Nat
    BY DEF IInv, TypeOK
  <1>2. Match \subseteq Nat /\ Match # {}
    BY DEF Newest, Recent
  <1>3. PICK c \in Match : \A d \in Match : c <= d
    BY <1>2, LeastNat
  <1>4. c \in 1..n /\ c <= Len(log) /\ c \in Recent(n) /\ c \in Recent(Len(log))
    BY <1>1, <1>3 DEF Recent
  <1>5. Last(c)
    <2>1. ASSUME NEW e \in 1..(c - 1), Past(e).key = k PROVE FALSE
      <3>1. e \in Match /\ ~ (c <= e)
        BY <1>1, <1>4, <2>1 DEF Recent
      <3> QED BY <1>3, <3>1
    <2> QED BY <1>3, <2>1
  <1>6. ASSUME NEW d \in Nat, d >= 1, Last(d) PROVE d = c
    <2>1. ~ (c < d) /\ ~ (d < c)
      BY <1>4, <1>5, <1>6
    <2> QED BY <1>4, <1>6, <2>1
  <1>7. ASSUME NEW m \in {n, Len(log)}
        PROVE  Newest(k, m) = Past(c).result
    <2>1. c \in Recent(m) /\ Past(c).key = k
      BY <1>4, <1>5, <1>7
    <2>2. \A d \in Recent(m) : Last(d) => d = c
      BY <1>1, <1>6, <1>7 DEF Recent
    <2>3. (CHOOSE d \in Recent(m) : Last(d)) = c
      BY <1>5, <2>1, <2>2
    <2> QED BY <2>1, <2>3 DEF Newest
  <1> QED BY <1>7

\* A result taken from the cache is the newest result there is for its key.
THEOREM HitsAreNewest == Spec => HitIsNewest
  <1>1. ASSUME IInv, NEW k \in Key, Hit(k)
        PROVE  answer'.result = Newest(k, Len(log))
    <2>1. size \in Nat /\ size # 0 /\ Find(k) # None /\ answer'.result = Find(k)
      BY <1>1 DEF Hit, IInv, TypeOK
    <2>2. Find(k) = Newest(k, size - 1)
      BY <1>1, <2>1, FindIsNewest
    <2>3. size - 1 \in Nat
      BY <2>1
    <2> QED BY <1>1, <2>1, <2>2, <2>3, NewestOfAll
  <1>2. IInv /\ [Next]_vars
          => [\A k \in Key : Hit(k) => answer'.result = Newest(k, Len(log))]_vars
    BY <1>1
  <1> QED BY <1>2, Invariance, PTL DEF Spec, HitIsNewest
===============================================================================
