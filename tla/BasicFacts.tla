------------------------------ MODULE BasicFacts ------------------------------
(***************************************************************************)
(* Facts that several proofs need: induction over the numbers, and         *)
(* sequences without the set their elements are from.                      *)
(***************************************************************************)
EXTENDS Integers, Sequences, FiniteSetTheorems, SequenceTheorems, TLAPS

\* A set with zero and the successors of its members has every number.
LEMMA SetInduction ==
  ASSUME NEW S, 0 \in S, \A n \in Nat : n \in S => n + 1 \in S
  PROVE  \A n \in Nat : n \in S
<1> DEFINE T == Nat \ S
           R == OpToRel(<, Nat)
<1> SUFFICES ASSUME T # {} PROVE FALSE
  OBVIOUS
<1>1. PICK n \in T : \A m \in T : ~ (<<m, n>> \in R)
  <2> HIDE DEF R
  <2>1. IsWellFoundedOn(R, Nat)
    BY NatLessThanWellFounded DEF R
  <2>2. T \subseteq Nat
    OBVIOUS
  <2> HIDE DEF T
  <2> QED BY <2>1, <2>2, WFMin
<1>2. n # 0 /\ n - 1 \in Nat /\ n - 1 < n
  OBVIOUS
<1>3. n - 1 \notin S
  BY <1>2
<1>4. <<n - 1, n>> \in R
  BY <1>2 DEF OpToRel
<1> QED BY <1>1, <1>2, <1>3, <1>4

-----------------------------------------------------------------------------

IsSeq(s) == Len(s) \in Nat /\ s = [i \in 1..Len(s) |-> s[i]]

LEMMA SeqFacts ==
  ASSUME NEW s, IsSeq(s)
  PROVE  \E S : s \in Seq(S)
<1>1. s \in [1..Len(s) -> {s[i] : i \in 1..Len(s)}]
  BY DEF IsSeq
<1>2. s \in Seq({s[i] : i \in 1..Len(s)})
  BY <1>1 DEF IsSeq
<1> QED BY <1>2

LEMMA NotEmptyFacts == ASSUME NEW s, IsSeq(s) PROVE s # << >> <=> Len(s) >= 1
<1>1. PICK S : s \in Seq(S)
  BY SeqFacts
<1> QED BY <1>1, EmptySeq

LEMMA SeqIs == ASSUME NEW S, NEW s \in Seq(S) PROVE IsSeq(s)
  BY DEF IsSeq

\* The operations on sequences.
LEMMA AppendFacts ==
  ASSUME NEW s, IsSeq(s), NEW e
  PROVE  /\ IsSeq(Append(s, e)) /\ Len(Append(s, e)) = Len(s) + 1
         /\ \A i \in 1..Len(s) : Append(s, e)[i] = s[i]
         /\ Append(s, e)[Len(s) + 1] = e
<1>1. PICK S : s \in Seq(S)
  BY SeqFacts
<1>2. s \in Seq(S \union {e}) /\ e \in S \union {e}
  BY <1>1
<1>3. Append(s, e) \in Seq(S \union {e})
  BY <1>2
<1>4. IsSeq(Append(s, e))
  BY <1>3, SeqIs
<1> QED BY <1>2, <1>4

\* All but the last element.
LEMMA PrefixFacts ==
  ASSUME NEW s, IsSeq(s), Len(s) >= 1
  PROVE  LET front == SubSeq(s, 1, Len(s) - 1)
         IN /\ IsSeq(front) /\ Len(front) = Len(s) - 1
            /\ \A i \in 1..(Len(s) - 1) : front[i] = s[i]
<1> DEFINE front == SubSeq(s, 1, Len(s) - 1)
<1>1. PICK S : s \in Seq(S)
  BY SeqFacts
<1>2. /\ front \in Seq(S) /\ Len(front) = Len(s) - 1
      /\ \A i \in 1..(Len(s) - 1) : front[i] = s[i]
  <2> DEFINE n == Len(s) - 1
  <2>1. 1 \in Int /\ n \in Nat /\ \A i \in 1..n : s[i] \in S
    BY <1>1
  <2>2. /\ SubSeq(s, 1, n) \in Seq(S)
        /\ Len(SubSeq(s, 1, n)) = IF 1 <= n THEN n - 1 + 1 ELSE 0
        /\ \A i \in 1..(n - 1 + 1) : SubSeq(s, 1, n)[i] = s[1 + i - 1]
    BY <2>1, SubSeqProperties
  <2>3. Len(s) \in Nat /\ n - 1 + 1 = n /\ (IF 1 <= n THEN n - 1 + 1 ELSE 0) = n
    <3>1. Len(s) \in Nat
      BY DEF IsSeq
    <3>2. ASSUME NEW k \in Nat PROVE k - 1 + 1 = k /\ (IF 1 <= k THEN k - 1 + 1 ELSE 0) = k
      OBVIOUS
    <3> HIDE DEF n
    <3> QED BY <2>1, <3>1, <3>2
  <2>4. front = SubSeq(s, 1, n)
    OBVIOUS
  <2> HIDE DEF n, front
  <2>5. \A i \in 1..n : SubSeq(s, 1, n)[i] = s[i]
    BY <2>1, <2>2, <2>3
  <2>6. front \in Seq(S) /\ Len(front) = n /\ \A i \in 1..n : front[i] = s[i]
    BY <2>2, <2>3, <2>4, <2>5
  <2> QED BY <2>6 DEF n
<1>3. IsSeq(front)
  BY <1>2, SeqIs
<1> QED BY <1>2, <1>3

\* The last element replaced.
LEMMA ReplaceLastFacts ==
  ASSUME NEW s, IsSeq(s), Len(s) >= 1, NEW e
  PROVE  LET t == [s EXCEPT ![Len(s)] = e]
         IN /\ IsSeq(t) /\ Len(t) = Len(s) /\ t[Len(s)] = e
            /\ \A i \in 1..(Len(s) - 1) : t[i] = s[i]
<1> DEFINE t == [s EXCEPT ![Len(s)] = e]
<1>1. PICK S : s \in Seq(S)
  BY SeqFacts
<1>2. s \in Seq(S \union {e})
  BY <1>1
<1>3. /\ t \in Seq(S \union {e}) /\ Len(t) = Len(s)
      /\ \A i \in 1..Len(s) : t[i] = IF i = Len(s) THEN e ELSE s[i]
  BY <1>2
<1>4. IsSeq(t)
  BY <1>3, SeqIs
<1> QED BY <1>3, <1>4

\* Two elements pushed.
LEMMA PushTwoFacts ==
  ASSUME NEW s, IsSeq(s), NEW d, NEW e
  PROVE  LET t == s \o <<d, e>>
         IN /\ IsSeq(t) /\ Len(t) = Len(s) + 2
            /\ \A i \in 1..Len(s) : t[i] = s[i]
            /\ t[Len(s) + 1] = d /\ t[Len(s) + 2] = e
<1> DEFINE t == s \o <<d, e>>
<1>1. PICK S : s \in Seq(S)
  BY SeqFacts
<1>2. s \in Seq(S \union {d, e}) /\ <<d, e>> \in Seq(S \union {d, e})
  BY <1>1
<1>3. t \in Seq(S \union {d, e})
  BY <1>2
<1>4. IsSeq(t)
  BY <1>3, SeqIs
<1> QED BY <1>1, <1>2, <1>4
===============================================================================
