-------------------------- MODULE FileDescriptors --------------------------
(***************************************************************************)
(* The abstract domain of file descriptors: the first descriptors are      *)
(* slots, the others a table from the addresses of resources to intervals. *)
(* An address is a number: the table is folded in the order of addresses.  *)
(***************************************************************************)
EXTENDS Integers, Sequences, FiniteSetsExt

window == 3
Slots == 0..(window - 1)

----------------------------------------------------------------------------
(* slot.ml.  Free is (TRUE, {}), NotFree a is (FALSE, a), MaybeFree a is   *)
(* (TRUE, a) and Bot is (FALSE, {}).                                       *)
Slot(free, taken) == [free |-> free, taken |-> taken]
Bot  == Slot(FALSE, {})
Free == Slot(TRUE, {})
NotFree(addrs) == Slot(FALSE, addrs)

SlotJoin(slots) == Slot(\E s \in slots : s.free, UNION {s.taken : s \in slots})

SlotAdd(addr, s) == IF s = Bot THEN Bot ELSE NotFree(s.taken \cup {addr})

(* insert: the slot with the address in it, and the slot when it is not    *)
(* free.                                                                   *)
InsertedHere(addr, s) == IF s.free THEN NotFree(s.taken \cup {addr}) ELSE Bot
NotInserted(s) == NotFree(s.taken)

\* Fault: the slot still cannot be free.
SlotRemoveNotFree(addr, s) == IF addr \in s.taken THEN Slot(s.taken = {addr}, s.taken \ {addr}) ELSE s
SlotRemove(addr, s) == IF addr \in s.taken THEN Slot(TRUE, s.taken \ {addr}) ELSE s

----------------------------------------------------------------------------
(* Intervals of integers.                                                  *)
Itv(lo, hi) == [lo |-> lo, hi |-> hi]
Const(n) == Itv(n, n)
IsEmpty(itv) == itv.lo > itv.hi
Singleton(itv) == itv.lo = itv.hi
Contains(itv, n) == itv.lo <= n /\ n <= itv.hi
Meets(i1, i2) == i1.lo <= i2.hi /\ i2.lo <= i1.hi
Hull(itvs) == Itv(Min({i.lo : i \in itvs}), Max({i.hi : i \in itvs}))

(* filter_neq, its first result: only a bound can be removed.              *)
Differing(itv, other) ==
  IF ~Singleton(other) THEN itv
  ELSE IF itv.lo = other.lo THEN Itv(itv.lo + 1, itv.hi)
  ELSE IF itv.hi = other.lo THEN Itv(itv.lo, itv.hi - 1)
  ELSE itv
MayDiffer(i1, i2) == ~IsEmpty(Differing(i1, i2))

----------------------------------------------------------------------------
(* table.ml.                                                               *)
EmptyTable == [map |-> <<>>, support |-> {}]
Keys(t) == DOMAIN t.map

\* Fault: the support of a join is the union of the supports.
TableJoinAllSupport(tables) ==
  [map |-> [a \in UNION {Keys(t) : t \in tables} |->
              Hull({t.map[a] : t \in {u \in tables : a \in Keys(u)}})],
   support |-> UNION {t.support : t \in tables}]
TableJoin(tables) ==
  [map |-> [a \in UNION {Keys(t) : t \in tables} |->
              Hull({t.map[a] : t \in {u \in tables : a \in Keys(u)}})],
   support |-> {a \in UNION {t.support : t \in tables} : \A t \in tables : a \in t.support}]

Bind(addr, itv, t) ==
  [map |-> [a \in Keys(t) \cup {addr} |-> IF a = addr THEN itv ELSE t.map[a]],
   support |-> t.support \cup {addr}]

\* Fault: the new descriptor is one of those allocated.
NewItvAtMost(t) ==
  IF Keys(t) = {} THEN Const(window) ELSE Itv(window, Max({t.map[a].hi : a \in Keys(t)}))
(* The sort of the code compares an interval with itself: the intervals of *)
(* the support are removed in the decreasing order of their addresses.     *)
NewItv(t) ==
  IF Keys(t) = {} THEN Const(window)
  ELSE LET itv0 == Itv(window, Max({t.map[a].hi : a \in Keys(t)}) + 1)
           top == Max(Keys(t))
           Refined[a \in 0..top] ==
             IF a = 0 THEN itv0
             ELSE LET addr == top + 1 - a IN
                  IF addr \in t.support \cap Keys(t) THEN Differing(Refined[a - 1], t.map[addr])
                  ELSE Refined[a - 1]
       IN  Refined[top]

TableInsertAt(addr, itv, t) ==
  Bind(addr, IF addr \in Keys(t) THEN Hull({itv, t.map[addr]}) ELSE itv, t)

TableRemove(addr, t) ==
  [map |-> [a \in Keys(t) \ {addr} |-> t.map[a]], support |-> t.support \ {addr}]

----------------------------------------------------------------------------
(* domain.ml.  A state with a slot that is Bot is bottom, and the flow     *)
(* loses it: a join is the join of the others.                             *)
State(first, others) == [first |-> first, others |-> others]
InitState == State([i \in Slots |-> Free], EmptyTable)
BottomState == State([i \in Slots |-> Bot], EmptyTable)
IsBottom(st) == \E i \in Slots : st.first[i] = Bot

Join(states) ==
  LET live == {st \in states : ~IsBottom(st)} IN
  IF live = {} THEN BottomState
  ELSE State([i \in Slots |-> SlotJoin({st.first[i] : st \in live})],
             TableJoin({st.others : st \in live}))

(* The addresses a state holds.                                            *)
Held(st) == Keys(st.others) \cup UNION {st.first[i].taken : i \in Slots}

Result(itv, st) == [itv |-> itv, st |-> st]

(* insert_addr_first: slots are tried in order until one that has no state *)
(* without the address.  The case of a slot takes the slots after it as    *)
(* they are when the address is in none of them.                           *)
InsertFirst(addr, st) ==
  LET certain == {i \in Slots : NotInserted(st.first[i]) = Bot}
      last == IF certain = {} THEN window ELSE Min(certain)
      rests == [i \in Slots |-> IF i <= last THEN NotInserted(st.first[i]) ELSE st.first[i]]
  IN  [cases |-> {Result(Const(i), State([rests EXCEPT ![i] = InsertedHere(addr, st.first[i])], st.others)) :
                    i \in {j \in Slots : j <= last /\ st.first[j].free}},
       rest |-> State(rests, st.others)]

InsertOthers(addr, st) ==
  LET itv == NewItv(st.others) IN
  IF IsEmpty(itv) THEN {} ELSE {Result(itv, State(st.first, Bind(addr, itv, st.others)))}

Insert(addr, st) ==
  LET first == InsertFirst(addr, st) IN
  {r \in first.cases : ~IsBottom(r.st)} \cup (IF IsBottom(first.rest) THEN {} ELSE InsertOthers(addr, first.rest))

(* insert_addr_at: one state for each slot the descriptor may be, and one  *)
(* for the table.                                                          *)
\* Fault: a descriptor beyond the window is not recorded.
InsertAtSlots(addr, itv, st) ==
  {State([st.first EXCEPT ![i] = SlotAdd(addr, @)], st.others) : i \in {j \in Slots : Contains(itv, j)}} \cup
  (IF itv.hi < window THEN {} ELSE {st})
InsertAt(addr, itv, st) ==
  {State([st.first EXCEPT ![i] = SlotAdd(addr, @)], st.others) : i \in {j \in Slots : Contains(itv, j)}} \cup
  (IF itv.hi < window THEN {}
   ELSE {State(st.first, TableInsertAt(addr, Itv(Max({itv.lo, window}), itv.hi), st.others))})

(* find_addr: the addresses a descriptor may be bound to, and NoAddr for   *)
(* NULL.  A slot that holds addresses answers alone for its number, even   *)
(* when it may be free.                                                    *)
NoAddr == 0
After(i, itv, st) ==
  IF st.first[i].taken = {} \/ IsEmpty(itv) THEN itv ELSE Differing(itv, Const(i))
FindAddr(itv, st) ==
  LET itv1 == After(0, itv, st)
      itv2 == After(1, itv1, st)
      rest == After(2, itv2, st)
      t == st.others
  IN  (UNION {st.first[i].taken : i \in {j \in Slots : Contains(itv, j)}}) \cup
      (IF IsEmpty(rest) THEN {}
       ELSE {a \in Keys(t) : Meets(rest, t.map[a])} \cup
            {a \in {NoAddr} : \A b \in Keys(t) : MayDiffer(rest, t.map[b])})

\* Fault: the table keeps the address.
RemoveSlots(addr, st) ==
  [st EXCEPT !.first = [i \in Slots |-> SlotRemove(addr, st.first[i])]]
Remove(addr, st) ==
  State([i \in Slots |-> SlotRemove(addr, st.first[i])], TableRemove(addr, st.others))
=============================================================================
