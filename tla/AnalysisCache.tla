----------------------------- MODULE AnalysisCache -----------------------------
(***************************************************************************)
(* The cache of post-conditions and of evaluations                         *)
(* (framework/core/cache.ml), which every statement and every expression   *)
(* of the analyzed program goes through.                                   *)
(*                                                                         *)
(* The cache is a ring of the last results.  The transfer function of a    *)
(* statement runs between the failed lookup and the addition of its        *)
(* result, and runs other statements through the same cache: calls are     *)
(* nested, and an exception abandons some of them.  A key stands for the   *)
(* route, the statement and the physical addresses of the token map and of *)
(* the report; the result of the n-th computation is n.                    *)
(***************************************************************************)
EXTENDS Naturals, Sequences

CONSTANTS
    Key,
    None,       \* an empty slot of the ring, and the absence of a result
    Sizes,      \* the values of -cache
    MaxDepth,   \* bound on the nesting of calls
    MaxResults  \* bound on the number of results computed

ASSUME CacheAssumption ==
    /\ Sizes \subseteq Nat
    /\ MaxDepth \in Nat /\ MaxResults \in Nat
    /\ None \notin [key : Key, result : Nat]

Entry == [key : Key, result : Nat]

VARIABLES
    size,      \* size of the ring; 0, no cache
    elements,  \* the ring
    next,      \* the slot of the next addition
    calls,     \* the keys under computation, innermost last
    log,       \* history: every entry added, oldest first
    answer     \* the last answer: [key, result, hit]

vars == <<size, elements, next, calls, log, answer>>

Init ==
    /\ size \in Sizes
    /\ elements = [i \in 0..(size - 1) |-> None]
    /\ next = 0
    /\ calls = << >> /\ log = << >>
    /\ answer = None

-----------------------------------------------------------------------------

\* Fault: the ring is gone round the other way.
SlotForward(d) == (next + d) % size

\* The slot d places before next, going round the ring: prev.
Slot(d) == IF d <= next THEN next - d ELSE next + size - d

\* The entries find looks at: back from next, up to an empty slot, and never
\* the slot next itself.
Scanned == {d \in 1..(size - 1) : \A e \in 1..d : elements[Slot(e)] # None}

\* Fault: the scan takes the oldest entry of the key.
FindOldest(k) ==
    IF \E d \in Scanned : elements[Slot(d)].key = k
    THEN elements[Slot(CHOOSE d \in Scanned :
                         /\ elements[Slot(d)].key = k
                         /\ \A e \in Scanned : e > d => elements[Slot(e)].key # k)].result
    ELSE None

\* The first entry of the key on the way back.
Find(k) ==
    IF \E d \in Scanned : elements[Slot(d)].key = k
    THEN elements[Slot(CHOOSE d \in Scanned :
                         /\ elements[Slot(d)].key = k
                         /\ \A e \in 1..(d - 1) : elements[Slot(e)].key # k)].result
    ELSE None

\* Fault: the ring wraps one slot too early.
AddShort(entry) ==
    /\ elements' = [elements EXCEPT ![next] = entry]
    /\ next' = IF next + 2 >= size THEN 0 ELSE next + 1

\* Fault: the ring does not wrap.
AddNoWrap(entry) ==
    /\ elements' = [elements EXCEPT ![next] = entry]
    /\ next' = next + 1

Add(entry) ==
    /\ elements' = [elements EXCEPT ![next] = entry]
    /\ next' = (next + 1) % size

Hit(k) ==
    /\ size # 0 /\ Find(k) # None
    /\ answer' = [key |-> k, result |-> Find(k), hit |-> TRUE]
    /\ UNCHANGED <<size, elements, next, calls, log>>

Miss(k) ==
    /\ size # 0 => Find(k) = None
    /\ Len(calls) < MaxDepth
    /\ calls' = Append(calls, k)
    /\ UNCHANGED <<size, elements, next, log, answer>>

\* The transfer function returns.
Compute ==
    /\ calls # << >> /\ Len(log) < MaxResults
    /\ LET entry == [key |-> calls[Len(calls)], result |-> Len(log) + 1]
       IN /\ IF size = 0 THEN UNCHANGED <<elements, next>> ELSE Add(entry)
          /\ log' = Append(log, entry)
          /\ answer' = [key |-> entry.key, result |-> entry.result, hit |-> FALSE]
    /\ calls' = SubSeq(calls, 1, Len(calls) - 1)
    /\ UNCHANGED size

\* An exception is caught below some of the calls.
Raise ==
    /\ \E n \in 0..(Len(calls) - 1) : calls' = SubSeq(calls, 1, n)
    /\ UNCHANGED <<size, elements, next, log, answer>>

Next == (\E k \in Key : Hit(k) \/ Miss(k)) \/ Compute \/ Raise

Spec == Init /\ [][Next]_vars

-----------------------------------------------------------------------------

TypeOK ==
    /\ size \in Nat
    /\ elements \in [0..(size - 1) -> Entry \union {None}]
    /\ next \in Nat /\ (size # 0 => next < size)
    /\ calls \in Seq(Key)
    /\ log \in Seq(Entry)

\* The entry added d additions ago.
Past(d) == log[Len(log) + 1 - d]

\* Going back round the ring is going back in time, for as long as the ring
\* remembers, whatever calls were nested or abandoned in between.
RingHoldsLog ==
    size # 0 => \A d \in 1..size :
        elements[Slot(d)] = IF d <= Len(log) THEN Past(d) ELSE None

\* What a bounded memory of the last n results would answer.
Recent(n) == {d \in 1..n : d <= Len(log)}
Newest(k, n) ==
    IF \E d \in Recent(n) : Past(d).key = k
    THEN Past(CHOOSE d \in Recent(n) :
                 /\ Past(d).key = k
                 /\ \A e \in 1..(d - 1) : Past(e).key # k).result
    ELSE None

\* The cache is a memory of the last size - 1 results: it finds the newest
\* result of a key among them, and nothing else.
FindsRecent == size # 0 => \A k \in Key : Find(k) = Newest(k, size - 1)

\* A result taken from the cache is the newest result there is for its key.
HitIsNewest ==
    [][\A k \in Key : Hit(k) => answer'.result = Newest(k, Len(log))]_vars
===============================================================================
