-------------------------- MODULE LibcDescriptors --------------------------
(***************************************************************************)
(* A program opens, duplicates and closes descriptors; the analyser        *)
(* follows it, call by call, with the contracts of the stubs and the       *)
(* domain of file descriptors.                                             *)
(*                                                                         *)
(* The kernel gives the smallest descriptor that is free.  A descriptor of *)
(* the kernel is labelled with the resource the contract creates for it,   *)
(* whose address is its call site.                                         *)
(***************************************************************************)
EXTENDS FileDescriptors

CONSTANTS
  Sites,              \* addresses of the calls that open something
  Variables,          \* variables of the program that hold descriptors
  Options,            \* values of -stub-ignore-case, sets of stubs that do not fail
  MaxCalls

VARIABLES
  owner,              \* the resource of each descriptor of the kernel, or NoAddr
  held,               \* what each variable holds, and its interval
  state,              \* the abstract state
  ignored,            \* the option of this analysis
  met,                \* the situations met so far that the domain does not handle
  calls

vars == <<owner, held, state, ignored, met, calls>>

Stubs == {"open", "pipe", "dup", "dup2", "fdopen", "close"}      \* those that may fail
Descriptors == 0..(window + 2 * MaxCalls)
StdStreams == 1..window
Resources == StdStreams \cup Sites
ASSUME SitesAssumption == Sites \subseteq Nat \ ({NoAddr} \cup StdStreams) /\ IsFiniteSet(Sites)
ASSUME MaxCallsAssumption == MaxCalls \in Nat

IsOpen(fd) == owner[fd] # NoAddr
Unused(own) == {fd \in Descriptors : own[fd] = NoAddr}
LowestFree(own) == Min(Unused(own))
Unset == [fd |-> -1, itv |-> Itv(-1, -1)]
Holding(fd, itv) == [fd |-> fd, itv |-> itv]

(* What a call may be given: the number of a standard stream or a variable *)
(* that holds a descriptor.                                                *)
Arguments == {Holding(i, Const(i)) : i \in Slots} \cup {held[v] : v \in {u \in Variables : held[u] # Unset}}
OpenArguments == {arg \in Arguments : IsOpen(arg.fd)}

(* The initialisation of stdio.c: three registrations in an empty state.   *)
Init ==
  /\ owner = [fd \in Descriptors |-> IF fd < window THEN fd + 1 ELSE NoAddr]
  /\ held = [v \in Variables |-> Unset]
  /\ \E r1 \in Insert(1, InitState) : \E r2 \in Insert(2, r1.st) : \E r3 \in Insert(3, r2.st) : state = r3.st
  /\ ignored \in Options
  /\ met = {}
  /\ calls = 0

----------------------------------------------------------------------------
(* The situations.  "shared": an address is registered that the state      *)
(* already holds, by dup or by a site that runs again, or a descriptor     *)
(* that dup2 opens takes the address of another.  "guessed": a slot        *)
(* that may be taken is tried while a later one may be free, in a state    *)
(* that the failure of the stub does not join, or while a later one is     *)
(* free.  "left": a stream is released and its descriptor kept.            *)
(* "ambiguous": a descriptor that is closed has several candidates.        *)
MayFail(stub) == stub \notin ignored
Unsure(s) == s.free /\ s # Free
Drops == \E i, j \in Slots : i < j /\ Unsure(state.first[i]) /\ state.first[j] = Free
Guesses == \E i, j \in Slots : i < j /\ Unsure(state.first[i]) /\ state.first[j].free
Kinds(holds, kind) == IF holds THEN {kind} ELSE {}
Shared(addrs) == Kinds(addrs \cap Held(state) # {}, "shared")
Guessed(joined) == Kinds(Drops \/ (Guesses /\ ~joined), "guessed")
Meet(kinds) == met' = met \cup kinds

(* The analysis of a call joins the state of its success with that of its  *)
(* failure, unless the failure is ignored.                                 *)
Analysed(stub, successes) ==
  state' = Join(successes \cup (IF MayFail(stub) THEN {state} ELSE {}))

Calling == calls < MaxCalls /\ ~IsBottom(state) /\ calls' = calls + 1 /\ UNCHANGED ignored
Fails(stub) == MayFail(stub) /\ UNCHANGED owner
Candidates(arg) == FindAddr(arg.itv, state) \ {NoAddr}

----------------------------------------------------------------------------
(* open, creat, socket, accept, fopen, popen, ...: "register" and          *)
(* "register stream".                                                      *)
Open(site, v) ==
  LET results == Insert(site, state)
      fd == LowestFree(owner)
  IN  /\ Calling
      /\ Analysed("open", {r.st : r \in results})
      /\ \/ /\ Unused(owner) # {}
            /\ owner' = [owner EXCEPT ![fd] = site]
            /\ held' = [held EXCEPT ![v] = Holding(fd, IF results = {} THEN Unset.itv ELSE Hull({r.itv : r \in results}))]
         \/ Fails("open") /\ held' = [held EXCEPT ![v] = Unset]
      /\ Meet(Guessed(MayFail("open")) \cup Shared({site}))

(* pipe, socketpair: "register two", the second in the join of the states  *)
(* of the first.                                                           *)
Pipe(s1, s2, v1, v2) ==
  LET results1 == Insert(s1, state)
      state1 == Join({r.st : r \in results1})
      results2 == Insert(s2, state1)
      fd1 == LowestFree(owner)
      owner1 == [owner EXCEPT ![fd1] = s1]
      fd2 == LowestFree(owner1)
  IN  /\ Calling /\ results1 # {} /\ results2 # {}
      /\ Analysed("pipe", {r.st : r \in results2})
      /\ \/ /\ Unused(owner) # {} /\ Unused(owner1) # {}
            /\ owner' = [owner1 EXCEPT ![fd2] = s2]
            /\ held' = [held EXCEPT ![v1] = Holding(fd1, Hull({r.itv : r \in results1})),
                                    ![v2] = Holding(fd2, Hull({r.itv : r \in results2}))]
         \/ Fails("pipe") /\ UNCHANGED held
      /\ Meet(Guessed(FALSE) \cup Shared({s1, s2}))

(* dup: "register old", the resource that was found and not the new one.   *)
Dup(arg, v) ==
  LET results == UNION {Insert(addr, state) : addr \in Candidates(arg)}
      fd == LowestFree(owner)
  IN  /\ Calling
      /\ Analysed("dup", {r.st : r \in results})
      /\ \/ /\ Unused(owner) # {}
            /\ owner' = [owner EXCEPT ![fd] = owner[arg.fd]]
            /\ held' = [held EXCEPT ![v] = Holding(fd, IF results = {} THEN Unset.itv ELSE Hull({r.itv : r \in results}))]
         \/ Fails("dup") /\ held' = [held EXCEPT ![v] = Unset]
      /\ Meet(Guessed(MayFail("dup")) \cup Shared(Candidates(arg)))

(* dup2: "register at" when the target was not found.                      *)
Dup2(arg, target, site) ==
  LET found == FindAddr(target.itv, state) IN
  /\ Calling
  /\ Candidates(arg) # {}
  /\ Analysed("dup2", (IF NoAddr \in found THEN InsertAt(site, target.itv, state) ELSE {}) \cup
                      (IF found = {NoAddr} THEN {} ELSE {state}))
  /\ \/ owner' = [owner EXCEPT ![target.fd] = IF @ = NoAddr THEN site ELSE @]
     \/ Fails("dup2")
  /\ UNCHANGED held
  /\ Meet(IF NoAddr \in found THEN Shared({site}) ELSE Kinds(~IsOpen(target.fd), "shared"))

(* fdopen: _alloc_FILE_at, "register stream at".                           *)
Fdopen(arg, site) ==
  /\ Calling
  /\ Candidates(arg) # {}
  /\ Analysed("fdopen", InsertAt(site, arg.itv, state))
  /\ UNCHANGED <<owner, held>>
  /\ Meet(Shared({site}))

(* close, fclose: "free fd".  POSIX leaves the descriptor open or closed   *)
(* when close fails.                                                       *)
Close(arg) ==
  /\ Calling
  /\ Candidates(arg) # {}
  /\ Analysed("close", {Remove(addr, state) : addr \in Candidates(arg)})
  /\ \/ owner' = [owner EXCEPT ![arg.fd] = NoAddr]
     \/ Fails("close")
  /\ UNCHANGED held
  /\ Meet(Kinds(Cardinality(Candidates(arg)) > 1, "ambiguous"))

(* pclose, closedir: the stream is freed and its descriptor is not.        *)
CloseStream(v) ==
  /\ Calling
  /\ held[v] # Unset /\ IsOpen(held[v].fd)
  /\ owner' = [owner EXCEPT ![held[v].fd] = NoAddr]
  /\ UNCHANGED <<held, state>>
  /\ Meet({"left"})

Next ==
  \/ \E site \in Sites, v \in Variables : Open(site, v)
  \/ \E s1, s2 \in Sites, v1, v2 \in Variables : s1 # s2 /\ v1 # v2 /\ Pipe(s1, s2, v1, v2)
  \/ \E arg \in OpenArguments, v \in Variables : Dup(arg, v)
  \/ \E arg \in OpenArguments, target \in Arguments, site \in Sites : Dup2(arg, target, site)
  \/ \E arg \in OpenArguments, site \in Sites : Fdopen(arg, site)
  \/ \E arg \in OpenArguments : Close(arg)
  \/ \E v \in Variables : CloseStream(v)

Spec == Init /\ [][Next]_vars

----------------------------------------------------------------------------
(* The domain is trusted until a situation it does not handle is met: with *)
(* every failure joined, only a guess between two slots.                   *)
Trusted ==
  /\ "guessed" \notin met
  /\ ignored = {} \/ met \cap {"shared", "left"} = {}

(* The descriptor a call returns is in the interval the analyser gives to  *)
(* its result: the branches the program takes on it are analysed.          *)
ReturnedCovered ==
  Trusted => \A v \in Variables : held[v] # Unset => Contains(held[v].itv, held[v].fd)

(* An open descriptor is always found by the calls that use it, and a      *)
(* closed one of the window is always a candidate for the next open.       *)
OpenFound ==
  Trusted => \A fd \in Descriptors : IsOpen(fd) => FindAddr(Const(fd), state) \ {NoAddr} # {}
ClosedFree ==
  Trusted => \A i \in Slots : ~IsOpen(i) => state.first[i].free

(* With failures ignored, the use of a descriptor after it was closed may  *)
(* find NULL, which the requirements of the stubs refuse.                  *)
ClosedRefused ==
  Trusted /\ "ambiguous" \notin met /\ ignored = Stubs =>
    \A fd \in Descriptors : ~IsOpen(fd) => NoAddr \in FindAddr(Const(fd), state)

(* The support of the table is what is certainly open: it is what shrinks  *)
(* the interval of the next descriptor.                                    *)
SupportOpen ==
  Trusted => \A a \in state.others.support :
    \E fd \in Descriptors : IsOpen(fd) /\ Contains(state.others.map[a], fd)

(* mopsa_libc_utils.h: a registration returns the smallest available file  *)
(* descriptor.                                                             *)
SmallestReturned == \A v \in Variables : held[v] # Unset => Contains(held[v].itv, held[v].fd)
=============================================================================
