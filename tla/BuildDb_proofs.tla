----------------------------- MODULE BuildDb_proofs -----------------------------
(***************************************************************************)
(* Proofs about the build database under a parallel build, for any set of  *)
(* wrappers and readers, any dependencies between the commands, any        *)
(* effect of the commands and any number of crashes.                       *)
(***************************************************************************)
EXTENDS BuildDb, TLAPS

\* The effect of a command on a database is a database.
UpdateIsDatabase ==
    \A p, files, db : db # Garbage => Update(p, files, db) # Garbage

\* Only wrappers rewrite the file and chain to a tool.
OnlyWrappersWrite ==
    \A p \in Proc : pc[p] \in {"truncated", "written", "unlocked"} => p \in Wrapper

\* Between its read and its write, a process holds the current database.
HoldsCurrent == \A p \in Proc : pc[p] = "read" => file = Intact(mem[p])

\* While a wrapper rewrites the file, what is in the file is of no use.
TruncatedFile ==
    \A p \in Proc : pc[p] = "truncated" => file \in {Intact(EmptyDb), Torn}

\* An unreadable file is being written, or a crash left it so.
TornBecauseWriting ==
    ~file.intact => crashes > 0 \/ \E p \in Proc : pc[p] = "truncated"

\* The inductive invariant.
IInv ==
    /\ TypeOK /\ LockExclusive /\ OnlyWrappersWrite /\ HoldsCurrent
    /\ TruncatedFile /\ TornBecauseWriting /\ FailureNeedsCrash

-----------------------------------------------------------------------------

\* The invariant holds when the build starts.
LEMMA InitIInv == Init => IInv
  BY BuildDbAssumption
     DEF Init, IInv, TypeOK, LockExclusive, OnlyWrappersWrite, HoldsCurrent, TruncatedFile,
         TornBecauseWriting, FailureNeedsCrash, Intact, Torn, Holding, Running, Proc

\* No two processes hold the lock.
LEMMA OneHolder ==
  ASSUME LockExclusive, NEW p \in Proc, NEW q \in Proc, pc[p] \in Holding, pc[q] \in Holding
  PROVE  p = q
  BY DEF LockExclusive

\* Every step preserves the invariant.
LEMMA IInvStep ==
  ASSUME UpdateIsDatabase, IInv, [Next]_vars
  PROVE  IInv'
  <1> USE DEF Intact, Torn, Holding, Running, Goto
  <1>a. /\ Wrapper \subseteq Proc /\ Free \notin Proc
        /\ EmptyDb # Garbage /\ MaxCrash \in Nat
    BY BuildDbAssumption DEF Proc
  <1>b. /\ pc \in [Proc -> Running \union {"start", "done", "failed", "crashed"}]
        /\ DOMAIN mem = Proc /\ crashes \in 0..MaxCrash
    BY DEF IInv, TypeOK
  <1>c. \A p, q \in Proc : pc[p] \in Holding /\ pc[q] \in Holding => p = q
    BY OneHolder DEF IInv
  <1>1. CASE UNCHANGED vars
    BY <1>1 DEF vars, IInv, TypeOK, LockExclusive, OnlyWrappersWrite, HoldsCurrent,
                TruncatedFile, TornBecauseWriting, FailureNeedsCrash
  <1>2. ASSUME NEW p \in Proc, Step(p) \/ Crash(p)
        PROVE  IInv'
    <2>1. TypeOK'
      <3>1. CASE Open(p) \/ Lock(p) \/ WritePart(p) \/ Unlock(p) \/ RunTool(p)
                   \/ Crash(p) \/ ReadFails(p)
        BY <1>a, <1>b, <3>1 DEF IInv, TypeOK, Open, Lock, WritePart, Unlock, RunTool, Crash,
                                ReadFails
      <3>2. CASE Read(p)
        BY <1>a, <1>b, <3>2 DEF IInv, TypeOK, Read
      <3>3. CASE UpdateTruncate(p)
        BY <1>a, <1>b, <3>3 DEF IInv, TypeOK, UpdateTruncate, UpdateIsDatabase
      <3>4. CASE WriteAll(p)
        BY <1>a, <1>b, <3>4 DEF IInv, TypeOK, WriteAll
      <3> QED BY <1>2, <3>1, <3>2, <3>3, <3>4 DEF Step
    <2>2. LockExclusive'
      BY <1>2, <1>a, <1>b DEF Step, IInv, LockExclusive, Open, Lock, Read, ReadFails,
         UpdateTruncate, WritePart, WriteAll, Unlock, RunTool, Crash
    <2>3. OnlyWrappersWrite'
      BY <1>2, <1>a, <1>b DEF Step, IInv, OnlyWrappersWrite, Open, Lock, Read, ReadFails,
         UpdateTruncate, WritePart, WriteAll, Unlock, RunTool, Crash
    <2>4. HoldsCurrent'
      <3>1. CASE Open(p) \/ Lock(p) \/ Unlock(p) \/ RunTool(p) \/ Crash(p) \/ ReadFails(p)
        BY <1>a, <1>b, <3>1 DEF IInv, HoldsCurrent, Open, Lock, Unlock, RunTool, Crash, ReadFails
      <3>2. CASE Read(p)
        BY <1>a, <1>b, <1>c, <3>2 DEF IInv, TypeOK, HoldsCurrent, Read
      <3>3. CASE UpdateTruncate(p) \/ WritePart(p) \/ WriteAll(p)
        BY <1>a, <1>b, <1>c, <3>3 DEF IInv, HoldsCurrent, UpdateTruncate, WritePart, WriteAll
      <3> QED BY <1>2, <3>1, <3>2, <3>3 DEF Step
    <2>5. TruncatedFile'
      BY <1>2, <1>a, <1>b, <1>c DEF Step, IInv, TruncatedFile, Open, Lock, Read, ReadFails,
         UpdateTruncate, WritePart, WriteAll, Unlock, RunTool, Crash
    <2>6. TornBecauseWriting'
      BY <1>2, <1>a, <1>b, <1>c DEF Step, IInv, TornBecauseWriting, Open, Lock, Read, ReadFails,
         UpdateTruncate, WritePart, WriteAll, Unlock, RunTool, Crash
    <2>7. FailureNeedsCrash'
      <3>1. CASE ReadFails(p)
        BY <1>a, <1>b, <1>c, <3>1 DEF IInv, TornBecauseWriting, FailureNeedsCrash, ReadFails
      <3>2. CASE ~ReadFails(p)
        BY <1>2, <1>a, <1>b, <3>2 DEF Step, IInv, FailureNeedsCrash, Open, Lock, Read,
           UpdateTruncate, WritePart, WriteAll, Unlock, RunTool, Crash
      <3> QED BY <3>1, <3>2
    <2> QED BY <2>1, <2>2, <2>3, <2>4, <2>5, <2>6, <2>7 DEF IInv
  <1> QED BY <1>1, <1>2 DEF Next

\* The invariant holds in every reachable state.
LEMMA Invariance == ASSUME UpdateIsDatabase PROVE Spec => []IInv
  <1>1. IInv /\ [Next]_vars => IInv'
    BY IInvStep
  <1> QED BY InitIInv, <1>1, PTL DEF Spec

\* Every variable keeps its type, and no process ever takes the debris of a
\* half-written file for a database.
THEOREM TypeCorrect == ASSUME UpdateIsDatabase PROVE Spec => []TypeOK
  <1>1. IInv => TypeOK
    BY DEF IInv
  <1> QED BY <1>1, Invariance, PTL

\* The processes between lockf and the unlock are exactly the holder of the
\* lock.
THEOREM MutualExclusion == ASSUME UpdateIsDatabase PROVE Spec => []LockExclusive
  <1>1. IInv => LockExclusive
    BY DEF IInv
  <1> QED BY <1>1, Invariance, PTL

\* Without a crash no process ever fails to read the database.
THEOREM NoSpuriousFailure == ASSUME UpdateIsDatabase PROVE Spec => []FailureNeedsCrash
  <1>1. IInv => FailureNeedsCrash
    BY DEF IInv
  <1> QED BY <1>1, Invariance, PTL

-----------------------------------------------------------------------------

\* The committed database as a function of the state, so that one lemma
\* serves before and after a step.
CommittedOf(c, m, f) ==
    IF {p \in Wrapper : c[p] \in {"truncated"}} # {}
    THEN Intact(m[CHOOSE p \in Wrapper : c[p] = "truncated"]) ELSE f

\* A wrapper that rewrites the file has committed what it holds.
LEMMA CommittedByWriter ==
  ASSUME NEW c, NEW m, NEW f, NEW p \in Wrapper, c[p] = "truncated",
         \A q \in Wrapper : c[q] = "truncated" => q = p
  PROVE  CommittedOf(c, m, f) = Intact(m[p])
  BY DEF CommittedOf, Intact

\* When no wrapper rewrites the file, the file is the committed database.
LEMMA CommittedInFile ==
  ASSUME NEW c, NEW m, NEW f, \A q \in Wrapper : c[q] # "truncated"
  PROVE  CommittedOf(c, m, f) = f
  BY DEF CommittedOf

\* Committed and CommittedOf agree, before and after a step.
LEMMA CommittedAgree ==
  /\ Committed = CommittedOf(pc, mem, file)
  /\ Committed' = CommittedOf(pc', mem', file')
  BY DEF Committed, CommittedOf, Past, Intact

\* At most one wrapper rewrites the file, and only while it holds the lock.
LEMMA OneWriter ==
  ASSUME IInv, NEW p \in Proc, pc[p] \in Holding
  PROVE  \A q \in Wrapper : pc[q] = "truncated" => q = p
  BY OneHolder DEF IInv, Proc, Holding

\* A process that reads the file reads the committed database.
LEMMA ReadStep ==
  ASSUME IInv, NEW p \in Proc, Read(p)
  PROVE  Committed = file /\ Intact(mem'[p]) = Committed
  <1>1. \A q \in Wrapper : pc[q] # "truncated"
    BY OneWriter DEF Read, Holding
  <1>2. Committed = file
    BY <1>1, CommittedInFile, CommittedAgree
  <1> QED BY <1>2 DEF Read, IInv, TypeOK, Intact, Torn

\* No process, and no analysis in particular, reads a half-written file or a
\* version of the database that a wrapper is replacing.
THEOREM ReadersSeeCommitted == ASSUME UpdateIsDatabase PROVE Spec => ReadsCommitted
  <1>1. ASSUME IInv, [Next]_vars
        PROVE  [\A p \in Proc : pc[p] = "locked" /\ pc'[p] = "read"
                                   => Intact(mem'[p]) = Committed]_vars
    <2> SUFFICES ASSUME Next, NEW p \in Proc, pc[p] = "locked", pc'[p] = "read"
                 PROVE  Intact(mem'[p]) = Committed
      BY <1>1 DEF vars
    <2>1. Read(p)
      <3>1. PICK q \in Proc : Step(q) \/ Crash(q)
        BY DEF Next
      <3>2. pc \in [Proc -> Running \union {"start", "done", "failed", "crashed"}]
        BY <1>1 DEF IInv, TypeOK
      <3> QED BY <3>1, <3>2 DEF Step, Goto, Open, Lock, Read, ReadFails, UpdateTruncate,
                 WritePart, WriteAll, Unlock, RunTool, Crash
    <2> QED BY <1>1, <2>1, ReadStep
  <1> QED BY <1>1, Invariance, PTL DEF Spec, ReadsCommitted

-----------------------------------------------------------------------------
(***************************************************************************)
(* BuildDb implements AtomicDb.  A wrapper updates the abstract database   *)
(* when it truncates the file, because what it is about to write is        *)
(* settled then; its other steps change nothing, but the end of the tool,  *)
(* a failure and a crash.                                                  *)
(***************************************************************************)

\* Steps that change neither the committed database nor the files.
LEMMA SilentSteps ==
  ASSUME IInv, NEW p \in Proc,
         Open(p) \/ Lock(p) \/ Read(p) \/ WritePart(p) \/ WriteAll(p) \/ Unlock(p)
  PROVE  UNCHANGED Abstract!vars
  <1> USE DEF Goto
  <1>0. /\ pc \in [Proc -> Running \union {"start", "done", "failed", "crashed"}]
        /\ Wrapper \subseteq Proc /\ DOMAIN mem = Proc
    BY DEF IInv, TypeOK, Proc
  <1>1. /\ Past({"truncated", "written", "unlocked", "done"})' = Past({"truncated", "written", "unlocked", "done"})
        /\ Past({"done"})' = Past({"done"})
        /\ Past({"crashed", "failed"})' = Past({"crashed", "failed"})
        /\ fs' = fs
    BY <1>0 DEF Past, Open, Lock, Read, WritePart, WriteAll, Unlock
  <1>2. Committed' = Committed
    <2>1. CASE WritePart(p) \/ WriteAll(p)
      <3>1. p \in Wrapper /\ pc[p] = "truncated" /\ mem' = mem
        BY <2>1 DEF IInv, OnlyWrappersWrite, WritePart, WriteAll
      <3>2. \A q \in Wrapper : pc[q] = "truncated" => q = p
        BY <3>1, OneWriter DEF Holding
      <3>3. Committed = Intact(mem[p])
        BY <3>1, <3>2, CommittedByWriter, CommittedAgree
      <3>4. CASE WritePart(p)
        <4>1. pc' = pc
          BY <3>4 DEF WritePart
        <4>2. CommittedOf(pc', mem', file') = Intact(mem'[p])
          BY <3>1, <3>2, <4>1, CommittedByWriter
        <4> QED BY <3>1, <3>3, <4>2, CommittedAgree
      <3>5. CASE WriteAll(p)
        <4>1. \A q \in Wrapper : pc'[q] # "truncated"
          BY <1>0, <3>2, <3>5 DEF WriteAll
        <4>2. CommittedOf(pc', mem', file') = file'
          BY <4>1, CommittedInFile
        <4> QED BY <3>3, <3>5, <4>2, CommittedAgree DEF WriteAll
      <3> QED BY <2>1, <3>4, <3>5
    <2>2. CASE Open(p) \/ Lock(p) \/ Read(p) \/ Unlock(p)
      <3>1. \A q \in Wrapper : pc'[q] = "truncated" <=> pc[q] = "truncated"
        BY <1>0, <2>2 DEF Open, Lock, Read, Unlock
      <3>2. file' = file
        BY <2>2 DEF Open, Lock, Read, Unlock
      <3>3. CASE \E q \in Wrapper : pc[q] = "truncated"
        <4>1. PICK q \in Wrapper : pc[q] = "truncated"
          BY <3>3
        <4>2. \A r \in Wrapper : pc[r] = "truncated" => r = q
          BY <1>0, <4>1, OneWriter DEF Holding
        <4>3. mem'[q] = mem[q]
          BY <1>0, <2>2, <4>1 DEF Open, Lock, Read, Unlock
        <4>4. Committed = Intact(mem[q])
          BY <4>1, <4>2, CommittedByWriter, CommittedAgree
        <4>5. CommittedOf(pc', mem', file') = Intact(mem'[q])
          BY <3>1, <4>1, <4>2, CommittedByWriter
        <4> QED BY <4>3, <4>4, <4>5, CommittedAgree
      <3>4. CASE \A q \in Wrapper : pc[q] # "truncated"
        <4>1. Committed = file
          BY <3>4, CommittedInFile, CommittedAgree
        <4>2. CommittedOf(pc', mem', file') = file'
          BY <3>1, <3>4, CommittedInFile
        <4> QED BY <3>2, <4>1, <4>2, CommittedAgree
      <3> QED BY <3>3, <3>4
    <2> QED BY <2>1, <2>2
  <1> QED BY <1>1, <1>2 DEF Abstract!vars

\* The truncation is the abstract update.
LEMMA UpdateApplies ==
  ASSUME IInv, NEW p \in Proc, UpdateTruncate(p)
  PROVE  p \in Wrapper /\ Abstract!Apply(p)
  <1>0. /\ pc \in [Proc -> Running \union {"start", "done", "failed", "crashed"}]
        /\ Wrapper \subseteq Proc /\ DOMAIN mem = Proc
    BY DEF IInv, TypeOK, Proc
  <1>1. p \in Wrapper /\ pc[p] = "read" /\ fs' = fs
    BY DEF UpdateTruncate
  <1>2. \A q \in Wrapper : pc[q] = "truncated" => q = p
    BY <1>1, OneWriter DEF Holding
  <1>3. Committed = file /\ file = Intact(mem[p])
    <2>1. \A q \in Wrapper : pc[q] # "truncated"
      BY <1>1, <1>2
    <2> QED BY <1>1, <2>1, CommittedInFile, CommittedAgree DEF IInv, HoldsCurrent
  <1>4. Committed' = Intact(Update(p, fs, mem[p]))
    <2>1. pc' = [pc EXCEPT ![p] = "truncated"] /\ mem' = [mem EXCEPT ![p] = Update(p, fs, mem[p])]
      BY DEF UpdateTruncate, Goto
    <2>2. pc'[p] = "truncated" /\ \A q \in Wrapper : pc'[q] = "truncated" => q = p
      BY <1>0, <1>1, <1>2, <2>1
    <2>3. mem'[p] = Update(p, fs, mem[p])
      BY <1>0, <2>1
    <2> QED BY <1>1, <2>2, <2>3, CommittedByWriter, CommittedAgree
  <1>5. /\ Past({"truncated", "written", "unlocked", "done"})'
             = Past({"truncated", "written", "unlocked", "done"}) \union {p}
        /\ Past({"done"})' = Past({"done"})
        /\ Past({"crashed", "failed"})' = Past({"crashed", "failed"})
        /\ p \notin Past({"truncated", "written", "unlocked", "done"}) \union Past({"crashed", "failed"})
    BY <1>0, <1>1 DEF UpdateTruncate, Goto, Past
  <1>6. Committed.intact /\ Committed.db = mem[p]
    BY <1>3 DEF Intact
  <1>7. Committed' = Abstract!Intact(Update(p, fs, Committed.db))
    BY <1>4, <1>6 DEF Intact, Abstract!Intact
  <1> QED BY <1>1, <1>5, <1>6, <1>7 DEF Abstract!Apply

\* The end of the tool is the abstract run of the command.
LEMMA ToolRuns ==
  ASSUME IInv, NEW p \in Proc, RunTool(p)
  PROVE  p \in Wrapper /\ Abstract!Run(p)
  <1>0. /\ pc \in [Proc -> Running \union {"start", "done", "failed", "crashed"}]
        /\ Wrapper \subseteq Proc
    BY DEF IInv, TypeOK, Proc
  <1>1. p \in Wrapper
    BY DEF RunTool, IInv, OnlyWrappersWrite
  <1>2. \A q \in Wrapper : pc'[q] = "truncated" <=> pc[q] = "truncated"
    BY <1>0 DEF RunTool, Goto
  <1>3. mem' = mem /\ file' = file
    BY DEF RunTool
  <1>4. Committed' = Committed
    <2>1. CASE \A q \in Wrapper : pc[q] # "truncated"
      BY <1>2, <1>3, <2>1, CommittedInFile, CommittedAgree
    <2>2. ASSUME NEW q \in Wrapper, pc[q] = "truncated"
          PROVE  Committed' = Committed
      <3>1. \A r \in Wrapper : pc[r] = "truncated" => r = q
        BY <1>0, <2>2, OneWriter DEF Holding
      <3>2. CommittedOf(pc', mem', file') = Intact(mem'[q])
        BY <1>2, <2>2, <3>1, CommittedByWriter
      <3> QED BY <1>3, <2>2, <3>1, <3>2, CommittedByWriter, CommittedAgree
    <2> QED BY <2>1, <2>2
  <1>5. /\ p \in Past({"truncated", "written", "unlocked", "done"}) \ Past({"done"})
        /\ Past({"truncated", "written", "unlocked", "done"})' = Past({"truncated", "written", "unlocked", "done"})
        /\ Past({"done"})' = Past({"done"}) \union {p}
        /\ Past({"crashed", "failed"})' = Past({"crashed", "failed"})
    BY <1>0, <1>1 DEF RunTool, Goto, Past
  <1> QED BY <1>1, <1>4, <1>5 DEF Abstract!Run, RunTool

\* A wrapper that fails or is killed dies in the abstract specification too;
\* a reader that does leaves no trace.
LEMMA DeathIsSeen ==
  ASSUME IInv, NEW p \in Proc, ReadFails(p) \/ Crash(p)
  PROVE  IF p \in Wrapper THEN Abstract!Die(p) ELSE UNCHANGED Abstract!vars
  <1> USE DEF Goto
  <1>0. /\ pc \in [Proc -> Running \union {"start", "done", "failed", "crashed"}]
        /\ Wrapper \subseteq Proc
    BY DEF IInv, TypeOK, Proc
  <1>1. /\ pc[p] \in Running /\ pc'[p] \in {"failed", "crashed"}
        /\ \A q \in Wrapper \ {p} : pc'[q] = pc[q]
        /\ mem' = mem /\ file' = file /\ fs' = fs
    BY <1>0 DEF ReadFails, Crash, Running, Holding
  <1>2. /\ p \in Wrapper => p \notin Past({"done"}) \union Past({"crashed", "failed"})
        /\ Past({"truncated", "written", "unlocked", "done"})'
             = Past({"truncated", "written", "unlocked", "done"}) \ {p}
        /\ Past({"done"})' = Past({"done"})
        /\ Past({"crashed", "failed"})'
             = IF p \in Wrapper THEN Past({"crashed", "failed"}) \union {p}
               ELSE Past({"crashed", "failed"})
        /\ p \notin Wrapper => p \notin Past({"truncated", "written", "unlocked", "done"})
    BY <1>0, <1>1 DEF Past, Running, Holding
  <1>3. CASE p \in Wrapper /\ pc[p] = "truncated"
    <2>1. \A q \in Wrapper : pc[q] = "truncated" => q = p
      BY <1>3, OneWriter DEF Holding
    <2>2. \A q \in Wrapper : pc'[q] # "truncated"
      BY <1>1, <2>1
    <2>3. Committed' = file
      BY <1>1, <2>2, CommittedInFile, CommittedAgree
    <2>4. file \in {Intact(EmptyDb), Torn}
      BY <1>3 DEF IInv, TruncatedFile
    <2>5. p \in Past({"truncated", "written", "unlocked", "done"})
      BY <1>3 DEF Past
    <2> QED BY <1>1, <1>2, <1>3, <2>3, <2>4, <2>5 DEF Abstract!Die, Abstract!Intact, Intact, Torn
  <1>4. CASE ~(p \in Wrapper /\ pc[p] = "truncated")
    <2>1. \A q \in Wrapper : pc'[q] = "truncated" <=> pc[q] = "truncated"
      BY <1>0, <1>1, <1>4
    <2>2. Committed' = Committed
      <3>1. CASE \A q \in Wrapper : pc[q] # "truncated"
        BY <1>1, <2>1, <3>1, CommittedInFile, CommittedAgree
      <3>2. ASSUME NEW q \in Wrapper, pc[q] = "truncated"
            PROVE  Committed' = Committed
        <4>1. \A r \in Wrapper : pc[r] = "truncated" => r = q
          BY <1>0, <3>2, OneWriter DEF Holding
        <4>2. CommittedOf(pc', mem', file') = Intact(mem'[q])
          BY <2>1, <3>2, <4>1, CommittedByWriter
        <4> QED BY <1>1, <3>2, <4>1, <4>2, CommittedByWriter, CommittedAgree
      <3> QED BY <3>1, <3>2
    <2>3. CASE p \in Wrapper
      BY <1>1, <1>2, <2>2, <2>3 DEF Abstract!Die
    <2>4. CASE p \notin Wrapper
      BY <1>1, <1>2, <2>2, <2>4 DEF Abstract!vars
    <2> QED BY <2>3, <2>4
  <1> QED BY <1>3, <1>4

\* The wrapped commands update the database one after the other, each on what
\* the previous one left, before they run; an update is lost only with its
\* wrapper.
THEOREM Refinement == ASSUME UpdateIsDatabase PROVE Spec => AbstractSpec
  <1>1. Init => Abstract!Init
    <2> SUFFICES ASSUME Init PROVE Abstract!Init
      OBVIOUS
    <2>1. \A q \in Wrapper : pc[q] = "start"
      BY DEF Init, Proc
    <2>2. Committed = file
      BY <2>1, CommittedInFile, CommittedAgree
    <2> QED BY <2>1, <2>2 DEF Init, Past, Abstract!Init, Abstract!Intact, Intact
  <1>2. ASSUME IInv, [Next]_vars
        PROVE  [Abstract!Next]_Abstract!vars
    <2>1. CASE UNCHANGED vars
      BY <2>1 DEF vars, Abstract!vars, Committed, Past
    <2>2. ASSUME NEW p \in Proc, Step(p) \/ Crash(p)
          PROVE  [Abstract!Next]_Abstract!vars
      <3>1. CASE Open(p) \/ Lock(p) \/ Read(p) \/ WritePart(p) \/ WriteAll(p) \/ Unlock(p)
        BY <1>2, <3>1, SilentSteps
      <3>2. CASE UpdateTruncate(p)
        BY <1>2, <3>2, UpdateApplies DEF Abstract!Next
      <3>3. CASE RunTool(p)
        BY <1>2, <3>3, ToolRuns DEF Abstract!Next
      <3>4. CASE ReadFails(p) \/ Crash(p)
        BY <1>2, <3>4, DeathIsSeen DEF Abstract!Next
      <3> QED BY <2>2, <3>1, <3>2, <3>3, <3>4 DEF Step
    <2> QED BY <1>2, <2>1, <2>2 DEF Next
  <1> QED BY <1>1, <1>2, Invariance, PTL DEF Spec, AbstractSpec, Abstract!Spec

-----------------------------------------------------------------------------
(***************************************************************************)
(* Without a kill, a parallel build goes through what the same build would *)
(* if every update and every tool were a single step: what its commands    *)
(* guarantee one by one, they guarantee under the wrappers' protocol.      *)
(***************************************************************************)

\* The commands a wrapper waits for have ended when it opens the file.
DepsEnded ==
    \A p \in Wrapper : pc[p] # "start" => \A d \in Deps(p) \intersect Wrapper : pc[d] = "done"

\* Where the build is, seen one step at a time.
BuildNow ==
    [applied |-> Past({"truncated", "written", "unlocked", "done"}), ran |-> Past({"done"}),
     db |-> Committed.db, fs |-> fs]

\* The inductive invariant, on top of IInv.
FollowsInv(builds) == IInv /\ DepsEnded /\ (crashes = 0 => BuildNow \in builds)

\* A command that ended has ended for good.
LEMMA DepsEndedStep ==
  ASSUME IInv, DepsEnded, [Next]_vars
  PROVE  DepsEnded'
  <1>0. /\ pc \in [Proc -> Running \union {"start", "done", "failed", "crashed"}]
        /\ Wrapper \subseteq Proc
    BY DEF IInv, TypeOK, Proc
  <1>1. CASE UNCHANGED vars
    BY <1>1 DEF vars, DepsEnded
  <1>2. ASSUME NEW q \in Proc, Step(q) \/ Crash(q)
        PROVE  DepsEnded'
    <2> SUFFICES ASSUME NEW p \in Wrapper, pc'[p] # "start",
                        NEW d \in Deps(p) \intersect Wrapper
                 PROVE  pc'[d] = "done"
      BY DEF DepsEnded
    <2>0. p \in Proc /\ d \in Proc
      BY <1>0
    <2>1. pc[q] # "done" /\ \A r \in Proc \ {q} : pc'[r] = pc[r]
      BY <1>0, <1>2 DEF Step, Goto, Open, Lock, Read, ReadFails, UpdateTruncate, WritePart,
                 WriteAll, Unlock, RunTool, Crash, Running, Holding
    <2>2. CASE pc[p] = "start"
      <3>1. p = q /\ Open(p)
        BY <1>0, <1>2, <2>0, <2>1, <2>2
           DEF Step, Goto, Open, Lock, Read, ReadFails, UpdateTruncate, WritePart,
               WriteAll, Unlock, RunTool, Crash, Running, Holding
      <3>2. pc[d] = "done"
        BY <3>1 DEF Open
      <3> QED BY <2>0, <2>1, <3>2
    <2>3. CASE pc[p] # "start"
      <3>1. pc[d] = "done"
        BY <2>3 DEF DepsEnded
      <3> QED BY <2>0, <2>1, <3>1
    <2> QED BY <2>2, <2>3
  <1> QED BY <1>1, <1>2 DEF Next

\* An update takes the build where a single step would.
LEMMA UpdateFollows ==
  ASSUME NEW builds, CommandsAgree(builds), IInv, DepsEnded, BuildNow \in builds,
         NEW p \in Proc, UpdateTruncate(p)
  PROVE  BuildNow' \in builds
  <1>1. p \in Wrapper /\ Abstract!Apply(p)
    BY UpdateApplies
  <1>2. pc[p] = "read"
    BY DEF UpdateTruncate
  <1>3. \A d \in Deps(p) \intersect Wrapper : pc[d] = "done"
    BY <1>1, <1>2 DEF DepsEnded
  <1>4. p \in CanUpdate(BuildNow)
    <2>1. p \notin Past({"truncated", "written", "unlocked", "done"})
      BY <1>1 DEF Abstract!Apply
    <2>2. Deps(p) \intersect Wrapper \subseteq Past({"done"})
      BY <1>3 DEF Past
    <2> QED BY <1>1, <2>1, <2>2 DEF CanUpdate, BuildNow
  <1>5. Updated(BuildNow, p) \in builds
    BY <1>4 DEF CommandsAgree
  <1>6. BuildNow' = Updated(BuildNow, p)
    <2>1. Committed'.db = Update(p, fs, Committed.db)
      BY <1>1 DEF Abstract!Apply, Abstract!Intact
    <2>2. /\ Past({"truncated", "written", "unlocked", "done"})'
               = Past({"truncated", "written", "unlocked", "done"}) \union {p}
          /\ Past({"done"})' = Past({"done"}) /\ fs' = fs
      BY <1>1 DEF Abstract!Apply
    <2>3. BuildNow.fs = fs /\ BuildNow.db = Committed.db
      BY DEF BuildNow
    <2> DEFINE new == Update(p, fs, Committed.db)
    <2>4. Updated(BuildNow, p) = [BuildNow EXCEPT !.applied = @ \union {p}, !.db = new]
      BY <2>3, Zenon DEF Updated
    <2>5. Committed'.db = new
      BY <2>1
    <2> HIDE DEF new
    <2> QED BY <2>2, <2>4, <2>5 DEF BuildNow
  <1> QED BY <1>5, <1>6

\* So does the end of a tool.
LEMMA ToolFollows ==
  ASSUME NEW builds, CommandsAgree(builds), IInv, BuildNow \in builds,
         NEW p \in Proc, RunTool(p)
  PROVE  BuildNow' \in builds
  <1>1. p \in Wrapper /\ Abstract!Run(p)
    BY ToolRuns
  <1>2. p \in BuildNow.applied \ BuildNow.ran
    BY <1>1 DEF Abstract!Run, BuildNow
  <1>3. ToolEnded(BuildNow, p) \in builds
    BY <1>2 DEF CommandsAgree
  <1>4. BuildNow' = ToolEnded(BuildNow, p)
    <2>1. /\ Past({"truncated", "written", "unlocked", "done"})'
               = Past({"truncated", "written", "unlocked", "done"})
          /\ Past({"done"})' = Past({"done"}) \union {p}
          /\ fs' = Tool(p, fs) /\ Committed' = Committed
      BY <1>1 DEF Abstract!Run
    <2>2. BuildNow.fs = fs
      BY DEF BuildNow
    <2> DEFINE new == Tool(p, fs)
    <2>3. ToolEnded(BuildNow, p) = [BuildNow EXCEPT !.ran = @ \union {p}, !.fs = new]
      BY <2>2, Zenon DEF ToolEnded
    <2>4. fs' = new
      BY <2>1
    <2> HIDE DEF new
    <2> QED BY <2>1, <2>3, <2>4 DEF BuildNow
  <1> QED BY <1>3, <1>4

\* Every step keeps the build among those that go one step at a time.
LEMMA FollowsStep ==
  ASSUME UpdateIsDatabase, NEW builds, CommandsAgree(builds), FollowsInv(builds), [Next]_vars
  PROVE  FollowsInv(builds)'
  <1>1. IInv /\ DepsEnded /\ (crashes = 0 => BuildNow \in builds)
    BY DEF FollowsInv
  <1>2. IInv'
    BY <1>1, IInvStep
  <1>3. DepsEnded'
    BY <1>1, DepsEndedStep
  <1>4. ASSUME crashes' = 0
        PROVE  BuildNow' \in builds
    <2>1. CASE UNCHANGED vars
      <3>1. BuildNow' = BuildNow
        BY <2>1 DEF vars, BuildNow, Past, Committed
      <3> QED BY <1>1, <1>4, <2>1, <3>1 DEF vars
    <2>2. ASSUME NEW p \in Proc, Step(p) \/ Crash(p)
          PROVE  BuildNow' \in builds
      <3>0. /\ pc \in [Proc -> Running \union {"start", "done", "failed", "crashed"}]
            /\ crashes \in Nat
        BY <1>1, BuildDbAssumption DEF IInv, TypeOK
      <3>1. CASE Open(p) \/ Lock(p) \/ Read(p) \/ WritePart(p) \/ WriteAll(p) \/ Unlock(p)
        <4>1. UNCHANGED Abstract!vars
          BY <1>1, <3>1, SilentSteps
        <4>2. BuildNow' = BuildNow
          BY <4>1 DEF Abstract!vars, BuildNow
        <4>3. crashes = 0
          BY <1>4, <3>1 DEF Open, Lock, Read, WritePart, WriteAll, Unlock
        <4> QED BY <1>1, <4>2, <4>3
      <3>2. CASE UpdateTruncate(p)
        <4>1. crashes = 0
          BY <1>4, <3>2 DEF UpdateTruncate
        <4> QED BY <1>1, <3>2, <4>1, UpdateFollows
      <3>3. CASE RunTool(p)
        <4>1. crashes = 0
          BY <1>4, <3>3 DEF RunTool
        <4> QED BY <1>1, <3>3, <4>1, ToolFollows
      <3>4. CASE ReadFails(p)
        <4>1. pc'[p] = "failed"
          BY <3>0, <3>4 DEF ReadFails, Goto
        <4> QED BY <1>2, <1>4, <4>1 DEF IInv, FailureNeedsCrash
      <3>5. CASE Crash(p)
        BY <1>4, <3>0, <3>5 DEF Crash
      <3> QED BY <2>2, <3>1, <3>2, <3>3, <3>4, <3>5 DEF Step
    <2> QED BY <2>1, <2>2 DEF Next
  <1> QED BY <1>2, <1>3, <1>4 DEF FollowsInv

\* If the commands, run one by one, keep the database in step with the files,
\* so does every parallel build in which nobody is killed: an analysis that
\* loads the database between two commands finds what the files are made of.
THEOREM BuildIsFollowed ==
  ASSUME UpdateIsDatabase, NEW CONSTANT builds, CommandsAgree(builds)
  PROVE  Spec => []DbFollowsBuild
  <1>1. Init => FollowsInv(builds)
    <2> SUFFICES ASSUME Init PROVE FollowsInv(builds)
      OBVIOUS
    <2>1. IInv
      BY InitIInv
    <2>2. \A q \in Wrapper : pc[q] = "start"
      BY DEF Init, Proc
    <2>3. DepsEnded
      BY <2>2 DEF DepsEnded
    <2>4. Committed = file
      BY <2>2, CommittedInFile, CommittedAgree
    <2>5. BuildNow = InitialBuild
      BY <2>2, <2>4 DEF BuildNow, InitialBuild, Past, Init, Intact
    <2> QED BY <2>1, <2>3, <2>5 DEF FollowsInv, CommandsAgree
  <1>2. FollowsInv(builds) /\ [Next]_vars => FollowsInv(builds)'
    BY FollowsStep
  <1>3. FollowsInv(builds) => DbFollowsBuild
    <2> SUFFICES ASSUME FollowsInv(builds), crashes = 0, ~Busy
                 PROVE  Agree(Committed.db, fs)
      BY DEF DbFollowsBuild
    <2>1. BuildNow \in builds
      BY DEF FollowsInv
    <2>2. BuildNow.applied = BuildNow.ran
      BY DEF BuildNow, Past, Busy
    <2>3. Agree(BuildNow.db, BuildNow.fs)
      BY <2>1, <2>2 DEF CommandsAgree
    <2> QED BY <2>3 DEF BuildNow
  <1> QED BY <1>1, <1>2, <1>3, PTL DEF Spec
===============================================================================
