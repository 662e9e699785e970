-------------------------------- MODULE BuildDb --------------------------------
(***************************************************************************)
(* The build database under a parallel build.                              *)
(*                                                                         *)
(* mopsa-build puts a wrapper in front of the compiler, ar, mv...          *)
(* (parsers/c/bin/Build_wrapper.ml).  Each wrapper process locks the       *)
(* database file, reads it, updates it, truncates the file, writes it      *)
(* again, unlocks it, then replaces itself with the real tool              *)
(* (parsers/c/lib/db/mopsa_build_db.ml).  Other processes load the         *)
(* database to analyse the program.  make starts a command when those it   *)
(* depends on have finished.  A process may be killed at any time; the     *)
(* operating system then releases its lock.                                *)
(*                                                                         *)
(* What a command does to the database and to the file system is a         *)
(* parameter, given by DbOps.                                              *)
(***************************************************************************)
EXTENDS Naturals, FiniteSets

CONSTANTS
    Wrapper,          \* wrapper processes, one per command of the build
    Reader,           \* processes that only load the database
    EmptyDb,          \* the empty database
    Garbage,          \* what a half-written file holds
    Update(_, _, _),  \* Update(p, fs, db): f db args
    Tool(_, _),       \* Tool(p, fs): the real tool
    InitFs,           \* the file system before the build
    Deps(_),          \* the wrappers that make waits for before it starts p
    Agree(_, _),      \* Agree(db, fs): the database describes the files
    Free,             \* the lock has no holder
    MaxCrash          \* bound on the number of processes killed

ASSUME BuildDbAssumption ==
    /\ Wrapper \intersect Reader = {}
    /\ Free \notin Wrapper \union Reader
    /\ EmptyDb # Garbage
    /\ MaxCrash \in Nat

Proc == Wrapper \union Reader

VARIABLES
    pc,       \* progress of each process
    file,     \* the database file: [intact, db]; not intact, Marshal rejects it
    lock,     \* holder of the lockf lock
    mem,      \* the database each process holds in memory
    fs,       \* the files of the build
    crashes

vars == <<pc, file, lock, mem, fs, crashes>>

Holding == {"locked", "read", "truncated", "written"}
Running == Holding \union {"opened", "unlocked"}

Intact(d) == [intact |-> TRUE, db |-> d]
Torn == [intact |-> FALSE, db |-> Garbage]

\* An absent file and an empty one read as the empty database.
Init ==
    /\ pc = [p \in Proc |-> "start"]
    /\ file = Intact(EmptyDb)
    /\ lock = Free
    /\ mem = [p \in Proc |-> EmptyDb]
    /\ fs = InitFs
    /\ crashes = 0

Goto(p, label) == pc' = [pc EXCEPT ![p] = label]

Open(p) ==
    /\ pc[p] = "start"
    /\ \A d \in Deps(p) : pc[d] = "done"
    /\ Goto(p, "opened")
    /\ UNCHANGED <<file, lock, mem, fs, crashes>>

\* Fault: F_TLOCK, its error ignored: the process goes on without the lock.
LockNoWait(p) ==
    /\ pc[p] = "opened"
    /\ lock' = p
    /\ Goto(p, "locked")
    /\ UNCHANGED <<file, mem, fs, crashes>>

\* lockf d F_LOCK 0 waits for the lock.
Lock(p) ==
    /\ pc[p] = "opened" /\ lock = Free
    /\ lock' = p
    /\ Goto(p, "locked")
    /\ UNCHANGED <<file, mem, fs, crashes>>

\* Fault: the header of the file is not checked.
ReadUnchecked(p) ==
    /\ pc[p] = "locked"
    /\ mem' = [mem EXCEPT ![p] = file.db]
    /\ Goto(p, "read")
    /\ UNCHANGED <<file, lock, fs, crashes>>

Read(p) ==
    /\ pc[p] = "locked" /\ file.intact
    /\ mem' = [mem EXCEPT ![p] = file.db]
    /\ Goto(p, "read")
    /\ UNCHANGED <<file, lock, fs, crashes>>

\* Marshal raises: the process ends, and its lock with it.
ReadFails(p) ==
    /\ pc[p] = "locked" /\ ~file.intact
    /\ lock' = Free
    /\ Goto(p, "failed")
    /\ UNCHANGED <<file, mem, fs, crashes>>

\* Fault: the lock is released as soon as the update is computed.
UpdateUnlocked(p) ==
    /\ p \in Wrapper /\ pc[p] = "read"
    /\ mem' = [mem EXCEPT ![p] = Update(p, fs, mem[p])]
    /\ file' = Intact(EmptyDb)
    /\ lock' = Free
    /\ Goto(p, "truncated")
    /\ UNCHANGED <<fs, crashes>>

\* f db args, then ftruncate d 0.  The computation is local to the holder
\* of the lock, so nothing tells it from the truncation that follows.
UpdateTruncate(p) ==
    /\ p \in Wrapper /\ pc[p] = "read"
    /\ mem' = [mem EXCEPT ![p] = Update(p, fs, mem[p])]
    /\ file' = Intact(EmptyDb)
    /\ Goto(p, "truncated")
    /\ UNCHANGED <<lock, fs, crashes>>

\* The channel buffer overflows before the whole database went through it.
WritePart(p) ==
    /\ pc[p] = "truncated" /\ file.intact
    /\ file' = Torn
    /\ UNCHANGED <<pc, lock, mem, fs, crashes>>

\* Fault: the channel is not flushed.
WriteNoFlush(p) ==
    /\ pc[p] = "truncated"
    /\ file' \in {Torn, Intact(mem[p])}
    /\ Goto(p, "written")
    /\ UNCHANGED <<lock, mem, fs, crashes>>

WriteAll(p) ==
    /\ pc[p] = "truncated"
    /\ file' = Intact(mem[p])
    /\ Goto(p, "written")
    /\ UNCHANGED <<lock, mem, fs, crashes>>

\* Fault: no F_ULOCK, and the tool keeps the file open.
UnlockForgotten(p) ==
    /\ pc[p] = IF p \in Wrapper THEN "written" ELSE "read"
    /\ Goto(p, IF p \in Wrapper THEN "unlocked" ELSE "done")
    /\ UNCHANGED <<file, lock, mem, fs, crashes>>

\* close_db; a reader has nothing more to do.
Unlock(p) ==
    /\ pc[p] = IF p \in Wrapper THEN "written" ELSE "read"
    /\ lock' = Free
    /\ Goto(p, IF p \in Wrapper THEN "unlocked" ELSE "done")
    /\ UNCHANGED <<file, mem, fs, crashes>>

\* exec_unwrapped, up to the end of the tool.
RunTool(p) ==
    /\ pc[p] = "unlocked"
    /\ fs' = Tool(p, fs)
    /\ Goto(p, "done")
    /\ UNCHANGED <<file, lock, mem, crashes>>

Crash(p) ==
    /\ pc[p] \in Running /\ crashes < MaxCrash
    /\ lock' = IF lock = p THEN Free ELSE lock
    /\ crashes' = crashes + 1
    /\ Goto(p, "crashed")
    /\ UNCHANGED <<file, mem, fs>>

Step(p) ==
    \/ Open(p) \/ Lock(p) \/ Read(p) \/ ReadFails(p) \/ UpdateTruncate(p)
    \/ WritePart(p) \/ WriteAll(p) \/ Unlock(p) \/ RunTool(p)

Next == \E p \in Proc : Step(p) \/ Crash(p)

Spec == Init /\ [][Next]_vars

\* The scheduler runs every process that can run; nothing forces a crash.
FairSpec == Spec /\ \A p \in Proc : WF_vars(Step(p))

-----------------------------------------------------------------------------

\* Types; what a process holds is a database, never the debris of a write.
TypeOK ==
    /\ pc \in [Proc -> Running \union {"start", "done", "failed", "crashed"}]
    /\ file = Torn \/ (file = Intact(file.db) /\ file.db # Garbage)
    /\ lock \in Proc \union {Free}
    /\ DOMAIN mem = Proc /\ \A p \in Proc : mem[p] # Garbage
    /\ crashes \in 0..MaxCrash

\* The processes between lockf and the unlock are exactly the holder of the
\* lock: two wrappers never work on the same version of the file.
LockExclusive == \A p \in Proc : pc[p] \in Holding <=> lock = p

\* The file becomes unreadable only through a crash in the middle of a
\* write: otherwise no wrapper and no analysis fails to load it.
FailureNeedsCrash == (\E p \in Proc : pc[p] = "failed") => crashes > 0

Past(labels) == {p \in Wrapper : pc[p] \in labels}

\* The database once the update in progress, if any, is complete.
Committed ==
    IF Past({"truncated"}) # {} THEN Intact(mem[CHOOSE p \in Wrapper : pc[p] = "truncated"])
    ELSE file

\* No process, and no analysis in particular, reads a half-written file.
ReadsCommitted ==
    [][\A p \in Proc : pc[p] = "locked" /\ pc'[p] = "read" => Intact(mem'[p]) = Committed]_vars

\* Refinement: updates happen one after the other, in one step each, and
\* none is lost unless its wrapper is killed while it rewrites the file.
Abstract == INSTANCE AtomicDb WITH
    db      <- Committed,
    applied <- Past({"truncated", "written", "unlocked", "done"}),
    ran     <- Past({"done"}),
    dead    <- Past({"crashed", "failed"})

AbstractSpec == Abstract!Spec

\* A wrapper or its tool is at work: the database and the files differ.
Busy == \E p \in Wrapper : pc[p] \in {"truncated", "written", "unlocked"}

\* In whatever order a parallel build updates the database and runs the
\* tools, an analysis that loads it between two commands finds what the
\* files on disk are really made of.
DbFollowsBuild == crashes = 0 /\ ~Busy => Agree(Committed.db, fs)

\* The same build with nobody killed, each update and each tool in one step:
\* the commands that updated the database, those whose tool ran, and what
\* they left.
InitialBuild == [applied |-> {}, ran |-> {}, db |-> EmptyDb, fs |-> InitFs]

CanUpdate(b) == {p \in Wrapper \ b.applied : Deps(p) \intersect Wrapper \subseteq b.ran}
Updated(b, p) == [b EXCEPT !.applied = @ \union {p}, !.db = Update(p, b.fs, b.db)]
ToolEnded(b, p) == [b EXCEPT !.ran = @ \union {p}, !.fs = Tool(p, b.fs)]

\* The set builds holds everything such a build goes through, and between
\* two commands its database describes its files.
CommandsAgree(builds) ==
    /\ InitialBuild \in builds
    /\ \A b \in builds :
         /\ \A p \in CanUpdate(b) : Updated(b, p) \in builds
         /\ \A p \in b.applied \ b.ran : ToolEnded(b, p) \in builds
         /\ b.applied = b.ran => Agree(b.db, b.fs)

\* A process that has opened the file ends, whoever is killed meanwhile:
\* the lock is always handed on.
Ends(p) == pc[p] \in {"done", "failed", "crashed"}
StartedProcessesEnd == \A p \in Proc : pc[p] = "opened" ~> Ends(p)
===============================================================================
