----------------------------- MODULE BuildSequence -----------------------------
(***************************************************************************)
(* A sequential build: any sequence of commands that succeed.  Each one    *)
(* updates the database and then runs, as Build_wrapper.main does; the     *)
(* wrapper looks at the file system as the command finds it.               *)
(***************************************************************************)
EXTENDS BuildTools

CONSTANTS
    Command,        \* the command lines of the build
    InitialFiles,   \* the file system before the build
    MaxCommands     \* bound on the length of the build

VARIABLES
    db,   \* the build database
    fs,   \* the files of the build
    steps

vars == <<db, fs, steps>>

Init == db = EmptyDatabase /\ fs = InitialFiles /\ steps = 0

Main(cmd) ==
    /\ steps < MaxCommands /\ Legal(fs, cmd)
    /\ db' = Wrap(db, fs.dirs, cmd)
    /\ fs' = RunCommand(fs, cmd)
    /\ steps' = steps + 1

Next == \E cmd \in Command : Main(cmd)

Spec == Init /\ [][Next]_vars

-----------------------------------------------------------------------------

\* Whatever commands ran, the analysis of an executable or of a library is
\* given the sources that really make it up (get_file_sources).
DbDescribesBuild == Describes(db, fs)
===============================================================================
