------------------------------- MODULE MC_BuildDb -------------------------------
(***************************************************************************)
(* make -j on a build of seven commands, and an analysis that loads the    *)
(* database in the middle of it.  One command makes a directory, another   *)
(* moves a file there, a third removes a directory.                        *)
(***************************************************************************)
EXTENDS BuildDb, BuildTools

Sources == {"x.c", "y.c", "main.c"}
ObjectNames(name) == CASE name = "x.c" -> "x.o"
                       [] name = "y.c" -> "y.o"
                       [] name = "main.c" -> "main.o"

Root == <<"w">>
D(name) == Root \o <<name>>
A(name) == Root \o <<"a", name>>

Tree0 ==
    [files |-> [p \in {A("x.c"), A("y.c"), A("main.c")} |-> SourceFile],
     dirs  |-> {Root, D("a"), D("inst")}]

In(cwd, tool, mode, srcs, libs, out) ==
    [tool |-> tool, mode |-> mode, srcs |-> srcs, libs |-> libs, out |-> out, cwd |-> cwd]
Cmd(tool, mode, srcs, libs, out) == In(Root, tool, mode, srcs, libs, out)

Build == [
    ccx     |-> Cmd("cc", "compile", <<A("x.c")>>, << >>, A("x.o")),
    ccy     |-> In(D("a"), "cc", "compile", <<A("y.c")>>, << >>, << >>),
    archive |-> Cmd("ar", "add", <<A("x.o"), A("y.o")>>, << >>, D("lib.a")),
    link    |-> Cmd("cc", "link", <<A("main.c")>>, <<D("lib.a")>>, D("prog")),
    copy    |-> Cmd("cp", "recursive", <<D("a")>>, << >>, D("inst")),
    install |-> Cmd("mv", "plain", <<D("prog")>>, << >>, D("inst") \o <<"a">>),
    clean   |-> Cmd("rm", "recursive", <<D("a")>>, << >>, << >>)]

Wrappers == DOMAIN Build
Readers  == {"analysis"}

Dependencies(p) ==
    CASE p = "archive" -> {"ccx", "ccy"}
      [] p = "link"    -> {"archive"}
      [] p = "copy"    -> {"ccx", "ccy"}
      [] p = "install" -> {"link", "copy"}
      [] p = "clean"   -> {"link", "copy"}
      [] OTHER         -> {}

UpdateDb(p, files, db) == Wrap(db, files.dirs, Build[p])
RunBuild(p, files) == RunCommand(files, Build[p])

RECURSIVE Reached(_, _)
\* The builds one reaches from those of todo, with those seen before.
Reached(seen, todo) ==
    IF todo = {} THEN seen
    ELSE LET known == seen \union todo
             next  == UNION {{Updated(b, p) : p \in CanUpdate(b)}
                             \union {ToolEnded(b, p) : p \in b.applied \ b.ran} : b \in todo}
         IN Reached(known, next \ known)

\* One by one, the seven commands keep the database in step with the files.
ASSUME CommandsAssumption == CommandsAgree(Reached({}, {InitialBuild}))
===============================================================================
