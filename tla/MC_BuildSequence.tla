--------------------------- MODULE MC_BuildSequence ---------------------------
(***************************************************************************)
(* Two source directories, one place to install, and commands of each      *)
(* kind.  A source that is compiled without -o is in the working directory *)
(* (Build_wrapper.ml:381 puts its object there in any case).               *)
(***************************************************************************)
EXTENDS BuildSequence

Sources == {"x.c", "y.c", "main.c"}
ObjectNames(name) == CASE name = "x.c" -> "x.o" [] name = "y.c" -> "y.o"
                        [] name = "main.c" -> "main.o"

Root == <<"w">>
D(name) == Root \o <<name>>
A(name) == Root \o <<"a", name>>
B(name) == Root \o <<"b", name>>
I(name) == Root \o <<"inst", name>>

Tree0 ==
    [files |-> [p \in {A("x.c"), A("y.c"), A("main.c"), B("x.c")} |-> SourceFile],
     dirs  |-> {Root, D("a"), D("b"), D("inst")}]

In(cwd, tool, mode, srcs, libs, out) ==
    [tool |-> tool, mode |-> mode, srcs |-> srcs, libs |-> libs, out |-> out, cwd |-> cwd]
Cmd(tool, mode, srcs, libs, out) == In(D("b"), tool, mode, srcs, libs, out)

Compiling == {
    In(D("a"), "cc", "compile", <<A("x.c"), A("y.c")>>, << >>, << >>),
    Cmd("cc", "compile", <<B("x.c")>>, << >>, A("x.o")),
    Cmd("cc", "nothing", <<A("x.c")>>, << >>, A("x.o")),
    Cmd("cc", "link", <<A("x.o"), A("main.c")>>, <<D("lib.a")>>, D("prog")),
    Cmd("cc", "shared", <<A("x.o"), A("y.o")>>, << >>, D("lib.so")),
    Cmd("cc", "link", <<B("x.o")>>, << >>, I("prog"))}

Archiving == {
    Cmd("ar", "add", <<A("x.o"), A("y.o")>>, << >>, D("lib.a")),
    Cmd("ar", "delete", <<A("y.o")>>, << >>, D("lib.a")),
    Cmd("ar", "extract", << >>, << >>, D("lib.a")),
    Cmd("ar", "add", <<B("y.o")>>, << >>, D("lib.a")),
    Cmd("ar", "extract", <<B("y.o")>>, << >>, D("lib.a"))}

Moving == {
    Cmd("rm", "plain", <<A("x.o"), A("y.o")>>, << >>, << >>),
    Cmd("rm", "recursive", <<I("a")>>, << >>, << >>),
    Cmd("mv", "plain", <<D("prog"), D("lib.a")>>, << >>, D("inst")),
    Cmd("mv", "plain", <<B("y.o")>>, << >>, A("y.o")),
    Cmd("cp", "plain", <<A("x.o"), A("y.o")>>, << >>, D("b")),
    Cmd("cp", "recursive", <<D("a")>>, << >>, D("inst")),
    Cmd("ln", "plain", <<A("x.o")>>, << >>, A("y.o"))}

Regular == Compiling \union Archiving \union Moving
===============================================================================
