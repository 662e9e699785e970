------------------------------ MODULE BuildTools ------------------------------
(***************************************************************************)
(* The tools that the wrappers of the build database stand in front of:    *)
(* gcc, ar, rm, mv, cp and ln.  None of them is part of the repository;    *)
(* this is their effect on a file system, as far as the commands the       *)
(* wrappers track go.  A file is described by the sources that really went *)
(* into it: contents maps each member of an archive to its sources; any    *)
(* other file has one anonymous member.                                    *)
(***************************************************************************)
EXTENDS DbOps

\* A file system: files, a function on paths, and dirs, a set of paths.
SourceFile == [kind |-> "source", contents |-> [m \in {""} |-> {}]]
Whole(kind, sources) == [kind |-> kind, contents |-> [m \in {""} |-> sources]]

Exists(fs, path) == path \in DOMAIN fs.files \union fs.dirs
SourcesOf(fs, path) ==
    IF fs.files[path].kind = "source" THEN {path} ELSE UNION Range(fs.files[path].contents)
AllSources(fs, paths) == UNION {SourcesOf(fs, paths[i]) : i \in DOMAIN paths}

SetFile(fs, path, file) == [fs EXCEPT !.files = Bind(fs.files, path, file)]

\* Without -o an object goes to the working directory, wherever its source is.
CompiledTo(cmd, src) ==
    IF cmd.out # << >> THEN cmd.out ELSE cmd.cwd \o <<ObjectName(Basename(src))>>

CompilerTool(fs, cmd) ==
    CASE cmd.mode = "nothing" -> fs
      [] cmd.mode = "compile" ->
           FoldLeft(LAMBDA g, s : SetFile(g, CompiledTo(cmd, s), Whole("object", {s})), fs, cmd.srcs)
      [] OTHER -> SetFile(fs, cmd.out, Whole("binary", AllSources(fs, cmd.srcs \o cmd.libs)))

Members(fs, archive) ==
    IF archive \in DOMAIN fs.files THEN fs.files[archive].contents ELSE << >>

ArchiverTool(fs, cmd) ==
    LET members == Members(fs, cmd.out)
        named   == {Basename(cmd.srcs[i]) : i \in DOMAIN cmd.srcs}
        taken   == IF cmd.srcs = << >> THEN DOMAIN members ELSE named \intersect DOMAIN members
        SetMembers(c) == SetFile(fs, cmd.out, [kind |-> "archive", contents |-> c])
    IN CASE cmd.mode = "add" ->
              SetMembers(FoldLeft(LAMBDA c, f : Bind(c, Basename(f), SourcesOf(fs, f)),
                                  members, cmd.srcs))
         [] cmd.mode = "delete" -> SetMembers(Restrict(members, DOMAIN members \ named))
         [] cmd.mode = "extract" ->
              FoldLeft(LAMBDA g, m : SetFile(g, cmd.cwd \o <<m>>, Whole("object", members[m])),
                       fs, SetToSeq(taken))

\* path and everything below it.
Tree(fs, path) == {p \in DOMAIN fs.files \union fs.dirs : IsPrefix(path, p)}

\* Where the files of the tree org go, for mv, cp and ln: into dest when it is
\* a directory, otherwise under the name dest.
Renamed(fs, org, dest, p) ==
    (IF dest \in fs.dirs THEN dest \o <<Basename(org)>> ELSE dest)
        \o SubSeq(p, Len(org) + 1, Len(p))

CopyTree(fs, org, dest, move) ==
    LET tree     == Tree(fs, org)
        To(p)    == Renamed(fs, org, dest, p)
        newFiles == [q \in {To(p) : p \in tree \intersect DOMAIN fs.files} |->
                        fs.files[CHOOSE p \in tree : To(p) = q]]
        gone     == IF move THEN tree ELSE {}
    IN [files |-> newFiles @@ Restrict(fs.files, DOMAIN fs.files \ gone),
        dirs  |-> (fs.dirs \ gone) \union {To(p) : p \in tree \intersect fs.dirs}]

FileTool(fs, cmd) ==
    FoldLeft(LAMBDA g, s :
               IF cmd.tool = "rm"
               THEN [files |-> Restrict(g.files, DOMAIN g.files \ Tree(g, s)),
                     dirs  |-> g.dirs \ Tree(g, s)]
               ELSE CopyTree(g, s, cmd.out, cmd.tool = "mv"),
             fs, cmd.srcs)

RunCommand(fs, cmd) ==
    CASE cmd.tool = "cc" -> CompilerTool(fs, cmd)
      [] cmd.tool = "ar" -> ArchiverTool(fs, cmd)
      [] OTHER           -> FileTool(fs, cmd)

-----------------------------------------------------------------------------
(***************************************************************************)
(* The commands that succeed.                                              *)
(***************************************************************************)
Kind(fs, path) == IF path \in DOMAIN fs.files THEN fs.files[path].kind ELSE "none"

CanWrite(fs, path) == Front(path) \in fs.dirs /\ path \notin fs.dirs

Legal(fs, cmd) ==
    /\ \A i \in DOMAIN cmd.srcs \ {j \in DOMAIN cmd.srcs : cmd.mode \in {"delete", "extract"}} :
          Exists(fs, cmd.srcs[i])
    /\ \A i \in DOMAIN cmd.libs : Kind(fs, cmd.libs[i]) \in {"archive", "binary"}
    /\ cmd.tool = "cc" =>
          /\ IF cmd.out # << >> THEN CanWrite(fs, cmd.out) ELSE cmd.cwd \in fs.dirs
          /\ \A i \in DOMAIN cmd.srcs : Kind(fs, cmd.srcs[i]) \in {"source", "object", "archive"}
    /\ cmd.tool = "ar" =>
          /\ Kind(fs, cmd.out) \in IF cmd.mode = "add" THEN {"none", "archive"} ELSE {"archive"}
          /\ CanWrite(fs, cmd.out) /\ cmd.cwd \in fs.dirs
          /\ \A i \in DOMAIN cmd.srcs :
                cmd.mode = "add" => Kind(fs, cmd.srcs[i]) = "object"
    /\ cmd.tool = "rm" /\ cmd.mode # "recursive" =>
          \A i \in DOMAIN cmd.srcs : cmd.srcs[i] \in DOMAIN fs.files
    /\ cmd.tool \in {"mv", "cp", "ln"} =>
          /\ Front(cmd.out) \in fs.dirs
          /\ Len(cmd.srcs) > 1 => cmd.out \in fs.dirs
          /\ \A i \in DOMAIN cmd.srcs :
                LET org == cmd.srcs[i]  new == Renamed(fs, org, cmd.out, org)
                IN /\ ~IsPrefix(org, new) /\ ~IsPrefix(new, org)
                   /\ IF org \in fs.dirs
                      THEN /\ cmd.tool = "cp" => cmd.mode = "recursive"
                           /\ new \notin DOMAIN fs.files
                           /\ cmd.tool \in {"mv", "ln"} => new \notin fs.dirs
                      ELSE new \notin fs.dirs

-----------------------------------------------------------------------------
\* What the database is for: it knows every file that was built, with the
\* sources that really make it up, and lists no executable or library that
\* is not there.
Built(fs) == {p \in DOMAIN fs.files : fs.files[p].kind # "source"}

Describes(db, fs) ==
    /\ \A p \in Built(fs) : p \in DOMAIN db /\ GetFileSources(db, p) = SourcesOf(fs, p)
    /\ \A p \in DOMAIN db : db[p][2].kind \in {"executable", "library"} => p \in Built(fs)
===============================================================================
