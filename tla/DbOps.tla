--------------------------------- MODULE DbOps ---------------------------------
(***************************************************************************)
(* What the wrapped commands do to the build database                      *)
(* (parsers/c/lib/db/mopsa_build_db.ml) and how Build_wrapper.ml turns a   *)
(* command line into these operations.  A database maps absolute paths to  *)
(* files; a path is the sequence of its components; a file is a pair       *)
(* <<path, kind>>, and an archive or an executable keeps copies of the     *)
(* files it was made from.  Command lines are taken after their parsing.   *)
(***************************************************************************)
EXTENDS Naturals, Sequences, SequencesExt, FiniteSets, Functions

CONSTANTS
    SourceName,     \* the names identify_file takes for sources
    ObjectName(_)   \* a source name with its extension replaced by .o

EmptyDatabase == << >>

Object(source)         == [kind |-> "object", source |-> source]
Library(contents)      == [kind |-> "library", contents |-> contents]
Executable(files)      == [kind |-> "executable", files |-> files]
UnknownFile(path)      == [kind |-> "unknown", path |-> path]

Basename(path) == Last(path)

\* f extended with, or overwritten by, one binding: StringMap.add.
Bind(f, k, v) == [x \in DOMAIN f \union {k} |-> IF x = k THEN v ELSE f[x]]

Lookup(db, path) == IF path \in DOMAIN db THEN db[path] ELSE <<path, UnknownFile(path)>>

\* get_files: the known files below a directory, or the file itself.
GetFiles(db, dirs, file, recur) ==
    IF recur /\ file \in dirs THEN {k \in DOMAIN db : IsStrictPrefix(file, k)}
    ELSE {file} \intersect DOMAIN db

RemoveFiles(db, dirs, recur, file) ==
    Restrict(db, DOMAIN db \ GetFiles(db, dirs, file, recur))

\* kdest: below dest when it is a directory, otherwise dest itself.
Target(dirs, org, dest, k) ==
    IF dest \in dirs THEN dest \o SubSeq(k, Len(org), Len(k)) ELSE dest

\* Fault: a moved file stays in the database under its old name as well.
CopyMoveKeeps(db, dirs, move, recur, org, dest) ==
    LET files == GetFiles(db, dirs, org, recur)
        new   == {Target(dirs, org, dest, k) : k \in files}
    IN [p \in DOMAIN db \union new |->
          IF p \in new THEN <<p, db[CHOOSE k \in files : Target(dirs, org, dest, k) = p][2]>>
          ELSE db[p]]

\* When several files get the same name, the last one added stays; CHOOSE
\* stands for the order of the map.
CopyMove(db, dirs, move, recur, org, dest) ==
    LET files == GetFiles(db, dirs, org, recur)
        new   == {Target(dirs, org, dest, k) : k \in files}
        kept  == IF move THEN DOMAIN db \ files ELSE DOMAIN db
    IN [p \in kept \union new |->
          IF p \in new THEN <<p, db[CHOOSE k \in files : Target(dirs, org, dest, k) = p][2]>>
          ELSE db[p]]

ArchiveContents(db, archive) ==
    IF archive \in DOMAIN db /\ db[archive][2].kind = "library"
    THEN db[archive][2].contents ELSE << >>

\* Members are indexed by their base name.
AddArchive(db, archive, files) ==
    LET contents == FoldLeft(LAMBDA c, f : Bind(c, Basename(f), Lookup(db, f)),
                             ArchiveContents(db, archive), files)
    IN Bind(db, archive, <<archive, Library(contents)>>)

IsArchive(db, archive) == archive \in DOMAIN db /\ db[archive][2].kind = "library"

RemoveArchive(db, archive, files) ==
    IF ~IsArchive(db, archive) THEN db
    ELSE LET contents == ArchiveContents(db, archive)
         IN Bind(db, archive, <<archive, Library(Restrict(contents,
                DOMAIN contents \ {Basename(files[i]) : i \in DOMAIN files}))>>)

ExtractArchive(db, archive, files) ==
    IF ~IsArchive(db, archive) THEN db
    ELSE LET contents == ArchiveContents(db, archive)
         IN FoldLeft(LAMBDA d, f : IF Basename(f) \in DOMAIN contents
                                   THEN Bind(d, f, <<f, contents[Basename(f)][2]>>) ELSE d,
                     db, files)

Compile(db, src, obj) == Bind(db, obj, <<obj, Object(src)>>)

Link(db, out, files) ==
    IF files = << >> THEN db
    ELSE Bind(db, out, <<out, Executable([i \in DOMAIN files |-> Lookup(db, files[i])])>>)

\* doit of get_file_sources: the sources of a file, through libraries.
RECURSIVE FileSources(_)
FileSources(file) ==
    LET k == file[2]
    IN CASE k.kind = "object"     -> {k.source}
         [] k.kind = "unknown"    -> {k.path}
         [] k.kind = "library"    -> UNION {FileSources(k.contents[m]) : m \in DOMAIN k.contents}
         [] k.kind = "executable" -> {}

GetFileSources(db, path) ==
    LET k == db[path][2]
    IN IF k.kind = "executable" THEN UNION {FileSources(k.files[i]) : i \in DOMAIN k.files}
       ELSE FileSources(db[path])

-----------------------------------------------------------------------------
(***************************************************************************)
(* Build_wrapper.ml.  A compiler command compiles each of its sources and  *)
(* then, unless it was asked only to compile, links the objects into an    *)
(* executable or gathers them into a shared library.                       *)
(***************************************************************************)
IsSource(path) == Basename(path) \in SourceName

ObjectOf(cmd, src) ==
    IF cmd.mode = "compile" /\ cmd.out # << >> THEN cmd.out
    ELSE Front(src) \o <<ObjectName(Basename(src))>>

\* objs is built in reverse; the libraries of -l come last.
Objects(cmd) ==
    Reverse([i \in DOMAIN cmd.srcs |->
               IF IsSource(cmd.srcs[i]) THEN ObjectOf(cmd, cmd.srcs[i]) ELSE cmd.srcs[i]])

WrapCompiler(db, cmd) ==
    LET compiled == FoldLeft(LAMBDA d, s : IF IsSource(s) THEN Compile(d, s, ObjectOf(cmd, s)) ELSE d,
                             db, cmd.srcs)
    IN CASE cmd.mode = "nothing" -> db
         [] cmd.mode = "compile" -> compiled
         [] cmd.mode = "link"    -> Link(compiled, cmd.out, Objects(cmd) \o cmd.libs)
         [] cmd.mode = "shared"  -> AddArchive(compiled, cmd.out, Objects(cmd))

WrapArchiver(db, cmd) ==
    CASE cmd.mode = "add"     -> AddArchive(db, cmd.out, cmd.srcs)
      [] cmd.mode = "delete"  -> RemoveArchive(db, cmd.out, cmd.srcs)
      [] cmd.mode = "extract" ->
           ExtractArchive(db, cmd.out,
               IF cmd.srcs # << >> THEN cmd.srcs
               ELSE SetToSeq({cmd.cwd \o <<m>> : m \in DOMAIN ArchiveContents(db, cmd.out)}))

\* rm takes every argument; mv, cp and ln take sources and a destination.
WrapFiles(db, dirs, cmd) ==
    FoldLeft(LAMBDA d, s :
               CASE cmd.tool = "rm" -> RemoveFiles(d, dirs, cmd.mode = "recursive", s)
                 [] cmd.tool = "mv" -> CopyMove(d, dirs, TRUE, TRUE, s, cmd.out)
                 [] cmd.tool = "cp" -> CopyMove(d, dirs, FALSE, cmd.mode = "recursive", s, cmd.out)
                 [] cmd.tool = "ln" -> CopyMove(d, dirs, FALSE, TRUE, s, cmd.out),
             db, cmd.srcs)

Wrap(db, dirs, cmd) ==
    CASE cmd.tool = "cc" -> WrapCompiler(db, cmd)
      [] cmd.tool = "ar" -> WrapArchiver(db, cmd)
      [] OTHER           -> WrapFiles(db, dirs, cmd)
===============================================================================
