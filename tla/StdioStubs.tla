----------------------------- MODULE StdioStubs -----------------------------
(***************************************************************************)
(* The contracts of stdio.c, fcntl.c, dirent.c and sys/socket.c in         *)
(* share/mopsa/stubs/c/libc, in the order of the files.                    *)
(***************************************************************************)
EXTENDS StubContracts

OpensStream(needs) == Stub(needs, {Doing("register stream", Ret(Object)), FailNull})

(* stdio.c: a buffer of a constant size that may be left out is required   *)
(* to be valid all the same (tmpnam, setbuf, ctermid, cuserid).            *)
FilesAndNames ==
  On({"remove"}, OkOrFail({Valid("path")})) @@
  On({"rename"}, OkOrFail({Valid("path"), Valid("path2")})) @@
  On({"renameat", "renameat2"},
     OkOrFail({Valid("path"), Valid("path2"), OpenOrCwd("fd"), OpenOrCwd("fd2")})) @@
  On({"tmpfile"}, OpensStream({})) @@
  On({"tmpnam"}, Stub({Valid("out")},
    {When({Given("out")}, Into({"out"}, Ret(Object))), When({Missing("out")}, Ret(Object)), Ret(Null)})) @@
  On({"tmpnam_r"}, Stub({Valid("out")}, {Into({"out"}, Ret(Object)), Ret(Null)})) @@
  On({"tempnam"}, Returns({}, Maybe))

OpeningAndClosing ==
  On({"fclose"}, Stub({In("stream")}, {Freeing("stream", Doing("free fd of stream", Ok)), Fail})) @@
  On({"fflush", "fflush_unlocked"}, Stub({},
    {When({Given("stream")}, Needing({In("stream")}, Ok)), When({Missing("stream")}, Ok), Fail})) @@
  On({"fcloseall"}, Returns({}, AnyInt)) @@
  On({"fopen"}, OpensStream({Valid("path"), Valid("string")})) @@
  On({"freopen"}, Stub({Valid("path"), Valid("string"), Alive("stream")}, {Ret(Object), FailNull})) @@
  On({"fdopen"}, Stub({Valid("string"), Open("fd")}, {Doing("register stream at", Ret(Object)), FailNull}))

Buffering ==
  On({"fmemopen"}, OpensStream({Valid("string"), ValidFor("buf", "n")})) @@
  On({"open_memstream"}, OpensStream({})) @@
  On({"setbuf"}, Returns({Alive("stream"), Valid("buf")}, Nothing)) @@
  On({"setbuffer"}, Returns({Alive("stream"), ValidFor("buf", "n")}, Nothing)) @@
  On({"setvbuf"}, Stub({Alive("stream"), ValidFor("buf", "n")}, {Ok, Err(NonZero)})) @@
  On({"setlinebuf"}, Returns({Alive("stream")}, Nothing)) @@
  On({"_mopsa_asprintf"}, Stub({}, {Into({"out"}, Ret(Count)), Ret(MinusOne)}))

Characters ==
  On({"fgetc", "getc", "getc_unlocked", "fgetc_unlocked", "fputc", "_IO_putc", "putc", "fputc_unlocked",
      "putc_unlocked"}, Returns({Alive("stream")}, Count \cup MinusOne)) @@
  On({"getchar", "getchar_unlocked", "putchar", "putchar_unlocked"}, Returns({}, Count \cup MinusOne)) @@
  On({"getw"}, Returns({Alive("stream")}, AnyInt)) @@
  On({"putw"}, Returns({Alive("stream")}, Zero \cup MinusOne))

(* getdelim allocates a line, or frees the one it was given ("mem") and    *)
(* allocates another.                                                      *)
Lines ==
  On({"fgets", "fgets_unlocked"}, Stub({Alive("stream"), NotNegative("k"), ValidFor("out", "k")},
    {UpTo("out", "k", Ret(Maybe))})) @@
  On({"gets"}, Stub({}, {Into({"out"}, Ret(Maybe))})) @@
  On({"getdelim", "getline"}, Stub({Alive("stream"), Valid("out"), Valid("out2"), ValidFor("mem", "n")},
    {When({Given("mem")}, Freeing("mem", Into({"out", "out2"}, Ret(Count)))),
     When({Missing("mem")}, Into({"out", "out2"}, Ret(Count))), Fail})) @@
  On({"fputs", "fputs_unlocked"}, RetOrFail({Alive("stream"), Valid("string")}, Count)) @@
  On({"puts"}, RetOrFail({Valid("string")}, Count)) @@
  On({"ungetc"}, Returns({Alive("stream")}, Count \cup MinusOne)) @@
  On({"fread", "fread_unlocked"}, Stub({Alive("stream"), ValidFor("out", "n")}, {UpTo("out", "n", Ret(Count))})) @@
  On({"fwrite", "fwrite_unlocked"}, Returns({Alive("stream"), ValidFor("buf", "n")}, Count))

Positions ==
  On({"fseek", "fseeko"}, OkOrFail({Alive("stream")})) @@
  On({"ftell", "ftello"}, RetOrFail({Alive("stream")}, Count)) @@
  On({"rewind", "clearerr", "clearerr_unlocked"}, Returns({Alive("stream")}, Nothing)) @@
  On({"feof", "ferror", "feof_unlocked", "ferror_unlocked"}, Returns({Alive("stream")}, AnyInt)) @@
  On({"fgetpos"}, FillsOrFail({Alive("stream")}, {"out"})) @@
  On({"fsetpos"}, OkOrFail({Alive("stream"), Valid("buf")}))

StreamsAndTerminals ==
  On({"perror"}, Returns({Valid("string")}, Nothing)) @@
  On({"fileno", "fileno_unlocked"}, Returns({Alive("stream")}, Descriptor)) @@
  On({"popen"}, OpensStream({Valid("path"), Valid("string")})) @@
  On({"pclose"}, Stub({In("stream")}, {Freeing("stream", Err(AnyInt))})) @@
  On({"ctermid", "cuserid"}, Stub({Valid("out")},
    {When({Given("out")}, Into({"out"}, Ret(Object))), When({Missing("out")}, Ret(Object))})) @@
  On({"flockfile", "funlockfile"}, Returns({Alive("stream")}, Nothing)) @@
  On({"ftrylockfile"}, Returns({Alive("stream")}, AnyInt)) @@
  On({"_wfopen"}, OpensStream({Valid("path"), Valid("string")}))

Formats ==
  On({"vfprintf", "vfscanf"}, Returns({Alive("stream"), Valid("string")}, AnyInt)) @@
  On({"vprintf", "vscanf"}, Returns({Valid("string")}, AnyInt)) @@
  On({"vsprintf"}, Returns({Valid("out"), Valid("string")}, AnyInt)) @@
  On({"vsnprintf"}, Stub({ValidFor("out", "n"), Valid("string")}, {UpTo("out", "n", Ret(AnyInt))})) @@
  On({"vasprintf"}, Stub({Valid("out"), Valid("string")}, {Into({"out"}, Ret(Count)), Ret(MinusOne)})) @@
  On({"vdprintf"}, Returns({Open("fd"), Valid("string")}, AnyInt)) @@
  On({"vsscanf"}, Returns({Valid("buf"), Valid("string")}, AnyInt))

(* fcntl.c                                                                 *)
Fcntl ==
  On({"fcntl", "posix_fadvise", "posix_fallocate"}, Returns({Open("fd")}, AnyInt)) @@
  On({"open", "creat"}, Stub({Valid("path")}, {Doing("register", Ret(Descriptor)), Fail})) @@
  On({"openat"}, Stub({Valid("path"), OpenOrCwd("fd")}, {Doing("register", Ret(Descriptor)), Fail}))

(* dirent.c: the descriptor of a directory is registered with the Dir, not *)
(* with a FileRes; getdirentries writes through __basep alone.             *)
Directories ==
  On({"opendir"}, Stub({Valid("path")}, {Doing("register dir", Ret(Object)), FailNull})) @@
  On({"fdopendir"}, Stub({Open("fd")}, {Doing("dir at", Ret(Object)), FailNull})) @@
  On({"closedir"}, Stub({In("dir")}, {Freeing("dir", Ok), Fail})) @@
  On({"readdir"}, Returns({Alive("dir")}, Maybe)) @@
  On({"rewinddir", "seekdir"}, Returns({Alive("dir")}, Nothing)) @@
  On({"telldir"}, RetOrFail({Alive("dir")}, Count)) @@
  On({"dirfd"}, Returns({Alive("dir")}, Descriptor)) @@
  On({"alphasort", "versionsort"}, Returns({Valid("buf"), Valid("buf2")}, AnyInt)) @@
  On({"getdirentries"}, Stub({Open("fd"), ValidFor("out", "n"), Valid("out2")}, {Into({"out2"}, Ret(AnyInt))}))

(* sys/socket.c                                                            *)
Sockets ==
  On({"socket"}, Stub({}, {Doing("register", Ret(Descriptor)), Fail})) @@
  On({"socketpair"}, Stub({}, {Doing("register two", Into({"out"}, Ok)), Fail})) @@
  On({"connect", "bind"}, OkOrFail({Open("fd"), ValidFor("buf", "n")})) @@
  On({"listen"}, Stub({Open("fd")}, {Err(Zero \cup MinusOne)})) @@
  On({"accept"}, Stub({Open("fd"), ValidIf("out2", "out")},
    {When({Given("out")}, Doing("register", UpTo("out", "n", Ret(Descriptor)))),
     When({Missing("out")}, Doing("register", Ret(Descriptor))), Fail})) @@
  On({"recv"}, FillsUpTo({Open("fd")}, "n", Count))

(* The cases of recvfrom follow those of recv; the length of an address is *)
(* read even when there is no address.                                     *)
SocketData ==
  LET Received == UpTo("out", "n", Err(Count \cup MinusOne)) IN
  On({"recvfrom"}, Stub({Open("fd"), ValidFor("out", "n"), Valid("out3"), ValidFor("out2", "n2")},
    {When({Given("out2")}, UpTo("out2", "n2", Into({"out3"}, Received))), When({Missing("out2")}, Received)})) @@
  On({"send"}, RetOrFail({Open("fd"), ValidFor("buf", "n")}, All)) @@
  On({"sendto"}, RetOrFail({Open("fd"), ValidFor("buf", "n"), ValidFor("buf2", "n2")}, All)) @@
  On({"getsockname", "getpeername"}, Stub({Open("fd"), ValidFor("out", "n"), Valid("out2")},
    {UpTo("out", "n", Into({"out2"}, Ok)), UpTo("out", "n", Into({"out2"}, Fail))})) @@
  On({"setsockopt"}, OkOrFail({Open("fd"), ValidFor("buf", "n")}))

SocketOptions ==
  On({"getsockopt"}, Stub({Open("fd"), ValidFor("out", "n"), Valid("out2")},
    {When({Given("out")}, UpTo("out", "n", Into({"out2"}, Ok))), When({Missing("out")}, Ok), Fail})) @@
  On({"shutdown"}, OkOrFail({Open("fd")}))

Stdio == FilesAndNames @@ OpeningAndClosing @@ Buffering @@ Characters @@ Lines @@ Positions @@
  StreamsAndTerminals @@ Formats @@ Fcntl @@ Directories @@ Sockets @@ SocketData @@ SocketOptions
=============================================================================
