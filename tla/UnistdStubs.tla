---------------------------- MODULE UnistdStubs ----------------------------
(***************************************************************************)
(* The contracts of share/mopsa/stubs/c/libc/unistd.c, in the order of the *)
(* file.                                                                   *)
(***************************************************************************)
EXTENDS StubContracts

AccessAndTransfer ==
  On({"access", "euidaccess", "eaccess"}, OkOrFail({Valid("path")})) @@
  On({"faccessat"}, OkOrFail({Valid("path"), OpenOrCwd("fd")})) @@
  On({"lseek"}, RetOrFail({Open("fd")}, Count)) @@
  On({"close"}, Stub({Open("fd")}, {Doing("free fd", Ok), Fail})) @@
  On({"read", "pread"}, FillsUpTo({Open("fd")}, "n", Count)) @@
  On({"write", "pwrite"}, RetOrFail({Open("fd"), ValidFor("buf", "n")}, Count))

PipesAndWaits ==
  On({"pipe", "pipe2"}, Stub({}, {Needing({Valid("out")}, Doing("register two", Into({"out"}, Ok))), Fail})) @@
  On({"alarm"}, Returns({}, AnyInt)) @@
  On({"sleep"}, Returns({}, Count)) @@
  On({"ualarm"}, Stub({}, {Err(AnyInt)})) @@
  On({"usleep"}, OkOrFail({})) @@
  On({"pause"}, Stub({}, {Fail}))

(* A buffer that is given also has the case toosmall.                      *)
OwnersAndDirectories ==
  On({"chown", "lchown", "chdir"}, OkOrFail({Valid("path")})) @@
  On({"fchown", "fchdir"}, OkOrFail({Open("fd")})) @@
  On({"fchownat"}, OkOrFail({Valid("path"), OpenOrCwd("fd")})) @@
  On({"getcwd"}, Stub({ValidFor("out", "n")},
    {When({Given("out")}, UpTo("out", "n", Ret(Object))), When({Given("out")}, Ret(Null)),
     When({Missing("out")}, Ret(Object)), FailNull})) @@
  On({"get_current_dir_name"}, ObjectOrFail({})) @@
  On({"getwd"}, Stub({Valid("out")}, {Into({"out"}, Ret(Object)), FailNull}))

Dup ==
  On({"dup"}, Stub({Open("fd")}, {Doing("register old", Ret(Descriptor)), Fail})) @@
  On({"dup2", "dup3"}, Stub({Open("fd")},
    {When({Vacant("fd2")}, Doing("register at", Ret(Descriptor))),
     When({Taken("fd2")}, Ret(Descriptor)), Fail}))

(* execv has two cases that neither return nor fail; it and execvp need an *)
(* argument that is not NULL.                                              *)
Exec ==
  LET Never == Ret({}) IN
  On({"execve", "execvpe"}, Stub({Valid("path"), Valid("argv"), Valid("envp")}, {Never, Fail})) @@
  On({"fexecve"}, Stub({Open("fd"), Valid("argv"), Valid("envp")}, {Never, Fail})) @@
  On({"execv"}, Stub({Valid("path"), Valid("argv")}, {Ret(AnyInt), Never, Fail})) @@
  On({"execle", "execl", "execlp"}, Stub({Valid("path"), Valid("string")}, {Never, Fail})) @@
  On({"execvp"}, Stub({Valid("path"), Valid("argv")}, {Err(AnyInt)}))

Configuration ==
  On({"nice", "sysconf"}, RetOrFail({}, AnyInt)) @@
  On({"_exit"}, Returns({}, {})) @@
  On({"pathconf"}, RetOrFail({Valid("path")}, AnyInt)) @@
  On({"fpathconf"}, RetOrFail({Open("fd")}, AnyInt)) @@
  On({"confstr"}, Stub({ValidFor("out", "n")},
    {When({Given("out")}, Into({"out"}, Ret(Positive))), When({Missing("out")}, Ret(Positive)), Err(Zero)}))

Processes ==
  On({"getpid", "getppid", "getpgrp", "getuid", "geteuid", "getgid", "getegid"}, Returns({}, Count)) @@
  On({"__getpgid", "getpgid"}, Returns({NotNegative("k")}, Count)) @@
  On({"setpgid"}, OkOrFail({NotNegative("k"), NotNegative("k2")})) @@ On({"setpgrp"}, OkOrFail({})) @@
  On({"setsid"}, RetOrFail({}, Count)) @@ On({"getsid"}, RetOrFail({NotNegative("k")}, Count)) @@
  On({"getgroups"}, Stub({NotNegative("k")}, {When({Filled("k")}, UpTo("out", "k", Ret(Count))), Fail}))

Identities ==
  On({"group_member"}, Returns({}, AnyInt)) @@
  On({"setuid", "setreuid", "seteuid", "setgid", "setregid", "setegid"}, OkOrFail({}))

MoreIdentities ==
  On({"getresuid", "getresgid"}, FillsOrFail({}, {"out", "out2", "out3"})) @@
  On({"setresuid", "setresgid"}, OkOrFail({})) @@
  On({"fork", "vfork"}, RetOrFail({}, Count))

Terminals ==
  On({"ttyname"}, ObjectOrFail({Open("fd")})) @@
  On({"ttyname_r"}, Stub({Open("fd"), ValidFor("out", "n")}, {UpTo("out", "n", Ok), Err(NonZero)})) @@
  On({"isatty"}, Stub({Open("fd")}, {Ret(One), Err(Zero)})) @@
  On({"ttyslot"}, Returns({}, MinusOne \cup Count))

Links ==
  On({"link", "symlink"}, OkOrFail({Valid("path"), Valid("path2")})) @@
  On({"linkat"}, OkOrFail({Valid("path"), Valid("path2"), OpenOrCwd("fd"), OpenOrCwd("fd2")})) @@
  On({"readlink"}, FillsUpTo({Valid("path")}, "n", Count)) @@
  On({"symlinkat"}, OkOrFail({Valid("path"), Valid("path2"), OpenOrCwd("fd")})) @@
  On({"readlinkat"}, FillsUpTo({Valid("path"), OpenOrCwd("fd")}, "n", Count))

Names ==
  On({"unlink", "rmdir", "setlogin"}, OkOrFail({Valid("path")})) @@
  On({"unlinkat"}, OkOrFail({Valid("path"), OpenOrCwd("fd")})) @@
  On({"tcgetpgrp"}, RetOrFail({Open("fd")}, Count)) @@
  On({"tcsetpgrp"}, OkOrFail({Open("fd"), NotNegative("k")})) @@
  On({"getlogin"}, Returns({}, Object)) @@
  On({"getlogin_r"}, FillsUpTo({}, "n", Zero))

Hosts ==
  On({"gethostname", "getdomainname"}, FillsUpTo({}, "n", Zero)) @@
  On({"sethostname", "setdomainname"}, OkOrFail({ValidFor("buf", "n")})) @@
  On({"sethostid", "vhangup", "revoke", "daemon"}, OkOrFail({})) @@
  On({"profil"}, Stub({}, {Fail})) @@
  On({"acct"}, OkOrFail({Valid("path")})) @@
  On({"getusershell"}, Returns({}, Object)) @@
  On({"endusershell", "setusershell"}, Returns({}, Nothing))

Files ==
  On({"chroot", "truncate"}, OkOrFail({Valid("path")})) @@
  On({"getpass"}, ObjectOrFail({Valid("string")})) @@
  On({"fsync", "syncfs", "ftruncate"}, OkOrFail({Open("fd")})) @@
  On({"gethostid"}, Returns({}, AnyInt)) @@ On({"sync"}, Returns({}, Nothing)) @@
  On({"getpagesize", "getdtablesize"}, Returns({}, Positive))

(* copy_file_range assigns its two offsets in two cases, swab tells an odd *)
(* size from an even one.                                                  *)
LastCalls ==
  On({"brk", "syscall"}, Stub({}, {Err(AnyInt)})) @@ On({"sbrk"}, Stub({}, {Err(AnyInt \cup Maybe)})) @@
  On({"lockf", "fdatasync"}, OkOrFail({Open("fd")})) @@
  On({"copy_file_range"}, Stub({Open("fd"), Open("fd2"), OrNull("out"), OrNull("out2")},
    {When({Given("out")}, Into({"out"}, Ret(AnyInt))), When({Given("out2")}, Into({"out2"}, Ret(AnyInt))),
     Ret(Count), Fail})) @@
  On({"crypt"}, ObjectOrFail({Valid("string"), Valid("buf")})) @@
  On({"encrypt"}, Stub({Valid("out")}, {Into({"out"}, Err(Nothing))})) @@
  On({"swab"}, Stub({ValidFor("buf", "k"), ValidFor("out", "k")},
    {When({AtLeastZero("k")}, UpTo("out", "k", Ret(Nothing))), When({Filled("k")}, UpTo("out", "k", Ret(Nothing))),
     When({Negative("k")}, Ret(Nothing))})) @@
  On({"getentropy"}, FillsUpTo({}, "n", Zero))

Unistd ==
  AccessAndTransfer @@ PipesAndWaits @@ OwnersAndDirectories @@ Dup @@ Exec @@ Configuration @@
  Processes @@ Identities @@ MoreIdentities @@ Terminals @@ Links @@ Names @@ Hosts @@ Files @@ LastCalls
=============================================================================
