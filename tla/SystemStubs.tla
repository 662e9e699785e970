---------------------------- MODULE SystemStubs ----------------------------
(***************************************************************************)
(* The contracts of signal.c, time.c, netdb.c, termios.c, sched.c, utmp.c, *)
(* utmpx.c, grp.c, pwd.c and of sys/time.c, wait.c, resource.c, select.c   *)
(* and stat.c in share/mopsa/stubs/c/libc, in the order of the files.      *)
(***************************************************************************)
EXTENDS StubContracts

(* Two cases that differ only by whether an optional output is given.      *)
FillsIfGiven(p, c) == {When({Given(p)}, Into({p}, c)), When({Missing(p)}, c)}

(* signal.c                                                                *)
SignalSets ==
  On({"signal", "bsd_signal", "sysv_signal", "__sysv_signal"}, Stub({}, {Err(Null)})) @@
  On({"ssignal"}, Returns({}, Maybe \cup {"error"})) @@
  On({"kill", "killpg"}, OkOrFail({})) @@
  On({"raise", "gsignal", "sigblock", "sigsetmask", "siggetmask"}, Returns({}, AnyInt)) @@
  On({"psignal"}, Returns({Valid("string")}, Nothing)) @@
  On({"psiginfo"}, Returns({Valid("string"), Valid("buf")}, Nothing)) @@
  On({"sigpause"}, Stub({}, {Fail})) @@
  On({"sigemptyset", "sigfillset"}, FillsOrFail({Valid("out")}, {"out"}))

SignalMasks ==
  On({"sigaddset", "sigdelset"}, FillsOrFail({Valid("out")}, {"out"})) @@
  On({"sigismember", "sigisemptyset"}, RetOrFail({Valid("buf")}, Zero \cup One)) @@
  On({"sigandset", "sigorset"}, FillsOrFail({Valid("out"), Valid("buf"), Valid("buf2")}, {"out"})) @@
  On({"sigprocmask"}, Stub({OrNull("buf"), OrNull("out")}, FillsIfGiven("out", Ok) \cup {Fail})) @@
  On({"sigsuspend"}, Stub({Valid("buf")}, {Fail})) @@
  On({"sigaction"}, Stub({OrNull("buf"), OrNull("out")}, FillsIfGiven("out", Ok) \cup {Fail}))

SignalWaits ==
  On({"sigpending"}, FillsOrFail({Valid("out")}, {"out"})) @@
  On({"sigwait"}, ReturnsFilling({Valid("buf"), Valid("out")}, {"out"}, Count)) @@
  On({"sigwaitinfo"}, Stub({Valid("buf"), OrNull("out")}, FillsIfGiven("out", Ret(Count)) \cup {Fail})) @@
  On({"sigtimedwait"},
     Stub({Valid("buf"), OrNull("out"), Valid("buf2")}, FillsIfGiven("out", Ret(Count)) \cup {Fail})) @@
  On({"sigqueue", "siginterrupt"}, OkOrFail({})) @@
  On({"sigaltstack"}, Stub({OrNull("buf"), OrNull("out")}, FillsIfGiven("out", Ok) \cup {Fail}))

OldSignals ==
  On({"sigstack"}, Stub({OrNull("buf"), OrNull("out")}, FillsIfGiven("out", Ok) \cup {Fail})) @@
  On({"sighold", "sigrelse", "sigignore"}, RetOrFail({}, Zero \cup One)) @@
  On({"sigset"}, Returns({}, Null)) @@
  On({"pthread_sigmask"}, Stub({OrNull("buf"), OrNull("out")}, FillsIfGiven("out", Ok) \cup {Fail})) @@
  On({"pthread_kill"}, Returns({}, AnyInt))

(* time.c: the buffers of localtime, asctime and the time zone are global. *)
Dates ==
  LET Instant == Zero \cup MinusOne \cup {"1", "+"} IN
  On({"clock"}, Returns({}, Instant)) @@
  On({"time"}, Stub({OrNull("out")},
    {When({Missing("out")}, Err(Instant)), When({Given("out")}, Into({"out"}, Err(Instant)))})) @@
  On({"mktime"}, ReturnsFilling({Valid("out")}, {"out"}, Instant)) @@
  On({"strftime", "strftime_l"}, Stub({Valid("string"), ValidFor("out", "n")},
    {UpTo("out", "n", Ret(Count))})) @@
  On({"strptime", "strptime_l"}, ReturnsFilling({Valid("path"), Valid("string")}, {"out"}, Maybe)) @@
  On({"gmtime", "localtime"}, Returns({Valid("buf")}, Maybe)) @@
  On({"gmtime_r"}, ReturnsFilling({Valid("buf"), Valid("out")}, {"out"}, Object))

Clocks ==
  On({"localtime_r", "asctime_r", "ctime_r"}, ReturnsFilling({Valid("buf"), Valid("out")}, {"out"}, Object)) @@
  On({"asctime", "ctime"}, Returns({Valid("buf")}, Object)) @@
  On({"tzset"}, Returns({}, Nothing)) @@
  On({"stime", "timegm", "timelocal"}, OkOrFail({Valid("buf")})) @@
  On({"nanosleep"}, Stub({Valid("buf"), OrNull("out")}, FillsIfGiven("out", Fail) \cup {Ok})) @@
  On({"clock_getres"}, Stub({OrNull("out")}, FillsIfGiven("out", Ok) \cup {Fail}))

Timers ==
  On({"clock_gettime"}, Stub({OrNull("out")}, FillsIfGiven("out", Ok) \cup {Fail})) @@
  On({"clock_settime"}, OkOrFail({Valid("buf")})) @@
  On({"clock_nanosleep"}, Stub({Valid("buf"), OrNull("out")}, FillsIfGiven("out", Fail) \cup {Ok})) @@
  On({"clock_getcpuclockid"}, ReturnsFilling({Valid("out")}, {"out"}, AnyInt)) @@
  On({"timer_create"}, FillsOrFail({OrNull("buf"), Valid("out")}, {"out"})) @@
  On({"timer_delete"}, Stub({In("timer")}, {Freeing("timer", Ok), Freeing("timer", Fail)})) @@
  On({"timer_settime"},
     Stub({Alive("timer"), Valid("buf"), OrNull("out")}, FillsIfGiven("out", Ok) \cup {Fail}))

TimersAndDates ==
  On({"timer_gettime"}, FillsOrFail({Alive("timer"), Valid("out")}, {"out"})) @@
  On({"timer_getoverrun"}, RetOrFail({Alive("timer")}, Count)) @@
  On({"timespec_get"}, Stub({Valid("out")}, {Into({"out"}, Ret({"1", "+"})), Into({"out"}, Fail)})) @@
  On({"getdate"}, Stub({Valid("string")}, {Ret(Object), FailNull})) @@
  On({"getdate_r"}, ReturnsFilling({Valid("string"), Valid("out")}, {"out"}, AnyInt))

(* netdb.c: an entry is built in a global buffer; the code of an error is  *)
(* in _mopsa_herrno and never in _errno.                                   *)
HostEntries ==
  On({"herror"}, Returns({Valid("string")}, Nothing)) @@
  On({"sethostent", "endhostent"}, Returns({}, Nothing)) @@
  On({"gethostent"}, Returns({}, Maybe)) @@
  On({"gethostbyaddr"}, Returns({ValidFor("buf", "n")}, Maybe)) @@
  On({"gethostbyname", "gethostbyname2"}, Returns({Valid("string")}, Maybe))

NetEntries ==
  On({"setnetent", "endnetent", "setservent", "endservent"}, Returns({}, Nothing)) @@
  On({"getnetent", "getnetbyaddr", "getservent"}, Returns({}, Maybe)) @@
  On({"getnetbyname"}, Returns({Valid("string")}, Maybe)) @@
  On({"getservbyname"}, Returns({Valid("string"), Valid("path")}, Maybe)) @@
  On({"getservbyport"}, Returns({Valid("path")}, Maybe))

ProtocolEntries ==
  On({"setprotoent", "endprotoent", "endnetgrent"}, Returns({}, Nothing)) @@
  On({"getprotoent", "getprotobynumber"}, Returns({}, Maybe)) @@
  On({"getprotobyname"}, Returns({Valid("string")}, Maybe)) @@
  On({"setnetgrent"}, Returns({OrNull("string")}, Zero \cup One)) @@
  On({"getnetgrent"}, ReturnsFilling({Valid("out"), Valid("out2"), Valid("out3")},
    {"out", "out2", "out3"}, Zero \cup One)) @@
  On({"innetgr"}, Returns({OrNull("string"), OrNull("path"), OrNull("path2"), OrNull("buf")}, Zero \cup One))

AddressInfo ==
  On({"getaddrinfo"}, ReturnsFilling({OrNull("path"), OrNull("string"), Either("path", "string"),
    Valid("buf"), Valid("out")}, {"out"}, AnyInt)) @@
  On({"freeaddrinfo"}, Stub({},
    {When({Given("mem")}, Freeing("mem", Ret(Nothing))), When({Missing("mem")}, Ret(Nothing))})) @@
  On({"gai_strerror"}, Returns({}, Object)) @@
  On({"getnameinfo"}, Stub({ValidFor("buf", "n3"), ValidFor("out", "n"), ValidFor("out2", "n2"),
                            EitherRoom("out", "n", "out2", "n2")},
    {When({Room("out", "n"), Room("out2", "n2")}, Into({"out", "out2"}, Ret(AnyInt))),
     When({Room("out", "n"), NoRoom("out2", "n2")}, Into({"out"}, Ret(AnyInt))),
     When({NoRoom("out", "n"), Room("out2", "n2")}, Into({"out2"}, Ret(AnyInt)))}))

(* termios.c: tcgetattr and cfmakeraw assign their parameter, not what it  *)
(* points to.                                                              *)
Termios ==
  On({"cfgetospeed", "cfgetispeed"}, Returns({Valid("buf")}, AnyInt)) @@
  On({"cfsetospeed", "cfsetispeed", "cfsetspeed"},
     Stub({Valid("out")}, {Into({"out"}, Ok), Into({"out"}, Fail)})) @@
  On({"tcgetattr"}, OkOrFail({Open("fd")})) @@
  On({"tcsetattr"}, OkOrFail({Open("fd"), Valid("buf")})) @@
  On({"cfmakeraw"}, Returns({}, Nothing))

TerminalLines ==
  On({"tcsendbreak", "tcdrain", "tcflush", "tcflow"}, OkOrFail({Open("fd")})) @@
  On({"tcgetsid"}, RetOrFail({Open("fd")}, Count))

(* sched.c                                                                 *)
Scheduling ==
  On({"sched_setparam", "sched_setscheduler"}, OkOrFail({Valid("buf")})) @@
  On({"sched_getparam", "sched_rr_get_interval"},
     Stub({Valid("out")}, {Into({"out"}, Ok), Into({"out"}, Fail)})) @@
  On({"sched_getscheduler", "sched_yield", "sched_get_priority_max", "sched_get_priority_min"}, OkOrFail({}))

Processors ==
  On({"sched_setaffinity", "__sched_cpucount"}, OkOrFail({ValidFor("buf", "n")})) @@
  On({"sched_getaffinity"}, Stub({ValidFor("out", "n")}, {UpTo("out", "n", Ok), UpTo("out", "n", Fail)})) @@
  On({"__sched_cpualloc"}, Returns({}, Maybe)) @@
  On({"__sched_cpufree"}, Stub({In("mem")}, {Freeing("mem", Ret(Nothing))}))

(* utmp.c, utmpx.c                                                         *)
Logins ==
  On({"login_tty"}, OkOrFail({Open("fd")})) @@
  On({"login"}, Returns({Valid("buf")}, Nothing)) @@
  On({"logout"}, Stub({Valid("string")}, {Ret(One), Err(Zero)})) @@
  On({"logwtmp"}, Returns({Valid("string"), Valid("path"), Valid("path2")}, Nothing)) @@
  On({"updwtmp"}, Returns({Valid("path"), Valid("buf")}, Nothing)) @@
  On({"utmpname"}, OkOrFail({Valid("path")})) @@
  On({"getutent"}, Stub({}, {Err(Maybe)})) @@
  On({"setutent", "endutent"}, Stub({}, {Err(Nothing)})) @@
  On({"getutid", "getutline", "pututline"}, Stub({Valid("buf")}, {Err(Maybe)})) @@
  On({"getutent_r"}, Stub({Valid("out"), Valid("out2")},
    {Into({"out", "out2"}, Ok), Into({"out", "out2"}, Fail)})) @@
  On({"getutid_r", "getutline_r"}, Stub({Valid("buf"), Valid("out"), Valid("out2")},
    {Into({"out", "out2"}, Ok), Into({"out", "out2"}, Fail)}))

LoginsX ==
  On({"setutxent", "endutxent"}, Stub({}, {Err(Nothing)})) @@
  On({"getutxent"}, Stub({}, {Err(Maybe)})) @@
  On({"getutxid", "getutxline", "pututxline"}, Stub({Valid("buf")}, {Err(Maybe)})) @@
  On({"utmpxname"}, OkOrFail({Valid("path")})) @@
  On({"updwtmpx"}, Returns({Valid("path"), Valid("buf")}, Nothing)) @@
  On({"getutmp", "getutmpx"}, ReturnsFilling({Valid("buf"), Valid("out")}, {"out"}, Nothing))

(* grp.c, pwd.c                                                            *)
GroupEntries ==
  On({"setgrent", "endgrent"}, Stub({}, {Err(Nothing)})) @@
  On({"getgrent", "getgrgid"}, Stub({}, {Err(Maybe)})) @@
  On({"fgetgrent"}, Stub({Alive("stream")}, {Err(Maybe)})) @@
  On({"putgrent"}, Stub({Alive("stream"), Valid("buf")}, {Err(AnyInt)})) @@
  On({"getgrnam"}, Stub({Valid("string")}, {Err(Maybe)})) @@
  On({"setgroups"}, OkOrFail({ValidFor("buf", "n")})) @@
  On({"getgrouplist"}, Stub({Valid("out"), Valid("out2")},
    {UpTo("out", "n", Into({"out2"}, Ret(MinusOne \cup Count)))})) @@
  On({"initgroups"}, OkOrFail({Valid("string")}))

Passwords ==
  On({"setpwent", "endpwent"}, Returns({}, Nothing)) @@
  On({"getpwent", "getpwuid"}, ObjectOrFail({})) @@
  On({"fgetpwent"}, ObjectOrFail({Alive("stream")})) @@
  On({"putpwent"}, OkOrFail({Alive("stream"), Valid("buf")})) @@
  On({"getpwnam"}, ObjectOrFail({Valid("string")}))

(* sys/time.c                                                              *)
TimesOfDay ==
  On({"gettimeofday"}, Stub({OrNull("out"), OrNull("out2")},
    {When({Given("out"), Given("out2")}, Into({"out", "out2"}, Ok)),
     When({Given("out"), Missing("out2")}, Into({"out"}, Ok)),
     When({Missing("out"), Given("out2")}, Into({"out2"}, Ok)), Fail})) @@
  On({"settimeofday"}, OkOrFail({OrNull("buf"), OrNull("buf2")})) @@
  On({"adjtime"}, Stub({Valid("buf"), OrNull("out")}, FillsIfGiven("out", Ok) \cup {Fail})) @@
  On({"getitimer"}, FillsOrFail({Valid("out")}, {"out"})) @@
  On({"setitimer"}, Stub({Valid("buf"), OrNull("out")}, FillsIfGiven("out", Ok) \cup {Fail})) @@
  On({"utimes", "lutimes"}, OkOrFail({Valid("path"), OrNull("buf")}))

FileTimes ==
  On({"futimes"}, OkOrFail({Open("fd"), OrNull("buf")})) @@
  On({"futimesat"}, OkOrFail({OpenOrCwd("fd"), Valid("path"), OrNull("buf")}))

(* sys/wait.c, sys/resource.c, sys/select.c                                *)
Waits ==
  On({"wait", "waitpid"}, Stub({OrNull("out")}, FillsIfGiven("out", Ret(Count)) \cup {Fail})) @@
  On({"waitid"}, Stub({Valid("out")}, {Into({"out"}, Ok), Into({"out"}, Fail)})) @@
  On({"wait3", "wait4"}, Stub({OrNull("out"), OrNull("out2")},
    {When({Given("out"), Given("out2")}, Into({"out", "out2"}, Ret(Count))),
     When({Given("out"), Missing("out2")}, Into({"out"}, Ret(Count))),
     When({Missing("out"), Given("out2")}, Into({"out2"}, Ret(Count))),
     When({Missing("out"), Missing("out2")}, Ret(Count)), Fail}))

Resources ==
  On({"getrlimit", "getrusage"}, Stub({Valid("out")}, {Into({"out"}, Ok), Into({"out"}, Fail)})) @@
  On({"setrlimit"}, OkOrFail({Valid("buf")})) @@
  On({"getpriority"}, Stub({}, {Err(AnyInt)})) @@
  On({"setpriority"}, OkOrFail({}))

(* return >= -1 and return <- __nfds, with __nfds >= 1: no result.  Each   *)
(* case assigns one of the sets.  pselect calls select without a timeout.  *)
Selects ==
  On({"select"}, Stub({AtLeastOne("k"), OrNull("out"), OrNull("out2"), OrNull("out3"), OrNull("time")},
    {When({Given(p)}, Into({p}, Err({}))) : p \in {"out", "out2", "out3", "time"}} \cup {Err({})})) @@
  On({"pselect"}, Stub({AtLeastOne("k"), OrNull("out"), OrNull("out2"), OrNull("out3"), OrNull("buf"), OrNull("buf2")},
    {When({Given(p)}, Into({p}, Err({}))) : p \in {"out", "out2", "out3"}} \cup {Err({})}))

(* sys/stat.c                                                              *)
Stats ==
  On({"stat", "lstat"}, FillsOrFail({Valid("path"), Valid("out")}, {"out"})) @@
  On({"fstat"}, FillsOrFail({Open("fd"), Valid("out")}, {"out"})) @@
  On({"fstatat"}, FillsOrFail({Valid("path"), Valid("out"), OpenOrCwd("fd")}, {"out"})) @@
  On({"chmod", "lchmod", "mkdir"}, OkOrFail({Valid("path")})) @@
  On({"fchmod"}, OkOrFail({Open("fd")})) @@
  On({"fchmodat", "mkdirat"}, OkOrFail({Valid("path"), OpenOrCwd("fd")})) @@
  On({"umask", "getumask"}, Returns({}, AnyInt))

Nodes ==
  On({"mknod", "mkfifo"}, OkOrFail({Valid("path")})) @@
  On({"mknodat", "mkfifoat"}, OkOrFail({Valid("path"), OpenOrCwd("fd")})) @@
  On({"utimensat"}, OkOrFail({Valid("path"), OrNull("buf"), OpenOrCwd("fd")})) @@
  On({"futimens"}, OkOrFail({Open("fd"), OrNull("buf")}))

(* sys/statvfs.c, sys/vfs.c, sys/inotify.c, sys/ioctl.c, sys/sysinfo.c     *)
FileSystems ==
  On({"statvfs"}, Stub({Valid("path"), Valid("out")}, {Into({"out"}, Ok), Into({"out"}, Fail)})) @@
  On({"fstatvfs"}, Stub({Open("fd"), Valid("out")}, {Into({"out"}, Ok), Into({"out"}, Fail)}))
FileSystemsOfLinux ==
  On({"statfs"}, Stub({Valid("path"), Valid("out")}, {Into({"out"}, Ok), Into({"out"}, Fail)})) @@
  On({"fstatfs"}, Stub({Open("fd"), Valid("out")}, {Into({"out"}, Ok), Into({"out"}, Fail)}))
Inotify ==
  On({"inotify_init", "inotify_init1"}, Stub({}, {Doing("register", Ret(Descriptor)), Fail})) @@
  On({"inotify_add_watch"}, RetOrFail({Open("fd"), Valid("path")}, Count)) @@
  On({"inotify_rm_watch"}, OkOrFail({Open("fd")}))
Ioctl == On({"ioctl"}, RetOrFail({Open("fd")}, Count))
SystemInfo ==
  On({"sysinfo"}, Stub({Valid("out")}, {Into({"out"}, Ok), Into({"out"}, Fail)})) @@
  On({"get_nprocs_conf", "get_nprocs", "get_phys_pages", "get_avphys_pages"}, Returns({}, Count))

System == SignalSets @@ SignalMasks @@ SignalWaits @@ OldSignals @@ Dates @@ Clocks @@ Timers @@
  TimersAndDates @@ HostEntries @@ NetEntries @@ ProtocolEntries @@ AddressInfo @@ Termios @@
  TerminalLines @@ Scheduling @@ Processors @@ Logins @@ LoginsX @@ GroupEntries @@ Passwords @@
  TimesOfDay @@ FileTimes @@ Waits @@ Resources @@ Selects @@ Stats @@ Nodes @@ FileSystems @@
  FileSystemsOfLinux @@ Inotify @@ Ioctl @@ SystemInfo
=============================================================================
