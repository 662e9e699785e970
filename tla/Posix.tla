------------------------------- MODULE Posix -------------------------------
(***************************************************************************)
(* What the functions of the C library do, as POSIX and the manual of the  *)
(* GNU library say: the outside world the contracts of the stubs are       *)
(* compared with.  Nothing here is code of the analyser.                   *)
(*                                                                         *)
(* A function that is not named returns 0 and fills the outputs it is      *)
(* given when it succeeds, returns -1 and sets errno when it fails, and    *)
(* dereferences every pointer of its prototype.                            *)
(***************************************************************************)
EXTENDS StubContracts

Natural == {"0", "1", "+"}
Id      == {"1", "+"}
Boolean == Natural
Signed  == {"-", "-1"} \cup Natural

(* Parameters of prototypes that the contracts do not mention.             *)
Unmentioned ==
  On({"open_memstream"}, {"out", "out2"}) @@ On({"qgcvt", "cfmakeraw", "tcgetattr"}, {"out"}) @@
  On({"getgrouplist"}, {"string"}) @@ On({"strftime", "strftime_l"}, {"buf"}) @@ On({"revoke"}, {"path"})

(* Pointers that may be NULL.                                              *)
Optional ==
  [f \in {"getcwd", "tmpnam", "ctermid", "cuserid", "time", "clock_getres",
          "nanosleep", "clock_nanosleep", "timer_settime", "sigprocmask", "sigaction", "sigaltstack", "sigstack",
          "pthread_sigmask", "sigwaitinfo", "sigtimedwait", "gettimeofday", "settimeofday", "setitimer",
          "wait", "waitpid", "wait3", "wait4", "select", "pselect", "copy_file_range", "accept", "realpath",
          "mbtowc", "wctomb", "mblen", "mbstowcs", "wcstombs", "strtod", "strtof", "strtold", "strtol", "strtoul",
          "strtoll", "strtoull", "strtoq", "strtouq", "strtol_l", "strtoul_l", "strtoll_l", "strtoull_l",
          "strtod_l", "strtof_l", "strtold_l", "strtoimax", "strtoumax", "wcstoimax", "wcstoumax"}
     |-> {"out", "out2", "out3", "time"}] @@
  On({"re_search", "re_match", "re_search_2", "re_match_2"}, {"out2"}) @@
  On({"setbuf", "setbuffer", "setvbuf", "fmemopen", "utimes", "lutimes", "futimes", "utimensat", "futimens",
      "futimesat", "timer_create"}, {"buf"}) @@
  On({"free", "realloc", "freeaddrinfo", "getdelim", "getline"}, {"mem"}) @@
  On({"system", "freopen", "acct", "revoke", "getservbyname", "getservbyport"}, {"path"}) @@
  On({"setlocale", "textdomain", "perror", "psignal", "psiginfo", "herror"}, {"string"}) @@
  On({"bindtextdomain", "bind_textdomain_codeset"}, {"path"}) @@
  On({"fflush", "fflush_unlocked"}, {"stream"}) @@
  On({"setnetgrent"}, {"string"}) @@ On({"innetgr"}, {"string", "path", "path2", "buf"}) @@
  On({"getaddrinfo"}, {"path", "string", "buf"}) @@ On({"getnameinfo"}, {"out", "out2"}) @@
  On({"adjtime"}, {"buf", "out"}) @@
  On({"dgettext", "dcgettext", "dngettext", "dcngettext"}, {"path"}) @@
  On({"newlocale", "uselocale"}, {"locale"}) @@
  On({"recvfrom"}, {"out2", "out3"})

(* "buf" of these too is optional.                                         *)
OptionalInput == {"sigprocmask", "sigaction", "sigaltstack", "sigstack", "pthread_sigmask", "settimeofday",
  "mbtowc", "mblen"}
MayBeNull(f, p) ==
  \/ f \in DOMAIN Optional /\ p \in Optional[f]
  \/ f \in OptionalInput /\ p = "buf"
  \/ f = "pselect" /\ p \in {"buf", "buf2"}
  \/ f = "settimeofday" /\ p = "buf2"

(* Of two parameters: the second is dereferenced when the first is given,  *)
(* or one at least is.                                                     *)
Linked == ("accept" :> <<"out", "out2">>) @@ ("recvfrom" :> <<"out2", "out3">>)
OneOf  == "getaddrinfo" :> <<"path", "string">>

(* A pointer of which as much is used as the size says: nothing, when that *)
(* is not positive.                                                        *)
SizedBy ==
  On({"read", "pread", "getcwd", "confstr", "ttyname_r", "readlink", "readlinkat", "getlogin_r", "gethostname",
      "getdomainname", "getentropy", "fread", "fread_unlocked", "vsnprintf", "getdirentries", "accept", "recv",
      "getsockname", "getpeername", "getsockopt", "strftime", "strftime_l", "sched_getaffinity", "initstate",
      "qsort", "qsort_r", "mbstowcs", "wcstombs", "ptsname_r", "getloadavg", "regexec", "regerror", "inet_ntop",
      "inet_neta", "inet_net_pton", "getgrouplist"}, {<<"out", "n">>}) @@
  On({"write", "pwrite", "sethostname", "setdomainname", "fmemopen", "setbuffer", "setvbuf", "fwrite",
      "fwrite_unlocked", "connect", "bind", "send", "setsockopt", "gethostbyaddr", "sched_setaffinity",
      "__sched_cpucount", "setgroups", "mblen", "mbtowc"}, {<<"buf", "n">>}) @@
  On({"getgroups", "swab", "fgets", "fgets_unlocked"}, {<<"out", "k">>, <<"buf", "k">>}) @@
  On({"recvfrom"}, {<<"out", "n">>, <<"out2", "n2">>}) @@ On({"sendto"}, {<<"buf", "n">>, <<"buf2", "n2">>}) @@
  On({"getnameinfo"}, {<<"out", "n">>, <<"out2", "n2">>, <<"buf", "n3">>}) @@
  On({"initstate_r"}, {<<"out2", "n">>}) @@ On({"ecvt_r", "fcvt_r", "qecvt_r", "qfcvt_r"}, {<<"out3", "n">>}) @@
  On({"bsearch"}, {<<"buf2", "n">>}) @@ On({"re_compile_pattern", "re_search", "re_match"}, {<<"string", "n">>}) @@
  On({"re_search_2", "re_match_2"}, {<<"string", "n">>, <<"path", "n2">>}) @@
  On({"re_set_registers"}, {<<"buf", "n">>, <<"buf2", "n">>}) @@
  On({"inet_net_ntop"}, {<<"out", "n">>, <<"buf", "n2">>})
Unused(f, p, args) == f \in DOMAIN SizedBy /\ \E b \in SizedBy[f] : b[1] = p /\ args[b[2]] # "more"

(* Integers for which a function is not defined.                           *)
Undefined ==
  On({"abs", "labs", "llabs", "imaxabs"}, <<"x", "least">>) @@ On({"div", "ldiv", "lldiv", "imaxdiv"}, <<"x", "zero">>) @@
  On({"l64a", "fgets", "fgets_unlocked"}, <<"k", "negative">>)

(* Results of a success.                                                   *)
GivesNothing ==
  {"setbuf", "setbuffer", "setlinebuf", "clearerr", "clearerr_unlocked", "rewind", "rewinddir", "seekdir",
   "flockfile", "funlockfile", "perror", "endusershell", "setusershell", "sync", "encrypt", "swab", "_flushlbf",
   "__fpurge", "__sched_cpufree", "cfmakeraw", "endgrent", "endhostent", "endnetent", "endnetgrent", "endprotoent",
   "endpwent", "endservent", "endutent", "endutxent", "free", "freeaddrinfo", "freelocale", "getutmp", "getutmpx",
   "herror", "lcong48", "login", "logwtmp", "psiginfo", "psignal", "qsort", "qsort_r", "regfree", "setgrent",
   "sethostent", "setkey", "setnetent", "setprotoent", "setpwent", "setservent", "setutent", "setutxent", "srand",
   "srand48", "srandom", "tzset", "updwtmp", "updwtmpx", "re_set_registers"}
GivesNoReturn ==
  {"_exit", "_Exit", "abort", "__builtin_abort", "execve", "execvpe", "fexecve", "execv", "execle", "execl",
   "execlp", "execvp", "pause", "sigsuspend", "sigpause"}
GivesObject ==
  {"getcwd", "get_current_dir_name", "getwd", "ttyname", "getlogin", "getusershell", "getpass", "sbrk", "crypt",
   "tmpfile", "tmpnam", "tmpnam_r", "tempnam", "fopen", "freopen", "fdopen", "fmemopen", "open_memstream", "popen",
   "_wfopen", "fgets", "fgets_unlocked", "gets", "ctermid", "cuserid", "opendir", "fdopendir", "readdir",
   "strptime", "strptime_l", "gmtime", "localtime", "gmtime_r", "localtime_r", "asctime", "asctime_r", "ctime",
   "ctime_r", "getdate", "gethostent", "gethostbyaddr", "gethostbyname", "gethostbyname2", "getnetent",
   "getnetbyaddr", "getnetbyname", "getservent", "getservbyname", "getservbyport", "getprotoent", "getprotobyname",
   "getprotobynumber", "gai_strerror", "__sched_cpualloc", "getutent", "getutid", "getutline", "pututline",
   "getutxent", "getutxid", "getutxline", "pututxline", "getgrent", "getgrgid", "fgetgrent", "getgrnam",
   "getpwent", "getpwuid", "fgetpwent", "getpwnam", "l64a", "initstate", "setstate", "seed48", "malloc", "calloc",
   "realloc", "valloc", "aligned_alloc", "getenv", "secure_getenv", "mktemp", "mkdtemp", "canonicalize_file_name",
   "realpath", "bsearch", "ecvt", "fcvt", "gcvt", "qecvt", "qfcvt", "qgcvt", "ptsname", "setlocale", "localeconv",
   "newlocale", "duplocale", "textdomain", "bindtextdomain", "bind_textdomain_codeset", "gettext", "dgettext",
   "dcgettext", "ngettext", "dngettext", "dcngettext", "iconv_open", "inet_ntoa", "inet_ntop", "inet_neta",
   "inet_net_ntop", "setmntent", "getmntent", "hasmntopt", "signal", "bsd_signal", "sysv_signal",
   "__sysv_signal", "ssignal", "sigset", "uselocale"}
GivesDescriptor ==
  {"dup", "dup2", "dup3", "open", "creat", "openat", "socket", "accept", "inotify_init", "inotify_init1",
   "mkstemp", "mkstemps", "mkostemp", "mkostemps", "posix_openpt", "getpt", "fileno", "fileno_unlocked", "dirfd"}
GivesCount ==                      \* at most as many as asked for
  {"read", "pread", "write", "pwrite", "readlink", "readlinkat", "recv", "recvfrom", "send", "sendto", "fread",
   "fread_unlocked", "fwrite", "fwrite_unlocked", "copy_file_range", "mblen", "mbtowc", "mbstowcs", "wcstombs",
   "getloadavg"}
GivesNatural ==
  {"lseek", "ftell", "ftello", "telldir", "getuid", "geteuid", "getgid", "getegid", "sleep", "alarm", "ualarm",
   "ttyslot", "fork", "vfork", "waitpid", "getgroups", "group_member", "fgetc", "getc", "getc_unlocked",
   "fgetc_unlocked", "fputc", "_IO_putc", "putc", "fputc_unlocked", "putc_unlocked", "getchar", "getchar_unlocked",
   "putchar", "putchar_unlocked", "ungetc", "fputs", "fputs_unlocked", "puts", "feof", "ferror", "feof_unlocked",
   "ferror_unlocked", "vfprintf", "vfscanf", "vprintf", "vscanf", "vsprintf", "vsnprintf", "vasprintf",
   "_mopsa_asprintf", "vdprintf", "vsscanf", "ftrylockfile", "sigtimedwait", "clock", "time", "mktime", "timegm",
   "timelocal", "timer_getoverrun", "cfgetospeed", "cfgetispeed", "sched_getscheduler", "sched_get_priority_max",
   "sched_get_priority_min", "__sched_cpucount", "select", "pselect", "umask", "getumask", "ioctl", "random",
   "rand", "rand_r", "drand48", "lrand48", "erand48", "nrand48", "abs", "labs", "llabs", "imaxabs", "getnprocs",
   "get_phys_pages", "get_avphys_pages", "__fbufsize", "__freading", "__fwriting", "__freadable", "__fwritable",
   "__flbf", "__fpending", "regerror", "inet_net_pton", "fcntl", "a64l", "strftime", "strftime_l", "inotify_add_watch"}
GivesId ==
  {"getpid", "getppid", "getpgrp", "__getpgid", "getpgid", "setsid", "getsid", "tcgetpgrp", "tcgetsid", "wait",
   "wait3", "wait4", "getpagesize", "getdtablesize", "confstr", "getdelim", "getline", "sigwaitinfo",
   "get_nprocs_conf", "get_nprocs", "timespec_get", "__fsetlocking"}
GivesOne == {"isatty", "logout", "inet_aton", "inet_pton", "setnetgrent", "getnetgrent", "innetgr",
   "endmntent"}
GivesSigned ==
  {"nice", "sysconf", "pathconf", "fpathconf", "gethostid", "syscall", "getw", "alphasort", "versionsort",
   "siggetmask", "sigblock", "sigsetmask", "getpriority", "system", "pclose", "atof", "atoi", "atol", "atoll",
   "strtod", "strtof", "strtold", "strtol", "strtoul", "strtoll", "strtoull", "strtoq", "strtouq", "strtol_l",
   "strtoul_l", "strtoll_l", "strtoull_l", "strtod_l", "strtof_l", "strtold_l", "strtoimax", "strtoumax",
   "wcstoimax", "wcstoumax", "jrand48", "mrand48", "div", "ldiv", "lldiv", "imaxdiv", "inet_addr", "inet_network", "re_search",
   "re_match", "re_search_2", "re_match_2"}
Success ==
  On(GivesNothing, Nothing) @@ On(GivesNoReturn, {}) @@ On(GivesObject, Object) @@
  On(GivesDescriptor, Descriptor) @@ On(GivesCount, Count) @@ On(GivesNatural, Natural) @@ On(GivesId, Id) @@
  On(GivesOne, One) @@ On(GivesSigned, Signed) @@ On({"sigismember", "sigisemptyset", "rpmatch"}, Zero \cup One) @@
  On({"re_compile_pattern"}, Null)
ResultOf(f) == IF f \in DOMAIN Success THEN Success[f] ELSE Zero

(* Results of a failure.                                                   *)
NeverFails ==
  GivesNothing \cup
  {"_exit", "_Exit", "abort", "__builtin_abort", "sync", "getpid", "getppid", "getpgrp", "getuid", "geteuid",
   "getgid", "getegid", "alarm", "sleep", "ualarm", "group_member", "getpagesize", "getdtablesize", "gethostid",
   "ctermid", "cuserid", "feof", "ferror", "feof_unlocked", "ferror_unlocked", "alphasort", "versionsort", "dirfd",
   "random", "rand", "rand_r", "drand48", "lrand48", "mrand48", "erand48", "nrand48", "jrand48", "abs", "labs",
   "llabs", "imaxabs", "div", "ldiv", "lldiv", "imaxdiv", "uselocale", "atof", "atoi", "atol", "atoll", "seed48", "drand48_r", "lrand48_r",
   "mrand48_r", "erand48_r", "nrand48_r", "jrand48_r", "srand48_r", "seed48_r", "lcong48_r", "a64l", "l64a",
   "umask", "getumask", "cfgetospeed", "cfgetispeed", "siggetmask", "sigblock", "sigsetmask", "ftrylockfile",
   "gettext", "dgettext", "dcgettext", "ngettext", "dngettext", "dcngettext", "localeconv", "gai_strerror",
   "inet_ntoa", "get_nprocs_conf", "get_nprocs", "get_phys_pages", "get_avphys_pages", "ttyslot", "initstate", "__fbufsize", "__freading", "__fwriting", "__freadable",
   "__fwritable", "__flbf", "__fpending", "__fsetlocking", "regerror", "endmntent", "__sched_cpucount", "gcvt",
   "ecvt", "fcvt", "qecvt", "qfcvt", "qgcvt", "swab", "mktemp", "sched_yield", "getumask", "raise", "gsignal"}
FailsNull ==                       \* NULL, and errno says why
  {"getcwd", "get_current_dir_name", "ttyname", "getlogin", "crypt", "tmpfile", "tempnam", "fopen", "freopen",
   "fdopen", "fmemopen", "open_memstream", "popen", "_wfopen", "fgets", "fgets_unlocked", "gets", "opendir",
   "fdopendir", "readdir", "gmtime", "localtime", "getutent", "getutid", "getutline", "pututline", "getutxent",
   "getutxid", "getutxline", "pututxline", "getgrent", "getgrgid", "fgetgrent", "getgrnam", "getpwent", "getpwuid",
   "fgetpwent", "getpwnam", "setstate", "malloc", "calloc", "realloc", "valloc", "aligned_alloc",
   "mkdtemp", "canonicalize_file_name", "realpath", "ptsname", "newlocale", "duplocale", "bindtextdomain",
   "textdomain", "bind_textdomain_codeset", "inet_ntop", "inet_net_ntop", "inet_neta", "setmntent",
   "getpass", "getwd"}
FailsQuietly ==                    \* NULL, and errno is kept
  {"tmpnam", "tmpnam_r", "getusershell", "strptime", "strptime_l", "getdate", "gethostent", "gethostbyaddr",
   "gethostbyname", "gethostbyname2", "getnetent", "getnetbyaddr", "getnetbyname", "getservent", "getservbyname",
   "getservbyport", "getprotoent", "getprotobyname", "getprotobynumber", "__sched_cpualloc", "getenv",
   "secure_getenv", "bsearch", "setlocale", "getmntent", "hasmntopt", "asctime", "ctime",
   "asctime_r", "ctime_r", "gmtime_r", "localtime_r"}
FailsCode ==                       \* a positive code, and errno is kept
  {"posix_fadvise", "posix_fallocate", "posix_memalign", "pthread_sigmask", "pthread_kill", "clock_nanosleep",
   "clock_getcpuclockid", "sigwait", "getlogin_r", "regcomp", "getdate_r", "clearenv"}
FailsCodeErrno == {"ttyname_r", "ptsname_r", "setvbuf", "putenv"}
FailsOne == {"regexec", "addmntent"}
FailsNegative == {"getaddrinfo", "getnameinfo"}
FailsZero == {"timespec_get", "strftime", "strftime_l", "inet_aton", "inet_pton", "setnetgrent", "getnetgrent",
   "innetgr"}
FailsZeroErrno == {"isatty", "confstr", "logout", "fread", "fread_unlocked", "fwrite", "fwrite_unlocked"}
KeepsErrno == {"inet_addr", "inet_network", "re_search", "re_match", "re_search_2", "re_match_2",
   "mktime", "clock", "ecvt_r", "fcvt_r", "qecvt_r", "qfcvt_r", "getloadavg", "atexit", "at_quick_exit",
   "rpmatch"}
StrangeErrors ==
  On({"strtol", "strtoul", "strtoll", "strtoull", "strtoq", "strtouq", "strtol_l", "strtoul_l", "strtoll_l",
      "strtoull_l", "strtod", "strtof", "strtold", "strtod_l", "strtof_l", "strtold_l", "strtoimax", "strtoumax",
      "wcstoimax", "wcstoumax"}, {"-", "0", "+"}) @@
  On({"signal", "bsd_signal", "sysv_signal", "__sysv_signal", "ssignal", "sigset"}, {"error"}) @@ On({"execvp"}, {"-1"})

Outcome(ret, errno, written) == [ret |-> ret, errno |-> errno, written |-> written]
Failures(f) ==
  CASE f \in NeverFails     -> {}
    [] f \in FailsNull      -> {Outcome("null", TRUE, {})}
    [] f \in FailsQuietly   -> {Outcome("null", FALSE, {})}
    [] f \in FailsCode      -> {Outcome(r, FALSE, {}) : r \in Id}
    [] f \in FailsCodeErrno -> {Outcome(r, TRUE, {}) : r \in Id}
    [] f \in FailsOne       -> {Outcome("1", FALSE, {})}
    [] f \in FailsNegative  -> {Outcome(r, FALSE, {}) : r \in {"-", "-1"}}
    [] f = "re_compile_fastmap" -> {Outcome("-", FALSE, {})}
    [] f \in FailsZero      -> {Outcome("0", FALSE, {})}
    [] f \in FailsZeroErrno -> {Outcome("0", TRUE, {})}
    [] f \in KeepsErrno     -> {Outcome("-1", FALSE, {})}
    [] f \in DOMAIN StrangeErrors -> {Outcome(r, TRUE, {}) : r \in StrangeErrors[f]}
    [] OTHER                -> {Outcome("-1", TRUE, {})}

(* A success fills the outputs it is given and uses, the size of an        *)
(* address only with the address; a sleep fills the time that remains when *)
(* it is cut short.                                                        *)
Outputs == {"out", "out2", "out3"}
FilledBy(f, args) ==
  {p \in DOMAIN args \cap Outputs :
     args[p] # "null" /\ ~Unused(f, p, args) /\ ~(f \in DOMAIN Linked /\ p = Linked[f][2] /\ args[Linked[f][1]] = "null")}
Sleeps == {"nanosleep", "clock_nanosleep"}
Outcomes(f, args) ==
  IF f \in Sleeps
  THEN {Outcome("0", FALSE, {})} \cup {[o EXCEPT !.written = FilledBy(f, args)] : o \in Failures(f)}
  ELSE IF f = "realloc" /\ args["n"] = "zero" /\ args["mem"] # "null" THEN {Outcome("null", FALSE, {})}
  ELSE {Outcome(r, FALSE, FilledBy(f, args)) : r \in ResultOf(f)} \cup Failures(f)

(* Functions that resolve a path from a descriptor take AT_FDCWD for it.   *)
TakesCwd ==
  {"faccessat", "fchownat", "linkat", "symlinkat", "readlinkat", "unlinkat", "openat", "renameat", "renameat2",
   "fstatat", "fchmodat", "mkdirat", "mknodat", "mkfifoat", "utimensat", "futimesat"}

(* What a parameter may be, and when the call is defined: it may fail with *)
(* EBADF on a closed descriptor.                                           *)
Handles == {"stream", "dir", "timer", "locale", "iconv"}
StatesOf(f, p) ==
  CASE p \in {"fd", "fd2"} -> {"open", "closed"} \cup (IF f \in TakesCwd THEN {"cwd"} ELSE {})
    [] p \in Handles -> {"alive", "dead"} \cup (IF MayBeNull(f, p) THEN {"null"} ELSE {})
    [] p = "mem" -> {"alive", "dead", "null"}
    [] p \in {"n", "n2", "n3"} -> {"zero", "more"}
    [] p \in {"k", "k2"} -> {"negative", "zero", "more"}
    [] p = "x" -> {"least", "negative", "zero", "more"}
    [] OTHER -> {"valid", "null"}
Defined(f, args) ==
  /\ \A p \in DOMAIN args :
       /\ args[p] = "null" => MayBeNull(f, p) \/ Unused(f, p, args)
       /\ args[p] # "dead"
       /\ f \in DOMAIN Undefined => <<p, args[p]>> # Undefined[f]
  /\ f \in DOMAIN Linked => (args[Linked[f][2]] = "null" => args[Linked[f][1]] = "null")
  /\ f \in DOMAIN OneOf => \E i \in {1, 2} : args[OneOf[f][i]] # "null"
Usable(f, args) ==
  \A p \in DOMAIN args : args[p] = "closed" => f \in {"dup2", "dup3"} /\ p = "fd2"
=============================================================================
