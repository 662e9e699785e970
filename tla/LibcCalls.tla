----------------------------- MODULE LibcCalls -----------------------------
(***************************************************************************)
(* One call of the C library after another: what the analyser makes of it  *)
(* from the contract of the stub, and what the function does.              *)
(***************************************************************************)
EXTENDS UnistdStubs, StdioStubs, SystemStubs, StdlibStubs, Posix

CONSTANTS Checked          \* the functions a program calls

VARIABLES
  phase,                   \* "idle", "called", "analysed" or "returned"
  call,                    \* the function and the state of each argument
  verdict,                 \* the analyser's: an alarm or not, the cases that apply
  outcome                  \* what the function returned, and changed

vars == <<phase, call, verdict, outcome>>

Contracts == Unistd @@ Stdio @@ System @@ Stdlib

Parameters == [f \in Checked |->
  RolesOf(Contracts[f]) \cup (IF f \in DOMAIN Unmentioned THEN Unmentioned[f] ELSE {})]
Calls(f) == {args \in [Parameters[f] -> UNION {StatesOf(f, p) : p \in Parameters[f]}] :
               \A p \in Parameters[f] : args[p] \in StatesOf(f, p)}

NoCall    == [fn |-> "none", args |-> <<>>]
NoVerdict == [alarm |-> FALSE, cases |-> {}]
NoOutcome == Outcome("none", FALSE, {})

Init == phase = "idle" /\ call = NoCall /\ verdict = NoVerdict /\ outcome = NoOutcome

Call(f) ==
  /\ phase = "idle"
  /\ \E args \in Calls(f) : call' = [fn |-> f, args |-> args]
  /\ phase' = "called"
  /\ UNCHANGED <<verdict, outcome>>

(* exec_stub: the requirements, then the cases, each on its own.           *)
Analyse ==
  /\ phase = "called"
  /\ LET stub == Contracts[call.fn] IN
     verdict' = [alarm |-> Alarmed(stub, call.args), cases |-> Applicable(stub, call.args)]
  /\ phase' = "analysed"
  /\ UNCHANGED <<call, outcome>>

(* The call itself, when it is defined on what it is given.                *)
Return ==
  /\ phase = "analysed"
  /\ Defined(call.fn, call.args) /\ Usable(call.fn, call.args)
  /\ outcome' \in Outcomes(call.fn, call.args)
  /\ phase' = "returned"
  /\ UNCHANGED <<call, verdict>>

NextCall ==
  /\ phase \in {"analysed", "returned"}
  /\ phase' = "idle" /\ call' = NoCall /\ verdict' = NoVerdict /\ outcome' = NoOutcome

Next == (\E f \in Checked : Call(f)) \/ Analyse \/ Return \/ NextCall
Spec == Init /\ [][Next]_vars

----------------------------------------------------------------------------
(* Where a contract is known to differ from the function.                  *)

(* It refuses NULL where the function does without: a buffer it allocates  *)
(* or does not need (null_or_valid_bytes refuses NULL of a positive size), *)
(* an address nobody asks for, a prefix, a protocol or a domain.           *)
NullRefused ==
  {"acct", "adjtime", "ctermid", "cuserid", "dcgettext", "dcngettext", "dgettext", "dngettext", "fmemopen",
   "freopen", "getaddrinfo", "getcwd", "getdelim", "getgrouplist", "getline", "getnameinfo",
   "getservbyname", "getservbyport", "herror", "mblen", "mbtowc", "perror", "psiginfo", "psignal",
   "realpath", "recvfrom", "setbuf", "setbuffer", "setvbuf", "tmpnam", "wcstombs", "wctomb"}

(* It refuses a number the function answers with an error, or accepts: a   *)
(* process or a size below its least, select of no descriptor, two names   *)
(* without room, a divisor that is the least integer.                      *)
NumberRefused ==
  {"__getpgid", "div", "getgroups", "getnameinfo", "getpgid", "getsid", "imaxdiv", "initstate",
   "initstate_r", "ldiv", "lldiv", "mkostemps", "mkstemps", "pselect", "re_match", "re_match_2",
   "re_search", "re_search_2", "select", "setpgid", "tcsetpgrp"}
TooStrict(f, args) ==
  \/ f \in NullRefused /\ \E p \in DOMAIN args : args[p] = "null"
  \/ f \in NumberRefused /\ \E p \in DOMAIN args : args[p] \in {"least", "negative", "zero"}

(* It does not mention a parameter that is dereferenced, or that must not  *)
(* have been closed; clock_gettime accepts NULL, and gcvt does for a size  *)
(* of 0, though it always writes.                                          *)
NotRefused ==
  {"cfmakeraw", "clock_gettime", "fflush", "fflush_unlocked", "gcvt", "getgrouplist", "open_memstream",
   "qgcvt", "strftime", "strftime_l", "tcgetattr"}

(* It fails without a word on errno, or does not fail at all.              *)
ErrnoKept ==
  {"_IO_putc", "_mopsa_asprintf", "aligned_alloc", "fcloseall", "fcntl", "fgetc", "fgetc_unlocked", "fgets",
   "fgets_unlocked", "fputc", "fputc_unlocked", "fread", "fread_unlocked", "fwrite", "fwrite_unlocked",
   "getc", "getc_unlocked", "getchar", "getchar_unlocked", "getgrouplist", "gets", "getw", "gmtime",
   "localtime", "mblen", "mbstowcs", "putc", "putc_unlocked", "putchar", "putchar_unlocked", "putw",
   "readdir", "ssignal", "system", "tempnam", "ungetc", "vasprintf", "vdprintf", "vfprintf", "vfscanf",
   "vprintf", "vscanf", "vsnprintf", "vsscanf", "wcstombs", "wctomb"}

(* It leaves a result out (getgroups has no success of size 0, and the     *)
(* failure of timespec_get is not its 0), or an output that is filled.     *)
LeftOut ==
  {"__getpgid", "__sched_cpucount", "__sysv_signal", "accept", "asctime", "asctime_r", "at_quick_exit",
   "atexit", "bsd_signal", "cfmakeraw", "clock_nanosleep", "copy_file_range", "ctime", "ctime_r", "ecvt_r",
   "fcvt_r", "fileno", "fileno_unlocked", "getdirentries", "getgroups", "getlogin", "getlogin_r", "getpgid",
   "getsockopt", "gettimeofday", "getusershell", "gmtime_r", "localtime_r", "mbtowc", "mkdtemp",
   "newlocale", "open_memstream", "posix_memalign", "profil", "pselect", "pthread_sigmask", "qecvt_r",
   "qfcvt_r", "qgcvt", "qsort", "qsort_r", "re_compile_pattern", "sched_get_priority_max",
   "sched_get_priority_min", "sched_getscheduler", "select", "send", "sendto", "signal", "sigset",
   "sysv_signal", "tcgetattr", "timegm", "timelocal", "timespec_get", "vsprintf"}

----------------------------------------------------------------------------
IsValid == Defined(call.fn, call.args) /\ Usable(call.fn, call.args)

(* A call with a pointer the function dereferences and that may be NULL,   *)
(* with a closed descriptor or on a released resource is never accepted    *)
(* without an alarm: the requirements of the stub, those of its cases, the *)
(* targets of assigns and the base of free refuse it between them.         *)
NothingMissed ==
  phase = "analysed" /\ call.fn \notin NotRefused => IsValid \/ verdict.alarm

(* A call that is valid raises no alarm: a stub requires no more than the  *)
(* function does, of optional parameters, sizes and integers too.          *)
NoFalseAlarm ==
  phase = "analysed" /\ ~TooStrict(call.fn, call.args) => ~(IsValid /\ verdict.alarm)

(* Whatever an accepted call returns, one case that applies describes all  *)
(* of it at once: its result, whether it touched errno (for the contracts  *)
(* that say so) and the outputs it filled. What no case describes is a     *)
(* path the analyser drops.                                                *)
OutcomesCovered ==
  phase = "returned" /\ ~verdict.alarm /\ call.fn \notin LeftOut =>
    LET seen == IF call.fn \in ErrnoKept THEN [outcome EXCEPT !.errno = FALSE] ELSE outcome IN
    \E c \in verdict.cases : Allows(c, seen)
=============================================================================
