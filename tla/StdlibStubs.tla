---------------------------- MODULE StdlibStubs ----------------------------
(***************************************************************************)
(* The contracts of stdlib.c, inttypes.c, locale.c, libintl.c, iconv.c,    *)
(* regex.c, arpa/inet.c, mntent.c and stdio_ext.c in                       *)
(* share/mopsa/stubs/c/libc, in the order of the files.                    *)
(***************************************************************************)
EXTENDS StubContracts

(* strlen is called on the text when the end is asked for.                 *)
Parses(text, ret) ==
  Stub({OrNull("out")},
       {When({Given("out")}, Needing({Valid(text)}, Into({"out"}, Err(ret)))),
        When({Missing("out")}, Needing({Valid(text)}, Err(ret)))})

(* A block of a size that may be 0; empty is what is returned for 0.       *)
Allocates(fail) ==
  Stub({}, {Doing("allocate", Ret(Object)), fail, When({Empty("n")}, Ret(Null))})

(* stdlib.c: strtod_l has the contract of strtod, then another that calls  *)
(* it and does not bind the result.                                        *)
Numbers == On({"atof", "atoi", "atol", "atoll"}, Returns({Valid("string")}, AnyInt)) @@
  On({"strtod", "strtof", "strtold", "strtol"}, Parses("string", AnyInt))
MoreNumbers ==
  On({"strtoul", "strtoll", "strtoull", "strtoq", "strtouq", "strtol_l", "strtoul_l", "strtoll_l",
      "strtoull_l", "strtod_l", "strtof_l", "strtold_l"}, Parses("string", AnyInt))

(* initstate returns the state in use before the call; the size of a state *)
(* is at least 8.                                                          *)
RandomStates ==
  On({"l64a"}, Returns({NotNegative("k")}, Object)) @@
  On({"a64l"}, Returns({Valid("string")}, AnyInt)) @@
  On({"random", "rand"}, Returns({}, Count)) @@
  On({"srandom", "srand"}, Returns({}, Nothing)) @@
  On({"initstate"}, ReturnsFilling({AtLeastOne("n"), ValidFor("out", "n")}, {"out"}, Object)) @@
  On({"setstate"}, ObjectOrFail({Valid("buf")})) @@
  On({"random_r"}, Stub({}, {Into({"out", "out2"}, Ok), Into({"out", "out2"}, Fail)})) @@
  On({"srandom_r"}, Stub({}, {Into({"out"}, Ok), Into({"out"}, Fail)})) @@
  On({"initstate_r"}, Stub({AtLeastOne("n"), ValidFor("out2", "n")},
    {UpTo("out2", "n", Into({"out"}, Ok)), UpTo("out2", "n", Into({"out"}, Fail))})) @@
  On({"setstate_r"}, Stub({Valid("out2")}, {Into({"out", "out2"}, Ok), Into({"out", "out2"}, Fail)}))

(* srand48, srand48_r and the reentrant ones fill the buffer they take.    *)
Random48 ==
  On({"rand_r"}, ReturnsFilling({}, {"out"}, Count)) @@
  On({"drand48", "lrand48"}, Returns({}, Count)) @@
  On({"mrand48"}, Returns({}, AnyInt)) @@
  On({"erand48", "nrand48"}, ReturnsFilling({}, {"out"}, Count)) @@
  On({"jrand48"}, ReturnsFilling({}, {"out"}, AnyInt)) @@
  On({"srand48"}, Returns({}, Nothing)) @@
  On({"seed48"}, Returns({Valid("buf")}, Object)) @@
  On({"lcong48"}, Returns({Valid("buf")}, Nothing)) @@
  On({"drand48_r", "lrand48_r", "mrand48_r"}, ReturnsFilling({}, {"out", "out2"}, Zero)) @@
  On({"erand48_r", "nrand48_r", "jrand48_r"}, ReturnsFilling({}, {"out", "out2", "out3"}, Zero)) @@
  On({"srand48_r"}, ReturnsFilling({}, {"out"}, Zero)) @@
  On({"seed48_r", "lcong48_r"}, ReturnsFilling({Valid("buf")}, {"out"}, Zero))

(* posix_memalign assigns what *memptr points to, which must be valid, and *)
(* not *memptr.                                                            *)
Blocks ==
  On({"malloc", "calloc"}, Allocates(FailNull)) @@
  On({"realloc"}, Stub({},
    {When({Missing("mem"), Empty("n")}, Ret(Null)),
     When({Missing("mem")}, Doing("allocate", Ret(Object))),
     When({Given("mem"), Empty("n")}, Needing({In("mem")}, Freeing("mem", Ret(Null)))),
     When({Given("mem"), Filled("n")}, Needing({In("mem")}, Freeing("mem", Ret(Object)))), FailNull})) @@
  On({"free"}, Stub({}, {When({Missing("mem")}, Ret(Nothing)), When({Given("mem")}, Freeing("mem", Ret(Nothing)))})) @@
  On({"valloc"}, Stub({}, {Doing("allocate", Ret(Object)), FailNull})) @@
  On({"posix_memalign"}, Stub({Valid("out")},
    {Doing("allocate", Ok), When({Empty("n")}, Ok), Ret(NonZero)}))

(* _ATEXIT_MAX handlers have room; the answers are those of a test.        *)
ExitsAndNames ==
  On({"aligned_alloc"}, Allocates(Ret(Null))) @@
  On({"abort", "__builtin_abort", "_Exit"}, Returns({}, {})) @@
  On({"atexit", "at_quick_exit"}, Returns({}, Zero \cup One)) @@
  On({"getenv", "secure_getenv"}, Returns({Valid("string")}, Maybe))

(* mkstemp and mkstemps fill the template before the file is opened.       *)
NamesOfFiles ==
  LET Opens(needs) == Stub({Valid("out")} \cup needs,
    {Doing("register", Into({"out"}, Ret(Descriptor))), Into({"out"}, Fail)}) IN
  On({"putenv"}, Stub({Valid("buf")}, {Ok, Err(NonZero)})) @@
  On({"setenv"}, OkOrFail({Valid("string"), Valid("path")})) @@
  On({"unsetenv"}, OkOrFail({Valid("string")})) @@
  On({"clearenv"}, Returns({}, AnyInt)) @@
  On({"mktemp", "mkdtemp"}, Stub({Valid("out")}, {Into({"out"}, Err(Object))})) @@
  On({"mkstemp", "mkostemp"}, Opens({})) @@ On({"mkstemps", "mkostemps"}, Opens({NotNegative("k")})) @@
  On({"system"}, Returns({OrNull("path")}, AnyInt))

(* realpath refuses NULL, which its case alloc is about; the size of an    *)
(* element of a table is not 0.                                            *)
Sorting ==
  On({"canonicalize_file_name"}, ObjectOrFail({Valid("path")})) @@
  On({"realpath"}, Stub({Valid("path"), Valid("out")},
    {When({Missing("out")}, Ret(Object)), When({Given("out")}, Into({"out"}, Ret(Object))), FailNull})) @@
  On({"bsearch"}, Returns({Valid("buf"), ValidFor("buf2", "n")}, Maybe)) @@
  On({"qsort", "qsort_r"}, Returns({ValidFor("out", "n")}, Nothing)) @@
  On({"abs", "labs", "llabs"}, Returns({NotLeast("x")}, Count)) @@
  On({"div", "ldiv", "lldiv"}, Returns({NotZero("x"), NotLeast("x")}, AnyInt))

(* qgcvt fills no buffer of its caller; the _r ones check it and fill the  *)
(* global one.                                                             *)
Conversions ==
  On({"ecvt", "fcvt", "qecvt", "qfcvt"}, ReturnsFilling({}, {"out", "out2"}, Object)) @@
  On({"gcvt"}, Stub({ValidFor("out", "n")}, {UpTo("out", "n", Ret(Object))})) @@
  On({"qgcvt"}, Returns({}, Object)) @@
  On({"ecvt_r", "fcvt_r", "qecvt_r", "qfcvt_r"},
     ReturnsFilling({ValidFor("out3", "n")}, {"out", "out2"}, Zero \cup MinusOne))

(* wctomb refuses NULL too; only mbstowcs lets it through.                 *)
MultibyteStrings ==
  On({"mblen"}, Stub({ValidFor("buf", "n")},
    {When({Given("buf")}, Ret(MinusOne \cup Count)), When({Missing("buf")}, Ret(AnyInt))})) @@
  On({"mbtowc"}, Stub({ValidFor("buf", "n")},
    {When({Given("buf"), Missing("out")}, Ret(MinusOne \cup Count)),
     When({Given("buf"), Given("out")}, Into({"out"}, Ret(MinusOne \cup Count))),
     When({Missing("buf")}, Ret(AnyInt))})) @@
  On({"wctomb"}, Stub({Valid("out")},
    {When({Given("out")}, Into({"out"}, Ret(MinusOne \cup Count))), When({Missing("out")}, Ret(AnyInt))})) @@
  On({"mbstowcs"}, Stub({OrNull("out"), Valid("string")},
    {When({Given("out")}, UpTo("out", "n", Ret(AnyInt))), When({Missing("out")}, Ret(AnyInt))})) @@
  On({"wcstombs"}, Stub({ValidFor("out", "n"), Valid("string")},
    {When({Given("out")}, UpTo("out", "n", Ret(AnyInt))), When({Missing("out")}, Ret(AnyInt))}))

PseudoTerminals ==
  On({"rpmatch"}, Returns({Valid("string")}, Zero \cup One \cup MinusOne)) @@
  On({"setkey"}, Returns({Valid("buf")}, Nothing)) @@
  On({"posix_openpt", "getpt"}, Stub({}, {Doing("register", Ret(Descriptor)), Fail})) @@
  On({"grantpt", "unlockpt"}, OkOrFail({Open("fd")})) @@
  On({"ptsname"}, ObjectOrFail({Open("fd")})) @@
  On({"ptsname_r"}, Stub({Open("fd"), ValidFor("out", "n")}, {UpTo("out", "n", Ok), Err(NonZero)})) @@
  On({"getloadavg"}, Stub({ValidFor("out", "n")}, {UpTo("out", "n", Ret(MinusOne \cup Count))}))

(* inttypes.c                                                              *)
WideNumbers ==
  On({"imaxabs"}, Returns({NotLeast("x")}, Count)) @@
  On({"imaxdiv"}, Returns({NotZero("x"), NotLeast("x")}, AnyInt)) @@
  On({"strtoimax", "strtoumax"}, Parses("string", AnyInt)) @@
  On({"wcstoimax", "wcstoumax"}, Parses("string", AnyInt))

(* locale.c: the locale given as a base is freed.                          *)
Locales ==
  On({"setlocale"}, Stub({OrNull("string")}, {Ret(Maybe)})) @@
  On({"localeconv"}, Returns({}, Object)) @@
  On({"newlocale"}, Stub({Valid("string"), AliveIfGiven("locale")},
    {When({Given("locale")}, Freeing("locale", Err(Object))), When({Missing("locale")}, Err(Object))})) @@
  On({"duplocale"}, Stub({Alive("locale")}, {Err(Maybe)})) @@
  On({"freelocale"}, Stub({In("locale")}, {Freeing("locale", Ret(Nothing))})) @@
  On({"uselocale"}, Returns({AliveIfGiven("locale")}, Maybe))

(* libintl.c                                                               *)
Translations ==
  On({"textdomain"}, Stub({OrNull("string")}, {Err(Maybe)})) @@
  On({"bindtextdomain", "bind_textdomain_codeset"}, Stub({Valid("string"), OrNull("path")}, {Err(Maybe)})) @@
  On({"gettext"}, Returns({Valid("string")}, Object)) @@
  On({"dgettext", "dcgettext"}, Returns({Valid("path"), Valid("string")}, Object)) @@
  On({"ngettext"}, Returns({Valid("string"), Valid("buf")}, Object)) @@
  On({"dngettext", "dcngettext"}, Returns({Valid("path"), Valid("string"), Valid("buf")}, Object))

(* iconv.c                                                                 *)
Iconv ==
  On({"iconv_open"}, Stub({Valid("string"), Valid("path")}, {Ret(Object), Fail})) @@
  On({"iconv_close"}, Stub({In("iconv")}, {Freeing("iconv", Ok), Freeing("iconv", Fail)}))

(* regex.c: regcomp and regerror say nothing of what they return.          *)
Regexes ==
  On({"regcomp"}, ReturnsFilling({Valid("string"), Valid("out")}, {"out"}, AnyInt)) @@
  On({"regexec"}, Stub({Valid("buf"), Valid("string"), ValidFor("out", "n")},
    {UpTo("out", "n", Ret(Zero \cup One))})) @@
  On({"regerror"}, Stub({Valid("buf"), ValidFor("out", "n")}, {UpTo("out", "n", Ret(AnyInt))})) @@
  On({"regfree"}, Returns({Valid("buf")}, Nothing)) @@
  On({"re_compile_pattern"}, ReturnsFilling({ValidFor("string", "n"), Valid("out")}, {"out"}, Maybe)) @@
  On({"re_compile_fastmap"}, ReturnsFilling({Valid("out")}, {"out"}, {"0", "-"}))
(* k is the start of a search and k2 its range.                            *)
RegexSearches ==
  LET Searches(needs) == Stub({Valid("out"), ValidFor("string", "n"), NotNegative("k"), OrNull("out2")} \cup needs,
    {When({Given("out2")}, Into({"out", "out2"}, Ret(AnyInt))), When({Missing("out2")}, Into({"out"}, Ret(AnyInt)))}) IN
  On({"re_search"}, Searches({NotNegative("k2")})) @@ On({"re_match"}, Searches({})) @@
  On({"re_search_2"}, Searches({ValidFor("path", "n2"), NotNegative("k2")})) @@
  On({"re_match_2"}, Searches({ValidFor("path", "n2")})) @@
  On({"re_set_registers"}, Stub({Valid("out"), Valid("out2"), ValidFor("buf", "n"), ValidFor("buf2", "n")},
    {UpTo("buf", "n", UpTo("buf2", "n", Into({"out", "out2"}, Ret(Nothing))))}))

(* arpa/inet.c                                                             *)
Addresses ==
  On({"inet_addr", "inet_network"}, Returns({Valid("string")}, AnyInt)) @@
  On({"inet_ntoa"}, Returns({}, Object)) @@
  On({"inet_pton"}, ReturnsFilling({Valid("string"), Valid("out")}, {"out"}, AnyInt)) @@
  On({"inet_ntop"}, Stub({Valid("buf"), ValidFor("out", "n")}, {UpTo("out", "n", Ret(Object)), FailNull})) @@
  On({"inet_net_ntop"},
     Stub({ValidFor("buf", "n2"), ValidFor("out", "n")}, {UpTo("out", "n", Ret(Object)), FailNull})) @@
  On({"inet_aton"}, ReturnsFilling({Valid("string"), Valid("out")}, {"out"}, Zero \cup One)) @@
  On({"inet_neta"}, Stub({ValidFor("out", "n")}, {UpTo("out", "n", Ret(Object)), FailNull})) @@
  On({"inet_net_pton"}, FillsUpTo({Valid("string")}, "n", Count))

(* mntent.c, stdio_ext.c                                                   *)
Mounts ==
  On({"setmntent"}, Stub({Valid("path"), Valid("string")},
    {Doing("register stream", Ret(Object)), FailNull})) @@
  On({"getmntent"}, Returns({Alive("stream")}, Maybe)) @@
  On({"addmntent"}, Returns({Alive("stream"), Valid("buf")}, Zero \cup One)) @@
  On({"endmntent"}, Stub({Alive("stream")}, {Freeing("stream", Doing("free fd of stream", Ret(One))), Err(One)})) @@
  On({"hasmntopt"}, Returns({Valid("buf"), Valid("string")}, Maybe))
StreamStates ==
  On({"__fbufsize", "__freading", "__fwriting", "__freadable", "__fwritable", "__flbf", "__fpending"},
     Returns({Alive("stream")}, AnyInt)) @@
  On({"__fpurge"}, Returns({Alive("stream")}, Nothing)) @@
  On({"_flushlbf"}, Returns({}, Nothing)) @@
  On({"__fsetlocking"}, Returns({Alive("stream")}, {"1", "+"}))

Stdlib == Numbers @@ MoreNumbers @@ RandomStates @@ Random48 @@ Blocks @@ ExitsAndNames @@ NamesOfFiles @@
  Sorting @@ Conversions @@ MultibyteStrings @@ PseudoTerminals @@ WideNumbers @@ Locales @@ Translations @@
  Iconv @@ Regexes @@ RegexSearches @@ Addresses @@ Mounts @@ StreamStates
=============================================================================
