# A TLA+ specification of MOPSA

MOPSA is a static analyser built as a tower of abstract domains: statements and
expressions of a program are sent to domains through one recursive `exec` and
`eval`, and what comes back is a *flow*, a map from control tokens to abstract
environments together with a report of alarms. Around the analyser there is a
build tool that records how a C project was built, a translator from the syntax
tree of Clang to OCaml, and contracts (stubs) for the C library, with abstract
domains for what the contracts mention.

This directory holds TLA+ modules for the parts of MOPSA whose control is
intricate, TLC configurations that check them on small instances, and TLAPS
proofs of what matters most, for all values of the parameters.

Contents: 1. inventory. 2. modules and how they relate. 3. runs. 4. proofs.
5. divergences found. 6. not modelled. 7. plan. 8. running the tools.


## 1. Inventory

### The analyser

The analyser is one sequential process. What makes it hard is recursion through
shared mutable state (caches, contexts, hook flags), the order in which flows are
split and merged again, and fixpoints that have to be both sound and finite.

| Component | State it keeps | Operations | Interacts with |
|---|---|---|---|
| flows (`framework/core/flow.ml`, `token.ml`) | token map, report, context | join, widen, subset, set, add, remove | everything |
| loop iterator (`universal/iterators/loops.ml`) | the iterate, budget and delay, flows collected while unrolling | unroll, lfp, decreasing iteration, exit | `man.exec` on condition and body, tokens break and continue |
| graph iterator (`cfg/iterator.ml`, `utils/containers/graph.ml`) | an environment per node, a cached post per edge, counters per component | order, propagate, stabilise, refine, clean up | `man.exec` on edges, tokens named after nodes and edges |
| function inlining (`universal/iterators/interproc`, `utils/core/callstack.ml`) | callstack in the context, names of live variables, return flows put aside | init_fun_params, exec_fun_body, inline, check_recursion, return | `man.exec` on bodies, cleaners run by the toplevel |
| cache (`framework/core/cache.ml`) | two rings of results | find, add, exec, eval | brackets every `exec` and `eval`, so it nests with itself |
| toplevel and hooks (`framework/toplevel`, `core/hook.ml`) | flag "inside a hook", tables of active hooks | exec, eval, ask; activate, deactivate | cache, domains, engines |
| engines (`framework/engines`) | depth, callstack, stack of locations, breakpoints | one action per `exec`/`eval`, commands of the user | toplevel |
| cases, DNF, contexts (`core/cases.ml`, `utils/core/dnf.ml`, `core/context.ml`) | alternatives with flows and cleaners, one shared context | bind, join, meet, remove duplicates | every transfer function |
| combinators (`framework/combiners`) | pairs of domains, effects on shared states | exec, merge, reduce | domains |
| alarms (`core/alarm.ml`) | checks by range and callstack | add, join, meet | flows |
| goto and switch of C (`c/iterators`) | a token per label or case | stabilise, label, goto | flows |
| cache of functions (`interproc/sequential_cache.ml`) | signatures in the context | find, store | inlining |
| heap recency (`universal/heap`) | pool of recent and old addresses | alloc, free, collect | memory domains |
| numeric values (`utils/itvUtils`, `congUtils`) | none | arithmetic, wrap, widen | value domains |
| stub language (`languages/stubs/body.ml`, `c/cstubs`) | none between calls | requirements, assumptions, cases and their join, ignored cases, assigns, free | the contracts, every domain of C |
| contracts of the C library (`share/mopsa/stubs/c/libc`) | none: a requirement, cases, results, errors, resources for each function | call | stub language, file descriptors |
| file descriptors (`c/libs/libc/file_descriptor`) | a slot for each of the descriptors 0, 1, 2; a table from addresses to intervals | insert first, insert at, find, remove, join | contracts that register, find or free |
| memory of C, Python | cells, objects, addresses | transfer functions | all the above |

What makes them correct:

- *Iterators.* Every concrete execution and every alarm of the iterated code is
  covered by the flow returned, whatever the options; flows of the enclosing
  code come back untouched; the iteration ends.
- *Calls.* Live activations do not overwrite each other's variables, no
  execution is lost when return flows are swapped, the callstack is the list of
  live calls, nothing of a call outlives it, and recursion is cut.
- *Caches.* An answer is what computing again would give: the newest result of
  that key, never one of another key or an older one.
- *Engines and hooks.* Stacks mirror the recursion, also after an interrupt.
- *Arithmetic.* The result contains every concrete value.
- *Contracts.* A contract refuses the calls that are not defined, accepts those
  that are, and one of its cases describes whatever the function may do: what no
  case describes is a path the analysis drops without a word.
- *File descriptors.* The interval of a new descriptor contains the descriptor the
  kernel gives, an open one is found, a closed one may be given again.

### The build tool

`mopsa-build` runs a build with wrappers in place of `gcc`, `ar`, `rm`, `mv`,
`cp` and `ln`. Each wrapper process updates one shared database file and then
becomes the real tool. Under `make -j` these processes run concurrently and share
the file and the file system; any of them may be killed. The database is correct
when it says, for each built file, which sources are really in it.

Hard behaviours: read-update-truncate-write under an advisory lock, a file that
is for a while empty or torn, updates done before the tool runs and outside the
lock while it runs, entries that hold copies of other entries, directories whose
existence is read from disk.

### The translator of C

`Clang_to_ml.cc` walks the syntax tree of Clang in C++ and builds the values of
the OCaml types of `Clang_AST.ml` block by block: it allocates a block with a tag
and a number of fields and stores into field number `k`. OCaml reads it back with
no check at all. Some 200 translators are composed of macros; most keep a cache
from the address of a node to its block, so that sharing is kept and cyclic trees
(a `struct` that points to itself) end.

What makes it correct: each block has the tag and the fields the OCaml type
declares; what a field holds is the translation of the child it stands for; a node
is translated once; the recursion ends. Hard behaviours: the order between the
allocation of a block, its entry in the cache and the translation of its fields;
caches shared by translators; the growth of a cache while indices into it stay.


## 2. Modules

    Flows ──────────┬── LoopIterator ── MC_LoopIterator      LoopIterator_proofs
                    └── CfgIterator ─┬─ MC_CfgIterator       CfgIterator_proofs
                            Wto ─────┘ (INSTANCE)
    Interproc ── MC_Interproc                                Interproc_proofs
    AnalysisCache ── MC_AnalysisCache                        AnalysisCache_proofs
    AtomicDb <── (refinement) ── BuildDb ──┬── MC_BuildDb    BuildDb_proofs
    DbOps ── BuildTools ───────────────────┤
                                           └── BuildSequence ── MC_BuildSequence
    ClangAst ─────────────────────────────────────┐
    ClangDeclTables, ClangExprTables,             ├─ ClangLayout ── MC_Clang
    ClangTypeTables, ClangSwitches                │          ClangLayout_proofs
       └── ClangTranslators ── ClangToMl ─────────┘
    StubContracts ─┬─ UnistdStubs, StdioStubs, ───┬─ LibcCalls ── MC_LibcCalls
                   │  SystemStubs, StdlibStubs    │
                   └─ Posix ──────────────────────┘
    FileDescriptors ── LibcDescriptors ── MC_LibcDescriptors  LibcDescriptors_proofs

**Flows.** `flow.ml` and `token.ml` over an arbitrary lattice of environments
(constants `Env`, `EnvLeq`, `EnvJoin`, `EnvWiden`, and the concretisation
`Gamma`, which is not in the code and gives the comments of `lattice.ml` their
meaning). A flow is a record `[tmap, report]`; a token absent from the map is at
bottom, as in the code. Contexts and the token map "top" are left out.

**LoopIterator.** The whole handler of `S_while`. One action for each way a call
of `unroll` or `lfp` may go on (`UnrollExhausted`, `UnrollStable`, `UnrollMore`,
`LfpConverge`, `LfpWiden`, `LfpDelay`), one for the decreasing iteration and one
for the exit, which puts the break and continue flows of the enclosing loop back.
The body and the condition are a parameter `Transfer` constrained only to cover a
concrete semantics `Sem`, `Errors`; it may be non-monotone. The concrete loop is
defined by `Heads`, the least set closed under its iterations.

**CfgIterator** and **Wto.** The graph iterator as a stack of `tasks`: the
recursive functions `analyze_component`, `fix_component` and `refine_component`
become tasks that push others. Environments and edge posts, which the code keeps
on tokens named after nodes and edges, are variables beside the flow. `Wto` is the
weak topological order of the graph library, a recursive depth-first visit;
`CfgIterator` takes the order as a parameter so that it stays free of recursive
operators, and `MC_CfgIterator` gives it the one `Wto` computes. The nested list
of the code is flattened: a sequence of nodes, and for each position that is the
head of a component the position where the component ends. A list task visits the
positions of its component one after the other; at the head of another component
it starts `Fix` and goes on behind its end. `OrderValid` says what the iterator
needs of the order: every node once, the entry first, components nested, each edge
forward or back to the head of a component it starts in, and no edge into a
component but to its head.

**Interproc.** Inlining: `Enter` (parameters, renaming, push, return flows put
aside), `Ignore` (recursion limit), `Leave` (return flows become the value of the
call, locals removed, pop, cleaners run at the end of the caller's statement),
and the statements around. Environments are exact, sets of stores, so that a
wrong value can only come from the handling of calls; each store carries the
values the real execution has, which the properties compare with. A history
variable tells whether a call was made that the renaming may not tell apart from a
live one (from the site of a live call, or of a live function without parameters,
which is never renamed) and whether a call was ignored. `ProgramsAssumption` says
what programs are: bodies use the variables of their function and globals, locals
are set before they are read, calls are direct and their value is used, so that a
function returns where its body ends. TLC checks it for the programs of the runs.

**AnalysisCache.** `exec` and `eval` have the same ring (their differences are
the type of the result and the key). `Miss` starts a computation, other lookups
happen inside it, `Compute` ends the innermost one and adds its result, `Raise`
abandons some of them. The history variable `log` is the list of all results.

**BuildDb.** The processes of a parallel build: one action per system call of
`open_db`, `read_db`, `write_db` and `close_db`, then the tool; a kill may hit
any process at any time and frees its lock. `WritePart` is a buffered write that
has not been flushed: the file is torn. What a command does to the database and
to the disk is a parameter.

**AtomicDb.** What the file protocol promises: each command updates the database
once, in one step, on the state the previous command left; a death between its update
and its tool may lose the database, a death before its update changes nothing. The
refinement mapping of `BuildDb!Abstract` makes an update take effect when the file
is truncated: from that step on nobody else can read what was there before.

**DbOps, BuildTools, BuildSequence.** `DbOps` is every operation of
`mopsa_build_db.ml` on a database value and the way `Build_wrapper.ml` turns a
parsed command line into these operations. `BuildTools` is what the real tools do
to files, as external definitions. `BuildSequence` composes them into a sequential
build and `MC_BuildDb` into a parallel one.

**ClangAst, the four tables, ClangTranslators.** `ClangAst` is the OCaml side: for
each type the constructors, in order, and the kind of each field. The tables are
the C++ side: for each translator the tag and the fields it stores, in order, each
with the macro it goes through, the translator it calls and the accessor of Clang
it reads. `ClangSwitches` are the enumerations, `ClangTranslators` the table of all
translators with the cache of each and whether it stores before or after its body.

**ClangToMl.** The machine: a stack of frames, one for each translator that is
running, a heap of blocks, and the caches with their maps, indices and OCaml
blocks. Actions are what the macros do: `Enter`, `Hit`, `Miss` (allocate and, for
most, store in the cache), `StoreField` (which starts the translator of a child),
`Return`, `ConstantKind`, `Raise` (an unknown class), `Abort` (a null child that
must not be). A program, the tree of Clang, is a parameter: classes, children
and enumerators. **ClangLayout** compares the heap with `ClangAst` and with the
program.

**StubContracts, UnistdStubs, StdioStubs, SystemStubs, StdlibStubs.** The
contracts of 629 functions, as tables: requirements, cases with their
assumptions, results, errno, outputs and effect on resources. A parameter is
named by its role and an argument has one of a few states (valid, null, closed;
zero or more for a size; negative, zero or more for an integer). `ValidFor` is
`null_or_valid_bytes(p, n)` and `valid_bytes(p, n)`, which are the same: NULL is
accepted when `n` is 0 only. Likewise `UpTo`, an `assigns: p[0, n)`, checks `p` when
`n` is not 0. Flags, modes and bases have a value their contract lists. `StubContracts` is also what the analyser makes of a contract: which cases
apply and whether it raises an alarm, by a requirement, by an `assigns` through
null or by a `free` of what is not alive.

**Posix** (external) says what the functions do: when a call is defined and what
it may return, touch and fill. **LibcCalls** puts the two side by side: `Call`,
`Analyse`, `Return`, `NextCall`. Five sets name the contracts known to differ
(`NullRefused` and `NumberRefused`, for the calls with such an argument only;
`NotRefused`, `ErrnoKept`, `LeftOut`), so that what holds of all the others can be
stated; section 5 says what is wrong with them. Each name is needed: TLC finds a
counterexample without it.

**FileDescriptors.** `slot.ml`, `table.ml` and `domain.ml`: a slot is a pair
(may be free, addresses it may hold), the table an interval for each address and
the support, what is certainly in it. `NewItv` is a recursive function over the
addresses in the order in which the code visits them: its sort compares a value
with itself.

**LibcDescriptors.** A program that opens, duplicates and closes descriptors in
any order beside a kernel that gives the smallest free one. Each action is a call:
what the kernel does, and the abstract state of the success joined with that
of the failure unless `-stub-ignore-case` drops the failure. `met` records the
situations the domain does not handle (section 5); the properties are stated up
to them. `Options` are the values of the option, any sets of stubs.

Definitions whose comment starts with "Fault:" are wrong variants of the
definition that follows them. No specification uses them; replacing the real
definition by one of them must make TLC report the property it is about.


## 3. Runs

| Run | Question | Bounds | Result |
|---|---|---|---|
| `loop` | Is the loop iterator sound under every combination of options, does it give the enclosing loop its flows back, does it end? | every loop over three values: any condition, any body that assigns, breaks, continues or returns; bodies analysed by a function that is not monotone; unrolling 0-2 and full, delay 0-1, with and without decreasing iteration; three entry flows | holds, 381,228 states |
| `cfg` | Is the order valid, is the iteration sound where widening does not jump, does it end? | every structured graph of four nodes whose edges are a test or an increment, three values; delay 0 and 9 | holds, 344,652 states |
| `cfg_widening` | Does the iteration go on until the head is stable? | `while (c) x = f(x)` for every `f` on five values, delay 0 | violated |
| `interproc` | Do calls keep activations apart, paths, callstack, memory and depth? | three functions and main, 114 programs, recursion limits 1 and 2 | holds, 2,813 states |
| `interproc_sum` | Does renaming keep the activations of a recursive function apart? | `f(x) = x + f(x - 1)`, limit 2 | violated |
| `cache` | Is the ring a memory of the last results? | rings of 0 to 4 slots, three keys, six results, nesting of three | holds, 31,713 states |
| `build_db` | Is the file protocol an atomic database, does the database follow the files of a parallel build, does a process that opened the database end? | seven dependent commands, one analysis, one kill, fair scheduling | holds, 18,112 states |
| `build_sequence` | Does the database describe the files after any sequence of commands? | eighteen commands, up to nine of them in a row | holds, 263,394 states |
| `clang` | Has every block the layout OCaml reads, do blocks form the graph of the program, is sharing kept, does it end? | a program for each class with and without its optional children, for each enumerator, and cyclic ones; caches of two words | holds, 49,189 states |
| `libc_calls` | Does each contract refuse what is undefined, accept what is defined and describe all that a call may return? | 629 functions, each with every state of its arguments and every outcome | holds, 12,392 states |
| `libc_descriptors` | Does the domain know what is open, what is closed and what is returned? | four calls, two call sites, two variables, with failures and without | holds, 468,053 states |
| `libc_smallest` | Is the smallest available descriptor among the results? | three calls, one call site used once or twice, with failures | violated |

### Why these bounds

- *Loops.* Three values make chains long enough for widening to jump past the
  fixpoint, for the decreasing iteration to come back, and for a loop that
  breaks in one iteration, continues in another and reports in a third. Two
  unrollings separate "first", "last" and "between"; a budget of two with a loop
  that is stable after one exercises the early stop. Without widening an exact
  iteration on three values would end all the same; the one of a body that is not
  monotone would not.
- *Graphs.* Four nodes are the fewest that hold a loop within a loop with an exit
  beside them. A graph is structured when each of its cycles goes through an edge
  back to a node that dominates the source of that edge, as in what `cfg/frontend.ml`
  builds. Delay 9 is longer than any iteration on three values, hence never widens;
  delay 0 always does. An execution of these graphs has at most twelve steps
  (`MaxSteps`).
- *Calls.* Limits 1 and 2 are "no recursion" and "one nested call". Each source
  of interference (a return before a nested call, a nested call in an assignment or in
  a return, another token, mutual recursion, a function without parameters) is in
  some program. Values wrap at four, in the stores and in the real executions alike.
- *Cache.* Six results go round a ring of four once and a half, and round smaller
  ones more often. Keys are only compared: they are symmetric.
- *Build.* Seven commands have two that may run in parallel before and after
  every join. One kill reaches each point of each process; the proofs of section 4
  cover any number. In `build_sequence` nine commands allow for compiling,
  archiving, copying, overwriting, moving, linking and deleting in one run.
- *Translator.* A layout does not depend on how deep its node is: one node of each
  class, below the shortest path from the root that reaches it, is enough. Two
  words make every cache grow. Cyclic programs are the ways a declaration can reach
  itself.
- *Contracts.* Functions are stateless: one call of each, with every combination
  of arguments, is everything the tables say.
- *Descriptors.* Four calls are enough for a descriptor to be closed, given again,
  duplicated and closed again; two sites are enough for two addresses in a slot, a
  table of two and a site that runs twice. The run has no failure or every failure
  ignored. Its five properties are proved for any number of calls, sites and variables,
  and for any failures ignored.

All bounds are constants: `MaxValue`, `MaxUnroll`, `MaxDelay`, `MaxDepth`,
`MaxResults`, `MaxCrash`, `MaxCommands`, `MaxCalls`, and the depth of the stack in
`ClangToMl`. Deadlock is not checked, because a
handler that has returned, a build that is over and a program that has ended have
no next step; the liveness properties say that they do get there.

### Fairness

The analyser runs alone and a handler is never suspended, so `LoopIterator` and
`CfgIterator` assume weak fairness of `Next`. It is spelled out as
`<>[]done \/ []<><<Next>>_vars`, which is the same since `Next` is disabled
exactly when the handler has returned, and much cheaper for TLC than `ENABLED`.
`BuildDb` assumes weak fairness of every process, the scheduler of the operating
system; nothing forces a kill. `lockf` itself is assumed weakly fair only per
process: with a finite build, waiting for the lock ends because the other
processes do.

The other runs check safety only.


## 4. Proofs

| Module | Theorem | Property |
|---|---|---|
| `LoopIterator_proofs` | `TypeCorrect` | `TypeOK` |
| | `LoopSoundness` | `Soundness` |
| | `LoopKeepsEnclosingFlow` | `EnclosingFlowKept` |
| `BuildDb_proofs` | `TypeCorrect`, `MutualExclusion`, `NoSpuriousFailure` | `TypeOK`, `LockExclusive`, `FailureNeedsCrash` |
| | `ReadersSeeCommitted` | `ReadsCommitted` |
| | `Refinement` | `AbstractSpec` |
| | `BuildIsFollowed` | `DbFollowsBuild`, when the commands agree one by one |
| `AnalysisCache_proofs` | `TypeCorrect`, `RingIsThePast` | `TypeOK`, `RingHoldsLog` |
| | `CacheFindsRecent`, `HitsAreNewest` | `FindsRecent`, `HitIsNewest` |
| `LibcDescriptors_proofs` | `ClosedSlotFree`, `OpenDescriptorFound` | `ClosedFree`, `OpenFound` |
| | `ReturnedInInterval`, `SupportIsOpen` | `ReturnedCovered`, `SupportOpen` |
| | `ClosedIsRefused` | `ClosedRefused` |
| `Interproc_proofs` | `CallstackIsCalls`, `RecursionIsCut` | `CallstackTrueBefore`, `DepthBounded` |
| | `NoPathLost`, `CallsCleanUp` | `PathsOnce`, `NothingLeft` |
| | `FramesStayApart` | `FramesTrueApart` |
| `CfgIterator_proofs` | `CfgTypeCorrect`, `CfgKeepsEnclosingFlow` | `TypeOK`, `EnclosingFlowKept` |
| | `CfgSoundness` | `SoundnessUnlessJumped`, when the order is valid |
| `ClangLayout_proofs` | `ClangTypeCorrect`, `CachesAnswer` | `TypeOK`, `CacheSound` |
| | `SharingIsKept` | `SharingKept` |
| | `GraphIsFaithful` | `GraphFaithful`, under `OneTranslator` |
| | `LayoutIsRight` | `LayoutAgrees`, under `AgreeingPrograms` |
| | `SmallTreesFit` | `NoOverflow`, under `FittingPrograms` |

**Loops.** Assumptions: the lattice laws of `LatticeAssumption` (join and widening
are upper bounds, `EnvLeq` implies inclusion; nothing about least upper bounds,
monotony or finite height), `TransferAssumption` (a statement covers its concrete
semantics), `SemAssumption` (a condition neither breaks nor continues) and
`OptionsAssumption`. Soundness is not inductive: before the end the flow says
nothing of the exits. The invariant `IInv` adds, while unrolling, that every head
of the concrete loop is still *ahead* (it is a head of the loop entered from the
current iterate) or its ways out are already collected (`Unrolled`); once lfp
has converged, that the flow holds all the heads that were ahead and the ways
out of all of them (`Stable`). `Stable` follows because a converged iterate is
closed under iterations and contains the entry, while `Heads` is the least such
set. The decreasing iteration starts from an empty report and without exits, and
the lemma `DecrStep` shows that one more iteration from a closed set finds them
all again. Termination depends on the widening and is left to TLC.

**Build database.** Assumptions: readers and wrappers are disjoint, the debris of
a write is no database, and an update yields a database. `IInv` adds to the
properties that only wrappers write, that a process between its read and its
write holds what is in the file (so no update is computed from a stale read), and
that an unreadable file is being rewritten or was left by a kill. The refinement
is proved by one lemma for each kind of step: `SilentSteps` (nothing changes in
the abstract state), `UpdateApplies`, `ToolRuns` and `DeathIsSeen`.

`BuildIsFollowed` uses the same lemmas for what the database says. Its hypothesis,
`CommandsAgree`, is about the commands and no longer about processes: when each update and
each tool is one step, in any order that make allows, and nobody is killed, the database
describes the files whenever every updated command has run. The theorem carries it
over to the protocol, with its locks, readers, half-written files and tools that run
while other wrappers work. Besides `IInv` the invariant says that the commands a
wrapper waits for have ended (`DepsEnded`), and that what is committed, with the sets of
the commands updated and run, is one of the moments of a build done step by step.
`MC_BuildDb` computes all those moments for its seven commands and evaluates the
hypothesis on them (`CommandsAssumption`). What a command does stays with TLC: `DbOps` is
recursive.

**Cache.** Assumption: sizes are naturals. `RingHoldsLog` (the slot `d` places
behind the next one holds the `d`-th last result) is inductive together with the
types; the only step that matters is an addition, which shifts all slots by one
(`SlotsShift`). What a lookup finds is then a statement about the log alone.

**Descriptors.** Assumptions: call sites are finitely many addresses other than
NULL and the three streams, the number of calls is a natural; `Options` and
`Variables` are any sets. `LibcDescriptors_proofs` says first what each operation of
the domain does: a join, a registration, a lookup, a removal. Then it has
three invariants, each inductive with those before it, and one lemma for each call
under each of them.

The first, `IInv`, is about the default, when every stub may fail. A join with the
state before the call takes no possibility away (`AnalysedStep`). So a descriptor of
the window that is closed may be free whatever the program does and in every
situation, also those `met` records. `ClosedMayBeFree` is not inductive: `pclose`
and `closedir` close a descriptor and leave the state alone, which is harmless because
the variable that holds the descriptor got it when its slot could be free
(`HeldMayBeFree`). Only `close` of a constant needs work: the slot of a descriptor that
may not be free holds an address, the case of that address is not bottom, and it frees
the slot (`CloseStep`). Until the domain has to guess (`NoGuess`), a descriptor that is
open is *covered*: its slot holds some address, or an interval of the table contains
it. Nothing is ever known to be open: the support of the table is empty
(`NoSupport`), so the interval of the next descriptor goes one beyond the largest of
the table, which all open descriptors precede (`NewItvIs`, `LowestReturned`).
`Shapes` bounds the addresses (`Top`) and the descriptors of the table (`Bound`, two
more for each call): minima and maxima exist because of it.

The second, `TrackInv`, is about any failures ignored, until a situation is met
(`Plain`). Covering is then too weak: a `close` removes an address, which may be all
another descriptor has. The state has to *describe* the kernel (`Describes`): each
open descriptor is bound to its own resource, no two have the same (`OneOwner`), a
closed one of the window may be free, and the interval of an address of the support
has an open descriptor. A registration is where it may break: the domain tries the
slots in order and stops at the first that is certainly free, and the interval of the
table loses a descriptor the support has for itself. The smallest free descriptor of
the kernel survives both (`RegisterDescribes`): the slots before it are open, so they
are not certainly free unless the domain guesses, and an interval of the support
that is one descriptor is that of an open one. `pipe` registers twice before it joins,
the second time in a state that describes the kernel between the two
(`PipeFirstDescribes`). A join describes the kernel when one of its members has the
labels, another perhaps frees a slot, and the support of the join is open in one of
them (`JoinDescribes`).

The third, `SureInv`, is for `ClosedRefused`: every failure is ignored, and no close had
several candidates (`Sure`). The state then says what is closed too (`Exact`): a slot that is closed
has no address, one that is open is not free, every interval of the table has an open
descriptor, and an address of a slot is nowhere else. So a registration
puts its address at the one descriptor the kernel gives (`Placed`), or in an
interval of the table that contains it, and a close takes from its descriptor all that
is found there, and from no other (`RemovedExact`). A descriptor that is closed is
NULL for `find_addr`, in the window because its slot is empty, and beyond because no
interval is that descriptor alone (`FindUnbound`).

**Calls.** Assumptions: recursion limits are naturals, values go up to a natural,
and programs are well formed (`ProgramsAssumption`); there may be any number of
functions, statements, calls and inputs. `CallstackIsCalls`, `RecursionIsCut` and
`NoPathLost` hold of any programs. Until a call is ignored the callstack is the list of live calls
(`StackIsCalls`, which inlining and returning keep). An ignored call leaves its
site on the callstack, and the next return pops it in the place of its own: from
then on the two lists differ. The limit still bounds the depth, because the live
calls stay embedded in the callstack: `CallsInStack` gives each of them a place of
its own there that holds its site, in the same order (`Embeds`). A push moves all
places by one; a pop takes a place no call but the one that ends may have, since
that one is the innermost (`LeaveStep`). So a site occurs in the callstack at least
as often as it is live, and `check_recursion` counts enough of them (`EnterStep`).

The other three theorems rest on four invariants, each inductive with those before
it. `Followed`: every input has a store in exactly one place, a flow or the return
flows put aside by a live call (in at least one, once a call was ignored); each step
moves the place of an execution or leaves it (`Moved`), and the end of a call moves
both the results of the callee and what its caller had put aside. `Control`: each
activation is a call made by the statement that the one below it is at. `Scoped`: a
store has the globals, and otherwise only variables of live activations; a return
flow of an activation may also have its return variable, and a store put aside is
scoped by the calls below the one that put it aside. The names removed at the end of
a call, locals by `exec_fun_body` and the rest by the cleaners, are all those of the
callee (`UsedWithin`, `CleanWithin`), hence `NothingLeft`. `Faithful`, as long as no
call is made that the renaming may confuse: two activations differ by their sites and,
if they are of one function, by the renaming; each variable of each activation has
its true value, in the flows and in the stores put aside; and a returned value
is the true one. Parameters are bound one after the other, and an argument is read
in a store where the previous ones are already assigned: that is right because no
argument has the name of a parameter of the new activation (`EnterTrue`). The
cleaners run on the flows of the caller, and take nothing of it because names of
activations are disjoint and return variables are no names (`CleanedApart`). That a
function does not fall through its end (`NothingFallsThrough`) needs one more
invariant: nothing goes on after a return.

**Graphs.** Assumptions: the lattice laws, sound transfer functions, finitely many
nodes and ports, statements that leave on ports of their edge or on tokens outside
the graph; and for `CfgSoundness` that the order is valid. This last is a hypothesis
and not an assumption because `Wto` is recursive: run `cfg` shows that the orders
computed satisfy it. `CfgTypeCorrect` and `CfgKeepsEnclosingFlow` need no order.

Soundness has three parts. *Joins*: the value of a node is above all posts that
reach it (`JoinOf` is a fold over a set, by induction on its size). *Regions*: the
executions that start at the head of a component with its current value and stay in
the component. *Progress*, of the stack of functions under way: the stack holds
exactly the components around the position being visited (`StackOK`); a list has
covered the region of its component up to its position; a component that is not on
the stack covers its region from the value its head has now, or from the one an
enclosing list will give it; and a component found stable covers the region of the
value its head had *before* the last iteration, so that what comes back to the head
is below it. The last point is where the property would fail with a widening that
jumps, and where run `cfg_widening` finds that it does: comparing one iteration late
is enough only if the head compared is the join that was computed. When the stack
is empty the graph itself, a region that starts at the entry, is covered.

**Translator.** Assumptions: a cache has at least one word, and `TablesAssumption`, a
fact about the tables that has no parameter and that TLC evaluates: a field that
translates names a translator, no block has two identifiers, and what is stored before
it is filled is not wrapped afterwards. Programs, classes and accessors are
arbitrary, so trees may have any size, sharing and cycles. `IInv` is about the machine: each
call fills a block of its own, made for its node, and is at one of the fields of its
shape (`FrameOK`); in a cache the indices are distinct, none is beyond the last one
given, and each holds a whole block that a translator of the cache made for the key
(`CacheOK`). It survives the doubling of the block because the copy keeps what is
below the last index (`RoomIs`), and it gives `CacheSound`. For `SharingKept`, blocks stored
before they are filled are known to their cache from then on (`Known`), so a call
that misses is the first for its node; that nothing is stored before and wrapped
after is where the tables matter. In `TypeOK` the number of identifiers given is
at most the number of blocks because each block has at most one field for
an identifier, and a call fills its fields in order (`GivenAt`).

`GraphFaithful` speaks of the end; `FaithIn` says it of every moment: what a block already
holds is right, the values the call under way has received stand for the first nodes
of its field, and each call is for the next node of the call below it. A value that
comes from a cache is a block of a translator of the *cache*: that it is one of the
translator asked for holds only if no other translator of the cache is asked for the
same node. This is the hypothesis `OneTranslator`, about the tree and the assignment of
caches and not about the machine. Clang satisfies it since the
classes of the objects that translators of one cache take are pairwise unrelated
(`CacheOf`): the declarations that are also asked for as another class, names first of all,
are so by translators of another cache (`cacheMisc3` for names). `MC_Clang` evaluates
the hypothesis for each of its programs (`SamplesAssumption`), and would find it false if
names shared the cache of the entities they name.

`LayoutIsRight` compares what the machine stores with what OCaml declares. That the
tables of the translators and the declared types agree, except for `Disagreeing` and
`Misnamed` (section 5), has no parameter: `LayoutAssumption`, which TLC evaluates. The
proof is that the machine follows the tables. `LayInv`: a block has the tag of its
constructor, a wrapper holds the record made for it, and each field of another block
is stored as its table says, unless a call under way has yet to reach it (`Pending`). A
field stored by a step stays as it is, for every block but the one on top of the stack is left
alone. The hypothesis `AgreeingPrograms` says of a tree that nothing in `Disagreeing` or
`Misnamed` is asked for; `MC_Clang` evaluates it for each of its programs.

`SmallTreesFit` bounds the depth of the stack by the tree. A translator that shares its blocks
(one with a cache, but for qualified types) stores a block before it is filled, hence two calls under way that share a block are for different pairs of a
translator and a node; between two of them, the calls that share nothing go down a tree without
cycles, whose height is at most `most`. So the depth is at most the number of
sharing pairs times `most + 1`; `DepthInv` says it of each call under way, with the height that
is left below it. `FittingPrograms` asks that this be at most `MaxDepth`. It is evaluated
on the programs of `MC_Clang`, whose `MaxDepth`, 108, is the largest bound of them:
with 107 the assumption is false. Deeper trees may overflow the C++ stack (section 5).

`BasicFacts` has the lemmas shared by these proofs: sequences without a fixed set of
elements, and `SetInduction`. The induction theorems of the library take an operator,
which the provers cannot instantiate; a set of naturals that has zero and the
successor of each member is a first-order formulation they can use.

Model-checked only:

- liveness (`Termination`, `StartedProcessesEnd`): out of the prover's reach;
- `Wto` (`OrderValid`) and `DbOps` (`DbDescribesBuild`): recursive operators, which the
  prover cannot reason about. The theorems that need what they compute,
  `CfgSoundness` and `BuildIsFollowed`, take it as a hypothesis;
- the contracts: tables without constants, which TLC checks entirely.


## 5. Divergences

Runs that end in a violation show that the code does not do what a comment,
an interface or an option says:

- **`cfg_widening`** (`cfg/iterator.ml:172`): `fix_component` compares the head
  with its value before the iteration, but that head was computed at the start of
  the iteration, from posts of the one before. The effect of a widened head is
  never compared with it. Without a jump of the widening the comparison arrives
  one iteration late but arrives, which is `SoundnessUnlessJumped` in run `cfg`.
- **`interproc_sum`** (`interproc/common.ml:210`): variables of nested activations
  are renamed after the range of the call only, so the third activation from one
  site shares the names of the second. `FramesTrueApart` states what does hold.
- **`libc_smallest`** (`file_descriptor/domain.ml`, `insert_addr_first`): the case
  that fills a slot keeps the slots after it as they are when none of them is free.
  After `close(0); close(1); pipe(p)` the program has `p[1] = 1` and the analysis
  `[3, 4]`. The header `mopsa_libc_utils.h:31` promises the smallest descriptor.

Others were met while modelling. They have no run of their own, and the models
follow the code or leave the case out of the inputs.

*Calls and build:*

- a function without parameters is never renamed (`common.ml:201`): part of
  `FramesTrueApart`.
- the site of an ignored call is pushed and never popped (`common.ml:359`):
  `CallstackTrueBefore` states what does hold.
- an object compiled without `-o` is recorded beside its source
  (`Build_wrapper.ml:381`), where compilers write it in the working directory: after
  `cc -c a/x.c` the database lists `a/x.o` and the file built is `x.o`. The commands
  of both runs give `-o` or compile in the directory of the source.
- linking a shared library again keeps the members of the previous link
  (`mopsa_build_db.ml:251`); `MC_BuildSequence` links its library from the same two
  objects each time.
- `db_copymove` moves the entries below a directory to one name when the
  destination does not exist yet (renaming a directory); `MC_BuildSequence`
  copies directories into existing ones only.
- two objects of one base name in a shared library overwrite each other in the
  database, which is right for `ar` and wrong for `cc -shared`.
- `cc x.c -o prog` records an object `x.o` that the compiler does not leave, so an
  entry made by an earlier `cc -c` is overwritten.
- a ring of `n` slots answers from the last `n - 1` results: `FindsRecent` states
  it so.
- `-recursion-limit 0` ignores every call, also those that do not recurse; limits
  start at 1 in the model.
- the tokens of a graph are named after its nodes only: a recursive call would
  iterate the same graph inside itself.
- a loop that is entered beside its head may be visited once only: if no post has
  reached the head when its component is first visited, its value is bottom before
  and after the visit, hence stable, and what the nodes behind it send back to it is
  never looked at. `1: if c goto 2 else 3`, `2: x++; goto 3`, `3: if c goto 2 else
  exit` is such a graph when the test of 1 excludes 2. The
  frontend builds structured graphs only, `Graphs` holds no other, and the last
  conjunct of `OrderValid` is where the proof needs it.

*Translator* (`MC_Clang` leaves out the programs of the first, fourth and fifth
item, so that `LayoutAgrees` is about all the others):

- `ChooseExpr` (`Clang_to_ml.cc:2340`) allocates five fields, the third being
  `getLHS`; `Clang_AST.ml:1048` declares four, the third a Boolean. OCaml reads
  an expression as a Boolean and the wrong branch.
- a qualified type enters its cache after its type is translated (4258), so that
  a type that contains itself is translated to two blocks, against the comment on
  sharing (160). `SharingKept` excludes qualified types.
- the cache of locations is keyed by the raw location only (515-545).
- a template argument stores a range where OCaml has a location (1926-1937).
- `UnaryTransformType` stores three fields where OCaml has one record; C++ is
  translated to the constant of C (985); `CXXOperatorName` is always `OO_New`;
  `FieldDecl` allocates twelve fields of which OCaml reads eleven.
- `BuiltinBitCastExpr` and enumerators without a branch raise; `__array_rank(T)`
  aborts on its null dimension; very deep trees overflow the C++ stack.

*Contracts* (the five sets of `LibcCalls`):

- `select`: `return <- __nfds` is lexed as `return < -__nfds` (`sys/select.c:38`),
  which excludes every success: what follows the call is not analysed.
- `atexit` and `at_quick_exit` return 1 when they succeed, and their array may be
  filled one past its end (`stdlib.c:800-850`).
- `null_or_valid_bytes(p, n)` is `if n > 0 then valid_bytes(p, n)` (`mopsa.c:94`),
  which refuses NULL whenever `n` is positive, so these raise a false alarm
  (`NullRefused`): `realpath(p, NULL)`, `getcwd(NULL, n)`, `tmpnam(NULL)`,
  `ctermid(NULL)`, `cuserid(NULL)`, `setbuf(f, NULL)`, `setbuffer`, `setvbuf` and
  `fmemopen` with no buffer, `wctomb(NULL, c)`, `mblen`, `mbtowc` and `wcstombs` with
  NULL and a size, `recvfrom` with no address and a size.
- others refuse a NULL that the functions take: the hints of `getaddrinfo`, the
  domain of `dgettext`, the protocol of `getservbyname`, the prefix of `perror`, the line
  `getline` is to allocate, the path of `freopen` and `acct`, the groups `getgrouplist`
  only counts, the change `adjtime` only asks for.
- `select` and `pselect` require a positive number of descriptors (`sys/select.c:32`),
  though `select(0, NULL, NULL, NULL, &t)` is a way to sleep; `getgroups`, `getpgid`,
  `setpgid`, `getsid`, `tcsetpgrp`, `mkstemps`, `initstate` and the searches of `regex.c`
  refuse numbers that are answered with an error, `div` the least divisor, and
  `getnameinfo` a call with room for neither name (`NumberRefused`).
- `tcgetattr`, `cfmakeraw`, `strftime`, `open_memstream` do not mention an output;
  `clock_gettime` accepts NULL and `gcvt` NULL with a size of 0; `fflush` accepts a stream
  that was closed, since `x in File` holds of freed ones (`NotRefused`).
- the success of `getgroups` assumes a positive size (`unistd.c:767`): asked for the
  number of groups, it can only fail. `timespec_get` fails with -1 where the function
  gives 0 (`time.c:470`). `getsockopt` with no value leaves out the size it writes.
- many contracts describe failures that leave errno alone (`ErrnoKept`) or leave
  a result out (`LeftOut`); `floor` and `ceil` contradict themselves for large
  numbers.

*Descriptors* (the situations of `met`):

- *guessed*: as in `libc_smallest`; by default only `pipe` and a slot that is
  certainly free after one that is unsure lose a case, since the join with the
  failure covers the others.
- *shared*: `dup` registers the resource it found instead of the one it created
  (`unistd.c:375-390`), and a site that runs twice registers its address twice, for
  the domain ignores the renaming of addresses: closing one closes both. `dup2` to
  a closed target that has a candidate all the same does not register it. In
  `u = open`, `close(u)`, `close(1)`, `v = open`, `v = open`, `close(u)`, `close(2)`,
  `dup2(0, v)`, `dup2(0, 2)`, with the failure of `open` alone joined, the last call opens
  2 in the kernel and leaves the state alone, where 2 may be what the call before it
  registered for `v`; a second `close(u)` removes that.
- *left*: `pclose`, `closedir` and a failed `fclose` keep the descriptor of the
  stream they release.
- with the failure of `close` joined, `find` never answers NULL for a slot that
  was used: no use after close is refused by default. `ClosedRefused` is about
  analyses that ignore failures.


## 6. Not modelled

- *Planned (section 7):* interactive engine and hooks, goto and switch, cache of
  functions, cases and contexts, combinators, integer arithmetic, heap recency.
- *Of the translator:* source locations, comments, diagnostics, target options,
  the macro table and the set-up of the compiler.
- *Of the contracts:* contents of buffers, flags, exact values, predicates over
  arrays; `math.c`, `string.c`, `wchar.c`, `ctype.c` (pure functions of numbers and
  buffers), threads, and the functions without a table.
- *Of the descriptors:* directories, meet and widening of states.
- *Pure data:* containers, printers, options, output, graph editing: no state
  beyond one call.
- *Translations:* the parsers and frontends map one syntax tree to another.
- *Out of reach of a short model:* floating-point rounding (C stubs that switch
  the mode of the processor), Apron (a library), cells over every C type, the
  object model of Python.
- *Inside modelled parts:* the loop cache (it cannot be switched on), contexts of
  flows and of cached results, `-split-returns`, calls without a value, edges with
  several sources, the parsing of command lines, the search of libraries on disk,
  commands of a build that fail.


## 7. Plan

1. *(done)* `Flows`, `LoopIterator` with proofs; `BuildDb`, `AtomicDb` with
   proofs; `DbOps`, `BuildTools`, `BuildSequence`; `AnalysisCache` with proofs;
   `Interproc` with proofs; `Wto`, `CfgIterator` with proofs; the translator; the
   contracts of the C library and the domain of file descriptors; proofs of
   the translator and of the descriptors.
2. `GotoIterator` over `Flows`: labels, jumps and `S_c_goto_stab`; soundness
   against the concrete body with jumps, jumps pending at entry kept, termination;
   soundness proved with the lemmas on flows of the loop iterator.
3. `InteractiveEngine` with the toplevel: depth, callstack and location stack
   against the recursion of `exec`, the hook flag, an interrupt at any point.
4. `IntItv` and `IntCong`: operators against sets of values, `wrap` at the bounds
   of a type; containment proved for the linear operators and the lattice.
5. `FunctionCache`: signatures around `Interproc`, compared with inlining.
6. `Cases` and contexts: bind and join thread the newest context; then products
   and their effects.
7. Heap recency: a recent address stands for one object.
8. Proofs: for each module above its type invariant and main safety property. The
   present modules have theirs, but for what section 4 leaves to TLC.

Each module comes with one run that asks all its questions. Runs whose divergence
is explained by a property of a passing run (`FramesTrueApart`,
`CallstackTrueBefore`, `SoundnessUnlessJumped`) give way first when the list of
runs gets too long to be useful.


## 8. Running

    tlasany LoopIterator.tla
    tlc -workers 2 -config MC_LoopIterator.cfg MC_LoopIterator
    tlapm LoopIterator_proofs.tla

`PROJECT.json` lists the components, the runs with their properties, a wrong
variant for each property, the source lines behind each definition, the findings,
the hazards and the theorems.
