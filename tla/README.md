# A TLA+ verification of Mimick

Mimick is a C library for mocking and stubbing functions of a running program.
It rewrites the global offset table (GOT) so that calls of a function reach a
*trampoline*, which notes which stub it belongs to and jumps to a replacing
function. On top of stubs it builds mocks: contracts (`mmk_when`),
verifications (`mmk_verify`) and a record of the calls made.

## The system and its parts

| Part | State | Operations | Model |
|---|---|---|---|
| Stubs and mocks over the GOT (`stub.c`, `mock.c` creation/destruction, `mmk_reset`) | GOT slots, saved values, stub lists | create, destroy, reset | `Stubs`, abstract `Interposition`, refinement `StubsRefine`, proofs `StubsProofs` |
| Trampolines (`trampoline.c`, `asm/`, `threadlocal.h`) | code pages; registers and stack of a call; thread-locals `ask_ctx`, `mmk_ctx_` | map, unmap, run | `Trampoline`, `MCTrampoline`, proofs `TrampolineProofs` |
| Target strings (`plt.c`) and the offsets array (`plt.h`) | none | parse; save, write, put back | `Plt` |
| Back-ends (`plt-elf.c`, `plt-mach-o.c`, `plt-pe.c`) | tables of the loaded objects (read), slots (written) | resolve a scope, find slots, write, put back | `Loader`, `MachO`, `PE`, composed by `BackEnds`, checked by `MCLoader`, proofs `LoaderProofs`; `Loader` used by `MCStubs` |
| Symbol lookup (`plt_get_real_fn` and the hash tables) | none | find a definition | `Lookup`, `Tables`, checked by `MCVitals`, proofs `VitalsProofs` |
| Vital functions (`vitals.c`, `core.c`) | pointers to the real `malloc`, `abort`, ...; `initialized` | `mmk_init`, `mmk_panic` | `Vitals`, `MCVitals`, proofs `VitalsProofs` |
| Mock API (`mock.h` stub body, `when.h`, `verify.h`, `when.c`, `matcher.c`) | contracts, call counts; thread-locals `matcher_ctx`, `mmk_ctx_`, `mock_called`, `times`, `cur_result` | when, verify, call, reset, and the client code they call back | `Mocks`, abstract `MockContract`, refinement `MocksRefine`, checked by `MCMocks` and `MCMockCrews`, proofs `MocksProofs` |
| Matchers and verdicts (`matcher.h`, `mock.h`, `verify.c`) | none | insert a matcher, match, judge a count | `Matchers`, used by `Mocks`; `Expressions`, checked by `MCMatchers`, proofs `MatchersProofs` |
| Preprocessor library (`preprocess.h`) and `mmk_mock_define` | none | expand a signature | `Preprocess` and `Signatures`, checked by `MCMatchers`, proofs `MatchersProofs` |
| Call log (`verify.c`, walk in `mock.c`) | `call_data`, size, top | register a call | `CallLog`, `MCCallLog`, proofs `CallLogProofs` |

How they interact: `mmk_mock` calls `mmk_stub_create` once or twice; a stub asks
the back-end for slots and writes its trampoline into them; a call through a
slot runs the trampoline, which sets the thread's `mmk_ctx_` and enters the stub
body that `mmk_mock_define` expanded; the body decides by the thread's
`matcher_ctx` whether it makes a contract, counts calls for a verification, or
records the call in the call log and obeys a contract, calling back into client
code (`then_call`, serializers). `mmk_reset` finds the mock by *calling* the
mocked function with a flag set.

What is hard about it: a saved pointer restored at the wrong time; one function
body with three purposes told apart by hidden thread-local state; re-entrance
from client code in the middle of a stub body; arguments evaluated in an order C
leaves open; ownership of matcher lists; several threads; and a hand-made record
buffer that moves. `PROJECT.json` lists these hazards by line.

What makes each part correct:

* stubs: a slot never leads to a dead trampoline, a covered slot is intercepted,
  an uncovered one reaches its own code; as a whole, a stack of interceptors;
* trampolines: the stub function gets the call as it was made, with its own stub
  as context; a question about the context is answered once, to whom it was put;
* the back-ends: exactly the right slots are patched, and all are put back;
* symbol lookup: a table finds exactly what it has, and reads nothing else;
* vital functions: all of them real and there when `mmk_init` returns, on any
  thread, or a message that does not need them;
* `mmk_mock_define`: every parameter once, under its own number;
* the mock API: each operation does and returns what `mimick.h` says, modes and
  contexts do not leak between expressions or threads, nothing freed is used;
* matchers: a contract accepts what its text says; a verdict is what its keys say;
* the call log: memory-safe layout, exact counts, one record per parameter list
  where equal parameters have equal bytes, and the walk ends.

## Modules and how they correspond to the code

### Stubs, the core

A slot of the GOT holds an address: its own code (`Lazy[x]`, the PLT code that
asks the linker to bind it, or `Real[x]`, the bound function), or a trampoline.
A trampoline is created and destroyed with its `struct mmk_stub`, so both are one
value, a member of `StubId`, which a later allocation may use again. `old[s]` is
the offsets array of `s` with its `oldval` fields. Actions: `mmk_stub_create`;
`CreateMockOne` and `CreateMockTwo` (`mmk_mock_create_internal` with one or two
stubs, the second of which may silently fail); `mmk_stub_destroy`;
`mmk_mock_destroy_internal` (`mmk_reset` on what `mmk_mock` returned) and
`ResetByName` (`mmk_reset` on the function's name, which goes through the GOT);
`Bind`, the dynamic linker.
`SlotsOf` is what the lookup finds; `MCStubs` computes it with `Loader`.

Mimick leaves the order of destruction to the client, and it matters, so it is a
parameter: with `Careful = TRUE` the client destroys a handle only when nothing
newer covers its slots, with `FALSE` it does as it likes. `NameFindsNewest` says
when a client that resets by name is careful without knowing it.

`Interposition` says what this should amount to: a stack of interceptors over
each slot. `StubsRefine` finds the stack as the list of the stubs that cover the
slot (`Stack`), of which the GOT leads to the first and each saved the next; the
last one saved the slot's own code (`Base`). It checks that `Stubs` implements
`Interposition`.

### Plt, Loader, MachO, PE, BackEnds

`Plt` is what the three back-ends share. A string is a sequence of words, of
which `"@"` and `":"` are some, so that cutting it in the wrong place shows.
`NameOf`, `PathOf` and `ScopeOf` are the parsing of `stub.c` and `plt.c`, with
the panic for a target that is none; `SaveAndWrite` and `WriteBack` are the loops
over the offsets array, one slot after another.

Each back-end has the operating system's tables as data and the code's functions
as operators, under the same names (`plt_get_lib`, `plt_get_offsets`, ...):
`Loader` the link map with its two relocation tables per object, `MachO` the
images with their indirect symbol table and the three sections of pointers, `PE`
the modules with their import descriptors. `BackEnds` is a program of one of these
formats in which one stub is made, or refused, and destroyed: the programs (`Program`)
and the target strings (`Target`) are constants, and `BackEndsAssumption` says what a
linker makes and what a target string is. `MCLoader` gives them values: every program
of three objects with short tables. An object has `defs` beside its tables, the names it
defines: the code never looks at them, but the documentation of `sym:` does. The object
*meant* by a target string (`Meant`) is the documented one, so that `PatchesTheTargetOnly`
and its neighbours have a premise for `sym:`, `ReferrerDefines`: the first object that
refers to the symbol is the first that defines it. `FirstDefinerPatched` leaves the premise
out, and is false (`loader_sym`).

### Lookup, Tables, Vitals

`Lookup` is `plt_get_real_fn`: for ELF the dynamic section (`lib_dt_lookup` and its
guess whether the loader has relocated the addresses), the GNU hash table with
its bloom filter, buckets and chains, and the older one. What comes out is the code of the
symbol that the search has come to, under the name that symbol has, not the name that was
asked for. A read outside a table is the result `Outside`. `Vitals` is `mmk_init`, each lookup and each store
of a pointer a step of its thread. `Tables` says what a linker makes of the tables and a
loader of their addresses (`TablesAssumption`), what a lookup finds in them, and which
definition of a function is the first in load order (`FirstDefinition`);
`MCVitals` builds such tables: imports first, definitions sorted by bucket.

### Trampoline

The assembly of each ABI is a sequence of instructions (`systemv`, `win_gas`,
`win_masm`, `aarch64`, `arm`, `i386`), executed one at a time by `Step`. Pushes and
pops of adjacent registers are one instruction, since nothing else sees the
stack of a thread between them. `StepCall` calls a function of
`stub.c` through the pointer the code has loaded, and leaves junk in every
register that a called function may change. `abi` has all registers that the calling
convention uses for arguments: `ints`, and `floats` for floating-point arguments and the
address of a large result (`x8`). On AArch64 and ARM the code saves the first set only, so
it is a constant on which ABIs mocked functions take arguments of the second
(`Floating`). A page is mapped for a stub and may
be unmapped and used again while other calls are in their routines.

### Mocks

The state is a mock's contracts and counts, the thread-locals, and a stack of
frames per thread for the client code that Mimick runs in the middle of
something. `mmk_when(f(a, b), ...)` is `BeginWhen`, an `EvalArg` per matcher in
any order, `CallMocked` (which runs `Bind`: the body makes a contract), and
`EndWhen`. `mmk_verify` is the same with `Count` and `EndVerify`. `Call` is a call outside call
expressions: it records and answers in one step, except that a variadic mock
first runs the client's serializer (frame `serialize`), and a `then_call` leaves
a `callback` frame. `heap` counts matcher nodes, so that a leak or a double free
shows. `status` becomes `"panic"` at `mmk_panic` and `"ub"` where the code would
use memory it has freed; both end the behaviour.

`MockContract` is the documented API with none of that: contracts newest first,
counts, and the results the client sees in `event`. `MocksRefine` maps one to the
other.

### Matchers, Expressions, Preprocess, Signatures, CallLog

`Matchers` has the operators that `Mocks` and `MockContract` use, and the walk over
the variadic parameters, which goes byte by byte (`mmk_memcmp`). `Expressions` is one
call expression by itself: `EvalArg` evaluates an argument, in an order nobody knows,
and puts its matcher into the list; what the list then accepts is compared with the
documentation of the macros, stated separately (`Documented`). Any number of its
parameters may be variadic, each with a serializer of its own (`Serializes`: a copy has
the size of the type, and different values have different copies). `Verdict` judges one
`mmk_verify`.
`Preprocess` has the macros behind `mmk_mock_define`, each family of numbered
macros as one recursive function. In `Signatures` a program defines mocks, one
signature after the other: `Written` is the argument list of `mmk_mock_define`,
`bodies` what the macros make of it. A list has up to 62 arguments after the name of
the mock (`MaxWritten`): `MMK_LAST` counts one more, and the table of `MMK_VA_NARGS`
ends at 63; with 63 arguments the 64th it finds is an argument, not a number, and the
expansion comes to nothing. `MCMatchers` has `Expressions`
and `Signatures` side by side.
`CallLog` refines the single step of `Mocks` that counts a call: one step per
access to the shared structure, raw pointers as pairs of an allocation and an
offset, `realloc` as a move. Records are compared as bytes, as `verify.c:66` does: those of
the arguments, the padding between them, which holds anything, and in a variadic mock the
address of the pack that its serializers have just allocated, a new one in each call
(`RegParams`). Two equal calls may therefore have a record each; their counters still add
up. `Form` says what the records of a mock are like.

Each module holds a few operators marked *mutant*: variants of a definition with
a plausible slip, unused by the specification, which show that each property
notices such a slip.

## What is checked

| Run | Question | Result |
|---|---|---|
| `stubs_careful` | last-in first-out use: types, no dangling slot, originals restored, interception, reset by name, stacks of interceptors | holds |
| `stubs_alias` | the same, with a `sym:` scope that resolves to the main executable | violated |
| `loader` | the right slots and only those, all tables, reasons to refuse, room for what is stored, round trip, in the three formats | holds |
| `loader_sym` | with scope `sym:` the slots patched are those of the first module that defines the symbol | violated |
| `vitals` | `mmk_init` by one or two threads: what is found, what is missing, that it ends; the hash tables | holds |
| `gnu_empty_bucket` | a lookup reads nothing but the table | violated |
| `trampolines` | arguments, context and answers through the trampolines of six ABIs, with nested calls, two threads and pages used again; on the two ARM ABIs integer arguments only | holds |
| `matchers` | argument order, matching, verdicts, the bodies of mocks | holds |
| `mocks_misuse` | call expressions that call nothing or twice, callbacks | holds |
| `mocks_contract` | one thread with two mocks, or two threads with one, against the documented API; modes, contexts, nothing freed is used | holds |
| `mocks_variadic_when` | contracts for variadic arguments | violated |
| `call_log` | the buffer of calls, with padding and packs; the walk over it ends | holds |

The violated runs are the findings of `PROJECT.json`, each with the line it
contradicts. Other limits of the code are parameters or premises of the models, and
the passing runs stay within them. To see the code break, change them:

* `Careful = FALSE` in `StubsCareful.cfg`: two stubs on one slot destroyed oldest
  first leave the slot leading to a trampoline that is gone;
* `ResetInUse = TRUE` in `MocksContract.cfg`, and `Answer(7, TRUE)` in `ThreadsWhen` of
  `MCMocks`: a `then_call` that resets its mock makes the stub body read a freed contract
  when there is a `then_return`;
* `Reenter = {"serialize"}` and `Variadic = {bar}` there: a serializer that calls
  a mocked function makes the stub body record its call in that other mock;
* `Reenter = {"callback", "stub"}` there: a stub function that calls
  another mocked function gets that other stub from `mmk_ctx` afterwards
  (`OwnContext`), for `mmk_ctx_` is not restored;
* a second thread in `CallLog.cfg`: two simultaneous calls lose a count, or write
  into a buffer that has moved;
* the last conjunct but one of `MCInit` in `MCVitals`: with two threads on a Windows
  whose `vfprintf` is an inline function, one sets the pointer to NULL after the
  other has returned;
* the premise of `OffsetsFit`: a Mach-O image that reaches `f` through `__got` and
  has no call stub for it stores one offset more than it has room for;
* `Only` in `VerdictAsDocumented`: `.at_most = 0` is not a limit;
* `Floating <- MCArch` in `Trampoline.cfg`: v0-v7 and x8 on AArch64 and d0-d7 on ARM are
  arguments too, the C functions that a trampoline calls may change them, and
  `trampoline-aarch64.S:31-34` and `trampoline-arm.S:29` do not save them
  (`ArgsReachRoutine`);
* the premise `Plain` of `OneRecordEach`: padding and the address of the pack are compared
  too (`verify.c:66`), so equal calls may get a record each, every variadic call does, and
  the log grows with the calls;
* the premise of `MatchesAsWritten`: `lt`, `le`, `gt` and `ge` on variadic parameters
  of several bytes compare the low byte first on a little-endian machine;
* `Spec` for `OwnerSpec` in `Trampoline.cfg`: with the emulated thread-locals of
  MinGW a second thread that touches a mock dereferences NULL;
* `Quiescent` in `Trampoline`: a stub destroyed while a thread is in its page.

Bounds, and why they are enough:

* `stubs_careful`: two objects, two symbols, four slots (one object calls `f`
  through both tables) and four stubs: two nested two-stub mocks, or a mock under
  and over bare stubs, and identities used again. Stubs are interchangeable, so
  the run takes their permutations as symmetry.
* `loader`: for each of three ELF objects five choices of first table and three of
  PLT table; for two Mach-O images all choices of two sections and of call stubs; for
  three PE modules two descriptors each; twelve target strings, four of them wrong. Two objects
  answer to one scope, a name stands twice in a table, `"@"` and `":"` stand twice in a
  target. The symbol that `sym:` goes by is defined by the first or the second object
  (`Definer`), and any of them may refer to it; `loader_sym` has the ELF programs where the second
  does.
* `vitals`: six hash functions over seven names, one to three buckets, four bits per
  word of the bloom filter (`MMK_BITS`), 1024 addresses of which the last five have
  the top byte that is never an address (`HighAddr`): names collide in the filter, in
  a bucket, and in all but the low bit; buckets are empty. Two threads.
* `trampolines`: two threads, stubs and pages, calls nested two deep (`MaxDepth`). All
  three are interchangeable and taken as symmetric. Arguments in the registers of floats on
  the three x86-64 ABIs (`Floating`). With emulated thread-locals one
  thread uses mocks (`OwnerSpec`).
* `matchers`: up to three parameters over three values (`MaxArgs`, `Value`), with
  none, one or two of them variadic, all kinds, all orders of evaluation: the list has
  been inserted into at its head, middle and tail. Variadic parameters have one or two
  bytes. Limits go up to 2 and counts to 3 (`Limit`, `Count`): below, at and above each
  limit. Signatures have every length up to `MaxWritten`, with two types of parameters
  in turn and three return types, and with or without a pack. Verdicts and signatures
  are tried after one of the expressions (`OneOfAll`), on which they do not depend.
* `Mocks`: functions of two parameters, two overlapping contracts, two calls of a
  mock (`MaxCalls`, per mock between resets), `MaxDepth` 2 or 3 nested frames,
  `MaxContracts` 2. Resets start a mock again without limit. `mocks_contract` has a crew
  of one thread or of two, with bounds for each (`WithinBounds`): one thread calls the second
  mock once and has no bare stub; two threads have two frames together and call the mock they share
  once between resets, with arguments that both of its contracts accept.
* `CallLog`: records of 1 to 9 units in chunks of 4 and five calls with three
  different parameter lists: a record leaves room, fills a chunk exactly, just
  misses, or needs several chunks at once. One form has padding with two values, two are
  variadic.

Deadlock is checked for `Stubs`, `mocks_contract` and `trampolines`, where it says that no instruction is ever stuck. It is off
where the model may stop: after `mmk_panic` (`mocks_misuse`), at the call bound
of `CallLog`, when all threads have initialised or the process has ended
(`vitals`), and where inputs are enumerated
(`loader`, `matchers`).

Fairness is assumed in two places, both straight-line code of a running thread: a
call that has entered the bookkeeping of `CallLog` goes on (weak fairness of
`Work(t)`; whether a client ever calls is its own business, so `Enter` has none),
and so does a thread in `mmk_init` (weak fairness of `Step(t)`, one thread at a
time, in `MCVitals`). `Stubs`, `Mocks` and `Trampoline` move only when a client does
and claim no progress.

## What is proved

The theorems below hold for every value of the constants that meets the named
assumptions of the module, which TLC evaluates on its runs, and the hypothesis
stated. Each hypothesis marks a limit of the code: without it the property is
false, and TLC finds the counterexample (see the list above).

| Module | Theorems | Hypothesis |
|---|---|---|
| `StubsProofs` | `TypeSafety`, `NoDanglingTrampoline`, `RestoresOriginal`, `Intercepts`, `NewestByName`: the five invariants of `stubs_careful`; `Implements`: `Stubs` implements `Interposition` | `ScopesApart`, `Careful` |
| `TrampolineProofs` | `TypeCorrect` (`TypeOK`), `StubArrives` (`RoutineHasItsStub`), `QuestionsAnswered` (`AskAnswers`) | none |
| | `ArgumentsArrive` (`ArgsReachRoutine`) | `IntegersOnArm` |
| | `NothingFaults` (`NoFault`) | `OwnerSpec` |
| `VitalsProofs` | `TypeSafety`, `RealFunctions` (`VitalsAreReal`) | none |
| | `TablesTell` (`FindsWhatIsThere`) | none |
| | `InitializedIsReady` (`ReadyOnReturn`), `PanicSpeaks` (`PanicCanSpeak`) | `AloneWithFallback` |
| `MocksProofs` | `Isolation` (`ModeIsolation`), `OneCall` (`OneCallPerExpression`, an action property) | none |
| | `ContextIsOwn` (`OwnContext`) | `PlainClients` |
| | `MemorySafe` (`NoUseAfterFree`) | `CarefulClients` |
| | `NoLeak` (`NoMatcherLeak`), `TypeSafe` | `MisuseAlone` |
| | `Implements`: `Mocks` implements `MockContract` | `DirectClients` |
| `MatchersProofs` | `AcceptsWhatIsWritten` (`MatchesAsWritten`), `VerdictStands` (`VerdictAsDocumented`) | none |
| | `ParametersOnce` (`EachParameterOnce`), `BodyFits` (`BodyFitsSignature`) | none |
| `LoaderProofs` | `TargetOnly` (`PatchesTheTargetOnly`), `BothTables` (`CoversBothTables`), `Refusals` (`RefusedForAReason`), `ThereAndBack` (`RoundTrip`), `Fits` (`OffsetsFit`) | none, but for scope `sym:` the premise `ReferrerDefines` of the properties |
| `CallLogProofs` | `TypeSafe` | none |
| | `LayoutHolds`, `CountsExact` (`ExactCounts`) | `OneThread` |
| | `OneEach` (`OneRecordEach`) | `OneThread`, and the premise `Plain` of the property |

* `ScopesApart`: no scope other than self finds a slot of the main executable for
  a mocked symbol. Without it the code is wrong (`stubs_alias`).
* `Careful`: handles are destroyed only while nothing newer covers their slots.
* `AloneWithFallback`: where a PE program's `vfprintf` is an inline function, one
  thread only calls `mmk_init`.
* `PlainClients`: of all the client code that Mimick calls back, only `then_call`
  uses Mimick: neither stub functions nor serializers do.
* `CarefulClients`: that, and call expressions call once and nobody resets a mock
  that a frame still needs.
* `MisuseAlone`: where call expressions may call a mocked function too early, in the
  middle of their arguments, there is one thread. Another one could reset the mock
  then, and the matchers that follow would belong to nobody.
* `DirectClients`: `PlainClients`, call expressions call once, and no `mmk_when` is
  about a mock with a variadic pack (`mocks_variadic_when` shows why). A mock may be
  reset at any time: a body that finds its contract freed ends the behaviour
  (`status = "ub"`) instead of giving an answer, and `MemorySafe` is the theorem for that.
* `OneThread`: nothing guards the buffer of calls. `Plain`: the mock is not variadic and its
  parameters have no padding.
* `IntegersOnArm`: on AArch64 and ARM mocked functions take no floating-point arguments, nor
  return what needs `x8`. On the x86 ABIs the theorem is about all registers of arguments.
* `TablesTell` needs `TablesAssumption` only: the order of symbols and the marks of a GNU table,
  chains that go through their buckets, and addresses whose form shows whether they are
  relocated, which is what the guess of `lib_dt_lookup` rests on (`plt-elf.c:74-75`).
* `LoaderProofs` needs `BackEndsAssumption` only: objects in any number with tables of
  any length; no slot in two tables of an object, which is not so where `DT_RELASZ` counts the PLT
  relocations too (a hazard of `PROJECT.json`); no image with more than `MaxIndices`
  entries for one symbol, where `get_offsets` stops looking.
* `OwnerSpec`: where thread-local variables are the emulation of `threadlocal.h`, only
  the thread that made the first stub uses mocks. Elsewhere it is `Spec`.

None of the invariants is inductive. What makes them so:

* **Stubs.** Whether a slot holds the right thing after a destruction depends on
  what was saved. `IInv` says that, for each slot, the values saved by the stubs
  that cover it form one chain from the GOT down to the slot's original code
  (`Chain`), that a mock's two stubs cover different slots, and that each live stub
  belongs to one handle (`Lists`). `ChainPush` and `ChainPop` show that writing a
  trampoline adds a link to the chain and that putting the saved value back at its
  top removes one; `StorePush` and `StorePop` lift this to whole stubs,
  `InForceIsTop` shows that a careful client only ever removes tops, and there is
  one lemma per action.
* **Resetting by name.** Two slots may show different stubs, and one slot says
  nothing of another. `OrderInv` adds that there is one order of all live stubs,
  that of their making, that each slot shows the newest of its stubs and each stub
  saved the newest of the older ones, and that nothing was made between the two
  stubs of a mock. The order is no variable; the invariant says that one exists
  (`OrderPush`, `OrderPop`).
* **Stacks.** `StacksInv` says that the stubs of each slot can be listed from the one
  in the GOT to the one that saved the original code, each once. Such a list is
  unique, so it is the one the mapping finds (`StackIs`); `StacksPush` and
  `StacksPop` carry it through a step, and there is one lemma per action that names
  the layer installed or removed. A binding is a step of `Interposition` or, where a
  slot's own code is the same bound and unbound, a stutter.
* **Trampolines.** A routine gets its arguments because of what the code left on the
  stack and in the registers twenty instructions earlier. That code is straight, with
  one branch, so what it relies on depends on the instruction only: the tables
  `SystemV`, `Win`, `Link` (the two ARM ABIs) and `I386` have a row per instruction with
  the registers of arguments that the code saves (`Kept`) and that are as at the call, those that hold a known word, the stack, and
  whether the context is set and the question asked (`Phase`). `IInv` says that the
  innermost call of a thread is at such a row (`Midway`), on a page that is mapped for
  its stub, and all others are in a routine that they reached as they were called
  (`Arrived`). There is one lemma per kind of instruction (`LoadGoes`, `PopGoes`, ...),
  which are put together per ABI (`SystemVGoes`, `WinGoes`, `LinkGoes`, `I386Goes`): each
  instruction finds what its row says, cannot fault, and leads to the next row
  (`StepAdvances`). Other threads cannot disturb a row, since a page in use is not
  unmapped (`StaysFine`). `Owned` adds, for `NothingFaults`, that before the first stub
  nothing is mapped or called.
* **Vitals.** `IInv` has that a pointer holds NULL or what a lookup of its name
  gives, a function of the program alone, so that it does not matter which thread
  stored it last. `RealIsFirst` says that this is the first definition in load order: an
  object's search comes to a symbol of the name if there is one, and goes on to the next object
  where it is an import or there is none. `TInv` adds what each thread has behind it at each of its steps.
* **Tables.** The program never changes, so what there is to prove is what the searches
  compute. A search is a recursive function, and it must be shown that there is one:
  `WalkExists` gives that of a GNU table, by the first symbol ahead that stops it, and
  `FollowExists` that of a chain, by the symbols ahead that it may come to. `WalkFinds` says
  that a walk meets what nothing before it ends; symbols in the order of their buckets
  are such. In the older table a chain may have any order. `SysvOK` says that it goes
  through its bucket and ends, in terms of sets of symbols: every set of them has one that
  leads out of it, and one that is reached from outside. `SysvFinds` takes for these sets the
  symbols at which the search has no end, and those at which it finds something after
  the head of the bucket has found nothing.
* **Mocks.** `IInv` relates a thread's stack of frames to its thread-locals: only the
  top frame can be a call expression, its kind is that of `matcher_ctx`, the number
  of stub bodies it ran is `mock_called`, and `cur_result` is its result. `SafeInv`
  adds that every frame that goes back to a mock finds it there. `LeakInv` says which
  contract shares its list with which expression, and that the heap is the sum over
  mocks and threads of what they own; `SetLemmas` has the theory of those sums, one
  change of one term at a time.
* **The contract of mocks.** The abstract state is that of contracts and counts; what
  a step does to it depends on lists that earlier steps built. `Building` says that
  while a call expression is evaluated its list has exactly the matchers of the
  arguments evaluated so far, in the order of the parameters (`BuiltAdd`, one
  insertion at head, middle or tail). `Agreed` says that each contract's list is
  whole and is that of the expression it stands for (`BuiltWhole`), and that as long as
  a contract shares its list with a `mmk_when`, that expression has evaluated
  everything. Hence a body's walk from the newest contract finds the one that
  `MockContract` picks (`AnswerRefines`), and a verification's sum is the abstract one
  (`SameVerdict`). One lemma per action says whether it is an answer or a stutter.
* **Call expressions.** `Built` says that the list has exactly the matchers of the
  arguments evaluated so far, in the order of the source (`InOrder`). An insertion keeps
  that wherever it happens (`OrderedPut` of `SetLemmas`, which `MocksProofs` cites
  too), and a list of all arguments has each at its own place (`OrderedWhole`). What
  remains is one parameter at a time: `NamedPasses` and `VariadicPasses` compare the
  flags of each kind with its documentation, the latter with what `mmk_memcmp` says of
  two copies (`Memcmp`).
* **Signatures.** `Defined` says that each body is what the macros make of its signature;
  the rest is what the macros compute, for any types. `Counts` is the sliding table of
  `MMK_VA_NARGS` (the 64th of the arguments and the numbers after them), `TellsOne` that
  of `MMK_VA_TAIL_SELECT`, `Recognised` the pasting that tells one type from the others,
  `NumbersUp` the families of numbered macros. With them `Stores`, `Lists` and `Ends`
  say what the body has.
* **Back-ends.** `IInv` says that what the stub has stored is what its target string
  gives (`Result`, a function of the program and the string), and that the GOT is as
  linked but for these slots, which lead to the trampoline while the stub is live. The
  rest is what the operators compute. `Parsed` has what the cutting makes of any target
  string (`Cut`: a cut at the first `"@"` or `":"` gives back what stands around it).
  The recursive functions have closed forms by induction on how far they have come:
  `Saves` and `Restores` for the loops over the offsets array, where no slot stands twice
  (`Distinct`), `Indices` for the indirect symbol table, `ElfOffset` and `PEFind` for
  the search of a table. `ElfLooks`, `MachOLooks` and `PELooks` say that
  the object found is the first that the code takes for the scope (`Taken`: for `sym:` the first
  that refers to the symbol), and `TakenIsMeant` that under `ReferrerDefines` it is the
  documented one; `ElfServes`, `MachOServes` and
  `PEServes` that what it gives is at most one slot of each table, one wherever the table
  has the symbol, and nothing else (`Serves`). `Results` puts them together. `Fits` counts, for Mach-O:
  there is an index for every entry, and more entries than slots.
* **Call log.** `LogInv` has that records lie at all multiples of the record length
  below the top and nowhere else, where in its walk the thread is and what it has
  compared already, and that the counters of all records with the same arguments add up to
  the calls made, up to the one under way (`Tallied`). No two
  records have equal bytes (`Distinct`), and those of a plain mock are its arguments.

Not proved, and why:

* `CallReturns` and `InitEnds` are liveness under fairness, out of the prover's reach.
* `FirstDefinerPatched` is false (`loader_sym`).
* `StaysInside` is false (`gnu_empty_bucket`): a lookup of a name the GNU table does not have
  may read outside it, so `TablesTell` leaves `Outside` as an answer there.

Induction over a number or a finite set is possible where it is stated with a set
(`SetInduction`, `SmallestSubset` and the tables of `SetLemmas`), and that is how the recursive
functions are reasoned about. Nothing depends on induction over an operator.

## What is left out

* Allocation failures, beyond the second stub of a mock; errno; client code that
  uses Mimick from a serializer or predicate *inside* a call expression; matchers
  of equal priority, written in a helper that is called twice.
* Slot writes and binding are single steps, so the late store of the dynamic linker's
  resolver into a slot that has been patched meanwhile is not there.
* In `Trampoline` registers are whole values. On x86-64 the code saves the low 128 bits of
  vector registers; it aligns no stack before its calls and leaves Win64 callees no shadow
  space. Nothing in the source says what a client may rely on there.
* The rows of the tables and of the numbered families in `preprocess.h` one by one:
  `Preprocess` has them as closed forms, compared with the text by hand.
* How the ELF link map is found (`plt-elf.c:94-152`), the protection of pages, and
  imports by ordinal in PE.
* Objects loaded or unloaded while a stub is made (`plt-mach-o.c:69-70` says so).
* A slot that both relocation tables list, and objects without a name.
* `MMK_PAIR_APPLY`, the serializer macros of `va.h`, the tests and the sample: nothing is
  decided there.

## Plan

Done: all modules of the tables above, and proofs of every safety property that a passing run
checks, of the action property `OneCallPerExpression`, and of both refinements.

Open: liveness (`CallReturns`, `InitEnds`), which is checked and not proved.
