----------------------------- MODULE Trampoline -----------------------------
(***************************************************************************)
(* Trampolines: what a patched GOT slot leads to.  A trampoline is a page  *)
(* of its own, with the stub, the routine and a copy of the code of        *)
(* src/asm (trampoline.c:49-128).  The code notes on the thread which stub *)
(* was called, asks whether mmk_ask_ctx is what calls it, and returns the  *)
(* stub then; else it jumps to the routine with everything as it was.      *)
(*                                                                         *)
(* The code of each ABI is a sequence of instructions over its registers.  *)
(* The functions it calls may leave anything in the registers a caller has *)
(* to save.  A stack is a sequence, its top first; only the part of it     *)
(* from the return address of the call on is there.                        *)
(***************************************************************************)
EXTENDS Naturals, Sequences, SequencesExt

CONSTANTS
    Thread, Stub, Page,
    Arch,       \* the ABIs looked at
    Floating,   \* those where mocked functions also use the registers of floats
    MaxDepth,   \* how many calls of mocked functions may be nested
    NULL
ASSUME TrampolineAssumption == MaxDepth \in Nat \ {0}

Junk == [is |-> "junk"]

(* Instructions. *)
Here(r)         == [op |-> "here", r |-> r]      \* the address of the page
Push(rs)        == [op |-> "push", rs |-> rs]
Pop(rs)         == [op |-> "pop", rs |-> rs]
Load(r, a, fld) == [op |-> "load", r |-> r, a |-> a, fld |-> fld]
Mov(r, a)       == [op |-> "mov", r |-> r, a |-> a]
Call(r)         == [op |-> "call", r |-> r]
Branch(r, n)    == [op |-> "branch", r |-> r, n |-> n]  \* where r is not 0
Jump(r)         == [op |-> "jump", r |-> r]
Ret             == [op |-> "ret"]

SysVArgs  == <<"rdi", "rsi", "rdx", "rcx", "r8", "r9", "xmm0", "xmm1", "xmm2",
               "xmm3", "xmm4", "xmm5", "xmm6", "xmm7", "rax">>
(* Mutant: the number of vector registers of a variadic call is not saved. *)
SysVSavesNoRax == SubSeq(SysVArgs, 1, Len(SysVArgs) - 1)
SysVSaves == SysVArgs

systemv ==
    << Here("r11"), Push(<<"r11">>), Load("r11", "r11", "ctx"), Push(SysVSaves),
       Mov("rdi", "r11"), Push(<<"r11">>), Load("r11", "r11", "ctx_set"), Call("r11"),
       Pop(<<"r11">>), Load("r11", "r11", "ctx_asked"), Call("r11"), Mov("r11", "rax"),
       Pop(Reverse(SysVSaves)), Branch("r11", 18),
       Pop(<<"r11">>), Load("r11", "r11", "routine"), Jump("r11"),
       Pop(<<"r11">>), Load("r11", "r11", "ctx"), Load("r11", "r11", "ctx_get"),
       Call("r11"), Ret >>

WinArgs == <<"rcx", "rdx", "r8", "r9", "xmm0", "xmm1", "xmm2", "xmm3">>
WinRoutine(saves) ==
    << Here("rax"), Push(<<"rax">>), Load("rax", "rax", "ctx"), Push(saves),
       Mov("rcx", "rax"), Push(<<"rax">>), Load("rax", "rax", "ctx_set"), Call("rax"),
       Pop(<<"rax">>), Load("rax", "rax", "ctx_asked"), Call("rax"),
       Pop(Reverse(saves)), Branch("rax", 17),
       Pop(<<"rax">>), Load("rax", "rax", "routine"), Jump("rax"),
       Pop(<<"rax">>), Load("rax", "rax", "ctx") >>

win_gas  == WinRoutine(<<"rdx", "rcx", "r8", "r9", "xmm0", "xmm1", "xmm2", "xmm3">>)
            \o <<Load("rax", "rax", "ctx_get"), Call("rax"), Ret>>
(* Mutant: the code runs on into what follows. *)
win_masm_falls == WinRoutine(WinArgs)
win_masm == WinRoutine(WinArgs) \o <<Ret>>

(* Mutant: the two come back the wrong way round. *)
Peek_swapped(ip, lr) == <<Pop(<<lr, ip>>), Push(<<ip, lr>>)>>
Peek(ip, lr) == <<Pop(<<ip, lr>>), Push(<<lr, ip>>)>>

(* The two ARM ABIs have the return address in a register, lr, and one     *)
(* scratch register that is no argument, ip.                               *)
WithLinkRegister(args, first, ip, lr) ==
    << Here(ip), Push(args), Push(<<lr, ip>>),
       Load(first, ip, "ctx"), Load(ip, first, "ctx_set"), Call(ip) >>
    \o Peek(ip, lr) \o
    << Load(ip, ip, "ctx"), Load(ip, ip, "ctx_asked"), Call(ip), Branch(first, 17),
       Pop(<<ip, lr>>), Pop(Reverse(args)), Load(ip, ip, "routine"), Jump(ip),
       Pop(<<ip, lr>>), Pop(Reverse(args)), Push(<<lr, ip>>),
       Load(ip, ip, "ctx"), Load(ip, ip, "ctx_get"), Call(ip),
       Pop(<<ip, lr>>), Ret >>

AArch64Args == <<"x6", "x7", "x4", "x5", "x2", "x3", "x0", "x1">>
aarch64     == WithLinkRegister(AArch64Args, "x0", "x16", "x30")
ArmArgs     == <<"r3", "r2", "r1", "r0">>
arm         == WithLinkRegister(ArmArgs, "r0", "ip", "lr")

(* Arguments are on the stack and none is in a register. *)
i386 ==
    << Here("eax"), Push(<<"eax">>), Load("eax", "eax", "ctx"), Push(<<"eax">>),
       Load("eax", "eax", "ctx_set"), Call("eax"), Pop(<<"eax">>),
       Load("eax", "eax", "ctx_asked"), Call("eax"), Branch("eax", 14),
       Pop(<<"eax">>), Load("eax", "eax", "routine"), Jump("eax"),
       Pop(<<"eax">>), Load("eax", "eax", "ctx"), Load("eax", "eax", "ctx_get"),
       Call("eax"), Ret >>

(* An ABI: its code, the registers that may hold integer arguments, those  *)
(* that may hold floating-point ones, the others the code uses, the        *)
(* register of the first argument and of a result, and where the return    *)
(* address is ("stack" for the first and the last where they are there).   *)
(* x8, with the address for a large result, goes with the floats.          *)
ABI(code, ints, floats, other, first, result, link) ==
    [code |-> code, ints |-> ints, floats |-> floats,
     regs |-> ints \union floats \union other,
     first |-> first, result |-> result, link |-> link]

SysVInts == {"rdi", "rsi", "rdx", "rcx", "r8", "r9", "rax"}
SysVFloats ==
    {"xmm0", "xmm1", "xmm2", "xmm3", "xmm4", "xmm5", "xmm6", "xmm7"}
WinInts == {"rcx", "rdx", "r8", "r9"}
WinFloats == {"xmm0", "xmm1", "xmm2", "xmm3"}
AArch64Floats == {"v0", "v1", "v2", "v3", "v4", "v5", "v6", "v7", "x8"}
ArmFloats == {"d0", "d1", "d2", "d3", "d4", "d5", "d6", "d7"}

abi == [a \in {"systemv", "win_gas", "win_masm", "aarch64", "arm", "i386"} |->
    CASE a = "systemv" ->
            ABI(systemv, SysVInts, SysVFloats, {"r11"}, "rdi", "rax", "stack")
      [] a = "win_gas" ->
            ABI(win_gas, WinInts, WinFloats, {"rax"}, "rcx", "rax", "stack")
      [] a = "win_masm" ->
            ABI(win_masm, WinInts, WinFloats, {"rax"}, "rcx", "rax", "stack")
      [] a = "aarch64" ->
            ABI(aarch64, ToSet(AArch64Args), AArch64Floats, {"x16", "x30"},
                "x0", "x0", "x30")
      [] a = "arm" ->
            ABI(arm, ToSet(ArmArgs), ArmFloats, {"ip", "lr"}, "r0", "r0", "lr")
      [] a = "i386" -> ABI(i386, {}, {}, {"eax"}, "stack", "eax", "stack")]
ASSUME ArchAssumption == Arch \subseteq DOMAIN abi /\ Floating \subseteq DOMAIN abi

-----------------------------------------------------------------------------
VARIABLES
    arch,      \* the ABI of the program
    emulated,  \* thread-local variables are the emulation of threadlocal.h
    owner,     \* the thread that had the emulation allocate, or NULL
    page,      \* the stub of a mapped page, NULL for an unmapped page
    frames,    \* per thread: the calls it is in, the innermost first
    ask_ctx,   \* thread-local
    mmk_ctx_,  \* thread-local
    answer,    \* per thread: what mmk_ask_ctx returned last, and to what
    fault      \* an access that no memory or function answers

vars == <<arch, emulated, owner, page, frames, ask_ctx, mmk_ctx_, answer, fault>>

(* A call of a trampoline: its page and stub, the next instruction or 0    *)
(* when the routine runs, the registers and the stack now and as they were *)
(* at first, whether it is a call of mmk_ask_ctx, and what was jumped to   *)
(* with which context.                                                     *)
Passed == abi[arch].ints \union (IF arch \in Floating THEN abi[arch].floats ELSE {})
InitialReg(r) == IF r = abi[arch].link THEN [is |-> "return"]
                 ELSE IF r \in Passed THEN [is |-> "arg", reg |-> r]
                 ELSE Junk
InitialStack  == (IF abi[arch].link = "stack" THEN <<[is |-> "return"]>> ELSE << >>)
                 \o <<[is |-> "arg", reg |-> "stack"]>>
Frame(p, asks) ==
    [page |-> p, stub |-> page[p], ip |-> 1,
     regs |-> [r \in abi[arch].regs |-> InitialReg(r)],
     stack |-> InitialStack, asks |-> asks, routine |-> NULL, ctx |-> NULL]

Init ==
    /\ arch \in Arch
    /\ emulated \in (IF arch \in {"win_gas", "i386"} THEN BOOLEAN ELSE {FALSE})
    /\ owner = NULL
    /\ page = [p \in Page |-> NULL]
    /\ frames = [t \in Thread |-> << >>]
    /\ ask_ctx = [t \in Thread |-> FALSE]
    /\ mmk_ctx_ = [t \in Thread |-> NULL]
    /\ answer = [t \in Thread |-> NULL]
    /\ fault = FALSE

(* Whether client code runs on the thread: outside all mocks, or a routine.*)
AtClient(t) == ~fault /\ (frames[t] # << >> => Head(frames[t]).ip = 0)

(* The emulation allocates a variable where it is first set, with memory   *)
(* for that thread only.                                                   *)
HasBlock(t) == ~emulated \/ owner = t

Live(s) == \E p \in Page : page[p] = s

(* mmk_stub_create_static clears both variables, then maps the page. *)
create_trampoline(t, s, p) ==
    /\ AtClient(t)
    /\ ~Live(s)
    /\ page[p] = NULL
    /\ IF emulated /\ owner \notin {NULL, t}
       THEN /\ fault' = TRUE
            /\ UNCHANGED <<owner, page, ask_ctx, mmk_ctx_>>
       ELSE /\ owner' = t
            /\ page' = [page EXCEPT ![p] = s]
            /\ ask_ctx' = [ask_ctx EXCEPT ![t] = FALSE]
            /\ mmk_ctx_' = [mmk_ctx_ EXCEPT ![t] = NULL]
            /\ UNCHANGED fault
    /\ UNCHANGED <<arch, emulated, frames, answer>>

(* The client sees to it that no thread runs the code of the page; one     *)
(* that runs the routine has left it.                                      *)
Quiescent(p) ==
    \A t \in Thread : \A i \in DOMAIN frames[t] :
        frames[t][i].page = p => frames[t][i].ip = 0

destroy_trampoline(t, p) ==
    /\ AtClient(t)
    /\ page[p] # NULL
    /\ Quiescent(p)
    /\ page' = [page EXCEPT ![p] = NULL]
    /\ UNCHANGED <<arch, emulated, owner, frames, ask_ctx, mmk_ctx_, answer, fault>>

Enter(t, p, asks) ==
    /\ AtClient(t)
    /\ page[p] # NULL
    /\ Len(frames[t]) < MaxDepth
    /\ frames' = [frames EXCEPT ![t] = <<Frame(p, asks)>> \o @]
    /\ answer' = [answer EXCEPT ![t] = NULL]
    /\ UNCHANGED <<arch, emulated, owner, page, mmk_ctx_>>

(* A call of the mocked function, through its GOT slot. *)
CallMocked(t, p) == Enter(t, p, FALSE) /\ UNCHANGED <<ask_ctx, fault>>

(* The same call, by mmk_ask_ctx (mmk_reset, for one). *)
mmk_ask_ctx(t, p) ==
    IF HasBlock(t)
    THEN /\ Enter(t, p, TRUE)
         /\ ask_ctx' = [ask_ctx EXCEPT ![t] = TRUE]
         /\ UNCHANGED fault
    ELSE /\ AtClient(t)
         /\ page[p] # NULL
         /\ fault' = TRUE
         /\ UNCHANGED <<arch, emulated, owner, page, frames, ask_ctx, mmk_ctx_, answer>>

(* The routine returns to the caller of the mocked function. *)
RoutineReturns(t) ==
    /\ AtClient(t)
    /\ frames[t] # << >>
    /\ frames' = [frames EXCEPT ![t] = Tail(@)]
    /\ UNCHANGED <<arch, emulated, owner, page, ask_ctx, mmk_ctx_, answer, fault>>

-----------------------------------------------------------------------------
(* One instruction of the trampoline that thread t is in. *)
PageAt(p)   == [is |-> "page", page |-> p]
StubAt(s)   == [is |-> "stub", stub |-> s]
Code(fn)    == [is |-> "code", fn |-> fn]
Routine(s)  == [is |-> "routine", stub |-> s]
ASSUME NullAssumption ==
    /\ NULL \notin Stub \union Thread
    /\ \A s \in Stub : NULL \notin {StubAt(s), Routine(s)}
    /\ \A fn \in {"ctx_set", "ctx_asked", "ctx_get"} : NULL # Code(fn)

(* What memory holds: a word of the page, a field of the stub. *)
Word(addr, fld) ==
    CASE addr.is = "page" /\ fld = "ctx" /\ page[addr.page] # NULL
                                      -> StubAt(page[addr.page])
      [] addr.is = "page" /\ fld = "routine" /\ page[addr.page] # NULL
                                      -> Routine(page[addr.page])
      [] addr.is = "stub" /\ fld \notin {"ctx", "routine"} /\ Live(addr.stub)
                                      -> Code(fld)
      [] OTHER                        -> NULL

Running(t) ==
    /\ ~fault
    /\ frames[t] # << >>
    /\ Head(frames[t]).ip # 0

Fetch(f)     == abi[arch].code[f.ip]
Is(t, op)    == Running(t) /\ Fetch(Head(frames[t])).op = op
Becomes(t, f) == frames' = [frames EXCEPT ![t] = <<f>> \o Tail(@)]
Quiet == UNCHANGED <<arch, emulated, owner, page, ask_ctx, mmk_ctx_, answer, fault>>
Faults == /\ fault' = TRUE
          /\ UNCHANGED <<arch, emulated, owner, page, frames, ask_ctx, mmk_ctx_, answer>>

Set(f, r, v) == [f EXCEPT !.ip = @ + 1, !.regs[r] = v]
Pushed(f, rs) ==
    [f EXCEPT !.ip = @ + 1,
              !.stack = Reverse([i \in DOMAIN rs |-> f.regs[rs[i]]]) \o @]
Popped(f, rs) ==
    [f EXCEPT !.ip = @ + 1,
              !.regs = [r \in DOMAIN @ |->
                  IF Contains(rs, r)
                  THEN f.stack[CHOOSE i \in DOMAIN rs : rs[i] = r] ELSE @[r]],
              !.stack = SubSeq(@, Len(rs) + 1, Len(@))]
Called(f, v) ==
    [f EXCEPT !.ip = @ + 1,
              !.regs = [r \in DOMAIN @ |-> IF r = abi[arch].result THEN v ELSE Junk]]

StepHere(t) ==
    LET f == Head(frames[t])
    IN  Is(t, "here") /\ Becomes(t, Set(f, Fetch(f).r, PageAt(f.page))) /\ Quiet

StepPush(t) ==
    LET f == Head(frames[t])
    IN  Is(t, "push") /\ Becomes(t, Pushed(f, Fetch(f).rs)) /\ Quiet

StepPop(t) ==
    LET f == Head(frames[t])
    IN  Is(t, "pop") /\ Becomes(t, Popped(f, Fetch(f).rs)) /\ Quiet

StepMov(t) ==
    LET f == Head(frames[t])
    IN  Is(t, "mov") /\ Becomes(t, Set(f, Fetch(f).r, f.regs[Fetch(f).a])) /\ Quiet

StepLoad(t) ==
    LET f == Head(frames[t])
        w == Word(f.regs[Fetch(f).a], Fetch(f).fld)
    IN  /\ Is(t, "load")
        /\ IF w = NULL THEN Faults ELSE Becomes(t, Set(f, Fetch(f).r, w)) /\ Quiet

(* mmk_ctx_asked, mmk_set_ctx and mmk_ctx (stub.c:125-140). *)
Returned(t, fn) ==
    CASE fn = "ctx_asked" -> IF ask_ctx[t] THEN [is |-> "one"] ELSE [is |-> "zero"]
      [] fn = "ctx_set"   -> Junk
      [] fn = "ctx_get"   -> IF mmk_ctx_[t] = NULL THEN [is |-> "zero"]
                             ELSE StubAt(mmk_ctx_[t])

(* Mutant: the flag is left for the next call. *)
mmk_ctx_asked_keeps(t) == ask_ctx
mmk_ctx_asked(t)       == [ask_ctx EXCEPT ![t] = FALSE]

(* Mutant: the context is that of the process. *)
mmk_set_ctx_shared(t, s) == [u \in Thread |-> s]
mmk_set_ctx(t, s)        == [mmk_ctx_ EXCEPT ![t] = s]

StepCall(t) ==
    LET f   == Head(frames[t])
        fn  == f.regs[Fetch(f).r]
        arg == IF abi[arch].first = "stack" THEN Head(f.stack)
               ELSE f.regs[abi[arch].first]
    IN  /\ Is(t, "call")
        /\ IF fn.is # "code" \/ ~HasBlock(t)
           THEN Faults
           ELSE /\ Becomes(t, Called(f, Returned(t, fn.fn)))
                /\ ask_ctx' = IF fn.fn = "ctx_asked" THEN mmk_ctx_asked(t) ELSE ask_ctx
                /\ mmk_ctx_' = IF fn.fn = "ctx_set" THEN mmk_set_ctx(t, arg.stub) ELSE mmk_ctx_
                /\ UNCHANGED <<arch, emulated, owner, page, answer, fault>>

StepBranch(t) ==
    LET f == Head(frames[t])
    IN  /\ Is(t, "branch")
        /\ Becomes(t, [f EXCEPT !.ip = IF f.regs[Fetch(f).r].is = "zero" THEN @ + 1
                                       ELSE Fetch(f).n])
        /\ Quiet

StepJump(t) ==
    LET f == Head(frames[t])
    IN  /\ Is(t, "jump")
        /\ Becomes(t, [f EXCEPT !.ip = 0, !.routine = f.regs[Fetch(f).r],
                                !.ctx = mmk_ctx_[t]])
        /\ Quiet

(* Back to mmk_ask_ctx, if that is where the return address leads. *)
StepRet(t) ==
    LET f   == Head(frames[t])
        ret == IF abi[arch].link = "stack" THEN Head(f.stack) ELSE f.regs[abi[arch].link]
    IN  /\ Is(t, "ret")
        /\ IF ret.is # "return"
           THEN Faults
           ELSE /\ frames' = [frames EXCEPT ![t] = Tail(@)]
                /\ answer' = [answer EXCEPT ![t] =
                      [to |-> f.stub, asks |-> f.asks, is |-> f.regs[abi[arch].result]]]
                /\ UNCHANGED <<arch, emulated, owner, page, ask_ctx, mmk_ctx_, fault>>

Step(t) ==
    \/ StepHere(t) \/ StepPush(t) \/ StepPop(t) \/ StepMov(t) \/ StepLoad(t)
    \/ StepCall(t) \/ StepBranch(t) \/ StepJump(t) \/ StepRet(t)

Act(t) ==
    \/ Step(t) \/ RoutineReturns(t)
    \/ \E p \in Page :
          \/ CallMocked(t, p) \/ mmk_ask_ctx(t, p) \/ destroy_trampoline(t, p)
          \/ \E s \in Stub : create_trampoline(t, s, p)

Next == \E t \in Thread : Act(t)
Spec == Init /\ [][Next]_vars

(* With the emulated thread-local variables only the thread that made the  *)
(* first stub can use a mock: no other thread does.                        *)
OwnerNext == \E t \in Thread : (emulated => owner \in {NULL, t}) /\ Act(t)
OwnerSpec == Init /\ [][OwnerNext]_vars

-----------------------------------------------------------------------------
InRoutine(f) == f.ip = 0

(* A frame is where its code is, and its pages and stubs are known ones. *)
TypeOK ==
    /\ page \in [Page -> Stub \union {NULL}]
    /\ mmk_ctx_ \in [Thread -> Stub \union {NULL}]
    /\ ask_ctx \in [Thread -> BOOLEAN]
    /\ owner \in Thread \union {NULL}
    /\ \A t \in Thread : \A i \in DOMAIN frames[t] :
          /\ frames[t][i].ip \in 0..Len(abi[arch].code)
          /\ frames[t][i].stub \in Stub
          /\ i > 1 => InRoutine(frames[t][i])

(* The routine finds what the caller of the mocked function passed: every  *)
(* argument register, the stack and the return address are as they were at *)
(* the call, whatever the calls in between left in the registers (the      *)
(* saves and restores of src/asm).  trampoline-aarch64.S:31-34 and         *)
(* trampoline-arm.S:29 save the integer registers only.                    *)
ArgsReachRoutine ==
    \A t \in Thread : \A i \in DOMAIN frames[t] :
        LET f == frames[t][i]
        IN  InRoutine(f) =>
              /\ f.stack = InitialStack
              /\ \A r \in Passed \union {abi[arch].link} :
                    r # "stack" => f.regs[r] = InitialReg(r)

(* The routine is that of the stub that was called, and mmk_ctx leads to   *)
(* that stub when it starts, however calls nest and threads interleave.    *)
RoutineHasItsStub ==
    \A t \in Thread : \A i \in DOMAIN frames[t] :
        LET f == frames[t][i]
        IN  InRoutine(f) => /\ f.routine = Routine(f.stub)
                            /\ f.ctx = f.stub
                            /\ ~f.asks

(* Only mmk_ask_ctx is answered, and with the stub it asked for; an        *)
(* ordinary call never finds a question left over (stub.c:119-130).        *)
AskAnswers ==
    /\ \A t \in Thread : answer[t] # NULL =>
          answer[t].asks /\ answer[t].is = StubAt(answer[t].to)
    /\ \A t \in Thread : ask_ctx[t] =>
          frames[t] # << >> /\ Head(frames[t]).asks

(* No thread runs unmapped code, reads a freed page or stub or calls what  *)
(* is no function: not even where a routine has its own stub destroyed and *)
(* the page is mapped again for another one.                               *)
NoFault ==
    /\ ~fault
    /\ \A t \in Thread : \A i \in DOMAIN frames[t] :
          LET f == frames[t][i]
          IN  ~InRoutine(f) => page[f.page] = f.stub
=============================================================================
