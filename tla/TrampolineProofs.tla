-------------------------- MODULE TrampolineProofs --------------------------
(***************************************************************************)
(* Every ABI's trampoline, for any number of threads, stubs, pages and     *)
(* nested calls: the routine gets its arguments and its stub, a question   *)
(* is answered to whom it was put, and no step reads what is not there.    *)
(*                                                                         *)
(* The code is a straight line with one branch, so what it needs of the    *)
(* registers, of the stack and of the thread-locals before an instruction  *)
(* depends on that instruction only.  SystemV, Win, Link and I386 say it,  *)
(* instruction by instruction.                                             *)
(***************************************************************************)
EXTENDS Trampoline, TLAPS

Regs == abi[arch].regs

(* The argument registers that the code saves. *)
Kept ==
    CASE arch = "aarch64" -> ToSet(AArch64Args)
      [] arch = "arm"     -> ToSet(ArmArgs)
      [] OTHER            -> abi[arch].ints \union abi[arch].floats

(* The words that registers and stacks hold. *)
Return == [is |-> "return"]
Zero   == [is |-> "zero"]
One    == [is |-> "one"]
Arg(r) == [is |-> "arg", reg |-> r]
Fields == {"ctx_set", "ctx_asked", "ctx_get"}

Value ==
    {Junk, Return, Zero, One} \union {Arg(r) : r \in Regs \union {"stack"}}
    \union {PageAt(p) : p \in Page} \union {StubAt(s) : s \in Stub}
    \union {Routine(s) : s \in Stub} \union {Code(fn) : fn \in Fields}

Call1 ==
    [page : Page, stub : Stub, ip : Nat, regs : [Regs -> Value], stack : Seq(Value),
     asks : BOOLEAN, routine : Value \union {NULL}, ctx : Stub \union {NULL}]

(* The registers of ok hold what they held at the call, those of known the *)
(* given words, and the stack is st.                                       *)
Fits(f, ok, known, st) ==
    /\ \A r \in ok : r \in Regs /\ f.regs[r] = InitialReg(r)
    /\ \A k \in known : k[1] \in Regs /\ f.regs[k[1]] = k[2]
    /\ f.stack = st

(* How far the trampoline is, a and c being ask_ctx and mmk_ctx_ of its    *)
(* thread: it has yet to set the context, to ask, to look at the answer,   *)
(* or is on its way to the routine or back to mmk_ask_ctx.                 *)
Phase(ph, f, a, c) ==
    /\ a <=> f.asks /\ ph \in {"start", "set"}
    /\ ph # "start" => c = f.stub
    /\ ph = "routine" => ~f.asks
    /\ ph = "answer" => f.asks

At(f, a, c, ph, ok, known, st) == Phase(ph, f, a, c) /\ Fits(f, ok, known, st)

(* Parts of the stack: a list of saved registers as the call had them, and *)
(* one or more words over what was there at the call.                      *)
Saved(rs)     == Reverse([i \in DOMAIN rs |-> InitialReg(rs[i])])
Over(v, st)   == <<v>> \o st
Answered(f)   == IF f.asks THEN One ELSE Zero

SystemV(f) ==
    LET P == PageAt(f.page)
        S == StubAt(f.stub)
        A == ToSet(SysVArgs)
        X(v) == {<<"r11", v>>}
        I == InitialStack
        L1 == Over(P, I)
        L2 == Saved(SysVSaves) \o L1
        L3 == Over(S, L2)
    IN  << <<"start", A, {}, I>>,
           <<"start", A, X(P), I>>,
           <<"start", A, X(P), L1>>,
           <<"start", A, X(S), L1>>,
           <<"start", {}, X(S), L2>>,
           <<"start", {}, {<<"r11", S>>, <<"rdi", S>>}, L2>>,
           <<"start", {}, {<<"r11", S>>, <<"rdi", S>>}, L3>>,
           <<"start", {}, {<<"r11", Code("ctx_set")>>, <<"rdi", S>>}, L3>>,
           <<"set", {}, {}, L3>>,
           <<"set", {}, X(S), L2>>,
           <<"set", {}, X(Code("ctx_asked")), L2>>,
           <<"asked", {}, {<<"rax", Answered(f)>>}, L2>>,
           <<"asked", {}, X(Answered(f)), L2>>,
           <<"asked", A, X(Answered(f)), L1>>,
           <<"routine", A, {}, L1>>,
           <<"routine", A, X(P), I>>,
           <<"routine", A, X(Routine(f.stub)), I>>,
           <<"answer", {}, {}, L1>>,
           <<"answer", {}, X(P), I>>,
           <<"answer", {}, X(S), I>>,
           <<"answer", {}, X(Code("ctx_get")), I>>,
           <<"answer", {}, {<<"rax", S>>}, I>> >>

(* Both assemblers' code: that of MASM ends at 19.                         *)
WinSaves ==
    IF arch = "win_gas"
    THEN <<"rdx", "rcx", "r8", "r9", "xmm0", "xmm1", "xmm2", "xmm3">>
    ELSE WinArgs

Win(f) ==
    LET P == PageAt(f.page)
        S == StubAt(f.stub)
        A == ToSet(WinArgs)
        X(v) == {<<"rax", v>>}
        I == InitialStack
        L1 == Over(P, I)
        L2 == Saved(WinSaves) \o L1
        L3 == Over(S, L2)
    IN  << <<"start", A, {}, I>>,
           <<"start", A, X(P), I>>,
           <<"start", A, X(P), L1>>,
           <<"start", A, X(S), L1>>,
           <<"start", {}, X(S), L2>>,
           <<"start", {}, {<<"rax", S>>, <<"rcx", S>>}, L2>>,
           <<"start", {}, {<<"rax", S>>, <<"rcx", S>>}, L3>>,
           <<"start", {}, {<<"rax", Code("ctx_set")>>, <<"rcx", S>>}, L3>>,
           <<"set", {}, {}, L3>>,
           <<"set", {}, X(S), L2>>,
           <<"set", {}, X(Code("ctx_asked")), L2>>,
           <<"asked", {}, X(Answered(f)), L2>>,
           <<"asked", A, X(Answered(f)), L1>>,
           <<"routine", A, {}, L1>>,
           <<"routine", A, X(P), I>>,
           <<"routine", A, X(Routine(f.stub)), I>>,
           <<"answer", {}, {}, L1>>,
           <<"answer", {}, X(P), I>>,
           <<"answer", {}, X(S), I>>,
           <<"answer", {}, X(Code("ctx_get")), I>>,
           <<"answer", {}, X(S), I>> >>

(* The two ABIs with the return address in a register.                     *)
Link(f, args, first, ip, lr) ==
    LET P == PageAt(f.page)
        S == StubAt(f.stub)
        A == ToSet(args) \union {lr}
        X(v) == {<<ip, v>>}
        I == InitialStack
        L1 == Saved(args) \o I
        L2 == Over(P, Over(Return, L1))
        L3 == Over(P, Over(Return, I))
    IN  << <<"start", A, {}, I>>,
           <<"start", A, X(P), I>>,
           <<"start", {lr}, X(P), L1>>,
           <<"start", {}, X(P), L2>>,
           <<"start", {}, {<<first, S>>}, L2>>,
           <<"start", {}, {<<ip, Code("ctx_set")>>, <<first, S>>}, L2>>,
           <<"set", {}, {}, L2>>,
           <<"set", {lr}, X(P), L1>>,
           <<"set", {}, X(P), L2>>,
           <<"set", {}, X(S), L2>>,
           <<"set", {}, X(Code("ctx_asked")), L2>>,
           <<"asked", {}, {<<first, Answered(f)>>}, L2>>,
           <<"routine", {}, {}, L2>>,
           <<"routine", {lr}, X(P), L1>>,
           <<"routine", A, X(P), I>>,
           <<"routine", A, X(Routine(f.stub)), I>>,
           <<"answer", {}, {}, L2>>,
           <<"answer", {lr}, X(P), L1>>,
           <<"answer", {lr}, X(P), I>>,
           <<"answer", {}, X(P), L3>>,
           <<"answer", {}, X(S), L3>>,
           <<"answer", {}, X(Code("ctx_get")), L3>>,
           <<"answer", {}, {<<first, S>>}, L3>>,
           <<"answer", {lr}, {<<first, S>>}, I>> >>

I386(f) ==
    LET P == PageAt(f.page)
        S == StubAt(f.stub)
        X(v) == {<<"eax", v>>}
        I == InitialStack
        L1 == Over(P, I)
        L2 == Over(S, L1)
    IN  << <<"start", {}, {}, I>>,
           <<"start", {}, X(P), I>>,
           <<"start", {}, X(P), L1>>,
           <<"start", {}, X(S), L1>>,
           <<"start", {}, X(S), L2>>,
           <<"start", {}, X(Code("ctx_set")), L2>>,
           <<"set", {}, {}, L2>>,
           <<"set", {}, X(S), L1>>,
           <<"set", {}, X(Code("ctx_asked")), L1>>,
           <<"asked", {}, X(Answered(f)), L1>>,
           <<"routine", {}, {}, L1>>,
           <<"routine", {}, X(P), I>>,
           <<"routine", {}, X(Routine(f.stub)), I>>,
           <<"answer", {}, {}, L1>>,
           <<"answer", {}, X(P), I>>,
           <<"answer", {}, X(S), I>>,
           <<"answer", {}, X(Code("ctx_get")), I>>,
           <<"answer", {}, X(S), I>> >>

Table(f) ==
    CASE arch = "systemv"  -> SystemV(f)
      [] arch \in {"win_gas", "win_masm"} -> Win(f)
      [] arch = "aarch64"  -> Link(f, AArch64Args, "x0", "x16", "x30")
      [] arch = "arm"      -> Link(f, ArmArgs, "r0", "ip", "lr")
      [] arch = "i386"     -> I386(f)

Midway(f, a, c) ==
    LET row == Table(f)[f.ip]
    IN  /\ f.ip \in 1..Len(abi[arch].code)
        /\ At(f, a, c, row[1], row[2], row[3], row[4])

(* A routine has been reached as it was called. *)
Arrived(f) ==
    /\ f.stack = InitialStack
    /\ \A r \in Kept \union {abi[arch].link} :
          r # "stack" => f.regs[r] = InitialReg(r)
    /\ f.routine = Routine(f.stub) /\ f.ctx = f.stub /\ ~f.asks

IsRunning(fs) == fs # << >> /\ Head(fs).ip # 0

Types ==
    /\ arch \in DOMAIN abi /\ emulated \in BOOLEAN /\ fault \in BOOLEAN
    /\ owner \in Thread \union {NULL}
    /\ page \in [Page -> Stub \union {NULL}]
    /\ frames \in [Thread -> Seq(Call1)]
    /\ ask_ctx \in [Thread -> BOOLEAN]
    /\ mmk_ctx_ \in [Thread -> Stub \union {NULL}]

Calls(fs, a, c) ==
    /\ \A i \in DOMAIN fs : fs[i].ip = 0 => Arrived(fs[i])
    /\ \A i \in DOMAIN fs : i > 1 => fs[i].ip = 0
    /\ IF IsRunning(fs) THEN /\ page[Head(fs).page] = Head(fs).stub
                             /\ Midway(Head(fs), a, c)
                        ELSE ~a

Answers(x) == x # NULL => x.asks /\ x.is = StubAt(x.to)

IInv ==
    /\ Types
    /\ \A t \in Thread : Calls(frames[t], ask_ctx[t], mmk_ctx_[t]) /\ Answers(answer[t])

(* With emulated thread-locals: who runs is the owner. *)
Owned ==
    /\ ~fault
    /\ owner = NULL => /\ \A p \in Page : page[p] = NULL
                       /\ \A t \in Thread : frames[t] = << >>

-----------------------------------------------------------------------------
(* Thread t executes the instruction that its innermost call f is at.      *)
Busy(t, f) ==
    /\ Types /\ ~fault
    /\ t \in Thread /\ frames[t] # << >> /\ f = Head(frames[t]) /\ f.ip # 0
    /\ page[f.page] = f.stub

Goes(t, f, g) ==
    /\ frames' = [frames EXCEPT ![t] = <<g>> \o Tail(@)]
    /\ g \in Call1 /\ g.page = f.page /\ g.stub = f.stub /\ g.asks = f.asks
    /\ ask_ctx' = [ask_ctx EXCEPT ![t] = ask_ctx'[t]] /\ ask_ctx'[t] \in BOOLEAN
    /\ mmk_ctx_' = [mmk_ctx_ EXCEPT ![t] = mmk_ctx_'[t]]
    /\ mmk_ctx_'[t] \in Stub \union {NULL}
    /\ UNCHANGED <<arch, emulated, owner, page, answer, fault>>

Reaches(t, f, n, ph, ok, known, st) ==
    \E g : Goes(t, f, g) /\ g.ip = n
        /\ At(g, ask_ctx'[t], mmk_ctx_'[t], ph, ok, known, st)

(* What is known when register r has been given v. *)
Writes(r, v, ok, known, ok2, known2) ==
    /\ \A q \in ok2 : q \in ok /\ q # r
    /\ \A k \in known2 : k = <<r, v>> \/ (k \in known /\ k[1] # r)

Knows(known, r, v) == <<r, v>> \in known
Reads(x, fld, v)   == Word(x, fld) = v /\ v # NULL /\ v \in Value

LEMMA BusyFacts ==
    ASSUME NEW t, NEW f, Busy(t, f)
    PROVE  /\ f \in Call1 /\ f.page \in Page /\ f.stub \in Stub /\ f.ip \in Nat
           /\ f.ip # 0
           /\ f.regs \in [Regs -> Value] /\ f.stack \in Seq(Value) /\ f.asks \in BOOLEAN
           /\ ask_ctx[t] \in BOOLEAN /\ mmk_ctx_[t] \in Stub \union {NULL}
           /\ PageAt(f.page) \in Value /\ StubAt(f.stub) \in Value
           /\ Routine(f.stub) \in Value /\ {Junk, Return, Zero, One} \subseteq Value
           /\ \A fn \in Fields : Code(fn) \in Value
<1>1. /\ frames[t] \in Seq(Call1) /\ frames[t] # << >> /\ f = Head(frames[t])
      /\ ask_ctx[t] \in BOOLEAN /\ mmk_ctx_[t] \in Stub \union {NULL} /\ f.ip # 0
  BY DEF Busy, Types
<1>2. f \in Call1
  BY <1>1
<1>3. /\ f.page \in Page /\ f.stub \in Stub /\ f.ip \in Nat
      /\ f.regs \in [Regs -> Value]
      /\ f.stack \in Seq(Value) /\ f.asks \in BOOLEAN
  BY <1>2 DEF Call1
<1> QED BY <1>1, <1>2, <1>3 DEF Value

LEMMA StepByOp ==
    ASSUME NEW t, NEW f, Busy(t, f), Step(t), NEW i, i = abi[arch].code[f.ip]
    PROVE  /\ i.op = "here"   => StepHere(t)
           /\ i.op = "push"   => StepPush(t)
           /\ i.op = "pop"    => StepPop(t)
           /\ i.op = "mov"    => StepMov(t)
           /\ i.op = "load"   => StepLoad(t)
           /\ i.op = "call"   => StepCall(t)
           /\ i.op = "branch" => StepBranch(t)
           /\ i.op = "jump"   => StepJump(t)
           /\ i.op = "ret"    => StepRet(t)
<1>1. \A op : Is(t, op) => i.op = op
  BY DEF Busy, Is, Fetch
<1> QED BY <1>1 DEF Step, StepHere, StepPush, StepPop, StepMov, StepLoad, StepCall,
                    StepBranch, StepJump, StepRet

(* What an instruction leaves alone in the call that it changes. *)
Same(f, g) == g \in Call1 /\ g.page = f.page /\ g.stub = f.stub /\ g.asks = f.asks

(* The forms that an updated call has, opaque where a lemma is cited.  *)
AtIp(f, n, g)         == g = [f EXCEPT !.ip = n]
AtRegs(f, n, w, g)    == g = [f EXCEPT !.ip = n, !.regs = w]
AtStack(f, n, q, g)   == g = [f EXCEPT !.ip = n, !.stack = q]
AtBoth(f, n, w, q, g) == g = [f EXCEPT !.ip = n, !.regs = w, !.stack = q]
AtJump(f, n, x, y, g) == g = [f EXCEPT !.ip = n, !.routine = x, !.ctx = y]

LEMMA BranchShape ==
    ASSUME NEW f \in Call1, NEW n \in Nat,
           NEW g, AtIp(f, n, g)
    PROVE  Same(f, g) /\ g.ip = n /\ g.regs = f.regs /\ g.stack = f.stack
<1> DEFINE R == [Regs -> Value]
           Q == Seq(Value)
           X == Value \union {NULL}
           Y == Stub \union {NULL}
<1>1. Call1 = [page : Page, stub : Stub, ip : Nat, regs : R, stack : Q,
               asks : BOOLEAN, routine : X, ctx : Y]
  BY DEF Call1
<1>2. f \in Call1
  OBVIOUS
<1> HIDE DEF R, Q, X, Y
<1> QED BY <1>1, <1>2 DEF Same, AtIp

LEMMA SetShape ==
    ASSUME NEW f \in Call1, NEW n \in Nat, NEW w \in [Regs -> Value],
           NEW g, AtRegs(f, n, w, g)
    PROVE  Same(f, g) /\ g.ip = n /\ g.regs = w /\ g.stack = f.stack
<1> DEFINE R == [Regs -> Value]
           Q == Seq(Value)
           X == Value \union {NULL}
           Y == Stub \union {NULL}
<1>1. Call1 = [page : Page, stub : Stub, ip : Nat, regs : R, stack : Q,
               asks : BOOLEAN, routine : X, ctx : Y]
  BY DEF Call1
<1>2. f \in Call1 /\ w \in R
  OBVIOUS
<1> HIDE DEF R, Q, X, Y
<1> QED BY <1>1, <1>2 DEF Same, AtRegs

LEMMA PushShape ==
    ASSUME NEW f \in Call1, NEW n \in Nat, NEW q \in Seq(Value),
           NEW g, AtStack(f, n, q, g)
    PROVE  Same(f, g) /\ g.ip = n /\ g.regs = f.regs /\ g.stack = q
<1> DEFINE R == [Regs -> Value]
           Q == Seq(Value)
           X == Value \union {NULL}
           Y == Stub \union {NULL}
<1>1. Call1 = [page : Page, stub : Stub, ip : Nat, regs : R, stack : Q,
               asks : BOOLEAN, routine : X, ctx : Y]
  BY DEF Call1
<1>2. f \in Call1 /\ q \in Q
  OBVIOUS
<1> HIDE DEF R, Q, X, Y
<1> QED BY <1>1, <1>2 DEF Same, AtStack

LEMMA PopShape ==
    ASSUME NEW f \in Call1, NEW n \in Nat, NEW w \in [Regs -> Value],
           NEW q \in Seq(Value),
           NEW g, AtBoth(f, n, w, q, g)
    PROVE  Same(f, g) /\ g.ip = n /\ g.regs = w /\ g.stack = q
<1> DEFINE R == [Regs -> Value]
           Q == Seq(Value)
           X == Value \union {NULL}
           Y == Stub \union {NULL}
<1>1. Call1 = [page : Page, stub : Stub, ip : Nat, regs : R, stack : Q,
               asks : BOOLEAN, routine : X, ctx : Y]
  BY DEF Call1
<1>2. f \in Call1 /\ w \in R /\ q \in Q
  OBVIOUS
<1> HIDE DEF R, Q, X, Y
<1> QED BY <1>1, <1>2 DEF Same, AtBoth

LEMMA JumpShape ==
    ASSUME NEW f \in Call1, NEW n \in Nat, NEW x \in Value \union {NULL},
           NEW y \in Stub \union {NULL},
           NEW g, AtJump(f, n, x, y, g)
    PROVE  Same(f, g) /\ g.ip = n /\ g.regs = f.regs /\ g.stack = f.stack
           /\ g.routine = x /\ g.ctx = y
<1> DEFINE R == [Regs -> Value]
           Q == Seq(Value)
           X == Value \union {NULL}
           Y == Stub \union {NULL}
<1>1. Call1 = [page : Page, stub : Stub, ip : Nat, regs : R, stack : Q,
               asks : BOOLEAN, routine : X, ctx : Y]
  BY DEF Call1
<1>2. f \in Call1 /\ x \in X /\ y \in Y
  OBVIOUS
<1> HIDE DEF R, Q, X, Y
<1> QED BY <1>1, <1>2 DEF Same, AtJump

LEMMA QuietGoes ==
    ASSUME NEW t, NEW f, Busy(t, f), NEW g, Same(f, g), Becomes(t, g), Quiet,
           NEW n, g.ip = n, NEW ph, NEW ok, NEW known, NEW st,
           At(g, ask_ctx[t], mmk_ctx_[t], ph, ok, known, st)
    PROVE  Reaches(t, f, n, ph, ok, known, st)
<1>1. t \in Thread /\ ask_ctx \in [Thread -> BOOLEAN]
      /\ mmk_ctx_ \in [Thread -> Stub \union {NULL}]
  BY DEF Busy, Types
<1>2. Goes(t, f, g)
  BY <1>1 DEF Goes, Same, Becomes, Quiet
<1> QED BY <1>2 DEF Reaches, Quiet

(* Giving a register a value. *)
LEMMA SetGoes ==
    ASSUME NEW t, NEW f, Busy(t, f), NEW r \in Regs, NEW v \in Value,
           Becomes(t, Set(f, r, v)), Quiet,
           NEW ph, NEW ok, NEW known, NEW st,
           At(f, ask_ctx[t], mmk_ctx_[t], ph, ok, known, st),
           NEW ok2, NEW known2, Writes(r, v, ok, known, ok2, known2)
    PROVE  Reaches(t, f, f.ip + 1, ph, ok2, known2, st)
<1> DEFINE g == Set(f, r, v)
           w == [f.regs EXCEPT ![r] = v]
<1>1. /\ f \in Call1 /\ f.ip + 1 \in Nat /\ f.regs \in [Regs -> Value]
      /\ ask_ctx[t] \in BOOLEAN
  BY BusyFacts
<1>2. g = [f EXCEPT !.ip = f.ip + 1, !.regs = w]
  BY DEF Set
<1>3. /\ w \in [Regs -> Value] /\ w[r] = v
      /\ \A q \in Regs : q # r => w[q] = f.regs[q]
  BY <1>1
<1> HIDE DEF w, g
<1>4. Same(f, g) /\ g.ip = f.ip + 1 /\ g.regs = w /\ g.stack = f.stack
  <2>1. PICK n \in Nat : n = f.ip + 1
    BY <1>1
  <2>2. AtRegs(f, n, w, g)
    BY <1>2, <2>1 DEF AtRegs
  <2> QED BY <1>1, <1>3, <2>1, <2>2, SetShape
<1>5. Phase(ph, g, ask_ctx[t], mmk_ctx_[t])
  BY <1>4 DEF At, Phase, Same
<1>6. Fits(g, ok2, known2, st)
  <2>1. \A q \in ok2 : q \in Regs /\ g.regs[q] = InitialReg(q)
    BY <1>3, <1>4 DEF At, Fits, Writes
  <2>2. \A k \in known2 : k[1] \in Regs /\ g.regs[k[1]] = k[2]
    BY <1>3, <1>4 DEF At, Fits, Writes
  <2> QED BY <1>4, <2>1, <2>2 DEF At, Fits
<1>7. Becomes(t, g)
  BY DEF g
<1> QED BY <1>4, <1>5, <1>6, <1>7, QuietGoes DEF At

LEMMA HereGoes ==
    ASSUME NEW t, NEW f, Busy(t, f), Step(t), NEW r \in Regs,
           abi[arch].code[f.ip] = Here(r),
           NEW ph, NEW ok, NEW known, NEW st,
           At(f, ask_ctx[t], mmk_ctx_[t], ph, ok, known, st),
           NEW ok2, NEW known2, Writes(r, PageAt(f.page), ok, known, ok2, known2)
    PROVE  Reaches(t, f, f.ip + 1, ph, ok2, known2, st)
<1>1. StepHere(t)
  BY StepByOp DEF Here
<1>2. Becomes(t, Set(f, r, PageAt(f.page))) /\ Quiet
  BY <1>1 DEF StepHere, Busy, Fetch, Here
<1> QED BY <1>2, BusyFacts, SetGoes

LEMMA MovGoes ==
    ASSUME NEW t, NEW f, Busy(t, f), Step(t), NEW r \in Regs, NEW a,
           abi[arch].code[f.ip] = Mov(r, a),
           NEW ph, NEW ok, NEW known, NEW st,
           At(f, ask_ctx[t], mmk_ctx_[t], ph, ok, known, st),
           NEW v, Knows(known, a, v),
           NEW ok2, NEW known2, Writes(r, v, ok, known, ok2, known2)
    PROVE  Reaches(t, f, f.ip + 1, ph, ok2, known2, st)
<1>1. StepMov(t)
  BY StepByOp DEF Mov
<1>2. a \in Regs /\ f.regs[a] = v
  BY DEF At, Fits, Knows
<1>3. v \in Value
  BY <1>2, BusyFacts
<1>4. Becomes(t, Set(f, r, v)) /\ Quiet
  BY <1>1, <1>2 DEF StepMov, Busy, Fetch, Mov
<1> QED BY <1>3, <1>4, SetGoes

(* What the code reads: the page has its stub, the stub its functions. *)
LEMMA Words ==
    ASSUME NEW t, NEW f, Busy(t, f)
    PROVE  /\ Word(PageAt(f.page), "ctx") = StubAt(f.stub)
           /\ Word(PageAt(f.page), "routine") = Routine(f.stub)
           /\ \A fn \in Fields : Word(StubAt(f.stub), fn) = Code(fn)
           /\ NULL \notin {StubAt(f.stub), Routine(f.stub)}
           /\ \A fn \in Fields : NULL # Code(fn)
<1>1. f.page \in Page /\ f.stub \in Stub /\ page[f.page] = f.stub
  BY BusyFacts DEF Busy
<1>2. f.stub # NULL
  BY <1>1, NullAssumption
<1>3. Live(f.stub)
  BY <1>1 DEF Live
<1>4. Word(PageAt(f.page), "ctx") = StubAt(f.stub)
  BY <1>1, <1>2 DEF Word, PageAt
<1>5. Word(PageAt(f.page), "routine") = Routine(f.stub)
  BY <1>1, <1>2 DEF Word, PageAt
<1>6. \A fn \in Fields : Word(StubAt(f.stub), fn) = Code(fn)
  BY <1>3 DEF Word, StubAt, Fields
<1> QED BY <1>1, <1>4, <1>5, <1>6, NullAssumption DEF Fields

LEMMA LoadGoes ==
    ASSUME NEW t, NEW f, Busy(t, f), Step(t), NEW r \in Regs, NEW a, NEW fld,
           abi[arch].code[f.ip] = Load(r, a, fld),
           NEW ph, NEW ok, NEW known, NEW st,
           At(f, ask_ctx[t], mmk_ctx_[t], ph, ok, known, st),
           NEW x, Knows(known, a, x), NEW v, Reads(x, fld, v),
           NEW ok2, NEW known2, Writes(r, v, ok, known, ok2, known2)
    PROVE  Reaches(t, f, f.ip + 1, ph, ok2, known2, st)
<1>1. StepLoad(t)
  BY StepByOp DEF Load
<1>2. a \in Regs /\ f.regs[a] = x
  BY DEF At, Fits, Knows
<1>3. Becomes(t, Set(f, r, v)) /\ Quiet
  BY <1>1, <1>2 DEF StepLoad, Busy, Fetch, Load, Reads
<1>4. v \in Value
  BY DEF Reads
<1> QED BY <1>3, <1>4, SetGoes

LEMMA PushGoes ==
    ASSUME NEW t, NEW f, Busy(t, f), Step(t), NEW rs, abi[arch].code[f.ip] = Push(rs),
           NEW ph, NEW ok, NEW known, NEW st,
           At(f, ask_ctx[t], mmk_ctx_[t], ph, ok, known, st),
           NEW q, q = Reverse([i \in DOMAIN rs |-> f.regs[rs[i]]]) \o st,
           q \in Seq(Value),
           NEW ok2, NEW known2, ok2 \subseteq ok, known2 \subseteq known
    PROVE  Reaches(t, f, f.ip + 1, ph, ok2, known2, q)
<1>1. StepPush(t)
  BY StepByOp DEF Push
<1>2. f.stack = st
  BY DEF At, Fits
<1> DEFINE g == Pushed(f, rs)
<1>3. g = [f EXCEPT !.ip = f.ip + 1, !.stack = q]
  BY <1>2 DEF Pushed
<1> HIDE DEF g
<1>4. Becomes(t, g) /\ Quiet
  <2>1. f = Head(frames[t]) /\ Fetch(f) = Push(rs)
    BY DEF Busy, Fetch
  <2>2. Fetch(f).rs = rs
    BY ONLY <2>1 DEF Push
  <2> QED BY ONLY <1>1, <2>1, <2>2 DEF StepPush, g
<1>5. Same(f, g) /\ g.ip = f.ip + 1 /\ g.regs = f.regs /\ g.stack = q
  <2>1. f \in Call1 /\ f.ip + 1 \in Nat
    BY BusyFacts
  <2>2. PICK n \in Nat : n = f.ip + 1
    BY <2>1
  <2>3. AtStack(f, n, q, g)
    BY <1>3, <2>2 DEF AtStack
  <2>4. q \in Seq(Value)
    OBVIOUS
  <2> QED BY ONLY <2>1, <2>2, <2>3, <2>4, PushShape
<1>6. At(g, ask_ctx[t], mmk_ctx_[t], ph, ok2, known2, q)
  BY <1>5 DEF At, Phase, Fits, Same
<1> QED BY <1>4, <1>5, <1>6, QuietGoes

LEMMA PushOneGoes ==
    ASSUME NEW t, NEW f, Busy(t, f), Step(t), NEW r, abi[arch].code[f.ip] = Push(<<r>>),
           NEW ph, NEW ok, NEW known, NEW st,
           At(f, ask_ctx[t], mmk_ctx_[t], ph, ok, known, st),
           NEW v, Knows(known, r, v)
    PROVE  Reaches(t, f, f.ip + 1, ph, ok, known, Over(v, st))
<1> DEFINE d == [i \in DOMAIN <<r>> |-> f.regs[<<r>>[i]]]
<1>1. f.regs \in [Regs -> Value] /\ f.stack \in Seq(Value)
  BY BusyFacts
<1>2. r \in Regs /\ f.regs[r] = v /\ st = f.stack
  BY DEF At, Fits, Knows
<1>3. Reverse(d) = <<v>>
  BY <1>2 DEF Reverse
<1>4. v \in Value
  BY <1>1, <1>2
<1> HIDE DEF d
<1>5. Over(v, st) = Reverse(d) \o st /\ Over(v, st) \in Seq(Value)
  BY <1>1, <1>2, <1>3, <1>4 DEF Over
<1> QED BY <1>5, PushGoes DEF d

(* The link register, as it was at the call, and another register over it. *)
LEMMA PushPairGoes ==
    ASSUME NEW t, NEW f, Busy(t, f), Step(t), NEW lr, NEW ip,
           abi[arch].code[f.ip] = Push(<<lr, ip>>),
           NEW ph, NEW ok, NEW known, NEW st,
           At(f, ask_ctx[t], mmk_ctx_[t], ph, ok, known, st),
           NEW v, Knows(known, ip, v), lr \in ok, InitialReg(lr) = Return,
           NEW ok2, ok2 \subseteq ok
    PROVE  Reaches(t, f, f.ip + 1, ph, ok2, known, Over(v, Over(Return, st)))
<1> DEFINE d == [i \in DOMAIN <<lr, ip>> |-> f.regs[<<lr, ip>>[i]]]
<1>1. f.regs \in [Regs -> Value] /\ f.stack \in Seq(Value) /\ Return \in Value
  BY BusyFacts
<1>2. ip \in Regs /\ f.regs[ip] = v /\ st = f.stack /\ f.regs[lr] = Return
  BY DEF At, Fits, Knows
<1>3. Reverse(d) = <<v, Return>>
  BY <1>2 DEF Reverse
<1>4. v \in Value
  BY <1>1, <1>2
<1> HIDE DEF d
<1>5. <<v, Return>> \o st = Over(v, Over(Return, st))
  BY <1>1, <1>2 DEF Over
<1>6. Over(v, Over(Return, st)) = Reverse(d) \o st
          /\ Over(v, Over(Return, st)) \in Seq(Value)
  BY <1>1, <1>2, <1>3, <1>4, <1>5 DEF Over
<1> QED BY <1>6, PushGoes DEF d

LEMMA PushSavedGoes ==
    ASSUME NEW t, NEW f, Busy(t, f), Step(t), NEW S, NEW rs \in Seq(S),
           abi[arch].code[f.ip] = Push(rs),
           NEW ph, NEW ok, NEW known, NEW st,
           At(f, ask_ctx[t], mmk_ctx_[t], ph, ok, known, st),
           \A i \in DOMAIN rs : rs[i] \in ok,
           NEW ok2, ok2 \subseteq ok
    PROVE  Reaches(t, f, f.ip + 1, ph, ok2, known, Saved(rs) \o st)
<1> DEFINE d == [i \in DOMAIN rs |-> f.regs[rs[i]]]
<1>1. f.regs \in [Regs -> Value] /\ f.stack \in Seq(Value)
  BY BusyFacts
<1>2. st = f.stack /\ \A i \in DOMAIN rs : rs[i] \in Regs
          /\ f.regs[rs[i]] = InitialReg(rs[i])
  BY DEF At, Fits
<1>3. d = [i \in DOMAIN rs |-> InitialReg(rs[i])]
  BY <1>2
<1>4. d \in Seq(Value)
  <2>1. DOMAIN rs = 1..Len(rs) /\ Len(rs) \in Nat
    OBVIOUS
  <2>2. d \in [1..Len(rs) -> Value]
    BY <1>1, <1>2, <2>1
  <2> HIDE DEF d
  <2> QED BY <2>1, <2>2
<1>5. Reverse(d) \in Seq(Value)
  <2> HIDE DEF d
  <2> QED BY <1>4 DEF Reverse
<1>6. Saved(rs) \o st = Reverse(d) \o st
  BY <1>3 DEF Saved
<1>7. Saved(rs) \o st \in Seq(Value)
  <2> HIDE DEF d
  <2> QED BY <1>1, <1>2, <1>5, <1>6
<1> QED BY <1>6, <1>7, PushGoes

(* What is known once registers rs, none twice, have been popped off q.     *)
Restores(rs, q, ok, known, ok2, known2) ==
    /\ Len(q) = Len(rs)
    /\ \A i, j \in DOMAIN rs : rs[i] = rs[j] => i = j
    /\ \A r \in ok2 : \/ r \in ok /\ \A i \in DOMAIN rs : rs[i] # r
                      \/ r \in Regs /\ \E i \in DOMAIN rs : rs[i] = r
                          /\ q[i] = InitialReg(r)
    /\ \A k \in known2 : \/ k \in known /\ \A i \in DOMAIN rs : rs[i] # k[1]
                         \/ k[1] \in Regs /\ \E i \in DOMAIN rs : rs[i] = k[1]
                             /\ q[i] = k[2]

LEMMA PopGoes ==
    ASSUME NEW t, NEW f, Busy(t, f), Step(t), NEW rs \in Seq(Regs),
           abi[arch].code[f.ip] = Pop(rs), NEW q \in Seq(Value),
           NEW rest \in Seq(Value),
           NEW ph, NEW ok, NEW known,
           At(f, ask_ctx[t], mmk_ctx_[t], ph, ok, known, q \o rest),
           NEW ok2, NEW known2, Restores(rs, q, ok, known, ok2, known2)
    PROVE  Reaches(t, f, f.ip + 1, ph, ok2, known2, rest)
<1>0. Len(q) = Len(rs) /\ \A i, j \in DOMAIN rs : rs[i] = rs[j] => i = j
  BY DEF Restores
<1> DEFINE w == [r \in DOMAIN f.regs |->
                    IF Contains(rs, r) THEN f.stack[CHOOSE i \in DOMAIN rs : rs[i] = r]
                    ELSE f.regs[r]]
<1>1. StepPop(t)
  BY StepByOp DEF Pop
<1>2. f \in Call1 /\ f.ip + 1 \in Nat /\ f.regs \in [Regs -> Value]
  BY BusyFacts
<1>3. f.stack = q \o rest
  BY DEF At, Fits
<1>4. DOMAIN rs = 1..Len(rs) /\ DOMAIN q = 1..Len(rs) /\ Len(rs) \in Nat
  BY <1>0
<1>5. SubSeq(f.stack, Len(rs) + 1, Len(f.stack)) = rest
  BY <1>3, <1>4
<1>6. \A i \in DOMAIN rs : f.stack[i] = q[i] /\ q[i] \in Value
  BY <1>3, <1>4
<1>7. \A r \in Regs : (\A i \in DOMAIN rs : rs[i] # r) => w[r] = f.regs[r]
  BY <1>2, <1>4 DEF Contains
<1>8. \A i \in DOMAIN rs : rs[i] \in Regs => w[rs[i]] = q[i]
  <2> TAKE i \in DOMAIN rs
  <2> HAVE rs[i] \in Regs
  <2>1. Contains(rs, rs[i]) /\ (CHOOSE j \in DOMAIN rs : rs[j] = rs[i]) = i
    BY <1>0, <1>4 DEF Contains
  <2> QED BY <1>2, <1>6, <2>1
<1>9. w \in [Regs -> Value]
  <2>1. \A r \in Regs : w[r] \in Value
    BY <1>2, <1>6, <1>7, <1>8
  <2> QED BY <1>2, <2>1
<1> DEFINE g == Popped(f, rs)
<1>10. g = [f EXCEPT !.ip = f.ip + 1, !.regs = w, !.stack = rest]
  BY <1>5 DEF Popped
<1> HIDE DEF w, g
<1>11. Becomes(t, g) /\ Quiet
  BY <1>1 DEF StepPop, Busy, Fetch, Pop, g
<1>12. Same(f, g) /\ g.ip = f.ip + 1 /\ g.regs = w /\ g.stack = rest
  <2>1. PICK n \in Nat : n = f.ip + 1
    BY <1>2
  <2>2. AtBoth(f, n, w, rest, g)
    BY <1>10, <2>1 DEF AtBoth
  <2> QED BY <1>2, <1>9, <2>1, <2>2, PopShape
<1>13. Phase(ph, g, ask_ctx[t], mmk_ctx_[t])
  BY <1>12 DEF At, Phase, Same
<1>14. \A r \in ok2 : r \in Regs /\ g.regs[r] = InitialReg(r)
  BY <1>7, <1>8, <1>12 DEF At, Fits, Restores
<1>15. \A k \in known2 : k[1] \in Regs /\ g.regs[k[1]] = k[2]
  BY <1>7, <1>8, <1>12 DEF At, Fits, Restores
<1>16. At(g, ask_ctx[t], mmk_ctx_[t], ph, ok2, known2, rest)
  BY <1>12, <1>13, <1>14, <1>15 DEF At, Fits
<1>17. Busy(t, f)
  OBVIOUS
<1> QED BY ONLY <1>11, <1>12, <1>16, <1>17, QuietGoes

LEMMA InitialIsValue ==
    /\ \A r \in Regs : InitialReg(r) \in Value
    /\ InitialStack \in Seq(Value)
<1>1. \A r \in Regs : InitialReg(r) \in Value
  BY DEF InitialReg, Value, Return, Arg
<1>2. [is |-> "return"] \in Value /\ [is |-> "arg", reg |-> "stack"] \in Value
  BY DEF Value, Return, Arg
<1> DEFINE V == Value
<1>3. InitialStack \in Seq(V)
  <2>1. [is |-> "return"] \in V /\ [is |-> "arg", reg |-> "stack"] \in V
    BY <1>2
  <2> HIDE DEF V
  <2> QED BY <2>1 DEF InitialStack
<1> QED BY <1>1, <1>3

LEMMA SavedIs ==
    ASSUME NEW rs \in Seq(Regs)
    PROVE  /\ Saved(rs) \in Seq(Value) /\ Len(Saved(rs)) = Len(rs)
           /\ \A i \in 1..Len(rs) : Saved(rs)[i] = InitialReg(rs[Len(rs) - i + 1])
           /\ Reverse(rs) \in Seq(Regs) /\ Len(Reverse(rs)) = Len(rs)
           /\ \A i \in 1..Len(rs) : Reverse(rs)[i] = rs[Len(rs) - i + 1]
<1> DEFINE d == [i \in DOMAIN rs |-> InitialReg(rs[i])]
<1>1. d \in Seq(Value) /\ Len(d) = Len(rs)
          /\ \A i \in 1..Len(rs) : d[i] = InitialReg(rs[i])
  <2>1. d \in [1..Len(rs) -> Value]
    BY InitialIsValue
  <2> QED BY <2>1
<1> HIDE DEF d
<1>2. /\ Reverse(d) \in Seq(Value) /\ Len(Reverse(d)) = Len(d)
      /\ \A i \in 1..Len(rs) : Reverse(d)[i] = d[Len(rs) - i + 1]
  BY <1>1 DEF Reverse
<1>3. /\ Reverse(rs) \in Seq(Regs) /\ Len(Reverse(rs)) = Len(rs)
      /\ \A i \in 1..Len(rs) : Reverse(rs)[i] = rs[Len(rs) - i + 1]
  BY DEF Reverse
<1>4. Saved(rs) = Reverse(d)
  BY DEF Saved, d
<1>5. \A i \in 1..Len(rs) : Len(rs) - i + 1 \in 1..Len(rs)
  OBVIOUS
<1> QED BY <1>1, <1>2, <1>3, <1>4, <1>5

LEMMA PopOneGoes ==
    ASSUME NEW t, NEW f, Busy(t, f), Step(t), NEW r \in Regs,
           abi[arch].code[f.ip] = Pop(<<r>>),
           NEW v \in Value, NEW rest \in Seq(Value),
           NEW ph, NEW ok, NEW known,
           At(f, ask_ctx[t], mmk_ctx_[t], ph, ok, known, Over(v, rest)),
           NEW ok2, NEW known2, Writes(r, v, ok, known, ok2, known2)
    PROVE  Reaches(t, f, f.ip + 1, ph, ok2, known2, rest)
<1> DEFINE rs == <<r>>
           q == <<v>>
<1>1. /\ rs \in Seq(Regs)
      /\ q \in Seq(Value) /\ Len(q) = Len(rs) /\ DOMAIN rs = {1} /\ rs[1] = r
      /\ q[1] = v
  OBVIOUS
<1>2. abi[arch].code[f.ip] = Pop(rs) /\ Over(v, rest) = q \o rest
  BY DEF Over
<1> HIDE DEF rs, q
<1>3. Restores(rs, q, ok, known, ok2, known2)
  BY <1>1 DEF Writes, Restores
<1>4. At(f, ask_ctx[t], mmk_ctx_[t], ph, ok, known, q \o rest)
  BY <1>2
<1> QED BY <1>1, <1>2, <1>3, <1>4, PopGoes

(* The link register, as it was at the call, and another one over it.      *)
PairBack(ip, lr, v, ok, known, ok2, known2) ==
    /\ \A r \in ok2 : r = lr \/ (r \in ok /\ r # ip)
    /\ \A k \in known2 : k = <<ip, v>> \/ (k \in known /\ k[1] \notin {ip, lr})

LEMMA PopPairGoes ==
    ASSUME NEW t, NEW f, Busy(t, f), Step(t), NEW ip \in Regs, NEW lr \in Regs, ip # lr,
           abi[arch].code[f.ip] = Pop(<<ip, lr>>), InitialReg(lr) = Return,
           NEW v \in Value, NEW rest \in Seq(Value),
           NEW ph, NEW ok, NEW known,
           At(f, ask_ctx[t], mmk_ctx_[t], ph, ok, known, Over(v, Over(Return, rest))),
           NEW ok2, NEW known2, PairBack(ip, lr, v, ok, known, ok2, known2)
    PROVE  Reaches(t, f, f.ip + 1, ph, ok2, known2, rest)
<1> DEFINE rs == <<ip, lr>>
           q == <<v, Return>>
<1>1. /\ rs \in Seq(Regs) /\ Len(q) = Len(rs) /\ DOMAIN rs = {1, 2}
      /\ rs[1] = ip /\ q[1] = v /\ rs[2] = lr /\ q[2] = Return
  OBVIOUS
<1>2. Return \in Value
  BY BusyFacts
<1>3. q \in Seq(Value)
  BY <1>2
<1>4. Over(v, Over(Return, rest)) = q \o rest
  BY <1>2 DEF Over
<1>5. abi[arch].code[f.ip] = Pop(rs)
  OBVIOUS
<1> HIDE DEF rs, q
<1>6. Restores(rs, q, ok, known, ok2, known2)
  BY <1>1 DEF Restores, PairBack
<1>8. At(f, ask_ctx[t], mmk_ctx_[t], ph, ok, known, q \o rest)
  BY <1>4
<1> QED BY <1>1, <1>3, <1>5, <1>6, <1>8, PopGoes

Returns(saves, ok, known, ok2, known2) ==
    /\ \A i, j \in DOMAIN saves : saves[i] = saves[j] => i = j
    /\ \A r \in ok2 : r \in ok \/ \E i \in DOMAIN saves : saves[i] = r
    /\ \A k \in known2 : k \in known /\ \A i \in DOMAIN saves : saves[i] # k[1]

LEMMA PopSavedGoes ==
    ASSUME NEW t, NEW f, Busy(t, f), Step(t), NEW saves \in Seq(Regs),
           abi[arch].code[f.ip] = Pop(Reverse(saves)), NEW rest \in Seq(Value),
           NEW ph, NEW ok, NEW known,
           At(f, ask_ctx[t], mmk_ctx_[t], ph, ok, known, Saved(saves) \o rest),
           NEW ok2, NEW known2, Returns(saves, ok, known, ok2, known2)
    PROVE  Reaches(t, f, f.ip + 1, ph, ok2, known2, rest)
<1> DEFINE rs == Reverse(saves)
           q == Saved(saves)
           n == Len(saves)
<1>1. /\ rs \in Seq(Regs) /\ Len(rs) = n /\ q \in Seq(Value) /\ Len(q) = n
      /\ \A i \in 1..n : rs[i] = saves[n - i + 1] /\ q[i] = InitialReg(saves[n - i + 1])
  BY SavedIs
<1>2. n \in Nat /\ DOMAIN saves = 1..n /\ DOMAIN rs = 1..n
  BY <1>1
<1> HIDE DEF rs, q, n
<1>3. \A i \in 1..n : n - i + 1 \in 1..n /\ n - (n - i + 1) + 1 = i
  BY <1>2
<1>4. \A i, j \in DOMAIN rs : rs[i] = rs[j] => i = j
  <2> TAKE i, j \in DOMAIN rs
  <2> HAVE rs[i] = rs[j]
  <2>1. n - i + 1 \in DOMAIN saves /\ n - j + 1 \in DOMAIN saves /\ i \in 1..n
            /\ j \in 1..n
    BY <1>2, <1>3
  <2>2. saves[n - i + 1] = saves[n - j + 1]
    BY <1>1, <2>1
  <2>3. n - i + 1 = n - j + 1
    BY <2>1, <2>2 DEF Returns
  <2> QED BY <1>2, <2>1, <2>3
<1>5. \A i \in DOMAIN saves : \E j \in DOMAIN rs : rs[j] = saves[i]
          /\ q[j] = InitialReg(saves[i])
  <2> TAKE i \in DOMAIN saves
  <2>1. n - i + 1 \in DOMAIN rs /\ rs[n - i + 1] = saves[i]
            /\ q[n - i + 1] = InitialReg(saves[i])
    BY <1>1, <1>2, <1>3
  <2> QED BY <2>1
<1>6. \A j \in DOMAIN rs : \E i \in DOMAIN saves : rs[j] = saves[i]
  BY <1>1, <1>2, <1>3
<1>7. \A r \in ok2 : \/ r \in ok /\ \A i \in DOMAIN rs : rs[i] # r
                     \/ r \in Regs /\ \E i \in DOMAIN rs : rs[i] = r
                         /\ q[i] = InitialReg(r)
  <2> TAKE r \in ok2
  <2>1. CASE \E i \in DOMAIN saves : saves[i] = r
    <3>1. PICK i \in DOMAIN saves : saves[i] = r
      BY <2>1
    <3>2. r \in Regs
      BY <3>1
    <3> QED BY <1>5, <3>1, <3>2
  <2>2. CASE ~ \E i \in DOMAIN saves : saves[i] = r
    BY <1>6, <2>2 DEF Returns
  <2> QED BY <2>1, <2>2
<1>8. \A k \in known2 : k \in known /\ \A i \in DOMAIN rs : rs[i] # k[1]
  BY <1>6 DEF Returns
<1>9. abi[arch].code[f.ip] = Pop(rs)
          /\ At(f, ask_ctx[t], mmk_ctx_[t], ph, ok, known, q \o rest)
  BY DEF rs, q
<1>10. Restores(rs, q, ok, known, ok2, known2)
  BY <1>1, <1>4, <1>7, <1>8 DEF Restores
<1> QED BY <1>1, <1>9, <1>10, PopGoes

(* A call of fn: its effect, and that it may leave anything in registers.  *)
Argument(f) == IF abi[arch].first = "stack" THEN Head(f.stack)
               ELSE f.regs[abi[arch].first]

Enacts(t, f, fn, st, g) ==
    /\ Same(f, g) /\ g.ip = f.ip + 1 /\ g.stack = st
    /\ g.regs[abi[arch].result] = Returned(t, fn)
    /\ Becomes(t, g) /\ UNCHANGED <<arch, emulated, owner, page, answer, fault>>
    /\ ask_ctx' = IF fn = "ctx_asked" THEN mmk_ctx_asked(t) ELSE ask_ctx
    /\ mmk_ctx_' = IF fn = "ctx_set" THEN mmk_set_ctx(t, Argument(f).stub) ELSE mmk_ctx_

LEMMA CallGoes ==
    ASSUME NEW t, NEW f, Busy(t, f), Step(t), StepCall(t) => HasBlock(t), NEW r,
           abi[arch].code[f.ip] = Call(r), abi[arch].result \in Regs,
           NEW ph, NEW ok, NEW known, NEW st,
           At(f, ask_ctx[t], mmk_ctx_[t], ph, ok, known, st),
           NEW fn, Knows(known, r, Code(fn)), Returned(t, fn) \in Value
    PROVE  \E g : Enacts(t, f, fn, st, g)
<1> DEFINE v == Returned(t, fn)
           w == [x \in DOMAIN f.regs |-> IF x = abi[arch].result THEN v ELSE Junk]
           g == Called(f, v)
<1>1. StepCall(t) /\ HasBlock(t)
  BY StepByOp DEF Call
<1>2. /\ f \in Call1 /\ f.ip + 1 \in Nat /\ f.regs \in [Regs -> Value] /\ Junk \in Value
      /\ f = Head(frames[t])
  BY BusyFacts DEF Busy
<1>3. f.stack = st /\ f.regs[r] = Code(fn)
  BY DEF At, Fits, Knows
<1>4. /\ Becomes(t, g) /\ UNCHANGED <<arch, emulated, owner, page, answer, fault>>
      /\ ask_ctx' = IF fn = "ctx_asked" THEN mmk_ctx_asked(t) ELSE ask_ctx
      /\ mmk_ctx_' = IF fn = "ctx_set" THEN mmk_set_ctx(t, Argument(f).stub)
                      ELSE mmk_ctx_
  <2>1. Fetch(f).r = r /\ Code(fn).is = "code" /\ Code(fn).fn = fn
    BY DEF Fetch, Call, Code
  <2> QED BY <1>1, <1>2, <1>3, <2>1 DEF StepCall, Argument
<1>5. w \in [Regs -> Value] /\ w[abi[arch].result] = v
  BY <1>2
<1>6. PICK n \in Nat : n = f.ip + 1
  BY <1>2
<1>7. AtRegs(f, n, w, g)
  BY <1>6 DEF AtRegs, Called
<1> HIDE DEF g, w
<1>8. Same(f, g) /\ g.ip = n /\ g.regs = w /\ g.stack = f.stack
  BY <1>2, <1>5, <1>6, <1>7, SetShape
<1> QED BY <1>3, <1>4, <1>5, <1>6, <1>8 DEF Enacts

LEMMA CallSetGoes ==
    ASSUME NEW t, NEW f, Busy(t, f), Step(t), StepCall(t) => HasBlock(t), NEW r,
           abi[arch].code[f.ip] = Call(r), abi[arch].result \in Regs,
           NEW ok, NEW known, NEW st,
           At(f, ask_ctx[t], mmk_ctx_[t], "start", ok, known, st),
           Knows(known, r, Code("ctx_set")), Argument(f) = StubAt(f.stub)
    PROVE  Reaches(t, f, f.ip + 1, "set", {}, {}, st)
<1>1. Returned(t, "ctx_set") = Junk /\ Junk \in Value
  BY BusyFacts DEF Returned
<1>2a. PICK g : Enacts(t, f, "ctx_set", st, g)
  BY <1>1, CallGoes
<1>2. /\ Same(f, g) /\ g.ip = f.ip + 1 /\ g.stack = st
      /\ Becomes(t, g) /\ UNCHANGED <<arch, emulated, owner, page, answer, fault>>
      /\ ask_ctx' = ask_ctx
      /\ mmk_ctx_' = mmk_set_ctx(t, Argument(f).stub)
  BY <1>2a DEF Enacts
<1>3. Argument(f).stub = f.stub
  BY DEF StubAt
<1>4. /\ t \in Thread /\ f.stub \in Stub /\ ask_ctx \in [Thread -> BOOLEAN]
      /\ mmk_ctx_ \in [Thread -> Stub \union {NULL}]
  BY BusyFacts DEF Busy, Types
<1>5. mmk_ctx_' = [mmk_ctx_ EXCEPT ![t] = f.stub] /\ mmk_ctx_'[t] = f.stub
  BY <1>2, <1>3, <1>4 DEF mmk_set_ctx
<1>6. Goes(t, f, g)
  BY <1>2, <1>4, <1>5 DEF Goes, Same, Becomes
<1>7. At(g, ask_ctx'[t], mmk_ctx_'[t], "set", {}, {}, st)
  BY <1>2, <1>5 DEF At, Phase, Fits, Same
<1> QED BY <1>2, <1>6, <1>7 DEF Reaches

LEMMA CallAskedGoes ==
    ASSUME NEW t, NEW f, Busy(t, f), Step(t), StepCall(t) => HasBlock(t), NEW r,
           abi[arch].code[f.ip] = Call(r), abi[arch].result \in Regs,
           NEW ok, NEW known, NEW st,
           At(f, ask_ctx[t], mmk_ctx_[t], "set", ok, known, st),
           Knows(known, r, Code("ctx_asked"))
    PROVE  Reaches(t, f, f.ip + 1, "asked", {},
         {<<abi[arch].result, Answered(f)>>}, st)
<1>1. /\ t \in Thread /\ ask_ctx \in [Thread -> BOOLEAN] /\ f.asks \in BOOLEAN
      /\ mmk_ctx_ \in [Thread -> Stub \union {NULL}]
      /\ Zero \in Value /\ One \in Value
  BY BusyFacts DEF Busy, Types
<1>2. ask_ctx[t] <=> f.asks
  BY DEF At, Phase
<1>3. Returned(t, "ctx_asked") = Answered(f) /\ Answered(f) \in Value
  BY <1>1, <1>2 DEF Returned, Answered, Zero, One
<1>4a. PICK g : Enacts(t, f, "ctx_asked", st, g)
  BY <1>3, CallGoes
<1>4. /\ Same(f, g) /\ g.ip = f.ip + 1 /\ g.stack = st
      /\ g.regs[abi[arch].result] = Answered(f)
      /\ Becomes(t, g) /\ UNCHANGED <<arch, emulated, owner, page, answer, fault>>
      /\ ask_ctx' = mmk_ctx_asked(t) /\ mmk_ctx_' = mmk_ctx_
  BY <1>4a, <1>3 DEF Enacts
<1>5. ask_ctx' = [ask_ctx EXCEPT ![t] = FALSE] /\ ask_ctx'[t] = FALSE
  BY <1>1, <1>4 DEF mmk_ctx_asked
<1>6. Goes(t, f, g)
  BY <1>1, <1>4, <1>5 DEF Goes, Same, Becomes
<1>7. At(g, ask_ctx'[t], mmk_ctx_'[t], "asked", {},
         {<<abi[arch].result, Answered(f)>>}, st)
  BY <1>4, <1>5 DEF At, Phase, Fits, Same
<1> QED BY <1>4, <1>6, <1>7 DEF Reaches

LEMMA CallGetGoes ==
    ASSUME NEW t, NEW f, Busy(t, f), Step(t), StepCall(t) => HasBlock(t), NEW r,
           abi[arch].code[f.ip] = Call(r), abi[arch].result \in Regs,
           NEW ok, NEW known, NEW st,
           At(f, ask_ctx[t], mmk_ctx_[t], "answer", ok, known, st),
           Knows(known, r, Code("ctx_get"))
    PROVE  Reaches(t, f, f.ip + 1, "answer", {},
                   {<<abi[arch].result, StubAt(f.stub)>>}, st)
<1>1. /\ t \in Thread /\ ask_ctx \in [Thread -> BOOLEAN]
      /\ mmk_ctx_ \in [Thread -> Stub \union {NULL}]
      /\ f.stub \in Stub /\ StubAt(f.stub) \in Value
  BY BusyFacts DEF Busy, Types
<1>2. mmk_ctx_[t] = f.stub /\ f.stub # NULL
  BY <1>1, NullAssumption DEF At, Phase
<1>3. Returned(t, "ctx_get") = StubAt(f.stub)
  BY <1>2 DEF Returned
<1>4a. PICK g : Enacts(t, f, "ctx_get", st, g)
  BY <1>1, <1>3, CallGoes
<1>4. /\ Same(f, g) /\ g.ip = f.ip + 1 /\ g.stack = st
      /\ g.regs[abi[arch].result] = StubAt(f.stub)
      /\ Becomes(t, g) /\ UNCHANGED <<arch, emulated, owner, page, answer, fault>>
      /\ ask_ctx' = ask_ctx /\ mmk_ctx_' = mmk_ctx_
  BY <1>4a, <1>3 DEF Enacts
<1>5. Goes(t, f, g)
  BY <1>1, <1>4 DEF Goes, Same, Becomes
<1>6. At(g, ask_ctx'[t], mmk_ctx_'[t], "answer", {},
         {<<abi[arch].result, StubAt(f.stub)>>}, st)
  BY <1>4 DEF At, Phase, Fits, Same
<1> QED BY <1>4, <1>5, <1>6 DEF Reaches

(* To the routine or, where mmk_ask_ctx asked, to its answer.              *)
LEMMA BranchGoes ==
    ASSUME NEW t, NEW f, Busy(t, f), Step(t), NEW r, NEW n \in Nat,
           abi[arch].code[f.ip] = Branch(r, n),
           NEW ok, NEW known, NEW st,
           At(f, ask_ctx[t], mmk_ctx_[t], "asked", ok, known, st),
           Knows(known, r, Answered(f))
    PROVE  \/ Reaches(t, f, f.ip + 1, "routine", ok, {}, st)
           \/ Reaches(t, f, n, "answer", {}, {}, st)
<1> DEFINE to == IF f.regs[r].is = "zero" THEN f.ip + 1 ELSE n
           g == [f EXCEPT !.ip = to]
<1>1. StepBranch(t)
  BY StepByOp DEF Branch
<1>2. f \in Call1 /\ f.ip + 1 \in Nat /\ f = Head(frames[t]) /\ f.asks \in BOOLEAN
  BY BusyFacts DEF Busy
<1>3. f.regs[r] = Answered(f)
  BY DEF At, Fits, Knows
<1>4. to = IF f.asks THEN n ELSE f.ip + 1
  BY <1>2, <1>3 DEF Answered, Zero, One
<1>5. Fetch(f).r = r /\ Fetch(f).n = n
  BY DEF Fetch, Branch
<1>6. Becomes(t, g) /\ Quiet
  BY <1>1, <1>2, <1>5 DEF StepBranch
<1>7. to \in Nat /\ AtIp(f, to, g)
  BY <1>2 DEF AtIp
<1> HIDE DEF to, g
<1>8. Same(f, g) /\ g.ip = to /\ g.regs = f.regs /\ g.stack = f.stack
  BY <1>2, <1>7, BranchShape
<1>9. CASE f.asks
  <2>1. At(g, ask_ctx[t], mmk_ctx_[t], "answer", {}, {}, st)
    BY <1>8, <1>9 DEF At, Phase, Fits, Same
  <2> QED BY <1>4, <1>6, <1>8, <1>9, <2>1, QuietGoes
<1>10. CASE ~f.asks
  <2>1. At(g, ask_ctx[t], mmk_ctx_[t], "routine", ok, {}, st)
    BY <1>8, <1>10 DEF At, Phase, Fits, Same
  <2>2. g.ip = f.ip + 1
    BY <1>4, <1>8, <1>10
  <2> QED BY <1>6, <1>8, <2>1, <2>2, QuietGoes
<1> QED BY <1>9, <1>10

(* What an instruction may come to.                                        *)
Enters(t, f)  == \E g : Goes(t, f, g) /\ g.ip = 0 /\ Arrived(g) /\ ~ask_ctx'[t]
Leaves(t)     == \E x : /\ frames' = [frames EXCEPT ![t] = Tail(@)]
                        /\ answer' = [answer EXCEPT ![t] = x] /\ Answers(x)
                        /\ ~ask_ctx[t]
                        /\ UNCHANGED <<arch, emulated, owner, page, ask_ctx, mmk_ctx_,
                                       fault>>
Advances(t, f) == \/ \E g : Goes(t, f, g) /\ g.ip # 0
                      /\ Midway(g, ask_ctx'[t], mmk_ctx_'[t])
                  \/ Enters(t, f) \/ Leaves(t)

LEMMA JumpGoes ==
    ASSUME NEW t, NEW f, Busy(t, f), Step(t), NEW r, abi[arch].code[f.ip] = Jump(r),
           NEW ok, NEW known,
           At(f, ask_ctx[t], mmk_ctx_[t], "routine", ok, known, InitialStack),
           Knows(known, r, Routine(f.stub)),
           \A x \in Kept \union {abi[arch].link} : x # "stack" => x \in ok
    PROVE  Enters(t, f)
<1> DEFINE g == [f EXCEPT !.ip = 0, !.routine = f.regs[r], !.ctx = mmk_ctx_[t]]
<1>1. StepJump(t)
  BY StepByOp DEF Jump
<1>2. /\ f \in Call1 /\ f = Head(frames[t]) /\ t \in Thread
      /\ Routine(f.stub) \in Value \union {NULL} /\ mmk_ctx_[t] \in Stub \union {NULL}
      /\ ask_ctx[t] \in BOOLEAN
      /\ ask_ctx \in [Thread -> BOOLEAN] /\ mmk_ctx_ \in [Thread -> Stub \union {NULL}]
  BY BusyFacts DEF Busy, Types
<1>3. /\ f.regs[r] = Routine(f.stub) /\ f.stack = InitialStack
      /\ \A x \in ok : f.regs[x] = InitialReg(x)
      /\ mmk_ctx_[t] = f.stub /\ ~f.asks /\ ~ask_ctx[t]
  BY DEF At, Fits, Knows, Phase
<1>4. Becomes(t, g) /\ Quiet
  <2>1. Fetch(f).r = r
    BY DEF Fetch, Jump
  <2> QED BY <1>1, <1>2, <2>1 DEF StepJump
<1>5. AtJump(f, 0, Routine(f.stub), mmk_ctx_[t], g)
  BY <1>3 DEF AtJump
<1> HIDE DEF g
<1>6. /\ Same(f, g) /\ g.ip = 0 /\ g.regs = f.regs /\ g.stack = f.stack
      /\ g.routine = Routine(f.stub) /\ g.ctx = mmk_ctx_[t]
  <2>1. /\ 0 \in Nat /\ f \in Call1 /\ Routine(f.stub) \in Value \union {NULL}
        /\ mmk_ctx_[t] \in Stub \union {NULL}
    BY <1>2
  <2> QED BY ONLY <1>5, <2>1, JumpShape
<1>7. Goes(t, f, g)
  BY <1>2, <1>4, <1>6 DEF Goes, Same, Becomes, Quiet
<1>8. Arrived(g)
  BY <1>3, <1>6 DEF Arrived, Same
<1> QED BY <1>3, <1>4, <1>6, <1>7, <1>8 DEF Enters, Quiet

LEMMA RetGoes ==
    ASSUME NEW t, NEW f, Busy(t, f), Step(t), abi[arch].code[f.ip] = Ret,
           NEW ok, NEW known, NEW st,
           At(f, ask_ctx[t], mmk_ctx_[t], "answer", ok, known, st),
           Knows(known, abi[arch].result, StubAt(f.stub)),
           IF abi[arch].link = "stack" THEN st = InitialStack
           ELSE abi[arch].link \in ok /\ InitialReg(abi[arch].link) = Return
    PROVE  Leaves(t)
<1>1. StepRet(t)
  BY StepByOp DEF Ret
<1>2. /\ f.regs[abi[arch].result] = StubAt(f.stub) /\ f.asks /\ ~ask_ctx[t]
      /\ f.stack = st /\ \A r \in ok : f.regs[r] = InitialReg(r)
  BY BusyFacts DEF At, Fits, Knows, Phase
<1>3. (IF abi[arch].link = "stack" THEN Head(f.stack) ELSE f.regs[abi[arch].link]) =
          Return
  BY <1>2 DEF InitialStack, Return
<1>4. f = Head(frames[t]) /\ Return.is = "return"
  BY DEF Busy, Return
<1> DEFINE x == [to |-> f.stub, asks |-> f.asks, is |-> f.regs[abi[arch].result]]
<1>5. /\ frames' = [frames EXCEPT ![t] = Tail(@)]
      /\ answer' = [answer EXCEPT ![t] = x]
      /\ UNCHANGED <<arch, emulated, owner, page, ask_ctx, mmk_ctx_, fault>>
  BY <1>1, <1>3, <1>4 DEF StepRet
<1>6. Answers(x)
  BY <1>2 DEF Answers
<1> QED BY <1>2, <1>5, <1>6 DEF Leaves

(* Between rows of the table. *)
LEMMA TableSame ==
    ASSUME NEW f, NEW g, arch \in DOMAIN abi,
           g.page = f.page, g.stub = f.stub, g.asks = f.asks
    PROVE  Table(g) = Table(f)
<1>1. /\ PageAt(g.page) = PageAt(f.page) /\ StubAt(g.stub) = StubAt(f.stub)
      /\ Routine(g.stub) = Routine(f.stub) /\ Answered(g) = Answered(f)
  BY DEF Answered
<1>2. SystemV(g) = SystemV(f)
  BY <1>1 DEF SystemV
<1>3. Win(g) = Win(f)
  BY <1>1 DEF Win
<1>4. /\ Link(g, AArch64Args, "x0", "x16", "x30") =
             Link(f, AArch64Args, "x0", "x16", "x30")
      /\ Link(g, ArmArgs, "r0", "ip", "lr") = Link(f, ArmArgs, "r0", "ip", "lr")
  BY <1>1 DEF Link
<1>5. I386(g) = I386(f)
  BY <1>1 DEF I386
<1> QED BY <1>2, <1>3, <1>4, <1>5 DEF Table, abi

(* Row n of the table that is that of the ABI. *)
Row(f, n, ph, ok, known, st) ==
    n \in 1..Len(abi[arch].code) /\ Table(f)[n] = <<ph, ok, known, st>>

LEMMA RowHolds ==
    ASSUME NEW f, NEW a, NEW c, Midway(f, a, c),
           NEW ph, NEW ok, NEW known, NEW st, Row(f, f.ip, ph, ok, known, st)
    PROVE  At(f, a, c, ph, ok, known, st)
BY DEF Midway, Row

LEMMA RowReached ==
    ASSUME NEW t, NEW f, Busy(t, f), NEW n,
           NEW ph, NEW ok, NEW known, NEW st, Row(f, n, ph, ok, known, st),
           Reaches(t, f, n, ph, ok, known, st)
    PROVE  Advances(t, f)
<1>1. PICK g : /\ Goes(t, f, g) /\ g.ip = n
               /\ At(g, ask_ctx'[t], mmk_ctx_'[t], ph, ok, known, st)
  BY DEF Reaches
<1>2. arch \in DOMAIN abi /\ g.page = f.page /\ g.stub = f.stub /\ g.asks = f.asks
  BY <1>1 DEF Goes, Busy, Types
<1>3. Table(g) = Table(f)
  BY <1>2, TableSame
<1>4. n \in 1..Len(abi[arch].code) /\ Table(f)[n] = <<ph, ok, known, st>>
  BY DEF Row
<1>5. Midway(g, ask_ctx'[t], mmk_ctx_'[t])
  BY <1>1, <1>3, <1>4 DEF Midway
<1>6. g.ip # 0
  BY <1>1, <1>4
<1> QED BY <1>1, <1>5, <1>6 DEF Advances

LEMMA StackIsSeq ==
    ASSUME NEW v \in Value, NEW st \in Seq(Value)
    PROVE  Over(v, st) \in Seq(Value)
<1> DEFINE V == Value
<1>1. v \in V /\ st \in Seq(V)
  OBVIOUS
<1> HIDE DEF V
<1>2. Over(v, st) \in Seq(V)
  BY <1>1 DEF Over
<1> QED BY <1>2 DEF V

LEMMA SystemVIs ==
    ASSUME arch = "systemv"
    PROVE  /\ abi[arch].code = systemv /\ Kept = ToSet(SysVArgs)
           /\ abi[arch].first = "rdi" /\ abi[arch].result = "rax"
           /\ abi[arch].link = "stack"
           /\ Regs = ToSet(SysVArgs) \union {"r11"}
<1>1. ToSet(SysVArgs) = SysVInts \union SysVFloats
  <2>1. ToSet(SysVArgs) = {SysVArgs[i] : i \in 1..15}
    BY DEF ToSet, SysVArgs
  <2>2. /\ SysVArgs[1] = "rdi" /\ SysVArgs[2] = "rsi" /\ SysVArgs[3] = "rdx"
        /\ SysVArgs[4] = "rcx" /\ SysVArgs[5] = "r8" /\ SysVArgs[6] = "r9"
        /\ SysVArgs[7] = "xmm0" /\ SysVArgs[8] = "xmm1" /\ SysVArgs[9] = "xmm2"
        /\ SysVArgs[10] = "xmm3" /\ SysVArgs[11] = "xmm4" /\ SysVArgs[12] = "xmm5"
        /\ SysVArgs[13] = "xmm6" /\ SysVArgs[14] = "xmm7" /\ SysVArgs[15] = "rax"
    BY DEF SysVArgs
  <2>3. \A i \in 1..15 : SysVArgs[i] \in SysVInts \union SysVFloats
    BY <2>2 DEF SysVInts, SysVFloats
  <2>4. \A r \in SysVInts \union SysVFloats : \E i \in 1..15 : SysVArgs[i] = r
    BY <2>2 DEF SysVInts, SysVFloats
  <2> QED BY <2>1, <2>3, <2>4
<1>2. /\ abi[arch].code = systemv /\ abi[arch].ints = SysVInts
      /\ abi[arch].floats = SysVFloats /\ abi[arch].first = "rdi"
      /\ abi[arch].result = "rax" /\ abi[arch].link = "stack"
      /\ Regs = SysVInts \union SysVFloats \union {"r11"}
  BY DEF abi, ABI, Regs
<1> QED BY <1>1, <1>2 DEF Kept

LEMMA SystemVRegs ==
    ASSUME arch = "systemv"
    PROVE  /\ SysVSaves \in Seq(Regs) /\ "r11" \in Regs
           /\ \A i, j \in DOMAIN SysVSaves : SysVSaves[i] = SysVSaves[j] => i = j
           /\ ToSet(SysVArgs) = {SysVSaves[i] : i \in DOMAIN SysVSaves}
           /\ ToSet(SysVArgs) \subseteq Regs
           /\ "r11" \notin ToSet(SysVArgs)
           /\ "rdi" \in ToSet(SysVArgs) /\ "rax" \in ToSet(SysVArgs)
<1>1. Regs = ToSet(SysVArgs) \union {"r11"}
  BY SystemVIs
<1>2. ToSet(SysVArgs) = {SysVSaves[i] : i \in DOMAIN SysVSaves}
  BY DEF ToSet, SysVSaves
<1>3. \A i \in DOMAIN SysVSaves : SysVSaves[i] \in Regs
  BY <1>1, <1>2
<1>4. SysVSaves \in Seq(Regs)
  <2>1. /\ DOMAIN SysVSaves = 1..15 /\ SysVSaves = [i \in 1..15 |-> SysVSaves[i]]
    BY DEF SysVSaves, SysVArgs
  <2> QED BY <1>3, <2>1
<1>5. "r11" \notin ToSet(SysVArgs) /\ "rdi" \in ToSet(SysVArgs)
          /\ "rax" \in ToSet(SysVArgs)
  BY DEF ToSet, SysVArgs
<1>6. \A i, j \in DOMAIN SysVSaves : SysVSaves[i] = SysVSaves[j] => i = j
  BY DEF SysVSaves, SysVArgs
<1> QED BY <1>1, <1>2, <1>4, <1>5, <1>6

LEMMA SystemVGoes ==
    ASSUME NEW t, NEW f, arch = "systemv", Busy(t, f), Step(t),
           StepCall(t) => HasBlock(t),
           Midway(f, ask_ctx[t], mmk_ctx_[t])
    PROVE  Advances(t, f)
<1> DEFINE P == PageAt(f.page)
           S == StubAt(f.stub)
           A == ToSet(SysVArgs)
           X(v) == {<<"r11", v>>}
           I == InitialStack
           L1 == Over(P, I)
           L2 == Saved(SysVSaves) \o L1
           L3 == Over(S, L2)
<1>b. /\ SysVSaves \in Seq(Regs) /\ "r11" \in Regs /\ A \subseteq Regs
      /\ \A i, j \in DOMAIN SysVSaves : SysVSaves[i] = SysVSaves[j] => i = j
      /\ \A i \in DOMAIN SysVSaves : SysVSaves[i] \in A
      /\ \A r \in A : \E i \in DOMAIN SysVSaves : SysVSaves[i] = r
      /\ "r11" \notin A /\ "rdi" \in A /\ "rax" \in A
      /\ Kept = A /\ abi[arch].first = "rdi" /\ abi[arch].result = "rax"
      /\ abi[arch].link = "stack"
  BY SystemVIs, SystemVRegs
<1>v. /\ P \in Value /\ S \in Value /\ Routine(f.stub) \in Value /\ Return \in Value
      /\ \A fn \in {"ctx_set", "ctx_asked", "ctx_get"} : Code(fn) \in Value
      /\ I \in Seq(Value) /\ L1 \in Seq(Value) /\ L2 \in Seq(Value)
  <2>1. /\ P \in Value /\ S \in Value /\ Routine(f.stub) \in Value /\ Return \in Value
        /\ \A fn \in {"ctx_set", "ctx_asked", "ctx_get"} : Code(fn) \in Value
        /\ I \in Seq(Value)
    BY BusyFacts, InitialIsValue DEF Fields
  <2>2. L1 \in Seq(Value) /\ Saved(SysVSaves) \in Seq(Value)
    BY <1>b, <2>1, StackIsSeq, SavedIs
  <2>3. L2 \in Seq(Value)
    <3> HIDE DEF L1
    <3> QED BY <2>2
  <2> QED BY <2>1, <2>2, <2>3
<1>w. /\ Word(P, "ctx") = S /\ Word(P, "routine") = Routine(f.stub)
      /\ \A fn \in {"ctx_set", "ctx_asked", "ctx_get"} : Word(S, fn) = Code(fn)
             /\ Code(fn) # NULL
      /\ S # NULL /\ Routine(f.stub) # NULL
  BY Words DEF Fields
<1>s. L1 = Over(P, I) /\ L2 = Saved(SysVSaves) \o L1 /\ L3 = Over(S, L2)
  OBVIOUS
<1>l. Len(abi[arch].code) = 22
  BY SystemVIs DEF systemv
(* The instructions, and the rows of the table. *)
<1>c. /\ abi[arch].code[1] = Here("r11")
      /\ abi[arch].code[2] = Push(<<"r11">>)
      /\ abi[arch].code[3] = Load("r11", "r11", "ctx")
      /\ abi[arch].code[4] = Push(SysVSaves)
      /\ abi[arch].code[5] = Mov("rdi", "r11")
      /\ abi[arch].code[6] = Push(<<"r11">>)
      /\ abi[arch].code[7] = Load("r11", "r11", "ctx_set")
      /\ abi[arch].code[8] = Call("r11")
      /\ abi[arch].code[9] = Pop(<<"r11">>)
      /\ abi[arch].code[10] = Load("r11", "r11", "ctx_asked")
      /\ abi[arch].code[11] = Call("r11")
      /\ abi[arch].code[12] = Mov("r11", "rax")
      /\ abi[arch].code[13] = Pop(Reverse(SysVSaves))
      /\ abi[arch].code[14] = Branch("r11", 18)
      /\ abi[arch].code[15] = Pop(<<"r11">>)
      /\ abi[arch].code[16] = Load("r11", "r11", "routine")
      /\ abi[arch].code[17] = Jump("r11")
      /\ abi[arch].code[18] = Pop(<<"r11">>)
      /\ abi[arch].code[19] = Load("r11", "r11", "ctx")
      /\ abi[arch].code[20] = Load("r11", "r11", "ctx_get")
      /\ abi[arch].code[21] = Call("r11")
      /\ abi[arch].code[22] = Ret
  BY SystemVIs DEF systemv
<1>r. /\ Row(f, 1, "start", A, {}, I)
      /\ Row(f, 2, "start", A, X(P), I)
      /\ Row(f, 3, "start", A, X(P), L1)
      /\ Row(f, 4, "start", A, X(S), L1)
      /\ Row(f, 5, "start", {}, X(S), L2)
      /\ Row(f, 6, "start", {}, {<<"r11", S>>, <<"rdi", S>>}, L2)
      /\ Row(f, 7, "start", {}, {<<"r11", S>>, <<"rdi", S>>}, L3)
      /\ Row(f, 8, "start", {}, {<<"r11", Code("ctx_set")>>, <<"rdi", S>>}, L3)
      /\ Row(f, 9, "set", {}, {}, L3)
      /\ Row(f, 10, "set", {}, X(S), L2)
      /\ Row(f, 11, "set", {}, X(Code("ctx_asked")), L2)
      /\ Row(f, 12, "asked", {}, {<<"rax", Answered(f)>>}, L2)
      /\ Row(f, 13, "asked", {}, X(Answered(f)), L2)
      /\ Row(f, 14, "asked", A, X(Answered(f)), L1)
      /\ Row(f, 15, "routine", A, {}, L1)
      /\ Row(f, 16, "routine", A, X(P), I)
      /\ Row(f, 17, "routine", A, X(Routine(f.stub)), I)
      /\ Row(f, 18, "answer", {}, {}, L1)
      /\ Row(f, 19, "answer", {}, X(P), I)
      /\ Row(f, 20, "answer", {}, X(S), I)
      /\ Row(f, 21, "answer", {}, X(Code("ctx_get")), I)
      /\ Row(f, 22, "answer", {}, {<<"rax", S>>}, I)
  <2>1. Table(f) = SystemV(f)
    BY DEF Table
  <2>2. SystemV(f)[1] = <<"start", A, {}, I>>
    BY DEF SystemV
  <2>3. SystemV(f)[2] = <<"start", A, X(P), I>>
    BY DEF SystemV
  <2>4. SystemV(f)[3] = <<"start", A, X(P), L1>>
    BY DEF SystemV
  <2>5. SystemV(f)[4] = <<"start", A, X(S), L1>>
    BY DEF SystemV
  <2>6. SystemV(f)[5] = <<"start", {}, X(S), L2>>
    BY DEF SystemV
  <2>7. SystemV(f)[6] = <<"start", {}, {<<"r11", S>>, <<"rdi", S>>}, L2>>
    BY DEF SystemV
  <2>8. SystemV(f)[7] = <<"start", {}, {<<"r11", S>>, <<"rdi", S>>}, L3>>
    BY DEF SystemV
  <2>9. SystemV(f)[8] = <<"start", {}, {<<"r11", Code("ctx_set")>>, <<"rdi", S>>}, L3>>
    BY DEF SystemV
  <2>10. SystemV(f)[9] = <<"set", {}, {}, L3>>
    BY DEF SystemV
  <2>11. SystemV(f)[10] = <<"set", {}, X(S), L2>>
    BY DEF SystemV
  <2>12. SystemV(f)[11] = <<"set", {}, X(Code("ctx_asked")), L2>>
    BY DEF SystemV
  <2>13. SystemV(f)[12] = <<"asked", {}, {<<"rax", Answered(f)>>}, L2>>
    BY DEF SystemV
  <2>14. SystemV(f)[13] = <<"asked", {}, X(Answered(f)), L2>>
    BY DEF SystemV
  <2>15. SystemV(f)[14] = <<"asked", A, X(Answered(f)), L1>>
    BY DEF SystemV
  <2>16. SystemV(f)[15] = <<"routine", A, {}, L1>>
    BY DEF SystemV
  <2>17. SystemV(f)[16] = <<"routine", A, X(P), I>>
    BY DEF SystemV
  <2>18. SystemV(f)[17] = <<"routine", A, X(Routine(f.stub)), I>>
    BY DEF SystemV
  <2>19. SystemV(f)[18] = <<"answer", {}, {}, L1>>
    BY DEF SystemV
  <2>20. SystemV(f)[19] = <<"answer", {}, X(P), I>>
    BY DEF SystemV
  <2>21. SystemV(f)[20] = <<"answer", {}, X(S), I>>
    BY DEF SystemV
  <2>22. SystemV(f)[21] = <<"answer", {}, X(Code("ctx_get")), I>>
    BY DEF SystemV
  <2>23. SystemV(f)[22] = <<"answer", {}, {<<"rax", S>>}, I>>
    BY DEF SystemV
  <2> QED BY <1>l, <2>1, <2>2, <2>3, <2>4, <2>5, <2>6, <2>7, <2>8, <2>9, <2>10, <2>11,
             <2>12, <2>13, <2>14, <2>15, <2>16, <2>17, <2>18, <2>19, <2>20, <2>21,
             <2>22, <2>23 DEF Row
<1> HIDE DEF L1, L2, L3
<1>1. CASE f.ip = 1
  <2>1. /\ abi[arch].code[f.ip] = Here("r11")
        /\ Row(f, f.ip, "start", A, {}, I)
        /\ Row(f, f.ip + 1, "start", A, X(P), I)
    BY <1>c, <1>r, <1>1
  <2>2. At(f, ask_ctx[t], mmk_ctx_[t], "start", A, {}, I)
    BY <2>1, RowHolds
  <2>3. Writes("r11", P, A, {}, A, X(P))
    BY <1>b DEF Writes
  <2>4. Reaches(t, f, f.ip + 1, "start", A, X(P), I)
    BY <1>b, <2>1, <2>2, <2>3, HereGoes
  <2> QED BY <2>1, <2>4, RowReached
<1>2. CASE f.ip = 2
  <2>1. /\ abi[arch].code[f.ip] = Push(<<"r11">>)
        /\ Row(f, f.ip, "start", A, X(P), I)
        /\ Row(f, f.ip + 1, "start", A, X(P), L1)
    BY <1>c, <1>r, <1>2
  <2>2. At(f, ask_ctx[t], mmk_ctx_[t], "start", A, X(P), I)
    BY <2>1, RowHolds
  <2>3. Knows(X(P), "r11", P) /\ L1 = Over(P, I)
    BY <1>s DEF Knows
  <2>4. Reaches(t, f, f.ip + 1, "start", A, X(P), L1)
    BY <1>b, <2>1, <2>2, <2>3, PushOneGoes
  <2> QED BY <2>1, <2>4, RowReached
<1>3. CASE f.ip = 3
  <2>1. /\ abi[arch].code[f.ip] = Load("r11", "r11", "ctx")
        /\ Row(f, f.ip, "start", A, X(P), L1)
        /\ Row(f, f.ip + 1, "start", A, X(S), L1)
    BY <1>c, <1>r, <1>3
  <2>2. At(f, ask_ctx[t], mmk_ctx_[t], "start", A, X(P), L1)
    BY <2>1, RowHolds
  <2>3. Knows(X(P), "r11", P) /\ Reads(P, "ctx", S)
    BY <1>v, <1>w DEF Knows, Reads
  <2>4. Writes("r11", S, A, X(P), A, X(S))
    BY <1>b DEF Writes
  <2>5. Reaches(t, f, f.ip + 1, "start", A, X(S), L1)
    BY <1>b, <2>1, <2>2, <2>3, <2>4, LoadGoes
  <2> QED BY <2>1, <2>5, RowReached
<1>4. CASE f.ip = 4
  <2>1. /\ abi[arch].code[f.ip] = Push(SysVSaves)
        /\ Row(f, f.ip, "start", A, X(S), L1)
        /\ Row(f, f.ip + 1, "start", {}, X(S), L2)
    BY <1>c, <1>r, <1>4
  <2>2. At(f, ask_ctx[t], mmk_ctx_[t], "start", A, X(S), L1)
    BY <2>1, RowHolds
  <2>3. Reaches(t, f, f.ip + 1, "start", {}, X(S), L2)
    BY <1>b, <2>1, <2>2, <1>s, PushSavedGoes
  <2> QED BY <2>1, <2>3, RowReached
<1>5. CASE f.ip = 5
  <2>1. /\ abi[arch].code[f.ip] = Mov("rdi", "r11")
        /\ Row(f, f.ip, "start", {}, X(S), L2)
        /\ Row(f, f.ip + 1, "start", {}, {<<"r11", S>>, <<"rdi", S>>}, L2)
    BY <1>c, <1>r, <1>5
  <2>2. At(f, ask_ctx[t], mmk_ctx_[t], "start", {}, X(S), L2)
    BY <2>1, RowHolds
  <2>3. Knows(X(S), "r11", S)
    BY DEF Knows
  <2>4. Writes("rdi", S, {}, X(S), {}, {<<"r11", S>>, <<"rdi", S>>})
    BY <1>b DEF Writes
  <2>5. Reaches(t, f, f.ip + 1, "start", {}, {<<"r11", S>>, <<"rdi", S>>}, L2)
    BY <1>b, <2>1, <2>2, <2>3, <2>4, MovGoes
  <2> QED BY <2>1, <2>5, RowReached
<1>6. CASE f.ip = 6
  <2>1. /\ abi[arch].code[f.ip] = Push(<<"r11">>)
        /\ Row(f, f.ip, "start", {}, {<<"r11", S>>, <<"rdi", S>>}, L2)
        /\ Row(f, f.ip + 1, "start", {}, {<<"r11", S>>, <<"rdi", S>>}, L3)
    BY <1>c, <1>r, <1>6
  <2>2. At(f, ask_ctx[t], mmk_ctx_[t], "start", {}, {<<"r11", S>>, <<"rdi", S>>}, L2)
    BY <2>1, RowHolds
  <2>3. Knows({<<"r11", S>>, <<"rdi", S>>}, "r11", S) /\ L3 = Over(S, L2)
    BY <1>s DEF Knows
  <2>4. Reaches(t, f, f.ip + 1, "start", {}, {<<"r11", S>>, <<"rdi", S>>}, L3)
    BY <1>b, <2>1, <2>2, <2>3, PushOneGoes
  <2> QED BY <2>1, <2>4, RowReached
<1>7. CASE f.ip = 7
  <2>1. /\ abi[arch].code[f.ip] = Load("r11", "r11", "ctx_set")
        /\ Row(f, f.ip, "start", {}, {<<"r11", S>>, <<"rdi", S>>}, L3)
        /\ Row(f, f.ip + 1, "start", {}, {<<"r11", Code("ctx_set")>>, <<"rdi", S>>}, L3)
    BY <1>c, <1>r, <1>7
  <2>2. At(f, ask_ctx[t], mmk_ctx_[t], "start", {}, {<<"r11", S>>, <<"rdi", S>>}, L3)
    BY <2>1, RowHolds
  <2>3. Knows({<<"r11", S>>, <<"rdi", S>>}, "r11", S)
            /\ Reads(S, "ctx_set", Code("ctx_set"))
    BY <1>v, <1>w DEF Knows, Reads
  <2>4. Writes("r11", Code("ctx_set"), {}, {<<"r11", S>>, <<"rdi", S>>}, {},
               {<<"r11", Code("ctx_set")>>, <<"rdi", S>>})
    BY <1>b DEF Writes
  <2>5. Reaches(t, f, f.ip + 1, "start", {},
                {<<"r11", Code("ctx_set")>>, <<"rdi", S>>}, L3)
    BY <1>b, <2>1, <2>2, <2>3, <2>4, LoadGoes
  <2> QED BY <2>1, <2>5, RowReached
<1>8. CASE f.ip = 8
  <2>1. /\ abi[arch].code[f.ip] = Call("r11")
        /\ Row(f, f.ip, "start", {}, {<<"r11", Code("ctx_set")>>, <<"rdi", S>>}, L3)
        /\ Row(f, f.ip + 1, "set", {}, {}, L3)
    BY <1>c, <1>r, <1>8
  <2>2. At(f, ask_ctx[t], mmk_ctx_[t], "start", {},
           {<<"r11", Code("ctx_set")>>, <<"rdi", S>>}, L3)
    BY <2>1, RowHolds
  <2>3. Argument(f) = S
            /\ Knows({<<"r11", Code("ctx_set")>>, <<"rdi", S>>}, "r11", Code("ctx_set"))
    BY <2>2, <1>b DEF Argument, At, Fits, Knows
  <2>4. Reaches(t, f, f.ip + 1, "set", {}, {}, L3)
    BY <1>b, <2>1, <2>2, <2>3, CallSetGoes
  <2> QED BY <2>1, <2>4, RowReached
<1>9. CASE f.ip = 9
  <2>1. /\ abi[arch].code[f.ip] = Pop(<<"r11">>)
        /\ Row(f, f.ip, "set", {}, {}, L3)
        /\ Row(f, f.ip + 1, "set", {}, X(S), L2)
    BY <1>c, <1>r, <1>9
  <2>2. At(f, ask_ctx[t], mmk_ctx_[t], "set", {}, {}, L3)
    BY <2>1, RowHolds
  <2>3. Writes("r11", S, {}, {}, {}, X(S))
    BY <1>b DEF Writes
  <2>4. Reaches(t, f, f.ip + 1, "set", {}, X(S), L2)
    BY <1>b, <2>1, <2>2, <1>s, <1>v, <2>3, PopOneGoes
  <2> QED BY <2>1, <2>4, RowReached
<1>10. CASE f.ip = 10
  <2>1. /\ abi[arch].code[f.ip] = Load("r11", "r11", "ctx_asked")
        /\ Row(f, f.ip, "set", {}, X(S), L2)
        /\ Row(f, f.ip + 1, "set", {}, X(Code("ctx_asked")), L2)
    BY <1>c, <1>r, <1>10
  <2>2. At(f, ask_ctx[t], mmk_ctx_[t], "set", {}, X(S), L2)
    BY <2>1, RowHolds
  <2>3. Knows(X(S), "r11", S) /\ Reads(S, "ctx_asked", Code("ctx_asked"))
    BY <1>v, <1>w DEF Knows, Reads
  <2>4. Writes("r11", Code("ctx_asked"), {}, X(S), {}, X(Code("ctx_asked")))
    BY <1>b DEF Writes
  <2>5. Reaches(t, f, f.ip + 1, "set", {}, X(Code("ctx_asked")), L2)
    BY <1>b, <2>1, <2>2, <2>3, <2>4, LoadGoes
  <2> QED BY <2>1, <2>5, RowReached
<1>11. CASE f.ip = 11
  <2>1. /\ abi[arch].code[f.ip] = Call("r11")
        /\ Row(f, f.ip, "set", {}, X(Code("ctx_asked")), L2)
        /\ Row(f, f.ip + 1, "asked", {}, {<<"rax", Answered(f)>>}, L2)
    BY <1>c, <1>r, <1>11
  <2>2. At(f, ask_ctx[t], mmk_ctx_[t], "set", {}, X(Code("ctx_asked")), L2)
    BY <2>1, RowHolds
  <2>3. Knows(X(Code("ctx_asked")), "r11", Code("ctx_asked"))
    BY DEF Knows
  <2>4. Reaches(t, f, f.ip + 1, "asked", {}, {<<"rax", Answered(f)>>}, L2)
    BY <1>b, <2>1, <2>2, <2>3, CallAskedGoes
  <2> QED BY <2>1, <2>4, RowReached
<1>12. CASE f.ip = 12
  <2>1. /\ abi[arch].code[f.ip] = Mov("r11", "rax")
        /\ Row(f, f.ip, "asked", {}, {<<"rax", Answered(f)>>}, L2)
        /\ Row(f, f.ip + 1, "asked", {}, X(Answered(f)), L2)
    BY <1>c, <1>r, <1>12
  <2>2. At(f, ask_ctx[t], mmk_ctx_[t], "asked", {}, {<<"rax", Answered(f)>>}, L2)
    BY <2>1, RowHolds
  <2>3. Knows({<<"rax", Answered(f)>>}, "rax", Answered(f))
    BY DEF Knows
  <2>4. Writes("r11", Answered(f), {}, {<<"rax", Answered(f)>>}, {}, X(Answered(f)))
    BY <1>b DEF Writes
  <2>5. Reaches(t, f, f.ip + 1, "asked", {}, X(Answered(f)), L2)
    BY <1>b, <2>1, <2>2, <2>3, <2>4, MovGoes
  <2> QED BY <2>1, <2>5, RowReached
<1>13. CASE f.ip = 13
  <2>1. /\ abi[arch].code[f.ip] = Pop(Reverse(SysVSaves))
        /\ Row(f, f.ip, "asked", {}, X(Answered(f)), L2)
        /\ Row(f, f.ip + 1, "asked", A, X(Answered(f)), L1)
    BY <1>c, <1>r, <1>13
  <2>2. At(f, ask_ctx[t], mmk_ctx_[t], "asked", {}, X(Answered(f)), L2)
    BY <2>1, RowHolds
  <2>3. Returns(SysVSaves, {}, X(Answered(f)), A, X(Answered(f)))
            /\ L2 = Saved(SysVSaves) \o L1
    BY <1>b, <1>s DEF Returns
  <2>4. Reaches(t, f, f.ip + 1, "asked", A, X(Answered(f)), L1)
    BY <1>b, <2>1, <2>2, <1>v, <2>3, PopSavedGoes
  <2> QED BY <2>1, <2>4, RowReached
<1>14. CASE f.ip = 14
  <2>1. /\ abi[arch].code[f.ip] = Branch("r11", 18)
        /\ Row(f, f.ip, "asked", A, X(Answered(f)), L1)
        /\ Row(f, f.ip + 1, "routine", A, {}, L1)
        /\ Row(f, 18, "answer", {}, {}, L1)
    BY <1>c, <1>r, <1>14
  <2>2. At(f, ask_ctx[t], mmk_ctx_[t], "asked", A, X(Answered(f)), L1)
    BY <2>1, RowHolds
  <2>3. Knows(X(Answered(f)), "r11", Answered(f))
    BY DEF Knows
  <2>4. \/ Reaches(t, f, f.ip + 1, "routine", A, {}, L1)
        \/ Reaches(t, f, 18, "answer", {}, {}, L1)
    BY <1>b, <2>1, <2>2, <2>3, BranchGoes
  <2> QED BY <2>1, <2>4, RowReached
<1>15. CASE f.ip = 15
  <2>1. /\ abi[arch].code[f.ip] = Pop(<<"r11">>)
        /\ Row(f, f.ip, "routine", A, {}, L1)
        /\ Row(f, f.ip + 1, "routine", A, X(P), I)
    BY <1>c, <1>r, <1>15
  <2>2. At(f, ask_ctx[t], mmk_ctx_[t], "routine", A, {}, L1)
    BY <2>1, RowHolds
  <2>3. Writes("r11", P, A, {}, A, X(P))
    BY <1>b DEF Writes
  <2>4. Reaches(t, f, f.ip + 1, "routine", A, X(P), I)
    BY <1>b, <2>1, <2>2, <1>s, <1>v, <2>3, PopOneGoes
  <2> QED BY <2>1, <2>4, RowReached
<1>16. CASE f.ip = 16
  <2>1. /\ abi[arch].code[f.ip] = Load("r11", "r11", "routine")
        /\ Row(f, f.ip, "routine", A, X(P), I)
        /\ Row(f, f.ip + 1, "routine", A, X(Routine(f.stub)), I)
    BY <1>c, <1>r, <1>16
  <2>2. At(f, ask_ctx[t], mmk_ctx_[t], "routine", A, X(P), I)
    BY <2>1, RowHolds
  <2>3. Knows(X(P), "r11", P) /\ Reads(P, "routine", Routine(f.stub))
    BY <1>v, <1>w DEF Knows, Reads
  <2>4. Writes("r11", Routine(f.stub), A, X(P), A, X(Routine(f.stub)))
    BY <1>b DEF Writes
  <2>5. Reaches(t, f, f.ip + 1, "routine", A, X(Routine(f.stub)), I)
    BY <1>b, <2>1, <2>2, <2>3, <2>4, LoadGoes
  <2> QED BY <2>1, <2>5, RowReached
<1>17. CASE f.ip = 17
  <2>1. /\ abi[arch].code[f.ip] = Jump("r11")
        /\ Row(f, f.ip, "routine", A, X(Routine(f.stub)), I)
    BY <1>c, <1>r, <1>17
  <2>2. At(f, ask_ctx[t], mmk_ctx_[t], "routine", A, X(Routine(f.stub)), I)
    BY <2>1, RowHolds
  <2>3. Knows(X(Routine(f.stub)), "r11", Routine(f.stub))
    BY DEF Knows
  <2>4. Enters(t, f)
    BY <1>b, <2>1, <2>2, <2>3, JumpGoes
  <2> QED BY <2>4 DEF Advances
<1>18. CASE f.ip = 18
  <2>1. /\ abi[arch].code[f.ip] = Pop(<<"r11">>)
        /\ Row(f, f.ip, "answer", {}, {}, L1)
        /\ Row(f, f.ip + 1, "answer", {}, X(P), I)
    BY <1>c, <1>r, <1>18
  <2>2. At(f, ask_ctx[t], mmk_ctx_[t], "answer", {}, {}, L1)
    BY <2>1, RowHolds
  <2>3. Writes("r11", P, {}, {}, {}, X(P))
    BY <1>b DEF Writes
  <2>4. Reaches(t, f, f.ip + 1, "answer", {}, X(P), I)
    BY <1>b, <2>1, <2>2, <1>s, <1>v, <2>3, PopOneGoes
  <2> QED BY <2>1, <2>4, RowReached
<1>19. CASE f.ip = 19
  <2>1. /\ abi[arch].code[f.ip] = Load("r11", "r11", "ctx")
        /\ Row(f, f.ip, "answer", {}, X(P), I)
        /\ Row(f, f.ip + 1, "answer", {}, X(S), I)
    BY <1>c, <1>r, <1>19
  <2>2. At(f, ask_ctx[t], mmk_ctx_[t], "answer", {}, X(P), I)
    BY <2>1, RowHolds
  <2>3. Knows(X(P), "r11", P) /\ Reads(P, "ctx", S)
    BY <1>v, <1>w DEF Knows, Reads
  <2>4. Writes("r11", S, {}, X(P), {}, X(S))
    BY <1>b DEF Writes
  <2>5. Reaches(t, f, f.ip + 1, "answer", {}, X(S), I)
    BY <1>b, <2>1, <2>2, <2>3, <2>4, LoadGoes
  <2> QED BY <2>1, <2>5, RowReached
<1>20. CASE f.ip = 20
  <2>1. /\ abi[arch].code[f.ip] = Load("r11", "r11", "ctx_get")
        /\ Row(f, f.ip, "answer", {}, X(S), I)
        /\ Row(f, f.ip + 1, "answer", {}, X(Code("ctx_get")), I)
    BY <1>c, <1>r, <1>20
  <2>2. At(f, ask_ctx[t], mmk_ctx_[t], "answer", {}, X(S), I)
    BY <2>1, RowHolds
  <2>3. Knows(X(S), "r11", S) /\ Reads(S, "ctx_get", Code("ctx_get"))
    BY <1>v, <1>w DEF Knows, Reads
  <2>4. Writes("r11", Code("ctx_get"), {}, X(S), {}, X(Code("ctx_get")))
    BY <1>b DEF Writes
  <2>5. Reaches(t, f, f.ip + 1, "answer", {}, X(Code("ctx_get")), I)
    BY <1>b, <2>1, <2>2, <2>3, <2>4, LoadGoes
  <2> QED BY <2>1, <2>5, RowReached
<1>21. CASE f.ip = 21
  <2>1. /\ abi[arch].code[f.ip] = Call("r11")
        /\ Row(f, f.ip, "answer", {}, X(Code("ctx_get")), I)
        /\ Row(f, f.ip + 1, "answer", {}, {<<"rax", S>>}, I)
    BY <1>c, <1>r, <1>21
  <2>2. At(f, ask_ctx[t], mmk_ctx_[t], "answer", {}, X(Code("ctx_get")), I)
    BY <2>1, RowHolds
  <2>3. Knows(X(Code("ctx_get")), "r11", Code("ctx_get"))
    BY DEF Knows
  <2>4. Reaches(t, f, f.ip + 1, "answer", {}, {<<"rax", S>>}, I)
    BY <1>b, <2>1, <2>2, <2>3, CallGetGoes
  <2> QED BY <2>1, <2>4, RowReached
<1>22. CASE f.ip = 22
  <2>1. /\ abi[arch].code[f.ip] = Ret
        /\ Row(f, f.ip, "answer", {}, {<<"rax", S>>}, I)
    BY <1>c, <1>r, <1>22
  <2>2. At(f, ask_ctx[t], mmk_ctx_[t], "answer", {}, {<<"rax", S>>}, I)
    BY <2>1, RowHolds
  <2>3. Knows({<<"rax", S>>}, abi[arch].result, S)
    BY <1>b DEF Knows
  <2>4. Leaves(t)
    BY <1>b, <2>1, <2>2, <1>s, <2>3, RetGoes
  <2> QED BY <2>4 DEF Advances
<1> QED
  <2>1. f.ip \in 1..22
    BY <1>l DEF Midway
  <2> QED BY <2>1, <1>1, <1>2, <1>3, <1>4, <1>5, <1>6, <1>7, <1>8, <1>9, <1>10, <1>11,
             <1>12, <1>13, <1>14, <1>15, <1>16, <1>17, <1>18, <1>19, <1>20, <1>21, <1>22

LEMMA I386Is ==
    ASSUME arch = "i386"
    PROVE  /\ abi[arch].code = i386 /\ Kept = {}
           /\ abi[arch].first = "stack" /\ abi[arch].result = "eax"
           /\ abi[arch].link = "stack"
           /\ Regs = {"eax"}
BY DEF abi, ABI, Regs, Kept

LEMMA I386Goes ==
    ASSUME NEW t, NEW f, arch = "i386", Busy(t, f), Step(t), StepCall(t) => HasBlock(t),
           Midway(f, ask_ctx[t], mmk_ctx_[t])
    PROVE  Advances(t, f)
<1> DEFINE P == PageAt(f.page)
           S == StubAt(f.stub)
           X(v) == {<<"eax", v>>}
           I == InitialStack
           L1 == Over(P, I)
           L2 == Over(S, L1)
<1>b. /\ "eax" \in Regs /\ Kept = {} /\ abi[arch].first = "stack"
      /\ abi[arch].result = "eax" /\ abi[arch].link = "stack"
  BY I386Is
<1>v. /\ P \in Value /\ S \in Value /\ Routine(f.stub) \in Value /\ Return \in Value
      /\ \A fn \in {"ctx_set", "ctx_asked", "ctx_get"} : Code(fn) \in Value
      /\ I \in Seq(Value) /\ L1 \in Seq(Value)
  <2>1. /\ P \in Value /\ S \in Value /\ Routine(f.stub) \in Value /\ Return \in Value
        /\ \A fn \in {"ctx_set", "ctx_asked", "ctx_get"} : Code(fn) \in Value
        /\ I \in Seq(Value)
    BY BusyFacts, InitialIsValue DEF Fields
  <2>2. L1 \in Seq(Value)
    BY <2>1, StackIsSeq
  <2> QED BY <2>1, <2>2
<1>w. /\ Word(P, "ctx") = S /\ Word(P, "routine") = Routine(f.stub)
      /\ \A fn \in {"ctx_set", "ctx_asked", "ctx_get"} : Word(S, fn) = Code(fn)
             /\ Code(fn) # NULL
      /\ S # NULL /\ Routine(f.stub) # NULL
  BY Words DEF Fields
<1>s. L1 = Over(P, I) /\ L2 = Over(S, L1)
  OBVIOUS
<1>l. Len(abi[arch].code) = 18
  BY I386Is DEF i386
(* The instructions, and the rows of the table. *)
<1>c. /\ abi[arch].code[1] = Here("eax")
      /\ abi[arch].code[2] = Push(<<"eax">>)
      /\ abi[arch].code[3] = Load("eax", "eax", "ctx")
      /\ abi[arch].code[4] = Push(<<"eax">>)
      /\ abi[arch].code[5] = Load("eax", "eax", "ctx_set")
      /\ abi[arch].code[6] = Call("eax")
      /\ abi[arch].code[7] = Pop(<<"eax">>)
      /\ abi[arch].code[8] = Load("eax", "eax", "ctx_asked")
      /\ abi[arch].code[9] = Call("eax")
      /\ abi[arch].code[10] = Branch("eax", 14)
      /\ abi[arch].code[11] = Pop(<<"eax">>)
      /\ abi[arch].code[12] = Load("eax", "eax", "routine")
      /\ abi[arch].code[13] = Jump("eax")
      /\ abi[arch].code[14] = Pop(<<"eax">>)
      /\ abi[arch].code[15] = Load("eax", "eax", "ctx")
      /\ abi[arch].code[16] = Load("eax", "eax", "ctx_get")
      /\ abi[arch].code[17] = Call("eax")
      /\ abi[arch].code[18] = Ret
  BY I386Is DEF i386
<1>r. /\ Row(f, 1, "start", {}, {}, I)
      /\ Row(f, 2, "start", {}, X(P), I)
      /\ Row(f, 3, "start", {}, X(P), L1)
      /\ Row(f, 4, "start", {}, X(S), L1)
      /\ Row(f, 5, "start", {}, X(S), L2)
      /\ Row(f, 6, "start", {}, X(Code("ctx_set")), L2)
      /\ Row(f, 7, "set", {}, {}, L2)
      /\ Row(f, 8, "set", {}, X(S), L1)
      /\ Row(f, 9, "set", {}, X(Code("ctx_asked")), L1)
      /\ Row(f, 10, "asked", {}, X(Answered(f)), L1)
      /\ Row(f, 11, "routine", {}, {}, L1)
      /\ Row(f, 12, "routine", {}, X(P), I)
      /\ Row(f, 13, "routine", {}, X(Routine(f.stub)), I)
      /\ Row(f, 14, "answer", {}, {}, L1)
      /\ Row(f, 15, "answer", {}, X(P), I)
      /\ Row(f, 16, "answer", {}, X(S), I)
      /\ Row(f, 17, "answer", {}, X(Code("ctx_get")), I)
      /\ Row(f, 18, "answer", {}, X(S), I)
  <2>1. Table(f) = I386(f)
    BY DEF Table
  <2>2. I386(f)[1] = <<"start", {}, {}, I>>
    BY DEF I386
  <2>3. I386(f)[2] = <<"start", {}, X(P), I>>
    BY DEF I386
  <2>4. I386(f)[3] = <<"start", {}, X(P), L1>>
    BY DEF I386
  <2>5. I386(f)[4] = <<"start", {}, X(S), L1>>
    BY DEF I386
  <2>6. I386(f)[5] = <<"start", {}, X(S), L2>>
    BY DEF I386
  <2>7. I386(f)[6] = <<"start", {}, X(Code("ctx_set")), L2>>
    BY DEF I386
  <2>8. I386(f)[7] = <<"set", {}, {}, L2>>
    BY DEF I386
  <2>9. I386(f)[8] = <<"set", {}, X(S), L1>>
    BY DEF I386
  <2>10. I386(f)[9] = <<"set", {}, X(Code("ctx_asked")), L1>>
    BY DEF I386
  <2>11. I386(f)[10] = <<"asked", {}, X(Answered(f)), L1>>
    BY DEF I386
  <2>12. I386(f)[11] = <<"routine", {}, {}, L1>>
    BY DEF I386
  <2>13. I386(f)[12] = <<"routine", {}, X(P), I>>
    BY DEF I386
  <2>14. I386(f)[13] = <<"routine", {}, X(Routine(f.stub)), I>>
    BY DEF I386
  <2>15. I386(f)[14] = <<"answer", {}, {}, L1>>
    BY DEF I386
  <2>16. I386(f)[15] = <<"answer", {}, X(P), I>>
    BY DEF I386
  <2>17. I386(f)[16] = <<"answer", {}, X(S), I>>
    BY DEF I386
  <2>18. I386(f)[17] = <<"answer", {}, X(Code("ctx_get")), I>>
    BY DEF I386
  <2>19. I386(f)[18] = <<"answer", {}, X(S), I>>
    BY DEF I386
  <2> QED BY <1>l, <2>1, <2>2, <2>3, <2>4, <2>5, <2>6, <2>7, <2>8, <2>9, <2>10, <2>11,
             <2>12, <2>13, <2>14, <2>15, <2>16, <2>17, <2>18, <2>19 DEF Row
<1> HIDE DEF L1, L2
<1>1. CASE f.ip = 1
  <2>1. /\ abi[arch].code[f.ip] = Here("eax")
        /\ Row(f, f.ip, "start", {}, {}, I)
        /\ Row(f, f.ip + 1, "start", {}, X(P), I)
    BY <1>c, <1>r, <1>1
  <2>2. At(f, ask_ctx[t], mmk_ctx_[t], "start", {}, {}, I)
    BY <2>1, RowHolds
  <2>3. Writes("eax", P, {}, {}, {}, X(P))
    BY <1>b DEF Writes
  <2>4. Reaches(t, f, f.ip + 1, "start", {}, X(P), I)
    BY <1>b, <2>1, <2>2, <2>3, HereGoes
  <2> QED BY <2>1, <2>4, RowReached
<1>2. CASE f.ip = 2
  <2>1. /\ abi[arch].code[f.ip] = Push(<<"eax">>)
        /\ Row(f, f.ip, "start", {}, X(P), I)
        /\ Row(f, f.ip + 1, "start", {}, X(P), L1)
    BY <1>c, <1>r, <1>2
  <2>2. At(f, ask_ctx[t], mmk_ctx_[t], "start", {}, X(P), I)
    BY <2>1, RowHolds
  <2>3. Knows(X(P), "eax", P) /\ L1 = Over(P, I)
    BY <1>s DEF Knows
  <2>4. Reaches(t, f, f.ip + 1, "start", {}, X(P), L1)
    BY <1>b, <2>1, <2>2, <2>3, PushOneGoes
  <2> QED BY <2>1, <2>4, RowReached
<1>3. CASE f.ip = 3
  <2>1. /\ abi[arch].code[f.ip] = Load("eax", "eax", "ctx")
        /\ Row(f, f.ip, "start", {}, X(P), L1)
        /\ Row(f, f.ip + 1, "start", {}, X(S), L1)
    BY <1>c, <1>r, <1>3
  <2>2. At(f, ask_ctx[t], mmk_ctx_[t], "start", {}, X(P), L1)
    BY <2>1, RowHolds
  <2>3. Knows(X(P), "eax", P) /\ Reads(P, "ctx", S)
    BY <1>v, <1>w DEF Knows, Reads
  <2>4. Writes("eax", S, {}, X(P), {}, X(S))
    BY <1>b DEF Writes
  <2>5. Reaches(t, f, f.ip + 1, "start", {}, X(S), L1)
    BY <1>b, <2>1, <2>2, <2>3, <2>4, LoadGoes
  <2> QED BY <2>1, <2>5, RowReached
<1>4. CASE f.ip = 4
  <2>1. /\ abi[arch].code[f.ip] = Push(<<"eax">>)
        /\ Row(f, f.ip, "start", {}, X(S), L1)
        /\ Row(f, f.ip + 1, "start", {}, X(S), L2)
    BY <1>c, <1>r, <1>4
  <2>2. At(f, ask_ctx[t], mmk_ctx_[t], "start", {}, X(S), L1)
    BY <2>1, RowHolds
  <2>3. Knows(X(S), "eax", S) /\ L2 = Over(S, L1)
    BY <1>s DEF Knows
  <2>4. Reaches(t, f, f.ip + 1, "start", {}, X(S), L2)
    BY <1>b, <2>1, <2>2, <2>3, PushOneGoes
  <2> QED BY <2>1, <2>4, RowReached
<1>5. CASE f.ip = 5
  <2>1. /\ abi[arch].code[f.ip] = Load("eax", "eax", "ctx_set")
        /\ Row(f, f.ip, "start", {}, X(S), L2)
        /\ Row(f, f.ip + 1, "start", {}, X(Code("ctx_set")), L2)
    BY <1>c, <1>r, <1>5
  <2>2. At(f, ask_ctx[t], mmk_ctx_[t], "start", {}, X(S), L2)
    BY <2>1, RowHolds
  <2>3. Knows(X(S), "eax", S) /\ Reads(S, "ctx_set", Code("ctx_set"))
    BY <1>v, <1>w DEF Knows, Reads
  <2>4. Writes("eax", Code("ctx_set"), {}, X(S), {}, X(Code("ctx_set")))
    BY <1>b DEF Writes
  <2>5. Reaches(t, f, f.ip + 1, "start", {}, X(Code("ctx_set")), L2)
    BY <1>b, <2>1, <2>2, <2>3, <2>4, LoadGoes
  <2> QED BY <2>1, <2>5, RowReached
<1>6. CASE f.ip = 6
  <2>1. /\ abi[arch].code[f.ip] = Call("eax")
        /\ Row(f, f.ip, "start", {}, X(Code("ctx_set")), L2)
        /\ Row(f, f.ip + 1, "set", {}, {}, L2)
    BY <1>c, <1>r, <1>6
  <2>2. At(f, ask_ctx[t], mmk_ctx_[t], "start", {}, X(Code("ctx_set")), L2)
    BY <2>1, RowHolds
  <2>3. Argument(f) = S /\ Knows(X(Code("ctx_set")), "eax", Code("ctx_set"))
    BY <2>2, <1>b, <1>s, <1>v DEF Argument, At, Fits, Over, Knows
  <2>4. Reaches(t, f, f.ip + 1, "set", {}, {}, L2)
    BY <1>b, <2>1, <2>2, <2>3, CallSetGoes
  <2> QED BY <2>1, <2>4, RowReached
<1>7. CASE f.ip = 7
  <2>1. /\ abi[arch].code[f.ip] = Pop(<<"eax">>)
        /\ Row(f, f.ip, "set", {}, {}, L2)
        /\ Row(f, f.ip + 1, "set", {}, X(S), L1)
    BY <1>c, <1>r, <1>7
  <2>2. At(f, ask_ctx[t], mmk_ctx_[t], "set", {}, {}, L2)
    BY <2>1, RowHolds
  <2>3. Writes("eax", S, {}, {}, {}, X(S))
    BY <1>b DEF Writes
  <2>4. Reaches(t, f, f.ip + 1, "set", {}, X(S), L1)
    BY <1>b, <2>1, <2>2, <1>s, <1>v, <2>3, PopOneGoes
  <2> QED BY <2>1, <2>4, RowReached
<1>8. CASE f.ip = 8
  <2>1. /\ abi[arch].code[f.ip] = Load("eax", "eax", "ctx_asked")
        /\ Row(f, f.ip, "set", {}, X(S), L1)
        /\ Row(f, f.ip + 1, "set", {}, X(Code("ctx_asked")), L1)
    BY <1>c, <1>r, <1>8
  <2>2. At(f, ask_ctx[t], mmk_ctx_[t], "set", {}, X(S), L1)
    BY <2>1, RowHolds
  <2>3. Knows(X(S), "eax", S) /\ Reads(S, "ctx_asked", Code("ctx_asked"))
    BY <1>v, <1>w DEF Knows, Reads
  <2>4. Writes("eax", Code("ctx_asked"), {}, X(S), {}, X(Code("ctx_asked")))
    BY <1>b DEF Writes
  <2>5. Reaches(t, f, f.ip + 1, "set", {}, X(Code("ctx_asked")), L1)
    BY <1>b, <2>1, <2>2, <2>3, <2>4, LoadGoes
  <2> QED BY <2>1, <2>5, RowReached
<1>9. CASE f.ip = 9
  <2>1. /\ abi[arch].code[f.ip] = Call("eax")
        /\ Row(f, f.ip, "set", {}, X(Code("ctx_asked")), L1)
        /\ Row(f, f.ip + 1, "asked", {}, X(Answered(f)), L1)
    BY <1>c, <1>r, <1>9
  <2>2. At(f, ask_ctx[t], mmk_ctx_[t], "set", {}, X(Code("ctx_asked")), L1)
    BY <2>1, RowHolds
  <2>3. Knows(X(Code("ctx_asked")), "eax", Code("ctx_asked"))
    BY DEF Knows
  <2>4. Reaches(t, f, f.ip + 1, "asked", {}, X(Answered(f)), L1)
    BY <1>b, <2>1, <2>2, <2>3, CallAskedGoes
  <2> QED BY <2>1, <2>4, RowReached
<1>10. CASE f.ip = 10
  <2>1. /\ abi[arch].code[f.ip] = Branch("eax", 14)
        /\ Row(f, f.ip, "asked", {}, X(Answered(f)), L1)
        /\ Row(f, f.ip + 1, "routine", {}, {}, L1)
        /\ Row(f, 14, "answer", {}, {}, L1)
    BY <1>c, <1>r, <1>10
  <2>2. At(f, ask_ctx[t], mmk_ctx_[t], "asked", {}, X(Answered(f)), L1)
    BY <2>1, RowHolds
  <2>3. Knows(X(Answered(f)), "eax", Answered(f))
    BY DEF Knows
  <2>4. \/ Reaches(t, f, f.ip + 1, "routine", {}, {}, L1)
        \/ Reaches(t, f, 14, "answer", {}, {}, L1)
    BY <1>b, <2>1, <2>2, <2>3, BranchGoes
  <2> QED BY <2>1, <2>4, RowReached
<1>11. CASE f.ip = 11
  <2>1. /\ abi[arch].code[f.ip] = Pop(<<"eax">>)
        /\ Row(f, f.ip, "routine", {}, {}, L1)
        /\ Row(f, f.ip + 1, "routine", {}, X(P), I)
    BY <1>c, <1>r, <1>11
  <2>2. At(f, ask_ctx[t], mmk_ctx_[t], "routine", {}, {}, L1)
    BY <2>1, RowHolds
  <2>3. Writes("eax", P, {}, {}, {}, X(P))
    BY <1>b DEF Writes
  <2>4. Reaches(t, f, f.ip + 1, "routine", {}, X(P), I)
    BY <1>b, <2>1, <2>2, <1>s, <1>v, <2>3, PopOneGoes
  <2> QED BY <2>1, <2>4, RowReached
<1>12. CASE f.ip = 12
  <2>1. /\ abi[arch].code[f.ip] = Load("eax", "eax", "routine")
        /\ Row(f, f.ip, "routine", {}, X(P), I)
        /\ Row(f, f.ip + 1, "routine", {}, X(Routine(f.stub)), I)
    BY <1>c, <1>r, <1>12
  <2>2. At(f, ask_ctx[t], mmk_ctx_[t], "routine", {}, X(P), I)
    BY <2>1, RowHolds
  <2>3. Knows(X(P), "eax", P) /\ Reads(P, "routine", Routine(f.stub))
    BY <1>v, <1>w DEF Knows, Reads
  <2>4. Writes("eax", Routine(f.stub), {}, X(P), {}, X(Routine(f.stub)))
    BY <1>b DEF Writes
  <2>5. Reaches(t, f, f.ip + 1, "routine", {}, X(Routine(f.stub)), I)
    BY <1>b, <2>1, <2>2, <2>3, <2>4, LoadGoes
  <2> QED BY <2>1, <2>5, RowReached
<1>13. CASE f.ip = 13
  <2>1. /\ abi[arch].code[f.ip] = Jump("eax")
        /\ Row(f, f.ip, "routine", {}, X(Routine(f.stub)), I)
    BY <1>c, <1>r, <1>13
  <2>2. At(f, ask_ctx[t], mmk_ctx_[t], "routine", {}, X(Routine(f.stub)), I)
    BY <2>1, RowHolds
  <2>3. Knows(X(Routine(f.stub)), "eax", Routine(f.stub))
    BY DEF Knows
  <2>4. Enters(t, f)
    BY <1>b, <2>1, <2>2, <2>3, JumpGoes
  <2> QED BY <2>4 DEF Advances
<1>14. CASE f.ip = 14
  <2>1. /\ abi[arch].code[f.ip] = Pop(<<"eax">>)
        /\ Row(f, f.ip, "answer", {}, {}, L1)
        /\ Row(f, f.ip + 1, "answer", {}, X(P), I)
    BY <1>c, <1>r, <1>14
  <2>2. At(f, ask_ctx[t], mmk_ctx_[t], "answer", {}, {}, L1)
    BY <2>1, RowHolds
  <2>3. Writes("eax", P, {}, {}, {}, X(P))
    BY <1>b DEF Writes
  <2>4. Reaches(t, f, f.ip + 1, "answer", {}, X(P), I)
    BY <1>b, <2>1, <2>2, <1>s, <1>v, <2>3, PopOneGoes
  <2> QED BY <2>1, <2>4, RowReached
<1>15. CASE f.ip = 15
  <2>1. /\ abi[arch].code[f.ip] = Load("eax", "eax", "ctx")
        /\ Row(f, f.ip, "answer", {}, X(P), I)
        /\ Row(f, f.ip + 1, "answer", {}, X(S), I)
    BY <1>c, <1>r, <1>15
  <2>2. At(f, ask_ctx[t], mmk_ctx_[t], "answer", {}, X(P), I)
    BY <2>1, RowHolds
  <2>3. Knows(X(P), "eax", P) /\ Reads(P, "ctx", S)
    BY <1>v, <1>w DEF Knows, Reads
  <2>4. Writes("eax", S, {}, X(P), {}, X(S))
    BY <1>b DEF Writes
  <2>5. Reaches(t, f, f.ip + 1, "answer", {}, X(S), I)
    BY <1>b, <2>1, <2>2, <2>3, <2>4, LoadGoes
  <2> QED BY <2>1, <2>5, RowReached
<1>16. CASE f.ip = 16
  <2>1. /\ abi[arch].code[f.ip] = Load("eax", "eax", "ctx_get")
        /\ Row(f, f.ip, "answer", {}, X(S), I)
        /\ Row(f, f.ip + 1, "answer", {}, X(Code("ctx_get")), I)
    BY <1>c, <1>r, <1>16
  <2>2. At(f, ask_ctx[t], mmk_ctx_[t], "answer", {}, X(S), I)
    BY <2>1, RowHolds
  <2>3. Knows(X(S), "eax", S) /\ Reads(S, "ctx_get", Code("ctx_get"))
    BY <1>v, <1>w DEF Knows, Reads
  <2>4. Writes("eax", Code("ctx_get"), {}, X(S), {}, X(Code("ctx_get")))
    BY <1>b DEF Writes
  <2>5. Reaches(t, f, f.ip + 1, "answer", {}, X(Code("ctx_get")), I)
    BY <1>b, <2>1, <2>2, <2>3, <2>4, LoadGoes
  <2> QED BY <2>1, <2>5, RowReached
<1>17. CASE f.ip = 17
  <2>1. /\ abi[arch].code[f.ip] = Call("eax")
        /\ Row(f, f.ip, "answer", {}, X(Code("ctx_get")), I)
        /\ Row(f, f.ip + 1, "answer", {}, X(S), I)
    BY <1>c, <1>r, <1>17
  <2>2. At(f, ask_ctx[t], mmk_ctx_[t], "answer", {}, X(Code("ctx_get")), I)
    BY <2>1, RowHolds
  <2>3. Knows(X(Code("ctx_get")), "eax", Code("ctx_get"))
    BY DEF Knows
  <2>4. Reaches(t, f, f.ip + 1, "answer", {}, X(S), I)
    BY <1>b, <2>1, <2>2, <2>3, CallGetGoes
  <2> QED BY <2>1, <2>4, RowReached
<1>18. CASE f.ip = 18
  <2>1. /\ abi[arch].code[f.ip] = Ret
        /\ Row(f, f.ip, "answer", {}, X(S), I)
    BY <1>c, <1>r, <1>18
  <2>2. At(f, ask_ctx[t], mmk_ctx_[t], "answer", {}, X(S), I)
    BY <2>1, RowHolds
  <2>3. Knows(X(S), abi[arch].result, S)
    BY <1>b DEF Knows
  <2>4. Leaves(t)
    BY <1>b, <2>1, <2>2, <1>s, <2>3, RetGoes
  <2> QED BY <2>4 DEF Advances
<1> QED
  <2>1. f.ip \in 1..18
    BY <1>l DEF Midway
  <2> QED BY <2>1, <1>1, <1>2, <1>3, <1>4, <1>5, <1>6, <1>7, <1>8, <1>9, <1>10, <1>11,
             <1>12, <1>13, <1>14, <1>15, <1>16, <1>17, <1>18

(* What the two ARM ABIs share. *)
LinkAbi(args, first, ip, lr) ==
    /\ args \in Seq(Regs) /\ ip \in Regs /\ lr \in Regs /\ first \in Regs
    /\ \A i, j \in DOMAIN args : args[i] = args[j] => i = j
    /\ first \in ToSet(args) /\ ip \notin ToSet(args) /\ lr \notin ToSet(args)
    /\ ip # lr
    /\ Kept = ToSet(args) /\ abi[arch].link = lr /\ lr # "stack"
    /\ abi[arch].first = first /\ abi[arch].result = first /\ first # "stack"
    /\ abi[arch].code = WithLinkRegister(args, first, ip, lr)
    /\ \A f : Table(f) = Link(f, args, first, ip, lr)

LEMMA LinkAbis ==
    /\ arch = "aarch64" => LinkAbi(AArch64Args, "x0", "x16", "x30")
    /\ arch = "arm"     => LinkAbi(ArmArgs, "r0", "ip", "lr")
<1>1. ASSUME arch = "aarch64" PROVE LinkAbi(AArch64Args, "x0", "x16", "x30")
  <2>1. /\ abi[arch].code = aarch64 /\ Kept = ToSet(AArch64Args)
        /\ abi[arch].first = "x0" /\ abi[arch].result = "x0" /\ abi[arch].link = "x30"
        /\ Regs = ToSet(AArch64Args) \union AArch64Floats \union {"x16", "x30"}
    BY <1>1 DEF abi, ABI, Regs, Kept
  <2>2. /\ "x0" \in ToSet(AArch64Args) /\ "x16" \notin ToSet(AArch64Args)
        /\ "x30" \notin ToSet(AArch64Args)
        /\ \A i \in 1..8 : AArch64Args[i] \in ToSet(AArch64Args)
    BY DEF ToSet, AArch64Args
  <2>3. /\ DOMAIN AArch64Args = 1..8 /\ AArch64Args = [i \in 1..8 |-> AArch64Args[i]]
        /\ \A i, j \in DOMAIN AArch64Args : AArch64Args[i] = AArch64Args[j] => i = j
    BY DEF AArch64Args
  <2>4. AArch64Args \in Seq(Regs)
    BY <2>1, <2>2, <2>3
  <2>5. \A f : Table(f) = Link(f, AArch64Args, "x0", "x16", "x30")
    BY <1>1 DEF Table
  <2> QED BY <2>1, <2>2, <2>3, <2>4, <2>5 DEF LinkAbi, aarch64
<1>2. ASSUME arch = "arm" PROVE LinkAbi(ArmArgs, "r0", "ip", "lr")
  <2>1. /\ abi[arch].code = arm /\ Kept = ToSet(ArmArgs)
        /\ abi[arch].first = "r0" /\ abi[arch].result = "r0" /\ abi[arch].link = "lr"
        /\ Regs = ToSet(ArmArgs) \union ArmFloats \union {"ip", "lr"}
    BY <1>2 DEF abi, ABI, Regs, Kept
  <2>2. /\ "r0" \in ToSet(ArmArgs) /\ "ip" \notin ToSet(ArmArgs)
        /\ "lr" \notin ToSet(ArmArgs)
        /\ \A i \in 1..4 : ArmArgs[i] \in ToSet(ArmArgs)
    BY DEF ToSet, ArmArgs
  <2>3. /\ DOMAIN ArmArgs = 1..4 /\ ArmArgs = [i \in 1..4 |-> ArmArgs[i]]
        /\ \A i, j \in DOMAIN ArmArgs : ArmArgs[i] = ArmArgs[j] => i = j
    BY DEF ArmArgs
  <2>4. ArmArgs \in Seq(Regs)
    BY <2>1, <2>2, <2>3
  <2>5. \A f : Table(f) = Link(f, ArmArgs, "r0", "ip", "lr")
    BY <1>2 DEF Table
  <2> QED BY <2>1, <2>2, <2>3, <2>4, <2>5 DEF LinkAbi, arm
<1> QED BY <1>1, <1>2

LEMMA LinkGoes ==
    ASSUME NEW t, NEW f, NEW args, NEW first, NEW ip, NEW lr,
           LinkAbi(args, first, ip, lr), Busy(t, f), Step(t),
           StepCall(t) => HasBlock(t),
           Midway(f, ask_ctx[t], mmk_ctx_[t])
    PROVE  Advances(t, f)
<1> DEFINE P == PageAt(f.page)
           S == StubAt(f.stub)
           A == ToSet(args) \union {lr}
           X(v) == {<<ip, v>>}
           I == InitialStack
           L1 == Saved(args) \o I
           L2 == Over(P, Over(Return, L1))
           L3 == Over(P, Over(Return, I))
<1>a. /\ args \in Seq(Regs) /\ ip \in Regs /\ lr \in Regs /\ first \in Regs
      /\ \A i, j \in DOMAIN args : args[i] = args[j] => i = j
      /\ first \in ToSet(args) /\ ip \notin ToSet(args) /\ lr \notin ToSet(args)
      /\ ip # lr
      /\ Kept = ToSet(args) /\ abi[arch].link = lr /\ lr # "stack"
      /\ abi[arch].first = first /\ abi[arch].result = first /\ first # "stack"
  BY DEF LinkAbi
<1>b. /\ args \in Seq(Regs) /\ ip \in Regs /\ lr \in Regs /\ first \in Regs
      /\ \A i, j \in DOMAIN args : args[i] = args[j] => i = j
      /\ \A i \in DOMAIN args : args[i] \in A /\ args[i] # ip /\ args[i] # lr
      /\ \A r \in A : r = lr \/ \E i \in DOMAIN args : args[i] = r
      /\ first \in A /\ ip \notin A /\ lr \in A /\ ip # lr /\ first # lr /\ first # ip
      /\ abi[arch].link = lr /\ lr # "stack" /\ \A r \in Kept : r \in A
      /\ abi[arch].first = first /\ abi[arch].result = first /\ first # "stack"
      /\ InitialReg(lr) = Return
  <2>1. ToSet(args) = {args[i] : i \in DOMAIN args}
    BY DEF ToSet
  <2>2. InitialReg(lr) = Return
    BY <1>a DEF InitialReg, Return
  <2> QED BY <1>a, <2>1, <2>2
<1>v. /\ P \in Value /\ S \in Value /\ Routine(f.stub) \in Value /\ Return \in Value
      /\ \A fn \in {"ctx_set", "ctx_asked", "ctx_get"} : Code(fn) \in Value
      /\ I \in Seq(Value) /\ L1 \in Seq(Value)
  <2>1. /\ P \in Value /\ S \in Value /\ Routine(f.stub) \in Value /\ Return \in Value
        /\ \A fn \in {"ctx_set", "ctx_asked", "ctx_get"} : Code(fn) \in Value
        /\ I \in Seq(Value)
    BY BusyFacts, InitialIsValue DEF Fields
  <2>2. Saved(args) \in Seq(Value)
    BY <1>b, SavedIs
  <2>3. L1 \in Seq(Value)
    BY <2>1, <2>2
  <2> QED BY <2>1, <2>3
<1>w. /\ Word(P, "ctx") = S /\ Word(P, "routine") = Routine(f.stub)
      /\ \A fn \in {"ctx_set", "ctx_asked", "ctx_get"} : Word(S, fn) = Code(fn)
             /\ Code(fn) # NULL
      /\ S # NULL /\ Routine(f.stub) # NULL
  BY Words DEF Fields
<1>g. Busy(t, f) /\ Step(t) /\ ip \in Regs /\ first \in Regs
  BY <1>b
<1>s. L1 = Saved(args) \o I /\ L2 = Over(P, Over(Return, L1))
          /\ L3 = Over(P, Over(Return, I))
  OBVIOUS
<1>k. abi[arch].result = first /\ abi[arch].result \in Regs
  BY <1>a
<1>j. \A x \in Kept \union {abi[arch].link} : x # "stack" => x \in A
  BY <1>a
<1>l. abi[arch].code = WithLinkRegister(args, first, ip, lr) /\ Len(abi[arch].code) = 24
  BY DEF LinkAbi, WithLinkRegister, Peek
(* The instructions, and the rows of the table. *)
<1>c. /\ abi[arch].code[1] = Here(ip)
      /\ abi[arch].code[2] = Push(args)
      /\ abi[arch].code[3] = Push(<<lr, ip>>)
      /\ abi[arch].code[4] = Load(first, ip, "ctx")
      /\ abi[arch].code[5] = Load(ip, first, "ctx_set")
      /\ abi[arch].code[6] = Call(ip)
      /\ abi[arch].code[7] = Pop(<<ip, lr>>)
      /\ abi[arch].code[8] = Push(<<lr, ip>>)
      /\ abi[arch].code[9] = Load(ip, ip, "ctx")
      /\ abi[arch].code[10] = Load(ip, ip, "ctx_asked")
      /\ abi[arch].code[11] = Call(ip)
      /\ abi[arch].code[12] = Branch(first, 17)
      /\ abi[arch].code[13] = Pop(<<ip, lr>>)
      /\ abi[arch].code[14] = Pop(Reverse(args))
      /\ abi[arch].code[15] = Load(ip, ip, "routine")
      /\ abi[arch].code[16] = Jump(ip)
      /\ abi[arch].code[17] = Pop(<<ip, lr>>)
      /\ abi[arch].code[18] = Pop(Reverse(args))
      /\ abi[arch].code[19] = Push(<<lr, ip>>)
      /\ abi[arch].code[20] = Load(ip, ip, "ctx")
      /\ abi[arch].code[21] = Load(ip, ip, "ctx_get")
      /\ abi[arch].code[22] = Call(ip)
      /\ abi[arch].code[23] = Pop(<<ip, lr>>)
      /\ abi[arch].code[24] = Ret
  BY <1>l DEF WithLinkRegister, Peek
<1>r. /\ Row(f, 1, "start", A, {}, I)
      /\ Row(f, 2, "start", A, X(P), I)
      /\ Row(f, 3, "start", {lr}, X(P), L1)
      /\ Row(f, 4, "start", {}, X(P), L2)
      /\ Row(f, 5, "start", {}, {<<first, S>>}, L2)
      /\ Row(f, 6, "start", {}, {<<ip, Code("ctx_set")>>, <<first, S>>}, L2)
      /\ Row(f, 7, "set", {}, {}, L2)
      /\ Row(f, 8, "set", {lr}, X(P), L1)
      /\ Row(f, 9, "set", {}, X(P), L2)
      /\ Row(f, 10, "set", {}, X(S), L2)
      /\ Row(f, 11, "set", {}, X(Code("ctx_asked")), L2)
      /\ Row(f, 12, "asked", {}, {<<first, Answered(f)>>}, L2)
      /\ Row(f, 13, "routine", {}, {}, L2)
      /\ Row(f, 14, "routine", {lr}, X(P), L1)
      /\ Row(f, 15, "routine", A, X(P), I)
      /\ Row(f, 16, "routine", A, X(Routine(f.stub)), I)
      /\ Row(f, 17, "answer", {}, {}, L2)
      /\ Row(f, 18, "answer", {lr}, X(P), L1)
      /\ Row(f, 19, "answer", {lr}, X(P), I)
      /\ Row(f, 20, "answer", {}, X(P), L3)
      /\ Row(f, 21, "answer", {}, X(S), L3)
      /\ Row(f, 22, "answer", {}, X(Code("ctx_get")), L3)
      /\ Row(f, 23, "answer", {}, {<<first, S>>}, L3)
      /\ Row(f, 24, "answer", {lr}, {<<first, S>>}, I)
  <2>1. Table(f) = Link(f, args, first, ip, lr)
    BY DEF LinkAbi
  <2>2. Link(f, args, first, ip, lr)[1] = <<"start", A, {}, I>>
    BY DEF Link
  <2>3. Link(f, args, first, ip, lr)[2] = <<"start", A, X(P), I>>
    BY DEF Link
  <2>4. Link(f, args, first, ip, lr)[3] = <<"start", {lr}, X(P), L1>>
    BY DEF Link
  <2>5. Link(f, args, first, ip, lr)[4] = <<"start", {}, X(P), L2>>
    BY DEF Link
  <2>6. Link(f, args, first, ip, lr)[5] = <<"start", {}, {<<first, S>>}, L2>>
    BY DEF Link
  <2>7. Link(f, args, first, ip, lr)[6] =
            <<"start", {}, {<<ip, Code("ctx_set")>>, <<first, S>>}, L2>>
    BY DEF Link
  <2>8. Link(f, args, first, ip, lr)[7] = <<"set", {}, {}, L2>>
    BY DEF Link
  <2>9. Link(f, args, first, ip, lr)[8] = <<"set", {lr}, X(P), L1>>
    BY DEF Link
  <2>10. Link(f, args, first, ip, lr)[9] = <<"set", {}, X(P), L2>>
    BY DEF Link
  <2>11. Link(f, args, first, ip, lr)[10] = <<"set", {}, X(S), L2>>
    BY DEF Link
  <2>12. Link(f, args, first, ip, lr)[11] = <<"set", {}, X(Code("ctx_asked")), L2>>
    BY DEF Link
  <2>13. Link(f, args, first, ip, lr)[12] =
             <<"asked", {}, {<<first, Answered(f)>>}, L2>>
    BY DEF Link
  <2>14. Link(f, args, first, ip, lr)[13] = <<"routine", {}, {}, L2>>
    BY DEF Link
  <2>15. Link(f, args, first, ip, lr)[14] = <<"routine", {lr}, X(P), L1>>
    BY DEF Link
  <2>16. Link(f, args, first, ip, lr)[15] = <<"routine", A, X(P), I>>
    BY DEF Link
  <2>17. Link(f, args, first, ip, lr)[16] = <<"routine", A, X(Routine(f.stub)), I>>
    BY DEF Link
  <2>18. Link(f, args, first, ip, lr)[17] = <<"answer", {}, {}, L2>>
    BY DEF Link
  <2>19. Link(f, args, first, ip, lr)[18] = <<"answer", {lr}, X(P), L1>>
    BY DEF Link
  <2>20. Link(f, args, first, ip, lr)[19] = <<"answer", {lr}, X(P), I>>
    BY DEF Link
  <2>21. Link(f, args, first, ip, lr)[20] = <<"answer", {}, X(P), L3>>
    BY DEF Link
  <2>22. Link(f, args, first, ip, lr)[21] = <<"answer", {}, X(S), L3>>
    BY DEF Link
  <2>23. Link(f, args, first, ip, lr)[22] = <<"answer", {}, X(Code("ctx_get")), L3>>
    BY DEF Link
  <2>24. Link(f, args, first, ip, lr)[23] = <<"answer", {}, {<<first, S>>}, L3>>
    BY DEF Link
  <2>25. Link(f, args, first, ip, lr)[24] = <<"answer", {lr}, {<<first, S>>}, I>>
    BY DEF Link
  <2> QED BY <1>l, <2>1, <2>2, <2>3, <2>4, <2>5, <2>6, <2>7, <2>8, <2>9, <2>10, <2>11,
             <2>12, <2>13, <2>14, <2>15, <2>16, <2>17, <2>18, <2>19, <2>20, <2>21,
             <2>22, <2>23, <2>24, <2>25 DEF Row
<1> HIDE DEF L1, L2, L3
<1>1. CASE f.ip = 1
  <2>1. /\ abi[arch].code[f.ip] = Here(ip)
        /\ Row(f, f.ip, "start", A, {}, I)
        /\ Row(f, f.ip + 1, "start", A, X(P), I)
    BY <1>c, <1>r, <1>1
  <2>2. At(f, ask_ctx[t], mmk_ctx_[t], "start", A, {}, I)
    BY <2>1, RowHolds
  <2>3. Writes(ip, P, A, {}, A, X(P))
    BY <1>b DEF Writes
  <2>4. Reaches(t, f, f.ip + 1, "start", A, X(P), I)
    BY <1>b, <2>1, <2>2, <2>3, HereGoes
  <2> QED BY <2>1, <2>4, RowReached
<1>2. CASE f.ip = 2
  <2>1. /\ abi[arch].code[f.ip] = Push(args)
        /\ Row(f, f.ip, "start", A, X(P), I)
        /\ Row(f, f.ip + 1, "start", {lr}, X(P), L1)
    BY <1>c, <1>r, <1>2
  <2>2. At(f, ask_ctx[t], mmk_ctx_[t], "start", A, X(P), I)
    BY <2>1, RowHolds
  <2>3. Reaches(t, f, f.ip + 1, "start", {lr}, X(P), L1)
    BY <1>b, <2>1, <2>2, <1>s, PushSavedGoes
  <2> QED BY <2>1, <2>3, RowReached
<1>3. CASE f.ip = 3
  <2>1. /\ abi[arch].code[f.ip] = Push(<<lr, ip>>)
        /\ Row(f, f.ip, "start", {lr}, X(P), L1)
        /\ Row(f, f.ip + 1, "start", {}, X(P), L2)
    BY <1>c, <1>r, <1>3
  <2>2. At(f, ask_ctx[t], mmk_ctx_[t], "start", {lr}, X(P), L1)
    BY <2>1, RowHolds
  <2>3. Knows(X(P), ip, P) /\ L2 = Over(P, Over(Return, L1))
    BY <1>s DEF Knows
  <2>4. Reaches(t, f, f.ip + 1, "start", {}, X(P), L2)
    BY <1>b, <2>1, <2>2, <2>3, PushPairGoes
  <2> QED BY <2>1, <2>4, RowReached
<1>4. CASE f.ip = 4
  <2>1. /\ abi[arch].code[f.ip] = Load(first, ip, "ctx")
        /\ Row(f, f.ip, "start", {}, X(P), L2)
        /\ Row(f, f.ip + 1, "start", {}, {<<first, S>>}, L2)
    BY <1>c, <1>r, <1>4
  <2>2. At(f, ask_ctx[t], mmk_ctx_[t], "start", {}, X(P), L2)
    BY <2>1, RowHolds
  <2>3. Knows(X(P), ip, P) /\ Reads(P, "ctx", S)
    BY <1>v, <1>w DEF Knows, Reads
  <2>4. Writes(first, S, {}, X(P), {}, {<<first, S>>})
    BY <1>b DEF Writes
  <2>5. Reaches(t, f, f.ip + 1, "start", {}, {<<first, S>>}, L2)
    BY ONLY <1>g, <2>1, <2>2, <2>3, <2>4, LoadGoes
  <2> QED BY <2>1, <2>5, RowReached
<1>5. CASE f.ip = 5
  <2>1. /\ abi[arch].code[f.ip] = Load(ip, first, "ctx_set")
        /\ Row(f, f.ip, "start", {}, {<<first, S>>}, L2)
        /\ Row(f, f.ip + 1, "start", {}, {<<ip, Code("ctx_set")>>, <<first, S>>}, L2)
    BY <1>c, <1>r, <1>5
  <2>2. At(f, ask_ctx[t], mmk_ctx_[t], "start", {}, {<<first, S>>}, L2)
    BY <2>1, RowHolds
  <2>3. Knows({<<first, S>>}, first, S) /\ Reads(S, "ctx_set", Code("ctx_set"))
    BY <1>v, <1>w DEF Knows, Reads
  <2>4. Writes(ip, Code("ctx_set"), {}, {<<first, S>>}, {},
               {<<ip, Code("ctx_set")>>, <<first, S>>})
    BY <1>b DEF Writes
  <2>5. Reaches(t, f, f.ip + 1, "start", {},
                {<<ip, Code("ctx_set")>>, <<first, S>>}, L2)
    BY ONLY <1>g, <2>1, <2>2, <2>3, <2>4, LoadGoes
  <2> QED BY <2>1, <2>5, RowReached
<1>6. CASE f.ip = 6
  <2>1. /\ abi[arch].code[f.ip] = Call(ip)
        /\ Row(f, f.ip, "start", {}, {<<ip, Code("ctx_set")>>, <<first, S>>}, L2)
        /\ Row(f, f.ip + 1, "set", {}, {}, L2)
    BY <1>c, <1>r, <1>6
  <2>2. At(f, ask_ctx[t], mmk_ctx_[t], "start", {},
           {<<ip, Code("ctx_set")>>, <<first, S>>}, L2)
    BY <2>1, RowHolds
  <2>3. Argument(f) = S
            /\ Knows({<<ip, Code("ctx_set")>>, <<first, S>>}, ip, Code("ctx_set"))
    BY <2>2, <1>b DEF Argument, At, Fits, Knows
  <2>4. Reaches(t, f, f.ip + 1, "set", {}, {}, L2)
    BY <1>k, <2>1, <2>2, <2>3, CallSetGoes
  <2> QED BY <2>1, <2>4, RowReached
<1>7. CASE f.ip = 7
  <2>1. /\ abi[arch].code[f.ip] = Pop(<<ip, lr>>)
        /\ Row(f, f.ip, "set", {}, {}, L2)
        /\ Row(f, f.ip + 1, "set", {lr}, X(P), L1)
    BY <1>c, <1>r, <1>7
  <2>2. At(f, ask_ctx[t], mmk_ctx_[t], "set", {}, {}, L2)
    BY <2>1, RowHolds
  <2>3. PairBack(ip, lr, P, {}, {}, {lr}, X(P)) /\ L2 = Over(P, Over(Return, L1))
    BY <1>b, <1>s DEF PairBack
  <2>4. Reaches(t, f, f.ip + 1, "set", {lr}, X(P), L1)
    BY <1>b, <2>1, <2>2, <1>v, <2>3, PopPairGoes
  <2> QED BY <2>1, <2>4, RowReached
<1>8. CASE f.ip = 8
  <2>1. /\ abi[arch].code[f.ip] = Push(<<lr, ip>>)
        /\ Row(f, f.ip, "set", {lr}, X(P), L1)
        /\ Row(f, f.ip + 1, "set", {}, X(P), L2)
    BY <1>c, <1>r, <1>8
  <2>2. At(f, ask_ctx[t], mmk_ctx_[t], "set", {lr}, X(P), L1)
    BY <2>1, RowHolds
  <2>3. Knows(X(P), ip, P) /\ L2 = Over(P, Over(Return, L1))
    BY <1>s DEF Knows
  <2>4. Reaches(t, f, f.ip + 1, "set", {}, X(P), L2)
    BY <1>b, <2>1, <2>2, <2>3, PushPairGoes
  <2> QED BY <2>1, <2>4, RowReached
<1>9. CASE f.ip = 9
  <2>1. /\ abi[arch].code[f.ip] = Load(ip, ip, "ctx")
        /\ Row(f, f.ip, "set", {}, X(P), L2)
        /\ Row(f, f.ip + 1, "set", {}, X(S), L2)
    BY <1>c, <1>r, <1>9
  <2>2. At(f, ask_ctx[t], mmk_ctx_[t], "set", {}, X(P), L2)
    BY <2>1, RowHolds
  <2>3. Knows(X(P), ip, P) /\ Reads(P, "ctx", S)
    BY <1>v, <1>w DEF Knows, Reads
  <2>4. Writes(ip, S, {}, X(P), {}, X(S))
    BY <1>b DEF Writes
  <2>5. Reaches(t, f, f.ip + 1, "set", {}, X(S), L2)
    BY ONLY <1>g, <2>1, <2>2, <2>3, <2>4, LoadGoes
  <2> QED BY <2>1, <2>5, RowReached
<1>10. CASE f.ip = 10
  <2>1. /\ abi[arch].code[f.ip] = Load(ip, ip, "ctx_asked")
        /\ Row(f, f.ip, "set", {}, X(S), L2)
        /\ Row(f, f.ip + 1, "set", {}, X(Code("ctx_asked")), L2)
    BY <1>c, <1>r, <1>10
  <2>2. At(f, ask_ctx[t], mmk_ctx_[t], "set", {}, X(S), L2)
    BY <2>1, RowHolds
  <2>3. Knows(X(S), ip, S) /\ Reads(S, "ctx_asked", Code("ctx_asked"))
    BY <1>v, <1>w DEF Knows, Reads
  <2>4. Writes(ip, Code("ctx_asked"), {}, X(S), {}, X(Code("ctx_asked")))
    BY <1>b DEF Writes
  <2>5. Reaches(t, f, f.ip + 1, "set", {}, X(Code("ctx_asked")), L2)
    BY ONLY <1>g, <2>1, <2>2, <2>3, <2>4, LoadGoes
  <2> QED BY <2>1, <2>5, RowReached
<1>11. CASE f.ip = 11
  <2>1. /\ abi[arch].code[f.ip] = Call(ip)
        /\ Row(f, f.ip, "set", {}, X(Code("ctx_asked")), L2)
        /\ Row(f, f.ip + 1, "asked", {}, {<<first, Answered(f)>>}, L2)
    BY <1>c, <1>r, <1>11
  <2>2. At(f, ask_ctx[t], mmk_ctx_[t], "set", {}, X(Code("ctx_asked")), L2)
    BY <2>1, RowHolds
  <2>3. Knows(X(Code("ctx_asked")), ip, Code("ctx_asked"))
    BY DEF Knows
  <2>4. Reaches(t, f, f.ip + 1, "asked", {}, {<<first, Answered(f)>>}, L2)
    BY <1>k, <2>1, <2>2, <2>3, CallAskedGoes
  <2> QED BY <2>1, <2>4, RowReached
<1>12. CASE f.ip = 12
  <2>1. /\ abi[arch].code[f.ip] = Branch(first, 17)
        /\ Row(f, f.ip, "asked", {}, {<<first, Answered(f)>>}, L2)
        /\ Row(f, f.ip + 1, "routine", {}, {}, L2)
        /\ Row(f, 17, "answer", {}, {}, L2)
    BY <1>c, <1>r, <1>12
  <2>2. At(f, ask_ctx[t], mmk_ctx_[t], "asked", {}, {<<first, Answered(f)>>}, L2)
    BY <2>1, RowHolds
  <2>3. Knows({<<first, Answered(f)>>}, first, Answered(f))
    BY DEF Knows
  <2>4. \/ Reaches(t, f, f.ip + 1, "routine", {}, {}, L2)
        \/ Reaches(t, f, 17, "answer", {}, {}, L2)
    BY <1>b, <2>1, <2>2, <2>3, BranchGoes
  <2> QED BY <2>1, <2>4, RowReached
<1>13. CASE f.ip = 13
  <2>1. /\ abi[arch].code[f.ip] = Pop(<<ip, lr>>)
        /\ Row(f, f.ip, "routine", {}, {}, L2)
        /\ Row(f, f.ip + 1, "routine", {lr}, X(P), L1)
    BY <1>c, <1>r, <1>13
  <2>2. At(f, ask_ctx[t], mmk_ctx_[t], "routine", {}, {}, L2)
    BY <2>1, RowHolds
  <2>3. PairBack(ip, lr, P, {}, {}, {lr}, X(P)) /\ L2 = Over(P, Over(Return, L1))
    BY <1>b, <1>s DEF PairBack
  <2>4. Reaches(t, f, f.ip + 1, "routine", {lr}, X(P), L1)
    BY <1>b, <2>1, <2>2, <1>v, <2>3, PopPairGoes
  <2> QED BY <2>1, <2>4, RowReached
<1>14. CASE f.ip = 14
  <2>1. /\ abi[arch].code[f.ip] = Pop(Reverse(args))
        /\ Row(f, f.ip, "routine", {lr}, X(P), L1)
        /\ Row(f, f.ip + 1, "routine", A, X(P), I)
    BY <1>c, <1>r, <1>14
  <2>2. At(f, ask_ctx[t], mmk_ctx_[t], "routine", {lr}, X(P), L1)
    BY <2>1, RowHolds
  <2>3. Returns(args, {lr}, X(P), A, X(P)) /\ L1 = Saved(args) \o I
    BY <1>b, <1>s DEF Returns
  <2>4. Reaches(t, f, f.ip + 1, "routine", A, X(P), I)
    BY <1>b, <2>1, <2>2, <1>v, <2>3, PopSavedGoes
  <2> QED BY <2>1, <2>4, RowReached
<1>15. CASE f.ip = 15
  <2>1. /\ abi[arch].code[f.ip] = Load(ip, ip, "routine")
        /\ Row(f, f.ip, "routine", A, X(P), I)
        /\ Row(f, f.ip + 1, "routine", A, X(Routine(f.stub)), I)
    BY <1>c, <1>r, <1>15
  <2>2. At(f, ask_ctx[t], mmk_ctx_[t], "routine", A, X(P), I)
    BY <2>1, RowHolds
  <2>3. Knows(X(P), ip, P) /\ Reads(P, "routine", Routine(f.stub))
    BY <1>v, <1>w DEF Knows, Reads
  <2>4. Writes(ip, Routine(f.stub), A, X(P), A, X(Routine(f.stub)))
    BY <1>b DEF Writes
  <2>5. Reaches(t, f, f.ip + 1, "routine", A, X(Routine(f.stub)), I)
    BY ONLY <1>g, <2>1, <2>2, <2>3, <2>4, LoadGoes
  <2> QED BY <2>1, <2>5, RowReached
<1>16. CASE f.ip = 16
  <2>1. /\ abi[arch].code[f.ip] = Jump(ip)
        /\ Row(f, f.ip, "routine", A, X(Routine(f.stub)), I)
    BY <1>c, <1>r, <1>16
  <2>2. At(f, ask_ctx[t], mmk_ctx_[t], "routine", A, X(Routine(f.stub)), I)
    BY <2>1, RowHolds
  <2>3. Knows(X(Routine(f.stub)), ip, Routine(f.stub))
    BY DEF Knows
  <2>4. Enters(t, f)
    BY <1>j, <2>1, <2>2, <2>3, JumpGoes
  <2> QED BY <2>4 DEF Advances
<1>17. CASE f.ip = 17
  <2>1. /\ abi[arch].code[f.ip] = Pop(<<ip, lr>>)
        /\ Row(f, f.ip, "answer", {}, {}, L2)
        /\ Row(f, f.ip + 1, "answer", {lr}, X(P), L1)
    BY <1>c, <1>r, <1>17
  <2>2. At(f, ask_ctx[t], mmk_ctx_[t], "answer", {}, {}, L2)
    BY <2>1, RowHolds
  <2>3. PairBack(ip, lr, P, {}, {}, {lr}, X(P)) /\ L2 = Over(P, Over(Return, L1))
    BY <1>b, <1>s DEF PairBack
  <2>4. Reaches(t, f, f.ip + 1, "answer", {lr}, X(P), L1)
    BY <1>b, <2>1, <2>2, <1>v, <2>3, PopPairGoes
  <2> QED BY <2>1, <2>4, RowReached
<1>18. CASE f.ip = 18
  <2>1. /\ abi[arch].code[f.ip] = Pop(Reverse(args))
        /\ Row(f, f.ip, "answer", {lr}, X(P), L1)
        /\ Row(f, f.ip + 1, "answer", {lr}, X(P), I)
    BY <1>c, <1>r, <1>18
  <2>2. At(f, ask_ctx[t], mmk_ctx_[t], "answer", {lr}, X(P), L1)
    BY <2>1, RowHolds
  <2>3. Returns(args, {lr}, X(P), {lr}, X(P)) /\ L1 = Saved(args) \o I
    BY <1>b, <1>s DEF Returns
  <2>4. Reaches(t, f, f.ip + 1, "answer", {lr}, X(P), I)
    BY <1>b, <2>1, <2>2, <1>v, <2>3, PopSavedGoes
  <2> QED BY <2>1, <2>4, RowReached
<1>19. CASE f.ip = 19
  <2>1. /\ abi[arch].code[f.ip] = Push(<<lr, ip>>)
        /\ Row(f, f.ip, "answer", {lr}, X(P), I)
        /\ Row(f, f.ip + 1, "answer", {}, X(P), L3)
    BY <1>c, <1>r, <1>19
  <2>2. At(f, ask_ctx[t], mmk_ctx_[t], "answer", {lr}, X(P), I)
    BY <2>1, RowHolds
  <2>3. Knows(X(P), ip, P) /\ L3 = Over(P, Over(Return, I))
    BY <1>s DEF Knows
  <2>4. Reaches(t, f, f.ip + 1, "answer", {}, X(P), L3)
    BY <1>b, <2>1, <2>2, <2>3, PushPairGoes
  <2> QED BY <2>1, <2>4, RowReached
<1>20. CASE f.ip = 20
  <2>1. /\ abi[arch].code[f.ip] = Load(ip, ip, "ctx")
        /\ Row(f, f.ip, "answer", {}, X(P), L3)
        /\ Row(f, f.ip + 1, "answer", {}, X(S), L3)
    BY <1>c, <1>r, <1>20
  <2>2. At(f, ask_ctx[t], mmk_ctx_[t], "answer", {}, X(P), L3)
    BY <2>1, RowHolds
  <2>3. Knows(X(P), ip, P) /\ Reads(P, "ctx", S)
    BY <1>v, <1>w DEF Knows, Reads
  <2>4. Writes(ip, S, {}, X(P), {}, X(S))
    BY <1>b DEF Writes
  <2>5. Reaches(t, f, f.ip + 1, "answer", {}, X(S), L3)
    BY ONLY <1>g, <2>1, <2>2, <2>3, <2>4, LoadGoes
  <2> QED BY <2>1, <2>5, RowReached
<1>21. CASE f.ip = 21
  <2>1. /\ abi[arch].code[f.ip] = Load(ip, ip, "ctx_get")
        /\ Row(f, f.ip, "answer", {}, X(S), L3)
        /\ Row(f, f.ip + 1, "answer", {}, X(Code("ctx_get")), L3)
    BY <1>c, <1>r, <1>21
  <2>2. At(f, ask_ctx[t], mmk_ctx_[t], "answer", {}, X(S), L3)
    BY <2>1, RowHolds
  <2>3. Knows(X(S), ip, S) /\ Reads(S, "ctx_get", Code("ctx_get"))
    BY <1>v, <1>w DEF Knows, Reads
  <2>4. Writes(ip, Code("ctx_get"), {}, X(S), {}, X(Code("ctx_get")))
    BY <1>b DEF Writes
  <2>5. Reaches(t, f, f.ip + 1, "answer", {}, X(Code("ctx_get")), L3)
    BY ONLY <1>g, <2>1, <2>2, <2>3, <2>4, LoadGoes
  <2> QED BY <2>1, <2>5, RowReached
<1>22. CASE f.ip = 22
  <2>1. /\ abi[arch].code[f.ip] = Call(ip)
        /\ Row(f, f.ip, "answer", {}, X(Code("ctx_get")), L3)
        /\ Row(f, f.ip + 1, "answer", {}, {<<first, S>>}, L3)
    BY <1>c, <1>r, <1>22
  <2>2. At(f, ask_ctx[t], mmk_ctx_[t], "answer", {}, X(Code("ctx_get")), L3)
    BY <2>1, RowHolds
  <2>3. Knows(X(Code("ctx_get")), ip, Code("ctx_get"))
    BY DEF Knows
  <2>4. Reaches(t, f, f.ip + 1, "answer", {}, {<<first, S>>}, L3)
    BY <1>k, <2>1, <2>2, <2>3, CallGetGoes
  <2> QED BY <2>1, <2>4, RowReached
<1>23. CASE f.ip = 23
  <2>1. /\ abi[arch].code[f.ip] = Pop(<<ip, lr>>)
        /\ Row(f, f.ip, "answer", {}, {<<first, S>>}, L3)
        /\ Row(f, f.ip + 1, "answer", {lr}, {<<first, S>>}, I)
    BY <1>c, <1>r, <1>23
  <2>2. At(f, ask_ctx[t], mmk_ctx_[t], "answer", {}, {<<first, S>>}, L3)
    BY <2>1, RowHolds
  <2>3. PairBack(ip, lr, P, {}, {<<first, S>>}, {lr}, {<<first, S>>})
            /\ L3 = Over(P, Over(Return, I))
    BY <1>b, <1>s DEF PairBack
  <2>4. Reaches(t, f, f.ip + 1, "answer", {lr}, {<<first, S>>}, I)
    BY <1>b, <2>1, <2>2, <1>v, <2>3, PopPairGoes
  <2> QED BY <2>1, <2>4, RowReached
<1>24. CASE f.ip = 24
  <2>1. /\ abi[arch].code[f.ip] = Ret
        /\ Row(f, f.ip, "answer", {lr}, {<<first, S>>}, I)
    BY <1>c, <1>r, <1>24
  <2>2. At(f, ask_ctx[t], mmk_ctx_[t], "answer", {lr}, {<<first, S>>}, I)
    BY <2>1, RowHolds
  <2>3. Knows({<<first, S>>}, abi[arch].result, S)
    BY <1>b DEF Knows
  <2>4. Leaves(t)
    BY <1>b, <2>1, <2>2, <1>s, <2>3, RetGoes
  <2> QED BY <2>4 DEF Advances
<1> QED
  <2>1. f.ip \in 1..24
    BY <1>l DEF Midway
  <2> QED BY <2>1, <1>1, <1>2, <1>3, <1>4, <1>5, <1>6, <1>7, <1>8, <1>9, <1>10, <1>11,
             <1>12, <1>13, <1>14, <1>15, <1>16, <1>17, <1>18, <1>19, <1>20, <1>21,
             <1>22, <1>23, <1>24

LEMMA WinIs ==
    ASSUME arch \in {"win_gas", "win_masm"}
    PROVE  /\ Kept = ToSet(WinArgs) /\ Regs = ToSet(WinArgs) \union {"rax"}
           /\ abi[arch].first = "rcx" /\ abi[arch].result = "rax"
           /\ abi[arch].link = "stack"
           /\ arch = "win_gas"  => abi[arch].code = win_gas
           /\ arch = "win_masm" => abi[arch].code = win_masm
<1>1. ToSet(WinArgs) = WinInts \union WinFloats
  BY DEF ToSet, WinArgs, WinInts, WinFloats
<1>2. /\ abi[arch].ints = WinInts /\ abi[arch].floats = WinFloats
      /\ abi[arch].first = "rcx" /\ abi[arch].result = "rax" /\ abi[arch].link = "stack"
      /\ Regs = WinInts \union WinFloats \union {"rax"}
      /\ arch = "win_gas"  => abi[arch].code = win_gas
      /\ arch = "win_masm" => abi[arch].code = win_masm
  BY DEF abi, ABI, Regs
<1> QED BY <1>1, <1>2 DEF Kept

LEMMA WinRegs ==
    ASSUME arch \in {"win_gas", "win_masm"}
    PROVE  /\ WinSaves \in Seq(Regs) /\ "rax" \in Regs
           /\ \A i, j \in DOMAIN WinSaves : WinSaves[i] = WinSaves[j] => i = j
           /\ \A i \in DOMAIN WinSaves : WinSaves[i] \in ToSet(WinArgs)
           /\ \A r \in ToSet(WinArgs) : \E i \in DOMAIN WinSaves : WinSaves[i] = r
           /\ ToSet(WinArgs) \subseteq Regs
           /\ "rax" \notin ToSet(WinArgs) /\ "rcx" \in ToSet(WinArgs)
<1>1. Regs = ToSet(WinArgs) \union {"rax"}
  BY WinIs
<1>2. ToSet(WinArgs) = {"rcx", "rdx", "r8", "r9", "xmm0", "xmm1", "xmm2", "xmm3"}
  BY DEF ToSet, WinArgs
<1>3. /\ DOMAIN WinSaves = 1..8 /\ WinSaves = [i \in 1..8 |-> WinSaves[i]]
      /\ \A i, j \in DOMAIN WinSaves : WinSaves[i] = WinSaves[j] => i = j
  BY DEF WinSaves, WinArgs
<1>4. \A i \in 1..8 : WinSaves[i] \in ToSet(WinArgs)
  BY <1>2 DEF WinSaves, WinArgs
<1>5. WinSaves \in Seq(Regs)
  BY <1>1, <1>3, <1>4
<1>6. \A r \in ToSet(WinArgs) : \E i \in 1..8 : WinSaves[i] = r
  <2>1. /\ WinSaves[1] \in {"rcx", "rdx"} /\ WinSaves[2] \in {"rcx", "rdx"}
        /\ WinSaves[1] # WinSaves[2] /\ WinSaves[3] = "r8" /\ WinSaves[4] = "r9"
        /\ WinSaves[5] = "xmm0" /\ WinSaves[6] = "xmm1"
        /\ WinSaves[7] = "xmm2" /\ WinSaves[8] = "xmm3"
    BY DEF WinSaves, WinArgs
  <2> QED BY <1>2, <2>1
<1> QED BY <1>1, <1>2, <1>3, <1>4, <1>5, <1>6

LEMMA WinCode ==
    ASSUME arch \in {"win_gas", "win_masm"}, NEW c, c = abi[arch].code
    PROVE  /\ c[1] = Here("rax")
           /\ c[2] = Push(<<"rax">>)
           /\ c[3] = Load("rax", "rax", "ctx")
           /\ c[4] = Push(WinSaves)
           /\ c[5] = Mov("rcx", "rax")
           /\ c[6] = Push(<<"rax">>)
           /\ c[7] = Load("rax", "rax", "ctx_set")
           /\ c[8] = Call("rax")
           /\ c[9] = Pop(<<"rax">>)
           /\ c[10] = Load("rax", "rax", "ctx_asked")
           /\ c[11] = Call("rax")
           /\ c[12] = Pop(Reverse(WinSaves))
           /\ c[13] = Branch("rax", 17)
           /\ c[14] = Pop(<<"rax">>)
           /\ c[15] = Load("rax", "rax", "routine")
           /\ c[16] = Jump("rax")
           /\ c[17] = Pop(<<"rax">>)
           /\ c[18] = Load("rax", "rax", "ctx")
           /\ IF arch = "win_gas" THEN /\ Len(c) = 21
                                       /\ c[19] = Load("rax", "rax", "ctx_get")
                                       /\ c[20] = Call("rax") /\ c[21] = Ret
              ELSE Len(c) = 19 /\ c[19] = Ret
<1>1. CASE arch = "win_gas"
  <2>1. c = WinRoutine(WinSaves) \o <<Load("rax", "rax", "ctx_get"), Call("rax"), Ret>>
    BY <1>1, WinIs DEF win_gas, WinSaves
  <2> QED BY <1>1, <2>1 DEF WinRoutine
<1>2. CASE arch = "win_masm"
  <2>1. c = WinRoutine(WinSaves) \o <<Ret>>
    BY <1>2, WinIs DEF win_masm, WinSaves
  <2> QED BY <1>2, <2>1 DEF WinRoutine
<1> QED BY <1>1, <1>2

LEMMA WinGoes ==
    ASSUME NEW t, NEW f, arch \in {"win_gas", "win_masm"}, Busy(t, f), Step(t),
           StepCall(t) => HasBlock(t), Midway(f, ask_ctx[t], mmk_ctx_[t])
    PROVE  Advances(t, f)
<1> DEFINE P == PageAt(f.page)
           S == StubAt(f.stub)
           A == ToSet(WinArgs)
           X(v) == {<<"rax", v>>}
           I == InitialStack
           L1 == Over(P, I)
           L2 == Saved(WinSaves) \o L1
           L3 == Over(S, L2)
<1>b. /\ WinSaves \in Seq(Regs) /\ "rax" \in Regs /\ A \subseteq Regs
      /\ \A i, j \in DOMAIN WinSaves : WinSaves[i] = WinSaves[j] => i = j
      /\ \A i \in DOMAIN WinSaves : WinSaves[i] \in A
      /\ \A r \in A : \E i \in DOMAIN WinSaves : WinSaves[i] = r
      /\ "rax" \notin A /\ "rcx" \in A
      /\ Kept = A /\ abi[arch].first = "rcx" /\ abi[arch].result = "rax"
      /\ abi[arch].link = "stack"
  BY WinIs, WinRegs
<1>v. /\ P \in Value /\ S \in Value /\ Routine(f.stub) \in Value /\ Return \in Value
      /\ \A fn \in {"ctx_set", "ctx_asked", "ctx_get"} : Code(fn) \in Value
      /\ I \in Seq(Value) /\ L1 \in Seq(Value) /\ L2 \in Seq(Value)
  <2>1. /\ P \in Value /\ S \in Value /\ Routine(f.stub) \in Value /\ Return \in Value
        /\ \A fn \in {"ctx_set", "ctx_asked", "ctx_get"} : Code(fn) \in Value
        /\ I \in Seq(Value)
    BY BusyFacts, InitialIsValue DEF Fields
  <2>2. L1 \in Seq(Value) /\ Saved(WinSaves) \in Seq(Value)
    BY <1>b, <2>1, StackIsSeq, SavedIs
  <2>3. L2 \in Seq(Value)
    <3> HIDE DEF L1
    <3> QED BY <2>2
  <2> QED BY <2>1, <2>2, <2>3
<1>w. /\ Word(P, "ctx") = S /\ Word(P, "routine") = Routine(f.stub)
      /\ \A fn \in {"ctx_set", "ctx_asked", "ctx_get"} : Word(S, fn) = Code(fn)
             /\ Code(fn) # NULL
      /\ S # NULL /\ Routine(f.stub) # NULL
  BY Words DEF Fields
<1>g. Busy(t, f) /\ Step(t) /\ "rax" \in Regs
  BY <1>b
<1>s. L1 = Over(P, I) /\ L2 = Saved(WinSaves) \o L1 /\ L3 = Over(S, L2)
  OBVIOUS
(* The instructions, and the rows of the table. *)
<1>c. /\ abi[arch].code[1] = Here("rax")
      /\ abi[arch].code[2] = Push(<<"rax">>)
      /\ abi[arch].code[3] = Load("rax", "rax", "ctx")
      /\ abi[arch].code[4] = Push(WinSaves)
      /\ abi[arch].code[5] = Mov("rcx", "rax")
      /\ abi[arch].code[6] = Push(<<"rax">>)
      /\ abi[arch].code[7] = Load("rax", "rax", "ctx_set")
      /\ abi[arch].code[8] = Call("rax")
      /\ abi[arch].code[9] = Pop(<<"rax">>)
      /\ abi[arch].code[10] = Load("rax", "rax", "ctx_asked")
      /\ abi[arch].code[11] = Call("rax")
      /\ abi[arch].code[12] = Pop(Reverse(WinSaves))
      /\ abi[arch].code[13] = Branch("rax", 17)
      /\ abi[arch].code[14] = Pop(<<"rax">>)
      /\ abi[arch].code[15] = Load("rax", "rax", "routine")
      /\ abi[arch].code[16] = Jump("rax")
      /\ abi[arch].code[17] = Pop(<<"rax">>)
      /\ abi[arch].code[18] = Load("rax", "rax", "ctx")
  BY WinCode
<1>l. /\ arch = "win_gas" => /\ Len(abi[arch].code) = 21
                              /\ abi[arch].code[19] = Load("rax", "rax", "ctx_get")
                              /\ abi[arch].code[20] = Call("rax")
                              /\ abi[arch].code[21] = Ret
      /\ arch = "win_masm" => Len(abi[arch].code) = 19 /\ abi[arch].code[19] = Ret
  BY WinCode
<1>n. /\ \A i \in 1..19 : i \in 1..Len(abi[arch].code)
      /\ \A i \in 1..Len(abi[arch].code) : i \in 1..21
      /\ arch = "win_gas" => 20 \in 1..Len(abi[arch].code)
             /\ 21 \in 1..Len(abi[arch].code)
      /\ arch = "win_masm" => \A i \in 1..Len(abi[arch].code) : i \in 1..19
  <2>1. CASE arch = "win_gas"
    <3>1. Len(abi[arch].code) = 21
      BY <1>l, <2>1
    <3> QED BY <2>1, <3>1
  <2>2. CASE arch = "win_masm"
    <3>1. Len(abi[arch].code) = 19
      BY <1>l, <2>2
    <3> QED BY <2>2, <3>1
  <2> QED BY <2>1, <2>2
<1>j. \A x \in Kept \union {abi[arch].link} : x # "stack" => x \in A
  BY <1>b
<1>r. /\ Row(f, 1, "start", A, {}, I)
      /\ Row(f, 2, "start", A, X(P), I)
      /\ Row(f, 3, "start", A, X(P), L1)
      /\ Row(f, 4, "start", A, X(S), L1)
      /\ Row(f, 5, "start", {}, X(S), L2)
      /\ Row(f, 6, "start", {}, {<<"rax", S>>, <<"rcx", S>>}, L2)
      /\ Row(f, 7, "start", {}, {<<"rax", S>>, <<"rcx", S>>}, L3)
      /\ Row(f, 8, "start", {}, {<<"rax", Code("ctx_set")>>, <<"rcx", S>>}, L3)
      /\ Row(f, 9, "set", {}, {}, L3)
      /\ Row(f, 10, "set", {}, X(S), L2)
      /\ Row(f, 11, "set", {}, X(Code("ctx_asked")), L2)
      /\ Row(f, 12, "asked", {}, X(Answered(f)), L2)
      /\ Row(f, 13, "asked", A, X(Answered(f)), L1)
      /\ Row(f, 14, "routine", A, {}, L1)
      /\ Row(f, 15, "routine", A, X(P), I)
      /\ Row(f, 16, "routine", A, X(Routine(f.stub)), I)
      /\ Row(f, 17, "answer", {}, {}, L1)
      /\ Row(f, 18, "answer", {}, X(P), I)
      /\ Row(f, 19, "answer", {}, X(S), I)
      /\ arch = "win_gas" => Row(f, 20, "answer", {}, X(Code("ctx_get")), I)
             /\ Row(f, 21, "answer", {}, X(S), I)
  <2>1. Table(f) = Win(f)
    BY DEF Table
  <2>2. Win(f)[1] = <<"start", A, {}, I>>
    BY DEF Win
  <2>3. Win(f)[2] = <<"start", A, X(P), I>>
    BY DEF Win
  <2>4. Win(f)[3] = <<"start", A, X(P), L1>>
    BY DEF Win
  <2>5. Win(f)[4] = <<"start", A, X(S), L1>>
    BY DEF Win
  <2>6. Win(f)[5] = <<"start", {}, X(S), L2>>
    BY DEF Win
  <2>7. Win(f)[6] = <<"start", {}, {<<"rax", S>>, <<"rcx", S>>}, L2>>
    BY DEF Win
  <2>8. Win(f)[7] = <<"start", {}, {<<"rax", S>>, <<"rcx", S>>}, L3>>
    BY DEF Win
  <2>9. Win(f)[8] = <<"start", {}, {<<"rax", Code("ctx_set")>>, <<"rcx", S>>}, L3>>
    BY DEF Win
  <2>10. Win(f)[9] = <<"set", {}, {}, L3>>
    BY DEF Win
  <2>11. Win(f)[10] = <<"set", {}, X(S), L2>>
    BY DEF Win
  <2>12. Win(f)[11] = <<"set", {}, X(Code("ctx_asked")), L2>>
    BY DEF Win
  <2>13. Win(f)[12] = <<"asked", {}, X(Answered(f)), L2>>
    BY DEF Win
  <2>14. Win(f)[13] = <<"asked", A, X(Answered(f)), L1>>
    BY DEF Win
  <2>15. Win(f)[14] = <<"routine", A, {}, L1>>
    BY DEF Win
  <2>16. Win(f)[15] = <<"routine", A, X(P), I>>
    BY DEF Win
  <2>17. Win(f)[16] = <<"routine", A, X(Routine(f.stub)), I>>
    BY DEF Win
  <2>18. Win(f)[17] = <<"answer", {}, {}, L1>>
    BY DEF Win
  <2>19. Win(f)[18] = <<"answer", {}, X(P), I>>
    BY DEF Win
  <2>20. Win(f)[19] = <<"answer", {}, X(S), I>>
    BY DEF Win
  <2>21. Win(f)[20] = <<"answer", {}, X(Code("ctx_get")), I>>
    BY DEF Win
  <2>22. Win(f)[21] = <<"answer", {}, X(S), I>>
    BY DEF Win
  <2> QED BY <1>n, <2>1, <2>2, <2>3, <2>4, <2>5, <2>6, <2>7, <2>8, <2>9, <2>10, <2>11,
             <2>12, <2>13, <2>14, <2>15, <2>16, <2>17, <2>18, <2>19, <2>20, <2>21, <2>22
             DEF Row
<1> HIDE DEF L1, L2, L3
<1>1. CASE f.ip = 1
  <2>1. /\ abi[arch].code[f.ip] = Here("rax")
        /\ Row(f, f.ip, "start", A, {}, I)
        /\ Row(f, f.ip + 1, "start", A, X(P), I)
    BY <1>c, <1>r, <1>1
  <2>2. At(f, ask_ctx[t], mmk_ctx_[t], "start", A, {}, I)
    BY <2>1, RowHolds
  <2>3. Writes("rax", P, A, {}, A, X(P))
    BY <1>b DEF Writes
  <2>4. Reaches(t, f, f.ip + 1, "start", A, X(P), I)
    BY <1>b, <2>1, <2>2, <2>3, HereGoes
  <2> QED BY <2>1, <2>4, RowReached
<1>2. CASE f.ip = 2
  <2>1. /\ abi[arch].code[f.ip] = Push(<<"rax">>)
        /\ Row(f, f.ip, "start", A, X(P), I)
        /\ Row(f, f.ip + 1, "start", A, X(P), L1)
    BY <1>c, <1>r, <1>2
  <2>2. At(f, ask_ctx[t], mmk_ctx_[t], "start", A, X(P), I)
    BY <2>1, RowHolds
  <2>3. Knows(X(P), "rax", P) /\ L1 = Over(P, I)
    BY <1>s DEF Knows
  <2>4. Reaches(t, f, f.ip + 1, "start", A, X(P), L1)
    BY <1>b, <2>1, <2>2, <2>3, PushOneGoes
  <2> QED BY <2>1, <2>4, RowReached
<1>3. CASE f.ip = 3
  <2>1. /\ abi[arch].code[f.ip] = Load("rax", "rax", "ctx")
        /\ Row(f, f.ip, "start", A, X(P), L1)
        /\ Row(f, f.ip + 1, "start", A, X(S), L1)
    BY <1>c, <1>r, <1>3
  <2>2. At(f, ask_ctx[t], mmk_ctx_[t], "start", A, X(P), L1)
    BY <2>1, RowHolds
  <2>3. Knows(X(P), "rax", P) /\ Reads(P, "ctx", S)
    BY <1>v, <1>w DEF Knows, Reads
  <2>4. Writes("rax", S, A, X(P), A, X(S))
    BY <1>b DEF Writes
  <2>5. Reaches(t, f, f.ip + 1, "start", A, X(S), L1)
    BY ONLY <1>g, <2>1, <2>2, <2>3, <2>4, LoadGoes
  <2> QED BY <2>1, <2>5, RowReached
<1>4. CASE f.ip = 4
  <2>1. /\ abi[arch].code[f.ip] = Push(WinSaves)
        /\ Row(f, f.ip, "start", A, X(S), L1)
        /\ Row(f, f.ip + 1, "start", {}, X(S), L2)
    BY <1>c, <1>r, <1>4
  <2>2. At(f, ask_ctx[t], mmk_ctx_[t], "start", A, X(S), L1)
    BY <2>1, RowHolds
  <2>3. Reaches(t, f, f.ip + 1, "start", {}, X(S), L2)
    BY <1>b, <2>1, <2>2, <1>s, PushSavedGoes
  <2> QED BY <2>1, <2>3, RowReached
<1>5. CASE f.ip = 5
  <2>1. /\ abi[arch].code[f.ip] = Mov("rcx", "rax")
        /\ Row(f, f.ip, "start", {}, X(S), L2)
        /\ Row(f, f.ip + 1, "start", {}, {<<"rax", S>>, <<"rcx", S>>}, L2)
    BY <1>c, <1>r, <1>5
  <2>2. At(f, ask_ctx[t], mmk_ctx_[t], "start", {}, X(S), L2)
    BY <2>1, RowHolds
  <2>3. Knows(X(S), "rax", S)
    BY DEF Knows
  <2>4. Writes("rcx", S, {}, X(S), {}, {<<"rax", S>>, <<"rcx", S>>})
    BY <1>b DEF Writes
  <2>5. Reaches(t, f, f.ip + 1, "start", {}, {<<"rax", S>>, <<"rcx", S>>}, L2)
    BY <1>b, <2>1, <2>2, <2>3, <2>4, MovGoes
  <2> QED BY <2>1, <2>5, RowReached
<1>6. CASE f.ip = 6
  <2>1. /\ abi[arch].code[f.ip] = Push(<<"rax">>)
        /\ Row(f, f.ip, "start", {}, {<<"rax", S>>, <<"rcx", S>>}, L2)
        /\ Row(f, f.ip + 1, "start", {}, {<<"rax", S>>, <<"rcx", S>>}, L3)
    BY <1>c, <1>r, <1>6
  <2>2. At(f, ask_ctx[t], mmk_ctx_[t], "start", {}, {<<"rax", S>>, <<"rcx", S>>}, L2)
    BY <2>1, RowHolds
  <2>3. Knows({<<"rax", S>>, <<"rcx", S>>}, "rax", S) /\ L3 = Over(S, L2)
    BY <1>s DEF Knows
  <2>4. Reaches(t, f, f.ip + 1, "start", {}, {<<"rax", S>>, <<"rcx", S>>}, L3)
    BY <1>b, <2>1, <2>2, <2>3, PushOneGoes
  <2> QED BY <2>1, <2>4, RowReached
<1>7. CASE f.ip = 7
  <2>1. /\ abi[arch].code[f.ip] = Load("rax", "rax", "ctx_set")
        /\ Row(f, f.ip, "start", {}, {<<"rax", S>>, <<"rcx", S>>}, L3)
        /\ Row(f, f.ip + 1, "start", {}, {<<"rax", Code("ctx_set")>>, <<"rcx", S>>}, L3)
    BY <1>c, <1>r, <1>7
  <2>2. At(f, ask_ctx[t], mmk_ctx_[t], "start", {}, {<<"rax", S>>, <<"rcx", S>>}, L3)
    BY <2>1, RowHolds
  <2>3. Knows({<<"rax", S>>, <<"rcx", S>>}, "rax", S)
            /\ Reads(S, "ctx_set", Code("ctx_set"))
    BY <1>v, <1>w DEF Knows, Reads
  <2>4. Writes("rax", Code("ctx_set"), {}, {<<"rax", S>>, <<"rcx", S>>}, {},
               {<<"rax", Code("ctx_set")>>, <<"rcx", S>>})
    BY <1>b DEF Writes
  <2>5. Reaches(t, f, f.ip + 1, "start", {},
                {<<"rax", Code("ctx_set")>>, <<"rcx", S>>}, L3)
    BY ONLY <1>g, <2>1, <2>2, <2>3, <2>4, LoadGoes
  <2> QED BY <2>1, <2>5, RowReached
<1>8. CASE f.ip = 8
  <2>1. /\ abi[arch].code[f.ip] = Call("rax")
        /\ Row(f, f.ip, "start", {}, {<<"rax", Code("ctx_set")>>, <<"rcx", S>>}, L3)
        /\ Row(f, f.ip + 1, "set", {}, {}, L3)
    BY <1>c, <1>r, <1>8
  <2>2. At(f, ask_ctx[t], mmk_ctx_[t], "start", {},
           {<<"rax", Code("ctx_set")>>, <<"rcx", S>>}, L3)
    BY <2>1, RowHolds
  <2>3. Argument(f) = S
            /\ Knows({<<"rax", Code("ctx_set")>>, <<"rcx", S>>}, "rax", Code("ctx_set"))
    BY <2>2, <1>b DEF Argument, At, Fits, Knows
  <2>4. Reaches(t, f, f.ip + 1, "set", {}, {}, L3)
    BY <1>b, <2>1, <2>2, <2>3, CallSetGoes
  <2> QED BY <2>1, <2>4, RowReached
<1>9. CASE f.ip = 9
  <2>1. /\ abi[arch].code[f.ip] = Pop(<<"rax">>)
        /\ Row(f, f.ip, "set", {}, {}, L3)
        /\ Row(f, f.ip + 1, "set", {}, X(S), L2)
    BY <1>c, <1>r, <1>9
  <2>2. At(f, ask_ctx[t], mmk_ctx_[t], "set", {}, {}, L3)
    BY <2>1, RowHolds
  <2>3. Writes("rax", S, {}, {}, {}, X(S))
    BY <1>b DEF Writes
  <2>4. Reaches(t, f, f.ip + 1, "set", {}, X(S), L2)
    BY <1>b, <2>1, <2>2, <1>s, <1>v, <2>3, PopOneGoes
  <2> QED BY <2>1, <2>4, RowReached
<1>10. CASE f.ip = 10
  <2>1. /\ abi[arch].code[f.ip] = Load("rax", "rax", "ctx_asked")
        /\ Row(f, f.ip, "set", {}, X(S), L2)
        /\ Row(f, f.ip + 1, "set", {}, X(Code("ctx_asked")), L2)
    BY <1>c, <1>r, <1>10
  <2>2. At(f, ask_ctx[t], mmk_ctx_[t], "set", {}, X(S), L2)
    BY <2>1, RowHolds
  <2>3. Knows(X(S), "rax", S) /\ Reads(S, "ctx_asked", Code("ctx_asked"))
    BY <1>v, <1>w DEF Knows, Reads
  <2>4. Writes("rax", Code("ctx_asked"), {}, X(S), {}, X(Code("ctx_asked")))
    BY <1>b DEF Writes
  <2>5. Reaches(t, f, f.ip + 1, "set", {}, X(Code("ctx_asked")), L2)
    BY ONLY <1>g, <2>1, <2>2, <2>3, <2>4, LoadGoes
  <2> QED BY <2>1, <2>5, RowReached
<1>11. CASE f.ip = 11
  <2>1. /\ abi[arch].code[f.ip] = Call("rax")
        /\ Row(f, f.ip, "set", {}, X(Code("ctx_asked")), L2)
        /\ Row(f, f.ip + 1, "asked", {}, X(Answered(f)), L2)
    BY <1>c, <1>r, <1>11
  <2>2. At(f, ask_ctx[t], mmk_ctx_[t], "set", {}, X(Code("ctx_asked")), L2)
    BY <2>1, RowHolds
  <2>3. Knows(X(Code("ctx_asked")), "rax", Code("ctx_asked"))
    BY DEF Knows
  <2>4. Reaches(t, f, f.ip + 1, "asked", {}, X(Answered(f)), L2)
    BY <1>b, <2>1, <2>2, <2>3, CallAskedGoes
  <2> QED BY <2>1, <2>4, RowReached
<1>12. CASE f.ip = 12
  <2>1. /\ abi[arch].code[f.ip] = Pop(Reverse(WinSaves))
        /\ Row(f, f.ip, "asked", {}, X(Answered(f)), L2)
        /\ Row(f, f.ip + 1, "asked", A, X(Answered(f)), L1)
    BY <1>c, <1>r, <1>12
  <2>2. At(f, ask_ctx[t], mmk_ctx_[t], "asked", {}, X(Answered(f)), L2)
    BY <2>1, RowHolds
  <2>3. Returns(WinSaves, {}, X(Answered(f)), A, X(Answered(f)))
            /\ L2 = Saved(WinSaves) \o L1
    BY <1>b, <1>s DEF Returns
  <2>4. Reaches(t, f, f.ip + 1, "asked", A, X(Answered(f)), L1)
    BY <1>b, <2>1, <2>2, <1>v, <2>3, PopSavedGoes
  <2> QED BY <2>1, <2>4, RowReached
<1>13. CASE f.ip = 13
  <2>1. /\ abi[arch].code[f.ip] = Branch("rax", 17)
        /\ Row(f, f.ip, "asked", A, X(Answered(f)), L1)
        /\ Row(f, f.ip + 1, "routine", A, {}, L1)
        /\ Row(f, 17, "answer", {}, {}, L1)
    BY <1>c, <1>r, <1>13
  <2>2. At(f, ask_ctx[t], mmk_ctx_[t], "asked", A, X(Answered(f)), L1)
    BY <2>1, RowHolds
  <2>3. Knows(X(Answered(f)), "rax", Answered(f))
    BY DEF Knows
  <2>4. \/ Reaches(t, f, f.ip + 1, "routine", A, {}, L1)
        \/ Reaches(t, f, 17, "answer", {}, {}, L1)
    BY <1>b, <2>1, <2>2, <2>3, BranchGoes
  <2> QED BY <2>1, <2>4, RowReached
<1>14. CASE f.ip = 14
  <2>1. /\ abi[arch].code[f.ip] = Pop(<<"rax">>)
        /\ Row(f, f.ip, "routine", A, {}, L1)
        /\ Row(f, f.ip + 1, "routine", A, X(P), I)
    BY <1>c, <1>r, <1>14
  <2>2. At(f, ask_ctx[t], mmk_ctx_[t], "routine", A, {}, L1)
    BY <2>1, RowHolds
  <2>3. Writes("rax", P, A, {}, A, X(P))
    BY <1>b DEF Writes
  <2>4. Reaches(t, f, f.ip + 1, "routine", A, X(P), I)
    BY <1>b, <2>1, <2>2, <1>s, <1>v, <2>3, PopOneGoes
  <2> QED BY <2>1, <2>4, RowReached
<1>15. CASE f.ip = 15
  <2>1. /\ abi[arch].code[f.ip] = Load("rax", "rax", "routine")
        /\ Row(f, f.ip, "routine", A, X(P), I)
        /\ Row(f, f.ip + 1, "routine", A, X(Routine(f.stub)), I)
    BY <1>c, <1>r, <1>15
  <2>2. At(f, ask_ctx[t], mmk_ctx_[t], "routine", A, X(P), I)
    BY <2>1, RowHolds
  <2>3. Knows(X(P), "rax", P) /\ Reads(P, "routine", Routine(f.stub))
    BY <1>v, <1>w DEF Knows, Reads
  <2>4. Writes("rax", Routine(f.stub), A, X(P), A, X(Routine(f.stub)))
    BY <1>b DEF Writes
  <2>5. Reaches(t, f, f.ip + 1, "routine", A, X(Routine(f.stub)), I)
    BY ONLY <1>g, <2>1, <2>2, <2>3, <2>4, LoadGoes
  <2> QED BY <2>1, <2>5, RowReached
<1>16. CASE f.ip = 16
  <2>1. /\ abi[arch].code[f.ip] = Jump("rax")
        /\ Row(f, f.ip, "routine", A, X(Routine(f.stub)), I)
    BY <1>c, <1>r, <1>16
  <2>2. At(f, ask_ctx[t], mmk_ctx_[t], "routine", A, X(Routine(f.stub)), I)
    BY <2>1, RowHolds
  <2>3. Knows(X(Routine(f.stub)), "rax", Routine(f.stub))
    BY DEF Knows
  <2>4. Enters(t, f)
    BY <1>j, <2>1, <2>2, <2>3, JumpGoes
  <2> QED BY <2>4 DEF Advances
<1>17. CASE f.ip = 17
  <2>1. /\ abi[arch].code[f.ip] = Pop(<<"rax">>)
        /\ Row(f, f.ip, "answer", {}, {}, L1)
        /\ Row(f, f.ip + 1, "answer", {}, X(P), I)
    BY <1>c, <1>r, <1>17
  <2>2. At(f, ask_ctx[t], mmk_ctx_[t], "answer", {}, {}, L1)
    BY <2>1, RowHolds
  <2>3. Writes("rax", P, {}, {}, {}, X(P))
    BY <1>b DEF Writes
  <2>4. Reaches(t, f, f.ip + 1, "answer", {}, X(P), I)
    BY <1>b, <2>1, <2>2, <1>s, <1>v, <2>3, PopOneGoes
  <2> QED BY <2>1, <2>4, RowReached
<1>18. CASE f.ip = 18
  <2>1. /\ abi[arch].code[f.ip] = Load("rax", "rax", "ctx")
        /\ Row(f, f.ip, "answer", {}, X(P), I)
        /\ Row(f, f.ip + 1, "answer", {}, X(S), I)
    BY <1>c, <1>r, <1>18
  <2>2. At(f, ask_ctx[t], mmk_ctx_[t], "answer", {}, X(P), I)
    BY <2>1, RowHolds
  <2>3. Knows(X(P), "rax", P) /\ Reads(P, "ctx", S)
    BY <1>v, <1>w DEF Knows, Reads
  <2>4. Writes("rax", S, {}, X(P), {}, X(S))
    BY <1>b DEF Writes
  <2>5. Reaches(t, f, f.ip + 1, "answer", {}, X(S), I)
    BY ONLY <1>g, <2>1, <2>2, <2>3, <2>4, LoadGoes
  <2> QED BY <2>1, <2>5, RowReached
<1>19. CASE f.ip = 19 /\ arch = "win_gas"
  <2>1. /\ abi[arch].code[f.ip] = Load("rax", "rax", "ctx_get")
        /\ Row(f, f.ip, "answer", {}, X(S), I)
        /\ Row(f, f.ip + 1, "answer", {}, X(Code("ctx_get")), I)
    BY <1>c, <1>r, <1>19, <1>l
  <2>2. At(f, ask_ctx[t], mmk_ctx_[t], "answer", {}, X(S), I)
    BY <2>1, RowHolds
  <2>3. Knows(X(S), "rax", S) /\ Reads(S, "ctx_get", Code("ctx_get"))
    BY <1>v, <1>w DEF Knows, Reads
  <2>4. Writes("rax", Code("ctx_get"), {}, X(S), {}, X(Code("ctx_get")))
    BY <1>b DEF Writes
  <2>5. Reaches(t, f, f.ip + 1, "answer", {}, X(Code("ctx_get")), I)
    BY ONLY <1>g, <2>1, <2>2, <2>3, <2>4, LoadGoes
  <2> QED BY <2>1, <2>5, RowReached
<1>20. CASE f.ip = 20 /\ arch = "win_gas"
  <2>1. /\ abi[arch].code[f.ip] = Call("rax")
        /\ Row(f, f.ip, "answer", {}, X(Code("ctx_get")), I)
        /\ Row(f, f.ip + 1, "answer", {}, X(S), I)
    BY <1>c, <1>r, <1>20, <1>l
  <2>2. At(f, ask_ctx[t], mmk_ctx_[t], "answer", {}, X(Code("ctx_get")), I)
    BY <2>1, RowHolds
  <2>3. Knows(X(Code("ctx_get")), "rax", Code("ctx_get"))
    BY DEF Knows
  <2>4. Reaches(t, f, f.ip + 1, "answer", {}, X(S), I)
    BY <1>b, <2>1, <2>2, <2>3, CallGetGoes
  <2> QED BY <2>1, <2>4, RowReached
<1>21. CASE f.ip = 21 /\ arch = "win_gas"
  <2>1. /\ abi[arch].code[f.ip] = Ret
        /\ Row(f, f.ip, "answer", {}, X(S), I)
    BY <1>c, <1>r, <1>21, <1>l
  <2>2. At(f, ask_ctx[t], mmk_ctx_[t], "answer", {}, X(S), I)
    BY <2>1, RowHolds
  <2>3. Knows(X(S), abi[arch].result, S)
    BY <1>b DEF Knows
  <2>4. Leaves(t)
    BY <1>b, <2>1, <2>2, <1>s, <2>3, RetGoes
  <2> QED BY <2>4 DEF Advances
<1>22. CASE f.ip = 19 /\ arch = "win_masm"
  <2>1. /\ abi[arch].code[f.ip] = Ret
        /\ Row(f, f.ip, "answer", {}, X(S), I)
    BY <1>c, <1>r, <1>22, <1>l
  <2>2. At(f, ask_ctx[t], mmk_ctx_[t], "answer", {}, X(S), I)
    BY <2>1, RowHolds
  <2>3. Knows(X(S), abi[arch].result, S)
    BY <1>b DEF Knows
  <2>4. Leaves(t)
    BY <1>b, <2>1, <2>2, <1>s, <2>3, RetGoes
  <2> QED BY <2>4 DEF Advances
<1> QED
  <2>1. f.ip \in 1..21 /\ (arch = "win_masm" => f.ip \in 1..19)
    BY <1>n DEF Midway
  <2> QED BY <2>1, <1>1, <1>2, <1>3, <1>4, <1>5, <1>6, <1>7, <1>8, <1>9, <1>10, <1>11,
             <1>12, <1>13, <1>14, <1>15, <1>16, <1>17, <1>18, <1>19, <1>20, <1>21, <1>22

(* Every ABI's instructions do what its table says. *)
LEMMA StepAdvances ==
    ASSUME NEW t, NEW f, Busy(t, f), Step(t), StepCall(t) => HasBlock(t),
           Midway(f, ask_ctx[t], mmk_ctx_[t])
    PROVE  Advances(t, f)
<1>1. arch \in {"systemv", "win_gas", "win_masm", "aarch64", "arm", "i386"}
  BY DEF Busy, Types, abi
<1>2. CASE arch = "systemv"
  BY <1>2, SystemVGoes
<1>3. CASE arch \in {"win_gas", "win_masm"}
  BY <1>3, WinGoes
<1>4. CASE arch = "aarch64"
  <2>1. LinkAbi(AArch64Args, "x0", "x16", "x30")
    BY <1>4, LinkAbis
  <2> QED BY <2>1, LinkGoes
<1>5. CASE arch = "arm"
  <2>1. LinkAbi(ArmArgs, "r0", "ip", "lr")
    BY <1>5, LinkAbis
  <2> QED BY <2>1, LinkGoes
<1>6. CASE arch = "i386"
  BY <1>6, I386Goes
<1> QED BY <1>1, <1>2, <1>3, <1>4, <1>5, <1>6

(* A call begins at row 1. *)
LEMMA BeginsAtRow1 ==
    ASSUME Types, NEW p \in Page, page[p] \in Stub, NEW asks \in BOOLEAN, NEW a,
           a <=> asks, NEW c,
           NEW f, f = Frame(p, asks)
    PROVE  /\ f \in Call1 /\ f.ip = 1 /\ f.page = p /\ f.stub = page[p] /\ f.asks = asks
           /\ Midway(f, a, c)
<1> DEFINE w == [r \in Regs |-> InitialReg(r)]
           V == Value
           Q == Seq(Value)
           st == InitialStack
<1>1. w \in [Regs -> V] /\ st \in Q
  BY InitialIsValue
<1>2. f = [page |-> p, stub |-> page[p], ip |-> 1, regs |-> w, stack |-> st,
           asks |-> asks, routine |-> NULL, ctx |-> NULL]
  BY DEF Frame, Regs
<1>3. \A r \in Regs : w[r] = InitialReg(r)
  OBVIOUS
<1> HIDE DEF w, st, V, Q
<1>4. /\ f.ip = 1 /\ f.page = p /\ f.stub = page[p] /\ f.asks = asks
      /\ f.regs = w /\ f.stack = st
  BY <1>2
<1>5. f \in Call1
  <2>1. Call1 = [page : Page, stub : Stub, ip : Nat, regs : [Regs -> V], stack : Q,
                 asks : BOOLEAN, routine : V \union {NULL}, ctx : Stub \union {NULL}]
    BY DEF Call1, V, Q
  <2> QED BY <1>1, <1>2, <2>1
<1>6. ASSUME NEW A, A \subseteq Regs, Row(f, 1, "start", A, {}, InitialStack)
      PROVE  Midway(f, a, c)
  <2>1. Phase("start", f, a, c)
    BY <1>4 DEF Phase
  <2>2. Fits(f, A, {}, InitialStack)
    BY <1>3, <1>4, <1>6 DEF Fits, st
  <2>3. At(f, a, c, "start", A, {}, InitialStack)
    BY <2>1, <2>2 DEF At
  <2> QED BY <1>4, <1>6, <2>3 DEF Midway, Row
<1>7. Midway(f, a, c)
  <2>1. arch \in {"systemv", "win_gas", "win_masm", "aarch64", "arm", "i386"}
    BY DEF Types, abi
  <2>2. CASE arch = "systemv"
    <3>1. Table(f)[1] = <<"start", ToSet(SysVArgs), {}, InitialStack>>
      BY <2>2 DEF Table, SystemV
    <3>2. Len(abi[arch].code) = 22 /\ ToSet(SysVArgs) \subseteq Regs
      BY <2>2, SystemVIs DEF systemv
    <3> QED BY <1>6, <3>1, <3>2 DEF Row
  <2>3. CASE arch \in {"win_gas", "win_masm"}
    <3>1. Table(f)[1] = <<"start", ToSet(WinArgs), {}, InitialStack>>
      <4>1. Table(f) = Win(f)
        BY <2>3 DEF Table
      <4> QED BY <4>1 DEF Win
    <3>2. 1 \in 1..Len(abi[arch].code)
      <4>1. PICK n : n = Len(abi[arch].code)
        OBVIOUS
      <4>2. n \in {19, 21}
        BY ONLY <2>3, <4>1, WinCode
      <4>3. 1 \in 1..n
        BY ONLY <4>2
      <4> QED BY ONLY <4>1, <4>3
    <3>3. ToSet(WinArgs) \subseteq Regs
      BY <2>3, WinIs
    <3> QED BY <1>6, <3>1, <3>2, <3>3 DEF Row
  <2>4. ASSUME NEW args, NEW first, NEW ip, NEW lr, LinkAbi(args, first, ip, lr)
        PROVE  Midway(f, a, c)
    <3>1. Table(f)[1] = <<"start", ToSet(args) \union {lr}, {}, InitialStack>>
      BY <2>4 DEF LinkAbi, Link
    <3>2. /\ abi[arch].code = WithLinkRegister(args, first, ip, lr)
          /\ Kept = ToSet(args) /\ lr \in Regs
      BY <2>4 DEF LinkAbi
    <3>3. Len(abi[arch].code) = 24
      BY <3>2 DEF WithLinkRegister, Peek
    <3>4. ToSet(args) \union {lr} \subseteq Regs
      BY <2>4 DEF LinkAbi, ToSet
    <3> QED BY <1>6, <3>1, <3>3, <3>4 DEF Row
  <2>5. CASE arch = "i386"
    <3>1. Table(f)[1] = <<"start", {}, {}, InitialStack>>
      BY <2>5 DEF Table, I386
    <3>2. Len(abi[arch].code) = 18
      BY <2>5, I386Is DEF i386
    <3> QED BY <1>6, <3>1, <3>2 DEF Row
  <2> QED BY <2>1, <2>2, <2>3, <2>4, <2>5, LinkAbis
<1> QED BY <1>4, <1>5, <1>7

(* What IInv says of a thread's calls depends on the ABI and, where one is *)
(* halfway, on its page.                                                   *)
LEMMA CallsKept ==
    ASSUME arch' = arch
    PROVE  \A fs, a, c : (IsRunning(fs) => page'[Head(fs).page] = page[Head(fs).page])
                            => (Calls(fs, a, c)' <=> Calls(fs, a, c))
<1>1. \A r : InitialReg(r)' = InitialReg(r)
  BY DEF InitialReg, Passed
<1>2. \A rs : Saved(rs)' = Saved(rs)
  BY <1>1 DEF Saved
<1>3. InitialStack' = InitialStack /\ WinSaves' = WinSaves /\ Regs' = Regs
  BY DEF InitialStack, WinSaves, Regs
<1>4. \A f : SystemV(f)' = SystemV(f)
  BY <1>2, <1>3 DEF SystemV
<1>5. \A f : Win(f)' = Win(f)
  <2>1. Saved(WinSaves)' = Saved(WinSaves)
    BY ONLY <1>2, <1>3
  <2> QED BY ONLY <1>3, <2>1 DEF Win
<1>6. ASSUME NEW f, NEW args, NEW first, NEW ip, NEW lr
      PROVE  Link(f, args, first, ip, lr)' = Link(f, args, first, ip, lr)
  <2>1. Saved(args)' = Saved(args) /\ InitialStack' = InitialStack
    BY <1>2, <1>3
  <2> QED BY <2>1 DEF Link
<1>7. \A f : I386(f)' = I386(f)
  BY <1>2, <1>3 DEF I386
<1>8. \A f : Table(f)' = Table(f)
  BY <1>4, <1>5, <1>6, <1>7 DEF Table
<1>9. \A f, ok, known, st : Fits(f, ok, known, st)' <=> Fits(f, ok, known, st)
  BY <1>1, <1>3 DEF Fits
<1>10. \A f, a, c, ph, ok, known, st :
          At(f, a, c, ph, ok, known, st)' <=> At(f, a, c, ph, ok, known, st)
  BY <1>9 DEF At
<1>11. \A f, a, c : Midway(f, a, c)' <=> Midway(f, a, c)
  BY <1>8, <1>10 DEF Midway
<1>12. \A f : Arrived(f)' <=> Arrived(f)
  BY <1>1, <1>3 DEF Arrived, Kept
<1> QED BY <1>11, <1>12 DEF Calls, IsRunning

-----------------------------------------------------------------------------
(* The calls of a thread: the innermost returned from, replaced or joined  *)
(* by another.                                                             *)
Rest(ts) == ts \in Seq(Call1) /\ \A i \in DOMAIN ts : ts[i].ip = 0 /\ Arrived(ts[i])

LEMMA TailRests ==
    ASSUME NEW fs \in Seq(Call1), fs # << >>, NEW a, NEW c, Calls(fs, a, c)
    PROVE  Rest(Tail(fs))
<1>1. /\ Tail(fs) \in Seq(Call1)
      /\ \A i \in DOMAIN Tail(fs) : i + 1 \in DOMAIN fs /\ Tail(fs)[i] = fs[i + 1]
             /\ i + 1 > 1
  OBVIOUS
<1> QED BY <1>1 DEF Rest, Calls

LEMMA ClientRests ==
    ASSUME NEW fs \in Seq(Call1), ~IsRunning(fs), NEW a, NEW c, Calls(fs, a, c)
    PROVE  Rest(fs) /\ ~a
<1>1. ~a
  BY DEF Calls
<1>2. \A i \in DOMAIN fs : fs[i].ip = 0
  <2> TAKE i \in DOMAIN fs
  <2>1. i > 1 => fs[i].ip = 0
    BY DEF Calls
  <2>2. i = 1 => fs[i] = Head(fs) /\ fs # << >>
    OBVIOUS
  <2>3. i \in Nat \ {0}
    OBVIOUS
  <2> QED BY <2>1, <2>2, <2>3 DEF IsRunning
<1> QED BY <1>1, <1>2 DEF Rest, Calls

LEMMA RestCalls ==
    ASSUME NEW ts, Rest(ts), NEW c
    PROVE  ~IsRunning(ts) /\ Calls(ts, FALSE, c)
<1>1. ~IsRunning(ts)
  <2>1. ts # << >> => 1 \in DOMAIN ts /\ Head(ts) = ts[1]
    BY DEF Rest
  <2> QED BY <2>1 DEF Rest, IsRunning
<1> QED BY <1>1 DEF Rest, Calls

LEMMA OntoRest ==
    ASSUME NEW ts, Rest(ts), NEW g \in Call1, NEW a, NEW c,
           IF g.ip = 0 THEN Arrived(g) /\ ~a
           ELSE page[g.page] = g.stub /\ Midway(g, a, c)
    PROVE  /\ Calls(<<g>> \o ts, a, c) /\ Head(<<g>> \o ts) = g
           /\ <<g>> \o ts \in Seq(Call1)
<1> DEFINE fs == <<g>> \o ts
<1>1. /\ ts \in Seq(Call1) /\ fs \in Seq(Call1) /\ Head(fs) = g /\ fs # << >>
      /\ \A i \in DOMAIN fs : /\ i = 1 => fs[i] = g
                            /\ i > 1 => i - 1 \in DOMAIN ts /\ fs[i] = ts[i - 1]
                            /\ i \in Nat /\ (i = 1 \/ i > 1)
  BY DEF Rest
<1> HIDE DEF fs
<1>2. \A i \in DOMAIN fs : i > 1 => fs[i].ip = 0 /\ Arrived(fs[i])
  BY <1>1 DEF Rest
<1>3. \A i \in DOMAIN fs : fs[i].ip = 0 => Arrived(fs[i])
  BY <1>1, <1>2
<1>4. Calls(fs, a, c)
  BY <1>1, <1>2, <1>3 DEF Calls, IsRunning
<1> QED BY <1>1, <1>4 DEF fs

(* What is true of a thread, and what a step of thread t may change. *)
Fine(u) == Calls(frames[u], ask_ctx[u], mmk_ctx_[u]) /\ Answers(answer[u])

Untouched(u) ==
    /\ frames'[u] = frames[u] /\ ask_ctx'[u] = ask_ctx[u] /\ mmk_ctx_'[u] = mmk_ctx_[u]
    /\ answer'[u] = answer[u]
    /\ IsRunning(frames[u]) => page'[Head(frames[u]).page] = page[Head(frames[u]).page]

LEMMA StaysFine ==
    ASSUME arch' = arch, NEW u, Fine(u), Untouched(u)
    PROVE  Fine(u)'
<1>1. \A fs, a, c : (IsRunning(fs) => page'[Head(fs).page] = page[Head(fs).page])
                        => (Calls(fs, a, c)' <=> Calls(fs, a, c))
  BY CallsKept
<1> QED BY <1>1 DEF Fine, Untouched

LEMMA InitIInv == Init => IInv
<1> SUFFICES ASSUME Init PROVE IInv
  OBVIOUS
<1>1. Types
  <2>1. \A t \in Thread : << >> \in Seq(Call1)
    OBVIOUS
  <2>2. arch \in DOMAIN abi
    BY ArchAssumption DEF Init
  <2>3. emulated \in BOOLEAN
    BY DEF Init
  <2> QED BY <2>1, <2>2, <2>3 DEF Types, Init
<1>2. ASSUME NEW t \in Thread
      PROVE  Calls(frames[t], ask_ctx[t], mmk_ctx_[t]) /\ Answers(answer[t])
  <2>1. frames[t] = << >> /\ ask_ctx[t] = FALSE /\ answer[t] = NULL
    BY DEF Init
  <2>2. Rest(<< >>)
    BY DEF Rest
  <2> QED BY <2>1, <2>2, RestCalls DEF Answers
<1> QED BY <1>1, <1>2 DEF IInv

(* Client code on thread t: its calls are all in their routines.           *)
LEMMA AtRest ==
    ASSUME IInv, NEW t \in Thread, AtClient(t)
    PROVE  Rest(frames[t]) /\ ~IsRunning(frames[t]) /\ ~ask_ctx[t] /\ ~fault
<1>1. frames[t] \in Seq(Call1) /\ Calls(frames[t], ask_ctx[t], mmk_ctx_[t])
  BY DEF IInv, Types
<1>2. ~IsRunning(frames[t]) /\ ~fault
  BY DEF AtClient, IsRunning
<1> QED BY <1>1, <1>2, ClientRests

(* A thread's running call has a mapped page. *)
LEMMA RunningPage ==
    ASSUME IInv, NEW u \in Thread, IsRunning(frames[u])
    PROVE  page[Head(frames[u]).page] \in Stub
<1>1. /\ frames[u] \in Seq(Call1) /\ frames[u] # << >>
      /\ page[Head(frames[u]).page] = Head(frames[u]).stub
  BY DEF IInv, Types, Calls, IsRunning
<1>2. Head(frames[u]) \in Call1
  BY <1>1
<1> QED BY <1>1, <1>2 DEF Call1

LEMMA Call1Kept ==
    ASSUME arch' = arch
    PROVE  Call1' = Call1
<1>1. Regs' = Regs
  BY DEF Regs
<1>2. Value' = Value
  BY <1>1 DEF Value
<1> QED BY <1>1, <1>2 DEF Call1

LEMMA FaultKeeps ==
    ASSUME IInv, Faults
    PROVE  IInv'
<1>1. Types'
  BY Call1Kept DEF IInv, Types, Faults
<1>2. \A u \in Thread : Fine(u) /\ Untouched(u)
  BY DEF IInv, Fine, Untouched, Faults
<1>3. \A u \in Thread : Fine(u)'
  BY <1>2, StaysFine DEF Faults
<1> QED BY <1>1, <1>3 DEF IInv, Fine

LEMMA CreateKeeps ==
    ASSUME IInv, NEW t \in Thread, NEW s \in Stub, NEW p \in Page,
           create_trampoline(t, s, p)
    PROVE  IInv'
<1>0. Types
  BY DEF IInv
<1>1. CASE emulated /\ owner \notin {NULL, t}
  BY <1>1, FaultKeeps DEF create_trampoline, Faults
<1>2. CASE ~(emulated /\ owner \notin {NULL, t})
  <2>1. /\ page[p] = NULL /\ owner' = t /\ page' = [page EXCEPT ![p] = s]
        /\ ask_ctx' = [ask_ctx EXCEPT ![t] = FALSE]
        /\ mmk_ctx_' = [mmk_ctx_ EXCEPT ![t] = NULL]
        /\ UNCHANGED <<arch, emulated, frames, answer, fault>>
    BY <1>2 DEF create_trampoline
  <2>2. Types'
    BY <1>0, <2>1, Call1Kept DEF Types
  <2>3. ASSUME NEW u \in Thread PROVE Fine(u)'
    <3>1. Fine(u)
      BY DEF IInv, Fine
    <3>2. CASE u = t
      <4>1. Rest(frames[t]) /\ ~IsRunning(frames[t])
        BY AtRest DEF create_trampoline
      <4>2. Calls(frames[t], FALSE, mmk_ctx_'[t])
        BY <4>1, RestCalls
      <4>3. ask_ctx'[t] = FALSE
        BY <1>0, <2>1 DEF Types
      <4>4. \A fs, a, c : (IsRunning(fs) => page'[Head(fs).page] = page[Head(fs).page])
                            => (Calls(fs, a, c)' <=> Calls(fs, a, c))
        BY <2>1, CallsKept
      <4> QED BY <2>1, <3>1, <3>2, <4>1, <4>2, <4>3, <4>4 DEF Fine
    <3>3. CASE u # t
      <4>1. IsRunning(frames[u]) => Head(frames[u]).page # p
        BY <2>1, RunningPage, NullAssumption
      <4>2. Untouched(u)
        BY <1>0, <2>1, <3>3, <4>1 DEF Untouched, Types
      <4> QED BY <2>1, <3>1, <4>2, StaysFine
    <3> QED BY <3>2, <3>3
  <2> QED BY <2>2, <2>3 DEF IInv, Fine
<1> QED BY <1>1, <1>2

LEMMA DestroyKeeps ==
    ASSUME IInv, NEW t \in Thread, NEW p \in Page, destroy_trampoline(t, p)
    PROVE  IInv'
<1>0. Types
  BY DEF IInv
<1>1. /\ page' = [page EXCEPT ![p] = NULL] /\ Quiescent(p)
      /\ UNCHANGED <<arch, emulated, owner, frames, ask_ctx, mmk_ctx_, answer, fault>>
  BY DEF destroy_trampoline
<1>2. Types'
  BY <1>0, <1>1, Call1Kept DEF Types
<1>3. ASSUME NEW u \in Thread PROVE Fine(u)'
  <2>1. IsRunning(frames[u]) => Head(frames[u]).page # p
    <3>1. SUFFICES ASSUME IsRunning(frames[u]) PROVE Head(frames[u]).page # p
      OBVIOUS
    <3>2. frames[u] \in Seq(Call1) /\ frames[u] # << >> /\ Head(frames[u]).ip # 0
      BY <1>0, <3>1 DEF Types, IsRunning
    <3>3. 1 \in DOMAIN frames[u] /\ Head(frames[u]) = frames[u][1]
      BY <3>2
    <3> QED BY <1>1, <3>2, <3>3 DEF Quiescent
  <2>2. Fine(u) /\ Untouched(u)
    BY <1>0, <1>1, <2>1 DEF IInv, Fine, Untouched, Types
  <2> QED BY <1>1, <2>2, StaysFine
<1> QED BY <1>2, <1>3 DEF IInv, Fine

(* A call of the mocked function, mmk_ask_ctx's or another's. *)
LEMMA EnterKeeps ==
    ASSUME IInv, NEW t \in Thread, NEW p \in Page, NEW asks \in BOOLEAN,
           Enter(t, p, asks),
           fault' = fault, ask_ctx' = [ask_ctx EXCEPT ![t] = asks]
    PROVE  IInv'
<1>0. Types
  BY DEF IInv
<1> DEFINE f == Frame(p, asks)
<1>1. /\ page[p] \in Stub /\ frames' = [frames EXCEPT ![t] = <<f>> \o frames[t]]
      /\ answer' = [answer EXCEPT ![t] = NULL]
      /\ UNCHANGED <<arch, emulated, owner, page, mmk_ctx_>>
  BY <1>0 DEF Enter, Types
<1>2. ask_ctx'[t] = asks
  BY <1>0 DEF Types
<1>3. f \in Call1 /\ f.ip = 1 /\ page[f.page] = f.stub /\ Midway(f, asks, mmk_ctx_[t])
  BY <1>0, <1>1, BeginsAtRow1
<1> HIDE DEF f
<1>4. Rest(frames[t])
  BY AtRest DEF Enter
<1>5. Calls(<<f>> \o frames[t], asks, mmk_ctx_[t]) /\ <<f>> \o frames[t] \in Seq(Call1)
  BY <1>3, <1>4, OntoRest
<1>6. frames'[t] = <<f>> \o frames[t] /\ mmk_ctx_'[t] = mmk_ctx_[t] /\ page' = page
  BY <1>0, <1>1 DEF Types
<1>7. Types'
  BY <1>0, <1>1, <1>5, Call1Kept DEF Types
<1>8. ASSUME NEW u \in Thread PROVE Fine(u)'
  <2>1. CASE u = t
    <3>1. Answers(answer[t])'
      <4>1. answer'[t] = NULL \/ answer'[t] = answer[t]
        BY <1>1
      <4> QED BY <4>1 DEF Answers, IInv
    <3>2. \A fs, a, c : (IsRunning(fs) => page'[Head(fs).page] = page[Head(fs).page])
                          => (Calls(fs, a, c)' <=> Calls(fs, a, c))
      BY <1>1, CallsKept
    <3>3. Calls(frames[t], ask_ctx[t], mmk_ctx_[t])'
      BY <1>2, <1>5, <1>6, <3>2
    <3> QED BY <2>1, <3>1, <3>3 DEF Fine
  <2>2. CASE u # t
    <3>1. Fine(u) /\ Untouched(u)
      BY <1>0, <1>1, <2>2 DEF IInv, Fine, Untouched, Types
    <3> QED BY <1>1, <3>1, StaysFine
  <2> QED BY <2>1, <2>2
<1> QED BY <1>7, <1>8 DEF IInv, Fine

LEMMA ReturnKeeps ==
    ASSUME IInv, NEW t \in Thread, frames[t] # << >>, ~ask_ctx[t],
           frames' = [frames EXCEPT ![t] = Tail(@)],
           UNCHANGED <<arch, emulated, owner, page, ask_ctx, mmk_ctx_, fault>>,
           NEW x, answer' = [answer EXCEPT ![t] = x], Answers(x)
    PROVE  IInv'
<1>0. Types
  BY DEF IInv
<1>1. frames[t] \in Seq(Call1) /\ Calls(frames[t], ask_ctx[t], mmk_ctx_[t])
  BY <1>0 DEF IInv, Types
<1>2. Rest(Tail(frames[t]))
  BY <1>1, TailRests
<1>3. frames'[t] = Tail(frames[t]) /\ ask_ctx'[t] = FALSE /\ mmk_ctx_'[t] = mmk_ctx_[t]
  BY <1>0 DEF Types
<1>4. Types'
  BY <1>0, <1>2, Call1Kept DEF Types, Rest
<1>5. ASSUME NEW u \in Thread PROVE Fine(u)'
  <2>1. CASE u = t
    <3>1. Answers(answer[t])'
      <4>1. answer'[t] = x \/ answer'[t] = answer[t]
        OBVIOUS
      <4> QED BY <4>1 DEF Answers, IInv
    <3>2. \A fs, a, c : (IsRunning(fs) => page'[Head(fs).page] = page[Head(fs).page])
                          => (Calls(fs, a, c)' <=> Calls(fs, a, c))
      BY CallsKept
    <3>3. Calls(Tail(frames[t]), FALSE, mmk_ctx_[t])
      BY <1>2, RestCalls
    <3>4. Calls(frames[t], ask_ctx[t], mmk_ctx_[t])'
      BY <1>3, <3>2, <3>3
    <3> QED BY <2>1, <3>1, <3>4 DEF Fine
  <2>2. CASE u # t
    <3>1. Fine(u) /\ Untouched(u)
      BY <1>0, <2>2 DEF IInv, Fine, Untouched, Types
    <3> QED BY <3>1, StaysFine
  <2> QED BY <2>1, <2>2
<1> QED BY <1>4, <1>5 DEF IInv, Fine

LEMMA GoesKeeps ==
    ASSUME IInv, NEW t \in Thread, NEW f, Busy(t, f), NEW g, Goes(t, f, g),
           IF g.ip = 0 THEN Arrived(g) /\ ~ask_ctx'[t]
           ELSE Midway(g, ask_ctx'[t], mmk_ctx_'[t])
    PROVE  IInv'
<1>0. Types
  BY DEF IInv
<1>1. /\ frames[t] \in Seq(Call1) /\ frames[t] # << >> /\ page[g.page] = g.stub
      /\ g \in Call1
      /\ Calls(frames[t], ask_ctx[t], mmk_ctx_[t])
  BY <1>0 DEF IInv, Types, Busy, Goes
<1>2. Rest(Tail(frames[t]))
  BY <1>1, TailRests
<1> DEFINE fs == <<g>> \o Tail(frames[t])
<1>3. PICK a, c : a = ask_ctx'[t] /\ c = mmk_ctx_'[t]
  OBVIOUS
<1>4. Calls(fs, a, c) /\ fs \in Seq(Call1)
  BY <1>1, <1>2, <1>3, OntoRest
<1>5. /\ frames' = [frames EXCEPT ![t] = fs] /\ frames'[t] = fs
      /\ ask_ctx' = [ask_ctx EXCEPT ![t] = a] /\ a \in BOOLEAN
      /\ mmk_ctx_' = [mmk_ctx_ EXCEPT ![t] = c] /\ c \in Stub \union {NULL}
      /\ UNCHANGED <<arch, emulated, owner, page, answer, fault>>
  BY <1>0, <1>3 DEF Types, Goes
<1> HIDE DEF fs
<1>6. Types'
  BY <1>0, <1>4, <1>5, Call1Kept DEF Types
<1>7. ASSUME NEW u \in Thread PROVE Fine(u)'
  <2>1. CASE u = t
    <3>1. \A h, x, y : (IsRunning(h) => page'[Head(h).page] = page[Head(h).page])
                         => (Calls(h, x, y)' <=> Calls(h, x, y))
      BY <1>5, CallsKept
    <3>2. Calls(frames[t], ask_ctx[t], mmk_ctx_[t])'
      BY <1>3, <1>4, <1>5, <3>1
    <3>3. Answers(answer[t])'
      BY <1>5 DEF Answers, IInv
    <3> QED BY <2>1, <3>2, <3>3 DEF Fine
  <2>2. CASE u # t
    <3>1. Fine(u) /\ Untouched(u)
      BY <1>0, <1>5, <2>2 DEF IInv, Fine, Untouched, Types
    <3> QED BY <1>5, <3>1, StaysFine
  <2> QED BY <2>1, <2>2
<1> QED BY <1>6, <1>7 DEF IInv, Fine

(* A step of the code: with a fault only where the emulation has none of   *)
(* the thread's variables.                                                 *)
LEMMA StepIs ==
    ASSUME IInv, NEW t \in Thread, Step(t)
    PROVE  \E f : Busy(t, f) /\ ((Faults /\ ~HasBlock(t)) \/ Advances(t, f))
<1> DEFINE f == Head(frames[t])
<1>1. Running(t)
  BY DEF Step, StepHere, StepPush, StepPop, StepMov, StepLoad, StepCall, StepBranch,
         StepJump, StepRet, Is
<1>2. IsRunning(frames[t]) /\ Calls(frames[t], ask_ctx[t], mmk_ctx_[t]) /\ Types
  BY <1>1 DEF IInv, IsRunning, Running
<1>3. Busy(t, f) /\ Midway(f, ask_ctx[t], mmk_ctx_[t])
  BY <1>1, <1>2 DEF Busy, Running, Calls
<1>4. CASE StepCall(t) /\ ~HasBlock(t)
  <2>1. Faults
    BY <1>4 DEF StepCall
  <2> QED BY <1>3, <1>4, <2>1
<1>5. CASE StepCall(t) => HasBlock(t)
  <2>1. Advances(t, f)
    BY <1>3, <1>5, StepAdvances
  <2> QED BY <1>3, <2>1
<1> QED BY <1>4, <1>5

LEMMA StepKeeps ==
    ASSUME IInv, NEW t \in Thread, Step(t)
    PROVE  IInv'
<1>1. PICK f : Busy(t, f) /\ ((Faults /\ ~HasBlock(t)) \/ Advances(t, f))
  BY StepIs
<1>2. CASE Faults
  BY <1>2, FaultKeeps
<1>3. CASE Advances(t, f)
  <2>1. ASSUME NEW g, Goes(t, f, g), g.ip # 0, Midway(g, ask_ctx'[t], mmk_ctx_'[t])
        PROVE  IInv'
    BY <1>1, <2>1, GoesKeeps
  <2>2. ASSUME Enters(t, f) PROVE IInv'
    <3>1. PICK g : Goes(t, f, g) /\ g.ip = 0 /\ Arrived(g) /\ ~ask_ctx'[t]
      BY <2>2 DEF Enters
    <3> QED BY <1>1, <3>1, GoesKeeps
  <2>3. ASSUME Leaves(t) PROVE IInv'
    <3>1. PICK x : /\ frames' = [frames EXCEPT ![t] = Tail(@)]
                   /\ answer' = [answer EXCEPT ![t] = x] /\ Answers(x) /\ ~ask_ctx[t]
                   /\ UNCHANGED <<arch, emulated, owner, page, ask_ctx, mmk_ctx_,
                                  fault>>
      BY <2>3 DEF Leaves
    <3>2. frames[t] # << >>
      BY <1>1 DEF Busy
    <3> QED BY <3>1, <3>2, ReturnKeeps
  <2> QED BY <1>3, <2>1, <2>2, <2>3 DEF Advances
<1> QED BY <1>1, <1>2, <1>3

LEMMA ActKeeps ==
    ASSUME IInv, NEW t \in Thread, Act(t)
    PROVE  IInv'
<1>0. Types
  BY DEF IInv
<1>1. CASE Step(t)
  BY <1>1, StepKeeps
<1>2. CASE RoutineReturns(t)
  <2>1. ~ask_ctx[t]
    BY <1>2, AtRest DEF RoutineReturns
  <2>2. /\ frames[t] # << >> /\ frames' = [frames EXCEPT ![t] = Tail(@)]
        /\ UNCHANGED <<arch, emulated, owner, page, ask_ctx, mmk_ctx_, answer, fault>>
    BY <1>2 DEF RoutineReturns
  <2>3. Types'
    <3>1. frames[t] \in Seq(Call1) /\ Tail(frames[t]) \in Seq(Call1)
      BY <1>0, <2>2 DEF Types
    <3> QED BY <1>0, <2>2, <3>1, Call1Kept DEF Types
  <2>4. ASSUME NEW u \in Thread PROVE Fine(u)'
    <3>1. CASE u = t
      <4>1. Rest(Tail(frames[t]))
        BY <1>0, <2>2, TailRests DEF IInv, Types
      <4>2. frames'[t] = Tail(frames[t]) /\ ask_ctx'[t] = FALSE
        BY <1>0, <2>1, <2>2 DEF Types
      <4>3. Calls(Tail(frames[t]), FALSE, mmk_ctx_[t])
        BY <4>1, RestCalls
      <4>4. \A fs, a, c : (IsRunning(fs) => page'[Head(fs).page] = page[Head(fs).page])
                            => (Calls(fs, a, c)' <=> Calls(fs, a, c))
        BY <2>2, CallsKept
      <4>5. Calls(frames[t], ask_ctx[t], mmk_ctx_[t])'
        BY <2>2, <4>2, <4>3, <4>4
      <4> QED BY <2>2, <3>1, <4>5 DEF Fine, IInv, Answers
    <3>2. CASE u # t
      <4>1. Fine(u) /\ Untouched(u)
        BY <1>0, <2>2, <3>2 DEF IInv, Fine, Untouched, Types
      <4> QED BY <2>2, <4>1, StaysFine
    <3> QED BY <3>1, <3>2
  <2> QED BY <2>3, <2>4 DEF IInv, Fine
<1>3. ASSUME NEW p \in Page, CallMocked(t, p) PROVE IInv'
  <2>1. ~ask_ctx[t]
    BY <1>3, AtRest DEF CallMocked, Enter
  <2>2. Enter(t, p, FALSE) /\ fault' = fault /\ ask_ctx' = [ask_ctx EXCEPT ![t] = FALSE]
    BY <1>0, <1>3, <2>1 DEF CallMocked, Types
  <2> QED BY <2>2, EnterKeeps
<1>4. ASSUME NEW p \in Page, mmk_ask_ctx(t, p) PROVE IInv'
  <2>1. CASE HasBlock(t)
    <3>1. Enter(t, p, TRUE) /\ fault' = fault /\ ask_ctx' = [ask_ctx EXCEPT ![t] = TRUE]
      BY <1>4, <2>1 DEF mmk_ask_ctx
    <3> QED BY <3>1, EnterKeeps
  <2>2. CASE ~HasBlock(t)
    BY <1>4, <2>2, FaultKeeps DEF mmk_ask_ctx, Faults
  <2> QED BY <2>1, <2>2
<1>5. ASSUME NEW p \in Page, destroy_trampoline(t, p) PROVE IInv'
  BY <1>5, DestroyKeeps
<1>6. ASSUME NEW p \in Page, NEW s \in Stub, create_trampoline(t, s, p) PROVE IInv'
  BY <1>6, CreateKeeps
<1> QED BY <1>1, <1>2, <1>3, <1>4, <1>5, <1>6 DEF Act

LEMMA StutterKeeps == IInv /\ UNCHANGED vars => IInv'
<1> SUFFICES ASSUME IInv, UNCHANGED vars PROVE IInv'
  OBVIOUS
<1>1. Types'
  BY Call1Kept DEF IInv, Types, vars
<1>2. \A u \in Thread : Fine(u) /\ Untouched(u)
  BY DEF IInv, Fine, Untouched, vars
<1>3. \A u \in Thread : Fine(u)'
  BY <1>2, StaysFine DEF vars
<1> QED BY <1>1, <1>3 DEF IInv, Fine

-----------------------------------------------------------------------------
THEOREM IInvHolds == Spec => []IInv
<1>1. Init => IInv
  BY InitIInv
<1>2. IInv /\ [Next]_vars => IInv'
  BY ActKeeps, StutterKeeps DEF Next
<1> QED BY <1>1, <1>2, PTL DEF Spec

(* A running call is the innermost, at an instruction of its code. *)
LEMMA RunningIs ==
    ASSUME IInv, NEW t \in Thread, NEW i \in DOMAIN frames[t], frames[t][i].ip # 0
    PROVE  /\ i = 1 /\ IsRunning(frames[t]) /\ frames[t][1] = Head(frames[t])
           /\ page[Head(frames[t]).page] = Head(frames[t]).stub
           /\ Midway(Head(frames[t]), ask_ctx[t], mmk_ctx_[t])
<1>1. frames[t] \in Seq(Call1) /\ Calls(frames[t], ask_ctx[t], mmk_ctx_[t])
  BY DEF IInv, Types
<1>2. i = 1
  BY <1>1 DEF Calls
<1>3. frames[t] # << >> /\ frames[t][1] = Head(frames[t])
  BY <1>1
<1>4. IsRunning(frames[t])
  BY <1>2, <1>3 DEF IsRunning
<1> QED BY <1>1, <1>2, <1>3, <1>4 DEF Calls

LEMMA InRoutineIs ==
    ASSUME IInv, NEW t \in Thread, NEW i \in DOMAIN frames[t], InRoutine(frames[t][i])
    PROVE  Arrived(frames[t][i])
BY DEF IInv, Calls, InRoutine

(* The code of every ABI is finite. *)
LEMMA CodeHasEnd == ASSUME Types PROVE Len(abi[arch].code) \in Nat
<1>1. arch \in {"systemv", "win_gas", "win_masm", "aarch64", "arm", "i386"}
  BY DEF Types, abi
<1>2. CASE arch = "systemv"
  <2>1. Len(abi[arch].code) = 22
    BY <1>2, SystemVIs DEF systemv
  <2> QED BY <2>1
<1>3. CASE arch \in {"win_gas", "win_masm"}
  <2>1. Len(abi[arch].code) \in {19, 21}
    BY ONLY <1>3, WinCode
  <2> QED BY <2>1
<1>4. ASSUME NEW args, NEW first, NEW ip, NEW lr, LinkAbi(args, first, ip, lr)
      PROVE  Len(abi[arch].code) \in Nat
  <2>1. abi[arch].code = WithLinkRegister(args, first, ip, lr)
    BY <1>4 DEF LinkAbi
  <2>2. Len(abi[arch].code) = 24
    BY <2>1 DEF WithLinkRegister, Peek
  <2> QED BY <2>2
<1>5. CASE arch = "i386"
  <2>1. Len(abi[arch].code) = 18
    BY <1>5, I386Is DEF i386
  <2> QED BY <2>1
<1> QED BY <1>1, <1>2, <1>3, <1>4, <1>5, LinkAbis

(* A frame is where its code is: the code of no ABI runs on behind its     *)
(* last instruction.                                                       *)
THEOREM TypeCorrect == Spec => []TypeOK
<1>1. IInv => TypeOK
  <2> SUFFICES ASSUME IInv PROVE TypeOK
    OBVIOUS
  <2>1. Types
    BY DEF IInv
  <2>2. ASSUME NEW t \in Thread, NEW i \in DOMAIN frames[t]
        PROVE  /\ frames[t][i].ip \in 0..Len(abi[arch].code)
               /\ frames[t][i].stub \in Stub
               /\ i > 1 => InRoutine(frames[t][i])
    <3>1. frames[t][i] \in Call1 /\ Len(abi[arch].code) \in Nat
      BY <2>1, CodeHasEnd DEF Types
    <3>2. CASE frames[t][i].ip = 0
      BY <3>1, <3>2 DEF Call1, InRoutine
    <3>3. CASE frames[t][i].ip # 0
      <4>1. i = 1 /\ frames[t][i].ip \in 1..Len(abi[arch].code)
        BY <3>3, RunningIs DEF Midway
      <4>2. frames[t][i].ip \in 0..Len(abi[arch].code)
        BY <3>1, <4>1
      <4> QED BY <3>1, <4>1, <4>2 DEF Call1
    <3> QED BY <3>2, <3>3
  <2> QED BY <2>1, <2>2 DEF TypeOK, Types
<1> QED BY <1>1, IInvHolds, PTL

(* On the two ARM ABIs mocked functions take no argument in a register of  *)
(* floats and return nothing large.                                        *)
IntegersOnArm == Floating \cap {"aarch64", "arm"} = {}

(* The routine finds every argument, the stack and the return address as   *)
(* the caller left them: what src/asm saves around the calls it makes is   *)
(* enough, and comes back where it was.  On the ARM ABIs the code saves    *)
(* the integer registers only, and there the premise is needed.            *)
THEOREM ArgumentsArrive == IntegersOnArm => (Spec => []ArgsReachRoutine)
<1>1. ASSUME IntegersOnArm, arch \in DOMAIN abi PROVE Passed \subseteq Kept
  <2>1. CASE arch \in {"aarch64", "arm"}
    <3>1. arch \notin Floating
      BY <1>1, <2>1 DEF IntegersOnArm
    <3>2. Passed = abi[arch].ints
      BY <3>1 DEF Passed
    <3>3. arch = "aarch64" => abi[arch].ints = ToSet(AArch64Args)
      BY DEF abi, ABI
    <3>4. arch = "arm" => abi[arch].ints = ToSet(ArmArgs)
      BY DEF abi, ABI
    <3> QED BY <2>1, <3>2, <3>3, <3>4 DEF Kept
  <2>2. CASE arch \notin {"aarch64", "arm"}
    BY <2>2 DEF Passed, Kept
  <2> QED BY <2>1, <2>2
<1>2. IntegersOnArm /\ IInv => ArgsReachRoutine
  <2> SUFFICES ASSUME IntegersOnArm, IInv PROVE ArgsReachRoutine
    OBVIOUS
  <2>1. Passed \subseteq Kept
    BY <1>1 DEF IInv, Types
  <2> QED BY <2>1, InRoutineIs DEF ArgsReachRoutine, Arrived
<1>3. CASE IntegersOnArm
  <2>1. IInv => ArgsReachRoutine
    BY <1>2, <1>3
  <2> QED BY <2>1, IInvHolds, PTL
<1> QED BY <1>3

(* The routine is that of the stub that was called and starts with that    *)
(* stub as mmk_ctx, though threads interleave and calls of mocks nest, and *)
(* no question of mmk_ask_ctx ever reaches it.                             *)
THEOREM StubArrives == Spec => []RoutineHasItsStub
<1>1. IInv => RoutineHasItsStub
  BY InRoutineIs DEF RoutineHasItsStub, Arrived
<1> QED BY <1>1, IInvHolds, PTL

(* mmk_ask_ctx alone is answered, with the stub it asked for, and no       *)
(* question outlives its call (stub.c:119-130).                            *)
THEOREM QuestionsAnswered == Spec => []AskAnswers
<1>1. IInv => AskAnswers
  <2> SUFFICES ASSUME IInv PROVE AskAnswers
    OBVIOUS
  <2>1. ASSUME NEW t \in Thread, ask_ctx[t]
        PROVE  frames[t] # << >> /\ Head(frames[t]).asks
    <3>1. Calls(frames[t], ask_ctx[t], mmk_ctx_[t])
      BY DEF IInv
    <3>2. IsRunning(frames[t]) /\ Midway(Head(frames[t]), ask_ctx[t], mmk_ctx_[t])
      BY <2>1, <3>1 DEF Calls
    <3> QED BY <2>1, <3>2 DEF IsRunning, Midway, At, Phase
  <2> QED BY <2>1 DEF AskAnswers, IInv, Answers
<1> QED BY <1>1, IInvHolds, PTL

-----------------------------------------------------------------------------
(* Before the first stub nothing is mapped and no call is made. *)
LEMMA ActOwned ==
    ASSUME IInv, Owned, NEW t \in Thread, emulated => owner \in {NULL, t}, Act(t)
    PROVE  Owned'
<1>0. Types
  BY DEF IInv
<1>1. CASE Step(t)
  <2>1. PICK f : Busy(t, f) /\ ((Faults /\ ~HasBlock(t)) \/ Advances(t, f))
    BY <1>1, StepIs
  <2>2. owner # NULL
    BY <2>1 DEF Busy, Owned
  <2>3. HasBlock(t)
    BY <2>2 DEF HasBlock
  <2>4. Advances(t, f)
    BY <2>1, <2>3
  <2>5. fault' = fault /\ owner' = owner
    BY <2>4 DEF Advances, Enters, Leaves, Goes
  <2> QED BY <2>2, <2>5 DEF Owned
<1>2. CASE RoutineReturns(t)
  BY <1>2 DEF RoutineReturns, Owned
<1>3. ASSUME NEW p \in Page, CallMocked(t, p) PROVE Owned'
  BY <1>3 DEF CallMocked, Enter, Owned
<1>4. ASSUME NEW p \in Page, mmk_ask_ctx(t, p) PROVE Owned'
  <2>1. page[p] # NULL
    BY <1>4 DEF mmk_ask_ctx, Enter
  <2>2. owner # NULL
    BY <2>1 DEF Owned
  <2>3. HasBlock(t)
    BY <2>2 DEF HasBlock
  <2>4. Enter(t, p, TRUE) /\ fault' = fault
    BY <1>4, <2>3 DEF mmk_ask_ctx
  <2> QED BY <2>2, <2>4 DEF Enter, Owned
<1>5. ASSUME NEW p \in Page, destroy_trampoline(t, p) PROVE Owned'
  BY <1>5 DEF destroy_trampoline, Owned
<1>6. ASSUME NEW p \in Page, NEW s \in Stub, create_trampoline(t, s, p) PROVE Owned'
  BY <1>6, NullAssumption DEF create_trampoline, Owned
<1> QED BY <1>1, <1>2, <1>3, <1>4, <1>5, <1>6 DEF Act

(* Nothing faults and every call that is in a trampoline is in the mapped  *)
(* page of its stub, with the emulation of threadlocal.h as long as the    *)
(* thread that made the first stub is the one that uses mocks.             *)
THEOREM NothingFaults == OwnerSpec => []NoFault
<1>1. Init => IInv /\ Owned
  BY InitIInv DEF Init, Owned
<1>2. IInv /\ Owned /\ [OwnerNext]_vars => (IInv /\ Owned)'
  <2> SUFFICES ASSUME IInv, Owned, [OwnerNext]_vars PROVE (IInv /\ Owned)'
    OBVIOUS
  <2>1. ASSUME NEW t \in Thread, emulated => owner \in {NULL, t}, Act(t)
        PROVE  (IInv /\ Owned)'
    BY <2>1, ActKeeps, ActOwned
  <2>2. CASE UNCHANGED vars
    <3>1. IInv'
      BY <2>2, StutterKeeps
    <3>2. Owned'
      BY <2>2 DEF vars, Owned
    <3> QED BY <3>1, <3>2
  <2> QED BY <2>1, <2>2 DEF OwnerNext
<1>3. IInv /\ Owned => NoFault
  BY RunningIs DEF NoFault, InRoutine, Owned
<1> QED BY <1>1, <1>2, <1>3, PTL DEF OwnerSpec
=============================================================================
