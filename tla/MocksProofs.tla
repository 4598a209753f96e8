----------------------------- MODULE MocksProofs -----------------------------
(***************************************************************************)
(* Safety of module Mocks, and that it implements module MockContract, for *)
(* any number of threads, mocks, stubs, call expressions and frames.       *)
(***************************************************************************)
EXTENDS MocksRefine, SetLemmas

Expr == {"when", "verify"}

(* The frame f of a call expression, and the matcher context d it runs in. *)
Progress(f, d) ==
    /\ d # NULL /\ d.kind = (IF f.k = "when" THEN 0 ELSE 1)
    /\ f.todo \subseteq DOMAIN f.e.kinds
    /\ f.done => f.todo = {}
    /\ d.freed => f.k = "verify" /\ f.ran > 0
    /\ f.k = "verify" /\ f.ran > 0 => d.freed
    /\ ~Misuse => f.ran = IF f.done THEN 1 ELSE 0

(* What the stack s of a thread says of its matcher context c and of its   *)
(* count n of stub bodies: a call expression is only ever on top.          *)
Local(s, c, n) ==
    /\ \A i \in DOMAIN s : i > 1 => s[i].k \in Reenter
    /\ IF s # << >> /\ s[1].k \in Expr
       THEN n = s[1].ran /\ Progress(s[1], c)
       ELSE c = NULL /\ n = 0

Types ==
    /\ mock \in [Mock -> MockCtx \union {NULL}]
    /\ matcher_ctx \in [Thread -> MatcherCtx \union {NULL}]
    /\ mmk_ctx \in [Thread -> Mock \union StubFn \union {NULL}]
    /\ mock_called \in [Thread -> Nat]
    /\ times \in [Thread -> Nat]
    /\ cur_result \in [Thread -> Result \union {NULL}]
    /\ stack \in [Thread -> Seq(Frame)]
    /\ heap \in Int
    /\ status \in {"ok", "panic", "ub"}

LocalInv == \A t \in Thread : Local(stack[t], matcher_ctx[t], mock_called[t])

(* In the middle of a mmk_when its result is the one that waits. *)
Waiting == \A t \in Thread : In(t, {"when"}) => cur_result[t] = Top(t).e.result

IInv == Types /\ LocalInv /\ Waiting

-----------------------------------------------------------------------------
(* The kinds of frames. *)
LEMMA FrameKinds ==
    ASSUME NEW f \in Frame
    PROVE  /\ f.k \in {"when", "verify", "serialize", "callback", "stub"}
           /\ f.k \in Expr => /\ f.e.mock \in Mock
                              /\ f.todo \in SUBSET Nat
                              /\ f.done \in BOOLEAN
                              /\ f.ran \in Nat
                              /\ f = [k |-> f.k, e |-> f.e, todo |-> f.todo,
                                      done |-> f.done, ran |-> f.ran]
           /\ f.k = "when" => f.e \in WhenExpr
           /\ f.k = "verify" => f.e \in VerifyExpr
           /\ f.k \in {"serialize", "callback"} => f.m \in Mock
           /\ f.k = "serialize" => f.args \in Args
           /\ f.k = "callback" => /\ f = [k |-> f.k, m |-> f.m, stale |-> f.stale,
                                          reads |-> f.reads]
                                  /\ f.reads \in BOOLEAN /\ f.stale \in BOOLEAN
           /\ f.k = "stub" => f.m \in StubFn
BY ExprAssumption DEF Frame, Expr

LEMMA CallExprFrame ==
    ASSUME NEW k \in Expr, NEW e, e \in IF k = "when" THEN WhenExpr ELSE VerifyExpr,
           NEW todo \in SUBSET Nat, NEW done \in BOOLEAN, NEW ran \in Nat
    PROVE  [k |-> k, e |-> e, todo |-> todo, done |-> done, ran |-> ran] \in Frame
BY DEF Frame, Expr

LEMMA TodoNat ==
    ASSUME NEW e \in WhenExpr \union VerifyExpr
    PROVE  DOMAIN e.kinds \in SUBSET Nat
<1>1. e.refs \in Seq(Int)
  BY ExprAssumption
<1>2. DOMAIN e.refs \in SUBSET Nat
  BY <1>1
<1> QED BY <1>2, ExprAssumption

LEMMA BeginFrame ==
    ASSUME NEW k \in Expr, NEW e, e \in IF k = "when" THEN WhenExpr ELSE VerifyExpr
    PROVE  CallExpr(k, e) \in Frame
<1>1. e \in WhenExpr \union VerifyExpr
  OBVIOUS
<1>2. DOMAIN e.kinds \in SUBSET Nat
  BY <1>1, TodoNat
<1> QED BY <1>2, CallExprFrame DEF CallExpr

(* Sequences as stacks, top first. *)
LEMMA Pushed ==
    ASSUME NEW X, NEW s \in Seq(X), NEW x \in X
    PROVE  /\ <<x>> \o s \in Seq(X)
           /\ <<x>> \o s # << >>
           /\ (<<x>> \o s)[1] = x
           /\ Len(<<x>> \o s) = Len(s) + 1
           /\ DOMAIN (<<x>> \o s) = 1..Len(s) + 1
           /\ \A i \in 2..Len(s) + 1 : (<<x>> \o s)[i] = s[i - 1]
OBVIOUS

LEMMA Popped ==
    ASSUME NEW X, NEW s \in Seq(X), s # << >>
    PROVE  /\ Tail(s) \in Seq(X)
           /\ Len(Tail(s)) = Len(s) - 1
           /\ DOMAIN Tail(s) = 1..Len(s) - 1
           /\ Tail(s) # << >> => Len(s) > 1
           /\ \A i \in 1..Len(s) - 1 : Tail(s)[i] = s[i + 1]
           /\ Head(s) = s[1] /\ s[1] \in X
OBVIOUS

LEMMA Replaced ==
    ASSUME NEW X, NEW s \in Seq(X), s # << >>, NEW x \in X
    PROVE  /\ [s EXCEPT ![1] = x] \in Seq(X)
           /\ [s EXCEPT ![1] = x] # << >>
           /\ Len([s EXCEPT ![1] = x]) = Len(s)
           /\ DOMAIN [s EXCEPT ![1] = x] = 1..Len(s)
           /\ [s EXCEPT ![1] = x][1] = x
           /\ \A i \in 2..Len(s) : [s EXCEPT ![1] = x][i] = s[i]
<1>1. 1 \in DOMAIN s /\ DOMAIN s = 1..Len(s)
  OBVIOUS
<1>2. [s EXCEPT ![1] = x] \in [1..Len(s) -> X]
  BY <1>1
<1> QED BY <1>1, <1>2

(* A matcher more. *)
LEMMA AddGrows ==
    ASSUME NEW X, NEW list \in Seq(X), NEW m \in X
    PROVE  /\ mmk_matcher_add(list, m) \in Seq(X)
           /\ Len(mmk_matcher_add(list, m)) = Len(list) + 1
<1>1. mmk_matcher_add(list, m) = PutInOrder(list, m)
  BY DEF mmk_matcher_add, PutInOrder
<1> QED BY <1>1, PutGrows

-----------------------------------------------------------------------------
(* The local invariant when the stack of a thread grows or shrinks.        *)
LEMMA InTop ==
    ASSUME Types, NEW t \in Thread, NEW K
    PROVE  /\ stack[t] \in Seq(Frame)
           /\ In(t, K) <=> stack[t] # << >> /\ stack[t][1].k \in K
           /\ In(t, K) => Top(t) = stack[t][1] /\ Top(t) \in Frame /\ 1 \in DOMAIN stack[t]
BY DEF Types, In, Top

LEMMA ClientIsPlain ==
    ASSUME IInv, NEW t \in Thread, ClientCode(t)
    PROVE  /\ stack[t] \in Seq(Frame)
           /\ stack[t] # << >> => stack[t][1].k \in Reenter
           /\ ~In(t, Expr)
           /\ matcher_ctx[t] = NULL /\ mock_called[t] = 0
BY MockAssumption, InTop DEF IInv, LocalInv, Local, ClientCode, Types, Top, Expr, In

LEMMA PushFrame ==
    ASSUME NEW s \in Seq(Frame), NEW c, NEW n, Local(s, c, n),
           s # << >> => s[1].k \in Reenter, NEW f \in Frame
    PROVE  /\ f.k \notin Expr => Local(<<f>> \o s, NULL, 0)
           /\ \A d : f.k \in Expr /\ f.ran = 0 /\ Progress(f, d) => Local(<<f>> \o s, d, 0)
<1> DEFINE r == <<f>> \o s
<1>1. /\ r # << >> /\ r[1] = f /\ DOMAIN r = 1..Len(s) + 1
      /\ \A i \in 2..Len(s) + 1 : r[i] = s[i - 1]
  BY Pushed
<1>2. \A i \in DOMAIN r : i > 1 => r[i].k \in Reenter
  <2> SUFFICES ASSUME NEW i \in 2..Len(s) + 1 PROVE s[i - 1].k \in Reenter
    BY <1>1
  <2> QED BY DEF Local
<1> HIDE DEF r
<1> QED BY <1>1, <1>2 DEF Local

LEMMA PopFrame ==
    ASSUME NEW s \in Seq(Frame), s # << >>, NEW c, NEW n, Local(s, c, n)
    PROVE  /\ Local(Tail(s), NULL, 0)
           /\ Tail(s) # << >> => Tail(s)[1].k \in Reenter
<1>1. /\ DOMAIN Tail(s) = 1..Len(s) - 1
      /\ \A i \in 1..Len(s) - 1 : Tail(s)[i] = s[i + 1]
      /\ Tail(s) # << >> => Len(s) > 1
  BY Popped
<1>2. \A i \in 1..Len(s) - 1 : Tail(s)[i].k \in Reenter
  BY <1>1 DEF Local
<1>3. Tail(s) # << >> => Tail(s)[1].k \in Reenter
  BY <1>1, <1>2
<1>4. \A k \in Reenter : k \notin Expr
  BY MockAssumption DEF Expr
<1> QED BY <1>1, <1>2, <1>3, <1>4 DEF Local

LEMMA OneThread ==
    ASSUME LocalInv, NEW t \in Thread,
           \A u \in Thread \ {t} : /\ stack'[u] = stack[u]
                                   /\ matcher_ctx'[u] = matcher_ctx[u]
                                   /\ mock_called'[u] = mock_called[u],
           Local(stack'[t], matcher_ctx'[t], mock_called'[t])
    PROVE  LocalInv'
BY DEF LocalInv

(* Nothing but the status changes when the program is lost. *)
LEMMA LostIInv ==
    ASSUME IInv, NEW how \in {"panic", "ub"}, Fails(how)
    PROVE  IInv'
BY DEF IInv, Fails, Types, LocalInv, Waiting, In, Top

-----------------------------------------------------------------------------
LEMMA NullApart ==
    /\ NULL \notin Mock /\ NULL \notin Thread /\ NULL \notin MatcherCtx
    /\ NULL \notin MockCtx
BY MockAssumption

LEMMA CreateIInv ==
    ASSUME IInv, NEW t \in Thread, NEW m \in Mock, Create(t, m)
    PROVE  IInv'
<1>1. [params |-> << >>, calls |-> NoCalls] \in MockCtx
  BY DEF MockCtx, NoCalls
<1>2. Types'
  BY <1>1 DEF Create, IInv, Types
<1> QED BY <1>2 DEF Create, IInv, LocalInv, Waiting, In, Top

(* The stack of a thread outside any call expression changes. *)
LEMMA PlainStack ==
    ASSUME IInv, NEW t \in Thread, NEW s \in Seq(Frame), Local(s, NULL, 0),
           matcher_ctx[t] = NULL, mock_called[t] = 0,
           stack' = [stack EXCEPT ![t] = s],
           UNCHANGED <<matcher_ctx, mock_called, cur_result>>
    PROVE  stack' \in [Thread -> Seq(Frame)] /\ LocalInv' /\ Waiting'
<1>1. stack' \in [Thread -> Seq(Frame)] /\ stack'[t] = s
      /\ \A u \in Thread \ {t} : stack'[u] = stack[u]
  BY DEF IInv, Types
<1>2. LocalInv'
  BY <1>1, OneThread DEF IInv
<1>3. ~(stack'[t] # << >> /\ stack'[t][1].k \in {"when"})
  BY <1>1 DEF Local, Progress, Expr
<1>4. ~In(t, {"when"})'
  BY <1>1, <1>3 DEF In, Top
<1>5. ASSUME NEW u \in Thread, In(u, {"when"})'
      PROVE  cur_result'[u] = Top(u)'.e.result
  <2>1. u # t
    BY <1>4, <1>5
  <2> QED BY <2>1, <1>1, <1>5 DEF IInv, Waiting, In, Top
<1> QED BY <1>1, <1>2, <1>5 DEF Waiting

LEMMA ClientPush ==
    ASSUME IInv, NEW t \in Thread, ClientCode(t), NEW f \in Frame, f.k \notin Expr
    PROVE  <<f>> \o stack[t] \in Seq(Frame) /\ Local(<<f>> \o stack[t], NULL, 0)
<1>1. /\ stack[t] \in Seq(Frame)
      /\ stack[t] # << >> => stack[t][1].k \in Reenter
      /\ Local(stack[t], matcher_ctx[t], mock_called[t])
  BY ClientIsPlain DEF IInv, LocalInv
<1>2. <<f>> \o stack[t] \in Seq(Frame)
  BY <1>1, Pushed
<1>3. Local(<<f>> \o stack[t], NULL, 0)
  BY <1>1, PushFrame
<1> QED BY <1>2, <1>3

LEMMA CallStubIInv ==
    ASSUME IInv, NEW t \in Thread, NEW s \in StubFn, CallStub(t, s)
    PROVE  IInv'
<1> DEFINE f == [k |-> "stub", m |-> s]
<1>1. f \in Frame /\ f.k \notin Expr
  BY DEF Frame, Expr
<1> HIDE DEF f
<1>2. ClientCode(t) /\ stack' = [stack EXCEPT ![t] = <<f>> \o stack[t]]
  BY DEF CallStub, Push, f
<1>3. stack' \in [Thread -> Seq(Frame)] /\ LocalInv' /\ Waiting'
  BY <1>1, <1>2, ClientIsPlain, ClientPush, PlainStack DEF CallStub
<1> QED BY <1>3 DEF CallStub, IInv, Types

LEMMA StubReturnsIInv ==
    ASSUME IInv, NEW t \in Thread, StubReturns(t)
    PROVE  IInv'
<1>1. /\ stack[t] \in Seq(Frame) /\ stack[t] # << >> /\ stack[t][1].k \notin Expr
      /\ Local(stack[t], matcher_ctx[t], mock_called[t])
  BY InTop DEF StubReturns, IInv, LocalInv, Expr
<1>2. stack' = [stack EXCEPT ![t] = Tail(stack[t])]
  BY DEF StubReturns, Pop
<1>3. matcher_ctx[t] = NULL /\ mock_called[t] = 0
  BY <1>1 DEF Local
<1>4. Tail(stack[t]) \in Seq(Frame) /\ Local(Tail(stack[t]), NULL, 0)
  BY <1>1, PopFrame, Popped
<1>5. stack' \in [Thread -> Seq(Frame)] /\ LocalInv' /\ Waiting'
  BY <1>2, <1>3, <1>4, PlainStack DEF StubReturns
<1> QED BY <1>5 DEF StubReturns, IInv, Types

LEMMA CallbackReturnsIInv ==
    ASSUME IInv, NEW t \in Thread, CallbackReturns(t)
    PROVE  IInv'
<1>1. /\ stack[t] \in Seq(Frame) /\ stack[t] # << >> /\ stack[t][1].k \notin Expr
      /\ Local(stack[t], matcher_ctx[t], mock_called[t])
  BY InTop DEF CallbackReturns, IInv, LocalInv, Expr
<1>2. matcher_ctx[t] = NULL /\ mock_called[t] = 0
  BY <1>1 DEF Local
<1>3. Tail(stack[t]) \in Seq(Frame) /\ Local(Tail(stack[t]), NULL, 0)
  BY <1>1, PopFrame, Popped
<1>4. CASE Fails("ub")
  BY <1>4, LostIInv
<1>5. CASE ~Fails("ub")
  <2>1. stack' = [stack EXCEPT ![t] = Tail(stack[t])]
        /\ UNCHANGED <<mock, matcher_ctx, mmk_ctx, mock_called, times, cur_result,
                       heap, status>>
    BY <1>5 DEF CallbackReturns, Pop
  <2>2. stack' \in [Thread -> Seq(Frame)] /\ LocalInv' /\ Waiting'
    BY <1>2, <1>3, <2>1, PlainStack
  <2> QED BY <2>1, <2>2 DEF IInv, Types
<1> QED BY <1>4, <1>5

(* One more call on record. *)
LEMMA RecordType ==
    ASSUME Types, NEW c \in Mock, mock[c] # NULL, NEW args \in Args
    PROVE  /\ [mock[c] EXCEPT !.calls[args] = @ + 1] \in MockCtx
           /\ [mock[c] EXCEPT !.calls[args] = @ + 1].params = mock[c].params
<1>1. mock[c] \in MockCtx
  BY DEF Types
<1>2. /\ mock[c].params \in Seq(Contract)
      /\ [mock[c].calls EXCEPT ![args] = @ + 1] \in [Args -> Nat]
  BY <1>1 DEF MockCtx
<1> DEFINE calls == [mock[c].calls EXCEPT ![args] = @ + 1]
<1>3. [mock[c] EXCEPT !.calls[args] = @ + 1] = [mock[c] EXCEPT !.calls = calls]
  OBVIOUS
<1> HIDE DEF calls
<1>4. [mock[c] EXCEPT !.calls = calls] = [params |-> mock[c].params, calls |-> calls]
  BY <1>1 DEF MockCtx
<1> QED BY <1>2, <1>3, <1>4 DEF MockCtx, calls

(* A call in normal mode; rest is the stack below the stub body.           *)
LEMMA RecordIInv ==
    ASSUME IInv, NEW t \in Thread, NEW m, NEW c, NEW args \in Args,
           NEW rest \in Seq(Frame), Local(rest, NULL, 0),
           rest # << >> => rest[1].k \in Reenter,
           matcher_ctx[t] = NULL, mock_called[t] = 0,
           RecordAndAnswer(t, m, c, args, rest)
    PROVE  IInv'
<1> DEFINE params == mock[c].params
           i == SelectInSeq(params, LAMBDA p : Governs(m, p, args))
           result == IF i = 0 THEN NULL ELSE params[i].result
           f == [k |-> "callback", m |-> c, stale |-> FALSE,
                 reads |-> result.then_return # NULL]
           s == IF i # 0 /\ result.then_call THEN <<f>> \o rest ELSE rest
<1>1. CASE c \notin Mock \/ mock[c] = NULL
  BY <1>1, LostIInv DEF RecordAndAnswer
<1>2. CASE c \in Mock /\ mock[c] # NULL
  <2>1. f \in Frame /\ f.k \notin Expr
    BY <1>2 DEF Frame, Expr
  <2>2. /\ mock' = [mock EXCEPT ![c].calls[args] = @ + 1]
        /\ mmk_ctx' = [mmk_ctx EXCEPT ![t] = c]
        /\ stack' = [stack EXCEPT ![t] = s]
        /\ UNCHANGED <<matcher_ctx, mock_called, times, cur_result, heap, status>>
    BY <1>2 DEF RecordAndAnswer
  <2> HIDE DEF i, result, f
  <2>3. s \in Seq(Frame) /\ Local(s, NULL, 0)
    BY <2>1, Pushed, PushFrame
  <2> HIDE DEF s
  <2>4. stack' \in [Thread -> Seq(Frame)] /\ LocalInv' /\ Waiting'
    BY <2>2, <2>3, PlainStack
  <2>6. [mock[c] EXCEPT !.calls[args] = @ + 1] \in MockCtx
    BY <1>2, RecordType DEF IInv
  <2>7. mock' \in [Mock -> MockCtx \union {NULL}]
    BY <1>2, <2>2, <2>6 DEF IInv, Types
  <2> QED BY <1>2, <2>2, <2>4, <2>7 DEF IInv, Types
<1> QED BY <1>1, <1>2

LEMMA CallIInv ==
    ASSUME IInv, NEW t \in Thread, NEW m \in Mock, NEW args \in Args, Call(t, m, args)
    PROVE  IInv'
<1>1. /\ ClientCode(t) /\ matcher_ctx[t] = NULL /\ mock_called[t] = 0
      /\ stack[t] \in Seq(Frame)
      /\ stack[t] # << >> => stack[t][1].k \in Reenter
  BY ClientIsPlain DEF Call
<1>2. CASE m \in Variadic
  <2> DEFINE f == [k |-> "serialize", m |-> m, args |-> args]
  <2>1. f \in Frame /\ f.k \notin Expr
    BY DEF Frame, Expr
  <2> HIDE DEF f
  <2>2. /\ stack' = [stack EXCEPT ![t] = <<f>> \o stack[t]]
        /\ mmk_ctx' = [mmk_ctx EXCEPT ![t] = m]
        /\ UNCHANGED <<mock, matcher_ctx, mock_called, times, cur_result, heap, status>>
    BY <1>1, <1>2 DEF Call, Push, f
  <2>3. stack' \in [Thread -> Seq(Frame)] /\ LocalInv' /\ Waiting'
    BY <1>1, <2>1, <2>2, ClientPush, PlainStack
  <2> QED BY <2>2, <2>3 DEF IInv, Types
<1>3. CASE m \notin Variadic
  <2>1. RecordAndAnswer(t, m, m, args, stack[t])
    BY <1>1, <1>3 DEF Call
  <2>2. Local(stack[t], NULL, 0)
    BY <1>1 DEF IInv, LocalInv
  <2> QED BY <1>1, <2>1, <2>2, RecordIInv
<1> QED BY <1>2, <1>3

LEMMA SerializedIInv ==
    ASSUME IInv, NEW t \in Thread, Serialized(t)
    PROVE  IInv'
<1>1. /\ stack[t] \in Seq(Frame) /\ stack[t] # << >> /\ stack[t][1].k = "serialize"
      /\ Top(t) = stack[t][1] /\ Top(t) \in Frame
      /\ Local(stack[t], matcher_ctx[t], mock_called[t])
  BY InTop DEF Serialized, IInv, LocalInv
<1>2. Top(t).args \in Args
  BY <1>1, FrameKinds
<1>3. matcher_ctx[t] = NULL /\ mock_called[t] = 0
  BY <1>1 DEF Local, Expr
<1>4. /\ Tail(stack[t]) \in Seq(Frame) /\ Local(Tail(stack[t]), NULL, 0)
      /\ Tail(stack[t]) # << >> => Tail(stack[t])[1].k \in Reenter
  <2>1. Tail(stack[t]) \in Seq(Frame)
    BY <1>1, Popped
  <2> QED BY <1>1, <2>1, PopFrame
<1>5. RecordAndAnswer(t, Top(t).m, mmk_ctx[t], Top(t).args, Tail(stack[t]))
  BY DEF Serialized
<1> QED BY <1>2, <1>3, <1>4, <1>5, RecordIInv

-----------------------------------------------------------------------------
LEMMA StaleFrame ==
    ASSUME NEW f \in Frame, NEW m
    PROVE  /\ Stale(f, m) \in Frame /\ Stale(f, m).k = f.k
           /\ f.k # "callback" => Stale(f, m) = f
           /\ f.k = "callback" => /\ Stale(f, m).m = f.m
                                  /\ Stale(f, m).reads = f.reads
                                  /\ Stale(f, m).stale => f.stale \/ f.m = m
<1>1. CASE f.k = "callback" /\ f.m = m
  <2>1. /\ f = [k |-> "callback", m |-> f.m, stale |-> f.stale, reads |-> f.reads]
        /\ f.m \in Mock /\ f.reads \in BOOLEAN /\ f.stale \in BOOLEAN
    BY <1>1, FrameKinds
  <2> DEFINE g == [k |-> "callback", m |-> f.m, stale |-> TRUE, reads |-> f.reads]
  <2>2. Stale(f, m) = g
    BY <1>1, <2>1 DEF Stale
  <2>3. g \in Frame /\ g.k = f.k /\ g.m = f.m /\ g.reads = f.reads
    BY <1>1, <2>1 DEF Frame
  <2> HIDE DEF g
  <2> QED BY <1>1, <2>2, <2>3
<1>2. CASE ~(f.k = "callback" /\ f.m = m)
  <2>1. Stale(f, m) = f
    BY <1>2 DEF Stale
  <2>2. f.k = "callback" => f.m # m /\ f.stale \in BOOLEAN
    BY <1>2, FrameKinds
  <2> QED BY <2>1, <2>2
<1> QED BY <1>1, <1>2

LEMMA StaleStack ==
    ASSUME NEW s \in Seq(Frame), NEW m, NEW r \in Seq(Frame), DOMAIN r = DOMAIN s,
           \A i \in DOMAIN s : r[i] = Stale(s[i], m)
    PROVE  /\ \A i \in DOMAIN s : r[i].k = s[i].k /\ (s[i].k # "callback" => r[i] = s[i])
           /\ r = << >> <=> s = << >>
           /\ \A c, n : Local(s, c, n) => Local(r, c, n)
<1>1. \A i \in DOMAIN s : s[i] \in Frame
  OBVIOUS
<1>4. \A i \in DOMAIN s : r[i].k = s[i].k /\ (s[i].k # "callback" => r[i] = s[i])
  BY <1>1, StaleFrame
<1>5. r = << >> <=> s = << >>
  OBVIOUS
<1>6. s # << >> => 1 \in DOMAIN s
  OBVIOUS
<1> QED BY <1>4, <1>5, <1>6 DEF Local, Expr

LEMMA ResetIInv ==
    ASSUME IInv, NEW t \in Thread, NEW m \in Mock, Reset(t, m), NodesOf(m) \in Int
    PROVE  IInv'
<1>1. \A u \in Thread :
          /\ stack[u] \in Seq(Frame)
          /\ stack'[u] = [i \in DOMAIN stack[u] |-> Stale(stack[u][i], m)]
  BY DEF Reset, IInv, Types
<1>2. ASSUME NEW u \in Thread
      PROVE  /\ stack'[u] \in Seq(Frame)
             /\ stack'[u] = << >> <=> stack[u] = << >>
             /\ stack[u] # << >> => stack'[u][1].k = stack[u][1].k
             /\ In(u, Expr)' => In(u, Expr) /\ stack'[u][1] = stack[u][1]
             /\ Local(stack'[u], matcher_ctx[u], mock_called[u])
  <2>1. Local(stack[u], matcher_ctx[u], mock_called[u])
    BY DEF IInv, LocalInv
  <2>0. /\ stack[u] \in Seq(Frame)
        /\ stack'[u] = [i \in DOMAIN stack[u] |-> Stale(stack[u][i], m)]
    BY <1>1
  <2>2. /\ stack'[u] \in Seq(Frame) /\ DOMAIN stack'[u] = DOMAIN stack[u]
        /\ \A i \in DOMAIN stack[u] :
               /\ stack'[u][i].k = stack[u][i].k
               /\ stack[u][i].k # "callback" => stack'[u][i] = stack[u][i]
        /\ stack'[u] = << >> <=> stack[u] = << >>
        /\ Local(stack'[u], matcher_ctx[u], mock_called[u])
    <3> DEFINE s == stack[u]
               r == stack'[u]
    <3>1. s \in Seq(Frame) /\ r \in Seq(Frame) /\ DOMAIN r = DOMAIN s
          /\ \A i \in DOMAIN s : r[i] = Stale(s[i], m)
      <4>1. \A i \in DOMAIN s : Stale(s[i], m) \in Frame
        BY <2>0, StaleFrame
      <4> QED BY <2>0, <4>1
    <3> HIDE DEF s, r
    <3>2. /\ \A i \in DOMAIN s : r[i].k = s[i].k /\ (s[i].k # "callback" => r[i] = s[i])
          /\ r = << >> <=> s = << >>
          /\ \A c, n : Local(s, c, n) => Local(r, c, n)
      BY <3>1, StaleStack
    <3> QED BY <2>1, <3>1, <3>2 DEF s, r
  <2>3. stack[u] # << >> => 1 \in DOMAIN stack[u] /\ Head(stack[u]) = stack[u][1]
    BY <2>0
  <2>4. stack'[u] # << >> => Head(stack'[u]) = stack'[u][1]
    BY <2>2
  <2> QED BY <2>2, <2>3, <2>4 DEF In, Top, Expr
<1>3. LocalInv'
  BY <1>2 DEF Reset, LocalInv
<1>4. Waiting'
  <2> SUFFICES ASSUME NEW u \in Thread, In(u, {"when"})'
               PROVE  cur_result'[u] = Top(u)'.e.result
    BY DEF Waiting
  <2>1. stack'[u] # << >> /\ Top(u)' = stack'[u][1] /\ stack'[u][1].k = "when"
    BY <1>2 DEF In, Top
  <2>2. In(u, Expr)'
    BY <2>1 DEF In, Expr
  <2>3. stack'[u][1] = stack[u][1] /\ stack[u] # << >> /\ stack[u] \in Seq(Frame)
    BY <1>1, <1>2, <2>2 DEF In
  <2>4. In(u, {"when"}) /\ Top(u) = stack[u][1]
    BY <2>1, <2>3 DEF In, Top
  <2> QED BY <2>1, <2>3, <2>4 DEF Reset, IInv, Waiting
<1>5. Types'
  <2>1. stack' \in [Thread -> Seq(Frame)]
    BY <1>2 DEF Reset
  <2> QED BY <2>1 DEF Reset, IInv, Types
<1> QED BY <1>3, <1>4, <1>5 DEF IInv

-----------------------------------------------------------------------------
(* Call expressions.  The stack s, context c and count n of thread t next. *)
LEMMA AnyStack ==
    ASSUME IInv, NEW t \in Thread, NEW s \in Seq(Frame),
           NEW c \in MatcherCtx \union {NULL}, NEW n \in Nat, Local(s, c, n),
           stack' = [stack EXCEPT ![t] = s],
           matcher_ctx' = [matcher_ctx EXCEPT ![t] = c],
           mock_called' = [mock_called EXCEPT ![t] = n],
           s # << >> /\ s[1].k = "when" => cur_result'[t] = s[1].e.result,
           \A u \in Thread \ {t} : cur_result'[u] = cur_result[u]
    PROVE  /\ stack' \in [Thread -> Seq(Frame)]
           /\ matcher_ctx' \in [Thread -> MatcherCtx \union {NULL}]
           /\ mock_called' \in [Thread -> Nat]
           /\ LocalInv' /\ Waiting'
<1>1. /\ stack' \in [Thread -> Seq(Frame)] /\ stack'[t] = s
      /\ matcher_ctx' \in [Thread -> MatcherCtx \union {NULL}] /\ matcher_ctx'[t] = c
      /\ mock_called' \in [Thread -> Nat] /\ mock_called'[t] = n
      /\ \A u \in Thread \ {t} : /\ stack'[u] = stack[u]
                                 /\ matcher_ctx'[u] = matcher_ctx[u]
                                 /\ mock_called'[u] = mock_called[u]
  BY DEF IInv, Types
<1>2. LocalInv'
  BY <1>1, OneThread DEF IInv
<1>3. ASSUME NEW u \in Thread, In(u, {"when"})'
      PROVE  cur_result'[u] = Top(u)'.e.result
  <2>1. CASE u = t
    <3>1. s # << >> => Head(s) = s[1]
      OBVIOUS
    <3> QED BY <1>1, <1>3, <2>1, <3>1 DEF In, Top
  <2>2. CASE u # t
    BY <2>2, <1>1, <1>3 DEF IInv, Waiting, In, Top
  <2> QED BY <2>1, <2>2
<1> QED BY <1>1, <1>2, <1>3 DEF Waiting

LEMMA ReplaceTop ==
    ASSUME NEW s \in Seq(Frame), s # << >>, NEW c, NEW n, Local(s, c, n),
           NEW g \in Frame, g.k = s[1].k, g.k \in Expr,
           NEW d, Progress(g, d)
    PROVE  /\ [s EXCEPT ![1] = g] \in Seq(Frame)
           /\ [s EXCEPT ![1] = g] # << >> /\ [s EXCEPT ![1] = g][1] = g
           /\ Local([s EXCEPT ![1] = g], d, g.ran)
<1> DEFINE r == [s EXCEPT ![1] = g]
<1>1. /\ r \in Seq(Frame) /\ r # << >> /\ r[1] = g /\ DOMAIN r = 1..Len(s)
      /\ \A i \in 2..Len(s) : r[i] = s[i]
  BY Replaced
<1>2. \A i \in DOMAIN r : i > 1 => r[i].k \in Reenter
  <2> SUFFICES ASSUME NEW i \in 2..Len(s) PROVE s[i].k \in Reenter
    BY <1>1
  <2> QED BY DEF Local
<1> HIDE DEF r
<1> QED BY <1>1, <1>2 DEF Local

LEMMA FreshCtx ==
    ASSUME NEW kind \in {0, 1}
    PROVE  [kind |-> kind, list |-> << >>, freed |-> FALSE] \in MatcherCtx
BY DEF MatcherCtx

LEMMA BeginWhenIInv ==
    ASSUME IInv, NEW t \in Thread, NEW e \in WhenExpr, BeginWhen(t, e)
    PROVE  IInv'
<1> DEFINE f == CallExpr("when", e)
           c == [kind |-> 0, list |-> << >>, freed |-> FALSE]
           s == <<f>> \o stack[t]
<1>1. f \in Frame /\ f.k = "when" /\ ~f.done /\ f.ran = 0 /\ f.todo = DOMAIN f.e.kinds
      /\ f.e = e
  BY BeginFrame DEF CallExpr, Expr
<1>2. /\ ClientCode(t) /\ stack' = [stack EXCEPT ![t] = s]
      /\ matcher_ctx' = [matcher_ctx EXCEPT ![t] = c]
      /\ cur_result' = [cur_result EXCEPT ![t] = e.result]
      /\ UNCHANGED <<mock, mmk_ctx, mock_called, times, status>> /\ heap' = heap + 1
  BY DEF BeginWhen, Push, mmk_matcher_init
<1>3. c \in MatcherCtx /\ c # NULL /\ c.kind = 0 /\ ~c.freed
  BY FreshCtx, NullApart
<1>4. /\ stack[t] \in Seq(Frame)
      /\ stack[t] # << >> => stack[t][1].k \in Reenter
      /\ mock_called[t] = 0
      /\ Local(stack[t], matcher_ctx[t], mock_called[t])
  BY <1>2, ClientIsPlain DEF IInv, LocalInv
<1> HIDE DEF f, c
<1>5. s \in Seq(Frame) /\ s # << >> /\ s[1] = f
  BY <1>1, <1>4, Pushed
<1>6. Local(s, c, 0)
  <2>1. Progress(f, c)
    BY <1>1, <1>3 DEF Progress
  <2> QED BY <1>1, <1>4, <2>1, PushFrame DEF Expr
<1> HIDE DEF s
<1>7. /\ cur_result' \in [Thread -> Result \union {NULL}] /\ cur_result'[t] = e.result
      /\ \A u \in Thread \ {t} : cur_result'[u] = cur_result[u]
  BY <1>2 DEF IInv, Types, Result
<1>8. mock_called' = [mock_called EXCEPT ![t] = 0]
  BY <1>2, <1>4 DEF IInv, Types
<1>9. /\ stack' \in [Thread -> Seq(Frame)]
      /\ matcher_ctx' \in [Thread -> MatcherCtx \union {NULL}]
      /\ LocalInv' /\ Waiting'
  BY <1>1, <1>2, <1>3, <1>5, <1>6, <1>7, <1>8, AnyStack
<1> QED BY <1>2, <1>7, <1>9 DEF IInv, Types

LEMMA BeginVerifyIInv ==
    ASSUME IInv, NEW t \in Thread, NEW e \in VerifyExpr, BeginVerify(t, e)
    PROVE  IInv'
<1> DEFINE f == CallExpr("verify", e)
           c == [kind |-> 1, list |-> << >>, freed |-> FALSE]
           s == <<f>> \o stack[t]
<1>1. f \in Frame /\ f.k = "verify" /\ ~f.done /\ f.ran = 0 /\ f.todo = DOMAIN f.e.kinds
  BY BeginFrame DEF CallExpr, Expr
<1>2. /\ ClientCode(t) /\ stack' = [stack EXCEPT ![t] = s]
      /\ matcher_ctx' = [matcher_ctx EXCEPT ![t] = c]
      /\ UNCHANGED <<mock, mmk_ctx, mock_called, times, cur_result, status>>
      /\ heap' = heap + 1
  BY DEF BeginVerify, Push, mmk_matcher_init
<1>3. c \in MatcherCtx /\ c # NULL /\ c.kind = 1 /\ ~c.freed
  BY FreshCtx, NullApart
<1>4. /\ stack[t] \in Seq(Frame)
      /\ stack[t] # << >> => stack[t][1].k \in Reenter
      /\ mock_called[t] = 0
      /\ Local(stack[t], matcher_ctx[t], mock_called[t])
  BY <1>2, ClientIsPlain DEF IInv, LocalInv
<1> HIDE DEF f, c
<1>5. s \in Seq(Frame) /\ s # << >> /\ s[1] = f
  BY <1>1, <1>4, Pushed
<1>6. Local(s, c, 0)
  <2>1. Progress(f, c)
    BY <1>1, <1>3 DEF Progress
  <2> QED BY <1>1, <1>4, <2>1, PushFrame DEF Expr
<1> HIDE DEF s
<1>7. s[1].k # "when" /\ \A u \in Thread \ {t} : cur_result'[u] = cur_result[u]
  BY <1>1, <1>2, <1>5
<1>8. mock_called' = [mock_called EXCEPT ![t] = 0]
  BY <1>2, <1>4 DEF IInv, Types
<1>9. /\ stack' \in [Thread -> Seq(Frame)]
      /\ matcher_ctx' \in [Thread -> MatcherCtx \union {NULL}]
      /\ LocalInv' /\ Waiting'
  <2>1. c \in MatcherCtx \union {NULL} /\ 0 \in Nat
    BY <1>3
  <2>2. /\ stack' = [stack EXCEPT ![t] = s]
        /\ matcher_ctx' = [matcher_ctx EXCEPT ![t] = c]
    BY <1>2
  <2> QED BY <1>5, <1>6, <1>7, <1>8, <2>1, <2>2, AnyStack
<1> QED BY <1>2, <1>9 DEF IInv, Types

LEMMA ContractUpdate ==
    ASSUME NEW r \in Contract, NEW list \in Seq(Node), NEW by \in Thread \union {NULL}
    PROVE  [r EXCEPT !.list = list, !.by = by] \in Contract
<1>1. PICK p \in Contract : p = [r EXCEPT !.list = list]
  BY DEF Contract
<1>2. [p EXCEPT !.by = by] \in Contract
  BY DEF Contract
<1>3. [r EXCEPT !.list = list, !.by = by] = [p EXCEPT !.by = by]
  BY <1>1
<1> QED BY <1>2, <1>3

LEMMA ShareOne ==
    ASSUME Types, NEW t \in Thread, NEW list \in Seq(Node), NEW by \in Thread \union {NULL},
           NEW m \in Mock, mock[m] # NULL
    PROVE  /\ ShareList(t, list, by)[m] \in MockCtx
           /\ ShareList(t, list, by)[m].calls = mock[m].calls
           /\ ShareList(t, list, by)[m].params \in Seq(Contract)
           /\ mock[m].params \in Seq(Contract)
           /\ DOMAIN ShareList(t, list, by)[m].params = DOMAIN mock[m].params
           /\ \A i \in DOMAIN mock[m].params :
                 mock[m].params[i].by # t =>
                     ShareList(t, list, by)[m].params[i] = mock[m].params[i]
           /\ \A i \in DOMAIN mock[m].params :
                 mock[m].params[i].by = t =>
                     /\ ShareList(t, list, by)[m].params[i].list = list
                     /\ ShareList(t, list, by)[m].params[i].by = by
<1> DEFINE sh == ShareList(t, list, by)[m]
           G(c) == IF c.by # t THEN c ELSE [c EXCEPT !.list = list, !.by = by]
           ps == [i \in DOMAIN mock[m].params |-> G(mock[m].params[i])]
<1>1. mock[m] \in MockCtx
  BY DEF Types
<1>2. mock[m].params \in Seq(Contract) /\ mock[m].calls \in [Args -> Nat]
  BY <1>1 DEF MockCtx
<1>3. \A c \in Contract : G(c) \in Contract
  BY ContractUpdate
<1>4. \A c \in Contract : /\ c.by # t => G(c) = c
                          /\ c.by = t => G(c).list = list /\ G(c).by = by
  BY DEF Contract
<1>5. \A i \in DOMAIN mock[m].params : mock[m].params[i] \in Contract
  BY <1>2
<1>6. /\ ps \in Seq(Contract) /\ DOMAIN ps = DOMAIN mock[m].params
      /\ \A i \in DOMAIN mock[m].params : ps[i] = G(mock[m].params[i])
  <2> HIDE DEF G
  <2> QED BY <1>2, <1>3
<1>7. sh = [mock[m] EXCEPT !.params = ps]
  BY DEF ShareList
<1> HIDE DEF ps, sh, G
<1>8. [mock[m] EXCEPT !.params = ps] = [params |-> ps, calls |-> mock[m].calls]
  BY <1>1 DEF MockCtx
<1>9. /\ sh = [params |-> ps, calls |-> mock[m].calls] /\ sh \in MockCtx
      /\ sh.params = ps /\ sh.calls = mock[m].calls
  BY <1>2, <1>6, <1>7, <1>8 DEF MockCtx
<1> QED BY <1>2, <1>6, <1>9, <1>4, <1>5 DEF sh

LEMMA ShareListType ==
    ASSUME Types, NEW t \in Thread, NEW list \in Seq(Node), NEW by \in Thread \union {NULL}
    PROVE  /\ ShareList(t, list, by) \in [Mock -> MockCtx \union {NULL}]
           /\ \A m \in Mock : mock[m] = NULL => ShareList(t, list, by)[m] = NULL
<1> DEFINE sh == ShareList(t, list, by)
<1>1. \A m \in Mock : mock[m] = NULL => sh[m] = NULL
  BY DEF ShareList
<1>2. \A m \in Mock : mock[m] # NULL => sh[m] \in MockCtx
  BY ShareOne
<1>3. sh = [m \in Mock |-> sh[m]]
  BY DEF ShareList
<1> HIDE DEF sh
<1>4. sh \in [Mock -> MockCtx \union {NULL}]
  BY <1>1, <1>2, <1>3
<1> QED BY <1>1, <1>4 DEF sh

LEMMA EvalArgIInv ==
    ASSUME IInv, NEW t \in Thread, NEW i \in 1..2, EvalArg(t, i)
    PROVE  IInv'
<1> DEFINE f == stack[t][1]
           list == mmk_matcher_add(matcher_ctx[t].list, Matcher(f.e.kinds[i], i, f.e.pred))
           g == [k |-> f.k, e |-> f.e, todo |-> f.todo \ {i}, done |-> f.done, ran |-> f.ran]
           c == [kind |-> matcher_ctx[t].kind, list |-> list,
                 freed |-> matcher_ctx[t].freed]
           s == [stack[t] EXCEPT ![1] = g]
<1>1. /\ stack[t] \in Seq(Frame) /\ stack[t] # << >> /\ f.k \in Expr /\ i \in f.todo
      /\ Top(t) = f /\ f \in Frame /\ 1 \in DOMAIN stack[t]
      /\ Local(stack[t], matcher_ctx[t], mock_called[t])
  BY InTop DEF EvalArg, IInv, LocalInv, Expr
<1>2. CASE matcher_ctx[t].freed
  BY <1>2, LostIInv DEF EvalArg
<1>3. CASE ~matcher_ctx[t].freed
  <2>1. matcher_ctx[t] # NULL /\ matcher_ctx[t] \in MatcherCtx
    BY <1>1 DEF Local, Progress, IInv, Types
  <2>2. f.e \in WhenExpr \union VerifyExpr /\ f.todo \in SUBSET Nat /\ f.done \in BOOLEAN
        /\ f.ran \in Nat
    BY <1>1, FrameKinds DEF Expr
  <2>3. /\ f.e \in IF f.k = "when" THEN WhenExpr ELSE VerifyExpr
        /\ f = [k |-> f.k, e |-> f.e, todo |-> f.todo, done |-> f.done, ran |-> f.ran]
    BY <1>1, FrameKinds DEF Expr
  <2>4. i \in DOMAIN f.e.kinds /\ f.todo \subseteq DOMAIN f.e.kinds
    BY <1>1 DEF Local, Progress
  <2>5. Matcher(f.e.kinds[i], i, f.e.pred) \in Node
    BY <2>2, <2>4 DEF Node
  <2>6. /\ matcher_ctx[t].list \in Seq(Node) /\ matcher_ctx[t].kind \in {0, 1}
        /\ matcher_ctx[t].freed \in BOOLEAN
    BY <2>1 DEF MatcherCtx
  <2>7. list \in Seq(Node)
    BY <2>5, <2>6, AddGrows
  <2>8. /\ mock' = ShareList(t, list, t) /\ heap' = heap + 1
        /\ matcher_ctx' = [matcher_ctx EXCEPT ![t].list = list]
        /\ stack' = [stack EXCEPT ![t][1].todo = @ \ {i}]
        /\ UNCHANGED <<mmk_ctx, mock_called, times, cur_result, status>>
    BY <1>1, <1>3 DEF EvalArg
  <2> HIDE DEF list
  <2>9. matcher_ctx' = [matcher_ctx EXCEPT ![t] = c]
    <3>1. [matcher_ctx[t] EXCEPT !.list = list] = c
      BY <2>1, <1>3 DEF MatcherCtx
    <3> QED BY <2>8, <3>1
  <2>10. stack' = [stack EXCEPT ![t] = s]
    <3>1. [f EXCEPT !.todo = @ \ {i}] = g
      <4> HIDE DEF f
      <4> QED BY <2>3
    <3>2. [stack[t] EXCEPT ![1].todo = @ \ {i}] = s
      BY <3>1
    <3> HIDE DEF f, s
    <3> QED BY <2>8, <3>2
  <2>11. c \in MatcherCtx /\ c # NULL /\ c.kind = matcher_ctx[t].kind /\ ~c.freed
    <3>1. c \in MatcherCtx
      BY <2>6, <2>7 DEF MatcherCtx
    <3>2. c # NULL
      BY <3>1, NullApart
    <3> QED BY <1>3, <3>1, <3>2
  <2>12. g \in Frame /\ g.k = f.k /\ g.e = f.e /\ g.ran = f.ran /\ g.done = f.done
         /\ g.todo = f.todo \ {i}
    BY <1>1, <2>2, <2>3, CallExprFrame
  <2> HIDE DEF c, g
  <2>13. s \in Seq(Frame) /\ s # << >> /\ s[1] = g /\ Local(s, c, g.ran)
    <3>1. Progress(g, c)
      <4>1. Progress(f, matcher_ctx[t]) /\ ~matcher_ctx[t].freed
        BY <1>1, <1>3 DEF Local
      <4>2. ~(f.k = "verify" /\ f.ran > 0)
        BY <4>1 DEF Progress
      <4> QED BY <2>4, <2>11, <2>12, <4>1, <4>2 DEF Progress
    <3> QED BY <1>1, <2>12, <3>1, ReplaceTop
  <2>14. mock_called' = [mock_called EXCEPT ![t] = g.ran] /\ g.ran \in Nat
    BY <1>1, <2>2, <2>8, <2>12 DEF Local, IInv, Types
  <2>15. /\ s # << >> /\ s[1].k = "when" => cur_result'[t] = s[1].e.result
         /\ \A u \in Thread \ {t} : cur_result'[u] = cur_result[u]
    BY <1>1, <2>8, <2>12, <2>13 DEF IInv, Waiting, In, Top
  <2> HIDE DEF s
  <2>16. /\ stack' \in [Thread -> Seq(Frame)]
         /\ matcher_ctx' \in [Thread -> MatcherCtx \union {NULL}]
         /\ mock_called' \in [Thread -> Nat]
         /\ LocalInv' /\ Waiting'
    <3>1. c \in MatcherCtx \union {NULL}
      BY <2>11
    <3> QED BY <2>9, <2>10, <2>13, <2>14, <2>15, <3>1, AnyStack
  <2>17. mock' \in [Mock -> MockCtx \union {NULL}]
    BY <2>7, <2>8, ShareListType DEF IInv
  <2> QED BY <2>8, <2>16, <2>17 DEF IInv, Types
<1> QED BY <1>2, <1>3

(* A call of m from the call expression of the frame on top. *)
LEMMA BindType ==
    ASSUME Types, NEW t \in Thread, NEW m \in Mock, mock[m] # NULL,
           NEW e \in WhenExpr, cur_result[t] = e.result,
           matcher_ctx[t] \in MatcherCtx, Bind(t, m, e.refs, e)
    PROVE  /\ mock' \in [Mock -> MockCtx \union {NULL}]
           /\ \A n \in Mock \ {m} : mock'[n] = mock[n]
           /\ mock'[m] # NULL /\ mock'[m].calls = mock[m].calls
           /\ mock'[m].params =
                  <<[refs |-> e.refs, list |-> matcher_ctx[t].list, by |-> t,
                     result |-> cur_result[t], expr |-> e]>> \o mock[m].params
           /\ mock'[m].params \in Seq(Contract)
<1> DEFINE c == [refs |-> e.refs, list |-> matcher_ctx[t].list, by |-> t,
                 result |-> cur_result[t], expr |-> e]
           q == <<c>> \o mock[m].params
<1>1. c \in Contract
  BY DEF Contract, MatcherCtx, Result
<1>2. mock[m] \in MockCtx
  BY DEF Types
<1>3. mock[m].params \in Seq(Contract) /\ mock[m].calls \in [Args -> Nat]
  BY <1>2 DEF MockCtx
<1>4. mock' = [mock EXCEPT ![m] = [mock[m] EXCEPT !.params = q]]
  BY DEF Bind
<1> HIDE DEF c
<1>5. q \in Seq(Contract)
  BY <1>1, <1>3
<1> HIDE DEF q
<1>6. [mock[m] EXCEPT !.params = q] = [params |-> q, calls |-> mock[m].calls]
  BY <1>2 DEF MockCtx
<1>7. [params |-> q, calls |-> mock[m].calls] \in MockCtx
  BY <1>3, <1>5 DEF MockCtx
<1>8. /\ mock' \in [Mock -> MockCtx \union {NULL}]
      /\ \A n \in Mock \ {m} : mock'[n] = mock[n]
      /\ mock'[m] = [params |-> q, calls |-> mock[m].calls]
  BY <1>4, <1>6, <1>7 DEF Types
<1>9. mock'[m] # NULL
  BY <1>7, <1>8, NullApart
<1> QED BY <1>5, <1>8, <1>9 DEF q, c

LEMMA CountType ==
    ASSUME Types, NEW t \in Thread, NEW m \in Mock, mock[m] # NULL, NEW refs,
           matcher_ctx[t] \in MatcherCtx, Count(t, m, refs)
    PROVE  /\ times' \in [Thread -> Nat] /\ mock' = mock
           /\ heap' = heap - Nodes(matcher_ctx[t].list) /\ heap' \in Int
           /\ matcher_ctx' = [matcher_ctx EXCEPT ![t].freed = TRUE]
<1> DEFINE S == {a \in Args : Matches(matcher_ctx[t].list, a, refs)}
           n == SumFunctionOnSet(mock[m].calls, S)
<1>1. mock[m] \in MockCtx
  BY DEF Types
<1>2. mock[m].calls \in [Args -> Nat]
  BY <1>1 DEF MockCtx
<1>3. IsFiniteSet(S)
  BY FS_Subset, MockAssumption
<1>4. \A a \in S : mock[m].calls[a] \in Int /\ mock[m].calls[a] >= 0
  BY <1>2
<1> HIDE DEF S
<1>5. n \in Nat
  BY <1>3, <1>4, SumInt
<1>6. times' = [times EXCEPT ![t] = n]
  BY DEF Count, S
<1> HIDE DEF n
<1>7. Nodes(matcher_ctx[t].list) \in Int
  BY DEF Nodes, MatcherCtx
<1> QED BY <1>5, <1>6, <1>7 DEF Count, Types

LEMMA ExpressionIInv ==
    ASSUME IInv, NEW t \in Thread, NEW m \in Mock, NEW isLast \in BOOLEAN,
           isLast => Top(t).todo = {}, ~isLast => Misuse,
           CallFromExpression(t, m, isLast)
    PROVE  IInv'
<1> DEFINE f == stack[t][1]
           g == [k |-> f.k, e |-> f.e, todo |-> f.todo, done |-> isLast,
                 ran |-> f.ran + 1]
           s == [stack[t] EXCEPT ![1] = g]
<1>1. /\ stack[t] \in Seq(Frame) /\ stack[t] # << >> /\ f.k \in Expr /\ ~f.done
      /\ Top(t) = f /\ f \in Frame /\ 1 \in DOMAIN stack[t] /\ mock[m] # NULL
      /\ Local(stack[t], matcher_ctx[t], mock_called[t])
  BY InTop DEF CallFromExpression, IInv, LocalInv, Expr
<1>2. CASE matcher_ctx[t].freed
  BY <1>2, LostIInv DEF CallFromExpression
<1>3. CASE ~matcher_ctx[t].freed
  <2>1. /\ matcher_ctx[t] \in MatcherCtx /\ Progress(f, matcher_ctx[t])
        /\ mock_called[t] = f.ran
    BY <1>1 DEF Local, Progress, IInv, Types
  <2>2. /\ f.e \in IF f.k = "when" THEN WhenExpr ELSE VerifyExpr
        /\ f.todo \in SUBSET Nat /\ f.ran \in Nat
        /\ f = [k |-> f.k, e |-> f.e, todo |-> f.todo, done |-> f.done, ran |-> f.ran]
    BY <1>1, FrameKinds DEF Expr
  <2>3. /\ mock_called' = [mock_called EXCEPT ![t] = @ + 1]
        /\ mmk_ctx' = [mmk_ctx EXCEPT ![t] = m]
        /\ IF matcher_ctx[t].kind = 0 THEN Bind(t, m, f.e.refs, f.e)
                                      ELSE Count(t, m, f.e.refs)
        /\ UNCHANGED <<cur_result, status>>
        /\ stack' = [stack EXCEPT ![t][1].ran = @ + 1, ![t][1].done = isLast]
    BY <1>1, <1>3 DEF CallFromExpression, MatcherModeCall
  <2>4. stack' = [stack EXCEPT ![t] = s]
    <3>1. [f EXCEPT !.ran = @ + 1, !.done = isLast] = g
      <4> DEFINE f1 == [k |-> f.k, e |-> f.e, todo |-> f.todo, done |-> f.done,
                        ran |-> f.ran + 1]
      <4> HIDE DEF f
      <4>1. [f EXCEPT !.ran = @ + 1] = f1
        BY <2>2
      <4>2. [f EXCEPT !.ran = @ + 1, !.done = isLast] = [f1 EXCEPT !.done = isLast]
        BY <4>1
      <4>3. [f1 EXCEPT !.done = isLast] = g
        OBVIOUS
      <4> QED BY <4>2, <4>3
    <3>2. [stack[t] EXCEPT ![1].ran = @ + 1, ![1].done = isLast] = s
      BY <1>1, <3>1
    <3> QED BY <2>3, <3>2 DEF IInv, Types
  <2>5. g \in Frame /\ g.k = f.k /\ g.e = f.e /\ g.ran = f.ran + 1 /\ g.done = isLast
        /\ g.todo = f.todo
    <3>1. f.k \in Expr /\ f.ran + 1 \in Nat
      BY <1>1, <2>2
    <3> HIDE DEF f
    <3>2. g \in Frame
      BY <2>2, <3>1, CallExprFrame
    <3> QED BY <3>2
  <2> HIDE DEF f
  <2>6. ASSUME NEW c, c \in MatcherCtx, c.kind = matcher_ctx[t].kind,
               c.kind = 0 => ~c.freed, c.kind # 0 => c.freed,
               matcher_ctx' = [matcher_ctx EXCEPT ![t] = c]
        PROVE  /\ stack' \in [Thread -> Seq(Frame)]
               /\ matcher_ctx' \in [Thread -> MatcherCtx \union {NULL}]
               /\ mock_called' \in [Thread -> Nat]
               /\ LocalInv' /\ Waiting'
    <3> HIDE DEF g
    <3>1. Progress(g, c)
      <4>1. /\ c # NULL /\ c.kind = IF g.k = "when" THEN 0 ELSE 1
            /\ g.todo \subseteq DOMAIN g.e.kinds /\ (g.done => g.todo = {})
        BY <1>1, <2>1, <2>5, <2>6, NullApart DEF Progress
      <4>2. g.k = "when" <=> c.kind = 0
        BY <4>1
      <4>3. g.ran > 0 /\ g.k \in Expr
        BY <1>1, <2>2, <2>5
      <4>4. c.freed => g.k = "verify"
        BY <2>6, <4>2, <4>3 DEF Expr
      <4>5. g.k = "verify" => c.freed
        BY <2>6, <4>2
      <4>6. ~Misuse => g.ran = IF g.done THEN 1 ELSE 0
        BY <1>1, <2>1, <2>2, <2>5 DEF Progress
      <4> QED BY <4>1, <4>3, <4>4, <4>5, <4>6 DEF Progress
    <3>2. s \in Seq(Frame) /\ s # << >> /\ s[1] = g /\ Local(s, c, g.ran)
      BY <1>1, <2>5, <3>1, ReplaceTop DEF f
    <3>3. mock_called' = [mock_called EXCEPT ![t] = g.ran] /\ g.ran \in Nat
      <4>1. mock_called[t] + 1 = g.ran /\ g.ran \in Nat
        BY <2>1, <2>2, <2>5
      <4> QED BY <2>3, <4>1
    <3>4. /\ s # << >> /\ s[1].k = "when" => cur_result'[t] = s[1].e.result
          /\ \A u \in Thread \ {t} : cur_result'[u] = cur_result[u]
      BY <1>1, <2>3, <2>5, <3>2 DEF IInv, Waiting, In, Top, f
    <3> HIDE DEF s
    <3>5. c \in MatcherCtx \union {NULL}
      BY <2>6
    <3> QED BY <2>4, <2>6, <3>2, <3>3, <3>4, <3>5, AnyStack
  <2>7. mmk_ctx' \in [Thread -> Mock \union StubFn \union {NULL}]
    BY <2>3 DEF IInv, Types
  <2>8. CASE matcher_ctx[t].kind = 0
    <3>1. f.k = "when" /\ f.e \in WhenExpr
      BY <2>1, <2>2, <2>8 DEF Progress
    <3>2. cur_result[t] = f.e.result
      BY <1>1, <3>1 DEF IInv, Waiting, In, f
    <3>3. Bind(t, m, f.e.refs, f.e)
      BY <2>3, <2>8
    <3>4. mock' \in [Mock -> MockCtx \union {NULL}]
      BY <1>1, <2>1, <3>1, <3>2, <3>3, BindType DEF IInv
    <3>5. UNCHANGED <<matcher_ctx, times, heap>>
      BY <3>3 DEF Bind
    <3>6. matcher_ctx' = [matcher_ctx EXCEPT ![t] = matcher_ctx[t]]
      BY <3>5 DEF IInv, Types
    <3>7. ~matcher_ctx[t].freed
      BY <1>3
    <3>8. LocalInv' /\ Waiting' /\ stack' \in [Thread -> Seq(Frame)]
          /\ matcher_ctx' \in [Thread -> MatcherCtx \union {NULL}]
          /\ mock_called' \in [Thread -> Nat]
      BY <2>1, <2>6, <2>8, <3>6, <3>7
    <3> QED BY <2>3, <2>7, <3>4, <3>5, <3>8 DEF IInv, Types
  <2>9. CASE matcher_ctx[t].kind # 0
    <3> DEFINE c == [kind |-> matcher_ctx[t].kind, list |-> matcher_ctx[t].list,
                     freed |-> TRUE]
    <3>1. Count(t, m, f.e.refs)
      BY <2>3, <2>9
    <3>2. /\ times' \in [Thread -> Nat] /\ mock' = mock /\ heap' \in Int
          /\ matcher_ctx' = [matcher_ctx EXCEPT ![t].freed = TRUE]
      BY <1>1, <2>1, <3>1, CountType DEF IInv
    <3>3. \A x \in BOOLEAN :
             [matcher_ctx[t] EXCEPT !.freed = x] =
                 [kind |-> matcher_ctx[t].kind, list |-> matcher_ctx[t].list, freed |-> x]
      BY <2>1 DEF MatcherCtx
    <3>6. c \in MatcherCtx /\ c.kind = matcher_ctx[t].kind /\ c.freed
      BY <2>1 DEF MatcherCtx
    <3>4. matcher_ctx' = [matcher_ctx EXCEPT ![t] = c]
      BY <3>2, <3>3
    <3> HIDE DEF c
    <3>7. LocalInv' /\ Waiting' /\ stack' \in [Thread -> Seq(Frame)]
          /\ matcher_ctx' \in [Thread -> MatcherCtx \union {NULL}]
          /\ mock_called' \in [Thread -> Nat]
      BY <2>6, <2>9, <3>4, <3>6
    <3> QED BY <2>3, <2>7, <3>2, <3>7 DEF IInv, Types
  <2> QED BY <2>8, <2>9
<1> QED BY <1>2, <1>3

LEMMA CallMockedIInv ==
    ASSUME IInv, NEW t \in Thread, CallMocked(t)
    PROVE  IInv'
<1>1. Top(t) \in Frame /\ Top(t).k \in Expr
  BY InTop DEF CallMocked, IInv, In, Expr
<1>2. Top(t).e.mock \in Mock
  BY <1>1, FrameKinds
<1> QED BY <1>2, ExpressionIInv DEF CallMocked

LEMMA ExtraCallIInv ==
    ASSUME IInv, NEW t \in Thread, NEW m \in Mock, ExtraCall(t, m)
    PROVE  IInv'
BY ExpressionIInv DEF ExtraCall

LEMMA CallNothingIInv ==
    ASSUME IInv, NEW t \in Thread, CallNothing(t)
    PROVE  IInv'
<1> DEFINE f == stack[t][1]
           c == matcher_ctx[t]
           g == [k |-> f.k, e |-> f.e, todo |-> f.todo, done |-> TRUE, ran |-> f.ran]
           s == [stack[t] EXCEPT ![1] = g]
<1>1. /\ stack[t] \in Seq(Frame) /\ stack[t] # << >> /\ f.k \in Expr /\ f.todo = {}
      /\ f \in Frame /\ 1 \in DOMAIN stack[t] /\ Misuse
      /\ Local(stack[t], matcher_ctx[t], mock_called[t])
  BY InTop DEF CallNothing, IInv, LocalInv, Expr
<1>2. Progress(f, c) /\ mock_called[t] = f.ran /\ c \in MatcherCtx
  BY <1>1 DEF Local, Progress, IInv, Types
<1>3. /\ f.e \in IF f.k = "when" THEN WhenExpr ELSE VerifyExpr
      /\ f.todo \in SUBSET Nat /\ f.ran \in Nat
      /\ f = [k |-> f.k, e |-> f.e, todo |-> f.todo, done |-> f.done, ran |-> f.ran]
  BY <1>1, FrameKinds DEF Expr
<1>4. stack' = [stack EXCEPT ![t] = s]
  <2>1. \A x \in BOOLEAN : [f EXCEPT !.done = x] =
            [k |-> f.k, e |-> f.e, todo |-> f.todo, done |-> x, ran |-> f.ran]
    <3> HIDE DEF f
    <3> QED BY <1>3
  <2>2. [f EXCEPT !.done = TRUE] = g
    BY <2>1
  <2>3. stack' = [stack EXCEPT ![t] = [stack[t] EXCEPT ![1] = [f EXCEPT !.done = TRUE]]]
    BY DEF CallNothing
  <2> HIDE DEF f, g
  <2> QED BY <2>2, <2>3
<1>5. g \in Frame
  <2>1. f.k \in Expr
    BY <1>1
  <2> HIDE DEF f
  <2> QED BY <1>3, <2>1, CallExprFrame
<1>6. g.k = f.k /\ g.e = f.e /\ g.ran = f.ran /\ g.done /\ g.todo = f.todo
  OBVIOUS
<1> HIDE DEF f, g
<1>7. Progress(g, c)
  BY <1>1, <1>2, <1>6 DEF Progress
<1>8. s \in Seq(Frame) /\ s # << >> /\ s[1] = g /\ Local(s, c, g.ran)
  BY <1>1, <1>5, <1>6, <1>7, ReplaceTop DEF f
<1>9. /\ mock_called' = [mock_called EXCEPT ![t] = g.ran] /\ g.ran \in Nat
      /\ matcher_ctx' = [matcher_ctx EXCEPT ![t] = c]
  BY <1>2, <1>3, <1>6 DEF CallNothing, IInv, Types
<1>10. /\ s # << >> /\ s[1].k = "when" => cur_result'[t] = s[1].e.result
       /\ \A u \in Thread \ {t} : cur_result'[u] = cur_result[u]
  BY <1>1, <1>6, <1>8 DEF CallNothing, IInv, Waiting, In, Top, f
<1> HIDE DEF s, c
<1>11. /\ stack' \in [Thread -> Seq(Frame)]
       /\ matcher_ctx' \in [Thread -> MatcherCtx \union {NULL}]
       /\ mock_called' \in [Thread -> Nat]
       /\ LocalInv' /\ Waiting'
  <2>1. c \in MatcherCtx \union {NULL}
    BY <1>2
  <2> QED BY <1>4, <1>8, <1>9, <1>10, <2>1, AnyStack
<1> QED BY <1>11 DEF CallNothing, IInv, Types

(* The end of a call expression. *)
LEMMA EndStack ==
    ASSUME IInv, NEW t \in Thread, In(t, Expr),
           stack' = [stack EXCEPT ![t] = Tail(stack[t])],
           matcher_ctx' = [matcher_ctx EXCEPT ![t] = NULL],
           mock_called' = [mock_called EXCEPT ![t] = 0], cur_result' = cur_result
    PROVE  /\ stack' \in [Thread -> Seq(Frame)]
           /\ matcher_ctx' \in [Thread -> MatcherCtx \union {NULL}]
           /\ mock_called' \in [Thread -> Nat]
           /\ LocalInv' /\ Waiting'
<1> DEFINE s == Tail(stack[t])
<1>1. stack[t] \in Seq(Frame) /\ stack[t] # << >>
      /\ Local(stack[t], matcher_ctx[t], mock_called[t])
  BY InTop DEF IInv, LocalInv
<1>2. s \in Seq(Frame) /\ Local(s, NULL, 0)
  BY <1>1, Popped, PopFrame
<1>3. ~(s # << >> /\ s[1].k = "when")
  BY <1>2 DEF Local, Progress, Expr
<1>4. stack' = [stack EXCEPT ![t] = s] /\ NULL \in MatcherCtx \union {NULL} /\ 0 \in Nat
  OBVIOUS
<1> HIDE DEF s
<1> QED BY <1>2, <1>3, <1>4, AnyStack

LEMMA EndWhenIInv ==
    ASSUME IInv, NEW t \in Thread, EndWhen(t)
    PROVE  IInv'
<1>1. CASE mock_called[t] # 1
  BY <1>1, LostIInv DEF EndWhen
<1>2. CASE mock_called[t] = 1
  <2>1. /\ mock_called' = [mock_called EXCEPT ![t] = 0]
        /\ mock' = ShareList(t, matcher_ctx[t].list, NULL)
        /\ matcher_ctx' = [matcher_ctx EXCEPT ![t] = NULL]
        /\ stack' = [stack EXCEPT ![t] = Tail(stack[t])]
        /\ UNCHANGED <<mmk_ctx, times, cur_result, heap, status>>
    BY <1>2 DEF EndWhen, Pop
  <2>2. In(t, Expr)
    BY DEF EndWhen, In, Expr
  <2>3. matcher_ctx[t] \in MatcherCtx
    BY <2>2, InTop DEF IInv, LocalInv, Local, Progress, Types
  <2>4. matcher_ctx[t].list \in Seq(Node)
    BY <2>3 DEF MatcherCtx
  <2>5. mock' \in [Mock -> MockCtx \union {NULL}]
    BY <2>1, <2>4, ShareListType DEF IInv
  <2>6. /\ stack' \in [Thread -> Seq(Frame)]
        /\ matcher_ctx' \in [Thread -> MatcherCtx \union {NULL}]
        /\ mock_called' \in [Thread -> Nat]
        /\ LocalInv' /\ Waiting'
    BY <2>1, <2>2, EndStack
  <2> QED BY <2>1, <2>5, <2>6 DEF IInv, Types
<1> QED BY <1>1, <1>2

LEMMA EndVerifyIInv ==
    ASSUME IInv, NEW t \in Thread, EndVerify(t)
    PROVE  IInv'
<1>1. CASE mock_called[t] # 1
  BY <1>1, LostIInv DEF EndVerify
<1>2. CASE mock_called[t] = 1
  <2>1. /\ mock_called' = [mock_called EXCEPT ![t] = 0]
        /\ matcher_ctx' = [matcher_ctx EXCEPT ![t] = NULL]
        /\ stack' = [stack EXCEPT ![t] = Tail(stack[t])]
        /\ UNCHANGED <<mock, mmk_ctx, times, cur_result, heap, status>>
    BY <1>2 DEF EndVerify, Pop
  <2>2. In(t, Expr)
    BY DEF EndVerify, In, Expr
  <2>3. /\ stack' \in [Thread -> Seq(Frame)]
        /\ matcher_ctx' \in [Thread -> MatcherCtx \union {NULL}]
        /\ mock_called' \in [Thread -> Nat]
        /\ LocalInv' /\ Waiting'
    BY <2>1, <2>2, EndStack
  <2> QED BY <2>1, <2>3 DEF IInv, Types
<1> QED BY <1>1, <1>2

-----------------------------------------------------------------------------
(* The nodes of a mock are a number. *)
CtxNodes(ctx) == SumFunction([i \in DOMAIN ctx.params |-> Nodes(ctx.params[i].list)])

LEMMA CtxNodesInt ==
    ASSUME NEW ctx \in MockCtx
    PROVE  CtxNodes(ctx) \in Int /\ CtxNodes(ctx) >= 0
<1> DEFINE params == ctx.params
           f == [i \in DOMAIN params |-> Nodes(params[i].list)]
<1>1. params \in Seq(Contract)
  BY DEF MockCtx
<1>2. \A i \in DOMAIN params : params[i] \in Contract
  BY <1>1
<1>3. \A i \in DOMAIN params : Nodes(params[i].list) \in Int /\ Nodes(params[i].list) >= 0
  BY <1>2 DEF Contract, Nodes
<1>4. IsFiniteSet(DOMAIN params)
  <2>1. DOMAIN params = 1..Len(params) /\ Len(params) \in Nat
    BY <1>1
  <2> QED BY <2>1, FS_Interval
<1>5. CtxNodes(ctx) = SumFunctionOnSet(f, DOMAIN params)
  BY DEF CtxNodes, SumFunction
<1>6. \A i \in DOMAIN params : f[i] \in Int /\ f[i] >= 0
  BY <1>3
<1> HIDE DEF f, params
<1> QED BY <1>4, <1>5, <1>6, SumInt

LEMMA NodesInt ==
    ASSUME Types, NEW m \in Mock, mock[m] # NULL
    PROVE  NodesOf(m) \in Int /\ NodesOf(m) >= 0
<1>1. mock[m] \in MockCtx
  BY DEF Types
<1>2. NodesOf(m) = CtxNodes(mock[m])
  BY DEF NodesOf, CtxNodes
<1> QED BY <1>1, <1>2, CtxNodesInt

LEMMA StepIInv ==
    ASSUME IInv, NEW t \in Thread, Step(t)
    PROVE  IInv'
<1>1. ASSUME NEW m \in Mock, Create(t, m) \/ Reset(t, m) \/ ExtraCall(t, m)
      PROVE  IInv'
  BY <1>1, CreateIInv, ResetIInv, ExtraCallIInv, NodesInt DEF Reset, IInv
<1>2. ASSUME NEW m \in Mock, NEW a \in Args, Call(t, m, a)
      PROVE  IInv'
  BY <1>2, CallIInv
<1>3. ASSUME NEW s \in StubFn, CallStub(t, s)
      PROVE  IInv'
  BY <1>3, CallStubIInv
<1>4. CASE BeginExpression(t)
  BY <1>4, BeginWhenIInv, BeginVerifyIInv DEF BeginExpression
<1>5. ASSUME NEW i \in 1..2, EvalArg(t, i)
      PROVE  IInv'
  BY <1>5, EvalArgIInv
<1>6. CASE CallMocked(t) \/ CallNothing(t) \/ EndWhen(t) \/ EndVerify(t)
  BY <1>6, CallMockedIInv, CallNothingIInv, EndWhenIInv, EndVerifyIInv
<1>7. CASE Serialized(t) \/ CallbackReturns(t) \/ StubReturns(t)
  BY <1>7, SerializedIInv, CallbackReturnsIInv, StubReturnsIInv
<1> QED BY <1>1, <1>2, <1>3, <1>4, <1>5, <1>6, <1>7 DEF Step

LEMMA Invariance == Spec => []IInv
<1>1. Init => IInv
  BY DEF Init, IInv, Types, LocalInv, Local, Waiting, In
<1>2. IInv /\ [Next]_vars => IInv'
  <2>1. ASSUME IInv, Next PROVE IInv'
    BY <2>1, StepIInv DEF Next
  <2>2. ASSUME IInv, UNCHANGED vars PROVE IInv'
    BY <2>2 DEF vars, IInv, Types, LocalInv, Waiting, In, Top
  <2> QED BY <2>1, <2>2
<1> QED BY <1>1, <1>2, PTL DEF Spec

-----------------------------------------------------------------------------
(* Whatever the threads and the client code that Mimick calls back do, a   *)
(* stub body finds itself in matcher mode exactly in a call expression of  *)
(* its own thread, and finds that expression's kind (mock.h:300-310).      *)
THEOREM Isolation == Spec => []ModeIsolation
<1>1. IInv => ModeIsolation
  <2> SUFFICES ASSUME IInv, NEW t \in Thread
               PROVE  /\ matcher_ctx[t] # NULL <=> In(t, Expr)
                      /\ matcher_ctx[t] # NULL =>
                            matcher_ctx[t].kind = IF Top(t).k = "when" THEN 0 ELSE 1
    BY DEF ModeIsolation, Expr
  <2>1. Local(stack[t], matcher_ctx[t], mock_called[t])
    BY DEF IInv, LocalInv
  <2>2. CASE In(t, Expr)
    BY <2>1, <2>2, InTop DEF IInv, Local, Progress
  <2>3. CASE ~In(t, Expr)
    BY <2>1, <2>3, InTop DEF IInv, Local
  <2> QED BY <2>2, <2>3
<1> QED BY <1>1, Invariance, PTL

-----------------------------------------------------------------------------
(* Only the end of a call expression takes its frame away.                 *)
LEMMA OtherStacks ==
    ASSUME IInv, NEW t \in Thread, Step(t), NEW u \in Thread \ {t}
    PROVE  /\ Len(stack'[u]) = Len(stack[u])
           /\ (\E m \in Mock : Reset(t, m)) \/ stack'[u] = stack[u]
<1>0. /\ stack \in [Thread -> Seq(Frame)] /\ stack[u] \in Seq(Frame)
      /\ \A x : [stack EXCEPT ![t] = x][u] = stack[u]
  BY DEF IInv, Types
<1>1. ASSUME NEW m \in Mock, Reset(t, m)
      PROVE  Len(stack'[u]) = Len(stack[u])
  BY <1>0, <1>1 DEF Reset
<1>2. ASSUME NEW m, NEW c, NEW args, NEW rest, RecordAndAnswer(t, m, c, args, rest)
      PROVE  stack'[u] = stack[u]
  BY <1>0, <1>2 DEF RecordAndAnswer, Fails
<1>3. ASSUME NEW m, NEW isLast, CallFromExpression(t, m, isLast)
      PROVE  stack'[u] = stack[u]
  BY <1>0, <1>3 DEF CallFromExpression, Fails
<1>4. ASSUME NEW m \in Mock, NEW a \in Args, Call(t, m, a)
      PROVE  stack'[u] = stack[u]
  <2>1. matcher_ctx[t] = NULL
    BY <1>4, ClientIsPlain DEF Call
  <2> QED BY <1>0, <1>2, <1>4, <2>1 DEF Call, Push
<1>5. CASE \E m \in Mock : Create(t, m) \/ ExtraCall(t, m)
  BY <1>0, <1>3, <1>5 DEF Create, ExtraCall
<1>6. CASE BeginExpression(t) \/ \E s \in StubFn : CallStub(t, s)
  BY <1>0, <1>6 DEF BeginExpression, BeginWhen, BeginVerify, CallStub, Push
<1>7. CASE \E i \in 1..2 : EvalArg(t, i)
  BY <1>0, <1>7 DEF EvalArg, Fails
<1>8. CASE CallMocked(t) \/ CallNothing(t)
  BY <1>0, <1>3, <1>8 DEF CallMocked, CallNothing
<1>9. CASE EndWhen(t) \/ EndVerify(t)
  BY <1>0, <1>9 DEF EndWhen, EndVerify, Fails, Pop
<1>10. CASE Serialized(t) \/ CallbackReturns(t) \/ StubReturns(t)
  BY <1>0, <1>2, <1>10 DEF Serialized, CallbackReturns, StubReturns, Fails, Pop
<1> QED BY <1>1, <1>4, <1>5, <1>6, <1>7, <1>8, <1>9, <1>10 DEF Step

LEMMA OwnStack ==
    ASSUME IInv, NEW t \in Thread, Step(t), In(t, Expr), Len(stack'[t]) < Len(stack[t])
    PROVE  Top(t).ran = 1
<1>0. /\ stack \in [Thread -> Seq(Frame)] /\ stack[t] \in Seq(Frame) /\ stack[t] # << >>
      /\ \A x : [stack EXCEPT ![t] = x][t] = x
      /\ ~ClientCode(t) /\ Top(t) = stack[t][1] /\ Top(t).k \in Expr
  BY ClientIsPlain, InTop DEF IInv, Types, In
<1>1. \A x : Len([stack[t] EXCEPT ![1] = x]) = Len(stack[t])
  <2> SUFFICES ASSUME NEW x PROVE Len([stack[t] EXCEPT ![1] = x]) = Len(stack[t])
    OBVIOUS
  <2> DEFINE X == Frame \union {x}
  <2>1. stack[t] \in Seq(X) /\ x \in X
    BY <1>0
  <2> HIDE DEF X
  <2> QED BY <1>0, <2>1, Replaced
<1>2. ASSUME NEW m, NEW isLast, CallFromExpression(t, m, isLast)
      PROVE  FALSE
  <2>1. CASE Fails("ub")
    BY <1>0, <2>1 DEF Fails
  <2>2. CASE ~Fails("ub")
    <3>1. stack' = [stack EXCEPT ![t][1].ran = @ + 1, ![t][1].done = isLast]
      BY <1>2, <2>2 DEF CallFromExpression
    <3>2. \E x, y : stack'[t] = [[stack[t] EXCEPT ![1] = x] EXCEPT ![1] = y]
      BY <1>0, <3>1
    <3>3. \A x, y : [[stack[t] EXCEPT ![1] = x] EXCEPT ![1] = y] = [stack[t] EXCEPT ![1] = y]
      BY <1>0
    <3> QED BY <1>0, <1>1, <3>2, <3>3
  <2> QED BY <2>1, <2>2
<1>3. CASE \E i \in 1..2 : EvalArg(t, i)
  <2>1. CASE Fails("ub")
    BY <1>0, <2>1 DEF Fails
  <2>2. CASE ~Fails("ub")
    <3>1. PICK i \in 1..2 : stack' = [stack EXCEPT ![t][1].todo = @ \ {i}]
      BY <1>3, <2>2 DEF EvalArg
    <3>2. \E x : stack'[t] = [stack[t] EXCEPT ![1] = x]
      BY <1>0, <3>1
    <3> QED BY <1>0, <1>1, <3>2
  <2> QED BY <2>1, <2>2
<1>4. CASE CallNothing(t)
  <2>1. stack' = [stack EXCEPT ![t][1].done = TRUE]
    BY <1>4 DEF CallNothing
  <2>2. \E x : stack'[t] = [stack[t] EXCEPT ![1] = x]
    BY <1>0, <2>1
  <2> QED BY <1>0, <1>1, <2>2
<1>5. CASE EndWhen(t) \/ EndVerify(t)
  <2>1. mock_called[t] = 1
    BY <1>0, <1>5 DEF EndWhen, EndVerify, Fails
  <2> QED BY <1>0, <2>1 DEF IInv, LocalInv, Local
<1>6. CASE CallMocked(t) \/ \E m \in Mock : ExtraCall(t, m)
  BY <1>2, <1>6 DEF CallMocked, ExtraCall
<1>7. CASE Serialized(t) \/ CallbackReturns(t) \/ StubReturns(t)
  BY <1>0, <1>7 DEF Serialized, CallbackReturns, StubReturns, In, Expr
<1> QED BY <1>0, <1>3, <1>4, <1>5, <1>6, <1>7
        DEF Step, Create, Reset, Call, CallStub, BeginExpression, BeginWhen, BeginVerify

(* A mmk_when or a mmk_verify that comes to its end without a panic ran    *)
(* exactly one stub body: no count is ever carried over from one           *)
(* expression to another (mock.c:41-54).                                   *)
THEOREM OneCall == Spec => OneCallPerExpression
<1> DEFINE A == \A t \in Thread :
                   In(t, {"when", "verify"}) /\ Len(stack'[t]) < Len(stack[t])
                       => Top(t).ran = 1
<1>1. IInv /\ [Next]_vars => A
  <2>1. ASSUME IInv, NEW t \in Thread, Step(t), NEW u \in Thread,
               In(u, Expr), Len(stack'[u]) < Len(stack[u])
        PROVE  Top(u).ran = 1
    <3>1. u = t
      <4>1. Len(stack[u]) \in Nat
        BY <2>1, InTop DEF IInv
      <4> QED BY <2>1, <4>1, OtherStacks
    <3> QED BY <2>1, <3>1, OwnStack
  <2>2. ASSUME IInv, UNCHANGED vars, NEW u \in Thread
        PROVE  ~(Len(stack'[u]) < Len(stack[u]))
    <3>1. Len(stack[u]) \in Nat /\ stack' = stack
      BY <2>2, InTop DEF IInv, vars
    <3> QED BY <3>1
  <2> QED BY <2>1, <2>2 DEF Next, Expr
<1>2. IInv /\ [Next]_vars => [A]_vars
  BY <1>1
<1> QED BY <1>2, Invariance, PTL DEF Spec, OneCallPerExpression

-----------------------------------------------------------------------------
(* Client code that Mimick calls back and that uses Mimick itself is that  *)
(* of then_call only: neither the function of a stub nor a serializer.     *)
PlainClients == Reenter \subseteq {"callback"}

LEMMA HeadReplaced ==
    ASSUME NEW s \in Seq(Frame), s # << >>, NEW g
    PROVE  /\ Head([s EXCEPT ![1] = g]) = g
           /\ Len([s EXCEPT ![1] = g]) = Len(s)
           /\ DOMAIN [s EXCEPT ![1] = g] = 1..Len(s)
           /\ \A i \in 2..Len(s) : [s EXCEPT ![1] = g][i] = s[i]
<1> DEFINE X == Frame \union {g}
<1>1. s \in Seq(X) /\ g \in X
  OBVIOUS
<1> HIDE DEF X
<1>2. /\ [s EXCEPT ![1] = g] \in Seq(X)
      /\ [s EXCEPT ![1] = g] # << >> /\ [s EXCEPT ![1] = g][1] = g
      /\ Len([s EXCEPT ![1] = g]) = Len(s)
      /\ DOMAIN [s EXCEPT ![1] = g] = 1..Len(s)
      /\ \A i \in 2..Len(s) : [s EXCEPT ![1] = g][i] = s[i]
  BY <1>1, Replaced
<1> DEFINE r == [s EXCEPT ![1] = g]
<1>3. r \in Seq(X) /\ r # << >> => Head(r) = r[1]
  <2> HIDE DEF r
  <2> QED OBVIOUS
<1> QED BY <1>2, <1>3

(* A reset marks frames and moves none. *)
LEMMA ResetKeeps ==
    ASSUME IInv, NEW t \in Thread, NEW m \in Mock, Reset(t, m), NEW u \in Thread
    PROVE  /\ stack'[u] \in Seq(Frame) /\ DOMAIN stack'[u] = DOMAIN stack[u]
           /\ \A i \in DOMAIN stack[u] : stack'[u][i] = Stale(stack[u][i], m)
           /\ stack'[u] = << >> <=> stack[u] = << >>
           /\ stack[u] # << >> => Top(u)'.k = Top(u).k
           /\ stack[u] # << >> /\ Top(u).k # "callback" => Top(u)' = Top(u)
<1>1. /\ stack[u] \in Seq(Frame)
      /\ stack'[u] = [i \in DOMAIN stack[u] |-> Stale(stack[u][i], m)]
  BY DEF Reset, IInv, Types
<1> DEFINE s == stack[u]
           r == stack'[u]
<1>2. s \in Seq(Frame) /\ r \in Seq(Frame) /\ DOMAIN r = DOMAIN s
      /\ \A i \in DOMAIN s : r[i] = Stale(s[i], m)
  <2>1. \A i \in DOMAIN s : Stale(s[i], m) \in Frame
    BY <1>1, StaleFrame
  <2> QED BY <1>1, <2>1
<1>3. Top(u) = Head(s) /\ Top(u)' = Head(r)
  BY DEF Top
<1> HIDE DEF s, r
<1>4. /\ \A i \in DOMAIN s : r[i].k = s[i].k /\ (s[i].k # "callback" => r[i] = s[i])
      /\ r = << >> <=> s = << >>
  BY <1>2, StaleStack
<1>5. s # << >> => 1 \in DOMAIN s /\ Head(s) = s[1] /\ Head(r) = r[1]
  BY <1>2, <1>4
<1> QED BY <1>2, <1>3, <1>4, <1>5 DEF s, r

LEMMA OwnStep ==
    ASSUME IInv, OwnContext, PlainClients, NEW t \in Thread, Step(t)
    PROVE  OwnContext'
<1> DEFINE K == {"stub", "serialize"}
<1>0. /\ stack \in [Thread -> Seq(Frame)] /\ stack[t] \in Seq(Frame)
      /\ mmk_ctx \in [Thread -> Mock \union StubFn \union {NULL}]
      /\ \A x : [stack EXCEPT ![t] = x][t] = x
      /\ \A x, u : u # t => [stack EXCEPT ![t] = x][u] = stack[u]
      /\ \A x, u : u # t => [mmk_ctx EXCEPT ![t] = x][u] = mmk_ctx[u]
      /\ \A x : [mmk_ctx EXCEPT ![t] = x][t] = x
  BY DEF IInv, Types
<1>1. ASSUME NEW s, stack' = [stack EXCEPT ![t] = s],
             mmk_ctx' = mmk_ctx \/ \E x : mmk_ctx' = [mmk_ctx EXCEPT ![t] = x],
             s # << >> => Head(s).k \notin K
      PROVE  OwnContext'
  BY <1>0, <1>1 DEF OwnContext, In, Top
<1>2. CASE stack' = stack /\ (mmk_ctx' = mmk_ctx \/ ~In(t, K))
           /\ (mmk_ctx' = mmk_ctx \/ \E x : mmk_ctx' = [mmk_ctx EXCEPT ![t] = x])
  BY <1>0, <1>2 DEF OwnContext, In, Top
<1>3. \A how : Fails(how) => OwnContext'
  BY <1>2 DEF Fails
<1>4. ASSUME NEW f, NEW m, f.m = m, stack' = [stack EXCEPT ![t] = <<f>> \o stack[t]],
             mmk_ctx' = [mmk_ctx EXCEPT ![t] = m]
      PROVE  OwnContext'
  <2>1. Head(<<f>> \o stack[t]) = f
    BY <1>0
  <2> QED BY <1>0, <1>4, <2>1 DEF OwnContext, In, Top
<1>5. Tail(stack[t]) # << >> /\ stack[t] # << >> =>
          /\ Head(Tail(stack[t])) = Tail(stack[t])[1] /\ Tail(stack[t])[1].k \in Reenter
  <2>1. ASSUME stack[t] # << >>, Tail(stack[t]) # << >>
        PROVE  /\ Head(Tail(stack[t])) = Tail(stack[t])[1]
               /\ Tail(stack[t])[1].k \in Reenter
    <3>1. Local(stack[t], matcher_ctx[t], mock_called[t])
      BY DEF IInv, LocalInv
    <3>2. Tail(stack[t])[1].k \in Reenter
      BY <1>0, <2>1, <3>1, PopFrame
    <3> QED BY <1>0, <2>1, <3>2
  <2> QED BY <2>1
<1>6. ClientCode(t) => ~In(t, K) /\ matcher_ctx[t] = NULL
                       /\ (stack[t] # << >> => Head(stack[t]).k \notin K)
  <2> SUFFICES ASSUME ClientCode(t)
               PROVE  ~In(t, K) /\ matcher_ctx[t] = NULL
                      /\ (stack[t] # << >> => Head(stack[t]).k \notin K)
    OBVIOUS
  <2>1. matcher_ctx[t] = NULL
    BY ClientIsPlain
  <2>2. stack[t] # << >> => Head(stack[t]).k \in Reenter
    BY DEF ClientCode, Top
  <2> QED BY <2>1, <2>2 DEF PlainClients, In, Top
<1>7. ASSUME NEW m, NEW c, NEW args, NEW rest, RecordAndAnswer(t, m, c, args, rest),
             rest \in Seq(Frame), rest # << >> => Head(rest).k \notin K
      PROVE  OwnContext'
  <2>1. CASE c \notin Mock \/ mock[c] = NULL
    BY <1>3, <1>7, <2>1 DEF RecordAndAnswer
  <2>2. CASE c \in Mock /\ mock[c] # NULL
    <3>1. /\ mmk_ctx' = [mmk_ctx EXCEPT ![t] = c]
          /\ \E f : /\ f.k = "callback"
                    /\ \/ stack' = [stack EXCEPT ![t] = <<f>> \o rest]
                       \/ stack' = [stack EXCEPT ![t] = rest]
      <4> DEFINE params == mock[c].params
                 i == SelectInSeq(params, LAMBDA p : Governs(m, p, args))
                 result == IF i = 0 THEN NULL ELSE params[i].result
                 f == [k |-> "callback", m |-> c, stale |-> FALSE,
                       reads |-> result.then_return # NULL]
      <4>1. /\ mmk_ctx' = [mmk_ctx EXCEPT ![t] = c]
            /\ stack' = [stack EXCEPT ![t] =
                           IF i # 0 /\ result.then_call THEN <<f>> \o rest ELSE rest]
        BY <1>7, <2>2 DEF RecordAndAnswer
      <4>2. f.k = "callback"
        OBVIOUS
      <4> HIDE DEF f, i, result
      <4> QED BY <4>1, <4>2
    <3>2. PICK f : /\ f.k = "callback"
                   /\ \/ stack' = [stack EXCEPT ![t] = <<f>> \o rest]
                      \/ stack' = [stack EXCEPT ![t] = rest]
      BY <3>1
    <3>3. Head(<<f>> \o rest) = f
      BY <1>7
    <3> QED BY <1>1, <1>7, <3>1, <3>2, <3>3
  <2> QED BY <2>1, <2>2
<1>8. ASSUME In(t, Expr), NEW g, g.k = Top(t).k,
             stack' = [stack EXCEPT ![t] = [stack[t] EXCEPT ![1] = g]],
             mmk_ctx' = mmk_ctx \/ \E x : mmk_ctx' = [mmk_ctx EXCEPT ![t] = x]
      PROVE  OwnContext'
  <2>1. stack[t] # << >> /\ Top(t).k \in Expr
    BY <1>8 DEF In
  <2>2. Head([stack[t] EXCEPT ![1] = g]) = g
    BY <1>0, <2>1, HeadReplaced
  <2> QED BY <1>1, <1>8, <2>1, <2>2 DEF Expr
<1>9. In(t, Expr) =>
         LET f == Top(t)
         IN  /\ \A x : [f EXCEPT !.todo = x].k = f.k /\ [f EXCEPT !.done = x].k = f.k
             /\ \A x, y : [[f EXCEPT !.ran = x] EXCEPT !.done = y].k = f.k
  BY InTop, FrameKinds DEF IInv, In
<1>10. ASSUME NEW m, NEW isLast, CallFromExpression(t, m, isLast)
       PROVE  OwnContext'
  <2>1. CASE Fails("ub")
    BY <1>3, <2>1
  <2>2. CASE ~Fails("ub")
    <3> DEFINE f == stack[t][1]
               g == [[f EXCEPT !.ran = @ + 1] EXCEPT !.done = isLast]
    <3>1. /\ stack' = [stack EXCEPT ![t][1].ran = @ + 1, ![t][1].done = isLast]
          /\ mmk_ctx' = [mmk_ctx EXCEPT ![t] = m]
          /\ In(t, Expr)
      BY <1>10, <2>2 DEF CallFromExpression, MatcherModeCall, Expr
    <3>2. Top(t) = f /\ 1 \in DOMAIN stack[t]
      BY <3>1, InTop DEF IInv
    <3>3. stack' = [stack EXCEPT ![t] = [stack[t] EXCEPT ![1] = g]]
      <4>1. [stack[t] EXCEPT ![1].ran = @ + 1, ![1].done = isLast] =
                [stack[t] EXCEPT ![1] = [f EXCEPT !.ran = @ + 1, !.done = isLast]]
        BY <3>2
      <4>2. stack' = [stack EXCEPT ![t] = [stack[t] EXCEPT ![1] = g]]
        BY <1>0, <3>1, <4>1
      <4> QED BY <4>2
    <3>4. g.k = Top(t).k
      BY <1>9, <3>1, <3>2
    <3> HIDE DEF g
    <3> QED BY <1>8, <3>1, <3>3, <3>4
  <2> QED BY <2>1, <2>2
<1>11. ASSUME NEW i \in 1..2, EvalArg(t, i)
       PROVE  OwnContext'
  <2>1. CASE Fails("ub")
    BY <1>3, <2>1
  <2>2. CASE ~Fails("ub")
    <3> DEFINE f == stack[t][1]
               g == [f EXCEPT !.todo = @ \ {i}]
    <3>1. /\ stack' = [stack EXCEPT ![t][1].todo = @ \ {i}]
          /\ mmk_ctx' = mmk_ctx /\ In(t, Expr)
      BY <1>11, <2>2 DEF EvalArg, Expr
    <3>2. Top(t) = f
      BY <3>1, InTop DEF IInv
    <3>3. stack' = [stack EXCEPT ![t] = [stack[t] EXCEPT ![1] = g]]
      BY <3>1
    <3>4. g.k = Top(t).k
      BY <1>9, <3>1, <3>2
    <3> HIDE DEF g
    <3> QED BY <1>8, <3>1, <3>3, <3>4
  <2> QED BY <2>1, <2>2
<1>12. CASE CallNothing(t)
  <2> DEFINE f == stack[t][1]
             g == [f EXCEPT !.done = TRUE]
  <2>1. /\ stack' = [stack EXCEPT ![t][1].done = TRUE]
        /\ mmk_ctx' = mmk_ctx /\ In(t, Expr)
    BY <1>12 DEF CallNothing, Expr
  <2>2. Top(t) = f
    BY <2>1, InTop DEF IInv
  <2>3. stack' = [stack EXCEPT ![t] = [stack[t] EXCEPT ![1] = g]]
    BY <2>1
  <2>4. g.k = Top(t).k
    BY <1>9, <2>1, <2>2
  <2> HIDE DEF g
  <2> QED BY <1>8, <2>1, <2>3, <2>4
<1>13. ASSUME stack[t] # << >>, stack' = [stack EXCEPT ![t] = Tail(stack[t])],
              mmk_ctx' = mmk_ctx
       PROVE  OwnContext'
  BY <1>1, <1>5, <1>13 DEF PlainClients
<1>14. CASE EndWhen(t) \/ EndVerify(t) \/ CallbackReturns(t) \/ StubReturns(t)
  BY <1>3, <1>13, <1>14 DEF EndWhen, EndVerify, CallbackReturns, StubReturns, Pop, In
<1>15. CASE Serialized(t)
  <2>1. stack[t] # << >> /\ Tail(stack[t]) \in Seq(Frame)
    BY <1>0, <1>15 DEF Serialized, In
  <2>2. Tail(stack[t]) # << >> => Head(Tail(stack[t])).k \notin K
    BY <1>5, <2>1 DEF PlainClients
  <2> QED BY <1>7, <1>15, <2>1, <2>2 DEF Serialized
<1>16. ASSUME NEW m \in Mock, NEW a \in Args, Call(t, m, a)
       PROVE  OwnContext'
  <2>1. ClientCode(t) /\ matcher_ctx[t] = NULL
    BY <1>6, <1>16 DEF Call
  <2>2. CASE m \in Variadic
    <3>1. /\ stack' = [stack EXCEPT
                         ![t] = <<[k |-> "serialize", m |-> m, args |-> a]>> \o stack[t]]
          /\ mmk_ctx' = [mmk_ctx EXCEPT ![t] = m]
      BY <1>16, <2>1, <2>2 DEF Call, Push
    <3> QED BY <1>4, <3>1
  <2>3. CASE m \notin Variadic
    BY <1>0, <1>6, <1>7, <1>16, <2>1, <2>3 DEF Call
  <2> QED BY <2>2, <2>3
<1>17. ASSUME NEW s \in StubFn, CallStub(t, s)
       PROVE  OwnContext'
  <2>1. /\ stack' = [stack EXCEPT ![t] = <<[k |-> "stub", m |-> s]>> \o stack[t]]
        /\ mmk_ctx' = [mmk_ctx EXCEPT ![t] = s]
    BY <1>17 DEF CallStub, Push
  <2> QED BY <1>4, <2>1
<1>18. ASSUME NEW k \in Expr, NEW e,
              stack' = [stack EXCEPT ![t] = <<CallExpr(k, e)>> \o stack[t]],
              mmk_ctx' = mmk_ctx
       PROVE  OwnContext'
  <2>1. Head(<<CallExpr(k, e)>> \o stack[t]) = CallExpr(k, e)
    BY <1>0
  <2>2. CallExpr(k, e).k \notin K
    BY DEF CallExpr, Expr
  <2> QED BY <1>1, <1>18, <2>1, <2>2
<1>19. CASE BeginExpression(t)
  BY <1>18, <1>19 DEF BeginExpression, BeginWhen, BeginVerify, Push, Expr
<1>20. ASSUME NEW m \in Mock, Create(t, m)
       PROVE  OwnContext'
  BY <1>2, <1>6, <1>20 DEF Create
<1>21. ASSUME NEW m \in Mock, Reset(t, m)
       PROVE  OwnContext'
  <2> SUFFICES ASSUME NEW u \in Thread, In(u, K)' PROVE mmk_ctx'[u] = Top(u)'.m
    BY DEF OwnContext
  <2>1. In(u, K) /\ Top(u)' = Top(u)
    BY <1>21, ResetKeeps DEF In
  <2>2. u # t
    BY <1>6, <1>21, <2>1 DEF Reset
  <2> QED BY <1>0, <1>21, <2>1, <2>2 DEF Reset, OwnContext
<1>22. CASE CallMocked(t) \/ \E m \in Mock : ExtraCall(t, m)
  BY <1>10, <1>22 DEF CallMocked, ExtraCall
<1> QED BY <1>11, <1>12, <1>14, <1>15, <1>16, <1>17, <1>19, <1>20, <1>21, <1>22 DEF Step

(* While the function of a stub runs, and while a stub body serializes its *)
(* variadic arguments, mmk_ctx() answers with that very stub, whatever the *)
(* other threads do (mimick.h:55-62).                                      *)
THEOREM ContextIsOwn == ASSUME PlainClients PROVE Spec => []OwnContext
<1>1. Init => OwnContext
  BY DEF Init, OwnContext, In
<1>2. IInv /\ OwnContext /\ [Next]_vars => OwnContext'
  <2>1. ASSUME UNCHANGED vars, OwnContext PROVE OwnContext'
    BY <2>1 DEF vars, OwnContext, In, Top
  <2> QED BY <2>1, OwnStep DEF Next
<1> QED BY <1>1, <1>2, Invariance, PTL DEF Spec

-----------------------------------------------------------------------------
(* Client code calls exactly one function in a call expression, and resets *)
(* no mock that a frame still goes back to.                                *)
CarefulClients == ~Misuse /\ ~ResetInUse /\ PlainClients

(* What a frame goes back to is still there.                               *)
Mocked == {m \in Mock : mock[m] # NULL}
SafeFrame(f, M) == /\ f.k = "callback" /\ f.reads => ~f.stale
                   /\ f.k = "serialize" => f.m \in M
SafeStack(s, M) == \A i \in DOMAIN s : SafeFrame(s[i], M)
SafeInv == \A t \in Thread : SafeStack(stack[t], Mocked)

LEMMA SafeStacks ==
    ASSUME NEW s \in Seq(Frame), NEW M, SafeStack(s, M), NEW f, SafeFrame(f, M)
    PROVE  /\ SafeStack(<<f>> \o s, M)
           /\ s # << >> => SafeStack(Tail(s), M) /\ SafeStack([s EXCEPT ![1] = f], M)
<1>1. SafeStack(<<f>> \o s, M)
  <2> DEFINE X == Frame \union {f}
             r == <<f>> \o s
  <2>1. s \in Seq(X) /\ f \in X
    OBVIOUS
  <2> HIDE DEF X
  <2>2. /\ r[1] = f /\ DOMAIN r = 1..Len(s) + 1
        /\ \A i \in 2..Len(s) + 1 : r[i] = s[i - 1]
    BY <2>1, Pushed
  <2> HIDE DEF r
  <2>3. \A i \in 2..Len(s) + 1 : i - 1 \in DOMAIN s
    OBVIOUS
  <2>4. \A i \in DOMAIN r : i = 1 \/ i \in 2..Len(s) + 1
    BY <2>2
  <2>5. SafeStack(r, M)
    BY <2>2, <2>3, <2>4 DEF SafeStack
  <2> QED BY <2>5 DEF r
<1>2. ASSUME s # << >>
      PROVE  SafeStack(Tail(s), M)
  <2>1. DOMAIN Tail(s) = 1..Len(s) - 1 /\ \A i \in 1..Len(s) - 1 : Tail(s)[i] = s[i + 1]
    BY <1>2, Popped
  <2>2. \A i \in 1..Len(s) - 1 : i + 1 \in DOMAIN s
    OBVIOUS
  <2> QED BY <2>1, <2>2 DEF SafeStack
<1>3. ASSUME s # << >>
      PROVE  SafeStack([s EXCEPT ![1] = f], M)
  BY DEF SafeStack
<1> QED BY <1>1, <1>2, <1>3

LEMMA SafeRest ==
    ASSUME NEW s \in Seq(Frame), NEW M, SafeStack(s, M), s # << >>
    PROVE  SafeStack(Tail(s), M)
<1>1. SafeFrame([k |-> "stub"], M)
  BY DEF SafeFrame
<1> QED BY <1>1, SafeStacks

(* A mock is there until it is reset. *)
OtherStep(t) ==
    \/ \E m \in Mock : Create(t, m) \/ ExtraCall(t, m)
    \/ \E m \in Mock, a \in Args : Call(t, m, a)
    \/ \E s \in StubFn : CallStub(t, s)
    \/ BeginExpression(t)
    \/ \E i \in 1..2 : EvalArg(t, i)
    \/ CallMocked(t) \/ CallNothing(t) \/ EndWhen(t) \/ EndVerify(t)
    \/ Serialized(t) \/ CallbackReturns(t) \/ StubReturns(t)

LEMMA MockedStays ==
    ASSUME IInv, NEW t \in Thread, OtherStep(t), NEW m \in Mock, mock[m] # NULL
    PROVE  mock'[m] # NULL
<1>0. mock \in [Mock -> MockCtx \union {NULL}]
      /\ \A n \in Mock \ {m} : \A x : [mock EXCEPT ![n] = x][m] = mock[m]
  BY DEF IInv, Types
<1>1. ASSUME NEW f, NEW c, NEW args \in Args, NEW rest, RecordAndAnswer(t, f, c, args, rest)
      PROVE  mock'[m] # NULL
  <2>1. CASE c \notin Mock \/ mock[c] = NULL
    BY <1>1, <2>1 DEF RecordAndAnswer, Fails
  <2>2. CASE c \in Mock /\ mock[c] # NULL
    <3>1. [mock[c] EXCEPT !.calls[args] = @ + 1] \in MockCtx
      BY <2>2, RecordType DEF IInv
    <3>2. mock' = [mock EXCEPT ![c].calls[args] = @ + 1]
      BY <1>1, <2>2 DEF RecordAndAnswer
    <3> QED BY <1>0, <2>2, <3>1, <3>2, NullApart
  <2> QED BY <2>1, <2>2
<1>2. ASSUME In(t, Expr), NEW list \in Seq(Node), NEW by \in Thread \union {NULL},
             mock' = ShareList(t, list, by)
      PROVE  mock'[m] # NULL
  <2>1. Types
    BY DEF IInv
  <2>2. ShareList(t, list, by)[m] \in MockCtx
    BY <2>1, ShareOne
  <2> QED BY <1>2, <2>2, NullApart
<1>3. In(t, Expr) => /\ matcher_ctx[t] \in MatcherCtx /\ matcher_ctx[t].list \in Seq(Node)
                     /\ Top(t) = stack[t][1] /\ Top(t) \in Frame
                     /\ Progress(Top(t), matcher_ctx[t])
  <2>1. In(t, Expr) => matcher_ctx[t] \in MatcherCtx
                       /\ Progress(Top(t), matcher_ctx[t])
    BY InTop DEF IInv, LocalInv, Local, Progress, Types
  <2> QED BY <2>1, InTop DEF MatcherCtx, IInv
<1>4. ASSUME NEW n \in Mock, NEW isLast, CallFromExpression(t, n, isLast)
      PROVE  mock'[m] # NULL
  <2>1. CASE matcher_ctx[t].freed
    BY <1>4, <2>1 DEF CallFromExpression, Fails
  <2>2. CASE ~matcher_ctx[t].freed
    <3> DEFINE f == Top(t)
    <3>1. /\ In(t, Expr) /\ mock[n] # NULL
          /\ IF matcher_ctx[t].kind = 0 THEN Bind(t, n, f.e.refs, f.e)
                                        ELSE Count(t, n, f.e.refs)
      BY <1>4, <2>2 DEF CallFromExpression, MatcherModeCall, Expr
    <3>2. CASE matcher_ctx[t].kind = 0
      <4>1. f.k = "when" /\ In(t, {"when"})
        BY <1>3, <3>1, <3>2 DEF Progress, In, Expr
      <4>2. f.e \in WhenExpr /\ cur_result[t] = f.e.result
        BY <1>3, <3>1, <4>1, FrameKinds DEF IInv, Waiting
      <4>3. Bind(t, n, f.e.refs, f.e)
        BY <3>1, <3>2
      <4> HIDE DEF f
      <4>4. mock'[n] # NULL /\ \A o \in Mock \ {n} : mock'[o] = mock[o]
        BY <1>3, <3>1, <4>2, <4>3, BindType DEF IInv
      <4> QED BY <4>4
    <3>3. CASE matcher_ctx[t].kind # 0
      BY <3>1, <3>3 DEF Count
    <3> QED BY <3>2, <3>3
  <2> QED BY <2>1, <2>2
<1>5. ASSUME NEW i \in 1..2, EvalArg(t, i)
      PROVE  mock'[m] # NULL
  <2>1. CASE matcher_ctx[t].freed
    BY <1>5, <2>1 DEF EvalArg, Fails
  <2>2. CASE ~matcher_ctx[t].freed
    <3> DEFINE e == Top(t).e
               list == mmk_matcher_add(matcher_ctx[t].list, Matcher(e.kinds[i], i, e.pred))
    <3>1. In(t, Expr) /\ mock' = ShareList(t, list, t) /\ i \in Top(t).todo
      BY <1>5, <2>2 DEF EvalArg, Expr
    <3>2. e \in WhenExpr \union VerifyExpr /\ i \in DOMAIN e.kinds
      BY <1>3, <3>1, FrameKinds DEF Progress, In, Expr
    <3>3. Matcher(e.kinds[i], i, e.pred) \in Node
      BY <3>2 DEF Node
    <3>4. list \in Seq(Node)
      BY <1>3, <3>1, <3>3, AddGrows
    <3> HIDE DEF list
    <3> QED BY <1>2, <3>1, <3>4
  <2> QED BY <2>1, <2>2
<1>6. CASE EndWhen(t)
  <2>1. CASE Fails("panic")
    BY <2>1 DEF Fails
  <2>2. CASE ~Fails("panic")
    <3>1. In(t, Expr) /\ mock' = ShareList(t, matcher_ctx[t].list, NULL)
      BY <1>6, <2>2 DEF EndWhen, In, Expr
    <3> QED BY <1>2, <1>3, <3>1
  <2> QED BY <2>1, <2>2
<1>7. CASE EndVerify(t) \/ CallNothing(t) \/ CallbackReturns(t) \/ StubReturns(t)
  BY <1>7 DEF EndVerify, CallNothing, CallbackReturns, StubReturns, Fails
<1>8. ASSUME NEW n \in Mock, NEW a \in Args, Call(t, n, a)
      PROVE  mock'[m] # NULL
  <2>1. matcher_ctx[t] = NULL
    BY <1>8, ClientIsPlain DEF Call
  <2> QED BY <1>1, <1>8, <2>1 DEF Call
<1>9. CASE Serialized(t)
  <2>1. Top(t).args \in Args
    BY <1>9, InTop, FrameKinds DEF Serialized, In, IInv
  <2> QED BY <1>1, <1>9, <2>1 DEF Serialized
<1>10. CASE CallMocked(t)
  <2>1. Top(t).e.mock \in Mock
    BY <1>10, InTop, FrameKinds DEF CallMocked, In, IInv, Expr
  <2> QED BY <1>4, <1>10, <2>1 DEF CallMocked
<1>11. ASSUME NEW n \in Mock, Create(t, n) \/ ExtraCall(t, n)
       PROVE  mock'[m] # NULL
  BY <1>0, <1>4, <1>11 DEF Create, ExtraCall
<1>12. CASE BeginExpression(t) \/ \E s \in StubFn : CallStub(t, s)
  BY <1>12 DEF BeginExpression, BeginWhen, BeginVerify, CallStub
<1> QED BY <1>5, <1>6, <1>7, <1>8, <1>9, <1>10, <1>11, <1>12 DEF OtherStep

LEMMA SafeOther ==
    ASSUME IInv, OwnContext, SafeInv, CarefulClients, status = "ok",
           NEW t \in Thread, OtherStep(t)
    PROVE  SafeInv' /\ status' # "ub"
<1>0. /\ stack \in [Thread -> Seq(Frame)] /\ stack[t] \in Seq(Frame)
      /\ \A x : [stack EXCEPT ![t] = x][t] = x
      /\ \A x, u : u # t => [stack EXCEPT ![t] = x][u] = stack[u]
      /\ SafeStack(stack[t], Mocked)
  BY DEF IInv, Types, SafeInv
<1>1. Mocked \subseteq Mocked'
  BY MockedStays DEF Mocked
<1>2. ASSUME NEW s, SafeStack(s, Mocked), stack' = [stack EXCEPT ![t] = s]
      PROVE  SafeInv'
  <2>1. \A f : SafeFrame(f, Mocked) => SafeFrame(f, Mocked')
    BY <1>1, <1>2 DEF SafeFrame
  <2>2. \A r : SafeStack(r, Mocked) => SafeStack(r, Mocked')
    BY <2>1 DEF SafeStack
  <2> QED BY <1>0, <1>2, <2>2 DEF SafeInv
<1>3. In(t, Expr) => Progress(Top(t), matcher_ctx[t]) /\ Top(t) = stack[t][1]
                     /\ Top(t).done \in BOOLEAN
                     /\ ~(matcher_ctx[t].freed /\ ~Top(t).done)
                     /\ ~(matcher_ctx[t].freed /\ Top(t).todo # {})
  <2> SUFFICES ASSUME In(t, Expr)
               PROVE  Progress(Top(t), matcher_ctx[t]) /\ Top(t) = stack[t][1]
                      /\ Top(t).done \in BOOLEAN
                      /\ ~(matcher_ctx[t].freed /\ ~Top(t).done)
                      /\ ~(matcher_ctx[t].freed /\ Top(t).todo # {})
    OBVIOUS
  <2>1. Progress(Top(t), matcher_ctx[t]) /\ Top(t) = stack[t][1] /\ Top(t) \in Frame
    BY InTop DEF IInv, LocalInv, Local
  <2>2. Top(t).done \in BOOLEAN
    BY <2>1, FrameKinds DEF In
  <2> QED BY <2>1, <2>2 DEF Progress, CarefulClients
<1>4. ASSUME In(t, Expr), NEW g, g.k \in Expr,
             stack' = [stack EXCEPT ![t] = [stack[t] EXCEPT ![1] = g]]
      PROVE  SafeInv'
  <2>1. stack[t] # << >>
    BY <1>4 DEF In
  <2>2. SafeFrame(g, Mocked)
    BY <1>4 DEF SafeFrame, Expr
  <2>3. SafeStack([stack[t] EXCEPT ![1] = g], Mocked)
    BY <1>0, <2>1, <2>2, SafeStacks
  <2> QED BY <1>2, <1>4, <2>1, <2>3
<1>5. In(t, Expr) =>
         LET f == Top(t)
         IN  /\ \A x : [f EXCEPT !.todo = x].k = f.k /\ [f EXCEPT !.done = x].k = f.k
             /\ \A x, y : [[f EXCEPT !.ran = x] EXCEPT !.done = y].k = f.k
             /\ f.k \in Expr
  BY InTop, FrameKinds DEF IInv, In
<1>6. ASSUME NEW m, NEW isLast \in BOOLEAN,
             CallFromExpression(t, m, isLast)
      PROVE  SafeInv' /\ status' # "ub"
  <2> DEFINE f == stack[t][1]
             g == [[f EXCEPT !.ran = @ + 1] EXCEPT !.done = isLast]
  <2>1. In(t, Expr) /\ ~Top(t).done
    BY <1>6 DEF CallFromExpression, Expr
  <2>2. /\ stack' = [stack EXCEPT ![t][1].ran = @ + 1, ![t][1].done = isLast]
        /\ status' = status
    BY <1>3, <1>6, <2>1 DEF CallFromExpression, MatcherModeCall
  <2>3. Top(t) = f /\ 1 \in DOMAIN stack[t]
    BY <2>1, InTop DEF IInv
  <2>4. stack' = [stack EXCEPT ![t] = [stack[t] EXCEPT ![1] = g]]
    <3>1. [stack[t] EXCEPT ![1].ran = @ + 1, ![1].done = isLast] =
              [stack[t] EXCEPT ![1] = [f EXCEPT !.ran = @ + 1, !.done = isLast]]
      BY <2>3
    <3>2. stack' = [stack EXCEPT ![t] = [stack[t] EXCEPT ![1] = g]]
      BY <1>0, <2>2, <3>1
    <3> QED BY <3>2
  <2>5. g.k \in Expr
    BY <1>5, <2>1, <2>3
  <2> HIDE DEF g
  <2> QED BY <1>4, <2>1, <2>2, <2>4, <2>5
<1>7. ASSUME NEW i \in 1..2, EvalArg(t, i)
      PROVE  SafeInv' /\ status' # "ub"
  <2> DEFINE f == stack[t][1]
             g == [f EXCEPT !.todo = @ \ {i}]
  <2>1. In(t, Expr) /\ i \in Top(t).todo
    BY <1>7 DEF EvalArg, Expr
  <2>2. stack' = [stack EXCEPT ![t][1].todo = @ \ {i}] /\ status' = status
    BY <1>3, <1>7, <2>1 DEF EvalArg
  <2>3. Top(t) = f
    BY <2>1, InTop DEF IInv
  <2>4. stack' = [stack EXCEPT ![t] = [stack[t] EXCEPT ![1] = g]]
    BY <2>2
  <2>5. g.k \in Expr
    BY <1>5, <2>1, <2>3
  <2> HIDE DEF g
  <2> QED BY <1>4, <2>1, <2>2, <2>4, <2>5
<1>8. CASE CallNothing(t)
  BY <1>8 DEF CallNothing, CarefulClients
<1>9. CASE EndWhen(t) \/ EndVerify(t)
  <2>1. In(t, Expr) /\ stack[t] # << >>
    BY <1>9 DEF EndWhen, EndVerify, In, Expr
  <2>2. CASE Fails("panic")
    <3>1. stack' = [stack EXCEPT ![t] = stack[t]]
      BY <1>0, <2>2 DEF Fails
    <3> QED BY <1>0, <1>2, <2>1, <2>2, <3>1 DEF Fails
  <2>3. CASE ~Fails("panic")
    <3>1. stack' = [stack EXCEPT ![t] = Tail(stack[t])] /\ status' = status
      BY <1>9, <2>3 DEF EndWhen, EndVerify, Pop
    <3>2. SafeStack(Tail(stack[t]), Mocked)
      BY <1>0, <2>1, SafeRest
    <3> QED BY <1>2, <2>1, <3>1, <3>2
  <2> QED BY <2>2, <2>3
<1>10. ASSUME NEW m, NEW c, NEW args \in Args, NEW rest \in Seq(Frame),
              c \in Mock, mock[c] # NULL, SafeStack(rest, Mocked),
              RecordAndAnswer(t, m, c, args, rest)
       PROVE  SafeInv' /\ status' # "ub"
  <2> DEFINE params == mock[c].params
             i == SelectInSeq(params, LAMBDA p : Governs(m, p, args))
             result == IF i = 0 THEN NULL ELSE params[i].result
             f == [k |-> "callback", m |-> c, stale |-> FALSE,
                   reads |-> result.then_return # NULL]
             s == IF i # 0 /\ result.then_call THEN <<f>> \o rest ELSE rest
  <2>1. stack' = [stack EXCEPT ![t] = s] /\ status' = status
    BY <1>10 DEF RecordAndAnswer
  <2>2. SafeFrame(f, Mocked)
    BY DEF SafeFrame
  <2> HIDE DEF f, i, result
  <2>3. SafeStack(s, Mocked)
    BY <1>10, <2>2, SafeStacks
  <2> HIDE DEF s
  <2> QED BY <1>2, <1>10, <2>1, <2>3
<1>11. ASSUME NEW f, SafeFrame(f, Mocked),
              stack' = [stack EXCEPT ![t] = <<f>> \o stack[t]], status' = status
       PROVE  SafeInv' /\ status' # "ub"
  <2>1. SafeStack(<<f>> \o stack[t], Mocked)
    BY <1>0, <1>11, SafeStacks
  <2> QED BY <1>2, <1>11, <2>1
<1>12. ASSUME stack' = stack
       PROVE  SafeInv'
  <2>1. stack' = [stack EXCEPT ![t] = stack[t]]
    BY <1>0, <1>12
  <2> QED BY <1>0, <1>2, <2>1
<1>13. CASE BeginExpression(t)
  <2>1. /\ status' = status
        /\ \E k \in Expr : \E e :
              stack' = [stack EXCEPT ![t] = <<CallExpr(k, e)>> \o stack[t]]
    BY <1>13 DEF BeginExpression, BeginWhen, BeginVerify, Push, Expr
  <2>2. \A k \in Expr : \A e : SafeFrame(CallExpr(k, e), Mocked)
    BY DEF SafeFrame, CallExpr, Expr
  <2> QED BY <1>11, <2>1, <2>2
<1>14. ASSUME NEW s \in StubFn, CallStub(t, s)
       PROVE  SafeInv' /\ status' # "ub"
  <2>1. /\ stack' = [stack EXCEPT ![t] = <<[k |-> "stub", m |-> s]>> \o stack[t]]
        /\ status' = status
    BY <1>14 DEF CallStub, Push
  <2>2. SafeFrame([k |-> "stub", m |-> s], Mocked)
    BY DEF SafeFrame
  <2> QED BY <1>11, <2>1, <2>2
<1>15. ASSUME NEW m \in Mock, NEW a \in Args, Call(t, m, a)
       PROVE  SafeInv' /\ status' # "ub"
  <2>1. matcher_ctx[t] = NULL /\ mock[m] # NULL
    BY <1>15, ClientIsPlain DEF Call
  <2>2. CASE m \in Variadic
    <3> DEFINE f == [k |-> "serialize", m |-> m, args |-> a]
    <3>1. stack' = [stack EXCEPT ![t] = <<f>> \o stack[t]] /\ status' = status
      BY <1>15, <2>1, <2>2 DEF Call, Push
    <3>2. SafeFrame(f, Mocked)
      BY <2>1 DEF SafeFrame, Mocked
    <3> HIDE DEF f
    <3> QED BY <1>11, <3>1, <3>2
  <2>3. CASE m \notin Variadic
    BY <1>0, <1>10, <1>15, <2>1, <2>3 DEF Call
  <2> QED BY <2>2, <2>3
<1>16. CASE Serialized(t)
  <2>1. /\ In(t, {"serialize"}) /\ stack[t] # << >> /\ Top(t) = stack[t][1]
        /\ 1 \in DOMAIN stack[t] /\ Top(t) \in Frame /\ Top(t).k = "serialize"
    BY <1>16, InTop DEF Serialized, IInv, In
  <2>2. Top(t).args \in Args /\ Top(t).m \in Mock /\ Top(t).m \in Mocked
    BY <1>0, <2>1, FrameKinds DEF SafeStack, SafeFrame
  <2>3. mmk_ctx[t] = Top(t).m
    BY <2>1 DEF OwnContext, In
  <2>4. SafeStack(Tail(stack[t]), Mocked) /\ Tail(stack[t]) \in Seq(Frame)
    BY <1>0, <2>1, SafeRest
  <2>5. mmk_ctx[t] \in Mock /\ mock[mmk_ctx[t]] # NULL
    BY <2>2, <2>3 DEF Mocked
  <2> QED BY <1>10, <1>16, <2>2, <2>4, <2>5 DEF Serialized
<1>17. CASE CallbackReturns(t) \/ StubReturns(t)
  <2>1. /\ stack[t] # << >> /\ Top(t) = stack[t][1] /\ 1 \in DOMAIN stack[t]
        /\ Top(t) \in Frame
    BY <1>17, InTop DEF CallbackReturns, StubReturns, IInv, In
  <2>2. ~(In(t, {"callback"}) /\ Top(t).reads /\ Top(t).stale)
    BY <1>0, <2>1 DEF SafeStack, SafeFrame, In
  <2>3. stack' = [stack EXCEPT ![t] = Tail(stack[t])] /\ status' = status
    BY <1>17, <2>2 DEF CallbackReturns, StubReturns, Pop
  <2> QED BY <1>0, <1>2, <2>1, <2>3, SafeRest
<1>18. ASSUME NEW m \in Mock, Create(t, m)
       PROVE  SafeInv' /\ status' # "ub"
  BY <1>12, <1>18 DEF Create
<1>19. CASE CallMocked(t)
  <2> DEFINE m == Top(t).e.mock
  <2>1. CallFromExpression(t, m, TRUE)
    BY <1>19 DEF CallMocked
  <2>2. TRUE \in BOOLEAN
    OBVIOUS
  <2> HIDE DEF m
  <2> QED BY <1>6, <2>1, <2>2, Zenon
<1>20. ASSUME NEW m \in Mock, ExtraCall(t, m)
       PROVE  SafeInv' /\ status' # "ub"
  BY <1>20 DEF ExtraCall, CarefulClients
<1> QED BY <1>7, <1>8, <1>9, <1>13, <1>14, <1>15, <1>16, <1>17, <1>18, <1>19, <1>20
        DEF OtherStep

LEMMA SafeReset ==
    ASSUME IInv, SafeInv, CarefulClients, status = "ok", NEW t \in Thread,
           NEW m \in Mock, Reset(t, m)
    PROVE  SafeInv' /\ status' # "ub"
<1>1. ASSUME NEW u \in Thread, NEW i \in DOMAIN stack'[u]
      PROVE  SafeFrame(stack'[u][i], Mocked')
  <2> DEFINE f == stack[u][i]
  <2>1. /\ stack[u] \in Seq(Frame) /\ i \in DOMAIN stack[u] /\ f \in Frame
        /\ stack'[u][i] = Stale(f, m)
    <3>1. stack[u] \in Seq(Frame)
      BY DEF IInv, Types
    <3> QED BY <1>1, <3>1, ResetKeeps
  <2>2. SafeFrame(f, Mocked) /\ ~Needs(f, m)
    BY <2>1 DEF SafeInv, SafeStack, Reset, InUse, CarefulClients
  <2> HIDE DEF f
  <2>3. Stale(f, m).k = f.k /\ (f.k # "callback" => Stale(f, m) = f)
    BY <2>1, StaleFrame
  <2>4. CASE f.k = "callback"
    <3>1. /\ Stale(f, m).reads = f.reads /\ f.reads \in BOOLEAN
          /\ Stale(f, m).stale => f.stale \/ f.m = m
      BY <2>1, <2>4, StaleFrame, FrameKinds
    <3> QED BY <2>1, <2>2, <2>3, <2>4, <3>1 DEF SafeFrame, Needs, MockOf
  <2>5. CASE f.k = "serialize"
    <3>1. f.m # m /\ f.m \in Mocked
      BY <2>2, <2>5 DEF Needs, MockOf, SafeFrame
    <3>2. f.m \in Mocked'
      BY <3>1 DEF Reset, Mocked, IInv, Types
    <3> QED BY <2>1, <2>3, <2>5, <3>2 DEF SafeFrame
  <2>6. CASE f.k \notin {"callback", "serialize"}
    BY <2>1, <2>3, <2>6 DEF SafeFrame
  <2> QED BY <2>4, <2>5, <2>6
<1> QED BY <1>1 DEF SafeInv, SafeStack, Reset

(* Where client code keeps to what it may do, no stub body uses a mock, a  *)
(* contract or a matcher that has been freed, whichever mocks the threads  *)
(* and the callbacks create, call, verify and reset meanwhile.             *)
THEOREM MemorySafe == ASSUME CarefulClients PROVE Spec => []NoUseAfterFree
<1> DEFINE Inv == OwnContext /\ SafeInv /\ status # "ub"
<1>1. Init => Inv
  BY DEF Init, OwnContext, In, SafeInv, SafeStack
<1>2. IInv /\ Inv /\ [Next]_vars => Inv'
  <2>1. ASSUME UNCHANGED vars, Inv PROVE Inv'
    BY <2>1 DEF vars, OwnContext, In, Top, SafeInv, Mocked
  <2>2. ASSUME IInv, Inv, Next PROVE Inv'
    <3>1. PICK t \in Thread : Step(t)
      BY <2>2 DEF Next
    <3>2. OtherStep(t) \/ \E m \in Mock : Reset(t, m)
      BY <3>1 DEF Step, OtherStep
    <3>3. status = "ok" /\ PlainClients
      BY <2>2 DEF Next, CarefulClients
    <3> QED BY <2>2, <3>1, <3>2, <3>3, OwnStep, SafeOther, SafeReset
  <2> QED BY <2>1, <2>2
<1> QED BY <1>1, <1>2, Invariance, PTL DEF Spec, NoUseAfterFree

-----------------------------------------------------------------------------
(* The matcher nodes.  While every call expression under way has called at *)
(* most once, a list belongs to the expression or to one contract.         *)
Good == \A t \in Thread : In(t, Expr) => Top(t).ran <= 1

Bound(t) == In(t, {"when"}) /\ Top(t).ran = 1

(* A contract that shares a list is the only one that does.                *)
Shared ==
    \A m \in Mocked : \A i \in DOMAIN mock[m].params :
        LET c == mock[m].params[i]
        IN  c.by # NULL =>
              /\ Bound(c.by) /\ c.list = matcher_ctx[c.by].list
              /\ \A n \in Mocked : \A j \in DOMAIN mock[n].params :
                    mock[n].params[j].by = c.by => n = m /\ j = i

(* What a mmk_when adds to after its call goes to a contract.              *)
Given ==
    \A t \in Thread : Bound(t) /\ Top(t).todo # {} =>
        \E m \in Mocked : \E i \in DOMAIN mock[m].params : mock[m].params[i].by = t

Held == [m \in Mock |-> IF mock[m] = NULL THEN 0 ELSE NodesOf(m)]
Due  == [t \in Thread |-> Owned(t)]
Balanced == heap = SumFunctionOnSet(Held, Mock) + SumFunctionOnSet(Due, Thread)

LeakInv == status = "ok" /\ Good => Shared /\ Given /\ Balanced

(* What the steps of a call expression do to its frame. *)
LEMMA TopReplaced ==
    ASSUME IInv, NEW t \in Thread, In(t, Expr), NEW g, g.k = Top(t).k,
           stack' = [stack EXCEPT ![t] = [stack[t] EXCEPT ![1] = g]]
    PROVE  /\ Top(t)' = g /\ In(t, Expr)'
           /\ \A u \in Thread \ {t} : stack'[u] = stack[u]
<1>1. /\ stack \in [Thread -> Seq(Frame)] /\ stack[t] \in Seq(Frame) /\ stack[t] # << >>
      /\ Top(t).k \in Expr
  BY DEF IInv, Types, In
<1> DEFINE s == [stack[t] EXCEPT ![1] = g]
<1>2. Head(s) = g /\ Len(s) = Len(stack[t])
  BY <1>1, HeadReplaced
<1>3. Len(stack[t]) # 0 /\ Len(<< >>) = 0
  BY <1>1
<1> HIDE DEF s
<1>4. stack'[t] = s /\ \A u \in Thread \ {t} : stack'[u] = stack[u]
  BY <1>1 DEF s
<1>5. s # << >>
  BY <1>2, <1>3
<1> QED BY <1>1, <1>2, <1>4, <1>5 DEF In, Top

LEMMA ExprFacts ==
    ASSUME IInv, NEW t \in Thread, In(t, Expr)
    PROVE  /\ Top(t) = stack[t][1] /\ Top(t) \in Frame /\ 1 \in DOMAIN stack[t]
           /\ Top(t).k \in Expr /\ Top(t).ran \in Nat /\ Top(t).todo \in SUBSET Nat
           /\ Top(t).e \in IF Top(t).k = "when" THEN WhenExpr ELSE VerifyExpr
           /\ Top(t) = [k |-> Top(t).k, e |-> Top(t).e, todo |-> Top(t).todo,
                        done |-> Top(t).done, ran |-> Top(t).ran]
           /\ mock_called[t] = Top(t).ran
           /\ Progress(Top(t), matcher_ctx[t])
           /\ matcher_ctx[t] \in MatcherCtx /\ matcher_ctx[t].list \in Seq(Node)
<1>1. /\ Top(t) = stack[t][1] /\ Top(t) \in Frame /\ 1 \in DOMAIN stack[t]
      /\ Top(t).k \in Expr /\ stack[t] # << >>
  BY InTop DEF IInv, In
<1>2. mock_called[t] = Top(t).ran /\ Progress(Top(t), matcher_ctx[t])
  BY <1>1 DEF IInv, LocalInv, Local
<1>3. matcher_ctx[t] \in MatcherCtx
  BY <1>2 DEF Progress, IInv, Types
<1>4. matcher_ctx[t].list \in Seq(Node)
  BY <1>3 DEF MatcherCtx
<1>5. /\ Top(t).ran \in Nat /\ Top(t).todo \in SUBSET Nat
      /\ Top(t).e \in IF Top(t).k = "when" THEN WhenExpr ELSE VerifyExpr
      /\ Top(t) = [k |-> Top(t).k, e |-> Top(t).e, todo |-> Top(t).todo,
                   done |-> Top(t).done, ran |-> Top(t).ran]
  BY <1>1, FrameKinds DEF Expr
<1> QED BY <1>1, <1>2, <1>3, <1>4, <1>5

LEMMA EvalArgEffect ==
    ASSUME IInv, NEW t \in Thread, NEW i \in 1..2, EvalArg(t, i), status' = "ok"
    PROVE  /\ In(t, Expr) /\ i \in Top(t).todo /\ ~matcher_ctx[t].freed
           /\ In(t, Expr)' /\ Top(t)'.k = Top(t).k /\ Top(t)'.ran = Top(t).ran
           /\ Top(t)'.e = Top(t).e /\ Top(t)'.todo = Top(t).todo \ {i}
           /\ matcher_ctx'[t].list =
                  mmk_matcher_add(matcher_ctx[t].list,
                                  Matcher(Top(t).e.kinds[i], i, Top(t).e.pred))
           /\ matcher_ctx[t].list \in Seq(Node) /\ matcher_ctx'[t].list \in Seq(Node)
           /\ Len(matcher_ctx'[t].list) = Len(matcher_ctx[t].list) + 1
           /\ mock' = ShareList(t, matcher_ctx'[t].list, t) /\ heap' = heap + 1
           /\ \A u \in Thread \ {t} : /\ stack'[u] = stack[u]
                                      /\ matcher_ctx'[u] = matcher_ctx[u]
<1> DEFINE f == stack[t][1]
           list == mmk_matcher_add(matcher_ctx[t].list, Matcher(f.e.kinds[i], i, f.e.pred))
           g == [f EXCEPT !.todo = @ \ {i}]
<1>1. In(t, Expr) /\ i \in Top(t).todo
  BY DEF EvalArg, Expr
<1>2. Top(t) = f
  BY <1>1, ExprFacts
<1>3. /\ ~matcher_ctx[t].freed
      /\ matcher_ctx' = [matcher_ctx EXCEPT ![t].list = list]
      /\ mock' = ShareList(t, list, t) /\ heap' = heap + 1
      /\ stack' = [stack EXCEPT ![t][1].todo = @ \ {i}]
  BY <1>2 DEF EvalArg, Fails
<1>4. stack' = [stack EXCEPT ![t] = [stack[t] EXCEPT ![1] = g]]
  BY <1>3
<1>5. f = [k |-> f.k, e |-> f.e, todo |-> f.todo, done |-> f.done, ran |-> f.ran]
  BY <1>1, <1>2, ExprFacts
<1>6. g.k = f.k /\ g.ran = f.ran /\ g.e = f.e /\ g.todo = f.todo \ {i}
  <2> HIDE DEF f
  <2> QED BY <1>5
<1>7. list \in Seq(Node) /\ Len(list) = Len(matcher_ctx[t].list) + 1
  <2>1. f.e \in WhenExpr \union VerifyExpr /\ matcher_ctx[t].list \in Seq(Node)
    BY <1>1, <1>2, ExprFacts
  <2>2. i \in DOMAIN f.e.kinds
    BY <1>1, <1>2, ExprFacts DEF Progress
  <2>3. Matcher(f.e.kinds[i], i, f.e.pred) \in Node
    BY <2>1, <2>2 DEF Node
  <2> QED BY <2>1, <2>3, AddGrows
<1>12. list = mmk_matcher_add(matcher_ctx[t].list,
                              Matcher(Top(t).e.kinds[i], i, Top(t).e.pred))
  BY <1>2
<1> HIDE DEF g, list
<1>8. Top(t)' = g /\ In(t, Expr)' /\ \A u \in Thread \ {t} : stack'[u] = stack[u]
  BY <1>1, <1>2, <1>4, <1>6, TopReplaced
<1>9. /\ matcher_ctx'[t] = [matcher_ctx[t] EXCEPT !.list = list]
      /\ \A u \in Thread \ {t} : matcher_ctx'[u] = matcher_ctx[u]
  BY <1>3 DEF IInv, Types
<1>10. matcher_ctx'[t].list = list
  BY <1>1, <1>9, ExprFacts DEF MatcherCtx
<1>11. matcher_ctx[t].list \in Seq(Node)
  BY <1>1, ExprFacts
<1> QED BY <1>1, <1>2, <1>3, <1>6, <1>7, <1>8, <1>9, <1>10, <1>11, <1>12

LEMMA CallEffect ==
    ASSUME IInv, NEW t \in Thread, NEW m, NEW isLast \in BOOLEAN,
           CallFromExpression(t, m, isLast), status' = "ok"
    PROVE  /\ In(t, Expr) /\ ~matcher_ctx[t].freed /\ mock[m] # NULL
           /\ In(t, Expr)' /\ Top(t)'.k = Top(t).k /\ Top(t)'.ran = Top(t).ran + 1
           /\ Top(t)'.todo = Top(t).todo /\ Top(t)'.e = Top(t).e /\ Top(t)'.done = isLast
           /\ IF Top(t).k = "when" THEN Bind(t, m, Top(t).e.refs, Top(t).e)
                                   ELSE Count(t, m, Top(t).e.refs)
           /\ matcher_ctx'[t].list = matcher_ctx[t].list
           /\ \A u \in Thread \ {t} : /\ stack'[u] = stack[u]
                                      /\ matcher_ctx'[u] = matcher_ctx[u]
<1> DEFINE f == stack[t][1]
           g1 == [f EXCEPT !.ran = @ + 1]
           g == [g1 EXCEPT !.done = isLast]
<1>1. In(t, Expr) /\ mock[m] # NULL
  BY DEF CallFromExpression, Expr
<1>2. Top(t) = f
  BY <1>1, ExprFacts
<1>3. /\ ~matcher_ctx[t].freed
      /\ IF matcher_ctx[t].kind = 0 THEN Bind(t, m, f.e.refs, f.e)
                                    ELSE Count(t, m, f.e.refs)
      /\ stack' = [stack EXCEPT ![t][1].ran = @ + 1, ![t][1].done = isLast]
  BY <1>2 DEF CallFromExpression, MatcherModeCall, Fails
<1>4. stack' = [stack EXCEPT ![t] = [stack[t] EXCEPT ![1] = g]]
  <2>1. stack \in [Thread -> Seq(Frame)] /\ 1 \in DOMAIN stack[t]
    BY <1>1, ExprFacts DEF IInv, Types
  <2>2. [stack[t] EXCEPT ![1].ran = @ + 1, ![1].done = isLast] =
            [stack[t] EXCEPT ![1] = [f EXCEPT !.ran = @ + 1, !.done = isLast]]
    BY <2>1
  <2>3. stack' = [stack EXCEPT ![t] = [stack[t] EXCEPT ![1] = g]]
    BY <1>3, <2>1, <2>2
  <2> QED BY <2>3
<1>5. f = [k |-> f.k, e |-> f.e, todo |-> f.todo, done |-> f.done, ran |-> f.ran]
  BY <1>1, <1>2, ExprFacts
<1>6. g.k = f.k /\ g.ran = f.ran + 1 /\ g.todo = f.todo /\ g.e = f.e /\ g.done = isLast
  <2> HIDE DEF f
  <2> QED BY <1>5
<1> HIDE DEF g
<1>7. Top(t)' = g /\ In(t, Expr)' /\ \A u \in Thread \ {t} : stack'[u] = stack[u]
  BY <1>1, <1>2, <1>4, <1>6, TopReplaced
<1>8. f.k = "when" <=> matcher_ctx[t].kind = 0
  BY <1>1, <1>2, ExprFacts DEF Progress
<1>9. /\ matcher_ctx'[t].list = matcher_ctx[t].list
      /\ \A u \in Thread \ {t} : matcher_ctx'[u] = matcher_ctx[u]
  <2>1. matcher_ctx' = matcher_ctx \/ matcher_ctx' = [matcher_ctx EXCEPT ![t].freed = TRUE]
    BY <1>3 DEF Bind, Count
  <2>2. matcher_ctx \in [Thread -> MatcherCtx \union {NULL}] /\ matcher_ctx[t] \in MatcherCtx
    BY <1>1, ExprFacts DEF IInv, Types
  <2>3. \A x \in BOOLEAN : [matcher_ctx[t] EXCEPT !.freed = x].list = matcher_ctx[t].list
    BY <2>2 DEF MatcherCtx
  <2>4. CASE matcher_ctx' = [matcher_ctx EXCEPT ![t].freed = TRUE]
    <3>1. /\ matcher_ctx'[t] = [matcher_ctx[t] EXCEPT !.freed = TRUE]
          /\ \A u \in Thread \ {t} : matcher_ctx'[u] = matcher_ctx[u]
      BY <2>2, <2>4
    <3> QED BY <2>3, <3>1
  <2> QED BY <2>1, <2>4
<1> QED BY <1>1, <1>2, <1>3, <1>6, <1>7, <1>8, <1>9

LEMMA CallNothingEffect ==
    ASSUME IInv, NEW t \in Thread, CallNothing(t)
    PROVE  /\ In(t, Expr) /\ Top(t).todo = {}
           /\ In(t, Expr)' /\ Top(t)'.k = Top(t).k /\ Top(t)'.ran = Top(t).ran
           /\ Top(t)'.todo = {}
           /\ \A u \in Thread \ {t} : stack'[u] = stack[u]
           /\ UNCHANGED <<mock, matcher_ctx, heap, status>>
<1> DEFINE f == stack[t][1]
           g == [f EXCEPT !.done = TRUE]
<1>1. In(t, Expr) /\ Top(t).todo = {} /\ UNCHANGED <<mock, matcher_ctx, heap, status>>
  BY DEF CallNothing, Expr
<1>2. Top(t) = f
  BY <1>1, ExprFacts
<1>3. stack' = [stack EXCEPT ![t] = [stack[t] EXCEPT ![1] = g]]
  BY DEF CallNothing
<1>4. f = [k |-> f.k, e |-> f.e, todo |-> f.todo, done |-> f.done, ran |-> f.ran]
  BY <1>1, <1>2, ExprFacts
<1>5. g.k = f.k /\ g.ran = f.ran /\ g.todo = f.todo
  <2>1. \A x \in BOOLEAN : LET h == [f EXCEPT !.done = x]
                           IN  h.k = f.k /\ h.ran = f.ran /\ h.todo = f.todo
    <3> HIDE DEF f
    <3> QED BY <1>4
  <2> QED BY <2>1
<1> HIDE DEF g
<1>6. Top(t)' = g /\ In(t, Expr)' /\ \A u \in Thread \ {t} : stack'[u] = stack[u]
  BY <1>1, <1>2, <1>3, <1>5, TopReplaced
<1> QED BY <1>1, <1>2, <1>5, <1>6

(* Counting the nodes again where one mock or one thread has changed.      *)
LEMMA HeldIs ==
    /\ \A m \in Mock : Held[m] = IF mock[m] = NULL THEN 0 ELSE CtxNodes(mock[m])
    /\ \A m \in Mock : Held'[m] = IF mock'[m] = NULL THEN 0 ELSE CtxNodes(mock'[m])
    /\ \A m \in Mock : mock[m] # NULL => NodesOf(m) = CtxNodes(mock[m])
BY DEF Held, NodesOf, CtxNodes

Owed(s, c) == IF s # << >> /\ Head(s).k \in Expr /\ Head(s).ran = 0
              THEN Nodes(c.list) ELSE 0

LEMMA DueIs ==
    /\ \A t \in Thread : Due[t] = Owed(stack[t], matcher_ctx[t])
    /\ \A t \in Thread : Due'[t] = Owed(stack'[t], matcher_ctx'[t])
BY DEF Due, Owed, Owned, In, Top, Expr

LEMMA OwedInt ==
    ASSUME NEW s \in Seq(Frame), NEW c \in MatcherCtx \union {NULL}, NEW n, Local(s, c, n)
    PROVE  Owed(s, c) \in Int /\ Owed(s, c) >= 0
<1>1. CASE s # << >> /\ s[1].k \in Expr
  <2>1. c \in MatcherCtx
    BY <1>1 DEF Local, Progress
  <2>2. c.list \in Seq(Node)
    BY <2>1 DEF MatcherCtx
  <2> QED BY <2>2 DEF Owed, Nodes
<1>2. CASE ~(s # << >> /\ s[1].k \in Expr)
  BY <1>2 DEF Owed
<1> QED BY <1>1, <1>2

LEMMA CountsInt ==
    ASSUME IInv, IInv'
    PROVE  /\ \A m \in Mock : Held[m] \in Int /\ Held'[m] \in Int
           /\ \A m \in Mock : Held[m] >= 0 /\ Held'[m] >= 0
           /\ \A t \in Thread : Due[t] \in Int /\ Due'[t] \in Int
           /\ \A t \in Thread : Due[t] >= 0 /\ Due'[t] >= 0
<1>1. ASSUME NEW m \in Mock
      PROVE  Held[m] \in Int /\ Held'[m] \in Int /\ Held[m] >= 0 /\ Held'[m] >= 0
  <2>1. mock[m] \in MockCtx \union {NULL} /\ mock'[m] \in MockCtx \union {NULL}
    BY DEF IInv, Types
  <2> QED BY <2>1, CtxNodesInt, HeldIs
<1>2. ASSUME NEW t \in Thread
      PROVE  Due[t] \in Int /\ Due'[t] \in Int /\ Due[t] >= 0 /\ Due'[t] >= 0
  <2>1. /\ stack[t] \in Seq(Frame) /\ matcher_ctx[t] \in MatcherCtx \union {NULL}
        /\ Local(stack[t], matcher_ctx[t], mock_called[t])
    BY DEF IInv, Types, LocalInv
  <2>2. /\ stack'[t] \in Seq(Frame) /\ matcher_ctx'[t] \in MatcherCtx \union {NULL}
        /\ Local(stack'[t], matcher_ctx'[t], mock_called'[t])
    BY DEF IInv, Types, LocalInv
  <2> QED BY <2>1, <2>2, OwedInt, DueIs
<1> QED BY <1>1, <1>2

LEMMA Rebalanced ==
    ASSUME IInv, IInv', Balanced, NEW d \in Int, NEW e \in Int,
           \/ d = 0 /\ \A m \in Mock : Held'[m] = Held[m]
           \/ \E m \in Mock : /\ d = Held'[m] - Held[m]
                              /\ \A n \in Mock \ {m} : Held'[n] = Held[n],
           \/ e = 0 /\ \A t \in Thread : Due'[t] = Due[t]
           \/ \E t \in Thread : /\ e = Due'[t] - Due[t]
                                /\ \A u \in Thread \ {t} : Due'[u] = Due[u],
           heap' = heap + d + e
    PROVE  Balanced'
<1> DEFINE h == Held
           k == Held'
           a == Due
           b == Due'
<1>0. IsFiniteSet(Mock) /\ IsFiniteSet(Thread)
  BY MockAssumption
<1>1. /\ \A m \in Mock : h[m] \in Int /\ k[m] \in Int
      /\ \A t \in Thread : a[t] \in Int /\ b[t] \in Int
  BY CountsInt
<1>2. heap = SumFunctionOnSet(h, Mock) + SumFunctionOnSet(a, Thread)
  BY DEF Balanced
<1>5. \/ d = 0 /\ \A m \in Mock : h[m] = k[m]
      \/ \E m \in Mock : d = k[m] - h[m] /\ \A n \in Mock \ {m} : h[n] = k[n]
  OBVIOUS
<1>6. \/ e = 0 /\ \A t \in Thread : a[t] = b[t]
      \/ \E t \in Thread : e = b[t] - a[t] /\ \A u \in Thread \ {t} : a[u] = b[u]
  OBVIOUS
<1> HIDE DEF h, k, a, b
<1>7. SumFunctionOnSet(k, Mock) = SumFunctionOnSet(h, Mock) + d
  <2>1. SumFunctionOnSet(h, Mock) \in Int
    BY <1>0, <1>1, SumInt
  <2>2. CASE d = 0 /\ \A m \in Mock : h[m] = k[m]
    BY <1>0, <2>1, <2>2, SumSame
  <2>3. ASSUME NEW m \in Mock, d = k[m] - h[m], \A n \in Mock \ {m} : h[n] = k[n]
        PROVE  SumFunctionOnSet(k, Mock) = SumFunctionOnSet(h, Mock) + d
    <3>1. SumFunctionOnSet(k, Mock) = SumFunctionOnSet(h, Mock) - h[m] + k[m]
      BY <1>0, <1>1, <2>3, SumChange
    <3> QED BY <1>1, <2>1, <2>3, <3>1
  <2> QED BY <1>5, <2>2, <2>3
<1>8. SumFunctionOnSet(b, Thread) = SumFunctionOnSet(a, Thread) + e
  <2>1. SumFunctionOnSet(a, Thread) \in Int
    BY <1>0, <1>1, SumInt
  <2>2. CASE e = 0 /\ \A t \in Thread : a[t] = b[t]
    BY <1>0, <2>1, <2>2, SumSame
  <2>3. ASSUME NEW t \in Thread, e = b[t] - a[t], \A u \in Thread \ {t} : a[u] = b[u]
        PROVE  SumFunctionOnSet(b, Thread) = SumFunctionOnSet(a, Thread) + e
    <3>1. SumFunctionOnSet(b, Thread) = SumFunctionOnSet(a, Thread) - a[t] + b[t]
      BY <1>0, <1>1, <2>3, SumChange
    <3> QED BY <1>1, <2>1, <2>3, <3>1
  <2> QED BY <1>6, <2>2, <2>3
<1>9. SumFunctionOnSet(h, Mock) \in Int /\ SumFunctionOnSet(a, Thread) \in Int
  BY <1>0, <1>1, SumInt
<1>10. heap' = SumFunctionOnSet(k, Mock) + SumFunctionOnSet(b, Thread)
  BY <1>2, <1>7, <1>8, <1>9
<1> QED BY <1>10 DEF Balanced, k, b

-----------------------------------------------------------------------------
(* A thread is still when the list it shares stays what it is, and calm    *)
(* when it owns no more and no less than before.                           *)
Still(t) ==
    /\ Bound(t)' <=> Bound(t)
    /\ Bound(t) => /\ matcher_ctx'[t].list = matcher_ctx[t].list
                   /\ Top(t)'.todo = Top(t).todo

Calm(t) == Still(t) /\ Due'[t] = Due[t]

SameParams(m) ==
    /\ mock[m] = NULL <=> mock'[m] = NULL
    /\ mock[m] # NULL => mock'[m].params = mock[m].params

LEMMA CalmSame ==
    ASSUME NEW t \in Thread, stack'[t] = stack[t], matcher_ctx'[t] = matcher_ctx[t]
    PROVE  Calm(t)
BY DueIs DEF Calm, Still, Bound, In, Top

LEMMA CalmPlain ==
    ASSUME NEW t \in Thread, ~In(t, Expr), ~In(t, Expr)'
    PROVE  Calm(t)
<1>1. ~Bound(t) /\ ~Bound(t)'
  BY DEF Bound, In, Expr
<1>2. Due[t] = 0 /\ Due'[t] = 0
  BY DueIs DEF Owed, In, Top
<1> QED BY <1>1, <1>2 DEF Calm, Still

LEMMA ModeNow ==
    ASSUME IInv, IInv', NEW t \in Thread
    PROVE  /\ matcher_ctx[t] # NULL <=> In(t, Expr)
           /\ matcher_ctx'[t] # NULL <=> In(t, Expr)'
<1>1. ASSUME NEW s \in Seq(Frame), NEW c, NEW n, Local(s, c, n)
      PROVE  c # NULL <=> s # << >> /\ Head(s).k \in Expr
  <2>1. s # << >> => Head(s) = s[1]
    OBVIOUS
  <2> QED BY <1>1, <2>1 DEF Local, Progress
<1>2. stack[t] \in Seq(Frame) /\ Local(stack[t], matcher_ctx[t], mock_called[t])
  BY DEF IInv, LocalInv, Types
<1>3. stack'[t] \in Seq(Frame) /\ Local(stack'[t], matcher_ctx'[t], mock_called'[t])
  BY DEF IInv, LocalInv, Types
<1> QED BY <1>1, <1>2, <1>3 DEF In, Top

LEMMA HeldSame ==
    ASSUME NEW m \in Mock, SameParams(m)
    PROVE  Held'[m] = Held[m]
BY HeldIs DEF SameParams, CtxNodes

LEMMA ByThread ==
    ASSUME IInv
    PROVE  \A m \in Mocked : \A i \in DOMAIN mock[m].params :
              mock[m].params[i].by # NULL => mock[m].params[i].by \in Thread
<1>1. \A m \in Mocked : mock[m].params \in Seq(Contract)
  BY DEF IInv, Types, Mocked, MockCtx
<1>2. \A m \in Mocked : \A i \in DOMAIN mock[m].params : mock[m].params[i] \in Contract
  BY <1>1
<1> QED BY <1>2 DEF Contract

(* The mocks and the threads at rest. *)
LEMMA QuietShares ==
    ASSUME IInv, Shared, Given, \A t \in Thread : Still(t), \A m \in Mock : SameParams(m)
    PROVE  Shared' /\ Given'
<1>1. Mocked' = Mocked /\ \A m \in Mocked : mock'[m].params = mock[m].params
  BY DEF Mocked, SameParams
<1>2. Shared'
  BY <1>1, ByThread DEF Shared, Still
<1>3. Given'
  BY <1>1 DEF Given, Still
<1> QED BY <1>2, <1>3

LEMMA QuietStep ==
    ASSUME IInv, IInv', Shared, Given, Balanced, heap' = heap,
           \A t \in Thread : Calm(t), \A m \in Mock : SameParams(m)
    PROVE  Shared' /\ Given' /\ Balanced'
<1>1. \A m \in Mock : Held'[m] = Held[m]
  BY HeldSame
<1>2. \A t \in Thread : Still(t) /\ Due'[t] = Due[t]
  BY DEF Calm
<1>3. heap' = heap + 0 + 0
  BY DEF IInv, Types
<1>4. Balanced'
  BY <1>1, <1>2, <1>3, Rebalanced
<1> QED BY <1>2, <1>4, QuietShares

(* Steps outside call expressions that make and free no node.              *)
LEMMA PlainQuiet ==
    ASSUME IInv, IInv', Shared, Given, Balanced, NEW t \in Thread, ~In(t, Expr),
           matcher_ctx' = matcher_ctx, heap' = heap,
           \A u \in Thread \ {t} : stack'[u] = stack[u],
           \A m \in Mock : SameParams(m)
    PROVE  Shared' /\ Given' /\ Balanced'
<1>1. ~In(t, Expr)'
  BY ModeNow
<1>2. \A u \in Thread : Calm(u)
  BY <1>1, CalmSame, CalmPlain
<1> QED BY <1>2, QuietStep

LEMMA CallQuiet ==
    ASSUME IInv, IInv', Shared, Given, Balanced, NEW t \in Thread, NEW m, NEW c,
           NEW args \in Args, NEW rest, ~In(t, Expr), status' = "ok",
           RecordAndAnswer(t, m, c, args, rest)
    PROVE  Shared' /\ Given' /\ Balanced'
<1>1. c \in Mock /\ mock[c] # NULL
  BY DEF RecordAndAnswer, Fails
<1>2. /\ mock' = [mock EXCEPT ![c].calls[args] = @ + 1]
      /\ UNCHANGED <<matcher_ctx, heap>>
      /\ \E s : stack' = [stack EXCEPT ![t] = s]
  BY <1>1 DEF RecordAndAnswer
<1>3. \A u \in Thread \ {t} : stack'[u] = stack[u]
  BY <1>2 DEF IInv, Types
<1>4. ASSUME NEW n \in Mock
      PROVE  SameParams(n)
  <2> DEFINE r == [mock[c] EXCEPT !.calls[args] = @ + 1]
  <2>1. r \in MockCtx /\ r.params = mock[c].params
    BY <1>1, RecordType DEF IInv
  <2>2. mock'[c] = r /\ (n # c => mock'[n] = mock[n])
    BY <1>1, <1>2 DEF IInv, Types
  <2> HIDE DEF r
  <2> QED BY <1>1, <2>1, <2>2, NullApart DEF SameParams
<1> QED BY <1>2, <1>3, <1>4, PlainQuiet

LEMMA CreateLeak ==
    ASSUME IInv, IInv', Shared, Given, Balanced, NEW t \in Thread, NEW m \in Mock,
           Create(t, m)
    PROVE  Shared' /\ Given' /\ Balanced'
<1>1. /\ mock[m] = NULL /\ mock' = [mock EXCEPT ![m] = [params |-> << >>, calls |-> NoCalls]]
      /\ UNCHANGED <<matcher_ctx, stack, heap>>
  BY DEF Create
<1>2. \A u \in Thread : Calm(u)
  BY <1>1, CalmSame
<1>3. /\ mock'[m] = [params |-> << >>, calls |-> NoCalls]
      /\ \A n \in Mock \ {m} : mock'[n] = mock[n]
  BY <1>1 DEF IInv, Types
<1>4. mock'[m].params = << >> /\ DOMAIN mock'[m].params = {}
  BY <1>3
<1>5. mock'[m] # NULL
  <2>1. [params |-> << >>, calls |-> NoCalls] \in MockCtx
    BY DEF MockCtx, NoCalls
  <2> QED BY <1>3, <2>1, NullApart
<1>6. Mocked' = Mocked \union {m} /\ m \notin Mocked
      /\ \A n \in Mocked : mock'[n] = mock[n]
  BY <1>1, <1>3, <1>5 DEF Mocked
<1>8. Shared'
  BY <1>2, <1>4, <1>6, ByThread DEF Shared, Calm, Still
<1>9. Given'
  BY <1>2, <1>6 DEF Given, Calm, Still
<1>10. Held[m] = 0 /\ Held'[m] = 0
  <2>1. Held'[m] = CtxNodes(mock'[m]) /\ Held[m] = 0
    BY <1>1, <1>5, HeldIs
  <2>2. \A f : DOMAIN f = {} => SumFunction(f) = 0
    BY SumEmpty DEF SumFunction
  <2> QED BY <1>4, <2>1, <2>2 DEF CtxNodes
<1>11. \A n \in Mock : Held'[n] = Held[n]
  <2>1. \A n \in Mock \ {m} : SameParams(n)
    BY <1>3 DEF SameParams
  <2> QED BY <1>10, <2>1, HeldSame
<1>12. heap' = heap + 0 + 0 /\ \A u \in Thread : Due'[u] = Due[u]
  BY <1>1, <1>2 DEF IInv, Types, Calm
<1>13. Balanced'
  BY <1>11, <1>12, Rebalanced
<1> QED BY <1>8, <1>9, <1>13

(* A program whose call expressions may call more than once has no other   *)
(* thread to reset a mock in their middle.                                 *)
MisuseAlone == Misuse => \A t, u \in Thread : t = u

LEMMA ResetLeak ==
    ASSUME IInv, IInv', Shared, Given, Balanced, MisuseAlone, NEW t \in Thread,
           NEW m \in Mock, Reset(t, m)
    PROVE  Shared' /\ Given' /\ Balanced'
<1>1. /\ mock[m] # NULL /\ mock' = [mock EXCEPT ![m] = NULL] /\ ClientCode(t)
      /\ matcher_ctx' = matcher_ctx /\ heap' = heap - NodesOf(m)
  BY DEF Reset
<1>2. mock'[m] = NULL /\ \A n \in Mock \ {m} : mock'[n] = mock[n]
  BY <1>1 DEF IInv, Types
<1>3. ASSUME NEW u \in Thread
      PROVE  Calm(u)
  <2>1. CASE In(u, Expr)
    <3>1. stack[u] # << >> /\ Top(u).k \in Expr /\ Top(u).k # "callback"
      BY <2>1 DEF In, Expr
    <3>2. stack'[u] # << >> /\ Top(u)' = Top(u)
      BY <3>1, ResetKeeps
    <3>3. Bound(u)' <=> Bound(u)
      BY <3>1, <3>2 DEF Bound, In
    <3>4. Due'[u] = Due[u]
      BY <1>1, <3>1, <3>2, DueIs DEF Owed, Top
    <3> QED BY <1>1, <3>2, <3>3, <3>4 DEF Calm, Still
  <2>2. CASE ~In(u, Expr)
    BY <1>1, <2>2, ModeNow, CalmPlain
  <2> QED BY <2>1, <2>2
<1>4. Mocked' = Mocked \ {m} /\ \A n \in Mocked \ {m} : mock'[n] = mock[n]
  BY <1>2 DEF Mocked
<1>5. Shared'
  BY <1>3, <1>4, ByThread DEF Shared, Calm, Still
<1>6. ASSUME NEW u \in Thread, Bound(u)', Top(u)'.todo # {}
      PROVE  FALSE
  <2>1. Bound(u) /\ Top(u).todo # {}
    BY <1>3, <1>6 DEF Calm, Still
  <2>2. In(u, Expr)
    BY <2>1 DEF Bound, In, Expr
  <2>3. Progress(Top(u), matcher_ctx[u]) /\ Top(u).ran = 1
    BY <2>1, <2>2, ExprFacts DEF Bound
  <2>4. Misuse
    BY <2>1, <2>3 DEF Progress
  <2>5. u = t
    BY <2>4 DEF MisuseAlone
  <2> QED BY <1>1, <2>2, <2>5, ClientIsPlain
<1>7. Given'
  BY <1>6 DEF Given
<1>8. Held'[m] = 0 /\ Held[m] = NodesOf(m) /\ \A n \in Mock \ {m} : Held'[n] = Held[n]
  <2>1. \A n \in Mock \ {m} : SameParams(n)
    BY <1>2 DEF SameParams
  <2> QED BY <1>1, <1>2, <2>1, HeldSame, HeldIs
<1> DEFINE d == 0 - Held[m]
<1>9. /\ d \in Int /\ d = Held'[m] - Held[m] /\ heap' = heap + d + 0
      /\ \A u \in Thread : Due'[u] = Due[u]
  <2>1. Held[m] \in Int /\ heap \in Int
    BY CountsInt DEF IInv, Types
  <2>2. heap' = heap - Held[m]
    BY <1>1, <1>8
  <2>3. \A u \in Thread : Due'[u] = Due[u]
    BY <1>3 DEF Calm
  <2> QED BY <1>8, <2>1, <2>2, <2>3
<1> HIDE DEF d
<1>10. Balanced'
  BY <1>8, <1>9, Rebalanced
<1> QED BY <1>5, <1>7, <1>10

LEMMA BeginLeak ==
    ASSUME IInv, IInv', Shared, Given, Balanced, NEW t \in Thread, BeginExpression(t)
    PROVE  Shared' /\ Given' /\ Balanced'
<1>1. /\ ClientCode(t) /\ mock' = mock /\ heap' = heap + 1
      /\ \E kind : matcher_ctx' = [matcher_ctx EXCEPT ![t] =
                                     [kind |-> kind, list |-> << >>, freed |-> FALSE]]
      /\ \E k \in Expr : \E e : stack' = [stack EXCEPT ![t] = <<CallExpr(k, e)>> \o stack[t]]
  BY DEF BeginExpression, BeginWhen, BeginVerify, Push, mmk_matcher_init, Expr
<1>2. \A u \in Thread \ {t} : Calm(u)
  BY <1>1, CalmSame DEF IInv, Types
<1>3. PICK k \in Expr : \E e : stack' = [stack EXCEPT ![t] = <<CallExpr(k, e)>> \o stack[t]]
  BY <1>1
<1>4. PICK e : stack' = [stack EXCEPT ![t] = <<CallExpr(k, e)>> \o stack[t]]
  BY <1>3
<1>5. stack'[t] # << >> /\ Head(stack'[t]) = CallExpr(k, e)
  <2> DEFINE f == CallExpr(k, e)
             X == Frame \union {f}
  <2>1. stack'[t] = <<f>> \o stack[t]
    BY <1>4 DEF IInv, Types
  <2>2. stack[t] \in Seq(X) /\ f \in X
    BY DEF IInv, Types
  <2> HIDE DEF f, X
  <2>3. <<f>> \o stack[t] # << >> /\ Head(<<f>> \o stack[t]) = f
    BY <2>2
  <2> QED BY <2>1, <2>3 DEF f
<1>6. ~Bound(t) /\ ~Bound(t)'
  <2>1. ~In(t, Expr)
    BY <1>1, ClientIsPlain
  <2>2. Top(t)'.ran = 0
    BY <1>5 DEF Top, CallExpr
  <2> QED BY <2>1, <2>2 DEF Bound, In, Expr
<1>7. Due[t] = 0 /\ Due'[t] = 1
  <2>1. ~In(t, Expr)
    BY <1>1, ClientIsPlain
  <2>2. Due[t] = 0
    BY <2>1, DueIs DEF Owed, In, Top
  <2>3. matcher_ctx'[t].list = << >>
    BY <1>1 DEF IInv, Types
  <2>4. Head(stack'[t]).k \in Expr /\ Head(stack'[t]).ran = 0
    BY <1>5 DEF CallExpr
  <2>5. Due'[t] = Nodes(<< >>)
    BY <1>5, <2>3, <2>4, DueIs DEF Owed
  <2>6. Nodes(<< >>) = 1
    BY DEF Nodes
  <2> QED BY <2>2, <2>5, <2>6
<1>8. Mocked' = Mocked
  BY <1>1 DEF Mocked
<1>9. Shared'
  <2>1. \A m \in Mocked : \A i \in DOMAIN mock[m].params : mock[m].params[i].by # t
    BY <1>6, NullApart DEF Shared
  <2> QED BY <1>1, <1>2, <1>8, <2>1, ByThread DEF Shared, Calm, Still
<1>10. Given'
  BY <1>1, <1>2, <1>6, <1>8 DEF Given, Calm, Still
<1>11. \A m \in Mock : Held'[m] = Held[m]
  BY <1>1, HeldSame DEF SameParams
<1>12. heap' = heap + 0 + 1 /\ 1 = Due'[t] - Due[t] /\ \A u \in Thread \ {t} : Due'[u] = Due[u]
  BY <1>1, <1>2, <1>7 DEF IInv, Types, Calm
<1>13. Balanced'
  BY <1>11, <1>12, Rebalanced
<1> QED BY <1>9, <1>10, <1>13

LEMMA CtxChange ==
    ASSUME NEW r \in MockCtx, NEW q \in MockCtx, NEW j \in DOMAIN r.params,
           DOMAIN q.params = DOMAIN r.params,
           \A i \in DOMAIN r.params : i # j => q.params[i] = r.params[i]
    PROVE  CtxNodes(q) = CtxNodes(r) - Nodes(r.params[j].list) + Nodes(q.params[j].list)
<1> DEFINE S == DOMAIN r.params
           f == [i \in S |-> Nodes(r.params[i].list)]
           g == [i \in S |-> Nodes(q.params[i].list)]
<1>1. r.params \in Seq(Contract) /\ q.params \in Seq(Contract)
  BY DEF MockCtx
<1>2. IsFiniteSet(S)
  <2>1. S = 1..Len(r.params) /\ Len(r.params) \in Nat
    BY <1>1
  <2> QED BY <2>1, FS_Interval
<1>3. \A i \in S : r.params[i] \in Contract /\ q.params[i] \in Contract
  BY <1>1
<1>4. \A i \in S : f[i] \in Int /\ g[i] \in Int
  BY <1>3 DEF Contract, Nodes
<1>5. \A i \in S \ {j} : f[i] = g[i]
  OBVIOUS
<1>6. CtxNodes(r) = SumFunctionOnSet(f, S) /\ CtxNodes(q) = SumFunctionOnSet(g, S)
  BY DEF CtxNodes, SumFunction
<1>7. f[j] = Nodes(r.params[j].list) /\ g[j] = Nodes(q.params[j].list)
  OBVIOUS
<1>8. j \in S
  OBVIOUS
<1> HIDE DEF f, g, S
<1>9. SumFunctionOnSet(g, S) = SumFunctionOnSet(f, S) - f[j] + g[j]
  BY <1>2, <1>4, <1>5, <1>8, SumChange
<1> QED BY <1>6, <1>7, <1>9

LEMMA CtxSame ==
    ASSUME NEW r, NEW q, DOMAIN q.params = DOMAIN r.params,
           \A i \in DOMAIN r.params : q.params[i].list = r.params[i].list
    PROVE  CtxNodes(q) = CtxNodes(r)
BY DEF CtxNodes

LEMMA CtxPush ==
    ASSUME NEW r \in MockCtx, NEW q \in MockCtx, NEW c \in Contract,
           q.params = <<c>> \o r.params
    PROVE  CtxNodes(q) = Nodes(c.list) + CtxNodes(r)
<1> DEFINE p == r.params
           len == Len(p)
           f == [i \in DOMAIN p |-> Nodes(p[i].list)]
           g == [i \in DOMAIN q.params |-> Nodes(q.params[i].list)]
<1>1. p \in Seq(Contract) /\ len \in Nat /\ DOMAIN p = 1..len
  BY DEF MockCtx
<1>2. /\ DOMAIN q.params = 1..len + 1 /\ q.params[1] = c
      /\ \A i \in 2..len + 1 : q.params[i] = p[i - 1]
  BY <1>1, Pushed
<1>3. \A i \in 1..len : f[i] \in Int /\ g[i + 1] = f[i]
  <2> SUFFICES ASSUME NEW i \in 1..len
               PROVE  Nodes(p[i].list) \in Int /\ g[i + 1] = Nodes(p[i].list)
    BY <1>1
  <2>1. i + 1 \in 2..len + 1 /\ (i + 1) - 1 = i /\ i + 1 \in 1..len + 1
    BY <1>1
  <2>2. p[i] \in Contract
    BY <1>1
  <2>3. p[i].list \in Seq(Node)
    BY <2>2 DEF Contract
  <2>4. q.params[i + 1] = p[i]
    BY <1>2, <2>1
  <2> QED BY <1>2, <2>1, <2>3, <2>4 DEF Nodes
<1>4. g[1] = Nodes(c.list) /\ g[1] \in Int
  <2>1. 1 \in 1..len + 1
    BY <1>1
  <2>2. c.list \in Seq(Node)
    BY DEF Contract
  <2> QED BY <1>2, <2>1, <2>2 DEF Nodes
<1>5. /\ CtxNodes(r) = SumFunctionOnSet(f, 1..len)
      /\ CtxNodes(q) = SumFunctionOnSet(g, 1..len + 1)
  BY <1>1, <1>2 DEF CtxNodes, SumFunction
<1> HIDE DEF f, g, p, len
<1>6. len \in Nat /\ g[1] \in Int
  BY <1>1, <1>4
<1>7. SumFunctionOnSet(g, 1..len + 1) = g[1] + SumFunctionOnSet(f, 1..len)
  BY <1>3, <1>6, SumShift
<1> QED BY <1>4, <1>5, <1>7

(* What sharing a list does to the contracts.                              *)
LEMMA ShareFacts ==
    ASSUME Types, NEW t \in Thread, NEW list \in Seq(Node), NEW by \in Thread \union {NULL},
           mock' = ShareList(t, list, by)
    PROVE  /\ Mocked' = Mocked
           /\ \A m \in Mocked :
                 /\ mock[m] \in MockCtx /\ mock'[m] \in MockCtx
                 /\ DOMAIN mock'[m].params = DOMAIN mock[m].params
                 /\ \A i \in DOMAIN mock[m].params :
                       IF mock[m].params[i].by # t
                       THEN mock'[m].params[i] = mock[m].params[i]
                       ELSE /\ mock'[m].params[i].list = list
                            /\ mock'[m].params[i].by = by
<1>1. ASSUME NEW m \in Mocked
      PROVE  /\ mock[m] \in MockCtx /\ mock'[m] \in MockCtx
             /\ DOMAIN mock'[m].params = DOMAIN mock[m].params
             /\ \A i \in DOMAIN mock[m].params :
                   IF mock[m].params[i].by # t
                   THEN mock'[m].params[i] = mock[m].params[i]
                   ELSE mock'[m].params[i].list = list /\ mock'[m].params[i].by = by
  <2>1. m \in Mock /\ mock[m] # NULL /\ mock[m] \in MockCtx
    BY DEF Mocked, Types
  <2> DEFINE q == ShareList(t, list, by)[m]
             p == mock[m].params
  <2>2. /\ q \in MockCtx /\ DOMAIN q.params = DOMAIN p
        /\ \A i \in DOMAIN p : p[i].by # t => q.params[i] = p[i]
        /\ \A i \in DOMAIN p : p[i].by = t => q.params[i].list = list /\ q.params[i].by = by
    <3>1. q \in MockCtx
      BY <2>1, ShareOne
    <3>2. DOMAIN q.params = DOMAIN p
      BY <2>1, ShareOne
    <3>3. \A i \in DOMAIN p : p[i].by # t => q.params[i] = p[i]
      BY <2>1, ShareOne
    <3>4. \A i \in DOMAIN p : p[i].by = t => q.params[i].list = list /\ q.params[i].by = by
      BY <2>1, ShareOne
    <3> QED BY <3>1, <3>2, <3>3, <3>4
  <2>3. mock'[m] = q
    OBVIOUS
  <2> HIDE DEF q
  <2> QED BY <2>1, <2>2, <2>3
<1>2. \A m \in Mock : mock[m] = NULL => mock'[m] = NULL
  BY ShareListType
<1>3. Mocked' = Mocked
  BY <1>1, <1>2, NullApart DEF Mocked
<1> QED BY <1>1, <1>3

LEMMA EvalArgLeak ==
    ASSUME IInv, IInv', Good, Shared, Given, Balanced, NEW t \in Thread, NEW i \in 1..2,
           EvalArg(t, i), status' = "ok"
    PROVE  Shared' /\ Given' /\ Balanced'
<1> DEFINE list == matcher_ctx'[t].list
<1>1. /\ In(t, Expr) /\ i \in Top(t).todo /\ ~matcher_ctx[t].freed
      /\ In(t, Expr)' /\ Top(t)'.k = Top(t).k /\ Top(t)'.ran = Top(t).ran
      /\ matcher_ctx[t].list \in Seq(Node) /\ list \in Seq(Node)
      /\ Len(list) = Len(matcher_ctx[t].list) + 1
      /\ mock' = ShareList(t, list, t) /\ heap' = heap + 1
      /\ \A u \in Thread \ {t} : /\ stack'[u] = stack[u]
                                 /\ matcher_ctx'[u] = matcher_ctx[u]
  BY EvalArgEffect
<1>2. /\ Top(t).ran \in {0, 1} /\ Top(t).k \in Expr
      /\ Top(t).k = "verify" => Top(t).ran = 0
  BY <1>1, ExprFacts DEF Good, Progress
<1>3. \A u \in Thread \ {t} : Calm(u)
  BY <1>1, CalmSame
<1>4. /\ Mocked' = Mocked
      /\ \A m \in Mocked :
            /\ mock[m] \in MockCtx /\ mock'[m] \in MockCtx
            /\ DOMAIN mock'[m].params = DOMAIN mock[m].params
            /\ \A j \in DOMAIN mock[m].params :
                  IF mock[m].params[j].by # t
                  THEN mock'[m].params[j] = mock[m].params[j]
                  ELSE mock'[m].params[j].list = list /\ mock'[m].params[j].by = t
  <2>1. Types /\ t \in Thread \union {NULL}
    BY DEF IInv
  <2> HIDE DEF list
  <2> QED BY <1>1, <2>1, ShareFacts
<1>5. \A m \in Mocked : /\ mock[m].params \in Seq(Contract)
                        /\ mock'[m].params \in Seq(Contract)
  BY <1>4 DEF MockCtx
<1>6. /\ Top(t).ran = 0 => Due[t] = Nodes(matcher_ctx[t].list) /\ Due'[t] = Nodes(list)
      /\ Top(t).ran # 0 => Due[t] = 0 /\ Due'[t] = 0
      /\ Nodes(list) = Nodes(matcher_ctx[t].list) + 1 /\ Nodes(matcher_ctx[t].list) \in Int
  <2>1. /\ Due[t] = Owed(stack[t], matcher_ctx[t])
        /\ Due'[t] = Owed(stack'[t], matcher_ctx'[t])
    BY DueIs
  <2>2. stack[t] # << >> /\ Head(stack[t]) = Top(t) /\ Head(stack[t]).k \in Expr
    BY <1>1 DEF In, Top
  <2>3. stack'[t] # << >> /\ Head(stack'[t]) = Top(t)' /\ Head(stack'[t]).k \in Expr
    BY <1>1 DEF In, Top
  <2>4. Nodes(list) = Nodes(matcher_ctx[t].list) + 1 /\ Nodes(matcher_ctx[t].list) \in Int
    <3> HIDE DEF list
    <3> QED BY <1>1 DEF Nodes
  <2> HIDE DEF list
  <2> QED BY <1>1, <2>1, <2>2, <2>3, <2>4 DEF Owed, list
<1> HIDE DEF list
<1>7. CASE Top(t).ran = 0
  <2>1. ~Bound(t) /\ ~Bound(t)'
    BY <1>1, <1>7 DEF Bound
  <2>2. \A m \in Mocked : \A j \in DOMAIN mock[m].params : mock[m].params[j].by # t
    BY <2>1, NullApart DEF Shared
  <2>3. \A m \in Mocked : mock'[m].params = mock[m].params
    BY <1>4, <1>5, <2>2
  <2>4. \A m \in Mock : SameParams(m)
    BY <1>4, <2>3 DEF SameParams, Mocked
  <2>5. \A u \in Thread : Still(u)
    BY <1>3, <2>1 DEF Calm, Still
  <2>6. Shared' /\ Given'
    BY <2>4, <2>5, QuietShares
  <2>7. /\ heap' = heap + 0 + 1 /\ 1 = Due'[t] - Due[t]
        /\ \A u \in Thread \ {t} : Due'[u] = Due[u]
        /\ \A m \in Mock : Held'[m] = Held[m]
    BY <1>1, <1>3, <1>6, <1>7, <2>4, HeldSame DEF IInv, Types, Calm
  <2>8. Balanced'
    BY <2>7, Rebalanced
  <2> QED BY <2>6, <2>8
<1>8. CASE Top(t).ran = 1
  <2>1. Bound(t) /\ Bound(t)' /\ Top(t).todo # {}
    BY <1>1, <1>2, <1>8 DEF Bound, In, Expr
  <2>2. PICK m \in Mocked : \E j \in DOMAIN mock[m].params : mock[m].params[j].by = t
    BY <2>1 DEF Given
  <2>3. PICK j \in DOMAIN mock[m].params : mock[m].params[j].by = t
    BY <2>2
  <2>4. /\ mock[m].params[j].list = matcher_ctx[t].list
        /\ \A n \in Mocked : \A k \in DOMAIN mock[n].params :
              mock[n].params[k].by = t => n = m /\ k = j
    BY <2>3, NullApart DEF Shared
  <2>5. \A n \in Mocked : \A k \in DOMAIN mock[n].params :
           ~(n = m /\ k = j) => mock'[n].params[k] = mock[n].params[k]
    BY <1>4, <2>4
  <2>6. mock'[m].params[j].list = list /\ mock'[m].params[j].by = t
    BY <1>4, <2>3
  <2>7. \A n \in Mocked : \A k \in DOMAIN mock[n].params :
           mock'[n].params[k].by = mock[n].params[k].by
    BY <2>3, <2>5, <2>6
  <2>8. Shared'
    <3> SUFFICES ASSUME NEW n \in Mocked, NEW k \in DOMAIN mock[n].params, NEW u \in Thread,
                        mock'[n].params[k].by = u
                 PROVE  /\ Bound(u)' /\ mock'[n].params[k].list = matcher_ctx'[u].list
                        /\ \A o \in Mocked : \A l \in DOMAIN mock[o].params :
                              mock'[o].params[l].by = u => o = n /\ l = k
      BY <1>4, <2>7, ByThread DEF Shared
    <3>1. \A o \in Mocked : \A l \in DOMAIN mock[o].params :
             mock'[o].params[l].by = u => o = n /\ l = k
      <4>1. mock[n].params[k].by = u /\ u # NULL
        BY <2>7, NullApart
      <4> QED BY <2>7, <4>1 DEF Shared
    <3>2. CASE n = m /\ k = j
      BY <2>1, <2>6, <3>1, <3>2 DEF list
    <3>3. CASE ~(n = m /\ k = j)
      <4>1. mock'[n].params[k] = mock[n].params[k] /\ mock[n].params[k].by = u /\ u # t
        BY <2>4, <2>5, <3>3
      <4>2. Bound(u) /\ mock[n].params[k].list = matcher_ctx[u].list
        BY <4>1, NullApart DEF Shared
      <4>3. Calm(u)
        BY <1>3, <4>1
      <4> QED BY <3>1, <4>1, <4>2, <4>3 DEF Calm, Still
    <3> QED BY <3>2, <3>3
  <2>9. Given'
    <3> SUFFICES ASSUME NEW u \in Thread, Bound(u)', Top(u)'.todo # {}
                 PROVE  \E n \in Mocked : \E k \in DOMAIN mock[n].params :
                           mock'[n].params[k].by = u
      BY <1>4 DEF Given
    <3>1. CASE u = t
      BY <2>6, <3>1
    <3>2. CASE u # t
      <4>1. Bound(u) /\ Top(u).todo # {}
        BY <1>3, <3>2 DEF Calm, Still
      <4> QED BY <2>7, <4>1 DEF Given
    <3> QED BY <3>1, <3>2
  <2>10. Held'[m] = Held[m] + 1
    <3>1. CtxNodes(mock'[m]) = CtxNodes(mock[m]) - Nodes(mock[m].params[j].list)
                               + Nodes(mock'[m].params[j].list)
      BY <1>4, <2>5, CtxChange
    <3>2. Held[m] = CtxNodes(mock[m]) /\ Held'[m] = CtxNodes(mock'[m])
      BY <1>4, HeldIs DEF Mocked
    <3>3. CtxNodes(mock[m]) \in Int
      BY <1>4, CtxNodesInt
    <3> QED BY <1>6, <2>4, <2>6, <3>1, <3>2, <3>3
  <2>11. \A n \in Mock \ {m} : Held'[n] = Held[n]
    <3>1. \A n \in Mocked \ {m} : mock'[n].params = mock[n].params
      BY <1>4, <1>5, <2>5
    <3>2. \A n \in Mock \ {m} : SameParams(n)
      BY <1>4, <3>1 DEF SameParams, Mocked
    <3> QED BY <3>2, HeldSame
  <2>12. /\ heap' = heap + 1 + 0 /\ 1 = Held'[m] - Held[m] /\ m \in Mock
         /\ \A u \in Thread : Due'[u] = Due[u]
    <3>1. Held[m] \in Int /\ m \in Mock
      BY CountsInt DEF Mocked
    <3> QED BY <1>1, <1>3, <1>6, <1>8, <2>10, <3>1 DEF IInv, Types, Calm
  <2>13. Balanced'
    BY <2>11, <2>12, Rebalanced
  <2> QED BY <2>8, <2>9, <2>13
<1> QED BY <1>2, <1>7, <1>8

(* A call from a mmk_when gives its list to a new contract.                *)
LEMMA BindLeak ==
    ASSUME IInv, IInv', Good', Shared, Given, Balanced, NEW t \in Thread, NEW m \in Mock,
           NEW isLast \in BOOLEAN, CallFromExpression(t, m, isLast), status' = "ok",
           Top(t).k = "when"
    PROVE  Shared' /\ Given' /\ Balanced'
<1> DEFINE list == matcher_ctx[t].list
           p == mock[m].params
           c == [refs |-> Top(t).e.refs, list |-> list, by |-> t,
                 result |-> cur_result[t], expr |-> Top(t).e]
<1>1. /\ In(t, Expr) /\ mock[m] # NULL
      /\ In(t, Expr)' /\ Top(t)'.k = "when" /\ Top(t)'.ran = Top(t).ran + 1
      /\ Bind(t, m, Top(t).e.refs, Top(t).e)
      /\ matcher_ctx'[t].list = list
      /\ \A u \in Thread \ {t} : /\ stack'[u] = stack[u]
                                 /\ matcher_ctx'[u] = matcher_ctx[u]
  BY CallEffect
<1>2. Top(t).ran = 0 /\ Top(t)'.ran = 1
  <2>1. Top(t)'.ran <= 1 /\ Top(t).ran \in Nat
    BY <1>1, ExprFacts DEF Good
  <2> QED BY <1>1, <2>1
<1>3. \A u \in Thread \ {t} : Calm(u)
  BY <1>1, CalmSame
<1>4. ~Bound(t) /\ Bound(t)'
  BY <1>1, <1>2 DEF Bound, In, Expr
<1>5. /\ \A n \in Mock \ {m} : mock'[n] = mock[n]
      /\ mock'[m] \in MockCtx /\ mock'[m].params = <<c>> \o p /\ c \in Contract
      /\ mock[m] \in MockCtx
  <2>1. In(t, {"when"}) /\ Top(t).e \in WhenExpr /\ matcher_ctx[t] \in MatcherCtx
    BY <1>1, ExprFacts DEF In
  <2>2. cur_result[t] = Top(t).e.result
    BY <2>1 DEF IInv, Waiting
  <2>3. /\ mock' \in [Mock -> MockCtx \union {NULL}] /\ mock'[m] # NULL
        /\ \A n \in Mock \ {m} : mock'[n] = mock[n]
        /\ mock'[m].params = <<c>> \o p
    BY <1>1, <2>1, <2>2, BindType DEF IInv
  <2>4. c \in Contract
    BY <2>1, <2>2 DEF Contract, MatcherCtx, Result
  <2>5. mock[m] \in MockCtx
    BY <1>1 DEF IInv, Types
  <2> HIDE DEF c
  <2> QED BY <2>3, <2>4, <2>5
<1>6. c.by = t /\ c.list = list
  OBVIOUS
<1> HIDE DEF c
<1>7. p \in Seq(Contract) /\ Len(p) \in Nat /\ DOMAIN p = 1..Len(p)
  BY <1>5 DEF MockCtx
<1>8. /\ DOMAIN mock'[m].params = 1..Len(p) + 1 /\ mock'[m].params[1] = c
      /\ \A i \in 2..Len(p) + 1 : mock'[m].params[i] = p[i - 1]
  BY <1>5, <1>7, Pushed
<1>9. Mocked' = Mocked /\ m \in Mocked
  BY <1>1, <1>5, NullApart DEF Mocked
<1>10. \A n \in Mocked : \A k \in DOMAIN mock[n].params : mock[n].params[k].by # t
  BY <1>4, NullApart DEF Shared
<1> DEFINE Old(n, k) == IF n = m THEN k - 1 ELSE k
<1>11. ASSUME NEW n \in Mocked, NEW k \in DOMAIN mock'[n].params, ~(n = m /\ k = 1)
       PROVE  /\ Old(n, k) \in DOMAIN mock[n].params
              /\ mock'[n].params[k] = mock[n].params[Old(n, k)]
  <2>1. CASE n = m
    <3>1. k \in 2..Len(p) + 1
      BY <1>7, <1>8, <1>11, <2>1
    <3>2. k - 1 \in 1..Len(p)
      BY <1>7, <3>1
    <3> QED BY <1>7, <1>8, <2>1, <3>1, <3>2
  <2>2. CASE n # m
    BY <1>5, <2>2 DEF Mocked
  <2> QED BY <2>1, <2>2
<1>12. Shared'
  <2> SUFFICES ASSUME NEW n \in Mocked, NEW k \in DOMAIN mock'[n].params, NEW u \in Thread,
                      mock'[n].params[k].by = u
               PROVE  /\ Bound(u)' /\ mock'[n].params[k].list = matcher_ctx'[u].list
                      /\ \A o \in Mocked : \A l \in DOMAIN mock'[o].params :
                            mock'[o].params[l].by = u => o = n /\ l = k
    <3>1. \A n \in Mocked : \A k \in DOMAIN mock'[n].params :
             mock'[n].params[k].by # NULL => mock'[n].params[k].by \in Thread
      <4> SUFFICES ASSUME NEW n \in Mocked, NEW k \in DOMAIN mock'[n].params,
                          mock'[n].params[k].by # NULL
                   PROVE  mock'[n].params[k].by \in Thread
        OBVIOUS
      <4>1. CASE n = m /\ k = 1
        BY <1>6, <1>8, <4>1
      <4>2. CASE ~(n = m /\ k = 1)
        BY <1>11, <4>2, ByThread
      <4> QED BY <4>1, <4>2
    <3> QED BY <1>9, <3>1 DEF Shared
  <2>1. CASE u = t
    <3>1. \A o \in Mocked : \A l \in DOMAIN mock'[o].params :
             mock'[o].params[l].by = t => o = m /\ l = 1
      BY <1>10, <1>11
    <3>2. n = m /\ k = 1
      BY <2>1, <3>1
    <3> QED BY <1>1, <1>4, <1>6, <1>8, <2>1, <3>1, <3>2
  <2>2. CASE u # t
    <3>1. \A o \in Mocked : \A l \in DOMAIN mock'[o].params :
             mock'[o].params[l].by = u => ~(o = m /\ l = 1)
      BY <1>6, <1>8, <2>2
    <3>2. ~(n = m /\ k = 1)
      BY <3>1
    <3>3. /\ Old(n, k) \in DOMAIN mock[n].params
          /\ mock'[n].params[k] = mock[n].params[Old(n, k)]
      BY <1>11, <3>2
    <3> DEFINE kk == Old(n, k)
    <3>4. u # NULL
      BY NullApart
    <3>5. /\ Bound(u) /\ mock[n].params[kk].list = matcher_ctx[u].list
          /\ \A o \in Mocked : \A l \in DOMAIN mock[o].params :
                mock[o].params[l].by = u => o = n /\ l = kk
      <4> HIDE DEF kk
      <4>1. kk \in DOMAIN mock[n].params /\ mock[n].params[kk].by = u
        BY <3>3 DEF kk
      <4> QED BY <3>4, <4>1 DEF Shared
    <3>6. ASSUME NEW o \in Mocked, NEW l \in DOMAIN mock'[o].params,
                 mock'[o].params[l].by = u
          PROVE  o = n /\ l = k
      <4>1. ~(o = m /\ l = 1)
        BY <3>1, <3>6
      <4>2. o = n /\ Old(o, l) = kk
        BY <1>11, <3>5, <3>6, <4>1
      <4>3. CASE n = m
        <5>1. k \in Int /\ l \in Int
          BY <1>7, <1>8, <4>2, <4>3
        <5> QED BY <4>2, <4>3, <5>1
      <4>4. CASE n # m
        BY <4>2, <4>4
      <4> QED BY <4>3, <4>4
    <3>7. Bound(u)' /\ matcher_ctx'[u].list = matcher_ctx[u].list
      BY <1>3, <2>2, <3>5 DEF Calm, Still
    <3> QED BY <3>3, <3>5, <3>6, <3>7
  <2> QED BY <2>1, <2>2
<1>13. Given'
  <2> SUFFICES ASSUME NEW u \in Thread, Bound(u)', Top(u)'.todo # {}
               PROVE  \E n \in Mocked : \E k \in DOMAIN mock'[n].params :
                         mock'[n].params[k].by = u
    BY <1>9 DEF Given
  <2>1. CASE u = t
    <3>1. 1 \in DOMAIN mock'[m].params
      BY <1>7, <1>8
    <3> QED BY <1>6, <1>8, <1>9, <2>1, <3>1
  <2>2. CASE u # t
    <3>1. Bound(u) /\ Top(u).todo # {}
      BY <1>3, <2>2 DEF Calm, Still
    <3>2. PICK n \in Mocked : \E k \in DOMAIN mock[n].params : mock[n].params[k].by = u
      BY <3>1 DEF Given
    <3>3. PICK k \in DOMAIN mock[n].params : mock[n].params[k].by = u
      BY <3>2
    <3>4. CASE n = m
      <4>1. k + 1 \in 2..Len(p) + 1 /\ (k + 1) - 1 = k /\ k + 1 \in 1..Len(p) + 1
        BY <1>7, <3>4
      <4>2. mock'[m].params[k + 1].by = u
        BY <1>8, <3>3, <3>4, <4>1
      <4> QED BY <1>8, <1>9, <4>1, <4>2
    <3>5. CASE n # m
      BY <1>5, <3>3, <3>5 DEF Mocked
    <3> QED BY <3>4, <3>5
  <2> QED BY <2>1, <2>2
<1>14. Held'[m] = Held[m] + Nodes(list) /\ \A n \in Mock \ {m} : Held'[n] = Held[n]
  <2>1. CtxNodes(mock'[m]) = Nodes(c.list) + CtxNodes(mock[m])
    BY <1>5, CtxPush
  <2>2. Held[m] = CtxNodes(mock[m]) /\ Held'[m] = CtxNodes(mock'[m])
    BY <1>5, NullApart, HeldIs
  <2>3. Nodes(c.list) \in Int /\ CtxNodes(mock[m]) \in Int
    BY <1>5, CtxNodesInt DEF Contract, Nodes
  <2>4. \A n \in Mock \ {m} : SameParams(n)
    BY <1>5 DEF SameParams
  <2> QED BY <1>6, <2>1, <2>2, <2>3, <2>4, HeldSame
<1>15. Due[t] = Nodes(list) /\ Due'[t] = 0 /\ Nodes(list) \in Int
  <2>1. list \in Seq(Node)
    BY <1>1, ExprFacts
  <2>2. Nodes(list) \in Int
    BY <2>1 DEF Nodes
  <2> QED BY <1>1, <1>2, <2>2, DueIs DEF Owed, In, Top
<1> DEFINE d == Nodes(list)
           e == 0 - Nodes(list)
<1>16. /\ d \in Int /\ d = Held'[m] - Held[m]
       /\ e \in Int /\ e = Due'[t] - Due[t]
       /\ heap' = heap + d + e
       /\ \A u \in Thread \ {t} : Due'[u] = Due[u]
  <2>1. heap' = heap /\ heap \in Int /\ Held[m] \in Int
    BY <1>1, CountsInt DEF Bind, IInv, Types
  <2>2. \A u \in Thread \ {t} : Due'[u] = Due[u]
    BY <1>3 DEF Calm
  <2> QED BY <1>14, <1>15, <2>1, <2>2
<1> HIDE DEF d, e
<1>17. Balanced'
  BY <1>14, <1>16, Rebalanced
<1> QED BY <1>12, <1>13, <1>17

(* A call from a mmk_verify frees its list.                                *)
LEMMA CountLeak ==
    ASSUME IInv, IInv', Good', Shared, Given, Balanced, NEW t \in Thread, NEW m \in Mock,
           NEW isLast \in BOOLEAN, CallFromExpression(t, m, isLast), status' = "ok",
           Top(t).k = "verify"
    PROVE  Shared' /\ Given' /\ Balanced'
<1> DEFINE list == matcher_ctx[t].list
<1>1. /\ In(t, Expr) /\ mock[m] # NULL
      /\ In(t, Expr)' /\ Top(t)'.k = "verify" /\ Top(t)'.ran = Top(t).ran + 1
      /\ Count(t, m, Top(t).e.refs)
      /\ \A u \in Thread \ {t} : /\ stack'[u] = stack[u]
                                 /\ matcher_ctx'[u] = matcher_ctx[u]
  BY CallEffect
<1>2. Top(t).ran = 0 /\ Top(t)'.ran = 1
  <2>1. Top(t)'.ran <= 1 /\ Top(t).ran \in Nat
    BY <1>1, ExprFacts DEF Good
  <2> QED BY <1>1, <2>1
<1>3. ~Bound(t) /\ ~Bound(t)'
  BY <1>1 DEF Bound, In
<1>4. \A u \in Thread \ {t} : Calm(u)
  BY <1>1, CalmSame
<1>5. \A u \in Thread : Still(u)
  BY <1>3, <1>4 DEF Calm, Still
<1>6. mock' = mock /\ heap' = heap - Nodes(list)
  BY <1>1 DEF Count
<1>7. \A n \in Mock : SameParams(n)
  BY <1>6 DEF SameParams
<1>8. Due[t] = Nodes(list) /\ Due'[t] = 0 /\ Nodes(list) \in Int
  <2>1. list \in Seq(Node)
    BY <1>1, ExprFacts
  <2>2. Nodes(list) \in Int
    BY <2>1 DEF Nodes
  <2> QED BY <1>1, <1>2, <2>2, DueIs DEF Owed, In, Top
<1> DEFINE e == 0 - Nodes(list)
<1>9. /\ e \in Int /\ e = Due'[t] - Due[t] /\ heap' = heap + 0 + e
      /\ \A u \in Thread \ {t} : Due'[u] = Due[u]
  BY <1>4, <1>6, <1>8 DEF Calm, IInv, Types
<1>10. \A n \in Mock : Held'[n] = Held[n]
  BY <1>7, HeldSame
<1> HIDE DEF e
<1>11. Balanced'
  BY <1>9, <1>10, Rebalanced
<1> QED BY <1>5, <1>7, <1>11, QuietShares

(* The end of a mmk_when leaves every contract its list.                   *)
LEMMA EndWhenLeak ==
    ASSUME IInv, IInv', Shared, Given, Balanced, NEW t \in Thread, EndWhen(t),
           status' = "ok"
    PROVE  Shared' /\ Given' /\ Balanced'
<1> DEFINE list == matcher_ctx[t].list
<1>1. /\ In(t, {"when"}) /\ In(t, Expr) /\ mock_called[t] = 1
      /\ mock' = ShareList(t, list, NULL) /\ heap' = heap
      /\ matcher_ctx' = [matcher_ctx EXCEPT ![t] = NULL]
      /\ stack' = [stack EXCEPT ![t] = Tail(@)]
  BY DEF EndWhen, Fails, Pop, In, Expr
<1>2. \A u \in Thread \ {t} : stack'[u] = stack[u] /\ matcher_ctx'[u] = matcher_ctx[u]
  BY <1>1 DEF IInv, Types
<1>3. \A u \in Thread \ {t} : Calm(u)
  BY <1>2, CalmSame
<1>4. Top(t).ran = 1 /\ list \in Seq(Node)
  BY <1>1, ExprFacts
<1>5. ~In(t, Expr)'
  <2>1. matcher_ctx'[t] = NULL
    BY <1>1 DEF IInv, Types
  <2> QED BY <2>1, ModeNow
<1>6. ~Bound(t)' /\ Due[t] = 0 /\ Due'[t] = 0
  <2>1. Due[t] = 0
    BY <1>4, DueIs DEF Owed, Top
  <2>2. Due'[t] = 0
    BY <1>5, DueIs DEF Owed, In, Top
  <2> QED BY <1>5, <2>1, <2>2 DEF Bound, In, Expr
<1>7. /\ Mocked' = Mocked
      /\ \A m \in Mocked :
            /\ mock[m] \in MockCtx /\ mock'[m] \in MockCtx
            /\ DOMAIN mock'[m].params = DOMAIN mock[m].params
            /\ \A j \in DOMAIN mock[m].params :
                  IF mock[m].params[j].by # t
                  THEN mock'[m].params[j] = mock[m].params[j]
                  ELSE mock'[m].params[j].list = list /\ mock'[m].params[j].by = NULL
  <2>1. Types /\ NULL \in Thread \union {NULL}
    BY DEF IInv
  <2> HIDE DEF list
  <2> QED BY <1>1, <1>4, <2>1, ShareFacts
<1>8. \A m \in Mocked : \A j \in DOMAIN mock[m].params :
         mock'[m].params[j].list = mock[m].params[j].list
  BY <1>7, NullApart DEF Shared
<1>9. \A m \in Mocked : \A j \in DOMAIN mock[m].params :
         mock'[m].params[j].by # NULL =>
             /\ mock'[m].params[j] = mock[m].params[j]
             /\ mock[m].params[j].by \in Thread \ {t}
  BY <1>7, ByThread
<1>10. Shared'
  <2> SUFFICES ASSUME NEW n \in Mocked, NEW k \in DOMAIN mock[n].params, NEW u \in Thread \ {t},
                      mock'[n].params[k].by = u, mock[n].params[k].by = u
               PROVE  /\ Bound(u)' /\ mock'[n].params[k].list = matcher_ctx'[u].list
                      /\ \A o \in Mocked : \A l \in DOMAIN mock[o].params :
                            mock'[o].params[l].by = u => o = n /\ l = k
    BY <1>7, <1>9 DEF Shared
  <2>1. u # NULL
    BY NullApart
  <2>2. /\ Bound(u) /\ mock[n].params[k].list = matcher_ctx[u].list
        /\ \A o \in Mocked : \A l \in DOMAIN mock[o].params :
              mock[o].params[l].by = u => o = n /\ l = k
    BY <2>1 DEF Shared
  <2>3. Bound(u)' /\ matcher_ctx'[u].list = matcher_ctx[u].list
    BY <1>3, <2>2 DEF Calm, Still
  <2>4. \A o \in Mocked : \A l \in DOMAIN mock[o].params :
           mock'[o].params[l].by = u => mock[o].params[l].by = u
    BY <1>9, <2>1
  <2> QED BY <1>8, <2>2, <2>3, <2>4
<1>11. Given'
  <2> SUFFICES ASSUME NEW u \in Thread, Bound(u)', Top(u)'.todo # {}
               PROVE  \E n \in Mocked : \E k \in DOMAIN mock[n].params :
                         mock'[n].params[k].by = u
    BY <1>7 DEF Given
  <2>1. u # t
    BY <1>6
  <2>2. Bound(u) /\ Top(u).todo # {}
    BY <1>3, <2>1 DEF Calm, Still
  <2> QED BY <1>7, <2>1, <2>2 DEF Given
<1>12. \A m \in Mock : Held'[m] = Held[m]
  <2>1. ASSUME NEW m \in Mocked
        PROVE  Held'[m] = Held[m]
    <3>1. CtxNodes(mock'[m]) = CtxNodes(mock[m])
      BY <1>7, <1>8, CtxSame
    <3> QED BY <1>7, <3>1, HeldIs DEF Mocked
  <2>2. \A m \in Mock \ Mocked : Held'[m] = 0 /\ Held[m] = 0
    BY <1>7, HeldIs DEF Mocked
  <2> QED BY <2>1, <2>2
<1>13. heap' = heap + 0 + 0 /\ \A u \in Thread : Due'[u] = Due[u]
  BY <1>1, <1>3, <1>6 DEF IInv, Types, Calm
<1>14. Balanced'
  BY <1>12, <1>13, Rebalanced
<1> QED BY <1>10, <1>11, <1>14

LEMMA EndVerifyLeak ==
    ASSUME IInv, IInv', Shared, Given, Balanced, NEW t \in Thread, EndVerify(t),
           status' = "ok"
    PROVE  Shared' /\ Given' /\ Balanced'
<1>1. /\ In(t, {"verify"}) /\ In(t, Expr) /\ mock_called[t] = 1
      /\ mock' = mock /\ heap' = heap
      /\ matcher_ctx' = [matcher_ctx EXCEPT ![t] = NULL]
      /\ stack' = [stack EXCEPT ![t] = Tail(@)]
  BY DEF EndVerify, Fails, Pop, In, Expr
<1>2. \A u \in Thread \ {t} : stack'[u] = stack[u] /\ matcher_ctx'[u] = matcher_ctx[u]
  BY <1>1 DEF IInv, Types
<1>3. ~In(t, Expr)'
  <2>1. matcher_ctx'[t] = NULL
    BY <1>1 DEF IInv, Types
  <2> QED BY <2>1, ModeNow
<1>4. ~Bound(t) /\ ~Bound(t)'
  BY <1>1, <1>3 DEF Bound, In, Expr
<1>5. Due[t] = 0 /\ Due'[t] = 0
  <2>1. Top(t).ran = 1
    BY <1>1, ExprFacts
  <2>2. Due[t] = 0
    BY <2>1, DueIs DEF Owed, Top
  <2>3. Due'[t] = 0
    BY <1>3, DueIs DEF Owed, In, Top
  <2> QED BY <2>2, <2>3
<1>6. \A u \in Thread : Calm(u)
  BY <1>2, <1>4, <1>5, CalmSame DEF Calm, Still
<1>7. \A m \in Mock : SameParams(m)
  BY <1>1 DEF SameParams
<1> QED BY <1>1, <1>6, <1>7, QuietStep

LEMMA CallNothingLeak ==
    ASSUME IInv, IInv', Shared, Given, Balanced, NEW t \in Thread, CallNothing(t)
    PROVE  Shared' /\ Given' /\ Balanced'
<1>1. /\ In(t, Expr) /\ Top(t).todo = {}
      /\ In(t, Expr)' /\ Top(t)'.k = Top(t).k /\ Top(t)'.ran = Top(t).ran
      /\ Top(t)'.todo = {}
      /\ \A u \in Thread \ {t} : stack'[u] = stack[u]
      /\ mock' = mock /\ matcher_ctx' = matcher_ctx /\ heap' = heap
  BY CallNothingEffect
<1>2. Calm(t)
  <2>1. Bound(t)' <=> Bound(t)
    BY <1>1 DEF Bound, In
  <2>2. Due'[t] = Due[t]
    BY <1>1, DueIs DEF Owed, In, Top
  <2> QED BY <1>1, <2>1, <2>2 DEF Calm, Still
<1>3. \A u \in Thread : Calm(u)
  BY <1>1, <1>2, CalmSame
<1>4. \A m \in Mock : SameParams(m)
  BY <1>1 DEF SameParams
<1> QED BY <1>1, <1>3, <1>4, QuietStep

-----------------------------------------------------------------------------
(* The steps of a thread inside a call expression. *)
LEMMA ExpressionStep ==
    ASSUME IInv, NEW t \in Thread, In(t, Expr), Step(t)
    PROVE  \/ \E i \in 1..2 : EvalArg(t, i)
           \/ \E m \in Mock : \E isLast \in BOOLEAN : CallFromExpression(t, m, isLast)
           \/ CallNothing(t) \/ EndWhen(t) \/ EndVerify(t)
<1>1. ~ClientCode(t) /\ Top(t).k \in Expr
  BY ClientIsPlain, ExprFacts
<1>2. CallMocked(t) => CallFromExpression(t, Top(t).e.mock, TRUE) /\ Top(t).e.mock \in Mock
  <2>1. Top(t) \in Frame /\ Top(t).k \in Expr
    BY ExprFacts
  <2> QED BY <2>1, FrameKinds DEF CallMocked
<1>3. \A m \in Mock : ExtraCall(t, m) => CallFromExpression(t, m, FALSE)
  BY DEF ExtraCall
<1>4. TRUE \in BOOLEAN /\ FALSE \in BOOLEAN
  OBVIOUS
<1>5. \/ \E i \in 1..2 : EvalArg(t, i)
      \/ CallMocked(t) \/ (\E m \in Mock : ExtraCall(t, m))
      \/ CallNothing(t) \/ EndWhen(t) \/ EndVerify(t)
  <2>1. ~Serialized(t) /\ ~CallbackReturns(t) /\ ~StubReturns(t)
    BY <1>1 DEF Serialized, CallbackReturns, StubReturns, In, Expr
  <2> QED BY <1>1, <2>1
          DEF Step, Create, Reset, Call, CallStub, BeginExpression, BeginWhen, BeginVerify
<1> QED BY <1>2, <1>3, <1>4, <1>5, Zenon

(* An expression that has called once at most had not called more before.  *)
LEMMA GoodBefore ==
    ASSUME IInv, IInv', Good', NEW t \in Thread, Step(t), status' = "ok"
    PROVE  Good
<1> SUFFICES ASSUME NEW u \in Thread, In(u, Expr)
             PROVE  Top(u).ran <= 1
  BY DEF Good
<1>1. CASE u # t
  <2>1. stack[u] # << >> /\ Top(u).k \in Expr /\ Top(u).k # "callback"
    BY DEF In, Expr
  <2>2. In(u, Expr)' /\ Top(u)' = Top(u)
    <3>1. CASE stack'[u] = stack[u]
      BY <2>1, <3>1 DEF In, Top
    <3>2. ASSUME NEW m \in Mock, Reset(t, m)
          PROVE  In(u, Expr)' /\ Top(u)' = Top(u)
      <4>1. Top(u)' = Top(u) /\ stack'[u] # << >>
        BY <2>1, <3>2, ResetKeeps
      <4> QED BY <2>1, <4>1 DEF In
    <3> QED BY <1>1, <3>1, <3>2, OtherStacks
  <2> QED BY <2>2 DEF Good
<1>2. CASE u = t
  <2>0. In(t, Expr) /\ Top(t).ran \in Nat
    BY <1>2, ExprFacts
  <2>1. ASSUME NEW i \in 1..2, EvalArg(t, i)
        PROVE  Top(t).ran <= 1
    <3>1. In(t, Expr)' /\ Top(t)'.ran = Top(t).ran
      BY <2>1, EvalArgEffect
    <3> QED BY <3>1 DEF Good
  <2>2. ASSUME NEW m \in Mock, NEW isLast \in BOOLEAN, CallFromExpression(t, m, isLast)
        PROVE  Top(t).ran <= 1
    <3>1. In(t, Expr)' /\ Top(t)'.ran = Top(t).ran + 1
      BY <2>2, CallEffect
    <3>2. Top(t).ran + 1 <= 1
      BY <3>1 DEF Good
    <3> QED BY <2>0, <3>2
  <2>3. ASSUME CallNothing(t)
        PROVE  Top(t).ran <= 1
    <3>1. In(t, Expr)' /\ Top(t)'.ran = Top(t).ran
      BY <2>3, CallNothingEffect
    <3> QED BY <3>1 DEF Good
  <2>4. ASSUME EndWhen(t) \/ EndVerify(t)
        PROVE  Top(t).ran <= 1
    <3>1. mock_called[t] = 1
      BY <2>4 DEF EndWhen, EndVerify, Fails
    <3> QED BY <2>0, <3>1, ExprFacts
  <2> QED BY <1>2, <2>0, <2>1, <2>2, <2>3, <2>4, ExpressionStep
<1> QED BY <1>1, <1>2

LEMMA LeakStep ==
    ASSUME IInv, IInv', MisuseAlone, Good', Shared, Given, Balanced, NEW t \in Thread,
           Step(t), status' = "ok"
    PROVE  Shared' /\ Given' /\ Balanced'
<1>1. CASE In(t, Expr)
  <2>1. ASSUME NEW i \in 1..2, EvalArg(t, i)
        PROVE  Shared' /\ Given' /\ Balanced'
    BY <2>1, GoodBefore, EvalArgLeak
  <2>2. ASSUME NEW m \in Mock, NEW isLast \in BOOLEAN, CallFromExpression(t, m, isLast)
        PROVE  Shared' /\ Given' /\ Balanced'
    <3>1. Top(t).k \in {"when", "verify"}
      BY <1>1, ExprFacts DEF Expr
    <3> QED BY <2>2, <3>1, BindLeak, CountLeak
  <2> QED BY <1>1, <2>1, <2>2, ExpressionStep, CallNothingLeak, EndWhenLeak, EndVerifyLeak
<1>2. CASE ~In(t, Expr)
  <2>1. ASSUME NEW m \in Mock, Create(t, m) \/ Reset(t, m)
        PROVE  Shared' /\ Given' /\ Balanced'
    BY <2>1, CreateLeak, ResetLeak
  <2>2. ASSUME NEW m \in Mock, NEW a \in Args, Call(t, m, a)
        PROVE  Shared' /\ Given' /\ Balanced'
    <3>1. matcher_ctx[t] = NULL
      BY <2>2, ClientIsPlain DEF Call
    <3>2. CASE m \in Variadic
      <4>1. /\ mock' = mock /\ matcher_ctx' = matcher_ctx /\ heap' = heap
            /\ \E f : stack' = [stack EXCEPT ![t] = <<f>> \o @]
        BY <2>2, <3>1, <3>2 DEF Call, Push
      <4>2. \A u \in Thread \ {t} : stack'[u] = stack[u]
        BY <4>1 DEF IInv, Types
      <4>3. \A n \in Mock : SameParams(n)
        BY <4>1 DEF SameParams
      <4> QED BY <1>2, <4>1, <4>2, <4>3, PlainQuiet
    <3>3. CASE m \notin Variadic
      <4>1. RecordAndAnswer(t, m, m, a, stack[t])
        BY <2>2, <3>1, <3>3 DEF Call
      <4> QED BY <1>2, <4>1, CallQuiet
    <3> QED BY <3>2, <3>3
  <2>3. CASE BeginExpression(t)
    BY <2>3, BeginLeak
  <2>4. CASE Serialized(t)
    <3>1. In(t, {"serialize"}) /\ Top(t) \in Frame /\ Top(t).k = "serialize"
      BY <2>4, InTop DEF Serialized, IInv, In
    <3>2. Top(t).args \in Args
      BY <3>1, FrameKinds
    <3>3. RecordAndAnswer(t, Top(t).m, mmk_ctx[t], Top(t).args, Tail(stack[t]))
      BY <2>4 DEF Serialized
    <3> QED BY <1>2, <3>2, <3>3, CallQuiet
  <2>5. CASE CallbackReturns(t) \/ StubReturns(t) \/ \E s \in StubFn : CallStub(t, s)
    <3>1. /\ mock' = mock /\ matcher_ctx' = matcher_ctx /\ heap' = heap
          /\ \E x : stack' = [stack EXCEPT ![t] = x]
      BY <2>5 DEF CallbackReturns, StubReturns, CallStub, Pop, Push, Fails
    <3>2. \A u \in Thread \ {t} : stack'[u] = stack[u]
      BY <3>1 DEF IInv, Types
    <3>3. \A n \in Mock : SameParams(n)
      BY <3>1 DEF SameParams
    <3> QED BY <1>2, <3>1, <3>2, <3>3, PlainQuiet
  <2>6. /\ \A i \in 1..2 : ~EvalArg(t, i)
        /\ \A m \in Mock : ~ExtraCall(t, m)
        /\ ~CallMocked(t) /\ ~CallNothing(t) /\ ~EndWhen(t) /\ ~EndVerify(t)
    BY <1>2 DEF EvalArg, ExtraCall, CallMocked, CallNothing, EndWhen, EndVerify, In, Expr
  <2> QED BY <2>1, <2>2, <2>3, <2>4, <2>5, <2>6 DEF Step
<1> QED BY <1>1, <1>2

LEMMA RecordModes ==
    ASSUME NEW t, NEW m, NEW c, NEW args, NEW rest, RecordAndAnswer(t, m, c, args, rest)
    PROVE  matcher_ctx' = matcher_ctx
<1>1. CASE c \notin Mock \/ mock[c] = NULL
  BY <1>1 DEF RecordAndAnswer, Fails
<1>2. CASE ~(c \notin Mock \/ mock[c] = NULL)
  BY <1>2 DEF RecordAndAnswer
<1> QED BY <1>1, <1>2

(* While an expression has called more than once nothing is freed.         *)
LEMMA HeapKept ==
    ASSUME IInv, IInv', MisuseAlone, ~Good', NEW t \in Thread, Step(t), status' = "ok"
    PROVE  heap' >= heap
<1>0. heap \in Int
  BY DEF IInv, Types
<1>1. PICK u \in Thread : In(u, Expr)' /\ ~(Top(u)'.ran <= 1)
  BY DEF Good
<1>2. u = t
  <2>1. /\ stack'[u] \in Seq(Frame) /\ Local(stack'[u], matcher_ctx'[u], mock_called'[u])
        /\ stack'[u] # << >> /\ Head(stack'[u]).k \in Expr /\ Top(u)' = Head(stack'[u])
    BY <1>1 DEF IInv, Types, LocalInv, In, Top
  <2>2. Progress(Top(u)', matcher_ctx'[u])
    BY <2>1 DEF Local
  <2>3. Misuse
    BY <1>1, <2>2 DEF Progress
  <2> QED BY <2>3 DEF MisuseAlone
<1>3. CASE In(t, Expr)
  <2>1. ASSUME NEW m \in Mock, NEW isLast \in BOOLEAN, CallFromExpression(t, m, isLast)
        PROVE  heap' >= heap
    <3>1. /\ ~matcher_ctx[t].freed /\ Top(t)'.ran = Top(t).ran + 1
          /\ Top(t).k = "when" => heap' = heap
      BY <2>1, CallEffect DEF Bind
    <3>2. /\ Top(t).k \in {"when", "verify"} /\ Top(t).ran \in Nat
          /\ Progress(Top(t), matcher_ctx[t])
      BY <1>3, ExprFacts DEF Expr
    <3>3. Top(t).k = "verify" => Top(t).ran = 0
      BY <3>1, <3>2 DEF Progress
    <3> QED BY <1>0, <1>1, <1>2, <3>1, <3>2, <3>3
  <2>2. ASSUME NEW i \in 1..2, EvalArg(t, i)
        PROVE  heap' >= heap
    BY <1>0, <2>2, EvalArgEffect
  <2>3. CASE CallNothing(t) \/ EndWhen(t) \/ EndVerify(t)
    BY <1>0, <2>3 DEF CallNothing, EndWhen, EndVerify, Fails
  <2> QED BY <1>3, <2>1, <2>2, <2>3, ExpressionStep
<1>4. CASE ~In(t, Expr)
  <2>1. BeginExpression(t)
    <3>1. matcher_ctx'[t] # NULL /\ matcher_ctx[t] = NULL
      BY <1>1, <1>2, <1>4, ModeNow
    <3>2. matcher_ctx' # matcher_ctx
      BY <3>1
    <3>3. \A m \in Mock, a \in Args : ~Call(t, m, a)
      <4> SUFFICES ASSUME NEW m \in Mock, NEW a \in Args, Call(t, m, a) PROVE FALSE
        OBVIOUS
      <4>1. CASE m \in Variadic
        BY <3>1, <3>2, <4>1 DEF Call
      <4>2. CASE m \notin Variadic
        <5>1. RecordAndAnswer(t, m, m, a, stack[t])
          BY <3>1, <4>2 DEF Call
        <5> QED BY <3>2, <5>1, RecordModes
      <4> QED BY <4>1, <4>2
    <3>4. /\ \A m \in Mock : ~Create(t, m) /\ ~Reset(t, m)
          /\ \A s \in StubFn : ~CallStub(t, s)
          /\ ~Serialized(t) /\ ~CallbackReturns(t) /\ ~StubReturns(t)
      BY <3>2, RecordModes DEF Create, Reset, CallStub, Serialized, CallbackReturns,
                               StubReturns, Fails
    <3>5. /\ \A i \in 1..2 : ~EvalArg(t, i)
          /\ \A m \in Mock : ~ExtraCall(t, m)
          /\ ~CallMocked(t) /\ ~CallNothing(t) /\ ~EndWhen(t) /\ ~EndVerify(t)
      BY <1>4 DEF EvalArg, ExtraCall, CallMocked, CallNothing, EndWhen, EndVerify, In, Expr
    <3> QED BY <3>3, <3>4, <3>5 DEF Step
  <2>2. heap' = heap + 1
    BY <2>1 DEF BeginExpression, BeginWhen, BeginVerify, mmk_matcher_init
  <2> QED BY <1>0, <2>2
<1> QED BY <1>3, <1>4

(* What is lost is lost with the memory as it was. *)
LEMMA LostHeap ==
    ASSUME IInv, NEW t \in Thread, Step(t), status = "ok", status' # "ok"
    PROVE  heap' = heap
<1>1. ASSUME NEW m, NEW isLast, CallFromExpression(t, m, isLast)
      PROVE  heap' = heap
  BY <1>1 DEF CallFromExpression, MatcherModeCall, Fails
<1>2. ASSUME NEW m, NEW c, NEW args, NEW rest, RecordAndAnswer(t, m, c, args, rest)
      PROVE  heap' = heap
  BY <1>2 DEF RecordAndAnswer, Fails
<1>3. ASSUME NEW m \in Mock, NEW a \in Args, Call(t, m, a)
      PROVE  heap' = heap
  BY <1>2, <1>3, ClientIsPlain DEF Call
<1>4. CASE \E m \in Mock : Create(t, m) \/ Reset(t, m) \/ ExtraCall(t, m)
  BY <1>1, <1>4 DEF Create, Reset, ExtraCall
<1>5. CASE BeginExpression(t) \/ \E s \in StubFn : CallStub(t, s)
  BY <1>5 DEF BeginExpression, BeginWhen, BeginVerify, CallStub
<1>6. CASE \E i \in 1..2 : EvalArg(t, i)
  BY <1>6 DEF EvalArg, Fails
<1>7. CASE CallMocked(t) \/ CallNothing(t) \/ EndWhen(t) \/ EndVerify(t)
  BY <1>1, <1>7 DEF CallMocked, CallNothing, EndWhen, EndVerify, Fails
<1>8. CASE Serialized(t) \/ CallbackReturns(t) \/ StubReturns(t)
  BY <1>2, <1>8 DEF Serialized, CallbackReturns, StubReturns, Fails
<1> QED BY <1>3, <1>4, <1>5, <1>6, <1>7, <1>8 DEF Step

(* The nodes that contracts and expressions hold. *)
LEMMA HeapSum ==
    ASSUME IInv, IInv', Balanced'
    PROVE  heap' >= 0
<1> DEFINE h == Held'
           d == Due'
<1>1. /\ IsFiniteSet(Mock) /\ IsFiniteSet(Thread)
      /\ \A m \in Mock : h[m] \in Int /\ h[m] >= 0
      /\ \A t \in Thread : d[t] \in Int /\ d[t] >= 0
  BY MockAssumption, CountsInt
<1>2. heap' = SumFunctionOnSet(h, Mock) + SumFunctionOnSet(d, Thread)
  BY DEF Balanced
<1> HIDE DEF h, d
<1>3. /\ SumFunctionOnSet(h, Mock) \in Int /\ SumFunctionOnSet(h, Mock) >= 0
      /\ SumFunctionOnSet(d, Thread) \in Int /\ SumFunctionOnSet(d, Thread) >= 0
  BY <1>1, SumInt
<1> QED BY <1>2, <1>3

-----------------------------------------------------------------------------
LEMMA LeakInvariance == ASSUME MisuseAlone PROVE Spec => [](LeakInv /\ heap >= 0)
<1>1. Init => LeakInv /\ heap >= 0
  <2> SUFFICES ASSUME Init PROVE LeakInv /\ heap >= 0
    OBVIOUS
  <2>1. Mocked = {} /\ \A t \in Thread : stack[t] = << >>
    BY DEF Init, Mocked
  <2>2. Shared /\ Given
    BY <2>1 DEF Shared, Given, Bound, In
  <2>3. /\ \A m \in Mock : Held[m] = 0
        /\ \A t \in Thread : Due[t] = 0
    BY <2>1, HeldIs, DueIs DEF Mocked, Owed
  <2>4. SumFunctionOnSet(Held, Mock) = 0 /\ SumFunctionOnSet(Due, Thread) = 0
    <3> DEFINE h == Held
               d == Due
    <3>1. IsFiniteSet(Mock) /\ IsFiniteSet(Thread)
      BY MockAssumption
    <3>2. /\ \A m \in Mock : h[m] = 0
          /\ \A t \in Thread : d[t] = 0
      BY <2>3
    <3> HIDE DEF h, d
    <3>3. /\ SumFunctionOnSet(h, Mock) = SumFunctionOnSet(h, {})
          /\ SumFunctionOnSet(d, Thread) = SumFunctionOnSet(d, {})
      BY <3>1, <3>2, SumSkip
    <3>4. SumFunctionOnSet(h, Mock) = 0 /\ SumFunctionOnSet(d, Thread) = 0
      BY <3>3, SumEmpty
    <3> QED BY <3>4 DEF h, d
  <2>5. heap = 0
    BY DEF Init
  <2> QED BY <2>2, <2>4, <2>5 DEF LeakInv, Balanced
<1>2. IInv /\ LeakInv /\ heap >= 0 /\ [Next]_vars => (LeakInv /\ heap >= 0)'
  <2>1. ASSUME UNCHANGED vars, LeakInv, heap >= 0
        PROVE  LeakInv' /\ heap' >= 0
    <3>1. /\ mock' = mock /\ stack' = stack /\ matcher_ctx' = matcher_ctx
          /\ heap' = heap /\ status' = status
      BY <2>1 DEF vars
    <3>2. Good' = Good
      BY <3>1 DEF Good, In, Top
    <3>3. Shared' = Shared /\ Given' = Given
      BY <3>1 DEF Shared, Given, Mocked, Bound, In, Top
    <3>4. Held' = Held /\ Due' = Due
      BY <3>1 DEF Held, Due, Owned, NodesOf, In, Top
    <3>5. Balanced' = Balanced
      BY <3>1, <3>4 DEF Balanced
    <3> QED BY <2>1, <3>1, <3>2, <3>3, <3>5 DEF LeakInv
  <2>2. ASSUME IInv, LeakInv, heap >= 0, Next
        PROVE  LeakInv' /\ heap' >= 0
    <3>1. PICK t \in Thread : Step(t)
      BY <2>2 DEF Next
    <3>2. IInv' /\ status = "ok"
      BY <2>2, <3>1, StepIInv DEF Next
    <3>3. CASE status' # "ok"
      <4>1. heap' = heap
        BY <2>2, <3>1, <3>2, <3>3, LostHeap
      <4> QED BY <2>2, <3>3, <4>1 DEF LeakInv
    <3>4. CASE status' = "ok" /\ Good'
      <4>1. Shared /\ Given /\ Balanced
        BY <2>2, <3>1, <3>2, <3>4, GoodBefore DEF LeakInv
      <4>2. Shared' /\ Given' /\ Balanced'
        BY <2>2, <3>1, <3>2, <3>4, <4>1, LeakStep
      <4>3. heap' >= 0
        BY <2>2, <3>2, <4>2, HeapSum
      <4> QED BY <4>2, <4>3 DEF LeakInv
    <3>5. CASE status' = "ok" /\ ~Good'
      <4>1. heap' >= heap /\ heap \in Int /\ heap' \in Int
        BY <2>2, <3>1, <3>2, <3>5, HeapKept DEF IInv, Types
      <4> QED BY <2>2, <3>5, <4>1 DEF LeakInv
    <3> QED BY <3>3, <3>4, <3>5
  <2> QED BY <2>1, <2>2
<1> QED BY <1>1, <1>2, Invariance, PTL DEF Spec

(* No matcher node leaks and none is freed twice, as long as no mmk_when or *)
(* mmk_verify under way has called more than one mocked function            *)
(* (matcher.h:166-186, mock.h:318-345).                                     *)
THEOREM NoLeak == ASSUME MisuseAlone PROVE Spec => []NoMatcherLeak
<1>1. LeakInv /\ IInv => NoMatcherLeak
  <2> SUFFICES ASSUME LeakInv, IInv, status = "ok", Good
               PROVE  heap = SumFunction([m \in {n \in Mock : mock[n] # NULL} |-> NodesOf(m)])
                             + SumFunction([t \in Thread |-> Owned(t)])
    BY DEF NoMatcherLeak, Good, Expr
  <2> DEFINE h == Held
             g == [m \in Mocked |-> NodesOf(m)]
  <2>1. heap = SumFunctionOnSet(h, Mock) + SumFunctionOnSet(Due, Thread)
    BY DEF LeakInv, Balanced
  <2>2. SumFunction([t \in Thread |-> Owned(t)]) = SumFunctionOnSet(Due, Thread)
    BY DEF SumFunction, Due
  <2>3. SumFunction([m \in {n \in Mock : mock[n] # NULL} |-> NodesOf(m)])
            = SumFunctionOnSet(g, Mocked)
    BY DEF SumFunction, Mocked
  <2>4. /\ IsFiniteSet(Mock) /\ Mocked \subseteq Mock
        /\ \A m \in Mock : h[m] \in Int
        /\ \A m \in Mock \ Mocked : h[m] = 0
        /\ \A m \in Mocked : h[m] = g[m]
    <3>1. \A m \in Mock : h[m] \in Int
      <4> SUFFICES ASSUME NEW m \in Mock PROVE h[m] \in Int
        OBVIOUS
      <4>1. mock[m] \in MockCtx \union {NULL}
        BY DEF IInv, Types
      <4> QED BY <4>1, CtxNodesInt, HeldIs
    <3>2. \A m \in Mocked : h[m] = g[m]
      BY DEF Held, Mocked
    <3>3. \A m \in Mock \ Mocked : h[m] = 0
      BY DEF Held, Mocked
    <3> QED BY <3>1, <3>2, <3>3, MockAssumption DEF Mocked
  <2> HIDE DEF h, g
  <2>5. SumFunctionOnSet(h, Mock) = SumFunctionOnSet(g, Mocked)
    BY <2>4, SumSkip
  <2> QED BY <2>1, <2>2, <2>3, <2>5
<1> QED BY <1>1, LeakInvariance, Invariance, PTL

(* The whole state keeps its types; the count of nodes in use never goes    *)
(* below zero.                                                              *)
THEOREM TypeSafe == ASSUME MisuseAlone PROVE Spec => []TypeOK
<1>1. IInv /\ heap >= 0 => TypeOK
  BY DEF IInv, Types, TypeOK
<1> QED BY <1>1, LeakInvariance, Invariance, PTL

-----------------------------------------------------------------------------
(***************************************************************************)
(* Mocks implements MockContract.  Most steps of Mocks are stutters.  A    *)
(* call answers, a mmk_when is made and a mmk_verify counts when the       *)
(* mocked function runs, but what they then do is right only because of    *)
(* what earlier steps have built: the list of matchers, one argument after *)
(* the other in an order C leaves open.  Building and Agreed say what      *)
(* those lists hold meanwhile.                                             *)
(***************************************************************************)

(* MockContract has its own copies of the operators of Matchers.           *)
LEMMA SameOperators ==
    /\ \A m, a, r : C!Passes(m, a, r) <=> Passes(m, a, r)
    /\ \A k, p, d : C!Matcher(k, p, d) = Matcher(k, p, d)
    /\ \A S : C!Min(S) = Min(S)
    /\ \A f, S : C!SumFunctionOnSet(f, S) = SumFunctionOnSet(f, S)
    /\ \A p, n : C!mmk_verify_times(p, n) = mmk_verify_times(p, n)
<1>1. \A m, a, r : C!Passes(m, a, r) <=> Passes(m, a, r)
  BY DEF C!Passes, Passes, C!LetsThrough, LetsThrough
<1>2. \A k, p, d : C!Matcher(k, p, d) = Matcher(k, p, d)
  BY DEF C!Matcher, Matcher
<1>3. \A S : C!Min(S) = Min(S)
  BY DEF C!Min, Min
<1>4. \A f, S : C!SumFunctionOnSet(f, S) = SumFunctionOnSet(f, S)
  BY DEF C!SumFunctionOnSet, SumFunctionOnSet, C!FoldFunctionOnSet, FoldFunctionOnSet,
         C!MapThenFoldSet, MapThenFoldSet
<1>5. \A p, n : C!mmk_verify_times(p, n) = mmk_verify_times(p, n)
  BY DEF C!mmk_verify_times, mmk_verify_times
<1> QED BY <1>1, <1>2, <1>3, <1>4, <1>5

-----------------------------------------------------------------------------
(* The list that the arguments S of the call expression e have built, in   *)
(* whatever order they were evaluated.                                     *)
Made(e, p) == Matcher(e.kinds[p], p, e.pred)

Built(list, e, S) ==
    /\ \A j \in DOMAIN list : list[j].prio \in S /\ list[j] = Made(e, list[j].prio)
    /\ \A i, j \in DOMAIN list : i < j => list[i].prio < list[j].prio
    /\ \A p \in S : \E j \in DOMAIN list : list[j].prio = p

LEMMA MadePrio ==
    ASSUME NEW e, NEW p
    PROVE  Made(e, p).prio = p
BY DEF Made, Matcher

(* Built is a list of matchers in the order of their parameters.           *)
LEMMA BuiltOrdered ==
    ASSUME NEW list, NEW e, NEW S, NEW T, S \subseteq T
    PROVE  Built(list, e, S) <=> InOrder(list, [q \in T |-> Made(e, q)], S)
BY DEF Built, InOrder

LEMMA BuiltAdd ==
    ASSUME NEW X, NEW list \in Seq(X), NEW e, NEW S \in SUBSET Nat, NEW p \in Nat \ S,
           Made(e, p) \in X, Built(list, e, S)
    PROVE  Built(mmk_matcher_add(list, Made(e, p)), e, S \union {p})
<1> DEFINE T == S \union {p}
           F == [q \in T |-> Made(e, q)]
<1>1. F[p] = Made(e, p) /\ F[p] \in X /\ F[p].prio = p
  BY MadePrio
<1>2. InOrder(list, F, S)
  BY BuiltOrdered
<1> HIDE DEF F
<1>3. InOrder(PutInOrder(list, F[p]), F, T)
  BY <1>1, <1>2, OrderedPut
<1>4. PutInOrder(list, F[p]) = mmk_matcher_add(list, Made(e, p))
  BY <1>1 DEF PutInOrder, mmk_matcher_add
<1> QED BY <1>3, <1>4, BuiltOrdered DEF F

(* A list that covers the parameters 1 to n has each at its own place.     *)
LEMMA BuiltWhole ==
    ASSUME NEW X, NEW list \in Seq(X), NEW e, NEW n \in Nat, Built(list, e, 1..n)
    PROVE  Len(list) = n /\ \A j \in 1..n : list[j] = Made(e, j)
<1> DEFINE F == [q \in 1..n |-> Made(e, q)]
<1>1. InOrder(list, F, 1..n)
  BY BuiltOrdered
<1>2. \A j \in 1..n : F[j] = Made(e, j)
  OBVIOUS
<1> HIDE DEF F
<1> QED BY <1>1, <1>2, OrderedWhole

-----------------------------------------------------------------------------
(* A finished list says of every call what its expression says.            *)
LEMMA SameVerdict ==
    ASSUME NEW X, NEW list \in Seq(X), NEW e \in WhenExpr \union VerifyExpr,
           Built(list, e, DOMAIN e.kinds)
    PROVE  \A args : Matches(list, args, e.refs) <=> C!Accepts(e, args)
<1>1. DOMAIN e.refs = 1..Len(e.refs) /\ Len(e.refs) \in Nat
  <2>1. e.refs \in Seq(Int)
    BY ExprAssumption
  <2> QED BY <2>1
<1>2. DOMAIN e.kinds = IF e.kinds = << >> THEN {} ELSE DOMAIN e.refs
  BY ExprAssumption
<1>3. CASE e.kinds = << >>
  <2>1. DOMAIN e.kinds = 1..0
    BY <1>2, <1>3
  <2>2. Len(list) = 0
    BY <2>1, BuiltWhole
  <2>3. \A n \in DOMAIN e.refs : ~(n <= Len(list))
    BY <1>1, <2>2
  <2> QED BY <1>3, <2>3 DEF Matches, C!Accepts
<1>4. CASE e.kinds # << >>
  <2>1. DOMAIN e.kinds = 1..Len(e.refs)
    BY <1>1, <1>2, <1>4
  <2>2. Len(list) = Len(e.refs) /\ \A j \in 1..Len(e.refs) : list[j] = Made(e, j)
    BY <1>1, <2>1, BuiltWhole
  <2>3. \A n \in DOMAIN e.refs : n <= Len(list) /\ list[n] = C!Matcher(e.kinds[n], n, e.pred)
    BY <1>1, <2>2, SameOperators DEF Made
  <2>4. \A args : Matches(list, args, e.refs) <=>
                     \A n \in DOMAIN e.refs : Passes(list[n], args[n], e.refs[n])
    BY <2>3 DEF Matches
  <2>5. \A args : C!Accepts(e, args) <=>
                     \A n \in DOMAIN e.refs : C!Passes(list[n], args[n], e.refs[n])
    BY <1>4, <2>3 DEF C!Accepts
  <2> QED BY <2>4, <2>5, SameOperators
<1> QED BY <1>3, <1>4

-----------------------------------------------------------------------------
(* What a contract is: what the client wrote, and, while the expression    *)
(* that made it lasts, that of the frame on top of its thread's stack.     *)
Making(s, e) == s # << >> /\ Head(s).k = "when" /\ Head(s).done /\ Head(s).e = e

Kept(c, m, s) ==
    /\ c.expr.mock = m /\ c.refs = c.expr.refs /\ c.result = c.expr.result
    /\ Built(c.list, c.expr, DOMAIN c.expr.kinds)
    /\ c.by # NULL => Making(s[c.by], c.expr)

Agreed ==
    \A m \in Mocked : \A i \in DOMAIN mock[m].params : Kept(mock[m].params[i], m, stack)

(* A list under construction has the matchers of the arguments evaluated.  *)
Building ==
    \A t \in Thread : In(t, Expr) =>
        Built(matcher_ctx[t].list, Top(t).e, DOMAIN Top(t).e.kinds \ Top(t).todo)

RefineInv == Agreed /\ Building

LEMMA ContractAt ==
    ASSUME IInv, NEW m \in Mock, mock[m] # NULL
    PROVE  /\ mock[m] \in MockCtx /\ mock[m].params \in Seq(Contract)
           /\ mock[m].calls \in [Args -> Nat]
           /\ \A i \in DOMAIN mock[m].params :
                 /\ mock[m].params[i] \in Contract
                 /\ mock[m].params[i].by \in Thread \union {NULL}
                 /\ mock[m].params[i].list \in Seq(Node)
                 /\ mock[m].params[i].expr \in WhenExpr
                 /\ mock[m].params[i].result \in Result
<1>1. mock[m] \in MockCtx
  BY DEF IInv, Types
<1>2. mock[m].params \in Seq(Contract) /\ mock[m].calls \in [Args -> Nat]
  BY <1>1 DEF MockCtx
<1>3. \A i \in DOMAIN mock[m].params : mock[m].params[i] \in Contract
  BY <1>2
<1>4. \A c \in Contract : /\ c.by \in Thread \union {NULL} /\ c.list \in Seq(Node)
                          /\ c.expr \in WhenExpr /\ c.result \in Result
  BY DEF Contract
<1> QED BY <1>1, <1>2, <1>3, <1>4

(* Each contract is an old one whose maker has not gone on, or a new one.  *)
LEMMA AgreedStep ==
    ASSUME IInv, Agreed,
           \A n \in Mock : mock'[n] # NULL =>
               \A i \in DOMAIN mock'[n].params :
                   \/ /\ mock[n] # NULL /\ i \in DOMAIN mock[n].params
                      /\ mock'[n].params[i] = mock[n].params[i]
                      /\ \A u \in Thread : mock[n].params[i].by = u =>
                            \A e : Making(stack[u], e) => Making(stack'[u], e)
                   \/ Kept(mock'[n].params[i], n, stack')
    PROVE  Agreed'
<1> SUFFICES ASSUME NEW n \in Mock, mock'[n] # NULL, NEW i \in DOMAIN mock'[n].params
             PROVE  Kept(mock'[n].params[i], n, stack')
  BY DEF Agreed, Mocked
<1>1. CASE /\ mock[n] # NULL /\ i \in DOMAIN mock[n].params
           /\ mock'[n].params[i] = mock[n].params[i]
           /\ \A u \in Thread : mock[n].params[i].by = u =>
                 \A e : Making(stack[u], e) => Making(stack'[u], e)
  <2>1. Kept(mock[n].params[i], n, stack) /\ mock[n].params[i].by \in Thread \union {NULL}
    BY <1>1, ContractAt DEF Agreed, Mocked
  <2> QED BY <1>1, <2>1 DEF Kept
<1> QED BY <1>1

(* The contracts are the same and no thread leaves a mmk_when.             *)
LEMMA AgreedSame ==
    ASSUME IInv, Agreed,
           \A n \in Mock : mock'[n] # NULL =>
               \/ mock[n] # NULL /\ mock'[n].params = mock[n].params
               \/ DOMAIN mock'[n].params = {},
           \A u \in Thread : \A e : Making(stack[u], e) => Making(stack'[u], e)
    PROVE  Agreed'
BY AgreedStep

LEMMA BuildingStep ==
    ASSUME Building, NEW t \in Thread,
           \A u \in Thread \ {t} : In(u, Expr)' =>
               /\ In(u, Expr) /\ Top(u)' = Top(u)
               /\ matcher_ctx'[u].list = matcher_ctx[u].list,
           In(t, Expr)' => Built(matcher_ctx'[t].list, Top(t)'.e,
                                 DOMAIN Top(t)'.e.kinds \ Top(t)'.todo)
    PROVE  Building'
BY DEF Building

-----------------------------------------------------------------------------
(* The state of the promise. *)
Written(p)     == [i \in DOMAIN p |-> p[i].expr]
ExprsOf(ctx)   == Written(ctx.params)
PromiseOf(ctx) == IF ctx = NULL THEN NULL ELSE ExprsOf(ctx)
CallsOf(ctx)   == IF ctx = NULL THEN NoCalls ELSE ctx.calls

Promised == [m \in Mock |-> IF mock[m] = NULL THEN NULL ELSE Exprs(m)]
Counted  == [m \in Mock |-> IF mock[m] = NULL THEN NoCalls ELSE mock[m].calls]

LEMMA Views ==
    /\ Promised = [m \in Mock |-> PromiseOf(mock[m])]
    /\ Promised' = [m \in Mock |-> PromiseOf(mock'[m])]
    /\ Counted = [m \in Mock |-> CallsOf(mock[m])]
    /\ Counted' = [m \in Mock |-> CallsOf(mock'[m])]
BY DEF Promised, Counted, PromiseOf, CallsOf, ExprsOf, Written, Exprs

LEMMA ViewSame ==
    ASSUME \A m \in Mock : /\ PromiseOf(mock'[m]) = PromiseOf(mock[m])
                           /\ CallsOf(mock'[m]) = CallsOf(mock[m])
    PROVE  Promised' = Promised /\ Counted' = Counted
BY Views

LEMMA ViewOne ==
    ASSUME NEW m \in Mock, \A n \in Mock \ {m} : mock'[n] = mock[n]
    PROVE  /\ Promised' = [Promised EXCEPT ![m] = PromiseOf(mock'[m])]
           /\ Counted' = [Counted EXCEPT ![m] = CallsOf(mock'[m])]
           /\ Promised[m] = PromiseOf(mock[m]) /\ Counted[m] = CallsOf(mock[m])
           /\ \A x : [Promised EXCEPT ![m] = x][m] = x
           /\ PromiseOf(mock'[m]) = PromiseOf(mock[m]) => Promised' = Promised
           /\ CallsOf(mock'[m]) = CallsOf(mock[m]) => Counted' = Counted
BY Views

LEMMA PromiseIs ==
    ASSUME NEW ctx \in MockCtx
    PROVE  /\ PromiseOf(ctx) = ExprsOf(ctx) /\ CallsOf(ctx) = ctx.calls
           /\ PromiseOf(ctx) # NULL
           /\ ExprsOf(ctx) \in Seq(WhenExpr)
<1>1. ctx # NULL
  BY NullApart
<1>2. ctx.params \in Seq(Contract)
  BY DEF MockCtx
<1>3. \A i \in DOMAIN ctx.params : ctx.params[i].expr \in WhenExpr
  <2>1. \A i \in DOMAIN ctx.params : ctx.params[i] \in Contract
    BY <1>2
  <2> QED BY <2>1 DEF Contract
<1>4. ExprsOf(ctx) \in Seq(WhenExpr)
  BY <1>2, <1>3 DEF ExprsOf, Written
<1> QED BY <1>1, <1>4, RefineAssumption DEF PromiseOf, CallsOf

Stutters == UNCHANGED <<Promised, Counted, times, event>>

LEMMA StutterIs == Stutters => UNCHANGED C!cvars
BY DEF Stutters, C!cvars, Promised, Counted

LEMMA CreateRefines ==
    ASSUME IInv, NEW t \in Thread, NEW m \in Mock, Create(t, m)
    PROVE  C!Create(m)
<1> DEFINE x == [params |-> << >>, calls |-> NoCalls]
<1>1. /\ mock[m] = NULL /\ mock' = [mock EXCEPT ![m] = x]
      /\ event' = [op |-> "create", mock |-> m] /\ times' = times
  BY DEF Create
<1>2. mock'[m] = x /\ \A n \in Mock \ {m} : mock'[n] = mock[n]
  BY <1>1 DEF IInv, Types
<1>3. x \in MockCtx /\ ExprsOf(x) = << >> /\ x.calls = C!NoCalls
  BY DEF MockCtx, NoCalls, C!NoCalls, ExprsOf, Written
<1> HIDE DEF x
<1>4. /\ Promised' = [Promised EXCEPT ![m] = << >>]
      /\ Counted' = [Counted EXCEPT ![m] = C!NoCalls]
      /\ Promised[m] = NULL
  BY <1>1, <1>2, <1>3, ViewOne, PromiseIs DEF PromiseOf
<1> QED BY <1>1, <1>4 DEF C!Create, Promised, Counted

LEMMA ResetRefines ==
    ASSUME IInv, NEW t \in Thread, NEW m \in Mock, Reset(t, m)
    PROVE  C!Reset(m)
<1>1. /\ mock[m] # NULL /\ mock' = [mock EXCEPT ![m] = NULL]
      /\ event' = [op |-> "reset", mock |-> m] /\ times' = times
  BY DEF Reset
<1>2. /\ mock'[m] = NULL /\ \A n \in Mock \ {m} : mock'[n] = mock[n]
      /\ mock[m] \in MockCtx
  BY <1>1 DEF IInv, Types
<1>3. NoCalls = C!NoCalls
  BY DEF NoCalls, C!NoCalls
<1>4. PromiseOf(mock'[m]) = NULL /\ CallsOf(mock'[m]) = C!NoCalls
  BY <1>2, <1>3 DEF PromiseOf, CallsOf
<1>5. /\ Promised' = [Promised EXCEPT ![m] = NULL]
      /\ Counted' = [Counted EXCEPT ![m] = C!NoCalls]
      /\ Promised[m] # NULL
  BY <1>2, <1>4, ViewOne, PromiseIs
<1> QED BY <1>1, <1>5 DEF C!Reset, Promised, Counted

LEMMA VerdictRefines ==
    ASSUME IInv, NEW t \in Thread, EndVerify(t), mock_called[t] = 1
    PROVE  Top(t).e \in VerifyExpr /\ C!Verdict(t, Top(t).e)
<1>1. In(t, Expr) /\ Top(t).k = "verify"
  BY DEF EndVerify, In, Expr
<1>2. Top(t).e \in VerifyExpr
  BY <1>1, ExprFacts
<1>3. /\ event' = [op |-> "verdict", by |-> t,
                   passes |-> mmk_verify_times(Top(t).e.params, times[t])]
      /\ mock' = mock /\ times' = times
  BY DEF EndVerify
<1>4. Promised' = Promised /\ Counted' = Counted
  BY <1>3, ViewSame
<1>5. event' = [op |-> "verdict", by |-> t,
                passes |-> C!mmk_verify_times(Top(t).e.params, times[t])]
  BY <1>3, SameOperators
<1> QED BY <1>2, <1>3, <1>4, <1>5 DEF C!Verdict, Promised, Counted

LEMMA ExprsPush ==
    ASSUME NEW p \in Seq(Contract), NEW c \in Contract, NEW q, q = <<c>> \o p
    PROVE  Written(q) = <<c.expr>> \o Written(p)
<1> DEFINE a == [i \in DOMAIN q |-> q[i].expr]
           b == [i \in DOMAIN p |-> p[i].expr]
           r == <<c.expr>> \o b
           X == WhenExpr
<1>1. /\ q \in Seq(Contract) /\ DOMAIN q = 1..Len(p) + 1 /\ q[1] = c
      /\ \A i \in 2..Len(p) + 1 : q[i] = p[i - 1]
      /\ DOMAIN p = 1..Len(p) /\ Len(p) \in Nat
  BY Pushed
<1>2. c.expr \in X /\ \A i \in DOMAIN p : p[i].expr \in X
  <2>1. \A i \in DOMAIN p : p[i] \in Contract
    OBVIOUS
  <2> QED BY <2>1 DEF Contract
<1>3. b \in Seq(X) /\ Len(b) = Len(p) /\ \A i \in 1..Len(p) : b[i] = p[i].expr
  BY <1>1, <1>2
<1>4. DOMAIN a = 1..Len(p) + 1 /\ \A i \in 1..Len(p) + 1 : a[i] = q[i].expr
  BY <1>1
<1>8. a = [i \in 1..Len(p) + 1 |-> a[i]]
  BY <1>1
<1> HIDE DEF a, b, X
<1>5. /\ r \in Seq(X) /\ r[1] = c.expr /\ DOMAIN r = 1..Len(p) + 1
      /\ \A i \in 2..Len(p) + 1 : r[i] = b[i - 1]
  BY <1>2, <1>3, Pushed
<1>9. r = [i \in 1..Len(p) + 1 |-> r[i]]
  <2> HIDE DEF r
  <2> QED BY <1>5
<1> HIDE DEF r
<1>6. ASSUME NEW i \in 1..Len(p) + 1
      PROVE  a[i] = r[i]
  <2>1. CASE i = 1
    BY <1>1, <1>4, <1>5, <2>1
  <2>2. CASE i # 1
    <3>1. i \in 2..Len(p) + 1 /\ i - 1 \in 1..Len(p)
      BY <1>1, <2>2
    <3>2. a[i] = p[i - 1].expr /\ r[i] = b[i - 1] /\ b[i - 1] = p[i - 1].expr
      BY <1>1, <1>3, <1>4, <1>5, <3>1
    <3> QED BY <3>2
  <2> QED BY <2>1, <2>2
<1>7. a = r
  BY <1>6, <1>8, <1>9
<1> QED BY <1>7 DEF a, b, r, Written

(* The call of a call expression. *)
LEMMA ExprCall ==
    ASSUME IInv, NEW t \in Thread, CallMocked(t), status' = "ok"
    PROVE  LET m == Top(t).e.mock
               e == Top(t).e
           IN  /\ In(t, Expr) /\ m \in Mock /\ mock[m] # NULL /\ Top(t).todo = {}
               /\ ~Top(t).done
               /\ e \in WhenExpr \union VerifyExpr
               /\ matcher_ctx[t] \in MatcherCtx /\ matcher_ctx[t].list \in Seq(Node)
               /\ Top(t).k = "when" => /\ e \in WhenExpr /\ Bind(t, m, e.refs, e)
                                       /\ cur_result[t] = e.result
               /\ Top(t).k # "when" => e \in VerifyExpr /\ Count(t, m, e.refs)
               /\ In(t, Expr)' /\ Top(t)'.k = Top(t).k /\ Top(t)'.e = e
               /\ Top(t)'.todo = {} /\ Top(t)'.done
               /\ matcher_ctx'[t].list = matcher_ctx[t].list
               /\ \A u \in Thread \ {t} : /\ stack'[u] = stack[u]
                                          /\ matcher_ctx'[u] = matcher_ctx[u]
<1>1. In(t, Expr) /\ Top(t).todo = {} /\ ~Top(t).done
      /\ CallFromExpression(t, Top(t).e.mock, TRUE)
  BY DEF CallMocked, CallFromExpression, Expr
<1>2. /\ Top(t) \in Frame /\ Top(t).k \in Expr
      /\ Top(t).e \in IF Top(t).k = "when" THEN WhenExpr ELSE VerifyExpr
      /\ matcher_ctx[t] \in MatcherCtx /\ matcher_ctx[t].list \in Seq(Node)
  BY <1>1, ExprFacts
<1>3. Top(t).e.mock \in Mock
  BY <1>2, ExprAssumption
<1>4. PICK last \in BOOLEAN : last = TRUE
  OBVIOUS
<1>5. CallFromExpression(t, Top(t).e.mock, last)
  BY <1>1, <1>4
<1>6. /\ mock[Top(t).e.mock] # NULL
      /\ In(t, Expr)' /\ Top(t)'.k = Top(t).k /\ Top(t)'.e = Top(t).e
      /\ Top(t)'.todo = Top(t).todo /\ Top(t)'.done = last
      /\ IF Top(t).k = "when" THEN Bind(t, Top(t).e.mock, Top(t).e.refs, Top(t).e)
                              ELSE Count(t, Top(t).e.mock, Top(t).e.refs)
      /\ matcher_ctx'[t].list = matcher_ctx[t].list
      /\ \A u \in Thread \ {t} : /\ stack'[u] = stack[u]
                                 /\ matcher_ctx'[u] = matcher_ctx[u]
  BY <1>5, CallEffect
<1>7. Top(t).k = "when" => cur_result[t] = Top(t).e.result
  BY <1>1 DEF IInv, Waiting, In
<1> QED BY <1>1, <1>2, <1>3, <1>4, <1>6, <1>7

LEMMA WhenRefines ==
    ASSUME IInv, NEW t \in Thread, CallMocked(t), status' = "ok", Top(t).k = "when"
    PROVE  Top(t).e \in WhenExpr /\ C!When(Top(t).e)
<1> DEFINE e == Top(t).e
           m == e.mock
           c == [refs |-> e.refs, list |-> matcher_ctx[t].list, by |-> t,
                 result |-> cur_result[t], expr |-> e]
<1>1. /\ e \in WhenExpr /\ m \in Mock /\ mock[m] # NULL /\ Bind(t, m, e.refs, e)
      /\ cur_result[t] = e.result
      /\ matcher_ctx[t] \in MatcherCtx /\ matcher_ctx[t].list \in Seq(Node)
  BY ExprCall
<1>2. times' = times /\ event' = [op |-> "when", mock |-> m]
  BY <1>1 DEF Bind
<1> HIDE DEF e
<1>3. /\ mock' \in [Mock -> MockCtx \union {NULL}] /\ mock'[m] # NULL
      /\ \A n \in Mock \ {m} : mock'[n] = mock[n]
      /\ mock'[m].calls = mock[m].calls
      /\ mock'[m].params = <<c>> \o mock[m].params
  BY <1>1, BindType DEF IInv
<1>4. c \in Contract /\ c.expr = e
  BY <1>1 DEF Contract, Result
<1>5. /\ mock[m] \in MockCtx /\ mock[m].params \in Seq(Contract)
      /\ mock'[m] \in MockCtx
  BY <1>1, <1>3, ContractAt
<1> HIDE DEF c, m
<1>6. ExprsOf(mock'[m]) = <<e>> \o ExprsOf(mock[m])
  <2> DEFINE q == mock'[m].params
  <2>1. q = <<c>> \o mock[m].params
    BY <1>3
  <2> HIDE DEF q
  <2>2. Written(q) = <<c.expr>> \o Written(mock[m].params)
    BY <1>4, <1>5, <2>1, ExprsPush
  <2> QED BY <1>4, <2>2 DEF q, ExprsOf
<1>7. /\ Promised' = [Promised EXCEPT ![m] = <<e>> \o Promised[m]]
      /\ Promised[m] # NULL /\ Counted' = Counted
  <2>1. /\ PromiseOf(mock[m]) = ExprsOf(mock[m]) /\ PromiseOf(mock[m]) # NULL
        /\ CallsOf(mock[m]) = mock[m].calls
    BY <1>5, PromiseIs
  <2>2. /\ PromiseOf(mock'[m]) = ExprsOf(mock'[m])
        /\ CallsOf(mock'[m]) = mock'[m].calls
    BY <1>5, PromiseIs
  <2>3. /\ PromiseOf(mock'[m]) = <<e>> \o PromiseOf(mock[m])
        /\ CallsOf(mock'[m]) = CallsOf(mock[m])
    BY <1>3, <1>6, <2>1, <2>2
  <2>4. m \in Mock /\ \A n \in Mock \ {m} : mock'[n] = mock[n]
    BY <1>1, <1>3 DEF m
  <2>5. /\ Promised' = [Promised EXCEPT ![m] = PromiseOf(mock'[m])]
        /\ Promised[m] = PromiseOf(mock[m]) /\ Counted' = Counted
    BY <2>3, <2>4, ViewOne
  <2> QED BY <2>1, <2>3, <2>5
<1>8. C!When(e)
  BY <1>2, <1>7 DEF C!When, Promised, Counted, m
<1> QED BY <1>1, <1>8 DEF e

LEMMA VerifyRefines ==
    ASSUME IInv, Building, NEW t \in Thread, CallMocked(t), status' = "ok",
           Top(t).k # "when"
    PROVE  Top(t).e \in VerifyExpr /\ C!Verify(t, Top(t).e)
<1> DEFINE e == Top(t).e
           m == e.mock
           list == matcher_ctx[t].list
<1>1. /\ e \in VerifyExpr /\ m \in Mock /\ mock[m] # NULL /\ Count(t, m, e.refs)
      /\ list \in Seq(Node) /\ In(t, Expr) /\ Top(t).todo = {}
  BY ExprCall
<1>2. /\ times' = [times EXCEPT ![t] = SumFunctionOnSet(mock[m].calls,
                                          {a \in Args : Matches(list, a, e.refs)})]
      /\ mock' = mock /\ event' = [op |-> "verify", mock |-> m]
  BY <1>1 DEF Count
<1>3. Built(list, e, DOMAIN e.kinds)
  <2>1. Built(list, e, DOMAIN e.kinds \ {})
    BY <1>1 DEF Building
  <2>2. DOMAIN e.kinds \ {} = DOMAIN e.kinds
    OBVIOUS
  <2> QED BY <2>1, <2>2
<1> HIDE DEF e, list
<1>4. {a \in Args : Matches(list, a, e.refs)} = {a \in Args : C!Accepts(e, a)}
  BY <1>1, <1>3, SameVerdict
<1>5. mock[m] \in MockCtx
  BY <1>1, ContractAt
<1> HIDE DEF m
<1>6. Promised[m] # NULL /\ Counted[m] = mock[m].calls
  BY <1>1, <1>5, Views, PromiseIs
<1>7. times' = [times EXCEPT ![t] = C!SumFunctionOnSet(Counted[m],
                                                       {a \in Args : C!Accepts(e, a)})]
  BY <1>2, <1>4, <1>6, SameOperators
<1>8. Promised' = Promised /\ Counted' = Counted
  BY <1>2, ViewSame
<1>9. C!Verify(t, e)
  BY <1>2, <1>6, <1>7, <1>8 DEF C!Verify, Promised, Counted, m
<1> QED BY <1>1, <1>9 DEF e

(* A mock with a variadic pack has no contract. *)
PlainContracts == \A e \in WhenExpr : e.mock \notin Variadic

(* The contract that answers is the newest that accepts the call. *)
LEMMA AnswerRefines ==
    ASSUME IInv, Agreed, PlainContracts, NEW m \in Mock, mock[m] # NULL, NEW args \in Args
    PROVE  LET params == mock[m].params
               i == SelectInSeq(params, LAMBDA p : Governs(m, p, args))
               fits == {j \in DOMAIN Promised[m] : C!Accepts(Promised[m][j], args)}
           IN  (IF i = 0 THEN NULL ELSE params[i].result) =
                   IF fits = {} THEN NULL ELSE Promised[m][C!Min(fits)].result
<1> DEFINE params == mock[m].params
           i == SelectInSeq(params, LAMBDA p : Governs(m, p, args))
           fits == {j \in DOMAIN Promised[m] : C!Accepts(Promised[m][j], args)}
           I == {j \in 1..Len(params) : Governs(m, params[j], args)}
<1>1. /\ mock[m] \in MockCtx /\ params \in Seq(Contract)
      /\ DOMAIN params = 1..Len(params)
  <2>1. mock[m] \in MockCtx /\ params \in Seq(Contract)
    BY ContractAt
  <2> QED BY <2>1
<1>2. Promised[m] = [j \in DOMAIN params |-> params[j].expr]
  BY <1>1, Views, PromiseIs DEF ExprsOf, Written
<1>3. ASSUME NEW j \in DOMAIN params
      PROVE  /\ Governs(m, params[j], args) <=> C!Accepts(Promised[m][j], args)
             /\ Promised[m][j].result = params[j].result
  <2> DEFINE c == params[j]
  <2>1. /\ c.expr \in WhenExpr /\ c.list \in Seq(Node)
        /\ Kept(c, m, stack)
    BY ContractAt DEF Agreed, Mocked
  <2>2. Promised[m][j] = c.expr
    BY <1>2
  <2> HIDE DEF c
  <2>3. /\ c.expr.mock = m /\ c.refs = c.expr.refs /\ c.result = c.expr.result
        /\ Built(c.list, c.expr, DOMAIN c.expr.kinds)
    BY <2>1 DEF Kept
  <2>4. m \notin Variadic
    BY <2>1, <2>3 DEF PlainContracts
  <2>5. Governs(m, c, args) <=> Matches(c.list, args, c.expr.refs)
    BY <2>3, <2>4 DEF Governs, Fixed
  <2>6. Matches(c.list, args, c.expr.refs) <=> C!Accepts(c.expr, args)
    BY <2>1, <2>3, SameVerdict
  <2>7. Governs(m, c, args) <=> C!Accepts(Promised[m][j], args)
    BY <2>2, <2>5, <2>6
  <2> QED BY <2>2, <2>3, <2>7 DEF c
<1>4. i = IF I # {} THEN Min(I) ELSE 0
  BY DEF SelectInSeq
<1>5. DOMAIN Promised[m] = DOMAIN params
  BY <1>2
<1>6. fits = I
  <2> HIDE DEF params
  <2> QED BY <1>1, <1>3, <1>5
<1>7. I \in SUBSET Nat /\ \A j \in I : j \in DOMAIN params /\ j # 0
  BY <1>1
<1> HIDE DEF i, fits, I
<1>8. CASE I = {}
  BY <1>4, <1>6, <1>8 DEF i, fits
<1>9. CASE I # {}
  <2>1. PICK n \in I : \A j \in I : n <= j
    BY <1>7, <1>9, LeastNatural
  <2>2. Min(I) = n
    <3> DEFINE P(x) == x \in I /\ \A j \in I : x <= j
    <3>1. P(n) /\ \A x : P(x) => x = n
      <4>1. \A x \in I : x \in Nat
        BY <1>7
      <4>2. ASSUME NEW x \in I, \A j \in I : x <= j
            PROVE  x = n
        <5>1. x <= n /\ n <= x /\ x \in Nat /\ n \in Nat
          BY <2>1, <4>1, <4>2
        <5> QED BY <5>1
      <4> QED BY <2>1, <4>2
    <3>2. Min(I) = CHOOSE x : P(x)
      BY DEF Min
    <3> HIDE DEF P
    <3> QED BY <3>1, <3>2
  <2>3. i = n /\ i # 0 /\ C!Min(fits) = n /\ fits # {}
    BY <1>4, <1>6, <1>7, <1>9, <2>1, <2>2, SameOperators
  <2>4. Promised[m][n].result = params[n].result
    BY <1>3, <1>7, <2>1
  <2> QED BY <2>3, <2>4 DEF i, fits
<1> QED BY <1>8, <1>9

LEMMA CallRefines ==
    ASSUME IInv, Agreed, PlainContracts, NEW t \in Thread, NEW m \in Mock, mock[m] # NULL,
           NEW args \in Args, NEW rest, RecordAndAnswer(t, m, m, args, rest)
    PROVE  /\ C!Call(m, args)
           /\ \A n \in Mock : mock'[n] # NULL =>
                 mock[n] # NULL /\ mock'[n].params = mock[n].params
           /\ matcher_ctx' = matcher_ctx
           /\ \A u \in Thread \ {t} : stack'[u] = stack[u]
<1> DEFINE params == mock[m].params
           i == SelectInSeq(params, LAMBDA p : Governs(m, p, args))
           result == IF i = 0 THEN NULL ELSE params[i].result
           fits == {j \in DOMAIN Promised[m] : C!Accepts(Promised[m][j], args)}
           answer == IF fits = {} THEN NULL ELSE Promised[m][C!Min(fits)].result
           r == [mock[m] EXCEPT !.calls[args] = @ + 1]
<1>1. /\ mock' = [mock EXCEPT ![m] = r]
      /\ event' = [op |-> "call", mock |-> m, args |-> args, result |-> result]
      /\ times' = times /\ matcher_ctx' = matcher_ctx
      /\ \E s : stack' = [stack EXCEPT ![t] = s]
  BY DEF RecordAndAnswer
<1>2. result = answer
  BY AnswerRefines
<1>3. /\ r \in MockCtx /\ r.params = mock[m].params
      /\ r.calls = [mock[m].calls EXCEPT ![args] = @ + 1]
  <2>1. mock[m] \in MockCtx
    BY DEF IInv, Types
  <2>2. r \in MockCtx /\ r.params = mock[m].params
    BY RecordType DEF IInv
  <2> QED BY <2>1, <2>2 DEF MockCtx
<1> HIDE DEF r, result
<1>4. mock'[m] = r /\ \A n \in Mock \ {m} : mock'[n] = mock[n]
  BY <1>1 DEF IInv, Types
<1>5. \A u \in Thread \ {t} : stack'[u] = stack[u]
  BY <1>1 DEF IInv, Types
<1>6. \A n \in Mock : mock'[n] # NULL =>
          mock[n] # NULL /\ mock'[n].params = mock[n].params
  BY <1>3, <1>4
<1>7. /\ Promised' = Promised /\ Promised[m] # NULL
      /\ Counted' = [Counted EXCEPT ![m][args] = @ + 1]
  <2>1. mock[m] \in MockCtx
    BY ContractAt
  <2>2. PromiseOf(mock'[m]) = PromiseOf(mock[m]) /\ PromiseOf(mock[m]) # NULL
    <3>1. PromiseOf(mock'[m]) = ExprsOf(mock'[m]) /\ PromiseOf(mock[m]) = ExprsOf(mock[m])
          /\ PromiseOf(mock[m]) # NULL
      BY <1>3, <1>4, <2>1, PromiseIs
    <3>2. ExprsOf(mock'[m]) = ExprsOf(mock[m])
      BY <1>3, <1>4 DEF ExprsOf
    <3> QED BY <3>1, <3>2
  <2>3. /\ CallsOf(mock'[m]) = [mock[m].calls EXCEPT ![args] = @ + 1]
        /\ CallsOf(mock[m]) = mock[m].calls
    BY <1>3, <1>4, <2>1, PromiseIs
  <2>4. /\ Promised' = Promised /\ Promised[m] = PromiseOf(mock[m])
        /\ Counted' = [Counted EXCEPT ![m] = CallsOf(mock'[m])]
        /\ Counted[m] = CallsOf(mock[m])
    BY <1>4, <2>2, ViewOne
  <2> QED BY <2>2, <2>3, <2>4
<1>8. event' = [op |-> "call", mock |-> m, args |-> args, result |-> answer]
  BY <1>1, <1>2
<1>9. C!Call(m, args)
  BY <1>1, <1>7, <1>8 DEF C!Call, Promised, Counted
<1> QED BY <1>1, <1>5, <1>6, <1>9

-----------------------------------------------------------------------------
(* The steps of a thread outside call expressions. *)
LEMMA NotMaking ==
    ASSUME NEW t \in Thread, ~In(t, {"when"}) \/ ~Top(t).done
    PROVE  \A e : ~Making(stack[t], e)
BY DEF Making, In, Top

LEMMA OutsideStep ==
    ASSUME IInv, RefineInv, NEW t \in Thread, ~In(t, Expr),
           \A u \in Thread \ {t} : stack'[u] = stack[u] /\ matcher_ctx'[u] = matcher_ctx[u],
           \A n \in Mock : mock'[n] # NULL =>
               \/ mock[n] # NULL /\ mock'[n].params = mock[n].params
               \/ DOMAIN mock'[n].params = {},
           In(t, Expr)' => Built(matcher_ctx'[t].list, Top(t)'.e,
                                 DOMAIN Top(t)'.e.kinds \ Top(t)'.todo)
    PROVE  RefineInv'
<1>1. \A e : ~Making(stack[t], e)
  BY NotMaking DEF In, Expr
<1>2. \A u \in Thread : \A e : Making(stack[u], e) => Making(stack'[u], e)
  BY <1>1
<1>3. Agreed'
  BY <1>2, AgreedSame DEF RefineInv
<1>4. \A u \in Thread \ {t} : In(u, Expr)' => In(u, Expr) /\ Top(u)' = Top(u)
  BY DEF In, Top
<1>5. Building'
  BY <1>4, BuildingStep DEF RefineInv
<1> QED BY <1>3, <1>5 DEF RefineInv

LEMMA QuietPlain ==
    ASSUME IInv, IInv', RefineInv, NEW t \in Thread, ~In(t, Expr),
           matcher_ctx' = matcher_ctx,
           \A u \in Thread \ {t} : stack'[u] = stack[u],
           \A n \in Mock : mock'[n] # NULL =>
               \/ mock[n] # NULL /\ mock'[n].params = mock[n].params
               \/ DOMAIN mock'[n].params = {}
    PROVE  RefineInv'
<1>1. ~In(t, Expr)'
  BY ModeNow
<1> QED BY <1>1, OutsideStep

LEMMA BeginRefines ==
    ASSUME IInv, RefineInv, NEW t \in Thread, ~In(t, Expr), BeginExpression(t)
    PROVE  RefineInv' /\ Stutters
<1>1. PICK k \in Expr, e \in WhenExpr \union VerifyExpr, kind \in {0, 1} :
         /\ stack' = [stack EXCEPT ![t] = <<CallExpr(k, e)>> \o stack[t]]
         /\ matcher_ctx' = [matcher_ctx EXCEPT ![t] =
                              [kind |-> kind, list |-> << >>, freed |-> FALSE]]
         /\ mock' = mock /\ times' = times /\ event' = event
         /\ e \in IF k = "when" THEN WhenExpr ELSE VerifyExpr
  <2>1. ASSUME NEW e \in WhenExpr, BeginWhen(t, e)
        PROVE  /\ stack' = [stack EXCEPT ![t] = <<CallExpr("when", e)>> \o stack[t]]
               /\ matcher_ctx' = [matcher_ctx EXCEPT ![t] =
                                    [kind |-> 0, list |-> << >>, freed |-> FALSE]]
               /\ mock' = mock /\ times' = times /\ event' = event
    BY <2>1 DEF BeginWhen, mmk_matcher_init, Push
  <2>2. ASSUME NEW e \in VerifyExpr, BeginVerify(t, e)
        PROVE  /\ stack' = [stack EXCEPT ![t] = <<CallExpr("verify", e)>> \o stack[t]]
               /\ matcher_ctx' = [matcher_ctx EXCEPT ![t] =
                                    [kind |-> 1, list |-> << >>, freed |-> FALSE]]
               /\ mock' = mock /\ times' = times /\ event' = event
    BY <2>2 DEF BeginVerify, mmk_matcher_init, Push
  <2> QED BY <2>1, <2>2 DEF BeginExpression, Expr
<1> DEFINE f == CallExpr(k, e)
           s == <<f>> \o stack[t]
<1>2. f \in Frame /\ f.todo = DOMAIN e.kinds /\ f.e = e
  BY <1>1, BeginFrame DEF CallExpr
<1> HIDE DEF f
<1>3. /\ stack[t] \in Seq(Frame)
      /\ stack'[t] = s /\ \A u \in Thread \ {t} : stack'[u] = stack[u]
      /\ matcher_ctx'[t] = [kind |-> kind, list |-> << >>, freed |-> FALSE]
      /\ \A u \in Thread \ {t} : matcher_ctx'[u] = matcher_ctx[u]
  BY <1>1 DEF IInv, Types, f
<1>4. s \in Seq(Frame) /\ s # << >> /\ s[1] = f
  BY <1>2, <1>3, Pushed
<1> HIDE DEF s
<1>5. Top(t)' = f
  <2>1. Head(s) = s[1]
    BY <1>4
  <2> QED BY <1>3, <1>4, <2>1 DEF Top
<1>6. Built(matcher_ctx'[t].list, Top(t)'.e, DOMAIN Top(t)'.e.kinds \ Top(t)'.todo)
  <2>1. matcher_ctx'[t].list = << >> /\ DOMAIN Top(t)'.e.kinds \ Top(t)'.todo = {}
    BY <1>2, <1>3, <1>5
  <2>2. Built(<< >>, e, {})
    BY DEF Built
  <2> QED BY <1>2, <1>5, <2>1, <2>2
<1>7. RefineInv'
  BY <1>1, <1>3, <1>6, OutsideStep
<1>8. Stutters
  BY <1>1, ViewSame DEF Stutters
<1> QED BY <1>7, <1>8

LEMMA ResetAgrees ==
    ASSUME IInv, RefineInv, NEW t \in Thread, NEW m \in Mock, Reset(t, m)
    PROVE  RefineInv'
<1>1. ASSUME NEW u \in Thread, stack[u] # << >>, Top(u).k # "callback"
      PROVE  stack'[u] # << >> /\ Top(u)' = Top(u)
  BY <1>1, ResetKeeps
<1>2. ASSUME NEW u \in Thread, NEW e, Making(stack[u], e)
      PROVE  Making(stack'[u], e)
  <2>1. stack[u] # << >> /\ Top(u).k = "when" /\ Top(u).done /\ Top(u).e = e
    BY <1>2 DEF Making, Top
  <2>2. stack'[u] # << >> /\ Top(u)' = Top(u)
    BY <1>1, <2>1
  <2> QED BY <2>1, <2>2 DEF Making, Top
<1>3. /\ matcher_ctx' = matcher_ctx
      /\ \A n \in Mock : mock'[n] # NULL => mock'[n] = mock[n]
  BY DEF Reset, IInv, Types
<1>4. Agreed'
  BY <1>2, <1>3, AgreedSame DEF RefineInv
<1>5. ASSUME NEW u \in Thread, In(u, Expr)'
      PROVE  In(u, Expr) /\ Top(u)' = Top(u)
  <2>1. stack'[u] # << >> /\ Top(u)'.k \in Expr
    BY <1>5 DEF In
  <2>2. stack[u] # << >> /\ Top(u)'.k = Top(u).k
    BY <2>1, ResetKeeps
  <2>3. Top(u).k # "callback"
    BY <2>1, <2>2 DEF Expr
  <2> QED BY <1>1, <2>1, <2>2, <2>3 DEF In
<1>6. Building'
  BY <1>3, <1>5 DEF Building, RefineInv
<1> QED BY <1>4, <1>6 DEF RefineInv

-----------------------------------------------------------------------------
(* The steps of a call expression. *)
LEMMA ShareKeeps ==
    ASSUME IInv, NEW t \in Thread, NEW list \in Seq(Node), NEW by \in Thread \union {NULL},
           mock' = ShareList(t, list, by)
    PROVE  /\ Promised' = Promised /\ Counted' = Counted
           /\ \A m \in Mock : mock'[m] # NULL => mock[m] # NULL
           /\ \A m \in Mocked :
                 /\ DOMAIN mock'[m].params = DOMAIN mock[m].params
                 /\ \A i \in DOMAIN mock[m].params :
                       LET c == mock[m].params[i]
                           d == mock'[m].params[i]
                       IN  /\ c.by # t => d = c
                           /\ c.by = t => /\ d.list = list /\ d.by = by
                                          /\ d.expr = c.expr /\ d.refs = c.refs
                                          /\ d.result = c.result
<1> DEFINE G(c) == IF c.by # t THEN c ELSE [c EXCEPT !.list = list, !.by = by]
<1>1. \A c \in Contract :
          /\ c.by # t => G(c) = c
          /\ c.by = t => /\ G(c).list = list /\ G(c).by = by /\ G(c).refs = c.refs
                         /\ G(c).expr = c.expr /\ G(c).result = c.result
          /\ G(c).expr = c.expr
  BY DEF Contract
<1>2. ASSUME NEW m \in Mock, mock[m] # NULL
      PROVE  /\ mock'[m] \in MockCtx /\ mock'[m].calls = mock[m].calls
             /\ DOMAIN mock'[m].params = DOMAIN mock[m].params
             /\ \A i \in DOMAIN mock[m].params :
                   mock'[m].params[i] = G(mock[m].params[i])
  <2> DEFINE q == ShareList(t, list, by)[m]
  <2>1. q \in MockCtx /\ q.calls = mock[m].calls
    BY <1>2, ShareOne DEF IInv
  <2>2. DOMAIN q.params = DOMAIN mock[m].params
    BY <1>2, ShareOne DEF IInv
  <2>3. q = [mock[m] EXCEPT !.params =
               [i \in DOMAIN mock[m].params |-> G(mock[m].params[i])]]
    BY <1>2 DEF ShareList
  <2>4. q.params = [i \in DOMAIN mock[m].params |-> G(mock[m].params[i])]
    <3> DEFINE ps == [i \in DOMAIN mock[m].params |-> G(mock[m].params[i])]
    <3>1. mock[m] \in MockCtx
      BY <1>2, ContractAt
    <3>2. q = [mock[m] EXCEPT !.params = ps]
      BY <2>3
    <3> HIDE DEF q, ps
    <3>3. q.params = ps
      BY <3>1, <3>2 DEF MockCtx
    <3> QED BY <3>3 DEF ps
  <2>5. mock'[m] = q
    OBVIOUS
  <2> HIDE DEF q, G
  <2> QED BY <2>1, <2>2, <2>4, <2>5
<1>3. \A m \in Mock : mock[m] = NULL => mock'[m] = NULL
  BY ShareListType DEF IInv
<1> HIDE DEF G
<1>4. ASSUME NEW m \in Mocked
      PROVE  \A i \in DOMAIN mock[m].params : mock[m].params[i] \in Contract
  BY ContractAt DEF Mocked
<1>5. ASSUME NEW m \in Mock
      PROVE  PromiseOf(mock'[m]) = PromiseOf(mock[m]) /\ CallsOf(mock'[m]) = CallsOf(mock[m])
  <2>1. CASE mock[m] = NULL
    BY <1>3, <2>1
  <2>2. CASE mock[m] # NULL
    <3>1. mock[m] \in MockCtx /\ mock'[m] \in MockCtx
      BY <1>2, <2>2, ContractAt
    <3>2. ExprsOf(mock'[m]) = ExprsOf(mock[m])
      <4>1. \A i \in DOMAIN mock[m].params :
               mock'[m].params[i].expr = mock[m].params[i].expr
        BY <1>1, <1>2, <1>4, <2>2 DEF Mocked
      <4> QED BY <1>2, <2>2, <4>1 DEF ExprsOf, Written
    <3> QED BY <1>2, <2>2, <3>1, <3>2, PromiseIs
  <2> QED BY <2>1, <2>2
<1>6. Promised' = Promised /\ Counted' = Counted
  BY <1>5, ViewSame
<1>7. \A m \in Mocked :
         /\ DOMAIN mock'[m].params = DOMAIN mock[m].params
         /\ \A i \in DOMAIN mock[m].params :
               mock'[m].params[i] = G(mock[m].params[i])
  BY <1>2 DEF Mocked
<1> QED BY <1>1, <1>3, <1>4, <1>6, <1>7

LEMMA EvalArgRefines ==
    ASSUME IInv, RefineInv, NEW t \in Thread, NEW i \in 1..2, EvalArg(t, i),
           status' = "ok"
    PROVE  RefineInv' /\ Stutters
<1> DEFINE list == matcher_ctx'[t].list
<1>1. /\ In(t, Expr) /\ i \in Top(t).todo
      /\ Top(t)'.e = Top(t).e /\ Top(t)'.todo = Top(t).todo \ {i}
      /\ list = mmk_matcher_add(matcher_ctx[t].list,
                                Matcher(Top(t).e.kinds[i], i, Top(t).e.pred))
      /\ matcher_ctx[t].list \in Seq(Node) /\ list \in Seq(Node)
      /\ mock' = ShareList(t, list, t)
      /\ \A u \in Thread \ {t} : stack'[u] = stack[u] /\ matcher_ctx'[u] = matcher_ctx[u]
  BY EvalArgEffect
<1>2. Progress(Top(t), matcher_ctx[t]) /\ Top(t).e \in WhenExpr \union VerifyExpr
  BY <1>1, ExprFacts
<1>3. ~Top(t).done
  BY <1>1, <1>2 DEF Progress
<1>4. \A e : ~Making(stack[t], e)
  BY <1>3, NotMaking
<1> HIDE DEF list
<1>5. \A n \in Mock : mock'[n] # NULL =>
         \A j \in DOMAIN mock'[n].params :
            /\ mock[n] # NULL /\ j \in DOMAIN mock[n].params
            /\ mock'[n].params[j] = mock[n].params[j]
  <2> SUFFICES ASSUME NEW n \in Mock, mock'[n] # NULL, NEW j \in DOMAIN mock'[n].params
               PROVE  /\ mock[n] # NULL /\ j \in DOMAIN mock[n].params
                      /\ mock'[n].params[j] = mock[n].params[j]
    OBVIOUS
  <2>0. t \in Thread \union {NULL}
    OBVIOUS
  <2>3. mock[n] # NULL /\ n \in Mocked
    BY <1>1, <2>0, ShareKeeps DEF Mocked
  <2>4. DOMAIN mock'[n].params = DOMAIN mock[n].params
    BY <1>1, <2>0, <2>3, ShareKeeps
  <2>5. j \in DOMAIN mock[n].params
    BY <2>4
  <2> DEFINE c == mock[n].params[j]
             d == mock'[n].params[j]
  <2>1. c.by # t => d = c
    <3>1. list \in Seq(Node) /\ mock' = ShareList(t, list, t)
      BY <1>1
    <3> QED BY <2>0, <2>3, <2>5, <3>1, ShareKeeps
  <2>2. mock[n].params[j].by # t
    BY <1>4, <2>3, <2>5, NullApart DEF RefineInv, Agreed, Kept
  <2> QED BY <2>1, <2>2, <2>3, <2>5
<1>6. Agreed'
  BY <1>1, <1>4, <1>5, AgreedStep DEF RefineInv
<1>7. Built(list, Top(t)'.e, DOMAIN Top(t)'.e.kinds \ Top(t)'.todo)
  <2> DEFINE e == Top(t).e
             S == DOMAIN e.kinds \ Top(t).todo
  <2>1. Built(matcher_ctx[t].list, e, S)
    BY <1>1 DEF RefineInv, Building
  <2>2. i \in DOMAIN e.kinds /\ i \in Nat \ S /\ S \in SUBSET Nat
    BY <1>1, <1>2, TodoNat DEF Progress
  <2>3. S \union {i} = DOMAIN e.kinds \ (Top(t).todo \ {i})
    BY <2>2
  <2>4. Made(e, i) \in Node
    BY <1>2, <2>2 DEF Made, Node
  <2> HIDE DEF S
  <2>5. Built(mmk_matcher_add(matcher_ctx[t].list, Made(e, i)), e, S \union {i})
    BY <1>1, <2>1, <2>2, <2>4, BuiltAdd
  <2> QED BY <1>1, <2>3, <2>5 DEF Made
<1>8. \A u \in Thread \ {t} : In(u, Expr)' => In(u, Expr) /\ Top(u)' = Top(u)
  BY <1>1 DEF In, Top
<1>9. Building'
  BY <1>1, <1>7, <1>8, BuildingStep DEF RefineInv, list
<1>10. Promised' = Promised /\ Counted' = Counted
  BY <1>1, ShareKeeps
<1>11. times' = times /\ event' = event
  BY <1>1 DEF EvalArg, Fails
<1> QED BY <1>6, <1>9, <1>10, <1>11 DEF RefineInv, Stutters

LEMMA CallAgrees ==
    ASSUME IInv, RefineInv, NEW t \in Thread, CallMocked(t), status' = "ok"
    PROVE  RefineInv'
<1> DEFINE e == Top(t).e
           m == e.mock
<1>1. /\ In(t, Expr) /\ m \in Mock /\ mock[m] # NULL /\ Top(t).todo = {} /\ ~Top(t).done
      /\ e \in WhenExpr \union VerifyExpr
      /\ matcher_ctx[t] \in MatcherCtx /\ matcher_ctx[t].list \in Seq(Node)
      /\ Top(t).k = "when" => /\ e \in WhenExpr /\ Bind(t, m, e.refs, e)
                              /\ cur_result[t] = e.result
      /\ Top(t).k # "when" => e \in VerifyExpr /\ Count(t, m, e.refs)
      /\ In(t, Expr)' /\ Top(t)'.k = Top(t).k /\ Top(t)'.e = e
      /\ Top(t)'.todo = {} /\ Top(t)'.done
      /\ matcher_ctx'[t].list = matcher_ctx[t].list
      /\ \A u \in Thread \ {t} : stack'[u] = stack[u] /\ matcher_ctx'[u] = matcher_ctx[u]
  BY ExprCall
<1>2. Built(matcher_ctx[t].list, e, DOMAIN e.kinds \ {})
  BY <1>1 DEF RefineInv, Building
<1>3. DOMAIN e.kinds \ {} = DOMAIN e.kinds
  OBVIOUS
<1>4. \A x : ~Making(stack[t], x)
  BY <1>1, NotMaking
<1>5. \A u \in Thread : \A x : Making(stack[u], x) => Making(stack'[u], x)
  BY <1>1, <1>4
<1>6. Agreed'
  <2>1. CASE Top(t).k # "when"
    <3>1. mock' = mock
      BY <1>1, <2>1 DEF Count
    <3> QED BY <1>5, <3>1, AgreedSame DEF RefineInv
  <2>2. CASE Top(t).k = "when"
    <3> DEFINE c == [refs |-> e.refs, list |-> matcher_ctx[t].list, by |-> t,
                     result |-> cur_result[t], expr |-> e]
    <3>1. Making(stack'[t], e)
      BY <1>1, <2>2 DEF Making, In, Top
    <3>2. Kept(c, m, stack')
      BY <1>1, <1>2, <1>3, <2>2, <3>1 DEF Kept
    <3> HIDE DEF e
    <3>3. /\ \A n \in Mock \ {m} : mock'[n] = mock[n]
          /\ mock'[m] # NULL /\ mock'[m].params = <<c>> \o mock[m].params
      BY <1>1, <2>2, BindType DEF IInv
    <3> HIDE DEF c, m
    <3>4. mock[m].params \in Seq(Contract)
      BY <1>1, ContractAt
    <3>5. ASSUME NEW n \in Mock, mock'[n] # NULL, NEW i \in DOMAIN mock'[n].params
          PROVE  Kept(mock'[n].params[i], n, stack')
      <4>1. \A q \in Mock : mock[q] # NULL => \A j \in DOMAIN mock[q].params :
               Kept(mock[q].params[j], q, stack')
        <5> SUFFICES ASSUME NEW q \in Mock, mock[q] # NULL,
                            NEW j \in DOMAIN mock[q].params
                     PROVE  Kept(mock[q].params[j], q, stack')
          OBVIOUS
        <5>1. /\ Kept(mock[q].params[j], q, stack)
              /\ mock[q].params[j].by \in Thread \union {NULL}
          BY ContractAt DEF RefineInv, Agreed, Mocked
        <5> QED BY <1>5, <5>1 DEF Kept
      <4>2. CASE n # m
        BY <3>3, <3>5, <4>1, <4>2
      <4>3. CASE n = m
        <5> DEFINE p == mock[m].params
                   q == mock'[m].params
        <5>1. p \in Seq(Contract) /\ q = <<c>> \o p
          BY <3>3, <3>4
        <5>2. i \in DOMAIN q
          BY <3>5, <4>3
        <5>3. \A j \in DOMAIN p : Kept(p[j], m, stack')
          BY <1>1, <4>1
        <5> HIDE DEF p, q
        <5>4. q[i] = c \/ \E j \in DOMAIN p : q[i] = p[j]
          <6>1. DOMAIN q = 1..Len(p) + 1 /\ q[1] = c
                /\ \A k \in 2..Len(p) + 1 : q[k] = p[k - 1]
            BY <5>1
          <6>2. CASE i = 1
            BY <6>1, <6>2
          <6>3. CASE i # 1
            <7>1. i \in 2..Len(p) + 1 /\ i - 1 \in DOMAIN p
              BY <5>1, <5>2, <6>1, <6>3
            <7> QED BY <6>1, <7>1
          <6> QED BY <6>2, <6>3
        <5>5. Kept(q[i], m, stack')
          BY <3>2, <5>3, <5>4
        <5> QED BY <4>3, <5>5 DEF q
      <4> QED BY <4>2, <4>3
    <3> QED BY <1>5, <3>5, AgreedStep DEF RefineInv
  <2> QED BY <2>1, <2>2
<1>7. \A u \in Thread \ {t} : In(u, Expr)' => In(u, Expr) /\ Top(u)' = Top(u)
  BY <1>1 DEF In, Top
<1>8. Built(matcher_ctx'[t].list, Top(t)'.e, DOMAIN Top(t)'.e.kinds \ Top(t)'.todo)
  BY <1>1, <1>2
<1>9. Building'
  BY <1>1, <1>7, <1>8, BuildingStep DEF RefineInv
<1> QED BY <1>6, <1>9 DEF RefineInv

(* The end of a mmk_when: its contract keeps the list as it is now.        *)
LEMMA EndWhenRefines ==
    ASSUME IInv, IInv', RefineInv, NEW t \in Thread, EndWhen(t), mock_called[t] = 1
    PROVE  RefineInv' /\ Stutters
<1> DEFINE list == matcher_ctx[t].list
           e == Top(t).e
<1>1. /\ In(t, Expr) /\ In(t, {"when"}) /\ Top(t).done
      /\ mock' = ShareList(t, list, NULL)
      /\ matcher_ctx' = [matcher_ctx EXCEPT ![t] = NULL]
      /\ stack' = [stack EXCEPT ![t] = Tail(@)]
      /\ times' = times /\ event' = event
  BY DEF EndWhen, Pop, In, Expr
<1>2. Progress(Top(t), matcher_ctx[t]) /\ list \in Seq(Node)
  BY <1>1, ExprFacts
<1>3. Built(list, e, DOMAIN e.kinds)
  <2>1. Top(t).todo = {} /\ DOMAIN e.kinds \ {} = DOMAIN e.kinds
    BY <1>1, <1>2 DEF Progress
  <2>2. Built(list, e, DOMAIN e.kinds \ Top(t).todo)
    BY <1>1 DEF RefineInv, Building
  <2> QED BY <2>1, <2>2
<1>4. /\ matcher_ctx'[t] = NULL
      /\ \A u \in Thread \ {t} : stack'[u] = stack[u] /\ matcher_ctx'[u] = matcher_ctx[u]
  BY <1>1 DEF IInv, Types
<1>5. \A x : Making(stack[t], x) => x = e
  BY DEF Making, Top
<1> HIDE DEF list, e
<1>6. NULL \in Thread \union {NULL}
  OBVIOUS
<1>7. ASSUME NEW n \in Mock, mock'[n] # NULL, NEW i \in DOMAIN mock'[n].params
      PROVE  Kept(mock'[n].params[i], n, stack')
  <2> DEFINE c == mock[n].params[i]
             d == mock'[n].params[i]
  <2>1. n \in Mocked /\ mock[n] # NULL
    BY <1>1, <1>2, <1>6, <1>7, ShareKeeps DEF Mocked
  <2>2. i \in DOMAIN mock[n].params
    BY <1>1, <1>2, <1>6, <1>7, <2>1, ShareKeeps
  <2>3. /\ c.by # t => d = c
        /\ c.by = t => /\ d.list = list /\ d.by = NULL
                       /\ d.expr = c.expr /\ d.refs = c.refs /\ d.result = c.result
    BY <1>1, <1>2, <1>6, <2>1, <2>2, ShareKeeps
  <2>4. Kept(c, n, stack) /\ c.by \in Thread \union {NULL}
    BY <2>1, <2>2, ContractAt DEF RefineInv, Agreed
  <2> HIDE DEF c, d
  <2>5. CASE c.by = t
    <3>1. Making(stack[t], c.expr)
      BY <2>4, <2>5, NullApart DEF Kept
    <3>2. c.expr = e
      BY <1>5, <3>1
    <3> QED BY <1>3, <2>3, <2>4, <2>5, <3>2 DEF Kept, d
  <2>6. CASE c.by # t
    BY <1>4, <2>3, <2>4, <2>6 DEF Kept, d
  <2> QED BY <2>5, <2>6
<1>8. Agreed'
  BY <1>7 DEF Agreed, Mocked
<1>9. ~In(t, Expr)'
  BY <1>4, ModeNow
<1>10. \A u \in Thread \ {t} : In(u, Expr)' => In(u, Expr) /\ Top(u)' = Top(u)
  BY <1>4 DEF In, Top
<1>11. Building'
  BY <1>4, <1>9, <1>10, BuildingStep DEF RefineInv
<1>12. Promised' = Promised /\ Counted' = Counted
  BY <1>1, <1>2, <1>6, ShareKeeps
<1> QED BY <1>1, <1>8, <1>11, <1>12 DEF RefineInv, Stutters

LEMMA EndVerifyAgrees ==
    ASSUME IInv, IInv', RefineInv, NEW t \in Thread, EndVerify(t), mock_called[t] = 1
    PROVE  RefineInv'
<1>1. /\ In(t, Expr) /\ ~In(t, {"when"}) /\ mock' = mock
      /\ matcher_ctx' = [matcher_ctx EXCEPT ![t] = NULL]
      /\ stack' = [stack EXCEPT ![t] = Tail(@)]
  BY DEF EndVerify, Pop, In, Expr
<1>2. /\ matcher_ctx'[t] = NULL
      /\ \A u \in Thread \ {t} : stack'[u] = stack[u] /\ matcher_ctx'[u] = matcher_ctx[u]
  BY <1>1 DEF IInv, Types
<1>3. \A x : ~Making(stack[t], x)
  BY <1>1, NotMaking
<1>4. Agreed'
  BY <1>1, <1>2, <1>3, AgreedSame DEF RefineInv
<1>5. ~In(t, Expr)'
  BY <1>2, ModeNow
<1>6. \A u \in Thread \ {t} : In(u, Expr)' => In(u, Expr) /\ Top(u)' = Top(u)
  BY <1>2 DEF In, Top
<1>7. Building'
  BY <1>2, <1>5, <1>6, BuildingStep DEF RefineInv
<1> QED BY <1>4, <1>7 DEF RefineInv

-----------------------------------------------------------------------------
(* What is lost stays as it is for the client. *)
LEMMA Lost ==
    ASSUME IInv, NEW t \in Thread, Step(t), status = "ok", status' # "ok"
    PROVE  \E how : Fails(how)
<1>1. ASSUME NEW m, NEW isLast, CallFromExpression(t, m, isLast)
      PROVE  \E how : Fails(how)
  BY <1>1 DEF CallFromExpression, MatcherModeCall
<1>2. ASSUME NEW m, NEW c, NEW args, NEW rest, RecordAndAnswer(t, m, c, args, rest)
      PROVE  \E how : Fails(how)
  BY <1>2 DEF RecordAndAnswer
<1>3. ASSUME NEW m \in Mock, NEW a \in Args, Call(t, m, a)
      PROVE  \E how : Fails(how)
  BY <1>2, <1>3, ClientIsPlain DEF Call
<1>4. CASE \E m \in Mock : Create(t, m) \/ Reset(t, m) \/ ExtraCall(t, m)
  BY <1>1, <1>4 DEF Create, Reset, ExtraCall
<1>5. CASE BeginExpression(t) \/ \E s \in StubFn : CallStub(t, s)
  BY <1>5 DEF BeginExpression, BeginWhen, BeginVerify, CallStub
<1>6. CASE \E i \in 1..2 : EvalArg(t, i)
  BY <1>6 DEF EvalArg
<1>7. CASE CallMocked(t) \/ CallNothing(t) \/ EndWhen(t) \/ EndVerify(t)
  BY <1>1, <1>7 DEF CallMocked, CallNothing, EndWhen, EndVerify
<1>8. CASE Serialized(t) \/ CallbackReturns(t) \/ StubReturns(t)
  BY <1>2, <1>8 DEF Serialized, CallbackReturns, StubReturns
<1> QED BY <1>3, <1>4, <1>5, <1>6, <1>7, <1>8 DEF Step

LEMMA LostRefines ==
    ASSUME RefineInv, NEW how, Fails(how)
    PROVE  RefineInv' /\ Stutters
<1>1. /\ mock' = mock /\ stack' = stack /\ matcher_ctx' = matcher_ctx
      /\ times' = times /\ event' = event
  BY DEF Fails
<1>2. RefineInv'
  BY <1>1 DEF RefineInv, Agreed, Building, Mocked, In, Top
<1>3. Promised' = Promised /\ Counted' = Counted
  BY <1>1, ViewSame
<1> QED BY <1>1, <1>2, <1>3 DEF Stutters

(* What the clients keep to.  They may still reset a mock in use: a body   *)
(* that then finds its contract freed gives no answer (status = "ub").     *)
DirectClients == ~Misuse /\ PlainClients /\ PlainContracts

Answers(t) ==
    \/ \E m \in Mock : C!Create(m) \/ C!Reset(m) \/ \E a \in Args : C!Call(m, a)
    \/ \E e \in WhenExpr : C!When(e)
    \/ \E u \in Thread, e \in VerifyExpr : C!Verify(u, e) \/ C!Verdict(u, e)

LEMMA StepRefines ==
    ASSUME IInv, IInv', OwnContext, RefineInv, DirectClients, NEW t \in Thread, Step(t),
           status = "ok", status' = "ok"
    PROVE  RefineInv' /\ (Stutters \/ Answers(t))
<1>1. CASE In(t, Expr)
  <2>1. ASSUME NEW i \in 1..2, EvalArg(t, i)
        PROVE  RefineInv' /\ Stutters
    BY <2>1, EvalArgRefines
  <2>2. CASE CallMocked(t)
    <3>1. RefineInv'
      BY <2>2, CallAgrees
    <3>2. CASE Top(t).k = "when"
      <4>1. Top(t).e \in WhenExpr /\ C!When(Top(t).e)
        BY <2>2, <3>2, WhenRefines
      <4>2. \E e \in WhenExpr : C!When(e)
        BY <4>1 DEF C!When
      <4> QED BY <3>1, <4>2 DEF Answers
    <3>3. CASE Top(t).k # "when"
      BY <2>2, <3>1, <3>3, VerifyRefines DEF Answers, RefineInv
    <3> QED BY <3>2, <3>3
  <2>3. CASE EndWhen(t)
    <3>1. mock_called[t] = 1
      BY <2>3 DEF EndWhen, Fails
    <3> QED BY <2>3, <3>1, EndWhenRefines
  <2>4. CASE EndVerify(t)
    <3>1. mock_called[t] = 1
      BY <2>4 DEF EndVerify, Fails
    <3> QED BY <2>4, <3>1, EndVerifyAgrees, VerdictRefines DEF Answers
  <2>5. ~CallNothing(t) /\ \A m \in Mock : ~ExtraCall(t, m)
    BY DEF CallNothing, ExtraCall, DirectClients
  <2>6. ~ClientCode(t) /\ Top(t).k \in Expr
    BY <1>1, ClientIsPlain, ExprFacts
  <2>7. ~Serialized(t) /\ ~CallbackReturns(t) /\ ~StubReturns(t)
    BY <2>6 DEF Serialized, CallbackReturns, StubReturns, In, Expr
  <2> QED BY <2>1, <2>2, <2>3, <2>4, <2>5, <2>6, <2>7
          DEF Step, Create, Reset, Call, CallStub, BeginExpression, BeginWhen, BeginVerify
<1>2. CASE ~In(t, Expr)
  <2>1. ASSUME NEW m \in Mock, Create(t, m)
        PROVE  RefineInv' /\ Answers(t)
    <3>1. /\ matcher_ctx' = matcher_ctx /\ stack' = stack
          /\ mock' = [mock EXCEPT ![m] = [params |-> << >>, calls |-> NoCalls]]
      BY <2>1 DEF Create
    <3>2. \A n \in Mock : mock'[n] # NULL =>
             \/ mock[n] # NULL /\ mock'[n].params = mock[n].params
             \/ DOMAIN mock'[n].params = {}
      BY <3>1 DEF IInv, Types
    <3>3. RefineInv'
      BY <1>2, <3>1, <3>2, QuietPlain
    <3> QED BY <2>1, <3>3, CreateRefines DEF Answers
  <2>2. ASSUME NEW m \in Mock, Reset(t, m)
        PROVE  RefineInv' /\ Answers(t)
    BY <2>2, ResetAgrees, ResetRefines DEF Answers
  <2>3. ASSUME NEW m \in Mock, mock[m] # NULL, NEW args \in Args, NEW rest,
               RecordAndAnswer(t, m, m, args, rest)
        PROVE  RefineInv' /\ Answers(t)
    <3>1. /\ C!Call(m, args) /\ matcher_ctx' = matcher_ctx
          /\ \A n \in Mock : mock'[n] # NULL =>
                mock[n] # NULL /\ mock'[n].params = mock[n].params
          /\ \A u \in Thread \ {t} : stack'[u] = stack[u]
      BY <2>3, CallRefines DEF RefineInv, DirectClients
    <3>2. RefineInv'
      BY <1>2, <3>1, QuietPlain
    <3> QED BY <3>1, <3>2 DEF Answers
  <2>4. ASSUME mock' = mock, matcher_ctx' = matcher_ctx, times' = times, event' = event,
               \E s : stack' = [stack EXCEPT ![t] = s]
        PROVE  RefineInv' /\ Stutters
    <3>1. \A u \in Thread \ {t} : stack'[u] = stack[u]
      BY <2>4 DEF IInv, Types
    <3>2. RefineInv'
      BY <1>2, <2>4, <3>1, QuietPlain
    <3>3. Promised' = Promised /\ Counted' = Counted
      BY <2>4, ViewSame
    <3> QED BY <2>4, <3>2, <3>3 DEF Stutters
  <2>5. ASSUME NEW m \in Mock, NEW a \in Args, Call(t, m, a)
        PROVE  RefineInv' /\ (Stutters \/ Answers(t))
    <3>1. matcher_ctx[t] = NULL /\ mock[m] # NULL
      BY <2>5, ClientIsPlain DEF Call
    <3>2. CASE m \in Variadic
      <4>1. /\ mock' = mock /\ matcher_ctx' = matcher_ctx /\ times' = times
            /\ event' = event /\ \E s : stack' = [stack EXCEPT ![t] = s]
        BY <2>5, <3>1, <3>2 DEF Call, Push
      <4> QED BY <2>4, <4>1
    <3>3. CASE m \notin Variadic
      <4>1. RecordAndAnswer(t, m, m, a, stack[t])
        BY <2>5, <3>1, <3>3 DEF Call
      <4> QED BY <2>3, <3>1, <4>1
    <3> QED BY <3>2, <3>3
  <2>6. CASE Serialized(t)
    <3>1. /\ In(t, {"serialize"}) /\ Top(t) \in Frame /\ Top(t).k = "serialize"
          /\ RecordAndAnswer(t, Top(t).m, mmk_ctx[t], Top(t).args, Tail(stack[t]))
      BY <2>6, InTop DEF Serialized, IInv, In
    <3>2. Top(t).args \in Args /\ Top(t).m \in Mock
      BY <3>1, FrameKinds
    <3>3. mmk_ctx[t] = Top(t).m
      BY <3>1 DEF OwnContext, In
    <3>4. RecordAndAnswer(t, Top(t).m, Top(t).m, Top(t).args, Tail(stack[t]))
      BY <3>1, <3>3
    <3>5. mock[Top(t).m] # NULL
      BY <3>2, <3>4 DEF RecordAndAnswer, Fails
    <3> QED BY <2>3, <3>2, <3>4, <3>5
  <2>7. CASE BeginExpression(t)
    BY <1>2, <2>7, BeginRefines
  <2>8. CASE CallbackReturns(t) \/ StubReturns(t) \/ \E s \in StubFn : CallStub(t, s)
    <3>1. /\ mock' = mock /\ matcher_ctx' = matcher_ctx /\ times' = times
          /\ event' = event /\ \E s : stack' = [stack EXCEPT ![t] = s]
      BY <2>8 DEF CallbackReturns, StubReturns, CallStub, Pop, Push, Fails
    <3> QED BY <2>4, <3>1
  <2>9. /\ \A i \in 1..2 : ~EvalArg(t, i)
        /\ \A m \in Mock : ~ExtraCall(t, m)
        /\ ~CallMocked(t) /\ ~CallNothing(t) /\ ~EndWhen(t) /\ ~EndVerify(t)
    BY <1>2 DEF EvalArg, ExtraCall, CallMocked, CallNothing, EndWhen, EndVerify, In, Expr
  <2> QED BY <2>1, <2>2, <2>5, <2>6, <2>7, <2>8, <2>9 DEF Step
<1> QED BY <1>1, <1>2

LEMMA NextRefines ==
    ASSUME IInv, IInv', OwnContext, RefineInv, DirectClients, [Next]_vars
    PROVE  RefineInv' /\ [C!Next]_(C!cvars)
<1>1. CASE UNCHANGED vars
  <2>1. RefineInv'
    BY <1>1 DEF vars, RefineInv, Agreed, Building, Mocked, In, Top
  <2>2. UNCHANGED C!cvars
    BY <1>1 DEF vars, C!cvars, Exprs
  <2> QED BY <2>1, <2>2
<1>2. CASE Next
  <2>1. PICK t \in Thread : Step(t)
    BY <1>2 DEF Next
  <2>2. status = "ok"
    BY <1>2 DEF Next
  <2>3. RefineInv' /\ (Stutters \/ Answers(t))
    <3>1. CASE status' = "ok"
      BY <2>1, <2>2, <3>1, StepRefines
    <3>2. CASE status' # "ok"
      BY <2>1, <2>2, <3>2, Lost, LostRefines
    <3> QED BY <3>1, <3>2
  <2>4. Answers(t) => C!Next
    BY DEF Answers, C!Next
  <2> QED BY <2>3, <2>4, StutterIs
<1> QED BY <1>1, <1>2

(* Where a call expression calls its mock exactly once, where code that    *)
(* Mimick calls back and that uses Mimick is that of then_call, and where  *)
(* no mmk_when is about a mock with a variadic pack, every call gets the   *)
(* newest contract that accepts it and every verification the number of    *)
(* calls it accepts, as mimick.h promises.                                 *)
THEOREM Implements ==
    ASSUME DirectClients
    PROVE  Spec => ImplementsContract
<1>1. Init => RefineInv /\ C!Init
  <2> SUFFICES ASSUME Init PROVE RefineInv /\ C!Init
    OBVIOUS
  <2>1. Mocked = {} /\ \A t \in Thread : stack[t] = << >>
    BY DEF Init, Mocked
  <2>2. RefineInv
    BY <2>1 DEF RefineInv, Agreed, Building, In
  <2>3. C!Init
    BY DEF Init, C!Init, NoCalls, C!NoCalls
  <2> QED BY <2>2, <2>3
<1>2. IInv /\ IInv' /\ OwnContext /\ RefineInv /\ [Next]_vars
          => RefineInv' /\ [C!Next]_(C!cvars)
  BY NextRefines
<1>3. Spec => []OwnContext
  BY ContextIsOwn DEF DirectClients
<1> QED BY <1>1, <1>2, <1>3, Invariance, PTL DEF Spec, ImplementsContract, C!Spec
=============================================================================
