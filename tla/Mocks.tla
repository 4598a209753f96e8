------------------------------- MODULE Mocks -------------------------------
(***************************************************************************)
(* The mock API at work: mmk_mock, mmk_when, mmk_verify, mmk_reset, calls  *)
(* of mocked functions, and the code of the client that Mimick calls back. *)
(*                                                                         *)
(* One stub body (MMK_MOCK_DEFINE) serves three purposes, and which one is *)
(* decided by thread-local state: matcher_ctx tells it that it runs inside *)
(* the call expression of a mmk_when (kind 0) or a mmk_verify (kind 1),    *)
(* mmk_ctx_ tells it which mock it is.  The client's code runs between the *)
(* steps of all this, so each thread has a stack of frames, top first:     *)
(*   when, verify  the arguments of a call expression are being evaluated  *)
(*   serialize     a stub body is in the client's serialize_va             *)
(*   callback      a stub body is in the client's then_call                *)
(*   stub          the function of a bare stub is running                  *)
(* Between two of the client's steps a stub body runs to its end at once:  *)
(* calls of one mock by several threads at the very same time are the      *)
(* subject of module CallLog.                                              *)
(***************************************************************************)
EXTENDS Matchers, FiniteSetsExt

CONSTANTS
    Thread, Mock, Args,
    StubFn,       \* functions stubbed with mmk_stub_create
    Variadic,     \* mocks whose last parameter is a variadic pack
    WhenExpr,     \* mmk_when uses: mock, refs, kinds, pred, result
    VerifyExpr,   \* mmk_verify uses: mock, refs, kinds, pred, params
    Reenter,      \* frames whose client code uses Mimick itself
    Misuse,       \* TRUE: call expressions may not call exactly once
    ResetInUse,   \* TRUE: client code may reset a mock that a frame needs
    MaxDepth,     \* bound on the frames of a thread
    MaxCalls,     \* bound on the calls of a mock
    MaxContracts  \* bound on the contracts of a mock

(* The values the state is made of.  Frame: a frame of a stack; Node: a    *)
(* matcher; MatcherCtx: the list under construction and its mode; Contract *)
(* and MockCtx: struct mmk_params and struct mmk_mock_ctx.                 *)
Frame ==
    [k : {"when"}, e : WhenExpr, todo : SUBSET Nat, done : BOOLEAN, ran : Nat]
    \union
    [k : {"verify"}, e : VerifyExpr, todo : SUBSET Nat, done : BOOLEAN, ran : Nat]
    \union [k : {"serialize"}, m : Mock, args : Args]
    \union [k : {"callback"}, m : Mock, stale : BOOLEAN, reads : BOOLEAN]
    \union [k : {"stub"}, m : StubFn]
Node ==
    UNION {{Matcher(e.kinds[i], i, e.pred) : i \in DOMAIN e.kinds} :
              e \in WhenExpr \union VerifyExpr}
MatcherCtx == [kind : {0, 1}, list : Seq(Node), freed : BOOLEAN]
Result   == {e.result : e \in WhenExpr}
Contract == [refs : {e.refs : e \in WhenExpr}, list : Seq(Node),
             by : Thread \union {NULL}, result : Result, expr : WhenExpr]
MockCtx  == [params : Seq(Contract), calls : [Args -> Nat]]

ASSUME ExprAssumption ==
    /\ \A e \in WhenExpr \union VerifyExpr :
          /\ e.mock \in Mock /\ e.refs \in Seq(Int)
          /\ DOMAIN e.kinds = IF e.kinds = << >> THEN {} ELSE DOMAIN e.refs
    /\ \A r \in Result : r.then_call \in BOOLEAN

ASSUME MockAssumption ==
    /\ \A f \in {Thread, Mock, Args} : IsFiniteSet(f)
    /\ NULL \notin Mock \union StubFn \union Thread \union MatcherCtx \union MockCtx
    /\ Mock \intersect StubFn = {}
    /\ Variadic \subseteq Mock
    /\ Reenter \subseteq {"callback", "stub", "serialize"}
    /\ Misuse \in BOOLEAN /\ ResetInUse \in BOOLEAN
    /\ \A b \in {MaxDepth, MaxCalls, MaxContracts} : b \in Nat

VARIABLES
    mock,         \* struct mmk_mock_ctx: contracts and calls; NULL: not mocked
    matcher_ctx,  \* per thread: head of the matcher list, or NULL
    mmk_ctx,      \* per thread: the stub whose trampoline ran last
    mock_called,  \* per thread: stub bodies run by the call expression
    times,        \* per thread: count found by the last verification
    cur_result,   \* per thread: the result of the mmk_when under way
    stack,        \* per thread: the frames above
    heap,         \* matcher nodes allocated and not freed
    status,       \* "ok", "panic" (mmk_panic), "ub" (freed or NULL memory used)
    event         \* what the client saw last

vars == <<mock, matcher_ctx, mmk_ctx, mock_called, times, cur_result, stack,
          heap, status, event>>

Top(t)   == Head(stack[t])
In(t, K) == stack[t] # << >> /\ Top(t).k \in K
Push(t, f) == stack' = [stack EXCEPT ![t] = <<f>> \o @]
Pop(t)     == stack' = [stack EXCEPT ![t] = Tail(@)]

(* Client code that may use Mimick: a test itself, or re-entrant code.     *)
ClientCode(t) == /\ stack[t] # << >> => Top(t).k \in Reenter
                 /\ Len(stack[t]) < MaxDepth

(* Nothing but the status matters once the program is lost. *)
Fails(how) ==
    /\ status' = how
    /\ UNCHANGED <<mock, matcher_ctx, mmk_ctx, mock_called, times, cur_result,
                   stack, heap, event>>

Nodes(list) == 1 + Len(list)
NodesOf(m)  == LET params == mock[m].params
               IN  SumFunction([i \in DOMAIN params |-> Nodes(params[i].list)])
NoCalls     == [a \in Args |-> 0]
TotalCalls(m) == SumFunctionOnSet(mock[m].calls, Args)

-----------------------------------------------------------------------------
(* mmk_mock.  Making a stub clears the thread's mmk_ctx_. *)
Create(t, m) ==
    /\ ClientCode(t)
    /\ mock[m] = NULL
    /\ mock' = [mock EXCEPT ![m] = [params |-> << >>, calls |-> NoCalls]]
    /\ mmk_ctx' = [mmk_ctx EXCEPT ![t] = NULL]
    /\ event' = [op |-> "create", mock |-> m]
    /\ UNCHANGED <<matcher_ctx, mock_called, times, cur_result, stack, heap, status>>

(* mmk_reset.  The trampoline answers with its stub after having made it   *)
(* the thread's mmk_ctx_; contracts, their matchers and the recorded calls *)
(* are freed.  A frame that still refers to a contract becomes stale.      *)
Stale(f, m) == IF f.k = "callback" /\ f.m = m THEN [f EXCEPT !.stale = TRUE] ELSE f

(* A frame that goes back to its mock: not the callback of a contract      *)
(* without then_return, which returns straight to the caller.              *)
MockOf(f)   == IF f.k \in {"when", "verify"} THEN f.e.mock ELSE f.m
Needs(f, m) == MockOf(f) = m /\ (f.k = "callback" => f.reads)
InUse(m)    == \E t \in Thread : \E i \in DOMAIN stack[t] : Needs(stack[t][i], m)

Reset(t, m) ==
    /\ ClientCode(t)
    /\ mock[m] # NULL
    /\ ResetInUse \/ ~InUse(m)
    /\ mock' = [mock EXCEPT ![m] = NULL]
    /\ mmk_ctx' = [mmk_ctx EXCEPT ![t] = m]
    /\ heap' = heap - NodesOf(m)
    /\ stack' = [u \in Thread |->
                    [i \in DOMAIN stack[u] |-> Stale(stack[u][i], m)]]
    /\ event' = [op |-> "reset", mock |-> m]
    /\ UNCHANGED <<matcher_ctx, mock_called, times, cur_result, status>>

-----------------------------------------------------------------------------
(* Call expressions: mmk_when and mmk_verify. *)

(* Mutant: matcher_ctx is not thread-local. *)
mmk_matcher_init_shared(t, kind) ==
    /\ matcher_ctx' = [u \in Thread |->
                         [kind |-> kind, list |-> << >>, freed |-> FALSE]]
    /\ heap' = heap + 1

mmk_matcher_init(t, kind) ==
    /\ matcher_ctx' = [matcher_ctx EXCEPT ![t] =
                         [kind |-> kind, list |-> << >>, freed |-> FALSE]]
    /\ heap' = heap + 1

CallExpr(k, e) == [k |-> k, e |-> e, todo |-> DOMAIN e.kinds,
                   done |-> FALSE, ran |-> 0]

BeginWhen(t, e) ==
    /\ ClientCode(t)
    /\ mmk_matcher_init(t, 0)
    /\ cur_result' = [cur_result EXCEPT ![t] = e.result]
    /\ Push(t, CallExpr("when", e))
    /\ UNCHANGED <<mock, mmk_ctx, mock_called, times, status, event>>

BeginVerify(t, e) ==
    /\ ClientCode(t)
    /\ mmk_matcher_init(t, 1)
    /\ Push(t, CallExpr("verify", e))
    /\ UNCHANGED <<mock, mmk_ctx, mock_called, times, cur_result, status, event>>

(* A contract made by thread t shares the list of t's call expression for  *)
(* as long as the expression lasts (by = t).                               *)
ShareList(t, list, by) ==
    [m \in Mock |->
        IF mock[m] = NULL THEN NULL
        ELSE [mock[m] EXCEPT !.params =
                [i \in DOMAIN @ |-> IF @[i].by # t THEN @[i]
                                    ELSE [@[i] EXCEPT !.list = list, !.by = by]]]]

(* Evaluates the i-th argument, a matcher; the order is the compiler's.    *)
EvalArg(t, i) ==
    LET f == Top(t)
        list == mmk_matcher_add(matcher_ctx[t].list, Matcher(f.e.kinds[i], i, f.e.pred))
    IN  /\ In(t, {"when", "verify"})
        /\ i \in f.todo
        /\ IF matcher_ctx[t].freed
           THEN Fails("ub")
           ELSE /\ matcher_ctx' = [matcher_ctx EXCEPT ![t].list = list]
                /\ mock' = ShareList(t, list, t)
                /\ heap' = heap + 1
                /\ stack' = [stack EXCEPT ![t][1].todo = @ \ {i}]
                /\ UNCHANGED <<mmk_ctx, mock_called, times, cur_result, status, event>>

(* Mutants: a new contract goes after the others; a verification frees the *)
(* list twice, or never; the count is not thread-local.                    *)
BindLast(t, m, refs, e) ==
    /\ mock' = [mock EXCEPT ![m].params =
                  @ \o <<[refs |-> refs, list |-> matcher_ctx[t].list, by |-> t,
                          result |-> cur_result[t], expr |-> e]>>]
    /\ event' = [op |-> "when", mock |-> m]
    /\ UNCHANGED <<matcher_ctx, times, heap>>

Counting(t, m, refs, threads, freed) ==
    LET list == matcher_ctx[t].list
        n == SumFunctionOnSet(mock[m].calls, {a \in Args : Matches(list, a, refs)})
    IN  /\ times' = [u \in Thread |-> IF u \in threads THEN n ELSE times[u]]
        /\ heap' = heap - freed * Nodes(list)
        /\ matcher_ctx' = [matcher_ctx EXCEPT ![t].freed = TRUE]
        /\ event' = [op |-> "verify", mock |-> m]
        /\ UNCHANGED mock

CountFreesTwice(t, m, refs) == Counting(t, m, refs, {t}, 2)
CountNeverFrees(t, m, refs) == Counting(t, m, refs, {t}, 0)
CountShared(t, m, refs)     == Counting(t, m, refs, Thread, 1)

(* The stub body of m in matcher mode: a new contract, or a count.  The    *)
(* matcher list goes to the contract, a verification frees it.  e is the   *)
(* expression as the client wrote it.                                      *)
Bind(t, m, refs, e) ==
    /\ mock' = [mock EXCEPT ![m].params =
                  <<[refs |-> refs, list |-> matcher_ctx[t].list, by |-> t,
                     result |-> cur_result[t], expr |-> e]>> \o @]
    /\ event' = [op |-> "when", mock |-> m]
    /\ UNCHANGED <<matcher_ctx, times, heap>>

Count(t, m, refs) ==
    LET list == matcher_ctx[t].list
    IN  /\ times' = [times EXCEPT ![t] =
                       SumFunctionOnSet(mock[m].calls,
                                        {a \in Args : Matches(list, a, refs)})]
        /\ heap' = heap - Nodes(list)
        /\ matcher_ctx' = [matcher_ctx EXCEPT ![t].freed = TRUE]
        /\ event' = [op |-> "verify", mock |-> m]
        /\ UNCHANGED mock

(* Mutant: mmk_ctx_ is not thread-local. *)
MatcherModeCallShared(t, m, refs, e) ==
    /\ mock_called' = [mock_called EXCEPT ![t] = @ + 1]
    /\ mmk_ctx' = [u \in Thread |-> m]
    /\ IF matcher_ctx[t].kind = 0 THEN Bind(t, m, refs, e) ELSE Count(t, m, refs)
    /\ UNCHANGED <<cur_result, status>>

MatcherModeCall(t, m, refs, e) ==
    /\ mock_called' = [mock_called EXCEPT ![t] = @ + 1]
    /\ mmk_ctx' = [mmk_ctx EXCEPT ![t] = m]
    /\ IF matcher_ctx[t].kind = 0 THEN Bind(t, m, refs, e) ELSE Count(t, m, refs)
    /\ UNCHANGED <<cur_result, status>>

(* A call made by the call expression of the frame on top. *)
CallFromExpression(t, m, isLast) ==
    /\ In(t, {"when", "verify"})
    /\ ~Top(t).done
    /\ mock[m] # NULL
    /\ IF matcher_ctx[t].freed
       THEN Fails("ub")
       ELSE /\ MatcherModeCall(t, m, Top(t).e.refs, Top(t).e)
            /\ stack' = [stack EXCEPT ![t][1].ran = @ + 1, ![t][1].done = isLast]

(* All arguments are evaluated and the function is called. *)
CallMocked(t) ==
    /\ In(t, {"when", "verify"})
    /\ Top(t).todo = {}
    /\ CallFromExpression(t, Top(t).e.mock, TRUE)

(* The call reaches no stub: the function is not mocked (any more), or the *)
(* compiler optimized the call away.                                       *)
CallNothing(t) ==
    /\ Misuse
    /\ In(t, {"when", "verify"})
    /\ ~Top(t).done
    /\ Top(t).todo = {}
    /\ stack' = [stack EXCEPT ![t][1].done = TRUE]
    /\ UNCHANGED <<mock, matcher_ctx, mmk_ctx, mock_called, times, cur_result,
                   heap, status, event>>

(* An argument of the expression calls a mocked function itself. *)
ExtraCall(t, m) ==
    /\ Misuse
    /\ In(t, {"when", "verify"})
    /\ Top(t).ran = 0
    /\ mock[m] # NULL
    /\ Len(mock[m].params) < MaxContracts
    /\ CallFromExpression(t, m, FALSE)

(* Mutants: mmk_when and mmk_verify leave the matcher mode on; mmk_verify  *)
(* does not start the count of stub bodies again.                          *)
EndWhenNoTerm(t) ==
    /\ In(t, {"when"})
    /\ Top(t).done
    /\ IF mock_called[t] # 1
       THEN Fails("panic")
       ELSE /\ mock_called' = [mock_called EXCEPT ![t] = 0]
            /\ mock' = ShareList(t, matcher_ctx[t].list, NULL)
            /\ Pop(t)
            /\ UNCHANGED <<matcher_ctx, mmk_ctx, times, cur_result, heap, status, event>>

EndsVerify(t, count, ctx) ==
    /\ In(t, {"verify"})
    /\ Top(t).done
    /\ IF mock_called[t] # 1
       THEN Fails("panic")
       ELSE /\ mock_called' = [mock_called EXCEPT ![t] = count]
            /\ matcher_ctx' = [matcher_ctx EXCEPT ![t] = ctx]
            /\ event' = [op |-> "verdict", by |-> t,
                         passes |-> mmk_verify_times(Top(t).e.params, times[t])]
            /\ Pop(t)
            /\ UNCHANGED <<mock, mmk_ctx, times, cur_result, heap, status>>

EndVerifyNoTerm(t)  == EndsVerify(t, 0, matcher_ctx[t])
EndVerifyNoReset(t) == EndsVerify(t, mock_called[t], NULL)

(* What follows the call expression: exactly one stub body must have run.  *)
EndWhen(t) ==
    /\ In(t, {"when"})
    /\ Top(t).done
    /\ IF mock_called[t] # 1
       THEN Fails("panic")
       ELSE /\ mock_called' = [mock_called EXCEPT ![t] = 0]
            /\ mock' = ShareList(t, matcher_ctx[t].list, NULL)
            /\ matcher_ctx' = [matcher_ctx EXCEPT ![t] = NULL]
            /\ Pop(t)
            /\ UNCHANGED <<mmk_ctx, times, cur_result, heap, status, event>>

EndVerify(t) ==
    /\ In(t, {"verify"})
    /\ Top(t).done
    /\ IF mock_called[t] # 1
       THEN Fails("panic")
       ELSE /\ mock_called' = [mock_called EXCEPT ![t] = 0]
            /\ matcher_ctx' = [matcher_ctx EXCEPT ![t] = NULL]
            /\ event' = [op |-> "verdict", by |-> t,
                         passes |-> mmk_verify_times(Top(t).e.params, times[t])]
            /\ Pop(t)
            /\ UNCHANGED <<mock, mmk_ctx, times, cur_result, heap, status>>

-----------------------------------------------------------------------------
(* Calls of mocked and stubbed functions outside call expressions. *)

(* MMK_TRYMATCH passes over the variadic pack. *)
Fixed(m, a) == IF m \in Variadic THEN Front(a) ELSE a

Governs(m, c, args) == Matches(c.list, Fixed(m, args), Fixed(m, c.refs))

(* The stub body of m in normal mode, once the arguments are in reg_params:*)
(* records the call in the mock c that mmk_ctx_ names, and obeys the first *)
(* contract of c that accepts the arguments.  `rest' is the stack without  *)
(* the frame of the stub body itself.                                      *)
RecordAndAnswer(t, m, c, args, rest) ==
    IF c \notin Mock \/ mock[c] = NULL
    THEN Fails("ub")
    ELSE LET params == mock[c].params
             i == SelectInSeq(params, LAMBDA p : Governs(m, p, args))
             result == IF i = 0 THEN NULL ELSE params[i].result
         IN  /\ mock' = [mock EXCEPT ![c].calls[args] = @ + 1]
             /\ mmk_ctx' = [mmk_ctx EXCEPT ![t] = c]
             /\ stack' = [stack EXCEPT ![t] =
                    IF i # 0 /\ result.then_call
                    THEN <<[k |-> "callback", m |-> c, stale |-> FALSE,
                            reads |-> result.then_return # NULL]>> \o rest
                    ELSE rest]
             /\ event' = [op |-> "call", mock |-> m, args |-> args,
                          result |-> result]
             /\ UNCHANGED <<matcher_ctx, mock_called, times, cur_result, heap,
                            status>>

Call(t, m, args) ==
    /\ ClientCode(t)
    /\ mock[m] # NULL
    /\ TotalCalls(m) < MaxCalls
    /\ IF matcher_ctx[t] # NULL
       THEN IF matcher_ctx[t].freed
            THEN Fails("ub")
            ELSE MatcherModeCall(t, m, args, NULL) /\ UNCHANGED stack
       ELSE IF m \in Variadic
       THEN /\ mmk_ctx' = [mmk_ctx EXCEPT ![t] = m]
            /\ Push(t, [k |-> "serialize", m |-> m, args |-> args])
            /\ UNCHANGED <<mock, matcher_ctx, mock_called, times, cur_result,
                           heap, status, event>>
       ELSE RecordAndAnswer(t, m, m, args, stack[t])

(* The client's serialize_va is done; the stub body asks for its mock. *)
Serialized(t) ==
    /\ In(t, {"serialize"})
    /\ RecordAndAnswer(t, Top(t).m, mmk_ctx[t], Top(t).args, Tail(stack[t]))

(* then_call returns.  With then_return the contract is read once more.    *)
CallbackReturns(t) ==
    /\ In(t, {"callback"})
    /\ IF Top(t).reads /\ Top(t).stale
       THEN Fails("ub")
       ELSE /\ Pop(t)
            /\ UNCHANGED <<mock, matcher_ctx, mmk_ctx, mock_called, times,
                           cur_result, heap, status, event>>

(* A function replaced with mmk_stub_create is called, and returns. *)
CallStub(t, s) ==
    /\ ClientCode(t)
    /\ mmk_ctx' = [mmk_ctx EXCEPT ![t] = s]
    /\ Push(t, [k |-> "stub", m |-> s])
    /\ UNCHANGED <<mock, matcher_ctx, mock_called, times, cur_result, heap,
                   status, event>>

StubReturns(t) ==
    /\ In(t, {"stub"})
    /\ Pop(t)
    /\ UNCHANGED <<mock, matcher_ctx, mmk_ctx, mock_called, times, cur_result,
                   heap, status, event>>

-----------------------------------------------------------------------------
Init ==
    /\ mock = [m \in Mock |-> NULL]
    /\ matcher_ctx = [t \in Thread |-> NULL]
    /\ mmk_ctx = [t \in Thread |-> NULL]
    /\ mock_called = [t \in Thread |-> 0]
    /\ times = [t \in Thread |-> 0]
    /\ cur_result = [t \in Thread |-> NULL]
    /\ stack = [t \in Thread |-> << >>]
    /\ heap = 0
    /\ status = "ok"
    /\ event = NULL

BeginExpression(t) ==
    \/ \E e \in WhenExpr : /\ mock[e.mock] # NULL
                           /\ Len(mock[e.mock].params) < MaxContracts
                           /\ BeginWhen(t, e)
    \/ \E e \in VerifyExpr : mock[e.mock] # NULL /\ BeginVerify(t, e)

Step(t) ==
    \/ \E m \in Mock : Create(t, m) \/ Reset(t, m) \/ ExtraCall(t, m)
    \/ \E m \in Mock, a \in Args : Call(t, m, a)
    \/ \E s \in StubFn : CallStub(t, s)
    \/ BeginExpression(t)
    \/ \E i \in 1..2 : EvalArg(t, i)
    \/ CallMocked(t) \/ CallNothing(t) \/ EndWhen(t) \/ EndVerify(t)
    \/ Serialized(t) \/ CallbackReturns(t) \/ StubReturns(t)

Next == status = "ok" /\ \E t \in Thread : Step(t)

Spec == Init /\ [][Next]_vars

-----------------------------------------------------------------------------
(* Types of the whole state; no more nodes are freed than were allocated.  *)
TypeOK ==
    /\ mock \in [Mock -> MockCtx \union {NULL}]
    /\ matcher_ctx \in [Thread -> MatcherCtx \union {NULL}]
    /\ mmk_ctx \in [Thread -> Mock \union StubFn \union {NULL}]
    /\ mock_called \in [Thread -> Nat]
    /\ times \in [Thread -> Nat]
    /\ cur_result \in [Thread -> Result \union {NULL}]
    /\ stack \in [Thread -> Seq(Frame)]
    /\ heap \in Nat
    /\ status \in {"ok", "panic", "ub"}

(* A stub body of thread t takes the matcher path exactly when t is inside *)
(* the call expression of a mmk_when or a mmk_verify, whatever the other   *)
(* threads and the client code Mimick calls back are doing, and the kind   *)
(* it finds is that of the innermost expression (mock.h:300-310).          *)
ModeIsolation ==
    \A t \in Thread :
        /\ matcher_ctx[t] # NULL <=> In(t, {"when", "verify"})
        /\ matcher_ctx[t] # NULL =>
              matcher_ctx[t].kind = IF Top(t).k = "when" THEN 0 ELSE 1

(* A mmk_when or mmk_verify that does not panic ran exactly one stub body: *)
(* the count never carries over from one expression to the next, nor from  *)
(* the expressions of a callback to those around it (mock.c:41-54).        *)
OneCallPerExpression ==
    [][\A t \in Thread :
         In(t, {"when", "verify"}) /\ Len(stack'[t]) < Len(stack[t])
            => Top(t).ran = 1]_vars

(* Every matcher node is owned by one contract or by the call expression   *)
(* that is still to give it away: none leaks, none is freed twice.         *)
Owned(t) == IF In(t, {"when", "verify"}) /\ Top(t).ran = 0
            THEN Nodes(matcher_ctx[t].list) ELSE 0
NoMatcherLeak ==
    (status = "ok" /\ \A t \in Thread : In(t, {"when", "verify"}) => Top(t).ran <= 1)
      => heap = SumFunction([m \in {n \in Mock : mock[n] # NULL} |-> NodesOf(m)])
                + SumFunction([t \in Thread |-> Owned(t)])

(* Inside the function of a stub, and inside a stub body that has not yet  *)
(* asked for its mock, mmk_ctx() is that very stub (mimick.h:55-62).       *)
OwnContext ==
    \A t \in Thread : In(t, {"stub", "serialize"}) => mmk_ctx[t] = Top(t).m

(* No stub body uses a mock, a contract or a matcher that has been freed.  *)
NoUseAfterFree == status # "ub"
=============================================================================
