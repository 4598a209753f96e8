------------------------------ MODULE MCMocks ------------------------------
(* Small instances of Mocks: functions of two integer parameters.          *)
EXTENDS MocksRefine

CONSTANTS foo, bar, baz, t1, t2

ThreadSymmetry == Permutations(Thread)

MCArgs == {<<0, 1>>, <<1, 0>>, <<1, 1>>}

Answer(val, call) == [then_return |-> val, then_call |-> call]
Verify(never, n)  == [never |-> never, at_least |-> 0, at_most |-> 0,
                      times |-> n, matching |-> NULL]

When(m, refs, kinds, result) ==
    [mock |-> m, refs |-> refs, kinds |-> kinds, pred |-> {1}, result |-> result]
Ask(m, refs, kinds, params) ==
    [mock |-> m, refs |-> refs, kinds |-> kinds, pred |-> {1}, params |-> params]

LtAny == <<MMK_MATCHER_LT, MMK_MATCHER_ANY>>
AnyThat == <<MMK_MATCHER_ANY, MMK_MATCHER_THAT>>

(* Contracts that overlap, foo with its first parameter below 1 and        *)
(* foo(0, 1), one with a value and one with a callback; bar with a         *)
(* predicate.                                                              *)
ThreadsWhen  == {When(foo, <<1, 0>>, LtAny, Answer(7, FALSE)),
                 When(foo, <<0, 1>>, << >>, Answer(NULL, TRUE))}
ContractWhen == ThreadsWhen \union {When(bar, <<1, 0>>, AnyThat, Answer(8, FALSE))}
ThreadsVerify  == {Ask(foo, <<1, 1>>, AnyThat, Verify(0, 1))}
ContractVerify == ThreadsVerify \union {Ask(bar, <<0, 1>>, << >>, Verify(1, 0))}

(* Client code that misuses or re-enters Mimick. *)
SmallArgs   == {<<0, 1>>, <<1, 1>>}
SmallWhen   == {When(foo, <<1, 1>>, LtAny, Answer(7, TRUE)),
                When(bar, <<1, 1>>, << >>, Answer(8, FALSE))}
SmallVerify == {Ask(foo, <<0, 1>>, << >>, Verify(1, 0)),
                Ask(bar, <<0, 1>>, AnyThat, Verify(0, 1))}

(* bar takes one integer and a variadic pack. *)
NoWhen   == {}
VaArgs   == {<<1, 0>>, <<1, 1>>}
VaWhen   == {When(bar, <<1, 1>>, << >>, Answer(8, FALSE))}
VaVerify == {Ask(bar, <<1, 1>>, << >>, Verify(0, 1))}
=============================================================================
