---------------------------- MODULE MCMockCrews ----------------------------
(* Instances of MCMocks with one thread and two mocks, or with two threads *)
(* that share one mock.                                                    *)
EXTENDS MCMocks

VARIABLE crew   \* the threads that take part
mcvars == <<vars, crew>>

CalledAtMost(m, n, args) ==
    mock[m] # NULL => /\ TotalCalls(m) <= n
                      /\ \A a \in Args \ args : mock[m].calls[a] = 0

(* Bounds on top of those of Mocks.  One thread: bar is called once, and   *)
(* there is no bare stub.  Two threads: they have two frames together, foo *)
(* is called once, with arguments that both of its contracts accept, and   *)
(* bar is not mocked.                                                      *)
WithinBounds ==
    IF Cardinality(crew) = 1
    THEN CalledAtMost(bar, 1, Args) /\ \A t \in crew : mmk_ctx[t] \notin StubFn
    ELSE /\ mock[bar] = NULL
         /\ SumFunction([t \in crew |-> Len(stack[t])]) <= 2
         /\ CalledAtMost(foo, 1, {<<0, 1>>})

MCInit == Init /\ crew \in (SUBSET Thread) \ {{}}
MCNext ==
    /\ status = "ok"
    /\ UNCHANGED crew
    /\ \E t \in crew : Step(t)
    /\ WithinBounds'
MCSpec == MCInit /\ [][MCNext]_mcvars
=============================================================================
