--------------------------- MODULE MockContract ---------------------------
(***************************************************************************)
(* What the mock API of mimick.h promises, without threads' hidden state,  *)
(* matcher lists or callbacks.  A mocked function has contracts, newest    *)
(* first; a call is governed by the newest contract that accepts its       *)
(* arguments, and is remembered; a verification counts the remembered      *)
(* calls it accepts.  `event' is what the client sees of each operation.   *)
(***************************************************************************)
EXTENDS Matchers, FiniteSetsExt

CONSTANTS Thread, Mock, Args, WhenExpr, VerifyExpr

VARIABLES
    contracts,  \* contracts[m]: the mmk_when of m, newest first; NULL: not mocked
    calls,      \* calls[m][a]: how often m was called with arguments a
    seen,       \* seen[t]: the count of the verification t has under way
    event

cvars == <<contracts, calls, seen, event>>

(* What a call expression says of the arguments, parameter by parameter.   *)
Accepts(e, args) ==
    \A n \in DOMAIN e.refs :
        IF e.kinds = << >> THEN args[n] = e.refs[n]
                           ELSE Passes(Matcher(e.kinds[n], n, e.pred), args[n], e.refs[n])

NoCalls == [a \in Args |-> 0]

Create(m) ==
    /\ contracts[m] = NULL
    /\ contracts' = [contracts EXCEPT ![m] = << >>]
    /\ calls' = [calls EXCEPT ![m] = NoCalls]
    /\ event' = [op |-> "create", mock |-> m]
    /\ UNCHANGED seen

When(e) ==
    /\ contracts[e.mock] # NULL
    /\ contracts' = [contracts EXCEPT ![e.mock] = <<e>> \o @]
    /\ event' = [op |-> "when", mock |-> e.mock]
    /\ UNCHANGED <<calls, seen>>

Call(m, args) ==
    /\ contracts[m] # NULL
    /\ calls' = [calls EXCEPT ![m][args] = @ + 1]
    /\ LET fits == {i \in DOMAIN contracts[m] : Accepts(contracts[m][i], args)}
       IN  event' = [op |-> "call", mock |-> m, args |-> args,
                     result |-> IF fits = {} THEN NULL
                                ELSE contracts[m][Min(fits)].result]
    /\ UNCHANGED <<contracts, seen>>

Verify(t, e) ==
    /\ contracts[e.mock] # NULL
    /\ seen' = [seen EXCEPT ![t] =
                  SumFunctionOnSet(calls[e.mock], {a \in Args : Accepts(e, a)})]
    /\ event' = [op |-> "verify", mock |-> e.mock]
    /\ UNCHANGED <<contracts, calls>>

Verdict(t, e) ==
    /\ event' = [op |-> "verdict", by |-> t,
                 passes |-> mmk_verify_times(e.params, seen[t])]
    /\ UNCHANGED <<contracts, calls, seen>>

Reset(m) ==
    /\ contracts[m] # NULL
    /\ contracts' = [contracts EXCEPT ![m] = NULL]
    /\ calls' = [calls EXCEPT ![m] = NoCalls]
    /\ event' = [op |-> "reset", mock |-> m]
    /\ UNCHANGED seen

Init ==
    /\ contracts = [m \in Mock |-> NULL]
    /\ calls = [m \in Mock |-> NoCalls]
    /\ seen = [t \in Thread |-> 0]
    /\ event = NULL

Next ==
    \/ \E m \in Mock : Create(m) \/ Reset(m) \/ \E a \in Args : Call(m, a)
    \/ \E e \in WhenExpr : When(e)
    \/ \E t \in Thread, e \in VerifyExpr : Verify(t, e) \/ Verdict(t, e)

Spec == Init /\ [][Next]_cvars
=============================================================================
