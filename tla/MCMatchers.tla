----------------------------- MODULE MCMatchers -----------------------------
(***************************************************************************)
(* Checks modules Expressions and Signatures over all small inputs: call   *)
(* expressions of up to three values or matchers, with one to three named  *)
(* parameters, evaluated in every order, then tried against every call;    *)
(* every mmk_verify; signatures of every length a mock may be defined for. *)
(***************************************************************************)
EXTENDS Expressions, Signatures

(* One byte, or two, the low one first.                                    *)
MCSerializer == {[v \in Value |-> <<v>>], [v \in Value |-> <<v % 2, v \div 2>>]}
MCMatching == {{1}}

(* Pointers to void are among the parameters.                              *)
Pointer == <<"void", "*">>
MCType == {<<"int">>, Pointer, VoidType}
MCParameters ==
    {[i \in 1..n |-> IF i % 2 = 1 THEN <<"int">> ELSE Pointer] : n \in 0..MaxWritten}

(* Verdicts and signatures do not depend on the expression nor on each     *)
(* other: one stands for all, so that the product of the inputs is not     *)
(* enumerated.                                                             *)
OneOfAll ==
    /\ todo = {} /\ expr = <<"any">> /\ refs = <<0>>
    /\ verify = NULL /\ bodies = << >>

MCInit == Init /\ DefInit
MCNext ==
    \/ OneOfAll /\ DefNext /\ UNCHANGED vars
    \/ OneOfAll /\ Verdict /\ UNCHANGED bodies
    \/ \E i \in DOMAIN expr : EvalArg(i) /\ UNCHANGED bodies
MCSpec == MCInit /\ [][MCNext]_<<vars, bodies>>
=============================================================================
