---------------------------- MODULE StubsRefine ----------------------------
(***************************************************************************)
(* The saved pointers of module Stubs implement the stacks of module       *)
(* Interposition.  The interceptors of a slot are the stubs that cover it, *)
(* in the order in which the slot leads to the first and each saved the    *)
(* next; the original code is what the last of them saved.                 *)
(***************************************************************************)
EXTENDS Stubs, Sequences, FiniteSets

Orders(x) ==
    {q \in [1..Cardinality(Own(x)) -> Own(x)] :
        \A i \in DOMAIN q : q[i] = IF i = 1 THEN got[x] ELSE old[q[i - 1]][x]}

Stack(x) == IF Orders(x) = {} THEN << >> ELSE CHOOSE q \in Orders(x) : TRUE

Base(x) == IF Stack(x) = << >> THEN got[x] ELSE old[Stack(x)[Len(Stack(x))]][x]

LayerOf(h) ==
    [x \in UNION {DOMAIN old[s] : s \in ListOf(h)} |->
        CHOOSE s \in ListOf(h) : x \in DOMAIN old[s]]

I == INSTANCE Interposition WITH
        layers <- {LayerOf(h) : h \in Heads},
        stack  <- [x \in Slot |-> Stack(x)],
        bound  <- [x \in Slot |-> Base(x) = Real[x]]

(* Making and destroying stubs and mocks pushes and pops whole layers of   *)
(* interceptors: nothing is lost, left behind, reordered or rebound.       *)
ImplementsInterposition == I!Spec
=============================================================================
