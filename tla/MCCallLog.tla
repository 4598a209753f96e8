----------------------------- MODULE MCCallLog -----------------------------
(* Small buffers: records of several lengths in chunks of 4, so that a     *)
(* record may leave room, fill a chunk exactly or need several at once.    *)
(* Some mocks are variadic, and some have padding.                         *)
EXTENDS CallLog

CONSTANTS a1, a2, a3, t1

MCForm ==
    {[len |-> l, padding |-> {0}, variadic |-> FALSE] : l \in {1, 2, 3, 4, 6, 9}}
    \union {[len |-> 3, padding |-> {0, 1}, variadic |-> FALSE]}
    \union {[len |-> l, padding |-> {0}, variadic |-> TRUE] : l \in {3, 4}}
=============================================================================
