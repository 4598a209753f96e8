--------------------------- MODULE Interposition ---------------------------
(***************************************************************************)
(* What stubbing promises, without saving and restoring of pointers: every *)
(* slot carries a stack of interceptors over its original code.  A layer   *)
(* is what one call of mmk_stub_create or mmk_mock_create installs: one    *)
(* interceptor on each of its slots.  Installing a layer pushes, removing  *)
(* it pops exactly that layer, and everything else stays as it is.         *)
(***************************************************************************)
EXTENDS Sequences

CONSTANTS Slot, StubId

VARIABLES
    layers,   \* the layers installed: functions from slots to interceptors
    stack,    \* the interceptors of each slot, newest first
    bound     \* whether the linker has bound the slot

ivars == <<layers, stack, bound>>

Layer == UNION {[S -> StubId] : S \in (SUBSET Slot) \ {{}}}
Ids(f) == {f[x] : x \in DOMAIN f}

Install(f) ==
    /\ \A g \in layers : Ids(f) \intersect Ids(g) = {}
    /\ layers' = layers \union {f}
    /\ stack'  = [x \in Slot |-> IF x \in DOMAIN f THEN <<f[x]>> \o stack[x]
                                                  ELSE stack[x]]
    /\ UNCHANGED bound

Remove(f) ==
    /\ f \in layers
    /\ \A x \in DOMAIN f : stack[x] # << >> /\ Head(stack[x]) = f[x]
    /\ layers' = layers \ {f}
    /\ stack'  = [x \in Slot |-> IF x \in DOMAIN f THEN Tail(stack[x])
                                                  ELSE stack[x]]
    /\ UNCHANGED bound

(* Only a call that reaches the original code makes the linker bind it. *)
Bind(x) ==
    /\ stack[x] = << >>
    /\ ~bound[x]
    /\ bound' = [bound EXCEPT ![x] = TRUE]
    /\ UNCHANGED <<layers, stack>>

Init ==
    /\ layers = {}
    /\ stack = [x \in Slot |-> << >>]
    /\ bound \in [Slot -> BOOLEAN]

Next == \/ \E f \in Layer : Install(f) \/ Remove(f)
        \/ \E x \in Slot : Bind(x)

Spec == Init /\ [][Next]_ivars
=============================================================================
