------------------------------- MODULE Stubs -------------------------------
(***************************************************************************)
(* Stubs and mocks over the global offset table (src/stub.c, the creation  *)
(* and destruction half of src/mock.c, mmk_reset of src/core.c and the     *)
(* slot writes of src/plt-elf.c).                                          *)
(*                                                                         *)
(* A GOT slot holds a code address: the lazy-binding PLT code of that slot,*)
(* the real function once the dynamic linker has bound it, or a trampoline.*)
(* A trampoline belongs to exactly one struct mmk_stub and lives and dies  *)
(* with it, so the address of the trampoline and the stub are the same     *)
(* value here, a member of StubId.  A stub that is not allocated has no    *)
(* slots; its identity may be handed out again by a later malloc / mmap.   *)
(***************************************************************************)
EXTENDS Naturals

CONSTANTS
    Scope,      \* the part after `@' of the target strings in use
    SelfScope,  \* the scope of the main executable ("foo" or "foo@self")
    Symbol,     \* the functions that get mocked
    Slot,       \* GOT slots of every loaded object
    SlotsOf,    \* slots found for a <<scope, symbol>>; {} when lookup fails
    StubId,     \* struct mmk_stub objects, and their trampolines
    Lazy,       \* Lazy[x]: the PLT code that asks the linker to bind slot x
    Real,       \* Real[x]: the function the linker binds slot x to
    Careful,    \* TRUE: the program destroys a handle only while nothing newer
                \* covers its slots; FALSE: in any order
    NULL

ASSUME ScopeAssumption   == /\ SelfScope \in Scope
                            /\ SlotsOf \in [Scope \X Symbol -> SUBSET Slot]
ASSUME AddressAssumption == /\ NULL \notin StubId
                            /\ \A x \in Slot : /\ Lazy[x] \notin StubId
                                               /\ Real[x] \notin StubId

ASSUME ClientAssumption  == Careful \in BOOLEAN

Orig(x) == {Lazy[x], Real[x]}
Addr    == StubId \union UNION {Orig(x) : x \in Slot}

VARIABLES
    got,    \* the GOT: what each slot holds
    old,    \* old[s]: slot -> oldval saved by stub s (offsets array of s)
    next,   \* struct mmk_stub.next
    held,   \* stubs the client got from mmk_stub_create and has not destroyed
    mocks   \* first stubs (ctx->stubs) of the mock contexts that exist

vars == <<got, old, next, held, mocks>>

Heads  == held \union mocks
Live   == {s \in StubId : DOMAIN old[s] # {}}
Own(x) == {s \in StubId : x \in DOMAIN old[s]}

(* The slots a handle patched: its own and those of a mock's second stub. *)
ListOf(h) == {h} \union ({next[h]} \ {NULL})

(***************************************************************************)
(* Slot writes: all slots of one stub, and the values they replace.        *)
(***************************************************************************)
SavedNothing(g, S) == [x \in S |-> NULL]   \* mutant: oldval left at 0
Saved(g, S)     == [x \in S |-> g[x]]

(* Mutant: the write loop stops one slot early. *)
ArmedButOne(g, S, s) ==
    [x \in Slot |-> IF \E y \in S : x \in S \ {y} /\ \A z \in S : z <= y
                    THEN s ELSE g[x]]

Armed(g, S, s)  == [x \in Slot |-> IF x \in S THEN s ELSE g[x]]

(* Mutant: only the first slot of the array is put back. *)
DisarmedFirst(g, o) ==
    [x \in Slot |-> IF x \in DOMAIN o /\ \A y \in DOMAIN o : x <= y
                    THEN o[x] ELSE g[x]]

Disarmed(g, o)  == [x \in Slot |-> IF x \in DOMAIN o THEN o[x] ELSE g[x]]
NoSlots         == [x \in {} |-> NULL]

(* mmk_stub_create, when the lookup succeeds; otherwise the GOT is not     *)
(* touched and MMK_STUB_INVALID is returned.                               *)
mmk_stub_create(scope, sym, s) ==
    LET S == SlotsOf[scope, sym]
    IN  /\ s \notin Live
        /\ S # {}
        /\ got'  = Armed(got, S, s)
        /\ old'  = [old EXCEPT ![s] = Saved(got, S)]
        /\ next' = [next EXCEPT ![s] = NULL]
        /\ held' = held \union {s}
        /\ UNCHANGED mocks

(* mmk_mock_create_internal for a target in the main executable, and for   *)
(* any other target when the second stub cannot be made: the symbol has no *)
(* slot in the main executable, or memory ran out.  Nobody looks at the    *)
(* result of the second mmk_stub_create: next is NULL then.                *)
CreateMockOne(scope, sym, s) ==
    LET S == SlotsOf[scope, sym]
    IN  /\ s \notin Live
        /\ S # {}
        /\ got'   = Armed(got, S, s)
        /\ old'   = [old EXCEPT ![s] = Saved(got, S)]
        /\ next'  = [next EXCEPT ![s] = NULL]
        /\ mocks' = mocks \union {s}
        /\ UNCHANGED held

(* Mutant: the second stub is made and not linked to the first. *)
CreateMockTwoUnlinked(scope, sym, s, t) ==
    LET S == SlotsOf[scope, sym]
        T == SlotsOf[SelfScope, sym]
        g == Armed(got, S, s)
    IN  /\ scope # SelfScope
        /\ s # t
        /\ s \notin Live
        /\ t \notin Live
        /\ S # {}
        /\ T # {}
        /\ got'   = Armed(g, T, t)
        /\ old'   = [old EXCEPT ![s] = Saved(got, S), ![t] = Saved(g, T)]
        /\ next'  = [next EXCEPT ![s] = NULL, ![t] = NULL]
        /\ mocks' = mocks \union {s}
        /\ UNCHANGED held

(* The other targets: a stub where the target says, then one on the same   *)
(* symbol in the main executable, each saving what it finds in its slots.  *)
CreateMockTwo(scope, sym, s, t) ==
    LET S == SlotsOf[scope, sym]
        T == SlotsOf[SelfScope, sym]
        g == Armed(got, S, s)
    IN  /\ scope # SelfScope
        /\ s # t
        /\ s \notin Live
        /\ t \notin Live
        /\ S # {}
        /\ T # {}
        /\ got'   = Armed(g, T, t)
        /\ old'   = [old EXCEPT ![s] = Saved(got, S), ![t] = Saved(g, T)]
        /\ next'  = [next EXCEPT ![s] = t, ![t] = NULL]
        /\ mocks' = mocks \union {s}
        /\ UNCHANGED held

(* No slot of the handle leads to something newer than the handle. *)
InForce(h) == \A s \in ListOf(h) : \A x \in DOMAIN old[s] : got[x] \in ListOf(h)

(* Mutant: the second stub of a mock is freed, its slots are not put back. *)
DestroyListFirst(h) ==
    /\ Careful => InForce(h)
    /\ got'  = Disarmed(got, old[h])
    /\ old'  = [s \in StubId |-> IF s \in ListOf(h) THEN NoSlots ELSE old[s]]
    /\ next' = [next EXCEPT ![h] = NULL]

(* Destroys a stub list, first stub first: every slot gets the value that  *)
(* stub saved, whatever the slot holds by then.                            *)
DestroyList(h) ==
    /\ Careful => InForce(h)
    /\ IF next[h] = NULL
       THEN /\ got'  = Disarmed(got, old[h])
            /\ old'  = [old EXCEPT ![h] = NoSlots]
       ELSE /\ got'  = Disarmed(Disarmed(got, old[h]), old[next[h]])
            /\ old'  = [old EXCEPT ![h] = NoSlots, ![next[h]] = NoSlots]
    /\ next' = [next EXCEPT ![h] = NULL]

mmk_stub_destroy(h) ==
    /\ h \in held
    /\ DestroyList(h)
    /\ held' = held \ {h}
    /\ UNCHANGED mocks

mmk_mock_destroy_internal(h) ==
    /\ h \in mocks
    /\ DestroyList(h)
    /\ mocks' = mocks \ {h}
    /\ UNCHANGED held

(* mmk_reset.  On the function pointer mmk_mock returned the trampoline of *)
(* the first stub answers: that is mmk_mock_destroy_internal itself.  On   *)
(* the name of a mocked function the call goes through slot x of the main  *)
(* executable, and whichever trampoline is there answers with its stub.    *)
(* Both stubs of a mock have the same context.                             *)
ResetByName(x) ==
    \E h \in mocks : /\ got[x] \in ListOf(h)
                     /\ mmk_mock_destroy_internal(h)

(* The dynamic linker binds a slot at the first call through it. *)
Bind(x) ==
    /\ got[x] = Lazy[x]
    /\ got' = [got EXCEPT ![x] = Real[x]]
    /\ UNCHANGED <<old, next, held, mocks>>

Init ==
    /\ got \in [Slot -> Addr]
    /\ \A x \in Slot : got[x] \in Orig(x)
    /\ old = [s \in StubId |-> NoSlots]
    /\ next = [s \in StubId |-> NULL]
    /\ held = {}
    /\ mocks = {}

Create ==
    \E scope \in Scope, sym \in Symbol, s \in StubId :
        \/ mmk_stub_create(scope, sym, s)
        \/ CreateMockOne(scope, sym, s)
        \/ \E t \in StubId : CreateMockTwo(scope, sym, s, t)

Destroy ==
    \/ \E h \in StubId : mmk_stub_destroy(h)
    \/ \E h \in StubId : mmk_mock_destroy_internal(h)
    \/ \E sym \in Symbol : \E x \in SlotsOf[SelfScope, sym] : ResetByName(x)

Next == Create \/ Destroy \/ \E x \in Slot : Bind(x)

Spec == Init /\ [][Next]_vars

-----------------------------------------------------------------------------
(* Types: each slot holds an address of its own code or a trampoline; what *)
(* a stub saved is of the same kind; handles are stubs.                    *)
TypeOK ==
    /\ got \in [Slot -> Addr]
    /\ old \in [StubId -> UNION {[S -> Addr] : S \in SUBSET Slot}]
    /\ next \in [StubId -> StubId \union {NULL}]
    /\ held \subseteq StubId
    /\ mocks \subseteq StubId

(* A slot never leads to the trampoline of a stub that was destroyed:      *)
(* destroy_trampoline has unmapped that code (stub.c:109).                 *)
NoDangling == \A x \in Slot : got[x] \in StubId => got[x] \in Live

(* Once every stub on a slot is destroyed, the slot leads again to its own *)
(* original code ("restores the original function", mimick.h:101 and 238). *)
UnmockedIsOriginal == \A x \in Slot : Own(x) = {} => got[x] \in Orig(x)

(* As long as some stub covers a slot, calls through that slot are         *)
(* intercepted by one of the stubs that cover it, never by a stub of       *)
(* another symbol and never by the original function.                      *)
CoveredIsIntercepted == \A x \in Slot : Own(x) # {} => got[x] \in Own(x)

(* What answers on slot x is safe to destroy (core.c:64: mmk_reset finds   *)
(* its mock by calling the function): none of the handle's other slots     *)
(* leads to anything newer, as long as every handle that shares a slot     *)
(* with it covers x too.                                                   *)
SlotsHeld(h) == UNION {DOMAIN old[s] : s \in ListOf(h)}
NameFindsNewest ==
    \A x \in Slot, h \in Heads :
        /\ got[x] \in ListOf(h)
        /\ \A k \in Heads : SlotsHeld(k) \intersect SlotsHeld(h) # {} => x \in SlotsHeld(k)
        => InForce(h)

=============================================================================
