------------------------------ MODULE CallLog ------------------------------
(***************************************************************************)
(* The call_data buffer of a mock: mmk_verify_register_call and the walk   *)
(* over the recorded calls it starts with (src/verify.c, src/mock.c).      *)
(*                                                                         *)
(* A record is a size header, the times counter and the rest of the struct *)
(* params of the mock; every record of one mock has the same length.       *)
(* Records are found by adding that length to a raw pointer, so a pointer  *)
(* is a pair of an allocation and an offset in it, and stays what it is    *)
(* when another thread moves the buffer.  They are compared byte by byte:  *)
(* the bytes are those of the arguments, the padding between them, and, in *)
(* a variadic mock, the address of the copies of the variadic arguments,   *)
(* which is a new one in each call.  A step makes at most one access to    *)
(* the shared struct or to a record; a step that uses freed or unwritten   *)
(* memory ends the behaviour.                                              *)
(***************************************************************************)
EXTENDS Naturals, FiniteSets, FiniteSetsExt

CONSTANTS
    Thread,
    Args,      \* what the arguments of a call may be
    Form,      \* what the records of a mock may be like: their length
               \* (sizeof (size_t) + size), what their padding may hold,
               \* and whether the mock is variadic
    Chunk,     \* the buffer grows by this much (4096)
    MaxCalls,  \* bound on the number of calls
    NULL

ASSUME LogAssumption == /\ IsFiniteSet(Args)
                        /\ \A f \in Form : /\ f.len \in Nat \ {0}
                                           /\ f.variadic \in BOOLEAN
                        /\ Chunk \in Nat \ {0}
                        /\ MaxCalls \in Nat
                        /\ NULL \notin Nat \X Nat

VARIABLES
    form,            \* the form of this mock's records
    call_data,       \* the current allocation, 0 for NULL
    call_data_size,
    call_data_top,
    mem,             \* live allocations: capacity and records by offset
    pc, params, ptr, \* per thread: next step, its reg_params, its pointer
    load,            \* per thread: the counter it has read
    made,            \* made[a]: calls with arguments a so far
    status           \* "ok" or "ub"

vars == <<form, call_data, call_data_size, call_data_top, mem, pc, params, ptr, load,
          made, status>>
shared == <<call_data, call_data_size, call_data_top, mem>>

Made     == SumFunctionOnSet(made, Args)
Rec      == form.len
Fresh    == 1 + Max(DOMAIN mem \union {0})
Block(n) == [cap |-> n, recs |-> [o \in {} |-> NULL]]
With(f, k, v) == [x \in DOMAIN f \union {k} |-> IF x = k THEN v ELSE f[x]]
Without(f, k) == [x \in DOMAIN f \ {k} |-> f[x]]

Goto(t, l) == pc' = [pc EXCEPT ![t] = l]
Fails == status' = "ub" /\ UNCHANGED <<shared, pc, params, ptr, load, made>>

(* What the bytes of reg_params behind the times counter may be: padding   *)
(* is whatever the stack held, and mmk_va_args__ points to memory that the *)
(* serializer has just allocated and nothing ever frees.                   *)
RegParams(a) == [args : {a}, padding : form.padding,
                 pack : IF form.variadic THEN {Made + 1} ELSE {0}]

(* A stub body of the mock fills reg_params in and calls                   *)
(* mmk_verify_register_call.                                               *)
Enter(t, a) ==
    /\ pc[t] = "idle"
    /\ Made < MaxCalls
    /\ Goto(t, "init")
    /\ \E raw \in RegParams(a) : params' = [params EXCEPT ![t] = raw]
    /\ made' = [made EXCEPT ![a] = @ + 1]
    /\ UNCHANGED <<form, shared, ptr, load, status>>

(* The buffer is allocated at the first call. *)
Allocate(t) ==
    /\ pc[t] = "init"
    /\ IF call_data = 0
       THEN /\ call_data' = Fresh
            /\ mem' = With(mem, Fresh, Block(Chunk))
            /\ call_data_size' = Chunk
       ELSE UNCHANGED <<call_data, mem, call_data_size>>
    /\ Goto(t, "begin")
    /\ UNCHANGED <<call_data_top, params, ptr, load, made, status>>

mmk_mock_params_begin ==
    IF call_data = 0 \/ call_data_top = 0 THEN NULL ELSE <<call_data, 0>>

(* Mutants: the pointer stays where it was put to read the size; the walk  *)
(* ends one record early; it starts over after every record.               *)
mmk_mock_params_next_header(p) == {<<p[1], p[2] - 1>>}
mmk_mock_params_next_short(p) ==
    LET q == <<p[1], p[2] + Rec>>
    IN  IF q[2] + Rec >= call_data_top THEN {NULL} ELSE {q}
mmk_mock_params_next_again(p) == {<<p[1], 0>>}

(* A pointer into another allocation than the current one compares with    *)
(* the end of the buffer in either way.                                    *)
mmk_mock_params_next(p) ==
    LET q == <<p[1], p[2] + Rec>>
    IN  IF p[1] # call_data THEN {NULL, q}
        ELSE IF q[2] >= call_data_top THEN {NULL} ELSE {q}

Begin(t) ==
    /\ pc[t] = "begin"
    /\ ptr' = [ptr EXCEPT ![t] = mmk_mock_params_begin]
    /\ Goto(t, "find")
    /\ UNCHANGED <<shared, params, load, made, status>>

Readable(p) == p[1] \in DOMAIN mem /\ p[2] \in DOMAIN mem[p[1]].recs

(* One round of find_and_inc_call_matching: a record with these bytes has  *)
(* its counter read, any other record is stepped over.                     *)
Find(t) ==
    /\ pc[t] = "find"
    /\ LET p == ptr[t]
       IN  IF p = NULL
           THEN /\ Goto(t, "grow")
                /\ UNCHANGED <<shared, params, ptr, load, made, status>>
           ELSE IF ~Readable(p)
           THEN Fails
           ELSE IF mem[p[1]].recs[p[2]].params = params[t]
           THEN /\ load' = [load EXCEPT ![t] = mem[p[1]].recs[p[2]].times]
                /\ Goto(t, "inc")
                /\ UNCHANGED <<shared, params, ptr, made, status>>
           ELSE /\ \E q \in mmk_mock_params_next(p) : ptr' = [ptr EXCEPT ![t] = q]
                /\ UNCHANGED <<shared, pc, params, load, made, status>>

(* ++*times, the store. *)
Increment(t) ==
    /\ pc[t] = "inc"
    /\ LET p == ptr[t]
       IN  IF ~Readable(p)
           THEN Fails
           ELSE /\ mem' = [mem EXCEPT ![p[1]].recs[p[2]].times = load[t] + 1]
                /\ Goto(t, "idle")
                /\ UNCHANGED <<call_data, call_data_size, call_data_top, params,
                               ptr, load, made, status>>

(* Room for one more record, with a byte to spare: the size goes up by     *)
(* chunks until it is enough, and the buffer moves.                        *)
FullTop(size) == call_data_top >= size     \* mutant: without the new record
Full(size) == call_data_top + Rec >= size

(* Mutant: grows by one chunk, `if' for `while'. *)
GrowOnce(t) ==
    /\ pc[t] = "grow"
    /\ IF Full(call_data_size)
       THEN IF call_data \notin DOMAIN mem
            THEN Fails
            ELSE /\ call_data_size' = call_data_size + Chunk
                 /\ call_data' = Fresh
                 /\ mem' = With(Without(mem, call_data), Fresh,
                                [cap |-> call_data_size + Chunk,
                                 recs |-> mem[call_data].recs])
                 /\ Goto(t, "copy")
                 /\ UNCHANGED <<call_data_top, params, ptr, load, made, status>>
       ELSE /\ Goto(t, "copy")
            /\ UNCHANGED <<shared, params, ptr, load, made, status>>

Grow(t) ==
    /\ pc[t] = "grow"
    /\ IF Full(call_data_size)
       THEN LET size == call_data_size
                        + Chunk * ((call_data_top + Rec - call_data_size) \div Chunk + 1)
            IN  IF call_data \notin DOMAIN mem
                THEN Fails
                ELSE /\ call_data_size' = size
                     /\ call_data' = Fresh
                     /\ mem' = With(Without(mem, call_data), Fresh,
                                    [cap |-> size, recs |-> mem[call_data].recs])
                     /\ Goto(t, "copy")
                     /\ UNCHANGED <<call_data_top, params, ptr, load, made, status>>
       ELSE /\ Goto(t, "copy")
            /\ UNCHANGED <<shared, params, ptr, load, made, status>>

(* Mutant: times is left as the stub body filled it in, 0. *)
CopyZero(t) ==
    /\ pc[t] = "copy"
    /\ LET b == call_data
       IN  IF b \notin DOMAIN mem \/ call_data_top + Rec > mem[b].cap
           THEN Fails
           ELSE /\ mem' = [mem EXCEPT ![b].recs =
                             With(@, call_data_top, [params |-> params[t], times |-> 0])]
                /\ Goto(t, "bump")
                /\ UNCHANGED <<call_data, call_data_size, call_data_top, params,
                               ptr, load, made, status>>

(* The header, the parameters and times = 1 are written at the top. *)
Copy(t) ==
    /\ pc[t] = "copy"
    /\ LET b == call_data
       IN  IF b \notin DOMAIN mem \/ call_data_top + Rec > mem[b].cap
           THEN Fails
           ELSE /\ mem' = [mem EXCEPT ![b].recs =
                             With(@, call_data_top, [params |-> params[t], times |-> 1])]
                /\ Goto(t, "bump")
                /\ UNCHANGED <<call_data, call_data_size, call_data_top, params,
                               ptr, load, made, status>>

Bump(t) ==
    /\ pc[t] = "bump"
    /\ call_data_top' = call_data_top + Rec
    /\ Goto(t, "idle")
    /\ UNCHANGED <<call_data, call_data_size, mem, params, ptr, load, made, status>>

Init ==
    /\ form \in Form
    /\ call_data = 0 /\ call_data_size = 0 /\ call_data_top = 0
    /\ mem = [b \in {} |-> Block(0)]
    /\ pc = [t \in Thread |-> "idle"]
    /\ params = [t \in Thread |-> NULL]
    /\ ptr = [t \in Thread |-> NULL]
    /\ load = [t \in Thread |-> 0]
    /\ made = [a \in Args |-> 0]
    /\ status = "ok"

Work(t) ==
    /\ \/ Allocate(t) \/ Begin(t) \/ Find(t) \/ Increment(t)
       \/ Grow(t) \/ Copy(t) \/ Bump(t)
    /\ UNCHANGED form

Next == /\ status = "ok"
        /\ \E t \in Thread : Work(t) \/ \E a \in Args : Enter(t, a)

(* A call that has begun goes on: it is straight-line code of its thread.  *)
Fairness == \A t \in Thread : WF_vars(status = "ok" /\ Work(t))

Spec     == Init /\ [][Next]_vars
FairSpec == Spec /\ Fairness

-----------------------------------------------------------------------------
Params  == [args : Args, padding : form.padding,
            pack : IF form.variadic THEN Nat ELSE {0}]
Records == IF call_data \in DOMAIN mem THEN mem[call_data].recs ELSE Block(0).recs

(* Types: sizes are numbers, pointers lead into the buffer they came from. *)
TypeOK ==
    /\ call_data \in Nat /\ call_data_size \in Nat /\ call_data_top \in Nat
    /\ \A b \in DOMAIN mem : mem[b].cap \in Nat /\ DOMAIN mem[b].recs \subseteq Nat
    /\ pc \in [Thread -> {"idle", "init", "begin", "find", "inc", "grow", "copy", "bump"}]
    /\ params \in [Thread -> Params \union {NULL}]
    /\ \A t \in Thread : ptr[t] # NULL => ptr[t] \in (1..call_data) \X Nat
    /\ load \in [Thread -> Nat] /\ made \in [Args -> Nat]
    /\ status \in {"ok", "ub"}

(* The records below the top are contiguous and inside the allocation, and *)
(* the walk uses none that was freed or never written (verify.c:86-101).   *)
Layout ==
    /\ status = "ok"
    /\ \A o \in 0..call_data_top : o < call_data_top /\ o % Rec = 0 => o \in DOMAIN Records
    /\ call_data # 0 => mem[call_data].cap = call_data_size
    /\ call_data # 0 => call_data_top <= call_data_size

(* Calls with the same arguments share one record, so that one comparison  *)
(* finds every call made with them (verify.c:55-74), where the arguments   *)
(* are all that memcmp sees: no padding, no variadic arguments.            *)
Plain == ~form.variadic /\ \A x, y \in form.padding : x = y
OneRecordEach ==
    Plain => \A o, q \in DOMAIN Records :
                Records[o].params.args = Records[q].params.args => o = q

(* When no call is under way, the counters of the records below the top    *)
(* add up to the calls made, for all parameters (`.times', mimick.h:217).  *)
Counted(a) == SumFunctionOnSet([o \in DOMAIN Records |-> Records[o].times],
                {o \in DOMAIN Records : o < call_data_top /\ Records[o].params.args = a})
ExactCounts ==
    (\A t \in Thread : pc[t] = "idle") => \A a \in Args : Counted(a) = made[a]

(* Every call of the mock comes back from the bookkeeping: the walk ends   *)
(* and the buffer becomes large enough, whatever the sizes.                *)
CallReturns == \A t \in Thread : pc[t] # "idle" ~> pc[t] = "idle"
=============================================================================
