--------------------------- MODULE CallLogProofs ---------------------------
(***************************************************************************)
(* The buffer of recorded calls, for any length of a record, any chunk and *)
(* any number of calls: its types for any number of threads, and its       *)
(* layout and its counts for one.                                          *)
(***************************************************************************)
EXTENDS CallLog, SetLemmas

(* What an allocation holds. *)
Record == [params : Params, times : Nat]
IsBlock(b) ==
    /\ b = [cap |-> b.cap, recs |-> b.recs]
    /\ b.cap \in Nat /\ DOMAIN b.recs \subseteq Nat
    /\ \A o \in DOMAIN b.recs : b.recs[o] \in Record

Memory ==
    /\ call_data \in Nat /\ call_data_size \in Nat /\ call_data_top \in Nat
    /\ DOMAIN mem = {call_data} \ {0}
    /\ call_data # 0 => IsBlock(mem[call_data])

Threads ==
    /\ pc \in [Thread -> {"idle", "init", "begin", "find", "inc", "grow", "copy", "bump"}]
    /\ params \in [Thread -> Params \union {NULL}]
    /\ ptr \in [Thread -> Nat \X Nat \union {NULL}]
    /\ load \in [Thread -> Nat]
    /\ \A t \in Thread : /\ ptr[t] # NULL => ptr[t] \in (1..call_data) \X Nat
                         /\ pc[t] # "idle" => params[t] \in Params
                         /\ pc[t] = "inc" => ptr[t] # NULL

Types ==
    /\ form \in Form /\ Rec \in Nat \ {0} /\ Memory /\ Threads
    /\ made \in [Args -> Nat] /\ status \in {"ok", "ub"}

-----------------------------------------------------------------------------
(* Multiples. *)
LEMMA Multiple ==
    ASSUME NEW r \in Nat \ {0}, NEW x \in Nat, x % r = 0
    PROVE  x \div r \in Nat /\ x = (x \div r) * r
OBVIOUS

LEMMA ModMultiple == ASSUME NEW r \in Nat \ {0}, NEW k \in Nat PROVE (k * r) % r = 0
OBVIOUS

LEMMA NextMultiple ==
    ASSUME NEW r \in Nat \ {0}, NEW x \in Nat, x % r = 0
    PROVE  (x + r) % r = 0
<1> DEFINE k == x \div r
<1>1. x = k * r /\ k \in Nat
  BY Multiple
<1> HIDE DEF k
<1>2. x + r = (k + 1) * r /\ k + 1 \in Nat
  BY <1>1
<1> QED BY <1>2, ModMultiple

LEMMA MultiplesApart ==
    ASSUME NEW r \in Nat \ {0}, NEW x \in Nat, NEW y \in Nat, x % r = 0, y % r = 0, x < y
    PROVE  x + r <= y
<1> DEFINE a == x \div r
           b == y \div r
<1>1. a \in Nat /\ b \in Nat /\ x = a * r /\ y = b * r
  BY Multiple
<1> HIDE DEF a, b
<1>2. a < b
  BY <1>1
<1>3. b = a + 1 + (b - a - 1) /\ b - a - 1 \in Nat
  BY <1>1, <1>2
<1>4. (a + 1 + (b - a - 1)) * r = a * r + r + (b - a - 1) * r
  BY <1>1, <1>3
<1>5. (b - a - 1) * r >= 0
  BY <1>3
<1> QED BY <1>1, <1>3, <1>4, <1>5

(* The chunks that make room for x more are more than x. *)
LEMMA EnoughChunks ==
    ASSUME NEW c \in Nat \ {0}, NEW x \in Nat
    PROVE  c * (x \div c + 1) \in Nat /\ c * (x \div c + 1) > x
OBVIOUS

LEMMA FreshIs ==
    ASSUME Memory
    PROVE  Fresh = call_data + 1
<1>1. DOMAIN mem \union {0} = {call_data, 0}
  BY DEF Memory
<1>2. Max({call_data, 0}) = call_data
  <2>1. \A x \in {call_data, 0} : (\A y \in {call_data, 0} : x >= y) <=> x = call_data
    BY DEF Memory
  <2> QED BY <2>1 DEF Max
<1> QED BY <1>1, <1>2 DEF Fresh, Memory

(* The allocations of a buffer that has been moved or written. *)
LEMMA Filled ==
    ASSUME NEW recs, NEW o, NEW r
    PROVE  /\ DOMAIN With(recs, o, r) = DOMAIN recs \union {o}
           /\ With(recs, o, r)[o] = r
           /\ \A q \in DOMAIN recs : q # o => With(recs, o, r)[q] = recs[q]
BY DEF With

LEMMA FilledBlock ==
    ASSUME NEW b, IsBlock(b), NEW o \in Nat, NEW r \in Record
    PROVE  /\ [b EXCEPT !.recs = With(@, o, r)] = [cap |-> b.cap, recs |-> With(b.recs, o, r)]
           /\ IsBlock([cap |-> b.cap, recs |-> With(b.recs, o, r)])
<1> DEFINE f == With(b.recs, o, r)
<1>1. /\ DOMAIN f = DOMAIN b.recs \union {o} /\ f[o] = r
      /\ \A q \in DOMAIN b.recs : q # o => f[q] = b.recs[q]
  BY DEF With
<1> HIDE DEF f
<1>2. \A q \in DOMAIN f : f[q] \in Record
  BY <1>1 DEF IsBlock
<1>3. [b EXCEPT !.recs = f] = [cap |-> b.cap, recs |-> f]
  BY DEF IsBlock
<1>4. DOMAIN f \subseteq Nat /\ b.cap \in Nat
  BY <1>1 DEF IsBlock
<1>5. IsBlock([cap |-> b.cap, recs |-> f])
  BY <1>2, <1>4 DEF IsBlock
<1> QED BY <1>3, <1>5 DEF f

LEMMA Counter ==
    ASSUME NEW b, IsBlock(b), NEW o \in DOMAIN b.recs, NEW n \in Nat
    PROVE  /\ [b EXCEPT !.recs[o].times = n] =
                  [cap |-> b.cap, recs |-> [b.recs EXCEPT ![o] = [params |-> b.recs[o].params,
                                                                  times |-> n]]]
           /\ IsBlock([cap |-> b.cap,
                       recs |-> [b.recs EXCEPT ![o] = [params |-> b.recs[o].params, times |-> n]]])
<1> DEFINE r == [params |-> b.recs[o].params, times |-> n]
           f == [b.recs EXCEPT ![o] = r]
<1>1. b.recs[o] \in Record
  BY DEF IsBlock
<1>2. [b.recs[o] EXCEPT !.times = n] = r /\ r \in Record
  BY <1>1 DEF Record
<1>3. [b EXCEPT !.recs[o].times = n] = [b EXCEPT !.recs = [b.recs EXCEPT ![o] = r]]
  BY <1>2
<1> HIDE DEF r
<1>4. [b EXCEPT !.recs = f] = [cap |-> b.cap, recs |-> f]
  <2> HIDE DEF f
  <2> QED BY DEF IsBlock
<1>5. DOMAIN f = DOMAIN b.recs /\ \A q \in DOMAIN f : f[q] \in Record
  BY <1>2 DEF IsBlock
<1> HIDE DEF f
<1>6. IsBlock([cap |-> b.cap, recs |-> f])
  BY <1>5 DEF IsBlock
<1> QED BY <1>3, <1>4, <1>6 DEF f, r

-----------------------------------------------------------------------------
(* Types, for any number of threads. *)
LEMMA SameForm ==
    ASSUME form' = form
    PROVE  Rec' = Rec /\ Params' = Params /\ Record' = Record
BY DEF Rec, Params, Record

(* A call fills in a struct params of its mock, with its own arguments.     *)
LEMMA Filling ==
    ASSUME Types, NEW a \in Args, NEW raw \in RegParams(a)
    PROVE  raw \in Params /\ raw.args = a
<1>1. Made \in Nat
  <2>1. \A x \in Args : made[x] \in Int /\ made[x] >= 0
    BY DEF Types
  <2>2. Made \in Int /\ Made >= 0
    BY <2>1, SumInt, LogAssumption DEF Made
  <2> QED BY <2>2
<1> HIDE DEF Made
<1>2. Made + 1 \in Nat
  BY <1>1
<1> QED BY <1>2 DEF RegParams, Params

LEMMA StepTypes ==
    ASSUME Types, NEW t \in Thread, Work(t) \/ \E a \in Args : Enter(t, a)
    PROVE  Types'
<1>0. form' = form /\ Rec' = Rec /\ Params' = Params /\ Record' = Record
  BY SameForm DEF Work, Enter
<1>1. CASE \E a \in Args : Enter(t, a)
  <2>1. PICK a \in Args : Enter(t, a)
    BY <1>1
  <2>2. PICK raw \in RegParams(a) : params' = [params EXCEPT ![t] = raw]
    BY <2>1 DEF Enter
  <2>3. raw \in Params
    BY <2>2, Filling
  <2>4. Memory'
    BY <1>0, <2>1 DEF Types, Memory, IsBlock, Enter, shared
  <2>5. Threads'
    BY <1>0, <2>1, <2>2, <2>3 DEF Types, Threads, Enter, Goto, shared
  <2> QED BY <1>0, <2>1, <2>4, <2>5 DEF Types, Enter
<1>2. CASE Allocate(t) /\ UNCHANGED form
  <2>1. CASE call_data = 0
    <3>1. call_data' = 1 /\ mem' = With(mem, 1, Block(Chunk)) /\ call_data_size' = Chunk
      BY <1>0, <1>2, <2>1, FreshIs DEF Allocate, Types
    <3>2. DOMAIN mem' = {1} /\ mem'[1] = Block(Chunk)
      BY <1>0, <2>1, <3>1 DEF With, Types, Memory
    <3>3. IsBlock(Block(Chunk)) /\ Chunk \in Nat
      BY LogAssumption DEF IsBlock, Block
    <3>4. Memory'
      BY <1>0, <1>2, <3>1, <3>2, <3>3 DEF Allocate, Types, Memory, IsBlock
    <3> QED BY <1>0, <1>2, <2>1, <3>1, <3>4 DEF Allocate, Goto, Types, Threads, Memory
  <2>2. CASE call_data # 0
    BY <1>0, <1>2, <2>2 DEF Allocate, Goto, Types, Memory, Threads, IsBlock
  <2> QED BY <2>1, <2>2
<1>3. CASE Begin(t) /\ UNCHANGED form
  <2>1. \/ mmk_mock_params_begin = NULL
        \/ mmk_mock_params_begin \in (1..call_data) \X Nat
    BY DEF mmk_mock_params_begin, Types, Memory
  <2>2. (1..call_data) \X Nat \subseteq Nat \X Nat
    BY DEF Types, Memory
  <2> HIDE DEF mmk_mock_params_begin
  <2> QED BY <1>0, <1>3, <2>1, <2>2 DEF Begin, Goto, shared, Types, Memory, Threads, IsBlock
<1>4. CASE Find(t) /\ UNCHANGED form
  <2>1. CASE ptr[t] = NULL \/ ~Readable(ptr[t])
    BY <1>0, <1>4, <2>1 DEF Find, Fails, Goto, shared, Types, Memory, Threads, IsBlock
  <2>2. CASE ptr[t] # NULL /\ Readable(ptr[t])
    <3> DEFINE p == ptr[t]
    <3>1. /\ p \in (1..call_data) \X Nat /\ p[1] = call_data /\ p[2] \in Nat
          /\ IsBlock(mem[p[1]]) /\ p[2] \in DOMAIN mem[p[1]].recs
      BY <1>0, <2>2 DEF Types, Memory, Threads, Readable
    <3>2. mem[p[1]].recs[p[2]] \in Record
      BY <3>1 DEF IsBlock
    <3>3. mem[p[1]].recs[p[2]].times \in Nat
      BY <3>2 DEF Record
    <3>4. \A q \in mmk_mock_params_next(p) : q # NULL => q \in (1..call_data) \X Nat /\ q \in Nat \X Nat
      BY <1>0, <3>1 DEF mmk_mock_params_next, Types, Memory
    <3> HIDE DEF p
    <3>5. CASE mem[p[1]].recs[p[2]].params = params[t]
      <4>1. /\ load' = [load EXCEPT ![t] = mem[p[1]].recs[p[2]].times]
            /\ pc' = [pc EXCEPT ![t] = "inc"]
            /\ UNCHANGED <<call_data, call_data_size, call_data_top, mem, params, ptr, made, status, form>>
        BY <1>4, <2>2, <3>5 DEF Find, p, Goto, shared
      <4>2. load' \in [Thread -> Nat] /\ pc[t] = "find"
        BY <1>0, <1>4, <3>3, <4>1 DEF Find, Types, Threads
      <4> QED BY <1>0, <2>2, <4>1, <4>2 DEF Types, Memory, Threads, IsBlock
    <3>6. CASE mem[p[1]].recs[p[2]].params # params[t]
      <4>1. /\ \E q \in mmk_mock_params_next(p) : ptr' = [ptr EXCEPT ![t] = q]
            /\ UNCHANGED <<call_data, call_data_size, call_data_top, mem, pc, params, load, made, status, form>>
            /\ pc[t] = "find"
        BY <1>4, <2>2, <3>6 DEF Find, p, shared
      <4>2. PICK q \in mmk_mock_params_next(p) : ptr' = [ptr EXCEPT ![t] = q]
        BY <4>1
      <4> QED BY <1>0, <3>4, <4>1, <4>2 DEF Types, Memory, Threads, IsBlock
    <3> QED BY <3>5, <3>6
  <2> QED BY <2>1, <2>2
<1>5. CASE Increment(t) /\ UNCHANGED form
  <2>1. CASE ~Readable(ptr[t])
    BY <1>0, <1>5, <2>1 DEF Increment, Fails, shared, Types, Memory, Threads, IsBlock
  <2>2. CASE Readable(ptr[t])
    <3> DEFINE o == ptr[t][2]
               b == mem[call_data]
               n == load[t] + 1
               c == [b EXCEPT !.recs[o].times = n]
    <3>1. /\ pc[t] = "inc" /\ ptr[t] \in (1..call_data) \X Nat
          /\ ptr[t][1] = call_data /\ call_data # 0
          /\ IsBlock(b) /\ o \in DOMAIN b.recs /\ n \in Nat
      BY <1>0, <1>5, <2>2 DEF Increment, Types, Memory, Threads, Readable
    <3>2. mem' = [mem EXCEPT ![call_data] = c]
      BY <1>5, <2>2, <3>1 DEF Increment
    <3> HIDE DEF o, b, n
    <3>3. IsBlock(c)
      <4> DEFINE f == [b.recs EXCEPT ![o] = [params |-> b.recs[o].params, times |-> n]]
      <4>1. c = [cap |-> b.cap, recs |-> f] /\ IsBlock([cap |-> b.cap, recs |-> f])
        BY <3>1, Counter
      <4> QED BY <4>1
    <3> HIDE DEF c
    <3>4. /\ pc' = [pc EXCEPT ![t] = "idle"]
          /\ UNCHANGED <<call_data, call_data_size, call_data_top, params, ptr, load, made, status, form>>
      BY <1>5, <2>2 DEF Increment, Goto
    <3>5. DOMAIN mem' = DOMAIN mem /\ mem'[call_data] = c
      BY <1>0, <3>1, <3>2 DEF Types, Memory
    <3>6. Memory'
      BY <1>0, <3>3, <3>4, <3>5 DEF Types, Memory, IsBlock
    <3> QED BY <1>0, <3>4, <3>6 DEF Types, Threads
  <2> QED BY <2>1, <2>2
<1>6. CASE Grow(t) /\ UNCHANGED form
  <2> DEFINE size == call_data_size
                     + Chunk * ((call_data_top + Rec - call_data_size) \div Chunk + 1)
  <2>1. CASE ~Full(call_data_size)
    BY <1>0, <1>6, <2>1 DEF Grow, Goto, shared, Types, Memory, Threads, IsBlock
  <2>2. CASE Full(call_data_size) /\ call_data \notin DOMAIN mem
    BY <1>0, <1>6, <2>2 DEF Grow, Fails, shared, Types, Memory, Threads
  <2>3. CASE Full(call_data_size) /\ call_data \in DOMAIN mem
    <3>1. /\ call_data_size' = size /\ call_data' = call_data + 1
          /\ mem' = With(Without(mem, call_data), call_data + 1,
                         [cap |-> size, recs |-> mem[call_data].recs])
          /\ pc' = [pc EXCEPT ![t] = "copy"]
          /\ UNCHANGED <<call_data_top, params, ptr, load, made, status, form>>
      BY <1>0, <1>6, <2>3, FreshIs DEF Grow, Goto, Types
    <3>2. size \in Nat
      <4> DEFINE x == call_data_top + Rec - call_data_size
      <4>1. x \in Nat /\ call_data_size \in Nat
        BY <1>0, <2>3 DEF Full, Types, Memory
      <4> HIDE DEF x
      <4>2. Chunk * (x \div Chunk + 1) \in Nat
        BY <4>1, EnoughChunks, LogAssumption
      <4> QED BY <4>1, <4>2 DEF x
    <3> HIDE DEF size
    <3>3. /\ DOMAIN mem' = {call_data + 1}
          /\ mem'[call_data + 1] = [cap |-> size, recs |-> mem[call_data].recs]
      BY <1>0, <2>3, <3>1 DEF With, Without, Types, Memory
    <3>4. IsBlock([cap |-> size, recs |-> mem[call_data].recs])
      BY <1>0, <2>3, <3>2 DEF Types, Memory, IsBlock
    <3>5. Memory'
      <4>1. call_data' \in Nat /\ call_data' # 0 /\ DOMAIN mem' = {call_data'} \ {0}
        <5>1. call_data \in Nat /\ call_data' = call_data + 1 /\ DOMAIN mem' = {call_data'}
          BY <1>0, <3>1, <3>3 DEF Types, Memory
        <5> QED BY <5>1
      <4>2. IsBlock(mem'[call_data'])
        BY <3>1, <3>3, <3>4
      <4> QED BY <1>0, <3>1, <3>2, <4>1, <4>2 DEF Types, Memory, IsBlock
    <3>6. \A u \in Thread : ptr[u] # NULL => ptr'[u] \in (1..call_data') \X Nat
      BY <1>0, <3>1 DEF Types, Memory, Threads
    <3> QED BY <1>0, <1>6, <3>1, <3>5, <3>6 DEF Types, Threads, Grow
  <2> QED BY <2>1, <2>2, <2>3
<1>7. CASE Copy(t) /\ UNCHANGED form
  <2>1. CASE call_data \notin DOMAIN mem \/ call_data_top + Rec > mem[call_data].cap
    BY <1>0, <1>7, <2>1 DEF Copy, Fails, shared, Types, Memory, Threads, IsBlock
  <2>2. CASE ~(call_data \notin DOMAIN mem \/ call_data_top + Rec > mem[call_data].cap)
    <3> DEFINE r == [params |-> params[t], times |-> 1]
               b == mem[call_data]
               c == [b EXCEPT !.recs = With(@, call_data_top, r)]
    <3>1. /\ mem' = [mem EXCEPT ![call_data] = c] /\ pc' = [pc EXCEPT ![t] = "bump"]
          /\ UNCHANGED <<call_data, call_data_size, call_data_top, params, ptr, load, made, status, form>>
      BY <1>7, <2>2 DEF Copy, Goto
    <3>2. IsBlock(b) /\ r \in Record /\ call_data_top \in Nat
      BY <1>0, <1>7, <2>2 DEF Copy, Types, Memory, Threads, Record
    <3> HIDE DEF r, b
    <3>3. IsBlock(c)
      <4>1. /\ c = [cap |-> b.cap, recs |-> With(b.recs, call_data_top, r)]
            /\ IsBlock([cap |-> b.cap, recs |-> With(b.recs, call_data_top, r)])
        BY <3>2, FilledBlock
      <4> QED BY <4>1
    <3> HIDE DEF c
    <3>4. DOMAIN mem' = DOMAIN mem /\ mem'[call_data] = c
      BY <1>0, <2>2, <3>1 DEF Types, Memory
    <3>5. Memory'
      BY <1>0, <3>1, <3>3, <3>4 DEF Types, Memory, IsBlock
    <3> QED BY <1>0, <1>7, <3>1, <3>5 DEF Types, Threads, Copy
  <2> QED BY <2>1, <2>2
<1>8. CASE Bump(t) /\ UNCHANGED form
  BY <1>0, <1>8 DEF Bump, Goto, Types, Memory, Threads, IsBlock
<1> QED BY <1>1, <1>2, <1>3, <1>4, <1>5, <1>6, <1>7, <1>8 DEF Work

LEMMA TypesInvariance == Spec => []Types
<1>1. Init => Types
  BY LogAssumption DEF Init, Types, Memory, Threads, Rec
<1>2. Types /\ [Next]_vars => Types'
  <2>1. ASSUME Types, UNCHANGED vars PROVE Types'
    BY <2>1, SameForm DEF vars, Types, Memory, Threads, IsBlock
  <2> QED BY <2>1, StepTypes DEF Next
<1> QED BY <1>1, <1>2, PTL DEF Spec

(* Sizes are numbers, and every pointer of every thread, however many are  *)
(* at it, leads into an allocation that was once the buffer.               *)
THEOREM TypeSafe == Spec => []TypeOK
<1>1. Types => TypeOK
  BY DEF Types, Memory, Threads, TypeOK, IsBlock
<1> QED BY <1>1, TypesInvariance, PTL

-----------------------------------------------------------------------------
(* What a thread knows that is alone with the log: where the records are,  *)
(* what the walk has passed over, and what the counters say.               *)
OneThread == \E t : Thread = {t}

End(t) == IF pc[t] = "bump" THEN call_data_top + Rec ELSE call_data_top

Placed(t) ==
    /\ status = "ok"
    /\ IF call_data = 0 THEN call_data_top = 0 ELSE mem[call_data].cap = call_data_size
    /\ pc[t] \notin {"idle", "init"} => call_data # 0
    /\ call_data_top % Rec = 0 /\ End(t) <= call_data_size
    /\ pc[t] = "copy" => call_data_top + Rec <= call_data_size
    /\ DOMAIN Records = {o \in 0..End(t) : o < End(t) /\ o % Rec = 0}

Walked(t) ==
    /\ pc[t] \in {"grow", "copy"} \/ (pc[t] = "find" /\ ptr[t] = NULL) =>
          \A o \in DOMAIN Records : Records[o].params # params[t]
    /\ pc[t] \in {"find", "inc"} /\ ptr[t] # NULL =>
          /\ ptr[t][1] = call_data /\ ptr[t][2] \in DOMAIN Records
          /\ \A o \in DOMAIN Records : o < ptr[t][2] => Records[o].params # params[t]
    /\ pc[t] = "inc" => /\ Records[ptr[t][2]].params = params[t]
                        /\ Records[ptr[t][2]].times = load[t]

(* The counters of the records with arguments a, and the call under way.   *)
Times(recs) == [o \in DOMAIN recs |-> recs[o].times]
Having(recs, a) == {o \in DOMAIN recs : recs[o].params.args = a}
Total(recs, a) == SumFunctionOnSet(Times(recs), Having(recs, a))
Pending(t, a) == IF pc[t] \notin {"idle", "bump"} /\ params[t].args = a THEN 1 ELSE 0
Tallied(t) == \A a \in Args : Total(Records, a) + Pending(t, a) = made[a]

Distinct ==
    \A o, q \in DOMAIN Records : Records[o].params = Records[q].params => o = q

LogInv == \A t \in Thread : Placed(t) /\ Walked(t) /\ Tallied(t) /\ Distinct

Log(t) == Placed(t) /\ Walked(t) /\ Tallied(t) /\ Distinct

LEMMA RecordsAre ==
    ASSUME Types, Types'
    PROVE  /\ call_data = 0 => DOMAIN Records = {}
           /\ call_data # 0 => Records = mem[call_data].recs /\ call_data \in DOMAIN mem
           /\ call_data' = 0 => DOMAIN Records' = {}
           /\ call_data' # 0 => Records' = mem'[call_data'].recs /\ call_data' \in DOMAIN mem'
BY DEF Types, Memory, Records, Block

(* Sums of counters: they are numbers, and one record changes them by what *)
(* its counter gains.                                                      *)
LEMMA TotalIsNat ==
    ASSUME NEW recs, IsFiniteSet(DOMAIN recs), \A o \in DOMAIN recs : recs[o].times \in Nat,
           NEW a
    PROVE  Total(recs, a) \in Nat
<1> DEFINE f == Times(recs)
           S == Having(recs, a)
<1>1. IsFiniteSet(S) /\ \A o \in S : f[o] \in Int /\ f[o] >= 0
  BY FS_Subset DEF Times, Having
<1> HIDE DEF f, S
<1>2. SumFunctionOnSet(f, S) \in Int /\ SumFunctionOnSet(f, S) >= 0
  BY <1>1, SumInt
<1>3. SumFunctionOnSet(f, S) \in Nat
  BY <1>2
<1> QED BY <1>3 DEF Total, f, S

LEMMA TotalCounted ==
    ASSUME NEW recs, IsFiniteSet(DOMAIN recs), \A o \in DOMAIN recs : recs[o].times \in Nat,
           NEW a, NEW o \in DOMAIN recs, NEW n \in Nat
    PROVE  Total([recs EXCEPT ![o] = [params |-> recs[o].params, times |-> n]], a) =
               Total(recs, a) + (IF recs[o].params.args = a THEN n - recs[o].times ELSE 0)
<1> DEFINE new == [recs EXCEPT ![o] = [params |-> recs[o].params, times |-> n]]
           f == Times(recs)
           g == Times(new)
           S == Having(recs, a)
<1>1. /\ DOMAIN new = DOMAIN recs /\ new[o] = [params |-> recs[o].params, times |-> n]
      /\ \A q \in DOMAIN recs : q # o => new[q] = recs[q]
  OBVIOUS
<1> HIDE DEF new
<1>2. Having(new, a) = S
  <2>1. \A q \in DOMAIN recs : new[q].params = recs[q].params
    BY <1>1
  <2> QED BY <1>1, <2>1 DEF Having
<1>3. /\ IsFiniteSet(S) /\ S \subseteq DOMAIN recs
      /\ \A q \in DOMAIN recs : f[q] = recs[q].times /\ g[q] = new[q].times
  BY <1>1, FS_Subset DEF Times, Having
<1>4. \A q \in DOMAIN recs : f[q] \in Int /\ g[q] \in Int /\ (q # o => g[q] = f[q])
  BY <1>1, <1>3
<1>5. f[o] = recs[o].times /\ g[o] = n
  BY <1>1, <1>3
<1>6. o \in S <=> recs[o].params.args = a
  BY DEF Having
<1>7. Total(recs, a) = SumFunctionOnSet(f, S) /\ Total(new, a) = SumFunctionOnSet(g, S)
  BY <1>2 DEF Total
<1> HIDE DEF f, g, S
<1>8. SumFunctionOnSet(f, S) \in Int
  BY <1>3, <1>4, SumInt
<1>9. CASE o \in S
  <2>1. SumFunctionOnSet(g, S) = SumFunctionOnSet(f, S) - f[o] + g[o]
    BY <1>3, <1>4, <1>9, SumChange
  <2> QED BY <1>4, <1>5, <1>6, <1>7, <1>8, <1>9, <2>1 DEF new
<1>10. CASE o \notin S
  <2>1. SumFunctionOnSet(g, S) = SumFunctionOnSet(f, S)
    <3>1. \A q \in S : g[q] = f[q]
      BY <1>3, <1>4, <1>10
    <3> QED BY <1>3, <3>1, SumSame
  <2> QED BY <1>6, <1>7, <1>8, <1>10, <2>1 DEF new
<1> QED BY <1>9, <1>10

LEMMA TotalAdded ==
    ASSUME NEW recs, IsFiniteSet(DOMAIN recs), \A o \in DOMAIN recs : recs[o].times \in Nat,
           NEW a, NEW top, top \notin DOMAIN recs, NEW r, r.times \in Nat
    PROVE  Total(With(recs, top, r), a) =
               Total(recs, a) + (IF r.params.args = a THEN r.times ELSE 0)
<1> DEFINE new == With(recs, top, r)
           f == Times(recs)
           g == Times(new)
           S == Having(recs, a)
           T == Having(new, a)
<1>1. /\ DOMAIN new = DOMAIN recs \union {top} /\ new[top] = r
      /\ \A q \in DOMAIN recs : new[q] = recs[q]
  BY DEF With
<1> HIDE DEF new
<1>2. /\ S \subseteq T /\ T \subseteq S \union {top} /\ top \notin S
      /\ (top \in T <=> r.params.args = a)
  BY <1>1 DEF Having
<1>3. /\ IsFiniteSet(DOMAIN new) /\ IsFiniteSet(S)
  BY <1>1, FS_Subset, FS_AddElement DEF Having
<1>4. /\ \A q \in DOMAIN new : g[q] = new[q].times
      /\ \A q \in DOMAIN recs : f[q] = recs[q].times
      /\ S \subseteq DOMAIN recs /\ T \subseteq DOMAIN new
  BY DEF Times, Having
<1>5. /\ g[top] = r.times /\ \A q \in T : g[q] \in Int
      /\ \A q \in S : f[q] \in Int /\ g[q] = f[q]
  BY <1>1, <1>4
<1>6. IsFiniteSet(T)
  BY <1>3, <1>4, FS_Subset
<1>7. Total(recs, a) = SumFunctionOnSet(f, S) /\ Total(new, a) = SumFunctionOnSet(g, T)
  BY DEF Total
<1> HIDE DEF f, g, S, T
<1>8. SumFunctionOnSet(f, S) \in Int /\ SumFunctionOnSet(g, S) = SumFunctionOnSet(f, S)
  BY <1>3, <1>5, SumInt, SumSame
<1>9. CASE top \in T
  <2>1. T \ {top} = S
    BY <1>2
  <2>2. SumFunctionOnSet(g, T) = g[top] + SumFunctionOnSet(g, T \ {top})
    BY <1>5, <1>6, <1>9, SumTake
  <2>3. Total(new, a) = Total(recs, a) + r.times
    <3>1. \A x, y \in Int : x + y = y + x
      OBVIOUS
    <3> HIDE DEF Total
    <3> QED BY <1>5, <1>7, <1>8, <1>9, <2>1, <2>2, <3>1
  <2> QED BY <1>2, <1>9, <2>3 DEF new
<1>10. CASE top \notin T
  <2>1. T = S
    BY <1>2, <1>10
  <2>2. Total(new, a) = Total(recs, a) + 0
    BY <1>7, <1>8, <2>1
  <2> QED BY <1>2, <1>10, <2>2 DEF new
<1> QED BY <1>9, <1>10

(* What the sums need to know of the records.                              *)
LEMMA Counters ==
    ASSUME Types, NEW t, Placed(t)
    PROVE  /\ IsFiniteSet(DOMAIN Records)
           /\ \A o \in DOMAIN Records : /\ Records[o].times \in Nat
                                         /\ Records[o].params \in Params
           /\ \A a : Total(Records, a) \in Nat
<1>1. IsFiniteSet(DOMAIN Records)
  <2>1. End(t) \in Nat
    BY DEF End, Types, Memory
  <2>2. IsFiniteSet(0..End(t)) /\ DOMAIN Records \subseteq 0..End(t)
    <3> HIDE DEF End
    <3> QED BY <2>1, FS_Interval DEF Placed
  <2> QED BY <2>2, FS_Subset
<1>2. \A o \in DOMAIN Records : Records[o].times \in Nat /\ Records[o].params \in Params
  <2>1. CASE call_data = 0
    BY <2>1 DEF Types, Memory, Records, Block
  <2>2. CASE call_data # 0
    <3>1. Records = mem[call_data].recs /\ IsBlock(mem[call_data])
      BY <2>2 DEF Types, Memory, Records
    <3> QED BY <3>1 DEF IsBlock, Record
  <2> QED BY <2>1, <2>2
<1> QED BY <1>1, <1>2, TotalIsNat

LEMMA EnterLog ==
    ASSUME Types, Types', NEW t \in Thread, Log(t), NEW a \in Args, Enter(t, a)
    PROVE  Log(t)'
<1>1. /\ pc[t] = "idle" /\ pc'[t] = "init" /\ params'[t].args = a
      /\ made' = [made EXCEPT ![a] = @ + 1] /\ made \in [Args -> Nat]
      /\ UNCHANGED <<form, call_data, call_data_size, call_data_top, mem, ptr, load, status>>
  <2>1. PICK raw \in RegParams(a) : params' = [params EXCEPT ![t] = raw]
    BY DEF Enter
  <2>2. params'[t] = raw
    BY <2>1 DEF Types, Threads
  <2>3. raw.args = a
    BY <2>1, Filling
  <2> QED BY <2>2, <2>3 DEF Enter, Goto, shared, Types, Threads
<1>2. Records' = Records /\ End(t)' = End(t) /\ Rec' = Rec
  BY <1>1 DEF Records, End, Rec
<1>3. Placed(t)'
  BY <1>1, <1>2 DEF Log, Placed
<1>4. Walked(t)'
  BY <1>1 DEF Walked
<1>5. Distinct'
  BY <1>2 DEF Log, Distinct
<1>6. Tallied(t)'
  <2> SUFFICES ASSUME NEW x \in Args
               PROVE  Total(Records, x) + Pending(t, x)' = made'[x]
    BY <1>2 DEF Tallied, Total, Times, Having
  <2>1. /\ Pending(t, x) = 0 /\ Pending(t, x)' = IF x = a THEN 1 ELSE 0
        /\ made'[x] = made[x] + IF x = a THEN 1 ELSE 0
    BY <1>1 DEF Pending
  <2>2. Total(Records, x) + Pending(t, x) = made[x] /\ Total(Records, x) \in Nat
    BY Counters DEF Log, Tallied
  <2> QED BY <2>1, <2>2
<1> QED BY <1>3, <1>4, <1>5, <1>6 DEF Log

(* The steps that touch neither the records nor the calls made.            *)
LEMMA SameTally ==
    ASSUME NEW t \in Thread, Log(t), Records' = Records, made' = made, params' = params,
           (pc[t] \in {"idle", "bump"}) <=> (pc'[t] \in {"idle", "bump"})
    PROVE  Tallied(t)' /\ Distinct'
BY DEF Log, Tallied, Total, Times, Having, Pending, Distinct

LEMMA AllocateLog ==
    ASSUME Types, Types', NEW t \in Thread, Log(t), Allocate(t), Rec' = Rec
    PROVE  Log(t)'
<1>1. /\ pc[t] = "init" /\ pc'[t] = "begin"
      /\ UNCHANGED <<call_data_top, params, ptr, load, made, status>>
  BY DEF Allocate, Goto, Types, Threads
<1>2. Walked(t)'
  BY <1>1 DEF Walked
<1>3. Records' = Records /\ Placed(t)'
  <2>1. CASE call_data = 0
    <3>1. call_data' = 1 /\ mem' = With(mem, 1, Block(Chunk)) /\ call_data_size' = Chunk
      BY <2>1, FreshIs DEF Allocate, Types
    <3>2. mem'[1] = Block(Chunk)
      BY <3>1 DEF With
    <3>3. Records = Block(0).recs /\ Records' = Block(0).recs /\ DOMAIN Records = {}
      BY <2>1, <3>1, <3>2, RecordsAre DEF Records, Block, Types, Memory
    <3>4. /\ call_data_top = 0 /\ End(t)' = 0 /\ 0 % Rec = 0 /\ status = "ok"
          /\ mem'[1].cap = Chunk /\ Chunk \in Nat
      BY <1>1, <2>1, <3>2, LogAssumption DEF Log, Placed, End, Block
    <3>5. DOMAIN Records' = {o \in 0..End(t)' : o < End(t)' /\ o % Rec' = 0}
      BY <3>3, <3>4
    <3> QED BY <1>1, <3>1, <3>3, <3>4, <3>5 DEF Placed
  <2>2. CASE call_data # 0
    <3>1. UNCHANGED <<call_data, mem, call_data_size>>
      BY <2>2 DEF Allocate
    <3> QED BY <1>1, <2>2, <3>1 DEF Log, Placed, Records, End
  <2> QED BY <2>1, <2>2
<1> QED BY <1>1, <1>2, <1>3, SameTally DEF Log

LEMMA BeginLog ==
    ASSUME Types, Types', NEW t \in Thread, Log(t), Begin(t), Rec' = Rec
    PROVE  Log(t)'
<1>1. /\ pc[t] = "begin" /\ pc'[t] = "find" /\ ptr'[t] = mmk_mock_params_begin
      /\ UNCHANGED <<call_data, call_data_size, call_data_top, mem, params, load, made, status>>
  BY DEF Begin, Goto, shared, Types, Threads
<1>2. Records' = Records /\ Placed(t)'
  BY <1>1 DEF Log, Placed, Records, End
<1>3. /\ call_data # 0 /\ call_data_top \in Nat /\ Rec \in Nat \ {0}
      /\ DOMAIN Records = {o \in 0..call_data_top : o < call_data_top /\ o % Rec = 0}
  BY <1>1 DEF Log, Placed, End, Types, Memory
<1>4. Walked(t)'
  <2>1. CASE call_data_top = 0
    <3>1. DOMAIN Records = {} /\ ptr'[t] = NULL
      BY <1>1, <1>3, <2>1 DEF mmk_mock_params_begin
    <3> QED BY <1>1, <1>2, <3>1 DEF Walked
  <2>2. CASE call_data_top # 0
    <3>1. 0 \in DOMAIN Records /\ ptr'[t] = <<call_data, 0>>
      BY <1>1, <1>3, <2>2 DEF mmk_mock_params_begin
    <3>2. ptr'[t] # NULL /\ ptr'[t][1] = call_data /\ ptr'[t][2] = 0
      BY <3>1, LogAssumption DEF Types, Memory
    <3>3. \A o \in DOMAIN Records : ~(o < 0)
      BY <1>3
    <3> QED BY <1>1, <1>2, <3>1, <3>2, <3>3 DEF Walked
  <2> QED BY <2>1, <2>2
<1> QED BY <1>1, <1>2, <1>4, SameTally DEF Log

LEMMA FindLog ==
    ASSUME Types, Types', NEW t \in Thread, Log(t), Find(t), Rec' = Rec
    PROVE  Log(t)'
<1> DEFINE p == ptr[t]
           o == p[2]
<1>1. /\ pc[t] = "find" /\ call_data # 0 /\ call_data_top \in Nat /\ Rec \in Nat \ {0}
      /\ DOMAIN Records = {q \in 0..call_data_top : q < call_data_top /\ q % Rec = 0}
      /\ Records = mem[call_data].recs /\ call_data \in DOMAIN mem
  BY RecordsAre DEF Find, Log, Placed, End, Types, Memory
<1>2. CASE p = NULL
  <2>1. /\ pc'[t] = "grow"
        /\ UNCHANGED <<call_data, call_data_size, call_data_top, mem, params, ptr, load, made, status>>
    BY <1>2 DEF Find, Goto, shared, Types, Threads
  <2>2. Records' = Records /\ Placed(t)'
    BY <1>1, <2>1 DEF Log, Placed, Records, End
  <2>3. Walked(t)'
    BY <1>1, <1>2, <2>1, <2>2 DEF Log, Walked
  <2> QED BY <1>1, <2>1, <2>2, <2>3, SameTally DEF Log
<1>3. CASE p # NULL
  <2>1. /\ p[1] = call_data /\ o \in DOMAIN Records /\ Readable(p)
        /\ p \in Nat \X Nat
        /\ \A q \in DOMAIN Records : q < o => Records[q].params # params[t]
    BY <1>1, <1>3 DEF Log, Walked, Readable, Types, Threads
  <2>2. CASE Records[o].params = params[t]
    <3>1. /\ pc'[t] = "inc" /\ load'[t] = Records[o].times
          /\ UNCHANGED <<call_data, call_data_size, call_data_top, mem, params, ptr, made, status>>
      BY <1>1, <1>3, <2>1, <2>2 DEF Find, Goto, shared, Types, Threads
    <3>2. Records' = Records /\ Placed(t)'
      BY <1>1, <3>1 DEF Log, Placed, Records, End
    <3>3. Walked(t)'
      BY <1>3, <2>1, <2>2, <3>1, <3>2 DEF Walked
    <3> QED BY <1>1, <3>1, <3>2, <3>3, SameTally DEF Log
  <2>3. CASE Records[o].params # params[t]
    <3>1. /\ \E q \in mmk_mock_params_next(p) : ptr'[t] = q
          /\ UNCHANGED <<call_data, call_data_size, call_data_top, mem, pc, params, load, made, status>>
      BY <1>1, <1>3, <2>1, <2>3 DEF Find, shared, Types, Threads
    <3>2. Records' = Records /\ Placed(t)'
      BY <3>1 DEF Log, Placed, Records, End
    <3> DEFINE n == o + Rec
    <3>3. n \in Nat /\ n % Rec = 0 /\ o % Rec = 0 /\ o \in Nat /\ o < call_data_top
      <4>1. o \in Nat /\ o % Rec = 0 /\ o < call_data_top
        BY <1>1, <2>1
      <4>2. (o + Rec) % Rec = 0
        <5> HIDE DEF o
        <5> QED BY <1>1, <4>1, NextMultiple
      <4> HIDE DEF o
      <4>3. o + Rec \in Nat
        BY <1>1, <4>1
      <4> QED BY <4>1, <4>2, <4>3
    <3>4. \A q \in DOMAIN Records : q < n => Records[q].params # params[t]
      <4> SUFFICES ASSUME NEW q \in DOMAIN Records, q < n
                   PROVE  Records[q].params # params[t]
        OBVIOUS
      <4>1. q \in Nat /\ q % Rec = 0
        BY <1>1
      <4>2. ~(o < q)
        BY <1>1, <3>3, <4>1, MultiplesApart
      <4> QED BY <2>1, <2>3, <3>3, <4>1, <4>2
    <3> HIDE DEF n
    <3>5. CASE n >= call_data_top
      <4>1. ptr'[t] = NULL
        BY <2>1, <3>1, <3>5 DEF mmk_mock_params_next, n
      <4>2. \A q \in DOMAIN Records : q < n
        BY <1>1, <3>3, <3>5
      <4> QED BY <1>1, <3>1, <3>2, <3>4, <4>1, <4>2, SameTally DEF Log, Walked
    <3>6. CASE ~(n >= call_data_top)
      <4>1. ptr'[t] = <<call_data, n>>
        BY <2>1, <3>1, <3>6 DEF mmk_mock_params_next, n
      <4>2. ptr'[t] # NULL /\ ptr'[t][1] = call_data /\ ptr'[t][2] = n
        BY <3>3, <4>1, LogAssumption DEF Types, Memory
      <4>3. n \in DOMAIN Records
        BY <1>1, <3>3, <3>6
      <4> QED BY <1>1, <3>1, <3>2, <3>4, <4>2, <4>3, SameTally DEF Log, Walked
    <3> QED BY <3>5, <3>6
  <2> QED BY <2>2, <2>3
<1> QED BY <1>2, <1>3

LEMMA IncrementLog ==
    ASSUME Types, Types', NEW t \in Thread, Log(t), Increment(t), Rec' = Rec
    PROVE  Log(t)'
<1> DEFINE o == ptr[t][2]
           b == mem[call_data]
           n == load[t] + 1
           f == [b.recs EXCEPT ![o] = [params |-> b.recs[o].params, times |-> n]]
<1>1. /\ pc[t] = "inc" /\ ptr[t] # NULL /\ call_data # 0 /\ params[t] \in Params
      /\ ptr[t][1] = call_data /\ n \in Nat /\ load[t] \in Nat
      /\ Records = b.recs /\ call_data \in DOMAIN mem /\ IsBlock(b) /\ o \in DOMAIN b.recs
      /\ Records[o].params = params[t] /\ Records[o].times = load[t]
  <2>1. pc[t] = "inc"
    BY DEF Increment
  <2>2. ptr[t] # NULL /\ params[t] \in Params /\ load[t] \in Nat /\ n \in Nat
    BY <2>1 DEF Types, Threads
  <2>3. call_data # 0
    BY <2>1 DEF Log, Placed
  <2>4. /\ ptr[t][1] = call_data /\ o \in DOMAIN Records
        /\ Records[o].params = params[t] /\ Records[o].times = load[t]
    BY <2>1, <2>2 DEF Log, Walked
  <2>5. Records = b.recs /\ call_data \in DOMAIN mem /\ IsBlock(b)
    BY <2>3, RecordsAre DEF Types, Memory
  <2> HIDE DEF b, n
  <2> QED BY <2>1, <2>2, <2>3, <2>4, <2>5
<1>2. /\ pc'[t] = "idle" /\ mem' = [mem EXCEPT ![call_data].recs[o].times = n]
      /\ UNCHANGED <<call_data, call_data_size, call_data_top, params, ptr, load, made, status>>
  BY <1>1 DEF Increment, Readable, Goto, Types, Threads
<1>3. mem'[call_data] = [cap |-> b.cap, recs |-> f]
  <2>1. mem' = [mem EXCEPT ![call_data] = [b EXCEPT !.recs[o].times = n]]
    BY <1>2
  <2> HIDE DEF b, n, o
  <2>2. [b EXCEPT !.recs[o].times = n] = [cap |-> b.cap, recs |-> f]
    BY <1>1, Counter
  <2> HIDE DEF f
  <2> QED BY <1>1, <2>1, <2>2
<1>4. /\ Records' = f /\ DOMAIN f = DOMAIN Records /\ f[o].times = load[t] + 1
      /\ \A q \in DOMAIN Records : f[q].params = Records[q].params
      /\ \A q \in DOMAIN Records : q # o => f[q] = Records[q]
  <2>1. Records' = mem'[call_data].recs
    BY <1>1, <1>2, RecordsAre
  <2> QED BY <1>1, <1>3, <2>1
<1>5. Placed(t)'
  <2>1. /\ call_data' = call_data /\ call_data # 0 /\ pc'[t] = "idle" /\ pc[t] = "inc"
        /\ call_data_top' = call_data_top /\ call_data_size' = call_data_size
        /\ status' = status /\ DOMAIN Records' = DOMAIN Records
        /\ mem'[call_data].cap = b.cap
    BY <1>1, <1>2, <1>3, <1>4
  <2>2. End(t)' = End(t)
    BY <2>1 DEF End
  <2> HIDE DEF f, o
  <2> QED BY <2>1, <2>2 DEF Log, Placed
<1>6. Walked(t)'
  BY <1>2 DEF Walked
<1>7. Distinct'
  BY <1>4 DEF Log, Distinct
<1>8. Tallied(t)'
  <2> SUFFICES ASSUME NEW x \in Args
               PROVE  Total(f, x) + Pending(t, x)' = made[x]
    BY <1>2, <1>4 DEF Tallied, Total, Times, Having
  <2>1. Pending(t, x)' = 0 /\ Pending(t, x) = IF params[t].args = x THEN 1 ELSE 0
    BY <1>1, <1>2 DEF Pending
  <2>2. /\ IsFiniteSet(DOMAIN b.recs) /\ \A q \in DOMAIN b.recs : b.recs[q].times \in Nat
        /\ Total(b.recs, x) \in Nat /\ Total(b.recs, x) + Pending(t, x) = made[x]
    <3>1. Records = b.recs /\ Placed(t) /\ Tallied(t)
      BY <1>1 DEF Log
    <3> HIDE DEF b
    <3> QED BY <3>1, Counters DEF Tallied
  <2> HIDE DEF b, o
  <2>3. Total(f, x) = Total(b.recs, x)
                      + (IF b.recs[o].params.args = x THEN n - b.recs[o].times ELSE 0)
    BY <1>1, <2>2, TotalCounted
  <2> QED BY <1>1, <2>1, <2>2, <2>3
<1> QED BY <1>5, <1>6, <1>7, <1>8 DEF Log

LEMMA GrowLog ==
    ASSUME Types, Types', NEW t \in Thread, Log(t), Grow(t), Rec' = Rec
    PROVE  Log(t)'
<1> DEFINE size == call_data_size
                   + Chunk * ((call_data_top + Rec - call_data_size) \div Chunk + 1)
<1>1. /\ pc[t] = "grow" /\ call_data # 0 /\ call_data \in DOMAIN mem
      /\ Records = mem[call_data].recs
      /\ call_data_top \in Nat /\ call_data_size \in Nat /\ Rec \in Nat \ {0}
      /\ call_data_top <= call_data_size
  BY RecordsAre DEF Grow, Log, Placed, End, Types, Memory
<1>2. /\ pc'[t] = "copy" /\ Records' = Records
      /\ call_data' # 0 /\ mem'[call_data'].cap = call_data_size'
      /\ call_data_top + Rec <= call_data_size'
      /\ UNCHANGED <<call_data_top, params, ptr, load, made, status>>
  <2>1. CASE ~Full(call_data_size)
    <3>1. /\ pc'[t] = "copy"
          /\ UNCHANGED <<call_data, call_data_size, call_data_top, mem, params, ptr, load, made,
                         status>>
      BY <2>1 DEF Grow, Goto, shared, Types, Threads
    <3>2. call_data_top + Rec <= call_data_size
      BY <1>1, <2>1 DEF Full
    <3> QED BY <1>1, <3>1, <3>2 DEF Log, Placed, Records
  <2>2. CASE Full(call_data_size)
    <3>1. /\ call_data_size' = size /\ call_data' = call_data + 1
          /\ mem' = With(Without(mem, call_data), call_data + 1,
                         [cap |-> size, recs |-> mem[call_data].recs])
          /\ pc'[t] = "copy"
          /\ UNCHANGED <<call_data_top, params, ptr, load, made, status>>
      BY <1>1, <2>2, FreshIs DEF Grow, Goto, Types, Threads
    <3>2. size \in Nat /\ call_data_top + Rec <= size
      <4> DEFINE x == call_data_top + Rec - call_data_size
                 y == Chunk * (x \div Chunk + 1)
      <4>1. x \in Nat
        BY <1>1, <2>2 DEF Full
      <4>2. size = call_data_size + y /\ call_data_top + Rec = call_data_size + x
        BY <1>1
      <4> HIDE DEF x, size
      <4>3. y \in Nat /\ y > x
        BY <4>1, EnoughChunks, LogAssumption
      <4> HIDE DEF y
      <4> QED BY <1>1, <4>1, <4>2, <4>3
    <3> HIDE DEF size
    <3>3. mem'[call_data + 1] = [cap |-> size, recs |-> mem[call_data].recs]
      BY <3>1 DEF With
    <3>4. call_data' # 0 /\ Records' = mem'[call_data'].recs
      BY <3>1, RecordsAre DEF Types, Memory
    <3> QED BY <1>1, <3>1, <3>2, <3>3, <3>4
  <2> QED BY <2>1, <2>2
<1>3. Placed(t)'
  <2>1. End(t) = call_data_top /\ End(t)' = call_data_top
    BY <1>1, <1>2 DEF End
  <2>2. /\ status = "ok" /\ call_data_top % Rec = 0
        /\ DOMAIN Records = {o \in 0..call_data_top : o < call_data_top /\ o % Rec = 0}
    BY <2>1 DEF Log, Placed
  <2>3. DOMAIN Records' = {o \in 0..End(t)' : o < End(t)' /\ o % Rec' = 0}
    BY <1>2, <2>1, <2>2
  <2>4. End(t)' <= call_data_size'
    <3>1. call_data_size' \in Nat
      BY DEF Types, Memory
    <3> QED BY <1>1, <1>2, <2>1, <3>1
  <2> QED BY <1>2, <2>1, <2>2, <2>3, <2>4 DEF Placed
<1>4. Walked(t)'
  BY <1>1, <1>2 DEF Log, Walked
<1> QED BY <1>1, <1>2, <1>3, <1>4, SameTally DEF Log

LEMMA CopyLog ==
    ASSUME Types, Types', NEW t \in Thread, Log(t), Copy(t), Rec' = Rec
    PROVE  Log(t)'
<1> DEFINE top == call_data_top
           r == [params |-> params[t], times |-> 1]
           b == mem[call_data]
           f == With(b.recs, top, r)
<1>1. /\ pc[t] = "copy" /\ call_data # 0 /\ call_data \in DOMAIN mem
      /\ Records = b.recs /\ IsBlock(b) /\ params[t] \in Params /\ r \in Record
      /\ top \in Nat /\ call_data_size \in Nat /\ Rec \in Nat \ {0}
      /\ top + Rec <= call_data_size /\ b.cap = call_data_size /\ top % Rec = 0
      /\ DOMAIN Records = {o \in 0..top : o < top /\ o % Rec = 0}
  BY RecordsAre DEF Copy, Log, Placed, End, Types, Memory, Threads, Record
<1>2. /\ pc'[t] = "bump" /\ mem' = [mem EXCEPT ![call_data].recs = With(@, top, r)]
      /\ UNCHANGED <<call_data, call_data_size, call_data_top, params, ptr, load, made, status>>
  <2>1. ~(call_data_top + Rec > mem[call_data].cap)
    BY <1>1
  <2> QED BY <1>1, <2>1 DEF Copy, Goto, Types, Threads
<1>3. mem'[call_data] = [cap |-> b.cap, recs |-> f]
  <2>1. mem' = [mem EXCEPT ![call_data] = [b EXCEPT !.recs = With(@, top, r)]]
    BY <1>2
  <2> HIDE DEF b, top, r
  <2>2. [b EXCEPT !.recs = With(@, top, r)] = [cap |-> b.cap, recs |-> f]
    <3>1. IsBlock(b) /\ top \in Nat /\ r \in Record
      BY <1>1
    <3> QED BY <3>1, FilledBlock DEF f
  <2> HIDE DEF f
  <2> QED BY <1>1, <2>1, <2>2
<1>4. /\ Records' = f /\ DOMAIN f = DOMAIN Records \union {top} /\ f[top] = r
      /\ \A q \in DOMAIN Records : f[q] = Records[q] /\ q # top
  <2>1. Records' = f
    BY <1>1, <1>2, <1>3, RecordsAre
  <2>2. \A q \in DOMAIN Records : q # top
    BY <1>1
  <2> QED BY <1>1, <2>1, <2>2 DEF With
<1>5. \A q \in DOMAIN Records : Records[q].params # params[t]
  BY <1>1 DEF Log, Walked
<1>6. r.params = params[t] /\ r.times = 1
  OBVIOUS
<1> HIDE DEF f, r, b
<1>7. Placed(t)'
  <2>1. End(t)' = top + Rec
    BY <1>2 DEF End
  <2>2. ASSUME NEW o \in Nat
        PROVE  o \in DOMAIN f <=> o < top + Rec /\ o % Rec = 0
    <3>1. o % Rec = 0 /\ top < o => top + Rec <= o
      BY <1>1, MultiplesApart
    <3> QED BY <1>1, <1>4, <3>1
  <2>3. DOMAIN f \subseteq Nat
    BY <1>1, <1>4
  <2>4. DOMAIN f = {o \in 0..top + Rec : o < top + Rec /\ o % Rec = 0}
    <3> DEFINE s == {o \in 0..top + Rec : o < top + Rec /\ o % Rec = 0}
    <3>1. \A o : o \in s <=> o \in Nat /\ o < top + Rec /\ o % Rec = 0
      BY <1>1
    <3> HIDE DEF s
    <3>2. \A o : o \in s <=> o \in DOMAIN f
      BY <2>2, <2>3, <3>1
    <3>3. s = DOMAIN f
      BY <3>2
    <3> QED BY <3>3 DEF s
  <2> QED BY <1>1, <1>2, <1>3, <1>4, <2>1, <2>4 DEF Log, Placed
<1>8. Walked(t)'
  BY <1>2 DEF Walked
<1>9. Distinct'
  BY <1>4, <1>5, <1>6 DEF Log, Distinct
<1>10. Tallied(t)'
  <2> SUFFICES ASSUME NEW x \in Args
               PROVE  Total(f, x) + Pending(t, x)' = made[x]
    BY <1>2, <1>4 DEF Tallied, Total, Times, Having
  <2>1. Pending(t, x)' = 0 /\ Pending(t, x) = IF params[t].args = x THEN 1 ELSE 0
    BY <1>1, <1>2 DEF Pending
  <2>2. /\ IsFiniteSet(DOMAIN b.recs) /\ \A q \in DOMAIN b.recs : b.recs[q].times \in Nat
        /\ Total(b.recs, x) \in Nat /\ Total(b.recs, x) + Pending(t, x) = made[x]
    <3>1. Records = b.recs /\ Placed(t) /\ Tallied(t)
      BY <1>1 DEF Log
    <3> HIDE DEF b
    <3> QED BY <3>1, Counters DEF Tallied
  <2>3. top \notin DOMAIN b.recs /\ r.times \in Nat
    BY <1>1, <1>4, <1>6
  <2>4. Total(f, x) = Total(b.recs, x) + (IF r.params.args = x THEN r.times ELSE 0)
    BY <2>2, <2>3, TotalAdded DEF f
  <2> QED BY <1>6, <2>1, <2>2, <2>4
<1> QED BY <1>7, <1>8, <1>9, <1>10 DEF Log

LEMMA BumpLog ==
    ASSUME Types, Types', NEW t \in Thread, Log(t), Bump(t), Rec' = Rec
    PROVE  Log(t)'
<1>1. /\ pc[t] = "bump" /\ pc'[t] = "idle" /\ call_data_top' = call_data_top + Rec
      /\ call_data_top \in Nat /\ Rec \in Nat \ {0} /\ call_data # 0
      /\ UNCHANGED <<call_data, call_data_size, mem, params, ptr, load, made, status>>
  BY DEF Bump, Goto, Log, Placed, Types, Memory, Threads
<1>2. Records' = Records /\ End(t)' = End(t) /\ call_data_top' % Rec = 0
  BY <1>1, NextMultiple DEF Log, Placed, Records, End
<1>3. Placed(t)'
  BY <1>1, <1>2 DEF Log, Placed
<1>4. Walked(t)'
  BY <1>1 DEF Walked
<1> QED BY <1>1, <1>2, <1>3, <1>4, SameTally DEF Log

LEMMA LogStep ==
    ASSUME Types, Types', NEW t \in Thread, Log(t), Work(t) \/ \E a \in Args : Enter(t, a)
    PROVE  Log(t)'
<1>1. CASE \E a \in Args : Enter(t, a)
  BY <1>1, EnterLog
<1>2. CASE Work(t)
  BY <1>2, SameForm, AllocateLog, BeginLog, FindLog, IncrementLog, GrowLog, CopyLog, BumpLog DEF Work
<1> QED BY <1>1, <1>2

LEMMA LogInvariance ==
    ASSUME OneThread
    PROVE  Spec => []LogInv
<1>1. Init => LogInv
  <2> SUFFICES ASSUME Init, NEW t \in Thread
               PROVE  Placed(t) /\ Walked(t) /\ Tallied(t) /\ Distinct
    BY DEF LogInv
  <2>1. Records = Block(0).recs /\ DOMAIN Records = {} /\ End(t) = 0 /\ pc[t] = "idle"
    BY DEF Init, Records, Block, End
  <2>2. Placed(t)
    <3>1. Rec \in Nat \ {0} /\ 0 % Rec = 0
      BY LogAssumption DEF Init, Rec
    <3> QED BY <2>1, <3>1 DEF Init, Placed
  <2>3. Walked(t) /\ Distinct
    BY <2>1 DEF Walked, Distinct
  <2>4. Tallied(t)
    <3> SUFFICES ASSUME NEW a \in Args PROVE Total(Records, a) + Pending(t, a) = made[a]
      BY DEF Tallied
    <3>1. Having(Records, a) = {} /\ Total(Records, a) = 0
      BY <2>1, SumEmpty DEF Total, Having
    <3> QED BY <2>1, <3>1 DEF Init, Pending
  <2> QED BY <2>2, <2>3, <2>4
<1>2. LogInv /\ Types /\ Types' /\ [Next]_vars => LogInv'
  <2>1. ASSUME LogInv, UNCHANGED vars PROVE LogInv'
    BY <2>1 DEF vars, LogInv, Placed, Walked, Tallied, Total, Times, Having, Pending, Distinct,
                Records, End, Rec
  <2>2. ASSUME LogInv, Types, Types', Next PROVE LogInv'
    <3>1. PICK t \in Thread : Work(t) \/ \E a \in Args : Enter(t, a)
      BY <2>2 DEF Next
    <3>2. Log(t)'
      BY <2>2, <3>1, LogStep DEF LogInv, Log
    <3>3. Thread = {t}
      BY DEF OneThread
    <3> QED BY <3>2, <3>3 DEF LogInv, Log
  <2> QED BY <2>1, <2>2
<1> QED BY <1>1, <1>2, TypesInvariance, PTL DEF Spec

(* One thread never walks into a record that is not there: the records     *)
(* below the top follow one another without a gap and inside the           *)
(* allocation, however long they are and however the buffer has moved.     *)
THEOREM LayoutHolds ==
    ASSUME OneThread
    PROVE  Spec => []Layout
<1>1. Types /\ LogInv => Layout
  <2> SUFFICES ASSUME Types, LogInv PROVE Layout
    OBVIOUS
  <2>1. PICK t \in Thread : Placed(t)
    BY DEF OneThread, LogInv
  <2>2. /\ call_data_top \in Nat /\ call_data_size \in Nat /\ Rec \in Nat \ {0}
        /\ call_data_top <= End(t) /\ End(t) <= call_data_size
    BY <2>1 DEF Types, Memory, Placed, End
  <2>3. End(t) \in Nat
    BY <2>2 DEF End
  <2> HIDE DEF End
  <2>4. \A o \in 0..call_data_top : o < call_data_top /\ o % Rec = 0 => o \in DOMAIN Records
    BY <2>1, <2>2, <2>3 DEF Placed
  <2> QED BY <2>1, <2>2, <2>3, <2>4 DEF Layout, Placed
<1> QED BY <1>1, LogInvariance, TypesInvariance, PTL

(* What makes one comparison enough to find a call: where the arguments    *)
(* are all that the bytes of a record hold, one thread makes no second     *)
(* record for the same arguments.                                          *)
THEOREM OneEach ==
    ASSUME OneThread
    PROVE  Spec => []OneRecordEach
<1>1. Types /\ LogInv => OneRecordEach
  <2> SUFFICES ASSUME Types, LogInv, Plain, NEW o \in DOMAIN Records, NEW q \in DOMAIN Records,
                      Records[o].params.args = Records[q].params.args
               PROVE  o = q
    BY DEF OneRecordEach
  <2>1. PICK t \in Thread : Log(t)
    BY DEF OneThread, LogInv, Log
  <2>2. Records[o].params \in Params /\ Records[q].params \in Params
    BY <2>1, Counters DEF Log
  <2>3. Records[o].params = Records[q].params
    BY <2>2 DEF Plain, Params
  <2> QED BY <2>1, <2>3 DEF Log, Distinct
<1> QED BY <1>1, LogInvariance, TypesInvariance, PTL

(* `.times' of mmk_verify has the right numbers to count with: between the *)
(* calls of one thread, the counters of the records add up to the calls    *)
(* made with their parameters.                                             *)
THEOREM CountsExact ==
    ASSUME OneThread
    PROVE  Spec => []ExactCounts
<1>1. Types /\ LogInv => ExactCounts
  <2> SUFFICES ASSUME Types, LogInv, \A t \in Thread : pc[t] = "idle", NEW a \in Args
               PROVE  Counted(a) = made[a]
    BY DEF ExactCounts
  <2>1. PICK t \in Thread : Log(t)
    BY DEF OneThread, LogInv, Log
  <2>2. \A o \in DOMAIN Records : o < call_data_top
    BY <2>1 DEF Log, Placed, End
  <2>3. Counted(a) = Total(Records, a)
    BY <2>2 DEF Counted, Total, Times, Having
  <2>4. Pending(t, a) = 0 /\ Total(Records, a) \in Nat
    BY <2>1, Counters DEF Log, Pending
  <2>5. Total(Records, a) + Pending(t, a) = made[a]
    BY <2>1 DEF Log, Tallied
  <2> QED BY <2>3, <2>4, <2>5
<1> QED BY <1>1, LogInvariance, TypesInvariance, PTL
=============================================================================
