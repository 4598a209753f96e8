---------------------------- MODULE VitalsProofs ----------------------------
(***************************************************************************)
(* Safety of module Vitals for every program and any number of threads, and*)
(* of the lookups in module Tables for tables of any size.                 *)
(*                                                                         *)
(* What a lookup returns is a function of the program alone (ElfFinds,     *)
(* ExportIsFirst, RealIsFirst), and so a pointer that two threads look up at *)
(* the same time is the same for both: IInv says that much, whoever runs.  *)
(* TInv adds what a thread has behind it at each step.  It rests on the    *)
(* pointers staying what they are once found, and that fails in one place: *)
(* a program whose vfprintf is the fallback, where a second thread stores  *)
(* NULL again before it stores the fallback again.                         *)
(***************************************************************************)
EXTENDS Tables, SetLemmas

RealFn(v) == plt_get_real_fn(prog, v)
Runtime   == RealFn("__stdio_common_vfprintf")

(* Where vfprintf is an inline function, no two threads come to mmk_init:  *)
(* the second would take back, for a moment, what the first has returned.  *)
AloneWithFallback ==
    prog.fmt = "PE" /\ RealFn("vfprintf") = NULL => \A t, u \in Thread : t = u

(* A pointer holds nothing or what a lookup gives, whichever thread looks. *)
Values ==
    \A v \in Vital :
        \/ ptr[v] = NULL
        \/ ptr[v] = RealFn(v) /\ RealFn(v) # Outside
        \/ /\ v = "vfprintf" /\ ptr[v] = Fallback
           /\ prog.fmt = "PE" /\ RealFn(v) = NULL
           /\ common = Runtime /\ common # NULL

(* Who is about to look for the fallback has looked for the function.      *)
Looked ==
    \A t \in Thread : pc[t] \in {"abort", "fallback"} /\ ptr["vfprintf"] = NULL
                      => RealFn("vfprintf") = NULL

(* What a thread has found by the time it is at a step. *)
Speaking == {"malloc", "realloc", "free", "mprotect", "finish", "panic"}
Beyond == [v \in {"malloc", "realloc", "free", "mprotect"} |->
    CASE v = "malloc"   -> {"realloc", "free", "mprotect", "finish"}
      [] v = "realloc"  -> {"free", "mprotect", "finish"}
      [] v = "free"     -> {"mprotect", "finish"}
      [] v = "mprotect" -> {"finish"}]
Progress ==
    \A t \in Thread :
        /\ pc[t] \in Speaking => ptr["abort"] # NULL /\ ptr["vfprintf"] # NULL
        /\ \A v \in Vital \ {"abort", "vfprintf"} : pc[t] \in Beyond[v] => ptr[v] # NULL

IsProgram ==
    /\ prog.fmt \in {"ELF", "PE", "MachO"}
    /\ Len(prog.objs) \in Nat
    /\ DOMAIN prog.objs = 1..Len(prog.objs)

IInv ==
    /\ IsProgram
    /\ TypeOK
    /\ ptr = [v \in Vital |-> ptr[v]] /\ pc = [t \in Thread |-> pc[t]]
    /\ Values
    /\ Looked

(* Only where no two threads meet in the fallback. *)
TInv ==
    /\ Progress
    /\ ReadyOnReturn
    /\ initialized => \E t \in Thread : pc[t] = "done"
    /\ dead # "null call"

-----------------------------------------------------------------------------
(* What ELF lookup finds: the first object whose table has a symbol of     *)
(* some size, and the address of that symbol.                              *)
Passed(p, i, v) ==
    LET sym == sym_lookup_dyn(p.objs[i], v)
    IN  sym = NULL \/ (sym # Outside /\ p.objs[i].symtab[sym.idx].size = 0)
Reached(p, i, v) ==
    LET sym == sym_lookup_dyn(p.objs[i], v)
    IN  {a \in {AddressOf(p, i, sym)} : ~Passed(p, i, v) /\ sym # Outside}
FirstReached(p, n, v) ==
    UNION {Reached(p, i, v) : i \in {k \in 1..n : \A j \in 1..k - 1 : Passed(p, j, v)}}

LEMMA ElfFinds ==
    ASSUME NEW n \in Nat, NEW p, DOMAIN p.objs = 1..n, Len(p.objs) = n, NEW v
    PROVE  elf_get_real_fn(p, v) \in {NULL, Outside} \union FirstReached(p, n, v)
<1> DEFINE Sym(i) == sym_lookup_dyn(p.objs[i], v)
           Skips(i) == Passed(p, i, v)
           Ahead(i) == UNION {Reached(p, k, v) :
                                k \in {m \in i..n : \A j \in i..m - 1 : Skips(j)}}
           Answer(i) == {NULL, Outside} \union Ahead(i)
           Here(i)  == IF Sym(i) = Outside THEN Outside ELSE AddressOf(p, i, Sym(i))
           Fits(i)  == {k \in i..n : ~Skips(k)}
           First(i) == CHOOSE k \in Fits(i) : \A j \in Fits(i) : k <= j
           Found    == [i \in 1..n + 1 |-> IF Fits(i) = {} THEN NULL ELSE Here(First(i))]
           Body(f, i) == IF i > Len(p.objs) THEN NULL
                 ELSE LET sym == sym_lookup_dyn(p.objs[i], v)
                 IN  CASE sym = NULL    -> f[i + 1]
                       [] sym = Outside -> Outside
                       [] OTHER ->
                            IF p.objs[i].symtab[sym.idx].size = 0
                            THEN f[i + 1]
                            ELSE AddressOf(p, i, sym)
           Solves(f) == f = [i \in 1..Len(p.objs) + 1 |-> Body(f, i)]
           find == CHOOSE f : Solves(f)
<1>1. elf_get_real_fn(p, v) = find[1]
  BY DEF elf_get_real_fn
<1>2. ASSUME NEW f, NEW i \in 1..n + 1
      PROVE  Body(f, i) = IF i = n + 1 THEN NULL
                          ELSE IF Skips(i) THEN f[i + 1] ELSE Here(i)
  <2>1. NULL # Outside
    BY DEF NULL, Outside
  <2>2. CASE i = n + 1
    BY <2>2
  <2>3. CASE i # n + 1
    <3>1. ~(i > Len(p.objs))
      BY <2>3
    <3>2. CASE Sym(i) = NULL
      BY <2>1, <3>1, <3>2, <2>3 DEF Passed
    <3>3. CASE Sym(i) = Outside
      BY <2>1, <3>1, <3>3, <2>3 DEF Passed
    <3>4. CASE Sym(i) # NULL /\ Sym(i) # Outside
      BY <2>1, <3>1, <3>4, <2>3 DEF Passed
    <3> QED BY <3>2, <3>3, <3>4
  <2> QED BY <2>2, <2>3
<1> HIDE DEF Body
<1>3. ASSUME NEW i \in 1..n + 1, Fits(i) # {}
      PROVE  First(i) \in Fits(i) /\ \A j \in Fits(i) : First(i) <= j
  <2>1. Fits(i) \in SUBSET Nat
    OBVIOUS
  <2>2. \E k \in Fits(i) : \A j \in Fits(i) : k <= j
    BY <1>3, <2>1, LeastNatural
  <2> HIDE DEF Fits
  <2> QED BY <2>2
<1>4. ASSUME NEW i \in 1..n + 1
      PROVE  Found[i] = IF i = n + 1 THEN NULL
                        ELSE IF Skips(i) THEN Found[i + 1] ELSE Here(i)
  <2>1. CASE i = n + 1
    <3>1. Fits(i) = {}
      BY <2>1
    <3> QED BY <2>1, <3>1
  <2>2. CASE i \in 1..n /\ Skips(i)
    <3>1. Fits(i) = Fits(i + 1)
      <4>1. i..n = {i} \union (i + 1)..n
        BY <2>2
      <4>2. \A k : k \in i..n /\ ~Skips(k) <=> k \in (i + 1)..n /\ ~Skips(k)
        BY <2>2, <4>1
      <4> HIDE DEF Skips
      <4> QED BY <4>2
    <3>2. First(i) = First(i + 1)
      BY <3>1
    <3>3. i + 1 \in 1..n + 1 /\ i # n + 1
      BY <2>2
    <3> HIDE DEF Fits, First, Here
    <3> QED BY <2>2, <3>1, <3>2, <3>3
  <2>3. CASE i \in 1..n /\ ~Skips(i)
    <3>1. i \in Fits(i)
      BY <2>3
    <3>2. First(i) <= i /\ First(i) \in Fits(i)
      BY <3>1, <1>3
    <3>3. First(i) = i /\ i # n + 1
      <4> HIDE DEF First
      <4> QED BY <2>3, <3>2
    <3> HIDE DEF Fits, First, Here
    <3> QED BY <2>3, <3>1, <3>3
  <2>4. i = n + 1 \/ i \in 1..n
    OBVIOUS
  <2> HIDE DEF Found, Here, Skips
  <2> QED BY <2>1, <2>2, <2>3, <2>4
<1>5. Solves(Found)
  <2>1. Found = [i \in 1..n + 1 |-> Found[i]]
    <3> HIDE DEF Fits, First, Here
    <3> QED OBVIOUS
  <2> HIDE DEF Found, Here, Skips
  <2> QED BY <1>2, <1>4, <2>1
<1>6. find = [i \in 1..n + 1 |-> Body(find, i)]
  <2> HIDE DEF Found
  <2>1. Solves(find)
    BY <1>5
  <2> QED BY <2>1
<1>7. \A i \in 1..n + 1 : find[i] = IF i = n + 1 THEN NULL
                          ELSE IF Skips(i) THEN find[i + 1] ELSE Here(i)
  <2> HIDE DEF find
  <2> QED BY <1>2, <1>6
<1> HIDE DEF find
<1> DEFINE Good == {k \in Nat : k <= n => find[n + 1 - k] \in Answer(n + 1 - k)}
<1>8. ASSUME NEW i \in 1..n
      PROVE  /\ Reached(p, i, v) \subseteq Ahead(i)
             /\ Skips(i) => Ahead(i + 1) \subseteq Ahead(i)
             /\ ~Skips(i) => Here(i) \in {Outside} \union Reached(p, i, v)
  <2>1. i \in i..n /\ \A j \in i..i - 1 : Skips(j)
    OBVIOUS
  <2>2. ASSUME Skips(i), NEW m \in (i + 1)..n, \A j \in (i + 1)..m - 1 : Skips(j)
        PROVE  m \in i..n /\ \A j \in i..m - 1 : Skips(j)
    <3>1. \A j \in i..m - 1 : j = i \/ j \in (i + 1)..m - 1
      OBVIOUS
    <3> HIDE DEF Skips
    <3> QED BY <2>2, <3>1
  <2>3. ~Skips(i) => Here(i) \in {Outside} \union Reached(p, i, v)
    BY DEF Reached
  <2> HIDE DEF Skips
  <2> QED BY <2>1, <2>2, <2>3
<1> HIDE DEF Skips, Here, Ahead
<1>9. Nat \subseteq Good
  <2>1. 0 \in Good
    <3>1. n + 1 \in 1..n + 1 /\ n + 1 - 0 = n + 1
      OBVIOUS
    <3>2. find[n + 1] = NULL
      BY <1>7, <3>1
    <3> QED BY <3>1, <3>2
  <2>2. ASSUME NEW k \in Nat, k \in Good
        PROVE  k + 1 \in Good
    <3> SUFFICES ASSUME k + 1 <= n PROVE find[n - k] \in Answer(n - k)
      OBVIOUS
    <3> DEFINE i == n - k
    <3>1. i \in 1..n /\ i + 1 = n + 1 - k /\ i \in 1..n + 1 /\ i # n + 1
      OBVIOUS
    <3>2. find[i + 1] \in Answer(i + 1)
      BY <2>2, <3>1
    <3> HIDE DEF i
    <3>3. find[i] \in Answer(i)
      BY <1>7, <1>8, <3>1, <3>2
    <3> QED BY <3>3 DEF i
  <2> HIDE DEF Good
  <2> QED BY <2>1, <2>2, SetInduction
<1>10. find[1] \in Answer(1)
  <2>1. CASE n = 0
    BY <1>7, <2>1
  <2>2. CASE n # 0
    <3>1. n \in Good /\ n + 1 - n = 1
      BY <1>9
    <3> QED BY <3>1
  <2> QED BY <2>1, <2>2
<1>11. Ahead(1) = FirstReached(p, n, v)
  BY DEF Ahead, FirstReached, Skips
<1> QED BY <1>1, <1>10, <1>11

(* The other formats find the first object that exports the name.          *)
LEMMA ExportIsFirst ==
    ASSUME NEW n \in Nat, NEW p, DOMAIN p.objs = 1..n, NEW v
    PROVE  LET fits == {i \in 1..n : v \in p.objs[i].exports}
           IN  /\ fits = {} <=> pe_get_real_fn(p, v) = NULL
               /\ fits # {} => \E i \in fits : /\ \A j \in fits : i <= j
                                             /\ pe_get_real_fn(p, v) = Code(i, v)
<1> DEFINE fits == {i \in DOMAIN p.objs : v \in p.objs[i].exports}
           first == CHOOSE i \in fits : \A j \in fits : i <= j
<1>1. pe_get_real_fn(p, v) = IF fits = {} THEN NULL ELSE Code(first, v)
  BY DEF pe_get_real_fn
<1>2. \A i : Code(i, v) # NULL
  BY DEF Code, NULL
<1>3. fits # {} => first \in fits /\ \A j \in fits : first <= j
  <2>1. fits \in SUBSET Nat
    OBVIOUS
  <2> HIDE DEF fits
  <2> QED BY <2>1, LeastNatural
<1> HIDE DEF first
<1> QED BY <1>1, <1>2, <1>3

(* A lookup gives NULL, Outside or the address of code, and in the formats *)
(* other than ELF it reads no table.                                       *)
LEMMA RealIsCode ==
    ASSUME IsProgram, NEW v
    PROVE  /\ RealFn(v) # Fallback
           /\ prog.fmt # "ELF" => RealFn(v) # Outside
<1>1. NULL # Fallback /\ Outside # Fallback /\ NULL # Outside
  BY DEF NULL, Outside, Fallback
<1>2. \A i, name : /\ Code(i, name) # Fallback /\ Code(i, name) # Outside
                   /\ PltStub(i, name) # Fallback
  BY DEF Code, PltStub, Outside, Fallback
<1>3. CASE prog.fmt = "ELF"
  <2>1. RealFn(v) \in {NULL, Outside} \union FirstReached(prog, Len(prog.objs), v)
    BY <1>3, ElfFinds DEF IsProgram, RealFn, plt_get_real_fn
  <2>2. \A i : \A a \in Reached(prog, i, v) : a # Fallback
    BY <1>2 DEF Reached, AddressOf
  <2> QED BY <1>1, <1>3, <2>1, <2>2 DEF FirstReached
<1>4. CASE prog.fmt \in {"PE", "MachO"}
  <2>1. RealFn(v) = pe_get_real_fn(prog, v)
    BY <1>4 DEF RealFn, plt_get_real_fn, macho_get_real_fn
  <2> QED BY <1>1, <1>2, <1>4, <2>1, ExportIsFirst DEF IsProgram
<1> QED BY <1>3, <1>4 DEF IsProgram

LEMMA Names ==
    ASSUME IsProgram
    PROVE  LET more == prog.fmt \in {"ELF", "MachO"} IN
           /\ {Ordinary[i] : i \in DOMAIN Ordinary} =
                 {"malloc", "realloc", "free"} \union (IF more THEN {"mprotect"} ELSE {})
           /\ StepAfter("malloc") = "realloc"
           /\ StepAfter("realloc") = "free"
           /\ StepAfter("free") = IF more THEN "mprotect" ELSE "finish"
           /\ more => StepAfter("mprotect") = "finish"
<1>1. CASE prog.fmt \in {"ELF", "MachO"}
  <2> DEFINE q == <<"malloc", "realloc", "free">> \o <<"mprotect">>
  <2>0. Ordinary = q
    BY <1>1 DEF Ordinary
  <2>1. /\ Len(q) = 4 /\ DOMAIN q = 1..4
        /\ q[1] = "malloc" /\ q[2] = "realloc" /\ q[3] = "free" /\ q[4] = "mprotect"
    OBVIOUS
  <2> HIDE DEF q
  <2> QED BY <1>1, <2>0, <2>1 DEF StepAfter
<1>2. CASE prog.fmt \notin {"ELF", "MachO"}
  <2>1. Ordinary = <<"malloc", "realloc", "free">>
    BY <1>2 DEF Ordinary
  <2> QED BY <1>2, <2>1 DEF StepAfter
<1> QED BY <1>1, <1>2

-----------------------------------------------------------------------------
Pcs == Vital \union {"idle", "fallback", "speech", "finish", "panic", "done"}

LEMMA SameProgram ==
    ASSUME prog' = prog
    PROVE  /\ IsProgram' = IsProgram /\ Vital' = Vital /\ Pcs' = Pcs
           /\ Runtime' = Runtime /\ \A v : RealFn(v)' = RealFn(v)
BY DEF IsProgram, Vital, Ordinary, Runtime, RealFn, Pcs

LEMMA Vitals5 ==
    ASSUME IsProgram
    PROVE  /\ Vital = {"vfprintf", "abort", "malloc", "realloc", "free"}
                      \union (IF prog.fmt \in {"ELF", "MachO"} THEN {"mprotect"} ELSE {})
           /\ \A i \in DOMAIN Ordinary : Ordinary[i] \in Vital \ {"vfprintf", "abort"}
           /\ \A v \in Vital \ {"vfprintf", "abort"} : StepAfter(v) \in Pcs
BY Names DEF Vital, Pcs

(* A lookup stored by one thread. *)
LEMMA FindIInv ==
    ASSUME IInv, prog' = prog, NEW t \in Thread, NEW v \in Vital, NEW step \in Pcs,
           Find(t, v, step), UNCHANGED <<common, initialized>>,
           step \in {"abort", "fallback"} => pc[t] \in {"vfprintf", "abort"} /\ v = pc[t]
    PROVE  IInv'
<1>1. /\ IsProgram' /\ Vital' = Vital /\ Pcs' = Pcs
      /\ Runtime' = Runtime /\ \A w : RealFn(w)' = RealFn(w)
  BY SameProgram DEF IInv
<1>2. CASE RealFn(v) = Outside
  <2>1. dead' = "outside" /\ ptr' = ptr /\ pc' = pc
    BY <1>2 DEF Find, RealFn
  <2>2. TypeOK'
    BY <1>1, <2>1 DEF IInv, TypeOK, Pcs
  <2>3. Values' /\ Looked'
    BY <1>1, <2>1 DEF IInv, Values, Looked
  <2> QED BY <1>1, <2>1, <2>2, <2>3 DEF IInv
<1>3. CASE RealFn(v) # Outside
  <2>1. ptr' = [ptr EXCEPT ![v] = RealFn(v)] /\ pc' = [pc EXCEPT ![t] = step] /\ dead' = dead
    BY <1>3 DEF Find, RealFn, Goto
  <2>2. TypeOK'
    BY <1>1, <2>1 DEF IInv, TypeOK, Pcs
  <2>3. Values'
    BY <1>1, <1>3, <2>1 DEF IInv, Values
  <2>4. ptr' = [w \in Vital' |-> ptr'[w]] /\ pc' = [u \in Thread |-> pc'[u]]
    BY <1>1, <2>1 DEF IInv
  <2>5. Looked'
    BY <1>1, <2>1 DEF IInv, Looked
  <2> QED BY <1>1, <2>2, <2>3, <2>4, <2>5 DEF IInv
<1> QED BY <1>2, <1>3

(* A step that stores no pointer. *)
LEMMA QuietIInv ==
    ASSUME IInv, prog' = prog, NEW t \in Thread, NEW step \in Pcs,
           pc' = pc \/ Goto(t, step), step \notin {"abort", "fallback"},
           UNCHANGED <<ptr, common>>, initialized' \in BOOLEAN,
           dead' \in {"no", "abort", "null call", "outside"}
    PROVE  IInv'
<1>1. /\ IsProgram' /\ Vital' = Vital /\ Pcs' = Pcs
      /\ Runtime' = Runtime /\ \A w : RealFn(w)' = RealFn(w)
  BY SameProgram DEF IInv
<1>2. pc' = [u \in Thread |-> pc'[u]] /\ \A u \in Thread : pc'[u] \in Pcs
  BY DEF IInv, Goto, TypeOK, Pcs
<1>3. TypeOK'
  BY <1>1, <1>2 DEF IInv, TypeOK, Pcs
<1>4. Values' /\ Looked'
  BY <1>1 DEF IInv, Values, Looked, Goto
<1> QED BY <1>1, <1>2, <1>3, <1>4 DEF IInv

LEMMA FindCommonIInv ==
    ASSUME IInv, prog' = prog, dead = "no", NEW t \in Thread, FindCommon(t)
    PROVE  IInv'
<1>1. /\ IsProgram' /\ Vital' = Vital /\ Pcs' = Pcs
      /\ Runtime' = Runtime /\ \A w : RealFn(w)' = RealFn(w)
  BY SameProgram DEF IInv
<1>2. "speech" \in Pcs /\ "vfprintf" \in Vital
  BY DEF Pcs, Vital
<1>3. CASE prog.fmt = "PE" /\ ptr["vfprintf"] = NULL
  <2>1. /\ common' = Runtime /\ pc' = [pc EXCEPT ![t] = "speech"]
        /\ ptr' = [ptr EXCEPT !["vfprintf"] = IF Runtime = NULL THEN @ ELSE Fallback]
        /\ dead' = dead /\ initialized' = initialized
    BY <1>3 DEF FindCommon, Goto, Runtime, RealFn
  <2>2. TypeOK'
    BY <1>1, <1>2, <2>1 DEF IInv, TypeOK, Pcs
  <2>3. RealFn("vfprintf") = NULL /\ Runtime # Outside
    BY <1>3, RealIsCode DEF IInv, Looked, FindCommon, Runtime
  <2>4. Values'
    BY <1>1, <1>2, <1>3, <2>1, <2>3 DEF IInv, Values
  <2>5. ptr' = [w \in Vital' |-> ptr'[w]] /\ pc' = [u \in Thread |-> pc'[u]]
    BY <1>1, <2>1 DEF IInv
  <2>6. Looked'
    BY <1>1, <2>1, <2>3 DEF IInv, Looked
  <2> QED BY <1>1, <2>2, <2>4, <2>5, <2>6 DEF IInv
<1>4. CASE ~(prog.fmt = "PE" /\ ptr["vfprintf"] = NULL)
  BY <1>2, <1>4, QuietIInv DEF FindCommon, IInv, TypeOK
<1> QED BY <1>3, <1>4

LEMMA StepIInv ==
    ASSUME IInv, NEW t \in Thread, Step(t)
    PROVE  IInv'
<1>0. prog' = prog /\ dead = "no" /\ IsProgram
  BY DEF Step, IInv
<1>1. /\ {"vfprintf", "abort"} \subseteq Vital
      /\ Pcs = Vital \union {"idle", "fallback", "speech", "finish", "panic", "done"}
      /\ \A i \in DOMAIN Ordinary : Ordinary[i] \in Vital \ {"vfprintf", "abort"}
      /\ \A v \in Vital \ {"vfprintf", "abort"} : StepAfter(v) \in Pcs \ {"abort", "fallback"}
  BY <1>0, Vitals5, Names DEF Pcs
<1>2. CASE mmk_init(t)
  BY <1>0, <1>1, <1>2, QuietIInv DEF mmk_init, IInv, TypeOK
<1>3. CASE FindVfprintf(t)
  BY <1>0, <1>1, <1>3, FindIInv DEF FindVfprintf
<1>4. CASE FindAbort(t)
  BY <1>0, <1>1, <1>4, FindIInv DEF FindAbort
<1>5. CASE FindCommon(t)
  BY <1>0, <1>5, FindCommonIInv
<1>6. CASE CheckSpeech(t)
  <2>1. "malloc" \in Pcs
    BY <1>0, Vitals5 DEF Pcs
  <2> QED BY <1>0, <1>6, <2>1, QuietIInv DEF CheckSpeech, IInv, TypeOK
<1>7. CASE Finish(t)
  BY <1>0, <1>1, <1>7, QuietIInv DEF Finish
<1>8. CASE mmk_panic(t)
  BY <1>0, <1>1, <1>8, QuietIInv DEF mmk_panic, IInv, TypeOK
<1>9. ASSUME NEW i \in DOMAIN Ordinary, INIT_VITAL_FUNC(t, Ordinary[i])
      PROVE  IInv'
  <2> DEFINE v == Ordinary[i]
             step == IF plt_get_real_fn(prog, v) = NULL THEN "panic" ELSE StepAfter(v)
  <2>1. v \in Vital /\ step \in Pcs \ {"abort", "fallback"}
    BY <1>1
  <2>2. Find(t, v, step) /\ UNCHANGED <<common, initialized>>
    BY <1>9 DEF INIT_VITAL_FUNC
  <2> QED BY <1>0, <2>1, <2>2, FindIInv
<1> QED BY <1>2, <1>3, <1>4, <1>5, <1>6, <1>7, <1>8, <1>9 DEF Step

-----------------------------------------------------------------------------
(* Once a thread may rely on a pointer no thread takes it away.            *)
LEMMA Kept ==
    ASSUME IInv, TInv, AloneWithFallback, NEW t \in Thread, Step(t),
           NEW u \in Thread, pc[u] \in Speaking \union {"done"},
           NEW w \in Vital, ptr[w] # NULL
    PROVE  ptr'[w] # NULL
<1>0. IsProgram /\ ptr = [v \in Vital |-> ptr[v]] /\ {"vfprintf", "abort"} \subseteq Vital
  BY Vitals5 DEF IInv
<1>1. CASE ptr' = ptr
  BY <1>1
<1>2. ASSUME NEW v \in Vital, ptr' = [ptr EXCEPT ![v] = RealFn(v)],
             v = "vfprintf" => pc[t] = "vfprintf"
      PROVE  ptr'[w] # NULL
  <2>1. CASE w # v
    BY <1>2, <2>1, <1>0
  <2>2. CASE w = v /\ w # "vfprintf"
    BY <1>2, <2>2, <1>0 DEF IInv, Values
  <2>3. CASE w = v /\ w = "vfprintf"
    <3>1. t # u
      BY <1>2, <2>3 DEF Speaking
    <3>2. ~(prog.fmt = "PE" /\ RealFn("vfprintf") = NULL)
      BY <3>1 DEF AloneWithFallback
    <3>3. RealFn("vfprintf") # NULL
      BY <2>3, <3>2 DEF IInv, Values
    <3> QED BY <1>2, <2>3, <3>3, <1>0
  <2> QED BY <2>1, <2>2, <2>3
<1>3. ASSUME NEW v \in Vital, NEW step, Find(t, v, step), v = "vfprintf" => pc[t] = "vfprintf"
      PROVE  ptr'[w] # NULL
  <2>1. ptr' = ptr \/ ptr' = [ptr EXCEPT ![v] = RealFn(v)]
    BY <1>3 DEF Find, RealFn
  <2> QED BY <1>1, <1>2, <1>3, <2>1
<1>4. CASE FindVfprintf(t)
  BY <1>0, <1>3, <1>4 DEF FindVfprintf
<1>5. CASE FindAbort(t)
  BY <1>0, <1>3, <1>5 DEF FindAbort
<1>6. CASE FindCommon(t)
  <2>1. CASE ptr["vfprintf"] = NULL /\ prog.fmt = "PE"
    BY <1>0, <1>6, <2>1 DEF FindCommon
  <2>2. CASE ~(ptr["vfprintf"] = NULL /\ prog.fmt = "PE")
    BY <1>1, <1>6, <2>2 DEF FindCommon
  <2> QED BY <2>1, <2>2
<1>7. ASSUME NEW i \in DOMAIN Ordinary, INIT_VITAL_FUNC(t, Ordinary[i])
      PROVE  ptr'[w] # NULL
  <2>1. Ordinary[i] \in Vital \ {"vfprintf", "abort"}
    BY <1>0, Vitals5
  <2> QED BY <1>3, <1>7, <2>1 DEF INIT_VITAL_FUNC
<1>8. CASE mmk_init(t) \/ CheckSpeech(t) \/ Finish(t) \/ mmk_panic(t)
  BY <1>1, <1>8 DEF mmk_init, CheckSpeech, Finish, mmk_panic
<1> QED BY <1>4, <1>5, <1>6, <1>7, <1>8 DEF Step

(* What the thread that takes the step knows after it. *)
LEMMA StepKnows ==
    ASSUME IInv, TInv, AloneWithFallback, NEW t \in Thread, Step(t)
    PROVE  /\ pc'[t] \in Speaking => ptr'["abort"] # NULL /\ ptr'["vfprintf"] # NULL
           /\ \A v \in Vital \ {"abort", "vfprintf"} : pc'[t] \in Beyond[v] => ptr'[v] # NULL
           /\ pc'[t] = "done" => \A v \in Vital : ptr'[v] # NULL
           /\ initialized' => initialized \/ pc'[t] = "done"
           /\ pc[t] # "done"
           /\ dead' # "null call"
           /\ \A u \in Thread \ {t} : pc'[u] = pc[u]
<1>0. IsProgram /\ ptr = [v \in Vital |-> ptr[v]] /\ pc = [u \in Thread |-> pc[u]]
      /\ dead = "no"
  BY DEF IInv, Step
<1> DEFINE more == prog.fmt \in {"ELF", "MachO"}
<1>1. /\ Vital = {"vfprintf", "abort", "malloc", "realloc", "free"}
                   \union (IF more THEN {"mprotect"} ELSE {})
      /\ {Ordinary[i] : i \in DOMAIN Ordinary} =
                 {"malloc", "realloc", "free"} \union (IF more THEN {"mprotect"} ELSE {})
      /\ StepAfter("malloc") = "realloc"
      /\ StepAfter("realloc") = "free"
      /\ StepAfter("free") = IF more THEN "mprotect" ELSE "finish"
      /\ more => StepAfter("mprotect") = "finish"
  BY <1>0, Vitals5, Names
<1> HIDE DEF more
<1>2. /\ Beyond["malloc"] = {"realloc", "free", "mprotect", "finish"}
      /\ Beyond["realloc"] = {"free", "mprotect", "finish"}
      /\ Beyond["free"] = {"mprotect", "finish"}
      /\ Beyond["mprotect"] = {"finish"}
  BY DEF Beyond
<1>3. CASE mmk_init(t)
  <2>1. /\ pc[t] = "idle" /\ ptr' = ptr /\ initialized' = initialized /\ dead' = dead
        /\ pc' = [pc EXCEPT ![t] = IF initialized THEN "done" ELSE "vfprintf"]
    BY <1>3 DEF mmk_init, Goto
  <2>2. pc'[t] \in {"done", "vfprintf"} /\ \A u \in Thread \ {t} : pc'[u] = pc[u]
    BY <1>0, <2>1
  <2>3. pc'[t] \notin Speaking /\ \A v \in Vital \ {"abort", "vfprintf"} : pc'[t] \notin Beyond[v]
    BY <1>1, <1>2, <2>2 DEF Speaking
  <2>4. pc'[t] = "done" => initialized
    BY <1>0, <2>1
  <2>5. initialized => \A v \in Vital : ptr[v] # NULL
    BY DEF TInv, ReadyOnReturn
  <2>6. dead' # "null call"
    BY <2>1 DEF TInv
  <2> QED BY <2>1, <2>2, <2>3, <2>4, <2>5, <2>6
<1>4. CASE FindVfprintf(t)
  BY <1>0, <1>1, <1>2, <1>4 DEF FindVfprintf, Find, Goto, Speaking
<1>5. CASE FindAbort(t)
  BY <1>0, <1>1, <1>2, <1>5 DEF FindAbort, Find, Goto, Speaking
<1>6. CASE FindCommon(t)
  BY <1>0, <1>1, <1>2, <1>6 DEF FindCommon, Goto, Speaking
<1>7. CASE CheckSpeech(t)
  BY <1>0, <1>1, <1>2, <1>7 DEF CheckSpeech, Goto, Speaking
<1>8. CASE Finish(t)
  BY <1>0, <1>1, <1>2, <1>8 DEF Finish, Goto, Speaking, TInv, Progress
<1>9. CASE mmk_panic(t)
  <2>1. ptr["abort"] # NULL /\ ptr["vfprintf"] # NULL
    BY <1>9 DEF mmk_panic, TInv, Progress, Speaking
  <2>2. ptr["vfprintf"] = Fallback => common # NULL
    <3>1. \A v : RealFn(v) # Fallback
      BY <1>0, RealIsCode
    <3>2. Fallback # NULL
      BY DEF Fallback, NULL
    <3> QED BY <1>1, <3>1, <3>2 DEF IInv, Values
  <2> QED BY <1>0, <1>9, <2>1, <2>2 DEF mmk_panic, TInv, Progress, Speaking
<1>10. ASSUME NEW i \in DOMAIN Ordinary, INIT_VITAL_FUNC(t, Ordinary[i])
       PROVE  /\ pc'[t] \in Speaking => ptr'["abort"] # NULL /\ ptr'["vfprintf"] # NULL
              /\ \A v \in Vital \ {"abort", "vfprintf"} :
                     pc'[t] \in Beyond[v] => ptr'[v] # NULL
              /\ pc'[t] # "done" /\ pc[t] # "done"
              /\ initialized' = initialized
              /\ dead' # "null call"
              /\ \A u \in Thread \ {t} : pc'[u] = pc[u]
  <2> DEFINE v == Ordinary[i]
  <2>1. v \in {"malloc", "realloc", "free"} \union (IF more THEN {"mprotect"} ELSE {})
    BY <1>1
  <2>2. /\ pc[t] = v /\ initialized' = initialized
        /\ Find(t, v, IF RealFn(v) = NULL THEN "panic" ELSE StepAfter(v))
    BY <1>10 DEF INIT_VITAL_FUNC, RealFn
  <2> HIDE DEF v
  <2>3. ptr["abort"] # NULL /\ ptr["vfprintf"] # NULL
    BY <2>1, <2>2 DEF TInv, Progress, Speaking
  <2>4. \A w \in Vital \ {"abort", "vfprintf"} : v \in Beyond[w] => ptr[w] # NULL
    BY <2>2 DEF TInv, Progress
  <2>5. CASE RealFn(v) = Outside
    BY <1>0, <2>2, <2>3, <2>4, <2>5, <2>1 DEF Find, RealFn
  <2>6. CASE RealFn(v) # Outside
    <3>1. /\ ptr' = [ptr EXCEPT ![v] = RealFn(v)] /\ dead' = dead
          /\ pc' = [pc EXCEPT ![t] = IF RealFn(v) = NULL THEN "panic" ELSE StepAfter(v)]
      BY <2>2, <2>6 DEF Find, RealFn, Goto
    <3> QED BY <1>0, <1>1, <1>2, <2>1, <2>2, <2>3, <2>4, <3>1 DEF Speaking
  <2> QED BY <2>5, <2>6
<1> QED BY <1>3, <1>4, <1>5, <1>6, <1>7, <1>8, <1>9, <1>10 DEF Step

LEMMA StepTInv ==
    ASSUME IInv, TInv, AloneWithFallback, NEW t \in Thread, Step(t)
    PROVE  TInv' /\ AloneWithFallback'
<1>1. /\ Vital' = Vital /\ AloneWithFallback'
      /\ {"abort", "vfprintf"} \subseteq Vital
  BY SameProgram, Vitals5 DEF Step, AloneWithFallback, IInv
<1>2. Progress'
  <2> SUFFICES ASSUME NEW u \in Thread
               PROVE  /\ pc'[u] \in Speaking => ptr'["abort"] # NULL /\ ptr'["vfprintf"] # NULL
                      /\ \A v \in Vital \ {"abort", "vfprintf"} :
                            pc'[u] \in Beyond[v] => ptr'[v] # NULL
    BY <1>1 DEF Progress
  <2>1. CASE u = t
    BY <2>1, StepKnows
  <2>2. CASE u # t
    <3>1. pc'[u] = pc[u]
      BY <2>2, StepKnows
    <3>2. \A v \in Vital \ {"abort", "vfprintf"} : pc[u] \in Beyond[v] => pc[u] \in Speaking
      BY Vitals5 DEF Beyond, Speaking, IInv
    <3> QED BY <1>1, <3>1, <3>2, Kept DEF TInv, Progress
  <2> QED BY <2>1, <2>2
<1>3. initialized' => \E u \in Thread : pc'[u] = "done"
  BY StepKnows DEF TInv
<1>4. ASSUME NEW u \in Thread, pc'[u] = "done", NEW v \in Vital
      PROVE  ptr'[v] # NULL
  <2>1. CASE u = t
    BY <1>4, <2>1, StepKnows
  <2>2. CASE u # t
    <3>1. pc[u] = "done"
      BY <1>4, <2>2, StepKnows
    <3>2. ptr[v] # NULL
      BY <3>1 DEF TInv, ReadyOnReturn
    <3> QED BY <3>1, <3>2, Kept
  <2> QED BY <2>1, <2>2
<1>5. ReadyOnReturn'
  BY <1>1, <1>3, <1>4 DEF ReadyOnReturn
<1> QED BY <1>1, <1>2, <1>3, <1>5, StepKnows DEF TInv

-----------------------------------------------------------------------------
LEMMA Invariance == Spec => []IInv
<1>1. Init => IInv
  BY DEF Init, IInv, IsProgram, TypeOK, Values, Looked
<1>2. IInv /\ [Next]_vars => IInv'
  <2>1. ASSUME IInv, Next PROVE IInv'
    BY <2>1, StepIInv DEF Next
  <2>2. ASSUME IInv, UNCHANGED vars PROVE IInv'
    BY <2>2, SameProgram DEF vars, IInv, TypeOK, Values, Looked, Pcs
  <2> QED BY <2>1, <2>2
<1> QED BY <1>1, <1>2, PTL DEF Spec

LEMMA ThreadInvariance == Spec /\ AloneWithFallback => [](TInv /\ AloneWithFallback)
<1>1. ASSUME Init PROVE TInv
  <2>1. IsProgram
    BY <1>1 DEF Init, IsProgram
  <2>2. \A v \in Vital \ {"abort", "vfprintf"} : "idle" \notin Beyond[v]
    BY <2>1, Vitals5 DEF Beyond
  <2>3. \A t \in Thread : pc[t] = "idle"
    BY <1>1 DEF Init
  <2>4. initialized = FALSE /\ dead = "no"
    BY <1>1 DEF Init
  <2>5. Progress
    BY <2>2, <2>3 DEF Progress, Speaking
  <2>6. ReadyOnReturn
    BY <2>3, <2>4 DEF ReadyOnReturn
  <2> QED BY <2>4, <2>5, <2>6 DEF TInv
<1>2. IInv /\ TInv /\ AloneWithFallback /\ [Next]_vars => TInv' /\ AloneWithFallback'
  <2>1. ASSUME IInv, TInv, AloneWithFallback, Next PROVE TInv' /\ AloneWithFallback'
    BY <2>1, StepTInv DEF Next
  <2>2. ASSUME TInv, AloneWithFallback, UNCHANGED vars PROVE TInv' /\ AloneWithFallback'
    BY <2>2, SameProgram DEF vars, TInv, Progress, ReadyOnReturn, AloneWithFallback
  <2> QED BY <2>1, <2>2
<1> QED BY <1>1, <1>2, Invariance, PTL DEF Spec

-----------------------------------------------------------------------------
(* Steps, flags and the table of pointers always have their types.         *)
THEOREM TypeSafety == Spec => []TypeOK
<1>1. IInv => TypeOK
  BY DEF IInv
<1> QED BY <1>1, Invariance, PTL

(* No call of mmk_init, on any number of threads, returns before all the   *)
(* vital functions are there, and from then on they stay (core.c:39-49).   *)
THEOREM InitializedIsReady == Spec /\ AloneWithFallback => []ReadyOnReturn
<1>1. TInv => ReadyOnReturn
  BY DEF TInv
<1> QED BY <1>1, ThreadInvariance, PTL

(* mmk_panic always has what it calls itself (vitals.c:181-190).           *)
THEOREM PanicSpeaks == Spec /\ AloneWithFallback => []PanicCanSpeak
<1>1. TInv => PanicCanSpeak
  BY DEF TInv, Progress, PanicCanSpeak, Speaking
<1> QED BY <1>1, ThreadInvariance, PTL

-----------------------------------------------------------------------------
(* The tables.  A search of the GNU table goes from symbol to symbol until *)
(* it meets one of the name, a last one, or the end of the chains: there   *)
(* is a function that does, for the first of these ahead answers.          *)
Walks(u, lo, top, Hit, End) ==
    \A i \in 0..top :
        u[i] = IF i < lo \/ i = top THEN Outside
               ELSE IF i \in Hit THEN Symbol(i)
               ELSE IF i \in End THEN NULL
               ELSE u[i + 1]

LEMMA WalkExists ==
    ASSUME NEW lo \in Nat, NEW top \in Nat, NEW Hit, NEW End
    PROVE  \E u : u = [i \in 0..top |-> u[i]] /\ Walks(u, lo, top, Hit, End)
<1> DEFINE Stop(k) == k \in Hit \/ k \in End
           Stops(i) == {k \in i..top - 1 : Stop(k)}
           First(i) == CHOOSE k \in Stops(i) : \A j \in Stops(i) : k <= j
           Answer(k) == IF k \in Hit THEN Symbol(k) ELSE NULL
           u == [i \in 0..top |-> IF i < lo \/ Stops(i) = {} THEN Outside
                                  ELSE Answer(First(i))]
<1>1. ASSUME NEW i \in 0..top, Stops(i) # {}
      PROVE  First(i) \in Stops(i) /\ \A j \in Stops(i) : First(i) <= j
  <2>1. Stops(i) \in SUBSET Nat
    OBVIOUS
  <2>2. \E k \in Stops(i) : \A j \in Stops(i) : k <= j
    BY <1>1, <2>1, LeastNatural
  <2> HIDE DEF Stops
  <2> QED BY <2>2
<1>2. ASSUME NEW i \in 0..top
      PROVE  u[i] = IF i < lo \/ i = top THEN Outside
                    ELSE IF Stop(i) THEN Answer(i) ELSE u[i + 1]
  <2>1. CASE i < lo \/ i = top
    <3>1. i = top => Stops(i) = {}
      OBVIOUS
    <3> HIDE DEF Stops, First, Answer
    <3> QED BY <2>1, <3>1
  <2>2. CASE ~(i < lo \/ i = top) /\ Stop(i)
    <3>1. i \in Stops(i) /\ Stops(i) # {}
      BY <2>2
    <3>2. First(i) <= i /\ First(i) \in Stops(i)
      BY <1>1, <3>1
    <3>3. First(i) = i
      <4> HIDE DEF First
      <4> QED BY <2>2, <3>2
    <3> HIDE DEF Stops, First, Answer, Stop
    <3> QED BY <2>2, <3>1, <3>3
  <2>3. CASE ~(i < lo \/ i = top) /\ ~Stop(i)
    <3>1. i + 1 \in 0..top /\ ~(i + 1 < lo)
      BY <2>3
    <3>2. Stops(i) = Stops(i + 1)
      <4>1. \A k : k \in i..top - 1 /\ Stop(k) <=> k \in (i + 1)..top - 1 /\ Stop(k)
        <5>1. \A k \in i..top - 1 : k = i \/ k \in (i + 1)..top - 1
          BY <2>3
        <5>2. \A k \in (i + 1)..top - 1 : k \in i..top - 1
          BY <2>3
        <5> HIDE DEF Stop
        <5> QED BY <2>3, <5>1, <5>2
      <4> HIDE DEF Stop
      <4> QED BY <4>1
    <3>3. First(i) = First(i + 1)
      BY <3>2
    <3> HIDE DEF Stops, First, Answer, Stop
    <3> QED BY <2>3, <3>1, <3>2, <3>3
  <2> QED BY <2>1, <2>2, <2>3
<1>3. u = [i \in 0..top |-> u[i]]
  <2> HIDE DEF Stops, First, Answer
  <2> QED OBVIOUS
<1> HIDE DEF u
<1>4. Walks(u, lo, top, Hit, End)
  BY <1>2 DEF Walks
<1> QED BY <1>3, <1>4

LEMMA NotSymbols ==
    /\ NULL # Outside
    /\ \A i : Symbol(i) # NULL /\ Symbol(i) # Outside /\ Symbol(i).is = "symbol" /\ Symbol(i).idx = i
BY DEF NULL, Outside, Symbol

(* It finds nothing else, and it finds what nothing before it ends.        *)
LEMMA WalkFinds ==
    ASSUME NEW lo \in Nat, NEW top \in Nat, NEW Hit, NEW End,
           NEW u, Walks(u, lo, top, Hit, End), NEW s \in 0..top
    PROVE  LET Found == {Symbol(k) : k \in Hit \intersect (lo..top - 1)}
           IN  /\ u[s] \in {NULL, Outside} \union Found
               /\ \A t \in Hit \intersect (lo..top - 1) :
                    s \in lo..t /\ (\A j \in s..t - 1 : j \notin End) => u[s] \in Found
<1> DEFINE Found == {Symbol(k) : k \in Hit \intersect (lo..top - 1)}
           Answer == {NULL, Outside} \union Found
           Good == {d \in Nat : d <= top => u[top - d] \in Answer}
<1>1. 0 \in Good
  <2>1. u[top] = Outside
    BY DEF Walks
  <2> HIDE DEF Found
  <2> QED BY <2>1
<1>2. ASSUME NEW d \in Nat, d \in Good
      PROVE  d + 1 \in Good
  <2> SUFFICES ASSUME d + 1 <= top PROVE u[top - (d + 1)] \in Answer
    BY DEF Good
  <2> DEFINE i == top - (d + 1)
  <2>1. i \in 0..top /\ i # top /\ i + 1 = top - d /\ d <= top
    OBVIOUS
  <2>2. u[i + 1] \in Answer
    BY <1>2, <2>1
  <2>3. i \in Hit /\ ~(i < lo) => Symbol(i) \in Found
    BY <2>1
  <2> HIDE DEF i, Found
  <2>4. u[i] \in Answer
    BY <2>1, <2>2, <2>3 DEF Walks
  <2> QED BY <2>4 DEF i
<1>3. u[s] \in Answer
  <2> DEFINE d == top - s
  <2>1. d \in Nat /\ top - d = s /\ d <= top
    OBVIOUS
  <2> HIDE DEF Good, d
  <2>2. d \in Good
    BY <1>1, <1>2, <2>1, SetInduction
  <2> QED BY <2>1, <2>2 DEF Good
<1>4. ASSUME NEW t \in Hit \intersect (lo..top - 1)
      PROVE  s \in lo..t /\ (\A j \in s..t - 1 : j \notin End) => u[s] \in Found
  <2> DEFINE Near == {d \in Nat : t - d \in lo..t /\ (\A j \in t - d..t - 1 : j \notin End)
                                      => u[t - d] \in Found}
  <2>1. t \in lo..top - 1 /\ t \in Nat /\ t \in 0..top /\ t # top /\ ~(t < lo) /\ t \in Hit
    OBVIOUS
  <2>2. 0 \in Near
    <3>1. u[t] = Symbol(t) /\ t - 0 = t
      BY <2>1 DEF Walks
    <3>2. Symbol(t) \in Found
      OBVIOUS
    <3> HIDE DEF Found
    <3> QED BY <3>1, <3>2
  <2>3. ASSUME NEW d \in Nat, d \in Near
        PROVE  d + 1 \in Near
    <3> DEFINE i == t - (d + 1)
    <3> SUFFICES ASSUME i \in lo..t, \A j \in i..t - 1 : j \notin End
                 PROVE  u[i] \in Found
      BY DEF Near
    <3>1. /\ i \in 0..top /\ i # top /\ ~(i < lo) /\ i + 1 = t - d /\ t - d \in lo..t
          /\ i \in i..t - 1 /\ i \in lo..top - 1
      BY <2>1
    <3>2. \A j \in t - d..t - 1 : j \in i..t - 1
      BY <2>1
    <3>3. u[i + 1] \in Found
      BY <2>3, <3>1, <3>2
    <3>4. i \in Hit => Symbol(i) \in Found
      BY <3>1
    <3> HIDE DEF i, Found
    <3> QED BY <3>1, <3>3, <3>4 DEF Walks
  <2>4. Nat \subseteq Near
    <3> HIDE DEF Near
    <3> QED BY <2>2, <2>3, SetInduction
  <2> SUFFICES ASSUME s \in lo..t, \A j \in s..t - 1 : j \notin End PROVE u[s] \in Found
    OBVIOUS
  <2> DEFINE d == t - s
  <2>5. d \in Nat /\ t - d = s
    BY <2>1
  <2> HIDE DEF d
  <2>6. d \in Near
    BY <2>4, <2>5
  <2> HIDE DEF Found
  <2> QED BY <2>5, <2>6
<1> HIDE DEF Found
<1> QED BY <1>3, <1>4 DEF Found

(* What the search of a GNU table gives.                                   *)
LEMMA GnuFinds ==
    ASSUME NEW lib, GnuOK(lib), lib.hash \in [DOMAIN lib.hash -> Nat],
           \A i \in DOMAIN lib.symtab \ {0} : lib.symtab[i].name \in DOMAIN lib.hash,
           NEW name \in DOMAIN lib.hash
    PROVE  LET Named == {i \in Hashed(lib) : lib.symtab[i].name = name}
               r == gnu_hash_find(lib, name)
           IN  /\ r \in {NULL, Outside} \union {Symbol(i) : i \in Named}
               /\ Named # {} => r \in {Symbol(i) : i \in Named}
<1> DEFINE gnu == lib.gnu
           lo == gnu.symoffset
           top == lo + Len(gnu.chains)
           Named == {i \in Hashed(lib) : lib.symtab[i].name = name}
           Bucket(i) == HashOf(lib, i) % gnu.nbuckets
           Chain(i) == gnu.chains[i - lo + 1]
           Hit == {i \in Hashed(lib) : Chain(i) \div 2 = lib.hash[name] \div 2
                                       /\ lib.symtab[i].name = name}
           End == {i \in Hashed(lib) : Chain(i) % 2 # 0}
           start == gnu.buckets[lib.hash[name] % gnu.nbuckets]
           Body(f, i) == IF i < lo \/ i - lo >= Len(gnu.chains) THEN Outside
                         ELSE IF Chain(i) \div 2 = lib.hash[name] \div 2
                                 /\ lib.symtab[i].name = name
                              THEN Symbol(i)
                         ELSE IF Chain(i) % 2 # 0 THEN NULL
                         ELSE f[i + 1]
           Solves(f) == f = [i \in 0..lo + Len(gnu.chains) |-> Body(f, i)]
           find == CHOOSE f : Solves(f)
<1>1. gnu_hash_find(lib, name) = IF InBloom(lib, name) THEN find[start] ELSE NULL
  BY DEF gnu_hash_find
<1>2. /\ lo \in Nat \ {0} /\ gnu.nbuckets \in Nat \ {0} /\ Len(gnu.chains) \in Nat
      /\ top \in Nat /\ lo <= top /\ top - lo = Len(gnu.chains)
      /\ Hashed(lib) = lo..top - 1
  <2>1. /\ lo \in Nat \ {0} /\ gnu.nbuckets \in Nat \ {0} /\ gnu.chains \in Seq(Nat)
    BY DEF GnuOK
  <2>2. Hashed(lib) = lo..lo + Len(gnu.chains) - 1
    BY DEF Hashed
  <2>3. Len(gnu.chains) \in Nat
    BY <2>1
  <2> HIDE DEF gnu, lo
  <2> QED BY <2>1, <2>2, <2>3
<1>3. ASSUME NEW f, NEW i \in 0..top
      PROVE  Body(f, i) = IF i < lo \/ i = top THEN Outside
                          ELSE IF i \in Hit THEN Symbol(i)
                          ELSE IF i \in End THEN NULL
                          ELSE f[i + 1]
  <2>1. CASE i < lo \/ i = top
    BY <1>2, <2>1
  <2>2. CASE ~(i < lo \/ i = top)
    <3>1. i \in Hashed(lib) /\ ~(i < lo \/ i - lo >= Len(gnu.chains))
      BY <1>2, <2>2
    <3> HIDE DEF Chain, lo, top
    <3> QED BY <2>2, <3>1
  <2> QED BY <2>1, <2>2
<1> HIDE DEF Hit, End, Chain, Bucket
<1>4. Walks(find, lo, top, Hit, End)
  <2>1. PICK u : u = [i \in 0..top |-> u[i]] /\ Walks(u, lo, top, Hit, End)
    BY <1>2, WalkExists
  <2>2. \A i \in 0..top : u[i] = Body(u, i)
    <3> HIDE DEF Body
    <3> QED BY <1>3, <2>1 DEF Walks
  <2>3. Solves(u)
    <3> HIDE DEF Body
    <3> QED BY <2>1, <2>2
  <2>4. Solves(find)
    <3> HIDE DEF Solves
    <3> QED BY <2>3
  <2>5. \A i \in 0..top : find[i] = Body(find, i)
    <3> HIDE DEF find, Body
    <3> QED BY <2>4
  <2> HIDE DEF find, Body
  <2> QED BY <1>3, <2>5 DEF Walks
<1> HIDE DEF find, Body, Solves
<1>5. /\ \A i \in Hashed(lib) : HashOf(lib, i) = lib.hash[lib.symtab[i].name]
      /\ lib.hash[name] \in Nat /\ lib.hash[name] % gnu.nbuckets \in 0..gnu.nbuckets - 1
  <2>1. \A i \in Hashed(lib) : HashOf(lib, i) = lib.hash[lib.symtab[i].name]
    BY DEF HashOf
  <2>2. lib.hash[name] \in Nat
    OBVIOUS
  <2>3. \A h \in Nat : \A n \in Nat \ {0} : h % n \in 0..n - 1
    OBVIOUS
  <2>4. gnu.nbuckets \in Nat \ {0}
    BY <1>2
  <2> HIDE DEF gnu
  <2> QED BY <2>1, <2>2, <2>3, <2>4
<1>6. start \in 0..top
  <2>1. start \in Hashed(lib) \union {0}
    BY <1>5 DEF GnuOK
  <2> HIDE DEF start, lo
  <2> QED BY <1>2, <2>1
<1> DEFINE Found == {Symbol(k) : k \in Hit \intersect (lo..top - 1)}
<1>7. /\ find[start] \in {NULL, Outside} \union Found
      /\ \A t \in Hit \intersect (lo..top - 1) :
            start \in lo..t /\ (\A j \in start..t - 1 : j \notin End) => find[start] \in Found
  BY <1>2, <1>4, <1>6, WalkFinds
<1>8. Found \subseteq {Symbol(i) : i \in Named}
  BY DEF Hit
<1>9. ASSUME NEW t \in Named
      PROVE  InBloom(lib, name) /\ find[start] \in Found
  <2>1. t \in Hashed(lib) /\ t \in lo..top - 1 /\ HashOf(lib, t) = lib.hash[name]
    BY <1>2, <1>5
  <2>2. InBloom(lib, name)
    BY <2>1 DEF GnuOK, InBloom
  <2>3. t \in Hit
    BY <2>1 DEF GnuOK, Hit, Chain
  <2>4. start \in Hashed(lib) /\ start <= t /\ Bucket(start) = Bucket(t)
    BY <2>1 DEF GnuOK, Bucket
  <2>5. ASSUME NEW j \in start..t - 1
        PROVE  j \notin End
    <3>1. /\ j \in Hashed(lib) /\ j + 1 \in Hashed(lib) /\ j # top - 1
          /\ start <= j /\ j + 1 <= t /\ j <= j + 1
      <4>1. start \in lo..top - 1 /\ start <= t
        BY <1>2, <2>4
      <4> HIDE DEF start, lo, top
      <4> QED BY <1>2, <2>1, <4>1
    <3>2. \A i, k \in Hashed(lib) : i <= k => Bucket(i) <= Bucket(k)
      BY DEF GnuOK, Bucket
    <3>3. \A i \in Hashed(lib) : Bucket(i) \in Nat
      <4>1. ASSUME NEW i \in Hashed(lib) PROVE HashOf(lib, i) \in Nat
        <5>1. i \in DOMAIN lib.symtab \ {0}
          <6>1. DOMAIN lib.symtab = 0..lo + Len(gnu.chains) - 1
            BY DEF GnuOK
          <6> HIDE DEF lo, gnu
          <6> QED BY <1>2, <6>1
        <5>2. lib.symtab[i].name \in DOMAIN lib.hash
          BY <5>1
        <5> QED BY <5>2 DEF HashOf
      <4>2. gnu.nbuckets \in Nat \ {0}
        BY <1>2
      <4> HIDE DEF gnu
      <4> QED BY <4>1, <4>2 DEF Bucket
    <3>4. Bucket(j) = Bucket(j + 1)
      <4>1. /\ Bucket(start) <= Bucket(j) /\ Bucket(j) <= Bucket(j + 1)
            /\ Bucket(j + 1) <= Bucket(t)
        BY <2>1, <2>4, <3>1, <3>2
      <4>2. Bucket(start) \in Nat /\ Bucket(j) \in Nat /\ Bucket(j + 1) \in Nat
        BY <2>4, <3>1, <3>3
      <4> QED BY <2>4, <4>1, <4>2
    <3>5. Chain(j) % 2 # 1 /\ Chain(j) \in Nat
      <4>1. Chain(j) % 2 # 1
        <5>1. Chain(j) % 2 = 1 <=> j = top - 1 \/ Bucket(j + 1) # Bucket(j)
          <6>1. \A i \in Hashed(lib) :
                   Chain(i) % 2 = 1 <=>
                       i = lo + Len(gnu.chains) - 1 \/ Bucket(i + 1) # Bucket(i)
            BY DEF GnuOK, Chain, Bucket
          <6>2. lo + Len(gnu.chains) - 1 = top - 1
            <7> DEFINE n == Len(gnu.chains)
            <7>1. n \in Nat /\ lo \in Nat /\ top = lo + n
              BY <1>2
            <7> HIDE DEF n, lo, top
            <7>2. lo + n - 1 = top - 1
              BY <7>1
            <7> QED BY <7>2 DEF n
          <6> HIDE DEF lo, top, gnu
          <6> QED BY <3>1, <6>1, <6>2
        <5> HIDE DEF top
        <5> QED BY <3>1, <3>4, <5>1
      <4>2. j - lo + 1 \in 1..Len(gnu.chains)
        <5>1. j \in lo..top - 1
          BY <1>2, <3>1
        <5> DEFINE n == Len(gnu.chains)
        <5>2. n \in Nat /\ top - lo = n /\ lo \in Nat /\ top \in Nat
          BY <1>2
        <5> HIDE DEF lo, top, n
        <5>3. j - lo + 1 \in 1..n
          BY <5>1, <5>2
        <5> QED BY <5>3 DEF n
      <4>3. gnu.chains \in Seq(Nat)
        BY DEF GnuOK
      <4> HIDE DEF lo
      <4> QED BY <4>1, <4>2, <4>3 DEF Chain
    <3>6. Chain(j) % 2 = 0
      BY <3>5
    <3> QED BY <3>6 DEF End
  <2>6. start \in lo..t
    BY <1>2, <2>1, <2>4
  <2> HIDE DEF start, Found
  <2> QED BY <1>7, <2>1, <2>2, <2>3, <2>5, <2>6
<1> HIDE DEF Found, start, Named
<1> SUFFICES /\ gnu_hash_find(lib, name) \in {NULL, Outside} \union {Symbol(i) : i \in Named}
             /\ Named # {} => gnu_hash_find(lib, name) \in {Symbol(i) : i \in Named}
  BY DEF Named
<1> QED BY <1>1, <1>7, <1>8, <1>9

(* The older table: a function that follows the chains.  Ahead of a symbol *)
(* are those that its search may come to.                                  *)
Follows(u, D, next, Hit) ==
    \A i \in D : u[i] = IF i = 0 THEN NULL ELSE IF i \in Hit THEN Symbol(i) ELSE u[next[i]]

LEMMA FollowExists ==
    ASSUME NEW D, NEW next \in [D -> D], NEW Hit, 0 \notin Hit
    PROVE  \E u : u = [i \in D |-> u[i]] /\ Follows(u, D, next, Hit)
<1> DEFINE Closed(C) == \A k \in C : k # 0 /\ k \notin Hit => next[k] \in C
           Ahead(i) == {j \in D : \A C \in SUBSET D : Closed(C) /\ i \in C => j \in C}
           Hits(i) == Ahead(i) \intersect Hit
           u == [i \in D |-> IF Hits(i) = {} THEN NULL ELSE Symbol(AnyOf(Hits(i)))]
<1>1. ASSUME NEW i \in D PROVE i \in Ahead(i) /\ Ahead(i) \in SUBSET D /\ Closed(Ahead(i))
  <2>1. i \in Ahead(i) /\ Ahead(i) \in SUBSET D
    OBVIOUS
  <2>2. ASSUME NEW k \in Ahead(i), k # 0, k \notin Hit
        PROVE  next[k] \in Ahead(i)
    <3>1. next[k] \in D /\ k \in D
      OBVIOUS
    <3>2. ASSUME NEW C \in SUBSET D, Closed(C), i \in C PROVE next[k] \in C
      <4>1. k \in C
        BY <3>2
      <4> QED BY <2>2, <3>2, <4>1
    <3> HIDE DEF Closed
    <3> QED BY <3>1, <3>2
  <2> HIDE DEF Ahead
  <2> QED BY <2>1, <2>2
<1>2. ASSUME NEW i \in D, NEW C \in SUBSET D, Closed(C), i \in C
      PROVE  Ahead(i) \subseteq C
  <2> HIDE DEF Closed
  <2> QED BY <1>2
<1>3. ASSUME NEW i \in D
      PROVE  u[i] = IF i = 0 THEN NULL ELSE IF i \in Hit THEN Symbol(i) ELSE u[next[i]]
  <2>1. CASE i = 0 \/ i \in Hit
    <3>1. Closed({i}) /\ {i} \in SUBSET D
      BY <2>1
    <3>2. Ahead(i) = {i}
      <4>1. Ahead(i) \subseteq {i}
        BY <1>2, <3>1
      <4> HIDE DEF Ahead
      <4> QED BY <1>1, <4>1
    <3>3. CASE i = 0
      <4>1. Hits(i) = {}
        BY <3>2, <3>3
      <4> HIDE DEF Hits
      <4> QED BY <3>3, <4>1
    <3>4. CASE i \in Hit
      <4>1. Hits(i) = {i} /\ i # 0
        BY <3>2, <3>4
      <4>2. AnyOf(Hits(i)) = i
        BY <4>1 DEF AnyOf
      <4> HIDE DEF Hits
      <4> QED BY <3>4, <4>1, <4>2
    <3> QED BY <2>1, <3>3, <3>4
  <2>2. CASE i # 0 /\ i \notin Hit
    <3> DEFINE n == next[i]
    <3>1. n \in D /\ n \in Ahead(i)
      <4> HIDE DEF Ahead
      <4> QED BY <1>1, <2>2
    <3>2. Ahead(n) \subseteq Ahead(i)
      <4> HIDE DEF Ahead, Closed
      <4> QED BY <1>1, <1>2, <3>1
    <3>3. Ahead(i) \subseteq {i} \union Ahead(n)
      <4> DEFINE C == {i} \union Ahead(n)
      <4>1. Closed(C) /\ C \in SUBSET D /\ i \in C
        <5>1. Closed(Ahead(n)) /\ n \in Ahead(n) /\ Ahead(n) \in SUBSET D
          <6> HIDE DEF Closed, Ahead
          <6> QED BY <1>1, <3>1
        <5> HIDE DEF Ahead
        <5> QED BY <5>1
      <4> HIDE DEF C, Closed, Ahead
      <4>2. Ahead(i) \subseteq C
        BY <1>2, <4>1
      <4> QED BY <4>2 DEF C
    <3>4. Hits(i) = Hits(n)
      <4> HIDE DEF Ahead
      <4> QED BY <2>2, <3>2, <3>3
    <3> HIDE DEF Hits
    <3> QED BY <2>2, <3>1, <3>4
  <2> QED BY <2>1, <2>2
<1>4. u = [i \in D |-> u[i]]
  <2> HIDE DEF Hits
  <2> QED OBVIOUS
<1> HIDE DEF u
<1> QED BY <1>3, <1>4 DEF Follows

(* What the search of the older table gives.                               *)
LEMMA SysvFinds ==
    ASSUME NEW lib, SysvOK(lib), lib.hash \in [DOMAIN lib.hash -> Nat],
           0 \in DOMAIN lib.symtab, lib.symtab[0].name \notin DOMAIN lib.hash,
           NEW name \in DOMAIN lib.hash
    PROVE  LET Named == {i \in DOMAIN lib.symtab : lib.symtab[i].name = name}
               r == elf_hash_find(lib, name)
           IN  /\ r \in {NULL} \union {Symbol(i) : i \in Named}
               /\ Named # {} => r \in {Symbol(i) : i \in Named}
<1> DEFINE sysv == lib.sysv
           D == DOMAIN lib.symtab
           syms == D \ {0}
           next == sysv.chains
           Hit == {i \in D : lib.symtab[i].name = name}
           Bucket(i) == HashOf(lib, i) % sysv.nbuckets
           head == sysv.buckets[lib.hash[name] % sysv.nbuckets]
           Body(f, i) == IF i = 0 THEN NULL
                         ELSE IF lib.symtab[i].name = name THEN Symbol(i)
                         ELSE f[sysv.chains[i]]
           Solves(f) == f = [i \in DOMAIN sysv.chains |-> Body(f, i)]
           find == CHOOSE f : Solves(f)
<1>1. elf_hash_find(lib, name) = find[head]
  BY DEF elf_hash_find
<1>2. /\ next \in [D -> D] /\ DOMAIN sysv.chains = D
      /\ sysv.nbuckets \in Nat \ {0}
      /\ sysv.buckets \in [0..sysv.nbuckets - 1 -> D]
  BY DEF SysvOK
<1>3. \A S \in (SUBSET syms) \ {{}} :
          /\ \E i \in S : next[i] \notin S
          /\ \E i \in S : \/ sysv.buckets[Bucket(i)] = i
                          \/ \E k \in syms \ S : next[k] = i /\ Bucket(k) = Bucket(i)
  BY DEF SysvOK
<1>4. 0 \notin Hit
  OBVIOUS
<1>5. ASSUME NEW f, NEW i \in D
      PROVE  Body(f, i) = IF i = 0 THEN NULL ELSE IF i \in Hit THEN Symbol(i) ELSE f[next[i]]
  OBVIOUS
<1>6. Follows(find, D, next, Hit)
  <2> HIDE DEF Hit, D, next
  <2>1. PICK u : u = [i \in D |-> u[i]] /\ Follows(u, D, next, Hit)
    BY <1>2, <1>4, FollowExists
  <2>2. \A i \in D : u[i] = Body(u, i)
    <3> HIDE DEF Body
    <3> QED BY <1>5, <2>1 DEF Follows
  <2>3. Solves(u)
    <3> HIDE DEF Body
    <3> QED BY <1>2, <2>1, <2>2
  <2>4. Solves(find)
    <3> HIDE DEF Solves
    <3> QED BY <2>3
  <2>5. \A i \in D : find[i] = Body(find, i)
    <3> HIDE DEF find, Body
    <3> QED BY <1>2, <2>4
  <2> HIDE DEF find, Body
  <2> QED BY <1>5, <2>5 DEF Follows
<1> HIDE DEF find, Body, Solves
<1>7. head \in D
  <2>1. lib.hash[name] % sysv.nbuckets \in 0..sysv.nbuckets - 1
    BY <1>2
  <2> QED BY <1>2, <2>1
<1>8. \A t \in Hit : Bucket(t) = lib.hash[name] % sysv.nbuckets
  BY DEF HashOf
<1> DEFINE Found == {Symbol(k) : k \in Hit}
<1> HIDE DEF Hit, D, next, head, Bucket, Found, sysv
(* It ends, and so it finds a symbol of the name or none. *)
<1>9. find[head] \in {NULL} \union Found
  <2> DEFINE Bad == {i \in syms : find[i] \notin {NULL} \union Found}
  <2>1. ASSUME Bad # {} PROVE FALSE
    <3>1. PICK i \in Bad : next[i] \notin Bad
      <4>1. Bad \in (SUBSET syms) \ {{}}
        BY <2>1
      <4> HIDE DEF Bad
      <4> QED BY <1>3, <4>1
    <3>2. i \in D /\ i # 0 /\ next[i] \in D
      BY <1>2
    <3>3. find[next[i]] \in {NULL} \union Found
      <4>1. 0 \in D
        BY DEF D
      <4>2. find[0] = NULL
        BY <1>6, <4>1 DEF Follows
      <4> QED BY <3>1, <3>2, <4>2
    <3>4. i \in Hit => Symbol(i) \in Found
      BY DEF Found
    <3>5. find[i] \in {NULL} \union Found
      BY <1>6, <3>2, <3>3, <3>4 DEF Follows
    <3> QED BY <3>1, <3>5
  <2>2. head = 0 => find[head] = NULL
    BY <1>6, <1>7 DEF Follows
  <2> QED BY <1>7, <2>1, <2>2
(* If it finds none, no symbol of the bucket leads to one.                 *)
<1>10. ASSUME NEW t \in Hit, find[head] = NULL PROVE FALSE
  <2> DEFINE S == {i \in syms : Bucket(i) = Bucket(t) /\ find[i] # NULL}
  <2>1. t \in S
    <3>1. t \in D /\ t # 0
      BY <1>4 DEF Hit
    <3>2. find[t] = Symbol(t)
      BY <1>6, <3>1 DEF Follows
    <3> QED BY <3>1, <3>2, NotSymbols
  <2>2. PICK i \in S : \/ sysv.buckets[Bucket(i)] = i
                       \/ \E k \in syms \ S : next[k] = i /\ Bucket(k) = Bucket(i)
    <3>1. S \in (SUBSET syms) \ {{}}
      BY <2>1
    <3> HIDE DEF S
    <3> QED BY <1>3, <3>1
  <2>3. CASE sysv.buckets[Bucket(i)] = i
    <3>1. i = head
      BY <1>8, <2>3 DEF head
    <3> QED BY <1>10, <2>2, <3>1
  <2>4. CASE \E k \in syms \ S : next[k] = i /\ Bucket(k) = Bucket(i)
    <3>1. PICK k \in syms \ S : next[k] = i /\ Bucket(k) = Bucket(i)
      BY <2>4
    <3>2. find[k] = NULL
      BY <2>2, <3>1
    <3>3. k \in D /\ k # 0
      OBVIOUS
    <3>4. find[k] = find[i]
      BY <1>6, <3>1, <3>2, <3>3, NotSymbols DEF Follows
    <3> QED BY <2>2, <3>2, <3>4
  <2> QED BY <2>2, <2>3, <2>4
<1>11. Hit # {} => find[head] \in Found
  BY <1>9, <1>10
<1> QED BY <1>1, <1>9, <1>11 DEF Hit, D, Found

(* Tables are found at the addresses they are mapped at.                   *)
LEMMA TablesThere ==
    ASSUME NEW lib, \A tag \in DOMAIN lib.dyn : Addressed(lib, tag), NEW tag
    PROVE  Has(lib, tag) <=> tag \in DOMAIN lib.dyn
<1>1. CASE tag \notin DOMAIN lib.dyn
  BY <1>1 DEF Has, lib_dt_lookup
<1>2. CASE tag \in DOMAIN lib.dyn
  <2> DEFINE d_ptr == lib.dyn[tag]
             shows == d_ptr >= lib.base /\ d_ptr < HighAddr
             there == (lib.base + d_ptr) % AddrSpan
  <2>1. PICK addr \in DOMAIN lib.at \ {0} :
           lib.at[addr] = tag /\ ((shows /\ addr = d_ptr) \/ (~shows /\ addr = there))
    BY <1>2 DEF Addressed
  <2>2. lib_dt_lookup(lib, tag) = IF shows THEN d_ptr ELSE there
    BY <1>2 DEF lib_dt_lookup
  <2> HIDE DEF d_ptr, shows, there
  <2>3. lib_dt_lookup(lib, tag) = addr
    BY <2>1, <2>2
  <2> QED BY <1>2, <2>1, <2>3 DEF Has
<1> QED BY <1>1, <1>2

LEMMA LookupFinds ==
    ASSUME NEW lib, TablesOK(lib), NEW name \in DOMAIN lib.hash
    PROVE  LET sym == sym_lookup_dyn(lib, name)
           IN  IF HasSymbol(lib, name)
               THEN /\ sym.is = "symbol" /\ lib.symtab[sym.idx].name = name
                    /\ sym.idx \in DOMAIN lib.symtab /\ sym # NULL /\ sym # Outside
               ELSE sym \in {NULL, Outside}
<1> DEFINE sym == sym_lookup_dyn(lib, name)
<1>1. /\ \A tag : Has(lib, tag) <=> tag \in DOMAIN lib.dyn
      /\ Has(lib, "SYMTAB") /\ Has(lib, "STRTAB")
      /\ Has(lib, "GNU_HASH") \/ Has(lib, "HASH")
  BY TablesThere DEF TablesOK
<1>2. CASE Has(lib, "GNU_HASH")
  <2> DEFINE Named == {i \in Hashed(lib) : lib.symtab[i].name = name}
  <2>1. sym = gnu_hash_find(lib, name)
    BY <1>1, <1>2 DEF sym_lookup_dyn
  <2>2. /\ GnuOK(lib) /\ lib.hash \in [DOMAIN lib.hash -> Nat]
        /\ \A i \in DOMAIN lib.symtab \ {0} : lib.symtab[i].name \in DOMAIN lib.hash
    BY <1>1, <1>2 DEF TablesOK
  <2>3. /\ sym \in {NULL, Outside} \union {Symbol(i) : i \in Named}
        /\ Named # {} => sym \in {Symbol(i) : i \in Named}
    BY <2>1, <2>2, GnuFinds
  <2>4. HasSymbol(lib, name) <=> Named # {}
    <3>1. Hashed(lib) \subseteq DOMAIN lib.symtab
      BY <2>2 DEF GnuOK, Hashed
    <3> QED BY <1>2, <3>1 DEF HasSymbol
  <2>5. \A i \in Named : lib.symtab[i].name = name /\ i \in DOMAIN lib.symtab
    BY <2>2 DEF GnuOK, Hashed
  <2> HIDE DEF sym, Named
  <2>6. CASE Named # {}
    <3>1. PICK i \in Named : sym = Symbol(i)
      BY <2>3, <2>6
    <3> QED BY <2>4, <2>5, <2>6, <3>1, NotSymbols DEF sym
  <2>7. CASE Named = {}
    BY <2>3, <2>4, <2>7 DEF sym
  <2> QED BY <2>6, <2>7
<1>3. CASE ~Has(lib, "GNU_HASH")
  <2> DEFINE Named == {i \in DOMAIN lib.symtab : lib.symtab[i].name = name}
  <2>1. sym = elf_hash_find(lib, name)
    BY <1>1, <1>3 DEF sym_lookup_dyn
  <2>2. /\ SysvOK(lib) /\ lib.hash \in [DOMAIN lib.hash -> Nat]
        /\ 0 \in DOMAIN lib.symtab /\ lib.symtab[0].name \notin DOMAIN lib.hash
    BY <1>1, <1>3 DEF TablesOK
  <2>3. /\ sym \in {NULL} \union {Symbol(i) : i \in Named}
        /\ Named # {} => sym \in {Symbol(i) : i \in Named}
    BY <2>1, <2>2, SysvFinds
  <2>4. HasSymbol(lib, name) <=> Named # {}
    BY <1>3 DEF HasSymbol
  <2>5. \A i \in Named : lib.symtab[i].name = name /\ i \in DOMAIN lib.symtab
    OBVIOUS
  <2> HIDE DEF sym, Named
  <2>6. CASE Named # {}
    <3>1. PICK i \in Named : sym = Symbol(i)
      BY <2>3, <2>6
    <3> QED BY <2>4, <2>5, <2>6, <3>1, NotSymbols DEF sym
  <2>7. CASE Named = {}
    BY <2>3, <2>4, <2>7 DEF sym
  <2> QED BY <2>6, <2>7
<1> QED BY <1>2, <1>3

LEMMA ProgramStays == TablesSpec => [](prog \in Program)
<1>1. prog \in Program /\ [Next]_vars => (prog \in Program)'
  BY DEF Next, Step, vars
<1> QED BY <1>1, PTL DEF TablesSpec, Spec

(* For every program with well-made tables, of any size: a lookup in an    *)
(* object finds a symbol of the name exactly if the table has one, whatever*)
(* collides (plt-elf.c:69-81, 346-432).                                    *)
THEOREM TablesTell == TablesSpec => []FindsWhatIsThere
<1>1. prog \in Program => FindsWhatIsThere
  BY TablesAssumption, LookupFinds DEF FindsWhatIsThere
<1> QED BY <1>1, ProgramStays, PTL

-----------------------------------------------------------------------------
(* An object is passed over exactly if it does not define the name; where  *)
(* it is not, the address is that of the function of this name.            *)
LEMMA ObjectDefines ==
    ASSUME NEW i \in DOMAIN prog.objs, TablesOK(prog.objs[i]), prog.fmt = "ELF",
           NEW name \in Needed, sym_lookup_dyn(prog.objs[i], name) # Outside
    PROVE  /\ Passed(prog, i, name) <=> ~Defines(prog.objs[i], name)
           /\ Reached(prog, i, name) \subseteq {Code(i, name)}
<1> DEFINE lib == prog.objs[i]
           sym == sym_lookup_dyn(lib, name)
<1>1. name \in DOMAIN lib.hash
  BY DEF TablesOK
<1>2. Defines(lib, name) => HasSymbol(lib, name)
  <2>1. Has(lib, "GNU_HASH") => "GNU_HASH" \in DOMAIN lib.dyn
    BY TablesThere DEF TablesOK
  <2> QED BY <2>1 DEF Defines, HasSymbol, TablesOK
<1>3. CASE HasSymbol(lib, name)
  <2>1. /\ sym.idx \in DOMAIN lib.symtab /\ lib.symtab[sym.idx].name = name
        /\ sym # NULL /\ sym # Outside
    BY <1>1, <1>3, LookupFinds
  <2>2. Defines(lib, name) <=> lib.symtab[sym.idx].size # 0
    BY <2>1 DEF Defines, TablesOK
  <2> QED BY <2>1, <2>2 DEF Passed, Reached, AddressOf
<1>4. CASE ~HasSymbol(lib, name)
  <2>1. sym = NULL
    BY <1>1, <1>4, LookupFinds
  <2> QED BY <1>2, <1>4, <2>1 DEF Passed, Reached
<1> QED BY <1>3, <1>4

(* Hence in every format a lookup finds the first definition.              *)
LEMMA RealIsFirst ==
    ASSUME IsProgram, prog \in Program, NEW v, v \in Needed \/ prog.fmt # "ELF"
    PROVE  /\ RealFn(v) \in {NULL, Outside} \union FirstDefinition(v)
           /\ prog.fmt # "ELF" /\ RealFn(v) = NULL => FirstDefinition(v) = {}
<1>1. CASE prog.fmt = "ELF"
  <2> DEFINE n == Len(prog.objs)
  <2>1. RealFn(v) \in {NULL, Outside} \union FirstReached(prog, n, v)
    BY <1>1, ElfFinds DEF IsProgram, RealFn, plt_get_real_fn
  <2>2. DOMAIN prog.objs = 1..n /\ n \in Nat /\ \A i \in 1..n : TablesOK(prog.objs[i])
    BY <1>1, TablesAssumption DEF IsProgram
  <2> HIDE DEF n
  <2>3. ASSUME NEW i \in 1..n, \A j \in 1..i - 1 : Passed(prog, j, v),
               NEW a \in Reached(prog, i, v)
        PROVE  a \in FirstDefinition(v)
    <3>1. \A j \in 1..i : sym_lookup_dyn(prog.objs[j], v) # Outside
      <4>1. NULL # Outside
        BY NotSymbols
      <4>2. \A j \in 1..i : j = i \/ j \in 1..i - 1
        OBVIOUS
      <4> QED BY <2>3, <4>1, <4>2 DEF Passed, Reached
    <3>2. \A j \in 1..i : j \in 1..n
      BY <2>2
    <3>3. \A j \in 1..i : /\ Passed(prog, j, v) <=> ~Defines(prog.objs[j], v)
                          /\ Reached(prog, j, v) \subseteq {Code(j, v)}
      BY <1>1, <2>2, <3>1, <3>2, ObjectDefines
    <3>4. ~Passed(prog, i, v)
      BY <2>3 DEF Reached
    <3>5. Defines(prog.objs[i], v) /\ a = Code(i, v) /\ i \in DOMAIN prog.objs
      BY <2>2, <2>3, <3>3, <3>4
    <3>6. \A j \in 1..i - 1 : ~Defines(prog.objs[j], v)
      BY <2>3, <3>3
    <3> QED BY <3>5, <3>6 DEF FirstDefinition
  <2> QED BY <1>1, <2>1, <2>3 DEF FirstReached
<1>2. CASE prog.fmt \in {"PE", "MachO"}
  <2> DEFINE n == Len(prog.objs)
             fits == {i \in 1..n : v \in prog.objs[i].exports}
  <2>1. /\ fits = {} <=> RealFn(v) = NULL
        /\ fits # {} => \E i \in fits : /\ \A j \in fits : i <= j
                                      /\ RealFn(v) = Code(i, v)
    BY <1>2, ExportIsFirst DEF IsProgram, RealFn, plt_get_real_fn, macho_get_real_fn
  <2>2. DOMAIN prog.objs = 1..n /\ n \in Nat
    BY DEF IsProgram
  <2> HIDE DEF n
  <2>3. \A i \in 1..n : Defines(prog.objs[i], v) <=> i \in fits
    BY <1>2 DEF Defines
  <2>4. ASSUME NEW i \in fits, \A j \in fits : i <= j PROVE Code(i, v) \in FirstDefinition(v)
    <3>1. i \in 1..n
      BY DEF fits
    <3>2. \A j \in 1..i - 1 : j \in 1..n /\ ~(i <= j)
      BY <2>2, <3>1
    <3> QED BY <2>2, <2>3, <2>4, <3>1, <3>2 DEF FirstDefinition
  <2>5. fits = {} => FirstDefinition(v) = {}
    BY <2>2, <2>3 DEF FirstDefinition
  <2> HIDE DEF fits
  <2> QED BY <2>1, <2>4, <2>5
<1> QED BY <1>1, <1>2 DEF IsProgram

(* Whatever the threads and the program, a vital pointer is null or leads  *)
(* to the first definition in load order of that very function, or to the  *)
(* fallback where there is none and the runtime's own was found: never to  *)
(* the function of another name, though names collide in the tables, and   *)
(* never to an import, which would go through the GOT.                     *)
THEOREM RealFunctions == TablesSpec => []VitalsAreReal
<1>1. IInv /\ prog \in Program => VitalsAreReal
  <2> SUFFICES ASSUME IInv, prog \in Program, NEW v \in Vital, ptr[v] # NULL
               PROVE  \/ ptr[v] \in FirstDefinition(v)
                      \/ /\ v = "vfprintf" /\ ptr[v] = Fallback /\ FirstDefinition(v) = {}
                         /\ common \in FirstDefinition("__stdio_common_vfprintf")
    BY DEF VitalsAreReal
  <2>1. IsProgram /\ v \in Needed
    <3>1. IsProgram
      BY DEF IInv
    <3> QED BY <3>1, Vitals5 DEF Needed
  <2>2. CASE ptr[v] = RealFn(v) /\ RealFn(v) # Outside
    BY <2>1, <2>2, RealIsFirst
  <2>3. CASE /\ v = "vfprintf" /\ ptr[v] = Fallback /\ prog.fmt = "PE" /\ RealFn(v) = NULL
             /\ common = Runtime /\ common # NULL
    <3>1. common # Outside
      BY <2>1, <2>3, RealIsCode DEF Runtime
    <3> QED BY <2>1, <2>3, <3>1, RealIsFirst DEF Runtime
  <2> QED BY <2>2, <2>3 DEF IInv, Values
<1>2. TablesSpec => Spec
  BY DEF TablesSpec
<1> QED BY <1>1, <1>2, Invariance, ProgramStays, PTL
=============================================================================
