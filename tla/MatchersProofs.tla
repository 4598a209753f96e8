-------------------------- MODULE MatchersProofs --------------------------
(***************************************************************************)
(* Whatever order C evaluates the arguments of a call expression in, the   *)
(* expression accepts the calls it says, and a mmk_verify answers what its *)
(* keys say: for any number of parameters, any values, serializers, limits *)
(* and counts.  And whatever signature a mock is defined for, the macros   *)
(* make the stub body that it asks for, up to the arguments they count.    *)
(***************************************************************************)
EXTENDS Expressions, Signatures, SetLemmas

(* The matcher of argument i.                                              *)
Made(i) == Matcher(KindOf(expr[i]), i, Accepted(i))
Nodes == {Made(i) : i \in DOMAIN expr}

(* The client wrote an expression; the arguments evaluated so far have     *)
(* left their matchers in the list, in the order of the source.            *)
WrittenOK ==
    /\ expr \in Expr
    /\ refs \in [DOMAIN expr -> Value]
    /\ named \in DOMAIN expr
    /\ bytes \in [Variadic -> Serializer]

Built ==
    /\ todo \subseteq Matched
    /\ list \in Seq(Nodes)
    /\ InOrder(list, [i \in DOMAIN expr |-> Made(i)], Matched \ todo)

Judged ==
    verify # NULL =>
        verify \in Verify /\ count \in Count /\ verdict = mmk_verify_times(verify, count)

IInv == WrittenOK /\ Built /\ Judged

-----------------------------------------------------------------------------
(* What the operators of Matchers answer for one parameter.                *)
LEMMA Kinds ==
    /\ KindOf("any").tag = "any" /\ KindOf("that").tag = "that"
    /\ \A n \in Name \ {"any", "that"} : KindOf(n).tag = "cmp"
    /\ KindOf("eq").bits = {"EQ"} /\ KindOf("ne").bits = {"LT", "GT"}
    /\ KindOf("lt").bits = {"LT"} /\ KindOf("le").bits = {"EQ", "LT"}
    /\ KindOf("gt").bits = {"GT"} /\ KindOf("ge").bits = {"EQ", "GT"}
BY DEF KindOf, Name, Kind, MMK_MATCHER_ANY, MMK_MATCHER_THAT, MMK_MATCHER_EQ,
       MMK_MATCHER_NEQ, MMK_MATCHER_LT, MMK_MATCHER_LEQ, MMK_MATCHER_GT, MMK_MATCHER_GEQ

(* A comparison lets through what the documentation of its matcher says of *)
(* two values that compare the way c says.                                 *)
LEMMA Compares ==
    ASSUME NEW n \in Name \ {"any", "that"}, NEW v \in Int, NEW r \in Int, NEW c \in Int,
           c = 0 <=> v = r,
           n \in Ordering => (c < 0 <=> v < r)
    PROVE  LetsThrough(KindOf(n), c) <=> Documented(n, v, r)
<1>1. CASE n = "eq"
  BY <1>1, Kinds DEF LetsThrough, Documented
<1>2. CASE n = "ne"
  BY <1>2, Kinds DEF LetsThrough, Documented
<1>3. CASE n = "lt"
  BY <1>3, Kinds DEF LetsThrough, Documented, Ordering
<1>4. CASE n = "le"
  BY <1>4, Kinds DEF LetsThrough, Documented, Ordering
<1>5. CASE n = "gt"
  BY <1>5, Kinds DEF LetsThrough, Documented, Ordering
<1>6. CASE n = "ge"
  BY <1>6, Kinds DEF LetsThrough, Documented, Ordering
<1> QED BY <1>1, <1>2, <1>3, <1>4, <1>5, <1>6 DEF Name

LEMMA NamedPasses ==
    ASSUME NEW n \in Name, NEW i, NEW v \in Value, NEW r \in Value
    PROVE  Passes(Matcher(KindOf(n), i, Predicate), v, r) <=> Documented(n, v, r)
<1> DEFINE m == Matcher(KindOf(n), i, Predicate)
<1>1. m.kind = KindOf(n) /\ m.data = Predicate
  BY DEF Matcher
<1>0. SUFFICES Passes(m, v, r) <=> Documented(n, v, r)
  OBVIOUS
<1> HIDE DEF m
<1>2. v \in Int /\ r \in Int
  BY ExpressionsAssumption
<1>3. CASE n = "any"
  BY <1>1, <1>3, Kinds DEF Passes, Documented
<1>4. CASE n = "that"
  BY <1>1, <1>4, Kinds DEF Passes, Documented
<1>5. CASE n \notin {"any", "that"}
  <2>1. LetsThrough(KindOf(n), v - r) <=> Documented(n, v, r)
    BY <1>2, <1>5, Compares
  <2>2. m.kind.tag = "cmp"
    BY <1>1, <1>5, Kinds
  <2> QED BY <1>1, <2>1, <2>2 DEF Passes
<1> QED BY <1>3, <1>4, <1>5

(* Copies compare equal exactly when the values are, and copies of one     *)
(* byte the way the values do.                                             *)
LEMMA Memcmp ==
    ASSUME NEW b, Serializes(b), NEW v \in Value, NEW r \in Value
    PROVE  /\ mmk_memcmp(b[v], b[r]) \in Int
           /\ mmk_memcmp(b[v], b[r]) = 0 <=> v = r
           /\ Len(b[v]) = 1 => mmk_memcmp(b[v], b[r]) = v - r
<1> DEFINE x == b[v]
           y == b[r]
           d == [i \in DOMAIN x |-> x[i] - y[i]]
           D == {i \in 1..Len(d) : d[i] # 0}
           k == SelectInSeq(d, LAMBDA e : e # 0)
<1>1. x \in Seq(Int) /\ y \in Seq(Int) /\ Len(x) = Len(y)
  BY DEF Serializes
<1>2. x = y <=> v = r
  BY DEF Serializes
<1>3. Len(x) = 1 => x = <<v>> /\ y = <<r>>
  BY <1>1 DEF Serializes
<1>4. v \in Int /\ r \in Int
  BY ExpressionsAssumption
<1>5. mmk_memcmp(x, y) = IF k = 0 THEN 0 ELSE x[k] - y[k]
  BY DEF mmk_memcmp
<1> HIDE DEF x, y
<1>6. /\ DOMAIN x = 1..Len(x) /\ DOMAIN y = 1..Len(x) /\ Len(x) \in Nat
      /\ Len(d) = Len(x) /\ \A i \in 1..Len(x) : d[i] = x[i] - y[i]
      /\ \A i \in 1..Len(x) : x[i] \in Int /\ y[i] \in Int
  <2>1. DOMAIN x = 1..Len(x) /\ DOMAIN y = 1..Len(x) /\ Len(x) \in Nat
    BY <1>1
  <2>2. \A i \in 1..Len(x) : x[i] \in Int /\ y[i] \in Int
    BY <1>1
  <2>3. d \in [1..Len(x) -> Int]
    BY <2>1, <2>2
  <2>4. d \in Seq(Int) /\ Len(d) = Len(x)
    BY <2>1, <2>3
  <2> QED BY <2>1, <2>2, <2>4
<1>7. k = IF D # {} THEN Min(D) ELSE 0
  BY DEF SelectInSeq
<1> HIDE DEF d
<1>8. CASE D = {}
  <2>1. ASSUME NEW i \in 1..Len(x) PROVE x[i] = y[i]
    <3>1. d[i] = 0 /\ d[i] = x[i] - y[i] /\ x[i] \in Int /\ y[i] \in Int
      BY <1>6, <1>8
    <3> QED BY <3>1
  <2>2. x = y
    BY <1>1, <1>6, <2>1
  <2>3. mmk_memcmp(x, y) = 0
    BY <1>5, <1>7, <1>8
  <2> QED BY <1>2, <1>4, <2>2, <2>3 DEF x, y
<1>9. CASE D # {}
  <2>0. D \in SUBSET Nat
    OBVIOUS
  <2>1. PICK m \in D : \A j \in D : m <= j
    <3> HIDE DEF D
    <3> QED BY <1>9, <2>0, LeastNatural
  <2>2. k = m
    BY <1>7, <1>9, <2>1 DEF Min
  <2> HIDE DEF k
  <2>3. m \in 1..Len(x) /\ x[m] # y[m] /\ x[m] \in Int /\ y[m] \in Int
    BY <1>6, <2>1
  <2>4. mmk_memcmp(x, y) = x[m] - y[m]
    BY <1>5, <2>2, <2>3
  <2>5. x # y
    BY <2>3
  <2>6. mmk_memcmp(x, y) \in Int /\ mmk_memcmp(x, y) # 0
    BY <2>3, <2>4
  <2>7. Len(x) = 1 => mmk_memcmp(x, y) = v - r
    BY <1>3, <2>3, <2>4
  <2> QED BY <1>2, <2>5, <2>6, <2>7 DEF x, y
<1> QED BY <1>8, <1>9

LEMMA VariadicPasses ==
    ASSUME NEW n \in Name, NEW i, NEW b, Serializes(b), NEW v \in Value, NEW r \in Value,
           n \in Ordering => Len(b[v]) = 1
    PROVE  PassesVa(Matcher(KindOf(n), i, {b[w] : w \in Predicate}), b[v], b[r])
             <=> Documented(n, v, r)
<1> DEFINE m == Matcher(KindOf(n), i, {b[w] : w \in Predicate})
           c == mmk_memcmp(b[v], b[r])
<1>1. m.kind = KindOf(n) /\ m.data = {b[w] : w \in Predicate}
  BY DEF Matcher
<1>2. v \in Int /\ r \in Int
  BY ExpressionsAssumption
<1>3. CASE n = "any"
  BY <1>1, <1>3, Kinds DEF PassesVa, Documented
<1>4. CASE n = "that"
  <2>1. PassesVa(m, b[v], b[r]) <=> b[v] \in {b[w] : w \in Predicate}
    BY <1>1, <1>4, Kinds DEF PassesVa
  <2>2. \A w \in Predicate : b[v] = b[w] => v = w
    BY DEF Serializes, Predicate
  <2>3. b[v] \in {b[w] : w \in Predicate} <=> v \in Predicate
    BY <2>2
  <2> QED BY <1>4, <2>1, <2>3 DEF Documented
<1>5. CASE n \notin {"any", "that"}
  <2>1. c \in Int /\ (c = 0 <=> v = r) /\ (Len(b[v]) = 1 => c = v - r)
    BY Memcmp
  <2> HIDE DEF c
  <2>2. n \in Ordering => (c < 0 <=> v < r)
    BY <1>2, <2>1
  <2>3. LetsThrough(KindOf(n), c) <=> Documented(n, v, r)
    BY <1>2, <1>5, <2>1, <2>2, Compares
  <2>4. m.kind.tag = "cmp"
    BY <1>1, <1>5, Kinds
  <2> QED BY <1>1, <2>3, <2>4 DEF PassesVa, c
<1> QED BY <1>3, <1>4, <1>5

-----------------------------------------------------------------------------
(* An expression has a number of parameters, and matchers for all of them  *)
(* or for none.                                                            *)
LEMMA Shape ==
    ASSUME WrittenOK
    PROVE  /\ Len(expr) \in Nat /\ DOMAIN expr = 1..Len(expr)
           /\ named \in 1..Len(expr)
           /\ \/ Matched = {} /\ \A i \in DOMAIN expr : expr[i] = "value"
              \/ Matched = 1..Len(expr) /\ \A i \in DOMAIN expr : expr[i] \in Name
           /\ refs \in Seq(Value) /\ Len(refs) = Len(expr)
           /\ \A i \in named + 1..Len(expr) : Serializes(bytes[i])
<1>1. PICK n \in 1..MaxArgs : expr \in [1..n -> Name] \union [1..n -> {"value"}]
  BY DEF WrittenOK, Expr
<1>2. n \in Nat /\ DOMAIN expr = 1..n
  BY <1>1, ExpressionsAssumption
<1>3. Len(expr) = n
  BY <1>1, <1>2
<1>4. ASSUME expr \in [1..n -> Name]
      PROVE  Matched = 1..n /\ \A i \in 1..n : expr[i] \in Name
  <2>1. \A i \in 1..n : expr[i] \in Name
    BY <1>4
  <2>2. \A x \in Name : x # "value"
    BY DEF Name
  <2> QED BY <1>2, <2>1, <2>2 DEF Matched
<1>5. ASSUME expr \in [1..n -> {"value"}]
      PROVE  Matched = {} /\ \A i \in 1..n : expr[i] = "value"
  BY <1>2, <1>5 DEF Matched
<1>6. refs \in Seq(Value) /\ Len(refs) = n
  <2>1. refs \in [1..n -> Value]
    BY <1>2 DEF WrittenOK
  <2> QED BY <1>2, <2>1
<1>7. ASSUME NEW i \in named + 1..Len(expr) PROVE Serializes(bytes[i])
  <2>1. bytes[i] \in Serializer
    BY DEF WrittenOK, Variadic
  <2> QED BY <2>1, ExpressionsAssumption
<1>8. named \in 1..Len(expr)
  BY <1>2, <1>3 DEF WrittenOK
<1>9. \/ Matched = {} /\ \A i \in DOMAIN expr : expr[i] = "value"
      \/ Matched = 1..Len(expr) /\ \A i \in DOMAIN expr : expr[i] \in Name
  <2>1. expr \in [1..n -> Name] \/ expr \in [1..n -> {"value"}]
    BY <1>1
  <2> QED BY <1>2, <1>3, <1>4, <1>5, <2>1
<1> QED BY <1>2, <1>3, <1>6, <1>7, <1>8, <1>9

LEMMA InitIInv == Init => IInv
<1> SUFFICES ASSUME Init PROVE IInv
  OBVIOUS
<1>1. WrittenOK
  <2>1. PICK k \in 0..MaxArgs - 1 : expr \in Expr /\ k < Len(expr) /\ named = Len(expr) - k
    BY DEF Init
  <2>2. PICK n \in 1..MaxArgs : expr \in [1..n -> Name] \union [1..n -> {"value"}]
    BY <2>1 DEF Expr
  <2>3. n \in Nat /\ k \in Nat /\ DOMAIN expr = 1..n /\ Len(expr) = n
    BY <2>2, ExpressionsAssumption
  <2>4. named \in DOMAIN expr
    BY <2>1, <2>3
  <2> QED BY <2>1, <2>4 DEF Init, WrittenOK
<1>2. Built
  <2>1. todo = Matched /\ list = << >>
    BY DEF Init
  <2>2. << >> \in Seq(Nodes) /\ DOMAIN << >> = {}
    OBVIOUS
  <2>3. InOrder(<< >>, [i \in DOMAIN expr |-> Made(i)], {})
    BY <2>2 DEF InOrder
  <2> QED BY <2>1, <2>2, <2>3 DEF Built
<1>3. Judged
  BY DEF Init, Judged
<1> QED BY <1>1, <1>2, <1>3 DEF IInv

(* What the client wrote does not change, nor what it means.               *)
LEMMA Fixed ==
    ASSUME UNCHANGED written
    PROVE  /\ WrittenOK' <=> WrittenOK
           /\ Nodes' = Nodes /\ Matched' = Matched
           /\ [i \in DOMAIN expr |-> Made(i)]' = [i \in DOMAIN expr |-> Made(i)]
<1>1. expr' = expr /\ refs' = refs /\ named' = named /\ bytes' = bytes
  BY DEF written
<1>2. \A i : Made(i)' = Made(i)
  BY <1>1 DEF Made, Accepted
<1> QED BY <1>1, <1>2 DEF WrittenOK, Variadic, Nodes, Matched

LEMMA EvalArgBuilt ==
    ASSUME WrittenOK, Built, NEW i, EvalArg(i)
    PROVE  Built'
<1> DEFINE F == [j \in DOMAIN expr |-> Made(j)]
           S == Matched \ todo
<1>1. /\ i \in todo /\ todo' = todo \ {i}
      /\ list' = mmk_matcher_add(list, Made(i))
      /\ UNCHANGED written
  BY DEF EvalArg, Made
<1>2. i \in Matched /\ i \in DOMAIN expr /\ Matched \subseteq Nat /\ i \in Nat \ S
  BY <1>1, Shape DEF Built, Matched
<1>3. F[i] = Made(i) /\ F[i] \in Nodes /\ F[i].prio = i
  BY <1>2 DEF Nodes, Made, Matcher
<1>4. InOrder(list, F, S) /\ list \in Seq(Nodes)
  BY DEF Built
<1>5. S \union {i} = Matched \ todo'
  BY <1>1, <1>2
<1>6. list' = PutInOrder(list, F[i])
  <2>1. list' = mmk_matcher_add(list, F[i])
    BY <1>1, <1>3
  <2> HIDE DEF F
  <2> QED BY <2>1 DEF mmk_matcher_add, PutInOrder
<1>7. S \in SUBSET Nat
  BY <1>2
<1> HIDE DEF F, S
<1>8. InOrder(list', F, S \union {i}) /\ list' \in Seq(Nodes)
  BY <1>2, <1>3, <1>4, <1>6, <1>7, OrderedPut, PutGrows
<1>9. todo' \subseteq Matched
  BY <1>1 DEF Built
<1>10. Nodes' = Nodes /\ Matched' = Matched /\ [j \in DOMAIN expr |-> Made(j)]' = F
  BY <1>1, Fixed DEF F
<1> QED BY <1>5, <1>8, <1>9, <1>10 DEF Built

LEMMA NextIInv ==
    ASSUME IInv, [Next]_vars
    PROVE  IInv'
<1>1. ASSUME NEW i \in DOMAIN expr, EvalArg(i) PROVE IInv'
  <2>1. UNCHANGED written /\ UNCHANGED <<verify, count, verdict>>
    BY <1>1 DEF EvalArg
  <2>2. WrittenOK'
    BY <2>1, Fixed DEF IInv
  <2>3. Built'
    BY <1>1, EvalArgBuilt DEF IInv
  <2>4. Judged'
    BY <2>1 DEF IInv, Judged, Verify, Key
  <2> QED BY <2>2, <2>3, <2>4 DEF IInv
<1>2. ASSUME Verdict PROVE IInv'
  <2>1. UNCHANGED written /\ UNCHANGED <<todo, list>>
    BY <1>2 DEF Verdict
  <2>2. WrittenOK'
    BY <2>1, Fixed DEF IInv
  <2>3. Built'
    <3>1. Built
      BY DEF IInv
    <3> QED BY <2>1, <3>1, Fixed DEF Built
  <2>4. Judged'
    BY <1>2 DEF Verdict, Judged
  <2> QED BY <2>2, <2>3, <2>4 DEF IInv
<1>3. ASSUME UNCHANGED vars PROVE IInv'
  <2>1. UNCHANGED written /\ UNCHANGED <<todo, list>> /\ UNCHANGED <<verify, count, verdict>>
    BY <1>3 DEF vars, written
  <2>2. WrittenOK /\ Built /\ Judged
    BY DEF IInv
  <2>3. WrittenOK' /\ Built'
    BY <2>1, <2>2, Fixed DEF Built
  <2>4. Judged'
    BY <2>1, <2>2 DEF Judged
  <2> QED BY <2>3, <2>4 DEF IInv
<1> QED BY <1>1, <1>2, <1>3 DEF Next

LEMMA Invariance == Spec => []IInv
BY InitIInv, NextIInv, PTL DEF Spec

-----------------------------------------------------------------------------
(* The list when all arguments are evaluated.                              *)
LEMMA Whole ==
    ASSUME WrittenOK, Built, todo = {}
    PROVE  IF Matched = {}
           THEN Len(list) = 0
           ELSE Len(list) = Len(expr) /\ \A j \in 1..Len(expr) : list[j] = Made(j)
<1> DEFINE F == [j \in DOMAIN expr |-> Made(j)]
<1>1. InOrder(list, F, Matched) /\ list \in Seq(Nodes)
  <2>1. Matched \ todo = Matched
    OBVIOUS
  <2> QED BY <2>1 DEF Built
<1>2. DOMAIN expr = 1..Len(expr) /\ Len(expr) \in Nat
  BY Shape
<1>3. \A j \in 1..Len(expr) : F[j] = Made(j)
  BY <1>2
<1> HIDE DEF F
<1>4. CASE Matched = {}
  <2>1. Matched = 1..0
    BY <1>4
  <2>2. InOrder(list, F, 1..0)
    BY <1>1, <2>1
  <2>3. Len(list) = 0
    BY <1>1, <2>2, OrderedWhole
  <2> QED BY <1>4, <2>3
<1>5. CASE Matched # {}
  <2>1. Matched = 1..Len(expr)
    BY <1>5, Shape
  <2>2. InOrder(list, F, 1..Len(expr))
    BY <1>1, <2>1
  <2>3. Len(list) = Len(expr) /\ \A j \in 1..Len(expr) : list[j] = F[j]
    BY <1>1, <1>2, <2>2, OrderedWhole
  <2> QED BY <1>3, <1>5, <2>3
<1> QED BY <1>4, <1>5

(* The named parameters pass as the client wrote.                          *)
LEMMA NamedAsWritten ==
    ASSUME WrittenOK, Built, todo = {}, NEW args \in [DOMAIN expr -> Value]
    PROVE  Matches(list, args, SubSeq(refs, 1, named))
             <=> \A n \in 1..named : Documented(expr[n], args[n], refs[n])
<1> DEFINE R == SubSeq(refs, 1, named)
           OK(n) == IF n <= Len(list) THEN Passes(list[n], args[n], R[n])
                                      ELSE args[n] = R[n]
<1>1. /\ Len(expr) \in Nat /\ DOMAIN expr = 1..Len(expr) /\ named \in 1..Len(expr)
      /\ refs \in Seq(Value) /\ Len(refs) = Len(expr)
  BY Shape
<1>2. DOMAIN R = 1..named /\ \A n \in 1..named : R[n] = refs[n]
  BY <1>1
<1> HIDE DEF R
<1>3. ASSUME NEW n \in 1..named
      PROVE  OK(n) <=> Documented(expr[n], args[n], refs[n])
  <2>1. n \in 1..Len(expr) /\ n <= named /\ R[n] = refs[n]
    BY <1>1, <1>2
  <2>2. args[n] \in Value /\ refs[n] \in Value
    BY <1>1, <2>1
  <2>3. CASE Matched = {}
    <3>1. expr[n] = "value" /\ ~(n <= Len(list))
      <4>1. \A i \in DOMAIN expr : expr[i] = "value"
        BY <1>1, <2>3, Shape
      <4>2. Len(list) = 0
        BY <2>3, Whole
      <4> QED BY <1>1, <2>1, <4>1, <4>2
    <3>2. Documented(expr[n], args[n], refs[n]) <=> args[n] = refs[n]
      BY <3>1 DEF Documented
    <3> QED BY <2>1, <3>1, <3>2
  <2>4. CASE Matched # {}
    <3>1. n <= Len(list) /\ list[n] = Made(n)
      BY <1>1, <2>1, <2>4, Whole
    <3>2. expr[n] \in Name
      BY <1>1, <2>1, <2>4, Shape
    <3>3. Made(n) = Matcher(KindOf(expr[n]), n, Predicate)
      BY <2>1 DEF Made, Accepted
    <3> QED BY <2>1, <2>2, <3>1, <3>2, <3>3, NamedPasses
  <2> QED BY <2>3, <2>4
<1>4. Matches(list, args, R) <=> \A n \in 1..named : OK(n)
  BY <1>2 DEF Matches
<1> HIDE DEF OK
<1> QED BY <1>3, <1>4 DEF R

(* What is left of a list after its first k elements.                      *)
LEMMA Rest ==
    ASSUME NEW X, NEW s \in Seq(X), NEW k \in Nat
    PROVE  /\ Len(s) = 0 => Len(SubSeq(s, k + 1, Len(s))) = 0
           /\ k <= Len(s) => /\ Len(SubSeq(s, k + 1, Len(s))) = Len(s) - k
                            /\ \A n \in 1..Len(s) - k :
                                  SubSeq(s, k + 1, Len(s))[n] = s[k + n]
<1>1. Len(s) = 0 => Len(SubSeq(s, k + 1, Len(s))) = 0
  OBVIOUS
<1>2. k <= Len(s) => Len(SubSeq(s, k + 1, Len(s))) = Len(s) - k
  OBVIOUS
<1>3. ASSUME k <= Len(s), NEW n \in 1..Len(s) - k
      PROVE  SubSeq(s, k + 1, Len(s))[n] = s[k + n]
  BY <1>3
<1> QED BY <1>1, <1>2, <1>3

(* The variadic ones too, unless a comparison would depend on the order of *)
(* bytes.                                                                  *)
LEMMA VariadicAsWritten ==
    ASSUME WrittenOK, Built, todo = {}, OrderedBytes, NEW args \in [DOMAIN expr -> Value]
    PROVE  MMK_MOCK_VA_VERIFY(SubSeq(list, named + 1, Len(list)),
                              Stored(args), Stored(refs))
             <=> \A n \in named + 1..Len(expr) : Documented(expr[n], args[n], refs[n])
<1> DEFINE L == SubSeq(list, named + 1, Len(list))
           A == Stored(args)
           R == Stored(refs)
           N == Len(expr) - named
           OK(n) == /\ Len(A[n]) = Len(R[n])
                    /\ IF n <= Len(L) THEN PassesVa(L[n], A[n], R[n])
                                      ELSE mmk_memcmp(A[n], R[n]) = 0
<1>1. /\ Len(expr) \in Nat /\ DOMAIN expr = 1..Len(expr) /\ named \in 1..Len(expr)
      /\ refs \in Seq(Value) /\ Len(refs) = Len(expr) /\ N \in Nat
      /\ \A i \in named + 1..Len(expr) : Serializes(bytes[i])
  <2>1. /\ Len(expr) \in Nat /\ named \in 1..Len(expr)
    BY Shape
  <2>2. N \in Nat
    BY <2>1
  <2> QED BY <2>2, Shape
<1>2. /\ DOMAIN A = 1..N /\ \A n \in 1..N : A[n] = bytes[named + n][args[named + n]]
      /\ DOMAIN R = 1..N /\ \A n \in 1..N : R[n] = bytes[named + n][refs[named + n]]
  BY DEF Stored
<1>3. Len(A) = N /\ Len(R) = N
  <2>1. N \in Nat
    BY <1>1
  <2> HIDE DEF A, R, N
  <2> QED BY <1>2, <2>1
<1>4. IF Matched = {} THEN Len(L) = 0
                      ELSE Len(L) = N /\ \A n \in 1..N : L[n] = Made(named + n)
  <2>0. list \in Seq(Nodes)
    BY DEF Built
  <2>1. CASE Matched = {}
    <3>1. Len(list) = 0
      BY <2>1, Whole
    <3>2. Len(L) = 0
      BY <1>1, <2>0, <3>1, Rest
    <3> QED BY <2>1, <3>2
  <2>2. CASE Matched # {}
    <3>1. Len(list) = Len(expr) /\ \A j \in 1..Len(expr) : list[j] = Made(j)
      BY <2>2, Whole
    <3>2. Len(L) = N /\ \A n \in 1..N : L[n] = list[named + n]
      <4>1. named \in Nat /\ named <= Len(list) /\ N = Len(list) - named
        BY <1>1, <3>1
      <4> HIDE DEF N
      <4>2. Len(L) = Len(list) - named
        BY <2>0, <4>1, Rest
      <4>3. \A n \in 1..Len(list) - named : L[n] = list[named + n]
        BY <2>0, <4>1, Rest
      <4> QED BY <4>1, <4>2, <4>3
    <3>3. \A n \in 1..N : named + n \in 1..Len(expr)
      BY <1>1
    <3> HIDE DEF L, N
    <3> QED BY <2>2, <3>1, <3>2, <3>3
  <2> QED BY <2>1, <2>2
<1> HIDE DEF L, A, R
<1>5. ASSUME NEW n \in 1..N
      PROVE  OK(n) <=> Documented(expr[named + n], args[named + n], refs[named + n])
  <2> DEFINE i == named + n
             b == bytes[i]
             v == args[i]
             r == refs[i]
  <2>1. i \in 1..Len(expr) /\ i \in named + 1..Len(expr) /\ ~(i <= named)
    BY <1>1
  <2>2. v \in Value /\ r \in Value /\ Serializes(b) /\ A[n] = b[v] /\ R[n] = b[r]
    BY <1>1, <1>2, <2>1
  <2>3. Made(i) = Matcher(KindOf(expr[i]), i, {b[w] : w \in Predicate})
    BY <2>1 DEF Made, Accepted
  <2>4. expr[i] \in Ordering => Len(b[v]) = 1
    BY <2>1, <2>2 DEF OrderedBytes, Variadic
  <2>5. Matched # {} => expr[i] \in Name
    BY <1>1, <2>1, Shape
  <2>6. Matched = {} => expr[i] = "value"
    BY <1>1, <2>1, Shape DEF Matched
  <2>7. Len(L) = IF Matched = {} THEN 0 ELSE N
    BY <1>4
  <2>8. Matched # {} => L[n] = Made(i)
    BY <1>4
  <2>9. n <= Len(L) <=> Matched # {}
    <3>1. n \in Nat /\ 1 <= n /\ n <= N /\ N \in Nat
      BY <1>1
    <3> HIDE DEF N
    <3> QED BY <2>7, <3>1
  <2> HIDE DEF i, b, v, r
  <2>10. Len(A[n]) = Len(R[n])
    BY <2>2 DEF Serializes
  <2>11. CASE Matched = {}
    <3>1. mmk_memcmp(b[v], b[r]) = 0 <=> v = r
      BY <2>2, Memcmp
    <3>2. Documented(expr[i], v, r) <=> v = r
      BY <2>6, <2>11 DEF Documented
    <3>3. OK(n) <=> Documented(expr[i], v, r)
      BY <2>2, <2>9, <2>10, <2>11, <3>1, <3>2
    <3> QED BY <3>3 DEF i, v, r
  <2>12. CASE Matched # {}
    <3>1. PassesVa(Made(i), b[v], b[r]) <=> Documented(expr[i], v, r)
      BY <2>2, <2>3, <2>4, <2>5, <2>12, VariadicPasses
    <3>2. OK(n) <=> Documented(expr[i], v, r)
      BY <2>2, <2>8, <2>9, <2>10, <2>12, <3>1
    <3> QED BY <3>2 DEF i, v, r
  <2> QED BY <2>11, <2>12
<1>6. MMK_MOCK_VA_VERIFY(L, A, R) <=> \A n \in 1..N : OK(n)
  BY <1>2, <1>3 DEF MMK_MOCK_VA_VERIFY
<1> HIDE DEF OK
<1>7. (\A n \in 1..N : OK(n))
        <=> \A n \in 1..N : Documented(expr[named + n], args[named + n], refs[named + n])
  BY <1>5
<1>8. (\A n \in 1..N : Documented(expr[named + n], args[named + n], refs[named + n]))
        <=> \A n \in named + 1..Len(expr) : Documented(expr[n], args[n], refs[n])
  <2>1. \A n \in named + 1..Len(expr) : n - named \in 1..N /\ named + (n - named) = n
    BY <1>1
  <2>2. \A n \in 1..N : named + n \in named + 1..Len(expr)
    BY <1>1
  <2> HIDE DEF N
  <2> QED BY <2>1, <2>2
<1> QED BY <1>6, <1>7, <1>8 DEF L, A, R

(* A call expression accepts exactly the calls it says, whatever order its *)
(* arguments were evaluated in (mmk_matcher_add, matcher.c:54-81, and the  *)
(* walk of the list, mock.h:106-164 and 234-276).                          *)
THEOREM AcceptsWhatIsWritten == Spec => []MatchesAsWritten
<1>1. ASSUME IInv PROVE MatchesAsWritten
  <2> SUFFICES ASSUME todo = {}, OrderedBytes, NEW args \in [DOMAIN expr -> Value]
               PROVE  Accepts(args)
                        <=> \A n \in DOMAIN expr : Documented(expr[n], args[n], refs[n])
    BY DEF MatchesAsWritten
  <2>1. WrittenOK /\ Built
    BY <1>1 DEF IInv
  <2>2. Accepts(args) <=>
          /\ \A n \in 1..named : Documented(expr[n], args[n], refs[n])
          /\ \A n \in named + 1..Len(expr) : Documented(expr[n], args[n], refs[n])
    BY <2>1, NamedAsWritten, VariadicAsWritten DEF Accepts
  <2>3. DOMAIN expr = (1..named) \union (named + 1..Len(expr))
    <3>1. DOMAIN expr = 1..Len(expr) /\ Len(expr) \in Nat /\ named \in 1..Len(expr)
      BY <2>1, Shape
    <3> QED BY <3>1
  <2> QED BY <2>2, <2>3
<1> QED BY <1>1, Invariance, PTL

(* A mmk_verify answers what its keys say (mmk_verify_times,               *)
(* verify.c:39-51), whatever the limits, unless they are 0.                *)
THEOREM VerdictStands == Spec => []VerdictAsDocumented
<1>1. ASSUME IInv PROVE VerdictAsDocumented
  <2> SUFFICES ASSUME verify # NULL PROVE VerdictAsDocumented
    BY DEF VerdictAsDocumented
  <2>1. verify \in Verify /\ count \in Nat /\ verdict = mmk_verify_times(verify, count)
    BY <1>1, ExpressionsAssumption DEF IInv, Judged
  <2> DEFINE given == verify.given
             most == verify.at_most
             least == verify.at_least
             times == verify.times
             Only(keys) == given = keys /\ \A k \in keys : verify[k] # 0
  <2>2. /\ verify.never \in {0, 1} /\ (verify.never = 1 <=> "never" \in given)
        /\ verify.matching # NULL <=> "matching" \in given
        /\ "at_least" \in given \/ least = 0
        /\ "at_most" \in given \/ most = 0
        /\ "times" \in given \/ times = 0
    BY <2>1 DEF Verify
  <2>3. least \in Nat /\ most \in Nat /\ times \in Nat
    <3>1. Limit \union {0} \subseteq Nat
      BY ExpressionsAssumption
    <3>2. least \in Limit \union {0} /\ most \in Limit \union {0} /\ times \in Limit \union {0}
      BY <2>1 DEF Verify
    <3> QED BY <3>1, <3>2
  <2>4. verdict = IF verify.never # 0
                  THEN count = 0
                  ELSE IF least # 0 \/ most # 0
                  THEN /\ count >= least
                       /\ most # 0 => count <= most
                  ELSE IF verify.matching # NULL
                  THEN count \in verify.matching
                  ELSE times > 0 => times = count
    BY <2>1 DEF mmk_verify_times
  <2>5. ASSUME "never" \notin given PROVE verify.never = 0
    BY <2>2, <2>5
  <2> HIDE DEF given, most, least, times
  <2>6. Only({"never"}) => verdict = (count = 0)
    BY <2>2, <2>4
  <2>7. Only({"times"}) => verdict = (count = times)
    <3> SUFFICES ASSUME Only({"times"}) PROVE verdict = (count = times)
      OBVIOUS
    <3>1. verify.never = 0 /\ least = 0 /\ most = 0 /\ verify.matching = NULL
      BY <2>2, <2>5
    <3>2. times # 0
      BY DEF times
    <3> QED BY <2>1, <2>3, <2>4, <3>1, <3>2
  <2>8. Only({"at_least"}) => verdict = (count >= least)
    <3> SUFFICES ASSUME Only({"at_least"}) PROVE verdict = (count >= least)
      OBVIOUS
    <3>1. verify.never = 0 /\ most = 0
      BY <2>2, <2>5
    <3>2. least # 0
      BY DEF least
    <3>3. verdict = (count >= least /\ (most # 0 => count <= most))
      BY <2>4, <3>1, <3>2
    <3> QED BY <3>1, <3>3
  <2>9. Only({"at_most"}) => verdict = (count <= most)
    <3> SUFFICES ASSUME Only({"at_most"}) PROVE verdict = (count <= most)
      OBVIOUS
    <3>1. verify.never = 0 /\ least = 0
      BY <2>2, <2>5
    <3>2. most # 0
      BY DEF most
    <3>3. verdict = (count >= least /\ (most # 0 => count <= most))
      BY <2>4, <3>1, <3>2
    <3>4. count >= least
      BY <2>1, <3>1
    <3> QED BY <3>2, <3>3, <3>4
  <2>10. Only({"at_least", "at_most"}) => verdict = (count \in least..most)
    <3> SUFFICES ASSUME Only({"at_least", "at_most"})
                 PROVE  verdict = (count \in least..most)
      OBVIOUS
    <3>1. verify.never = 0
      BY <2>5
    <3>2. least # 0 /\ most # 0
      BY DEF least, most
    <3>3. verdict = (count >= least /\ (most # 0 => count <= most))
      BY <2>4, <3>1, <3>2
    <3>4. count \in least..most <=> (count >= least /\ count <= most)
      BY <2>1, <2>3
    <3> QED BY <3>2, <3>3, <3>4
  <2>11. given = {"matching"} => verdict = (count \in verify.matching)
    BY <2>2, <2>4, <2>5
  <2> QED BY <2>6, <2>7, <2>8, <2>9, <2>10, <2>11
         DEF VerdictAsDocumented, given, most, least, times
<1> QED BY <1>1, Invariance, PTL

-----------------------------------------------------------------------------
(* The macros that count arguments do, up to 63 of them.                   *)
LEMMA Counts ==
    ASSUME NEW X, NEW a \in Seq(X), Len(a) \in 1..63
    PROVE  MMK_VA_NARGS(a) = Len(a)
<1> DEFINE t == [i \in 1..64 |-> 64 - i]
           q == a \o t
           k == Len(a)
<1>1. t \in Seq(Int) /\ Len(t) = 64 /\ \A i \in 1..64 : t[i] = 64 - i
  <2>1. t \in [1..64 -> Int]
    OBVIOUS
  <2>2. t \in Seq(Int) /\ Len(t) = 64
    BY <2>1
  <2> QED BY <2>2
<1>2. MMK_VA_NARGS(a) = q[64]
  BY DEF MMK_VA_NARGS, MMK_VA_TAIL_SELECT64
<1> HIDE DEF t
<1>3. \A i \in 1..Len(t) : q[k + i] = t[i]
  <2>1. q = a \o t /\ a \in Seq(X) /\ t \in Seq(Int)
    BY <1>1
  <2> HIDE DEF q
  <2>2. \A i \in 1..Len(t) : q[Len(a) + i] = t[i]
    BY <2>1, Joined
  <2> QED BY <2>2
<1>4. k \in 1..63
  OBVIOUS
<1> HIDE DEF q, k
<1>5. 64 - k \in 1..64 /\ k + (64 - k) = 64 /\ 64 - (64 - k) = k
  BY <1>4
<1>6. q[64] = t[64 - k] /\ t[64 - k] = 64 - (64 - k)
  <2>1. q[k + (64 - k)] = t[64 - k]
    BY <1>1, <1>3, <1>5
  <2> QED BY <1>1, <1>5, <2>1
<1>7. MMK_VA_NARGS(a) = k
  BY <1>2, <1>5, <1>6
<1> QED BY <1>7 DEF k

(* One argument is told from more.                                         *)
LEMMA TellsOne ==
    ASSUME NEW X, NEW a \in Seq(X), Len(a) \in 1..63
    PROVE  MMK_VA_TAIL_SELECT(a) = 1 <=> Len(a) = 1
<1> DEFINE f == [i \in 1..62 |-> 2]
           g == <<1, "_">>
           p == a \o f
           q == p \o g
           W == {1, "_"}
           V == X \union {2}
           k == Len(a)
<1>1. f \in Seq({2}) /\ Len(f) = 62 /\ \A i \in 1..62 : f[i] = 2
  <2>1. f \in [1..62 -> {2}]
    OBVIOUS
  <2>2. f \in Seq({2}) /\ Len(f) = 62
    BY <2>1
  <2> QED BY <2>2
<1>2. g \in Seq(W) /\ Len(g) = 2 /\ g[1] = 1
  OBVIOUS
<1>3. MMK_VA_TAIL_SELECT(a) = q[64]
  BY DEF MMK_VA_TAIL_SELECT, MMK_VA_TAIL_SELECT64
<1> HIDE DEF f, g, W
<1>4. /\ p \in Seq(V) /\ Len(p) = k + 62
      /\ \A i \in 1..62 : p[k + i] = 2
  <2>1. p = a \o f /\ a \in Seq(X) /\ f \in Seq({2})
    BY <1>1
  <2> HIDE DEF p
  <2>2. /\ p \in Seq(V) /\ Len(p) = Len(a) + Len(f)
        /\ \A i \in 1..Len(f) : p[Len(a) + i] = f[i]
    BY <2>1, Joined
  <2> QED BY <1>1, <2>2
<1> HIDE DEF p, V
<1>5. /\ \A i \in 1..Len(p) : q[i] = p[i]
      /\ q[Len(p) + 1] = 1
  <2>1. q = p \o g /\ p \in Seq(V) /\ g \in Seq(W)
    BY <1>2, <1>4
  <2> HIDE DEF q
  <2>2. /\ \A i \in 1..Len(p) : q[i] = p[i]
        /\ \A i \in 1..Len(g) : q[Len(p) + i] = g[i]
    BY <2>1, Joined
  <2>3. 1 \in 1..Len(g) /\ g[1] = 1
    BY <1>2
  <2> QED BY <2>2, <2>3
<1>6. k \in 1..63
  OBVIOUS
<1> HIDE DEF q, k
<1>7. CASE k = 1
  <2>1. Len(p) + 1 = 64
    BY <1>4, <1>7
  <2> QED BY <1>3, <1>5, <1>7, <2>1 DEF k
<1>8. CASE k # 1
  <2>1. 64 - k \in 1..62 /\ k + (64 - k) = 64 /\ 64 \in 1..k + 62
    BY <1>6, <1>8
  <2>2. p[64] = 2
    <3>1. p[k + (64 - k)] = 2
      BY <1>4, <2>1
    <3> QED BY <2>1, <3>1
  <2>3. q[64] = 2
    BY <1>4, <1>5, <2>1, <2>2
  <2> QED BY <1>3, <1>8, <2>3 DEF k
<1> QED BY <1>7, <1>8

(* A type is recognised when it is the one looked for.                     *)
LEMMA Recognised ==
    ASSUME NEW type, NEW T, NEW x, NEW y
    PROVE  Select(type, T, x, y) = IF T = type THEN y ELSE x
<1> DEFINE a == Pasted(type, T)
           X == {NoTokens, T}
<1>1. CASE T = type
  <2>1. a = <<NoTokens, NoTokens>>
    BY <1>1 DEF Pasted
  <2>2. a \in Seq(X) /\ Len(a) = 2
    BY <2>1
  <2> HIDE DEF a, X
  <2>3. ~(MMK_VA_TAIL_SELECT(a) = 1)
    BY <2>2, TellsOne
  <2> QED BY <1>1, <2>3 DEF Select, a
<1>2. CASE T # type
  <2>1. a = <<T>>
    BY <1>2 DEF Pasted
  <2>2. a \in Seq(X) /\ Len(a) = 1
    BY <2>1
  <2> HIDE DEF a, X
  <2>3. MMK_VA_TAIL_SELECT(a) = 1
    BY <2>2, TellsOne
  <2> QED BY <1>2, <2>3 DEF Select, a
<1> QED BY <1>1, <1>2

(* The numbered macros give each argument its number.                      *)
LEMMA NumbersUp ==
    ASSUME NEW k \in Nat, k >= 1, NEW args
    PROVE  Numbered(k, args) = [i \in 1..k - 1 |-> [n |-> i - 1, type |-> args[i]]]
<1> DEFINE Body(f, i) == IF i = 1 THEN 0 ELSE MMK_INC(f[i - 1])
           Solves(f) == f = [i \in 1..k |-> Body(f, i)]
           n == CHOOSE f : Solves(f)
           up == [i \in 1..k |-> i - 1]
<1>1. Numbered(k, args) = [i \in 1..k - 1 |-> [n |-> n[i], type |-> args[i]]]
  BY DEF Numbered
<1>2. Solves(up)
  <2>1. ASSUME NEW i \in 1..k PROVE i - 1 = Body(up, i)
    <3>1. CASE i = 1
      BY <3>1
    <3>2. CASE i # 1
      <4>1. i - 1 \in 1..k /\ up[i - 1] = i - 2
        BY <3>2
      <4> QED BY <3>2, <4>1 DEF MMK_INC
    <3> QED BY <3>1, <3>2
  <2> HIDE DEF Body
  <2> QED BY <2>1
<1>3. Solves(n)
  <2> HIDE DEF Solves, up
  <2> QED BY <1>2
<1>4. \A i \in 1..k : n[i] = Body(n, i)
  <2> HIDE DEF n, Body
  <2> QED BY <1>3
<1> HIDE DEF n
<1> DEFINE Good == {i \in Nat : i + 1 \in 1..k => n[i + 1] = i}
<1>5. Nat \subseteq Good
  <2>1. 0 \in Good
    BY <1>4
  <2>2. ASSUME NEW i \in Nat, i \in Good PROVE i + 1 \in Good
    <3> SUFFICES ASSUME i + 2 \in 1..k PROVE n[i + 2] = i + 1
      OBVIOUS
    <3>1. n[i + 2] = MMK_INC(n[i + 1])
      BY <1>4
    <3>2. n[i + 1] = i
      BY <2>2
    <3> QED BY <3>1, <3>2 DEF MMK_INC
  <2> HIDE DEF Good
  <2> QED BY <2>1, <2>2, SetInduction
<1>6. \A i \in 1..k - 1 : n[i] = i - 1
  <2> SUFFICES ASSUME NEW i \in 1..k - 1 PROVE n[i] = i - 1
    OBVIOUS
  <2>1. i - 1 \in Nat /\ (i - 1) + 1 = i
    OBVIOUS
  <2>2. i - 1 \in Good
    BY <1>5, <2>1
  <2> QED BY <2>1, <2>2
<1> QED BY <1>1, <1>6

(* What a signature is written as.                                         *)
LEMMA WrittenIs ==
    ASSUME NEW sig \in Signature
    PROVE  LET a == Written(sig)
               p == Len(sig.params)
           IN  /\ a \in Seq(Type \union {VaArgs})
               /\ Len(a) = (IF sig.va THEN p + 2 ELSE p + 1) /\ Len(a) \in 1..MaxWritten
               /\ p \in Nat /\ DOMAIN sig.params = 1..p /\ (sig.va => p >= 1)
               /\ a[1] = sig.return
               /\ \A i \in 1..p : a[i + 1] = sig.params[i] /\ sig.params[i] # VaArgs
               /\ sig.va => a[p + 2] = VaArgs
<1> DEFINE h == <<sig.return>>
           s == sig.params
           v == IF sig.va THEN <<VaArgs>> ELSE << >>
           b == h \o s
           a == b \o v
           W == {VaArgs}
<1>1. /\ sig.return \in Type /\ s \in Seq(Type) /\ sig.va \in BOOLEAN
      /\ (sig.va => s # << >>) /\ Len(Written(sig)) <= MaxWritten
  <2>1. s \in Parameters
    BY DEF Signature
  <2> QED BY <2>1, SignaturesAssumption DEF Signature
<1>2. h \in Seq(Type) /\ Len(h) = 1 /\ h[1] = sig.return
  BY <1>1
<1>3. v \in Seq(W) /\ Len(v) = (IF sig.va THEN 1 ELSE 0) /\ (sig.va => v[1] = VaArgs)
  <2>1. CASE sig.va
    <3>1. v = <<VaArgs>>
      BY <2>1
    <3> QED BY <2>1, <3>1
  <2>2. CASE ~sig.va
    <3>1. v = << >>
      BY <2>2
    <3> HIDE DEF W
    <3> QED BY <2>2, <3>1
  <2> QED BY <2>1, <2>2
<1>4. Written(sig) = a
  BY DEF Written
<1> DEFINE p == Len(s)
<1>5. p \in Nat /\ DOMAIN s = 1..p /\ (sig.va => p >= 1) /\ \A i \in 1..p : s[i] \in Type
  BY <1>1
<1> HIDE DEF h, s, v, W, p
<1>6. /\ b \in Seq(Type) /\ Len(b) = Len(h) + Len(s)
      /\ \A j \in 1..Len(h) : b[j] = h[j]
      /\ \A j \in 1..Len(s) : b[Len(h) + j] = s[j]
  <2>1. b = h \o s /\ h \in Seq(Type) /\ s \in Seq(Type)
    BY <1>1, <1>2
  <2> HIDE DEF b
  <2> QED BY <2>1, Concat
<1> HIDE DEF b
<1>7. Len(b) = p + 1 /\ b[1] = sig.return /\ \A i \in 1..p : b[i + 1] = s[i]
  <2>1. Len(b) = 1 + p /\ b[1] = h[1] /\ \A i \in 1..p : b[1 + i] = s[i]
    BY <1>2, <1>6 DEF p
  <2>2. \A i \in 1..p : 1 + i = i + 1
    BY <1>5
  <2> QED BY <1>2, <1>5, <2>1, <2>2
<1>8. /\ a \in Seq(Type \union W) /\ Len(a) = Len(b) + Len(v)
      /\ \A j \in 1..Len(b) : a[j] = b[j]
      /\ \A j \in 1..Len(v) : a[Len(b) + j] = v[j]
  <2>1. a = b \o v /\ b \in Seq(Type) /\ v \in Seq(W)
    BY <1>3, <1>6
  <2> HIDE DEF a
  <2> QED BY <2>1, Joined
<1> HIDE DEF a
<1>9. Len(a) = (IF sig.va THEN p + 2 ELSE p + 1)
  BY <1>3, <1>5, <1>7, <1>8
<1>10. Len(a) \in 1..MaxWritten
  BY <1>1, <1>4, <1>5, <1>9 DEF MaxWritten
<1>11. a[1] = sig.return /\ \A i \in 1..p : a[i + 1] = s[i]
  BY <1>5, <1>7, <1>8
<1>12. sig.va => a[p + 2] = VaArgs
  <2> SUFFICES ASSUME sig.va PROVE a[p + 2] = VaArgs
    OBVIOUS
  <2>1. 1 \in 1..Len(v) /\ Len(b) + 1 = p + 2
    BY <1>3, <1>5, <1>7
  <2>2. a[Len(b) + 1] = v[1]
    BY <1>8, <2>1
  <2> QED BY <1>3, <2>1, <2>2
<1>13. \A i \in 1..p : s[i] # VaArgs
  BY <1>5, SignaturesAssumption
<1>14. a \in Seq(Type \union {VaArgs})
  BY <1>8 DEF W
<1> HIDE DEF MaxWritten
<1> QED BY <1>4, <1>5, <1>9, <1>10, <1>11, <1>12, <1>13, <1>14 DEF s, p

(* All arguments but the first.                                            *)
LEMMA Rested ==
    ASSUME NEW X, NEW a \in Seq(X), Len(a) \in 2..63
    PROVE  /\ MMK_VA_TAIL(a) = Tail(a) /\ Tail(a) \in Seq(X)
           /\ Len(Tail(a)) = Len(a) - 1
           /\ \A i \in 1..Len(a) - 1 : Tail(a)[i] = a[i + 1]
<1>1. ~(MMK_VA_TAIL_SELECT(a) = 1)
  <2>1. \A k \in 2..63 : k \in 1..63 /\ k # 1
    OBVIOUS
  <2> QED BY <2>1, TellsOne
<1>2. MMK_VA_TAIL(a) = Tail(a)
  BY <1>1 DEF MMK_VA_TAIL
<1>3. a # << >>
  OBVIOUS
<1>4. /\ Tail(a) \in Seq(X) /\ Len(Tail(a)) = Len(a) - 1
      /\ \A i \in 1..Len(a) - 1 : Tail(a)[i] = a[i + 1]
  BY <1>3
<1> QED BY <1>2, <1>4

(* An empty argument in front counts for one.                              *)
LEMMA CountsOneMore ==
    ASSUME NEW X, NEW a \in Seq(X), Len(a) \in 0..62
    PROVE  MMK_VA_NARGS(<<NoTokens>> \o a) = Len(a) + 1
<1> DEFINE h == <<NoTokens>>
           Y == {NoTokens}
           q == h \o a
<1>1. h \in Seq(Y) /\ Len(h) = 1
  OBVIOUS
<1> HIDE DEF h, Y
<1>2. q \in Seq(Y \union X) /\ Len(q) = Len(h) + Len(a)
  <2>1. q = h \o a /\ h \in Seq(Y) /\ a \in Seq(X)
    BY <1>1
  <2> HIDE DEF q
  <2> QED BY <2>1, Joined
<1> HIDE DEF q
<1>3. Len(q) = Len(a) + 1 /\ Len(q) \in 1..63
  <2>1. \A k \in 0..62 : 1 + k = k + 1 /\ k + 1 \in 1..63
    OBVIOUS
  <2>2. Len(q) = 1 + Len(a)
    BY <1>1, <1>2
  <2> QED BY <2>1, <2>2
<1>4. MMK_VA_NARGS(q) = Len(q)
  BY <1>2, <1>3, Counts
<1> QED BY <1>3, <1>4 DEF q, h

(* The parameters of a list of arguments, with their numbers.              *)
Params(a) == [i \in 1..Len(a) - 1 |-> [n |-> i - 1, type |-> a[i + 1]]]

LEMMA Applied ==
    ASSUME NEW X, NEW a \in Seq(X), Len(a) \in 1..MaxWritten
    PROVE  MMK_APPLY_N(a) = Params(a)
<1>0. Len(a) \in 1..63 /\ Len(a) \in Nat
  BY DEF MaxWritten
<1>1. CASE Len(a) = 1
  <2>1. MMK_VA_TAIL_SELECT(a) = 1
    BY <1>0, <1>1, TellsOne
  <2>2. MMK_APPLY_N(a) = << >>
    BY <2>1 DEF MMK_APPLY_N
  <2>3. 1..Len(a) - 1 = {}
    BY <1>1
  <2>4. Params(a) = [i \in {} |-> [n |-> i - 1, type |-> a[i + 1]]]
    BY <2>3 DEF Params
  <2>5. DOMAIN Params(a) = {} /\ DOMAIN << >> = {}
    BY <2>4
  <2>6. Params(a) = << >>
    BY <2>4
  <2> QED BY <2>2, <2>6
<1>2. CASE Len(a) # 1
  <2> DEFINE t == Tail(a)
  <2>1. ~(MMK_VA_TAIL_SELECT(a) = 1)
    BY <1>0, <1>2, TellsOne
  <2>2. Len(a) \in 2..63
    BY <1>0, <1>2
  <2>3. /\ MMK_VA_TAIL(a) = t /\ t \in Seq(X) /\ Len(t) = Len(a) - 1
        /\ \A i \in 1..Len(a) - 1 : t[i] = a[i + 1]
    BY <2>2, Rested
  <2>4. MMK_APPLY_N(a) = Numbered(MMK_VA_NARGS(<<NoTokens>> \o t), t)
    BY <2>1, <2>3 DEF MMK_APPLY_N
  <2> HIDE DEF t
  <2>5. MMK_VA_NARGS(<<NoTokens>> \o t) = Len(a)
    <3>1. Len(t) \in 0..62 /\ Len(t) + 1 = Len(a)
      <4>1. \A k \in 2..63 : k - 1 \in 0..62 /\ (k - 1) + 1 = k
        OBVIOUS
      <4>2. Len(t) = Len(a) - 1
        BY <2>3
      <4> QED BY <2>2, <4>1, <4>2
    <3> QED BY <2>3, <3>1, CountsOneMore
  <2>6. MMK_APPLY_N(a) = [i \in 1..Len(a) - 1 |-> [n |-> i - 1, type |-> t[i]]]
    <3>1. Len(a) \in Nat /\ Len(a) >= 1
      BY <1>0
    <3> QED BY <2>4, <2>5, <3>1, NumbersUp
  <2> QED BY <2>3, <2>6 DEF Params
<1> QED BY <1>1, <1>2

(* What the body has for each parameter, and its parameter list.           *)
Each(sig) == [i \in DOMAIN sig.params |-> [n |-> i - 1, type |-> sig.params[i]]]
All(sig) == IF sig.va THEN Append(Each(sig), Pack) ELSE Each(sig)

LEMMA ParamsAre ==
    ASSUME NEW sig \in Signature
    PROVE  LET q == Params(Written(sig))
               p == Len(sig.params)
               k == IF sig.va THEN p + 1 ELSE p
           IN  /\ p \in Nat /\ k \in Nat /\ k = Len(Written(sig)) - 1
               /\ DOMAIN q = 1..k /\ q \in Seq({q[i] : i \in 1..k}) /\ Len(q) = k
               /\ Each(sig) \in Seq({q[i] : i \in 1..k}) /\ Len(Each(sig)) = p
               /\ \A i \in 1..p : q[i] = Each(sig)[i] /\ q[i].type # VaArgs
               /\ sig.va => q[p + 1].type = VaArgs
<1> DEFINE a == Written(sig)
           q == Params(a)
           p == Len(sig.params)
           k == IF sig.va THEN p + 1 ELSE p
           e == Each(sig)
           U == {q[i] : i \in 1..k}
<1>1. /\ Len(a) = (IF sig.va THEN p + 2 ELSE p + 1)
      /\ p \in Nat /\ DOMAIN sig.params = 1..p
      /\ \A i \in 1..p : a[i + 1] = sig.params[i] /\ sig.params[i] # VaArgs
      /\ sig.va => a[p + 2] = VaArgs
  BY WrittenIs
<1> HIDE DEF a, p
<1>2. k \in Nat /\ k = Len(a) - 1
  BY <1>1
<1>3. DOMAIN q = 1..k /\ \A i \in 1..k : q[i] = [n |-> i - 1, type |-> a[i + 1]]
  BY <1>2 DEF Params
<1>4. DOMAIN e = 1..p /\ \A i \in 1..p : e[i] = [n |-> i - 1, type |-> sig.params[i]]
  BY <1>1 DEF Each
<1>5. q = [i \in 1..k |-> q[i]]
  BY <1>2 DEF Params
<1>6. e = [i \in 1..p |-> e[i]]
  BY <1>1 DEF Each
<1> HIDE DEF q, e
<1>7. \A i \in 1..p : i \in 1..k /\ q[i] = e[i] /\ q[i].type # VaArgs
  <2> SUFFICES ASSUME NEW i \in 1..p
               PROVE  i \in 1..k /\ q[i] = e[i] /\ q[i].type # VaArgs
    OBVIOUS
  <2>1. i \in 1..k
    BY <1>1
  <2> HIDE DEF k
  <2>2. a[i + 1] = sig.params[i] /\ sig.params[i] # VaArgs
    BY <1>1
  <2>3. /\ q[i] = [n |-> i - 1, type |-> a[i + 1]]
        /\ e[i] = [n |-> i - 1, type |-> sig.params[i]]
    BY <1>3, <1>4, <2>1
  <2> QED BY <2>1, <2>2, <2>3
<1>8. sig.va => q[p + 1].type = VaArgs
  <2> SUFFICES ASSUME sig.va PROVE q[p + 1].type = VaArgs
    OBVIOUS
  <2>1. p + 1 \in 1..k /\ (p + 1) + 1 = p + 2
    BY <1>1
  <2>2. q[p + 1].type = a[(p + 1) + 1]
    BY <1>3, <2>1
  <2> QED BY <1>1, <2>1, <2>2
<1> HIDE DEF k
<1>9. q \in Seq(U) /\ Len(q) = k
  <2>1. \A i \in 1..k : q[i] \in U
    OBVIOUS
  <2> HIDE DEF U
  <2>2. q \in [1..k -> U]
    BY <1>5, <2>1
  <2> QED BY <1>2, <2>2
<1>10. e \in Seq(U) /\ Len(e) = p
  <2>1. \A i \in 1..p : e[i] \in U
    BY <1>7
  <2> HIDE DEF U
  <2>2. e \in [1..p -> U]
    BY <1>6, <2>1
  <2> QED BY <1>1, <2>2
<1> HIDE DEF U
<1> QED BY <1>1, <1>2, <1>3, <1>7, <1>8, <1>9, <1>10 DEF U, q, p, a, k, e

(* The code that stores and compares parameters is expanded for each that  *)
(* is not a variadic pack.                                                 *)
LEMMA Stores ==
    ASSUME NEW sig \in Signature
    PROVE  NoPack(Written(sig)) = Each(sig)
<1> DEFINE a == Written(sig)
           q == Params(a)
           p == Len(sig.params)
           k == IF sig.va THEN p + 1 ELSE p
           e == Each(sig)
           U == {q[i] : i \in 1..k}
           C(i) == MMK_COND_VA(<<q[i]>>, << >>, q[i].type)
           Solves(f) == f = [i \in 0..Len(q) |-> IF i = 0 THEN << >> ELSE f[i - 1] \o C(i)]
           upTo == CHOOSE f : Solves(f)
           Pre(i) == [j \in 1..i |-> q[j]]
           sol == [i \in 0..k |-> IF i <= p THEN Pre(i) ELSE e]
<1>1. /\ p \in Nat /\ k \in Nat /\ Len(q) = k
      /\ e \in Seq(U) /\ Len(e) = p
      /\ \A i \in 1..p : q[i] = e[i] /\ q[i].type # VaArgs
      /\ sig.va => q[p + 1].type = VaArgs
  BY ParamsAre
<1>2. NoPack(a) = upTo[Len(q)]
  <2>1. a \in Seq(Type \union {VaArgs}) /\ Len(a) \in 1..MaxWritten
    BY WrittenIs
  <2> HIDE DEF a
  <2>2. MMK_APPLY_N(a) = q
    BY <2>1, Applied
  <2> HIDE DEF q
  <2> QED BY <2>2 DEF NoPack
<1>3. \A i \in 1..k : q[i] \in U
  OBVIOUS
<1> HIDE DEF a, q, p, e, U
<1>4. \A i \in 1..k : C(i) = IF i <= p THEN <<q[i]>> ELSE << >>
  <2> SUFFICES ASSUME NEW i \in 1..k PROVE C(i) = IF i <= p THEN <<q[i]>> ELSE << >>
    OBVIOUS
  <2>1. C(i) = IF q[i].type = VaArgs THEN << >> ELSE <<q[i]>>
    BY Recognised DEF MMK_COND_VA
  <2>2. CASE i <= p
    <3>1. i \in 1..p
      BY <1>1, <2>2
    <3> QED BY <1>1, <2>1, <2>2, <3>1
  <2>3. CASE ~(i <= p)
    <3>1. sig.va /\ i = p + 1
      BY <1>1, <2>3
    <3> QED BY <1>1, <2>1, <2>3, <3>1
  <2> QED BY <2>2, <2>3
<1>5. \A i \in 0..p : Pre(i) \in Seq(U) /\ Len(Pre(i)) = i /\ \A j \in 1..i : Pre(i)[j] = q[j]
  <2> SUFFICES ASSUME NEW i \in 0..p
               PROVE  /\ Pre(i) \in Seq(U) /\ Len(Pre(i)) = i
                      /\ \A j \in 1..i : Pre(i)[j] = q[j]
    OBVIOUS
  <2>1. i \in Nat /\ \A j \in 1..i : j \in 1..k
    BY <1>1
  <2>2. Pre(i) \in [1..i -> U]
    BY <1>3, <2>1
  <2>3. Pre(i) \in Seq(U) /\ Len(Pre(i)) = i
    BY <2>1, <2>2
  <2> QED BY <2>3
<1>6. Pre(p) = e
  <2>1. p \in 0..p
    BY <1>1
  <2>2. Pre(p) \in Seq(U) /\ Len(Pre(p)) = p /\ \A j \in 1..p : Pre(p)[j] = e[j]
    BY <1>1, <1>5, <2>1
  <2> HIDE DEF Pre
  <2> QED BY <1>1, <2>2, SameList
<1>7. sol[0] = << >> /\ sol[k] = e
  <2>1. 0 \in 0..k /\ k \in 0..k /\ 0 <= p /\ 0 \in 0..p
    BY <1>1
  <2>2. sol[0] = Pre(0)
    BY <2>1
  <2>3. Pre(0) = << >>
    <3>1. Pre(0) \in Seq(U) /\ Len(Pre(0)) = 0
      BY <1>5, <2>1
    <3> HIDE DEF Pre
    <3> QED BY <3>1
  <2>4. sol[k] = IF k <= p THEN Pre(k) ELSE e
    BY <2>1
  <2>5. k <= p => k = p
    BY <1>1
  <2> HIDE DEF Pre, sol
  <2> QED BY <1>6, <2>2, <2>3, <2>4, <2>5
<1>8. \A i \in 1..k : sol[i] = sol[i - 1] \o C(i)
  <2> SUFFICES ASSUME NEW i \in 1..k PROVE sol[i] = sol[i - 1] \o C(i)
    OBVIOUS
  <2>0. i \in 0..k /\ i - 1 \in 0..k /\ i \in Nat
    BY <1>1
  <2>1. /\ sol[i] = IF i <= p THEN Pre(i) ELSE e
        /\ sol[i - 1] = IF i - 1 <= p THEN Pre(i - 1) ELSE e
    BY <2>0
  <2>2. CASE i <= p
    <3>1. i \in 0..p /\ i - 1 \in 0..p /\ i - 1 <= p
      BY <1>1, <2>0, <2>2
    <3> DEFINE r == Pre(i - 1)
               s == <<q[i]>>
               w == r \o s
    <3>2. /\ r \in Seq(U) /\ Len(r) = i - 1 /\ \A j \in 1..i - 1 : r[j] = q[j]
          /\ Pre(i) \in Seq(U) /\ Len(Pre(i)) = i /\ \A j \in 1..i : Pre(i)[j] = q[j]
      BY <1>5, <3>1
    <3>3. s \in Seq(U) /\ Len(s) = 1 /\ s[1] = q[i]
      BY <1>3
    <3> HIDE DEF r, s
    <3>4. /\ w \in Seq(U) /\ Len(w) = Len(r) + Len(s)
          /\ \A j \in 1..Len(r) : w[j] = r[j]
          /\ \A j \in 1..Len(s) : w[Len(r) + j] = s[j]
      <4>1. w = r \o s /\ r \in Seq(U) /\ s \in Seq(U)
        BY <3>2, <3>3
      <4> HIDE DEF w
      <4> QED BY <4>1, Concat
    <3> HIDE DEF w, Pre
    <3>5. Len(w) = i /\ \A j \in 1..i : w[j] = q[j]
      <4>1. (i - 1) + 1 = i /\ \A j \in 1..i : j \in 1..i - 1 \/ j = i
        BY <2>0
      <4>2. w[Len(r) + 1] = s[1] /\ Len(w) = Len(r) + 1
        BY <3>3, <3>4
      <4>3. Len(w) = i /\ w[i] = q[i]
        BY <3>2, <3>3, <4>1, <4>2
      <4>4. \A j \in 1..i - 1 : w[j] = q[j]
        BY <3>2, <3>4
      <4> QED BY <4>1, <4>3, <4>4
    <3>6. Pre(i) = w
      BY <3>2, <3>4, <3>5, SameList
    <3>7. sol[i] = Pre(i) /\ sol[i - 1] = r /\ C(i) = s
      BY <1>4, <2>1, <2>2, <3>1 DEF r, s
    <3> HIDE DEF sol, C
    <3> QED BY <3>6, <3>7 DEF w
  <2>3. CASE ~(i <= p)
    <3>1. i = p + 1
      BY <1>1, <2>3
    <3>2. i - 1 = p
      BY <1>1, <3>1
    <3>3. sol[i] = e /\ sol[i - 1] = e /\ C(i) = << >>
      BY <1>1, <1>4, <1>6, <2>1, <2>3, <3>2
    <3> HIDE DEF sol, C
    <3> QED BY <1>1, <3>3
  <2> QED BY <2>2, <2>3
<1> HIDE DEF C, Pre
<1>9. Solves(sol)
  <2>1. sol = [i \in 0..k |-> sol[i]]
    OBVIOUS
  <2> HIDE DEF sol
  <2>0. \A i \in 0..k : i = 0 \/ (i # 0 /\ i \in 1..k)
    BY <1>1
  <2>2. \A i \in 0..k : sol[i] = IF i = 0 THEN << >> ELSE sol[i - 1] \o C(i)
    BY <1>7, <1>8, <2>0
  <2> QED BY <1>1, <2>1, <2>2
<1>10. Solves(upTo)
  <2> HIDE DEF Solves, sol
  <2> QED BY <1>9
<1>11. \A i \in 0..k : upTo[i] = IF i = 0 THEN << >> ELSE upTo[i - 1] \o C(i)
  <2> HIDE DEF upTo
  <2> QED BY <1>1, <1>10
<1> HIDE DEF sol, upTo
<1> DEFINE Good == {i \in Nat : i <= k => upTo[i] = sol[i]}
<1>12. Nat \subseteq Good
  <2>1. 0 \in Good
    <3>1. 0 \in 0..k
      BY <1>1
    <3> QED BY <1>7, <1>11, <3>1
  <2>2. ASSUME NEW i \in Nat, i \in Good PROVE i + 1 \in Good
    <3> SUFFICES ASSUME i + 1 <= k PROVE upTo[i + 1] = sol[i + 1]
      OBVIOUS
    <3>1. i <= k /\ i + 1 \in 0..k /\ i + 1 \in 1..k /\ i + 1 # 0 /\ (i + 1) - 1 = i
      BY <1>1
    <3>2. upTo[i] = sol[i]
      BY <2>2, <3>1
    <3>3. upTo[i + 1] = upTo[i] \o C(i + 1)
      BY <1>11, <3>1
    <3>4. sol[i + 1] = sol[i] \o C(i + 1)
      BY <1>8, <3>1
    <3> QED BY <3>2, <3>3, <3>4
  <2> HIDE DEF Good
  <2> QED BY <2>1, <2>2, SetInduction
<1>13. upTo[k] = e
  BY <1>1, <1>7, <1>12
<1> QED BY <1>1, <1>2, <1>13 DEF a, e

(* The parameter lists have each parameter, and the pack in its place.     *)
LEMMA Lists ==
    ASSUME NEW sig \in Signature
    PROVE  /\ MMK_PARAM_PACK(Written(sig)) = All(sig)
           /\ MMK_PARAM_LIST(Written(sig)) =
                IF sig.params = << >> THEN <<VoidType>> ELSE All(sig)
<1> DEFINE a == Written(sig)
           q == Params(a)
           p == Len(sig.params)
           k == IF sig.va THEN p + 1 ELSE p
           e == Each(sig)
           U == {q[i] : i \in 1..k}
           W == U \union {Pack}
           t == Tail(a)
           made == Listed(a, Pack)
<1>1. /\ p \in Nat /\ k \in Nat /\ k = Len(a) - 1
      /\ DOMAIN q = 1..k /\ q \in Seq(U) /\ Len(q) = k
      /\ e \in Seq(U) /\ Len(e) = p
      /\ \A i \in 1..p : q[i] = e[i] /\ q[i].type # VaArgs
      /\ sig.va => q[p + 1].type = VaArgs
  BY ParamsAre
<1>2. /\ a \in Seq(Type \union {VaArgs}) /\ Len(a) \in 1..62
      /\ Len(a) = (IF sig.va THEN p + 2 ELSE p + 1) /\ (sig.va => p >= 1)
      /\ DOMAIN sig.params = 1..p
  BY WrittenIs DEF MaxWritten
<1>3. sig.params = << >> <=> p = 0
  <2>1. sig.params \in Seq(Type)
    BY SignaturesAssumption DEF Signature
  <2> QED BY <2>1
<1> HIDE DEF a, p, e
<1>4. Len(a) = 1 <=> p = 0
  BY <1>1, <1>2
<1>5. \A n \in 1..62 : n \in 1..63 /\ (n # 1 => n \in 2..63)
  OBVIOUS
<1>6. MMK_VA_TAIL_SELECT(a) = 1 <=> p = 0
  <2>1. MMK_VA_TAIL_SELECT(a) = 1 <=> Len(a) = 1
    BY <1>2, <1>5, TellsOne
  <2> QED BY <1>4, <2>1
<1>7. CASE p = 0
  <2>1. MMK_PARAM_PACK(a) = << >> /\ MMK_PARAM_LIST(a) = <<VoidType>>
    BY <1>6, <1>7 DEF MMK_PARAM_PACK, MMK_PARAM_LIST
  <2>2. ~sig.va
    BY <1>2, <1>7
  <2>3. All(sig) = e
    BY <2>2 DEF All, e
  <2>4. e = << >>
    BY <1>1, <1>7
  <2> QED BY <1>3, <1>7, <2>1, <2>3, <2>4 DEF a
<1>8. CASE p # 0
  <2>1. MMK_PARAM_PACK(a) = made /\ MMK_PARAM_LIST(a) = made
    BY <1>6, <1>8 DEF MMK_PARAM_PACK, MMK_PARAM_LIST
  <2>2. Len(a) \in 2..63
    BY <1>2, <1>4, <1>5, <1>8
  <2>3. t \in Seq(Type \union {VaArgs}) /\ \A i \in 1..Len(a) - 1 : t[i] = a[i + 1]
    BY <1>2, <2>2, Rested
  <2>4. MMK_VA_NARGS(a) = Len(a)
    BY <1>2, <1>5, Counts
  <2> HIDE DEF t
  <2>5. Numbered(Len(a), t) = q
    <3>1. Len(a) \in Nat /\ Len(a) >= 1
      <4>1. \A n \in 1..62 : n \in Nat /\ n >= 1
        OBVIOUS
      <4>2. Len(a) \in 1..62
        BY <1>2
      <4> HIDE DEF t
      <4> QED BY <4>1, <4>2
    <3>2. Numbered(Len(a), t) = [i \in 1..Len(a) - 1 |-> [n |-> i - 1, type |-> t[i]]]
      BY <3>1, NumbersUp
    <3> QED BY <2>3, <3>2 DEF Params
  <2>6. made = [i \in DOMAIN q |-> IF i < Len(a) - 1 THEN q[i]
                                   ELSE Select(VaArgs, q[i].type, q[i], Pack)]
    <3> HIDE DEF q
    <3> QED BY <2>4, <2>5 DEF Listed, t
  <2>7. made = [i \in 1..k |-> IF i < k THEN q[i]
                               ELSE Select(VaArgs, q[i].type, q[i], Pack)]
    <3> HIDE DEF k, made, q
    <3> QED BY <1>1, <2>6
  <2> HIDE DEF made, q
  <2>8. \A i \in 1..k : made[i] = IF i <= p THEN e[i] ELSE Pack
    <3> SUFFICES ASSUME NEW i \in 1..k PROVE made[i] = IF i <= p THEN e[i] ELSE Pack
      OBVIOUS
    <3>1. made[i] = IF i < k THEN q[i] ELSE Select(VaArgs, q[i].type, q[i], Pack)
      BY <2>7
    <3>2. made[i] = IF i < k THEN q[i] ELSE IF q[i].type = VaArgs THEN Pack ELSE q[i]
      BY <3>1, Recognised
    <3>3. CASE i <= p
      <4>1. i \in 1..p
        BY <1>1, <3>3
      <4>2. q[i] = e[i] /\ q[i].type # VaArgs
        BY <1>1, <4>1
      <4> QED BY <3>2, <3>3, <4>2
    <3>4. CASE ~(i <= p)
      <4>1. sig.va /\ i = p + 1 /\ ~(i < k)
        BY <1>1, <3>4
      <4>2. q[i].type = VaArgs
        BY <1>1, <4>1
      <4> HIDE DEF k
      <4> QED BY <3>2, <3>4, <4>1, <4>2
    <3> QED BY <3>3, <3>4
  <2>9. e \in Seq(W)
    <3>1. U \subseteq W
      OBVIOUS
    <3> HIDE DEF U, W
    <3> QED BY <1>1, <3>1, Wider
  <2>10. made = All(sig)
    <3> DEFINE l == All(sig)
    <3>1. l \in Seq(W) /\ Len(l) = k /\ \A i \in 1..k : l[i] = IF i <= p THEN e[i] ELSE Pack
      <4>1. Pack \in W
        OBVIOUS
      <4> HIDE DEF W
      <4>2. CASE sig.va
        <5>1. l = Append(e, Pack)
          BY <4>2 DEF All, e
        <5>2. k = p + 1
          BY <4>2
        <5> QED BY <1>1, <2>9, <4>1, <5>1, <5>2
      <4>3. CASE ~sig.va
        <5>1. l = e
          BY <4>3 DEF All, e
        <5>2. k = p
          BY <4>3
        <5> QED BY <1>1, <2>9, <5>1, <5>2
      <4> QED BY <4>2, <4>3
    <3> HIDE DEF l, k, W
    <3>2. made = [i \in 1..k |-> made[i]] /\ \A i \in 1..k : made[i] = l[i]
      BY <2>7, <2>8, <3>1
    <3>3. \A i \in 1..k : made[i] \in W
      <4>1. l \in Seq(W) /\ Len(l) = k
        BY <3>1
      <4>2. \A i \in 1..k : l[i] \in W
        BY <4>1
      <4> QED BY <3>2, <4>2
    <3>4. made \in [1..k -> W] /\ k \in Nat
      BY <1>1, <3>2, <3>3
    <3>5. made \in Seq(W) /\ Len(made) = k
      BY <3>4
    <3> QED BY <3>1, <3>2, <3>5, SameList DEF l
  <2> QED BY <1>3, <1>8, <2>1, <2>10 DEF a
<1> QED BY <1>7, <1>8

(* What the body returns, and where its va_list starts.                    *)
LEMMA Ends ==
    ASSUME NEW sig \in Signature
    PROVE  LET b == mmk_mock_define(Written(sig))
           IN  /\ b.isVoid <=> sig.return = VoidType
               /\ b.isVa <=> sig.va
               /\ sig.va => b.va_start = Len(sig.params) - 1
<1> DEFINE a == Written(sig)
           p == Len(sig.params)
           b == mmk_mock_define(a)
<1>1. /\ a \in Seq(Type \union {VaArgs}) /\ Len(a) \in 1..62
      /\ Len(a) = (IF sig.va THEN p + 2 ELSE p + 1) /\ (sig.va => p >= 1)
      /\ p \in Nat /\ a[1] = sig.return
      /\ \A i \in 1..p : a[i + 1] = sig.params[i] /\ sig.params[i] # VaArgs
      /\ sig.va => a[p + 2] = VaArgs
  BY WrittenIs DEF MaxWritten
<1>2. sig.return \in Type
  BY DEF Signature
<1>3. /\ b.isVoid = MMK_COND_VOID(FALSE, TRUE, MMK_VA_HEAD(a))
      /\ b.isVa = MMK_COND_VA(FALSE, TRUE, MMK_LAST(a))
      /\ b.va_start = VaStart(a)
  BY DEF mmk_mock_define
<1> HIDE DEF a, b, p
<1>4. b.isVoid <=> sig.return = VoidType
  <2>1. MMK_VA_HEAD(a) = a[1]
    BY <1>1 DEF MMK_VA_HEAD
  <2>2. b.isVoid = IF a[1] = VoidType THEN TRUE ELSE FALSE
    BY <1>3, <2>1, Recognised DEF MMK_COND_VOID
  <2> QED BY <1>1, <2>2
<1>5. MMK_LAST(a) = a[Len(a)]
  <2>1. \A n \in 1..62 : n \in 0..62 /\ (n + 1) - 1 = n
    OBVIOUS
  <2>2. MMK_VA_NARGS(<<NoTokens>> \o a) = Len(a) + 1
    BY <1>1, <2>1, CountsOneMore
  <2> QED BY <1>1, <2>1, <2>2 DEF MMK_LAST
<1>6. a[Len(a)] = VaArgs <=> sig.va
  <2>1. CASE sig.va
    BY <1>1, <2>1
  <2>2. CASE ~sig.va
    <3>1. Len(a) = p + 1
      BY <1>1, <2>2
    <3>2. CASE p = 0
      <4>1. Len(a) = 1
        BY <3>1, <3>2
      <4> QED BY <1>1, <1>2, <2>2, <4>1, SignaturesAssumption
    <3>3. CASE p # 0
      <4>1. p \in 1..p
        BY <1>1, <3>3
      <4>2. a[p + 1] # VaArgs
        BY <1>1, <4>1
      <4> QED BY <2>2, <3>1, <4>2
    <3> QED BY <3>2, <3>3
  <2> QED BY <2>1, <2>2
<1>7. b.isVa <=> sig.va
  <2>1. b.isVa = IF MMK_LAST(a) = VaArgs THEN TRUE ELSE FALSE
    BY <1>3, Recognised DEF MMK_COND_VA
  <2> QED BY <1>5, <1>6, <2>1
<1>8. ASSUME sig.va PROVE b.va_start = p - 1
  <2>1. \A n \in 1..62 : n >= 3 => n \in 2..63 /\ n - 1 \in 1..63
    OBVIOUS
  <2>2. Len(a) = p + 2 /\ p >= 1
    BY <1>1, <1>8
  <2>3. Len(a) \in 2..63 /\ Len(a) - 1 \in 1..63
    BY <1>1, <2>1, <2>2
  <2>4. /\ MMK_VA_TAIL(a) = Tail(a) /\ Tail(a) \in Seq(Type \union {VaArgs})
        /\ Len(Tail(a)) = Len(a) - 1
    BY <1>1, <2>3, Rested
  <2>5. MMK_VA_NARGS(Tail(a)) = Len(a) - 1
    <3>1. Len(Tail(a)) \in 1..63
      BY <2>3, <2>4
    <3> QED BY <2>4, <3>1, Counts
  <2>6. VaStart(a) = MMK_DEC(MMK_DEC(p + 1))
    <3>1. Len(a) - 1 = p + 1
      BY <1>1, <2>2
    <3> QED BY <2>4, <2>5, <3>1 DEF VaStart
  <2>7. MMK_DEC(p + 1) = p /\ MMK_DEC(p) = p - 1
    BY <1>1, <2>2 DEF MMK_DEC
  <2> QED BY <1>3, <2>6, <2>7
<1> QED BY <1>4, <1>7, <1>8 DEF a, b, p

-----------------------------------------------------------------------------
(* The bodies are what the macros make of the signatures as written.       *)
Defined ==
    \A sig \in DOMAIN bodies :
      sig \in Signature /\ bodies[sig] = mmk_mock_define(Written(sig))

LEMMA DefInvariance == DefSpec => []Defined
<1>1. DefInit => Defined
  <2> SUFFICES ASSUME bodies = << >> PROVE Defined
    BY DEF DefInit
  <2>1. DOMAIN bodies = {}
    OBVIOUS
  <2> QED BY <2>1 DEF Defined
<1>2. Defined /\ [DefNext]_bodies => Defined'
  <2> SUFFICES ASSUME Defined, [DefNext]_bodies PROVE Defined'
    OBVIOUS
  <2>1. CASE UNCHANGED bodies
    BY <2>1 DEF Defined
  <2>2. ASSUME NEW sig \in Signature, Define(sig) PROVE Defined'
    <3> DEFINE D == DOMAIN bodies \union {sig}
               B(s) == IF s = sig THEN mmk_mock_define(Written(sig)) ELSE bodies[s]
    <3>1. bodies' = [s \in D |-> B(s)]
      BY <2>2 DEF Define
    <3>2. ASSUME NEW s \in D
          PROVE  s \in Signature /\ B(s) = mmk_mock_define(Written(s))
      BY DEF Defined
    <3> HIDE DEF D, B
    <3>3. DOMAIN bodies' = D /\ \A s \in D : bodies'[s] = B(s)
      BY <3>1
    <3> QED BY <3>2, <3>3 DEF Defined
  <2> QED BY <2>1, <2>2 DEF DefNext
<1> QED BY <1>1, <1>2, PTL DEF DefSpec

(* Whatever signature a mock is defined for, up to the number of arguments *)
(* the tables of preprocess.h count, its stub body has each parameter once *)
(* and in its place (mock.h:76-201, 292-379).                              *)
THEOREM ParametersOnce == DefSpec => []EachParameterOnce
<1>1. ASSUME Defined PROVE EachParameterOnce
  <2>1. ASSUME NEW sig \in DOMAIN bodies
        PROVE  /\ bodies[sig].each = Each(sig)
               /\ bodies[sig].pack = All(sig)
               /\ bodies[sig].params =
                    IF sig.params = << >> THEN <<VoidType>> ELSE All(sig)
    <3>1. sig \in Signature /\ bodies[sig] = mmk_mock_define(Written(sig))
      BY <1>1 DEF Defined
    <3>2. /\ bodies[sig].each = NoPack(Written(sig))
          /\ bodies[sig].pack = MMK_PARAM_PACK(Written(sig))
          /\ bodies[sig].params = MMK_PARAM_LIST(Written(sig))
      BY <3>1 DEF mmk_mock_define
    <3> QED BY <3>1, <3>2, Stores, Lists
  <2> QED BY <2>1 DEF EachParameterOnce, Each, All
<1> QED BY <1>1, DefInvariance, PTL

(* The body returns a value and starts a va_list where the signature asks  *)
(* for it (mock.h:203-209, 406-428).                                       *)
THEOREM BodyFits == DefSpec => []BodyFitsSignature
<1>1. ASSUME Defined PROVE BodyFitsSignature
  <2>1. ASSUME NEW sig \in DOMAIN bodies
        PROVE  /\ bodies[sig].isVoid <=> sig.return = VoidType
               /\ bodies[sig].isVa <=> sig.va
               /\ sig.va => bodies[sig].va_start = Len(sig.params) - 1
    <3>1. sig \in Signature /\ bodies[sig] = mmk_mock_define(Written(sig))
      BY <1>1 DEF Defined
    <3> QED BY <3>1, Ends
  <2> QED BY <2>1 DEF BodyFitsSignature
<1> QED BY <1>1, DefInvariance, PTL
=============================================================================
