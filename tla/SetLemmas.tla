----------------------------- MODULE SetLemmas -----------------------------
(***************************************************************************)
(* Facts about sets that the proofs of several components need: least      *)
(* elements and induction, in terms of a set instead of an operator; sums  *)
(* over finite sets as SumFunctionOnSet computes them, one element after   *)
(* the other in an order nobody knows; and lists kept in order.            *)
(***************************************************************************)
EXTENDS WellFoundedInduction, FiniteSetTheorems, SequencesExt, TLAPS

(* A set of natural numbers that is not empty has a least element.          *)
LEMMA LeastNatural ==
    ASSUME NEW S \in SUBSET Nat, S # {}
    PROVE  \E n \in S : \A m \in S : n <= m
<1> DEFINE less == OpToRel(<, Nat)
<1>1. IsWellFoundedOn(less, Nat)
  BY NatLessThanWellFounded
<1> HIDE DEF less
<1>2. PICK n \in S : \A m \in S : <<m, n>> \notin less
  BY <1>1, WFMin
<1>3. \A m \in S : ~(m < n)
  BY <1>2 DEF less, OpToRel
<1> QED BY <1>3

(* Induction over the natural numbers, in terms of a set.                   *)
LEMMA SetInduction ==
    ASSUME NEW S, 0 \in S, \A n \in Nat : n \in S => n + 1 \in S
    PROVE  Nat \subseteq S
<1> SUFFICES ASSUME Nat \ S # {} PROVE FALSE
  OBVIOUS
<1>1. PICK n \in Nat \ S : \A m \in Nat \ S : n <= m
  BY LeastNatural
<1>2. n - 1 \in Nat /\ n - 1 \in S
  BY <1>1
<1> QED BY <1>1, <1>2

-----------------------------------------------------------------------------
(* The table of partial sums behind SumFunctionOnSet(f, S). *)
AnyOf(S) == CHOOSE x \in S : TRUE
Table(f, S, h) ==
    h = [s \in SUBSET S |-> IF s = {} THEN 0 ELSE f[AnyOf(s)] + h[s \ {AnyOf(s)}]]

LEMMA SumIsTable ==
    ASSUME NEW f, NEW S
    PROVE  SumFunctionOnSet(f, S) = (CHOOSE h : Table(f, S, h))[S]
BY DEF SumFunctionOnSet, FoldFunctionOnSet, MapThenFoldSet, Table, AnyOf

LEMMA AnyOfIsIn ==
    ASSUME NEW S, S # {}
    PROVE  AnyOf(S) \in S
BY DEF AnyOf

(* A set of subsets of a finite set has a smallest element. *)
LEMMA SmallestSubset ==
    ASSUME NEW S, IsFiniteSet(S), NEW T \in SUBSET SUBSET S, T # {}
    PROVE  \E s \in T : \A r \in T : r \subseteq s => r = s
<1>1. IsWellFoundedOn(StrictSubsetOrdering(S), SUBSET S)
  BY FS_StrictSubsetOrderingWellFounded, FS_FiniteSubsetsOfFinite
<1>2. PICK s \in T : \A r \in T : <<r, s>> \notin StrictSubsetOrdering(S)
  BY <1>1, WFMin
<1>3. \A r \in T : r \subseteq s => r = s
  BY <1>2 DEF StrictSubsetOrdering
<1> QED BY <1>3

(* Two tables agree where both are defined. *)
LEMMA TablesAgree ==
    ASSUME NEW f, NEW S, IsFiniteSet(S), NEW R,
           NEW g, Table(f, S, g), NEW h, Table(f, R, h)
    PROVE  \A s \in SUBSET S : s \subseteq R => g[s] = h[s]
<1> DEFINE T == {s \in SUBSET S : s \subseteq R /\ g[s] # h[s]}
<1> SUFFICES ASSUME T # {} PROVE FALSE
  OBVIOUS
<1>1. PICK s \in T : \A r \in T : r \subseteq s => r = s
  <2>1. T \in SUBSET SUBSET S
    OBVIOUS
  <2> HIDE DEF T
  <2> QED BY <2>1, SmallestSubset
<1>2. CASE s = {}
  BY <1>2 DEF Table
<1>3. CASE s # {}
  <2>1. AnyOf(s) \in s
    BY <1>3, AnyOfIsIn
  <2>2. g[s \ {AnyOf(s)}] = h[s \ {AnyOf(s)}]
    BY <1>1, <2>1
  <2>3. g[s] = f[AnyOf(s)] + g[s \ {AnyOf(s)}] /\ h[s] = f[AnyOf(s)] + h[s \ {AnyOf(s)}]
    BY <1>3 DEF Table
  <2> QED BY <2>2, <2>3
<1> QED BY <1>2, <1>3

LEMMA TableExists ==
    ASSUME NEW f, NEW S, IsFiniteSet(S)
    PROVE  \E h : Table(f, S, h)
<1> DEFINE T == {s \in SUBSET S : ~ \E h : Table(f, s, h)}
           Sum(s) == SumFunctionOnSet(f, s)
<1> SUFFICES ASSUME T # {} PROVE FALSE
  OBVIOUS
<1>1. PICK s \in T : \A r \in T : r \subseteq s => r = s
  <2>1. T \in SUBSET SUBSET S
    OBVIOUS
  <2> HIDE DEF T
  <2> QED BY <2>1, SmallestSubset
<1>2. ASSUME NEW q \in SUBSET s, q # s
      PROVE  Table(f, q, CHOOSE h : Table(f, q, h)) /\ Sum(q) = (CHOOSE h : Table(f, q, h))[q]
  <2>1. \E h : Table(f, q, h)
    BY <1>1, <1>2
  <2> QED BY <2>1, SumIsTable
<1>3. ASSUME NEW q \in SUBSET s, q # s
      PROVE  Sum(q) = IF q = {} THEN 0 ELSE f[AnyOf(q)] + Sum(q \ {AnyOf(q)})
  <2>1. PICK h : Table(f, q, h) /\ Sum(q) = h[q]
    BY <1>2, <1>3
  <2>2. CASE q = {}
    BY <2>1, <2>2 DEF Table
  <2>3. CASE q # {}
    <3> DEFINE r == q \ {AnyOf(q)}
    <3>1. r \in SUBSET s /\ r # s /\ r \in SUBSET q /\ IsFiniteSet(q)
      BY <2>3, AnyOfIsIn, FS_Subset
    <3>2. PICK g : Table(f, r, g) /\ Sum(r) = g[r]
      BY <1>2, <3>1
    <3>3. g[r] = h[r]
      <4> HIDE DEF r
      <4>1. IsFiniteSet(r)
        BY <3>1, FS_Subset
      <4> QED BY <2>1, <3>1, <3>2, <4>1, TablesAgree
    <3>4. h[q] = f[AnyOf(q)] + h[r]
      BY <2>1, <2>3 DEF Table
    <3> QED BY <2>1, <2>3, <3>2, <3>3, <3>4
  <2> QED BY <2>2, <2>3
<1> DEFINE h == [r \in SUBSET s |-> IF r = {} THEN 0
                                    ELSE f[AnyOf(r)] + Sum(r \ {AnyOf(r)})]
<1>4. ASSUME NEW r \in SUBSET s, r # {}
      PROVE  h[r \ {AnyOf(r)}] = Sum(r \ {AnyOf(r)})
  <2> DEFINE q == r \ {AnyOf(r)}
  <2>1. q \in SUBSET s /\ q # s
    BY <1>4, AnyOfIsIn
  <2>2. h[q] = IF q = {} THEN 0 ELSE f[AnyOf(q)] + Sum(q \ {AnyOf(q)})
    BY <2>1
  <2> HIDE DEF h, q, Sum
  <2>3. Sum(q) = IF q = {} THEN 0 ELSE f[AnyOf(q)] + Sum(q \ {AnyOf(q)})
    BY <1>3, <2>1
  <2>4. h[q] = Sum(q)
    BY <2>2, <2>3
  <2> QED BY <2>4 DEF q
<1>5. h = [r \in SUBSET s |-> IF r = {} THEN 0 ELSE f[AnyOf(r)] + h[r \ {AnyOf(r)}]]
  <2>1. \A r \in SUBSET s : r # {} => h[r \ {AnyOf(r)}] = Sum(r \ {AnyOf(r)})
    BY <1>4
  <2>2. h = [r \in SUBSET s |-> IF r = {} THEN 0 ELSE f[AnyOf(r)] + Sum(r \ {AnyOf(r)})]
    OBVIOUS
  <2> HIDE DEF h, Sum
  <2> QED BY <2>1, <2>2
<1>6. Table(f, s, h)
  <2> HIDE DEF h
  <2> QED BY <1>5 DEF Table
<1> QED BY <1>1, <1>6

-----------------------------------------------------------------------------
LEMMA SumEmpty ==
    ASSUME NEW f
    PROVE  SumFunctionOnSet(f, {}) = 0
<1>1. Table(f, {}, CHOOSE h : Table(f, {}, h))
  BY TableExists, FS_EmptySet
<1> QED BY <1>1, SumIsTable DEF Table

LEMMA SumFirst ==
    ASSUME NEW f, NEW S, IsFiniteSet(S), S # {}
    PROVE  SumFunctionOnSet(f, S) =
               f[AnyOf(S)] + SumFunctionOnSet(f, S \ {AnyOf(S)})
<1> DEFINE R == S \ {AnyOf(S)}
<1>1. IsFiniteSet(R) /\ R \in SUBSET S
  BY FS_Subset
<1>2. PICK g : Table(f, S, g) /\ SumFunctionOnSet(f, S) = g[S]
  <2>1. Table(f, S, CHOOSE h : Table(f, S, h))
    BY TableExists
  <2> QED BY <2>1, SumIsTable
<1>3. PICK h : Table(f, R, h) /\ SumFunctionOnSet(f, R) = h[R]
  <2>1. Table(f, R, CHOOSE h : Table(f, R, h))
    BY <1>1, TableExists
  <2> QED BY <2>1, SumIsTable
<1>4. g[R] = h[R]
  BY <1>1, <1>2, <1>3, TablesAgree
<1>5. g[S] = f[AnyOf(S)] + g[R]
  BY <1>2 DEF Table
<1> QED BY <1>2, <1>3, <1>4, <1>5

LEMMA SumInt ==
    ASSUME NEW f, NEW S, IsFiniteSet(S), \A x \in S : f[x] \in Int
    PROVE  /\ SumFunctionOnSet(f, S) \in Int
           /\ (\A x \in S : f[x] >= 0) => SumFunctionOnSet(f, S) >= 0
<1> DEFINE Sum(s) == SumFunctionOnSet(f, s)
           T == {s \in SUBSET S : ~ /\ Sum(s) \in Int
                                    /\ (\A x \in S : f[x] >= 0) => Sum(s) >= 0}
<1> SUFFICES ASSUME T # {} PROVE FALSE
  OBVIOUS
<1>1. PICK s \in T : \A r \in T : r \subseteq s => r = s
  <2>1. T \in SUBSET SUBSET S
    OBVIOUS
  <2> HIDE DEF T
  <2> QED BY <2>1, SmallestSubset
<1>2. s # {}
  BY SumEmpty
<1>3. AnyOf(s) \in s /\ IsFiniteSet(s)
  BY <1>2, AnyOfIsIn, FS_Subset
<1>4. Sum(s) = f[AnyOf(s)] + Sum(s \ {AnyOf(s)})
  BY <1>2, <1>3, SumFirst
<1>5. s \ {AnyOf(s)} \notin T /\ s \ {AnyOf(s)} \in SUBSET S
  BY <1>1, <1>3
<1> HIDE DEF Sum
<1> QED BY <1>3, <1>4, <1>5

(* Any element may be taken out. *)
LEMMA SumTake ==
    ASSUME NEW f, NEW S, IsFiniteSet(S), \A x \in S : f[x] \in Int, NEW e \in S
    PROVE  SumFunctionOnSet(f, S) = f[e] + SumFunctionOnSet(f, S \ {e})
<1> DEFINE Sum(s) == SumFunctionOnSet(f, s)
           T == {s \in SUBSET S : \E x \in s : Sum(s) # f[x] + Sum(s \ {x})}
<1> SUFFICES ASSUME T # {} PROVE FALSE
  OBVIOUS
<1>1. PICK s \in T : \A r \in T : r \subseteq s => r = s
  <2>1. T \in SUBSET SUBSET S
    OBVIOUS
  <2> HIDE DEF T
  <2> QED BY <2>1, SmallestSubset
<1>2. PICK x \in s : Sum(s) # f[x] + Sum(s \ {x})
  OBVIOUS
<1> DEFINE c == AnyOf(s)
<1>3. c \in s /\ IsFiniteSet(s) /\ s \in SUBSET S
  BY <1>2, AnyOfIsIn, FS_Subset
<1>4. Sum(s) = f[c] + Sum(s \ {c})
  BY <1>2, <1>3, SumFirst
<1>5. c # x
  BY <1>2, <1>4
<1>6. s \ {c} \notin T /\ s \ {x} \notin T
  BY <1>1, <1>2, <1>3
<1>7. /\ Sum(s \ {c}) = f[x] + Sum((s \ {c}) \ {x})
      /\ Sum(s \ {x}) = f[c] + Sum((s \ {x}) \ {c})
  BY <1>2, <1>3, <1>5, <1>6
<1>8. (s \ {c}) \ {x} = (s \ {x}) \ {c} /\ IsFiniteSet((s \ {c}) \ {x})
  BY <1>3, FS_Subset
<1>9. Sum((s \ {c}) \ {x}) \in Int /\ f[x] \in Int /\ f[c] \in Int
  BY <1>2, <1>3, <1>8, SumInt
<1> HIDE DEF Sum, c
<1> QED BY <1>2, <1>4, <1>7, <1>8, <1>9

LEMMA SumSame ==
    ASSUME NEW f, NEW g, NEW S, IsFiniteSet(S), \A x \in S : f[x] = g[x]
    PROVE  SumFunctionOnSet(f, S) = SumFunctionOnSet(g, S)
<1> DEFINE T == {s \in SUBSET S : SumFunctionOnSet(f, s) # SumFunctionOnSet(g, s)}
<1> SUFFICES ASSUME T # {} PROVE FALSE
  OBVIOUS
<1>1. PICK s \in T : \A r \in T : r \subseteq s => r = s
  <2>1. T \in SUBSET SUBSET S
    OBVIOUS
  <2> HIDE DEF T
  <2> QED BY <2>1, SmallestSubset
<1>2. s # {}
  BY SumEmpty
<1>3. AnyOf(s) \in s /\ IsFiniteSet(s)
  BY <1>2, AnyOfIsIn, FS_Subset
<1>4. s \ {AnyOf(s)} \notin T
  BY <1>1, <1>3
<1> QED BY <1>2, <1>3, <1>4, SumFirst

(* One value changes. *)
LEMMA SumChange ==
    ASSUME NEW f, NEW g, NEW S, IsFiniteSet(S), NEW e \in S,
           \A x \in S : f[x] \in Int, \A x \in S : g[x] \in Int,
           \A x \in S \ {e} : f[x] = g[x]
    PROVE  SumFunctionOnSet(g, S) = SumFunctionOnSet(f, S) - f[e] + g[e]
<1>1. IsFiniteSet(S \ {e})
  BY FS_Subset
<1>2. SumFunctionOnSet(f, S \ {e}) = SumFunctionOnSet(g, S \ {e})
  BY <1>1, SumSame
<1>3. SumFunctionOnSet(f, S \ {e}) \in Int
  BY <1>1, SumInt
<1>4. /\ SumFunctionOnSet(f, S) = f[e] + SumFunctionOnSet(f, S \ {e})
      /\ SumFunctionOnSet(g, S) = g[e] + SumFunctionOnSet(g, S \ {e})
  BY SumTake
<1> QED BY <1>2, <1>3, <1>4

(* Zeros do not count. *)
LEMMA SumSkip ==
    ASSUME NEW f, NEW g, NEW S, IsFiniteSet(S), NEW R \in SUBSET S,
           \A x \in S : f[x] \in Int, \A x \in S \ R : f[x] = 0,
           \A x \in R : g[x] = f[x]
    PROVE  SumFunctionOnSet(f, S) = SumFunctionOnSet(g, R)
<1> DEFINE Sum(s) == SumFunctionOnSet(f, s)
           T == {s \in SUBSET S : Sum(s) # Sum(s \intersect R)}
<1>1. T = {}
  <2> SUFFICES ASSUME T # {} PROVE FALSE
    OBVIOUS
  <2>1. PICK s \in T : \A r \in T : r \subseteq s => r = s
    <3>1. T \in SUBSET SUBSET S
      OBVIOUS
    <3> HIDE DEF T
    <3> QED BY <3>1, SmallestSubset
  <2>2. s # {} /\ s \in SUBSET S
    BY <2>1
  <2> DEFINE c == AnyOf(s)
             r == s \ {c}
  <2>3. c \in s /\ IsFiniteSet(s) /\ IsFiniteSet(s \intersect R)
    BY <2>2, AnyOfIsIn, FS_Subset
  <2>4. Sum(s) = f[c] + Sum(r)
    BY <2>2, <2>3, SumTake
  <2>5. Sum(r) = Sum(r \intersect R)
    BY <2>1, <2>3
  <2>6. Sum(r) \in Int
    BY <2>2, <2>3, FS_Subset, SumInt
  <2> HIDE DEF c
  <2>7. CASE c \in R
    <3>1. /\ (s \intersect R) \ {c} = r \intersect R /\ c \in s \intersect R
          /\ \A x \in s \intersect R : f[x] \in Int
      BY <2>2, <2>3, <2>7
    <3>2. Sum(s \intersect R) = f[c] + Sum((s \intersect R) \ {c})
      BY <2>3, <3>1, SumTake
    <3> QED BY <2>1, <2>4, <2>5, <3>1, <3>2
  <2>8. CASE c \notin R
    <3>1. s \intersect R = r \intersect R /\ f[c] = 0
      BY <2>2, <2>3, <2>8
    <3>2. Sum(s) = Sum(r)
      BY <2>4, <2>6, <3>1
    <3> QED BY <2>1, <2>5, <3>1, <3>2
  <2> QED BY <2>7, <2>8
<1>2. S \notin T /\ S \intersect R = R /\ IsFiniteSet(R)
  BY <1>1, FS_Subset
<1>3. Sum(R) = SumFunctionOnSet(g, R)
  BY <1>2, SumSame
<1> QED BY <1>2, <1>3

(* A sequence gets a new first element: every other moves up by one.       *)
LEMMA SumShift ==
    ASSUME NEW f, NEW g, NEW len \in Nat,
           \A i \in 1..len : f[i] \in Int /\ g[i + 1] = f[i], g[1] \in Int
    PROVE  SumFunctionOnSet(g, 1..len + 1) = g[1] + SumFunctionOnSet(f, 1..len)
<1> DEFINE SumF(n) == SumFunctionOnSet(f, 1..n)
           SumG(n) == SumFunctionOnSet(g, 1..n)
           S == {n \in Nat : n <= len => SumG(n + 1) = g[1] + SumF(n)}
<1>1. 0 \in S
  <2>0. 1..0 = {} /\ 1..0 + 1 = {1} /\ {1} \ {1} = {}
    OBVIOUS
  <2>1. IsFiniteSet({1})
    BY FS_Singleton
  <2>2. SumG(0 + 1) = g[1] + SumFunctionOnSet(g, {1} \ {1})
    BY <2>0, <2>1, SumTake
  <2> QED BY <2>0, <2>2, SumEmpty
<1>2. ASSUME NEW n \in Nat, n \in S
      PROVE  n + 1 \in S
  <2> SUFFICES ASSUME n + 1 <= len PROVE SumG(n + 2) = g[1] + SumF(n + 1)
    OBVIOUS
  <2>1. SumG(n + 1) = g[1] + SumF(n)
    BY <1>2
  <2>2. /\ (1..n + 1) \ {n + 1} = 1..n /\ (1..n + 2) \ {n + 2} = 1..n + 1
        /\ n + 1 \in 1..len /\ n + 1 \in 1..n + 1 /\ n + 2 \in 1..n + 2
    OBVIOUS
  <2>3. IsFiniteSet(1..n) /\ IsFiniteSet(1..n + 1) /\ IsFiniteSet(1..n + 2)
    BY FS_Interval
  <2>4. \A i \in 1..n + 2 : g[i] \in Int
    <3> SUFFICES ASSUME NEW i \in 1..n + 2, i # 1 PROVE g[i] \in Int
      OBVIOUS
    <3>1. i - 1 \in 1..len /\ (i - 1) + 1 = i
      OBVIOUS
    <3> QED BY <3>1
  <2>5. SumG(n + 2) = g[n + 2] + SumG(n + 1)
    <3> DEFINE U == 1..n + 2
               e == n + 2
    <3>1. IsFiniteSet(U) /\ e \in U /\ \A x \in U : g[x] \in Int
      BY <2>2, <2>3, <2>4
    <3>2. U \ {e} = 1..n + 1
      BY <2>2
    <3> HIDE DEF U, e
    <3>3. SumFunctionOnSet(g, U) = g[e] + SumFunctionOnSet(g, U \ {e})
      BY <3>1, SumTake
    <3> QED BY <3>2, <3>3 DEF U, e
  <2>6. SumF(n + 1) = f[n + 1] + SumF(n)
    <3> DEFINE U == 1..n + 1
               e == n + 1
    <3>1. IsFiniteSet(U) /\ e \in U /\ \A x \in U : f[x] \in Int
      BY <2>2, <2>3
    <3>2. U \ {e} = 1..n
      BY <2>2
    <3> HIDE DEF U, e
    <3>3. SumFunctionOnSet(f, U) = f[e] + SumFunctionOnSet(f, U \ {e})
      BY <3>1, SumTake
    <3> QED BY <3>2, <3>3 DEF U, e
  <2>7. g[n + 2] = f[n + 1] /\ f[n + 1] \in Int
    <3>1. (n + 1) + 1 = n + 2
      OBVIOUS
    <3> QED BY <2>2, <3>1
  <2>8. SumF(n) \in Int
    BY <2>3, SumInt
  <2> HIDE DEF SumF, SumG
  <2> QED BY <2>1, <2>5, <2>6, <2>7, <2>8
<1>3. Nat \subseteq S
  <2> HIDE DEF S
  <2> QED BY <1>1, <1>2, SetInduction
<1> QED BY <1>3

-----------------------------------------------------------------------------
(* Lists of records in the order of their field prio.                      *)
(* A record goes before the first one that does not precede it.            *)
PutInOrder(list, m) ==
    LET k == SelectInSeq(list, LAMBDA x : x.prio >= m.prio)
    IN  IF k = 0 THEN Append(list, m) ELSE InsertAt(list, k, m)

(* The list has the records F[p] with p in S, in order.                    *)
InOrder(list, F, S) ==
    /\ \A j \in DOMAIN list : list[j].prio \in S /\ list[j] = F[list[j].prio]
    /\ \A i, j \in DOMAIN list : i < j => list[i].prio < list[j].prio
    /\ \A p \in S : \E j \in DOMAIN list : list[j].prio = p

(* The new record is at place k, the others keep their order around it.    *)
Inserted(r, list, k, m) ==
    /\ k \in 1..Len(list) + 1 /\ DOMAIN r = 1..Len(list) + 1
    /\ \A j \in 1..Len(list) : IF j < k THEN r[j] = list[j] ELSE r[j + 1] = list[j]
    /\ r[k] = m

LEMMA Concat ==
    ASSUME NEW X, NEW r \in Seq(X), NEW s \in Seq(X), NEW q, q = r \o s
    PROVE  /\ q \in Seq(X) /\ Len(q) = Len(r) + Len(s)
           /\ \A j \in 1..Len(r) : q[j] = r[j]
           /\ \A j \in 1..Len(s) : q[Len(r) + j] = s[j]
OBVIOUS

(* Two lists are the same when they have the same elements.                *)
LEMMA SameList ==
    ASSUME NEW X, NEW q \in Seq(X), NEW r \in Seq(X), Len(q) = Len(r),
           \A i \in 1..Len(q) : q[i] = r[i]
    PROVE  q = r
OBVIOUS

LEMMA Wider ==
    ASSUME NEW X, NEW Y, X \subseteq Y, NEW s \in Seq(X)
    PROVE  s \in Seq(Y)
<1>1. s \in [1..Len(s) -> Y] /\ Len(s) \in Nat
  OBVIOUS
<1> QED BY <1>1

(* Two lists, one after the other, whatever is in them.                    *)
LEMMA Joined ==
    ASSUME NEW X, NEW Y, NEW r \in Seq(X), NEW s \in Seq(Y), NEW q, q = r \o s
    PROVE  /\ q \in Seq(X \union Y) /\ Len(q) = Len(r) + Len(s)
           /\ \A j \in 1..Len(r) : q[j] = r[j]
           /\ \A j \in 1..Len(s) : q[Len(r) + j] = s[j]
<1> DEFINE U == X \union Y
<1>1. r \in Seq(U)
  <2>1. X \subseteq U
    OBVIOUS
  <2> HIDE DEF U
  <2> QED BY <2>1, Wider
<1>2. s \in Seq(U)
  <2>1. Y \subseteq U
    OBVIOUS
  <2> HIDE DEF U
  <2> QED BY <2>1, Wider
<1> HIDE DEF U
<1>3. /\ q \in Seq(U) /\ Len(q) = Len(r) + Len(s)
      /\ \A j \in 1..Len(r) : q[j] = r[j]
      /\ \A j \in 1..Len(s) : q[Len(r) + j] = s[j]
  BY <1>1, <1>2, Concat
<1> QED BY <1>3 DEF U

LEMMA Inserting ==
    ASSUME NEW X, NEW list \in Seq(X), NEW m \in X, NEW k \in 1..Len(list)
    PROVE  Inserted((SubSeq(list, 1, k - 1) \o <<m>>) \o SubSeq(list, k, Len(list)),
                    list, k, m)
<1> DEFINE a == SubSeq(list, 1, k - 1)
           b == SubSeq(list, k, Len(list))
           c == <<m>>
           f == a \o c
           r == f \o b
<1>1. /\ a \in Seq(X) /\ Len(a) = k - 1 /\ \A j \in 1..k - 1 : a[j] = list[j]
      /\ b \in Seq(X) /\ Len(b) = Len(list) - k + 1
      /\ \A j \in 1..Len(list) - k + 1 : b[j] = list[j + k - 1]
      /\ c \in Seq(X) /\ Len(c) = 1 /\ c[1] = m
  OBVIOUS
<1> HIDE DEF a, b, c
<1>2. /\ f \in Seq(X) /\ Len(f) = Len(a) + Len(c)
      /\ \A j \in 1..Len(a) : f[j] = a[j]
      /\ \A j \in 1..Len(c) : f[Len(a) + j] = c[j]
  <2>1. f = a \o c /\ a \in Seq(X) /\ c \in Seq(X)
    BY <1>1
  <2> HIDE DEF f
  <2> QED BY <2>1, Concat
<1> HIDE DEF f
<1>3. Len(f) = k /\ f[k] = m /\ \A j \in 1..k - 1 : f[j] = list[j]
  <2>1. f[Len(a) + 1] = c[1] /\ Len(a) + 1 = k /\ Len(f) = k
    BY <1>1, <1>2
  <2> QED BY <1>1, <1>2, <2>1
<1>4. /\ r \in Seq(X) /\ Len(r) = Len(f) + Len(b)
      /\ \A j \in 1..Len(f) : r[j] = f[j]
      /\ \A j \in 1..Len(b) : r[Len(f) + j] = b[j]
  <2>1. r = f \o b /\ f \in Seq(X) /\ b \in Seq(X)
    BY <1>1, <1>2
  <2> HIDE DEF r
  <2> QED BY <2>1, Concat
<1> HIDE DEF r
<1>5. \A j \in k..Len(list) : r[j + 1] = list[j]
  <2> SUFFICES ASSUME NEW j \in k..Len(list) PROVE r[j + 1] = list[j]
    OBVIOUS
  <2> DEFINE i == j - k + 1
  <2>1. i \in 1..Len(b) /\ Len(f) + i = j + 1 /\ i + k - 1 = j
    BY <1>1, <1>3
  <2>2. r[Len(f) + i] = b[i] /\ b[i] = list[i + k - 1]
    BY <1>1, <1>4, <2>1
  <2> QED BY <2>1, <2>2
<1>6. Len(r) = Len(list) + 1 /\ DOMAIN r = 1..Len(list) + 1
  BY <1>1, <1>3, <1>4
<1>7. r[k] = m /\ \A j \in 1..k - 1 : r[j] = list[j]
  BY <1>3, <1>4
<1>8. Inserted(r, list, k, m)
  BY <1>5, <1>6, <1>7 DEF Inserted
<1> QED BY <1>8 DEF r, f, a, b, c

(* The list grows by the record.                                          *)
LEMMA PutGrows ==
    ASSUME NEW X, NEW list \in Seq(X), NEW m \in X
    PROVE  /\ PutInOrder(list, m) \in Seq(X)
           /\ Len(PutInOrder(list, m)) = Len(list) + 1
<1> DEFINE I == {i \in 1..Len(list) : list[i].prio >= m.prio}
           k == SelectInSeq(list, LAMBDA x : x.prio >= m.prio)
<1>1. k = IF I # {} THEN Min(I) ELSE 0
  BY DEF SelectInSeq
<1>2. CASE I = {}
  <2>1. PutInOrder(list, m) = Append(list, m)
    BY <1>1, <1>2 DEF PutInOrder
  <2> QED BY <2>1
<1>3. CASE I # {}
  <2>1. I \in SUBSET Nat
    OBVIOUS
  <2>2. \E i \in I : \A j \in I : i <= j
    BY <2>1, <1>3, LeastNatural
  <2>3. k \in 1..Len(list)
    BY <1>1, <1>3, <2>2 DEF Min
  <2>4. PutInOrder(list, m) = IF k = 0 THEN Append(list, m) ELSE InsertAt(list, k, m)
    BY DEF PutInOrder
  <2> HIDE DEF k, I
  <2>5. PutInOrder(list, m) =
            (SubSeq(list, 1, k - 1) \o <<m>>) \o SubSeq(list, k, Len(list))
    BY <2>3, <2>4 DEF InsertAt
  <2>6. /\ SubSeq(list, 1, k - 1) \in Seq(X) /\ Len(SubSeq(list, 1, k - 1)) = k - 1
        /\ SubSeq(list, k, Len(list)) \in Seq(X)
        /\ Len(SubSeq(list, k, Len(list))) = Len(list) - k + 1
    BY <2>3
  <2>7. /\ SubSeq(list, 1, k - 1) \o <<m>> \in Seq(X)
        /\ Len(SubSeq(list, 1, k - 1) \o <<m>>) = k
    BY <2>3, <2>6
  <2> DEFINE front == SubSeq(list, 1, k - 1) \o <<m>>
             back  == SubSeq(list, k, Len(list))
  <2>8. front \in Seq(X) /\ back \in Seq(X) /\ Len(front) + Len(back) = Len(list) + 1
    BY <2>3, <2>6, <2>7
  <2>9. PutInOrder(list, m) = front \o back
    BY <2>5
  <2> HIDE DEF front, back
  <2> QED BY <2>8, <2>9, Concat
<1> QED BY <1>2, <1>3

LEMMA PutPlaces ==
    ASSUME NEW X, NEW list \in Seq(X), NEW m \in X, m.prio \in Nat,
           \A j \in DOMAIN list : list[j].prio \in Nat,
           \A i, j \in DOMAIN list : i < j => list[i].prio < list[j].prio
    PROVE  \E k \in Nat :
              /\ Inserted(PutInOrder(list, m), list, k, m)
              /\ \A j \in DOMAIN list : IF j < k THEN list[j].prio < m.prio
                                                 ELSE list[j].prio >= m.prio
<1> DEFINE I == {i \in 1..Len(list) : list[i].prio >= m.prio}
           k == SelectInSeq(list, LAMBDA x : x.prio >= m.prio)
<1>1. k = IF I # {} THEN Min(I) ELSE 0
  BY DEF SelectInSeq
<1>2. CASE I = {}
  <2>1. PutInOrder(list, m) = Append(list, m)
    BY <1>1, <1>2 DEF PutInOrder
  <2>2. Inserted(Append(list, m), list, Len(list) + 1, m)
    BY DEF Inserted
  <2>3. \A j \in 1..Len(list) : j < Len(list) + 1 /\ list[j].prio < m.prio
    BY <1>2
  <2> QED BY <2>1, <2>2, <2>3
<1>3. CASE I # {}
  <2>0. I \in SUBSET Nat
    OBVIOUS
  <2>1. PICK n \in I : \A j \in I : n <= j
    BY <1>3, <2>0, LeastNatural
  <2>2. k = n
    BY <1>1, <1>3, <2>1 DEF Min
  <2>3. PutInOrder(list, m) = IF k = 0 THEN Append(list, m) ELSE InsertAt(list, k, m)
    BY DEF PutInOrder
  <2> HIDE DEF k
  <2>4. PutInOrder(list, m) =
            (SubSeq(list, 1, n - 1) \o <<m>>) \o SubSeq(list, n, Len(list))
    <3>1. PutInOrder(list, m) = InsertAt(list, n, m)
      BY <2>2, <2>3
    <3> QED BY <3>1 DEF InsertAt
  <2>5. Inserted(PutInOrder(list, m), list, n, m)
    BY <2>4, Inserting
  <2>6. \A j \in 1..Len(list) : j < n => list[j].prio < m.prio
    BY <2>1
  <2>7. \A j \in 1..Len(list) : j >= n => list[j].prio >= m.prio
    <3> SUFFICES ASSUME NEW j \in 1..Len(list), j >= n PROVE list[j].prio >= m.prio
      OBVIOUS
    <3>1. j = n \/ list[n].prio < list[j].prio
      OBVIOUS
    <3> QED BY <3>1
  <2> QED BY <2>5, <2>6, <2>7
<1> QED BY <1>2, <1>3

LEMMA OrderedPut ==
    ASSUME NEW X, NEW list \in Seq(X), NEW F, NEW S \in SUBSET Nat, NEW p \in Nat \ S,
           F[p] \in X, F[p].prio = p, InOrder(list, F, S)
    PROVE  InOrder(PutInOrder(list, F[p]), F, S \union {p})
<1> DEFINE m == F[p]
           r == PutInOrder(list, m)
<1>1. m.prio = p
  OBVIOUS
<1>2. /\ \A j \in DOMAIN list : list[j].prio \in S /\ list[j] = F[list[j].prio]
      /\ \A i, j \in DOMAIN list : i < j => list[i].prio < list[j].prio
      /\ \A q \in S : \E j \in DOMAIN list : list[j].prio = q
  BY DEF InOrder
<1> HIDE DEF m
<1>0. /\ \A j \in DOMAIN list : list[j].prio \in Nat
      /\ DOMAIN list = 1..Len(list) /\ Len(list) \in Nat
  <2>1. \A j \in DOMAIN list : list[j].prio \in S
    BY <1>2
  <2>2. S \subseteq Nat
    OBVIOUS
  <2>3. DOMAIN list = 1..Len(list) /\ Len(list) \in Nat
    OBVIOUS
  <2> QED BY <2>1, <2>2, <2>3
<1>3. PICK k \in Nat :
         /\ Inserted(r, list, k, m)
         /\ \A j \in DOMAIN list : IF j < k THEN list[j].prio < m.prio
                                            ELSE list[j].prio >= m.prio
  <2>1. m \in X
    BY DEF m
  <2> QED BY <1>0, <1>1, <1>2, <2>1, PutPlaces
<1> HIDE DEF r
<1>4. /\ k \in 1..Len(list) + 1 /\ DOMAIN r = 1..Len(list) + 1 /\ r[k] = m
      /\ \A j \in 1..Len(list) : j < k => r[j] = list[j]
      /\ \A j \in 1..Len(list) : j >= k => r[j + 1] = list[j]
  BY <1>3 DEF Inserted
<1>5. \A j \in DOMAIN list : IF j < k THEN list[j].prio < p ELSE list[j].prio > p
  BY <1>1, <1>0, <1>2, <1>3
<1>6. \A j \in DOMAIN r : \/ j < k /\ j \in DOMAIN list /\ r[j] = list[j]
                          \/ j = k /\ r[j] = m
                          \/ j > k /\ j - 1 \in DOMAIN list /\ r[j] = list[j - 1]
  <2> SUFFICES ASSUME NEW j \in 1..Len(list) + 1
               PROVE  \/ j < k /\ j \in DOMAIN list /\ r[j] = list[j]
                      \/ j = k /\ r[j] = m
                      \/ j > k /\ j - 1 \in DOMAIN list /\ r[j] = list[j - 1]
    BY <1>4
  <2>1. CASE j < k
    BY <1>0, <1>2, <1>4, <2>1
  <2>2. CASE j > k
    <3>1. j - 1 \in 1..Len(list) /\ j - 1 >= k /\ (j - 1) + 1 = j
      BY <1>0, <1>2, <1>4, <2>2
    <3> QED BY <1>0, <1>2, <1>4, <2>2, <3>1
  <2> QED BY <1>4, <2>1, <2>2
<1>7. \A j \in DOMAIN r : r[j].prio \in S \union {p} /\ r[j] = F[r[j].prio]
  BY <1>1, <1>0, <1>2, <1>6 DEF m
<1>8. ASSUME NEW i \in DOMAIN r, NEW j \in DOMAIN r, i < j
      PROVE  r[i].prio < r[j].prio
  <2>0. i \in Nat /\ j \in Nat /\ k \in Nat /\ p \in Nat
    BY <1>0, <1>2, <1>4
  <2>1. CASE j < k
    BY <1>0, <1>2, <1>6, <1>8, <2>0, <2>1
  <2>2. CASE j = k
    <3>1. i \in DOMAIN list /\ r[i] = list[i] /\ r[j] = m
      BY <1>6, <1>8, <2>0, <2>2
    <3> QED BY <1>1, <1>5, <1>8, <2>2, <3>1
  <2>3. CASE j > k
    <3>1. j - 1 \in DOMAIN list /\ r[j] = list[j - 1] /\ list[j - 1].prio > p
      BY <1>5, <1>6, <2>0, <2>3
    <3>2. CASE i < k
      <4>1. i \in DOMAIN list /\ r[i] = list[i] /\ list[i].prio < p
        BY <1>5, <1>6, <2>0, <3>2
      <4> QED BY <1>0, <1>2, <2>0, <3>1, <4>1
    <3>3. CASE i = k
      BY <1>1, <1>4, <3>1, <3>3
    <3>4. CASE i > k
      <4>1. i - 1 \in DOMAIN list /\ r[i] = list[i - 1] /\ i - 1 < j - 1
        BY <1>6, <1>8, <2>0, <3>4
      <4> QED BY <1>0, <1>2, <3>1, <4>1
    <3> QED BY <2>0, <3>2, <3>3, <3>4
  <2> QED BY <2>0, <2>1, <2>2, <2>3
<1>9. ASSUME NEW q \in S \union {p}
      PROVE  \E j \in DOMAIN r : r[j].prio = q
  <2>1. CASE q = p
    BY <1>1, <1>4, <2>1
  <2>2. CASE q \in S
    <3>1. PICK j \in DOMAIN list : list[j].prio = q
      BY <1>0, <1>2, <2>2
    <3>2. j \in 1..Len(list) /\ j \in DOMAIN r /\ j + 1 \in DOMAIN r
      BY <1>0, <1>2, <1>4
    <3>3. r[j] = list[j] \/ r[j + 1] = list[j]
      BY <1>4, <3>2
    <3> QED BY <3>1, <3>2, <3>3
  <2> QED BY <2>1, <2>2
<1>10. InOrder(r, F, S \union {p})
  BY <1>7, <1>8, <1>9 DEF InOrder
<1> QED BY <1>10 DEF r, m

(* A list of the nodes 1 to n has each at its own place.                   *)
LEMMA OrderedWhole ==
    ASSUME NEW X, NEW list \in Seq(X), NEW F, NEW n \in Nat, InOrder(list, F, 1..n)
    PROVE  Len(list) = n /\ \A j \in 1..n : list[j] = F[j]
<1>1. /\ \A j \in DOMAIN list : list[j].prio \in 1..n
      /\ \A i, j \in DOMAIN list : i < j => list[i].prio < list[j].prio
      /\ \A q \in 1..n : \E j \in DOMAIN list : list[j].prio = q
      /\ DOMAIN list = 1..Len(list) /\ Len(list) \in Nat
  BY DEF InOrder
<1> DEFINE Q == {p \in Nat : 1 <= p /\ p <= n => p <= Len(list) /\ list[p].prio = p}
<1>2. 0 \in Q
  OBVIOUS
<1>3. ASSUME NEW p \in Nat, p \in Q
      PROVE  p + 1 \in Q
  <2> SUFFICES ASSUME p + 1 <= n
               PROVE  p + 1 <= Len(list) /\ list[p + 1].prio = p + 1
    OBVIOUS
  <2>1. PICK j \in 1..Len(list) : list[j].prio = p + 1
    BY <1>1
  <2>2. p >= 1 => p \in 1..Len(list) /\ list[p].prio = p
    BY <1>1, <1>3
  <2>3. j > p
    <3> SUFFICES ASSUME j <= p PROVE FALSE
      OBVIOUS
    <3>1. p \in 1..Len(list) /\ list[p].prio = p
      BY <2>2
    <3>2. j = p \/ j < p
      OBVIOUS
    <3>4. j < p => list[j].prio < list[p].prio
      BY <1>1, <3>1
    <3> QED BY <2>1, <3>1, <3>2, <3>4
  <2>4. ~(j > p + 1)
    <3> SUFFICES ASSUME j > p + 1 PROVE FALSE
      OBVIOUS
    <3>1. p + 1 \in 1..Len(list)
      OBVIOUS
    <3>2. list[p + 1].prio < p + 1 /\ list[p + 1].prio \in 1..n
      <4>1. j \in DOMAIN list /\ p + 1 \in DOMAIN list /\ p + 1 < j
        BY <1>1, <3>1
      <4>2. list[p + 1].prio < list[j].prio
        BY <1>1, <4>1
      <4> QED BY <1>1, <2>1, <4>1, <4>2
    <3>3. p >= 1 => p < list[p + 1].prio
      <4> SUFFICES ASSUME p >= 1 PROVE p < list[p + 1].prio
        OBVIOUS
      <4>1. p \in DOMAIN list /\ p + 1 \in DOMAIN list /\ p < p + 1
        BY <1>1, <2>2, <3>1
      <4>2. list[p].prio < list[p + 1].prio
        BY <1>1, <4>1
      <4> QED BY <2>2, <4>2
    <3> QED BY <3>2, <3>3
  <2> QED BY <1>1, <2>1, <2>3, <2>4
<1>4. \A p \in Nat : p \in Q
  <2> HIDE DEF Q
  <2> QED BY <1>2, <1>3, SetInduction
<1>5. \A p \in 1..n : p <= Len(list) /\ list[p].prio = p
  BY <1>4
<1>6. Len(list) >= n
  BY <1>1, <1>5
<1>7. ~(Len(list) > n)
  <2> SUFFICES ASSUME Len(list) > n PROVE FALSE
    OBVIOUS
  <2>1. n + 1 \in 1..Len(list) /\ list[n + 1].prio \in 1..n
    BY <1>1
  <2>2. n >= 1 /\ n \in 1..Len(list) /\ list[n].prio = n
    BY <1>1, <1>5, <2>1
  <2>3. list[n].prio < list[n + 1].prio
    BY <1>1, <2>1, <2>2
  <2> QED BY <2>1, <2>2, <2>3
<1>8. Len(list) = n
  <2>1. Len(list) \in Nat
    BY <1>1
  <2> QED BY <1>6, <1>7, <2>1
<1>9. ASSUME NEW j \in 1..n PROVE list[j] = F[j]
  <2>1. j \in DOMAIN list /\ list[j].prio = j
    BY <1>1, <1>5
  <2>2. list[j] = F[list[j].prio]
    BY <2>1 DEF InOrder
  <2> QED BY <2>1, <2>2
<1> QED BY <1>8, <1>9
=============================================================================
