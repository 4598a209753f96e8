---------------------------- MODULE LoaderProofs ----------------------------
(***************************************************************************)
(* Safety of module BackEnds: what a stub patches, in every program of any *)
(* of the three formats of executables and for every target string.        *)
(***************************************************************************)
EXTENDS BackEnds, SetLemmas

(* What SelectInSeq gives: the least of the places it tests for, if any.   *)
LEMMA LeastOf ==
    ASSUME NEW I \in SUBSET Nat, NEW k, k = IF I # {} THEN Min(I) ELSE 0
    PROVE  (I = {} /\ k = 0) \/ (k \in I /\ \A j \in I : k <= j)
<1>1. CASE I # {}
  <2>1. PICK n \in I : \A j \in I : n <= j
    BY <1>1, LeastNatural
  <2> DEFINE m == CHOOSE x \in I : \A y \in I : x <= y
  <2>2. Min(I) = m
    BY DEF Min
  <2>3. m \in I /\ \A y \in I : m <= y
    BY <2>1
  <2> HIDE DEF m
  <2> QED BY <1>1, <2>2, <2>3
<1> QED BY <1>1

LEMMA ListIs ==
    ASSUME NEW s, IsList(s)
    PROVE  /\ Len(s) \in Nat /\ DOMAIN s = 1..Len(s)
           /\ s \in Seq({s[i] : i \in DOMAIN s})
BY DEF IsList

-----------------------------------------------------------------------------
(* Target strings.  A string is cut at the first c; one without c is not.  *)
Halves(text, a, c, b) ==
    /\ Len(text) = Len(a) + 1 + Len(b)
    /\ \A j \in 1..Len(a) : text[j] = a[j]
    /\ text[Len(a) + 1] = c
    /\ \A j \in 1..Len(b) : text[Len(a) + 1 + j] = b[j]

LEMMA Cut ==
    ASSUME NEW X, NEW a \in Seq(X), NEW b \in Seq(X), NEW c, NEW text \in Seq(X),
           \A i \in 1..Len(a) : a[i] # c, Halves(text, a, c, b)
    PROVE  Before(text, c) = a /\ After(text, c) = b
<1> DEFINE I == {i \in 1..Len(text) : text[i] = c}
           k == mmk_strchr(text, c)
           n == Len(a) + 1
<1>1. /\ text[n] = c
      /\ \A j \in 1..Len(a) : text[j] = a[j]
  BY DEF Halves
<1>2. Len(text) = n + Len(b) /\ \A j \in 1..Len(b) : text[n + j] = b[j]
  BY DEF Halves
<1>3. Len(a) \in Nat /\ Len(b) \in Nat /\ n \in 1..Len(text) /\ Len(text) \in Nat
  BY <1>2
<1>4. n \in I /\ \A i \in I : n <= i
  <2>1. n \in I
    BY <1>1, <1>2, <1>3
  <2>2. ASSUME NEW i \in I, i < n PROVE FALSE
    <3>1. i \in 1..Len(a) /\ i \in 1..n
      BY <1>3, <2>2
    <3> QED BY <1>1, <1>2, <3>1
  <2> QED BY <2>1, <2>2, <1>3
<1>5. k = n
  <2>1. k = IF I # {} THEN Min(I) ELSE 0
    BY DEF mmk_strchr, SelectInSeq
  <2>2. I \in SUBSET Nat
    OBVIOUS
  <2> HIDE DEF I, k
  <2>3. k \in I /\ \A j \in I : k <= j
    BY <1>4, <2>1, <2>2, LeastOf
  <2> QED BY <1>3, <1>4, <2>2, <2>3
<1> HIDE DEF k
<1>6. SubSeq(text, 1, n - 1) = a
  <2> DEFINE s == SubSeq(text, 1, n - 1)
  <2>1. s \in Seq(X) /\ Len(s) = Len(a) /\ \A i \in 1..Len(a) : s[i] = text[i]
    BY <1>2, <1>3
  <2>2. \A i \in 1..Len(s) : s[i] = a[i]
    BY <1>1, <2>1
  <2> HIDE DEF s
  <2> QED BY <2>1, <2>2, SameList
<1>7. SubSeq(text, n + 1, Len(text)) = b
  <2> DEFINE s == SubSeq(text, n + 1, Len(text))
  <2>1. s \in Seq(X) /\ Len(s) = Len(b) /\ \A i \in 1..Len(b) : s[i] = text[n + i]
    BY <1>2, <1>3
  <2>2. \A i \in 1..Len(s) : s[i] = b[i]
    <3> HIDE DEF s, n
    <3> QED BY <1>2, <2>1
  <2> HIDE DEF s
  <2>3. s = b
    BY <2>1, <2>2, SameList
  <2> QED BY <2>3 DEF s
<1>8. k # 0
  BY <1>3, <1>5
<1> HIDE DEF n
<1> QED BY <1>5, <1>6, <1>7, <1>8 DEF Before, After, k

LEMMA NoCut ==
    ASSUME NEW a, NEW c, Len(a) \in Nat, \A i \in 1..Len(a) : a[i] # c
    PROVE  Before(a, c) = a /\ After(a, c) = Null
<1> DEFINE I == {i \in 1..Len(a) : a[i] = c}
<1>1. mmk_strchr(a, c) = IF I # {} THEN Min(I) ELSE 0
  BY DEF mmk_strchr, SelectInSeq
<1>2. I = {}
  OBVIOUS
<1> QED BY <1>1, <1>2 DEF Before, After

LEMMA PairPrefix ==
    ASSUME NEW X, NEW a \in X, NEW b \in X, NEW s \in Seq(X)
    PROVE  IsPrefix(<<a, b>>, s) <=> Len(s) >= 2 /\ s[1] = a /\ s[2] = b
<1> DEFINE p == <<a, b>>
           q == SubSeq(s, 1, 2)
           r == SubSeq(p, 1, 2)
<1>1. p \in Seq(X) /\ Len(p) = 2 /\ p[1] = a /\ p[2] = b
  OBVIOUS
<1>2. IsPrefix(p, s) <=> Len(s) >= 2 /\ r = q
  <2> HIDE DEF p
  <2> QED BY <1>1 DEF IsPrefix
<1>3. r \in Seq(X) /\ Len(r) = 2 /\ r[1] = a /\ r[2] = b
  <2> HIDE DEF p
  <2> QED BY <1>1
<1>4. CASE Len(s) >= 2
  <2>1. q \in Seq(X) /\ Len(q) = 2 /\ q[1] = s[1] /\ q[2] = s[2]
    BY <1>4
  <2> HIDE DEF p, q, r
  <2>2. ASSUME s[1] = a, s[2] = b
        PROVE  r = q
    <3>1. \A i \in 1..Len(r) : r[i] = q[i]
      BY <1>3, <2>1, <2>2
    <3> QED BY <1>3, <2>1, <3>1, SameList
  <2>3. IsPrefix(p, s) <=> r = q
    BY <1>2, <1>4
  <2>4. r = q <=> s[1] = a /\ s[2] = b
    BY <1>3, <2>1, <2>2
  <2> QED BY <1>4, <2>3, <2>4 DEF p
<1>5. Len(s) \in Nat
  OBVIOUS
<1> HIDE DEF q, r, p
<1> QED BY <1>2, <1>4, <1>5 DEF p

(* A name and a path.                                                       *)
LEMMA NameAndPath ==
    ASSUME NEW X, NEW a \in Seq(X), NEW b \in Seq(X), "@" \in X
    PROVE  LET text == a \o <<"@">> \o b
           IN  text \in Seq(X) /\ Halves(text, a, "@", b)
<1> DEFINE m == <<"@">>
           h == a \o m
           text == h \o b
<1>1. m \in Seq(X) /\ Len(m) = 1 /\ m[1] = "@"
  OBVIOUS
<1> HIDE DEF m
<1>3. /\ h \in Seq(X) /\ Len(h) = Len(a) + Len(m)
      /\ \A j \in 1..Len(a) : h[j] = a[j]
      /\ \A j \in 1..Len(m) : h[Len(a) + j] = m[j]
  <2>1. h = a \o m
    OBVIOUS
  <2>2. m \in Seq(X)
    BY <1>1
  <2> HIDE DEF text, h
  <2> QED BY <2>1, <2>2, Concat
<1> HIDE DEF h
<1>4. /\ text \in Seq(X) /\ Len(text) = Len(h) + Len(b)
      /\ \A j \in 1..Len(h) : text[j] = h[j]
      /\ \A j \in 1..Len(b) : text[Len(h) + j] = b[j]
  <2>1. text = h \o b
    OBVIOUS
  <2>2. h \in Seq(X)
    BY <1>3
  <2> HIDE DEF text
  <2> QED BY <2>1, <2>2, Concat
<1> HIDE DEF text
<1>5. Len(a) \in Nat
  OBVIOUS
<1>6. Len(h) = Len(a) + 1 /\ h[Len(a) + 1] = "@"
  BY <1>1, <1>3, <1>5
<1>7. \A j \in 1..Len(a) : text[j] = a[j]
  <2> SUFFICES ASSUME NEW j \in 1..Len(a) PROVE text[j] = a[j]
    OBVIOUS
  <2>1. j \in 1..Len(h)
    BY <1>5, <1>6
  <2> QED BY <1>3, <1>4, <2>1
<1>8. text[Len(a) + 1] = "@"
  <2>1. Len(a) + 1 \in 1..Len(h)
    BY <1>5, <1>6
  <2> QED BY <1>4, <1>6, <2>1
<1>9. text \in Seq(X) /\ Halves(text, a, "@", b)
  BY <1>4, <1>6, <1>7, <1>8 DEF Halves
<1> QED BY <1>9 DEF text, h, m

(* What a target string means is what its parts say.                       *)
LEMMA Parsed ==
    ASSUME NEW t \in Target
    PROVE  /\ NameOf(t.text) = t.sym
           /\ t.kind = "self" => ScopeOf(PathOf(t.text)) = MainScope
           /\ t.kind = "wrong" => ScopeOf(PathOf(t.text)).sel = "panic"
           /\ t.kind \in Selectors =>
                ScopeOf(PathOf(t.text)) = [sel |-> t.kind, val |-> t.val]
<1> DEFINE A == {t.sym[i] : i \in DOMAIN t.sym}
           B == {t.val[i] : i \in DOMAIN t.val}
           X == A \union B \union {"@", ":", "self", "lib", "file", "sym"}
           W == {"@", ":", "self", "lib", "file", "sym"}
<1>0. TargetOK(t)
  BY BackEndsAssumption
<1>1. t.sym \in Seq(A) /\ t.val \in Seq(B) /\ DOMAIN t.sym = 1..Len(t.sym) /\ Len(t.sym) \in Nat
      /\ DOMAIN t.text = 1..Len(t.text)
  BY <1>0, ListIs DEF TargetOK
<1>2. /\ \A i \in 1..Len(t.sym) : t.sym[i] # "@"
      /\ \A i \in 1..Len(t.text) : t.text[i] # Null[1]
  BY <1>0, <1>1 DEF TargetOK
<1>3. t.sym \in Seq(X) /\ t.val \in Seq(X)
  <2>1. A \subseteq X /\ B \subseteq X
    OBVIOUS
  <2> HIDE DEF A, B, X
  <2> QED BY <1>1, <2>1, Wider
<1>4. W \subseteq X
  OBVIOUS
<1>5. /\ "@" \in X /\ ":" \in X /\ "self" \in X /\ Selectors \subseteq X
  BY <1>4 DEF Selectors
<1> HIDE DEF A, B, X, W
<1>6. ASSUME NEW path \in Seq(X), t.text = t.sym \o <<"@">> \o path
      PROVE  /\ NameOf(t.text) = t.sym /\ path # Null
             /\ PathOf(t.text) = IF path = <<"self">> THEN Null ELSE path
  <2>1. t.text \in Seq(X) /\ Halves(t.text, t.sym, "@", path)
    BY <1>3, <1>5, <1>6, NameAndPath
  <2>2. Before(t.text, "@") = t.sym /\ After(t.text, "@") = path
    BY <1>2, <1>3, <2>1, Cut
  <2>3. path # Null
    <3> SUFFICES ASSUME path = Null PROVE FALSE
      OBVIOUS
    <3>1. Len(path) = 1 /\ path[1] = Null[1]
      BY DEF Null
    <3>2. Len(t.text) = Len(t.sym) + 1 + 1 /\ t.text[Len(t.sym) + 1 + 1] = Null[1]
      BY <2>1, <3>1 DEF Halves
    <3>3. Len(t.sym) + 1 + 1 \in 1..Len(t.text)
      BY <1>1, <3>2
    <3> QED BY <1>2, <3>2, <3>3
  <2> QED BY <2>2, <2>3 DEF NameOf, PathOf, mmk_streq
<1>7. CASE t.kind = "self"
  <2>1. CASE t.text = t.sym
    <3>1. Before(t.sym, "@") = t.sym /\ After(t.sym, "@") = Null
      BY <1>1, <1>2, NoCut
    <3>2. Null # <<"self">>
      BY DEF Null
    <3> QED BY <1>7, <2>1, <3>1, <3>2 DEF NameOf, PathOf, mmk_streq, ScopeOf, Selectors
  <2>2. CASE t.text = t.sym \o <<"@", "self">>
    <3>1. <<"self">> \in Seq(X) /\ t.text = t.sym \o <<"@">> \o <<"self">>
      BY <1>3, <1>5, <2>2
    <3> QED BY <1>6, <1>7, <3>1 DEF ScopeOf, Selectors
  <2> QED BY <1>0, <1>7, <2>1, <2>2 DEF TargetOK, Selectors
<1>8. CASE t.kind = "wrong"
  <2>1. /\ t.text = t.sym \o <<"@">> \o t.val /\ t.val # <<"self">>
        /\ \A sel \in Selectors : ~IsPrefix(<<sel, ":">>, t.val)
    BY <1>0, <1>8 DEF TargetOK, Selectors
  <2>2. NameOf(t.text) = t.sym /\ t.val # Null /\ PathOf(t.text) = t.val
    BY <1>3, <1>6, <2>1
  <2>3. plt_get_selector(t.val).sel = "panic"
    BY <2>1 DEF plt_get_selector, mmk_strneq, mmk_streq
  <2> QED BY <1>8, <2>2, <2>3 DEF ScopeOf, Selectors
<1>9. CASE t.kind \in Selectors
  <2> DEFINE path == <<t.kind, ":">> \o t.val
  <2>1. t.text = t.sym \o <<"@", t.kind, ":">> \o t.val
    BY <1>0, <1>9 DEF TargetOK, Selectors
  <2>2. /\ path \in Seq(X) /\ <<t.kind>> \in Seq(X) /\ Len(path) = 2 + Len(t.val)
        /\ path[1] = t.kind /\ path[2] = ":"
        /\ Halves(path, <<t.kind>>, ":", t.val)
    <3> DEFINE m == <<t.kind, ":">>
               one == <<t.kind>>
               v == t.val
    <3>1. /\ m \in Seq(X) /\ one \in Seq(X) /\ v \in Seq(X)
          /\ Len(m) = 2 /\ Len(one) = 1 /\ m[1] = t.kind /\ one[1] = m[1] /\ m[2] = ":"
      <4>1. t.kind \in X
        BY <1>5, <1>9
      <4> QED BY <1>3, <1>5, <4>1
    <3>2. path = m \o v
      OBVIOUS
    <3> HIDE DEF path, m, one, v
    <3>3. /\ path \in Seq(X) /\ Len(path) = Len(m) + Len(v)
          /\ \A j \in 1..Len(m) : path[j] = m[j]
          /\ \A j \in 1..Len(v) : path[Len(m) + j] = v[j]
      <4>1. m \in Seq(X) /\ v \in Seq(X)
        BY <3>1
      <4> QED BY <3>2, <4>1, Concat
    <3>4. Halves(path, one, ":", v)
      BY <3>1, <3>3 DEF Halves
    <3> QED BY <3>1, <3>3, <3>4 DEF one, v
  <2>3. t.text = t.sym \o <<"@">> \o path
    <3>1. t.kind \in X
      BY <1>5, <1>9
    <3> DEFINE all == <<"@", t.kind, ":">>
               at  == <<"@">>
               sel == <<t.kind, ":">>
               a == t.sym
               v == t.val
    <3>2. all = at \o sel
      OBVIOUS
    <3>3. at \in Seq(X) /\ sel \in Seq(X) /\ a \in Seq(X) /\ v \in Seq(X)
      BY <1>3, <1>5, <3>1
    <3> HIDE DEF all, at, sel, a, v
    <3>4. a \o (at \o sel) \o v = a \o at \o (sel \o v)
      BY <3>3
    <3>5. a \o all \o v = a \o at \o (sel \o v)
      BY <3>2, <3>4
    <3> QED BY <2>1, <3>5 DEF all, at, sel, a, v
  <2> HIDE DEF path
  <2>4. Len(t.val) \in Nat
    BY <1>3
  <2>5. path # <<"self">>
    <3>1. Len(<<"self">>) = 1
      OBVIOUS
    <3> QED BY <2>2, <2>4, <3>1
  <2>6. NameOf(t.text) = t.sym /\ path # Null /\ PathOf(t.text) = path
    BY <1>6, <2>2, <2>3, <2>5
  <2>7. After(path, ":") = t.val
    <3>1. \A i \in 1..Len(<<t.kind>>) : <<t.kind>>[i] # ":"
      BY <1>9 DEF Selectors
    <3> DEFINE a == <<t.kind>>
    <3>2. a \in Seq(X) /\ \A i \in 1..Len(a) : a[i] # ":"
      BY <2>2, <3>1
    <3>3. Halves(path, a, ":", t.val)
      BY <2>2
    <3> HIDE DEF a
    <3> QED BY <1>3, <2>2, <3>2, <3>3, Cut
  <2>8. IsPrefix(<<t.kind, ":">>, path)
    <3>1. t.kind \in X
      BY <1>5, <1>9
    <3> QED BY <1>5, <2>2, <2>4, <3>1, PairPrefix
  <2>9. Head(path) = t.kind
    BY <2>2
  <2>10. plt_get_selector(path) = [sel |-> t.kind, val |-> t.val]
    BY <1>9, <2>7, <2>8, <2>9 DEF plt_get_selector, mmk_strneq
  <2>11. t.kind # "self" /\ t.kind # "wrong"
    BY <1>9 DEF Selectors
  <2> QED BY <2>6, <2>10, <2>11 DEF ScopeOf
<1>10. t.kind = "self" \/ t.kind = "wrong" \/ t.kind \in Selectors
  BY <1>0 DEF TargetOK
<1> QED BY <1>7, <1>8, <1>9, <1>10

-----------------------------------------------------------------------------
(* Writing the slots, each of them once.                                   *)
Distinct(list) == \A i, j \in 1..Len(list) : i # j => list[i] # list[j]
Slot(list) == {list[i] : i \in 1..Len(list)}

WriteTo(mem, list, n, v) ==
    [x \in DOMAIN mem |-> IF x \in {list[i] : i \in 1..n} THEN v ELSE mem[x]]
PutBack(mem, lin, list, n) ==
    [x \in DOMAIN mem |-> IF x \in {list[i] : i \in 1..n} THEN lin[x] ELSE mem[x]]

LEMMA Saves ==
    ASSUME NEW mem, mem = [x \in DOMAIN mem |-> mem[x]], NEW v,
           NEW list, Len(list) \in Nat, Distinct(list), Slot(list) \subseteq DOMAIN mem
    PROVE  SaveAndWrite(mem, list, v) =
               [got |-> WriteTo(mem, list, Len(list), v),
                old |-> [i \in 1..Len(list) |-> mem[list[i]]]]
<1> DEFINE n == Len(list)
           Step(u, i) == [got |-> [u.got EXCEPT ![list[i]] = v],
                          old |-> Append(u.old, u.got[list[i]])]
           Start == [got |-> mem, old |-> << >>]
           Body(f, i) == IF i = 0 THEN Start ELSE Step(f[i - 1], i)
           Solves(f) == f = [i \in 0..n |-> Body(f, i)]
           u == CHOOSE f : Solves(f)
           g(i) == WriteTo(mem, list, i, v)
           o(i) == [j \in 1..i |-> mem[list[j]]]
           R == {mem[x] : x \in DOMAIN mem}
           up == [i \in 0..n |-> [got |-> g(i), old |-> o(i)]]
<1>1. SaveAndWrite(mem, list, v) = u[n]
  BY DEF SaveAndWrite
<1>2. up[0] = Start
  <2>1. g(0) = mem
    BY DEF WriteTo
  <2>2. o(0) = << >>
    OBVIOUS
  <2> HIDE DEF g, o
  <2> QED BY <2>1, <2>2
<1>3. ASSUME NEW i \in 1..n
      PROVE  up[i] = Step(up[i - 1], i)
  <2>1. i - 1 \in 0..n /\ i \in 0..n
    OBVIOUS
  <2>2. list[i] \in DOMAIN mem
    BY DEF Slot
  <2>3. [g(i - 1) EXCEPT ![list[i]] = v] = g(i)
    <3>1. {list[j] : j \in 1..i} = {list[j] : j \in 1..i - 1} \union {list[i]}
      BY <2>1
    <3> QED BY <2>2, <3>1 DEF WriteTo
  <2>4. g(i - 1)[list[i]] = mem[list[i]]
    <3>1. list[i] \notin {list[j] : j \in 1..i - 1}
      BY <2>1 DEF Distinct
    <3> QED BY <2>2, <3>1 DEF WriteTo
  <2>5. Append(o(i - 1), mem[list[i]]) = o(i)
    <3> DEFINE a == o(i - 1)
               b == o(i)
               r == Append(a, mem[list[i]])
    <3>1. a \in Seq(R) /\ Len(a) = i - 1 /\ \A j \in 1..i - 1 : a[j] = mem[list[j]]
      <4>1. \A j \in 1..i - 1 : mem[list[j]] \in R
        BY DEF Slot
      <4> HIDE DEF R
      <4> QED BY <4>1
    <3>2. b \in Seq(R) /\ Len(b) = i /\ \A j \in 1..i : b[j] = mem[list[j]]
      <4>1. \A j \in 1..i : mem[list[j]] \in R
        BY DEF Slot
      <4> HIDE DEF R
      <4> QED BY <4>1
    <3>3. mem[list[i]] \in R
      BY <2>2
    <3> HIDE DEF a, b, R
    <3>4. r \in Seq(R) /\ Len(r) = i /\ \A j \in 1..i : r[j] = b[j]
      BY <3>1, <3>2, <3>3
    <3> HIDE DEF r
    <3>5. r = b
      BY <3>2, <3>4, SameList
    <3> QED BY <3>5 DEF r, a, b
  <2> HIDE DEF g, o
  <2>6. up[i - 1].got = g(i - 1) /\ up[i - 1].old = o(i - 1)
    BY <2>1
  <2> QED BY <2>1, <2>3, <2>4, <2>5, <2>6
<1>4. Solves(up)
  <2>1. \A i \in 0..n : up[i] = Body(up, i)
    <3> HIDE DEF up, Start, Step
    <3>1. \A i \in 0..n : i = 0 \/ i \in 1..n
      OBVIOUS
    <3> QED BY <1>2, <1>3, <3>1
  <2>2. up = [i \in 0..n |-> up[i]]
    OBVIOUS
  <2> HIDE DEF up, Body
  <2> QED BY <2>1, <2>2
<1>5. Solves(u)
  <2> HIDE DEF Solves, up
  <2> QED BY <1>4
<1>6. \A i \in 0..n : u[i] = Body(u, i)
  <2> HIDE DEF u, Body
  <2> QED BY <1>5
<1> HIDE DEF u, up, Start, Step
<1> DEFINE Good == {i \in Nat : i \in 0..n => u[i] = up[i]}
<1>7. 0 \in Good
  BY <1>2, <1>6
<1>8. ASSUME NEW i \in Nat, i \in Good
      PROVE  i + 1 \in Good
  <2> SUFFICES ASSUME i + 1 \in 0..n PROVE u[i + 1] = up[i + 1]
    OBVIOUS
  <2>1. (i + 1) - 1 = i /\ i \in 0..n /\ i + 1 \in 1..n /\ i + 1 # 0
    OBVIOUS
  <2>2. u[i + 1] = Step(u[i], i + 1)
    BY <1>6, <2>1
  <2>3. up[i + 1] = Step(up[i], i + 1)
    BY <1>3, <2>1
  <2> QED BY <1>8, <2>1, <2>2, <2>3
<1>9. Nat \subseteq Good
  <2> HIDE DEF Good
  <2> QED BY <1>7, <1>8, SetInduction
<1>10. u[n] = up[n]
  BY <1>9
<1> QED BY <1>1, <1>10 DEF up

LEMMA Restores ==
    ASSUME NEW mem, mem = [x \in DOMAIN mem |-> mem[x]], NEW lin,
           NEW list, Len(list) \in Nat, Slot(list) \subseteq DOMAIN mem,
           NEW saved, \A i \in 1..Len(list) : saved[i] = lin[list[i]]
    PROVE  WriteBack(mem, list, saved) = PutBack(mem, lin, list, Len(list))
<1> DEFINE n == Len(list)
           Step(u, i) == [u EXCEPT ![list[i]] = saved[i]]
           Body(f, i) == IF i = 0 THEN mem ELSE Step(f[i - 1], i)
           Solves(f) == f = [i \in 0..n |-> Body(f, i)]
           u == CHOOSE f : Solves(f)
           g(i) == PutBack(mem, lin, list, i)
           up == [i \in 0..n |-> g(i)]
<1>1. WriteBack(mem, list, saved) = u[n]
  BY DEF WriteBack
<1>2. up[0] = mem
  BY DEF PutBack
<1>3. ASSUME NEW i \in 1..n
      PROVE  up[i] = Step(up[i - 1], i)
  <2>1. i - 1 \in 0..n /\ i \in 0..n
    OBVIOUS
  <2>2. list[i] \in DOMAIN mem
    BY DEF Slot
  <2>3. [g(i - 1) EXCEPT ![list[i]] = saved[i]] = g(i)
    <3>1. {list[j] : j \in 1..i} = {list[j] : j \in 1..i - 1} \union {list[i]}
      BY <2>1
    <3> QED BY <2>2, <3>1 DEF PutBack
  <2> HIDE DEF g
  <2> QED BY <2>1, <2>3
<1>4. Solves(up)
  <2>1. \A i \in 0..n : up[i] = Body(up, i)
    <3> HIDE DEF up, Step
    <3>1. \A i \in 0..n : i = 0 \/ i \in 1..n
      OBVIOUS
    <3> QED BY <1>2, <1>3, <3>1
  <2>2. up = [i \in 0..n |-> up[i]]
    OBVIOUS
  <2> HIDE DEF up, Body
  <2> QED BY <2>1, <2>2
<1>5. Solves(u)
  <2> HIDE DEF Solves, up
  <2> QED BY <1>4
<1>6. \A i \in 0..n : u[i] = Body(u, i)
  <2> HIDE DEF u, Body
  <2> QED BY <1>5
<1> HIDE DEF u, up, Step
<1> DEFINE Good == {i \in Nat : i \in 0..n => u[i] = up[i]}
<1>7. 0 \in Good
  BY <1>2, <1>6
<1>8. ASSUME NEW i \in Nat, i \in Good
      PROVE  i + 1 \in Good
  <2> SUFFICES ASSUME i + 1 \in 0..n PROVE u[i + 1] = up[i + 1]
    OBVIOUS
  <2>1. (i + 1) - 1 = i /\ i \in 0..n /\ i + 1 \in 1..n /\ i + 1 # 0
    OBVIOUS
  <2>2. u[i + 1] = Step(u[i], i + 1)
    BY <1>6, <2>1
  <2>3. up[i + 1] = Step(up[i], i + 1)
    BY <1>3, <2>1
  <2> QED BY <1>8, <2>1, <2>2, <2>3
<1>9. Nat \subseteq Good
  <2> HIDE DEF Good
  <2> QED BY <1>7, <1>8, SetInduction
<1>10. u[n] = up[n]
  BY <1>9
<1> QED BY <1>1, <1>10 DEF up

(* The three back-ends write in the same way.                              *)
LEMMA SameWrites ==
    ASSUME NEW g, NEW list, NEW v
    PROVE  /\ E!plt_set_offsets(g, list, v) = SaveAndWrite(g, list, v)
           /\ M!plt_set_offsets(g, list, v) = SaveAndWrite(g, list, v)
           /\ P!plt_set_offsets(g, list, v) = SaveAndWrite(g, list, v)
           /\ E!plt_reset_offsets(g, list, v) = WriteBack(g, list, v)
           /\ M!plt_reset_offsets(g, list, v) = WriteBack(g, list, v)
           /\ P!plt_reset_offsets(g, list, v) = WriteBack(g, list, v)
<1>1. /\ E!plt_set_offsets(g, list, v) = SaveAndWrite(g, list, v)
      /\ E!plt_reset_offsets(g, list, v) = WriteBack(g, list, v)
  BY DEF E!plt_set_offsets, E!plt_reset_offsets, E!SaveAndWrite, E!WriteBack,
         SaveAndWrite, WriteBack
<1>2. /\ M!plt_set_offsets(g, list, v) = SaveAndWrite(g, list, v)
      /\ M!plt_reset_offsets(g, list, v) = WriteBack(g, list, v)
  BY DEF M!plt_set_offsets, M!plt_reset_offsets, M!SaveAndWrite, M!WriteBack,
         SaveAndWrite, WriteBack
<1>3. /\ P!plt_set_offsets(g, list, v) = SaveAndWrite(g, list, v)
      /\ P!plt_reset_offsets(g, list, v) = WriteBack(g, list, v)
  BY DEF P!plt_set_offsets, P!plt_reset_offsets, P!SaveAndWrite, P!WriteBack,
         SaveAndWrite, WriteBack
<1> QED BY <1>1, <1>2, <1>3

-----------------------------------------------------------------------------
(* The first place of a list that is in a set, 0 when there is none.       *)
First(k, n, S) ==
    IF k = 0 THEN S \intersect (1..n) = {}
    ELSE k \in 1..n /\ k \in S /\ \A j \in 1..k - 1 : j \notin S

LEMMA FirstOf ==
    ASSUME NEW n \in Nat, NEW S, NEW I, I = {i \in 1..n : i \in S},
           NEW k, k = IF I # {} THEN Min(I) ELSE 0
    PROVE  First(k, n, S)
<1>1. (I = {} /\ k = 0) \/ (k \in I /\ \A j \in I : k <= j)
  <2>1. I \in SUBSET Nat
    OBVIOUS
  <2> QED BY <2>1, LeastOf
<1>2. CASE I = {} /\ k = 0
  BY <1>2 DEF First
<1>3. CASE k \in I /\ \A j \in I : k <= j
  <2>1. k \in 1..n /\ k \in S /\ k # 0
    BY <1>3
  <2>2. ASSUME NEW j \in 1..k - 1, j \in S PROVE FALSE
    <3>1. j \in 1..n /\ j < k
      BY <2>1
    <3> QED BY <1>3, <2>2, <3>1
  <2> QED BY <2>1, <2>2 DEF First
<1> QED BY <1>1, <1>2, <1>3

(* FirstIn.                                                                *)
LEMMA FirstTrue ==
    ASSUME NEW map, IsList(map), NEW f, f = [i \in DOMAIN map |-> f[i]],
           NEW k, k = IF {i \in 1..Len(f) : f[i]} # {} THEN Min({i \in 1..Len(f) : f[i]}) ELSE 0
    PROVE  First(k, Len(map), {i \in DOMAIN map : f[i]})
<1> DEFINE n == Len(map)
           S == {i \in DOMAIN map : f[i]}
           I == {i \in 1..Len(f) : f[i]}
<1>1. n \in Nat /\ DOMAIN map = 1..n /\ Len(f) = n
  BY ListIs
<1>2. I = {i \in 1..n : i \in S}
  BY <1>1
<1>3. k = IF I # {} THEN Min(I) ELSE 0
  OBVIOUS
<1> HIDE DEF I, S, n
<1>4. First(k, n, S)
  BY <1>1, <1>2, <1>3, FirstOf
<1> QED BY <1>4 DEF S, n

LEMMA SameMin ==
    /\ \A S : E!Min(S) = Min(S)
    /\ \A S : M!Min(S) = Min(S)
    /\ \A S : P!Min(S) = Min(S)
BY DEF E!Min, M!Min, P!Min, Min

-----------------------------------------------------------------------------
(* ELF.  The first relocation of a table that names the symbol.            *)
LEMMA ElfOffset ==
    ASSUME NEW tab, IsList(tab), NEW sym, \A k \in DOMAIN tab : tab[k].slot \in Nat \ {0}
    PROVE  LET o == E!get_offset(tab, sym)
           IN  IF o = 0 THEN \A k \in DOMAIN tab : tab[k].sym # sym
               ELSE \E k \in DOMAIN tab : tab[k].sym = sym /\ o = tab[k].slot
<1> DEFINE n == Len(tab)
           S == {i \in DOMAIN tab : tab[i].sym = sym}
           I == {i \in 1..n : tab[i].sym = sym}
           k == IF I # {} THEN Min(I) ELSE 0
<1>1. n \in Nat /\ DOMAIN tab = 1..n
  BY ListIs
<1>2. E!get_offset(tab, sym) = IF k = 0 THEN 0 ELSE tab[k].slot
  BY SameMin DEF E!get_offset, E!SelectInSeq
<1>3. First(k, n, S)
  <2>1. I = {i \in 1..n : i \in S}
    BY <1>1
  <2> HIDE DEF I, S
  <2> QED BY <1>1, <2>1, FirstOf
<1> HIDE DEF k
<1> QED BY <1>1, <1>2, <1>3 DEF First

LEMMA ElfLib ==
    ASSUME NEW map, IsList(map), NEW scope, scope # MainScope
    PROVE  First(E!plt_get_lib(map, scope), Len(map),
                 {i \in DOMAIN map : E!InScope(map, i, scope)})
<1> DEFINE f == [i \in DOMAIN map |-> E!InScope(map, i, scope)]
           k == E!plt_get_lib(map, scope)
           S == {i \in DOMAIN map : E!InScope(map, i, scope)}
<1>1. k = IF {i \in 1..Len(f) : f[i]} # {} THEN Min({i \in 1..Len(f) : f[i]}) ELSE 0
  BY SameMin DEF E!plt_get_lib, E!FirstIn, E!SelectInSeq, E!MainScope, MainScope
<1>2. f = [i \in DOMAIN map |-> f[i]]
  OBVIOUS
<1>3. S = {i \in DOMAIN map : f[i]}
  OBVIOUS
<1> HIDE DEF f, k, S
<1>4. First(k, Len(map), S)
  BY <1>1, <1>2, <1>3, FirstTrue
<1> QED BY <1>4 DEF k, S

LEMMA MachOLib ==
    ASSUME NEW map, IsList(map), NEW scope, scope # MainScope
    PROVE  First(M!plt_get_lib(map, scope), Len(map),
                 {i \in DOMAIN map : i > 1 /\ M!InScope(map, i, scope)})
<1> DEFINE f == [i \in DOMAIN map |-> i > 1 /\ M!InScope(map, i, scope)]
           k == M!plt_get_lib(map, scope)
           S == {i \in DOMAIN map : i > 1 /\ M!InScope(map, i, scope)}
<1>1. k = IF {i \in 1..Len(f) : f[i]} # {} THEN Min({i \in 1..Len(f) : f[i]}) ELSE 0
  BY SameMin DEF M!plt_get_lib, M!FirstIn, M!SelectInSeq, M!MainScope, MainScope
<1>2. f = [i \in DOMAIN map |-> f[i]]
  OBVIOUS
<1>3. S = {i \in DOMAIN map : f[i]}
  OBVIOUS
<1> HIDE DEF f, k, S
<1>4. First(k, Len(map), S)
  BY <1>1, <1>2, <1>3, FirstTrue
<1> QED BY <1>4 DEF k, S

LEMMA PEHandle ==
    ASSUME NEW map, IsList(map), NEW name
    PROVE  First(P!GetModuleHandle(map, name), Len(map),
                 {i \in DOMAIN map : name \in map[i].handles})
<1> DEFINE f == [i \in DOMAIN map |-> name \in map[i].handles]
           k == P!GetModuleHandle(map, name)
           S == {i \in DOMAIN map : name \in map[i].handles}
<1>1. k = IF {i \in 1..Len(f) : f[i]} # {} THEN Min({i \in 1..Len(f) : f[i]}) ELSE 0
  BY SameMin DEF P!GetModuleHandle, P!FirstIn, P!SelectInSeq
<1>2. f = [i \in DOMAIN map |-> f[i]]
  OBVIOUS
<1>3. S = {i \in DOMAIN map : f[i]}
  OBVIOUS
<1> HIDE DEF f, k, S
<1>4. First(k, Len(map), S)
  BY <1>1, <1>2, <1>3, FirstTrue
<1> QED BY <1>4 DEF k, S

LEMMA PEFind ==
    ASSUME NEW map, IsList(map), NEW name
    PROVE  First(P!plt_find_offset(map, name), Len(map),
                 {i \in DOMAIN map : P!plt_get_offset(map[i], name) # << >>})
<1> DEFINE f == [i \in DOMAIN map |-> P!plt_get_offset(map[i], name) # << >>]
           k == P!plt_find_offset(map, name)
           S == {i \in DOMAIN map : P!plt_get_offset(map[i], name) # << >>}
<1>1. k = IF {i \in 1..Len(f) : f[i]} # {} THEN Min({i \in 1..Len(f) : f[i]}) ELSE 0
  BY SameMin DEF P!plt_find_offset, P!FirstIn, P!SelectInSeq
<1>2. f = [i \in DOMAIN map |-> f[i]]
  OBVIOUS
<1>3. S = {i \in DOMAIN map : f[i]}
  OBVIOUS
<1> HIDE DEF f, k, S
<1>4. First(k, Len(map), S)
  BY <1>1, <1>2, <1>3, FirstTrue
<1> QED BY <1>4 DEF k, S

-----------------------------------------------------------------------------
(* A back-end takes one slot of each table that has some, table by table.  *)
Picks(part, S) == IF S = {} THEN part = << >> ELSE \E x \in S : part = <<x>>

CoversAll(s, A, B, C) ==
    /\ s \in Seq(A \union B \union C) /\ Distinct(s)
    /\ A # {} => \E k \in 1..Len(s) : s[k] \in A
    /\ B # {} => \E k \in 1..Len(s) : s[k] \in B
    /\ C # {} => \E k \in 1..Len(s) : s[k] \in C

LEMMA PicksOne ==
    ASSUME NEW S, NEW part, Picks(part, S)
    PROVE  /\ part \in Seq(S) /\ Len(part) = IF S = {} THEN 0 ELSE 1
           /\ S # {} => part[1] \in S
<1>1. CASE S = {}
  BY <1>1 DEF Picks
<1>2. CASE S # {}
  <2>1. PICK x \in S : part = <<x>>
    BY <1>2 DEF Picks
  <2> QED BY <1>2, <2>1
<1> QED BY <1>1, <1>2

LEMMA Assembled ==
    ASSUME NEW A, NEW B, NEW C, A \intersect B = {}, A \intersect C = {}, B \intersect C = {},
           NEW a, Picks(a, A), NEW b, Picks(b, B), NEW c, Picks(c, C)
    PROVE  CoversAll(a \o b \o c, A, B, C)
<1> DEFINE AB == A \union B
           U == AB \union C
           h == a \o b
           s == h \o c
<1>1. /\ a \in Seq(A) /\ Len(a) = (IF A = {} THEN 0 ELSE 1) /\ (A # {} => a[1] \in A)
      /\ b \in Seq(B) /\ Len(b) = (IF B = {} THEN 0 ELSE 1) /\ (B # {} => b[1] \in B)
      /\ c \in Seq(C) /\ Len(c) = (IF C = {} THEN 0 ELSE 1) /\ (C # {} => c[1] \in C)
  BY PicksOne
<1>2. /\ h \in Seq(AB) /\ Len(h) = Len(a) + Len(b)
      /\ \A j \in 1..Len(a) : h[j] = a[j]
      /\ \A j \in 1..Len(b) : h[Len(a) + j] = b[j]
  <2>1. a \in Seq(A) /\ b \in Seq(B)
    BY <1>1
  <2>2. h = a \o b
    OBVIOUS
  <2> HIDE DEF h
  <2> QED BY <2>1, <2>2, Joined
<1> HIDE DEF h
<1>3. /\ s \in Seq(U) /\ Len(s) = Len(h) + Len(c)
      /\ \A j \in 1..Len(h) : s[j] = h[j]
      /\ \A j \in 1..Len(c) : s[Len(h) + j] = c[j]
  <2>1. h \in Seq(AB) /\ c \in Seq(C)
    BY <1>1, <1>2
  <2>2. s = h \o c
    OBVIOUS
  <2> HIDE DEF s, AB
  <2> QED BY <2>1, <2>2, Joined
<1> HIDE DEF s
<1>4. A # {} => 1 \in 1..Len(s) /\ s[1] \in A
  <2> SUFFICES ASSUME A # {} PROVE 1 \in 1..Len(s) /\ s[1] \in A
    OBVIOUS
  <2>1. 1 \in 1..Len(a) /\ 1 \in 1..Len(h) /\ 1 \in 1..Len(s)
    BY <1>1, <1>2, <1>3
  <2> QED BY <1>1, <1>2, <1>3, <2>1
<1>5. B # {} => Len(a) + 1 \in 1..Len(s) /\ s[Len(a) + 1] \in B
  <2> SUFFICES ASSUME B # {} PROVE Len(a) + 1 \in 1..Len(s) /\ s[Len(a) + 1] \in B
    OBVIOUS
  <2>1. 1 \in 1..Len(b) /\ Len(a) + 1 \in 1..Len(h) /\ Len(a) + 1 \in 1..Len(s)
    BY <1>1, <1>2, <1>3
  <2>2. h[Len(a) + 1] = b[1]
    BY <1>2, <2>1
  <2> QED BY <1>1, <1>3, <2>1, <2>2
<1>6. C # {} => Len(h) + 1 \in 1..Len(s) /\ s[Len(h) + 1] \in C
  <2> SUFFICES ASSUME C # {} PROVE Len(h) + 1 \in 1..Len(s) /\ s[Len(h) + 1] \in C
    OBVIOUS
  <2>1. 1 \in 1..Len(c) /\ Len(h) + 1 \in 1..Len(s)
    BY <1>1, <1>2, <1>3
  <2> QED BY <1>1, <1>3, <2>1
<1>7. ASSUME NEW j \in 1..Len(s)
      PROVE  \/ A # {} /\ j = 1
             \/ B # {} /\ j = Len(a) + 1
             \/ C # {} /\ j = Len(h) + 1
  BY <1>1, <1>2, <1>3
<1>8. Distinct(s)
  <2> SUFFICES ASSUME NEW i \in 1..Len(s), NEW j \in 1..Len(s), i # j
               PROVE  s[i] # s[j]
    BY DEF Distinct
  <2> QED BY <1>4, <1>5, <1>6, <1>7
<1>9. /\ A # {} => \E k \in 1..Len(s) : s[k] \in A
      /\ B # {} => \E k \in 1..Len(s) : s[k] \in B
      /\ C # {} => \E k \in 1..Len(s) : s[k] \in C
  BY <1>4, <1>5, <1>6
<1>10. CoversAll(s, A, B, C)
  BY <1>3, <1>8, <1>9 DEF CoversAll
<1> QED BY <1>10 DEF s, h

(* The slots of a symbol are those of the three tables, and no table has a *)
(* slot of another.                                                        *)
LEMMA Tables ==
    ASSUME prog \in Program, NEW i \in DOMAIN prog.map, NEW sym
    PROVE  /\ ObjectOK(prog, i)
           /\ \A e \in Entries(prog, i) : e.slot \in Nat \ {0} /\ e.tab \in 1..3
           /\ SlotsFor(i, 1, sym) \intersect SlotsFor(i, 2, sym) = {}
           /\ SlotsFor(i, 1, sym) \intersect SlotsFor(i, 3, sym) = {}
           /\ SlotsFor(i, 2, sym) \intersect SlotsFor(i, 3, sym) = {}
           /\ SlotsOf(i, sym) = SlotsFor(i, 1, sym) \union SlotsFor(i, 2, sym)
                                    \union SlotsFor(i, 3, sym)
<1>1. ObjectOK(prog, i) /\ prog.fmt \in {"ELF", "MachO", "PE"}
  BY BackEndsAssumption
<1>2. \A e, f \in Entries(prog, i) :
          e.slot \in Nat \ {0} /\ (e.tab # f.tab => e.slot # f.slot)
  BY <1>1 DEF ObjectOK
<1>3. \A e \in Entries(prog, i) : e.tab \in 1..3
  <2>1. CASE prog.fmt = "ELF"
    BY <2>1 DEF Entries, Entry
  <2>2. CASE prog.fmt = "MachO"
    <3> SUFFICES ASSUME NEW e \in Entries(prog, i) PROVE e.tab \in 1..3
      OBVIOUS
    <3> DEFINE o == prog.map[i]
               In(n) == {Entry(n, o.isyms[o.sections[n].first + k - 1], o.sections[n].slots[k]) :
                            k \in DOMAIN o.sections[n].slots}
    <3>1. Entries(prog, i) = UNION {In(n) : n \in 1..3}
      BY <2>2 DEF Entries
    <3>2. PICK n \in 1..3 : e \in In(n)
      <4> HIDE DEF In
      <4> QED BY <3>1
    <3> QED BY <3>2 DEF Entry
  <2>3. CASE prog.fmt = "PE"
    BY <2>3 DEF Entries, Entry
  <2> QED BY <1>1, <2>1, <2>2, <2>3
<1> DEFINE E1 == Entries(prog, i)
<1> HIDE DEF E1
<1>4. /\ \A e, f \in E1 : e.slot \in Nat \ {0} /\ (e.tab # f.tab => e.slot # f.slot)
      /\ \A e \in E1 : e.tab \in 1..3
  BY <1>2, <1>3 DEF E1
<1>5. /\ \A tab \in 1..3 : SlotsFor(i, tab, sym) = {e.slot : e \in {f \in E1 : f.tab = tab /\ f.sym = sym}}
      /\ SlotsOf(i, sym) = {e.slot : e \in {f \in E1 : f.sym = sym}}
  BY DEF SlotsFor, SlotsOf, E1
<1>6. ASSUME NEW s \in 1..3, NEW t \in 1..3, s # t
      PROVE  SlotsFor(i, s, sym) \intersect SlotsFor(i, t, sym) = {}
  BY <1>4, <1>5, <1>6
<1>7. SlotsOf(i, sym) = SlotsFor(i, 1, sym) \union SlotsFor(i, 2, sym) \union SlotsFor(i, 3, sym)
  <2>1. \A x : x \in SlotsOf(i, sym) <=> \E tab \in 1..3 : x \in SlotsFor(i, tab, sym)
    BY <1>4, <1>5
  <2>2. \A tab \in 1..3 : tab = 1 \/ tab = 2 \/ tab = 3
    OBVIOUS
  <2>3. 1 \in 1..3 /\ 2 \in 1..3 /\ 3 \in 1..3
    OBVIOUS
  <2> QED BY <2>1, <2>2, <2>3
<1>8. 1 \in 1..3 /\ 2 \in 1..3 /\ 3 \in 1..3
  OBVIOUS
<1> QED BY <1>1, <1>2, <1>3, <1>6, <1>7, <1>8

(* What a back-end finds in an object.                                     *)
Serves(s, i, sym) ==
    IF Opaque(i) THEN s = << >>
    ELSE CoversAll(s, SlotsFor(i, 1, sym), SlotsFor(i, 2, sym), SlotsFor(i, 3, sym))

-----------------------------------------------------------------------------
(* ELF: the two tables of relocations.                                     *)
RelSlots(tab, sym) == {tab[k].slot : k \in {k \in DOMAIN tab : tab[k].sym = sym}}

LEMMA ElfSlots ==
    ASSUME prog.fmt = "ELF", NEW i, NEW sym
    PROVE  /\ SlotsFor(i, 1, sym) = RelSlots(prog.map[i].rel, sym)
           /\ SlotsFor(i, 2, sym) = RelSlots(prog.map[i].jmprel, sym)
           /\ SlotsFor(i, 3, sym) = {}
<1> DEFINE o == prog.map[i]
           R == {Entry(1, o.rel[k].sym, o.rel[k].slot) : k \in DOMAIN o.rel}
           J == {Entry(2, o.jmprel[k].sym, o.jmprel[k].slot) : k \in DOMAIN o.jmprel}
<1>1. Entries(prog, i) = R \union J
  BY DEF Entries
<1>2. \A e \in R : e.tab = 1 /\ \E k \in DOMAIN o.rel : e.sym = o.rel[k].sym /\ e.slot = o.rel[k].slot
  BY DEF Entry
<1>3. \A k \in DOMAIN o.rel : \E e \in R : e.sym = o.rel[k].sym /\ e.slot = o.rel[k].slot
  <2> SUFFICES ASSUME NEW k \in DOMAIN o.rel
               PROVE  \E e \in R : e.sym = o.rel[k].sym /\ e.slot = o.rel[k].slot
    OBVIOUS
  <2> DEFINE e == Entry(1, o.rel[k].sym, o.rel[k].slot)
  <2>1. e \in R
    OBVIOUS
  <2>2. e.sym = o.rel[k].sym /\ e.slot = o.rel[k].slot
    BY DEF Entry
  <2> HIDE DEF e, R
  <2> QED BY <2>1, <2>2
<1>4. \A e \in J : e.tab = 2 /\ \E k \in DOMAIN o.jmprel : e.sym = o.jmprel[k].sym /\ e.slot = o.jmprel[k].slot
  BY DEF Entry
<1>5. \A k \in DOMAIN o.jmprel : \E e \in J : e.sym = o.jmprel[k].sym /\ e.slot = o.jmprel[k].slot
  <2> SUFFICES ASSUME NEW k \in DOMAIN o.jmprel
               PROVE  \E e \in J : e.sym = o.jmprel[k].sym /\ e.slot = o.jmprel[k].slot
    OBVIOUS
  <2> DEFINE e == Entry(2, o.jmprel[k].sym, o.jmprel[k].slot)
  <2>1. e \in J
    OBVIOUS
  <2>2. e.sym = o.jmprel[k].sym /\ e.slot = o.jmprel[k].slot
    BY DEF Entry
  <2> HIDE DEF e, J
  <2> QED BY <2>1, <2>2
<1> HIDE DEF R, J
<1>6. SlotsFor(i, 1, sym) = RelSlots(o.rel, sym)
  <2>1. \A x : x \in SlotsFor(i, 1, sym) <=> \E e \in R : e.sym = sym /\ e.slot = x
    BY <1>1, <1>2, <1>4 DEF SlotsFor
  <2>2. \A x : x \in RelSlots(o.rel, sym) <=> \E k \in DOMAIN o.rel : o.rel[k].sym = sym /\ o.rel[k].slot = x
    BY DEF RelSlots
  <2>3. \A x : x \in SlotsFor(i, 1, sym) <=> x \in RelSlots(o.rel, sym)
    BY <1>2, <1>3, <2>1, <2>2
  <2> QED BY <2>3
<1>7. SlotsFor(i, 2, sym) = RelSlots(o.jmprel, sym)
  <2>1. \A x : x \in SlotsFor(i, 2, sym) <=> \E e \in J : e.sym = sym /\ e.slot = x
    BY <1>1, <1>2, <1>4 DEF SlotsFor
  <2>2. \A x : x \in RelSlots(o.jmprel, sym) <=> \E k \in DOMAIN o.jmprel : o.jmprel[k].sym = sym /\ o.jmprel[k].slot = x
    BY DEF RelSlots
  <2>3. \A x : x \in SlotsFor(i, 2, sym) <=> x \in RelSlots(o.jmprel, sym)
    BY <1>4, <1>5, <2>1, <2>2
  <2> QED BY <2>3
<1>8. SlotsFor(i, 3, sym) = {}
  BY <1>1, <1>2, <1>4 DEF SlotsFor
<1> QED BY <1>6, <1>7, <1>8

LEMMA ElfPick ==
    ASSUME NEW tab, IsList(tab), NEW sym, \A k \in DOMAIN tab : tab[k].slot \in Nat \ {0},
           NEW o, o = E!get_offset(tab, sym)
    PROVE  Picks(IF o # 0 THEN <<o>> ELSE << >>, RelSlots(tab, sym))
<1>1. IF o = 0 THEN \A k \in DOMAIN tab : tab[k].sym # sym
      ELSE \E k \in DOMAIN tab : tab[k].sym = sym /\ o = tab[k].slot
  BY ElfOffset
<1>2. CASE o = 0
  <2>1. RelSlots(tab, sym) = {}
    BY <1>1, <1>2 DEF RelSlots
  <2> QED BY <1>2, <2>1 DEF Picks
<1>3. CASE o # 0
  <2>1. o \in RelSlots(tab, sym)
    BY <1>1, <1>3 DEF RelSlots
  <2> QED BY <1>3, <2>1 DEF Picks
<1> QED BY <1>2, <1>3

LEMMA ElfServes ==
    ASSUME prog \in Program, prog.fmt = "ELF", NEW i \in DOMAIN prog.map, NEW sym
    PROVE  Serves(E!get_offsets(prog.map[i], sym), i, sym)
<1> DEFINE o == prog.map[i]
           A == SlotsFor(i, 1, sym)
           B == SlotsFor(i, 2, sym)
           C == SlotsFor(i, 3, sym)
           rel == E!get_offset(o.rel, sym)
           jmp == E!get_offset(o.jmprel, sym)
           a == IF rel # 0 THEN <<rel>> ELSE << >>
           b == IF jmp # 0 THEN <<jmp>> ELSE << >>
           none == << >>
<1>1. CASE ~o.hasRel
  BY <1>1 DEF Serves, Opaque, E!get_offsets
<1>2. CASE o.hasRel
  <2>1. /\ IsList(o.rel) /\ IsList(o.jmprel)
        /\ \A e \in Entries(prog, i) : e.slot \in Nat \ {0}
    BY Tables DEF ObjectOK
  <2>2. /\ \A k \in DOMAIN o.rel : o.rel[k].slot \in Nat \ {0}
        /\ \A k \in DOMAIN o.jmprel : o.jmprel[k].slot \in Nat \ {0}
    <3>1. ASSUME NEW k \in DOMAIN o.rel
          PROVE  o.rel[k].slot \in Nat \ {0}
      <4>1. Entry(1, o.rel[k].sym, o.rel[k].slot) \in Entries(prog, i)
        BY DEF Entries
      <4> QED BY <2>1, <4>1 DEF Entry
    <3>2. ASSUME NEW k \in DOMAIN o.jmprel
          PROVE  o.jmprel[k].slot \in Nat \ {0}
      <4>1. Entry(2, o.jmprel[k].sym, o.jmprel[k].slot) \in Entries(prog, i)
        BY DEF Entries
      <4> QED BY <2>1, <4>1 DEF Entry
    <3> QED BY <3>1, <3>2
  <2>3. Picks(a, A) /\ Picks(b, B)
    <3>1. A = RelSlots(o.rel, sym) /\ B = RelSlots(o.jmprel, sym)
      BY ElfSlots
    <3> DEFINE r == o.rel
               j == o.jmprel
    <3>2. /\ IsList(r) /\ \A k \in DOMAIN r : r[k].slot \in Nat \ {0}
          /\ IsList(j) /\ \A k \in DOMAIN j : j[k].slot \in Nat \ {0}
      BY <2>1, <2>2
    <3>3. rel = E!get_offset(r, sym) /\ jmp = E!get_offset(j, sym)
      OBVIOUS
    <3> HIDE DEF r, j, rel, jmp
    <3>4. Picks(a, RelSlots(r, sym)) /\ Picks(b, RelSlots(j, sym))
      BY <3>2, <3>3, ElfPick
    <3> QED BY <3>1, <3>4 DEF r, j
  <2>4. Picks(none, C)
    BY ElfSlots DEF Picks
  <2>5. CoversAll(a \o b \o none, A, B, C)
    <3>1. A \intersect B = {} /\ A \intersect C = {} /\ B \intersect C = {}
      BY Tables
    <3> HIDE DEF a, b, none, A, B, C
    <3> QED BY <2>3, <2>4, <3>1, Assembled
  <2>6. a \o b \o none = a \o b
    <3>1. a \in Seq(A) /\ b \in Seq(B)
      <4> HIDE DEF a, b, A, B
      <4> QED BY <2>3, PicksOne
    <3> DEFINE h == a \o b
    <3>2. h \in Seq(A \union B)
      <4> HIDE DEF a, b, A, B
      <4> QED BY <3>1, Joined
    <3> HIDE DEF h
    <3>3. h \o none = h
      BY <3>2
    <3> QED BY <3>3 DEF h
  <2>7. E!get_offsets(o, sym) = a \o b
    BY <1>2 DEF E!get_offsets
  <2>8. ~Opaque(i)
    BY <1>2 DEF Opaque
  <2> QED BY <2>5, <2>6, <2>7, <2>8 DEF Serves
<1>3. o.hasRel \in BOOLEAN
  BY Tables DEF ObjectOK
<1> QED BY <1>1, <1>2, <1>3

-----------------------------------------------------------------------------
(* PE: the first thunk of the symbol in the first descriptor that has one. *)
LEMMA PEPlaces ==
    ASSUME prog.fmt = "PE", NEW i, NEW sym
    PROVE  /\ \A x : x \in SlotsFor(i, 1, sym) <=>
                \E d \in DOMAIN prog.map[i].imports : \E k \in DOMAIN prog.map[i].imports[d] :
                    prog.map[i].imports[d][k].sym = sym /\ prog.map[i].imports[d][k].slot = x
           /\ SlotsFor(i, 2, sym) = {} /\ SlotsFor(i, 3, sym) = {}
<1> DEFINE o == prog.map[i]
           In(d) == {Entry(1, o.imports[d][k].sym, o.imports[d][k].slot) : k \in DOMAIN o.imports[d]}
<1>1. Entries(prog, i) = UNION {In(d) : d \in DOMAIN o.imports}
  BY DEF Entries
<1>2. ASSUME NEW d
      PROVE  \A e \in In(d) : e.tab = 1 /\ \E k \in DOMAIN o.imports[d] :
                 e.sym = o.imports[d][k].sym /\ e.slot = o.imports[d][k].slot
  BY DEF Entry
<1>3. ASSUME NEW d, NEW k \in DOMAIN o.imports[d]
      PROVE  \E e \in In(d) : e.sym = o.imports[d][k].sym /\ e.slot = o.imports[d][k].slot
  <2> DEFINE e == Entry(1, o.imports[d][k].sym, o.imports[d][k].slot)
  <2>1. e \in In(d)
    OBVIOUS
  <2>2. e.sym = o.imports[d][k].sym /\ e.slot = o.imports[d][k].slot
    BY DEF Entry
  <2> HIDE DEF e, In
  <2> QED BY <2>1, <2>2
<1> HIDE DEF In, o
<1>4. \A e : e \in Entries(prog, i) <=> \E d \in DOMAIN o.imports : e \in In(d)
  BY <1>1
<1>5. \A x : x \in SlotsFor(i, 1, sym) <=>
          \E e \in Entries(prog, i) : e.tab = 1 /\ e.sym = sym /\ e.slot = x
  BY DEF SlotsFor
<1>6. ASSUME NEW x
      PROVE  x \in SlotsFor(i, 1, sym) <=>
                \E d \in DOMAIN o.imports : \E k \in DOMAIN o.imports[d] :
                    o.imports[d][k].sym = sym /\ o.imports[d][k].slot = x
  <2>1. ASSUME x \in SlotsFor(i, 1, sym)
        PROVE  \E d \in DOMAIN o.imports : \E k \in DOMAIN o.imports[d] :
                    o.imports[d][k].sym = sym /\ o.imports[d][k].slot = x
    <3>1. PICK e \in Entries(prog, i) : e.tab = 1 /\ e.sym = sym /\ e.slot = x
      BY <1>5, <2>1
    <3>2. PICK d \in DOMAIN o.imports : e \in In(d)
      BY <1>4, <3>1
    <3> QED BY <1>2, <3>1, <3>2
  <2>2. ASSUME NEW d \in DOMAIN o.imports, NEW k \in DOMAIN o.imports[d],
               o.imports[d][k].sym = sym, o.imports[d][k].slot = x
        PROVE  x \in SlotsFor(i, 1, sym)
    <3>1. PICK e \in In(d) : e.sym = sym /\ e.slot = x
      BY <1>3, <2>2
    <3>2. e \in Entries(prog, i) /\ e.tab = 1
      BY <1>2, <1>4, <3>1
    <3> QED BY <1>5, <3>1, <3>2
  <2> QED BY <2>1, <2>2
<1>7. SlotsFor(i, 2, sym) = {} /\ SlotsFor(i, 3, sym) = {}
  <2>1. \A e \in Entries(prog, i) : e.tab = 1
    BY <1>2, <1>4
  <2> QED BY <2>1 DEF SlotsFor
<1> QED BY <1>6, <1>7 DEF o

LEMMA PEPicks ==
    ASSUME prog \in Program, prog.fmt = "PE", NEW i \in DOMAIN prog.map, NEW sym
    PROVE  Picks(P!plt_get_offset(prog.map[i], sym), SlotsFor(i, 1, sym))
<1> DEFINE imp == prog.map[i].imports
           Has == {d \in DOMAIN imp : \E k \in DOMAIN imp[d] : imp[d][k].sym = sym}
           D == {d \in 1..Len(imp) : \E k \in DOMAIN imp[d] : imp[d][k].sym = sym}
           d == IF D # {} THEN Min(D) ELSE 0
           Fits == {k \in DOMAIN imp[d] : imp[d][k].sym = sym}
           K == {k \in 1..Len(imp[d]) : imp[d][k].sym = sym}
           k == IF K # {} THEN Min(K) ELSE 0
           r == P!plt_get_offset(prog.map[i], sym)
<1>1. IsList(imp) /\ \A x \in DOMAIN imp : IsList(imp[x])
  BY Tables DEF ObjectOK
<1>2. r = IF d = 0 THEN << >> ELSE <<imp[d][k].slot>>
  BY SameMin DEF P!plt_get_offset, P!SelectInSeq
<1>3. First(d, Len(imp), Has) /\ DOMAIN imp = 1..Len(imp)
  <2>1. Len(imp) \in Nat /\ DOMAIN imp = 1..Len(imp)
    BY <1>1, ListIs
  <2>2. D = {x \in 1..Len(imp) : x \in Has}
    BY <2>1
  <2>3. d = IF D # {} THEN Min(D) ELSE 0
    OBVIOUS
  <2> HIDE DEF D, Has, d, imp
  <2> QED BY <2>1, <2>2, <2>3, FirstOf
<1> HIDE DEF d, D
<1>4. \A x : x \in SlotsFor(i, 1, sym) <=>
          \E e \in DOMAIN imp : \E j \in DOMAIN imp[e] : imp[e][j].sym = sym /\ imp[e][j].slot = x
  BY PEPlaces
<1> HIDE DEF r, imp
<1>5. CASE d = 0
  <2>1. SlotsFor(i, 1, sym) = {}
    BY <1>3, <1>4, <1>5 DEF First
  <2> QED BY <1>2, <1>5, <2>1 DEF Picks, r
<1>6. CASE d # 0
  <2>1. d \in DOMAIN imp /\ \E j \in DOMAIN imp[d] : imp[d][j].sym = sym
    BY <1>3, <1>6 DEF First
  <2>2. First(k, Len(imp[d]), Fits) /\ DOMAIN imp[d] = 1..Len(imp[d])
    <3> DEFINE ts == imp[d]
               kk == k
    <3>1. Len(ts) \in Nat /\ DOMAIN ts = 1..Len(ts)
      BY <1>1, <2>1, ListIs
    <3>2. K = {x \in 1..Len(ts) : x \in Fits}
      BY <3>1
    <3>3. k = IF K # {} THEN Min(K) ELSE 0
      OBVIOUS
    <3> HIDE DEF K, Fits, k, ts
    <3>4. First(k, Len(ts), Fits)
      BY <3>1, <3>2, <3>3, FirstOf
    <3> QED BY <3>1, <3>4 DEF ts
  <2> HIDE DEF k, K
  <2>3. k \in DOMAIN imp[d] /\ imp[d][k].sym = sym
    BY <2>1, <2>2 DEF First
  <2>4. imp[d][k].slot \in SlotsFor(i, 1, sym)
    BY <1>4, <2>1, <2>3
  <2> QED BY <1>2, <1>6, <2>4 DEF Picks, r
<1> QED BY <1>5, <1>6

LEMMA PEServes ==
    ASSUME prog \in Program, prog.fmt = "PE", NEW i \in DOMAIN prog.map, NEW sym
    PROVE  Serves(P!plt_get_offset(prog.map[i], sym), i, sym)
<1> DEFINE s == P!plt_get_offset(prog.map[i], sym)
           A == SlotsFor(i, 1, sym)
<1>1. Picks(s, A)
  BY PEPicks
<1>2. SlotsFor(i, 2, sym) = {} /\ SlotsFor(i, 3, sym) = {} /\ ~Opaque(i)
  BY PEPlaces DEF Opaque
<1> HIDE DEF s
<1>3. s \in Seq(A) /\ Len(s) = (IF A = {} THEN 0 ELSE 1) /\ (A # {} => s[1] \in A)
  <2> HIDE DEF A
  <2> QED BY <1>1, PicksOne
<1>4. Distinct(s)
  BY <1>3 DEF Distinct
<1>5. A # {} => \E k \in 1..Len(s) : s[k] \in A
  <2> SUFFICES ASSUME A # {} PROVE \E k \in 1..Len(s) : s[k] \in A
    OBVIOUS
  <2>1. 1 \in 1..Len(s)
    BY <1>3
  <2> QED BY <1>3, <2>1
<1>6. CoversAll(s, A, {}, {})
  <2>1. A \union {} \union {} = A
    OBVIOUS
  <2> HIDE DEF A
  <2> QED BY <1>3, <1>4, <1>5, <2>1 DEF CoversAll
<1> QED BY <1>2, <1>6 DEF Serves, s

-----------------------------------------------------------------------------
(* Mach-O: the indices of a symbol in the indirect symbol table.  There is *)
(* room for all of them.                                                   *)
Hits(image, sym, n) == {j \in 1..n : image.isyms[j] # M!Local /\ image.isyms[j] = sym}

Lists(q, S) ==
    /\ q \in Seq(S) /\ Len(q) = Cardinality(S)
    /\ \A j \in S : \E k \in 1..Len(q) : q[k] = j

LEMMA Indices ==
    ASSUME NEW image, IsList(image.isyms), NEW sym,
           Cardinality(Hits(image, sym, Len(image.isyms))) <= M!MaxIndices
    PROVE  Lists(M!get_indices(image, sym), Hits(image, sym, Len(image.isyms)))
<1> DEFINE n == Len(image.isyms)
           H(i) == Hits(image, sym, i)
           Hit(i) == image.isyms[i] # M!Local /\ image.isyms[i] = sym
           Step(q, i) == IF Len(q) < M!MaxIndices /\ Hit(i) THEN Append(q, i) ELSE q
           Body(f, i) == IF i = 0 THEN << >> ELSE Step(f[i - 1], i)
           Solves(m, f) == f = [i \in 0..m |-> Body(f, i)]
           u == CHOOSE f : Solves(n, f)
<1>1. M!get_indices(image, sym) = u[n]
  BY DEF M!get_indices
<1>2. n \in Nat /\ M!MaxIndices \in Nat
  BY ListIs DEF M!MaxIndices
<1>3. \E f : Solves(n, f)
  <2> DEFINE Good == {m \in Nat : \E f : Solves(m, f)}
  <2>1. 0 \in Good
    <3> DEFINE f == [i \in 0..0 |-> << >>]
    <3>1. f = [i \in 0..0 |-> Body(f, i)]
      <4>1. \A i \in 0..0 : Body(f, i) = << >>
        OBVIOUS
      <4> HIDE DEF Body
      <4> QED BY <4>1
    <3> QED BY <3>1
  <2>2. ASSUME NEW m \in Nat, m \in Good
        PROVE  m + 1 \in Good
    <3>1. PICK f : Solves(m, f)
      BY <2>2
    <3> DEFINE g == [i \in 0..m + 1 |-> IF i <= m THEN f[i] ELSE Step(f[m], m + 1)]
    <3>2. \A i \in 0..m : g[i] = f[i]
      OBVIOUS
    <3>3. g[m + 1] = Step(f[m], m + 1)
      OBVIOUS
    <3>4. \A i \in 0..m : f[i] = Body(f, i)
      <4> HIDE DEF Body
      <4> QED BY <3>1
    <3>5. g = [i \in 0..m + 1 |-> g[i]]
      OBVIOUS
    <3> HIDE DEF g, Step
    <3>6. ASSUME NEW i \in 0..m + 1 PROVE g[i] = Body(g, i)
      <4>1. CASE i = 0
        <5>1. i \in 0..m
          BY <4>1
        <5> QED BY <3>2, <3>4, <4>1, <5>1
      <4>2. CASE i = m + 1
        <5>1. i # 0 /\ i - 1 = m /\ m \in 0..m
          BY <4>2
        <5> QED BY <3>2, <3>3, <4>2, <5>1
      <4>3. CASE i # 0 /\ i # m + 1
        <5>1. i \in 0..m /\ i - 1 \in 0..m
          BY <4>3
        <5> QED BY <3>2, <3>4, <4>3, <5>1
      <4> QED BY <4>1, <4>2, <4>3
    <3>7. Solves(m + 1, g)
      <4> HIDE DEF Body
      <4> QED BY <3>5, <3>6
    <3> HIDE DEF Solves
    <3> QED BY <3>7
  <2>3. Nat \subseteq Good
    <3> HIDE DEF Good
    <3> QED BY <2>1, <2>2, SetInduction
  <2> HIDE DEF Solves
  <2> QED BY <1>2, <2>3
<1>4. Solves(n, u)
  <2> HIDE DEF Solves
  <2> QED BY <1>3
<1>5. \A i \in 0..n : u[i] = Body(u, i)
  <2> HIDE DEF u, Body
  <2> QED BY <1>4
<1> HIDE DEF u
<1>6. ASSUME NEW i \in 0..n
      PROVE  /\ IsFiniteSet(H(i)) /\ Cardinality(H(i)) \in Nat
             /\ Cardinality(H(i)) <= M!MaxIndices
  <2>1. IsFiniteSet(H(n))
    <3>1. IsFiniteSet(1..n) /\ H(n) \in SUBSET (1..n)
      <4>1. n \in Int /\ 1 \in Int
        BY <1>2
      <4>2. H(n) \in SUBSET (1..n)
        BY DEF Hits
      <4> HIDE DEF n, H
      <4> QED BY <4>1, <4>2, FS_Interval
    <3> QED BY <3>1, FS_Subset
  <2>2. H(i) \in SUBSET H(n)
    BY DEF Hits
  <2>3. IsFiniteSet(H(i)) /\ Cardinality(H(i)) <= Cardinality(H(n))
    BY <2>1, <2>2, FS_Subset
  <2>4. Cardinality(H(i)) \in Nat /\ Cardinality(H(n)) \in Nat
    BY <2>1, <2>3, FS_CardinalityType
  <2> HIDE DEF H
  <2>5. Cardinality(H(n)) <= M!MaxIndices
    BY DEF H
  <2> QED BY <1>2, <2>3, <2>4, <2>5
<1> DEFINE Good == {i \in Nat : i \in 0..n => Lists(u[i], H(i))}
<1>7. 0 \in Good
  <2>1. H(0) = {} /\ u[0] = << >>
    BY <1>2, <1>5 DEF Hits
  <2>2. Lists(<< >>, {})
    BY FS_EmptySet DEF Lists
  <2> HIDE DEF H
  <2> QED BY <2>1, <2>2
<1>8. ASSUME NEW i \in Nat, i \in Good
      PROVE  i + 1 \in Good
  <2> SUFFICES ASSUME i + 1 \in 0..n PROVE Lists(u[i + 1], H(i + 1))
    OBVIOUS
  <2> DEFINE q == u[i]
  <2>1. i \in 0..n /\ (i + 1) - 1 = i /\ i + 1 # 0
    OBVIOUS
  <2>2. Lists(q, H(i))
    BY <1>8, <2>1
  <2>3. u[i + 1] = Step(q, i + 1)
    <3> HIDE DEF Step
    <3> QED BY <1>5, <2>1
  <2> HIDE DEF q
  <2>4. CASE Hit(i + 1)
    <3>1. H(i + 1) = H(i) \union {i + 1} /\ i + 1 \notin H(i)
      BY <2>4 DEF Hits
    <3>2. Cardinality(H(i + 1)) = Cardinality(H(i)) + 1
      <4> HIDE DEF H
      <4> QED BY <1>6, <2>1, <3>1, FS_AddElement
    <3>3. Len(q) < M!MaxIndices
      <4>1. /\ Cardinality(H(i)) \in Nat /\ Cardinality(H(i + 1)) <= M!MaxIndices
            /\ Len(q) = Cardinality(H(i))
        BY <1>6, <2>1, <2>2 DEF Lists
      <4> HIDE DEF H
      <4> QED BY <1>2, <3>2, <4>1
    <3>4. u[i + 1] = Append(q, i + 1)
      BY <2>3, <2>4, <3>3
    <3> DEFINE S == H(i)
               T == H(i + 1)
               r == Append(q, i + 1)
    <3>5. S \subseteq T /\ i + 1 \in T /\ T = S \union {i + 1}
      BY <3>1
    <3>6. q \in Seq(S) /\ Len(q) = Cardinality(S) /\ \A j \in S : \E k \in 1..Len(q) : q[k] = j
      BY <2>2 DEF Lists
    <3> HIDE DEF S, T
    <3>7. q \in Seq(T)
      BY <3>5, <3>6, Wider
    <3>8. r \in Seq(T) /\ Len(r) = Len(q) + 1 /\ r[Len(q) + 1] = i + 1
          /\ \A k \in 1..Len(q) : r[k] = q[k]
      BY <3>5, <3>7
    <3> HIDE DEF r
    <3>9. Len(q) \in Nat
      BY <3>7
    <3>10. \A j \in T : \E k \in 1..Len(r) : r[k] = j
      <4> SUFFICES ASSUME NEW j \in T PROVE \E k \in 1..Len(r) : r[k] = j
        OBVIOUS
      <4>1. CASE j = i + 1
        <5>1. Len(q) + 1 \in 1..Len(r)
          BY <3>8, <3>9
        <5> QED BY <3>8, <4>1, <5>1
      <4>2. CASE j \in S
        <5>1. PICK k \in 1..Len(q) : q[k] = j
          BY <3>6, <4>2
        <5>2. k \in 1..Len(r)
          BY <3>8, <3>9
        <5> QED BY <3>8, <5>1, <5>2
      <4> QED BY <3>5, <4>1, <4>2
    <3>11. Len(r) = Cardinality(T)
      BY <3>2, <3>6, <3>8 DEF S, T
    <3>12. Lists(r, T)
      BY <3>8, <3>10, <3>11 DEF Lists
    <3> QED BY <3>4, <3>12 DEF r, T
  <2>5. CASE ~Hit(i + 1)
    <3>1. H(i + 1) = H(i)
      BY <2>5 DEF Hits
    <3>2. u[i + 1] = q
      BY <2>3, <2>5
    <3> HIDE DEF H
    <3> QED BY <2>2, <3>1, <3>2
  <2> QED BY <2>4, <2>5
<1>9. Nat \subseteq Good
  <2> HIDE DEF Good
  <2> QED BY <1>7, <1>8, SetInduction
<1>10. Lists(u[n], H(n))
  BY <1>2, <1>9
<1> QED BY <1>1, <1>10

(* The sections hold the slots of the symbols their part of the table      *)
(* names.                                                                  *)
Pointers(o, s, sym) ==
    {s.slots[k] : k \in {k \in DOMAIN s.slots : o.isyms[s.first + k - 1] = sym}}

LEMMA MachOPlaces ==
    ASSUME prog.fmt = "MachO", NEW i, NEW sym, NEW tab \in 1..3
    PROVE  SlotsFor(i, tab, sym) = Pointers(prog.map[i], prog.map[i].sections[tab], sym)
<1> DEFINE o == prog.map[i]
           s == o.sections[tab]
           In(n) == {Entry(n, o.isyms[o.sections[n].first + k - 1], o.sections[n].slots[k]) :
                        k \in DOMAIN o.sections[n].slots}
<1>1. Entries(prog, i) = UNION {In(n) : n \in 1..3}
  BY DEF Entries
<1>2. ASSUME NEW n
      PROVE  \A e \in In(n) : e.tab = n /\ \E k \in DOMAIN o.sections[n].slots :
                 /\ e.sym = o.isyms[o.sections[n].first + k - 1]
                 /\ e.slot = o.sections[n].slots[k]
  BY DEF Entry
<1>3. ASSUME NEW k \in DOMAIN s.slots
      PROVE  \E e \in In(tab) : e.sym = o.isyms[s.first + k - 1] /\ e.slot = s.slots[k]
  <2> DEFINE e == Entry(tab, o.isyms[s.first + k - 1], s.slots[k])
  <2>1. e \in In(tab)
    OBVIOUS
  <2>2. e.sym = o.isyms[s.first + k - 1] /\ e.slot = s.slots[k]
    BY DEF Entry
  <2> HIDE DEF e, In
  <2> QED BY <2>1, <2>2
<1> HIDE DEF In
<1>4. \A e : e \in Entries(prog, i) <=> \E n \in 1..3 : e \in In(n)
  BY <1>1
<1>5. \A x : x \in SlotsFor(i, tab, sym) <=>
          \E e \in Entries(prog, i) : e.tab = tab /\ e.sym = sym /\ e.slot = x
  BY DEF SlotsFor
<1>6. ASSUME NEW x, x \in SlotsFor(i, tab, sym)
      PROVE  \E k \in DOMAIN s.slots : o.isyms[s.first + k - 1] = sym /\ s.slots[k] = x
  <2>1. PICK e \in Entries(prog, i) : e.tab = tab /\ e.sym = sym /\ e.slot = x
    BY <1>5, <1>6
  <2>2. PICK n \in 1..3 : e \in In(n)
    BY <1>4, <2>1
  <2>3. n = tab
    BY <1>2, <2>1, <2>2
  <2> QED BY <1>2, <2>1, <2>2, <2>3
<1>7. ASSUME NEW x, NEW k \in DOMAIN s.slots, o.isyms[s.first + k - 1] = sym, s.slots[k] = x
      PROVE  x \in SlotsFor(i, tab, sym)
  <2>1. PICK e \in In(tab) : e.sym = sym /\ e.slot = x
    BY <1>3, <1>7
  <2>2. e \in Entries(prog, i) /\ e.tab = tab
    BY <1>2, <1>4, <2>1
  <2> QED BY <1>5, <2>1, <2>2
<1>8. \A x : x \in SlotsFor(i, tab, sym) <=> x \in Pointers(o, s, sym)
  <2>1. \A x : x \in Pointers(o, s, sym) <=>
            \E k \in DOMAIN s.slots : o.isyms[s.first + k - 1] = sym /\ s.slots[k] = x
    BY DEF Pointers
  <2> QED BY <1>6, <1>7, <2>1
<1> QED BY <1>8

LEMMA MachOPicks ==
    ASSUME prog \in Program, prog.fmt = "MachO", NEW i \in DOMAIN prog.map,
           NEW sym, sym # M!Local, NEW tab \in 1..3, NEW q,
           Lists(q, Hits(prog.map[i], sym, Len(prog.map[i].isyms)))
    PROVE  Picks(M!find_offset_in(prog.map[i].sections[tab], q), SlotsFor(i, tab, sym))
<1> DEFINE o == prog.map[i]
           s == o.sections[tab]
           n == Len(o.isyms)
           K == {m \in 1..Len(q) : q[m] >= s.first /\ q[m] < s.first + Len(s.slots)}
           m == IF K # {} THEN Min(K) ELSE 0
           r == M!find_offset_in(s, q)
<1>1. /\ IsList(s.slots) /\ s.first \in Nat /\ IsList(o.isyms)
      /\ \A k \in DOMAIN s.slots : s.first + k - 1 \in DOMAIN o.isyms
  BY Tables DEF ObjectOK
<1>2. /\ Len(s.slots) \in Nat /\ DOMAIN s.slots = 1..Len(s.slots)
      /\ n \in Nat /\ DOMAIN o.isyms = 1..n
  BY <1>1, ListIs
<1>3. r = IF m = 0 THEN << >> ELSE <<s.slots[q[m] - s.first + 1]>>
  BY SameMin DEF M!find_offset_in, M!SelectInSeq
<1>4. /\ Len(q) \in Nat
      /\ \A j \in 1..Len(q) : q[j] \in 1..n /\ o.isyms[q[j]] = sym
      /\ \A j \in 1..n : o.isyms[j] = sym => \E k \in 1..Len(q) : q[k] = j
  <2>1. q \in Seq(Hits(o, sym, n)) /\ \A j \in Hits(o, sym, n) : \E k \in 1..Len(q) : q[k] = j
    BY DEF Lists
  <2>2. \A j : j \in Hits(o, sym, n) <=> j \in 1..n /\ o.isyms[j] = sym
    BY DEF Hits
  <2> DEFINE S == Hits(o, sym, n)
  <2> HIDE DEF S, n
  <2>3. Len(q) \in Nat /\ \A j \in 1..Len(q) : q[j] \in S
    BY <2>1 DEF S
  <2> QED BY <2>1, <2>2, <2>3 DEF S
<1>5. First(m, Len(q), K)
  <2>1. K = {x \in 1..Len(q) : x \in K}
    OBVIOUS
  <2>2. m = IF K # {} THEN Min(K) ELSE 0
    OBVIOUS
  <2> HIDE DEF K, m
  <2> QED BY <1>4, <2>1, <2>2, FirstOf
<1>6. \A x : x \in SlotsFor(i, tab, sym) <=>
          \E k \in DOMAIN s.slots : o.isyms[s.first + k - 1] = sym /\ s.slots[k] = x
  <2>1. SlotsFor(i, tab, sym) = Pointers(o, s, sym)
    BY MachOPlaces
  <2> HIDE DEF s, o
  <2> QED BY <2>1 DEF Pointers
<1> HIDE DEF m, r, s, o, n
<1>7. CASE m = 0
  <2>1. ASSUME NEW k \in DOMAIN s.slots, o.isyms[s.first + k - 1] = sym
        PROVE  FALSE
    <3>1. s.first + k - 1 \in 1..n
      BY <1>1, <1>2, <2>1
    <3>2. PICK j \in 1..Len(q) : q[j] = s.first + k - 1
      BY <1>4, <2>1, <3>1
    <3>3. q[j] >= s.first /\ q[j] < s.first + Len(s.slots)
      BY <1>1, <1>2, <3>2
    <3>4. K \intersect 1..Len(q) = {}
      BY <1>5, <1>7 DEF First
    <3> QED BY <3>3, <3>4
  <2>2. SlotsFor(i, tab, sym) = {}
    BY <1>6, <2>1
  <2> QED BY <1>3, <1>7, <2>2 DEF Picks, r, s, o
<1>8. CASE m # 0
  <2>1. m \in 1..Len(q) /\ q[m] >= s.first /\ q[m] < s.first + Len(s.slots)
    BY <1>5, <1>8 DEF First
  <2> DEFINE k == q[m] - s.first + 1
  <2>2. q[m] \in 1..n /\ o.isyms[q[m]] = sym
    BY <1>4, <2>1
  <2>3. k \in DOMAIN s.slots /\ s.first + k - 1 = q[m]
    BY <1>1, <1>2, <2>1, <2>2
  <2>4. s.slots[k] \in SlotsFor(i, tab, sym)
    <3> HIDE DEF k
    <3> QED BY <1>6, <2>2, <2>3
  <2>5. r = <<s.slots[k]>>
    BY <1>3, <1>8
  <2> HIDE DEF k
  <2> QED BY <2>4, <2>5 DEF Picks, r, s, o
<1> QED BY <1>7, <1>8

(* get_offsets has room for every index of every symbol.                   *)
LEMMA MachOIndices ==
    ASSUME prog \in Program, prog.fmt = "MachO", NEW i \in DOMAIN prog.map, NEW sym
    PROVE  Lists(M!get_indices(prog.map[i], sym),
                 Hits(prog.map[i], sym, Len(prog.map[i].isyms)))
<1> DEFINE o == prog.map[i]
           n == Len(o.isyms)
           H == Hits(o, sym, n)
           All == {k \in DOMAIN o.isyms : o.isyms[k] = sym}
<1>1. /\ IsList(o.isyms)
      /\ sym \in {o.isyms[k] : k \in DOMAIN o.isyms} => Cardinality(All) <= M!MaxIndices
  BY Tables DEF ObjectOK
<1>2. n \in Nat /\ DOMAIN o.isyms = 1..n
  BY <1>1, ListIs
<1>3. IsFiniteSet(All)
  <2>1. IsFiniteSet(1..n)
    <3>1. n \in Int /\ 1 \in Int
      BY <1>2
    <3> HIDE DEF n
    <3> QED BY <3>1, FS_Interval
  <2>2. All \in SUBSET (1..n)
    BY <1>2
  <2> HIDE DEF All, n
  <2> QED BY <2>1, <2>2, FS_Subset
<1>4. H \in SUBSET All
  BY <1>2 DEF Hits
<1>5. Cardinality(H) <= M!MaxIndices
  <2>1. CASE sym \in {o.isyms[k] : k \in DOMAIN o.isyms}
    <3>1. Cardinality(All) <= M!MaxIndices
      BY <1>1, <2>1
    <3> HIDE DEF All, H
    <3>2. /\ IsFiniteSet(H) /\ Cardinality(H) <= Cardinality(All)
          /\ Cardinality(H) \in Nat /\ Cardinality(All) \in Nat
      BY <1>3, <1>4, FS_Subset, FS_CardinalityType
    <3> QED BY <3>1, <3>2 DEF M!MaxIndices
  <2>2. CASE sym \notin {o.isyms[k] : k \in DOMAIN o.isyms}
    <3>1. H = {}
      BY <1>2, <2>2 DEF Hits
    <3> HIDE DEF H
    <3> QED BY <3>1, FS_EmptySet DEF M!MaxIndices
  <2> QED BY <2>1, <2>2
<1> HIDE DEF o
<1>6. Lists(M!get_indices(o, sym), H)
  BY <1>1, <1>5, Indices
<1> QED BY <1>6 DEF o

LEMMA MachOServes ==
    ASSUME prog \in Program, prog.fmt = "MachO", NEW i \in DOMAIN prog.map,
           NEW sym, sym # M!Local
    PROVE  Serves(M!plt_get_offsets(prog.map[i], sym).slots, i, sym)
<1> DEFINE o == prog.map[i]
           q == M!get_indices(o, sym)
           A == SlotsFor(i, 1, sym)
           B == SlotsFor(i, 2, sym)
           C == SlotsFor(i, 3, sym)
           a == M!find_offset_in(o.sections[1], q)
           b == M!find_offset_in(o.sections[2], q)
           c == M!find_offset_in(o.sections[3], q)
<1>1. 1 \in 1..3 /\ 2 \in 1..3 /\ 3 \in 1..3
  OBVIOUS
<1>2. Lists(q, Hits(o, sym, Len(o.isyms)))
  BY MachOIndices
<1>3. Picks(a, A) /\ Picks(b, B) /\ Picks(c, C)
  <2> HIDE DEF q
  <2> QED BY <1>1, <1>2, MachOPicks
<1>4. CoversAll(a \o b \o c, A, B, C)
  <2>1. A \intersect B = {} /\ A \intersect C = {} /\ B \intersect C = {}
    BY Tables
  <2> HIDE DEF a, b, c, A, B, C
  <2> QED BY <1>3, <2>1, Assembled
<1>5. M!plt_get_offsets(o, sym).slots = a \o b \o c
  <2>1. CASE q = << >>
    <3>1. ASSUME NEW section PROVE M!find_offset_in(section, << >>) = << >>
      BY DEF M!find_offset_in, M!SelectInSeq
    <3>2. a = << >> /\ b = << >> /\ c = << >>
      BY <2>1, <3>1
    <3>3. a \o b \o c = << >>
      BY <3>2
    <3> QED BY <2>1, <3>3 DEF M!plt_get_offsets
  <2>2. CASE q # << >>
    BY <2>2 DEF M!plt_get_offsets
  <2> QED BY <2>1, <2>2
<1>6. ~Opaque(i)
  BY DEF Opaque
<1> QED BY <1>4, <1>5, <1>6 DEF Serves

-----------------------------------------------------------------------------
(* The object a scope denotes is the one meant, in every format.           *)
Scope == ScopeOf(PathOf(target.text))

LEMMA ScopeIs ==
    ASSUME target \in Target
    PROVE  /\ NameOf(target.text) = target.sym /\ target.sym # M!Local
           /\ target.kind \in Selectors \union {"self", "wrong"}
           /\ Scope.sel = "panic" <=> target.kind = "wrong"
           /\ target.kind = "self" => Scope = MainScope
           /\ target.kind \in Selectors =>
                /\ Scope = [sel |-> target.kind, val |-> target.val] /\ Scope # MainScope
                /\ Scope.sel = target.kind /\ Scope.val = target.val
<1>1. TargetOK(target)
  BY BackEndsAssumption
<1>2. target.kind \in Selectors \union {"self", "wrong"} /\ target.sym # << >>
  BY <1>1 DEF TargetOK
<1>3. /\ NameOf(target.text) = target.sym
      /\ target.kind = "self" => Scope = MainScope
      /\ target.kind = "wrong" => Scope.sel = "panic"
      /\ target.kind \in Selectors => Scope = [sel |-> target.kind, val |-> target.val]
  BY Parsed DEF Scope
<1>4. MainScope.sel = "self"
  BY DEF MainScope
<1>5. "panic" \notin Selectors /\ "self" \notin Selectors /\ "wrong" \notin Selectors
  BY DEF Selectors
<1>6. CASE target.kind = "self"
  BY <1>2, <1>3, <1>4, <1>5, <1>6 DEF M!Local
<1>7. CASE target.kind = "wrong"
  BY <1>2, <1>3, <1>5, <1>7 DEF M!Local
<1>8. CASE target.kind \in Selectors
  <2>1. Scope.sel = target.kind /\ Scope.val = target.val
    BY <1>3, <1>8
  <2> QED BY <1>2, <1>3, <1>4, <1>5, <1>8, <2>1 DEF M!Local
<1> QED BY <1>2, <1>6, <1>7, <1>8

LEMMA ServesEmpty ==
    ASSUME prog \in Program, NEW i \in DOMAIN prog.map, NEW sym, NEW s, Serves(s, i, sym)
    PROVE  s # << >> <=> ~Opaque(i) /\ SlotsOf(i, sym) # {}
<1> DEFINE A == SlotsFor(i, 1, sym)
           B == SlotsFor(i, 2, sym)
           C == SlotsFor(i, 3, sym)
           U == A \union B \union C
<1>1. SlotsOf(i, sym) = U
  BY Tables
<1>2. CASE Opaque(i)
  BY <1>2 DEF Serves
<1>3. CASE ~Opaque(i)
  <2>1. CoversAll(s, A, B, C)
    BY <1>3 DEF Serves
  <2> HIDE DEF A, B, C
  <2>2. /\ s \in Seq(U)
        /\ U # {} => \E k \in 1..Len(s) : TRUE
    BY <2>1 DEF CoversAll
  <2>3. ASSUME s # << >>
        PROVE  U # {}
    <3> HIDE DEF U
    <3>1. s[1] \in U
      BY <2>2, <2>3
    <3> QED BY <3>1
  <2>4. ASSUME s = << >>
        PROVE  U = {}
    <3> HIDE DEF U
    <3>1. 1..Len(s) = {}
      BY <2>4
    <3> QED BY <2>2, <3>1
  <2> QED BY <1>1, <1>3, <2>3, <2>4
<1> QED BY <1>2, <1>3

(* What the code takes: for scope "sym" the first object that refers to    *)
(* the symbol, where the documentation says the first that defines it.     *)
Takes(i) == IF target.kind = "sym" THEN Referring(i) ELSE Answers(i)
Taken(i) == Takes(i) /\ \A j \in 1..(i - 1) : ~Takes(j)

LEMMA TakenIsMeant ==
    ASSUME ReferrerDefines, NEW i \in DOMAIN prog.map
    PROVE  Meant(i) <=> Taken(i)
<1>1. CASE target.kind = "sym"
  <2>1. \A j : Takes(j) <=> Referring(j)
    BY <1>1 DEF Takes
  <2> QED BY <1>1, <2>1 DEF ReferrerDefines, Taken
<1>2. CASE target.kind # "sym"
  <2>1. \A j : Takes(j) <=> Answers(j)
    BY <1>2 DEF Takes
  <2> QED BY <2>1 DEF Meant, Taken
<1> QED BY <1>1, <1>2

Answering == {i \in DOMAIN prog.map : Takes(i)}

LEMMA MapIs ==
    ASSUME prog \in Program
    PROVE  /\ IsList(prog.map) /\ prog.map # << >> /\ Len(prog.map) \in Nat
           /\ DOMAIN prog.map = 1..Len(prog.map) /\ 1 \in 1..Len(prog.map)
           /\ prog.fmt \in {"ELF", "MachO", "PE"}
<1>1. IsList(prog.map) /\ prog.map # << >> /\ prog.fmt \in {"ELF", "MachO", "PE"}
  BY BackEndsAssumption
<1> DEFINE m == prog.map
<1>2. m \in Seq({m[i] : i \in DOMAIN m}) /\ Len(m) \in Nat /\ DOMAIN m = 1..Len(m)
  BY <1>1, ListIs
<1> DEFINE X == {m[i] : i \in DOMAIN m}
<1> HIDE DEF m, X
<1>3. m \in Seq(X) /\ m # << >>
  BY <1>1, <1>2 DEF m, X
<1>4. 1 \in 1..Len(m)
  BY <1>3
<1> QED BY <1>1, <1>2, <1>4 DEF m

LEMMA SelfLooks ==
    ASSUME prog \in Program, target.kind = "self"
    PROVE  First(1, Len(prog.map), Answering)
<1>1. Answering = {i \in DOMAIN prog.map : i = 1}
  BY DEF Answering, Takes, Answers
<1>2. 1..1 - 1 = {}
  OBVIOUS
<1> QED BY <1>1, <1>2, MapIs DEF First

LEMMA ElfLooks ==
    ASSUME prog \in Program, target \in Target, prog.fmt = "ELF", target.kind # "wrong"
    PROVE  First(E!plt_get_lib(prog.map, Scope), Len(prog.map), Answering)
<1>1. CASE target.kind = "self"
  <2>1. E!plt_get_lib(prog.map, Scope) = 1
    BY <1>1, ScopeIs DEF E!plt_get_lib, E!MainScope, MainScope
  <2> QED BY <1>1, <2>1, SelfLooks
<1>2. CASE target.kind \in Selectors
  <2>1. Scope # MainScope /\ Scope.sel = target.kind /\ Scope.val = target.val
    BY <1>2, ScopeIs
  <2>2. First(E!plt_get_lib(prog.map, Scope), Len(prog.map),
              {i \in DOMAIN prog.map : E!InScope(prog.map, i, Scope)})
    BY <2>1, ElfLib, MapIs
  <2>3. ASSUME NEW i \in DOMAIN prog.map
        PROVE  E!InScope(prog.map, i, Scope) <=> Takes(i)
    <3>1. CASE target.kind = "lib"
      <4>1. i # 1 <=> i > 1
        BY MapIs
      <4> QED BY <2>1, <3>1, <4>1 DEF E!InScope, Takes, Answers
    <3>2. CASE target.kind = "file"
      <4>1. E!InScope(prog.map, i, Scope) <=> target.val = E!get_lib_name(prog.map, i)
        BY <2>1, <3>2 DEF E!InScope
      <4>2. Takes(i) <=> NamedBy(i, target.val)
        BY <3>2 DEF Takes, Answers
      <4> QED BY <4>1, <4>2 DEF E!get_lib_name, NamedBy
    <3>3. CASE target.kind = "sym"
      <4> DEFINE s == E!get_offsets(prog.map[i], target.val)
      <4>1. s # << >> <=> ~Opaque(i) /\ SlotsOf(i, target.val) # {}
        BY ElfServes, ServesEmpty
      <4>2. E!InScope(prog.map, i, Scope) <=> s # << >>
        BY <2>1, <3>3 DEF E!InScope
      <4>3. Takes(i) <=> Refers(i, target.val)
        BY <3>3 DEF Takes, Referring
      <4> HIDE DEF s
      <4> QED BY <4>1, <4>2, <4>3 DEF Refers
    <3> QED BY <1>2, <3>1, <3>2, <3>3 DEF Selectors
  <2>4. Answering = {i \in DOMAIN prog.map : E!InScope(prog.map, i, Scope)}
    BY <2>3 DEF Answering
  <2> QED BY <2>2, <2>4
<1> QED BY <1>1, <1>2, ScopeIs

LEMMA MachOLooks ==
    ASSUME prog \in Program, target \in Target, prog.fmt = "MachO", target.kind # "wrong"
    PROVE  First(M!plt_get_lib(prog.map, Scope), Len(prog.map), Answering)
<1>1. CASE target.kind = "self"
  <2>1. M!plt_get_lib(prog.map, Scope) = 1
    BY <1>1, ScopeIs DEF M!plt_get_lib, M!MainScope, MainScope
  <2> QED BY <1>1, <2>1, SelfLooks
<1>2. CASE target.kind \in Selectors
  <2>1. Scope # MainScope /\ Scope.sel = target.kind /\ Scope.val = target.val
    BY <1>2, ScopeIs
  <2>2. First(M!plt_get_lib(prog.map, Scope), Len(prog.map),
              {i \in DOMAIN prog.map : i > 1 /\ M!InScope(prog.map, i, Scope)})
    BY <2>1, MachOLib, MapIs
  <2>3. ASSUME NEW i \in DOMAIN prog.map
        PROVE  i > 1 /\ M!InScope(prog.map, i, Scope) <=> Takes(i)
    <3>1. CASE target.kind = "lib"
      BY <2>1, <3>1 DEF M!InScope, Takes, Answers
    <3>2. CASE target.kind = "file"
      <4>1. M!InScope(prog.map, i, Scope) <=> target.val = prog.map[i].file
        BY <2>1, <3>2 DEF M!InScope
      <4>2. Takes(i) <=> NamedBy(i, target.val)
        BY <3>2 DEF Takes, Answers
      <4> QED BY <4>1, <4>2 DEF NamedBy
    <3>3. CASE target.kind = "sym"
      <4> DEFINE v == target.val
                 q == M!get_indices(prog.map[i], v)
                 S == Hits(prog.map[i], v, Len(prog.map[i].isyms))
      <4>1. q # << >> <=> S # {}
        <5>1. Lists(q, S)
          BY MachOIndices
        <5> HIDE DEF q, S
        <5>2. q \in Seq(S) /\ (S # {} => \E k \in 1..Len(q) : TRUE)
          BY <5>1 DEF Lists
        <5>3. ASSUME q # << >> PROVE S # {}
          <6>1. q[1] \in S
            BY <5>2, <5>3
          <6> QED BY <6>1
        <5>4. ASSUME q = << >> PROVE S = {}
          <6>1. 1..Len(q) = {}
            BY <5>4
          <6> QED BY <5>2, <6>1
        <5> QED BY <5>3, <5>4
      <4>2. S # {} <=> v # M!Local /\ Contains(prog.map[i].isyms, v)
        BY DEF Hits, Contains
      <4>3. M!InScope(prog.map, i, Scope) <=> q # << >>
        BY <2>1, <3>3 DEF M!InScope
      <4>4. Takes(i) <=> i > 1 /\ Refers(i, v)
        BY <3>3 DEF Takes, Referring
      <4> HIDE DEF q, S, v
      <4> QED BY <4>1, <4>2, <4>3, <4>4 DEF Refers
    <3> QED BY <1>2, <3>1, <3>2, <3>3 DEF Selectors
  <2>4. Answering = {i \in DOMAIN prog.map : i > 1 /\ M!InScope(prog.map, i, Scope)}
    BY <2>3 DEF Answering
  <2> QED BY <2>2, <2>4
<1> QED BY <1>1, <1>2, ScopeIs

LEMMA PELooks ==
    ASSUME prog \in Program, target \in Target, prog.fmt = "PE", target.kind # "wrong"
    PROVE  First(P!plt_get_lib(prog.map, Scope), Len(prog.map), Answering)
<1> DEFINE v == target.val
<1>1. CASE target.kind = "self"
  <2>1. P!plt_get_lib(prog.map, Scope) = 1
    BY <1>1, ScopeIs DEF P!plt_get_lib, P!MainScope, MainScope
  <2> QED BY <1>1, <2>1, SelfLooks
<1>2. CASE target.kind \in {"file", "lib"}
  <2>1. Scope # MainScope /\ Scope.sel = target.kind /\ Scope.val = v
    BY <1>2, ScopeIs DEF Selectors
  <2> DEFINE m == P!GetModuleHandle(prog.map, v)
             l == P!GetModuleHandle(prog.map, <<"lib">> \o v)
             Named(x) == {i \in DOMAIN prog.map : x \in prog.map[i].handles}
  <2>2. P!plt_get_lib(prog.map, Scope) = IF m # 0 THEN m ELSE l
    BY <1>2, <2>1 DEF P!plt_get_lib, P!MainScope, MainScope
  <2>3. First(m, Len(prog.map), Named(v)) /\ First(l, Len(prog.map), Named(<<"lib">> \o v))
    BY PEHandle, MapIs
  <2>4. ASSUME NEW i \in DOMAIN prog.map, NEW x
        PROVE  NamedBy(i, x) <=> i \in Named(x)
    BY DEF NamedBy
  <2>5. ASSUME NEW i \in DOMAIN prog.map
        PROVE  Takes(i) <=> \/ NamedBy(i, v)
                            \/ NamedBy(i, <<"lib">> \o v) /\ \A j \in DOMAIN prog.map : ~NamedBy(j, v)
    BY <1>2 DEF Takes, Answers
  <2> HIDE DEF m, l
  <2>6. DOMAIN prog.map = 1..Len(prog.map)
    BY MapIs
  <2>7. CASE m # 0
    <3>1. Answering = Named(v)
      <4>1. m \in DOMAIN prog.map /\ m \in Named(v)
        BY <2>3, <2>6, <2>7 DEF First
      <4>2. NamedBy(m, v)
        BY <2>4, <4>1
      <4>3. ASSUME NEW i \in DOMAIN prog.map PROVE Takes(i) <=> i \in Named(v)
        BY <2>4, <2>5, <4>1, <4>2
      <4> QED BY <4>3 DEF Answering
    <3> QED BY <2>2, <2>3, <2>7, <3>1
  <2>8. CASE m = 0
    <3>1. Answering = Named(<<"lib">> \o v)
      <4>1. \A j \in DOMAIN prog.map : j \notin Named(v)
        BY <2>3, <2>6, <2>8 DEF First
      <4>2. \A j \in DOMAIN prog.map : ~NamedBy(j, v)
        BY <2>4, <4>1
      <4>3. ASSUME NEW i \in DOMAIN prog.map PROVE Takes(i) <=> i \in Named(<<"lib">> \o v)
        <5> HIDE DEF Named
        <5> QED BY <2>4, <2>5, <4>2
      <4> QED BY <4>3 DEF Answering
    <3> QED BY <2>2, <2>3, <2>8, <3>1
  <2> QED BY <2>7, <2>8
<1>3. CASE target.kind = "sym"
  <2>1. Scope # MainScope /\ Scope.sel = "sym" /\ Scope.val = v
    BY <1>3, ScopeIs DEF Selectors
  <2>2. P!plt_get_lib(prog.map, Scope) = P!plt_find_offset(prog.map, v)
    BY <2>1 DEF P!plt_get_lib, P!MainScope, MainScope
  <2>3. First(P!plt_find_offset(prog.map, v), Len(prog.map),
              {i \in DOMAIN prog.map : P!plt_get_offset(prog.map[i], v) # << >>})
    BY PEFind, MapIs
  <2>4. ASSUME NEW i \in DOMAIN prog.map
        PROVE  P!plt_get_offset(prog.map[i], v) # << >> <=> Takes(i)
    <3> DEFINE s == P!plt_get_offset(prog.map[i], v)
    <3>1. s # << >> <=> ~Opaque(i) /\ SlotsOf(i, v) # {}
      BY PEServes, ServesEmpty
    <3>2. Takes(i) <=> Refers(i, v)
      BY <1>3 DEF Takes, Referring
    <3> HIDE DEF s, v
    <3>3. Takes(i) <=> s # << >>
      BY <3>1, <3>2 DEF Refers
    <3> QED BY <3>3 DEF s
  <2>5. Answering = {i \in DOMAIN prog.map : P!plt_get_offset(prog.map[i], v) # << >>}
    BY <2>4 DEF Answering
  <2> QED BY <2>2, <2>3, <2>5
<1> QED BY <1>1, <1>2, <1>3, ScopeIs DEF Selectors

-----------------------------------------------------------------------------
(* What a stub of the target string patches, before it has patched it.     *)
Nothing == [slots |-> << >>, room |-> 0]
Result == IF Scope.sel = "panic" THEN Nothing ELSE Found(Scope, NameOf(target.text))

Roomy(r, i) ==
    IF prog.fmt = "MachO" THEN r = M!plt_get_offsets(prog.map[i], target.sym)
    ELSE r.room = Len(r.slots)

ResultOK(r) ==
    \/ r = Nothing /\ \A i \in DOMAIN prog.map : ~Takes(i)
    \/ \E i \in DOMAIN prog.map : Taken(i) /\ Serves(r.slots, i, target.sym) /\ Roomy(r, i)

LEMMA FirstTaken ==
    ASSUME prog \in Program, NEW lib, First(lib, Len(prog.map), Answering)
    PROVE  /\ lib = 0 => \A i \in DOMAIN prog.map : ~Takes(i)
           /\ lib # 0 => lib \in DOMAIN prog.map /\ Taken(lib)
<1>1. DOMAIN prog.map = 1..Len(prog.map) /\ Len(prog.map) \in Nat
  BY MapIs
<1>2. CASE lib = 0
  BY <1>1, <1>2 DEF First, Answering
<1>3. CASE lib # 0
  <2>1. lib \in 1..Len(prog.map) /\ lib \in Answering /\ \A j \in 1..lib - 1 : j \notin Answering
    BY <1>3 DEF First
  <2>2. \A j \in 1..lib - 1 : j \in DOMAIN prog.map
    BY <1>1, <2>1
  <2> QED BY <1>1, <1>3, <2>1, <2>2 DEF Answering, Taken
<1> QED BY <1>2, <1>3

LEMMA Results ==
    ASSUME prog \in Program, target \in Target
    PROVE  ResultOK(Result)
<1> DEFINE sym == target.sym
<1>1. NameOf(target.text) = sym /\ sym # M!Local /\ (Scope.sel = "panic" <=> target.kind = "wrong")
  BY ScopeIs
<1>2. CASE target.kind = "wrong"
  <2>1. Result = Nothing
    BY <1>1, <1>2 DEF Result
  <2>2. \A i \in DOMAIN prog.map : ~Takes(i)
    BY <1>2 DEF Takes, Answers
  <2> QED BY <2>1, <2>2 DEF ResultOK
<1>3. CASE target.kind # "wrong"
  <2>0. Result = Found(Scope, sym)
    BY <1>1, <1>3 DEF Result
  <2>1. CASE prog.fmt = "ELF"
    <3> DEFINE lib == E!plt_get_lib(prog.map, Scope)
               s == IF lib = 0 THEN << >> ELSE E!get_offsets(prog.map[lib], sym)
    <3>1. Result = [slots |-> s, room |-> Len(s)]
      BY <2>0, <2>1 DEF Found, E!Lookup
    <3>2. /\ lib = 0 => \A i \in DOMAIN prog.map : ~Takes(i)
          /\ lib # 0 => lib \in DOMAIN prog.map /\ Taken(lib)
      <4>1. First(lib, Len(prog.map), Answering)
        BY <1>3, <2>1, ElfLooks
      <4> HIDE DEF lib
      <4> QED BY <4>1, FirstTaken
    <3> HIDE DEF lib
    <3>3. CASE lib = 0
      <4>1. s = << >> /\ Len(<< >>) = 0
        BY <3>3
      <4>2. Result = Nothing
        BY <3>1, <4>1 DEF Nothing
      <4> QED BY <3>2, <3>3, <4>2 DEF ResultOK
    <3>4. CASE lib # 0
      <4>1. Serves(s, lib, sym)
        BY <2>1, <3>2, <3>4, ElfServes
      <4> HIDE DEF s
      <4>2. Result.slots = s /\ Roomy(Result, lib)
        BY <2>1, <3>1 DEF Roomy
      <4> QED BY <3>2, <3>4, <4>1, <4>2 DEF ResultOK
    <3> QED BY <3>3, <3>4
  <2>2. CASE prog.fmt = "MachO"
    <3> DEFINE lib == M!plt_get_lib(prog.map, Scope)
               r == IF lib = 0 THEN Nothing ELSE M!plt_get_offsets(prog.map[lib], sym)
    <3>1. Result = r
      BY <2>0, <2>2 DEF Found, M!Lookup, Nothing
    <3>2. /\ lib = 0 => \A i \in DOMAIN prog.map : ~Takes(i)
          /\ lib # 0 => lib \in DOMAIN prog.map /\ Taken(lib)
      <4>1. First(lib, Len(prog.map), Answering)
        BY <1>3, <2>2, MachOLooks
      <4> HIDE DEF lib
      <4> QED BY <4>1, FirstTaken
    <3> HIDE DEF lib
    <3>3. CASE lib = 0
      BY <3>1, <3>2, <3>3 DEF ResultOK
    <3>4. CASE lib # 0
      <4>1. Serves(r.slots, lib, sym)
        BY <1>1, <2>2, <3>2, <3>4, MachOServes
      <4>2. Roomy(r, lib)
        BY <2>2, <3>4 DEF Roomy
      <4> HIDE DEF r
      <4> QED BY <3>1, <3>2, <3>4, <4>1, <4>2 DEF ResultOK
    <3> QED BY <3>3, <3>4
  <2>3. CASE prog.fmt = "PE"
    <3> DEFINE lib == P!plt_get_lib(prog.map, Scope)
               s == IF lib = 0 THEN << >> ELSE P!plt_get_offset(prog.map[lib], sym)
    <3>1. Result = [slots |-> s, room |-> Len(s)]
      BY <2>0, <2>3 DEF Found, P!Lookup
    <3>2. /\ lib = 0 => \A i \in DOMAIN prog.map : ~Takes(i)
          /\ lib # 0 => lib \in DOMAIN prog.map /\ Taken(lib)
      <4>1. First(lib, Len(prog.map), Answering)
        BY <1>3, <2>3, PELooks
      <4> HIDE DEF lib
      <4> QED BY <4>1, FirstTaken
    <3> HIDE DEF lib
    <3>3. CASE lib = 0
      <4>1. s = << >> /\ Len(<< >>) = 0
        BY <3>3
      <4>2. Result = Nothing
        BY <3>1, <4>1 DEF Nothing
      <4> QED BY <3>2, <3>3, <4>2 DEF ResultOK
    <3>4. CASE lib # 0
      <4>1. Serves(s, lib, sym)
        BY <2>3, <3>2, <3>4, PEServes
      <4> HIDE DEF s
      <4>2. Result.slots = s /\ Roomy(Result, lib)
        BY <2>3, <3>1 DEF Roomy
      <4> QED BY <3>2, <3>4, <4>1, <4>2 DEF ResultOK
    <3> QED BY <3>3, <3>4
  <2> QED BY <2>1, <2>2, <2>3, MapIs
<1> QED BY <1>2, <1>3

(* Every slot is found once, and is a slot of an object of the program.    *)
Fit(s) == Len(s) \in Nat /\ s \in Seq(DOMAIN Linked) /\ Distinct(s) /\ Slot(s) \subseteq DOMAIN Linked

LEMMA ServesFit ==
    ASSUME prog \in Program, NEW i \in DOMAIN prog.map, NEW sym, NEW s, Serves(s, i, sym)
    PROVE  Fit(s) /\ s \in Seq(SlotsOf(i, sym))
<1>1. s \in Seq(SlotsOf(i, sym)) /\ Distinct(s)
  <2>1. CASE Opaque(i)
    BY <2>1 DEF Serves, Distinct
  <2>2. CASE ~Opaque(i)
    BY <2>2, Tables DEF Serves, CoversAll
  <2> QED BY <2>1, <2>2
<1>2. SlotsOf(i, sym) \subseteq DOMAIN Linked
  <2>1. DOMAIN Linked = UNION {SlotsIn(j) : j \in DOMAIN prog.map}
    BY DEF Linked
  <2>2. SlotsOf(i, sym) \subseteq SlotsIn(i)
    BY DEF SlotsOf, SlotsIn
  <2>3. SlotsIn(i) \subseteq UNION {SlotsIn(j) : j \in DOMAIN prog.map}
    OBVIOUS
  <2> QED BY <2>1, <2>2, <2>3
<1> DEFINE X == SlotsOf(i, sym)
           Y == DOMAIN Linked
<1> HIDE DEF X, Y
<1>3. s \in Seq(X) /\ X \subseteq Y
  BY <1>1, <1>2 DEF X, Y
<1>4. s \in Seq(Y)
  BY <1>3, Wider
<1>5. Len(s) \in Nat /\ \A k \in 1..Len(s) : s[k] \in Y
  BY <1>4
<1>6. Slot(s) \subseteq Y
  BY <1>5 DEF Slot
<1> QED BY <1>1, <1>4, <1>5, <1>6 DEF Fit, Y

LEMMA ResultFits ==
    ASSUME prog \in Program, target \in Target
    PROVE  Fit(Result.slots)
<1>1. CASE Result = Nothing
  <2>1. Result.slots = << >>
    BY <1>1 DEF Nothing
  <2>2. Fit(<< >>)
    BY DEF Fit, Distinct, Slot
  <2> QED BY <2>1, <2>2
<1>2. CASE Result # Nothing
  <2>1. PICK i \in DOMAIN prog.map : Serves(Result.slots, i, target.sym)
    BY <1>2, Results DEF ResultOK
  <2> QED BY <2>1, ServesFit
<1> QED BY <1>1, <1>2

LEMMA SlotsNonzero ==
    ASSUME prog \in Program, NEW x \in DOMAIN Linked
    PROVE  Linked[x] = x /\ x # Trampoline
<1>1. PICK i \in DOMAIN prog.map : x \in SlotsIn(i)
  BY DEF Linked
<1>2. PICK e \in Entries(prog, i) : e.slot = x
  BY <1>1 DEF SlotsIn
<1>3. x \in Nat \ {0}
  BY <1>2, Tables
<1> QED BY <1>3 DEF Linked, Trampoline

-----------------------------------------------------------------------------
(* The inductive invariant: what the stub has stored is what its target    *)
(* string gives, and the GOT is as linked but for these slots.             *)
IInv ==
    /\ prog \in Program /\ target \in Target
    /\ pc \in {"new", "live", "failed", "panicked", "gone"}
    /\ IF pc = "new" THEN off = << >> /\ room = 0
       ELSE /\ off = Result.slots /\ room = Result.room
            /\ pc = "panicked" <=> Scope.sel = "panic"
    /\ pc = "failed" => off = << >>
    /\ pc = "live" => off # << >>
    /\ IF pc = "live"
       THEN /\ got = WriteTo(Linked, off, Len(off), Trampoline)
            /\ old = [i \in 1..Len(off) |-> Linked[off[i]]]
       ELSE got = Linked

LEMMA Initial == Init => IInv
BY DEF Init, IInv

LEMMA Steps == IInv /\ [Next]_vars => IInv'
<1> SUFFICES ASSUME IInv, [Next]_vars PROVE IInv'
  OBVIOUS
<1>1. prog \in Program /\ target \in Target
  BY DEF IInv
<1>2. prog' = prog /\ target' = target
  BY DEF Next, vars, mmk_stub_create, mmk_stub_destroy
<1>3. Scope' = Scope
  BY <1>2 DEF Scope
<1>4. Linked' = Linked
  BY <1>2 DEF Linked, SlotsIn
<1>5. Result' = Result
  BY <1>2, <1>3 DEF Result, Found
<1>6. Fit(Result.slots)
  BY <1>1, ResultFits
<1>7. Linked = [x \in DOMAIN Linked |-> Linked[x]]
  BY DEF Linked
<1>8. CASE UNCHANGED vars
  BY <1>3, <1>4, <1>5, <1>8 DEF IInv, vars
<1>9. CASE mmk_stub_create
  <2> DEFINE s == Result.slots
             w == Write(s)
  <2>1. pc = "new" /\ got = Linked
    BY <1>9 DEF mmk_stub_create, IInv
  <2>2. /\ off' = s /\ room' = Result.room /\ got' = w.got /\ old' = w.old
        /\ pc' = IF Scope.sel = "panic" THEN "panicked"
                 ELSE IF s = << >> THEN "failed" ELSE "live"
    BY <1>9 DEF mmk_stub_create, Result, Scope, Nothing
  <2>3. w = SaveAndWrite(Linked, s, Trampoline)
    BY <1>1, <2>1, MapIs, SameWrites DEF Write
  <2> HIDE DEF s, w
  <2>4. w = [got |-> WriteTo(Linked, s, Len(s), Trampoline),
             old |-> [i \in 1..Len(s) |-> Linked[s[i]]]]
    <3> DEFINE lin == Linked
    <3>1. Len(s) \in Nat /\ Distinct(s) /\ Slot(s) \subseteq DOMAIN lin
      BY <1>6 DEF Fit, s
    <3>2. lin = [x \in DOMAIN lin |-> lin[x]] /\ w = SaveAndWrite(lin, s, Trampoline)
      BY <1>7, <2>3
    <3> HIDE DEF lin
    <3>3. w = [got |-> WriteTo(lin, s, Len(s), Trampoline),
               old |-> [i \in 1..Len(s) |-> lin[s[i]]]]
      BY <3>1, <3>2, Saves
    <3> QED BY <3>3 DEF lin
  <2>5. /\ got' = WriteTo(Linked, s, Len(s), Trampoline)
        /\ old' = [i \in 1..Len(s) |-> Linked[s[i]]]
    BY <2>2, <2>4
  <2>6. s = << >> => got' = Linked
    <3>1. WriteTo(Linked, << >>, Len(<< >>), Trampoline) = Linked
      BY <1>7 DEF WriteTo
    <3> QED BY <2>5, <3>1
  <2>7. Scope.sel = "panic" => s = << >>
    BY DEF s, Result, Nothing
  <2> QED BY <1>1, <1>2, <1>3, <1>4, <1>5, <2>2, <2>5, <2>6, <2>7 DEF IInv, s
<1>10. CASE mmk_stub_destroy
  <2> DEFINE lin == Linked
  <2>1. /\ pc = "live" /\ pc' = "gone" /\ off' = off /\ room' = room /\ old' = old
        /\ off = Result.slots /\ room = Result.room /\ Scope.sel # "panic"
        /\ got = WriteTo(lin, off, Len(off), Trampoline)
        /\ old = [i \in 1..Len(off) |-> lin[off[i]]]
    BY <1>10 DEF mmk_stub_destroy, IInv
  <2>2. got' = WriteBack(got, off, old)
    BY <1>1, <1>10, MapIs, SameWrites DEF mmk_stub_destroy
  <2>3. got = [x \in DOMAIN got |-> got[x]] /\ DOMAIN got = DOMAIN lin
    BY <2>1 DEF WriteTo
  <2>4. Len(off) \in Nat /\ Slot(off) \subseteq DOMAIN got
    BY <1>6, <2>1, <2>3 DEF Fit
  <2>5. \A i \in 1..Len(off) : old[i] = lin[off[i]]
    BY <2>1
  <2> HIDE DEF lin
  <2>6. got' = PutBack(got, lin, off, Len(off))
    BY <2>2, <2>3, <2>4, <2>5, Restores
  <2>7. \A x \in DOMAIN got : PutBack(got, lin, off, Len(off))[x] = lin[x]
    BY <2>1, <2>3 DEF PutBack, WriteTo
  <2>8. got' = lin
    <3>1. lin = [x \in DOMAIN lin |-> lin[x]]
      BY <1>7 DEF lin
    <3>2. PutBack(got, lin, off, Len(off)) = [x \in DOMAIN got |-> PutBack(got, lin, off, Len(off))[x]]
      BY DEF PutBack
    <3> QED BY <2>3, <2>6, <2>7, <3>1, <3>2
  <2> QED BY <1>1, <1>2, <1>3, <1>4, <1>5, <2>1, <2>8 DEF IInv, lin
<1> QED BY <1>8, <1>9, <1>10 DEF Next

LEMMA Invariant == Spec => []IInv
BY Initial, Steps, PTL DEF Spec

-----------------------------------------------------------------------------
(* Only one object is meant.                                               *)
LEMMA OneTaken ==
    ASSUME prog \in Program, NEW i \in DOMAIN prog.map, NEW j \in DOMAIN prog.map,
           Taken(i), Taken(j)
    PROVE  i = j
<1>1. i \in Nat /\ j \in Nat /\ i >= 1 /\ j >= 1
  BY MapIs
<1>2. ~(j \in 1..i - 1) /\ ~(i \in 1..j - 1)
  BY DEF Taken
<1> QED BY <1>1, <1>2

(* What a stub that has stored its offsets stands for.                     *)
LEMMA Stored ==
    ASSUME IInv, pc # "new"
    PROVE  /\ prog \in Program /\ target \in Target /\ Fit(off)
           /\ \/ off = << >> /\ room = 0 /\ \A i \in DOMAIN prog.map : ~Taken(i)
              \/ \E i \in DOMAIN prog.map :
                    /\ Taken(i) /\ Serves(off, i, target.sym) /\ off \in Seq(SlotsOf(i, target.sym))
                    /\ Roomy(Result, i)
<1>1. prog \in Program /\ target \in Target /\ off = Result.slots /\ room = Result.room
  BY DEF IInv
<1>2. ResultOK(Result)
  BY <1>1, Results
<1>3. CASE Result = Nothing /\ \A i \in DOMAIN prog.map : ~Takes(i)
  <2>1. off = << >> /\ room = 0
    BY <1>1, <1>3 DEF Nothing
  <2> QED BY <1>1, <1>3, <2>1, ResultFits DEF Taken
<1>4. CASE \E i \in DOMAIN prog.map : Taken(i) /\ Serves(Result.slots, i, target.sym) /\ Roomy(Result, i)
  BY <1>1, <1>4, ServesFit
<1> QED BY <1>2, <1>3, <1>4 DEF ResultOK

(* The values of the slots of a live stub.                                 *)
LEMMA Live ==
    ASSUME IInv, pc = "live"
    PROVE  /\ DOMAIN got = DOMAIN Linked
           /\ \A x \in DOMAIN got : got[x] = IF x \in Slot(off) THEN Trampoline ELSE x
<1>1. got = WriteTo(Linked, off, Len(off), Trampoline) /\ prog \in Program
  BY DEF IInv
<1>2. \A x \in DOMAIN Linked : Linked[x] = x
  BY <1>1, SlotsNonzero
<1> QED BY <1>1, <1>2 DEF WriteTo, Slot

(* For every program and every target string, a live stub has replaced     *)
(* slots of its symbol in the object its scope means and nothing else.     *)
THEOREM TargetOnly == Spec => []PatchesTheTargetOnly
<1>1. ASSUME IInv PROVE PatchesTheTargetOnly
  <2> SUFFICES ASSUME ReferrerDefines, pc = "live", NEW x \in DOMAIN got, got[x] # x
               PROVE  /\ got[x] = Trampoline
                      /\ \E i \in DOMAIN prog.map : Meant(i) /\ x \in SlotsOf(i, target.sym)
    BY DEF PatchesTheTargetOnly, TargetPatched
  <2>1. x \in Slot(off) /\ got[x] = Trampoline
    BY <1>1, Live
  <2>2. off # << >>
    BY <1>1 DEF IInv
  <2>3. PICK i \in DOMAIN prog.map : Taken(i) /\ off \in Seq(SlotsOf(i, target.sym))
    BY <1>1, <2>2, Stored
  <2>4. x \in SlotsOf(i, target.sym)
    <3> DEFINE S == SlotsOf(i, target.sym)
    <3> HIDE DEF S
    <3>1. off \in Seq(S)
      BY <2>3 DEF S
    <3>2. PICK k \in 1..Len(off) : off[k] = x
      BY <2>1 DEF Slot
    <3>3. x \in S
      BY <3>1, <3>2
    <3> QED BY <3>3 DEF S
  <2>5. Meant(i)
    BY <2>3, TakenIsMeant
  <2> QED BY <2>1, <2>4, <2>5
<1> QED BY Invariant, <1>1, PTL

(* For every program and every target string, a live stub has a slot of    *)
(* each table of the object it means that has one for its symbol.          *)
THEOREM BothTables == Spec => []CoversBothTables
<1>1. ASSUME IInv PROVE CoversBothTables
  <2> SUFFICES ASSUME ReferrerDefines, pc = "live",
                      NEW i \in DOMAIN prog.map, Meant(i), NEW tab \in 1..3,
                      SlotsFor(i, tab, target.sym) # {}
               PROVE  SlotsFor(i, tab, target.sym) \intersect Patched # {}
    BY DEF CoversBothTables
  <2>1. off # << >> /\ prog \in Program
    BY <1>1 DEF IInv
  <2>2. Serves(off, i, target.sym) /\ Fit(off)
    <3>1. PICK j \in DOMAIN prog.map : Taken(j) /\ Serves(off, j, target.sym)
      BY <1>1, <2>1, Stored
    <3>2. j = i
      BY <2>1, <3>1, OneTaken, TakenIsMeant
    <3> QED BY <1>1, <3>1, <3>2, Stored
  <2>3. CoversAll(off, SlotsFor(i, 1, target.sym), SlotsFor(i, 2, target.sym), SlotsFor(i, 3, target.sym))
    BY <2>1, <2>2 DEF Serves
  <2>4. PICK k \in 1..Len(off) : off[k] \in SlotsFor(i, tab, target.sym)
    <3>1. tab = 1 \/ tab = 2 \/ tab = 3
      OBVIOUS
    <3> QED BY <2>3, <3>1 DEF CoversAll
  <2>5. off[k] \in Slot(off) /\ off[k] \in DOMAIN got
    <3>1. off[k] \in Slot(off) /\ Slot(off) \subseteq DOMAIN Linked
      BY <2>2 DEF Slot, Fit
    <3> QED BY <1>1, <3>1, Live
  <2>6. off[k] \in Patched
    BY <1>1, <2>5, Live DEF Patched
  <2> QED BY <2>4, <2>6
<1> QED BY Invariant, <1>1, PTL

(* For every program and every target string, a refusal has its reason,    *)
(* only a string that means nothing panics, and neither leaves a trace.    *)
THEOREM Refusals == Spec => []RefusedForAReason
<1>1. ASSUME IInv PROVE RefusedForAReason
  <2>1. ASSUME pc = "failed"
        PROVE  /\ \A i \in DOMAIN prog.map :
                     ReferrerDefines /\ Meant(i) => Opaque(i) \/ SlotsOf(i, target.sym) = {}
               /\ got = Linked
    <3>1. off = << >> /\ got = Linked /\ prog \in Program
      BY <1>1, <2>1 DEF IInv
    <3>2. ASSUME NEW i \in DOMAIN prog.map, ReferrerDefines, Meant(i)
          PROVE  Opaque(i) \/ SlotsOf(i, target.sym) = {}
      <4>0. Taken(i)
        BY <3>2, TakenIsMeant
      <4>1. PICK j \in DOMAIN prog.map : Taken(j) /\ Serves(off, j, target.sym)
        BY <1>1, <2>1, <4>0, Stored
      <4>2. j = i
        BY <3>1, <4>0, <4>1, OneTaken
      <4> QED BY <3>1, <4>1, <4>2, ServesEmpty
    <3> QED BY <3>1, <3>2
  <2>2. ASSUME pc # "new"
        PROVE  pc = "panicked" <=> target.kind = "wrong"
    BY <1>1, <2>2, ScopeIs DEF IInv
  <2>3. pc = "panicked" => got = Linked
    BY <1>1 DEF IInv
  <2> QED BY <2>1, <2>2, <2>3 DEF RefusedForAReason
<1> QED BY Invariant, <1>1, PTL

(* For every program and every target string, destroying the stub makes    *)
(* the GOT what it was before the stub.                                    *)
THEOREM ThereAndBack == Spec => []RoundTrip
<1>1. IInv => RoundTrip
  BY DEF IInv, RoundTrip
<1> QED BY Invariant, <1>1, PTL

(* The slots of a list without repetitions are no more than the set they   *)
(* are taken from has.                                                     *)
LEMMA NoMore ==
    ASSUME NEW S, IsFiniteSet(S), NEW s \in Seq(S), Distinct(s)
    PROVE  Len(s) \in Nat /\ Cardinality(S) \in Nat /\ Len(s) <= Cardinality(S)
<1> DEFINE n == Len(s)
           D == 1..n
<1>1. n \in Nat /\ s \in [D -> S]
  OBVIOUS
<1>2. s \in Injection(D, S)
  BY <1>1 DEF Injection, IsInjective, Distinct
<1>3. IsFiniteSet(D) /\ Cardinality(D) = n
  <2>1. n \in Int /\ 1 \in Int /\ (IF 1 > n THEN 0 ELSE n - 1 + 1) = n
    BY <1>1
  <2> HIDE DEF n
  <2> QED BY <2>1, FS_Interval
<1> HIDE DEF D
<1>4. Cardinality(D) <= Cardinality(S)
  BY <1>2, FS_Injection
<1> QED BY <1>1, <1>3, <1>4, FS_CardinalityType

LEMMA FiniteSlots ==
    ASSUME prog \in Program, prog.fmt = "MachO", NEW i \in DOMAIN prog.map, NEW sym
    PROVE  IsFiniteSet(SlotsOf(i, sym))
<1>1. ASSUME NEW tab \in 1..3 PROVE IsFiniteSet(SlotsFor(i, tab, sym))
  <2> DEFINE s == prog.map[i].sections[tab]
             D == 1..Len(s.slots)
             R == {s.slots[k] : k \in D}
             f == [k \in D |-> s.slots[k]]
  <2>1. Len(s.slots) \in Nat /\ DOMAIN s.slots = D
    BY Tables, ListIs DEF ObjectOK
  <2>2. IsFiniteSet(D)
    <3> DEFINE n == Len(s.slots)
    <3>1. n \in Int /\ 1 \in Int
      BY <2>1
    <3> HIDE DEF n
    <3>2. IsFiniteSet(1..n)
      BY <3>1, FS_Interval
    <3> QED BY <3>2 DEF n
  <2>3. SlotsFor(i, tab, sym) \subseteq R
    <3>1. SlotsFor(i, tab, sym) = Pointers(prog.map[i], s, sym)
      BY MachOPlaces
    <3> HIDE DEF s
    <3> QED BY <2>1, <3>1 DEF Pointers
  <2>4. f \in Surjection(D, R)
    BY DEF Surjection
  <2> HIDE DEF D, R, f
  <2>5. IsFiniteSet(R)
    BY <2>2, <2>4, FS_Surjection
  <2> QED BY <2>3, <2>5, FS_Subset
<1> DEFINE A == SlotsFor(i, 1, sym)
           B == SlotsFor(i, 2, sym)
           C == SlotsFor(i, 3, sym)
<1>2. 1 \in 1..3 /\ 2 \in 1..3 /\ 3 \in 1..3
  OBVIOUS
<1>3. IsFiniteSet(A) /\ IsFiniteSet(B) /\ IsFiniteSet(C)
  BY <1>1, <1>2
<1>4. SlotsOf(i, sym) = A \union B \union C
  BY Tables
<1> HIDE DEF A, B, C
<1> QED BY <1>3, <1>4, FS_Union

(* For every program and every target string, the offsets fit the array,   *)
(* in a Mach-O image when it calls the symbol through a stub.              *)
THEOREM Fits == Spec => []OffsetsFit
<1>1. ASSUME IInv PROVE OffsetsFit
  <2> DEFINE sym == target.sym
  <2> SUFFICES ASSUME ReferrerDefines,
                      prog.fmt = "MachO" =>
                          \A i \in DOMAIN prog.map : Meant(i) => HasCallStub(i, sym)
               PROVE  Len(off) <= room
    BY DEF OffsetsFit
  <2>1. CASE off = << >> /\ room = 0
    BY <2>1
  <2>2. CASE ~(off = << >> /\ room = 0)
    <3>1. pc # "new"
      BY <1>1, <2>2 DEF IInv
    <3>2. PICK i \in DOMAIN prog.map :
             Taken(i) /\ Serves(off, i, sym) /\ off \in Seq(SlotsOf(i, sym)) /\ Roomy(Result, i)
      BY <1>1, <2>2, <3>1, Stored
    <3>3. /\ prog \in Program /\ target \in Target /\ Fit(off)
          /\ off = Result.slots /\ room = Result.room
      BY <1>1, <3>1, Stored DEF IInv
    <3>4. CASE prog.fmt # "MachO"
      <4>1. room = Len(off) /\ Len(off) \in Nat
        BY <3>2, <3>3, <3>4 DEF Roomy, Fit
      <4> QED BY <4>1
    <3>5. CASE prog.fmt = "MachO"
      <4> DEFINE o == prog.map[i]
                 q == M!get_indices(o, sym)
                 All == {k \in DOMAIN o.isyms : o.isyms[k] = sym}
                 S == SlotsOf(i, sym)
      <4>1. Cardinality(All) > Cardinality(S)
        BY <3>2, <3>5, TakenIsMeant DEF HasCallStub
      <4>2. Lists(q, All)
        <5>1. Lists(q, Hits(o, sym, Len(o.isyms)))
          BY <3>3, <3>5, MachOIndices
        <5>2. DOMAIN o.isyms = 1..Len(o.isyms) /\ sym # M!Local
          BY <3>3, <3>5, Tables, ListIs, ScopeIs DEF ObjectOK
        <5>3. All = Hits(o, sym, Len(o.isyms))
          BY <5>2 DEF Hits
        <5> QED BY <5>1, <5>3
      <4>3. Len(q) = Cardinality(All) /\ Len(q) \in Nat /\ (q = << >> => Len(q) = 0)
        <5> HIDE DEF q, All
        <5>1. q \in Seq(All) /\ Len(q) = Cardinality(All)
          BY <4>2 DEF Lists
        <5> QED BY <5>1
      <4>4. Len(off) \in Nat /\ Cardinality(S) \in Nat /\ Len(off) <= Cardinality(S)
        <5>1. IsFiniteSet(S) /\ off \in Seq(S) /\ Distinct(off)
          BY <3>2, <3>3, <3>5, FiniteSlots DEF Fit
        <5> HIDE DEF S
        <5> QED BY <5>1, NoMore
      <4>5. q # << >>
        <5> HIDE DEF q, All, S
        <5> QED BY <4>1, <4>3, <4>4
      <4>6. room = Len(q) - 1
        <5>1. Result = M!plt_get_offsets(o, sym)
          BY <3>2, <3>5 DEF Roomy
        <5>2. Result.room = Len(q) - 1
          BY <4>5, <5>1 DEF M!plt_get_offsets
        <5> QED BY <3>3, <5>2
      <4> HIDE DEF q, All, S
      <4> QED BY <4>1, <4>3, <4>4, <4>6
    <3> QED BY <3>4, <3>5
  <2> QED BY <2>1, <2>2
<1> QED BY Invariant, <1>1, PTL
=============================================================================
