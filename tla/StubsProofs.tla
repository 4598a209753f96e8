----------------------------- MODULE StubsProofs -----------------------------
(***************************************************************************)
(* Safety of module Stubs for every set of slots, symbols, scopes and      *)
(* stubs, for a client that destroys what is in force and for target       *)
(* strings whose scope never resolves to slots of the main executable; and *)
(* under the same hypotheses that saving and restoring pointers implements *)
(* stacks of interceptors.                                                 *)
(***************************************************************************)
EXTENDS StubsRefine, SetLemmas, TLAPS

(* No scope but `self' finds the main executable's slots of a symbol. *)
ScopesApart ==
    \A scope \in Scope \ {SelfScope}, sym \in Symbol :
        SlotsOf[scope, sym] \intersect SlotsOf[SelfScope, sym] = {}

(***************************************************************************)
(* The values saved for one slot x form one chain: g is what the slot      *)
(* holds, own the stubs that cover it and o what each of them saved.       *)
(***************************************************************************)
Chain(x, g, own, o) ==
    /\ g \in Orig(x) \union own
    /\ own # {} => g \in own
    /\ \A s \in own : o[s] \in Orig(x) \union own /\ o[s] # g
    /\ \A s, t \in own : o[s] = o[t] => s = t
    /\ \A s, t \in own : o[s] \in Orig(x) /\ o[t] \in Orig(x) => s = t
    /\ \A P \in SUBSET own : P # {} => \E s \in P : o[s] \notin P

(* The same for every slot, in terms of a table g and the saved values o. *)
OwnIn(o, x)   == {s \in StubId : x \in DOMAIN o[s]}
SavesIn(o, x) == [s \in OwnIn(o, x) |-> o[s][x]]
Store(g, o)   == /\ g \in [Slot -> Addr]
                 /\ o \in [StubId -> UNION {[S -> Addr] : S \in SUBSET Slot}]
                 /\ \A x \in Slot : Chain(x, g[x], OwnIn(o, x), SavesIn(o, x))

(* Every live stub belongs to exactly one handle, and the two stubs of a   *)
(* mock have no slot in common.                                            *)
Lists ==
    /\ held \intersect mocks = {}
    /\ Heads \subseteq Live
    /\ \A s \in StubId : next[s] # NULL =>
          /\ s \in mocks
          /\ next[s] \in Live \ Heads
          /\ DOMAIN old[s] \intersect DOMAIN old[next[s]] = {}
    /\ \A s, t \in StubId : next[s] = next[t] /\ next[s] # NULL => s = t
    /\ \A s \in Live : s \in Heads \/ \E h \in mocks : next[h] = s

IInv == TypeOK /\ Lists /\ Store(got, old)

-----------------------------------------------------------------------------
(* A stub that covers no slot of the chain yet may be put on top of it. *)
LEMMA ChainPush ==
    ASSUME NEW x \in Slot, NEW g, NEW own \in SUBSET StubId, NEW o,
           NEW p, NEW s \in StubId \ own,
           Chain(x, g, own, o),
           p = [t \in own \union {s} |-> IF t = s THEN g ELSE o[t]]
    PROVE  Chain(x, s, own \union {s}, p)
<1> DEFINE new == own \union {s}
<1>0. /\ p[s] = g
      /\ \A t \in own : t # s /\ p[t] = o[t]
  OBVIOUS
<1>1. Orig(x) \intersect StubId = {}
  BY AddressAssumption DEF Orig
<1>2. s \in Orig(x) \union new /\ (new # {} => s \in new)
  OBVIOUS
<1>3. \A t \in new : p[t] \in Orig(x) \union new /\ p[t] # s
  BY <1>0, <1>1 DEF Chain
<1>4. \A t, u \in new : p[t] = p[u] => t = u
  <2> SUFFICES ASSUME NEW t \in own, p[t] = p[s] PROVE FALSE
    BY <1>0 DEF Chain
  <2> QED BY <1>0 DEF Chain
<1>5. \A t, u \in new : p[t] \in Orig(x) /\ p[u] \in Orig(x) => t = u
  <2> SUFFICES ASSUME NEW t \in own, p[s] \in Orig(x) PROVE FALSE
    BY <1>0 DEF Chain
  <2> QED BY <1>0, <1>1 DEF Chain
<1>6. ASSUME NEW P \in SUBSET new, P # {}
      PROVE  \E t \in P : p[t] \notin P
  <2>1. CASE P = {s}
    BY <2>1, <1>0, <1>1 DEF Chain
  <2>2. CASE P # {s}
    <3>1. P \ {s} \in SUBSET own /\ P \ {s} # {}
      BY <1>6, <2>2
    <3>2. PICK t \in P \ {s} : o[t] \notin P \ {s}
      BY <3>1 DEF Chain
    <3>3. t \in own /\ p[t] = o[t] /\ o[t] # s
      BY <3>1, <1>0, <1>1 DEF Chain
    <3> QED BY <3>2, <3>3
  <2> QED BY <2>1, <2>2
<1> QED BY <1>2, <1>3, <1>4, <1>5, <1>6 DEF Chain

(* Taking the top stub off a chain leaves what that stub had saved. *)
LEMMA ChainPop ==
    ASSUME NEW x \in Slot, NEW own \in SUBSET StubId, NEW o,
           NEW p, NEW s \in own,
           Chain(x, s, own, o),
           p = [t \in own \ {s} |-> o[t]]
    PROVE  Chain(x, o[s], own \ {s}, p)
<1> DEFINE rest == own \ {s}
<1>0. \A t \in rest : p[t] = o[t]
  OBVIOUS
<1>1. Orig(x) \intersect StubId = {}
  BY AddressAssumption DEF Orig
<1>2. o[s] \in Orig(x) \union rest
  BY DEF Chain
<1>3. rest # {} => o[s] \in rest
  <2> SUFFICES ASSUME rest # {}, o[s] \in Orig(x) PROVE FALSE
    BY <1>2
  <2>1. rest \in SUBSET own
    OBVIOUS
  <2>2. PICK t \in rest : o[t] \notin rest
    BY <2>1 DEF Chain
  <2>3. o[t] \in Orig(x)
    BY <2>2 DEF Chain
  <2> QED BY <2>3 DEF Chain
<1>4. \A t \in rest : p[t] \in Orig(x) \union rest /\ p[t] # o[s]
  BY <1>0 DEF Chain
<1>5. /\ \A t, u \in rest : p[t] = p[u] => t = u
      /\ \A t, u \in rest : p[t] \in Orig(x) /\ p[u] \in Orig(x) => t = u
  BY <1>0 DEF Chain
<1>6. ASSUME NEW P \in SUBSET rest, P # {}
      PROVE  \E t \in P : p[t] \notin P
  BY <1>6, <1>0 DEF Chain
<1> QED BY <1>2, <1>3, <1>4, <1>5, <1>6 DEF Chain

(* Patching all the slots of a stub that has none yet. *)
LEMMA StorePush ==
    ASSUME NEW g, NEW o, Store(g, o),
           NEW s \in StubId, DOMAIN o[s] = {},
           NEW S \in SUBSET Slot
    PROVE  Store(Armed(g, S, s), [o EXCEPT ![s] = Saved(g, S)])
<1> DEFINE g2 == Armed(g, S, s)
           o2 == [o EXCEPT ![s] = Saved(g, S)]
<1>1. g2 \in [Slot -> Addr]
  BY DEF Store, Armed, Addr
<1>2. /\ o2 \in [StubId -> UNION {[R -> Addr] : R \in SUBSET Slot}]
      /\ o2[s] = Saved(g, S)
      /\ \A t \in StubId \ {s} : o2[t] = o[t]
  BY DEF Store, Saved
<1>3. ASSUME NEW x \in Slot
      PROVE  Chain(x, g2[x], OwnIn(o2, x), SavesIn(o2, x))
  <2>1. Chain(x, g[x], OwnIn(o, x), SavesIn(o, x))
    BY DEF Store
  <2>2. CASE x \in S
    <3>1. /\ g2[x] = s
          /\ s \in StubId \ OwnIn(o, x)
          /\ OwnIn(o, x) \in SUBSET StubId
      BY <2>2 DEF Armed, OwnIn
    <3>2. OwnIn(o2, x) = OwnIn(o, x) \union {s}
      BY <2>2, <1>2 DEF OwnIn, Saved
    <3>3. SavesIn(o2, x) = [t \in OwnIn(o, x) \union {s} |->
                              IF t = s THEN g[x] ELSE SavesIn(o, x)[t]]
      BY <2>2, <3>1, <3>2, <1>2 DEF SavesIn, OwnIn, Saved
    <3>4. Chain(x, s, OwnIn(o, x) \union {s}, SavesIn(o2, x))
      BY <2>1, <3>1, <3>3, ChainPush
    <3> QED BY <3>1, <3>2, <3>4
  <2>3. CASE x \notin S
    <3>1. g2[x] = g[x]
      BY <2>3 DEF Armed
    <3>2. OwnIn(o2, x) = OwnIn(o, x)
      BY <2>3, <1>2 DEF OwnIn, Saved
    <3>3. SavesIn(o2, x) = SavesIn(o, x)
      <4>1. \A t \in OwnIn(o, x) : o2[t] = o[t]
        BY <1>2 DEF OwnIn
      <4> HIDE DEF o2
      <4> QED BY <3>2, <4>1, Zenon DEF SavesIn
    <3> QED BY <2>1, <3>1, <3>2, <3>3
  <2> QED BY <2>2, <2>3
<1> QED BY <1>1, <1>2, <1>3 DEF Store

(* Restoring all the slots of a stub that is in force on every one of them. *)
LEMMA StorePop ==
    ASSUME NEW g, NEW o, Store(g, o),
           NEW s \in StubId, \A x \in DOMAIN o[s] : g[x] = s
    PROVE  Store(Disarmed(g, o[s]), [o EXCEPT ![s] = NoSlots])
<1> DEFINE g2 == Disarmed(g, o[s])
           o2 == [o EXCEPT ![s] = NoSlots]
<1>1. /\ DOMAIN o[s] \in SUBSET Slot
      /\ \A x \in DOMAIN o[s] : o[s][x] \in Addr
  <2>1. PICK S \in SUBSET Slot : o[s] \in [S -> Addr]
    BY DEF Store
  <2> QED BY <2>1
<1>2. g2 \in [Slot -> Addr]
  BY <1>1 DEF Store, Disarmed
<1>3. NoSlots \in [{} -> Addr] /\ DOMAIN NoSlots = {}
  BY DEF NoSlots
<1>4. /\ o2 \in [StubId -> UNION {[R -> Addr] : R \in SUBSET Slot}]
      /\ o2[s] = NoSlots
      /\ \A t \in StubId \ {s} : o2[t] = o[t]
  BY <1>3 DEF Store
<1>5. ASSUME NEW x \in Slot
      PROVE  Chain(x, g2[x], OwnIn(o2, x), SavesIn(o2, x))
  <2>1. Chain(x, g[x], OwnIn(o, x), SavesIn(o, x))
    BY DEF Store
  <2>2. OwnIn(o2, x) = OwnIn(o, x) \ {s}
    BY <1>3, <1>4 DEF OwnIn
  <2>3. SavesIn(o2, x) = [t \in OwnIn(o, x) \ {s} |-> SavesIn(o, x)[t]]
    BY <2>2, <1>4 DEF SavesIn, OwnIn
  <2>4. CASE x \in DOMAIN o[s]
    <3>1. s \in OwnIn(o, x) /\ OwnIn(o, x) \in SUBSET StubId /\ g[x] = s
      BY <2>4 DEF OwnIn
    <3>2. g2[x] = SavesIn(o, x)[s]
      BY <2>4, <3>1 DEF Disarmed, SavesIn
    <3>3. Chain(x, s, OwnIn(o, x), SavesIn(o, x))
      BY <2>1, <3>1
    <3>4. Chain(x, SavesIn(o, x)[s], OwnIn(o, x) \ {s}, SavesIn(o2, x))
      BY <2>3, <3>1, <3>3, ChainPop
    <3> QED BY <2>2, <3>2, <3>4
  <2>5. CASE x \notin DOMAIN o[s]
    <3>1. g2[x] = g[x] /\ s \notin OwnIn(o, x)
      BY <2>5 DEF Disarmed, OwnIn
    <3>2. OwnIn(o2, x) = OwnIn(o, x)
      BY <2>2, <3>1
    <3>3. SavesIn(o2, x) = SavesIn(o, x)
      BY <2>3, <3>1 DEF SavesIn
    <3> QED BY <2>1, <3>1, <3>2, <3>3
  <2> QED BY <2>4, <2>5
<1> QED BY <1>2, <1>4, <1>5 DEF Store

(* Binding a slot that no stub covers. *)
LEMMA StoreBind ==
    ASSUME NEW g, NEW o, Store(g, o), NEW y \in Slot, g[y] = Lazy[y]
    PROVE  Store([g EXCEPT ![y] = Real[y]], o)
<1> DEFINE g2 == [g EXCEPT ![y] = Real[y]]
<1>1. g2 \in [Slot -> Addr]
  BY DEF Store, Addr, Orig
<1>2. OwnIn(o, y) = {}
  <2>1. g[y] \notin StubId
    BY AddressAssumption
  <2> QED BY <2>1 DEF Store, Chain, OwnIn
<1>3. Chain(y, Real[y], OwnIn(o, y), SavesIn(o, y))
  BY <1>2 DEF Chain, Orig
<1>4. \A x \in Slot : g2[x] = IF x = y THEN Real[y] ELSE g[x]
  BY DEF Store
<1> QED BY <1>1, <1>3, <1>4 DEF Store

-----------------------------------------------------------------------------
LEMMA InitIInv == Init => IInv
<1> SUFFICES ASSUME Init PROVE IInv
  OBVIOUS
<1>1. /\ NoSlots \in [{} -> Addr]
      /\ DOMAIN NoSlots = {}
      /\ \A s \in StubId : old[s] = NoSlots
  BY DEF Init, NoSlots
<1>2. TypeOK
  BY <1>1 DEF Init, TypeOK
<1>3. Live = {} /\ \A x \in Slot : OwnIn(old, x) = {}
  BY <1>1 DEF Live, OwnIn
<1>4. Lists
  BY <1>3 DEF Init, Lists, Heads
<1>5. Store(got, old)
  BY <1>2, <1>3 DEF Init, Store, TypeOK, Chain
<1> QED BY <1>2, <1>4, <1>5 DEF IInv

(* Both ways of making a handle with one stub. *)
LEMMA CreateOneIInv ==
    ASSUME IInv,
           NEW s \in StubId \ Live, NEW S \in SUBSET Slot, S # {},
           got'  = Armed(got, S, s),
           old'  = [old EXCEPT ![s] = Saved(got, S)],
           next' = [next EXCEPT ![s] = NULL],
           \/ held' = held \union {s} /\ mocks' = mocks
           \/ mocks' = mocks \union {s} /\ held' = held
    PROVE  IInv'
<1>1. Store(got', old')
  <2>1. DOMAIN old[s] = {}
    BY DEF Live
  <2> QED BY <2>1, StorePush DEF IInv
<1>2. TypeOK'
  BY <1>1 DEF IInv, TypeOK, Store
<1>3. /\ \A t \in StubId \ {s} : old'[t] = old[t]
      /\ old'[s] = Saved(got, S)
      /\ DOMAIN Saved(got, S) = S
  BY DEF IInv, TypeOK, Saved
<1>4. Live' = Live \union {s}
  BY <1>3 DEF Live
<1>5. /\ \A t \in StubId \ {s} : next'[t] = next[t]
      /\ next'[s] = NULL
  BY DEF IInv, TypeOK
<1>6. /\ s \notin Heads
      /\ \A t \in StubId : next[t] # s
      /\ Heads' = Heads \union {s}
  BY AddressAssumption DEF IInv, Lists, Heads
<1>7. /\ held' \intersect mocks' = {}
      /\ Heads' \subseteq Live'
  BY <1>4, <1>6 DEF IInv, Lists, Heads
<1>8. ASSUME NEW t \in StubId, next'[t] # NULL
      PROVE  /\ t \in mocks'
             /\ next'[t] \in Live' \ Heads'
             /\ DOMAIN old'[t] \intersect DOMAIN old'[next'[t]] = {}
  <2>1. t # s /\ next'[t] = next[t] /\ next[t] # NULL
    BY <1>5, <1>8
  <2>2. next[t] \in Live \ Heads /\ next[t] \in StubId \ {s}
    BY <2>1, <1>6 DEF IInv, Lists, TypeOK
  <2> QED BY <2>1, <2>2, <1>3, <1>4, <1>6 DEF IInv, Lists
<1>9. \A t, u \in StubId : next'[t] = next'[u] /\ next'[t] # NULL => t = u
  BY <1>5 DEF IInv, Lists
<1>10. \A t \in Live' : t \in Heads' \/ \E h \in mocks' : next'[h] = t
  <2>1. \A h \in mocks : h \in StubId \ {s}
    BY <1>6 DEF IInv, TypeOK, Heads
  <2> QED BY <2>1, <1>4, <1>5, <1>6 DEF IInv, Lists
<1>11. Lists'
  BY <1>7, <1>8, <1>9, <1>10 DEF Lists
<1> QED BY <1>1, <1>2, <1>11 DEF IInv

(* A mock with a second stub, on slots that are not those of the first. *)
LEMMA CreateTwoIInv ==
    ASSUME IInv, ScopesApart,
           NEW scope \in Scope, NEW sym \in Symbol,
           NEW s \in StubId, NEW t \in StubId,
           CreateMockTwo(scope, sym, s, t)
    PROVE  IInv'
<1> DEFINE S  == SlotsOf[scope, sym]
           T  == SlotsOf[SelfScope, sym]
           g  == Armed(got, S, s)
           o1 == [old EXCEPT ![s] = Saved(got, S)]
<1>1. /\ S \in SUBSET Slot /\ S # {}
      /\ T \in SUBSET Slot /\ T # {}
      /\ S \intersect T = {}
      /\ s # t /\ s \notin Live /\ t \notin Live
  BY ScopeAssumption DEF ScopesApart, CreateMockTwo
<1>2. old' = [o1 EXCEPT ![t] = Saved(g, T)] /\ got' = Armed(g, T, t)
  BY DEF CreateMockTwo
<1>3. /\ DOMAIN old[s] = {} /\ DOMAIN old[t] = {} /\ o1[t] = old[t]
  BY <1>1 DEF Live, IInv, TypeOK
<1>4. Store(g, o1)
  BY <1>1, <1>3, StorePush DEF IInv
<1>5. Store(got', old')
  <2> HIDE DEF S, T, g, o1
  <2> QED BY <1>1, <1>2, <1>3, <1>4, StorePush
<1>6. /\ next' = [next EXCEPT ![s] = t, ![t] = NULL]
      /\ mocks' = mocks \union {s}
      /\ held' = held
  BY DEF CreateMockTwo
<1>7. TypeOK'
  BY <1>5, <1>6 DEF IInv, TypeOK, Store
<1>8. /\ \A u \in StubId \ {s, t} : old'[u] = old[u]
      /\ DOMAIN old'[s] = S
      /\ DOMAIN old'[t] = T
  BY <1>1, <1>2 DEF IInv, TypeOK, Saved
<1> HIDE DEF S, T, g, o1
<1>9. Live' = Live \union {s, t}
  BY <1>1, <1>8 DEF Live
<1>10. /\ \A u \in StubId \ {s, t} : next'[u] = next[u]
       /\ next'[s] = t
       /\ next'[t] = NULL
  BY <1>1, <1>6 DEF IInv, TypeOK
<1>11. /\ s \notin Heads /\ t \notin Heads
       /\ \A u \in StubId : next[u] # s /\ next[u] # t
       /\ Heads' = Heads \union {s}
  BY <1>1, <1>6, AddressAssumption DEF IInv, Lists, Heads
<1>12. /\ held' \intersect mocks' = {}
       /\ Heads' \subseteq Live'
  BY <1>6, <1>9, <1>11 DEF IInv, Lists, Heads
<1>13. ASSUME NEW u \in StubId, next'[u] # NULL
       PROVE  /\ u \in mocks'
              /\ next'[u] \in Live' \ Heads'
              /\ DOMAIN old'[u] \intersect DOMAIN old'[next'[u]] = {}
  <2>1. CASE u = s
    <3>1. s \in mocks' /\ next'[s] = t /\ t \in Live' \ Heads'
      BY <1>1, <1>6, <1>9, <1>10, <1>11
    <3>2. DOMAIN old'[s] \intersect DOMAIN old'[t] = {}
      BY <1>1, <1>8
    <3> QED BY <2>1, <3>1, <3>2
  <2>2. CASE u # s
    <3>1. u \in StubId \ {s, t} /\ next'[u] = next[u] /\ next[u] # NULL
      BY <2>2, <1>10, <1>13
    <3>2. next[u] \in Live \ Heads /\ next[u] \in StubId \ {s, t}
      BY <3>1, <1>11 DEF IInv, Lists, TypeOK
    <3> QED BY <3>1, <3>2, <1>6, <1>8, <1>9, <1>11 DEF IInv, Lists
  <2> QED BY <2>1, <2>2
<1>14. \A u, v \in StubId : next'[u] = next'[v] /\ next'[u] # NULL => u = v
  BY <1>1, <1>10, <1>11 DEF IInv, Lists
<1>15. \A u \in Live' : u \in Heads' \/ \E h \in mocks' : next'[h] = u
  <2>1. \A h \in mocks : h \in StubId \ {s, t}
    BY <1>11 DEF IInv, TypeOK, Heads
  <2>2. ASSUME NEW u \in Live
        PROVE  u \in Heads' \/ \E h \in mocks' : next'[h] = u
    <3>1. CASE u \in Heads
      BY <3>1, <1>11
    <3>2. CASE \E h \in mocks : next[h] = u
      <4>1. PICK h \in mocks : next[h] = u
        BY <3>2
      <4>2. next'[h] = u /\ h \in mocks'
        BY <4>1, <2>1, <1>6, <1>10
      <4> QED BY <4>2
    <3> QED BY <3>1, <3>2 DEF IInv, Lists
  <2>3. s \in Heads' /\ s \in mocks' /\ next'[s] = t
    BY <1>6, <1>10, <1>11
  <2> QED BY <2>2, <2>3, <1>9
<1>16. Lists'
  BY <1>12, <1>13, <1>14, <1>15 DEF Lists
<1> QED BY <1>5, <1>7, <1>16 DEF IInv

(* A handle in force is, on each slot of each of its stubs, exactly that   *)
(* stub: the two stubs of a mock share no slot.                            *)
LEMMA InForceIsTop ==
    ASSUME IInv, NEW h \in StubId, InForce(h)
    PROVE  \A s \in ListOf(h) : \A x \in DOMAIN old[s] : got[x] = s
<1> SUFFICES ASSUME NEW s \in ListOf(h), NEW x \in DOMAIN old[s]
             PROVE  got[x] = s
  OBVIOUS
<1>1. s \in StubId /\ ListOf(h) \subseteq StubId
  BY DEF ListOf, IInv, TypeOK
<1>2. x \in Slot
  <2>1. PICK S \in SUBSET Slot : old[s] \in [S -> Addr]
    BY <1>1 DEF IInv, TypeOK
  <2> QED BY <2>1
<1>3. got[x] \in ListOf(h)
  BY DEF InForce
<1>4. x \in DOMAIN old[got[x]]
  <2>1. Chain(x, got[x], OwnIn(old, x), SavesIn(old, x))
    BY <1>2 DEF IInv, Store
  <2>2. got[x] \in OwnIn(old, x)
    BY <2>1, <1>1 DEF Chain, OwnIn
  <2> QED BY <2>2 DEF OwnIn
<1>5. CASE next[h] = NULL
  BY <1>3, <1>5 DEF ListOf
<1>6. CASE next[h] # NULL
  <2>1. DOMAIN old[h] \intersect DOMAIN old[next[h]] = {}
    BY <1>6 DEF IInv, Lists
  <2>2. s \in {h, next[h]} /\ got[x] \in {h, next[h]}
    BY <1>3 DEF ListOf
  <2> QED BY <1>4, <2>1, <2>2
<1> QED BY <1>5, <1>6

(* Destroying the stub list of a handle that is in force. *)
LEMMA DestroyIInv ==
    ASSUME IInv, Careful,
           NEW h \in StubId, DestroyList(h),
           \/ h \in held /\ held' = held \ {h} /\ mocks' = mocks
           \/ h \in mocks /\ mocks' = mocks \ {h} /\ held' = held
    PROVE  IInv'
<1>1. \A s \in ListOf(h) : \A x \in DOMAIN old[s] : got[x] = s
  BY InForceIsTop DEF DestroyList
<1> DEFINE Gone == ListOf(h)
           g == Disarmed(got, old[h])
           o1 == [old EXCEPT ![h] = NoSlots]
<1>2. Gone \subseteq StubId /\ h \in Gone
  BY DEF ListOf, IInv, TypeOK
<1>3. Store(g, o1)
  BY <1>1, StorePop DEF IInv, ListOf
<1>4. /\ Store(got', old')
      /\ \A s \in StubId : old'[s] = IF s \in Gone THEN NoSlots ELSE old[s]
  <2>1. CASE next[h] = NULL
    <3>1. got' = g /\ old' = o1 /\ Gone = {h}
      BY <2>1 DEF DestroyList, ListOf
    <3> QED BY <3>1, <1>3 DEF IInv, TypeOK
  <2>2. CASE next[h] # NULL
    <3> DEFINE n == next[h]
    <3>1. /\ got' = Disarmed(g, old[n])
          /\ old' = [old EXCEPT ![h] = NoSlots, ![n] = NoSlots]
          /\ Gone = {h, n}
      BY <2>2 DEF DestroyList, ListOf
    <3>2. n \in StubId /\ n # h /\ DOMAIN old[h] \intersect DOMAIN old[n] = {}
      BY <2>2 DEF IInv, Lists, TypeOK, Heads, Live
    <3>3. o1[n] = old[n] /\ old' = [o1 EXCEPT ![n] = NoSlots]
      BY <3>1, <3>2 DEF IInv, TypeOK
    <3>4. DOMAIN old[n] \subseteq Slot
      <4>1. PICK S \in SUBSET Slot : old[n] \in [S -> Addr]
        BY <3>2 DEF IInv, TypeOK
      <4> QED BY <4>1
    <3>5. \A x \in DOMAIN o1[n] : g[x] = n
      BY <1>1, <3>1, <3>2, <3>3, <3>4 DEF Disarmed
    <3>6. Store(got', old')
      <4> HIDE DEF g, o1, n
      <4>1. Store(Disarmed(g, o1[n]), [o1 EXCEPT ![n] = NoSlots])
        BY <1>3, <3>2, <3>5, StorePop
      <4>2. got' = Disarmed(g, o1[n])
        BY <3>1, <3>3
      <4> QED BY <3>3, <4>1, <4>2
    <3> QED BY <3>1, <3>2, <3>6 DEF IInv, TypeOK
  <2> QED BY <2>1, <2>2
<1> HIDE DEF Gone, g, o1
<1>5. next' = [next EXCEPT ![h] = NULL]
  BY DEF DestroyList
<1>6. TypeOK'
  BY <1>4, <1>5 DEF IInv, TypeOK, Store
<1>7. DOMAIN NoSlots = {}
  BY DEF NoSlots
<1>8. Live' = Live \ Gone
  BY <1>4, <1>7 DEF Live
<1>9. /\ Heads' = Heads \ {h}
      /\ h \in Heads
      /\ held' \intersect mocks' = {}
  BY DEF IInv, Lists, Heads
<1>10. \A s \in Gone : s = h \/ (s = next[h] /\ s \notin Heads)
  BY DEF Gone, ListOf, IInv, Lists
<1>11. Heads' \subseteq Live'
  BY <1>8, <1>9, <1>10 DEF IInv, Lists
<1>12. \A s \in StubId : s # h /\ next[s] # NULL => next[s] \notin Gone
  BY <1>9, <1>10 DEF IInv, Lists
<1>13. /\ next'[h] = NULL
       /\ \A s \in StubId \ {h} : next'[s] = next[s]
  BY <1>5 DEF IInv, TypeOK
<1>14. ASSUME NEW s \in StubId, next'[s] # NULL
       PROVE  /\ s \in mocks'
              /\ next'[s] \in Live' \ Heads'
              /\ DOMAIN old'[s] \intersect DOMAIN old'[next'[s]] = {}
  <2>1. s # h /\ next'[s] = next[s] /\ next[s] # NULL
    BY <1>13, <1>14
  <2>2. /\ s \in mocks
        /\ next[s] \in Live \ Heads
        /\ DOMAIN old[s] \intersect DOMAIN old[next[s]] = {}
    BY <2>1 DEF IInv, Lists
  <2>3. next[s] \in StubId /\ next[s] \notin Gone
    BY <2>1, <1>12 DEF IInv, TypeOK
  <2>4. s \in mocks'
    BY <2>1, <2>2
  <2>5. s \notin Gone
    BY <2>1, <2>2, <1>10 DEF Heads
  <2> QED BY <2>1, <2>2, <2>3, <2>4, <2>5, <1>4, <1>8, <1>9
<1>15. \A s, u \in StubId : next'[s] = next'[u] /\ next'[s] # NULL => s = u
  BY <1>13 DEF IInv, Lists
<1>16. ASSUME NEW s \in Live'
       PROVE  s \in Heads' \/ \E m \in mocks' : next'[m] = s
  <2>1. s \in Live /\ s \in StubId /\ s \notin Gone
    BY <1>8 DEF Live
  <2>2. CASE s \in Heads
    BY <2>1, <2>2, <1>2, <1>9
  <2>3. CASE \E m \in mocks : next[m] = s
    <3>1. PICK m \in mocks : next[m] = s
      BY <2>3
    <3>2. m # h
      BY <2>1, <3>1, AddressAssumption DEF Gone, ListOf
    <3>3. m \in mocks' /\ m \in StubId
      BY <3>2 DEF IInv, TypeOK
    <3> QED BY <3>1, <3>2, <3>3, <1>13
  <2> QED BY <2>1, <2>2, <2>3 DEF IInv, Lists
<1>17. Lists'
  BY <1>9, <1>11, <1>14, <1>15, <1>16 DEF Lists
<1> QED BY <1>4, <1>6, <1>17 DEF IInv

LEMMA BindIInv ==
    ASSUME IInv, NEW x \in Slot, Bind(x)
    PROVE  IInv'
<1>1. Store(got', old')
  BY StoreBind DEF IInv, Bind
<1>2. TypeOK'
  BY <1>1 DEF IInv, TypeOK, Store, Bind
<1>3. Lists'
  BY DEF IInv, Lists, Bind, Heads, Live
<1> QED BY <1>1, <1>2, <1>3 DEF IInv

LEMMA NextIInv ==
    ASSUME ScopesApart, Careful, IInv, [Next]_vars
    PROVE  IInv'
<1>1. ASSUME NEW scope \in Scope, NEW sym \in Symbol, NEW s \in StubId,
             mmk_stub_create(scope, sym, s)
      PROVE  IInv'
  <2> DEFINE S == SlotsOf[scope, sym]
  <2>1. S \in SUBSET Slot
    BY ScopeAssumption
  <2> QED BY <1>1, <2>1, CreateOneIInv DEF mmk_stub_create
<1>2. ASSUME NEW scope \in Scope, NEW sym \in Symbol, NEW s \in StubId,
             CreateMockOne(scope, sym, s)
      PROVE  IInv'
  <2> DEFINE S == SlotsOf[scope, sym]
  <2>1. S \in SUBSET Slot
    BY ScopeAssumption
  <2> QED BY <1>2, <2>1, CreateOneIInv DEF CreateMockOne
<1>3. ASSUME NEW scope \in Scope, NEW sym \in Symbol, NEW s \in StubId,
             NEW t \in StubId, CreateMockTwo(scope, sym, s, t)
      PROVE  IInv'
  BY <1>3, CreateTwoIInv
<1>4. ASSUME NEW h \in StubId, mmk_stub_destroy(h) PROVE IInv'
  BY <1>4, DestroyIInv DEF mmk_stub_destroy
<1>5. ASSUME NEW h \in StubId, mmk_mock_destroy_internal(h) PROVE IInv'
  BY <1>5, DestroyIInv DEF mmk_mock_destroy_internal
<1>6. ASSUME NEW x, ResetByName(x) PROVE IInv'
  <2>1. PICK h \in mocks : mmk_mock_destroy_internal(h)
    BY <1>6 DEF ResetByName
  <2> QED BY <2>1, <1>5 DEF IInv, TypeOK
<1>7. ASSUME NEW x \in Slot, Bind(x) PROVE IInv'
  BY <1>7, BindIInv
<1>8. CASE UNCHANGED vars
  BY <1>8 DEF vars, IInv, TypeOK, Lists, Heads, Live
<1> QED BY <1>1, <1>2, <1>3, <1>4, <1>5, <1>6, <1>7, <1>8
        DEF Next, Create, Destroy

LEMMA Invariance ==
    ASSUME ScopesApart, Careful
    PROVE  Spec => []IInv
<1>1. Init => IInv
  BY InitIInv
<1>2. IInv /\ [Next]_vars => IInv'
  BY NextIInv
<1> QED BY <1>1, <1>2, PTL DEF Spec

-----------------------------------------------------------------------------
(***************************************************************************)
(* The order in which the live stubs were made: R has the pairs of an      *)
(* older and a newer stub.  Every slot leads to the newest of its stubs,   *)
(* and what a stub saved is the newest of the older ones; nothing was made *)
(* between the two stubs of a mock.                                        *)
(***************************************************************************)
LiveIn(o) == {s \in StubId : DOMAIN o[s] # {}}

Ordered(o, R) ==
    /\ R \subseteq LiveIn(o) \X LiveIn(o)
    /\ \A s \in LiveIn(o) : <<s, s>> \notin R
    /\ \A s, t \in LiveIn(o) : s = t \/ <<s, t>> \in R \/ <<t, s>> \in R
    /\ \A s, t, u \in LiveIn(o) : <<s, t>> \in R /\ <<t, u>> \in R => <<s, u>> \in R

Layered(g, o, R) ==
    \A x \in Slot :
        /\ \A s \in OwnIn(o, x) : s = g[x] \/ <<s, g[x]>> \in R
        /\ \A s, u \in OwnIn(o, x) :
              <<u, s>> \in R => u = o[s][x] \/ <<u, o[s][x]>> \in R

Contiguous(R) ==
    \A h \in Heads : \A a, b \in ListOf(h), s \in Live \ ListOf(h) :
        <<s, a>> \in R => <<s, b>> \in R

OrderInv ==
    \E R \in SUBSET (StubId \X StubId) :
        Ordered(old, R) /\ Layered(got, old, R) /\ Contiguous(R)

OnTop(o, R, s) == R \union {<<u, s>> : u \in LiveIn(o)}
Among(o, R)    == R \intersect (LiveIn(o) \X LiveIn(o))

Patched(o, g, S, s) == [o EXCEPT ![s] = Saved(g, S)]
Freed(o, s)         == [o EXCEPT ![s] = NoSlots]

(* A new stub is newer than all the others. *)
LEMMA OrderPush ==
    ASSUME NEW g, NEW o, Store(g, o), NEW R, Ordered(o, R), Layered(g, o, R),
           NEW s \in StubId, DOMAIN o[s] = {}, NEW S \in SUBSET Slot, S # {}
    PROVE  /\ Ordered(Patched(o, g, S, s), OnTop(o, R, s))
           /\ Layered(Armed(g, S, s), Patched(o, g, S, s), OnTop(o, R, s))
           /\ LiveIn(Patched(o, g, S, s)) = LiveIn(o) \union {s}
<1> DEFINE o2 == Patched(o, g, S, s)
           g2 == Armed(g, S, s)
           R2 == OnTop(o, R, s)
<1>1. /\ o2[s] = Saved(g, S) /\ DOMAIN o2[s] = S
      /\ \A t \in StubId \ {s} : o2[t] = o[t]
  BY DEF Store, Saved, Patched
<1>2. \A x \in S : o2[s][x] = g[x]
  BY <1>1 DEF Saved
<1>3. \A x \in Slot : g2[x] = IF x \in S THEN s ELSE g[x]
  BY DEF Armed
<1> HIDE DEF o2, g2
<1>4. LiveIn(o2) = LiveIn(o) \union {s} /\ s \notin LiveIn(o)
  BY <1>1 DEF LiveIn
<1>5. \A u, t : <<u, t>> \in R2 <=> <<u, t>> \in R \/ (t = s /\ u \in LiveIn(o))
  BY DEF OnTop
<1>6. R \subseteq LiveIn(o) \X LiveIn(o)
  BY DEF Ordered
<1>7. R2 \subseteq LiveIn(o2) \X LiveIn(o2)
  BY <1>4, <1>6 DEF OnTop
<1> HIDE DEF R2
<1>8. Ordered(o2, R2)
  BY <1>4, <1>5, <1>6, <1>7 DEF Ordered
<1>9. Layered(g2, o2, R2)
  <2> SUFFICES ASSUME NEW x \in Slot
               PROVE  /\ \A t \in OwnIn(o2, x) : t = g2[x] \/ <<t, g2[x]>> \in R2
                      /\ \A t, u \in OwnIn(o2, x) : <<u, t>> \in R2 =>
                            u = o2[t][x] \/ <<u, o2[t][x]>> \in R2
    BY DEF Layered
  <2>1. OwnIn(o2, x) = IF x \in S THEN OwnIn(o, x) \union {s} ELSE OwnIn(o, x)
    BY <1>1 DEF OwnIn
  <2>2. OwnIn(o, x) \subseteq LiveIn(o) /\ OwnIn(o, x) \subseteq StubId \ {s}
    BY DEF OwnIn, LiveIn
  <2>3. /\ \A t \in OwnIn(o, x) : t = g[x] \/ <<t, g[x]>> \in R
        /\ \A t, u \in OwnIn(o, x) : <<u, t>> \in R => u = o[t][x] \/ <<u, o[t][x]>> \in R
    BY DEF Layered
  <2>4. ASSUME NEW t \in OwnIn(o2, x) PROVE t = g2[x] \/ <<t, g2[x]>> \in R2
    BY <2>1, <2>2, <2>3, <1>3, <1>5
  <2>5. ASSUME NEW t \in OwnIn(o2, x), NEW u \in OwnIn(o2, x), <<u, t>> \in R2
        PROVE  u = o2[t][x] \/ <<u, o2[t][x]>> \in R2
    <3>1. CASE t = s
      <4>1. x \in S /\ u \in OwnIn(o, x)
        BY <3>1, <2>1, <2>2, <2>5, <1>4, <1>5, <1>6
      <4> QED BY <3>1, <4>1, <2>3, <1>2, <1>5
    <3>2. CASE t # s
      <4>1. <<u, t>> \in R /\ t \in OwnIn(o, x) /\ u \in OwnIn(o, x)
        BY <3>2, <2>1, <2>5, <1>4, <1>5, <1>6
      <4>2. o2[t] = o[t]
        BY <3>2, <4>1, <2>2, <1>1
      <4> QED BY <4>1, <4>2, <2>3, <1>5
    <3> QED BY <3>1, <3>2
  <2> QED BY <2>4, <2>5
<1> QED BY <1>4, <1>8, <1>9 DEF o2, g2, R2

(* A stub that is on top of all its slots may go. *)
LEMMA OrderPop ==
    ASSUME NEW g, NEW o, Store(g, o), NEW R, Ordered(o, R), Layered(g, o, R),
           NEW s \in StubId, \A x \in DOMAIN o[s] : g[x] = s
    PROVE  /\ Ordered(Freed(o, s), Among(Freed(o, s), R))
           /\ Layered(Disarmed(g, o[s]), Freed(o, s),
                      Among(Freed(o, s), R))
           /\ LiveIn(Freed(o, s)) = LiveIn(o) \ {s}
<1> DEFINE o2 == Freed(o, s)
           g2 == Disarmed(g, o[s])
           R2 == Among(o2, R)
<1>1. /\ DOMAIN o2[s] = {} /\ \A t \in StubId \ {s} : o2[t] = o[t]
      /\ \A x \in Slot : g2[x] = IF x \in DOMAIN o[s] THEN o[s][x] ELSE g[x]
  BY DEF Store, NoSlots, Disarmed, Freed
<1> HIDE DEF o2, g2
<1>2. LiveIn(o2) = LiveIn(o) \ {s}
  BY <1>1 DEF LiveIn
<1>3. \A u, t : <<u, t>> \in R2 <=> <<u, t>> \in R /\ u \in LiveIn(o2) /\ t \in LiveIn(o2)
  BY DEF Among
<1>4. R2 \subseteq LiveIn(o2) \X LiveIn(o2) /\ R \subseteq LiveIn(o) \X LiveIn(o)
  BY DEF Among, Ordered
<1> HIDE DEF R2
<1>5. Ordered(o2, R2)
  BY <1>2, <1>3, <1>4 DEF Ordered
<1>6. Layered(g2, o2, R2)
  <2> SUFFICES ASSUME NEW x \in Slot
               PROVE  /\ \A t \in OwnIn(o2, x) : t = g2[x] \/ <<t, g2[x]>> \in R2
                      /\ \A t, u \in OwnIn(o2, x) : <<u, t>> \in R2 =>
                            u = o2[t][x] \/ <<u, o2[t][x]>> \in R2
    BY DEF Layered
  <2>1. /\ OwnIn(o2, x) = OwnIn(o, x) \ {s} /\ OwnIn(o2, x) \subseteq LiveIn(o2)
        /\ \A t \in OwnIn(o2, x) : o2[t] = o[t]
    BY <1>1 DEF OwnIn, LiveIn
  <2>2. /\ \A t \in OwnIn(o, x) : t = g[x] \/ <<t, g[x]>> \in R
        /\ \A t, u \in OwnIn(o, x) : <<u, t>> \in R => u = o[t][x] \/ <<u, o[t][x]>> \in R
    BY DEF Layered
  <2>3. Chain(x, g[x], OwnIn(o, x), SavesIn(o, x))
    BY DEF Store
  <2>4. \A t \in OwnIn(o, x) : SavesIn(o, x)[t] = o[t][x]
    BY DEF SavesIn
  <2>5. ASSUME NEW t \in OwnIn(o2, x) PROVE t = g2[x] \/ <<t, g2[x]>> \in R2
    <3>1. CASE x \in DOMAIN o[s]
      <4>1. g[x] = s /\ g2[x] = o[s][x] /\ s \in OwnIn(o, x)
        BY <3>1, <1>1 DEF OwnIn
      <4>2. <<t, s>> \in R
        BY <4>1, <2>1, <2>2
      <4>3. t = o[s][x] \/ <<t, o[s][x]>> \in R
        BY <4>1, <4>2, <2>1, <2>2
      <4>4. CASE <<t, o[s][x]>> \in R
        <5>1. o[s][x] \in LiveIn(o)
          BY <4>4, <1>4
        <5>2. o[s][x] # s
          BY <2>3, <2>4, <4>1 DEF Chain
        <5> QED BY <4>1, <4>4, <5>1, <5>2, <1>2, <1>3, <2>1
      <4> QED BY <4>1, <4>3, <4>4
    <3>2. CASE x \notin DOMAIN o[s]
      <4>1. g2[x] = g[x] /\ s \notin OwnIn(o, x)
        BY <3>2, <1>1 DEF OwnIn
      <4>2. CASE <<t, g[x]>> \in R
        <5>1. g[x] \in OwnIn(o, x)
          BY <2>1, <2>3 DEF Chain
        <5> QED BY <4>1, <4>2, <5>1, <1>3, <2>1
      <4> QED BY <4>1, <4>2, <2>1, <2>2
    <3> QED BY <3>1, <3>2
  <2>6. ASSUME NEW t \in OwnIn(o2, x), NEW u \in OwnIn(o2, x), <<u, t>> \in R2
        PROVE  u = o2[t][x] \/ <<u, o2[t][x]>> \in R2
    <3>1. <<u, t>> \in R /\ o2[t][x] = o[t][x]
      BY <2>1, <2>6, <1>3
    <3>2. u = o[t][x] \/ <<u, o[t][x]>> \in R
      BY <3>1, <2>1, <2>2
    <3>3. CASE <<u, o[t][x]>> \in R
      <4>1. o[t][x] \in LiveIn(o)
        BY <3>3, <1>4
      <4>2. o[t][x] # s
        <5> SUFFICES ASSUME o[t][x] = s PROVE FALSE
          OBVIOUS
        <5>1. s \in OwnIn(o, x)
          BY <2>1, <2>3, <2>4, AddressAssumption DEF Chain, Orig
        <5>2. g[x] = s
          BY <5>1 DEF OwnIn
        <5> QED BY <5>2, <2>1, <2>3, <2>4 DEF Chain
      <4> QED BY <3>1, <3>3, <4>1, <4>2, <1>2, <1>3, <2>1
    <3> QED BY <3>1, <3>2, <3>3
  <2> QED BY <2>5, <2>6
<1> QED BY <1>2, <1>5, <1>6 DEF o2, g2, R2

(* Who is of a handle: the stubs of its list are live and of no other.     *)
LEMMA ListsApart ==
    ASSUME IInv
    PROVE  /\ \A h \in Heads : h \in ListOf(h) /\ ListOf(h) \subseteq Live
           /\ \A h, k \in Heads : h # k => ListOf(h) \intersect ListOf(k) = {}
           /\ Live = LiveIn(old)
BY DEF IInv, TypeOK, Lists, Heads, ListOf, Live, LiveIn

LEMMA CreateOneOrder ==
    ASSUME IInv, IInv', OrderInv,
           NEW s \in StubId \ Live, NEW S \in SUBSET Slot, S # {},
           got'  = Armed(got, S, s),
           old'  = Patched(old, got, S, s),
           next' = [next EXCEPT ![s] = NULL],
           Heads' = Heads \union {s}
    PROVE  OrderInv'
<1>1. PICK R \in SUBSET (StubId \X StubId) :
         Ordered(old, R) /\ Layered(got, old, R) /\ Contiguous(R)
  BY DEF OrderInv
<1>2. DOMAIN old[s] = {} /\ Store(got, old) /\ LiveIn(old) = Live
  BY DEF Live, LiveIn, IInv
<1>0. PICK R2 : R2 = OnTop(old, R, s)
  OBVIOUS
<1>3. Ordered(old', R2) /\ Layered(got', old', R2) /\ LiveIn(old') = Live \union {s}
  <2>1. /\ Ordered(Patched(old, got, S, s), OnTop(old, R, s))
        /\ Layered(Armed(got, S, s), Patched(old, got, S, s), OnTop(old, R, s))
        /\ LiveIn(Patched(old, got, S, s)) = LiveIn(old) \union {s}
    BY <1>1, <1>2, OrderPush
  <2> QED BY <1>0, <1>2, <2>1
<1>4. R2 \in SUBSET (StubId \X StubId) /\ R \subseteq Live \X Live
  BY <1>0, <1>1, <1>2 DEF OnTop, Live, Ordered
<1>5. \A u, t : <<u, t>> \in R2 <=> <<u, t>> \in R \/ (t = s /\ u \in Live)
  BY <1>0, <1>2 DEF OnTop
<1>6. Contiguous(R2)'
  <2> SUFFICES ASSUME NEW h \in Heads', NEW a \in ListOf(h)', NEW b \in ListOf(h)',
                      NEW u \in Live' \ ListOf(h)', <<u, a>> \in R2
               PROVE  <<u, b>> \in R2
    BY DEF Contiguous
  <2>1. Live' = Live \union {s} /\ u \in Live'
    BY <1>3 DEF Live, LiveIn
  <2>2. CASE h = s
    <3>1. ListOf(h)' = {s}
      BY <2>2 DEF ListOf, IInv, TypeOK
    <3> QED BY <3>1
  <2>3. CASE h # s
    <3>1. h \in Heads /\ h \in StubId /\ ListOf(h)' = ListOf(h) /\ ListOf(h) \subseteq Live
      BY <2>3, ListsApart DEF ListOf, IInv, TypeOK, Heads
    <3>2. a # s /\ <<u, a>> \in R
      BY <3>1, <1>5
    <3>3. u \in Live
      BY <3>2, <1>4
    <3> QED BY <3>1, <3>2, <3>3, <1>1, <1>5 DEF Contiguous
  <2> QED BY <2>2, <2>3
<1> QED BY <1>3, <1>4, <1>6 DEF OrderInv

LEMMA CreateTwoOrder ==
    ASSUME IInv, IInv', OrderInv, ScopesApart,
           NEW scope \in Scope, NEW sym \in Symbol,
           NEW s \in StubId, NEW t \in StubId,
           CreateMockTwo(scope, sym, s, t)
    PROVE  OrderInv'
<1> DEFINE S  == SlotsOf[scope, sym]
           T  == SlotsOf[SelfScope, sym]
           g  == Armed(got, S, s)
           o1 == Patched(old, got, S, s)
<1>1. PICK R \in SUBSET (StubId \X StubId) :
         Ordered(old, R) /\ Layered(got, old, R) /\ Contiguous(R)
  BY DEF OrderInv
<1>2. /\ S \in SUBSET Slot /\ S # {} /\ T \in SUBSET Slot /\ T # {}
      /\ s # t /\ s \notin Live /\ t \notin Live
  BY ScopeAssumption DEF CreateMockTwo
<1>3. old' = Patched(o1, g, T, t) /\ got' = Armed(g, T, t)
  BY DEF CreateMockTwo, Patched
<1>4. /\ DOMAIN old[s] = {} /\ DOMAIN o1[t] = {} /\ Store(got, old) /\ LiveIn(old) = Live
  BY <1>2 DEF Live, LiveIn, IInv, TypeOK, Patched
<1>5. next' = [next EXCEPT ![s] = t, ![t] = NULL] /\ Heads' = Heads \union {s}
  BY DEF CreateMockTwo, Heads
<1> HIDE DEF S, T
<1>6. Store(g, o1)
  BY <1>2, <1>4, StorePush DEF Patched
<1> HIDE DEF g, o1
<1>a. PICK R1 : R1 = OnTop(old, R, s)
  OBVIOUS
<1>b. PICK R2 : R2 = OnTop(o1, R1, t)
  OBVIOUS
<1>7. Ordered(o1, R1) /\ Layered(g, o1, R1) /\ LiveIn(o1) = Live \union {s}
  <2>1. /\ Ordered(Patched(old, got, S, s), OnTop(old, R, s))
        /\ Layered(Armed(got, S, s), Patched(old, got, S, s), OnTop(old, R, s))
        /\ LiveIn(Patched(old, got, S, s)) = LiveIn(old) \union {s}
    BY <1>1, <1>2, <1>4, OrderPush
  <2> QED BY <1>a, <1>4, <2>1 DEF g, o1
<1>8. \A u, v : <<u, v>> \in R1 <=> <<u, v>> \in R \/ (v = s /\ u \in Live)
  BY <1>a, <1>4 DEF OnTop
<1>9. Ordered(old', R2) /\ Layered(got', old', R2) /\ LiveIn(old') = Live \union {s, t}
  <2>1. /\ Ordered(Patched(o1, g, T, t), OnTop(o1, R1, t))
        /\ Layered(Armed(g, T, t), Patched(o1, g, T, t), OnTop(o1, R1, t))
        /\ LiveIn(Patched(o1, g, T, t)) = LiveIn(o1) \union {t}
    BY <1>2, <1>4, <1>6, <1>7, OrderPush
  <2> QED BY <1>b, <1>3, <1>7, <2>1
<1>10. \A u, v : <<u, v>> \in R2 <=> <<u, v>> \in R1 \/ (v = t /\ u \in Live \union {s})
  BY <1>b, <1>7 DEF OnTop
<1>11. R \subseteq Live \X Live
  BY <1>1, <1>4 DEF Ordered
<1>12. R2 \in SUBSET (StubId \X StubId)
  BY <1>9 DEF Ordered, LiveIn
<1>13. Contiguous(R2)'
  <2> SUFFICES ASSUME NEW h \in Heads', NEW a \in ListOf(h)', NEW b \in ListOf(h)',
                      NEW u \in Live' \ ListOf(h)', <<u, a>> \in R2
               PROVE  <<u, b>> \in R2
    BY DEF Contiguous
  <2>1. Live' = Live \union {s, t} /\ u \in Live'
    BY <1>9 DEF Live, LiveIn
  <2>2. CASE h = s
    <3>1. ListOf(h)' = {s, t}
      BY <2>2, <1>2, <1>5, AddressAssumption DEF ListOf, IInv, TypeOK
    <3>2. u \in Live
      BY <2>1, <3>1
    <3> QED BY <3>1, <3>2, <1>8, <1>10
  <2>3. CASE h # s
    <3>1. h \in Heads /\ h \in StubId /\ ListOf(h) \subseteq Live
      BY <2>3, <1>5, ListsApart DEF IInv, TypeOK, Heads
    <3>2. h # t
      BY <3>1, <1>2, ListsApart
    <3>3. ListOf(h)' = ListOf(h)
      BY <2>3, <3>1, <3>2, <1>5 DEF ListOf, IInv, TypeOK
    <3>4. a # s /\ a # t /\ <<u, a>> \in R
      BY <3>1, <3>3, <1>2, <1>8, <1>10
    <3>5. u \in Live
      BY <3>4, <1>11
    <3> QED BY <3>1, <3>3, <3>4, <3>5, <1>1, <1>8, <1>10 DEF Contiguous
  <2> QED BY <2>2, <2>3
<1> QED BY <1>9, <1>12, <1>13 DEF OrderInv

LEMMA DestroyOrder ==
    ASSUME IInv, IInv', OrderInv, Careful,
           NEW h \in Heads, DestroyList(h), Heads' = Heads \ {h}
    PROVE  OrderInv'
<1>1. PICK R \in SUBSET (StubId \X StubId) :
         Ordered(old, R) /\ Layered(got, old, R) /\ Contiguous(R)
  BY DEF OrderInv
<1>2. h \in StubId /\ \A s \in ListOf(h) : \A x \in DOMAIN old[s] : got[x] = s
  BY InForceIsTop DEF DestroyList, IInv, TypeOK, Heads
<1> DEFINE g == Disarmed(got, old[h])
           o1 == Freed(old, h)
           R1 == Among(o1, R)
<1>3. Store(g, o1)
  BY <1>2, StorePop DEF IInv, ListOf, Freed
<1> HIDE DEF g, o1, R1
<1>4. Ordered(o1, R1) /\ Layered(g, o1, R1) /\ LiveIn(o1) = LiveIn(old) \ {h}
  <2>1. Store(got, old) /\ \A x \in DOMAIN old[h] : got[x] = h
    BY <1>2 DEF IInv, ListOf
  <2>2. /\ Ordered(Freed(old, h), Among(Freed(old, h), R))
        /\ Layered(Disarmed(got, old[h]), Freed(old, h),
                   Among(Freed(old, h), R))
        /\ LiveIn(Freed(old, h)) = LiveIn(old) \ {h}
    BY <1>1, <1>2, <2>1, OrderPop
  <2> QED BY <2>2 DEF g, o1, R1
<1>5. R1 \subseteq R
  BY DEF R1, Among
<1>6. /\ \E Q \in SUBSET R : /\ Ordered(old', Q) /\ Layered(got', old', Q)
                             /\ Q = R \intersect (LiveIn(old') \X LiveIn(old'))
      /\ LiveIn(old') \subseteq LiveIn(old)
  <2>1. CASE next[h] = NULL
    <3>1. got' = g /\ old' = o1
      BY <2>1 DEF DestroyList, g, o1, Freed
    <3>2. R1 = R \intersect (LiveIn(old') \X LiveIn(old'))
      BY <3>1 DEF R1, Among
    <3> QED BY <3>1, <3>2, <1>4, <1>5
  <2>2. CASE next[h] # NULL
    <3> DEFINE n == next[h]
    <3>1. /\ got' = Disarmed(g, old[n])
          /\ old' = [old EXCEPT ![h] = NoSlots, ![n] = NoSlots]
      BY <2>2 DEF DestroyList, g
    <3>2. n \in StubId /\ n # h /\ DOMAIN old[h] \intersect DOMAIN old[n] = {}
      BY <2>2 DEF IInv, Lists, TypeOK, Heads, Live
    <3>3. o1[n] = old[n] /\ old' = Freed(o1, n)
      BY <3>1, <3>2 DEF IInv, TypeOK, o1, Freed
    <3>4. DOMAIN old[n] \subseteq Slot
      <4> HIDE DEF n
      <4>1. old[n] \in UNION {[S -> Addr] : S \in SUBSET Slot}
        BY <3>2 DEF IInv, TypeOK
      <4> QED BY <4>1
    <3>5. \A x \in DOMAIN o1[n] : g[x] = n
      <4>1. n \in ListOf(h)
        BY <2>2 DEF ListOf
      <4>2. \A x \in DOMAIN old[n] : got[x] = n /\ x \notin DOMAIN old[h]
        BY <1>2, <3>2, <4>1
      <4> QED BY <3>3, <3>4, <4>2 DEF Disarmed, g
    <3>7. got' = Disarmed(g, o1[n])
      BY <3>1, <3>3
    <3> HIDE DEF n
    <3> DEFINE Q == Among(old', R1)
    <3> HIDE DEF Q
    <3>8. Ordered(old', Q) /\ Layered(got', old', Q) /\ LiveIn(old') \subseteq LiveIn(o1)
      <4>1. /\ Ordered(Freed(o1, n), Among(Freed(o1, n), R1))
            /\ Layered(Disarmed(g, o1[n]), Freed(o1, n),
                       Among(Freed(o1, n), R1))
            /\ LiveIn(Freed(o1, n)) = LiveIn(o1) \ {n}
        BY <1>3, <1>4, <3>2, <3>5, OrderPop
      <4> QED BY <3>3, <3>7, <4>1 DEF Q
    <3>9. R1 = R \intersect (LiveIn(o1) \X LiveIn(o1))
      BY DEF R1, Among
    <3>10. Q = R \intersect (LiveIn(old') \X LiveIn(old'))
      BY <3>8, <3>9 DEF Q, Among
    <3> QED BY <1>4, <3>8, <3>10
  <2> QED BY <2>1, <2>2
<1>7. PICK Q \in SUBSET R : /\ Ordered(old', Q) /\ Layered(got', old', Q)
                            /\ Q = R \intersect (LiveIn(old') \X LiveIn(old'))
  BY <1>6
<1>8. Live' = LiveIn(old') /\ Live = LiveIn(old)
  BY DEF Live, LiveIn
<1>9. Contiguous(Q)'
  <2> SUFFICES ASSUME NEW k \in Heads', NEW a \in ListOf(k)', NEW b \in ListOf(k)',
                      NEW u \in Live' \ ListOf(k)', <<u, a>> \in Q
               PROVE  <<u, b>> \in Q
    BY DEF Contiguous
  <2>1. k \in Heads /\ k # h /\ ListOf(k)' = ListOf(k)
    BY DEF DestroyList, ListOf, IInv, TypeOK, Heads
  <2>2. ListOf(k)' \subseteq Live'
    <3>1. \A m \in StubId : next'[m] # NULL => next'[m] \in Live'
      BY DEF IInv, Lists
    <3>2. k \in Live' /\ k \in StubId
      BY DEF IInv, Lists, Live
    <3> QED BY <3>1, <3>2 DEF ListOf
  <2>3. u \in Live \ ListOf(k) /\ <<u, a>> \in R
    BY <2>1, <1>6, <1>7, <1>8
  <2>4. <<u, b>> \in R
    BY <2>1, <2>3, <1>1 DEF Contiguous
  <2> QED BY <2>2, <2>4, <1>7, <1>8
<1>10. Q \in SUBSET (StubId \X StubId)
  BY <1>1, <1>7
<1> QED BY <1>7, <1>9, <1>10 DEF OrderInv

LEMMA BindOrder ==
    ASSUME IInv, OrderInv, NEW y \in Slot, Bind(y)
    PROVE  OrderInv'
<1>1. PICK R \in SUBSET (StubId \X StubId) :
         Ordered(old, R) /\ Layered(got, old, R) /\ Contiguous(R)
  BY DEF OrderInv
<1>2. /\ UNCHANGED <<old, next, held, mocks>> /\ got' = [got EXCEPT ![y] = Real[y]]
      /\ got[y] \notin StubId
  BY AddressAssumption DEF Bind
<1>3. OwnIn(old, y) = {}
  BY <1>2 DEF IInv, Store, Chain, OwnIn
<1>4. Layered(got', old, R)
  BY <1>1, <1>2, <1>3 DEF Layered, IInv, TypeOK
<1>5. Ordered(old', R) /\ Contiguous(R)'
  BY <1>1, <1>2 DEF Contiguous, Heads, ListOf, Live
<1> QED BY <1>2, <1>4, <1>5 DEF OrderInv

LEMMA NextOrder ==
    ASSUME ScopesApart, Careful, IInv, IInv', OrderInv, [Next]_vars
    PROVE  OrderInv'
<1>1. ASSUME NEW scope \in Scope, NEW sym \in Symbol, NEW s \in StubId,
             mmk_stub_create(scope, sym, s) \/ CreateMockOne(scope, sym, s)
      PROVE  OrderInv'
  <2> DEFINE S == SlotsOf[scope, sym]
  <2>1. S \in SUBSET Slot
    BY ScopeAssumption
  <2>2. /\ s \in StubId \ Live /\ S # {} /\ got' = Armed(got, S, s)
        /\ old' = Patched(old, got, S, s) /\ next' = [next EXCEPT ![s] = NULL]
        /\ Heads' = Heads \union {s}
    BY <1>1 DEF mmk_stub_create, CreateMockOne, Patched, Heads
  <2> HIDE DEF S
  <2> QED BY <2>1, <2>2, CreateOneOrder
<1>2. ASSUME NEW scope \in Scope, NEW sym \in Symbol, NEW s \in StubId,
             NEW t \in StubId, CreateMockTwo(scope, sym, s, t)
      PROVE  OrderInv'
  BY <1>2, CreateTwoOrder
<1>3. ASSUME NEW h \in StubId, mmk_stub_destroy(h) PROVE OrderInv'
  <2>1. h \in Heads /\ DestroyList(h) /\ Heads' = Heads \ {h}
    BY <1>3 DEF mmk_stub_destroy, Heads, IInv, Lists
  <2> QED BY <2>1, DestroyOrder
<1>4. ASSUME NEW h \in StubId, mmk_mock_destroy_internal(h) PROVE OrderInv'
  <2>1. h \in Heads /\ DestroyList(h) /\ Heads' = Heads \ {h}
    BY <1>4 DEF mmk_mock_destroy_internal, Heads, IInv, Lists
  <2> QED BY <2>1, DestroyOrder
<1>5. ASSUME NEW x, ResetByName(x) PROVE OrderInv'
  <2>1. PICK h \in mocks : mmk_mock_destroy_internal(h)
    BY <1>5 DEF ResetByName
  <2> QED BY <2>1, <1>4 DEF IInv, TypeOK
<1>6. ASSUME NEW x \in Slot, Bind(x) PROVE OrderInv'
  BY <1>6, BindOrder
<1>7. CASE UNCHANGED vars
  BY <1>7 DEF vars, OrderInv, Contiguous, Heads, ListOf, Live
<1> QED BY <1>1, <1>2, <1>3, <1>4, <1>5, <1>6, <1>7 DEF Next, Create, Destroy

LEMMA OrderInvariance ==
    ASSUME ScopesApart, Careful
    PROVE  Spec => []OrderInv
<1>1. Init => OrderInv
  <2> SUFFICES ASSUME Init PROVE OrderInv
    OBVIOUS
  <2>1. LiveIn(old) = {} /\ Live = {} /\ Heads = {} /\ \A x \in Slot : OwnIn(old, x) = {}
    BY DEF Init, LiveIn, Live, NoSlots, Heads, OwnIn
  <2>2. Ordered(old, {}) /\ Layered(got, old, {}) /\ Contiguous({})
    BY <2>1 DEF Ordered, Layered, Contiguous
  <2> QED BY <2>2 DEF OrderInv
<1>2. OrderInv /\ IInv /\ IInv' /\ [Next]_vars => OrderInv'
  BY NextOrder
<1> QED BY <1>1, <1>2, Invariance, PTL DEF Spec


-----------------------------------------------------------------------------
(* The GOT, the saved values and the handles always have their types.      *)
THEOREM TypeSafety ==
    ASSUME ScopesApart, Careful
    PROVE  Spec => []TypeOK
<1>1. IInv => TypeOK
  BY DEF IInv
<1> QED BY <1>1, Invariance, PTL

(* No slot ever leads to the unmapped trampoline of a destroyed stub       *)
(* (destroy_trampoline, stub.c:109).                                       *)
THEOREM NoDanglingTrampoline ==
    ASSUME ScopesApart, Careful
    PROVE  Spec => []NoDangling
<1>1. IInv => NoDangling
  <2> SUFFICES ASSUME IInv, NEW x \in Slot, got[x] \in StubId
               PROVE  got[x] \in Live
    BY DEF NoDangling
  <2>1. got[x] \in OwnIn(old, x)
    BY AddressAssumption DEF IInv, Store, Chain, Orig
  <2> QED BY <2>1 DEF OwnIn, Live
<1> QED BY <1>1, Invariance, PTL

(* When the last stub on a slot is gone the slot has its own code again    *)
(* (plt_reset_offsets, plt-elf.c:327).                                     *)
THEOREM RestoresOriginal ==
    ASSUME ScopesApart, Careful
    PROVE  Spec => []UnmockedIsOriginal
<1>1. IInv => UnmockedIsOriginal
  BY DEF IInv, Store, Chain, UnmockedIsOriginal, Own, OwnIn
<1> QED BY <1>1, Invariance, PTL

(* A slot that some stub covers leads to a stub that covers it             *)
(* (plt_set_offsets, plt-elf.c:305).                                       *)
THEOREM Intercepts ==
    ASSUME ScopesApart, Careful
    PROVE  Spec => []CoveredIsIntercepted
<1>1. IInv => CoveredIsIntercepted
  BY DEF IInv, Store, Chain, CoveredIsIntercepted, Own, OwnIn
<1> QED BY <1>1, Invariance, PTL

(* Whoever resets a mock by the name of the function resets the newest one *)
(* (core.c:64): if what answers there is covered everywhere by stubs that  *)
(* it covers there too, nothing newer is on any of its slots.              *)
THEOREM NewestByName ==
    ASSUME ScopesApart, Careful
    PROVE  Spec => []NameFindsNewest
<1>1. IInv /\ OrderInv => NameFindsNewest
  <2> SUFFICES ASSUME IInv, OrderInv, NEW x \in Slot, NEW h \in Heads, got[x] \in ListOf(h),
                      \A k \in Heads : SlotsHeld(k) \intersect SlotsHeld(h) # {} =>
                          x \in SlotsHeld(k),
                      NEW s \in ListOf(h), NEW y \in DOMAIN old[s], got[y] \notin ListOf(h)
               PROVE  FALSE
    BY DEF NameFindsNewest, InForce
  <2>1. PICK R \in SUBSET (StubId \X StubId) :
           Ordered(old, R) /\ Layered(got, old, R) /\ Contiguous(R)
    BY DEF OrderInv
  <2>2. /\ s \in Live /\ s \in StubId /\ got[x] \in Live /\ ListOf(h) \subseteq Live
        /\ Live = LiveIn(old)
    BY ListsApart DEF Live
  <2>3. y \in Slot /\ s \in OwnIn(old, y)
    <3>1. old[s] \in UNION {[S -> Addr] : S \in SUBSET Slot}
      BY <2>2 DEF IInv, TypeOK
    <3> QED BY <2>2, <3>1 DEF OwnIn
  <2>4. got[y] \in OwnIn(old, y)
    BY <2>3 DEF IInv, Store, Chain
  <2>5. got[y] \in Live /\ got[y] \in StubId
    BY <2>4 DEF OwnIn, Live
  <2>6. PICK k \in Heads : got[y] \in ListOf(k)
    <3>1. CASE got[y] \in Heads
      BY <3>1, ListsApart
    <3>2. CASE \E m \in mocks : next[m] = got[y]
      <4>1. PICK m \in mocks : next[m] = got[y]
        BY <3>2
      <4>2. m \in Heads /\ got[y] \in ListOf(m)
        BY <4>1, <2>5, AddressAssumption DEF Heads, ListOf
      <4> QED BY <4>2
    <3> QED BY <2>5, <3>1, <3>2 DEF IInv, Lists
  <2>7. k # h /\ ListOf(k) \intersect ListOf(h) = {} /\ ListOf(k) \subseteq Live
    BY <2>6, ListsApart
  <2>8. y \in SlotsHeld(k) /\ y \in SlotsHeld(h)
    BY <2>4, <2>6 DEF SlotsHeld, OwnIn
  <2>9. PICK r \in ListOf(k) : x \in DOMAIN old[r]
    BY <2>8 DEF SlotsHeld
  <2>10. r \in Live /\ r \in OwnIn(old, x) /\ r # got[x] /\ got[y] # s
    BY <2>6, <2>7, <2>9 DEF OwnIn, Live
  <2>11. <<r, got[x]>> \in R /\ <<s, got[y]>> \in R
    BY <2>1, <2>3, <2>10 DEF Layered
  <2>12. <<r, s>> \in R /\ <<s, r>> \in R
    BY <2>1, <2>2, <2>6, <2>7, <2>9, <2>10, <2>11 DEF Contiguous
  <2> QED BY <2>1, <2>2, <2>10, <2>12 DEF Ordered
<1> QED BY <1>1, Invariance, OrderInvariance, PTL

-----------------------------------------------------------------------------
(* Refinement: the values saved for a slot make a stack of its stubs.      *)

(* q lists the stubs own of slot x from g, what the slot holds, down to    *)
(* the original code; o is what each of them saved.                        *)
Bottom(q, g, o) == IF q = << >> THEN g ELSE o[q[Len(q)]]
Stacked(x, g, own, o, q) ==
    /\ q \in Seq(StubId)
    /\ own = {q[i] : i \in 1..Len(q)}
    /\ \A i, j \in 1..Len(q) : q[i] = q[j] => i = j
    /\ q # << >> => q[1] = g
    /\ \A i \in 1..Len(q) : i < Len(q) => o[q[i]] = q[i + 1]
    /\ Bottom(q, g, o) \in Orig(x)

(* Q has such a list for every slot. *)
Stacks(g, o, Q) ==
    \A x \in Slot : Stacked(x, g[x], OwnIn(o, x), SavesIn(o, x), Q[x])
StacksInv == \E Q : Stacks(got, old, Q)

(* There is one such list, and it is the one the mapping finds. *)
OrdersIn(g, o, x) ==
    {q \in [1..Cardinality(OwnIn(o, x)) -> OwnIn(o, x)] :
        \A i \in DOMAIN q : q[i] = IF i = 1 THEN g[x] ELSE o[q[i - 1]][x]}
StackIn(g, o, x) ==
    IF OrdersIn(g, o, x) = {} THEN << >> ELSE CHOOSE q \in OrdersIn(g, o, x) : TRUE
BaseIn(g, o, x, q) == IF q = << >> THEN g[x] ELSE o[q[Len(q)]][x]

LEMMA StackIs ==
    ASSUME NEW g, NEW o, NEW x \in Slot, NEW q,
           Stacked(x, g[x], OwnIn(o, x), SavesIn(o, x), q)
    PROVE  StackIn(g, o, x) = q /\ BaseIn(g, o, x, q) = Bottom(q, g[x], SavesIn(o, x))
<1> DEFINE n == Len(q)
<1>1. /\ n \in Nat /\ q \in [1..n -> OwnIn(o, x)] /\ DOMAIN q = 1..n
      /\ OwnIn(o, x) = {q[i] : i \in 1..n}
  BY DEF Stacked
<1>2. \A s \in OwnIn(o, x) : SavesIn(o, x)[s] = o[s][x]
  BY <1>1 DEF SavesIn
<1>3. Cardinality(OwnIn(o, x)) = n
  <2>1. q \in Bijection(1..n, OwnIn(o, x))
    BY <1>1 DEF Stacked, Bijection, Injection, Surjection, IsInjective
  <2>2. IsFiniteSet(1..n) /\ Cardinality(1..n) = n
    <3>1. /\ IsFiniteSet(1..n)
          /\ Cardinality(1..n) = IF 1 > n THEN 0 ELSE n - 1 + 1
      <4>1. 1 \in Int /\ n \in Int
        BY <1>1
      <4> HIDE DEF n
      <4> QED BY ONLY <4>1, FS_Interval
    <3>2. (IF 1 > n THEN 0 ELSE n - 1 + 1) = n
      BY <1>1
    <3> QED BY <3>1, <3>2
  <2> QED BY <2>1, <2>2, FS_Bijection DEF ExistsBijection
<1>4. q \in OrdersIn(g, o, x)
  <2> SUFFICES ASSUME NEW i \in 1..n PROVE q[i] = IF i = 1 THEN g[x] ELSE o[q[i - 1]][x]
    BY <1>1, <1>3 DEF OrdersIn
  <2>1. CASE i = 1
    BY <2>1, <1>1 DEF Stacked
  <2>2. CASE i # 1
    <3>1. i - 1 \in 1..n /\ i - 1 < n /\ (i - 1) + 1 = i
      BY <2>2, <1>1
    <3>2. SavesIn(o, x)[q[i - 1]] = q[i]
      BY <3>1 DEF Stacked
    <3> QED BY <2>2, <3>1, <3>2, <1>1, <1>2
  <2> QED BY <2>1, <2>2
<1>5. ASSUME NEW r \in OrdersIn(g, o, x) PROVE r = q
  <2> DEFINE P == {i \in Nat : i \in 1..n => r[i] = q[i]}
  <2>1. r \in [1..n -> OwnIn(o, x)] /\ DOMAIN r = 1..n
    BY <1>3 DEF OrdersIn
  <2>2. 0 \in P
    OBVIOUS
  <2>3. ASSUME NEW i \in Nat, i \in P PROVE i + 1 \in P
    <3> SUFFICES ASSUME i + 1 \in 1..n PROVE r[i + 1] = q[i + 1]
      OBVIOUS
    <3>1. /\ r[i + 1] = IF i + 1 = 1 THEN g[x] ELSE o[r[(i + 1) - 1]][x]
          /\ q[i + 1] = IF i + 1 = 1 THEN g[x] ELSE o[q[(i + 1) - 1]][x]
      BY <1>1, <1>4, <2>1 DEF OrdersIn
    <3>2. i + 1 # 1 => i \in 1..n
      BY <1>1
    <3>3. (i + 1) - 1 = i
      OBVIOUS
    <3> QED BY <2>3, <3>1, <3>2, <3>3
  <2> HIDE DEF P
  <2>4. Nat \subseteq P
    BY <2>2, <2>3, SetInduction
  <2>5. \A i \in 1..n : r[i] = q[i]
    BY <1>1, <2>4 DEF P
  <2> QED BY <1>1, <2>1, <2>5
<1>6. StackIn(g, o, x) = q
  BY <1>4, <1>5 DEF StackIn
<1>7. q # << >> => n \in 1..n
  BY <1>1
<1> QED BY <1>1, <1>2, <1>6, <1>7 DEF BaseIn, Bottom

LEMMA StackedPush ==
    ASSUME NEW x \in Slot, NEW g, NEW own \in SUBSET StubId, NEW o, NEW q,
           Stacked(x, g, own, o, q), NEW s \in StubId \ own,
           NEW p, p = [t \in own \union {s} |-> IF t = s THEN g ELSE o[t]]
    PROVE  /\ Stacked(x, s, own \union {s}, p, <<s>> \o q)
           /\ Bottom(<<s>> \o q, s, p) = Bottom(q, g, o)
<1> DEFINE r == <<s>> \o q
<1>1. /\ q \in Seq(StubId) /\ Len(q) \in Nat /\ own = {q[i] : i \in 1..Len(q)}
      /\ \A i, j \in 1..Len(q) : q[i] = q[j] => i = j
      /\ q # << >> => q[1] = g
      /\ \A i \in 1..Len(q) : i < Len(q) => o[q[i]] = q[i + 1]
      /\ \A i \in 1..Len(q) : q[i] \in own
  BY DEF Stacked
<1>2. /\ r \in Seq(StubId) /\ Len(r) = Len(q) + 1 /\ r # << >>
      /\ r[1] = s /\ \A i \in 1..Len(q) : r[i + 1] = q[i]
  BY <1>1
<1> HIDE DEF r
<1>3. \A i \in 1..Len(r) : i = 1 \/ \E j \in 1..Len(q) : i = j + 1 /\ r[i] = q[j]
  <2> SUFFICES ASSUME NEW i \in 1..Len(r), i # 1
               PROVE  \E j \in 1..Len(q) : i = j + 1 /\ r[i] = q[j]
    OBVIOUS
  <2>1. i - 1 \in 1..Len(q) /\ i = (i - 1) + 1
    BY <1>1, <1>2
  <2> QED BY <2>1, <1>2
<1>4. p[s] = g /\ \A t \in own : t # s /\ p[t] = o[t]
  OBVIOUS
<1>5. own \union {s} = {r[i] : i \in 1..Len(r)}
  <2>1. ASSUME NEW t \in own \union {s} PROVE \E i \in 1..Len(r) : r[i] = t
    <3>1. CASE t = s
      <4>1. 1 \in 1..Len(r)
        BY <1>1, <1>2
      <4> QED BY <3>1, <4>1, <1>2
    <3>2. CASE t # s
      <4>1. PICK i \in 1..Len(q) : q[i] = t
        BY <3>2, <1>1
      <4>2. i + 1 \in 1..Len(r)
        BY <1>1, <1>2
      <4> QED BY <4>1, <4>2, <1>2
    <3> QED BY <3>1, <3>2
  <2>2. ASSUME NEW i \in 1..Len(r) PROVE r[i] \in own \union {s}
    BY <1>1, <1>2, <1>3
  <2> QED BY <2>1, <2>2
<1>6. ASSUME NEW i \in 1..Len(r), NEW j \in 1..Len(r), r[i] = r[j] PROVE i = j
  <2>1. \A k \in 1..Len(r) : k # 1 => r[k] # s
    BY <1>1, <1>2, <1>3
  <2>2. CASE i = 1 \/ j = 1
    BY <2>1, <2>2, <1>2, <1>6
  <2>3. CASE i # 1 /\ j # 1
    <3>1. PICK k \in 1..Len(q) : i = k + 1 /\ r[i] = q[k]
      BY <2>3, <1>3
    <3>2. PICK l \in 1..Len(q) : j = l + 1 /\ r[j] = q[l]
      BY <2>3, <1>3
    <3> QED BY <3>1, <3>2, <1>1, <1>6
  <2> QED BY <2>2, <2>3
<1>7. ASSUME NEW i \in 1..Len(r), i < Len(r) PROVE p[r[i]] = r[i + 1]
  <2>1. CASE i = 1
    <3>1. 1 \in 1..Len(q) /\ q # << >>
      BY <2>1, <1>1, <1>2, <1>7
    <3> QED BY <2>1, <3>1, <1>1, <1>2, <1>4
  <2>2. CASE i # 1
    <3>1. PICK j \in 1..Len(q) : i = j + 1 /\ r[i] = q[j]
      BY <2>2, <1>3
    <3>2. j < Len(q) /\ j + 1 \in 1..Len(q)
      BY <3>1, <1>1, <1>2, <1>7
    <3>3. p[r[i]] = q[j + 1]
      BY <3>1, <3>2, <1>1, <1>4
    <3> QED BY <3>1, <3>2, <3>3, <1>2
  <2> QED BY <2>1, <2>2
<1>8. Bottom(r, s, p) = Bottom(q, g, o)
  <2>1. CASE q = << >>
    <3>1. Len(r) = 1
      BY <2>1, <1>2
    <3> QED BY <2>1, <3>1, <1>2, <1>4 DEF Bottom
  <2>2. CASE q # << >>
    <3>1. Len(q) \in 1..Len(q)
      BY <2>2, <1>1
    <3>2. r[Len(r)] = q[Len(q)] /\ q[Len(q)] \in own
      BY <3>1, <1>1, <1>2
    <3> QED BY <2>2, <3>2, <1>2, <1>4 DEF Bottom
  <2> QED BY <2>1, <2>2
<1>9. Bottom(r, s, p) \in Orig(x)
  BY <1>8 DEF Stacked
<1> QED BY <1>2, <1>5, <1>6, <1>7, <1>8, <1>9 DEF Stacked, r

Rest(q) == Tail(q)

LEMMA StackedPop ==
    ASSUME NEW x \in Slot, NEW own \in SUBSET StubId, NEW o, NEW q, NEW s \in own,
           Stacked(x, s, own, o, q), NEW p, \A t \in own \ {s} : p[t] = o[t]
    PROVE  /\ Stacked(x, o[s], own \ {s}, p, Rest(q))
           /\ Bottom(Rest(q), o[s], p) = Bottom(q, s, o)
<1> DEFINE r == Rest(q)
<1>1. /\ q \in Seq(StubId) /\ Len(q) \in Nat /\ own = {q[i] : i \in 1..Len(q)}
      /\ \A i, j \in 1..Len(q) : q[i] = q[j] => i = j
      /\ \A i \in 1..Len(q) : i < Len(q) => o[q[i]] = q[i + 1]
      /\ \A i \in 1..Len(q) : q[i] \in own
      /\ q # << >> /\ q[1] = s
  BY DEF Stacked
<1>2. /\ r \in Seq(StubId) /\ Len(r) = Len(q) - 1 /\ 1 \in 1..Len(q)
      /\ \A i \in 1..Len(r) : r[i] = q[i + 1] /\ i + 1 \in 1..Len(q)
  BY <1>1 DEF Rest
<1> HIDE DEF r
<1>3. \A i \in 1..Len(r) : r[i] \in own \ {s} /\ p[r[i]] = o[r[i]]
  <2>1. \A i \in 1..Len(r) : r[i] \in own /\ r[i] # s
    BY <1>1, <1>2
  <2> QED BY <2>1
<1>4. own \ {s} = {r[i] : i \in 1..Len(r)}
  <2>1. ASSUME NEW t \in own \ {s} PROVE \E i \in 1..Len(r) : r[i] = t
    <3>1. PICK i \in 1..Len(q) : q[i] = t
      BY <1>1
    <3>2. i # 1
      BY <3>1, <1>1
    <3>3. i - 1 \in 1..Len(r) /\ (i - 1) + 1 = i
      BY <3>2, <1>1, <1>2
    <3> QED BY <3>1, <3>3, <1>2
  <2>2. ASSUME NEW i \in 1..Len(r) PROVE r[i] \in own \ {s}
    BY <1>3
  <2>3. \A t : t \in own \ {s} <=> t \in {r[i] : i \in 1..Len(r)}
    BY <2>1, <2>2
  <2> QED BY <2>3
<1>5. ASSUME NEW i \in 1..Len(r), NEW j \in 1..Len(r), r[i] = r[j] PROVE i = j
  <2>1. /\ i + 1 \in 1..Len(q) /\ j + 1 \in 1..Len(q)
        /\ q[i + 1] = q[j + 1]
    BY <1>2, <1>5
  <2>2. i + 1 = j + 1
    BY <2>1, <1>1
  <2> QED BY <2>2
<1>6. r # << >> => r[1] = o[s]
  <2> SUFFICES ASSUME r # << >> PROVE r[1] = o[s]
    OBVIOUS
  <2>1. 1 \in 1..Len(r) /\ 1 < Len(q)
    <3>1. r \in Seq(StubId) /\ r # << >> /\ Len(r) = Len(q) - 1 /\ Len(q) \in Nat
      BY <1>1, <1>2
    <3>2. Len(r) \in Nat /\ Len(r) # 0
      BY <3>1
    <3> QED BY <3>1, <3>2
  <2>2. r[1] = q[1 + 1]
    BY <2>1, <1>2
  <2>3. o[q[1]] = q[1 + 1]
    BY <2>1, <1>1, <1>2
  <2> QED BY <2>2, <2>3, <1>1
<1>7. ASSUME NEW i \in 1..Len(r), i < Len(r) PROVE p[r[i]] = r[i + 1]
  <2>1. /\ i + 1 \in 1..Len(q) /\ i + 1 < Len(q) /\ i + 1 \in 1..Len(r)
        /\ r[i] = q[i + 1] /\ r[i + 1] = q[(i + 1) + 1]
    BY <1>1, <1>2, <1>7
  <2>2. o[q[i + 1]] = q[(i + 1) + 1]
    BY <2>1, <1>1
  <2> QED BY <2>1, <2>2, <1>3
<1>8. Bottom(r, o[s], p) = Bottom(q, s, o)
  <2>1. CASE r = << >>
    <3>1. Len(q) = 1
      BY <2>1, <1>1, <1>2
    <3> QED BY <2>1, <3>1, <1>1 DEF Bottom
  <2>2. CASE r # << >>
    <3>1. Len(r) \in 1..Len(r)
      BY <2>2, <1>2
    <3>2. r[Len(r)] = q[Len(q)]
      BY <3>1, <1>1, <1>2
    <3> QED BY <2>2, <3>1, <3>2, <1>1, <1>3 DEF Bottom
  <2> QED BY <2>1, <2>2
<1>9. Bottom(r, o[s], p) \in Orig(x)
  BY <1>8 DEF Stacked
<1> QED BY <1>1, <1>2, <1>4, <1>5, <1>6, <1>7, <1>8, <1>9 DEF Stacked, r

(* The same for the slots of a stub. *)
Pushed(Q, S, s) == [x \in Slot |-> IF x \in S THEN <<s>> \o Q[x] ELSE Q[x]]
Popped(Q, S)    == [x \in Slot |-> IF x \in S THEN Rest(Q[x]) ELSE Q[x]]
BottomIn(g, o, Q, x) == Bottom(Q[x], g[x], SavesIn(o, x))

LEMMA StacksPush ==
    ASSUME NEW g, NEW o, Store(g, o), NEW Q, Stacks(g, o, Q),
           NEW s \in StubId, DOMAIN o[s] = {}, NEW S \in SUBSET Slot
    PROVE  /\ Stacks(Armed(g, S, s), Patched(o, g, S, s), Pushed(Q, S, s))
           /\ \A x \in Slot :
                 BottomIn(Armed(g, S, s), Patched(o, g, S, s), Pushed(Q, S, s), x) =
                     BottomIn(g, o, Q, x)
<1> DEFINE o2 == Patched(o, g, S, s)
           g2 == Armed(g, S, s)
           Q2 == Pushed(Q, S, s)
<1>1. /\ DOMAIN o2[s] = S /\ \A t \in StubId \ {s} : o2[t] = o[t]
      /\ \A x \in S : o2[s][x] = g[x]
  BY DEF Store, Saved, Patched
<1>2. \A x \in Slot : /\ g2[x] = IF x \in S THEN s ELSE g[x]
                      /\ Q2[x] = IF x \in S THEN <<s>> \o Q[x] ELSE Q[x]
  BY DEF Armed, Pushed
<1> HIDE DEF o2, g2, Q2
<1> SUFFICES ASSUME NEW x \in Slot
             PROVE  /\ Stacked(x, g2[x], OwnIn(o2, x), SavesIn(o2, x), Q2[x])
                    /\ Bottom(Q2[x], g2[x], SavesIn(o2, x)) =
                           Bottom(Q[x], g[x], SavesIn(o, x))
  BY DEF Stacks, BottomIn, o2, g2, Q2
<1>3. /\ Stacked(x, g[x], OwnIn(o, x), SavesIn(o, x), Q[x])
      /\ OwnIn(o, x) \in SUBSET StubId /\ s \in StubId \ OwnIn(o, x)
  BY DEF Stacks, OwnIn
<1>4. CASE x \in S
  <2>1. OwnIn(o2, x) = OwnIn(o, x) \union {s}
    BY <1>1, <1>4 DEF OwnIn
  <2>2. SavesIn(o2, x) = [t \in OwnIn(o, x) \union {s} |->
                            IF t = s THEN g[x] ELSE SavesIn(o, x)[t]]
    BY <1>1, <1>3, <1>4, <2>1 DEF SavesIn
  <2>3. g2[x] = s /\ Q2[x] = <<s>> \o Q[x]
    BY <1>2, <1>4
  <2> DEFINE own == OwnIn(o, x)
             v == SavesIn(o, x)
             p == SavesIn(o2, x)
  <2>4. /\ own \in SUBSET StubId /\ s \in StubId \ own /\ Stacked(x, g[x], own, v, Q[x])
        /\ p = [t \in own \union {s} |-> IF t = s THEN g[x] ELSE v[t]]
    BY <1>3, <2>2
  <2> HIDE DEF own, v, p
  <2>5. /\ Stacked(x, s, own \union {s}, p, <<s>> \o Q[x])
        /\ Bottom(<<s>> \o Q[x], s, p) = Bottom(Q[x], g[x], v)
    BY <2>4, StackedPush
  <2> QED BY <2>1, <2>3, <2>5 DEF own, v, p
<1>5. CASE x \notin S
  <2>1. OwnIn(o2, x) = OwnIn(o, x)
    BY <1>1, <1>3, <1>5 DEF OwnIn
  <2>2. SavesIn(o2, x) = SavesIn(o, x)
    <3>1. \A t \in OwnIn(o, x) : o2[t] = o[t]
      BY <1>1, <1>3
    <3> QED BY <2>1, <3>1, Zenon DEF SavesIn
  <2> QED BY <1>2, <1>3, <1>5, <2>1, <2>2
<1> QED BY <1>4, <1>5

LEMMA StacksPop ==
    ASSUME NEW g, NEW o, Store(g, o), NEW Q, Stacks(g, o, Q),
           NEW s \in StubId, \A x \in DOMAIN o[s] : g[x] = s
    PROVE  /\ Stacks(Disarmed(g, o[s]), Freed(o, s), Popped(Q, DOMAIN o[s]))
           /\ \A x \in Slot :
                 BottomIn(Disarmed(g, o[s]), Freed(o, s), Popped(Q, DOMAIN o[s]), x) =
                     BottomIn(g, o, Q, x)
           /\ \A x \in Slot : x \in DOMAIN o[s] => Q[x] # << >> /\ Q[x][1] = s
<1> DEFINE S  == DOMAIN o[s]
           o2 == Freed(o, s)
           g2 == Disarmed(g, o[s])
           Q2 == Popped(Q, S)
<1>1. DOMAIN o2[s] = {} /\ \A t \in StubId \ {s} : o2[t] = o[t]
  BY DEF Store, NoSlots, Freed
<1>2. \A x \in Slot : /\ g2[x] = IF x \in S THEN o[s][x] ELSE g[x]
                      /\ Q2[x] = IF x \in S THEN Rest(Q[x]) ELSE Q[x]
  BY DEF Disarmed, Popped
<1> HIDE DEF o2, g2, Q2
<1> SUFFICES ASSUME NEW x \in Slot
             PROVE  /\ Stacked(x, g2[x], OwnIn(o2, x), SavesIn(o2, x), Q2[x])
                    /\ Bottom(Q2[x], g2[x], SavesIn(o2, x)) =
                           Bottom(Q[x], g[x], SavesIn(o, x))
                    /\ x \in S => Q[x] # << >> /\ Q[x][1] = s
  BY DEF Stacks, BottomIn, o2, g2, Q2
<1>3. /\ Stacked(x, g[x], OwnIn(o, x), SavesIn(o, x), Q[x])
      /\ OwnIn(o, x) \in SUBSET StubId /\ OwnIn(o2, x) = OwnIn(o, x) \ {s}
  BY <1>1 DEF Stacks, OwnIn
<1>4. CASE x \in S
  <2>1. s \in OwnIn(o, x) /\ g[x] = s /\ SavesIn(o, x)[s] = o[s][x]
    BY <1>4 DEF OwnIn, SavesIn
  <2>2. SavesIn(o2, x) = [t \in OwnIn(o, x) \ {s} |-> SavesIn(o, x)[t]]
    BY <1>1, <1>3 DEF SavesIn
  <2>3. g2[x] = SavesIn(o, x)[s] /\ Q2[x] = Rest(Q[x])
    BY <1>2, <1>4, <2>1
  <2>4. Stacked(x, s, OwnIn(o, x), SavesIn(o, x), Q[x])
    BY <1>3, <2>1
  <2>5. Q[x] # << >> /\ Q[x][1] = s
    BY <2>1, <2>4 DEF Stacked
  <2> DEFINE own == OwnIn(o, x)
             v == SavesIn(o, x)
             p == SavesIn(o2, x)
  <2>6. /\ own \in SUBSET StubId /\ s \in own /\ Stacked(x, s, own, v, Q[x])
        /\ \A t \in own \ {s} : p[t] = v[t]
    BY <1>3, <2>1, <2>2, <2>4
  <2> HIDE DEF own, v, p
  <2>7. /\ Stacked(x, v[s], own \ {s}, p, Rest(Q[x]))
        /\ Bottom(Rest(Q[x]), v[s], p) = Bottom(Q[x], s, v)
    BY <2>6, StackedPop
  <2> QED BY <1>3, <2>1, <2>3, <2>5, <2>7 DEF own, v, p
<1>5. CASE x \notin S
  <2>1. OwnIn(o2, x) = OwnIn(o, x)
    BY <1>3, <1>5 DEF OwnIn
  <2>2. SavesIn(o2, x) = SavesIn(o, x)
    <3>1. \A t \in OwnIn(o, x) : o2[t] = o[t]
      BY <1>1, <1>3, <1>5, <2>1
    <3> QED BY <2>1, <3>1, Zenon DEF SavesIn
  <2> QED BY <1>2, <1>3, <1>5, <2>1, <2>2
<1> QED BY <1>4, <1>5

LEMMA StacksAre ==
    ASSUME NEW x \in Slot, NEW Q, Stacks(got, old, Q), NEW R, Stacks(got', old', R)
    PROVE  /\ Stack(x) = Q[x] /\ Base(x) = BottomIn(got, old, Q, x)
           /\ Stack(x)' = R[x] /\ Base(x)' = BottomIn(got', old', R, x)
<1>1. Stack(x) = StackIn(got, old, x) /\ Stack(x)' = StackIn(got', old', x)
  BY DEF Stack, StackIn, Orders, OrdersIn, Own, OwnIn
<1>2. /\ Stacked(x, got[x], OwnIn(old, x), SavesIn(old, x), Q[x])
      /\ Stacked(x, got'[x], OwnIn(old', x), SavesIn(old', x), R[x])
  BY DEF Stacks
<1>3. /\ StackIn(got, old, x) = Q[x]
      /\ BaseIn(got, old, x, Q[x]) = Bottom(Q[x], got[x], SavesIn(old, x))
  BY <1>2, StackIs
<1>4. /\ StackIn(got', old', x) = R[x]
      /\ BaseIn(got', old', x, R[x]) = Bottom(R[x], got'[x], SavesIn(old', x))
  BY <1>2, StackIs
<1>5. Base(x) = BottomIn(got, old, Q, x)
  BY <1>1, <1>3 DEF Base, BaseIn, BottomIn
<1>6. Base(x)' = BottomIn(got', old', R, x)
  BY <1>1, <1>4 DEF Base, BaseIn, BottomIn
<1> QED BY <1>1, <1>3, <1>4, <1>5, <1>6

-----------------------------------------------------------------------------
(* Layers: what the stubs L of one handle installed. *)
LayerWith(o, L) ==
    [x \in UNION {DOMAIN o[s] : s \in L} |-> CHOOSE s \in L : x \in DOMAIN o[s]]

LEMMA LayerIs ==
    ASSUME NEW o, NEW L, \A s, t \in L : s # t => DOMAIN o[s] \intersect DOMAIN o[t] = {}
    PROVE  /\ \A x : x \in DOMAIN LayerWith(o, L) <=> \E s \in L : x \in DOMAIN o[s]
           /\ \A s \in L : \A x \in DOMAIN o[s] : LayerWith(o, L)[x] = s
<1>1. \A x : x \in DOMAIN LayerWith(o, L) <=> \E s \in L : x \in DOMAIN o[s]
  BY DEF LayerWith
<1>2. ASSUME NEW s \in L, NEW x \in DOMAIN o[s] PROVE LayerWith(o, L)[x] = s
  <2>1. x \in DOMAIN LayerWith(o, L)
    BY <1>1
  <2>2. LayerWith(o, L)[x] = CHOOSE t \in L : x \in DOMAIN o[t]
    BY <2>1 DEF LayerWith
  <2>3. \A t \in L : x \in DOMAIN o[t] <=> t = s
    OBVIOUS
  <2> QED BY <2>2, <2>3
<1> QED BY <1>1, <1>2

LEMMA LayerSame ==
    ASSUME NEW o, NEW o2, NEW L, \A s \in L : o2[s] = o[s],
           \A s, t \in L : s # t => DOMAIN o[s] \intersect DOMAIN o[t] = {}
    PROVE  LayerWith(o2, L) = LayerWith(o, L)
<1> DEFINE f == LayerWith(o, L)
           f2 == LayerWith(o2, L)
<1>1. /\ \A x : x \in DOMAIN f <=> \E s \in L : x \in DOMAIN o[s]
      /\ \A s \in L : \A x \in DOMAIN o[s] : f[x] = s
  BY LayerIs
<1>2. /\ \A x : x \in DOMAIN f2 <=> \E s \in L : x \in DOMAIN o2[s]
      /\ \A s \in L : \A x \in DOMAIN o2[s] : f2[x] = s
  <2>1. \A s, t \in L : s # t => DOMAIN o2[s] \intersect DOMAIN o2[t] = {}
    OBVIOUS
  <2> QED BY <2>1, LayerIs
<1>3. f = [x \in DOMAIN f |-> f[x]] /\ f2 = [x \in DOMAIN f2 |-> f2[x]]
  BY DEF LayerWith
<1> HIDE DEF f, f2
<1>4. DOMAIN f2 = DOMAIN f
  <2>1. \A x : x \in DOMAIN f2 <=> x \in DOMAIN f
    BY <1>1, <1>2
  <2> QED BY <2>1
<1>5. \A x \in DOMAIN f : f2[x] = f[x]
  BY <1>1, <1>2
<1> QED BY <1>3, <1>4, <1>5 DEF f, f2

LEMMA LayersApart ==
    ASSUME IInv
    PROVE  /\ \A h \in Heads : LayerOf(h) = LayerWith(old, ListOf(h))
           /\ \A h \in Heads : \A s, t \in ListOf(h) :
                 s # t => DOMAIN old[s] \intersect DOMAIN old[t] = {}
           /\ \A h \in Heads : LayerOf(h) \in I!Layer
           /\ \A h \in Heads : \A x \in DOMAIN LayerOf(h) :
                 LayerOf(h)[x] \in ListOf(h) /\ x \in DOMAIN old[LayerOf(h)[x]]
<1>1. \A h \in Heads : LayerOf(h) = LayerWith(old, ListOf(h))
  BY DEF LayerOf, LayerWith
<1>2. \A h \in Heads : \A s, t \in ListOf(h) :
         s # t => DOMAIN old[s] \intersect DOMAIN old[t] = {}
  BY DEF ListOf, IInv, Lists, TypeOK, Heads
<1> SUFFICES ASSUME NEW h \in Heads
             PROVE  /\ LayerOf(h) \in I!Layer
                    /\ \A x \in DOMAIN LayerOf(h) :
                          LayerOf(h)[x] \in ListOf(h) /\ x \in DOMAIN old[LayerOf(h)[x]]
  BY <1>1, <1>2
<1> DEFINE f == LayerOf(h)
<1>3. /\ \A x : x \in DOMAIN f <=> \E s \in ListOf(h) : x \in DOMAIN old[s]
      /\ \A s \in ListOf(h) : \A x \in DOMAIN old[s] : f[x] = s
  BY <1>1, <1>2, LayerIs
<1>4. f = [x \in DOMAIN f |-> f[x]]
  BY DEF LayerOf
<1> HIDE DEF f
<1>5. \A x \in DOMAIN f : f[x] \in ListOf(h) /\ x \in DOMAIN old[f[x]]
  BY <1>3
<1>6. ListOf(h) \subseteq Live /\ h \in Live /\ h \in ListOf(h)
  BY ListsApart DEF ListOf
<1>7. \A s \in Live : s \in StubId /\ DOMAIN old[s] \in SUBSET Slot /\ DOMAIN old[s] # {}
  <2> SUFFICES ASSUME NEW s \in Live
               PROVE  s \in StubId /\ DOMAIN old[s] \in SUBSET Slot /\ DOMAIN old[s] # {}
    OBVIOUS
  <2>1. s \in StubId /\ old[s] \in UNION {[S -> Addr] : S \in SUBSET Slot}
    BY DEF IInv, TypeOK, Live
  <2> QED BY <2>1 DEF Live
<1>8. DOMAIN f \in SUBSET Slot /\ DOMAIN f # {} /\ \A x \in DOMAIN f : f[x] \in StubId
  BY <1>3, <1>5, <1>6, <1>7
<1>9. f \in [DOMAIN f -> StubId]
  BY <1>4, <1>8
<1>10. f \in I!Layer
  BY <1>8, <1>9 DEF I!Layer
<1> QED BY <1>5, <1>10 DEF f

-----------------------------------------------------------------------------
(* The two steps of the abstraction, in terms of slots and layers. *)
LEMMA InstallRefines ==
    ASSUME IInv, NEW h, Heads' = Heads \union {h},
           \A k \in Heads : LayerOf(k)' = LayerOf(k),
           NEW f \in I!Layer, LayerOf(h)' = f, \A x \in DOMAIN f : f[x] \notin Live,
           \A x \in Slot : Stack(x)' = IF x \in DOMAIN f THEN <<f[x]>> \o Stack(x)
                                                          ELSE Stack(x),
           \A x \in Slot : Base(x)' = Base(x)
    PROVE  I!Install(f)
<1>1. \A g \in {LayerOf(k) : k \in Heads} : I!Ids(f) \intersect I!Ids(g) = {}
  <2> SUFFICES ASSUME NEW k \in Heads, NEW x \in DOMAIN f, NEW y \in DOMAIN LayerOf(k),
                      f[x] = LayerOf(k)[y]
               PROVE  FALSE
    BY DEF I!Ids
  <2>1. LayerOf(k)[y] \in Live
    BY LayersApart, ListsApart
  <2> QED BY <2>1
<1>2. {LayerOf(k) : k \in Heads}' = {LayerOf(k) : k \in Heads} \union {f}
  <2>1. {LayerOf(k) : k \in Heads}' = {LayerOf(k)' : k \in Heads'}
    OBVIOUS
  <2>2. \A g : g \in {LayerOf(k)' : k \in Heads'} <=> g \in {LayerOf(k) : k \in Heads} \union {f}
    OBVIOUS
  <2> QED BY <2>1, <2>2
<1>3. [x \in Slot |-> Stack(x)]' =
         [x \in Slot |-> IF x \in DOMAIN f THEN <<f[x]>> \o [y \in Slot |-> Stack(y)][x]
                                           ELSE [y \in Slot |-> Stack(y)][x]]
  OBVIOUS
<1>4. UNCHANGED [x \in Slot |-> Base(x) = Real[x]]
  OBVIOUS
<1> QED BY <1>1, <1>2, <1>3, <1>4 DEF I!Install

LEMMA RemoveRefines ==
    ASSUME IInv, NEW h \in Heads, Heads' = Heads \ {h},
           \A k \in Heads' : LayerOf(k)' = LayerOf(k),
           NEW f, LayerOf(h) = f,
           \A x \in Slot : Stack(x)' = IF x \in DOMAIN f THEN Tail(Stack(x)) ELSE Stack(x),
           \A x \in DOMAIN f : Stack(x) # << >> /\ Stack(x)[1] = f[x],
           \A x \in Slot : Base(x)' = Base(x)
    PROVE  f \in I!Layer /\ I!Remove(f)
<1>0. f \in I!Layer /\ DOMAIN f \subseteq Slot
  BY LayersApart DEF I!Layer
<1>1. f \in {LayerOf(k) : k \in Heads}
  OBVIOUS
<1>2. \A x \in DOMAIN f : /\ [y \in Slot |-> Stack(y)][x] # << >>
                          /\ Head([y \in Slot |-> Stack(y)][x]) = f[x]
  BY <1>0
<1>3. {LayerOf(k) : k \in Heads}' = {LayerOf(k) : k \in Heads} \ {f}
  <2>1. \A k \in Heads \ {h} : LayerOf(k) # f
    <3> SUFFICES ASSUME NEW k \in Heads \ {h}, LayerOf(k) = f PROVE FALSE
      OBVIOUS
    <3>1. PICK x : x \in DOMAIN f
      BY LayersApart DEF I!Layer
    <3>2. f[x] \in ListOf(k) /\ f[x] \in ListOf(h)
      BY <3>1, LayersApart
    <3> QED BY <3>2, ListsApart
  <2>2. {LayerOf(k) : k \in Heads}' = {LayerOf(k)' : k \in Heads'}
    OBVIOUS
  <2>3. \A g : g \in {LayerOf(k)' : k \in Heads'} <=> g \in {LayerOf(k) : k \in Heads} \ {f}
    BY <2>1
  <2> QED BY <2>2, <2>3
<1>4. [x \in Slot |-> Stack(x)]' =
         [x \in Slot |-> IF x \in DOMAIN f THEN Tail([y \in Slot |-> Stack(y)][x])
                                           ELSE [y \in Slot |-> Stack(y)][x]]
  OBVIOUS
<1>5. UNCHANGED [x \in Slot |-> Base(x) = Real[x]]
  OBVIOUS
<1> QED BY <1>0, <1>1, <1>2, <1>3, <1>4, <1>5 DEF I!Remove

-----------------------------------------------------------------------------
LEMMA LayerKept ==
    ASSUME IInv, NEW k \in Heads, ListOf(k)' = ListOf(k),
           \A s \in ListOf(k) : old'[s] = old[s]
    PROVE  LayerOf(k)' = LayerOf(k)
<1>1. LayerOf(k)' = LayerWith(old', ListOf(k)')
  BY DEF LayerOf, LayerWith
<1>2. /\ LayerOf(k) = LayerWith(old, ListOf(k))
      /\ \A s, t \in ListOf(k) : s # t => DOMAIN old[s] \intersect DOMAIN old[t] = {}
  BY LayersApart
<1> DEFINE L == ListOf(k)
<1>3. LayerWith(old', L) = LayerWith(old, L)
  <2>1. /\ \A s \in L : old'[s] = old[s]
        /\ \A s, t \in L : s # t => DOMAIN old[s] \intersect DOMAIN old[t] = {}
    BY <1>2
  <2> HIDE DEF L
  <2> QED BY <2>1, LayerSame
<1> QED BY <1>1, <1>2, <1>3

(* A handle with one stub installs a layer of that stub. *)
LEMMA CreateOneRefines ==
    ASSUME IInv, StacksInv,
           NEW s \in StubId \ Live, NEW S \in SUBSET Slot, S # {},
           got'  = Armed(got, S, s),
           old'  = Patched(old, got, S, s),
           next' = [next EXCEPT ![s] = NULL],
           Heads' = Heads \union {s}
    PROVE  StacksInv' /\ \E f \in I!Layer : I!Install(f)
<1>1. PICK Q : Stacks(got, old, Q)
  BY DEF StacksInv
<1>2. PICK R : R = Pushed(Q, S, s)
  OBVIOUS
<1>3. DOMAIN old[s] = {} /\ Store(got, old) /\ s \in StubId
  BY DEF Live, IInv
<1>4. /\ Stacks(got', old', R)
      /\ \A x \in Slot : BottomIn(got', old', R, x) = BottomIn(got, old, Q, x)
  <2>1. /\ Stacks(Armed(got, S, s), Patched(old, got, S, s), Pushed(Q, S, s))
        /\ \A x \in Slot :
              BottomIn(Armed(got, S, s), Patched(old, got, S, s), Pushed(Q, S, s), x) =
                  BottomIn(got, old, Q, x)
    BY <1>1, <1>3, StacksPush
  <2> QED BY <1>2, <2>1
<1>5. /\ old'[s] = Saved(got, S) /\ DOMAIN old'[s] = S
      /\ \A t \in StubId \ {s} : old'[t] = old[t]
  BY DEF IInv, TypeOK, Patched, Saved
<1> DEFINE f == [x \in S |-> s]
<1>6. f \in I!Layer /\ DOMAIN f = S /\ \A x \in S : f[x] = s
  <2>1. f \in [S -> StubId] /\ S \in (SUBSET Slot) \ {{}}
    BY <1>3
  <2> QED BY <2>1 DEF I!Layer
<1>7. LayerOf(s)' = f
  <2>1. ListOf(s)' = {s}
    BY DEF ListOf, IInv, TypeOK
  <2>2. LayerOf(s)' = LayerWith(old', {s})
    BY <2>1 DEF LayerOf, LayerWith
  <2>3. UNION {DOMAIN old'[t] : t \in {s}} = S
    BY <1>5
  <2>4. \A x \in S : (CHOOSE t \in {s} : x \in DOMAIN old'[t]) = s
    BY <1>5
  <2> QED BY <2>2, <2>3, <2>4 DEF LayerWith
<1>8. \A k \in Heads : LayerOf(k)' = LayerOf(k)
  <2> SUFFICES ASSUME NEW k \in Heads PROVE LayerOf(k)' = LayerOf(k)
    OBVIOUS
  <2>1. k \in StubId \ {s} /\ ListOf(k) \subseteq StubId \ {s}
    BY ListsApart DEF Live
  <2>2. ListOf(k)' = ListOf(k)
    BY <2>1 DEF ListOf, IInv, TypeOK
  <2> QED BY <1>5, <2>1, <2>2, LayerKept
<1>9. \A x \in Slot : /\ Stack(x)' = IF x \in S THEN <<s>> \o Stack(x) ELSE Stack(x)
                      /\ Base(x)' = Base(x)
  <2>1. \A x \in Slot : R[x] = IF x \in S THEN <<s>> \o Q[x] ELSE Q[x]
    BY <1>2 DEF Pushed
  <2>2. ASSUME NEW x \in Slot
        PROVE  /\ Stack(x) = Q[x] /\ Base(x) = BottomIn(got, old, Q, x)
               /\ Stack(x)' = R[x] /\ Base(x)' = BottomIn(got', old', R, x)
    BY <1>1, <1>4, StacksAre
  <2> QED BY <1>4, <2>1, <2>2
<1> HIDE DEF f
<1>10. \A x \in Slot : Stack(x)' = IF x \in DOMAIN f THEN <<f[x]>> \o Stack(x)
                                                     ELSE Stack(x)
  BY <1>6, <1>9
<1>11. \A x \in DOMAIN f : f[x] \notin Live
  BY <1>6
<1>12. I!Install(f)
  BY <1>6, <1>7, <1>8, <1>9, <1>10, <1>11, InstallRefines
<1>13. StacksInv'
  BY <1>4 DEF StacksInv
<1> QED BY <1>6, <1>12, <1>13

(* A mock with a second stub installs one layer of both: no slot is theirs *)
(* in common.                                                              *)
LEMMA CreateTwoRefines ==
    ASSUME IInv, StacksInv, ScopesApart,
           NEW scope \in Scope, NEW sym \in Symbol,
           NEW s \in StubId, NEW t \in StubId,
           CreateMockTwo(scope, sym, s, t)
    PROVE  StacksInv' /\ \E f \in I!Layer : I!Install(f)
<1> DEFINE S  == SlotsOf[scope, sym]
           T  == SlotsOf[SelfScope, sym]
           g  == Armed(got, S, s)
           o1 == Patched(old, got, S, s)
<1>1. PICK Q : Stacks(got, old, Q)
  BY DEF StacksInv
<1>2. /\ S \in SUBSET Slot /\ S # {} /\ T \in SUBSET Slot /\ T # {}
      /\ s # t /\ s \notin Live /\ t \notin Live /\ S \intersect T = {}
  BY ScopeAssumption DEF ScopesApart, CreateMockTwo
<1>3. old' = Patched(o1, g, T, t) /\ got' = Armed(g, T, t)
  BY DEF CreateMockTwo, Patched
<1>4. DOMAIN old[s] = {} /\ DOMAIN o1[t] = {} /\ Store(got, old)
  BY <1>2 DEF Live, IInv, TypeOK, Patched
<1>5. next' = [next EXCEPT ![s] = t, ![t] = NULL] /\ Heads' = Heads \union {s}
  BY DEF CreateMockTwo, Heads
<1>6. /\ DOMAIN old'[s] = S /\ DOMAIN old'[t] = T
      /\ \A u \in StubId \ {s, t} : old'[u] = old[u]
  BY <1>2, <1>3 DEF IInv, TypeOK, Patched, Saved
<1> HIDE DEF S, T
<1>7. Store(g, o1)
  BY <1>2, <1>4, StorePush DEF Patched
<1> HIDE DEF g, o1
<1>8. PICK P : P = Pushed(Q, S, s)
  OBVIOUS
<1>9. PICK R : R = Pushed(P, T, t)
  OBVIOUS
<1>10. Stacks(g, o1, P) /\ \A x \in Slot : BottomIn(g, o1, P, x) = BottomIn(got, old, Q, x)
  <2>1. /\ Stacks(Armed(got, S, s), Patched(old, got, S, s), Pushed(Q, S, s))
        /\ \A x \in Slot :
              BottomIn(Armed(got, S, s), Patched(old, got, S, s), Pushed(Q, S, s), x) =
                  BottomIn(got, old, Q, x)
    BY <1>1, <1>2, <1>4, StacksPush
  <2> QED BY <1>8, <2>1 DEF g, o1
<1>11. Stacks(got', old', R) /\ \A x \in Slot : BottomIn(got', old', R, x) = BottomIn(g, o1, P, x)
  <2>1. /\ Stacks(Armed(g, T, t), Patched(o1, g, T, t), Pushed(P, T, t))
        /\ \A x \in Slot :
              BottomIn(Armed(g, T, t), Patched(o1, g, T, t), Pushed(P, T, t), x) =
                  BottomIn(g, o1, P, x)
    BY <1>2, <1>4, <1>7, <1>10, StacksPush
  <2> QED BY <1>3, <1>9, <2>1
<1> DEFINE f == [x \in S \union T |-> IF x \in S THEN s ELSE t]
<1>12. /\ f \in I!Layer /\ DOMAIN f = S \union T
       /\ \A x \in S : f[x] = s
       /\ \A x \in T : f[x] = t
  <2>1. f \in [S \union T -> StubId] /\ S \union T \in (SUBSET Slot) \ {{}}
    BY <1>2
  <2>2. f \in I!Layer
    BY <2>1 DEF I!Layer
  <2> QED BY <2>2, <1>2
<1>13. LayerOf(s)' = f
  <2>1. ListOf(s)' = {s, t}
    BY <1>2, <1>5, AddressAssumption DEF ListOf, IInv, TypeOK
  <2>2. LayerOf(s)' = LayerWith(old', {s, t})
    BY <2>1 DEF LayerOf, LayerWith
  <2>3. UNION {DOMAIN old'[u] : u \in {s, t}} = S \union T
    BY <1>6
  <2>4. ASSUME NEW x \in S \union T
        PROVE  (CHOOSE u \in {s, t} : x \in DOMAIN old'[u]) = IF x \in S THEN s ELSE t
    BY <1>2, <1>6
  <2> QED BY <2>2, <2>3, <2>4 DEF LayerWith
<1>14. \A k \in Heads : LayerOf(k)' = LayerOf(k)
  <2> SUFFICES ASSUME NEW k \in Heads PROVE LayerOf(k)' = LayerOf(k)
    OBVIOUS
  <2>1. k \in StubId \ {s, t} /\ ListOf(k) \subseteq StubId \ {s, t}
    BY <1>2, ListsApart DEF Live
  <2>2. ListOf(k)' = ListOf(k)
    BY <1>5, <2>1 DEF ListOf, IInv, TypeOK
  <2> QED BY <1>6, <2>1, <2>2, LayerKept
<1> HIDE DEF f
<1>15. \A x \in Slot : /\ Stack(x)' = IF x \in DOMAIN f THEN <<f[x]>> \o Stack(x)
                                                        ELSE Stack(x)
                       /\ Base(x)' = Base(x)
  <2>1. \A x \in Slot : /\ P[x] = IF x \in S THEN <<s>> \o Q[x] ELSE Q[x]
                        /\ R[x] = IF x \in T THEN <<t>> \o P[x] ELSE P[x]
    BY <1>8, <1>9 DEF Pushed
  <2>2. ASSUME NEW x \in Slot
        PROVE  /\ Stack(x) = Q[x] /\ Base(x) = BottomIn(got, old, Q, x)
               /\ Stack(x)' = R[x] /\ Base(x)' = BottomIn(got', old', R, x)
    BY <1>1, <1>11, StacksAre
  <2>3. \A x \in Slot : R[x] = IF x \in DOMAIN f THEN <<f[x]>> \o Q[x] ELSE Q[x]
    BY <1>2, <1>12, <2>1
  <2>4. \A x \in Slot : BottomIn(got', old', R, x) = BottomIn(got, old, Q, x)
    BY <1>10, <1>11
  <2> QED BY <2>2, <2>3, <2>4
<1>16. \A x \in DOMAIN f : f[x] \notin Live
  BY <1>2, <1>12
<1>17. I!Install(f)
  BY <1>5, <1>12, <1>13, <1>14, <1>15, <1>16, InstallRefines
<1>18. StacksInv'
  BY <1>11 DEF StacksInv
<1> QED BY <1>12, <1>17, <1>18

(* Destroying a handle that is in force removes its layer. *)
LEMMA DestroyRefines ==
    ASSUME IInv, StacksInv, Careful,
           NEW h \in Heads, DestroyList(h), Heads' = Heads \ {h}
    PROVE  StacksInv' /\ \E f \in I!Layer : I!Remove(f)
<1>1. PICK Q : Stacks(got, old, Q)
  BY DEF StacksInv
<1>2. /\ h \in StubId /\ Store(got, old)
      /\ \A s \in ListOf(h) : \A x \in DOMAIN old[s] : got[x] = s
  BY InForceIsTop DEF DestroyList, IInv, TypeOK, Heads
<1>3. \A x \in DOMAIN old[h] : got[x] = h
  BY <1>2 DEF ListOf
<1> DEFINE S  == DOMAIN old[h]
           g  == Disarmed(got, old[h])
           o1 == Freed(old, h)
<1>4. Store(g, o1)
  BY <1>2, <1>3, StorePop DEF Freed
<1>5. PICK P : P = Popped(Q, S)
  OBVIOUS
<1>6. /\ Stacks(g, o1, P)
      /\ \A x \in Slot : BottomIn(g, o1, P, x) = BottomIn(got, old, Q, x)
      /\ \A x \in Slot : x \in S => Q[x] # << >> /\ Q[x][1] = h
  <2>1. /\ Stacks(Disarmed(got, old[h]), Freed(old, h), Popped(Q, DOMAIN old[h]))
        /\ \A x \in Slot :
              BottomIn(Disarmed(got, old[h]), Freed(old, h), Popped(Q, DOMAIN old[h]), x) =
                  BottomIn(got, old, Q, x)
        /\ \A x \in Slot : x \in DOMAIN old[h] => Q[x] # << >> /\ Q[x][1] = h
    BY <1>1, <1>2, <1>3, StacksPop
  <2> QED BY <1>5, <2>1
<1>7. \A x \in Slot : P[x] = IF x \in S THEN Rest(Q[x]) ELSE Q[x]
  BY <1>5 DEF Popped
<1>8. /\ \A x : x \in DOMAIN LayerOf(h) <=> \E s \in ListOf(h) : x \in DOMAIN old[s]
      /\ \A s \in ListOf(h) : \A x \in DOMAIN old[s] : LayerOf(h)[x] = s
      /\ LayerOf(h) \in I!Layer
  BY LayersApart, LayerIs
<1> HIDE DEF S, g, o1
<1>9. \E R : /\ Stacks(got', old', R)
             /\ \A x \in Slot : BottomIn(got', old', R, x) = BottomIn(got, old, Q, x)
             /\ \A x \in Slot : R[x] = IF x \in DOMAIN LayerOf(h) THEN Rest(Q[x]) ELSE Q[x]
             /\ \A x \in DOMAIN LayerOf(h) : Q[x] # << >> /\ Q[x][1] = LayerOf(h)[x]
  <2>0. \A x \in DOMAIN LayerOf(h) : x \in Slot
    BY <1>8 DEF I!Layer
  <2>1. CASE next[h] = NULL
    <3>1. got' = g /\ old' = o1 /\ ListOf(h) = {h}
      BY <2>1 DEF DestroyList, ListOf, g, o1, Freed
    <3>2. \A x : x \in DOMAIN LayerOf(h) <=> x \in S
      BY <1>8, <3>1 DEF S
    <3>3. \A x \in DOMAIN LayerOf(h) : LayerOf(h)[x] = h
      BY <1>8, <3>1, <3>2 DEF S
    <3> QED BY <1>6, <1>7, <2>0, <3>1, <3>2, <3>3
  <2>2. CASE next[h] # NULL
    <3> DEFINE n == next[h]
               T == DOMAIN o1[n]
    <3>1. /\ got' = Disarmed(g, old[n])
          /\ old' = [old EXCEPT ![h] = NoSlots, ![n] = NoSlots]
          /\ ListOf(h) = {h, n}
      BY <2>2 DEF DestroyList, ListOf, g
    <3>2. n \in StubId /\ n # h /\ DOMAIN old[h] \intersect DOMAIN old[n] = {}
      BY <2>2 DEF IInv, Lists, TypeOK, Heads, Live
    <3>3. o1[n] = old[n] /\ old' = Freed(o1, n)
      BY <3>1, <3>2 DEF IInv, TypeOK, o1, Freed
    <3>4. DOMAIN old[n] \subseteq Slot
      <4> HIDE DEF n
      <4>1. old[n] \in UNION {[U -> Addr] : U \in SUBSET Slot}
        BY <3>2 DEF IInv, TypeOK
      <4> QED BY <4>1
    <3>5. \A x \in DOMAIN o1[n] : g[x] = n
      <4>1. \A x \in DOMAIN old[n] : got[x] = n /\ x \notin DOMAIN old[h]
        BY <1>2, <3>1, <3>2
      <4> QED BY <3>3, <3>4, <4>1 DEF Disarmed, g
    <3>6. got' = Disarmed(g, o1[n])
      BY <3>1, <3>3
    <3> HIDE DEF n
    <3>7. PICK R : R = Popped(P, T)
      OBVIOUS
    <3>8. /\ Stacks(got', old', R)
          /\ \A x \in Slot : BottomIn(got', old', R, x) = BottomIn(g, o1, P, x)
          /\ \A x \in Slot : x \in T => P[x] # << >> /\ P[x][1] = n
      <4>1. /\ Stacks(Disarmed(g, o1[n]), Freed(o1, n), Popped(P, DOMAIN o1[n]))
            /\ \A x \in Slot :
                  BottomIn(Disarmed(g, o1[n]), Freed(o1, n), Popped(P, DOMAIN o1[n]), x) =
                      BottomIn(g, o1, P, x)
            /\ \A x \in Slot : x \in DOMAIN o1[n] => P[x] # << >> /\ P[x][1] = n
        BY <1>4, <1>6, <3>2, <3>5, StacksPop
      <4> QED BY <3>3, <3>6, <3>7, <4>1
    <3>9. \A x \in Slot : R[x] = IF x \in T THEN Rest(P[x]) ELSE P[x]
      BY <3>7 DEF Popped
    <3>10. /\ T = DOMAIN old[n] /\ S \intersect T = {}
           /\ \A x : x \in DOMAIN LayerOf(h) <=> x \in S \/ x \in T
           /\ \A x \in S : LayerOf(h)[x] = h
           /\ \A x \in T : LayerOf(h)[x] = n
      BY <1>8, <3>1, <3>2, <3>3 DEF S
    <3> HIDE DEF T
    <3>11. \A x \in Slot : R[x] = IF x \in DOMAIN LayerOf(h) THEN Rest(Q[x]) ELSE Q[x]
      BY <1>7, <3>9, <3>10
    <3>12. \A x \in DOMAIN LayerOf(h) : Q[x] # << >> /\ Q[x][1] = LayerOf(h)[x]
      BY <1>6, <1>7, <2>0, <3>8, <3>10
    <3>13. \A x \in Slot : BottomIn(got', old', R, x) = BottomIn(got, old, Q, x)
      BY <1>6, <3>8
    <3> QED BY <3>8, <3>11, <3>12, <3>13
  <2> QED BY <2>1, <2>2
<1>10. PICK R :
          /\ Stacks(got', old', R)
          /\ \A x \in Slot : BottomIn(got', old', R, x) = BottomIn(got, old, Q, x)
          /\ \A x \in Slot : R[x] = IF x \in DOMAIN LayerOf(h) THEN Rest(Q[x]) ELSE Q[x]
          /\ \A x \in DOMAIN LayerOf(h) : Q[x] # << >> /\ Q[x][1] = LayerOf(h)[x]
  BY <1>9
<1>11. PICK f : f = LayerOf(h)
  OBVIOUS
<1>12. \A k \in Heads' : LayerOf(k)' = LayerOf(k)
  <2> SUFFICES ASSUME NEW k \in Heads, k # h PROVE LayerOf(k)' = LayerOf(k)
    OBVIOUS
  <2>1. /\ k \in StubId /\ ListOf(k) \subseteq StubId
        /\ \A s \in ListOf(k) : s \notin ListOf(h)
    BY ListsApart DEF Live
  <2>2. ListOf(k)' = ListOf(k)
    BY <2>1 DEF DestroyList, ListOf, IInv, TypeOK
  <2>3. \A s \in StubId : s \notin ListOf(h) => old'[s] = old[s]
    BY DEF DestroyList, ListOf, IInv, TypeOK
  <2> QED BY <2>1, <2>2, <2>3, LayerKept
<1>13. ASSUME NEW x \in Slot
       PROVE  /\ Stack(x) = Q[x] /\ Base(x) = BottomIn(got, old, Q, x)
              /\ Stack(x)' = R[x] /\ Base(x)' = BottomIn(got', old', R, x)
  BY <1>1, <1>10, StacksAre
<1>14. \A x \in DOMAIN f : x \in Slot
  BY <1>8, <1>11 DEF I!Layer
<1>15. /\ \A x \in Slot : Stack(x)' = IF x \in DOMAIN f THEN Tail(Stack(x)) ELSE Stack(x)
       /\ \A x \in DOMAIN f : Stack(x) # << >> /\ Stack(x)[1] = f[x]
       /\ \A x \in Slot : Base(x)' = Base(x)
  BY <1>10, <1>11, <1>13, <1>14 DEF Rest
<1>16. f \in I!Layer /\ I!Remove(f)
  BY <1>11, <1>12, <1>15, RemoveRefines
<1>17. StacksInv'
  BY <1>10 DEF StacksInv
<1> QED BY <1>16, <1>17

(* The linker binds a slot that nothing covers, if it leads elsewhere yet. *)
LEMMA BindRefines ==
    ASSUME IInv, StacksInv, NEW y \in Slot, Bind(y)
    PROVE  StacksInv' /\ (I!Bind(y) \/ UNCHANGED I!ivars)
<1>1. PICK Q : Stacks(got, old, Q)
  BY DEF StacksInv
<1>2. /\ UNCHANGED <<old, next, held, mocks>> /\ got' = [got EXCEPT ![y] = Real[y]]
      /\ got[y] = Lazy[y] /\ got[y] \notin StubId
  BY AddressAssumption DEF Bind
<1>3. got'[y] = Real[y] /\ \A x \in Slot \ {y} : got'[x] = got[x]
  BY <1>2 DEF IInv, TypeOK
<1>4. OwnIn(old, y) = {}
  BY <1>2 DEF IInv, Store, Chain, OwnIn
<1>5. Q[y] = << >>
  <2>1. Stacked(y, got[y], OwnIn(old, y), SavesIn(old, y), Q[y])
    BY <1>1 DEF Stacks
  <2>0. Q[y] \in Seq(StubId) /\ OwnIn(old, y) = {Q[y][i] : i \in 1..Len(Q[y])}
    BY <2>1 DEF Stacked
  <2>2. Q[y] \in Seq(StubId) /\ Len(Q[y]) \in Nat /\ \A i \in 1..Len(Q[y]) : FALSE
    <3>1. Q[y] \in Seq(StubId) /\ Len(Q[y]) \in Nat
      BY <2>0
    <3>2. {Q[y][i] : i \in 1..Len(Q[y])} = {}
      BY <1>4, <2>0
    <3>3. \A i \in 1..Len(Q[y]) : Q[y][i] \in {Q[y][j] : j \in 1..Len(Q[y])}
      OBVIOUS
    <3> QED BY <3>1, <3>2, <3>3
  <2>3. Len(Q[y]) = 0
    <3>1. Len(Q[y]) # 0 => 1 \in 1..Len(Q[y])
      BY <2>2
    <3> QED BY <2>2, <3>1
  <2> QED BY <2>2, <2>3
<1>6. Stacks(got', old', Q)
  <2> SUFFICES ASSUME NEW x \in Slot
               PROVE  Stacked(x, got'[x], OwnIn(old', x), SavesIn(old', x), Q[x])
    BY DEF Stacks
  <2>1. Stacked(x, got[x], OwnIn(old, x), SavesIn(old, x), Q[x])
    BY <1>1 DEF Stacks
  <2>2. CASE x = y
    BY <1>2, <1>3, <1>4, <1>5, <2>1, <2>2 DEF Stacked, Bottom, Orig
  <2>3. CASE x # y
    BY <1>2, <1>3, <2>1, <2>3
  <2> QED BY <2>2, <2>3
<1>7. \A x \in Slot : /\ Stack(x) = Q[x] /\ Base(x) = BottomIn(got, old, Q, x)
                      /\ Stack(x)' = Q[x] /\ Base(x)' = BottomIn(got', old', Q, x)
  <2> SUFFICES ASSUME NEW x \in Slot
               PROVE  /\ Stack(x) = Q[x] /\ Base(x) = BottomIn(got, old, Q, x)
                      /\ Stack(x)' = Q[x] /\ Base(x)' = BottomIn(got', old', Q, x)
    OBVIOUS
  <2> QED BY <1>1, <1>6, StacksAre
<1>8. /\ BottomIn(got, old, Q, y) = Lazy[y] /\ BottomIn(got', old', Q, y) = Real[y]
      /\ \A x \in Slot \ {y} : BottomIn(got', old', Q, x) = BottomIn(got, old, Q, x)
  BY <1>2, <1>3, <1>5 DEF BottomIn, Bottom
<1>9. /\ Stack(y) = << >>
      /\ Base(y) = Lazy[y] /\ Base(y)' = Real[y]
      /\ \A x \in Slot \ {y} : Base(x)' = Base(x)
  BY <1>5, <1>7, <1>8
<1>10. UNCHANGED [x \in Slot |-> Stack(x)]
  BY <1>7
<1>11. UNCHANGED {LayerOf(h) : h \in Heads}
  BY <1>2 DEF LayerOf, ListOf, Heads
<1>12. CASE Lazy[y] = Real[y]
  <2>1. \A x \in Slot : Base(x)' = Base(x)
    BY <1>9, <1>12
  <2>2. UNCHANGED [x \in Slot |-> Base(x) = Real[x]]
    BY <2>1
  <2> QED BY <1>6, <1>10, <1>11, <2>2 DEF StacksInv, I!ivars
<1>13. CASE Lazy[y] # Real[y]
  <2> DEFINE bd == [x \in Slot |-> Base(x) = Real[x]]
  <2>1. ~bd[y]
    BY <1>9, <1>13
  <2>2. bd' = [bd EXCEPT ![y] = TRUE]
    <3>1. bd' = [x \in Slot |-> Base(x)' = Real[x]]
      OBVIOUS
    <3>2. \A x \in Slot : (Base(x)' = Real[x]) = (IF x = y THEN TRUE ELSE Base(x) = Real[x])
      BY <1>9
    <3>3. [bd EXCEPT ![y] = TRUE] =
             [x \in Slot |-> IF x = y THEN TRUE ELSE Base(x) = Real[x]]
      OBVIOUS
    <3> QED BY <3>1, <3>2, <3>3
  <2>3. [x \in Slot |-> Stack(x)][y] = << >>
    BY <1>9
  <2>4. I!Bind(y)
    BY <1>10, <1>11, <2>1, <2>2, <2>3 DEF I!Bind
  <2> QED BY <1>6, <2>4 DEF StacksInv
<1> QED BY <1>12, <1>13

LEMMA InitRefines == Init => I!Init /\ StacksInv
<1> SUFFICES ASSUME Init PROVE I!Init /\ StacksInv
  OBVIOUS
<1>1. Heads = {} /\ \A x \in Slot : OwnIn(old, x) = {} /\ got[x] \in Orig(x)
  BY DEF Init, NoSlots, Heads, OwnIn
<1>2. PICK Q : Q = [x \in Slot |-> << >>]
  OBVIOUS
<1>3. ASSUME NEW x \in Slot
      PROVE  Stacked(x, got[x], OwnIn(old, x), SavesIn(old, x), << >>)
  BY <1>1 DEF Stacked, Bottom
<1>4. Stacks(got, old, Q)
  BY <1>2, <1>3 DEF Stacks
<1>5. \A x \in Slot : Stack(x) = << >>
  <2> SUFFICES ASSUME NEW x \in Slot PROVE Stack(x) = << >>
    OBVIOUS
  <2>1. Stack(x) = StackIn(got, old, x)
    BY DEF Stack, StackIn, Orders, OrdersIn, Own, OwnIn
  <2> QED BY <1>3, <2>1, StackIs
<1>6. [x \in Slot |-> Base(x) = Real[x]] \in [Slot -> BOOLEAN]
  OBVIOUS
<1>7. I!Init
  BY <1>1, <1>5, <1>6 DEF I!Init
<1> QED BY <1>4, <1>7 DEF StacksInv

LEMMA NextRefines ==
    ASSUME ScopesApart, Careful, IInv, StacksInv, [Next]_vars
    PROVE  StacksInv' /\ [I!Next]_(I!ivars)
<1>1. ASSUME NEW scope \in Scope, NEW sym \in Symbol, NEW s \in StubId,
             mmk_stub_create(scope, sym, s) \/ CreateMockOne(scope, sym, s)
      PROVE  StacksInv' /\ \E f \in I!Layer : I!Install(f)
  <2> DEFINE S == SlotsOf[scope, sym]
  <2>1. S \in SUBSET Slot
    BY ScopeAssumption
  <2>2. /\ s \in StubId \ Live /\ S # {} /\ got' = Armed(got, S, s)
        /\ old' = Patched(old, got, S, s) /\ next' = [next EXCEPT ![s] = NULL]
        /\ Heads' = Heads \union {s}
    BY <1>1 DEF mmk_stub_create, CreateMockOne, Patched, Heads
  <2> HIDE DEF S
  <2> QED BY <2>1, <2>2, CreateOneRefines
<1>2. ASSUME NEW scope \in Scope, NEW sym \in Symbol, NEW s \in StubId,
             NEW t \in StubId, CreateMockTwo(scope, sym, s, t)
      PROVE  StacksInv' /\ \E f \in I!Layer : I!Install(f)
  BY <1>2, CreateTwoRefines
<1>3. ASSUME NEW h \in StubId, mmk_stub_destroy(h)
      PROVE  StacksInv' /\ \E f \in I!Layer : I!Remove(f)
  <2>1. h \in Heads /\ DestroyList(h) /\ Heads' = Heads \ {h}
    BY <1>3 DEF mmk_stub_destroy, Heads, IInv, Lists
  <2> QED BY <2>1, DestroyRefines
<1>4. ASSUME NEW h \in StubId, mmk_mock_destroy_internal(h)
      PROVE  StacksInv' /\ \E f \in I!Layer : I!Remove(f)
  <2>1. h \in Heads /\ DestroyList(h) /\ Heads' = Heads \ {h}
    BY <1>4 DEF mmk_mock_destroy_internal, Heads, IInv, Lists
  <2> QED BY <2>1, DestroyRefines
<1>5. ASSUME NEW x, ResetByName(x)
      PROVE  StacksInv' /\ \E f \in I!Layer : I!Remove(f)
  <2>1. PICK h \in mocks : mmk_mock_destroy_internal(h)
    BY <1>5 DEF ResetByName
  <2> QED BY <2>1, <1>4 DEF IInv, TypeOK
<1>6. ASSUME NEW x \in Slot, Bind(x)
      PROVE  StacksInv' /\ (I!Bind(x) \/ UNCHANGED I!ivars)
  BY <1>6, BindRefines
<1>7. CASE UNCHANGED vars
  <2>1. StacksInv'
    BY <1>7 DEF StacksInv, vars
  <2>2. UNCHANGED I!ivars
    BY <1>7 DEF vars, I!ivars, LayerOf, ListOf, Heads, Stack, Base, Orders, Own
  <2> QED BY <2>1, <2>2
<1>8. (\E f \in I!Layer : I!Install(f) \/ I!Remove(f)) => I!Next
  BY DEF I!Next
<1>9. (\E x \in Slot : I!Bind(x)) => I!Next
  BY DEF I!Next
<1> HIDE DEF I!Layer
<1>10. CASE Next
  <2>1. CASE Create
    BY <1>1, <1>2, <1>8, <2>1 DEF Create
  <2>2. CASE Destroy
    BY <1>3, <1>4, <1>5, <1>8, <2>2 DEF Destroy
  <2>3. CASE \E x \in Slot : Bind(x)
    BY <1>6, <1>9, <2>3
  <2> QED BY <1>10, <2>1, <2>2, <2>3 DEF Next
<1> QED BY <1>7, <1>10

(* What stub.c and plt-elf.c do with saved pointers is what mimick.h       *)
(* promises of stubs: each is put on top of its slots and taken off again, *)
(* and what was there before it is there after it.                         *)
THEOREM Implements ==
    ASSUME ScopesApart, Careful
    PROVE  Spec => ImplementsInterposition
<1>1. Init => I!Init /\ StacksInv
  BY InitRefines
<1>2. IInv /\ StacksInv /\ [Next]_vars => StacksInv' /\ [I!Next]_(I!ivars)
  BY NextRefines
<1> QED BY <1>1, <1>2, Invariance, PTL DEF Spec, ImplementsInterposition, I!Spec
=============================================================================
