------------------------------ MODULE BackEnds ------------------------------
(***************************************************************************)
(* The three back-ends at work: one stub is made, or refused, and          *)
(* destroyed, in a program of any of the three formats of executables.     *)
(***************************************************************************)
EXTENDS Plt, FiniteSets

CONSTANTS
    Program,    \* records of a format, fmt, and the loaded objects, map; each
                \* has the set defs of the symbols it defines, too
    Target      \* target strings, text, with what the documentation of them
                \* says: the symbol, sym, and its scope, kind and val
                \* (mimick.h:336-384)

E == INSTANCE Loader
M == INSTANCE MachO
P == INSTANCE PE

(* The entries of an object's tables that say which slot a symbol has, with*)
(* the number of the table.                                                *)
Entry(tab, sym, slot) == [tab |-> tab, sym |-> sym, slot |-> slot]
Entries(p, i) ==
    LET o == p.map[i]
    IN  CASE p.fmt = "ELF" ->
               {Entry(1, o.rel[k].sym, o.rel[k].slot) : k \in DOMAIN o.rel}
               \union {Entry(2, o.jmprel[k].sym, o.jmprel[k].slot) : k \in DOMAIN o.jmprel}
          [] p.fmt = "MachO" ->
               UNION {{Entry(n, o.isyms[o.sections[n].first + k - 1], o.sections[n].slots[k]) :
                          k \in DOMAIN o.sections[n].slots} : n \in 1..3}
          [] p.fmt = "PE" ->
               UNION {{Entry(1, o.imports[d][k].sym, o.imports[d][k].slot) :
                          k \in DOMAIN o.imports[d]} : d \in DOMAIN o.imports}

IsList(s) == s \in Seq({s[i] : i \in DOMAIN s})

(* What a linker makes.  An object has its tables, and no slot is in two of*)
(* them: a DT_RELASZ that covers the PLT relocations too is left out.  An  *)
(* image names a symbol once per section and once for its call stubs, so   *)
(* never more often than get_offsets has room for (plt-mach-o.c:200).      *)
ObjectOK(p, i) ==
    LET o == p.map[i]
    IN  /\ p.fmt = "ELF" => IsList(o.rel) /\ IsList(o.jmprel) /\ o.hasRel \in BOOLEAN
        /\ p.fmt = "MachO" =>
             /\ IsList(o.isyms)
             /\ \A sym \in {o.isyms[k] : k \in DOMAIN o.isyms} :
                  Cardinality({k \in DOMAIN o.isyms : o.isyms[k] = sym}) <= M!MaxIndices
             /\ \A n \in 1..3 :
                  LET s == o.sections[n]
                  IN  IsList(s.slots) /\ s.first \in Nat
                      /\ \A k \in DOMAIN s.slots : s.first + k - 1 \in DOMAIN o.isyms
        /\ p.fmt = "PE" => IsList(o.imports) /\ \A d \in DOMAIN o.imports : IsList(o.imports[d])
        /\ \A e, f \in Entries(p, i) :
             e.slot \in Nat \ {0} /\ (e.tab # f.tab => e.slot # f.slot)

(* A symbol, and `self', or a selector and a value, or something else.     *)
TargetOK(t) ==
    /\ IsList(t.text) /\ IsList(t.sym) /\ IsList(t.val) /\ t.sym # << >>
    /\ \A i \in DOMAIN t.sym : t.sym[i] # "@"
    /\ \A i \in DOMAIN t.text : t.text[i] # Null[1]
    /\ \/ t.kind = "self" /\ t.text \in {t.sym, t.sym \o <<"@", "self">>}
       \/ t.kind \in Selectors /\ t.text = t.sym \o <<"@", t.kind, ":">> \o t.val
       \/ /\ t.kind = "wrong"
          /\ t.text = t.sym \o <<"@">> \o t.val
          /\ t.val # <<"self">>
          /\ \A sel \in Selectors : ~IsPrefix(<<sel, ":">>, t.val)

ASSUME BackEndsAssumption ==
    /\ \A p \in Program :
         /\ p.fmt \in {"ELF", "MachO", "PE"}
         /\ IsList(p.map) /\ p.map # << >>
         /\ \A i \in DOMAIN p.map : ObjectOK(p, i)
    /\ \A t \in Target : TargetOK(t)

VARIABLES
    prog,   \* the program
    target, \* the target string of the stub
    got,    \* the GOT slots of all objects
    off,    \* the offsets array of the stub
    room,   \* how many offsets it was allocated for
    old,    \* the values it saved
    pc      \* "new", then "live", "failed" or "panicked", and "gone" after "live"

vars == <<prog, target, got, off, room, old, pc>>

(* Addresses: slot x is linked to code x (x > 0). *)
Trampoline == 0
SlotsIn(i) == {e.slot : e \in Entries(prog, i)}
Linked == [x \in UNION {SlotsIn(i) : i \in DOMAIN prog.map} |-> x]

Init ==
    /\ prog \in Program
    /\ target \in Target
    /\ got = Linked
    /\ off = << >>
    /\ room = 0
    /\ old = << >>
    /\ pc = "new"

(* What a back-end finds, and the room it made for it. *)
Found(scope, name) ==
    CASE prog.fmt = "ELF"   -> LET s == E!Lookup(prog.map, scope, name)
                               IN  [slots |-> s, room |-> Len(s)]
      [] prog.fmt = "MachO" -> M!Lookup(prog.map, scope, name)
      [] prog.fmt = "PE"    -> LET s == P!Lookup(prog.map, scope, name)
                               IN  [slots |-> s, room |-> Len(s)]

Write(slots) ==
    CASE prog.fmt = "ELF"   -> E!plt_set_offsets(got, slots, Trampoline)
      [] prog.fmt = "MachO" -> M!plt_set_offsets(got, slots, Trampoline)
      [] prog.fmt = "PE"    -> P!plt_set_offsets(got, slots, Trampoline)

mmk_stub_create ==
    /\ pc = "new"
    /\ LET scope == ScopeOf(PathOf(target.text))
           found == IF scope.sel = "panic"
                    THEN [slots |-> << >>, room |-> 0]
                    ELSE Found(scope, NameOf(target.text))
           w     == Write(found.slots)
       IN  /\ off' = found.slots
           /\ room' = found.room
           /\ got' = w.got
           /\ old' = w.old
           /\ pc' = IF scope.sel = "panic" THEN "panicked"
                    ELSE IF found.slots = << >> THEN "failed" ELSE "live"
    /\ UNCHANGED <<prog, target>>

mmk_stub_destroy ==
    /\ pc = "live"
    /\ got' = CASE prog.fmt = "ELF"   -> E!plt_reset_offsets(got, off, old)
                [] prog.fmt = "MachO" -> M!plt_reset_offsets(got, off, old)
                [] prog.fmt = "PE"    -> P!plt_reset_offsets(got, off, old)
    /\ pc' = "gone"
    /\ UNCHANGED <<prog, target, off, room, old>>

Next == mmk_stub_create \/ mmk_stub_destroy
Spec == Init /\ [][Next]_vars

-----------------------------------------------------------------------------
SlotsFor(i, tab, sym) == {e.slot : e \in {f \in Entries(prog, i) : f.tab = tab /\ f.sym = sym}}
SlotsOf(i, sym) == {e.slot : e \in {f \in Entries(prog, i) : f.sym = sym}}
Patched == {x \in DOMAIN got : got[x] = Trampoline}

(* An object whose tables the back-end does not look at. *)
Opaque(i) == prog.fmt = "ELF" /\ ~prog.map[i].hasRel

(* Mach-O counts an entry of a call stub as a reference, too. *)
Refers(i, sym) ==
    IF prog.fmt = "MachO"
    THEN sym # M!Local /\ Contains(prog.map[i].isyms, sym)
    ELSE ~Opaque(i) /\ SlotsOf(i, sym) # {}

(* The main executable of an ELF program goes by the name `self'.          *)
NamedBy(i, val) ==
    CASE prog.fmt = "ELF"   -> val = IF i = 1 THEN <<"self">> ELSE prog.map[i].file
      [] prog.fmt = "MachO" -> i > 1 /\ val = prog.map[i].file
      [] prog.fmt = "PE"    -> val \in prog.map[i].handles

(* The objects that answer to the scope, and the one meant: the first      *)
(* (mimick.h:336-384).                                                     *)
Answers(i) ==
    LET v == target.val
    IN  CASE target.kind = "self"  -> i = 1
          [] prog.fmt = "PE" /\ target.kind \in {"file", "lib"} ->
                \/ NamedBy(i, v)
                \/ NamedBy(i, <<"lib">> \o v) /\ \A j \in DOMAIN prog.map : ~NamedBy(j, v)
          [] prog.fmt # "PE" /\ target.kind = "file" -> NamedBy(i, v)
          [] prog.fmt # "PE" /\ target.kind = "lib"  -> i > 1 /\ v \in prog.map[i].libs
          [] target.kind = "sym"   -> v \in prog.map[i].defs
          [] target.kind = "wrong" -> FALSE
Meant(i) == Answers(i) /\ \A j \in 1..(i - 1) : ~Answers(j)

(* Scope "sym" goes by definition in the documentation and by reference in *)
(* the code (plt-elf.c:201-203, plt-mach-o.c:85-89, plt-pe.c:85-90).     *)
(* They agree where the first object that refers to the symbol is the first*)
(* that defines it.                                                        *)
Referring(i) ==
    i \in DOMAIN prog.map /\ (prog.fmt = "MachO" => i > 1) /\ Refers(i, target.val)
ReferrerDefines ==
    target.kind = "sym" => \A i \in DOMAIN prog.map :
        Meant(i) <=> Referring(i) /\ \A j \in 1..(i - 1) : ~Referring(j)

(* A live stub has replaced slots of the symbol in the object its scope    *)
(* means and nothing else (plt-elf.c:173-230, plt-mach-o.c:59-112,         *)
(* plt-pe.c:62-94): no slot of another symbol, no slot of an object further*)
(* down the list that answers to the same scope, whatever the target string*)
(* looks like.  With scope "sym" that needs the premise.                   *)
TargetPatched ==
    pc = "live" => \A x \in DOMAIN got :
        got[x] # x =>
            /\ got[x] = Trampoline
            /\ \E i \in DOMAIN prog.map : Meant(i) /\ x \in SlotsOf(i, target.sym)
PatchesTheTargetOnly == ReferrerDefines => TargetPatched

(* "the scope is the first loaded module defining this symbol"             *)
(* (mimick.h:367-369, 381-382): with scope "sym" a stub patches that       *)
(* module.  It does not: the code takes the first that refers to the       *)
(* symbol (plt-elf.c:201).                                                 *)
FirstDefinerPatched == target.kind = "sym" => TargetPatched

(* A live stub covers every way an object calls the symbol (plt-elf.c:     *)
(* 277-291, plt-mach-o.c:214-229): it has a slot of each table that has    *)
(* one for it.                                                             *)
CoversBothTables ==
    ReferrerDefines /\ pc = "live" => \A i \in DOMAIN prog.map : Meant(i) =>
        \A tab \in 1..3 :
            SlotsFor(i, tab, target.sym) # {}
                => SlotsFor(i, tab, target.sym) \intersect Patched # {}

(* A stub is refused only when no object answers to the scope or the one   *)
(* meant has no slot for the symbol, or has no DT_RELA or DT_REL at all; a *)
(* target string that means nothing panics and no other does; and neither  *)
(* leaves a trace in the GOT (stub.c:65-74, plt.c:38-46).                  *)
RefusedForAReason ==
    /\ pc = "failed" =>
        /\ \A i \in DOMAIN prog.map :
              ReferrerDefines /\ Meant(i) => Opaque(i) \/ SlotsOf(i, target.sym) = {}
        /\ got = Linked
    /\ pc # "new" => (pc = "panicked" <=> target.kind = "wrong")
    /\ pc = "panicked" => got = Linked

(* Slots are written one at a time, each saving what it replaces, and put  *)
(* back one at a time: in the end the GOT is what it was before the stub.  *)
RoundTrip == pc = "gone" => got = Linked

(* The offsets stored fit the array that was allocated for them.  Mach-O   *)
(* allocates one less than it counted (plt-mach-o.c:206-207): that is      *)
(* enough where the image calls the symbol through a stub, whose entry the *)
(* count includes and the store does not.                                  *)
HasCallStub(i, sym) ==
    Cardinality({k \in DOMAIN prog.map[i].isyms : prog.map[i].isyms[k] = sym})
        > Cardinality(SlotsOf(i, sym))
OffsetsFit ==
    /\ ReferrerDefines
    /\ prog.fmt = "MachO" => \A i \in DOMAIN prog.map : Meant(i) => HasCallStub(i, target.sym)
    => Len(off) <= room
=============================================================================
