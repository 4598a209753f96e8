------------------------------ MODULE MCStubs ------------------------------
(* Stubs over a program of two loaded objects: the slots of a target are *)
(* what the ELF lookup of module Loader finds in this link map.            *)
EXTENDS StubsRefine, TLC

L == INSTANCE Loader

CONSTANTS s1, s2, s3, s4

Rel(sym, slot) == [sym |-> <<sym>>, slot |-> slot]

(* The main executable calls f through the PLT and g through a GLOB_DAT    *)
(* relocation; the library calls f both ways and g not at all.             *)
LinkMap == <<
    [file |-> <<"/bin/test">>, libs |-> {}, hasRel |-> TRUE,
     rel |-> <<Rel("g", 1)>>, jmprel |-> <<Rel("f", 2)>>],
    [file |-> <<"/lib/libbar.so">>, libs |-> {<<"bar">>}, hasRel |-> TRUE,
     rel |-> <<Rel("f", 3)>>, jmprel |-> <<Rel("bar", 5), Rel("f", 4)>>] >>

SelfS == L!MainScope
LibS  == [sel |-> "lib", val |-> <<"bar">>]
SymS  == [sel |-> "sym", val |-> <<"g">>]   \* resolves to the main executable

MCSymbol == {"f", "g"}
MCSlot   == {1, 2, 3, 4}
MCScope      == {SelfS, LibS}
MCScopeAlias == {SelfS, LibS, SymS}
AsSet(q)  == {q[i] : i \in 1..Len(q)}
MCSlotsOf == [q \in MCScope \X MCSymbol |->
                AsSet(L!Lookup(LinkMap, q[1], <<q[2]>>))]
MCSlotsOfAlias == [q \in MCScopeAlias \X MCSymbol |->
                AsSet(L!Lookup(LinkMap, q[1], <<q[2]>>))]
MCLazy == [x \in MCSlot |-> <<"lazy", x>>]
MCReal == [x \in MCSlot |-> <<"real", x>>]
StubSymmetry == Permutations(StubId)
=============================================================================
