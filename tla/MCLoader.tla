------------------------------ MODULE MCLoader ------------------------------
(***************************************************************************)
(* Checks the three back-ends over every small program: the main           *)
(* executable and two libraries, with every combination of short tables,   *)
(* and one stub whose target string names each kind of scope.  Every table *)
(* entry has a slot of its own.                                            *)
(***************************************************************************)
EXTENDS BackEnds

CONSTANTS
    RelTables, JmprelTables,   \* ELF: tables an object may have, as symbol names
    LazyTables, GotTables,     \* Mach-O: sections an image may have
    Imports,                   \* PE: what one descriptor may import
    Definer                    \* the one object of a program that defines g

Slots(first, syms) ==
    [k \in 1..Len(syms) |-> [sym |-> <<syms[k]>>, slot |-> first + k]]

(* NoRel stands for an object without DT_RELA and without DT_REL. *)
NoRel == <<"no table">>
Object(i, file, libs, rel, jmprel) ==
    [file |-> file, libs |-> libs, hasRel |-> rel # NoRel,
     rel |-> IF rel = NoRel THEN << >> ELSE Slots(10 * i, rel),
     jmprel |-> Slots(10 * i + 5, jmprel)]

ElfMap(r, j) ==
    << Object(1, <<"/bin/test">>, {}, r[1], j[1]),
       Object(2, <<"/lib/libbar.so">>, {<<"bar">>}, r[2], j[2]),
       Object(3, <<"/opt/libbar.so">>, {<<"bar">>}, r[3], j[3]) >>

(* The entries of the call stubs come first, then one that names nothing,  *)
(* then those of the sections.  Functions called through the GOT may have  *)
(* a stub too.                                                             *)
Image(i, file, libs, la, gt, stubs) ==
    LET own == [k \in 1..Len(stubs) |-> <<stubs[k]>>] \o <<M!Local>>
        Of(first, syms) == [first |-> first,
                            slots |-> [k \in 1..Len(syms) |-> 10 * i + first + k]]
        names(syms) == [k \in 1..Len(syms) |-> <<syms[k]>>]
    IN  [file |-> file, libs |-> libs,
         isyms |-> own \o names(la) \o names(gt),
         sections |-> <<Of(Len(own) + 1, la), Of(0, << >>),
                        Of(Len(own) + Len(la) + 1, gt)>>]

MachOMap(la, gt, stubs) ==
    << Image(1, <<"/bin/test">>, {}, la[1], gt[1], stubs[1]),
       Image(2, <<"/lib/libbar.so">>, {<<"bar">>}, la[2], gt[2], stubs[2]),
       Image(3, <<"/opt/libbar.so">>, {<<"bar">>}, <<"f", "g">>, << >>, <<"f", "g">>) >>

Module(i, handles, a, b) ==
    [handles |-> handles, imports |-> <<Slots(10 * i, a), Slots(10 * i + 5, b)>>]

PEMap(a, b) ==
    << Module(1, {<<"/bin/test">>}, a[1], b[1]),
       Module(2, {<<"lib", "bar">>}, a[2], b[2]),
       Module(3, {<<"/opt/libbar.so">>, <<"lib", "none">>}, a[3], b[3]) >>

(* Object d defines g. *)
Defining(map, d) ==
    [i \in DOMAIN map |-> map[i] @@ [defs |-> IF i = d THEN {<<"g">>} ELSE {}]]

ElfProgram ==
    {[fmt |-> "ELF", map |-> Defining(ElfMap(r, j), d)] :
        r \in [1..3 -> RelTables \union {NoRel}], j \in [1..3 -> JmprelTables], d \in Definer}
MachOProgram ==
    {[fmt |-> "MachO",
      map |-> Defining(MachOMap([i \in 1..2 |-> c[i].la], [i \in 1..2 |-> c[i].gt],
                                [i \in 1..2 |-> IF c[i].called THEN c[i].la \o c[i].gt
                                                ELSE c[i].la]), d)] :
        c \in [1..2 -> [la : LazyTables, gt : GotTables, called : BOOLEAN]], d \in Definer}
PEProgram ==
    {[fmt |-> "PE", map |-> Defining(PEMap(a, b), d)] :
        a \in [1..3 -> Imports], b \in [1..3 -> Imports], d \in Definer}
MCProgram == ElfProgram \union MachOProgram \union PEProgram

T(text, sym, kind, val) == [text |-> text, sym |-> sym, kind |-> kind, val |-> val]
MCTarget ==
    { T(<<"f">>, <<"f">>, "self", << >>),
      T(<<"f", "@", "self">>, <<"f">>, "self", << >>),
      T(<<"f", "@", "file", ":", "/opt/libbar.so">>, <<"f">>, "file", <<"/opt/libbar.so">>),
      T(<<"f", "@", "file", ":", "self">>, <<"f">>, "file", <<"self">>),
      T(<<"f", "@", "lib", ":", "bar">>, <<"f">>, "lib", <<"bar">>),
      T(<<"f", "@", "lib", ":", "none">>, <<"f">>, "lib", <<"none">>),
      T(<<"f", "@", "sym", ":", "g">>, <<"f">>, "sym", <<"g">>),
      T(<<"f", "@", "lib", ":", "a", "@", "b">>, <<"f">>, "lib", <<"a", "@", "b">>),
      T(<<"f", "@">>, <<"f">>, "wrong", << >>),
      T(<<"f", "@", "bar">>, <<"f">>, "wrong", <<"bar">>),
      T(<<"f", "@", "self", ":", "bar">>, <<"f">>, "wrong", <<"self", ":", "bar">>),
      T(<<"f", "@", "@", "lib", ":", "bar">>, <<"f">>, "wrong", <<"@", "lib", ":", "bar">>) }
MCRelTables    == {<<>>, <<"f">>, <<"g", "f">>, <<"f", "f">>}
MCJmprelTables == {<<>>, <<"f">>, <<"g", "f">>}
MCLazyTables   == {<<>>, <<"f">>, <<"g", "f">>, <<"g">>}
MCGotTables    == {<<>>, <<"f">>, <<"g", "f">>}
MCImports      == {<<>>, <<"f">>, <<"g", "f">>, <<"g">>}
=============================================================================
