------------------------------- MODULE Loader -------------------------------
(***************************************************************************)
(* The ELF back-end of src/plt-elf.c: how the scope of a stub and the name *)
(* of its symbol become the GOT slots it patches.                          *)
(*                                                                         *)
(* The dynamic linker's state is data here: a link map is the sequence of  *)
(* loaded objects, main executable first, and an object is a record        *)
(*   file      its full path (l_name, or DT_SONAME when that is empty)     *)
(*   libs      the names n for which `/lib<n>.so' occurs in that path (for *)
(*             n = "c", also when `/musl.so' does)                         *)
(*   hasRel    it has a DT_RELA or a DT_REL table                          *)
(*   rel       that table: a sequence of relocations                       *)
(*   jmprel    the DT_JMPREL table (the PLT relocations)                   *)
(* A relocation names a symbol and the GOT slot it fills in (r_offset,     *)
(* never 0).                                                               *)
(***************************************************************************)
EXTENDS Plt

get_lib_name(map, i) == IF i = 1 THEN <<"self">> ELSE map[i].file

(* First relocation of the table that names the symbol; 0 when none does. *)
get_offset(tab, name) ==
    LET i == SelectInSeq(tab, LAMBDA r : r.sym = name)
    IN  IF i = 0 THEN 0 ELSE tab[i].slot

(* Mutant: DT_JMPREL is looked at only when the first table has nothing. *)
get_offsets_first(lib, name) ==
    IF ~lib.hasRel
    THEN << >>
    ELSE LET r == get_offset(lib.rel, name)
             j == get_offset(lib.jmprel, name)
         IN  IF r # 0 THEN <<r>> ELSE IF j # 0 THEN <<j>> ELSE << >>

(* The slots found: at most one in each of the two tables.  An object with *)
(* neither DT_RELA nor DT_REL is given up before DT_JMPREL is looked at.   *)
get_offsets(lib, name) ==
    IF ~lib.hasRel
    THEN << >>
    ELSE LET Found(off) == IF off # 0 THEN <<off>> ELSE << >>
         IN  Found(get_offset(lib.rel, name)) \o Found(get_offset(lib.jmprel, name))

InScope(map, i, scope) ==
    CASE scope.sel = "lib"  -> i # 1 /\ scope.val \in map[i].libs
      [] scope.sel = "file" -> scope.val = get_lib_name(map, i)
      [] scope.sel = "sym"  -> get_offsets(map[i], scope.val) # << >>

(* Mutant: the last object that fits instead of the first. *)
plt_get_lib_last(map, scope) ==
    IF scope = MainScope
    THEN 1
    ELSE LET fits == [i \in DOMAIN map |-> InScope(map, i, scope)]
         IN  SelectLastInSeq(fits, LAMBDA b : b)

(* Index of the object a scope denotes, 0 when no loaded object fits. *)
plt_get_lib(map, scope) ==
    IF scope = MainScope
    THEN 1
    ELSE FirstIn(map, LAMBDA i : InScope(map, i, scope))

(* What mmk_stub_create_static looks up before it touches the GOT. *)
Lookup(map, scope, name) ==
    LET lib == plt_get_lib(map, scope)
    IN  IF lib = 0 THEN << >> ELSE get_offsets(map[lib], name)

plt_set_offsets(got, off, newval) == SaveAndWrite(got, off, newval)
plt_reset_offsets(got, off, old)  == WriteBack(got, off, old)
=============================================================================
