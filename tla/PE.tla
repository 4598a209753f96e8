--------------------------------- MODULE PE ---------------------------------
(***************************************************************************)
(* The PE back-end of src/plt-pe.c.  A module is a record                  *)
(*   handles   the names GetModuleHandle knows it by                       *)
(*   imports   its import descriptors in order, each the sequence of the   *)
(*             thunks it imports by name: a symbol and an IAT slot         *)
(* Imports by ordinal have no name to compare and are left out.            *)
(***************************************************************************)
EXTENDS Plt

(* Index of the module of that name, 0 when it is not loaded. *)
GetModuleHandle(modules, name) ==
    FirstIn(modules, LAMBDA i : name \in modules[i].handles)

(* The first thunk of that name of the first descriptor that has one. *)
plt_get_offset(module, name) ==
    LET d == SelectInSeq(module.imports, LAMBDA ts : \E k \in DOMAIN ts : ts[k].sym = name)
        thunks == module.imports[d]
        k == SelectInSeq(thunks, LAMBDA t : t.sym = name)
    IN  IF d = 0 THEN << >> ELSE <<thunks[k].slot>>

(* The first module that imports the symbol. *)
plt_find_offset(modules, name) ==
    FirstIn(modules, LAMBDA i : plt_get_offset(modules[i], name) # << >>)

plt_get_lib(modules, scope) ==
    IF scope = MainScope
    THEN 1
    ELSE IF scope.sel \in {"file", "lib"}
    THEN LET m == GetModuleHandle(modules, scope.val)
         IN  IF m # 0 THEN m
             ELSE GetModuleHandle(modules, <<"lib">> \o scope.val)
    ELSE plt_find_offset(modules, scope.val)

Lookup(modules, scope, name) ==
    LET lib == plt_get_lib(modules, scope)
    IN  IF lib = 0 THEN << >> ELSE plt_get_offset(modules[lib], name)

plt_set_offsets(got, off, newval) == SaveAndWrite(got, off, newval)
plt_reset_offsets(got, off, old)  == WriteBack(got, off, old)
=============================================================================
