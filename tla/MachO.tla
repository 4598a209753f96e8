-------------------------------- MODULE MachO --------------------------------
(***************************************************************************)
(* The Mach-O back-end of src/plt-mach-o.c.  An image is a record          *)
(*   file      its name                                                    *)
(*   libs      the names n for which `/lib<n>.dylib' occurs in it          *)
(*   isyms     the indirect symbol table: a sequence of names, or Local    *)
(*             for an entry that names no symbol                           *)
(*   sections  the sections __la_symbol_ptr, __nl_symbol_ptr and __got:    *)
(*             each the index in isyms of its first pointer, and its slots *)
(* isyms also has the entries of the call stubs, which belong to none of   *)
(* the three sections.  A section the image does not have has no slots.    *)
(***************************************************************************)
EXTENDS Plt

Local == << >>

(* How many indices of one symbol get_offsets makes room for. *)
MaxIndices == 32

(* get_offsets: the indices of the table's entries for a symbol. *)
get_indices(image, name) ==
    LET upTo[i \in 0..Len(image.isyms)] ==
            IF i = 0 THEN << >>
            ELSE IF /\ Len(upTo[i - 1]) < MaxIndices
                    /\ image.isyms[i] # Local
                    /\ image.isyms[i] = name
            THEN Append(upTo[i - 1], i)
            ELSE upTo[i - 1]
    IN  upTo[Len(image.isyms)]

(* Mutant: an index below the section counts as one of its own. *)
find_offset_in_open(section, indices) ==
    IF section.slots # << >>
       /\ \E i \in ToSet(indices) : i < section.first + Len(section.slots)
    THEN <<section.slots[1]>>
    ELSE << >>

(* The pointer of the first index that falls into the section, if any does. *)
find_offset_in(section, indices) ==
    LET k == SelectInSeq(indices, LAMBDA i :
                 i >= section.first /\ i < section.first + Len(section.slots))
    IN  IF k = 0
        THEN << >>
        ELSE <<section.slots[indices[k] - section.first + 1]>>

(* The slots of the symbol, section by section, and the number of offsets  *)
(* the array they are stored in was allocated for.                         *)
plt_get_offsets(image, name) ==
    LET indices == get_indices(image, name)
    IN  IF indices = << >>
        THEN [slots |-> << >>, room |-> 0]
        ELSE [slots |-> find_offset_in(image.sections[1], indices)
                        \o find_offset_in(image.sections[2], indices)
                        \o find_offset_in(image.sections[3], indices),
              room  |-> Len(indices) - 1]

InScope(images, i, scope) ==
    CASE scope.sel = "lib"  -> scope.val \in images[i].libs
      [] scope.sel = "file" -> scope.val = images[i].file
      [] scope.sel = "sym"  -> get_indices(images[i], scope.val) # << >>

(* The search starts after the main executable, the first image. *)
plt_get_lib(images, scope) ==
    IF scope = MainScope
    THEN 1
    ELSE FirstIn(images, LAMBDA i : i > 1 /\ InScope(images, i, scope))

Lookup(images, scope, name) ==
    LET lib == plt_get_lib(images, scope)
    IN  IF lib = 0
        THEN [slots |-> << >>, room |-> 0]
        ELSE plt_get_offsets(images[lib], name)

plt_set_offsets(got, off, newval) == SaveAndWrite(got, off, newval)
plt_reset_offsets(got, off, old)  == WriteBack(got, off, old)
=============================================================================
