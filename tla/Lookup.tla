------------------------------- MODULE Lookup -------------------------------
(***************************************************************************)
(* plt_get_real_fn: the definition of a function, found in the symbol      *)
(* tables of the loaded objects rather than through the GOT.               *)
(*                                                                         *)
(* A program is a record of its format, fmt, and its objects in load       *)
(* order, objs.  An ELF object is a record                                 *)
(*   base    l_addr, its load bias                                         *)
(*   dyn     its dynamic section: d_ptr of each tag that is there          *)
(*   symtab  the symbols from index 0, each with a name and an st_size     *)
(*   gnu     the table at DT_GNU_HASH, sysv that at DT_HASH                *)
(*   at      what is mapped at an address: one of the tags                 *)
(*   hash    the hash of every name, by either function                    *)
(* An image or module of the other formats has exports, a set of names.    *)
(***************************************************************************)
EXTENDS Naturals, Sequences

CONSTANTS
    MMK_BITS,   \* bits in a word of a bloom filter
    AddrSpan,   \* addresses are 0..AddrSpan - 1, and 0 is the null pointer
    HighAddr    \* first address with a most significant byte of 0xff
ASSUME LookupAssumption ==
    /\ MMK_BITS \in Nat \ {0}
    /\ AddrSpan \in Nat \ {0}
    /\ HighAddr \in 1..AddrSpan

NULL    == [is |-> "null"]
Outside == [is |-> "outside"]    \* the table was read outside its bounds
Symbol(i) == [is |-> "symbol", idx |-> i]

(* The address of a table of the object, 0 when it has none.  Some loaders *)
(* relocate the pointers of the dynamic section and some do not.           *)
lib_dt_lookup(lib, tag) ==
    IF tag \notin DOMAIN lib.dyn
    THEN 0
    ELSE LET d_ptr == lib.dyn[tag]
         IN  IF d_ptr >= lib.base /\ d_ptr < HighAddr
             THEN d_ptr
             ELSE (lib.base + d_ptr) % AddrSpan

(* Whether the address leads to the table it should lead to. *)
Has(lib, tag) ==
    LET addr == lib_dt_lookup(lib, tag)
    IN  addr # 0 /\ addr \in DOMAIN lib.at /\ lib.at[addr] = tag

(* Mutant: only the first symbol of a bucket is looked at. *)
elf_hash_find_first(lib, name) ==
    LET si == lib.sysv.buckets[lib.hash[name] % lib.sysv.nbuckets]
    IN  IF si # 0 /\ lib.symtab[si].name = name THEN Symbol(si) ELSE NULL

(* Mutant: the name is not compared. *)
elf_hash_find_unchecked(lib, name) ==
    LET si == lib.sysv.buckets[lib.hash[name] % lib.sysv.nbuckets]
    IN  IF si # 0 THEN Symbol(si) ELSE NULL

elf_hash_find(lib, name) ==
    LET find[si \in DOMAIN lib.sysv.chains] ==
            IF si = 0 THEN NULL
            ELSE IF lib.symtab[si].name = name THEN Symbol(si)
            ELSE find[lib.sysv.chains[si]]
    IN  find[lib.sysv.buckets[lib.hash[name] % lib.sysv.nbuckets]]

(* The bits of the bloom filter that a name needs. *)
InBloom(lib, name) ==
    LET h      == lib.hash[name]
        filter == lib.gnu.bloom[(h \div MMK_BITS) % lib.gnu.bloom_size]
    IN  /\ h % MMK_BITS \in filter
        /\ (h \div 2^lib.gnu.bloom_shift) % MMK_BITS \in filter

(* A chain is a run of symbols in the symbol table; it ends at a hash with *)
(* the low bit set.  The search does not know an empty bucket, which is 0. *)
gnu_hash_find(lib, name) ==
    LET gnu   == lib.gnu
        start == gnu.buckets[lib.hash[name] % gnu.nbuckets]
        find[idx \in 0..gnu.symoffset + Len(gnu.chains)] ==
            IF idx < gnu.symoffset \/ idx - gnu.symoffset >= Len(gnu.chains)
            THEN Outside
            ELSE LET chainhash == gnu.chains[idx - gnu.symoffset + 1]
                 IN  IF chainhash \div 2 = lib.hash[name] \div 2
                        /\ lib.symtab[idx].name = name
                     THEN Symbol(idx)
                     ELSE IF chainhash % 2 # 0 THEN NULL
                     ELSE find[idx + 1]
    IN  IF InBloom(lib, name) THEN find[start] ELSE NULL

sym_lookup_dyn(lib, name) ==
    IF ~Has(lib, "SYMTAB") \/ ~Has(lib, "STRTAB") THEN NULL
    ELSE IF Has(lib, "GNU_HASH") THEN gnu_hash_find(lib, name)
    ELSE IF Has(lib, "HASH") THEN elf_hash_find(lib, name)
    ELSE NULL

(* The code of function name in object i. *)
Code(i, name) == [is |-> "code", obj |-> i, name |-> name]
(* The address an import has in a symbol table, which is that of a PLT     *)
(* stub: it goes through the GOT, to whatever mock is there.               *)
PltStub(i, name) == [is |-> "plt stub", obj |-> i, name |-> name]

(* What st_value of the symbol found leads to. *)
AddressOf(prog, i, sym) ==
    LET found == prog.objs[i].symtab[sym.idx]
    IN  IF found.size = 0 THEN PltStub(i, found.name) ELSE Code(i, found.name)

(* A symbol of size 0 is one that the object imports. *)
elf_get_real_fn(prog, name) ==
    LET find[i \in 1..Len(prog.objs) + 1] ==
            IF i > Len(prog.objs) THEN NULL
            ELSE LET sym == sym_lookup_dyn(prog.objs[i], name)
                 IN  CASE sym = NULL    -> find[i + 1]
                       [] sym = Outside -> Outside
                       [] OTHER ->
                            IF prog.objs[i].symtab[sym.idx].size = 0
                            THEN find[i + 1]
                            ELSE AddressOf(prog, i, sym)
    IN  find[1]

(* PE: the first module that GetProcAddress finds the function in. *)
pe_get_real_fn(prog, name) ==
    LET fits == {i \in DOMAIN prog.objs : name \in prog.objs[i].exports}
    IN  IF fits = {} THEN NULL
        ELSE Code(CHOOSE i \in fits : \A j \in fits : i <= j, name)

(* dlsym(RTLD_DEFAULT, name), which searches the images in load order. *)
macho_get_real_fn(prog, name) == pe_get_real_fn(prog, name)

plt_get_real_fn(prog, name) ==
    CASE prog.fmt = "ELF"   -> elf_get_real_fn(prog, name)
      [] prog.fmt = "PE"    -> pe_get_real_fn(prog, name)
      [] prog.fmt = "MachO" -> macho_get_real_fn(prog, name)
=============================================================================
