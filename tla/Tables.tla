------------------------------- MODULE Tables -------------------------------
(***************************************************************************)
(* The symbol and hash tables of a program as a linker makes them and a    *)
(* loader maps them, and what Lookup finds there.  The names that have a   *)
(* hash value are all names there are.                                     *)
(***************************************************************************)
EXTENDS Vitals

CONSTANT Program    \* the programs that mmk_init may run in

(* A table is mapped somewhere, and its d_ptr is that address, or what must*)
(* be added to the base; which it is shows: a relocated address is at or   *)
(* above the base, one that is not is below it or has the high byte set.   *)
Addressed(lib, tag) ==
    \E addr \in DOMAIN lib.at \ {0} :
        LET d_ptr == lib.dyn[tag]
            shows == d_ptr >= lib.base /\ d_ptr < HighAddr
        IN  /\ lib.at[addr] = tag
            /\ \/ shows /\ addr = d_ptr
               \/ ~shows /\ addr = (lib.base + d_ptr) % AddrSpan

HashOf(lib, i) == lib.hash[lib.symtab[i].name]

(* The older table: the chain of a bucket goes through all symbols of that *)
(* bucket, in any order, and ends.                                         *)
SysvOK(lib) ==
    LET sysv == lib.sysv
        syms == DOMAIN lib.symtab \ {0}
        Bucket(i) == HashOf(lib, i) % sysv.nbuckets
    IN  /\ sysv.nbuckets \in Nat \ {0}
        /\ sysv.buckets \in [0..sysv.nbuckets - 1 -> DOMAIN lib.symtab]
        /\ sysv.chains \in [DOMAIN lib.symtab -> DOMAIN lib.symtab]
        /\ \A S \in (SUBSET syms) \ {{}} :
              /\ \E i \in S : sysv.chains[i] \notin S
              /\ \E i \in S :
                    \/ sysv.buckets[Bucket(i)] = i
                    \/ \E k \in syms \ S : sysv.chains[k] = i /\ Bucket(k) = Bucket(i)

(* The symbols that the GNU table is about: those behind the imports.      *)
Hashed(lib) == lib.gnu.symoffset..lib.gnu.symoffset + Len(lib.gnu.chains) - 1

(* The GNU table: symbols in the order of their buckets, the last one of a *)
(* bucket marked, and the two bits of each in the bloom filter.            *)
GnuOK(lib) ==
    LET gnu == lib.gnu
        last == gnu.symoffset + Len(gnu.chains) - 1
        Bucket(i) == HashOf(lib, i) % gnu.nbuckets
        Chain(i) == gnu.chains[i - gnu.symoffset + 1]
        Filter(i) == gnu.bloom[(HashOf(lib, i) \div MMK_BITS) % gnu.bloom_size]
    IN  /\ gnu.nbuckets \in Nat \ {0} /\ gnu.symoffset \in Nat \ {0}
        /\ gnu.chains \in Seq(Nat)
        /\ DOMAIN lib.symtab = 0..last
        /\ \A b \in 0..gnu.nbuckets - 1 : gnu.buckets[b] \in Hashed(lib) \union {0}
        /\ \A i, j \in Hashed(lib) : i <= j => Bucket(i) <= Bucket(j)
        /\ \A i \in Hashed(lib) :
              /\ Chain(i) \div 2 = HashOf(lib, i) \div 2
              /\ Chain(i) % 2 = 1 <=> i = last \/ Bucket(i + 1) # Bucket(i)
              /\ LET first == gnu.buckets[Bucket(i)]
                 IN  first \in Hashed(lib) /\ first <= i /\ Bucket(first) = Bucket(i)
              /\ HashOf(lib, i) % MMK_BITS \in Filter(i)
              /\ (HashOf(lib, i) \div 2^gnu.bloom_shift) % MMK_BITS \in Filter(i)

(* What mmk_init may look up in an ELF program. *)
Needed == {"vfprintf", "abort", "malloc", "realloc", "free", "mprotect"}

(* An object imports a name or defines it, and what it defines is hashed.  *)
TablesOK(lib) ==
    /\ {"SYMTAB", "STRTAB"} \subseteq DOMAIN lib.dyn
    /\ {"GNU_HASH", "HASH"} \intersect DOMAIN lib.dyn # {}
    /\ \A tag \in DOMAIN lib.dyn : Addressed(lib, tag)
    /\ lib.hash \in [DOMAIN lib.hash -> Nat] /\ Needed \subseteq DOMAIN lib.hash
    /\ 0 \in DOMAIN lib.symtab /\ lib.symtab[0].name \notin DOMAIN lib.hash
    /\ \A i \in DOMAIN lib.symtab \ {0} : lib.symtab[i].name \in DOMAIN lib.hash
    /\ \A i, j \in DOMAIN lib.symtab :
          lib.symtab[i].name = lib.symtab[j].name
              => (lib.symtab[i].size = 0 <=> lib.symtab[j].size = 0)
    /\ "GNU_HASH" \in DOMAIN lib.dyn =>
          /\ GnuOK(lib)
          /\ \A i \in DOMAIN lib.symtab : lib.symtab[i].size # 0 => i \in Hashed(lib)
    /\ "HASH" \in DOMAIN lib.dyn => SysvOK(lib)

ASSUME TablesAssumption ==
    \A p \in Program : p.fmt = "ELF" => \A i \in DOMAIN p.objs : TablesOK(p.objs[i])

(* mmk_init in one of these programs. *)
TablesSpec == prog \in Program /\ Spec

-----------------------------------------------------------------------------
(* A table has a symbol of that name; the GNU table leaves out the imports.*)
HasSymbol(lib, name) ==
    \E i \in DOMAIN lib.symtab :
        /\ lib.symtab[i].name = name
        /\ Has(lib, "GNU_HASH") => i \in Hashed(lib)

(* Every table finds a name exactly if it has a symbol of that name, and   *)
(* finds that symbol, whatever collides: bits of the bloom filter, buckets,*)
(* hashes that differ in the low bit only; and whichever way the table's   *)
(* address was given (plt-elf.c:69-81, 346-432).                           *)
FindsWhatIsThere ==
    prog.fmt = "ELF" =>
      \A o \in DOMAIN prog.objs : \A name \in DOMAIN prog.objs[o].hash :
        LET lib == prog.objs[o]
            sym == sym_lookup_dyn(lib, name)
        IN  IF HasSymbol(lib, name)
            THEN sym.is = "symbol" /\ lib.symtab[sym.idx].name = name
            ELSE sym \in {NULL, Outside}

(* A vital function is what the first object in load order that defines    *)
(* the name has under it: never the function of another name, that of a    *)
(* later object, or an import's PLT stub, which would lead to a mock       *)
(* (plt-elf.c:434-449, plt-pe.c:167-184, plt-mach-o.c:250-257).  Only a    *)
(* runtime that has no vfprintf is spoken to through its own function      *)
(* (vitals.c:168-179).                                                     *)
Defines(obj, name) ==
    IF prog.fmt = "ELF"
    THEN \E i \in DOMAIN obj.symtab : obj.symtab[i].name = name /\ obj.symtab[i].size # 0
    ELSE name \in obj.exports
FirstDefinition(name) ==
    {Code(i, name) : i \in {k \in DOMAIN prog.objs :
                              /\ Defines(prog.objs[k], name)
                              /\ \A j \in 1..k - 1 : ~Defines(prog.objs[j], name)}}
VitalsAreReal ==
    \A v \in Vital : ptr[v] # NULL =>
        \/ ptr[v] \in FirstDefinition(v)
        \/ /\ v = "vfprintf" /\ ptr[v] = Fallback /\ FirstDefinition(v) = {}
           /\ common \in FirstDefinition("__stdio_common_vfprintf")
=============================================================================
