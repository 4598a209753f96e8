------------------------------ MODULE MCVitals ------------------------------
(***************************************************************************)
(* Checks modules Lookup, Tables and Vitals over small programs.  The      *)
(* symbol and hash tables of the ELF objects are made here the way a linker*)
(* makes them; every function that mmk_init needs has a hash value, imports*)
(* come first in a symbol table and definitions follow in the order of     *)
(* their buckets.                                                          *)
(***************************************************************************)
EXTENDS Tables, FiniteSets, SequencesExt

CONSTANTS
    Hashes,     \* what the names may hash to: functions on 1..7
    TableKinds, \* which hash tables the C library may have
    Missing     \* functions a program may lack

VARIABLE crew   \* the threads that take part
mcvars == <<vars, crew>>

Names  == <<"vfprintf", "abort", "malloc", "realloc", "free", "mprotect", "f">>
NameNo(n) == CHOOSE i \in DOMAIN Names : Names[i] = n
Vitals == {Names[i] : i \in 1..6}

(* A symbol table: index 0 is no symbol, imports have size 0. *)
NoSymbol == [name |-> "", size |-> 0]
Symbols(imports, defs) ==
    LET all == <<NoSymbol>>
               \o [i \in DOMAIN imports |-> [name |-> imports[i], size |-> 0]]
               \o [i \in DOMAIN defs |-> [name |-> defs[i], size |-> 1]]
    IN  [i \in 0..Len(all) - 1 |-> all[i + 1]]

InOrder(S) == SetToSortSeq(S, LAMBDA a, b : NameNo(a) < NameNo(b))
ByBucket(S, hash, nb) ==
    SetToSortSeq(S, LAMBDA a, b :
        \/ hash[a] % nb < hash[b] % nb
        \/ hash[a] % nb = hash[b] % nb /\ NameNo(a) < NameNo(b))

SmallestOf(S) == CHOOSE x \in S : \A y \in S : x <= y

BloomShift == 2
GnuTable(nimports, defs, hash, nb) ==
    LET first == nimports + 1
        Bucket(b) == {i \in DOMAIN defs : hash[defs[i]] % nb = b}
    IN  [nbuckets |-> nb, symoffset |-> first, bloom_shift |-> BloomShift,
         bloom_size |-> 2,
         bloom |-> [w \in {0, 1} |->
             UNION {{hash[defs[i]] % MMK_BITS,
                     (hash[defs[i]] \div 2^BloomShift) % MMK_BITS} :
                    i \in {k \in DOMAIN defs : (hash[defs[k]] \div MMK_BITS) % 2 = w}}],
         buckets |-> [b \in 0..nb - 1 |->
             IF Bucket(b) = {} THEN 0 ELSE first + SmallestOf(Bucket(b)) - 1],
         chains |-> [i \in DOMAIN defs |->
             2 * (hash[defs[i]] \div 2)
             + (IF i = Len(defs) \/ hash[defs[i]] % nb # hash[defs[i + 1]] % nb
                THEN 1 ELSE 0)]]

(* Imports are in this one, too. *)
SysvTable(symtab, hash, nb) ==
    LET In(i, b) == i # 0 /\ hash[symtab[i].name] % nb = b
        After(i, b) == {k \in DOMAIN symtab : k > i /\ In(k, b)}
        Next0(S) == IF S = {} THEN 0 ELSE SmallestOf(S)
    IN  [nbuckets |-> nb,
         buckets |-> [b \in 0..nb - 1 |-> Next0(After(0, b))],
         chains |-> [i \in DOMAIN symtab |->
             IF i = 0 THEN 0 ELSE Next0(After(i, hash[symtab[i].name] % nb))]]

(* An object linked at address vaddr and loaded at load, whose dynamic     *)
(* section the loader relocated or not.                                    *)
Tags == <<"SYMTAB", "STRTAB", "GNU_HASH", "HASH">>
Object(imports, defs, hash, nb, kinds, vaddr, load, relocated) ==
    LET order  == ByBucket(defs, hash, nb)
        symtab == Symbols(InOrder(imports), order)
        bias   == (load + AddrSpan - vaddr) % AddrSpan
        tags   == {i \in DOMAIN Tags : Tags[i] \in {"SYMTAB", "STRTAB"} \union kinds}
    IN  [base   |-> bias,
         dyn    |-> [tag \in {Tags[i] : i \in tags} |->
                       LET off == CHOOSE i \in tags : Tags[i] = tag
                       IN  IF relocated THEN load + off ELSE vaddr + off],
         at     |-> [addr \in {load + i : i \in tags} |-> Tags[addr - load]],
         symtab |-> symtab,
         hash   |-> hash,
         gnu    |-> GnuTable(Cardinality(imports), order, hash, nb),
         sysv   |-> SysvTable(symtab, hash, nb)]

(* The main executable imports what it calls and may have an allocator of  *)
(* its own; it is linked at its address or can be loaded anywhere.  Then   *)
(* the kernel's object, linked at the top of the address space and never   *)
(* relocated, and the C library.                                           *)
ElfProgram(hash, nb, lacks, own, kinds, relocated) ==
    LET h == [n \in Vitals \union {"f"} |-> hash[NameNo(n)]]
    IN  [fmt |-> "ELF",
         objs |->
           << Object(Vitals \ own, own, h, nb, kinds, 0, 100, FALSE)
            , Object({}, {"f"}, h, nb, {"GNU_HASH"}, HighAddr, 300, FALSE)
            , Object({}, Vitals \ lacks, h, nb, kinds, 0, 200, relocated) >>]

OtherProgram(fmt, lacks, own) ==
    [fmt |-> fmt,
     objs |-> <<[exports |-> own],
                [exports |-> (Vitals \ lacks) \ (IF fmt = "PE" THEN {"mprotect"} ELSE {})],
                [exports |-> IF "vfprintf" \in lacks /\ own = {}
                             THEN {"__stdio_common_vfprintf"} ELSE {}]>>]

Programs(hash, nb) ==
    UNION {{ElfProgram(hash, nb, lacks, own, kinds, relocated) :
               kinds \in TableKinds, relocated \in BOOLEAN} :
           <<lacks, own>> \in Missing \X {{}, {"malloc", "free"}}}
    \union {OtherProgram(fmt, lacks, own) :
               fmt \in {"PE", "MachO"}, lacks \in Missing, own \in {{}, {"malloc"}}}

MCProgram == UNION {Programs(hash, nb) : hash \in Hashes, nb \in {1, 2, 3}}

(* Threads that come at the same time; but where vfprintf is the fallback  *)
(* only one does, for a second one sets it to NULL before it sets it again.*)
MCInit ==
    /\ prog \in Program
    /\ crew \in (SUBSET Thread) \ {{}}
    /\ prog.fmt = "PE" /\ plt_get_real_fn(prog, "vfprintf") = NULL => Cardinality(crew) = 1
    /\ Init

MCNext == UNCHANGED crew /\ \E t \in crew : Step(t)
(* The scheduler lets every thread of the crew go on. *)
MCSpec ==
    /\ MCInit
    /\ [][MCNext]_mcvars
    /\ \A t \in Thread : WF_mcvars(t \in crew /\ Step(t) /\ UNCHANGED crew)

-----------------------------------------------------------------------------
(* "trust GNU hash if we have it" (plt-elf.c:418): a lookup reads nothing  *)
(* but the table.                                                          *)
StaysInside == dead # "outside"

MCHashes ==
    {[i \in 1..7 |-> (a * i + b) % 16] : a \in {1, 3, 4}, b \in {0, 5}}
MCTableKinds == {{"GNU_HASH"}, {"HASH"}, {"GNU_HASH", "HASH"}}
MCMissing == {{}, {"vfprintf"}, {"abort"}, {"mprotect"}, {"vfprintf", "realloc"}}
=============================================================================
