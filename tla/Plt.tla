--------------------------------- MODULE Plt ---------------------------------
(***************************************************************************)
(* What the three back-ends share: the symbol target string of a stub (src/*)
(* plt.c and stub.c) and the array of offsets (src/plt.h).                 *)
(*                                                                         *)
(* A string is the sequence of its words; "@" and ":" are words of their   *)
(* own, and so is a prefix the code adds ("lib").                          *)
(***************************************************************************)
EXTENDS Naturals, Sequences, SequencesExt

Null == <<"no string">>   \* the null pointer, which is no string

(* Mutant: the string is cut at the last delimiter. *)
mmk_strchr_last(buf, c) == SelectLastInSeq(buf, LAMBDA w : w = c)

(* Position of the first c in a string, 0 when it has none. *)
mmk_strchr(buf, c) == SelectInSeq(buf, LAMBDA w : w = c)

mmk_strneq(src, ref) == IsPrefix(ref, src)
mmk_streq(src, ref)  == src = ref

Before(buf, c) ==
    LET i == mmk_strchr(buf, c) IN IF i = 0 THEN buf ELSE SubSeq(buf, 1, i - 1)

After(buf, c) ==
    LET i == mmk_strchr(buf, c)
    IN  IF i = 0 THEN Null ELSE SubSeq(buf, i + 1, Len(buf))

NameOf(target) == Before(target, "@")

(* The scope as the back-end gets it: not written and "self" are one.  *)
PathOf(target) ==
    LET path == After(target, "@")
    IN  IF mmk_streq(path, <<"self">>) THEN Null ELSE path

Selectors == {"lib", "file", "sym"}

(* What a scope selects by, and the value it selects.  "panic" is a call   *)
(* of mmk_panic, which does not return.                                    *)
plt_get_selector(path) ==
    IF \E sel \in Selectors : mmk_strneq(path, <<sel, ":">>)
    THEN [sel |-> Head(path), val |-> After(path, ":")]
    ELSE IF mmk_streq(path, <<"self">>)
    THEN [sel |-> "none", val |-> << >>]
    ELSE [sel |-> "panic", val |-> path]

(* The main executable; every back-end asks for it before it parses. *)
MainScope == [sel |-> "self", val |-> << >>]

ScopeOf(path) == IF path = Null THEN MainScope ELSE plt_get_selector(path)

(* First index of a sequence of objects that satisfies Fits, 0 for none. *)
FirstIn(objects, Fits(_)) ==
    SelectInSeq([i \in DOMAIN objects |-> Fits(i)], LAMBDA b : b)

(***************************************************************************)
(* Writing the slots, in the order of the offsets array.  The old value of *)
(* a slot is read just before that slot is written, so a slot listed twice *)
(* would save the new value the second time.                               *)
(***************************************************************************)
SaveLate(got, off, newval) ==      \* mutant: saves after the write
    [got |-> [x \in DOMAIN got |-> IF Contains(off, x) THEN newval ELSE got[x]],
     old |-> [i \in 1..Len(off) |-> newval]]

SaveAndWrite(got, off, newval) ==
    LET upTo[i \in 0..Len(off)] ==
            IF i = 0 THEN [got |-> got, old |-> << >>]
            ELSE [got |-> [upTo[i - 1].got EXCEPT ![off[i]] = newval],
                  old |-> Append(upTo[i - 1].old, upTo[i - 1].got[off[i]])]
    IN  upTo[Len(off)]

WriteBack(got, off, old) ==
    LET upTo[i \in 0..Len(off)] ==
            IF i = 0 THEN got ELSE [upTo[i - 1] EXCEPT ![off[i]] = old[i]]
    IN  upTo[Len(off)]
=============================================================================
