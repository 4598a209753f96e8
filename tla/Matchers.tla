------------------------------ MODULE Matchers ------------------------------
(***************************************************************************)
(* The data of contracts and verifications: matcher kinds, the matcher     *)
(* list a call expression builds, the walk of that list over the           *)
(* parameters of a call, and the verdict of mmk_verify.                    *)
(*                                                                         *)
(* A matcher kind is a tag and, for the comparisons, the set of outcomes   *)
(* it lets through (the MMK_MATCHER_BIT_ flags).  A matcher list is the    *)
(* sequence of the matchers after the head that mmk_matcher_init makes.    *)
(* Named parameters are integers, variadic ones are what the client's      *)
(* serializer makes of them; a predicate is the set of values it accepts.  *)
(***************************************************************************)
EXTENDS Integers, Sequences, SequencesExt

CONSTANT NULL

Kind(tag, bits) == [tag |-> tag, bits |-> bits]

MMK_MATCHER_ANY  == Kind("any", {})
MMK_MATCHER_THAT == Kind("that", {})
MMK_MATCHER_EQ   == Kind("cmp", {"EQ"})
MMK_MATCHER_NEQ  == Kind("cmp", {"LT", "GT"})
MMK_MATCHER_LT   == Kind("cmp", {"LT"})
MMK_MATCHER_LEQ  == Kind("cmp", {"EQ", "LT"})
MMK_MATCHER_GT   == Kind("cmp", {"GT"})
MMK_MATCHER_GEQ  == Kind("cmp", {"EQ", "GT"})

Matcher(kind, prio, data) == [kind |-> kind, prio |-> prio, data |-> data]

mmk_matcher_append(list, m) == Append(list, m)   \* mutant: call order

(* C does not say in which order the arguments of a call are evaluated, so *)
(* each matcher carries its place in the source (__COUNTER__) and goes     *)
(* before the first one that does not precede it.                          *)
mmk_matcher_add(list, m) ==
    LET k == SelectInSeq(list, LAMBDA x : x.prio >= m.prio)
    IN  IF k = 0 THEN Append(list, m) ELSE InsertAt(list, k, m)

(* A comparison lets the outcomes through that its flags name. *)
LetsThrough(kind, cmp) ==
    /\ cmp = 0 => "EQ" \in kind.bits
    /\ cmp < 0 => "LT" \in kind.bits
    /\ cmp > 0 => "GT" \in kind.bits

(* A parameter against its matcher: MMK_TRYMATCH and MMK_TRYVERIFY.        *)
Passes(m, actual, ref) ==
    CASE m.kind.tag = "cmp"  -> LetsThrough(m.kind, actual - ref)
      [] m.kind.tag = "that" -> actual \in m.data
      [] OTHER               -> TRUE

(* The list is walked in step with the parameters; once it has run out the *)
(* remaining parameters must equal the reference values.                   *)
Matches(list, args, refs) ==
    \A n \in DOMAIN refs :
        IF n <= Len(list) THEN Passes(list[n], args[n], refs[n])
                          ELSE args[n] = refs[n]

(* The variadic parameters are sequences of bytes, char being signed, and  *)
(* are compared byte by byte from the first.                               *)
mmk_memcmp(a, b) ==
    LET k == SelectInSeq([i \in DOMAIN a |-> a[i] - b[i]], LAMBDA d : d # 0)
    IN  IF k = 0 THEN 0 ELSE a[k] - b[k]

PassesVa(m, actual, ref) ==
    CASE m.kind.tag = "cmp"  -> LetsThrough(m.kind, mmk_memcmp(actual, ref))
      [] m.kind.tag = "that" -> actual \in m.data
      [] OTHER               -> TRUE

(* What is left of the list after the named parameters goes on with them.  *)
MMK_MOCK_VA_VERIFY(list, args, refs) ==
    /\ Len(args) = Len(refs)
    /\ \A n \in DOMAIN refs :
          /\ Len(args[n]) = Len(refs[n])
          /\ IF n <= Len(list) THEN PassesVa(list[n], args[n], refs[n])
                               ELSE mmk_memcmp(args[n], refs[n]) = 0

(* Mutant: no upper limit is taken for the limit 0. *)
mmk_verify_times_most(p, t) ==
    IF p.never # 0
    THEN t = 0
    ELSE IF p.at_least # 0 \/ p.at_most # 0
    THEN t >= p.at_least /\ t <= p.at_most
    ELSE IF p.matching # NULL
    THEN t \in p.matching
    ELSE p.times > 0 => p.times = t

(* struct mmk_verify_params; a field that is not given is 0, and matching  *)
(* is the set of counts the client's function accepts or NULL.             *)
mmk_verify_times(p, t) ==
    IF p.never # 0
    THEN t = 0
    ELSE IF p.at_least # 0 \/ p.at_most # 0
    THEN /\ t >= p.at_least
         /\ p.at_most # 0 => t <= p.at_most
    ELSE IF p.matching # NULL
    THEN t \in p.matching
    ELSE p.times > 0 => p.times = t
=============================================================================
