---------------------------- MODULE Expressions ----------------------------
(***************************************************************************)
(* One call expression of mmk_when or mmk_verify by itself, with as many   *)
(* parameters as one likes, named or variadic: its arguments are evaluated *)
(* in an order that C leaves open, and the list of matchers that they have *)
(* built is then tried against calls; and one mmk_verify is judged.        *)
(***************************************************************************)
EXTENDS Matchers, FiniteSets

CONSTANTS
    Value,      \* what parameters may be
    MaxArgs,    \* parameters of a mock
    Serializer, \* how clients store variadic parameters: functions from
                \* values to sequences of bytes
    Limit,      \* of never, at_least, at_most and times; 0 is not given
    Count,      \* how often a mock was called
    Matching    \* predicates on that: the sets of counts they accept

(* A serializer copies a value of one type (va.h:34-39): all copies have   *)
(* its size, and different values have different copies.  A value that     *)
(* fits into one byte, char being signed, is that byte.                    *)
Serializes(bytes) ==
    /\ bytes \in [Value -> Seq(Int)]
    /\ \A v, w \in Value :
          /\ Len(bytes[v]) = Len(bytes[w])
          /\ bytes[v] = bytes[w] => v = w
    /\ \A v \in Value : Len(bytes[v]) = 1 => bytes[v] = <<v>>

ASSUME ExpressionsAssumption ==
    /\ Value \subseteq Int
    /\ MaxArgs \in Nat
    /\ \A bytes \in Serializer : Serializes(bytes)
    /\ Limit \subseteq Nat /\ Count \subseteq Nat /\ NULL \notin Matching

Name == {"any", "eq", "ne", "lt", "le", "gt", "ge", "that"}
Predicate == {v \in Value : v # 0}

KindOf(name) ==
    CASE name = "any" -> MMK_MATCHER_ANY [] name = "that" -> MMK_MATCHER_THAT
      [] name = "eq"  -> MMK_MATCHER_EQ  [] name = "ne"   -> MMK_MATCHER_NEQ
      [] name = "lt"  -> MMK_MATCHER_LT  [] name = "le"   -> MMK_MATCHER_LEQ
      [] name = "gt"  -> MMK_MATCHER_GT  [] name = "ge"   -> MMK_MATCHER_GEQ

VARIABLES
    expr,   \* the matchers written in the call expression, in source order
    refs,   \* the values they compare with
    named,  \* how many of the parameters are named; the others are variadic
    bytes,  \* the serializer of each of those
    todo,   \* arguments not evaluated yet
    list,   \* the matcher list built so far
    verify, \* a mmk_verify, NULL until one is judged
    count,  \* how often the mock was called
    verdict \* what mmk_verify_times answered

written == <<expr, refs, named, bytes>>
vars == <<expr, refs, named, bytes, todo, list, verify, count, verdict>>

(* "with either values or matchers" (mimick.h:175, 207) *)
Expr == UNION {[1..n -> Name] \union [1..n -> {"value"}] : n \in 1..MaxArgs}
Matched == {i \in DOMAIN expr : expr[i] # "value"}
Variadic == named + 1..Len(expr)

(* The keys a client wrote, with their values; the others are 0.           *)
Key == {"never", "at_least", "at_most", "times", "matching"}
Verify ==
    {v \in [never : {0, 1}, at_least : Limit \union {0}, at_most : Limit \union {0},
            times : Limit \union {0}, matching : Matching \union {NULL},
            given : SUBSET Key] :
        /\ v.never = 1 <=> "never" \in v.given
        /\ v.matching # NULL <=> "matching" \in v.given
        /\ "at_least" \in v.given \/ v.at_least = 0
        /\ "at_most" \in v.given \/ v.at_most = 0
        /\ "times" \in v.given \/ v.times = 0}

Init ==
    /\ \E variadic \in 0..MaxArgs - 1 :
          /\ expr \in {e \in Expr : variadic < Len(e)}
          /\ named = Len(expr) - variadic
    /\ refs \in [DOMAIN expr -> Value]
    /\ bytes \in [Variadic -> Serializer]
    /\ todo = Matched
    /\ list = << >>
    /\ verify = NULL
    /\ count = 0
    /\ verdict = TRUE

(* A predicate gets a named parameter itself, and a variadic one the way   *)
(* the serializer stores it.                                               *)
Accepted(i) ==
    IF i <= named THEN Predicate ELSE {bytes[i][v] : v \in Predicate}

EvalArg(i) ==
    /\ i \in todo
    /\ todo' = todo \ {i}
    /\ list' = mmk_matcher_add(list, Matcher(KindOf(expr[i]), i, Accepted(i)))
    /\ UNCHANGED <<written, verify, count, verdict>>

Verdict ==
    /\ todo = {} /\ verify = NULL
    /\ verify' \in Verify
    /\ count' \in Count
    /\ verdict' = mmk_verify_times(verify', count')
    /\ UNCHANGED <<written, todo, list>>

Next == Verdict \/ \E i \in DOMAIN expr : EvalArg(i)
Spec == Init /\ [][Next]_vars

-----------------------------------------------------------------------------
(* What the documentation calls the matchers (mimick.h:265-320). *)
Documented(name, v, ref) ==
    CASE name = "any" -> TRUE      [] name = "that" -> v \in Predicate
      [] name = "ne"  -> v # ref   [] name \in {"eq", "value"} -> v = ref
      [] name = "lt"  -> v < ref   [] name = "le"   -> v <= ref
      [] name = "gt"  -> v > ref   [] name = "ge"   -> v >= ref

(* The list goes over the named parameters, and what is left of it over    *)
(* the variadic ones.                                                      *)
Stored(args) == [i \in 1..Len(expr) - named |-> bytes[named + i][args[named + i]]]
Accepts(args) ==
    /\ Matches(list, args, SubSeq(refs, 1, named))
    /\ MMK_MOCK_VA_VERIFY(SubSeq(list, named + 1, Len(list)), Stored(args), Stored(refs))

(* Variadic parameters of several bytes are compared from the first byte   *)
(* (mock.h:254), which is not the order of their values.                   *)
Ordering == {"lt", "le", "gt", "ge"}
OrderedBytes ==
    \A i \in Variadic : expr[i] \in Ordering => \A v \in Value : Len(bytes[i][v]) = 1

(* Whatever order the arguments were evaluated in, the call expression     *)
(* accepts exactly the calls whose every parameter passes the matcher      *)
(* written for that parameter, or equals the value; variadic parameters    *)
(* too, except that lt, le, gt and ge are left out for those of several    *)
(* bytes.                                                                  *)
MatchesAsWritten ==
    (todo = {} /\ OrderedBytes) =>
      \A args \in [DOMAIN expr -> Value] :
          Accepts(args)
            <=> \A n \in DOMAIN expr : Documented(expr[n], args[n], refs[n])

(* A mmk_verify with one key, or with at_least and at_most, answers what   *)
(* the documentation of the keys says (mimick.h:217-230), as long as the   *)
(* limits are not 0.                                                       *)
VerdictAsDocumented ==
    verify # NULL =>
      LET Only(keys) == verify.given = keys /\ \A k \in keys : verify[k] # 0
      IN  /\ Only({"never"})    => verdict = (count = 0)
          /\ Only({"times"})    => verdict = (count = verify.times)
          /\ Only({"at_least"}) => verdict = (count >= verify.at_least)
          /\ Only({"at_most"})  => verdict = (count <= verify.at_most)
          /\ Only({"at_least", "at_most"})
                => verdict = (count \in verify.at_least..verify.at_most)
          /\ verify.given = {"matching"}
                => verdict = (count \in verify.matching)
=============================================================================
