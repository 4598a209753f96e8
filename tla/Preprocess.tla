----------------------------- MODULE Preprocess -----------------------------
(***************************************************************************)
(* How mmk_mock_define turns a signature into a stub body: the macros of   *)
(* preprocess.h that count, split and number a list of arguments, and what *)
(* the body of mock.h makes of them.                                       *)
(*                                                                         *)
(* An argument list is a sequence of types, the return type first, and a   *)
(* type is the sequence of its tokens, so that `void *' is not `void'.  A  *)
(* family of numbered macros (MMK_APPLY_N1 to 65, ...) is one recursion on *)
(* the number.  An argument list is never empty: no argument at all is one *)
(* empty argument.                                                         *)
(***************************************************************************)
EXTENDS Naturals, Sequences, SequencesExt

NoTokens == << >>
VoidType == <<"void">>
VaArgs   == <<"mmk_va_args">>

MMK_VA_TAIL_SELECT64(args) == args[64]

(* Whether there is one argument or there are more. *)
MMK_VA_TAIL_SELECT(args) ==
    MMK_VA_TAIL_SELECT64(args \o [i \in 1..62 |-> 2] \o <<1, "_">>)

(* Mutant: the table has 32 twice, and each number above it one too low. *)
MMK_VA_NARGS_short(args) ==
    MMK_VA_TAIL_SELECT64(args \o [i \in 1..64 |-> IF i < 32 THEN 63 - i ELSE 64 - i])

MMK_VA_NARGS(args) == MMK_VA_TAIL_SELECT64(args \o [i \in 1..64 |-> 64 - i])

MMK_VA_HEAD(args) == Head(args)
MMK_VA_TAIL(args) ==
    IF MMK_VA_TAIL_SELECT(args) = 1 THEN <<NoTokens>> ELSE Tail(args)

MMK_INC(n) == n + 1
MMK_DEC(n) == IF n = 0 THEN 0 ELSE n - 1

(* What the k-th macro of a family makes of its arguments: the first k - 1 *)
(* of them, each with the number that MMK_INC has reached.                 *)
Numbered(k, args) ==
    LET n[i \in 1..k] == IF i = 1 THEN 0 ELSE MMK_INC(n[i - 1])
    IN  [i \in 1..(k - 1) |-> [n |-> n[i], type |-> args[i]]]

(* The parameters, by which Macro is expanded: all but the return type.    *)
MMK_APPLY_N(args) ==
    IF MMK_VA_TAIL_SELECT(args) = 1
    THEN << >>
    ELSE LET params == MMK_VA_TAIL(args)
         IN  Numbered(MMK_VA_NARGS(<<NoTokens>> \o params), params)

MMK_LAST(args) == args[MMK_VA_NARGS(<<NoTokens>> \o args) - 1]

(* Pasted to a prefix, one type becomes a comma, any other type stays one  *)
(* argument: this is how a type is recognised.                             *)
Pasted(type, T) == IF T = type THEN <<NoTokens, NoTokens>> ELSE <<T>>
Select(type, T, without, with) ==
    IF MMK_VA_TAIL_SELECT(Pasted(type, T)) = 1 THEN without ELSE with

MMK_COND_VOID(without, with, T) == Select(VoidType, T, without, with)
MMK_COND_VA(without, with, T)   == Select(VaArgs, T, without, with)

(* A parameter list: the last parameter alone may be the variadic pack.    *)
Listed(args, pack) ==
    LET k == MMK_VA_NARGS(args)
        all == Numbered(k, Tail(args))
    IN  [i \in DOMAIN all |->
           IF i < k - 1 THEN all[i] ELSE Select(VaArgs, all[i].type, all[i], pack)]

Pack == [n |-> "none", type |-> VaArgs]     \* `...' or the va_list

MMK_PARAM_LIST(args) ==
    IF MMK_VA_TAIL_SELECT(args) = 1 THEN <<VoidType>> ELSE Listed(args, Pack)
MMK_PARAM_PACK(args) ==
    IF MMK_VA_TAIL_SELECT(args) = 1 THEN << >> ELSE Listed(args, Pack)

-----------------------------------------------------------------------------
(* The stub body.  MMK_DEF_FIELD, MMK_SET_PARAMS, MMK_TRYMATCH and         *)
(* MMK_TRYVERIFY are all expanded for the parameters that are not a        *)
(* variadic pack, and expand to nothing for one that is.                   *)
NoPack(args) ==
    LET all == MMK_APPLY_N(args)
        upTo[i \in 0..Len(all)] ==
            IF i = 0 THEN << >>
            ELSE upTo[i - 1] \o MMK_COND_VA(<<all[i]>>, << >>, all[i].type)
    IN  upTo[Len(all)]

(* Mutant: the last parameter is taken for the one before the pack. *)
VaStartLast(args) == MMK_DEC(MMK_VA_NARGS(MMK_VA_TAIL(args)))

(* The parameter va_start is given. *)
VaStart(args) == MMK_DEC(MMK_DEC(MMK_VA_NARGS(MMK_VA_TAIL(args))))

mmk_mock_define(args) ==
    [return   |-> MMK_VA_HEAD(args),
     isVoid   |-> MMK_COND_VOID(FALSE, TRUE, MMK_VA_HEAD(args)),
     isVa     |-> MMK_COND_VA(FALSE, TRUE, MMK_LAST(args)),
     params   |-> MMK_PARAM_LIST(args),
     pack     |-> MMK_PARAM_PACK(args),
     each     |-> NoPack(args),
     va_start |-> VaStart(args)]
=============================================================================
