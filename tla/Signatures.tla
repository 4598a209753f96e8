----------------------------- MODULE Signatures -----------------------------
(***************************************************************************)
(* The mocks that a program defines, each with the signature it is defined *)
(* for (mmk_mock_define), and the stub body that the macros make of that.  *)
(***************************************************************************)
EXTENDS Preprocess

CONSTANTS
    Type,       \* sequences of tokens
    Parameters  \* lists of named parameters

(* A mock takes at most this many arguments after its name: MMK_LAST       *)
(* counts one more, and the table of MMK_VA_NARGS ends at 63.              *)
MaxWritten == 62

ASSUME SignaturesAssumption ==
    /\ Parameters \subseteq Seq(Type)
    /\ VaArgs \notin Type

(* A variadic pack comes after at least one named parameter.               *)
Written(sig) ==
    <<sig.return>> \o sig.params \o (IF sig.va THEN <<VaArgs>> ELSE << >>)
Signature ==
    {sig \in [return : Type, params : Parameters, va : BOOLEAN] :
        /\ sig.va => sig.params # << >>
        /\ Len(Written(sig)) <= MaxWritten}

VARIABLE bodies     \* what has been defined so far, by its signature

DefInit == bodies = << >>

Define(sig) ==
    /\ sig \notin DOMAIN bodies
    /\ bodies' = [s \in DOMAIN bodies \union {sig} |->
                    IF s = sig THEN mmk_mock_define(Written(sig)) ELSE bodies[s]]

DefNext == \E sig \in Signature : Define(sig)
DefSpec == DefInit /\ [][DefNext]_bodies

-----------------------------------------------------------------------------
(* A stub body has each named parameter once, under its own number, in its *)
(* parameter list, in the calls it passes on and in the code that stores   *)
(* and compares parameters; a variadic pack comes last, in the lists only  *)
(* (mock.h:76-201, 292-379), up to the number of parameters the tables of  *)
(* preprocess.h allow.                                                     *)
EachParameterOnce ==
    \A sig \in DOMAIN bodies :
      LET each == [i \in DOMAIN sig.params |-> [n |-> i - 1, type |-> sig.params[i]]]
          list == IF sig.va THEN Append(each, Pack) ELSE each
      IN  /\ bodies[sig].each = each
          /\ bodies[sig].pack = list
          /\ bodies[sig].params = IF sig.params = << >> THEN <<VoidType>> ELSE list

(* The body returns a value, and deals with a va_list that starts after    *)
(* the last named parameter, exactly where the signature asks for it       *)
(* (mock.h:203-209, 406-428).                                              *)
BodyFitsSignature ==
    \A sig \in DOMAIN bodies :
      /\ bodies[sig].isVoid <=> sig.return = VoidType
      /\ bodies[sig].isVa <=> sig.va
      /\ sig.va => bodies[sig].va_start = Len(sig.params) - 1
=============================================================================
