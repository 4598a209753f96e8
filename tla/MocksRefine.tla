---------------------------- MODULE MocksRefine ----------------------------
(***************************************************************************)
(* Module Mocks implements module MockContract: matcher lists built in any *)
(* order, thread-local modes and contexts, and re-entrant client code give *)
(* each call the newest contract that accepts it, and each verification    *)
(* the number of calls it accepts.                                         *)
(***************************************************************************)
EXTENDS Mocks

(* No list of call expressions is the absence of a mock.                   *)
ASSUME RefineAssumption == NULL \notin Seq(WhenExpr)

Exprs(m) == [i \in DOMAIN mock[m].params |-> mock[m].params[i].expr]

C == INSTANCE MockContract WITH
        contracts <- [m \in Mock |-> IF mock[m] = NULL THEN NULL ELSE Exprs(m)],
        calls     <- [m \in Mock |-> IF mock[m] = NULL THEN NoCalls
                                                      ELSE mock[m].calls],
        seen      <- times

(* Every operation has the effect, and shows the client the result, that   *)
(* the documentation of mmk_when, mmk_verify and mmk_reset promises.       *)
ImplementsContract == C!Spec
=============================================================================
