------------------------------- MODULE Options -------------------------------
(***************************************************************************)
(* qpOASES::Options (extlibs/qpOASES-3.2.0/src/Options.cpp): the settings  *)
(* that decide what a QP object does.  Tolerances are left out.            *)
(***************************************************************************)
EXTENDS Integers

(* far, ramp, eq, flip, nzc, reg, fullLI, drop: enableFarBounds, -Ramping, *)
(* -Equalities, -FlippingBounds, -NZCTests, -Regularisation, -FullLITests  *)
(* and -DropInfeasibles.  drift, refactor: enableDriftCorrection and       *)
(* enableCholeskyRefactorisation, every how many iterations.  steps:       *)
(* numRegularisationSteps.  grows: growFarBounds is more than 1.  initial: *)
(* initialStatusBounds.  dropEq, dropIneq, dropBound: what is dropped      *)
(* first.                                                                  *)
OptionRecords ==
  [far : BOOLEAN, ramp : BOOLEAN, eq : BOOLEAN, flip : BOOLEAN, nzc : BOOLEAN, reg : BOOLEAN,
   fullLI : BOOLEAN, drop : BOOLEAN, drift : Int, refactor : Int, steps : Int, grows : BOOLEAN,
   initial : {"LOWER", "UPPER", "INACTIVE"}, dropEq : Nat, dropIneq : Nat, dropBound : Nat]

SetToDefault ==
  [far |-> TRUE, ramp |-> TRUE, eq |-> FALSE, flip |-> TRUE, nzc |-> TRUE, reg |-> FALSE, fullLI |-> FALSE,
   drop |-> FALSE, drift |-> 1, refactor |-> 0, steps |-> 0, grows |-> TRUE, initial |-> "LOWER",
   dropEq |-> 1, dropIneq |-> 1, dropBound |-> 1]
SetToReliable == [SetToDefault EXCEPT !.fullLI = TRUE, !.refactor = 1]
SetToMPC ==
  [SetToDefault EXCEPT !.ramp = FALSE, !.flip = FALSE, !.reg = TRUE, !.nzc = FALSE, !.drift = 0, !.eq = TRUE,
                       !.initial = "INACTIVE", !.steps = 1]

(* ensureConsistency(), which setOptions() calls.                          *)
NonNegative(n) == IF n < 0 THEN 0 ELSE n
EnsureConsistency(o) ==
  [o EXCEPT !.drift = NonNegative(@), !.refactor = NonNegative(@), !.steps = NonNegative(@), !.grows = TRUE]
=============================================================================
