---------------------- MODULE MCQPInverseProblemSolver ----------------------
(***************************************************************************)
(* Instances of QPInverseProblemSolver for TLC.                            *)
(***************************************************************************)
EXTENDS QPInverseProblemSolver, TLC

CONSTANT c1

OneClient == {c1}
=============================================================================
