---------------------------- MODULE LCPQPSolver -----------------------------
(***************************************************************************)
(* LCPQPSolver::solve() and QPInverseProblemImpl::getNewQProblem()         *)
(* (component/solver/modules): how the plugin uses qpOASES.  Each solve    *)
(* has an object of its own with the options of the constructor, forces    *)
(* that are bounded from one side at least, and no guess.                  *)
(***************************************************************************)
EXTENDS SQProblem

(* A contact force is not negative, a row of M f + q neither; M comes from *)
(* a compliance and may have any shape.                                    *)
LCPUse ==
  [class |-> "QProblem", opt |-> SetToDefault, starts |-> {"cold"}, matrices |-> AllMatrices \ {"null"},
   bounds |-> {[i \in Idx |-> "range"]}, guesses |-> {}]
=============================================================================
