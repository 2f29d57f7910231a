----------------------- MODULE MCQPInverseProblemImpl -----------------------
(***************************************************************************)
(* Instances of QPInverseProblemImpl.  A scene is named for what makes it  *)
(* interesting: the limits on its actuators, its contacts and its friction *)
(* mode.                                                                   *)
(***************************************************************************)
EXTENDS QPInverseProblemImpl, NLCPSolver

Act(first, lines, dMax, dMin) ==
  [first |-> first, lines |-> lines, dMax |-> dMax, dMin |-> dMin,
   lMax |-> FALSE, lMin |-> TRUE, dEq |-> FALSE, lEq |-> FALSE]
Scene(act, na, eq, ne, nc, mu, slide, minF, maxF) ==
  [act |-> act, na |-> na, eq |-> eq, ne |-> ne, nc |-> nc, comps |-> nc > 0,
   mu |-> mu, slide |-> slide, minF |-> minF, maxF |-> maxF]

(* One actuator, bounded above only; one bounded on both sides raises the  *)
(* two-sided flag; one bounded below has its row negated or not.           *)
Upper == {Act(0, 1, TRUE, FALSE)}
Both  == {Act(0, 1, TRUE, TRUE)}
Lower == {Act(0, 1, FALSE, TRUE)}

(* Steps without and with contacts, no friction; a minimal sum of contact  *)
(* forces (grasping).                                                      *)
Frictionless ==
  {Scene(Upper, 1, {}, 0, 0, FALSE, FALSE, FALSE, TRUE),
   Scene(Both,  1, {}, 0, 0, FALSE, FALSE, FALSE, TRUE),
   Scene(Upper, 1, {}, 0, 2, FALSE, FALSE, TRUE, FALSE),
   Scene(Lower, 1, {}, 0, 3, FALSE, FALSE, FALSE, TRUE)}

(* Two contacts with friction, sliding allowed and not; and one contact    *)
(* whose actuator is missing in a step.                                    *)
Friction ==
  {Scene(Upper, 1, {}, 0, 6, TRUE, TRUE, FALSE, FALSE),
   Scene(Upper, 1, {}, 0, 6, TRUE, FALSE, FALSE, FALSE),
   Scene({}, 0, {}, 0, 3, TRUE, FALSE, FALSE, FALSE)}

(* One equality row beside one actuator and two contacts.                  *)
WithEquality ==
  {Scene(Upper, 1, {[first |-> 1, lines |-> 1, dEq |-> TRUE, lEq |-> FALSE]}, 1,
         2, FALSE, FALSE, FALSE, FALSE)}

(* Two contacts that touch, overlap or are apart and move along their      *)
(* first tangents, with compliances that couple their normals, their       *)
(* tangents, and the normal of the first with the tangent of the second.   *)
(* The forces of an earlier step are handed in.                            *)
Coupling(nn, tt, nt, i, j) ==
  CASE i = j -> 1
    [] {i, j} = {1, 4} -> nn [] {i, j} = {2, 5} -> tt [] {i, j} = {1, 5} -> nt
    [] OTHER -> 0
ContactProblems(slide) ==
  {[dim |-> 6, dfree |-> <<n1, t1, 0, n2, t2, 0>>,
    W |-> [i \in 1 .. 6 |-> [j \in 1 .. 6 |-> Coupling(nn, tt, nt, i, j)]],
    mu |-> mu, tol |-> [num |-> 1, den |-> 4], max |-> 6, sliding |-> slide,
    useInitialF |-> TRUE, f |-> <<1, -1, 0, 0, 2, 0>>] :
      n1 \in -2 .. 1, t1 \in {-2, 1}, n2 \in -2 .. 1, t2 \in {-1, 2},
      nn \in -1 .. 1, tt \in {0, 1}, nt \in {0, 1}, mu \in {0, 1}}

(* NLCPSolver::solve(): the forces it returns as converged satisfy the     *)
(* conditions of every contact at once, although each iteration treats one *)
(* contact after the other, with the sliding mode of the step that asks    *)
(* for them.  Where it gives up at maxIteration nothing is promised.       *)
(* (Evaluated for the first step that has contacts.)                       *)
ConvergedForcesSolve ==
  pc = "contacts" /\ lambda = "none" /\ sc.mu =>
    \A p \in ContactProblems(sc.slide) :
      LET r == NLCPSolve(p) IN r.ret = 1 => SignoriniCoulomb(p, r.f)
=============================================================================
