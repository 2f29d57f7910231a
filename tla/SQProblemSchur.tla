--------------------------- MODULE SQProblemSchur ---------------------------
(***************************************************************************)
(* qpOASES::SQProblemSchur (extlibs/qpOASES-3.2.0/src/SQProblemSchur.cpp): *)
(* an SQProblem that factorises the KKT matrix of a working set once, with *)
(* a sparse solver, and describes every later change of the working set by *)
(* a row and column of a small Schur complement.  A change that undoes an  *)
(* earlier one takes its row out again.  When there is no room, or the     *)
(* complement is badly conditioned, the KKT matrix is factorised anew.     *)
(*                                                                         *)
(* The lists are the sets of their indices (Indexlist has their order).    *)
(* Entries of S are named by the updates that they belong to.  What depends*)
(* on numbers (signs of determinants, inertia, singularity, failures of    *)
(* the sparse solver) is free, as far as Numerics allows it.               *)
(***************************************************************************)
EXTENDS Sequences, SparseSolver

CONSTANTS
  NV,       \* the number of variables
  NC,       \* the number of constraints
  NSmax,    \* room in the Schur complement
  Numerics, \* bound: what may go wrong, see AllNumerics
  Solvers   \* the sparse solvers considered

Vars == 1 .. NV
Cons == NV + 1 .. NV + NC
Idx == Vars \cup Cons

(* singular, fails: factorisations.  inertia: the reduced Hessian of the   *)
(* working set has negative eigenvalues.  condition: rcondS < rcondSMin.   *)
AllNumerics == {"singular", "fails", "inertia", "condition"}

ASSUME SchurAssumption ==
  /\ NV \in Nat /\ NC \in Nat /\ NSmax \in Nat
  /\ Numerics \subseteq AllNumerics /\ Solvers \subseteq SolverKinds

VARIABLES
  sq,   \* the object
  ret   \* what the last call returned

(* sq.free, sq.active: the free variables and the active constraints;      *)
(* sq.freeStart, sq.activeStart: boundsFreeStart, constraintsActiveStart.  *)
(* sq.nS, sq.upd, sq.S, sq.M: the Schur complement, M by its columns.      *)
(* sq.sol: sparseSolver.                                                   *)
(* Two records of what happened: sq.failed, a change of the working set    *)
(* that an error has kept from the factorisation; sq.dropped, updates that *)
(* were forgotten.                                                         *)
Updates == [i : Idx, t : {"VarFixed", "VarFreed", "ConAdded", "ConRemoved"}]
SchurObjects ==
  [free : SUBSET Vars, active : SUBSET Cons, freeStart : SUBSET Vars, activeStart : SUBSET Cons,
   nS : Int, upd : Seq(Updates), S : Seq(Seq(SUBSET Updates)), M : Seq(Updates), sol : SparseSolvers,
   failed : BOOLEAN, dropped : BOOLEAN]
Fresh(kind) ==
  [free |-> Vars, active |-> {}, freeStart |-> {}, activeStart |-> {},
   nS |-> -1, upd |-> <<>>, S |-> <<>>, M |-> <<>>, sol |-> NewSolver(kind), failed |-> FALSE,
   dropped |-> FALSE]

Out(q, r) == [q |-> q, ret |-> r]
Then(outcomes, F(_)) == UNION {IF r.ret = "OK" THEN F(r.q) ELSE {r} : r \in outcomes}
Failed(q, error) == Out([q EXCEPT !.failed = TRUE], error)
InWorkingSet(q, i) == IF i \in Vars THEN i \notin q.free ELSE i \in q.active

-----------------------------------------------------------------------------
(* A solve with the factorised KKT matrix, whose failures all callers      *)
(* report alike.                                                           *)
StartDim(q) == Cardinality(q.freeStart) + Cardinality(q.activeStart)
SolveKKT(q) ==
  {LET p == [q EXCEPT !.sol = a.s]
   IN  IF a.ret = "OK" THEN Out(p, "OK") ELSE Failed(p, "MATRIX_FACTORISATION_FAILED")
    : a \in Solve(q.sol, StartDim(q), Numerics)}

(* addToSchurComplement(): a new last row and column.                      *)
AddToSchurComplement(q, u) ==
  LET n == q.nS + 1
      old == Append(q.upd, u)
      add(p) == {Out([p EXCEPT !.nS = n, !.upd = old, !.M = Append(@, u),
                               !.S = [i \in 1 .. n |-> [j \in 1 .. n |->
                                       IF i < n /\ j < n THEN q.S[i][j] ELSE {old[i], old[j]}]]], "OK")}
  IN  Then(SolveKKT(q), add)

(* deleteFromSchurComplement(): rows and columns behind the k-th move up;  *)
(* if the deletion may be undone, the k-th is kept behind the last, in the *)
(* old order.                                                              *)
From(k, i) == IF i < k THEN i ELSE i + 1
DeleteFromSchurComplement(q, k) ==
  LET n == q.nS
  IN  [q EXCEPT !.nS = n - 1,
         !.upd = [i \in 1 .. n |-> IF i = n THEN q.upd[k] ELSE q.upd[From(k, i)]],
         !.M = [i \in 1 .. n |-> IF i = n THEN q.M[k] ELSE q.M[From(k, i)]],
         !.S = [i \in 1 .. n |-> [j \in 1 .. n |->
                 IF i = n THEN q.S[k][j] ELSE IF j = n THEN q.S[k][i] ELSE q.S[From(k, i)][From(k, j)]]]]

(* undoDeleteFromSchurComplement(): the last goes back to where it was.    *)
To(k, i) == IF i < k THEN i ELSE i - 1
UndoWithoutShift(q, k) == [q EXCEPT !.nS = @ + 1]
UndoDeleteFromSchurComplement(q, k) ==
  LET n == q.nS + 1
  IN  [q EXCEPT !.nS = n,
         !.upd = [i \in 1 .. n |-> IF i = k THEN q.upd[n] ELSE q.upd[To(k, i)]],
         !.M = [i \in 1 .. n |-> IF i = k THEN q.M[n] ELSE q.M[To(k, i)]],
         !.S = [i \in 1 .. n |-> [j \in 1 .. n |->
                 IF i = k THEN q.S[n][j] ELSE IF j = k THEN q.S[n][i] ELSE q.S[To(k, i)][To(k, j)]]]]

(* updateSchurQR(): what was kept for undoing is not used any more.        *)
FirstUpdates(q, n) ==
  [q EXCEPT !.nS = n, !.upd = SubSeq(@, 1, n), !.M = SubSeq(@, 1, n), !.S = [i \in 1 .. n |-> SubSeq(q.S[i], 1, n)]]
UpdateSchurQR(q) == FirstUpdates(q, q.nS)

-----------------------------------------------------------------------------
(* Moving an index from one list to the other.                             *)
FixVariable(q, i) == [q EXCEPT !.free = @ \ {i}]
FreeVariable(q, i) == [q EXCEPT !.free = @ \cup {i}]
ActivateConstraint(q, i) == [q EXCEPT !.active = @ \cup {i}]
DeactivateConstraint(q, i) == [q EXCEPT !.active = @ \ {i}]
IntoWorkingSet(q, i) == IF i \in Vars THEN FixVariable(q, i) ELSE ActivateConstraint(q, i)

(* Some of the functions call each other: a working set that was repaired  *)
(* is factorised again, and bounds that correct the inertia may fill the   *)
(* Schur complement, which then is factorised and corrected in turn.       *)
(* calls has the outcomes of such inner calls, see Calls.                  *)

(* repairSingularWorkingSet(): at the zero pivots variables are fixed and  *)
(* constraints removed, if the solver tells which they are.  The pivots    *)
(* are places in the lists, so any indices, as many as there are pivots.   *)
RepairSingularWorkingSet(q) ==
  LET pivots == GetZeroPivots(q.sol)
  IN  IF q.sol.rank < 0 \/ pivots = {} THEN {Failed(q, "KKT_MATRIX_SINGULAR")}
      ELSE {Out([q EXCEPT !.free = @ \ out, !.active = @ \ out], "OK")
             : out \in {o \in SUBSET (q.free \cup q.active) : Cardinality(o) = Cardinality(pivots)}}

(* correctInertia(): free variables that are independent are fixed, one    *)
(* after the other, until there are no more negative eigenvalues than      *)
(* there should be; if there are none left, it has failed.                 *)
CorrectInertia(calls, q) ==
  IF q.nS \notin {0, 1} THEN {Failed(q, "INERTIA_CORRECTION_FAILED")}
  ELSE UNION {IF neig <= Cardinality(q.active) THEN {Out(q, "OK")} ELSE calls.correct[<<q, q.free>>]
               : neig \in GetNegativeEigenvalues(q.sol, Cardinality(q.active), Numerics)}

(* resetSchurComplement(): the KKT matrix of the working set is            *)
(* factorised, after repairs if it is singular.  Its last assignment       *)
(* forgets the updates of a correction of the inertia.                     *)
NoUpdates(q) == [q EXCEPT !.nS = 0, !.upd = <<>>, !.M = <<>>, !.S = <<>>]
Forget(q) == [NoUpdates(q) EXCEPT !.dropped = @ \/ q.nS > 0]
Corrected(calls, q) ==
  {IF r.ret = "OK" THEN Out(Forget(r.q), "OK") ELSE Out(r.q, "MATRIX_FACTORISATION_FAILED")
    : r \in CorrectInertia(calls, q)}
WithFactorisation(calls, q, f, allow) ==
  LET p == [q EXCEPT !.sol = f.s]
      again(u) == calls.reset[<<u, allow>>]
  IN  CASE f.ret = "OK" -> IF allow THEN Corrected(calls, p) ELSE {Out(p, "OK")}
        [] f.ret = "KKT_MATRIX_SINGULAR" -> Then(RepairSingularWorkingSet(p), again)
        [] OTHER -> {Failed(p, "MATRIX_FACTORISATION_FAILED")}
ResetKeepsOldStart(calls, q, allow) == {Out(NoUpdates(q), "OK")}
ResetSchurComplement(calls, q, allow) ==
  LET p == [NoUpdates(q) EXCEPT !.freeStart = q.free, !.activeStart = q.active]
  IN  UNION {IF m.ret # "OK" THEN {Failed([p EXCEPT !.sol = m.s], "NO_SPARSE_SOLVER")}
             ELSE UNION {WithFactorisation(calls, p, f, allow) : f \in Factorize(m.s, Numerics)}
              : m \in SetMatrixData(q.sol, Cardinality(q.free) + Cardinality(q.active))}

(* Every change ends with updateSchurQR() and a look at the condition.     *)
Finish(calls, q) ==
  LET p == UpdateSchurQR(q)
  IN  {Out(p, "OK")}
        \cup IF p.nS > 0 /\ "condition" \in Numerics THEN ResetSchurComplement(calls, p, TRUE) ELSE {}

(* The position of an update among the first nS, or 0.                     *)
Position(q, u) == IF \E k \in 1 .. q.nS : q.upd[k] = u THEN CHOOSE k \in 1 .. q.nS : q.upd[k] = u ELSE 0
Full(q) == q.nS < 0 \/ q.nS = NSmax
Update(i, t) == [i |-> i, t |-> t]

(* A change of the working set: the lists after it, the update that it     *)
(* undoes, the one that it is, and whether the factorised working set      *)
(* admits it.                                                              *)
Change(q, undoes, does, admitted, error) ==
  [q |-> q, undoes |-> undoes, does |-> does, admitted |-> admitted, error |-> error]
AddBound(q, i) ==
  Change(FixVariable(q, i), Update(i, "VarFreed"), Update(i, "VarFixed"), i \in q.freeStart, "ADDBOUND_FAILED")
AddConstraint(q, i) ==
  Change(ActivateConstraint(q, i), Update(i, "ConRemoved"), Update(i, "ConAdded"), TRUE, "ADDCONSTRAINT_FAILED")
RemoveBound(q, i) ==
  Change(FreeVariable(q, i), Update(i, "VarFixed"), Update(i, "VarFreed"), TRUE, "REMOVEBOUND_FAILED")
RemoveConstraint(q, i) ==
  Change(DeactivateConstraint(q, i), Update(i, "ConAdded"), Update(i, "ConRemoved"), i \in q.activeStart,
         "REMOVECONSTRAINT_FAILED")

(* The update that is undone is deleted, or a new one is added if there is *)
(* room.                                                                   *)
SchurMod(q, c) ==
  IF Position(q, c.undoes) > 0 THEN "deleted" ELSE IF Full(q) THEN "reset"
  ELSE IF c.admitted THEN "added" ELSE "refused"
UpdateSchurComplement(calls, q, c, allow) ==
  CASE SchurMod(q, c) = "deleted" -> {Out(DeleteFromSchurComplement(c.q, Position(q, c.undoes)), "OK")}
    [] SchurMod(q, c) = "reset"   -> ResetSchurComplement(calls, c.q, allow)
    [] SchurMod(q, c) = "added"   -> AddToSchurComplement(c.q, c.does)
    [] SchurMod(q, c) = "refused" -> {Failed(c.q, c.error)}

(* addBound(), addConstraint() without a test of linear independence.      *)
Add(calls, q, i) ==
  LET finish(p) == Finish(calls, p)
  IN  IF InWorkingSet(q, i) THEN {Out(q, "ALREADY_ACTIVE")}
      ELSE Then(UpdateSchurComplement(calls, q, IF i \in Vars THEN AddBound(q, i) ELSE AddConstraint(q, i), TRUE), finish)

-----------------------------------------------------------------------------
(* stepCalcRhs() factorises if that was never done.                        *)
StepCalcRhs(calls, q) == IF q.nS < 0 THEN ResetSchurComplement(calls, q, FALSE) ELSE {Out(q, "OK")}

(* backsolveSchurQR(): S may be singular.                                  *)
BacksolveSchurQR(q) == {"OK"} \cup IF q.nS > 0 THEN {"QR_FACTORISATION_FAILED"} ELSE {}

(* determineStepDirection2(): a solve, and a second one if there are       *)
(* updates (stepCalcBacksolveSchur(), which does not look at the result of *)
(* backsolveSchurQR()).  determineStepDirection() would factorise anew if  *)
(* it were told that S is singular.                                        *)
DetermineStepDirection2(calls, q) ==
  LET second(p) == IF p.nS > 0 THEN UNION {SolveKKT(p) : ignored \in BacksolveSchurQR(p)} ELSE {Out(p, "OK")}
      step(p) == Then(SolveKKT(p), second)
  IN  IF q.free \cup q.active = {} THEN {Out(q, "OK")} ELSE Then(StepCalcRhs(calls, q), step)
DetermineStepDirection(calls, q) ==
  LET step(p) == DetermineStepDirection2(calls, p)
  IN  UNION {IF r.ret = "QR_FACTORISATION_FAILED" THEN Then(ResetSchurComplement(calls, r.q, FALSE), step) ELSE {r}
              : r \in step(q)}

(* addConstraint_checkLISchur(), addBound_checkLISchur(): a step direction *)
(* decides, also one that could not be computed.                           *)
CheckLI(calls, q) == {Out(r.q, c) : r \in DetermineStepDirection(calls, q), c \in {"INDEPENDENT", "DEPENDENT"}}
AddConstraintCheckLI(calls, q) == CheckLI(calls, q)
AddBoundCheckLI(calls, q) == CheckLI(calls, q)

(* The loop of correctInertia() over the free variables that it found, in  *)
(* any order.                                                              *)
FixForInertia(calls, q, i) ==
  {IF r.ret = "OK" THEN r ELSE Failed(r.q, "INERTIA_CORRECTION_FAILED") : r \in Add(calls, q, i)}
CorrectFrom(calls, q, numbers) ==
  LET rest(p, i) == calls.correct[<<p, numbers \ {i}>>]
      more(p, i) == {Out(p, "OK")} \cup rest(p, i)
      fix(p, i) == UNION {IF r.ret = "OK" THEN more(r.q, i) ELSE {r} : r \in FixForInertia(calls, p, i)}
  IN  IF numbers = {} THEN {Failed(q, "INERTIA_CORRECTION_FAILED")}
      ELSE UNION {UNION {IF c.ret = "INDEPENDENT" THEN fix(c.q, i) ELSE rest(c.q, i)
                          : c \in AddBoundCheckLI(calls, q)} : i \in numbers}

(* The outcomes of inner calls, to a depth of n.  A repair and a bound     *)
(* that is fixed make the KKT matrix smaller, and a turn of the loop       *)
(* leaves fewer variables to try, so that no call is deeper than Depth.    *)
NoCalls ==
  [reset |-> [a \in SchurObjects \X BOOLEAN |-> {}], correct |-> [a \in SchurObjects \X SUBSET Vars |-> {}]]
CallsWith(calls) ==
  [reset |-> [a \in SchurObjects \X BOOLEAN |-> ResetSchurComplement(calls, a[1], a[2])],
   correct |-> [a \in SchurObjects \X SUBSET Vars |-> CorrectFrom(calls, a[1], a[2])]]
Depth == (NV + NC + 2) * (NV + NC + 2)
Calls[n \in 0 .. Depth] == IF n = 0 THEN NoCalls ELSE CallsWith(Calls[n - 1])
Inner == Calls[Depth]

-----------------------------------------------------------------------------
(* removeBound(), removeConstraint().  If the sign of a determinant        *)
(* (calcDetSchur()), or the inertia, shows that the reduced Hessian is not *)
(* positive definite any more, the index is flipped to its other side,     *)
(* that is, kept; what addBound() and addConstraint() then return is       *)
(* ignored.                                                                *)
Kept(outcomes) == {Out(r.q, "OK") : r \in outcomes}
FlippedBack(q, i, mod, k) ==
  IntoWorkingSet(IF mod = "added" THEN FirstUpdates(q, q.nS - 1) ELSE UndoDeleteFromSchurComplement(q, k), i)
CalcDetSchur(q) == IF q.nS <= 0 THEN {1} ELSE {-1, 0, 1}
FlipsBack(q, mod) == {IF mod = "added" THEN old * new > 0 ELSE old * new < 0 : old \in {-1, 1}, new \in CalcDetSchur(q)}
AfterRemoval(q, i, mod, k, flip) ==
  LET correct(p) == CorrectInertia(Inner, p)
  IN  IF flip /\ mod = "reset"
      THEN Then({Out(q, "OK")} \cup IF "inertia" \in Numerics THEN Kept(Add(Inner, q, i)) ELSE {}, correct)
      ELSE UNION {IF b THEN {Out(FlippedBack(q, i, mod, k), "OK")} ELSE Finish(Inner, q)
                   : b \in IF flip THEN FlipsBack(q, mod) ELSE {FALSE}}
Remove(q, i, flip) ==
  IF ~InWorkingSet(q, i) THEN {Out(q, "NOT_ACTIVE")}
  ELSE LET c == IF i \in Vars THEN RemoveBound(q, i) ELSE RemoveConstraint(q, i)
           after(p) == AfterRemoval(p, i, SchurMod(q, c), Position(q, c.undoes), flip)
       IN  Then(UpdateSchurComplement(Inner, q, c, FALSE), after)

(* addConstraint_ensureLI(), addBound_ensureLI(): an index that depends on *)
(* the working set takes the place of another one that a ratio test picks. *)
(* If there is none, the QP is infeasible, or dropInfeasibles() gives up   *)
(* the index, or another one, whether that can be removed or not.          *)
Removals(q) == UNION {Remove(q, j, FALSE) : j \in {k \in Idx : InWorkingSet(q, k)}}
Resolve(q) ==
  {Out(q, "INFEASIBILITY"), Out(q, "DROPPED")}
    \cup UNION {{IF r.ret = "OK" THEN r ELSE Out(r.q, "ENSURELI_FAILED"), Out(r.q, "OK")} : r \in Removals(q)}
AddConstraintEnsureLI(q) ==
  UNION {IF r.ret = "INDEPENDENT" THEN {Out(r.q, "OK")} ELSE Resolve(r.q) : r \in AddConstraintCheckLI(Inner, q)}
AddBoundEnsureLI(q) ==
  UNION {IF r.ret = "INDEPENDENT" THEN {Out(r.q, "OK")} ELSE Resolve(r.q) : r \in AddBoundCheckLI(Inner, q)}

(* The two ways in which solveQP() changes the working set.  The removal   *)
(* may exchange the index for one that blocks a direction of zero          *)
(* curvature; then it is not flipped, and what adding the other returns is *)
(* ignored.                                                                *)
AddToActiveSet(i) ==
  /\ ret = "OK" /\ ~InWorkingSet(sq, i)
  /\ LET add(p) == Add(Inner, p, i)
     IN  \E r \in Then(IF i \in Vars THEN AddBoundEnsureLI(sq) ELSE AddConstraintEnsureLI(sq), add) :
           sq' = r.q /\ ret' = IF r.ret = "DROPPED" THEN "OK" ELSE r.ret
RemoveFromActiveSet(i, flip) ==
  /\ ret = "OK" /\ InWorkingSet(sq, i)
  /\ \E r \in Remove(sq, i, flip) : sq' = r.q /\ ret' = r.ret
ExchangeInActiveSet(i, j) ==
  /\ ret = "OK" /\ InWorkingSet(sq, i) /\ ~InWorkingSet(sq, j)
  /\ LET add(p) == Kept(Add(Inner, p, j))
     IN  \E r \in Then(Remove(sq, i, FALSE), add) : sq' = r.q /\ ret' = r.ret

(* setupAuxiliaryWorkingSet(): afresh (init(), or after new matrices) or   *)
(* from the lists there are, then a new factorisation.                     *)
WithWorkingSet(q, fixed, actives) ==
  [q EXCEPT !.free = Vars \ fixed, !.active = actives, !.failed = FALSE, !.dropped = FALSE]
FactoriseAndCorrect(q) ==
  LET correct(p) == CorrectInertia(Inner, p)
  IN  Then(ResetSchurComplement(Inner, q, FALSE), correct)
SetupAuxiliaryWorkingSet(q, fixed, actives) == FactoriseAndCorrect(WithWorkingSet(q, fixed, actives))
InitWorkingSet(fixed, actives, afresh) ==
  /\ ret = "OK" \/ afresh
  /\ \E r \in SetupAuxiliaryWorkingSet(IF afresh THEN Fresh(sq.sol.kind) ELSE sq, fixed, actives) :
       sq' = r.q /\ ret' = r.ret

(* setupAuxiliaryQP(): for new matrices the working set stays if it can be *)
(* factorised and its inertia is right or can be corrected.  Otherwise it  *)
(* is built afresh, of the equalities that were active and of the bounds   *)
(* that were; if initialStatusBounds is not inactive, of all bounds.       *)
RebuiltWorkingSet(q, equalities, allBounds) ==
  SetupAuxiliaryWorkingSet(q, IF allBounds THEN Vars ELSE Vars \ q.free, q.active \cap equalities)
SetupAuxiliaryQP(equalities, allBounds) ==
  LET orRebuilt(outcomes) ==
        UNION {IF r.ret = "OK" THEN {r} ELSE RebuiltWorkingSet(r.q, equalities, allBounds) : r \in outcomes}
  IN  /\ ret = "OK"
      /\ \E r \in orRebuilt(FactoriseAndCorrect([sq EXCEPT !.failed = FALSE, !.dropped = FALSE])) :
           sq' = r.q /\ ret' = IF r.ret = "OK" THEN "OK" ELSE "SETUP_AUXILIARYQP_FAILED"

(* stepCalcReorder(), stepCalcReorder2(): both merge a list with the one   *)
(* that was factorised, in the order of their indices.  Where they meet, a *)
(* right-hand side is passed on and a step is taken over.                  *)
ISort(set) ==
  CHOOSE s \in [1 .. Cardinality(set) -> set] :
    {s[k] : k \in DOMAIN s} = set /\ \A j, k \in DOMAIN s : j < k => s[j] < s[k]
Merge(now, start) ==
  LET met[p \in (1 .. Len(now) + 1) \X (1 .. Len(start) + 1)] ==
        IF p[1] > Len(now) \/ p[2] > Len(start) THEN {}
        ELSE IF now[p[1]] = start[p[2]] THEN {now[p[1]]} \cup met[<<p[1] + 1, p[2] + 1>>]
        ELSE IF now[p[1]] < start[p[2]] THEN met[<<p[1] + 1, p[2]>>] ELSE met[<<p[1], p[2] + 1>>]
  IN  met
Met(now, start) == Merge(ISort(now), ISort(start))[<<1, 1>>]
StepCalcReorder(q) == Met(q.free, q.freeStart) \cup Met(q.active, q.activeStart)

(* stepCalcBacksolveSchur(): the others are reached through their updates. *)
(* That S is singular is not noticed: the result of backsolveSchurQR() is  *)
(* not looked at.                                                          *)
StepCalcBacksolveSchur(q) ==
  {k \in 1 .. q.nS : \/ q.upd[k].t = "VarFreed" /\ q.upd[k].i \in q.free
                     \/ q.upd[k].t = "ConAdded" /\ q.upd[k].i \in q.active}

(* determineStepDirection(), called by solveQP().                          *)
ComputeStep ==
  /\ ret = "OK"
  /\ \E r \in DetermineStepDirection(Inner, sq) : sq' = r.q /\ ret' = r.ret

SchurInit == ret = "NOT_INITIALISED" /\ \E kind \in Solvers : sq = Fresh(kind)
SchurNext ==
  \/ \E i \in Idx : AddToActiveSet(i)
  \/ \E i \in Idx, flip \in BOOLEAN : RemoveFromActiveSet(i, flip)
  \/ \E i, j \in Idx : ExchangeInActiveSet(i, j)
  \/ \E fixed \in SUBSET Vars, actives \in SUBSET Cons, afresh \in BOOLEAN :
       InitWorkingSet(fixed, actives, afresh)
  \/ \E equalities \in SUBSET Cons, allBounds \in BOOLEAN : SetupAuxiliaryQP(equalities, allBounds)
  \/ ComputeStep
schurVars == <<sq, ret>>
SchurSpec == SchurInit /\ [][SchurNext]_schurVars

-----------------------------------------------------------------------------
(* The factorised working set with its updates.                            *)
Updated(q, t) == {q.upd[k].i : k \in {j \in 1 .. q.nS : q.upd[j].t = t}}
FactorisedWorkingSet(q) ==
  [free |-> (q.freeStart \ Updated(q, "VarFixed")) \cup Updated(q, "VarFreed"),
   active |-> (q.activeStart \ Updated(q, "ConRemoved")) \cup Updated(q, "ConAdded")]

(* resetSchurComplement(), addToSchurComplement(): what was factorised,    *)
(* with the updates, is the working set that the lists say, as long as no  *)
(* failure was met or ignored and no update forgotten; and the sparse      *)
(* solver has that factorisation, so that it refuses no solve.             *)
FactorisationMatches ==
  sq.nS >= 0 /\ ~sq.failed =>
    /\ sq.sol.have /\ sq.sol.dim = StartDim(sq) /\ sq.sol.rank = StartDim(sq)
    /\ ~sq.dropped => FactorisedWorkingSet(sq) = [free |-> sq.free, active |-> sq.active]

(* stepCalcBacksolveSchur(), stepCalcReorder2(): there is room for all     *)
(* updates; every entry of S, and every column of M, is the one of its own *)
(* update, after any deletion and its undoing; and every free variable and *)
(* active constraint takes its step from exactly one place, the factorised *)
(* system or one update.                                                   *)
SchurComplementMatches ==
  /\ sq.nS \in -1 .. NSmax /\ (sq.nS >= 0 => Len(sq.upd) = sq.nS)
  /\ \A i, j \in 1 .. sq.nS : sq.S[i][j] = {sq.upd[i], sq.upd[j]} /\ sq.M[i] = sq.upd[i]
  /\ sq.nS >= 0 /\ ~sq.failed /\ ~sq.dropped
       => LET updates == StepCalcBacksolveSchur(sq)
              reached == {sq.upd[k].i : k \in updates}
          IN  /\ Cardinality(reached) = Cardinality(updates) /\ reached \cap StepCalcReorder(sq) = {}
              /\ reached \cup StepCalcReorder(sq) = sq.free \cup sq.active
=============================================================================
