------------------------------ MODULE SQProblem ------------------------------
(***************************************************************************)
(* qpOASES::SQProblem (extlibs/qpOASES-3.2.0/src/SQProblem.cpp): a         *)
(* QProblem whose hotstart() may also be given new matrices.  The old      *)
(* working set is set up anew for them, and once more with other bounds if *)
(* the projected Hessian cannot be factorised.                             *)
(*                                                                         *)
(* The module is also the specification of an object of any of the three   *)
(* classes under a user who calls it in any order.                         *)
(***************************************************************************)
EXTENDS QProblem

(* setupNewAuxiliaryQP(): the Hessian.  Leaving it out is accepted by an   *)
(* object that has none.                                                   *)
NewHessian(q, H) ==
  LET again(p) == IF p.hess \in {"ZERO", "SEMIDEF"} \/ p.reg
                  THEN RegulariseHessian([p EXCEPT !.reg = FALSE]) ELSE {Out(p, "OK")}
  IN  IF H = "null"
      THEN {Out(q, "NO_HESSIAN_SPECIFIED")} \cup IF q.hess \in {"ZERO", "IDENTITY"} THEN {Out(q, "OK")} ELSE {}
      ELSE Then(DetermineHessianType([q EXCEPT !.hess = "UNKNOWN"], H), again)

(* One try of its loop, up to setupAuxiliaryWorkingSet(): what was an      *)
(* equality may be held at the other side now.                             *)
OtherSide(q, old, was, i) ==
  IF i \in was /\ q.type[i] = "BOUNDED" /\ old[i] \in Held THEN Held ELSE {old[i]}
TryWorkingSet(q, l, old) ==
  \E u \in SetupSubjectToType(q, l.kind) : \E aux \in [Idx -> Statuses] :
    /\ \A i \in Idx : aux[i] \in OtherSide(u, old, l.was, i)
    /\ SetupAuxiliaryWorkingSet(AllInactive(u), [l EXCEPT !.aux = aux], TRUE)

(* hotstart() with new matrices.                                           *)
HotstartMatrices(l, H) ==
  /\ pc = "idle" /\ use.class = "SQProblem"
  /\ IF ~Startable(qp) THEN qp' = qp /\ Return(l, "HOTSTART_FAILED_AS_QP_NOT_INITIALISED")
     ELSE \E r \in NewHessian([qp EXCEPT !.qps = "PREPARINGAUXILIARYQP"], H) :
            IF r.ret # "OK" THEN qp' = r.q /\ Return(l, "SETUP_AUXILIARYQP_FAILED")
            ELSE TryWorkingSet(r.q, [l EXCEPT !.was = {i \in Idx : qp.type[i] = "EQUALITY"}], qp.st)
  /\ UNCHANGED use

(* The factorisation, and the end of the loop.  A second failure is not    *)
(* reported, and haveCholesky stays as it was.                             *)
Again(q, l) ==
  [i \in Idx |-> IF i \in Vars /\ l.aux[i] = "INACTIVE" THEN q.opt.initial ELSE l.aux[i]]
NewAuxiliaryQP(q, l) ==
  Goto("hotstart",
       [(IF l.try = 0 THEN q ELSE SetupAuxiliaryQPbounds(q, FALSE)) EXCEPT !.qps = "AUXILIARYQPSOLVED"],
       [l EXCEPT !.call = "hotstart"])
FinishMatrices ==
  /\ pc = "workingset" /\ loc.stage \in {"done", "failed"} /\ loc.call = "matrices"
  /\ IF loc.stage = "failed" THEN qp' = qp /\ Return(loc, "SETUP_AUXILIARYQP_FAILED")
     ELSE \E r \in ComputeProjectedCholesky(qp) :
            IF r.ret = "OK" \/ loc.try = 1 THEN NewAuxiliaryQP(r.q, loc)
            ELSE TryWorkingSet(r.q, [loc EXCEPT !.try = 1], Again(r.q, loc))
  /\ UNCHANGED use

-----------------------------------------------------------------------------
(* The object and its user.                                                *)

MakesACall ==
  \/ \E start \in use.starts, H \in use.matrices, g \in use.guesses \cup {NoCall.aux} :
       /\ start = "guess" \/ g = NoCall.aux
       /\ \E l \in Calls("init", start, g) : InitB(l, H) \/ Init_(l, H)
  \/ \E l \in Calls("hotstart", "cold", NoCall.aux) : HotstartB(l) \/ Hotstart(l)
  \/ \E g \in use.guesses : \E l \in Calls("hotstart", "guess", g) :
       \/ HotstartB(l)
       \/ \E alias \in {{}, Vars, Cons} :
            (\A i \in alias : g[i] = "INACTIVE") /\ Hotstart([l EXCEPT !.alias = alias])
  \/ \E H \in use.matrices : \E l \in Calls("matrices", "cold", NoCall.aux) : HotstartMatrices(l, H)
CallsWithUnreadableFiles ==
  LET l == [NoCall EXCEPT !.calls = loc.calls + 1]
  IN  \/ InitFromFileB([l EXCEPT !.call = "init"]) \/ InitFromFile([l EXCEPT !.call = "init"])
      \/ HotstartFromFileB([l EXCEPT !.call = "hotstart"]) \/ HotstartFromFile([l EXCEPT !.call = "hotstart"])

(* QPInverseProblemImpl::solveInverseProblem() repeats a failed QP with    *)
(* the same object, to which it has assigned a new one.                    *)
GetNewQProblem == FreshQP(EnsureConsistency(use.opt))
AssignNewQProblem ==
  /\ pc = "idle" /\ use.class = "QProblem" /\ loc.call # "none" /\ loc.ret # "OK" /\ loc.calls < MaxCalls
  /\ qp' = Copy(qp, GetNewQProblem) /\ loc' = [NoCall EXCEPT !.calls = loc.calls]
  /\ UNCHANGED <<use, pc>>

Call ==
  \/ SetHessianType("INDEF") \/ AssignNewQProblem
  \/ loc.calls < MaxCalls /\ (MakesACall \/ CallsWithUnreadableFiles)

Step ==
  \/ StepB
  \/ SolveInitialQP \/ AdaptWorkingSet \/ EnterInitialHotstart \/ FinishGuess \/ FinishMatrices
  \/ StartHotstart \/ SolveQP \/ UpdateActivities \/ Iterate \/ SolveRegularisedQP \/ FarBounds \/ End

vars == <<use, qp, pc, loc>>
Next == Call \/ Step
Spec == InitState /\ [][Next]_vars /\ WF_vars(Step)

-----------------------------------------------------------------------------
(* The lists of fixed variables and active constraints hold exactly the    *)
(* indices that getWorkingSet() reports, through every exchange, flip and  *)
(* failed removal.  With enableDropInfeasibles this is lost:               *)
(* dropInfeasibles() marks an index as given up even if its removal has    *)
(* failed.                                                                 *)
TypeOK ==
  /\ qp.opt \in OptionRecords /\ qp.qps \in QPStatuses /\ qp.held \subseteq Idx
  /\ qp.data \in [Idx -> AllKinds \cup {"unknown"}] /\ qp.st \in [Idx -> Statuses] /\ qp.type \in [Idx -> Types]
  /\ qp.hess \in HessianTypes /\ {qp.chol, qp.reg, qp.inf, qp.unb} \subseteq BOOLEAN
  /\ loc.iter \in 0 .. loc.max /\ loc.far \in 0 .. MaxFar /\ loc.step \in 0 .. qp.opt.steps
  /\ ~use.opt.drop => qp.held = {i \in Idx : GetWorkingSet(qp)[i] # 0}

(* addBound(), addConstraint(): the working set never has more rows than   *)
(* it can have linearly independent ones, so that the null space has a     *)
(* dimension (getNZ()), whatever a guess, a new equality or an exchange    *)
(* adds without a test of its own.  The full tests may take any answer     *)
(* when their step direction fails, and from four variables on a guess may *)
(* fix all of them at once and keep an active constraint (see FixAll).     *)
IndependentWorkingSet ==
  ~use.opt.drop /\ ~use.opt.fullLI /\ (NV < 4 \/ use.guesses = {}) => NZ(qp) >= 0

(* performRatioTest(), ensureLI(): an equality that is in the working set  *)
(* stays in it through all iterations of solveQP(), also when another      *)
(* index is added that depends on it.                                      *)
EqualitiesStayActive ==
  [][pc = "iterate" /\ ~use.opt.drop => \A i \in qp.held : qp.type[i] = "EQUALITY" => i \in qp'.held]_vars

(* init(), hotstart(): SUCCESSFUL_RETURN means that the QP asked for is    *)
(* solved, and neither infeasible nor unbounded, after any sequence of     *)
(* calls on the object: no flag of an earlier QP is left, and its solution *)
(* and value can be read.  (hotstart() itself also reports success on      *)
(* bounds that contradict each other.)                                     *)
SuccessMeansSolved ==
  pc = "idle" /\ loc.call # "none" /\ loc.ret = "OK" /\ (loc.call = "init" \/ loc.wrong = {})
    => /\ qp.qps = "SOLVED" /\ ~qp.inf /\ ~qp.unb
       /\ GetPrimalSolution(qp).filled = Vars /\ GetDualSolution(qp).ret = "OK" /\ ~GetObjVal(qp).infinite

(* RET_MAX_NWSR_REACHED: an object that ran out of iterations, or of time, *)
(* may be hotstarted again from where it stopped, if it was allowed any,   *)
(* and a caller that does not look at the return value (QPInverseProblem-  *)
(* Impl, LCPQPSolver) reads the solution of the last QP it came to.        *)
UsableAtTheLimit ==
  pc = "idle" /\ loc.ret = "MAX_NWSR_REACHED" /\ loc.max > 0
    => Startable(qp) /\ GetPrimalSolution(qp).filled = Vars

(* Every call returns: the loops over working set changes, regularisation  *)
(* steps, far bounds and guesses end.  The calls are sequential code, so   *)
(* that weak fairness of their steps is all that is assumed.               *)
CallReturns == pc # "idle" ~> pc = "idle"
=============================================================================
