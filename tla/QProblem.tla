------------------------------ MODULE QProblem ------------------------------
(***************************************************************************)
(* qpOASES::QProblem (extlibs/qpOASES-3.2.0/src/QProblem.cpp): the active  *)
(* set strategy with general constraints.  Beyond QProblemB, an index that *)
(* enters the working set must be linearly independent of it (or take the  *)
(* place of one that leaves), one that leaves must leave curvature behind, *)
(* and the working set is adapted index by index when a guess is set up    *)
(* and when a new QP is started.                                           *)
(***************************************************************************)
EXTENDS QProblemB

Constrained == use.class # "QProblemB"

(* reset().                                                                *)
Reset(q) == ResetB(q)

(* operator=, copy().                                                      *)
Copy(q, rhs) ==
  LET p == CopyB(q, rhs)
  IN  [p EXCEPT !.held = (@ \cap Vars) \cup (rhs.held \cap Cons), !.data = Merged(@, rhs.data),
                !.st = Merged(@, rhs.st), !.type = Merged(@, rhs.type)]

(* setupSubjectToType() for bounds and constraints.                        *)
SetupSubjectToType(q, kind) == WithTypes(q, kind, Idx)

(* computeProjectedCholesky(): of the Hessian projected to the null space. *)
ComputeProjectedCholesky(q) ==
  IF q.held = {} THEN ComputeCholesky(q)
  ELSE IF NZ(q) = 0 THEN {Out(q, "OK")}
  ELSE IF q.hess = "ZERO" /\ ~q.reg THEN {Out(q, "UNKNOWN_BUG")}
  ELSE {Out(q, "OK")} \cup IF q.hess \in {"ZERO", "IDENTITY"} THEN {}
                          ELSE {Out([q EXCEPT !.hess = "SEMIDEF"], "HESSIAN_NOT_SPD")}
SetupInitialCholesky(q) == IF q.chol THEN {Out(q, "OK")} ELSE WithCholesky(q, ComputeProjectedCholesky)

(* obtainAuxiliaryWorkingSet(): constraints start inactive.                *)
ObtainAuxiliary(q, l, i) ==
  IF i \in Vars \/ l.start # "cold" THEN ObtainAuxiliaryB(q, l, i)
  ELSE {IF q.type[i] = "EQUALITY" THEN "LOWER" ELSE "INACTIVE"}

(* backsolveT() fails on a zero on the diagonal of T.                      *)
BacksolveT(q) == {"OK"} \cup IF NAC(q) > 0 THEN {"DIV_BY_ZERO"} ELSE {}

(* determineStepDirection(): the primal step, then the dual one.           *)
RangeSpaceStep(q) == {IF b = "OK" THEN b ELSE "STEPDIRECTION_FAILED_TQ" : b \in BacksolveT(q)}
NullSpaceStep(q) ==
  IF NZ(q) <= 0 THEN {"OK"}
  ELSE IF q.hess = "ZERO" THEN {IF q.reg THEN "OK" ELSE "UNKNOWN_BUG"}
  ELSE IF q.hess = "IDENTITY" THEN {"OK"} ELSE {"OK", "STEPDIRECTION_FAILED_CHOLESKY"}
PrimalStep(q) == (RangeSpaceStep(q) \ {"OK"}) \cup NullSpaceStep(q)
DualStep(q) == {IF b = "OK" THEN b ELSE "STEPDIRECTION_FAILED_TQ" : b \in BacksolveT(q)}
StepDirection(q) ==
  (PrimalStep(q) \ {"OK"}) \cup IF "OK" \in PrimalStep(q) THEN DualStep(q) ELSE {}

(* addConstraint_checkLI(), addBound_checkLI().  The full tests compute a  *)
(* step direction, and use the steps also when that has failed and they    *)
(* were never set.                                                         *)
AnyAnswer(q) == q.opt.fullLI /\ StepDirection(q) # {"OK"}
AddConstraintCheckLI(q) == {"DEPENDENT"} \cup IF NZ(q) > 0 \/ AnyAnswer(q) THEN {"INDEPENDENT"} ELSE {}
AddBoundCheckLI(q) ==
  (IF NZ(q) > 0 \/ AnyAnswer(q) THEN {"INDEPENDENT"} ELSE {})
    \cup IF NAC(q) > 0 \/ AnyAnswer(q) THEN {"DEPENDENT"} ELSE {}

-----------------------------------------------------------------------------
(* Removing an index, once the curvature has been looked after.  If the    *)
(* projected Hessian is singular without it, it is flipped to its other    *)
(* side instead, or reported; an exchange makes up for it.                 *)

Curved(q, chol) == chol /\ q.hess \notin {"ZERO", "IDENTITY"}
Singular(q, i, flip, exchange, gone) ==
  IF exchange THEN {}
  ELSE IF q.opt.flip /\ flip THEN {Out([Flipped(q, i) EXCEPT !.hess = "SEMIDEF"], "OK")}
  ELSE IF flip THEN {Out([gone EXCEPT !.hess = "SEMIDEF"], "HESSIAN_NOT_SPD")} ELSE {}

TakeOutConstraint(q, i, chol, flip, exchange) ==
  {Out(Leave(q, i), "OK")}
    \cup IF ~Curved(q, chol) THEN {}
         ELSE Singular(q, i, flip, exchange, q)
                \cup IF NZ(q) > 0 THEN {Out(q, "REMOVECONSTRAINT_FAILED")} ELSE {}
TakeOutBound(q, i, chol, flip, exchange) ==
  {Out(Leave(q, i), "OK")}
    \cup IF ~Curved(q, chol) THEN {}
         ELSE Singular(q, i, flip, exchange, Leave(q, i))
                \cup IF NZ(q) > 0 THEN {Out(Leave(q, i), "REMOVEBOUND_FAILED")} ELSE {}
TakeOut(q, i, chol, flip, exchange) ==
  IF i \in Vars THEN TakeOutBound(q, i, chol, flip, exchange) ELSE TakeOutConstraint(q, i, chol, flip, exchange)

(* dropInfeasibles(): the index of the lowest priority among those that    *)
(* depend on each other is given up.  The type of a constraint is looked   *)
(* up at its position in the list of active ones, not at its index, and    *)
(* that the removal fails is ignored.                                      *)
GivenUp(st) == IF st = "LOWER" THEN "INFEASIBLE_LOWER" ELSE "INFEASIBLE_UPPER"
Candidates(I, priority, best) ==
  {best} \cup IF priority <= best.p THEN {[i |-> i, p |-> priority] : i \in I} ELSE {}
DropInfeasibles(q, i, s) ==
  LET own == [i |-> 0, p |-> IF i \in Vars THEN q.opt.dropBound ELSE q.opt.dropIneq]
      active(t) == IF \E k \in 1 .. NAC(q) : q.type[NV + k] = t THEN q.held \cap Cons ELSE {}
      eq == Candidates(active("EQUALITY"), q.opt.dropEq, own)
      ineq == UNION {Candidates(active("BOUNDED"), q.opt.dropIneq, c) : c \in eq}
      victims == {c.i : c \in UNION {Candidates(q.held \cap Vars, q.opt.dropBound, c) : c \in ineq}}
  IN  UNION {IF v = 0 THEN {Out([q EXCEPT !.st[i] = GivenUp(s)], "DROPPED")}
             ELSE {Out([r.q EXCEPT !.st[v] = GivenUp(q.st[v])], "OK") : r \in TakeOut(q, v, TRUE, FALSE, FALSE)}
              : v \in victims}

(* addConstraint_ensureLI(), addBound_ensureLI(): an index that depends on *)
(* the working set takes the place of one that a ratio test on the dual    *)
(* variables picks; if there is none, the QP is infeasible.                *)
PerformPlainRatioTest(q) == {k \in q.held : q.type[k] # "EQUALITY" /\ q.st[k] \in Held}
Resolve(q, i, s) ==
  {Out(q, "ENSURELI_FAILED") : b \in BacksolveT(q) \ {"OK"}}
    \cup {IF r.ret = "OK" THEN r ELSE Out(r.q, "ENSURELI_FAILED") : r \in
           UNION {TakeOut(q, j, TRUE, FALSE, FALSE) : j \in PerformPlainRatioTest(q)}}
    \cup IF q.opt.drop THEN DropInfeasibles(q, i, s) ELSE {SetInfeasibilityFlag(q, "NOINDEX")}
AddConstraintEnsureLI(q, i, s) ==
  UNION {IF c = "INDEPENDENT" THEN {Out(q, "OK")} ELSE Resolve(q, i, s) : c \in AddConstraintCheckLI(q)}
AddBoundEnsureLI(q, i, s) ==
  UNION {IF c = "INDEPENDENT" THEN {Out(q, "OK")} ELSE Resolve(q, i, s) : c \in AddBoundCheckLI(q)}

(* addConstraint(), addBound() after their checks of the arguments.        *)
Entered(outcomes, i, s, infeasible) ==
  {CASE r.ret = "OK" -> Out(Enter(r.q, i, s), "OK")
     [] r.ret = "NOINDEX" -> Out(r.q, infeasible)
     [] r.ret = "DROPPED" -> Out(r.q, "OK")
     [] OTHER -> r : r \in outcomes}
AddConstraint(q, i, s, ensureLI) ==
  IF q.st[i] # "INACTIVE" THEN {Out(q, "CONSTRAINT_ALREADY_ACTIVE")}
  ELSE IF NC - NAC(q) = Cardinality({k \in Cons : q.type[k] = "UNBOUNDED"})
  THEN {Out(q, "ALL_CONSTRAINTS_ACTIVE")}
  ELSE IF ~Busy(q) THEN {Out(q, "UNKNOWN_BUG")}
  ELSE Entered(IF ensureLI THEN AddConstraintEnsureLI(q, i, s) ELSE {Out(q, "OK")},
               i, s, "ADDCONSTRAINT_FAILED_INFEASIBILITY")
AddBound(q, i, s, ensureLI) ==
  IF q.st[i] # "INACTIVE" THEN {Out(q, "BOUND_ALREADY_ACTIVE")}
  ELSE IF NFR(q) = Cardinality({k \in Vars : q.type[k] = "UNBOUNDED"}) THEN {Out(q, "ALL_BOUNDS_ACTIVE")}
  ELSE IF ~Busy(q) THEN {Out(q, "UNKNOWN_BUG")}
  ELSE Entered(IF ensureLI THEN AddBoundEnsureLI(q, i, s) ELSE {Out(q, "OK")},
               i, s, "ADDBOUND_FAILED_INFEASIBILITY")
Add(q, i, s, ensureLI) ==
  IF i \in Vars THEN AddBound(q, i, s, ensureLI) ELSE AddConstraint(q, i, s, ensureLI)

(* ensureNonzeroCurvature(): without curvature the QP is unbounded, or an  *)
(* index in the way is exchanged for i, its own other side among them.     *)
NoExchange == [i |-> 0, s |-> "INACTIVE"]
Opposite(s) == IF s = "LOWER" THEN "UPPER" ELSE "LOWER"
InTheWay(q, i) ==
  {[i |-> i, s |-> Opposite(q.st[i])]}
    \cup {[i |-> k, s |-> s] : s \in Held, k \in {j \in Idx \ q.held : q.type[j] # "UNBOUNDED"}}
EnsureNonzeroCurvature(q, i) ==
  LET failed == StepDirection(q) \ {"OK"}
      flat == q.hess # "IDENTITY"
  IN  {[r |-> Out(q, d), x |-> NoExchange] : d \in failed}
        \cup (IF flat THEN {[r |-> Out([q EXCEPT !.unb = TRUE], "HOTSTART_STOPPED_UNBOUNDEDNESS"),
                             x |-> NoExchange]} ELSE {})
        \cup (IF "OK" \in StepDirection(q)
              THEN {[r |-> Out(q, "OK"), x |-> x] : x \in {NoExchange} \cup IF flat THEN InTheWay(q, i) ELSE {}}
              ELSE {})

(* removeConstraint(), removeBound().  The exchange is completed by adding *)
(* the other index, of which the return value is ignored; removeBound()    *)
(* does so only where it updates the Cholesky factor.                      *)
Ignoring(outcomes) == {Out(r.q, "OK") : r \in outcomes}
RemoveConstraint(q, i, chol, flip, nzc) ==
  IF ~Busy(q) THEN {Out(q, "UNKNOWN_BUG")}
  ELSE IF i \notin q.held THEN {Out(q, "CONSTRAINT_NOT_ACTIVE")}
  ELSE IF ~nzc THEN TakeOutConstraint(q, i, chol, flip, FALSE)
  ELSE UNION {LET add(p) == Ignoring(Add(p, e.x.i, e.x.s, FALSE))
              IN  IF e.r.ret # "OK" THEN {e.r}
                  ELSE IF e.x = NoExchange THEN TakeOutConstraint(e.r.q, i, chol, flip, FALSE)
                  ELSE Then(TakeOutConstraint(e.r.q, i, chol, flip, TRUE), add)
               : e \in EnsureNonzeroCurvature(q, i)}
RemoveBound(q, i, chol, flip, nzc) ==
  IF q.st[i] = "INACTIVE" THEN {Out(q, "BOUND_NOT_ACTIVE")}
  ELSE IF ~Busy(q) THEN {Out(q, "UNKNOWN_BUG")}
  ELSE IF ~nzc THEN TakeOutBound(q, i, chol, flip, FALSE)
  ELSE UNION {LET add(p) == IF Curved(p, chol) THEN Ignoring(Add(p, e.x.i, e.x.s, FALSE)) ELSE {Out(p, "OK")}
              IN  IF e.r.ret # "OK" THEN {e.r}
                  ELSE IF e.x = NoExchange THEN TakeOutBound(e.r.q, i, chol, flip, FALSE)
                  ELSE Then(TakeOutBound(e.r.q, i, chol, flip, TRUE), add)
               : e \in EnsureNonzeroCurvature(q, i)}
Remove(q, i, chol, flip, nzc) ==
  IF i \in Vars THEN RemoveBound(q, i, chol, flip, nzc) ELSE RemoveConstraint(q, i, chol, flip, nzc)

(* changeActiveSet().                                                      *)
ChangeActiveSet(q, b) ==
  IF b.s = "INACTIVE"
  THEN {IF r.ret = "OK" THEN r ELSE Out(r.q, "REMOVE_FROM_ACTIVESET_FAILED")
         : r \in Remove(q, b.i, TRUE, TRUE, q.opt.nzc)}
  ELSE {IF r.ret \in {"OK", "ADDBOUND_FAILED_INFEASIBILITY", "ADDCONSTRAINT_FAILED_INFEASIBILITY"} THEN r
        ELSE Out(r.q, "ADD_TO_ACTIVESET_FAILED") : r \in Add(q, b.i, b.s, TRUE)}

-----------------------------------------------------------------------------
(* init(), up to solveInitialQP().                                         *)
SetupQPdata(q, l) == SetupQPdataB(q, l)
Init_(l, H) ==
  /\ pc = "idle" /\ Constrained
  /\ LET q == IF qp.qps = "NOTINITIALISED" THEN qp ELSE Reset(qp)
     IN  IF l.start = "y+guess" THEN qp' = q /\ Return(l, "INVALID_ARGUMENTS")
         ELSE \E r \in DetermineHessianType([SetupQPdata(q, l) EXCEPT !.qps = "NOTINITIALISED"], H) :
                IF r.ret = "OK" THEN Goto("initial", r.q, l) ELSE qp' = r.q /\ Return(l, "INIT_FAILED")
  /\ UNCHANGED use

(* init() from files of which one cannot be read.                          *)
SetupQPdataFromFile(q) == [q EXCEPT !.data = [i \in Idx |-> "unknown"]]
InitFromFile(l) ==
  /\ pc = "idle" /\ Constrained
  /\ qp' = SetupQPdataFromFile(IF qp.qps = "NOTINITIALISED" THEN qp ELSE Reset(qp))
  /\ Return(l, "UNABLE_TO_READ_FILE")
  /\ UNCHANGED use

(* bounds.setupAllFree(), constraints.setupAllInactive().                  *)
AllInactive(q) == [q EXCEPT !.held = {}, !.st = [i \in Idx |-> "INACTIVE"]]

(* The guess for an index; a list that is not given is the object's own.   *)
Aux(q, l, i) == IF i \in l.alias THEN q.st[i] ELSE l.aux[i]

(* setupAuxiliaryWorkingSet() until its loops.  A guess of all bounds and  *)
(* no constraint is set up at once.                                        *)
TrivialWorkingSet(q, l) ==
  /\ \A i \in Vars : Aux(q, l, i) # "INACTIVE"
  /\ \A i \in Cons : q.type[i] # "EQUALITY" /\ Aux(q, l, i) = "INACTIVE"
FixAllByStatus(q, l) == [q EXCEPT !.st = [i \in Idx |-> IF i \in Vars THEN Aux(q, l, i) ELSE q.st[i]]]
FixAll(q, l) ==
  LET I == {i \in Vars : q.st[i] = "INACTIVE"}
  IN  [q EXCEPT !.held = @ \cup I, !.st = [i \in Idx |-> IF i \in I THEN Aux(q, l, i) ELSE q.st[i]]]
SetupAuxiliaryWorkingSet(q, l, fresh) ==
  IF \E i \in Idx : "UNDEFINED" \in {q.st[i], Aux(q, l, i)}
  THEN Goto("workingset", q, [l EXCEPT !.stage = "failed", !.afresh = fresh])
  ELSE IF TrivialWorkingSet(q, l)
  THEN Goto("workingset", FixAll(q, l), [l EXCEPT !.stage = "done", !.afresh = fresh, !.fullLI = q.opt.fullLI])
  ELSE Goto("workingset", [q EXCEPT !.opt.fullLI = FALSE],
            [l EXCEPT !.stage = IF fresh THEN "equalB" ELSE "removeC", !.i = 1, !.afresh = fresh,
                      !.fullLI = q.opt.fullLI])

(* solveInitialQP() from there up to setupAuxiliaryWorkingSet().           *)
SolveInitialQP ==
  /\ pc = "initial" /\ Constrained
  /\ \E q \in {AllInactive([u EXCEPT !.qps = "PREPARINGAUXILIARYQP"]) : u \in SetupSubjectToType(qp, loc.kind)} :
     \E aux \in [Idx -> Statuses] :
       /\ \A i \in Idx : aux[i] \in ObtainAuxiliary(q, loc, i)
       /\ \E r \in IF q.hess \in {"ZERO", "SEMIDEF"} THEN RegulariseHessian(q) ELSE {Out(q, "OK")} :
            IF r.ret # "OK" THEN qp' = r.q /\ Return(loc, "INIT_FAILED_REGULARISATION")
            ELSE SetupAuxiliaryWorkingSet(r.q, [loc EXCEPT !.aux = aux], TRUE)
  /\ UNCHANGED use

(* The loops of setupAuxiliaryWorkingSet(): which indices one still has to *)
(* do something about, and what.                                           *)
NextStage(stage) ==
  CASE stage = "removeC" -> "removeB" [] stage = "removeB" -> "equalB" [] stage = "equalB" -> "equalC"
    [] stage = "equalC" -> "addB" [] stage = "addB" -> "addC" [] OTHER -> "done"
Work(q, l) ==
  LET wrong(i) == q.st[i] \in Held /\ Aux(q, l, i) # q.st[i]
      equality(i) == q.type[i] = "EQUALITY" /\ q.st[i] = "INACTIVE"
      guessed(i) == q.type[i] # "EQUALITY" /\ q.st[i] = "INACTIVE" /\ Aux(q, l, i) # "INACTIVE"
  IN  {i \in Idx : CASE l.stage = "removeC" -> i >= NV + l.i /\ wrong(i)
                     [] l.stage = "removeB" -> i \in l.i .. NV /\ wrong(i)
                     [] l.stage = "equalB" -> i \in l.i .. NV /\ equality(i)
                     [] l.stage = "equalC" -> i >= NV + l.i /\ equality(i)
                     [] l.stage = "addB" -> i \in l.i .. NV /\ guessed(i)
                     [] l.stage = "addC" -> i >= NV + l.i /\ guessed(i)
                     [] OTHER -> FALSE}

(* An index held at the wrong side is removed; if an exchange brings it    *)
(* back at its upper side, it is removed again.                            *)
Unhold(q, l, i) ==
  LET drop(p, s) == IF p.st[i] = s /\ Aux(p, l, i) # s THEN Remove(p, i, ~l.afresh, FALSE, p.opt.nzc)
                    ELSE {Out(p, "OK")}
      dropUpper(p) == drop(p, "UPPER")
  IN  Then(drop(q, "LOWER"), dropUpper)

(* Fixed variables are added without a test of linear independence.  An    *)
(* equality constraint that fails it is no equality any more.              *)
HoldEquality(q, l, i) ==
  IF i \in Vars THEN AddBound(q, i, "LOWER", ~l.afresh)
  ELSE UNION {IF c = "INDEPENDENT" THEN AddConstraint(q, i, "LOWER", FALSE)
              ELSE {Out([q EXCEPT !.type[i] = "BOUNDED"], "OK")} : c \in AddConstraintCheckLI(q)}
HoldGuessUntested(q, l, i) == Add(q, i, Aux(q, l, i), FALSE)
HoldGuess(q, l, i) ==
  UNION {IF c = "INDEPENDENT" THEN Add(q, i, Aux(q, l, i), FALSE) ELSE {Out(q, "OK")}
          : c \in IF i \in Vars THEN AddBoundCheckLI(q) ELSE AddConstraintCheckLI(q)}
Treat(q, l, i) ==
  CASE l.stage \in {"removeC", "removeB"} -> Unhold(q, l, i)
    [] l.stage \in {"equalB", "equalC"} -> HoldEquality(q, l, i)
    [] OTHER -> HoldGuess(q, l, i)
Position(i) == IF i \in Vars THEN i ELSE i - NV
AdaptWorkingSet ==
  /\ pc = "workingset" /\ Constrained /\ loc.stage \notin {"done", "failed"}
  /\ LET W == Work(qp, loc)
         i == CHOOSE k \in W : \A j \in W : k <= j
     IN  IF W = {}
         THEN IF loc.stage = "addC"
              THEN Goto(pc, [qp EXCEPT !.opt.fullLI = loc.fullLI], [loc EXCEPT !.stage = "done"])
              ELSE Goto(pc, qp, [loc EXCEPT !.stage = NextStage(@), !.i = 1])
         ELSE \E r \in Treat(qp, loc, i) :
                IF r.ret = "OK" THEN Goto(pc, r.q, [loc EXCEPT !.i = Position(i) + 1])
                ELSE Goto(pc, r.q, [loc EXCEPT !.stage = "failed"])
  /\ UNCHANGED use

(* What follows setupAuxiliaryWorkingSet() in solveInitialQP() ...         *)
SetupAuxiliaryQPbounds(q, relax) == SetupAuxiliaryQPboundsB(q, relax)
EnterInitialHotstart ==
  /\ pc = "workingset" /\ Constrained /\ loc.stage \in {"done", "failed"} /\ loc.call = "init"
  /\ IF loc.stage = "failed" THEN qp' = qp /\ Return(loc, "INIT_FAILED")
     ELSE Goto("hotstart", [SetupAuxiliaryQPbounds(qp, TRUE) EXCEPT !.chol = FALSE, !.qps = "AUXILIARYQPSOLVED"],
               loc)
  /\ UNCHANGED use

(* ... and in setupAuxiliaryQP(), where that it failed is ignored.         *)
FinishGuess ==
  /\ pc = "workingset" /\ Constrained /\ loc.stage \in {"done", "failed"} /\ loc.call = "hotstart"
  /\ \E r \in IF loc.afresh THEN ComputeProjectedCholesky(qp) ELSE {Out(qp, "OK")} :
       IF r.ret = "OK"
       THEN Goto("hotstart", [SetupAuxiliaryQPbounds(r.q, FALSE) EXCEPT !.qps = "AUXILIARYQPSOLVED"], loc)
       ELSE qp' = r.q /\ Return(loc, "SETUP_AUXILIARYQP_FAILED")
  /\ UNCHANGED use

(* hotstart() of an object that has been initialised, and                  *)
(* setupAuxiliaryQP() up to setupAuxiliaryWorkingSet().                    *)
Guess(q, l) == [i \in Idx |-> Aux(q, l, i)]
ShallRefactorise(q, aux) == GuessIsFar(q, aux, Idx)
Hotstart(l) ==
  /\ pc = "idle" /\ Constrained /\ qp.qps # "NOTINITIALISED"
  /\ IF l.start = "cold" THEN Goto("hotstart", qp, l)
     ELSE LET p == [qp EXCEPT !.qps = "PREPARINGAUXILIARYQP"]
          IN  IF ShallRefactorise(qp, Guess(qp, l))
              THEN \E u \in SetupSubjectToType(p, qp.data) : SetupAuxiliaryWorkingSet(AllInactive(u), l, TRUE)
              ELSE SetupAuxiliaryWorkingSet(p, l, FALSE)
  /\ UNCHANGED use

(* hotstart() from files of which one cannot be read touches nothing.      *)
HotstartFromFile(l) ==
  /\ pc = "idle" /\ Constrained /\ qp.qps # "NOTINITIALISED"
  /\ Return(l, "UNABLE_TO_READ_FILE")
  /\ UNCHANGED <<use, qp>>

-----------------------------------------------------------------------------
(* hotstart().                                                             *)
AreBoundsConsistent(l) == AreBoundsConsistentB(l) /\ l.wrong \cap Cons = {}
StartHotstart ==
  /\ pc = "hotstart" /\ Constrained
  /\ EnterHotstart(AreBoundsConsistent(loc), SetupInitialCholesky)
  /\ UNCHANGED use

(* solveQP() up to updateActivitiesForHotstart(), which determines anew    *)
(* the types of the bounds, and of these only.                             *)
SolveQP ==
  /\ pc = "solve" /\ Constrained
  /\ IF ~Startable(qp) THEN SolveReturns(qp, "HOTSTART_FAILED_AS_QP_NOT_INITIALISED")
     ELSE \E q \in SetupSubjectToTypeB([qp EXCEPT !.qps = "PERFORMINGHOMOTOPY"], Asked(qp, loc)) :
            Goto("activities", q, [loc EXCEPT !.stage = "infinite", !.i = 1])
  /\ UNCHANGED use

(* updateActivitiesForHotstart(): a bound that is held at a side it has    *)
(* not got any more leaves, a new equality enters if it is independent.    *)
(* A "range" may lack one of its sides; if an exchange brings a bound back *)
(* at its upper side, that one is looked at as well.                       *)
Withdrawn(q, kind, i) ==
  LET drop(p, s) ==
        IF p.st[i] # s \/ kind = "equal" \/ (kind = "range" /\ p.opt.far) THEN {Out(p, "OK")}
        ELSE Remove(p, i, TRUE, FALSE, p.opt.nzc) \cup IF kind = "range" THEN {Out(p, "OK")} ELSE {}
      dropUpper(p) == drop(p, "UPPER")
  IN  Then(drop(q, "LOWER"), dropUpper)
NewEquality(q, i) ==
  IF q.type[i] # "EQUALITY" \/ q.st[i] # "INACTIVE" THEN {Out(q, "OK")}
  ELSE UNION {IF c = "INDEPENDENT" THEN AddBound(q, i, "LOWER", FALSE) ELSE {Out(q, "OK")}
               : c \in AddBoundCheckLI(q)}
UpdateActivities ==
  /\ pc = "activities" /\ Constrained
  /\ IF loc.i > NV
     THEN IF loc.stage = "infinite" THEN Goto(pc, qp, [loc EXCEPT !.stage = "fixed", !.i = 1])
          ELSE Goto("iterate", [qp EXCEPT !.inf = FALSE, !.unb = FALSE], [loc EXCEPT !.first = loc.iter])
     ELSE \E r \in IF loc.stage = "infinite" THEN Withdrawn(qp, Asked(qp, loc)[loc.i], loc.i)
                   ELSE NewEquality(qp, loc.i) :
            IF r.ret = "OK" THEN Goto(pc, r.q, [loc EXCEPT !.i = @ + 1]) ELSE SolveReturns(r.q, r.ret)
  /\ UNCHANGED use

(* performStep(): the ratio tests for what is held, and for what is not,   *)
(* and the step.                                                           *)
DualBlocks(q) == {b \in Blocks(q, Idx) : b.i \in q.held}
PrimalBlocks(q) == {b \in Blocks(q, Idx) : b.i \notin q.held}
PerformStep(q) == Stepped(q)

(* One iteration of solveQP().  If nothing blocks the step, the loop goes  *)
(* on.                                                                     *)
Refactorised(r) == IF Refactorises(qp) THEN ComputeProjectedCholesky(r.q) ELSE {r}
ChangeWorkingSet(q) ==
  \E b \in DualBlocks(q) \cup PrimalBlocks(q) : \E r \in ChangeActiveSet(q, b) :
    IF r.ret # "OK" THEN StepFailed(r.q, r.ret) ELSE \E f \in Refactorised(r) : NextIteration(f, TRUE)
Iterate ==
  /\ CanIterate /\ Constrained
  /\ \/ \E d \in StepDirection(qp) \ {"OK"} : SolveReturns(Performing, d)
     \/ /\ "OK" \in StepDirection(qp)
        /\ \/ SolveReturns(Arrived(Performing, loc), "OK")
           \/ \E f \in Refactorised(Out(PerformStep(Performing), "OK")) : NextIteration(f, FALSE)
           \/ ChangeWorkingSet(PerformStep(Performing))
  /\ UNCHANGED use

SolveRegularisedQP ==
  /\ pc = "solved" /\ Constrained
  /\ AfterSolveQP
  /\ UNCHANGED use

FarBounds ==
  /\ pc = "far" /\ Constrained
  /\ AfterFarBounds
  /\ UNCHANGED use

End ==
  /\ pc = "end" /\ Constrained
  /\ Return(loc, IF loc.call = "init" THEN InitReturns(qp, loc.ret) ELSE loc.ret)
  /\ UNCHANGED <<use, qp>>

(* What a user may read.                                                   *)
GetDualSolution(q) == [GetDualSolutionB(q) EXCEPT !.filled = Idx]
GetWorkingSet(q) == [i \in Idx |-> IF i \in Vars THEN GetWorkingSetB(q)[i] ELSE Sides(q.st[i])]
=============================================================================
