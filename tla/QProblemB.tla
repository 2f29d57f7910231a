----------------------------- MODULE QProblemB ------------------------------
(***************************************************************************)
(* qpOASES::QProblemB (extlibs/qpOASES-3.2.0/src/QProblemB.cpp): the       *)
(* online active set strategy for a QP with bounds on its variables, and   *)
(* the base of QProblem, which the plugin solves its inverse problem with. *)
(*                                                                         *)
(* An object is initialised with a QP (init) and may then be asked for the *)
(* solution of the next one (hotstart).  Both follow a homotopy from a QP  *)
(* that is solved to the one that is asked for, and change the working set *)
(* one index at a time on the way.                                         *)
(*                                                                         *)
(* Indices are laid out as in the dual solution y: variables, then         *)
(* constraints.  Numbers are left out: a factorisation fails or not, a     *)
(* step is blocked by some index or by none, as far as the code lets it.   *)
(***************************************************************************)
EXTENDS Integers, FiniteSets, Options

CONSTANTS
  NV,       \* the number of variables
  NC,       \* the number of constraints
  Uses,     \* bound: what objects of which class are used for
  MaxCalls, \* bound: the calls made to an object
  MaxWSR,   \* bound: the largest nWSR of a call
  MaxFar    \* bound: how often the far bounds grow until they are infinite

Vars == 1 .. NV
Cons == NV + 1 .. NV + NC
Idx == Vars \cup Cons

AllKinds == {"infinite", "range", "equal"}
AllMatrices == {"null", "zero", "identity", "general", "negative"}
AllStarts == {"cold", "x", "y", "xy", "guess", "y+guess"}
Held == {"LOWER", "UPPER"}
Statuses == Held \cup {"INACTIVE", "INFEASIBLE_LOWER", "INFEASIBLE_UPPER", "UNDEFINED"}
Types == {"UNBOUNDED", "BOUNDED", "EQUALITY", "UNKNOWN"}
HessianTypes == {"ZERO", "IDENTITY", "POSDEF", "SEMIDEF", "INDEF", "UNKNOWN"}
QPStatuses == {"NOTINITIALISED", "PREPARINGAUXILIARYQP", "AUXILIARYQPSOLVED",
               "PERFORMINGHOMOTOPY", "HOMOTOPYQPSOLVED", "SOLVED"}

(* How an object is used: its class and options; what init() is given      *)
(* besides the QP; the Hessian matrices; what the indices are bounded by;  *)
(* the working sets that are guessed.                                      *)
UseRecords ==
  [class : {"QProblemB", "QProblem", "SQProblem"}, opt : OptionRecords, starts : SUBSET AllStarts,
   matrices : SUBSET AllMatrices, bounds : SUBSET [Idx -> AllKinds],
   guesses : SUBSET [Idx -> Held \cup {"INACTIVE"}]]

ASSUME QProblemBAssumption ==
  /\ NV \in Nat \ {0} /\ NC \in Nat /\ MaxCalls \in Nat /\ MaxWSR \in Nat /\ MaxFar \in Nat \ {0}
  /\ Uses \subseteq UseRecords

VARIABLES
  use,   \* how the object is used
  qp,    \* the object
  pc,    \* where the current call is
  loc    \* its arguments and local variables

(* qp.held: the indices in the lists of fixed variables and of active      *)
(* constraints.  qp.data: the bounds in the object, "unknown" on the way   *)
(* to the ones asked for.  qp.chol, qp.reg: haveCholesky and               *)
(* usingRegularisation().                                                  *)
FreshQP(o) ==
  [opt |-> o, qps |-> "NOTINITIALISED", held |-> {}, data |-> [i \in Idx |-> "infinite"],
   st |-> [i \in Idx |-> "UNDEFINED"], type |-> [i \in Idx |-> "UNKNOWN"],
   hess |-> "UNKNOWN", chol |-> FALSE, reg |-> FALSE, inf |-> FALSE, unb |-> FALSE]

(* loc.iter, loc.max, loc.first: iterations counted in this call, nWSR,    *)
(* and where the current solveQP() began.  loc.far, loc.step: far bounds   *)
(* and regularisation steps so far.  loc.stage, loc.i: a loop over indices *)
(* and where it is; loc.wrong: the indices with a lower bound above the    *)
(* upper one; loc.alias: the indices whose guess is the object's own list; *)
(* loc.fullLI: enableFullLITests as it was when the loop began.            *)
(* loc.try, loc.was: see SQProblem.                                        *)
NoCall ==
  [call |-> "none", calls |-> 0, start |-> "cold", kind |-> [i \in Idx |-> "range"], wrong |-> {},
   aux |-> [i \in Idx |-> "INACTIVE"], alias |-> {}, stage |-> "none", afresh |-> TRUE, i |-> 1,
   fullLI |-> FALSE, try |-> 0, was |-> {}, iter |-> 0, max |-> 0, first |-> 0, far |-> 0, step |-> 0,
   ret |-> "OK"]

-----------------------------------------------------------------------------
(* What a function may return: an object and a return value.               *)

Out(q, ret) == [q |-> q, ret |-> ret]
Then(outcomes, F(_)) == UNION {IF r.ret = "OK" THEN F(r.q) ELSE {r} : r \in outcomes}

(* At the solution of some QP.                                             *)
Startable(q) == q.qps \in {"AUXILIARYQPSOLVED", "HOMOTOPYQPSOLVED", "SOLVED"}

NFR(q) == Cardinality({i \in Vars \ q.held : q.st[i] # "UNDEFINED"})
NAC(q) == Cardinality(q.held \cap Cons)
NZ(q) == NFR(q) - NAC(q)

Enter(q, i, s) == [q EXCEPT !.held = @ \cup {i}, !.st[i] = s]
Leave(q, i) == [q EXCEPT !.held = @ \ {i}, !.st[i] = "INACTIVE"]

(* The working set may change in these phases only.                        *)
Busy(q) == q.qps \in {"PREPARINGAUXILIARYQP", "PERFORMINGHOMOTOPY"}

(* reset().  Options survive, also those that the object has changed.      *)
ResetB(q) == FreshQP(q.opt)

(* operator=, copy(): what a QProblemB has of rhs; the constraints are not *)
(* among it.                                                               *)
Merged(ofVars, ofCons) == [i \in Idx |-> IF i \in Vars THEN ofVars[i] ELSE ofCons[i]]
CopyB(q, rhs) ==
  [rhs EXCEPT !.held = (@ \cap Vars) \cup (q.held \cap Cons), !.data = Merged(@, q.data),
              !.st = Merged(@, q.st), !.type = Merged(@, q.type)]

(* determineHessianType().  The type of the last QP, or one set by the     *)
(* user, is kept; a zero Hessian turns regularisation on.                  *)
Regularising(q) == IF q.opt.reg THEN q ELSE [q EXCEPT !.opt = [@ EXCEPT !.reg = TRUE, !.steps = 1]]
DetermineHessianType(q, H) ==
  IF q.hess = "ZERO" THEN {Out(Regularising(q), "OK")}
  ELSE IF q.hess = "IDENTITY" \/ (q.hess \in {"POSDEF", "SEMIDEF", "INDEF"} /\ H # "null")
  THEN {Out(q, "OK")}
  ELSE IF H \in {"null", "zero"} THEN {Out(Regularising([q EXCEPT !.hess = "ZERO"]), "OK")}
  ELSE IF H = "identity" THEN {Out([q EXCEPT !.hess = "IDENTITY"], "OK")}
  ELSE IF H = "general" THEN {Out([q EXCEPT !.hess = "POSDEF"], "OK")}
  ELSE {Out([q EXCEPT !.hess = "INDEF"], IF q.opt.flip THEN "OK" ELSE "HESSIAN_INDEFINITE")}

(* setupSubjectToType() for the bounds or constraints I: an equality must  *)
(* be one in the object and in the data.                                   *)
TypesOf(q, kind, i) ==
  IF kind[i] = "infinite" /\ ~q.opt.far THEN {"UNBOUNDED"}
  ELSE IF ~q.opt.eq \/ kind[i] # "equal" \/ q.data[i] \in {"range", "infinite"} THEN {"BOUNDED"}
  ELSE IF q.data[i] = "equal" THEN {"EQUALITY"} ELSE {"EQUALITY", "BOUNDED"}
WithTypes(q, kind, I) ==
  {[q EXCEPT !.type = t] :
    t \in {u \in [Idx -> Types] : \A i \in Idx : IF i \in I THEN u[i] \in TypesOf(q, kind, i) ELSE u[i] = q.type[i]}}
SetupSubjectToTypeB(q, kind) == WithTypes(q, kind, Vars)

(* regulariseHessian(): a norm may be zero, a sparse matrix may lack its   *)
(* diagonal.                                                               *)
RegulariseHessian(q) ==
  IF ~q.opt.reg \/ (q.hess # "IDENTITY" /\ q.reg) THEN {Out(q, "OK")}
  ELSE IF q.hess = "IDENTITY" THEN {Out(q, "CANNOT_REGULARISE_IDENTITY")}
  ELSE {Out([q EXCEPT !.reg = TRUE], "OK"),
        Out(q, IF q.hess = "ZERO" THEN "OK" ELSE "CANNOT_REGULARISE_SPARSE")}

(* computeCholesky().                                                      *)
ComputeCholesky(q) ==
  IF q.hess = "ZERO" THEN {Out(q, IF q.reg THEN "OK" ELSE "CHOLESKY_OF_ZERO_HESSIAN")}
  ELSE {Out(q, "OK")}
    \cup IF q.hess = "IDENTITY" \/ NFR(q) = 0 THEN {}
         ELSE {Out([q EXCEPT !.hess = "SEMIDEF"], "HESSIAN_NOT_SPD")}

(* setupInitialCholesky(), with the factorisation of the class: once more, *)
(* regularised, if the Hessian is not positive definite.                   *)
Regularised(q) ==
  {IF r.ret = "OK" THEN r ELSE Out(r.q, "INIT_FAILED_REGULARISATION") : r \in RegulariseHessian(q)}
WithCholesky(q, Cholesky(_)) ==
  LET nfv == Cardinality({i \in Vars : q.type[i] = "EQUALITY"})
      begin == IF NV # NFR(q) - nfv /\ q.opt.reg THEN Regularised(q) ELSE {Out(q, "OK")}
      again(p) == UNION {IF r.ret = "HESSIAN_NOT_SPD" THEN Then(Regularised(r.q), Cholesky) ELSE {r}
                          : r \in Cholesky(p)}
  IN  {IF r.ret = "OK" THEN Out([r.q EXCEPT !.chol = TRUE], "OK")
       ELSE IF r.ret = "INIT_FAILED_REGULARISATION" THEN r
       ELSE Out(r.q, "INIT_FAILED_CHOLESKY") : r \in Then(begin, again)}
SetupInitialCholeskyB(q) == IF q.chol THEN {Out(q, "OK")} ELSE WithCholesky(q, ComputeCholesky)

(* obtainAuxiliaryWorkingSet(): statuses to start with.  A primal solution *)
(* is clipped, a dual one gives its signs; with both, nothing is set up.   *)
ObtainAuxiliaryB(q, l, i) ==
  LET some(S) == IF q.type[i] = "EQUALITY" THEN S \ {"INACTIVE"} ELSE S
      equality(s) == IF q.type[i] = "EQUALITY" THEN {"LOWER"} ELSE {s}
  IN  CASE l.start = "guess" -> equality(l.aux[i])
        [] l.start = "x" -> some({"INACTIVE"} \cup IF l.kind[i] = "infinite" THEN {} ELSE Held)
        [] l.start = "y" -> some({"INACTIVE"} \cup Held)
        [] l.start = "cold" ->
             IF q.type[i] = "UNBOUNDED" THEN {"INACTIVE"} ELSE equality(q.opt.initial)
        [] OTHER -> {"UNDEFINED"}

(* backsolveR() fails on a zero on the diagonal.                           *)
BacksolveR(q) == {"OK", "BACKSOLVE_FAILED"}

(* addBound(), removeBound().  A bound whose removal leaves no curvature   *)
(* is flipped to its other side, or ends the homotopy.                     *)
AddBoundB(q, i, s) ==
  IF Busy(q) THEN {Out(Enter(q, i, s), "OK")} ELSE {Out(q, "UNKNOWN_BUG")}

Flipped(q, i) == [q EXCEPT !.st[i] = IF @ = "LOWER" THEN "UPPER" ELSE "LOWER"]
RemoveBoundB(q, i) ==
  IF ~Busy(q) THEN {Out(q, "UNKNOWN_BUG")}
  ELSE IF q.qps = "PREPARINGAUXILIARYQP" THEN {Out(Leave(q, i), "OK")}
  ELSE IF q.hess = "ZERO" /\ q.opt.flip THEN {Out(Flipped(q, i), "OK")}
  ELSE IF q.hess \in {"ZERO", "IDENTITY"} THEN {Out(Leave(q, i), "OK")}
  ELSE {Out(Leave(q, i), IF b = "OK" THEN b ELSE "REMOVEBOUND_FAILED") : b \in BacksolveR(q)}
         \cup IF q.opt.flip THEN {Out([Flipped(q, i) EXCEPT !.hess = "SEMIDEF"], "OK")}
              ELSE {Out([Leave(q, i) EXCEPT !.hess = "SEMIDEF"], "HESSIAN_NOT_SPD")}

(* setupAuxiliaryWorkingSet(): the lists after its loops over the bounds,  *)
(* afresh or from the ones there are.                                      *)
SetupAuxiliaryWorkingSetB(q, aux, afresh) ==
  IF \E i \in Vars : "UNDEFINED" \in {q.st[i], aux[i]} THEN Out(q, "UNKNOWN_BUG")
  ELSE LET kept == {i \in q.held : afresh \/ aux[i] = q.st[i]}
           added == {i \in Vars \ kept : aux[i] # "INACTIVE" /\ (i \in q.held \/ q.st[i] = "INACTIVE")}
       IN  Out([q EXCEPT !.held = kept \cup added,
                         !.st = [i \in Idx |-> IF i \in added THEN aux[i]
                                               ELSE IF i \in q.held \ kept THEN "INACTIVE" ELSE q.st[i]]],
               "OK")

(* bounds.init(), setupAllFree().                                          *)
AllFree(q) ==
  [q EXCEPT !.held = @ \ Vars, !.st = [i \in Idx |-> IF i \in Vars THEN "INACTIVE" ELSE q.st[i]]]

(* setupAuxiliaryQPsolution(), setupAuxiliaryQPgradient() and              *)
(* setupAuxiliaryQPbounds(): x, y, g and the bounds of a QP that the       *)
(* working set solves.  init() relaxes what is not an equality; otherwise  *)
(* one side of a held index moves to x.                                    *)
SetupAuxiliaryQPboundsB(q, relax) ==
  [q EXCEPT !.data = [i \in Idx |-> IF q.type[i] = "EQUALITY" THEN "equal"
                                   ELSE IF relax THEN "range" ELSE "unknown"]]

(* shallRefactorise(): an indefinite Hessian, or a guess that differs in   *)
(* more than half of what it fixes.                                        *)
GuessIsFar(q, aux, I) ==
  \/ q.hess \in {"SEMIDEF", "INDEF"}
  \/ 2 * Cardinality({i \in I : aux[i] # q.st[i]}) > Cardinality({i \in I : aux[i] \in Held})
ShallRefactoriseB(q, aux) == GuessIsFar(q, aux, Vars)

(* setupAuxiliaryQP(): the guess becomes the working set; that it does not *)
(* is reported and ignored.                                                *)
SetupAuxiliaryQPB(q, aux) ==
  LET p == [q EXCEPT !.qps = "PREPARINGAUXILIARYQP"]
      fresh == {SetupAuxiliaryWorkingSetB(AllFree(u), aux, TRUE).q : u \in SetupSubjectToTypeB(p, q.data)}
  IN  IF ShallRefactoriseB(q, aux)
      THEN {IF r.ret = "OK" THEN Out(SetupAuxiliaryQPboundsB(r.q, FALSE), "OK")
            ELSE Out(r.q, "SETUP_AUXILIARYQP_FAILED") : r \in UNION {ComputeCholesky(u) : u \in fresh}}
      ELSE {Out(SetupAuxiliaryQPboundsB(SetupAuxiliaryWorkingSetB(p, aux, FALSE).q, FALSE), "OK")}

-----------------------------------------------------------------------------
(* Calls.                                                                  *)

(* Of a call that is over, what it was and what came of it is kept.        *)
Return(l, ret) ==
  /\ pc' = "idle"
  /\ loc' = [NoCall EXCEPT !.call = l.call, !.calls = l.calls, !.wrong = l.wrong, !.max = l.max, !.far = l.far,
                           !.ret = ret]
Goto(where, q, l) == pc' = where /\ qp' = q /\ loc' = l

(* The arguments of a call: bounds, where they contradict each other (at   *)
(* one index, or nowhere; nWSR is not read then), nWSR; a limit on the     *)
(* time may be given as well.                                              *)
Arguments == [kind : use.bounds, max : {0, MaxWSR}, wrong : {{}, {1}, {NV + NC}}]
Called(call, start, aux, c) ==
  [NoCall EXCEPT !.call = call, !.calls = loc.calls + 1, !.start = start, !.kind = c.kind, !.max = c.max,
                 !.wrong = c.wrong, !.aux = aux]
Calls(call, start, aux) ==
  {Called(call, start, aux, c) : c \in {d \in Arguments : d.wrong = {} \/ d.max = 0}}

(* updateFarBounds(): the solver is given far bounds for infinite ones.    *)
FarBound(q, kind) == IF q.opt.far /\ kind = "infinite" THEN "range" ELSE kind
Asked(q, l) == [i \in Idx |-> FarBound(q, l.kind[i])]

(* The constructor, and setOptions().                                      *)
InitState ==
  /\ use \in Uses /\ pc = "idle" /\ loc = NoCall
  /\ qp = FreshQP(EnsureConsistency(use.opt))

(* setHessianType(), by the user (the plugin sets INDEF).                  *)
SetHessianType(h) ==
  /\ pc = "idle"
  /\ qp' = [qp EXCEPT !.hess = h]
  /\ UNCHANGED <<use, pc, loc>>

(* init() up to solveInitialQP(): a used object is reset, and a dual       *)
(* solution needs a primal one with it if there is a guess.  setupQPdata() *)
(* stores the data.                                                        *)
SetupQPdataB(q, l) == [q EXCEPT !.data = l.kind]
InitB(l, H) ==
  /\ pc = "idle" /\ use.class = "QProblemB"
  /\ LET q == SetupQPdataB(IF qp.qps = "NOTINITIALISED" THEN qp ELSE ResetB(qp), l)
     IN  IF l.start = "y+guess"
         THEN qp' = [q EXCEPT !.data = qp.data] /\ Return(l, "INVALID_ARGUMENTS")
         ELSE \E r \in DetermineHessianType([q EXCEPT !.qps = "NOTINITIALISED"], H) :
                IF r.ret = "OK" THEN Goto("initial", r.q, l) ELSE qp' = r.q /\ Return(l, "INIT_FAILED")
  /\ UNCHANGED use

(* init() from files of which one cannot be read: a used object has been   *)
(* reset, and some of the bounds are those of the files.                   *)
SetupQPdataFromFileB(q) == [q EXCEPT !.data = [i \in Idx |-> IF i \in Vars THEN "unknown" ELSE q.data[i]]]
InitFromFileB(l) ==
  /\ pc = "idle" /\ use.class = "QProblemB"
  /\ qp' = SetupQPdataFromFileB(IF qp.qps = "NOTINITIALISED" THEN qp ELSE ResetB(qp))
  /\ Return(l, "UNABLE_TO_READ_FILE")
  /\ UNCHANGED use

(* solveInitialQP() from there up to hotstart().                           *)
SolveInitialQPB ==
  /\ pc = "initial" /\ use.class = "QProblemB"
  /\ \E q \in {AllFree([u EXCEPT !.qps = "PREPARINGAUXILIARYQP"]) : u \in SetupSubjectToTypeB(qp, loc.kind)} :
     \E aux \in [Vars -> Statuses] :
       /\ \A i \in Vars : aux[i] \in ObtainAuxiliaryB(q, loc, i)
       /\ LET ws == SetupAuxiliaryWorkingSetB(q, aux, TRUE)
          IN  IF ws.ret # "OK" THEN qp' = ws.q /\ Return(loc, "INIT_FAILED")
              ELSE \E r \in IF ws.q.hess \in {"ZERO", "SEMIDEF"} THEN RegulariseHessian(ws.q) ELSE {ws} :
                     IF r.ret # "OK" THEN qp' = r.q /\ Return(loc, "INIT_FAILED_REGULARISATION")
                     ELSE Goto("hotstart",
                               [SetupAuxiliaryQPboundsB(r.q, TRUE) EXCEPT !.chol = FALSE,
                                                                          !.qps = "AUXILIARYQPSOLVED"], loc)
  /\ UNCHANGED use

(* hotstart() with a guess or without.                                     *)
HotstartB(l) ==
  /\ pc = "idle" /\ use.class = "QProblemB" /\ qp.qps # "NOTINITIALISED"
  /\ IF l.start = "cold" THEN Goto("hotstart", qp, l)
     ELSE \E r \in SetupAuxiliaryQPB(qp, l.aux) :
            IF r.ret = "OK" THEN Goto("hotstart", [r.q EXCEPT !.qps = "AUXILIARYQPSOLVED"], l)
            ELSE qp' = r.q /\ Return(l, "SETUP_AUXILIARYQP_FAILED")
  /\ UNCHANGED use

(* hotstart() from files of which one cannot be read touches nothing.      *)
HotstartFromFileB(l) ==
  /\ pc = "idle" /\ use.class = "QProblemB" /\ qp.qps # "NOTINITIALISED"
  /\ Return(l, "UNABLE_TO_READ_FILE")
  /\ UNCHANGED <<use, qp>>

-----------------------------------------------------------------------------
(* hotstart(): bounds that contradict each other are reported as success,  *)
(* with the infeasibility flag.                                            *)
SetInfeasibilityFlag(q, ret) == Out([q EXCEPT !.inf = TRUE], ret)
AreBoundsConsistentB(l) == l.wrong \cap Vars = {}
EnterHotstart(consistent, Cholesky(_)) ==
  IF ~consistent
  THEN LET r == SetInfeasibilityFlag(qp, "OK") IN Goto("end", r.q, [loc EXCEPT !.ret = r.ret])
  ELSE \E r \in Cholesky(qp) :
         IF r.ret = "OK" THEN Goto("solve", r.q, loc) ELSE Goto("end", r.q, [loc EXCEPT !.ret = r.ret])
StartHotstartB ==
  /\ pc = "hotstart" /\ use.class = "QProblemB"
  /\ EnterHotstart(AreBoundsConsistentB(loc), SetupInitialCholeskyB)
  /\ UNCHANGED use

(* solveQP() refuses an object that is not at the solution of some QP.     *)
SolveReturns(q, ret) == Goto("solved", q, [loc EXCEPT !.ret = ret])
SolveQPB ==
  /\ pc = "solve" /\ use.class = "QProblemB"
  /\ IF ~Startable(qp) THEN SolveReturns(qp, "HOTSTART_FAILED_AS_QP_NOT_INITIALISED")
     ELSE \E q \in SetupSubjectToTypeB(qp, Asked(qp, loc)) :
            Goto("iterate", [q EXCEPT !.inf = FALSE, !.unb = FALSE], [loc EXCEPT !.first = loc.iter])
  /\ UNCHANGED use

(* isCPUtimeLimitExceeded(): never before the first iteration of a         *)
(* solveQP().                                                              *)
CPUtimeLimitExceeded(l) == l.iter > l.first

(* The loop of solveQP() ends: at nWSR, or because the time is over.       *)
LimitReached ==
  /\ pc = "iterate"
  /\ loc.iter = loc.max \/ CPUtimeLimitExceeded(loc)
  /\ SolveReturns(qp, "MAX_NWSR_REACHED")
  /\ UNCHANGED use

(* performRatioTest(): an index of an equality never blocks, nor one that  *)
(* was given up.                                                           *)
BlocksWithEqualities(q, I) ==
  {[i |-> i, s |-> "INACTIVE"] : i \in {j \in I \cap q.held : q.st[j] \in Held}}
    \cup {[i |-> i, s |-> s] : s \in Held,
          i \in {j \in I \ q.held : q.type[j] = "BOUNDED" /\ q.st[j] = "INACTIVE"}}
Blocks(q, I) ==
  {[i |-> i, s |-> "INACTIVE"] : i \in {j \in I \cap q.held : q.type[j] # "EQUALITY" /\ q.st[j] \in Held}}
    \cup {[i |-> i, s |-> s] : s \in Held,
          i \in {j \in I \ q.held : q.type[j] = "BOUNDED" /\ q.st[j] = "INACTIVE"}}

(* performStep(): the data are somewhere on the way, or there.             *)
Stepped(q) == [q EXCEPT !.data = [i \in Idx |-> "unknown"]]
Arrived(q, l) == [q EXCEPT !.data = Asked(q, l), !.qps = "SOLVED"]

(* performRamping() spreads the bounds around x, performDriftCorrection()  *)
(* moves them to it; a QProblem treats those of its constraints alike.     *)
(* The former is for steps of length zero that an index has blocked.       *)
Spread(q, I) ==
  [q EXCEPT !.data = [i \in Idx |-> IF i \notin I \/ q.type[i] = "UNBOUNDED" THEN q.data[i]
                                    ELSE IF q.type[i] = "EQUALITY" THEN "equal" ELSE "range"]]
MovedToX(q, I) ==
  [q EXCEPT !.data = [i \in Idx |-> IF i \in I /\ q.type[i] = "EQUALITY" THEN "equal" ELSE q.data[i]]]
PerformRampingB(q) == Spread(q, Vars)
PerformRamping(q) == Spread(q, Idx)
PerformDriftCorrectionB(q) == MovedToX(q, Vars)
PerformDriftCorrection(q) == MovedToX(q, Idx)
BoundsOnly == use.class = "QProblemB"
Corrected(q, blocked) ==
  {IF q.opt.drift = 0 \/ (loc.iter + 1) % q.opt.drift # 0 THEN q
   ELSE IF BoundsOnly THEN PerformDriftCorrectionB(q) ELSE PerformDriftCorrection(q)}
    \cup IF ~blocked \/ ~q.opt.ramp THEN {}
         ELSE {IF BoundsOnly THEN PerformRampingB(q) ELSE PerformRamping(q)}

(* determineDataShift(), determineStepDirection(): the latter fails when a *)
(* factor of the Hessian cannot be solved with.                            *)
StepDirectionB(q) ==
  {"OK"} \cup IF NFR(q) > 0 /\ (q.hess # "ZERO" \/ q.reg) THEN {"STEPDIRECTION_FAILED_CHOLESKY"} ELSE {}

(* changeActiveSet().  That nothing blocks counts as a failure here.       *)
ChangeActiveSetB(q, b) ==
  IF b.s = "INACTIVE"
  THEN {IF r.ret = "OK" THEN r ELSE Out(r.q, "REMOVE_FROM_ACTIVESET_FAILED") : r \in RemoveBoundB(q, b.i)}
  ELSE {IF r.ret = "OK" THEN r ELSE Out(r.q, "ADD_TO_ACTIVESET_FAILED") : r \in AddBoundB(q, b.i, b.s)}

(* What solveQP() makes of a failure to change the working set.            *)
StepFailed(q, ret) ==
  IF q.inf THEN SolveReturns([q EXCEPT !.qps = "HOMOTOPYQPSOLVED"], "HOTSTART_STOPPED_INFEASIBILITY")
  ELSE IF q.unb THEN SolveReturns(q, "HOTSTART_STOPPED_UNBOUNDEDNESS") ELSE SolveReturns(q, ret)

(* One iteration of solveQP().                                             *)
Refactorises(q) == q.opt.refactor > 0 /\ loc.iter % q.opt.refactor = 0
Performing == [qp EXCEPT !.qps = "PERFORMINGHOMOTOPY"]
CanIterate == pc = "iterate" /\ loc.iter < loc.max
NextIterationStillPerforming(r, blocked) ==
  IF r.ret = "OK"
  THEN \E q \in Corrected(r.q, blocked) : Goto("iterate", q, [loc EXCEPT !.iter = @ + 1])
  ELSE SolveReturns(r.q, r.ret)
NextIteration(r, blocked) ==
  IF r.ret = "OK"
  THEN \E q \in Corrected(r.q, blocked) :
         Goto("iterate", [q EXCEPT !.qps = "HOMOTOPYQPSOLVED"], [loc EXCEPT !.iter = @ + 1])
  ELSE SolveReturns(r.q, r.ret)
IterateB ==
  /\ CanIterate /\ use.class = "QProblemB"
  /\ \/ \E d \in StepDirectionB(qp) \ {"OK"} : SolveReturns(Performing, d)
     \/ SolveReturns(Arrived(Performing, loc), "OK")
     \/ LET q == Stepped(Performing)
        IN \/ StepFailed(q, "OPTIMAL_SOLUTION_FOUND")
           \/ \E b \in Blocks(q, Vars) : \E r \in ChangeActiveSetB(q, b) :
                IF r.ret # "OK" THEN StepFailed(r.q, r.ret)
                ELSE \E f \in IF Refactorises(q) THEN ComputeCholesky(r.q) ELSE {r} : NextIteration(f, TRUE)
  /\ UNCHANGED use

(* solveRegularisedQP(): with a regularised Hessian, more calls of         *)
(* solveQP() that correct the gradient.                                    *)
AfterSolveQP ==
  IF qp.reg /\ loc.ret = "OK" /\ loc.step < qp.opt.steps
  THEN Goto("solve", qp, [loc EXCEPT !.step = @ + 1])
  ELSE Goto("far", qp, [loc EXCEPT !.step = 0])
SolveRegularisedQPB ==
  /\ pc = "solved" /\ use.class = "QProblemB"
  /\ AfterSolveQP
  /\ UNCHANGED use

(* The loop over far bounds in hotstart(): as long as the QP is infeasible *)
(* with them, or solved at one of them, they grow.                         *)
Farther == [loc EXCEPT !.far = @ + (IF qp.opt.grows THEN 1 ELSE 0)]
AfterConstantFarBounds ==
  IF ~qp.opt.far THEN Goto("end", qp, loc)
  ELSE IF qp.inf THEN Goto("solve", qp, loc)
  ELSE Goto("end", qp, loc)
AfterFarBounds ==
  IF ~qp.opt.far THEN Goto("end", qp, loc)
  ELSE IF qp.inf
  THEN IF loc.far = MaxFar THEN Goto("end", qp, [loc EXCEPT !.ret = "HOTSTART_STOPPED_INFEASIBILITY"])
       ELSE Goto("solve", qp, Farther)
  ELSE \/ Goto("end", qp, loc)
       \/ /\ qp.qps = "SOLVED" /\ \E i \in Idx : loc.kind[i] = "infinite"
          /\ LET q == [qp EXCEPT !.qps = "HOMOTOPYQPSOLVED"]
             IN  IF loc.far = MaxFar
                 THEN Goto("end", [q EXCEPT !.unb = TRUE], [loc EXCEPT !.ret = "HOTSTART_STOPPED_UNBOUNDEDNESS"])
                 ELSE Goto("solve", q, Farther)
FarBoundsB ==
  /\ pc = "far" /\ use.class = "QProblemB"
  /\ AfterFarBounds
  /\ UNCHANGED use

(* hotstart() returns, and with it init().                                 *)
InitReturnsHotstart(q, ret) == IF ret \in {"OK", "MAX_NWSR_REACHED"} THEN ret ELSE "INIT_FAILED_HOTSTART"
InitReturns(q, ret) ==
  IF q.inf THEN "INIT_FAILED_INFEASIBILITY"
  ELSE IF q.unb THEN "INIT_FAILED_UNBOUNDEDNESS"
  ELSE IF ret \in {"OK", "MAX_NWSR_REACHED"} THEN ret ELSE "INIT_FAILED_HOTSTART"
EndB ==
  /\ pc = "end" /\ use.class = "QProblemB"
  /\ Return(loc, IF loc.call = "init" THEN InitReturns(qp, loc.ret) ELSE loc.ret)
  /\ UNCHANGED <<use, qp>>

StepB == SolveInitialQPB \/ StartHotstartB \/ SolveQPB \/ LimitReached \/ IterateB
           \/ SolveRegularisedQPB \/ FarBoundsB \/ EndB

-----------------------------------------------------------------------------
(* What a user may read: the solution of some QP, which may be one on the  *)
(* way.  Otherwise the array for x is left as it was, the one for y is     *)
(* filled all the same, and the objective value is infinite.               *)
GetPrimalSolution(q) ==
  [ret |-> IF Startable(q) THEN "OK" ELSE "QP_NOT_SOLVED", filled |-> IF Startable(q) THEN Vars ELSE {}]
GetDualSolutionB(q) == [ret |-> IF Startable(q) THEN "OK" ELSE "QP_NOT_SOLVED", filled |-> Vars]
GetObjVal(q) ==
  [infinite |-> ~Startable(q),
   terms |-> {"gradient"} \cup (IF q.hess = "ZERO" THEN {} ELSE {"Hessian"})
                         \cup (IF q.reg THEN {"regularisation"} ELSE {})]
Sides(st) == CASE st = "LOWER" -> -1 [] st = "UPPER" -> 1 [] OTHER -> 0
GetWorkingSetB(q) == [i \in Vars |-> Sides(q.st[i])]
=============================================================================
