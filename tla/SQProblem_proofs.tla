-------------------------- MODULE SQProblem_proofs ---------------------------
(***************************************************************************)
(* What an object of qpOASES promises its user, for any number of          *)
(* variables and constraints, any options, any limit on the iterations and *)
(* any sequence of calls.                                                  *)
(*                                                                         *)
(* First the operators that change a working set: each gives back a good   *)
(* object, and one that reports success leaves the flags alone.  Then the  *)
(* inductive invariant, and that every action keeps it.  Then what follows *)
(* from it.                                                                *)
(***************************************************************************)
EXTENDS SQProblem, TLAPS, WellFoundedInduction, FiniteSetTheorems

(* The objects.                                                            *)
QPs ==
  [opt : OptionRecords, qps : QPStatuses, held : SUBSET Idx, data : [Idx -> AllKinds \cup {"unknown"}],
   st : [Idx -> Statuses], type : [Idx -> Types], hess : HessianTypes,
   chol : BOOLEAN, reg : BOOLEAN, inf : BOOLEAN, unb : BOOLEAN]

(* The statuses of the indices that are held, and of the others.  Only     *)
(* dropInfeasibles() gives an index up.                                    *)
Known == Held \cup {"INACTIVE", "UNDEFINED"}
Agreeing(q) == ~q.opt.drop => (q.held = {i \in Idx : q.st[i] \in Held} /\ \A i \in Idx : q.st[i] \in Known)
Good(q) == q \in QPs /\ Agreeing(q)

(* p is q after its working set has changed.                               *)
Moved(q, p) ==
  /\ Good(p) /\ p.opt = q.opt /\ p.qps = q.qps /\ p.data = q.data /\ p.type = q.type
  /\ p.chol = q.chol /\ p.reg = q.reg
Quiet(q, p) == p.inf = q.inf /\ p.unb = q.unb
Outcome(q, r) ==
  Moved(q, r.q) /\ (r.ret \in {"OK", "DROPPED"} => Quiet(q, r.q)) /\ r.ret # "MAX_NWSR_REACHED"

LEMMA MovedTrans ==
  ASSUME NEW q, NEW p, NEW o, Moved(q, p), Moved(p, o)
  PROVE  Moved(q, o)
  BY DEF Moved

LEMMA MovedRefl ==
  ASSUME NEW q, Good(q)
  PROVE  Moved(q, q)
  BY DEF Moved

LEMMA EnterMoves ==
  ASSUME NEW q, Good(q), NEW i \in Idx, NEW s \in Statuses, q.opt.drop \/ s \in Held
  PROVE  Moved(q, Enter(q, i, s)) /\ Quiet(q, Enter(q, i, s)) /\ Enter(q, i, s).hess = q.hess
<1> DEFINE p == Enter(q, i, s)
<1>1. p \in QPs
  BY DEF Good, QPs, Enter
<1>2. /\ p.opt = q.opt /\ p.qps = q.qps /\ p.data = q.data /\ p.type = q.type /\ p.chol = q.chol /\ p.reg = q.reg
      /\ p.inf = q.inf /\ p.unb = q.unb /\ p.hess = q.hess /\ p.held = q.held \cup {i}
      /\ p.st = [q.st EXCEPT ![i] = s]
  BY DEF Good, QPs, Enter
<1>3. Agreeing(p)
  BY <1>1, <1>2 DEF Agreeing, Good, QPs, Held, Known
<1> QED
  BY <1>1, <1>2, <1>3 DEF Moved, Good, Quiet

LEMMA LeaveMoves ==
  ASSUME NEW q, Good(q), NEW i \in Idx
  PROVE  /\ Moved(q, Leave(q, i)) /\ Quiet(q, Leave(q, i)) /\ Leave(q, i).hess = q.hess
<1> DEFINE p == Leave(q, i)
<1>1. p \in QPs
  BY DEF Good, QPs, Leave, Held, Statuses
<1>2. /\ p.opt = q.opt /\ p.qps = q.qps /\ p.data = q.data /\ p.type = q.type /\ p.chol = q.chol /\ p.reg = q.reg
      /\ p.inf = q.inf /\ p.unb = q.unb /\ p.hess = q.hess /\ p.held = q.held \ {i}
      /\ p.st = [q.st EXCEPT ![i] = "INACTIVE"]
  BY DEF Good, QPs, Leave
<1>3. Agreeing(p)
  BY <1>1, <1>2 DEF Agreeing, Good, QPs, Held, Known
<1> QED
  BY <1>1, <1>2, <1>3 DEF Moved, Good, Quiet

LEMMA FlippedMoves ==
  ASSUME NEW q, Good(q), NEW i \in Idx, q.opt.drop \/ i \in q.held
  PROVE  Moved(q, Flipped(q, i)) /\ Quiet(q, Flipped(q, i)) /\ Flipped(q, i).hess = q.hess
<1> DEFINE p == Flipped(q, i)
<1>1. p \in QPs
  BY DEF Good, QPs, Flipped, Held, Statuses
<1>2. /\ p.opt = q.opt /\ p.qps = q.qps /\ p.data = q.data /\ p.type = q.type /\ p.chol = q.chol /\ p.reg = q.reg
      /\ p.inf = q.inf /\ p.unb = q.unb /\ p.hess = q.hess /\ p.held = q.held
      /\ p.st = [q.st EXCEPT ![i] = IF q.st[i] = "LOWER" THEN "UPPER" ELSE "LOWER"]
  BY DEF Good, QPs, Flipped
<1>3. Agreeing(p)
  BY <1>1, <1>2 DEF Agreeing, Good, QPs, Held, Known
<1> QED
  BY <1>1, <1>2, <1>3 DEF Moved, Good, Quiet

LEMMA HessMoves ==
  ASSUME NEW q, Good(q), NEW h \in HessianTypes
  PROVE  LET p == [q EXCEPT !.hess = h] IN Moved(q, p) /\ Quiet(q, p) /\ p.held = q.held /\ p.st = q.st
  BY DEF Good, QPs, Moved, Quiet, Agreeing

-----------------------------------------------------------------------------
(* The factorisations.                                                     *)

(* p is q after a factorisation or a regularisation.                       *)
Factored(q, p) ==
  /\ Good(p) /\ p.opt = q.opt /\ p.qps = q.qps /\ p.held = q.held /\ p.data = q.data /\ p.st = q.st
  /\ p.type = q.type /\ p.inf = q.inf /\ p.unb = q.unb
Factorisation(q, r) == Factored(q, r.q) /\ r.ret # "MAX_NWSR_REACHED"

LEMMA FactoredTrans ==
  ASSUME NEW q, NEW p, NEW o, Factored(q, p), Factored(p, o)
  PROVE  Factored(q, o)
  BY DEF Factored

LEMMA FactoredRefl ==
  ASSUME NEW q, Good(q)
  PROVE  Factored(q, q) /\ \A ret : ret # "MAX_NWSR_REACHED" => Factorisation(q, Out(q, ret))
  BY DEF Factored, Factorisation, Out

LEMMA FactoredFields ==
  ASSUME NEW q, Good(q)
  PROVE  /\ Factored(q, q)
         /\ \A h \in HessianTypes : Factored(q, [q EXCEPT !.hess = h])
         /\ Factored(q, [q EXCEPT !.reg = TRUE]) /\ Factored(q, [q EXCEPT !.reg = FALSE])
         /\ Factored(q, [q EXCEPT !.chol = TRUE]) /\ Factored(q, [q EXCEPT !.chol = FALSE])
  BY DEF Factored, Good, QPs, Agreeing

LEMMA RegulariseFactored ==
  ASSUME NEW q, Good(q), NEW r \in RegulariseHessian(q)
  PROVE  Factorisation(q, r)
<1> DEFINE p == [q EXCEPT !.reg = TRUE]
<1>1. Factored(q, q) /\ Factored(q, p)
  BY FactoredFields
<1>2. \/ r \in {Out(q, "OK"), Out(q, "CANNOT_REGULARISE_IDENTITY"), Out(q, "CANNOT_REGULARISE_SPARSE")}
      \/ r = Out(p, "OK")
  BY Zenon DEF RegulariseHessian
<1> HIDE DEF p
<1> QED
  BY <1>1, <1>2 DEF Out, Factorisation

LEMMA CholeskyFactored ==
  ASSUME NEW q, Good(q), NEW r \in ComputeCholesky(q)
  PROVE  Factorisation(q, r)
<1>1. Factored(q, q) /\ Factored(q, [q EXCEPT !.hess = "SEMIDEF"])
  BY FactoredFields DEF HessianTypes
<1> QED
  BY <1>1 DEF ComputeCholesky, Out, Factorisation

LEMMA ProjectedCholeskyFactored ==
  ASSUME NEW q, Good(q), NEW r \in ComputeProjectedCholesky(q)
  PROVE  Factorisation(q, r)
<1>1. Factored(q, q) /\ Factored(q, [q EXCEPT !.hess = "SEMIDEF"])
  BY FactoredFields DEF HessianTypes
<1> QED
  BY <1>1, CholeskyFactored DEF ComputeProjectedCholesky, Out, Factorisation

LEMMA RegularisedFactored ==
  ASSUME NEW q, Good(q), NEW r \in Regularised(q)
  PROVE  Factorisation(q, r)
  BY RegulariseFactored DEF Regularised, Out, Factorisation

(* setupInitialCholesky(): the steps of a second try.                      *)
LEMMA SecondTry ==
  ASSUME NEW q, NEW b, NEW s, Factorisation(q, b),
         IF b.ret # "OK" THEN s = b
         ELSE \E t : /\ Factorisation(b.q, t)
                     /\ IF t.ret # "HESSIAN_NOT_SPD" THEN s = t
                        ELSE \E u : /\ Factorisation(t.q, u)
                                    /\ IF u.ret # "OK" THEN s = u ELSE Factorisation(u.q, s)
  PROVE  Factorisation(q, s) /\ Factored(q, [s.q EXCEPT !.chol = TRUE])
<1>1. Factorisation(q, s)
  BY FactoredTrans DEF Factorisation
<1>2. Good(s.q)
  BY <1>1 DEF Factorisation, Factored
<1>3. Factored(s.q, [s.q EXCEPT !.chol = TRUE])
  BY <1>2, FactoredFields
<1> QED
  BY <1>1, <1>3, FactoredTrans, Zenon DEF Factorisation

LEMMA Reported ==
  ASSUME NEW q, NEW p, NEW s, NEW r, Factored(q, p), Factorisation(q, s),
         r \in {Out(p, "OK"), s, Out(s.q, "INIT_FAILED_CHOLESKY")}
  PROVE  Factorisation(q, r)
  BY DEF Factorisation, Out

LEMMA InitialCholeskyBFactored ==
  ASSUME NEW q, Good(q), NEW r \in WithCholesky(q, ComputeCholesky)
  PROVE  Factorisation(q, r)
<1> DEFINE nfv == Cardinality({i \in Vars : q.type[i] = "EQUALITY"})
           begin == IF NV # NFR(q) - nfv /\ q.opt.reg THEN Regularised(q) ELSE {Out(q, "OK")}
           again(p) == UNION {IF t.ret = "HESSIAN_NOT_SPD" THEN Then(Regularised(t.q), ComputeCholesky) ELSE {t}
                               : t \in ComputeCholesky(p)}
<1>1. PICK s \in Then(begin, again) :
        r \in {Out([s.q EXCEPT !.chol = TRUE], "OK"), s, Out(s.q, "INIT_FAILED_CHOLESKY")}
  BY Zenon DEF WithCholesky
<1>2. PICK b \in begin : s \in IF b.ret = "OK" THEN again(b.q) ELSE {b}
  BY <1>1 DEF Then
<1>3. Factorisation(q, b)
  BY <1>2, RegularisedFactored, FactoredRefl
<1>4. ASSUME b.ret = "OK"
      PROVE  \E t : /\ Factorisation(b.q, t)
                    /\ IF t.ret # "HESSIAN_NOT_SPD" THEN s = t
                       ELSE \E u : /\ Factorisation(t.q, u)
                                   /\ IF u.ret # "OK" THEN s = u ELSE Factorisation(u.q, s)
  <2>1. PICK t \in ComputeCholesky(b.q) :
          s \in IF t.ret = "HESSIAN_NOT_SPD" THEN Then(Regularised(t.q), ComputeCholesky) ELSE {t}
    BY <1>2, <1>4
  <2>2. Factorisation(b.q, t) /\ Good(t.q)
    BY <1>3, CholeskyFactored DEF Factorisation, Factored
  <2>3. ASSUME t.ret = "HESSIAN_NOT_SPD"
        PROVE  \E u : Factorisation(t.q, u) /\ IF u.ret # "OK" THEN s = u ELSE Factorisation(u.q, s)
    <3>1. PICK u \in Regularised(t.q) : s \in IF u.ret = "OK" THEN ComputeCholesky(u.q) ELSE {u}
      BY <2>1, <2>3 DEF Then
    <3>2. Factorisation(t.q, u) /\ Good(u.q)
      BY <2>2, RegularisedFactored DEF Factorisation, Factored
    <3> QED BY <3>1, <3>2, CholeskyFactored
  <2> QED BY <2>1, <2>2, <2>3
<1>5. IF b.ret # "OK" THEN s = b
      ELSE \E t : /\ Factorisation(b.q, t)
                  /\ IF t.ret # "HESSIAN_NOT_SPD" THEN s = t
                     ELSE \E u : /\ Factorisation(t.q, u)
                                 /\ IF u.ret # "OK" THEN s = u ELSE Factorisation(u.q, s)
  <2> HIDE DEF again, begin
  <2> QED BY <1>2, <1>4
<1>6. Factorisation(q, s)
  BY <1>3, <1>5, SecondTry
<1>7. Factored(q, [s.q EXCEPT !.chol = TRUE])
  BY <1>3, <1>5, SecondTry, Zenon
<1> QED BY <1>1, <1>6, <1>7, Reported, Zenon

LEMMA InitialProjectedCholeskyFactored ==
  ASSUME NEW q, Good(q), NEW r \in WithCholesky(q, ComputeProjectedCholesky)
  PROVE  Factorisation(q, r)
<1> DEFINE nfv == Cardinality({i \in Vars : q.type[i] = "EQUALITY"})
           begin == IF NV # NFR(q) - nfv /\ q.opt.reg THEN Regularised(q) ELSE {Out(q, "OK")}
           again(p) == UNION {IF t.ret = "HESSIAN_NOT_SPD" THEN Then(Regularised(t.q), ComputeProjectedCholesky) ELSE {t}
                               : t \in ComputeProjectedCholesky(p)}
<1>1. PICK s \in Then(begin, again) :
        r \in {Out([s.q EXCEPT !.chol = TRUE], "OK"), s, Out(s.q, "INIT_FAILED_CHOLESKY")}
  BY Zenon DEF WithCholesky
<1>2. PICK b \in begin : s \in IF b.ret = "OK" THEN again(b.q) ELSE {b}
  BY <1>1 DEF Then
<1>3. Factorisation(q, b)
  BY <1>2, RegularisedFactored, FactoredRefl
<1>4. ASSUME b.ret = "OK"
      PROVE  \E t : /\ Factorisation(b.q, t)
                    /\ IF t.ret # "HESSIAN_NOT_SPD" THEN s = t
                       ELSE \E u : /\ Factorisation(t.q, u)
                                   /\ IF u.ret # "OK" THEN s = u ELSE Factorisation(u.q, s)
  <2>1. PICK t \in ComputeProjectedCholesky(b.q) :
          s \in IF t.ret = "HESSIAN_NOT_SPD" THEN Then(Regularised(t.q), ComputeProjectedCholesky) ELSE {t}
    BY <1>2, <1>4
  <2>2. Factorisation(b.q, t) /\ Good(t.q)
    BY <1>3, ProjectedCholeskyFactored DEF Factorisation, Factored
  <2>3. ASSUME t.ret = "HESSIAN_NOT_SPD"
        PROVE  \E u : Factorisation(t.q, u) /\ IF u.ret # "OK" THEN s = u ELSE Factorisation(u.q, s)
    <3>1. PICK u \in Regularised(t.q) : s \in IF u.ret = "OK" THEN ComputeProjectedCholesky(u.q) ELSE {u}
      BY <2>1, <2>3 DEF Then
    <3>2. Factorisation(t.q, u) /\ Good(u.q)
      BY <2>2, RegularisedFactored DEF Factorisation, Factored
    <3> QED BY <3>1, <3>2, ProjectedCholeskyFactored
  <2> QED BY <2>1, <2>2, <2>3
<1>5. IF b.ret # "OK" THEN s = b
      ELSE \E t : /\ Factorisation(b.q, t)
                  /\ IF t.ret # "HESSIAN_NOT_SPD" THEN s = t
                     ELSE \E u : /\ Factorisation(t.q, u)
                                 /\ IF u.ret # "OK" THEN s = u ELSE Factorisation(u.q, s)
  <2> HIDE DEF again, begin
  <2> QED BY <1>2, <1>4
<1>6. Factorisation(q, s)
  BY <1>3, <1>5, SecondTry
<1>7. Factored(q, [s.q EXCEPT !.chol = TRUE])
  BY <1>3, <1>5, SecondTry, Zenon
<1> QED BY <1>1, <1>6, <1>7, Reported, Zenon

LEMMA InitialCholeskyFactored ==
  ASSUME NEW q, Good(q)
  PROVE  /\ \A r \in SetupInitialCholeskyB(q) : Factorisation(q, r)
         /\ \A r \in SetupInitialCholesky(q) : Factorisation(q, r)
<1>1. Factorisation(q, Out(q, "OK"))
  BY FactoredFields DEF Out, Factorisation
<1>2. \A r \in SetupInitialCholeskyB(q) : Factorisation(q, r)
  BY <1>1, InitialCholeskyBFactored DEF SetupInitialCholeskyB
<1>3. \A r \in SetupInitialCholesky(q) : Factorisation(q, r)
  BY <1>1, InitialProjectedCholeskyFactored DEF SetupInitialCholesky
<1> QED BY <1>2, <1>3

-----------------------------------------------------------------------------
(* Taking an index out of the working set, and adding one.                 *)

LEMMA Unmoved ==
  ASSUME NEW q, Good(q), NEW ret, ret # "MAX_NWSR_REACHED"
  PROVE  Outcome(q, Out(q, ret))
  BY MovedRefl DEF Outcome, Out, Quiet

(* The failures that the backsolves report.                                *)
LEMMA StepDirections ==
  ASSUME NEW q, NEW d \in StepDirection(q)
  PROVE  d # "MAX_NWSR_REACHED"
<1>1. d \in PrimalStep(q) \cup DualStep(q)
  BY DEF StepDirection
<1>2. d \in DualStep(q) => d # "MAX_NWSR_REACHED"
  BY DEF DualStep, BacksolveT
<1>3. d \in PrimalStep(q) => d # "MAX_NWSR_REACHED"
  BY DEF PrimalStep, RangeSpaceStep, NullSpaceStep, BacksolveT
<1> QED BY <1>1, <1>2, <1>3

LEMMA SingularMoves ==
  ASSUME NEW q, Good(q), NEW i \in Idx, NEW gone, Moved(q, gone), Quiet(q, gone), NEW flip, NEW exchange,
         flip => q.opt.drop \/ i \in q.held,
         NEW r \in Singular(q, i, flip, exchange, gone)
  PROVE  Outcome(q, r)
<1> DEFINE f == Flipped(q, i)
           p == [f EXCEPT !.hess = "SEMIDEF"]
           g == [gone EXCEPT !.hess = "SEMIDEF"]
<1>1. flip => Moved(q, p) /\ Quiet(q, p)
  <2> SUFFICES ASSUME flip PROVE Moved(q, p) /\ Quiet(q, p)
    OBVIOUS
  <2>1. Moved(q, f) /\ Quiet(q, f) /\ Good(f)
    BY FlippedMoves DEF Moved
  <2>2. Moved(f, p) /\ Quiet(f, p)
    BY <2>1, HessMoves DEF HessianTypes
  <2> QED BY <2>1, <2>2, MovedTrans DEF Quiet
<1>2. Moved(q, g) /\ Quiet(q, g)
  <2>1. Good(gone)
    BY DEF Moved
  <2>2. Moved(gone, g) /\ Quiet(gone, g)
    BY <2>1, HessMoves DEF HessianTypes
  <2> QED BY <2>2, MovedTrans DEF Quiet
<1>3. (flip /\ r = Out(p, "OK")) \/ r = Out(g, "HESSIAN_NOT_SPD")
  BY DEF Singular
<1> HIDE DEF p, g
<1> QED BY <1>1, <1>2, <1>3 DEF Outcome, Out

LEMMA TakeOutMoves ==
  ASSUME NEW q, Good(q), NEW i \in Idx, NEW chol, NEW flip, NEW exchange,
         flip => q.opt.drop \/ i \in q.held
  PROVE  /\ \A r \in TakeOutBound(q, i, chol, flip, exchange) : Outcome(q, r)
         /\ \A r \in TakeOutConstraint(q, i, chol, flip, exchange) : Outcome(q, r)
         /\ \A r \in TakeOut(q, i, chol, flip, exchange) : Outcome(q, r)
<1> DEFINE p == Leave(q, i)
<1>1. Moved(q, p) /\ Quiet(q, p) /\ Moved(q, q) /\ Quiet(q, q)
  BY LeaveMoves, MovedRefl DEF Quiet
<1>2. \A r \in Singular(q, i, flip, exchange, p) : Outcome(q, r)
  BY <1>1, SingularMoves
<1>3. \A r \in Singular(q, i, flip, exchange, q) : Outcome(q, r)
  BY <1>1, SingularMoves
<1>4. /\ Outcome(q, Out(p, "OK")) /\ Outcome(q, Out(p, "REMOVEBOUND_FAILED"))
      /\ Outcome(q, Out(q, "REMOVECONSTRAINT_FAILED"))
  BY <1>1 DEF Outcome, Out
<1>5. \A r \in TakeOutBound(q, i, chol, flip, exchange) : Outcome(q, r)
  BY <1>2, <1>4 DEF TakeOutBound
<1>6. \A r \in TakeOutConstraint(q, i, chol, flip, exchange) : Outcome(q, r)
  BY <1>3, <1>4 DEF TakeOutConstraint
<1> QED BY <1>5, <1>6 DEF TakeOut

LEMMA TakeOutQuiet ==
  ASSUME NEW q, Good(q), NEW i \in Idx, NEW chol, NEW r \in TakeOut(q, i, chol, FALSE, FALSE)
  PROVE  Quiet(q, r.q)
<1> DEFINE p == Leave(q, i)
<1>1. Quiet(q, p) /\ Quiet(q, q)
  BY LeaveMoves DEF Quiet
<1>2. r \in {Out(p, "OK"), Out(p, "REMOVEBOUND_FAILED"), Out(q, "REMOVECONSTRAINT_FAILED")}
  BY DEF TakeOut, TakeOutBound, TakeOutConstraint, Singular
<1> HIDE DEF p
<1> QED BY <1>1, <1>2 DEF Out

LEMMA DropMoves ==
  ASSUME NEW q, Good(q), q.opt.drop, NEW i \in Idx, NEW s, NEW r \in DropInfeasibles(q, i, s)
  PROVE  Outcome(q, r)
<1>1. ASSUME NEW p, Moved(q, p), NEW v \in Idx, NEW t
      PROVE  Moved(q, [p EXCEPT !.st[v] = GivenUp(t)]) /\ Quiet(p, [p EXCEPT !.st[v] = GivenUp(t)])
  BY <1>1 DEF Moved, Quiet, Good, QPs, Agreeing, GivenUp, Statuses
<1>2. \/ r = Out([q EXCEPT !.st[i] = GivenUp(s)], "DROPPED")
      \/ \E v \in Idx : \E u \in TakeOut(q, v, TRUE, FALSE, FALSE) :
           r = Out([u.q EXCEPT !.st[v] = GivenUp(q.st[v])], "OK")
  <2> DEFINE own == [i |-> 0, p |-> IF i \in Vars THEN q.opt.dropBound ELSE q.opt.dropIneq]
             active(t) == IF \E k \in 1 .. NAC(q) : q.type[NV + k] = t THEN q.held \cap Cons ELSE {}
             eq == Candidates(active("EQUALITY"), q.opt.dropEq, own)
             ineq == UNION {Candidates(active("BOUNDED"), q.opt.dropIneq, c) : c \in eq}
             last == UNION {Candidates(q.held \cap Vars, q.opt.dropBound, c) : c \in ineq}
             victims == {c.i : c \in last}
  <2>1. PICK v \in victims :
          r \in IF v = 0 THEN {Out([q EXCEPT !.st[i] = GivenUp(s)], "DROPPED")}
                ELSE {Out([u.q EXCEPT !.st[v] = GivenUp(q.st[v])], "OK") : u \in TakeOut(q, v, TRUE, FALSE, FALSE)}
    BY Zenon DEF DropInfeasibles
  <2>2. q.held \subseteq Idx
    BY DEF Good, QPs
  <2>3. \A c \in eq : c.i \in Idx \cup {0}
    BY <2>2 DEF Candidates
  <2>4. \A c \in ineq : c.i \in Idx \cup {0}
    <3> HIDE DEF eq
    <3> QED BY <2>2, <2>3 DEF Candidates
  <2>5. \A c \in last : c.i \in Idx \cup {0}
    <3> HIDE DEF ineq
    <3> QED BY <2>2, <2>4 DEF Candidates
  <2>6. v \in Idx \cup {0}
    <3> HIDE DEF last
    <3> QED BY <2>1, <2>5
  <2> HIDE DEF victims
  <2> QED BY <2>1, <2>6, Zenon
<1>3. ASSUME r = Out([q EXCEPT !.st[i] = GivenUp(s)], "DROPPED") PROVE Outcome(q, r)
  <2> DEFINE p == [q EXCEPT !.st[i] = GivenUp(s)]
  <2>1. Moved(q, p) /\ Quiet(q, p)
    BY <1>1, MovedRefl
  <2>2. r = Out(p, "DROPPED")
    BY <1>3
  <2> HIDE DEF p
  <2> QED BY <2>1, <2>2 DEF Outcome, Out
<1>4. ASSUME NEW v \in Idx, NEW u \in TakeOut(q, v, TRUE, FALSE, FALSE),
             r = Out([u.q EXCEPT !.st[v] = GivenUp(q.st[v])], "OK")
      PROVE  Outcome(q, r)
  <2> DEFINE p == [u.q EXCEPT !.st[v] = GivenUp(q.st[v])]
  <2>1. Outcome(q, u)
    BY TakeOutMoves
  <2>2. Moved(q, p) /\ Quiet(u.q, p)
    BY <1>1, <2>1 DEF Outcome
  <2>3. Quiet(q, u.q)
    BY TakeOutQuiet
  <2>4. r = Out(p, "OK")
    BY <1>4
  <2> HIDE DEF p
  <2> QED BY <2>2, <2>3, <2>4 DEF Outcome, Out, Quiet
<1> QED BY <1>2, <1>3, <1>4

LEMMA ResolveMoves ==
  ASSUME NEW q, Good(q), NEW i \in Idx, NEW s, NEW r \in Resolve(q, i, s)
  PROVE  Outcome(q, r)
<1>1. \/ r = Out(q, "ENSURELI_FAILED")
      \/ \E j \in PerformPlainRatioTest(q) : \E u \in TakeOut(q, j, TRUE, FALSE, FALSE) :
           r = u \/ r = Out(u.q, "ENSURELI_FAILED")
      \/ q.opt.drop /\ r \in DropInfeasibles(q, i, s)
      \/ r = SetInfeasibilityFlag(q, "NOINDEX")
  BY DEF Resolve
<1>2. CASE r = Out(q, "ENSURELI_FAILED")
  BY <1>2, Unmoved
<1>3. ASSUME NEW j \in PerformPlainRatioTest(q), NEW u \in TakeOut(q, j, TRUE, FALSE, FALSE),
             r = u \/ r = Out(u.q, "ENSURELI_FAILED")
      PROVE  Outcome(q, r)
  <2>1. j \in Idx
    BY DEF PerformPlainRatioTest, Good, QPs
  <2>2. Outcome(q, u)
    BY <2>1, TakeOutMoves
  <2> QED BY <1>3, <2>2 DEF Outcome, Out
<1>4. CASE q.opt.drop /\ r \in DropInfeasibles(q, i, s)
  BY <1>4, DropMoves
<1>5. CASE r = SetInfeasibilityFlag(q, "NOINDEX")
  <2> DEFINE p == [q EXCEPT !.inf = TRUE]
  <2>1. Moved(q, p)
    BY DEF Moved, Good, QPs, Agreeing
  <2>2. r = Out(p, "NOINDEX")
    BY <1>5, Zenon DEF SetInfeasibilityFlag
  <2> HIDE DEF p
  <2> QED BY <2>1, <2>2 DEF Outcome, Out
<1> QED BY <1>1, <1>2, <1>3, <1>4, <1>5

LEMMA EnsureLIMoves ==
  ASSUME NEW q, Good(q), NEW i \in Idx, NEW s
  PROVE  /\ \A r \in AddConstraintEnsureLI(q, i, s) : Outcome(q, r)
         /\ \A r \in AddBoundEnsureLI(q, i, s) : Outcome(q, r)
  BY Unmoved, ResolveMoves DEF AddConstraintEnsureLI, AddBoundEnsureLI

LEMMA EnteredMoves ==
  ASSUME NEW q, Good(q), NEW i \in Idx, NEW s \in Statuses, q.opt.drop \/ s \in Held, NEW outcomes,
         \A u \in outcomes : Outcome(q, u), NEW infeasible, infeasible \notin {"OK", "DROPPED", "MAX_NWSR_REACHED"},
         NEW r \in Entered(outcomes, i, s, infeasible)
  PROVE  Outcome(q, r)
<1>1. PICK u \in outcomes : r = CASE u.ret = "OK" -> Out(Enter(u.q, i, s), "OK")
                                  [] u.ret = "NOINDEX" -> Out(u.q, infeasible)
                                  [] u.ret = "DROPPED" -> Out(u.q, "OK")
                                  [] OTHER -> u
  BY DEF Entered
<1>2. Outcome(q, u) /\ Good(u.q)
  BY DEF Outcome, Moved
<1>3. CASE u.ret = "OK"
  <2> DEFINE p == Enter(u.q, i, s)
  <2>1. Moved(u.q, p) /\ Quiet(u.q, p)
    BY <1>2, EnterMoves DEF Outcome, Moved
  <2>2. Moved(q, p) /\ Quiet(q, p)
    BY <1>2, <1>3, <2>1, MovedTrans DEF Outcome, Quiet
  <2>3. r = Out(p, "OK")
    BY <1>1, <1>3
  <2> HIDE DEF p
  <2> QED BY <2>2, <2>3 DEF Outcome, Out
<1>4. CASE u.ret = "NOINDEX"
  BY <1>1, <1>2, <1>4 DEF Outcome, Out
<1>5. CASE u.ret = "DROPPED"
  BY <1>1, <1>2, <1>5 DEF Outcome, Out
<1>6. CASE u.ret \notin {"OK", "NOINDEX", "DROPPED"}
  BY <1>1, <1>2, <1>6
<1> QED BY <1>3, <1>4, <1>5, <1>6

LEMMA AddMoves ==
  ASSUME NEW q, Good(q), NEW i \in Idx, NEW s \in Statuses, q.opt.drop \/ s \in Held, NEW ensureLI
  PROVE  /\ \A r \in AddConstraint(q, i, s, ensureLI) : Outcome(q, r)
         /\ \A r \in AddBound(q, i, s, ensureLI) : Outcome(q, r)
         /\ \A r \in Add(q, i, s, ensureLI) : Outcome(q, r)
<1>1. \A r \in IF ensureLI THEN AddConstraintEnsureLI(q, i, s) ELSE {Out(q, "OK")} : Outcome(q, r)
  BY EnsureLIMoves, Unmoved
<1>2. \A r \in IF ensureLI THEN AddBoundEnsureLI(q, i, s) ELSE {Out(q, "OK")} : Outcome(q, r)
  BY EnsureLIMoves, Unmoved
<1>3. \A r \in Entered(IF ensureLI THEN AddConstraintEnsureLI(q, i, s) ELSE {Out(q, "OK")}, i, s,
                       "ADDCONSTRAINT_FAILED_INFEASIBILITY") : Outcome(q, r)
  BY <1>1, EnteredMoves
<1>4. \A r \in Entered(IF ensureLI THEN AddBoundEnsureLI(q, i, s) ELSE {Out(q, "OK")}, i, s,
                       "ADDBOUND_FAILED_INFEASIBILITY") : Outcome(q, r)
  BY <1>2, EnteredMoves
<1>5. \A r \in AddConstraint(q, i, s, ensureLI) : Outcome(q, r)
  BY <1>3, Unmoved DEF AddConstraint
<1>6. \A r \in AddBound(q, i, s, ensureLI) : Outcome(q, r)
  BY <1>4, Unmoved DEF AddBound
<1> QED BY <1>5, <1>6 DEF Add

(* Without a test, nothing is found infeasible.                            *)
LEMMA AddUntested ==
  ASSUME NEW q, Good(q), NEW i \in Idx, NEW s \in Held, NEW r \in Add(q, i, s, FALSE)
  PROVE  Outcome(q, Out(r.q, "OK"))
<1>1. r.q = q \/ r.q = Enter(q, i, s)
  BY DEF Add, AddBound, AddConstraint, Entered, Out
<1> QED BY <1>1, EnterMoves, MovedRefl DEF Outcome, Out, Quiet, Statuses

(* An exchange adds what is left out there, or the index itself.           *)
LEMMA Exchanges ==
  ASSUME NEW q, Good(q), NEW i \in Idx, NEW e \in EnsureNonzeroCurvature(q, i)
  PROVE  /\ Outcome(q, e.r)
         /\ e.r.ret = "OK" => e.r.q = q /\ (e.x # NoExchange => e.x.i \in Idx /\ e.x.s \in Held)
<1>1. \/ \E d \in StepDirection(q) \ {"OK"} : e = [r |-> Out(q, d), x |-> NoExchange]
      \/ e = [r |-> Out([q EXCEPT !.unb = TRUE], "HOTSTART_STOPPED_UNBOUNDEDNESS"), x |-> NoExchange]
      \/ \E x \in {NoExchange} \cup InTheWay(q, i) : e = [r |-> Out(q, "OK"), x |-> x]
  BY Zenon DEF EnsureNonzeroCurvature
<1>2. ASSUME NEW d \in StepDirection(q) \ {"OK"}, e = [r |-> Out(q, d), x |-> NoExchange]
      PROVE  Outcome(q, e.r) /\ e.r.ret # "OK"
  <2>1. e.r = Out(q, d)
    BY <1>2
  <2>2. d # "MAX_NWSR_REACHED"
    BY StepDirections
  <2> QED BY <2>1, <2>2, Unmoved DEF Out
<1>3. CASE e = [r |-> Out([q EXCEPT !.unb = TRUE], "HOTSTART_STOPPED_UNBOUNDEDNESS"), x |-> NoExchange]
  <2> DEFINE p == [q EXCEPT !.unb = TRUE]
  <2>1. Moved(q, p)
    BY DEF Moved, Good, QPs, Agreeing
  <2>2. e = [r |-> Out(p, "HOTSTART_STOPPED_UNBOUNDEDNESS"), x |-> NoExchange]
    BY <1>3, Zenon
  <2> HIDE DEF p
  <2> QED BY <2>1, <2>2 DEF Outcome, Out
<1>4. ASSUME NEW x \in {NoExchange} \cup InTheWay(q, i), e = [r |-> Out(q, "OK"), x |-> x]
      PROVE  Outcome(q, e.r) /\ e.r.q = q /\ (e.x # NoExchange => e.x.i \in Idx /\ e.x.s \in Held)
  <2>1. e.r = Out(q, "OK") /\ e.x = x
    BY <1>4
  <2>2. x # NoExchange => x.i \in Idx /\ x.s \in Held
    BY DEF InTheWay, Opposite, Held
  <2> QED BY <2>1, <2>2, Unmoved DEF Out
<1> QED BY <1>1, <1>2, <1>3, <1>4

LEMMA ThenMoves ==
  ASSUME NEW q, NEW u, NEW r, Outcome(q, u), u.ret = "OK", Outcome(u.q, r)
  PROVE  Outcome(q, r)
  BY MovedTrans DEF Outcome, Quiet

LEMMA RemoveConstraintMoves ==
  ASSUME NEW q, Good(q), NEW i \in Idx, NEW chol, NEW flip, NEW nzc, NEW r \in RemoveConstraint(q, i, chol, flip, nzc)
  PROVE  Outcome(q, r)
<1>1. CASE ~Busy(q) \/ i \notin q.held
  BY <1>1, Unmoved DEF RemoveConstraint
<1>2. CASE Busy(q) /\ i \in q.held /\ ~nzc
  BY <1>2, TakeOutMoves DEF RemoveConstraint
<1>3. CASE Busy(q) /\ i \in q.held /\ nzc
  <2>1. PICK e \in EnsureNonzeroCurvature(q, i) :
          r \in IF e.r.ret # "OK" THEN {e.r}
                ELSE IF e.x = NoExchange THEN TakeOutConstraint(e.r.q, i, chol, flip, FALSE)
                ELSE UNION {IF u.ret = "OK" THEN Ignoring(Add(u.q, e.x.i, e.x.s, FALSE)) ELSE {u}
                             : u \in TakeOutConstraint(e.r.q, i, chol, flip, TRUE)}
    BY <1>3 DEF RemoveConstraint, Then
  <2>2. CASE e.r.ret # "OK"
    BY <2>1, <2>2, Exchanges
  <2>3. CASE e.r.ret = "OK" /\ e.x = NoExchange
    <3>1. e.r.q = q
      BY <2>3, Exchanges
    <3>2. r \in TakeOutConstraint(q, i, chol, flip, FALSE)
      BY <2>1, <2>3, <3>1
    <3> QED BY <1>3, <3>2, TakeOutMoves
  <2>4. CASE e.r.ret = "OK" /\ e.x # NoExchange
    <3>1. e.r.q = q /\ e.x.i \in Idx /\ e.x.s \in Held
      BY <2>4, Exchanges
    <3>2. PICK u \in TakeOutConstraint(q, i, chol, flip, TRUE) :
            r \in IF u.ret = "OK" THEN Ignoring(Add(u.q, e.x.i, e.x.s, FALSE)) ELSE {u}
      BY <2>1, <2>4, <3>1
    <3>3a. Outcome(q, u)
      BY <1>3, TakeOutMoves
    <3>3. Outcome(q, u) /\ Good(u.q)
      BY <3>3a DEF Outcome, Moved
    <3>4. CASE u.ret # "OK"
      BY <3>2, <3>3, <3>4
    <3>5. CASE u.ret = "OK"
      <4>1. PICK v \in Add(u.q, e.x.i, e.x.s, FALSE) : r = Out(v.q, "OK")
        BY <3>2, <3>5 DEF Ignoring
      <4>2. Outcome(u.q, Out(v.q, "OK"))
        BY <3>1, <3>3, AddUntested
      <4> QED BY <3>3, <3>5, <4>1, <4>2, ThenMoves
    <3> QED BY <3>4, <3>5
  <2> QED BY <2>2, <2>3, <2>4
<1> QED BY <1>1, <1>2, <1>3

(* removeBound() completes an exchange where it updates the factor.        *)
BoundExchanged(p, chol, x) ==
  IF Curved(p, chol) THEN Ignoring(Add(p, x.i, x.s, FALSE)) ELSE {Out(p, "OK")}

LEMMA RemoveBoundMoves ==
  ASSUME NEW q, Good(q), NEW i \in Idx, NEW chol, NEW flip, NEW nzc, flip => q.opt.drop \/ i \in q.held,
         NEW r \in RemoveBound(q, i, chol, flip, nzc)
  PROVE  Outcome(q, r)
<1>1. CASE ~Busy(q) \/ q.st[i] = "INACTIVE"
  BY <1>1, Unmoved DEF RemoveBound
<1>2. CASE Busy(q) /\ q.st[i] # "INACTIVE" /\ ~nzc
  BY <1>2, TakeOutMoves DEF RemoveBound
<1>3. CASE Busy(q) /\ q.st[i] # "INACTIVE" /\ nzc
  <2>1. PICK e \in EnsureNonzeroCurvature(q, i) :
          r \in IF e.r.ret # "OK" THEN {e.r}
                ELSE IF e.x = NoExchange THEN TakeOutBound(e.r.q, i, chol, flip, FALSE)
                ELSE UNION {IF u.ret = "OK" THEN BoundExchanged(u.q, chol, e.x) ELSE {u}
                             : u \in TakeOutBound(e.r.q, i, chol, flip, TRUE)}
    BY <1>3 DEF RemoveBound, Then, BoundExchanged
  <2>2. CASE e.r.ret # "OK"
    BY <2>1, <2>2, Exchanges
  <2>3. CASE e.r.ret = "OK" /\ e.x = NoExchange
    <3>1. e.r.q = q
      BY <2>3, Exchanges
    <3>2. r \in TakeOutBound(q, i, chol, flip, FALSE)
      BY <2>1, <2>3, <3>1
    <3> QED BY <1>3, <3>2, TakeOutMoves
  <2>4. CASE e.r.ret = "OK" /\ e.x # NoExchange
    <3>1. e.r.q = q /\ e.x.i \in Idx /\ e.x.s \in Held
      BY <2>4, Exchanges
    <3>2. PICK u \in TakeOutBound(q, i, chol, flip, TRUE) :
            r \in IF u.ret = "OK" THEN BoundExchanged(u.q, chol, e.x) ELSE {u}
      BY <2>1, <2>4, <3>1
    <3>3a. Outcome(q, u)
      BY <1>3, TakeOutMoves
    <3>3. Outcome(q, u) /\ Good(u.q)
      BY <3>3a DEF Outcome, Moved
    <3>4. CASE u.ret # "OK"
      BY <3>2, <3>3, <3>4
    <3>5. CASE u.ret = "OK"
      <4>1. Outcome(u.q, r)
        BY <3>1, <3>2, <3>3, <3>5, AddUntested, Unmoved DEF BoundExchanged, Ignoring
      <4> QED BY <3>3, <3>5, <4>1, ThenMoves
    <3> QED BY <3>4, <3>5
  <2> QED BY <2>2, <2>3, <2>4
<1> QED BY <1>1, <1>2, <1>3

LEMMA RemoveMoves ==
  ASSUME NEW q, Good(q), NEW i \in Idx, NEW chol, NEW flip, NEW nzc, flip => q.opt.drop \/ i \in q.held,
         NEW r \in Remove(q, i, chol, flip, nzc)
  PROVE  Outcome(q, r)
  BY RemoveBoundMoves, RemoveConstraintMoves DEF Remove

(* What may block a step.                                                  *)
LEMMA Blocking ==
  ASSUME NEW q, Good(q), NEW I \in SUBSET Idx, NEW b \in Blocks(q, I)
  PROVE  /\ b.i \in Idx /\ b.s \in Held \cup {"INACTIVE"}
         /\ b.s = "INACTIVE" <=> b.i \in q.held
         /\ b.s = "INACTIVE" => q.type[b.i] # "EQUALITY"
  BY DEF Blocks, Held, Good, QPs

LEMMA ChangeMoves ==
  ASSUME NEW q, Good(q), NEW I \in SUBSET Idx, NEW b \in Blocks(q, I), NEW r \in ChangeActiveSet(q, b)
  PROVE  Outcome(q, r)
<1>1. CASE b.s = "INACTIVE"
  <2>1. PICK u \in Remove(q, b.i, TRUE, TRUE, q.opt.nzc) : r = u \/ r = Out(u.q, "REMOVE_FROM_ACTIVESET_FAILED")
    BY <1>1 DEF ChangeActiveSet
  <2>2. Outcome(q, u)
    BY <1>1, Blocking, RemoveMoves
  <2> QED BY <2>1, <2>2 DEF Outcome, Out
<1>2. CASE b.s # "INACTIVE"
  <2>1. PICK u \in Add(q, b.i, b.s, TRUE) : r = u \/ r = Out(u.q, "ADD_TO_ACTIVESET_FAILED")
    BY <1>2 DEF ChangeActiveSet
  <2>2. Outcome(q, u)
    BY <1>2, Blocking, AddMoves DEF Statuses
  <2> QED BY <2>1, <2>2 DEF Outcome, Out
<1> QED BY <1>1, <1>2

LEMMA ChangeBMoves ==
  ASSUME NEW q, Good(q), NEW b \in Blocks(q, Vars), NEW r \in ChangeActiveSetB(q, b)
  PROVE  Outcome(q, r)
<1>1. /\ b.i \in Idx /\ b.s \in Held \cup {"INACTIVE"}
      /\ b.s = "INACTIVE" <=> b.i \in q.held
  <2>1. Vars \in SUBSET Idx
    BY DEF Idx
  <2> QED BY <2>1, Blocking
<1>2. CASE b.s = "INACTIVE"
  <2> DEFINE p == Leave(q, b.i)
             f == Flipped(q, b.i)
             ps == [p EXCEPT !.hess = "SEMIDEF"]
             fs == [f EXCEPT !.hess = "SEMIDEF"]
  <2>1. PICK u \in RemoveBoundB(q, b.i) : r = u \/ r = Out(u.q, "REMOVE_FROM_ACTIVESET_FAILED")
    BY <1>2 DEF ChangeActiveSetB
  <2>2. /\ Moved(q, p) /\ Quiet(q, p) /\ Moved(q, f) /\ Quiet(q, f) /\ Good(p) /\ Good(f)
    BY <1>1, <1>2, LeaveMoves, FlippedMoves DEF Moved
  <2>3. Moved(p, ps) /\ Quiet(p, ps) /\ Moved(f, fs) /\ Quiet(f, fs)
    <3> HIDE DEF p, f
    <3> QED BY <2>2, HessMoves DEF HessianTypes
  <2>4. Moved(q, ps) /\ Quiet(q, ps) /\ Moved(q, fs) /\ Quiet(q, fs)
    <3> HIDE DEF p, f, ps, fs
    <3> QED BY <2>2, <2>3, MovedTrans DEF Quiet
  <2>5. u \in {Out(q, "UNKNOWN_BUG"), Out(p, "OK"), Out(f, "OK"), Out(p, "REMOVEBOUND_FAILED"), Out(fs, "OK"),
               Out(ps, "HESSIAN_NOT_SPD")}
    BY DEF RemoveBoundB, BacksolveR
  <2> HIDE DEF p, f, ps, fs
  <2>6. Outcome(q, u)
    BY <2>2, <2>4, <2>5, Unmoved DEF Outcome, Out
  <2> QED BY <2>1, <2>6 DEF Outcome, Out
<1>3. CASE b.s # "INACTIVE"
  <2>1. PICK u \in AddBoundB(q, b.i, b.s) : r = u \/ r = Out(u.q, "ADD_TO_ACTIVESET_FAILED")
    BY <1>3 DEF ChangeActiveSetB
  <2>2. Outcome(q, Out(Enter(q, b.i, b.s), "OK"))
    BY <1>1, <1>3, EnterMoves DEF Outcome, Out, Statuses
  <2>3. Outcome(q, u)
    BY <2>2, Unmoved DEF AddBoundB
  <2> QED BY <2>1, <2>3 DEF Outcome, Out
<1> QED BY <1>2, <1>3

-----------------------------------------------------------------------------
(* The inductive invariant.                                                *)

Stages == {"none", "failed", "done", "removeC", "removeB", "equalB", "equalC", "addB", "addC", "infinite", "fixed"}
IsCall(l) ==
  /\ l \in [call : {"none", "init", "hotstart", "matrices"}, calls : Nat, start : AllStarts, kind : [Idx -> AllKinds],
            wrong : SUBSET Idx, aux : [Idx -> Statuses], alias : SUBSET Idx, stage : Stages, afresh : BOOLEAN,
            i : Nat \ {0}, fullLI : BOOLEAN, try : {0, 1}, was : SUBSET Idx, iter : Nat, max : Nat, first : Nat,
            far : Nat, step : Nat, ret : {l.ret}]
  /\ l.iter <= l.max /\ l.far <= MaxFar

Guessing(q, l) == q.opt.drop \/ \A i \in Idx : l.aux[i] \in Known
ObjectOK ==
  /\ use \in UseRecords
  /\ Good(qp) /\ qp.opt.drop = use.opt.drop /\ qp.opt.steps \in Nat /\ loc.step <= qp.opt.steps
  /\ IsCall(loc) /\ Guessing(qp, loc)
  /\ pc = "workingset" /\ loc.stage # "failed" => \A i \in Idx \ loc.alias : loc.aux[i] # "UNDEFINED"

(* There are iterations left.                                              *)
IterationsLeft == loc.max > 0 => loc.iter < loc.max
AtSolution == qp.qps = "SOLVED" /\ ~qp.inf /\ ~qp.unb
FlowOK ==
  /\ pc \in {"initial", "workingset", "hotstart"} => loc.iter = 0
  /\ pc \in {"solve", "activities"} => IterationsLeft
  /\ pc = "iterate" => /\ ~qp.inf /\ ~qp.unb /\ loc.first <= loc.iter
                       /\ IF loc.iter = loc.first THEN IterationsLeft ELSE qp.qps = "HOMOTOPYQPSOLVED"
  /\ pc \in {"solved", "far"} =>
       /\ loc.ret = "OK" => AtSolution
       /\ IF loc.ret = "MAX_NWSR_REACHED" THEN loc.max > 0 => qp.qps = "HOMOTOPYQPSOLVED" /\ ~qp.inf
          ELSE IterationsLeft
  /\ pc = "end" =>
       /\ loc.ret = "OK" => AtSolution \/ (loc.wrong # {} /\ qp.inf)
       /\ loc.ret = "MAX_NWSR_REACHED" /\ loc.max > 0 => Startable(qp)
  /\ SuccessMeansSolved /\ UsableAtTheLimit
Inv == ObjectOK /\ FlowOK

-----------------------------------------------------------------------------
(* What the steps of a call do to an object.                               *)

(* p has the flags of q, and the options that its use is about.            *)
Kept(q, p) ==
  /\ Good(p) /\ p.opt.drop = q.opt.drop /\ p.opt.steps = q.opt.steps
  /\ p.inf = q.inf /\ p.unb = q.unb

LEMMA KeptTrans ==
  ASSUME NEW q, NEW p, NEW o, Kept(q, p), Kept(p, o)
  PROVE  Kept(q, o)
  BY DEF Kept

LEMMA KeptRefl ==
  ASSUME NEW q, Good(q)
  PROVE  Kept(q, q)
  BY DEF Kept

LEMMA FactoredKept ==
  ASSUME NEW q, NEW p, Factored(q, p)
  PROVE  Kept(q, p) /\ p.qps = q.qps
  BY DEF Kept, Factored

LEMMA MovedKept ==
  ASSUME NEW q, NEW p, Moved(q, p), Quiet(q, p)
  PROVE  Kept(q, p) /\ p.qps = q.qps
  BY DEF Kept, Moved, Quiet

LEMMA PhaseKept ==
  ASSUME NEW q, Good(q), NEW s \in QPStatuses
  PROVE  Kept(q, [q EXCEPT !.qps = s]) /\ [q EXCEPT !.qps = s].qps = s
  BY DEF Kept, Good, QPs, Agreeing

LEMMA DataKept ==
  ASSUME NEW q, Good(q), NEW d \in [Idx -> AllKinds \cup {"unknown"}]
  PROVE  Kept(q, [q EXCEPT !.data = d]) /\ [q EXCEPT !.data = d].qps = q.qps
  BY DEF Kept, Good, QPs, Agreeing

LEMMA TypesKept ==
  ASSUME NEW q, Good(q), NEW kind, NEW I, NEW u \in WithTypes(q, kind, I)
  PROVE  Kept(q, u) /\ u.qps = q.qps /\ u.held = q.held /\ u.st = q.st /\ u.hess = q.hess
<1>1. PICK t \in [Idx -> Types] : u = [q EXCEPT !.type = t]
  BY DEF WithTypes
<1> QED BY <1>1 DEF Kept, Good, QPs, Agreeing

LEMMA SubjectToTypesKept ==
  ASSUME NEW q, Good(q), NEW kind
  PROVE  /\ \A u \in SetupSubjectToType(q, kind) : Kept(q, u) /\ u.qps = q.qps /\ u.held = q.held /\ u.st = q.st
         /\ \A u \in SetupSubjectToTypeB(q, kind) : Kept(q, u) /\ u.qps = q.qps /\ u.held = q.held /\ u.st = q.st
  BY TypesKept DEF SetupSubjectToType, SetupSubjectToTypeB

LEMMA AllInactiveKept ==
  ASSUME NEW q, Good(q)
  PROVE  /\ Kept(q, AllInactive(q)) /\ AllInactive(q).qps = q.qps
         /\ AllInactive(q).held = {} /\ \A i \in Idx : AllInactive(q).st[i] = "INACTIVE"
<1> DEFINE p == AllInactive(q)
<1>1. /\ p \in QPs /\ p.held = {} /\ p.st = [i \in Idx |-> "INACTIVE"]
      /\ p.opt = q.opt /\ p.inf = q.inf /\ p.unb = q.unb /\ p.qps = q.qps
  BY DEF AllInactive, Good, QPs, Statuses
<1> QED BY <1>1 DEF Kept, Good, Agreeing, Known, Held

LEMMA AllFreeKept ==
  ASSUME NEW q, Good(q)
  PROVE  /\ Kept(q, AllFree(q)) /\ AllFree(q).qps = q.qps
         /\ AllFree(q).held \cap Vars = {} /\ \A i \in Vars : AllFree(q).st[i] = "INACTIVE"
<1> DEFINE p == AllFree(q)
<1>1. /\ p \in QPs /\ p.held = q.held \ Vars
      /\ p.st = [i \in Idx |-> IF i \in Vars THEN "INACTIVE" ELSE q.st[i]]
      /\ p.opt = q.opt /\ p.inf = q.inf /\ p.unb = q.unb /\ p.qps = q.qps
  BY DEF AllFree, Good, QPs, Statuses
<1>2. Vars \subseteq Idx
  BY DEF Idx
<1> HIDE DEF p
<1>3. Agreeing(p)
  BY <1>1, <1>2 DEF Good, Agreeing, Known, Held
<1> QED BY <1>1, <1>2, <1>3 DEF Kept, Good, p

LEMMA WorkingSetBKept ==
  ASSUME NEW q, Good(q), NEW aux, NEW afresh \in BOOLEAN,
         \A i \in Vars : aux[i] \in Statuses /\ (q.opt.drop \/ aux[i] \in Known)
  PROVE  LET r == SetupAuxiliaryWorkingSetB(q, aux, afresh)
         IN  Kept(q, r.q) /\ r.q.qps = q.qps /\ (r.ret # "OK" => r.ret = "UNKNOWN_BUG")
<1>1. CASE \E i \in Vars : "UNDEFINED" \in {q.st[i], aux[i]}
  BY <1>1, KeptRefl DEF SetupAuxiliaryWorkingSetB, Out
<1>2. CASE \A i \in Vars : "UNDEFINED" \notin {q.st[i], aux[i]}
  <2> DEFINE kept == {i \in q.held : afresh \/ aux[i] = q.st[i]}
             added == {i \in Vars \ kept : aux[i] # "INACTIVE" /\ (i \in q.held \/ q.st[i] = "INACTIVE")}
             st == [i \in Idx |-> IF i \in added THEN aux[i] ELSE IF i \in q.held \ kept THEN "INACTIVE" ELSE q.st[i]]
             p == [q EXCEPT !.held = kept \cup added, !.st = st]
  <2>1. SetupAuxiliaryWorkingSetB(q, aux, afresh) = Out(p, "OK")
    BY <1>2 DEF SetupAuxiliaryWorkingSetB
  <2>2. kept \subseteq q.held /\ added \subseteq Vars /\ Vars \subseteq Idx /\ q.held \subseteq Idx /\ kept \cap added = {}
    BY DEF Idx, Good, QPs
  <2>3. st \in [Idx -> Statuses]
    BY DEF Good, QPs, Statuses
  <2>4. q.opt.drop \/ \A i \in added : st[i] \in Held
    BY <1>2, <2>2 DEF Known, Held
  <2>5. \A i \in Idx \ added : st[i] = IF i \in q.held \ kept THEN "INACTIVE" ELSE q.st[i]
    OBVIOUS
  <2> HIDE DEF kept, added, st
  <2>6. /\ p \in QPs /\ p.held = kept \cup added /\ p.st = st
        /\ p.opt = q.opt /\ p.inf = q.inf /\ p.unb = q.unb /\ p.qps = q.qps
    BY <2>2, <2>3 DEF Good, QPs
  <2>7. Agreeing(p)
    <3> HIDE DEF p
    <3> QED BY <2>2, <2>4, <2>5, <2>6 DEF Agreeing, Good, Known, Held
  <2>8. Kept(q, p) /\ p.qps = q.qps
    BY <2>6, <2>7 DEF Kept, Good
  <2> HIDE DEF p
  <2> QED BY <2>1, <2>8 DEF Out
<1> QED BY <1>1, <1>2

LEMMA QPboundsKept ==
  ASSUME NEW q, Good(q), NEW relax
  PROVE  /\ Kept(q, SetupAuxiliaryQPboundsB(q, relax)) /\ SetupAuxiliaryQPboundsB(q, relax).qps = q.qps
         /\ Kept(q, SetupAuxiliaryQPbounds(q, relax)) /\ SetupAuxiliaryQPbounds(q, relax).qps = q.qps
<1> DEFINE d == [i \in Idx |-> IF q.type[i] = "EQUALITY" THEN "equal" ELSE IF relax THEN "range" ELSE "unknown"]
<1>1. d \in [Idx -> AllKinds \cup {"unknown"}]
  BY DEF AllKinds
<1> HIDE DEF d
<1>2. Kept(q, [q EXCEPT !.data = d]) /\ [q EXCEPT !.data = d].qps = q.qps
  BY <1>1, DataKept
<1> QED BY <1>2 DEF SetupAuxiliaryQPbounds, SetupAuxiliaryQPboundsB, d

(* determineHessianType() may turn regularisation on.                      *)
LEMMA RegularisedOptions ==
  ASSUME NEW x \in OptionRecords
  PROVE  LET o == [x EXCEPT !.reg = TRUE, !.steps = 1]
         IN  o \in OptionRecords /\ o.drop = x.drop /\ o.steps = 1
<1> DEFINE y == [x EXCEPT !.reg = TRUE]
<1>1. y \in OptionRecords
  BY DEF OptionRecords
<1>2. [x EXCEPT !.reg = TRUE, !.steps = 1] = [y EXCEPT !.steps = 1]
  OBVIOUS
<1>3. y.drop = x.drop
  BY DEF OptionRecords
<1> HIDE DEF y
<1>4. /\ [y EXCEPT !.steps = 1] \in OptionRecords
      /\ [y EXCEPT !.steps = 1].drop = y.drop /\ [y EXCEPT !.steps = 1].steps = 1
  BY <1>1 DEF OptionRecords
<1> QED BY <1>2, <1>3, <1>4

LEMMA HessianTypeOutcome ==
  ASSUME NEW q, Good(q), q.opt.steps \in Nat, NEW H, NEW r \in DetermineHessianType(q, H)
  PROVE  /\ Good(r.q) /\ r.q.opt.drop = q.opt.drop /\ r.q.opt.steps \in Nat
         /\ r.q.qps = q.qps /\ r.q.held = q.held /\ r.q.st = q.st
<1> DEFINE Like(p) == /\ Good(p) /\ p.opt.drop = q.opt.drop /\ p.opt.steps \in Nat
                      /\ p.qps = q.qps /\ p.held = q.held /\ p.st = q.st
<1>1. ASSUME NEW h \in HessianTypes PROVE Like([q EXCEPT !.hess = h])
  BY DEF Good, QPs, Agreeing
<1>2. ASSUME NEW p, Like(p) PROVE Like(Regularising(p))
  <2> DEFINE o == [p.opt EXCEPT !.reg = TRUE, !.steps = 1]
             u == [p EXCEPT !.opt = o]
  <2>0. p.opt \in OptionRecords
    BY <1>2 DEF Good, QPs
  <2>1. o \in OptionRecords /\ o.drop = p.opt.drop /\ o.steps = 1
    BY <2>0, RegularisedOptions
  <2>2. Regularising(p) \in {p, u}
    BY Zenon DEF Regularising
  <2> HIDE DEF o
  <2>3. Like(u)
    BY <1>2, <2>1 DEF Good, QPs, Agreeing
  <2> QED BY <1>2, <2>2, <2>3
<1>3. Like(q)
  OBVIOUS
<1>4. Like(Regularising(q)) /\ Like(Regularising([q EXCEPT !.hess = "ZERO"]))
  <2>1. Like([q EXCEPT !.hess = "ZERO"])
    BY <1>1 DEF HessianTypes
  <2> HIDE DEF Like
  <2> QED BY <1>2, <1>3, <2>1
<1>5. Like([q EXCEPT !.hess = "IDENTITY"]) /\ Like([q EXCEPT !.hess = "POSDEF"]) /\ Like([q EXCEPT !.hess = "INDEF"])
  BY <1>1 DEF HessianTypes
<1>6. r.q \in {q, Regularising(q), Regularising([q EXCEPT !.hess = "ZERO"]), [q EXCEPT !.hess = "IDENTITY"],
               [q EXCEPT !.hess = "POSDEF"], [q EXCEPT !.hess = "INDEF"]}
  BY DEF DetermineHessianType, Out
<1>7. Like(r.q)
  <2> HIDE DEF Like
  <2> QED BY <1>3, <1>4, <1>5, <1>6
<1> QED BY <1>7

(* r comes from q, of which the types may have changed as well.            *)
Adapted(q, r) == Good(r.q) /\ r.q.opt = q.opt /\ r.q.qps = q.qps /\ r.ret # "MAX_NWSR_REACHED"

LEMMA OutcomeAdapted ==
  ASSUME NEW q, NEW r, Outcome(q, r)
  PROVE  Adapted(q, r) /\ Good(r.q)
  BY DEF Outcome, Moved, Adapted

LEMMA AdaptedTrans ==
  ASSUME NEW q, NEW u, NEW r, Adapted(q, u), Adapted(u.q, r)
  PROVE  Adapted(q, r)
  BY DEF Adapted

LEMMA UnadaptedGood ==
  ASSUME NEW q, Good(q), NEW ret, ret # "MAX_NWSR_REACHED"
  PROVE  Adapted(q, Out(q, ret))
  BY Unmoved, OutcomeAdapted

LEMMA UnholdAdapted ==
  ASSUME NEW q, Good(q), NEW l, NEW i \in Idx, NEW r \in Unhold(q, l, i)
  PROVE  Adapted(q, r)
<1> DEFINE drop(p, s) == IF p.st[i] = s /\ Aux(p, l, i) # s THEN Remove(p, i, ~l.afresh, FALSE, p.opt.nzc)
                         ELSE {Out(p, "OK")}
<1>1. ASSUME NEW p, Good(p), NEW s, NEW u \in drop(p, s) PROVE Adapted(p, u)
  BY <1>1, RemoveMoves, OutcomeAdapted, UnadaptedGood
<1>2. PICK u \in drop(q, "LOWER") : r \in IF u.ret = "OK" THEN drop(u.q, "UPPER") ELSE {u}
  BY DEF Unhold, Then
<1> HIDE DEF drop
<1>3. Adapted(q, u) /\ Good(u.q)
  BY <1>1 DEF Adapted
<1> QED BY <1>1, <1>2, <1>3, AdaptedTrans

LEMMA WithdrawnAdapted ==
  ASSUME NEW q, Good(q), NEW kind, NEW i \in Idx, NEW r \in Withdrawn(q, kind, i)
  PROVE  Adapted(q, r)
<1> DEFINE drop(p, s) ==
             IF p.st[i] # s \/ kind = "equal" \/ (kind = "range" /\ p.opt.far) THEN {Out(p, "OK")}
             ELSE Remove(p, i, TRUE, FALSE, p.opt.nzc) \cup IF kind = "range" THEN {Out(p, "OK")} ELSE {}
<1>1. ASSUME NEW p, Good(p), NEW s, NEW u \in drop(p, s) PROVE Adapted(p, u)
  BY <1>1, RemoveMoves, OutcomeAdapted, UnadaptedGood
<1>2. PICK u \in drop(q, "LOWER") : r \in IF u.ret = "OK" THEN drop(u.q, "UPPER") ELSE {u}
  BY DEF Withdrawn, Then
<1> HIDE DEF drop
<1>3. Adapted(q, u) /\ Good(u.q)
  BY <1>1 DEF Adapted
<1> QED BY <1>1, <1>2, <1>3, AdaptedTrans

LEMMA NewEqualityAdapted ==
  ASSUME NEW q, Good(q), NEW i \in Idx, NEW r \in NewEquality(q, i)
  PROVE  Adapted(q, r)
<1>1. r = Out(q, "OK") \/ r \in AddBound(q, i, "LOWER", FALSE)
  BY DEF NewEquality
<1>2. "LOWER" \in Statuses /\ "LOWER" \in Held
  BY DEF Statuses, Held
<1> QED BY <1>1, <1>2, AddMoves, OutcomeAdapted, UnadaptedGood

LEMMA HoldEqualityAdapted ==
  ASSUME NEW q, Good(q), NEW l, NEW i \in Idx, NEW r \in HoldEquality(q, l, i)
  PROVE  Adapted(q, r)
<1>1. \/ r \in AddBound(q, i, "LOWER", ~l.afresh)
      \/ r \in AddConstraint(q, i, "LOWER", FALSE)
      \/ r = Out([q EXCEPT !.type[i] = "BOUNDED"], "OK")
  BY DEF HoldEquality
<1>2. "LOWER" \in Statuses /\ "LOWER" \in Held
  BY DEF Statuses, Held
<1>3. CASE r = Out([q EXCEPT !.type[i] = "BOUNDED"], "OK")
  <2> DEFINE p == [q EXCEPT !.type[i] = "BOUNDED"]
  <2>1. Good(p) /\ p.opt = q.opt /\ p.qps = q.qps
    BY DEF Good, QPs, Agreeing, Types
  <2>2. r = Out(p, "OK")
    BY <1>3
  <2> HIDE DEF p
  <2> QED BY <2>1, <2>2 DEF Adapted, Out
<1> QED BY <1>1, <1>2, <1>3, AddMoves, OutcomeAdapted

LEMMA HoldGuessAdapted ==
  ASSUME NEW q, Good(q), NEW l, NEW i \in Idx, Aux(q, l, i) \in Statuses, q.opt.drop \/ Aux(q, l, i) \in Held,
         NEW r \in HoldGuess(q, l, i)
  PROVE  Adapted(q, r)
<1>1. r = Out(q, "OK") \/ r \in Add(q, i, Aux(q, l, i), FALSE)
  BY DEF HoldGuess
<1> QED BY <1>1, AddMoves, OutcomeAdapted, UnadaptedGood

-----------------------------------------------------------------------------
LEMMA FreshGood ==
  ASSUME NEW o \in OptionRecords
  PROVE  /\ Good(FreshQP(o)) /\ FreshQP(o).opt = o /\ FreshQP(o).qps = "NOTINITIALISED" /\ FreshQP(o).held = {}
         /\ \A i \in Idx : FreshQP(o).st[i] = "UNDEFINED"
  BY DEF FreshQP, Good, QPs, Agreeing, Known, Held, Statuses, Types, HessianTypes, QPStatuses, AllKinds

LEMMA ConsistentOptions ==
  ASSUME NEW o \in OptionRecords
  PROVE  /\ EnsureConsistency(o) \in OptionRecords /\ EnsureConsistency(o).drop = o.drop
         /\ EnsureConsistency(o).steps \in Nat
<1> DEFINE a == [o EXCEPT !.drift = NonNegative(o.drift)]
           b == [a EXCEPT !.refactor = NonNegative(o.refactor)]
           c == [b EXCEPT !.steps = NonNegative(o.steps)]
           d == [c EXCEPT !.grows = TRUE]
<1>1. o.drift \in Int /\ o.refactor \in Int /\ o.steps \in Int
  BY DEF OptionRecords
<1>2. NonNegative(o.drift) \in Int /\ NonNegative(o.refactor) \in Int /\ NonNegative(o.steps) \in Nat
  BY <1>1 DEF NonNegative
<1>3. EnsureConsistency(o) = d
  BY DEF EnsureConsistency, OptionRecords
<1>4. a \in OptionRecords /\ a.drop = o.drop
  BY <1>2 DEF OptionRecords
<1> HIDE DEF a
<1>5. b \in OptionRecords /\ b.drop = o.drop
  BY <1>2, <1>4 DEF OptionRecords
<1> HIDE DEF b
<1>6. c \in OptionRecords /\ c.drop = o.drop /\ c.steps \in Nat
  BY <1>2, <1>5 DEF OptionRecords
<1> HIDE DEF c
<1>7. d \in OptionRecords /\ d.drop = o.drop /\ d.steps \in Nat
  BY <1>6 DEF OptionRecords
<1> QED BY <1>3, <1>7

LEMMA CopyGood ==
  ASSUME NEW q, Good(q), NEW rhs, Good(rhs), rhs.held = {}, \A i \in Idx : rhs.st[i] = "UNDEFINED"
  PROVE  LET p == Copy(q, rhs)
         IN  Good(p) /\ p.opt = rhs.opt /\ p.held = {} /\ \A i \in Idx : p.st[i] = "UNDEFINED"
<1> DEFINE h == (rhs.held \cap Vars) \cup (q.held \cap Cons)
           d == Merged(rhs.data, q.data)
           s == Merged(rhs.st, q.st)
           t == Merged(rhs.type, q.type)
           a == [rhs EXCEPT !.held = h, !.data = d, !.st = s, !.type = t]
           h2 == (h \cap Vars) \cup (rhs.held \cap Cons)
           d2 == Merged(d, rhs.data)
           s2 == Merged(s, rhs.st)
           t2 == Merged(t, rhs.type)
           p == [a EXCEPT !.held = h2, !.data = d2, !.st = s2, !.type = t2]
<1>1. /\ d \in [Idx -> AllKinds \cup {"unknown"}] /\ s \in [Idx -> Statuses] /\ t \in [Idx -> Types]
      /\ h \subseteq Idx
  BY DEF Merged, Good, QPs, Idx
<1>2. /\ d2 \in [Idx -> AllKinds \cup {"unknown"}] /\ t2 \in [Idx -> Types]
      /\ s2 = [i \in Idx |-> "UNDEFINED"] /\ h2 = {}
  <2>1. d2 \in [Idx -> AllKinds \cup {"unknown"}] /\ t2 \in [Idx -> Types]
    BY <1>1 DEF Merged, Good, QPs
  <2>2. s2 = [i \in Idx |-> "UNDEFINED"]
    BY DEF Merged
  <2>3. Vars \cap Cons = {}
    BY QProblemBAssumption DEF Vars, Cons
  <2>4. h2 = {}
    BY <2>3
  <2> QED BY <2>1, <2>2, <2>4
<1>3. Copy(q, rhs) = p
  <2>1. CopyB(q, rhs) = a
    BY DEF CopyB
  <2>2. a.held = h /\ a.data = d /\ a.st = s /\ a.type = t
    <3> HIDE DEF h, d, s, t
    <3> QED BY DEF Good, QPs
  <2> HIDE DEF a
  <2> QED BY <2>1, <2>2 DEF Copy
<1> HIDE DEF h, d, s, t, h2, d2, s2, t2
<1>4. a \in QPs /\ a.opt = rhs.opt
  BY <1>1 DEF Good, QPs
<1> HIDE DEF a
<1>5. p \in QPs /\ p.opt = rhs.opt /\ p.held = {} /\ p.st = [i \in Idx |-> "UNDEFINED"]
  BY <1>2, <1>4 DEF QPs, Statuses
<1> HIDE DEF p
<1>6. Good(p)
  BY <1>5 DEF Good, Agreeing, Known, Held
<1> QED BY <1>3, <1>5, <1>6

LEMMA Partition ==
  Vars \subseteq Idx /\ Cons \subseteq Idx /\ Vars \cap Cons = {} /\ 1 \in Idx /\ NV + NC \in Idx /\ 0 \notin Idx
  BY QProblemBAssumption DEF Vars, Cons, Idx

-----------------------------------------------------------------------------
(* The calls, up to the loop of solveQP().                                 *)

(* A call that is over.                                                    *)
LEMMA ReturnedCall ==
  ASSUME NEW l, IsCall(l), NEW ret, Return(l, ret)
  PROVE  /\ pc' = "idle" /\ IsCall(loc') /\ loc'.step = 0 /\ \A i \in Idx : loc'.aux[i] \in Known
         /\ loc'.call = l.call /\ loc'.wrong = l.wrong /\ loc'.max = l.max /\ loc'.ret = ret
<1>1. /\ loc' = [call |-> l.call, calls |-> l.calls, start |-> "cold", kind |-> [i \in Idx |-> "range"],
                 wrong |-> l.wrong, aux |-> [i \in Idx |-> "INACTIVE"], alias |-> {}, stage |-> "none",
                 afresh |-> TRUE, i |-> 1, fullLI |-> FALSE, try |-> 0, was |-> {}, iter |-> 0, max |-> l.max,
                 first |-> 0, far |-> l.far, step |-> 0, ret |-> ret]
      /\ pc' = "idle"
  BY DEF Return, NoCall
<1>2. IsCall(loc')
  BY <1>1 DEF IsCall, AllStarts, AllKinds, Statuses, Stages
<1> QED BY <1>1, <1>2 DEF Known

LEMMA ReturnInv ==
  ASSUME use \in UseRecords, use' = use, Good(qp'), qp'.opt.drop = use.opt.drop, qp'.opt.steps \in Nat,
         NEW l, IsCall(l), NEW ret, Return(l, ret),
         ret \in {"OK", "MAX_NWSR_REACHED"} => (SuccessMeansSolved /\ UsableAtTheLimit)'
  PROVE  Inv'
<1>1. /\ pc' = "idle" /\ IsCall(loc') /\ loc'.step = 0 /\ \A i \in Idx : loc'.aux[i] \in Known
      /\ loc'.ret = ret
  BY ReturnedCall
<1>2. ObjectOK'
  BY <1>1 DEF ObjectOK, Guessing
<1>3. FlowOK'
  BY <1>1 DEF FlowOK, SuccessMeansSolved, UsableAtTheLimit
<1> QED BY <1>2, <1>3 DEF Inv

LEMMA GotoObject ==
  ASSUME use \in UseRecords, use' = use, NEW where, NEW q, NEW l, Goto(where, q, l),
         Good(q), q.opt.drop = use.opt.drop, q.opt.steps \in Nat, l.step <= q.opt.steps,
         IsCall(l), Guessing(q, l),
         where # "workingset" \/ l.stage = "failed" \/ \A i \in Idx \ l.alias : l.aux[i] # "UNDEFINED"
  PROVE  ObjectOK'
  BY DEF Goto, ObjectOK

(* The local variables of a call.                                          *)
LEMMA CallFields ==
  ASSUME NEW l, IsCall(l)
  PROVE  /\ \A x : LET m == [l EXCEPT !.ret = x]
                   IN  IsCall(m) /\ m.step = l.step /\ m.aux = l.aux /\ m.iter = l.iter /\ m.max = l.max /\ m.ret = x
                         /\ m.wrong = l.wrong
         /\ \A n \in Nat : LET m == [l EXCEPT !.first = n]
                           IN  IsCall(m) /\ m.step = l.step /\ m.aux = l.aux /\ m.iter = l.iter /\ m.max = l.max
                                 /\ m.first = n
         /\ \A n \in Nat : LET m == [l EXCEPT !.step = n]
                           IN  IsCall(m) /\ m.step = n /\ m.aux = l.aux /\ m.iter = l.iter /\ m.max = l.max
                                 /\ m.ret = l.ret
         /\ \A n \in Nat : n <= l.max =>
              LET m == [l EXCEPT !.iter = n]
              IN  IsCall(m) /\ m.step = l.step /\ m.aux = l.aux /\ m.iter = n /\ m.max = l.max /\ m.first = l.first
         /\ \A n \in Nat : n <= MaxFar =>
              LET m == [l EXCEPT !.far = n]
              IN  IsCall(m) /\ m.step = l.step /\ m.aux = l.aux /\ m.iter = l.iter /\ m.max = l.max
<1>1. \A x : LET m == [l EXCEPT !.ret = x]
             IN  IsCall(m) /\ m.step = l.step /\ m.aux = l.aux /\ m.iter = l.iter /\ m.max = l.max /\ m.ret = x
                   /\ m.wrong = l.wrong
  BY DEF IsCall
<1>2. \A n \in Nat : LET m == [l EXCEPT !.first = n]
                     IN  IsCall(m) /\ m.step = l.step /\ m.aux = l.aux /\ m.iter = l.iter /\ m.max = l.max
                           /\ m.first = n
  BY DEF IsCall
<1>3. \A n \in Nat : LET m == [l EXCEPT !.step = n]
                     IN  IsCall(m) /\ m.step = n /\ m.aux = l.aux /\ m.iter = l.iter /\ m.max = l.max
                           /\ m.ret = l.ret
  BY DEF IsCall
<1>4. \A n \in Nat : n <= l.max =>
        LET m == [l EXCEPT !.iter = n]
        IN  IsCall(m) /\ m.step = l.step /\ m.aux = l.aux /\ m.iter = n /\ m.max = l.max /\ m.first = l.first
  BY DEF IsCall
<1>5. \A n \in Nat : n <= MaxFar =>
        LET m == [l EXCEPT !.far = n]
        IN  IsCall(m) /\ m.step = l.step /\ m.aux = l.aux /\ m.iter = l.iter /\ m.max = l.max
  BY DEF IsCall
<1> QED BY <1>1, <1>2, <1>3, <1>4, <1>5

LEMMA InitInv == ASSUME InitState PROVE Inv
<1>1. use \in UseRecords /\ use.opt \in OptionRecords
  BY QProblemBAssumption DEF InitState, UseRecords
<1>2. Good(qp) /\ qp.opt.drop = use.opt.drop /\ qp.opt.steps \in Nat
  BY <1>1, FreshGood, ConsistentOptions DEF InitState
<1>3. IsCall(loc) /\ loc.step = 0 /\ loc.call = "none" /\ loc.ret = "OK" /\ (\A i \in Idx : loc.aux[i] \in Known) /\ pc = "idle"
  BY QProblemBAssumption DEF InitState, NoCall, IsCall, AllStarts, AllKinds, Statuses, Stages, Known
<1>4. ObjectOK
  BY <1>1, <1>2, <1>3 DEF ObjectOK, Guessing
<1>5. FlowOK
  BY <1>3 DEF FlowOK, SuccessMeansSolved, UsableAtTheLimit
<1> QED BY <1>4, <1>5 DEF Inv

(* A call begins.                                                          *)
NewCall(l) ==
  /\ IsCall(l) /\ l.iter = 0 /\ l.step = 0 /\ (\A i \in Idx : l.aux[i] \in Held \cup {"INACTIVE"})

LEMMA CallsAreNew ==
  ASSUME ObjectOK, NEW call \in {"init", "hotstart", "matrices"}, NEW start \in AllStarts,
         NEW aux \in [Idx -> Held \cup {"INACTIVE"}], NEW l \in Calls(call, start, aux)
  PROVE  NewCall(l) /\ l.start = start /\ l.call = call
<1>1. PICK c \in Arguments : l = Called(call, start, aux, c)
  BY DEF Calls
<1>a. l = [call |-> call, calls |-> loc.calls + 1, start |-> start, kind |-> c.kind,
           wrong |-> c.wrong, aux |-> aux, alias |-> {}, stage |-> "none",
           afresh |-> TRUE, i |-> 1, fullLI |-> FALSE, try |-> 0, was |-> {}, iter |-> 0, max |-> c.max,
           first |-> 0, far |-> 0, step |-> 0, ret |-> "OK"]
  BY <1>1 DEF NoCall, Called
<1>2. c.kind \in [Idx -> AllKinds]
  BY DEF ObjectOK, UseRecords, Arguments
<1>3. c.max \in Nat /\ c.wrong \subseteq Idx
  BY Partition, QProblemBAssumption DEF Arguments
<1>4. loc.calls + 1 \in Nat
  BY DEF ObjectOK, IsCall
<1>5. aux \in [Idx -> Statuses]
  BY DEF Statuses
<1>6. IsCall(l)
  BY <1>a, <1>2, <1>3, <1>4, <1>5, QProblemBAssumption DEF IsCall, Stages
<1> QED BY <1>a, <1>6 DEF NewCall

LEMMA AliasedIsNew ==
  ASSUME NEW l, NewCall(l), NEW alias \in SUBSET Idx
  PROVE  NewCall([l EXCEPT !.alias = alias]) /\ [l EXCEPT !.alias = alias].start = l.start
  BY DEF NewCall, IsCall

LEMMA FileCallsAreNew ==
  ASSUME ObjectOK, NEW call \in {"init", "hotstart"}
  PROVE  NewCall([[NoCall EXCEPT !.calls = loc.calls + 1] EXCEPT !.call = call])
<1>1. ASSUME NEW n \in Nat PROVE NewCall([[NoCall EXCEPT !.calls = n] EXCEPT !.call = call])
  <2> DEFINE k == [NoCall EXCEPT !.calls = n]
             l == [k EXCEPT !.call = call]
  <2>1. IsCall(NoCall) /\ NoCall.iter = 0 /\ NoCall.step = 0 /\ NoCall.aux = [i \in Idx |-> "INACTIVE"]
    BY QProblemBAssumption DEF NoCall, IsCall, Stages, AllStarts, AllKinds, Statuses
  <2>2. IsCall(k) /\ k.iter = 0 /\ k.step = 0 /\ k.aux = [i \in Idx |-> "INACTIVE"]
    BY <2>1 DEF IsCall
  <2> HIDE DEF k
  <2>3. IsCall(l) /\ l.iter = 0 /\ l.step = 0 /\ l.aux = [i \in Idx |-> "INACTIVE"]
    BY <2>2 DEF IsCall
  <2> HIDE DEF l
  <2>4. NewCall(l)
    BY <2>3 DEF NewCall
  <2> QED BY <2>4 DEF l, k
<1>2. loc.calls + 1 \in Nat
  BY DEF ObjectOK, IsCall
<1> QED BY <1>1, <1>2

LEMMA NewCallGuesses ==
  ASSUME NEW l, NewCall(l), NEW q
  PROVE  Guessing(q, l) /\ \A i \in Idx : l.aux[i] # "UNDEFINED"
  BY DEF NewCall, Guessing, Known, Held

LEMMA ResetGood ==
  ASSUME ObjectOK
  PROVE  LET q == IF qp.qps = "NOTINITIALISED" THEN qp ELSE FreshQP(qp.opt)
         IN  Good(q) /\ q.opt = qp.opt
  BY FreshGood DEF ObjectOK, Good, QPs

(* init() before and after it has looked at the Hessian.                   *)
LEMMA InitGoes ==
  ASSUME ObjectOK, use' = use, NEW q, Good(q), q.opt = qp.opt, NEW l, NewCall(l), NEW H,
         \/ qp' = q /\ Return(l, "INVALID_ARGUMENTS")
         \/ \E r \in DetermineHessianType(q, H) :
              IF r.ret = "OK" THEN Goto("initial", r.q, l) ELSE qp' = r.q /\ Return(l, "INIT_FAILED")
  PROVE  Inv'
<1> USE DEF ObjectOK
<1>1. CASE qp' = q /\ Return(l, "INVALID_ARGUMENTS")
  <2>1. IsCall(l)
    BY DEF NewCall
  <2> QED BY <1>1, <2>1, ReturnInv
<1>2. ASSUME NEW r \in DetermineHessianType(q, H),
             IF r.ret = "OK" THEN Goto("initial", r.q, l) ELSE qp' = r.q /\ Return(l, "INIT_FAILED")
      PROVE  Inv'
  <2>1. Good(r.q) /\ r.q.opt.drop = use.opt.drop /\ r.q.opt.steps \in Nat
    BY HessianTypeOutcome
  <2>2. IsCall(l) /\ l.step = 0 /\ l.iter = 0 /\ Guessing(r.q, l)
    BY NewCallGuesses DEF NewCall
  <2>3. CASE r.ret = "OK"
    <3>1. Goto("initial", r.q, l)
      BY <1>2, <2>3
    <3>2. ObjectOK'
      BY <2>1, <2>2, <3>1, GotoObject
    <3>3. FlowOK'
      BY <2>2, <3>1 DEF Goto, FlowOK, SuccessMeansSolved, UsableAtTheLimit
    <3> QED BY <3>2, <3>3 DEF Inv
  <2>4. CASE r.ret # "OK"
    BY <1>2, <2>1, <2>2, <2>4, ReturnInv
  <2> QED BY <2>3, <2>4
<1> QED BY <1>1, <1>2

LEMMA InitBInv ==
  ASSUME Inv, NEW l, NewCall(l), NEW H, InitB(l, H)
  PROVE  Inv'
<1> DEFINE f == IF qp.qps = "NOTINITIALISED" THEN qp ELSE FreshQP(qp.opt)
           q == [f EXCEPT !.data = l.kind]
           a == [q EXCEPT !.data = qp.data]
           b == [q EXCEPT !.qps = "NOTINITIALISED"]
<1>1. ObjectOK
  BY DEF Inv
<1>2. \/ qp' = a /\ Return(l, "INVALID_ARGUMENTS")
      \/ \E r \in DetermineHessianType(b, H) :
           IF r.ret = "OK" THEN Goto("initial", r.q, l) ELSE qp' = r.q /\ Return(l, "INIT_FAILED")
  BY Zenon DEF InitB, SetupQPdataB, ResetB
<1>3. Good(f) /\ f.opt = qp.opt
  BY <1>1, ResetGood
<1>4. l.kind \in [Idx -> AllKinds \cup {"unknown"}] /\ qp.data \in [Idx -> AllKinds \cup {"unknown"}]
  BY <1>1 DEF NewCall, IsCall, ObjectOK, Good, QPs
<1> HIDE DEF f
<1>5. Good(q) /\ q.opt = qp.opt
  BY <1>3, <1>4 DEF Good, QPs, Agreeing
<1> HIDE DEF q
<1>6. Good(a) /\ a.opt = qp.opt /\ Good(b) /\ b.opt = qp.opt
  BY <1>4, <1>5 DEF Good, QPs, Agreeing, QPStatuses
<1> HIDE DEF a, b
<1>7. use' = use
  BY DEF InitB
<1> QED BY <1>1, <1>2, <1>6, <1>7, InitGoes

LEMMA InitQPInv ==
  ASSUME Inv, NEW l, NewCall(l), NEW H, Init_(l, H)
  PROVE  Inv'
<1> DEFINE f == IF qp.qps = "NOTINITIALISED" THEN qp ELSE FreshQP(qp.opt)
           q == [f EXCEPT !.data = l.kind]
           b == [q EXCEPT !.qps = "NOTINITIALISED"]
<1>1. ObjectOK
  BY DEF Inv
<1>2. \/ qp' = f /\ Return(l, "INVALID_ARGUMENTS")
      \/ \E r \in DetermineHessianType(b, H) :
           IF r.ret = "OK" THEN Goto("initial", r.q, l) ELSE qp' = r.q /\ Return(l, "INIT_FAILED")
  BY Zenon DEF Init_, SetupQPdata, SetupQPdataB, Reset, ResetB
<1>3. Good(f) /\ f.opt = qp.opt
  BY <1>1, ResetGood
<1>4. l.kind \in [Idx -> AllKinds \cup {"unknown"}]
  BY DEF NewCall, IsCall
<1> HIDE DEF f
<1>5. Good(q) /\ q.opt = qp.opt
  BY <1>3, <1>4 DEF Good, QPs, Agreeing
<1> HIDE DEF q
<1>6. Good(b) /\ b.opt = qp.opt
  BY <1>5 DEF Good, QPs, Agreeing, QPStatuses
<1> HIDE DEF b
<1>7. use' = use
  BY DEF Init_
<1> QED BY <1>1, <1>2, <1>3, <1>6, <1>7, InitGoes

(* A file cannot be read.                                                  *)
LEMMA FileInv ==
  ASSUME Inv, NEW l, NewCall(l),
         InitFromFileB(l) \/ InitFromFile(l) \/ HotstartFromFileB(l) \/ HotstartFromFile(l)
  PROVE  Inv'
<1> DEFINE f == IF qp.qps = "NOTINITIALISED" THEN qp ELSE FreshQP(qp.opt)
           a == [i \in Idx |-> IF i \in Vars THEN "unknown" ELSE f.data[i]]
           b == [i \in Idx |-> "unknown"]
<1>1. ObjectOK
  BY DEF Inv
<1>2. qp' = [f EXCEPT !.data = a] \/ qp' = [f EXCEPT !.data = b] \/ qp' = qp
  BY DEF InitFromFileB, InitFromFile, HotstartFromFileB, HotstartFromFile, SetupQPdataFromFileB,
         SetupQPdataFromFile, ResetB, Reset
<1>3. Good(f) /\ f.opt = qp.opt
  BY <1>1, ResetGood
<1> HIDE DEF f
<1>4. a \in [Idx -> AllKinds \cup {"unknown"}] /\ b \in [Idx -> AllKinds \cup {"unknown"}]
  BY <1>3 DEF Good, QPs
<1> HIDE DEF a, b
<1>5. Good([f EXCEPT !.data = a]) /\ [f EXCEPT !.data = a].opt = qp.opt
  BY <1>3, <1>4 DEF Good, QPs, Agreeing
<1>6. Good([f EXCEPT !.data = b]) /\ [f EXCEPT !.data = b].opt = qp.opt
  BY <1>3, <1>4 DEF Good, QPs, Agreeing
<1>7. Good(qp') /\ qp'.opt = qp.opt
  BY <1>1, <1>2, <1>5, <1>6 DEF ObjectOK
<1>8. use' = use /\ Return(l, "UNABLE_TO_READ_FILE")
  BY DEF InitFromFileB, InitFromFile, HotstartFromFileB, HotstartFromFile
<1>9. IsCall(l)
  BY DEF NewCall
<1> QED BY <1>1, <1>7, <1>8, <1>9, ReturnInv DEF ObjectOK

LEMMA SetHessianTypeInv ==
  ASSUME Inv, NEW h \in HessianTypes, SetHessianType(h)
  PROVE  Inv'
<1>1. /\ Good(qp') /\ qp'.opt = qp.opt /\ qp'.qps = qp.qps /\ qp'.inf = qp.inf /\ qp'.unb = qp.unb
  BY DEF Inv, ObjectOK, SetHessianType, Good, QPs, Agreeing
<1>2. use' = use /\ pc = "idle" /\ pc' = pc /\ loc' = loc
  BY DEF SetHessianType
<1>3. ObjectOK'
  BY <1>1, <1>2 DEF Inv, ObjectOK, Guessing
<1>4. FlowOK'
  BY <1>1, <1>2 DEF Inv, FlowOK, SuccessMeansSolved, UsableAtTheLimit, Startable, GetPrimalSolution, GetDualSolution,
     GetDualSolutionB, GetObjVal
<1> QED BY <1>3, <1>4 DEF Inv

LEMMA AssignInv ==
  ASSUME Inv, AssignNewQProblem
  PROVE  Inv'
<1> DEFINE o == EnsureConsistency(use.opt)
           f == FreshQP(o)
<1>1. use.opt \in OptionRecords /\ Good(qp)
  BY DEF Inv, ObjectOK, UseRecords
<1>2. o \in OptionRecords /\ o.drop = use.opt.drop /\ o.steps \in Nat
  BY <1>1, ConsistentOptions
<1>3. Good(f) /\ f.opt = o /\ f.held = {} /\ \A i \in Idx : f.st[i] = "UNDEFINED"
  BY <1>2, FreshGood
<1>4. qp' = Copy(qp, f) /\ loc' = [NoCall EXCEPT !.calls = loc.calls] /\ use' = use /\ pc = "idle" /\ pc' = pc
  BY DEF AssignNewQProblem, GetNewQProblem
<1> HIDE DEF o, f
<1>5. Good(qp') /\ qp'.opt = o
  BY <1>1, <1>3, <1>4, CopyGood
<1>6. IsCall(NoCall) /\ NoCall.step = 0 /\ NoCall.aux = [i \in Idx |-> "INACTIVE"] /\ NoCall.call = "none" /\ NoCall.ret = "OK"
  BY QProblemBAssumption DEF NoCall, IsCall, Stages, AllStarts, AllKinds, Statuses
<1>7. IsCall(loc') /\ loc'.step = 0 /\ loc'.aux = [i \in Idx |-> "INACTIVE"] /\ loc'.call = "none" /\ loc'.ret = "OK"
  BY <1>4, <1>6 DEF IsCall, Inv, ObjectOK
<1>8. ObjectOK'
  BY <1>2, <1>4, <1>5, <1>7 DEF Inv, ObjectOK, Guessing, Known
<1>9. FlowOK'
  BY <1>4, <1>7 DEF FlowOK, SuccessMeansSolved, UsableAtTheLimit
<1> QED BY <1>8, <1>9 DEF Inv

LEMMA AuxiliaryQPBKept ==
  ASSUME NEW q, Good(q), NEW l, NewCall(l), NEW r \in SetupAuxiliaryQPB(q, l.aux)
  PROVE  Kept(q, r.q)
<1> DEFINE p == [q EXCEPT !.qps = "PREPARINGAUXILIARYQP"]
           fresh == {SetupAuxiliaryWorkingSetB(AllFree(u), l.aux, TRUE).q : u \in SetupSubjectToTypeB(p, q.data)}
<1>1. Kept(q, p) /\ Good(p)
  BY PhaseKept DEF QPStatuses, Kept
<1>2. \A i \in Vars : l.aux[i] \in Statuses /\ l.aux[i] \in Known
  BY Partition DEF NewCall, Statuses, Known
<1>3. \/ \E v \in fresh : \E c \in ComputeCholesky(v) :
           r.q = SetupAuxiliaryQPboundsB(c.q, FALSE) \/ r.q = c.q
      \/ r.q = SetupAuxiliaryQPboundsB(SetupAuxiliaryWorkingSetB(p, l.aux, FALSE).q, FALSE)
  <2>1. r \in IF ShallRefactoriseB(q, l.aux)
              THEN {IF c.ret = "OK" THEN Out(SetupAuxiliaryQPboundsB(c.q, FALSE), "OK")
                    ELSE Out(c.q, "SETUP_AUXILIARYQP_FAILED") : c \in UNION {ComputeCholesky(u) : u \in fresh}}
              ELSE {Out(SetupAuxiliaryQPboundsB(SetupAuxiliaryWorkingSetB(p, l.aux, FALSE).q, FALSE), "OK")}
    BY DEF SetupAuxiliaryQPB
  <2> DEFINE w == SetupAuxiliaryQPboundsB(SetupAuxiliaryWorkingSetB(p, l.aux, FALSE).q, FALSE)
  <2> HIDE DEF p, fresh, w
  <2>2. CASE r = Out(w, "OK")
    BY <2>2 DEF Out, w
  <2>3. CASE ShallRefactoriseB(q, l.aux)
    <3>1. PICK c \in UNION {ComputeCholesky(u) : u \in fresh} :
            r = Out(SetupAuxiliaryQPboundsB(c.q, FALSE), "OK") \/ r = Out(c.q, "SETUP_AUXILIARYQP_FAILED")
      BY <2>1, <2>3
    <3>2. r.q = SetupAuxiliaryQPboundsB(c.q, FALSE) \/ r.q = c.q
      <4> DEFINE x == SetupAuxiliaryQPboundsB(c.q, FALSE)
      <4>1. r = Out(x, "OK") \/ r = Out(c.q, "SETUP_AUXILIARYQP_FAILED")
        BY <3>1
      <4> HIDE DEF x
      <4>2. r.q = x \/ r.q = c.q
        BY <4>1 DEF Out
      <4> QED BY <4>2 DEF x
    <3>3. PICK v \in fresh : c \in ComputeCholesky(v)
      OBVIOUS
    <3> QED BY <3>2, <3>3
  <2> QED BY <2>1, <2>2, <2>3 DEF w
<1>4. ASSUME NEW v \in fresh PROVE Kept(q, v)
  <2>1. PICK u \in SetupSubjectToTypeB(p, q.data) : v = SetupAuxiliaryWorkingSetB(AllFree(u), l.aux, TRUE).q
    OBVIOUS
  <2> HIDE DEF p, fresh
  <2>2. Kept(p, u) /\ Good(u)
    BY <1>1, SubjectToTypesKept DEF Kept
  <2>3. Kept(u, AllFree(u)) /\ Good(AllFree(u))
    BY <2>2, AllFreeKept DEF Kept
  <2>4. Kept(AllFree(u), v)
    BY <1>2, <2>1, <2>3, WorkingSetBKept
  <2> QED BY <1>1, <2>2, <2>3, <2>4, KeptTrans
<1> HIDE DEF p, fresh
<1>5. ASSUME NEW v \in fresh, NEW c \in ComputeCholesky(v), r.q = SetupAuxiliaryQPboundsB(c.q, FALSE) \/ r.q = c.q
      PROVE  Kept(q, r.q)
  <2>1. Kept(q, v) /\ Good(v)
    BY <1>4 DEF Kept
  <2>2. Kept(v, c.q) /\ Good(c.q)
    BY <2>1, CholeskyFactored, FactoredKept DEF Factorisation, Kept
  <2>3. Kept(c.q, SetupAuxiliaryQPboundsB(c.q, FALSE))
    BY <2>2, QPboundsKept
  <2> QED BY <1>5, <2>1, <2>2, <2>3, KeptTrans
<1>6. CASE r.q = SetupAuxiliaryQPboundsB(SetupAuxiliaryWorkingSetB(p, l.aux, FALSE).q, FALSE)
  <2> DEFINE w == SetupAuxiliaryWorkingSetB(p, l.aux, FALSE).q
  <2>1. Kept(p, w) /\ Good(w)
    BY <1>1, <1>2, WorkingSetBKept DEF Kept
  <2> HIDE DEF w
  <2>2. Kept(w, SetupAuxiliaryQPboundsB(w, FALSE))
    BY <2>1, QPboundsKept
  <2> QED BY <1>1, <1>6, <2>1, <2>2, KeptTrans DEF w
<1> QED BY <1>3, <1>5, <1>6

LEMMA HotstartBInv ==
  ASSUME Inv, NEW l, NewCall(l), HotstartB(l)
  PROVE  Inv'
<1>1. ObjectOK /\ use' = use /\ Good(qp)
  BY DEF Inv, HotstartB, ObjectOK
<1>2. IsCall(l) /\ l.step = 0 /\ l.iter = 0 /\ \A q : Guessing(q, l)
  BY NewCallGuesses DEF NewCall
<1>3. ASSUME NEW q, Kept(qp, q), Goto("hotstart", q, l) PROVE Inv'
  <2>1. ObjectOK'
    BY <1>1, <1>2, <1>3, GotoObject DEF ObjectOK, Kept
  <2>2. FlowOK'
    BY <1>2, <1>3 DEF Goto, FlowOK, SuccessMeansSolved, UsableAtTheLimit
  <2> QED BY <2>1, <2>2 DEF Inv
<1>4. CASE l.start = "cold"
  BY <1>1, <1>3, <1>4, KeptRefl DEF HotstartB
<1>5. CASE l.start # "cold"
  <2>1. PICK r \in SetupAuxiliaryQPB(qp, l.aux) :
          IF r.ret = "OK" THEN Goto("hotstart", [r.q EXCEPT !.qps = "AUXILIARYQPSOLVED"], l)
          ELSE qp' = r.q /\ Return(l, "SETUP_AUXILIARYQP_FAILED")
    BY <1>5 DEF HotstartB
  <2>2. Kept(qp, r.q)
    BY <1>1, AuxiliaryQPBKept
  <2>3. Kept(qp, [r.q EXCEPT !.qps = "AUXILIARYQPSOLVED"])
    <3>1. Good(r.q)
      BY <2>2 DEF Kept
    <3>2. Kept(r.q, [r.q EXCEPT !.qps = "AUXILIARYQPSOLVED"])
      BY <3>1, PhaseKept DEF QPStatuses
    <3> QED BY <2>2, <3>2, KeptTrans
  <2>4. CASE r.ret = "OK"
    BY <2>1, <2>3, <2>4, <1>3
  <2>5. CASE r.ret # "OK"
    <3>1. Good(qp') /\ qp'.opt.drop = use.opt.drop /\ qp'.opt.steps \in Nat /\ Return(l, "SETUP_AUXILIARYQP_FAILED")
      BY <1>1, <2>1, <2>2, <2>5 DEF Kept, ObjectOK
    <3> QED BY <1>1, <1>2, <3>1, ReturnInv DEF ObjectOK
  <2> QED BY <2>4, <2>5
<1> QED BY <1>4, <1>5

(* The object at the beginning of a loop over the indices.                 *)
Ready(q, l) ==
  /\ Good(q) /\ q.opt.drop = use.opt.drop /\ q.opt.steps \in Nat
  /\ IsCall(l) /\ l.step <= q.opt.steps /\ l.iter = 0 /\ Guessing(q, l)

LEMMA FixAllGood ==
  ASSUME NEW q, NEW l, Ready(q, l), TrivialWorkingSet(q, l), \A i \in Idx : Aux(q, l, i) # "UNDEFINED"
  PROVE  Kept(q, FixAll(q, l)) /\ FixAll(q, l).held = q.held \cup {i \in Vars : q.st[i] = "INACTIVE"}
<1> DEFINE I == {i \in Vars : q.st[i] = "INACTIVE"}
           st == [i \in Idx |-> IF i \in I THEN Aux(q, l, i) ELSE q.st[i]]
           p == [q EXCEPT !.held = q.held \cup I, !.st = st]
<1>1. I \subseteq Idx
  BY Partition
<1>2. st \in [Idx -> Statuses]
  BY DEF Aux, Ready, IsCall, Good, QPs
<1>3. \A i \in I : q.opt.drop \/ st[i] \in Held
  BY <1>1 DEF Aux, Ready, Guessing, TrivialWorkingSet, Known, Held
<1>4. \A i \in Idx \ I : st[i] = q.st[i]
  OBVIOUS
<1>5. FixAll(q, l) = p
  BY DEF FixAll, Ready, Good, QPs
<1> HIDE DEF I, st
<1>6. /\ p \in QPs /\ p.held = q.held \cup I /\ p.st = st /\ p.opt = q.opt /\ p.inf = q.inf /\ p.unb = q.unb
  BY <1>1, <1>2 DEF Ready, Good, QPs
<1> HIDE DEF p
<1>7. Agreeing(p)
  BY <1>1, <1>3, <1>4, <1>6 DEF Ready, Good, Agreeing, Known, Held
<1> QED BY <1>5, <1>6, <1>7 DEF Ready, Good, Kept, I

LEMMA NoFullTests ==
  ASSUME NEW q, Good(q), NEW b \in BOOLEAN
  PROVE  LET p == [q EXCEPT !.opt.fullLI = b]
         IN  Kept(q, p) /\ p.qps = q.qps /\ p.held = q.held /\ p.st = q.st /\ p.type = q.type
<1> DEFINE o == [q.opt EXCEPT !.fullLI = b]
           p == [q EXCEPT !.opt = o]
<1>1. q.opt \in OptionRecords
  BY DEF Good, QPs
<1>2. o \in OptionRecords /\ o.drop = q.opt.drop /\ o.steps = q.opt.steps
  BY <1>1 DEF OptionRecords
<1>3. [q EXCEPT !.opt.fullLI = b] = p
  BY DEF Good, QPs
<1> HIDE DEF o
<1>4. Kept(q, p) /\ p.qps = q.qps /\ p.held = q.held /\ p.st = q.st /\ p.type = q.type
  BY <1>2 DEF Kept, Good, QPs, Agreeing
<1> QED BY <1>3, <1>4

(* What becomes of the local variables.                                    *)
Refused(l, f) == [l EXCEPT !.stage = "failed", !.afresh = f]
Fixed(l, f, b) == [l EXCEPT !.stage = "done", !.afresh = f, !.fullLI = b]
Looping(l, f, b) ==
  [l EXCEPT !.stage = IF f THEN "equalB" ELSE "removeC", !.i = 1, !.afresh = f, !.fullLI = b]
Staged(l, m, s, f) ==
  /\ IsCall(m) /\ m.step = l.step /\ m.iter = l.iter /\ m.aux = l.aux /\ m.alias = l.alias
  /\ m.call = l.call /\ m.stage = s /\ m.afresh = f

LEMMA LoopCalls ==
  ASSUME NEW l, IsCall(l), NEW f \in BOOLEAN, NEW b \in BOOLEAN
  PROVE  /\ Staged(l, Refused(l, f), "failed", f) /\ Staged(l, Fixed(l, f, b), "done", f)
         /\ Staged(l, Looping(l, f, b), IF f THEN "equalB" ELSE "removeC", f)
<1>1. Staged(l, Refused(l, f), "failed", f)
  BY DEF Staged, IsCall, Refused, Stages
<1>2. Staged(l, Fixed(l, f, b), "done", f)
  BY DEF Staged, IsCall, Fixed, Stages
<1>3. Staged(l, Looping(l, f, b), IF f THEN "equalB" ELSE "removeC", f)
  <2> DEFINE s == IF f THEN "equalB" ELSE "removeC"
             m == [l EXCEPT !.stage = s]
             n == [m EXCEPT !.i = 1]
             o == [n EXCEPT !.afresh = f]
             p == [o EXCEPT !.fullLI = b]
  <2>1. s \in Stages
    BY DEF Stages
  <2>2. Looping(l, f, b) = p
    BY DEF Looping
  <2> HIDE DEF s
  <2>3. Staged(l, m, s, l.afresh)
    BY <2>1 DEF Staged, IsCall
  <2> HIDE DEF m
  <2>4. Staged(l, n, s, l.afresh)
    BY <2>3 DEF Staged, IsCall
  <2> HIDE DEF n
  <2>5. Staged(l, o, s, f)
    BY <2>4 DEF Staged, IsCall
  <2> HIDE DEF o
  <2>6. Staged(l, p, s, f)
    BY <2>5 DEF Staged, IsCall
  <2> QED BY <2>2, <2>6 DEF s
<1> QED BY <1>1, <1>2, <1>3

(* setupAuxiliaryWorkingSet() up to its loops.                             *)
LEMMA WorkingSetGoes ==
  ASSUME NEW q, NEW l, Ready(q, l), NEW fresh \in BOOLEAN, SetupAuxiliaryWorkingSet(q, l, fresh)
  PROVE  /\ pc' = "workingset" /\ Kept(q, qp') /\ \E s : Staged(l, loc', s, fresh)
         /\ \/ loc'.stage = "failed" /\ qp' = q
            \/ /\ \A i \in Idx : Aux(q, l, i) # "UNDEFINED"
               /\ loc'.stage = "done" /\ TrivialWorkingSet(q, l) /\ qp' = FixAll(q, l)
            \/ /\ \A i \in Idx : Aux(q, l, i) # "UNDEFINED"
               /\ loc'.stage = IF fresh THEN "equalB" ELSE "removeC"
               /\ qp' = [q EXCEPT !.opt.fullLI = FALSE]
<1> DEFINE b == q.opt.fullLI
<1>0. b \in BOOLEAN /\ IsCall(l) /\ Good(q)
  BY DEF Ready, Good, QPs, OptionRecords
<1>1. /\ pc' = "workingset"
      /\ \/ qp' = q /\ loc' = Refused(l, fresh)
         \/ /\ \A i \in Idx : Aux(q, l, i) # "UNDEFINED"
            /\ TrivialWorkingSet(q, l) /\ qp' = FixAll(q, l) /\ loc' = Fixed(l, fresh, b)
         \/ /\ \A i \in Idx : Aux(q, l, i) # "UNDEFINED"
            /\ qp' = [q EXCEPT !.opt.fullLI = FALSE] /\ loc' = Looping(l, fresh, b)
  BY Zenon DEF SetupAuxiliaryWorkingSet, Goto, Refused, Fixed, Looping
<1> HIDE DEF b
<1>2. /\ Staged(l, Refused(l, fresh), "failed", fresh) /\ Staged(l, Fixed(l, fresh, b), "done", fresh)
      /\ Staged(l, Looping(l, fresh, b), IF fresh THEN "equalB" ELSE "removeC", fresh)
  BY <1>0, LoopCalls
<1>3. Kept(q, q) /\ Kept(q, [q EXCEPT !.opt.fullLI = FALSE])
  BY <1>0, KeptRefl, NoFullTests
<1>4. CASE qp' = q /\ loc' = Refused(l, fresh)
  BY <1>1, <1>2, <1>3, <1>4, Zenon DEF Staged
<1>5. CASE /\ \A i \in Idx : Aux(q, l, i) # "UNDEFINED"
           /\ TrivialWorkingSet(q, l) /\ qp' = FixAll(q, l) /\ loc' = Fixed(l, fresh, b)
  <2>1. Kept(q, FixAll(q, l))
    BY <1>5, FixAllGood
  <2> QED BY <1>1, <1>2, <1>5, <2>1, Zenon DEF Staged
<1>6. CASE /\ \A i \in Idx : Aux(q, l, i) # "UNDEFINED"
           /\ qp' = [q EXCEPT !.opt.fullLI = FALSE] /\ loc' = Looping(l, fresh, b)
  BY <1>1, <1>2, <1>3, <1>6, Zenon DEF Staged
<1> QED BY <1>1, <1>4, <1>5, <1>6, Zenon

LEMMA WorkingSetInv ==
  ASSUME use \in UseRecords, use' = use, NEW q, NEW l, Ready(q, l), NEW fresh \in BOOLEAN,
         SetupAuxiliaryWorkingSet(q, l, fresh)
  PROVE  Inv'
<1>1. /\ pc' = "workingset" /\ Kept(q, qp') /\ \E s : Staged(l, loc', s, fresh)
      /\ loc'.stage = "failed" \/ \A i \in Idx : Aux(q, l, i) # "UNDEFINED"
  BY WorkingSetGoes, Zenon
<1>2. PICK s : Staged(l, loc', s, fresh)
  BY <1>1
<1>3. ObjectOK'
  BY <1>1, <1>2 DEF ObjectOK, Kept, Ready, Guessing, Staged, Aux
<1>4. FlowOK'
  BY <1>1, <1>2 DEF Staged, Ready, FlowOK, SuccessMeansSolved, UsableAtTheLimit
<1> QED BY <1>3, <1>4 DEF Inv

LEMMA HotstartInv ==
  ASSUME Inv, NEW l, NewCall(l), Hotstart(l)
  PROVE  Inv'
<1>1. ObjectOK /\ use' = use /\ use \in UseRecords /\ Good(qp)
  BY DEF Inv, Hotstart, ObjectOK
<1>2. IsCall(l) /\ l.step = 0 /\ l.iter = 0 /\ \A q : Guessing(q, l)
  BY NewCallGuesses DEF NewCall
<1>3. CASE l.start = "cold"
  <2>1. Goto("hotstart", qp, l)
    BY <1>3 DEF Hotstart
  <2>2. ObjectOK'
    BY <1>1, <1>2, <2>1, GotoObject DEF ObjectOK
  <2>3. FlowOK'
    BY <1>2, <2>1 DEF Goto, FlowOK, SuccessMeansSolved, UsableAtTheLimit
  <2> QED BY <2>2, <2>3 DEF Inv
<1>4. CASE l.start # "cold"
  <2> DEFINE p == [qp EXCEPT !.qps = "PREPARINGAUXILIARYQP"]
  <2>1. \/ \E u \in SetupSubjectToType(p, qp.data) : SetupAuxiliaryWorkingSet(AllInactive(u), l, TRUE)
        \/ SetupAuxiliaryWorkingSet(p, l, FALSE)
    BY <1>4, Zenon DEF Hotstart
  <2>2. Kept(qp, p) /\ Good(p)
    BY <1>1, PhaseKept DEF QPStatuses, Kept
  <2> HIDE DEF p
  <2>3. ASSUME NEW q, Kept(qp, q) PROVE Ready(q, l)
    BY <1>1, <1>2, <2>3 DEF Ready, Kept, ObjectOK
  <2>4. ASSUME NEW u \in SetupSubjectToType(p, qp.data), SetupAuxiliaryWorkingSet(AllInactive(u), l, TRUE)
        PROVE  Inv'
    <3>1. Kept(p, u) /\ Good(u)
      BY <2>2, SubjectToTypesKept DEF Kept
    <3>2. Kept(u, AllInactive(u))
      BY <3>1, AllInactiveKept
    <3>3. Ready(AllInactive(u), l)
      BY <2>2, <2>3, <3>1, <3>2, KeptTrans
    <3> QED BY <1>1, <2>4, <3>3, WorkingSetInv
  <2>5. ASSUME SetupAuxiliaryWorkingSet(p, l, FALSE) PROVE Inv'
    BY <1>1, <2>2, <2>3, <2>5, WorkingSetInv
  <2> QED BY <2>1, <2>4, <2>5, Zenon
<1> QED BY <1>3, <1>4

LEMMA TryInv ==
  ASSUME use \in UseRecords, use' = use, NEW q, NEW l, NEW old, Ready(q, l),
         q.opt.drop \/ \A i \in Idx : old[i] \in Known, TryWorkingSet(q, l, old)
  PROVE  Inv'
<1>1. PICK u \in SetupSubjectToType(q, l.kind), aux \in [Idx -> Statuses] :
         /\ \A i \in Idx : aux[i] \in OtherSide(u, old, l.was, i)
         /\ SetupAuxiliaryWorkingSet(AllInactive(u), [l EXCEPT !.aux = aux], TRUE)
  BY Zenon DEF TryWorkingSet
<1> DEFINE m == [l EXCEPT !.aux = aux]
<1>2. IsCall(m) /\ m.step = l.step /\ m.iter = l.iter /\ m.aux = aux
  BY DEF IsCall, Ready
<1>3. Kept(q, u) /\ Good(u)
  BY SubjectToTypesKept DEF Kept, Ready
<1>4. Kept(u, AllInactive(u))
  BY <1>3, AllInactiveKept
<1>5. Kept(q, AllInactive(u))
  BY <1>3, <1>4, KeptTrans
<1>6. q.opt.drop \/ \A i \in Idx : aux[i] \in Known
  BY <1>1 DEF OtherSide, Known
<1>7. SetupAuxiliaryWorkingSet(AllInactive(u), m, TRUE)
  BY <1>1
<1> HIDE DEF m
<1>8. Ready(AllInactive(u), m)
  BY <1>2, <1>5, <1>6 DEF Ready, Kept, Guessing
<1> QED BY <1>7, <1>8, WorkingSetInv

LEMMA NewHessianOutcome ==
  ASSUME NEW q, Good(q), q.opt.steps \in Nat, NEW H, NEW r \in NewHessian(q, H)
  PROVE  Good(r.q) /\ r.q.opt.drop = q.opt.drop /\ r.q.opt.steps \in Nat /\ r.q.qps = q.qps
<1>1. CASE H = "null"
  <2>1. r = Out(q, "NO_HESSIAN_SPECIFIED") \/ r = Out(q, "OK")
    BY <1>1, Zenon DEF NewHessian
  <2> QED BY <2>1 DEF Out
<1>2. CASE H # "null"
  <2> DEFINE p == [q EXCEPT !.hess = "UNKNOWN"]
             again(u) == IF u.hess \in {"ZERO", "SEMIDEF"} \/ u.reg
                         THEN RegulariseHessian([u EXCEPT !.reg = FALSE]) ELSE {Out(u, "OK")}
  <2>1. Good(p) /\ p.opt = q.opt /\ p.qps = q.qps
    BY HessMoves DEF HessianTypes, Moved
  <2>2. PICK d \in DetermineHessianType(p, H) : r \in IF d.ret = "OK" THEN again(d.q) ELSE {d}
    BY <1>2 DEF NewHessian, Then
  <2> HIDE DEF p
  <2>3. Good(d.q) /\ d.q.opt.drop = q.opt.drop /\ d.q.opt.steps \in Nat /\ d.q.qps = q.qps
    BY <2>1, HessianTypeOutcome
  <2> DEFINE o == [d.q EXCEPT !.reg = FALSE]
  <2>4. Factored(d.q, o) /\ Good(o)
    BY <2>3, FactoredFields DEF Factored
  <2>5. \/ r.q = d.q \/ r \in RegulariseHessian(o)
    <3>1. \/ r = d \/ r = Out(d.q, "OK") \/ r \in RegulariseHessian(o)
      BY <2>2, Zenon
    <3> HIDE DEF again, o
    <3> QED BY <3>1 DEF Out
  <2> HIDE DEF o
  <2>6. r \in RegulariseHessian(o) => Factored(d.q, r.q)
    BY <2>4, RegulariseFactored, FactoredTrans DEF Factorisation
  <2> QED BY <2>3, <2>5, <2>6 DEF Factored
<1> QED BY <1>1, <1>2

LEMMA HotstartMatricesInv ==
  ASSUME Inv, NEW l, NewCall(l), NEW H, HotstartMatrices(l, H)
  PROVE  Inv'
<1>1. ObjectOK /\ use' = use /\ use \in UseRecords /\ Good(qp) /\ qp.opt.steps \in Nat /\ qp.opt.drop = use.opt.drop
  BY DEF Inv, HotstartMatrices, ObjectOK
<1>2. IsCall(l) /\ l.step = 0 /\ l.iter = 0 /\ \A q : Guessing(q, l)
  BY NewCallGuesses DEF NewCall
<1>3. CASE ~Startable(qp)
  <2>1. qp' = qp /\ Return(l, "HOTSTART_FAILED_AS_QP_NOT_INITIALISED")
    BY <1>3 DEF HotstartMatrices
  <2> QED BY <1>1, <1>2, <2>1, ReturnInv
<1>4. CASE Startable(qp)
  <2> DEFINE p == [qp EXCEPT !.qps = "PREPARINGAUXILIARYQP"]
             m == [l EXCEPT !.was = {i \in Idx : qp.type[i] = "EQUALITY"}]
  <2>1. PICK r \in NewHessian(p, H) :
          IF r.ret # "OK" THEN qp' = r.q /\ Return(l, "SETUP_AUXILIARYQP_FAILED")
          ELSE TryWorkingSet(r.q, m, qp.st)
    BY <1>4, Zenon DEF HotstartMatrices
  <2>2. Kept(qp, p) /\ Good(p)
    BY <1>1, PhaseKept DEF QPStatuses, Kept
  <2>3. IsCall(m) /\ m.step = 0 /\ m.iter = 0 /\ m.aux = l.aux
    BY <1>2 DEF IsCall
  <2> HIDE DEF p, m
  <2>4. Good(r.q) /\ r.q.opt.drop = use.opt.drop /\ r.q.opt.steps \in Nat
    BY <1>1, <2>2, NewHessianOutcome DEF Kept
  <2>5. CASE r.ret # "OK"
    BY <1>1, <1>2, <2>1, <2>4, <2>5, ReturnInv
  <2>6. CASE r.ret = "OK"
    <3>1. Ready(r.q, m)
      BY <1>2, <2>3, <2>4 DEF Ready, Guessing
    <3>2. r.q.opt.drop \/ \A i \in Idx : qp.st[i] \in Known
      BY <1>1, <2>4 DEF Good, Agreeing
    <3> QED BY <1>1, <2>1, <2>6, <3>1, <3>2, TryInv
  <2> QED BY <2>5, <2>6
<1> QED BY <1>3, <1>4

LEMMA FinishMatricesInv ==
  ASSUME Inv, FinishMatrices
  PROVE  Inv'
<1>1. /\ ObjectOK /\ use' = use /\ use \in UseRecords /\ Good(qp) /\ qp.opt.steps \in Nat /\ qp.opt.drop = use.opt.drop
      /\ pc = "workingset" /\ IsCall(loc) /\ loc.step <= qp.opt.steps /\ loc.iter = 0 /\ Guessing(qp, loc)
  BY DEF Inv, FinishMatrices, ObjectOK, FlowOK
<1>2. CASE loc.stage = "failed"
  <2>1. qp' = qp /\ Return(loc, "SETUP_AUXILIARYQP_FAILED")
    BY <1>2 DEF FinishMatrices
  <2> QED BY <1>1, <2>1, ReturnInv
<1>3. CASE loc.stage # "failed"
  <2> DEFINE m == [loc EXCEPT !.try = 1]
  <2>1. PICK r \in ComputeProjectedCholesky(qp) :
          \/ NewAuxiliaryQP(r.q, loc)
          \/ TryWorkingSet(r.q, m, Again(r.q, loc))
    BY <1>3, Zenon DEF FinishMatrices
  <2>2. Kept(qp, r.q) /\ Good(r.q)
    BY <1>1, ProjectedCholeskyFactored, FactoredKept DEF Factorisation, Kept
  <2>3. Ready(r.q, loc)
    BY <1>1, <2>2 DEF Ready, Kept, Guessing
  <2>4. ASSUME NewAuxiliaryQP(r.q, loc) PROVE Inv'
    <3> DEFINE b == IF loc.try = 0 THEN r.q ELSE SetupAuxiliaryQPbounds(r.q, FALSE)
               q == [b EXCEPT !.qps = "AUXILIARYQPSOLVED"]
               l == [loc EXCEPT !.call = "hotstart"]
    <3>1. Goto("hotstart", q, l)
      BY <2>4, Zenon DEF NewAuxiliaryQP
    <3>2. Kept(r.q, b) /\ Good(b)
      <4>1. Kept(r.q, r.q) /\ Kept(r.q, SetupAuxiliaryQPbounds(r.q, FALSE))
        BY <2>2, KeptRefl, QPboundsKept
      <4> QED BY <4>1, Zenon DEF Kept
    <3> HIDE DEF b
    <3>3. Kept(b, q)
      BY <3>2, PhaseKept DEF QPStatuses
    <3>4. IsCall(l) /\ l.step = loc.step /\ l.iter = 0 /\ l.aux = loc.aux
      BY <1>1 DEF IsCall
    <3> HIDE DEF q, l
    <3>5. Kept(qp, q)
      BY <2>2, <3>2, <3>3, KeptTrans
    <3>6. ObjectOK'
      BY <1>1, <3>1, <3>4, <3>5, GotoObject DEF Kept, Guessing
    <3>7. FlowOK'
      BY <3>1, <3>4 DEF Goto, FlowOK, SuccessMeansSolved, UsableAtTheLimit
    <3> QED BY <3>6, <3>7 DEF Inv
  <2>5. ASSUME TryWorkingSet(r.q, m, Again(r.q, loc)) PROVE Inv'
    <3>1. IsCall(m) /\ m.step = loc.step /\ m.iter = 0 /\ m.aux = loc.aux
      BY <1>1 DEF IsCall
    <3> HIDE DEF m
    <3>2. Ready(r.q, m)
      BY <2>3, <3>1 DEF Ready, Guessing
    <3>3. r.q.opt.initial \in Known
      BY <2>2 DEF Good, QPs, OptionRecords, Known, Held
    <3>4. r.q.opt.drop \/ \A i \in Idx : Again(r.q, loc)[i] \in Known
      BY <2>3, <3>3 DEF Ready, Guessing, Again
    <3> QED BY <1>1, <2>5, <3>2, <3>4, TryInv
  <2> QED BY <2>1, <2>4, <2>5
<1> QED BY <1>2, <1>3

LEMMA ObtainedKnown ==
  ASSUME NEW q, Good(q), NEW l, Guessing(q, l), NEW i \in Idx
  PROVE  /\ \A s \in ObtainAuxiliaryB(q, l, i) : q.opt.drop \/ s \in Known
         /\ \A s \in ObtainAuxiliary(q, l, i) : q.opt.drop \/ s \in Known
<1>1. q.opt.initial \in Known
  BY DEF Good, QPs, OptionRecords, Known, Held
<1>2. \A s \in ObtainAuxiliaryB(q, l, i) : q.opt.drop \/ s \in Known
  BY <1>1 DEF ObtainAuxiliaryB, Guessing, Known, Held
<1> QED BY <1>2 DEF ObtainAuxiliary, Known, Held

(* The auxiliary QP is solved, and hotstart() is entered.                  *)
LEMMA HotstartBegins ==
  ASSUME ObjectOK, use' = use, loc.iter = 0, NEW q, Kept(qp, q),
         \/ Goto("hotstart", [SetupAuxiliaryQPboundsB(q, TRUE) EXCEPT !.chol = FALSE, !.qps = "AUXILIARYQPSOLVED"], loc)
         \/ Goto("hotstart", [SetupAuxiliaryQPbounds(q, TRUE) EXCEPT !.chol = FALSE, !.qps = "AUXILIARYQPSOLVED"], loc)
         \/ Goto("hotstart", [SetupAuxiliaryQPbounds(q, FALSE) EXCEPT !.qps = "AUXILIARYQPSOLVED"], loc)
  PROVE  Inv'
<1> DEFINE b == SetupAuxiliaryQPboundsB(q, TRUE)
           c == SetupAuxiliaryQPbounds(q, FALSE)
           x == [b EXCEPT !.chol = FALSE, !.qps = "AUXILIARYQPSOLVED"]
           y == [c EXCEPT !.qps = "AUXILIARYQPSOLVED"]
<1>1. Goto("hotstart", x, loc) \/ Goto("hotstart", y, loc)
  BY Zenon DEF SetupAuxiliaryQPbounds
<1>2. Kept(q, b) /\ Kept(q, c) /\ Good(b) /\ Good(c)
  BY QPboundsKept DEF Kept
<1> HIDE DEF b, c
<1>3. Kept(b, x) /\ Kept(c, y)
  <2>1. Kept(b, [b EXCEPT !.chol = FALSE]) /\ Good([b EXCEPT !.chol = FALSE])
    BY <1>2, FactoredFields, FactoredKept DEF Kept
  <2> DEFINE d == [b EXCEPT !.chol = FALSE]
  <2>2. x = [d EXCEPT !.qps = "AUXILIARYQPSOLVED"]
    OBVIOUS
  <2> HIDE DEF d, x
  <2>3. Kept(d, x)
    BY <2>1, <2>2, PhaseKept DEF QPStatuses, d
  <2>4. Kept(b, x)
    BY <2>1, <2>3, KeptTrans DEF d
  <2>5. Kept(c, y)
    BY <1>2, PhaseKept DEF QPStatuses
  <2> QED BY <2>4, <2>5
<1> HIDE DEF x, y
<1>4. Kept(qp, x) /\ Kept(qp, y)
  BY <1>2, <1>3, KeptTrans
<1>5. PICK z : Goto("hotstart", z, loc) /\ Kept(qp, z)
  BY <1>1, <1>4
<1>6. ObjectOK'
  BY <1>5, GotoObject DEF Kept, ObjectOK, Guessing
<1>7. FlowOK'
  BY <1>5 DEF Goto, FlowOK, SuccessMeansSolved, UsableAtTheLimit
<1> QED BY <1>6, <1>7 DEF Inv

LEMMA SolveInitialQPBInv ==
  ASSUME Inv, SolveInitialQPB
  PROVE  Inv'
<1>1. /\ ObjectOK /\ use' = use /\ use \in UseRecords /\ Good(qp) /\ qp.opt.steps \in Nat /\ qp.opt.drop = use.opt.drop
      /\ pc = "initial" /\ IsCall(loc) /\ loc.step <= qp.opt.steps /\ loc.iter = 0 /\ Guessing(qp, loc)
  BY DEF Inv, SolveInitialQPB, ObjectOK, FlowOK
<1> DEFINE P(u) == [u EXCEPT !.qps = "PREPARINGAUXILIARYQP"]
<1>2. PICK u \in SetupSubjectToTypeB(qp, loc.kind), aux \in [Vars -> Statuses] :
         /\ \A i \in Vars : aux[i] \in ObtainAuxiliaryB(AllFree(P(u)), loc, i)
         /\ LET ws == SetupAuxiliaryWorkingSetB(AllFree(P(u)), aux, TRUE)
            IN  IF ws.ret # "OK" THEN qp' = ws.q /\ Return(loc, "INIT_FAILED")
                ELSE \E r \in IF ws.q.hess \in {"ZERO", "SEMIDEF"} THEN RegulariseHessian(ws.q) ELSE {ws} :
                       IF r.ret # "OK" THEN qp' = r.q /\ Return(loc, "INIT_FAILED_REGULARISATION")
                       ELSE Goto("hotstart",
                                 [SetupAuxiliaryQPboundsB(r.q, TRUE) EXCEPT !.chol = FALSE,
                                                                            !.qps = "AUXILIARYQPSOLVED"], loc)
  BY Zenon DEF SolveInitialQPB
<1>3. Kept(qp, u) /\ Good(u)
  BY <1>1, SubjectToTypesKept DEF Kept
<1>4. Kept(u, P(u)) /\ Good(P(u))
  BY <1>3, PhaseKept DEF QPStatuses, Kept
<1> HIDE DEF P
<1> DEFINE q == AllFree(P(u))
           ws == SetupAuxiliaryWorkingSetB(q, aux, TRUE)
<1>5. Kept(P(u), q) /\ Good(q)
  BY <1>4, AllFreeKept DEF Kept
<1>6. Kept(qp, q)
  BY <1>3, <1>4, <1>5, KeptTrans
<1>7. \A i \in Vars : aux[i] \in Statuses /\ (q.opt.drop \/ aux[i] \in Known)
  <2>1. Guessing(q, loc)
    BY <1>1, <1>6 DEF Guessing, Kept
  <2> QED BY <1>2, <1>5, <2>1, ObtainedKnown, Partition
<1>8. \/ qp' = ws.q /\ Return(loc, "INIT_FAILED")
      \/ \E r : /\ r = ws \/ r \in RegulariseHessian(ws.q)
                /\ \/ qp' = r.q /\ Return(loc, "INIT_FAILED_REGULARISATION")
                   \/ Goto("hotstart", [SetupAuxiliaryQPboundsB(r.q, TRUE) EXCEPT !.chol = FALSE,
                                                                                  !.qps = "AUXILIARYQPSOLVED"], loc)
  BY <1>2, Zenon
<1> HIDE DEF q
<1>9. Kept(q, ws.q)
  BY <1>5, <1>7, WorkingSetBKept
<1> HIDE DEF ws
<1>10. Kept(qp, ws.q) /\ Good(ws.q)
  BY <1>6, <1>9, KeptTrans DEF Kept
<1>11. CASE qp' = ws.q /\ Return(loc, "INIT_FAILED")
  BY <1>1, <1>10, <1>11, ReturnInv DEF Kept
<1>12. ASSUME NEW r, r = ws \/ r \in RegulariseHessian(ws.q) PROVE Kept(qp, r.q) /\ Good(r.q)
  <2>1. Kept(ws.q, r.q)
    BY <1>10, <1>12, RegulariseFactored, FactoredKept, KeptRefl DEF Factorisation
  <2> QED BY <1>10, <2>1, KeptTrans DEF Kept
<1>13. ASSUME NEW r, r = ws \/ r \in RegulariseHessian(ws.q), qp' = r.q, Return(loc, "INIT_FAILED_REGULARISATION")
       PROVE  Inv'
  BY <1>1, <1>12, <1>13, ReturnInv DEF Kept
<1>14. ASSUME NEW r, r = ws \/ r \in RegulariseHessian(ws.q),
              Goto("hotstart", [SetupAuxiliaryQPboundsB(r.q, TRUE) EXCEPT !.chol = FALSE,
                                                                          !.qps = "AUXILIARYQPSOLVED"], loc)
       PROVE  Inv'
  BY <1>1, <1>12, <1>14, HotstartBegins
<1> QED BY <1>8, <1>11, <1>13, <1>14, Zenon

LEMMA SolveInitialQPInv ==
  ASSUME Inv, SolveInitialQP
  PROVE  Inv'
<1>1. /\ ObjectOK /\ use' = use /\ use \in UseRecords /\ Good(qp) /\ qp.opt.steps \in Nat /\ qp.opt.drop = use.opt.drop
      /\ pc = "initial" /\ IsCall(loc) /\ loc.step <= qp.opt.steps /\ loc.iter = 0 /\ Guessing(qp, loc)
  BY DEF Inv, SolveInitialQP, ObjectOK, FlowOK
<1> DEFINE P(u) == [u EXCEPT !.qps = "PREPARINGAUXILIARYQP"]
<1>2. PICK u \in SetupSubjectToType(qp, loc.kind), aux \in [Idx -> Statuses] :
         /\ \A i \in Idx : aux[i] \in ObtainAuxiliary(AllInactive(P(u)), loc, i)
         /\ \E r \in IF AllInactive(P(u)).hess \in {"ZERO", "SEMIDEF"} THEN RegulariseHessian(AllInactive(P(u)))
                     ELSE {Out(AllInactive(P(u)), "OK")} :
              IF r.ret # "OK" THEN qp' = r.q /\ Return(loc, "INIT_FAILED_REGULARISATION")
              ELSE SetupAuxiliaryWorkingSet(r.q, [loc EXCEPT !.aux = aux], TRUE)
  BY Zenon DEF SolveInitialQP
<1>3. Kept(qp, u) /\ Good(u)
  BY <1>1, SubjectToTypesKept DEF Kept
<1>4. Kept(u, P(u)) /\ Good(P(u))
  BY <1>3, PhaseKept DEF QPStatuses, Kept
<1> HIDE DEF P
<1> DEFINE q == AllInactive(P(u))
           m == [loc EXCEPT !.aux = aux]
<1>5. Kept(P(u), q) /\ Good(q)
  BY <1>4, AllInactiveKept DEF Kept
<1>6. Kept(qp, q)
  BY <1>3, <1>4, <1>5, KeptTrans
<1>7. q.opt.drop \/ \A i \in Idx : aux[i] \in Known
  <2>1. Guessing(q, loc)
    BY <1>1, <1>6 DEF Guessing, Kept
  <2> QED BY <1>2, <1>5, <2>1, ObtainedKnown
<1>8. PICK r : /\ r = Out(q, "OK") \/ r \in RegulariseHessian(q)
               /\ \/ qp' = r.q /\ Return(loc, "INIT_FAILED_REGULARISATION")
                  \/ SetupAuxiliaryWorkingSet(r.q, m, TRUE)
  BY <1>2, Zenon
<1>9. IsCall(m) /\ m.step = loc.step /\ m.iter = loc.iter /\ m.aux = aux
  BY <1>1 DEF IsCall
<1> HIDE DEF q, m
<1>10. Kept(q, r.q)
  BY <1>5, <1>8, RegulariseFactored, FactoredKept, KeptRefl DEF Factorisation, Out
<1>11. Kept(qp, r.q)
  BY <1>6, <1>10, KeptTrans
<1>12. Ready(r.q, m)
  BY <1>1, <1>6, <1>7, <1>9, <1>11 DEF Ready, Kept, Guessing
<1>13. ASSUME qp' = r.q, Return(loc, "INIT_FAILED_REGULARISATION") PROVE Inv'
  BY <1>1, <1>11, <1>13, ReturnInv DEF Kept
<1>14. ASSUME SetupAuxiliaryWorkingSet(r.q, m, TRUE) PROVE Inv'
  BY <1>1, <1>12, <1>14, WorkingSetInv
<1> QED BY <1>8, <1>13, <1>14

(* The least index that a loop has to do something about.                  *)
LEMMA Worked ==
  ASSUME NEW q, NEW l, Good(q), IsCall(l), Work(q, l) # {}
  PROVE  (CHOOSE k \in Work(q, l) : \A j \in Work(q, l) : k <= j) \in Work(q, l)
<1> DEFINE W == Work(q, l)
<1>1. W \subseteq Idx
  BY DEF Work
<1>2. Idx \subseteq Nat
  BY QProblemBAssumption DEF Idx, Vars, Cons
<1> HIDE DEF W
<1>3. PICK n \in W : TRUE
  BY DEF W
<1>4. W \in SUBSET Nat
  BY <1>1, <1>2
<1>5. \E k \in W : \A j \in W : <<j, k>> \notin OpToRel(<, Nat)
  BY <1>3, <1>4, NatLessThanWellFounded, WFMin, Zenon
<1>6. PICK k \in W : \A j \in W : <<j, k>> \notin {ss \in Nat \X Nat : ss[1] < ss[2]}
  BY <1>5, Zenon DEF OpToRel
<1>7. ASSUME NEW j \in W PROVE k <= j
  <2>1. j \in Nat /\ k \in Nat /\ <<j, k>> \notin {ss \in Nat \X Nat : ss[1] < ss[2]}
    BY <1>4, <1>6
  <2>2. ~(j < k)
    BY <2>1
  <2> QED BY <2>1, <2>2
<1> QED BY <1>7 DEF W

LEMMA TreatAdapted ==
  ASSUME NEW q, NEW l, Good(q), IsCall(l), Guessing(q, l), \A i \in Idx \ l.alias : l.aux[i] # "UNDEFINED",
         NEW i \in Work(q, l), NEW r \in Treat(q, l, i)
  PROVE  Adapted(q, r) /\ i \in Idx
<1>1. i \in Idx
  BY DEF Work
<1>2. CASE l.stage \in {"removeC", "removeB"}
  BY <1>1, <1>2, UnholdAdapted DEF Treat
<1>3. CASE l.stage \in {"equalB", "equalC"}
  BY <1>1, <1>3, HoldEqualityAdapted DEF Treat
<1>4. CASE l.stage \notin {"removeC", "removeB", "equalB", "equalC"}
  <2>1. q.st[i] = "INACTIVE" /\ Aux(q, l, i) # "INACTIVE"
    BY <1>4 DEF Work
  <2>2. i \notin l.alias /\ Aux(q, l, i) = l.aux[i]
    BY <2>1 DEF Aux
  <2>3. Aux(q, l, i) \in Statuses /\ (q.opt.drop \/ Aux(q, l, i) \in Held)
    BY <1>1, <2>1, <2>2 DEF IsCall, Guessing, Known
  <2>4. r \in HoldGuess(q, l, i)
    BY <1>4 DEF Treat
  <2> QED BY <1>1, <2>3, <2>4, HoldGuessAdapted
<1> QED BY <1>1, <1>2, <1>3, <1>4

(* One more step of the loops.                                             *)
Same(l, m) ==
  IsCall(m) /\ m.step = l.step /\ m.iter = l.iter /\ m.aux = l.aux /\ m.alias = l.alias

LEMMA LoopInv ==
  ASSUME ObjectOK, pc = "workingset", loc.iter = 0, loc.stage # "failed", use' = use,
         NEW q, Good(q), q.opt.drop = qp.opt.drop, q.opt.steps = qp.opt.steps,
         NEW l, Same(loc, l), Goto(pc, q, l)
  PROVE  Inv'
<1>1. ObjectOK'
  BY GotoObject DEF ObjectOK, Guessing, Same
<1>2. FlowOK'
  BY DEF Goto, FlowOK, SuccessMeansSolved, UsableAtTheLimit, Same
<1> QED BY <1>1, <1>2 DEF Inv

LEMMA AdaptWorkingSetInv ==
  ASSUME Inv, AdaptWorkingSet
  PROVE  Inv'
<1>1. /\ ObjectOK /\ use' = use /\ use \in UseRecords /\ Good(qp) /\ qp.opt.steps \in Nat /\ qp.opt.drop = use.opt.drop
      /\ pc = "workingset" /\ IsCall(loc) /\ loc.step <= qp.opt.steps /\ loc.iter = 0 /\ Guessing(qp, loc)
      /\ loc.stage \notin {"done", "failed"} /\ \A i \in Idx \ loc.alias : loc.aux[i] # "UNDEFINED"
  BY DEF Inv, AdaptWorkingSet, ObjectOK, FlowOK
<1> DEFINE W == Work(qp, loc)
           i == CHOOSE k \in W : \A j \in W : k <= j
           p == [qp EXCEPT !.opt.fullLI = loc.fullLI]
           done == [loc EXCEPT !.stage = "done"]
           failed == [loc EXCEPT !.stage = "failed"]
           next == [loc EXCEPT !.stage = NextStage(@), !.i = 1]
           on == [loc EXCEPT !.i = Position(i) + 1]
<1>2. \/ Goto(pc, p, done) \/ Goto(pc, qp, next)
      \/ W # {} /\ \E r \in Treat(qp, loc, i) : Goto(pc, r.q, on) \/ Goto(pc, r.q, failed)
  BY Zenon DEF AdaptWorkingSet
<1>3. Kept(qp, p)
  <2>1. loc.fullLI \in BOOLEAN
    BY <1>1 DEF IsCall
  <2> QED BY <1>1, <2>1, NoFullTests
<1>4. Same(loc, done) /\ Same(loc, failed)
  <2>1. "done" \in Stages /\ "failed" \in Stages /\ 1 \in Nat \ {0}
    BY DEF Stages
  <2> QED BY <1>1, <2>1 DEF Same, IsCall
<1>5. Same(loc, next)
  <2>1. NextStage(loc.stage) \in Stages /\ 1 \in Nat \ {0}
    BY DEF Stages, NextStage
  <2>2. next = [loc EXCEPT !.stage = NextStage(loc.stage), !.i = 1]
    BY <1>1 DEF IsCall
  <2> DEFINE s == NextStage(loc.stage)
             n == 1
  <2> HIDE DEF s, n
  <2>3. s \in Stages /\ n \in Nat \ {0}
    BY <2>1 DEF s, n
  <2>4. Same(loc, [loc EXCEPT !.stage = s, !.i = n])
    BY <1>1, <2>3 DEF Same, IsCall
  <2> QED BY <2>2, <2>4 DEF s, n
<1> HIDE DEF p, done, failed, next
<1>6. ASSUME Goto(pc, p, done) \/ Goto(pc, qp, next) PROVE Inv'
  BY <1>1, <1>3, <1>4, <1>5, <1>6, LoopInv DEF Kept
<1>7. ASSUME W # {}, NEW r \in Treat(qp, loc, i), Goto(pc, r.q, on) \/ Goto(pc, r.q, failed) PROVE Inv'
  <2>1. i \in W
    BY <1>1, <1>7, Worked
  <2> HIDE DEF i
  <2>2. Adapted(qp, r) /\ i \in Idx
    BY <1>1, <1>7, <2>1, TreatAdapted
  <2>3. Position(i) + 1 \in Nat \ {0}
    BY <2>2, QProblemBAssumption DEF Position, Idx, Vars, Cons
  <2>4. Same(loc, on)
    <3> DEFINE n == Position(i) + 1
    <3> HIDE DEF n
    <3>1. n \in Nat \ {0} /\ "done" \in Stages
      BY <2>3 DEF n, Stages
    <3>2. Same(loc, [loc EXCEPT !.i = n])
      BY <1>1, <3>1 DEF Same, IsCall
    <3> QED BY <3>2 DEF n
  <2> HIDE DEF on
  <2> QED BY <1>1, <1>4, <1>7, <2>2, <2>4, LoopInv DEF Adapted
<1> QED BY <1>2, <1>6, <1>7, Zenon

LEMMA EnterInitialHotstartInv ==
  ASSUME Inv, EnterInitialHotstart
  PROVE  Inv'
<1>1. /\ ObjectOK /\ use' = use /\ use \in UseRecords /\ Good(qp) /\ qp.opt.steps \in Nat /\ qp.opt.drop = use.opt.drop
      /\ IsCall(loc) /\ loc.iter = 0
  BY DEF Inv, EnterInitialHotstart, ObjectOK, FlowOK
<1>2. \/ qp' = qp /\ Return(loc, "INIT_FAILED")
      \/ Goto("hotstart", [SetupAuxiliaryQPbounds(qp, TRUE) EXCEPT !.chol = FALSE, !.qps = "AUXILIARYQPSOLVED"], loc)
  BY Zenon DEF EnterInitialHotstart
<1>3. ASSUME qp' = qp, Return(loc, "INIT_FAILED") PROVE Inv'
  BY <1>1, <1>3, ReturnInv
<1>4. ASSUME Goto("hotstart", [SetupAuxiliaryQPbounds(qp, TRUE) EXCEPT !.chol = FALSE, !.qps = "AUXILIARYQPSOLVED"], loc)
      PROVE  Inv'
  BY <1>1, <1>4, HotstartBegins, KeptRefl, Zenon
<1> QED BY <1>2, <1>3, <1>4, Zenon

LEMMA FinishGuessInv ==
  ASSUME Inv, FinishGuess
  PROVE  Inv'
<1>1. /\ ObjectOK /\ use' = use /\ use \in UseRecords /\ Good(qp) /\ qp.opt.steps \in Nat /\ qp.opt.drop = use.opt.drop
      /\ IsCall(loc) /\ loc.iter = 0
  BY DEF Inv, FinishGuess, ObjectOK, FlowOK
<1>2. PICK r : /\ r = Out(qp, "OK") \/ r \in ComputeProjectedCholesky(qp)
               /\ \/ Goto("hotstart", [SetupAuxiliaryQPbounds(r.q, FALSE) EXCEPT !.qps = "AUXILIARYQPSOLVED"], loc)
                  \/ qp' = r.q /\ Return(loc, "SETUP_AUXILIARYQP_FAILED")
  BY Zenon DEF FinishGuess
<1>3. Kept(qp, r.q) /\ Good(r.q)
  BY <1>1, <1>2, ProjectedCholeskyFactored, FactoredKept, KeptRefl DEF Factorisation, Out, Kept
<1>4. ASSUME qp' = r.q, Return(loc, "SETUP_AUXILIARYQP_FAILED") PROVE Inv'
  BY <1>1, <1>3, <1>4, ReturnInv DEF Kept
<1>5. ASSUME Goto("hotstart", [SetupAuxiliaryQPbounds(r.q, FALSE) EXCEPT !.qps = "AUXILIARYQPSOLVED"], loc) PROVE Inv'
  BY <1>1, <1>3, <1>5, HotstartBegins, Zenon
<1> QED BY <1>2, <1>4, <1>5, Zenon

-----------------------------------------------------------------------------
(* hotstart() and its loops.                                               *)

(* solveQP() returns.                                                      *)
LEMMA SolveReturnsInv ==
  ASSUME ObjectOK, use' = use, NEW q, Good(q), q.opt.drop = qp.opt.drop, q.opt.steps = qp.opt.steps,
         NEW ret, SolveReturns(q, ret),
         ret = "OK" => q.qps = "SOLVED" /\ ~q.inf /\ ~q.unb,
         IF ret = "MAX_NWSR_REACHED" THEN loc.max > 0 => q.qps = "HOMOTOPYQPSOLVED" /\ ~q.inf ELSE IterationsLeft
  PROVE  Inv'
<1> DEFINE l == [loc EXCEPT !.ret = ret]
<1>1. Goto("solved", q, l)
  BY DEF SolveReturns
<1>2. IsCall(l) /\ l.step = loc.step /\ l.aux = loc.aux /\ l.iter = loc.iter /\ l.max = loc.max /\ l.ret = ret
  BY CallFields DEF ObjectOK
<1> HIDE DEF l
<1>3. ObjectOK'
  BY <1>1, <1>2, GotoObject DEF ObjectOK, Guessing
<1>4. FlowOK'
  BY <1>1, <1>2 DEF Goto, FlowOK, SuccessMeansSolved, UsableAtTheLimit, AtSolution, IterationsLeft
<1> QED BY <1>3, <1>4 DEF Inv

(* The loop of solveQP() is entered.                                       *)
LEMMA LoopBegins ==
  ASSUME ObjectOK, use' = use, IterationsLeft, NEW q, Kept(qp, q),
         Goto("iterate", [q EXCEPT !.inf = FALSE, !.unb = FALSE], [loc EXCEPT !.first = loc.iter])
  PROVE  Inv'
<1> DEFINE p == [q EXCEPT !.inf = FALSE, !.unb = FALSE]
           l == [loc EXCEPT !.first = loc.iter]
<1>1. Good(p) /\ p.opt = q.opt /\ p.inf = FALSE /\ p.unb = FALSE
  BY DEF Kept, Good, QPs, Agreeing
<1>2. IsCall(l) /\ l.step = loc.step /\ l.aux = loc.aux /\ l.iter = loc.iter /\ l.max = loc.max /\ l.first = loc.iter
  <2>1. loc.iter \in Nat /\ IsCall(loc)
    BY DEF ObjectOK, IsCall
  <2> QED BY <2>1, CallFields
<1>3. Goto("iterate", p, l)
  OBVIOUS
<1> HIDE DEF p, l
<1>4. ObjectOK'
  BY <1>1, <1>2, <1>3, GotoObject DEF ObjectOK, Guessing, Kept
<1>5. loc.iter \in Nat
  BY DEF ObjectOK, IsCall
<1>6. FlowOK'
  BY <1>1, <1>2, <1>3, <1>5 DEF Goto, FlowOK, SuccessMeansSolved, UsableAtTheLimit, IterationsLeft
<1> QED BY <1>4, <1>6 DEF Inv

(* hotstart() begins.                                                      *)
LEMMA EnteredHotstart ==
  ASSUME ObjectOK, use' = use, loc.iter = 0,
         \/ loc.wrong # {} /\ Goto("end", [qp EXCEPT !.inf = TRUE], [loc EXCEPT !.ret = "OK"])
         \/ \E r : /\ Factorisation(qp, r)
                   /\ Goto("solve", r.q, loc) \/ (r.ret # "OK" /\ Goto("end", r.q, [loc EXCEPT !.ret = r.ret]))
  PROVE  Inv'
<1>1. IsCall(loc) /\ Good(qp) /\ use \in UseRecords
  BY DEF ObjectOK
<1>2. ASSUME loc.wrong # {}, Goto("end", [qp EXCEPT !.inf = TRUE], [loc EXCEPT !.ret = "OK"]) PROVE Inv'
  <2> DEFINE p == [qp EXCEPT !.inf = TRUE]
             l == [loc EXCEPT !.ret = "OK"]
  <2>1. Good(p) /\ p.opt = qp.opt /\ p.inf = TRUE
    BY <1>1 DEF Good, QPs, Agreeing
  <2>2. /\ IsCall(l) /\ l.step = loc.step /\ l.aux = loc.aux /\ l.iter = loc.iter /\ l.max = loc.max /\ l.ret = "OK"
        /\ l.wrong = loc.wrong
    BY <1>1, CallFields
  <2>3. Goto("end", p, l)
    BY <1>2
  <2> HIDE DEF p, l
  <2>4. ObjectOK'
    BY <2>1, <2>2, <2>3, GotoObject DEF ObjectOK, Guessing
  <2>5. FlowOK'
    BY <1>2, <2>1, <2>2, <2>3 DEF Goto, FlowOK, SuccessMeansSolved, UsableAtTheLimit
  <2> QED BY <2>4, <2>5 DEF Inv
<1>3. ASSUME NEW r, Factorisation(qp, r), Goto("solve", r.q, loc) PROVE Inv'
  <2>1. Kept(qp, r.q)
    BY <1>3, FactoredKept DEF Factorisation
  <2>2. ObjectOK'
    BY <1>3, <2>1, GotoObject DEF ObjectOK, Guessing, Kept
  <2>3. loc.max \in Nat
    BY <1>1 DEF IsCall
  <2>4. FlowOK'
    BY <1>3, <2>3 DEF Goto, FlowOK, SuccessMeansSolved, UsableAtTheLimit, IterationsLeft
  <2> QED BY <2>2, <2>4 DEF Inv
<1>4. ASSUME NEW r, Factorisation(qp, r), r.ret # "OK", Goto("end", r.q, [loc EXCEPT !.ret = r.ret]) PROVE Inv'
  <2> DEFINE l == [loc EXCEPT !.ret = r.ret]
  <2>1. Kept(qp, r.q) /\ r.ret # "MAX_NWSR_REACHED"
    BY <1>4, FactoredKept DEF Factorisation
  <2>2. IsCall(l) /\ l.step = loc.step /\ l.aux = loc.aux /\ l.iter = loc.iter /\ l.max = loc.max /\ l.ret = r.ret
    BY <1>1, CallFields
  <2>3. Goto("end", r.q, l)
    BY <1>4
  <2> HIDE DEF l
  <2>4. ObjectOK'
    BY <2>1, <2>2, <2>3, GotoObject DEF ObjectOK, Guessing, Kept
  <2>5. FlowOK'
    BY <1>4, <2>1, <2>2, <2>3 DEF Goto, FlowOK, SuccessMeansSolved, UsableAtTheLimit
  <2> QED BY <2>4, <2>5 DEF Inv
<1> QED BY <1>2, <1>3, <1>4, Zenon

LEMMA StartHotstartInv ==
  ASSUME Inv, StartHotstartB \/ StartHotstart
  PROVE  Inv'
<1>1. ObjectOK /\ use' = use /\ loc.iter = 0 /\ Good(qp)
  BY DEF Inv, StartHotstartB, StartHotstart, FlowOK, ObjectOK
<1>2. \/ (\/ ~AreBoundsConsistentB(loc) \/ ~AreBoundsConsistent(loc))
         /\ Goto("end", SetInfeasibilityFlag(qp, "OK").q, [loc EXCEPT !.ret = SetInfeasibilityFlag(qp, "OK").ret])
      \/ \E r : /\ r \in SetupInitialCholeskyB(qp) \/ r \in SetupInitialCholesky(qp)
                /\ Goto("solve", r.q, loc) \/ (r.ret # "OK" /\ Goto("end", r.q, [loc EXCEPT !.ret = r.ret]))
  BY Zenon DEF StartHotstartB, StartHotstart, EnterHotstart
<1>3. ~AreBoundsConsistentB(loc) \/ ~AreBoundsConsistent(loc) => loc.wrong # {}
  BY DEF AreBoundsConsistentB, AreBoundsConsistent
<1>4. SetInfeasibilityFlag(qp, "OK").q = [qp EXCEPT !.inf = TRUE] /\ SetInfeasibilityFlag(qp, "OK").ret = "OK"
  BY DEF SetInfeasibilityFlag, Out
<1>5. \A r : r \in SetupInitialCholeskyB(qp) \/ r \in SetupInitialCholesky(qp) => Factorisation(qp, r)
  BY <1>1, InitialCholeskyFactored
<1> QED BY <1>1, <1>2, <1>3, <1>4, <1>5, EnteredHotstart, Zenon

LEMMA SolveQPBInv ==
  ASSUME Inv, SolveQPB
  PROVE  Inv'
<1>1. ObjectOK /\ use' = use /\ IterationsLeft /\ Good(qp)
  BY DEF Inv, SolveQPB, FlowOK, ObjectOK
<1>2. \/ SolveReturns(qp, "HOTSTART_FAILED_AS_QP_NOT_INITIALISED")
      \/ \E q \in SetupSubjectToTypeB(qp, Asked(qp, loc)) :
           Goto("iterate", [q EXCEPT !.inf = FALSE, !.unb = FALSE], [loc EXCEPT !.first = loc.iter])
  BY Zenon DEF SolveQPB
<1>3. ASSUME SolveReturns(qp, "HOTSTART_FAILED_AS_QP_NOT_INITIALISED") PROVE Inv'
  BY <1>1, <1>3, SolveReturnsInv
<1>4. ASSUME NEW q \in SetupSubjectToTypeB(qp, Asked(qp, loc)),
             Goto("iterate", [q EXCEPT !.inf = FALSE, !.unb = FALSE], [loc EXCEPT !.first = loc.iter])
      PROVE  Inv'
  <2>1. Kept(qp, q)
    BY <1>1, SubjectToTypesKept
  <2> QED BY <1>1, <1>4, <2>1, LoopBegins, Zenon
<1> QED BY <1>2, <1>3, <1>4, Zenon

(* The loops of updateActivitiesForHotstart().                             *)
LEMMA ActivitiesInv ==
  ASSUME ObjectOK, use' = use, IterationsLeft, NEW q, Good(q), q.opt.drop = qp.opt.drop, q.opt.steps = qp.opt.steps,
         NEW s \in Stages, NEW n \in Nat \ {0},
         \/ Goto("activities", q, [loc EXCEPT !.stage = s, !.i = n])
         \/ Goto("activities", q, [loc EXCEPT !.i = n])
  PROVE  Inv'
<1> DEFINE x == [loc EXCEPT !.stage = s, !.i = n]
           y == [loc EXCEPT !.i = n]
<1>1. /\ IsCall(x) /\ x.step = loc.step /\ x.aux = loc.aux /\ x.iter = loc.iter /\ x.max = loc.max
      /\ IsCall(y) /\ y.step = loc.step /\ y.aux = loc.aux /\ y.iter = loc.iter /\ y.max = loc.max
  BY DEF ObjectOK, IsCall
<1>2. Goto("activities", q, x) \/ Goto("activities", q, y)
  OBVIOUS
<1> HIDE DEF x, y
<1>3. PICK l : /\ Goto("activities", q, l) /\ IsCall(l) /\ l.step = loc.step /\ l.aux = loc.aux
               /\ l.iter = loc.iter /\ l.max = loc.max
  BY <1>1, <1>2
<1>4. ObjectOK'
  BY <1>3, GotoObject DEF ObjectOK, Guessing
<1>5. FlowOK'
  BY <1>3 DEF Goto, FlowOK, SuccessMeansSolved, UsableAtTheLimit, IterationsLeft
<1> QED BY <1>4, <1>5 DEF Inv

LEMMA SolveQPInv ==
  ASSUME Inv, SolveQP
  PROVE  Inv'
<1>1. ObjectOK /\ use' = use /\ IterationsLeft /\ Good(qp)
  BY DEF Inv, SolveQP, FlowOK, ObjectOK
<1> DEFINE p == [qp EXCEPT !.qps = "PERFORMINGHOMOTOPY"]
<1>2. \/ SolveReturns(qp, "HOTSTART_FAILED_AS_QP_NOT_INITIALISED")
      \/ \E q \in SetupSubjectToTypeB(p, Asked(qp, loc)) :
           Goto("activities", q, [loc EXCEPT !.stage = "infinite", !.i = 1])
  BY Zenon DEF SolveQP
<1>3. ASSUME SolveReturns(qp, "HOTSTART_FAILED_AS_QP_NOT_INITIALISED") PROVE Inv'
  BY <1>1, <1>3, SolveReturnsInv
<1>4. Kept(qp, p)
  BY <1>1, PhaseKept DEF QPStatuses
<1> HIDE DEF p
<1>5. ASSUME NEW q \in SetupSubjectToTypeB(p, Asked(qp, loc)),
             Goto("activities", q, [loc EXCEPT !.stage = "infinite", !.i = 1])
      PROVE  Inv'
  <2>1. Kept(qp, q)
    BY <1>4, SubjectToTypesKept, KeptTrans DEF Kept
  <2>2. Good(q) /\ q.opt.drop = qp.opt.drop /\ q.opt.steps = qp.opt.steps /\ "infinite" \in Stages /\ 1 \in Nat \ {0}
    BY <2>1 DEF Kept, Stages
  <2> QED BY <1>1, <1>5, <2>2, ActivitiesInv, Zenon
<1> QED BY <1>2, <1>3, <1>5, Zenon

LEMMA UpdateActivitiesInv ==
  ASSUME Inv, UpdateActivities
  PROVE  Inv'
<1>1. ObjectOK /\ use' = use /\ IterationsLeft /\ Good(qp) /\ IsCall(loc) /\ pc = "activities"
  BY DEF Inv, UpdateActivities, FlowOK, ObjectOK
<1>2. \/ Goto("activities", qp, [loc EXCEPT !.stage = "fixed", !.i = 1])
      \/ Goto("iterate", [qp EXCEPT !.inf = FALSE, !.unb = FALSE], [loc EXCEPT !.first = loc.iter])
      \/ ~(loc.i > NV) /\ \E r : /\ r \in Withdrawn(qp, Asked(qp, loc)[loc.i], loc.i) \/ r \in NewEquality(qp, loc.i)
                                 /\ IF r.ret = "OK" THEN Goto("activities", r.q, [loc EXCEPT !.i = @ + 1])
                                    ELSE SolveReturns(r.q, r.ret)
  BY <1>1, Zenon DEF UpdateActivities
<1>3. ASSUME Goto("activities", qp, [loc EXCEPT !.stage = "fixed", !.i = 1]) PROVE Inv'
  <2>1. "fixed" \in Stages /\ 1 \in Nat \ {0}
    BY DEF Stages
  <2> QED BY <1>1, <1>3, <2>1, ActivitiesInv, Zenon
<1>4. ASSUME Goto("iterate", [qp EXCEPT !.inf = FALSE, !.unb = FALSE], [loc EXCEPT !.first = loc.iter]) PROVE Inv'
  BY <1>1, <1>4, LoopBegins, KeptRefl, Zenon
<1>5. ASSUME ~(loc.i > NV), NEW r, r \in Withdrawn(qp, Asked(qp, loc)[loc.i], loc.i) \/ r \in NewEquality(qp, loc.i),
             IF r.ret = "OK" THEN Goto("activities", r.q, [loc EXCEPT !.i = @ + 1]) ELSE SolveReturns(r.q, r.ret)
      PROVE  Inv'
  <2>1. loc.i \in Idx /\ loc.i + 1 \in Nat \ {0}
    BY <1>1, <1>5, QProblemBAssumption DEF IsCall, Idx, Vars
  <2>2. Adapted(qp, r)
    BY <1>1, <1>5, <2>1, WithdrawnAdapted, NewEqualityAdapted
  <2>3. [loc EXCEPT !.i = @ + 1] = [loc EXCEPT !.i = loc.i + 1]
    BY <1>1 DEF IsCall
  <2>4. CASE r.ret = "OK"
    <3> DEFINE n == loc.i + 1
    <3>1. Goto("activities", r.q, [loc EXCEPT !.i = n])
      BY <1>5, <2>3, <2>4
    <3>2. n \in Nat \ {0} /\ "fixed" \in Stages
      BY <2>1 DEF Stages
    <3> HIDE DEF n
    <3> QED BY <1>1, <2>2, <3>1, <3>2, ActivitiesInv, Zenon DEF Adapted
  <2>5. CASE r.ret # "OK"
    BY <1>1, <1>5, <2>2, <2>5, SolveReturnsInv DEF Adapted
  <2> QED BY <2>4, <2>5
<1> QED BY <1>2, <1>3, <1>4, <1>5, Zenon

LEMMA LimitReachedInv ==
  ASSUME Inv, LimitReached
  PROVE  Inv'
<1>1. /\ ObjectOK /\ use' = use /\ Good(qp) /\ IsCall(loc) /\ pc = "iterate"
      /\ SolveReturns(qp, "MAX_NWSR_REACHED") /\ (loc.iter = loc.max \/ loc.iter > loc.first)
  BY DEF Inv, LimitReached, ObjectOK, CPUtimeLimitExceeded
<1>2. loc.iter \in Nat /\ loc.max \in Nat /\ loc.first \in Nat
  BY <1>1 DEF IsCall
<1>3. loc.max > 0 => qp.qps = "HOMOTOPYQPSOLVED" /\ ~qp.inf
  BY <1>1, <1>2 DEF Inv, FlowOK, IterationsLeft
<1> QED BY <1>1, <1>3, SolveReturnsInv

(* An iteration has failed.                                                *)
LEMMA StepFailedInv ==
  ASSUME ObjectOK, use' = use, IterationsLeft, NEW q, Good(q), q.opt.drop = qp.opt.drop, q.opt.steps = qp.opt.steps,
         NEW ret, ret \notin {"OK", "MAX_NWSR_REACHED"}, StepFailed(q, ret)
  PROVE  Inv'
<1> DEFINE p == [q EXCEPT !.qps = "HOMOTOPYQPSOLVED"]
<1>1. \/ SolveReturns(p, "HOTSTART_STOPPED_INFEASIBILITY")
      \/ SolveReturns(q, "HOTSTART_STOPPED_UNBOUNDEDNESS") \/ SolveReturns(q, ret)
  BY Zenon DEF StepFailed
<1>2. Good(p) /\ p.opt.drop = qp.opt.drop /\ p.opt.steps = qp.opt.steps
  BY PhaseKept DEF QPStatuses, Kept
<1> HIDE DEF p
<1> QED BY <1>1, <1>2, SolveReturnsInv

(* Drift correction and ramping change the data only.                      *)
LEMMA CorrectedKept ==
  ASSUME NEW q, Good(q), NEW blocked, NEW p \in Corrected(q, blocked)
  PROVE  Kept(q, p)
<1>1. \E I \in {Vars, Idx} : p \in {q, Spread(q, I), MovedToX(q, I)}
  BY DEF Corrected, PerformRampingB, PerformRamping, PerformDriftCorrectionB, PerformDriftCorrection
<1>2. ASSUME NEW I PROVE Kept(q, Spread(q, I)) /\ Kept(q, MovedToX(q, I))
  <2> DEFINE s == [i \in Idx |-> IF i \notin I \/ q.type[i] = "UNBOUNDED" THEN q.data[i]
                                 ELSE IF q.type[i] = "EQUALITY" THEN "equal" ELSE "range"]
             m == [i \in Idx |-> IF i \in I /\ q.type[i] = "EQUALITY" THEN "equal" ELSE q.data[i]]
  <2>1. s \in [Idx -> AllKinds \cup {"unknown"}] /\ m \in [Idx -> AllKinds \cup {"unknown"}]
    BY DEF Good, QPs, AllKinds
  <2> HIDE DEF s, m
  <2>2. Kept(q, [q EXCEPT !.data = s]) /\ Kept(q, [q EXCEPT !.data = m])
    BY <2>1, DataKept
  <2> QED BY <2>2 DEF Spread, MovedToX, s, m
<1> QED BY <1>1, <1>2, KeptRefl

(* The state in which an iteration begins, and the next one.               *)
Iterating ==
  /\ ObjectOK /\ use' = use /\ pc = "iterate" /\ ~qp.inf /\ ~qp.unb
  /\ loc.first \in Nat /\ loc.iter \in Nat /\ loc.max \in Nat /\ loc.first <= loc.iter /\ loc.iter < loc.max

LEMMA NextIterationInv ==
  ASSUME Iterating, NEW f, Kept(qp, f.q), f.ret # "MAX_NWSR_REACHED", NEW blocked, NextIteration(f, blocked)
  PROVE  Inv'
<1>1. CASE f.ret = "OK"
  <2> DEFINE P(q) == [q EXCEPT !.qps = "HOMOTOPYQPSOLVED"]
             l == [loc EXCEPT !.iter = @ + 1]
  <2>1. PICK q \in Corrected(f.q, blocked) : Goto("iterate", P(q), l)
    BY <1>1, Zenon DEF NextIteration
  <2>2. Kept(f.q, q) /\ Good(q)
    BY CorrectedKept DEF Kept
  <2>3. Kept(q, P(q)) /\ P(q).qps = "HOMOTOPYQPSOLVED"
    BY <2>2, PhaseKept DEF QPStatuses
  <2>4. IsCall(loc)
    BY DEF Iterating, ObjectOK
  <2>5. IsCall(l) /\ l.step = loc.step /\ l.aux = loc.aux /\ l.iter = loc.iter + 1 /\ l.max = loc.max /\ l.first = loc.first
    BY <2>4 DEF Iterating, IsCall
  <2> HIDE DEF P, l
  <2>6. Kept(qp, P(q))
    BY <2>2, <2>3, KeptTrans
  <2>7. ObjectOK'
    BY <2>1, <2>5, <2>6, GotoObject DEF Iterating, ObjectOK, Guessing, Kept
  <2>8. FlowOK'
    BY <2>1, <2>3, <2>5, <2>6 DEF Iterating, Goto, FlowOK, SuccessMeansSolved, UsableAtTheLimit, Kept
  <2> QED BY <2>7, <2>8 DEF Inv
<1>2. CASE f.ret # "OK"
  BY <1>2, SolveReturnsInv DEF NextIteration, Kept, Iterating, IterationsLeft
<1> QED BY <1>1, <1>2

LEMMA SteppedKept ==
  ASSUME NEW q, Good(q)
  PROVE  Kept(q, Stepped(q)) /\ Stepped(q).qps = q.qps
<1> DEFINE d == [i \in Idx |-> "unknown"]
<1>1. d \in [Idx -> AllKinds \cup {"unknown"}]
  OBVIOUS
<1> HIDE DEF d
<1>2. Kept(q, [q EXCEPT !.data = d]) /\ [q EXCEPT !.data = d].qps = q.qps
  BY <1>1, DataKept
<1> QED BY <1>2 DEF Stepped, d

LEMMA ArrivedKept ==
  ASSUME NEW q, Good(q), NEW l, IsCall(l)
  PROVE  Kept(q, Arrived(q, l)) /\ Arrived(q, l).qps = "SOLVED"
<1> DEFINE d == Asked(q, l)
           p == [q EXCEPT !.data = d]
<1>1. d \in [Idx -> AllKinds \cup {"unknown"}]
  BY DEF Asked, FarBound, IsCall, AllKinds
<1> HIDE DEF d
<1>2. Kept(q, p) /\ Good(p)
  BY <1>1, DataKept DEF Kept
<1>3. Arrived(q, l) = [p EXCEPT !.qps = "SOLVED"]
  BY DEF Arrived, d
<1> HIDE DEF p
<1> QED BY <1>2, <1>3, PhaseKept, KeptTrans DEF QPStatuses

(* What an iteration does, for the three classes.                          *)
LEMMA IterationInv ==
  ASSUME Iterating, NEW s, s = Stepped(Performing),
         \/ \E d : d \notin {"OK", "MAX_NWSR_REACHED"} /\ SolveReturns(Performing, d)
         \/ SolveReturns(Arrived(Performing, loc), "OK")
         \/ StepFailed(s, "OPTIMAL_SOLUTION_FOUND")
         \/ \E f : (f = Out(s, "OK") \/ Factorisation(s, f)) /\ NextIteration(f, FALSE)
         \/ \E r : Outcome(s, r) /\ r.ret # "OK" /\ StepFailed(r.q, r.ret)
         \/ \E r, f : Outcome(s, r) /\ r.ret = "OK" /\ (f = r \/ Factorisation(r.q, f)) /\ NextIteration(f, TRUE)
  PROVE  Inv'
<1>1. Good(qp) /\ IsCall(loc) /\ ObjectOK /\ use' = use /\ IterationsLeft
  BY DEF Iterating, ObjectOK, IterationsLeft
<1>2. Kept(qp, Performing) /\ Good(Performing)
  BY <1>1, PhaseKept DEF Performing, QPStatuses, Kept
<1>3. Kept(Performing, s) /\ Kept(qp, s) /\ Good(s)
  BY <1>2, SteppedKept, KeptTrans DEF Kept
<1>4. Kept(Performing, Arrived(Performing, loc)) /\ Arrived(Performing, loc).qps = "SOLVED"
  BY <1>1, <1>2, ArrivedKept
<1>5. ASSUME NEW d, d \notin {"OK", "MAX_NWSR_REACHED"}, SolveReturns(Performing, d) PROVE Inv'
  BY <1>1, <1>2, <1>5, SolveReturnsInv DEF Kept
<1>6. ASSUME SolveReturns(Arrived(Performing, loc), "OK") PROVE Inv'
  <2>1. Kept(qp, Arrived(Performing, loc))
    BY <1>2, <1>4, KeptTrans
  <2> QED BY <1>1, <1>4, <1>6, <2>1, SolveReturnsInv DEF Kept, Iterating
<1>7. ASSUME StepFailed(s, "OPTIMAL_SOLUTION_FOUND") PROVE Inv'
  BY <1>1, <1>3, <1>7, StepFailedInv DEF Kept
<1>8. ASSUME NEW f, f = Out(s, "OK") \/ Factorisation(s, f), NextIteration(f, FALSE) PROVE Inv'
  <2>1. Kept(s, f.q) /\ f.ret # "MAX_NWSR_REACHED"
    BY <1>3, <1>8, FactoredKept, KeptRefl DEF Factorisation, Out
  <2>2. Kept(qp, f.q)
    BY <1>3, <2>1, KeptTrans
  <2> QED BY <1>8, <2>1, <2>2, NextIterationInv, Zenon
<1>9. ASSUME NEW r, Outcome(s, r), r.ret # "OK", StepFailed(r.q, r.ret) PROVE Inv'
  BY <1>1, <1>3, <1>9, StepFailedInv DEF Kept, Outcome, Moved
<1>10. ASSUME NEW r, NEW f, Outcome(s, r), r.ret = "OK", f = r \/ Factorisation(r.q, f), NextIteration(f, TRUE) PROVE Inv'
  <2>1. Kept(s, r.q)
    BY <1>10, MovedKept DEF Outcome
  <2>2. Kept(r.q, f.q) /\ f.ret # "MAX_NWSR_REACHED"
    BY <1>10, <2>1, FactoredKept, KeptRefl DEF Factorisation, Kept
  <2>3. Kept(qp, f.q)
    BY <1>3, <2>1, <2>2, KeptTrans
  <2> QED BY <1>10, <2>2, <2>3, NextIterationInv, Zenon
<1> QED BY <1>5, <1>6, <1>7, <1>8, <1>9, <1>10, Zenon

LEMMA IterationBegins ==
  ASSUME Inv, CanIterate, use' = use
  PROVE  Iterating /\ Good(Performing) /\ Good(Stepped(Performing))
<1>1. Iterating
  BY DEF Inv, FlowOK, ObjectOK, IsCall, CanIterate, Iterating
<1>2. Good(Performing)
  BY PhaseKept DEF Performing, QPStatuses, Kept, Inv, ObjectOK
<1>3. Good(Stepped(Performing))
  BY <1>2, SteppedKept DEF Kept
<1> QED BY <1>1, <1>2, <1>3

LEMMA IterateBInv ==
  ASSUME Inv, IterateB
  PROVE  Inv'
<1> DEFINE s == Stepped(Performing)
<1>1. Iterating /\ Good(s)
  BY IterationBegins DEF IterateB
<1>2. \/ \E d \in StepDirectionB(qp) \ {"OK"} : SolveReturns(Performing, d)
      \/ SolveReturns(Arrived(Performing, loc), "OK")
      \/ StepFailed(s, "OPTIMAL_SOLUTION_FOUND")
      \/ \E b \in Blocks(s, Vars) : \E r \in ChangeActiveSetB(s, b) :
           \/ r.ret # "OK" /\ StepFailed(r.q, r.ret)
           \/ r.ret = "OK" /\ \E f : (f = r \/ f \in ComputeCholesky(r.q)) /\ NextIteration(f, TRUE)
  BY Zenon DEF IterateB
<1> HIDE DEF s
<1>3. \A d \in StepDirectionB(qp) \ {"OK"} : d \notin {"OK", "MAX_NWSR_REACHED"}
  BY DEF StepDirectionB
<1>4. \A b \in Blocks(s, Vars) : \A r \in ChangeActiveSetB(s, b) : Outcome(s, r)
  BY <1>1, ChangeBMoves
<1>5. \A r : Outcome(s, r) => \A f \in ComputeCholesky(r.q) : Factorisation(r.q, f)
  BY CholeskyFactored DEF Outcome, Moved
<1>6. \/ \E d : d \notin {"OK", "MAX_NWSR_REACHED"} /\ SolveReturns(Performing, d)
      \/ SolveReturns(Arrived(Performing, loc), "OK")
      \/ StepFailed(s, "OPTIMAL_SOLUTION_FOUND")
      \/ \E r : Outcome(s, r) /\ r.ret # "OK" /\ StepFailed(r.q, r.ret)
      \/ \E r, f : Outcome(s, r) /\ r.ret = "OK" /\ (f = r \/ Factorisation(r.q, f)) /\ NextIteration(f, TRUE)
  BY <1>2, <1>3, <1>4, <1>5, Zenon
<1> QED BY <1>1, <1>6, IterationInv, Zenon DEF s

LEMMA IterateInv ==
  ASSUME Inv, Iterate
  PROVE  Inv'
<1> DEFINE s == Stepped(Performing)
<1>1. Iterating /\ Good(s)
  BY IterationBegins DEF Iterate
<1>2. \/ \E d \in StepDirection(qp) \ {"OK"} : SolveReturns(Performing, d)
      \/ SolveReturns(Arrived(Performing, loc), "OK")
      \/ \E f : (f = Out(s, "OK") \/ f \in ComputeProjectedCholesky(Out(s, "OK").q)) /\ NextIteration(f, FALSE)
      \/ \E b \in DualBlocks(s) \cup PrimalBlocks(s) : \E r \in ChangeActiveSet(s, b) :
           \/ r.ret # "OK" /\ StepFailed(r.q, r.ret)
           \/ r.ret = "OK" /\ \E f : (f = r \/ f \in ComputeProjectedCholesky(r.q)) /\ NextIteration(f, TRUE)
  BY Zenon DEF Iterate, ChangeWorkingSet, Refactorised, PerformStep
<1> HIDE DEF s
<1>3. \A d \in StepDirection(qp) \ {"OK"} : d \notin {"OK", "MAX_NWSR_REACHED"}
  BY StepDirections
<1>4. \A b \in DualBlocks(s) \cup PrimalBlocks(s) : \A r \in ChangeActiveSet(s, b) : Outcome(s, r)
  <2>1. DualBlocks(s) \cup PrimalBlocks(s) \subseteq Blocks(s, Idx)
    BY DEF DualBlocks, PrimalBlocks
  <2> QED BY <1>1, <2>1, ChangeMoves
<1>5. \A r : Outcome(s, r) => \A f \in ComputeProjectedCholesky(r.q) : Factorisation(r.q, f)
  BY ProjectedCholeskyFactored DEF Outcome, Moved
<1>6. \A f \in ComputeProjectedCholesky(Out(s, "OK").q) : Factorisation(s, f)
  BY <1>1, ProjectedCholeskyFactored DEF Out
<1>7. \/ \E d : d \notin {"OK", "MAX_NWSR_REACHED"} /\ SolveReturns(Performing, d)
      \/ SolveReturns(Arrived(Performing, loc), "OK")
      \/ \E f : (f = Out(s, "OK") \/ Factorisation(s, f)) /\ NextIteration(f, FALSE)
      \/ \E r : Outcome(s, r) /\ r.ret # "OK" /\ StepFailed(r.q, r.ret)
      \/ \E r, f : Outcome(s, r) /\ r.ret = "OK" /\ (f = r \/ Factorisation(r.q, f)) /\ NextIteration(f, TRUE)
  BY <1>2, <1>3, <1>4, <1>5, <1>6, Zenon
<1> QED BY <1>1, <1>7, IterationInv, Zenon DEF s

LEMMA AfterSolveQPInv ==
  ASSUME Inv, pc = "solved", use' = use, AfterSolveQP
  PROVE  Inv'
<1> DEFINE x == [loc EXCEPT !.step = @ + 1]
           y == [loc EXCEPT !.step = 0]
<1>1. ObjectOK /\ IsCall(loc) /\ qp.opt.steps \in Nat /\ loc.step <= qp.opt.steps
  BY DEF Inv, ObjectOK
<1>2. \/ loc.ret = "OK" /\ loc.step < qp.opt.steps /\ Goto("solve", qp, x)
      \/ Goto("far", qp, y)
  BY Zenon DEF AfterSolveQP
<1>3. loc.step \in Nat
  BY <1>1 DEF IsCall
<1>4. IsCall(x) /\ x.step = loc.step + 1 /\ x.aux = loc.aux /\ x.iter = loc.iter /\ x.max = loc.max
  BY <1>1, <1>3 DEF IsCall
<1>5. IsCall(y) /\ y.step = 0 /\ y.aux = loc.aux /\ y.iter = loc.iter /\ y.max = loc.max /\ y.ret = loc.ret
  BY <1>1 DEF IsCall
<1> HIDE DEF x, y
<1>6. ASSUME loc.ret = "OK", loc.step < qp.opt.steps, Goto("solve", qp, x) PROVE Inv'
  <2>1. ObjectOK'
    BY <1>1, <1>3, <1>4, <1>6, GotoObject DEF ObjectOK, Guessing
  <2>2. FlowOK'
    BY <1>4, <1>6 DEF Inv, Goto, FlowOK, SuccessMeansSolved, UsableAtTheLimit, IterationsLeft
  <2> QED BY <2>1, <2>2 DEF Inv
<1>7. ASSUME Goto("far", qp, y) PROVE Inv'
  <2>1. ObjectOK'
    BY <1>1, <1>5, <1>7, GotoObject DEF ObjectOK, Guessing
  <2>2. FlowOK'
    BY <1>5, <1>7 DEF Inv, Goto, FlowOK, SuccessMeansSolved, UsableAtTheLimit, IterationsLeft, AtSolution
  <2> QED BY <2>1, <2>2 DEF Inv
<1> QED BY <1>2, <1>6, <1>7, Zenon

LEMMA AfterFarBoundsInv ==
  ASSUME Inv, pc = "far", use' = use, AfterFarBounds
  PROVE  Inv'
<1> DEFINE q == [qp EXCEPT !.qps = "HOMOTOPYQPSOLVED"]
           u == [q EXCEPT !.unb = TRUE]
           x == [loc EXCEPT !.ret = "HOTSTART_STOPPED_INFEASIBILITY"]
           y == [loc EXCEPT !.ret = "HOTSTART_STOPPED_UNBOUNDEDNESS"]
<1>1. ObjectOK /\ IsCall(loc) /\ Good(qp)
  BY DEF Inv, ObjectOK
<1>2. \/ Goto("end", qp, loc)
      \/ Goto("end", qp, x)
      \/ qp.inf /\ loc.far # MaxFar /\ Goto("solve", qp, Farther)
      \/ qp.qps = "SOLVED" /\ Goto("end", u, y)
      \/ qp.qps = "SOLVED" /\ loc.far # MaxFar /\ Goto("solve", q, Farther)
  BY Zenon DEF AfterFarBounds
<1>3. Kept(qp, q)
  BY <1>1, PhaseKept DEF QPStatuses
<1>4. Good(u) /\ u.opt.drop = qp.opt.drop /\ u.opt.steps = qp.opt.steps
  <2> HIDE DEF q
  <2> QED BY <1>3 DEF Kept, Good, QPs, Agreeing
<1>5. /\ IsCall(x) /\ x.step = loc.step /\ x.aux = loc.aux /\ x.ret = "HOTSTART_STOPPED_INFEASIBILITY"
      /\ IsCall(y) /\ y.step = loc.step /\ y.aux = loc.aux /\ y.ret = "HOTSTART_STOPPED_UNBOUNDEDNESS"
  BY <1>1, CallFields
<1> HIDE DEF q, u, x, y
<1>6. ASSUME Goto("end", qp, loc) PROVE Inv'
  <2>1. ObjectOK'
    BY <1>1, <1>6, GotoObject DEF ObjectOK
  <2>2. FlowOK'
    BY <1>6 DEF Inv, Goto, FlowOK, SuccessMeansSolved, UsableAtTheLimit, AtSolution, Startable
  <2> QED BY <2>1, <2>2 DEF Inv
<1>7. ASSUME Goto("end", qp, x) PROVE Inv'
  <2>1. ObjectOK'
    BY <1>1, <1>5, <1>7, GotoObject DEF ObjectOK, Guessing
  <2>2. FlowOK'
    BY <1>5, <1>7 DEF Inv, Goto, FlowOK, SuccessMeansSolved, UsableAtTheLimit
  <2> QED BY <2>1, <2>2 DEF Inv
<1>8. ASSUME Goto("end", u, y) PROVE Inv'
  <2>1. ObjectOK'
    BY <1>1, <1>4, <1>5, <1>8, GotoObject DEF ObjectOK, Guessing
  <2>2. FlowOK'
    BY <1>5, <1>8 DEF Inv, Goto, FlowOK, SuccessMeansSolved, UsableAtTheLimit
  <2> QED BY <2>1, <2>2 DEF Inv
<1>9. ASSUME loc.far # MaxFar, qp.inf \/ qp.qps = "SOLVED", NEW p \in {qp, q}, Goto("solve", p, Farther) PROVE Inv'
  <2> DEFINE n == loc.far + (IF qp.opt.grows THEN 1 ELSE 0)
             l == [loc EXCEPT !.far = n]
  <2>1. n \in Nat /\ n <= MaxFar
    BY <1>1, <1>9, QProblemBAssumption DEF IsCall
  <2>2. Farther = l
    BY <1>1 DEF Farther, IsCall
  <2> HIDE DEF n
  <2>3. IsCall(l) /\ l.step = loc.step /\ l.aux = loc.aux /\ l.iter = loc.iter /\ l.max = loc.max
    BY <1>1, <2>1, CallFields
  <2> HIDE DEF l
  <2>4. Kept(qp, p)
    BY <1>1, <1>3, <1>9, KeptRefl
  <2>5. ObjectOK'
    BY <1>1, <1>9, <2>2, <2>3, <2>4, GotoObject DEF ObjectOK, Guessing, Kept
  <2>6. IterationsLeft
    BY <1>9 DEF Inv, FlowOK, IterationsLeft
  <2>7. FlowOK'
    BY <1>9, <2>2, <2>3, <2>6 DEF Goto, FlowOK, SuccessMeansSolved, UsableAtTheLimit, IterationsLeft
  <2> QED BY <2>5, <2>7 DEF Inv
<1> QED BY <1>2, <1>6, <1>7, <1>8, <1>9, Zenon

LEMMA EndInv ==
  ASSUME Inv, EndB \/ End
  PROVE  Inv'
<1> DEFINE ret == IF loc.call = "init" THEN InitReturns(qp, loc.ret) ELSE loc.ret
<1>1. ObjectOK /\ IsCall(loc) /\ Good(qp) /\ pc = "end" /\ use' = use /\ qp' = qp /\ Return(loc, ret)
  BY DEF Inv, ObjectOK, EndB, End
<1>2. /\ pc' = "idle" /\ loc'.call = loc.call /\ loc'.wrong = loc.wrong /\ loc'.max = loc.max /\ loc'.ret = ret
  BY <1>1, ReturnedCall, Zenon
<1>3. SuccessMeansSolved'
  <2> SUFFICES ASSUME ret = "OK", loc.call = "init" \/ loc.wrong = {}
               PROVE  AtSolution
    BY <1>1, <1>2 DEF SuccessMeansSolved, AtSolution, GetPrimalSolution, GetDualSolution, GetDualSolutionB, GetObjVal,
                      Startable
  <2>1. loc.ret = "OK" /\ (loc.call = "init" => ~qp.inf)
    BY DEF InitReturns
  <2> QED BY <1>1, <2>1 DEF Inv, FlowOK
<1>4. UsableAtTheLimit'
  <2> SUFFICES ASSUME ret = "MAX_NWSR_REACHED", loc.max > 0
               PROVE  Startable(qp)
    BY <1>1, <1>2 DEF UsableAtTheLimit, GetPrimalSolution
  <2>1. loc.ret = "MAX_NWSR_REACHED"
    BY DEF InitReturns
  <2> QED BY <1>1, <2>1 DEF Inv, FlowOK
<1> HIDE DEF ret
<1> QED BY <1>1, <1>3, <1>4, ReturnInv DEF ObjectOK

-----------------------------------------------------------------------------
(* All together.                                                           *)

LEMMA MakesACallInv ==
  ASSUME Inv, MakesACall
  PROVE  Inv'
<1>1. ObjectOK /\ use \in UseRecords
  BY DEF Inv, ObjectOK
<1>2. use.starts \subseteq AllStarts /\ \A g \in use.guesses \cup {NoCall.aux} : g \in [Idx -> Held \cup {"INACTIVE"}]
  BY <1>1 DEF UseRecords, NoCall
<1>3. NoCall.aux \in [Idx -> Held \cup {"INACTIVE"}] /\ "cold" \in AllStarts /\ "guess" \in AllStarts
  BY <1>2 DEF AllStarts
<1>4. ASSUME NEW start \in use.starts, NEW H \in use.matrices, NEW g \in use.guesses \cup {NoCall.aux},
             NEW l \in Calls("init", start, g), InitB(l, H) \/ Init_(l, H)
      PROVE  Inv'
  <2>1. NewCall(l)
    BY <1>1, <1>2, <1>4, CallsAreNew
  <2> QED BY <1>4, <2>1, InitBInv, InitQPInv
<1>5. ASSUME NEW l \in Calls("hotstart", "cold", NoCall.aux), HotstartB(l) \/ Hotstart(l)
      PROVE  Inv'
  <2>1. NewCall(l)
    BY <1>1, <1>3, <1>5, CallsAreNew
  <2> QED BY <1>5, <2>1, HotstartBInv, HotstartInv
<1>6. ASSUME NEW g \in use.guesses, NEW l \in Calls("hotstart", "guess", g),
             \/ HotstartB(l)
             \/ \E alias \in {{}, Vars, Cons} : Hotstart([l EXCEPT !.alias = alias])
      PROVE  Inv'
  <2>1. NewCall(l)
    BY <1>1, <1>2, <1>3, <1>6, CallsAreNew
  <2>2. ASSUME NEW alias \in {{}, Vars, Cons}, Hotstart([l EXCEPT !.alias = alias]) PROVE Inv'
    <3>1. NewCall([l EXCEPT !.alias = alias])
      BY <2>1, Partition, AliasedIsNew
    <3> QED BY <2>2, <3>1, HotstartInv, Zenon
  <2> QED BY <1>6, <2>1, <2>2, HotstartBInv, Zenon
<1>7. ASSUME NEW H \in use.matrices, NEW l \in Calls("matrices", "cold", NoCall.aux), HotstartMatrices(l, H)
      PROVE  Inv'
  <2>1. NewCall(l)
    BY <1>1, <1>3, <1>7, CallsAreNew
  <2> QED BY <1>7, <2>1, HotstartMatricesInv
<1> QED BY <1>4, <1>5, <1>6, <1>7, Zenon DEF MakesACall

LEMMA FileCallsInv ==
  ASSUME Inv, CallsWithUnreadableFiles
  PROVE  Inv'
<1> DEFINE L(call) == [[NoCall EXCEPT !.calls = loc.calls + 1] EXCEPT !.call = call]
<1>1. NewCall(L("init")) /\ NewCall(L("hotstart"))
  BY FileCallsAreNew DEF Inv
<1>2. \/ InitFromFileB(L("init")) \/ InitFromFile(L("init"))
      \/ HotstartFromFileB(L("hotstart")) \/ HotstartFromFile(L("hotstart"))
  BY Zenon DEF CallsWithUnreadableFiles
<1> HIDE DEF L
<1> QED BY <1>1, <1>2, FileInv

LEMMA NextInv ==
  ASSUME Inv, [Next]_vars
  PROVE  Inv'
<1>1. CASE Call
  <2>1. ASSUME SetHessianType("INDEF") PROVE Inv'
    BY <2>1, SetHessianTypeInv DEF HessianTypes
  <2> QED BY <1>1, <2>1, AssignInv, MakesACallInv, FileCallsInv DEF Call
<1>2. CASE StepB
  <2>1. ASSUME SolveRegularisedQPB PROVE Inv'
    BY <2>1, AfterSolveQPInv DEF SolveRegularisedQPB
  <2>2. ASSUME FarBoundsB PROVE Inv'
    BY <2>2, AfterFarBoundsInv DEF FarBoundsB
  <2> QED BY <1>2, <2>1, <2>2, SolveInitialQPBInv, StartHotstartInv, SolveQPBInv, LimitReachedInv, IterateBInv, EndInv
          DEF StepB
<1>3. CASE Step /\ ~StepB
  <2>1. ASSUME SolveRegularisedQP PROVE Inv'
    BY <2>1, AfterSolveQPInv DEF SolveRegularisedQP
  <2>2. ASSUME FarBounds PROVE Inv'
    BY <2>2, AfterFarBoundsInv DEF FarBounds
  <2> QED BY <1>3, <2>1, <2>2, SolveInitialQPInv, AdaptWorkingSetInv, EnterInitialHotstartInv, FinishGuessInv,
             FinishMatricesInv, StartHotstartInv, SolveQPInv, UpdateActivitiesInv, IterateInv, EndInv DEF Step
<1>4. CASE UNCHANGED vars
  BY <1>4 DEF vars, Inv, ObjectOK, FlowOK, IterationsLeft, AtSolution, SuccessMeansSolved, UsableAtTheLimit
<1> QED BY <1>1, <1>2, <1>3, <1>4 DEF Next

(* The index lists are those that getWorkingSet() reports.                 *)
LEMMA InvTypeOK == ASSUME Inv PROVE TypeOK
<1>1. /\ ObjectOK /\ qp \in QPs /\ Agreeing(qp) /\ qp.opt.drop = use.opt.drop /\ qp.opt.steps \in Nat
      /\ loc.step <= qp.opt.steps /\ IsCall(loc)
  BY DEF Inv, ObjectOK, Good
<1>2. /\ qp.opt \in OptionRecords /\ qp.qps \in QPStatuses /\ qp.held \subseteq Idx
      /\ qp.data \in [Idx -> AllKinds \cup {"unknown"}] /\ qp.st \in [Idx -> Statuses] /\ qp.type \in [Idx -> Types]
      /\ qp.hess \in HessianTypes /\ {qp.chol, qp.reg, qp.inf, qp.unb} \subseteq BOOLEAN
  BY <1>1 DEF QPs
<1>3. loc.iter \in 0 .. loc.max /\ loc.far \in 0 .. MaxFar /\ loc.step \in 0 .. qp.opt.steps
  BY <1>1, QProblemBAssumption DEF IsCall
<1>4. ASSUME ~use.opt.drop PROVE qp.held = {i \in Idx : GetWorkingSet(qp)[i] # 0}
  <2>1. qp.held = {i \in Idx : qp.st[i] \in Held}
    BY <1>1, <1>4 DEF Agreeing
  <2>2. ASSUME NEW i \in Idx PROVE GetWorkingSet(qp)[i] = Sides(qp.st[i])
    BY DEF GetWorkingSet, GetWorkingSetB
  <2>3. ASSUME NEW i \in Idx PROVE Sides(qp.st[i]) # 0 <=> qp.st[i] \in Held
    BY DEF Sides, Held
  <2> QED BY <2>1, <2>2, <2>3
<1> QED BY <1>2, <1>3, <1>4 DEF TypeOK

(* The invariant holds after any sequence of calls: the object is one of   *)
(* its kind and its lists agree with its statuses, and wherever a call is, *)
(* its flags, its phase and the iterations it has left say what it may     *)
(* still report.                                                           *)
THEOREM ObjectInvariant == Spec => []Inv
<1>1. InitState => Inv
  BY InitInv
<1>2. Inv /\ [Next]_vars => Inv'
  BY NextInv
<1> QED BY <1>1, <1>2, PTL DEF Spec

(* The lists of fixed variables and of active constraints hold exactly the *)
(* indices that getWorkingSet() reports, through every exchange, flip and  *)
(* failed removal, unless enableDropInfeasibles is set; no iteration,      *)
(* growth of the far bounds or regularisation step is one too many.        *)
THEOREM ListsAreTheWorkingSet == Spec => []TypeOK
<1>1. Inv => TypeOK
  BY InvTypeOK
<1> QED BY <1>1, ObjectInvariant, PTL

(* init(), hotstart(): a call that returns SUCCESSFUL_RETURN leaves the    *)
(* solution of the QP it was given, to be read, and neither flag set.      *)
THEOREM SuccessIsASolution == Spec => []SuccessMeansSolved
<1>1. Inv => SuccessMeansSolved
  BY DEF Inv, FlowOK
<1> QED BY <1>1, ObjectInvariant, PTL

(* RET_MAX_NWSR_REACHED: whoever allowed any iteration finds the solution  *)
(* of the last QP on the way, and may hotstart from it.                    *)
THEOREM TheLimitLeavesASolution == Spec => []UsableAtTheLimit
<1>1. Inv => UsableAtTheLimit
  BY DEF Inv, FlowOK
<1> QED BY <1>1, ObjectInvariant, PTL

-----------------------------------------------------------------------------
(* Equalities.                                                             *)

(* p holds what q holds, i aside.                                          *)
LosesOnly(q, p, i) == q.held \ {i} \subseteq p.held

LEMMA HeldAfter ==
  ASSUME NEW q, Good(q), NEW i, NEW s
  PROVE  /\ Leave(q, i).held = q.held \ {i} /\ Flipped(q, i).held = q.held /\ Enter(q, i, s).held = q.held \cup {i}
         /\ [q EXCEPT !.hess = "SEMIDEF"].held = q.held /\ [q EXCEPT !.unb = TRUE].held = q.held
         /\ [q EXCEPT !.inf = TRUE].held = q.held /\ \A x : [q EXCEPT !.qps = x].held = q.held
         /\ \A x : [q EXCEPT !.data = x].held = q.held
  BY DEF Leave, Flipped, Enter, Good, QPs

LEMMA TakeOutLoses ==
  ASSUME NEW q, Good(q), NEW i \in Idx, NEW chol, NEW flip, NEW exchange, flip => q.opt.drop \/ i \in q.held
  PROVE  /\ \A r \in TakeOutBound(q, i, chol, flip, exchange) : LosesOnly(q, r.q, i)
         /\ \A r \in TakeOutConstraint(q, i, chol, flip, exchange) : LosesOnly(q, r.q, i)
         /\ \A r \in TakeOut(q, i, chol, flip, exchange) : LosesOnly(q, r.q, i)
<1> DEFINE p == Leave(q, i)
           f == Flipped(q, i)
           qs == [q EXCEPT !.hess = "SEMIDEF"]
           ps == [p EXCEPT !.hess = "SEMIDEF"]
           fs == [f EXCEPT !.hess = "SEMIDEF"]
<1>1. Good(p) /\ p.held = q.held \ {i} /\ f.held = q.held
  BY HeldAfter, LeaveMoves DEF Moved
<1>2. flip => Good(f)
  BY FlippedMoves DEF Moved
<1> HIDE DEF p, f
<1>3. LosesOnly(q, qs, i) /\ LosesOnly(q, ps, i) /\ (flip => LosesOnly(q, fs, i)) /\ LosesOnly(q, p, i) /\ LosesOnly(q, q, i)
  BY <1>1, <1>2, HeldAfter DEF LosesOnly
<1>4. ASSUME NEW r \in TakeOutBound(q, i, chol, flip, exchange) \cup TakeOutConstraint(q, i, chol, flip, exchange)
      PROVE  r.q \in {p, q, ps, qs} \/ (flip /\ r.q = fs)
  BY DEF TakeOutBound, TakeOutConstraint, Singular, Out, p, f
<1> HIDE DEF qs, ps, fs
<1>5. \A r \in TakeOutBound(q, i, chol, flip, exchange) \cup TakeOutConstraint(q, i, chol, flip, exchange) : LosesOnly(q, r.q, i)
  BY <1>3, <1>4
<1> QED BY <1>5 DEF TakeOut

(* ensureLI() takes nothing but what the ratio test on the dual variables  *)
(* picks, which is no equality.                                            *)
KeepsEqualities(q, p) == \A k \in q.held : q.type[k] = "EQUALITY" => k \in p.held

LEMMA ResolveKeeps ==
  ASSUME NEW q, Good(q), ~q.opt.drop, NEW i \in Idx, NEW s, NEW r \in Resolve(q, i, s)
  PROVE  KeepsEqualities(q, r.q)
<1>1. \/ r = Out(q, "ENSURELI_FAILED")
      \/ \E j \in PerformPlainRatioTest(q) : \E u \in TakeOut(q, j, TRUE, FALSE, FALSE) :
           r = u \/ r = Out(u.q, "ENSURELI_FAILED")
      \/ r = SetInfeasibilityFlag(q, "NOINDEX")
  BY DEF Resolve
<1>2. ASSUME NEW j \in PerformPlainRatioTest(q), NEW u \in TakeOut(q, j, TRUE, FALSE, FALSE),
             r = u \/ r = Out(u.q, "ENSURELI_FAILED")
      PROVE  KeepsEqualities(q, r.q)
  <2>1. j \in Idx /\ q.type[j] # "EQUALITY"
    BY DEF PerformPlainRatioTest, Good, QPs
  <2>2. LosesOnly(q, u.q, j)
    BY <2>1, TakeOutLoses
  <2> QED BY <1>2, <2>1, <2>2 DEF LosesOnly, KeepsEqualities, Out
<1>3. ASSUME r = SetInfeasibilityFlag(q, "NOINDEX") PROVE r.q.held = q.held
  <2> DEFINE p == [q EXCEPT !.inf = TRUE]
  <2>1. r = Out(p, "NOINDEX")
    BY <1>3, Zenon DEF SetInfeasibilityFlag
  <2>2. p.held = q.held
    BY HeldAfter
  <2> HIDE DEF p
  <2> QED BY <2>1, <2>2 DEF Out
<1>4. ASSUME r = Out(q, "ENSURELI_FAILED") PROVE r.q.held = q.held
  BY <1>4 DEF Out
<1>5. r.q.held = q.held => KeepsEqualities(q, r.q)
  BY DEF KeepsEqualities
<1> QED BY <1>1, <1>2, <1>3, <1>4, <1>5, Zenon

LEMMA AddKeeps ==
  ASSUME NEW q, Good(q), ~q.opt.drop, NEW i \in Idx, NEW s, NEW ensureLI, NEW r \in Add(q, i, s, ensureLI)
  PROVE  KeepsEqualities(q, r.q)
<1> DEFINE C == IF ensureLI THEN AddConstraintEnsureLI(q, i, s) ELSE {Out(q, "OK")}
           B == IF ensureLI THEN AddBoundEnsureLI(q, i, s) ELSE {Out(q, "OK")}
<1>1. \A u \in C \cup B : u = Out(q, "OK") \/ u \in Resolve(q, i, s)
  BY DEF AddConstraintEnsureLI, AddBoundEnsureLI
<1>2. \A u \in C \cup B : KeepsEqualities(q, u.q) /\ Good(u.q)
  BY <1>1, ResolveKeeps, ResolveMoves DEF KeepsEqualities, Out, Outcome, Moved
<1>3. r.q = q \/ \E u \in C \cup B : r.q = u.q \/ r.q = Enter(u.q, i, s)
  <2> HIDE DEF C, B
  <2>1. \/ r.q = q \/ r \in Entered(C, i, s, "ADDCONSTRAINT_FAILED_INFEASIBILITY")
        \/ r \in Entered(B, i, s, "ADDBOUND_FAILED_INFEASIBILITY")
    BY DEF Add, AddBound, AddConstraint, Out, C, B
  <2> QED BY <2>1 DEF Entered, Out
<1> HIDE DEF C, B
<1> QED BY <1>2, <1>3, HeldAfter DEF KeepsEqualities

LEMMA UntestedHolds ==
  ASSUME NEW q, Good(q), NEW i \in Idx, NEW s, NEW r \in Add(q, i, s, FALSE)
  PROVE  q.held \subseteq r.q.held
<1>1. r.q = q \/ r.q = Enter(q, i, s)
  BY DEF Add, AddBound, AddConstraint, Entered, Out
<1> QED BY <1>1, HeldAfter

(* removeConstraint(), removeBound(): an index leaves, and an exchange     *)
(* adds another one.                                                       *)
Removal(q, i, chol, flip, r) ==
  \/ r.q = q
  \/ r \in TakeOutBound(q, i, chol, flip, FALSE) \/ r \in TakeOutConstraint(q, i, chol, flip, FALSE)
  \/ \E e \in EnsureNonzeroCurvature(q, i) :
       \/ e.r.ret # "OK" /\ r = e.r
       \/ /\ e.r.ret = "OK"
          /\ r \in TakeOutBound(e.r.q, i, chol, flip, FALSE) \/ r \in TakeOutConstraint(e.r.q, i, chol, flip, FALSE)
       \/ /\ e.r.ret = "OK" /\ e.x # NoExchange
          /\ \E u \in TakeOutBound(e.r.q, i, chol, flip, TRUE) \cup TakeOutConstraint(e.r.q, i, chol, flip, TRUE) :
               \/ r = u
               \/ u.ret = "OK" /\ r = Out(u.q, "OK")
               \/ u.ret = "OK" /\ \E v \in Add(u.q, e.x.i, e.x.s, FALSE) : r = Out(v.q, "OK")

LEMMA RemoveCases ==
  ASSUME NEW q, NEW i \in Idx, NEW chol, NEW flip, NEW nzc, NEW r \in Remove(q, i, chol, flip, nzc)
  PROVE  Removal(q, i, chol, flip, r)
<1> USE DEF Removal
<1>1. CASE i \notin Vars
  <2>1. r \in RemoveConstraint(q, i, chol, flip, nzc)
    BY <1>1 DEF Remove
  <2>2. CASE ~Busy(q) \/ i \notin q.held
    <3>1. r.q = q
      <4>1. \E x \in {"UNKNOWN_BUG", "CONSTRAINT_NOT_ACTIVE", "BOUND_NOT_ACTIVE"} : r = Out(q, x)
        BY <2>1, <2>2 DEF RemoveConstraint
      <4> QED BY <4>1 DEF Out
    <3> QED BY <3>1, Zenon
  <2>3. CASE Busy(q) /\ i \in q.held /\ ~nzc
    BY <2>1, <2>3 DEF RemoveConstraint
  <2>4. CASE Busy(q) /\ i \in q.held /\ nzc
    <3>1. PICK e \in EnsureNonzeroCurvature(q, i) :
            r \in IF e.r.ret # "OK" THEN {e.r}
                  ELSE IF e.x = NoExchange THEN TakeOutConstraint(e.r.q, i, chol, flip, FALSE)
                  ELSE UNION {IF u.ret = "OK" THEN Ignoring(Add(u.q, e.x.i, e.x.s, FALSE)) ELSE {u}
                               : u \in TakeOutConstraint(e.r.q, i, chol, flip, TRUE)}
      BY <2>1, <2>4 DEF RemoveConstraint, Then
    <3>2. \/ e.r.ret # "OK" /\ r = e.r
          \/ e.r.ret = "OK" /\ r \in TakeOutConstraint(e.r.q, i, chol, flip, FALSE)
          \/ /\ e.r.ret = "OK" /\ e.x # NoExchange
             /\ \E u \in TakeOutConstraint(e.r.q, i, chol, flip, TRUE) :
                  r = u \/ (u.ret = "OK" /\ \E v \in Add(u.q, e.x.i, e.x.s, FALSE) : r = Out(v.q, "OK"))
      BY <3>1, Zenon DEF Ignoring
    <3> QED BY <3>2, Zenon
  <2> QED BY <2>2, <2>3, <2>4
<1>2. CASE i \in Vars
  <2>1. r \in RemoveBound(q, i, chol, flip, nzc)
    BY <1>2 DEF Remove
  <2>2. CASE ~Busy(q) \/ q.st[i] = "INACTIVE"
    <3>1. r.q = q
      <4>1. \E x \in {"UNKNOWN_BUG", "CONSTRAINT_NOT_ACTIVE", "BOUND_NOT_ACTIVE"} : r = Out(q, x)
        BY <2>1, <2>2 DEF RemoveBound
      <4> QED BY <4>1 DEF Out
    <3> QED BY <3>1, Zenon
  <2>3. CASE Busy(q) /\ q.st[i] # "INACTIVE" /\ ~nzc
    BY <2>1, <2>3 DEF RemoveBound
  <2>4. CASE Busy(q) /\ q.st[i] # "INACTIVE" /\ nzc
    <3>1. PICK e \in EnsureNonzeroCurvature(q, i) :
            r \in IF e.r.ret # "OK" THEN {e.r}
                  ELSE IF e.x = NoExchange THEN TakeOutBound(e.r.q, i, chol, flip, FALSE)
                  ELSE UNION {IF u.ret = "OK" THEN BoundExchanged(u.q, chol, e.x) ELSE {u}
                               : u \in TakeOutBound(e.r.q, i, chol, flip, TRUE)}
      BY <2>1, <2>4 DEF RemoveBound, Then, BoundExchanged
    <3>2. \/ e.r.ret # "OK" /\ r = e.r
          \/ e.r.ret = "OK" /\ r \in TakeOutBound(e.r.q, i, chol, flip, FALSE)
          \/ /\ e.r.ret = "OK" /\ e.x # NoExchange
             /\ \E u \in TakeOutBound(e.r.q, i, chol, flip, TRUE) :
                  \/ r = u \/ (u.ret = "OK" /\ r = Out(u.q, "OK"))
                  \/ u.ret = "OK" /\ \E v \in Add(u.q, e.x.i, e.x.s, FALSE) : r = Out(v.q, "OK")
      BY <3>1, Zenon DEF Ignoring, BoundExchanged
    <3> QED BY <3>2, Zenon
  <2> QED BY <2>2, <2>3, <2>4
<1> QED BY <1>1, <1>2

LEMMA RemoveLoses ==
  ASSUME NEW q, Good(q), NEW i \in Idx, NEW chol, NEW flip, NEW nzc, flip => q.opt.drop \/ i \in q.held,
         NEW r \in Remove(q, i, chol, flip, nzc)
  PROVE  LosesOnly(q, r.q, i)
<1>1. Removal(q, i, chol, flip, r)
  BY RemoveCases
<1>2. LosesOnly(q, q, i)
  BY DEF LosesOnly
<1>3. ASSUME r \in TakeOutBound(q, i, chol, flip, FALSE) \/ r \in TakeOutConstraint(q, i, chol, flip, FALSE)
      PROVE  LosesOnly(q, r.q, i)
  BY <1>3, TakeOutLoses
<1>4. ASSUME NEW e \in EnsureNonzeroCurvature(q, i), e.r.ret # "OK" PROVE e.r.q.held = q.held
  <2>1. e.r.q \in {q, [q EXCEPT !.unb = TRUE]}
    BY DEF EnsureNonzeroCurvature, Out
  <2> QED BY <2>1, HeldAfter
<1>5. ASSUME NEW e \in EnsureNonzeroCurvature(q, i), e.r.ret = "OK" PROVE e.r.q = q /\ (e.x # NoExchange => e.x.i \in Idx)
  BY <1>5, Exchanges
<1>6. ASSUME NEW u \in TakeOutBound(q, i, chol, flip, TRUE) \cup TakeOutConstraint(q, i, chol, flip, TRUE)
      PROVE  LosesOnly(q, u.q, i) /\ Good(u.q)
  BY TakeOutLoses, TakeOutMoves DEF Outcome, Moved
<1>7. ASSUME NEW e \in EnsureNonzeroCurvature(q, i), e.r.ret = "OK", e.x # NoExchange,
             NEW u \in TakeOutBound(q, i, chol, flip, TRUE) \cup TakeOutConstraint(q, i, chol, flip, TRUE),
             NEW v \in Add(u.q, e.x.i, e.x.s, FALSE), r = Out(v.q, "OK")
      PROVE  LosesOnly(q, r.q, i)
  BY <1>5, <1>6, <1>7, UntestedHolds DEF LosesOnly, Out
<1>8. ASSUME NEW e \in EnsureNonzeroCurvature(q, i), e.r.ret # "OK", r = e.r PROVE LosesOnly(q, r.q, i)
  BY <1>4, <1>8 DEF LosesOnly
<1>9. ASSUME NEW u, LosesOnly(q, u.q, i), r = u \/ r = Out(u.q, "OK") PROVE LosesOnly(q, r.q, i)
  BY <1>9 DEF Out
<1>10. ASSUME r.q = q PROVE LosesOnly(q, r.q, i)
  BY <1>2, <1>10
<1> HIDE DEF LosesOnly
<1> QED BY <1>1, <1>3, <1>5, <1>6, <1>7, <1>8, <1>9, <1>10, Zenon DEF Removal

LEMMA ChangeKeeps ==
  ASSUME NEW q, Good(q), ~q.opt.drop, NEW b \in Blocks(q, Idx), NEW r \in ChangeActiveSet(q, b)
  PROVE  KeepsEqualities(q, r.q)
<1>0. Idx \in SUBSET Idx
  OBVIOUS
<1>1. CASE b.s = "INACTIVE"
  <2>1. PICK u \in Remove(q, b.i, TRUE, TRUE, q.opt.nzc) : r = u \/ r = Out(u.q, "REMOVE_FROM_ACTIVESET_FAILED")
    BY <1>1 DEF ChangeActiveSet
  <2>2. b.i \in Idx /\ b.i \in q.held /\ q.type[b.i] # "EQUALITY"
    BY <1>0, <1>1, Blocking
  <2>3. LosesOnly(q, u.q, b.i)
    BY <2>2, RemoveLoses
  <2> QED BY <2>1, <2>2, <2>3 DEF LosesOnly, KeepsEqualities, Out
<1>2. CASE b.s # "INACTIVE"
  <2>1. PICK u \in Add(q, b.i, b.s, TRUE) : r = u \/ r = Out(u.q, "ADD_TO_ACTIVESET_FAILED")
    BY <1>2 DEF ChangeActiveSet
  <2>2. KeepsEqualities(q, u.q)
    BY <1>0, Blocking, AddKeeps
  <2> QED BY <2>1, <2>2 DEF KeepsEqualities, Out
<1> QED BY <1>1, <1>2

LEMMA ChangeBKeeps ==
  ASSUME NEW q, Good(q), NEW b \in Blocks(q, Vars), NEW r \in ChangeActiveSetB(q, b)
  PROVE  KeepsEqualities(q, r.q)
<1>0. /\ b.i \in Idx
      /\ b.s = "INACTIVE" <=> b.i \in q.held
      /\ b.s = "INACTIVE" => q.type[b.i] # "EQUALITY"
  <2>1. Vars \in SUBSET Idx
    BY DEF Idx
  <2> QED BY <2>1, Blocking
<1>1. CASE b.s = "INACTIVE"
  <2> DEFINE p == Leave(q, b.i)
             f == Flipped(q, b.i)
             ps == [p EXCEPT !.hess = "SEMIDEF"]
             fs == [f EXCEPT !.hess = "SEMIDEF"]
  <2>1. PICK u \in RemoveBoundB(q, b.i) : r = u \/ r = Out(u.q, "REMOVE_FROM_ACTIVESET_FAILED")
    BY <1>1 DEF ChangeActiveSetB
  <2>2. Good(p) /\ Good(f)
    BY <1>0, <1>1, LeaveMoves, FlippedMoves DEF Moved
  <2>2a. p.held = q.held \ {b.i} /\ f.held = q.held
    BY HeldAfter
  <2>3. ps.held = p.held /\ fs.held = f.held
    <3> HIDE DEF p, f
    <3> QED BY <2>2, HeldAfter
  <2>4. u.q \in {q, p, f, ps, fs}
    <3>1. u \in {Out(q, "UNKNOWN_BUG"), Out(p, "OK"), Out(f, "OK"), Out(p, "REMOVEBOUND_FAILED"), Out(fs, "OK"),
                 Out(ps, "HESSIAN_NOT_SPD")}
      BY DEF RemoveBoundB, BacksolveR
    <3> HIDE DEF p, f, ps, fs
    <3> QED BY <3>1 DEF Out
  <2>5. r.q = u.q
    BY <2>1 DEF Out
  <2> HIDE DEF p, f, ps, fs
  <2> QED BY <1>0, <1>1, <2>3, <2>4, <2>5, <2>2a DEF KeepsEqualities
<1>2. CASE b.s # "INACTIVE"
  <2>1. PICK u \in AddBoundB(q, b.i, b.s) : r = u \/ r = Out(u.q, "ADD_TO_ACTIVESET_FAILED")
    BY <1>2 DEF ChangeActiveSetB
  <2>2. u.q = q \/ u.q = Enter(q, b.i, b.s)
    BY DEF AddBoundB, Out
  <2>3. r.q = u.q
    BY <2>1 DEF Out
  <2> QED BY <2>2, <2>3, HeldAfter DEF KeepsEqualities
<1> QED BY <1>1, <1>2

LEMMA CorrectedHolds ==
  ASSUME NEW q, Good(q), NEW blocked, NEW p \in Corrected(q, blocked)
  PROVE  p.held = q.held /\ Good(p)
<1>1. \E I \in {Vars, Idx} : p \in {q, Spread(q, I), MovedToX(q, I)}
  BY DEF Corrected, PerformRampingB, PerformRamping, PerformDriftCorrectionB, PerformDriftCorrection
<1>2. ASSUME NEW I PROVE Spread(q, I).held = q.held /\ MovedToX(q, I).held = q.held
  BY HeldAfter DEF Spread, MovedToX
<1> QED BY <1>1, <1>2, CorrectedKept DEF Kept

LEMMA NextIterationHolds ==
  ASSUME NEW f, Good(f.q), NEW blocked, NextIteration(f, blocked)
  PROVE  qp'.held = f.q.held
<1>1. CASE f.ret = "OK"
  <2>1. PICK q \in Corrected(f.q, blocked) : qp' = [q EXCEPT !.qps = "HOMOTOPYQPSOLVED"]
    BY <1>1, Zenon DEF NextIteration, Goto
  <2> QED BY <2>1, CorrectedHolds, HeldAfter
<1>2. CASE f.ret # "OK"
  BY <1>2 DEF NextIteration, SolveReturns, Goto
<1> QED BY <1>1, <1>2

LEMMA StepFailedHolds ==
  ASSUME NEW q, Good(q), NEW ret, StepFailed(q, ret)
  PROVE  qp'.held = q.held
<1> DEFINE p == [q EXCEPT !.qps = "HOMOTOPYQPSOLVED"]
<1>1. qp' = q \/ qp' = p
  BY Zenon DEF StepFailed, SolveReturns, Goto
<1>2. p.held = q.held
  BY HeldAfter
<1> HIDE DEF p
<1> QED BY <1>1, <1>2

(* What the data move does to the working set.                             *)
LEMMA StepHolds ==
  ASSUME Good(qp)
  PROVE  LET s == Stepped(Performing)
         IN  /\ s.held = qp.held /\ s.type = qp.type /\ s.opt = qp.opt /\ Good(s) /\ Performing.held = qp.held
             /\ Arrived(Performing, loc).held = qp.held
<1> DEFINE p == [qp EXCEPT !.qps = "PERFORMINGHOMOTOPY"]
           d == [i \in Idx |-> "unknown"]
           s == [p EXCEPT !.data = d]
<1>1. Good(p) /\ p.held = qp.held /\ p.type = qp.type /\ p.opt = qp.opt
  BY PhaseKept DEF QPStatuses, Kept, Good, QPs
<1>2. Performing = p
  BY DEF Performing
<1> HIDE DEF p
<1>3. Stepped(p) = s
  BY DEF Stepped
<1> HIDE DEF d
<1>4. s.held = p.held /\ s.type = p.type /\ s.opt = p.opt
  BY <1>1 DEF Good, QPs
<1> HIDE DEF s
<1>5. Good(Stepped(p))
  BY <1>1, SteppedKept DEF Kept
<1>6. Arrived(p, loc).held = p.held
  <2> DEFINE e == Asked(p, loc)
  <2> HIDE DEF e
  <2>1. [p EXCEPT !.data = e, !.qps = "SOLVED"].held = p.held
    BY <1>1 DEF Good, QPs
  <2> QED BY <2>1 DEF Arrived, e
<1> QED BY <1>1, <1>2, <1>3, <1>4, <1>5, <1>6

LEMMA IterationKeeps ==
  ASSUME Good(qp), NEW s, s = Stepped(Performing),
         \/ \E d : SolveReturns(Performing, d)
         \/ SolveReturns(Arrived(Performing, loc), "OK")
         \/ StepFailed(s, "OPTIMAL_SOLUTION_FOUND")
         \/ \E f : (f = Out(s, "OK") \/ Factorisation(s, f)) /\ NextIteration(f, FALSE)
         \/ \E r : Outcome(s, r) /\ KeepsEqualities(s, r.q) /\ StepFailed(r.q, r.ret)
         \/ \E r, f : /\ Outcome(s, r) /\ KeepsEqualities(s, r.q)
                      /\ (f = r \/ Factorisation(r.q, f)) /\ NextIteration(f, TRUE)
  PROVE  KeepsEqualities(qp, qp')
<1>1. s.held = qp.held /\ s.type = qp.type /\ Good(s) /\ Performing.held = qp.held /\ Arrived(Performing, loc).held = qp.held
  BY StepHolds
<1>2. ASSUME qp'.held = qp.held PROVE KeepsEqualities(qp, qp')
  BY <1>2 DEF KeepsEqualities
<1>3. ASSUME NEW d, SolveReturns(Performing, d) PROVE qp'.held = qp.held
  BY <1>1, <1>3 DEF SolveReturns, Goto
<1>4. ASSUME SolveReturns(Arrived(Performing, loc), "OK") PROVE qp'.held = qp.held
  BY <1>1, <1>4 DEF SolveReturns, Goto
<1>5. ASSUME StepFailed(s, "OPTIMAL_SOLUTION_FOUND") PROVE qp'.held = qp.held
  BY <1>1, <1>5, StepFailedHolds
<1>6. ASSUME NEW f, f = Out(s, "OK") \/ Factorisation(s, f), NextIteration(f, FALSE) PROVE qp'.held = qp.held
  <2>1. f.q.held = s.held /\ Good(f.q)
    BY <1>1, <1>6 DEF Factorisation, Factored, Out
  <2> QED BY <1>1, <1>6, <2>1, NextIterationHolds
<1>7. ASSUME NEW r, Outcome(s, r), KeepsEqualities(s, r.q), StepFailed(r.q, r.ret) PROVE KeepsEqualities(qp, qp')
  <2>1. qp'.held = r.q.held
    BY <1>7, StepFailedHolds DEF Outcome, Moved
  <2> QED BY <1>1, <1>7, <2>1 DEF KeepsEqualities
<1>8. ASSUME NEW r, NEW f, Outcome(s, r), KeepsEqualities(s, r.q), f = r \/ Factorisation(r.q, f), NextIteration(f, TRUE)
      PROVE  KeepsEqualities(qp, qp')
  <2>1. f.q.held = r.q.held /\ Good(f.q)
    BY <1>8 DEF Factorisation, Factored, Outcome, Moved
  <2>2. qp'.held = f.q.held
    BY <1>8, <2>1, NextIterationHolds
  <2> QED BY <1>1, <1>8, <2>1, <2>2 DEF KeepsEqualities
<1> QED BY <1>2, <1>3, <1>4, <1>5, <1>6, <1>7, <1>8, Zenon

LEMMA IterateBKeeps ==
  ASSUME Inv, IterateB
  PROVE  KeepsEqualities(qp, qp')
<1> DEFINE s == Stepped(Performing)
<1>1. Good(qp) /\ Good(s)
  BY IterationBegins DEF IterateB, Inv, ObjectOK
<1>2. \/ \E d : SolveReturns(Performing, d)
      \/ SolveReturns(Arrived(Performing, loc), "OK")
      \/ StepFailed(s, "OPTIMAL_SOLUTION_FOUND")
      \/ \E b \in Blocks(s, Vars) : \E r \in ChangeActiveSetB(s, b) :
           \/ StepFailed(r.q, r.ret)
           \/ \E f : (f = r \/ f \in ComputeCholesky(r.q)) /\ NextIteration(f, TRUE)
  BY Zenon DEF IterateB
<1> HIDE DEF s
<1>3. \A b \in Blocks(s, Vars) : \A r \in ChangeActiveSetB(s, b) : Outcome(s, r) /\ KeepsEqualities(s, r.q)
  BY <1>1, ChangeBMoves, ChangeBKeeps
<1>4. \A r : Outcome(s, r) => \A f \in ComputeCholesky(r.q) : Factorisation(r.q, f)
  BY CholeskyFactored DEF Outcome, Moved
<1>5. \/ \E d : SolveReturns(Performing, d)
      \/ SolveReturns(Arrived(Performing, loc), "OK")
      \/ StepFailed(s, "OPTIMAL_SOLUTION_FOUND")
      \/ \E r : Outcome(s, r) /\ KeepsEqualities(s, r.q) /\ StepFailed(r.q, r.ret)
      \/ \E r, f : /\ Outcome(s, r) /\ KeepsEqualities(s, r.q)
                   /\ (f = r \/ Factorisation(r.q, f)) /\ NextIteration(f, TRUE)
  BY <1>2, <1>3, <1>4, Zenon
<1> QED BY <1>1, <1>5, IterationKeeps, Zenon DEF s

LEMMA IterateKeeps ==
  ASSUME Inv, ~use.opt.drop, Iterate
  PROVE  KeepsEqualities(qp, qp')
<1> DEFINE s == Stepped(Performing)
<1>1. Good(qp) /\ Good(s) /\ ~s.opt.drop
  BY StepHolds DEF Inv, ObjectOK
<1>2. \/ \E d : SolveReturns(Performing, d)
      \/ SolveReturns(Arrived(Performing, loc), "OK")
      \/ \E f : (f = Out(s, "OK") \/ f \in ComputeProjectedCholesky(Out(s, "OK").q)) /\ NextIteration(f, FALSE)
      \/ \E b \in DualBlocks(s) \cup PrimalBlocks(s) : \E r \in ChangeActiveSet(s, b) :
           \/ StepFailed(r.q, r.ret)
           \/ \E f : (f = r \/ f \in ComputeProjectedCholesky(r.q)) /\ NextIteration(f, TRUE)
  BY Zenon DEF Iterate, ChangeWorkingSet, Refactorised, PerformStep
<1> HIDE DEF s
<1>3. \A b \in DualBlocks(s) \cup PrimalBlocks(s) : \A r \in ChangeActiveSet(s, b) :
        Outcome(s, r) /\ KeepsEqualities(s, r.q)
  <2>1. DualBlocks(s) \cup PrimalBlocks(s) \subseteq Blocks(s, Idx) /\ Idx \in SUBSET Idx
    BY DEF DualBlocks, PrimalBlocks
  <2>2. \A b \in Blocks(s, Idx) : \A r \in ChangeActiveSet(s, b) : Outcome(s, r)
    BY <1>1, <2>1, ChangeMoves
  <2>3. \A b \in Blocks(s, Idx) : \A r \in ChangeActiveSet(s, b) : KeepsEqualities(s, r.q)
    BY <1>1, ChangeKeeps
  <2> QED BY <2>1, <2>2, <2>3
<1>4. \A r : Outcome(s, r) => \A f \in ComputeProjectedCholesky(r.q) : Factorisation(r.q, f)
  BY ProjectedCholeskyFactored DEF Outcome, Moved
<1>5. \A f \in ComputeProjectedCholesky(Out(s, "OK").q) : Factorisation(s, f)
  BY <1>1, ProjectedCholeskyFactored DEF Out
<1>6. \/ \E d : SolveReturns(Performing, d)
      \/ SolveReturns(Arrived(Performing, loc), "OK")
      \/ \E f : (f = Out(s, "OK") \/ Factorisation(s, f)) /\ NextIteration(f, FALSE)
      \/ \E r : Outcome(s, r) /\ KeepsEqualities(s, r.q) /\ StepFailed(r.q, r.ret)
      \/ \E r, f : /\ Outcome(s, r) /\ KeepsEqualities(s, r.q)
                   /\ (f = r \/ Factorisation(r.q, f)) /\ NextIteration(f, TRUE)
  BY <1>2, <1>3, <1>4, <1>5, Zenon
<1> QED BY <1>1, <1>6, IterationKeeps, Zenon DEF s

LEMMA EqualitiesKept ==
  ASSUME Inv, [Next]_vars, pc = "iterate", ~use.opt.drop
  PROVE  KeepsEqualities(qp, qp')
<1>1. LimitReached \/ IterateB \/ Iterate \/ UNCHANGED vars
  <2>1. ~Call
    BY DEF Call, SetHessianType, AssignNewQProblem, MakesACall, CallsWithUnreadableFiles, InitB, Init_, HotstartB,
           Hotstart, HotstartMatrices, InitFromFileB, InitFromFile, HotstartFromFileB, HotstartFromFile
  <2> QED BY <2>1 DEF Next, Step, StepB, SolveInitialQPB, StartHotstartB, SolveQPB, SolveRegularisedQPB, FarBoundsB, EndB,
             SolveInitialQP, AdaptWorkingSet, EnterInitialHotstart, FinishGuess, FinishMatrices, StartHotstart, SolveQP,
             UpdateActivities, SolveRegularisedQP, FarBounds, End
<1>2. ASSUME LimitReached \/ UNCHANGED vars PROVE qp' = qp
  BY <1>2 DEF LimitReached, SolveReturns, Goto, vars
<1> QED BY <1>1, <1>2, IterateBKeeps, IterateKeeps DEF KeepsEqualities

(* performRatioTest(), ensureLI(): no iteration of solveQP() takes an      *)
(* equality out of the working set, unless enableDropInfeasibles is set.   *)
THEOREM EqualitiesAreNotGivenUp == Spec => EqualitiesStayActive
<1>1. Inv /\ [Next]_vars =>
        [pc = "iterate" /\ ~use.opt.drop => \A i \in qp.held : qp.type[i] = "EQUALITY" => i \in qp'.held]_vars
  BY EqualitiesKept DEF KeepsEqualities
<1> QED BY <1>1, ObjectInvariant, PTL DEF Spec, EqualitiesStayActive

-----------------------------------------------------------------------------
(* The dimension of the null space.                                        *)

(* The rows of the working set and the free variables.                     *)
Free(q) == {i \in Vars \ q.held : q.st[i] # "UNDEFINED"}
Active(q) == q.held \cap Cons

LEMMA Dimensions ==
  ASSUME NEW q, Good(q)
  PROVE  /\ IsFiniteSet(Free(q)) /\ IsFiniteSet(Active(q))
         /\ NFR(q) = Cardinality(Free(q)) /\ NAC(q) = Cardinality(Active(q))
         /\ NFR(q) \in Nat /\ NAC(q) \in Nat /\ NZ(q) = NFR(q) - NAC(q) /\ NZ(q) \in Int
         /\ NAC(q) = 0 <=> Active(q) = {}
<1>1. IsFiniteSet(Vars) /\ IsFiniteSet(Cons)
  BY QProblemBAssumption, FS_Interval DEF Vars, Cons
<1>2. Free(q) \in SUBSET Vars /\ Active(q) \in SUBSET Cons
  BY DEF Free, Active
<1>3. IsFiniteSet(Free(q)) /\ IsFiniteSet(Active(q))
  BY <1>1, <1>2, FS_Subset
<1>4. NFR(q) = Cardinality(Free(q)) /\ NAC(q) = Cardinality(Active(q))
  BY DEF NFR, NAC, Free, Active
<1>5. NFR(q) \in Nat /\ NAC(q) \in Nat
  BY <1>3, <1>4, FS_CardinalityType
<1>6. NAC(q) = 0 <=> Active(q) = {}
  BY <1>3, <1>4, FS_EmptySet
<1> QED BY <1>3, <1>4, <1>5, <1>6 DEF NZ

(* A row more costs one dimension, one less gives it back.                 *)
LEMMA EnterDimension ==
  ASSUME NEW q, Good(q), NEW i \in Idx, NEW s \in Statuses, Good(Enter(q, i, s))
  PROVE  /\ NZ(Enter(q, i, s)) >= NZ(q) - 1
         /\ i \in Vars => Active(Enter(q, i, s)) = Active(q)
<1> DEFINE p == Enter(q, i, s)
<1>1. p.held = q.held \cup {i} /\ \A j \in Idx \ {i} : p.st[j] = q.st[j]
  BY DEF Enter, Good, QPs
<1> HIDE DEF p
<1>2. CASE i \in Vars
  <2>1. Free(p) = Free(q) \ {i} /\ Active(p) = Active(q)
    BY <1>1, <1>2, Partition DEF Free, Active
  <2>2. NFR(p) >= NFR(q) - 1 /\ NAC(p) = NAC(q)
    BY <2>1, Dimensions, FS_RemoveElement DEF p
  <2> QED BY <1>2, <2>1, <2>2, Dimensions DEF p
<1>3. CASE i \notin Vars
  <2>1. Free(p) = Free(q) /\ Active(p) = Active(q) \cup {i}
    BY <1>1, <1>3, Partition DEF Free, Active, Idx
  <2>2. NFR(p) = NFR(q) /\ NAC(p) <= NAC(q) + 1
    BY <2>1, Dimensions, FS_AddElement DEF p
  <2> QED BY <1>3, <2>1, <2>2, Dimensions DEF p
<1> QED BY <1>2, <1>3

LEMMA LeaveDimension ==
  ASSUME NEW q, Good(q), NEW i \in Idx, i \in q.held, Good(Leave(q, i))
  PROVE  NZ(Leave(q, i)) = NZ(q) + 1 /\ Active(Leave(q, i)) \subseteq Active(q)
<1> DEFINE p == Leave(q, i)
<1>1. p.held = q.held \ {i} /\ p.st[i] = "INACTIVE" /\ \A j \in Idx \ {i} : p.st[j] = q.st[j]
  BY DEF Leave, Good, QPs
<1> HIDE DEF p
<1>2. CASE i \in Vars
  <2>1. Free(p) = Free(q) \cup {i} /\ Active(p) = Active(q) /\ i \notin Free(q)
    BY <1>1, <1>2, Partition DEF Free, Active
  <2>2. NFR(p) = NFR(q) + 1 /\ NAC(p) = NAC(q)
    BY <2>1, Dimensions, FS_AddElement DEF p
  <2> QED BY <1>2, <2>1, <2>2, Dimensions DEF p
<1>3. CASE i \notin Vars
  <2>1. Free(p) = Free(q) /\ Active(p) = Active(q) \ {i} /\ i \in Active(q)
    BY <1>1, <1>3, Partition DEF Free, Active, Idx
  <2>2. NFR(p) = NFR(q) /\ NAC(p) = NAC(q) - 1
    BY <2>1, Dimensions, FS_RemoveElement DEF p
  <2> QED BY <1>3, <2>1, <2>2, Dimensions DEF p
<1> QED BY <1>2, <1>3

(* p has the working set of q.                                             *)
Alike(q, p) == p.held = q.held /\ p.st = q.st /\ p.opt.fullLI = q.opt.fullLI

LEMMA AlikeDimension ==
  ASSUME NEW q, NEW p, p.held = q.held, p.st = q.st
  PROVE  NZ(p) = NZ(q) /\ NFR(p) = NFR(q) /\ NAC(p) = NAC(q) /\ Active(p) = Active(q)
  BY DEF NZ, NFR, NAC, Active

LEMMA FlippedDimension ==
  ASSUME NEW q, Good(q), NEW i \in Idx, i \in q.held, Good(Flipped(q, i))
  PROVE  NZ(Flipped(q, i)) = NZ(q) /\ Active(Flipped(q, i)) = Active(q)
<1> DEFINE p == Flipped(q, i)
<1>1. p.held = q.held /\ \A j \in Idx \ {i} : p.st[j] = q.st[j]
  BY DEF Flipped, Good, QPs
<1> HIDE DEF p
<1>2. Free(p) = Free(q) /\ Active(p) = Active(q)
  BY <1>1, Partition DEF Free, Active
<1> QED BY <1>2, Dimensions DEF p

LEMMA TakeOutDimension ==
  ASSUME NEW q, Good(q), NEW i \in Idx, i \in q.held, NEW chol, NEW flip \in BOOLEAN, NEW exchange \in BOOLEAN,
         NEW r \in TakeOutBound(q, i, chol, flip, exchange) \cup TakeOutConstraint(q, i, chol, flip, exchange)
  PROVE  /\ Good(r.q) /\ r.q.opt = q.opt /\ NZ(r.q) >= NZ(q)
         /\ r.ret = "OK" /\ (exchange \/ ~flip) => NZ(r.q) = NZ(q) + 1
<1> DEFINE p == Leave(q, i)
           f == Flipped(q, i)
           qs == [q EXCEPT !.hess = "SEMIDEF"]
           ps == [p EXCEPT !.hess = "SEMIDEF"]
           fs == [f EXCEPT !.hess = "SEMIDEF"]
<1>1. Good(p) /\ Good(f) /\ NZ(p) = NZ(q) + 1 /\ NZ(f) = NZ(q) /\ NZ(q) \in Int
  BY LeaveMoves, FlippedMoves, LeaveDimension, FlippedDimension, Dimensions DEF Moved
<1>2. r = Out(p, "OK") \/ (r \in {Out(q, "REMOVECONSTRAINT_FAILED"), Out(p, "REMOVEBOUND_FAILED"),
                                  Out(qs, "HESSIAN_NOT_SPD"), Out(ps, "HESSIAN_NOT_SPD")})
        \/ (~exchange /\ flip /\ r = Out(fs, "OK"))
  BY Zenon DEF TakeOutBound, TakeOutConstraint, Singular
<1> HIDE DEF p, f
<1>3. /\ qs.held = q.held /\ qs.st = q.st /\ ps.held = p.held /\ ps.st = p.st /\ fs.held = f.held /\ fs.st = f.st
  BY <1>1, HessMoves DEF HessianTypes
<1> HIDE DEF qs, ps, fs
<1>4. NZ(qs) = NZ(q) /\ NZ(ps) = NZ(p) /\ NZ(fs) = NZ(f)
  BY <1>3, AlikeDimension
<1>5. Outcome(q, r)
  BY TakeOutMoves
<1>6. Good(r.q) /\ r.q.opt = q.opt
  BY <1>5 DEF Outcome, Moved
<1> QED BY <1>1, <1>2, <1>4, <1>6 DEF Out

LEMMA TakeOutOf ==
  ASSUME NEW q, NEW i, NEW chol, NEW flip, NEW exchange, NEW r \in TakeOut(q, i, chol, flip, exchange)
  PROVE  r \in TakeOutBound(q, i, chol, flip, exchange) \cup TakeOutConstraint(q, i, chol, flip, exchange)
  BY DEF TakeOut

(* addBound(), addConstraint(): what they may rely on.                     *)
Plain(q) == Good(q) /\ ~q.opt.drop /\ ~q.opt.fullLI

LEMMA Independence ==
  ASSUME NEW q, Plain(q)
  PROVE  /\ "INDEPENDENT" \in AddConstraintCheckLI(q) => NZ(q) > 0
         /\ "INDEPENDENT" \in AddBoundCheckLI(q) => NZ(q) > 0
  BY DEF Plain, AddConstraintCheckLI, AddBoundCheckLI, AnyAnswer

LEMMA ResolveDimension ==
  ASSUME NEW q, Plain(q), NEW i \in Idx, NEW s, NEW r \in Resolve(q, i, s)
  PROVE  NZ(r.q) >= NZ(q) /\ (r.ret = "OK" => NZ(r.q) = NZ(q) + 1) /\ r.ret # "DROPPED"
<1>1. \/ r = Out(q, "ENSURELI_FAILED")
      \/ \E j \in PerformPlainRatioTest(q) : \E u \in TakeOut(q, j, TRUE, FALSE, FALSE) :
           (u.ret = "OK" /\ r = u) \/ r = Out(u.q, "ENSURELI_FAILED")
      \/ r = SetInfeasibilityFlag(q, "NOINDEX")
  BY DEF Resolve, Plain
<1>0. Good(q) /\ NZ(q) \in Int
  BY Dimensions DEF Plain
<1>2. ASSUME NEW j \in PerformPlainRatioTest(q), NEW u \in TakeOut(q, j, TRUE, FALSE, FALSE),
             (u.ret = "OK" /\ r = u) \/ r = Out(u.q, "ENSURELI_FAILED")
      PROVE  NZ(r.q) >= NZ(q) /\ (r.ret = "OK" => NZ(r.q) = NZ(q) + 1) /\ r.ret # "DROPPED"
  <2>1. j \in Idx /\ j \in q.held
    BY <1>0 DEF PerformPlainRatioTest, Good, QPs
  <2>2. NZ(u.q) >= NZ(q) /\ (u.ret = "OK" => NZ(u.q) = NZ(q) + 1)
    <3>1. u \in TakeOutBound(q, j, TRUE, FALSE, FALSE) \cup TakeOutConstraint(q, j, TRUE, FALSE, FALSE)
      BY TakeOutOf, Zenon
    <3>2. ASSUME NEW chol, NEW flip \in BOOLEAN, NEW exchange \in BOOLEAN,
                 u \in TakeOutBound(q, j, chol, flip, exchange) \cup TakeOutConstraint(q, j, chol, flip, exchange)
          PROVE  NZ(u.q) >= NZ(q) /\ (u.ret = "OK" /\ (exchange \/ ~flip) => NZ(u.q) = NZ(q) + 1)
      BY <1>0, <2>1, <3>2, TakeOutDimension
    <3> QED BY <3>1, <3>2
  <2> QED BY <1>2, <2>2 DEF Out
<1>3. ASSUME r = SetInfeasibilityFlag(q, "NOINDEX") PROVE NZ(r.q) = NZ(q) /\ r.ret = "NOINDEX"
  <2> DEFINE p == [q EXCEPT !.inf = TRUE]
  <2>1. r = Out(p, "NOINDEX")
    BY <1>3, Zenon DEF SetInfeasibilityFlag
  <2>2. p.held = q.held /\ p.st = q.st
    BY <1>0 DEF Good, QPs
  <2> HIDE DEF p
  <2> QED BY <2>1, <2>2, AlikeDimension DEF Out
<1>4. ASSUME r = Out(q, "ENSURELI_FAILED") PROVE NZ(r.q) = NZ(q) /\ r.ret = "ENSURELI_FAILED"
  BY <1>4 DEF Out
<1>5. NZ(r.q) = NZ(q) /\ r.ret \in {"NOINDEX", "ENSURELI_FAILED"} =>
        NZ(r.q) >= NZ(q) /\ (r.ret = "OK" => NZ(r.q) = NZ(q) + 1) /\ r.ret # "DROPPED"
  BY <1>0
<1> QED BY <1>1, <1>2, <1>3, <1>4, <1>5

LEMMA AddDimension ==
  ASSUME NEW q, Plain(q), NEW i \in Idx, NEW s \in Held, NEW ensureLI \in BOOLEAN, NEW r \in Add(q, i, s, ensureLI),
         IF ensureLI THEN NZ(q) >= 0 ELSE NZ(q) > 0
  PROVE  NZ(r.q) >= 0
<1> DEFINE C == IF ensureLI THEN AddConstraintEnsureLI(q, i, s) ELSE {Out(q, "OK")}
           B == IF ensureLI THEN AddBoundEnsureLI(q, i, s) ELSE {Out(q, "OK")}
<1>0. Good(q) /\ NZ(q) \in Int
  BY Dimensions DEF Plain
<1>1. \A u \in C \cup B : (u = Out(q, "OK") /\ NZ(q) > 0) \/ u \in Resolve(q, i, s)
  <2>1. \A u \in AddConstraintEnsureLI(q, i, s) : (u = Out(q, "OK") /\ NZ(q) > 0) \/ u \in Resolve(q, i, s)
    BY Independence DEF AddConstraintEnsureLI
  <2>2. \A u \in AddBoundEnsureLI(q, i, s) : (u = Out(q, "OK") /\ NZ(q) > 0) \/ u \in Resolve(q, i, s)
    BY Independence DEF AddBoundEnsureLI
  <2> QED BY <2>1, <2>2
<1>2. \A u \in C \cup B : Good(u.q) /\ NZ(u.q) >= 0 /\ (u.ret = "OK" => NZ(u.q) > 0) /\ u.ret # "DROPPED"
  <2>1. Good(Out(q, "OK").q) /\ NZ(Out(q, "OK").q) = NZ(q) /\ Out(q, "OK").ret = "OK"
    BY <1>0 DEF Out
  <2>2. \A u \in Resolve(q, i, s) : Good(u.q)
    BY <1>0, ResolveMoves DEF Outcome, Moved
  <2>3. \A u \in Resolve(q, i, s) : NZ(u.q) >= NZ(q) /\ (u.ret = "OK" => NZ(u.q) = NZ(q) + 1) /\ u.ret # "DROPPED"
    BY ResolveDimension
  <2>4. \A u \in Resolve(q, i, s) : NZ(u.q) \in Int
    BY <2>2, Dimensions
  <2>5. NZ(q) >= 0
    BY <1>0
  <2> HIDE DEF C, B
  <2>6. ASSUME NEW u \in C \cup B, u \in Resolve(q, i, s)
        PROVE  Good(u.q) /\ NZ(u.q) >= 0 /\ (u.ret = "OK" => NZ(u.q) > 0) /\ u.ret # "DROPPED"
    BY <1>0, <2>2, <2>3, <2>4, <2>5, <2>6
  <2>7. ASSUME NEW u \in C \cup B, u = Out(q, "OK"), NZ(q) > 0
        PROVE  Good(u.q) /\ NZ(u.q) >= 0 /\ (u.ret = "OK" => NZ(u.q) > 0) /\ u.ret # "DROPPED"
    BY <1>0, <2>1, <2>5, <2>7
  <2> QED BY <1>1, <2>6, <2>7
<1>3. r.q = q \/ \E u \in C \cup B : r.q = u.q \/ (u.ret = "OK" /\ r.q = Enter(u.q, i, s))
  <2> HIDE DEF C, B
  <2>1. \/ r.q = q \/ r \in Entered(C, i, s, "ADDCONSTRAINT_FAILED_INFEASIBILITY")
        \/ r \in Entered(B, i, s, "ADDBOUND_FAILED_INFEASIBILITY")
    BY DEF Add, AddBound, AddConstraint, Out, C, B
  <2> QED BY <2>1 DEF Entered, Out
<1> HIDE DEF C, B
<1>4. s \in Statuses
  BY DEF Statuses
<1>5. \A u \in C \cup B : u.ret = "OK" => NZ(Enter(u.q, i, s)) >= 0
  <2> SUFFICES ASSUME NEW u \in C \cup B, u.ret = "OK" PROVE NZ(Enter(u.q, i, s)) >= 0
    OBVIOUS
  <2>1. Good(u.q) /\ NZ(u.q) > 0
    BY <1>2
  <2>2. Good(Enter(u.q, i, s))
    BY <1>4, <2>1, EnterMoves DEF Moved
  <2>3. NZ(Enter(u.q, i, s)) >= NZ(u.q) - 1
    BY <1>4, <2>1, <2>2, EnterDimension
  <2>4. NZ(u.q) \in Int /\ NZ(Enter(u.q, i, s)) \in Int
    BY <2>1, <2>2, Dimensions
  <2> QED BY <2>1, <2>3, <2>4
<1>6. NZ(q) >= 0
  BY <1>0
<1> QED BY <1>2, <1>3, <1>5, <1>6

LEMMA RemoveDimension ==
  ASSUME NEW q, Plain(q), NZ(q) >= 0, NEW i \in Idx, i \in q.held, NEW chol, NEW flip \in BOOLEAN, NEW nzc,
         NEW r \in Remove(q, i, chol, flip, nzc)
  PROVE  NZ(r.q) >= 0
<1>0. Good(q) /\ NZ(q) \in Int
  BY Dimensions DEF Plain
<1>1. Removal(q, i, chol, flip, r)
  BY RemoveCases
<1>2. ASSUME NEW u, NEW exchange \in BOOLEAN,
             u \in TakeOutBound(q, i, chol, flip, exchange) \cup TakeOutConstraint(q, i, chol, flip, exchange)
      PROVE  Plain(u.q) /\ NZ(u.q) >= 0 /\ (u.ret = "OK" /\ exchange => NZ(u.q) > 0)
  <2>1. Good(u.q) /\ u.q.opt = q.opt /\ NZ(u.q) >= NZ(q) /\ (u.ret = "OK" /\ exchange => NZ(u.q) = NZ(q) + 1)
    BY <1>0, <1>2, TakeOutDimension
  <2>2. NZ(u.q) \in Int
    BY <2>1, Dimensions
  <2> QED BY <1>0, <2>1, <2>2 DEF Plain
<1>3. ASSUME r \in TakeOutBound(q, i, chol, flip, FALSE) \/ r \in TakeOutConstraint(q, i, chol, flip, FALSE)
      PROVE  NZ(r.q) >= 0
  BY <1>2, <1>3
<1>4. ASSUME NEW e \in EnsureNonzeroCurvature(q, i), e.r.ret # "OK", r = e.r PROVE NZ(r.q) >= 0
  <2> DEFINE p == [q EXCEPT !.unb = TRUE]
  <2>1. e.r.q \in {q, p}
    BY <1>4 DEF EnsureNonzeroCurvature, Out
  <2>2. p.held = q.held /\ p.st = q.st
    BY <1>0 DEF Good, QPs
  <2> HIDE DEF p
  <2>3. NZ(p) = NZ(q)
    BY <2>2, AlikeDimension
  <2> QED BY <1>4, <2>1, <2>3
<1>5. ASSUME NEW e \in EnsureNonzeroCurvature(q, i), e.r.ret = "OK"
      PROVE  e.r.q = q /\ (e.x # NoExchange => e.x.i \in Idx /\ e.x.s \in Held)
  BY <1>0, <1>5, Exchanges
<1>6. ASSUME NEW u \in TakeOutBound(q, i, chol, flip, TRUE) \cup TakeOutConstraint(q, i, chol, flip, TRUE),
             r = u \/ r = Out(u.q, "OK")
      PROVE  NZ(r.q) >= 0
  <2>1. r.q = u.q
    BY <1>6 DEF Out
  <2>2. NZ(u.q) >= 0
    BY <1>2
  <2> QED BY <2>1, <2>2
<1>7. ASSUME NEW e \in EnsureNonzeroCurvature(q, i), e.r.ret = "OK", e.x # NoExchange,
             NEW u \in TakeOutBound(q, i, chol, flip, TRUE) \cup TakeOutConstraint(q, i, chol, flip, TRUE),
             u.ret = "OK", NEW v \in Add(u.q, e.x.i, e.x.s, FALSE), r = Out(v.q, "OK")
      PROVE  NZ(r.q) >= 0
  <2>1. Plain(u.q) /\ NZ(u.q) > 0
    BY <1>2, <1>7
  <2>2. e.x.i \in Idx /\ e.x.s \in Held
    BY <1>5, <1>7
  <2>3. \A s \in Held : \A k \in Idx : \A w \in Add(u.q, k, s, FALSE) : NZ(w.q) >= 0
    BY <2>1, AddDimension
  <2> QED BY <1>7, <2>2, <2>3 DEF Out
<1>8. ASSUME r.q = q PROVE NZ(r.q) >= 0
  BY <1>8
<1> DEFINE P == NZ(r.q) >= 0
<1> HIDE DEF P
<1>9. P
  <2>1. ASSUME r \in TakeOutBound(q, i, chol, flip, FALSE) \/ r \in TakeOutConstraint(q, i, chol, flip, FALSE) PROVE P
    BY <1>3, <2>1 DEF P
  <2>2. ASSUME NEW e \in EnsureNonzeroCurvature(q, i), e.r.ret # "OK", r = e.r PROVE P
    BY <1>4, <2>2 DEF P
  <2>3. ASSUME NEW u \in TakeOutBound(q, i, chol, flip, TRUE) \cup TakeOutConstraint(q, i, chol, flip, TRUE),
               r = u \/ r = Out(u.q, "OK")
        PROVE  P
    BY <1>6, <2>3 DEF P
  <2>4. ASSUME NEW e \in EnsureNonzeroCurvature(q, i), e.r.ret = "OK", e.x # NoExchange,
               NEW u \in TakeOutBound(q, i, chol, flip, TRUE) \cup TakeOutConstraint(q, i, chol, flip, TRUE),
               u.ret = "OK", NEW v \in Add(u.q, e.x.i, e.x.s, FALSE), r = Out(v.q, "OK")
        PROVE  P
    BY <1>7, <2>4 DEF P
  <2>5. ASSUME r.q = q PROVE P
    BY <1>8, <2>5 DEF P
  <2> QED BY <1>1, <1>5, <2>1, <2>2, <2>3, <2>4, <2>5, Zenon DEF Removal
<1> QED BY <1>9 DEF P

(* One iteration, and the loops over the indices.                          *)
LEMMA ChangeDimension ==
  ASSUME NEW q, Plain(q), NZ(q) >= 0, NEW b \in Blocks(q, Idx), NEW r \in ChangeActiveSet(q, b)
  PROVE  NZ(r.q) >= 0
<1>0. Good(q) /\ b.i \in Idx /\ b.s \in Held \cup {"INACTIVE"} /\ (b.s = "INACTIVE" <=> b.i \in q.held)
  <2>1. Idx \in SUBSET Idx
    OBVIOUS
  <2> QED BY <2>1, Blocking DEF Plain
<1>1. CASE b.s = "INACTIVE"
  <2>1. PICK u \in Remove(q, b.i, TRUE, TRUE, q.opt.nzc) : r = u \/ r = Out(u.q, "REMOVE_FROM_ACTIVESET_FAILED")
    BY <1>1 DEF ChangeActiveSet
  <2>2. \A flip \in BOOLEAN : \A chol : u \in Remove(q, b.i, chol, flip, q.opt.nzc) => NZ(u.q) >= 0
    BY <1>0, <1>1, RemoveDimension
  <2>3. r.q = u.q
    BY <2>1 DEF Out
  <2>4. NZ(u.q) >= 0
    BY <2>1, <2>2
  <2> QED BY <2>3, <2>4
<1>2. CASE b.s # "INACTIVE"
  <2>1. PICK u \in Add(q, b.i, b.s, TRUE) : r = u \/ r = Out(u.q, "ADD_TO_ACTIVESET_FAILED")
    BY <1>2 DEF ChangeActiveSet
  <2>2. b.s \in Held
    BY <1>0, <1>2
  <2>3. \A s \in Held : \A k \in Idx : \A w \in Add(q, k, s, TRUE) : NZ(w.q) >= 0
    BY AddDimension
  <2>4. r.q = u.q
    BY <2>1 DEF Out
  <2>5. NZ(u.q) >= 0
    BY <1>0, <2>1, <2>2, <2>3
  <2> QED BY <2>4, <2>5
<1> QED BY <1>1, <1>2

(* An object whose working set may be independent.                         *)
Fit(q) == Plain(q) /\ NZ(q) >= 0

LEMMA AlikeFit ==
  ASSUME NEW q, NEW p, Fit(q), Good(p), p.held = q.held, p.st = q.st, p.opt.drop = q.opt.drop,
         p.opt.fullLI = q.opt.fullLI
  PROVE  Fit(p) /\ Active(p) = Active(q)
  BY AlikeDimension DEF Fit, Plain

LEMMA FitAdapted ==
  ASSUME NEW q, Fit(q), NEW r, Adapted(q, r), NZ(r.q) >= 0
  PROVE  Fit(r.q)
  BY DEF Fit, Plain, Adapted

LEMMA RemoveFit ==
  ASSUME NEW q, Fit(q), NEW i \in Idx, q.st[i] \in Held, NEW chol, NEW nzc, NEW r \in Remove(q, i, chol, FALSE, nzc)
  PROVE  Fit(r.q)
<1>1. i \in q.held /\ Good(q)
  BY DEF Fit, Plain, Good, Agreeing
<1>2. \A flip \in BOOLEAN : r \in Remove(q, i, chol, flip, nzc) => NZ(r.q) >= 0
  BY <1>1, RemoveDimension DEF Fit
<1>3. \A flip \in BOOLEAN : r \in Remove(q, i, chol, flip, nzc) => Adapted(q, r)
  BY <1>1, RemoveMoves, OutcomeAdapted
<1> QED BY <1>2, <1>3, FitAdapted

LEMMA AddFit ==
  ASSUME NEW q, Fit(q), NZ(q) > 0, NEW i \in Idx, NEW s \in Held, NEW r \in Add(q, i, s, FALSE)
  PROVE  Fit(r.q)
<1>1. Good(q) /\ s \in Statuses
  BY DEF Fit, Plain, Statuses
<1>2. Adapted(q, r)
  BY <1>1, AddMoves, OutcomeAdapted
<1>3. \A ensureLI \in BOOLEAN : ~ensureLI /\ r \in Add(q, i, s, ensureLI) => NZ(r.q) >= 0
  BY AddDimension DEF Fit
<1>4. NZ(r.q) >= 0
  BY <1>3
<1> QED BY <1>2, <1>4, FitAdapted

LEMMA TestedAddFit ==
  ASSUME NEW q, Fit(q), NEW i \in Idx, NEW s \in Held, NEW r \in Add(q, i, s, TRUE)
  PROVE  Fit(r.q)
<1>1. Good(q) /\ s \in Statuses
  BY DEF Fit, Plain, Statuses
<1>2. Adapted(q, r)
  BY <1>1, AddMoves, OutcomeAdapted
<1>3. \A ensureLI \in BOOLEAN : ensureLI /\ r \in Add(q, i, s, ensureLI) => NZ(r.q) >= 0
  BY AddDimension DEF Fit
<1>4. NZ(r.q) >= 0
  BY <1>3
<1> QED BY <1>2, <1>4, FitAdapted

LEMMA UnholdFit ==
  ASSUME NEW q, Fit(q), NEW l, NEW i \in Idx, NEW r \in Unhold(q, l, i)
  PROVE  Fit(r.q)
<1> DEFINE drop(p, s) == IF p.st[i] = s /\ Aux(p, l, i) # s THEN Remove(p, i, ~l.afresh, FALSE, p.opt.nzc)
                         ELSE {Out(p, "OK")}
<1>1. ASSUME NEW p, Fit(p), NEW s \in Held, NEW u \in drop(p, s) PROVE Fit(u.q)
  <2>1. u = Out(p, "OK") \/ (p.st[i] \in Held /\ u \in Remove(p, i, ~l.afresh, FALSE, p.opt.nzc))
    OBVIOUS
  <2>2. Out(p, "OK").q = p
    BY DEF Out
  <2> QED BY <1>1, <2>1, <2>2, RemoveFit
<1>2. PICK u \in drop(q, "LOWER") : r \in IF u.ret = "OK" THEN drop(u.q, "UPPER") ELSE {u}
  BY DEF Unhold, Then
<1> HIDE DEF drop
<1>3. "LOWER" \in Held /\ "UPPER" \in Held
  BY DEF Held
<1>4. Fit(u.q)
  BY <1>1, <1>3
<1> QED BY <1>1, <1>2, <1>3, <1>4

LEMMA WithdrawnFit ==
  ASSUME NEW q, Fit(q), NEW kind, NEW i \in Idx, NEW r \in Withdrawn(q, kind, i)
  PROVE  Fit(r.q)
<1> DEFINE drop(p, s) ==
             IF p.st[i] # s \/ kind = "equal" \/ (kind = "range" /\ p.opt.far) THEN {Out(p, "OK")}
             ELSE Remove(p, i, TRUE, FALSE, p.opt.nzc) \cup IF kind = "range" THEN {Out(p, "OK")} ELSE {}
<1>1. ASSUME NEW p, Fit(p), NEW s \in Held, NEW u \in drop(p, s) PROVE Fit(u.q)
  <2>1. u = Out(p, "OK") \/ (p.st[i] \in Held /\ u \in Remove(p, i, TRUE, FALSE, p.opt.nzc))
    OBVIOUS
  <2>2. Out(p, "OK").q = p
    BY DEF Out
  <2> QED BY <1>1, <2>1, <2>2, RemoveFit
<1>2. PICK u \in drop(q, "LOWER") : r \in IF u.ret = "OK" THEN drop(u.q, "UPPER") ELSE {u}
  BY DEF Withdrawn, Then
<1> HIDE DEF drop
<1>3. "LOWER" \in Held /\ "UPPER" \in Held
  BY DEF Held
<1>4. Fit(u.q)
  BY <1>1, <1>3
<1> QED BY <1>1, <1>2, <1>3, <1>4

LEMMA NewEqualityFit ==
  ASSUME NEW q, Fit(q), NEW i \in Vars, NEW r \in NewEquality(q, i)
  PROVE  Fit(r.q)
<1>1. r = Out(q, "OK") \/ ("INDEPENDENT" \in AddBoundCheckLI(q) /\ r \in AddBound(q, i, "LOWER", FALSE))
  BY DEF NewEquality
<1>2. "LOWER" \in Held /\ i \in Idx
  BY Partition DEF Held
<1>3. AddBound(q, i, "LOWER", FALSE) = Add(q, i, "LOWER", FALSE)
  BY DEF Add
<1>4. "INDEPENDENT" \in AddBoundCheckLI(q) => NZ(q) > 0
  BY Independence DEF Fit
<1>5. Out(q, "OK").q = q
  BY DEF Out
<1> QED BY <1>1, <1>2, <1>3, <1>4, <1>5, AddFit

LEMMA HoldGuessFit ==
  ASSUME NEW q, Fit(q), NEW l, NEW i \in Idx, Aux(q, l, i) \in Held, NEW r \in HoldGuess(q, l, i)
  PROVE  Fit(r.q)
<1>1. \/ r = Out(q, "OK")
      \/ /\ "INDEPENDENT" \in AddBoundCheckLI(q) \/ "INDEPENDENT" \in AddConstraintCheckLI(q)
         /\ r \in Add(q, i, Aux(q, l, i), FALSE)
  BY DEF HoldGuess
<1>2. Out(q, "OK").q = q
  BY DEF Out
<1>3. NZ(q) > 0 \/ r = Out(q, "OK")
  BY <1>1, Independence DEF Fit
<1> QED BY <1>1, <1>2, <1>3, AddFit

(* A fixed variable that is added without a test: no constraint is active  *)
(* yet, and the variable is still free.                                    *)
LEMMA UntestedBoundFit ==
  ASSUME NEW q, Fit(q), Active(q) = {}, NEW i \in Vars, NEW r \in AddBound(q, i, "LOWER", FALSE)
  PROVE  Fit(r.q) /\ Active(r.q) = {}
<1>0. Good(q) /\ "LOWER" \in Held /\ i \in Idx /\ "LOWER" \in Statuses
  BY Partition DEF Fit, Plain, Held, Statuses
<1>1. r.q = q \/ (q.st[i] = "INACTIVE" /\ r.q = Enter(q, i, "LOWER"))
  BY DEF AddBound, Entered, Out
<1>2. CASE r.q = q
  BY <1>2
<1>3. CASE q.st[i] = "INACTIVE" /\ r.q = Enter(q, i, "LOWER")
  <2>1. i \in Free(q)
    BY <1>0, <1>3 DEF Free, Fit, Plain, Good, Agreeing, Held
  <2>2. NFR(q) > 0 /\ NAC(q) = 0
    BY <1>0, <2>1, Dimensions, FS_EmptySet
  <2>3. NZ(q) > 0
    BY <1>0, <2>2, Dimensions
  <2>4. r \in Add(q, i, "LOWER", FALSE)
    BY DEF Add
  <2>5. Fit(r.q)
    BY <1>0, <2>3, <2>4, AddFit
  <2>6. Active(Enter(q, i, "LOWER")) = Active(q)
    BY <1>0, <1>3, <2>5, EnterDimension DEF Fit, Plain
  <2> QED BY <1>3, <2>5, <2>6
<1> QED BY <1>1, <1>2, <1>3

LEMMA HoldEqualityFit ==
  ASSUME NEW q, Fit(q), NEW l, l.afresh \in BOOLEAN, NEW i \in Idx, l.afresh /\ i \in Vars => Active(q) = {},
         NEW r \in HoldEquality(q, l, i)
  PROVE  Fit(r.q) /\ (l.afresh /\ i \in Vars => Active(r.q) = {})
<1>0. Good(q) /\ "LOWER" \in Held /\ i \in Idx /\ "LOWER" \in Statuses
  BY DEF Fit, Plain, Held, Statuses
<1>1. CASE i \in Vars /\ l.afresh
  <2>1. (~l.afresh) = FALSE
    BY <1>1
  <2>2. r \in AddBound(q, i, "LOWER", FALSE)
    BY <1>1, <2>1 DEF HoldEquality
  <2> QED BY <1>1, <2>2, UntestedBoundFit
<1>2. CASE i \in Vars /\ ~l.afresh
  <2>1. (~l.afresh) = TRUE
    BY <1>2
  <2>2. r \in Add(q, i, "LOWER", TRUE)
    BY <1>2, <2>1 DEF HoldEquality, Add
  <2> QED BY <1>0, <1>2, <2>2, TestedAddFit
<1>3. CASE i \notin Vars
  <2> DEFINE p == [q EXCEPT !.type[i] = "BOUNDED"]
  <2>1. r = Out(p, "OK") \/ ("INDEPENDENT" \in AddConstraintCheckLI(q) /\ r \in Add(q, i, "LOWER", FALSE))
    BY <1>3, Zenon DEF HoldEquality, Add
  <2>2. Good(p) /\ p.opt = q.opt /\ p.held = q.held /\ p.st = q.st
    BY <1>0 DEF Good, QPs, Agreeing, Types
  <2> HIDE DEF p
  <2>3. Fit(p)
    BY <2>2, AlikeFit
  <2>4. "INDEPENDENT" \in AddConstraintCheckLI(q) => NZ(q) > 0
    BY Independence DEF Fit
  <2>5. Out(p, "OK").q = p
    BY DEF Out
  <2> QED BY <1>0, <1>3, <2>1, <2>3, <2>4, <2>5, AddFit
<1> QED BY <1>1, <1>2, <1>3

LEMMA TreatFit ==
  ASSUME NEW q, NEW l, Fit(q), IsCall(l), Guessing(q, l), \A i \in Idx \ l.alias : l.aux[i] # "UNDEFINED",
         l.afresh /\ l.stage = "equalB" => Active(q) = {}, NEW i \in Work(q, l), NEW r \in Treat(q, l, i)
  PROVE  Fit(r.q) /\ (l.afresh /\ l.stage = "equalB" => Active(r.q) = {})
<1>1. i \in Idx /\ l.afresh \in BOOLEAN /\ ~q.opt.drop
  BY DEF Work, IsCall, Fit, Plain
<1>2. CASE l.stage \in {"removeC", "removeB"}
  BY <1>1, <1>2, UnholdFit DEF Treat
<1>3. CASE l.stage = "equalB"
  <2>1. i \in Vars
    BY <1>1, <1>3, QProblemBAssumption DEF Work, IsCall, Vars
  <2>2. r \in HoldEquality(q, l, i)
    BY <1>3 DEF Treat
  <2> QED BY <1>1, <1>3, <2>1, <2>2, HoldEqualityFit
<1>4. CASE l.stage = "equalC"
  <2>1. i \notin Vars
    BY <1>1, <1>4, QProblemBAssumption DEF Work, IsCall, Vars, Cons, Idx
  <2>2. r \in HoldEquality(q, l, i)
    BY <1>4 DEF Treat
  <2> QED BY <1>1, <1>4, <2>1, <2>2, HoldEqualityFit
<1>5. CASE l.stage \notin {"removeC", "removeB", "equalB", "equalC"}
  <2>1. q.st[i] = "INACTIVE" /\ Aux(q, l, i) # "INACTIVE"
    BY <1>5 DEF Work
  <2>2. i \notin l.alias /\ Aux(q, l, i) = l.aux[i]
    BY <2>1 DEF Aux
  <2>3. Aux(q, l, i) \in Held
    BY <1>1, <2>1, <2>2 DEF IsCall, Guessing, Known
  <2>4. r \in HoldGuess(q, l, i)
    BY <1>5 DEF Treat
  <2> QED BY <1>1, <1>5, <2>3, <2>4, HoldGuessFit
<1> QED BY <1>2, <1>3, <1>4, <1>5

LEMMA InactiveFit ==
  ASSUME NEW q, Plain(q), Active(q) = {}
  PROVE  Fit(q)
  BY Dimensions DEF Fit, Plain

(* A guess of all bounds and no constraint that is set up at once: with    *)
(* fewer than four variables, it would not have been set up from the old   *)
(* working set if a constraint were active.                                *)
LEMMA TrivialGuess ==
  ASSUME NEW q, Fit(q), NEW l, IsCall(l), TrivialWorkingSet(q, l), ~GuessIsFar(q, Guess(q, l), Idx), NV < 4
  PROVE  Active(q) = {}
<1> DEFINE aux == Guess(q, l)
           D == {i \in Idx : aux[i] # q.st[i]}
           H == {i \in Idx : aux[i] \in Held}
<1>0. Good(q) /\ ~q.opt.drop /\ NZ(q) >= 0
  BY DEF Fit, Plain
<1>1. ~(2 * Cardinality(D) > Cardinality(H))
  BY Zenon DEF GuessIsFar
<1>2. \A i \in Idx : aux[i] = Aux(q, l, i)
  BY DEF Guess
<1> HIDE DEF aux
<1>3. H \subseteq Vars
  BY <1>2 DEF TrivialWorkingSet, Idx, Held
<1>4. IsFiniteSet(Vars) /\ Cardinality(Vars) = NV /\ NV \in Nat
  BY QProblemBAssumption, FS_Interval DEF Vars
<1>5. IsFiniteSet(H) /\ Cardinality(H) \in Nat /\ Cardinality(H) <= NV
  <2>1. H \in SUBSET Vars
    BY <1>3
  <2> QED BY <1>4, <2>1, FS_Subset, FS_CardinalityType
<1>6. IsFiniteSet(D)
  <2>1. IsFiniteSet(Cons)
    BY QProblemBAssumption, FS_Interval DEF Cons
  <2>2. IsFiniteSet(Idx)
    BY <1>4, <2>1, FS_Union DEF Idx
  <2>3. D \in SUBSET Idx
    OBVIOUS
  <2> QED BY <2>2, <2>3, FS_Subset
<1>7. Cardinality(D) \in Nat
  BY <1>6, FS_CardinalityType
<1> HIDE DEF D, H
<1> SUFFICES ASSUME NEW j \in Active(q) PROVE FALSE
  OBVIOUS
<1>8. PICK k : k \in Free(q)
  <2>1. NAC(q) # 0
    BY <1>0, Dimensions
  <2>2. NFR(q) > 0
    BY <1>0, <2>1, Dimensions
  <2> QED BY <1>0, <2>2, Dimensions, FS_EmptySet
<1>9. j \in D /\ k \in D /\ j # k
  <2>1. j \in q.held /\ j \in Cons /\ k \in Vars \ q.held /\ q.st[k] # "UNDEFINED" /\ j \in Idx /\ k \in Idx
    BY <1>8, Partition DEF Active, Free
  <2>2. q.st[j] \in Held /\ q.st[k] = "INACTIVE"
    BY <1>0, <2>1 DEF Good, Agreeing, Known
  <2>3. aux[j] = "INACTIVE" /\ aux[k] # "INACTIVE"
    BY <1>2, <2>1 DEF TrivialWorkingSet
  <2> QED BY <2>1, <2>2, <2>3, Partition DEF D, Held
<1>10. Cardinality(D) >= 2
  <2>1. {j, k} = {j} \cup {k} /\ IsFiniteSet({j}) /\ Cardinality({j}) = 1
    BY FS_Singleton
  <2>2. IsFiniteSet({j, k}) /\ Cardinality({j, k}) = 2
    BY <1>9, <2>1, FS_AddElement
  <2>3. {j, k} \in SUBSET D
    BY <1>9
  <2> QED BY <1>6, <2>2, <2>3, FS_Subset
<1> QED BY <1>1, <1>4, <1>5, <1>7, <1>10

LEMMA StagedTests ==
  ASSUME NEW q, NEW l, IsCall(l), q.opt.fullLI \in BOOLEAN, NEW fresh \in BOOLEAN, SetupAuxiliaryWorkingSet(q, l, fresh)
  PROVE  loc'.fullLI = l.fullLI \/ loc'.fullLI = q.opt.fullLI
<1> DEFINE b == q.opt.fullLI
<1>1. loc' = Refused(l, fresh) \/ loc' = Fixed(l, fresh, b) \/ loc' = Looping(l, fresh, b)
  BY Zenon DEF SetupAuxiliaryWorkingSet, Goto, Refused, Fixed, Looping
<1> HIDE DEF b
<1>2. Refused(l, fresh).fullLI = l.fullLI /\ Fixed(l, fresh, b).fullLI = b
  BY DEF Refused, Fixed, IsCall
<1>3. Looping(l, fresh, b).fullLI = b
  <2> DEFINE s == IF fresh THEN "equalB" ELSE "removeC"
  <2>1. Looping(l, fresh, b) = [l EXCEPT !.stage = s, !.i = 1, !.afresh = fresh, !.fullLI = b]
    BY DEF Looping
  <2> HIDE DEF s
  <2> QED BY <2>1 DEF IsCall
<1> QED BY <1>1, <1>2, <1>3 DEF b

(* The loops of setupAuxiliaryWorkingSet(): fixed variables are added      *)
(* untested only where no constraint is active.                            *)
Loops(q, l) ==
  l.afresh => l.stage \notin {"removeC", "removeB"} /\ (l.stage = "equalB" => Active(q) = {})

LEMMA WorkingSetFit ==
  ASSUME NEW q, NEW l, Ready(q, l), Fit(q), ~l.fullLI, NEW fresh \in BOOLEAN, SetupAuxiliaryWorkingSet(q, l, fresh),
         fresh \/ TrivialWorkingSet(q, l) => Active(q) = {}
  PROVE  NZ(qp') >= 0 /\ ~qp'.opt.fullLI /\ ~loc'.fullLI /\ Loops(qp', loc')
<1>0. Good(q) /\ IsCall(l) /\ ~q.opt.fullLI /\ q.opt.fullLI \in BOOLEAN
  BY DEF Ready, Fit, Plain, Good, QPs, OptionRecords
<1>1. ~loc'.fullLI
  BY <1>0, StagedTests
<1>2. /\ Kept(q, qp') /\ \E s : Staged(l, loc', s, fresh)
      /\ \/ loc'.stage = "failed" /\ qp' = q
         \/ /\ \A i \in Idx : Aux(q, l, i) # "UNDEFINED"
            /\ loc'.stage = "done" /\ TrivialWorkingSet(q, l) /\ qp' = FixAll(q, l)
         \/ /\ \A i \in Idx : Aux(q, l, i) # "UNDEFINED"
            /\ loc'.stage = IF fresh THEN "equalB" ELSE "removeC"
            /\ qp' = [q EXCEPT !.opt.fullLI = FALSE]
  BY WorkingSetGoes, Zenon
<1>3. loc'.afresh = fresh
  BY <1>2 DEF Staged
<1>4. CASE loc'.stage = "failed" /\ qp' = q
  BY <1>0, <1>1, <1>4 DEF Fit, Loops
<1>5. CASE /\ \A i \in Idx : Aux(q, l, i) # "UNDEFINED"
           /\ loc'.stage = "done" /\ TrivialWorkingSet(q, l) /\ qp' = FixAll(q, l)
  <2>1. qp'.held = q.held \cup {i \in Vars : q.st[i] = "INACTIVE"}
    BY <1>5, FixAllGood
  <2>2. Active(qp') = {}
    BY <1>5, <2>1, Partition DEF Active
  <2>3. qp'.opt = q.opt
    <3> DEFINE I == {i \in Vars : q.st[i] = "INACTIVE"}
               st == [i \in Idx |-> IF i \in I THEN Aux(q, l, i) ELSE q.st[i]]
               p == [q EXCEPT !.held = q.held \cup I, !.st = st]
    <3>1. FixAll(q, l) = p
      BY <1>0 DEF FixAll, Good, QPs
    <3> HIDE DEF I, st
    <3>2. p.opt = q.opt
      BY <1>0 DEF Good, QPs
    <3> QED BY <1>5, <3>1, <3>2
  <2>4. NZ(qp') >= 0
    BY <1>2, <2>2, Dimensions DEF Kept
  <2> QED BY <1>0, <1>1, <1>5, <2>3, <2>4 DEF Loops
<1>6. CASE /\ loc'.stage = IF fresh THEN "equalB" ELSE "removeC"
           /\ qp' = [q EXCEPT !.opt.fullLI = FALSE]
  <2>1. qp'.held = q.held /\ qp'.st = q.st
    BY <1>0, <1>6, NoFullTests
  <2>2. ~qp'.opt.fullLI
    BY <1>0, <1>6 DEF Good, QPs, OptionRecords
  <2>3. NZ(qp') = NZ(q) /\ Active(qp') = Active(q)
    BY <2>1, AlikeDimension
  <2> QED BY <1>1, <1>3, <1>6, <2>2, <2>3 DEF Loops, Fit
<1> QED BY <1>2, <1>4, <1>5, <1>6

-----------------------------------------------------------------------------
(* What the steps of a call do to the dimension of the null space.         *)

(* What IndependentWorkingSet is about, and the invariant it needs beside  *)
(* Inv: the quick tests are in use, and the loops of                       *)
(* setupAuxiliaryWorkingSet() are where they may add bounds untested.      *)
Tested == ~use.opt.drop /\ ~use.opt.fullLI /\ (NV < 4 \/ use.guesses = {})
RankInv ==
  Tested =>
    /\ NZ(qp) >= 0 /\ ~qp.opt.fullLI /\ ~loc.fullLI
    /\ use.class = "QProblemB" => Active(qp) = {}
    /\ pc = "workingset" => use.class # "QProblemB" /\ Loops(qp, loc)

(* p has the working set of q, or none of the constraints active.          *)
Level(q, p) ==
  /\ p.opt.fullLI = q.opt.fullLI
  /\ Active(p) = {} \/ (p.held = q.held /\ p.st = q.st)

LEMMA LevelTrans ==
  ASSUME NEW q, NEW p, NEW o, Level(q, p), Level(p, o)
  PROVE  Level(q, o)
  BY DEF Level, Active

LEMMA LevelRefl ==
  ASSUME NEW q
  PROVE  Level(q, q)
  BY DEF Level

LEMMA LevelRank ==
  ASSUME Inv', use' = use, RankInv, Level(qp, qp'), ~loc'.fullLI \/ loc'.fullLI = loc.fullLI, pc' # "workingset"
  PROVE  RankInv'
<1> SUFFICES ASSUME Tested
             PROVE  NZ(qp') >= 0 /\ ~qp'.opt.fullLI /\ ~loc'.fullLI /\ (use.class = "QProblemB" => Active(qp') = {})
  BY DEF RankInv, Tested
<1>1. NZ(qp) >= 0 /\ ~qp.opt.fullLI /\ ~loc.fullLI /\ (use.class = "QProblemB" => Active(qp) = {})
  BY DEF RankInv
<1>2. ~qp'.opt.fullLI /\ ~loc'.fullLI
  BY <1>1 DEF Level
<1>3. CASE Active(qp') = {}
  <2>1. Good(qp')
    BY DEF Inv, ObjectOK
  <2> DEFINE p == qp'
  <2>2. Good(p) /\ Active(p) = {}
    BY <2>1, <1>3
  <2> HIDE DEF p
  <2>3. NZ(p) >= 0
    BY <2>2, Dimensions
  <2> QED BY <1>2, <1>3, <2>3 DEF p
<1>4. CASE qp'.held = qp.held /\ qp'.st = qp.st
  BY <1>1, <1>2, <1>4, AlikeDimension
<1> QED BY <1>3, <1>4 DEF Level

LEMMA LevelFields ==
  ASSUME NEW q, Good(q)
  PROVE  /\ \A x : Level(q, [q EXCEPT !.qps = x]) /\ Level(q, [q EXCEPT !.data = x]) /\ Level(q, [q EXCEPT !.hess = x])
         /\ \A x : Level(q, [q EXCEPT !.type = x])
         /\ Level(q, [q EXCEPT !.inf = TRUE]) /\ Level(q, [q EXCEPT !.unb = TRUE])
         /\ Level(q, [q EXCEPT !.inf = FALSE, !.unb = FALSE])
<1>1. \A x : Level(q, [q EXCEPT !.qps = x]) /\ Level(q, [q EXCEPT !.data = x]) /\ Level(q, [q EXCEPT !.hess = x])
  BY DEF Level, Good, QPs
<1>2. \A x : Level(q, [q EXCEPT !.type = x])
  BY DEF Level, Good, QPs
<1>3. Level(q, [q EXCEPT !.inf = TRUE]) /\ Level(q, [q EXCEPT !.unb = TRUE])
  BY DEF Level, Good, QPs
<1>4. Level(q, [q EXCEPT !.inf = FALSE, !.unb = FALSE])
  BY DEF Level, Good, QPs
<1> QED BY <1>1, <1>2, <1>3, <1>4

LEMMA FactoredLevel ==
  ASSUME NEW q, NEW p, Factored(q, p)
  PROVE  Level(q, p)
  BY DEF Level, Factored

LEMMA TypesLevel ==
  ASSUME NEW q, Good(q), NEW kind
  PROVE  /\ \A u \in SetupSubjectToType(q, kind) : Level(q, u)
         /\ \A u \in SetupSubjectToTypeB(q, kind) : Level(q, u)
<1>1. ASSUME NEW I, NEW u \in WithTypes(q, kind, I) PROVE Level(q, u)
  <2>1. PICK t : u = [q EXCEPT !.type = t]
    BY Zenon DEF WithTypes
  <2>2. Level(q, [q EXCEPT !.type = t])
    BY LevelFields
  <2> QED BY <2>1, <2>2, Zenon
<1> QED BY <1>1 DEF SetupSubjectToType, SetupSubjectToTypeB

LEMMA QPboundsLevel ==
  ASSUME NEW q, Good(q), NEW relax
  PROVE  Level(q, SetupAuxiliaryQPboundsB(q, relax)) /\ Level(q, SetupAuxiliaryQPbounds(q, relax))
<1> DEFINE d == [i \in Idx |-> IF q.type[i] = "EQUALITY" THEN "equal" ELSE IF relax THEN "range" ELSE "unknown"]
<1>1. SetupAuxiliaryQPboundsB(q, relax) = [q EXCEPT !.data = d] /\ SetupAuxiliaryQPbounds(q, relax) = [q EXCEPT !.data = d]
  BY Zenon DEF SetupAuxiliaryQPboundsB, SetupAuxiliaryQPbounds
<1> HIDE DEF d
<1>2. Level(q, [q EXCEPT !.data = d])
  BY LevelFields
<1> QED BY <1>1, <1>2, Zenon

LEMMA AllInactiveLevel ==
  ASSUME NEW q, Good(q)
  PROVE  Level(q, AllInactive(q)) /\ Active(AllInactive(q)) = {}
<1>1. AllInactive(q).held = {}
  BY AllInactiveKept
<1>2. AllInactive(q).opt = q.opt
  <2> DEFINE s == [i \in Idx |-> "INACTIVE"]
  <2> HIDE DEF s
  <2>1. [q EXCEPT !.held = {}, !.st = s].opt = q.opt
    BY DEF Good, QPs
  <2> QED BY <2>1 DEF AllInactive, s
<1> QED BY <1>1, <1>2 DEF Level, Active

(* Calls that begin, and calls that are over.                              *)
LEMMA ReturnRank ==
  ASSUME Inv', use' = use, RankInv, Level(qp, qp'), NEW l, IsCall(l), NEW ret, Return(l, ret)
  PROVE  RankInv'
<1>1. /\ loc' = [call |-> l.call, calls |-> l.calls, start |-> "cold", kind |-> [i \in Idx |-> "range"],
                 wrong |-> l.wrong, aux |-> [i \in Idx |-> "INACTIVE"], alias |-> {}, stage |-> "none",
                 afresh |-> TRUE, i |-> 1, fullLI |-> FALSE, try |-> 0, was |-> {}, iter |-> 0, max |-> l.max,
                 first |-> 0, far |-> l.far, step |-> 0, ret |-> ret]
      /\ pc' = "idle"
  BY DEF Return, NoCall
<1>2. ~loc'.fullLI
  BY <1>1
<1> QED BY <1>1, <1>2, LevelRank

LEMMA CallsUntested ==
  ASSUME NEW call, NEW start, NEW aux, NEW l \in Calls(call, start, aux)
  PROVE  ~l.fullLI
<1>1. PICK c \in Arguments : l = Called(call, start, aux, c)
  BY DEF Calls
<1> QED BY <1>1 DEF NoCall, Called

LEMMA GotoRank ==
  ASSUME Inv', use' = use, RankInv, NEW q, Level(qp, q), NEW l, ~l.fullLI \/ l.fullLI = loc.fullLI,
         NEW where, where # "workingset", Goto(where, q, l)
  PROVE  RankInv'
  BY LevelRank DEF Goto

LEMMA ConsistentTests ==
  ASSUME NEW o \in OptionRecords
  PROVE  EnsureConsistency(o).fullLI = o.fullLI
<1> DEFINE a == NonNegative(o.drift)
           b == NonNegative(o.refactor)
           c == NonNegative(o.steps)
<1>1. EnsureConsistency(o) = [o EXCEPT !.drift = a, !.refactor = b, !.steps = c, !.grows = TRUE]
  BY DEF EnsureConsistency, OptionRecords
<1> HIDE DEF a, b, c
<1>2. [o EXCEPT !.drift = a, !.refactor = b, !.steps = c, !.grows = TRUE].fullLI = o.fullLI
  BY DEF OptionRecords
<1> QED BY <1>1, <1>2

LEMMA InitRank == ASSUME InitState PROVE RankInv
<1>1. use \in UseRecords /\ use.opt \in OptionRecords
  BY QProblemBAssumption DEF InitState, UseRecords
<1>2. Good(qp) /\ qp.opt = EnsureConsistency(use.opt) /\ qp.held = {}
  BY <1>1, FreshGood, ConsistentOptions DEF InitState
<1>3. Active(qp) = {} /\ NZ(qp) >= 0
  <2>1. Active(qp) = {}
    BY <1>2 DEF Active
  <2>2. NAC(qp) = 0 /\ NFR(qp) \in Nat /\ NZ(qp) = NFR(qp) - NAC(qp)
    BY <1>2, <2>1, Dimensions
  <2> QED BY <2>1, <2>2
<1>4. pc = "idle" /\ ~loc.fullLI
  BY DEF InitState, NoCall
<1>5. qp.opt.fullLI = use.opt.fullLI
  BY <1>1, <1>2, ConsistentTests
<1> QED BY <1>3, <1>4, <1>5 DEF RankInv, Tested

LEMMA SetHessianTypeRank ==
  ASSUME Inv, Inv', RankInv, NEW h, SetHessianType(h)
  PROVE  RankInv'
<1>1. use' = use /\ pc' = "idle" /\ loc' = loc /\ qp' = [qp EXCEPT !.hess = h] /\ Good(qp)
  BY DEF SetHessianType, Inv, ObjectOK
<1>2. Level(qp, [qp EXCEPT !.hess = h])
  BY <1>1, LevelFields
<1>3. Level(qp, qp')
  BY <1>1, <1>2, Zenon
<1> QED BY <1>1, <1>3, LevelRank

LEMMA AssignRank ==
  ASSUME Inv, Inv', RankInv, AssignNewQProblem
  PROVE  RankInv'
<1> DEFINE o == EnsureConsistency(use.opt)
           f == FreshQP(o)
<1>1. use.opt \in OptionRecords /\ Good(qp)
  BY DEF Inv, ObjectOK, UseRecords
<1>2. o \in OptionRecords /\ o.fullLI = use.opt.fullLI
  BY <1>1, ConsistentOptions, ConsistentTests
<1>3. Good(f) /\ f.opt = o /\ f.held = {} /\ \A i \in Idx : f.st[i] = "UNDEFINED"
  BY <1>2, FreshGood
<1>4. qp' = Copy(qp, f) /\ loc' = [NoCall EXCEPT !.calls = loc.calls] /\ use' = use /\ pc' = "idle"
  BY DEF AssignNewQProblem, GetNewQProblem
<1> HIDE DEF o, f
<1>5. qp'.held = {} /\ qp'.opt = o
  BY <1>1, <1>3, <1>4, CopyGood
<1>6. ~loc'.fullLI
  BY <1>4 DEF NoCall
<1>7. CASE ~Tested
  BY <1>4, <1>7 DEF RankInv, Tested
<1>8. CASE Tested
  <2>1. Level(qp, qp')
    BY <1>2, <1>5, <1>8 DEF Level, Active, RankInv, Tested, Inv, ObjectOK, Good, QPs, UseRecords, OptionRecords
  <2> QED BY <1>4, <1>6, <2>1, LevelRank
<1> QED BY <1>7, <1>8

(* init().                                                                 *)
LEMMA RegularisingLevel ==
  ASSUME NEW q, Good(q)
  PROVE  Level(q, Regularising(q))
<1> DEFINE x == q.opt
           y == [x EXCEPT !.reg = TRUE]
           o == [x EXCEPT !.reg = TRUE, !.steps = 1]
           u == [q EXCEPT !.opt = o]
<1>1. Regularising(q) \in {q, u}
  BY Zenon DEF Regularising
<1>2. x \in OptionRecords
  BY DEF Good, QPs
<1>3. o.fullLI = x.fullLI
  <2> HIDE DEF x
  <2>1. y.fullLI = x.fullLI /\ y \in OptionRecords
    BY <1>2 DEF OptionRecords
  <2>2. o = [y EXCEPT !.steps = 1]
    OBVIOUS
  <2> HIDE DEF y
  <2>3. [y EXCEPT !.steps = 1].fullLI = y.fullLI
    BY <2>1 DEF OptionRecords
  <2> QED BY <2>1, <2>2, <2>3
<1> HIDE DEF o
<1>4. u.opt = o /\ u.held = q.held /\ u.st = q.st
  BY DEF Good, QPs
<1> HIDE DEF u
<1>5. Level(q, u)
  BY <1>3, <1>4 DEF Level
<1> QED BY <1>1, <1>5, LevelRefl

LEMMA HessianTypeLevel ==
  ASSUME NEW q, Good(q), NEW H, NEW r \in DetermineHessianType(q, H)
  PROVE  Level(q, r.q)
<1> DEFINE z == [q EXCEPT !.hess = "ZERO"]
<1>1. r.q \in {q, Regularising(q), Regularising(z), [q EXCEPT !.hess = "IDENTITY"],
               [q EXCEPT !.hess = "POSDEF"], [q EXCEPT !.hess = "INDEF"]}
  BY DEF DetermineHessianType, Out
<1>2. \A h : Level(q, [q EXCEPT !.hess = h])
  BY LevelFields
<1>3. Good(z) /\ Level(q, z)
  BY <1>2, HessMoves DEF HessianTypes, Moved
<1> HIDE DEF z
<1>4. Level(q, Regularising(z)) /\ Level(q, Regularising(q)) /\ Level(q, q)
  BY <1>3, RegularisingLevel, LevelTrans, LevelRefl
<1>5. Level(q, [q EXCEPT !.hess = "IDENTITY"]) /\ Level(q, [q EXCEPT !.hess = "POSDEF"]) /\ Level(q, [q EXCEPT !.hess = "INDEF"])
  BY <1>2
<1> QED BY <1>1, <1>4, <1>5, Zenon

LEMMA ResetLevel ==
  ASSUME ObjectOK
  PROVE  Level(qp, IF qp.qps = "NOTINITIALISED" THEN qp ELSE FreshQP(qp.opt))
<1>1. qp.opt \in OptionRecords
  BY DEF ObjectOK, Good, QPs
<1>2. Level(qp, FreshQP(qp.opt))
  BY <1>1, FreshGood DEF Level, Active
<1> QED BY <1>2, LevelRefl

LEMMA InitGoesRank ==
  ASSUME Inv', RankInv, use' = use, NEW q, Good(q), Level(qp, q), NEW l, NewCall(l), ~l.fullLI, NEW H,
         \/ qp' = q /\ Return(l, "INVALID_ARGUMENTS")
         \/ \E r \in DetermineHessianType(q, H) :
              IF r.ret = "OK" THEN Goto("initial", r.q, l) ELSE qp' = r.q /\ Return(l, "INIT_FAILED")
  PROVE  RankInv'
<1>1. IsCall(l)
  BY DEF NewCall
<1>2. CASE qp' = q /\ Return(l, "INVALID_ARGUMENTS")
  BY <1>1, <1>2, ReturnRank
<1>3. ASSUME NEW r \in DetermineHessianType(q, H),
             IF r.ret = "OK" THEN Goto("initial", r.q, l) ELSE qp' = r.q /\ Return(l, "INIT_FAILED")
      PROVE  RankInv'
  <2>1. Level(qp, r.q)
    BY HessianTypeLevel, LevelTrans
  <2>2. CASE Goto("initial", r.q, l)
    BY <2>1, <2>2, GotoRank
  <2>3. CASE qp' = r.q /\ Return(l, "INIT_FAILED")
    BY <1>1, <2>1, <2>3, ReturnRank
  <2> QED BY <1>3, <2>2, <2>3
<1> QED BY <1>2, <1>3

LEMMA InitCallRank ==
  ASSUME Inv, Inv', RankInv, NEW l, NewCall(l), ~l.fullLI, NEW H, InitB(l, H) \/ Init_(l, H)
  PROVE  RankInv'
<1> DEFINE f == IF qp.qps = "NOTINITIALISED" THEN qp ELSE FreshQP(qp.opt)
           q == [f EXCEPT !.data = l.kind]
           a == [q EXCEPT !.data = qp.data]
           b == [q EXCEPT !.qps = "NOTINITIALISED"]
<1>1. ObjectOK
  BY DEF Inv
<1>2. \/ (qp' = a \/ qp' = f) /\ Return(l, "INVALID_ARGUMENTS")
      \/ \E r \in DetermineHessianType(b, H) :
           IF r.ret = "OK" THEN Goto("initial", r.q, l) ELSE qp' = r.q /\ Return(l, "INIT_FAILED")
  BY Zenon DEF InitB, Init_, SetupQPdata, SetupQPdataB, Reset, ResetB
<1>3. Good(f) /\ Level(qp, f)
  BY <1>1, ResetGood, ResetLevel
<1>4. l.kind \in [Idx -> AllKinds \cup {"unknown"}] /\ qp.data \in [Idx -> AllKinds \cup {"unknown"}]
  BY <1>1 DEF NewCall, IsCall, ObjectOK, Good, QPs
<1> HIDE DEF f
<1>5. Good(q) /\ Level(f, q)
  BY <1>3, <1>4, DataKept, LevelFields DEF Kept
<1> HIDE DEF q
<1>6. Good(a) /\ Level(q, a) /\ Good(b) /\ Level(q, b)
  BY <1>4, <1>5, DataKept, PhaseKept, LevelFields DEF Kept, QPStatuses
<1> HIDE DEF a, b
<1>7. Level(qp, a) /\ Level(qp, b)
  BY <1>3, <1>5, <1>6, LevelTrans
<1>8. use' = use
  BY DEF InitB, Init_
<1> QED BY <1>2, <1>3, <1>6, <1>7, <1>8, InitGoesRank, Zenon

LEMMA FileRank ==
  ASSUME Inv, Inv', RankInv, NEW l, NewCall(l),
         InitFromFileB(l) \/ InitFromFile(l) \/ HotstartFromFileB(l) \/ HotstartFromFile(l)
  PROVE  RankInv'
<1> DEFINE f == IF qp.qps = "NOTINITIALISED" THEN qp ELSE FreshQP(qp.opt)
           a == [i \in Idx |-> IF i \in Vars THEN "unknown" ELSE f.data[i]]
           b == [i \in Idx |-> "unknown"]
<1>1. ObjectOK
  BY DEF Inv
<1>2. qp' = [f EXCEPT !.data = a] \/ qp' = [f EXCEPT !.data = b] \/ qp' = qp
  BY DEF InitFromFileB, InitFromFile, HotstartFromFileB, HotstartFromFile, SetupQPdataFromFileB,
         SetupQPdataFromFile, ResetB, Reset
<1>3. Good(f) /\ Level(qp, f)
  BY <1>1, ResetGood, ResetLevel
<1> HIDE DEF f, a, b
<1>4. Level(f, [f EXCEPT !.data = a]) /\ Level(f, [f EXCEPT !.data = b])
  BY <1>3, LevelFields
<1>5. Level(qp, qp')
  BY <1>2, <1>3, <1>4, LevelTrans, LevelRefl, Zenon
<1>6. use' = use /\ Return(l, "UNABLE_TO_READ_FILE") /\ IsCall(l)
  BY DEF InitFromFileB, InitFromFile, HotstartFromFileB, HotstartFromFile, NewCall
<1> QED BY <1>5, <1>6, ReturnRank

LEMMA GoodFit ==
  ASSUME Inv, RankInv, Tested
  PROVE  Fit(qp) /\ Good(qp) /\ ~loc.fullLI
  BY DEF Inv, ObjectOK, RankInv, Tested, Fit, Plain

LEMMA LevelFit ==
  ASSUME NEW q, Fit(q), NEW p, Good(p), p.opt.drop = q.opt.drop, Level(q, p)
  PROVE  Fit(p)
<1>1. Plain(p)
  BY DEF Fit, Plain, Level
<1>2. CASE Active(p) = {}
  BY <1>1, <1>2, InactiveFit
<1>3. CASE p.held = q.held /\ p.st = q.st
  BY <1>1, <1>3, AlikeDimension DEF Fit
<1> QED BY <1>2, <1>3 DEF Level

LEMMA WorkingSetRank ==
  ASSUME use' = use, NEW q, NEW l, Ready(q, l), NEW fresh \in BOOLEAN, SetupAuxiliaryWorkingSet(q, l, fresh),
         use.class # "QProblemB",
         Tested => Fit(q) /\ ~l.fullLI /\ (fresh \/ TrivialWorkingSet(q, l) => Active(q) = {})
  PROVE  RankInv'
  BY WorkingSetFit DEF RankInv, Tested

LEMMA HotstartRank ==
  ASSUME Inv, Inv', RankInv, NEW l, NewCall(l), ~l.fullLI, Hotstart(l), l.start # "cold" => use.guesses # {}
  PROVE  RankInv'
<1>1. ObjectOK /\ use' = use /\ Good(qp) /\ use.class # "QProblemB"
  BY DEF Inv, Hotstart, ObjectOK, Constrained
<1>2. IsCall(l) /\ l.step = 0 /\ l.iter = 0 /\ \A q : Guessing(q, l)
  BY NewCallGuesses DEF NewCall
<1>3. CASE l.start = "cold"
  <2>1. Goto("hotstart", qp, l)
    BY <1>3 DEF Hotstart
  <2> QED BY <1>1, <2>1, GotoRank, LevelRefl
<1>4. CASE l.start # "cold"
  <2> DEFINE p == [qp EXCEPT !.qps = "PREPARINGAUXILIARYQP"]
  <2>1. \/ \E u \in SetupSubjectToType(p, qp.data) : SetupAuxiliaryWorkingSet(AllInactive(u), l, TRUE)
        \/ ~ShallRefactorise(qp, Guess(qp, l)) /\ SetupAuxiliaryWorkingSet(p, l, FALSE)
    BY <1>4, Zenon DEF Hotstart
  <2>2. Kept(qp, p) /\ Good(p) /\ p.held = qp.held /\ p.st = qp.st /\ p.hess = qp.hess /\ p.type = qp.type /\ p.opt = qp.opt
    <3>1. p.held = qp.held /\ p.st = qp.st /\ p.hess = qp.hess /\ p.type = qp.type /\ p.opt = qp.opt
      BY <1>1 DEF Good, QPs
    <3> QED BY <1>1, <3>1, PhaseKept DEF QPStatuses, Kept
  <2> HIDE DEF p
  <2>3. ASSUME NEW q, Kept(qp, q) PROVE Ready(q, l)
    BY <1>1, <1>2, <2>3 DEF Ready, Kept, ObjectOK
  <2>4. Tested => Fit(p)
    BY <2>2, GoodFit, AlikeFit
  <2>5. ASSUME NEW u \in SetupSubjectToType(p, qp.data), SetupAuxiliaryWorkingSet(AllInactive(u), l, TRUE)
        PROVE  RankInv'
    <3>1. Kept(p, u) /\ Good(u) /\ Level(p, u)
      BY <2>2, SubjectToTypesKept, TypesLevel DEF Kept
    <3> DEFINE a == AllInactive(u)
    <3>2. Kept(u, a) /\ Good(a) /\ Level(u, a) /\ Active(a) = {}
      BY <3>1, AllInactiveKept, AllInactiveLevel DEF Kept
    <3> HIDE DEF a
    <3>3. Ready(a, l) /\ Kept(p, a) /\ Level(p, a)
      BY <2>2, <2>3, <3>1, <3>2, KeptTrans, LevelTrans
    <3>4. Tested => Fit(a)
      BY <2>4, <3>2, <3>3, LevelFit DEF Kept
    <3>5. SetupAuxiliaryWorkingSet(a, l, TRUE)
      BY <2>5 DEF a
    <3> QED BY <1>1, <3>2, <3>3, <3>4, <3>5, WorkingSetRank
  <2>6. ASSUME ~ShallRefactorise(qp, Guess(qp, l)), SetupAuxiliaryWorkingSet(p, l, FALSE) PROVE RankInv'
    <3>1. Guess(p, l) = Guess(qp, l)
      BY <2>2 DEF Guess, Aux
    <3>2. ~GuessIsFar(p, Guess(p, l), Idx)
      BY <2>2, <2>6, <3>1 DEF ShallRefactorise, GuessIsFar
    <3>3. ASSUME Tested, TrivialWorkingSet(p, l) PROVE Active(p) = {}
      <4>1. NV < 4
        BY <1>4, <3>3 DEF Tested
      <4> QED BY <1>2, <2>4, <3>2, <3>3, <4>1, TrivialGuess
    <3>4. Ready(p, l)
      BY <2>2, <2>3
    <3> QED BY <1>1, <2>4, <2>6, <3>3, <3>4, WorkingSetRank
  <2> QED BY <2>1, <2>5, <2>6, Zenon
<1> QED BY <1>3, <1>4

LEMMA TryRank ==
  ASSUME Inv', RankInv, use' = use, use.class # "QProblemB", NEW q, NEW l, NEW old, Ready(q, l),
         q.opt.drop \/ \A i \in Idx : old[i] \in Known, TryWorkingSet(q, l, old),
         Tested => ~q.opt.fullLI /\ ~l.fullLI
  PROVE  RankInv'
<1>1. PICK u \in SetupSubjectToType(q, l.kind), aux \in [Idx -> Statuses] :
         /\ \A i \in Idx : aux[i] \in OtherSide(u, old, l.was, i)
         /\ SetupAuxiliaryWorkingSet(AllInactive(u), [l EXCEPT !.aux = aux], TRUE)
  BY Zenon DEF TryWorkingSet
<1> DEFINE m == [l EXCEPT !.aux = aux]
           a == AllInactive(u)
<1>2. IsCall(m) /\ m.step = l.step /\ m.iter = l.iter /\ m.aux = aux /\ m.fullLI = l.fullLI
  BY DEF IsCall, Ready
<1>3. Kept(q, u) /\ Good(u) /\ Level(q, u)
  BY SubjectToTypesKept, TypesLevel DEF Kept, Ready
<1>4. Kept(u, a) /\ Good(a) /\ Level(u, a) /\ Active(a) = {}
  BY <1>3, AllInactiveKept, AllInactiveLevel DEF Kept
<1> HIDE DEF a
<1>5. Kept(q, a) /\ Level(q, a)
  BY <1>3, <1>4, KeptTrans, LevelTrans
<1>6. q.opt.drop \/ \A i \in Idx : aux[i] \in Known
  BY <1>1 DEF OtherSide, Known
<1>7. SetupAuxiliaryWorkingSet(a, m, TRUE)
  BY <1>1 DEF a
<1> HIDE DEF m
<1>8. Ready(a, m)
  BY <1>2, <1>5, <1>6 DEF Ready, Kept, Guessing
<1>9. Tested => Fit(a)
  <2>1. Tested => Plain(a)
    BY <1>4, <1>5 DEF Plain, Level, Tested, Ready, Kept
  <2> QED BY <1>4, <2>1, InactiveFit
<1> QED BY <1>2, <1>4, <1>7, <1>8, <1>9, WorkingSetRank

LEMMA NewHessianLevel ==
  ASSUME NEW q, Good(q), q.opt.steps \in Nat, NEW H, NEW r \in NewHessian(q, H)
  PROVE  Level(q, r.q)
<1>1. CASE H = "null"
  <2>1. r = Out(q, "NO_HESSIAN_SPECIFIED") \/ r = Out(q, "OK")
    BY <1>1, Zenon DEF NewHessian
  <2> QED BY <2>1, LevelRefl DEF Out
<1>2. CASE H # "null"
  <2> DEFINE p == [q EXCEPT !.hess = "UNKNOWN"]
             again(u) == IF u.hess \in {"ZERO", "SEMIDEF"} \/ u.reg
                         THEN RegulariseHessian([u EXCEPT !.reg = FALSE]) ELSE {Out(u, "OK")}
  <2>1. Good(p) /\ p.opt = q.opt /\ Level(q, p)
    BY HessMoves, LevelFields DEF HessianTypes, Moved
  <2>2. PICK d \in DetermineHessianType(p, H) : r \in IF d.ret = "OK" THEN again(d.q) ELSE {d}
    BY <1>2 DEF NewHessian, Then
  <2> HIDE DEF p
  <2>3. Good(d.q) /\ Level(p, d.q)
    BY <2>1, HessianTypeOutcome, HessianTypeLevel
  <2> DEFINE o == [d.q EXCEPT !.reg = FALSE]
  <2>4. Factored(d.q, o) /\ Good(o)
    BY <2>3, FactoredFields DEF Factored
  <2>5. \/ r.q = d.q \/ r \in RegulariseHessian(o)
    <3>1. \/ r = d \/ r = Out(d.q, "OK") \/ r \in RegulariseHessian(o)
      BY <2>2, Zenon
    <3> HIDE DEF again, o
    <3> QED BY <3>1 DEF Out
  <2> HIDE DEF o
  <2>6. r \in RegulariseHessian(o) => Factored(d.q, r.q)
    BY <2>4, RegulariseFactored, FactoredTrans DEF Factorisation
  <2>7. Level(d.q, r.q)
    BY <2>5, <2>6, FactoredLevel, LevelRefl
  <2> QED BY <2>1, <2>3, <2>7, LevelTrans
<1> QED BY <1>1, <1>2

LEMMA HotstartMatricesRank ==
  ASSUME Inv, Inv', RankInv, NEW l, NewCall(l), ~l.fullLI, NEW H, HotstartMatrices(l, H)
  PROVE  RankInv'
<1>1. /\ ObjectOK /\ use' = use /\ Good(qp) /\ qp.opt.steps \in Nat /\ qp.opt.drop = use.opt.drop
      /\ use.class # "QProblemB"
  BY DEF Inv, HotstartMatrices, ObjectOK
<1>2. IsCall(l) /\ l.step = 0 /\ l.iter = 0 /\ \A q : Guessing(q, l)
  BY NewCallGuesses DEF NewCall
<1>3. CASE ~Startable(qp)
  <2>1. qp' = qp /\ Return(l, "HOTSTART_FAILED_AS_QP_NOT_INITIALISED")
    BY <1>3 DEF HotstartMatrices
  <2> QED BY <1>1, <1>2, <2>1, ReturnRank, LevelRefl
<1>4. CASE Startable(qp)
  <2> DEFINE p == [qp EXCEPT !.qps = "PREPARINGAUXILIARYQP"]
             m == [l EXCEPT !.was = {i \in Idx : qp.type[i] = "EQUALITY"}]
  <2>1. PICK r \in NewHessian(p, H) :
          IF r.ret # "OK" THEN qp' = r.q /\ Return(l, "SETUP_AUXILIARYQP_FAILED")
          ELSE TryWorkingSet(r.q, m, qp.st)
    BY <1>4, Zenon DEF HotstartMatrices
  <2>2. Kept(qp, p) /\ Good(p) /\ Level(qp, p)
    BY <1>1, PhaseKept, LevelFields DEF QPStatuses, Kept
  <2>3. IsCall(m) /\ m.step = 0 /\ m.iter = 0 /\ m.aux = l.aux /\ m.fullLI = l.fullLI
    BY <1>2 DEF IsCall
  <2> HIDE DEF p, m
  <2>4. Good(r.q) /\ r.q.opt.drop = use.opt.drop /\ r.q.opt.steps \in Nat /\ Level(qp, r.q)
    <3>1. p.opt.steps \in Nat /\ p.opt.drop = qp.opt.drop
      BY <1>1, <2>2 DEF Kept
    <3>2. Level(p, r.q)
      BY <2>2, <3>1, NewHessianLevel
    <3> QED BY <1>1, <2>2, <3>1, <3>2, NewHessianOutcome, LevelTrans
  <2>5. CASE r.ret # "OK"
    BY <1>1, <1>2, <2>1, <2>4, <2>5, ReturnRank
  <2>6. CASE r.ret = "OK"
    <3>1. Ready(r.q, m)
      BY <1>2, <2>3, <2>4 DEF Ready, Guessing
    <3>2. r.q.opt.drop \/ \A i \in Idx : qp.st[i] \in Known
      BY <1>1, <2>4 DEF Good, Agreeing
    <3>3. Tested => ~r.q.opt.fullLI /\ ~m.fullLI
      BY <2>3, <2>4 DEF RankInv, Level
    <3> QED BY <1>1, <2>1, <2>6, <3>1, <3>2, <3>3, TryRank
  <2> QED BY <2>5, <2>6
<1> QED BY <1>3, <1>4

LEMMA FinishMatricesRank ==
  ASSUME Inv, Inv', RankInv, FinishMatrices
  PROVE  RankInv'
<1>0. use' = use /\ (Tested => use.class # "QProblemB")
  BY DEF FinishMatrices, RankInv
<1> SUFFICES ASSUME use.class # "QProblemB" PROVE RankInv'
  BY <1>0 DEF RankInv, Tested
<1>1. /\ ObjectOK /\ use' = use /\ Good(qp) /\ qp.opt.steps \in Nat /\ qp.opt.drop = use.opt.drop
      /\ pc = "workingset" /\ IsCall(loc) /\ loc.step <= qp.opt.steps /\ loc.iter = 0 /\ Guessing(qp, loc)
  BY DEF Inv, FinishMatrices, ObjectOK, FlowOK
<1>2. CASE loc.stage = "failed"
  <2>1. qp' = qp /\ Return(loc, "SETUP_AUXILIARYQP_FAILED")
    BY <1>2 DEF FinishMatrices
  <2> QED BY <1>1, <2>1, ReturnRank, LevelRefl
<1>3. CASE loc.stage # "failed"
  <2> DEFINE m == [loc EXCEPT !.try = 1]
  <2>1. PICK r \in ComputeProjectedCholesky(qp) :
          \/ NewAuxiliaryQP(r.q, loc)
          \/ TryWorkingSet(r.q, m, Again(r.q, loc))
    BY <1>3, Zenon DEF FinishMatrices
  <2>2. Kept(qp, r.q) /\ Good(r.q) /\ Level(qp, r.q)
    BY <1>1, ProjectedCholeskyFactored, FactoredKept, FactoredLevel DEF Factorisation, Kept
  <2>3. Ready(r.q, loc)
    BY <1>1, <2>2 DEF Ready, Kept, Guessing
  <2>4. ASSUME NewAuxiliaryQP(r.q, loc) PROVE RankInv'
    <3> DEFINE b == IF loc.try = 0 THEN r.q ELSE SetupAuxiliaryQPbounds(r.q, FALSE)
               q == [b EXCEPT !.qps = "AUXILIARYQPSOLVED"]
               l == [loc EXCEPT !.call = "hotstart"]
    <3>1. Goto("hotstart", q, l)
      BY <2>4, Zenon DEF NewAuxiliaryQP
    <3>2. Level(r.q, b) /\ Good(b)
      <4>1. Level(r.q, r.q) /\ Level(r.q, SetupAuxiliaryQPbounds(r.q, FALSE)) /\ Good(SetupAuxiliaryQPbounds(r.q, FALSE))
        BY <2>2, LevelRefl, QPboundsLevel, QPboundsKept DEF Kept
      <4> QED BY <2>2, <4>1, Zenon
    <3> HIDE DEF b
    <3>3. Level(b, q)
      BY <3>2, LevelFields
    <3>4. l.fullLI = loc.fullLI
      BY <1>1 DEF IsCall
    <3> HIDE DEF q, l
    <3>5. Level(qp, q)
      BY <2>2, <3>2, <3>3, LevelTrans
    <3> QED BY <1>1, <3>1, <3>4, <3>5, GotoRank
  <2>5. ASSUME TryWorkingSet(r.q, m, Again(r.q, loc)) PROVE RankInv'
    <3>1. IsCall(m) /\ m.step = loc.step /\ m.iter = 0 /\ m.aux = loc.aux /\ m.fullLI = loc.fullLI
      BY <1>1 DEF IsCall
    <3> HIDE DEF m
    <3>2. Ready(r.q, m)
      BY <2>3, <3>1 DEF Ready, Guessing
    <3>3. r.q.opt.initial \in Known
      BY <2>2 DEF Good, QPs, OptionRecords, Known, Held
    <3>4. r.q.opt.drop \/ \A i \in Idx : Again(r.q, loc)[i] \in Known
      BY <2>3, <3>3 DEF Ready, Guessing, Again
    <3>5. Tested => ~r.q.opt.fullLI /\ ~m.fullLI
      BY <2>2, <3>1 DEF RankInv, Level
    <3> QED BY <1>1, <2>5, <3>2, <3>4, <3>5, TryRank
  <2> QED BY <2>1, <2>4, <2>5
<1> QED BY <1>2, <1>3

LEMMA SolveInitialQPRank ==
  ASSUME Inv, Inv', RankInv, SolveInitialQP
  PROVE  RankInv'
<1>1. /\ ObjectOK /\ use' = use /\ Good(qp) /\ qp.opt.steps \in Nat /\ qp.opt.drop = use.opt.drop
      /\ IsCall(loc) /\ loc.step <= qp.opt.steps /\ loc.iter = 0 /\ Guessing(qp, loc) /\ use.class # "QProblemB"
  BY DEF Inv, SolveInitialQP, ObjectOK, FlowOK, Constrained
<1> DEFINE P(u) == [u EXCEPT !.qps = "PREPARINGAUXILIARYQP"]
<1>2. PICK u \in SetupSubjectToType(qp, loc.kind), aux \in [Idx -> Statuses] :
         /\ \A i \in Idx : aux[i] \in ObtainAuxiliary(AllInactive(P(u)), loc, i)
         /\ \E r \in IF AllInactive(P(u)).hess \in {"ZERO", "SEMIDEF"} THEN RegulariseHessian(AllInactive(P(u)))
                     ELSE {Out(AllInactive(P(u)), "OK")} :
              IF r.ret # "OK" THEN qp' = r.q /\ Return(loc, "INIT_FAILED_REGULARISATION")
              ELSE SetupAuxiliaryWorkingSet(r.q, [loc EXCEPT !.aux = aux], TRUE)
  BY Zenon DEF SolveInitialQP
<1>3. Kept(qp, u) /\ Good(u) /\ Level(qp, u)
  BY <1>1, SubjectToTypesKept, TypesLevel DEF Kept
<1>4. Kept(u, P(u)) /\ Good(P(u)) /\ Level(u, P(u))
  BY <1>3, PhaseKept, LevelFields DEF QPStatuses, Kept
<1> HIDE DEF P
<1> DEFINE q == AllInactive(P(u))
           m == [loc EXCEPT !.aux = aux]
<1>5. Kept(P(u), q) /\ Good(q) /\ Level(P(u), q) /\ Active(q) = {}
  BY <1>4, AllInactiveKept, AllInactiveLevel DEF Kept
<1>6. Kept(qp, q) /\ Level(qp, q)
  BY <1>3, <1>4, <1>5, KeptTrans, LevelTrans
<1>7. q.opt.drop \/ \A i \in Idx : aux[i] \in Known
  <2>1. Guessing(q, loc)
    BY <1>1, <1>6 DEF Guessing, Kept
  <2> QED BY <1>2, <1>5, <2>1, ObtainedKnown
<1>8. PICK r : /\ r = Out(q, "OK") \/ r \in RegulariseHessian(q)
               /\ \/ qp' = r.q /\ Return(loc, "INIT_FAILED_REGULARISATION")
                  \/ SetupAuxiliaryWorkingSet(r.q, m, TRUE)
  BY <1>2, Zenon
<1>9. IsCall(m) /\ m.step = loc.step /\ m.iter = loc.iter /\ m.aux = aux /\ m.fullLI = loc.fullLI
  BY <1>1 DEF IsCall
<1> HIDE DEF q, m
<1>10. Factored(q, r.q)
  BY <1>5, <1>8, RegulariseFactored, FactoredRefl DEF Factorisation, Out
<1>11. Kept(qp, r.q) /\ Level(qp, r.q) /\ Active(r.q) = {}
  <2>1. Kept(q, r.q) /\ Level(q, r.q)
    BY <1>10, FactoredKept, FactoredLevel
  <2>2. Active(r.q) = {}
    BY <1>5, <1>10 DEF Factored, Active
  <2> QED BY <1>6, <2>1, <2>2, KeptTrans, LevelTrans
<1>12. Ready(r.q, m)
  BY <1>1, <1>6, <1>7, <1>9, <1>11 DEF Ready, Kept, Guessing
<1>13. ASSUME qp' = r.q, Return(loc, "INIT_FAILED_REGULARISATION") PROVE RankInv'
  BY <1>1, <1>11, <1>13, ReturnRank
<1>14. ASSUME SetupAuxiliaryWorkingSet(r.q, m, TRUE) PROVE RankInv'
  <2>1. Tested => Fit(r.q) /\ ~m.fullLI
    BY <1>1, <1>9, <1>11, GoodFit, LevelFit DEF Kept
  <2> QED BY <1>1, <1>11, <1>12, <1>14, <2>1, WorkingSetRank
<1> QED BY <1>8, <1>13, <1>14

(* One more step of the loops.                                             *)
LEMMA LoopRank ==
  ASSUME use' = use, NEW q, NEW l, Goto("workingset", q, l), Tested => Fit(q) /\ ~l.fullLI /\ Loops(q, l),
         use.class # "QProblemB"
  PROVE  RankInv'
  BY DEF RankInv, Tested, Goto, Fit, Plain

LEMMA AdaptWorkingSetRank ==
  ASSUME Inv, Inv', RankInv, AdaptWorkingSet
  PROVE  RankInv'
<1>1. /\ ObjectOK /\ use' = use /\ Good(qp) /\ pc = "workingset" /\ IsCall(loc) /\ Guessing(qp, loc)
      /\ use.class # "QProblemB" /\ loc.stage \notin {"done", "failed"} /\ \A i \in Idx \ loc.alias : loc.aux[i] # "UNDEFINED"
  BY DEF Inv, AdaptWorkingSet, ObjectOK, FlowOK, Constrained
<1> SUFFICES ASSUME Tested PROVE RankInv'
  BY <1>1 DEF RankInv, Tested
<1>2. Fit(qp) /\ ~loc.fullLI /\ Loops(qp, loc) /\ loc.fullLI \in BOOLEAN /\ loc.afresh \in BOOLEAN
  BY <1>1, GoodFit DEF RankInv, IsCall
<1> DEFINE W == Work(qp, loc)
           i == CHOOSE k \in W : \A j \in W : k <= j
           p == [qp EXCEPT !.opt.fullLI = loc.fullLI]
           done == [loc EXCEPT !.stage = "done"]
           failed == [loc EXCEPT !.stage = "failed"]
           next == [loc EXCEPT !.stage = NextStage(@), !.i = 1]
           on == [loc EXCEPT !.i = Position(i) + 1]
<1>3. \/ Goto("workingset", p, done) \/ Goto("workingset", qp, next)
      \/ W # {} /\ \E r \in Treat(qp, loc, i) : Goto("workingset", r.q, on) \/ Goto("workingset", r.q, failed)
  BY <1>1, Zenon DEF AdaptWorkingSet
<1>4. ASSUME Goto("workingset", p, done) PROVE RankInv'
  <2>1. Kept(qp, p) /\ p.held = qp.held /\ p.st = qp.st
    BY <1>1, <1>2, NoFullTests
  <2>2. p.opt.fullLI = loc.fullLI
    BY <1>1 DEF Good, QPs, OptionRecords
  <2> HIDE DEF p
  <2>3. Fit(p)
    BY <1>2, <2>1, <2>2, AlikeDimension DEF Fit, Plain, Kept
  <2>4. ~done.fullLI /\ done.stage = "done"
    BY <1>1, <1>2 DEF IsCall
  <2> HIDE DEF done
  <2>5. Loops(p, done)
    BY <2>4 DEF Loops
  <2> QED BY <1>1, <1>4, <2>3, <2>4, <2>5, LoopRank
<1>5. ASSUME Goto("workingset", qp, next) PROVE RankInv'
  <2> DEFINE s == NextStage(loc.stage)
  <2>1. next = [loc EXCEPT !.stage = s, !.i = 1]
    BY <1>1 DEF IsCall
  <2>2. loc.stage \notin {"removeC", "removeB"} => s \notin {"removeC", "removeB", "equalB"}
    BY DEF NextStage
  <2> HIDE DEF s
  <2>3. next.fullLI = loc.fullLI /\ next.stage = s /\ next.afresh = loc.afresh
    BY <1>1, <2>1 DEF IsCall
  <2> HIDE DEF next
  <2>4. Loops(qp, next)
    BY <1>2, <2>2, <2>3 DEF Loops
  <2> QED BY <1>1, <1>2, <1>5, <2>3, <2>4, LoopRank
<1>6. ASSUME W # {}, NEW r \in Treat(qp, loc, i), Goto("workingset", r.q, on) \/ Goto("workingset", r.q, failed)
      PROVE  RankInv'
  <2>1. i \in W
    BY <1>1, <1>6, Worked
  <2> HIDE DEF i
  <2>2. loc.afresh /\ loc.stage = "equalB" => Active(qp) = {}
    BY <1>2 DEF Loops
  <2>3. Fit(r.q) /\ (loc.afresh /\ loc.stage = "equalB" => Active(r.q) = {})
    BY <1>1, <1>2, <1>6, <2>1, <2>2, TreatFit
  <2>4. failed.fullLI = loc.fullLI /\ failed.stage = "failed"
    BY <1>1 DEF IsCall
  <2>5. on.fullLI = loc.fullLI /\ on.stage = loc.stage /\ on.afresh = loc.afresh
    BY <1>1 DEF IsCall
  <2> HIDE DEF failed, on
  <2>6. Loops(r.q, on) /\ Loops(r.q, failed)
    BY <1>2, <2>3, <2>4, <2>5 DEF Loops
  <2> QED BY <1>1, <1>2, <1>6, <2>3, <2>4, <2>5, <2>6, LoopRank
<1> QED BY <1>3, <1>4, <1>5, <1>6, Zenon

LEMMA HotstartBeginsRank ==
  ASSUME Inv', RankInv, use' = use, NEW q, Good(q), Level(qp, q), NEW l, l.fullLI = loc.fullLI,
         \/ Goto("hotstart", [SetupAuxiliaryQPboundsB(q, TRUE) EXCEPT !.chol = FALSE, !.qps = "AUXILIARYQPSOLVED"], l)
         \/ Goto("hotstart", [SetupAuxiliaryQPbounds(q, TRUE) EXCEPT !.chol = FALSE, !.qps = "AUXILIARYQPSOLVED"], l)
         \/ Goto("hotstart", [SetupAuxiliaryQPbounds(q, FALSE) EXCEPT !.qps = "AUXILIARYQPSOLVED"], l)
  PROVE  RankInv'
<1> DEFINE b == SetupAuxiliaryQPboundsB(q, TRUE)
           c == SetupAuxiliaryQPbounds(q, FALSE)
           x == [b EXCEPT !.chol = FALSE, !.qps = "AUXILIARYQPSOLVED"]
           y == [c EXCEPT !.qps = "AUXILIARYQPSOLVED"]
<1>1. Goto("hotstart", x, l) \/ Goto("hotstart", y, l)
  BY Zenon DEF SetupAuxiliaryQPbounds
<1>2. Level(q, b) /\ Level(q, c) /\ Good(b) /\ Good(c)
  BY QPboundsKept, QPboundsLevel DEF Kept
<1> HIDE DEF b, c
<1>3. Level(b, x) /\ Level(c, y)
  <2>1. x.opt = b.opt /\ x.held = b.held /\ x.st = b.st
    BY <1>2 DEF Good, QPs
  <2> QED BY <1>2, <2>1, LevelFields DEF Level
<1> HIDE DEF x, y
<1>4. Level(qp, x) /\ Level(qp, y)
  BY <1>2, <1>3, LevelTrans
<1> QED BY <1>1, <1>4, GotoRank

LEMMA EnterInitialHotstartRank ==
  ASSUME Inv, Inv', RankInv, EnterInitialHotstart
  PROVE  RankInv'
<1>1. use' = use /\ Good(qp) /\ IsCall(loc)
  BY DEF Inv, EnterInitialHotstart, ObjectOK
<1>2. \/ qp' = qp /\ Return(loc, "INIT_FAILED")
      \/ Goto("hotstart", [SetupAuxiliaryQPbounds(qp, TRUE) EXCEPT !.chol = FALSE, !.qps = "AUXILIARYQPSOLVED"], loc)
  BY Zenon DEF EnterInitialHotstart
<1>3. ASSUME qp' = qp, Return(loc, "INIT_FAILED") PROVE RankInv'
  BY <1>1, <1>3, ReturnRank, LevelRefl
<1>4. ASSUME Goto("hotstart", [SetupAuxiliaryQPbounds(qp, TRUE) EXCEPT !.chol = FALSE, !.qps = "AUXILIARYQPSOLVED"], loc)
      PROVE  RankInv'
  BY <1>1, <1>4, HotstartBeginsRank, LevelRefl, Zenon
<1> QED BY <1>2, <1>3, <1>4, Zenon

LEMMA FinishGuessRank ==
  ASSUME Inv, Inv', RankInv, FinishGuess
  PROVE  RankInv'
<1>1. use' = use /\ Good(qp) /\ IsCall(loc)
  BY DEF Inv, FinishGuess, ObjectOK
<1>2. PICK r : /\ r = Out(qp, "OK") \/ r \in ComputeProjectedCholesky(qp)
               /\ \/ Goto("hotstart", [SetupAuxiliaryQPbounds(r.q, FALSE) EXCEPT !.qps = "AUXILIARYQPSOLVED"], loc)
                  \/ qp' = r.q /\ Return(loc, "SETUP_AUXILIARYQP_FAILED")
  BY Zenon DEF FinishGuess
<1>3. Level(qp, r.q) /\ Good(r.q)
  <2>1. Factored(qp, r.q)
    BY <1>1, <1>2, ProjectedCholeskyFactored, FactoredRefl DEF Factorisation, Out
  <2> QED BY <2>1, FactoredLevel DEF Factored
<1>4. ASSUME qp' = r.q, Return(loc, "SETUP_AUXILIARYQP_FAILED") PROVE RankInv'
  BY <1>1, <1>3, <1>4, ReturnRank
<1>5. ASSUME Goto("hotstart", [SetupAuxiliaryQPbounds(r.q, FALSE) EXCEPT !.qps = "AUXILIARYQPSOLVED"], loc) PROVE RankInv'
  BY <1>1, <1>3, <1>5, HotstartBeginsRank, Zenon
<1> QED BY <1>2, <1>4, <1>5, Zenon

(* A QProblemB never has an active constraint.                             *)
Sunk(q, p) == p.opt.fullLI = q.opt.fullLI /\ Active(p) \subseteq Active(q)

LEMMA SunkTrans ==
  ASSUME NEW q, NEW p, NEW o, Sunk(q, p), Sunk(p, o)
  PROVE  Sunk(q, o)
  BY DEF Sunk

LEMMA LevelSunk ==
  ASSUME NEW q, NEW p, Level(q, p)
  PROVE  Sunk(q, p)
  BY DEF Sunk, Level, Active

LEMMA SunkRank ==
  ASSUME Inv', use' = use, RankInv, use.class = "QProblemB", Sunk(qp, qp'),
         ~loc'.fullLI \/ loc'.fullLI = loc.fullLI, pc' # "workingset"
  PROVE  RankInv'
<1>1. CASE ~Tested
  BY <1>1 DEF RankInv, Tested
<1>2. CASE Tested
  <2>1. Level(qp, qp')
    BY <1>2 DEF RankInv, Sunk, Level
  <2> QED BY <2>1, LevelRank
<1> QED BY <1>1, <1>2

LEMMA AllFreeSunk ==
  ASSUME NEW q, Good(q)
  PROVE  Sunk(q, AllFree(q))
<1> DEFINE s == [i \in Idx |-> IF i \in Vars THEN "INACTIVE" ELSE q.st[i]]
           h == q.held \ Vars
           p == [q EXCEPT !.held = h, !.st = s]
<1>1. AllFree(q) = p
  BY DEF AllFree, Good, QPs
<1> HIDE DEF s
<1>2. p.opt = q.opt /\ p.held = h
  BY DEF Good, QPs
<1> HIDE DEF p
<1> QED BY <1>1, <1>2 DEF Sunk, Active

LEMMA WorkingSetBSunk ==
  ASSUME NEW q, Good(q), NEW aux, NEW afresh
  PROVE  Sunk(q, SetupAuxiliaryWorkingSetB(q, aux, afresh).q)
<1> DEFINE kept == {i \in q.held : afresh \/ aux[i] = q.st[i]}
           added == {i \in Vars \ kept : aux[i] # "INACTIVE" /\ (i \in q.held \/ q.st[i] = "INACTIVE")}
           s == [i \in Idx |-> IF i \in added THEN aux[i] ELSE IF i \in q.held \ kept THEN "INACTIVE" ELSE q.st[i]]
           h == kept \cup added
           p == [q EXCEPT !.held = h, !.st = s]
           r == SetupAuxiliaryWorkingSetB(q, aux, afresh)
<1>1. r = Out(q, "UNKNOWN_BUG") \/ r = Out(p, "OK")
  BY Zenon DEF SetupAuxiliaryWorkingSetB
<1>2. h \cap Cons \subseteq q.held \cap Cons
  BY Partition
<1> HIDE DEF s, h, r
<1>3. p.opt = q.opt /\ p.held = h
  BY DEF Good, QPs
<1> HIDE DEF p
<1>4. r.q = q \/ r.q = p
  BY <1>1 DEF Out
<1> QED BY <1>2, <1>3, <1>4 DEF Sunk, Active, r

LEMMA AuxiliaryQPBSunk ==
  ASSUME NEW q, Good(q), NEW l, NewCall(l), NEW r \in SetupAuxiliaryQPB(q, l.aux)
  PROVE  Sunk(q, r.q) /\ Good(r.q)
<1> DEFINE p == [q EXCEPT !.qps = "PREPARINGAUXILIARYQP"]
           fresh == {SetupAuxiliaryWorkingSetB(AllFree(u), l.aux, TRUE).q : u \in SetupSubjectToTypeB(p, q.data)}
           w == SetupAuxiliaryWorkingSetB(p, l.aux, FALSE).q
<1>1. Good(p) /\ Sunk(q, p) /\ Good(r.q)
  BY PhaseKept, LevelFields, LevelSunk, AuxiliaryQPBKept DEF QPStatuses, Kept
<1>2. \A i \in Vars : l.aux[i] \in Statuses /\ l.aux[i] \in Known
  BY Partition DEF NewCall, Statuses, Known
<1>3. \/ \E v \in fresh : \E c \in ComputeCholesky(v) :
           r = Out(SetupAuxiliaryQPboundsB(c.q, FALSE), "OK") \/ r = Out(c.q, "SETUP_AUXILIARYQP_FAILED")
      \/ r = Out(SetupAuxiliaryQPboundsB(w, FALSE), "OK")
  BY Zenon DEF SetupAuxiliaryQPB
<1>4. ASSUME NEW v \in fresh PROVE Sunk(p, v) /\ Good(v)
  <2>1. PICK u \in SetupSubjectToTypeB(p, q.data) : v = SetupAuxiliaryWorkingSetB(AllFree(u), l.aux, TRUE).q
    OBVIOUS
  <2> HIDE DEF p, fresh
  <2>2. Sunk(p, u) /\ Good(u)
    BY <1>1, SubjectToTypesKept, TypesLevel, LevelSunk DEF Kept
  <2> DEFINE a == AllFree(u)
  <2>3. Sunk(u, a) /\ Good(a)
    BY <2>2, AllFreeKept, AllFreeSunk DEF Kept
  <2> HIDE DEF a
  <2>4. v = SetupAuxiliaryWorkingSetB(a, l.aux, TRUE).q
    BY <2>1 DEF a
  <2>5. Sunk(a, v) /\ Good(v)
    BY <1>2, <2>3, <2>4, WorkingSetBKept, WorkingSetBSunk DEF Kept
  <2> QED BY <2>2, <2>3, <2>5, SunkTrans
<1>5. Sunk(p, w) /\ Good(w)
  <2> HIDE DEF p
  <2> QED BY <1>1, <1>2, WorkingSetBKept, WorkingSetBSunk DEF Kept
<1> HIDE DEF p, fresh, w
<1>6. ASSUME NEW v \in fresh, NEW c \in ComputeCholesky(v),
             r = Out(SetupAuxiliaryQPboundsB(c.q, FALSE), "OK") \/ r = Out(c.q, "SETUP_AUXILIARYQP_FAILED")
      PROVE  Sunk(p, r.q)
  <2>1. Sunk(p, v) /\ Good(v)
    BY <1>4
  <2>2. Sunk(v, c.q) /\ Good(c.q)
    BY <2>1, CholeskyFactored, FactoredLevel, LevelSunk DEF Factorisation, Factored
  <2> DEFINE b == SetupAuxiliaryQPboundsB(c.q, FALSE)
  <2>3. Sunk(c.q, b)
    BY <2>2, QPboundsLevel, LevelSunk
  <2> HIDE DEF b
  <2>4. r = Out(b, "OK") \/ r = Out(c.q, "SETUP_AUXILIARYQP_FAILED")
    BY <1>6 DEF b
  <2>5. r.q = b \/ r.q = c.q
    BY <2>4 DEF Out
  <2> QED BY <2>1, <2>2, <2>3, <2>5, SunkTrans
<1>7. ASSUME r = Out(SetupAuxiliaryQPboundsB(w, FALSE), "OK") PROVE Sunk(p, r.q)
  <2> DEFINE b == SetupAuxiliaryQPboundsB(w, FALSE)
  <2>1. Sunk(w, b)
    BY <1>5, QPboundsLevel, LevelSunk
  <2> HIDE DEF b
  <2>2. r.q = b
    BY <1>7 DEF b, Out
  <2> QED BY <1>5, <2>1, <2>2, SunkTrans
<1> QED BY <1>1, <1>3, <1>6, <1>7, SunkTrans

LEMMA HotstartBRank ==
  ASSUME Inv, Inv', RankInv, NEW l, NewCall(l), ~l.fullLI, HotstartB(l)
  PROVE  RankInv'
<1>1. use' = use /\ Good(qp) /\ IsCall(l) /\ use.class = "QProblemB"
  BY DEF Inv, HotstartB, ObjectOK, NewCall
<1>2. CASE l.start = "cold"
  <2>1. Goto("hotstart", qp, l)
    BY <1>2 DEF HotstartB
  <2> QED BY <1>1, <2>1, GotoRank, LevelRefl
<1>3. CASE l.start # "cold"
  <2>1. PICK r \in SetupAuxiliaryQPB(qp, l.aux) :
          \/ Goto("hotstart", [r.q EXCEPT !.qps = "AUXILIARYQPSOLVED"], l)
          \/ qp' = r.q /\ Return(l, "SETUP_AUXILIARYQP_FAILED")
    BY <1>3 DEF HotstartB
  <2>2. Sunk(qp, r.q) /\ Good(r.q)
    BY <1>1, AuxiliaryQPBSunk
  <2> DEFINE a == [r.q EXCEPT !.qps = "AUXILIARYQPSOLVED"]
  <2>3. Sunk(r.q, a)
    BY <2>2, LevelFields, LevelSunk
  <2> HIDE DEF a
  <2>4. CASE Goto("hotstart", a, l)
    <3>1. Sunk(qp, qp') /\ ~loc'.fullLI /\ pc' = "hotstart"
      BY <2>2, <2>3, <2>4, SunkTrans DEF Goto
    <3> QED BY <1>1, <3>1, SunkRank
  <2>5. CASE qp' = r.q /\ Return(l, "SETUP_AUXILIARYQP_FAILED")
    <3>1. ~loc'.fullLI /\ pc' = "idle"
      BY <2>5 DEF Return, NoCall
    <3> QED BY <1>1, <2>2, <2>5, <3>1, SunkRank
  <2> QED BY <2>1, <2>4, <2>5 DEF a
<1> QED BY <1>2, <1>3

LEMMA SolveInitialQPBRank ==
  ASSUME Inv, Inv', RankInv, SolveInitialQPB
  PROVE  RankInv'
<1>1. /\ use' = use /\ Good(qp) /\ IsCall(loc) /\ Guessing(qp, loc) /\ use.class = "QProblemB"
  BY DEF Inv, SolveInitialQPB, ObjectOK
<1> DEFINE P(u) == [u EXCEPT !.qps = "PREPARINGAUXILIARYQP"]
<1>2. PICK u \in SetupSubjectToTypeB(qp, loc.kind), aux \in [Vars -> Statuses] :
         /\ \A i \in Vars : aux[i] \in ObtainAuxiliaryB(AllFree(P(u)), loc, i)
         /\ LET ws == SetupAuxiliaryWorkingSetB(AllFree(P(u)), aux, TRUE)
            IN  IF ws.ret # "OK" THEN qp' = ws.q /\ Return(loc, "INIT_FAILED")
                ELSE \E r \in IF ws.q.hess \in {"ZERO", "SEMIDEF"} THEN RegulariseHessian(ws.q) ELSE {ws} :
                       IF r.ret # "OK" THEN qp' = r.q /\ Return(loc, "INIT_FAILED_REGULARISATION")
                       ELSE Goto("hotstart",
                                 [SetupAuxiliaryQPboundsB(r.q, TRUE) EXCEPT !.chol = FALSE,
                                                                            !.qps = "AUXILIARYQPSOLVED"], loc)
  BY Zenon DEF SolveInitialQPB
<1>3. Kept(qp, u) /\ Good(u) /\ Sunk(qp, u)
  BY <1>1, SubjectToTypesKept, TypesLevel, LevelSunk DEF Kept
<1>4. Kept(u, P(u)) /\ Good(P(u)) /\ Sunk(u, P(u))
  BY <1>3, PhaseKept, LevelFields, LevelSunk DEF QPStatuses, Kept
<1> HIDE DEF P
<1> DEFINE q == AllFree(P(u))
           ws == SetupAuxiliaryWorkingSetB(q, aux, TRUE)
<1>5. Kept(P(u), q) /\ Good(q) /\ Sunk(P(u), q)
  BY <1>4, AllFreeKept, AllFreeSunk DEF Kept
<1>6. Kept(qp, q) /\ Sunk(qp, q)
  BY <1>3, <1>4, <1>5, KeptTrans, SunkTrans
<1>7. \A i \in Vars : aux[i] \in Statuses /\ (q.opt.drop \/ aux[i] \in Known)
  <2>1. Guessing(q, loc)
    BY <1>1, <1>6 DEF Guessing, Kept
  <2> QED BY <1>2, <1>5, <2>1, ObtainedKnown, Partition
<1>8. \/ qp' = ws.q /\ Return(loc, "INIT_FAILED")
      \/ \E r : /\ r = ws \/ r \in RegulariseHessian(ws.q)
                /\ \/ qp' = r.q /\ Return(loc, "INIT_FAILED_REGULARISATION")
                   \/ Goto("hotstart", [SetupAuxiliaryQPboundsB(r.q, TRUE) EXCEPT !.chol = FALSE,
                                                                                  !.qps = "AUXILIARYQPSOLVED"], loc)
  BY <1>2, Zenon
<1> HIDE DEF q
<1>9. Good(ws.q) /\ Sunk(q, ws.q)
  BY <1>5, <1>7, WorkingSetBKept, WorkingSetBSunk DEF Kept
<1> HIDE DEF ws
<1>10. Sunk(qp, ws.q)
  BY <1>6, <1>9, SunkTrans
<1>11. ASSUME NEW r, r = ws \/ r \in RegulariseHessian(ws.q) PROVE Sunk(qp, r.q) /\ Good(r.q)
  <2>1. Factored(ws.q, r.q)
    BY <1>9, <1>11, RegulariseFactored, FactoredRefl DEF Factorisation
  <2> QED BY <1>10, <2>1, FactoredLevel, LevelSunk, SunkTrans DEF Factored
<1>12. ASSUME NEW ret, Return(loc, ret), Sunk(qp, qp') PROVE RankInv'
  <2>1. ~loc'.fullLI /\ pc' = "idle"
    BY <1>12 DEF Return, NoCall
  <2> QED BY <1>1, <1>12, <2>1, SunkRank
<1>13. ASSUME NEW r, r = ws \/ r \in RegulariseHessian(ws.q),
              Goto("hotstart", [SetupAuxiliaryQPboundsB(r.q, TRUE) EXCEPT !.chol = FALSE,
                                                                          !.qps = "AUXILIARYQPSOLVED"], loc)
       PROVE  RankInv'
  <2> DEFINE b == SetupAuxiliaryQPboundsB(r.q, TRUE)
             x == [b EXCEPT !.chol = FALSE, !.qps = "AUXILIARYQPSOLVED"]
  <2>1. Sunk(qp, r.q) /\ Good(r.q)
    BY <1>11, <1>13
  <2>2. Sunk(r.q, b) /\ Good(b)
    BY <2>1, QPboundsKept, QPboundsLevel, LevelSunk DEF Kept
  <2> HIDE DEF b
  <2>3. x.opt = b.opt /\ x.held = b.held
    BY <2>2 DEF Good, QPs
  <2>4. Goto("hotstart", x, loc)
    BY <1>13 DEF b
  <2> HIDE DEF x
  <2>5. Sunk(b, x)
    BY <2>3 DEF Sunk, Active
  <2>6. Sunk(qp, x)
    BY <2>1, <2>2, <2>5, SunkTrans
  <2> QED BY <1>1, <2>4, <2>6, SunkRank DEF Goto
<1> QED BY <1>8, <1>10, <1>11, <1>12, <1>13, Zenon

LEMMA LocFields ==
  ASSUME IsCall(loc)
  PROVE  /\ \A x : [loc EXCEPT !.ret = x].fullLI = loc.fullLI /\ [loc EXCEPT !.first = x].fullLI = loc.fullLI
         /\ \A x : [loc EXCEPT !.step = x].fullLI = loc.fullLI /\ [loc EXCEPT !.iter = x].fullLI = loc.fullLI
         /\ \A x : [loc EXCEPT !.far = x].fullLI = loc.fullLI /\ [loc EXCEPT !.i = x].fullLI = loc.fullLI
         /\ \A x, y : [loc EXCEPT !.stage = x, !.i = y].fullLI = loc.fullLI
<1>1. \A x : [loc EXCEPT !.ret = x].fullLI = loc.fullLI /\ [loc EXCEPT !.first = x].fullLI = loc.fullLI
  BY DEF IsCall
<1>2. \A x : [loc EXCEPT !.step = x].fullLI = loc.fullLI /\ [loc EXCEPT !.iter = x].fullLI = loc.fullLI
  BY DEF IsCall
<1>3. \A x : [loc EXCEPT !.far = x].fullLI = loc.fullLI /\ [loc EXCEPT !.i = x].fullLI = loc.fullLI
  BY DEF IsCall
<1>4. \A x, y : [loc EXCEPT !.stage = x, !.i = y].fullLI = loc.fullLI
  BY DEF IsCall
<1> QED BY <1>1, <1>2, <1>3, <1>4

LEMMA SolveReturnsRank ==
  ASSUME Inv, Inv', RankInv, use' = use, NEW q, Level(qp, q), NEW ret, SolveReturns(q, ret)
  PROVE  RankInv'
<1> DEFINE l == [loc EXCEPT !.ret = ret]
<1>1. Goto("solved", q, l)
  BY Zenon DEF SolveReturns
<1>2. l.fullLI = loc.fullLI
  BY LocFields DEF Inv, ObjectOK
<1> HIDE DEF l
<1> QED BY <1>1, <1>2, GotoRank

LEMMA StartHotstartRank ==
  ASSUME Inv, Inv', RankInv, StartHotstartB \/ StartHotstart
  PROVE  RankInv'
<1>1. use' = use /\ Good(qp) /\ IsCall(loc)
  BY DEF Inv, StartHotstartB, StartHotstart, ObjectOK
<1>2. \/ \E x : Goto("end", SetInfeasibilityFlag(qp, "OK").q, [loc EXCEPT !.ret = x])
      \/ \E r : /\ r \in SetupInitialCholeskyB(qp) \/ r \in SetupInitialCholesky(qp)
                /\ Goto("solve", r.q, loc) \/ Goto("end", r.q, [loc EXCEPT !.ret = r.ret])
  BY Zenon DEF StartHotstartB, StartHotstart, EnterHotstart
<1>3. Level(qp, SetInfeasibilityFlag(qp, "OK").q)
  <2> DEFINE f == [qp EXCEPT !.inf = TRUE]
  <2>1. Level(qp, f)
    BY <1>1, LevelFields
  <2>2. SetInfeasibilityFlag(qp, "OK") = Out(f, "OK")
    BY DEF SetInfeasibilityFlag
  <2> HIDE DEF f
  <2>3. Out(f, "OK").q = f
    BY DEF Out
  <2> QED BY <2>1, <2>2, <2>3
<1>4. \A r : r \in SetupInitialCholeskyB(qp) \/ r \in SetupInitialCholesky(qp) => Level(qp, r.q)
  BY <1>1, InitialCholeskyFactored, FactoredLevel DEF Factorisation
<1>5. PICK q, where, l : Level(qp, q) /\ where # "workingset" /\ l.fullLI = loc.fullLI /\ Goto(where, q, l)
  <2>1. \A x : [loc EXCEPT !.ret = x].fullLI = loc.fullLI
    BY <1>1, LocFields
  <2> QED BY <1>2, <1>3, <1>4, <2>1, Zenon
<1> QED BY <1>1, <1>5, GotoRank

LEMMA LoopBeginsRank ==
  ASSUME Inv, Inv', RankInv, use' = use, NEW q, Good(q), Level(qp, q),
         Goto("iterate", [q EXCEPT !.inf = FALSE, !.unb = FALSE], [loc EXCEPT !.first = loc.iter])
  PROVE  RankInv'
<1> DEFINE x == [q EXCEPT !.inf = FALSE, !.unb = FALSE]
           l == [loc EXCEPT !.first = loc.iter]
<1>1. Level(q, x)
  BY LevelFields
<1>2. l.fullLI = loc.fullLI
  BY LocFields DEF Inv, ObjectOK
<1>3. Goto("iterate", x, l)
  OBVIOUS
<1> HIDE DEF x, l
<1> QED BY <1>1, <1>2, <1>3, LevelTrans, GotoRank

LEMMA SolveQPBRank ==
  ASSUME Inv, Inv', RankInv, SolveQPB
  PROVE  RankInv'
<1>1. use' = use /\ Good(qp)
  BY DEF Inv, SolveQPB, ObjectOK
<1>2. \/ SolveReturns(qp, "HOTSTART_FAILED_AS_QP_NOT_INITIALISED")
      \/ \E q \in SetupSubjectToTypeB(qp, Asked(qp, loc)) :
           Goto("iterate", [q EXCEPT !.inf = FALSE, !.unb = FALSE], [loc EXCEPT !.first = loc.iter])
  BY Zenon DEF SolveQPB
<1>3. \A q \in SetupSubjectToTypeB(qp, Asked(qp, loc)) : Good(q) /\ Level(qp, q)
  BY <1>1, SubjectToTypesKept, TypesLevel DEF Kept
<1> QED BY <1>1, <1>2, <1>3, SolveReturnsRank, LoopBeginsRank, LevelRefl, Zenon

LEMMA SolveQPRank ==
  ASSUME Inv, Inv', RankInv, SolveQP
  PROVE  RankInv'
<1>1. use' = use /\ Good(qp) /\ IsCall(loc)
  BY DEF Inv, SolveQP, ObjectOK
<1> DEFINE p == [qp EXCEPT !.qps = "PERFORMINGHOMOTOPY"]
           l == [loc EXCEPT !.stage = "infinite", !.i = 1]
<1>2. \/ SolveReturns(qp, "HOTSTART_FAILED_AS_QP_NOT_INITIALISED")
      \/ \E q \in SetupSubjectToTypeB(p, Asked(qp, loc)) : Goto("activities", q, l)
  BY Zenon DEF SolveQP
<1>3. Good(p) /\ Level(qp, p)
  BY <1>1, PhaseKept, LevelFields DEF QPStatuses, Kept
<1>4. l.fullLI = loc.fullLI
  BY <1>1, LocFields
<1> HIDE DEF p, l
<1>5. \A q \in SetupSubjectToTypeB(p, Asked(qp, loc)) : Level(qp, q)
  BY <1>3, TypesLevel, LevelTrans
<1>6. CASE SolveReturns(qp, "HOTSTART_FAILED_AS_QP_NOT_INITIALISED")
  BY <1>1, <1>6, SolveReturnsRank, LevelRefl
<1>7. ASSUME NEW q \in SetupSubjectToTypeB(p, Asked(qp, loc)), Goto("activities", q, l) PROVE RankInv'
  BY <1>1, <1>4, <1>5, <1>7, GotoRank
<1> QED BY <1>2, <1>6, <1>7

-----------------------------------------------------------------------------
(* The iterations of solveQP().                                            *)

(* The step goes on with the working set of q.                             *)
Continues(q) == Level(q, qp') /\ loc'.fullLI = loc.fullLI /\ pc' # "workingset"

LEMMA ContinuesRank ==
  ASSUME Inv', use' = use, use.class # "QProblemB", NEW q, Continues(q), Tested => Fit(q) /\ ~loc.fullLI
  PROVE  RankInv'
<1> SUFFICES ASSUME Tested PROVE NZ(qp') >= 0 /\ ~qp'.opt.fullLI /\ ~loc'.fullLI
  BY DEF RankInv, Tested, Continues
<1>1. Fit(q) /\ ~loc'.fullLI /\ Level(q, qp')
  BY DEF Continues
<1>2. Good(qp') /\ qp'.opt.drop = use.opt.drop
  BY DEF Inv, ObjectOK
<1> DEFINE p == qp'
<1>3. Good(p) /\ Level(q, p) /\ p.opt.drop = q.opt.drop
  BY <1>1, <1>2 DEF Fit, Plain, Tested, Good, QPs, OptionRecords, Inv, ObjectOK, UseRecords
<1> HIDE DEF p
<1>4. Fit(p)
  BY <1>1, <1>3, LevelFit
<1> QED BY <1>1, <1>4 DEF p, Fit, Plain

LEMMA SolveReturnsContinues ==
  ASSUME IsCall(loc), NEW q, NEW ret, SolveReturns(q, ret)
  PROVE  Continues(q)
<1> DEFINE l == [loc EXCEPT !.ret = ret]
<1>1. Goto("solved", q, l)
  BY Zenon DEF SolveReturns
<1>2. l.fullLI = loc.fullLI
  BY LocFields
<1> HIDE DEF l
<1> QED BY <1>1, <1>2, LevelRefl DEF Goto, Continues

LEMMA StepFailedContinues ==
  ASSUME IsCall(loc), NEW q, Good(q), NEW ret, StepFailed(q, ret)
  PROVE  Continues(q)
<1> DEFINE p == [q EXCEPT !.qps = "HOMOTOPYQPSOLVED"]
<1>1. PICK x : SolveReturns(q, x) \/ SolveReturns(p, x)
  BY Zenon DEF StepFailed
<1>2. Level(q, p) /\ Level(q, q)
  BY LevelFields, LevelRefl
<1> HIDE DEF p
<1> QED BY <1>1, <1>2, SolveReturnsContinues, LevelTrans DEF Continues

LEMMA NextIterationContinues ==
  ASSUME IsCall(loc), NEW f, Good(f.q), NEW blocked, NextIteration(f, blocked)
  PROVE  Continues(f.q)
<1>1. CASE f.ret = "OK"
  <2> DEFINE l == [loc EXCEPT !.iter = @ + 1]
  <2>1. PICK q \in Corrected(f.q, blocked) : Goto("iterate", [q EXCEPT !.qps = "HOMOTOPYQPSOLVED"], l)
    BY <1>1, Zenon DEF NextIteration
  <2>2. l.fullLI = loc.fullLI
    BY DEF IsCall
  <2>3. Good(q)
    BY CorrectedHolds
  <2>4. Level(f.q, q)
    <3>1. \E I \in {Vars, Idx} : q \in {f.q, Spread(f.q, I), MovedToX(f.q, I)}
      BY DEF Corrected, PerformRampingB, PerformRamping, PerformDriftCorrectionB, PerformDriftCorrection
    <3>2. ASSUME NEW p, Good(p), NEW I PROVE Level(p, Spread(p, I)) /\ Level(p, MovedToX(p, I))
      <4> DEFINE d == [i \in Idx |-> IF i \notin I \/ p.type[i] = "UNBOUNDED" THEN p.data[i]
                                     ELSE IF p.type[i] = "EQUALITY" THEN "equal" ELSE "range"]
                 e == [i \in Idx |-> IF i \in I /\ p.type[i] = "EQUALITY" THEN "equal" ELSE p.data[i]]
      <4>1. Spread(p, I) = [p EXCEPT !.data = d] /\ MovedToX(p, I) = [p EXCEPT !.data = e]
        BY Zenon DEF Spread, MovedToX
      <4> HIDE DEF d, e
      <4>2. Level(p, [p EXCEPT !.data = d]) /\ Level(p, [p EXCEPT !.data = e])
        BY <3>2, LevelFields
      <4> QED BY <4>1, <4>2, Zenon
    <3> QED BY <3>1, <3>2, LevelRefl
  <2> DEFINE x == [q EXCEPT !.qps = "HOMOTOPYQPSOLVED"]
  <2>5. Level(q, x)
    BY <2>3, LevelFields
  <2>6. Goto("iterate", x, l)
    BY <2>1
  <2> HIDE DEF x, l
  <2> QED BY <2>2, <2>4, <2>5, <2>6, LevelTrans DEF Continues, Goto
<1>2. CASE f.ret # "OK"
  <2>1. SolveReturns(f.q, f.ret)
    BY <1>2, Zenon DEF NextIteration
  <2> QED BY <2>1, SolveReturnsContinues
<1> QED BY <1>1, <1>2

(* An iteration goes on with the working set it had, or with a changed     *)
(* one.                                                                    *)
LEMMA StepLevel ==
  ASSUME Good(qp)
  PROVE  /\ Level(qp, Performing) /\ Level(qp, Arrived(Performing, loc)) /\ Level(qp, Stepped(Performing))
         /\ Good(Stepped(Performing)) /\ Stepped(Performing).opt = qp.opt
<1> DEFINE p == [qp EXCEPT !.qps = "PERFORMINGHOMOTOPY"]
           d == [i \in Idx |-> "unknown"]
           e == Asked(p, loc)
<1>1. Good(p) /\ Level(qp, p)
  BY PhaseKept, LevelFields DEF QPStatuses, Kept
<1>2. Performing = p
  BY DEF Performing
<1> HIDE DEF p
<1>3. Stepped(p) = [p EXCEPT !.data = d] /\ Arrived(p, loc) = [p EXCEPT !.data = e, !.qps = "SOLVED"]
  BY Zenon DEF Stepped, Arrived
<1> HIDE DEF d, e
<1>4. Level(p, [p EXCEPT !.data = d])
  BY <1>1, LevelFields
<1>5. Level(p, [p EXCEPT !.data = e, !.qps = "SOLVED"])
  BY <1>1 DEF Level, Good, QPs
<1>6. Level(p, Stepped(p)) /\ Level(p, Arrived(p, loc))
  BY <1>3, <1>4, <1>5, Zenon
<1> QED BY <1>1, <1>2, <1>6, StepHolds, LevelTrans

LEMMA IterateRank ==
  ASSUME Inv, Inv', RankInv, Iterate
  PROVE  RankInv'
<1> DEFINE s == Stepped(Performing)
<1>1. use' = use /\ Good(qp) /\ IsCall(loc) /\ use.class # "QProblemB" /\ qp.opt.drop = use.opt.drop
  BY DEF Inv, Iterate, ObjectOK, Constrained
<1> SUFFICES ASSUME Tested PROVE RankInv'
  BY <1>1 DEF RankInv, Tested
<1>2. Fit(qp) /\ ~loc.fullLI
  BY GoodFit
<1>3. /\ Level(qp, Performing) /\ Level(qp, Arrived(Performing, loc)) /\ Level(qp, s) /\ Good(s)
      /\ s.opt = qp.opt
  BY <1>1, StepLevel
<1>4. Fit(s)
  BY <1>2, <1>3, LevelFit
<1>5. \/ \E d : SolveReturns(Performing, d)
      \/ SolveReturns(Arrived(Performing, loc), "OK")
      \/ \E f : (f = Out(s, "OK") \/ f \in ComputeProjectedCholesky(Out(s, "OK").q)) /\ NextIteration(f, FALSE)
      \/ \E b \in DualBlocks(s) \cup PrimalBlocks(s) : \E r \in ChangeActiveSet(s, b) :
           \/ StepFailed(r.q, r.ret)
           \/ \E f : (f = r \/ f \in ComputeProjectedCholesky(r.q)) /\ NextIteration(f, TRUE)
  BY Zenon DEF Iterate, ChangeWorkingSet, Refactorised, PerformStep
<1> HIDE DEF s
<1>6. \A b \in DualBlocks(s) \cup PrimalBlocks(s) : \A r \in ChangeActiveSet(s, b) : Fit(r.q)
  <2>1. DualBlocks(s) \cup PrimalBlocks(s) \subseteq Blocks(s, Idx) /\ Idx \in SUBSET Idx
    BY DEF DualBlocks, PrimalBlocks
  <2>2. \A b \in Blocks(s, Idx) : \A r \in ChangeActiveSet(s, b) : Outcome(s, r)
    BY <1>3, <2>1, ChangeMoves
  <2>3. \A b \in Blocks(s, Idx) : \A r \in ChangeActiveSet(s, b) : NZ(r.q) >= 0
    BY <1>4, ChangeDimension DEF Fit
  <2>4. \A b \in Blocks(s, Idx) : \A r \in ChangeActiveSet(s, b) : Fit(r.q)
    BY <1>4, <2>2, <2>3, OutcomeAdapted, FitAdapted
  <2> QED BY <2>1, <2>4
<1>7. ASSUME NEW q, Fit(q), NEW f, f.q = q \/ f \in ComputeProjectedCholesky(q), NEW blocked, NextIteration(f, blocked)
      PROVE  RankInv'
  <2>1. Good(q)
    BY <1>7 DEF Fit, Plain
  <2>2. Good(f.q) /\ Level(q, f.q)
    BY <1>7, <2>1, ProjectedCholeskyFactored, FactoredLevel, LevelRefl DEF Factorisation, Factored
  <2>3. Continues(q)
    BY <1>1, <1>7, <2>2, NextIterationContinues, LevelTrans DEF Continues
  <2> QED BY <1>1, <1>2, <1>7, <2>3, ContinuesRank
<1>8. ASSUME NEW d, SolveReturns(Performing, d) PROVE RankInv'
  BY <1>1, <1>3, <1>8, SolveReturnsRank
<1>9. ASSUME SolveReturns(Arrived(Performing, loc), "OK") PROVE RankInv'
  BY <1>1, <1>3, <1>9, SolveReturnsRank
<1>10. ASSUME NEW f, f = Out(s, "OK") \/ f \in ComputeProjectedCholesky(Out(s, "OK").q), NextIteration(f, FALSE)
       PROVE  RankInv'
  <2>1. f.q = s \/ f \in ComputeProjectedCholesky(s)
    BY <1>10 DEF Out
  <2> QED BY <1>4, <1>7, <1>10, <2>1
<1>11. ASSUME NEW b \in DualBlocks(s) \cup PrimalBlocks(s), NEW r \in ChangeActiveSet(s, b), StepFailed(r.q, r.ret)
       PROVE  RankInv'
  <2>1. Fit(r.q) /\ Good(r.q)
    BY <1>6 DEF Fit, Plain
  <2> QED BY <1>1, <1>2, <1>11, <2>1, StepFailedContinues, ContinuesRank
<1>12. ASSUME NEW b \in DualBlocks(s) \cup PrimalBlocks(s), NEW r \in ChangeActiveSet(s, b),
              NEW f, f = r \/ f \in ComputeProjectedCholesky(r.q), NextIteration(f, TRUE)
       PROVE  RankInv'
  BY <1>6, <1>7, <1>12
<1> QED BY <1>5, <1>8, <1>9, <1>10, <1>11, <1>12, Zenon

LEMMA LimitReachedRank ==
  ASSUME Inv, Inv', RankInv, LimitReached
  PROVE  RankInv'
<1>1. use' = use /\ SolveReturns(qp, "MAX_NWSR_REACHED")
  BY DEF LimitReached
<1> QED BY <1>1, LevelRefl, SolveReturnsRank

LEMMA UpdateActivitiesRank ==
  ASSUME Inv, Inv', RankInv, UpdateActivities
  PROVE  RankInv'
<1>1. use' = use /\ Good(qp) /\ IsCall(loc) /\ pc = "activities" /\ use.class # "QProblemB"
  BY DEF Inv, UpdateActivities, ObjectOK, Constrained
<1>2. \/ Goto("activities", qp, [loc EXCEPT !.stage = "fixed", !.i = 1])
      \/ Goto("iterate", [qp EXCEPT !.inf = FALSE, !.unb = FALSE], [loc EXCEPT !.first = loc.iter])
      \/ ~(loc.i > NV) /\ \E r : /\ r \in Withdrawn(qp, Asked(qp, loc)[loc.i], loc.i) \/ r \in NewEquality(qp, loc.i)
                                 /\ IF r.ret = "OK" THEN Goto("activities", r.q, [loc EXCEPT !.i = @ + 1])
                                    ELSE SolveReturns(r.q, r.ret)
  BY <1>1, Zenon DEF UpdateActivities
<1>3. ASSUME Goto("activities", qp, [loc EXCEPT !.stage = "fixed", !.i = 1]) PROVE RankInv'
  <2> DEFINE l == [loc EXCEPT !.stage = "fixed", !.i = 1]
  <2>1. l.fullLI = loc.fullLI
    BY <1>1, LocFields
  <2>2. Goto("activities", qp, l)
    BY <1>3
  <2> HIDE DEF l
  <2> QED BY <1>1, <2>1, <2>2, LevelRefl, GotoRank
<1>4. ASSUME Goto("iterate", [qp EXCEPT !.inf = FALSE, !.unb = FALSE], [loc EXCEPT !.first = loc.iter]) PROVE RankInv'
  BY <1>1, <1>4, LoopBeginsRank, LevelRefl, Zenon
<1>5. ASSUME ~(loc.i > NV), NEW r, r \in Withdrawn(qp, Asked(qp, loc)[loc.i], loc.i) \/ r \in NewEquality(qp, loc.i),
             IF r.ret = "OK" THEN Goto("activities", r.q, [loc EXCEPT !.i = @ + 1]) ELSE SolveReturns(r.q, r.ret)
      PROVE  RankInv'
  <2>1. loc.i \in Vars /\ loc.i \in Idx
    BY <1>1, <1>5, QProblemBAssumption DEF IsCall, Idx, Vars
  <2>2. Tested => Fit(r.q) /\ ~loc.fullLI
    BY <1>5, <2>1, GoodFit, WithdrawnFit, NewEqualityFit
  <2>3. Continues(r.q)
    <3>1. CASE r.ret = "OK"
      <4> DEFINE l == [loc EXCEPT !.i = @ + 1]
      <4>1. l.fullLI = loc.fullLI
        BY <1>1 DEF IsCall
      <4>2. Goto("activities", r.q, l)
        BY <1>5, <3>1
      <4> HIDE DEF l
      <4> QED BY <4>1, <4>2, LevelRefl DEF Continues, Goto
    <3>2. CASE r.ret # "OK"
      BY <1>1, <1>5, <3>2, SolveReturnsContinues
    <3> QED BY <3>1, <3>2
  <2> QED BY <1>1, <2>2, <2>3, ContinuesRank
<1> QED BY <1>2, <1>3, <1>4, <1>5, Zenon

LEMMA AfterSolveQPRank ==
  ASSUME Inv, Inv', RankInv, use' = use, AfterSolveQP
  PROVE  RankInv'
<1> DEFINE x == [loc EXCEPT !.step = @ + 1]
           y == [loc EXCEPT !.step = 0]
<1>1. Goto("solve", qp, x) \/ Goto("far", qp, y)
  BY Zenon DEF AfterSolveQP
<1>2. IsCall(loc)
  BY DEF Inv, ObjectOK
<1>3. x.fullLI = loc.fullLI /\ y.fullLI = loc.fullLI
  BY <1>2 DEF IsCall
<1> HIDE DEF x, y
<1> QED BY <1>1, <1>3, LevelRefl, GotoRank

LEMMA AfterFarBoundsRank ==
  ASSUME Inv, Inv', RankInv, use' = use, AfterFarBounds
  PROVE  RankInv'
<1> DEFINE q == [qp EXCEPT !.qps = "HOMOTOPYQPSOLVED"]
           u == [q EXCEPT !.unb = TRUE]
           x == [loc EXCEPT !.ret = "HOTSTART_STOPPED_INFEASIBILITY"]
           y == [loc EXCEPT !.ret = "HOTSTART_STOPPED_UNBOUNDEDNESS"]
           n == loc.far + (IF qp.opt.grows THEN 1 ELSE 0)
<1>1. IsCall(loc) /\ Good(qp)
  BY DEF Inv, ObjectOK
<1>2. \/ Goto("end", qp, loc) \/ Goto("end", qp, x) \/ Goto("solve", qp, Farther)
      \/ Goto("end", u, y) \/ Goto("solve", q, Farther)
  BY Zenon DEF AfterFarBounds
<1>3. Kept(qp, q) /\ Level(qp, q)
  BY <1>1, PhaseKept, LevelFields DEF QPStatuses
<1>4. Level(qp, u)
  <2> HIDE DEF q
  <2> QED BY <1>3, LevelFields, LevelTrans DEF Kept
<1>5. x.fullLI = loc.fullLI /\ y.fullLI = loc.fullLI
  BY <1>1, LocFields
<1>6. Farther.fullLI = loc.fullLI
  <2>1. Farther = [loc EXCEPT !.far = n]
    BY <1>1 DEF Farther, IsCall
  <2> HIDE DEF n
  <2> QED BY <1>1, <2>1, LocFields
<1> HIDE DEF q, u, x, y
<1>7. PICK o \in {qp, q, u}, l \in {loc, x, y, Farther}, where \in {"end", "solve"} : Goto(where, o, l)
  BY <1>2
<1>8. Level(qp, o) /\ l.fullLI = loc.fullLI
  BY <1>3, <1>4, <1>5, <1>6, <1>7, LevelRefl
<1> QED BY <1>7, <1>8, GotoRank

LEMMA EndRank ==
  ASSUME Inv, Inv', RankInv, EndB \/ End
  PROVE  RankInv'
<1>1. IsCall(loc) /\ use' = use /\ qp' = qp /\ \E ret : Return(loc, ret)
  BY DEF Inv, ObjectOK, EndB, End
<1> QED BY <1>1, LevelRefl, ReturnRank

(* changeActiveSet() of a QProblemB moves bounds only.                     *)
LEMMA ChangeBSunk ==
  ASSUME NEW q, Good(q), NEW b \in Blocks(q, Vars), NEW r \in ChangeActiveSetB(q, b)
  PROVE  Sunk(q, r.q)
<1>0. /\ b.i \in Idx
      /\ b.s = "INACTIVE" <=> b.i \in q.held
      /\ b.s = "INACTIVE" => q.type[b.i] # "EQUALITY"
  <2>1. Vars \in SUBSET Idx
    BY DEF Idx
  <2> QED BY <2>1, Blocking
<1>i. b.i \in Vars /\ b.i \notin Cons
  <2>1. b.i \in Vars
    BY DEF Blocks
  <2> QED BY <2>1, Partition
<1>1. CASE b.s = "INACTIVE"
  <2> DEFINE p == Leave(q, b.i)
             f == Flipped(q, b.i)
             ps == [p EXCEPT !.hess = "SEMIDEF"]
             fs == [f EXCEPT !.hess = "SEMIDEF"]
  <2>1. PICK u \in RemoveBoundB(q, b.i) : r = u \/ r = Out(u.q, "REMOVE_FROM_ACTIVESET_FAILED")
    BY <1>1 DEF ChangeActiveSetB
  <2>2. Good(p) /\ Good(f)
    BY <1>0, <1>1, LeaveMoves, FlippedMoves DEF Moved
  <2>3. p.held = q.held \ {b.i} /\ f.held = q.held
    BY HeldAfter
  <2>4. p.opt = q.opt /\ f.opt = q.opt
    BY DEF Leave, Flipped, Good, QPs
  <2>5. u.q \in {q, p, f, ps, fs}
    <3>1. u \in {Out(q, "UNKNOWN_BUG"), Out(p, "OK"), Out(f, "OK"), Out(p, "REMOVEBOUND_FAILED"), Out(fs, "OK"),
                 Out(ps, "HESSIAN_NOT_SPD")}
      BY DEF RemoveBoundB, BacksolveR
    <3> HIDE DEF p, f, ps, fs
    <3> QED BY <3>1 DEF Out
  <2>6. Sunk(p, ps) /\ Sunk(f, fs)
    <3> HIDE DEF p, f
    <3> QED BY <2>2, LevelFields, LevelSunk
  <2> HIDE DEF p, f, ps, fs
  <2>7. Sunk(q, p) /\ Sunk(q, f) /\ Sunk(q, q)
    BY <2>3, <2>4 DEF Sunk, Active
  <2>8. r.q = u.q
    BY <2>1 DEF Out
  <2> QED BY <2>5, <2>6, <2>7, <2>8, SunkTrans
<1>2. CASE b.s # "INACTIVE"
  <2> DEFINE e == Enter(q, b.i, b.s)
  <2>1. PICK u \in AddBoundB(q, b.i, b.s) : r = u \/ r = Out(u.q, "ADD_TO_ACTIVESET_FAILED")
    BY <1>2 DEF ChangeActiveSetB
  <2>2. u.q = q \/ u.q = e
    BY DEF AddBoundB, Out
  <2>3. r.q = u.q
    BY <2>1 DEF Out
  <2>4. e.held = q.held \cup {b.i} /\ e.opt = q.opt
    BY HeldAfter DEF Enter, Good, QPs
  <2> HIDE DEF e
  <2> QED BY <1>i, <2>2, <2>3, <2>4 DEF Sunk, Active
<1> QED BY <1>1, <1>2

LEMMA IterateBRank ==
  ASSUME Inv, Inv', RankInv, IterateB
  PROVE  RankInv'
<1> DEFINE s == Stepped(Performing)
<1>1. use' = use /\ Good(qp) /\ IsCall(loc) /\ use.class = "QProblemB"
  BY DEF Inv, IterateB, ObjectOK
<1>2. Sunk(qp, Performing) /\ Sunk(qp, Arrived(Performing, loc)) /\ Sunk(qp, s) /\ Good(s)
  BY <1>1, StepLevel, LevelSunk
<1>3. \/ \E d : SolveReturns(Performing, d)
      \/ SolveReturns(Arrived(Performing, loc), "OK")
      \/ StepFailed(s, "OPTIMAL_SOLUTION_FOUND")
      \/ \E b \in Blocks(s, Vars) : \E r \in ChangeActiveSetB(s, b) :
           \/ StepFailed(r.q, r.ret)
           \/ \E f : (f = r \/ f \in ComputeCholesky(r.q)) /\ NextIteration(f, TRUE)
  BY Zenon DEF IterateB
<1> HIDE DEF s
<1>4. ASSUME NEW q, Sunk(qp, q), Continues(q) PROVE RankInv'
  <2>1. Sunk(q, qp') /\ loc'.fullLI = loc.fullLI /\ pc' # "workingset"
    BY <1>4, LevelSunk DEF Continues
  <2>2. Sunk(qp, qp')
    BY <1>4, <2>1, SunkTrans
  <2> QED BY <1>1, <2>1, <2>2, SunkRank
<1>5. ASSUME NEW d, SolveReturns(Performing, d) PROVE RankInv'
  BY <1>1, <1>2, <1>4, <1>5, SolveReturnsContinues
<1>6. ASSUME SolveReturns(Arrived(Performing, loc), "OK") PROVE RankInv'
  BY <1>1, <1>2, <1>4, <1>6, SolveReturnsContinues
<1>7. ASSUME StepFailed(s, "OPTIMAL_SOLUTION_FOUND") PROVE RankInv'
  BY <1>1, <1>2, <1>4, <1>7, StepFailedContinues
<1>8. ASSUME NEW b \in Blocks(s, Vars), NEW r \in ChangeActiveSetB(s, b) PROVE Sunk(qp, r.q) /\ Good(r.q)
  BY <1>2, <1>8, ChangeBSunk, ChangeBMoves, SunkTrans DEF Outcome, Moved
<1>9. ASSUME NEW b \in Blocks(s, Vars), NEW r \in ChangeActiveSetB(s, b), StepFailed(r.q, r.ret) PROVE RankInv'
  BY <1>1, <1>4, <1>8, <1>9, StepFailedContinues
<1>10. ASSUME NEW b \in Blocks(s, Vars), NEW r \in ChangeActiveSetB(s, b),
              NEW f, f = r \/ f \in ComputeCholesky(r.q), NextIteration(f, TRUE)
       PROVE  RankInv'
  <2>1. Sunk(qp, r.q) /\ Good(r.q)
    BY <1>8
  <2>2. Sunk(r.q, f.q) /\ Good(f.q)
    BY <1>10, <2>1, CholeskyFactored, FactoredLevel, LevelSunk, LevelRefl DEF Factorisation, Factored
  <2>3. Continues(f.q) /\ Sunk(qp, f.q)
    BY <1>1, <1>10, <2>1, <2>2, NextIterationContinues, SunkTrans
  <2> QED BY <1>4, <2>3
<1> QED BY <1>3, <1>5, <1>6, <1>7, <1>9, <1>10, Zenon

-----------------------------------------------------------------------------
(* All together, once more.                                                *)

LEMMA MakesACallRank ==
  ASSUME Inv, Inv', RankInv, MakesACall
  PROVE  RankInv'
<1>1. ObjectOK /\ use \in UseRecords
  BY DEF Inv, ObjectOK
<1>2. use.starts \subseteq AllStarts /\ \A g \in use.guesses \cup {NoCall.aux} : g \in [Idx -> Held \cup {"INACTIVE"}]
  BY <1>1 DEF UseRecords, NoCall
<1>3. NoCall.aux \in [Idx -> Held \cup {"INACTIVE"}] /\ "cold" \in AllStarts /\ "guess" \in AllStarts
  BY <1>2 DEF AllStarts
<1>4. ASSUME NEW start \in use.starts, NEW H \in use.matrices, NEW g \in use.guesses \cup {NoCall.aux},
             NEW l \in Calls("init", start, g), InitB(l, H) \/ Init_(l, H)
      PROVE  RankInv'
  <2>1. NewCall(l) /\ ~l.fullLI
    BY <1>1, <1>2, <1>4, CallsAreNew, CallsUntested
  <2> QED BY <1>4, <2>1, InitCallRank
<1>5. ASSUME NEW l \in Calls("hotstart", "cold", NoCall.aux), HotstartB(l) \/ Hotstart(l)
      PROVE  RankInv'
  <2>1. NewCall(l) /\ ~l.fullLI /\ l.start = "cold"
    BY <1>1, <1>3, <1>5, CallsAreNew, CallsUntested
  <2> QED BY <1>5, <2>1, HotstartBRank, HotstartRank
<1>6. ASSUME NEW g \in use.guesses, NEW l \in Calls("hotstart", "guess", g),
             \/ HotstartB(l)
             \/ \E alias \in {{}, Vars, Cons} : Hotstart([l EXCEPT !.alias = alias])
      PROVE  RankInv'
  <2>1. NewCall(l) /\ ~l.fullLI /\ use.guesses # {}
    BY <1>1, <1>2, <1>3, <1>6, CallsAreNew, CallsUntested
  <2>2. ASSUME NEW alias \in {{}, Vars, Cons}, Hotstart([l EXCEPT !.alias = alias]) PROVE RankInv'
    <3> DEFINE k == [l EXCEPT !.alias = alias]
    <3>1. NewCall(k)
      BY <2>1, Partition, AliasedIsNew
    <3>2. ~k.fullLI
      BY <2>1 DEF NewCall, IsCall
    <3>3. Hotstart(k)
      BY <2>2
    <3> HIDE DEF k
    <3> QED BY <2>1, <3>1, <3>2, <3>3, HotstartRank
  <2> QED BY <1>6, <2>1, <2>2, HotstartBRank, Zenon
<1>7. ASSUME NEW H \in use.matrices, NEW l \in Calls("matrices", "cold", NoCall.aux), HotstartMatrices(l, H)
      PROVE  RankInv'
  <2>1. NewCall(l) /\ ~l.fullLI
    BY <1>1, <1>3, <1>7, CallsAreNew, CallsUntested
  <2> QED BY <1>7, <2>1, HotstartMatricesRank
<1> QED BY <1>4, <1>5, <1>6, <1>7, Zenon DEF MakesACall

LEMMA FileCallsRank ==
  ASSUME Inv, Inv', RankInv, CallsWithUnreadableFiles
  PROVE  RankInv'
<1> DEFINE L(call) == [[NoCall EXCEPT !.calls = loc.calls + 1] EXCEPT !.call = call]
<1>1. NewCall(L("init")) /\ NewCall(L("hotstart"))
  BY FileCallsAreNew DEF Inv
<1>2. \/ InitFromFileB(L("init")) \/ InitFromFile(L("init"))
      \/ HotstartFromFileB(L("hotstart")) \/ HotstartFromFile(L("hotstart"))
  BY Zenon DEF CallsWithUnreadableFiles
<1> HIDE DEF L
<1> QED BY <1>1, <1>2, FileRank

LEMMA NextRank ==
  ASSUME Inv, RankInv, [Next]_vars
  PROVE  RankInv'
<1>0. Inv'
  BY NextInv
<1>1. CASE Call
  BY <1>0, <1>1, SetHessianTypeRank, AssignRank, MakesACallRank, FileCallsRank DEF Call
<1>2. CASE StepB
  <2>1. ASSUME SolveRegularisedQPB PROVE RankInv'
    BY <1>0, <2>1, AfterSolveQPRank DEF SolveRegularisedQPB
  <2>2. ASSUME FarBoundsB PROVE RankInv'
    BY <1>0, <2>2, AfterFarBoundsRank DEF FarBoundsB
  <2> QED BY <1>0, <1>2, <2>1, <2>2, SolveInitialQPBRank, StartHotstartRank, SolveQPBRank, LimitReachedRank, IterateBRank,
             EndRank DEF StepB
<1>3. CASE Step /\ ~StepB
  <2>1. ASSUME SolveRegularisedQP PROVE RankInv'
    BY <1>0, <2>1, AfterSolveQPRank DEF SolveRegularisedQP
  <2>2. ASSUME FarBounds PROVE RankInv'
    BY <1>0, <2>2, AfterFarBoundsRank DEF FarBounds
  <2> QED BY <1>0, <1>3, <2>1, <2>2, SolveInitialQPRank, AdaptWorkingSetRank, EnterInitialHotstartRank, FinishGuessRank,
             FinishMatricesRank, StartHotstartRank, SolveQPRank, UpdateActivitiesRank, IterateRank, EndRank DEF Step
<1>4. CASE UNCHANGED vars
  BY <1>4 DEF vars, RankInv, Tested, NZ, Active, Loops
<1> QED BY <1>1, <1>2, <1>3, <1>4 DEF Next

(* addBound(), addConstraint(): the working set never has more rows than   *)
(* there are variables to spend on them, whatever the calls, with the      *)
(* quick tests of linear independence and without enableDropInfeasibles;   *)
(* a guess may only be given to an object of fewer than four variables.    *)
THEOREM WorkingSetIsIndependent == Spec => []IndependentWorkingSet
<1>1. InitState => RankInv
  BY InitRank
<1>2. Inv /\ RankInv /\ [Next]_vars => RankInv'
  BY NextRank
<1>3. RankInv => IndependentWorkingSet
  BY DEF RankInv, Tested, IndependentWorkingSet
<1> QED BY <1>1, <1>2, <1>3, ObjectInvariant, PTL DEF Spec

-----------------------------------------------------------------------------
(* The lists of Bounds and Constraints, as WorkingSet has them.            *)

CONSTANT Sizes
VARIABLES n, status, working, outside, ok
W == INSTANCE WorkingSet

(* Beside Agree, the statuses stay known ones: an index that Rearrange()   *)
(* moves would otherwise carry a status that belongs in neither set.       *)
WorkingSetStatuses == W!Held \cup W!NotHeld \cup {"UNDEFINED"}
WorkingSetTypeOK ==
  /\ status \in [W!Indices -> WorkingSetStatuses]
  /\ working \subseteq W!Indices /\ outside \subseteq W!Indices
  /\ ok \in BOOLEAN
ListInv == WorkingSetTypeOK /\ W!Agree

LEMMA WorkingSetInit == W!Init => ListInv
  BY DEF W!Init, ListInv, WorkingSetTypeOK, W!Agree, WorkingSetStatuses, W!Held, W!NotHeld

LEMMA WorkingSetRestart == W!Restart => ListInv'
  BY DEF W!Restart, W!Blank, ListInv, WorkingSetTypeOK, W!Agree, WorkingSetStatuses, W!Held, W!NotHeld, W!Indices

LEMMA WorkingSetSetup ==
  ASSUME ListInv, NEW I \in SUBSET W!Indices, NEW st \in W!Held \cup {"INACTIVE"}, W!Setup(I, st)
  PROVE  ListInv'
<1>1. WorkingSetTypeOK'
  BY DEF W!Setup, ListInv, WorkingSetTypeOK, WorkingSetStatuses, W!Held, W!NotHeld, W!Indices
<1>2. W!Agree'
  <2> SUFFICES ASSUME NEW i \in W!Indices
               PROVE  /\ i \in working' <=> status'[i] \in W!Held
                      /\ i \in outside' <=> status'[i] \in W!NotHeld
    BY <1>1 DEF W!Setup, W!Agree, WorkingSetTypeOK, W!Indices
  <2>1. i \in working <=> status[i] \in W!Held
    BY DEF W!Setup, ListInv, W!Agree
  <2>2. i \in outside <=> status[i] \in W!NotHeld
    BY DEF W!Setup, ListInv, W!Agree
  <2> QED
    BY <2>1, <2>2 DEF W!Setup, W!Held, W!NotHeld
<1> QED
  BY <1>1, <1>2 DEF ListInv

LEMMA WorkingSetEnter ==
  ASSUME ListInv, NEW i \in W!Indices, NEW st \in W!Held, W!Enter(i, st)
  PROVE  ListInv'
  BY DEF W!Enter, ListInv, WorkingSetTypeOK, W!Agree, WorkingSetStatuses, W!Held, W!NotHeld, W!Indices

LEMMA WorkingSetLeave ==
  ASSUME ListInv, NEW i \in W!Indices, W!Leave(i)
  PROVE  ListInv'
  BY DEF W!Leave, ListInv, WorkingSetTypeOK, W!Agree, WorkingSetStatuses, W!Held, W!NotHeld, W!Indices

LEMMA WorkingSetMark ==
  ASSUME ListInv, NEW i \in W!Indices, NEW st \in W!Held \cup W!NotHeld, W!Mark(i, st)
  PROVE  ListInv'
  BY DEF W!Mark, ListInv, WorkingSetTypeOK, W!Agree, WorkingSetStatuses, W!Held, W!NotHeld, W!Indices

LEMMA WorkingSetRearrange ==
  ASSUME ListInv, NEW from \in [W!Indices -> W!Indices], W!Rearrange(from)
  PROVE  ListInv'
  BY DEF W!Rearrange, ListInv, WorkingSetTypeOK, W!Agree, WorkingSetStatuses, W!Indices

LEMMA WorkingSetFail == W!Fail => ListInv'
  BY DEF W!Fail, ListInv, WorkingSetTypeOK, W!Agree, WorkingSetStatuses, W!Indices

(* Bounds, Constraints: as long as no operation has failed, the lists of   *)
(* the working set and of the rest are disjoint, and the status of every   *)
(* index tells which one it is in, after any number of moves, flips,       *)
(* shifts and rotations of an object of any size.                          *)
THEOREM WorkingSetsAgree == W!Spec => []W!Agree
<1>1. W!Init => ListInv
  BY WorkingSetInit
<1>2. ListInv /\ [W!Next]_W!vars => ListInv'
  <2> SUFFICES ASSUME ListInv, [W!Next]_W!vars PROVE ListInv'
    OBVIOUS
  <2>1. CASE UNCHANGED W!vars
    BY <2>1 DEF W!vars, ListInv, WorkingSetTypeOK, W!Agree, W!Indices
  <2>2. CASE W!Next
    BY <2>2, WorkingSetRestart, WorkingSetSetup, WorkingSetEnter, WorkingSetLeave, WorkingSetMark, WorkingSetRearrange,
       WorkingSetFail DEF W!Next
  <2> QED
    BY <2>1, <2>2
<1>3. ListInv => W!Agree
  BY DEF ListInv
<1> QED
  BY <1>1, <1>2, <1>3, PTL DEF W!Spec
=============================================================================
