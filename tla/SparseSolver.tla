---------------------------- MODULE SparseSolver ----------------------------
(***************************************************************************)
(* The sparse linear solvers behind SQProblemSchur (qpOASES,               *)
(* src/SparseSolver.cpp): Ma27SparseSolver, Ma57SparseSolver and the dummy *)
(* of a build without either.  A solver is given a matrix, factorises it,  *)
(* and then solves with it, in this order and for this dimension only.     *)
(* What the Fortran routines answer is free, as far as faults allows it:   *)
(* "singular" and "fails" are answers to a factorisation or a solve,       *)
(* "inertia" is a wrong number of negative eigenvalues.                    *)
(***************************************************************************)
EXTENDS Integers, FiniteSets

SolverKinds == {"MA27", "MA57", "NONE"}

(* dim, have, rank: dim, have_factorization, rank.  zero: the pivots from  *)
(* the rank on, which MA57 remembers.                                      *)
SparseSolvers == [kind : SolverKinds, dim : Int, have : BOOLEAN, rank : Int, zero : SUBSET Nat]
NewSolver(kind) == [kind |-> kind, dim |-> -1, have |-> FALSE, rank |-> -1, zero |-> {}]

(* clear().                                                                *)
ClearMa27(s) == NewSolver("MA27")
ClearMa57(s) == NewSolver("MA57")

Answer(s, ret) == [s |-> s, ret |-> ret]

(* setMatrixData(): of a matrix of dimension n.                            *)
SetMatrixDataMa27(s, n) == {Answer([ClearMa27(s) EXCEPT !.dim = n], "OK")}
SetMatrixDataMa57(s, n) == {Answer([ClearMa57(s) EXCEPT !.dim = n], "OK")}
SetMatrixDataDummy(s, n) == {Answer(s, "NO_SPARSE_SOLVER")}
SetMatrixData(s, n) ==
  CASE s.kind = "MA27" -> SetMatrixDataMa27(s, n)
    [] s.kind = "MA57" -> SetMatrixDataMa57(s, n)
    [] OTHER -> SetMatrixDataDummy(s, n)

(* factorize(): the empty matrix always succeeds.  Of a singular one MA27  *)
(* tells the rank, or not even that; MA57 also tells the zero pivots.  Any *)
(* other failure throws the matrix away.                                   *)
Factorised(s) == Answer([s EXCEPT !.have = TRUE, !.rank = s.dim], "OK")
FactorizeMa27(s, faults) ==
  {Factorised(s)}
    \cup (IF s.dim > 0 /\ "singular" \in faults
          THEN {Answer([s EXCEPT !.rank = r], "KKT_MATRIX_SINGULAR") : r \in -1 .. s.dim - 1} ELSE {})
    \cup (IF s.dim > 0 /\ "fails" \in faults THEN {Answer(ClearMa27(s), "MATRIX_FACTORISATION_FAILED")} ELSE {})
FactorizeMa57(s, faults) ==
  {Factorised(s)}
    \cup (IF s.dim > 0 /\ "singular" \in faults
          THEN {Answer([s EXCEPT !.rank = s.dim - Cardinality(z), !.zero = z], "KKT_MATRIX_SINGULAR")
                 : z \in SUBSET (1 .. s.dim) \ {{}}} ELSE {})
    \cup (IF s.dim > 0 /\ "fails" \in faults THEN {Answer(ClearMa57(s), "MATRIX_FACTORISATION_FAILED")} ELSE {})
FactorizeDummy(s) == {Answer(s, "NO_SPARSE_SOLVER")}
Factorize(s, faults) ==
  CASE s.kind = "MA27" -> FactorizeMa27(s, faults)
    [] s.kind = "MA57" -> FactorizeMa57(s, faults)
    [] OTHER -> FactorizeDummy(s)

(* solve(): a right-hand side of dimension n.  When MA57 fails, the        *)
(* factorisation is thrown away and every later solve is refused.          *)
SolveMa27(s, n) ==
  {Answer(s, IF n # s.dim \/ ~s.have THEN "INVALID_ARGUMENTS" ELSE "OK")}
SolveMa57(s, n, faults) ==
  IF n # s.dim \/ ~s.have THEN {Answer(s, "INVALID_ARGUMENTS")}
  ELSE {Answer(s, "OK")}
         \cup IF n > 0 /\ "fails" \in faults THEN {Answer(ClearMa57(s), "MATRIX_FACTORISATION_FAILED")} ELSE {}
SolveDummy(s) == {Answer(s, "NO_SPARSE_SOLVER")}
Solve(s, n, faults) ==
  CASE s.kind = "MA27" -> SolveMa27(s, n)
    [] s.kind = "MA57" -> SolveMa57(s, n, faults)
    [] OTHER -> SolveDummy(s)

(* getNegativeEigenvalues(), of a KKT matrix that should have n of them.   *)
GetNegativeEigenvalues(s, n, faults) ==
  IF ~s.have THEN {-1} ELSE {n} \cup IF "inertia" \in faults THEN {n + 1} ELSE {}

(* getZeroPivots(): only MA57 has them; the others return no array.        *)
GetZeroPivots(s) == IF s.kind = "MA57" THEN s.zero ELSE {}
=============================================================================
