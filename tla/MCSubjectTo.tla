---------------------------- MODULE MCSubjectTo -----------------------------
(***************************************************************************)
(* Instances of SubjectTo, and the matrices of Matrices.tla under the      *)
(* index lists it arrives at.                                              *)
(***************************************************************************)
EXTENDS SubjectTo, Matrices

SomeSizes == {1, 2, 3}
SomeTypes == {"UNBOUNDED", "BOUNDED", "EQUALITY"}

(* A matrix and a symmetric one, the same without all but their first n    *)
(* rows and columns, and vectors to multiply with.                         *)
Rows3 == <<<<0, 2, -1>>, <<3, 0, 0>>, <<0, 5, 7>>>>
Symmetric3 == <<<<2, 0, 1>>, <<0, 0, 3>>, <<1, 3, 5>>>>
First(A, n) == [i \in 1 .. n |-> SubSeq(A[i], 1, n)]
X3 == <<1, -2, 3>>
Y3 == <<4, 1, -1>>

-----------------------------------------------------------------------------
(* What the products and the submatrices are, from the numbers alone.      *)
Product(A, rows, cols, alpha, x, beta, y) ==
  [p \in DOMAIN rows |-> beta * y[p] + alpha * MapThenSumSet(LAMBDA q : A[rows[p]][cols[q]] * x[q], DOMAIN cols)]
Transposed(A) == [j \in 1 .. NCols(A) |-> [i \in 1 .. NRows(A) |-> A[i][j]]]

ProductsAgree(A, rows, cols) ==
  LET C == SparseMatrix(A)
      R == SparseMatrixRow(A)
      all == Whole(NCols(A))
      expected == Product(A, rows.number, cols.number, -1, X3, 1, Y3)
      transposed == Product(Transposed(A), cols.number, rows.number, 2, X3, -1, Y3)
      placed == [i \in DOMAIN A |-> IF Holds(rows, i)
                                    THEN Product(A, rows.number, all.number, 1, X3, 0, Y3)[GetIndex(rows, i)]
                                    ELSE Y3[i]]
      y == SubSeq(Y3, 1, NRows(A))
  IN  /\ {DenseTimes(A, rows, cols, -1, X3, 1, Y3), SparseTimes(C, rows, cols, -1, X3, 1, Y3),
          RowTimes(R, rows, cols, -1, X3, 1, Y3)} = {expected}
      /\ {DenseTransTimes(A, rows, cols, 2, X3, -1, Y3), SparseTransTimes(C, rows, cols, 2, X3, -1, Y3),
          RowTransTimes(R, rows, cols, 2, X3, -1, Y3)} = {transposed}
      /\ {DenseTimesUncompressed(A, rows, all, 1, X3, 0, y), SparseTimesUncompressed(C, rows, all, 1, X3, 0, y),
          RowTimesUncompressed(R, rows, 1, X3, 0, y)} = {placed}

PartsAgree(A, list) ==
  LET C == SparseMatrix(A)
      R == SparseMatrixRow(A)
      n == NRows(A)
  IN  /\ \A r \in 1 .. n : {DenseGetRow(A, r, list, -1), SparseGetRow(C, r, list, -1), RowGetRow(R, r, list, -1)}
                             = {[q \in DOMAIN list.number |-> -A[r][list.number[q]]]}
      /\ \A c \in 1 .. n : {DenseGetCol(A, c, list, -1), SparseGetCol(C, c, list, -1), RowGetCol(R, c, list, -1)}
                             = {[p \in DOMAIN list.number |-> -A[list.number[p]][c]]}
      /\ {t \in SparseLowerSubmatrix(C, list.number) : t[3] # 0} = DenseLowerSubmatrix(A, list.number)

WholesAgree(A) ==
  LET C == SparseMatrix(A)
      R == SparseMatrixRow(A)
      n == NRows(A)
      all == Whole(n).number
      C1 == SparseAddToDiag(C, 1)
      R1 == RowAddToDiag(R, 1)
  IN  /\ {SparseFull(C), RowFull(R)} = {A}
      /\ \A i \in 1 .. n : {DenseDiag(A, i), SparseDiag(C, i), RowDiag(R, i)} = {A[i][i]}
      /\ DenseIsDiag(A) <=> SparseIsDiag(C)
      /\ SparseIsDiag(C) <=> RowIsDiag(R)
      /\ C1.ok /\ R1.ok /\ {SparseFull(C1.m), RowFull(R1.m)} = {DenseAddToDiag(A, 1)}
      /\ {DenseTimesAll(A, -1, X3, 1, Y3), SparseTimesAll(C, -1, X3, 1, Y3), RowTimesAll(R, -1, X3, 1, Y3)}
            = {Product(A, all, all, -1, X3, 1, Y3)}
      /\ {DenseTransTimesAll(A, 2, X3, -1, Y3), SparseTransTimesAll(C, 2, X3, -1, Y3),
          RowTransTimesAll(R, 2, X3, -1, Y3)} = {Product(Transposed(A), all, all, 2, X3, -1, Y3)}

(* times(), transTimes(), getRow(), getCol(), getSparseSubmatrix(),        *)
(* bilinear(): in whatever order indices have entered the lists, the three *)
(* storage formats give the same, right products and parts, although two   *)
(* of them rely on iSort and walk along it and a line together.  The       *)
(* result that is not compressed is asked for as the solver does, for all  *)
(* columns and with beta = 0; with other factors it is wrong (see          *)
(* ScaledBy, SparseTimesUncompressed, RowTimesMisplaced).                  *)
MatricesAgree ==
  LET A == First(Rows3, s.n)
      H == First(Symmetric3, s.n)
      X == <<X3, Y3>>
  IN  /\ Length(s.in) = 0 => WholesAgree(A) /\ WholesAgree(H)
      /\ ProductsAgree(A, s.in, s.out) /\ ProductsAgree(H, s.out, s.out)
      /\ PartsAgree(H, s.out)
      /\ SparseBilinear(SparseMatrix(H), s.out, X) = DenseBilinear(H, s.out, X)
=============================================================================
