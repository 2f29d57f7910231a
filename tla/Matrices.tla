------------------------------ MODULE Matrices ------------------------------
(***************************************************************************)
(* The matrix classes of qpOASES (extlibs/qpOASES-3.2.0/src/Matrices.cpp): *)
(* DenseMatrix, SparseMatrix (by columns) and SparseMatrixRow (by rows),   *)
(* and the submatrices that the solver asks them for with index lists.     *)
(*                                                                         *)
(* Entries are integers.  The code treats the factors 1 and -1 apart from  *)
(* the others, which rounds differently and computes the same.  A missing  *)
(* list stands for all rows or columns (Whole).                            *)
(***************************************************************************)
EXTENDS Indexlist, FiniteSetsExt, TLC

Whole(n) == [number |-> [k \in 1 .. n |-> k], iSort |-> [k \in 1 .. n |-> k]]

(* The positions of a list that a loop over iSort visits.                  *)
Visited(l) == {l.iSort[k] : k \in 1 .. Length(l)}

-----------------------------------------------------------------------------
(* DenseMatrix: a sequence of rows.                                        *)

NRows(A) == Len(A)
NCols(A) == Len(A[1])

DenseDiag(A, i) == A[i][i]
DenseIsDiag(A) ==
  NRows(A) = NCols(A) /\ \A i \in 1 .. NRows(A) : \A j \in 1 .. i - 1 : A[i][j] = 0 /\ A[j][i] = 0
DenseAddToDiag(A, alpha) ==
  [i \in 1 .. NRows(A) |-> [j \in 1 .. NCols(A) |-> A[i][j] + (IF i = j THEN alpha ELSE 0)]]

DenseGetRow(A, r, cols, alpha) == [k \in 1 .. Length(cols) |-> alpha * A[r][cols.number[k]]]
DenseGetCol(A, c, rows, alpha) == [k \in 1 .. Length(rows) |-> alpha * A[rows.number[k]][c]]

(* times() and transTimes() of the whole matrix, by GEMM.                  *)
DenseTimesAll(A, alpha, x, beta, y) ==
  [i \in 1 .. NRows(A) |-> beta * y[i] + alpha * MapThenSumSet(LAMBDA j : A[i][j] * x[j], 1 .. NCols(A))]
DenseTransTimesAll(A, alpha, x, beta, y) ==
  [j \in 1 .. NCols(A) |-> beta * y[j] + alpha * MapThenSumSet(LAMBDA i : A[i][j] * x[i], 1 .. NRows(A))]

(* times() with lists: x, and y if it is compressed, in the order of the   *)
(* lists; otherwise y in the order of the matrix.                          *)
DenseRowTimes(A, r, cols, x) == MapThenSumSet(LAMBDA q : A[r][cols.number[q]] * x[q], Visited(cols))
DenseTimes(A, rows, cols, alpha, x, beta, y) ==
  [p \in 1 .. Length(rows) |->
    beta * y[p] + (IF p \in Visited(rows) THEN alpha * DenseRowTimes(A, rows.number[p], cols, x) ELSE 0)]

(* Scaling a y that is not compressed by -1, the old value is looked for   *)
(* at the position in the list.                                            *)
ScaledBy(rows, beta, y) ==
  [i \in DOMAIN y |->
    IF ~Holds(rows, i) THEN y[i]
    ELSE IF beta = -1 THEN -y[GetIndex(rows, i)] ELSE beta * y[i]]
DenseTimesUncompressed(A, rows, cols, alpha, x, beta, y) ==
  [i \in DOMAIN y |->
    ScaledBy(rows, beta, y)[i]
      + (IF \E p \in Visited(rows) : rows.number[p] = i THEN alpha * DenseRowTimes(A, i, cols, x) ELSE 0)]

DenseTransTimes(A, rows, cols, alpha, x, beta, y) ==
  [q \in 1 .. Length(cols) |->
    beta * y[q] + (IF q \notin Visited(cols) THEN 0
                   ELSE alpha * MapThenSumSet(LAMBDA p : A[rows.number[p]][cols.number[q]] * x[p], Visited(rows)))]

(* getSparseSubmatrix(): the nonzeros as triples.  For the lower triangle  *)
(* the columns are those of the rows.                                      *)
DenseSubmatrix(A, rows, cols) ==
  {<<p, q, A[rows[p]][cols[q]]>> : p \in DOMAIN rows, q \in DOMAIN cols} \ ((DOMAIN rows) \X (DOMAIN cols) \X {0})
DenseLowerSubmatrix(A, rows) ==
  {t \in DenseSubmatrix(A, rows, rows) : t[2] <= t[1]}

(* SymDenseMat::bilinear(): X'*A*X for the vectors X, by way of A*X.       *)
DenseBilinear(A, cols, X) ==
  LET n == Length(cols)
      Ax(k, v) == MapThenSumSet(LAMBDA q : A[cols.number[k]][cols.number[q]] * v[cols.number[q]], 1 .. n)
  IN  [a \in DOMAIN X |-> [b \in DOMAIN X |->
        MapThenSumSet(LAMBDA k : X[a][cols.number[k]] * Ax(k, X[b]), 1 .. n)]]

-----------------------------------------------------------------------------
(* Compressed storage: the entries of line l (a column or a row) are the   *)
(* ones from ptr[l] to ptr[l + 1] - 1, idx says where on the line.  The    *)
(* constructors keep the diagonal, zero or not.                            *)

Entries(n, lines, value(_, _)) ==
  LET kept(l) == {k \in 1 .. n : value(l, k) # 0 \/ k = l}
      nth(l, c) == CHOOSE k \in kept(l) : Cardinality({j \in kept(l) : j <= k}) = c
      line(l) == [c \in 1 .. Cardinality(kept(l)) |-> nth(l, c)]
      upTo[l \in 0 .. lines] ==
        IF l = 0 THEN [ptr |-> <<1>>, idx |-> <<>>, val |-> <<>>]
        ELSE LET m == upTo[l - 1]
             IN  [ptr |-> Append(m.ptr, m.ptr[l] + Len(line(l))), idx |-> m.idx \o line(l),
                  val |-> m.val \o [c \in DOMAIN line(l) |-> value(l, line(l)[c])]]
  IN  upTo[lines]

Line(m, l) == m.ptr[l] .. m.ptr[l + 1] - 1

(* The entry at k: the scan of a line stops at the first one not before k. *)
At(m, l, k) ==
  LET later == {p \in Line(m, l) : m.idx[p] >= k}
  IN  IF later # {} /\ m.idx[Min(later)] = k THEN m.val[Min(later)] ELSE 0

(* A walk along a line and the sorted order of a list at once: the pairs   *)
(* of an entry and the position in the list where its index is.            *)
MeetingsAdvancingBoth(m, l, from, list) ==
  LET end == m.ptr[l + 1]
      n == Length(list)
      walk[p \in from .. end, k \in 1 .. n + 1] ==
        IF p >= end \/ k > n THEN {}
        ELSE IF m.idx[p] = Sorted(list, k) THEN {<<p, list.iSort[k]>>} \cup walk[p + 1, k + 1]
        ELSE IF p + 1 <= end THEN walk[p + 1, k + 1] ELSE {}
  IN  walk[from, 1]
Meetings(m, l, from, list) ==
  LET end == m.ptr[l + 1]
      n == Length(list)
      walk[p \in from .. end, k \in 1 .. n + 1] ==
        IF p >= end \/ k > n THEN {}
        ELSE IF m.idx[p] = Sorted(list, k) THEN {<<p, list.iSort[k]>>} \cup walk[p + 1, k + 1]
        ELSE IF m.idx[p] > Sorted(list, k) THEN walk[p, k + 1] ELSE walk[p + 1, k]
  IN  walk[from, 1]
Extract(m, l, list, alpha) ==
  LET met == Meetings(m, l, m.ptr[l], list)
  IN  [q \in 1 .. Length(list) |-> alpha * MapThenSumSet(LAMBDA t : m.val[t[1]], {t \in met : t[2] = q})]
LineTimes(m, l, list, x) ==
  MapThenSumSet(LAMBDA t : m.val[t[1]] * x[t[2]], Meetings(m, l, m.ptr[l], list))
Scan(m, k, list, alpha) ==
  [q \in 1 .. Length(list) |-> IF q \in Visited(list) THEN alpha * At(m, list.number[q], k) ELSE 0]

(* createDiagInfo(): the first entry of each line not before the diagonal. *)
CreateDiagInfo(m, l) ==
  LET later == {p \in Line(m, l) : m.idx[p] >= l} IN IF later = {} THEN m.ptr[l + 1] ELSE Min(later)
OnDiagonal(m, l) == CreateDiagInfo(m, l) < m.ptr[l + 1] /\ m.idx[CreateDiagInfo(m, l)] = l
StoredIsDiag(m, lines) ==
  \A l \in 1 .. lines : Cardinality(Line(m, l)) <= 1 /\ \A p \in Line(m, l) : m.idx[p] = l

(* addToDiag(): until a diagonal is found missing.  Whether the entry that *)
(* is looked at still belongs to the line is not tested.                   *)
StoredAddToDiag(m, n, alpha) ==
  LET jd(l) == CreateDiagInfo(m, l)
      there == {l \in 1 .. n : \A k \in 1 .. l : jd(k) \in DOMAIN m.idx /\ m.idx[jd(k)] = k}
  IN  [m |-> [m EXCEPT !.val = [p \in DOMAIN m.val |->
                m.val[p] + (IF \E l \in there : jd(l) = p THEN alpha ELSE 0)]],
       ok |-> there = 1 .. n]

-----------------------------------------------------------------------------
(* SparseMatrix: lines are columns.                                        *)

SparseMatrix(A) == Entries(NRows(A), NCols(A), LAMBDA j, i : A[i][j]) @@ [nRows |-> NRows(A), nCols |-> NCols(A)]
SparseFull(m) == [i \in 1 .. m.nRows |-> [j \in 1 .. m.nCols |->
                   MapThenSumSet(LAMBDA p : m.val[p], {p \in Line(m, j) : m.idx[p] = i})]]
SparseDiag(m, i) == IF OnDiagonal(m, i) THEN m.val[CreateDiagInfo(m, i)] ELSE 0
SparseIsDiag(m) == m.nRows = m.nCols /\ StoredIsDiag(m, m.nCols)
SparseAddToDiag(m, alpha) == StoredAddToDiag(m, Min({m.nRows, m.nCols}), alpha)
SparseGetRow(m, r, cols, alpha) == Scan(m, r, cols, alpha)
SparseGetCol(m, c, rows, alpha) == Extract(m, c, rows, alpha)

(* The products of the columns with the entries of x, by row: ytmp.        *)
SparseColumnsTimes(m, cols, x, i) ==
  MapThenSumSet(LAMBDA q : MapThenSumSet(LAMBDA p : m.val[p] * x[q],
                                         {p \in Line(m, cols.number[q]) : m.idx[p] = i}), Visited(cols))
SparseTimesAll(m, alpha, x, beta, y) ==
  [i \in 1 .. m.nRows |-> beta * y[i] + alpha * SparseColumnsTimes(m, Whole(m.nCols), x, i)]
SparseTransTimesAll(m, alpha, x, beta, y) ==
  [j \in 1 .. m.nCols |-> beta * y[j] + alpha * MapThenSumSet(LAMBDA p : m.val[p] * x[m.idx[p]], Line(m, j))]
SparseTimes(m, rows, cols, alpha, x, beta, y) ==
  [p \in 1 .. Length(rows) |-> beta * y[p] + alpha * SparseColumnsTimes(m, cols, x, rows.number[p])]
(* Not compressed, any old value but zero times it is looked for at the    *)
(* position in the list.                                                   *)
SparseTimesUncompressed(m, rows, cols, alpha, x, beta, y) ==
  [i \in DOMAIN y |-> IF ~Holds(rows, i) THEN y[i]
                      ELSE alpha * SparseColumnsTimes(m, cols, x, i) + beta * y[GetIndex(rows, i)]]
SparseTransTimes(m, rows, cols, alpha, x, beta, y) ==
  LET xtmp == [i \in 1 .. m.nRows |-> IF Holds(rows, i) THEN x[GetIndex(rows, i)] ELSE 0]
      yadd(q) == MapThenSumSet(LAMBDA p : m.val[p] * xtmp[m.idx[p]], Line(m, cols.number[q]))
  IN  [q \in 1 .. Length(cols) |-> beta * y[q] + (IF q \in Visited(cols) THEN alpha * yadd(q) ELSE 0)]

(* getSparseSubmatrix(): by way of the inverse of the row numbers.  A      *)
(* diagonal that is stored is returned, zero or not.                       *)
SparseSubmatrix(m, rows, cols) ==
  UNION {{<<p, q, m.val[e]>> : e \in {d \in Line(m, cols[q]) : m.idx[d] = rows[p]}}
          : p \in DOMAIN rows, q \in DOMAIN cols}
SparseLowerSubmatrix(m, rows) == {t \in SparseSubmatrix(m, rows, rows) : t[1] >= t[2]}

(* SymSparseMat::bilinear(): from the diagonal on down each column, with   *)
(* both halves of what is below it; the upper triangle of the result is    *)
(* mirrored.                                                               *)
SparseBilinear(m, cols, X) ==
  LET met(q) == Meetings(m, cols.number[q], CreateDiagInfo(m, cols.number[q]), cols)
      term(q, t, a, b) ==
        LET c == cols.number[q]
            r == cols.number[t[2]]
        IN  m.val[t[1]] * (IF r = c THEN X[a][c] * X[b][c] ELSE X[a][c] * X[b][r] + X[a][r] * X[b][c])
      upper(a, b) ==
        MapThenSumSet(LAMBDA q : MapThenSumSet(LAMBDA t : term(q, t, a, b), met(q)), Visited(cols))
  IN  [a \in DOMAIN X |-> [b \in DOMAIN X |-> IF a <= b THEN upper(a, b) ELSE upper(b, a)]]

-----------------------------------------------------------------------------
(* SparseMatrixRow: lines are rows.  It has no getSparseSubmatrix().       *)

SparseMatrixRow(A) ==
  Entries(NCols(A), NRows(A), LAMBDA i, j : A[i][j]) @@ [nRows |-> NRows(A), nCols |-> NCols(A)]
RowFull(m) == [i \in 1 .. m.nRows |-> [j \in 1 .. m.nCols |->
                MapThenSumSet(LAMBDA p : m.val[p], {p \in Line(m, i) : m.idx[p] = j})]]
RowDiag(m, i) == IF OnDiagonal(m, i) THEN m.val[CreateDiagInfo(m, i)] ELSE 0
RowIsDiag(m) == m.nRows = m.nCols /\ StoredIsDiag(m, m.nRows)
RowAddToDiag(m, alpha) == StoredAddToDiag(m, Min({m.nRows, m.nCols}), alpha)
RowGetRow(m, r, cols, alpha) == Extract(m, r, cols, alpha)
RowGetCol(m, c, rows, alpha) == Scan(m, c, rows, alpha)

RowTimesAll(m, alpha, x, beta, y) ==
  [i \in 1 .. m.nRows |-> beta * y[i] + alpha * MapThenSumSet(LAMBDA p : m.val[p] * x[m.idx[p]], Line(m, i))]
RowTransTimesAll(m, alpha, x, beta, y) ==
  [j \in 1 .. m.nCols |->
    beta * y[j] + alpha * MapThenSumSet(LAMBDA i : MapThenSumSet(LAMBDA p : m.val[p] * x[i],
                                                    {p \in Line(m, i) : m.idx[p] = j}), 1 .. m.nRows)]
RowTimes(m, rows, cols, alpha, x, beta, y) ==
  [p \in 1 .. Length(rows) |->
    beta * y[p] + (IF p \in Visited(rows) THEN alpha * LineTimes(m, rows.number[p], cols, x) ELSE 0)]
(* Not compressed: for all columns at the row, for a list of columns at    *)
(* the row's position in its list.                                         *)
RowTimesUncompressed(m, rows, alpha, x, beta, y) ==
  [i \in DOMAIN y |->
    ScaledBy(rows, beta, y)[i]
      + (IF \E p \in Visited(rows) : rows.number[p] = i THEN alpha * LineTimes(m, i, Whole(m.nCols), x) ELSE 0)]
RowTimesMisplaced(m, rows, cols, alpha, x, beta, y) ==
  [i \in DOMAIN y |->
    ScaledBy(rows, beta, y)[i] + (IF i \in Visited(rows) THEN alpha * LineTimes(m, rows.number[i], cols, x) ELSE 0)]
RowTransTimes(m, rows, cols, alpha, x, beta, y) ==
  [q \in 1 .. Length(cols) |->
    beta * y[q] + alpha * MapThenSumSet(LAMBDA p :
      MapThenSumSet(LAMBDA t : m.val[t[1]] * x[p],
                    {t \in Meetings(m, rows.number[p], m.ptr[rows.number[p]], cols) : t[2] = q}), Visited(rows))]
=============================================================================
