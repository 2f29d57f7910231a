----------------------------- MODULE NLCPSolver -----------------------------
(***************************************************************************)
(* NLCPSolver::solve (component/solver/modules/NLCPSolver.cpp): the block  *)
(* Gauss-Seidel iteration that finds the forces of contacts with friction, *)
(* from which the pivot loop takes the first states of the contacts.       *)
(*                                                                         *)
(* A problem p: dim rows, three for each contact (normal and two           *)
(* tangents); the displacements dfree without contact forces; W; mu; the   *)
(* tolerance tol.num / tol.den; max, the number of iterations; sliding,    *)
(* m_allowSliding; useInitialF and the forces f handed in.  Real numbers   *)
(* are integers: the problems considered are those where every division    *)
(* is exact.                                                               *)
(***************************************************************************)
EXTENDS Integers, Sequences

LOCAL INSTANCE SequencesExt

NbContacts(p) == p.dim \div 3
RowOfContact(c, a) == 3 * (c - 1) + a
Axes == 1 .. 3
Add(x, y) == x + y
Absolute(x) == IF x < 0 THEN -x ELSE x

(* The displacement of a row under forces f.                               *)
Displacement(p, f, row) ==
  p.dfree[row] + FoldLeft(Add, 0, [i \in 1 .. p.dim |-> p.W[row][i] * f[i]])

(* absError(): a distance of two displacements.                            *)
AbsError(d, e) == Absolute(d[1] - e[1]) + Absolute(d[2] - e[2]) + Absolute(d[3] - e[3])

(* storeW(): the block of a contact, by its upper triangle.                *)
StoreW(p, c) ==
  [a \in Axes |-> [b \in Axes |-> IF a <= b THEN p.W[RowOfContact(c, a)][RowOfContact(c, b)]
                                  ELSE p.W[RowOfContact(c, b)][RowOfContact(c, a)]]]
BlockTimes(w, f) == [a \in Axes |-> w[a][1] * f[1] + w[a][2] * f[2] + w[a][3] * f[3]]
Plus(d, e) == [a \in Axes |-> d[a] + e[a]]

(* GSState(): the force f of a contact that would be displaced by d if it  *)
(* had none.  A contact that pulls gets no force at all, a friction beyond *)
(* the cone is scaled back if sliding is allowed.                          *)
GSStateKeepingFriction(p, w, d, f) ==
  LET fn == f[1] - (BlockTimes(w, f)[1] + d[1]) \div w[1][1]
      new == <<IF fn < 0 THEN 0 ELSE fn, f[2], f[3]>>
  IN  [f |-> new, d |-> Plus(d, BlockTimes(w, new))]
GSState(p, w, d, f) ==
  LET fn == f[1] - (BlockTimes(w, f)[1] + d[1]) \div w[1][1]
      now == Plus(d, BlockTimes(w, <<fn, f[2], f[3]>>))
      ft == f[2] - (2 * now[2]) \div (w[2][2] + w[3][3])
      fs == f[3] - (2 * now[3]) \div (w[2][2] + w[3][3])
      norm == Absolute(ft) + Absolute(fs)
      new == IF p.sliding /\ norm > p.mu * fn
             THEN <<fn, (ft * p.mu * fn) \div norm, (fs * p.mu * fn) \div norm>> ELSE <<fn, ft, fs>>
  IN  IF fn < 0 THEN [f |-> <<0, 0, 0>>, d |-> d] ELSE [f |-> new, d |-> Plus(d, BlockTimes(w, new))]

(* One contact: its displacement due to the others, its new force, and how *)
(* far that moves it.                                                      *)
UpdateContact(p, s, c) ==
  LET own == {RowOfContact(c, a) : a \in Axes}
      prev == [a \in Axes |-> s.f[RowOfContact(c, a)]]
      others == [i \in 1 .. p.dim |-> IF i \in own THEN 0 ELSE s.f[i]]
      d == [a \in Axes |-> Displacement(p, others, RowOfContact(c, a))]
      dPrev == [a \in Axes |-> d[a] + p.W[RowOfContact(c, a)][RowOfContact(c, 1)] * prev[1]
                                    + p.W[RowOfContact(c, a)][RowOfContact(c, 2)] * prev[2]
                                    + p.W[RowOfContact(c, a)][RowOfContact(c, 3)] * prev[3]]
      new == GSState(p, StoreW(p, c), d, prev)
  IN  [f |-> [i \in 1 .. p.dim |-> IF i \in own THEN new.f[i - 3 * (c - 1)] ELSE s.f[i]],
       error |-> s.error + AbsError(new.d, dPrev)]

(* An iteration takes the contacts in their order.                         *)
Iteration(p, f) ==
  LET update(s, c) == UpdateContact(p, s, c)
  IN  FoldLeft(update, [f |-> f, error |-> 0], [c \in 1 .. NbContacts(p) |-> c])
Converged(p, error) == error * p.tol.den < p.tol.num * (NbContacts(p) + 1)

RECURSIVE IterateFrom(_, _, _)
IterateFrom(p, f, it) ==
  IF it = p.max THEN [ret |-> 0, f |-> f]
  ELSE LET s == Iteration(p, f)
       IN  IF Converged(p, s.error) THEN [ret |-> 1, f |-> s.f] ELSE IterateFrom(p, s.f, it + 1)

(* solve(): a number of rows that is no multiple of three is refused.      *)
NLCPSolve(p) ==
  IF p.dim % 3 # 0 THEN [ret |-> 0, f |-> p.f]
  ELSE IterateFrom(p, IF p.useInitialF THEN p.f ELSE [i \in 1 .. p.dim |-> 0], 0)

(* What the forces have to be: contacts push or are apart, and friction is *)
(* within its cone, at its boundary where the contact slides.  Without     *)
(* sliding, contacts that push do not move along their tangents.           *)
SignoriniCoulomb(p, f) ==
  \A c \in 1 .. NbContacts(p) :
    LET fc == [a \in Axes |-> f[RowOfContact(c, a)]]
        d == [a \in Axes |-> Displacement(p, f, RowOfContact(c, a))]
        norm == Absolute(fc[2]) + Absolute(fc[3])
    IN  /\ fc[1] >= 0 /\ d[1] >= 0 /\ (fc[1] = 0 \/ d[1] = 0)
        /\ p.sliding => /\ norm <= p.mu * fc[1]
                        /\ norm < p.mu * fc[1] => d[2] = 0 /\ d[3] = 0
                        /\ fc[2] * d[2] <= 0 /\ fc[3] * d[3] <= 0
        /\ ~p.sliding /\ fc[1] > 0 => d[2] = 0 /\ d[3] = 0
=============================================================================
