------------------------ MODULE QPInverseProblemImpl ------------------------
(***************************************************************************)
(* One inverse problem over the steps of the simulation: solve() and       *)
(* solveWithContact() of solver/modules/QPInverseProblemImpl.cpp, with the *)
(* constraint assembly of ConstraintHandler.cpp.                           *)
(*                                                                         *)
(* In a step with contacts the states of the contacts are first guessed    *)
(* from an LCP; then QPs are solved in a loop, and after each one contact  *)
(* that reached the boundary of its state is pivoted to another state,     *)
(* unless that would start a cycle.  An infeasible QP is retried with the  *)
(* actuators' constraints released, then as an indefinite problem.  The QP *)
(* solver (qpOASES, external) and the LCP are oracles: which QP is         *)
(* feasible, where contacts end up and which dual is largest are choices   *)
(* of the model.                                                           *)
(***************************************************************************)
EXTENDS ConstraintHandler, Integers, Sequences

CONSTANTS
  Scenes,     \* the constraint lists a step may hand over
  MaxNbPivot, \* m_maxNbPivot
  MaxBlocks   \* bound: no contact-free step begins with this many blocks in cid

(* Components fill the variables 0 .. na-1 and na .. na+ne-1 without gaps. *)
Tile(comps, from, to) ==
  /\ \A c \in comps : c.lines > 0 /\ c.first >= from /\ c.first + c.lines <= to
  /\ \A v \in from .. to - 1 :
       \E c \in comps : /\ v \in c.first .. c.first + c.lines - 1
                        /\ \A d \in comps \ {c} : v \notin d.first .. d.first + d.lines - 1

ASSUME ScenesAssumption ==
  /\ \A sc \in Scenes :
       /\ sc.na \in Nat /\ sc.ne \in Nat /\ sc.nc \in Nat
       /\ sc.mu \in BOOLEAN /\ sc.slide \in BOOLEAN
       /\ sc.minF \in BOOLEAN /\ sc.maxF \in BOOLEAN /\ sc.comps \in BOOLEAN
       /\ sc.act \subseteq Actuator /\ sc.eq \subseteq Equality
       /\ IsFiniteSet(sc.act) /\ IsFiniteSet(sc.eq)
       /\ Tile(sc.act, 0, sc.na) /\ Tile(sc.eq, sc.na, sc.na + sc.ne)
       /\ sc.nc > 0 => sc.comps
       /\ sc.nc % ContactNbLines(sc) = 0
  /\ Scenes # {}
ASSUME BoundsAssumption == MaxNbPivot \in Nat \ {0} /\ MaxBlocks \in Nat \ {0}

VARIABLES
  pc,        \* where solve() is
  sc,        \* the constraint lists of the step
  states,    \* contactStates
  flag,      \* hasBothSideInequalityConstraint
  A, Aeq,    \* the rows of the constraint matrices
  released,  \* the rows of A whose bounds were set to infinity
  bounds,    \* l and u, by variable
  cid,       \* constraintsId: the blocks of rows whose ids were pushed, in order
  ans,       \* the QP's answer for every contact point
  cur, seq, prev, \* m_currentSequence, m_sequence, m_previousSequence
  iter,      \* iteration
  stop,      \* stopFlag
  lambda,    \* which solution m_qpSystem->lambda holds
  forces,    \* where its actuator part comes from
  mstep      \* m_step: init() has run for a first contact

vars == <<pc, sc, states, flag, A, Aeq, released, bounds, cid, ans,
          cur, seq, prev, iter, stop, lambda, forces, mstep>>
rows == <<A, Aeq, released, bounds, cid, flag>>
pivots == <<cur, seq, prev>>
solution == <<lambda, forces>>

(* lambda: "none" nothing yet, "lcp" the contact forces of the LCP, "last" *)
(* the solution of the QP solved last (whose objective is the one          *)
(* reported), "old" that of an earlier QP or step.                         *)
(* forces: "init" the initial forces of the actuators, "applied" forces    *)
(* that a QP computed.                                                     *)
Solutions == {"none", "lcp", "last", "old"}

NoAnswers == [p \in {} |-> [ln0 |-> TRUE, cone |-> TRUE, dn0 |-> TRUE, dt0 |-> TRUE]]
NoBounds == [v \in {} |-> "free"]

Init ==
  /\ pc = "idle" /\ sc \in Scenes
  /\ states = NoStates /\ flag = FALSE
  /\ A = {} /\ Aeq = {} /\ released = {} /\ bounds = NoBounds /\ cid = <<>>
  /\ ans = NoAnswers
  /\ cur = <<>> /\ seq = <<>> /\ prev = <<>>
  /\ iter = 0 /\ stop = FALSE /\ lambda = "none" /\ forces = "none" /\ mstep = FALSE

-----------------------------------------------------------------------------
(* Beginning of a step: clearProblem() empties the matrices (not           *)
(* constraintsId, the flag or lambda), the lists are collected anew, and   *)
(* solve() branches on them.                                               *)
BeginStep ==
  /\ pc = "idle"
  /\ sc' \in Scenes
  /\ sc'.nc = 0 => Len(cid) < MaxBlocks
  /\ A' = {} /\ Aeq' = {}
  /\ pc' = IF sc'.nc > 0 THEN "contacts"
           ELSE IF sc'.na + sc'.ne > 0 THEN "build" ELSE "store"
  /\ lambda' = IF lambda = "last" THEN "old" ELSE lambda
  /\ iter' = 0 /\ stop' = FALSE
  /\ UNCHANGED <<states, flag, released, bounds, cid, ans, pivots, forces, mstep>>

(* solveContacts() and initContactHandlers(result): the LCP's solution is  *)
(* stored in lambda and sets the states of the contacts.  Without          *)
(* actuators no QP is solved, and the handlers keep the inactive state.    *)
(* The first time, init() overwrites lambda with the initial forces.       *)
SolveContacts ==
  /\ pc = "contacts"
  /\ lambda' = "lcp" /\ mstep' = TRUE
  /\ forces' = IF mstep THEN forces ELSE "init"
  /\ IF sc.na > 0
     THEN pc' = "build" /\ states' \in InitialStates(sc)
     ELSE pc' = "store" /\ states' = [p \in 0 .. NbContactPoints(sc) - 1 |-> "inactive"]
  /\ UNCHANGED <<sc, rows, ans, pivots, iter, stop>>

(* constraintsId never cleared.                                            *)
ConstraintsIdKept == cid

(* constraintsId before the assembly.  Only the loop over the pivots       *)
(* clears it, the branch without contacts does not.                        *)
ConstraintsIdBefore == IF sc.nc > 0 THEN <<>> ELSE cid

(* One assembly of the QP: inequality rows, equality rows, bounds.         *)
BuildConstraints ==
  /\ pc = "build"
  /\ IF CListsConsistent(sc, states)
     THEN /\ A' = InequalityRows(sc, states, flag)
          /\ flag' = BothSides(sc, flag)
          /\ Aeq' = EqualityRows(sc, states)
          /\ cid' = ConstraintsIdBefore \o <<A', Aeq'>>
     ELSE /\ cid' = ConstraintsIdBefore
          /\ UNCHANGED <<A, Aeq, flag>>
  /\ bounds' = ConstraintOnLambda(sc, states, bounds)
  /\ released' = {}
  /\ pc' = "qp"
  /\ UNCHANGED <<sc, states, ans, pivots, iter, stop, solution, mstep>>

-----------------------------------------------------------------------------
(* The end of solveInverseProblem: result takes the primal solution.  If   *)
(* the last attempt was not solved, qpOASES leaves the array it was given  *)
(* as it was, and the contacts may be seen anywhere.  So they may with     *)
(* equality rows, where the pivot reads the forces at nbActuatorRow + i,   *)
(* which are not those of contact row i.                                   *)
Result(solved) ==
  /\ LET points == IF sc.nc > 0 THEN DOMAIN states ELSE {}
         Possible(p) == AnswersIn(states[p], solved /\ sc.ne = 0)
     IN  /\ ans' \in [points -> UNION {Possible(p) : p \in points}]
         /\ \A p \in points : ans'[p] \in Possible(p)
  /\ IF sc.nc > 0
     THEN lambda' = (IF lambda = "last" THEN "old" ELSE lambda) /\ UNCHANGED forces
     ELSE lambda' = "last" /\ forces' = "applied"
  /\ pc' = IF sc.nc > 0 THEN "pivot" ELSE "store"

(* The first attempt.  An infeasible problem goes to the retries; one that *)
(* is neither solved nor infeasible does not.                              *)
SolveInverseProblem ==
  /\ pc = "qp"
  /\ \/ \E solved \in BOOLEAN : Result(solved)
     \/ /\ pc' = IF sc.comps THEN "release" ELSE "indefinite"
        /\ UNCHANGED <<ans, solution>>
  /\ UNCHANGED <<sc, states, rows, pivots, iter, stop, mstep>>

(* The variable each row of A is looked up under: constraintsId[i] for the *)
(* i-th row.  That is the row's own while the first block of constraintsId *)
(* is A's; otherwise it is the id of some row pushed before.               *)
FiledUnder ==
  IF cid[1] = A THEN {[r \in A |-> r.id]}
  ELSE [A -> {r.id : r \in UNION {cid[b] : b \in DOMAIN cid}}]

(* The second attempt repeated until it succeeds.                          *)
ReleaseAndRetryForever ==
  /\ pc = "release"
  /\ \E id \in FiledUnder : \E R \in SUBSET Releasable(sc, A, id) :
       /\ released' = R
       /\ bounds' = FixReleased(bounds, R, id)
  /\ Result(TRUE) \/ UNCHANGED <<pc, ans, solution>>
  /\ UNCHANGED <<sc, states, A, Aeq, cid, flag, pivots, iter, stop, mstep>>

(* checkAndUpdateActuatorConstraints and the second attempt: the           *)
(* releasable rows that the previous result violates are released.         *)
ReleaseAndRetry ==
  /\ pc = "release"
  /\ \E id \in FiledUnder : \E R \in SUBSET Releasable(sc, A, id) :
       /\ released' = R
       /\ bounds' = FixReleased(bounds, R, id)
  /\ \/ Result(TRUE)
     \/ pc' = "indefinite" /\ UNCHANGED <<ans, solution>>
  /\ UNCHANGED <<sc, states, A, Aeq, cid, flag, pivots, iter, stop, mstep>>

(* The last attempt, with HST_INDEF: A and the bounds are assembled again, *)
(* which pushes the ids of A a second time.                                *)
RebuildAndRetry ==
  /\ pc = "indefinite"
  /\ A' = InequalityRows(sc, states, flag)
  /\ flag' = BothSides(sc, flag)
  /\ cid' = Append(cid, A')
  /\ bounds' = ConstraintOnLambda(sc, states, bounds)
  /\ released' = {}
  /\ \E solved \in BOOLEAN : Result(solved)
  /\ UNCHANGED <<sc, states, Aeq, pivots, iter, stop, mstep>>

-----------------------------------------------------------------------------
(* The contact rows (0 .. nc-1) that checkAndUpdatePivot marks.            *)
Candidates ==
  {c \in 0 .. sc.nc - 1 :
     LET n == ContactNbLines(sc)
         p == c \div n
     IN  c % n \in CandidateLines(states[p], sc.slide, ans[p])}

(* isCycling with only its first test, and without it.                     *)
IsCyclingOnPivot(c) == cur # <<>> /\ cur[Len(cur)] = c
IsCyclingOnSequence(c) == Append(cur, c) = seq \/ Append(cur, c) = prev

(* isCycling: the row was the last to be pivoted, or began the last two    *)
(* sequences, or would complete one of them.                               *)
IsCycling(c) ==
  \/ cur # <<>> /\ cur[Len(cur)] = c
  \/ seq # <<>> /\ prev # <<>> /\ prev[1] = c /\ seq[1] = c
  \/ Append(cur, c) = seq \/ Append(cur, c) = prev

(* The candidates that the search through the dual may settle on: filed    *)
(* under a row of [A; Aeq], and not cycling.  Any of them may have the     *)
(* largest dual.                                                           *)
Pivotable ==
  {c \in Candidates : /\ \E r \in cid[1] \cup cid[2] : r.id = sc.na + c
                      /\ ~IsCycling(c)}

(* The record of the pivots: a row already in the current sequence closes  *)
(* it and begins the next one.                                             *)
RecordPivot(c) ==
  IF \E i \in DOMAIN cur : cur[i] = c
  THEN prev' = seq /\ seq' = cur /\ cur' = <<c>>
  ELSE cur' = Append(cur, c) /\ UNCHANGED <<seq, prev>>

(* checkAndUpdatePivot with a candidate.                                   *)
Pivot(c) ==
  LET p == c \div ContactNbLines(sc) IN
  /\ states' = [states EXCEPT ![p] = GetNewContactHandler(states[p], sc.mu, sc.slide, ans[p])]
  /\ RecordPivot(c)
  /\ stop' = FALSE

NoPivot ==
  /\ Pivotable = {}
  /\ stop' = TRUE
  /\ UNCHANGED <<states, pivots>>

(* The loop without its bound, and with lambda updated at the bound only.  *)
EndOfTurnUnbounded ==
  /\ iter' = iter + 1
  /\ lambda' = "last" /\ forces' = "applied"
  /\ pc' = IF ~stop' THEN "build" ELSE "leave"
  /\ ans' = NoAnswers
EndOfTurnUpdateAtBound ==
  /\ iter' = iter + 1
  /\ IF iter' = MaxNbPivot
     THEN lambda' = "last" /\ forces' = "applied"
     ELSE UNCHANGED solution
  /\ pc' = IF ~stop' /\ iter' <= MaxNbPivot THEN "build" ELSE "leave"
  /\ ans' = NoAnswers

(* The end of one turn of the loop: lambda takes the result when the loop  *)
(* stops by itself or the iteration equals the bound, and the loop goes on *)
(* while the iteration does not exceed it.                                 *)
EndOfTurn ==
  /\ iter' = iter + 1
  /\ IF stop' \/ iter' = MaxNbPivot
     THEN lambda' = "last" /\ forces' = "applied"
     ELSE UNCHANGED solution
  /\ pc' = IF ~stop' /\ iter' <= MaxNbPivot THEN "build" ELSE "leave"
  /\ ans' = NoAnswers

CheckAndUpdatePivot ==
  /\ pc = "pivot"
  /\ (\E c \in Pivotable : Pivot(c)) \/ NoPivot
  /\ EndOfTurn
  /\ UNCHANGED <<sc, rows, mstep>>

(* After the loop the handlers and the sequences are cleared.              *)
LeaveLoop ==
  /\ pc = "leave"
  /\ states' = NoStates
  /\ cur' = <<>> /\ seq' = <<>> /\ prev' = <<>>
  /\ pc' = "store"
  /\ UNCHANGED <<sc, rows, ans, iter, stop, solution, mstep>>

(* storeResults(lambda): the forces go to the constraint problem and to    *)
(* the components.                                                         *)
StoreResults ==
  /\ pc = "store" /\ pc' = "idle"
  /\ ans' = NoAnswers
  /\ UNCHANGED <<sc, states, rows, pivots, iter, stop, solution, mstep>>

Solve == \/ SolveContacts \/ BuildConstraints \/ SolveInverseProblem
         \/ ReleaseAndRetry \/ RebuildAndRetry \/ CheckAndUpdatePivot
         \/ LeaveLoop \/ StoreResults

Next == BeginStep \/ Solve

Spec == Init /\ [][Next]_vars

(* solve() is sequential code on the simulation's thread: once called, it  *)
(* runs.  When the next step begins is up to the user.                     *)
FairSpec == Spec /\ WF_vars(Solve)

-----------------------------------------------------------------------------
PCs == {"idle", "contacts", "build", "qp", "release", "indefinite", "pivot", "leave", "store"}
Phases(S) == pc \in S

(* The types of the variables; a turn of the pivot loop begins within its  *)
(* bound.                                                                  *)
TypeOK ==
  /\ pc \in PCs /\ sc \in Scenes
  /\ states \in [DOMAIN states -> {"active", "inactive", "stick", "sliding"}]
  /\ flag \in BOOLEAN /\ stop \in BOOLEAN /\ mstep \in BOOLEAN
  /\ A \subseteq Row /\ Aeq \subseteq Row /\ released \subseteq Row
  /\ cid \in Seq(SUBSET Row)
  /\ cur \in Seq(Nat) /\ seq \in Seq(Nat) /\ prev \in Seq(Nat)
  /\ iter \in 0 .. MaxNbPivot + 1
  /\ Phases({"contacts", "build", "qp", "release", "indefinite", "pivot"}) => iter <= MaxNbPivot
  /\ lambda \in Solutions /\ forces \in {"none", "init", "applied"}

(***************************************************************************)
(* The contacts stay in the states of the step's mode: "active" only       *)
(* without friction, "stick" only with it, "sliding" only where sliding is *)
(* allowed.  Outside them the handlers of ContactHandler.h inherit         *)
(* getNewContactHandler overloads that return a null pointer, which        *)
(* checkAndUpdatePivot would dereference at the next turn.                 *)
(***************************************************************************)
StatesInMode ==
  Phases({"build", "qp", "release", "indefinite", "pivot"}) =>
    \A p \in DOMAIN states : states[p] \in AllowedStates(sc.mu, sc.slide)

ConstraintsIdAligned ==
  pc = "pivot" => Len(cid) >= 2 /\ cid[1] = A /\ cid[2] = Aeq
LowerBoundsCoverRows ==
  (Phases({"qp", "release", "pivot"}) /\ flag) => \A r \in A : r.lo

(***************************************************************************)
(* The arrays that are indexed by the rows of the matrices fit them.       *)
(* Where the pivot search reads constraintsId, its entries are those of    *)
(* the rows of [A; Aeq] in order, although a retry pushes A's a second     *)
(* time and contact-free steps leave theirs behind.  Whenever matrices are *)
(* handed to qpOASES while the problem is flagged two-sided, every row of  *)
(* A has its entry in bl, whichever limits came or went since the flag was *)
(* raised: updateOASESMatrices reads bl[i] for every row.                  *)
(***************************************************************************)
RowsAreAligned == ConstraintsIdAligned /\ LowerBoundsCoverRows

(***************************************************************************)
(* Signorini's conditions are in every QP: an open contact has its row     *)
(* delta_n >= 0 and no force; a closed one has delta_n = 0 and a force     *)
(* that cannot pull.  The row and the bound of a contact are chosen by     *)
(* different functions from the same handler, with different index         *)
(* arithmetic.                                                             *)
(***************************************************************************)
Signorini ==
  (pc = "qp" /\ sc.nc > 0) =>
    \A p \in DOMAIN states :
      LET v == sc.na + sc.ne + ContactNbLines(sc) * p IN
      IF states[p] = "inactive"
      THEN /\ \E r \in A : r.kind = "gap" /\ r.id = v
           /\ \A k \in 0 .. ContactNbLines(sc) - 1 : bounds[v + k] = "zero"
      ELSE /\ \E r \in Aeq : r.kind = "closed" /\ r.id = v
           /\ bounds[v] = "nonneg"

(***************************************************************************)
(* The loop stops by itself only when every contact that reached its       *)
(* boundary would cycle: each candidate row is filed under some row of     *)
(* [A; Aeq], so none is lost in the search through the dual.               *)
(***************************************************************************)
CandidatesAreFound ==
  pc = "pivot" => \A c \in Candidates :
                    c \notin Pivotable => IsCycling(c)

(***************************************************************************)
(* A release of actuator constraints lasts for one attempt: the first QP   *)
(* of every turn and the indefinite retry have all rows in force and no    *)
(* actuator fixed.                                                         *)
(***************************************************************************)
ReleaseDoesNotLeak ==
  (pc = "qp" \/ (pc = "pivot" /\ Len(cid) > 2)) =>
    released = {} /\ \A v \in DOMAIN bounds : bounds[v] # "fixed"

(***************************************************************************)
(* No pivot sequence repeats a row, and the current one never equals one   *)
(* of the two it is compared with: the algorithm does not retrace a        *)
(* recorded sequence from start to end.  Sequences of one pivot are never  *)
(* recorded.                                                               *)
(***************************************************************************)
IsSimple(s) == \A i, j \in DOMAIN s : s[i] = s[j] => i = j
NoReplay ==
  /\ IsSimple(cur) /\ IsSimple(seq) /\ IsSimple(prev)
  /\ cur # <<>> => cur # seq /\ cur # prev
  /\ Len(seq) # 1 /\ Len(prev) # 1
  /\ seq = <<>> => prev = <<>>

(***************************************************************************)
(* The same contact row is never pivoted twice in a row, across the        *)
(* turnover of sequences too.                                              *)
(***************************************************************************)
NoImmediateRepivot ==
  [][(cur # <<>> /\ cur' # <<>> /\ cur' # cur)
       => cur'[Len(cur')] # cur[Len(cur)]]_vars

(***************************************************************************)
(* When the pivot loop stops by itself, the forces stored are those of the *)
(* QP whose objective is reported; never those of the LCP or of an earlier *)
(* turn.                                                                   *)
(***************************************************************************)
StoredForcesAreTheLastSolved ==
  (pc = "store" /\ sc.na > 0 /\ (sc.nc = 0 \/ stop)) => lambda = "last"

(***************************************************************************)
(* Every call of solve() returns.                                          *)
(***************************************************************************)
SolveReturns == (pc # "idle") ~> (pc = "idle")
=============================================================================
