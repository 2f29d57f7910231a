# Verification of SoftRobots.Inverse

SoftRobots.Inverse is a plugin for the SOFA simulation framework that controls
soft robots: in every step of the simulation it finds the forces of the actuators
that bring the effectors to their targets, subject to the limits of the
actuators and to contacts. The QPs are solved by qpOASES, which the repository
keeps with its own changes under `extlibs/` and builds as a part of the plugin. This directory
holds TLA+ models of the plugin's own logic and of the control of that solver, the TLC
configurations that check them on small instances, and TLAPS proofs for every value of the
constants. Paths below are relative to `src/src/SoftRobots.Inverse/component/` or, where
qpOASES is named, to `src/extlibs/qpOASES-3.2.0/`.

## 1. Inventory

### One step of the simulation

SOFA's animation loop calls `QPInverseProblemSolver` four times per step:
`prepareStates`, `buildSystem`, `solveSystem`, `applyCorrection`.

1. `buildSystem` lets two visitors walk through the scene
   (`QPMechanicalSetConstraint`, `QPMechanicalAccumulateConstraint`). They number
   the rows of all constraints and sort the components into lists: actuators,
   effectors, sensors, equality components and contacts (`QPConstraintLists`).
   The constraint corrections, one per simulated body, then add up the compliance
   matrix W, on several threads if `multithreading` is set.
2. `solveSystem` calls `QPInverseProblemImpl::solve`: the energy matrices are
   built and, if there are contacts, an LCP guesses the state of each contact and
   a loop of QPs corrects the guess, one pivot per turn. `ConstraintHandler`
   assembles the constraints of each QP, `ContactHandler` decides on the pivots,
   qpOASES solves.
3. The forces go back to the components (`storeResults`, `sendResults`) and
   `applyCorrection` makes the constraint corrections move the bodies.
4. The problem just solved can be read, by a force feedback thread, until it is
   reused: the solver owns three problems and `lockConstraintProblem` moves on to
   one that the caller does not hold.

### Components

| Component | State | Operations | Hard behaviour | What makes it correct |
|---|---|---|---|---|
| `QPInverseProblemImpl` | contact handlers, `constraintsId`, the three pivot sequences, `lambda`, `m_step` | `solve`, `solveWithContact`, `solveContacts`, `solveInverseProblem`, `checkAndUpdatePivot`, `isCycling` | the pivot loop must end, not cycle, and survive QPs that are infeasible or not solved; state kept from one step to the next | no replay of a sequence of pivots, `constraintsId` matches the rows it names, the stored forces are those of the last QP, every call returns |
| `ConstraintHandler` | the rows of `A` and `Aeq`, `bl`, `l`, `u`, `hasBothSideInequalityConstraint` | the two assemblies, `getConstraintOnLambda`, `checkAndUpdateActuatorConstraints`, `addContactLimits` | four functions find the handler of a row with three index schemes; a flag that is never lowered; a retry that assembles again | each contact has Signorini's conditions in every QP; a bound released for one attempt is back in the next QP |
| `ContactHandler` | none (four handlers) | `hasReachedBoundary`, `getNewContactHandler` | called in the wrong friction mode they return a null pointer | a contact stays in the states of its mode |
| `QPInverseProblem` | lists, matrices, `lambda` | `clearProblem`, `storeResults`, `sendResults` | lists, row ids and number of lines must agree | each component gets its own rows |
| `QPInverseProblemSolver` | three problems, `m_currentCP`, `m_lastCP`; the list of corrections and their flags | the four calls of a step, `init`, `reinit`, `cleanup`, `lockConstraintProblem`, `removeConstraintCorrection` | a thread reads a problem while another is written; compliance tasks in any order; the list changes between the steps | the problem written is none that is held; a reader sees a complete solution; W is the sum of the active corrections |
| mechanical visitors | lists and counters | `fwdConstraintSet` | constraints of unknown kinds or without rows | every row belongs to one list entry |
| `NLCPSolver`, `LCPQPSolver` | none | block Gauss-Seidel; one QP | the result is used whether it converged or not; the return value of the QP is ignored | converged forces satisfy Signorini's and Coulomb's laws; what is read was written |
| actuators (`constraint/*Actuator`) | limits of force and displacement, updated every step | `initLimit`, `updateLimit`, `storeResults` | a window on the variation per step meets absolute limits; limits that hold from a time on | lower limit not above the upper one, absolute limits kept |
| equality components (`constraint/*Equality`) | imposed value and a flag for it | `updateConstraint` at init, reinit, reset and the end of a step | edits between steps; a time from which on they take part; flags that survive a reset | no outdated value in a QP, none before its time |
| effectors | target | `getTarget`, `setEffectorValue` | targets out of reach, speed limits | the target approached step by step |
| sensors | one `Data` field | `storeResults` | none | (copy) |
| qpOASES: `Indexlist`, `SubjectTo`, `Bounds`, `Constraints` | numbers in two lists, a sorting permutation for each, statuses and types | add, remove, swap, move, flip, shift, rotate, setup | two lists and a status change in separate statements that may be refused | an index is in one list, the permutation sorts it, the status says which |
| qpOASES: `Matrices` | three representations | products and parts under index lists | sorted walks, missing diagonal entries | all representations agree |
| qpOASES: `QProblemB`, `QProblem`, `SQProblem` | working set, status, flags, Hessian type, options | `init`, `hotstart`, with guesses, new matrices, files | loops within loops (working set changes, regularisation, far bounds); failures at every step; dependent indices; objects used again | every call returns, success means solved, the working set stays independent and keeps its equalities |
| qpOASES: `SQProblemSchur`, `SparseSolver` | a factorisation and the updates since | add, remove, reset, repair, inertia correction | updates undone out of order, undone undoing, failures between lists and factorisation | factorisation and updates are the working set |
| SOFA | external | | | |

The solver is sequential on the simulation's thread, with two exceptions: the
tasks of `buildCompliance`, and clients of `lockConstraintProblem` that read a
problem on a thread of their own. Nothing is persisted and nothing is sent over a
network, so crashes, message loss and timeouts do not occur. The hazards that do
are listed line by line in `PROJECT.json`.

## 2. Modules

| Module | Models | Composition |
|---|---|---|
| `ContactHandler` | `solver/modules/ContactHandler.cpp` | operators |
| `ConstraintHandler` | `solver/modules/ConstraintHandler.cpp` | operators, uses `ContactHandler` |
| `QPInverseProblemImpl` | `solver/modules/QPInverseProblemImpl.cpp`: one problem over many steps | state machine, uses `ConstraintHandler` |
| `QPInverseProblemSolver` | `solver/QPInverseProblemSolver.cpp`: three problems and their readers | state machine |
| `Correction` | what a resolution promises about the bodies | abstract specification |
| `ConstraintCorrections` | `solver/QPInverseProblemSolver.cpp`: the list of corrections, `buildCompliance`, `applyCorrection` | state machine, implements `Correction` |
| `QPConstraintLists` | `solver/modules/QPMechanicalSetConstraint.cpp`, `QPInverseProblem.cpp`, and the walks of `QPInverseProblemImpl.cpp`: which row, variable and result belongs to which component | state machine |
| `ActuatorLimits` | the limits of `constraint/{Cable,Sliding,Joint,SurfacePressure,ForcePoint,ForceSurface}Actuator.inl` | state machine |
| `YoungModulusActuator` | `constraint/YoungModulusActuator.inl` | state machine |
| `Effectors` | `behavior/Effector.inl`, `constraint/{Position,BarycentricCenter,Cable,Volume}Effector.inl` | state machine |
| `Equalities` | `constraint/{Cable,SurfacePressure,Position}Equality.inl` | state machine |
| `ActuatorScene` | an actuator and an equality component in one scene | composes `ActuatorLimits` and `Equalities` |
| `NLCPSolver` | `solver/modules/NLCPSolver.cpp` | operators, checked in `MCQPInverseProblemImpl` |
| `Indexlist` | qpOASES `src/Indexlist.cpp` | operators |
| `WorkingSet` | what the two lists and the statuses stand for | abstract specification |
| `SubjectTo` | qpOASES `src/{SubjectTo,Bounds,Constraints}.cpp` | state machine, uses `Indexlist`, implements `WorkingSet` |
| `Matrices` | qpOASES `src/Matrices.cpp` | operators on `Indexlist`, checked in `MCSubjectTo` under the lists that arise there |
| `Options` | qpOASES `src/Options.cpp` | operators |
| `QProblemB`, `QProblem`, `SQProblem` | qpOASES `src/{QProblemB,QProblem,SQProblem}.cpp` | one state machine in three layers, as the classes are; uses `Options` |
| `LCPQPSolver` | `solver/modules/LCPQPSolver.cpp`, `getNewQProblem` | the plugin as a user of `SQProblem` |
| `SparseSolver` | qpOASES `src/SparseSolver.cpp` | operators |
| `SQProblemSchur` | qpOASES `src/SQProblemSchur.cpp` | state machine, uses `SparseSolver` |
| `MC*` | instances for TLC | |
| `*_proofs` | theorems and proofs | extend the modules they are about (`WorkingSets_proofs`: `SubjectTo` and `SQProblemSchur`) |

### `QPInverseProblemImpl`, with `ConstraintHandler` and `ContactHandler`

A *scene* (`sc`) is what the lists of a step hold as far as the control flow can
tell: the number of actuator, equality and contact rows, which limits each
component has, the friction mode, and the limits on the contact forces. Every
step may hand over another scene of `Scenes`. A row of `A` or `Aeq` is a record:
the variable it is filed under in `constraintsId`, what kind of condition it is,
and whether it has an entry in `bl`. Coefficients are left out. `cid` is the
sequence of the blocks that were pushed to `constraintsId`, so that a stale block
is visible.

The actions follow `solve()`: `BeginStep` (`clearProblem` and the branch on the
lists), `SolveContacts`, `BuildConstraints`, `SolveInverseProblem` (first attempt),
`ReleaseAndRetry`, `RebuildAndRetry`, `CheckAndUpdatePivot` with the end of the
turn, `LeaveLoop`, `StoreResults`. The three attempts are actions of their own
because each changes the assembled problem for the next.

Oracles: the LCP (`NLCPSolver`, whose iteration has a module of its own) may suggest any allowed state for each contact; a QP may be
solved, infeasible or neither; a handler's comparisons may come out either way,
except where the QP's own bounds decide them. When the last attempt is not
solved, qpOASES does not write the array it is given, so all comparisons are free.
Which candidate has the largest dual is free as well. These choices include every
behaviour of the numerical code, and more.

### `QPInverseProblemSolver`

The variables are `m_currentCP`, `m_lastCP`, for each problem the step whose
solution it holds and whether it is complete, and for each client the problems it
published and reads. A problem is a pair (generation, index): `init` and `reinit`
delete three problems and create three, and a client may still hold a deleted one.
Clients are not under `component/`: they are modelled from the interface, as
SOFA's force feedback components use it. At the end of a step a client asks for the
last problem, publishes it to its thread, and locks what it published and what its
thread may still be reading; the thread goes to the published problem when it
likes.

### `ConstraintCorrections` and `Correction`

`Correction` states the promise: after a resolution W holds the compliance of
exactly the corrections whose `isActive()` held, and the bodies that were moved are
those of the corrections that were neither inactive nor asleep. (The asymmetry is
the code's: a sleeping body contributes to W.) `ConstraintCorrections` models how
it is done: the list and the flags indexed like it, the sequential loop, or tasks
with matrices of their own that any worker runs in any order, the wait, and the sum.
The refinement mapping takes the work between the start of a resolution and its end
as one step.

### `QPConstraintLists`

`QPInverseProblemImpl` counts rows; this module follows their identity. A scene is a
sequence of components in the order of the visitor, each with its list, its number of
lines and `applyForce`. `FwdConstraintSet` numbers the rows and sorts the component
into its list. A force is modelled by what it was computed for (a component and one of its
lines), so a force at the wrong place is visible. `InitLambda` and `BuildQPMatrices`
are the two walks along the variables with a counter of lines, one variable per
action; `SolveContacts` and `SolveInverseProblem` put forces at the variables;
`StoreResults` takes them to the rows; `SendResults` gives each component its part, one
component per action. The numerical solutions are not modelled, only their layout.
Contacts may change from step to step, the other components of a robot may not.

### `ActuatorLimits`

One actuator over many steps. Six kinds share the module, since they limit one quantity
in six variants of the same statements: absolute limits, and a window of the maximal
variation around the last value. `Init`, `Reinit`, `Reset` and `StoreResults` are the
component's methods; `lim` is the window given to the QP. A value is an integer, which
keeps every comparison and sum of the code. The QP may answer anything in `Values`,
inside the window or not (an infeasible QP is retried with limits released); the
history variable `astray` remembers whether all answers were held to a window. `InForce`
says that the limits are in the QP: for a cable with `constrainAtTime` they are from the step
after that time on, if a step falls on that time exactly.

### `YoungModulusActuator`

The modulus exists twice, in the force field (`field`) and in the actuator (`young`).
`BuildConstraintMatrix` copies one to the other, `YoungStoreResults` adds the QP's answer and
computes the next limits, `YoungReset` restores the copy only. The ratio is a fraction and
limits are multiplied by its denominator.

### `Effectors`

One effector over many steps. Its coordinates are those of its points, of the
barycenter, or one length or volume; each solved coordinate has a row. A step is
`BuildConstraintMatrix` (with the free motion of the bodies), `GetConstraintViolation` (the
target of `getTarget`, and the violation as each effector computes it) and `StoreResults`: the QP takes
each row from its violation to a residual, which moves the coordinate. The user changes the goal
and resets the simulation between steps. Weights of position effectors are left out. With `maxSpeed` the
model has one coordinate, since the norm of a direction is not an integer otherwise.

### `Equalities` and `ActuatorScene`

`wanted` is what the user set, `imposed` what the assembly of the QP reads. `updateConstraint()` of
the three components copies one to the other, at once or from `constrainAtTime` on; `EqStore`, `EqReinit`
and `EqReset` are its callers (a position has only the first). `ActuatorScene` runs an actuator and an equality component
on one clock: a step updates both, a reset resets both, and the user reinitialises each or edits
the equality in between.

### `NLCPSolver`

`solve()` as a function of a problem: `Iteration` takes the contacts in turn, `GSState` computes the force of one,
`Converged` and the bound end it. Real numbers are integers; the problems considered are those where each division is
exact. `SignoriniCoulomb` is the reference definition that converged forces are compared with.

### `SubjectTo`, `Indexlist`, `Matrices` and `WorkingSet`

An index list is its numbers in the order they came and the permutation `iSort`; insertion and removal are the code's searches
and shifts, with the bisection of `findInsert()` turn by turn (`Halved`). The four loops of `setupAll()`, each over all indices, and the loop of `shift()`
and `rotate()` that files the indices under their statuses are recursive functions of the number of turns. `SubjectTo` is one object, of bounds or of constraints, with two lists and statuses, under every
operation, in any order, with arguments that are refused too. `WorkingSet` says the same with sets: which
indices are in the working set and outside it, and the status of each; after an operation that failed, anything may be left until `init()`.
`Matrices` has a matrix as rows, compressed columns and compressed rows, and each representation's own way
to a product, a row, a column, a diagonal or a sub-matrix. `MatricesAgree` compares them with each other and
with the definition by sums, under every pair of lists that the run arrives at.

### `QProblemB`, `QProblem`, `SQProblem`

An object is a record `qp`: options, status, the working set (`held`), statuses and types of all indices,
the kind of data it was last given (a range, an equality, no bound), the Hessian type and four flags. `use` is
its user: the class, the options, and which Hessians, bounds, starts and guesses are given. `pc` and `loc` are where a call is: `init` or `hotstart`,
then the adaption of the working set index by index, the iterations of `solveQP()` one by one, the
regularisation steps and the far bounds around them. Everything the code compares numbers for is a free choice
among the outcomes that the state allows: which index blocks, whether an index depends on the working set
(it must when the null space is empty), whether a factorisation or a back-substitution fails, whether a dependent index finds one
to take the place of, whether bounds contradict each other. `QProblem` adds the constraints to what
`QProblemB` does; `SQProblem` adds new matrices, and is the specification. The user calls in any order,
may set the Hessian type (the plugin sets `HST_INDEF`) and may assign a new object (the plugin does so to repeat a QP).

### `SQProblemSchur` and `SparseSolver`

`sq` is the two lists, the lists that were factorised, the number of updates `nS`, their names (`schurUpdate`,
`schurUpdateIndex`), S and M by the names of the updates their entries belong to, and the solver. So an entry at
the wrong place is visible. Signs of determinants, inertia, condition and failures are free, within `Numerics`. Two history
fields mark objects that have met an error (which every caller reports) and objects that have forgotten updates.
The lists are sets; `ISort` orders them where the code merges them (`stepCalcReorder`). `resetSchurComplement`, `correctInertia` and
`addBound` call each other: the operators take the outcomes of such inner calls as a parameter, and `Calls[n]` are those outcomes to a depth of `n`. A repair and a
fixed bound make the KKT matrix smaller, and a turn of the loop of `correctInertia` leaves fewer variables to try, so `Depth` is deep enough for every call.

## 3. Runs

| Run | Instance | Checks |
|---|---|---|
| `pivot_frictionless` | three frictionless contacts; contact-free steps with one- and two-sided actuator limits; a maximum of the contact forces; at most six pivots (`MaxNbPivot`) | `TypeOK`, `RowsAreAligned`, `Signorini`, `ReleaseDoesNotLeak`, `NoReplay`, `NoImmediateRepivot`, `StoredForcesAreTheLastSolved`, `SolveReturns` |
| `pivot_friction` | two contacts with friction, sliding allowed or not, a step without actuators; 1536 LCPs of two coupled contacts | `StatesInMode`, `CandidatesAreFound`, `ConvergedForcesSolve` |
| `problems_one_client` | one client, six resolutions, one `reinit` | `CurrentProblemIsNotLocked`, `ReadersSeeSolvedProblems`, `ReadProblemIsStable`, `PublishedProblemIsTheLatest` |
| `corrections` | three bodies, each step with or without threads, tasks run in any order, changes of the scene and the list between steps | `ImplementsCorrection`, `ResolutionEnds` |
| `rows` | three robots, components with zero to three rows, actuators, equality components, effectors and sensors in mixed order, up to four contact rows before and after them, `actuatorsOnly` set or not | `OwnResults`, `ForcesReachTheirRows`, `WalksReachTheOwners` |
| `limits` | six kinds of actuator, all combinations of limits, a small and a large variation, values two beyond the limits on either side, steps of two units up to time six; three kinds of equality component with edits | `LimitsKept`, `HoldIsAllowed`, `WindowIsOpen`, `VariationKept`, `EqualityOnTime` |
| `young` | range 3 to 12, ratio one half, moduli inside and outside | `YoungInRange`, `RatioKept` |
| `effectors` | four kinds, along one coordinate with all combinations of limits and three coordinates with several choices of directions, free motions, residuals, two goals per coordinate | `ApproachesGoal`, `GoalIsReached` |
| `lists` | bounds and constraints of one to three indices, all types | `ListsAreSorted`, `ImplementsWorkingSet`, `MatricesAgree` |
| `qp` | two variables, one constraint, two calls, two iterations per call, one growth of the far bounds; nine uses: the plugin's, and others with every class, preset and start | `TypeOK`, `IndependentWorkingSet`, `EqualitiesStayActive`, `SuccessMeansSolved`, `UsableAtTheLimit`, `CallReturns` |
| `schur` | two variables, one constraint, room for three updates, three sparse solvers, all failures | `FactorisationMatches`, `SchurComplementMatches` |

Why the bounds are enough. Three frictionless contacts are the least with which a
sequence of pivots can close, be followed by a different one and come back; the
proofs of `NoReplay` and `NoImmediateRepivot` lift the bound. A scene with one
actuator, one component and a mixture of two-sided and one-sided limits makes each
branch of the assembly happen, and steps alternate, so that what one leaves behind
meets the next. Two contacts with friction have six rows and all nine pairs of
states. Six resolutions let each of the three problems be reused after being held;
the proofs lift this too. Three corrections are the least with which removing one
shifts the flags of the two others; the refinement is proved for any number. `MaxBlocks` bounds the blocks in `cid` at the
start of contact-free steps (the code lets them grow forever, see below). In `rows` each
list has two components with different numbers of lines somewhere, so that a walk that
counts wrongly meets the next component; steps with and without contacts alternate, so
that the forces kept in `lambda` meet another layout; the proofs are for all scenes. In `limits` one variation is
smaller and one larger than the distance from zero to either limit, so each test of the
window comes out both ways, and the equality components start at once, at a step, or between two;
in `effectors` the way to a goal takes one, two or three
exact steps; the proofs lift the bounds of both
actuator modules. `MaxTime` lets steps pass before and after `constrainAtTime`. In `lists` three indices
are the least with which a list can be out of order in the middle; the theorems about `SubjectTo` lift the
bound. In `qp` two variables and a constraint give working sets that are
empty, full, dependent and exchanged; the second call finds the object in every state the first can leave
it in. The uses were chosen so that each option switches its branch on and off in one of them and each pair of Hessian
and start occurs. In `schur` the third update is the least with which one is deleted from the middle, and the fourth
change finds the complement full.

Fairness. `GoalIsReached` assumes that the simulation goes on (weak fairness of the three
calls of a step, which the animation loop makes in turn). `SolveReturns` assumes weak fairness of the actions of `solve()`: it is
sequential code that blocks on nothing. The start of the next step is not fair: the
user may stop. `ResolutionEnds` assumes weak fairness of the simulation's thread
and of the workers: SOFA's task scheduler runs each task that was added, and
`workUntilDone` makes the calling thread work too. `CallReturns` assumes weak fairness of the steps of a call of qpOASES,
which is sequential code; calls are not fair.

### Disagreements between the code and what is said about it

One is a run that TLC must find violated, `signorini_with_equality`: with equality components the frictionless
branches pick the handler of another contact (`ConstraintHandler.cpp:260`, `:505`), and a contact loses its condition, although
`ConstraintHandler.cpp:54` lists "Signorini constraint   delta_c >= 0" among the rows of A.

Three others are excepted from the properties above:

* "equality second", "contacts last" (`QPInverseProblemImpl.cpp:174`): `solveContacts` writes the force of contact row i
  to `res[i+nbActuatorRows]` and so puts contacts second. With actuators the QPs overwrite the result; without any, the equality rows are given the forces of the contacts.
* "Minimum value for Young Modulus." (`YoungModulusActuator.inl:46`): `reset()` restores the actuator's copy of the modulus
  and computes the limits from it, but not the body's modulus; the next answer, in that window, can leave the range.
  `YoungInRange` is about answers in the window of the body's modulus.
* `axis` "allows to specify the directions in which you want to solve the effector" (`BarycentricCenterEffector.inl:53`): a
  barycenter solved in its last two axes gets the free motion of one axis added to another (line 208), and exact steps lead away from the goal.
  `ApproachesGoal` is about the first axes.

Other things met while modelling, in the models but without a run of their own:

* `ConstraintHandler.h:60` says of `constraintsId` "Size of Af"; steps without contacts
  never clear it and it grows. `RowsAreAligned` shows that no index in use is wrong.
* `ConstraintHandler.cpp:754` says that only actuator constraints are released; the row
  of the minimal contact force is filed under variable 0 and is released as well.
* At the bound of the pivots one more QP is solved, and its objective is reported with
  the forces of the one before (`QPInverseProblemImpl.cpp:359-375`).
* Initial forces are put in place at the first contact of a problem, not at its first step
  (`QPInverseProblemImpl.cpp:397`).
* "The current ConstraintProblem is not locked" (`QPInverseProblemSolver.cpp:591`):
  `lockConstraintProblem` protects the problems of its last caller only. With two clients,
  the second call of a step may choose the problem that the first client has locked.
* "No constraints will be applied before this time" (`CableActuator.inl:51`): `reset`
  calls `initLimit`, which returns at once before `constrainAtTime` and leaves flags and
  window of the previous run in place.
* `maxSpeed` ("Limit the effector motion to a maximum speed", `Effector.inl:45`) has no
  effect on lengths and volumes.
* A cable whose `constrainAtTime` is no multiple of the time step is never limited.
* After a displacement beyond the maximum by the variation or more, the next window
  leads further out (the test takes the absolute value of the distance).
* `accumulateDisp` with `initDisplacement` gets a first window around the displacement
  where one around zero is meant; the properties are about actuators that start from
  zero.
* The test of the lower limit of a cavity (`SurfacePressureActuator.inl:168`) holds only
  at zero, so the variation downwards is not limited when `minVolumeGrowth` is set.
* Behind an actuator without lines the two walks with line counters do not advance.
* `init` and `reinit` of the solver delete the three problems while a client may still read one; nothing says when they may be called.
* Equality components: the flags survive a reset, against "No constraints will be applied before this time"
  (`CableEquality.inl:45`, `PositionEquality.inl:53`), and an edited value reaches the QP one step later. `m_deltaEqual` and `m_lambdaEqual` have one
  entry while `ConstraintHandler.cpp:413-432` reads one per line; `PositionEquality.inl:141` counts the coordinates of
  a rigid (7) where line 108 counts its rows (6).
* The flag `enableFullLITests` is switched off during `setupAuxiliaryWorkingSet` and not back on by its early returns
  (`QProblem.cpp:2409-2502`); the full tests read step directions that were not set when their computation has failed (`:2998`, `:3497`).
* From four variables on, a guess may fix all variables at once and leave an active constraint in the working set
  (`QProblem.cpp:2357-2381`), so `IndependentWorkingSet` excepts this case.
* `dropInfeasibles` marks an index as dropped even if its removal has failed (`QProblem.cpp:6305`) and looks up types with the wrong index (`:6257`, `:6271`).
* `hotstart` on contradicting bounds returns success (`QProblem.cpp:475-476`), with `infeasible` set; `SuccessMeansSolved` excepts it.
* Limits of zero iterations leave the status at `PERFORMINGHOMOTOPY`, from which no call but `init` goes on.
* `performRamping` and `updateFarBounds` divide by the number of variables, or of ramps, minus one (`QProblemB.cpp:2173`, `:2209`).
* A primal and a dual solution without a guess are refused by `init`, although `QProblem.hpp:158` offers them.
* A second failure to factorise in `SQProblem::setupNewAuxiliaryQP` is not reported (`SQProblem.cpp:489-506`).
* `SQProblemSchur`: the result of `backsolveSchurQR` is ignored (`:2630`), so the retry at `:2825` never happens; the last assignment of `resetSchurComplement`
  (`:3114`) forgets the updates of an inertia correction; what adding an index returns during an exchange is ignored (`:1786`, `:2152`).
* `Matrices.cpp`: products that add to an uncompressed vector read it at the compressed place (`:423`, `:1227`, `:1821`); a product with several right-hand sides and
  no column list deletes its buffer in the loop (`:1194`). The solver calls neither.

## 4. Proofs

`QPInverseProblemImpl_proofs`, from `ScenesAssumption` (scenes are well formed:
components tile their rows) and `BoundsAssumption`:

* `TypeCorrect`: types, and no turn begins beyond the bound on the pivots.
* `PivotsDoNotReplay`: the current sequence never equals one of the two recorded
  ones. `isCycling` refuses a pivot that would complete one; the turnover, which
  makes the current sequence `<<c>>`, is the other way to break it. `NoReplay`
  is made inductive by the conjunct that no recorded sequence has length one: a
  turnover repeats a row of the current sequence that is not its last (the last is refused), so the closed sequence has two rows at least.
* `PivotsMoveOn`: no row is pivoted twice in a row, across the turnover too.
* `ContactsStayInMode`, `ArraysFitTheRows`, `ReleasesEnd`, `StoredForcesAreOfTheLastQP`. They rest on one invariant, `AssemblyInv`: in every
  phase of a turn that follows an assembly, the matrices, the two-sided flag and the first two blocks of `constraintsId` are those that the
  states of the contacts call for (`Assembled`), and nothing is released where a fresh QP begins (`Unreleased`); between the turns all contacts are open, and during
  them there is one handler per contact point. The last parts are needed because a step without actuators returns early and leaves its handlers behind,
  which only does no harm because they are all inactive. A retry assembles again with the flag that the first assembly left: a lemma
  (`AssemblyIsIdempotent`) shows that this gives the same rows.
* `SignoriniInEveryQP`, from the hypothesis `ContactsWellIndexed`: every QP has the rows and bounds of the states of its contacts. The rows of the contacts are
  found by walks whose steps over the equality rows are all as long as the first equality component; the hypothesis is that they end at the first contact, which
  holds in particular without equality rows (`WellIndexedWithoutEquality`). Without it the property is false (run `signorini_with_equality`).
* `NoCandidateIsLost`, from the hypothesis `NoEqualityAmongContacts` (no step has both equality rows and contacts): the search for pivots finds a row for every candidate. `checkAndUpdatePivot`
  numbers the contacts behind the actuators only, so with equality rows it looks for the wrong ids.

`QPConstraintLists_proofs`, from `ScenesAssumption` (components have distinct names and a natural number of lines), for any number and order of components:

* `ResultsReachTheirComponents` and `ForcesAreOfTheirRows`, from the hypothesis `ActuatedAmongContacts` (a scene with equality rows and
  contacts has rows of actuators). Without actuators the QP is skipped, and `solveContacts` has put the forces of the contacts where
  `storeResults` expects those of the equality rows. The invariant `ListsInv` says that there are positions `st` at which the rows of the components of a list begin, that the id at
  position `st[m] + j` is that of line `j` of component `m`, and that nothing else is in the list (`Laid`); the visitor extends `st` by one component at a time
  (`LaidExtended`). `sendResults` then stands at `st[id]`, `storeResults` has the variable of each row, and what is sent is what was written.
* `WalksReachOwners`, from `ActuatedAmongContacts`, `InvalidLast` and `SameActuators`. The walks of `buildQPMatrices` and `init` step to the
  next component when they have counted its lines, so a component without lines stops them: `InvalidLast` asks that those come last in their list. The LCP of a step
  uses the forces of an earlier one by their places: `SameActuators` asks that the scenes of a robot have the same actuators in the same order, wherever the contacts are.
  The invariant `WalksInv` says that the walks stand at the line of variable `k` (`OnWalk`), and that `lambda` holds, at the
  offsets the lists will have, forces of the robot's actuators (`Remembered`); the visitor lists them again in the same order (`Listed`).
  The scenes of run `rows` satisfy the three hypotheses.

`ConstraintCorrections_proofs`, from `CorrectionsAssumption` (finitely many corrections):

* `ResolutionsKeepThePromise`: `ConstraintCorrections` implements `Correction`. The invariant says phase by phase which tasks were added and what each has computed in its own matrix, that `W` is the
  sum of the active corrections before `i`, that no correction is listed twice, and that the flags of the listed corrections are those of this resolution. The end of either
  loop is then `Build`, `applyCorrection` is `Apply`, and every step of a task is a stutter.

`QPInverseProblemSolver_proofs`, from `OneReader` (there is exactly one client):

* `LockHolds`, `ReadersAreSafe`, `ReadersAreUndisturbed`, `PublishedIsLatest`.
  The inductive invariant says in addition which of the problems is being written
  in which phase of a resolution, that `m_lastCP` is complete at its end, and that
  what a client holds is complete or belongs to an earlier `createProblems`. With
  these, the argument is that a client holds at most two of the three problems and
  that `lockConstraintProblem` steps over both.

`ActuatorScene_proofs`, first part, from `ActuatorsAssumption` (configurations are well formed and
start within their limits) and, as a hypothesis of the theorems, `AllAccumulateFromZero`:

* `LimitsAreKept`, `HoldingIsAllowed`, `WindowsAreOpen`, `VariationIsKept`. The inductive
  invariant says of the window that is in force that it is `Good` for the present value:
  it does not lead out of the limits, is no wider than the variation, contains the
  value and is not empty. Every `initLimit` and `updateLimit` establishes this from the
  value alone, one lemma per kind. The exception is the accumulating sliding actuator, which
  keeps the old window on a side without absolute limit; for it `Good` says in
  addition that this side contains zero (`Retained`).

`ActuatorScene_proofs`, third part, about `YoungModulusActuator`, from `YoungAssumption`:

* `YoungStaysInRange`, `RatioIsKept`. The range is inductive together with the types: an
  answer that is not astray was in the window computed from the force field's modulus, and
  a lemma (`WindowOf`) bounds that window by the range and by the ratio.

`Effectors_proofs`, from `EffsAssumption`, `BoundsAssumption` and the hypothesis
`FirstAxesOnly` (barycenters are solved in their first axes; section 3 says why):

* `GoalIsApproached`. The invariant: before the QP, the violation of each solved coordinate
  is its own free motion plus its distance to the target. It rests on a lemma that
  two solved coordinates never have the same row, by the cardinality of the sets of
  coordinates before them. A lemma about `getTarget` places the target between
  position and goal.

`ActuatorScene_proofs`, second part, from the assumptions of `ActuatorLimits` and `EqualitiesAssumption`:

* `EqualitiesAreOnTime`. `EqualityOnTime` is made inductive by what an update establishes: after one at or after
  `constrainAtTime`, with no edit since, what is wanted is imposed; `edited` stays up through updates that return early.
* `SceneImplementsActuator`: each step of a scene is a step of the actuator or leaves it alone, so the theorems about
  one actuator hold in a scene; `SceneKeepsLimits` is the one that matters.

`SQProblem_proofs`, first part, from `QProblemBAssumption` (sizes, limits and uses are of their kinds: at least one variable, any number of constraints):

* `ObjectInvariant`: the inductive invariant of an object of any of the three classes, with any options, under any sequence of calls. It has two parts.
  `ObjectOK` says what the object is between any two steps: `Good` (its kind, and that the lists are the indices whose status is a side, unless `enableDropInfeasibles` is set), that
  the options it has changed itself are still consistent, and that the guess of the current call has known statuses. `FlowOK` says what a call may still report where it is:
  iterations are left in `solve` and `activities` (otherwise a limit could be reported before any QP is solved), an iteration that is not the first of its
  `solveQP()` starts from `HOMOTOPYQPSOLVED`, the flags are down in the loop, and a return value of success on the way out goes with a solved QP.
  Neither part is inductive without the other: the return values follow from the phase, and the phase from what `setupAuxiliaryQP()`, the removals
  and the factorisations leave. The lemmas say of each function which outcomes it has (`Outcome`, `Factorisation`, `Kept`, `Adapted`), then one lemma per action.
* `ListsAreTheWorkingSet` (`TypeOK`), `SuccessIsASolution` (`SuccessMeansSolved`) and `TheLimitLeavesASolution` (`UsableAtTheLimit`) follow from the invariant.
* `EqualitiesAreNotGivenUp` (`EqualitiesStayActive`): an iteration takes out at most the index that blocks it or one that the plain ratio test picks, and neither is an equality;
  an exchange in `removeConstraint()` or `removeBound()` takes out no other index (`RemoveLoses`).
* `WorkingSetIsIndependent` (`IndependentWorkingSet`). The dimension of the null space, `NZ`, is a difference of two cardinalities, so first each function gets a lemma about it:
  `Enter` lowers it by at most one, `Leave` raises it by one, a flip keeps it, and an index is added only where the test answered INDEPENDENT, which needs `NZ > 0`, or after
  `ensureLI()` has made room for it (`AddDimension`, `RemoveDimension`, `ChangeDimension`). Two places add without a test. The initial working set without a guess takes the equality bounds while
  no constraint is active yet (`UntestedBoundFit`), so `RankInv`, the invariant beside `Inv`, records in `Loops` where the loops of `setupAuxiliaryWorkingSet()` are. And
  `setupAuxiliaryWorkingSet()` switches the full test off and restores it from the call: `RankInv` says that neither the object nor the call has it switched on.
  A `QProblemB` never tests; `RankInv` says it has no active constraint, so its null space is what is left of the variables. The relation `Level` (same working set, or no active constraint) carries
  the property through all steps that do not touch the lists, `Sunk` through those of a `QProblemB`. `TrivialGuess` is where the bound on the variables is needed:
  a guess that fixes them all may be taken over at once if at most half as many statuses change as it fixes, and with fewer than four variables that leaves room for one change only,
  while an active constraint and the variable it leaves free would be two.

`WorkingSets_proofs`, first part, from `SubjectToAssumption` (sizes are positive; there is no bound on the number of indices):

* `HoldsNumbers`: in a list that `iSort` sorts, the bisection finds an index exactly if it is there. Induction is over sets of numbers (`NatSetInduction`, from the well-foundedness
  of `<`): the library's induction theorems cannot be applied here. A recursive function is a choice of one that satisfies its equation, so each of them first
  needs a lemma that there is one (`BisectRecursion`, `SetupLoopRecursion`, `FiledRecursion`); `BisectFinds` is then an induction on `lst - fst`.
* `ListsStaySorted` (`ListsAreSorted`). What is kept through insertions, removals and swaps is that `iSort` is a permutation and the numbers along it increase strictly (`AddNumberAdds`,
  `RemoveNumberRemoves`, `SwapNumbersSwaps`: each says the set of numbers afterwards as well). This also holds after an operation that failed halfway, where the lists and statuses need not agree, which is why
  `SubjectToInv` states it apart from the agreement. A list that holds as many numbers as there are indices cannot take another one: `ListIsShort`, a pigeonhole argument.
* `ListsImplementWorkingSet` (`ImplementsWorkingSet`): the lists implement `WorkingSet`. Before a failure, the numbers of each list are the indices whose status says so (`Agrees`). Each operation is
  compared with the abstract one (`StepIsRight`, one lemma per action); `setupAll()` needs that the four loops visit every index once and only once, since a second visit would be refused (`SetupAllSetsUp`), and `shift()`
  and `rotate()` that the lists rebuilt from the statuses agree with them (`FiledFiles`).

`SQProblem_proofs`, second part, from the assumptions of `WorkingSet`:

* `WorkingSetsAgree`: in the abstract working set the two sides are disjoint and the statuses agree with
  them as long as no operation has failed, for any number of indices. By `ListsImplementWorkingSet` this holds of the lists.

`WorkingSets_proofs`, second part, from `SchurAssumption` (any number of variables and constraints, any room for updates, any of the failures, any of the solvers):

* `FactorisationIsCurrent` (`FactorisationMatches`) and `ComplementIsCurrent` (`SchurComplementMatches`) follow from `SchurInv`: once there is a factorisation, the object `IsGood`. It is whole
  (S and M are those of the updates, and there is room for them), whatever has failed; without a failure the sparse solver has factorised the matrix of the factorised lists; and if no update was
  forgotten either, the updates are exactly the differences between the lists and the factorised lists, each once. Neither property is inductive: that an update may be deleted, and that the
  one that is undone is in S if and only if the index was changed since the factorisation, needs the differences and that they are distinct.
* Of each function a lemma says that it makes a good object from a good one. A reset makes one from any object (`ResetGood`), as the code relies on after a failure. A change of the lists undoes one difference or makes a new one (`IsChange`, for each of
  the four functions); a deletion takes one row and column from the middle of S and `undoDeleteFromSchurComplement` is its exact inverse (`Deleted`, `RemoveGood`), although the deleted update is kept in a row behind the last meanwhile.
* The inner calls are good to any depth by induction over the depth (`NatSetInduction`, `InnerGood`).
* The merge of two sorted lists in `stepCalcReorder` meets exactly what both have: an induction over what is left of the two lists (`MergesAt`). `ISort` is a `CHOOSE`, so that a set can be put in order is proved first (`EnumerationExists`).

Only model-checked: `SolveReturns`, `ResolutionEnds`, `CallReturns` and `GoalIsReached` (liveness, out of the prover's
reach); `MatricesAgree` and `ConvergedForcesSolve`, which evaluate algorithms on given matrices and contact problems (in general both depend on sums over index sets, and
the second on exact division).

## 5. Not modelled

* The entries of W, Q, c and A, the search for sliding directions and the solutions of the QPs: real arithmetic. The models let the
  solvers answer anything that the control flow can tell apart.
* Geometry: constraint matrices of actuators, effectors and equality components, the propagation of rows through
  mappings (`QPMechanicalAccumulateConstraint`), surfaces, beams.
* `BeamRestPositionActuator` (needs another plugin), sensors (copies), drawing, printing, saving
  of matrices, plugin registration, and SOFA.
* qpOASES: dense linear algebra (`BLASReplacement`, `LAPACKReplacement`), `Utils`, `MessageHandling`, `SolutionAnalysis`, `Flipper`, the bindings under
  `interfaces/`, examples and tests; of the solvers, `solveCurrentEQP`, printing, and tolerances. Contents of files: a file may be readable or not.

## 6. Plan

1. Composition of `QPInverseProblemImpl` with `SQProblem`: the outcomes of a QP taken from the solver's model instead of an oracle.
2. Composition of `QPConstraintLists` with the rotation of the three problems, whose `lambda` are separate.
3. A link between `SQProblemSchur` and `SubjectTo`: its two lists are sets here, which `ListsImplementWorkingSet` justifies for each list.
