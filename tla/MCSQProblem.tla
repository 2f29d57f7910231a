---------------------------- MODULE MCSQProblem -----------------------------
EXTENDS LCPQPSolver

Default == SetToDefault
MPC == SetToMPC
Reliable == [SetToReliable EXCEPT !.eq = TRUE, !.initial = "INACTIVE", !.refactor = 2]
Dropping == [Default EXCEPT !.eq = TRUE, !.drop = TRUE, !.nzc = FALSE, !.dropEq = 3, !.dropIneq = 2]
NoFar == [MPC EXCEPT !.far = FALSE, !.nzc = TRUE]
Inconsistent == [MPC EXCEPT !.grows = FALSE, !.steps = -1, !.drift = -1]
Unregularised == [MPC EXCEPT !.reg = FALSE, !.steps = 0]

Box == <<"range", "range", "range">>
FixedAndFree == <<"equal", "infinite", "range">>
EqualRow == <<"range", "range", "equal">>
Use(class, opt, starts, matrices, bounds, guesses) ==
  [class |-> class, opt |-> opt, starts |-> starts, matrices |-> matrices, bounds |-> bounds, guesses |-> guesses]

MCUses ==
  {LCPUse,
   Use("QProblemB", Default, AllStarts, {"general", "null"}, {Box, FixedAndFree}, {<<"UPPER", "INACTIVE", "INACTIVE">>}),
   Use("QProblemB", Inconsistent, {"cold"}, {"general", "identity", "negative"}, {FixedAndFree}, {}),
   Use("QProblem", Default, {"y"}, {"general"}, {Box}, {<<"UPPER", "INACTIVE", "LOWER">>}),
   Use("QProblem", MPC, {"xy", "guess", "y+guess"}, {"null"}, {EqualRow}, {<<"LOWER", "UPPER", "INACTIVE">>}),
   Use("QProblem", NoFar, {"cold"}, {"general"}, {Box, FixedAndFree}, {}),
   Use("QProblem", Reliable, {"cold"}, {"general"}, {EqualRow}, {}),
   Use("QProblem", Dropping, {"cold"}, {"general"}, {EqualRow}, {}),
   Use("SQProblem", Unregularised, {"cold"}, {"general", "negative"}, {EqualRow}, {})}
==============================================================================
