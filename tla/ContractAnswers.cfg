SPECIFICATION Spec
CONSTANTS
  f1 = f1
  f2 = f2
  File = {f1, f2}
  HostOf <- Hosts
  Type <- Types
  Registered <- WithSolver
  Throwing = {"Baffling"}
  Solvable <- RightSolvers
  Accepted <- Judged
  Problems <- MCProblems
  Standing <- MCStanding
  MinTries = 2
  FirstTries = 3
  MaxRecent = 2
  MaxForced = 1
  MaxRestarts = 1
INVARIANTS AnswersRight
PROPERTIES ScanRepeatsNothing LastTriesKept ListIsCurrent SolvableSolved
CHECK_DEADLOCK TRUE
