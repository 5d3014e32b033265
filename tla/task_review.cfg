SPECIFICATION Spec
CONSTANTS
  Tasks = {t1}
  Users = {u1, u2}
  Reviewers = {u1}
  Requests = {r1, r2}
  None = None
  MaxRounds = 2
  MaxRoots = 1
  MaxOvertaken = 1
  MaxDepth = 3
SYMMETRY Symmetry
CHECK_DEADLOCK FALSE
INVARIANTS
  TaskInv
PROPERTIES
  StatusSteps
