SPECIFICATION Spec
CONSTANTS
  Tasks = {t1, t2, t3}
  Users = {u1}
  Reviewers = {}
  Requests = {r1, r2}
  None = None
  MaxRounds = 0
  MaxRoots = 1
  MaxOvertaken = 1
  MaxDepth = 2
SYMMETRY Symmetry
CHECK_DEADLOCK FALSE
INVARIANTS
  TreeInv
