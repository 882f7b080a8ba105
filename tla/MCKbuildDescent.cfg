SPECIFICATION Spec
CONSTANTS
  Symbols = {"A"}
  Trees <- MCTrees
INVARIANTS
  BuildIsMakes
  FlagsFollowDescent
PROPERTY DescentEnds
CHECK_DEADLOCK FALSE
