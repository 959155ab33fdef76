CONSTANTS
  t1 = t1
  t2 = t2
  w1 = w1
  w2 = w2
  Trees <- MCTrees
  Writers <- MCWriters
  RequestIDs = {1}
  Contents = {0, 1}
  MinSources = 2
  MaxSources = 2
  MaxNodes = 5
  MaxDeleted = 1
SPECIFICATION Spec
INVARIANTS IncomingInvariant 
SYMMETRY Symm
PROPERTIES DeletedStaysErased Refinement
CHECK_DEADLOCK FALSE
