SPECIFICATION FairSpec
CONSTANT Callers = {c1, c2, c3}
INVARIANTS
  NoOrphan
PROPERTIES
  ImplementsShared
  EveryGetReturns
