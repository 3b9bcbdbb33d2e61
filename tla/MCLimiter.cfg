SPECIFICATION FairSpec
CONSTANTS
  Callers = {c1, c2, c3, c4, c5}
  Sources = {s1, s2}
  Global = 2
  PerSource = 2
  global = global
INVARIANT PermitsExact
PROPERTY WaitersServed
