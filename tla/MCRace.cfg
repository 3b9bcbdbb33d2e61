SPECIFICATION FairSpec
CONSTANTS
  First = {a}
  Rest = {b, c}
  LineOnly = {c}
CHECK_DEADLOCK FALSE
INVARIANTS
  NoEarlyMiss
  ResultIsBest
  NegativeIsHonestUnlessGone
PROPERTIES
  SiblingsGetGrace
  Quiesces
