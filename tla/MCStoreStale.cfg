CONSTANTS
  Readers = {r1}
  Writers = {w1}
  Ops = {"save"}
  MaxWrites = 2
  CbThreshold = 2
SPECIFICATION Spec
INVARIANT NoStaleContent
