SPECIFICATION FairSpec
CONSTANTS
  Readers = {r1}
  Writers = {w1, w2}
  Queries = {q1}
  MaxRev = 2
  MaxEvict = 1
PROPERTY HealsWithinTTL
CHECK_DEADLOCK FALSE
