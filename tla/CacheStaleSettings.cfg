SPECIFICATION Spec
CONSTANTS
  Readers = {r1}
  Writers = {w1}
  Queries = {q1}
  MaxRev = 3
  MaxEvict = 1
INVARIANT NoRaceWindow
CHECK_DEADLOCK FALSE
