SPECIFICATION Spec
CONSTANTS
  Readers = {r1, r2}
  Writers = {w1, w2}
  Queries = {q1}
  MaxRev = 2
  MaxEvict = 0
SYMMETRY Threads
INVARIANTS IInv Coherent TornResultsUnreachable ReadsAreFresh
PROPERTY ImplementsFreshReads
CHECK_DEADLOCK FALSE
