SPECIFICATION Spec
CONSTANTS
  Scores = {s1, s2}
  Threads = {t1, t2, t3}
  MaxActions = 4
SYMMETRY Interchangeable
INVARIANTS IInv AuditExplainsRows
PROPERTIES ClearCountsExactly ImplementsPublishing
