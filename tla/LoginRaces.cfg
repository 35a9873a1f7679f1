SPECIFICATION Spec
CONSTANTS
  Threads = {t1, t2, t3}
  MaxAttempts = 3
  Lockout = 2
  MaxTime = 5
  MaxFailures = 5
SYMMETRY ThreadSymmetry
INVARIANTS IInv LockoutExact NoSpuriousLock
PROPERTY FailureKeepsLock
