SPECIFICATION Spec
CONSTANTS
  Threads = {t1, t2}
  MaxAttempts = 3
  Lockout = 2
  MaxTime = 2
  MaxFailures = 4
INVARIANT LockedAfterMaxFailures
