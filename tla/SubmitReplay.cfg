SPECIFICATION Spec
CONSTANTS
  Games = {g1}
  Nonces = {n1}
  Threads = {t1}
  TTL = 2
  MaxTime = 3
  MaxRestarts = 1
  MaxEvicted = 0
INVARIANT TokensAreSingleUse
