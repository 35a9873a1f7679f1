SPECIFICATION Spec
CONSTANTS
  Games = {g1, g2}
  Nonces = {n1}
  Threads = {t1, t2}
  TTL = 2
  MaxTime = 4
  MaxRestarts = 1
  MaxEvicted = 1
SYMMETRY ThreadSymmetry
INVARIANTS IInv SingleUse BoundToGame TokenLifetime LiveUntilUsed AcceptedIsStored NoEarlyBump
