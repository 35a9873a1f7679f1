SPECIFICATION Spec
CONSTANTS
  Games = {g1, g2}
  Slugs = {x, y}
  Admins = {a1}
  Clients = {c1}
  Bounds = {1, 3}
  Schemas <- MCSchemas
  NewForms <- MCNewForms
  Submissions <- MCSubmissions
  Inputs <- MCExceptions
  MAX_LEN = 2
  Skew = 1
  MaxKeys = 2
  Keys = {"combo", "level", "other", "lengthy"}
  LongKeys = {"lengthy"}
  MaxPosts = 4
  MaxScores = 1
INVARIANT SomeStatementHolds
