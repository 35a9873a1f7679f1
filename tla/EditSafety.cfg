SPECIFICATION Spec
CONSTANTS
  Games = {g1, g2}
  Slugs = {x, y}
  Admins = {a1, a2}
  Clients = {c1}
  Bounds = {1, 3}
  Schemas <- MCSchemas
  NewForms <- MCNewForms
  Submissions <- MCSubmissions
  Inputs <- MCInputs
  MAX_LEN = 2
  Skew = 1
  MaxKeys = 2
  Keys = {"combo", "level", "other", "lengthy"}
  LongKeys = {"lengthy"}
  MaxPosts = 3
  MaxScores = 1
SYMMETRY Interchangeable
INVARIANTS IInv BoundsConsistent TokenReachesItsGame NamesIdentifyPlayers 
PROPERTIES PolicyDateAdvances SavesWhatWasAsked ImplementsPublishing
