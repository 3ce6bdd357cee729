SPECIFICATION Spec
CONSTANTS
  u1 = u1
  u2 = u2
  b1 = b1
  b2 = b2
  l1 = l1
  None = None
  Users = {u1, u2}
  Teams <- MCTeams
  MaxPresses = 2
  MaxLost = 1
  Batches = {b1, b2}
  Places <- MCPlaces
  Scanners = {u1, u2}
  MaxEdits = 1
  Increases = {r1, r2}
  Deciders = {u1, u2}
  StartLimit = 1
  MaxLimit = 3
  Sessions = {r1, r2, r3}
  Clerks = {u1, u2}
  NoSession = NoSession
CHECK_DEADLOCK FALSE
INVARIANTS RefusalsAreStale TwoPersonRule DuplicatesAreExplained FormsAreRead LimitWasGranted TogetherOnlyByRace
PROPERTIES FinishedStaysFinished DocumentsEnd ExpiredComesOffSale
