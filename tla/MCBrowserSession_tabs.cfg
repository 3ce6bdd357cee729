SPECIFICATION FairSpec
CONSTANTS
  c1 = c1  c2 = c2
  Duties <- Roles
  Nothing = Nothing
  Sessions = {s1, s2}
  Calls = {c1, c2}
  Tabs = {t1, t2}
  Mishaps = 1
INVARIANTS QueuedIsAwaited RevokedIsForgotten
PROPERTY RevokedPairIsReplaced
CHECK_DEADLOCK FALSE
