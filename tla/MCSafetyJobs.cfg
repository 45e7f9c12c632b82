SPECIFICATION FairSpec
CONSTANTS
  JobIds = {j1, j2}
  Contents = {a}
  DueTimes = {0}
  Workers = {w1, w2}
  MaxAttempts = 2
  LeaseMs = 2
  RetryMs = 1
  Limit = 2
  ClockSkews = {0, 2}
INVARIANTS
  QueueIsSound
PROPERTIES
  SettledForGood
  EveryJobEnds
