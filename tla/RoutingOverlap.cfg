SPECIFICATION FairSpec
CONSTANTS
  k1 = k1
  k2 = k2
  k3 = k3
  r1 = r1
  r2 = r2
  r3 = r3
  m1 = m1
  m2 = m2
  Creds = {k1, k2}
  Requests = {r1, r2, r3}
  Models = {m1}
  NoCred = NoCred
  CreatedAt <- MCCreatedAt
  Serves <- MCServes
  Inputs <- OverlapInputs
  Answers <- OverlapAnswers
  SettingsChoices <- OverlapSettings
  DayLength = 3
  ShortCooldown = 1
  MaxLag = 1
  Horizon = 2
INVARIANTS
  OverlappingRequestsSpread
PROPERTIES
  EveryRequestIsAnswered
  ImplementsContract
