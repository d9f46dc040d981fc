SPECIFICATION Spec
CONSTANTS
  k1 = k1
  k2 = k2
  k3 = k3
  r1 = r1
  r2 = r2
  r3 = r3
  m1 = m1
  m2 = m2
  Creds = {k1, k2}
  Requests = {r1, r2}
  Models = {m1}
  NoCred = NoCred
  CreatedAt <- MCCreatedAt
  Serves <- MCServes
  Inputs <- MCInputs
  Answers <- MCAnswers
  SettingsChoices <- MCSettings
  DayLength = 3
  ShortCooldown = 1
  MaxLag = 0
  Horizon = 3
INVARIANT KeylessRequestsAreLogged
