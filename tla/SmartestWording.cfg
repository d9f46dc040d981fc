SPECIFICATION Spec
CONSTANTS
  k1 = k1
  k2 = k2
  k3 = k3
  Creds = {k1, k2, k3}
  CreatedAt <- MCCreatedAt
  Profiles <- MCErrorProfiles
  Now = 1
INVARIANT
  SmartestHasFewestErrors
CHECK_DEADLOCK FALSE
