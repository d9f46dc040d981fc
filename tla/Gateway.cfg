SPECIFICATION Spec
CONSTANTS
  c1 = c1
  c2 = c2
  m1 = m1
  g1 = g1
  k1 = k1
  a = a
  Creds = {c1, c2}
  Models = {m1}
  GroupIds = {g1}
  Names = {a}
  ClientKeys = {k1}
  NoRow = NoRow
  NoPlan = NoPlan
  Provider <- MCProvider
  SelectChoices <- MCSelects
  TargetChoices <- MCTargets
  KeyModelChoices <- MCKeyModels
  KeyGroupChoices <- MCKeyGroups
  Limits = {0, 1, 2}
  Window = 2
  Horizon = 4
  MaxCalls = 4
  MaxRestarts = 1
INVARIANTS
  LessThanTwiceTheLimit
  RefusedOnlyAtTheLimit
  CallsStayInScope
  CountTokensMatchesGeneration
CHECK_DEADLOCK FALSE
