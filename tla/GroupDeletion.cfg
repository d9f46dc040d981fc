SPECIFICATION AdminSpec
CONSTANTS
  c1 = c1
  c2 = c2
  m1 = m1
  m2 = m2
  g1 = g1
  g2 = g2
  k1 = k1
  a = a
  b = b
  Creds = {c1, c2}
  Models = {m1, m2}
  GroupIds = {g1, g2}
  Names = {a, b}
  ClientKeys = {k1}
  NoRow = NoRow
  NoPlan = NoPlan
  SelectChoices <- MCSelects
  TargetChoices <- MCTargets
  KeyModelChoices <- MCKeyModels
  KeyGroupChoices <- MCKeyGroups
INVARIANT DeletedGroupsTakeTheirAccess
SYMMETRY GroupSymmetry
CHECK_DEADLOCK FALSE
