SPECIFICATION ServerSpec
CONSTANTS
  None = None
  Fields <- MCFields
  Limits = {1, 2}
  Defaults <- MCDefaults
  OldBlob <- MCOldBlob
  MaxSeconds = 1
  MaxRequests = 2
INVARIANTS
  SchemaFollowsItsVersion
  StoredKeysStayReadable
  SettingsStayInForce
  RetentionKeepsTheNewest
PROPERTIES
  RequestsEndBeforeTheDatabaseCloses
  ShutdownEnds
CHECK_DEADLOCK FALSE
