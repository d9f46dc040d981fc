SPECIFICATION SessionSpec
CONSTANTS
  Passwords = {pa, pb}
  None = None
  TTL = 2
  MaxNow = 1
  MaxSids = 2
  MaxPending = 2
  Secure = TRUE
INVARIANT
  ChangesAreAccepted
CHECK_DEADLOCK FALSE
