SPECIFICATION SessionSpec
CONSTANTS
  Passwords = {pa, pb}
  None = None
  TTL = 2
  MaxNow = 1
  MaxSids = 2
  MaxPending = 2
  Secure = FALSE
INVARIANT
  ExpiredMeansExpired
CHECK_DEADLOCK FALSE
