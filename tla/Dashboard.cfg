SPECIFICATION DSpec
CONSTANTS
  MaxSids = 3
  Passwords = {pa, pb}
  None = None
  TTL = 2
  MaxNow = 3
  MaxPending = 2
  Secure = FALSE
  Choices = {ca, cb}
  Texts = {ta, tb}
  Pages = {0, 1}
  Unset = Unset
  MaxAsked = 5
  MaxRefreshes = 1
  Values = {va, vb}
  NoForm = NoForm
  Waiting = Waiting
  MaxSaves <- MCMaxSaves
  MaxForms = 2
  MaxLoads = 2
INVARIANTS
  SessionsSlide
  ViewsShowTheLatestAnswer
PROPERTIES
  EndedSessionsStayEnded
  SignedInStaysSignedIn
  SavesSpareOwnWork
  TypedIsKept
CHECK_DEADLOCK FALSE
