SPECIFICATION ASpec
CONSTANTS
  k1 = k1
  k2 = k2
  k3 = k3
  Creds = {k1, k2, k3}
  CreatedAt <- MCCreatedAt
  Profiles <- MCProfiles
  Now = 1
  Words = {"a", "b"}
  Absent = Absent
  Failed = Failed
  MaxPages = 2
  ModelIds = {"a", "b", "c"}
  GeminiReasons = {"STOP", "MAX_TOKENS", "SPII", "RECITATION", "OTHER"}
  UpperCase <- MCUpperCase
  Chats <- MCChats
  Natives <- MCNatives
  Answers <- MCAnswers
  Listings <- MCListings
INVARIANTS
  OrderIsDecided
  HealthBeforeStrategy
  FirstPickFollowsStrategy
  ConversationSurvives
  AnswerSurvives
  ListingIsWhole
PROPERTY ShiftYieldsBest
CHECK_DEADLOCK FALSE
