SPECIFICATION Spec
CONSTANTS
  Root <- Checkout
  Calls <- SomeCalls
  Contents <- SomeContents
  MaxCalls = 2
  MaxIter = 2
CHECK_DEADLOCK FALSE
INVARIANTS
  TypeOK
  PlanModeReadOnly
  WritesAnnounced
  ConversationAnswered
  CompletionReportsAnswer
