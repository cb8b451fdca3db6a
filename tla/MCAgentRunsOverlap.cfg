SPECIFICATION Spec
CONSTANTS
  NumTickets = 2
  Slots = {a, b}
  MaxTokens = 3
  Faults <- AnyFault
  Failing = {}
  Withdrawable = {1}
INVARIANTS
  TypeOK
  CompletedOnce
  CompletedWorkSurvives
