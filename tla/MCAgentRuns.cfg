SPECIFICATION Spec
CONSTANTS
  NumTickets = 3
  Slots = {a}
  MaxTokens = 3
  Faults <- SafeFaults
  Failing = {2}
  Withdrawable = {2}
INVARIANTS
  StateFileUsable
PROPERTIES
  ImplementsQueue
