SPECIFICATION Spec
CONSTANTS
  NumTickets = 2
  Slots = {a}
  MaxTokens = 3
  Faults <- ProfileFault
  Failing = {}
  Withdrawable = {}
INVARIANTS
  StateFileUsable
