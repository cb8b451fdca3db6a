SPECIFICATION Spec
CONSTANTS
  Inits = {i1, i2}
  Runs = {r}
  Calls = {c1, c2}
  None = None
  Old = Old
  Empty = Empty
  Mixed = Mixed
CHECK_DEADLOCK FALSE
INVARIANTS
  TypeOK
  OthersCodeOnlyPasted
  StateFollowsSaves
PROPERTIES
  PortGivenBack
