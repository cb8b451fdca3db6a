SPECIFICATION Spec
CONSTANTS
  client = client
  Clients = {client}
  Grants = {g1}
  Requests = {r1, r2, r3}
  ClientOf <- OneClient
SYMMETRY RequestSymmetry
INVARIANTS
  TypeOK
  ClosedFamilyIsDead
  DisabledClientHasNoGrant
  OnePairPerFamily
  TokensConsumeCode
PROPERTIES
  NothingComesBack
CHECK_DEADLOCK FALSE
