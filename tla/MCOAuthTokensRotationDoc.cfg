SPECIFICATION Spec
CONSTANTS
  client = client
  Clients = {client}
  Grants = {g1}
  Requests = {r1, r2, r3}
  ClientOf <- OneClient
SYMMETRY RequestSymmetry
INVARIANTS
  RotationReplacesTheToken
CHECK_DEADLOCK FALSE
