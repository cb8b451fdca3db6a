SPECIFICATION Spec
CONSTANTS
  me = me
  other = other
  Users = {me, other}
  Repos = {p1, p2}
  Readers = {reader}
  UserOf <- MyReaders
  PageSize = 2
  MaxId = 4
SYMMETRY Symmetry
CHECK_DEADLOCK FALSE
INVARIANTS
  TypeOK
  WalkComplete
  PassedByOtherRepository
