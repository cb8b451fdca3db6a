SPECIFICATION Spec
CONSTANTS
  NumNames = 3
  MaxIds = 2
  MaxBusy = 1
  SlugOf <- CollidingSlugs
  Procs = {a, b}
SYMMETRY Symmetry
INVARIANTS
  TypeOK
  NoGhostRepository
  RowFollowsMarker
  SecondResyncHeals
  OneScanAtATime
