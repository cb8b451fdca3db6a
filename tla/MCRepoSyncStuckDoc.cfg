SPECIFICATION Spec
CONSTANTS
  NumNames = 2
  MaxIds = 2
  MaxBusy = 1
  SlugOf <- DistinctSlugs
  Procs = {a}
INVARIANTS
  DiskDecides
