SPECIFICATION Spec
CONSTANTS
  Keys = {"alice"}
  Names = {"alice"}
  Ids = {1, 2}
  NameOf <- Owners
  TrimSpace <- Typed
  Browsers = {b1}
  Slots = {s1, s2}
  MaxToken = 2
  MaxTimed = 1
  Max = 2
  Window = 2
  MaxTime = 3
  HostNames = {"site", "SITE", "other", "v6"}
  ToLower <- Spellings
  Literals = {"v6"}
  Unset = Unset
  Null = Null
SYMMETRY Symmetry
CHECK_DEADLOCK FALSE
INVARIANTS
  TypeOK
  TokenKeepsUser
  EndedStaysEnded
  DeletedAccountWritesNothing
  WindowKept
  OnlyOwnPagesPass
