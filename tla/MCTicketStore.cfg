SPECIFICATION OrderedSpec
CONSTANTS
  s1 = s1
  s2 = s2
  s3 = s3
  Users = {u1}
  Admins = {}
  Repos = {p1}
  Trackers = {k1}
  Seeds = {s1, s2, s3}
  Requests = {r1, r2}
  Kinds <- AllKinds
  None = None
INVARIANTS
  TypeOK
  HistoryKept
PROPERTIES
  TicketInLinkedTracker
  WritesUnderAccess
  NotifiedOncePerAssignment
  RequestsEnd
