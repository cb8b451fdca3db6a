------------------------- MODULE MCNotificationPages -------------------------
(* A TLC instance of NotificationPages.  A reader changes nothing another  *)
(* reader sees, so one reader in each of the three modes is enough.        *)
EXTENDS NotificationPages, TLC

CONSTANTS me, other

MyReaders == [r \in Readers |-> me]

Symmetry == Permutations(Repos)
=============================================================================
