---------------------------- MODULE MCWebSessions -----------------------------
EXTENDS WebSessions, TLC

\* Account 2 gets the name of account 1 once that is deleted.
Owners == <<"alice", "alice">>
Typed  == [k \in {"alice"} |-> k]

\* A site with two spellings, another one, and the address of the first.
Spellings == [n \in {"site", "SITE", "other", "v6"} |-> IF n = "SITE" THEN "site" ELSE n]

Symmetry == Permutations(Slots)
===============================================================================
