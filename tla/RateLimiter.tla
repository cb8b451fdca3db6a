----------------------------- MODULE RateLimiter ------------------------------
(***************************************************************************)
(* loginRateLimiter (src/cmd/web/ratelimit.go): at most Max attempts per   *)
(* key in a sliding window, a sweep that removes what has expired, and a   *)
(* reset after a successful login.  Its mutex makes each operation one     *)
(* step; the clock is read inside the step.  Attempts are numbered from    *)
(* the last reset on, so that two at one instant remain two.               *)
(***************************************************************************)
EXTENDS Integers, FiniteSets

CONSTANTS
  Keys,     \* what is typed as user name
  Max,      \* attempts allowed in a window (10)
  Window,   \* its length (15 minutes), in units of the clock
  MaxTime   \* bound on the clock

ASSUME LimiterTypes == Max \in Nat \ {0} /\ Window \in Nat \ {0}
                       /\ MaxTime \in Nat

VARIABLES
  now,       \* the clock
  attempts,  \* the limiter's map, an absent key as no attempts
  log        \* ghost: all attempts allowed since the last reset

limiter == <<now, attempts, log>>

Nothing == [k \in Keys |-> {}]

Entries == [no : Nat, at : 0..MaxTime]

LimiterTypeOK ==
  /\ now \in 0..MaxTime
  /\ attempts \in [Keys -> SUBSET Entries]
  /\ log \in [Keys -> SUBSET Entries]

LimiterInit == now = 0 /\ attempts = Nothing /\ log = Nothing

InWindow(entries) == {e \in entries : e.at > now - Window}

\* entries that are After(cutoff).
Prune(entries) == {e \in entries : e.at > now - Window}

Tick == now < MaxTime /\ now' = now + 1 /\ UNCHANGED <<attempts, log>>

Admits(k) == Cardinality(Prune(attempts[k])) < Max

NewEntry(k) == [no |-> Cardinality(log[k]) + 1, at |-> now]

Allow(k) ==
  /\ IF Admits(k)
     THEN /\ attempts' = [attempts EXCEPT ![k] = Prune(@) \union {NewEntry(k)}]
          /\ log' = [log EXCEPT ![k] = @ \union {NewEntry(k)}]
     ELSE attempts' = [attempts EXCEPT ![k] = Prune(@)] /\ UNCHANGED log
  /\ UNCHANGED now

\* Seeded fault: a key with an expired entry is removed with all its entries.
Sweep_WholeKey ==
  /\ attempts' = [k \in Keys |-> IF Prune(attempts[k]) = attempts[k]
                                 THEN attempts[k] ELSE {}]
  /\ UNCHANGED <<now, log>>

\* The ticker of evict.
Sweep ==
  /\ attempts' = [k \in Keys |-> Prune(attempts[k])]
  /\ UNCHANGED <<now, log>>

Reset(k) ==
  /\ attempts' = [attempts EXCEPT ![k] = {}]
  /\ log' = [log EXCEPT ![k] = {}]
  /\ UNCHANGED now
===============================================================================
