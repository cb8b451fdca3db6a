----------------------------- MODULE WebSessions ------------------------------
(***************************************************************************)
(* Browsers, their sessions and the handlers behind them (login.go,        *)
(* user.go and main.go of src/cmd/web, store_user.go): requests of one     *)
(* session in flight together, logins, logouts, accounts that are deleted  *)
(* and created again under the same name, and restarts of the server,      *)
(* which keeps sessions and the rate limiter in memory only.               *)
(*                                                                         *)
(* The session manager is a library.  LoadAndSave copies the session of    *)
(* the cookie's token when a request begins and, because an idle timeout   *)
(* is set, writes the copy back under its token when the response begins,  *)
(* whatever happened to the session in between; a cookie with a token it   *)
(* does not know counts as none.  Tokens are random, here numbered.        *)
(***************************************************************************)
EXTENDS RateLimiter, CrossOrigin, FiniteSets

CONSTANTS
  Ids, Names,  \* account ids, never given out twice, and user names
  NameOf,      \* the name an account has or will have
  TrimSpace,   \* the name each typed key stands for
  Browsers, Slots,
  MaxToken,    \* bound: logins
  MaxTimed     \* bound: logins in a run in which the clock moves

ASSUME AccountTypes ==
  Ids \subseteq Nat \ {0} /\ NameOf \in [Ids -> Names]
  /\ TrimSpace \in [Keys -> Names]
ASSUME BoundTypes == MaxToken \in Nat /\ MaxTimed \in 0..MaxToken

Tokens == 1..MaxToken

VARIABLES
  accounts,  \* the users table
  created,   \* ids given out
  store,     \* user of each stored session, NoUser without one
  issued,    \* tokens given out
  jar,       \* token in each browser's cookie, 0 without one
  req,       \* the request each slot serves
  owner,     \* ghost: who logged in to get each token
  ended,     \* ghost: tokens ended by a logout, a login or a restart
  shared,    \* ghost: those another request in flight held a copy of then
  late       \* ghost: what was written in the name of a deleted account

db       == <<accounts, created>>
sessions == <<store, issued, jar>>
ghost    == <<owner, ended, shared, late>>
vars     == <<limiter, db, sessions, req, ghost>>

NoUser == 0
NoKey  == "none"

\* Kinds of handlers that need a session: "page" reads; "keyed" inserts a row
\* that refers to the user (a tracker, ticket, comment, assignee or consent);
\* "checked" writes one that does not, after CanAccessRepository or
\* IsUserAdmin (a tracker link, a member, the removal of an assignee);
\* "owned" updates rows that go with the account (notifications, grants).  The
\* origin check lets a "page" through and may turn any other into "refused".
Writes == {"keyed", "checked", "owned"}
Kinds  == Writes \union {"login", "logout", "page"}

Idle == [pc |-> "idle"]
Request ==
  [pc : {"allow", "verify", "reset", "renew", "destroy", "check", "write",
         "respond"},
   kind : Kinds \union {"refused"}, own : BOOLEAN, browser : Browsers,
   key : Keys \union {NoKey}, token : 0..MaxToken,
   user : Ids \union {NoUser}, id : Ids \union {NoUser},
   modified : BOOLEAN, stale : BOOLEAN]

TypeOK ==
  /\ LimiterTypeOK
  /\ accounts \subseteq created /\ created \subseteq Ids
  /\ store \in [Tokens -> Ids \union {NoUser}]
  /\ issued \in 0..MaxToken
  /\ jar \in [Browsers -> 0..issued]
  /\ req \in [Slots -> {Idle} \union Request]
  /\ owner \in [Tokens -> Ids \union {NoUser}]
  /\ ended \subseteq Tokens /\ shared \subseteq ended
  /\ late \subseteq Writes

Init ==
  /\ LimiterInit
  /\ accounts \in SUBSET Ids /\ created = accounts
  /\ \A i, j \in accounts : NameOf[i] = NameOf[j] => i = j
  /\ store = [t \in Tokens |-> NoUser] /\ issued = 0
  /\ jar = [b \in Browsers |-> 0]
  /\ req = [s \in Slots |-> Idle]
  /\ owner = [t \in Tokens |-> NoUser]
  /\ ended = {} /\ shared = {} /\ late = {}

-----------------------------------------------------------------------------
(* Accounts, time and the server process.                                  *)

\* CreateUser and DeleteUser of `ctl`.
CreateUser(i) ==
  /\ i \notin created /\ \A j \in accounts : NameOf[j] # NameOf[i]
  /\ accounts' = accounts \union {i} /\ created' = created \union {i}
  /\ UNCHANGED <<limiter, sessions, req, ghost>>

DeleteUser(i) ==
  /\ i \in accounts
  /\ accounts' = accounts \ {i}
  /\ UNCHANGED <<limiter, created, sessions, req, ghost>>

Clock ==
  /\ (issued <= MaxTimed /\ Tick) \/ Sweep
  /\ UNCHANGED <<db, sessions, req, ghost>>

\* A session passes its deadline or its idle timeout.
Expire(t) ==
  /\ store[t] # NoUser
  /\ store' = [store EXCEPT ![t] = NoUser]
  /\ UNCHANGED <<limiter, db, issued, jar, req, ghost>>

\* Seeded fault: tokens are numbered anew.
Restart_Renumbers ==
  /\ attempts' = Nothing /\ log' = Nothing
  /\ store' = [t \in Tokens |-> NoUser]
  /\ req' = [s \in Slots |-> Idle]
  /\ issued' = 0 /\ ended' = {} /\ shared' = {}
  /\ UNCHANGED <<now, db, jar, owner, late>>

\* Everything kept in memory is gone.
Restart ==
  /\ attempts' = Nothing /\ log' = Nothing
  /\ store' = [t \in Tokens |-> NoUser]
  /\ req' = [s \in Slots |-> Idle]
  /\ ended' = 1..issued /\ shared' = {}
  /\ UNCHANGED <<now, db, issued, jar, owner, late>>

-----------------------------------------------------------------------------
(* Requests.                                                               *)

\* Where each kind of handler begins.
First(kind) == CASE kind = "login"            -> "allow"
                 [] kind = "logout"           -> "destroy"
                 [] kind \in {"page", "refused"} -> "respond"
                 [] kind = "checked"          -> "check"
                 [] kind \in {"keyed", "owned"} -> "write"

\* LoadAndSave, OriginRefererCSRF and requireAuth: without a session only login
\* and logout are served.
Begin(s, b, kind, k, o) ==
  LET t == IF jar[b] # 0 /\ store[jar[b]] # NoUser THEN jar[b] ELSE 0
      done == IF o.passed THEN kind ELSE "refused"
  IN
  /\ req[s] = Idle
  /\ done \notin {"login", "logout", "refused"} => t # 0
  /\ req' = [req EXCEPT ![s] =
       [pc |-> First(done), kind |-> done, own |-> o.own, browser |-> b,
        key |-> k, token |-> t, user |-> IF t = 0 THEN NoUser ELSE store[t],
        id |-> NoUser, modified |-> t # 0,
        stale |-> t # 0 /\ store[t] \notin accounts]]
  /\ UNCHANGED <<limiter, db, sessions, ghost>>

\* The bounds on logins.
LoginsLeft == issued < IF now = 0 THEN MaxToken ELSE MaxTimed

At(s, pc) == req[s].pc = pc
To(s, pc) == req' = [req EXCEPT ![s].pc = pc]

\* A token ends; copies other requests hold can bring it back.
Ends(s, t) ==
  /\ ended' = ended \union ({t} \ {0})
  /\ shared' = shared \union
       {u \in {t} \ {0} : \E r \in Slots \ {s} : req[r] # Idle
                                                  /\ req[r].token = u}

\* The limiter, and 429 when it refuses.
Attempt(s) ==
  /\ At(s, "allow")
  /\ Allow(req[s].key)
  /\ To(s, IF Admits(req[s].key) THEN "verify" ELSE "respond")
  /\ UNCHANGED <<db, sessions, ghost>>

\* VerifyUser with the right password; anything else renders the form again.
VerifyUser(s) ==
  /\ At(s, "verify")
  /\ \/ \E i \in accounts :
          /\ NameOf[i] = TrimSpace[req[s].key]
          /\ req' = [req EXCEPT ![s] = [@ EXCEPT !.pc = "reset", !.id = i]]
     \/ To(s, "respond")
  /\ UNCHANGED <<limiter, db, sessions, ghost>>

ResetLimiter(s) ==
  /\ At(s, "reset")
  /\ Reset(req[s].key)
  /\ To(s, "renew")
  /\ UNCHANGED <<db, sessions, ghost>>

\* Seeded fault: login stores the user under the token the browser came with.
RenewToken_Keeps(s) ==
  LET t == IF req[s].token = 0 THEN issued + 1 ELSE req[s].token IN
  /\ At(s, "renew") /\ LoginsLeft
  /\ issued' = IF req[s].token = 0 THEN issued + 1 ELSE issued
  /\ owner' = IF req[s].token = 0 THEN [owner EXCEPT ![t] = req[s].id]
              ELSE owner
  /\ req' = [req EXCEPT ![s] = [@ EXCEPT !.pc = "respond", !.token = t,
                                         !.user = req[s].id, !.modified = TRUE]]
  /\ UNCHANGED <<limiter, db, store, jar, ended, shared, late>>

\* RenewToken and Put: the old token ends now, the new one is stored with the
\* response.
RenewToken(s) ==
  LET t == req[s].token IN
  /\ At(s, "renew") /\ LoginsLeft
  /\ issued' = issued + 1
  /\ store' = [u \in Tokens |-> IF u = t THEN NoUser ELSE store[u]]
  /\ owner' = [owner EXCEPT ![issued + 1] = req[s].id]
  /\ Ends(s, t)
  /\ req' = [req EXCEPT ![s] = [@ EXCEPT !.pc = "respond",
                                         !.token = issued + 1,
                                         !.user = req[s].id,
                                         !.modified = TRUE]]
  /\ UNCHANGED <<limiter, db, jar, late>>

\* Seeded fault: logout takes the cookie away and leaves the session.
Destroy_CookieOnly(s) ==
  /\ At(s, "destroy")
  /\ Ends(s, req[s].token)
  /\ req' = [req EXCEPT ![s] = [@ EXCEPT !.pc = "respond", !.token = 0,
                                         !.modified = FALSE]]
  /\ UNCHANGED <<limiter, db, sessions, owner, late>>

\* logout; without a session there is none to destroy, and the cookie goes.
Destroy(s) ==
  LET t == req[s].token IN
  /\ At(s, "destroy")
  /\ store' = [u \in Tokens |-> IF u = t THEN NoUser ELSE store[u]]
  /\ Ends(s, t)
  /\ req' = [req EXCEPT ![s] = [@ EXCEPT !.pc = "respond", !.token = 0,
                                         !.modified = FALSE]]
  /\ UNCHANGED <<limiter, db, issued, jar, owner, late>>

\* Seeded fault: the handler takes the session as sufficient.
CheckAccess_Session(s) ==
  /\ At(s, "check") /\ To(s, "write")
  /\ UNCHANGED <<limiter, db, sessions, ghost>>

\* CanAccessRepository or IsUserAdmin; neither holds of a deleted account.
CheckAccess(s) ==
  /\ At(s, "check")
  /\ \/ req[s].user \in accounts /\ To(s, "write")
     \/ To(s, "respond")
  /\ UNCHANGED <<limiter, db, sessions, ghost>>

\* Once the account is gone the foreign key refuses the row of a "keyed" write
\* and an "owned" one finds no row; a "checked" write relies on its check.
TakesEffect(s) == req[s].user \in accounts \/ req[s].kind = "checked"

Write(s) ==
  /\ At(s, "write")
  /\ late' = late \union {k \in {req[s].kind} : req[s].stale /\ TakesEffect(s)}
  /\ To(s, "respond")
  /\ UNCHANGED <<limiter, db, sessions, owner, ended, shared>>

\* The session is written back and the answer sent, with its cookie; it may
\* not arrive.
Respond(s) ==
  LET r == req[s] IN
  /\ At(s, "respond")
  /\ store' = [t \in Tokens |-> IF r.modified /\ t = r.token THEN r.user
                                ELSE store[t]]
  /\ jar' \in {jar, IF r.modified \/ r.kind = "logout"
                    THEN [jar EXCEPT ![r.browser] = r.token] ELSE jar}
  /\ req' = [req EXCEPT ![s] = Idle]
  /\ UNCHANGED <<limiter, db, issued, ghost>>

-----------------------------------------------------------------------------
Environment ==
  \/ Clock \/ Restart
  \/ \E i \in Ids : CreateUser(i) \/ DeleteUser(i)
  \/ \E t \in Tokens : Expire(t)

Serve(s) ==
  \/ Attempt(s) \/ VerifyUser(s) \/ ResetLimiter(s) \/ RenewToken(s)
  \/ Destroy(s) \/ CheckAccess(s) \/ Write(s) \/ Respond(s)

Next ==
  \/ Environment
  \/ \E s \in Slots : Serve(s)
  \/ \E s \in Slots, b \in Browsers :
       \/ \E k \in Keys, o \in Outcomes : Begin(s, b, "login", k, o)
       \/ \E kind \in Kinds \ {"login", "page"}, o \in Outcomes :
            Begin(s, b, kind, NoKey, o)
       \/ Begin(s, b, "page", NoKey, [own |-> TRUE, passed |-> TRUE])

Spec == Init /\ [][Next]_vars

-----------------------------------------------------------------------------
(* Properties.                                                             *)

\* A session belongs to one account from the login that made it to its end:
\* logging in again, in this or another tab, never turns a token that is in
\* use into one of another account (login.go:57-64).
TokenKeepsUser ==
  \A t \in Tokens : store[t] # NoUser => store[t] = owner[t]

\* A session that a logout, a new login or a restart has ended is not there
\* again, unless another request held a copy of it at that moment: the idle
\* timeout makes every request write its session back (login.go:95,
\* main.go:90).
EndedStaysEnded == \A t \in ended \ shared : store[t] = NoUser

\* Nothing is written in the name of an account by a request that begins
\* after the account was deleted, although requireAuth looks at the session
\* only (login.go:99-111).
DeletedAccountWritesNothing == late = {}

\* Within the window the pruned entries of a name, as it was typed, are exactly
\* the attempts allowed since the last reset, and never more than Max, however
\* sweeps, resets and logins interleave (ratelimit.go:47-98).
WindowKept ==
  \A k \in Keys : /\ InWindow(attempts[k]) = InWindow(log[k])
                  /\ Cardinality(InWindow(log[k])) <= Max

\* A form of a foreign page never reaches a handler that relies on the session,
\* and one of the server's own pages is never refused, however the proxies on
\* the way spell the host and whether they write out its port, except where an
\* IPv6 address is misread (cross-site-request-forgery.go:60-105, :120-175).
OnlyOwnPagesPass ==
  \A s \in Slots : req[s] # Idle => (req[s].own <=> req[s].kind # "refused")
===============================================================================
