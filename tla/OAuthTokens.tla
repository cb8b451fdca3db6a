----------------------------- MODULE OAuthTokens -----------------------------
(***************************************************************************)
(* The OAuth token store of src/internal/common/oauth.go under concurrent  *)
(* HTTP requests.                                                          *)
(*                                                                         *)
(* The fosite provider calls the store one method at a time and the store  *)
(* does not offer it a transaction that spans calls, so every method is a  *)
(* step of its own and the steps of different requests interleave.         *)
(*                                                                         *)
(* One consent submission creates one grant, one authorization code, one   *)
(* PKCE session and one token family, all with the same request id, so a   *)
(* member of Grants names the four of them.  A token request creates at    *)
(* most one access and one refresh token, so a member of Requests names    *)
(* the handler and the two tokens it issues.                               *)
(*                                                                         *)
(* Revoking a grant and disabling a client are transactions at READ        *)
(* COMMITTED: each statement picks the rows it sees when it starts, and    *)
(* all changes become visible together at the commit.                      *)
(***************************************************************************)
EXTENDS Naturals, FiniteSets

CONSTANTS
  Clients,    \* registered OAuth applications
  Grants,     \* consent submissions
  Requests,   \* calls of /oauth/token and /oauth/revoke
  ClientOf    \* the client each consent is given to

ASSUME ClientOfType == ClientOf \in [Grants -> Clients]

VARIABLES
  enabled,    \* oauth_client.enabled
  grant,      \* oauth_consent_grant rows
  code,       \* oauth_authorization_code rows
  pkce,       \* the grants with an oauth_pkce_request row
  access,     \* oauth_access_token rows, by the request that created them
  refresh,    \* oauth_refresh_token rows, by the request that created them
  authPc,     \* progress of the POST /oauth/authorize handler of each consent
  pc,         \* progress of each token request
  family,     \* the grant a token request is about, fixed by its input
  parent,     \* the refresh token a request presents, named by its creator
  txStage,    \* next statement of the open revocation transaction
  txTarget,   \* the grants the transaction is about
  txGrants, txCodes, txAccess, txRefresh,   \* the rows it has picked so far
  closed,     \* ghost: families some revocation has closed
  raced,      \* ghost: families a handler was issuing for while one did
  forked      \* ghost: families two handlers were issuing for at once

rows  == <<grant, code, pkce, access, refresh>>
reqs  == <<pc, family, parent>>
tx    == <<txStage, txTarget, txGrants, txCodes, txAccess, txRefresh>>
ghost == <<closed, raced, forked>>
vars  == <<enabled, rows, authPc, reqs, tx, ghost>>

AuthSteps == {"idle", "upsert", "code", "pkce", "done", "failed"}

\* Past the last check of its input: whatever is revoked from here on, the
\* handler will insert its tokens.
IssuingSteps == {"invalidate", "rotate", "createAccess", "createRefresh"}

RevokingSteps ==
  {"delete", "refreshFirst", "accessLast", "accessFirst", "refreshLast"}

ReqSteps == IssuingSteps \union RevokingSteps \union
  {"idle", "getCode", "getPkce", "delPkce", "getCode2",
   "getRefresh", "rotateRead", "getToken", "delivered", "over"}

TxStages == {"none", "grantRefresh", "grantCodes",
             "clientCodes", "clientAccess", "clientRefresh"}

TypeOK ==
  /\ enabled \in [Clients -> BOOLEAN]
  /\ grant \in [Grants -> {"absent", "active", "revoked"}]
  /\ code \in [Grants -> {"absent", "active", "inactive"}]
  /\ pkce \in SUBSET Grants
  /\ access \in [Requests -> {"absent", "live", "revoked"}]
  /\ refresh \in [Requests -> {"absent", "active", "used", "revoked"}]
  /\ authPc \in [Grants -> AuthSteps]
  /\ pc \in [Requests -> ReqSteps]
  /\ family \in [Requests -> Grants]
  /\ parent \in [Requests -> Requests]
  /\ txStage \in TxStages
  /\ {txTarget, txGrants, txCodes} \subseteq SUBSET Grants
  /\ {txAccess, txRefresh} \subseteq SUBSET Requests
  /\ {closed, raced, forked} \subseteq SUBSET Grants

-----------------------------------------------------------------------------
(* Helpers.                                                                *)

Members(g) == {r \in Requests : family[r] = g}

AccessRows(S)  == {r \in Requests : access[r] # "absent" /\ family[r] \in S}
RefreshRows(S) == {r \in Requests : refresh[r] # "absent" /\ family[r] \in S}

IssuingFor(g) == {r \in Members(g) : pc[r] \in IssuingSteps}

\* A revocation of g has picked some rows and not yet finished.
ClosingNow(g) ==
  \/ txStage # "none" /\ g \in txTarget
  \/ \E r \in Members(g) : pc[r] \in {"accessLast", "refreshLast"}

Goto(r, from, to) == pc[r] = from /\ pc' = [pc EXCEPT ![r] = to]

RevokedAccess(S) ==
  [r \in Requests |-> IF r \in S THEN "revoked" ELSE access[r]]

\* Seeded fault: the row takes the word an authorization code uses.
RevokedRefresh_Miswritten(S) ==
  [r \in Requests |-> IF r \in S THEN "inactive" ELSE refresh[r]]

RevokedRefresh(S) ==
  [r \in Requests |-> IF r \in S THEN "revoked" ELSE refresh[r]]

\* Ghost: a handler that is past its checks now has raced the revocation.
NoteRace(S) ==
  raced' = raced \union {g \in S : \/ IssuingFor(g) # {}
                                   \/ authPc[g] \in {"upsert", "code"}}

\* Ghost: a row is inserted while a revocation is picking its rows.
NoteInsert(g) == raced' = raced \union {h \in {g} : ClosingNow(h)}

\* Ghost: r enters the issuing steps while another handler is in them.
NoteFork(r) ==
  forked' = forked \union {g \in {family[r]} : IssuingFor(g) \ {r} # {}}

Init ==
  /\ enabled = [c \in Clients |-> TRUE]
  /\ grant = [g \in Grants |-> "absent"]
  /\ code = [g \in Grants |-> "absent"]
  /\ pkce = {}
  /\ access = [r \in Requests |-> "absent"]
  /\ refresh = [r \in Requests |-> "absent"]
  /\ authPc = [g \in Grants |-> "idle"]
  /\ pc = [r \in Requests |-> "idle"]
  /\ family \in [Requests -> Grants]
  /\ parent = [r \in Requests |-> r]
  /\ txStage = "none"
  /\ txTarget = {} /\ txGrants = {} /\ txCodes = {}
  /\ txAccess = {} /\ txRefresh = {}
  /\ closed = {} /\ raced = {} /\ forked = {}

-----------------------------------------------------------------------------
(* POST /oauth/authorize, once per consent.  NewAuthorizeRequest reads the *)
(* client, the handler inserts the grant, NewAuthorizeResponse stores the  *)
(* code and then the PKCE session.                                         *)

AuthorizeStart(g) ==
  /\ authPc[g] = "idle"
  /\ enabled[ClientOf[g]]
  /\ authPc' = [authPc EXCEPT ![g] = "upsert"]
  /\ UNCHANGED <<enabled, rows, reqs, tx, ghost>>

UpsertGrant(g) ==
  /\ authPc[g] = "upsert"
  /\ grant' = [grant EXCEPT ![g] = "active"]
  /\ authPc' = [authPc EXCEPT ![g] = "code"]
  /\ NoteInsert(g)
  /\ UNCHANGED <<enabled, code, pkce, access, refresh, reqs, tx, closed, forked>>

CreateAuthorizeCode(g) ==
  /\ authPc[g] = "code"
  /\ code' = [code EXCEPT ![g] = "active"]
  /\ authPc' = [authPc EXCEPT ![g] = "pkce"]
  /\ NoteInsert(g)
  /\ UNCHANGED <<enabled, grant, pkce, access, refresh, reqs, tx, closed, forked>>

CreatePKCE(g) ==
  /\ authPc[g] = "pkce"
  /\ pkce' = pkce \union {g}
  /\ authPc' = [authPc EXCEPT ![g] = "done"]
  /\ UNCHANGED <<enabled, grant, code, access, refresh, reqs, tx, ghost>>

\* The process stops or the statement fails: what is stored stays stored.
AuthorizeAbort(g) ==
  /\ authPc[g] \in {"upsert", "code", "pkce"}
  /\ authPc' = [authPc EXCEPT ![g] = "failed"]
  /\ UNCHANGED <<enabled, rows, reqs, tx, ghost>>

-----------------------------------------------------------------------------
(* POST /oauth/token, grant_type=authorization_code.                       *)

BeginExchange(r) ==
  /\ authPc[family[r]] = "done"
  /\ enabled[ClientOf[family[r]]]
  /\ Goto(r, "idle", "getCode")
  /\ UNCHANGED <<enabled, rows, authPc, family, parent, tx, ghost>>

\* A code already redeemed or revoked makes fosite revoke the request's
\* access tokens and then its refresh tokens.
GetAuthorizeCode(r) ==
  /\ \/ code[family[r]] = "active" /\ Goto(r, "getCode", "getPkce")
     \/ code[family[r]] = "inactive" /\ Goto(r, "getCode", "accessFirst")
  /\ UNCHANGED <<enabled, rows, authPc, family, parent, tx, ghost>>

GetPKCE(r) ==
  /\ \/ family[r] \in pkce /\ Goto(r, "getPkce", "delPkce")
     \/ family[r] \notin pkce /\ Goto(r, "getPkce", "over")
  /\ UNCHANGED <<enabled, rows, authPc, family, parent, tx, ghost>>

\* The session is deleted before the verifier is compared, so a request with
\* the wrong verifier uses it up as well.
DeletePKCE(r) ==
  /\ Goto(r, "delPkce", "getCode2") \/ Goto(r, "delPkce", "over")
  /\ pkce' = pkce \ {family[r]}
  /\ UNCHANGED <<enabled, grant, code, access, refresh, authPc, family, parent,
                 tx, ghost>>

GetAuthorizeCodeAgain(r) ==
  /\ \/ /\ code[family[r]] = "active"
        /\ Goto(r, "getCode2", "invalidate")
        /\ NoteFork(r)
     \/ /\ code[family[r]] = "inactive"
        /\ Goto(r, "getCode2", "over")
        /\ UNCHANGED forked
  /\ UNCHANGED <<enabled, rows, authPc, family, parent, tx, closed, raced>>

\* Seeded fault: the code is left active for a retry of the exchange.
InvalidateAuthorizeCode_Lost(r) ==
  /\ Goto(r, "invalidate", "createAccess")
  /\ UNCHANGED <<enabled, rows, authPc, family, parent, tx, ghost>>

InvalidateAuthorizeCode(r) ==
  /\ Goto(r, "invalidate", "createAccess")
  /\ code' = [code EXCEPT ![family[r]] = "inactive"]
  /\ UNCHANGED <<enabled, grant, pkce, access, refresh, authPc, family, parent,
                 tx, ghost>>

CreateAccessToken(r) ==
  /\ Goto(r, "createAccess", "createRefresh")
  /\ access' = [access EXCEPT ![r] = "live"]
  /\ NoteInsert(family[r])
  /\ UNCHANGED <<enabled, grant, code, pkce, refresh, authPc, family, parent, tx,
                 closed, forked>>

CreateRefreshToken(r) ==
  /\ Goto(r, "createRefresh", "delivered")
  /\ refresh' = [refresh EXCEPT ![r] = "active"]
  /\ NoteInsert(family[r])
  /\ UNCHANGED <<enabled, grant, code, pkce, access, authPc, family, parent, tx,
                 closed, forked>>

-----------------------------------------------------------------------------
(* POST /oauth/token, grant_type=refresh_token.                            *)

BeginRefresh(r, p) ==
  /\ pc[p] = "delivered" /\ family[p] = family[r]
  /\ enabled[ClientOf[family[r]]]
  /\ Goto(r, "idle", "getRefresh")
  /\ parent' = [parent EXCEPT ![r] = p]
  /\ UNCHANGED <<enabled, rows, authPc, family, tx, ghost>>

\* Presenting a token that is used or revoked is reuse: fosite deletes the
\* token and revokes the family's refresh and then its access tokens.
GetRefreshToken(r) ==
  /\ \/ refresh[parent[r]] = "active" /\ Goto(r, "getRefresh", "rotateRead")
     \/ refresh[parent[r]] # "active" /\ Goto(r, "getRefresh", "delete")
  /\ UNCHANGED <<enabled, rows, authPc, family, parent, tx, ghost>>

\* RotateRefreshToken reads the row without locking it.  For an inactive
\* token it updates the family and returns ErrInactiveToken, which makes
\* withTx roll the updates back.
RotateRead(r) ==
  /\ \/ /\ refresh[parent[r]] = "active"
        /\ Goto(r, "rotateRead", "rotate")
        /\ NoteFork(r)
     \/ /\ refresh[parent[r]] # "active"
        /\ Goto(r, "rotateRead", "over")
        /\ UNCHANGED forked
  /\ UNCHANGED <<enabled, rows, authPc, family, parent, tx, closed, raced>>

\* Seeded fault: rotation forgets the access token issued before.
RotateCommit_KeepsAccess(r) ==
  /\ Goto(r, "rotate", "createAccess")
  /\ refresh' = [refresh EXCEPT ![parent[r]] =
                    IF @ = "revoked" THEN @ ELSE "used"]
  /\ UNCHANGED <<enabled, grant, code, pkce, access, authPc, family, parent, tx,
                 ghost>>

RotateCommit(r) ==
  /\ Goto(r, "rotate", "createAccess")
  /\ refresh' = [refresh EXCEPT ![parent[r]] =
                    IF @ = "revoked" THEN @ ELSE "used"]
  /\ access' = RevokedAccess(AccessRows({family[r]}))
  /\ UNCHANGED <<enabled, grant, code, pkce, authPc, family, parent, tx, ghost>>

-----------------------------------------------------------------------------
(* The revoking statements: reuse of a refresh token, reuse of a code, and *)
(* POST /oauth/revoke.                                                     *)

\* The revocation endpoint looks the token up first; a token that is no
\* longer live is answered with success and changes nothing.
BeginRevoke(r, p) ==
  /\ pc[p] = "delivered" /\ family[p] = family[r]
  /\ enabled[ClientOf[family[r]]]
  /\ Goto(r, "idle", "getToken")
  /\ parent' = [parent EXCEPT ![r] = p]
  /\ UNCHANGED <<enabled, rows, authPc, family, tx, ghost>>

GetRevokedToken(r) ==
  /\ \E live \in {access[parent[r]] = "live", refresh[parent[r]] = "active"} :
        IF live THEN Goto(r, "getToken", "refreshFirst")
                ELSE Goto(r, "getToken", "over")
  /\ UNCHANGED <<enabled, rows, authPc, family, parent, tx, ghost>>

DeleteRefreshToken(r) ==
  /\ Goto(r, "delete", "refreshFirst")
  /\ refresh' = RevokedRefresh({parent[r]})
  /\ UNCHANGED <<enabled, grant, code, pkce, access, authPc, family, parent, tx,
                 ghost>>

Close(r) == closed' = closed \union {family[r]}

RevokeRefreshToken(r) ==
  /\ \/ Goto(r, "refreshFirst", "accessLast") /\ UNCHANGED closed
     \/ Goto(r, "refreshLast", "over") /\ Close(r)
  /\ refresh' = RevokedRefresh(RefreshRows({family[r]}))
  /\ NoteRace({family[r]})
  /\ UNCHANGED <<enabled, grant, code, pkce, access, authPc, family, parent, tx,
                 forked>>

RevokeAccessToken(r) ==
  /\ \/ Goto(r, "accessFirst", "refreshLast") /\ UNCHANGED closed
     \/ Goto(r, "accessLast", "over") /\ Close(r)
  /\ access' = RevokedAccess(AccessRows({family[r]}))
  /\ NoteRace({family[r]})
  /\ UNCHANGED <<enabled, grant, code, pkce, refresh, authPc, family, parent, tx,
                 forked>>

\* The server stops, the client hangs up, or a statement fails.
Abort(r) ==
  /\ pc[r] \notin {"idle", "delivered", "over"}
  /\ pc' = [pc EXCEPT ![r] = "over"]
  /\ UNCHANGED <<enabled, rows, authPc, family, parent, tx, ghost>>

-----------------------------------------------------------------------------
(* Revocation transactions.  The rows of a grant, and the row of a client, *)
(* are locked by the first UPDATE, so two transactions about the same      *)
(* grant run one after the other; the model has one open at a time.        *)

NoTx == txStage' = "none" /\ txTarget' = {} /\ txGrants' = {} /\ txCodes' = {}
                          /\ txAccess' = {} /\ txRefresh' = {}

\* UPDATE oauth_consent_grant, UPDATE oauth_access_token.
RevokeGrantBegin(g) ==
  /\ txStage = "none" /\ grant[g] # "absent"
  /\ txStage' = "grantRefresh"
  /\ txTarget' = {g} /\ txGrants' = {g}
  /\ txAccess' = AccessRows({g})
  /\ UNCHANGED <<txCodes, txRefresh, enabled, rows, authPc, reqs, ghost>>

\* Seeded fault: the UPDATE of the refresh tokens is missing.
RevokeGrantRefresh_Skipped ==
  /\ txStage = "grantRefresh"
  /\ txStage' = "grantCodes"
  /\ UNCHANGED <<txTarget, txGrants, txCodes, txAccess, txRefresh, enabled, rows,
                 authPc, reqs, ghost>>

RevokeGrantRefresh ==
  /\ txStage = "grantRefresh"
  /\ txStage' = "grantCodes"
  /\ txRefresh' = RefreshRows(txTarget)
  /\ UNCHANGED <<txTarget, txGrants, txCodes, txAccess, enabled, rows, authPc,
                 reqs, ghost>>

CodeRows(S) == {g \in S : code[g] # "absent"}

\* What a committed transaction makes visible, for the rows it picked.
Apply(codes, refreshes) ==
  /\ grant' = [g \in Grants |-> IF g \in txGrants THEN "revoked" ELSE grant[g]]
  /\ code' = [g \in Grants |-> IF g \in codes THEN "inactive" ELSE code[g]]
  /\ access' = RevokedAccess(txAccess)
  /\ refresh' = RevokedRefresh(refreshes)
  /\ closed' = closed \union txGrants
  /\ NoteRace(txTarget)
  /\ NoTx
  /\ UNCHANGED <<pkce, authPc, reqs, forked>>

\* UPDATE oauth_authorization_code, COMMIT.
RevokeGrantCommit ==
  /\ txStage = "grantCodes"
  /\ Apply(CodeRows(txTarget), txRefresh)
  /\ UNCHANGED enabled

\* Seeded fault: the UPDATE of the consent grants is missing.
DisableBegin_KeepsGrants(c) ==
  /\ txStage = "none"
  /\ txStage' = "clientCodes"
  /\ txTarget' = {g \in Grants : ClientOf[g] = c}
  /\ txTarget' # {}
  /\ UNCHANGED <<txGrants, txCodes, txAccess, txRefresh, enabled, rows, authPc,
                 reqs, ghost>>

\* UPDATE oauth_client, UPDATE oauth_consent_grant.
DisableBegin(c) ==
  /\ txStage = "none"
  /\ txStage' = "clientCodes"
  /\ txTarget' = {g \in Grants : ClientOf[g] = c}
  /\ txTarget' # {}
  /\ txGrants' = {g \in txTarget' : grant[g] # "absent"}
  /\ UNCHANGED <<txCodes, txAccess, txRefresh, enabled, rows, authPc, reqs, ghost>>

DisableCodes ==
  /\ txStage = "clientCodes"
  /\ txStage' = "clientAccess"
  /\ txCodes' = CodeRows(txTarget)
  /\ UNCHANGED <<txTarget, txGrants, txAccess, txRefresh, enabled, rows, authPc,
                 reqs, ghost>>

DisableAccess ==
  /\ txStage = "clientAccess"
  /\ txStage' = "clientRefresh"
  /\ txAccess' = AccessRows(txTarget)
  /\ UNCHANGED <<txTarget, txGrants, txCodes, txRefresh, enabled, rows, authPc,
                 reqs, ghost>>

\* UPDATE oauth_refresh_token, COMMIT.
DisableCommit ==
  /\ txStage = "clientRefresh"
  /\ Apply(txCodes, RefreshRows(txTarget))
  /\ enabled' = [c \in Clients |->
                   enabled[c] /\ \A g \in txTarget : ClientOf[g] # c]

\* A statement fails or the process stops: nothing of it is visible.
Rollback ==
  /\ txStage # "none"
  /\ NoTx
  /\ UNCHANGED <<enabled, rows, authPc, reqs, ghost>>

\* Seeded fault: enabling a client gives it back the grants it had.
EnableClient_Restores(c) ==
  /\ txStage = "none"
  /\ enabled' = [enabled EXCEPT ![c] = TRUE]
  /\ grant' = [g \in Grants |->
                 IF ClientOf[g] = c /\ grant[g] = "revoked" THEN "active"
                 ELSE grant[g]]
  /\ UNCHANGED <<code, pkce, access, refresh, authPc, reqs, tx, ghost>>

\* Enabling only sets the flag; it waits for a disable to release the row.
EnableClient(c) ==
  /\ txStage = "none"
  /\ enabled' = [enabled EXCEPT ![c] = TRUE]
  /\ UNCHANGED <<rows, authPc, reqs, tx, ghost>>

-----------------------------------------------------------------------------
Authorize(g) ==
  \/ AuthorizeStart(g) \/ UpsertGrant(g) \/ CreateAuthorizeCode(g)
  \/ CreatePKCE(g) \/ AuthorizeAbort(g)

Exchange(r) ==
  \/ BeginExchange(r) \/ GetAuthorizeCode(r) \/ GetPKCE(r) \/ DeletePKCE(r)
  \/ GetAuthorizeCodeAgain(r) \/ InvalidateAuthorizeCode(r)
  \/ CreateAccessToken(r) \/ CreateRefreshToken(r)

Refreshing(r) ==
  \/ \E p \in Requests : BeginRefresh(r, p)
  \/ GetRefreshToken(r) \/ RotateRead(r) \/ RotateCommit(r)

Revoking(r) ==
  \/ \E p \in Requests : BeginRevoke(r, p)
  \/ GetRevokedToken(r) \/ DeleteRefreshToken(r)
  \/ RevokeRefreshToken(r) \/ RevokeAccessToken(r)

Administer ==
  \/ \E g \in Grants : RevokeGrantBegin(g)
  \/ RevokeGrantRefresh \/ RevokeGrantCommit
  \/ \E c \in Clients : DisableBegin(c) \/ EnableClient(c)
  \/ DisableCodes \/ DisableAccess \/ DisableCommit
  \/ Rollback

Next ==
  \/ \E g \in Grants : Authorize(g)
  \/ \E r \in Requests : Exchange(r) \/ Refreshing(r) \/ Revoking(r) \/ Abort(r)
  \/ Administer

Spec == Init /\ [][Next]_vars

-----------------------------------------------------------------------------
(* Properties.                                                             *)

\* No token of the family works any more.
Dead(g) == \A r \in Members(g) : access[r] # "live" /\ refresh[r] # "active"

\* Once a revocation of a family has finished - RevokeOAuthConsentGrant, the
\* disable branch of SetOAuthClientEnabled, reuse handling or /oauth/revoke -
\* neither its tokens nor its code work again, whatever is presented later,
\* unless a handler was past its checks while the revocation ran.
ClosedFamilyIsDead ==
  \A g \in closed \ raced : Dead(g) /\ code[g] # "active"

\* A disabled client has no active grant, unless a consent submission was
\* under way while SetOAuthClientEnabled ran (oauth.go:541-577).
DisabledClientHasNoGrant ==
  \A g \in Grants \ raced : ~enabled[ClientOf[g]] => grant[g] # "active"

\* Rotation keeps one token pair per family: as long as two handlers are not
\* issuing for the family at once, it has at most one active refresh token
\* and at most one live access token (oauth.go:1169-1229).
OnePairPerFamily ==
  \A g \in Grants \ forked : \A r, s \in Members(g) :
    /\ refresh[r] = "active" /\ refresh[s] = "active" => r = s
    /\ access[r] = "live" /\ access[s] = "live" => r = s

\* A family that has any token row has consumed its code, so a crash between
\* the statements of the exchange never leaves both usable.
TokensConsumeCode ==
  \A r \in Requests : access[r] # "absent" \/ refresh[r] # "absent" =>
    code[family[r]] = "inactive"

StaysWithdrawn ==
  /\ \A g \in Grants : /\ grant[g] = "revoked" => grant'[g] = "revoked"
                       /\ code[g] = "inactive" => code'[g] = "inactive"
  /\ \A r \in Requests :
       /\ access[r] = "revoked" => access'[r] = "revoked"
       /\ refresh[r] = "revoked" => refresh'[r] = "revoked"
       /\ refresh[r] = "used" => refresh'[r] # "active"

\* Nothing that was withdrawn works again: enabling a client, rotating a
\* token or redeeming a code late brings no revoked row back.
NothingComesBack == [][StaysWithdrawn]_vars

\* doc/spec/web.md:78: "refresh token rotation on use": one refresh token is
\* used for one new one, and a second use of it is not answered with another.
RotationReplacesTheToken ==
  \A r, s \in Requests :
       /\ refresh[r] # "absent" /\ refresh[s] # "absent"
       /\ parent[r] = parent[s] /\ parent[r] \notin {r, s}
    => r = s

-----------------------------------------------------------------------------
(* The inductive invariant behind the properties above.                    *)

\* A handler owns the rows it will create: none exists before its INSERT.
RowsInOrder ==
  /\ \A g \in Grants :
       /\ authPc[g] \in {"idle", "upsert"} => grant[g] = "absent"
       /\ authPc[g] \in {"idle", "upsert", "code"} => code[g] = "absent"
  /\ \A r \in Requests :
       /\ pc[r] \notin {"createRefresh", "delivered", "over"}
            => access[r] = "absent"
       /\ pc[r] \notin {"delivered", "over"} => refresh[r] = "absent"
       /\ pc[r] = "delivered" => refresh[r] # "absent"
       /\ pc[r] \in {"getPkce", "delPkce", "getCode2", "invalidate"}
            => code[family[r]] # "absent"
       /\ pc[r] \in {"getRefresh", "rotateRead", "rotate", "delete"}
            => refresh[parent[r]] # "absent"
  /\ \A g \in txGrants : grant[g] # "absent"
  /\ \A g \in txCodes : code[g] # "absent"
  /\ \A r \in txAccess : access[r] # "absent"
  /\ \A r \in txRefresh : refresh[r] # "absent"

\* Whoever has a token, is about to insert one or revokes one comes after the
\* code was consumed, and asks about its own family.
CodeConsumed ==
  \A r \in Requests :
    /\ (\/ access[r] # "absent" \/ refresh[r] # "absent"
        \/ pc[r] \in {"getRefresh", "rotateRead", "rotate", "createAccess",
                      "createRefresh", "delivered", "getToken"}
        \/ pc[r] \in RevokingSteps)
       => code[family[r]] = "inactive"
    /\ family[parent[r]] = family[r]

\* What an open transaction has picked so far covers what works, unless a
\* handler has inserted a row behind it.
TxPicked ==
  /\ txStage = "none" => txTarget = {} /\ txGrants = {}
  /\ txGrants \subseteq txTarget
  /\ txStage \in {"clientCodes", "clientAccess", "clientRefresh"} =>
       \A g \in txTarget, h \in Grants :
         ClientOf[h] = ClientOf[g] => h \in txTarget
  /\ \A g \in txTarget \ raced :
       /\ txStage \in {"clientCodes", "clientAccess", "clientRefresh"} =>
            grant[g] = "absent" \/ g \in txGrants
       /\ txStage \in {"clientAccess", "clientRefresh"} =>
            (code[g] = "active" => g \in txCodes)
       /\ txStage \in {"grantRefresh", "grantCodes", "clientRefresh"} =>
            \A r \in Members(g) : access[r] = "live" => r \in txAccess
       /\ txStage = "grantCodes" =>
            \A r \in Members(g) : refresh[r] = "active" => r \in txRefresh

\* A revocation in separate statements: what its first statement achieved
\* still holds before its second.
HalfClosed ==
  \A r \in Requests : family[r] \notin raced =>
    /\ pc[r] = "accessLast" =>
         /\ IssuingFor(family[r]) = {}
         /\ \A s \in Members(family[r]) : refresh[s] # "active"
    /\ pc[r] = "refreshLast" =>
         \A s \in Members(family[r]) : access[s] # "live"

\* A closed family is dead and nobody can bring it back.
ClosedForGood ==
  \A g \in closed \ raced :
    /\ Dead(g) /\ code[g] # "active"
    /\ authPc[g] \notin {"idle", "upsert", "code"}
    /\ IssuingFor(g) = {}

\* A disabled client has no grant, and none on its way.
DisabledForGood ==
  \A g \in Grants \ raced : ~enabled[ClientOf[g]] =>
    grant[g] # "active" /\ authPc[g] # "upsert"

\* The only handler that issues for a family replaces what it has.
OneIssuer ==
  \A g \in Grants \ forked : \A r \in IssuingFor(g) :
    /\ IssuingFor(g) = {r}
    /\ \A s \in Members(g) :
         /\ pc[r] = "invalidate" => access[s] = "absent" /\ refresh[s] = "absent"
         /\ pc[r] = "rotate" => (refresh[s] = "active" => s = parent[r])
         /\ pc[r] = "createAccess" => access[s] # "live"
         /\ pc[r] = "createRefresh" => (access[s] = "live" => s = r)
         /\ pc[r] \in {"createAccess", "createRefresh"} => refresh[s] # "active"

IInv ==
  /\ TypeOK /\ RowsInOrder /\ CodeConsumed /\ TxPicked /\ HalfClosed
  /\ ClosedForGood /\ DisabledForGood /\ OneIssuer /\ OnePairPerFamily
=============================================================================
