-------------------------- MODULE OAuthTokensProofs --------------------------
(***************************************************************************)
(* The safety properties of OAuthTokens hold for any number of clients,    *)
(* consents and requests.  IInv is inductive: each conjunct has a lemma    *)
(* with one step per group of actions that can disturb it.                 *)
(***************************************************************************)
EXTENDS OAuthTokens, TLAPS

-----------------------------------------------------------------------------
(* Type correctness.                                                       *)

\* Every variable keeps its type, whichever statement runs.
LEMMA TypeStep == TypeOK /\ [Next]_vars => TypeOK'
<1> SUFFICES ASSUME TypeOK, [Next]_vars PROVE TypeOK'
  OBVIOUS
<1> USE ClientOfType
    DEF TypeOK, rows, reqs, tx, ghost, Goto, AuthSteps, ReqSteps, IssuingSteps,
        RevokingSteps, TxStages
<1>1. ASSUME NEW g \in Grants, Authorize(g) PROVE TypeOK'
  BY <1>1 DEF Authorize, AuthorizeStart, UpsertGrant, CreateAuthorizeCode,
              CreatePKCE, AuthorizeAbort, NoteInsert
<1>2. ASSUME NEW r \in Requests, Exchange(r) PROVE TypeOK'
  <2>1. CASE BeginExchange(r) \/ GetAuthorizeCode(r) \/ GetPKCE(r) \/ DeletePKCE(r)
    BY <2>1 DEF BeginExchange, GetAuthorizeCode, GetPKCE, DeletePKCE
  <2>2. CASE GetAuthorizeCodeAgain(r) \/ InvalidateAuthorizeCode(r)
    BY <2>2 DEF GetAuthorizeCodeAgain, InvalidateAuthorizeCode, NoteFork
  <2>3. CASE CreateAccessToken(r) \/ CreateRefreshToken(r)
    BY <2>3 DEF CreateAccessToken, CreateRefreshToken, NoteInsert
  <2> QED BY <1>2, <2>1, <2>2, <2>3 DEF Exchange
<1>3. ASSUME NEW r \in Requests, Refreshing(r) PROVE TypeOK'
  BY <1>3 DEF Refreshing, BeginRefresh, GetRefreshToken, RotateRead,
              RotateCommit, NoteFork, RevokedAccess
<1>4. ASSUME NEW r \in Requests, Revoking(r) PROVE TypeOK'
  <2>1. CASE \E p \in Requests : BeginRevoke(r, p)
    BY <2>1 DEF BeginRevoke
  <2>2. CASE GetRevokedToken(r) \/ DeleteRefreshToken(r)
    BY <2>2 DEF GetRevokedToken, DeleteRefreshToken, RevokedRefresh
  <2>3. CASE RevokeRefreshToken(r) \/ RevokeAccessToken(r)
    BY <2>3 DEF RevokeRefreshToken, RevokeAccessToken, Close, NoteRace,
                RevokedRefresh, RevokedAccess
  <2> QED BY <1>4, <2>1, <2>2, <2>3 DEF Revoking
<1>5. ASSUME NEW r \in Requests, Abort(r) PROVE TypeOK'
  BY <1>5 DEF Abort
<1>6. ASSUME Administer PROVE TypeOK'
  <2>1. CASE \E g \in Grants : RevokeGrantBegin(g)
    BY <2>1 DEF RevokeGrantBegin, AccessRows
  <2>2. CASE RevokeGrantRefresh
    BY <2>2 DEF RevokeGrantRefresh, RefreshRows
  <2>3. CASE DisableCodes \/ DisableAccess
    BY <2>3 DEF DisableCodes, DisableAccess, AccessRows, CodeRows
  <2>5. CASE RevokeGrantCommit
    BY <2>5 DEF RevokeGrantCommit, Apply, NoTx, NoteRace, RevokedAccess,
                RevokedRefresh
  <2>6. CASE DisableCommit
    <3>1. enabled' \in [Clients -> BOOLEAN]
      BY <2>6 DEF DisableCommit
    <3> QED
      BY <2>6, <3>1 DEF DisableCommit, Apply, NoTx, NoteRace, RevokedAccess,
                        RevokedRefresh
  <2>7. CASE Rollback
    BY <2>7 DEF Rollback, NoTx
  <2>4. CASE \E c \in Clients : DisableBegin(c)
    BY <2>4 DEF DisableBegin
  <2>8. CASE \E c \in Clients : EnableClient(c)
    <3>1. PICK c \in Clients : EnableClient(c)
      BY <2>8
    <3>2. enabled' \in [Clients -> BOOLEAN]
      BY <3>1 DEF EnableClient
    <3> QED
      BY <3>1, <3>2 DEF EnableClient
  <2> QED BY <1>6, <2>1, <2>2, <2>3, <2>4, <2>5, <2>6, <2>7, <2>8
    DEF Administer
<1>7. CASE UNCHANGED vars
  BY <1>7 DEF vars
<1> QED BY <1>1, <1>2, <1>3, <1>4, <1>5, <1>6, <1>7 DEF Next

-----------------------------------------------------------------------------
(* The rows and who may create them.                                       *)

\* No statement creates a row twice or before its turn.
LEMMA RowsStep ==
  TypeOK /\ RowsInOrder /\ [Next]_vars => RowsInOrder'
<1> SUFFICES ASSUME TypeOK, RowsInOrder, [Next]_vars
             PROVE  RowsInOrder'
  OBVIOUS
<1> USE ClientOfType
    DEF TypeOK, RowsInOrder,
        rows, reqs, tx, ghost, Goto, AuthSteps, ReqSteps, IssuingSteps, RevokingSteps,
        TxStages
<1>1. ASSUME NEW g \in Grants, Authorize(g) PROVE RowsInOrder'
  <2>1. CASE AuthorizeStart(g) \/ AuthorizeAbort(g)
    BY <2>1 DEF AuthorizeStart, AuthorizeAbort
  <2>2. CASE UpsertGrant(g)
    BY <2>2 DEF UpsertGrant, NoteInsert
  <2>3. CASE CreateAuthorizeCode(g)
    BY <2>3 DEF CreateAuthorizeCode, NoteInsert
  <2>4. CASE CreatePKCE(g)
    BY <2>4 DEF CreatePKCE
  <2> QED BY <1>1, <2>1, <2>2, <2>3, <2>4 DEF Authorize
<1>2. ASSUME NEW r \in Requests, Exchange(r) PROVE RowsInOrder'
  <2>1. CASE BeginExchange(r) \/ GetAuthorizeCode(r) \/ GetPKCE(r) \/ DeletePKCE(r)
    BY <2>1 DEF BeginExchange, GetAuthorizeCode, GetPKCE, DeletePKCE
  <2>2. CASE GetAuthorizeCodeAgain(r)
    BY <2>2 DEF GetAuthorizeCodeAgain, NoteFork
  <2>3. CASE InvalidateAuthorizeCode(r)
    BY <2>3 DEF InvalidateAuthorizeCode
  <2>4. CASE CreateAccessToken(r)
    BY <2>4 DEF CreateAccessToken, NoteInsert
  <2>5. CASE CreateRefreshToken(r)
    BY <2>5 DEF CreateRefreshToken, NoteInsert
  <2> QED BY <1>2, <2>1, <2>2, <2>3, <2>4, <2>5 DEF Exchange
<1>3. ASSUME NEW r \in Requests, Refreshing(r) PROVE RowsInOrder'
  <2>1. CASE \E p \in Requests : BeginRefresh(r, p)
    BY <2>1 DEF BeginRefresh
  <2>2. CASE GetRefreshToken(r)
    BY <2>2 DEF GetRefreshToken
  <2>3. CASE RotateRead(r)
    BY <2>3 DEF RotateRead, NoteFork
  <2>4. CASE RotateCommit(r)
    BY <2>4 DEF RotateCommit, RevokedAccess, AccessRows
  <2> QED BY <1>3, <2>1, <2>2, <2>3, <2>4 DEF Refreshing
<1>4. ASSUME NEW r \in Requests, Revoking(r) PROVE RowsInOrder'
  <2>1. CASE \E p \in Requests : BeginRevoke(r, p)
    BY <2>1 DEF BeginRevoke
  <2>2. CASE GetRevokedToken(r)
    BY <2>2 DEF GetRevokedToken
  <2>3. CASE DeleteRefreshToken(r)
    BY <2>3 DEF DeleteRefreshToken, RevokedRefresh
  <2>4. CASE RevokeRefreshToken(r)
    BY <2>4 DEF RevokeRefreshToken, Close, NoteRace, RevokedRefresh,
                RefreshRows
  <2>5. CASE RevokeAccessToken(r)
    BY <2>5 DEF RevokeAccessToken, Close, NoteRace, RevokedAccess,
                AccessRows
  <2> QED BY <1>4, <2>1, <2>2, <2>3, <2>4, <2>5 DEF Revoking
<1>5. ASSUME NEW r \in Requests, Abort(r) PROVE RowsInOrder'
  BY <1>5 DEF Abort
<1>6. ASSUME Administer PROVE RowsInOrder'
  <2>1. CASE \E g \in Grants : RevokeGrantBegin(g)
    BY <2>1 DEF RevokeGrantBegin, AccessRows
  <2>2. CASE RevokeGrantRefresh
    BY <2>2 DEF RevokeGrantRefresh, RefreshRows
  <2>3. CASE RevokeGrantCommit
    BY <2>3 DEF RevokeGrantCommit, Apply, NoTx, NoteRace, RevokedAccess,
                RevokedRefresh, CodeRows
  <2>4. CASE \E c \in Clients : DisableBegin(c)
    BY <2>4 DEF DisableBegin
  <2>5. CASE DisableCodes
    BY <2>5 DEF DisableCodes, CodeRows
  <2>6. CASE DisableAccess
    BY <2>6 DEF DisableAccess, AccessRows
  <2>7. CASE DisableCommit
    BY <2>7 DEF DisableCommit, Apply, NoTx, NoteRace, RevokedAccess,
                RevokedRefresh, RefreshRows
  <2>8. CASE Rollback
    BY <2>8 DEF Rollback, NoTx
  <2>9. CASE \E c \in Clients : EnableClient(c)
    BY <2>9 DEF EnableClient
  <2> QED BY <1>6, <2>1, <2>2, <2>3, <2>4, <2>5, <2>6, <2>7, <2>8, <2>9 DEF Administer
<1>7. CASE UNCHANGED vars
  BY <1>7 DEF vars
<1> QED BY <1>1, <1>2, <1>3, <1>4, <1>5, <1>6, <1>7 DEF Next

\* The code stays consumed once anything has come of it.
LEMMA CodeStep ==
  TypeOK /\ RowsInOrder /\ CodeConsumed /\ [Next]_vars => CodeConsumed'
<1> SUFFICES ASSUME TypeOK, RowsInOrder, CodeConsumed, [Next]_vars
             PROVE  CodeConsumed'
  OBVIOUS
<1> USE ClientOfType
    DEF TypeOK, RowsInOrder, CodeConsumed,
        rows, reqs, tx, ghost, Goto, AuthSteps, ReqSteps, IssuingSteps, RevokingSteps,
        TxStages
<1>1. ASSUME NEW g \in Grants, Authorize(g) PROVE CodeConsumed'
  <2>1. CASE AuthorizeStart(g) \/ AuthorizeAbort(g)
    BY <2>1 DEF AuthorizeStart, AuthorizeAbort
  <2>2. CASE UpsertGrant(g)
    BY <2>2 DEF UpsertGrant, NoteInsert
  <2>3. CASE CreateAuthorizeCode(g)
    BY <2>3 DEF CreateAuthorizeCode, NoteInsert
  <2>4. CASE CreatePKCE(g)
    BY <2>4 DEF CreatePKCE
  <2> QED BY <1>1, <2>1, <2>2, <2>3, <2>4 DEF Authorize
<1>2. ASSUME NEW r \in Requests, Exchange(r) PROVE CodeConsumed'
  <2>1. CASE BeginExchange(r) \/ GetAuthorizeCode(r) \/ GetPKCE(r) \/ DeletePKCE(r)
    BY <2>1 DEF BeginExchange, GetAuthorizeCode, GetPKCE, DeletePKCE
  <2>2. CASE GetAuthorizeCodeAgain(r)
    BY <2>2 DEF GetAuthorizeCodeAgain, NoteFork
  <2>3. CASE InvalidateAuthorizeCode(r)
    BY <2>3 DEF InvalidateAuthorizeCode
  <2>4. CASE CreateAccessToken(r)
    BY <2>4 DEF CreateAccessToken, NoteInsert
  <2>5. CASE CreateRefreshToken(r)
    BY <2>5 DEF CreateRefreshToken, NoteInsert
  <2> QED BY <1>2, <2>1, <2>2, <2>3, <2>4, <2>5 DEF Exchange
<1>3. ASSUME NEW r \in Requests, Refreshing(r) PROVE CodeConsumed'
  <2>1. CASE \E p \in Requests : BeginRefresh(r, p)
    BY <2>1 DEF BeginRefresh
  <2>2. CASE GetRefreshToken(r)
    BY <2>2 DEF GetRefreshToken
  <2>3. CASE RotateRead(r)
    BY <2>3 DEF RotateRead, NoteFork
  <2>4. CASE RotateCommit(r)
    BY <2>4 DEF RotateCommit, RevokedAccess, AccessRows
  <2> QED BY <1>3, <2>1, <2>2, <2>3, <2>4 DEF Refreshing
<1>4. ASSUME NEW r \in Requests, Revoking(r) PROVE CodeConsumed'
  <2>1. CASE \E p \in Requests : BeginRevoke(r, p)
    BY <2>1 DEF BeginRevoke
  <2>2. CASE GetRevokedToken(r)
    BY <2>2 DEF GetRevokedToken
  <2>3. CASE DeleteRefreshToken(r)
    BY <2>3 DEF DeleteRefreshToken, RevokedRefresh
  <2>4. CASE RevokeRefreshToken(r)
    BY <2>4 DEF RevokeRefreshToken, Close, NoteRace, RevokedRefresh,
                RefreshRows
  <2>5. CASE RevokeAccessToken(r)
    BY <2>5 DEF RevokeAccessToken, Close, NoteRace, RevokedAccess,
                AccessRows
  <2> QED BY <1>4, <2>1, <2>2, <2>3, <2>4, <2>5 DEF Revoking
<1>5. ASSUME NEW r \in Requests, Abort(r) PROVE CodeConsumed'
  BY <1>5 DEF Abort
<1>6. ASSUME Administer PROVE CodeConsumed'
  <2>1. CASE \E g \in Grants : RevokeGrantBegin(g)
    BY <2>1 DEF RevokeGrantBegin, AccessRows
  <2>2. CASE RevokeGrantRefresh
    BY <2>2 DEF RevokeGrantRefresh, RefreshRows
  <2>3. CASE RevokeGrantCommit
    BY <2>3 DEF RevokeGrantCommit, Apply, NoTx, NoteRace, RevokedAccess,
                RevokedRefresh, CodeRows
  <2>4. CASE \E c \in Clients : DisableBegin(c)
    BY <2>4 DEF DisableBegin
  <2>5. CASE DisableCodes
    BY <2>5 DEF DisableCodes, CodeRows
  <2>6. CASE DisableAccess
    BY <2>6 DEF DisableAccess, AccessRows
  <2>7. CASE DisableCommit
    BY <2>7 DEF DisableCommit, Apply, NoTx, NoteRace, RevokedAccess,
                RevokedRefresh, RefreshRows
  <2>8. CASE Rollback
    BY <2>8 DEF Rollback, NoTx
  <2>9. CASE \E c \in Clients : EnableClient(c)
    BY <2>9 DEF EnableClient
  <2> QED BY <1>6, <2>1, <2>2, <2>3, <2>4, <2>5, <2>6, <2>7, <2>8, <2>9 DEF Administer
<1>7. CASE UNCHANGED vars
  BY <1>7 DEF vars
<1> QED BY <1>1, <1>2, <1>3, <1>4, <1>5, <1>6, <1>7 DEF Next

\* An open transaction covers what works, or a handler has raced it.
LEMMA PickedStep ==
  TypeOK /\ RowsInOrder /\ TxPicked /\ [Next]_vars => TxPicked'
<1> SUFFICES ASSUME TypeOK, RowsInOrder, TxPicked, [Next]_vars
             PROVE  TxPicked'
  OBVIOUS
<1> USE ClientOfType
    DEF TypeOK, RowsInOrder, TxPicked,
        rows, reqs, tx, ghost, Goto, AuthSteps, ReqSteps, IssuingSteps, RevokingSteps,
        TxStages, Members, ClosingNow
<1>1. ASSUME NEW g \in Grants, Authorize(g) PROVE TxPicked'
  <2>1. CASE AuthorizeStart(g) \/ AuthorizeAbort(g)
    BY <2>1 DEF AuthorizeStart, AuthorizeAbort
  <2>2. CASE UpsertGrant(g)
    BY <2>2 DEF UpsertGrant, NoteInsert
  <2>3. CASE CreateAuthorizeCode(g)
    BY <2>3 DEF CreateAuthorizeCode, NoteInsert
  <2>4. CASE CreatePKCE(g)
    BY <2>4 DEF CreatePKCE
  <2> QED BY <1>1, <2>1, <2>2, <2>3, <2>4 DEF Authorize
<1>2. ASSUME NEW r \in Requests, Exchange(r) PROVE TxPicked'
  <2>1. CASE BeginExchange(r) \/ GetAuthorizeCode(r) \/ GetPKCE(r) \/ DeletePKCE(r)
    BY <2>1 DEF BeginExchange, GetAuthorizeCode, GetPKCE, DeletePKCE
  <2>2. CASE GetAuthorizeCodeAgain(r)
    BY <2>2 DEF GetAuthorizeCodeAgain, NoteFork
  <2>3. CASE InvalidateAuthorizeCode(r)
    BY <2>3 DEF InvalidateAuthorizeCode
  <2>4. CASE CreateAccessToken(r)
    BY <2>4 DEF CreateAccessToken, NoteInsert
  <2>5. CASE CreateRefreshToken(r)
    BY <2>5 DEF CreateRefreshToken, NoteInsert
  <2> QED BY <1>2, <2>1, <2>2, <2>3, <2>4, <2>5 DEF Exchange
<1>3. ASSUME NEW r \in Requests, Refreshing(r) PROVE TxPicked'
  <2>1. CASE \E p \in Requests : BeginRefresh(r, p)
    BY <2>1 DEF BeginRefresh
  <2>2. CASE GetRefreshToken(r)
    BY <2>2 DEF GetRefreshToken
  <2>3. CASE RotateRead(r)
    BY <2>3 DEF RotateRead, NoteFork
  <2>4. CASE RotateCommit(r)
    BY <2>4 DEF RotateCommit, RevokedAccess, AccessRows
  <2> QED BY <1>3, <2>1, <2>2, <2>3, <2>4 DEF Refreshing
<1>4. ASSUME NEW r \in Requests, Revoking(r) PROVE TxPicked'
  <2>1. CASE \E p \in Requests : BeginRevoke(r, p)
    BY <2>1 DEF BeginRevoke
  <2>2. CASE GetRevokedToken(r)
    BY <2>2 DEF GetRevokedToken
  <2>3. CASE DeleteRefreshToken(r)
    BY <2>3 DEF DeleteRefreshToken, RevokedRefresh
  <2>4. CASE RevokeRefreshToken(r)
    BY <2>4 DEF RevokeRefreshToken, Close, NoteRace, RevokedRefresh,
                RefreshRows
  <2>5. CASE RevokeAccessToken(r)
    BY <2>5 DEF RevokeAccessToken, Close, NoteRace, RevokedAccess,
                AccessRows
  <2> QED BY <1>4, <2>1, <2>2, <2>3, <2>4, <2>5 DEF Revoking
<1>5. ASSUME NEW r \in Requests, Abort(r) PROVE TxPicked'
  BY <1>5 DEF Abort
<1>6. ASSUME Administer PROVE TxPicked'
  <2>1. CASE \E g \in Grants : RevokeGrantBegin(g)
    BY <2>1 DEF RevokeGrantBegin, AccessRows
  <2>2. CASE RevokeGrantRefresh
    BY <2>2 DEF RevokeGrantRefresh, RefreshRows
  <2>3. CASE RevokeGrantCommit
    BY <2>3 DEF RevokeGrantCommit, Apply, NoTx, NoteRace, RevokedAccess,
                RevokedRefresh, CodeRows
  <2>4. CASE \E c \in Clients : DisableBegin(c)
    BY <2>4 DEF DisableBegin
  <2>5. CASE DisableCodes
    BY <2>5 DEF DisableCodes, CodeRows
  <2>6. CASE DisableAccess
    BY <2>6 DEF DisableAccess, AccessRows
  <2>7. CASE DisableCommit
    BY <2>7 DEF DisableCommit, Apply, NoTx, NoteRace, RevokedAccess,
                RevokedRefresh, RefreshRows
  <2>8. CASE Rollback
    BY <2>8 DEF Rollback, NoTx
  <2>9. CASE \E c \in Clients : EnableClient(c)
    BY <2>9 DEF EnableClient
  <2> QED BY <1>6, <2>1, <2>2, <2>3, <2>4, <2>5, <2>6, <2>7, <2>8, <2>9 DEF Administer
<1>7. CASE UNCHANGED vars
  BY <1>7 DEF vars
<1> QED BY <1>1, <1>2, <1>3, <1>4, <1>5, <1>6, <1>7 DEF Next

\* Nothing undoes the first statement of a revocation before the second.
LEMMA HalfClosedStep ==
  TypeOK /\ RowsInOrder /\ CodeConsumed /\ HalfClosed /\ [Next]_vars => HalfClosed'
<1> SUFFICES ASSUME TypeOK, RowsInOrder, CodeConsumed, HalfClosed, [Next]_vars
             PROVE  HalfClosed'
  OBVIOUS
<1> USE ClientOfType
    DEF TypeOK, RowsInOrder, CodeConsumed, HalfClosed,
        rows, reqs, tx, ghost, Goto, AuthSteps, ReqSteps, IssuingSteps, RevokingSteps,
        TxStages, Members, ClosingNow, IssuingFor
<1>1. ASSUME NEW g \in Grants, Authorize(g) PROVE HalfClosed'
  <2>1. CASE AuthorizeStart(g) \/ AuthorizeAbort(g)
    BY <2>1 DEF AuthorizeStart, AuthorizeAbort
  <2>2. CASE UpsertGrant(g)
    BY <2>2 DEF UpsertGrant, NoteInsert
  <2>3. CASE CreateAuthorizeCode(g)
    BY <2>3 DEF CreateAuthorizeCode, NoteInsert
  <2>4. CASE CreatePKCE(g)
    BY <2>4 DEF CreatePKCE
  <2> QED BY <1>1, <2>1, <2>2, <2>3, <2>4 DEF Authorize
<1>2. ASSUME NEW r \in Requests, Exchange(r) PROVE HalfClosed'
  <2>1. CASE BeginExchange(r) \/ GetAuthorizeCode(r) \/ GetPKCE(r) \/ DeletePKCE(r)
    BY <2>1 DEF BeginExchange, GetAuthorizeCode, GetPKCE, DeletePKCE
  <2>2. CASE GetAuthorizeCodeAgain(r)
    BY <2>2 DEF GetAuthorizeCodeAgain, NoteFork
  <2>3. CASE InvalidateAuthorizeCode(r)
    BY <2>3 DEF InvalidateAuthorizeCode
  <2>4. CASE CreateAccessToken(r)
    BY <2>4 DEF CreateAccessToken, NoteInsert
  <2>5. CASE CreateRefreshToken(r)
    BY <2>5 DEF CreateRefreshToken, NoteInsert
  <2> QED BY <1>2, <2>1, <2>2, <2>3, <2>4, <2>5 DEF Exchange
<1>3. ASSUME NEW r \in Requests, Refreshing(r) PROVE HalfClosed'
  <2>1. CASE \E p \in Requests : BeginRefresh(r, p)
    BY <2>1 DEF BeginRefresh
  <2>2. CASE GetRefreshToken(r)
    BY <2>2 DEF GetRefreshToken
  <2>3. CASE RotateRead(r)
    BY <2>3 DEF RotateRead, NoteFork
  <2>4. CASE RotateCommit(r)
    BY <2>4 DEF RotateCommit, RevokedAccess, AccessRows
  <2> QED BY <1>3, <2>1, <2>2, <2>3, <2>4 DEF Refreshing
<1>4. ASSUME NEW r \in Requests, Revoking(r) PROVE HalfClosed'
  <2>1. CASE \E p \in Requests : BeginRevoke(r, p)
    BY <2>1 DEF BeginRevoke
  <2>2. CASE GetRevokedToken(r)
    BY <2>2 DEF GetRevokedToken
  <2>3. CASE DeleteRefreshToken(r)
    BY <2>3 DEF DeleteRefreshToken, RevokedRefresh
  <2>4. CASE RevokeRefreshToken(r)
    BY <2>4 DEF RevokeRefreshToken, Close, NoteRace, RevokedRefresh,
                RefreshRows
  <2>5. CASE RevokeAccessToken(r)
    BY <2>5 DEF RevokeAccessToken, Close, NoteRace, RevokedAccess,
                AccessRows
  <2> QED BY <1>4, <2>1, <2>2, <2>3, <2>4, <2>5 DEF Revoking
<1>5. ASSUME NEW r \in Requests, Abort(r) PROVE HalfClosed'
  BY <1>5 DEF Abort
<1>6. ASSUME Administer PROVE HalfClosed'
  <2>1. CASE \E g \in Grants : RevokeGrantBegin(g)
    BY <2>1 DEF RevokeGrantBegin, AccessRows
  <2>2. CASE RevokeGrantRefresh
    BY <2>2 DEF RevokeGrantRefresh, RefreshRows
  <2>3. CASE RevokeGrantCommit
    BY <2>3 DEF RevokeGrantCommit, Apply, NoTx, NoteRace, RevokedAccess,
                RevokedRefresh, CodeRows
  <2>4. CASE \E c \in Clients : DisableBegin(c)
    BY <2>4 DEF DisableBegin
  <2>5. CASE DisableCodes
    BY <2>5 DEF DisableCodes, CodeRows
  <2>6. CASE DisableAccess
    BY <2>6 DEF DisableAccess, AccessRows
  <2>7. CASE DisableCommit
    BY <2>7 DEF DisableCommit, Apply, NoTx, NoteRace, RevokedAccess,
                RevokedRefresh, RefreshRows
  <2>8. CASE Rollback
    BY <2>8 DEF Rollback, NoTx
  <2>9. CASE \E c \in Clients : EnableClient(c)
    BY <2>9 DEF EnableClient
  <2> QED BY <1>6, <2>1, <2>2, <2>3, <2>4, <2>5, <2>6, <2>7, <2>8, <2>9 DEF Administer
<1>7. CASE UNCHANGED vars
  BY <1>7 DEF vars
<1> QED BY <1>1, <1>2, <1>3, <1>4, <1>5, <1>6, <1>7 DEF Next

\* A closed family is not brought back.
LEMMA ClosedStep ==
  TypeOK /\ RowsInOrder /\ CodeConsumed /\ TxPicked /\ HalfClosed /\ ClosedForGood /\ [Next]_vars => ClosedForGood'
<1> SUFFICES ASSUME TypeOK, RowsInOrder, CodeConsumed, TxPicked, HalfClosed, ClosedForGood, [Next]_vars
             PROVE  ClosedForGood'
  OBVIOUS
<1> USE ClientOfType
    DEF TypeOK, RowsInOrder, CodeConsumed, TxPicked, HalfClosed, ClosedForGood,
        rows, reqs, tx, ghost, Goto, AuthSteps, ReqSteps, IssuingSteps, RevokingSteps,
        TxStages, Members, ClosingNow, IssuingFor, Dead
<1>1. ASSUME NEW g \in Grants, Authorize(g) PROVE ClosedForGood'
  <2>1. CASE AuthorizeStart(g) \/ AuthorizeAbort(g)
    BY <2>1 DEF AuthorizeStart, AuthorizeAbort
  <2>2. CASE UpsertGrant(g)
    BY <2>2 DEF UpsertGrant, NoteInsert
  <2>3. CASE CreateAuthorizeCode(g)
    BY <2>3 DEF CreateAuthorizeCode, NoteInsert
  <2>4. CASE CreatePKCE(g)
    BY <2>4 DEF CreatePKCE
  <2> QED BY <1>1, <2>1, <2>2, <2>3, <2>4 DEF Authorize
<1>2. ASSUME NEW r \in Requests, Exchange(r) PROVE ClosedForGood'
  <2>1. CASE BeginExchange(r) \/ GetAuthorizeCode(r) \/ GetPKCE(r) \/ DeletePKCE(r)
    BY <2>1 DEF BeginExchange, GetAuthorizeCode, GetPKCE, DeletePKCE
  <2>2. CASE GetAuthorizeCodeAgain(r)
    BY <2>2 DEF GetAuthorizeCodeAgain, NoteFork
  <2>3. CASE InvalidateAuthorizeCode(r)
    BY <2>3 DEF InvalidateAuthorizeCode
  <2>4. CASE CreateAccessToken(r)
    BY <2>4 DEF CreateAccessToken, NoteInsert
  <2>5. CASE CreateRefreshToken(r)
    BY <2>5 DEF CreateRefreshToken, NoteInsert
  <2> QED BY <1>2, <2>1, <2>2, <2>3, <2>4, <2>5 DEF Exchange
<1>3. ASSUME NEW r \in Requests, Refreshing(r) PROVE ClosedForGood'
  <2>1. CASE \E p \in Requests : BeginRefresh(r, p)
    BY <2>1 DEF BeginRefresh
  <2>2. CASE GetRefreshToken(r)
    BY <2>2 DEF GetRefreshToken
  <2>3. CASE RotateRead(r)
    BY <2>3 DEF RotateRead, NoteFork
  <2>4. CASE RotateCommit(r)
    BY <2>4 DEF RotateCommit, RevokedAccess, AccessRows
  <2> QED BY <1>3, <2>1, <2>2, <2>3, <2>4 DEF Refreshing
<1>4. ASSUME NEW r \in Requests, Revoking(r) PROVE ClosedForGood'
  <2>1. CASE \E p \in Requests : BeginRevoke(r, p)
    BY <2>1 DEF BeginRevoke
  <2>2. CASE GetRevokedToken(r)
    BY <2>2 DEF GetRevokedToken
  <2>3. CASE DeleteRefreshToken(r)
    BY <2>3 DEF DeleteRefreshToken, RevokedRefresh
  <2>4. CASE RevokeRefreshToken(r)
    BY <2>4 DEF RevokeRefreshToken, Close, NoteRace, RevokedRefresh,
                RefreshRows
  <2>5. CASE RevokeAccessToken(r)
    BY <2>5 DEF RevokeAccessToken, Close, NoteRace, RevokedAccess,
                AccessRows
  <2> QED BY <1>4, <2>1, <2>2, <2>3, <2>4, <2>5 DEF Revoking
<1>5. ASSUME NEW r \in Requests, Abort(r) PROVE ClosedForGood'
  BY <1>5 DEF Abort
<1>6. ASSUME Administer PROVE ClosedForGood'
  <2>1. CASE \E g \in Grants : RevokeGrantBegin(g)
    BY <2>1 DEF RevokeGrantBegin, AccessRows
  <2>2. CASE RevokeGrantRefresh
    BY <2>2 DEF RevokeGrantRefresh, RefreshRows
  <2>3. CASE RevokeGrantCommit
    BY <2>3 DEF RevokeGrantCommit, Apply, NoTx, NoteRace, RevokedAccess,
                RevokedRefresh, CodeRows
  <2>4. CASE \E c \in Clients : DisableBegin(c)
    BY <2>4 DEF DisableBegin
  <2>5. CASE DisableCodes
    BY <2>5 DEF DisableCodes, CodeRows
  <2>6. CASE DisableAccess
    BY <2>6 DEF DisableAccess, AccessRows
  <2>7. CASE DisableCommit
    BY <2>7 DEF DisableCommit, Apply, NoTx, NoteRace, RevokedAccess,
                RevokedRefresh, RefreshRows
  <2>8. CASE Rollback
    BY <2>8 DEF Rollback, NoTx
  <2>9. CASE \E c \in Clients : EnableClient(c)
    BY <2>9 DEF EnableClient
  <2> QED BY <1>6, <2>1, <2>2, <2>3, <2>4, <2>5, <2>6, <2>7, <2>8, <2>9 DEF Administer
<1>7. CASE UNCHANGED vars
  BY <1>7 DEF vars
<1> QED BY <1>1, <1>2, <1>3, <1>4, <1>5, <1>6, <1>7 DEF Next

\* A disabled client gets no grant.
LEMMA DisabledStep ==
  TypeOK /\ RowsInOrder /\ TxPicked /\ DisabledForGood /\ [Next]_vars => DisabledForGood'
<1> SUFFICES ASSUME TypeOK, RowsInOrder, TxPicked, DisabledForGood, [Next]_vars
             PROVE  DisabledForGood'
  OBVIOUS
<1> USE ClientOfType
    DEF TypeOK, RowsInOrder, TxPicked, DisabledForGood,
        rows, reqs, tx, ghost, Goto, AuthSteps, ReqSteps, IssuingSteps, RevokingSteps,
        TxStages, ClosingNow
<1>1. ASSUME NEW g \in Grants, Authorize(g) PROVE DisabledForGood'
  <2>1. CASE AuthorizeStart(g) \/ AuthorizeAbort(g)
    BY <2>1 DEF AuthorizeStart, AuthorizeAbort
  <2>2. CASE UpsertGrant(g)
    BY <2>2 DEF UpsertGrant, NoteInsert
  <2>3. CASE CreateAuthorizeCode(g)
    BY <2>3 DEF CreateAuthorizeCode, NoteInsert
  <2>4. CASE CreatePKCE(g)
    BY <2>4 DEF CreatePKCE
  <2> QED BY <1>1, <2>1, <2>2, <2>3, <2>4 DEF Authorize
<1>2. ASSUME NEW r \in Requests, Exchange(r) PROVE DisabledForGood'
  <2>1. CASE BeginExchange(r) \/ GetAuthorizeCode(r) \/ GetPKCE(r) \/ DeletePKCE(r)
    BY <2>1 DEF BeginExchange, GetAuthorizeCode, GetPKCE, DeletePKCE
  <2>2. CASE GetAuthorizeCodeAgain(r)
    BY <2>2 DEF GetAuthorizeCodeAgain, NoteFork
  <2>3. CASE InvalidateAuthorizeCode(r)
    BY <2>3 DEF InvalidateAuthorizeCode
  <2>4. CASE CreateAccessToken(r)
    BY <2>4 DEF CreateAccessToken, NoteInsert
  <2>5. CASE CreateRefreshToken(r)
    BY <2>5 DEF CreateRefreshToken, NoteInsert
  <2> QED BY <1>2, <2>1, <2>2, <2>3, <2>4, <2>5 DEF Exchange
<1>3. ASSUME NEW r \in Requests, Refreshing(r) PROVE DisabledForGood'
  <2>1. CASE \E p \in Requests : BeginRefresh(r, p)
    BY <2>1 DEF BeginRefresh
  <2>2. CASE GetRefreshToken(r)
    BY <2>2 DEF GetRefreshToken
  <2>3. CASE RotateRead(r)
    BY <2>3 DEF RotateRead, NoteFork
  <2>4. CASE RotateCommit(r)
    BY <2>4 DEF RotateCommit, RevokedAccess, AccessRows
  <2> QED BY <1>3, <2>1, <2>2, <2>3, <2>4 DEF Refreshing
<1>4. ASSUME NEW r \in Requests, Revoking(r) PROVE DisabledForGood'
  <2>1. CASE \E p \in Requests : BeginRevoke(r, p)
    BY <2>1 DEF BeginRevoke
  <2>2. CASE GetRevokedToken(r)
    BY <2>2 DEF GetRevokedToken
  <2>3. CASE DeleteRefreshToken(r)
    BY <2>3 DEF DeleteRefreshToken, RevokedRefresh
  <2>4. CASE RevokeRefreshToken(r)
    BY <2>4 DEF RevokeRefreshToken, Close, NoteRace, RevokedRefresh,
                RefreshRows
  <2>5. CASE RevokeAccessToken(r)
    BY <2>5 DEF RevokeAccessToken, Close, NoteRace, RevokedAccess,
                AccessRows
  <2> QED BY <1>4, <2>1, <2>2, <2>3, <2>4, <2>5 DEF Revoking
<1>5. ASSUME NEW r \in Requests, Abort(r) PROVE DisabledForGood'
  BY <1>5 DEF Abort
<1>6. ASSUME Administer PROVE DisabledForGood'
  <2>1. CASE \E g \in Grants : RevokeGrantBegin(g)
    BY <2>1 DEF RevokeGrantBegin, AccessRows
  <2>2. CASE RevokeGrantRefresh
    BY <2>2 DEF RevokeGrantRefresh, RefreshRows
  <2>3. CASE RevokeGrantCommit
    BY <2>3 DEF RevokeGrantCommit, Apply, NoTx, NoteRace, RevokedAccess,
                RevokedRefresh, CodeRows
  <2>4. CASE \E c \in Clients : DisableBegin(c)
    BY <2>4 DEF DisableBegin
  <2>5. CASE DisableCodes
    BY <2>5 DEF DisableCodes, CodeRows
  <2>6. CASE DisableAccess
    BY <2>6 DEF DisableAccess, AccessRows
  <2>7. CASE DisableCommit
    BY <2>7 DEF DisableCommit, Apply, NoTx, NoteRace, RevokedAccess,
                RevokedRefresh, RefreshRows
  <2>8. CASE Rollback
    BY <2>8 DEF Rollback, NoTx
  <2>9. CASE \E c \in Clients : EnableClient(c)
    BY <2>9 DEF EnableClient
  <2> QED BY <1>6, <2>1, <2>2, <2>3, <2>4, <2>5, <2>6, <2>7, <2>8, <2>9 DEF Administer
<1>7. CASE UNCHANGED vars
  BY <1>7 DEF vars
<1> QED BY <1>1, <1>2, <1>3, <1>4, <1>5, <1>6, <1>7 DEF Next

\* One handler at a time issues for a family, or the family has forked.
LEMMA IssuerStep ==
  TypeOK /\ RowsInOrder /\ CodeConsumed /\ OnePairPerFamily /\ OneIssuer /\ [Next]_vars => OneIssuer'
<1> SUFFICES ASSUME TypeOK, RowsInOrder, CodeConsumed, OnePairPerFamily, OneIssuer, [Next]_vars
             PROVE  OneIssuer'
  OBVIOUS
<1> USE ClientOfType
    DEF TypeOK, RowsInOrder, CodeConsumed, OnePairPerFamily, OneIssuer,
        rows, reqs, tx, ghost, Goto, AuthSteps, ReqSteps, IssuingSteps, RevokingSteps,
        TxStages, Members, IssuingFor
<1>1. ASSUME NEW g \in Grants, Authorize(g) PROVE OneIssuer'
  <2>1. CASE AuthorizeStart(g) \/ AuthorizeAbort(g)
    BY <2>1 DEF AuthorizeStart, AuthorizeAbort
  <2>2. CASE UpsertGrant(g)
    BY <2>2 DEF UpsertGrant, NoteInsert
  <2>3. CASE CreateAuthorizeCode(g)
    BY <2>3 DEF CreateAuthorizeCode, NoteInsert
  <2>4. CASE CreatePKCE(g)
    BY <2>4 DEF CreatePKCE
  <2> QED BY <1>1, <2>1, <2>2, <2>3, <2>4 DEF Authorize
<1>2. ASSUME NEW r \in Requests, Exchange(r) PROVE OneIssuer'
  <2>1. CASE BeginExchange(r) \/ GetAuthorizeCode(r) \/ GetPKCE(r) \/ DeletePKCE(r)
    BY <2>1 DEF BeginExchange, GetAuthorizeCode, GetPKCE, DeletePKCE
  <2>2. CASE GetAuthorizeCodeAgain(r)
    BY <2>2 DEF GetAuthorizeCodeAgain, NoteFork
  <2>3. CASE InvalidateAuthorizeCode(r)
    BY <2>3 DEF InvalidateAuthorizeCode
  <2>4. CASE CreateAccessToken(r)
    BY <2>4 DEF CreateAccessToken, NoteInsert
  <2>5. CASE CreateRefreshToken(r)
    BY <2>5 DEF CreateRefreshToken, NoteInsert
  <2> QED BY <1>2, <2>1, <2>2, <2>3, <2>4, <2>5 DEF Exchange
<1>3. ASSUME NEW r \in Requests, Refreshing(r) PROVE OneIssuer'
  <2>1. CASE \E p \in Requests : BeginRefresh(r, p)
    BY <2>1 DEF BeginRefresh
  <2>2. CASE GetRefreshToken(r)
    BY <2>2 DEF GetRefreshToken
  <2>3. CASE RotateRead(r)
    BY <2>3 DEF RotateRead, NoteFork
  <2>4. CASE RotateCommit(r)
    BY <2>4 DEF RotateCommit, RevokedAccess, AccessRows
  <2> QED BY <1>3, <2>1, <2>2, <2>3, <2>4 DEF Refreshing
<1>4. ASSUME NEW r \in Requests, Revoking(r) PROVE OneIssuer'
  <2>1. CASE \E p \in Requests : BeginRevoke(r, p)
    BY <2>1 DEF BeginRevoke
  <2>2. CASE GetRevokedToken(r)
    BY <2>2 DEF GetRevokedToken
  <2>3. CASE DeleteRefreshToken(r)
    BY <2>3 DEF DeleteRefreshToken, RevokedRefresh
  <2>4. CASE RevokeRefreshToken(r)
    BY <2>4 DEF RevokeRefreshToken, Close, NoteRace, RevokedRefresh,
                RefreshRows
  <2>5. CASE RevokeAccessToken(r)
    BY <2>5 DEF RevokeAccessToken, Close, NoteRace, RevokedAccess,
                AccessRows
  <2> QED BY <1>4, <2>1, <2>2, <2>3, <2>4, <2>5 DEF Revoking
<1>5. ASSUME NEW r \in Requests, Abort(r) PROVE OneIssuer'
  BY <1>5 DEF Abort
<1>6. ASSUME Administer PROVE OneIssuer'
  <2>1. CASE \E g \in Grants : RevokeGrantBegin(g)
    BY <2>1 DEF RevokeGrantBegin, AccessRows
  <2>2. CASE RevokeGrantRefresh
    BY <2>2 DEF RevokeGrantRefresh, RefreshRows
  <2>3. CASE RevokeGrantCommit
    BY <2>3 DEF RevokeGrantCommit, Apply, NoTx, NoteRace, RevokedAccess,
                RevokedRefresh, CodeRows
  <2>4. CASE \E c \in Clients : DisableBegin(c)
    BY <2>4 DEF DisableBegin
  <2>5. CASE DisableCodes
    BY <2>5 DEF DisableCodes, CodeRows
  <2>6. CASE DisableAccess
    BY <2>6 DEF DisableAccess, AccessRows
  <2>7. CASE DisableCommit
    BY <2>7 DEF DisableCommit, Apply, NoTx, NoteRace, RevokedAccess,
                RevokedRefresh, RefreshRows
  <2>8. CASE Rollback
    BY <2>8 DEF Rollback, NoTx
  <2>9. CASE \E c \in Clients : EnableClient(c)
    BY <2>9 DEF EnableClient
  <2> QED BY <1>6, <2>1, <2>2, <2>3, <2>4, <2>5, <2>6, <2>7, <2>8, <2>9 DEF Administer
<1>7. CASE UNCHANGED vars
  BY <1>7 DEF vars
<1> QED BY <1>1, <1>2, <1>3, <1>4, <1>5, <1>6, <1>7 DEF Next

\* Issuing replaces the family's pair.
LEMMA PairStep ==
  TypeOK /\ RowsInOrder /\ CodeConsumed /\ OneIssuer /\ OnePairPerFamily /\ [Next]_vars => OnePairPerFamily'
<1> SUFFICES ASSUME TypeOK, RowsInOrder, CodeConsumed, OneIssuer, OnePairPerFamily, [Next]_vars
             PROVE  OnePairPerFamily'
  OBVIOUS
<1> USE ClientOfType
    DEF TypeOK, RowsInOrder, CodeConsumed, OneIssuer, OnePairPerFamily,
        rows, reqs, tx, ghost, Goto, AuthSteps, ReqSteps, IssuingSteps, RevokingSteps,
        TxStages, Members, IssuingFor
<1>1. ASSUME NEW g \in Grants, Authorize(g) PROVE OnePairPerFamily'
  <2>1. CASE AuthorizeStart(g) \/ AuthorizeAbort(g)
    BY <2>1 DEF AuthorizeStart, AuthorizeAbort
  <2>2. CASE UpsertGrant(g)
    BY <2>2 DEF UpsertGrant, NoteInsert
  <2>3. CASE CreateAuthorizeCode(g)
    BY <2>3 DEF CreateAuthorizeCode, NoteInsert
  <2>4. CASE CreatePKCE(g)
    BY <2>4 DEF CreatePKCE
  <2> QED BY <1>1, <2>1, <2>2, <2>3, <2>4 DEF Authorize
<1>2. ASSUME NEW r \in Requests, Exchange(r) PROVE OnePairPerFamily'
  <2>1. CASE BeginExchange(r) \/ GetAuthorizeCode(r) \/ GetPKCE(r) \/ DeletePKCE(r)
    BY <2>1 DEF BeginExchange, GetAuthorizeCode, GetPKCE, DeletePKCE
  <2>2. CASE GetAuthorizeCodeAgain(r)
    BY <2>2 DEF GetAuthorizeCodeAgain, NoteFork
  <2>3. CASE InvalidateAuthorizeCode(r)
    BY <2>3 DEF InvalidateAuthorizeCode
  <2>4. CASE CreateAccessToken(r)
    BY <2>4 DEF CreateAccessToken, NoteInsert
  <2>5. CASE CreateRefreshToken(r)
    BY <2>5 DEF CreateRefreshToken, NoteInsert
  <2> QED BY <1>2, <2>1, <2>2, <2>3, <2>4, <2>5 DEF Exchange
<1>3. ASSUME NEW r \in Requests, Refreshing(r) PROVE OnePairPerFamily'
  <2>1. CASE \E p \in Requests : BeginRefresh(r, p)
    BY <2>1 DEF BeginRefresh
  <2>2. CASE GetRefreshToken(r)
    BY <2>2 DEF GetRefreshToken
  <2>3. CASE RotateRead(r)
    BY <2>3 DEF RotateRead, NoteFork
  <2>4. CASE RotateCommit(r)
    BY <2>4 DEF RotateCommit, RevokedAccess, AccessRows
  <2> QED BY <1>3, <2>1, <2>2, <2>3, <2>4 DEF Refreshing
<1>4. ASSUME NEW r \in Requests, Revoking(r) PROVE OnePairPerFamily'
  <2>1. CASE \E p \in Requests : BeginRevoke(r, p)
    BY <2>1 DEF BeginRevoke
  <2>2. CASE GetRevokedToken(r)
    BY <2>2 DEF GetRevokedToken
  <2>3. CASE DeleteRefreshToken(r)
    BY <2>3 DEF DeleteRefreshToken, RevokedRefresh
  <2>4. CASE RevokeRefreshToken(r)
    BY <2>4 DEF RevokeRefreshToken, Close, NoteRace, RevokedRefresh,
                RefreshRows
  <2>5. CASE RevokeAccessToken(r)
    BY <2>5 DEF RevokeAccessToken, Close, NoteRace, RevokedAccess,
                AccessRows
  <2> QED BY <1>4, <2>1, <2>2, <2>3, <2>4, <2>5 DEF Revoking
<1>5. ASSUME NEW r \in Requests, Abort(r) PROVE OnePairPerFamily'
  BY <1>5 DEF Abort
<1>6. ASSUME Administer PROVE OnePairPerFamily'
  <2>1. CASE \E g \in Grants : RevokeGrantBegin(g)
    BY <2>1 DEF RevokeGrantBegin, AccessRows
  <2>2. CASE RevokeGrantRefresh
    BY <2>2 DEF RevokeGrantRefresh, RefreshRows
  <2>3. CASE RevokeGrantCommit
    BY <2>3 DEF RevokeGrantCommit, Apply, NoTx, NoteRace, RevokedAccess,
                RevokedRefresh, CodeRows
  <2>4. CASE \E c \in Clients : DisableBegin(c)
    BY <2>4 DEF DisableBegin
  <2>5. CASE DisableCodes
    BY <2>5 DEF DisableCodes, CodeRows
  <2>6. CASE DisableAccess
    BY <2>6 DEF DisableAccess, AccessRows
  <2>7. CASE DisableCommit
    BY <2>7 DEF DisableCommit, Apply, NoTx, NoteRace, RevokedAccess,
                RevokedRefresh, RefreshRows
  <2>8. CASE Rollback
    BY <2>8 DEF Rollback, NoTx
  <2>9. CASE \E c \in Clients : EnableClient(c)
    BY <2>9 DEF EnableClient
  <2> QED BY <1>6, <2>1, <2>2, <2>3, <2>4, <2>5, <2>6, <2>7, <2>8, <2>9 DEF Administer
<1>7. CASE UNCHANGED vars
  BY <1>7 DEF vars
<1> QED BY <1>1, <1>2, <1>3, <1>4, <1>5, <1>6, <1>7 DEF Next

\* No statement gives back what another one withdrew.
LEMMA WithdrawnStep ==
  TypeOK /\ RowsInOrder /\ [Next]_vars => StaysWithdrawn
<1> SUFFICES ASSUME TypeOK, RowsInOrder, [Next]_vars
             PROVE  StaysWithdrawn
  OBVIOUS
<1> USE ClientOfType
    DEF TypeOK, RowsInOrder, StaysWithdrawn, rows, reqs, tx, ghost, Goto,
        AuthSteps, ReqSteps, IssuingSteps, RevokingSteps,
        TxStages
<1>1. ASSUME NEW g \in Grants, Authorize(g) PROVE StaysWithdrawn
  <2>1. CASE AuthorizeStart(g) \/ AuthorizeAbort(g)
    BY <2>1 DEF AuthorizeStart, AuthorizeAbort
  <2>2. CASE UpsertGrant(g)
    BY <2>2 DEF UpsertGrant, NoteInsert
  <2>3. CASE CreateAuthorizeCode(g)
    BY <2>3 DEF CreateAuthorizeCode, NoteInsert
  <2>4. CASE CreatePKCE(g)
    BY <2>4 DEF CreatePKCE
  <2> QED BY <1>1, <2>1, <2>2, <2>3, <2>4 DEF Authorize
<1>2. ASSUME NEW r \in Requests, Exchange(r) PROVE StaysWithdrawn
  <2>1. CASE BeginExchange(r) \/ GetAuthorizeCode(r) \/ GetPKCE(r) \/ DeletePKCE(r)
    BY <2>1 DEF BeginExchange, GetAuthorizeCode, GetPKCE, DeletePKCE
  <2>2. CASE GetAuthorizeCodeAgain(r)
    BY <2>2 DEF GetAuthorizeCodeAgain, NoteFork
  <2>3. CASE InvalidateAuthorizeCode(r)
    BY <2>3 DEF InvalidateAuthorizeCode
  <2>4. CASE CreateAccessToken(r)
    BY <2>4 DEF CreateAccessToken, NoteInsert
  <2>5. CASE CreateRefreshToken(r)
    BY <2>5 DEF CreateRefreshToken, NoteInsert
  <2> QED BY <1>2, <2>1, <2>2, <2>3, <2>4, <2>5 DEF Exchange
<1>3. ASSUME NEW r \in Requests, Refreshing(r) PROVE StaysWithdrawn
  <2>1. CASE \E p \in Requests : BeginRefresh(r, p)
    BY <2>1 DEF BeginRefresh
  <2>2. CASE GetRefreshToken(r)
    BY <2>2 DEF GetRefreshToken
  <2>3. CASE RotateRead(r)
    BY <2>3 DEF RotateRead, NoteFork
  <2>4. CASE RotateCommit(r)
    BY <2>4 DEF RotateCommit, RevokedAccess, AccessRows
  <2> QED BY <1>3, <2>1, <2>2, <2>3, <2>4 DEF Refreshing
<1>4. ASSUME NEW r \in Requests, Revoking(r) PROVE StaysWithdrawn
  <2>1. CASE \E p \in Requests : BeginRevoke(r, p)
    BY <2>1 DEF BeginRevoke
  <2>2. CASE GetRevokedToken(r)
    BY <2>2 DEF GetRevokedToken
  <2>3. CASE DeleteRefreshToken(r)
    BY <2>3 DEF DeleteRefreshToken, RevokedRefresh
  <2>4. CASE RevokeRefreshToken(r)
    BY <2>4 DEF RevokeRefreshToken, Close, NoteRace, RevokedRefresh,
                RefreshRows
  <2>5. CASE RevokeAccessToken(r)
    BY <2>5 DEF RevokeAccessToken, Close, NoteRace, RevokedAccess,
                AccessRows
  <2> QED BY <1>4, <2>1, <2>2, <2>3, <2>4, <2>5 DEF Revoking
<1>5. ASSUME NEW r \in Requests, Abort(r) PROVE StaysWithdrawn
  BY <1>5 DEF Abort
<1>6. ASSUME Administer PROVE StaysWithdrawn
  <2>1. CASE \E g \in Grants : RevokeGrantBegin(g)
    BY <2>1 DEF RevokeGrantBegin, AccessRows
  <2>2. CASE RevokeGrantRefresh
    BY <2>2 DEF RevokeGrantRefresh, RefreshRows
  <2>3. CASE RevokeGrantCommit
    BY <2>3 DEF RevokeGrantCommit, Apply, NoTx, NoteRace, RevokedAccess,
                RevokedRefresh, CodeRows
  <2>4. CASE \E c \in Clients : DisableBegin(c)
    BY <2>4 DEF DisableBegin
  <2>5. CASE DisableCodes
    BY <2>5 DEF DisableCodes, CodeRows
  <2>6. CASE DisableAccess
    BY <2>6 DEF DisableAccess, AccessRows
  <2>7. CASE DisableCommit
    BY <2>7 DEF DisableCommit, Apply, NoTx, NoteRace, RevokedAccess,
                RevokedRefresh, RefreshRows
  <2>8. CASE Rollback
    BY <2>8 DEF Rollback, NoTx
  <2>9. CASE \E c \in Clients : EnableClient(c)
    BY <2>9 DEF EnableClient
  <2> QED BY <1>6, <2>1, <2>2, <2>3, <2>4, <2>5, <2>6, <2>7, <2>8, <2>9 DEF Administer
<1>7. CASE UNCHANGED vars
  BY <1>7 DEF vars
<1> QED BY <1>1, <1>2, <1>3, <1>4, <1>5, <1>6, <1>7 DEF Next

-----------------------------------------------------------------------------
(* The theorems.                                                           *)

\* The initial states satisfy the inductive invariant.
LEMMA InitIInv == Init => IInv
BY ClientOfType
   DEF Init, IInv, TypeOK, RowsInOrder, CodeConsumed, TxPicked, HalfClosed,
       ClosedForGood, DisabledForGood, OneIssuer, OnePairPerFamily, Members,
       IssuingFor, AuthSteps, ReqSteps, IssuingSteps, RevokingSteps, TxStages

\* Every step preserves the inductive invariant.
LEMMA StepIInv == IInv /\ [Next]_vars => IInv'
BY TypeStep, RowsStep, CodeStep, PickedStep, HalfClosedStep, ClosedStep,
   DisabledStep, IssuerStep, PairStep DEF IInv

\* The inductive invariant holds in every reachable state.
THEOREM Invariance == Spec => []IInv
BY InitIInv, StepIInv, PTL DEF Spec

\* Every variable keeps its type.
THEOREM TypeCorrect == Spec => []TypeOK
<1>1. IInv => TypeOK
  BY DEF IInv
<1> QED BY <1>1, Invariance, PTL

\* A family some revocation has finished with is dead for good, however the
\* revocations, exchanges and rotations interleave (oauth.go:517, 1231, 1427).
THEOREM ClosedFamilies == Spec => []ClosedFamilyIsDead
<1>1. IInv => ClosedFamilyIsDead
  BY DEF IInv, ClosedForGood, ClosedFamilyIsDead
<1> QED BY <1>1, Invariance, PTL

\* A disabled client holds no active grant (oauth.go:517).
THEOREM DisabledClients == Spec => []DisabledClientHasNoGrant
<1>1. IInv => DisabledClientHasNoGrant
  BY DEF IInv, DisabledForGood, DisabledClientHasNoGrant
<1> QED BY <1>1, Invariance, PTL

\* Rotation leaves one working pair per family (oauth.go:1169).
THEOREM OnePair == Spec => []OnePairPerFamily
<1>1. IInv => OnePairPerFamily
  BY DEF IInv
<1> QED BY <1>1, Invariance, PTL

\* No interleaving and no crash leaves a code usable next to its tokens
\* (oauth.go:932, 997, 1071).
THEOREM CodeSpent == Spec => []TokensConsumeCode
<1>1. IInv => TokensConsumeCode
  BY DEF IInv, CodeConsumed, TokensConsumeCode
<1> QED BY <1>1, Invariance, PTL

\* What was withdrawn stays withdrawn (oauth.go:517, 932, 1157, 1169).
THEOREM Withdrawn == Spec => NothingComesBack
<1>1. IInv /\ [Next]_vars => [StaysWithdrawn]_vars
  BY WithdrawnStep DEF IInv
<1> QED BY <1>1, Invariance, PTL DEF Spec, NothingComesBack

=============================================================================
