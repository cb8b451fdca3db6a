# TLA+ models of BorealValley

BorealValley is a small forge: a web server over PostgreSQL with repositories
on disk, tickets in trackers, an OAuth provider, and an agent that works on the
tickets assigned to it. These modules model the parts of it where the order of
steps decides whether the result is right: transactions that interleave,
requests that race a revocation, a directory tree that changes under a scan, an
agent that dies between two calls. Paths below are relative to `src/`.

Run a model with `tlc -workers 2 -config MCRepoSync.cfg MCRepoSync.tla` and the
proofs of a component with `tlapm RepoSyncProofs.tla`; each `...Proofs` module
takes a minute or two.

## 1. The system

| Part | State | Operations | What makes it hard |
| --- | --- | --- | --- |
| OAuth token store (`internal/common/oauth.go`, driven by fosite from `cmd/web/oauth_*.go`) | consent grants, authorization codes, PKCE sessions, access and refresh tokens, `oauth_client.enabled` | consent, code exchange, refresh with rotation, reuse handling, revocation of a token, a grant, a client | every store method is its own statement or transaction, so handlers interleave between any two; revocation must win over requests under way |
| Repository resync (`store_repository.go`, `store_helpers_tx.go`, `util.go`) | `ff_repository` rows, marker files | `ResyncFromFilesystem` at start and from `ctl resync` | directories are renamed, copied and removed at any time, marker files are written before the commit and may be torn, UNIQUE columns keep what is gone, two resyncs overlap |
| Ticket store (`store_ticket.go`, `store_helpers_tx.go`) | tickets, comments, bodies and versions, assignees, notifications, tracker links | create, assign a tracker, comment, reply, update, assign a user | row locks taken in different orders, an access check that is a separate read |
| Repository membership (`store_repository.go`) | `ff_repository_member` | add, remove, check | checked by one statement, used by the next |
| Notifications (`store_notification.go`, `cmd/web/pagination.go`) | `notification` rows | list by page, older or newer than an id; set read or unread | pages over rows that keep arriving, ids that become visible out of order |
| Agent run (`cmd/agent/run.go`, `state.go`, `workspace.go`) | `state.json`, the checkout of each ticket, comments on the server | one invocation: refresh, pick, acknowledge, clone, tool loop, record and push, complete | a failure after any call, invocations that overlap, a token that rotates on use, a ticket that fails every time |
| Agent initialisation (`cmd/agent/oauth_init.go`, `state.go`) | the redirect port, `state.json` and its one temporary name | listen, callback, timeout, prompt, exchange, save | callbacks that are late, repeated or another init's; savers that overlap each other and a run's refresh; the process dies anywhere |
| Agent tool loop (`cmd/agent/llm.go`, `tool_policy.go`, `internal/common/agent`) | the conversation with the model, files of the checkout, updates on the ticket | request to the model, tool call, announcement, approval, result, answer | a model that sends anything, a failure of any call, the iteration limit |
| Web sessions and login (`login.go`, `ratelimit.go`, `store_user.go`) | accounts, sessions and login attempts in memory | login, logout, the session check, the sliding window, creation and deletion of accounts | requests of one session at the same time, each writing its copy back; deletion of an account with a session; attempts at the window's edge |
| Origin check (`cmd/web/cross-site-request-forgery.go`) | none: a decision on the headers of each request | pass or refuse | browser, `Host` header and proxies spell one origin differently |
| Bearer middleware, discovery, rendering, TLS-or-redirect listener (`http_redirect.go`), assets, configuration, `ctl` | none of their own, or fixed at start | | |

The web handlers call the stores; the agent is a client of the JSON API and
shares no memory with the server. PostgreSQL (READ COMMITTED, row locks,
deadlock detection), fosite and pijul are external: they are modelled from how
the code uses them. `PROJECT.json` lists every component with what is left out,
and every place where the code is exposed to something a test would hardly
reach ("hazards"), with the property that covers it or the reason none does.

## 2. The modules

A definition that ends in `_Something` and is marked "seeded fault" is not part
of a specification: it is what a plausible mistake in the definition after it
would look like, and `PROJECT.json` ("mutants") says which property notices it.

### OAuthTokens, MCOAuthTokens, OAuthTokensProofs

A member of `Grants` names one consent with its code, PKCE session and token
family; a member of `Requests` names a call of `/oauth/token` or
`/oauth/revoke` and the access and refresh token it may create. `authPc` and
`pc` are the positions of the handlers between store calls; each store method
is one action under its Go name. `RotateRefreshToken` is two actions because it
reads `active` without a lock and updates later; revoking a grant and disabling
a client are transactions whose statements pick their rows one after the other
(`tx*`) and become visible together. `closed`, `raced` and `forked` are history
variables: which families a revocation has finished with, for which a handler
was past its checks meanwhile, and which had two handlers issuing at once.

### RepoSync, MCRepoSync, RepoSyncProofs

`repos` and `marker` are the directories under `$ROOT/repo` and their marker
files, `path` and `local` the committed rows by internal id. Each process in
`Procs` runs resyncs: `pc` is its place in the scan, `todo`, `slugs`, `entry`
and `uuid` are the local variables of `ResyncFromFilesystem`, `tx` is what its
open transaction has changed, laid over the table (`Visible`). A statement that
meets a row or a key another transaction has changed waits (`Locked`,
`Contended`) and is evaluated when it stops waiting; the first UPDATE keeps the
rows it found when it was issued (`snap`). A marker file is read and written in
two steps, so that two processes can both find none, and `CrashInMarker` leaves
one without a UUID (`Torn`). Operators create, delete, rename and copy
directories between any two steps while at most `MaxBusy` resyncs run; `Crash`
drops a transaction and keeps the files. `SlugOf` says which names slugify to
the same slug. `clean`, `syncs`, `stuck` and `marked` are history variables:
whether a resync runs undisturbed, how many such resyncs have succeeded in a
row, whether one has just failed on a UNIQUE column, and whose first UPDATE has
changed a row.

### TicketQueue, AgentRuns, MCAgentRuns, AgentRunsProofs

`AgentRuns` runs invocations of `agent run` in `Slots`. Tokens are numbered in
the order of issue; `file` is the one in `state.json`, `token` what the server
thinks of each. `Faults` lists the steps at which a call may fail or the process
stop, `Failing` the tickets whose processing fails every time. `TicketQueue` is
what the agent promises: no ticket is begun that is not assigned or that is
completed, none is completed twice, and one that stays assigned is completed,
unless an assigned ticket ahead of it fails every time, because the agent only
tries the first one (`InTurn`, `Served`). Work that has begun is completed even
if the assignment is withdrawn meanwhile; nothing tells the agent.
`ImplementsQueue` is the specification of `TicketQueue`, instantiated with the
variables `assigned` and `completions` of `AgentRuns` and with the tickets in
`ticket` as those taken. The processing of the ticket is one step here;
`ToolLoop` opens it.

### AgentInit, MCAgentInit, AgentInitProofs

Processes on one machine: `Inits` run `agent init`, `Runs` an `agent run` whose
token must be refreshed. An init is also the name of its own authorization:
its `state`, its PKCE verifier and its code. `port` is who listens on the
redirect port, `redirects` are the URLs the user's answers have led to, `call`
the requests the browser has open there; it may send any of these URLs, again
or late, and a stray request. `codeCh` and `errCh` are the two channels of
capacity one behind the `select`. `tmp` and `target` are the files behind the
names `state.json.tmp` and `state.json`, `content` what each file holds, `fd`
the file a process writes to: opening the temporary name a second time
truncates the file the first process is writing, and a rename moves whatever
has the name. `lastSaved` and `overlapped` are history variables.

### ToolLoop, MCToolLoop, ToolLoopProofs

One call of `processTicket`, request by request. `pc` is its progress,
`messages` the conversation, `updates` and `comments` what the server has
stored, `files` what the tools have changed. The model is an environment that
may send any text, any list of calls from `Calls` and any end of its reply.
`PostUpdate` and `PostComment` are the requests to the server: they succeed, or
fail with or without having been carried out. Paths are sequences of
components; `Clean` and `Sandboxed` do to them what the sandbox does. Updates
are cut to a length (`truncateForUpdate`). What that takes away is modelled for
the path of a call, which `WritesAnnounced` is about: `shown` in a call says
whether the 1200 bytes kept of its arguments, and the 2000 kept of its result,
still hold the path; the two are independent, because the arguments may have a
long content before the path and the two texts escape it differently. `files`
keeps with each change the call that made it and whether it succeeded, to say
which update has to name it. Prompts and the wording of updates are left out,
and so is what truncation takes from answers and plans.

### TicketStore, MCTicketStore, TicketStoreProofs

A store method is one transaction: it locks its rows one at a time in the
order of its loaders (`RowsOf`), checks (`Verify`), locks the parent of a reply
(`LockParent`), and writes and commits. `holder` is the lock table; a
transaction that waits on itself through others is `Deadlocked` and PostgreSQL
makes it a `Victim`. Objects are named by the request that creates them.
`body` is what an update read under the lock. Only the handlers whose access
check is the only one have a step of their own for it (`Check`).

### NotificationPages, MCNotificationPages, NotificationPagesProofs

`row`, `lastId` and `inserting` are the table, the sequence behind its ids and
the rows whose transaction is still open; `RepositoryFree` is the lock of the
repository row that an assignment holds. A request without `min_id` gets the
newest page, and `min_id=0` is refused (`cmd/web/pagination.go:28`), so a client
that knows no id starts there. A reader walks from the newest page along
`rel="next"` to the end; or polls, which means that it starts the same way,
follows `rel="next"` as far as it likes, and at any time asks with `min_id` for
what is newer than the newest id it has; or catches up, which means that it asks
once with a `min_id` it knows and then follows `rel="next"`. `ListOlder` is a
page of the first kind and of every link, `Poll` and `ListNewer` are requests
with `min_id`. `shown` is what a reader was sent, `cursor` the `max_id` of the
link it has not followed yet. Rows behind that link, and rows newer than all it
has, are still ahead of a poller; `Through` are the other ids, those it can only
have got past. `promised` and `hidden` are history variables: what it should be
shown, and what it was not allowed to see when it got past it.

### RateLimiter, CrossOrigin, WebSessions, MCWebSessions, WebSessionsProofs

`RateLimiter` is the sliding window: `attempts` is the limiter's map, `log` all
attempts allowed since the last reset, both as sets of numbered entries, because
two attempts at one instant count twice. `CrossOrigin` is the origin check as
operators: `EffectiveSchemeHost` and `NormalizeHostPortForScheme` are the Go
functions, `PassesOriginCheck` the decision of the middleware on a request.
Below it stand the requests browsers and proxies send, and `Outcomes`, the pairs
of "one of the server's own pages made it, and the server can tell" (`own`) and
"it is passed on" that occur among them.

`WebSessions` extends both by `accounts`, the sessions in memory (`store`), the
browsers' cookies (`jar`) and the requests being served (`req`), each with the
copy of its session that the session library made when it began, and with one of
the `Outcomes` if it changes something; one that is not passed on has the kind
`refused`. Login and logout are not behind `requireAuth` and are served without a
session too. `Respond` writes the copy back, as the library does for every request
once an idle timeout is set (`cmd/web/main.go:90`), for refused ones too.
`late` records writes by requests that began when their account was already
deleted.

## 3. What the runs check

| Run | Shows | Bounds |
| --- | --- | --- |
| `oauth_tokens` | a finished revocation leaves its family dead, a disabled client without grants, a family that one handler at a time issues for with one working pair, a consumed code behind every token, and nothing withdrawn working again | 1 consent, 3 requests of any kind: enough for exchange, refresh and a revocation or a replay to overlap; the proofs remove the bound |
| `oauth_rotation_doc` | two refreshes of one token are both answered | same |
| `repo_sync` | no local row without a repository, rows follow marker files through renames, a second undisturbed resync finds whatever was missed, and two resyncs scan at once only while no row is local for one of them | 2 resyncs, 3 names, 2 of them with one slug, 2 UUIDs: two repositories swap or succeed each other while a third name is in the way, and two scans race for one marker or one slug; directories change while at most one resync runs |
| `repo_stuck_doc` | a stale row makes every resync fail | 1 resync, 2 names, 2 UUIDs |
| `agent_runs` | the token file is usable between invocations; refinement of `TicketQueue`, liveness included | 1 slot, 3 tickets of which the second fails every time, so that one is ahead of it and one behind, and which alone may be unassigned; 3 tokens, failures everywhere but between rotation and the state file |
| `agent_overlap` | one completion comment and surviving work for tickets that were not processed twice at once | 2 slots, 2 tickets, one of which may be unassigned and assigned again, 3 tokens, failures everywhere |
| `agent_token_doc` | a failed profile request loses the rotated token | 1 slot, 2 tickets, that fault alone |
| `agent_init` | another init's code is used up only when the user pasted it without its state, `state.json` holds the last authorization saved unless savers overlapped, and the redirect port is always given back | 2 inits, 1 refreshing run, 2 open requests of the browser: enough for each channel to be full, and for three savers at once |
| `tool_loop` | plan mode changes no file, every write was announced, by the name of its file unless that was cut off, and reported when it succeeded, every tool call has its one answer in the conversation, a completion reports the model's own answer | 2 replies of up to 2 calls from 6: a read, writes inside and outside the checkout, one whose path only its result has room for, one whose arguments do not decode, a tool that does not exist; the second reply is the limit |
| `ticket_store` | tickets follow the tracker link, writes happen only under access, one notification per assignment, no lost update and a complete history, and every request ends despite opposite lock orders | 2 requests of any kind, 1 user, 3 existing objects in every arrangement of tickets and comments, so that a reply can name a comment of another ticket; two requests are enough for each deadlock, since each is a cycle of two |
| `notification_pages` | whoever follows the links to the end misses nothing that was there at the first page, and a client that polls from the newest page on misses only what another repository's commit overtook | 4 ids, pages of 2, 2 repositories, a user and another one; 4 ids are two full pages, or one page and an id on each side of it that commits late; three rows of one repository before the first poll leave one behind the link |
| `web_sessions` | a token belongs to one account, an ended session stays ended unless a request in flight held it, a deleted account writes nothing more, the limiter's window is kept, and the origin check passes exactly the own pages | 2 requests at once, 2 logins, 2 successive accounts of one name, 2 attempts per window of 2 ticks, 3 ticks; 4 spellings of 3 hosts, one an IPv6 address, 3 ports, 2 schemes, with and without `--env dev`, up to two proxies: every case the comparison distinguishes |

Symmetry is used for requests, slots, resyncs and repositories, which nothing
orders, and only in runs without liveness. `OrderedSpec` (`ticket_store`)
replaces symmetry of the existing objects, which would not be sound there: of
the arrangements that differ in names only it keeps one.

Deadlock checking is off in the `oauth_*` runs, `agent_init`, `tool_loop`,
`notification_pages` and `web_sessions`: the first two stop when every consent
and request, or every process, has run once, a run of the agent ends, and the
last two may use up their ids, or their logins and ticks, with nothing left to
happen.

The constant bounds are `MaxIds`, `NumNames` and `MaxBusy` (RepoSync),
`MaxTokens` and `Withdrawable` (AgentRuns; `Age` and `InitAgent` leave room for
the refresh they lead to), the size of `Calls` (AgentInit), `MaxIter` and `MaxCalls` (ToolLoop;
the first is the program's own option), `MaxId` (NotificationPages),
`MaxToken`, `MaxTime` and `MaxTimed` (WebSessions: logins, ticks, and the
logins in runs in which the clock moves at all; without the last one the
product of the two is too large), and the sets of requests, consents and inits,
each of which runs once.

### Fairness

`AgentRuns`: the agent is started again and again (`WF` of `Start`), every
invocation ends because its HTTP calls time out (`WF` of `Failure`), and no
call fails for ever (`SF` of the success steps), except for the tickets in
`Failing`. The last one is an assumption about the environment, the same that
`doc/tla/AgentRun.tla` makes.
`AgentInit`: an init that waits in its `select` takes a case that is ready (`WF`
of `TakeCode`, `TakeError` and `Timeout`; the last is ready after three
minutes). Nothing is assumed of the user or the browser.
`TicketStore`: a handler that runs goes on (`WF` of its steps), and PostgreSQL
resolves a deadlock (`WF` of `Victim`); that a request fails is never assumed.
The other models state safety only.

### Where code and documents disagree

With a run that shows it:

- *Rotation* (`oauth.go:1175`, `doc/spec/web.md:78`): the check of `active` is not part of the UPDATE, so two refreshes of one token are both answered.
- *Renamed repositories* (`store_helpers_tx.go:73`, `doc/spec/common.md:125`): a stale row stops every resync, and with it the start of the server.
- *Token file* (`cmd/agent/run.go:104`, `doc/spec/agent.md:60`): the profile is asked for before the rotated token is saved.

Met while modelling; the models have the step, no run is spent on it:

- A resync can leave a repository on disk without a local row when a renamed
  one and a new one compete for a slug (`store_helpers_tx.go:99`,
  `doc/spec/common.md:134`); the next resync heals it (`SecondResyncHeals`).
- Creating a ticket checks no access and makes its author a member
  (`cmd/web/data.go:237`, `doc/spec/web.md:84`).
- `requireAuth` does not look the user up (`cmd/web/login.go:103`), although
  `doc/spec/web.md:82` says it does and destroys the session;
  `DeletedAccountWritesNothing` shows that the handlers behind it make up for
  the writes.
- A session ended by a logout or a login is stored again by a request that was
  in flight (`cmd/web/main.go:90`): this is the exception `shared` in
  `EndedStaysEnded`.
- The next link of a request with `min_id` drops `min_id`
  (`cmd/web/pagination.go:66`), so it leads to older rows and never to the rest
  of the newer ones (`doc/spec/web.md:205`, `:209`).
- An unknown collaboration mode ends a run without an `agent_error` update
  (`cmd/agent/run.go:180`, `doc/usage/agent-running-workflow.md:214`).
- Disabling a client (`doc/spec/common.md:105`) does not reach a handler that
  checked the client before and inserts its rows after; this is the exception
  `raced` in `DisabledClientHasNoGrant` and `ClosedFamilyIsDead`.
- The origin check is inside the session middleware (`cmd/web/main.go:131`), not
  outside it (`doc/spec/web.md:27`), so a refused request still extends its
  session and writes its copy back.
- `created_at` of a version is the start of its transaction
  (`store_ticket.go:733`, `doc/spec/common.md:192`), and two overlapping updates
  may take the lock in the other order; `HistoryKept` therefore goes by ids.
- Login attempts are counted per name as it was typed (`cmd/web/login.go:38`),
  not per username (`doc/spec/web.md:58`): `VerifyUser` trims the name
  (`store_user.go:141`), so a name with spaces around it is a key of its own.
  `WindowKept` speaks of keys, and `TrimSpace` maps them to names.
- A `tool_call` update shows 1200 bytes of the arguments (`cmd/agent/run.go:168`);
  `doc/spec/agent.md:112` calls only results and outputs truncated. A write with
  a long content before its path is announced without the name of its file; this
  is the condition on `shown` in `WritesAnnounced`.
- An update of a comment locks the ticket and the tracker but not the repository
  (`store_ticket.go:650`), so a membership may end between its access check and
  its write; `WritesUnderAccess` leaves these updates out.

Behaviour without a document that says otherwise, which a reader of the code may
not expect:

- A client that polls for notifications starts with the newest page, because
  nothing but an id it knows makes the server go forward
  (`store_notification.go:39`). Older rows that the page has no room for come
  only to a client that follows `rel="next"`; requests with the newest id it has
  never return them.
- A crash between creating and writing a marker file leaves an empty one
  (`util.go:129`), on which every later resync, and the start of the server,
  fails until somebody removes it.
- While no row is local, before the first resync or after one that found nothing,
  two resyncs can scan at once and write two UUIDs for one directory
  (`util.go:114`); what they leave behind the next undisturbed resyncs repair
  (`RowFollowsMarker`, `SecondResyncHeals`).
- All savers of `state.json` use one temporary name (`cmd/agent/state.go:106`).
  Two at once can rename each other's half-written file, or put an older
  authorization over a newer one; this is the exception `overlapped` in
  `StateFollowsSaves`.
- One stray request to the redirect port, or the callback of another init, ends
  the wait for the callback and leads to the prompt (`oauth_init.go:361`). A raw
  code pasted there carries no state; if it is another init's, the server
  rejects it and it is used up.
- A proxy that writes out the default port of an IPv6 host makes the server
  refuse its own pages: `normalizeHostPortForScheme`
  (`cross-site-request-forgery.go:60`) loses the brackets on that side only
  (`Misread`).
- With `--env dev`, behind a proxy that ends TLS and is not trusted, the server
  takes https for http; `Outcomes` leaves this deployment out.

## 4. What is proved

Each `...Proofs` module has an inductive invariant (`IInv`), one lemma per
conjunct or per kind of step that every step keeps it, a theorem `Invariance`,
and one theorem per property. They hold for every value of the constants that
meets the assumptions below; a constant that is only a bound of the model
(`MaxIds`, `MaxBusy`, `MaxTokens`, `MaxTime`, ...) may be any number. Before a
change of a model is proved again, TLC can check the invariant: add it to the
configuration of a module that extends the `...Proofs` module and the `MC`
module's definitions.

| Module | Theorems | Assumed of the constants |
| --- | --- | --- |
| `OAuthTokensProofs` | `TypeOK`, `ClosedFamilyIsDead`, `DisabledClientHasNoGrant`, `OnePairPerFamily`, `TokensConsumeCode`, `NothingComesBack` | every consent has a client |
| `RepoSyncProofs` | `TypeOK`, `NoGhostRepository`, `RowFollowsMarker`, `SecondResyncHeals`; `OneScanAtATime` under `AtMostTwo` | types of the bounds |
| `AgentRunsProofs` | `TypeOK`, `CompletedOnce`, `CompletedWorkSurvives`; `StateFileUsable` under `OneSlot` and `FileSafe`; the steps of `TicketQueue` under `OneSlot` | finitely many invocations at a time (`SlotsFinite`), `ParameterTypes` |
| `AgentInitProofs` | `TypeOK`, `OthersCodeOnlyPasted`, `StateFollowsSaves` | inits, runs and the four marks of file contents are different things (`Distinct`) |
| `ToolLoopProofs` | `TypeOK`, `PlanModeReadOnly`, `WritesAnnounced`, `ConversationAnswered`, `CompletionReportsAnswer` | the limits are positive, the model may say nothing (`BoundsType`, `ContentsType`), the checkout's path is a cleaned one (`RootClean`) |
| `TicketStoreProofs` | `TypeOK`, `HistoryKept`, `WritesUnderAccess`, `TicketInLinkedTracker`, `NotifiedOncePerAssignment` | rows of different tables are different rows (`RowsDiffer`), administrators are users |
| `NotificationPagesProofs` | `TypeOK`, `WalkComplete`, `PassedByOtherRepository` | pages hold 1 to 100 rows, as the handler enforces |
| `WebSessionsProofs` | `TypeOK`, `TokenKeepsUser`, `EndedStaysEnded`, `DeletedAccountWritesNothing`, `WindowKept`, `OnlyOwnPagesPass` | accounts have names, the limiter's numbers are positive, lower-casing is idempotent, no header value is also the mark for a missing one (`HeaderTypes`, `HostTypes`) |

### Why the strengthenings are needed

**OAuthTokens.** That a closed family stays dead needs that no handler is past
its checks for it, that the rows a revocation has picked so far cover what works
(`TxPicked`, `HalfClosed`), and that a code was consumed before the tokens that
would replace it (`CodeConsumed`); `RowsInOrder` says that a handler owns the
rows it will insert, `ClosedForGood`, `DisabledForGood` and `OneIssuer` are what
the history variables mean.

**RepoSync.** The properties speak of the moment a resync that nothing disturbed
commits. `Undisturbed` says what it has achieved for the directories behind it
at every moment before: where it is (`AtEntry`), that its transaction has
unmarked every row and marked again only rows at visited directories (`AtRows`),
that each visited directory's marker is at it (`Settled`) and, from the second
resync on, that it has a row which no later directory can take away (`Rowed`).
The last needs the directories' markers to be different and the rows of slugs to
be in place, which is why one resync is not enough. `OneScanAtATime` has an
invariant of its own (`PairInv`): transactions change different rows
(`RowsApart`), a resync that has marked holds a row local to the others
(`MarkedHold`), and of two that are about to mark one will meet the other's row
(`MarksMeet`). It holds for two resyncs, the server's at its start and one of
`ctl`. With a third it is false: TLC finds two resyncs that mark different rows,
because a third, which found nothing to mark, made a row local between their
snapshots.

**AgentRuns.** One completion comment per ticket needs that a ticket has one
invocation at a time, before its completion (`OneWorker`); the survival of work
needs that what was written is in the checkout until it is recorded
(`WrittenOrRecorded`, `ProducedStays`). The number of comments is bounded by
counting the invocations at work (`CommentsBounded`), which is where the
finiteness of `Slots` comes in. `FileUsable` assumes what the run assumes: one
invocation at a time (`OneSlot`), and no failure between the rotation of the
token and the rename of the state file (`FileSafe`); the run `agent_token_doc`
shows what happens otherwise. `RefinesQueue` maps the initial state and every
step; its invariant adds `Completable`, that only a ticket which can be worked on
gets as far as its comment.

**AgentInit.** `CodesBelong` follows a code from the consent page over the
browser and the channel to the exchange. `FilesFresh` and `OneWriter` say which
file the temporary name stands for: without overlap it is the one of the only
process that writes, and it is never the state file itself.

**ToolLoop.** `AtReply` says which reply the current calls belong to and that the
results since then are theirs, so that the conversation is in order whenever the
model is asked again (`Conversing`). `Announced` ties the write of a tool to the
update before it (`WritesTold`), `WritesReported` to the update after it, and
`ByWrites` says which call changed a file. `Posting` splits the answer's updates into those stored and
those left to post; `Texts` says that a blank answer means that no reply had a
text.

**TicketStore.** `LocksHeld`: the rows up to the next one are locked, and all of
them before the checks. From it `ChecksStand` (what was checked under a lock
stays true to the commit) and `BodyCurrent` (so does what was read). `ChecksStand`
leaves out updates of comments, which do not lock the repository
(`store_ticket.go:650`); the proof attempt with them fails at the removal of a
member between check and commit.

**NotificationPages.** `Locked` is what the lock on a repository means for its
ids: no row of the same repository has a greater id than one whose transaction
is open. With `Polled` (a poller that has begun has an id to go on from, and an
older page to ask for while its link is open) it gives `Passed`, which is
`PassedByOtherRepository` also for rows nobody can see yet. A row a poller gets
past is one that was not committed (`PassedUncommitted`), and no later page
brings one of its repository in between (`StaysOvertaken`). `Walked` says that
what the older pages owe is behind the cursor. A section on ranks proves what
the operators on pages do for every finite set of ids: a page has the rows it
should, what it leaves out is older, and asking for one row more tells whether
there is one.

**WebSessions.** The window needs that entries are numbered apart, and that what
was pruned was out of the window (`KeyInv`); the sessions need that a cookie, a
stored session and a request's copy of it agree on the account. The origin check
is proved by cases on how a host can be spelled; nothing about it is inductive.

### What is only model-checked

- Liveness: the second half of `ImplementsQueue`, `RequestsEnd`, `PortGivenBack`.
  The prover does not reason about fairness (`ENABLED`).
- What `Clean` computes for every path, a fold over a sequence: induction over
  data is out of the prover's reach. `PlanModeReadOnly` and `WritesAnnounced`
  are proved for any `Clean` that leaves the checkout's own path alone.
- The three violations, which are counterexamples.

## 5. Plan

Done: every module of section 2 with its runs, and its type invariant and safety
properties proved. In this order remain:

1. the expiry of tokens and the assertion identifiers of OAuth clients;
2. pure functions: scopes and slugs;
3. `OneScanAtATime` weakened to what holds for any number of resyncs, and an
   abstract specification of the life of a token family that `OAuthTokens`
   implements.

Not planned: the listener that tells TLS from plain HTTP by the first byte of a
connection (a slow client delays the ones behind it by up to five seconds, which
is a matter of time and not of order); and rendering, redirects, assets,
configuration and logging, which have no state that two steps could disagree
about.
