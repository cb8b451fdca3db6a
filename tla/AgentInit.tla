------------------------------- MODULE AgentInit -------------------------------
(***************************************************************************)
(* `agent init` (src/cmd/agent/oauth_init.go) and the state file it shares *)
(* with the token refresh of `agent run` (src/cmd/agent/state.go).         *)
(*                                                                         *)
(* Inits and refreshing runs are processes on one machine: nothing in the  *)
(* code keeps two of them apart.  They share the redirect port, the        *)
(* browser that answers on it, and one name for the temporary file.  An    *)
(* init also names its own authorization: its `state` parameter, its PKCE  *)
(* verifier and the code the user's approval leads to.                     *)
(***************************************************************************)
EXTENDS Naturals, FiniteSets

CONSTANTS
  Inits,    \* processes that run `agent init` once each
  Runs,     \* processes that run `agent run` with a token about to expire
  Calls,    \* bound: requests the browser sends to the redirect port
  None, Old, Empty, Mixed   \* nobody; the earlier state; no or torn content

ASSUME Distinct ==
  /\ Inits \cap Runs = {}
  /\ {None, Old, Empty, Mixed} \cap (Inits \union Runs) = {}
  /\ None # Old /\ Old \notin {Empty, Mixed} /\ Empty # Mixed

Procs == Inits \union Runs

VARIABLES
  pc,         \* progress of each process
  port,       \* the init that listens on the redirect port
  redirects,  \* redirect URLs the browser has been sent to
  call,       \* requests of the browser: the init that serves it and the URL
  codeCh,     \* the two channels of each init, of capacity one
  errCh,
  code,       \* the code each init goes on with
  pasted,     \* inits whose code was typed in without a state
  spender,    \* server: the init that presented each code
  tmp,        \* the file behind state.json.tmp, named by who created it
  target,     \* the file behind state.json
  content,    \* the authorization each file holds
  fd,         \* the file each process writes
  loaded,     \* the authorization each run read
  lastSaved,  \* ghost: the authorization of the last successful save
  overlapped  \* ghost: two processes were about to replace state.json at once

browser == <<redirects, call>>
capture == <<port, codeCh, errCh>>
grant   == <<code, pasted, spender>>
disk    == <<tmp, target, content, fd>>
ghost   == <<lastSaved, overlapped>>
vars    == <<pc, capture, browser, grant, disk, loaded, ghost>>

Files == Procs \union {Old}

\* A redirect URL: the state it carries and the code, or None for an error.
Queries == [state : Inits \union {None}, code : Inits \union {None}]
Stray   == [state |-> None, code |-> None]

TypeOK ==
  /\ pc \in [Procs -> {"idle", "listen", "select", "prompt", "exchange",
                       "profile", "refresh", "open", "write", "rename",
                       "done", "failed"}]
  /\ port \in Inits \union {None}
  /\ redirects \subseteq Queries
  /\ call \in [Calls -> {None} \union [to : Inits, query : Queries]]
  /\ codeCh \in [Inits -> Inits \union {None}]
  /\ errCh \in [Inits -> BOOLEAN]
  /\ code \in [Inits -> Inits \union {None}] /\ pasted \subseteq Inits
  /\ spender \in [Inits -> Inits \union {None}]
  /\ tmp \in Procs \union {None} /\ target \in Files
  /\ content \in [Files -> Inits \union {Old, Empty, Mixed}]
  /\ fd \in [Procs -> Procs \union {None}]
  /\ loaded \in [Runs -> Inits \union {Old}]
  /\ lastSaved \in Inits \union {Old} /\ overlapped \in BOOLEAN

Init ==
  /\ pc = [p \in Procs |-> "idle"] /\ port = None
  /\ redirects = {} /\ call = [c \in Calls |-> None]
  /\ codeCh = [i \in Inits |-> None] /\ errCh = [i \in Inits |-> FALSE]
  /\ code = [i \in Inits |-> None] /\ pasted = {}
  /\ spender = [i \in Inits |-> None]
  /\ tmp = None /\ target = Old
  /\ content = [f \in Files |-> IF f = Old THEN Old ELSE Empty]
  /\ fd = [p \in Procs |-> None] /\ loaded = [r \in Runs |-> Old]
  /\ lastSaved = Old /\ overlapped = FALSE

Goto(p, from, to) == pc[p] = from /\ pc' = [pc EXCEPT ![p] = to]

-----------------------------------------------------------------------------
(* The user and the browser.                                               *)

\* The user approves or denies an authorization an init has asked for.
Answer(i) ==
  /\ pc[i] # "idle"
  /\ \E granted \in {i, None} :
       redirects' = redirects \union {[state |-> i, code |-> granted]}
  /\ UNCHANGED <<pc, call, capture, grant, disk, loaded, ghost>>

\* The browser loads a redirect URL, again or late, or asks the listening
\* port for something else.
Load(c) ==
  /\ port # None /\ call[c] = None
  /\ \E q \in redirects \union {Stray} :
       call' = [call EXCEPT ![c] = [to |-> port, query |-> q]]
  /\ UNCHANGED <<pc, redirects, capture, grant, disk, loaded, ghost>>

-----------------------------------------------------------------------------
(* receiveAuthCodeLoopback and promptForAuthCode.                          *)

\* Seeded fault: the state parameter is not compared.
AuthCodeFromCallbackQuery_AnyState(i, q) == q.code

\* authCodeFromCallbackQuery: the code, or None for each of its errors.
AuthCodeFromCallbackQuery(i, q) == IF q.state = i THEN q.code ELSE None

\* The endpoints are discovered, verifier and state are drawn.
Start(i) ==
  /\ Goto(i, "idle", "listen")
  /\ UNCHANGED <<capture, browser, grant, disk, loaded, ghost>>

\* The port is taken, or the redirect URI is not one to listen on.
Listen(i) ==
  \/ /\ port = None /\ port' = i /\ Goto(i, "listen", "select")
     /\ UNCHANGED <<codeCh, errCh, browser, grant, disk, loaded, ghost>>
  \/ /\ Goto(i, "listen", "prompt")
     /\ UNCHANGED <<capture, browser, grant, disk, loaded, ghost>>

\* The handler of a callback: what does not fit into a channel is dropped.
Callback(c) ==
  /\ call[c] # None
  /\ LET i == call[c].to
         got == AuthCodeFromCallbackQuery(i, call[c].query)
     IN /\ pc[i] = "select"
        /\ IF got = None
           THEN errCh' = [errCh EXCEPT ![i] = TRUE] /\ UNCHANGED codeCh
           ELSE /\ codeCh' = [codeCh EXCEPT ![i] = IF @ = None THEN got ELSE @]
                /\ UNCHANGED errCh
  /\ call' = [call EXCEPT ![c] = None]
  /\ UNCHANGED <<pc, port, redirects, grant, disk, loaded, ghost>>

\* The deferred Shutdown and Close: the port is free, open requests end, and
\* nobody reads the channels any more.
StopListening(i) ==
  /\ port' = None
  /\ codeCh' = [codeCh EXCEPT ![i] = None]
  /\ errCh' = [errCh EXCEPT ![i] = FALSE]
  /\ call' = [c \in Calls |->
                IF call[c] # None /\ call[c].to = i THEN None ELSE call[c]]
  /\ UNCHANGED redirects

TakeCode(i) ==
  /\ codeCh[i] # None /\ Goto(i, "select", "exchange")
  /\ code' = [code EXCEPT ![i] = codeCh[i]]
  /\ StopListening(i)
  /\ UNCHANGED <<pasted, spender, disk, loaded, ghost>>

TakeError(i) ==
  /\ errCh[i] /\ Goto(i, "select", "prompt")
  /\ StopListening(i)
  /\ UNCHANGED <<grant, disk, loaded, ghost>>

\* Seeded fault: without the third case of the select.
Timeout_Missing(i) ==
  /\ codeCh[i] # None /\ Goto(i, "select", "prompt")
  /\ StopListening(i)
  /\ UNCHANGED <<grant, disk, loaded, ghost>>

\* Three minutes pass, or are over while a channel is ready too.
Timeout(i) ==
  /\ Goto(i, "select", "prompt")
  /\ StopListening(i)
  /\ UNCHANGED <<grant, disk, loaded, ghost>>

\* One line: a redirect URL, whose state is checked, or a raw code, which
\* carries none.  Anything else, and the end of the input, is Fail.
Prompt(i) ==
  /\ Goto(i, "prompt", "exchange")
  /\ \E q \in redirects :
       \/ /\ AuthCodeFromCallbackQuery(i, q) # None
          /\ code' = [code EXCEPT ![i] = AuthCodeFromCallbackQuery(i, q)]
          /\ UNCHANGED pasted
       \/ /\ q.code # None
          /\ code' = [code EXCEPT ![i] = q.code]
          /\ pasted' = pasted \union {i}
  /\ UNCHANGED <<capture, browser, spender, disk, loaded, ghost>>

\* The server accepts a code once and with the verifier of its challenge; a
\* wrong verifier uses the code up all the same.
ExchangeAuthCode(i) ==
  /\ pc[i] = "exchange"
  /\ pc' = [pc EXCEPT ![i] = IF spender[code[i]] = None /\ code[i] = i
                             THEN "profile" ELSE "failed"]
  /\ spender' = [spender EXCEPT ![code[i]] = IF @ = None THEN i ELSE @]
  /\ UNCHANGED <<capture, browser, code, pasted, disk, loaded, ghost>>

FetchProfile(i) ==
  /\ Goto(i, "profile", "open")
  /\ UNCHANGED <<capture, browser, grant, disk, loaded, ghost>>

-----------------------------------------------------------------------------
(* The state file.                                                         *)

\* From these steps on the process is going to replace what is in the file.
Replacing(p) ==
  \/ pc[p] \in {"write", "rename"}
  \/ p \in Runs /\ pc[p] \in {"refresh", "open"}

Overlap(p) ==
  overlapped' = (overlapped \/ \E q \in Procs \ {p} : Replacing(q))

\* Seeded fault: the error of json.Unmarshal is ignored.
LoadState_Unchecked(r) ==
  /\ Goto(r, "idle", "refresh")
  /\ loaded' = [loaded EXCEPT ![r] = content[target]]
  /\ Overlap(r)
  /\ UNCHANGED <<capture, browser, grant, disk, lastSaved>>

\* loadAgentState of a run; a file that does not decode ends it.
LoadState(r) ==
  /\ pc[r] = "idle"
  /\ IF content[target] \in {Empty, Mixed}
     THEN /\ pc' = [pc EXCEPT ![r] = "failed"] /\ UNCHANGED <<loaded, overlapped>>
     ELSE /\ pc' = [pc EXCEPT ![r] = "refresh"]
          /\ loaded' = [loaded EXCEPT ![r] = content[target]]
          /\ Overlap(r)
  /\ UNCHANGED <<capture, browser, grant, disk, lastSaved>>

\* refreshAccessToken and the profile: another token of the same family.
RefreshToken(r) ==
  /\ Goto(r, "refresh", "open")
  /\ UNCHANGED <<capture, browser, grant, disk, loaded, ghost>>

\* Seeded fault: os.WriteFile on the state file itself.
OpenTmp_InPlace(p) ==
  /\ Goto(p, "open", "write")
  /\ tmp' = p /\ target' = p
  /\ fd' = [fd EXCEPT ![p] = p]
  /\ content' = [content EXCEPT ![p] = Empty]
  /\ Overlap(p)
  /\ UNCHANGED <<capture, browser, grant, loaded, lastSaved>>

\* os.WriteFile opens state.json.tmp with O_CREATE and O_TRUNC ...
OpenTmp(p) ==
  /\ Goto(p, "open", "write")
  /\ LET f == IF tmp = None THEN p ELSE tmp
     IN /\ tmp' = f
        /\ fd' = [fd EXCEPT ![p] = f]
        /\ content' = [content EXCEPT ![f] = Empty]
  /\ Overlap(p)
  /\ UNCHANGED <<target, capture, browser, grant, loaded, lastSaved>>

Mine(p) == IF p \in Runs THEN loaded[p] ELSE p

\* ... and writes from its start.  What another process wrote there in the
\* meantime stays behind the end of a shorter state.
WriteTmp(p) ==
  /\ Goto(p, "write", "rename")
  /\ \E c \in {Mine(p), Mixed} :
       /\ c = Mixed => content[fd[p]] # Empty
       /\ content' = [content EXCEPT ![fd[p]] = c]
  /\ UNCHANGED <<tmp, target, fd, capture, browser, grant, loaded, ghost>>

\* os.Rename moves whatever file has the name; without one it fails.
RenameTmp(p) ==
  /\ fd' = [fd EXCEPT ![p] = None]
  /\ IF tmp = None
     THEN /\ Goto(p, "rename", "failed") /\ UNCHANGED <<tmp, target, lastSaved>>
     ELSE /\ Goto(p, "rename", "done")
          /\ target' = tmp /\ tmp' = None /\ lastSaved' = Mine(p)
  /\ UNCHANGED <<content, capture, browser, grant, loaded, overlapped>>

\* A step fails, or the process is stopped; what it opened is closed.
Fail(p) ==
  /\ pc[p] \notin {"done", "failed"}
  /\ pc' = [pc EXCEPT ![p] = "failed"]
  /\ fd' = [fd EXCEPT ![p] = None]
  /\ IF port = p THEN StopListening(p) ELSE UNCHANGED <<capture, browser>>
  /\ UNCHANGED <<tmp, target, content, grant, loaded, ghost>>

-----------------------------------------------------------------------------
Capture(i) == Start(i) \/ Listen(i) \/ TakeCode(i) \/ TakeError(i) \/ Timeout(i)

Save(p) == OpenTmp(p) \/ WriteTmp(p) \/ RenameTmp(p)

Next ==
  \/ \E i \in Inits : Answer(i) \/ Capture(i) \/ Prompt(i)
                      \/ ExchangeAuthCode(i) \/ FetchProfile(i)
  \/ \E c \in Calls : Load(c) \/ Callback(c)
  \/ \E r \in Runs : LoadState(r) \/ RefreshToken(r)
  \/ \E p \in Procs : Save(p) \/ Fail(p)

\* A process that can go on does; nothing is assumed of the user.
Fairness == \A i \in Inits :
  WF_vars(TakeCode(i)) /\ WF_vars(TakeError(i)) /\ WF_vars(Timeout(i))

Spec == Init /\ [][Next]_vars /\ Fairness

-----------------------------------------------------------------------------
(* Properties.                                                             *)

\* Only a raw code typed in by the user can use up the code of another init,
\* which shares its port and its browser (oauth_init.go:375-394).
OthersCodeOnlyPasted ==
  \A i \in Inits : spender[i] \notin {None, i} => spender[i] \in pasted

\* state.json holds the authorization of the last save that succeeded, whole,
\* at every moment and wherever a process dies, as long as no two processes
\* were replacing it at once (state.go:87-111).
StateFollowsSaves == ~overlapped => content[target] = lastSaved

\* The redirect port is given back, so a later init can listen on it, even
\* when the browser never calls (oauth_init.go:343-354).
PortGivenBack == []<>(port = None)
=============================================================================
