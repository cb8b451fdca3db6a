---------------------------- MODULE AgentInitProofs ----------------------------
(***************************************************************************)
(* The safety of AgentInit for any number of inits, runs and browser       *)
(* requests.  Two inductive invariants: whose code a process can hold, and *)
(* which file the name state.json.tmp stands for.                          *)
(***************************************************************************)
EXTENDS AgentInit, TLAPS

\* A redirect URL with the state of an init carries that init's code.
OwnCode(q) == q.state # None => q.code \in {None, q.state}

\* From the consent page to the exchange, only the prompt mixes up codes.
CodesBelong ==
  /\ \A q \in redirects : OwnCode(q)
  /\ \A c \in Calls : call[c] # None => OwnCode(call[c].query)
  /\ \A i \in Inits : codeCh[i] \in {None, i}
  /\ \A i \in Inits \ pasted : code[i] \in {None, i}
  /\ OthersCodeOnlyPasted

\* A file named by a process exists once the process has opened it; the
\* temporary name never stands for the state file.
FilesFresh ==
  /\ \A p \in Procs :
       p \in {tmp, target} => pc[p] \in {"write", "rename", "done", "failed"}
  /\ tmp # target

Writing(p) == pc[p] \in {"write", "rename"}

\* Without overlap one process writes, to the file it will rename.
OneWriter ==
  ~overlapped =>
    /\ \A p, q \in Procs : Replacing(p) /\ Replacing(q) => p = q
    /\ \A p \in Procs : Writing(p) =>
         /\ tmp # None /\ fd[p] = tmp
         /\ content[tmp] = IF pc[p] = "write" THEN Empty ELSE Mine(p)

IInv ==
  TypeOK /\ CodesBelong /\ FilesFresh /\ OneWriter /\ StateFollowsSaves

-----------------------------------------------------------------------------
(* Types.                                                                  *)

\* None is nobody, and what a process saves is an authorization.
LEMMA Names ==
  /\ None \notin Procs /\ None # Old /\ None \notin Files /\ None \notin Inits
  /\ Old \notin Procs
  /\ TypeOK => \A p \in Procs : Mine(p) \in Inits \union {Old}
<1>1. None \notin Inits /\ None \notin Runs /\ Old \notin Inits /\ Old \notin Runs
      /\ None # Old
  BY Distinct
<1>2. TypeOK => \A p \in Procs : Mine(p) \in Inits \union {Old}
  BY DEF Procs, Mine, TypeOK
<1> QED BY <1>1, <1>2 DEF Procs, Files

\* Every variable keeps its type.
LEMMA TypeStep == TypeOK /\ [Next]_vars => TypeOK'
<1> SUFFICES ASSUME TypeOK, [Next]_vars PROVE TypeOK'
  OBVIOUS
<1> USE DEF TypeOK, browser, capture, grant, disk, ghost, Goto
<1>1. ASSUME NEW i \in Inits, Answer(i) PROVE TypeOK'
  <2>1. redirects' \subseteq Queries
    BY <1>1 DEF Answer, Queries
  <2> QED BY <1>1, <2>1 DEF Answer
<1>2. ASSUME NEW c \in Calls, Load(c) PROVE TypeOK'
  <2>1. Stray \in Queries
    BY DEF Stray, Queries
  <2>2. port \in Inits
    BY <1>2 DEF Load
  <2>3. call' \in [Calls -> {None} \union [to : Inits, query : Queries]]
    BY <1>2, <2>1, <2>2 DEF Load
  <2> QED BY <1>2, <2>3 DEF Load
<1>3. ASSUME NEW c \in Calls, Callback(c) PROVE TypeOK'
  <2>1. call[c].to \in Inits /\ call[c].query \in Queries
    BY <1>3 DEF Callback
  <2>2. AuthCodeFromCallbackQuery(call[c].to, call[c].query) \in Inits \union {None}
    BY <2>1 DEF AuthCodeFromCallbackQuery, Queries
  <2>3. /\ codeCh' \in [Inits -> Inits \union {None}] /\ errCh' \in [Inits -> BOOLEAN]
        /\ call' \in [Calls -> {None} \union [to : Inits, query : Queries]]
    BY <1>3, <2>1, <2>2 DEF Callback
  <2> QED BY <1>3, <2>3 DEF Callback
<1>4. ASSUME NEW i, StopListening(i)
      PROVE  /\ port' \in Inits \union {None}
             /\ redirects' \subseteq Queries
             /\ call' \in [Calls -> {None} \union [to : Inits, query : Queries]]
             /\ codeCh' \in [Inits -> Inits \union {None}]
             /\ errCh' \in [Inits -> BOOLEAN]
  BY <1>4 DEF StopListening
<1>5. ASSUME NEW i \in Inits, Capture(i) PROVE TypeOK'
  <2>0. i \in Procs
    BY DEF Procs
  <2>1. CASE Start(i) \/ Listen(i)
    BY <2>0, <2>1 DEF Start, Listen
  <2>2. CASE TakeCode(i)
    BY <1>4, <2>0, <2>2 DEF TakeCode
  <2>3. CASE TakeError(i) \/ Timeout(i)
    BY <1>4, <2>0, <2>3 DEF TakeError, Timeout
  <2> QED BY <1>5, <2>1, <2>2, <2>3 DEF Capture
<1>6. ASSUME NEW i \in Inits, Prompt(i) PROVE TypeOK'
  <2>1. PICK q \in redirects :
          /\ code' \in {[code EXCEPT ![i] = AuthCodeFromCallbackQuery(i, q)],
                        [code EXCEPT ![i] = q.code]}
          /\ pasted' \in {pasted, pasted \union {i}}
    BY <1>6 DEF Prompt
  <2>2. q.code \in Inits \union {None}
    BY DEF Queries
  <2> QED BY <1>6, <2>1, <2>2 DEF Prompt, AuthCodeFromCallbackQuery, Procs
<1>7. ASSUME NEW i \in Inits, ExchangeAuthCode(i) \/ FetchProfile(i) PROVE TypeOK'
  BY <1>7 DEF ExchangeAuthCode, FetchProfile, Procs
<1>8. ASSUME NEW r \in Runs, LoadState(r) \/ RefreshToken(r) PROVE TypeOK'
  <2>1. CASE LoadState(r)
    <3>1. target \in Files /\ content[target] \in Inits \union {Old, Empty, Mixed}
      OBVIOUS
    <3>2. loaded' \in [Runs -> Inits \union {Old}]
      BY <2>1, <3>1 DEF LoadState
    <3> QED BY <2>1, <3>2 DEF LoadState, Overlap, Procs
  <2>2. CASE RefreshToken(r)
    BY <2>2 DEF RefreshToken, Procs
  <2> QED BY <1>8, <2>1, <2>2
<1>9. ASSUME NEW p \in Procs, Save(p) PROVE TypeOK'
  <2>1. CASE OpenTmp(p)
    BY <2>1 DEF OpenTmp, Overlap, Files
  <2>2. CASE WriteTmp(p)
    <3>1. content' \in [Files -> Inits \union {Old, Empty, Mixed}]
      <4>1. PICK d : d \in {Mine(p), Mixed}
                     /\ content' = [content EXCEPT ![fd[p]] = d]
        BY <2>2 DEF WriteTmp
      <4>2. d \in Inits \union {Old, Empty, Mixed}
        BY <4>1, Names
      <4> QED BY <4>1, <4>2
    <3> QED BY <2>2, <3>1 DEF WriteTmp
  <2>3. CASE RenameTmp(p)
    BY <2>3, Names DEF RenameTmp, Files
  <2> QED BY <1>9, <2>1, <2>2, <2>3 DEF Save
<1>10. ASSUME NEW p \in Procs, Fail(p) PROVE TypeOK'
  <2>1. CASE port = p
    BY <1>4, <1>10, <2>1 DEF Fail
  <2>2. CASE port # p
    BY <1>10, <2>2 DEF Fail
  <2> QED BY <2>1, <2>2
<1>11. CASE UNCHANGED vars
  BY <1>11 DEF vars
<1> QED BY <1>1, <1>2, <1>3, <1>5, <1>6, <1>7, <1>8, <1>9, <1>10, <1>11 DEF Next

-----------------------------------------------------------------------------
(* Whose code.                                                             *)

\* Codes change hands only through the prompt.
LEMMA CodesStep == TypeOK /\ CodesBelong /\ [Next]_vars => CodesBelong'
<1> SUFFICES ASSUME TypeOK, CodesBelong, [Next]_vars PROVE CodesBelong'
  OBVIOUS
<1> USE DEF CodesBelong, OwnCode, OthersCodeOnlyPasted, browser, capture, grant,
            disk, ghost, Goto
<1>1. ASSUME UNCHANGED <<redirects, call, codeCh, code, pasted, spender>>
      PROVE  CodesBelong'
  BY <1>1
<1>2. ASSUME NEW i \in Inits, Answer(i) PROVE CodesBelong'
  BY <1>2 DEF Answer
<1>3. ASSUME NEW c \in Calls, Load(c) PROVE CodesBelong'
  <2>1. PICK q \in redirects \union {Stray} :
          call' = [call EXCEPT ![c] = [to |-> port, query |-> q]]
    BY <1>3 DEF Load
  <2>2. OwnCode(q)
    BY DEF Stray
  <2>3. \A d \in Calls : call'[d] # None => OwnCode(call'[d].query)
    BY <2>1, <2>2 DEF TypeOK
  <2> QED BY <1>3, <2>3 DEF Load
<1>4. ASSUME NEW c \in Calls, Callback(c) PROVE CodesBelong'
  <2> DEFINE i == call[c].to  got == AuthCodeFromCallbackQuery(i, call[c].query)
  <2>1. i \in Inits /\ got \in {None, i}
    BY <1>4, Names DEF Callback, AuthCodeFromCallbackQuery, TypeOK
  <2>2. codeCh' \in {codeCh, [codeCh EXCEPT ![i] = IF @ = None THEN got ELSE @]}
        /\ call' = [call EXCEPT ![c] = None]
    BY <1>4 DEF Callback
  <2>3. \A j \in Inits : codeCh'[j] \in {None, j}
    BY <2>1, <2>2 DEF TypeOK
  <2>4. \A d \in Calls : call'[d] # None => call'[d] = call[d]
    BY <2>2 DEF TypeOK
  <2> QED BY <1>4, <2>3, <2>4 DEF Callback
<1>5. ASSUME NEW i, StopListening(i)
      PROVE  /\ redirects' = redirects
             /\ \A c \in Calls : call'[c] # None => call'[c] = call[c]
             /\ \A j \in Inits : codeCh'[j] \in {None, j}
  BY <1>5 DEF StopListening, TypeOK
<1>6. ASSUME NEW i \in Inits, Capture(i) PROVE CodesBelong'
  <2>1. CASE TakeCode(i)
    <3>1. code' = [code EXCEPT ![i] = codeCh[i]] /\ codeCh[i] = i
      BY <2>1 DEF TakeCode
    <3>2. \A j \in Inits \ pasted : code'[j] \in {None, j}
      BY <3>1 DEF TypeOK
    <3> QED BY <1>5, <2>1, <3>2 DEF TakeCode
  <2>2. CASE TakeError(i) \/ Timeout(i)
    BY <1>5, <2>2 DEF TakeError, Timeout
  <2>3. CASE Start(i) \/ Listen(i)
    BY <1>1, <2>3 DEF Start, Listen
  <2> QED BY <1>6, <2>1, <2>2, <2>3 DEF Capture
<1>7. ASSUME NEW i \in Inits, Prompt(i) PROVE CodesBelong'
  <2>1. PICK q \in redirects :
          \/ /\ code' = [code EXCEPT ![i] = AuthCodeFromCallbackQuery(i, q)]
             /\ UNCHANGED pasted
          \/ /\ code' = [code EXCEPT ![i] = q.code]
             /\ pasted' = pasted \union {i}
    BY <1>7 DEF Prompt
  <2>2. AuthCodeFromCallbackQuery(i, q) \in {None, i}
    BY Names DEF AuthCodeFromCallbackQuery
  <2>3. pasted \subseteq pasted'
    BY <2>1
  <2>4. \A j \in Inits \ pasted' : code'[j] \in {None, j}
    BY <2>1, <2>2 DEF TypeOK
  <2> QED BY <1>7, <2>3, <2>4 DEF Prompt
<1>8. ASSUME NEW i \in Inits, ExchangeAuthCode(i) PROVE CodesBelong'
  <2>1. spender' = [spender EXCEPT ![code[i]] = IF @ = None THEN i ELSE @]
        /\ UNCHANGED <<redirects, call, codeCh, code, pasted>>
    BY <1>8 DEF ExchangeAuthCode
  <2>2. \A j \in Inits : spender'[j] \notin {None, j} => spender'[j] \in pasted
    BY <2>1, Names DEF TypeOK
  <2> QED BY <2>1, <2>2
<1>9. ASSUME NEW p \in Procs, Fail(p) PROVE CodesBelong'
  BY <1>1, <1>5, <1>9 DEF Fail
<1> QED
  BY <1>1, <1>2, <1>3, <1>4, <1>6, <1>7, <1>8, <1>9
     DEF Next, FetchProfile, LoadState, RefreshToken, Save, OpenTmp, WriteTmp,
         RenameTmp, vars

-----------------------------------------------------------------------------
(* Which file.                                                             *)

\* A process opens the temporary file once, so its own file is a new one.
LEMMA FreshStep == TypeOK /\ FilesFresh /\ [Next]_vars => FilesFresh'
<1> SUFFICES ASSUME TypeOK, FilesFresh, [Next]_vars PROVE FilesFresh'
  OBVIOUS
<1> USE Names DEF FilesFresh, TypeOK, browser, capture, grant, disk, ghost, Goto
<1>1. ASSUME NEW p \in Procs, NEW to,
             UNCHANGED <<tmp, target>>, pc' = [pc EXCEPT ![p] = to],
             pc[p] \in {"write", "rename", "done", "failed"}
               => to \in {"write", "rename", "done", "failed"}
      PROVE  FilesFresh'
  BY <1>1
<1>2. ASSUME UNCHANGED <<tmp, target, pc>> PROVE FilesFresh'
  BY <1>2
<1>3. ASSUME NEW i \in Inits,
             Answer(i) \/ Capture(i) \/ Prompt(i) \/ ExchangeAuthCode(i)
               \/ FetchProfile(i)
      PROVE  FilesFresh'
  BY <1>1, <1>2, <1>3
     DEF Procs, Answer, Capture, Start, Listen, TakeCode, TakeError, Timeout,
         Prompt, ExchangeAuthCode, FetchProfile
<1>4. ASSUME NEW r \in Runs, LoadState(r) \/ RefreshToken(r) PROVE FilesFresh'
  BY <1>1, <1>4 DEF Procs, LoadState, RefreshToken
<1>5. ASSUME NEW p \in Procs, Save(p) PROVE FilesFresh'
  <2>1. CASE OpenTmp(p)
    <3>1. tmp' = IF tmp = None THEN p ELSE tmp
      BY <2>1 DEF OpenTmp
    <3>2. UNCHANGED target /\ pc' = [pc EXCEPT ![p] = "write"] /\ pc[p] = "open"
      BY <2>1 DEF OpenTmp
    <3> QED BY <3>1, <3>2
  <2>2. CASE WriteTmp(p)
    BY <1>1, <2>2 DEF WriteTmp
  <2>3. CASE RenameTmp(p)
    BY <2>3 DEF RenameTmp
  <2> QED BY <1>5, <2>1, <2>2, <2>3 DEF Save
<1>6. ASSUME NEW p \in Procs, Fail(p) PROVE FilesFresh'
  BY <1>1, <1>6 DEF Fail
<1> QED BY <1>2, <1>3, <1>4, <1>5, <1>6 DEF Next, Load, Callback, vars

\* While nothing overlaps, the one writer's file is whole when it is renamed.
LEMMA WriterStep ==
  TypeOK /\ FilesFresh /\ OneWriter /\ StateFollowsSaves /\ [Next]_vars
    => OneWriter' /\ StateFollowsSaves'
<1> SUFFICES ASSUME TypeOK, FilesFresh, OneWriter, StateFollowsSaves, [Next]_vars
             PROVE  OneWriter' /\ StateFollowsSaves'
  OBVIOUS
<1> DEFINE Goal == OneWriter' /\ StateFollowsSaves'
<1> USE Names DEF TypeOK, browser, capture, grant, disk, ghost, Goto
<1>1. ASSUME UNCHANGED <<tmp, target, content, loaded, ghost>>,
             \A p \in Procs : Writing(p)' => UNCHANGED <<pc[p], fd[p]>>,
             \A p \in Procs : Replacing(p)' => Replacing(p)
      PROVE  Goal
  <2>1. \A p \in Procs : Mine(p)' = Mine(p)
    BY <1>1 DEF Mine
  <2> QED BY <1>1, <2>1 DEF OneWriter, StateFollowsSaves, Writing
<1>2. ASSUME NEW i \in Inits,
             Answer(i) \/ Capture(i) \/ Prompt(i) \/ ExchangeAuthCode(i)
               \/ FetchProfile(i)
      PROVE  Goal
  <2>1. UNCHANGED <<tmp, target, content, fd, loaded, ghost>>
    BY <1>2 DEF Answer, Capture, Start, Listen, TakeCode, TakeError, Timeout,
                Prompt, ExchangeAuthCode, FetchProfile
  <2>2. PICK to \in {pc[i], "listen", "select", "prompt", "exchange", "profile",
                     "open", "failed"} : pc' = [pc EXCEPT ![i] = to]
    BY <1>2 DEF Answer, Capture, Start, Listen, TakeCode, TakeError, Timeout,
                Prompt, ExchangeAuthCode, FetchProfile, Procs
  <2>3. i \in Procs \ Runs
    BY Distinct DEF Procs
  <2> QED BY <1>1, <2>1, <2>2, <2>3 DEF Replacing, Writing
<1>3. ASSUME NEW r \in Runs, LoadState(r) PROVE Goal
  <2>1. CASE pc' = [pc EXCEPT ![r] = "failed"]
    BY <1>1, <1>3, <2>1 DEF LoadState, Replacing, Writing, Procs
  <2>2. CASE Overlap(r) /\ pc' = [pc EXCEPT ![r] = "refresh"]
    <3>1. UNCHANGED <<tmp, target, content, fd, lastSaved>>
      BY <1>3 DEF LoadState
    <3> QED BY <2>2, <3>1
            DEF Overlap, OneWriter, StateFollowsSaves, Replacing, Writing
  <2> QED BY <1>3, <2>1, <2>2 DEF LoadState
<1>4. ASSUME NEW r \in Runs, RefreshToken(r) PROVE Goal
  BY <1>1, <1>4 DEF RefreshToken, Replacing, Writing, Procs
<1>5. ASSUME NEW p \in Procs, OpenTmp(p) PROVE Goal
  <2>1. /\ pc' = [pc EXCEPT ![p] = "write"] /\ Overlap(p)
        /\ tmp' = IF tmp = None THEN p ELSE tmp
        /\ fd' = [fd EXCEPT ![p] = tmp'] /\ content' = [content EXCEPT ![tmp'] = Empty]
        /\ UNCHANGED <<target, lastSaved>>
    BY <1>5 DEF OpenTmp
  <2>2. tmp' \in Procs /\ tmp' # target /\ tmp' \in Files
    BY <1>5, <2>1 DEF FilesFresh, OpenTmp, Files
  <2>3. content'[target] = content[target] /\ content'[tmp'] = Empty
    BY <2>1, <2>2
  <2>4. ASSUME ~overlapped', NEW q \in Procs, Replacing(q)' PROVE q = p
    BY <2>1, <2>4 DEF Overlap, Replacing
  <2>5. OneWriter'
    BY <2>1, <2>2, <2>3, <2>4 DEF OneWriter, Writing, Replacing
  <2> QED BY <2>1, <2>3, <2>5 DEF StateFollowsSaves, Overlap
<1>6. ASSUME NEW p \in Procs, WriteTmp(p) PROVE Goal
  <2>1. /\ pc[p] = "write" /\ pc' = [pc EXCEPT ![p] = "rename"]
        /\ UNCHANGED <<tmp, target, fd, loaded, ghost>>
    BY <1>6 DEF WriteTmp
  <2> SUFFICES ASSUME ~overlapped PROVE Goal
    BY <2>1 DEF OneWriter, StateFollowsSaves
  <2>2. /\ tmp # None /\ fd[p] = tmp /\ content[tmp] = Empty
        /\ \A q \in Procs : Replacing(q) => q = p
    BY <2>1 DEF OneWriter, Writing, Replacing
  <2>3. content' = [content EXCEPT ![tmp] = Mine(p)] /\ tmp \in Files
    BY <1>6, <2>2 DEF WriteTmp, Files
  <2>4. content'[target] = content[target] /\ content'[tmp] = Mine(p)
    BY <2>3 DEF FilesFresh
  <2>5. Mine(p)' = Mine(p)
    BY <2>1 DEF Mine
  <2>6. ASSUME NEW q \in Procs, Replacing(q)' PROVE q = p
    BY <2>1, <2>2, <2>6 DEF Replacing
  <2> QED BY <2>1, <2>2, <2>4, <2>5, <2>6
          DEF OneWriter, StateFollowsSaves, Writing, Replacing
<1>7. ASSUME NEW p \in Procs, RenameTmp(p) PROVE Goal
  <2>1. /\ pc[p] = "rename" /\ fd' = [fd EXCEPT ![p] = None]
        /\ UNCHANGED <<content, loaded, overlapped>>
    BY <1>7 DEF RenameTmp
  <2> SUFFICES ASSUME ~overlapped PROVE Goal
    BY <2>1 DEF OneWriter, StateFollowsSaves
  <2>2. /\ tmp # None /\ content[tmp] = Mine(p)
        /\ \A q \in Procs : Replacing(q) => q = p
    BY <2>1 DEF OneWriter, Writing, Replacing
  <2>3. /\ pc' = [pc EXCEPT ![p] = "done"]
        /\ target' = tmp /\ lastSaved' = Mine(p)
    BY <1>7, <2>2 DEF RenameTmp
  <2>4. \A q \in Procs : ~Replacing(q)'
    BY <2>2, <2>3 DEF Replacing
  <2> QED BY <2>1, <2>2, <2>3, <2>4
          DEF OneWriter, StateFollowsSaves, Writing, Replacing
<1>8. ASSUME NEW p \in Procs, Fail(p) PROVE Goal
  BY <1>1, <1>8 DEF Fail, Replacing, Writing
<1>9. ASSUME UNCHANGED <<pc, disk, loaded, ghost>> PROVE Goal
  BY <1>1, <1>9 DEF Replacing, Writing
<1> QED
  BY <1>2, <1>3, <1>4, <1>5, <1>6, <1>7, <1>8, <1>9
     DEF Next, Save, Load, Callback, vars

-----------------------------------------------------------------------------
(* The theorems.                                                           *)

\* The initial states satisfy the inductive invariant.
LEMMA InitIInv == Init => IInv
<1> SUFFICES ASSUME Init PROVE IInv
  OBVIOUS
<1>1. TypeOK
  BY DEF Init, TypeOK, Files, Queries
<1>2. CodesBelong
  BY DEF Init, CodesBelong, OthersCodeOnlyPasted
<1>3. FilesFresh /\ OneWriter /\ StateFollowsSaves
  BY Names DEF Init, FilesFresh, OneWriter, Writing, Replacing, StateFollowsSaves,
               Files
<1> QED BY <1>1, <1>2, <1>3 DEF IInv

\* The inductive invariant holds in every reachable state.
THEOREM Invariance == Spec => []IInv
<1>1. IInv /\ [Next]_vars => IInv'
  BY TypeStep, CodesStep, FreshStep, WriterStep DEF IInv
<1> QED BY <1>1, InitIInv, PTL DEF Spec

\* Every variable keeps its type.
THEOREM TypeCorrect == Spec => []TypeOK
<1>1. IInv => TypeOK
  BY DEF IInv
<1> QED BY <1>1, Invariance, PTL

\* However many inits share a port and a browser, none uses up the code of
\* another unless the user types it in (oauth_init.go:375-394).
THEOREM CodesKept == Spec => []OthersCodeOnlyPasted
<1>1. IInv => OthersCodeOnlyPasted
  BY DEF IInv, CodesBelong
<1> QED BY <1>1, Invariance, PTL

\* Wherever a process dies, state.json is the last successful save, as long as
\* no two processes replace it at once (state.go:87-111).
THEOREM SavesKept == Spec => []StateFollowsSaves
<1>1. IInv => StateFollowsSaves
  BY DEF IInv
<1> QED BY <1>1, Invariance, PTL

=============================================================================
