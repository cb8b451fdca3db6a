--------------------------- MODULE WebSessionsProofs ---------------------------
(***************************************************************************)
(* The safety of WebSessions for any number of accounts, browsers,         *)
(* requests in flight and logins: the window of the limiter, the origin    *)
(* check for every host, and the sessions.                                 *)
(***************************************************************************)
EXTENDS WebSessions, FiniteSetTheorems, TLAPS

-----------------------------------------------------------------------------
(* The limiter.                                                            *)

\* The numbers of a key's attempts tell them apart, no entry is made up, and
\* what is pruned was out of the window.
KeyInv(k) ==
  /\ attempts[k] \subseteq log[k] /\ log[k] \subseteq Entries
  /\ IsFiniteSet(log[k])
  /\ \A e \in log[k] : e.no <= Cardinality(log[k])
  /\ InWindow(attempts[k]) = InWindow(log[k])
  /\ Cardinality(InWindow(log[k])) <= Max

LimiterInv == LimiterTypeOK /\ \A k \in Keys : KeyInv(k)

\* What the server does to its limiter.
LimiterNext ==
  \/ Tick \/ Sweep \/ \E k \in Keys : Allow(k) \/ Reset(k)
  \/ attempts' = Nothing /\ log' = Nothing /\ UNCHANGED now
  \/ UNCHANGED limiter

\* An attempt is none of those in the log, so it counts.
LEMMA EntryIsNew ==
  ASSUME LimiterInv, NEW k \in Keys
  PROVE  /\ NewEntry(k) \in Entries \ log[k] /\ NewEntry(k).at > now - Window
         /\ IsFiniteSet(log[k] \union {NewEntry(k)})
         /\ Cardinality(log[k] \union {NewEntry(k)}) = Cardinality(log[k]) + 1
         /\ \A e \in log[k] \union {NewEntry(k)} : e.no <= Cardinality(log[k]) + 1
<1>1. IsFiniteSet(log[k]) /\ Cardinality(log[k]) \in Nat /\ log[k] \subseteq Entries
  BY FS_CardinalityType DEF LimiterInv, KeyInv
<1>2. \A e \in log[k] : e.no \in Nat /\ e.no <= Cardinality(log[k])
  BY <1>1 DEF LimiterInv, KeyInv, Entries
<1>3. /\ NewEntry(k).no = Cardinality(log[k]) + 1 /\ NewEntry(k).at = now
      /\ NewEntry(k) \in Entries
  BY <1>1 DEF NewEntry, Entries, LimiterInv, LimiterTypeOK
<1>4. NewEntry(k) \notin log[k]
  BY <1>1, <1>2, <1>3
<1>5. now > now - Window
  BY LimiterTypes DEF LimiterInv, LimiterTypeOK
<1>6. /\ IsFiniteSet(log[k] \union {NewEntry(k)})
      /\ Cardinality(log[k] \union {NewEntry(k)}) = Cardinality(log[k]) + 1
  BY <1>1, <1>4, FS_AddElement
<1> QED BY <1>1, <1>2, <1>3, <1>4, <1>5, <1>6

\* As time passes the window only loses entries, and sweeps take none of it.
LEMMA WindowShrinks ==
  ASSUME LimiterInv, NEW k \in Keys, now' \in {now, now + 1},
         attempts'[k] \in {attempts[k], Prune(attempts[k])}, log'[k] = log[k]
  PROVE  KeyInv(k)'
<1> USE LimiterTypes DEF LimiterInv, LimiterTypeOK
<1>1. \A e \in log[k] : e.at \in Int
  BY DEF KeyInv, Entries
<1>2. \A e \in log[k] : e.at > now' - Window => e.at > now - Window
  BY <1>1
<1>3. attempts'[k] \subseteq log[k] /\ InWindow(attempts[k]) = InWindow(log[k])
  BY DEF KeyInv, Prune
<1>4. InWindow(attempts[k])' = InWindow(log[k])'
  BY <1>2, <1>3 DEF InWindow, Prune
<1>5. Cardinality(InWindow(log[k])') <= Max
  <2>1. InWindow(log[k])' \subseteq InWindow(log[k])
    BY <1>2 DEF InWindow
  <2>2. IsFiniteSet(InWindow(log[k]))
    BY FS_Subset DEF KeyInv, InWindow
  <2>3. /\ Cardinality(InWindow(log[k])') <= Cardinality(InWindow(log[k]))
        /\ Cardinality(InWindow(log[k])') \in Nat /\ Cardinality(InWindow(log[k])) \in Nat
    BY <2>1, <2>2, FS_Subset, FS_CardinalityType
  <2> QED BY <2>3 DEF KeyInv
<1> QED BY <1>3, <1>4, <1>5 DEF KeyInv

\* An allowed attempt adds one to the window, of which there was room.
LEMMA AttemptCounted ==
  ASSUME LimiterInv, NEW k \in Keys, Admits(k), now' = now,
         attempts'[k] = Prune(attempts[k]) \union {NewEntry(k)},
         log'[k] = log[k] \union {NewEntry(k)}
  PROVE  KeyInv(k)'
<1> DEFINE e == NewEntry(k)
<1>1. /\ e \in Entries /\ e.at > now - Window /\ IsFiniteSet(log'[k])
      /\ \A d \in log'[k] : d.no <= Cardinality(log'[k])
  BY EntryIsNew
<1>2. attempts'[k] \subseteq log'[k] /\ log'[k] \subseteq Entries
  BY <1>1 DEF LimiterInv, KeyInv, Prune
<1>3. /\ InWindow(attempts[k])' = InWindow(attempts[k]) \union {e}
      /\ InWindow(log[k])' = InWindow(log[k]) \union {e}
  <2> HIDE DEF e
  <2> QED BY <1>1 DEF InWindow, Prune, e
<1>4. InWindow(attempts[k]) = InWindow(log[k]) /\ IsFiniteSet(InWindow(log[k]))
  BY FS_Subset DEF LimiterInv, KeyInv, InWindow
<1>5. /\ Cardinality(InWindow(log[k])) < Max
      /\ Cardinality(InWindow(log[k])) \in Nat
  BY <1>4, FS_CardinalityType DEF Admits, Prune, InWindow
<1>6. Cardinality(InWindow(log[k]) \union {e}) <= Max
  BY <1>4, <1>5, FS_AddElement, LimiterTypes
<1> QED BY <1>1, <1>2, <1>3, <1>4, <1>6 DEF KeyInv

\* Sweeps, resets, restarts and attempts keep the limiter's books.
LEMMA LimiterStep == LimiterInv /\ LimiterNext => LimiterInv'
<1> SUFFICES ASSUME LimiterInv, LimiterNext PROVE LimiterInv'
  OBVIOUS
<1>0. LimiterTypeOK /\ \A k \in Keys : KeyInv(k)
  BY DEF LimiterInv
<1>1. LimiterTypeOK'
  <2>1. ASSUME NEW k \in Keys, Allow(k) PROVE LimiterTypeOK'
    <3>1. NewEntry(k) \in Entries
      BY EntryIsNew
    <3> QED BY <1>0, <2>1, <3>1 DEF Allow, Prune, LimiterTypeOK
  <2> QED BY <1>0, <2>1, LimiterTypes
          DEF LimiterNext, Tick, Sweep, Prune, Reset, Nothing, limiter, LimiterTypeOK
<1>2. ASSUME NEW k \in Keys, attempts'[k] = {}, log'[k] = {}, now' = now
      PROVE  KeyInv(k)'
  BY <1>2, FS_EmptySet, LimiterTypes DEF KeyInv, InWindow
<1>3. ASSUME NEW k \in Keys PROVE KeyInv(k)'
  <2>1. CASE Tick \/ Sweep \/ UNCHANGED limiter
    BY <2>1, WindowShrinks DEF Tick, Sweep, limiter
  <2>2. CASE attempts' = Nothing /\ log' = Nothing /\ UNCHANGED now
    BY <1>2, <2>2 DEF Nothing
  <2>3. CASE \E j \in Keys : Allow(j)
    <3>1. PICK j \in Keys : Allow(j)
      BY <2>3
    <3>2. UNCHANGED now
      BY <3>1 DEF Allow
    <3>3. CASE j = k /\ Admits(k)
      <4>1. /\ attempts'[k] = Prune(attempts[k]) \union {NewEntry(k)}
            /\ log'[k] = log[k] \union {NewEntry(k)}
        BY <1>0, <3>1, <3>3 DEF Allow, LimiterTypeOK
      <4> QED BY <3>2, <3>3, <4>1, AttemptCounted
    <3>4. CASE ~(j = k /\ Admits(k))
      <4>1. attempts'[k] \in {attempts[k], Prune(attempts[k])} /\ log'[k] = log[k]
        BY <1>0, <3>1, <3>4 DEF Allow, LimiterTypeOK
      <4> QED BY <3>2, <4>1, WindowShrinks
    <3> QED BY <3>3, <3>4
  <2>4. CASE \E j \in Keys : Reset(j)
    <3>1. PICK j \in Keys : Reset(j)
      BY <2>4
    <3>2. CASE j = k
      BY <1>0, <1>2, <3>1, <3>2 DEF Reset, LimiterTypeOK
    <3>3. CASE j # k
      <4>1. attempts'[k] = attempts[k] /\ log'[k] = log[k] /\ now' = now
        BY <1>0, <3>1, <3>3 DEF Reset, LimiterTypeOK
      <4> QED BY <4>1, WindowShrinks
    <3> QED BY <3>2, <3>3
  <2> QED BY <2>1, <2>2, <2>3, <2>4 DEF LimiterNext
<1> QED BY <1>1, <1>3 DEF LimiterInv

-----------------------------------------------------------------------------
(* The origin check.                                                       *)

\* How a name is written.
Form(name) == IF name \in Literals THEN "bracketed" ELSE "bare"

\* The names of origins are in lower case, and their hosts are hosts.
LEMMA OriginHosts ==
  ASSUME NEW o \in Origins
  PROVE  /\ o.name \in HostNames /\ ToLower[o.name] = o.name
         /\ o.scheme \in Schemes /\ o.port \in Ports
         /\ Sent(o) \in Written(o)
         /\ Sent(o).port = IF o.port = DefaultPort(o.scheme) THEN NoPort ELSE o.port
         /\ \A h \in Written(o) :
              /\ h \in Hosts /\ h # Unset
              /\ h.name \in HostNames /\ ToLower[h.name] = o.name
              /\ h.port \in {o.port, Sent(o).port}
              /\ h.form = Form(o.name)
<1>1. /\ o.name \in HostNames /\ ToLower[o.name] = o.name
      /\ o.scheme \in Schemes /\ o.port \in Ports
  BY HostTypes DEF Origins
<1>2. Sent(o).port = IF o.port = DefaultPort(o.scheme) THEN NoPort ELSE o.port
  BY DEF Sent, HostText
<1>3. Sent(o) \in Written(o)
  <2>1. Sent(o) = HostText(o.name, Sent(o).port)
    BY <1>2 DEF Sent
  <2> QED BY <1>1, <2>1 DEF Written
<1>4. ASSUME NEW h \in Written(o)
      PROVE  /\ h \in Hosts /\ h.name \in HostNames /\ ToLower[h.name] = o.name
             /\ h.port \in {o.port, Sent(o).port}
             /\ h.form = Form(o.name)
  <2>1. PICK n \in HostNames, p \in {o.port, Sent(o).port} :
          ToLower[n] = o.name /\ h = HostText(n, p)
    BY DEF Written
  <2>2. p \in Ports \union {NoPort} /\ Form(n) = Form(o.name)
    BY <1>1, <1>2, <2>1, HostTypes DEF Form
  <2>3. h = [name |-> n, port |-> p, form |-> Form(n)]
        /\ Form(n) \in {"bare", "bracketed"}
    BY <2>1 DEF HostText, Form
  <2> QED BY <2>1, <2>2, <2>3 DEF Hosts
<1>5. \A h \in Hosts : h # Unset
  BY HeaderTypes
<1> QED BY <1>1, <1>2, <1>3, <1>4, <1>5

\* Two hosts of one scheme compare equal when their origins are the same, save
\* the address whose default port is written out.
LEMMA SameHost ==
  ASSUME NEW source \in Origins, NEW target \in Origins,
         source.scheme = target.scheme, NEW h \in Written(target)
  PROVE  NormalizeHostPortForScheme(Sent(source), source.scheme)
           = NormalizeHostPortForScheme(h, target.scheme)
         <=> /\ source = target
             /\ ~(target.name \in Literals /\ h.port = DefaultPort(target.scheme))
<1> DEFINE N(g) == NormalizeHostPortForScheme(g, target.scheme)
           Default == DefaultPort(target.scheme)
<1>1. ASSUME NEW o \in Origins, o.scheme = target.scheme, NEW g \in Written(o)
      PROVE  N(g) = [name |-> o.name,
                     port |-> IF o.port = Default THEN NoPort ELSE o.port,
                     form |-> IF g.port = Default THEN "bare" ELSE Form(o.name)]
  <2>1. /\ g \in Hosts /\ ToLower[g.name] = o.name
        /\ o.port \in Ports /\ g.form = Form(o.name)
        /\ g.port \in {o.port, IF o.port = Default THEN NoPort ELSE o.port}
        /\ NoPort \notin Ports /\ Default \in Ports
    BY <1>1, OriginHosts DEF Ports, NoPort, DefaultPort
  <2>2. g = [name |-> g.name, port |-> g.port, form |-> g.form]
    BY <2>1 DEF Hosts
  <2>3. CASE g.port = NoPort
    BY <2>1, <2>2, <2>3
       DEF NormalizeHostPortForScheme, SplitHostPortDefault
  <2>4. CASE g.port # NoPort /\ g.port = Default
    BY <2>1, <2>2, <2>4
       DEF NormalizeHostPortForScheme, SplitHostPortDefault
  <2>5. CASE g.port # NoPort /\ g.port # Default
    BY <2>1, <2>2, <2>5
       DEF NormalizeHostPortForScheme, SplitHostPortDefault, HostText, Form
  <2> QED BY <2>3, <2>4, <2>5
<1>2. N(Sent(source)) =
        [name |-> source.name,
         port |-> IF source.port = Default THEN NoPort ELSE source.port,
         form |-> Form(source.name)]
  <2>1. Sent(source) \in Written(source) /\ Sent(source).port # Default
    BY OriginHosts DEF NoPort, DefaultPort
  <2> QED BY <1>1, <2>1
<1>3. N(h) = [name |-> target.name,
              port |-> IF target.port = Default THEN NoPort ELSE target.port,
              form |-> IF h.port = Default THEN "bare" ELSE Form(target.name)]
  BY <1>1
<1>4. source = target <=> source.name = target.name /\ source.port = target.port
  BY DEF Origins
<1>5. h.port = Default => target.port = Default
  BY OriginHosts DEF DefaultPort, NoPort
<1>6. NoPort \notin Ports /\ source.port \in Ports /\ target.port \in Ports
  BY OriginHosts DEF NoPort, Ports
<1>7. N(Sent(source)) = N(h) <=>
        /\ source.name = target.name /\ source.port = target.port
        /\ Form(source.name) = IF h.port = Default THEN "bare"
                               ELSE Form(target.name)
  <2> HIDE DEF N, Default
  <2> QED BY <1>2, <1>3, <1>6
<1> QED BY <1>4, <1>5, <1>7 DEF Form

\* What the server takes for the target of a request.
LEMMA EffectiveTarget ==
  ASSUME NEW target \in Origins, NEW route \in Routes(target), NEW r,
         r.tls = route.tls, r.host = route.host, r.trusted = route.trusted,
         r.forwarded = route.headers.forwarded, r.xproto = route.headers.xproto,
         r.xhost = route.headers.xhost
  PROVE  /\ Told(target, route) =>
              /\ EffectiveSchemeHost(r).scheme = target.scheme
              /\ EffectiveSchemeHost(r).host \in Written(target)
         /\ ~Told(target, route) => EffectiveSchemeHost(r).scheme = "http"
<1>1. target.scheme \in Schemes /\ target.scheme # Unset
  BY OriginHosts, HeaderTypes
<1>2. Sent(target) \in Written(target) /\ \A h \in Written(target) : h # Unset
  BY OriginHosts
<1>3. /\ route.host = Sent(target) /\ route.trusted \in BOOLEAN
      /\ \/ route.headers = NoHeaders /\ route.tls = (target.scheme = "https")
         \/ route.headers \in ProxyHeaders(target) /\ route.tls = FALSE
  <2>1. \/ \E t \in BOOLEAN :
             route = [tls |-> target.scheme = "https", host |-> Sent(target),
                      trusted |-> t, headers |-> NoHeaders]
        \/ route \in [tls : {FALSE}, host : {Sent(target)}, trusted : BOOLEAN,
                      headers : ProxyHeaders(target)]
    BY DEF Routes
  <2>2. ASSUME NEW t \in BOOLEAN,
               route = [tls |-> target.scheme = "https", host |-> Sent(target),
                        trusted |-> t, headers |-> NoHeaders]
        PROVE  /\ route.host = Sent(target) /\ route.trusted \in BOOLEAN
               /\ route.headers = NoHeaders /\ route.tls = (target.scheme = "https")
    BY <2>2
  <2>3. ASSUME route \in [tls : {FALSE}, host : {Sent(target)}, trusted : BOOLEAN,
                          headers : ProxyHeaders(target)]
        PROVE  /\ route.host = Sent(target) /\ route.trusted \in BOOLEAN
               /\ route.headers \in ProxyHeaders(target) /\ route.tls = FALSE
    BY <2>3
  <2> QED BY <2>1, <2>2, <2>3
<1>4. CASE ~route.trusted
  BY <1>1, <1>2, <1>3, <1>4 DEF EffectiveSchemeHost, Told, Schemes
<1>5. CASE route.trusted /\ route.headers = NoHeaders
           /\ route.tls = (target.scheme = "https")
  <2>1. r.forwarded = <<>> /\ r.xproto = <<>> /\ r.xhost = <<>>
    BY <1>5 DEF NoHeaders
  <2>2. EffectiveSchemeHost(r) =
          [scheme |-> IF r.tls THEN "https" ELSE "http", host |-> r.host]
    BY <1>5, <2>1 DEF EffectiveSchemeHost, ForwardedSays, FirstOf, Or
  <2>3. EffectiveSchemeHost(r).scheme = target.scheme
    <3>1. r.tls <=> target.scheme = "https"
      BY <1>5
    <3> QED BY <1>1, <2>2, <3>1 DEF Schemes
  <2>4. EffectiveSchemeHost(r).host \in Written(target)
    BY <1>2, <1>3, <2>2
  <2> QED BY <1>5, <2>3, <2>4 DEF Told
<1>6. CASE route.trusted /\ route.headers \in ProxyHeaders(target)
  <2> DEFINE other == [proto |-> "http", host |-> Unset]
  <2>1. PICK h \in Written(target) \union {Unset} :
          \/ route.headers = [NoHeaders EXCEPT
                !.forwarded = <<[proto |-> target.scheme, host |-> h], other>>]
          \/ route.headers = [NoHeaders EXCEPT !.xproto = <<target.scheme, "http">>,
                                               !.xhost = <<h>>]
          \/ route.headers = [NoHeaders EXCEPT
                !.forwarded = <<[proto |-> Unset, host |-> Unset]>>,
                !.xproto = <<target.scheme>>, !.xhost = <<h>>]
    BY <1>6 DEF ProxyHeaders
  <2>2. Or(h, Sent(target)) \in Written(target)
    BY <1>2, <2>1 DEF Or
  <2>3. CASE route.headers = [NoHeaders EXCEPT
               !.forwarded = <<[proto |-> target.scheme, host |-> h], other>>]
    BY <1>1, <1>3, <1>6, <2>2, <2>3
       DEF EffectiveSchemeHost, ForwardedSays, Or, NoHeaders, Told
  <2>4. CASE route.headers = [NoHeaders EXCEPT !.xproto = <<target.scheme, "http">>,
                                               !.xhost = <<h>>]
    BY <1>1, <1>3, <1>6, <2>2, <2>4
       DEF EffectiveSchemeHost, ForwardedSays, FirstOf, Or, NoHeaders, Told
  <2>5. CASE route.headers = [NoHeaders EXCEPT
               !.forwarded = <<[proto |-> Unset, host |-> Unset]>>,
               !.xproto = <<target.scheme>>, !.xhost = <<h>>]
    BY <1>1, <1>3, <1>6, <2>2, <2>5
       DEF EffectiveSchemeHost, ForwardedSays, FirstOf, Or, NoHeaders, Told
  <2> QED BY <2>1, <2>3, <2>4, <2>5
<1> QED BY <1>3, <1>4, <1>5, <1>6

\* The scheme and the host the server works with depend on the route alone.
LEMMA TargetOfRoute ==
  ASSUME NEW target \in Origins, NEW route \in Routes(target), NEW method, NEW path,
         NEW named
  PROVE  EffectiveSchemeHost(Arrives(method, path, named, route))
           = EffectiveSchemeHost(Arrives("POST", "web",
                                   [origin |-> Unset, referer |-> Unset], route))
BY DEF Arrives, EffectiveSchemeHost

\* Whatever the hosts are called and however the proxies write them, a request
\* is passed exactly when it is made by one of the server's own pages.
LEMMA OwnPagesPass == \A o \in Outcomes : o.own = o.passed
<1> SUFFICES ASSUME NEW source \in Origins, NEW target \in Origins,
                    NEW dev \in BOOLEAN, NEW named \in Named(source),
                    NEW route \in Routes(target), NEW method \in {"POST", "DELETE"},
                    dev => Told(target, route)
             PROVE  /\ source = target
                    /\ OriginOrReferer(named) \notin {Unset, Null}
                    /\ target.scheme \in AllowedSchemes(dev)
                    /\ Told(target, route) /\ ~Misread(target, route)
                    <=> PassesOriginCheck(Arrives(method, "web", named, route), dev)
  BY DEF Outcomes
<1> DEFINE r == Arrives(method, "web", named, route)
           eff == EffectiveSchemeHost(r)
           src == OriginOrReferer(r)
           url == [scheme |-> source.scheme, host |-> Sent(source)]
<1>1. src = OriginOrReferer(named) /\ src \in {Unset, Null, url}
  <2>1. url \notin {Unset, Null} /\ Unset # Null
    <3>1. url \in Urls
      BY OriginHosts DEF Urls
    <3> QED BY <3>1, HeaderTypes
  <2>2. r.origin = named.origin /\ r.referer = named.referer
    BY DEF Arrives
  <2>3. named.origin \in {url, Unset, Null} /\ named.referer \in {url, Unset}
    BY DEF Named
  <2> QED BY <2>2, <2>3 DEF OriginOrReferer
<1>2. PassesOriginCheck(r, dev) <=>
        /\ eff.scheme \in AllowedSchemes(dev) /\ src \notin {Unset, Null}
        /\ src.scheme = eff.scheme
        /\ NormalizeHostPortForScheme(src.host, src.scheme)
             = NormalizeHostPortForScheme(eff.host, eff.scheme)
  <2>1. r.method \in Unsafe /\ r.path \notin Exempt
    BY DEF Arrives, Unsafe, Exempt
  <2> HIDE DEF r
  <2> QED BY <2>1 DEF PassesOriginCheck
<1>3. /\ Told(target, route) => eff.scheme = target.scheme /\ eff.host \in Written(target)
      /\ ~Told(target, route) => eff.scheme = "http"
  BY EffectiveTarget DEF Arrives
<1>4. Misread(target, route)
        <=> target.name \in Literals /\ eff.host.port = DefaultPort(target.scheme)
  BY TargetOfRoute DEF Misread
<1>5. CASE ~Told(target, route)
  <2>1. eff.scheme \notin AllowedSchemes(dev)
    BY <1>3, <1>5 DEF AllowedSchemes
  <2> QED BY <1>2, <1>5, <2>1
<1>6. CASE Told(target, route) /\ src \in {Unset, Null}
  BY <1>1, <1>2, <1>6
<1>7. CASE Told(target, route) /\ src \notin {Unset, Null}
  <2> SUFFICES /\ source = target /\ src \notin {Unset, Null}
               /\ target.scheme \in AllowedSchemes(dev)
               /\ Told(target, route) /\ ~Misread(target, route)
               <=> PassesOriginCheck(r, dev)
    BY <1>1
  <2> HIDE DEF r, eff, src
  <2>1. src.scheme = source.scheme /\ src.host = Sent(source)
    BY <1>1, <1>7
  <2>2. CASE source.scheme # target.scheme
    BY <1>1, <1>2, <1>3, <1>7, <2>1, <2>2
  <2>3. CASE source.scheme = target.scheme
    <3>1. NormalizeHostPortForScheme(Sent(source), source.scheme)
            = NormalizeHostPortForScheme(eff.host, target.scheme)
          <=> source = target /\ ~Misread(target, route)
      BY <1>3, <1>4, <1>7, <2>3, SameHost
    <3> QED BY <1>1, <1>2, <1>3, <1>7, <2>1, <2>3, <3>1
  <2> QED BY <2>2, <2>3
<1> QED BY <1>5, <1>6, <1>7

-----------------------------------------------------------------------------
(* The sessions.                                                           *)

Live(s) == req[s] # Idle

\* Which steps the kinds of handlers have.
StepsOfKinds ==
  \A s \in Slots : Live(s) =>
    /\ req[s].pc \in {"allow", "verify", "reset", "renew"} => req[s].kind = "login"
    /\ req[s].kind = "login" => req[s].key \in Keys
    /\ req[s].pc = "destroy" => req[s].kind = "logout"
    /\ req[s].pc = "check" => req[s].kind = "checked"
    /\ req[s].pc = "write" => req[s].kind \in Writes

\* What a request or the store says of a token is what its login said.
TokensOwned ==
  /\ \A t \in Tokens : store[t] # NoUser => t <= issued
  /\ \A s \in Slots : Live(s) =>
       /\ req[s].token <= issued
       /\ req[s].modified => req[s].token # 0 /\ req[s].user = owner[req[s].token]

\* A session that has ended with nobody else holding it is in no request.
EndedUnheld ==
  /\ ended \subseteq 1..issued
  /\ \A t \in ended \ shared, s \in Slots : Live(s) => req[s].token # t

\* Users in the store and in requests have had an account.
UsersKnown ==
  /\ \A t \in Tokens : store[t] \in created \union {NoUser}
  /\ \A s \in Slots : Live(s) =>
       req[s].user \in created \union {NoUser} /\ req[s].id \in created \union {NoUser}

\* The account of a stale request is gone for good, and no check lets it pass.
StaleStaysStale ==
  \A s \in Slots : Live(s) /\ req[s].stale /\ req[s].kind # "login" =>
    /\ req[s].user \notin accounts
    /\ ~(req[s].pc = "write" /\ req[s].kind = "checked")

IInv ==
  /\ TypeOK /\ LimiterInv /\ StepsOfKinds
  /\ TokensOwned /\ TokenKeepsUser /\ EndedUnheld /\ EndedStaysEnded
  /\ UsersKnown /\ StaleStaysStale /\ DeletedAccountWritesNothing
  /\ OnlyOwnPagesPass

\* Steps of a handler that change at most its progress, and whose account it is.
Moves(s) ==
  Attempt(s) \/ VerifyUser(s) \/ ResetLimiter(s) \/ CheckAccess(s) \/ Write(s)

\* What such a step leaves alone.
LEMMA MovesAlone ==
  ASSUME TypeOK, NEW s \in Slots, Moves(s)
  PROVE  /\ Live(s) /\ req[s] \in Request
         /\ req' \in [Slots -> {Idle} \union Request] /\ req'[s] \in Request
         /\ \A q \in Slots \ {s} : req'[q] = req[q]
         /\ req'[s].kind = req[s].kind /\ req'[s].own = req[s].own
         /\ req'[s].key = req[s].key
         /\ req'[s].token = req[s].token /\ req'[s].user = req[s].user
         /\ req'[s].modified = req[s].modified /\ req'[s].stale = req[s].stale
         /\ req'[s].id \in {req[s].id} \union accounts
         /\ UNCHANGED <<accounts, created, store, issued, jar, owner, ended, shared>>
<1> DEFINE Goal ==
         /\ req' \in [Slots -> {Idle} \union Request] /\ req'[s] \in Request
         /\ \A q \in Slots \ {s} : req'[q] = req[q]
         /\ req'[s].kind = req[s].kind /\ req'[s].own = req[s].own
         /\ req'[s].key = req[s].key
         /\ req'[s].token = req[s].token /\ req'[s].user = req[s].user
         /\ req'[s].modified = req[s].modified /\ req'[s].stale = req[s].stale
         /\ req'[s].id \in {req[s].id} \union accounts
<1>1. Live(s) /\ req[s] \in Request
  <2>1. req[s].pc # "idle"
    BY DEF Moves, Attempt, VerifyUser, ResetLimiter, CheckAccess, Write, At
  <2> QED BY <2>1 DEF TypeOK, Live, Idle
<1>2. ASSUME NEW p \in {"verify", "respond", "renew", "write"}, To(s, p)
      PROVE  Goal
  <2>1. [req[s] EXCEPT !.pc = p] \in Request
    BY <1>1, <1>2 DEF Request
  <2>2. req'[s] = [req[s] EXCEPT !.pc = p]
        /\ \A q \in Slots \ {s} : req'[q] = req[q]
    BY <1>2 DEF To, TypeOK
  <2> QED BY <1>1, <1>2, <2>1, <2>2 DEF To, TypeOK, Request
<1>3. ASSUME NEW i \in accounts,
             req' = [req EXCEPT ![s] = [@ EXCEPT !.pc = "reset", !.id = i]]
      PROVE  Goal
  <2>1. i \in Ids
    BY DEF TypeOK
  <2>2. [req[s] EXCEPT !.pc = "reset", !.id = i] \in Request
    BY <1>1, <2>1 DEF Request
  <2>3. req'[s] = [req[s] EXCEPT !.pc = "reset", !.id = i]
        /\ \A q \in Slots \ {s} : req'[q] = req[q]
    BY <1>3 DEF TypeOK
  <2> QED BY <1>1, <1>3, <2>2, <2>3 DEF TypeOK, Request
<1>4. Goal
  <2> HIDE DEF Goal
  <2> QED BY <1>2, <1>3
          DEF Moves, Attempt, VerifyUser, ResetLimiter, CheckAccess, Write
<1>5. UNCHANGED <<accounts, created, store, issued, jar, owner, ended, shared>>
  BY DEF Moves, Attempt, VerifyUser, ResetLimiter, CheckAccess, Write, db,
         sessions, ghost
<1> QED BY <1>1, <1>4, <1>5

\* A request begins with the session the cookie names, and with what the origin
\* check makes of it.
Begins(s) ==
  \E b \in Browsers, kind \in Kinds, k \in Keys \union {NoKey},
     o \in Outcomes \union {[own |-> TRUE, passed |-> TRUE]} :
    (kind = "login" => k \in Keys) /\ Begin(s, b, kind, k, o)

\* The new request, and all that the step leaves alone.
LEMMA BeginsWith ==
  ASSUME TypeOK, NEW s \in Slots, Begins(s)
  PROVE  /\ ~Live(s) /\ req' \in [Slots -> {Idle} \union Request]
         /\ \A q \in Slots \ {s} : req'[q] = req[q]
         /\ req'[s].pc = First(req'[s].kind) /\ req'[s].kind \in Kinds \union {"refused"}
         /\ req'[s].own <=> req'[s].kind # "refused"
         /\ req'[s].kind = "login" => req'[s].key \in Keys
         /\ req'[s].id = NoUser
         /\ \/ /\ req'[s].token = 0 /\ req'[s].user = NoUser
               /\ ~req'[s].modified /\ ~req'[s].stale
            \/ /\ req'[s].token \in Tokens /\ store[req'[s].token] # NoUser
               /\ req'[s].user = store[req'[s].token]
               /\ req'[s].stale => req'[s].user \notin accounts
         /\ UNCHANGED <<limiter, db, sessions, ghost>>
<1>1. PICK b \in Browsers, kind \in Kinds, k \in Keys \union {NoKey},
           o \in Outcomes \union {[own |-> TRUE, passed |-> TRUE]} :
        (kind = "login" => k \in Keys) /\ Begin(s, b, kind, k, o)
  BY DEF Begins
<1> DEFINE t == IF jar[b] # 0 /\ store[jar[b]] # NoUser THEN jar[b] ELSE 0
           done == IF o.passed THEN kind ELSE "refused"
           user == IF t = 0 THEN NoUser ELSE store[t]
           r == [pc |-> First(done), kind |-> done, own |-> o.own, browser |-> b,
                 key |-> k, token |-> t, user |-> user, id |-> NoUser,
                 modified |-> t # 0, stale |-> t # 0 /\ store[t] \notin accounts]
<1>2. /\ req[s] = Idle /\ req' = [req EXCEPT ![s] = r]
      /\ UNCHANGED <<limiter, db, sessions, ghost>>
  BY <1>1 DEF Begin
<1>3. o.own \in BOOLEAN /\ o.passed \in BOOLEAN /\ o.own = o.passed
  <2>1. CASE o \in Outcomes
    <3>1. o \in [own : BOOLEAN, passed : BOOLEAN]
      BY <2>1 DEF Outcomes
    <3> QED BY <2>1, <3>1, OwnPagesPass
  <2>2. CASE o = [own |-> TRUE, passed |-> TRUE]
    BY <2>2
  <2> QED BY <2>1, <2>2
<1>4. done \in Kinds \union {"refused"} /\ (o.own <=> done # "refused")
  BY <1>3 DEF Kinds, Writes
<1>5. t \in 0..MaxToken /\ (t # 0 => t \in Tokens /\ store[t] # NoUser)
  <2>1. jar[b] \in 0..issued /\ issued \in 0..MaxToken
    BY DEF TypeOK
  <2> QED BY <2>1, BoundTypes DEF Tokens
<1>6. user \in Ids \union {NoUser}
  BY <1>5 DEF TypeOK
<1>7. First(done) \in {"allow", "destroy", "respond", "check", "write"}
  BY <1>4 DEF First, Kinds, Writes
<1> HIDE DEF t, done, user
<1>8. r \in Request
  BY <1>3, <1>4, <1>5, <1>6, <1>7 DEF Request
<1>9. req'[s] = r /\ req' \in [Slots -> {Idle} \union Request]
      /\ \A q \in Slots \ {s} : req'[q] = req[q]
  BY <1>2, <1>8 DEF TypeOK
<1>10. /\ r.pc = First(r.kind) /\ r.kind = done /\ r.id = NoUser /\ r.key = k
       /\ r.token = t /\ r.user = user
       /\ r.own = o.own /\ r.modified = (t # 0)
       /\ r.stale = (t # 0 /\ store[t] \notin accounts)
  OBVIOUS
<1>11. r.token # 0 => r.user = store[r.token]
  BY <1>10 DEF user
<1>12. ~Live(s)
  BY <1>2 DEF Live
<1> QED
  <2> HIDE DEF r
  <2>1. r.own <=> r.kind # "refused"
    BY <1>4, <1>10
  <2>2. r.kind = "login" => r.key \in Keys
    BY <1>1, <1>10 DEF done
  <2>3. CASE t = 0
    <3>1. r.token = 0 /\ ~r.modified /\ ~r.stale
      BY <1>10, <2>3
    <3>2. r.user = NoUser
      BY <1>10, <2>3 DEF user
    <3> QED BY <1>2, <1>4, <1>9, <1>10, <1>12, <2>1, <2>2, <3>1, <3>2
  <2>4. CASE t # 0
    <3>1. /\ r.token \in Tokens /\ store[r.token] # NoUser
          /\ r.user = store[r.token] /\ (r.stale => r.user \notin accounts)
      BY <1>5, <1>10, <1>11, <2>4
    <3> QED BY <1>2, <1>4, <1>9, <1>10, <1>12, <2>1, <2>2, <3>1
  <2> QED BY <2>3, <2>4

\* The step that gives a login its token.
LEMMA RenewsWith ==
  ASSUME TypeOK, NEW s \in Slots, RenewToken(s)
  PROVE  /\ Live(s) /\ req' \in [Slots -> {Idle} \union Request]
         /\ \A q \in Slots \ {s} : req'[q] = req[q]
         /\ req'[s].pc = "respond" /\ req'[s].kind = req[s].kind
         /\ req'[s].key = req[s].key
         /\ req'[s].own = req[s].own /\ req'[s].stale = req[s].stale
         /\ req'[s].token = issued + 1 /\ req'[s].user = req[s].id
         /\ req'[s].id = req[s].id
         /\ issued + 1 \in Tokens /\ issued' = issued + 1
         /\ owner' = [owner EXCEPT ![issued + 1] = req[s].id]
         /\ store' = [u \in Tokens |-> IF u = req[s].token THEN NoUser ELSE store[u]]
         /\ UNCHANGED <<limiter, db, jar, late>>
<1>1. Live(s) /\ req[s] \in Request
  <2>1. req[s].pc # "idle"
    BY DEF RenewToken, At
  <2> QED BY <2>1 DEF TypeOK, Live, Idle
<1>2. issued + 1 \in Tokens /\ issued + 1 \in 0..MaxToken
  BY BoundTypes DEF RenewToken, LoginsLeft, TypeOK, Tokens
<1> DEFINE r == [req[s] EXCEPT !.pc = "respond", !.token = issued + 1,
                               !.user = req[s].id, !.modified = TRUE]
<1>3. req' = [req EXCEPT ![s] = r]
  BY DEF RenewToken
<1>4. r \in Request
  BY <1>1, <1>2 DEF Request
<1>5. /\ r.pc = "respond" /\ r.kind = req[s].kind /\ r.own = req[s].own
      /\ r.key = req[s].key
      /\ r.stale = req[s].stale /\ r.token = issued + 1 /\ r.user = req[s].id
      /\ r.id = req[s].id
  BY <1>1 DEF Request
<1>6. req'[s] = r /\ req' \in [Slots -> {Idle} \union Request]
      /\ \A q \in Slots \ {s} : req'[q] = req[q]
  BY <1>3, <1>4 DEF TypeOK
<1> QED BY <1>1, <1>2, <1>5, <1>6 DEF RenewToken

\* The step that ends a session.
LEMMA DestroysWith ==
  ASSUME TypeOK, NEW s \in Slots, Destroy(s)
  PROVE  /\ Live(s) /\ req' \in [Slots -> {Idle} \union Request]
         /\ \A q \in Slots \ {s} : req'[q] = req[q]
         /\ req'[s].pc = "respond" /\ req'[s].kind = req[s].kind
         /\ req'[s].key = req[s].key
         /\ req'[s].own = req[s].own /\ req'[s].stale = req[s].stale
         /\ req'[s].token = 0 /\ ~req'[s].modified
         /\ req'[s].user = req[s].user /\ req'[s].id = req[s].id
         /\ store' = [t \in Tokens |-> IF t = req[s].token THEN NoUser
                                       ELSE store[t]]
         /\ UNCHANGED <<limiter, db, issued, jar, owner, late>>
<1>1. Live(s) /\ req[s] \in Request
  <2>1. req[s].pc # "idle"
    BY DEF Destroy, At
  <2> QED BY <2>1 DEF TypeOK, Live, Idle
<1> DEFINE r == [req[s] EXCEPT !.pc = "respond", !.token = 0, !.modified = FALSE]
<1>2. req' = [req EXCEPT ![s] = r]
  BY DEF Destroy
<1>3. r \in Request
  <2>1. 0 \in 0..MaxToken
    BY BoundTypes
  <2> QED BY <1>1, <2>1 DEF Request
<1>4. /\ r.pc = "respond" /\ r.kind = req[s].kind /\ r.own = req[s].own
      /\ r.key = req[s].key
      /\ r.stale = req[s].stale /\ r.token = 0 /\ ~r.modified
      /\ r.user = req[s].user /\ r.id = req[s].id
  BY <1>1 DEF Request
<1>5. req'[s] = r /\ req' \in [Slots -> {Idle} \union Request]
      /\ \A q \in Slots \ {s} : req'[q] = req[q]
  BY <1>2, <1>3 DEF TypeOK
<1> QED BY <1>1, <1>4, <1>5 DEF Destroy

\* The steps by what they do to requests.
LEMMA StepCases ==
  Next => \/ Clock \/ Restart
          \/ \E i \in Ids : CreateUser(i) \/ DeleteUser(i)
          \/ \E t \in Tokens : Expire(t)
          \/ \E s \in Slots : Begins(s) \/ Moves(s) \/ RenewToken(s) \/ Destroy(s)
                            \/ Respond(s)
<1>1. ASSUME NEW s \in Slots, NEW b \in Browsers, NEW k \in Keys, NEW o \in Outcomes,
             Begin(s, b, "login", k, o)
      PROVE  Begins(s)
  BY <1>1 DEF Begins, Kinds
<1>2. ASSUME NEW s \in Slots, NEW b \in Browsers,
             NEW kind \in Kinds \ {"login", "page"},
             NEW o \in Outcomes, Begin(s, b, kind, NoKey, o)
      PROVE  Begins(s)
  <2>1. /\ kind \in Kinds /\ kind # "login" /\ NoKey \in Keys \union {NoKey}
        /\ o \in Outcomes \union {[own |-> TRUE, passed |-> TRUE]}
    OBVIOUS
  <2> QED BY <1>2, <2>1 DEF Begins
<1>3. ASSUME NEW s \in Slots, NEW b \in Browsers,
             Begin(s, b, "page", NoKey, [own |-> TRUE, passed |-> TRUE])
      PROVE  Begins(s)
  BY <1>3 DEF Begins, Kinds
<1> QED BY <1>1, <1>2, <1>3 DEF Next, Environment, Serve, Moves

\* Every variable keeps its type.
LEMMA TypeStep ==
  /\ TypeOK /\ LimiterInv /\ LimiterInv' /\ StepsOfKinds /\ TokensOwned
  /\ [Next]_vars
  => TypeOK'
<1> SUFFICES ASSUME TypeOK, LimiterInv, LimiterInv', StepsOfKinds,
                    TokensOwned, [Next]_vars
             PROVE  TypeOK'
  OBVIOUS
<1> USE DEF TypeOK, db, sessions, ghost
<1>0. /\ LimiterTypeOK' /\ issued \in Nat /\ MaxToken \in Nat
      /\ NoUser \in Ids \union {NoUser} /\ 1..issued \subseteq Tokens
  BY BoundTypes DEF LimiterInv, Tokens
<1>1. ASSUME Clock PROVE TypeOK'
  BY <1>0, <1>1 DEF Clock
<1>2. ASSUME Restart PROVE TypeOK'
  BY <1>0, <1>2 DEF Restart
<1>3. ASSUME NEW i \in Ids, CreateUser(i) \/ DeleteUser(i) PROVE TypeOK'
  BY <1>0, <1>3 DEF CreateUser, DeleteUser
<1>4. ASSUME NEW t \in Tokens, Expire(t) PROVE TypeOK'
  BY <1>0, <1>4 DEF Expire
<1>5. ASSUME NEW s \in Slots, Begins(s) PROVE TypeOK'
  BY <1>0, <1>5, BeginsWith
<1>6. ASSUME NEW s \in Slots, Moves(s) PROVE TypeOK'
  <2>1. late' \subseteq Writes
    <3>1. CASE Write(s)
      <4>1. req[s].kind \in Writes
        BY <1>6, <3>1, MovesAlone DEF Write, At, StepsOfKinds
      <4> QED BY <3>1, <4>1 DEF Write
    <3> QED BY <1>6, <3>1 DEF Moves, Attempt, VerifyUser, ResetLimiter, CheckAccess
  <2> QED BY <1>0, <1>6, <2>1, MovesAlone
<1>7. ASSUME NEW s \in Slots, RenewToken(s) PROVE TypeOK'
  <2>1. issued + 1 \in 0..MaxToken /\ jar \in [Browsers -> 0..(issued + 1)]
    BY <1>0, <1>7, RenewsWith DEF Tokens
  <2>2. req[s] \in Request /\ req[s].id \in Ids \union {NoUser}
        /\ req[s].token \in 0..MaxToken
    BY <1>7, RenewsWith DEF Live, Request
  <2>3. ended' \subseteq Tokens /\ shared' \subseteq ended'
    BY <2>2, <1>7 DEF RenewToken, Ends, Tokens
  <2>4. store' \in [Tokens -> Ids \union {NoUser}]
        /\ owner' \in [Tokens -> Ids \union {NoUser}]
    BY <1>0, <1>7, <2>2, RenewsWith
  <2> QED BY <1>0, <1>7, <2>1, <2>3, <2>4, RenewsWith
<1>8. ASSUME NEW s \in Slots, Destroy(s) PROVE TypeOK'
  <2>1. req[s] \in Request /\ req[s].token \in 0..MaxToken
    BY <1>8, DestroysWith DEF Live, Request
  <2>2. ended' \subseteq Tokens /\ shared' \subseteq ended'
    BY <2>1, <1>8 DEF Destroy, Ends, Tokens
  <2>3. store' \in [Tokens -> Ids \union {NoUser}]
    BY <1>0, <1>8, DestroysWith
  <2> QED BY <1>0, <1>8, <2>2, <2>3, DestroysWith
<1>9. ASSUME NEW s \in Slots, Respond(s) PROVE TypeOK'
  <2>1. Live(s) /\ req[s] \in Request /\ req[s].token \in 0..issued
    <3>1. req[s].pc # "idle"
      BY <1>9 DEF Respond, At
    <3>2. Live(s)
      BY <3>1 DEF Live, Idle
    <3> QED BY <3>2 DEF Live, TokensOwned, Request
  <2>2. jar' \in [Browsers -> 0..issued]
    BY <1>9, <2>1 DEF Respond
  <2>3. store' \in [Tokens -> Ids \union {NoUser}]
    BY <1>9, <2>1 DEF Respond, Request
  <2> QED BY <1>0, <1>9, <2>2, <2>3 DEF Respond
<1>10. CASE UNCHANGED vars
  BY <1>0, <1>10 DEF vars
<1> QED
  BY <1>1, <1>2, <1>3, <1>4, <1>5, <1>6, <1>7, <1>8, <1>9, <1>10, StepCases

\* Every step treats the limiter as one of its operations.
LEMMA LimiterSteps == TypeOK /\ StepsOfKinds /\ [Next]_vars => LimiterNext
<1> SUFFICES ASSUME TypeOK, StepsOfKinds, [Next]_vars PROVE LimiterNext
  OBVIOUS
<1>1. ASSUME NEW s \in Slots, Moves(s) PROVE LimiterNext
  <2>1. CASE Attempt(s) \/ ResetLimiter(s)
    <3>1. PICK k \in Keys : k = req[s].key
      BY <1>1, <2>1, MovesAlone DEF StepsOfKinds, Attempt, ResetLimiter, At
    <3> QED BY <2>1, <3>1 DEF Attempt, ResetLimiter, LimiterNext
  <2> QED BY <1>1, <2>1 DEF Moves, VerifyUser, CheckAccess, Write, LimiterNext
<1> QED BY <1>1, RenewsWith, DestroysWith, StepCases, BeginsWith
        DEF LimiterNext, Clock, Restart, CreateUser, DeleteUser, Expire, Respond,
            vars, limiter

\* The kinds of handlers keep to their steps.
LEMMA KindsStep == TypeOK /\ StepsOfKinds /\ [Next]_vars => StepsOfKinds'
<1> SUFFICES ASSUME TypeOK, StepsOfKinds, [Next]_vars PROVE StepsOfKinds'
  OBVIOUS
<1> USE DEF StepsOfKinds, Live
<1>1. ASSUME UNCHANGED req PROVE StepsOfKinds'
  BY <1>1
<1>2. ASSUME NEW s \in Slots,
             \/ req'[s] = Idle
             \/ /\ Live(s) /\ req'[s].pc = "respond"
                /\ req'[s].kind = req[s].kind /\ req'[s].key = req[s].key,
             \A q \in Slots \ {s} : req'[q] = req[q]
      PROVE  StepsOfKinds'
  BY <1>2
<1>3. ASSUME NEW s \in Slots, Begins(s) PROVE StepsOfKinds'
  BY <1>3, BeginsWith DEF First, Kinds, Writes
<1>4. ASSUME NEW s \in Slots, Moves(s) PROVE StepsOfKinds'
  <2>1. /\ Live(s) /\ req'[s].kind = req[s].kind /\ req'[s].key = req[s].key
        /\ \A q \in Slots \ {s} : req'[q] = req[q]
    BY <1>4, MovesAlone
  <2>2. \/ req[s].pc = "allow" /\ req'[s].pc \in {"verify", "respond"}
        \/ req[s].pc = "verify" /\ req'[s].pc \in {"reset", "respond"}
        \/ req[s].pc = "reset" /\ req'[s].pc = "renew"
        \/ req[s].pc = "check" /\ req'[s].pc \in {"write", "respond"}
        \/ req[s].pc = "write" /\ req'[s].pc = "respond"
    <3>1. req[s] \in Request /\ s \in DOMAIN req
      BY <1>4, MovesAlone DEF TypeOK
    <3>2. ASSUME NEW p, To(s, p) PROVE req'[s].pc = p
      BY <3>1, <3>2 DEF To, Request
    <3>3. CASE Attempt(s)
      BY <3>2, <3>3 DEF Attempt, At
    <3>4. CASE VerifyUser(s)
      <4>1. ASSUME NEW i \in accounts,
                   req' = [req EXCEPT ![s] = [@ EXCEPT !.pc = "reset", !.id = i]]
            PROVE  req'[s].pc = "reset"
        BY <3>1, <4>1 DEF Request
      <4> QED BY <3>2, <3>4, <4>1 DEF VerifyUser, At
    <3>5. CASE ResetLimiter(s)
      BY <3>2, <3>5 DEF ResetLimiter, At
    <3>6. CASE CheckAccess(s)
      BY <3>2, <3>6 DEF CheckAccess, At
    <3>7. CASE Write(s)
      BY <3>2, <3>7 DEF Write, At
    <3> QED BY <1>4, <3>3, <3>4, <3>5, <3>6, <3>7 DEF Moves
  <2> QED BY <2>1, <2>2 DEF Writes
<1>5. ASSUME NEW s \in Slots, RenewToken(s) \/ Destroy(s) PROVE StepsOfKinds'
  BY <1>2, <1>5, RenewsWith, DestroysWith
<1>6. ASSUME NEW s \in Slots, Respond(s) PROVE StepsOfKinds'
  BY <1>2, <1>6 DEF Respond, TypeOK
<1>7. ASSUME Restart PROVE StepsOfKinds'
  BY <1>7 DEF Restart
<1> QED
  BY <1>1, <1>3, <1>4, <1>5, <1>6, <1>7, StepCases
     DEF Clock, CreateUser, DeleteUser, Expire, vars

\* A token in use keeps the user its login put there.
LEMMA OwnedStep ==
  TypeOK /\ StepsOfKinds /\ TokensOwned /\ TokenKeepsUser /\ [Next]_vars
    => TokensOwned' /\ TokenKeepsUser'
<1> SUFFICES ASSUME TypeOK, StepsOfKinds, TokensOwned, TokenKeepsUser, [Next]_vars
             PROVE  TokensOwned' /\ TokenKeepsUser'
  OBVIOUS
<1> DEFINE Goal == TokensOwned' /\ TokenKeepsUser'
<1> USE DEF TokensOwned, TokenKeepsUser, Live, db, sessions, ghost
<1>1. ASSUME UNCHANGED <<issued, owner>>,
             \A t \in Tokens : store'[t] \in {store[t], NoUser},
             \A s \in Slots : req'[s] = Idle \/ req'[s] = req[s]
      PROVE  Goal
  BY <1>1
<1>2. ASSUME NEW s \in Slots, Begins(s) PROVE Goal
  <2>1. \/ req'[s].token = 0 /\ ~req'[s].modified
        \/ /\ req'[s].token \in Tokens /\ req'[s].token <= issued
           /\ req'[s].user = owner[req'[s].token] /\ req'[s].token # 0
    BY <1>2, BeginsWith DEF Tokens
  <2>2. 0 <= issued
    BY DEF TypeOK
  <2> QED BY <1>2, <2>1, <2>2, BeginsWith
<1>3. ASSUME NEW s \in Slots, Moves(s) PROVE Goal
  BY <1>3, MovesAlone
<1>4. ASSUME NEW s \in Slots, RenewToken(s) PROVE Goal
  <2>1. /\ issued + 1 # 0 /\ issued <= issued + 1 /\ issued \in Nat
        /\ Tokens \subseteq Nat
    BY DEF TypeOK, Tokens
  <2>2. ASSUME NEW t \in Tokens, t <= issued
        PROVE  owner'[t] = owner[t] /\ t <= issued + 1
    <3>1. t # issued + 1 /\ t <= issued + 1
      BY <2>1, <2>2
    <3> QED BY <1>4, <3>1, RenewsWith DEF TypeOK
  <2>3. owner'[issued + 1] = req[s].id
    BY <1>4, RenewsWith DEF TypeOK
  <2>4. ASSUME NEW q \in Slots \ {s}, Live(q)'
        PROVE  /\ req'[q].token <= issued'
               /\ req'[q].modified => req'[q].token # 0
                                       /\ req'[q].user = owner'[req'[q].token]
    <3>1. req'[q] = req[q] /\ Live(q)
      BY <1>4, <2>4, RenewsWith
    <3>2. req[q].token \in 0..MaxToken
      BY <3>1 DEF TypeOK, Request
    <3> QED BY <1>4, <2>1, <2>2, <3>1, <3>2, RenewsWith, BoundTypes DEF Tokens
  <2>5. ASSUME NEW t \in Tokens, store'[t] # NoUser
        PROVE  t <= issued' /\ store'[t] = owner'[t]
    <3>1. store'[t] = store[t]
      BY <1>4, <2>5, RenewsWith
    <3> QED BY <1>4, <2>2, <2>5, <3>1, RenewsWith
  <2> QED BY <1>4, <2>1, <2>3, <2>4, <2>5, RenewsWith
<1>5. ASSUME NEW s \in Slots, Destroy(s) PROVE Goal
  <2>1. \A t \in Tokens : store'[t] \in {store[t], NoUser}
    BY <1>5, DestroysWith DEF TypeOK
  <2>2. 0 <= issued
    BY DEF TypeOK
  <2> QED BY <1>5, <2>1, <2>2, DestroysWith
<1>6. ASSUME NEW s \in Slots, Respond(s) PROVE Goal
  <2>1. Live(s)
    BY <1>6 DEF Respond, At, Idle
  <2>2. ASSUME NEW t \in Tokens
        PROVE  \/ store'[t] = store[t]
               \/ t <= issued /\ store'[t] = owner[t]
    BY <1>6, <2>1 DEF Respond
  <2> QED BY <1>6, <2>2 DEF Respond, TypeOK
<1>7. ASSUME Restart PROVE Goal
  BY <1>1, <1>7 DEF Restart
<1>8. ASSUME NEW t \in Tokens, Expire(t) PROVE Goal
  BY <1>1, <1>8 DEF Expire, TypeOK
<1> QED
  BY <1>1, <1>2, <1>3, <1>4, <1>5, <1>6, <1>7, <1>8, StepCases
     DEF Clock, CreateUser, DeleteUser, vars

\* A session that has ended comes back only in a request that held it then.
LEMMA EndedStep ==
  TypeOK /\ StepsOfKinds /\ TokensOwned /\ EndedUnheld /\ EndedStaysEnded /\ [Next]_vars
    => EndedUnheld' /\ EndedStaysEnded'
<1> SUFFICES ASSUME TypeOK, StepsOfKinds, TokensOwned, EndedUnheld, EndedStaysEnded,
                    [Next]_vars
             PROVE  EndedUnheld' /\ EndedStaysEnded'
  OBVIOUS
<1> DEFINE Goal == EndedUnheld' /\ EndedStaysEnded'
<1> USE DEF EndedUnheld, EndedStaysEnded, Live, db, sessions, ghost
<1>0. issued \in Nat /\ ended \subseteq Tokens /\ Tokens \subseteq Nat
  BY DEF TypeOK, Tokens
<1>1. ASSUME UNCHANGED <<issued, ended, shared>>,
             \A t \in Tokens : store'[t] \in {store[t], NoUser},
             \A s \in Slots : \/ req'[s] = Idle \/ req'[s] = req[s]
                              \/ Live(s) /\ req'[s].token = req[s].token
      PROVE  Goal
  BY <1>0, <1>1
<1>2. ASSUME NEW s \in Slots, Begins(s) PROVE Goal
  <2>1. \/ req'[s].token = 0
        \/ req'[s].token \in Tokens /\ store[req'[s].token] # NoUser
    BY <1>2, BeginsWith
  <2>2. req'[s].token \notin ended \ shared
    BY <1>0, <2>1 DEF Tokens
  <2>3. /\ UNCHANGED <<issued, store, ended, shared>>
        /\ \A q \in Slots \ {s} : req'[q] = req[q]
    BY <1>2, BeginsWith
  <2> QED BY <2>2, <2>3
<1>3. ASSUME NEW s \in Slots, Moves(s) PROVE Goal
  BY <1>1, <1>3, MovesAlone
<1>4. ASSUME NEW s \in Slots, NEW u \in Nat, Live(s), Ends(s, req[s].token),
             req[s].token <= issued, req[s].token \in 0..MaxToken,
             \A q \in Slots \ {s} : req'[q] = req[q],
             req'[s].token = u, u = 0 \/ u = issued + 1,
             issued' \in {issued, issued + 1},
             \A t \in Tokens : store'[t] = IF t = req[s].token THEN NoUser ELSE store[t]
      PROVE  Goal
  <2>1. /\ ended' = ended \union ({req[s].token} \ {0})
        /\ shared \subseteq shared'
        /\ ended' \subseteq 1..issued /\ ended' \subseteq Tokens
    <3>1. req[s].token # 0 => req[s].token \in 1..issued /\ req[s].token \in Tokens
      BY <1>0, <1>4 DEF Tokens
    <3> QED BY <1>0, <1>4, <3>1 DEF Ends
  <2>2. ended' \subseteq 1..issued'
    BY <1>0, <1>4, <2>1
  <2>3. ASSUME NEW t \in ended' \ shared', NEW q \in Slots, Live(q)'
        PROVE  req'[q].token # t
    <3>1. t \in 1..issued /\ t # u
      BY <1>0, <1>4, <2>1, <2>3
    <3>2. CASE q = s
      BY <1>4, <3>1, <3>2
    <3>3. CASE q # s
      <4>1. req'[q] = req[q] /\ Live(q)
        BY <1>4, <2>3, <3>3
      <4>2. CASE t \in ended \ shared
        BY <4>1, <4>2
      <4>3. CASE t = req[s].token
        BY <1>4, <2>1, <2>3, <3>1, <3>3, <4>1, <4>3 DEF Ends
      <4> QED BY <2>1, <4>2, <4>3
    <3> QED BY <3>2, <3>3
  <2>4. ASSUME NEW t \in ended' \ shared' PROVE store'[t] = NoUser
    BY <1>4, <2>1, <2>4
  <2> QED BY <2>2, <2>3, <2>4
<1>5. ASSUME NEW s \in Slots, RenewToken(s) PROVE Goal
  <2>1. /\ Live(s) /\ Ends(s, req[s].token) /\ issued + 1 \in Nat
        /\ req[s].token <= issued /\ req[s].token \in 0..MaxToken
    BY <1>0, <1>5, RenewsWith DEF RenewToken, TokensOwned, TypeOK, Request
  <2>2. \A t \in Tokens : store'[t] = IF t = req[s].token THEN NoUser ELSE store[t]
    BY <1>5, RenewsWith
  <2> QED BY <1>4, <1>5, <2>1, <2>2, RenewsWith
<1>6. ASSUME NEW s \in Slots, Destroy(s) PROVE Goal
  <2>1. /\ Live(s) /\ Ends(s, req[s].token) /\ 0 \in Nat
        /\ req[s].token <= issued /\ req[s].token \in 0..MaxToken
    BY <1>6, DestroysWith DEF Destroy, TokensOwned, TypeOK, Request
  <2>2. \A t \in Tokens : store'[t] = IF t = req[s].token THEN NoUser ELSE store[t]
    BY <1>6, DestroysWith DEF TypeOK
  <2> QED BY <1>4, <1>6, <2>1, <2>2, DestroysWith
<1>7. ASSUME NEW s \in Slots, Respond(s) PROVE Goal
  <2>1. Live(s)
    BY <1>7 DEF Respond, At, Idle
  <2>2. \A t \in ended \ shared : store'[t] = store[t]
    BY <1>0, <1>7, <2>1 DEF Respond
  <2>3. \A q \in Slots : req'[q] = Idle \/ req'[q] = req[q]
    BY <1>7 DEF Respond, TypeOK
  <2> QED BY <1>7, <2>2, <2>3 DEF Respond
<1>8. ASSUME Restart PROVE Goal
  <2>1. 1..issued \subseteq Tokens
    BY BoundTypes DEF TypeOK, Tokens
  <2>2. /\ ended' = 1..issued /\ issued' = issued
        /\ store' = [t \in Tokens |-> NoUser] /\ req' = [s \in Slots |-> Idle]
    BY <1>8 DEF Restart
  <2> QED BY <2>1, <2>2
<1>9. ASSUME NEW t \in Tokens, Expire(t) PROVE Goal
  BY <1>1, <1>9 DEF Expire, TypeOK
<1> QED
  BY <1>1, <1>2, <1>3, <1>5, <1>6, <1>7, <1>8, <1>9, StepCases
     DEF Clock, CreateUser, DeleteUser, vars

\* No session or request has a user who never had an account.
LEMMA UsersStep == TypeOK /\ UsersKnown /\ [Next]_vars => UsersKnown'
<1> SUFFICES ASSUME TypeOK, UsersKnown, [Next]_vars PROVE UsersKnown'
  OBVIOUS
<1> USE DEF UsersKnown, Live, db, sessions, ghost
<1>0. accounts \subseteq created
  BY DEF TypeOK
<1>1. ASSUME created \subseteq created',
             \A t \in Tokens : store'[t] \in {store[t], NoUser},
             \A s \in Slots : req'[s] = Idle \/ req'[s] = req[s]
      PROVE  UsersKnown'
  BY <1>1
<1>2. ASSUME NEW s \in Slots, Begins(s) PROVE UsersKnown'
  <2>1. req'[s].user \in created \union {NoUser} /\ req'[s].id = NoUser
    BY <1>2, BeginsWith
  <2> QED BY <1>2, <2>1, BeginsWith
<1>3. ASSUME NEW s \in Slots, Moves(s) PROVE UsersKnown'
  BY <1>0, <1>3, MovesAlone
<1>4. ASSUME NEW s \in Slots, RenewToken(s) PROVE UsersKnown'
  BY <1>4, RenewsWith
<1>5. ASSUME NEW s \in Slots, Destroy(s) PROVE UsersKnown'
  BY <1>5, DestroysWith DEF TypeOK
<1>6. ASSUME NEW s \in Slots, Respond(s) PROVE UsersKnown'
  <2>1. Live(s)
    BY <1>6 DEF Respond, At, Idle
  <2>2. \A t \in Tokens : store'[t] \in {store[t], req[s].user}
    BY <1>6 DEF Respond
  <2>3. \A q \in Slots : req'[q] = Idle \/ req'[q] = req[q]
    BY <1>6 DEF Respond, TypeOK
  <2> QED BY <1>6, <2>1, <2>2, <2>3 DEF Respond
<1>7. ASSUME Restart PROVE UsersKnown'
  BY <1>1, <1>7 DEF Restart
<1>8. ASSUME NEW t \in Tokens, Expire(t) PROVE UsersKnown'
  BY <1>1, <1>8 DEF Expire, TypeOK
<1> QED
  BY <1>1, <1>2, <1>3, <1>4, <1>5, <1>6, <1>7, <1>8, StepCases
     DEF Clock, CreateUser, DeleteUser, vars

\* A request of a deleted account is never let through by a check.
LEMMA StaleStep ==
  TypeOK /\ StepsOfKinds /\ UsersKnown /\ StaleStaysStale /\ [Next]_vars
    => StaleStaysStale'
<1> SUFFICES ASSUME TypeOK, StepsOfKinds, UsersKnown, StaleStaysStale, [Next]_vars
             PROVE  StaleStaysStale'
  OBVIOUS
<1> USE DEF StaleStaysStale, Live, db
<1>0. NoUser \notin Ids /\ accounts \subseteq created /\ created \subseteq Ids
  BY AccountTypes DEF TypeOK, NoUser
<1>1. ASSUME accounts' \subseteq accounts,
             \A s \in Slots : req'[s] = Idle \/ req'[s] = req[s]
      PROVE  StaleStaysStale'
  BY <1>1
<1>2. ASSUME NEW s \in Slots, Begins(s) PROVE StaleStaysStale'
  <2>1. /\ UNCHANGED accounts /\ \A q \in Slots \ {s} : req'[q] = req[q]
        /\ req'[s].pc = First(req'[s].kind)
        /\ req'[s].kind \in Kinds \union {"refused"}
        /\ req'[s].stale => req'[s].user \notin accounts
    BY <1>2, BeginsWith
  <2>2. req'[s].kind = "checked" => req'[s].pc # "write"
    BY <2>1 DEF First
  <2> QED BY <2>1, <2>2
<1>3. ASSUME NEW s \in Slots, Moves(s) PROVE StaleStaysStale'
  <2>1. /\ Live(s) /\ UNCHANGED accounts /\ req'[s].kind = req[s].kind
        /\ req'[s].user = req[s].user /\ req'[s].stale = req[s].stale
        /\ \A q \in Slots \ {s} : req'[q] = req[q]
    BY <1>3, MovesAlone
  <2>2. ASSUME req'[s].pc = "write" PROVE req[s].user \in accounts
    <3>1. req[s] \in Request /\ s \in DOMAIN req
      BY <1>3, MovesAlone DEF TypeOK
    <3>2. ASSUME NEW p, To(s, p) PROVE req'[s].pc = p
      BY <3>1, <3>2 DEF To, Request
    <3>3. ASSUME NEW i \in accounts,
                 req' = [req EXCEPT ![s] = [@ EXCEPT !.pc = "reset", !.id = i]]
          PROVE  FALSE
      BY <2>2, <3>1, <3>3 DEF Request
    <3> QED BY <1>3, <2>2, <3>2, <3>3
            DEF Moves, Attempt, VerifyUser, ResetLimiter, CheckAccess, Write
  <2> QED BY <2>1, <2>2
<1>4. ASSUME NEW s \in Slots, RenewToken(s) PROVE StaleStaysStale'
  <2>1. Live(s) /\ req[s].kind = "login"
    BY <1>4, RenewsWith DEF RenewToken, At, StepsOfKinds
  <2> QED BY <1>4, <2>1, RenewsWith
<1>5. ASSUME NEW s \in Slots, Destroy(s) PROVE StaleStaysStale'
  BY <1>5, DestroysWith
<1>6. ASSUME NEW s \in Slots, Respond(s) PROVE StaleStaysStale'
  BY <1>1, <1>6 DEF Respond, TypeOK
<1>7. ASSUME Restart PROVE StaleStaysStale'
  BY <1>1, <1>7 DEF Restart
<1>8. ASSUME NEW i \in Ids, CreateUser(i) PROVE StaleStaysStale'
  <2>1. i \notin created /\ accounts' = accounts \union {i} /\ UNCHANGED req
    BY <1>8 DEF CreateUser
  <2>2. \A s \in Slots : Live(s) => req[s].user # i
    BY <1>0, <1>8, <2>1 DEF UsersKnown
  <2> QED BY <2>1, <2>2
<1>9. ASSUME NEW i \in Ids, DeleteUser(i) PROVE StaleStaysStale'
  BY <1>1, <1>9 DEF DeleteUser
<1> QED
  BY <1>1, <1>2, <1>3, <1>4, <1>5, <1>6, <1>7, <1>8, <1>9, StepCases
     DEF Clock, Expire, vars

\* So a request of a deleted account changes no row.
LEMMA LateStep ==
  /\ TypeOK /\ StepsOfKinds /\ StaleStaysStale /\ DeletedAccountWritesNothing
  /\ [Next]_vars
  => DeletedAccountWritesNothing'
<1> SUFFICES ASSUME TypeOK, StepsOfKinds, StaleStaysStale,
                    DeletedAccountWritesNothing, [Next]_vars
             PROVE  DeletedAccountWritesNothing'
  OBVIOUS
<1> USE DEF DeletedAccountWritesNothing, ghost
<1>1. ASSUME NEW s \in Slots, Moves(s) PROVE late' = {}
  <2>1. CASE Write(s)
    <3>1. /\ Live(s) /\ req[s].pc = "write" /\ req[s].kind # "login"
      BY <1>1, <2>1, MovesAlone DEF Write, At, StepsOfKinds, Writes
    <3>2. ~(req[s].stale /\ TakesEffect(s))
      BY <3>1 DEF StaleStaysStale, TakesEffect
    <3> QED BY <2>1, <3>2 DEF Write
  <2> QED BY <1>1, <2>1
          DEF Moves, Attempt, VerifyUser, ResetLimiter, CheckAccess
<1> QED BY <1>1, BeginsWith, RenewsWith, DestroysWith, StepCases
        DEF Clock, Restart, CreateUser, DeleteUser, Expire, Respond, vars

\* What the origin check has said of a request stays as it is.
LEMMA PagesStep == TypeOK /\ OnlyOwnPagesPass /\ [Next]_vars => OnlyOwnPagesPass'
<1> SUFFICES ASSUME TypeOK, OnlyOwnPagesPass, [Next]_vars PROVE OnlyOwnPagesPass'
  OBVIOUS
<1> USE DEF OnlyOwnPagesPass, Live
<1>1. ASSUME \A s \in Slots : \/ req'[s] = Idle \/ req'[s] = req[s]
                            \/ /\ Live(s) /\ req'[s].kind = req[s].kind
                               /\ req'[s].own = req[s].own
      PROVE  OnlyOwnPagesPass'
  BY <1>1
<1>2. ASSUME NEW s \in Slots, Begins(s) PROVE OnlyOwnPagesPass'
  <2>1. /\ req'[s].own <=> req'[s].kind # "refused"
        /\ \A q \in Slots \ {s} : req'[q] = req[q]
    BY <1>2, BeginsWith
  <2> QED BY <2>1
<1>3. ASSUME NEW s \in Slots, Moves(s) \/ RenewToken(s) \/ Destroy(s)
      PROVE  OnlyOwnPagesPass'
  BY <1>1, <1>3, MovesAlone, RenewsWith, DestroysWith
<1>4. ASSUME NEW s \in Slots, Respond(s) PROVE OnlyOwnPagesPass'
  BY <1>1, <1>4 DEF Respond, TypeOK
<1> QED BY <1>1, <1>2, <1>3, <1>4, StepCases
        DEF Clock, Restart, CreateUser, DeleteUser, Expire, vars

-----------------------------------------------------------------------------
(* The theorems.                                                           *)

\* The limiter starts with no attempts and everything else with no session.
LEMMA InitIInv == Init => IInv
<1> SUFFICES ASSUME Init PROVE IInv
  OBVIOUS
<1> USE DEF Init
<1>1. LimiterInv
  <2>1. LimiterTypeOK
    BY LimiterTypes DEF LimiterInit, Nothing, LimiterTypeOK
  <2>2. ASSUME NEW k \in Keys PROVE KeyInv(k)
    BY FS_EmptySet, LimiterTypes DEF LimiterInit, Nothing, KeyInv, InWindow
  <2> QED BY <2>1, <2>2 DEF LimiterInv
<1>2. TypeOK
  <2>1. 0 \in 0..MaxToken /\ 0 \in 0..0
    BY BoundTypes
  <2> QED BY <1>1, <2>1 DEF TypeOK, LimiterInv
<1>3. \A s \in Slots : ~Live(s)
  BY DEF Live
<1>4. StepsOfKinds /\ TokensOwned /\ TokenKeepsUser /\ EndedUnheld /\ EndedStaysEnded
  BY <1>3 DEF StepsOfKinds, TokensOwned, TokenKeepsUser, EndedUnheld, EndedStaysEnded
<1>5. UsersKnown /\ StaleStaysStale /\ DeletedAccountWritesNothing /\ OnlyOwnPagesPass
  BY <1>3 DEF UsersKnown, StaleStaysStale, DeletedAccountWritesNothing,
              OnlyOwnPagesPass, Live
<1> QED BY <1>1, <1>2, <1>4, <1>5 DEF IInv

\* The inductive invariant: the limiter's books, which account each token and
\* each request in flight belongs to, and which of them have ended.
THEOREM Invariance == Spec => []IInv
<1>1. IInv /\ [Next]_vars => IInv'
  <2> SUFFICES ASSUME IInv, [Next]_vars PROVE IInv'
    OBVIOUS
  <2> USE DEF IInv
  <2>1. StepsOfKinds' /\ LimiterInv'
    BY KindsStep, LimiterSteps, LimiterStep
  <2>2. TypeOK'
    BY <2>1, TypeStep
  <2>3. TokensOwned' /\ TokenKeepsUser'
    BY OwnedStep
  <2>4. EndedUnheld' /\ EndedStaysEnded'
    BY EndedStep
  <2>5. UsersKnown' /\ StaleStaysStale' /\ DeletedAccountWritesNothing'
    BY UsersStep, StaleStep, LateStep
  <2>6. OnlyOwnPagesPass'
    BY PagesStep
  <2> QED BY <2>1, <2>2, <2>3, <2>4, <2>5, <2>6
<1> QED BY <1>1, InitIInv, PTL DEF Spec

\* Every variable keeps its type.
THEOREM TypeCorrect == Spec => []TypeOK
BY Invariance, PTL DEF IInv

\* A token in use is always the same account's, whoever logs in again where.
THEOREM TokensKeepUsers == Spec => []TokenKeepsUser
BY Invariance, PTL DEF IInv

\* A session that was ended while no other request held it is gone for good.
THEOREM EndedForGood == Spec => []EndedStaysEnded
BY Invariance, PTL DEF IInv

\* No request that begins after its account was deleted writes in its name.
THEOREM DeletedSilent == Spec => []DeletedAccountWritesNothing
BY Invariance, PTL DEF IInv

\* No sweep, reset or restart lets a key have more than Max attempts within a
\* window, or takes an attempt that was within it.
THEOREM WindowHolds == Spec => []WindowKept
<1>1. IInv => WindowKept
  BY DEF IInv, LimiterInv, KeyInv, WindowKept
<1> QED BY <1>1, Invariance, PTL

\* The handlers behind the origin check serve the server's own pages and no
\* others, for every set of host names and every spelling of them.
THEOREM OwnPages == Spec => []OnlyOwnPagesPass
BY Invariance, PTL DEF IInv

================================================================================
