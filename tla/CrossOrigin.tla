------------------------------ MODULE CrossOrigin ------------------------------
(***************************************************************************)
(* The origin check in front of the session handlers                       *)
(* (src/cmd/web/cross-site-request-forgery.go): a request that changes     *)
(* something must come from a page of the origin the browser sent it to.   *)
(* The server learns that origin from the connection and the Host header,  *)
(* or, from a trusted proxy, from the headers the proxy adds.              *)
(*                                                                         *)
(* A host is a record of its name, its port as far as it is written, and   *)
(* whether the name stands in brackets.                                    *)
(***************************************************************************)
EXTENDS Naturals, Sequences

CONSTANTS
  HostNames,  \* in every spelling
  ToLower,    \* the lower-case spelling of each
  Literals,   \* IPv6 addresses, bracketed in a URL and before a port
  Unset, Null \* a header that is missing, and one that says "null"

ASSUME HostTypes ==
  /\ ToLower \in [HostNames -> HostNames]
  /\ \A n \in HostNames : ToLower[ToLower[n]] = ToLower[n]
  /\ Literals \subseteq HostNames
  /\ \A n \in HostNames : n \in Literals <=> ToLower[n] \in Literals

Schemes == {"http", "https"}
Unsafe  == {"POST", "PUT", "PATCH", "DELETE"}
Exempt  == {"api", "token", "revoke"}   \* served without a session
NoPort  == "none"
Ports   == {"80", "443", "8443"}

Hosts == [name : HostNames, port : Ports \union {NoPort}, form : {"bare", "bracketed"}]
Urls  == [scheme : Schemes, host : Hosts]

ASSUME HeaderTypes ==
  Unset # Null /\ {Unset, Null} \cap (Schemes \union Hosts \union Urls) = {}

DefaultPort(scheme) == IF scheme = "http" THEN "80" ELSE "443"

HostText(name, port) ==
  [name |-> name, port |-> port,
   form |-> IF name \in Literals THEN "bracketed" ELSE "bare"]

\* CSRFConfig, with and without --env dev.
AllowedSchemes(dev) == IF dev THEN Schemes ELSE {"https"}

\* net.SplitHostPort takes the brackets away; without a port it fails, and the
\* text stays as it is.
SplitHostPortDefault(h) ==
  IF h.port = NoPort THEN h ELSE [h EXCEPT !.form = "bare"]

\* Seeded fault: the port is compared as it is written.
NormalizeHostPortForScheme_KeepsPort(h, scheme) ==
  [h EXCEPT !.name = ToLower[@]]

\* net.JoinHostPort puts the brackets back.
NormalizeHostPortForScheme(h, scheme) ==
  LET s == SplitHostPortDefault(h)
      name == ToLower[s.name]
  IN IF s.port \in {NoPort, DefaultPort(scheme)}
     THEN [s EXCEPT !.name = name, !.port = NoPort]
     ELSE HostText(name, s.port)

\* parseForwardedFirst: the first element, when it says anything.
ForwardedSays(f) == f # <<>> /\ (f[1].proto # Unset \/ f[1].host # Unset)

Or(value, default) == IF value = Unset THEN default ELSE value
FirstOf(list) == IF list = <<>> THEN Unset ELSE list[1]

EffectiveSchemeHost(r) ==
  LET tls == IF r.tls THEN "https" ELSE "http" IN
  IF ~r.trusted
  THEN [scheme |-> tls, host |-> r.host]
  ELSE IF ForwardedSays(r.forwarded)
  THEN [scheme |-> Or(r.forwarded[1].proto, tls),
        host   |-> Or(r.forwarded[1].host, r.host)]
  ELSE [scheme |-> Or(FirstOf(r.xproto), tls), host |-> Or(FirstOf(r.xhost), r.host)]

\* Referer counts only without Origin; "null" is an Origin that does not parse
\* to a host.
OriginOrReferer(r) == IF r.origin # Unset THEN r.origin ELSE r.referer

\* OriginRefererCSRF.
PassesOriginCheck(r, dev) ==
  LET eff == EffectiveSchemeHost(r)
      src == OriginOrReferer(r)
  IN \/ r.method \notin Unsafe \/ r.path \in Exempt
     \/ /\ eff.scheme \in AllowedSchemes(dev)
        /\ src \notin {Unset, Null}
        /\ src.scheme = eff.scheme
        /\ NormalizeHostPortForScheme(src.host, src.scheme)
             = NormalizeHostPortForScheme(eff.host, eff.scheme)

-----------------------------------------------------------------------------
(* The requests of a browser, at the server.                               *)

Origins == [scheme : Schemes, name : {ToLower[n] : n \in HostNames}, port : Ports]

\* A browser leaves a default port out; a proxy may write it, and in any case.
Sent(o) == HostText(o.name, IF o.port = DefaultPort(o.scheme) THEN NoPort ELSE o.port)

Written(o) ==
  {HostText(n, p) : n \in {m \in HostNames : ToLower[m] = o.name},
                    p \in {o.port, Sent(o).port}}

\* How the page is named: by its Origin, its Referer, not at all, or as "null"
\* (a sandboxed or redirected request).
Named(source) ==
  LET url == [scheme |-> source.scheme, host |-> Sent(source)] IN
  [origin : {url}, referer : {url, Unset}]
    \union [origin : {Unset}, referer : {url, Unset}]
    \union [origin : {Null}, referer : {url, Unset}]

NoHeaders == [forwarded |-> <<>>, xproto |-> <<>>, xhost |-> <<>>]

\* What the nearest proxy to the browser says of the target comes first, the
\* host if it likes to; the proxies behind it say other things.
ProxyHeaders(target) ==
  LET other == [proto |-> "http", host |-> Unset] IN
  UNION {{[NoHeaders EXCEPT !.forwarded = <<[proto |-> target.scheme, host |-> h], other>>],
          [NoHeaders EXCEPT !.xproto = <<target.scheme, "http">>, !.xhost = <<h>>],
          [NoHeaders EXCEPT !.forwarded = <<[proto |-> Unset, host |-> Unset]>>,
                            !.xproto = <<target.scheme>>, !.xhost = <<h>>]}
         : h \in Written(target) \union {Unset}}

\* Directly, or through a proxy that ends TLS and may be one that the server
\* does not know.
Routes(target) ==
  {[tls |-> target.scheme = "https", host |-> Sent(target), trusted |-> t,
    headers |-> NoHeaders] : t \in BOOLEAN}
    \union [tls : {FALSE}, host : {Sent(target)}, trusted : BOOLEAN,
            headers : ProxyHeaders(target)]

Arrives(method, path, named, route) ==
  [method |-> method, path |-> path, origin |-> named.origin,
   referer |-> named.referer, tls |-> route.tls, host |-> route.host,
   trusted |-> route.trusted, forwarded |-> route.headers.forwarded,
   xproto |-> route.headers.xproto, xhost |-> route.headers.xhost]

\* The server can tell where the browser sent the request: it came directly, or
\* a proxy that ended TLS says so and is trusted.
Told(target, route) == route.trusted \/ route.tls = (target.scheme = "https")

\* An address whose default port a proxy writes out loses its brackets on one
\* side of the comparison only.
Misread(target, route) ==
  LET nobody == [origin |-> Unset, referer |-> Unset]
      host   == EffectiveSchemeHost(Arrives("POST", "web", nobody, route)).host
  IN target.name \in Literals /\ host.port = DefaultPort(target.scheme)

\* What can become of a request that changes something: whether one of the
\* server's own pages made it and the server can tell, and whether it is passed
\* on.  In dev mode no unknown proxy ends TLS: the server would take https for
\* http, and pages of http://host for those of https://host.
Outcomes ==
  {o \in [own : BOOLEAN, passed : BOOLEAN] :
    \E source, target \in Origins, dev \in BOOLEAN : \E named \in Named(source) :
      \E route \in Routes(target), method \in {"POST", "DELETE"} :
        /\ dev => Told(target, route)
        /\ o = [own |-> /\ source = target
                        /\ OriginOrReferer(named) \notin {Unset, Null}
                        /\ target.scheme \in AllowedSchemes(dev)
                        /\ Told(target, route)
                        /\ ~Misread(target, route),
                passed |->
                  PassesOriginCheck(Arrives(method, "web", named, route), dev)]}
================================================================================
