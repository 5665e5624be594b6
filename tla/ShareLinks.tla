----------------------------- MODULE ShareLinks -----------------------------
(***************************************************************************)
(* What a listener takes and what its share links say, on both ends:       *)
(* src/scripts/proxy_inbound.py renders the server's inbounds, for XRay    *)
(* and for sing-box in front of it, and the links; proxy_url_parsers.py    *)
(* makes of a link the outbound a client dials with.                       *)
(*                                                                         *)
(* A link is a record: quoting, base64 and JSON, undone where it is read,  *)
(* are left out.  A secret, a key, a name or a path is a value that can be *)
(* told from others.  Listeners are ones listener_problems accepts.        *)
(***************************************************************************)
EXTENDS Integers, Sequences, FiniteSets, TLC

CONSTANTS
  Address, Onion,     \* of the server
  SingBoxPrints,      \* browser fingerprints sing-box knows; XRay knows more
  None, Refused

SingBoxTypes == {"anytls", "naive", "tuic"}

Or(value, default) == IF value = None THEN default ELSE value
\* None is a parameter the link does not have.
Params(f) == [k \in {k \in DOMAIN f : f[k] # None} |-> f[k]]
Param(params, name, default) == IF name \in DOMAIN params THEN params[name] ELSE default

-----------------------------------------------------------------------------
(* The server                                                              *)

\* Mutant: a user who is switched off is a client like the others.
Active_all(l) == {l.users[i] : i \in DOMAIN l.users}

\* The manager's switched off users are left out; a level rides along.
Active(l) == {l.users[i] : i \in {i \in DOMAIN l.users : l.users[i].active}}

\* An id made of what only the listener and its user have, for sing-box to hand
\* the user's connections on to XRay.
InternalId(l, user) == <<l.tag, user.name, user.secret, IF l.type = "tuic" THEN user.uuid ELSE None>>

\* One key is a Shadowsocks listener's for its only user; of several each has one,
\* and with all switched off one that nobody has keeps it from serving them all.
Clients(l) ==
  LET clients == {[cred |-> IF l.type \in {"socks", "http"} THEN <<user.name, user.secret>>
                            ELSE IF l.type = "shadowsocks" /\ Len(l.users) > 1 THEN <<l.serverPassword, user.secret>>
                            ELSE user.secret,
                   flow |-> IF l.type = "vless" THEN l.flow ELSE None,
                   email |-> user.name] : user \in Active(l)}
  IN  IF l.type = "shadowsocks" /\ clients = {}
      THEN {[cred |-> <<l.serverPassword, <<"nobody">>>>, flow |-> None, email |-> "proxy-suite!nobody"]} ELSE clients

Alpn(l) == Or(l.tls.alpn, IF l.type \in {"hysteria2", "tuic"} THEN <<"h3">> ELSE None)
Security(l) == IF l.reality.enable THEN "reality"
               ELSE IF l.tls.enable \/ l.type \in {"trojan", "hysteria2"} \union SingBoxTypes THEN "tls" ELSE "none"

\* What answers on the listener's own port.
Inbound(l) ==
  [protocol |-> l.type, clients |-> Clients(l), transport |-> l.transport, security |-> Security(l),
   tlsName |-> l.tls.name, names |-> l.reality.names, sids |-> l.reality.sids, alpn |-> Alpn(l), method |-> l.method,
   encryption |-> l.encryption, salamander |-> l.salamander, fallbacks |-> l.fallbacks]

\* XRay's loopback inbound of a listener that sing-box serves, and sing-box's side
\* of it: who logs in as whom, and the outbound each is routed to.
Loopback(l) == {[cred |-> InternalId(l, user), email |-> user.name] : user \in Active(l)}
Logins(l)   == {[name |-> user.name, hop |-> InternalId(l, user),
                 cred |-> IF l.type = "naive" THEN <<user.name, user.secret>>
                          ELSE IF l.type = "tuic" THEN <<user.uuid, user.secret>> ELSE user.secret] : user \in Active(l)}

-----------------------------------------------------------------------------
(* The links                                                               *)

Front(l)       == IF l.front = None THEN l ELSE l.front
SharePort(l)   == Or(l.sharePort, l.port)
ServerOf(l)    == Or(Front(l).shareAddress, Address)
Dialled(l, onion, variant) == IF onion THEN Onion ELSE Or(variant.address, ServerOf(l))

TransportParams(l) ==
  LET t == l.transport
  IN  [type |-> IF t.type = "raw" THEN "tcp" ELSE t.type,
       serviceName |-> IF t.type = "grpc" THEN t.service ELSE None,
       path |-> IF t.type \in {"ws", "httpupgrade", "xhttp"} THEN t.path ELSE None,
       host |-> IF t.type \in {"ws", "httpupgrade", "xhttp"} THEN t.host ELSE None,
       mode |-> IF t.type = "xhttp" THEN t.mode ELSE None]

\* Mutant: a link to a listener behind a fallback has its own security.
SecurityParams_own(l, front) ==
  LET security == Security(l)
  IN  [security |-> security, sni |-> Or(l.tls.name, ServerOf(l)), fp |-> l.fp, pbk |-> None, sid |-> None, alpn |-> l.tls.alpn]

\* The security is the dialled listener's, the fingerprint the link's own.
SecurityParams(l, front) ==
  LET none == [security |-> "none", sni |-> None, fp |-> None, pbk |-> None, sid |-> None, alpn |-> None]
  IN  CASE front.reality.enable ->
             [none EXCEPT !.security = "reality", !.pbk = "key", !.sni = Head(front.reality.names), !.fp = l.fp,
                          !.sid = Head(front.reality.sids)]
        [] Security(front) = "tls" ->
             [none EXCEPT !.security = "tls", !.sni = Or(front.tls.name, ServerOf(l)), !.fp = l.fp, !.alpn = front.tls.alpn]
        [] OTHER -> none

\* Only what the client sends changes with a variant.
Variant(params, variant, type) ==
  [k \in DOMAIN params |->
     CASE k = "fp" /\ params.security # "none" -> Or(variant.fp, params.fp)
       [] k = "alpn" -> IF variant.alpn = <<>> THEN None ELSE Or(variant.alpn, params.alpn)
       [] k = "mode" /\ params.type = "xhttp" -> Or(variant.mode, params.mode)
       [] k = "sni" /\ params.sni # None -> Or(variant.name, params.sni)
       [] k = "mport" /\ ~variant.hop -> None
       [] OTHER -> params[k]]

VmessLink(l, user, endpoint) ==
  [scheme |-> "vmess", user |-> user.secret, host |-> endpoint, port |-> SharePort(l),
   params |-> Params([net |-> IF l.transport.type = "raw" THEN "tcp" ELSE l.transport.type, host |-> l.transport.host,
                      path |-> IF l.transport.type = "grpc" THEN l.transport.service ELSE l.transport.path,
                      tls |-> IF l.tls.enable THEN "tls" ELSE None, sni |-> Or(l.tls.name, ServerOf(l))])]

SingBoxLink(l, user, endpoint) ==
  LET sni == Or(l.tls.name, ServerOf(l))
      link == [scheme |-> l.type, user |-> user.secret, host |-> endpoint, port |-> SharePort(l)]
      P(params) == "params" :> Params(params)
  IN  CASE l.type = "anytls" -> link @@ P([sni |-> sni, fp |-> l.fp, alpn |-> l.tls.alpn])
        [] l.type = "naive"  -> [link EXCEPT !.user = <<user.name, user.secret>>] @@ P([sni |-> IF sni = endpoint THEN None ELSE sni])
        [] l.type = "tuic"   -> [link EXCEPT !.user = <<user.uuid, user.secret>>]
                                @@ P([sni |-> sni, alpn |-> Alpn(l), congestion |-> Or(l.congestion, "bbr")])

\* build_share_link
Link(l, user, onion, variant) ==
  LET endpoint == Dialled(l, onion, variant)
      link(scheme, who, params) == [scheme |-> scheme, user |-> who, host |-> endpoint, port |-> SharePort(Front(l)), params |-> Params(params)]
  IN  CASE l.type = "vmess" -> VmessLink(l, user, endpoint)
        [] l.type = "shadowsocks" ->
             link("ss", <<l.method, IF Len(l.users) > 1 THEN <<l.serverPassword, user.secret>> ELSE user.secret>>, <<>>)
        [] l.type \in {"socks", "http"} ->
             link(IF l.type = "http" /\ l.tls.enable THEN "https" ELSE l.type, <<user.name, user.secret>>, <<>>)
        [] l.type = "hysteria2" ->
             link("hysteria2", user.secret,
                  Variant([sni |-> Or(l.tls.name, ServerOf(l)), alpn |-> Alpn(l), mport |-> l.hop,
                           obfs |-> IF l.salamander = None THEN None ELSE "salamander", password |-> l.salamander], variant, l.type))
        [] l.type \in SingBoxTypes -> SingBoxLink(l, user, endpoint)
        [] OTHER -> link(l.type, user.secret,
                         Variant(TransportParams(l) @@ SecurityParams(l, Front(l))
                                 @@ [flow |-> IF l.type = "vless" THEN l.flow ELSE None,
                                     encryption |-> IF l.type = "vless" THEN l.encryption ELSE None], variant, l.type))

-----------------------------------------------------------------------------
(* The client                                                              *)

Tls(name, fp, alpn) == [enabled |-> TRUE, name |-> name, fp |-> fp, alpn |-> alpn, reality |-> FALSE, pbk |-> None, sid |-> None]
NoTls == [Tls(None, None, None) EXCEPT !.enabled = FALSE]

\* _server_name: sni, else the transport's Host, else the server.
ServerName(link) == Param(link.params, "sni", Param(link.params, "host", link.host))

MkTransport(type, path, host, service, mode) ==
  [type |-> IF type = "tcp" THEN "raw" ELSE type, path |-> IF type \in {"ws", "httpupgrade", "xhttp"} THEN path ELSE None,
   host |-> IF type \in {"ws", "httpupgrade", "xhttp"} THEN host ELSE None,
   service |-> IF type = "grpc" THEN service ELSE None, mode |-> IF type = "xhttp" THEN mode ELSE None]

\* What a backend would refuse its whole configuration over is refused here.
CheckTransport(type, backend) == type # "xhttp" \/ backend = "xray"
CheckPrint(fp, backend) == fp \in SingBoxPrints \union {None} \/ backend = "xray"

Dial(link, type, cred, tls, transport) ==
  [type |-> type, server |-> link.host, port |-> link.port, cred |-> cred, tls |-> tls, transport |-> transport,
   flow |-> None, encryption |-> None, method |-> None, salamander |-> None]
Plain == MkTransport("tcp", None, None, None, None)

LinkTransport(link, host) ==
  MkTransport(Param(link.params, "type", "tcp"), Param(link.params, "path", "/"), Param(link.params, "host", host),
              Param(link.params, "serviceName", None), Param(link.params, "mode", None))

ParseVless(link, backend) ==
  LET p        == link.params
      security == Param(p, "security", "none")
      reality  == security = "reality"
      fp       == Param(p, "fp", IF reality THEN "chrome" ELSE None)
      tls      == [Tls(ServerName(link), fp, IF reality THEN None ELSE Param(p, "alpn", None)) EXCEPT
                     !.reality = reality, !.pbk = Param(p, "pbk", None), !.sid = Param(p, "sid", None)]
      encryption == Param(p, "encryption", None)
  IN  IF \/ ~CheckTransport(Param(p, "type", "tcp"), backend)
         \/ security # "none" /\ ~CheckPrint(fp, backend)
         \/ encryption # None /\ backend = "sing-box"
         \* To a public server in the clear.
         \/ encryption = None /\ security = "none" /\ backend = "xray"
      THEN Refused
      ELSE [Dial(link, "vless", link.user, IF security = "none" THEN NoTls ELSE tls, LinkTransport(link, link.host))
              EXCEPT !.flow = Param(p, "flow", None), !.encryption = encryption]

ParseVmess(link, backend) ==
  LET p    == link.params
      net  == Param(p, "net", "tcp")
      path == Param(p, "path", "/")
  IN  IF ~CheckTransport(net, backend) THEN Refused
      ELSE Dial(link, "vmess", link.user,
                IF "tls" \in DOMAIN p THEN Tls(ServerName(link), None, None) ELSE NoTls,
                MkTransport(net, path, Param(p, "host", link.host), path, None))

ParseTrojan(link, backend) ==
  LET p == link.params
  IN  IF ~CheckTransport(Param(p, "type", "tcp"), backend) \/ ~CheckPrint(Param(p, "fp", None), backend) THEN Refused
      ELSE Dial(link, "trojan", link.user, Tls(ServerName(link), Param(p, "fp", None), Param(p, "alpn", None)),
                LinkTransport([link EXCEPT !.params = [k \in DOMAIN p \ {"mode"} |-> p[k]]], link.host))

ParseShadowsocks(link) == [Dial(link, "shadowsocks", link.user[2], NoTls, Plain) EXCEPT !.method = link.user[1]]

ParseHysteria2(link) ==
  [Dial(link, "hysteria2", link.user, Tls(Param(link.params, "sni", link.host), None, None), Plain)
     EXCEPT !.salamander = Param(link.params, "password", None)]

ParseSingBox(link, backend) ==
  LET p == link.params
      alpn == Param(p, "alpn", IF link.scheme = "tuic" THEN <<"h3">> ELSE None)
  IN  IF backend = "xray" \/ ~CheckPrint(Param(p, "fp", None), backend) THEN Refused
      ELSE Dial(link, link.scheme, link.user, Tls(Param(p, "sni", link.host), Param(p, "fp", None), alpn), Plain)

ParseHttp(link) == Dial(link, "http", link.user, IF link.scheme = "https" THEN Tls(link.host, None, None) ELSE NoTls, Plain)

Parse(link, backend) ==
  CASE link.scheme = "vless"           -> ParseVless(link, backend)
    [] link.scheme = "vmess"           -> ParseVmess(link, backend)
    [] link.scheme = "trojan"          -> ParseTrojan(link, backend)
    [] link.scheme = "ss"              -> ParseShadowsocks(link)
    [] link.scheme = "hysteria2"       -> ParseHysteria2(link)
    [] link.scheme \in SingBoxTypes    -> ParseSingBox(link, backend)
    [] link.scheme \in {"http", "https"} -> ParseHttp(link)
    [] OTHER                           -> Refused

\* client_outbound: sing-box's, and XRay's for what sing-box has not.
ClientOutbound(link) ==
  IF Parse(link, "sing-box") # Refused THEN Parse(link, "sing-box") ELSE Parse(link, "xray")

-----------------------------------------------------------------------------
(* What answers the dial                                                   *)

\* A server that does not name its Host takes any.
SameTransport(inbound, ob) ==
  LET t == inbound.transport
      relevant == MkTransport(t.type, t.path, t.host, t.service, t.mode)
  IN  /\ relevant.type = ob.transport.type /\ relevant.path = ob.transport.path /\ relevant.service = ob.transport.service
      /\ relevant.host \in {None, ob.transport.host}
      /\ relevant.mode \in {None, "auto", ob.transport.mode}

\* The certificate is for the name the listener is set up with, or dialled by; HTTP/3
\* alone answers no other ALPN.
Shakes(inbound, l, ob, asked) ==
  CASE inbound.security = "none"    -> ~ob.tls.enabled
    [] inbound.security = "tls"     -> /\ ob.tls.enabled /\ ~ob.tls.reality
                                       /\ ob.tls.name = Or(asked.name, Or(inbound.tlsName, ServerOf(l)))
                                       /\ inbound.protocol \notin {"hysteria2", "tuic"} /\ inbound.alpn = <<"h3">> => ob.tls.alpn = <<"h3">>
    [] inbound.security = "reality" -> /\ ob.tls.reality /\ ob.tls.pbk = "key"
                                       /\ \E i \in DOMAIN inbound.sids : inbound.sids[i] = ob.tls.sid
                                       /\ \/ ob.tls.name = asked.name
                                          \/ \E i \in DOMAIN inbound.names : inbound.names[i] = ob.tls.name

\* Whom a dial is taken for, through the front it dials: {} when nobody.  Behind a
\* front it is the fallback with its path, or without one, that leads to l.
Answers(l, ob, asked) ==
  LET front   == Inbound(Front(l))
      inbound == Inbound(l)
      logins  == {u \in Logins(l) : u.cred = ob.cred}
  IN  IF \/ ob.port # SharePort(Front(l)) \/ ob.type # l.type
         \/ ~Shakes(front, l, ob, asked) \/ ~SameTransport(inbound, ob)
         \/ ob.encryption # inbound.encryption \/ ob.salamander # inbound.salamander
         \/ ob.method # IF l.type = "shadowsocks" THEN inbound.method ELSE None
         \/ l.front # None /\ ~\E f \in front.fallbacks : f.listener = l.tag /\ f.path \in {None, ob.transport.path}
      THEN {}
      ELSE IF l.type \in SingBoxTypes
           THEN {c.email : c \in {c \in Loopback(l) : \E u \in logins : u.hop = c.cred}}
           ELSE {c.email : c \in {c \in inbound.clients : c.cred = ob.cred /\ c.flow = ob.flow}}

-----------------------------------------------------------------------------
(* Everything a server hands out: build_inbounds                           *)

NoVariant == [address |-> None, fp |-> None, alpn |-> None, mode |-> None, name |-> None, hop |-> TRUE]

\* A user's links: each listener's own, its variants' and the onion's.
LinksOf(spec, name) ==
  UNION {LET l == spec.listeners[i]
             users == {l.users[n] : n \in {n \in DOMAIN l.users : l.users[n].name = name}}
             ways  == {[onion |-> FALSE, variant |-> v] : v \in {NoVariant} \union l.variants}
                      \union {[onion |-> TRUE, variant |-> NoVariant] : b \in {b \in {TRUE} : l.tag \in spec.onion}}
         IN  {[listener |-> i, way |-> way, link |-> Link(l, user, way.onion, way.variant)] : user \in users, way \in ways}
         : i \in DOMAIN spec.listeners}

\* socks:// no parser reads; XHTTP is XRay's, which sends no VLESS in the clear.
Dialable(l) == /\ l.type # "socks"
               /\ ~(l.type = "vless" /\ l.transport.type = "xhttp" /\ Security(Front(l)) = "none" /\ l.encryption = None)

\* Every link of a user that a parser reads is answered by the listener it is for,
\* as that user, if and only if the manager lets the user in; the user has one for
\* each listener, variant and onion; and on its port it is nobody else's.
LinksDial(spec) ==
  \A i \in DOMAIN spec.listeners :
    LET l == spec.listeners[i]
    IN  \A n \in DOMAIN l.users :
          LET user  == l.users[n]
              mine  == {x \in LinksOf(spec, user.name) : x.listener = i}
          IN  /\ Cardinality(mine) = 1 + Cardinality(l.variants) + (IF l.tag \in spec.onion THEN 1 ELSE 0)
              /\ \A x \in mine :
                   LET ob == ClientOutbound(x.link)
                   IN  IF ~Dialable(l) THEN ob = Refused
                       ELSE /\ ob # Refused
                            /\ ob.server = Dialled(l, x.way.onion, x.way.variant)
                            /\ Answers(l, ob, x.way.variant) = IF user.active THEN {user.name} ELSE {}
                            /\ \A j \in DOMAIN spec.listeners \ {i} :
                                 Answers(spec.listeners[j], ob, x.way.variant) \subseteq {user.name : u \in {u \in {user} : u.active}}
=============================================================================
