----------------------------- MODULE SubFormats -----------------------------
(***************************************************************************)
(* A user's subscription in the shape their client reads                   *)
(* (src/scripts/inbound_subscription.py): the links, a sing-box config, a  *)
(* Clash one, or a page; and the ShadowTLS listeners, whose clients have   *)
(* no link (proxy_inbound.py).                                             *)
(*                                                                         *)
(* A name is a sequence of the pieces that "-" joins: the tag's, the       *)
(* variant's, a number's.  An item is a link of rendered.json:             *)
(* [tag, variant, linked, outbound, hops], its outbound Xray where only    *)
(* XRay dials it.                                                          *)
(***************************************************************************)
EXTENDS ShareLinks

CONSTANTS
  ReservedNames,     \* names that lowercased are in RESERVED
  Xray

-----------------------------------------------------------------------------
(* Names: entries() *)

\* Mutant: only the first of a tag's links gets a name of its own.
Candidate_once(base, n) == IF n = 1 THEN base ELSE base \o <<"2">>

Candidate(base, n) == IF n = 1 THEN base ELSE base \o <<ToString(n)>>
NameOf(item, seen) ==
  LET base  == item.tag \o (IF item.variant = None THEN <<>> ELSE <<item.variant>>)
      first == IF base \in ReservedNames THEN 2 ELSE 1
      free  == {n \in first..(Cardinality(seen) + 2) : Candidate(base, n) \notin seen}
  IN  IF free = {} THEN base ELSE Candidate(base, CHOOSE n \in free : \A m \in free : n <= m)

Entries(items) ==
  LET named[n \in 0..Len(items)] ==
        IF n = 0 THEN <<>>
        ELSE Append(named[n - 1], items[n] @@ [name |-> NameOf(items[n], {named[n - 1][i].name : i \in 1..(n - 1)})])
  IN  named[Len(items)]

-----------------------------------------------------------------------------
(* sing-box *)

ForSingBox(items) == SelectSeq(items, LAMBDA item : item.outbound \notin {Xray, None})
HopName(item, hop) == item.name \o <<hop.tag>>

\* sing_box_outbounds, sing_box_hops: [tag, dials, detour].
SingBoxOutbounds(items) ==
  {[tag |-> item.name, dials |-> item.outbound,
    detour |-> IF item.hops = {} THEN None ELSE HopName(item, CHOOSE hop \in item.hops : TRUE)] :
     item \in {ForSingBox(items)[i] : i \in DOMAIN ForSingBox(items)}}
SingBoxHops(items) ==
  UNION {{[tag |-> HopName(item, hop), dials |-> hop, detour |-> None] : hop \in item.hops} :
           item \in {ForSingBox(items)[i] : i \in DOMAIN ForSingBox(items)}}

\* The selector "proxy" holds "auto" and the servers, "auto" the servers.
SingBoxConfig(items) ==
  LET names == {o.tag : o \in SingBoxOutbounds(items)}
      any   == names # {}
  IN  [outbounds |-> SingBoxOutbounds(items) \union SingBoxHops(items),
       groups |-> IF any THEN [g \in {<<"proxy">>, <<"auto">>} |-> names \union {n \in {<<"auto">>} : g = <<"proxy">>}] ELSE <<>>,
       final |-> IF any THEN <<"proxy">> ELSE <<"direct">>]

-----------------------------------------------------------------------------
(* Clash and mihomo *)

Keys(f) == [k \in {k \in DOMAIN f : f[k] # None} |-> f[k]]

\* Mutant: every protocol names the server's TLS name alike.
ClashTls_sni(tls, key) ==
  IF ~tls.enabled THEN <<>>
  ELSE Keys([tls |-> TRUE, alpn |-> tls.alpn, fingerprint |-> tls.fp, pbk |-> tls.pbk, sid |-> tls.sid]) @@ Keys("sni" :> tls.name)

\* _clash_tls
ClashTls(tls, key) ==
  IF ~tls.enabled THEN <<>>
  ELSE Keys([tls |-> TRUE, alpn |-> tls.alpn, fingerprint |-> IF tls.reality /\ tls.fp = None THEN "chrome" ELSE tls.fp,
             pbk |-> IF tls.reality THEN tls.pbk ELSE None, sid |-> IF tls.reality THEN tls.sid ELSE None])
       @@ Keys(key :> tls.name)

\* _clash_transport: Refused is a transport mihomo lacks.
ClashTransport(t) ==
  CASE t.type = "raw" -> [network |-> "tcp"]
    [] t.type \in {"ws", "httpupgrade"} ->
         [network |-> "ws", upgrade |-> t.type = "httpupgrade", path |-> Or(t.path, "/")] @@ Keys([host |-> t.host])
    [] t.type = "grpc" -> [network |-> "grpc", service |-> Or(t.service, "")]
    [] OTHER -> Refused

\* clash_proxy: Refused for what mihomo cannot dial the same way.
ClashProxy(ob, hops) ==
  LET base(type) == [type |-> type, server |-> ob.server, port |-> ob.port, cred |-> ob.cred]
      streamed(proxy) == IF ClashTransport(ob.transport) = Refused THEN Refused ELSE proxy @@ ClashTransport(ob.transport)
      quic == [k \in DOMAIN ClashTls(ob.tls, "sni") \ {"tls"} |-> ClashTls(ob.tls, "sni")[k]]
  IN  CASE hops # {} ->
             LET hop == CHOOSE h \in hops : TRUE
             IN  IF ob.type # "shadowsocks" \/ hop.type # "shadowtls" THEN Refused
                 ELSE base("ss") @@ [cipher |-> ob.method, plugin |-> "shadow-tls", host |-> hop.tls.name, password |-> hop.cred]
                      @@ Keys([fingerprint |-> hop.tls.fp])
        [] hops = {} /\ ob.type = "vless" -> streamed(base("vless") @@ Keys([flow |-> ob.flow]) @@ ClashTls(ob.tls, "servername"))
        [] hops = {} /\ ob.type = "vmess" -> streamed(base("vmess") @@ ClashTls(ob.tls, "servername"))
        [] hops = {} /\ ob.type = "trojan" -> streamed(base("trojan") @@ ClashTls(ob.tls, "sni"))
        [] hops = {} /\ ob.type = "shadowsocks" -> base("ss") @@ [cipher |-> ob.method]
        [] hops = {} /\ ob.type = "hysteria2" ->
             base("hysteria2") @@ Keys([sni |-> ob.tls.name, alpn |-> ob.tls.alpn, obfs |-> ob.salamander])
        [] hops = {} /\ ob.type \in {"anytls", "tuic"} -> base(ob.type) @@ quic
        [] hops = {} /\ ob.type = "http" -> base("http") @@ ClashTls(ob.tls, "sni")
        [] OTHER -> Refused

\* What mihomo dials of a proxy, as an outbound: vless and vmess read servername,
\* the others sni; trojan, hysteria2, anytls and tuic are TLS anyhow.
MihomoDials(proxy) ==
  LET has(key, default) == Param(proxy, key, default)
      secure == proxy.type \in {"trojan", "hysteria2", "anytls", "tuic"} \/ has("tls", FALSE)
      name   == has(IF proxy.type \in {"vless", "vmess"} THEN "servername" ELSE "sni", proxy.server)
      tls    == IF ~secure THEN NoTls
                ELSE [Tls(name, has("fingerprint", None), has("alpn", None)) EXCEPT
                        !.reality = "pbk" \in DOMAIN proxy, !.pbk = has("pbk", None), !.sid = has("sid", None)]
      net    == has("network", "tcp")
      transport == MkTransport(IF net = "ws" /\ has("upgrade", FALSE) THEN "httpupgrade" ELSE net,
                               has("path", "/"), has("host", proxy.server), has("service", None), None)
  IN  [Dial([host |-> proxy.server, port |-> proxy.port], IF proxy.type = "ss" THEN "shadowsocks" ELSE proxy.type, proxy.cred,
            tls, transport)
         EXCEPT !.flow = has("flow", None), !.method = has("cipher", None), !.salamander = has("obfs", None)]

\* Groups PROXY and auto hold the proxies, or DIRECT.
ClashConfig(items) ==
  LET own == {item \in {ForSingBox(items)[i] : i \in DOMAIN ForSingBox(items)} : ClashProxy(item.outbound, item.hops) # Refused}
      proxies == {[name |-> item.name, proxy |-> ClashProxy(item.outbound, item.hops)] : item \in own}
      names   == {p.name : p \in proxies}
  IN  [proxies |-> proxies,
       groups |-> [g \in {<<"PROXY">>, <<"auto">>} |->
                     IF names = {} THEN {<<"DIRECT">>} ELSE names \union {n \in {<<"auto">>} : g = <<"PROXY">>}]]

-----------------------------------------------------------------------------
(* What a request is answered: subscription(), inbound_manager.py *)

\* pick_format.  The query's format, or one for the client; a client that says
\* several things is known by what it says first.
PickFormat(request) ==
  CASE request.query # None -> request.query
    [] request.query = None /\ request.agent \in {"clash", "sing-box"} -> request.agent
    [] request.query = None /\ request.agent = "mozilla" /\ request.accepts -> "html"
    [] OTHER -> "base64"

\* Without a row of the user, whom overview() no longer has, there is no page.
Format(request, row) == IF PickFormat(request) = "html" /\ ~row THEN "base64" ELSE PickFormat(request)

\* The names in an answer; base64 and links carry what has a link.
Answer(request, row, items) ==
  LET entries == Entries(items)
  IN  CASE Format(request, row) = "sing-box" -> {o.tag : o \in SingBoxOutbounds(entries)}
        [] Format(request, row) = "clash"    -> {p.name : p \in ClashConfig(entries).proxies}
        [] OTHER -> {entries[i].name : i \in {i \in DOMAIN entries : entries[i].linked}}

-----------------------------------------------------------------------------
(* ShadowTLS listeners: [tag, port, address, users, handshake, name, fp, method, key] *)

ShadowActive(l) == {l.users[i] : i \in {i \in DOMAIN l.users : l.users[i].active}}
SsKey(method, secret) == <<method, secret>>

\* sing-box's side: ShadowTLS vouches for the user, its Shadowsocks 2022 inbound on
\* loopback says who it is, and the rules route whom it names.
ShadowServer(l) ==
  [vouched |-> {u.secret : u \in ShadowActive(l)}, handshake |-> l.handshake, method |-> l.method,
   logins |-> {[name |-> u.name, cred |-> <<l.key, SsKey(l.method, u.secret)>>] : u \in ShadowActive(l)}]

\* shadow_tls_client
ShadowClient(l, user) ==
  LET link == [host |-> Or(l.address, Address), port |-> l.port]
  IN  [outbound |-> [Dial(link, "shadowsocks", <<l.key, SsKey(l.method, user.secret)>>, NoTls, Plain) EXCEPT !.method = l.method],
       hops |-> {Dial(link, "shadowtls", user.secret, Tls(Or(l.name, l.handshake), l.fp, None), Plain) @@ [tag |-> "shadowtls"]}]

ShadowAnswers(l, server, cred, secret, name) ==
  IF secret \notin server.vouched \/ name # Or(l.name, server.handshake) THEN {}
  ELSE {u.name : u \in {u \in server.logins : u.cred = cred}}

-----------------------------------------------------------------------------
(* What is promised *)

\* What mihomo dials of a Clash config is what sing-box would; only naive it has not.
ClashDials(ob) ==
  LET proxy == ClashProxy(ob, {})
  IN  IF ob.type = "naive" THEN proxy = Refused ELSE proxy # Refused /\ MihomoDials(proxy) = ob

\* Of the links sing-box reads, each is the same dialled from a Clash config.
LinksClash(spec) ==
  \A i \in DOMAIN spec.listeners : \A n \in DOMAIN spec.listeners[i].users :
    \A x \in LinksOf(spec, spec.listeners[i].users[n].name) :
      LET ob == Parse(x.link, "sing-box") IN ob # Refused => ClashDials(ob)

\* A client of a ShadowTLS listener is let in as its user, by the sing-box config and
\* by the Clash one, if and only if the manager lets it in.
ShadowDials(l) ==
  \A i \in DOMAIN l.users :
    LET user   == l.users[i]
        client == ShadowClient(l, user)
        hop    == CHOOSE h \in client.hops : TRUE
        proxy  == ClashProxy(client.outbound, client.hops)
        who    == IF user.active THEN {user.name} ELSE {}
    IN  /\ ShadowAnswers(l, ShadowServer(l), client.outbound.cred, hop.cred, hop.tls.name) = who
        /\ proxy # Refused
        /\ ShadowAnswers(l, ShadowServer(l), proxy.cred, proxy.password, proxy.host) = who
        /\ proxy.cipher = l.method /\ proxy.server = hop.server /\ proxy.port = hop.port

\* A config defines each of its names once, its groups hold servers only (never a
\* hop) and every server there, and it dials no group's name by accident.
ConfigWhole(items) ==
  LET entries == Entries(items)
      config  == SingBoxConfig(entries)
      clash   == ClashConfig(entries)
      tags    == {o.tag : o \in config.outbounds}
      servers == {entries[i].name : i \in {i \in DOMAIN entries : entries[i].outbound \notin {Xray, None}}}
      all     == ForSingBox(entries)
      hops    == UNION {{HopName(all[i], h) : h \in all[i].hops} : i \in DOMAIN all}
  IN  /\ Cardinality({entries[i].name : i \in DOMAIN entries}) = Len(items)
      /\ {entries[i].name : i \in DOMAIN entries} \intersect ReservedNames = {}
      /\ \A g \in DOMAIN config.groups : config.groups[g] \ {<<"auto">>} = servers
      /\ config.final = <<"direct">> <=> servers = {}
      /\ \A o \in config.outbounds : o.detour \in tags \union {None}
      /\ servers \intersect hops = {}
      /\ \A g \in DOMAIN clash.groups : clash.groups[g] \ {<<"auto">>, <<"DIRECT">>} = {p.name : p \in clash.proxies}

\* Whatever asks, and however, gets each server its format can carry.
AnswerWhole(request, row, items) ==
  LET entries == Entries(items)
      without == {i \in DOMAIN entries : entries[i].outbound \in {Xray, None}}
      format  == Format(request, row)
  IN  /\ format = "html" => row
      /\ \A i \in DOMAIN entries :
           entries[i].name \in Answer(request, row, items) <=>
             CASE format = "sing-box" -> i \notin without
               [] format = "clash"    -> i \notin without /\ entries[i].outbound.type # "naive"
               [] OTHER               -> entries[i].linked
=============================================================================
