------------------------------ MODULE AwgConfig ------------------------------
(***************************************************************************)
(* AmneziaWG configurations: src/scripts/amneziawg_config.py, which takes  *)
(* a .conf, a vpn:// link or settings from outside, rewrites it line by    *)
(* line, and hands it to awg-quick, which reads it its own way.            *)
(*                                                                         *)
(* A configuration is a sequence of lines, [name, value]: a header has the *)
(* section for name and as its value whether it is written plainly, alone  *)
(* on its line; any other line is a key's.  Encodings, and what characters *)
(* a line may have, are left out.                                          *)
(***************************************************************************)
EXTENDS Integers, Sequences, FiniteSets

CONSTANTS
  Headers,      \* what a header may be of: "interface" and "peer", and others
  VpnFields,    \* VPN_INTERFACE_FIELDS' keys
  Awg3Keys,     \* AWG3_INTERFACE_KEYS
  Privileged,   \* ports below 1024
  HostOf(_),    \* an address narrowed to the host itself
  SafeMtu, None, Refused

Hooks == {"preup", "postup", "predown", "postdown", "saveconfig"}

Line(name, value) == [name |-> name, value |-> value]
Plain(name)       == Line(name, TRUE)
IsHeader(line)    == line.name \in Headers
Lines(config)     == {config[i] : i \in DOMAIN config}

-----------------------------------------------------------------------------
(* Reading                                                                 *)

\* The section a line is in: that of the last header before it.
HeadersTo(config, i) == {j \in 1..i : IsHeader(config[j])}
Last(S)  == CHOOSE x \in S : \A y \in S : y <= x
First(S) == CHOOSE x \in S : \A y \in S : x <= y
SectionOf(config, i) ==
  IF HeadersTo(config, i) = {} THEN None ELSE config[Last(HeadersTo(config, i))].name

\* section_values: the places of a key's lines in a section, in file order.
Places(config, section, key) ==
  {i \in DOMAIN config : config[i].name = key /\ SectionOf(config, i) = section}
Values(config, section, key) == {config[i].value : i \in Places(config, section, key)}
LastValue(config, section, key) ==
  IF Places(config, section, key) = {} THEN None ELSE config[Last(Places(config, section, key))].value

-----------------------------------------------------------------------------
(* Rewriting: a header that is not plain is not seen                       *)

InterfaceAt(config) == {i \in DOMAIN config : config[i] = Plain("interface")}
EndOf(config, start) ==
  LET next == {i \in start + 1..Len(config) : IsHeader(config[i])}
  IN  IF next = {} THEN Len(config) + 1 ELSE First(next)

\* _set_interface_value: the first line of the key in the first [Interface], or a new
\* one at its end.  Refused without [Interface].
SetValue(config, key, value) ==
  IF config = Refused \/ InterfaceAt(config) = {} THEN Refused
  ELSE LET start == First(InterfaceAt(config))
           end   == EndOf(config, start)
           there == {i \in start + 1..end - 1 : config[i].name = key}
       IN  IF there # {} THEN [config EXCEPT ![First(there)] = Line(key, value)]
           ELSE SubSeq(config, 1, end - 1) \o <<Line(key, value)>> \o SubSeq(config, end, Len(config))

\* In [Interface], as the rewrites of every line of it tell: a header that is not
\* plainly that ends it.
Inside(config, i) == HeadersTo(config, i) # {} /\ config[Last(HeadersTo(config, i))] = Plain("interface")

RemoveKey(config, key) ==
  LET gone(i) == config[i].name = key /\ Inside(config, i)
      kept[i \in 0..Len(config)] ==
        IF i = 0 THEN <<>> ELSE kept[i - 1] \o IF gone(i) THEN <<>> ELSE <<config[i]>>
  IN  IF config = Refused THEN Refused ELSE kept[Len(config)]

\* Mutant: the first line of a key is rewritten, and one after it stays.
ReplaceKey_first(config, key, value) == SetValue(config, key, value)

\* wg and awg-quick take the last line of a key: the others go.
ReplaceKey(config, key, value) == SetValue(RemoveKey(config, key), key, value)

HostAddresses(config) ==
  IF config = Refused THEN Refused
  ELSE [i \in DOMAIN config |->
          IF config[i].name = "address" /\ Inside(config, i) THEN Line("address", HostOf(config[i].value)) ELSE config[i]]

DropPrivilegedPort(config) ==
  IF config # Refused /\ Values(config, "interface", "listenport") \intersect Privileged # {}
  THEN RemoveKey(config, "listenport") ELSE config

\* as_outbound: the host keeps its routes and its resolver.
AsOutbound(config, mark, shared) ==
  LET bare == RemoveKey(config, "dns")
      own  == DropPrivilegedPort(IF shared THEN HostAddresses(bare) ELSE bare)
  IN  ReplaceKey(ReplaceKey(own, "table", "off"), "fwmark", mark)

\* override_endpoint: the first Endpoint line.
OverrideEndpoint(config, endpoint) ==
  IF config = Refused THEN Refused
  ELSE LET there == {i \in DOMAIN config : config[i].name = "endpoint"}
       IN  IF there = {} THEN Refused ELSE [config EXCEPT ![First(there)] = Line("endpoint", endpoint)]

\* resolve_endpoints: the names that resolve are written as their addresses.
Resolved(value, addresses) == IF value \in DOMAIN addresses THEN addresses[value] ELSE value
Resolve(config, addresses) ==
  [i \in DOMAIN config |->
     IF config[i].name = "endpoint" THEN Line("endpoint", Resolved(config[i].value, addresses)) ELSE config[i]]

-----------------------------------------------------------------------------
(* What a configuration is made of                                         *)

\* AWG 3's padding needs more room than the MTU awg-quick would choose.
MtuDefault(config) ==
  LET keys == {config[i].name : i \in {i \in DOMAIN config : SectionOf(config, i) = "interface"}}
  IN  IF "mtu" \in keys \/ keys \intersect Awg3Keys = {} THEN config ELSE SetValue(config, "mtu", SafeMtu)

\* awg-quick takes "[Peer] # home" for a header.
NormalizeHeaders(config) ==
  [i \in DOMAIN config |-> IF config[i].name \in {"interface", "peer"} THEN Plain(config[i].name) ELSE config[i]]

\* Each key the configuration leaves out, from the defaults.
FillObfuscation(config, defaults) ==
  LET missing == {k \in DOMAIN defaults : Values(config, "interface", k) = {}}
      order   == CHOOSE s \in [1..Cardinality(missing) -> missing] : \A k \in missing : \E i \in DOMAIN s : s[i] = k
      f[i \in 0..Cardinality(missing)] == IF i = 0 THEN config ELSE SetValue(f[i - 1], order[i], defaults[order[i]])
  IN  f[Cardinality(missing)]

\* validate_config: one [Interface], headers plain and no other sections; hooks run as root.
Valid(config, hooks) ==
  config # Refused /\
    LET headers == {i \in DOMAIN config : IsHeader(config[i])}
    IN  /\ {config[i] : i \in headers} = {Plain("interface"), Plain("peer")}
        /\ Cardinality({i \in headers : config[i].name = "interface"}) = 1
        /\ hooks \/ \A i \in DOMAIN config : config[i].name \notin Hooks

Validated(config, hooks) == IF Valid(config, hooks) THEN config ELSE Refused

-----------------------------------------------------------------------------
(* vpn:// links                                                            *)

\* encode_vpn_link: the configuration, and beside it what it says.
Container(config) ==
  [id |-> "amnezia-awg", config |-> config, mtu |-> LastValue(config, "interface", "mtu"),
   fields |-> [k \in {k \in VpnFields : Values(config, "interface", k) # {}} |-> LastValue(config, "interface", k)]]
Link(config) == [containers |-> <<Container(config)>>, default |-> "amnezia-awg"]

\* extract_vpn_config's candidate: the one asked for, the default one, or the only one.
Selected(link, requested) ==
  LET candidates == {i \in DOMAIN link.containers : link.containers[i].config # None}
      with(id)   == {i \in candidates : link.containers[i].id = id}
      chosen     == IF requested # None THEN with(requested)
                    ELSE IF Cardinality(with(link.default)) = 1 THEN with(link.default) ELSE candidates
  IN  IF Cardinality(chosen) = 1 THEN link.containers[First(chosen)] ELSE Refused

\* The fields beside the configuration hold: AmneziaVPN edits them alone.
Taken(container) ==
  LET fields    == container.fields
      order     == CHOOSE s \in [1..Cardinality(DOMAIN fields) -> DOMAIN fields] :
                     \A k \in DOMAIN fields : \E i \in DOMAIN s : s[i] = k
      f[i \in 0..Len(order)] == IF i = 0 THEN container.config ELSE SetValue(f[i - 1], order[i], fields[order[i]])
      mtu       == IF container.mtu = None THEN f[Len(order)] ELSE SetValue(f[Len(order)], "mtu", container.mtu)
  IN  IF container = Refused THEN Refused ELSE IF mtu = Refused THEN Refused ELSE MtuDefault(mtu)
Extract(link, requested) == Taken(Selected(link, requested))

-----------------------------------------------------------------------------
(* From a source to a file                                                 *)

\* import_source: a profile that anyone of the group adds.
Import(config) == Validated(MtuDefault(NormalizeHeaders(config)), FALSE)
ImportLink(link, container) ==
  LET config == Extract(link, container) IN IF config = Refused THEN Refused ELSE Validated(NormalizeHeaders(config), FALSE)

\* prepare
Prepared(config, defaults, endpoint, hooks) ==
  LET filled == FillObfuscation(MtuDefault(NormalizeHeaders(config)), defaults)
  IN  Validated(IF endpoint = None THEN filled ELSE OverrideEndpoint(filled, endpoint), hooks)

\* main, of a .conf: for an outbound's interface, or a global profile.
Marked(config, mark, outbound, shared) ==
  IF config = Refused THEN Refused
  ELSE IF outbound THEN AsOutbound(config, mark, shared) ELSE ReplaceKey(config, "fwmark", mark)
Finished(config, shared, addresses) ==
  IF config = Refused THEN Refused
  ELSE Validated(Resolve(IF shared THEN DropPrivilegedPort(config) ELSE config, addresses), FALSE)
Rendered(config, mark, outbound, shared, addresses) ==
  Finished(Marked(Prepared(config, <<>>, None, FALSE), mark, outbound, shared), shared, addresses)

-----------------------------------------------------------------------------
(* awg-quick                                                               *)

\* It reads any [Interface] or [Peer], with a comment or without, and takes the last of
\* a key, but every Address, DNS and hook.
QuickValues(config, key) == Values(config, "interface", key)
QuickValue(config, key)  == LastValue(config, "interface", key)

SparesHost(run, mark) ==
  /\ QuickValue(run, "table") = "off" /\ QuickValue(run, "fwmark") = mark /\ QuickValues(run, "dns") = {}
  /\ \A h \in Hooks : QuickValues(run, h) = {}
  /\ QuickValues(run, "listenport") \intersect Privileged = {}
  /\ \A a \in QuickValues(run, "address") : HostOf(a) = a

SameTunnel(run, config, addresses) ==
  /\ \A k \in VpnFields \union {"privatekey"} : QuickValues(run, k) = QuickValues(config, k)
  /\ {HostOf(a) : a \in QuickValues(config, "address")} = QuickValues(run, "address")
  /\ Values(run, "peer", "endpoint") = {Resolved(v, addresses) : v \in Values(config, "peer", "endpoint")}

\* A configuration from outside, once rendered for an outbound, does to the host as
\* awg-quick reads it no more than that interface: no routes, no resolver, no hook
\* and no port of the host's, its packets marked, its addresses its own; and it is
\* still that tunnel.
OutboundKeepsHost(config, mark, addresses) ==
  \A run \in {Rendered(config, mark, TRUE, TRUE, addresses)} :
    run # Refused => SparesHost(run, mark) /\ SameTunnel(run, config, addresses)

SameValues(back, imported) ==
  /\ back # Refused
  /\ \A k \in {l.name : l \in Lines(imported)} \ Headers :
       LastValue(back, "interface", k) = LastValue(imported, "interface", k)
  /\ Values(back, "peer", "endpoint") = Values(imported, "peer", "endpoint")

\* A link brings back the configuration it was made of, and what is imported is
\* imported the same from what it exports.
LinkComesBack(config) ==
  \A imported \in {Import(config)} :
    imported # Refused => SameValues(ImportLink(Link(imported), None), imported)
=============================================================================
