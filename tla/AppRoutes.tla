------------------------------ MODULE AppRoutes ------------------------------
(***************************************************************************)
(* Which way `proxy-ctl apps run` takes an app, and which profiles         *)
(* `proxy-ctl apps add` takes (src/pkgs/proxy-ctl/proxy_ctl.py).           *)
(*                                                                         *)
(* A host is what there is to go through: outbounds (tags, groups), the    *)
(* AmneziaWG ones with an interface, the global AmneziaWG profiles if apps *)
(* may use them, the routes that are enabled, those with pin slots, and    *)
(* the global modes that are up.  A target is a name, with its kind or     *)
(* None.                                                                   *)
(***************************************************************************)
EXTENDS Integers, Sequences, SequencesExt

CONSTANTS
  Wrapped,  \* routes of a slice
  Refused, None

Target(kind, name) == [kind |-> kind, name |-> name]
Way(through, name, route) == [through |-> through, name |-> name, route |-> route]
FirstPin(host)     == IF host.pins = <<>> THEN None ELSE host.pins[1]
Or(x, default)     == IF x = None THEN default ELSE x

-----------------------------------------------------------------------------
(* Running                                                                 *)

\* Mutant: a name that is a profile is one, whatever kind it is said to be.
IsProfile_named(host, target) == target.name \in host.profiles
IsProfile(host, target)       == target.kind # "outbound" /\ target.name \in host.profiles
IsBoth(host, target) ==
  target.kind = None /\ IsProfile(host, target) /\ target.name \in host.interfaces \union host.tags

\* A global mode that is up takes the app past the per-app rules: it is run as it is.
Unless(host, globals, way) == IF globals \intersect host.up # {} THEN Way("global", None, None) ELSE way

\* _run_via
RunVia(host, target, route) ==
  LET name == target.name
      pin  == Or(route, FirstPin(host))
  IN  CASE (target.kind = "awg" /\ ~IsProfile(host, target)) \/ IsBoth(host, target) -> Refused
        [] ~IsProfile(host, target) /\ name \in host.interfaces -> Unless(host, {"tun"}, Way("interface", name, None))
        [] IsProfile(host, target) -> Unless(host, {"tun", name}, Way("profile", name, None))
        [] OTHER ->
             IF pin \notin Range(host.pins) \/ (host.tags # {} /\ name \notin host.tags \union host.groups) THEN Refused
             ELSE Unless(host, {"tun", "tproxy"}, Way("pin", name, pin))

\* cmd_apps_run, of a profile.
Run(host, profile) ==
  LET route == profile.route
  IN  CASE profile.target # None -> RunVia(host, profile.target, IF route \in {"tun", "tproxy"} THEN route ELSE None)
        [] route = "direct"      -> Way("direct", None, None)
        [] route \in Wrapped     ->
             LET globals == {"tun", "tproxy"} \union (IF route = "zapret" THEN host.profiles ELSE {})
                 way     == Unless(host, globals, Way("slice", None, route))
             IN  IF way.through = "slice" /\ route \notin host.enabled THEN Refused ELSE way
        [] OTHER                 -> IF route \in host.enabled THEN Way("proxychains", None, None) ELSE Refused

-----------------------------------------------------------------------------
(* Adding                                                                  *)

\* _apps_add: what goes there directly needs no slot.
Direct(host, target) ==
  target.kind = "awg" \/ (target.kind = None /\ target.name \in host.interfaces \union host.profiles)
Add(host, route, target) ==
  LET pin == Or(route, FirstPin(host))
  IN  CASE route = None /\ target = None -> Refused
        [] target = None                 -> [route |-> route, target |-> None]
        [] Direct(host, target)          -> [route |-> Or(route, "direct"), target |-> target]
        [] pin \in Range(host.pins)      -> [route |-> pin, target |-> target]
        [] OTHER                         -> Refused

-----------------------------------------------------------------------------
\* Whether there is what a profile asks for, of one kind.
Names(host, target) ==
  CASE target.kind = "awg" -> host.profiles
    [] target.kind = "outbound" -> host.tags \union host.groups \union host.interfaces
    [] OTHER -> host.profiles \union host.tags \union host.groups \union host.interfaces
There(host, profile) ==
  IF profile.target = None THEN profile.route \in host.enabled \union {"direct"}
  ELSE profile.target.name \in Names(host, profile.target) /\ ~IsBoth(host, profile.target)

\* A profile that was added runs, once there is what it names, and the way that it says:
\* through the outbound or the profile of its name, by the route it was given a slot of.
AddedRuns(host, route, target) ==
  LET profile == Add(host, route, target)
      way     == Run(host, profile)
  IN  (profile # Refused /\ There(host, profile)) =>
        /\ way # Refused
        /\ target # None =>
             /\ way.through # "global" => way.name = target.name
             /\ target.kind = "outbound" => way.through \in {"interface", "pin", "global"}
             /\ target.kind = "awg" => way.through \in {"profile", "global"}
        /\ way.through = "pin" => way.route = profile.route
        /\ way.through = "slice" => way.route = route
=============================================================================
