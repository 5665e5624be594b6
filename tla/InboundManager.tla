--------------------------- MODULE InboundManager ---------------------------
(***************************************************************************)
(* The inbound manager's daemon: src/scripts/inbound_manager.py.           *)
(*                                                                         *)
(* API requests and the tick run under one lock, so at most one of them is *)
(* in progress: `at` is the step it takes next and `job` its locals.  Each *)
(* write of a file (the spool, the policies, the state) is a step of its   *)
(* own, because a crash may fall between any two; extend reads before it   *)
(* takes the lock.  The apply is one step, which may fail; InboundApply    *)
(* has its inside.  A request that is refused before it wrote anything     *)
(* changes nothing and is no step.                                         *)
(***************************************************************************)
EXTENDS InboundPolicy
LOCAL INSTANCE FiniteSetsExt
LOCAL INSTANCE SequencesExt
LOCAL INSTANCE Functions

CONSTANTS
  Runtime,        \* names a runtime user may have
  Declared,       \* the configuration's users
  DeclaredPolicy, \* [Declared -> their policy options]
  NameOrder,      \* every name once, as sorted() has them
  Ips,            \* addresses, numbers
  Clients,        \* requests that extend a term at the same time
  Scenarios       \* what is configured and what comes: records, see Init

Names == Runtime \union Declared

ASSUME ManagerAssumption ==
  /\ Runtime \intersect Declared = {}
  /\ \A n \in Declared : StoredEntry(DeclaredPolicy[n])
  /\ NameOrder \in Seq(Names) /\ Names = {NameOrder[i] : i \in DOMAIN NameOrder}
  /\ Ips \subseteq Nat
  /\ \A c \in Scenarios :
        /\ {"ops", "requests", "patches", "unsets", "spans", "resets", "slots", "slotsLater", "nft", "percents",
            "expiryDays", "purgeAfter", "bannable", "faults", "faultKinds", "bundles", "end", "spend", "comes",
            "spool", "policies", "anytime"} \subseteq DOMAIN c
        /\ c.spool \subseteq Runtime
        /\ {c.slots, c.slotsLater, c.faults} \subseteq Nat /\ c.spans \subseteq Nat
        /\ \A n \in DOMAIN c.policies : StoredEntry(c.policies[n])
        /\ \A fields \in c.patches : \A f \in DOMAIN fields : fields[f] \in Written
        /\ c.end \in Moments
        /\ \A b \in c.bundles :
              /\ b.users \subseteq Names
              /\ b.state \in [Names -> [start : {0} \union Moments, base : Nat, anchor : Nat]]
              /\ b.days \in [Names -> [1..Day(c.end) -> Nat]]
              /\ \A n \in Names : \A f \in DOMAIN b.policies[n] \intersect Fields :
                   AsRaw(f, ZeroLimits(b.policies[n])[f]) \in Written

VARIABLES
  conf,     \* the scenario: manager.json, the requests and the faults that come
  now,      \* the clock
  spool,    \* runtime users that have a file
  policies, \* the policy file
  state,    \* the state file: users, notified, slots, seen
  days,     \* the collector's daily totals
  online,   \* per user, the addresses they are connected from
  bans,     \* <<address, user>>: banned from the user's ports
  applied,  \* the view the inbounds were last brought to, or Null
  at,       \* the next step of who has the lock, or "idle"
  job,      \* its locals
  wanted,   \* per client, an extension computed and not yet written
  asked,    \* requests so far, at most conf.requests
  faults,   \* faults so far, at most conf.faults
  ghost     \* what no file has, for the properties:
            \*   told     per user, whether events say they are on
            \*   noticed  per user, the notices sent; again: one was sent twice
            \*   spent    per user, traffic since they were made
            \*   made     per name, how many users have had it
            \*   owner    per name, which of them the policy was written for
            \*   lately   per user, the addresses the last tick found and did not ban

outside == <<conf, now, days, online, bans>>
vars    == <<outside, spool, policies, state, applied, at, job, wanted, asked, faults, ghost>>

NoJob  == [name |-> Null, fields |-> <<>>, bundle |-> Null, replace |-> FALSE,
           ticking |-> FALSE, time |-> 0, state |-> Null, came |-> {}]
NoKeys == [k \in {} |-> Null]
NoWish == [name |-> Null, fields |-> <<>>, span |-> 0, reset |-> FALSE]

\* names(): the configuration's users and the spool's.
Known == spool \union Declared
DeclaredOf(n) == IF n \in Declared THEN DeclaredPolicy[n] ELSE <<>>
Eff(n) == Effective(DeclaredOf(n), policies[n])

\* view(): who should be on now, and at which level.
View(t) == [n \in Known |-> StatusOf(Eff(n), state.users[n], state.slots[n], days[n], t, conf.slots, TRUE)]

-----------------------------------------------------------------------------
(* Slots                                                                    *)

Limited(policy) == policy["speedLimit"] # Null

HasSlot(slots, n) == 0 < slots[n] /\ slots[n] <= conf.slots

\* Mutant: only runtime users' slots are taken.
FreeSlots_runtime(slots, n) == (1..conf.slots) \ {slots[m] : m \in spool \ {n}}

FreeSlots(slots, n) == (1..conf.slots) \ {slots[m] : m \in Names \ {n}}

\* The lowest free one; none leaves the user without.
AllocateSlot(slots, n) ==
  IF HasSlot(slots, n) THEN slots
  ELSE [slots EXCEPT ![n] = IF FreeSlots(slots, n) = {} THEN 0 ELSE Min(FreeSlots(slots, n))]

\* Slots for some and none for others, in the order of the names.
Turn(slots, n, needy, others) ==
  CASE n \in needy  -> AllocateSlot(slots, n)
    [] n \in others -> [slots EXCEPT ![n] = 0]
    [] OTHER        -> slots

Assign(slots, needy, others) == FoldLeft(LAMBDA s, n : Turn(s, n, needy, others), slots, NameOrder)

\* ipLimit and speedLimit need nftables.
Supports(fields) ==
  \A f \in DOMAIN fields : f \in {"ipLimit", "speedLimit"} /\ fields[f] # Null => conf.nft

-----------------------------------------------------------------------------
(* Requests                                                                 *)

\* A request comes, and gets the lock.
Asked(op) ==
  /\ at = "idle"
  /\ op \in conf.ops
  /\ asked < conf.requests
  /\ asked' = asked + 1

\* The file entry that a change of some fields makes.
Entry(n, norm, unset) ==
  [f \in (DOMAIN norm \union DOMAIN policies[n]) \ unset |->
     IF f \in DOMAIN norm THEN norm[f] ELSE policies[n][f]]

\* What set_policy refuses: an unknown user, a bad value, no slot left.
Accepts(n, fields, unset) ==
  LET norm == Normalize(fields, now)
  IN  /\ n \in Known
      /\ norm # Bad
      /\ Supports(norm)
      /\ Limited(Effective(DeclaredOf(n), Entry(n, norm, unset))) /\ ~HasSlot(state.slots, n)
           => FreeSlots(state.slots, n) # {}

\* The policy file, with n's entry.  A new expiry has notices of its own.
SavePolicy(n, entry) ==
  /\ policies' = [policies EXCEPT ![n] = entry]
  /\ ghost' = [ghost EXCEPT !.owner[n] = ghost.made[n],
                            !.noticed[n] = IF Effective(DeclaredOf(n), entry)["expiresAt"] = Eff(n)["expiresAt"]
                                           THEN @ ELSE {x \in @ : x[1] # "expiring"}]

\* set_policy.  A slot that is needed is saved first; with none free nothing is.
SetPolicy(n, fields, unset) ==
  LET entry == Entry(n, Normalize(fields, now), unset)
  IN  /\ Accepts(n, fields, unset)
      /\ \/ /\ Limited(Effective(DeclaredOf(n), entry)) /\ ~HasSlot(state.slots, n)
            /\ state' = [state EXCEPT !.slots = AllocateSlot(@, n)]
            /\ at' = "setPolicy"
            /\ job' = [NoJob EXCEPT !.name = n, !.fields = entry]
            /\ UNCHANGED <<policies, ghost>>
         \/ /\ ~Limited(Effective(DeclaredOf(n), entry)) \/ HasSlot(state.slots, n)
            /\ SavePolicy(n, entry)
            /\ at' = "apply"
            /\ job' = NoJob
            /\ UNCHANGED state

SetPolicySave ==
  /\ at = "setPolicy"
  /\ SavePolicy(job.name, job.fields)
  /\ at' = "apply"
  /\ job' = NoJob
  /\ UNCHANGED <<outside, spool, state, applied, wanted, asked, faults>>

\* PATCH, and enable and disable, which set one field.
Patch(n) ==
  /\ Asked("patch")
  /\ \E fields \in conf.patches, unset \in conf.unsets : SetPolicy(n, fields, unset)
  /\ UNCHANGED <<outside, spool, applied, wanted, faults>>

\* create_user: a slot there must be; then the spool, the policies, the state.
Create(n) ==
  /\ Asked("create")
  /\ n \in Runtime \ spool
  /\ \E fields \in conf.patches :
       LET norm == Normalize(fields, now)
       IN  /\ norm # Bad
           /\ Supports(norm)
           /\ Limited(Effective(<<>>, norm)) => FreeSlots(state.slots, n) # {}
           /\ job' = [NoJob EXCEPT !.name = n, !.fields = norm]
  /\ spool' = spool \union {n}
  /\ ghost' = [ghost EXCEPT !.made[n] = @ + 1, !.spent[n] = 0]
  /\ at' = "createPolicies"
  /\ UNCHANGED <<outside, policies, state, applied, wanted, faults>>

CreatePolicies ==
  /\ at = "createPolicies"
  /\ SavePolicy(job.name, job.fields)
  /\ at' = "createState"
  /\ UNCHANGED <<outside, spool, state, applied, job, wanted, asked, faults>>

\* Mutant: the period of a new user counts the whole day.
CreateState_whole ==
  LET n == job.name
      without == [state.slots EXCEPT ![n] = 0]
  IN  /\ at = "createState"
      /\ state' = [state EXCEPT !.users[n] = [StartPeriod(days[n], now) EXCEPT !.base = 0],
                                !.notified[n] = NoKeys, !.slots = without]
      /\ ghost' = [ghost EXCEPT !.told[n] = TRUE, !.noticed[n] = {}]
      /\ at' = "apply"
      /\ job' = NoJob
      /\ UNCHANGED <<outside, spool, policies, applied, wanted, asked, faults>>

CreateState ==
  LET n == job.name
      without == [state.slots EXCEPT ![n] = 0]
  IN  /\ at = "createState"
      /\ state' = [state EXCEPT !.users[n] = StartPeriod(days[n], now),
                                !.notified[n] = NoKeys,
                                !.slots = IF Limited(Effective(<<>>, job.fields))
                                          THEN AllocateSlot(without, n) ELSE without]
      /\ ghost' = [ghost EXCEPT !.told[n] = TRUE, !.noticed[n] = {}]
      /\ at' = "apply"
      /\ job' = NoJob
      /\ UNCHANGED <<outside, spool, policies, applied, wanted, asked, faults>>

\* delete_user: the spool's file, then forget().
DeleteFile(n) ==
  /\ n \in spool
  /\ spool' = spool \ {n}
  /\ at' = "deletePolicies"

Delete(n) ==
  /\ Asked("delete")
  /\ DeleteFile(n)
  /\ job' = [NoJob EXCEPT !.name = n]
  /\ UNCHANGED <<outside, policies, state, applied, wanted, faults, ghost>>

\* Mutant: the policy stays.
DeletePolicies_left ==
  /\ at = "deletePolicies"
  /\ at' = "deleteState"
  /\ UNCHANGED <<outside, spool, policies, state, applied, job, wanted, asked, faults, ghost>>

DeletePolicies ==
  /\ at = "deletePolicies"
  /\ policies' = [policies EXCEPT ![job.name] = <<>>]
  /\ at' = "deleteState"
  /\ UNCHANGED <<outside, spool, state, applied, job, wanted, asked, faults, ghost>>

\* The state without some users.
Forgotten(st, gone) ==
  [users    |-> [n \in Names |-> IF n \in gone THEN Unmeasured ELSE st.users[n]],
   notified |-> [n \in Names |-> IF n \in gone THEN NoKeys ELSE st.notified[n]],
   slots    |-> [n \in Names |-> IF n \in gone THEN 0 ELSE st.slots[n]],
   seen     |-> [n \in Names |-> IF n \in gone THEN NoKeys ELSE st.seen[n]]]

DeleteState ==
  /\ at = "deleteState"
  /\ state' = Forgotten(state, {job.name})
  /\ ghost' = [ghost EXCEPT !.told[job.name] = TRUE, !.noticed[job.name] = {}, !.lately[job.name] = {}]
  /\ at' = "apply"
  /\ UNCHANGED <<outside, spool, policies, applied, job, wanted, asked, faults>>

\* reset_traffic: a period from now on; what was told of the old one's traffic is due again.
FreshPeriod(n) ==
  /\ state' = [state EXCEPT !.users[n] = StartPeriod(days[n], now),
                            !.notified[n] = RestrictDomain(@, LAMBDA k : k[1] # "traffic")]
  /\ ghost' = [ghost EXCEPT !.noticed[n] = {x \in @ : x[1] # "traffic"}]

Reset(n) ==
  /\ Asked("reset")
  /\ n \in Known
  /\ FreshPeriod(n)
  /\ at' = "apply"
  /\ UNCHANGED <<outside, spool, policies, applied, job, wanted, faults>>

\* extend: what to write is computed from an overview taken without the lock ...
ExtendRead(c, n) ==
  LET policy    == Eff(n)
      current   == IF policy["expiresAt"] = Null THEN now ELSE Max({now, policy["expiresAt"]})
      Number(x) == [form |-> "number", n |-> x]
  IN  /\ "extend" \in conf.ops
      /\ asked < conf.requests
      /\ wanted[c] = NoWish
      /\ n \in Known
      /\ \E span \in conf.spans, reset \in conf.resets :
           wanted' = [wanted EXCEPT ![c] =
             [name |-> n, span |-> span, reset |-> reset, fields |->
                IF OnHold(policy) THEN [expiresAfter |-> Number(policy["expiresAfter"] + span)]
                ELSE [expiresAt |-> Number(current + span)]]]
      /\ asked' = asked + 1
      /\ UNCHANGED <<outside, spool, policies, state, applied, at, job, faults, ghost>>

\* ... and written under it, after the reset that may come with it.
ExtendReset(c) ==
  /\ at = "idle" /\ wanted[c].name \in Known /\ wanted[c].reset
  /\ FreshPeriod(wanted[c].name)
  /\ wanted' = [wanted EXCEPT ![c].reset = FALSE]
  /\ at' = "extend"
  /\ job' = [NoJob EXCEPT !.name = c]
  /\ UNCHANGED <<outside, spool, policies, applied, asked, faults>>

Extends(c) == (at = "idle" /\ ~wanted[c].reset) \/ (at = "extend" /\ job.name = c)

ExtendWrite(c) ==
  /\ wanted[c] # NoWish
  /\ Extends(c)
  /\ SetPolicy(wanted[c].name, wanted[c].fields, {})
  /\ wanted' = [wanted EXCEPT ![c] = NoWish]
  /\ UNCHANGED <<outside, spool, applied, asked, faults>>

\* Refused: the user has gone, the time is out of range, or there is no slot.
ExtendRefused(c) ==
  /\ wanted[c] # NoWish
  /\ Extends(c) \/ (at = "idle" /\ wanted[c].name \notin Known)
  /\ ~Accepts(wanted[c].name, wanted[c].fields, {})
  /\ wanted' = [wanted EXCEPT ![c] = NoWish]
  /\ at' = "idle"
  /\ job' = NoJob
  /\ UNCHANGED <<outside, spool, policies, state, applied, asked, faults, ghost>>

-----------------------------------------------------------------------------
(* A bundle of another host: the spool, the policies, the state, the stats  *)

Import ==
  /\ Asked("import")
  /\ \E bundle \in conf.bundles, replace \in BOOLEAN :
       /\ bundle.users \intersect Declared = {}
       /\ bundle.users \intersect spool = {} \/ replace
       /\ spool' = spool \union bundle.users
       /\ job' = [NoJob EXCEPT !.bundle = bundle, !.replace = replace]
       /\ ghost' = [ghost EXCEPT
            !.made  = [n \in Names |-> @[n] + (IF n \in bundle.users \ spool THEN 1 ELSE 0)],
            !.spent = [n \in Names |-> (IF n \in bundle.users \ spool THEN 0 ELSE @[n]) + bundle.spent[n]]]
  /\ at' = "importPolicies"
  /\ UNCHANGED <<outside, policies, state, applied, wanted, faults>>

\* An entry that is already here stays, unless replace.
ImportPolicies ==
  LET taken == {n \in Names : /\ DOMAIN job.bundle.policies[n] # {}
                              /\ CheckStored(job.bundle.policies[n], now) # Bad
                              /\ DOMAIN policies[n] = {} \/ job.replace}
  IN  /\ at = "importPolicies"
      /\ policies' = [n \in Names |-> IF n \in taken THEN ZeroLimits(job.bundle.policies[n]) ELSE policies[n]]
      /\ ghost' = [ghost EXCEPT !.owner   = [n \in Names |-> IF n \in taken THEN ghost.made[n] ELSE @[n]],
                                !.noticed = [n \in Names |-> IF n \in taken THEN {x \in @[n] : x[1] # "expiring"}
                                                            ELSE @[n]]]
      /\ at' = "importState"
      /\ UNCHANGED <<outside, spool, state, applied, job, wanted, asked, faults>>

\* Slots are given anew, by name; one too few refuses the rest of the import.
ImportState ==
  LET bundle == job.bundle
      users  == [n \in Names |-> IF bundle.state[n] # Unmeasured /\ (job.replace \/ state.users[n] = Unmeasured)
                                 THEN bundle.state[n] ELSE state.users[n]]
      needy  == {n \in bundle.slots : Limited(Eff(n)) /\ ~HasSlot(state.slots, n)}
      slots  == Assign(state.slots, needy, {})
  IN  /\ at = "importState"
      /\ \/ /\ \A n \in needy : HasSlot(slots, n)
            /\ state' = [state EXCEPT !.users = users, !.slots = slots,
                           !.notified = [n \in Names |-> IF users[n] = state.users[n] THEN @[n] ELSE NoKeys]]
            /\ ghost' = [ghost EXCEPT !.noticed = [n \in Names |-> IF users[n] = state.users[n] THEN @[n] ELSE {}]]
            /\ at' = "importStats"
            /\ UNCHANGED job
         \/ /\ \E n \in needy : ~HasSlot(slots, n)
            /\ at' = "idle"
            /\ job' = NoJob
            /\ UNCHANGED <<state, ghost>>
      /\ UNCHANGED <<outside, spool, policies, applied, wanted, asked, faults>>

\* Days the file has stay as they are.
ImportStats ==
  /\ at = "importStats"
  /\ days' = [n \in Names |-> [d \in DOMAIN days[n] |->
                IF days[n][d] = 0 THEN job.bundle.days[n][d] ELSE days[n][d]]]
  /\ at' = "apply"
  /\ job' = NoJob
  /\ UNCHANGED <<conf, now, online, bans, spool, policies, state, applied, wanted, asked, faults, ghost>>

-----------------------------------------------------------------------------
(* apply_now, at the end of every request and of a tick that needs it       *)

\* Mutant: nobody is told of users that were not there before.
Apply_known ==
  /\ at = "apply"
  /\ applied' = View(now)
  /\ ghost' = [ghost EXCEPT !.told = [n \in Names |->
                 IF applied # Null /\ n \in DOMAIN applied /\ n \in Known THEN View(now)[n].active ELSE @[n]]]
  /\ at' = IF job.ticking THEN "tickPurge" ELSE "idle"
  /\ job' = IF job.ticking THEN job ELSE NoJob
  /\ UNCHANGED <<outside, spool, policies, state, wanted, asked, faults>>

Apply ==
  /\ at = "apply"
  /\ applied' = View(now)
  /\ ghost' = [ghost EXCEPT !.told = [n \in Names |->
                 IF n \notin Known THEN @[n]
                 ELSE IF applied = Null THEN View(now)[n].active
                 ELSE LET was == IF n \in DOMAIN applied THEN applied[n].active ELSE TRUE
                      IN  IF was = View(now)[n].active THEN @[n] ELSE View(now)[n].active]]
  /\ at' = IF job.ticking THEN "tickPurge" ELSE "idle"
  /\ job' = IF job.ticking THEN job ELSE NoJob
  /\ UNCHANGED <<outside, spool, policies, state, wanted, asked, faults>>

Fault(kind) ==
  /\ kind \in conf.faultKinds
  /\ faults < conf.faults
  /\ faults' = faults + 1

\* A step of it failed: the request, or the whole tick, ends there.
ApplyFails ==
  /\ at = "apply"
  /\ Fault("apply")
  /\ at' = "idle"
  /\ job' = NoJob
  /\ UNCHANGED <<outside, spool, policies, state, applied, wanted, asked, ghost>>

-----------------------------------------------------------------------------
(* The tick                                                                 *)

\* Users new to it are measured, the others' periods rolled; slots are given
\* and taken back in the order of the names; who is gone is forgotten.
Measured(t) ==
  LET Rolled(n) == IF state.users[n].start = 0 THEN StartPeriod(days[n], t)
                   ELSE RollPeriod(Eff(n), state.users[n], t)
      limited   == {n \in Known : Limited(Eff(n))}
  IN  Forgotten([state EXCEPT
        !.users    = [n \in Names |-> IF n \in Known THEN Rolled(n) ELSE @[n]],
        !.notified = [n \in Names |-> IF n \in Known /\ Rolled(n) # state.users[n]
                                      THEN RestrictDomain(@[n], LAMBDA k : k[1] # "traffic") ELSE @[n]],
        !.slots    = Assign(@, limited, Known \ limited)],
        Names \ Known)

\* notify: what is due of a user, key by key, with what it is about.
Notices(st, n, t) ==
  LET policy  == Eff(n)
      limit   == policy["trafficLimit"]
      expires == policy["expiresAt"]
      used    == PeriodTraffic(days[n], st.users[n])
      Due(key, about) == key \notin DOMAIN st.notified[n] \/ st.notified[n][key] # about
  IN  {<<"traffic", p, st.users[n].start>> : p \in {p \in conf.percents :
          /\ limit # Null /\ used * 100 >= limit * p
          /\ Due(<<"traffic", p>>, st.users[n].start)}}
      \union
      {<<"expiring", d, expires>> : d \in {d \in conf.expiryDays :
          /\ expires # Null /\ t < expires /\ expires - t <= d * DayLen
          /\ Due(<<"expiring", d>>, expires)}}

Notified(old, notices) ==
  LET due == {<<x[1], x[2]>> : x \in notices}
  IN  [k \in due \union DOMAIN old |-> IF k \in due THEN (CHOOSE x \in notices : k = <<x[1], x[2]>>)[3] ELSE old[k]]

\* enforce_ip_limits: since which tick each address of a user's is seen, kept
\* as a rank, for only the order counts: ticks are seconds apart.
Seen(st, n) ==
  LET old == RestrictDomain(st.seen[n], LAMBDA ip : ip \in online[n])
      Rank(ip) == Cardinality({old[o] : o \in {o \in DOMAIN old : old[o] <= old[ip]}})
      ranks == {Rank(ip) : ip \in DOMAIN old}
  IN  [ip \in online[n] |-> IF ip \in DOMAIN old THEN Rank(ip) ELSE Max(ranks \union {0}) + 1]

\* Mutant: by address alone.
PastLimit_address(st, n) ==
  LET limit == Eff(n)["ipLimit"]
      ips   == online[n]
  IN  IF limit = Null \/ ~conf.nft \/ n \notin conf.bannable THEN {}
      ELSE {ip \in ips : Cardinality({o \in ips : o <= ip}) > limit}

\* Who came last past the limit.
PastLimit(st, n) ==
  LET limit  == Eff(n)["ipLimit"]
      seen   == Seen(st, n)
      Before(a, b) == seen[a] < seen[b] \/ (seen[a] = seen[b] /\ a <= b)
  IN  IF limit = Null \/ Cardinality(online[n]) <= limit \/ ~conf.nft \/ n \notin conf.bannable THEN {}
      ELSE {ip \in DOMAIN seen : Cardinality({o \in DOMAIN seen : Before(o, ip)}) > limit}

\* The measured state, with what is told and the addresses that are not banned.
Ticked(measured, notices, banned) ==
  [measured EXCEPT
     !.notified = [n \in Names |-> Notified(@[n], notices[n])],
     !.seen = [n \in Names |-> RestrictDomain(Seen(measured, n), LAMBDA ip : <<ip, n>> \notin banned)]]

\* Everything up to the save of the state, which is all in memory but for
\* the events and the bans; a ban may fail.
TickBegin ==
  LET measured == Measured(now)
      notices  == [n \in Names |-> IF n \in Known THEN Notices(measured, n, now) ELSE {}]
      past     == {x \in Ips \X Names : x[1] \in PastLimit(measured, x[2])}
      Came(n) == online[n] # {} \/ PeriodTraffic(days[n], measured.users[n]) > 0
  IN  /\ at = "idle"
      /\ \E failed \in SUBSET past :
           /\ IF failed = {} THEN UNCHANGED faults ELSE Fault("ban")
           /\ bans' = bans \union (past \ failed)
           /\ job' = [NoJob EXCEPT !.ticking = TRUE, !.time = now, !.state = Ticked(measured, notices, past \ failed),
                                   !.came = {n \in Known : OnHold(Eff(n)) /\ Came(n)}]
           /\ ghost' = [ghost EXCEPT
                !.noticed = [n \in Names |-> @[n] \union notices[n]],
                !.again   = @ \/ \E n \in Names : notices[n] \intersect ghost.noticed[n] # {},
                !.lately  = [n \in Names |-> {ip \in online[n] : n \in Known /\ <<ip, n>> \notin past \ failed}]]
      /\ at' = "tickSave"
      /\ UNCHANGED <<conf, now, days, online, spool, policies, state, applied, wanted, asked>>

\* Mutant: what was told is not saved.
TickSave_notices ==
  /\ at = "tickSave"
  /\ state' = [job.state EXCEPT !.notified = state.notified]
  /\ job' = [job EXCEPT !.state = Null]
  /\ at' = "tickActivate"
  /\ UNCHANGED <<outside, spool, policies, applied, wanted, asked, faults, ghost>>

TickSave ==
  /\ at = "tickSave"
  /\ state' = job.state
  /\ job' = [job EXCEPT !.state = Null]
  /\ at' = "tickActivate"
  /\ UNCHANGED <<outside, spool, policies, applied, wanted, asked, faults, ghost>>

\* Mutant: only those who were there when it is written, and spent something.
TickActivate_spent ==
  /\ at = "tickActivate"
  /\ policies' = [n \in Names |->
       IF n \in job.came /\ PeriodTraffic(days[n], state.users[n]) > 0
       THEN "expiresAt" :> Min({job.time + Eff(n)["expiresAfter"], MaxTime - 1}) @@ policies[n]
       ELSE policies[n]]
  /\ at' = "tickPurge"
  /\ UNCHANGED <<outside, spool, state, applied, job, wanted, asked, faults, ghost>>

\* activate: the term of who was on hold and has come starts.  It stays short of MaxTime, or
\* load_policies would drop the entry.
Started(n) == Min({job.time + Eff(n)["expiresAfter"], MaxTime - 1})

TickActivate ==
  /\ at = "tickActivate"
  /\ policies' = [n \in Names |->
       IF n \in job.came
       THEN [f \in DOMAIN policies[n] \union {"expiresAt"} |-> IF f = "expiresAt" THEN Started(n) ELSE policies[n][f]]
       ELSE policies[n]]
  /\ at' = "tickPurge"
  /\ UNCHANGED <<outside, spool, state, applied, job, wanted, asked, faults, ghost>>

\* purge: runtime users expired for long enough, one after the other, as by hand.
LongExpired(n) ==
  LET expires == Eff(n)["expiresAt"]
  IN  conf.purgeAfter # Null /\ expires # Null /\ job.time >= expires + conf.purgeAfter

TickPurge ==
  LET gone == SelectSeq(NameOrder, LAMBDA n : n \in spool /\ LongExpired(n))
  IN  /\ at = "tickPurge"
      /\ conf.purgeAfter # Null
      /\ gone # <<>>
      /\ DeleteFile(Head(gone))
      /\ job' = [job EXCEPT !.name = Head(gone)]
      /\ UNCHANGED <<outside, policies, state, applied, wanted, asked, faults, ghost>>

\* Mutant: only the first tick applies.
TickEnd_first ==
  /\ at = "tickPurge"
  /\ ~\E n \in spool : LongExpired(n)
  /\ at' = IF applied = Null THEN "apply" ELSE "idle"
  /\ job' = NoJob
  /\ UNCHANGED <<outside, spool, policies, state, applied, wanted, asked, faults, ghost>>

TickEnd ==
  /\ at = "tickPurge"
  /\ ~\E n \in spool : LongExpired(n)
  /\ at' = IF View(job.time) # applied THEN "apply" ELSE "idle"
  /\ job' = NoJob
  /\ UNCHANGED <<outside, spool, policies, state, applied, wanted, asked, faults, ghost>>

-----------------------------------------------------------------------------
(* What happens beside it                                                   *)

\* Bound: in some scenarios these wait until nobody has the lock.
Beside == conf.anytime \/ at = "idle"

ToClock ==
  /\ Beside
  /\ now < conf.end
  /\ now' = now + 1
  /\ UNCHANGED <<conf, days, online, bans, spool, policies, state, applied, at, job, wanted, asked, faults, ghost>>

\* The collector counts some traffic of a user who may connect.
Spend(n) ==
  /\ Beside
  /\ n \in Known
  /\ applied # Null /\ n \in DOMAIN applied /\ applied[n].active
  /\ n \in DOMAIN conf.spend /\ days[n][Day(now)] < conf.spend[n]
  /\ days' = [days EXCEPT ![n][Day(now)] = @ + 1]
  /\ ghost' = [ghost EXCEPT !.spent[n] = @ + 1]
  /\ UNCHANGED <<conf, now, online, bans, spool, policies, state, applied, at, job, wanted, asked, faults>>

\* An address of a user's comes, goes, or is no longer banned.
Connect(n, ip) ==
  /\ Beside
  /\ n \in DOMAIN conf.comes /\ ip \in conf.comes[n]
  /\ n \in Known /\ ip \notin online[n] /\ <<ip, n>> \notin bans
  /\ online' = [online EXCEPT ![n] = @ \union {ip}]
  /\ UNCHANGED <<conf, now, days, bans, spool, policies, state, applied, at, job, wanted, asked, faults, ghost>>

Disconnect(n, ip) ==
  /\ Beside
  /\ ip \in online[n]
  /\ online' = [online EXCEPT ![n] = @ \ {ip}]
  /\ UNCHANGED <<conf, now, days, bans, spool, policies, state, applied, at, job, wanted, asked, faults, ghost>>

Unban ==
  /\ Beside
  /\ \E ban \in bans : bans' = bans \ {ban}
  /\ UNCHANGED <<conf, now, days, online, spool, policies, state, applied, at, job, wanted, asked, faults, ghost>>

\* The daemon dies and starts again, perhaps with a configuration of fewer slots.
Crash ==
  /\ Fault("crash")
  /\ \E slots \in {conf.slots, conf.slotsLater} : conf' = [conf EXCEPT !.slots = slots]
  /\ at' = "idle"
  /\ job' = NoJob
  /\ wanted' = [c \in Clients |-> NoWish]
  /\ applied' = Null
  /\ UNCHANGED <<now, days, online, bans, spool, policies, state, asked, ghost>>

-----------------------------------------------------------------------------
Init ==
  /\ conf \in Scenarios
  /\ now = Midnight(1)
  /\ spool = conf.spool
  /\ policies = [n \in Names |-> IF n \in DOMAIN conf.policies THEN conf.policies[n] ELSE <<>>]
  /\ state = [users |-> [n \in Names |-> Unmeasured], notified |-> [n \in Names |-> NoKeys],
              slots |-> [n \in Names |-> 0], seen |-> [n \in Names |-> NoKeys]]
  /\ days = [n \in Names |-> [d \in 1..Day(conf.end) |-> 0]]
  /\ online = [n \in Names |-> {}]
  /\ bans = {}
  /\ applied = Null
  /\ at = "idle"
  /\ job = NoJob
  /\ wanted = [c \in Clients |-> NoWish]
  /\ asked = 0
  /\ faults = 0
  /\ ghost = [told |-> [n \in Names |-> TRUE], noticed |-> [n \in Names |-> {}], again |-> FALSE,
              spent |-> [n \in Names |-> 0], made |-> [n \in Names |-> 0],
              owner |-> [n \in Names |-> 0], lately |-> [n \in Names |-> {}]]

Request(n) == Patch(n) \/ Create(n) \/ Delete(n) \/ Reset(n)

\* What who has the lock does next.
Work == \/ SetPolicySave \/ CreatePolicies \/ CreateState \/ DeletePolicies \/ DeleteState
        \/ ImportPolicies \/ ImportState \/ ImportStats \/ Apply
        \/ TickSave \/ TickActivate \/ TickPurge \/ TickEnd

Extending(c) == ExtendReset(c) \/ ExtendWrite(c) \/ ExtendRefused(c)

Next ==
  \/ \E n \in Names : Request(n)
  \/ Import
  \/ \E c \in Clients : Extending(c) \/ \E n \in Names : ExtendRead(c, n)
  \/ Work
  \/ ApplyFails
  \/ TickBegin
  \/ ToClock
  \/ \E n \in Names : Spend(n) \/ \E ip \in Ips : Connect(n, ip) \/ Disconnect(n, ip)
  \/ Unban
  \/ Crash

Spec == Init /\ [][Next]_vars

\* The thread that has the lock goes on, and serve()'s loop ticks again and
\* again: requests are finitely many, so they do not keep the lock from it.
Fairness == WF_vars(Work \/ TickBegin)

FairSpec == Spec /\ Fairness

-----------------------------------------------------------------------------
(* Properties                                                               *)

\* Every variable has the shape that the files and the locals have
\* (Manager.state, stored_policies and the rest).
TypeOK ==
  /\ now \in Nat /\ asked \in Nat /\ faults \in Nat
  /\ spool \subseteq Runtime
  /\ \A n \in Names : StoredEntry(policies[n])
  /\ DOMAIN state = {"users", "notified", "slots", "seen"}
  /\ \A n \in Names : /\ DOMAIN state.users[n] = {"start", "base", "anchor"}
                      /\ state.slots[n] \in Nat
                      /\ DOMAIN state.seen[n] \subseteq Ips
                      /\ online[n] \subseteq Ips
  /\ bans \subseteq Ips \X Names
  /\ applied = Null \/ DOMAIN applied \subseteq Names
  /\ at \in {"idle", "setPolicy", "createPolicies", "createState", "deletePolicies", "deleteState",
             "importPolicies", "importState", "importStats", "extend", "apply",
             "tickSave", "tickActivate", "tickPurge"}
  /\ \A c \in Clients : wanted[c].name \in Names \union {Null}

\* No two users have the same slot, through creates, deletes, imports, a
\* crash between two files and slots lowered at a restart: a level in the
\* running XRay is one user's speed limit (_allocate_slot, inbound_manager.py:273).
SlotsApart ==
  /\ \A m, n \in Names : m # n /\ state.slots[m] # 0 => state.slots[m] # state.slots[n]
  /\ applied # Null => \A m, n \in DOMAIN applied :
       m # n /\ applied[m].level # 0 => applied[m].level # applied[n].level

\* Whoever follows the events knows who is switched off, once the inbounds
\* were applied and nobody is at work (apply_now, inbound_manager.py:470).
ToldRight ==
  at = "idle" /\ applied # Null => \A n \in DOMAIN applied \intersect Known : ghost.told[n] = applied[n].active

\* Without a crash, each threshold is told once per period and each coming
\* expiry once per expiry, as notify() says (inbound_manager.py:597).
NoticedOnce == "crash" \in conf.faultKinds \/ ~ghost.again

\* A user who is made has no policy but their own: what an earlier user of
\* the name had is gone, even if the daemon died on the way (create_user and
\* forget, inbound_manager.py:310, 376).
StartsFresh ==
  at = "idle" => \A n \in spool : DOMAIN policies[n] = {} \/ ghost.owner[n] = ghost.made[n]

\* A user's traffic is what they spent themselves, since they were made:
\* not what an earlier user of the name did that day (start_period, tick).
UsedIsOwn ==
  at = "idle" => \A n \in spool : PeriodTraffic(days[n], state.users[n]) <= ghost.spent[n]

\* Unless the daemon died, an address that was there at the last tick is not banned while
\* one that came since, or that was banned then, is kept, but where banning that one
\* failed (enforce_ip_limits).
BannedLast ==
  \A n \in Names, early, late \in Ips :
    /\ at = "idle" /\ at' = "tickSave" /\ UNCHANGED faults
    /\ "crash" \notin conf.faultKinds
    /\ {early, late} \subseteq online[n]
    /\ early \in ghost.lately[n] /\ late \notin ghost.lately[n]
    /\ <<early, n>> \in bans' \ bans
    => <<late, n>> \in bans'

EarlierKept == [][BannedLast]_vars

\* extend moves the expiry by its span, "from now or from the current expiry
\* if that is later" (inbound_manager.py:443).
ExtendMoves ==
  [][ \A c \in Clients :
        /\ wanted[c] # NoWish /\ wanted'[c] = NoWish
        /\ at' = "apply"
        /\ Eff(wanted[c].name)["expiresAt"] # Null
        => policies'[wanted[c].name]["expiresAt"] >= Eff(wanted[c].name)["expiresAt"] + wanted[c].span ]_vars

\* A user on hold who stays connected has their term started, or is gone
\* (activate, inbound_manager.py:557).
Waiting(n) == n \in Known /\ OnHold(Eff(n)) /\ online[n] # {}

TermStarts == \A n \in Runtime : []<>~Waiting(n)

\* When nothing comes any more, the inbounds run what the policies say, and a
\* user with a speed limit is without a slot only when all are taken (tick).
Settles ==
  <>[]( /\ applied = View(now)
        /\ \A n \in Known : Limited(Eff(n)) /\ ~HasSlot(state.slots, n) => FreeSlots(state.slots, n) = {} )
=============================================================================
