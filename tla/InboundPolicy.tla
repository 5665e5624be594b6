--------------------------- MODULE InboundPolicy ---------------------------
(***************************************************************************)
(* Policies, terms and traffic periods: src/scripts/inbound_policy.py, as  *)
(* pure functions.                                                         *)
(*                                                                         *)
(* Time is a count of moments, DayLen of them a day.  Day 1 is the first   *)
(* of a month, and Months gives the months' lengths.  A user's traffic is  *)
(* one counter per day (up and down are added: both only grow).  A policy  *)
(* is a partial function from Fields, as the files keep it; what a person  *)
(* writes is a raw value, a record with a form.                            *)
(***************************************************************************)
EXTENDS Integers, Sequences, FiniteSets, TLC
LOCAL INSTANCE FiniteSetsExt

CONSTANTS
  DayLen,      \* moments of a day
  Months,      \* <<length of the first month, ...>>
  MaxTime,     \* MAX_TIME: times from here on are refused
  SizeUnits,   \* unit |-> factor, SIZE_UNITS or RATE_UNITS
  SpanUnits,   \* unit |-> moments, RELATIVE_UNITS
  Null,        \* None: no value, no limit
  Bad          \* PolicyError

Fields  == {"enabled", "expiresAt", "expiresAfter", "trafficLimit",
            "trafficPeriod", "ipLimit", "speedLimit"}
Periods == {"daily", "weekly", "monthly"}

\* What is written in a field: a value, or a pair of rates.
Raw == {[form |-> "none"]} \union [form : {"flag"}, on : BOOLEAN] \union [form : {"period"}, period : Periods]
       \union [form : {"number"}, n : Int] \union [form : {"date"}, n : Nat]
       \union [form : {"text"}, tenths : Nat, unit : STRING] \union [form : {"span", "relative"}, n : Nat, unit : STRING]
Written == Raw \union [form : {"pair"}, up : Raw, down : Raw]

\* What the file keeps of a field: 0 is no limit, so an amount is positive or none.
Amount == {Null} \union (Nat \ {0})
Speeds == {s \in [up : Amount, down : Amount] : s.up # Null \/ s.down # Null}
Stored(f) ==
  CASE f = "enabled"                     -> BOOLEAN
    [] f \in {"expiresAt", "expiresAfter"} -> {Null} \union {t \in Nat : 0 < t /\ t < MaxTime}
    [] f = "trafficPeriod"               -> {Null} \union Periods
    [] f = "speedLimit"                  -> {Null} \union Speeds
    [] OTHER                             -> Amount

Values == Nat \union BOOLEAN \union Periods \union Speeds \union {Null}

\* An entry of the file.
StoredEntry(entry) ==
  /\ DOMAIN entry \subseteq Fields
  /\ entry = [f \in DOMAIN entry |-> entry[f]]
  /\ \A f \in DOMAIN entry : entry[f] \in Stored(f)

DefaultPolicy == [f \in Fields |-> IF f = "enabled" THEN TRUE ELSE Null]

ASSUME PolicyAssumption ==
  /\ DayLen \in Nat \ {0}
  /\ Months \in Seq(Nat \ {0}) /\ Months # <<>>
  /\ MaxTime \in Nat \ {0, 1}
  /\ SizeUnits \in [DOMAIN SizeUnits -> Nat \ {0}] /\ SpanUnits \in [DOMAIN SpanUnits -> Nat \ {0}]
  /\ Null # Bad
  /\ \A no \in {Null, Bad} :
       /\ no \notin Int /\ no \notin BOOLEAN /\ no \notin Periods /\ no \notin [up : Amount, down : Amount]
       /\ \A fields \in SUBSET Fields : no \notin [fields -> Values]

-----------------------------------------------------------------------------
(* What people write, and what the file keeps of it                         *)

\* Mutant: what rounds down to 0 is written as 0.
ParseAmount_zero(raw) ==
  CASE raw.form = "none"   -> Null
    [] raw.form = "number" -> IF raw.n < 0 THEN Bad ELSE raw.n
    [] raw.form = "text"   -> IF raw.unit \notin DOMAIN SizeUnits THEN Bad
                              ELSE (raw.tenths * SizeUnits[raw.unit]) \div 10
    [] OTHER               -> Bad

\* A size or a rate, given as a number, as text in tenths of a unit, or as a
\* word for none.  What rounds down to 0 is no limit.
ParseAmount(raw) ==
  CASE raw.form = "none"   -> Null
    [] raw.form = "number" -> IF raw.n < 0 THEN Bad ELSE IF raw.n = 0 THEN Null ELSE raw.n
    [] raw.form = "text"   -> IF raw.unit \notin DOMAIN SizeUnits THEN Bad
                              ELSE LET n == (raw.tenths * SizeUnits[raw.unit]) \div 10
                                   IN  IF n = 0 THEN Null ELSE n
    [] OTHER               -> Bad

\* One rate for both ways, "down/up", or an object with either.
ParseSpeed(raw) ==
  LET up   == ParseAmount(IF raw.form = "pair" THEN raw.up ELSE raw)
      down == ParseAmount(IF raw.form = "pair" THEN raw.down ELSE raw)
  IN  IF Bad \in {up, down} THEN Bad
      ELSE IF up = Null /\ down = Null THEN Null
      ELSE [up |-> up, down |-> down]

ParseDuration(raw) ==
  CASE raw.form = "none"                 -> Null
    [] raw.form = "number"               -> IF raw.n < 0 THEN Bad ELSE IF raw.n = 0 THEN Null ELSE raw.n
    [] raw.form \in {"span", "relative"} ->
         IF raw.unit \notin DOMAIN SpanUnits THEN Bad
         ELSE IF raw.n = 0 THEN Null ELSE raw.n * SpanUnits[raw.unit]
    [] OTHER                             -> Bad

\* A time: a number, a date (the end of that day), a span from now, or never.
ParseTime(raw, now) ==
  CASE raw.form = "none"     -> Null
    [] raw.form = "number"   -> raw.n
    [] raw.form = "date"     -> (raw.n + 1) * DayLen
    [] raw.form = "relative" -> IF raw.unit \notin DOMAIN SpanUnits THEN Bad
                                ELSE now + raw.n * SpanUnits[raw.unit]
    [] OTHER                 -> Bad

\* One field.  A time of 0 is no expiry, as 0 is no limit in the others.
NormalField(f, raw, now) ==
  CASE f = "enabled"       -> IF raw.form = "flag" THEN raw.on ELSE Bad
    [] f = "expiresAt"     ->
         LET t == IF raw.form = "number" /\ raw.n = 0 THEN Null ELSE ParseTime(raw, now)
         IN  IF t \in {Null, Bad} THEN t
             ELSE IF 0 < t /\ t < MaxTime THEN t ELSE Bad
    [] f = "expiresAfter"  ->
         LET d == ParseDuration(raw)
         IN  IF d \in {Null, Bad} THEN d ELSE IF d >= MaxTime THEN Bad ELSE d
    [] f = "trafficPeriod" -> IF raw.form = "none" THEN Null
                              ELSE IF raw.form = "period" THEN raw.period ELSE Bad
    [] f = "ipLimit"       -> IF raw.form = "none" THEN Null
                              ELSE IF raw.form = "number" /\ raw.n >= 0
                                   THEN (IF raw.n = 0 THEN Null ELSE raw.n) ELSE Bad
    [] f = "trafficLimit"  -> ParseAmount(raw)
    [] f = "speedLimit"    -> ParseSpeed(raw)

\* normalize: only the fields given; one that is bad refuses them all.
Normalize(fields, now) ==
  LET out == [f \in DOMAIN fields |-> NormalField(f, fields[f], now)]
  IN  IF DOMAIN fields \subseteq Fields /\ \A f \in DOMAIN fields : out[f] # Bad
      THEN out ELSE Bad

-----------------------------------------------------------------------------
(* What the file keeps, read again                                          *)

\* A size or rate of 0 in the file, where "0G" once was: no limit.
ZeroLimits(entry) ==
  LET Zero(v)  == IF v = 0 THEN Null ELSE v
      Speed(s) == IF s = Null THEN Null
                  ELSE IF Zero(s.up) = Null /\ Zero(s.down) = Null THEN Null
                  ELSE [up |-> Zero(s.up), down |-> Zero(s.down)]
  IN  [f \in DOMAIN entry |->
         CASE f = "trafficLimit" -> Zero(entry[f])
           [] f = "speedLimit"   -> Speed(entry[f])
           [] OTHER              -> entry[f]]

\* A stored value, as the raw value that normalize() takes it for.
AsRaw(f, v) ==
  LET Number(x) == IF x = Null THEN [form |-> "none"] ELSE [form |-> "number", n |-> x]
  IN  CASE f = "enabled"       -> [form |-> "flag", on |-> v]
        [] f = "trafficPeriod" -> IF v = Null THEN [form |-> "none"] ELSE [form |-> "period", period |-> v]
        [] f = "speedLimit"    -> IF v = Null THEN [form |-> "none"]
                                  ELSE [form |-> "pair", up |-> Number(v.up), down |-> Number(v.down)]
        [] OTHER               -> Number(v)

\* check_stored: normalize must change nothing but the zeros.
CheckStored(entry, now) ==
  LET z == ZeroLimits(entry)
  IN  IF Normalize([f \in DOMAIN z |-> AsRaw(f, z[f])], now) = z THEN z ELSE Bad

\* load_policies: an entry that does not hold up is left out, as if there were none.
LoadPolicy(entry, now) == LET e == CheckStored(entry, now) IN IF e = Bad THEN <<>> ELSE e

\* The defaults, then the declared policy, then the stored one, field by field.
Effective(declared, stored) ==
  [f \in Fields |-> IF f \in DOMAIN stored THEN stored[f]
                    ELSE IF f \in DOMAIN declared THEN declared[f] ELSE DefaultPolicy[f]]

-----------------------------------------------------------------------------
(* Days and periods                                                         *)

Day(t)      == t \div DayLen
Midnight(d) == d * DayLen

FirstDay == LET first[m \in 1..Len(Months) + 1] == IF m = 1 THEN 1 ELSE first[m - 1] + Months[m - 1]
            IN  first
MonthOf(d)    == CHOOSE m \in 1..Len(Months) : FirstDay[m] <= d /\ d < FirstDay[m + 1]
DayOfMonth(d) == d - FirstDay[MonthOf(d)] + 1

\* The moments before the last of Months, which only ends periods.
Moments == Midnight(1) .. Midnight(FirstDay[Len(Months)]) - 1

Unmeasured == [start |-> 0, base |-> 0, anchor |-> 0]

\* Mutant: the day of the month is taken from the period, not from the anchor.
AddPeriod_drift(d, period, anchor) ==
  CASE period = "daily"   -> d + 1
    [] period = "weekly"  -> d + 7
    [] period = "monthly" -> LET m == MonthOf(d) + 1
                             IN  FirstDay[m] + Min({DayOfMonth(d), Months[m]}) - 1

\* A monthly period ends on its anchor's day of the next month, or that month's last.
AddPeriod(d, period, anchor) ==
  CASE period = "daily"   -> d + 1
    [] period = "weekly"  -> d + 7
    [] period = "monthly" -> LET m == MonthOf(d) + 1
                             IN  FirstDay[m] + Min({anchor, Months[m]}) - 1

PeriodEnd(policy, user) ==
  IF policy["trafficPeriod"] \notin Periods \/ user.start = 0 THEN Null
  ELSE LET first  == Day(user.start)
           anchor == IF user.anchor = 0 THEN DayOfMonth(first) ELSE user.anchor
       IN  Midnight(AddPeriod(first, policy["trafficPeriod"], anchor))

\* The day's traffic so far is the baseline of a period that begins now.
StartPeriod(days, now) ==
  [start |-> now, base |-> days[Day(now)], anchor |-> DayOfMonth(Day(now))]

\* From boundary to boundary, past now; what a boundary's day has counts whole.
RollPeriod(policy, user, now) ==
  LET last[s \in {0} \union Moments] ==
        LET end == PeriodEnd(policy, [user EXCEPT !.start = s])
        IN  IF end = Null THEN s ELSE IF end > now THEN s ELSE last[end]
  IN  IF last[user.start] = user.start THEN user
      ELSE [user EXCEPT !.start = last[user.start], !.base = 0]

Total(s) == LET sum[i \in 0..Len(s)] == IF i = 0 THEN 0 ELSE sum[i - 1] + s[i]
            IN  sum[Len(s)]

\* The days from one on, as the others had nothing.
DaysFrom(days, first) == [d \in 1..Len(days) |-> IF d >= first THEN days[d] ELSE 0]

\* Every day from the period's first, less what that day had before it.
PeriodTraffic(days, user) ==
  IF user.start = 0 THEN 0
  ELSE Max({0, Total(DaysFrom(days, Day(user.start))) - user.base})

-----------------------------------------------------------------------------
(* Statuses                                                                 *)

OnHold(policy) == policy["expiresAt"] = Null /\ policy["expiresAfter"] # Null

Reasons(policy, used, now) ==
  {r \in {"disabled", "expired", "traffic"} :
     \/ r = "disabled" /\ ~policy["enabled"]
     \/ r = "expired"  /\ policy["expiresAt"] # Null /\ now >= policy["expiresAt"]
     \/ r = "traffic"  /\ policy["trafficLimit"] # Null /\ used >= policy["trafficLimit"]}

\* Who may connect, and at which level: a copy of the user's period is rolled.
StatusOf(policy, user, slot, days, now, slots, speedLimits) ==
  LET rolled == RollPeriod(policy, user, now)
  IN  [active |-> Reasons(policy, PeriodTraffic(days, rolled), now) = {},
       level  |-> IF policy["speedLimit"] # Null /\ speedLimits /\ 0 < slot /\ slot <= slots
                  THEN slot ELSE 0]
=============================================================================
