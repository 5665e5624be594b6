------------------------------ MODULE CtlRules ------------------------------
(***************************************************************************)
(* `proxy-ctl proxy rules` (src/pkgs/proxy-ctl/proxy_ctl.py): the routing  *)
(* rules added at runtime, each placed by its priority among the sections  *)
(* of the configuration.                                                   *)
(* An edit reads, changes and replaces rules.json under its lock           *)
(* (CtlGroupFiles), so it is one step here.                                *)
(*                                                                         *)
(* Rules are a function from names to [target, priority, disabled,         *)
(* matches]; a match is a value of any kind, a sequence of them what       *)
(* _rule_matches lists.                                                    *)
(***************************************************************************)
EXTENDS Integers, Sequences, FiniteSets
LOCAL INSTANCE SequencesExt

CONSTANTS
  Names, Rank,     \* names, and the order they sort in
  Targets,
  Matches,         \* what may be matched
  Sections,        \* the configuration's: a sequence of [id, priority], those that are not empty
  Default, Limit,  \* RULE_DEFAULT_PRIORITY, RULE_PRIORITY_LIMIT
  Profiles,        \* Happ profiles: [name, order, lists: [targets -> matches]]
  Happ,            \* [<<profile name, target>> -> the name of its rule]
  MaxEdits

VARIABLES
  rules,     \* rules.json
  here,      \* Matches whose geosite, geoip or rule set is on this host
  edits

rvars == <<rules, here, edits>>

Set(f, k, v) == [x \in DOMAIN f \union {k} |-> IF x = k THEN v ELSE f[x]]
Index(s, x)  == CHOOSE n \in DOMAIN s : s[n] = x

\* _rule_normal's priority, of a number within what JSON holds.
Clamp(n) == IF n > Limit THEN Limit ELSE IF n < -Limit THEN -Limit ELSE n

-----------------------------------------------------------------------------
(* The match order: lower first, a runtime rule first among equals.         *)

SectionIds == {Sections[n].id : n \in DOMAIN Sections}
SectionAt(id) == CHOOSE n \in DOMAIN Sections : Sections[n].id = id
Priority(rs, row) == IF row[1] = "rule" THEN rs[row[2]].priority ELSE Sections[SectionAt(row[2])].priority
Before(rs, a, b) ==
  \/ Priority(rs, a) < Priority(rs, b)
  \/ /\ Priority(rs, a) = Priority(rs, b)
     /\ \/ a[1] = "rule" /\ b[1] = "section"
        \/ a[1] = "rule" /\ b[1] = "rule" /\ Rank[a[2]] < Rank[b[2]]
        \/ a[1] = "section" /\ b[1] = "section" /\ SectionAt(a[2]) < SectionAt(b[2])
Rows(rs) ==
  LET all  == {<<"rule", n>> : n \in DOMAIN rs} \union {<<"section", id>> : id \in SectionIds}
      at   == [a \in all |-> 1 + Cardinality({b \in all : Before(rs, b, a)})]
  IN  [i \in 1..Cardinality(all) |-> CHOOSE a \in all : at[a] = i]

Place(rows, name, direction) == Index(rows, <<"rule", name>>) + (IF direction = "up" THEN -1 ELSE 1)
Swapped(rows, i, j) == [rows EXCEPT ![i] = rows[j], ![j] = rows[i]]
\* The rules around row k with no section between.
Run(order, k) == {n \in DOMAIN order : \A m \in (n..k) \union (k..n) : order[m][1] = "rule"}

\* The rows from lo to hi, all of them rules, numbered between the sections around
\* them, 10 apart where they fit; <<>>, there is no room.
Numbered(rs, order, lo, hi) ==
  LET size  == hi - lo + 1
      below == Priority(rs, order[lo - 1])
      above == Priority(rs, order[hi + 1])
      step  == IF above - below >= 10 * size THEN 10 ELSE (above - below) \div size
      Nth(n) == CASE lo = 1 /\ hi = Len(order) -> 10 * n
                  [] lo = 1                    -> above - 10 * (size - n + 1)
                  [] hi = Len(order)           -> below + 10 * n
                  [] OTHER                     -> below + step * n
  IN  IF lo > 1 /\ hi < Len(order) /\ step < 1 THEN <<>>
      ELSE [n \in DOMAIN rs |-> IF Index(order, <<"rule", n>>) \in lo..hi
                                THEN [rs[n] EXCEPT !.priority = Nth(Index(order, <<"rule", n>>) - lo + 1)]
                                ELSE rs[n]]
Renumbered(rs, order, run) == Numbered(rs, order, Min(run), Max(run))

\* Mutant: the rules it lands among keep their numbers.
Moved_alone(rs, name, direction) ==
  LET rows == Rows(rs)
      j    == Place(rows, name, direction)
  IN  IF j \notin DOMAIN rows THEN rs
      ELSE [rs EXCEPT ![name].priority = Priority(rs, rows[j]) + (IF direction = "up" THEN -1 ELSE 1)]

\* _rules_move: past the next row, then the run of rules it is in now gets numbers anew.
Moved(rs, name, direction) ==
  LET rows  == Rows(rs)
      j     == Place(rows, name, direction)
      order == Swapped(rows, Index(rows, <<"rule", name>>), j)
  IN  IF j \notin DOMAIN rows THEN rs ELSE Renumbered(rs, order, Run(order, j))

-----------------------------------------------------------------------------
(* The commands                                                             *)

Extend(matches, more) == matches \o SelectSeq(more, LAMBDA m : m \notin ToSet(matches))
Known(matches) == ToSet(matches) \subseteq here

\* _rules_edit: a command that refuses its change saves nothing.
Edit(changed) ==
  /\ edits < MaxEdits /\ edits' = edits + 1
  /\ changed # <<>> \/ rules = <<>>
  /\ rules' = changed
  /\ UNCHANGED here

\* _rules_add: it makes the rule, or extends the one of this name and target.
Add(name, target, matches, priority) ==
  /\ Known(matches)
  /\ name \in DOMAIN rules => rules[name].target = target
  /\ Edit(IF name \in DOMAIN rules
          THEN [rules EXCEPT ![name].matches = Extend(@, matches), ![name].priority = IF priority = {} THEN @ ELSE CHOOSE n \in priority : TRUE]
          ELSE Set(rules, name, [target |-> target, priority |-> IF priority = {} THEN Default ELSE CHOOSE n \in priority : TRUE,
                                 disabled |-> FALSE, matches |-> matches]))

\* _rules_matches: taken out, it need not be on this host any more; kept, neither.
MatchesOf(name, op, matches) ==
  /\ name \in DOMAIN rules
  /\ CASE op = "add" -> Known(matches)
       [] op = "rm"  -> TRUE
       [] op = "set" -> Known(SelectSeq(matches, LAMBDA m : m \notin ToSet(rules[name].matches)))
  /\ Edit([rules EXCEPT ![name].matches =
             CASE op = "add" -> Extend(@, matches)
               [] op = "rm"  -> SelectSeq(@, LAMBDA m : m \notin ToSet(matches))
               [] op = "set" -> Extend(<<>>, matches)])

Target(name, target)     == name \in DOMAIN rules /\ Edit([rules EXCEPT ![name].target = target])
Number(name, n)          == name \in DOMAIN rules /\ n = Clamp(n) /\ Edit([rules EXCEPT ![name].priority = n])
Move(name, direction)    == name \in DOMAIN rules /\ Edit(Moved(rules, name, direction))
Switch(name, off)        == name \in DOMAIN rules /\ Edit([rules EXCEPT ![name].disabled = off])
Rm(name)                 == name \in DOMAIN rules /\ Edit([n \in DOMAIN rules \ {name} |-> rules[n]])

\* _rules_import: a rule per target, in the profile's order; those of an earlier
\* import go, all of them, or the import is refused.
Import(profile, replace) ==
  LET Wanted(t) == SelectSeq(profile.lists[t], LAMBDA m : m \in here)
      names     == {Happ[<<profile.name, t>>] : t \in DOMAIN profile.lists}
      Target0(n) == CHOOSE t \in DOMAIN profile.lists : Happ[<<profile.name, t>>] = n
      imported  == {n \in names : Wanted(Target0(n)) # <<>>}
  IN  /\ imported # {}
      /\ replace \/ names \intersect DOMAIN rules = {}
      /\ Edit([n \in (DOMAIN rules \ names) \union imported |->
                 IF n \notin imported THEN rules[n]
                 ELSE [target |-> Target0(n), priority |-> 10 * Index(profile.order, Target0(n)), disabled |-> FALSE,
                       matches |-> Extend(<<>>, Wanted(Target0(n)))]])

\* A rule set or a geosite goes from this host, or comes.
Vanish == /\ \E m \in Matches : here' = IF m \in here THEN here \ {m} ELSE here \union {m}
          /\ Cardinality(Matches \ here') <= 1
          /\ UNCHANGED <<rules, edits>>

Init == rules = <<>> /\ here = Matches /\ edits = 0

Command(name) ==
  \/ \E t \in Targets, m \in Matches, priority \in {{}, {101}} : Add(name, t, <<m>>, priority)
  \/ \E op \in {"add", "rm", "set"}, m \in Matches : MatchesOf(name, op, <<m>>)
  \/ \E t \in Targets : Target(name, t)
  \/ Number(name, 100)
  \/ \E direction \in {"up", "down"} : Move(name, direction)
  \/ Switch(name, TRUE) \/ Switch(name, FALSE)
  \/ Rm(name)

Next ==
  \/ Vanish
  \/ \E name \in Names : Command(name)
  \/ \E profile \in Profiles, replace \in BOOLEAN : Import(profile, replace)

-----------------------------------------------------------------------------
\* "Moves a rule one row up or down in the match order", past a rule or a section
\* of the configuration and no further: every other row stays where it was, and a
\* rule that has reached the end, or for which there is no room, stays.
MovesOneRow ==
  \A name \in DOMAIN rules, direction \in {"up", "down"} :
    LET rows  == Rows(rules)
        after == Moved(rules, name, direction)
        j     == Place(rows, name, direction)
    IN  IF after = <<>> \/ j \notin DOMAIN rows THEN after \in {<<>>, rules}
        ELSE Rows(after) = Swapped(rows, Index(rows, <<"rule", name>>), j)
=============================================================================
