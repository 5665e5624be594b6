------------------------------ MODULE SubFetch ------------------------------
(***************************************************************************)
(* A fetch of a subscription: src/scripts/fetch-subscription.py, with the  *)
(* entries as proxy_parsing.py reads them.  What a server answers is a     *)
(* list of links, or JSON; what it may contain is told apart by what the   *)
(* fetch does with it.  Outbounds come out as the entries they are from.   *)
(***************************************************************************)
EXTENDS Integers, Sequences, FiniteSets, TLC

CONSTANTS
  Deadline,    \* OVERALL_DEADLINE_SECONDS
  MaxEntries,  \* MAX_SUBSCRIPTION_ENTRIES
  MaxRuns,     \* MAX_CHECK_RUNS, for CHECK_BUDGET_SECONDS too
  Failed,      \* nothing is written: the caller keeps what it has
  None

Both == <<"sing-box", "xray">>
BackendsOf(opts) == IF opts.backend = "hybrid" THEN Both ELSE <<opts.backend>>
Entries(s) == {s[i] : i \in DOMAIN s}

-----------------------------------------------------------------------------
(* Tags: a sequence, the remark and the numbers after it                   *)

MakeTag(entry, index) == IF entry.remark = None THEN <<"prefix", index>> ELSE entry.remark

\* Mutant: a second one is -2, also when that is somebody's remark.
UniqueTag_second(base, seen) == IF base \in seen THEN Append(base, 2) ELSE base

UniqueTag(base, seen) ==
  IF base \notin seen THEN base
  ELSE Append(base, CHOOSE n \in 2..Cardinality(seen) + 2 :
                      /\ Append(base, n) \notin seen
                      /\ \A m \in 2..n - 1 : Append(base, m) \in seen)

-----------------------------------------------------------------------------
(* Entries                                                                 *)

\* check_server: this host and its link never, a private network only if asked for.
Refused(entry, opts) == entry.near \in IF opts.private THEN {"here"} ELSE {"here", "lan"}

\* What a backend's reading of a link gives: XRay has no insecure of its own.
Reads(entry, backend, opts) ==
  /\ backend \in entry.reads
  /\ backend \in entry.insecure => opts.insecure /\ backend = "sing-box"

\* Fragments split a ClientHello sent over TCP, which sing-box leaves to REALITY;
\* Vision multiplexes UDP alone.  An entry keeps a fragment of its own.
Tweaked(entry, backend, tweaks) ==
  [fragment |-> IF tweaks.fragment = None \/ ~entry.tcpTls \/ (backend = "sing-box" /\ entry.reality)
                THEN entry.fragment ELSE tweaks.fragment,
   mux |-> IF tweaks.mux = None \/ ~entry.muxes THEN None
           ELSE IF entry.vision /\ backend = "xray" THEN "udp" ELSE tweaks.mux]

Outbound(entry, tag, backend, opts) ==
  [entry |-> entry, tag |-> tag, backend |-> backend, hop |-> None, mark |-> opts.mark] @@ Tweaked(entry, backend, opts.tweaks)

\* The first backend that takes the link, None when none does.  A refused server is
\* the same for the other backend.
BackendFor(entry, opts) ==
  LET backends == BackendsOf(opts)
      taking   == {i \in DOMAIN backends : Reads(entry, backends[i], opts)}
  IN  IF taking = {} \/ Refused(entry, opts) THEN None
      ELSE backends[CHOOSE i \in taking : \A j \in taking : i <= j]

\* A step of _walk_subscription, of what came so far.
WalkStep(done, entry, index, opts) ==
  LET seen    == {done[i].tag : i \in DOMAIN done}
      backend == BackendFor(entry, opts)
  IN  IF Cardinality(seen) >= MaxEntries \/ backend = None THEN done
      ELSE Append(done, Outbound(entry, UniqueTag(MakeTag(entry, index), seen), backend, opts))

\* Whole XRay configs, or outbounds: an entry that dials through another outbound but a
\* fragment, names a file, or no server, is left; hops and marks are stripped.
TakesJson(entry, kind, opts) ==
  /\ entry.hop \in {None, "fragment"} \/ kind = "sing-box"
  /\ ~entry.files /\ entry.server /\ ~Refused(entry, opts)
  /\ kind \in entry.insecure => opts.insecure

JsonStep(done, entry, index, kind, opts) ==
  LET seen == {done[i].tag : i \in DOMAIN done}
      kept == [entry EXCEPT !.fragment = IF kind = "xray" /\ entry.hop = "fragment" THEN "own" ELSE None]
  IN  IF Cardinality(seen) >= MaxEntries \/ ~TakesJson(entry, kind, opts) THEN done
      ELSE Append(done, [Outbound(kept, UniqueTag(MakeTag(entry, index), seen), kind, opts) EXCEPT !.entry = entry])

RECURSIVE Walk(_, _, _), WalkJson(_, _, _, _)
Walk(entries, n, opts) ==
  IF n = 0 THEN <<>> ELSE WalkStep(Walk(entries, n - 1, opts), entries[n], n, opts)
WalkJson(entries, n, kind, opts) ==
  IF n = 0 THEN <<>> ELSE JsonStep(WalkJson(entries, n - 1, kind, opts), entries[n], n, kind, opts)

Parsed(answer, opts) ==
  LET n == Len(answer.entries)
  IN  IF answer.kind = "lines" THEN Walk(answer.entries, n, opts)
      ELSE IF opts.backend \in {"hybrid", answer.kind} THEN WalkJson(answer.entries, n, answer.kind, opts)
      ELSE <<>>

-----------------------------------------------------------------------------
(* The User-Agents                                                         *)

\* What is parsed of the first answer that has any entry, and of which one it is.  The
\* alarm ends a fetch at the deadline.
RECURSIVE Attempt(_, _, _, _)
Attempt(answers, n, time, opts) ==
  IF n > Len(answers) \/ time >= Deadline THEN Failed
  ELSE LET answer == answers[n]
           late   == time + answer.cost > Deadline
           found  == IF late \/ answer.kind = "error" THEN <<>> ELSE Parsed(answer, opts)
       IN  IF found # <<>> THEN [outbounds |-> found, agent |-> n]
           ELSE Attempt(answers, n + 1, IF late THEN Deadline ELSE time + answer.cost, opts)

-----------------------------------------------------------------------------
(* The backend's own check                                                 *)

\* What a run of the check says: 0 that it takes the batch, the place of the first it
\* does not take, or -1 when the error names none.
Verdict(batch) ==
  LET bad == {i \in DOMAIN batch : batch[i].backend \in batch[i].entry.broken}
  IN  IF bad = {} THEN 0
      ELSE LET first == CHOOSE i \in bad : \A j \in bad : i <= j
           IN  IF batch[first].entry.named THEN first ELSE -1

Without(batch, i) == SubSeq(batch, 1, i - 1) \o SubSeq(batch, i + 1, Len(batch))

\* _keep, with the runs that are left.  One entry without a name is dropped for itself,
\* more are cut in two.
RECURSIVE Keep(_, _)
Keep(batch, left) ==
  IF batch = <<>> \/ left = 0 THEN [kept |-> batch, left |-> left]
  ELSE LET verdict == Verdict(batch)
           middle  == Len(batch) \div 2
       IN  CASE verdict = 0 -> [kept |-> batch, left |-> left - 1]
             [] verdict > 0 -> Keep(Without(batch, verdict), left - 1)
             [] Len(batch) = 1 -> [kept |-> <<>>, left |-> left - 1]
             [] OTHER ->
                  LET front == Keep(SubSeq(batch, 1, middle), left - 1)
                      back  == Keep(SubSeq(batch, middle + 1, Len(batch)), front.left)
                  IN  [kept |-> front.kept \o back.kept, left |-> back.left]

\* A check that does not take an empty batch says nothing.
Checked(batch, opts) ==
  IF batch = <<>> \/ ~opts.checks THEN [kept |-> batch, left |-> MaxRuns]
  ELSE Keep(batch, MaxRuns - 1)

Of(outbounds, backend) == SelectSeq(outbounds, LAMBDA ob : ob.backend = backend)

\* main: what is written, {tag: line} with it.
Written(sides, agent, kind) ==
  LET outbounds == UNION {Entries(sides[b].kept) : b \in DOMAIN sides}
  IN  IF outbounds = {} THEN Failed
      ELSE [sides |-> sides, agent |-> agent,
            links |-> [tag \in {ob.tag : ob \in {ob \in outbounds : kind = "lines"}} |->
                         (CHOOSE ob \in outbounds : ob.tag = tag).entry]]
Finished(attempt, answers, opts) ==
  IF attempt = Failed THEN Failed
  ELSE Written([b \in Entries(BackendsOf(opts)) |-> Checked(Of(attempt.outbounds, b), opts)],
               attempt.agent, answers[attempt.agent].kind)
Fetch(answers, opts) == Finished(Attempt(answers, 1, 0, opts), answers, opts)

-----------------------------------------------------------------------------
Usable(entry, answer, opts) ==
  IF answer.kind = "lines" THEN BackendFor(entry, opts) # None
  ELSE opts.backend \in {"hybrid", answer.kind} /\ TakesJson(entry, answer.kind, opts)

TimeOf(answers, n) == LET f[i \in 0..n] == IF i = 0 THEN 0 ELSE f[i - 1] + answers[i].cost IN f[n]

\* The answers in time with any usable entry, and the usable entries of one, the first
\* MaxEntries.
InTime(answers, opts) ==
  {n \in DOMAIN answers :
     /\ TimeOf(answers, n) <= Deadline /\ answers[n].kind # "error"
     /\ \E i \in DOMAIN answers[n].entries : Usable(answers[n].entries[i], answers[n], opts)}
FirstOf(entries) == SubSeq(entries, 1, IF Len(entries) < MaxEntries THEN Len(entries) ELSE MaxEntries)
UsableOf(answer, opts) == FirstOf(SelectSeq(answer.entries, LAMBDA e : Usable(e, answer, opts)))

TagsAreUnique(sides, links, kind) ==
  LET obs == UNION {{<<b, i>> : i \in DOMAIN sides[b].kept} : b \in DOMAIN sides}
      At(x) == sides[x[1]].kept[x[2]]
  IN  /\ \A x, y \in obs : At(x).tag = At(y).tag => x = y
      /\ kind = "lines" => links = [tag \in {At(x).tag : x \in obs} |-> At(CHOOSE x \in obs : At(x).tag = tag).entry]

KeepsUsable(result, agent, answer, usable, opts) ==
  LET side(b) == [i \in DOMAIN result.sides[b].kept |-> result.sides[b].kept[i].entry]
      Backend(e) == IF answer.kind = "lines" THEN BackendFor(e, opts) ELSE answer.kind
      sound(b) == SelectSeq(usable, LAMBDA e : Backend(e) = b /\ b \notin e.broken)
      all(b)   == SelectSeq(usable, LAMBDA e : Backend(e) = b)
      taken(b) == IF opts.checks THEN sound(b) ELSE all(b)
  IN  IF result = Failed THEN \A b \in Entries(BackendsOf(opts)) : taken(b) = <<>>
      ELSE /\ result.agent = agent
           /\ \A b \in DOMAIN result.sides :
                /\ result.sides[b].left > 0 => side(b) = taken(b)
                /\ SelectSeq(side(b), LAMBDA e : b \notin e.broken) = sound(b)
           /\ TagsAreUnique(result.sides, result.links, answer.kind)

\* One broken entry does not cost the others theirs: what is written is of the first
\* answer in time with any usable entry, and has each of its usable entries (the first
\* MaxEntries), once and in order, but for those its backend would refuse its whole
\* configuration over, which are left out unless the checks run out; tags are unique
\* over both backends, and each link is of the entry its tag is for.
FetchKeeps(answers, opts) ==
  LET first == InTime(answers, opts)
      agent == CHOOSE n \in first : \A m \in first : n <= m
  IN  IF first = {} THEN Fetch(answers, opts) = Failed
      ELSE KeepsUsable(Fetch(answers, opts), agent, answers[agent], UsableOf(answers[agent], opts), opts)
=============================================================================
