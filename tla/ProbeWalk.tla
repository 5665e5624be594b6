------------------------------ MODULE ProbeWalk ------------------------------
(***************************************************************************)
(* `proxy-ctl proxy auto probe`: which exit, if any, gets past what keeps  *)
(* this host from a site (src/pkgs/proxy-ctl/proxy_ctl.py), and the two    *)
(* rounds of it a run of the prober makes (autoproxy-run.template.sh).     *)
(*                                                                         *)
(* An answer is one hop's: whether TLS was up, the status by its class,    *)
(* the block page it matches, and where it sends.                          *)
(***************************************************************************)
EXTENDS Integers, Sequences, SequencesExt, TLC

CONSTANTS
  MaxHops,  \* requests that follow one another
  None

Answer(tls, code, page, to) == [tls |-> tls, code |-> code, page |-> page, to |-> to]
\* Where a redirect leads: to a page that tells of a block, to another site, or to this
\* host's own network, told by its literal address.
Place(block, site, lan) == [block |-> block, site |-> site, lan |-> lan]

-----------------------------------------------------------------------------
(* One egress *)

RedirectIsBlock(answer) == answer.to # None /\ answer.to.block

\* _probe_fetch: the first hop that is not a redirect within the site.
Follows(answer) ==
  answer.code = "3xx" /\ ~RedirectIsBlock(answer) /\ answer.to # None /\ answer.to.site /\ ~answer.to.lan
Fetch(chain) ==
  LET ends == {i \in DOMAIN chain : i = MaxHops \/ i = Len(chain) \/ ~Follows(chain[i])}
  IN  chain[CHOOSE i \in ends : \A j \in ends : i <= j]

HttpOk(answer) == answer.code \in {"2xx", "401", "404"} \/ (answer.code = "3xx" /\ ~RedirectIsBlock(answer))

\* _probe_exit_verdict
ExitVerdict(answer) ==
  CASE ~answer.tls \/ answer.code = "000" -> "dead"
    [] HttpOk(answer)                     -> "ok"
    [] answer.page = "address"            -> "wall"
    [] OTHER                              -> "blocked"

\* Content, or past a wall any answer of the origin.
Reaches(direct, judgement) == judgement = "ok" \/ (direct = "wall" /\ judgement = "blocked")

\* _probe_verdict
Verdict(direct, via) ==
  CASE direct = "ok"         -> "ok"
    [] Reaches(direct, via)  -> IF direct = "dead" THEN "censor" ELSE "destination"
    [] direct = "dead"       -> "unreachable"
    [] OTHER                 -> "both-fail"

-----------------------------------------------------------------------------
(* One exit after another, path by path *)

\* got[tag][path]: what a fetch judges.
NoneYet == [verdict |-> None, exit |-> None, path |-> None]

\* Mutant: an exit is held against what direct got on the first path.
DirectOn_first(got, paths, path) == got["direct"][paths[1]]
\* What direct got on the path.
DirectOn(got, paths, path) == got["direct"][path]

\* _probe_walk: the verdict of the first that reaches, if any does.  asked: how many of
\* what it may fetch it has, for keep_going to go on with the rest.
Walk(got, exits, paths, keepGoing) ==
  LET steps == Len(paths) * (Len(exits) + 1)
      path(i) == paths[((i - 1) \div (Len(exits) + 1)) + 1]
      place(i) == (i - 1) % (Len(exits) + 1)
      try(w, i) ==
        LET direct == DirectOn(got, paths, path(i))
        IN  IF w.verdict # None THEN w
            ELSE IF place(i) = 0
            THEN IF direct = "ok" THEN [verdict |-> "ok", exit |-> None, path |-> path(i)] ELSE w
            ELSE LET tag == exits[place(i)]
                 IN  IF Reaches(direct, got[tag][path(i)])
                     THEN [verdict |-> Verdict(direct, got[tag][path(i)]), exit |-> tag, path |-> path(i)] ELSE w
      walked[i \in 0..steps] == IF i = 0 THEN NoneYet ELSE try(walked[i - 1], i)
      found == {i \in 1..steps : walked[i].verdict # None}
      first == CHOOSE i \in found : \A j \in found : i <= j
      nowhere == [verdict |-> IF got["direct"][paths[1]] = "dead" THEN "unreachable" ELSE "both-fail",
                  exit |-> None, path |-> paths[1]]
  IN  [asked |-> IF keepGoing \/ found = {} THEN steps ELSE first] @@ (IF found = {} THEN nowhere ELSE walked[steps])

\* _probe_stand_in: whether an exit carries what direct reaches.
StandIn(got, exit, paths) ==
  LET all == {paths[i] : i \in DOMAIN paths}
  IN  IF (\E p \in all : got[exit][p] = "ok") /\ \A p \in all : got["direct"][p] = "ok" => got[exit][p] = "ok"
      THEN "ok" ELSE "blocked"

\* walk, of the prober: one exit per network, and then the rest.
Rounds(got, first, rest, paths) ==
  LET w == Walk(got, first, paths, FALSE)
  IN  IF w.verdict \in {"both-fail", "unreachable"} /\ rest # <<>> THEN Walk(got, rest, paths, FALSE) ELSE w

-----------------------------------------------------------------------------
\* What a probe comes to is what the site does: on the first path where this host, or
\* some exit, gets through.  This host, if it does there; else the first exit that does,
\* and it is the censor's block if nothing answered this host there.  Without such a path
\* in one round, the exits of the next are asked the same.
Through(got, tags, paths) ==
  {i \in DOMAIN paths : \E t \in tags : Reaches(got["direct"][paths[i]], got[t][paths[i]])}
Right(got, exits, paths, w) ==
  LET through == Through(got, {exits[i] : i \in DOMAIN exits} \union {"direct"}, paths)
      path    == paths[CHOOSE i \in through : \A j \in through : i <= j]
      past    == {i \in DOMAIN exits : Reaches(got["direct"][path], got[exits[i]][path])}
  IN  IF through = {} THEN w.exit = None /\ w.verdict \in {"both-fail", "unreachable"}
      ELSE IF got["direct"][path] = "ok" THEN w.verdict = "ok" /\ w.exit = None
      ELSE /\ w.exit = exits[CHOOSE i \in past : \A j \in past : i <= j]
           /\ w.verdict = IF got["direct"][path] = "dead" THEN "censor" ELSE "destination"

ProbesTell(got, first, rest, paths) ==
  LET w == Walk(got, first, paths, FALSE)
  IN  /\ Right(got, first, paths, w)
      /\ LET all == Walk(got, first, paths, TRUE)
         IN  all = [w EXCEPT !.asked = all.asked] /\ all.asked >= w.asked
      /\ Rounds(got, first, rest, paths) = w \/ Right(got, rest, paths, Rounds(got, first, rest, paths))
      \* An exit that may stand in for a crawling direct one gets what a walk would get direct.
      /\ \A t \in DOMAIN got \ {"direct"} :
           (StandIn(got, t, paths) = "ok" /\ w.verdict = "ok") => got[t][w.path] = "ok"

\* A chain of redirects that stays on the site ends with what it ends with, be that a page
\* that tells of a block; one that leads out of it, or into this host's network, ends there
\* and counts as an answer.
ChainsTell(chain) ==
  LET r == Fetch(chain)
  IN  /\ \E i \in DOMAIN chain : i <= MaxHops /\ r = chain[i] /\ \A j \in 1..i - 1 : Follows(chain[j])
      /\ ExitVerdict(r) = "ok" => r.tls /\ ~RedirectIsBlock(r)
      /\ (\E i \in DOMAIN chain : i <= MaxHops /\ RedirectIsBlock(chain[i]) /\ chain[i].code = "3xx" /\ chain[i].tls
                                  /\ \A j \in 1..i - 1 : Follows(chain[j])) => ExitVerdict(r) # "ok"
=============================================================================
