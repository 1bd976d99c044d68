------------------------------ MODULE Discovery -----------------------------
(***************************************************************************)
(* Web discovery: Service.DiscoverWeb (internal/core/service/discover_web  *)
(* *.go).  One pass looks at the seed's own site, or asks the search       *)
(* providers the queries of a portfolio round by round, probes some of the *)
(* candidates, at most one with a browser, and returns an order of them.   *)
(* Scores decide orders and choices; they are left open here.              *)
(***************************************************************************)
EXTENDS Integers, Sequences, FiniteSets, SequencesExt

CONSTANTS
  Pages, Providers,
  LinkSets,        \* what a provider or a page probed may name
  FamilyOf,        \* webdiscover.CandidateFamily of each page
  Enough,          \* max(webProbeLimit, webCandidateLimit)
  EnoughFamilies,
  ProbeLimit, BrowserProbes, MaxCandidates,
  HasExtractor     \* the model backend that extracts endpoints is configured

ASSUME DiscoveryConstants ==
  /\ IsFiniteSet(Pages) /\ IsFiniteSet(Providers) /\ DOMAIN FamilyOf = Pages
  /\ LinkSets \subseteq SUBSET Pages
  /\ {Enough, EnoughFamilies, ProbeLimit, MaxCandidates} \subseteq Nat \ {0}
  /\ BrowserProbes \in Nat /\ HasExtractor \in BOOLEAN

VARIABLES
  pass,         \* "idle", "local", "order", "ask", "probe", "found" or "empty"
  left,         \* time class of the query's context
  portfolio,    \* number of queries of the pass
  rounds,       \* queries every provider has been asked
  order, asking,        \* the providers in order, and whose turn it is
  disabled, answered,   \* providers that failed for good; that answered
  pool,         \* candidates collected, by URL
  unprobed, browserLeft,
  top,          \* the candidates returned, best first
  cooling       \* providers in cooldown in the state store

passVars == <<portfolio, rounds, order, asking, disabled, answered, pool,
              unprobed, browserLeft>>
discoveryVars == <<pass, left, passVars, top, cooling>>

-----------------------------------------------------------------------------
\* Time classes by the thresholds of the post-read review (0.5 s; less counts
\* as none), the browser probe (8 s) and the rewrite (14 s).
Expired == 0
Review == 1
Browser == 2
Rewrite == 3
NoDeadline == 4

\* Any call to the outside may use up time, all of it included.
Elapse == left' \in IF left = NoDeadline THEN {NoDeadline} ELSE 0..left

Smaller(a, b) == IF a < b THEN a ELSE b

\* The sequences that hold each member of a set once.
Sequences(S) ==
  {s \in [1..Cardinality(S) -> S] : IsInjective(s)}

Families(S) == {FamilyOf[p] : p \in S}

-----------------------------------------------------------------------------
\* The locals of a pass before and after it.
Cleared ==
  /\ rounds' = 0 /\ asking' = 1 /\ order' = <<>>
  /\ disabled' = {} /\ answered' = {} /\ pool' = {}
  /\ unprobed' = {} /\ browserLeft' = 0

\* DiscoverWeb with n queries: a seed is tried first.
Begin(n, seeded) ==
  /\ pass' = IF seeded THEN "local" ELSE "order"
  /\ portfolio' = n /\ top' = <<>> /\ Cleared
  /\ UNCHANGED cooling

\* The query takes the result of the pass.
Taken == pass' = "idle" /\ top' = <<>> /\ UNCHANGED <<left, passVars, cooling>>

\* discoverWebLocalFirst: one page of the site is enough, or the site is
\* given up, on an error too.
LocalFound(p) ==
  /\ pass = "local" /\ left # Expired /\ Elapse
  /\ pass' = "found" /\ top' = <<p>>
  /\ portfolio' = 0 /\ Cleared /\ UNCHANGED cooling

LocalGivesUp ==
  /\ pass = "local" /\ Elapse
  /\ pass' = "order"
  /\ UNCHANGED <<passVars, top, cooling>>

\* orderedDiscoveryProviders: cooling providers last, the rest by health.
OrderProviders ==
  /\ pass = "order" /\ order' \in Sequences(Providers)
  /\ \A i, j \in DOMAIN order' : order'[i] \in cooling /\ i < j => order'[j] \in cooling
  /\ pass' = "ask"
  /\ UNCHANGED <<left, portfolio, rounds, asking, disabled, answered, pool,
                 unprobed, browserLeft, top, cooling>>

Asked(p) == pass = "ask" /\ asking <= Len(order) /\ order[asking] = p
NextProvider == asking' = asking + 1 /\ UNCHANGED <<pass, portfolio, rounds, order,
                                                    unprobed, browserLeft, top>>

\* A provider that failed at provider level is passed over in later rounds.
PassOver(p) ==
  /\ Asked(p) /\ p \in disabled
  /\ NextProvider /\ UNCHANGED <<left, disabled, answered, pool, cooling>>

\* bootstrapProviderQuery answers, with any results, none included.
Answers(p, got) ==
  /\ Asked(p) /\ p \notin disabled /\ left # Expired /\ Elapse
  /\ pool' = pool \cup got /\ answered' = answered \cup {p}
  /\ cooling' = cooling \ {p}
  /\ NextProvider /\ UNCHANGED disabled

\* It fails: blocked, timed out and unavailable (the query's own deadline
\* gives a timeout) disable it for the pass; each failure starts a cooldown.
Fails(p, level) ==
  /\ Asked(p) /\ p \notin disabled /\ Elapse
  /\ left = Expired => level
  /\ disabled' = IF level THEN disabled \cup {p} ELSE disabled
  /\ cooling' = cooling \cup {p}
  /\ NextProvider /\ UNCHANGED <<answered, pool>>

\* semanticBootstrapCollectionSufficient after a round.
Sufficient ==
  /\ Cardinality(pool) >= Enough
  /\ Cardinality(Providers) > 1 => Cardinality(answered) >= 2
  /\ rounds + 1 >= Smaller(2, portfolio)
  /\ Cardinality(Families(pool)) >= Smaller(EnoughFamilies, Cardinality(pool))

\* semanticProbeCandidates: as many families as possible before a second
\* page of one.
ProbeCount == Smaller(Cardinality(pool), Smaller(MaxCandidates, ProbeLimit))
ProbeSets ==
  {S \in SUBSET pool :
     /\ Cardinality(S) = ProbeCount
     /\ Cardinality(Families(S)) = Smaller(ProbeCount, Cardinality(Families(pool)))}

RoundOver == pass = "ask" /\ asking > Len(order)

\* Mutant of NextRound: the rounds are not counted.
NextRoundUncounted ==
  /\ RoundOver /\ ~Sufficient /\ rounds + 1 < portfolio
  /\ asking' = 1
  /\ UNCHANGED <<pass, rounds, left, portfolio, order, disabled, answered, pool,
                 unprobed, browserLeft, top, cooling>>

NextRound ==
  /\ RoundOver /\ ~Sufficient /\ rounds + 1 < portfolio
  /\ rounds' = rounds + 1 /\ asking' = 1
  /\ UNCHANGED <<pass, left, portfolio, order, disabled, answered, pool,
                 unprobed, browserLeft, top, cooling>>

\* The collection is over: without candidates the pass has failed.
Collected ==
  /\ RoundOver /\ (Sufficient \/ rounds + 1 = portfolio)
  /\ IF pool = {} THEN pass' = "empty" /\ portfolio' = 0 /\ Cleared
     ELSE /\ pass' = "probe"
          /\ unprobed' \in ProbeSets /\ browserLeft' = Smaller(ProbeCount, BrowserProbes)
          /\ UNCHANGED <<portfolio, rounds, order, asking, disabled, answered, pool>>
  /\ UNCHANGED <<left, top, cooling>>

\* probeWebCandidate: what the page, its host's root and perhaps a rendered
\* copy of it link to.
Probe(p, got) ==
  /\ pass = "probe" /\ p \in unprobed /\ left # Expired /\ Elapse
  /\ unprobed' = unprobed \ {p} /\ pool' = pool \cup got
  /\ \/ UNCHANGED browserLeft
     \/ left >= Browser /\ browserLeft > 0 /\ browserLeft' = browserLeft - 1
  /\ UNCHANGED <<pass, portfolio, rounds, order, asking, disabled, answered, top, cooling>>

ProbeFails(p) ==
  /\ pass = "probe" /\ p \in unprobed /\ Elapse
  /\ unprobed' = unprobed \ {p}
  /\ UNCHANGED <<pass, portfolio, rounds, order, asking, disabled, answered, pool,
                 browserLeft, top, cooling>>

\* The stages of finalizeWebCandidates rescore and sort what there is; the
\* first MaxCandidates stay, and maybePromoteEndpointCandidate may add a
\* page to them.
Chosen ==
  {S \in SUBSET pool : Cardinality(S) = Smaller(Cardinality(pool), MaxCandidates)}
Endpoints == {{}} \cup IF HasExtractor /\ left # Expired THEN {{p} : p \in Pages} ELSE {}

Finish ==
  /\ pass = "probe" /\ unprobed = {} /\ Elapse
  /\ \E S \in Chosen, e \in Endpoints : top' \in Sequences(S \cup e)
  /\ pass' = "found"
  /\ portfolio' = 0 /\ Cleared /\ UNCHANGED cooling

Results == UNION {Sequences(S) : S \in SUBSET Pages}

DiscoveryStep ==
  \/ LocalGivesUp \/ OrderProviders \/ NextRound \/ Collected \/ Finish
  \/ \E p \in Pages : LocalFound(p) \/ ProbeFails(p)
                      \/ \E got \in LinkSets : Probe(p, got)
  \/ \E p \in Providers :
       \/ PassOver(p)
       \/ \E level \in BOOLEAN : Fails(p, level)
       \/ \E got \in LinkSets : Answers(p, got)

Searching == pass \in {"local", "order", "ask", "probe"}

DiscoveryTypeOK ==
  /\ pass \in {"idle", "local", "order", "ask", "probe", "found", "empty"}
  /\ left \in 0..NoDeadline /\ portfolio \in Nat /\ rounds \in 0..portfolio
  /\ order \in Seq(Providers) /\ asking \in 1..Len(order) + 1
  /\ {disabled, answered, cooling} \subseteq SUBSET Providers
  /\ {pool, unprobed} \subseteq SUBSET Pages
  /\ browserLeft \in 0..BrowserProbes /\ top \in Seq(Pages)

\* A result is not empty, names no page twice, and has at most the page of
\* an endpoint more than was asked for.
ResultInv ==
  pass = "found" => Len(top) \in 1..MaxCandidates + 1 /\ IsInjective(top)

\* Whoever was disabled in the pass stays in cooldown for the next one, and
\* only the candidates collected are probed.
ProviderInv == disabled \subseteq cooling /\ unprobed \subseteq pool

\* A pass starts without an order, and probes only if there is something to.
PassInv ==
  /\ pass \notin {"ask", "probe"} => order = <<>>
  /\ pass = "probe" => pool # {}

DiscoveryInd == DiscoveryTypeOK /\ ResultInv /\ ProviderInv /\ PassInv
=============================================================================
