------------------------------ MODULE PageRead ------------------------------
(***************************************************************************)
(* One read of one page: Service.read (internal/core/service/service.go)   *)
(* and the resolver it calls (internal/core/sourceresolution).  The page   *)
(* is acquired, may be replaced by an agent readable source of its site,   *)
(* is reduced, may be rendered and reduced again, is segmented and packed. *)
(* Every stage is entered in the trace (internal/proof/recorder.go).       *)
(*                                                                         *)
(* Time is what the probes and the render ask of the deadline: see Spare.  *)
(***************************************************************************)
EXTENDS Naturals, Sequences, FiniteSets, SequencesExt

CONSTANTS
  Seed, Sources,
  KindOf,       \* what a source claims to be: "variant", "catalog", "service", "llms"
  Priority,     \* where NormalizeCandidates sorts a source
  Declared,     \* sources the page names in its headers and links
  Conventional, \* sources at the usual places
  InSitemap,    \* what a sitemap may list for this page
  LinksOf,      \* links of a catalog or of an llms index, each once
  Batch, Sitemaps   \* limits of a batch and of the sitemaps read

ASSUME PageConstants ==
  /\ Seed \notin Sources /\ IsFiniteSet(Sources)
  /\ KindOf \in [Sources -> {"variant", "catalog", "service", "llms"}]
  /\ Priority \in [Sources -> Nat] /\ \A a, b \in Sources : Priority[a] = Priority[b] => a = b
  /\ Declared \subseteq Sources /\ Conventional \subseteq Sources
  /\ InSitemap \subseteq SUBSET Sources
  /\ LinksOf \in [Sources -> SUBSET Sources]
  /\ Batch \in Nat \ {0} /\ Sitemaps \in Nat

VARIABLES
  rstep,      \* where the read stands
  ask,        \* modes of the request: agent readable sources, rendering
  spare,      \* what is left of the deadline
  page,       \* rawPage: where it comes from, whether HTML, whether rendered
  dom,        \* the page the reduced document was made from
  pending,       \* candidates of the batch still to be tried
  offered,    \* candidates of all batches so far
  frames,     \* pages read for the candidate in hand, the linked one last
  accepted,   \* sources found readable
  robots,     \* what the robots policy forbids, or NoRobots
  sitemaps, listed,   \* sitemaps still to be read, and what they listed
  probed,     \* sources fetched as candidates, and by which batch
  followed,   \* sources fetched as links
  guessing,   \* whether conventional sources are probed
  trace,      \* stages begun, and whether they were completed
  failure     \* why the read failed

probeVars == <<pending, offered, frames, accepted, robots, sitemaps, listed,
               probed, followed, guessing>>
pageReadVars == <<rstep, ask, spare, page, dom, probeVars, trace, failure>>

\* Time left before the deadline, or none: expired, less than
\* agentReadableProbeMinRemaining, less than AutoRenderDeadlineMinRemaining,
\* more, no deadline.
Unbounded == 4
RenderMin == 3
ProbeMin == 1
Spare == 0..Unbounded
HasProbeTime == spare > ProbeMin
Passes(t) == IF spare = Unbounded THEN t = spare ELSE t \in 0..spare
\* A probe's context ends agentReadableProbeMinRemaining before the deadline.
PassesProbe(t) == Passes(t) /\ t >= ProbeMin

PageOf(at, html) == [at |-> at, html |-> html, rendered |-> FALSE]
NoDom == "none"
NoRobots == {Seed}

-----------------------------------------------------------------------------
(* The recorder. *)

Begun(stage) == \E i \in DOMAIN trace : trace[i].stage = stage /\ ~trace[i].done
Entry(stage, done) == [stage |-> stage, done |-> done]

\* StageStarted refuses a stage that is active, and the read fails with it.
\* A stage that ends in an error event stays active.
Records(stage, done, next, cause) ==
  IF Begun(stage)
  THEN rstep' = "failed" /\ failure' = "recorder" /\ UNCHANGED trace
  ELSE /\ trace' = Append(trace, Entry(stage, done))
       /\ rstep' = next /\ failure' = cause

Completes(stage) ==
  trace' = [i \in DOMAIN trace |->
              IF trace[i].stage = stage THEN Entry(stage, TRUE) ELSE trace[i]]

-----------------------------------------------------------------------------
(* Acquisition. *)

Acquired ==
  /\ rstep = "acquire"
  /\ spare' \in Spare /\ Passes(spare')
  /\ \E html \in BOOLEAN : page' = PageOf(Seed, html)
  /\ Records("acquire", TRUE, "resolve", failure)
  /\ UNCHANGED <<ask, dom, probeVars>>

NotAcquired ==
  /\ rstep = "acquire"
  /\ spare' \in Spare /\ Passes(spare')
  /\ Records("acquire", FALSE, "failed", "fetch")
  /\ UNCHANGED <<ask, page, dom, probeVars>>

-----------------------------------------------------------------------------
(* ResolveAgentReadable. *)

Resolvable == ask.agent # "off" /\ ask.render # "required" /\ page.html

SkipResolve ==
  /\ rstep = "resolve" /\ ~Resolvable
  /\ rstep' = "reduce"
  /\ UNCHANGED <<ask, spare, page, dom, probeVars, trace, failure>>

\* Candidates are tried in the order of their priority, each once; a batch
\* is the first few.
First(S) == CHOOSE c \in S : \A other \in S : Priority[c] <= Priority[other]
Hindmost(S) == CHOOSE c \in S : \A other \in S : Priority[other] <= Priority[c]
Foremost(S) == {c \in S : Cardinality({other \in S : Priority[other] < Priority[c]}) < Batch}

\* Conventional sources are probed for a page that looks thin, in mode auto.
OpenResolve ==
  /\ rstep = "resolve" /\ Resolvable
  /\ guessing' \in IF ask.agent = "auto" /\ HasProbeTime THEN BOOLEAN ELSE {FALSE}
  /\ pending' = Foremost(Declared) /\ offered' = pending'
  /\ Records("agent_readable", FALSE, "declared", failure)
  /\ UNCHANGED <<ask, spare, page, dom, frames, accepted, robots, sitemaps,
                 listed, probed, followed>>

\* ensureAgentReadableKindInBatch: the last ordinary source makes room.
Ensured(kind, batch, S) ==
  LET wanted == {c \in S : KindOf[c] = kind}
      others == {c \in batch : KindOf[c] \notin {"catalog", "service"}}
  IN IF wanted = {} \/ wanted \cap batch # {} \/ others = {} THEN batch
     ELSE (batch \ {Hindmost(others)}) \cup {First(wanted)}

\* agentReadableBalancedConventionalBatch: neither kind is crowded out.
Balanced(S) == Ensured("service", Ensured("catalog", Foremost(S), S), S)

InBatch == rstep \in {"declared", "guessed", "listed"}

\* The links followed from a page: the first ones of a catalog without itself,
\* and the best one of an llms index, which is then read as a variant.
Follows(at, kind, depth) ==
  IF depth >= 2 \/ ~HasProbeTime THEN {{}}
  ELSE CASE kind = "catalog" -> {Foremost(LinksOf[at]) \ {at}}
         [] kind = "llms" /\ LinksOf[at] # {} -> {{l} : l \in LinksOf[at]}
         [] OTHER -> {{}}

\* A page was read at this depth; its links are tried first.
Opens(at, kind) ==
  \E links \in Follows(at, kind, Len(frames)) :
    frames' = Append(frames, [at |-> at, kind |-> kind, links |-> links])

\* collectAgentReadableCandidates stops when the probe time is over.
TryCandidate ==
  /\ InBatch /\ frames = <<>> /\ pending # {}
  /\ IF ~HasProbeTime
     THEN pending' = {} /\ UNCHANGED <<spare, frames, probed>>
     ELSE /\ spare' \in Spare /\ PassesProbe(spare')
          /\ pending' = pending \ {First(pending)}
          /\ probed' = probed \cup {<<First(pending), rstep>>}
          /\ frames' = frames \/ Opens(First(pending), KindOf[First(pending)])
  /\ UNCHANGED <<rstep, ask, page, dom, offered, accepted, robots, sitemaps,
                 listed, followed, guessing, trace, failure>>

Reading == frames[Len(frames)]
\* Mutant of Advanced: a link that was tried is not passed over.
NotAdvanced == frames

Advanced == [frames EXCEPT ![Len(frames)].links = @ \ {First(@)}]

TryLink ==
  /\ InBatch /\ frames # <<>> /\ Reading.links # {}
  /\ IF ~HasProbeTime
     THEN /\ frames' = [frames EXCEPT ![Len(frames)].links = {}]
          /\ UNCHANGED <<spare, followed>>
     ELSE LET link == First(Reading.links)
              kind == IF Reading.kind = "llms" THEN "variant" ELSE KindOf[link] IN
          /\ spare' \in Spare /\ PassesProbe(spare')
          /\ followed' = followed \cup {link}
          /\ \/ frames' = Advanced
             \/ \E links \in Follows(link, kind, Len(frames)) :
                  frames' = Append(Advanced, [at |-> link, kind |-> kind, links |-> links])
  /\ UNCHANGED <<rstep, ask, page, dom, pending, offered, accepted, robots,
                 sitemaps, listed, probed, guessing, trace, failure>>

\* A page without links left is readable, and then answers for the candidate
\* and all pages above it, or is not.
Settle ==
  /\ InBatch /\ frames # <<>> /\ Reading.links = {}
  /\ \/ accepted' = Append(accepted, Reading.at) /\ frames' = <<>>
     \/ frames' = Front(frames) /\ UNCHANGED accepted
  /\ UNCHANGED <<rstep, ask, spare, page, dom, pending, offered, robots, sitemaps,
                 listed, probed, followed, guessing, trace, failure>>

BatchOver == frames = <<>> /\ pending = {}

\* filterCandidatesByRobots; without a policy nothing is filtered.
Allowed(S, policy) == IF policy = NoRobots THEN S ELSE S \ policy

FetchRobots ==
  /\ rstep = "declared" /\ BatchOver /\ guessing
  /\ IF HasProbeTime THEN spare' \in Spare /\ PassesProbe(spare') ELSE UNCHANGED spare
  /\ \/ robots' = NoRobots
     \/ HasProbeTime /\ robots' \in SUBSET Sources
  /\ pending' = Balanced(Allowed((Declared \cup Conventional) \ offered, robots'))
  /\ offered' = offered \cup pending'
  /\ rstep' = "guessed"
  /\ UNCHANGED <<ask, page, dom, frames, accepted, sitemaps, listed, probed,
                 followed, guessing, trace, failure>>

\* expandAgentReadableCandidates
ReadSitemap ==
  /\ rstep = "guessed" /\ BatchOver /\ sitemaps > 0 /\ HasProbeTime
  /\ spare' \in Spare /\ PassesProbe(spare')
  /\ sitemaps' = sitemaps - 1
  /\ \/ UNCHANGED listed
     \/ \E found \in InSitemap : listed' = listed \cup Foremost(Allowed(found, robots))
  /\ UNCHANGED <<rstep, ask, page, dom, pending, offered, frames, accepted, robots,
                 probed, followed, guessing, trace, failure>>

Expand ==
  /\ rstep = "guessed" /\ BatchOver /\ (sitemaps = 0 \/ ~HasProbeTime)
  /\ pending' = Foremost(listed \ offered)
  /\ offered' = offered \cup pending'
  /\ rstep' = "listed"
  /\ UNCHANGED <<ask, spare, page, dom, frames, accepted, robots, sitemaps,
                 listed, probed, followed, guessing, trace, failure>>

\* selectAgentReadableCandidate; the semantic scores of several take time.
SelectSource ==
  /\ BatchOver /\ (rstep = "listed" \/ (rstep = "declared" /\ ~guessing))
  /\ IF Len(accepted) > 1 THEN spare' \in Spare /\ Passes(spare') ELSE UNCHANGED spare
  /\ \/ accepted = <<>> /\ UNCHANGED page
     \/ \E s \in ToSet(accepted) : page' = PageOf(s, FALSE)   \* IsAgentReadablePage
  /\ Completes("agent_readable")
  /\ rstep' = "reduce"
  /\ UNCHANGED <<ask, dom, probeVars, failure>>

-----------------------------------------------------------------------------
(* Reduction and rendering. *)

Reduced ==
  /\ rstep = "reduce"
  /\ Records("reduce", TRUE, "render", failure)
  /\ dom' = page
  /\ UNCHANGED <<ask, spare, page, probeVars>>

NotReduced ==
  /\ rstep = "reduce"
  /\ Records("reduce", FALSE, "failed", "reduce")
  /\ UNCHANGED <<ask, spare, page, dom, probeVars>>

\* What MaybeRender asks of an automatic render besides time: an HTML page,
\* and content too thin or too far from the objective, which takes a semantic
\* score unless the page is the original one and its structure shows it.
MayRender ==
  /\ ask.render # "off" /\ ~page.rendered
  /\ ask.render = "auto" => page.html

SkipRender ==
  /\ rstep = "render" /\ ask.render # "required"
  /\ IF MayRender THEN spare' \in Spare /\ Passes(spare') ELSE UNCHANGED spare
  /\ rstep' = "segment"
  /\ UNCHANGED <<ask, page, dom, probeVars, trace, failure>>

\* renderPage; the stage is completed although the render failed.
RenderFails ==
  /\ rstep = "render" /\ MayRender
  /\ ask.render = "auto" => spare >= RenderMin
  /\ spare' \in Spare /\ Passes(spare')
  /\ IF ask.render = "required"
     THEN Records("render", TRUE, "failed", "render")
     ELSE Records("render", TRUE, "segment", failure)
  /\ UNCHANGED <<ask, page, dom, probeVars>>

\* The rendered page is kept only if it can be reduced: until then it is the
\* HTML page in hand that a render in mode auto falls back to.
Rendered ==
  /\ rstep = "render" /\ MayRender
  /\ ask.render = "auto" => spare >= RenderMin
  /\ spare' \in Spare /\ Passes(spare')
  /\ Records("render", TRUE, "rereduce", failure)
  /\ UNCHANGED <<ask, page, dom, probeVars>>

RenderedPage == [page EXCEPT !.html = TRUE, !.rendered = TRUE]

\* Mutant of RenderedReduced: the new document with the old page.
RenderedHalf ==
  /\ rstep = "rereduce"
  /\ Records("reduce", TRUE, "segment", failure)
  /\ dom' = RenderedPage
  /\ UNCHANGED <<ask, spare, page, probeVars>>

RenderedReduced ==
  /\ rstep = "rereduce"
  /\ Records("reduce", TRUE, "segment", failure)
  /\ page' = RenderedPage /\ dom' = RenderedPage
  /\ UNCHANGED <<ask, spare, probeVars>>

RenderedNotReduced ==
  /\ rstep = "rereduce"
  /\ IF ask.render = "required"
     THEN Records("reduce", FALSE, "failed", "reduce")
     ELSE Records("reduce", FALSE, "segment", failure)
  /\ UNCHANGED <<ask, spare, page, dom, probeVars>>

-----------------------------------------------------------------------------
(* The end. *)

Segmented ==
  /\ rstep = "segment"
  /\ \/ Records("segment", TRUE, "pack", failure)
     \/ Records("segment", FALSE, "failed", "segment")
  /\ UNCHANGED <<ask, spare, page, dom, probeVars>>

\* pack; its semantic scores and model tasks take time, their failure is not
\* an error.
Packed ==
  /\ rstep = "pack"
  /\ spare' \in Spare /\ Passes(spare')
  /\ \/ Records("pack", TRUE, "served", failure)
     \/ Records("pack", FALSE, "failed", "pack")
  /\ UNCHANGED <<ask, page, dom, probeVars>>

PageInit ==
  /\ rstep = "acquire" /\ spare \in Spare
  /\ ask \in [agent : {"auto", "declared", "off"}, render : {"auto", "off", "required"}]
  /\ page = PageOf(Seed, TRUE) /\ dom = NoDom
  /\ pending = {} /\ offered = {} /\ frames = <<>> /\ accepted = <<>>
  /\ robots = NoRobots /\ sitemaps = Sitemaps /\ listed = {}
  /\ probed = {} /\ followed = {} /\ guessing = FALSE
  /\ trace = <<>> /\ failure = "none"

PageNext ==
  \/ Acquired \/ NotAcquired \/ SkipResolve \/ OpenResolve
  \/ TryCandidate \/ TryLink \/ Settle \/ FetchRobots \/ ReadSitemap \/ Expand
  \/ SelectSource \/ Reduced \/ NotReduced \/ SkipRender \/ RenderFails
  \/ Rendered \/ RenderedReduced \/ RenderedNotReduced \/ Segmented \/ Packed

\* Every call of a read is bounded by a timeout of its own.
PageSpec == PageInit /\ [][PageNext]_pageReadVars /\ WF_pageReadVars(PageNext)
-----------------------------------------------------------------------------
(* Properties. *)

Steps == {"acquire", "resolve", "declared", "guessed", "listed", "reduce", "render",
          "rereduce", "segment", "pack", "served", "failed"}
Frames == [at : Sources, kind : {"variant", "catalog", "service", "llms"}, links : SUBSET Sources]
Entries == [stage : {"acquire", "agent_readable", "reduce", "render", "segment", "pack"},
            done : BOOLEAN]
PageTypeOK ==
  /\ rstep \in Steps /\ spare \in Spare
  /\ ask \in [agent : {"auto", "declared", "off"}, render : {"auto", "off", "required"}]
  /\ page \in [at : Sources \cup {Seed}, html : BOOLEAN, rendered : BOOLEAN]
  /\ pending \cup offered \cup listed \cup followed \subseteq Sources
  /\ probed \subseteq Sources \X {"declared", "guessed", "listed"}
  /\ frames \in Seq(Frames) /\ accepted \in Seq(Sources)
  /\ robots \in (SUBSET Sources) \cup {NoRobots} /\ sitemaps \in 0..Sitemaps
  /\ trace \in Seq(Entries)
  /\ failure \in {"none", "recorder", "fetch", "reduce", "render", "segment", "pack"}

Reducing == {"render", "rereduce"}
Building == {"segment", "pack", "served"}

\* The document of the answer and its text come from the same page, however
\* the resolver and the renderer replaced it.
SamePageInv == rstep \in Reducing \cup Building => dom = page

\* A render that was required is never replaced by the static page, and one
\* that was switched off never happens.
RenderInv ==
  /\ rstep \in Building /\ ask.render = "required" => page.rendered
  /\ page.rendered => ask.render # "off"

\* A source that the page does not declare and the robots policy forbids is
\* fetched only as a link of another source.
RobotsInv ==
  robots # NoRobots =>
    \A c \in Sources, b \in {"guessed", "listed"} : <<c, b>> \in probed => c \notin robots

\* The page in hand is the acquired one or a source that was fetched and found
\* readable; nothing is tried when sources were switched off.
SourceInv ==
  /\ page.at # Seed => page.at \in ToSet(accepted)
  /\ ToSet(accepted) \subseteq {p[1] : p \in probed} \cup followed
  /\ ask.agent = "off" \/ ask.render = "required" => probed = {}
  /\ ask.agent = "declared" => \A p \in probed : p[1] \in Declared

\* Links are followed from at most two pages below a candidate, and no
\* candidate is tried in two batches.
ProbeInv ==
  /\ Len(frames) <= 3
  /\ \A p, q \in probed : p[1] = q[1] => p = q

\* The trace: no stage is begun while it is active, so a read never fails for
\* its trace; a stage is left incomplete by the error that ended the read, or
\* by the second reduction that a render in mode auto may lose.
TraceInv ==
  /\ failure # "recorder"
  /\ rstep = "failed" <=> failure # "none"
  /\ rstep \in Building =>
       \A i \in DOMAIN trace :
         ~trace[i].done => /\ trace[i].stage = "reduce" /\ ask.render = "auto"
                           /\ trace[i - 1].stage = "render" /\ ~page.rendered

\* What makes these inductive.  A render is under way only where one is
\* allowed, and sources are looked for only where they may be.
ModesInv ==
  /\ rstep = "rereduce" => ask.render # "off" /\ ~page.rendered
  /\ InBatch => ask.agent # "off" /\ ask.render # "required"
  /\ guessing => ask.agent = "auto"
  /\ rstep \in {"guessed", "listed"} => guessing

\* Candidates still to be tried were offered and not tried yet; what is tried
\* or listed once the robots policy is known respects it.
BatchInv ==
  /\ pending \subseteq offered /\ \A p \in probed : p[1] \in offered \ pending
  /\ rstep \in {"acquire", "resolve", "declared"} =>
       /\ robots = NoRobots /\ listed = {} /\ pending \subseteq Declared
       /\ \A p \in probed : p[2] = "declared"
  /\ rstep \in {"acquire", "resolve"} => probed = {}
  /\ robots # NoRobots => /\ listed \cap robots = {}
                          /\ rstep # "declared" => pending \cap robots = {}

\* Pages in hand were fetched, and the third is read without its links.
FramesInv ==
  \A i \in DOMAIN frames :
    /\ frames[i].at \in {p[1] : p \in probed} \cup followed
    /\ i > 2 => frames[i].links = {}

\* The stages that have been begun and not completed.
StagesInv ==
  rstep # "failed" =>
    /\ \A i \in DOMAIN trace :
         ~trace[i].done => IF InBatch THEN trace[i].stage = "agent_readable"
                           ELSE rstep \in Building /\ trace[i].stage = "reduce" /\ i > 1
    /\ rstep = "rereduce" => trace # <<>> /\ trace[Len(trace)].stage = "render"

\* All of the above in every state of a read.
PageInd ==
  /\ PageTypeOK /\ SamePageInv /\ RenderInv /\ RobotsInv /\ SourceInv
  /\ ProbeInv /\ TraceInv /\ ModesInv /\ BatchInv /\ FramesInv /\ StagesInv

PageEnded == rstep \in {"served", "failed"}
=============================================================================
