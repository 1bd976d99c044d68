------------------------------- MODULE Query --------------------------------
(***************************************************************************)
(* One query: Service.Query (internal/core/service/query*.go).  It finds   *)
(* candidates - the seed, its site, the discovery memory, a web search and *)
(* a second one with rewritten queries - plans which to read, reads it,    *)
(* and reads others when that fails or when the page looks derivative.     *)
(***************************************************************************)
EXTENDS Discovery

CONSTANTS NoPage, Modes, Starts, Memories, Stored

ASSUME QueryConstants ==
  /\ NoPage \notin Pages /\ Modes \subseteq {"off", "site", "web"}
  /\ Starts \subseteq Pages \cup {NoPage}
  /\ Memories \subseteq Seq(Pages)            \* candidates of the memory search
  /\ Stored \subseteq Pages \cup {NoPage}     \* best match in the candidate store

VARIABLES
  qstep,      \* where the query stands
  callerGone,  \* the caller has cancelled its context
  mode, start,   \* discovery mode, and the seed or NoPage
  candidates, \* candidates of the discovery, the selected one first
  kept,       \* what was found before the rewrite
  plan,       \* plan.CandidateURLs
  chosen,     \* plan.SelectedURL
  readLeft,   \* the read context: expired, bounded or NoDeadline
  backlog,    \* candidates still to be tried
  reads,      \* reads made: page, whether hardened, and how they ended
  served      \* the page of the response

searchVars == <<mode, start>>
readVars == <<plan, chosen, readLeft, backlog, reads, served>>
queryVars == <<discoveryVars, qstep, callerGone, searchVars, candidates, kept, readVars>>

QueryEnded == qstep \in {"refused", "done", "failed"}
Seedless == start = NoPage /\ mode = "web"
Bounded == 1

QueryInit ==
  /\ pass = "idle" /\ left = NoDeadline
  /\ portfolio = 0 /\ rounds = 0 /\ order = <<>> /\ asking = 1
  /\ disabled = {} /\ answered = {} /\ pool = {} /\ unprobed = {}
  /\ browserLeft = 0 /\ top = <<>> /\ cooling \in SUBSET Providers
  /\ qstep = "prepare" /\ callerGone = FALSE /\ mode \in Modes /\ start \in Starts
  /\ candidates = <<>> /\ kept = <<>> /\ plan = <<>> /\ chosen = NoPage
  /\ readLeft = NoDeadline /\ backlog = <<>> /\ reads = <<>> /\ served = NoPage

-----------------------------------------------------------------------------
(* Preparation. *)

\* PrepareQueryRequestWithLocalState: without a seed and without memory, the
\* best match of the candidate store becomes the seed of a web search.
SeedFromStore(memory, match) ==
  start' = IF Seedless /\ memory = <<>> THEN match ELSE start

\* prepareQuery refuses a request without a seed unless it names the web.
Refuse ==
  /\ qstep = "prepare" /\ start = NoPage /\ mode # "web"
  /\ qstep' = "refused"
  /\ UNCHANGED <<discoveryVars, searchVars, candidates, kept, readVars>>

\* runQueryDiscovery up to the first call; only a seedless query has a
\* deadline of its own.
Prepare(memory, match) ==
  /\ qstep = "prepare" /\ (start # NoPage \/ mode = "web")
  /\ SeedFromStore(memory, match)
  /\ candidates' = IF start' = NoPage THEN memory ELSE <<start'>>
  /\ left' = IF start' = NoPage THEN Rewrite ELSE NoDeadline
  /\ qstep' = CASE mode = "off"  -> "finalize"
                [] mode = "site" -> "site"
                [] mode = "web"  -> IF start' = NoPage /\ memory # <<>> THEN "memory"
                                    ELSE "web"
  /\ IF qstep' = "web" THEN Begin(1, start' # NoPage)
     ELSE UNCHANGED <<pass, passVars, top, cooling>>
  /\ UNCHANGED <<mode, kept, readVars>>

\* Discover on the seed's site: its error is the query's.
SiteFound(result, final) ==
  /\ qstep = "site" /\ Len(result) <= MaxCandidates
  /\ Elapse /\ candidates' = result /\ qstep' = "finalize"
  \* Without links the page it ended on is selected.
  /\ chosen' = IF result = <<>> THEN final ELSE chosen
  /\ UNCHANGED <<pass, passVars, top, cooling, searchVars, kept, plan, readLeft,
                 backlog, reads, served>>

QueryFails ==
  /\ qstep' = "failed"
  /\ UNCHANGED <<pass, passVars, top, cooling, searchVars, candidates, kept, readVars>>

SiteFails == qstep = "site" /\ Elapse /\ QueryFails

-----------------------------------------------------------------------------
(* Candidates from the discovery memory. *)

\* tryMemoryFamilyRecovery: the site of the best family is looked at, and
\* promoted over the memory's own candidates.
MemoryRecovered(result) ==
  /\ qstep = "memory" /\ left # Expired /\ Elapse
  /\ result # <<>> /\ Len(result) <= MaxCandidates + 1
  /\ candidates' = result /\ qstep' = "finalize"
  /\ UNCHANGED <<pass, passVars, top, cooling, searchVars, kept, readVars>>

\* trustMemoryDiscoveryCandidates, or nothing to rewrite.
MemoryTrusted ==
  /\ qstep = "memory" /\ Elapse
  /\ qstep' = "finalize"
  /\ UNCHANGED <<pass, passVars, top, cooling, searchVars, candidates, kept, readVars>>

MemoryEscalates ==
  /\ qstep = "memory" /\ Elapse
  /\ Begin(1, FALSE) /\ qstep' = "web"
  /\ UNCHANGED <<searchVars, candidates, kept, readVars>>

-----------------------------------------------------------------------------
(* discoverQueryWeb: the search, and the rewrite when it is not convincing. *)

\* ShouldEscalateRewrite says no, or there is no time: the result stands.
WebStands ==
  /\ qstep = "web" /\ pass = "found"
  /\ candidates' = top /\ qstep' = "finalize"
  /\ Taken /\ UNCHANGED <<searchVars, kept, readVars>>

\* Yes, and there is time; or nothing was found.
WebEscalates ==
  /\ qstep = "web" /\ pass \in {"found", "empty"} /\ left >= Rewrite
  /\ candidates' = IF pass = "found" THEN top ELSE candidates
  /\ kept' = IF pass = "found" THEN top ELSE <<>>
  /\ qstep' = "rewrite"
  /\ Taken /\ UNCHANGED <<searchVars, readVars>>

\* Whatever the memory had found goes with the error.
WebFails ==
  /\ qstep = "web" /\ pass = "empty" /\ left < Rewrite
  /\ QueryFails /\ UNCHANGED left

\* maybeRewriteSearchQueries: not with a seed; two or three queries.
Rewritten(n) ==
  /\ qstep = "rewrite" /\ Seedless /\ left # Expired /\ n \in 2..3 /\ Elapse
  /\ Begin(n, FALSE) /\ qstep' = "again"
  /\ UNCHANGED <<searchVars, candidates, kept, readVars>>

\* The model or the second search fails: the first result stands if there
\* was one.
RewriteFails ==
  /\ \/ qstep = "rewrite" /\ Elapse
     \/ qstep = "again" /\ pass = "empty" /\ UNCHANGED left
  /\ qstep' = IF kept = <<>> THEN "failed" ELSE "finalize"
  /\ UNCHANGED <<pass, passVars, top, cooling, searchVars, candidates, kept, readVars>>

\* The second search finds something: the first result stays if both chose
\* the same page.
RewriteFound ==
  /\ qstep = "again" /\ pass = "found"
  /\ candidates' = IF kept # <<>> /\ Head(kept) = Head(top) THEN kept ELSE top
  /\ qstep' = "finalize"
  /\ Taken /\ UNCHANGED <<searchVars, kept, readVars>>

-----------------------------------------------------------------------------
(* The plan. *)

\* FinalizeDiscoveryResult reorders by fingerprint evidence and selects the
\* first; applyDiscoveryToPlan; PreReadFallbackCandidate may select a
\* challenger for a seedless query.
Finalize ==
  /\ qstep = "finalize"
  /\ plan' \in Sequences({candidates[i] : i \in DOMAIN candidates})
  /\ chosen' \in IF plan' = <<>> THEN {chosen}
                 ELSE {plan'[i] : i \in IF Seedless THEN DOMAIN plan' ELSE {1}}
  \* querySelectedReadContext: 12 s of what is left of a seedless query.
  /\ readLeft' = CASE ~Seedless -> NoDeadline
                   [] Seedless /\ left = Expired -> Expired
                   [] OTHER -> Bounded
  /\ qstep' = "read" /\ candidates' = <<>> /\ kept' = <<>>
  /\ UNCHANGED <<discoveryVars, searchVars, backlog, reads, served>>

-----------------------------------------------------------------------------
(* Reading. *)

\* Service.read of a page under the read context, which it may exhaust.
Endings == {"ok", "recoverable", "fatal"}
ReadElapse ==
  /\ Elapse
  /\ readLeft' \in IF readLeft = NoDeadline THEN {NoDeadline} ELSE 0..readLeft
  /\ left' = Expired => readLeft' = Expired
DoRead(p, hard, how) ==
  /\ reads' = Append(reads, [page |-> p, hard |-> hard, how |-> how])
  /\ ReadElapse
  /\ callerGone => how # "ok"       \* "context canceled": not recoverable
  /\ readLeft = Expired /\ ~callerGone => how = "recoverable"    \* fetch_timeout

\* Mutant of Others: the candidate that failed is tried again.
OthersAll(p) == plan

Others(p) == RemoveFirst(plan, p)

\* A request that asked for the resilient profiles has no hardened retry.
\* maybePostReadSemanticFallback applies to seedless queries with more than
\* one candidate and half a second left.
Reviewable == Seedless /\ Len(plan) > 1 /\ left' >= Review

ReadSelected(how) ==
  /\ qstep = "read" /\ DoRead(chosen, FALSE, how)
  /\ served' = IF how = "ok" THEN chosen ELSE served
  /\ backlog' = IF how = "ok" THEN <<>> ELSE Others(chosen)
  /\ qstep' \in CASE how = "ok" -> {"respond"} \cup IF Reviewable THEN {"review"} ELSE {}
                  [] how = "fatal" \/ (how # "ok" /\ mode = "off") -> {"failed"}
                  [] OTHER -> {"fallback", "harden"}
  /\ UNCHANGED <<pass, passVars, top, cooling, searchVars, candidates, kept, plan, chosen>>

\* retryQueryReadWithResilientFetch: any error sends it on to the others.
Harden(how) ==
  /\ qstep = "harden" /\ DoRead(chosen, TRUE, how)
  /\ served' = IF how = "ok" THEN chosen ELSE served
  /\ qstep' = IF how = "ok" THEN "respond" ELSE "fallback"
  /\ UNCHANGED <<pass, passVars, top, cooling, searchVars, candidates, kept, plan, chosen,
                 backlog>>

\* The other candidates in the order of the plan.
Fallback(how) ==
  /\ qstep = "fallback" /\ backlog # <<>> /\ readLeft # Expired /\ ~callerGone
  /\ DoRead(Head(backlog), FALSE, how) /\ backlog' = Tail(backlog)
  /\ IF how = "ok" THEN chosen' = Head(backlog) /\ served' = chosen'
                   ELSE UNCHANGED <<chosen, served>>
  /\ qstep' = CASE how = "ok" -> "respond"
                [] how = "fatal" -> "failed"
                [] OTHER -> "fallback"
  /\ UNCHANGED <<pass, passVars, top, cooling, searchVars, candidates, kept, plan>>

GiveUp ==
  /\ qstep = "fallback" /\ (backlog = <<>> \/ readLeft = Expired \/ callerGone)
  /\ QueryFails /\ UNCHANGED left

\* The review picks up to two challengers, and reads them under the query's
\* own context; the first that beats the page read is served instead.
Challenge(picked) ==
  /\ qstep = "review" /\ Elapse
  /\ Len(picked) <= 2
  /\ \A i \in DOMAIN picked :
       picked[i] # chosen /\ \E j \in DOMAIN plan : picked[i] = plan[j]
  /\ backlog' = picked /\ qstep' = "challenge"
  /\ UNCHANGED <<pass, passVars, top, cooling, searchVars, candidates, kept, plan, chosen,
                 readLeft, reads, served>>

ReadChallenger(how, beats) ==
  /\ qstep = "challenge" /\ backlog # <<>> /\ left >= Review
  /\ Elapse /\ (beats => how = "ok") /\ (callerGone => how # "ok")
  /\ reads' = Append(reads, [page |-> Head(backlog), hard |-> FALSE, how |-> how])
  /\ backlog' = Tail(backlog)
  /\ IF beats THEN chosen' = Head(backlog) /\ served' = chosen' /\ qstep' = "respond"
              ELSE UNCHANGED <<chosen, served, qstep>>
  /\ UNCHANGED <<pass, passVars, top, cooling, searchVars, candidates, kept, plan, readLeft>>

KeepSelected ==
  /\ qstep = "challenge" /\ (backlog = <<>> \/ left < Review)
  /\ qstep' = "respond"
  /\ UNCHANGED <<discoveryVars, searchVars, candidates, kept, readVars>>

\* observeReadDecisions and the validation of the response may still fail.
Deliver ==
  /\ qstep = "respond" /\ Elapse /\ qstep' \in {"done", "failed"}
  /\ UNCHANGED <<pass, passVars, top, cooling, searchVars, candidates, kept, readVars>>

-----------------------------------------------------------------------------
\* The caller cancels between any two steps.  No later read succeeds, and
\* the time that is left is counted as before: the checks of the remaining
\* time look at the deadline alone.  What the search had under way may still
\* be answered.
CallerCancels ==
  /\ ~QueryEnded /\ ~callerGone /\ callerGone' = TRUE
  /\ UNCHANGED <<discoveryVars, qstep, searchVars, candidates, kept, readVars>>

QueryProceeds ==
  \/ Refuse \/ SiteFails \/ MemoryTrusted \/ MemoryEscalates
  \/ WebStands \/ WebEscalates \/ WebFails \/ RewriteFails \/ RewriteFound
  \/ Finalize \/ GiveUp \/ KeepSelected \/ Deliver
  \/ \E memory \in Memories, match \in Stored : Prepare(memory, match)
  \/ \E r \in Results : MemoryRecovered(r) \/ Challenge(r)
                        \/ \E p \in Pages : SiteFound(r, p)
  \/ \E n \in 2..3 : Rewritten(n)
  \/ \E how \in Endings : \/ ReadSelected(how) \/ Harden(how) \/ Fallback(how)
                          \/ \E beats \in BOOLEAN : ReadChallenger(how, beats)
  \/ /\ qstep \in {"web", "again"} /\ DiscoveryStep
     /\ UNCHANGED <<qstep, searchVars, candidates, kept, readVars>>

QueryNext == CallerCancels \/ (QueryProceeds /\ UNCHANGED callerGone)

\* Fetches, model calls and renders end by their own timeouts.
QuerySpec == QueryInit /\ [][QueryNext]_queryVars /\ WF_queryVars(QueryNext)

-----------------------------------------------------------------------------
(* Properties. *)

QuerySteps ==
  {"prepare", "refused", "site", "memory", "web", "rewrite", "again", "finalize", "read",
   "harden", "fallback", "review", "challenge", "respond", "done", "failed"}

QueryTypeOK ==
  /\ qstep \in QuerySteps /\ mode \in Modes /\ callerGone \in BOOLEAN
  /\ {candidates, kept, plan, backlog} \subseteq Seq(Pages)
  /\ {start, chosen, served} \subseteq Pages \cup {NoPage} /\ readLeft \in 0..NoDeadline
  /\ reads \in Seq([page : Pages, hard : BOOLEAN, how : Endings])

\* The response is the page the plan names, read with success, and one of
\* the candidates; read with its fallbacks the plan follows.
ServedInv ==
  qstep \in {"review", "challenge", "respond", "done"} =>
    /\ served = chosen /\ served \in Pages
    /\ \E i \in DOMAIN reads : reads[i].page = served /\ reads[i].how = "ok"
    /\ plan # <<>> => \E i \in DOMAIN plan : plan[i] = served

\* No page is read twice, but for the hardened retry of the selected one.
ReadsInv ==
  /\ \A i, j \in DOMAIN reads :
       reads[i].page = reads[j].page /\ reads[i].hard = reads[j].hard => i = j
  /\ \A i \in DOMAIN reads : reads[i].hard => i = 2 /\ reads[1].page = reads[2].page

\* The query gives up for a reason: a fatal error, no time, its caller, or
\* every candidate tried; with discovery off only the seed is ever read.
GivesUpInv ==
  /\ qstep = "failed" /\ reads # <<>> /\ served = NoPage /\ mode # "off" =>
       \/ reads[Len(reads)].how = "fatal" \/ readLeft = Expired \/ callerGone
       \/ \A i \in DOMAIN plan : \E j \in DOMAIN reads : reads[j].page = plan[i]
  /\ mode = "off" => \A i \in DOMAIN reads : reads[i].page = start

\* A result of the first search is never lost to the rewrite.
KeptInv == kept # <<>> /\ served = NoPage /\ reads = <<>> => qstep # "failed"

-----------------------------------------------------------------------------
(* The inductive invariant behind these properties. *)

Reading == {"read", "harden", "fallback", "review", "challenge", "respond"}
PagesRead == {reads[i].page : i \in DOMAIN reads}

\* What the discovery hands on: there is something to plan with, and what
\* the first search found is there until the plan is made.
FoundInv ==
  /\ qstep \notin {"rewrite", "again", "finalize"} => kept = <<>>
  /\ qstep = "memory" \/ kept # <<>> => candidates # <<>>
  /\ qstep = "finalize" => candidates # <<>> \/ chosen \in Pages

\* What is being read is a page of the plan, if there is one.
PlanInv ==
  /\ IsInjective(plan)
  /\ qstep \in Reading => chosen \in Pages /\ (plan # <<>> => chosen \in ToSet(plan))

\* The pages of the plan are those read and those still to be tried.
BacklogInv ==
  /\ qstep \notin Reading \cup {"done", "failed"} => reads = <<>>
  /\ qstep \in {"read", "review"} => PagesRead \subseteq {chosen}
  /\ qstep = "read" => reads = <<>>
  /\ qstep = "harden" => Len(reads) = 1 /\ reads[1].page = chosen /\ ~reads[1].hard
  /\ qstep \in {"harden", "fallback", "challenge"} =>
       /\ IsInjective(backlog) /\ ToSet(backlog) \subseteq ToSet(plan) \ PagesRead
  /\ qstep \in {"harden", "fallback"} => ToSet(plan) \subseteq PagesRead \cup ToSet(backlog)
  /\ qstep \notin {"review", "challenge", "respond", "done", "failed"} => served = NoPage

\* With discovery off there is the seed and nothing else.
OffInv ==
  mode = "off" =>
    /\ qstep \in {"prepare", "refused", "finalize", "read", "respond", "done", "failed"}
    /\ qstep = "finalize" => candidates = <<start>>
    /\ qstep = "read" => chosen = start

\* What a query serves, reads and gives up on, whatever sites, providers and
\* the model answer and whenever its time runs out or its caller cancels
\* (query.go:115, 211).
QueryInd ==
  /\ DiscoveryInd /\ QueryTypeOK
  /\ ServedInv /\ ReadsInv /\ GivesUpInv /\ KeptInv
  /\ FoundInv /\ PlanInv /\ BacklogInv /\ OffInv
=============================================================================
