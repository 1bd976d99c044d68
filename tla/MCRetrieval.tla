---------------------------- MODULE MCRetrieval -----------------------------
(* One run for the machines by which pages and files are reached:           *)
(* acquisition, rendering, crawl, query and download.  "part" says which of *)
(* them a behaviour is about; the others keep one of their initial states.  *)
EXTENDS Acquirer, Crawl, Query, Downloads, RenderSession, TLC

CONSTANTS site1, site2, a, b, c, d, x, p1, p2, p3, d1, d2
VARIABLE part

(* Acquisition: blocked sites are retried hardened or not at all, and one   *)
(* context is shorter than the attempts may be.                             *)
MCInputs ==
  {[target |-> [host |-> site1, https |-> TRUE], profile |-> "browser_like",
    retry |-> "hardened", deadline |-> Horizon],
   [target |-> [host |-> site1, https |-> FALSE], profile |-> "standard",
    retry |-> "none", deadline |-> 2]}
MCRedirects == {[host |-> site1, https |-> TRUE], [host |-> site2, https |-> FALSE]}

(* Crawl: a site of four pages with cycles and repeated links, two of which *)
(* may redirect, one of them to another host.                               *)
MCHosts == a :> 1 @@ b :> 1 @@ c :> 1 @@ d :> 1 @@ x :> 2
MCFinals == a :> {a} @@ b :> {b, c} @@ c :> {c} @@ d :> {d, x} @@ x :> {x}
MCLinks == a :> {b, c, x} @@ b :> {a, d, c} @@ c :> {d, c}
           @@ d :> {a, b} @@ x :> {x, c, a}

(* Query: two pages of one family and one of another.                       *)
MCFamilyOf == p1 :> "f1" @@ p2 :> "f1" @@ p3 :> "f2"
MCLinkSets == {{}, {p2, p3}}
MCMemories == {<<p1, p3>>}
MCStarts == {NoPage, p1}
MCStored == {p1}

(* Download: one with assets and one without, told to use one directory.    *)
MCWanted ==
  d1 :> [shared |-> TRUE, assets |-> TRUE, allowed |-> {site1}, limit |-> 2]
  @@ d2 :> [shared |-> TRUE, assets |-> FALSE, allowed |-> {}, limit |-> 1]
MCLinked == {<<>>, <<site2, site1>>, <<x, site1>>, <<site1, site1, site1>>}

retrievalVars == <<acquireVars, crawlVars, queryVars, downloadVars, renderVars, part>>

RetrievalInit ==
  /\ part \in {"acquire", "crawl", "query", "download", "render"}
  /\ AcquireInit /\ (part # "acquire" => \A caller \in Callers : input[caller] = CHOOSE i \in Inputs : TRUE)
  /\ CrawlInit /\ (part # "crawl" => seed = a)
  /\ QueryInit /\ (part # "query" => mode = "off" /\ start = NoPage /\ left = NoDeadline
                                     /\ cooling = {})
  /\ DownloadsInit /\ RenderInit

RetrievalNext ==
  /\ UNCHANGED part
  /\ \/ part = "acquire" /\ AcquireNext
        /\ UNCHANGED <<crawlVars, queryVars, downloadVars, renderVars>>
     \/ part = "crawl" /\ CrawlNext
        /\ UNCHANGED <<acquireVars, queryVars, downloadVars, renderVars>>
     \/ part = "query" /\ QueryNext
        /\ UNCHANGED <<acquireVars, crawlVars, downloadVars, renderVars>>
     \/ part = "download" /\ DownloadsNext
        /\ UNCHANGED <<acquireVars, crawlVars, queryVars, renderVars>>
     \/ part = "render" /\ RenderNext
        /\ UNCHANGED <<acquireVars, crawlVars, queryVars, downloadVars>>

RetrievalSpec ==
  /\ RetrievalInit /\ [][RetrievalNext]_retrievalVars
  /\ WF_acquireVars(part = "acquire" /\ Tick)
  /\ \A caller \in Callers : WF_acquireVars(part = "acquire" /\ Go(caller))
  /\ WF_crawlVars(part = "crawl" /\ CrawlNext)
  /\ WF_queryVars(part = "query" /\ QueryNext)
  /\ \A q \in Renders : WF_renderVars(part = "render" /\ RenderStep(q))

\* Every call, crawl and query ends, though sites never answer, block or
\* redirect for ever, pages link in cycles, and passes are repeated; and so
\* do renders that fall back together, without their deadlines.  What has
\* ended stays so: always eventually all that was begun has ended.
RetrievalEnds ==
  []<>(/\ AcquireEnded
       /\ part = "crawl" => CrawlEnded
       /\ part = "query" => QueryEnded
       /\ part = "render" => RendersEnded)
=============================================================================
