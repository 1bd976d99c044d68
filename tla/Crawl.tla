------------------------------- MODULE Crawl --------------------------------
(***************************************************************************)
(* The crawl: Service.Crawl (internal/core/service/crawl.go).  A queue of  *)
(* nodes is read in order; each page that is read and not too deep is      *)
(* fetched once more for its links.  A read or a fetch may fail, and a     *)
(* read may end on another URL than it was given: a redirect, a rendered   *)
(* location or an agent readable variant.                                  *)
(***************************************************************************)
EXTENDS Integers, Sequences, FiniteSets

CONSTANTS
  Urls,
  HostOf,       \* host of each URL
  Finals,       \* final URLs a read or fetch of each URL may end on
  LinksOf,      \* the links extractLinkCandidates finds on each page
  Seeds,        \* seeds a request may name
  MaxPages, MaxDepth, SameDomain   \* the request, defaults applied

ASSUME CrawlConstants ==
  /\ Finals \in [Urls -> SUBSET Urls]
  /\ LinksOf \in [Urls -> SUBSET Urls]
  /\ IsFiniteSet(Urls) /\ Seeds \subseteq Urls
  /\ MaxPages \in Nat \ {0} /\ MaxDepth \in Nat \ {0} /\ SameDomain \in BOOLEAN

VARIABLES
  seed,
  queue,      \* nodes to visit: URL and depth
  visited,    \* URLs popped, read or not
  found,      \* pages: URL, depth and final URL of the reads that succeeded
  deepest,    \* maxDepthReached
  step,       \* "next", "read", "expand" or "done"
  node        \* the node in hand

crawlVars == <<seed, queue, visited, found, deepest, step, node>>

Nodes == [url : Urls, depth : Nat]
Found == [url : Urls, depth : Nat, final : Urls]

CrawlInit ==
  /\ seed \in Seeds
  /\ node = [url |-> seed, depth |-> 0] /\ queue = <<node>>
  /\ visited = {} /\ found = <<>> /\ deepest = 0
  /\ step = "next"

\* The loop of Crawl: the next node is popped, and visited unless it was.
Pop ==
  /\ step = "next" /\ queue # <<>> /\ Len(found) < MaxPages
  /\ node' = Head(queue) /\ queue' = Tail(queue)
  /\ IF node'.url \in visited
       THEN UNCHANGED <<visited, deepest, step>>
       ELSE /\ visited' = visited \cup {node'.url}
            /\ deepest' = IF node'.depth > deepest THEN node'.depth ELSE deepest
            /\ step' = "read"
  /\ UNCHANGED <<seed, found>>

ReadFails ==
  /\ step = "read" /\ step' = "next"
  /\ UNCHANGED <<seed, queue, visited, found, deepest, node>>

\* Mutant of ReadPage: a page at MaxDepth is expanded too.
ReadPageDeep(final) ==
  /\ step = "read" /\ final \in Finals[node.url]
  /\ found' = Append(found, [url |-> node.url, depth |-> node.depth,
                             final |-> final])
  /\ step' = IF node.depth > MaxDepth THEN "next" ELSE "expand"
  /\ UNCHANGED <<seed, queue, visited, deepest, node>>

\* addPage, and the depth test before the page is expanded.
ReadPage(final) ==
  /\ step = "read" /\ final \in Finals[node.url]
  /\ found' = Append(found, [url |-> node.url, depth |-> node.depth,
                             final |-> final])
  /\ step' = IF node.depth >= MaxDepth THEN "next" ELSE "expand"
  /\ UNCHANGED <<seed, queue, visited, deepest, node>>

\* The links followed from a page: the host compared is the page's own.
Followed(base) ==
  {to \in LinksOf[base] : /\ SameDomain => HostOf[to] = HostOf[base]
                          /\ to \notin visited}

\* Each once, in the order of the page, which is left open.
Orders(urls) ==
  {s \in [1..Cardinality(urls) -> urls] :
     \A i, j \in DOMAIN s : s[i] = s[j] => i = j}

\* expandCrawlNode: the final URL is fetched again; on an error nothing is
\* followed.
ExpandFails ==
  /\ step = "expand" /\ step' = "next"
  /\ UNCHANGED <<seed, queue, visited, found, deepest, node>>

Expand(base, order) ==
  /\ step = "expand" /\ base \in Finals[found[Len(found)].final]
  /\ order \in Orders(Followed(base))
  /\ queue' = queue \o [i \in DOMAIN order |->
                          [url |-> order[i], depth |-> node.depth + 1]]
  /\ step' = "next"
  /\ UNCHANGED <<seed, visited, found, deepest, node>>

\* The response: documents, pages visited and the depth reached.
Respond ==
  /\ step = "next" /\ (queue = <<>> \/ Len(found) >= MaxPages)
  /\ step' = "done"
  /\ UNCHANGED <<seed, queue, visited, found, deepest, node>>

CrawlNext ==
  \/ Pop \/ ReadFails \/ ExpandFails \/ Respond
  \/ \E u \in Urls : ReadPage(u) \/ \E order \in Orders(Followed(u)) : Expand(u, order)

\* One goroutine runs the crawl; reads and fetches end (see Acquirer).
CrawlSpec == CrawlInit /\ [][CrawlNext]_crawlVars
FairCrawlSpec == CrawlSpec /\ WF_crawlVars(CrawlNext)

-----------------------------------------------------------------------------
(* Properties. *)

CrawlTypeOK ==
  /\ seed \in Urls /\ node \in Nodes
  /\ queue \in Seq(Nodes) /\ visited \subseteq Urls
  /\ found \in Seq(Found) /\ deepest \in Nat
  /\ step \in {"next", "read", "expand", "done"}

\* Nothing in hand, waiting or found is deeper than MaxDepth.
DepthInv ==
  /\ node.depth <= MaxDepth /\ (step = "expand" => node.depth < MaxDepth)
  /\ deepest <= MaxDepth
  /\ \A i \in DOMAIN queue : queue[i].depth <= MaxDepth
  /\ \A i \in DOMAIN found : found[i].depth <= MaxDepth

\* The pages stay within MaxPages, and the last one is the node in hand.
PagesInv ==
  /\ Len(found) <= MaxPages
  /\ step = "read" => Len(found) < MaxPages /\ node.url \in visited
  /\ step = "expand" => Len(found) > 0

\* No URL is read twice, though many pages link to it: every page found was
\* visited, and the node about to be read is not among them.
OnceInv ==
  /\ \A i \in DOMAIN found : found[i].url \in visited
  /\ \A i, j \in DOMAIN found : found[i].url = found[j].url => i = j
  /\ step = "read" => \A i \in DOMAIN found : found[i].url # node.url

\* Breadth first: the queue holds at most two depths, in order, so a URL is
\* read at the least depth at which it was found.
OrderInv ==
  /\ \A i, j \in DOMAIN queue : i < j => queue[i].depth <= queue[j].depth
  /\ \A i \in DOMAIN queue :
       queue[i].depth >= node.depth /\ queue[i].depth <= node.depth + 1

\* A crawl of any web stays within its page and depth budgets, reads no URL
\* twice and goes breadth first (crawl.go:57).
CrawlInd == CrawlTypeOK /\ DepthInv /\ PagesInv /\ OnceInv /\ OrderInv

CrawlEnded == step = "done"

\* What the skill file promises of web_crawl, with same_domain asked for:
\* the pages found are of the seed's domain.
StaysOnDomain ==
  SameDomain => \A i \in DOMAIN found : HostOf[found[i].final] = HostOf[seed]
=============================================================================
