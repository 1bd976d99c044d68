# Needle-X in TLA+

Models, model checking and proofs for Needle-X, a web retrieval program that
turns pages into compact evidence and serves it on the command line and as an
MCP server. The repository is the reference: each definition that models code
is listed with its source lines under `map` in `PROJECT.json`, and names follow
the source where TLA+ allows it.

## The system

A request (`read`, `query`, `crawl`, `fetch`) enters through the command line or
the MCP server, is run by one *service* for its configuration, acquires pages
over HTTP or by rendering them in a shared Chromium, reduces and ranks them with
the help of an embedding server, and leaves records in a state directory.

| part | state it keeps | operations | what is hard about it | what makes it correct |
|---|---|---|---|---|
| browser runtime (`platform/browser_runtime.go`, `browser_process.go`) | the process, leases, uses, a reservation (`busy`), the idle timer | Acquire, Release, CaptureDOM, expire, Close | launches and retirements run outside the lock; timers and Close race with both | one native browser; nobody's browser is killed under it; everything is gone after Close; every call returns |
| network collector (`rendering/cdp_client.go`, `network_*.go`) | resources, open requests and streams, budgets, bodies to fetch, the settle clock | CDP events, body fetches, settle decision, snapshot | events arrive inside every command; two budgets; four kinds of traffic keep the page alive | nothing observed is lost unreported; budgets; the page ends |
| embedding cache (`intel/embedder.go`, `embedder_cache.go`) | per process: vectors, LRU order, flight locks; shared: files, refusals | Embed, prune | several goroutines and processes; three clocks; two lookups; crashes | complete answers, bounded age, no deadlock, pruning within policy |
| MCP server process (`transport/mcp.go`, `render_runtime.go`, `service_runtime.go`, `platform/shutdown.go`, `input_unix.go`) | the current render runtime and service, the input, the shutdown worker | dispatch, swap of configurations, shutdown callback, deferred calls | signals, end of input and failures overlap with a request | everything released once; requests run on the runtime of their configuration; the process ends |
| render session (`rendering/rendering*.go`, `runtime.go`) | one lease, one CDP connection, one browser context | Render with fallback to a dumped DOM | errors at each stage, lost connections, renders that fall back together | no context of a finished render is in a browser lent again; degraded pages are reported |
| page acquisition (`pipeline/acquire.go`) | slots per host (`globalPacingState`) | Acquire, retries, client side redirects | retries under one deadline; pacing of concurrent calls | bounded attempts; gaps between requests of one host |
| downloads (`pipeline/download*.go`) | a directory per download | Download, with assets | one limit over all files, partial failure, a shared directory | within the limit; nothing left of a download that failed |
| crawl (`core/service/crawl.go`) | queue, visited, pages | Crawl | pages fail, redirect, link in cycles | no URL twice; limits; breadth first; it ends |
| query service and discovery (`core/service/query*.go`, `discover*.go`, `core/queryflow`, `queryplan`, `webdiscover`) | one plan per query; provider cooldowns | Query, DiscoverWeb | passes are repeated, reads fall back, one deadline for all | serves a page it read and planned; loses no result; ends |
| read service and source resolution (`core/service/service.go`, `core/sourceresolution`, `core/agentreadable`) | one page, one trace | Read, with sources and a render that may replace the page | sources link to each other; a late render may fail | the answer is of one page; robots; the trace is closed |
| packing (`core/service/pack*.go`) | the chunks of one answer | selection policies in turn | each policy may undo the one before | limit, order, no duplicates, a stable chunk kept |
| local state stores (`platform/json_documents.go`, `store/`, `transport/runtime_ops.go`) | JSON documents | save, observe, prune, lookup | written in place by several processes without locks | what is delivered was stored; nothing refers to what was not |
| discovery memory (`memory/`) | SQLite tables | Observe, Refresh, Rebuild, Search, prune, export, import | an observation is many statements; any may fail | rows agree with each other; searches find what is there |
| analytics (`analytics/`) | two tables, a counter per process | observe, report, export | overwritten rows, reports between appends | rows and events agree; counters add up |
| runtime log (`observability/logger.go`) | one active file and rotated ones | Write | a mutex per process, one log for all | bounded files; the oldest events go first |
| semantic aligner and decisions (`intel/semantic.go`, `decision_*.go`, `acquisition_local.go`, `core/service/decision.go`, `acquisition.go`) | two cooldowns, a memo of answers | Score, Observe, ObserveAcquisition | both outlive the read, the page and the menu they arose from; the runtime may be replaced between two exchanges | an audit speaks of its own read; advisory failures leave retrieval alone |
| reduction, ranking, model backend, WebIR, configuration, command line | little or none | | data rather than control | see "Not modelled" |

How they interact: the MCP loop calls `renderRuntime.get` and
`serviceRuntime.get`, then the service, in one goroutine; the service borrows
the renderer, whose session takes a lease of the browser runtime and runs a
collector over its own CDP connection; embeddings go through the cache, whose
directory is shared by every Needle-X process; the shutdown worker is a second
goroutine that cancels the operations and closes the renderers and the input.
`PROJECT.json` lists every part under `components`, with the reason where one is
not modelled, and the hazards with the properties that cover them.

## Modules

| module | what it is |
|---|---|
| `BrowserRuntime` | the runtime; an action is a critical section of `r.mu` or a step made outside it while `busy` reserves the slot |
| `BrowserPool` | what the interface comments of `browser_runtime.go` promise: a pool that owns at most one browser and lends it |
| `NetworkCollector` | one rendered page: browser events, the command loop of `renderWithCDP` and the collector's bookkeeping |
| `EmbeddingCache` | goroutines of one or several processes embedding through one directory |
| `EmbeddingPrune` | the prunes of that directory, by the calls that wrote to it and by operators, step by step beside the calls |
| `McpServer` | the dispatch loop, its deferred calls, the shutdown worker, the client and signals |
| `RenderSession` | renders over the pool that `BrowserPool` promises, with their fallback |
| `Acquirer` | concurrent calls of Acquire under the pacing of hosts |
| `Crawl` | one crawl |
| `Discovery`, `Query` | the passes of a web discovery; the query around them |
| `Downloads` | downloads into directories of their own, or into one |
| `PageRead`, `Packing` | the stages of a read; the selection of its chunks |
| `LocalStores` | operations, prunes and lookups of several processes over one state directory |
| `Decisions` | the audits of one read after another by one service |
| `DiscoveryMemory`, `Analytics`, `RuntimeLog` | the two databases and the log that processes share |
| `Records` | the log and the analytics, which share no state, as one specification |
| `MC*` | symmetry, and functions over model values that a configuration cannot write |
| `MCRetrieval`, `MCLocal` | the small components side by side, one run each: `part` says which of them a behaviour is about, its next-state relation is that component's, and the others keep their initial state |
| `BrowserRuntimeProofs`, `NetworkCollectorProofs`, `EmbeddingCacheProofs`, `McpServerProofs` | theorems about the module of that name, and that the runtime implements the pool |
| `RetrievalProofs` | theorems about `Acquirer`, `Crawl`, `RenderSession`, `Query` with `Discovery`, and `Downloads` |
| `PageProofs`, `StoresProofs` | theorems about `PageRead` and `Decisions`; about `LocalStores`, `DiscoveryMemory` and `Records` |
| `ListLemmas` | what appending, cutting, removing and flattening do to lists, and to lists without repetition; sums over finite sets; sizes of sets and of disjoint unions |

**BrowserRuntime.** `process`, `path`, `active`, `uses`, `busy`, `retiring`,
`closed`, `err` and `idle` are the fields of `browserRuntime`; `pc` and `proc`
are where each goroutine is and the process in its hand. Launching, killing and
waiting for a native process are separate steps of the goroutine that holds the
reservation, and each may fail; browsers also die by themselves. `changed`, the
channel that `notify` replaces, is the enabling of parked goroutines.
`BrowserPool` is refined through `ImplementsPool`: each step of the goroutines
is a step of the pool or none.

**NetworkCollector.** `wire` is the browser's view of each request, `phase`
where the command loop is; an event may be handled in every phase that awaits a
reply, which is how `cdpClient.call` reads its socket. Time is counted in ticks
and saturates. The two clocks of stream activity are one, as the code takes
their maximum wherever it reads them; `handleRequestSent`'s counter and the
samples for the trace are left out. The verdict `websocket_idle` stays where the
code has it and is never reached, for an open socket is always in `active`.

**EmbeddingCache.** A vector is its key and its age. One call visits its keys
one at a time: lookups, flight locks in sorted order, second lookup, refusals,
the provider, the stores, or the fallback to old files. The cache is enabled;
a file that cannot be read back is an absent one; a lookup takes no time; a
writer may or may not prune (`shouldPrune`); which
context ended a provider call is a free choice, as the code asks it after the
fact. Restarts empty one process and leave the directory. The order of use is the
`tick` of each entry, as in `embeddingCacheEntry`. A TTL of 0 stands for one
that is not positive, which `config.Validate` lets pass: nothing expires, or no
refusals are kept.

**EmbeddingPrune.** `ListFiles` is the `ReadDir`, `ReadInfo` the stat of one
listed file, `PickOldest` one round of the loop in `embeddingCacheRemovalSet`,
`RemoveFile` the removal of one file by its name - whatever it holds by then -
which may fail and is then ignored. Several prunes and the calls of any process
go on between these steps, and a process may die in one. `EmbeddingCache` alone
lets any file vanish at any time while a call of it prunes; a step of
`EmbeddingPrune` is a step of it or none (`PruneImplements`). `later` is a
history of the files that came, or would not go, while a prune ran. The infos
are read within one tick, so that the ages a prune compares are of one time.

**McpServer.** A request is its configuration; `Render` says which
configurations share a render section. `pool` is the `renderRuntime`, `service`
the `serviceRuntime`, `closing` the runtime each of the two threads took to
close it outside the lock. `left` counts the payloads that can still be read: a
closed input leaves what the reader has buffered, a client that is gone leaves
what is in the pipe. A signal goes to the channel until `signal.Stop`, and ends
the process after it. A write to a client that is gone fails or raises SIGPIPE,
which the program does not handle. What a tool computes, the text of requests
and the Windows input are left out.

**RenderSession.** `doing` is where a render stands between the acquisition of
the browser and its release; `linkedUp` is the CDP connection, `contexts` the
isolated contexts in the browser, `fit` the deferred verdict on it. Its callers
take the steps of `BrowserPool` (by INSTANCE), which `BrowserRuntime` is shown to
implement; the settle phase is `NetworkCollector`, and a page here is seen or
not.

**Acquirer.** `lastSeen` is `globalPacingState`; a call reserves its slot in one
step and waits for it in another. An answer of a site is its class (page,
blocked, timeout, failure, redirect). Time is discrete and a due timer fires
before it passes, without which no gap between requests could be stated.

**Crawl.** The queue, the visited set and the pages of `crawl.go`; the order in
which a page's links are queued is free, as are the pages that fail.

**Discovery, Query.** `pass` is the stage of a pass and `qstep` that of the
query. Scores decide orders and choices and are left open: any order of the
candidates may be returned, any reason to review or challenge a page may hold.
`left` is the class of the remaining time by the thresholds the code compares it
with. The caller may cancel between any two steps (`callerGone`): reads no
longer succeed, a cancelled read is fatal and ends the query where a read that
timed out leads to the next candidate. The checks of the remaining time look at
the deadline, which a cancellation does not move; what the search has under way
may still be answered. The second search of a rewrite reuses the actions of the first.

**Downloads.** A file is its size, whether it is whole, and its origin; `room`
is what the limit still allows. Contexts end, removals fail and processes die at
any step.

**PageRead.** `page` is `rawPage` and `dom` the page its reduction was made
from. Robots rules are the set of sources they forbid; whether a text qualifies
is free. `frames` is the recursion of the walk through links, `trace` the
recorder's stages. `spare` is what the deadline still allows.

**Packing.** Segments are their ranks; what was done to a text is a set of
rules. Each policy is one action and they run in the code's order. Segments are
told apart by rank, the code's chunks by the fingerprint of heading and text: a
page that repeats a heading with its text is left out, and `PackInd` claims
nothing of it. There `applyPartialSelectionReuse` drops the second chunk of a
fingerprint, and an answer may come out shorter than the reuse bound allows for.

**LocalStores.** A document is absent, empty (truncated), broken or whole, and
when whole it has the content other steps read. An update is three steps: load,
truncate, write. An operation is its list of tasks in the order of
`runtime_ops.go`; processes die between any two steps. A prune lists one
directory after the other, each when it gets there, and removes what it listed.

**DiscoveryMemory.** One action per SQL statement or transaction. A row of an
embedding is the revision of the page it was computed from. A search has six
stages - topics, pages, families, then ancestors, neighbours and the other pages
of a host - and each keeps the best of its rows up to its limit (5 if none
is given; the last three have their own); the result drops what scores below the
floor and keeps the best up to the limit of the search. A plan gives the score of
each page by its own embedding, whatever revision that is of; what other rows
make of a page is any score up to `MaxScore`; the variants of a query share one
vector. So `MemoryInd` says of a search only what survives the limits: a similar
page that could be found throughout is found, or as many that score no less
are. A prune has a limit for documents and one for edges.

**Analytics.** A run is appended, and its counters advanced, in one transaction
after it has ended; an export asks one query after another. **RuntimeLog.** The
look at the size, each rename, the opening and the append are steps of a
process; an event is a number.

**Decisions.** An observation is a record that passes through the selection of a
passage, the memo and three exchanges with the local runtime, each of which may
fail; replies carry the model, the request they answer and whether their
distribution is sound, which is what the validation tests. Texts have sizes; what
is sent is a record of the page, the passage, the question and its options, and
the memo's key is that record with the task and the source. Time is what is left
of a cooldown. `since` is a history of each use's own failures.

## Runs

| run | question | bounds |
|---|---|---|
| `browser_safety` | do leases, retirements, captures, timers and two Closes keep one browser, lend it safely and implement the pool? | 2 callers, 2 closers, 1 fired timer, 4 processes, 2 executables, limits 2 and 3; symmetric |
| `browser_liveness` | does everybody wake and return, is an idle browser retired? | 2 callers for one lease, 1 closer, 3 processes, use limit 2 |
| `network_bodies` | do tracking, fetches and captures agree, and is what is kept whole or reported cut? | 2 bodies of 1 or 2 units, page budget 3, resource budget 2 |
| `network_mixed` | do a socket, an event source and a body keep the page open as they should, and does the render end? | 3 requests, 2 messages each, settle limit 2 ticks |
| `embedding_flight` | do two goroutines with overlapping batches always return, with complete answers? | 2 keys, memory of 1 entry, a file older than the TTL, restarts, files that vanish, failing writes |
| `embedding_files` | does a prune, of a call or an operator, leave the directory within its policy, dropping the oldest only, whatever another prune and the calls do meanwhile; and do old vectors serve only when the provider fails? | a caller and an operator, 2 keys, 2 calls, a policy of 1 entry and 2 bytes, failing writes and removals, restarts |
| `mcp_server` | does the server release everything once, serve on the right runtime and end? | 3 requests over 3 configurations of which 2 share a render section, 2 signals, every fault |
| `retrieval` | are hosts paced, crawls and queries bounded and ended, downloads within their limit, browsers lent without old contexts? | 2 calls over 2 hosts, gap 2, time up to 5; 5 URLs, 3 pages, depth 2; 3 candidates, 2 providers; 2 downloads of one directory, bodies up to 2, 1 trouble; 2 renders, 2 losses; a caller of the query who cancels at any point |
| `local` | do reads answer for one page, do packs keep their rules, and do stores, memory, log and analytics stay consistent under several processes? do audits speak of their read? | 3 sources that link in a cycle; 3 segments; 3 processes over one page or host, 1 fault; 3 actors over 2 pages, 1 error; 2 writers, 2 rotated files, 8 events; 2 runners, 2 runs; 7 readings, 2 memo entries, cooldown 2 |

The bounds are the least at which the interesting cases meet. Two callers and a
limit of two give concurrent leases on a browser that one of them spoils, and a
limit of one gives starvation. Two bodies over a budget of three exhaust either
budget first. Two overlapping batches are what a wait cycle needs. A caller
and an operator are two prunes over one listing, with calls, files and removals
of the caller's process between their steps; two keys give four files, and a
policy of one entry and two bytes makes either limit bind first. Three
configurations give a swap, a swap back, and a new service on the old runtime;
two signals give one for the worker and one after `signal.Stop`.

Two calls of Acquire to one host meet in its slots, the second with a deadline
shorter than its attempts; two losses let both renders lose their connection, or
one its connection and its disposal. Three chunks are what one policy needs to
undo another. Two writers and a third process are what a prune or a lookup meets
between two saves. The readings of `MCReadings` revise a page, repeat an identity
with another text, and ask for one page under several menus; two entries fill the
memo. `MCPlans` and `MCJobs` list the combinations of operations that
are run together, those that touch the same rows or documents; the search for the
best of two pages beside their observations (`Competing`) is run without failing
statements, the other plans with one. `Horizon`, `MaxTrouble`, `MaxLosses`, `MaxFaults`,
`MaxErrors`, `MaxEvents`, `MaxLogFaults`, `MaxRuns`, `MaxLookups`, `MaxMissed`
and `MaxBody` bound what the code leaves free.

The code leaves the number of requests, signals, messages of a socket and calls
of Embed free; `MaxRequests`, `MaxSignals`, `MaxSent` and `MaxCalls` bound them.
`Procs` are the identities a browser may have. One is reused when no goroutine
and no field refers to it, and there are more of them than the other goroutines
and the idle timer can refer to while one launches.

### Divergences

| run | what the repository says | what the run shows |
|---|---|---|
| `network_budget` | resources are retained within the budgets (docs/architecture.md) | once one budget is spent, only the other one limits the next body |
| `mcp_stale` | configuration changes replace the runtime (docs/architecture.md) | after a swap whose Close failed, the first configuration is served by its old service on the closed runtime |
| `proof_lookup` | a proof reference opens its proof (README.md) | a lookup beside two writers answers "not found" for a proof that was there all the time |

The modules also state what the documents say where the code does otherwise,
without a listed run. Three have a configuration of their own, and TLC finds a
counterexample with it: `ExpiresByCurrentTimer` (BrowserRuntimeTimer.cfg: a timer
that had fired before an Acquire could stop it retires the browser right after
that lease), `HitsHonorTTL` (EmbeddingTTL.cfg: a vector read from its file counts
as new in memory, and is served for up to twice the TTL) and `NeverAbandons`
(McpAbandon.cfg: a SIGTERM after the end of input ends the process while the
browser is being closed). The others are `StaysOnDomain` (a page of a crawl may
redirect to another domain), `ProofsListRules` (a proof lists what was planned
for its text), `MissingCountsUnread` (a body read at the second try still counts
as missing), `InflatedCutReported` (an inflated body that was cut is not
reported), `ProducersKeepAlive` (the wait may end on the quiet of an open stream
while application requests are active), `ProbeReportsOpenStreams` (the discovery
probe does not report open streams), `OneProviderCall` (keys that vanish between
the two lookups are fetched without their lock) and `TimeoutsNotRefused`
(provider timeouts are refused to later calls).

### Fairness

- `BrowserRuntime`: goroutines run; a lease is released (deferred in
  `renderWithCDP`); the context of a caller ends (`Render` sets a deadline);
  fired timers run. Nothing wakes a waiter in favour of another: with one slot,
  only the deadline ends a wait, and `CallsReturn` says no more than that.
- `NetworkCollector`: time passes, the render's deadline comes, and a read whose
  context has ended returns. The browser need not send anything.
- `EmbeddingCache`: each goroutine runs, and the HTTP timeout ends provider
  calls. The wait for a flight lock has no context and no queue, so calls must
  be finite in number (`MaxCalls`) for each to return.
- `McpServer`: both threads run, tools end at their timeouts and a browser's
  Close ends. A client that is there reads its answers: nothing in the code
  bounds the write of an answer to one that does not, nor lets a shutdown
  interrupt it.
- `RetrievalSpec`: due timers fire and calls of Acquire go on; the one thread of
  a crawl and of a query runs, and whatever it calls returns, as every call has a
  timeout; each render goes on. Neither the losses nor the deadlines of renders
  are fair: renders end without them. Downloads state no liveness.
- `LocalSpec`: the one thread of a read runs, and processes that have not died
  go on. No fault is fair. Packing, memory, log and analytics state safety only.

## Proofs

Each proof module shows an inductive invariant, `Init => IndInv` and
`IndInv /\ [Next]_vars => IndInv'`, action by action, and derives the safety
properties from it. TLC checks the same `IndInv` on the instances above.

| theorem | assumptions | the invariant, and why it is needed | properties proved |
|---|---|---|---|
| `BrowserRuntimeProofs` | `LimitsPositive`, `ThreadsDistinct`, `SentinelsDistinct` | one goroutine holds the reservation exactly while `busy` is set, and a native process belongs to the runtime or to it; leases are of the current process unless Close has taken it; without them a launch in flight and a Close could both own a browser | one browser, leases kept, limits, wake-ups, idle timer, nothing left after Close, healthy lending; the refinement `ImplementsPool`, by the same invariant: nobody borrows when the slot is taken, a launch ends with the slot still its own, a Close that waited finds it empty |
| `NetworkCollectorProofs` | `CollectorConstants` | tracking sets against the wire, places and bodies against events, pending against batch and fetch; the code's sets say nothing of a request once it has left them | tracking, observation, bodies, captures, truncation, patience with streams, quiet |
| ... `RetainedSafety` | | what a resource gets beyond the page's budget it gets within its own, so that the excess is at most the sum of those | `RetainedInd` |
| `EmbeddingCacheProofs` | `CacheConstants` | lock order against owners, waiters and parked callers; the age of each copy against its time in its cache; each input found or still to do | types, lock order, complete answers, age |
| ... `NoDeadlock` | | among callers that wait for one another, the one parked on the greatest key waits for a caller that owns that key, and owns no later one: it cannot be parked in the group | `NoWaitCycle` |
| ... `PruneImplements` | and `PruneConstants` | every step of a prune, and what goes on beside it, is a step of `EmbeddingCache` or none, so that its invariant holds in `EmbeddingPrune` too | `Spec` of `EmbeddingCache` |
| ... `PruneInvariance` | and `KeysFinite` | every file is unread, spared, picked, or came or stayed against the prune's will; of what was read the picked are no younger than the spared, and the last one picked was still one too many | `PruneInd` |
| ... `PruneSafety` | | at the end nothing is unread or to be removed, so what is left is spared, and what is spared is within both limits | `PruneWithinPolicy` |
| `McpServerProofs` | `ServerConstants` | an open runtime belongs to the pool or to one closing thread; what each deferred call has done; between `get` and `use` only a service of the request's own configuration must match the new runtime | ownership, release, no false alarm, the runtime in use |
| `RetrievalProofs`: `RenderInvariance` | none | the slot has one holder; a browser is held by its borrowers; a render that vouches for the browser past its disposal has no context in it | `RenderInd`, with the freshness of contexts |
| ... `AcquireInvariance` | `AcquirerConstants` | the slots that are waited for are reserved, apart by the gap and not past; no call has sent more than its attempts allow; the gap needs that a slot is spent at its time, which a due timer gives | `AcquireInd`; `PacedSends`, of every `Send` step, two in one tick included; the bound on GETs |
| ... `CrawlInvariance` | `CrawlConstants` | the queue holds at most two depths, in order; the pages found were visited and the node in hand is new | `CrawlInd` |
| ... `QueryInvariance` | `QueryConstants`, `DiscoveryConstants` | with a caller that may have gone, there is something to plan with, and what the first search found is there until the plan is made; what is being read is in the plan; the plan is what was read and the backlog, each page once; with discovery off there is the seed and nothing else | `QueryInd` |
| ... `DownloadSafety` | `DownloadAssumption` | a directory has one owner from its creation to its removal; the files in it and the room that is left stay within the limit; every file but the one being copied is whole | `DownloadInd` |
| `PageProofs`: `ReadSafety` | `PageConstants` | renders and sources only in the modes that allow them; candidates in hand were offered, not tried, and allowed once the robots policy is known; the third page of a walk is read without its links; which stages of the trace are open where | `PageInd` |
| ... `DecisionsHold` | `DecisionConstants` | the key of the memo is what was sent, so that its answer is valid for it; an observation carries its own reading from step to step; the memo's order names its keys once | `DecisionInd` |
| ... `PackSafety` | `PackingConstants` | what a policy is given and leaves: chunks of the ranking, within the limit, none twice; exchanges take segments from outside only, a group of duplicates leaves one chunk, and what is not reused of a selection fills the places that are left; the gate's chunk stays through reuse and sort | `PackInd` |
| `StoresProofs`: `StoresInvariance` | `StoresConstants` | an operation saves each of its documents once and before all that refers to them; what it no longer has to save is kept; a document it has open is empty or was removed; a history that was loaded is a chain of kept reads | `StoresInd` |
| ... `MemorySafety` | `MemoryConstants` | a row of a topic, once there, is only replaced by one with as many pages, but for the deletion that begins a rebuild, which then still has every page before it; a lone writer finds its rows as it left them; what a search has found so far holds every page it had to, or enough better ones to fill the stage | `MemoryInd` |
| ... `LogSafety` | `LogConstants` | the room in a file is counted with the writers bound for it, which the file's size does not show; while one rotation runs alone, the names have no gap but the one it moves, rotated files are full and ordered, and every open handle is the active file's | `LogInd` |
| ... `AnalyticsSafety` | `AnalyticsConstants` | what operations committed is at most what their processes had counted when they ended, less what is still under way; an export looks in its order and has seen no more than there is | `AnalyticsInd`; with `LogSafety`, `RecordsInv` |

The assumptions are what constructors and `config.Validate` refuse otherwise,
or say that identities and sentinels differ. The sets of goroutines, keys and
requests are arbitrary. `PageRead` takes the priorities of the sources as an
injective rank, because the code's order is total, and proves for any rank what
TLC checks for one.

Some of the properties proved - limits, the idle timer, lock order, tracking,
bodies, release - are conjuncts of an `IndInv` or follow from it, and no run lists
them by themselves.

Only model-checked: every liveness property, which is out of the prover's reach.

## Not modelled

- Reduction, segmentation, network evidence text, WebIR and proof records: data
  transformed once, without state; the models take their outcome.
- Semantic ranking, provider fusion and candidate scoring: floating point. The
  models leave open what the scores decide.
- Of the decisions: similarities and their reduction to one alignment (floating
  point), encodings beyond whether they fit, and observation that is switched off.
  The mutexes of memo and cooldown too: one goroutine of the process calls them.
- Model backend: requests to a server outside the system.
- Configuration, state layout, build information, flags and output: values and
  names; what validation guarantees appears as assumptions on constants.

## Plan

Every stateful part has a module. What is left, most important first:

1. Composition: a service that runs `PageRead` over `Acquirer` and
   `RenderSession`, so that one deadline spans all of them.
2. The documents of provider states shared by processes.
3. Pure rules against a reference definition: robots matching, host and address
   policies, decoding of embedding replies, integer versions of the fusion.
