------------------------------ MODULE MCLocal -------------------------------
(* One run for what happens to a page once it is reached and for what is    *)
(* kept of it: the read, the packing of its answer, the state directory,    *)
(* the discovery memory, the log and the analytics.  "part" says which of   *)
(* them a behaviour is about; the others keep one of their initial states.  *)
EXTENDS PageRead, Packing, LocalStores, DiscoveryMemory, Records, Decisions

CONSTANTS page0, cat, md, idx, doc1, doc2, x, y, r, s
VARIABLE part

(* Read: one declared catalog, a Markdown variant to be guessed and an llms *)
(* index; the catalog and the index link to each other.                     *)
MCKindOf == (cat :> "catalog") @@ (md :> "variant") @@ (idx :> "llms")
MCPriority == (md :> 1) @@ (idx :> 2) @@ (cat :> 3)
MCDeclared == {cat}
MCConventional == {md, idx}
MCInSitemap == {{md, idx}}
MCLinksOf == (cat :> {idx, cat, md}) @@ (md :> {}) @@ (idx :> {cat})

(* State directory: two writers of one page and of its host's genome, with  *)
(* a prune or a lookup beside them.                                         *)
MCHostOf == [w \in {doc1, doc2} |-> w]
Operation(kind, plan, from, render) ==
  [kind |-> kind, pages |-> <<doc1>>, plan |-> plan, seed |-> from, render |-> render]
Resting == [kind |-> "none"]
Pruning(all) == [kind |-> "prune", all |-> all]
Finding(direct) == [kind |-> "find", target |-> <<"proofs", 1, doc1>>, direct |-> direct]
Read == Operation("read", <<>>, NoPage, FALSE)
Asked == Operation("query", <<doc2>>, doc2, TRUE)
Crawled == Operation("crawl", <<>>, NoPage, TRUE)
MCJobs ==
  {<<Read, Asked, Resting>>, <<Crawled, Asked, Resting>>, <<Read, Pruning(FALSE), Resting>>,
   <<Read, Pruning(TRUE), Finding(TRUE)>>, <<Read, Resting, Finding(FALSE)>>}
MCLookup == {<<Read, Crawled, Finding(FALSE)>>}

(* Discovery memory: two pages under one root, one of them under another.   *)
MCRootsOf == [w \in {x, y} |-> IF w = x THEN <<r, s>> ELSE <<r>>]
Observing(w, rev) == [kind |-> "observe", url |-> w, rev |-> rev, force |-> FALSE]
Refreshing(force) == [kind |-> "refresh", force |-> force]
Limiting(n, l, m) == [kind |-> "prune", docs |-> n, edges |-> l, embs |-> m]
Searching(limit, floor) ==
  [kind |-> "search", score |-> (x :> 2) @@ (y :> 1), limit |-> limit, spread |-> 0, floor |-> floor]
Does(kind) == [kind |-> kind]
\* Run without failing statements: the best of two pages, as they come.
Competing == <<Observing(x, 1), Observing(y, 1), Searching(1, 1)>>
MCPlans ==
  {<<Observing(x, 1), Observing(x, 2), Limiting(1, 2, 0)>>,
   <<Observing(x, 1), Observing(y, 1), Limiting(1, 0, 1)>>,
   <<Observing(x, 1), Does("rebuild"), Does("rebuild")>>,
   <<Observing(x, 1), Limiting(1, 1, 1), Refreshing(TRUE)>>,
   <<Observing(x, 2), Limiting(0, 1, 1), Refreshing(FALSE)>>,
   <<Observing(x, 1), Does("export"), Does("import")>>,
   <<Observing(x, 1), Does("rebuild"), Searching(0, 2)>>,
   Competing}

(* Decisions: a page that is revised, and that is asked for with another    *)
(* menu; identities that repeat with another text; nothing to ask about.    *)
MCSize == [none |-> 1, first |-> 1, second |-> 1, revised |-> 1, long |-> 3, blank |-> 0]
Unit(name, words) == [id |-> name, text |-> words]
Auditing(claim, chosen, surface) ==
  [assertion |-> claim, objective |-> "goal", chunks |-> chosen, page |-> surface]
Received(from, mode, routes, passages, bytes) ==
  [source |-> from, mode |-> mode, html |-> TRUE, open |-> routes, size |-> bytes,
   reduces |-> TRUE, segments |-> passages]
BothPassages == <<Unit("p", "first"), Unit("q", "second")>>
MCReadings ==
  {Auditing("claim", <<Unit("a", "first"), Unit("a", "revised")>>, Nobody),
   Auditing("claim", <<Unit("a", "revised"), Unit("b", "long"), Unit("a", "revised")>>,
            Received(1, "auto", {"render"}, <<Unit("p", "first"), Unit("q", "blank")>>, 1)),
   Auditing(Nobody, <<>>, Received(1, "off", {"render"}, BothPassages, 1)),
   Auditing(Nobody, <<>>, Received(2, "required", {"read_declared"}, BothPassages, 1)),
   Auditing("claim", <<>>, Received(1, "auto", {}, <<Unit("p", "long")>>, 1)),
   Auditing(Nobody, <<>>, Received(2, "auto", {"render"}, <<>>, 2)),
   Auditing(Nobody, <<>>, [Received(1, "auto", {}, <<>>, 1) EXCEPT !.reduces = FALSE])}

localVars == <<pageReadVars, packVars, storesVars, memoryVars, logVars, analyticsVars,
               decisionVars, part>>

LocalInit ==
  /\ part \in {"read", "pack", "stores", "memory", "log", "analytics", "decisions"}
  /\ PageInit /\ (part # "read" => spare = 0 /\ ask.agent = "off" /\ ask.render = "off")
  /\ PackInit /\ (part # "pack" => /\ profile = "tiny" /\ size = 1 /\ stable = {}
                                   /\ marks = [i \in {1} |-> {}])
  /\ StoresInit /\ (part # "stores" => job = <<Read, Asked, Resting>>)
  /\ MemoryInit /\ (part # "memory" => op = <<Observing(x, 1), Does("rebuild"), Searching(0, 2)>>)
  /\ errors = (IF op = Competing THEN MaxErrors ELSE 0)
  /\ LogInit /\ AnalyticsInit /\ DecisionsInit

LocalNext ==
  /\ UNCHANGED part
  /\ \/ part = "read" /\ PageNext
        /\ UNCHANGED <<packVars, storesVars, memoryVars, logVars, analyticsVars, decisionVars>>
     \/ part = "pack" /\ PackNext
        /\ UNCHANGED <<pageReadVars, storesVars, memoryVars, logVars, analyticsVars, decisionVars>>
     \/ part = "stores" /\ StoresNext
        /\ UNCHANGED <<pageReadVars, packVars, memoryVars, logVars, analyticsVars, decisionVars>>
     \/ part = "memory" /\ MemoryNext
        /\ UNCHANGED <<pageReadVars, packVars, storesVars, logVars, analyticsVars, decisionVars>>
     \/ part = "log" /\ LogNext
        /\ UNCHANGED <<pageReadVars, packVars, storesVars, memoryVars, analyticsVars, decisionVars>>
     \/ part = "analytics" /\ AnalyticsNext
        /\ UNCHANGED <<pageReadVars, packVars, storesVars, memoryVars, logVars, decisionVars>>
     \/ part = "decisions" /\ DecisionsNext
        /\ UNCHANGED <<pageReadVars, packVars, storesVars, memoryVars, logVars, analyticsVars>>

LocalSpec ==
  /\ LocalInit /\ [][LocalNext]_localVars
  /\ WF_pageReadVars(part = "read" /\ PageNext)
  /\ \A p \in Processes : WF_storesVars(part = "stores" /\ Work(p))

\* A read ends, although catalogs and indexes link to each other, and so does
\* every operation on the state directory, whatever it finds there.
LocalEnds ==
  []<>((part = "read" => PageEnded) /\ OperationsEnded)
=============================================================================
