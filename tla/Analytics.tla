----------------------------- MODULE Analytics ------------------------------
(***************************************************************************)
(* The analytics of a state root (internal/analytics): each read, query    *)
(* and crawl, and each of their failures, is appended to a SQLite database *)
(* once it has ended (transport/runtime_ops.go), and reports and exports   *)
(* read it while other processes append.  Appending is one transaction;    *)
(* when it fails the observation is only missed.  A run's identity comes   *)
(* from its address and time, that of a crawl from its seed alone, so that *)
(* crawls of one seed share one row.                                       *)
(***************************************************************************)
EXTENDS Integers, Sequences, SequencesExt, FiniteSets, FiniteSetsExt, Functions

CONSTANTS
  Runners,       \* processes that run operations, one at a time
  Seeds, NoSeed, \* the addresses operations start from; a query may have none
  MaxRuns,       \* BOUND: operations
  MaxLookups,    \* BOUND: hits of the embedding cache in an operation
  MaxMissed      \* BOUND: observations and saves that fail

ASSUME AnalyticsConstants ==
  /\ IsFiniteSet(Runners) /\ NoSeed \notin Seeds
  /\ MaxRuns \in Nat /\ MaxLookups \in Nat /\ MaxMissed \in Nat

Kinds == {"read", "query", "crawl"}
Nothing == [kind |-> "none"]

\* The statistics, each a query of its own and asked in any order (the counts
\* by success and by operation go with "runs"); the other reports in the
\* order of the export (providers are read like hosts, days like the value
\* report); the files.
Counts == {"runs", "events"}
Reports == <<"hosts", "failures", "value">>
Files == <<"runs.jsonl", "events.jsonl">>
Looking == Reports \o Files
Views == Counts \cup ToSet(Looking)

VARIABLES
  rows,       \* analytics_runs: the rows by run id
  events,     \* analytics_stage_events: the cache events
  at,         \* what each process runs, and how far it is
  hits,       \* the embedding cache counter of each process
  numbered,   \* operations begun
  committed,  \* history: the observations that were committed
  missed,     \* observations and saves that failed
  viewed      \* what an export has read, view by view

analyticsVars == <<rows, events, at, hits, numbered, committed, missed, viewed>>

AnalyticsInit ==
  /\ rows = <<>> /\ events = <<>> /\ at = [p \in Runners |-> Nothing]
  /\ hits = [p \in Runners |-> 0] /\ numbered = 0 /\ committed = <<>> /\ missed = 0
  /\ viewed = <<>>

-----------------------------------------------------------------------------
(* Operations and their observation *)

\* The counters of the process when the operation begins.
BeginRun(p) ==
  /\ at[p] = Nothing /\ numbered < MaxRuns /\ numbered' = numbered + 1
  /\ \E kind \in Kinds, seed \in Seeds \cup {NoSeed} :
       /\ seed = NoSeed => kind = "query"
       /\ at' = [at EXCEPT ![p] = [kind |-> kind, seed |-> seed, n |-> numbered + 1,
                                   before |-> hits[p], step |-> "works", ok |-> TRUE]]
  /\ UNCHANGED <<rows, events, hits, committed, missed, viewed>>

\* Lookups count as they are made; a failure is observed without them.
EndRun(p) ==
  /\ at[p] # Nothing /\ at[p].step = "works"
  /\ \E ok \in BOOLEAN, n \in 0..MaxLookups :
       /\ hits' = [hits EXCEPT ![p] = @ + n]
       /\ at' = [at EXCEPT ![p].step = IF ok /\ at[p].kind # "crawl" THEN "saves" ELSE "observes",
                          ![p].ok = ok]
  /\ UNCHANGED <<rows, events, numbered, committed, missed, viewed>>

\* What the counter of the process has gained since the operation began.
Gained(p) == IF at[p].ok THEN hits[p] - at[p].before ELSE 0

\* A read or a query whose artifacts cannot be saved returns an error, and
\* is not observed at all.
Save(p) ==
  /\ at[p] # Nothing /\ at[p].step = "saves"
  /\ \/ at' = [at EXCEPT ![p].step = "observes"] /\ UNCHANGED missed
     \/ missed < MaxMissed /\ missed' = missed + 1 /\ at' = [at EXCEPT ![p] = Nothing]
  /\ UNCHANGED <<rows, events, hits, numbered, committed, viewed>>

\* A failed crawl has an identity of its own, with the time in it.
RunID(run) ==
  IF run.kind = "crawl" /\ run.ok THEN <<"crawl", run.seed>> ELSE <<"run", run.seed, run.n>>

\* A query without a seed that failed has no host.
Host(run) == IF run.seed = NoSeed /\ run.ok THEN "found" ELSE run.seed

\* The row of a repeated crawl is that of the last one, but for its start.
Upserted(run) ==
  LET id == RunID(run)
      row == [ok |-> run.ok, host |-> Host(run),
              last |-> run.n, since |-> IF id \in DOMAIN rows THEN rows[id].since ELSE run.n]
  IN  [i \in DOMAIN rows \cup {id} |-> IF i = id THEN row ELSE rows[i]]

\* An operation without lookups leaves no cache event.
CacheEvents(p) ==
  IF Gained(p) = 0 THEN <<>> ELSE <<[id |-> RunID(at[p]), hits |-> Gained(p)]>>

\* AppendRun commits the row and its events together.
AppendRun(p) ==
  /\ at[p] # Nothing /\ at[p].step = "observes"
  /\ rows' = Upserted(at[p]) /\ events' = events \o CacheEvents(p)
  /\ committed' = Append(committed, [n |-> at[p].n, id |-> RunID(at[p]), hits |-> Gained(p)])
  /\ at' = [at EXCEPT ![p] = Nothing] /\ UNCHANGED <<hits, numbered, missed, viewed>>

\* Mutant of Misses: the row stays when its events cannot be inserted.
MissesHalf(p) ==
  /\ at[p] # Nothing /\ at[p].step = "observes" /\ missed < MaxMissed
  /\ missed' = missed + 1 /\ at' = [at EXCEPT ![p] = Nothing] /\ rows' = Upserted(at[p])
  /\ UNCHANGED <<events, hits, numbered, committed, viewed>>

\* The database is busy too long, or the process dies: rolled back, logged,
\* and the operation's answer is not affected.
Misses(p) ==
  /\ at[p] # Nothing /\ at[p].step = "observes" /\ missed < MaxMissed
  /\ missed' = missed + 1 /\ at' = [at EXCEPT ![p] = Nothing]
  /\ UNCHANGED <<rows, events, hits, numbered, committed, viewed>>

-----------------------------------------------------------------------------
(* Reports and the export *)

Hits(list) == SumFunction([i \in DOMAIN list |-> list[i].hits])

CountOf(view) ==
  CASE view = "hosts" -> Cardinality({rows[i].host : i \in DOMAIN rows} \ {NoSeed})
    [] view = "failures" -> IF \E i \in DOMAIN rows : ~rows[i].ok THEN 1 ELSE 0
    [] view \in {"events", "events.jsonl"} -> Len(events)
    [] OTHER -> Cardinality(DOMAIN rows)

Looked == DOMAIN viewed
View(view) == viewed' = [v \in Looked \cup {view} |-> IF v = view THEN CountOf(view) ELSE viewed[v]]

\* Each query on a connection of its own, or at least outside a transaction:
\* runs are appended between any two of them.
ExportNext ==
  /\ \/ \E view \in Counts \ Looked : View(view)
     \/ /\ Counts \subseteq Looked
        /\ \E i \in DOMAIN Looking :
             /\ Looking[i] \notin Looked /\ View(Looking[i])
             /\ \A j \in 1..i - 1 : Looking[j] \in Looked
  /\ UNCHANGED <<rows, events, at, hits, numbered, committed, missed>>

AnalyticsNext ==
  \/ ExportNext
  \/ \E p \in Runners : BeginRun(p) \/ EndRun(p) \/ Save(p) \/ AppendRun(p) \/ Misses(p)

AnalyticsSpec == AnalyticsInit /\ [][AnalyticsNext]_analyticsVars

-----------------------------------------------------------------------------
Running == [kind : Kinds, seed : Seeds \cup {NoSeed}, n : 1..numbered, before : Nat,
         step : {"works", "saves", "observes"}, ok : BOOLEAN]
RunIDs == ({"crawl"} \X (Seeds \cup {NoSeed})) \cup ({"run"} \X (Seeds \cup {NoSeed}) \X (1..numbered))
Rows == [ok : BOOLEAN, host : Seeds \cup {NoSeed, "found"}, last : 1..numbered, since : 1..numbered]

\* Operations are numbered as they begin; the counter of a process does not
\* fall while one runs; an export asks for what comes before in its order.
AnalyticsTypeOK ==
  /\ numbered \in 0..MaxRuns /\ missed \in 0..MaxMissed
  /\ hits \in [Runners -> Nat] /\ at \in [Runners -> Running \cup {Nothing}]
  /\ \A p \in Runners : at[p] # Nothing =>
       at[p].before <= hits[p] /\ (at[p].seed = NoSeed => at[p].kind = "query")
  /\ committed \in Seq([n : 1..numbered, id : RunIDs, hits : Nat])
  /\ events \in Seq([id : RunIDs, hits : Nat \ {0}])
  /\ rows \in [DOMAIN rows -> Rows] /\ IsFiniteSet(DOMAIN rows)
  /\ viewed \in [Looked -> Nat] /\ Looked \subseteq Views
  /\ \A i \in DOMAIN Looking : Looking[i] \in Looked =>
       Counts \subseteq Looked /\ \A j \in 1..i - 1 : Looking[j] \in Looked

-----------------------------------------------------------------------------
Observations(id) == {i \in DOMAIN committed : committed[i].id = id}

\* There is a row for each identity that was observed and for no other; it
\* tells of the last observation and dates from the first, whatever was
\* missed in between, and each event belongs to a row.
RowsInv ==
  /\ DOMAIN rows = {committed[i].id : i \in DOMAIN committed}
  /\ \A id \in DOMAIN rows : /\ rows[id].last = committed[Max(Observations(id))].n
                             /\ rows[id].since = committed[Min(Observations(id))].n
  /\ \A i \in DOMAIN events : events[i].id \in DOMAIN rows

\* What a process has counted for the operations that are over.
Spent == [p \in Runners |-> IF at[p] = Nothing THEN hits[p] ELSE at[p].before]

\* The cache counters of the events are those of all committed operations,
\* those whose rows were overwritten included: what a process counts for one
\* operation it counts for no other.
CacheInv ==
  /\ Hits(events) = Hits(committed)
  /\ Hits(committed) <= SumFunction(Spent) /\ SumFunction(Spent) <= SumFunction(hits)

\* An export is not a snapshot.  Its counts come from different moments, but
\* no file of runs is shorter than what any report before it counted.
ExportInv ==
  /\ "runs.jsonl" \in Looked =>
       /\ \A v \in Looked \ {"events", "events.jsonl"} : viewed[v] <= viewed["runs.jsonl"]
       /\ viewed["runs"] <= viewed["value"]
  /\ "events.jsonl" \in Looked => viewed["events"] <= viewed["events.jsonl"]

\* There never was more to count than there is, and the value report comes
\* after the count of the runs.
ViewedInv ==
  /\ \A v \in Looked : viewed[v] <= IF v \in {"events", "events.jsonl"}
                                    THEN Len(events) ELSE Cardinality(DOMAIN rows)
  /\ "value" \in Looked => viewed["runs"] <= viewed["value"]

AnalyticsInv == AnalyticsTypeOK /\ RowsInv /\ CacheInv /\ ExportInv

AnalyticsInd == AnalyticsInv /\ ViewedInv
=============================================================================
