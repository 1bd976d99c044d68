-------------------------- MODULE DiscoveryMemory ---------------------------
(***************************************************************************)
(* The discovery memory (internal/memory): one SQLite database that the    *)
(* operations of several processes share.  An observation of a page writes *)
(* its document, edges, embedding, semantic family and topic rows in that  *)
(* order, each in a statement of its own; refresh-embeddings does the same *)
(* for every document of a snapshot; rebuild-index deletes the topics and  *)
(* files every document again; prune is one transaction over three of the  *)
(* tables; export reads and import writes one table after the other.  Only *)
(* single statements are atomic, and each of them may fail (a busy         *)
(* database, the deadline of the operation, the embedding provider).       *)
(* Vectors and texts are abstracted: a revision stands for what a page     *)
(* says and for the input its embedding was computed from; a search brings *)
(* the score that it gives to each page.                                   *)
(***************************************************************************)
EXTENDS Naturals, Sequences, FiniteSets, FiniteSetsExt, Functions

CONSTANTS
  Actors,
  URLs, RootsOf,     \* pages, and the topic roots above each, outermost first
  Plans,             \* what the actors may do together
  MaxScore,          \* BOUND: the scores that other rows than a page's own give it
  MaxErrors          \* BOUND: how many statements fail

Roots == UNION {{RootsOf[u][i] : i \in 1..Len(RootsOf[u])} : u \in URLs}
NoRow == [rev |-> 0, at |-> 0]
MemoryKinds == {"observe", "refresh", "rebuild", "prune", "export", "import", "search", "none"}

ASSUME MemoryConstants ==
  /\ IsFiniteSet(URLs) /\ MaxScore \in Nat /\ MaxErrors \in Nat
  /\ \A u \in URLs : RootsOf[u] \in Seq(Roots)
  /\ \A plan \in Plans, a \in Actors :
       /\ plan[a].kind \in MemoryKinds
       /\ plan[a].kind = "observe" => plan[a].url \in URLs /\ plan[a].rev \in Nat \ {0}
       /\ plan[a].kind = "search" =>
            /\ plan[a].score \in [URLs -> Nat]
            /\ plan[a].limit \in Nat /\ plan[a].spread \in Nat /\ plan[a].floor \in Nat
Tables == <<"documents", "edges", "embeddings", "topics", "families", "members">>
Optional == {"families", "members"}

VARIABLES
  docs, embs,        \* the row of each page: what it says, and when it came
  edges,             \* when each page's links were last filed
  topics,            \* the pages each topic row was computed from
  families, members, \* family rows, and which page is a member of which
  dump,              \* the files of an export
  op, pc,            \* what each actor does and where it stands
  now,               \* the stamp of its rows
  cur, level,        \* the page it files and what it says; the root, table or read
  reusable,            \* whether the embedding it needs is there
  queue, held,       \* what it still goes through; what it has read to write
  found,             \* the best score a search has for each page, 0 for none
  clock, errors,
  filed, complete,   \* history: pages an operation stored, pages filed to the end
  broken,            \* history: rebuilds that have not come to their end
  lone, matched,     \* history: a writer no other overlaps, the pages it left
  steady             \* history: what a search could find throughout

tables == <<docs, embs, edges, topics, families, members, dump>>
locals == <<now, cur, level, reusable, queue, held, found>>
history == <<filed, complete, broken, lone, matched, steady>>
memoryVars == <<tables, op, pc, locals, clock, errors, history>>

NoPlace == <<>>
NothingFound == [u \in URLs |-> 0]
Over == {"new", "ok", "failed"}
Underway(a) == pc[a] \notin Over
Writers == {"observe", "refresh", "import", "prune"}
Searchable == {u \in URLs : docs[u].rev # 0 /\ embs[u].rev # 0}

MemoryInit ==
  /\ docs = [u \in URLs |-> NoRow] /\ embs = [u \in URLs |-> NoRow]
  /\ edges = [u \in URLs |-> NoRow] /\ topics = [r \in Roots |-> {}]
  /\ families = {} /\ members = {}
  /\ dump = [t \in Range(Tables) |-> [there |-> FALSE, rows |-> {}]]
  /\ op \in Plans /\ pc = [a \in Actors |-> "new"] /\ now = [a \in Actors |-> 0]
  /\ cur = [a \in Actors |-> NoPlace] /\ level = [a \in Actors |-> 0]
  /\ reusable = [a \in Actors |-> FALSE] /\ queue = [a \in Actors |-> {}]
  /\ held = [a \in Actors |-> {}] /\ found = [a \in Actors |-> NothingFound]
  /\ clock = 0 /\ errors \in 0..MaxErrors
  /\ filed = [a \in Actors |-> {}] /\ complete = {} /\ broken = {}
  /\ lone = {} /\ matched = {} /\ steady = [a \in Actors |-> {}]

-----------------------------------------------------------------------------
(* How an operation begins and ends *)

Opening(a) ==
  CASE op[a].kind = "observe" -> "vector"
    [] op[a].kind = "refresh" -> "snapshot"
    [] op[a].kind = "rebuild" -> "delete"
    [] OTHER -> op[a].kind

Begin(a) ==
  /\ pc[a] = "new" /\ op[a].kind # "none"
  /\ pc' = [pc EXCEPT ![a] = Opening(a)] /\ level' = [level EXCEPT ![a] = 1]
  /\ IF op[a].kind \in {"observe", "refresh"}
     THEN clock' = clock + 1 /\ now' = [now EXCEPT ![a] = clock + 1]
     ELSE UNCHANGED <<clock, now>>
  /\ cur' = IF op[a].kind = "observe" THEN [cur EXCEPT ![a] = <<op[a].url, op[a].rev>>] ELSE cur
  /\ UNCHANGED <<tables, reusable, queue, held, found, errors, broken>>

Ends(a, how) ==
  /\ pc' = [pc EXCEPT ![a] = how] /\ now' = [now EXCEPT ![a] = 0]
  /\ cur' = [cur EXCEPT ![a] = NoPlace] /\ level' = [level EXCEPT ![a] = 0]
  /\ reusable' = [reusable EXCEPT ![a] = FALSE] /\ queue' = [queue EXCEPT ![a] = {}]
  /\ held' = [held EXCEPT ![a] = {}] /\ UNCHANGED found

\* A statement or the provider fails and the operation returns its error:
\* what it wrote before stays.
Fails(a) ==
  /\ Underway(a) /\ errors < MaxErrors /\ errors' = errors + 1
  /\ Ends(a, "failed") /\ UNCHANGED <<tables, clock, broken>>

At(a, place) == pc[a] = place
Goes(a, place) == pc' = [pc EXCEPT ![a] = place]
URL(a) == cur[a][1]
Row(a) == [rev |-> cur[a][2], at |-> now[a]]

-----------------------------------------------------------------------------
(* Filing one page: Observe, and RefreshEmbeddings for each document *)

\* The stored vector is reusable when it was computed from the same input,
\* unless the caller forces a new one; else the provider is asked.
Vector(a) ==
  /\ At(a, "vector")
  /\ reusable' = [reusable EXCEPT ![a] = ~op[a].force /\ embs[URL(a)].rev = cur[a][2]]
  /\ Goes(a, IF op[a].kind = "observe" THEN "document" ELSE "embedding")
  /\ UNCHANGED <<tables, now, cur, level, queue, held, found, clock, errors, broken>>

UpsertDocument(a) ==
  /\ At(a, "document") /\ docs' = [docs EXCEPT ![URL(a)] = Row(a)] /\ Goes(a, "edges")
  /\ UNCHANGED <<embs, edges, topics, families, members, dump, locals, clock, errors, broken>>

UpsertEdges(a) ==
  /\ At(a, "edges") /\ edges' = [edges EXCEPT ![URL(a)] = Row(a)] /\ Goes(a, "embedding")
  /\ UNCHANGED <<docs, embs, topics, families, members, dump, locals, clock, errors, broken>>

UpsertEmbedding(a) ==
  /\ At(a, "embedding")
  /\ embs' = IF reusable[a] THEN embs ELSE [embs EXCEPT ![URL(a)] = Row(a)]
  /\ Goes(a, "family")
  /\ UNCHANGED <<docs, edges, topics, families, members, dump, locals, clock, errors, broken>>

\* The page joins the nearest family, or founds the one named after what it
\* says; how near it is, is not modelled.
JoinFamily(a) ==
  /\ At(a, "family")
  /\ \E f \in families \cup {cur[a]} :
        families' = families \cup {f} /\ held' = [held EXCEPT ![a] = {f}]
  /\ Goes(a, "member")
  /\ UNCHANGED <<docs, embs, edges, topics, members, dump, now, cur, level, reusable, queue, found,
                 clock, errors, broken>>

JoinMember(a) ==
  /\ At(a, "member")
  /\ members' = members \cup {<<f, URL(a)>> : f \in held[a]}
  /\ held' = [held EXCEPT ![a] = {}] /\ Goes(a, "topic")
  /\ UNCHANGED <<docs, embs, edges, topics, families, dump, now, cur, level, reusable, queue, found,
                 clock, errors, broken>>

Below(r) == {u \in Searchable : \E i \in 1..Len(RootsOf[u]) : RootsOf[u][i] = r}

\* RefreshTopicNodes reads the pages below a root in one statement and
\* writes the row in the next; a root without pages keeps the row it has.
LoadTopic(a) ==
  /\ At(a, "topic")
  /\ IF level[a] > Len(RootsOf[URL(a)])
     THEN /\ Goes(a, "next") /\ level' = [level EXCEPT ![a] = 1] /\ UNCHANGED held
     ELSE LET pages == Below(RootsOf[URL(a)][level[a]])
          IN IF pages = {} THEN /\ level' = [level EXCEPT ![a] = @ + 1] /\ UNCHANGED <<pc, held>>
             ELSE /\ held' = [held EXCEPT ![a] = pages] /\ Goes(a, "row") /\ UNCHANGED level
  /\ UNCHANGED <<tables, now, cur, reusable, queue, found, clock, errors, broken>>

UpsertTopic(a) ==
  /\ At(a, "row")
  /\ topics' = [topics EXCEPT ![RootsOf[URL(a)][level[a]]] = held[a]]
  /\ held' = [held EXCEPT ![a] = {}] /\ level' = [level EXCEPT ![a] = @ + 1] /\ Goes(a, "topic")
  /\ UNCHANGED <<docs, embs, edges, families, members, dump, now, cur, reusable, queue, found,
                 clock, errors, broken>>

-----------------------------------------------------------------------------
(* The operations of `needlex memory` *)

Snapshot(a) ==
  /\ At(a, "snapshot")
  /\ queue' = [queue EXCEPT ![a] = {<<u, docs[u].rev>> : u \in {u \in URLs : docs[u].rev # 0}}]
  /\ Goes(a, "next")
  /\ UNCHANGED <<tables, now, cur, level, reusable, held, found, clock, errors, broken>>

DeleteTopics(a) ==
  /\ At(a, "delete") /\ broken' = broken \cup {a}
  /\ topics' = [r \in Roots |-> {}] /\ Goes(a, "list")
  /\ UNCHANGED <<docs, embs, edges, families, members, dump, locals, clock, errors>>

ListDocuments(a) ==
  /\ At(a, "list")
  /\ queue' = [queue EXCEPT ![a] = {<<u, 0>> : u \in Searchable}] /\ Goes(a, "next")
  /\ UNCHANGED <<tables, now, cur, level, reusable, held, found, clock, errors, broken>>

\* The next document of a refresh or a rebuild; without one it is done.
NextPage(a) ==
  /\ At(a, "next")
  /\ \/ /\ queue[a] = {} /\ Ends(a, "ok") /\ broken' = broken \ {a}
     \/ \E item \in queue[a] :
          /\ queue' = [queue EXCEPT ![a] = @ \ {item}] /\ cur' = [cur EXCEPT ![a] = item]
          /\ Goes(a, IF op[a].kind = "rebuild" THEN "topic" ELSE "vector")
          /\ UNCHANGED <<now, level, reusable, held, found, broken>>
  /\ UNCHANGED <<tables, clock, errors>>

\* What a limit keeps of a table: the rows with the latest stamps.
Newest(table, n) ==
  LET there == {u \in URLs : table[u].rev # 0}
      Kept == {k \in SUBSET there : /\ Cardinality(k) = Min({n, Cardinality(there)})
                                    /\ \A u \in k, v \in there \ k : table[u].at >= table[v].at}
  IN {[u \in URLs |-> IF u \in k THEN table[u] ELSE NoRow] : k \in Kept}

PruneTables(a) ==
  /\ At(a, "prune")
  /\ docs' \in Newest(docs, op[a].docs) /\ edges' \in Newest(edges, op[a].edges)
  /\ embs' \in Newest(embs, op[a].embs)
  /\ Ends(a, "ok")
  /\ UNCHANGED <<topics, families, members, dump, clock, errors, broken>>

Content(t) ==
  CASE t = "documents" -> {<<u, docs[u]>> : u \in {u \in URLs : docs[u].rev # 0}}
    [] t = "edges" -> {<<u, edges[u]>> : u \in {u \in URLs : edges[u].rev # 0}}
    [] t = "embeddings" -> {<<u, embs[u]>> : u \in {u \in URLs : embs[u].rev # 0}}
    [] t = "topics" -> {<<r, topics[r]>> : r \in {r \in Roots : topics[r] # {}}}
    [] t = "families" -> families
    [] t = "members" -> members

Export(a) ==
  /\ At(a, "export")
  /\ dump' = [dump EXCEPT ![Tables[level[a]]] = [there |-> TRUE, rows |-> Content(Tables[level[a]])]]
  /\ IF level[a] = Len(Tables) THEN Ends(a, "ok")
     ELSE /\ level' = [level EXCEPT ![a] = @ + 1]
          /\ UNCHANGED <<pc, now, cur, reusable, queue, held, found>>
  /\ UNCHANGED <<docs, embs, edges, topics, families, members, clock, errors, broken>>

\* The import opens the next file; without one of the first four it fails.
OpenFile(a) ==
  /\ At(a, "import")
  /\ LET file == dump[Tables[level[a]]]
         optional == Tables[level[a]] \in Optional
     IN IF ~file.there /\ ~optional THEN Ends(a, "failed")
        ELSE /\ queue' = [queue EXCEPT ![a] = file.rows] /\ Goes(a, "rows")
             /\ UNCHANGED <<now, cur, level, reusable, held, found>>
  /\ UNCHANGED <<tables, clock, errors, broken>>

Put(table, row) == [table EXCEPT ![row[1]] = row[2]]

\* It writes the rows one by one over those that are there, however old; the
\* edges in one transaction.
ImportRow(a) ==
  /\ At(a, "rows") /\ queue[a] # {}
  /\ LET t == Tables[level[a]]
     IN \E row \in queue[a] :
          /\ docs' = IF t = "documents" THEN Put(docs, row) ELSE docs
          /\ embs' = IF t = "embeddings" THEN Put(embs, row) ELSE embs
          /\ topics' = IF t = "topics" THEN Put(topics, row) ELSE topics
          /\ families' = IF t = "families" THEN families \cup {row} ELSE families
          /\ members' = IF t = "members" THEN members \cup {row} ELSE members
          /\ edges' = IF t = "edges"
                      THEN [u \in URLs |-> IF \E r \in queue[a] : r[1] = u
                                           THEN (CHOOSE r \in queue[a] : r[1] = u)[2] ELSE edges[u]]
                      ELSE edges
          /\ queue' = [queue EXCEPT ![a] = IF t = "edges" THEN {} ELSE @ \ {row}]
  /\ UNCHANGED <<dump, pc, now, cur, level, reusable, held, found, clock, errors, broken>>

CloseFile(a) ==
  /\ At(a, "rows") /\ queue[a] = {}
  /\ IF level[a] = Len(Tables) THEN Ends(a, "ok")
     ELSE /\ level' = [level EXCEPT ![a] = @ + 1] /\ Goes(a, "import")
          /\ UNCHANGED <<now, cur, reusable, queue, held, found>>
  /\ UNCHANGED <<tables, clock, errors, broken>>

-----------------------------------------------------------------------------
(* Search: topics, pages, families, then documents near what was found.    *)
(* Each stage ranks what it reads by score and keeps the best of it.       *)

Found(scores) == {u \in URLs : scores[u] # 0}

\* A limit that is not set stands for 5; without a limit of their own the
\* expansions take 3, or the limit of the search when that is less.
StageLimit(limit) == IF limit = 0 THEN 5 ELSE limit
SpreadLimit(a) ==
  IF op[a].spread > 0 THEN op[a].spread ELSE IF op[a].limit < 3 THEN StageLimit(op[a].limit) ELSE 3

\* Mutant of Best: cut in the order of the rows.
FirstRows(S, scores, n) == {B \in SUBSET S : Cardinality(B) <= n /\ (B = S \/ Cardinality(B) = n)}

\* The n pages of S with the highest scores, all of them when they are fewer.
Best(S, scores, n) ==
  {B \in SUBSET S : /\ Cardinality(B) <= n /\ (B = S \/ Cardinality(B) = n)
                    /\ \A u \in B, v \in S \ B : scores[u] >= scores[v]}

Only(S, scores) == [u \in URLs |-> IF u \in S THEN scores[u] ELSE 0]

\* Rows that stand for pages of S, with a vector or a rank of their own.
RowHits(S, n) ==
  {f \in [URLs -> 0..MaxScore] : Found(f) \subseteq S /\ Cardinality(Found(f)) <= n}

TopicHits(a) == RowHits(UNION Range(topics), StageLimit(op[a].limit))
PageHits(a) ==
  LET alike == {u \in Searchable : op[a].score[u] # 0}
  IN {Only(B, op[a].score) : B \in Best(alike, op[a].score, StageLimit(op[a].limit))}
FamilyHits(a) ==
  RowHits({m[2] : m \in members} \cup {f[1] : f \in families}, StageLimit(op[a].limit))

\* The ancestors, the neighbours and the hosts' other pages of what was found.
NearHits(a) ==
  IF Found(found[a]) = {} THEN {NothingFound}
  ELSE RowHits({u \in URLs : docs[u].rev # 0}, SpreadLimit(a))

\* A page that several stages find keeps its best score.
Search(a) ==
  /\ At(a, "search") /\ level[a] <= 6
  /\ \E scored \in CASE level[a] = 1 -> TopicHits(a)
                   [] level[a] = 2 -> PageHits(a)
                   [] level[a] = 3 -> FamilyHits(a)
                   [] OTHER -> NearHits(a) :
       found' = [found EXCEPT ![a] =
                   [u \in URLs |-> IF scored[u] > found[a][u] THEN scored[u] ELSE found[a][u]]]
  /\ level' = [level EXCEPT ![a] = @ + 1]
  /\ UNCHANGED <<tables, pc, now, cur, reusable, queue, held, clock, errors, broken>>

\* The answer: what reaches the floor, the best of it if there is a limit.
RankFound(a) ==
  /\ At(a, "search") /\ level[a] = 7
  /\ LET good == {u \in Found(found[a]) : found[a][u] >= op[a].floor}
     IN \E B \in IF op[a].limit = 0 THEN {good} ELSE Best(good, found[a], op[a].limit) :
          found' = [found EXCEPT ![a] = Only(B, found[a])]
  /\ Goes(a, "ok")
  /\ UNCHANGED <<tables, now, cur, level, reusable, queue, held, clock, errors, broken>>

-----------------------------------------------------------------------------
FilesPage(a) ==
  \/ Vector(a) \/ UpsertDocument(a) \/ UpsertEdges(a) \/ UpsertEmbedding(a)
  \/ JoinFamily(a) \/ JoinMember(a) \/ LoadTopic(a) \/ UpsertTopic(a)
Administers(a) ==
  \/ Snapshot(a) \/ DeleteTopics(a) \/ ListDocuments(a) \/ NextPage(a) \/ PruneTables(a)
  \/ Export(a) \/ OpenFile(a) \/ ImportRow(a) \/ CloseFile(a)

Ended(a) == pc'[a] = "ok" /\ pc[a] # "ok"

\* The history that the properties below are about.
Track(a) ==
  /\ op' = op
  /\ filed' = [b \in Actors |->
       IF Ended(b) THEN {}
       ELSE (filed[b] \cup (IF b = a /\ At(a, "embedding") /\ pc'[a] = "family" THEN {URL(a)} ELSE {}))
            \cap Searchable']
  /\ complete' = (complete \cup (IF Ended(a) THEN filed[a] ELSE {})) \cap Searchable'
  /\ steady' = [b \in Actors |->
       (IF b = a /\ At(a, "new") THEN Searchable ELSE steady[b]) \cap Searchable']
  /\ IF At(a, "new") /\ op[a].kind \in Writers
     THEN /\ lone' = IF \E b \in Actors : Underway(b) /\ op[b].kind \in Writers THEN {} ELSE {a}
          /\ matched' = {}
     ELSE /\ lone' = lone
          /\ matched' = IF ~Ended(a) \/ a \notin lone THEN matched
                        ELSE CASE op[a].kind = "observe" -> {op[a].url}
                               [] op[a].kind = "refresh" -> {u \in URLs : docs[u].rev # 0}
                               [] OTHER -> {}

MemoryNext ==
  \E a \in Actors :
     /\ Begin(a) \/ FilesPage(a) \/ Administers(a) \/ Search(a) \/ RankFound(a) \/ Fails(a)
     /\ Track(a)

MemorySpec == MemoryInit /\ [][MemoryNext]_memoryVars

-----------------------------------------------------------------------------
Stamped == [rev : Nat, at : Nat]

\* Where an operation may stand.
Filing == {"vector", "document", "edges", "embedding", "family", "member", "topic", "row"}
Standings(kind) ==
  CASE kind = "observe" -> Filing \cup {"next"}
    [] kind = "refresh" -> (Filing \ {"document", "edges"}) \cup {"snapshot", "next"}
    [] kind = "rebuild" -> {"delete", "list", "next", "topic", "row"}
    [] kind = "import" -> {"import", "rows"}
    [] kind = "none" -> {}
    [] OTHER -> {kind}

\* What the rows of a table may be.
RowsOf(t) ==
  CASE t = "topics" -> Roots \X ((SUBSET URLs) \ {{}})
    [] t = "families" -> families
    [] t = "members" -> families \X URLs
    [] OTHER -> URLs \X Stamped

\* What an operation has in hand at the place where it stands.
HandsOK(a) ==
  /\ pc[a] \in Over \cup Standings(op[a].kind)
  /\ pc[a] \in Filing => cur[a] \in URLs \X Nat
  /\ op[a].kind = "observe" => /\ queue[a] = {}
                               /\ Underway(a) => cur[a] = <<op[a].url, op[a].rev>>
  /\ op[a].kind = "refresh" => queue[a] \subseteq URLs \X Nat
  /\ op[a].kind = "rebuild" => queue[a] \subseteq URLs \X {0}
  /\ pc[a] \in (Filing \ {"topic", "row"}) \cup {"next", "list", "delete", "snapshot"} => level[a] = 1
  /\ pc[a] = "topic" => level[a] \in Nat \ {0}
  /\ pc[a] = "member" => held[a] \subseteq families
  /\ pc[a] = "row" => /\ level[a] \in 1..Len(RootsOf[URL(a)])
                      /\ held[a] \subseteq URLs /\ held[a] # {}
  /\ pc[a] \in {"export", "import", "rows"} => level[a] \in 1..Len(Tables)
  /\ pc[a] = "rows" => \E t \in Range(Tables) : Tables[level[a]] = t /\ queue[a] \subseteq RowsOf(t)

MemoryTypeOK ==
  /\ {docs, embs, edges} \subseteq [URLs -> Stamped]
  /\ topics \in [Roots -> SUBSET URLs]
  /\ families \subseteq URLs \X Nat /\ members \subseteq families \X URLs
  /\ DOMAIN dump = Range(Tables)
  /\ \A t \in Range(Tables) : dump[t].rows \subseteq RowsOf(t)
  /\ op \in Plans /\ found \in [Actors -> [URLs -> Nat]]
  /\ clock \in Nat /\ now \in [Actors -> Nat] /\ errors \in 0..MaxErrors
  /\ \A d \in {DOMAIN pc, DOMAIN cur, DOMAIN level, DOMAIN reusable, DOMAIN queue, DOMAIN held,
             DOMAIN filed, DOMAIN steady} : d = Actors
  /\ \A a \in Actors : HandsOK(a)

(* The topics.  A page has its topics unless some rebuild that has not come *)
(* to its end still has the page before it.                                 *)

\* An operation is still to file a page below its root i.
FilesBelow(a, u, i) ==
  pc[a] \in {"family", "member", "topic", "row"} /\ URL(a) = u /\ level[a] <= i
Rebuilds(b, u, i) ==
  \/ pc[b] \in {"list", "failed"}
  \/ pc[b] \in {"next", "topic", "row"} /\ <<u, 0>> \in queue[b]
  \/ FilesBelow(b, u, i)
Filed(u, i) == topics[RootsOf[u][i]] # {} \/ \E b \in broken : Rebuilds(b, u, i)

TopicsInv ==
  /\ broken \subseteq {b \in Actors : /\ op[b].kind = "rebuild"
                                     /\ pc[b] \in {"list", "next", "topic", "row", "failed"}}
  /\ complete \subseteq Searchable
  /\ \A u \in complete : \A i \in 1..Len(RootsOf[u]) : Filed(u, i)
  /\ \A a \in Actors :
       /\ filed[a] # {} => op[a].kind \in {"observe", "refresh"}
       /\ filed[a] \subseteq Searchable
       /\ pc[a] # "failed" =>
            \A u \in filed[a] : \A i \in 1..Len(RootsOf[u]) : Filed(u, i) \/ FilesBelow(a, u, i)

\* A page that an observation filed to its end, and that no prune took away
\* since, has its topics, whatever else runs, unless a rebuild is under way
\* or stopped half way.
CoverInv ==
  broken = {} =>
    \A u \in complete : \A i \in 1..Len(RootsOf[u]) : topics[RootsOf[u][i]] # {}

(* The embeddings.  A writer that runs alone finds the rows as it left them. *)

Matches(u, rev) == embs[u].rev = rev
ObserveOK(a) ==
  /\ pc[a] \in {"edges", "embedding", "family", "member", "topic", "row", "next"} =>
       docs[URL(a)].rev = cur[a][2]
  /\ pc[a] \in {"family", "member", "topic", "row", "next"} => Matches(URL(a), cur[a][2])
RefreshOK(a) ==
  pc[a] \in Filing \cup {"next"} =>
    /\ \A item \in queue[a] : docs[item[1]].rev = item[2]
    /\ pc[a] # "next" => docs[URL(a)].rev = cur[a][2]
    /\ \A u \in URLs : docs[u].rev # 0 =>
         \/ <<u, docs[u].rev>> \in queue[a] \/ Matches(u, docs[u].rev)
         \/ pc[a] \in {"vector", "embedding"} /\ URL(a) = u

LoneInv ==
  /\ lone \subseteq {a \in Actors : op[a].kind \in Writers}
  /\ \A a \in lone :
       /\ \A b \in Actors : Underway(b) /\ op[b].kind \in Writers => b = a
       /\ pc[a] \in {"document", "edges", "embedding"} /\ reusable[a] => Matches(URL(a), cur[a][2])
       /\ op[a].kind = "observe" => ObserveOK(a)
       /\ op[a].kind = "refresh" => RefreshOK(a)
  /\ matched # {} => \A b \in Actors : op[b].kind \in Writers => ~Underway(b)
  /\ matched \subseteq URLs

\* An observation or a refresh that ran alone leaves the embedding of what
\* the document says, whatever races, errors and imports left before it.
MatchInv == \A u \in matched : docs[u].rev # 0 /\ embs[u].rev = docs[u].rev

\* As many pages as the search may return do at least as well as this one,
\* or it is itself among them.
Served(a, u) ==
  \/ found[a][u] >= op[a].score[u]
  \/ Cardinality({v \in URLs : found[a][v] >= op[a].score[u]}) >= StageLimit(op[a].limit)

\* A search finds every page that was there throughout and whose score
\* reaches the floor, unless it returns as many pages as it may that score
\* no worse, also while the topics are being rebuilt.
SearchInv ==
  \A a \in Actors : op[a].kind = "search" /\ pc[a] = "ok" =>
    \A u \in steady[a] : op[a].score[u] # 0 /\ op[a].score[u] >= op[a].floor => Served(a, u)

\* So has a search that is past the pages themselves.
FoundSoFarInv ==
  \A a \in Actors : pc[a] = "search" =>
    /\ level[a] \in 1..7
    /\ level[a] > 2 => \A u \in steady[a] : op[a].score[u] # 0 => Served(a, u)

\* Pages keep their topics, a writer alone leaves the right embeddings, and a
\* search returns the best of the pages, however the statements of several
\* operations are interleaved and whichever fail (memory/service.go).
MemoryInd ==
  /\ MemoryTypeOK /\ TopicsInv /\ CoverInv /\ LoneInv /\ MatchInv /\ SearchInv /\ FoundSoFarInv

=============================================================================
