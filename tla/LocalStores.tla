---------------------------- MODULE LocalStores -----------------------------
(***************************************************************************)
(* What the operations of several processes leave in one state directory.  *)
(* A run of `read`, `query` or `crawl` (transport/runtime_ops.go) saves    *)
(* its trace, its proofs and its fingerprints, and folds what it learnt    *)
(* into documents that all runs share: the list of candidates, the         *)
(* fingerprint graph of a page, the genome of a domain and the graph of    *)
(* domains (internal/store).  `needlex prune` removes documents, and       *)
(* `needlex proof` reads all the proofs.                                   *)
(*                                                                         *)
(* A document is loaded, changed and saved without any lock, and Save      *)
(* truncates the file before it writes it (os.WriteFile).  A reader may    *)
(* thus find a document empty, two writers may leave the tail of the       *)
(* longer text behind the shorter one, a crash or a full disk may leave    *)
(* half a document, and a document removed while it is open takes the      *)
(* write with it.  What is written is abstracted to what other steps read. *)
(***************************************************************************)
EXTENDS Naturals, Sequences, SequencesExt, FiniteSets, Functions

CONSTANTS
  Processes,
  Pages, HostOf,     \* pages and the host of each
  Jobs,              \* what the processes may run together
  NoPage,
  MaxFaults          \* BOUND: how many writes fail and processes die

Hosts == {HostOf[u] : u \in Pages}
Artifacts == <<"traces", "proofs", "fingerprints">>

ArtifactsOf(p, u) == {<<dir, p, u>> : dir \in ToSet(Artifacts)}
Docs == (UNION {ArtifactsOf(p, u) : p \in Processes, u \in Pages})
        \cup {<<"graph", u>> : u \in Pages} \cup {<<"genome", h>> : h \in Hosts}
        \cup {<<"index">>, <<"domains">>}
Proofs == {<<"proofs", p, u>> : p \in Processes, u \in Pages}
Prunable(d) == d[1] \in {"traces", "proofs", "fingerprints", "genome"}
PrunedInTurn == <<"traces", "proofs", "fingerprints", "genome">>

\* A crawl reads no page twice, and a lookup is for a proof of some read.
OfPages(j) == j.pages \in Seq(Pages) /\ j.pages # <<>>
ASSUME StoresConstants ==
  /\ IsFiniteSet(Processes) /\ IsFiniteSet(Pages) /\ NoPage \notin Pages
  /\ MaxFaults \in Nat
  /\ \A js \in Jobs : DOMAIN js = Processes
  /\ \A js \in Jobs, p \in Processes :
       LET j == js[p]
       IN \/ j.kind = "read" /\ OfPages(j)
          \/ /\ j.kind = "query" /\ OfPages(j) /\ j.plan \in Seq(Pages)
             /\ j.seed \in Pages \cup {NoPage}
          \/ j.kind = "crawl" /\ OfPages(j) /\ IsInjective(j.pages)
          \/ j.kind = "find" /\ j.target \in Proofs
          \/ j.kind \in {"prune", "none"}

VARIABLES
  disk,       \* a document's state and, while it is whole, its content
  stage,      \* where each process stands
  job,        \* what it runs
  todo,       \* the tasks it still has to do
  got,        \* the content it has loaded
  linked,     \* whether the file it has open is still in the directory
  scan,       \* which pass of a proof lookup, or which directory of a prune
  result,     \* what it answered
  before,     \* history: whether its proof was stored when a lookup began
  memory,     \* the traces that the discovery memory refers to
  removed,    \* documents that a prune has removed
  faults      \* writes that have failed and processes that have died

storesVars == <<disk, stage, job, todo, got, linked, scan, result, before, memory, removed, faults>>

-----------------------------------------------------------------------------
(* The content of a document *)

Blank(d) ==
  CASE d[1] = "index" -> [u \in Pages |-> 0]
    [] d[1] = "domains" -> [hs \in Hosts \X Hosts |-> 0]
    [] d[1] = "genome" -> [seen |-> 0, render |-> FALSE]
    [] OTHER -> <<>>

Absent(d) == [st |-> "absent", val |-> Blank(d)]
Whole(v) == [st |-> "whole", val |-> v]
Undecodable(c, d) == [st |-> c, val |-> Blank(d)]
Decodes(d) == disk[d].st \in {"absent", "whole"}

\* What a write leaves of a file: another text may have come in since it
\* was truncated, and may be the longer one.
Landed(d, v) ==
  IF disk[d].st = "empty" THEN {Whole(v)} ELSE {Whole(v), Undecodable("broken", d)}

\* A delta of a fingerprint graph names the run before it and its own.
Latest(graph) == IF graph = <<>> THEN <<>> ELSE Last(graph).current

\* A task's change of the content it has loaded; "from" is the page a
\* transition leads from.
Observed(p, task, v) ==
  CASE task.doc[1] = "index" -> [v EXCEPT ![task.page] = @ + 1]
    [] task.doc[1] = "domains" -> [v EXCEPT ![<<HostOf[task.from], HostOf[task.page]>>] = @ + 1]
    [] task.doc[1] = "genome" ->
         [seen |-> v.seen + 1, render |-> v.render \/ job[p].render]
    [] task.doc[1] = "graph" ->
         Append(v, [previous |-> Latest(v), current |-> <<p, task.page>>])
    [] OTHER -> <<>>

-----------------------------------------------------------------------------
(* The tasks of an operation, in the order the runner does them *)

Task(do, doc, u, from) == [do |-> do, doc |-> doc, page |-> u, from |-> from]
Note(doc, u) == Task("observe", doc, u, NoPage)

Saves(p, u) == [i \in 1..Len(Artifacts) |-> Task("save", <<Artifacts[i], p, u>>, u, NoPage)]
StoredPage(u) == <<Note(<<"index">>, u), Note(<<"graph", u>>, u)>>
Genome(u) == <<Note(<<"genome", HostOf[u]>>, u)>>
Remember(p, u) == <<Task("memory", <<"traces", p, u>>, u, NoPage)>>

Transition(from, u) ==
  IF from = NoPage \/ HostOf[from] = HostOf[u] THEN <<>>
  ELSE <<Task("observe", <<"domains">>, u, from)>>
Candidates(j) ==
  FlattenSeq([i \in 1..Len(j.plan) |->
    <<Note(<<"index">>, j.plan[i])>> \o Transition(j.seed, j.plan[i])
    \o Transition(j.pages[1], j.plan[i])])

Tasks(p, j) ==
  LET u == j.pages[1]
      Each(Op(_)) == FlattenSeq([i \in 1..Len(j.pages) |-> Op(j.pages[i])])
  IN CASE j.kind = "read" -> Saves(p, u) \o StoredPage(u) \o Genome(u) \o Remember(p, u)
       [] j.kind = "query" -> Saves(p, u) \o StoredPage(u) \o Candidates(j)
                              \o Genome(u) \o Remember(p, u)
       [] j.kind = "crawl" -> Each(LAMBDA v : Saves(p, v) \o Remember(p, v))
                              \o Each(LAMBDA v : StoredPage(v) \o Genome(v))
       [] OTHER -> <<>>

-----------------------------------------------------------------------------
StoresInit ==
  /\ disk = [d \in Docs |-> Absent(d)]
  /\ stage = [p \in Processes |-> "new"] /\ job \in Jobs
  /\ todo = [p \in Processes |-> <<>>] /\ got = [p \in Processes |-> <<>>]
  /\ linked = [p \in Processes |-> FALSE] /\ scan = [p \in Processes |-> 0]
  /\ result = [p \in Processes |-> "none"] /\ before = [p \in Processes |-> FALSE]
  /\ memory = {} /\ removed = {} /\ faults = 0

\* The page has been read: the operation goes on to store it.  A read that
\* fails stores nothing.
Start(p) ==
  /\ stage[p] = "new" /\ job[p].kind # "none"
  /\ \/ /\ todo' = [todo EXCEPT ![p] = Tasks(p, job[p])]
        /\ stage' = [stage EXCEPT ![p] =
                       IF job[p].kind \in {"prune", "find"} THEN "list" ELSE "next"]
        /\ scan' = [scan EXCEPT ![p] = 1] /\ UNCHANGED result
     \/ /\ job[p].kind \notin {"prune", "find"}
        /\ result' = [result EXCEPT ![p] = "error"] /\ stage' = [stage EXCEPT ![p] = "over"]
        /\ UNCHANGED <<todo, scan>>
  /\ UNCHANGED <<disk, job, got, linked, memory, removed, faults, before>>

Now(p, do) == stage[p] = "next" /\ todo[p] # <<>> /\ Head(todo[p]).do = do

\* A task is done, or left undone and its error dropped.
TaskOver(p) ==
  /\ todo' = [todo EXCEPT ![p] = Tail(@)] /\ stage' = [stage EXCEPT ![p] = "next"]
  /\ got' = [got EXCEPT ![p] = <<>>] /\ linked' = [linked EXCEPT ![p] = FALSE]
  /\ UNCHANGED result

\* Mutant of TaskFails: a read answers although it could not save.
TaskFailsOn(p) == TaskOver(p)

\* A failed save ends a read and a query; a crawl and every observation go on.
TaskFails(p) ==
  IF Head(todo[p]).do = "save" /\ job[p].kind # "crawl"
  THEN /\ result' = [result EXCEPT ![p] = "error"] /\ stage' = [stage EXCEPT ![p] = "over"]
       /\ todo' = [todo EXCEPT ![p] = <<>>] /\ got' = [got EXCEPT ![p] = <<>>]
       /\ linked' = [linked EXCEPT ![p] = FALSE]
  ELSE TaskOver(p)

\* An observation reads the document it will replace.  One that it cannot
\* decode is never replaced.
Load(p) ==
  /\ Now(p, "observe")
  /\ LET d == Head(todo[p]).doc
     IN IF Decodes(d)
        THEN /\ got' = [got EXCEPT ![p] = disk[d].val] /\ stage' = [stage EXCEPT ![p] = "loaded"]
             /\ UNCHANGED <<todo, linked, result>>
        ELSE TaskFails(p)
  /\ UNCHANGED <<disk, job, scan, memory, removed, faults, before>>

\* Save opens the file and truncates it.
Open(p) ==
  /\ stage[p] = "loaded" \/ Now(p, "save")
  /\ LET d == Head(todo[p]).doc IN disk' = [disk EXCEPT ![d] = Undecodable("empty", d)]
  /\ stage' = [stage EXCEPT ![p] = "open"] /\ linked' = [linked EXCEPT ![p] = TRUE]
  /\ UNCHANGED <<job, todo, got, scan, result, memory, removed, faults, before>>

Write(p) ==
  /\ stage[p] = "open"
  /\ LET d == Head(todo[p]).doc
     IN IF linked[p]
        THEN \E c \in Landed(d, Observed(p, Head(todo[p]), got[p])) : disk' = [disk EXCEPT ![d] = c]
        ELSE UNCHANGED disk
  /\ TaskOver(p)
  /\ UNCHANGED <<job, scan, memory, removed, faults, before>>

\* The directory, the file or the disk refuses: nothing or half is written.
SaveFails(p) ==
  /\ stage[p] \in {"loaded", "open"} \/ Now(p, "save")
  /\ faults < MaxFaults /\ faults' = faults + 1
  /\ LET d == Head(todo[p]).doc
     IN disk' = IF stage[p] = "open" /\ linked[p]
                THEN [disk EXCEPT ![d] = Undecodable("broken", d)] ELSE disk
  /\ TaskFails(p)
  /\ UNCHANGED <<job, scan, memory, removed, before>>

\* The discovery memory takes the observation in, or only logs that it
\* could not.
Memory(p) ==
  /\ Now(p, "memory")
  /\ memory' \in {memory, memory \cup {<<p, Head(todo[p]).page>>}}
  /\ TaskOver(p)
  /\ UNCHANGED <<disk, job, scan, removed, faults, before>>

Answer(p) ==
  /\ stage[p] = "next" /\ todo[p] = <<>>
  /\ result' = [result EXCEPT ![p] = "ok"] /\ stage' = [stage EXCEPT ![p] = "over"]
  /\ UNCHANGED <<disk, job, todo, got, linked, scan, memory, removed, faults, before>>

-----------------------------------------------------------------------------
(* prune and proof lookup *)

Listed(p) ==
  {d \in Docs : /\ IF job[p].kind = "prune" THEN Prunable(d) /\ d[1] = PrunedInTurn[scan[p]]
                   ELSE d \in Proofs
                /\ disk[d].st # "absent"}

\* One directory is listed, the documents of the runs in the order of their
\* ids, which are hashes; a lookup by trace id has tried its document first.
List(p) ==
  /\ stage[p] = "list"
  /\ before' = IF job[p].kind = "find" /\ scan[p] = 1
               THEN [before EXCEPT ![p] = disk[job[p].target].st = "whole"] ELSE before
  /\ IF job[p].kind = "find" /\ scan[p] = 1 /\ job[p].direct /\ disk[job[p].target].st = "whole"
     THEN /\ result' = [result EXCEPT ![p] = "found"] /\ stage' = [stage EXCEPT ![p] = "over"]
          /\ UNCHANGED todo
     ELSE /\ \E files \in (IF job[p].kind = "find" THEN SetToSeqs(Listed(p))
                           ELSE {SetToSeq(Listed(p))}) : todo' = [todo EXCEPT ![p] = files]
          /\ stage' = [stage EXCEPT ![p] = "scan"] /\ UNCHANGED result
  /\ UNCHANGED <<disk, job, got, linked, scan, memory, removed, faults>>

\* One file is removed, is too young to be, or has gone and ends the prune.
Prune(p) ==
  /\ job[p].kind = "prune" /\ stage[p] = "scan" /\ todo[p] # <<>>
  /\ LET d == Head(todo[p])
     IN \/ /\ disk[d].st # "absent"
           /\ disk' = [disk EXCEPT ![d] = Absent(d)] /\ removed' = removed \cup {d}
           /\ linked' = [q \in Processes |->
                           linked[q] /\ ~ (stage[q] = "open" /\ Head(todo[q]).doc = d)]
           /\ todo' = [todo EXCEPT ![p] = Tail(@)] /\ UNCHANGED <<stage, result>>
        \/ /\ disk[d].st # "absent" /\ ~ job[p].all
           /\ todo' = [todo EXCEPT ![p] = Tail(@)] /\ UNCHANGED <<disk, removed, linked, stage, result>>
        \/ /\ disk[d].st = "absent"
           /\ result' = [result EXCEPT ![p] = "error"] /\ stage' = [stage EXCEPT ![p] = "over"]
           /\ todo' = [todo EXCEPT ![p] = <<>>] /\ UNCHANGED <<disk, removed, linked>>
  /\ UNCHANGED <<job, got, scan, memory, faults, before>>

\* The next directory is listed when the one before it has been gone through.
PruneOver(p) ==
  /\ job[p].kind = "prune" /\ stage[p] = "scan" /\ todo[p] = <<>>
  /\ IF scan[p] < 4
     THEN /\ scan' = [scan EXCEPT ![p] = @ + 1] /\ stage' = [stage EXCEPT ![p] = "list"]
          /\ UNCHANGED result
     ELSE /\ result' = [result EXCEPT ![p] = "ok"] /\ stage' = [stage EXCEPT ![p] = "over"]
          /\ UNCHANGED scan
  /\ UNCHANGED <<disk, job, todo, got, linked, memory, removed, faults, before>>

\* The first pass compares proof ids, the second chunk ids; an error of the
\* first only starts the second.
Look(p) ==
  /\ job[p].kind = "find" /\ stage[p] = "scan" /\ todo[p] # <<>>
  /\ LET d == Head(todo[p])
         here == disk[d].st = "whole" /\ d = job[p].target /\ ~ job[p].direct /\ scan[p] = 1
     IN IF here
        THEN /\ result' = [result EXCEPT ![p] = "found"] /\ stage' = [stage EXCEPT ![p] = "over"]
             /\ todo' = [todo EXCEPT ![p] = <<>>] /\ UNCHANGED scan
        ELSE IF disk[d].st = "whole"
        THEN /\ todo' = [todo EXCEPT ![p] = Tail(@)] /\ UNCHANGED <<result, stage, scan>>
        ELSE /\ todo' = [todo EXCEPT ![p] = <<>>]
             /\ IF scan[p] = 1
                THEN /\ scan' = [scan EXCEPT ![p] = 2] /\ stage' = [stage EXCEPT ![p] = "list"]
                     /\ UNCHANGED result
                ELSE /\ result' = [result EXCEPT ![p] = "error"]
                     /\ stage' = [stage EXCEPT ![p] = "over"] /\ UNCHANGED scan
  /\ UNCHANGED <<disk, job, got, linked, memory, removed, faults, before>>

LookOver(p) ==
  /\ job[p].kind = "find" /\ stage[p] = "scan" /\ todo[p] = <<>>
  /\ IF scan[p] = 1
     THEN /\ scan' = [scan EXCEPT ![p] = 2] /\ stage' = [stage EXCEPT ![p] = "list"]
          /\ UNCHANGED result
     ELSE /\ result' = [result EXCEPT ![p] = "notfound"] /\ stage' = [stage EXCEPT ![p] = "over"]
          /\ UNCHANGED scan
  /\ UNCHANGED <<disk, job, todo, got, linked, memory, removed, faults, before>>

\* The process is killed; what it had open stays as it is.
Crash(p) ==
  /\ stage[p] \notin {"new", "over", "dead"}
  /\ faults < MaxFaults /\ faults' = faults + 1
  /\ stage' = [stage EXCEPT ![p] = "dead"] /\ todo' = [todo EXCEPT ![p] = <<>>]
  /\ got' = [got EXCEPT ![p] = <<>>] /\ linked' = [linked EXCEPT ![p] = FALSE]
  /\ UNCHANGED <<disk, job, scan, result, memory, removed, before>>

Work(p) ==
  \/ Load(p) \/ Open(p) \/ Write(p) \/ SaveFails(p) \/ Memory(p) \/ Answer(p)
  \/ List(p) \/ Prune(p) \/ PruneOver(p) \/ Look(p) \/ LookOver(p)

StoresNext == \E p \in Processes : Start(p) \/ Work(p) \/ Crash(p)
StoresFair == \A p \in Processes : WF_storesVars(Work(p))
StoresSpec == StoresInit /\ [][StoresNext]_storesVars /\ StoresFair

-----------------------------------------------------------------------------
(* Properties *)

Kept(d) == disk[d].st = "whole" \/ d \in removed
Runs(kinds) == {p \in Processes : job[p].kind \in kinds}
TraceKept(t) == t[1] \in Runs({"crawl"}) \/ \A d \in ArtifactsOf(t[1], t[2]) : Kept(d)

\* A read or query that has answered has its trace, proofs and fingerprints
\* on disk, whole, unless a prune took them: its client can audit it.
DeliveredInv ==
  \A p \in Runs({"read", "query"}) :
    result[p] = "ok" => \A d \in ArtifactsOf(p, job[p].pages[1]) : Kept(d)

\* The memory and the fingerprint graphs refer only to reads and queries
\* that have been stored, whatever fails or crashes.  (A crawl goes on when
\* it cannot store a page.)
EvidenceInv ==
  /\ \A t \in memory : TraceKept(t)
  /\ \A u \in Pages : \A i \in 1..Len(disk[<<"graph", u>>].val) :
       TraceKept(disk[<<"graph", u>>].val[i].current)

\* Although updates get lost, a page's history stays one chain: each delta
\* starts from the run that the one before it ended in.
ChainInv ==
  \A u \in Pages :
    LET history == disk[<<"graph", u>>].val
    IN \A i \in 1..Len(history) :
         history[i].previous = IF i = 1 THEN <<>> ELSE history[i-1].current

\* A lookup answers with a proof only if it was stored.
FoundInv ==
  \A p \in Runs({"find"}) : result[p] = "found" => Kept(job[p].target)

Stages == {"new", "next", "loaded", "open", "list", "scan", "over", "dead"}
Answers == {"none", "ok", "error", "found", "notfound"}

StoresTypeOK ==
  /\ DOMAIN disk = Docs
  /\ \A d \in Docs : disk[d].st \in {"absent", "empty", "broken", "whole"}
  /\ job \in Jobs /\ stage \in [Processes -> Stages] /\ result \in [Processes -> Answers]
  /\ linked \in [Processes -> BOOLEAN] /\ scan \in [Processes -> 0..4]
  /\ DOMAIN todo = Processes /\ DOMAIN got = Processes
  /\ \A p \in Processes :
       /\ result[p] # "none" <=> stage[p] = "over"
       /\ linked[p] => stage[p] = "open"
       /\ stage[p] \in {"loaded", "open"} \/ got[p] = <<>>
  /\ removed \subseteq {d \in Docs : Prunable(d)} /\ faults \in 0..MaxFaults

(* What makes the above inductive. *)

Works(p) == stage[p] \in {"next", "loaded", "open"}
Lists(p) == stage[p] \in {"list", "scan"}

\* A process saves only documents of its own, and folds what a read or query
\* has learnt into the histories and the memory under the page it has read.
Own(p, task) ==
  \/ task.do = "save" /\ task.doc \in ArtifactsOf(p, task.page)
  \/ /\ task.do = "observe" /\ task.doc[1] \in {"index", "domains", "genome", "graph"}
     /\ task.doc[1] = "graph" =>
          /\ task.doc = <<"graph", task.page>>
          /\ p \in Runs({"crawl"}) \/ task.page = job[p].pages[1]
  \/ task.do = "memory" /\ (p \in Runs({"crawl"}) \/ task.page = job[p].pages[1])
AllTasks == [do : {"save", "observe", "memory"}, doc : Docs, page : Pages, from : Pages \cup {NoPage}]
OwnTasks(p) == {task \in AllTasks : Own(p, task)}

\* It saves each of them once, and a read or a query does so before all else.
IsSave(p, i) == todo[p][i].do = "save"
TodoOK(p) ==
  /\ Works(p) =>
       /\ p \in Runs({"read", "query", "crawl"})
       /\ todo[p] \in Seq(OwnTasks(p))
       /\ \A i, j \in DOMAIN todo[p] :
            IsSave(p, i) /\ IsSave(p, j) /\ todo[p][i].doc = todo[p][j].doc => i = j
       /\ p \notin Runs({"crawl"}) =>
            \A i, j \in DOMAIN todo[p] : i < j /\ IsSave(p, j) => IsSave(p, i)
       /\ stage[p] # "next" => todo[p] # <<>>
       /\ stage[p] = "loaded" => todo[p][1].do = "observe"
       /\ stage[p] = "open" => todo[p][1].do # "memory"
  /\ Lists(p) =>
       /\ p \in Runs({"prune", "find"})
       /\ todo[p] \in Seq({d \in Docs : p \in Runs({"prune"}) => Prunable(d)})

\* What a process still has to save is not yet whole, and what it no longer
\* has to save is kept; the document it has open is empty, or was removed.
ToSave(p) == {todo[p][i].doc : i \in {n \in DOMAIN todo[p] : IsSave(p, n)}}
SavesOK(p, d) ==
  /\ disk[d].st = "whole" => stage[p] # "new" /\ (Works(p) => d \notin ToSave(p))
  /\ stage[p] = "open" /\ todo[p][1].doc = d => IF linked[p] THEN disk[d].st = "empty" ELSE d \in removed
  /\ Works(p) /\ p \in Runs({"read", "query"}) /\ d[3] = job[p].pages[1] => d \in ToSave(p) \/ Kept(d)

\* A history of a page, on disk or loaded to be continued.
IsHistory(v) ==
  /\ v \in Seq([previous : (Processes \X Pages) \cup {<<>>}, current : Processes \X Pages])
  /\ \A i \in DOMAIN v : /\ TraceKept(v[i].current)
                        /\ v[i].previous = IF i = 1 THEN <<>> ELSE v[i-1].current

StoresInd ==
  /\ StoresTypeOK /\ DeliveredInv /\ EvidenceInv /\ ChainInv /\ FoundInv
  /\ \A p \in Processes : TodoOK(p)
  /\ \A p \in Processes, u \in Pages : \A d \in ArtifactsOf(p, u) : SavesOK(p, d)
  /\ memory \subseteq Processes \X Pages
  /\ \A u \in Pages : IsHistory(disk[<<"graph", u>>].val)
  /\ \A p \in Processes :
       stage[p] \in {"loaded", "open"} /\ todo[p][1].doc[1] = "graph" => IsHistory(got[p])

\* The operations begun so far are over.
OperationsEnded == \A p \in Processes : stage[p] \in {"new", "over", "dead"}

\* "Pass the proof reference to `web_proof` ... to inspect the source span":
\* a lookup of a proof that was stored when it began says "not found" only
\* if a prune has removed it.
NotFoundMeansAbsent ==
  \A p \in Runs({"find"}) :
    result[p] = "notfound" /\ before[p] => job[p].target \in removed
=============================================================================
