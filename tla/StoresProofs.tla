---------------------------- MODULE StoresProofs ----------------------------
(***************************************************************************)
(* Proofs about LocalStores: whatever several processes store, prune and   *)
(* look up in one state directory, without a lock, and whatever fails or   *)
(* dies on the way, StoresInd holds.                                       *)
(*                                                                         *)
(* The argument: a process saves each of its artifacts once and before it  *)
(* answers, remembers or continues a history, nobody else writes them, so  *)
(* a document that is whole or removed when it is referred to stays so.    *)
(***************************************************************************)
EXTENDS LocalStores, DiscoveryMemory, Records, ListLemmas

-----------------------------------------------------------------------------
(* Documents *)

\* The artifacts of a read are its own: documents of no other process, and
\* none of the shared ones.
LEMMA ArtifactsAre ==
  ASSUME NEW p \in Processes, NEW u \in Pages
  PROVE  /\ ArtifactsOf(p, u) = {<<"traces", p, u>>, <<"proofs", p, u>>, <<"fingerprints", p, u>>}
         /\ \A d \in ArtifactsOf(p, u) :
              /\ d \in Docs /\ Prunable(d) /\ d[2] = p /\ d[3] = u
              /\ d[1] \in {"traces", "proofs", "fingerprints"}
<1>1. ToSet(Artifacts) = {"traces", "proofs", "fingerprints"}
  <2>1. DOMAIN Artifacts = 1..3 /\ 1..3 = {1, 2, 3}
    BY DEF Artifacts
  <2>2. Artifacts[1] = "traces" /\ Artifacts[2] = "proofs" /\ Artifacts[3] = "fingerprints"
    BY DEF Artifacts
  <2>3. ToSet(Artifacts) = {Artifacts[i] : i \in {1, 2, 3}}
    BY <2>1 DEF ToSet
  <2> QED
    BY <2>2, <2>3
<1>2. ArtifactsOf(p, u) = {<<"traces", p, u>>, <<"proofs", p, u>>, <<"fingerprints", p, u>>}
  BY <1>1 DEF ArtifactsOf
<1>3. ArtifactsOf(p, u) \subseteq Docs
  BY DEF Docs
<1> QED
  BY <1>2, <1>3 DEF Prunable

\* The history of a page is a shared document, and empty at first.
LEMMA GraphIs ==
  ASSUME NEW u \in Pages
  PROVE  /\ <<"graph", u>> \in Docs /\ <<"graph", u>>[1] = "graph" /\ <<"graph", u>>[2] = u
         /\ Blank(<<"graph", u>>) = <<>> /\ ~Prunable(<<"graph", u>>)
<1> DEFINE d == <<"graph", u>>
<1>1. d \in Docs
  <2>1. d \in {<<"graph", v>> : v \in Pages}
    OBVIOUS
  <2> HIDE DEF d
  <2> QED
    BY <2>1 DEF Docs
<1>2. d[1] = "graph" /\ d[2] = u
  OBVIOUS
<1> HIDE DEF d
<1>3. Blank(d) = <<>> /\ ~Prunable(d)
  BY <1>2 DEF Blank, Prunable
<1> QED
  BY <1>1, <1>2, <1>3 DEF d

\* A proof that may be looked up is an artifact.
LEMMA ProofIs ==
  ASSUME NEW d \in Proofs
  PROVE  \E p \in Processes, u \in Pages : d \in ArtifactsOf(p, u)
<1>1. PICK p \in Processes, u \in Pages : d = <<"proofs", p, u>>
  BY DEF Proofs
<1> QED
  BY <1>1, ArtifactsAre

-----------------------------------------------------------------------------
(* What every step keeps *)

KeepsAll ==
  \A q \in Processes, u \in Pages : \A d \in ArtifactsOf(q, u) : Kept(d) => Kept(d)'

\* A trace whose artifacts are kept stays a trace whose artifacts are kept.
LEMMA TraceStable ==
  ASSUME KeepsAll, job' = job, NEW t \in Processes \X Pages, TraceKept(t)
  PROVE  TraceKept(t)'
<1>1. t[1] \in Processes /\ t[2] \in Pages
  OBVIOUS
<1>2. \A d \in ArtifactsOf(t[1], t[2]) : Kept(d) => Kept(d)'
  BY <1>1 DEF KeepsAll
<1>3. t[1] \in Runs({"crawl"}) => t[1] \in Runs({"crawl"})'
  BY DEF Runs
<1> QED
  BY <1>2, <1>3 DEF TraceKept

\* A history stays one, wherever it is read.
LEMMA HistoryStable ==
  ASSUME KeepsAll, job' = job, NEW v, IsHistory(v)
  PROVE  IsHistory(v)'
<1> DEFINE Deltas == [previous : (Processes \X Pages) \cup {<<>>}, current : Processes \X Pages]
<1>1. v \in Seq(Deltas)
  BY DEF IsHistory
<1>2. \A i \in DOMAIN v : v[i] \in Deltas
  <2> HIDE DEF Deltas
  <2>1. DOMAIN v = 1..Len(v)
    BY <1>1, LenProperties
  <2> QED
    BY <1>1, <2>1, ElementOfSeq
<1>3. \A i \in DOMAIN v : v[i].current \in Processes \X Pages
  BY <1>2
<1>4. \A i \in DOMAIN v : TraceKept(v[i].current)'
  BY <1>3, TraceStable DEF IsHistory
<1> QED
  BY <1>1, <1>4 DEF IsHistory

TodoInv == \A p \in Processes : TodoOK(p)
SavesInv == \A p \in Processes, u \in Pages : \A d \in ArtifactsOf(p, u) : SavesOK(p, d)
GotOK(p) == stage[p] \in {"loaded", "open"} /\ todo[p][1].doc[1] = "graph" => IsHistory(got[p])
HistoryInv ==
  /\ memory \subseteq Processes \X Pages /\ \A t \in memory : TraceKept(t)
  /\ \A u \in Pages : IsHistory(disk[<<"graph", u>>].val)
  /\ \A p \in Processes : GotOK(p)

\* The histories on disk say what EvidenceInv and ChainInv say of them.
LEMMA HistoryParts ==
  ASSUME HistoryInv
  PROVE  EvidenceInv /\ ChainInv
<1>1. ASSUME NEW u \in Pages
      PROVE  /\ \A i \in 1..Len(disk[<<"graph", u>>].val) : TraceKept(disk[<<"graph", u>>].val[i].current)
             /\ LET chain == disk[<<"graph", u>>].val
                IN \A i \in 1..Len(chain) :
                     chain[i].previous = IF i = 1 THEN <<>> ELSE chain[i-1].current
  <2> DEFINE v == disk[<<"graph", u>>].val
  <2>1. IsHistory(v)
    BY DEF HistoryInv
  <2> HIDE DEF v
  <2>2. DOMAIN v = 1..Len(v)
    BY <2>1, LenProperties DEF IsHistory
  <2>3. \A i \in 1..Len(v) : TraceKept(v[i].current) /\ v[i].previous = IF i = 1 THEN <<>> ELSE v[i-1].current
    BY <2>1, <2>2 DEF IsHistory
  <2> QED
    BY <2>3 DEF v
<1> QED
  BY <1>1 DEF HistoryInv, EvidenceInv, ChainInv

\* The parts of the invariant, one per lemma of a step.
LEMMA StoresParts ==
  StoresInd <=> StoresTypeOK /\ DeliveredInv /\ FoundInv /\ TodoInv /\ SavesInv /\ HistoryInv
<1>1. StoresInd => StoresTypeOK /\ DeliveredInv /\ FoundInv /\ TodoInv /\ SavesInv /\ HistoryInv
  BY DEF StoresInd, TodoInv, SavesInv, HistoryInv, GotOK, EvidenceInv
<1> QED
  BY <1>1, HistoryParts DEF StoresInd, TodoInv, SavesInv, HistoryInv, GotOK

\* A step of process p that leaves the artifacts of the others alone.
LEMMA StoresFrame ==
  ASSUME StoresInd, NEW p \in Processes, UNCHANGED <<job, removed>>, KeepsAll, StoresTypeOK',
         \A q \in Processes \ {p} :
            /\ stage'[q] = stage[q] /\ todo'[q] = todo[q] /\ got'[q] = got[q]
            /\ linked'[q] = linked[q] /\ result'[q] = result[q],
         \A q \in Processes \ {p}, u \in Pages : \A d \in ArtifactsOf(q, u) : disk'[d] = disk[d],
         TodoOK(p)', \A u \in Pages : \A d \in ArtifactsOf(p, u) : SavesOK(p, d)'
  PROVE  TodoInv' /\ SavesInv'
<1>0. StoresTypeOK /\ TodoInv /\ SavesInv
  BY StoresParts
<1>1. ASSUME NEW q \in Processes \ {p}
      PROVE  TodoOK(q)'
  <2>1. TodoOK(q)
    BY <1>0 DEF TodoInv
  <2>2. stage'[q] = stage[q] /\ todo'[q] = todo[q] /\ job' = job
    OBVIOUS
  <2>3. OwnTasks(q)' = OwnTasks(q)
    BY <2>2 DEF OwnTasks, Own, Runs
  <2> QED
    BY <2>1, <2>2, <2>3 DEF TodoOK, Works, Lists, Runs, IsSave
<1>2. ASSUME NEW q \in Processes \ {p}, NEW u \in Pages, NEW d \in ArtifactsOf(q, u)
      PROVE  SavesOK(q, d)'
  <2>1. SavesOK(q, d)
    BY <1>0 DEF SavesInv
  <2>2. /\ stage'[q] = stage[q] /\ todo'[q] = todo[q] /\ job' = job /\ disk'[d] = disk[d]
        /\ linked'[q] = linked[q] /\ removed' = removed
    OBVIOUS
  <2> QED
    BY <2>1, <2>2 DEF SavesOK, ToSave, Works, Runs, IsSave, Kept
<1>3. TodoInv'
  BY <1>1 DEF TodoInv
<1>4. SavesInv'
  BY <1>2 DEF SavesInv
<1> QED
  BY <1>3, <1>4

\* A step of process p that continues a history, or leaves it alone.
LEMMA HistoryFrame ==
  ASSUME StoresInd, NEW p \in Processes, job' = job, KeepsAll,
         \A q \in Processes \ {p} :
            stage'[q] = stage[q] /\ todo'[q] = todo[q] /\ got'[q] = got[q],
         \A u \in Pages : disk'[<<"graph", u>>] = disk[<<"graph", u>>] \/ IsHistory(disk[<<"graph", u>>].val)',
         memory' \subseteq Processes \X Pages, \A t \in memory' \ memory : TraceKept(t)',
         GotOK(p)'
  PROVE  HistoryInv'
<1>0. HistoryInv
  BY StoresParts
<1>1. \A t \in memory' : TraceKept(t)'
  BY <1>0, TraceStable DEF HistoryInv
<1>2. ASSUME NEW u \in Pages PROVE IsHistory(disk[<<"graph", u>>].val)'
  <2>1. CASE disk'[<<"graph", u>>] = disk[<<"graph", u>>]
    <3>1. IsHistory(disk[<<"graph", u>>].val)
      BY <1>0 DEF HistoryInv
    <3>2. \A v : v = disk[<<"graph", u>>].val => IsHistory(v)'
      BY <3>1, HistoryStable
    <3> QED
      BY <2>1, <3>2
  <2> QED
    BY <2>1
<1>3. ASSUME NEW q \in Processes \ {p} PROVE GotOK(q)'
  <2>1. GotOK(q)
    BY <1>0 DEF HistoryInv
  <2>2. IsHistory(got[q]) => \A v : v = got[q] => IsHistory(v)'
    BY HistoryStable
  <2> QED
    BY <2>1, <2>2 DEF GotOK
<1> QED
  BY <1>1, <1>2, <1>3 DEF HistoryInv

\* The page of a read, and the seed of a query or a crawl.
LEMMA FirstPage ==
  ASSUME StoresTypeOK, NEW q \in Processes, q \in Runs({"read", "query", "crawl"}) \/ q \in Runs({"read", "query"})
  PROVE  OfPages(job[q]) /\ job[q].pages[1] \in Pages
<1>1. OfPages(job[q])
  BY StoresConstants DEF StoresTypeOK, Runs
<1>2. Len(job[q].pages) \in Nat /\ Len(job[q].pages) # 0
  BY <1>1, LenProperties, EmptySeq DEF OfPages
<1>3. job[q].pages[1] \in Pages
  BY <1>1, <1>2, ElementOfSeq DEF OfPages
<1> QED
  BY <1>1, <1>3

\* What has been delivered or found stays.
LEMMA AnswersFrame ==
  ASSUME StoresInd, NEW p \in Processes, job' = job, KeepsAll,
         \A q \in Processes \ {p} : result'[q] = result[q],
         \/ result'[p] \in {result[p], "none", "error", "notfound"}
         \/ result'[p] = "ok" /\ (p \in Runs({"read", "query"}) =>
                                    \A d \in ArtifactsOf(p, job[p].pages[1]) : Kept(d)')
         \/ result'[p] = "found" /\ Kept(job[p].target)'
  PROVE  DeliveredInv' /\ FoundInv'
<1>0. DeliveredInv /\ FoundInv /\ StoresTypeOK
  BY StoresParts
<1>1. ASSUME NEW q \in Processes, q \in Runs({"read", "query"})
      PROVE  job[q].pages[1] \in Pages
  BY <1>0, <1>1, FirstPage
<1>2. ASSUME NEW q \in Processes, q \in Runs({"find"})
      PROVE  job[q].target \in Proofs
  BY <1>0, <1>2, StoresConstants DEF StoresTypeOK, Runs
<1>3. ASSUME NEW q \in Processes, q \in Runs({"read", "query"}), result'[q] = "ok"
      PROVE  \A d \in ArtifactsOf(q, job[q].pages[1]) : Kept(d)'
  <2>1. result[q] = "ok" => \A d \in ArtifactsOf(q, job[q].pages[1]) : Kept(d)
    BY <1>0, <1>3 DEF DeliveredInv
  <2>2. \A d \in ArtifactsOf(q, job[q].pages[1]) : Kept(d) => Kept(d)'
    BY <1>1, <1>3 DEF KeepsAll
  <2> QED
    BY <1>3, <2>1, <2>2
<1>4. ASSUME NEW q \in Processes, q \in Runs({"find"}), result'[q] = "found"
      PROVE  Kept(job[q].target)'
  <2>1. result[q] = "found" => Kept(job[q].target)
    BY <1>0, <1>4 DEF FoundInv
  <2>2. Kept(job[q].target) => \A d : d = job[q].target => Kept(d)'
    <3>1. job[q].target \in Proofs
      BY <1>2, <1>4
    <3> QED
      BY <3>1, ProofIs DEF KeepsAll
  <2>3. result[q] = "found" => Kept(job[q].target)'
    BY <2>1, <2>2
  <2> QED
    BY <1>4, <2>3
<1>5. Runs({"read", "query"})' = Runs({"read", "query"}) /\ Runs({"find"})' = Runs({"find"})
  BY DEF Runs
<1>6. DeliveredInv'
  BY <1>3, <1>5 DEF DeliveredInv, Runs
<1>7. FoundInv'
  BY <1>4, <1>5 DEF FoundInv, Runs
<1> QED
  BY <1>6, <1>7

-----------------------------------------------------------------------------
(* The tasks of a process *)

\* What a process has to do is its own.
LEMMA TodoFacts ==
  ASSUME NEW p \in Processes, TodoOK(p), Works(p)
  PROVE  /\ Len(todo[p]) \in Nat /\ DOMAIN todo[p] = 1..Len(todo[p])
         /\ \A i \in 1..Len(todo[p]) : todo[p][i] \in AllTasks /\ Own(p, todo[p][i])
         /\ todo[p] # <<>> => /\ Head(todo[p]) = todo[p][1] /\ 1 \in 1..Len(todo[p])
                              /\ todo[p][1] \in AllTasks /\ Own(p, todo[p][1])
<1>1. todo[p] \in Seq(OwnTasks(p))
  BY DEF TodoOK
<1>2. Len(todo[p]) \in Nat /\ DOMAIN todo[p] = 1..Len(todo[p])
  BY <1>1, LenProperties
<1>3. \A i \in 1..Len(todo[p]) : todo[p][i] \in OwnTasks(p)
  BY <1>1, ElementOfSeq
<1>4. \A i \in 1..Len(todo[p]) : todo[p][i] \in AllTasks /\ Own(p, todo[p][i])
  BY <1>3 DEF OwnTasks
<1>5. todo[p] # <<>> => Head(todo[p]) = todo[p][1] /\ 1 \in 1..Len(todo[p])
  BY <1>1, <1>2, EmptySeq
<1> QED
  BY <1>2, <1>4, <1>5

\* A read or a query that does anything else has nothing left to save.
LEMMA NothingToSave ==
  ASSUME NEW p \in Processes, TodoOK(p), Works(p), p \notin Runs({"crawl"}),
         todo[p] = <<>> \/ todo[p][1].do # "save"
  PROVE  ToSave(p) = {}
<1>1. SUFFICES ASSUME NEW i \in DOMAIN todo[p], IsSave(p, i) PROVE FALSE
  BY DEF ToSave
<1>2. Len(todo[p]) \in Nat /\ DOMAIN todo[p] = 1..Len(todo[p])
  BY TodoFacts
<1>3. CASE todo[p] = <<>>
  BY <1>1, <1>2, <1>3, EmptySeq
<1>4. CASE todo[p] # <<>>
  <2>1. 1 \in DOMAIN todo[p] /\ (i # 1 => 1 < i)
    BY <1>1, <1>2
  <2>2. i # 1 => IsSave(p, 1)
    BY <1>1, <2>1 DEF TodoOK
  <2> QED
    BY <1>1, <1>4, <2>2 DEF IsSave
<1> QED
  BY <1>3, <1>4

\* The first task is over.
LEMMA TodoTail ==
  ASSUME NEW p \in Processes, TodoOK(p), Works(p), todo[p] # <<>>,
         todo'[p] = Tail(todo[p]), stage'[p] = "next", job' = job
  PROVE  /\ TodoOK(p)' /\ ToSave(p)' \subseteq ToSave(p)
         /\ \A d \in ToSave(p) : d \in ToSave(p)' \/ (todo[p][1].do = "save" /\ d = todo[p][1].doc)
         /\ todo[p][1].do = "save" => todo[p][1].doc \notin ToSave(p)'
<1> DEFINE s == todo[p]  t == todo'[p]  n == Len(s)
<1>1. s \in Seq(OwnTasks(p)) /\ n \in Nat /\ DOMAIN s = 1..n
  BY TodoFacts DEF TodoOK
<1>2. t \in Seq(OwnTasks(p)) /\ Len(t) = n - 1 /\ \A i \in 1..Len(t) : t[i] = s[i + 1]
  BY <1>1, HeadTailProperties
<1>3. DOMAIN t = 1..n - 1 /\ n # 0
  BY <1>1, <1>2, LenProperties, EmptySeq
<1>4. \A i \in DOMAIN t : i + 1 \in DOMAIN s /\ t[i] = s[i + 1] /\ i + 1 # 1 /\ i \in Int
  BY <1>1, <1>2, <1>3
<1>5. \A i \in DOMAIN s : i = 1 \/ (i - 1 \in DOMAIN t /\ t[i - 1] = s[i])
  <2>1. \A i \in DOMAIN s : i = 1 \/ (i - 1 \in DOMAIN t /\ (i - 1) + 1 = i)
    BY <1>1, <1>3
  <2> QED
    BY <1>4, <2>1
<1>6. OwnTasks(p)' = OwnTasks(p) /\ \A kinds : Runs(kinds)' = Runs(kinds)
  BY DEF OwnTasks, Own, Runs
<1>7. \A i, j \in DOMAIN s : s[i].do = "save" /\ s[j].do = "save" /\ s[i].doc = s[j].doc => i = j
  BY DEF TodoOK, IsSave
<1>8. p \notin Runs({"crawl"}) => \A i, j \in DOMAIN s : i < j /\ s[j].do = "save" => s[i].do = "save"
  BY DEF TodoOK, IsSave
<1>9. p \in Runs({"read", "query", "crawl"})
  BY DEF TodoOK
<1>10. ToSave(p) = {s[i].doc : i \in {k \in DOMAIN s : s[k].do = "save"}}
  BY DEF ToSave, IsSave
<1>11. ToSave(p)' = {t[i].doc : i \in {k \in DOMAIN t : t[k].do = "save"}}
  BY DEF ToSave, IsSave
<1>12. /\ \A i \in DOMAIN t : IsSave(p, i)' <=> t[i].do = "save"
       /\ stage'[p] = "next" /\ t \in Seq(OwnTasks(p)')
  BY <1>2, <1>6 DEF IsSave
<1> HIDE DEF s, t, n
<1>13. \A i, j \in DOMAIN t : t[i].do = "save" /\ t[j].do = "save" /\ t[i].doc = t[j].doc => i = j
  <2> SUFFICES ASSUME NEW i \in DOMAIN t, NEW j \in DOMAIN t, t[i].do = "save", t[j].do = "save",
                      t[i].doc = t[j].doc
               PROVE  i = j
    OBVIOUS
  <2>1. i + 1 = j + 1 /\ i \in Int /\ j \in Int
    BY <1>4, <1>7
  <2> QED
    BY <2>1
<1>14. p \notin Runs({"crawl"}) => \A i, j \in DOMAIN t : i < j /\ t[j].do = "save" => t[i].do = "save"
  <2> SUFFICES ASSUME p \notin Runs({"crawl"}), NEW i \in DOMAIN t, NEW j \in DOMAIN t, i < j, t[j].do = "save"
               PROVE  t[i].do = "save"
    OBVIOUS
  <2>1. i + 1 \in DOMAIN s /\ j + 1 \in DOMAIN s /\ i + 1 < j + 1
    BY <1>4
  <2> QED
    BY <1>4, <1>8, <2>1
<1>15. TodoOK(p)'
  <2>1. \A i, j \in DOMAIN t : IsSave(p, i)' /\ IsSave(p, j)' /\ t[i].doc = t[j].doc => i = j
    BY <1>12, <1>13
  <2>2. p \notin Runs({"crawl"}) => \A i, j \in DOMAIN t : i < j /\ IsSave(p, j)' => IsSave(p, i)'
    BY <1>12, <1>14
  <2> QED
    BY <1>6, <1>9, <1>12, <2>1, <2>2 DEF TodoOK, Works, Lists, t
<1>16. ToSave(p)' \subseteq ToSave(p)
  BY <1>4, <1>10, <1>11
<1>17. \A d \in ToSave(p) : d \in ToSave(p)' \/ (s[1].do = "save" /\ d = s[1].doc)
  <2> TAKE d \in ToSave(p)
  <2>1. PICK i \in DOMAIN s : s[i].do = "save" /\ d = s[i].doc
    BY <1>10
  <2> QED
    BY <1>5, <1>11, <2>1
<1>18. s[1].do = "save" => s[1].doc \notin ToSave(p)'
  <2> SUFFICES ASSUME s[1].do = "save", s[1].doc \in ToSave(p)' PROVE FALSE
    OBVIOUS
  <2>1. PICK i \in DOMAIN t : t[i].do = "save" /\ s[1].doc = t[i].doc
    BY <1>11
  <2>2. 1 \in DOMAIN s
    BY <1>1, <1>3
  <2> QED
    BY <1>4, <1>7, <2>1, <2>2
<1> QED
  BY <1>15, <1>16, <1>17, <1>18 DEF s

-----------------------------------------------------------------------------
(* The tasks an operation begins with *)

OtherTasks(p) == {task \in OwnTasks(p) : task.do # "save"}
SavesEach(s) ==
  \A i, j \in DOMAIN s : s[i].do = "save" /\ s[j].do = "save" /\ s[i].doc = s[j].doc => i = j
SavesFirst(s) == \A i, j \in DOMAIN s : i < j /\ s[j].do = "save" => s[i].do = "save"
SavesAll(p, u, s) == \A d \in ArtifactsOf(p, u) : \E i \in DOMAIN s : s[i].do = "save" /\ s[i].doc = d

\* The three artifacts of a page.
LEMMA SavesAre ==
  ASSUME NEW p \in Processes, NEW u \in Pages
  PROVE  /\ Saves(p, u) \in Seq(OwnTasks(p)) /\ Len(Saves(p, u)) = 3
         /\ SavesEach(Saves(p, u)) /\ SavesFirst(Saves(p, u)) /\ SavesAll(p, u, Saves(p, u))
         /\ \A i \in 1..3 : Saves(p, u)[i].do = "save" /\ Saves(p, u)[i].doc = <<Artifacts[i], p, u>>
<1> DEFINE s == Saves(p, u)
<1>1. /\ Len(Artifacts) = 3 /\ Artifacts[1] = "traces" /\ Artifacts[2] = "proofs"
      /\ Artifacts[3] = "fingerprints" /\ 1..3 = {1, 2, 3}
  BY DEF Artifacts
<1>2. /\ s = [i \in 1..3 |-> Task("save", <<Artifacts[i], p, u>>, u, NoPage)] /\ DOMAIN s = 1..3
      /\ \A i \in 1..3 : s[i] = Task("save", <<Artifacts[i], p, u>>, u, NoPage)
  BY <1>1 DEF Saves
<1> HIDE DEF s
<1>3. \A i \in 1..3 : /\ s[i].do = "save" /\ s[i].doc = <<Artifacts[i], p, u>> /\ s[i].page = u
                      /\ s[i] = [do |-> "save", doc |-> <<Artifacts[i], p, u>>, page |-> u, from |-> NoPage]
  BY <1>2 DEF Task
<1>4. \A i \in 1..3 : <<Artifacts[i], p, u>> \in ArtifactsOf(p, u) /\ <<Artifacts[i], p, u>>[1] = Artifacts[i]
  BY <1>1, ArtifactsAre
<1>5. \A i \in 1..3 : s[i] \in OwnTasks(p)
  <2> TAKE i \in 1..3
  <2>1. <<Artifacts[i], p, u>> \in Docs
    BY <1>4, ArtifactsAre
  <2>2. s[i] \in AllTasks
    BY <1>3, <2>1 DEF AllTasks
  <2>3. Own(p, s[i])
    BY <1>3, <1>4 DEF Own
  <2> QED
    BY <2>2, <2>3 DEF OwnTasks
<1>6. s \in Seq(OwnTasks(p)) /\ Len(s) = 3
  <2>1. s \in [1..3 -> OwnTasks(p)] /\ 3 \in Nat
    BY <1>2, <1>5
  <2>2. s \in Seq(OwnTasks(p))
    BY <2>1, SeqDef
  <2> QED
    BY <1>2, <2>2, LenProperties
<1>7. SavesEach(s)
  <2>1. \A i, j \in {1, 2, 3} : Artifacts[i] = Artifacts[j] => i = j
    BY <1>1
  <2> QED
    BY <1>1, <1>2, <1>3, <1>4, <2>1 DEF SavesEach
<1>8. SavesFirst(s)
  BY <1>2, <1>3 DEF SavesFirst
<1>9. SavesAll(p, u, s)
  <2> SUFFICES ASSUME NEW d \in ArtifactsOf(p, u) PROVE \E i \in DOMAIN s : s[i].do = "save" /\ s[i].doc = d
    BY DEF SavesAll
  <2>1. PICK i \in {1, 2, 3} : d = <<Artifacts[i], p, u>>
    BY <1>1, ArtifactsAre
  <2> QED
    BY <1>1, <1>2, <1>3, <2>1
<1> QED
  BY <1>3, <1>6, <1>7, <1>8, <1>9 DEF s

\* Other tasks may follow.
LEMMA SavesThen ==
  ASSUME NEW p \in Processes, NEW a \in Seq(OwnTasks(p)), NEW b \in Seq(OtherTasks(p))
  PROVE  /\ a \o b \in Seq(OwnTasks(p))
         /\ SavesEach(a) => SavesEach(a \o b)
         /\ SavesFirst(a) => SavesFirst(a \o b)
         /\ \A u : SavesAll(p, u, a) => SavesAll(p, u, a \o b)
<1> DEFINE c == a \o b  m == Len(a)  n == Len(b)
<1>1. b \in Seq(OwnTasks(p))
  <2>1. OtherTasks(p) \subseteq OwnTasks(p)
    BY DEF OtherTasks
  <2> QED
    BY <2>1, SeqMonotonic
<1>2. /\ c \in Seq(OwnTasks(p)) /\ Len(c) = m + n /\ \A i \in 1..m : c[i] = a[i]
      /\ \A i \in 1..n : c[m + i] = b[i]
  BY <1>1, ConcatProperties
<1>3. m \in Nat /\ n \in Nat /\ DOMAIN c = 1..m + n /\ DOMAIN a = 1..m
  BY <1>2, LenProperties
<1>4. \A i \in 1..n : b[i].do # "save"
  BY ElementOfSeq DEF OtherTasks
<1> HIDE DEF c, m, n
<1>5. \A i \in 1..m + n : c[i].do = "save" => i \in 1..m
  <2> SUFFICES ASSUME NEW i \in 1..m + n, i \notin 1..m PROVE c[i].do # "save"
    OBVIOUS
  <2>1. i - m \in 1..n /\ m + (i - m) = i
    BY <1>3
  <2>2. c[i] = b[i - m]
    BY <1>2, <2>1
  <2> QED
    BY <1>4, <2>1, <2>2
<1>6. \A i \in 1..m : i \in 1..m + n /\ c[i] = a[i]
  BY <1>2, <1>3
<1>7. SavesEach(a) => SavesEach(c)
  BY <1>3, <1>5, <1>6 DEF SavesEach
<1>8. SavesFirst(a) => SavesFirst(c)
  <2> SUFFICES ASSUME SavesFirst(a), NEW i \in 1..m + n, NEW j \in 1..m + n, i < j, c[j].do = "save"
               PROVE  c[i].do = "save"
    BY <1>3 DEF SavesFirst
  <2>1. j \in 1..m /\ i \in 1..m
    BY <1>3, <1>5
  <2> QED
    BY <1>3, <1>6, <2>1 DEF SavesFirst
<1>9. \A u : SavesAll(p, u, a) => SavesAll(p, u, c)
  BY <1>3, <1>6 DEF SavesAll
<1> QED
  BY <1>2, <1>7, <1>8, <1>9 DEF c

\* What else an operation does with a page.
LEMMA NotesAre ==
  ASSUME NEW p \in Processes, NEW u \in Pages
  PROVE  /\ Note(<<"index">>, u) \in OtherTasks(p) /\ Note(<<"genome", HostOf[u]>>, u) \in OtherTasks(p)
         /\ \A v \in Pages \cup {NoPage} : Task("observe", <<"domains">>, u, v) \in OtherTasks(p)
         /\ p \in Runs({"crawl"}) \/ u = job[p].pages[1] =>
              /\ Note(<<"graph", u>>, u) \in OtherTasks(p)
              /\ Task("memory", <<"traces", p, u>>, u, NoPage) \in OtherTasks(p)
<1> DEFINE i == <<"index">>  g == <<"genome", HostOf[u]>>  h == <<"graph", u>>  t == <<"traces", p, u>>
           m == <<"domains">>
<1>1. i \in Docs /\ i[1] = "index" /\ m \in Docs /\ m[1] = "domains"
  BY DEF Docs
<1>2. g \in Docs /\ g[1] = "genome"
  <2>1. g \in {<<"genome", w>> : w \in Hosts}
    BY DEF Hosts
  <2>2. g[1] = "genome"
    OBVIOUS
  <2> HIDE DEF g
  <2> QED
    BY <2>1, <2>2 DEF Docs
<1>3. h \in Docs /\ h[1] = "graph"
  BY GraphIs
<1>4. t \in Docs
  BY ArtifactsAre
<1>5. h = <<"graph", u>>
  OBVIOUS
<1> HIDE DEF i, g, h, t, m
<1>6. ASSUME NEW do \in {"observe", "memory"}, NEW d \in Docs, NEW from \in Pages \cup {NoPage},
             Own(p, [do |-> do, doc |-> d, page |-> u, from |-> from])
      PROVE  Task(do, d, u, from) \in OtherTasks(p)
  <2>1. [do |-> do, doc |-> d, page |-> u, from |-> from] \in AllTasks
    BY DEF AllTasks
  <2> QED
    BY <1>6, <2>1 DEF OtherTasks, OwnTasks, Task
<1>7. \A d \in {i, g, m}, from \in Pages \cup {NoPage} :
         Own(p, [do |-> "observe", doc |-> d, page |-> u, from |-> from])
  BY <1>1, <1>2 DEF Own
<1>8. p \in Runs({"crawl"}) \/ u = job[p].pages[1] =>
        /\ Own(p, [do |-> "observe", doc |-> h, page |-> u, from |-> NoPage])
        /\ Own(p, [do |-> "memory", doc |-> t, page |-> u, from |-> NoPage])
  BY <1>3, <1>5 DEF Own
<1>9. NoPage \in Pages \cup {NoPage}
  OBVIOUS
<1>10. /\ Task("observe", i, u, NoPage) \in OtherTasks(p) /\ Task("observe", g, u, NoPage) \in OtherTasks(p)
       /\ \A v \in Pages \cup {NoPage} : Task("observe", m, u, v) \in OtherTasks(p)
  BY <1>1, <1>2, <1>6, <1>7, <1>9
<1>11. p \in Runs({"crawl"}) \/ u = job[p].pages[1] =>
         Task("observe", h, u, NoPage) \in OtherTasks(p) /\ Task("memory", t, u, NoPage) \in OtherTasks(p)
  BY <1>3, <1>4, <1>6, <1>8, <1>9
<1> QED
  BY <1>10, <1>11 DEF Note, i, g, h, t, m

\* What follows the saves of a page saves nothing.
LEMMA OtherTasksAre ==
  ASSUME NEW p \in Processes, NEW u \in Pages, p \in Runs({"crawl"}) \/ u = job[p].pages[1]
  PROVE  StoredPage(u) \in Seq(OtherTasks(p)) /\ Genome(u) \in Seq(OtherTasks(p))
         /\ Remember(p, u) \in Seq(OtherTasks(p))
<1> DEFINE a == Note(<<"index">>, u)  b == Note(<<"graph", u>>, u)  c == Note(<<"genome", HostOf[u]>>, u)
           d == Task("memory", <<"traces", p, u>>, u, NoPage)
<1>1. {a, b, c, d} \subseteq OtherTasks(p)
  BY NotesAre
<1>2. StoredPage(u) = <<a, b>> /\ Genome(u) = <<c>> /\ Remember(p, u) = <<d>>
  BY DEF StoredPage, Genome, Remember
<1> HIDE DEF a, b, c, d
<1>3. <<a, b>> \in Seq(OtherTasks(p)) /\ <<c>> \in Seq(OtherTasks(p)) /\ <<d>> \in Seq(OtherTasks(p))
  BY <1>1
<1> QED
  BY <1>2, <1>3

\* A query observes the candidates it was offered.
LEMMA CandidatesAre ==
  ASSUME NEW p \in Processes, NEW j, j.plan \in Seq(Pages), j.seed \in Pages \cup {NoPage}, j.pages[1] \in Pages
  PROVE  Candidates(j) \in Seq(OtherTasks(p))
<1> DEFINE Of(i) == <<Note(<<"index">>, j.plan[i])>> \o Transition(j.seed, j.plan[i])
                    \o Transition(j.pages[1], j.plan[i])
           ss == [i \in 1..Len(j.plan) |-> Of(i)]
<1>0. Len(j.plan) \in Nat /\ \A i \in 1..Len(j.plan) : j.plan[i] \in Pages
  BY LenProperties, ElementOfSeq
<1>1. ASSUME NEW u \in Pages, NEW from \in Pages \cup {NoPage}
      PROVE  Transition(from, u) \in Seq(OtherTasks(p))
  <2> DEFINE t == Task("observe", <<"domains">>, u, from)
  <2>1. t \in OtherTasks(p)
    BY NotesAre
  <2>2. Transition(from, u) = <<>> \/ Transition(from, u) = <<t>>
    BY DEF Transition
  <2> HIDE DEF t
  <2>3. <<>> \in Seq(OtherTasks(p)) /\ <<t>> \in Seq(OtherTasks(p))
    BY <2>1
  <2> QED
    BY <2>2, <2>3
<1>2. \A i \in 1..Len(j.plan) : Of(i) \in Seq(OtherTasks(p))
  <2> TAKE i \in 1..Len(j.plan)
  <2> DEFINE n == Note(<<"index">>, j.plan[i])  a == Transition(j.seed, j.plan[i])
             b == Transition(j.pages[1], j.plan[i])
  <2>1. n \in OtherTasks(p) /\ a \in Seq(OtherTasks(p)) /\ b \in Seq(OtherTasks(p))
    BY <1>0, <1>1, NotesAre
  <2>2. Of(i) = <<n>> \o a \o b
    OBVIOUS
  <2> HIDE DEF Of, n, a, b
  <2>3. <<n>> \in Seq(OtherTasks(p))
    BY <2>1
  <2>4. <<n>> \o a \in Seq(OtherTasks(p))
    BY <2>1, <2>3, ConcatProperties
  <2> QED
    BY <2>1, <2>2, <2>4, ConcatProperties
<1>3. ss \in Seq(Seq(OtherTasks(p)))
  <2> HIDE DEF Of
  <2>1. ss \in [1..Len(j.plan) -> Seq(OtherTasks(p))]
    BY <1>2
  <2> QED
    BY <1>0, <2>1, SeqDef
<1>4. Candidates(j) = FlattenSeq(ss)
  BY DEF Candidates
<1> HIDE DEF ss
<1> QED
  BY <1>3, <1>4, FlattenPlaces

\* What a read or a query begins with.
TasksOK(p, s) ==
  /\ s \in Seq(OwnTasks(p)) /\ SavesEach(s)
  /\ p \in Runs({"read", "query"}) => SavesFirst(s) /\ SavesAll(p, job[p].pages[1], s)

\* The saves of the page come first, the other tasks follow.
LEMMA SavesAndMore ==
  ASSUME NEW p \in Processes, NEW u \in Pages, NEW a, NEW r \in Seq(OtherTasks(p)),
         a \in Seq(OwnTasks(p)) /\ SavesEach(a) /\ SavesFirst(a) /\ SavesAll(p, u, a)
  PROVE  /\ a \o r \in Seq(OwnTasks(p)) /\ SavesEach(a \o r) /\ SavesFirst(a \o r)
         /\ SavesAll(p, u, a \o r)
BY SavesThen

\* A read and a query save the artifacts of their page, and then go on.
LEMMA ReadTasks ==
  ASSUME NEW p \in Processes, job \in Jobs, job[p].kind \in {"read", "query"}
  PROVE  TasksOK(p, Tasks(p, job[p]))
<1> DEFINE u == job[p].pages[1]  plan == Candidates(job[p])
           Good(s) == s \in Seq(OwnTasks(p)) /\ SavesEach(s) /\ SavesFirst(s) /\ SavesAll(p, u, s)
<1>1. OfPages(job[p]) /\ (job[p].kind = "query" => /\ job[p].plan \in Seq(Pages)
                                                 /\ job[p].seed \in Pages \cup {NoPage})
  BY StoresConstants
<1>2. Len(job[p].pages) \in Nat /\ Len(job[p].pages) # 0
  BY <1>1, LenProperties, EmptySeq DEF OfPages
<1>3. u \in Pages
  BY <1>1, <1>2, ElementOfSeq DEF OfPages
<1>4. /\ StoredPage(u) \in Seq(OtherTasks(p)) /\ Genome(u) \in Seq(OtherTasks(p))
      /\ Remember(p, u) \in Seq(OtherTasks(p))
  BY <1>3, OtherTasksAre
<1>5. job[p].kind = "query" => plan \in Seq(OtherTasks(p))
  BY <1>1, <1>3, CandidatesAre
<1>6. Tasks(p, job[p]) =
        IF job[p].kind = "read" THEN Saves(p, u) \o StoredPage(u) \o Genome(u) \o Remember(p, u)
        ELSE Saves(p, u) \o StoredPage(u) \o plan \o Genome(u) \o Remember(p, u)
  BY DEF Tasks
<1>7. Good(Saves(p, u))
  BY <1>3, SavesAre
<1>8. \A a, r : Good(a) /\ r \in Seq(OtherTasks(p)) => Good(a \o r)
  BY <1>3, SavesAndMore
<1> HIDE DEF u, plan, Good
<1>9. Good(Saves(p, u) \o StoredPage(u))
  BY <1>4, <1>7, <1>8
<1>10. Good(Saves(p, u) \o StoredPage(u) \o Genome(u))
  BY <1>4, <1>8, <1>9
<1>11. Good(Saves(p, u) \o StoredPage(u) \o Genome(u) \o Remember(p, u))
  BY <1>4, <1>8, <1>10
<1>12. job[p].kind = "query" => Good(Saves(p, u) \o StoredPage(u) \o plan)
  BY <1>5, <1>8, <1>9
<1>13. job[p].kind = "query" => Good(Saves(p, u) \o StoredPage(u) \o plan \o Genome(u))
  BY <1>4, <1>8, <1>12
<1>14. job[p].kind = "query" => Good(Saves(p, u) \o StoredPage(u) \o plan \o Genome(u) \o Remember(p, u))
  BY <1>4, <1>8, <1>13
<1>15. Good(Tasks(p, job[p]))
  BY <1>6, <1>11, <1>14
<1> QED
  BY <1>15 DEF TasksOK, Good, u

\* Three saves, and no other.
LEMMA SavesOnly ==
  ASSUME NEW p \in Processes, NEW a \in Seq(OwnTasks(p)), NEW r \in Seq(OtherTasks(p))
  PROVE  /\ a \o r \in Seq(OwnTasks(p))
         /\ \A k \in 1..Len(a \o r) : (a \o r)[k].do = "save" => k \in 1..Len(a) /\ (a \o r)[k] = a[k]
<1> DEFINE c == a \o r  n == Len(r)  m == Len(a)
<1>1. r \in Seq(OwnTasks(p))
  <2>1. OtherTasks(p) \subseteq OwnTasks(p)
    BY DEF OtherTasks
  <2> QED
    BY <2>1, SeqMonotonic
<1>2. /\ c \in Seq(OwnTasks(p)) /\ Len(c) = m + n /\ \A i \in 1..m : c[i] = a[i]
      /\ \A i \in 1..n : c[m + i] = r[i]
  BY <1>1, ConcatProperties
<1>3. n \in Nat /\ m \in Nat
  BY LenProperties
<1>4. \A i \in 1..n : r[i].do # "save"
  BY ElementOfSeq DEF OtherTasks
<1> HIDE DEF c, n, m
<1>5. ASSUME NEW k \in 1..Len(c), k \notin 1..m
      PROVE  c[k].do # "save"
  <2>1. k - m \in 1..n /\ m + (k - m) = k
    BY <1>2, <1>3, <1>5
  <2>2. c[k] = r[k - m]
    BY <1>2, <2>1
  <2> QED
    BY <1>4, <2>1, <2>2
<1> QED
  BY <1>2, <1>5 DEF c, m

\* A crawl saves the artifacts of each of its pages, no page twice.
LEMMA CrawlTasks ==
  ASSUME NEW p \in Processes, job \in Jobs, job[p].kind = "crawl"
  PROVE  TasksOK(p, Tasks(p, job[p]))
<1> DEFINE s == job[p].pages  n == Len(s)
           A(v) == Saves(p, v) \o Remember(p, v)
           B(v) == StoredPage(v) \o Genome(v)
           as == [i \in 1..n |-> A(s[i])]
           bs == [i \in 1..n |-> B(s[i])]
<1>1. s \in Seq(Pages) /\ IsInjective(s) /\ p \in Runs({"crawl"}) /\ p \notin Runs({"read", "query"})
  BY StoresConstants DEF OfPages, Runs
<1>2. n \in Nat /\ DOMAIN s = 1..n /\ \A i \in 1..n : s[i] \in Pages
  BY <1>1, LenProperties, ElementOfSeq
<1>3. Tasks(p, job[p]) = FlattenSeq(as) \o FlattenSeq(bs)
  BY DEF Tasks
<1>4. ASSUME NEW v \in Pages
      PROVE  /\ A(v) \in Seq(OwnTasks(p)) /\ B(v) \in Seq(OtherTasks(p))
             /\ \A k \in 1..Len(A(v)) : A(v)[k].do = "save" =>
                  k \in 1..3 /\ A(v)[k].doc = <<Artifacts[k], p, v>>
  <2> DEFINE a == Saves(p, v)  r == Remember(p, v)  t == StoredPage(v)  g == Genome(v)
  <2>1. /\ a \in Seq(OwnTasks(p)) /\ Len(a) = 3
        /\ \A i \in 1..3 : a[i].do = "save" /\ a[i].doc = <<Artifacts[i], p, v>>
    BY SavesAre
  <2>2. r \in Seq(OtherTasks(p)) /\ t \in Seq(OtherTasks(p)) /\ g \in Seq(OtherTasks(p))
    BY <1>1, OtherTasksAre
  <2>3. A(v) = a \o r /\ B(v) = t \o g
    OBVIOUS
  <2> HIDE DEF a, r, t, g, A, B
  <2>4. t \o g \in Seq(OtherTasks(p))
    BY <2>2, ConcatProperties
  <2>5. /\ a \o r \in Seq(OwnTasks(p))
        /\ \A k \in 1..Len(a \o r) : (a \o r)[k].do = "save" => k \in 1..Len(a) /\ (a \o r)[k] = a[k]
    BY <2>1, <2>2, SavesOnly
  <2>6. \A k \in 1..Len(a \o r) : (a \o r)[k].do = "save" =>
          k \in 1..3 /\ (a \o r)[k].doc = <<Artifacts[k], p, v>>
    <3> DEFINE c == a \o r
    <3> HIDE DEF c
    <3>1. \A k \in 1..Len(c) : c[k].do = "save" => k \in 1..3 /\ c[k] = a[k]
      BY <2>1, <2>5 DEF c
    <3>2. \A k \in 1..Len(c) : c[k].do = "save" => k \in 1..3 /\ c[k].doc = <<Artifacts[k], p, v>>
      BY <2>1, <3>1
    <3> QED
      BY <3>2 DEF c
  <2> QED
    BY <2>3, <2>4, <2>5, <2>6
<1> HIDE DEF A, B, s
<1>5. as \in Seq(Seq(OwnTasks(p))) /\ bs \in Seq(Seq(OtherTasks(p))) /\ Len(as) = n
  <2>0. \A i \in 1..n : A(s[i]) \in Seq(OwnTasks(p)) /\ B(s[i]) \in Seq(OtherTasks(p))
    BY <1>2, <1>4
  <2>1. as \in [1..n -> Seq(OwnTasks(p))] /\ bs \in [1..n -> Seq(OtherTasks(p))]
    <3> HIDE DEF n
    <3>1. as \in [1..n -> Seq(OwnTasks(p))]
      BY <2>0
    <3>2. bs \in [1..n -> Seq(OtherTasks(p))]
      BY <2>0
    <3> QED
      BY <3>1, <3>2
  <2>2. as \in Seq(Seq(OwnTasks(p))) /\ bs \in Seq(Seq(OtherTasks(p)))
    <3> HIDE DEF n, as, bs
    <3>0. n \in Nat /\ as \in [1..n -> Seq(OwnTasks(p))] /\ bs \in [1..n -> Seq(OtherTasks(p))]
      BY <1>2, <2>1
    <3>1. as \in Seq(Seq(OwnTasks(p)))
      BY <3>0, IsASequence
    <3>2. bs \in Seq(Seq(OtherTasks(p)))
      BY <3>0, IsASequence
    <3> QED
      BY <3>1, <3>2
  <2> QED
    BY <1>2, <2>2, LenProperties
<1>6. \A i \in 1..n : as[i] = A(s[i])
  OBVIOUS
<1> HIDE DEF as, bs, n
<1> DEFINE fa == FlattenSeq(as)  fb == FlattenSeq(bs)
<1>7. fa \in Seq(OwnTasks(p)) /\ fb \in Seq(OtherTasks(p)) /\ \E pos : PlacesOf(as, n, fa, pos)
  BY <1>5, FlattenPlaces
<1> HIDE DEF fa, fb
<1>8. SavesEach(fa)
  <2>1. PICK pos : PlacesOf(as, n, fa, pos)
    BY <1>7
  <2>2. /\ pos \in [1..Len(fa) -> Nat \X Nat] /\ IsInjective(pos)
        /\ \A k \in 1..Len(fa) : /\ pos[k][1] \in 1..n /\ pos[k][2] \in 1..Len(as[pos[k][1]])
                                /\ fa[k] = as[pos[k][1]][pos[k][2]]
    BY <2>1 DEF PlacesOf
  <2>3. DOMAIN fa = 1..Len(fa)
    BY <1>7, LenProperties
  <2>4. ASSUME NEW k \in 1..Len(fa), fa[k].do = "save"
        PROVE  pos[k][2] \in 1..3 /\ fa[k].doc = <<Artifacts[pos[k][2]], p, s[pos[k][1]]>>
               /\ pos[k] = <<pos[k][1], pos[k][2]>> /\ pos[k][1] \in 1..n
    <3> DEFINE i == pos[k][1]  l == pos[k][2]
    <3>0. pos[k] = <<i, l>>
      BY <2>2
    <3>1. i \in 1..n /\ l \in 1..Len(A(s[i])) /\ fa[k] = A(s[i])[l] /\ s[i] \in Pages
      <4>1. i \in 1..n /\ l \in 1..Len(as[i]) /\ fa[k] = as[i][l]
        BY <2>2
      <4> HIDE DEF i, l
      <4> QED
        BY <1>2, <1>6, <4>1
    <3> HIDE DEF i, l
    <3>2. l \in 1..3 /\ A(s[i])[l].doc = <<Artifacts[l], p, s[i]>>
      BY <1>4, <2>4, <3>1
    <3> QED
      BY <3>0, <3>1, <3>2 DEF i, l
  <2>5. \A i, j \in 1..3 : Artifacts[i] = Artifacts[j] => i = j
    <3>1. 1..3 = {1, 2, 3}
      OBVIOUS
    <3> QED
      BY <3>1 DEF Artifacts
  <2>6. \A i, j \in 1..n : s[i] = s[j] => i = j
    BY <1>1, <1>2 DEF IsInjective
  <2>7. ASSUME NEW k \in 1..Len(fa), NEW l \in 1..Len(fa), fa[k].do = "save", fa[l].do = "save",
               fa[k].doc = fa[l].doc
        PROVE  k = l
    <3>1. /\ fa[k].doc = <<Artifacts[pos[k][2]], p, s[pos[k][1]]>> /\ pos[k][2] \in 1..3
          /\ fa[l].doc = <<Artifacts[pos[l][2]], p, s[pos[l][1]]>> /\ pos[l][2] \in 1..3
          /\ pos[k][1] \in 1..n /\ pos[l][1] \in 1..n
          /\ pos[k] = <<pos[k][1], pos[k][2]>> /\ pos[l] = <<pos[l][1], pos[l][2]>>
      BY <2>4, <2>7
    <3>2. Artifacts[pos[k][2]] = Artifacts[pos[l][2]] /\ s[pos[k][1]] = s[pos[l][1]]
      <4>1. \A x, y, v, w : <<x, p, v>> = <<y, p, w>> => x = y /\ v = w
        OBVIOUS
      <4> DEFINE x == Artifacts[pos[k][2]]  y == Artifacts[pos[l][2]]
                 v == s[pos[k][1]]  w == s[pos[l][1]]
      <4>2. <<x, p, v>> = <<y, p, w>>
        BY <2>7, <3>1
      <4> HIDE DEF x, y, v, w
      <4>3. x = y /\ v = w
        BY <4>1, <4>2
      <4> QED
        BY <4>3 DEF x, y, v, w
    <3>3. pos[k][2] = pos[l][2] /\ pos[k][1] = pos[l][1]
      BY <2>5, <2>6, <3>1, <3>2
    <3>4. pos[k] = pos[l]
      BY <3>1, <3>3
    <3> QED
      BY <2>2, <3>4 DEF IsInjective
  <2> QED
    BY <2>3, <2>7 DEF SavesEach
<1>9. fa \o fb \in Seq(OwnTasks(p)) /\ SavesEach(fa \o fb)
  BY <1>7, <1>8, SavesThen
<1> QED
  BY <1>1, <1>3, <1>9 DEF TasksOK, fa, fb

-----------------------------------------------------------------------------
(* Steps of an operation that stores what it has read *)

\* Nobody else writes an artifact, and it is written as long as it is to be
\* saved.
LEMMA Opener ==
  ASSUME NEW p \in Processes, TodoOK(p), Works(p), todo[p] # <<>>, todo[p][1].do # "memory",
         NEW q \in Processes, NEW u \in Pages, todo[p][1].doc \in ArtifactsOf(q, u)
  PROVE  q = p /\ todo[p][1].do = "save" /\ todo[p][1].doc \in ToSave(p)
<1> DEFINE t == todo[p][1]
<1>1. t \in AllTasks /\ Own(p, t) /\ 1 \in DOMAIN todo[p]
  BY TodoFacts
<1>2. t.doc[1] \in {"traces", "proofs", "fingerprints"} /\ t.doc[2] = q /\ t.page \in Pages
  BY <1>1, ArtifactsAre DEF AllTasks
<1>3. t.do = "save" /\ t.doc \in ArtifactsOf(p, t.page)
  BY <1>1, <1>2 DEF Own
<1>4. t.doc[2] = p
  BY <1>2, <1>3, ArtifactsAre
<1> QED
  BY <1>1, <1>2, <1>3, <1>4 DEF ToSave, IsSave

\* The frame of a step of process p, all in one.
LEMMA StepInd ==
  ASSUME StoresInd, NEW p \in Processes, UNCHANGED <<job, removed>>, KeepsAll, StoresTypeOK',
         \A q \in Processes \ {p} :
            /\ stage'[q] = stage[q] /\ todo'[q] = todo[q] /\ got'[q] = got[q]
            /\ linked'[q] = linked[q] /\ result'[q] = result[q],
         \A q \in Processes \ {p}, u \in Pages : \A d \in ArtifactsOf(q, u) : disk'[d] = disk[d],
         TodoOK(p)', \A u \in Pages : \A d \in ArtifactsOf(p, u) : SavesOK(p, d)',
         \A u \in Pages : disk'[<<"graph", u>>] = disk[<<"graph", u>>] \/ IsHistory(disk[<<"graph", u>>].val)',
         memory' \subseteq Processes \X Pages, \A t \in memory' \ memory : TraceKept(t)',
         GotOK(p)',
         \/ result'[p] \in {result[p], "none", "error", "notfound"}
         \/ result'[p] = "ok" /\ (p \in Runs({"read", "query"}) =>
                                    \A d \in ArtifactsOf(p, job[p].pages[1]) : Kept(d)')
         \/ result'[p] = "found" /\ Kept(job[p].target)'
  PROVE  StoresInd'
<1>1. TodoInv' /\ SavesInv'
  BY StoresFrame
<1>2. HistoryInv'
  BY HistoryFrame
<1>3. DeliveredInv' /\ FoundInv'
  BY AnswersFrame
<1> QED
  BY <1>1, <1>2, <1>3, StoresParts, PTL

\* What is kept while the disk stays as it is.
LEMMA DiskSame ==
  ASSUME UNCHANGED <<disk, removed>>
  PROVE  KeepsAll
BY DEF KeepsAll, Kept

\* A process that has stopped, or that only lists documents, owes nothing.
LEMMA OwesNothing ==
  ASSUME NEW p \in Processes, stage'[p] \in {"list", "scan", "over", "dead"}
  PROVE  GotOK(p)' /\ \A d : SavesOK(p, d)'
BY DEF GotOK, SavesOK, Works

LEMMA StoppedOK ==
  ASSUME NEW p \in Processes, stage'[p] \in {"over", "dead"}
  PROVE  TodoOK(p)' /\ GotOK(p)' /\ \A d : SavesOK(p, d)'
BY OwesNothing DEF TodoOK, Works, Lists

\* The saves of a process whose first task is over.
LEMMA TaskOverSaves ==
  ASSUME NEW p \in Processes, TodoOK(p), Works(p), todo[p] # <<>>, UNCHANGED <<job, removed>>, KeepsAll,
         todo'[p] = Tail(todo[p]), stage'[p] = "next",
         NEW u \in Pages, NEW d \in ArtifactsOf(p, u), SavesOK(p, d),
         disk'[d] = disk[d] \/ (d = todo[p][1].doc /\ todo[p][1].do = "save"),
         d = todo[p][1].doc /\ todo[p][1].do = "save" => p \in Runs({"crawl"}) \/ Kept(d)'
  PROVE  SavesOK(p, d)'
<1>1. /\ ToSave(p)' \subseteq ToSave(p)
      /\ d \in ToSave(p) => d \in ToSave(p)' \/ (todo[p][1].do = "save" /\ d = todo[p][1].doc)
      /\ todo[p][1].do = "save" => todo[p][1].doc \notin ToSave(p)'
  BY TodoTail
<1>2. disk'[d].st = "whole" => d \notin ToSave(p)'
  BY <1>1 DEF SavesOK
<1>3. p \in Runs({"read", "query"}) => p \notin Runs({"crawl"})
  BY DEF Runs
<1>4. ASSUME p \in Runs({"read", "query"}), d[3] = job[p].pages[1]
      PROVE  d \in ToSave(p)' \/ Kept(d)'
  <2>1. d \in ToSave(p) \/ Kept(d)
    BY <1>4 DEF SavesOK
  <2>2. Kept(d) => Kept(d)'
    BY DEF KeepsAll
  <2> QED
    BY <1>1, <1>3, <1>4, <2>1, <2>2
<1>5. Runs({"read", "query"})' = Runs({"read", "query"}) /\ job' = job
  BY DEF Runs
<1> QED
  BY <1>2, <1>4, <1>5 DEF SavesOK

\* An observation is loaded, or dropped when the document does not decode.
LEMMA LoadStep ==
  ASSUME StoresInd, NEW p \in Processes, Load(p)
  PROVE  StoresInd'
<1>0. StoresTypeOK /\ TodoOK(p) /\ SavesInv /\ HistoryInv
  BY StoresParts DEF TodoInv
<1>1. /\ stage[p] = "next" /\ todo[p] # <<>> /\ Works(p) /\ UNCHANGED <<disk, job, scan, memory, removed, faults>>
      /\ Head(todo[p]) = todo[p][1] /\ Head(todo[p]).do = "observe"
  BY <1>0, TodoFacts DEF Load, Now, Works
<1>2. KeepsAll
  BY <1>1, DiskSame
<1>3. CASE Decodes(todo[p][1].doc)
  <2>1. /\ got' = [got EXCEPT ![p] = disk[todo[p][1].doc].val] /\ stage' = [stage EXCEPT ![p] = "loaded"]
        /\ UNCHANGED <<todo, linked, result>>
    BY <1>1, <1>3 DEF Load
  <2>2. /\ stage'[p] = "loaded" /\ todo'[p] = todo[p] /\ got'[p] = disk[todo[p][1].doc].val
        /\ \A q \in Processes \ {p} : stage'[q] = stage[q] /\ got'[q] = got[q]
    BY <1>0, <2>1 DEF StoresTypeOK
  <2>3. StoresTypeOK'
    BY <1>0, <1>1, <2>1 DEF StoresTypeOK, Stages
  <2>4. TodoOK(p)'
    <3>1. OwnTasks(p)' = OwnTasks(p)
      BY <1>1 DEF OwnTasks, Own, Runs
    <3> QED
      BY <1>0, <1>1, <2>2, <3>1 DEF TodoOK, Works, Lists, Runs, IsSave
  <2>5. \A u \in Pages : \A d \in ArtifactsOf(p, u) : SavesOK(p, d)'
    <3> SUFFICES ASSUME NEW u \in Pages, NEW d \in ArtifactsOf(p, u) PROVE SavesOK(p, d)'
      OBVIOUS
    <3>1. SavesOK(p, d)
      BY <1>0 DEF SavesInv
    <3> QED
      BY <1>1, <2>1, <2>2, <3>1 DEF SavesOK, ToSave, IsSave, Works, Runs, Kept
  <2>6. GotOK(p)'
    <3> SUFFICES ASSUME todo[p][1].doc[1] = "graph" PROVE IsHistory(got[p])'
      BY <2>2 DEF GotOK
    <3>1. todo[p][1] \in AllTasks /\ Own(p, todo[p][1])
      BY <1>0, <1>1, TodoFacts
    <3>2. todo[p][1].doc = <<"graph", todo[p][1].page>> /\ todo[p][1].page \in Pages
      BY <1>1, <3>1 DEF Own, AllTasks
    <3>3. IsHistory(disk[todo[p][1].doc].val)
      BY <1>0, <3>2 DEF HistoryInv
    <3>4. \A v : v = disk[todo[p][1].doc].val => IsHistory(v)'
      BY <1>1, <1>2, <3>3, HistoryStable
    <3> QED
      BY <2>2, <3>4
  <2> QED
    BY <1>0, <1>1, <1>2, <2>1, <2>2, <2>3, <2>4, <2>5, <2>6, StepInd DEF HistoryInv
<1>4. CASE ~Decodes(todo[p][1].doc)
  <2>1. TaskFails(p)
    BY <1>1, <1>4 DEF Load
  <2>2. TaskOver(p)
    BY <1>1, <2>1 DEF TaskFails
  <2>3. /\ stage'[p] = "next" /\ todo'[p] = Tail(todo[p]) /\ result' = result /\ stage' = [stage EXCEPT ![p] = "next"]
        /\ \A q \in Processes \ {p} : /\ stage'[q] = stage[q] /\ got'[q] = got[q] /\ todo'[q] = todo[q]
                                      /\ linked'[q] = linked[q]
    BY <1>0, <2>2 DEF StoresTypeOK, TaskOver
  <2>4. StoresTypeOK'
    BY <1>0, <1>1, <2>2 DEF StoresTypeOK, Stages, TaskOver
  <2>5. TodoOK(p)'
    BY <1>0, <1>1, <2>3, TodoTail
  <2>6. \A u \in Pages : \A d \in ArtifactsOf(p, u) : SavesOK(p, d)'
    BY <1>0, <1>1, <1>2, <2>3, TaskOverSaves DEF SavesInv
  <2>7. GotOK(p)'
    BY <2>3 DEF GotOK
  <2> QED
    BY <1>0, <1>1, <1>2, <2>3, <2>4, <2>5, <2>6, <2>7, StepInd DEF HistoryInv
<1> QED
  BY <1>3, <1>4

\* A write touches one document; an artifact stays kept while it is touched
\* only as long as it is to be saved.
LEMMA WriteKeeps ==
  ASSUME StoresInd, NEW p \in Processes, Works(p), todo[p] # <<>>, todo[p][1].do # "memory",
         UNCHANGED <<job, removed>>, \A d \in Docs \ {todo[p][1].doc} : disk'[d] = disk[d]
  PROVE  /\ KeepsAll
         /\ \A q \in Processes \ {p}, u \in Pages : \A d \in ArtifactsOf(q, u) : disk'[d] = disk[d]
<1>0. TodoOK(p) /\ SavesInv
  BY StoresParts DEF TodoInv
<1>1. ASSUME NEW q \in Processes, NEW u \in Pages, NEW d \in ArtifactsOf(q, u), Kept(d) PROVE Kept(d)'
  <2>1. CASE d # todo[p][1].doc
    <3>1. d \in Docs
      BY ArtifactsAre
    <3> QED
      BY <1>1, <2>1, <3>1 DEF Kept
  <2>2. CASE d = todo[p][1].doc
    <3>1. q = p /\ d \in ToSave(p)
      BY <1>0, <2>2, Opener
    <3>2. SavesOK(p, d)
      BY <1>0, <3>1 DEF SavesInv
    <3>3. disk[d].st # "whole"
      BY <3>1, <3>2 DEF SavesOK
    <3> QED
      BY <1>1, <3>3 DEF Kept
  <2> QED
    BY <2>1, <2>2
<1>2. ASSUME NEW q \in Processes \ {p}, NEW u \in Pages, NEW d \in ArtifactsOf(q, u) PROVE disk'[d] = disk[d]
  <2>1. d # todo[p][1].doc
    BY <1>0, Opener
  <2>2. d \in Docs
    BY ArtifactsAre
  <2> QED
    BY <2>1, <2>2
<1> QED
  BY <1>1, <1>2 DEF KeepsAll

\* An empty history is one.
LEMMA EmptyHistory == IsHistory(<<>>)
<1>1. <<>> \in Seq([previous : (Processes \X Pages) \cup {<<>>}, current : Processes \X Pages])
  BY EmptySeq
<1>2. \A i \in DOMAIN <<>> : FALSE
  OBVIOUS
<1> QED
  BY <1>1, <1>2 DEF IsHistory

\* The file is truncated: only one that is still to be saved, or a shared one.
LEMMA OpenStep ==
  ASSUME StoresInd, NEW p \in Processes, Open(p)
  PROVE  StoresInd'
<1> DEFINE t == todo[p][1]  d == t.doc
<1>0. StoresTypeOK /\ TodoOK(p) /\ SavesInv /\ HistoryInv
  BY StoresParts DEF TodoInv
<1>1. /\ Works(p) /\ todo[p] # <<>> /\ stage[p] \in {"next", "loaded"}
      /\ stage[p] = "next" => Now(p, "save")
  BY <1>0 DEF Open, Now, Works, TodoOK
<1>2. Head(todo[p]) = t /\ t \in AllTasks /\ Own(p, t) /\ d \in Docs
  BY <1>0, <1>1, TodoFacts DEF AllTasks
<1>3. t.do \in {"save", "observe"}
  BY <1>0, <1>1, <1>2 DEF Now, TodoOK
<1>4. /\ disk' = [disk EXCEPT ![d] = Undecodable("empty", d)]
      /\ stage' = [stage EXCEPT ![p] = "open"] /\ linked' = [linked EXCEPT ![p] = TRUE]
      /\ UNCHANGED <<job, todo, got, scan, result, memory, removed, faults>>
  BY <1>2 DEF Open
<1> HIDE DEF d, t
<1>5. /\ disk'[d].st = "empty" /\ disk'[d].val = Blank(d) /\ \A e \in Docs \ {d} : disk'[e] = disk[e]
      /\ stage'[p] = "open" /\ linked'[p] = TRUE
      /\ \A q \in Processes \ {p} : stage'[q] = stage[q] /\ linked'[q] = linked[q]
  BY <1>0, <1>2, <1>4 DEF StoresTypeOK, Undecodable
<1>6. KeepsAll /\ \A q \in Processes \ {p}, u \in Pages : \A e \in ArtifactsOf(q, u) : disk'[e] = disk[e]
  BY <1>1, <1>3, <1>4, <1>5, WriteKeeps DEF d, t
<1>7. StoresTypeOK'
  <2>1. DOMAIN disk' = Docs /\ \A e \in Docs : disk'[e].st \in {"absent", "empty", "broken", "whole"}
    BY <1>0, <1>4, <1>5 DEF StoresTypeOK
  <2> QED
    BY <1>0, <1>1, <1>4, <2>1 DEF StoresTypeOK, Stages
<1>8. TodoOK(p)'
  <2>1. OwnTasks(p)' = OwnTasks(p)
    BY <1>4 DEF OwnTasks, Own, Runs
  <2>2. todo'[p][1].do # "memory" /\ todo'[p] = todo[p] /\ todo[p] # <<>>
    BY <1>1, <1>3, <1>4 DEF t
  <2> QED
    BY <1>0, <1>1, <1>4, <1>5, <2>1, <2>2 DEF TodoOK, Works, Lists, Runs, IsSave
<1>9. ASSUME NEW u \in Pages, NEW e \in ArtifactsOf(p, u) PROVE SavesOK(p, e)'
  <2>1. SavesOK(p, e) /\ e \in Docs
    BY <1>0, ArtifactsAre DEF SavesInv
  <2>2. ToSave(p)' = ToSave(p) /\ Runs({"read", "query"})' = Runs({"read", "query"})
    BY <1>4 DEF ToSave, IsSave, Runs
  <2>3. Kept(e) => Kept(e)'
    BY <1>6 DEF KeepsAll
  <2>4. todo'[p][1].doc = d
    BY <1>4 DEF d, t
  <2>5. disk'[e].st = "whole" => stage'[p] # "new" /\ (Works(p)' => e \notin ToSave(p)')
    BY <1>1, <1>5, <2>1, <2>2 DEF SavesOK
  <2>6. stage'[p] = "open" /\ d = e => IF linked'[p] THEN disk'[e].st = "empty" ELSE e \in removed'
    BY <1>5
  <2>7. Works(p)' /\ p \in Runs({"read", "query"})' /\ e[3] = job'[p].pages[1] => e \in ToSave(p)' \/ Kept(e)'
    BY <1>1, <1>4, <2>1, <2>2, <2>3 DEF SavesOK
  <2> QED
    BY <2>4, <2>5, <2>6, <2>7 DEF SavesOK
<1>10. ASSUME NEW u \in Pages
       PROVE  disk'[<<"graph", u>>] = disk[<<"graph", u>>] \/ IsHistory(disk[<<"graph", u>>].val)'
  <2>1. CASE d # <<"graph", u>>
    BY <1>5, <2>1, GraphIs
  <2>2. CASE d = <<"graph", u>>
    <3>1. disk'[<<"graph", u>>].val = <<>>
      BY <1>5, <2>2, GraphIs
    <3>2. \A v : v = <<>> => IsHistory(v)'
      BY <1>4, <1>6, EmptyHistory, HistoryStable
    <3> QED
      BY <3>1, <3>2
  <2> QED
    BY <2>1, <2>2
<1>11. GotOK(p)'
  <2> SUFFICES ASSUME d[1] = "graph" PROVE IsHistory(got[p])'
    BY <1>4 DEF GotOK, d, t
  <2>1. stage[p] = "loaded"
    <3>1. t.do = "save" => t.doc[1] # "graph"
      BY <1>2, ArtifactsAre DEF Own, AllTasks
    <3> QED
      BY <1>1, <1>2, <3>1 DEF Now, d
  <2>2. IsHistory(got[p])
    BY <1>0, <2>1 DEF HistoryInv, GotOK, d, t
  <2>3. \A v : v = got[p] => IsHistory(v)'
    BY <1>4, <1>6, <2>2, HistoryStable
  <2> QED
    BY <1>4, <2>3
<1> QED
  BY <1>0, <1>4, <1>5, <1>6, <1>7, <1>8, <1>9, <1>10, <1>11, StepInd DEF HistoryInv

\* A task of a process that has a document open.
LEMMA TaskIs ==
  ASSUME NEW p \in Processes, StoresTypeOK, TodoOK(p), Works(p), todo[p] # <<>>, todo[p][1].do # "memory"
  PROVE  /\ Head(todo[p]) = todo[p][1] /\ todo[p][1] \in AllTasks /\ Own(p, todo[p][1])
         /\ todo[p][1].doc \in Docs /\ todo[p][1].do \in {"save", "observe"}
         /\ todo[p][1].do = "save" => \E u \in Pages : todo[p][1].doc \in ArtifactsOf(p, u)
         /\ todo[p][1].doc[1] = "graph" =>
              todo[p][1].do = "observe" /\ todo[p][1].doc = <<"graph", todo[p][1].page>>
<1> DEFINE t == todo[p][1]
<1>1. Head(todo[p]) = t /\ t \in AllTasks /\ Own(p, t)
  BY TodoFacts
<1>2. t.doc \in Docs /\ t.do \in {"save", "observe"} /\ t.page \in Pages
  BY <1>1 DEF AllTasks
<1>3. t.do = "save" => t.doc \in ArtifactsOf(p, t.page) /\ t.doc[1] # "graph"
  BY <1>1, <1>2, ArtifactsAre DEF Own
<1>4. t.doc[1] = "graph" => t.do = "observe" /\ t.doc = <<"graph", t.page>>
  BY <1>1, <1>2, <1>3 DEF Own
<1> QED
  BY <1>1, <1>2, <1>3, <1>4

\* The history of a page continued by the run that has just been stored.
LEMMA HistoryGrows ==
  ASSUME NEW v, IsHistory(v), NEW t \in Processes \X Pages, TraceKept(t)
  PROVE  IsHistory(Append(v, [previous |-> Latest(v), current |-> t]))
<1> DEFINE Runned == (Processes \X Pages) \cup {<<>>}
           Deltas == [previous : Runned, current : Processes \X Pages]
           n == Len(v)
<1>1. v \in Seq(Deltas)
  BY DEF IsHistory
<1> HIDE DEF Deltas
<1>2. n \in Nat /\ DOMAIN v = 1..n /\ (v = <<>> <=> n = 0)
  BY <1>1, LenProperties, EmptySeq
<1>3. \A i \in 1..n : v[i] \in Deltas
  BY <1>1, ElementOfSeq
<1>4. Latest(v) = IF n = 0 THEN <<>> ELSE v[n].current
  BY <1>2 DEF Latest, Last
<1>5. Latest(v) \in Runned
  <2>1. CASE n = 0
    BY <1>4, <2>1
  <2>2. CASE n # 0
    <3>1. v[n] \in Deltas
      BY <1>2, <1>3, <2>2
    <3>2. v[n].current \in Processes \X Pages
      BY <3>1 DEF Deltas
    <3> QED
      BY <1>4, <2>2, <3>2
  <2> QED
    BY <2>1, <2>2
<1> DEFINE delta == [previous |-> Latest(v), current |-> t]
<1>6. delta \in Deltas /\ delta.previous = Latest(v) /\ delta.current = t
  BY <1>5 DEF Deltas
<1> HIDE DEF delta
<1> DEFINE w == Append(v, delta)
<1>7. w \in Seq(Deltas) /\ Len(w) = n + 1 /\ w[n + 1] = delta /\ \A i \in 1..n : w[i] = v[i]
  BY <1>1, <1>6, AppendProperties
<1>8. DOMAIN w = 1..(n + 1)
  BY <1>7, LenProperties
<1> HIDE DEF w
<1>9. ASSUME NEW i \in DOMAIN w
      PROVE  TraceKept(w[i].current) /\ w[i].previous = IF i = 1 THEN <<>> ELSE w[i-1].current
  <2>1. CASE i \in 1..n
    <3>1. i # 1 => i - 1 \in 1..n
      BY <1>2, <2>1
    <3>2. w[i] = v[i] /\ (i # 1 => w[i-1] = v[i-1])
      BY <1>7, <2>1, <3>1
    <3> QED
      BY <1>2, <2>1, <3>2 DEF IsHistory
  <2>2. CASE i = n + 1
    <3>1. w[i] = delta
      BY <1>7, <2>2
    <3>2. i = 1 <=> n = 0
      BY <1>2, <2>2
    <3>3. i # 1 => i - 1 = n /\ n \in 1..n
      BY <1>2, <2>2
    <3>4. i # 1 => w[i-1] = v[n]
      BY <1>7, <3>3
    <3> QED
      BY <1>4, <1>6, <3>1, <3>2, <3>4
  <2> QED
    BY <1>2, <1>8, <1>9, <2>1, <2>2
<1> QED
  BY <1>7, <1>9 DEF IsHistory, w, delta, Deltas

\* The text lands on an empty file that is the writer's own, or beside another's.
LEMMA WriteStep ==
  ASSUME StoresInd, NEW p \in Processes, Write(p)
  PROVE  StoresInd'
<1> DEFINE t == todo[p][1]  d == t.doc
<1>0. StoresTypeOK /\ TodoOK(p) /\ SavesInv /\ HistoryInv
  BY StoresParts DEF TodoInv
<1>1. /\ stage[p] = "open" /\ Works(p) /\ todo[p] # <<>> /\ t.do # "memory"
      /\ UNCHANGED <<job, scan, memory, removed, faults>> /\ TaskOver(p)
  BY <1>0 DEF Write, Works, TodoOK
<1>2. /\ Head(todo[p]) = t /\ t \in AllTasks /\ Own(p, t) /\ d \in Docs /\ t.do \in {"save", "observe"}
      /\ t.do = "save" => \E u \in Pages : d \in ArtifactsOf(p, u)
      /\ d[1] = "graph" => t.do = "observe" /\ d = <<"graph", t.page>>
  BY <1>0, <1>1, TaskIs
<1> DEFINE v == Observed(p, t, got[p])
<1>3. IF linked[p] THEN \E c \in Landed(d, v) : disk' = [disk EXCEPT ![d] = c] ELSE disk' = disk
  BY <1>2 DEF Write
<1> HIDE DEF d, t, v
<1>4. /\ \A e \in Docs \ {d} : disk'[e] = disk[e]
      /\ DOMAIN disk' = Docs
      /\ linked[p] => disk'[d] \in Landed(d, v)
      /\ ~linked[p] => disk'[d] = disk[d]
  BY <1>0, <1>2, <1>3 DEF StoresTypeOK
<1>5. KeepsAll /\ \A q \in Processes \ {p}, u \in Pages : \A e \in ArtifactsOf(q, u) : disk'[e] = disk[e]
  BY <1>1, <1>4, WriteKeeps DEF d, t
<1>6. \A c \in Landed(d, v) : \/ c.st = "whole" /\ c.val = v
                              \/ c.st = "broken" /\ c.val = Blank(d) /\ disk[d].st # "empty"
  BY DEF Landed, Whole, Undecodable
<1>7. /\ stage' = [stage EXCEPT ![p] = "next"] /\ todo' = [todo EXCEPT ![p] = Tail(@)]
      /\ got' = [got EXCEPT ![p] = <<>>] /\ linked' = [linked EXCEPT ![p] = FALSE] /\ result' = result
  BY <1>1 DEF TaskOver
<1>8. /\ stage'[p] = "next" /\ todo'[p] = Tail(todo[p]) /\ got'[p] = <<>>
      /\ \A q \in Processes \ {p} : /\ stage'[q] = stage[q] /\ got'[q] = got[q] /\ todo'[q] = todo[q]
                                    /\ linked'[q] = linked[q]
  BY <1>0, <1>7 DEF StoresTypeOK
<1>9. StoresTypeOK'
  <2>1. \A e \in Docs : disk'[e].st \in {"absent", "empty", "broken", "whole"}
    BY <1>0, <1>4, <1>6 DEF StoresTypeOK
  <2> QED
    BY <1>0, <1>1, <1>4, <1>7, <2>1 DEF StoresTypeOK, Stages
<1>10. TodoOK(p)'
  BY <1>0, <1>1, <1>8, TodoTail
<1>11. ASSUME NEW u \in Pages, NEW e \in ArtifactsOf(p, u) PROVE SavesOK(p, e)'
  <2>1. SavesOK(p, e) /\ e \in Docs
    BY <1>0, ArtifactsAre DEF SavesInv
  <2>2. CASE e # d
    <3>1. disk'[e] = disk[e]
      BY <1>4, <2>1, <2>2
    <3> QED
      BY <1>0, <1>1, <1>5, <1>8, <2>1, <2>2, <3>1, TaskOverSaves DEF d, t
  <2>3. CASE e = d
    <3>1. t.do = "save"
      BY <1>0, <1>1, <2>3, Opener DEF d, t
    <3>2. IF linked[p] THEN disk[d].st = "empty" ELSE d \in removed
      BY <1>1, <2>1, <2>3 DEF SavesOK, d, t
    <3>3. Kept(e)'
      BY <1>1, <1>4, <1>6, <2>3, <3>2 DEF Kept
    <3> QED
      BY <1>0, <1>1, <1>5, <1>8, <2>1, <2>3, <3>1, <3>3, TaskOverSaves DEF d, t
  <2> QED
    BY <2>2, <2>3
<1>12. ASSUME NEW u \in Pages
       PROVE  disk'[<<"graph", u>>] = disk[<<"graph", u>>] \/ IsHistory(disk[<<"graph", u>>].val)'
  <2>1. CASE d # <<"graph", u>>
    BY <1>4, <2>1, GraphIs
  <2>2. CASE d = <<"graph", u>> /\ ~linked[p]
    BY <1>4, <2>2
  <2>3. CASE d = <<"graph", u>> /\ linked[p]
    <3>1. t.do = "observe" /\ u = t.page
      <4>1. <<"graph", u>>[1] = "graph" /\ \A x, y : <<"graph", x>> = <<"graph", y>> => x = y
        OBVIOUS
      <4> QED
        BY <1>2, <2>3, <4>1
    <3>2. IsHistory(got[p])
      BY <1>0, <1>1, <2>3, GraphIs DEF HistoryInv, GotOK, d, t
    <3>3. v = Append(got[p], [previous |-> Latest(got[p]), current |-> <<p, u>>])
      <4>1. <<"graph", u>>[1] = "graph"
        OBVIOUS
      <4> HIDE DEF d
      <4>2. t.doc[1] = "graph"
        BY <2>3, <4>1 DEF d
      <4> QED
        BY <3>1, <4>2 DEF v, Observed
    <3>4. TraceKept(<<p, u>>)
      <4>1. CASE p \in Runs({"crawl"})
        BY <4>1 DEF TraceKept
      <4>2. CASE p \notin Runs({"crawl"})
        <5>1. t.doc[1] = "graph" /\ u = job[p].pages[1]
          BY <1>2, <2>3, <3>1, <4>2, GraphIs DEF Own, d
        <5>2. ToSave(p) = {}
          BY <1>0, <1>1, <3>1, <4>2, NothingToSave DEF t
        <5>3. p \in Runs({"read", "query"})
          BY <1>0, <1>1, <4>2 DEF TodoOK, Runs
        <5>4. \A e \in ArtifactsOf(p, u) : SavesOK(p, e) /\ e[3] = u
          BY <1>0, ArtifactsAre DEF SavesInv
        <5>5. \A e \in ArtifactsOf(p, u) : Kept(e)
          BY <1>1, <5>1, <5>2, <5>3, <5>4 DEF SavesOK
        <5> QED
          BY <5>5 DEF TraceKept
      <4> QED
        BY <4>1, <4>2
    <3>5. IsHistory(v)
      BY <3>2, <3>3, <3>4, HistoryGrows
    <3>6. disk'[<<"graph", u>>].val = v \/ disk'[<<"graph", u>>].val = <<>>
      BY <1>4, <1>6, <2>3, GraphIs
    <3>7. \A w : w = v \/ w = <<>> => IsHistory(w)'
      BY <1>1, <1>5, <3>5, EmptyHistory, HistoryStable
    <3> QED
      BY <3>6, <3>7
  <2> QED
    BY <2>1, <2>2, <2>3
<1>13. GotOK(p)'
  BY <1>8 DEF GotOK
<1> QED
  BY <1>0, <1>1, <1>5, <1>7, <1>8, <1>9, <1>10, <1>11, <1>12, <1>13, StepInd DEF HistoryInv

\* A failed save ends a read and a query, which then answer nothing.
LEMMA SaveFailsStep ==
  ASSUME StoresInd, NEW p \in Processes, SaveFails(p)
  PROVE  StoresInd'
<1> DEFINE t == todo[p][1]  d == t.doc
<1>0. StoresTypeOK /\ TodoOK(p) /\ SavesInv /\ HistoryInv
  BY StoresParts DEF TodoInv
<1>1. /\ Works(p) /\ todo[p] # <<>> /\ UNCHANGED <<job, scan, memory, removed>>
      /\ faults' \in 0..MaxFaults /\ TaskFails(p)
      /\ stage[p] = "next" => Now(p, "save")
  BY <1>0, StoresConstants DEF SaveFails, Works, TodoOK, Now, StoresTypeOK
<1>2. Head(todo[p]) = t
  BY <1>0, <1>1, TodoFacts
<1>3. t.do # "memory"
  BY <1>0, <1>1, <1>2 DEF Now, TodoOK, Works
<1>4. /\ t \in AllTasks /\ d \in Docs
      /\ t.do = "save" => \E u \in Pages : d \in ArtifactsOf(p, u)
  BY <1>0, <1>1, <1>3, TaskIs
<1>5. disk' = IF stage[p] = "open" /\ linked[p] THEN [disk EXCEPT ![d] = Undecodable("broken", d)] ELSE disk
  BY <1>2 DEF SaveFails
<1>6. TaskFails(p) <=> IF t.do = "save" /\ job[p].kind # "crawl"
                       THEN /\ result' = [result EXCEPT ![p] = "error"] /\ stage' = [stage EXCEPT ![p] = "over"]
                            /\ todo' = [todo EXCEPT ![p] = <<>>] /\ got' = [got EXCEPT ![p] = <<>>]
                            /\ linked' = [linked EXCEPT ![p] = FALSE]
                       ELSE TaskOver(p)
  BY <1>2 DEF TaskFails
<1> HIDE DEF d, t
<1>7. /\ \A e \in Docs \ {d} : disk'[e] = disk[e]
      /\ DOMAIN disk' = Docs
      /\ disk'[d] = disk[d] \/ (disk'[d].st = "broken" /\ disk'[d].val = Blank(d))
  BY <1>0, <1>4, <1>5 DEF StoresTypeOK, Undecodable
<1>8. KeepsAll /\ \A q \in Processes \ {p}, u \in Pages : \A e \in ArtifactsOf(q, u) : disk'[e] = disk[e]
  BY <1>1, <1>3, <1>7, WriteKeeps DEF d, t
<1>9. \A e \in Docs : disk'[e].st \in {"absent", "empty", "broken", "whole"}
  BY <1>0, <1>7 DEF StoresTypeOK
<1>10. ASSUME NEW u \in Pages
       PROVE  disk'[<<"graph", u>>] = disk[<<"graph", u>>] \/ IsHistory(disk[<<"graph", u>>].val)'
  <2>1. CASE d # <<"graph", u>>
    BY <1>7, <2>1, GraphIs
  <2>2. CASE d = <<"graph", u>>
    <3>1. disk'[d] = disk[d] \/ disk'[<<"graph", u>>].val = <<>>
      BY <1>7, <2>2, GraphIs
    <3>2. \A w : w = <<>> => IsHistory(w)'
      BY <1>1, <1>8, EmptyHistory, HistoryStable
    <3> QED
      BY <2>2, <3>1, <3>2
  <2> QED
    BY <2>1, <2>2
<1>11. CASE t.do = "save" /\ job[p].kind # "crawl"
  <2>1. /\ result' = [result EXCEPT ![p] = "error"] /\ stage' = [stage EXCEPT ![p] = "over"]
        /\ todo' = [todo EXCEPT ![p] = <<>>] /\ got' = [got EXCEPT ![p] = <<>>]
        /\ linked' = [linked EXCEPT ![p] = FALSE]
    BY <1>1, <1>6, <1>11
  <2>2. /\ stage'[p] = "over" /\ result'[p] = "error"
        /\ \A q \in Processes \ {p} : /\ stage'[q] = stage[q] /\ got'[q] = got[q] /\ todo'[q] = todo[q]
                                      /\ linked'[q] = linked[q] /\ result'[q] = result[q]
    BY <1>0, <2>1 DEF StoresTypeOK
  <2>3. StoresTypeOK'
    BY <1>0, <1>1, <1>7, <1>9, <2>1 DEF StoresTypeOK, Stages, Answers
  <2> QED
    BY <1>0, <1>1, <1>8, <1>10, <2>2, <2>3, StoppedOK, StepInd DEF HistoryInv
<1>12. CASE ~(t.do = "save" /\ job[p].kind # "crawl")
  <2>1. /\ stage' = [stage EXCEPT ![p] = "next"] /\ todo' = [todo EXCEPT ![p] = Tail(@)]
        /\ got' = [got EXCEPT ![p] = <<>>] /\ linked' = [linked EXCEPT ![p] = FALSE] /\ result' = result
    BY <1>1, <1>6, <1>12 DEF TaskOver
  <2>2. /\ stage'[p] = "next" /\ todo'[p] = Tail(todo[p])
        /\ \A q \in Processes \ {p} : /\ stage'[q] = stage[q] /\ got'[q] = got[q] /\ todo'[q] = todo[q]
                                      /\ linked'[q] = linked[q]
    BY <1>0, <2>1 DEF StoresTypeOK
  <2>3. result[p] = "none" /\ stage[p] # "over"
    BY <1>0, <1>1 DEF StoresTypeOK, Works
  <2>4. StoresTypeOK'
    BY <1>0, <1>1, <1>7, <1>9, <2>1, <2>3 DEF StoresTypeOK, Stages, Answers
  <2>5. TodoOK(p)'
    BY <1>0, <1>1, <2>2, TodoTail
  <2>6. ASSUME NEW u \in Pages, NEW e \in ArtifactsOf(p, u) PROVE SavesOK(p, e)'
    <3>1. SavesOK(p, e) /\ e \in Docs
      BY <1>0, ArtifactsAre DEF SavesInv
    <3>2. disk'[e] = disk[e] \/ (e = d /\ t.do = "save")
      <4>1. e = d => t.do = "save"
        BY <1>0, <1>1, <1>3, Opener DEF d, t
      <4> QED
        BY <1>7, <3>1, <4>1
    <3>3. t.do = "save" => p \in Runs({"crawl"})
      BY <1>12 DEF Runs
    <3> QED
      BY <1>0, <1>1, <1>8, <2>2, <3>1, <3>2, <3>3, TaskOverSaves DEF d, t
  <2>7. GotOK(p)'
    BY <2>2 DEF GotOK
  <2> QED
    BY <1>0, <1>1, <1>8, <1>10, <2>1, <2>2, <2>4, <2>5, <2>6, <2>7, StepInd DEF HistoryInv
<1> QED
  BY <1>11, <1>12

\* What a read or a query has stored when it has nothing left to save.
LEMMA Stored ==
  ASSUME NEW p \in Processes, StoresTypeOK, TodoOK(p), SavesInv, Works(p),
         todo[p] = <<>> \/ todo[p][1].do # "save",
         p \in Runs({"read", "query"}), NEW u \in Pages, u = job[p].pages[1]
  PROVE  \A d \in ArtifactsOf(p, u) : Kept(d)
<1>1. p \notin Runs({"crawl"})
  BY DEF Runs
<1>2. ToSave(p) = {}
  BY <1>1, NothingToSave
<1>3. \A e \in ArtifactsOf(p, u) : SavesOK(p, e) /\ e[3] = u
  BY ArtifactsAre DEF SavesInv
<1> QED
  BY <1>2, <1>3 DEF SavesOK

\* The memory takes in a trace only when nothing is left to save.
LEMMA MemoryStep ==
  ASSUME StoresInd, NEW p \in Processes, Memory(p)
  PROVE  StoresInd'
<1> DEFINE t == todo[p][1]
<1>0. StoresTypeOK /\ TodoOK(p) /\ SavesInv /\ HistoryInv
  BY StoresParts DEF TodoInv
<1>1. /\ stage[p] = "next" /\ Works(p) /\ todo[p] # <<>> /\ UNCHANGED <<disk, job, scan, removed, faults>>
      /\ TaskOver(p)
  BY DEF Memory, Works, Now
<1>2. Head(todo[p]) = t /\ t \in AllTasks /\ Own(p, t) /\ t.do = "memory" /\ t.page \in Pages
  BY <1>0, <1>1, TodoFacts DEF Memory, Now, AllTasks
<1>3. memory' \subseteq memory \cup {<<p, t.page>>}
  BY <1>2 DEF Memory
<1> HIDE DEF t
<1>4. KeepsAll
  BY <1>1, DiskSame
<1>5. TraceKept(<<p, t.page>>)
  <2>1. CASE p \in Runs({"crawl"})
    BY <2>1 DEF TraceKept
  <2>2. CASE p \notin Runs({"crawl"})
    <3>1. t.page = job[p].pages[1] /\ p \in Runs({"read", "query"})
      BY <1>0, <1>1, <1>2, <2>2 DEF Own, TodoOK, Runs
    <3>2. \A d \in ArtifactsOf(p, t.page) : Kept(d)
      BY <1>0, <1>1, <1>2, <3>1, Stored DEF t
    <3> QED
      BY <3>2 DEF TraceKept
  <2> QED
    BY <2>1, <2>2
<1>6. memory' \subseteq Processes \X Pages /\ \A m \in memory' \ memory : TraceKept(m)'
  <2>1. <<p, t.page>> \in Processes \X Pages
    BY <1>2
  <2>2. \A m : m = <<p, t.page>> => TraceKept(m)'
    BY <1>1, <1>4, <1>5, <2>1, TraceStable
  <2> QED
    BY <1>0, <1>3, <2>1, <2>2 DEF HistoryInv
<1>7. /\ stage' = [stage EXCEPT ![p] = "next"] /\ todo' = [todo EXCEPT ![p] = Tail(@)]
      /\ got' = [got EXCEPT ![p] = <<>>] /\ linked' = [linked EXCEPT ![p] = FALSE] /\ result' = result
  BY <1>1 DEF TaskOver
<1>8. /\ stage'[p] = "next" /\ todo'[p] = Tail(todo[p])
      /\ \A q \in Processes \ {p} : /\ stage'[q] = stage[q] /\ got'[q] = got[q] /\ todo'[q] = todo[q]
                                    /\ linked'[q] = linked[q]
  BY <1>0, <1>7 DEF StoresTypeOK
<1>9. StoresTypeOK'
  BY <1>0, <1>1, <1>7 DEF StoresTypeOK, Stages
<1>10. TodoOK(p)'
  BY <1>0, <1>1, <1>8, TodoTail
<1>11. \A u \in Pages : \A d \in ArtifactsOf(p, u) : SavesOK(p, d)'
  BY <1>0, <1>1, <1>2, <1>4, <1>8, TaskOverSaves DEF SavesInv, t
<1>12. GotOK(p)'
  BY <1>8 DEF GotOK
<1> QED
  BY <1>1, <1>4, <1>6, <1>7, <1>8, <1>9, <1>10, <1>11, <1>12, StepInd

\* So does an answer.
LEMMA AnswerStep ==
  ASSUME StoresInd, NEW p \in Processes, Answer(p)
  PROVE  StoresInd'
<1>0. StoresTypeOK /\ TodoOK(p) /\ SavesInv /\ HistoryInv
  BY StoresParts DEF TodoInv
<1>1. /\ stage[p] = "next" /\ todo[p] = <<>> /\ Works(p)
      /\ result' = [result EXCEPT ![p] = "ok"] /\ stage' = [stage EXCEPT ![p] = "over"]
      /\ UNCHANGED <<disk, job, todo, got, linked, scan, memory, removed, faults>>
  BY DEF Answer, Works
<1>2. /\ stage'[p] = "over" /\ result'[p] = "ok"
      /\ \A q \in Processes \ {p} : stage'[q] = stage[q] /\ result'[q] = result[q]
  BY <1>0, <1>1 DEF StoresTypeOK
<1>3. KeepsAll
  BY <1>1, DiskSame
<1>4. StoresTypeOK'
  BY <1>0, <1>1 DEF StoresTypeOK, Stages, Answers
<1>5. p \in Runs({"read", "query"}) => \A d \in ArtifactsOf(p, job[p].pages[1]) : Kept(d)'
  <2> SUFFICES ASSUME p \in Runs({"read", "query"})
               PROVE  \A d \in ArtifactsOf(p, job[p].pages[1]) : Kept(d)'
    OBVIOUS
  <2>1. job[p].pages[1] \in Pages
    BY <1>0, FirstPage
  <2>2. \A d \in ArtifactsOf(p, job[p].pages[1]) : Kept(d)
    BY <1>0, <1>1, <2>1, Stored
  <2> QED
    BY <1>1, <2>2 DEF Kept
<1> QED
  BY <1>0, <1>1, <1>2, <1>3, <1>4, <1>5, StoppedOK, StepInd DEF HistoryInv

\* An operation begins with all its saves to do.
LEMMA StartStep ==
  ASSUME StoresInd, NEW p \in Processes, Start(p)
  PROVE  StoresInd'
<1>0. StoresTypeOK /\ TodoOK(p) /\ SavesInv /\ HistoryInv
  BY StoresParts DEF TodoInv
<1>1. stage[p] = "new" /\ job[p].kind # "none" /\ UNCHANGED <<disk, job, got, linked, memory, removed, faults>>
  BY DEF Start
<1>2. KeepsAll
  BY <1>1, DiskSame
<1>3. job[p].kind \in {"read", "query", "crawl", "find", "prune"}
  BY <1>0, <1>1, StoresConstants DEF StoresTypeOK
<1>4. result[p] = "none" /\ linked[p] = FALSE /\ got[p] = <<>>
  BY <1>0, <1>1 DEF StoresTypeOK
<1>5. CASE /\ job[p].kind \notin {"prune", "find"}
           /\ result' = [result EXCEPT ![p] = "error"] /\ stage' = [stage EXCEPT ![p] = "over"]
           /\ UNCHANGED <<todo, scan>>
  <2>1. /\ stage'[p] = "over" /\ result'[p] = "error"
        /\ \A q \in Processes \ {p} : stage'[q] = stage[q] /\ result'[q] = result[q]
    BY <1>0, <1>5 DEF StoresTypeOK
  <2>2. StoresTypeOK'
    BY <1>0, <1>1, <1>4, <1>5 DEF StoresTypeOK, Stages, Answers
  <2> QED
    BY <1>0, <1>1, <1>2, <1>5, <2>1, <2>2, StoppedOK, StepInd DEF HistoryInv
<1>6. CASE /\ todo' = [todo EXCEPT ![p] = Tasks(p, job[p])]
           /\ stage' = [stage EXCEPT ![p] = IF job[p].kind \in {"prune", "find"} THEN "list" ELSE "next"]
           /\ scan' = [scan EXCEPT ![p] = 1] /\ UNCHANGED result
  <2>1. /\ stage'[p] = IF job[p].kind \in {"prune", "find"} THEN "list" ELSE "next"
        /\ todo'[p] = Tasks(p, job[p])
        /\ \A q \in Processes \ {p} : stage'[q] = stage[q] /\ todo'[q] = todo[q]
    BY <1>0, <1>6 DEF StoresTypeOK
  <2>2. StoresTypeOK'
    BY <1>0, <1>1, <1>4, <1>6 DEF StoresTypeOK, Stages, Answers
  <2>3. CASE job[p].kind \in {"prune", "find"}
    <3>1. todo'[p] = <<>> /\ stage'[p] = "list"
      BY <2>1, <2>3 DEF Tasks
    <3>2. TodoOK(p)'
      <4>1. <<>> \in Seq({d \in Docs : p \in Runs({"prune"})' => Prunable(d)})
        BY EmptySeq
      <4> QED
        BY <1>1, <2>3, <3>1, <4>1 DEF TodoOK, Works, Lists, Runs
    <3> QED
      BY <1>0, <1>1, <1>2, <1>6, <2>1, <2>2, <3>1, <3>2, OwesNothing, StepInd DEF HistoryInv
  <2>4. CASE job[p].kind \in {"read", "query", "crawl"}
    <3>1. stage'[p] = "next" /\ p \in Runs({"read", "query", "crawl"}) /\ job \in Jobs
      BY <1>0, <2>1, <2>4 DEF Runs, StoresTypeOK
    <3>2. TasksOK(p, Tasks(p, job[p]))
      BY <2>4, <3>1, ReadTasks, CrawlTasks
    <3> DEFINE s == todo'[p]
    <3>3. s \in Seq(OwnTasks(p)) /\ SavesEach(s)
      BY <2>1, <3>2 DEF TasksOK
    <3>4. p \in Runs({"read", "query"}) => SavesFirst(s) /\ SavesAll(p, job[p].pages[1], s)
      BY <2>1, <3>2 DEF TasksOK
    <3>5. OwnTasks(p)' = OwnTasks(p) /\ \A kinds : Runs(kinds)' = Runs(kinds)
      BY <1>1 DEF OwnTasks, Own, Runs
    <3>6. p \notin Runs({"crawl"}) => p \in Runs({"read", "query"})
      BY <3>1 DEF Runs
    <3>7. TodoOK(p)'
      BY <3>1, <3>3, <3>4, <3>5, <3>6 DEF TodoOK, Works, Lists, IsSave, SavesEach, SavesFirst
    <3>8. ASSUME NEW u \in Pages, NEW d \in ArtifactsOf(p, u) PROVE SavesOK(p, d)'
      <4>1. SavesOK(p, d) /\ d[3] = u
        BY <1>0, ArtifactsAre DEF SavesInv
      <4>2. disk'[d].st # "whole"
        BY <1>1, <4>1 DEF SavesOK
      <4>3. ASSUME p \in Runs({"read", "query"}), u = job[p].pages[1] PROVE d \in ToSave(p)'
        <5>1. \E i \in DOMAIN s : s[i].do = "save" /\ s[i].doc = d
          BY <3>4, <4>3 DEF SavesAll
        <5> QED
          BY <5>1 DEF ToSave, IsSave
      <4> QED
        BY <1>1, <3>1, <3>5, <4>1, <4>2, <4>3 DEF SavesOK
    <3>9. GotOK(p)'
      BY <3>1 DEF GotOK
    <3> QED
      BY <1>0, <1>1, <1>2, <1>6, <2>1, <2>2, <3>7, <3>8, <3>9, StepInd DEF HistoryInv
  <2> QED
    BY <1>3, <2>3, <2>4
<1> QED
  BY <1>5, <1>6 DEF Start

LEMMA CrashStep ==
  ASSUME StoresInd, NEW p \in Processes, Crash(p)
  PROVE  StoresInd'
<1>0. StoresTypeOK /\ HistoryInv
  BY StoresParts
<1>1. /\ stage[p] \notin {"new", "over", "dead"} /\ faults' \in 0..MaxFaults
      /\ stage' = [stage EXCEPT ![p] = "dead"] /\ todo' = [todo EXCEPT ![p] = <<>>]
      /\ got' = [got EXCEPT ![p] = <<>>] /\ linked' = [linked EXCEPT ![p] = FALSE]
      /\ UNCHANGED <<disk, job, scan, result, memory, removed>>
  BY <1>0, StoresConstants DEF Crash, StoresTypeOK
<1>2. /\ stage'[p] = "dead"
      /\ \A q \in Processes \ {p} : /\ stage'[q] = stage[q] /\ got'[q] = got[q] /\ todo'[q] = todo[q]
                                    /\ linked'[q] = linked[q]
  BY <1>0, <1>1 DEF StoresTypeOK
<1>3. StoresTypeOK'
  BY <1>0, <1>1 DEF StoresTypeOK, Stages
<1>4. KeepsAll
  BY <1>1, DiskSame
<1> QED
  BY <1>0, <1>1, <1>2, <1>3, <1>4, StoppedOK, StepInd DEF HistoryInv

-----------------------------------------------------------------------------
(* Steps of a prune or a lookup *)

\* The frame of a step that changes nothing on disk.
LEMMA ListerInd ==
  ASSUME StoresInd, NEW p \in Processes, StoresTypeOK', UNCHANGED <<disk, job, got, linked, memory, removed>>,
         \A q \in Processes \ {p} : stage'[q] = stage[q] /\ todo'[q] = todo[q] /\ result'[q] = result[q],
         stage'[p] \in {"list", "scan", "over"}, TodoOK(p)',
         \/ result'[p] \in {result[p], "none", "error", "notfound"}
         \/ result'[p] = "ok" /\ p \notin Runs({"read", "query"})
         \/ result'[p] = "found" /\ Kept(job[p].target)
  PROVE  StoresInd'
<1>1. HistoryInv
  BY StoresParts
<1>2. KeepsAll
  BY DiskSame
<1>3. Kept(job[p].target) => Kept(job[p].target)'
  BY DEF Kept
<1> QED
  BY <1>1, <1>2, <1>3, OwesNothing, StepInd DEF HistoryInv

\* The documents still on a process' list.
LEMMA ListFacts ==
  ASSUME NEW p \in Processes, TodoOK(p), Lists(p)
  PROVE  /\ todo[p] \in Seq({d \in Docs : p \in Runs({"prune"}) => Prunable(d)})
         /\ todo[p] # <<>> => /\ Head(todo[p]) \in {d \in Docs : p \in Runs({"prune"}) => Prunable(d)}
                              /\ Tail(todo[p]) \in Seq({d \in Docs : p \in Runs({"prune"}) => Prunable(d)})
<1> DEFINE D == {d \in Docs : p \in Runs({"prune"}) => Prunable(d)}
<1>1. todo[p] \in Seq(D)
  BY DEF TodoOK
<1> HIDE DEF D
<1>2. todo[p] # <<>> => Head(todo[p]) \in D /\ Tail(todo[p]) \in Seq(D)
  BY <1>1, HeadTailProperties
<1> QED
  BY <1>1, <1>2 DEF D

\* A list stays one of documents, of those a prune may remove if it is a prune's.
LEMMA ListOK ==
  ASSUME NEW p \in Processes, job' = job, p \in Runs({"prune", "find"}), stage'[p] \in {"list", "scan", "over"},
         todo'[p] \in Seq({d \in Docs : p \in Runs({"prune"}) => Prunable(d)})
  PROVE  TodoOK(p)'
<1>1. \A kinds : Runs(kinds)' = Runs(kinds)
  BY DEF Runs
<1> QED
  BY <1>1 DEF TodoOK, Works, Lists

LEMMA PruneOverStep ==
  ASSUME StoresInd, NEW p \in Processes, PruneOver(p)
  PROVE  StoresInd'
<1>0. StoresTypeOK
  BY StoresParts
<1>1. /\ job[p].kind = "prune" /\ stage[p] = "scan" /\ todo[p] = <<>> /\ result[p] = "none"
      /\ UNCHANGED <<disk, job, todo, got, linked, memory, removed, faults>>
  BY <1>0 DEF PruneOver, StoresTypeOK
<1>2. CASE /\ scan[p] < 4 /\ scan' = [scan EXCEPT ![p] = @ + 1]
           /\ stage' = [stage EXCEPT ![p] = "list"] /\ UNCHANGED result
  <2>0. scan[p] + 1 \in 0..4
    BY <1>0, <1>2 DEF StoresTypeOK
  <2>1. StoresTypeOK'
    BY <1>0, <1>1, <1>2, <2>0 DEF StoresTypeOK, Stages
  <2>2. stage'[p] = "list" /\ \A q \in Processes \ {p} : stage'[q] = stage[q]
    BY <1>0, <1>2 DEF StoresTypeOK
  <2>3. TodoOK(p)'
    <3>1. <<>> \in Seq({d \in Docs : p \in Runs({"prune"}) => Prunable(d)})
      BY EmptySeq
    <3>2. p \in Runs({"prune", "find"})
      BY <1>1 DEF Runs
    <3> QED
      BY <1>1, <2>2, <3>1, <3>2, ListOK
  <2> QED
    BY <1>1, <1>2, <2>1, <2>2, <2>3, ListerInd
<1>3. CASE /\ result' = [result EXCEPT ![p] = "ok"] /\ stage' = [stage EXCEPT ![p] = "over"]
           /\ UNCHANGED scan
  <2>1. StoresTypeOK'
    BY <1>0, <1>1, <1>3 DEF StoresTypeOK, Stages, Answers
  <2>2. /\ stage'[p] = "over" /\ result'[p] = "ok" /\ p \notin Runs({"read", "query"})
        /\ \A q \in Processes \ {p} : stage'[q] = stage[q] /\ result'[q] = result[q]
    BY <1>0, <1>1, <1>3 DEF StoresTypeOK, Runs
  <2> QED
    BY <1>1, <2>1, <2>2, StoppedOK, ListerInd
<1> QED
  BY <1>2, <1>3 DEF PruneOver

LEMMA LookOverStep ==
  ASSUME StoresInd, NEW p \in Processes, LookOver(p)
  PROVE  StoresInd'
<1>0. StoresTypeOK
  BY StoresParts
<1>1. /\ job[p].kind = "find" /\ stage[p] = "scan" /\ todo[p] = <<>> /\ result[p] = "none"
      /\ UNCHANGED <<disk, job, todo, got, linked, memory, removed, faults>>
  BY <1>0 DEF LookOver, StoresTypeOK
<1>2. CASE /\ scan' = [scan EXCEPT ![p] = 2] /\ stage' = [stage EXCEPT ![p] = "list"] /\ UNCHANGED result
  <2>1. StoresTypeOK'
    BY <1>0, <1>1, <1>2 DEF StoresTypeOK, Stages
  <2>2. stage'[p] = "list" /\ \A q \in Processes \ {p} : stage'[q] = stage[q]
    BY <1>0, <1>2 DEF StoresTypeOK
  <2>3. TodoOK(p)'
    <3>1. <<>> \in Seq({d \in Docs : p \in Runs({"prune"}) => Prunable(d)})
      BY EmptySeq
    <3>2. p \in Runs({"prune", "find"})
      BY <1>1 DEF Runs
    <3> QED
      BY <1>1, <2>2, <3>1, <3>2, ListOK
  <2> QED
    BY <1>1, <1>2, <2>1, <2>2, <2>3, ListerInd
<1>3. CASE /\ result' = [result EXCEPT ![p] = "notfound"] /\ stage' = [stage EXCEPT ![p] = "over"]
           /\ UNCHANGED scan
  <2>1. StoresTypeOK'
    BY <1>0, <1>1, <1>3 DEF StoresTypeOK, Stages, Answers
  <2>2. /\ stage'[p] = "over" /\ result'[p] = "notfound"
        /\ \A q \in Processes \ {p} : stage'[q] = stage[q] /\ result'[q] = result[q]
    BY <1>0, <1>3 DEF StoresTypeOK
  <2> QED
    BY <1>1, <2>1, <2>2, StoppedOK, ListerInd
<1> QED
  BY <1>2, <1>3 DEF LookOver

LEMMA LookStep ==
  ASSUME StoresInd, NEW p \in Processes, Look(p)
  PROVE  StoresInd'
<1> DEFINE d == Head(todo[p])
           Returns(a) == /\ result' = [result EXCEPT ![p] = a] /\ stage' = [stage EXCEPT ![p] = "over"]
                         /\ todo' = [todo EXCEPT ![p] = <<>>] /\ UNCHANGED scan
<1>0. StoresTypeOK /\ TodoOK(p)
  BY StoresParts DEF TodoInv
<1>1. /\ job[p].kind = "find" /\ stage[p] = "scan" /\ todo[p] # <<>> /\ result[p] = "none"
      /\ p \in Runs({"prune", "find"})
      /\ UNCHANGED <<disk, job, got, linked, memory, removed, faults>>
  BY <1>0 DEF Look, StoresTypeOK, Runs
<1>2. \/ Returns("found") /\ disk[d].st = "whole" /\ d = job[p].target
      \/ todo' = [todo EXCEPT ![p] = Tail(@)] /\ UNCHANGED <<result, stage, scan>>
      \/ /\ todo' = [todo EXCEPT ![p] = <<>>] /\ scan' = [scan EXCEPT ![p] = 2]
         /\ stage' = [stage EXCEPT ![p] = "list"] /\ UNCHANGED result
      \/ Returns("error")
  BY DEF Look
<1> HIDE DEF d
<1>3. ASSUME NEW a \in {"found", "error"}, Returns(a), a = "found" => disk[d].st = "whole" /\ d = job[p].target
      PROVE  StoresInd'
  <2>1. StoresTypeOK'
    BY <1>0, <1>1, <1>3 DEF StoresTypeOK, Stages, Answers
  <2>2. /\ stage'[p] = "over" /\ result'[p] = a
        /\ \A q \in Processes \ {p} : stage'[q] = stage[q] /\ result'[q] = result[q] /\ todo'[q] = todo[q]
    BY <1>0, <1>3 DEF StoresTypeOK
  <2>3. a = "error" \/ (a = "found" /\ Kept(job[p].target))
    BY <1>3 DEF Kept
  <2> QED
    BY <1>1, <2>1, <2>2, <2>3, StoppedOK, ListerInd
<1>4. CASE todo' = [todo EXCEPT ![p] = Tail(@)] /\ UNCHANGED <<result, stage, scan>>
  <2>1. StoresTypeOK'
    BY <1>0, <1>1, <1>4 DEF StoresTypeOK
  <2>2. todo'[p] = Tail(todo[p]) /\ \A q \in Processes \ {p} : todo'[q] = todo[q]
    BY <1>0, <1>4 DEF StoresTypeOK
  <2>3. TodoOK(p)'
    <3>1. Tail(todo[p]) \in Seq({e \in Docs : p \in Runs({"prune"}) => Prunable(e)})
      BY <1>0, <1>1, ListFacts DEF Lists
    <3> QED
      BY <1>1, <1>4, <2>2, <3>1, ListOK
  <2> QED
    BY <1>1, <1>4, <2>1, <2>2, <2>3, ListerInd
<1>5. CASE /\ todo' = [todo EXCEPT ![p] = <<>>] /\ scan' = [scan EXCEPT ![p] = 2]
           /\ stage' = [stage EXCEPT ![p] = "list"] /\ UNCHANGED result
  <2>1. StoresTypeOK'
    BY <1>0, <1>1, <1>5 DEF StoresTypeOK, Stages
  <2>2. /\ stage'[p] = "list" /\ todo'[p] = <<>>
        /\ \A q \in Processes \ {p} : stage'[q] = stage[q] /\ todo'[q] = todo[q]
    BY <1>0, <1>5 DEF StoresTypeOK
  <2>3. TodoOK(p)'
    <3>1. <<>> \in Seq({e \in Docs : p \in Runs({"prune"}) => Prunable(e)})
      BY EmptySeq
    <3> QED
      BY <1>1, <2>2, <3>1, ListOK
  <2> QED
    BY <1>1, <1>5, <2>1, <2>2, <2>3, ListerInd
<1> QED
  BY <1>2, <1>3, <1>4, <1>5

\* A prune takes a document away, and with it what others have open of it.
LEMMA PruneStep ==
  ASSUME StoresInd, NEW p \in Processes, Prune(p)
  PROVE  StoresInd'
<1> DEFINE d == Head(todo[p])
           D == {e \in Docs : p \in Runs({"prune"}) => Prunable(e)}
<1>0. StoresTypeOK /\ TodoOK(p) /\ TodoInv /\ SavesInv /\ HistoryInv /\ DeliveredInv /\ FoundInv
  BY StoresParts DEF TodoInv
<1>1. /\ job[p].kind = "prune" /\ stage[p] = "scan" /\ todo[p] # <<>> /\ result[p] = "none"
      /\ p \in Runs({"prune"}) /\ p \in Runs({"prune", "find"})
      /\ UNCHANGED <<job, got, scan, memory, faults>>
  BY <1>0 DEF Prune, StoresTypeOK, Runs
<1>2. d \in D /\ Tail(todo[p]) \in Seq(D) /\ <<>> \in Seq(D)
  BY <1>0, <1>1, ListFacts, EmptySeq DEF Lists
<1>3. d \in Docs /\ Prunable(d)
  BY <1>1, <1>2
<1>4. \/ /\ disk' = [disk EXCEPT ![d] = Absent(d)] /\ removed' = removed \cup {d}
         /\ linked' = [q \in Processes |-> linked[q] /\ ~ (stage[q] = "open" /\ Head(todo[q]).doc = d)]
         /\ todo' = [todo EXCEPT ![p] = Tail(@)] /\ UNCHANGED <<stage, result>>
      \/ todo' = [todo EXCEPT ![p] = Tail(@)] /\ UNCHANGED <<disk, removed, linked, stage, result>>
      \/ /\ result' = [result EXCEPT ![p] = "error"] /\ stage' = [stage EXCEPT ![p] = "over"]
         /\ todo' = [todo EXCEPT ![p] = <<>>] /\ UNCHANGED <<disk, removed, linked>>
  BY DEF Prune
<1> HIDE DEF d
<1>5. CASE todo' = [todo EXCEPT ![p] = Tail(@)] /\ UNCHANGED <<disk, removed, linked, stage, result>>
  <2>1. StoresTypeOK'
    BY <1>0, <1>1, <1>5 DEF StoresTypeOK
  <2>2. todo'[p] = Tail(todo[p]) /\ \A q \in Processes \ {p} : todo'[q] = todo[q]
    BY <1>0, <1>5 DEF StoresTypeOK
  <2>3. TodoOK(p)'
    BY <1>1, <1>2, <1>5, <2>2, ListOK
  <2> QED
    BY <1>1, <1>5, <2>1, <2>2, <2>3, ListerInd
<1>6. CASE /\ result' = [result EXCEPT ![p] = "error"] /\ stage' = [stage EXCEPT ![p] = "over"]
           /\ todo' = [todo EXCEPT ![p] = <<>>] /\ UNCHANGED <<disk, removed, linked>>
  <2>1. StoresTypeOK'
    BY <1>0, <1>1, <1>6 DEF StoresTypeOK, Stages, Answers
  <2>2. /\ stage'[p] = "over" /\ result'[p] = "error"
        /\ \A q \in Processes \ {p} : stage'[q] = stage[q] /\ result'[q] = result[q] /\ todo'[q] = todo[q]
    BY <1>0, <1>6 DEF StoresTypeOK
  <2> QED
    BY <1>1, <1>6, <2>1, <2>2, StoppedOK, ListerInd
<1>7. CASE /\ disk' = [disk EXCEPT ![d] = Absent(d)] /\ removed' = removed \cup {d}
           /\ linked' = [q \in Processes |-> linked[q] /\ ~ (stage[q] = "open" /\ Head(todo[q]).doc = d)]
           /\ todo' = [todo EXCEPT ![p] = Tail(@)] /\ UNCHANGED <<stage, result>>
  <2>1. /\ disk'[d].st = "absent" /\ \A e \in Docs \ {d} : disk'[e] = disk[e]
        /\ DOMAIN disk' = Docs
        /\ todo'[p] = Tail(todo[p]) /\ \A q \in Processes \ {p} : todo'[q] = todo[q]
    BY <1>0, <1>3, <1>7 DEF StoresTypeOK, Absent
  <2>2. StoresTypeOK'
    <3>1. \A e \in Docs : disk'[e].st \in {"absent", "empty", "broken", "whole"}
      BY <1>0, <2>1 DEF StoresTypeOK
    <3>2. linked' \in [Processes -> BOOLEAN] /\ \A q \in Processes : linked'[q] => linked[q]
      BY <1>7
    <3> QED
      BY <1>0, <1>1, <1>3, <1>7, <2>1, <3>1, <3>2 DEF StoresTypeOK
  <2>3. KeepsAll
    BY <1>7, <2>1, ArtifactsAre DEF KeepsAll, Kept
  <2>4. ASSUME NEW q \in Processes PROVE TodoOK(q)'
    <3>1. CASE q = p
      BY <1>1, <1>2, <1>7, <2>1, <3>1, ListOK
    <3>2. CASE q # p
      <4>1. TodoOK(q)
        BY <1>0 DEF TodoInv
      <4>2. stage'[q] = stage[q] /\ todo'[q] = todo[q] /\ job' = job
        BY <1>1, <1>7, <2>1, <3>2
      <4>3. OwnTasks(q)' = OwnTasks(q)
        BY <4>2 DEF OwnTasks, Own, Runs
      <4> QED
        BY <4>1, <4>2, <4>3 DEF TodoOK, Works, Lists, Runs, IsSave
    <3> QED
      BY <3>1, <3>2
  <2>5. ASSUME NEW q \in Processes, NEW u \in Pages, NEW e \in ArtifactsOf(q, u) PROVE SavesOK(q, e)'
    <3>1. CASE q = p
      BY <1>1, <1>7, <3>1, OwesNothing
    <3>2. CASE q # p
      <4>1. SavesOK(q, e) /\ TodoOK(q) /\ e \in Docs
        BY <1>0, ArtifactsAre DEF SavesInv, TodoInv
      <4>2. stage'[q] = stage[q] /\ todo'[q] = todo[q] /\ job' = job
        BY <1>1, <1>7, <2>1, <3>2
      <4>3. ToSave(q)' = ToSave(q) /\ Works(q)' = Works(q) /\ Runs({"read", "query"})' = Runs({"read", "query"})
        BY <4>2 DEF ToSave, IsSave, Works, Runs
      <4>4. Kept(e) => Kept(e)'
        BY <2>3 DEF KeepsAll
      <4>5. disk'[e].st = "whole" => stage'[q] # "new" /\ (Works(q)' => e \notin ToSave(q)')
        BY <2>1, <4>1, <4>2, <4>3 DEF SavesOK
      <4>6. ASSUME stage'[q] = "open", todo'[q][1].doc = e
            PROVE  IF linked'[q] THEN disk'[e].st = "empty" ELSE e \in removed'
        <5>1. Head(todo[q]) = todo[q][1]
          BY <4>1, <4>2, <4>6, TodoFacts DEF Works, TodoOK
        <5>2. linked'[q] <=> linked[q] /\ e # d
          BY <1>7, <4>2, <4>6, <5>1
        <5>3. IF linked[q] THEN disk[e].st = "empty" ELSE e \in removed
          BY <4>1, <4>2, <4>6 DEF SavesOK
        <5> QED
          BY <1>7, <2>1, <4>1, <5>2, <5>3
      <4>7. Works(q)' /\ q \in Runs({"read", "query"})' /\ e[3] = job'[q].pages[1] => e \in ToSave(q)' \/ Kept(e)'
        BY <4>1, <4>2, <4>3, <4>4 DEF SavesOK
      <4> QED
        BY <4>5, <4>6, <4>7 DEF SavesOK
    <3> QED
      BY <3>1, <3>2
  <2>6. HistoryInv'
    <3>1. \A u \in Pages : disk'[<<"graph", u>>] = disk[<<"graph", u>>]
      BY <1>3, <2>1, GraphIs
    <3>2. GotOK(p)'
      BY <1>1, <1>7, OwesNothing
    <3> QED
      BY <1>0, <1>1, <1>7, <2>1, <2>3, <3>1, <3>2, HistoryFrame DEF HistoryInv
  <2>7. DeliveredInv' /\ FoundInv'
    BY <1>1, <1>7, <2>3, AnswersFrame
  <2>8. TodoInv'
    BY <2>4 DEF TodoInv
  <2>9. SavesInv'
    BY <2>5 DEF SavesInv
  <2> QED
    BY <2>2, <2>6, <2>7, <2>8, <2>9, StoresParts, PTL
<1> QED
  BY <1>4, <1>5, <1>6, <1>7

\* The values of a function on a finite set.
LEMMA ImageFinite ==
  ASSUME NEW X, IsFiniteSet(X), NEW f, DOMAIN f = X
  PROVE  IsFiniteSet({f[x] : x \in X})
<1> DEFINE T == {f[x] : x \in X}  g == [x \in X |-> f[x]]
<1>1. g \in Surjection(X, T)
  BY DEF Surjection
<1> HIDE DEF T, g
<1>2. IsFiniteSet(T)
  BY <1>1, FS_Surjection
<1> QED
  BY <1>2 DEF T

\* There are finitely many documents.
LEMMA DocsFinite == IsFiniteSet(Docs)
<1> DEFINE Saved(dir) == {<<dir, p, u>> : p \in Processes, u \in Pages}
<1>1. IsFiniteSet(Processes) /\ IsFiniteSet(Pages) /\ IsFiniteSet(Processes \X Pages)
  BY StoresConstants, FS_Product
<1>2. ASSUME NEW dir PROVE IsFiniteSet(Saved(dir))
  <2> DEFINE X == Processes \X Pages  f == [x \in X |-> <<dir, x[1], x[2]>>]
  <2>1. DOMAIN f = X /\ \A x \in X : f[x] = <<dir, x[1], x[2]>>
    OBVIOUS
  <2>2. \A p \in Processes, u \in Pages : <<p, u>> \in X /\ <<p, u>>[1] = p /\ <<p, u>>[2] = u
    OBVIOUS
  <2>3. \A x \in X : x[1] \in Processes /\ x[2] \in Pages
    OBVIOUS
  <2> HIDE DEF f, X
  <2>4. IsFiniteSet({f[x] : x \in X})
    BY <1>1, <2>1, ImageFinite DEF X
  <2>5. Saved(dir) \subseteq {f[x] : x \in X}
    <3> SUFFICES ASSUME NEW p \in Processes, NEW u \in Pages
                 PROVE  \E x \in X : <<dir, p, u>> = f[x]
      OBVIOUS
    <3>1. f[<<p, u>>] = <<dir, p, u>>
      BY <2>1, <2>2
    <3> QED
      BY <2>2, <3>1
  <2> HIDE DEF Saved
  <2> QED
    BY <2>4, <2>5, FS_Subset
<1>3. IsFiniteSet({<<"graph", u>> : u \in Pages})
  <2> DEFINE f == [u \in Pages |-> <<"graph", u>>]
  <2>1. IsFiniteSet({f[u] : u \in Pages})
    BY <1>1, ImageFinite
  <2> QED
    BY <2>1
<1>4. IsFiniteSet({<<"genome", h>> : h \in Hosts})
  <2> DEFINE f == [u \in Pages |-> <<"genome", HostOf[u]>>]
  <2>1. IsFiniteSet({f[u] : u \in Pages})
    BY <1>1, ImageFinite
  <2>2. {<<"genome", h>> : h \in Hosts} = {f[u] : u \in Pages}
    BY DEF Hosts
  <2> QED
    BY <2>1, <2>2
<1>5. IsFiniteSet({<<"index">>} \cup {<<"domains">>})
  BY FS_Singleton, FS_Union
<1> DEFINE A == Saved("traces")  B == Saved("proofs")  C == Saved("fingerprints")
           G == {<<"graph", u>> : u \in Pages}  H == {<<"genome", h>> : h \in Hosts}
           I == {<<"index">>} \cup {<<"domains">>}
           All == ((((A \cup B) \cup C) \cup G) \cup H) \cup I
<1>6. Docs \subseteq All
  <2>1. \A p \in Processes, u \in Pages : ArtifactsOf(p, u) \subseteq (A \cup B) \cup C
    BY ArtifactsAre
  <2>2. Docs = (((UNION {ArtifactsOf(p, u) : p \in Processes, u \in Pages}) \cup G) \cup H) \cup I
    BY DEF Docs
  <2> HIDE DEF A, B, C, G, H, I
  <2> QED
    BY <2>1, <2>2
<1>7. IsFiniteSet(A) /\ IsFiniteSet(B) /\ IsFiniteSet(C) /\ IsFiniteSet(G) /\ IsFiniteSet(H) /\ IsFiniteSet(I)
  <2> HIDE DEF Saved
  <2>1. IsFiniteSet(A) /\ IsFiniteSet(B) /\ IsFiniteSet(C)
    BY <1>2
  <2>2. IsFiniteSet(G)
    BY <1>3
  <2>3. IsFiniteSet(H)
    BY <1>4
  <2>4. IsFiniteSet(I)
    BY <1>5
  <2> HIDE DEF A, B, C, G, H, I
  <2> QED
    BY <2>1, <2>2, <2>3, <2>4
<1> HIDE DEF A, B, C, G, H, I
<1>8. IsFiniteSet(A \cup B) /\ IsFiniteSet((A \cup B) \cup C) /\ IsFiniteSet(((A \cup B) \cup C) \cup G)
  BY <1>7, FS_Union
<1>9. IsFiniteSet((((A \cup B) \cup C) \cup G) \cup H)
  BY <1>7, <1>8, FS_Union
<1>10. IsFiniteSet(All)
  BY <1>7, <1>9, FS_Union
<1> HIDE DEF All
<1> QED
  BY <1>6, <1>10, FS_Subset

\* The orders of a finite set are lists of its members.
LEMMA OrdersOfASet ==
  ASSUME NEW S, IsFiniteSet(S)
  PROVE  SetToSeq(S) \in Seq(S) /\ \A s \in SetToSeqs(S) : s \in Seq(S)
<1> DEFINE n == Cardinality(S)
<1>1. n \in Nat /\ ExistsBijection(1..n, S)
  BY FS_CardinalityType
<1>2. \E f \in [1..n -> S] : IsInjective(f)
  BY <1>1 DEF ExistsBijection, Bijection, Injection
<1>3. SetToSeq(S) \in [1..n -> S]
  BY <1>2 DEF SetToSeq
<1>4. \A s \in SetToSeqs(S) : s \in [1..n -> S]
  BY DEF SetToSeqs
<1> HIDE DEF n
<1>5. \A s \in [1..n -> S] : s \in Seq(S)
  BY <1>1, IsASequence
<1> QED
  BY <1>3, <1>4, <1>5

\* A list names documents that are on disk.
LEMMA ListStep ==
  ASSUME StoresInd, NEW p \in Processes, List(p)
  PROVE  StoresInd'
<1> DEFINE D == {e \in Docs : p \in Runs({"prune"}) => Prunable(e)}
<1>0. StoresTypeOK /\ TodoOK(p)
  BY StoresParts DEF TodoInv
<1>1. /\ stage[p] = "list" /\ result[p] = "none" /\ p \in Runs({"prune", "find"})
      /\ UNCHANGED <<disk, job, got, linked, scan, memory, removed, faults>>
  BY <1>0 DEF List, StoresTypeOK, TodoOK, Lists
<1>2. CASE /\ job[p].kind = "find" /\ disk[job[p].target].st = "whole"
           /\ result' = [result EXCEPT ![p] = "found"] /\ stage' = [stage EXCEPT ![p] = "over"]
           /\ UNCHANGED todo
  <2>1. StoresTypeOK'
    BY <1>0, <1>1, <1>2 DEF StoresTypeOK, Stages, Answers
  <2>2. /\ stage'[p] = "over" /\ result'[p] = "found" /\ Kept(job[p].target)
        /\ \A q \in Processes \ {p} : stage'[q] = stage[q] /\ result'[q] = result[q]
    BY <1>0, <1>2 DEF StoresTypeOK, Kept
  <2> QED
    BY <1>1, <1>2, <2>1, <2>2, StoppedOK, ListerInd
<1>3. ASSUME NEW listed, listed \in SetToSeqs(Listed(p)) \/ listed = SetToSeq(Listed(p)),
             todo' = [todo EXCEPT ![p] = listed],
             stage' = [stage EXCEPT ![p] = "scan"], UNCHANGED result
      PROVE  StoresInd'
  <2>1. StoresTypeOK'
    BY <1>0, <1>1, <1>3 DEF StoresTypeOK, Stages
  <2>2. /\ stage'[p] = "scan" /\ todo'[p] = listed
        /\ \A q \in Processes \ {p} : stage'[q] = stage[q] /\ todo'[q] = todo[q]
    BY <1>0, <1>3 DEF StoresTypeOK
  <2>3. Listed(p) \subseteq D /\ Listed(p) \subseteq Docs
    BY DEF Listed, Runs
  <2>4. IsFiniteSet(Listed(p))
    BY <2>3, DocsFinite, FS_Subset
  <2>5. listed \in Seq(Listed(p))
    BY <1>3, <2>4, OrdersOfASet
  <2>6. listed \in Seq(D)
    <3> DEFINE L == Listed(p)
    <3> HIDE DEF L, D
    <3> QED
      BY <2>3, <2>5, SeqMonotonic DEF L
  <2>7. TodoOK(p)'
    BY <1>1, <2>2, <2>6, ListOK
  <2> QED
    BY <1>1, <1>3, <2>1, <2>2, <2>7, ListerInd
<1> QED
  BY <1>2, <1>3 DEF List

-----------------------------------------------------------------------------
LEMMA StoresStart == StoresInit => StoresInd
<1> SUFFICES ASSUME StoresInit PROVE StoresInd
  OBVIOUS
<1>1. /\ disk = [d \in Docs |-> Absent(d)]
      /\ stage = [p \in Processes |-> "new"] /\ job \in Jobs
      /\ todo = [p \in Processes |-> <<>>] /\ got = [p \in Processes |-> <<>>]
      /\ linked = [p \in Processes |-> FALSE] /\ scan = [p \in Processes |-> 0]
      /\ result = [p \in Processes |-> "none"] /\ memory = {} /\ removed = {} /\ faults = 0
  BY DEF StoresInit
<1>2. \A d \in Docs : disk[d].st = "absent" /\ disk[d].val = Blank(d)
  BY <1>1 DEF Absent
<1>3. StoresTypeOK
  BY <1>1, <1>2, StoresConstants DEF StoresTypeOK, Stages, Answers
<1>4. DeliveredInv /\ FoundInv
  BY <1>1 DEF DeliveredInv, FoundInv, Runs
<1>5. TodoInv
  BY <1>1 DEF TodoInv, TodoOK, Works, Lists
<1>6. SavesInv
  <2> SUFFICES ASSUME NEW p \in Processes, NEW u \in Pages, NEW d \in ArtifactsOf(p, u) PROVE SavesOK(p, d)
    BY DEF SavesInv
  <2>1. d \in Docs /\ disk[d].st = "absent" /\ stage[p] = "new"
    BY <1>1, <1>2, ArtifactsAre
  <2> QED
    BY <2>1 DEF SavesOK, Works
<1>7. HistoryInv
  <2>1. ASSUME NEW u \in Pages PROVE disk[<<"graph", u>>].val = <<>>
    <3>1. <<"graph", u>> \in Docs /\ Blank(<<"graph", u>>) = <<>>
      BY GraphIs
    <3> QED
      BY <1>2, <3>1
  <2>2. \A u \in Pages : IsHistory(disk[<<"graph", u>>].val)
    BY <2>1, EmptyHistory
  <2> QED
    BY <1>1, <2>2 DEF HistoryInv, GotOK
<1> QED
  BY <1>3, <1>4, <1>5, <1>6, <1>7, StoresParts

LEMMA StoresStep == StoresInd /\ [StoresNext]_storesVars => StoresInd'
<1> SUFFICES ASSUME StoresInd, [StoresNext]_storesVars PROVE StoresInd'
  OBVIOUS
<1>1. CASE StoresNext
  <2>1. PICK p \in Processes : Start(p) \/ Work(p) \/ Crash(p)
    BY <1>1 DEF StoresNext
  <2>2. CASE Start(p)
    BY <2>2, StartStep
  <2>3. CASE Work(p)
    BY <2>3, LoadStep, OpenStep, WriteStep, SaveFailsStep, MemoryStep, AnswerStep, ListStep, PruneStep,
       PruneOverStep, LookStep, LookOverStep DEF Work
  <2>4. CASE Crash(p)
    BY <2>4, CrashStep
  <2> QED
    BY <2>1, <2>2, <2>3, <2>4
<1>2. CASE UNCHANGED storesVars
  <2>0. /\ UNCHANGED <<disk, stage, job, todo, got, linked, scan, result>> /\ UNCHANGED <<memory, removed, faults>>
        /\ StoresTypeOK /\ DeliveredInv /\ FoundInv /\ TodoInv /\ SavesInv /\ HistoryInv
    BY <1>2, StoresParts DEF storesVars
  <2>1. StoresTypeOK'
    BY <2>0 DEF StoresTypeOK
  <2>2. KeepsAll
    BY <2>0, DiskSame
  <2>3. DeliveredInv' /\ FoundInv'
    BY <2>0 DEF DeliveredInv, FoundInv, Runs, Kept
  <2>4. TodoInv'
    <3>1. ASSUME NEW p \in Processes PROVE OwnTasks(p)' = OwnTasks(p)
      BY <2>0 DEF OwnTasks, Own, Runs
    <3> QED
      BY <2>0, <3>1 DEF TodoInv, TodoOK, Works, Lists, Runs, IsSave
  <2>5. SavesInv'
    BY <2>0 DEF SavesInv, SavesOK, Works, Runs, ToSave, IsSave, Kept
  <2>6. HistoryInv'
    <3>1. \A v : IsHistory(v) => IsHistory(v)'
      BY <2>0, <2>2, HistoryStable
    <3>2. \A t \in Processes \X Pages : TraceKept(t) => TraceKept(t)'
      BY <2>0, <2>2, TraceStable
    <3>3. \A u \in Pages : IsHistory(disk[<<"graph", u>>].val)'
      <4> TAKE u \in Pages
      <4>1. \A v : v = disk[<<"graph", u>>].val => IsHistory(v)'
        BY <2>0, <3>1 DEF HistoryInv
      <4> QED
        BY <2>0, <4>1
    <3>4. \A p \in Processes : GotOK(p)'
      <4> TAKE p \in Processes
      <4>1. GotOK(p) /\ (IsHistory(got[p]) => \A v : v = got[p] => IsHistory(v)')
        BY <2>0, <3>1 DEF HistoryInv
      <4> QED
        BY <2>0, <4>1 DEF GotOK
    <3> QED
      BY <2>0, <3>2, <3>3, <3>4 DEF HistoryInv
  <2> QED
    BY <2>1, <2>3, <2>4, <2>5, <2>6, StoresParts, PTL
<1> QED
  BY <1>1, <1>2

\* What read, query and crawl promise about the state directory they share
\* (runtime_ops.go, internal/store), for every set of processes, pages and
\* jobs, and whatever fails, is removed or dies on the way: an answered read
\* has its artifacts, the memory and the histories refer only to stored
\* reads, the histories stay chains and a lookup finds only what was stored.
THEOREM StoresInvariance == StoresSpec => []StoresInd
<1>1. StoresInit => StoresInd
  BY StoresStart
<1>2. StoresInd /\ [StoresNext]_storesVars => StoresInd'
  BY StoresStep
<1> QED
  BY <1>1, <1>2, PTL DEF StoresSpec

-----------------------------------------------------------------------------
(***************************************************************************)
(* Proofs about DiscoveryMemory: however statements of several operations  *)
(* are interleaved, and whichever of them fail, MemoryInd holds.           *)
(*                                                                         *)
(* The argument: a topic row, once there, is only ever replaced by one     *)
(* with pages, but for the deletion that begins a rebuild, and from then   *)
(* on that rebuild has every page before it until it has filed it; and the *)
(* rows that a writer finds are its own as long as no other writer runs.   *)
(***************************************************************************)

(* Steps, rows and roots *)

\* One step of an operation, with what is remembered of it.
OperationStep(a) ==
  (Begin(a) \/ FilesPage(a) \/ Administers(a) \/ Search(a) \/ RankFound(a) \/ Fails(a)) /\ Track(a)

\* What it leaves alone of the others.
Apart(a) ==
  /\ (\A d \in {DOMAIN pc, DOMAIN cur, DOMAIN level, DOMAIN reusable, DOMAIN queue, DOMAIN held,
                DOMAIN filed, DOMAIN steady} : d = Actors)'
  /\ \A b \in Actors \ {a} :
       /\ pc'[b] = pc[b] /\ cur'[b] = cur[b] /\ level'[b] = level[b]
       /\ reusable'[b] = reusable[b] /\ queue'[b] = queue[b] /\ held'[b] = held[b]
       /\ found'[b] = found[b] /\ now'[b] = now[b]
  /\ op' = op

TableTypes ==
  /\ {docs, embs, edges} \subseteq [URLs -> Stamped]
  /\ topics \in [Roots -> SUBSET URLs]
  /\ families \subseteq URLs \X Nat /\ members \subseteq families \X URLs

\* A topic row is named after a root.
LEMMA RootIn ==
  ASSUME NEW u \in URLs
  PROVE  /\ Len(RootsOf[u]) \in Nat
         /\ \A i \in 1..Len(RootsOf[u]) : RootsOf[u][i] \in Roots
<1>1. RootsOf[u] \in Seq(Roots)
  BY MemoryConstants
<1> QED
  BY <1>1, LenProperties, ElementOfSeq

LEMMA TableNames ==
  /\ Len(Tables) = 6 /\ Range(Tables) = {"documents", "edges", "embeddings", "topics", "families", "members"}
  /\ \A i \in 1..Len(Tables) : Tables[i] \in Range(Tables)
<1>1. Len(Tables) = 6 /\ DOMAIN Tables = 1..6
  BY DEF Tables
<1>2. /\ Tables[1] = "documents" /\ Tables[2] = "edges" /\ Tables[3] = "embeddings"
      /\ Tables[4] = "topics" /\ Tables[5] = "families" /\ Tables[6] = "members"
  BY DEF Tables
<1>3. 1..6 = {1, 2, 3, 4, 5, 6}
  OBVIOUS
<1> HIDE DEF Tables
<1>4. Range(Tables) = {Tables[i] : i \in {1, 2, 3, 4, 5, 6}}
  BY <1>1, <1>3 DEF Range
<1> QED
  BY <1>1, <1>2, <1>3, <1>4

\* What an export reads are rows of the table.
LEMMA ContentRows ==
  ASSUME TableTypes, NEW t \in Range(Tables)
  PROVE  Content(t) \subseteq RowsOf(t)
<1>1. /\ \A u \in URLs : docs[u] \in Stamped /\ edges[u] \in Stamped /\ embs[u] \in Stamped
      /\ \A r \in Roots : topics[r] \in SUBSET URLs
  BY DEF TableTypes
<1>2. CASE t = "documents"
  BY <1>1, <1>2 DEF Content, RowsOf
<1>3. CASE t = "edges"
  BY <1>1, <1>3 DEF Content, RowsOf
<1>4. CASE t = "embeddings"
  BY <1>1, <1>4 DEF Content, RowsOf
<1>5. CASE t = "topics"
  <2>1. \A r \in Roots : topics[r] # {} => <<r, topics[r]>> \in Roots \X ((SUBSET URLs) \ {{}})
    BY <1>1
  <2>2. Content(t) = {<<r, topics[r]>> : r \in {r \in Roots : topics[r] # {}}}
    BY <1>5 DEF Content
  <2>3. RowsOf(t) = Roots \X ((SUBSET URLs) \ {{}})
    BY <1>5 DEF RowsOf
  <2> QED
    BY <2>1, <2>2, <2>3
<1>6. CASE t = "families"
  BY <1>6 DEF Content, RowsOf
<1>7. CASE t = "members"
  BY <1>7 DEF Content, RowsOf, TableTypes
<1> QED
  BY <1>2, <1>3, <1>4, <1>5, <1>6, <1>7, TableNames

\* An operation leaves what the others have in hand alone.
LEMMA StepApart ==
  ASSUME MemoryTypeOK, NEW a \in Actors, OperationStep(a)
  PROVE  Apart(a)
<1> USE DEF Apart, MemoryTypeOK, Track, tables, locals, Goes, At
<1>1. op' = op /\ DOMAIN filed' = Actors /\ DOMAIN steady' = Actors
  BY DEF OperationStep
<1>2. CASE Begin(a)
  BY <1>1, <1>2 DEF Begin
<1>3. CASE Vector(a)
  BY <1>1, <1>3 DEF Vector
<1>4. CASE UpsertDocument(a)
  BY <1>1, <1>4 DEF UpsertDocument
<1>5. CASE UpsertEdges(a)
  BY <1>1, <1>5 DEF UpsertEdges
<1>6. CASE UpsertEmbedding(a)
  BY <1>1, <1>6 DEF UpsertEmbedding
<1>7. CASE JoinFamily(a)
  BY <1>1, <1>7 DEF JoinFamily
<1>8. CASE JoinMember(a)
  BY <1>1, <1>8 DEF JoinMember
<1>9. CASE LoadTopic(a)
  BY <1>1, <1>9 DEF LoadTopic
<1>10. CASE UpsertTopic(a)
  BY <1>1, <1>10 DEF UpsertTopic
<1>11. CASE Snapshot(a)
  BY <1>1, <1>11 DEF Snapshot
<1>12. CASE DeleteTopics(a)
  BY <1>1, <1>12 DEF DeleteTopics
<1>13. CASE ListDocuments(a)
  BY <1>1, <1>13 DEF ListDocuments
<1>14. CASE NextPage(a)
  BY <1>1, <1>14 DEF NextPage, Ends
<1>15. CASE PruneTables(a)
  BY <1>1, <1>15 DEF PruneTables, Ends
<1>16. CASE Export(a)
  BY <1>1, <1>16 DEF Export, Ends
<1>17. CASE OpenFile(a)
  BY <1>1, <1>17 DEF OpenFile, Ends
<1>18. CASE ImportRow(a)
  BY <1>1, <1>18 DEF ImportRow
<1>19. CASE CloseFile(a)
  BY <1>1, <1>19 DEF CloseFile, Ends
<1>20. CASE Search(a)
  BY <1>1, <1>20 DEF Search
<1>21. CASE RankFound(a)
  BY <1>1, <1>21 DEF RankFound
<1>22. CASE Fails(a)
  BY <1>1, <1>22 DEF Fails, Ends
<1> QED
  BY <1>2, <1>3, <1>4, <1>5, <1>6, <1>7, <1>8, <1>9, <1>10, <1>11, <1>12, <1>13, <1>14,
     <1>15, <1>16, <1>17, <1>18, <1>19, <1>20, <1>21, <1>22
     DEF OperationStep, FilesPage, Administers

-----------------------------------------------------------------------------
(* The types *)

DumpOK == DOMAIN dump = Range(Tables) /\ \A t \in Range(Tables) : dump[t].rows \subseteq RowsOf(t)
CountsOK ==
  /\ found \in [Actors -> [URLs -> Nat]] /\ clock \in Nat /\ now \in [Actors -> Nat]
  /\ errors \in 0..MaxErrors
Typed(a) == TableTypes /\ DumpOK /\ CountsOK /\ HandsOK(a)

\* Families are never removed, so what was a row of a table stays one.
LEMMA RowsStay ==
  ASSUME families \subseteq families', NEW t \in Range(Tables)
  PROVE  RowsOf(t) \subseteq RowsOf(t)'
BY DEF RowsOf

LEMMA OthersHands ==
  ASSUME MemoryTypeOK, NEW a \in Actors, Apart(a), families \subseteq families',
         NEW b \in Actors, b # a
  PROVE  HandsOK(b)'
<1>1. /\ pc'[b] = pc[b] /\ cur'[b] = cur[b] /\ level'[b] = level[b]
      /\ queue'[b] = queue[b] /\ held'[b] = held[b] /\ op' = op
  BY DEF Apart
<1>2. HandsOK(b)
  BY DEF MemoryTypeOK
<1>3. \A t \in Range(Tables) : RowsOf(t) \subseteq RowsOf(t)'
  BY RowsStay
<1>4. (pc[b] = "rows" => \E t \in Range(Tables) : Tables[level[b]] = t /\ queue[b] \subseteq RowsOf(t))'
  BY <1>1, <1>2, <1>3 DEF HandsOK
<1>5. (/\ pc[b] \in Over \cup Standings(op[b].kind)
       /\ pc[b] \in Filing => cur[b] \in URLs \X Nat
       /\ op[b].kind = "observe" => /\ queue[b] = {}
                                    /\ Underway(b) => cur[b] = <<op[b].url, op[b].rev>>
       /\ op[b].kind = "refresh" => queue[b] \subseteq URLs \X Nat
       /\ op[b].kind = "rebuild" => queue[b] \subseteq URLs \X {0})'
  BY <1>1, <1>2 DEF HandsOK, Underway, Standings, Over
<1>6. (/\ pc[b] \in (Filing \ {"topic", "row"}) \cup {"next", "list", "delete", "snapshot"} => level[b] = 1
       /\ pc[b] = "topic" => level[b] \in Nat \ {0}
       /\ pc[b] = "member" => held[b] \subseteq families
       /\ pc[b] = "row" => /\ level[b] \in 1..Len(RootsOf[URL(b)])
                           /\ held[b] \subseteq URLs /\ held[b] # {}
       /\ pc[b] \in {"export", "import", "rows"} => level[b] \in 1..Len(Tables))'
  BY <1>1, <1>2 DEF HandsOK, URL
<1> QED
  BY <1>4, <1>5, <1>6 DEF HandsOK

LEMMA DumpStays ==
  ASSUME DumpOK, families \subseteq families', dump' = dump
  PROVE  DumpOK'
BY RowsStay DEF DumpOK

\* Nothing is left in hand at the end.
LEMMA EndsHands ==
  ASSUME MemoryTypeOK, NEW a \in Actors, NEW how \in {"ok", "failed"}, Ends(a, how)
  PROVE  HandsOK(a)' /\ now' \in [Actors -> Nat] /\ found' = found
<1>1. /\ pc'[a] = how /\ queue'[a] = {} /\ found' = found /\ now' = [now EXCEPT ![a] = 0]
  BY DEF Ends, MemoryTypeOK
<1>2. HandsOK(a)'
  BY <1>1 DEF HandsOK, Underway, Over, Filing
<1> QED
  BY <1>1, <1>2 DEF MemoryTypeOK

LEMMA TypesNow ==
  ASSUME MemoryTypeOK, NEW a \in Actors
  PROVE  /\ TableTypes /\ DumpOK /\ CountsOK /\ HandsOK(a)
         /\ op[a].kind \in MemoryKinds
         /\ op[a].kind = "observe" => op[a].url \in URLs /\ op[a].rev \in Nat \ {0}
         /\ op[a].kind = "search" =>
              op[a].score \in [URLs -> Nat] /\ op[a].limit \in Nat /\ op[a].floor \in Nat
BY MemoryConstants DEF MemoryTypeOK, TableTypes, DumpOK, CountsOK

LEMMA BeginTyped ==
  ASSUME MemoryTypeOK, NEW a \in Actors, Begin(a), op' = op
  PROVE  Typed(a)' /\ families' = families
<1> USE DEF Begin, tables, Opening
<1>1. /\ TableTypes' /\ families' = families /\ CountsOK'
  BY TypesNow DEF TableTypes, CountsOK
<1>2. DumpOK'
  BY TypesNow, DumpStays
<1>3. /\ pc'[a] = Opening(a) /\ level'[a] = 1 /\ queue'[a] = queue[a] /\ held'[a] = held[a]
      /\ op[a].kind = "observe" => cur'[a] = <<op[a].url, op[a].rev>>
  BY DEF MemoryTypeOK
<1>4. HandsOK(a)'
  BY <1>3, TypesNow, TableNames DEF HandsOK, Standings, Underway, Over, Filing, MemoryKinds
<1> QED
  BY <1>1, <1>2, <1>4 DEF Typed

LEMMA FilesTyped ==
  ASSUME MemoryTypeOK, NEW a \in Actors, FilesPage(a), op' = op
  PROVE  Typed(a)' /\ families \subseteq families'
<1> USE DEF tables, locals, Goes, At
<1>0. /\ TableTypes /\ DumpOK /\ CountsOK /\ HandsOK(a) /\ op[a].kind \in MemoryKinds
  BY TypesNow
<1>1. CASE Vector(a)
  <2>1. /\ TableTypes' /\ families' = families /\ CountsOK'
    BY <1>0, <1>1 DEF Vector, TableTypes, CountsOK
  <2>2. DumpOK'
    BY <1>0, <1>1, DumpStays DEF Vector
  <2>3. HandsOK(a)'
    BY <1>0, <1>1 DEF Vector, HandsOK, Standings, Underway, Over, Filing, MemoryTypeOK, MemoryKinds
  <2> QED
    BY <2>1, <2>2, <2>3 DEF Typed
<1>r. pc[a] \in Filing => URL(a) \in URLs /\ Row(a) \in Stamped
  BY <1>0 DEF HandsOK, URL, Row, CountsOK, Stamped
<1>2. CASE UpsertDocument(a)
  <2>1. /\ TableTypes' /\ families' = families /\ CountsOK'
    BY <1>0, <1>r, <1>2 DEF UpsertDocument, TableTypes, CountsOK, Filing
  <2>2. DumpOK'
    BY <1>0, <1>2, DumpStays DEF UpsertDocument
  <2>3. HandsOK(a)'
    BY <1>0, <1>2 DEF UpsertDocument, HandsOK, Standings, Underway, Over, Filing, MemoryTypeOK, MemoryKinds
  <2> QED
    BY <2>1, <2>2, <2>3 DEF Typed
<1>3. CASE UpsertEdges(a)
  <2>1. /\ TableTypes' /\ families' = families /\ CountsOK'
    BY <1>0, <1>r, <1>3 DEF UpsertEdges, TableTypes, CountsOK, Filing
  <2>2. DumpOK'
    BY <1>0, <1>3, DumpStays DEF UpsertEdges
  <2>3. HandsOK(a)'
    BY <1>0, <1>3 DEF UpsertEdges, HandsOK, Standings, Underway, Over, Filing, MemoryTypeOK, MemoryKinds
  <2> QED
    BY <2>1, <2>2, <2>3 DEF Typed
<1>4. CASE UpsertEmbedding(a)
  <2>1. /\ TableTypes' /\ families' = families /\ CountsOK'
    BY <1>0, <1>r, <1>4 DEF UpsertEmbedding, TableTypes, CountsOK, Filing
  <2>2. DumpOK'
    BY <1>0, <1>4, DumpStays DEF UpsertEmbedding
  <2>3. HandsOK(a)'
    BY <1>0, <1>4 DEF UpsertEmbedding, HandsOK, Standings, Underway, Over, Filing, MemoryTypeOK, MemoryKinds
  <2> QED
    BY <2>1, <2>2, <2>3 DEF Typed
<1>5. CASE JoinFamily(a)
  <2>0. PICK f \in families \cup {cur[a]} :
          families' = families \cup {f} /\ held' = [held EXCEPT ![a] = {f}]
    BY <1>5 DEF JoinFamily
  <2>1. /\ TableTypes' /\ families \subseteq families' /\ CountsOK'
    BY <1>0, <1>5, <2>0 DEF JoinFamily, TableTypes, CountsOK, HandsOK, Filing
  <2>2. DumpOK'
    BY <1>0, <1>5, <2>1, DumpStays DEF JoinFamily
  <2>3. HandsOK(a)'
    BY <1>0, <1>5, <2>0 DEF JoinFamily, HandsOK, Standings, Underway, Over, Filing, MemoryTypeOK, MemoryKinds
  <2> QED
    BY <2>1, <2>2, <2>3 DEF Typed
<1>6. CASE JoinMember(a)
  <2>1. /\ TableTypes' /\ families' = families /\ CountsOK'
    BY <1>0, <1>r, <1>6 DEF JoinMember, TableTypes, CountsOK, HandsOK, Filing
  <2>2. DumpOK'
    BY <1>0, <1>6, DumpStays DEF JoinMember
  <2>3. HandsOK(a)'
    BY <1>0, <1>6 DEF JoinMember, HandsOK, Standings, Underway, Over, Filing, MemoryTypeOK, MemoryKinds
  <2> QED
    BY <2>1, <2>2, <2>3 DEF Typed
<1>7. CASE LoadTopic(a)
  <2>1. /\ TableTypes' /\ families' = families /\ CountsOK'
    BY <1>0, <1>7 DEF LoadTopic, TableTypes, CountsOK
  <2>2. DumpOK'
    BY <1>0, <1>7, DumpStays DEF LoadTopic
  <2>3. HandsOK(a)'
    <3>1. CASE level[a] > Len(RootsOf[URL(a)])
      BY <1>0, <1>7, <3>1 DEF LoadTopic, HandsOK, Standings, Underway, Over, Filing, MemoryTypeOK, MemoryKinds
    <3>2. CASE level[a] <= Len(RootsOf[URL(a)])
      <4>1. Below(RootsOf[URL(a)][level[a]]) \subseteq URLs
        BY DEF Below, Searchable
      <4>2. level[a] \in 1..Len(RootsOf[URL(a)]) /\ ~(level[a] > Len(RootsOf[URL(a)]))
        BY <1>0, <1>r, <1>7, <3>2, RootIn DEF LoadTopic, HandsOK, Filing
      <4>3. CASE Below(RootsOf[URL(a)][level[a]]) = {}
        BY <1>0, <1>7, <4>2, <4>3 DEF LoadTopic, HandsOK, Standings, Underway, Over, Filing, MemoryTypeOK, MemoryKinds
      <4>4. CASE Below(RootsOf[URL(a)][level[a]]) # {}
        <5>1. /\ pc[a] = "topic" /\ pc'[a] = "row" /\ level'[a] = level[a]
              /\ held'[a] = Below(RootsOf[URL(a)][level[a]]) /\ queue' = queue /\ cur' = cur
          BY <1>7, <4>2, <4>4 DEF LoadTopic, MemoryTypeOK
        <5>2. (pc[a] = "row" => /\ level[a] \in 1..Len(RootsOf[URL(a)])
                                /\ held[a] \subseteq URLs /\ held[a] # {})'
          BY <4>1, <4>2, <4>4, <5>1 DEF URL
        <5> QED
          BY <1>0, <5>1, <5>2 DEF HandsOK, Standings, Underway, Over, Filing, MemoryKinds
      <4> QED
        BY <4>3, <4>4
    <3> QED
      BY <1>0, <1>r, <1>7, <3>1, <3>2, RootIn DEF LoadTopic, HandsOK, Filing
  <2> QED
    BY <2>1, <2>2, <2>3 DEF Typed
<1>8. CASE UpsertTopic(a)
  <2>0. RootsOf[URL(a)][level[a]] \in Roots /\ level[a] \in Nat /\ held[a] \subseteq URLs
    BY <1>0, <1>r, <1>8, RootIn DEF UpsertTopic, HandsOK, Filing
  <2>1. /\ TableTypes' /\ families' = families /\ CountsOK'
    BY <1>0, <1>8, <2>0 DEF UpsertTopic, TableTypes, CountsOK
  <2>2. DumpOK'
    BY <1>0, <1>8, DumpStays DEF UpsertTopic
  <2>3. HandsOK(a)'
    BY <1>0, <1>8, <2>0 DEF UpsertTopic, HandsOK, Standings, Underway, Over, Filing, MemoryTypeOK, MemoryKinds
  <2> QED
    BY <2>1, <2>2, <2>3 DEF Typed
<1> QED
  BY <1>1, <1>2, <1>3, <1>4, <1>5, <1>6, <1>7, <1>8 DEF FilesPage

LEMMA AdministersTyped ==
  ASSUME MemoryTypeOK, NEW a \in Actors, Administers(a), op' = op
  PROVE  Typed(a)' /\ families \subseteq families'
<1> USE DEF tables, locals, Goes, At
<1>0. /\ TableTypes /\ DumpOK /\ CountsOK /\ HandsOK(a) /\ op[a].kind \in MemoryKinds
  BY TypesNow
<1>1. CASE Snapshot(a)
  <2>1. /\ TableTypes' /\ families' = families /\ CountsOK'
    BY <1>0, <1>1 DEF Snapshot, TableTypes, CountsOK
  <2>2. DumpOK'
    BY <1>0, <1>1, DumpStays DEF Snapshot
  <2>3. \A u \in URLs : docs[u].rev \in Nat
    BY <1>0 DEF TableTypes, Stamped
  <2>4. HandsOK(a)'
    BY <1>0, <1>1, <2>3 DEF Snapshot, HandsOK, Standings, Underway, Over, Filing, MemoryTypeOK, MemoryKinds
  <2> QED
    BY <2>1, <2>2, <2>4 DEF Typed
<1>2. CASE DeleteTopics(a)
  <2>1. /\ TableTypes' /\ families' = families /\ CountsOK'
    BY <1>0, <1>2 DEF DeleteTopics, TableTypes, CountsOK
  <2>2. DumpOK'
    BY <1>0, <1>2, DumpStays DEF DeleteTopics
  <2>3. HandsOK(a)'
    BY <1>0, <1>2 DEF DeleteTopics, HandsOK, Standings, Underway, Over, Filing, MemoryTypeOK, MemoryKinds
  <2> QED
    BY <2>1, <2>2, <2>3 DEF Typed
<1>3. CASE ListDocuments(a)
  <2>1. /\ TableTypes' /\ families' = families /\ CountsOK'
    BY <1>0, <1>3 DEF ListDocuments, TableTypes, CountsOK
  <2>2. DumpOK'
    BY <1>0, <1>3, DumpStays DEF ListDocuments
  <2>3. HandsOK(a)'
    BY <1>0, <1>3 DEF ListDocuments, Searchable, HandsOK, Standings, Underway, Over, Filing, MemoryTypeOK, MemoryKinds
  <2> QED
    BY <2>1, <2>2, <2>3 DEF Typed
<1>4. CASE NextPage(a)
  <2>1. /\ TableTypes' /\ families' = families /\ dump' = dump
    BY <1>0, <1>4 DEF NextPage, TableTypes
  <2>2. DumpOK'
    BY <1>0, <2>1, DumpStays
  <2>3. CASE queue[a] = {} /\ Ends(a, "ok")
    <3>1. CountsOK' /\ HandsOK(a)'
      BY <1>0, <1>4, <2>3, EndsHands DEF NextPage, CountsOK
    <3> QED
      BY <2>1, <2>2, <3>1 DEF Typed
  <2>4. ASSUME NEW item \in queue[a],
               /\ queue' = [queue EXCEPT ![a] = @ \ {item}] /\ cur' = [cur EXCEPT ![a] = item]
               /\ Goes(a, IF op[a].kind = "rebuild" THEN "topic" ELSE "vector")
               /\ UNCHANGED <<now, level, reusable, held, found, broken>>
        PROVE  Typed(a)'
    <3>1. CountsOK'
      BY <1>0, <1>4, <2>4 DEF NextPage, CountsOK
    <3>2. HandsOK(a)'
      BY <1>0, <1>4, <2>4
         DEF NextPage, HandsOK, Standings, Underway, Over, Filing, MemoryTypeOK, MemoryKinds
    <3> QED
      BY <2>1, <2>2, <3>1, <3>2 DEF Typed
  <2> QED
    BY <1>4, <2>1, <2>3, <2>4 DEF NextPage
<1>5. CASE PruneTables(a)
  <2>1. \A table \in [URLs -> Stamped] : \A n : Newest(table, n) \subseteq [URLs -> Stamped]
    <3> TAKE table \in [URLs -> Stamped]
    <3> TAKE n
    <3>1. \A k : [u \in URLs |-> IF u \in k THEN table[u] ELSE NoRow] \in [URLs -> Stamped]
      BY DEF NoRow, Stamped
    <3>2. \A new \in Newest(table, n) : \E k :
            new = [u \in URLs |-> IF u \in k THEN table[u] ELSE NoRow]
      BY Zenon DEF Newest
    <3> QED
      BY <3>1, <3>2
  <2>2. /\ TableTypes' /\ families' = families
    BY <1>0, <1>5, <2>1 DEF PruneTables, TableTypes
  <2>3. DumpOK'
    BY <1>0, <1>5, DumpStays DEF PruneTables
  <2>4. CountsOK' /\ HandsOK(a)'
    BY <1>0, <1>5, EndsHands DEF PruneTables, CountsOK
  <2> QED
    BY <2>2, <2>3, <2>4 DEF Typed
<1>6. CASE Export(a)
  <2>1. /\ TableTypes' /\ families' = families /\ now' \in [Actors -> Nat] /\ CountsOK'
    BY <1>0, <1>6, EndsHands DEF Export, TableTypes, CountsOK
  <2>2. level[a] \in 1..Len(Tables) /\ Tables[level[a]] \in Range(Tables)
    BY <1>0, <1>6, TableNames DEF Export, HandsOK, Over, Standings
  <2>3. DumpOK'
    <3>1. \A t \in Range(Tables) : Content(t) \subseteq RowsOf(t)' /\ RowsOf(t) \subseteq RowsOf(t)'
      BY <1>0, <2>1, ContentRows, RowsStay
    <3> QED
      BY <1>0, <1>6, <2>2, <3>1 DEF Export, DumpOK
  <2>4. HandsOK(a)'
    <3>1. CASE level[a] = Len(Tables)
      BY <1>6, <3>1, EndsHands DEF Export
    <3>2. CASE level[a] # Len(Tables)
      BY <1>0, <1>6, <2>2, <3>2, TableNames
         DEF Export, HandsOK, Standings, Underway, Over, Filing, MemoryTypeOK, MemoryKinds
    <3> QED
      BY <3>1, <3>2
  <2> QED
    BY <2>1, <2>3, <2>4 DEF Typed
<1>7. CASE OpenFile(a)
  <2>1. /\ TableTypes' /\ families' = families /\ CountsOK'
    BY <1>0, <1>7, EndsHands DEF OpenFile, TableTypes, CountsOK
  <2>2. level[a] \in 1..Len(Tables) /\ Tables[level[a]] \in Range(Tables)
    BY <1>0, <1>7, TableNames DEF OpenFile, HandsOK, Over, Standings
  <2>3. DumpOK'
    BY <1>0, <1>7, DumpStays DEF OpenFile
  <2>4. HandsOK(a)'
    <3>1. CASE Ends(a, "failed")
      BY <3>1, EndsHands
    <3>2. CASE /\ queue' = [queue EXCEPT ![a] = dump[Tables[level[a]]].rows] /\ Goes(a, "rows")
               /\ UNCHANGED <<now, cur, level, reusable, held, found>>
      <4>1. dump[Tables[level[a]]].rows \subseteq RowsOf(Tables[level[a]])
        BY <1>0, <2>2 DEF DumpOK
      <4>2. /\ pc'[a] = "rows" /\ level'[a] = level[a] /\ queue'[a] = dump[Tables[level[a]]].rows
            /\ op[a].kind = "import"
        BY <1>0, <1>7, <3>2 DEF OpenFile, HandsOK, Over, Standings, MemoryTypeOK, MemoryKinds, Filing
      <4>3. \A t \in Range(Tables) : RowsOf(t) \subseteq RowsOf(t)'
        BY <2>1, RowsStay
      <4> QED
        BY <2>2, <4>1, <4>2, <4>3 DEF HandsOK, Standings, Underway, Over, Filing
    <3> QED
      BY <1>7, <3>1, <3>2 DEF OpenFile
  <2> QED
    BY <2>1, <2>3, <2>4 DEF Typed
<1>8. CASE CloseFile(a)
  <2>1. /\ TableTypes' /\ families' = families /\ CountsOK'
    BY <1>0, <1>8, EndsHands DEF CloseFile, TableTypes, CountsOK
  <2>2. DumpOK'
    BY <1>0, <1>8, DumpStays DEF CloseFile
  <2>3. HandsOK(a)'
    <3>1. CASE level[a] = Len(Tables)
      BY <1>8, <3>1, EndsHands DEF CloseFile
    <3>2. CASE level[a] # Len(Tables)
      BY <1>0, <1>8, <3>2, TableNames
         DEF CloseFile, HandsOK, Standings, Underway, Over, Filing, MemoryTypeOK, MemoryKinds
    <3> QED
      BY <3>1, <3>2
  <2> QED
    BY <2>1, <2>2, <2>3 DEF Typed
<1>9. CASE ImportRow(a)
  <2>0. PICK t \in Range(Tables) : Tables[level[a]] = t /\ queue[a] \subseteq RowsOf(t)
    BY <1>0, <1>9 DEF ImportRow, HandsOK
  <2>1. PICK row \in queue[a] :
          /\ docs' = IF t = "documents" THEN Put(docs, row) ELSE docs
          /\ embs' = IF t = "embeddings" THEN Put(embs, row) ELSE embs
          /\ topics' = IF t = "topics" THEN Put(topics, row) ELSE topics
          /\ families' = IF t = "families" THEN families \cup {row} ELSE families
          /\ members' = IF t = "members" THEN members \cup {row} ELSE members
          /\ edges' = IF t = "edges"
                      THEN [u \in URLs |-> IF \E r \in queue[a] : r[1] = u
                                           THEN (CHOOSE r \in queue[a] : r[1] = u)[2] ELSE edges[u]]
                      ELSE edges
          /\ queue' = [queue EXCEPT ![a] = IF t = "edges" THEN {} ELSE @ \ {row}]
    BY <1>9, <2>0 DEF ImportRow
  <2>2. row \in RowsOf(t)
    BY <2>0
  <2>3. families' = families
    BY <2>1, <2>2 DEF RowsOf
  <2>4. members' \subseteq families' \X URLs
    BY <1>0, <2>1, <2>2, <2>3 DEF RowsOf, TableTypes
  <2>5. docs' \in [URLs -> Stamped] /\ embs' \in [URLs -> Stamped]
    BY <1>0, <2>1, <2>2 DEF RowsOf, TableTypes, Put
  <2>6. topics' \in [Roots -> SUBSET URLs]
    BY <1>0, <2>1, <2>2 DEF RowsOf, TableTypes, Put
  <2>7. edges' \in [URLs -> Stamped]
    <3>1. CASE t = "edges"
      <4>1. \A r \in queue[a] : r[2] \in Stamped
        BY <2>0, <3>1 DEF RowsOf
      <4> QED
        BY <1>0, <2>1, <3>1, <4>1 DEF TableTypes
    <3>2. CASE t # "edges"
      BY <1>0, <2>1, <3>2 DEF TableTypes
    <3> QED
      BY <3>1, <3>2
  <2>8. TableTypes' /\ CountsOK'
    BY <1>0, <1>9, <2>3, <2>4, <2>5, <2>6, <2>7 DEF TableTypes, CountsOK, ImportRow
  <2>9. DumpOK'
    BY <1>0, <1>9, <2>3, DumpStays DEF ImportRow
  <2>10. HandsOK(a)'
    <3>1. RowsOf(t) \subseteq RowsOf(t)'
      BY <2>3, RowsStay
    <3>2. queue'[a] \subseteq queue[a]
      BY <2>1 DEF MemoryTypeOK
    <3> QED
      BY <1>0, <1>9, <2>0, <3>1, <3>2
         DEF ImportRow, HandsOK, Standings, Underway, Over, Filing, MemoryTypeOK, MemoryKinds
  <2> QED
    BY <2>3, <2>8, <2>9, <2>10 DEF Typed
<1> QED
  BY <1>1, <1>2, <1>3, <1>4, <1>5, <1>6, <1>7, <1>8, <1>9 DEF Administers

\* Whatever a stage of a search finds has a score.
LEMMA HitScores ==
  ASSUME MemoryTypeOK, NEW a \in Actors, op[a].kind = "search",
         NEW scored \in TopicHits(a) \cup PageHits(a) \cup FamilyHits(a) \cup NearHits(a),
         NEW u \in URLs
  PROVE  scored[u] \in Nat
<1>1. op[a].score \in [URLs -> Nat]
  BY TypesNow
<1>2. ASSUME NEW S, NEW n, scored \in RowHits(S, n) PROVE scored[u] \in Nat
  BY <1>2, MemoryConstants DEF RowHits
<1>3. CASE scored \in TopicHits(a)
  BY <1>2, <1>3 DEF TopicHits
<1>4. CASE scored \in PageHits(a)
  <2>1. PICK B : scored = Only(B, op[a].score)
    BY <1>4 DEF PageHits
  <2> QED
    BY <1>1, <2>1 DEF Only
<1>5. CASE scored \in FamilyHits(a)
  BY <1>2, <1>5 DEF FamilyHits
<1>6. CASE scored \in NearHits(a)
  BY <1>2, <1>6 DEF NearHits, NothingFound
<1> QED
  BY <1>3, <1>4, <1>5, <1>6

LEMMA SearchTyped ==
  ASSUME MemoryTypeOK, NEW a \in Actors, Search(a), op' = op
  PROVE  Typed(a)' /\ families' = families
<1>0. /\ TableTypes /\ DumpOK /\ CountsOK /\ HandsOK(a)
  BY TypesNow
<1>1. TableTypes' /\ families' = families /\ DumpOK'
  BY <1>0, DumpStays DEF Search, TableTypes, tables
<1>2. op[a].kind = "search"
  BY <1>0, TypesNow DEF Search, At, HandsOK, Over, Standings, MemoryKinds, Filing
<1>3. found' \in [Actors -> [URLs -> Nat]]
  <2>1. PICK scored \in CASE level[a] = 1 -> TopicHits(a)
                   [] level[a] = 2 -> PageHits(a)
                   [] level[a] = 3 -> FamilyHits(a)
                   [] OTHER -> NearHits(a) :
          found' = [found EXCEPT ![a] =
                      [u \in URLs |-> IF scored[u] > found[a][u] THEN scored[u] ELSE found[a][u]]]
    BY DEF Search
  <2>2. \A u \in URLs : scored[u] \in Nat
    BY <1>2, <2>1, HitScores
  <2> QED
    BY <1>0, <2>1, <2>2 DEF CountsOK
<1>4. CountsOK'
  BY <1>0, <1>3 DEF CountsOK, Search
<1>5. HandsOK(a)'
  BY <1>0, <1>2
     DEF Search, At, Goes, HandsOK, Standings, Underway, Over, Filing, MemoryTypeOK, MemoryKinds
<1> QED
  BY <1>1, <1>4, <1>5 DEF Typed

LEMMA RankTyped ==
  ASSUME MemoryTypeOK, NEW a \in Actors, RankFound(a), op' = op
  PROVE  Typed(a)' /\ families' = families
<1>0. /\ TableTypes /\ DumpOK /\ CountsOK /\ HandsOK(a)
  BY TypesNow
<1>1. TableTypes' /\ families' = families /\ DumpOK'
  BY <1>0, DumpStays DEF RankFound, TableTypes, tables
<1>2. op[a].kind = "search"
  BY <1>0, TypesNow DEF RankFound, At, HandsOK, Over, Standings, MemoryKinds, Filing
<1>3. found' \in [Actors -> [URLs -> Nat]]
  <2>1. PICK B : found' = [found EXCEPT ![a] = Only(B, found[a])]
    BY DEF RankFound
  <2> QED
    BY <1>0, <2>1 DEF CountsOK, Only
<1>4. CountsOK'
  BY <1>0, <1>3 DEF CountsOK, RankFound
<1>5. HandsOK(a)'
  BY <1>0, <1>2
     DEF RankFound, At, Goes, HandsOK, Standings, Underway, Over, Filing, MemoryTypeOK, MemoryKinds
<1> QED
  BY <1>1, <1>4, <1>5 DEF Typed

LEMMA FailsTyped ==
  ASSUME MemoryTypeOK, NEW a \in Actors, Fails(a), op' = op
  PROVE  Typed(a)' /\ families' = families
<1>1. /\ TableTypes /\ DumpOK /\ CountsOK
  BY TypesNow
<1>2. TableTypes' /\ families' = families /\ DumpOK'
  BY <1>1, DumpStays DEF Fails, TableTypes, tables
<1>3. HandsOK(a)' /\ CountsOK'
  BY <1>1, EndsHands, MemoryConstants DEF Fails, CountsOK
<1> QED
  BY <1>2, <1>3 DEF Typed

LEMMA StepTypes ==
  ASSUME MemoryTypeOK, NEW a \in Actors, OperationStep(a)
  PROVE  MemoryTypeOK' /\ Apart(a) /\ families \subseteq families'
<1>1. Apart(a) /\ op' = op
  BY StepApart DEF Apart
<1>2. Typed(a)' /\ families \subseteq families'
  BY <1>1, BeginTyped, FilesTyped, AdministersTyped, SearchTyped, RankTyped, FailsTyped DEF OperationStep
<1>3. \A b \in Actors : b # a => HandsOK(b)'
  BY <1>1, <1>2, OthersHands
<1>4. (\A b \in Actors : HandsOK(b))'
  BY <1>2, <1>3 DEF Typed
<1>5. op' \in Plans
  BY <1>1 DEF MemoryTypeOK
<1>6. TableTypes' /\ DumpOK' /\ CountsOK'
  BY <1>2 DEF Typed
<1>7. (\A d \in {DOMAIN pc, DOMAIN cur, DOMAIN level, DOMAIN reusable, DOMAIN queue, DOMAIN held,
             DOMAIN filed, DOMAIN steady} : d = Actors)'
  BY <1>1 DEF Apart
<1> QED
  BY <1>1, <1>2, <1>4, <1>5, <1>6, <1>7 DEF MemoryTypeOK, TableTypes, DumpOK, CountsOK

-----------------------------------------------------------------------------
(* Searches *)

\* Each operation moves only where its kind allows.
LEMMA KindAt ==
  ASSUME MemoryTypeOK, NEW a \in Actors
  PROVE  /\ pc[a] = "search" => op[a].kind = "search"
         /\ pc[a] \in {"delete", "list"} => op[a].kind = "rebuild"
         /\ pc[a] \in {"document", "edges"} => op[a].kind = "observe"
         /\ pc[a] \in {"vector", "embedding", "family", "member"} => op[a].kind \in {"observe", "refresh"}
         /\ pc[a] \in {"topic", "row", "next"} => op[a].kind \in {"observe", "refresh", "rebuild"}
         /\ pc[a] = "snapshot" => op[a].kind = "refresh"
         /\ pc[a] = "prune" => op[a].kind = "prune"
         /\ pc[a] = "export" => op[a].kind = "export"
         /\ pc[a] \in {"import", "rows"} => op[a].kind = "import"
         /\ Underway(a) => op[a].kind # "none"
<1>1. HandsOK(a) /\ op[a].kind \in MemoryKinds
  BY TypesNow
<1> QED
  BY <1>1 DEF HandsOK, Standings, Over, Filing, MemoryKinds, Underway

\* While a search runs, its actor does nothing else.
LEMMA OnlySearches ==
  ASSUME MemoryTypeOK, NEW a \in Actors, OperationStep(a), op[a].kind = "search"
  PROVE  Begin(a) \/ Search(a) \/ RankFound(a) \/ Fails(a)
<1>1. ~FilesPage(a)
  BY KindAt DEF FilesPage, Vector, UpsertDocument, UpsertEdges, UpsertEmbedding, JoinFamily,
                JoinMember, LoadTopic, UpsertTopic, At
<1>2. ~Administers(a)
  BY KindAt DEF Administers, Snapshot, DeleteTopics, ListDocuments, NextPage, PruneTables,
                Export, OpenFile, ImportRow, CloseFile, At
<1> QED
  BY <1>1, <1>2 DEF OperationStep

\* Pages that a search has a score of at least n for.
Reaching(a, n) == {v \in URLs : found[a][v] >= n}

\* Who is served stays served when no page loses its score.
LEMMA ServedStays ==
  ASSUME MemoryTypeOK, NEW a \in Actors, op[a].kind = "search", NEW u \in URLs, op' = op,
         found' \in [Actors -> [URLs -> Nat]],
         \A v \in URLs : found'[a][v] >= found[a][v], Served(a, u)
  PROVE  Served(a, u)'
<1>1. op[a].score[u] \in Nat /\ op[a].limit \in Nat /\ found \in [Actors -> [URLs -> Nat]]
  BY TypesNow DEF CountsOK
<1>2. CASE found[a][u] >= op[a].score[u]
  <2>1. found'[a][u] >= op[a].score[u]
    BY <1>1, <1>2
  <2> QED
    BY <2>1 DEF Served
<1>3. CASE Cardinality(Reaching(a, op[a].score[u])) >= StageLimit(op[a].limit)
  <2> DEFINE old == Reaching(a, op[a].score[u])
             after == {v \in URLs : found'[a][v] >= op[a].score[u]}
  <2>1. old \subseteq after
    BY <1>1 DEF Reaching
  <2>2. IsFiniteSet(after)
    BY MemoryConstants, FS_Subset
  <2>3. Cardinality(old) <= Cardinality(after)
    BY <2>1, <2>2, FS_Subset
  <2>4. Cardinality(old) \in Nat /\ Cardinality(after) \in Nat
    BY <2>1, <2>2, FS_Subset, FS_CardinalityType
  <2>5. StageLimit(op[a].limit) \in Nat
    BY <1>1 DEF StageLimit
  <2>6. Cardinality(after) >= StageLimit(op[a].limit)
    BY <1>3, <2>3, <2>4, <2>5
  <2> QED
    BY <2>6 DEF Served
<1> QED
  BY <1>2, <1>3 DEF Served, Reaching

\* The stage that ranks the pages serves each of them.
LEMMA PagesServed ==
  ASSUME MemoryTypeOK, NEW a \in Actors, op[a].kind = "search", NEW u \in Searchable,
         op[a].score[u] # 0, op' = op, found' \in [Actors -> [URLs -> Nat]],
         NEW scored \in PageHits(a), \A v \in URLs : found'[a][v] >= scored[v]
  PROVE  Served(a, u)'
<1> DEFINE alike == {v \in Searchable : op[a].score[v] # 0}
           n == StageLimit(op[a].limit)
<1>1. /\ op[a].score \in [URLs -> Nat] /\ op[a].limit \in Nat /\ u \in URLs /\ n \in Nat
  BY TypesNow DEF Searchable, StageLimit
<1>2. PICK B \in Best(alike, op[a].score, n) : scored = Only(B, op[a].score)
  BY DEF PageHits
<1>3. /\ B \subseteq alike /\ (B = alike \/ Cardinality(B) = n)
      /\ \A v \in B, w \in alike \ B : op[a].score[v] >= op[a].score[w]
  BY <1>2 DEF Best
<1>4. \A v \in B : v \in URLs /\ found'[a][v] >= op[a].score[v]
  BY <1>2, <1>3 DEF Only, Searchable
<1>5. CASE u \in B
  BY <1>4, <1>5 DEF Served
<1>6. CASE u \notin B
  <2> DEFINE after == {v \in URLs : found'[a][v] >= op[a].score[u]}
  <2>1. \A v \in B : op[a].score[v] >= op[a].score[u]
    BY <1>3, <1>6
  <2>2. B \subseteq after
    <3> SUFFICES ASSUME NEW v \in B PROVE v \in after
      OBVIOUS
    <3>1. /\ op[a].score[v] \in Nat /\ op[a].score[u] \in Nat /\ found'[a][v] \in Nat
      BY <1>1, <1>4
    <3> QED
      BY <1>4, <2>1, <3>1
  <2>3. IsFiniteSet(after)
    BY MemoryConstants, FS_Subset
  <2>4. Cardinality(B) <= Cardinality(after) /\ Cardinality(B) = n
    BY <1>3, <1>6, <2>2, <2>3, FS_Subset
  <2>5. Cardinality(after) >= n
    <3>1. Cardinality(after) \in Nat
      BY <2>3, FS_CardinalityType
    <3> QED
      BY <1>1, <2>4, <3>1
  <2> QED
    BY <2>5 DEF Served
<1> QED
  BY <1>5, <1>6

\* The last cut takes nobody's place but for pages that score no worse.
LEMMA RankServes ==
  ASSUME MemoryTypeOK, NEW a \in Actors, op[a].kind = "search", RankFound(a), op' = op,
         NEW u \in URLs, op[a].score[u] # 0, op[a].score[u] >= op[a].floor, Served(a, u)
  PROVE  Served(a, u)'
<1> DEFINE good == {v \in Found(found[a]) : found[a][v] >= op[a].floor}
           s == op[a].score[u]
<1>1. /\ s \in Nat /\ s # 0 /\ op[a].limit \in Nat /\ op[a].floor \in Nat
      /\ found \in [Actors -> [URLs -> Nat]]
  BY TypesNow DEF CountsOK
<1>2. PICK B \in IF op[a].limit = 0 THEN {good} ELSE Best(good, found[a], op[a].limit) :
        found' = [found EXCEPT ![a] = Only(B, found[a])]
  BY DEF RankFound
<1>3. /\ B \subseteq good /\ (B = good \/ (op[a].limit # 0 /\ Cardinality(B) = op[a].limit))
      /\ \A v \in B, w \in good \ B : found[a][v] >= found[a][w]
  BY <1>2 DEF Best
<1>4. \A v \in URLs : found'[a][v] = IF v \in B THEN found[a][v] ELSE 0
  BY <1>1, <1>2 DEF Only
<1>5. \A v \in URLs : found[a][v] >= s => v \in good
  <2> SUFFICES ASSUME NEW v \in URLs, found[a][v] >= s PROVE v \in good
    OBVIOUS
  <2>1. found[a][v] \in Nat
    BY <1>1
  <2>2. found[a][v] # 0 /\ found[a][v] >= op[a].floor
    BY <1>1, <2>1
  <2> QED
    BY <2>2 DEF Found
<1>6. CASE \A v \in Reaching(a, s) : v \in B
  <2>1. found'[a][u] >= s \/ ~(found[a][u] >= s)
    BY <1>4, <1>6 DEF Reaching
  <2>2. {v \in URLs : found'[a][v] >= s} = Reaching(a, s)
    <3>1. \A v \in URLs : found'[a][v] >= s <=> v \in Reaching(a, s)
      <4> SUFFICES ASSUME NEW v \in URLs PROVE found'[a][v] >= s <=> v \in Reaching(a, s)
        OBVIOUS
      <4>1. found[a][v] \in Nat
        BY <1>1
      <4>2. CASE v \in B
        BY <1>4, <4>2 DEF Reaching
      <4>3. CASE v \notin B
        <5>1. found'[a][v] = 0 /\ v \notin Reaching(a, s)
          BY <1>4, <1>6, <4>3
        <5> QED
          BY <1>1, <5>1
      <4> QED
        BY <4>2, <4>3
    <3> QED
      BY <3>1 DEF Reaching
  <2> QED
    BY <2>1, <2>2 DEF Served, Reaching
<1>7. CASE \E v \in Reaching(a, s) : v \notin B
  <2> DEFINE after == {v \in URLs : found'[a][v] >= s}
  <2>1. PICK w \in URLs : found[a][w] >= s /\ w \in good \ B
    BY <1>5, <1>7 DEF Reaching
  <2>2. op[a].limit # 0 /\ Cardinality(B) = op[a].limit
    BY <1>3, <2>1
  <2>3. B \subseteq after
    <3> SUFFICES ASSUME NEW v \in B PROVE v \in after
      OBVIOUS
    <3>1. v \in URLs /\ found[a][v] >= found[a][w]
      BY <1>3, <2>1 DEF Found
    <3>2. found[a][v] \in Nat /\ found[a][w] \in Nat
      BY <1>1, <2>1, <3>1
    <3>3. found[a][v] >= s
      BY <1>1, <2>1, <3>1, <3>2
    <3> QED
      BY <1>4, <3>1, <3>3
  <2>4. IsFiniteSet(after)
    BY MemoryConstants, FS_Subset
  <2>5. Cardinality(B) <= Cardinality(after)
    BY <2>3, <2>4, FS_Subset
  <2>6. Cardinality(after) \in Nat
    BY <2>4, FS_CardinalityType
  <2>7. Cardinality(after) >= StageLimit(op[a].limit)
    BY <1>1, <2>2, <2>5, <2>6 DEF StageLimit
  <2> QED
    BY <2>7 DEF Served
<1> QED
  BY <1>6, <1>7

\* What a search has found at the place where it stands.
SoFar(a) ==
  /\ op[a].kind = "search" /\ pc[a] = "ok" =>
       \A u \in steady[a] : op[a].score[u] # 0 /\ op[a].score[u] >= op[a].floor => Served(a, u)
  /\ pc[a] = "search" =>
       /\ level[a] \in 1..7
       /\ level[a] > 2 => \A u \in steady[a] : op[a].score[u] # 0 => Served(a, u)

LEMMA SearchSteps ==
  ASSUME MemoryTypeOK, SearchInv, FoundSoFarInv, NEW a \in Actors, OperationStep(a)
  PROVE  SearchInv' /\ FoundSoFarInv'
<1>1. Apart(a) /\ op' = op
  BY StepApart DEF Apart
<1>2. \A b \in Actors : b # a \/ ~At(a, "new") => steady'[b] = steady[b] \cap Searchable'
  BY DEF OperationStep, Track
<1>3. ASSUME NEW b \in Actors, b # a PROVE SoFar(b)'
  <2>1. /\ op'[b] = op[b] /\ pc'[b] = pc[b] /\ level'[b] = level[b] /\ found'[b] = found[b]
        /\ steady'[b] \subseteq steady[b]
    BY <1>1, <1>2, <1>3 DEF Apart
  <2>2. SoFar(b)
    BY DEF SearchInv, FoundSoFarInv, SoFar
  <2> QED
    BY <2>1, <2>2 DEF SoFar, Served
<1>4. ASSUME op[a].kind = "search" PROVE SoFar(a)'
  <2>0. /\ \A u \in URLs : op[a].score[u] \in Nat
        /\ found \in [Actors -> [URLs -> Nat]] /\ found' \in [Actors -> [URLs -> Nat]]
    <3>1. MemoryTypeOK'
      BY StepTypes
    <3> QED
      BY <1>4, <3>1, TypesNow DEF MemoryTypeOK
  <2>1. CASE Begin(a)
    <3>1. pc'[a] = "search" /\ level'[a] = 1
      BY <1>4, <2>1 DEF Begin, Opening, MemoryTypeOK
    <3> QED
      BY <3>1 DEF SoFar, Served
  <2>2. CASE Search(a)
    <3>1. PICK scored \in CASE level[a] = 1 -> TopicHits(a)
                     [] level[a] = 2 -> PageHits(a)
                     [] level[a] = 3 -> FamilyHits(a)
                     [] OTHER -> NearHits(a) :
            found' = [found EXCEPT ![a] =
                        [u \in URLs |-> IF scored[u] > found[a][u] THEN scored[u] ELSE found[a][u]]]
      BY <2>2 DEF Search
    <3>2. /\ level'[a] = level[a] + 1 /\ Searchable' = Searchable
          /\ pc[a] = "search" /\ pc'[a] = "search" /\ level[a] <= 6
      BY <2>2 DEF Search, At, MemoryTypeOK, Searchable, tables
    <3>3. /\ steady'[a] = steady[a] \cap Searchable /\ level[a] \in 1..6
          /\ level[a] > 2 => \A u \in steady[a] : op[a].score[u] # 0 => Served(a, u)
      <4>1. level[a] \in 1..7
        BY <3>2 DEF FoundSoFarInv
      <4> QED
        BY <1>2, <3>2, <4>1 DEF At, FoundSoFarInv
    <3>4. \A v \in URLs : scored[v] \in Nat
      BY <1>4, <3>1, HitScores
    <3>5. \A v \in URLs : found'[a][v] = IF scored[v] > found[a][v] THEN scored[v] ELSE found[a][v]
      BY <2>0, <3>1
    <3>6. \A v \in URLs : found'[a][v] >= found[a][v] /\ found'[a][v] >= scored[v]
      BY <2>0, <3>4, <3>5
    <3>7. ASSUME level[a] >= 2, NEW u \in steady'[a], op[a].score[u] # 0 PROVE Served(a, u)'
      <4>1. u \in steady[a] /\ u \in Searchable /\ u \in URLs
        BY <3>3, <3>7 DEF Searchable
      <4>2. CASE level[a] = 2
        <5>1. scored \in PageHits(a)
          BY <3>1, <4>2
        <5> QED
          BY <1>1, <1>4, <2>0, <3>6, <3>7, <4>1, <5>1, PagesServed
      <4>3. CASE level[a] > 2
        <5>1. Served(a, u)
          BY <3>3, <3>7, <4>1, <4>3
        <5> QED
          BY <1>1, <1>4, <2>0, <3>6, <4>1, <5>1, ServedStays
      <4> QED
        BY <3>3, <3>7, <4>2, <4>3
    <3>8. \A u \in steady'[a] : level[a] >= 2 /\ op[a].score[u] # 0 => Served(a, u)'
      BY <3>7
    <3>9. level'[a] \in 1..7 /\ (level'[a] > 2 => level[a] >= 2)
      BY <3>2, <3>3
    <3> QED
      BY <1>1, <3>2, <3>8, <3>9 DEF SoFar, Served
  <2>3. CASE RankFound(a)
    <3>1. /\ pc[a] = "search" /\ pc'[a] = "ok" /\ level[a] = 7 /\ Searchable' = Searchable
      BY <2>3 DEF RankFound, At, Goes, MemoryTypeOK, Searchable, tables
    <3>2. /\ steady'[a] = steady[a] \cap Searchable
          /\ \A u \in steady[a] : op[a].score[u] # 0 => Served(a, u)
      BY <1>2, <3>1 DEF At, FoundSoFarInv
    <3>3. ASSUME NEW u \in steady'[a], op[a].score[u] # 0, op[a].score[u] >= op[a].floor
          PROVE  Served(a, u)'
      <4>1. Served(a, u) /\ u \in URLs
        BY <3>2, <3>3 DEF Searchable
      <4> QED
        BY <1>1, <1>4, <2>3, <3>3, <4>1, RankServes
    <3> QED
      BY <1>1, <3>1, <3>3 DEF SoFar, Served
  <2>4. CASE Fails(a)
    <3>1. pc'[a] = "failed"
      BY <2>4 DEF Fails, Ends, MemoryTypeOK
    <3> QED
      BY <3>1 DEF SoFar, Served
  <2> QED
    BY <1>4, <2>1, <2>2, <2>3, <2>4, OnlySearches
<1>5. ASSUME op[a].kind # "search" PROVE SoFar(a)'
  <2>1. MemoryTypeOK'
    BY StepTypes
  <2>2. (pc[a] = "search" => op[a].kind = "search")'
    <3>1. HandsOK(a)' /\ op'[a].kind \in MemoryKinds
      BY <1>1, <2>1, TypesNow DEF MemoryTypeOK
    <3> QED
      BY <3>1 DEF HandsOK, Standings, Over, Filing, MemoryKinds, Underway
  <2> QED
    BY <1>1, <1>5, <2>2 DEF SoFar, Served
<1>6. \A b \in Actors : SoFar(b)'
  BY <1>3, <1>4, <1>5
<1> QED
  BY <1>6 DEF SearchInv, FoundSoFarInv, SoFar, Served

-----------------------------------------------------------------------------
(* Topics *)

\* The pages that can be found before and after a step.
Stays(u) == u \in Searchable /\ u \in Searchable'

\* What a step does to the topics that pages have, to the rebuilds that are
\* not at their end, and to the page its operation files.
Covers(a) ==
  /\ broken \ {a} \subseteq broken' /\ broken' \subseteq broken \cup {a}
  /\ a \in broken' => /\ op[a].kind = "rebuild"
                      /\ pc'[a] \in {"list", "next", "topic", "row", "failed"}
  /\ \A u : Stays(u) => \A i \in 1..Len(RootsOf[u]) :
       /\ topics[RootsOf[u][i]] # {} =>
            topics'[RootsOf[u][i]] # {} \/ (a \in broken' /\ Rebuilds(a, u, i)')
       /\ a \in broken /\ Rebuilds(a, u, i) =>
            topics'[RootsOf[u][i]] # {} \/ (a \in broken' /\ Rebuilds(a, u, i)')
       /\ FilesBelow(a, u, i) =>
            topics'[RootsOf[u][i]] # {} \/ FilesBelow(a, u, i)' \/ pc'[a] = "failed"
  /\ Ended(a) /\ op[a].kind \in {"observe", "refresh"} => pc[a] = "next"

\* A step that leaves the topics, what is broken and the page in hand alone.
LEMMA QuietCovers ==
  ASSUME MemoryTypeOK, TopicsInv, NEW a \in Actors,
         topics' = topics, broken' = broken, a \notin broken, ~Ended(a),
         pc[a] \in {"family", "member", "topic", "row"} =>
           /\ pc'[a] \in {"family", "member", "topic", "row"} /\ cur'[a] = cur[a] /\ level'[a] = level[a]
  PROVE  Covers(a)
BY DEF Covers, FilesBelow, URL

LEMMA FilesCovers ==
  ASSUME MemoryTypeOK, TopicsInv, NEW a \in Actors, FilesPage(a), op' = op
  PROVE  Covers(a)
<1> USE DEF tables, locals, Goes, At
<1>0. HandsOK(a)
  BY TypesNow
<1>1. a \in broken => pc[a] \in {"topic", "row"}
  BY KindAt
     DEF FilesPage, Vector, UpsertDocument, UpsertEdges, UpsertEmbedding, JoinFamily, JoinMember,
         LoadTopic, UpsertTopic, TopicsInv
<1>2. CASE Vector(a) \/ UpsertDocument(a) \/ UpsertEdges(a) \/ UpsertEmbedding(a)
  <2>1. /\ topics' = topics /\ broken' = broken /\ pc[a] \in {"vector", "document", "edges", "embedding"}
        /\ pc'[a] \in {"document", "edges", "embedding", "family"}
    BY <1>2 DEF Vector, UpsertDocument, UpsertEdges, UpsertEmbedding, MemoryTypeOK
  <2> QED
    BY <1>1, <2>1, QuietCovers DEF Ended
<1>3. CASE JoinFamily(a) \/ JoinMember(a)
  <2>1. /\ topics' = topics /\ broken' = broken /\ pc[a] \in {"family", "member"}
        /\ pc'[a] \in {"member", "topic"} /\ cur'[a] = cur[a] /\ level'[a] = level[a]
    BY <1>3 DEF JoinFamily, JoinMember, MemoryTypeOK
  <2> QED
    BY <1>1, <2>1, QuietCovers DEF Ended
<1>4. CASE LoadTopic(a)
  <2>1. /\ topics' = topics /\ broken' = broken /\ pc[a] = "topic" /\ queue'[a] = queue[a]
        /\ cur'[a] = cur[a] /\ pc'[a] \in {"next", "topic", "row"}
    BY <1>4 DEF LoadTopic, MemoryTypeOK
  <2>2. level[a] \in Nat \ {0}
    BY <1>0, <2>1 DEF HandsOK
  <2>3. ASSUME NEW u, Stays(u), NEW i \in 1..Len(RootsOf[u]), FilesBelow(a, u, i)
        PROVE  FilesBelow(a, u, i)'
    <3>1. URL(a) = u /\ level[a] <= i /\ Len(RootsOf[u]) \in Nat /\ u \in Searchable
      BY <2>3, RootIn DEF FilesBelow, Stays, Searchable
    <3>2. ~(level[a] > Len(RootsOf[URL(a)]))
      BY <2>2, <3>1
    <3>3. CASE Below(RootsOf[URL(a)][level[a]]) = {}
      <4>1. i # level[a]
        BY <3>1, <3>3 DEF Below
      <4>2. level'[a] = level[a] + 1 /\ pc'[a] = "topic"
        BY <1>4, <3>2, <3>3 DEF LoadTopic, MemoryTypeOK
      <4>3. level[a] + 1 <= i
        BY <2>2, <3>1, <4>1
      <4> QED
        BY <2>1, <3>1, <4>2, <4>3 DEF FilesBelow, URL
    <3>4. CASE Below(RootsOf[URL(a)][level[a]]) # {}
      BY <1>4, <2>1, <3>1, <3>2, <3>4 DEF LoadTopic, MemoryTypeOK, FilesBelow, URL
    <3> QED
      BY <3>3, <3>4
  <2>4. \A u, i : Rebuilds(a, u, i) => FilesBelow(a, u, i) \/ Rebuilds(a, u, i)'
    BY <2>1 DEF Rebuilds
  <2>5. \A u, i : FilesBelow(a, u, i)' => Rebuilds(a, u, i)'
    BY DEF Rebuilds
  <2>6. a \in broken' => op[a].kind = "rebuild"
    BY <2>1 DEF TopicsInv
  <2> QED
    BY <2>1, <2>3, <2>4, <2>5, <2>6 DEF Covers, Ended
<1>5. CASE UpsertTopic(a)
  <2>1. /\ broken' = broken /\ pc[a] = "row" /\ queue'[a] = queue[a] /\ cur'[a] = cur[a]
        /\ pc'[a] = "topic" /\ level'[a] = level[a] + 1
        /\ topics' = [topics EXCEPT ![RootsOf[URL(a)][level[a]]] = held[a]] /\ DOMAIN topics = Roots
    BY <1>5 DEF UpsertTopic, MemoryTypeOK
  <2>2. level[a] \in 1..Len(RootsOf[URL(a)]) /\ held[a] # {} /\ URL(a) \in URLs
    BY <1>0, <2>1 DEF HandsOK, Filing, URL
  <2>3. RootsOf[URL(a)][level[a]] \in Roots /\ Len(RootsOf[URL(a)]) \in Nat
    BY <2>2, RootIn
  <2>4. \A r \in Roots : topics[r] # {} => topics'[r] # {}
    BY <2>1, <2>2
  <2>5. \A u : Stays(u) => \A i \in 1..Len(RootsOf[u]) : RootsOf[u][i] \in Roots
    BY RootIn DEF Stays, Searchable
  <2>6. ASSUME NEW u, Stays(u), NEW i \in 1..Len(RootsOf[u]), FilesBelow(a, u, i)
        PROVE  topics'[RootsOf[u][i]] # {} \/ FilesBelow(a, u, i)'
    <3>1. URL(a) = u /\ level[a] <= i /\ i \in Nat
      BY <2>6, RootIn DEF FilesBelow, Stays, Searchable
    <3>2. CASE i = level[a]
      BY <2>1, <2>2, <2>3, <3>1, <3>2
    <3>3. CASE i # level[a]
      <4>1. level[a] + 1 <= i
        BY <2>2, <2>3, <3>1, <3>3
      <4> QED
        BY <2>1, <3>1, <4>1 DEF FilesBelow, URL
    <3> QED
      BY <3>2, <3>3
  <2>7. \A u, i : Rebuilds(a, u, i) => FilesBelow(a, u, i) \/ Rebuilds(a, u, i)'
    BY <2>1 DEF Rebuilds
  <2>8. \A u, i : FilesBelow(a, u, i)' => Rebuilds(a, u, i)'
    BY DEF Rebuilds
  <2>9. a \in broken' => op[a].kind = "rebuild"
    BY <2>1 DEF TopicsInv
  <2> QED
    BY <2>1, <2>4, <2>5, <2>6, <2>7, <2>8, <2>9 DEF Covers, Ended
<1> QED
  BY <1>2, <1>3, <1>4, <1>5 DEF FilesPage

LEMMA AdministersCovers ==
  ASSUME MemoryTypeOK, TopicsInv, NEW a \in Actors, Administers(a), op' = op
  PROVE  Covers(a)
<1> USE DEF tables, locals, Goes, At
<1>0. HandsOK(a)
  BY TypesNow
<1>1. CASE Snapshot(a)
  <2>1. /\ topics' = topics /\ broken' = broken /\ pc[a] = "snapshot" /\ pc'[a] = "next"
    BY <1>1 DEF Snapshot, MemoryTypeOK
  <2> QED
    BY <2>1, QuietCovers DEF Ended, TopicsInv
<1>2. CASE DeleteTopics(a)
  <2>1. /\ broken' = broken \cup {a} /\ pc'[a] = "list" /\ pc[a] = "delete"
    BY <1>2 DEF DeleteTopics, MemoryTypeOK
  <2>2. \A u, i : Rebuilds(a, u, i)'
    BY <2>1 DEF Rebuilds
  <2>3. op[a].kind = "rebuild"
    BY <2>1, KindAt
  <2> QED
    BY <2>1, <2>2, <2>3 DEF Covers, Ended, FilesBelow
<1>3. CASE ListDocuments(a)
  <2>1. /\ topics' = topics /\ broken' = broken /\ pc[a] = "list" /\ pc'[a] = "next"
        /\ queue'[a] = {<<u, 0>> : u \in Searchable}
    BY <1>3 DEF ListDocuments, MemoryTypeOK
  <2>2. \A u : Stays(u) => \A i : Rebuilds(a, u, i)'
    BY <2>1 DEF Rebuilds, Stays
  <2>3. op[a].kind = "rebuild"
    BY <2>1, KindAt
  <2> QED
    BY <2>1, <2>2, <2>3 DEF Covers, Ended, FilesBelow
<1>4. CASE NextPage(a)
  <2>1. topics' = topics /\ pc[a] = "next"
    BY <1>4 DEF NextPage
  <2>2. CASE queue[a] = {} /\ Ends(a, "ok") /\ broken' = broken \ {a}
    BY <2>1, <2>2 DEF Covers, Rebuilds, FilesBelow, TopicsInv
  <2>3. ASSUME NEW item \in queue[a],
               /\ queue' = [queue EXCEPT ![a] = @ \ {item}] /\ cur' = [cur EXCEPT ![a] = item]
               /\ Goes(a, IF op[a].kind = "rebuild" THEN "topic" ELSE "vector")
               /\ UNCHANGED <<now, level, reusable, held, found, broken>>
        PROVE  Covers(a)
    <3>1. /\ pc'[a] = IF op[a].kind = "rebuild" THEN "topic" ELSE "vector"
          /\ queue'[a] = queue[a] \ {item} /\ cur'[a] = item /\ broken' = broken /\ level'[a] = level[a]
      BY <2>3 DEF MemoryTypeOK
    <3>2. level[a] = 1
      BY <1>0, <2>1 DEF HandsOK
    <3>3. a \in broken => op[a].kind = "rebuild"
      BY DEF TopicsInv
    <3>4. ASSUME NEW u, NEW i \in Nat \ {0}, a \in broken, Rebuilds(a, u, i)
          PROVE  Rebuilds(a, u, i)'
      <4>1. <<u, 0>> \in queue[a] /\ pc'[a] = "topic"
        BY <2>1, <3>1, <3>3, <3>4 DEF Rebuilds, FilesBelow
      <4>2. CASE item = <<u, 0>>
        <5>1. cur'[a][1] = u /\ level'[a] <= i
          BY <3>1, <3>2, <3>4, <4>2
        <5> QED
          BY <4>1, <5>1 DEF Rebuilds, FilesBelow, URL
      <4>3. CASE item # <<u, 0>>
        BY <3>1, <4>1, <4>3 DEF Rebuilds
      <4> QED
        BY <4>2, <4>3
    <3>5. \A u : Stays(u) => \A i \in 1..Len(RootsOf[u]) : i \in Nat \ {0}
      BY RootIn DEF Stays, Searchable
    <3> QED
      BY <2>1, <3>1, <3>3, <3>4, <3>5 DEF Covers, FilesBelow
  <2> QED
    BY <1>4, <2>2, <2>3 DEF NextPage
<1>5. CASE PruneTables(a) \/ Export(a) \/ OpenFile(a) \/ CloseFile(a)
  <2>1. /\ topics' = topics /\ broken' = broken /\ pc[a] \in {"prune", "export", "import", "rows"}
    BY <1>5 DEF PruneTables, Export, OpenFile, CloseFile
  <2>2. op[a].kind \notin {"observe", "refresh", "rebuild"}
    BY <2>1, KindAt
  <2>3. a \notin broken
    BY <2>2 DEF TopicsInv
  <2> QED
    BY <2>1, <2>2, <2>3 DEF Covers, FilesBelow
<1>6. CASE ImportRow(a)
  <2>1. broken' = broken /\ pc[a] = "rows" /\ queue[a] # {}
    BY <1>6 DEF ImportRow
  <2>2. op[a].kind \notin {"observe", "refresh", "rebuild"}
    BY <2>1, KindAt
  <2>3. a \notin broken
    BY <2>2 DEF TopicsInv
  <2>4. PICK t \in Range(Tables) : Tables[level[a]] = t /\ queue[a] \subseteq RowsOf(t)
    BY <1>0, <2>1 DEF HandsOK
  <2>5. PICK row \in queue[a] : topics' = IF t = "topics" THEN Put(topics, row) ELSE topics
    BY <1>6, <2>4 DEF ImportRow
  <2>6. \A r \in Roots : topics[r] # {} => topics'[r] # {}
    <3>1. t = "topics" => row[1] \in Roots /\ row[2] # {}
      BY <2>4 DEF RowsOf
    <3> QED
      BY <2>5, <3>1 DEF Put, MemoryTypeOK
  <2>7. \A u : Stays(u) => \A i \in 1..Len(RootsOf[u]) : RootsOf[u][i] \in Roots
    BY RootIn DEF Stays, Searchable
  <2> QED
    BY <2>1, <2>2, <2>3, <2>6, <2>7 DEF Covers, FilesBelow
<1> QED
  BY <1>1, <1>2, <1>3, <1>4, <1>5, <1>6 DEF Administers

LEMMA StepCovers ==
  ASSUME MemoryTypeOK, TopicsInv, NEW a \in Actors, OperationStep(a)
  PROVE  Covers(a)
<1>1. op' = op
  BY StepApart DEF Apart
<1>2. CASE Begin(a)
  <2>1. topics' = topics /\ broken' = broken /\ pc[a] = "new" /\ pc'[a] = Opening(a) /\ a \notin broken
    BY <1>2 DEF Begin, tables, TopicsInv, MemoryTypeOK
  <2>2. Opening(a) # "ok"
    BY TypesNow DEF Opening, MemoryKinds
  <2> QED
    BY <2>1, <2>2, QuietCovers DEF Ended
<1>3. CASE Search(a)
  <2>1. topics' = topics /\ broken' = broken /\ pc[a] = "search"
    BY <1>3 DEF Search, tables, At
  <2>2. op[a].kind = "search"
    BY <2>1, KindAt
  <2> QED
    BY <2>1, <2>2 DEF Covers, FilesBelow, TopicsInv
<1>r. CASE RankFound(a)
  <2>1. topics' = topics /\ broken' = broken /\ pc[a] = "search"
    BY <1>r DEF RankFound, tables, At
  <2>2. op[a].kind = "search"
    BY <2>1, KindAt
  <2> QED
    BY <2>1, <2>2 DEF Covers, FilesBelow, TopicsInv
<1>4. CASE Fails(a)
  <2>1. topics' = topics /\ broken' = broken /\ pc'[a] = "failed"
    BY <1>4 DEF Fails, Ends, tables, MemoryTypeOK
  <2> QED
    BY <2>1 DEF Covers, Ended, Rebuilds, TopicsInv
<1> QED
  BY <1>1, <1>2, <1>3, <1>r, <1>4, FilesCovers, AdministersCovers DEF OperationStep

\* So a page that has its topics keeps them, or a rebuild has it to do.
LEMMA FiledKept ==
  ASSUME MemoryTypeOK, TopicsInv, NEW a \in Actors, Apart(a), Covers(a),
         NEW u, Stays(u), NEW i \in 1..Len(RootsOf[u]), Filed(u, i)
  PROVE  Filed(u, i)'
<1>1. \A b \in Actors : b # a /\ Rebuilds(b, u, i) => Rebuilds(b, u, i)'
  BY DEF Apart, Rebuilds, FilesBelow, URL
<1>2. CASE topics[RootsOf[u][i]] # {}
  BY <1>2 DEF Covers, Filed
<1>3. ASSUME NEW b \in broken, Rebuilds(b, u, i), b # a
      PROVE  Filed(u, i)'
  BY <1>1, <1>3 DEF Covers, Filed, TopicsInv
<1>4. CASE a \in broken /\ Rebuilds(a, u, i)
  BY <1>4 DEF Covers, Filed
<1> QED
  BY <1>2, <1>3, <1>4 DEF Filed

LEMMA TopicsStep ==
  ASSUME MemoryTypeOK, TopicsInv, NEW a \in Actors, OperationStep(a)
  PROVE  TopicsInv' /\ CoverInv'
<1>1. Apart(a) /\ op' = op /\ Covers(a)
  BY StepApart, StepCovers DEF Apart
<1>2. /\ \A b \in Actors :
           filed'[b] = IF Ended(b) THEN {}
                       ELSE (filed[b] \cup (IF b = a /\ At(a, "embedding") /\ pc'[a] = "family"
                                            THEN {URL(a)} ELSE {})) \cap Searchable'
      /\ complete' = (complete \cup (IF Ended(a) THEN filed[a] ELSE {})) \cap Searchable'
  BY DEF OperationStep, Track
<1>3. \A u : Stays(u) => \A i \in 1..Len(RootsOf[u]) : Filed(u, i) => Filed(u, i)'
  BY <1>1, FiledKept
<1>4. broken' \subseteq {b \in Actors : /\ op'[b].kind = "rebuild"
                                       /\ pc'[b] \in {"list", "next", "topic", "row", "failed"}}
  BY <1>1 DEF Covers, Apart, TopicsInv
<1>5. \A u \in complete' : \A i \in 1..Len(RootsOf[u]) : Filed(u, i)'
  <2> TAKE u \in complete'
  <2> TAKE i \in 1..Len(RootsOf[u])
  <2>1. CASE u \in complete
    BY <1>2, <1>3, <2>1 DEF TopicsInv, Stays
  <2>2. CASE Ended(a) /\ u \in filed[a]
    <3>1. op[a].kind \in {"observe", "refresh"} /\ Stays(u)
      BY <1>2, <2>2 DEF TopicsInv, Stays
    <3>2. pc[a] = "next"
      BY <1>1, <2>2, <3>1 DEF Covers
    <3>3. Filed(u, i)
      BY <2>2, <3>2 DEF TopicsInv, Underway, Over, FilesBelow
    <3> QED
      BY <1>3, <3>1, <3>3
  <2> QED
    BY <1>2, <2>1, <2>2
<1>6. \A b \in Actors : filed'[b] \subseteq Searchable'
  BY <1>2
<1>7. \A b \in Actors : filed'[b] # {} => op[b].kind \in {"observe", "refresh"}
  BY <1>2, KindAt DEF TopicsInv, At
<1>8. \A b \in Actors : pc'[b] # "failed" => \A u \in filed'[b] : \A i \in 1..Len(RootsOf[u]) :
        Filed(u, i)' \/ FilesBelow(b, u, i)'
  <2> SUFFICES ASSUME NEW b \in Actors, pc'[b] # "failed", NEW u \in filed'[b], NEW i \in 1..Len(RootsOf[u])
               PROVE  Filed(u, i)' \/ FilesBelow(b, u, i)'
    OBVIOUS
  <2>1. u \in Searchable'
    BY <1>6
  <2>2. CASE u \in filed[b] /\ b # a
    <3>1. pc[b] # "failed" /\ Stays(u) /\ (FilesBelow(b, u, i) => FilesBelow(b, u, i)')
      BY <1>1, <2>1, <2>2 DEF Underway, Apart, FilesBelow, URL, TopicsInv, Stays
    <3> QED
      BY <1>3, <2>2, <3>1 DEF TopicsInv
  <2>3. CASE u \in filed[b] /\ b = a
    <3>1. Stays(u) /\ pc'[a] # "failed"
      BY <2>1, <2>3 DEF TopicsInv, Stays, Underway, Over
    <3>2. Filed(u, i) \/ FilesBelow(a, u, i)
      <4>1. pc[a] # "failed"
        BY DEF OperationStep, FilesPage, Administers, Begin, Vector, UpsertDocument, UpsertEdges,
           UpsertEmbedding, JoinFamily, JoinMember, LoadTopic, UpsertTopic, Snapshot, DeleteTopics,
           ListDocuments, NextPage, PruneTables, Export, OpenFile, ImportRow, CloseFile, Search, RankFound,
           Fails, At, Underway, Over
      <4> QED
        BY <2>3, <4>1 DEF TopicsInv
    <3>3. CASE Filed(u, i)
      BY <1>3, <3>1, <3>3
    <3>4. CASE FilesBelow(a, u, i)
      BY <1>1, <2>3, <3>1, <3>4 DEF Covers, Filed
    <3> QED
      BY <3>2, <3>3, <3>4
  <2>4. CASE u \notin filed[b]
    <3>1. b = a /\ At(a, "embedding") /\ pc'[a] = "family" /\ u = URL(a)
      BY <1>2, <2>4
    <3>2. UpsertEmbedding(a)
      BY <3>1 DEF OperationStep, FilesPage, Administers, Vector, UpsertDocument, UpsertEdges,
         JoinFamily, JoinMember, LoadTopic, UpsertTopic, Snapshot, DeleteTopics,
         ListDocuments, NextPage, PruneTables, Export, OpenFile, ImportRow, CloseFile, Search, RankFound,
         Begin, Fails, Ends, At, MemoryTypeOK
    <3>3. cur'[a] = cur[a] /\ level'[a] = level[a] /\ level[a] = 1
      BY <3>1, <3>2, TypesNow DEF UpsertEmbedding, locals, At, HandsOK, Filing
    <3>4. 1 <= i
      BY <2>1, RootIn DEF Searchable
    <3> QED
      BY <3>1, <3>3, <3>4 DEF FilesBelow, URL
  <2> QED
    BY <2>2, <2>3, <2>4
<1>9. TopicsInv'
  BY <1>1, <1>2, <1>4, <1>5, <1>6, <1>7, <1>8 DEF TopicsInv
<1>10. CoverInv'
  BY <1>9 DEF TopicsInv, CoverInv, Filed
<1> QED
  BY <1>9, <1>10

-----------------------------------------------------------------------------
(* Embeddings *)

\* What a writer that runs alone knows of the rows.
Alone(a) ==
  /\ pc[a] \in {"document", "edges", "embedding"} /\ reusable[a] => Matches(URL(a), cur[a][2])
  /\ op[a].kind = "observe" => ObserveOK(a)
  /\ op[a].kind = "refresh" => RefreshOK(a)

LEMMA OverAlone ==
  ASSUME NEW a \in Actors, pc'[a] \in Over \cup {"prune", "snapshot", "import", "rows"}
  PROVE  Alone(a)'
BY DEF Alone, ObserveOK, RefreshOK, Over, Filing

LEMMA AloneStays ==
  ASSUME MemoryTypeOK, NEW a \in Actors, op' = op, Alone(a),
         docs' = docs, embs' = embs, queue' = queue, cur'[a] = cur[a],
         pc[a] \in {"family", "member", "topic", "row"},
         pc'[a] \in {"family", "member", "topic", "row", "next"}
  PROVE  Alone(a)'
BY DEF Alone, ObserveOK, RefreshOK, Filing, Matches, URL

LEMMA AloneFiles ==
  ASSUME MemoryTypeOK, NEW a \in Actors, FilesPage(a), op' = op, Alone(a),
         op[a].kind \in {"observe", "refresh"}
  PROVE  Alone(a)'
<1> USE DEF tables, locals, Goes, At
<1>0. HandsOK(a) /\ docs \in [URLs -> Stamped] /\ embs \in [URLs -> Stamped]
  BY DEF MemoryTypeOK
<1>1. pc[a] \in Filing => URL(a) \in URLs /\ Row(a).rev = cur[a][2]
  BY <1>0 DEF HandsOK, URL, Row
<1>2. CASE Vector(a)
  <2>1. /\ docs' = docs /\ embs' = embs /\ queue' = queue /\ cur' = cur /\ pc[a] = "vector"
        /\ pc'[a] = IF op[a].kind = "observe" THEN "document" ELSE "embedding"
        /\ reusable'[a] => Matches(URL(a), cur[a][2])
    BY <1>2 DEF Vector, MemoryTypeOK, Matches
  <2> QED
    BY <2>1 DEF Alone, ObserveOK, RefreshOK, Filing, Matches, URL
<1>3. CASE UpsertDocument(a)
  <2>1. /\ docs' = [docs EXCEPT ![URL(a)] = Row(a)] /\ embs' = embs /\ cur' = cur /\ reusable' = reusable
        /\ pc[a] = "document" /\ pc'[a] = "edges"
    BY <1>3 DEF UpsertDocument, MemoryTypeOK
  <2>2. op[a].kind = "observe" /\ docs'[URL(a)].rev = cur[a][2]
    BY <1>0, <1>1, <2>1, KindAt DEF Filing
  <2> QED
    BY <2>1, <2>2 DEF Alone, ObserveOK, Matches, URL
<1>4. CASE UpsertEdges(a)
  <2>1. /\ docs' = docs /\ embs' = embs /\ cur' = cur /\ reusable' = reusable
        /\ pc[a] = "edges" /\ pc'[a] = "embedding"
    BY <1>4 DEF UpsertEdges, MemoryTypeOK
  <2>2. op[a].kind = "observe"
    BY <2>1, KindAt
  <2> QED
    BY <2>1, <2>2 DEF Alone, ObserveOK, Matches, URL
<1>5. CASE UpsertEmbedding(a)
  <2>1. /\ docs' = docs /\ cur' = cur /\ queue' = queue /\ pc[a] = "embedding" /\ pc'[a] = "family"
        /\ embs' = IF reusable[a] THEN embs ELSE [embs EXCEPT ![URL(a)] = Row(a)]
    BY <1>5 DEF UpsertEmbedding, MemoryTypeOK
  <2>2. URL(a) \in URLs /\ Row(a).rev = cur[a][2]
    BY <1>1, <2>1 DEF Filing
  <2>3. /\ embs'[URL(a)].rev = cur[a][2]
        /\ \A u \in URLs : u # URL(a) => embs'[u] = embs[u]
    BY <1>0, <2>1, <2>2 DEF Alone, Matches
  <2>4. op[a].kind = "observe" => ObserveOK(a)'
    BY <2>1, <2>3 DEF Alone, ObserveOK, Matches, URL
  <2>5. op[a].kind = "refresh" => RefreshOK(a)'
    BY <2>1, <2>3 DEF Alone, RefreshOK, Filing, Matches, URL
  <2> QED
    BY <2>1, <2>4, <2>5 DEF Alone
<1>6. CASE JoinFamily(a) \/ JoinMember(a) \/ LoadTopic(a) \/ UpsertTopic(a)
  <2>1. /\ docs' = docs /\ embs' = embs /\ queue' = queue /\ cur'[a] = cur[a]
        /\ pc[a] \in {"family", "member", "topic", "row"}
        /\ pc'[a] \in {"family", "member", "topic", "row", "next"}
    BY <1>6 DEF JoinFamily, JoinMember, LoadTopic, UpsertTopic, MemoryTypeOK
  <2> QED
    BY <2>1, AloneStays
<1> QED
  BY <1>2, <1>3, <1>4, <1>5, <1>6 DEF FilesPage

LEMMA AloneAdministers ==
  ASSUME MemoryTypeOK, NEW a \in Actors, Snapshot(a) \/ NextPage(a), op' = op, Alone(a),
         op[a].kind \in {"observe", "refresh"}
  PROVE  Alone(a)'
<1> USE DEF tables, locals, Goes, At
<1>1. CASE Snapshot(a)
  <2>1. /\ docs' = docs /\ pc'[a] = "next" /\ op[a].kind = "refresh"
        /\ queue'[a] = {<<u, docs[u].rev>> : u \in {u \in URLs : docs[u].rev # 0}}
    BY <1>1, KindAt DEF Snapshot, MemoryTypeOK
  <2> QED
    BY <2>1 DEF Alone, RefreshOK, Filing
<1>2. CASE NextPage(a)
  <2>1. docs' = docs /\ embs' = embs /\ pc[a] = "next"
    BY <1>2 DEF NextPage
  <2>2. CASE Ends(a, "ok")
    BY <2>2, OverAlone DEF Ends, MemoryTypeOK, Over
  <2>3. ASSUME NEW item \in queue[a],
               /\ queue' = [queue EXCEPT ![a] = @ \ {item}] /\ cur' = [cur EXCEPT ![a] = item]
               /\ Goes(a, IF op[a].kind = "rebuild" THEN "topic" ELSE "vector")
        PROVE  Alone(a)'
    <3>1. op[a].kind = "refresh"
      <4>1. HandsOK(a)
        BY DEF MemoryTypeOK
      <4> QED
        BY <2>3, <4>1 DEF HandsOK
    <3>2. pc'[a] = "vector" /\ queue'[a] = queue[a] \ {item} /\ cur'[a] = item
      BY <2>3, <3>1 DEF MemoryTypeOK
    <3>3. /\ docs[item[1]].rev = item[2]
          /\ \A i \in queue'[a] : docs[i[1]].rev = i[2]
          /\ \A u \in URLs : docs[u].rev # 0 =>
               <<u, docs[u].rev>> \in queue[a] \/ Matches(u, docs[u].rev)
      BY <2>1, <2>3, <3>1, <3>2 DEF Alone, RefreshOK
    <3>4. \A u \in URLs : docs[u].rev # 0 =>
            \/ <<u, docs[u].rev>> \in queue'[a] \/ Matches(u, docs[u].rev)
            \/ item[1] = u
      BY <3>2, <3>3
    <3> QED
      BY <2>1, <3>1, <3>2, <3>3, <3>4 DEF Alone, RefreshOK, Matches, URL
  <2> QED
    BY <1>2, <2>2, <2>3 DEF NextPage
<1> QED
  BY <1>1, <1>2

LEMMA AloneStep ==
  ASSUME MemoryTypeOK, NEW a \in Actors, OperationStep(a), Alone(a), Underway(a),
         op[a].kind \in Writers
  PROVE  Alone(a)'
<1>1. op' = op /\ HandsOK(a)'
  BY StepTypes DEF Apart, MemoryTypeOK
<1>2. CASE op[a].kind \in {"prune", "import"}
  <2>1. pc'[a] \in Over \cup {"prune", "snapshot", "import", "rows"}
    BY <1>1, <1>2 DEF HandsOK, Standings
  <2> QED
    BY <2>1, OverAlone
<1>3. CASE op[a].kind \in {"observe", "refresh"}
  <2>1. ~Begin(a) /\ ~Search(a) /\ ~RankFound(a)
    BY <1>3, KindAt DEF Begin, Search, RankFound, At, Underway, Over
  <2>2. Administers(a) => Snapshot(a) \/ NextPage(a)
    BY <1>3, KindAt DEF Administers, DeleteTopics, ListDocuments, PruneTables, Export, OpenFile,
                        ImportRow, CloseFile, At
  <2>3. CASE Fails(a)
    BY <2>3, OverAlone DEF Fails, Ends, MemoryTypeOK, Over
  <2> QED
    BY <1>1, <1>3, <2>1, <2>2, <2>3, AloneFiles, AloneAdministers DEF OperationStep
<1> QED
  BY <1>2, <1>3 DEF Writers

\* What does not write changes no row that the pages are searched by.
LEMMA OnlyWritersWrite ==
  ASSUME MemoryTypeOK, NEW a \in Actors, OperationStep(a), op[a].kind \notin Writers
  PROVE  docs' = docs /\ embs' = embs
<1>1. pc[a] \notin {"document", "embedding", "prune", "rows"}
  BY KindAt DEF Writers
<1> QED
  BY <1>1 DEF OperationStep, FilesPage, Administers, Begin, Vector, UpsertDocument, UpsertEdges,
     UpsertEmbedding, JoinFamily, JoinMember, LoadTopic, UpsertTopic, Snapshot, DeleteTopics,
     ListDocuments, NextPage, PruneTables, Export, OpenFile, ImportRow, CloseFile, Search, RankFound,
     Fails, At, tables

\* A writer that ends alone leaves matching rows.
LEMMA EndsMatched ==
  ASSUME MemoryTypeOK, NEW a \in Actors, NextPage(a), Ended(a), Alone(a),
         op[a].kind \in {"observe", "refresh"}
  PROVE  LET pages == IF op[a].kind = "observe" THEN {op[a].url} ELSE {u \in URLs : docs[u].rev # 0}
         IN  \A u \in pages : u \in URLs /\ docs'[u].rev # 0 /\ embs'[u].rev = docs'[u].rev
<1>1. docs' = docs /\ embs' = embs /\ pc[a] = "next"
  BY DEF NextPage, tables, At
<1>2. queue[a] = {}
  BY DEF NextPage, Ended, Goes, MemoryTypeOK
<1>3. CASE op[a].kind = "observe"
  <2>1. cur[a] = <<op[a].url, op[a].rev>> /\ op[a].url \in URLs /\ op[a].rev \in Nat \ {0}
    BY <1>1, <1>3, TypesNow DEF HandsOK, Underway, Over
  <2> QED
    BY <1>1, <1>3, <2>1 DEF Alone, ObserveOK, Matches, URL
<1>4. CASE op[a].kind = "refresh"
  BY <1>1, <1>2, <1>4 DEF Alone, RefreshOK, Matches
<1> QED
  BY <1>3, <1>4

LEMMA LoneStep ==
  ASSUME MemoryTypeOK, TopicsInv, LoneInv, MatchInv, NEW a \in Actors, OperationStep(a)
  PROVE  LoneInv' /\ MatchInv'
<1>1. Apart(a) /\ op' = op /\ Covers(a) /\ MemoryTypeOK'
  BY StepTypes, StepCovers DEF Apart
<1>2. IF At(a, "new") /\ op[a].kind \in Writers
      THEN /\ lone' = IF \E b \in Actors : Underway(b) /\ op[b].kind \in Writers THEN {} ELSE {a}
           /\ matched' = {}
      ELSE /\ lone' = lone
           /\ matched' = IF ~Ended(a) \/ a \notin lone THEN matched
                         ELSE CASE op[a].kind = "observe" -> {op[a].url}
                                [] op[a].kind = "refresh" -> {u \in URLs : docs[u].rev # 0}
                                [] OTHER -> {}
  BY DEF OperationStep, Track
<1>3. \A b \in Actors : b # a => (Underway(b)' <=> Underway(b))
  BY <1>1 DEF Apart, Underway
<1>4. \A b \in lone : Alone(b)
  BY DEF LoneInv, Alone
<1>5. CASE At(a, "new") /\ op[a].kind \in Writers
  <2>1. Begin(a)
    BY <1>5, KindAt DEF OperationStep, FilesPage, Administers, Vector, UpsertDocument, UpsertEdges,
       UpsertEmbedding, JoinFamily, JoinMember, LoadTopic, UpsertTopic, Snapshot, DeleteTopics,
       ListDocuments, NextPage, PruneTables, Export, OpenFile, ImportRow, CloseFile, Search, RankFound,
       Fails, At, Underway, Over
  <2>2. pc'[a] \in {"vector", "snapshot", "prune", "import"}
    BY <1>5, <2>1 DEF Begin, Opening, Writers, MemoryTypeOK
  <2>3. Alone(a)'
    <3>1. CASE pc'[a] = "vector"
      <4>1. op'[a].kind = "observe"
        BY <1>1, <1>5, <2>1, <3>1 DEF Begin, Opening, Writers, MemoryTypeOK
      <4> QED
        BY <3>1, <4>1 DEF Alone, ObserveOK
    <3>2. CASE pc'[a] # "vector"
      BY <2>2, <3>2, OverAlone
    <3> QED
      BY <3>1, <3>2
  <2>4. \A c \in lone' : c = a /\ \A b \in Actors : b # a => ~(Underway(b) /\ op[b].kind \in Writers)
    BY <1>2, <1>5
  <2>5. \A c \in lone' : \A b \in Actors : Underway(b)' /\ op'[b].kind \in Writers => b = c
    BY <1>1, <1>3, <2>4
  <2>6. lone' \subseteq {b \in Actors : op'[b].kind \in Writers}
    BY <1>1, <1>5, <2>4
  <2> QED
    BY <1>2, <1>5, <2>3, <2>4, <2>5, <2>6 DEF LoneInv, MatchInv, Alone
<1>6. CASE ~At(a, "new") /\ op[a].kind \in Writers
  <2>1. Underway(a)
    BY <1>6 DEF OperationStep, FilesPage, Administers, Begin, Vector, UpsertDocument, UpsertEdges,
       UpsertEmbedding, JoinFamily, JoinMember, LoadTopic, UpsertTopic, Snapshot, DeleteTopics,
       ListDocuments, NextPage, PruneTables, Export, OpenFile, ImportRow, CloseFile, Search, RankFound,
       Fails, At, Underway, Over
  <2>2. matched = {} /\ lone' = lone /\ \A c \in lone : c = a
    BY <1>2, <1>6, <2>1 DEF LoneInv
  <2>3. \A c \in lone' : Alone(c)'
    BY <1>4, <1>6, <2>1, <2>2, AloneStep
  <2>4. \A c \in lone' : \A b \in Actors : Underway(b)' /\ op'[b].kind \in Writers => b = c
    BY <1>1, <1>3, <2>1, <2>2, <1>6 DEF LoneInv
  <2>5. matched' # {} => /\ a \in lone /\ Ended(a) /\ op[a].kind \in {"observe", "refresh"}
                         /\ matched' = IF op[a].kind = "observe" THEN {op[a].url}
                                       ELSE {u \in URLs : docs[u].rev # 0}
    BY <1>2, <1>6, <2>2
  <2>6. matched' # {} => NextPage(a)
    <3>1. HAVE matched' # {}
    <3>2. pc[a] = "next"
      BY <1>1, <2>5, <3>1 DEF Covers
    <3> QED
      BY <2>5, <3>1, <3>2 DEF OperationStep, FilesPage, Administers, Begin, Vector, UpsertDocument,
         UpsertEdges, UpsertEmbedding, JoinFamily, JoinMember, LoadTopic, UpsertTopic, Snapshot,
         DeleteTopics, ListDocuments, PruneTables, Export, OpenFile, ImportRow, CloseFile,
         Search, RankFound, Fails, Ends, At, Ended, MemoryTypeOK
  <2>7. matched' # {} => \A u \in matched' : u \in URLs /\ docs'[u].rev # 0 /\ embs'[u].rev = docs'[u].rev
    BY <1>4, <2>5, <2>6, EndsMatched
  <2>8. matched' # {} => \A b \in Actors : op'[b].kind \in Writers => ~Underway(b)'
    <3>1. HAVE matched' # {}
    <3>2. pc'[a] = "ok" /\ a \in lone
      BY <2>5, <3>1 DEF Ended
    <3>3. ~Underway(a)'
      BY <3>2 DEF Underway, Over
    <3> QED
      BY <1>1, <1>3, <3>2, <3>3 DEF LoneInv
  <2> QED
    BY <1>1, <2>2, <2>3, <2>4, <2>7, <2>8 DEF LoneInv, MatchInv, Alone
<1>7. CASE op[a].kind \notin Writers
  <2>1. lone' = lone /\ a \notin lone /\ matched' = matched
    BY <1>2, <1>7 DEF LoneInv
  <2>2. docs' = docs /\ embs' = embs
    BY <1>7, OnlyWritersWrite
  <2>3. \A b \in lone : /\ b # a /\ pc'[b] = pc[b] /\ cur'[b] = cur[b] /\ queue'[b] = queue[b]
                        /\ reusable'[b] = reusable[b]
    BY <1>1, <2>1 DEF Apart, LoneInv
  <2>4. \A b \in lone : Alone(b)'
    BY <1>1, <1>4, <2>2, <2>3 DEF Alone, ObserveOK, RefreshOK, Matches, URL
  <2>5. \A c \in lone' : \A b \in Actors : Underway(b)' /\ op'[b].kind \in Writers => b = c
    BY <1>1, <1>3, <1>7, <2>1 DEF LoneInv
  <2>6. matched' # {} => \A b \in Actors : op'[b].kind \in Writers => ~Underway(b)'
    BY <1>1, <1>3, <1>7, <2>1 DEF LoneInv
  <2> QED
    BY <1>1, <2>1, <2>2, <2>4, <2>5, <2>6 DEF LoneInv, MatchInv, Alone
<1> QED
  BY <1>5, <1>6, <1>7

-----------------------------------------------------------------------------
(* The invariant *)

LEMMA MemoryInitial == MemoryInit => MemoryInd
<1> SUFFICES ASSUME MemoryInit PROVE MemoryInd
  OBVIOUS
<1> USE DEF MemoryInit
<1>1. MemoryTypeOK
  <2>1. \A a \in Actors : HandsOK(a)
    BY DEF HandsOK, Over, Filing, Underway
  <2>2. TableTypes /\ CountsOK
    BY MemoryConstants DEF TableTypes, CountsOK, NoRow, Stamped, NothingFound
  <2>3. DOMAIN dump = Range(Tables) /\ \A t \in Range(Tables) : dump[t].rows \subseteq RowsOf(t)
    OBVIOUS
  <2> QED
    BY <2>1, <2>2, <2>3 DEF MemoryTypeOK, TableTypes, CountsOK
<1>2. TopicsInv /\ CoverInv
  BY DEF TopicsInv, CoverInv
<1>3. LoneInv /\ MatchInv
  BY DEF LoneInv, MatchInv
<1>4. SearchInv /\ FoundSoFarInv
  BY DEF SearchInv, FoundSoFarInv
<1> QED
  BY <1>1, <1>2, <1>3, <1>4 DEF MemoryInd

LEMMA MemoryInductive == MemoryInd /\ [MemoryNext]_memoryVars => MemoryInd'
<1> SUFFICES ASSUME MemoryInd, [MemoryNext]_memoryVars PROVE MemoryInd'
  OBVIOUS
<1>1. ASSUME NEW a \in Actors, OperationStep(a) PROVE MemoryInd'
  BY <1>1, StepTypes, TopicsStep, LoneStep, SearchSteps DEF MemoryInd
<1>2. CASE UNCHANGED memoryVars
  <2> USE <1>2 DEF memoryVars, tables, locals, history
  <2>1. MemoryTypeOK'
    <3>1. \A a \in Actors : HandsOK(a)'
      BY DEF MemoryInd, MemoryTypeOK, HandsOK, Underway, URL, RowsOf
    <3>2. (\A a \in Actors : HandsOK(a))'
      BY <3>1
    <3>3. TableTypes' /\ CountsOK' /\ op' \in Plans
      BY DEF MemoryInd, MemoryTypeOK, TableTypes, CountsOK
    <3>4. DumpOK'
      BY DumpStays DEF MemoryInd, MemoryTypeOK, DumpOK
    <3>5. (\A d \in {DOMAIN pc, DOMAIN cur, DOMAIN level, DOMAIN reusable, DOMAIN queue, DOMAIN held,
                     DOMAIN filed, DOMAIN steady} : d = Actors)'
      BY DEF MemoryInd, MemoryTypeOK
    <3> QED
      BY <3>2, <3>3, <3>4, <3>5 DEF MemoryTypeOK, TableTypes, CountsOK, DumpOK
  <2>2. TopicsInv' /\ CoverInv'
    BY DEF MemoryInd, TopicsInv, CoverInv, Filed, Rebuilds, FilesBelow, Searchable, URL
  <2>3. LoneInv' /\ MatchInv'
    BY DEF MemoryInd, LoneInv, MatchInv, ObserveOK, RefreshOK, Matches, Underway, URL
  <2>4. SearchInv' /\ FoundSoFarInv'
    BY DEF MemoryInd, SearchInv, FoundSoFarInv, Served
  <2> QED
    BY <2>1, <2>2, <2>3, <2>4 DEF MemoryInd
<1> QED
  BY <1>1, <1>2 DEF MemoryNext, OperationStep

\* Whatever operations of however many processes are interleaved, statement
\* by statement, and whichever of them fails: rows keep their types, a page
\* that was filed to its end has its topics unless a rebuild is not at its
\* end, a writer that ran alone leaves the embedding of what the document
\* says, and a search finds every page that was there throughout and whose
\* score reaches its floor, unless it finds as many pages as it may that
\* score no worse (memory/service.go, sqlite_store.go).
THEOREM MemorySafety == MemorySpec => []MemoryInd
<1> QED
  BY MemoryInitial, MemoryInductive, PTL DEF MemorySpec

-----------------------------------------------------------------------------
(***************************************************************************)
(* Proofs about Records: LogInd for the log and AnalyticsInd for the       *)
(* analytics, whichever process writes, rotates, appends or exports.       *)
(*                                                                         *)
(* The argument for the log: room in a file is counted together with the   *)
(* writers that will end in it, so that it is used up at most once by      *)
(* each; and while one process rotates alone, the names have no gap but    *)
(* the one it is moving, so that only the oldest full file is overwritten. *)
(***************************************************************************)
(* The log: the counts of its writers *)

Appenders == {w \in Loggers : lstep[w] = "append"}
LogWriters == {w \in Loggers : Busy(w)}

\* What a step of w leaves of the others.
Elsewhere(w) ==
  \A v \in Loggers \ {w} : lstep'[v] = lstep[v] /\ handle'[v] = handle[v] /\ shifting'[v] = shifting[v]

\* The counts of writers follow the step of w.
LEMMA CountsFollow ==
  ASSUME NEW w \in Loggers, Elsewhere(w)
  PROVE  /\ Cardinality(LogWriters) \in Nat /\ Cardinality(LogWriters)' \in Nat
         /\ (Busy(w) <=> Busy(w)') => Cardinality(LogWriters)' = Cardinality(LogWriters)
         /\ ~Busy(w) /\ Busy(w)' => Cardinality(LogWriters)' = Cardinality(LogWriters) + 1
         /\ Busy(w) /\ ~Busy(w)' => Cardinality(LogWriters)' = Cardinality(LogWriters) - 1
         /\ Cardinality(Appenders) \in Nat /\ Cardinality(Appenders)' \in Nat
         /\ (lstep[w] = "append" <=> lstep'[w] = "append") => Cardinality(Appenders)' = Cardinality(Appenders)
         /\ lstep[w] # "append" /\ lstep'[w] = "append" => Cardinality(Appenders)' = Cardinality(Appenders) + 1
         /\ lstep[w] = "append" /\ lstep'[w] # "append" => Cardinality(Appenders)' = Cardinality(Appenders) - 1
<1>1. /\ LogWriters \in SUBSET Loggers /\ LogWriters' \in SUBSET Loggers /\ LogWriters \ {w} = LogWriters' \ {w}
      /\ (w \in LogWriters <=> Busy(w)) /\ (w \in LogWriters' <=> Busy(w)')
  BY DEF LogWriters, Elsewhere, Busy
<1>2. /\ Appenders \in SUBSET Loggers /\ Appenders' \in SUBSET Loggers /\ Appenders \ {w} = Appenders' \ {w}
      /\ (w \in Appenders <=> lstep[w] = "append") /\ (w \in Appenders' <=> lstep'[w] = "append")
  BY DEF Appenders, Elsewhere
<1>3. /\ Cardinality(LogWriters) \in Nat /\ Cardinality(LogWriters') \in Nat
      /\ (w \in LogWriters <=> w \in LogWriters') => Cardinality(LogWriters') = Cardinality(LogWriters)
      /\ w \notin LogWriters /\ w \in LogWriters' => Cardinality(LogWriters') = Cardinality(LogWriters) + 1
      /\ w \in LogWriters /\ w \notin LogWriters' => Cardinality(LogWriters') = Cardinality(LogWriters) - 1
  BY <1>1, LogConstants, OneDiffers
<1>4. /\ Cardinality(Appenders) \in Nat /\ Cardinality(Appenders') \in Nat
      /\ (w \in Appenders <=> w \in Appenders') => Cardinality(Appenders') = Cardinality(Appenders)
      /\ w \notin Appenders /\ w \in Appenders' => Cardinality(Appenders') = Cardinality(Appenders) + 1
      /\ w \in Appenders /\ w \notin Appenders' => Cardinality(Appenders') = Cardinality(Appenders) - 1
  BY <1>2, LogConstants, OneDiffers
<1> QED
  BY <1>1, <1>2, <1>3, <1>4, Zenon

\* The writers that are bound for a file follow the step of w.
LEMMA BoundFollows ==
  ASSUME NEW w \in Loggers, Elsewhere(w), NEW f, slot'[0] = slot[0] \/ (slot[0] # f /\ slot'[0] # f)
  PROVE  /\ Cardinality(Bound(f)) \in Nat /\ Cardinality(Bound(f))' \in Nat
         /\ (w \in Bound(f) <=> w \in Bound(f)') => Cardinality(Bound(f))' = Cardinality(Bound(f))
         /\ w \notin Bound(f) /\ w \in Bound(f)' => Cardinality(Bound(f))' = Cardinality(Bound(f)) + 1
         /\ w \in Bound(f) /\ w \notin Bound(f)' => Cardinality(Bound(f))' = Cardinality(Bound(f)) - 1
<1>1. Bound(f) \in SUBSET Loggers /\ Bound(f)' \in SUBSET Loggers /\ Bound(f) \ {w} = Bound(f)' \ {w}
  BY DEF Bound, Elsewhere
<1> QED
  BY <1>1, LogConstants, OneDiffers

-----------------------------------------------------------------------------
(* Types, and the room in a file *)

\* The parts of LogTypeOK.
FilesOK ==
  /\ slot \in [Slots -> 0..files] /\ files \in Nat /\ written \in Nat
  /\ text \in [Logs -> SUBSET (1..written)] /\ \A f \in Logs : f > files => text[f] = {}
  /\ \A i, j \in Named : slot[i] = slot[j] => i = j

WritersOK ==
  /\ lstep \in [Loggers -> {"idle", "shift", "move", "open", "append"}]
  /\ handle \in [Loggers -> 0..files]
  /\ \A w \in Loggers : handle[w] # NoLog <=> lstep[w] = "append"
  /\ shifting \in [Loggers -> 0..(MaxFiles - 1)]
  /\ \A w \in Loggers : lstep[w] = "shift" => shifting[w] > 0

LogCountsOK ==
  /\ logFaults \in 0..MaxLogFaults /\ disturbed \in BOOLEAN
  /\ written + Cardinality(LogWriters) <= MaxEvents
  /\ files <= written + Cardinality(Appenders) + logFaults

\* The type invariant in parts: the files, the writers and their counts.
LEMMA TypeParts == LogTypeOK <=> FilesOK /\ WritersOK /\ LogCountsOK
BY Zenon DEF LogTypeOK, FilesOK, WritersOK, LogCountsOK, LogWriters, Appenders, Pending

\* The same after a step.
LEMMA TypePartsNext == LogTypeOK' <=> FilesOK' /\ WritersOK' /\ LogCountsOK'
BY TypeParts, PTL

\* There is a file for everything that has a number.
LEMMA FilesInLogs ==
  ASSUME LogTypeOK
  PROVE  files \in 0..(MaxEvents + MaxLogFaults)
<1>1. Appenders \in SUBSET LogWriters /\ LogWriters \in SUBSET Loggers
  BY DEF Appenders, LogWriters, Busy
<1>2. IsFiniteSet(LogWriters)
  BY <1>1, LogConstants, FS_Subset
<1>3. Cardinality(Appenders) \in Nat /\ Cardinality(LogWriters) \in Nat /\ Cardinality(Appenders) <= Cardinality(LogWriters)
  BY <1>1, <1>2, FS_Subset, FS_CardinalityType
<1>4. /\ files \in Nat /\ written \in Nat /\ logFaults \in 0..MaxLogFaults
      /\ written + Cardinality(LogWriters) <= MaxEvents
      /\ files <= written + Cardinality(Appenders) + logFaults
  BY TypeParts DEF FilesOK, LogCountsOK
<1> QED
  BY <1>3, <1>4, LogConstants

\* There is a number for a file that is created.
LEMMA NewFileInLogs ==
  ASSUME LogTypeOK, NEW w \in Loggers, lstep[w] = "open"
  PROVE  files + 1 \in Logs
<1>1. Appenders \cup {w} \subseteq LogWriters /\ LogWriters \in SUBSET Loggers /\ w \notin Appenders
  BY DEF Appenders, LogWriters, Busy
<1>2. IsFiniteSet(LogWriters) /\ IsFiniteSet(Appenders)
  BY <1>1, LogConstants, FS_Subset
<1>3. /\ Cardinality(Appenders) \in Nat /\ Cardinality(LogWriters) \in Nat
      /\ Cardinality(Appenders \cup {w}) = Cardinality(Appenders) + 1
      /\ Cardinality(Appenders \cup {w}) <= Cardinality(LogWriters)
  BY <1>1, <1>2, FS_Subset, FS_CardinalityType, FS_AddElement
<1>4. /\ files \in Nat /\ written \in Nat /\ logFaults \in 0..MaxLogFaults
      /\ written + Cardinality(LogWriters) <= MaxEvents
      /\ files <= written + Cardinality(Appenders) + logFaults
  BY TypeParts DEF FilesOK, LogCountsOK
<1> QED
  BY <1>3, <1>4, LogConstants DEF Logs

\* No more writers are bound for a file than there are (Writer.Write).
LEMMA BoundCount ==
  ASSUME NEW f
  PROVE  /\ Cardinality(Bound(f)) \in Nat /\ Cardinality(Bound(f))' \in Nat
         /\ Cardinality(Loggers) \in Nat
         /\ Cardinality(Bound(f))' <= Cardinality(Loggers)
         /\ Bound(f)' \subseteq Bound(f) => Cardinality(Bound(f))' <= Cardinality(Bound(f))
<1>1. Bound(f) \subseteq Loggers /\ Bound(f)' \subseteq Loggers /\ IsFiniteSet(Loggers)
  BY LogConstants DEF Bound
<1>2. IsFiniteSet(Bound(f)) /\ IsFiniteSet(Bound(f)')
  BY <1>1, FS_Subset
<1> QED
  BY <1>1, <1>2, FS_Subset, FS_CardinalityType

\* What the room in file f comes to; a step that lets no more writers end
\* there keeps it.
Room(f) == Cardinality(text[f]) + Cardinality(Bound(f)) <= MaxSize + (Cardinality(Loggers) - 1) + logFaults

\* What a file holds is finite: events that were written.
LEMMA TextCount ==
  ASSUME LogTypeOK, NEW f \in 1..files
  PROVE  /\ f \in Logs /\ text[f] \in SUBSET (1..written)
         /\ IsFiniteSet(text[f]) /\ Cardinality(text[f]) \in Nat
<1>1. f \in Logs
  BY FilesInLogs, LogConstants DEF Logs
<1>2. text[f] \in SUBSET (1..written) /\ written \in Nat
  BY <1>1, TypeParts DEF FilesOK
<1>3. IsFiniteSet(1..written)
  BY <1>2, FS_Interval
<1> QED
  BY <1>1, <1>2, <1>3, FS_Subset, FS_CardinalityType

\* A step that lets no more writers end in a file keeps its room.
LEMMA RoomKept ==
  ASSUME LogTypeOK, NEW f \in 1..files, Room(f), Bound(f)' \subseteq Bound(f), text' = text,
         logFaults' \in Nat, logFaults' >= logFaults
  PROVE  Room(f)'
<1>1. Cardinality(text[f]) \in Nat /\ logFaults \in Nat
  BY TextCount, LogConstants DEF LogTypeOK
<1>2. MaxSize \in Nat
  BY LogConstants
<1> QED
  BY <1>1, <1>2, BoundCount DEF Room

\* The size of the active file is looked up before anything is opened
\* (rotateIfNeeded).
LEMMA DecideTypes ==
  ASSUME LogTypeOK, SizeInv, NEW w \in Loggers, Decide(w), Watch
  PROVE  LogTypeOK' /\ SizeInv'
<1>1. /\ lstep[w] = "idle" /\ written + Cardinality(LogWriters) < MaxEvents
      /\ UNCHANGED <<slot, text, handle, files, written, logFaults>>
      /\ \/ /\ slot[0] # NoLog /\ Cardinality(text[slot[0]]) + 1 > MaxSize
            /\ lstep' = [lstep EXCEPT ![w] = IF MaxFiles > 1 THEN "shift" ELSE "move"]
            /\ shifting' = [shifting EXCEPT ![w] = MaxFiles - 1]
         \/ /\ ~(slot[0] # NoLog /\ Cardinality(text[slot[0]]) + 1 > MaxSize)
            /\ lstep' = [lstep EXCEPT ![w] = "open"] /\ shifting' = shifting
  BY Zenon DEF Decide, Busy, Pending, LogWriters
<1>2. FilesOK /\ WritersOK /\ LogCountsOK
  BY TypeParts
<1>3. FilesOK'
  BY <1>1, <1>2 DEF FilesOK, Named
<1>4. WritersOK'
  <2>1. MaxFiles - 1 \in 0..(MaxFiles - 1) /\ (MaxFiles > 1 => MaxFiles - 1 > 0)
    BY LogConstants
  <2> QED
    BY <1>1, <1>2, <2>1 DEF WritersOK
<1>5. Elsewhere(w) /\ lstep'[w] \notin {"idle", "append"}
  BY <1>1, <1>2 DEF Elsewhere, WritersOK
<1>6. LogCountsOK'
  <2>1. Cardinality(LogWriters)' = Cardinality(LogWriters) + 1 /\ Cardinality(Appenders)' = Cardinality(Appenders) /\ Cardinality(LogWriters) \in Nat
    BY <1>1, <1>5, CountsFollow DEF Busy
  <2>2. disturbed' \in BOOLEAN
    BY <1>2 DEF Watch, LogCountsOK
  <2>3. written \in Nat /\ MaxEvents \in Nat
    BY <1>2, LogConstants DEF FilesOK
  <2>4. written' + Cardinality(LogWriters)' <= MaxEvents
    BY <1>1, <2>1, <2>3
  <2> QED
    BY <1>1, <1>2, <2>1, <2>2, <2>4 DEF LogCountsOK
<1>7. ASSUME NEW f \in 1..files PROVE Room(f)'
  <2>1. Room(f)
    BY DEF SizeInv, Room
  <2>2. logFaults \in Nat /\ MaxSize \in Nat
    BY <1>2, LogConstants DEF LogCountsOK
  <2>3. CASE lstep'[w] = "open" /\ slot[0] = f
    <3>1. ~(Cardinality(text[f]) + 1 > MaxSize)
      <4>1. slot[0] # NoLog
        BY <2>3 DEF NoLog
      <4>2. ~(slot[0] # NoLog /\ Cardinality(text[slot[0]]) + 1 > MaxSize)
        BY <1>1, <1>2, <2>3 DEF WritersOK
      <4> QED
        BY <2>3, <4>1, <4>2, Zenon
    <3>2. Cardinality(text[f]) \in Nat
      BY TextCount
    <3> QED
      BY <1>1, <2>2, <3>1, <3>2, BoundCount DEF Room
  <2>4. CASE ~(lstep'[w] = "open" /\ slot[0] = f)
    <3>1. Bound(f)' \subseteq Bound(f)
      BY <1>1, <1>5, <2>4 DEF Bound, Elsewhere
    <3> QED
      BY <1>1, <2>1, <2>2, <3>1, RoomKept
  <2> QED
    BY <2>3, <2>4
<1> QED
  BY <1>1, <1>3, <1>4, <1>6, <1>7, TypePartsNext DEF SizeInv, Room

\* A rename changes which names are taken, and which file each stands for.
LEMMA RenamedFiles ==
  ASSUME LogTypeOK, NEW n \in 0..(MaxFiles - 1), slot' = Renamed(n), slot[n] # NoLog
  PROVE  /\ slot' \in [Slots -> 0..files] /\ n \in Slots /\ n + 1 \in Slots
         /\ slot'[n] = NoLog /\ slot'[n + 1] = slot[n]
         /\ \A i \in Slots \ {n, n + 1} : slot'[i] = slot[i]
         /\ Named' = (Named \ {n}) \cup {n + 1}
<1>1. slot \in [Slots -> 0..files] /\ files \in Nat /\ MaxFiles \in Nat
  BY TypeParts, LogConstants DEF FilesOK
<1>2. n \in Slots /\ n + 1 \in Slots /\ n # n + 1
  BY <1>1 DEF Slots
<1>3. slot' = [slot EXCEPT ![n + 1] = slot[n], ![n] = NoLog]
  BY DEF Renamed
<1>4. /\ slot' \in [Slots -> 0..files]
      /\ slot'[n] = NoLog /\ slot'[n + 1] = slot[n]
      /\ \A i \in Slots \ {n, n + 1} : slot'[i] = slot[i]
  BY <1>1, <1>2, <1>3 DEF NoLog
<1>5. Named' = (Named \ {n}) \cup {n + 1}
  BY <1>2, <1>4 DEF Named
<1> QED
  BY <1>2, <1>4, <1>5

\* A rename, whether it fails or not, keeps the files.
LEMMA MovesFiles ==
  ASSUME LogTypeOK, NEW n \in 0..(MaxFiles - 1), Moves(n), UNCHANGED <<text, files, written>>
  PROVE  /\ FilesOK' /\ logFaults' \in 0..MaxLogFaults /\ logFaults' >= logFaults
         /\ slot' = Renamed(n) \/ (slot' = slot /\ logFaults' = logFaults + 1)
<1>1. FilesOK /\ logFaults \in 0..MaxLogFaults /\ MaxLogFaults \in Nat
  BY TypeParts, LogConstants DEF LogCountsOK
<1>2. \/ slot' = Renamed(n) /\ logFaults' = logFaults
      \/ logFaults < MaxLogFaults /\ logFaults' = logFaults + 1 /\ slot' = slot
  BY DEF Moves
<1>3. logFaults' \in 0..MaxLogFaults /\ logFaults' >= logFaults
  BY <1>1, <1>2
<1>4. FilesOK'
  <2>1. CASE slot' = slot
    BY <1>1, <2>1 DEF FilesOK, Named
  <2>2. CASE slot' = Renamed(n) /\ slot[n] # NoLog
    <3>1. \A i, j \in Named' : slot'[i] = slot'[j] => i = j
      BY <1>1, <2>2, RenamedFiles DEF FilesOK, Named
    <3> QED
      BY <1>1, <2>2, <3>1, RenamedFiles DEF FilesOK
  <2> QED
    BY <1>2, <2>1, <2>2 DEF Renamed
<1> QED
  BY <1>2, <1>3, <1>4

\* A writer that goes on within its rotation.
LEMMA ShiftTypes ==
  ASSUME LogTypeOK, SizeInv, NEW w \in Loggers, Shift(w), Watch
  PROVE  LogTypeOK' /\ SizeInv'
<1> DEFINE n == shifting[w]
<1>1. /\ lstep[w] = "shift" /\ Moves(n)
      /\ shifting' = [shifting EXCEPT ![w] = n - 1]
      /\ lstep' = [lstep EXCEPT ![w] = IF n = 1 THEN "move" ELSE "shift"]
      /\ UNCHANGED <<text, handle, files, written>>
  BY DEF Shift
<1>2. FilesOK /\ WritersOK /\ LogCountsOK
  BY TypeParts
<1>3. n \in 1..(MaxFiles - 1) /\ MaxFiles \in Nat
  BY <1>1, <1>2, LogConstants DEF WritersOK
<1>4. /\ FilesOK' /\ logFaults' \in 0..MaxLogFaults /\ logFaults' >= logFaults
      /\ slot' = Renamed(n) \/ slot' = slot
  BY <1>1, <1>3, MovesFiles
<1>5. WritersOK'
  <2>1. n - 1 \in 0..(MaxFiles - 1) /\ (n # 1 => n - 1 > 0)
    BY <1>3
  <2> HIDE DEF n
  <2> QED
    BY <1>1, <1>2, <2>1 DEF WritersOK
<1>6. Elsewhere(w) /\ lstep'[w] \notin {"idle", "append", "open"}
  BY <1>1, <1>2 DEF Elsewhere, WritersOK
<1>7. LogCountsOK'
  <2>1. Cardinality(LogWriters)' = Cardinality(LogWriters) /\ Cardinality(Appenders)' = Cardinality(Appenders)
        /\ Cardinality(Appenders) \in Nat
    BY <1>1, <1>6, CountsFollow DEF Busy
  <2>2. disturbed' \in BOOLEAN
    BY <1>2 DEF Watch, LogCountsOK
  <2>3. files \in Nat /\ written \in Nat /\ logFaults \in Nat /\ logFaults' \in Nat
    BY <1>2, <1>4, LogConstants DEF FilesOK, LogCountsOK
  <2>4. files' <= written' + Cardinality(Appenders)' + logFaults'
    BY <1>1, <1>2, <1>4, <2>1, <2>3 DEF LogCountsOK
  <2> QED
    BY <1>1, <1>2, <1>4, <2>1, <2>2, <2>4 DEF LogCountsOK
<1>8. slot'[0] = slot[0]
  <2>1. CASE slot[n] # NoLog /\ slot' = Renamed(n)
    <3>1. 0 \in Slots \ {n, n + 1} /\ n \in 0..(MaxFiles - 1)
      BY <1>3 DEF Slots
    <3> QED
      BY <2>1, <3>1, RenamedFiles
  <2> QED
    BY <1>4, <2>1 DEF Renamed
<1>9. ASSUME NEW f \in 1..files PROVE Room(f)'
  <2>1. Room(f)
    BY DEF SizeInv, Room
  <2>2. logFaults' \in Nat
    BY <1>4, LogConstants
  <2>3. Bound(f)' \subseteq Bound(f)
    BY <1>1, <1>6, <1>8 DEF Bound, Elsewhere
  <2> QED
    BY <1>1, <1>4, <2>1, <2>2, <2>3, RoomKept
<1> QED
  BY <1>1, <1>4, <1>5, <1>7, <1>9, TypePartsNext DEF SizeInv, Room

\* A writer whose rotation is over opens what is there, which is the full
\* file if it could not be renamed.
LEMMA MoveActiveTypes ==
  ASSUME LogTypeOK, SizeInv, NEW w \in Loggers, MoveActive(w), Watch
  PROVE  LogTypeOK' /\ SizeInv'
<1>1. /\ lstep[w] = "move" /\ Moves(0) /\ lstep' = [lstep EXCEPT ![w] = "open"]
      /\ UNCHANGED <<text, shifting, handle, files, written>>
  BY DEF MoveActive
<1>2. FilesOK /\ WritersOK /\ LogCountsOK
  BY TypeParts
<1>3. 0 \in 0..(MaxFiles - 1) /\ 0 \in Slots
  BY LogConstants DEF Slots
<1>4. /\ FilesOK' /\ logFaults' \in 0..MaxLogFaults /\ logFaults' >= logFaults
      /\ slot' = Renamed(0) \/ (slot' = slot /\ logFaults' = logFaults + 1)
  BY <1>1, <1>3, MovesFiles
<1>5. WritersOK'
  BY <1>1, <1>2 DEF WritersOK
<1>6. Elsewhere(w) /\ lstep'[w] = "open"
  BY <1>1, <1>2 DEF Elsewhere, WritersOK
<1>7. LogCountsOK'
  <2>1. Cardinality(LogWriters)' = Cardinality(LogWriters) /\ Cardinality(Appenders)' = Cardinality(Appenders)
        /\ Cardinality(Appenders) \in Nat
    BY <1>1, <1>6, CountsFollow DEF Busy
  <2>2. disturbed' \in BOOLEAN
    BY <1>2 DEF Watch, LogCountsOK
  <2>3. files \in Nat /\ written \in Nat /\ logFaults \in Nat /\ logFaults' \in Nat
    BY <1>2, <1>4, LogConstants DEF FilesOK, LogCountsOK
  <2>4. files' <= written' + Cardinality(Appenders)' + logFaults'
    BY <1>1, <1>2, <1>4, <2>1, <2>3 DEF LogCountsOK
  <2> QED
    BY <1>1, <1>2, <1>4, <2>1, <2>2, <2>4 DEF LogCountsOK
<1>8. CASE slot'[0] = NoLog
  <2>1. ASSUME NEW f \in 1..files PROVE Room(f)'
    <3>1. Room(f)
      BY DEF SizeInv, Room
    <3>2. logFaults' \in Nat
      BY <1>4, LogConstants
    <3>3. Bound(f)' \subseteq Bound(f)
      <4>1. slot'[0] # f
        BY <1>8 DEF NoLog
      <4> QED
        BY <1>1, <1>6, <4>1 DEF Bound, Elsewhere
    <3> QED
      BY <1>1, <1>4, <3>1, <3>2, <3>3, RoomKept
  <2> QED
    BY <1>1, <1>4, <1>5, <1>7, <2>1, TypePartsNext DEF SizeInv, Room
<1>9. CASE slot' = slot /\ logFaults' = logFaults + 1
  <2>1. ASSUME NEW f \in 1..files PROVE Room(f)'
    <3>1. Room(f)
      BY DEF SizeInv, Room
    <3>2. Cardinality(Bound(f))' <= Cardinality(Bound(f)) + 1
      BY <1>6, <1>9, BoundFollows
    <3>3. Cardinality(text[f]) \in Nat /\ logFaults \in Nat /\ MaxSize \in Nat
      BY <1>2, TextCount, LogConstants DEF LogCountsOK
    <3> QED
      BY <1>1, <1>9, <3>1, <3>2, <3>3, BoundCount DEF Room
  <2> QED
    BY <1>1, <1>4, <1>5, <1>7, <2>1, TypePartsNext DEF SizeInv, Room
<1>10. slot'[0] = NoLog \/ (slot' = slot /\ logFaults' = logFaults + 1)
  BY <1>3, <1>4, RenamedFiles DEF Renamed
<1> QED
  BY <1>8, <1>9, <1>10

\* A file that is created is empty, and all writers may end up in it.
LEMMA OpenLogTypes ==
  ASSUME LogTypeOK, SizeInv, NEW w \in Loggers, OpenLog(w), Watch
  PROVE  LogTypeOK' /\ SizeInv'
<1>1. /\ lstep[w] = "open" /\ lstep' = [lstep EXCEPT ![w] = "append"]
      /\ UNCHANGED <<text, shifting, written, logFaults>>
      /\ \/ /\ slot[0] = NoLog /\ files' = files + 1 /\ slot' = [slot EXCEPT ![0] = files + 1]
            /\ handle' = [handle EXCEPT ![w] = files + 1]
         \/ slot[0] # NoLog /\ handle' = [handle EXCEPT ![w] = slot[0]] /\ files' = files /\ slot' = slot
  BY Zenon DEF OpenLog
<1>2. FilesOK /\ WritersOK /\ LogCountsOK
  BY TypeParts
<1>3. 0 \in Slots /\ files \in Nat /\ slot[0] \in 0..files /\ logFaults \in Nat /\ MaxSize \in Nat \ {0}
  BY <1>2, LogConstants DEF Slots, FilesOK, LogCountsOK
<1>4. Elsewhere(w) /\ lstep'[w] = "append"
  BY <1>1, <1>2 DEF Elsewhere, WritersOK
<1>5. FilesOK'
  <2>1. CASE slot[0] = NoLog
    <3>1. files' = files + 1 /\ slot' = [slot EXCEPT ![0] = files + 1]
      BY <1>1, <2>1
    <3>2. slot' \in [Slots -> 0..files'] /\ files' \in Nat
      BY <1>2, <1>3, <3>1 DEF FilesOK
    <3>3. \A f \in Logs : f > files' => text[f] = {}
      BY <1>2, <1>3, <3>1 DEF FilesOK, Logs
    <3>4. slot'[0] = files + 1 /\ \A i \in Slots \ {0} : slot'[i] = slot[i] /\ slot[i] \in 0..files
      BY <1>2, <1>3, <3>1 DEF FilesOK
    <3>5. \A i, j \in Named' : slot'[i] = slot'[j] => i = j
      BY <1>2, <1>3, <3>4 DEF FilesOK, Named
    <3> QED
      BY <1>1, <1>2, <3>2, <3>3, <3>5 DEF FilesOK
  <2>2. CASE slot[0] # NoLog
    BY <1>1, <1>2, <2>2 DEF FilesOK, Named
  <2> QED
    BY <2>1, <2>2
<1>6. WritersOK'
  <2>1. PICK h \in 0..files' : handle' = [handle EXCEPT ![w] = h] /\ h # NoLog /\ files' >= files /\ files' \in Nat
    BY <1>1, <1>3 DEF NoLog
  <2>2. handle' \in [Loggers -> 0..files'] /\ handle'[w] # NoLog
    BY <1>2, <1>3, <2>1 DEF WritersOK
  <2> QED
    BY <1>1, <1>2, <1>4, <2>2 DEF WritersOK, Elsewhere
<1>7. LogCountsOK'
  <2>1. Cardinality(LogWriters)' = Cardinality(LogWriters) /\ Cardinality(Appenders)' = Cardinality(Appenders) + 1
        /\ Cardinality(Appenders) \in Nat
    BY <1>1, <1>4, CountsFollow DEF Busy
  <2>2. disturbed' \in BOOLEAN
    BY <1>2 DEF Watch, LogCountsOK
  <2>3. written \in Nat /\ (files' = files \/ files' = files + 1)
    BY <1>1, <1>2 DEF FilesOK
  <2>4. files' <= written' + Cardinality(Appenders)' + logFaults'
    BY <1>1, <1>2, <1>3, <2>1, <2>3 DEF LogCountsOK
  <2> QED
    BY <1>1, <1>2, <2>1, <2>2, <2>4 DEF LogCountsOK
<1>8. ASSUME NEW f \in 1..files PROVE Room(f)'
  <2>1. Room(f)
    BY DEF SizeInv, Room
  <2>2. Bound(f)' \subseteq Bound(f)
    <3>1. slot[0] = NoLog => slot'[0] = files + 1 /\ handle'[w] = files + 1
      BY <1>1, <1>2, <1>3 DEF FilesOK, WritersOK
    <3>2. slot[0] # NoLog => slot'[0] = slot[0] /\ handle'[w] = slot[0]
      BY <1>1, <1>2, <1>3 DEF WritersOK
    <3>3. f # files + 1 /\ f # NoLog
      BY <1>3 DEF NoLog
    <3> QED
      BY <1>1, <1>4, <3>1, <3>2, <3>3 DEF Bound, Elsewhere
  <2> QED
    BY <1>1, <1>3, <2>1, <2>2, RoomKept
<1>9. ASSUME NEW g, g = files', files' = files + 1 PROVE Room(g)'
  <2>2. g \in Logs
    BY <1>1, <1>9, NewFileInLogs
  <2>3. text'[g] = {}
    BY <1>1, <1>2, <1>3, <1>9, <2>2 DEF FilesOK
  <2>4. Cardinality(text'[g]) = 0
    BY <2>3, FS_EmptySet
  <2> QED
    BY <1>1, <1>3, <2>4, BoundCount DEF Room
<1> QED
  <2>1. \A f \in 1..files' : f \in 1..files \/ (files' = files + 1 /\ f = files')
    BY <1>1, <1>3
  <2>2. \A f \in 1..files' : Room(f)'
    BY <1>8, <1>9, <2>1
  <2> QED
    BY <1>5, <1>6, <1>7, <2>2, TypePartsNext DEF SizeInv, Room

\* An event that is written is one more in a file, and one writer less.
LEMMA AppendEventTypes ==
  ASSUME LogTypeOK, SizeInv, NEW w \in Loggers, AppendEvent(w), Watch
  PROVE  LogTypeOK' /\ SizeInv'
<1> DEFINE h == handle[w]
<1>1. /\ lstep[w] = "append" /\ written' = written + 1
      /\ text' = [text EXCEPT ![h] = @ \cup {written + 1}]
      /\ lstep' = [lstep EXCEPT ![w] = "idle"] /\ handle' = [handle EXCEPT ![w] = NoLog]
      /\ shifting' = [shifting EXCEPT ![w] = 0] /\ UNCHANGED <<slot, files, logFaults>>
  BY DEF AppendEvent, Done
<1>2. FilesOK /\ WritersOK /\ LogCountsOK
  BY TypeParts
<1>3. /\ h \in 1..files /\ h \in Logs /\ text[h] \in SUBSET (1..written) /\ written \in Nat /\ files \in Nat
      /\ IsFiniteSet(text[h]) /\ Cardinality(text[h]) \in Nat
  <2>1. h \in 1..files
    BY <1>1, <1>2 DEF WritersOK, FilesOK, NoLog
  <2> QED
    BY <1>2, <2>1, TextCount DEF FilesOK
<1>4. Elsewhere(w) /\ lstep'[w] = "idle" /\ handle'[w] = NoLog
  BY <1>1, <1>2 DEF Elsewhere, WritersOK
<1>5. FilesOK'
  <2>1. text' \in [Logs -> SUBSET (1..written')]
    <3>1. text \in [Logs -> SUBSET (1..(written + 1))] /\ text[h] \cup {written + 1} \in SUBSET (1..(written + 1))
      BY <1>2, <1>3 DEF FilesOK
    <3> HIDE DEF h
    <3> QED
      BY <1>1, <3>1
  <2>2. \A f \in Logs : f > files => text'[f] = {}
    BY <1>1, <1>2, <1>3 DEF FilesOK
  <2> QED
    BY <1>1, <1>2, <1>3, <2>1, <2>2 DEF FilesOK, Named
<1>6. WritersOK'
  <2>1. 0 \in 0..(MaxFiles - 1) /\ 0 \in 0..files
    BY <1>3, LogConstants
  <2> HIDE DEF h
  <2> QED
    BY <1>1, <1>2, <1>4, <2>1 DEF WritersOK, Elsewhere, NoLog
<1>7. LogCountsOK'
  <2>1. Cardinality(LogWriters)' = Cardinality(LogWriters) - 1 /\ Cardinality(Appenders)' = Cardinality(Appenders) - 1
        /\ Cardinality(Appenders) \in Nat /\ Cardinality(LogWriters) \in Nat
    BY <1>1, <1>4, CountsFollow DEF Busy
  <2>2. disturbed' \in BOOLEAN
    BY <1>2 DEF Watch, LogCountsOK
  <2>3. logFaults \in Nat /\ MaxEvents \in Nat
    BY <1>2, LogConstants DEF LogCountsOK
  <2>4. files' <= written' + Cardinality(Appenders)' + logFaults' /\ written' + Cardinality(LogWriters)' <= MaxEvents
    BY <1>1, <1>2, <1>3, <2>1, <2>3 DEF LogCountsOK
  <2> QED
    BY <1>1, <1>2, <2>2, <2>4 DEF LogCountsOK
<1>8. ASSUME NEW f \in 1..files PROVE Room(f)'
  <2>1. Room(f) /\ logFaults \in Nat /\ MaxSize \in Nat
    BY <1>2, LogConstants DEF SizeInv, Room, LogCountsOK
  <2>2. CASE f = h
    <3>1. text'[f] = text[f] \cup {written + 1} /\ written + 1 \notin text[f]
      <4>1. written + 1 \notin text[h]
        BY <1>3
      <4> QED
        BY <1>1, <1>2, <1>3, <2>2, <4>1 DEF FilesOK
    <3>2. Cardinality(text'[f]) = Cardinality(text[f]) + 1
      BY <1>3, <2>2, <3>1, FS_AddElement
    <3>3. w \in Bound(f) /\ w \notin Bound(f)'
      BY <1>1, <1>4, <2>2 DEF Bound
    <3>4. Cardinality(Bound(f))' = Cardinality(Bound(f)) - 1
      BY <1>1, <1>4, <3>3, BoundFollows
    <3>5. Cardinality(text[f]) \in Nat
      BY TextCount
    <3> QED
      BY <1>1, <2>1, <3>2, <3>4, <3>5, BoundCount DEF Room
  <2>3. CASE f # h
    <3>1. text'[f] = text[f] /\ Cardinality(text[f]) \in Nat
      BY <1>1, <1>2, <2>3, TextCount DEF FilesOK
    <3>2. Bound(f)' \subseteq Bound(f)
      BY <1>1, <1>4 DEF Bound, Elsewhere
    <3> QED
      BY <1>1, <2>1, <3>1, <3>2, BoundCount DEF Room
  <2> QED
    BY <2>2, <2>3
<1> QED
  BY <1>1, <1>5, <1>6, <1>7, <1>8, TypePartsNext DEF SizeInv, Room

\* A writer that gives up leaves the files as they are.
LEMMA WriteFailsTypes ==
  ASSUME LogTypeOK, SizeInv, NEW w \in Loggers, WriteFails(w), Watch
  PROVE  LogTypeOK' /\ SizeInv'
<1>1. /\ lstep[w] # "idle" /\ logFaults < MaxLogFaults /\ logFaults' = logFaults + 1
      /\ lstep' = [lstep EXCEPT ![w] = "idle"] /\ handle' = [handle EXCEPT ![w] = NoLog]
      /\ shifting' = [shifting EXCEPT ![w] = 0] /\ UNCHANGED <<slot, text, files, written>>
  BY DEF WriteFails, Done, Busy
<1>2. FilesOK /\ WritersOK /\ LogCountsOK
  BY TypeParts
<1>3. Elsewhere(w) /\ lstep'[w] = "idle" /\ handle'[w] = NoLog
  BY <1>1, <1>2 DEF Elsewhere, WritersOK
<1>4. FilesOK'
  BY <1>1, <1>2 DEF FilesOK, Named
<1>5. files \in Nat /\ written \in Nat /\ logFaults \in Nat /\ MaxLogFaults \in Nat /\ MaxEvents \in Nat
  BY <1>2, LogConstants DEF FilesOK, LogCountsOK
<1>6. WritersOK'
  <2>1. 0 \in 0..(MaxFiles - 1) /\ 0 \in 0..files
    BY <1>5, LogConstants
  <2> QED
    BY <1>1, <1>2, <1>3, <2>1 DEF WritersOK, Elsewhere, NoLog
<1>7. LogCountsOK'
  <2>1. /\ Cardinality(LogWriters)' = Cardinality(LogWriters) - 1 /\ Cardinality(Appenders)' >= Cardinality(Appenders) - 1
        /\ Cardinality(Appenders) \in Nat /\ Cardinality(LogWriters) \in Nat /\ Cardinality(Appenders)' \in Nat
    BY <1>1, <1>3, CountsFollow DEF Busy
  <2>2. disturbed' \in BOOLEAN
    BY <1>2 DEF Watch, LogCountsOK
  <2>3. files' <= written' + Cardinality(Appenders)' + logFaults' /\ written' + Cardinality(LogWriters)' <= MaxEvents
    BY <1>1, <1>2, <1>5, <2>1 DEF LogCountsOK
  <2>4. logFaults' \in 0..MaxLogFaults
    BY <1>1, <1>5
  <2> QED
    BY <1>1, <1>2, <2>2, <2>3, <2>4 DEF LogCountsOK
<1>8. ASSUME NEW f \in 1..files PROVE Room(f)'
  <2>1. Room(f)
    BY DEF SizeInv, Room
  <2>2. Bound(f)' \subseteq Bound(f)
    BY <1>1, <1>3 DEF Bound, Elsewhere
  <2> QED
    BY <1>1, <1>5, <2>1, <2>2, RoomKept
<1> QED
  BY <1>1, <1>4, <1>6, <1>7, <1>8, TypePartsNext DEF SizeInv, Room

-----------------------------------------------------------------------------
(* Rotations that run alone *)

\* The parts of Orderly that speak of the files.
FilesOrdered ==
  /\ OldestGone
  /\ \A i, j \in Named : i < j =>
       \A d \in text[slot[i]], e \in text[slot[j]] : e < d
  /\ \A i \in Named \ {0} : Cardinality(text[slot[i]]) >= MaxSize

HandlesActive == \A w \in Loggers : lstep[w] = "append" => handle[w] = slot[0]

Positions ==
  /\ (\A v \in Loggers : ~Rotates(v)) => Compact
  /\ \A v \in Loggers, n \in Slots : Rotates(v) /\ Due(v) = n => CompactBut(n)

\* Orderly in parts: the files, the open handles, the rotation.
LEMMA OrderlyParts == Orderly <=> FilesOrdered /\ HandlesActive /\ Positions
BY Zenon DEF Orderly, FilesOrdered, HandlesActive, Positions

\* The same after a step.
LEMMA OrderlyPartsNext == Orderly' <=> FilesOrdered' /\ HandlesActive' /\ Positions'
BY OrderlyParts, PTL

\* What is kept of each step: it need be considered only if nothing failed
\* and no rotation was disturbed, before and after.
LEMMA UndisturbedStep ==
  ASSUME LogTypeOK, UndisturbedInv, Watch, logFaults' \in Nat, logFaults' >= logFaults,
         ~Disturbs /\ ~Disturbs' /\ logFaults = 0 /\ logFaults' = 0 /\ Orderly => Orderly'
  PROVE  UndisturbedInv'
<1>1. ~disturbed' => ~disturbed /\ ~Disturbs'
  BY DEF Watch, LogTypeOK
<1>2. logFaults' = 0 => logFaults = 0
  BY LogConstants DEF LogTypeOK
<1> QED
  BY <1>1, <1>2, Zenon DEF UndisturbedInv

\* One rename of an undisturbed rotation.
LEMMA RenameOrderly ==
  ASSUME LogTypeOK, FilesOrdered, NEW n \in 0..(MaxFiles - 1), CompactBut(n),
         slot' = Renamed(n), UNCHANGED <<text, written>>
  PROVE  /\ FilesOrdered'
         /\ n = 0 => Compact'
         /\ \A m \in Slots : m = n - 1 => CompactBut(m)'
<1>0. /\ MaxFiles \in Nat \ {0} /\ n \in Slots /\ n + 1 \in Slots /\ 0 \in Slots
      /\ \A i \in Slots : i \in 0..MaxFiles
      /\ \A i \in Named : i \in Slots /\ i \in Nat
  BY LogConstants DEF Slots, Named
<1>1. CASE n \notin Named
  <2>1. slot' = slot /\ Named' = Named /\ Gone' = Gone /\ Retained' = Retained
    BY <1>0, <1>1 DEF Renamed, Named, Gone, Retained
  <2>2. FilesOrdered'
    BY <2>1 DEF FilesOrdered, OldestGone
  <2>3. \A i \in Named : i < n
    <3>1. \A i \in Named : n \in (0..(i - 1)) \ {n + 1} => n \in Named
      BY DEF CompactBut
    <3>2. \A i \in Named : ~(i < n) => n \in (0..(i - 1)) \ {n + 1}
      <4>1. \A i, k \in Nat : i # k /\ ~(i < k) => k \in (0..(i - 1)) \ {k + 1}
        OBVIOUS
      <4>2. \A i \in Named : i \in Nat /\ i # n
        BY <1>0, <1>1
      <4> QED
        BY <4>1, <4>2
    <3> QED
      BY <1>1, <3>1, <3>2
  <2>4. n # 0 /\ Gone = {}
    BY <1>0, <1>1 DEF CompactBut
  <2>5. ASSUME NEW m \in Slots, m = n - 1 PROVE CompactBut(m)'
    <3>1. ASSUME NEW i \in Named, NEW x \in (0..(i - 1)) \ {m + 1} PROVE x \in Named
      <4>1. i < n /\ i \in Nat
        BY <1>0, <2>3
      <4>2. x # n + 1
        BY <4>1
      <4>3. x \in (0..(i - 1)) \ {n + 1}
        BY <4>2
      <4> QED
        BY <4>3 DEF CompactBut
    <3>2. m + 1 \notin Named
      BY <1>0, <1>1, <2>5
    <3> QED
      BY <2>1, <2>4, <3>1, <3>2 DEF CompactBut
  <2> QED
    BY <2>2, <2>4, <2>5
<1>2. CASE n \in Named
  <2>0. slot[n] # NoLog
    BY <1>2 DEF Named
  <2>1. /\ slot'[n] = NoLog /\ slot'[n + 1] = slot[n]
        /\ \A i \in Slots \ {n, n + 1} : slot'[i] = slot[i]
        /\ Named' = (Named \ {n}) \cup {n + 1}
    BY <2>0, RenamedFiles
  <2> DEFINE from(j) == IF j = n + 1 THEN n ELSE j
  <2>2. ASSUME NEW j \in Named'
        PROVE  /\ j \in Slots /\ from(j) \in Named /\ from(j) # n + 1 /\ slot'[j] = slot[from(j)]
               /\ j # n /\ from(j) \in Slots
    BY <1>0, <1>2, <2>1
  <2>3. \A i, j \in Named' : i < j => from(i) < from(j)
    <3>1. \A i, j \in Int : i # n /\ j # n /\ i < j => from(i) < from(j)
      BY <1>0
    <3>2. \A j \in Named' : j \in Int /\ j # n
      <4>1. \A j \in Named' : j \in Slots /\ j # n
        BY <2>2, Zenon
      <4>2. \A j \in Slots : j \in Int
        BY <1>0
      <4> QED
        BY <4>1, <4>2, Zenon
    <3> HIDE DEF from
    <3> QED
      BY <3>1, <3>2
  <2>4. \A i \in Named : i # n + 1 => \E j \in Named' : slot'[j] = slot[i]
    BY <1>0, <1>2, <2>1
  <2>5. Retained' \subseteq Retained
    <3>1. \A j \in Named' : text[slot'[j]] = text[slot[from(j)]] /\ from(j) \in Named
      BY <2>2
    <3> HIDE DEF from
    <3> QED
      BY <3>1 DEF Retained
  <2>6. \A e \in Gone' : e \in Gone \/ (n + 1 \in Named /\ e \in text[slot[n + 1]])
    <3>1. \A e \in Gone' : e \in 1..written /\ \A j \in Named' : e \notin text[slot'[j]]
      BY DEF Gone, Retained
    <3>2. \A e \in Gone' : \A i \in Named : i # n + 1 => e \notin text[slot[i]]
      BY <2>4, <3>1
    <3> QED
      BY <3>1, <3>2 DEF Gone, Retained
  <2>7. OldestGone'
    <3> SUFFICES ASSUME NEW e \in Gone', NEW k \in Retained' PROVE e < k
      BY DEF OldestGone
    <3>1. CASE e \in Gone
      BY <2>5, <3>1 DEF FilesOrdered, OldestGone
    <3>2. CASE n + 1 \in Named /\ e \in text[slot[n + 1]]
      <4>1. PICK j \in Named' : k \in text[slot'[j]]
        BY DEF Retained
      <4>2. from(j) \in Named /\ k \in text[slot[from(j)]]
        BY <2>2, <4>1
      <4>3. from(j) < n + 1
        <5>1. from(j) \in 0..MaxFiles /\ from(j) # n + 1 /\ n + 1 = MaxFiles
          BY <1>0, <2>2, <3>2 DEF CompactBut
        <5> HIDE DEF from
        <5> QED
          BY <5>1
      <4> HIDE DEF from
      <4> QED
        BY <3>2, <4>2, <4>3 DEF FilesOrdered
    <3> QED
      BY <2>6, <3>1, <3>2
  <2>8. \A i, j \in Named' : i < j => \A d \in text[slot'[i]], e \in text[slot'[j]] : e < d
    <3>1. \A j \in Named' : slot'[j] = slot[from(j)] /\ from(j) \in Named
      BY <2>2
    <3> HIDE DEF from
    <3> QED
      BY <2>3, <3>1 DEF FilesOrdered
  <2>9. \A i \in Named' \ {0} : Cardinality(text[slot'[i]]) >= MaxSize
    <3>1. ASSUME NEW i \in Named' \ {0} PROVE Cardinality(text[slot[from(i)]]) >= MaxSize
      <4>1. CASE from(i) = 0
        BY <4>1 DEF CompactBut
      <4>2. CASE from(i) # 0
        <5>1. from(i) \in Named \ {0}
          BY <2>2, <4>2
        <5> HIDE DEF from
        <5> QED
          BY <5>1 DEF FilesOrdered
      <4> QED
        BY <4>1, <4>2
    <3>2. \A i \in Named' : slot'[i] = slot[from(i)]
      BY <2>2
    <3> HIDE DEF from
    <3> QED
      BY <3>1, <3>2
  <2>10. FilesOrdered'
    BY <2>7, <2>8, <2>9 DEF FilesOrdered
  <2>11. ASSUME NEW i \in Named', NEW x \in 0..(i - 1), x # n PROVE x \in Named'
    <3>1. x = n + 1 => x \in Named'
      BY <2>1
    <3>2. CASE i = n + 1
      <4>1. x \in (0..(n - 1)) \ {n + 1}
        BY <1>0, <2>11, <3>2
      <4>2. x \in Named
        BY <1>2, <4>1 DEF CompactBut
      <4> QED
        BY <2>1, <2>11, <4>2
    <3>3. CASE i # n + 1
      <4>1. i \in Named
        BY <2>1, <3>3
      <4>2. x # n + 1 => x \in Named
        BY <4>1 DEF CompactBut
      <4> QED
        BY <2>1, <2>11, <3>1, <4>2
    <3> QED
      BY <3>2, <3>3
  <2>12. Gone' # {} => Slots \ {n} \subseteq Named'
    <3> SUFFICES ASSUME Gone' # {}, NEW x \in Slots, x # n PROVE x \in Named'
      OBVIOUS
    <3>1. CASE x = n + 1
      BY <2>1, <3>1
    <3>2. CASE x # n + 1
      <4>1. CASE Gone # {}
        BY <2>1, <3>2, <4>1 DEF CompactBut
      <4>2. CASE Gone = {}
        <5>1. n + 1 \in Named /\ n + 1 = MaxFiles
          BY <2>6, <4>2 DEF CompactBut
        <5>2. x \in (0..(n + 1 - 1)) \ {n + 1}
          BY <1>0, <3>2, <5>1
        <5>3. x \in Named
          BY <5>1, <5>2 DEF CompactBut
        <5> QED
          BY <2>1, <5>3
      <4> QED
        BY <4>1, <4>2
    <3> QED
      BY <3>1, <3>2
  <2>13. n = 0 => Compact'
    <3> SUFFICES ASSUME n = 0 PROVE Compact'
      OBVIOUS
    <3>1. \A i \in Named' : 1..(i - 1) \subseteq Named'
      <4>1. \A i \in Named' : \A x \in 1..(i - 1) : x \in 0..(i - 1) /\ x # n
        BY <1>0, <2>2
      <4> QED
        BY <2>11, <4>1
    <3>2. Gone' # {} => 1..MaxFiles \subseteq Named'
      <4>1. \A x \in 1..MaxFiles : x \in Slots /\ x # n
        BY DEF Slots
      <4> QED
        BY <2>12, <4>1
    <3> QED
      BY <3>1, <3>2 DEF Compact
  <2>14. ASSUME NEW m \in Slots, m = n - 1 PROVE CompactBut(m)'
    <3>1. n # 0 /\ m + 1 = n
      BY <1>0, <2>14
    <3>2. 0 \in Named' /\ slot'[0] = slot[0]
      <4>1. 0 \in Slots \ {n, n + 1} /\ 0 \in Named
        BY <1>0, <3>1 DEF CompactBut
      <4> QED
        BY <2>1, <4>1
    <3>3. m + 1 \notin Named'
      BY <1>0, <2>1, <3>1
    <3>4. Cardinality(text'[slot'[0]]) >= MaxSize
      BY <3>2 DEF CompactBut
    <3> QED
      BY <2>11, <2>12, <3>1, <3>2, <3>3, <3>4 DEF CompactBut
  <2> QED
    BY <2>10, <2>13, <2>14
<1> QED
  BY <1>1, <1>2

\* The size of the active file is looked up.
LEMMA DecideOrderly ==
  ASSUME LogTypeOK, Orderly, ~Disturbs, ~Disturbs', NEW w \in Loggers, Decide(w)
  PROVE  Orderly'
<1>1. /\ lstep[w] = "idle" /\ UNCHANGED <<slot, text, handle, written>>
      /\ \/ /\ slot[0] # NoLog /\ Cardinality(text[slot[0]]) + 1 > MaxSize
            /\ lstep' = [lstep EXCEPT ![w] = IF MaxFiles > 1 THEN "shift" ELSE "move"]
            /\ shifting' = [shifting EXCEPT ![w] = MaxFiles - 1]
         \/ lstep' = [lstep EXCEPT ![w] = "open"] /\ shifting' = shifting
  BY Zenon DEF Decide, Busy
<1>2. FilesOK /\ WritersOK /\ FilesOrdered /\ HandlesActive /\ Positions
  BY TypeParts, OrderlyParts
<1>3. Elsewhere(w) /\ lstep'[w] \notin {"idle", "append"}
  BY <1>1, <1>2 DEF Elsewhere, WritersOK
<1>4. Named' = Named /\ Retained' = Retained /\ Gone' = Gone /\ (Compact => Compact')
  BY <1>1 DEF Named, Retained, Gone, Compact
<1>5. FilesOrdered' /\ HandlesActive'
  BY <1>1, <1>2, <1>3, <1>4 DEF FilesOrdered, OldestGone, HandlesActive, Elsewhere
<1>6. \A v \in Loggers : ~Rotates(v)
  BY <1>1, <1>3 DEF Disturbs, Rotates, Busy, Elsewhere
<1>7. Compact
  BY <1>2, <1>6 DEF Positions
<1>8. ASSUME NEW v \in Loggers, NEW n \in Slots, Rotates(v)', Due(v)' = n
      PROVE  CompactBut(n)'
  <2>1. v = w
    BY <1>3, <1>6, <1>8 DEF Rotates, Elsewhere
  <2>2. /\ slot[0] # NoLog /\ Cardinality(text[slot[0]]) + 1 > MaxSize
        /\ lstep'[w] = IF MaxFiles > 1 THEN "shift" ELSE "move"
        /\ shifting'[w] = MaxFiles - 1
    BY <1>1, <1>2, <1>8, <2>1 DEF WritersOK, Rotates
  <2>3. n = MaxFiles - 1 /\ MaxFiles \in Nat \ {0}
    BY <1>8, <2>1, <2>2, LogConstants DEF Due
  <2>4. slot[0] \in 1..files /\ 0 \in Slots
    BY <1>2, <2>2, LogConstants DEF FilesOK, Slots, NoLog
  <2>5. Cardinality(text[slot[0]]) \in Nat /\ MaxSize \in Nat
    BY <2>4, TextCount, LogConstants
  <2>6. 0 \in Named /\ Cardinality(text[slot[0]]) >= MaxSize
    BY <2>2, <2>4, <2>5 DEF Named
  <2>7. \A i \in Named : (0..(i - 1)) \ {n + 1} \subseteq Named
    <3> SUFFICES ASSUME NEW i \in Named, NEW x \in 0..(i - 1) PROVE x \in Named
      OBVIOUS
    <3>1. i \in Nat
      BY LogConstants DEF Named, Slots
    <3>2. x = 0 \/ x \in 1..(i - 1)
      BY <3>1
    <3> QED
      BY <1>7, <2>6, <3>2 DEF Compact
  <2>8. Gone # {} => Slots \ {n + 1} \subseteq Named
    <3>1. \A x \in Slots : x = 0 \/ x \in 1..MaxFiles
      BY <2>3 DEF Slots
    <3> QED
      BY <1>7, <2>6, <3>1 DEF Compact
  <2>9. n + 1 = MaxFiles
    BY <2>3
  <2> QED
    BY <1>1, <1>4, <2>6, <2>7, <2>8, <2>9 DEF CompactBut
<1> QED
  BY <1>4, <1>5, <1>7, <1>8, OrderlyPartsNext DEF Positions

\* A rotated file moves to the next number (rotateIfNeeded).
LEMMA ShiftOrderly ==
  ASSUME LogTypeOK, Orderly, ~Disturbs, NEW w \in Loggers, Shift(w), slot' = Renamed(shifting[w])
  PROVE  Orderly'
<1> DEFINE n == shifting[w]
<1>1. /\ lstep[w] = "shift"
      /\ shifting' = [shifting EXCEPT ![w] = n - 1]
      /\ lstep' = [lstep EXCEPT ![w] = IF n = 1 THEN "move" ELSE "shift"]
      /\ UNCHANGED <<text, handle, written>>
  BY DEF Shift
<1>2. FilesOK /\ WritersOK /\ FilesOrdered /\ HandlesActive /\ Positions
  BY TypeParts, OrderlyParts
<1>3. n \in 1..(MaxFiles - 1) /\ MaxFiles \in Nat /\ n \in Slots /\ n - 1 \in Slots /\ n \in 0..(MaxFiles - 1)
  BY <1>1, <1>2, LogConstants DEF WritersOK, Slots
<1>4. Elsewhere(w) /\ lstep'[w] = (IF n = 1 THEN "move" ELSE "shift") /\ shifting'[w] = n - 1
  BY <1>1, <1>2 DEF Elsewhere, WritersOK
<1>5. CompactBut(n)
  BY <1>1, <1>2, <1>3 DEF Positions, Rotates, Due
<1>6. \A v \in Loggers \ {w} : lstep[v] = "idle" /\ lstep'[v] = "idle"
  BY <1>1, <1>4 DEF Disturbs, Rotates, Busy, Elsewhere
<1> HIDE DEF n
<1>7. slot' = Renamed(n)
  BY DEF n
<1>8. PICK k \in 0..(MaxFiles - 1) : k = n
  BY <1>3
<1>9. FilesOrdered' /\ \A m \in Slots : m = k - 1 => CompactBut(m)'
  BY <1>1, <1>2, <1>5, <1>7, <1>8, RenameOrderly
<1>10. HandlesActive'
  BY <1>4, <1>6 DEF HandlesActive
<1>11. Positions'
  <2>1. Rotates(w)' /\ Due(w)' = n - 1
    BY <1>3, <1>4 DEF Rotates, Due
  <2>2. \A v \in Loggers : Rotates(v)' => v = w
    BY <1>6 DEF Rotates
  <2> QED
    BY <1>8, <1>9, <2>1, <2>2 DEF Positions
<1> QED
  BY <1>9, <1>10, <1>11, OrderlyPartsNext

\* The active file becomes the first rotated one.
LEMMA MoveActiveOrderly ==
  ASSUME LogTypeOK, Orderly, ~Disturbs, NEW w \in Loggers, MoveActive(w), slot' = Renamed(0)
  PROVE  Orderly'
<1>1. /\ lstep[w] = "move" /\ lstep' = [lstep EXCEPT ![w] = "open"]
      /\ UNCHANGED <<text, shifting, handle, written>>
  BY DEF MoveActive
<1>2. FilesOK /\ WritersOK /\ FilesOrdered /\ HandlesActive /\ Positions
  BY TypeParts, OrderlyParts
<1>3. 0 \in Slots /\ 0 \in 0..(MaxFiles - 1)
  BY LogConstants DEF Slots
<1>4. Elsewhere(w) /\ lstep'[w] = "open"
  BY <1>1, <1>2 DEF Elsewhere, WritersOK
<1>5. CompactBut(0)
  BY <1>1, <1>2, <1>3 DEF Positions, Rotates, Due
<1>6. \A v \in Loggers \ {w} : lstep'[v] = "idle"
  BY <1>1, <1>4 DEF Disturbs, Rotates, Busy, Elsewhere
<1>7. FilesOrdered' /\ Compact'
  BY <1>1, <1>2, <1>3, <1>5, RenameOrderly
<1>8. HandlesActive'
  BY <1>4, <1>6 DEF HandlesActive
<1>9. Positions'
  BY <1>4, <1>6, <1>7 DEF Positions, Rotates
<1> QED
  BY <1>7, <1>8, <1>9, OrderlyPartsNext

\* The active file is opened, or created when there is none.
LEMMA OpenLogOrderly ==
  ASSUME LogTypeOK, Orderly, ~Disturbs, NEW w \in Loggers, OpenLog(w)
  PROVE  Orderly'
<1>1. /\ lstep[w] = "open" /\ lstep' = [lstep EXCEPT ![w] = "append"]
      /\ UNCHANGED <<text, shifting, written>>
      /\ \/ /\ slot[0] = NoLog /\ files' = files + 1 /\ slot' = [slot EXCEPT ![0] = files + 1]
            /\ handle' = [handle EXCEPT ![w] = files + 1]
         \/ slot[0] # NoLog /\ handle' = [handle EXCEPT ![w] = slot[0]] /\ slot' = slot
  BY Zenon DEF OpenLog
<1>2. FilesOK /\ WritersOK /\ FilesOrdered /\ HandlesActive /\ Positions
  BY TypeParts, OrderlyParts
<1>3. Elsewhere(w) /\ lstep'[w] = "append"
  BY <1>1, <1>2 DEF Elsewhere, WritersOK
<1>4. 0 \in Slots
  BY LogConstants DEF Slots
<1>5. HandlesActive'
  <2>1. handle'[w] = slot'[0]
    BY <1>1, <1>2, <1>4 DEF FilesOK, WritersOK
  <2>2. \A v \in Loggers \ {w} : lstep'[v] = "append" => handle'[v] = slot[0] /\ slot[0] # NoLog
    BY <1>2, <1>3 DEF Elsewhere, HandlesActive, WritersOK
  <2>3. slot[0] # NoLog => slot' = slot
    BY <1>1
  <2> QED
    BY <2>1, <2>2, <2>3 DEF HandlesActive
<1>6. \A v \in Loggers : ~Rotates(v) /\ ~Rotates(v)'
  BY <1>1, <1>3 DEF Disturbs, Rotates, Busy, Elsewhere
<1>7. CASE slot' = slot
  <2>1. Named' = Named /\ Retained' = Retained /\ Gone' = Gone
    BY <1>1, <1>7 DEF Named, Retained, Gone
  <2>2. FilesOrdered' /\ Positions'
    BY <1>1, <1>2, <1>6, <1>7, <2>1 DEF FilesOrdered, OldestGone, Positions, Compact
  <2> QED
    BY <1>5, <2>2, OrderlyPartsNext
<1>8. CASE slot[0] = NoLog
  <2>1. files \in Nat /\ slot'[0] = files + 1 /\ \A i \in Slots \ {0} : slot'[i] = slot[i]
    BY <1>1, <1>2, <1>4, <1>8 DEF FilesOK
  <2>2. Named' = Named \cup {0} /\ 0 \notin Named
    BY <1>4, <1>8, <2>1 DEF Named, NoLog
  <2>3. text[slot'[0]] = {}
    <3>1. slot'[0] \in Logs
      BY <1>1, <2>1, NewFileInLogs
    <3> QED
      BY <1>2, <2>1, <3>1 DEF FilesOK
  <2>4. \A i \in Named : slot'[i] = slot[i] /\ i \in Slots \ {0}
    BY <2>1, <2>2 DEF Named
  <2>5. Retained' = Retained /\ Gone' = Gone
    <3>1. Retained' = Retained
      BY <1>1, <2>2, <2>3, <2>4 DEF Retained
    <3> QED
      BY <1>1, <3>1 DEF Gone
  <2>6. \A i \in Slots \ {0} : ~(i < 0)
    BY LogConstants DEF Slots
  <2>7. FilesOrdered'
    <3>1. OldestGone'
      BY <1>2, <2>5 DEF FilesOrdered, OldestGone
    <3>2. \A i, j \in Named' : i < j => \A d \in text[slot'[i]], e \in text[slot'[j]] : e < d
      BY <1>2, <2>2, <2>3, <2>4, <2>6 DEF FilesOrdered
    <3>3. \A i \in Named' \ {0} : Cardinality(text[slot'[i]]) >= MaxSize
      BY <1>2, <2>2, <2>4 DEF FilesOrdered
    <3> QED
      BY <1>1, <3>1, <3>2, <3>3 DEF FilesOrdered
  <2>8. Positions'
    <3>1. Compact
      BY <1>2, <1>6 DEF Positions
    <3>2. Compact'
      <4>1. 1..(0 - 1) = {}
        OBVIOUS
      <4> QED
        BY <2>2, <2>5, <3>1, <4>1 DEF Compact
    <3> QED
      BY <1>6, <3>2 DEF Positions
  <2> QED
    BY <1>5, <2>7, <2>8, OrderlyPartsNext
<1> QED
  BY <1>1, <1>7, <1>8

\* An event goes into the active file and is the newest.
LEMMA AppendOrderly ==
  ASSUME LogTypeOK, Orderly, ~Disturbs, NEW w \in Loggers, AppendEvent(w)
  PROVE  Orderly'
<1>1. /\ lstep[w] = "append" /\ written' = written + 1
      /\ text' = [text EXCEPT ![handle[w]] = @ \cup {written + 1}]
      /\ lstep' = [lstep EXCEPT ![w] = "idle"] /\ handle' = [handle EXCEPT ![w] = NoLog]
      /\ shifting' = [shifting EXCEPT ![w] = 0] /\ slot' = slot
  BY DEF AppendEvent, Done
<1>2. FilesOK /\ WritersOK /\ FilesOrdered /\ HandlesActive /\ Positions
  BY TypeParts, OrderlyParts
<1>3. Elsewhere(w) /\ lstep'[w] = "idle"
  BY <1>1, <1>2 DEF Elsewhere, WritersOK
<1>4. /\ handle[w] = slot[0] /\ slot[0] # NoLog /\ 0 \in Slots /\ slot[0] \in 1..files
      /\ slot[0] \in Logs /\ written \in Nat /\ 0 \in Named
  <2>1. handle[w] = slot[0] /\ slot[0] # NoLog
    BY <1>1, <1>2 DEF HandlesActive, WritersOK
  <2>2. 0 \in Slots /\ slot[0] \in 1..files
    BY <1>2, <2>1, LogConstants DEF FilesOK, Slots, NoLog
  <2> QED
    BY <1>2, <2>1, <2>2, TextCount DEF FilesOK, Named
<1>5. /\ text'[slot[0]] = text[slot[0]] \cup {written + 1}
      /\ \A i \in Named \ {0} : text'[slot[i]] = text[slot[i]]
      /\ \A i \in Named : text[slot[i]] \in SUBSET (1..written)
  <2>1. \A i \in Named : slot[i] \in 1..files /\ i \in Slots
    BY <1>2, LogConstants DEF FilesOK, Named, NoLog
  <2>2. \A i \in Named : slot[i] \in Logs /\ text[slot[i]] \in SUBSET (1..written)
    BY <2>1, TextCount
  <2>3. \A i \in Named \ {0} : slot[i] # slot[0]
    BY <1>2, <1>4 DEF FilesOK
  <2> QED
    BY <1>1, <1>2, <1>4, <2>2, <2>3 DEF FilesOK
<1>6. Named' = Named /\ Retained' = Retained \cup {written + 1}
  <2>1. Named' = Named
    BY <1>1 DEF Named
  <2> QED
    BY <1>1, <1>4, <1>5, <2>1 DEF Retained
<1>7. Gone' = Gone /\ Gone \in SUBSET (1..written)
  BY <1>1, <1>4, <1>6 DEF Gone
<1>8. FilesOrdered'
  <2>1. OldestGone'
    BY <1>2, <1>4, <1>6, <1>7 DEF FilesOrdered, OldestGone
  <2>2. \A i, j \in Named : i < j => \A d \in text'[slot[i]], e \in text'[slot[j]] : e < d
    <3> SUFFICES ASSUME NEW i \in Named, NEW j \in Named, i < j,
                        NEW d \in text'[slot[i]], NEW e \in text'[slot[j]] PROVE e < d
      OBVIOUS
    <3>1. j # 0
      BY LogConstants DEF Named, Slots
    <3>2. e \in text[slot[j]] /\ e \in 1..written
      BY <1>5, <3>1
    <3>3. d \in text[slot[i]] \/ d = written + 1
      BY <1>5
    <3> QED
      BY <1>2, <1>4, <3>2, <3>3 DEF FilesOrdered
  <2>3. \A i \in Named \ {0} : Cardinality(text'[slot[i]]) >= MaxSize
    BY <1>2, <1>5 DEF FilesOrdered
  <2> QED
    BY <1>1, <1>6, <2>1, <2>2, <2>3 DEF FilesOrdered
<1>9. \A v \in Loggers : ~Rotates(v) /\ ~Rotates(v)'
  BY <1>1, <1>3 DEF Disturbs, Rotates, Busy, Elsewhere
<1>10. Positions'
  BY <1>2, <1>6, <1>7, <1>9 DEF Positions, Compact
<1>11. HandlesActive'
  BY <1>1, <1>2, <1>3 DEF HandlesActive, Elsewhere
<1> QED
  BY <1>8, <1>10, <1>11, OrderlyPartsNext

-----------------------------------------------------------------------------
(* The invariant *)

\* All rotated files but none, or all names but one, are taken by full files.
LEMMA RetainFollows ==
  ASSUME LogTypeOK, UndisturbedInv
  PROVE  RetainInv
<1> SUFFICES ASSUME ~disturbed, logFaults = 0
             PROVE  /\ OldestGone
                    /\ Gone # {} => Cardinality(Retained) >= MaxFiles * MaxSize
  BY DEF RetainInv
<1>1. FilesOrdered /\ Positions /\ FilesOK /\ WritersOK
  BY OrderlyParts, TypeParts DEF UndisturbedInv
<1>2. OldestGone
  BY <1>1 DEF FilesOrdered
<1>3. MaxFiles \in Nat \ {0} /\ MaxSize \in Nat
  BY LogConstants
<1>4. SUFFICES ASSUME Gone # {} PROVE Cardinality(Retained) >= MaxFiles * MaxSize
  BY <1>2
<1>5. \A i \in Named : i \in Slots /\ IsFiniteSet(text[slot[i]])
  <2>1. \A i \in Named : slot[i] \in 1..files /\ i \in Slots
    BY <1>1 DEF FilesOK, Named, NoLog
  <2> QED
    BY <2>1, TextCount
<1>6. \A i, j \in Named : i # j => text[slot[i]] \cap text[slot[j]] = {}
  <2> SUFFICES ASSUME NEW i \in Named, NEW j \in Named, i # j,
                      NEW e \in text[slot[i]], e \in text[slot[j]] PROVE FALSE
    OBVIOUS
  <2>1. i \in Int /\ j \in Int
    BY <1>3, <1>5 DEF Slots
  <2>2. i < j \/ j < i
    BY <2>1
  <2>3. e < e
    BY <1>1, <2>2 DEF FilesOrdered
  <2>4. e \in Int
    <3>1. slot[i] \in 1..files
      BY <1>1 DEF FilesOK, Named, NoLog
    <3>2. text[slot[i]] \in SUBSET (1..written) /\ written \in Nat
      BY <1>1, <3>1, TextCount DEF FilesOK
    <3> QED
      BY <3>2
  <2> QED
    BY <2>3, <2>4
<1>7. ASSUME NEW I \in SUBSET Named, IsFiniteSet(I), Cardinality(I) = MaxFiles,
             \A i \in I : Cardinality(text[slot[i]]) >= MaxSize
      PROVE  Cardinality(Retained) >= MaxFiles * MaxSize
  <2> DEFINE T == [i \in Named |-> text[slot[i]]]
  <2>1. /\ \A i \in I : IsFiniteSet(T[i]) /\ Cardinality(T[i]) >= MaxSize
        /\ \A i, j \in I : i # j => T[i] \cap T[j] = {}
    BY <1>5, <1>6, <1>7
  <2>2. UNION {T[i] : i \in I} \subseteq Retained
    BY <1>7 DEF Retained
  <2>0. PICK U : U = T
    OBVIOUS
  <2>a. MaxSize \in Nat
    BY <1>3
  <2>b. IsFiniteSet(I)
    BY <1>7
  <2>c. /\ \A i \in I : IsFiniteSet(U[i]) /\ Cardinality(U[i]) >= MaxSize
        /\ \A i, j \in I : i # j => U[i] \cap U[j] = {}
    BY <2>0, <2>1
  <2>d. /\ IsFiniteSet(UNION {U[i] : i \in I})
        /\ Cardinality(UNION {U[i] : i \in I}) >= Cardinality(I) * MaxSize
    BY <2>a, <2>b, <2>c, UnionCount
  <2> HIDE DEF T
  <2>3. Cardinality(UNION {T[i] : i \in I}) >= MaxFiles * MaxSize
    BY <1>7, <2>0, <2>d
  <2>4. IsFiniteSet(UNION {T[i] : i \in I})
    BY <2>0, <2>d
  <2>5. IsFiniteSet(Retained)
    <3>1. Retained \in SUBSET (1..written) /\ written \in Nat
      <4>1. \A i \in Named : slot[i] \in 1..files
        BY <1>1 DEF FilesOK, Named, NoLog
      <4>2. \A i \in Named : text[slot[i]] \in SUBSET (1..written)
        BY <4>1, TextCount
      <4> QED
        BY <1>1, <4>2 DEF Retained, FilesOK
    <3>2. IsFiniteSet(1..written)
      BY <3>1, FS_Interval
    <3> QED
      BY <3>1, <3>2, FS_Subset
  <2>6. Cardinality(UNION {T[i] : i \in I}) <= Cardinality(Retained)
    BY <2>2, <2>5, FS_Subset
  <2>7. Cardinality(UNION {T[i] : i \in I}) \in Nat /\ Cardinality(Retained) \in Nat
    BY <2>4, <2>5, FS_CardinalityType
  <2>8. MaxFiles * MaxSize \in Nat
    BY <1>3
  <2> QED
    BY <2>3, <2>6, <2>7, <2>8
<1>8. CASE \A v \in Loggers : ~Rotates(v)
  <2>1. 1..MaxFiles \subseteq Named
    BY <1>1, <1>4, <1>8 DEF Positions, Compact
  <2>2. IsFiniteSet(1..MaxFiles) /\ Cardinality(1..MaxFiles) = MaxFiles
    BY <1>3, FS_Interval
  <2>3. \A i \in 1..MaxFiles : Cardinality(text[slot[i]]) >= MaxSize
    <3>1. \A i \in 1..MaxFiles : i # 0
      OBVIOUS
    <3> QED
      BY <1>1, <2>1, <3>1 DEF FilesOrdered
  <2> QED
    BY <1>7, <2>1, <2>2, <2>3
<1>9. CASE \E v \in Loggers : Rotates(v)
  <2>1. PICK v \in Loggers : Rotates(v)
    BY <1>9
  <2>2. Due(v) \in 0..(MaxFiles - 1)
    BY <1>1, <1>3, <2>1 DEF WritersOK, Due, Rotates
  <2>3. PICK n \in 0..(MaxFiles - 1) : n = Due(v)
    BY <2>2
  <2>4. CompactBut(n)
    BY <1>1, <1>3, <2>1, <2>3 DEF Positions, Slots
  <2> DEFINE I == Slots \ {n + 1}
  <2>5. I \subseteq Named /\ n + 1 \in Slots /\ n + 1 # 0
    BY <1>3, <1>4, <2>4 DEF CompactBut, Slots
  <2>6. IsFiniteSet(Slots) /\ Cardinality(Slots) = MaxFiles + 1
    BY <1>3, FS_Interval DEF Slots
  <2>7. IsFiniteSet(I) /\ Cardinality(I) = MaxFiles
    <3>1. IsFiniteSet(I) /\ Cardinality(I) = Cardinality(Slots) - 1
      BY <2>5, <2>6, FS_RemoveElement
    <3> HIDE DEF I
    <3> QED
      BY <1>3, <2>6, <3>1
  <2>8. \A i \in I : Cardinality(text[slot[i]]) >= MaxSize
    BY <1>1, <2>4, <2>5 DEF FilesOrdered, CompactBut
  <2> HIDE DEF I
  <2> QED
    BY <1>7, <2>5, <2>7, <2>8
<1> QED
  BY <1>8, <1>9

\* Nothing is written when the log begins.
LEMMA LogInitInd ==
  ASSUME LogInit
  PROVE  LogTypeOK /\ SizeInv /\ UndisturbedInv
<1>1. Named = {} /\ Retained = {} /\ Gone = {}
  BY LogConstants DEF LogInit, Named, Retained, Gone, NoLog
<1>2. LogWriters = {} /\ Appenders = {} /\ Cardinality({}) = 0
  BY FS_EmptySet DEF LogInit, LogWriters, Appenders, Busy
<1>3. FilesOK
  BY <1>1, LogConstants DEF LogInit, FilesOK, NoLog
<1>4. WritersOK
  <2>1. 0 \in 0..(MaxFiles - 1) /\ 0 \in 0..files
    BY LogConstants DEF LogInit
  <2>2. \A w \in Loggers : lstep[w] = "idle" /\ handle[w] = NoLog
    BY DEF LogInit
  <2>3. handle \in [Loggers -> 0..files] /\ shifting \in [Loggers -> 0..(MaxFiles - 1)]
    BY <2>1 DEF LogInit, NoLog
  <2>4. lstep \in [Loggers -> {"idle", "shift", "move", "open", "append"}]
    BY DEF LogInit
  <2>5. \A w \in Loggers : handle[w] # NoLog <=> lstep[w] = "append"
    BY <2>2
  <2>6. \A w \in Loggers : lstep[w] = "shift" => shifting[w] > 0
    BY <2>2
  <2> QED
    BY <2>3, <2>4, <2>5, <2>6 DEF WritersOK
<1>5. LogCountsOK
  <2>1. Cardinality(LogWriters) = 0 /\ Cardinality(Appenders) = 0
    BY <1>2
  <2>2. written = 0 /\ files = 0 /\ logFaults = 0 /\ disturbed = FALSE
    BY DEF LogInit
  <2>3. 0 + 0 <= MaxEvents /\ 0 <= 0 + 0 + 0 /\ 0 \in 0..MaxLogFaults
    BY LogConstants
  <2> QED
    BY <2>1, <2>2, <2>3 DEF LogCountsOK
<1>6. SizeInv
  BY DEF LogInit, SizeInv
<1>7. UndisturbedInv
  <2>1. \A v \in Loggers : ~Rotates(v) /\ lstep[v] = "idle"
    BY DEF LogInit, Rotates
  <2> QED
    BY <1>1, <2>1 DEF UndisturbedInv, Orderly, OldestGone, Compact, Disturbs
<1> QED
  BY <1>3, <1>4, <1>5, <1>6, <1>7, TypeParts

\* Each step of a writer keeps the inductive invariant.
LEMMA LogStep ==
  ASSUME LogTypeOK, SizeInv, UndisturbedInv, [LogNext]_logVars
  PROVE  LogTypeOK' /\ SizeInv' /\ UndisturbedInv'
<1>0. FilesOK /\ LogCountsOK /\ WritersOK /\ logFaults \in Nat
  BY TypeParts, LogConstants DEF LogCountsOK
<1>1. ASSUME NEW w \in Loggers, Decide(w), Watch PROVE LogTypeOK' /\ SizeInv' /\ UndisturbedInv'
  <2>1. logFaults' = logFaults
    BY <1>1 DEF Decide
  <2> QED
    BY <1>0, <1>1, <2>1, DecideTypes, DecideOrderly, UndisturbedStep
<1>2. ASSUME NEW w \in Loggers, Shift(w), Watch PROVE LogTypeOK' /\ SizeInv' /\ UndisturbedInv'
  <2>1. (logFaults' = logFaults /\ slot' = Renamed(shifting[w])) \/ logFaults' = logFaults + 1
    BY <1>2 DEF Shift, Moves
  <2>2. logFaults' \in Nat /\ logFaults' >= logFaults /\ (logFaults' = 0 => slot' = Renamed(shifting[w]))
    BY <1>0, <2>1
  <2> QED
    BY <1>2, <2>2, ShiftTypes, ShiftOrderly, UndisturbedStep
<1>3. ASSUME NEW w \in Loggers, MoveActive(w), Watch PROVE LogTypeOK' /\ SizeInv' /\ UndisturbedInv'
  <2>1. (logFaults' = logFaults /\ slot' = Renamed(0)) \/ logFaults' = logFaults + 1
    BY <1>3 DEF MoveActive, Moves
  <2>2. logFaults' \in Nat /\ logFaults' >= logFaults /\ (logFaults' = 0 => slot' = Renamed(0))
    BY <1>0, <2>1
  <2> QED
    BY <1>3, <2>2, MoveActiveTypes, MoveActiveOrderly, UndisturbedStep
<1>4. ASSUME NEW w \in Loggers, OpenLog(w), Watch PROVE LogTypeOK' /\ SizeInv' /\ UndisturbedInv'
  <2>1. logFaults' = logFaults
    BY <1>4 DEF OpenLog
  <2> QED
    BY <1>0, <1>4, <2>1, OpenLogTypes, OpenLogOrderly, UndisturbedStep
<1>5. ASSUME NEW w \in Loggers, AppendEvent(w), Watch PROVE LogTypeOK' /\ SizeInv' /\ UndisturbedInv'
  <2>1. logFaults' = logFaults
    BY <1>5 DEF AppendEvent
  <2> QED
    BY <1>0, <1>5, <2>1, AppendEventTypes, AppendOrderly, UndisturbedStep
<1>6. ASSUME NEW w \in Loggers, WriteFails(w), Watch PROVE LogTypeOK' /\ SizeInv' /\ UndisturbedInv'
  <2>1. logFaults' = logFaults + 1
    BY <1>6 DEF WriteFails
  <2>2. logFaults' \in Nat /\ logFaults' >= logFaults /\ logFaults' # 0
    BY <1>0, <2>1
  <2> QED
    BY <1>6, <2>2, WriteFailsTypes, UndisturbedStep
<1>7. CASE UNCHANGED logVars
  <2>1. UNCHANGED <<slot, text, lstep, shifting, handle, files, written, logFaults, disturbed>>
    BY <1>7 DEF logVars
  <2>2. LogWriters' = LogWriters /\ Appenders' = Appenders /\ Named' = Named /\ Retained' = Retained /\ Gone' = Gone
    BY <2>1 DEF LogWriters, Appenders, Named, Retained, Gone, Busy
  <2>3. FilesOK' /\ WritersOK' /\ LogCountsOK'
    BY <1>0, <2>1, <2>2 DEF FilesOK, WritersOK, LogCountsOK
  <2>4. SizeInv'
    BY <2>1 DEF SizeInv, Bound
  <2>5. Disturbs' = Disturbs /\ (Orderly => Orderly')
    BY <2>1, <2>2 DEF Disturbs, Orderly, OldestGone, Compact, CompactBut, Rotates, Busy, Due
  <2> QED
    BY <2>1, <2>3, <2>4, <2>5, TypePartsNext DEF UndisturbedInv
<1> QED
  BY <1>1, <1>2, <1>3, <1>4, <1>5, <1>6, <1>7 DEF LogNext

\* However the processes that share the log interleave (Write, rotateIfNeeded),
\* a file outgrows its limit by what the writers had room for when they
\* looked, and undisturbed rotations lose the oldest events and keep MaxFiles
\* full files.
THEOREM LogSafety == LogSpec => []LogInd
<1> DEFINE Ind == LogTypeOK /\ SizeInv /\ UndisturbedInv
<1>1. LogInit => Ind
  BY LogInitInd
<1>2. Ind /\ [LogNext]_logVars => Ind'
  BY LogStep
<1>3. Ind => LogInd
  BY RetainFollows DEF LogInd, LogInv
<1> QED
  BY <1>1, <1>2, <1>3, PTL DEF LogSpec

-----------------------------------------------------------------------------
(***************************************************************************)
(* The argument for the analytics: what an operation gained lies between   *)
(* the counters at its beginning and at its end, and these intervals of a  *)
(* process do not overlap; rows are never deleted and an export looks at   *)
(* its files last.                                                         *)
(***************************************************************************)
(* The analytics: hits *)

\* The hits of a list with one more element.
Counted(list) == \A i \in DOMAIN list : list[i].hits \in Nat
HitList(list) == [i \in DOMAIN list |-> list[i].hits]

\* The hits of a list as a sum over its places (embeddingCacheCounters).
LEMMA HitsOver ==
  ASSUME NEW list
  PROVE  Hits(list) = SumOver(HitList(list), DOMAIN list)
<1>1. DOMAIN HitList(list) = DOMAIN list
  BY DEF HitList
<1>2. Hits(list) = SumFunction(HitList(list))
  BY DEF Hits, HitList
<1> QED
  BY <1>1, <1>2, SumOfFunction

\* Hits are counted in naturals.
LEMMA HitsNat ==
  ASSUME NEW list, Counted(list), NEW n \in Nat, DOMAIN list = 1..n
  PROVE  Hits(list) \in Nat
<1>1. IsFiniteSet(1..n)
  BY FS_Interval
<1>2. \A i \in 1..n : HitList(list)[i] \in Nat
  BY DEF HitList, Counted
<1> QED
  BY <1>1, <1>2, HitsOver, SumNat

\* An element adds its own hits.
LEMMA HitsAppend ==
  ASSUME NEW S, NEW list \in Seq(S), NEW e \in S, \A d \in S : d.hits \in Nat
  PROVE  Hits(Append(list, e)) = Hits(list) + e.hits /\ Hits(list) \in Nat
<1> DEFINE n == Len(list)
           more == Append(list, e)
<1>1. n \in Nat /\ DOMAIN list = 1..n /\ DOMAIN more = 1..(n + 1)
  OBVIOUS
<1>2. \A i \in 1..n : list[i] \in S /\ more[i] = list[i]
  OBVIOUS
<1>3. more[n + 1] = e
  OBVIOUS
<1> HIDE DEF n, more
<1>4. IsFiniteSet(1..n) /\ n + 1 \notin 1..n /\ (1..n) \cup {n + 1} = 1..(n + 1)
  <2>1. IsFiniteSet(1..n)
    BY <1>1, FS_Interval
  <2>2. n + 1 \notin 1..n /\ (1..n) \cup {n + 1} = 1..(n + 1)
    BY <1>1
  <2> QED
    BY <2>1, <2>2
<1>5. \A i \in 1..n : HitList(list)[i] = list[i].hits /\ HitList(list)[i] \in Nat
  BY <1>1, <1>2 DEF HitList
<1>6. \A i \in 1..n : HitList(more)[i] = HitList(list)[i]
  BY <1>1, <1>2 DEF HitList
<1>7. HitList(more)[n + 1] = e.hits
  BY <1>1, <1>3 DEF HitList
<1>8. \A i \in (1..n) \cup {n + 1} : HitList(more)[i] \in Nat
  BY <1>5, <1>6, <1>7
<1>9. SumOver(HitList(more), (1..n) \cup {n + 1}) = HitList(more)[n + 1] + SumOver(HitList(more), 1..n)
  BY <1>4, <1>8, SumAdd
<1>10. SumOver(HitList(list), 1..n) \in Nat
  BY <1>4, <1>5, SumNat
<1>11. SumOver(HitList(more), 1..n) = SumOver(HitList(list), 1..n)
  BY <1>4, <1>6, SumSame
<1>12. Hits(more) = SumOver(HitList(more), 1..(n + 1)) /\ Hits(list) = SumOver(HitList(list), 1..n)
  BY <1>1, HitsOver
<1>13. e.hits \in Nat
  OBVIOUS
<1>14. Hits(more) = e.hits + Hits(list) /\ Hits(list) \in Nat
  BY <1>4, <1>7, <1>9, <1>10, <1>11, <1>12
<1> HIDE DEF Hits
<1>15. Hits(more) = Hits(list) + e.hits
  BY <1>13, <1>14
<1> QED
  BY <1>14, <1>15 DEF more

-----------------------------------------------------------------------------
(* The parts of the invariant *)

OpsOK ==
  /\ numbered \in 0..MaxRuns /\ missed \in 0..MaxMissed
  /\ hits \in [Runners -> Nat] /\ at \in [Runners -> Running \cup {Nothing}]
  /\ \A p \in Runners : at[p] # Nothing =>
       at[p].before <= hits[p] /\ (at[p].seed = NoSeed => at[p].kind = "query")

KeptOK ==
  /\ committed \in Seq([n : 1..numbered, id : RunIDs, hits : Nat])
  /\ events \in Seq([id : RunIDs, hits : Nat \ {0}])
  /\ rows \in [DOMAIN rows -> Rows] /\ IsFiniteSet(DOMAIN rows)

LookedOK ==
  /\ viewed \in [Looked -> Nat] /\ Looked \subseteq Views
  /\ \A i \in DOMAIN Looking : Looking[i] \in Looked =>
       Counts \subseteq Looked /\ \A j \in 1..i - 1 : Looking[j] \in Looked

CountsKept ==
  Hits(events) = Hits(committed) /\ Hits(committed) <= SumFunction(Spent)

SpentOK == \A p \in Runners : Spent[p] \in Nat /\ hits[p] \in Nat /\ Spent[p] <= hits[p]

\* The type invariant in parts: operations, what is kept, what was viewed.
LEMMA AnalyticsParts == AnalyticsTypeOK <=> OpsOK /\ KeptOK /\ LookedOK
BY DEF AnalyticsTypeOK, OpsOK, KeptOK, LookedOK

\* The same after a step.
LEMMA AnalyticsPartsNext == AnalyticsTypeOK' <=> OpsOK' /\ KeptOK' /\ LookedOK'
BY AnalyticsParts, PTL

\* No process has counted less than it has spent (RecordRun, BeginRun).
LEMMA SpentValues ==
  ASSUME OpsOK
  PROVE  SpentOK
<1> SUFFICES ASSUME NEW p \in Runners
             PROVE  Spent[p] \in Nat /\ hits[p] \in Nat /\ Spent[p] <= hits[p]
  BY DEF SpentOK
<1>1. hits[p] \in Nat
  BY DEF OpsOK
<1>2. CASE at[p] = Nothing
  BY <1>1, <1>2 DEF Spent
<1>3. CASE at[p] # Nothing
  <2>1. at[p] \in Running /\ at[p].before <= hits[p]
    BY <1>3 DEF OpsOK
  <2>2. at[p].before \in Nat
    BY <2>1 DEF Running
  <2>3. Spent[p] = at[p].before
    BY <1>3 DEF Spent
  <2> QED
    BY <1>1, <2>1, <2>2, <2>3
<1> QED
  BY <1>2, <1>3

\* No more is spent than was counted.
LEMMA SpentBelow ==
  ASSUME OpsOK
  PROVE  SumFunction(Spent) <= SumFunction(hits) /\ SumFunction(Spent) \in Nat
<1>1. PICK e : e = Spent
  OBVIOUS
<1>2. DOMAIN e = Runners /\ DOMAIN hits = Runners
  BY <1>1 DEF Spent, OpsOK
<1>3. \A p \in Runners : e[p] \in Nat /\ hits[p] \in Nat /\ e[p] <= hits[p]
  BY <1>1, SpentValues DEF SpentOK
<1>4. SumOver(e, Runners) <= SumOver(hits, Runners) /\ SumOver(e, Runners) \in Nat
  BY <1>3, SumBelow, SumNat, AnalyticsConstants
<1>5. SumFunction(e) = SumOver(e, Runners) /\ SumFunction(hits) = SumOver(hits, Runners)
  BY <1>2, SumOfFunction
<1> QED
  BY <1>1, <1>4, <1>5

\* What was committed has a number of hits.
LEMMA HitsKept ==
  ASSUME KeptOK
  PROVE  Hits(committed) \in Nat
<1>1. committed \in Seq([n : 1..numbered, id : RunIDs, hits : Nat])
  BY DEF KeptOK
<1> DEFINE S == [n : 1..numbered, id : RunIDs, hits : Nat]
<1>a. \A d \in S : d.hits \in Nat
  OBVIOUS
<1>b. committed \in Seq(S)
  BY <1>1
<1> HIDE DEF S
<1>2. Len(committed) \in Nat /\ DOMAIN committed = 1..Len(committed)
  BY <1>b
<1>3. \A i \in DOMAIN committed : committed[i] \in S
  BY <1>b
<1>4. Counted(committed)
  BY <1>a, <1>3 DEF Counted
<1> QED
  BY <1>2, <1>4, HitsNat

\* What is spent grows, and nothing is committed.
LEMMA CountsKeptStep ==
  ASSUME OpsOK, OpsOK', KeptOK, CountsKept, UNCHANGED <<events, committed>>,
         \A p \in Runners : Spent[p] <= Spent'[p]
  PROVE  CountsKept'
<1>1. PICK e : e = Spent
  OBVIOUS
<1>2. PICK f : f = Spent'
  OBVIOUS
<1>3. DOMAIN e = Runners /\ DOMAIN f = Runners
  BY <1>1, <1>2 DEF Spent
<1>4. \A p \in Runners : Spent'[p] \in Nat
  <2>1. SpentOK'
    BY SpentValues, PTL
  <2> QED
    BY <2>1 DEF SpentOK
<1>5. \A p \in Runners : e[p] \in Nat /\ f[p] \in Nat /\ e[p] <= f[p]
  BY <1>1, <1>2, <1>4, SpentValues DEF SpentOK
<1>6. SumOver(e, Runners) <= SumOver(f, Runners) /\ SumOver(e, Runners) \in Nat /\ SumOver(f, Runners) \in Nat
  BY <1>5, SumBelow, SumNat, AnalyticsConstants
<1>7. SumFunction(e) <= SumFunction(f) /\ SumFunction(e) \in Nat /\ SumFunction(f) \in Nat
  BY <1>3, <1>6, SumOfFunction
<1>8. PICK k : k = Hits(committed)
  OBVIOUS
<1>9. k \in Nat /\ k <= SumFunction(e) /\ Hits(events) = k
  BY <1>1, <1>8, HitsKept DEF CountsKept
<1>10. k <= SumFunction(f)
  BY <1>7, <1>9
<1> QED
  BY <1>2, <1>8, <1>9, <1>10 DEF CountsKept

-----------------------------------------------------------------------------
(* The operations *)

\* Whatever is said of the operations so far holds of more of them.
LEMMA Grows ==
  ASSUME numbered \in Nat, numbered' \in Nat, numbered <= numbered'
  PROVE  Running \subseteq Running' /\ RunIDs \subseteq RunIDs' /\ Rows \subseteq Rows'
<1>1. 1..numbered \subseteq 1..numbered'
  OBVIOUS
<1>2. Running \subseteq Running'
  BY <1>1 DEF Running
<1>3. Rows \subseteq Rows'
  BY <1>1 DEF Rows
<1>4. RunIDs \subseteq RunIDs'
  BY <1>1, Zenon DEF RunIDs
<1> QED
  BY <1>2, <1>3, <1>4

\* What is kept stays well-formed while operations are only begun.
LEMMA KeptStep ==
  ASSUME KeptOK, numbered \in Nat, numbered' \in Nat, numbered <= numbered',
         UNCHANGED <<rows, events, committed>>
  PROVE  KeptOK'
<1>1. RunIDs \subseteq RunIDs' /\ Rows \subseteq Rows' /\ 1..numbered \subseteq 1..numbered'
  BY Grows
<1>2. [n : 1..numbered, id : RunIDs, hits : Nat] \subseteq [n : 1..numbered', id : RunIDs', hits : Nat]
  BY <1>1
<1>3. [id : RunIDs, hits : Nat \ {0}] \subseteq [id : RunIDs', hits : Nat \ {0}]
  BY <1>1
<1>4. committed \in Seq([n : 1..numbered', id : RunIDs', hits : Nat])
  BY <1>2, Wider DEF KeptOK
<1>5. events \in Seq([id : RunIDs', hits : Nat \ {0}])
  BY <1>3, Wider DEF KeptOK
<1>6. rows \in [DOMAIN rows -> Rows'] /\ IsFiniteSet(DOMAIN rows)
  BY <1>1 DEF KeptOK
<1> QED
  BY <1>4, <1>5, <1>6 DEF KeptOK

\* The process p gets to the state r; the others stay where they are.
LEMMA OpsStep ==
  ASSUME OpsOK, numbered' \in 0..MaxRuns, numbered <= numbered', missed' \in 0..MaxMissed,
         hits' \in [Runners -> Nat], NEW p \in Runners, \A q \in Runners \ {p} : hits'[q] = hits[q],
         NEW r, at' = [at EXCEPT ![p] = r], r \in Running' \cup {Nothing},
         r # Nothing => r.before <= hits'[p] /\ (r.seed = NoSeed => r.kind = "query")
  PROVE  OpsOK'
<1>1. Running \subseteq Running'
  BY Grows, AnalyticsConstants DEF OpsOK
<1>2. at' \in [Runners -> Running' \cup {Nothing}]
  BY <1>1 DEF OpsOK
<1>3. at'[p] = r /\ \A q \in Runners \ {p} : at'[q] = at[q]
  BY DEF OpsOK
<1>4. ASSUME NEW q \in Runners, at'[q] # Nothing
      PROVE  at'[q].before <= hits'[q] /\ (at'[q].seed = NoSeed => at'[q].kind = "query")
  <2>1. CASE q = p
    BY <1>3, <1>4, <2>1
  <2>2. CASE q # p
    BY <1>3, <1>4, <2>2 DEF OpsOK
  <2> QED
    BY <2>1, <2>2
<1> QED
  BY <1>2, <1>4 DEF OpsOK

\* A new operation spends nothing yet (executeQueryWithSurface).
LEMMA BeginTypes ==
  ASSUME OpsOK, KeptOK, NEW p \in Runners, BeginRun(p)
  PROVE  OpsOK' /\ KeptOK' /\ \A q \in Runners : Spent'[q] = Spent[q]
<1>1. PICK kind \in Kinds, seed \in Seeds \cup {NoSeed} :
        /\ seed = NoSeed => kind = "query"
        /\ at' = [at EXCEPT ![p] = [kind |-> kind, seed |-> seed, n |-> numbered + 1,
                                    before |-> hits[p], step |-> "works", ok |-> TRUE]]
  BY DEF BeginRun
<1>2. PICK r : r = [kind |-> kind, seed |-> seed, n |-> numbered + 1,
                    before |-> hits[p], step |-> "works", ok |-> TRUE]
  OBVIOUS
<1>3. /\ numbered' = numbered + 1 /\ numbered < MaxRuns /\ at[p] = Nothing
      /\ UNCHANGED <<rows, events, hits, committed, missed, viewed>>
  BY DEF BeginRun
<1>4. numbered \in Nat /\ numbered' \in 0..MaxRuns /\ numbered <= numbered' /\ numbered + 1 \in 1..numbered'
  BY <1>3, AnalyticsConstants DEF OpsOK
<1>5. hits[p] \in Nat /\ hits[p] <= hits[p]
  BY DEF OpsOK
<1>6. r \in Running'
  BY <1>2, <1>4, <1>5 DEF Running
<1>7. r.before = hits[p] /\ r.seed = seed /\ r.kind = kind
  BY <1>2
<1>8. at' = [at EXCEPT ![p] = r]
  BY <1>1, <1>2
<1>9. OpsOK'
  <2>1. r # Nothing => r.before <= hits'[p] /\ (r.seed = NoSeed => r.kind = "query")
    BY <1>1, <1>3, <1>5, <1>7
  <2>2. hits' \in [Runners -> Nat] /\ missed' \in 0..MaxMissed
    BY <1>3 DEF OpsOK
  <2> QED
    BY <1>3, <1>4, <1>6, <1>8, <2>1, <2>2, OpsStep
<1>10. KeptOK'
  BY <1>3, <1>4, KeptStep
<1>11. \A q \in Runners : Spent'[q] = Spent[q]
  <2>1. at'[p] = r /\ \A q \in Runners \ {p} : at'[q] = at[q]
    BY <1>8 DEF OpsOK
  <2>2. hits' = hits
    BY <1>3
  <2>3. Spent[p] = hits[p]
    BY <1>3 DEF Spent
  <2>4. Spent'[p] = hits[p]
    BY <1>7, <2>1, <2>2 DEF Spent
  <2>5. \A q \in Runners \ {p} : Spent'[q] = Spent[q]
    BY <2>1, <2>2 DEF Spent
  <2> QED
    BY <2>3, <2>4, <2>5
<1> QED
  BY <1>9, <1>10, <1>11

\* The lookups of an operation count for it alone.
LEMMA EndTypes ==
  ASSUME OpsOK, KeptOK, NEW p \in Runners, EndRun(p)
  PROVE  OpsOK' /\ KeptOK' /\ \A q \in Runners : Spent'[q] = Spent[q]
<1>1. PICK ok \in BOOLEAN, n \in 0..MaxLookups :
        /\ hits' = [hits EXCEPT ![p] = @ + n]
        /\ at' = [at EXCEPT ![p].step = IF ok /\ at[p].kind # "crawl" THEN "saves" ELSE "observes",
                           ![p].ok = ok]
  BY DEF EndRun
<1>2. PICK r : r = [at[p] EXCEPT !.step = IF ok /\ at[p].kind # "crawl" THEN "saves" ELSE "observes",
                                 !.ok = ok]
  OBVIOUS
<1>3. at[p] # Nothing /\ UNCHANGED <<rows, events, numbered, committed, missed, viewed>>
  BY DEF EndRun
<1>4. at[p] \in Running /\ at[p].before <= hits[p] /\ (at[p].seed = NoSeed => at[p].kind = "query")
  BY <1>3 DEF OpsOK
<1>5. r \in Running /\ r.before = at[p].before /\ r.seed = at[p].seed /\ r.kind = at[p].kind
  BY <1>2, <1>4 DEF Running
<1>6. at' = [at EXCEPT ![p] = r]
  BY <1>1, <1>2 DEF OpsOK
<1>7. hits[p] \in Nat /\ n \in Nat /\ at[p].before \in Nat
  BY <1>4, AnalyticsConstants DEF OpsOK, Running
<1>8. hits'[p] = hits[p] + n /\ \A q \in Runners \ {p} : hits'[q] = hits[q]
  BY <1>1 DEF OpsOK
<1>9. hits' \in [Runners -> Nat] /\ r.before <= hits'[p]
  <2>1. hits[p] + n \in Nat /\ at[p].before <= hits[p] + n
    BY <1>4, <1>7
  <2> QED
    BY <1>1, <1>5, <1>8, <2>1 DEF OpsOK
<1>10. numbered' \in 0..MaxRuns /\ numbered <= numbered' /\ missed' \in 0..MaxMissed /\ numbered \in Nat
  BY <1>3, AnalyticsConstants DEF OpsOK
<1>11. OpsOK'
  <2>1. r \in Running'
    BY <1>3, <1>5 DEF Running
  <2> QED
    BY <1>4, <1>5, <1>6, <1>8, <1>9, <1>10, <2>1, OpsStep
<1>12. KeptOK'
  BY <1>3, <1>10, KeptStep
<1>13. \A q \in Runners : Spent'[q] = Spent[q]
  <2>1. at'[p] = r /\ \A q \in Runners \ {p} : at'[q] = at[q]
    BY <1>6 DEF OpsOK
  <2>2. r # Nothing
    BY <1>5 DEF Running, Nothing
  <2>3. Spent[p] = at[p].before /\ Spent'[p] = r.before
    BY <1>3, <2>1, <2>2 DEF Spent
  <2>4. \A q \in Runners \ {p} : Spent'[q] = Spent[q]
    BY <1>8, <2>1 DEF Spent
  <2> QED
    BY <1>5, <2>3, <2>4
<1> QED
  BY <1>11, <1>12, <1>13

\* An operation that is not observed: what it counted is spent.
LEMMA LeaveTypes ==
  ASSUME OpsOK, KeptOK, NEW p \in Runners, missed' \in 0..MaxMissed,
         at' = [at EXCEPT ![p] = Nothing], UNCHANGED <<rows, events, hits, numbered, committed>>
  PROVE  OpsOK' /\ KeptOK' /\ \A q \in Runners : Spent[q] <= Spent'[q]
<1>1. numbered' \in 0..MaxRuns /\ numbered <= numbered' /\ numbered \in Nat /\ hits' \in [Runners -> Nat]
  BY AnalyticsConstants DEF OpsOK
<1>2. OpsOK'
  <2>1. PICK r : r = Nothing
    OBVIOUS
  <2>2. at' = [at EXCEPT ![p] = r] /\ r \in Running' \cup {Nothing}
    BY <2>1
  <2>3. r # Nothing => r.before <= hits'[p] /\ (r.seed = NoSeed => r.kind = "query")
    BY <2>1
  <2> QED
    BY <1>1, <2>2, <2>3, OpsStep
<1>3. KeptOK'
  BY <1>1, KeptStep
<1>4. at'[p] = Nothing /\ \A q \in Runners \ {p} : at'[q] = at[q]
  BY DEF OpsOK
<1>5. Spent'[p] = hits[p] /\ \A q \in Runners \ {p} : Spent'[q] = Spent[q]
  BY <1>4 DEF Spent
<1>6. \A q \in Runners : Spent[q] <= hits[q] /\ Spent[q] \in Nat /\ Spent[q] <= Spent[q]
  BY SpentValues DEF SpentOK
<1>7. \A q \in Runners : Spent[q] <= Spent'[q]
  BY <1>5, <1>6
<1> QED
  BY <1>2, <1>3, <1>7

\* Artifacts that are saved, or an operation that ends without a trace.
LEMMA SaveTypes ==
  ASSUME OpsOK, KeptOK, NEW p \in Runners, Save(p)
  PROVE  OpsOK' /\ KeptOK' /\ \A q \in Runners : Spent[q] <= Spent'[q]
<1>1. at[p] # Nothing /\ UNCHANGED <<rows, events, hits, numbered, committed, viewed>>
  BY DEF Save
<1>2. CASE missed < MaxMissed /\ missed' = missed + 1 /\ at' = [at EXCEPT ![p] = Nothing]
  <2>1. missed' \in 0..MaxMissed
    BY <1>2, AnalyticsConstants DEF OpsOK
  <2> QED
    BY <1>1, <1>2, <2>1, LeaveTypes
<1>3. CASE at' = [at EXCEPT ![p].step = "observes"] /\ UNCHANGED missed
  <2>1. PICK r : r = [at[p] EXCEPT !.step = "observes"]
    OBVIOUS
  <2>2. at' = [at EXCEPT ![p] = r]
    BY <1>3, <2>1 DEF OpsOK
  <2>3. at[p] \in Running /\ at[p].before <= hits[p] /\ (at[p].seed = NoSeed => at[p].kind = "query")
    BY <1>1 DEF OpsOK
  <2>4. r \in Running /\ r.before = at[p].before /\ r.seed = at[p].seed /\ r.kind = at[p].kind
    BY <2>1, <2>3 DEF Running
  <2>5. numbered' \in 0..MaxRuns /\ numbered <= numbered' /\ numbered \in Nat
        /\ hits' \in [Runners -> Nat] /\ missed' \in 0..MaxMissed
    BY <1>1, <1>3, AnalyticsConstants DEF OpsOK
  <2>6. OpsOK'
    <3>1. r \in Running'
      BY <1>1, <2>4 DEF Running
    <3> QED
      BY <1>1, <2>2, <2>3, <2>4, <2>5, <3>1, OpsStep
  <2>7. KeptOK'
    BY <1>1, <2>5, KeptStep
  <2>8. at'[p] = r /\ (\A q \in Runners \ {p} : at'[q] = at[q]) /\ r # Nothing
    BY <2>2, <2>4 DEF OpsOK, Running, Nothing
  <2>9. \A q \in Runners : Spent'[q] = Spent[q]
    BY <1>1, <2>4, <2>8 DEF Spent
  <2> QED
    BY <2>6, <2>7, <2>9, SpentValues DEF SpentOK
<1> QED
  BY <1>2, <1>3 DEF Save

\* An observation that is missed (observeAnalyticsRead).
LEMMA MissTypes ==
  ASSUME OpsOK, KeptOK, NEW p \in Runners, Misses(p)
  PROVE  OpsOK' /\ KeptOK' /\ \A q \in Runners : Spent[q] <= Spent'[q]
<1>1. missed' \in 0..MaxMissed
  BY AnalyticsConstants DEF OpsOK, Misses
<1> QED
  BY <1>1, LeaveTypes DEF Misses

-----------------------------------------------------------------------------
(* An observation that is committed *)

\* What the operation of p puts into the history.
Observation(p) == [n |-> at[p].n, id |-> RunID(at[p]), hits |-> Gained(p)]

\* What an operation has gained is part of what its process has counted.
LEMMA ObservedTypes ==
  ASSUME OpsOK, NEW p \in Runners, at[p] # Nothing
  PROVE  /\ Gained(p) \in Nat /\ Spent[p] + Gained(p) <= hits[p] /\ hits[p] \in Nat /\ Spent[p] \in Nat
         /\ RunID(at[p]) \in RunIDs /\ at[p].n \in 1..numbered
         /\ Host(at[p]) \in Seeds \cup {NoSeed, "found"} /\ at[p].ok \in BOOLEAN
<1>1. at[p] \in Running /\ at[p].before <= hits[p] /\ hits[p] \in Nat
  BY DEF OpsOK
<1>2. at[p].before \in Nat /\ at[p].n \in 1..numbered /\ at[p].ok \in BOOLEAN /\ at[p].seed \in Seeds \cup {NoSeed}
  BY <1>1 DEF Running
<1>3. Spent[p] = at[p].before
  BY DEF Spent
<1>4. Gained(p) = IF at[p].ok THEN hits[p] - at[p].before ELSE 0
  BY DEF Gained
<1>5. Gained(p) \in Nat /\ at[p].before + Gained(p) <= hits[p]
  <2>1. CASE at[p].ok
    BY <1>1, <1>2, <1>4, <2>1
  <2>2. CASE ~at[p].ok
    BY <1>1, <1>2, <1>4, <2>2
  <2> QED
    BY <2>1, <2>2
<1>6. RunID(at[p]) \in RunIDs
  <2>1. CASE at[p].kind = "crawl" /\ at[p].ok
    <3>1. RunID(at[p]) = <<"crawl", at[p].seed>>
      BY <2>1 DEF RunID
    <3> QED
      BY <1>2, <3>1 DEF RunIDs
  <2>2. CASE ~(at[p].kind = "crawl" /\ at[p].ok)
    <3>1. RunID(at[p]) = <<"run", at[p].seed, at[p].n>>
      BY <2>2 DEF RunID
    <3> QED
      BY <1>2, <3>1 DEF RunIDs
  <2> QED
    BY <2>1, <2>2
<1>7. Host(at[p]) \in Seeds \cup {NoSeed, "found"}
  BY <1>2 DEF Host
<1> QED
  BY <1>1, <1>2, <1>3, <1>5, <1>6, <1>7

\* The row is added or replaced.
LEMMA UpsertRows ==
  ASSUME OpsOK, KeptOK, NEW p \in Runners, at[p] # Nothing, rows' = Upserted(at[p])
  PROVE  /\ DOMAIN rows' = DOMAIN rows \cup {RunID(at[p])}
         /\ \A i \in DOMAIN rows \ {RunID(at[p])} : rows'[i] = rows[i]
         /\ rows'[RunID(at[p])].last = at[p].n
         /\ rows'[RunID(at[p])].since = IF RunID(at[p]) \in DOMAIN rows THEN rows[RunID(at[p])].since ELSE at[p].n
         /\ rows' \in [DOMAIN rows' -> Rows] /\ IsFiniteSet(DOMAIN rows')
<1>1. PICK id : id = RunID(at[p])
  OBVIOUS
<1>2. PICK row : row = [ok |-> at[p].ok, host |-> Host(at[p]), last |-> at[p].n,
                        since |-> IF id \in DOMAIN rows THEN rows[id].since ELSE at[p].n]
  OBVIOUS
<1>3. rows' = [i \in DOMAIN rows \cup {id} |-> IF i = id THEN row ELSE rows[i]]
  BY <1>1, <1>2 DEF Upserted
<1>4. DOMAIN rows' = DOMAIN rows \cup {id} /\ rows'[id] = row /\ \A i \in DOMAIN rows \ {id} : rows'[i] = rows[i]
  BY <1>3
<1>5. row.last = at[p].n /\ row.since = IF id \in DOMAIN rows THEN rows[id].since ELSE at[p].n
  BY <1>2
<1>6. row \in Rows
  <2>1. \A i \in DOMAIN rows : rows[i].since \in 1..numbered
    BY DEF KeptOK, Rows
  <2>2. (IF id \in DOMAIN rows THEN rows[id].since ELSE at[p].n) \in 1..numbered
    BY <2>1, ObservedTypes
  <2> QED
    BY <1>2, <2>2, ObservedTypes DEF Rows
<1>7. \A i \in DOMAIN rows : rows[i] \in Rows
  BY DEF KeptOK
<1>8. rows' \in [DOMAIN rows' -> Rows]
  BY <1>3, <1>4, <1>6, <1>7
<1>9. IsFiniteSet(DOMAIN rows')
  BY <1>4, FS_AddElement DEF KeptOK
<1> QED
  BY <1>1, <1>4, <1>5, <1>8, <1>9

Event(p) == [id |-> RunID(at[p]), hits |-> Gained(p)]

\* There is one event more if the operation had hits (stageEventsFromTrace).
LEMMA AppendEvents ==
  ASSUME OpsOK, KeptOK, NEW p \in Runners, AppendRun(p)
  PROVE  \/ Gained(p) = 0 /\ events' = events
         \/ Gained(p) \in Nat \ {0} /\ events' = Append(events, Event(p))
<1>1. at[p] # Nothing /\ events' = events \o CacheEvents(p)
  BY DEF AppendRun
<1>2. Gained(p) \in Nat
  BY <1>1, ObservedTypes
<1>3. PICK S : events \in Seq(S)
  BY DEF KeptOK
<1>4. CASE Gained(p) = 0
  BY <1>1, <1>3, <1>4 DEF CacheEvents
<1>5. CASE Gained(p) # 0
  <2>1. PICK e : e = Event(p)
    OBVIOUS
  <2>2. CacheEvents(p) = <<e>>
    BY <1>5, <2>1 DEF CacheEvents, Event
  <2>3. events \o <<e>> = Append(events, e)
    BY <1>3
  <2> QED
    BY <1>1, <1>2, <1>5, <2>1, <2>2, <2>3
<1> QED
  BY <1>4, <1>5

\* The row, the events and the history stay well-formed (AppendRun).
LEMMA AppendTypes ==
  ASSUME OpsOK, KeptOK, NEW p \in Runners, AppendRun(p)
  PROVE  OpsOK' /\ KeptOK'
<1>1. /\ at[p] # Nothing /\ rows' = Upserted(at[p]) /\ at' = [at EXCEPT ![p] = Nothing]
      /\ committed' = Append(committed, Observation(p)) /\ UNCHANGED <<hits, numbered, missed, viewed>>
  BY DEF AppendRun, Observation
<1>2. numbered' \in 0..MaxRuns /\ numbered <= numbered' /\ numbered \in Nat
      /\ hits' \in [Runners -> Nat] /\ missed' \in 0..MaxMissed
  BY <1>1, AnalyticsConstants DEF OpsOK
<1>3. OpsOK'
  <2>1. PICK r : r = Nothing
    OBVIOUS
  <2>2. at' = [at EXCEPT ![p] = r] /\ r \in Running' \cup {Nothing}
    BY <1>1, <2>1
  <2>3. r # Nothing => r.before <= hits'[p] /\ (r.seed = NoSeed => r.kind = "query")
    BY <2>1
  <2> QED
    BY <1>1, <1>2, <2>2, <2>3, OpsStep
<1>4. Observation(p) \in [n : 1..numbered, id : RunIDs, hits : Nat]
  BY <1>1, ObservedTypes DEF Observation
<1>5. committed' \in Seq([n : 1..numbered, id : RunIDs, hits : Nat])
  <2> DEFINE S == [n : 1..numbered, id : RunIDs, hits : Nat]
  <2>1. committed \in Seq(S) /\ Observation(p) \in S
    BY <1>4 DEF KeptOK
  <2> HIDE DEF S
  <2>2. committed' \in Seq(S)
    BY <1>1, <2>1
  <2> QED
    BY <2>2 DEF S
<1>6. events' \in Seq([id : RunIDs, hits : Nat \ {0}])
  <2> DEFINE S == [id : RunIDs, hits : Nat \ {0}]
  <2>1. events \in Seq(S)
    BY DEF KeptOK
  <2>2. Gained(p) \in Nat \ {0} => Event(p) \in S
    BY <1>1, ObservedTypes DEF Event
  <2> HIDE DEF S
  <2>3. events' \in Seq(S)
    BY <2>1, <2>2, AppendEvents
  <2> QED
    BY <2>3 DEF S
<1>7. rows' \in [DOMAIN rows' -> Rows] /\ IsFiniteSet(DOMAIN rows')
  BY <1>1, UpsertRows
<1>8. RunIDs' = RunIDs /\ Rows' = Rows /\ numbered' = numbered
  BY <1>1 DEF RunIDs, Rows
<1>9. KeptOK'
  BY <1>5, <1>6, <1>7, <1>8 DEF KeptOK
<1> QED
  BY <1>3, <1>9

\* The counters: what is committed is spent with it (analyticsEmbeddingCacheDelta).
LEMMA AppendCounts ==
  ASSUME OpsOK, KeptOK, OpsOK', NEW p \in Runners, AppendRun(p), CountsKept
  PROVE  CountsKept'
<1>1. /\ at[p] # Nothing /\ at' = [at EXCEPT ![p] = Nothing] /\ hits' = hits
      /\ committed' = Append(committed, Observation(p))
  BY DEF AppendRun, Observation
<1> DEFINE S == [n : 1..numbered, id : RunIDs, hits : Nat]
           T == [id : RunIDs, hits : Nat \ {0}]
<1>2. committed \in Seq(S) /\ Observation(p) \in S /\ (\A d \in S : d.hits \in Nat) /\ Observation(p).hits = Gained(p)
  BY <1>1, ObservedTypes DEF KeptOK, Observation
<1>3. events \in Seq(T) /\ (\A d \in T : d.hits \in Nat) /\ (Gained(p) \in Nat \ {0} => Event(p) \in T)
      /\ Event(p).hits = Gained(p)
  BY <1>1, ObservedTypes DEF KeptOK, Event
<1> HIDE DEF S, T
<1>4. PICK g : g = Gained(p)
  OBVIOUS
<1>5. g \in Nat /\ Spent[p] + g <= hits[p] /\ hits[p] \in Nat /\ Spent[p] \in Nat
  BY <1>1, <1>4, ObservedTypes
<1>6. Hits(committed') = Hits(committed) + g /\ Hits(committed) \in Nat
  <2>1. Hits(Append(committed, Observation(p))) = Hits(committed) + Observation(p).hits
        /\ Hits(committed) \in Nat
    BY <1>2, HitsAppend
  <2> QED
    BY <1>1, <1>2, <1>4, <2>1
<1>7. Hits(events') = Hits(events) + g
  <2>1. Hits(events) \in Nat
    BY <1>6 DEF CountsKept
  <2>2. CASE g = 0 /\ events' = events
    BY <2>1, <2>2
  <2>3. CASE g \in Nat \ {0} /\ events' = Append(events, Event(p))
    <3>1. Hits(Append(events, Event(p))) = Hits(events) + Event(p).hits
      BY <1>3, <1>4, <2>3, HitsAppend
    <3> QED
      BY <1>3, <1>4, <2>3, <3>1
  <2> QED
    BY <1>4, <2>2, <2>3, AppendEvents
<1>8. PICK e : e = Spent
  OBVIOUS
<1>9. PICK f : f = Spent'
  OBVIOUS
<1>10. PICK k : k = hits[p] - Spent[p]
  OBVIOUS
<1>11. k \in Int /\ g <= k /\ hits[p] = Spent[p] + k
  BY <1>5, <1>10
<1>12. DOMAIN e = Runners /\ DOMAIN f = Runners
  BY <1>8, <1>9 DEF Spent
<1>13. at'[p] = Nothing /\ \A q \in Runners \ {p} : at'[q] = at[q]
  BY <1>1 DEF OpsOK
<1>14. f[p] = e[p] + k
  <2>1. Spent'[p] = hits[p]
    BY <1>1, <1>13 DEF Spent
  <2> QED
    BY <1>8, <1>9, <1>11, <2>1
<1>15. \A q \in Runners \ {p} : f[q] = e[q]
  BY <1>1, <1>8, <1>9, <1>13 DEF Spent
<1>16. \A q \in Runners : e[q] \in Nat /\ f[q] \in Nat
  <2>1. SpentOK'
    BY SpentValues, PTL
  <2> QED
    BY <1>8, <1>9, <2>1, SpentValues DEF SpentOK
<1>17. SumOver(f, Runners) = SumOver(e, Runners) + k
  BY <1>11, <1>14, <1>15, <1>16, SumChange, AnalyticsConstants
<1>18. SumOver(e, Runners) \in Nat
  BY <1>16, SumNat, AnalyticsConstants
<1>19. SumFunction(f) = SumFunction(e) + k /\ SumFunction(e) \in Nat
  BY <1>12, <1>17, <1>18, SumOfFunction
<1>20. PICK c : c = Hits(committed)
  OBVIOUS
<1>21. c \in Nat /\ c <= SumFunction(e) /\ Hits(events) = c
  BY <1>6, <1>8, <1>20 DEF CountsKept
<1>22. c + g <= SumFunction(f)
  BY <1>5, <1>11, <1>19, <1>21
<1>23. Hits(committed') = c + g /\ Hits(events') = c + g
  BY <1>6, <1>7, <1>20, <1>21
<1> QED
  BY <1>9, <1>22, <1>23 DEF CountsKept

\* A row for each identity, of its last observation and as old as its first.
LEMMA AppendRowsOf ==
  ASSUME OpsOK, KeptOK, NEW p \in Runners, AppendRun(p), RowsInv
  PROVE  RowsInv'
<1> DEFINE n == Len(committed)
<1>1. PICK run : run = Observation(p)
  OBVIOUS
<1>2. PICK id : id = RunID(at[p])
  OBVIOUS
<1>3. at[p] # Nothing /\ rows' = Upserted(at[p]) /\ committed' = Append(committed, run)
  BY <1>1 DEF AppendRun, Observation
<1>4. run.n = at[p].n /\ run.id = id
  BY <1>1, <1>2 DEF Observation
<1>5. PICK S : committed \in Seq(S)
  BY DEF KeptOK
<1>6. /\ n \in Nat /\ DOMAIN committed = 1..n /\ DOMAIN committed' = (1..n) \cup {n + 1}
      /\ \A i \in 1..n : committed'[i] = committed[i]
      /\ committed'[n + 1] = run
  BY <1>3, <1>5
<1> HIDE DEF n
<1>7. /\ DOMAIN rows' = DOMAIN rows \cup {id}
      /\ \A i \in DOMAIN rows \ {id} : rows'[i] = rows[i]
      /\ rows'[id].last = at[p].n
      /\ rows'[id].since = IF id \in DOMAIN rows THEN rows[id].since ELSE at[p].n
  BY <1>2, <1>3, UpsertRows
<1>8. DOMAIN rows = {committed[i].id : i \in 1..n}
  BY <1>6 DEF RowsInv
<1>9. DOMAIN rows' = {committed'[i].id : i \in DOMAIN committed'}
  <2>1. {committed'[i].id : i \in DOMAIN committed'} = {committed[i].id : i \in 1..n} \cup {id}
    BY <1>4, <1>6
  <2> QED
    BY <1>7, <1>8, <2>1
<1>10. n + 1 \notin 1..n
  BY <1>6
<1>11. \A k : Observations(k) \subseteq 1..n
  BY <1>6 DEF Observations
<1>12. \A k : k # id => Observations(k)' = Observations(k)
  BY <1>4, <1>6, <1>10 DEF Observations
<1>13. Observations(id)' = Observations(id) \cup {n + 1}
  BY <1>4, <1>6, <1>10 DEF Observations
<1>14. \A k : Observations(k) # {} <=> k \in DOMAIN rows
  BY <1>6, <1>8 DEF Observations
<1>15. ASSUME NEW k \in DOMAIN rows'
       PROVE  /\ rows'[k].last = committed'[Max(Observations(k)')].n
              /\ rows'[k].since = committed'[Min(Observations(k)')].n
  <2>1. CASE k # id
    <3>1. k \in DOMAIN rows /\ rows'[k] = rows[k]
      BY <1>7, <2>1
    <3>2. PICK T : T = Observations(k)
      OBVIOUS
    <3>3. T \subseteq 1..n /\ T # {}
      BY <1>11, <1>14, <3>1, <3>2
    <3>4. Max(T) \in T /\ Min(T) \in T
      <4>1. Min(T) \in T
        BY <1>6, <3>3, OneMore
      <4>2. T \subseteq Int /\ n \in Int /\ \A y \in T : y <= n
        BY <1>6, <3>3
      <4>3. PICK m \in T : \A y \in T : y <= m
        <5>1. IsFiniteSet(T)
          <6>1. IsFiniteSet(1..n)
            BY <1>6, FS_Interval
          <6>2. T \in SUBSET (1..n)
            BY <3>3
          <6> QED
            BY <6>1, <6>2, FS_Subset
        <5> QED
          BY <3>3, <4>2, <5>1, GreatestInt
      <4>4. \A y \in T : m >= y
        BY <4>2, <4>3
      <4>5. Max(T) = m
        BY <4>2, <4>4, MaxIs
      <4> QED
        BY <4>1, <4>5
    <3>5. rows[k].last = committed[Max(T)].n /\ rows[k].since = committed[Min(T)].n
      BY <3>1, <3>2 DEF RowsInv
    <3>6. committed'[Max(T)] = committed[Max(T)] /\ committed'[Min(T)] = committed[Min(T)]
      BY <1>6, <3>3, <3>4
    <3> QED
      BY <1>12, <2>1, <3>1, <3>2, <3>5, <3>6
  <2>2. CASE k = id
    <3>1. PICK T : T = Observations(id)
      OBVIOUS
    <3>2. T \subseteq 1..n /\ Observations(id)' = T \cup {n + 1} /\ (T # {} <=> id \in DOMAIN rows)
      BY <1>11, <1>13, <1>14, <3>1
    <3>3. /\ Max(T \cup {n + 1}) = n + 1
          /\ T = {} => Min(T \cup {n + 1}) = n + 1
          /\ T # {} => Min(T \cup {n + 1}) = Min(T) /\ Min(T) \in T
      BY <1>6, <3>2, OneMore
    <3>4. rows'[id].last = committed'[n + 1].n
      BY <1>4, <1>6, <1>7
    <3>5. CASE T = {}
      BY <1>4, <1>6, <1>7, <2>2, <3>2, <3>3, <3>4, <3>5
    <3>6. CASE T # {}
      <4>1. rows[id].since = committed[Min(T)].n /\ rows'[id].since = rows[id].since
        BY <1>7, <3>1, <3>2, <3>6 DEF RowsInv
      <4>2. committed'[Min(T)] = committed[Min(T)]
        BY <1>6, <3>2, <3>3, <3>6
      <4> QED
        BY <2>2, <3>2, <3>3, <3>4, <3>6, <4>1, <4>2
    <3> QED
      BY <3>5, <3>6
  <2> QED
    BY <2>1, <2>2
<1>16. \A i \in DOMAIN events' : events'[i].id \in DOMAIN rows'
  <2>1. \A i \in DOMAIN events : events[i].id \in DOMAIN rows
    BY DEF RowsInv
  <2>2. CASE events' = events
    BY <1>7, <2>1, <2>2
  <2>3. CASE events' = Append(events, Event(p))
    <3>1. PICK e : e = Event(p)
      OBVIOUS
    <3>2. e.id = id
      BY <1>2, <3>1 DEF Event
    <3>3. PICK Q : events \in Seq(Q)
      BY DEF KeptOK
    <3>4. \A i \in DOMAIN events' : events'[i] = e \/ (i \in DOMAIN events /\ events'[i] = events[i])
      BY <2>3, <3>1, <3>3
    <3> QED
      BY <1>7, <2>1, <3>2, <3>4
  <2> QED
    BY <2>2, <2>3, AppendEvents
<1> QED
  BY <1>9, <1>15, <1>16 DEF RowsInv

-----------------------------------------------------------------------------
(* Reports and exports *)

\* The order of an export (loadExportBundle, writeExportArtifacts).
LEMMA LookingOrder ==
  /\ DOMAIN Looking = 1..5
  /\ Looking[1] = "hosts" /\ Looking[2] = "failures" /\ Looking[3] = "value"
  /\ Looking[4] = "runs.jsonl" /\ Looking[5] = "events.jsonl"
<1> DEFINE S == {"hosts", "failures", "value"}
           T == {"runs.jsonl", "events.jsonl"}
<1>a. Reports \in Seq(S) /\ Files \in Seq(T) /\ Len(Reports) = 3 /\ Len(Files) = 2
  BY DEF Reports, Files
<1>1. Reports \in Seq(S \cup T) /\ Files \in Seq(S \cup T) /\ Len(Reports) = 3 /\ Len(Files) = 2
  BY <1>a, Wider
<1>b. PICK Q : Q = S \cup T
  OBVIOUS
<1>c. PICK a \in Seq(Q) : a = Reports
  BY <1>1, <1>b
<1>d. PICK b \in Seq(Q) : b = Files
  BY <1>1, <1>b
<1> HIDE DEF S, T
<1>e. Len(a) = 3 /\ Len(b) = 2
  BY <1>1, <1>c, <1>d
<1>2. Len(Looking) = 5 /\ DOMAIN Looking = 1..5
  <2>1. DOMAIN (a \o b) = 1..5 /\ Len(a \o b) = 5
    BY <1>c, <1>d, <1>e, ThreeAndTwo
  <2> QED
    BY <1>c, <1>d, <2>1 DEF Looking
<1>3. /\ Looking[1] = Reports[1] /\ Looking[2] = Reports[2] /\ Looking[3] = Reports[3]
      /\ Looking[4] = Files[1] /\ Looking[5] = Files[2]
  <2>1. /\ (a \o b)[1] = a[1] /\ (a \o b)[2] = a[2] /\ (a \o b)[3] = a[3]
        /\ (a \o b)[4] = b[1] /\ (a \o b)[5] = b[2]
    BY <1>c, <1>d, <1>e, ThreeAndTwo
  <2> QED
    BY <1>c, <1>d, <2>1 DEF Looking
<1> QED
  BY <1>2, <1>3 DEF Reports, Files

Before ==
  /\ "value" \in Looked => "runs" \in Looked
  /\ "runs.jsonl" \in Looked => {"runs", "events", "hosts", "failures", "value"} \subseteq Looked
  /\ "events.jsonl" \in Looked => "events" \in Looked

\* What an export has looked at when it comes to its files.
LEMMA LookedBefore ==
  ASSUME LookedOK
  PROVE  Before
<1>1. \A i \in 1..5 : Looking[i] \in Looked =>
        Counts \subseteq Looked /\ \A j \in 1..i - 1 : Looking[j] \in Looked
  BY LookingOrder DEF LookedOK
<1>2. 3 \in 1..5 /\ 4 \in 1..5 /\ 5 \in 1..5 /\ 1 \in 1..4-1 /\ 2 \in 1..4-1 /\ 3 \in 1..4-1
  OBVIOUS
<1>3. Counts = {"runs", "events"}
  BY DEF Counts
<1>4. Looking[3] \in Looked => Counts \subseteq Looked
  BY <1>1, <1>2
<1>5. Looking[5] \in Looked => Counts \subseteq Looked
  BY <1>1, <1>2
<1>6. Looking[4] \in Looked => Counts \subseteq Looked /\ Looking[1] \in Looked
                              /\ Looking[2] \in Looked /\ Looking[3] \in Looked
  BY <1>1, <1>2
<1> QED
  BY <1>3, <1>4, <1>5, <1>6, LookingOrder DEF Before

\* Everything that can be looked at.
LEMMA ViewsAre ==
  Views = {"runs", "events", "hosts", "failures", "value", "runs.jsonl", "events.jsonl"}
<1>1. ToSet(Looking) = {Looking[1], Looking[2], Looking[3], Looking[4], Looking[5]}
  <2>1. 1..5 = {1, 2, 3, 4, 5}
    OBVIOUS
  <2> QED
    BY <2>1, LookingOrder DEF ToSet
<1> QED
  BY <1>1, LookingOrder DEF Views, Counts

\* What there is to count at a time.
LEMMA CountValues ==
  ASSUME KeptOK, NEW view \in Views
  PROVE  /\ CountOf(view) \in Nat
         /\ view \in {"events", "events.jsonl"} => CountOf(view) = Len(events)
         /\ view \notin {"events", "events.jsonl"} => CountOf(view) <= Cardinality(DOMAIN rows)
         /\ view \in {"runs", "value", "runs.jsonl"} => CountOf(view) = Cardinality(DOMAIN rows)
         /\ Cardinality(DOMAIN rows) \in Nat /\ Len(events) \in Nat
<1>1. IsFiniteSet(DOMAIN rows) /\ Cardinality(DOMAIN rows) \in Nat
  BY FS_CardinalityType DEF KeptOK
<1>2. Len(events) \in Nat
  BY DEF KeptOK
<1>3. CASE view = "hosts"
  <2> DEFINE host(i) == rows[i].host
             All == {rows[i].host : i \in DOMAIN rows}
  <2>1. PICK f : f = [i \in DOMAIN rows |-> rows[i].host]
    OBVIOUS
  <2>2. f \in [DOMAIN rows -> All] /\ \A h \in All : \E i \in DOMAIN rows : f[i] = h
    BY <2>1
  <2>3. f \in Surjection(DOMAIN rows, All)
    BY <2>2 DEF Surjection
  <2> HIDE DEF All
  <2>4. IsFiniteSet(All) /\ Cardinality(All) <= Cardinality(DOMAIN rows)
    BY <1>1, <2>3, FS_Surjection
  <2>5. PICK T : T = All \ {NoSeed}
    OBVIOUS
  <2>6. T \in SUBSET All
    BY <2>5
  <2>7. IsFiniteSet(T) /\ Cardinality(T) <= Cardinality(All)
    BY <2>4, <2>6, FS_Subset
  <2>8. Cardinality(T) \in Nat /\ Cardinality(All) \in Nat
    BY <2>4, <2>7, FS_CardinalityType
  <2>9. CountOf(view) = Cardinality(T)
    BY <1>3, <2>5 DEF CountOf, All
  <2> QED
    BY <1>1, <1>2, <1>3, <2>4, <2>7, <2>8, <2>9
<1>4. CASE view = "failures"
  <2>1. CountOf(view) = IF \E i \in DOMAIN rows : ~rows[i].ok THEN 1 ELSE 0
    BY <1>4 DEF CountOf
  <2>2. DOMAIN rows # {} => Cardinality(DOMAIN rows) # 0
    BY <1>1, FS_EmptySet
  <2> QED
    BY <1>1, <1>2, <1>4, <2>1, <2>2
<1>5. CASE view \in {"events", "events.jsonl"}
  <2>1. CountOf(view) = Len(events)
    BY <1>5 DEF CountOf
  <2> QED
    BY <1>1, <1>2, <1>5, <2>1
<1>6. CASE view \in {"runs", "value", "runs.jsonl"}
  <2>1. CountOf(view) = Cardinality(DOMAIN rows)
    BY <1>6 DEF CountOf
  <2> QED
    BY <1>1, <1>2, <1>6, <2>1
<1> QED
  BY <1>3, <1>4, <1>5, <1>6, ViewsAre

\* One more look, at something not looked at before.
LEMMA ViewStep ==
  ASSUME KeptOK, LookedOK, ExportInv, ViewedInv, NEW view \in Views, view \notin Looked, View(view),
         UNCHANGED <<rows, events>>,
         \A i \in DOMAIN Looking : Looking[i] = view =>
           Counts \subseteq Looked /\ \A j \in 1..i - 1 : Looking[j] \in Looked
  PROVE  LookedOK' /\ ExportInv' /\ ViewedInv'
<1>1. viewed' = [v \in Looked \cup {view} |-> IF v = view THEN CountOf(view) ELSE viewed[v]]
  BY DEF View
<1>2. PICK c : c = CountOf(view)
  OBVIOUS
<1>3. PICK m : m = Cardinality(DOMAIN rows)
  OBVIOUS
<1>4. PICK n : n = Len(events)
  OBVIOUS
<1>5. /\ c \in Nat /\ m \in Nat /\ n \in Nat
      /\ view \in {"events", "events.jsonl"} => c = n
      /\ view \notin {"events", "events.jsonl"} => c <= m
      /\ view \in {"runs", "value", "runs.jsonl"} => c = m
  BY <1>2, <1>3, <1>4, CountValues
<1>6. Looked' = Looked \cup {view} /\ viewed'[view] = c /\ \A v \in Looked : viewed'[v] = viewed[v]
  BY <1>1, <1>2 DEF Looked
<1>7. \A v \in Looked : viewed[v] \in Nat /\ v \in Views
  BY DEF LookedOK
<1>8. LookedOK'
  <2>1. viewed' \in [Looked' -> Nat] /\ Looked' \subseteq Views
    BY <1>1, <1>2, <1>5, <1>6, <1>7
  <2>2. ASSUME NEW i \in DOMAIN Looking, Looking[i] \in Looked'
        PROVE  Counts \subseteq Looked' /\ \A j \in 1..i - 1 : Looking[j] \in Looked'
    <3>1. Looking[i] \in Looked \/ Looking[i] = view
      BY <1>6, <2>2
    <3>2. Counts \subseteq Looked /\ \A j \in 1..i - 1 : Looking[j] \in Looked
      BY <3>1 DEF LookedOK
    <3> QED
      BY <1>6, <3>2
  <2> QED
    BY <2>1, <2>2 DEF LookedOK
<1>9. \A v \in Looked : /\ v \in {"events", "events.jsonl"} => viewed[v] <= n
                        /\ v \notin {"events", "events.jsonl"} => viewed[v] <= m
  BY <1>3, <1>4 DEF ViewedInv
<1>10. \A v \in Looked' : /\ v \in {"events", "events.jsonl"} => viewed'[v] <= n
                          /\ v \notin {"events", "events.jsonl"} => viewed'[v] <= m
  BY <1>5, <1>6, <1>9
<1>11. "value" \in Looked' => viewed'["runs"] <= viewed'["value"]
  <2>1. CASE view = "value"
    <3>1. "runs" \in Looked
      BY <1>6, <1>8, <2>1, LookingOrder DEF Counts
    <3> QED
      BY <1>5, <1>6, <1>9, <2>1, <3>1
  <2>2. CASE view # "value" /\ "value" \in Looked
    <3>1. "runs" \in Looked /\ viewed["runs"] <= viewed["value"]
      BY <2>2, LookedBefore DEF ViewedInv, Before
    <3> QED
      BY <1>6, <2>2, <3>1
  <2> QED
    BY <1>6, <2>1, <2>2
<1>12. ViewedInv'
  <2>1. Cardinality(DOMAIN rows') = m /\ Len(events') = n
    BY <1>3, <1>4
  <2> QED
    BY <1>10, <1>11, <2>1 DEF ViewedInv
<1>13. ASSUME "runs.jsonl" \in Looked'
       PROVE  /\ \A v \in Looked' \ {"events", "events.jsonl"} : viewed'[v] <= viewed'["runs.jsonl"]
              /\ viewed'["runs"] <= viewed'["value"]
  <2>1. {"runs", "events", "hosts", "failures", "value"} \subseteq Looked'
    <3>1. Before'
      BY <1>8, LookedBefore, PTL
    <3> QED
      BY <1>13, <3>1 DEF Before
  <2>2. CASE view = "runs.jsonl"
    BY <1>5, <1>6, <1>10, <1>11, <2>1, <2>2
  <2>3. CASE "runs.jsonl" \in Looked
    <3>1. {"runs", "events", "hosts", "failures", "value"} \subseteq Looked
      BY <2>3, LookedBefore DEF Before
    <3>2. view = "events.jsonl"
      BY <2>3, <3>1, ViewsAre
    <3>3. \A v \in Looked \ {"events", "events.jsonl"} : viewed[v] <= viewed["runs.jsonl"]
      BY <2>3 DEF ExportInv
    <3> QED
      BY <1>6, <1>11, <2>1, <2>3, <3>2, <3>3
  <2> QED
    BY <1>6, <1>13, <2>2, <2>3
<1>14. ASSUME "events.jsonl" \in Looked' PROVE viewed'["events"] <= viewed'["events.jsonl"]
  <2>1. "events" \in Looked'
    <3>1. Before'
      BY <1>8, LookedBefore, PTL
    <3> QED
      BY <1>14, <3>1 DEF Before
  <2>2. CASE view = "events.jsonl"
    BY <1>5, <1>6, <1>10, <2>1, <2>2
  <2>3. CASE "events.jsonl" \in Looked
    <3>1. "events" \in Looked /\ viewed["events"] <= viewed["events.jsonl"]
      BY <2>3, LookedBefore DEF Before, ExportInv
    <3> QED
      BY <1>6, <2>3, <3>1
  <2> QED
    BY <1>6, <1>14, <2>2, <2>3
<1> QED
  BY <1>8, <1>12, <1>13, <1>14 DEF ExportInv

\* One more query of an export or of the statistics (ExportJSON).
LEMMA ExportStep ==
  ASSUME KeptOK, LookedOK, ExportInv, ViewedInv, ExportNext
  PROVE  LookedOK' /\ ExportInv' /\ ViewedInv'
<1>1. UNCHANGED <<rows, events, at, hits, numbered, committed, missed>>
  BY DEF ExportNext
<1>2. ASSUME NEW view \in Counts \ Looked, View(view) PROVE LookedOK' /\ ExportInv' /\ ViewedInv'
  <2>1. \A i \in DOMAIN Looking : Looking[i] # view
    <3>1. 1..5 = {1, 2, 3, 4, 5}
      OBVIOUS
    <3> QED
      BY <3>1, LookingOrder DEF Counts
  <2>2. view \in Views
    BY DEF Views
  <2> QED
    BY <1>1, <1>2, <2>1, <2>2, ViewStep
<1>3. ASSUME Counts \subseteq Looked, NEW i \in DOMAIN Looking, Looking[i] \notin Looked,
             View(Looking[i]), \A j \in 1..i - 1 : Looking[j] \in Looked
      PROVE  LookedOK' /\ ExportInv' /\ ViewedInv'
  <2>1. PICK view : view = Looking[i]
    OBVIOUS
  <2>2. view \in Views
    BY <2>1 DEF Views, ToSet
  <2>3. \A k \in DOMAIN Looking : Looking[k] = view => k = i
    <3>1. 1..5 = {1, 2, 3, 4, 5}
      OBVIOUS
    <3> QED
      BY <2>1, <3>1, LookingOrder
  <2>4. \A k \in DOMAIN Looking : Looking[k] = view =>
          Counts \subseteq Looked /\ \A j \in 1..k - 1 : Looking[j] \in Looked
    BY <1>3, <2>3
  <2>5. View(view) /\ view \notin Looked
    BY <1>3, <2>1
  <2> QED
    BY <1>1, <2>2, <2>4, <2>5, ViewStep
<1> QED
  BY <1>2, <1>3 DEF ExportNext

\* A step that views nothing.
LEMMA LookedSame ==
  ASSUME LookedOK, ExportInv, viewed' = viewed
  PROVE  LookedOK' /\ ExportInv'
<1>1. Looked' = Looked
  BY DEF Looked
<1>2. LookedOK'
  BY <1>1 DEF LookedOK
<1>3. ExportInv'
  BY <1>1 DEF ExportInv
<1> QED
  BY <1>2, <1>3

\* Rows and events only become more (no row is deleted).
LEMMA AppendViewed ==
  ASSUME OpsOK, KeptOK, KeptOK', LookedOK, NEW p \in Runners, AppendRun(p), ViewedInv
  PROVE  ViewedInv'
<1>1. at[p] # Nothing /\ rows' = Upserted(at[p]) /\ viewed' = viewed
  BY DEF AppendRun
<1>2. Looked' = Looked /\ \A v \in Looked : viewed[v] \in Nat
  BY <1>1 DEF Looked, LookedOK
<1>3. PICK m : m = Cardinality(DOMAIN rows)
  OBVIOUS
<1>4. PICK k : k = Cardinality(DOMAIN rows')
  OBVIOUS
<1>5. m \in Nat /\ k \in Nat /\ m <= k
  <2>1. DOMAIN rows \in SUBSET DOMAIN rows'
    BY <1>1, UpsertRows
  <2>2. IsFiniteSet(DOMAIN rows) /\ IsFiniteSet(DOMAIN rows')
    BY DEF KeptOK
  <2>3. PICK a : a = DOMAIN rows
    OBVIOUS
  <2>4. PICK b : b = DOMAIN rows'
    OBVIOUS
  <2>5. Cardinality(a) \in Nat /\ Cardinality(b) \in Nat /\ Cardinality(a) <= Cardinality(b)
    BY <2>1, <2>2, <2>3, <2>4, FS_Subset, FS_CardinalityType
  <2> QED
    BY <1>3, <1>4, <2>3, <2>4, <2>5
<1>6. Len(events) \in Nat /\ Len(events') \in Nat /\ Len(events) <= Len(events')
  <2>1. PICK S : events \in Seq(S)
    BY DEF KeptOK
  <2>2. PICK e : e = Event(p)
    OBVIOUS
  <2>3. Len(Append(events, e)) = Len(events) + 1 /\ Len(events) \in Nat
    BY <2>1
  <2> QED
    BY <2>2, <2>3, AppendEvents
<1>7. ASSUME NEW v \in Looked
      PROVE  viewed[v] <= IF v \in {"events", "events.jsonl"} THEN Len(events') ELSE k
  <2>1. viewed[v] <= IF v \in {"events", "events.jsonl"} THEN Len(events) ELSE m
    BY <1>3 DEF ViewedInv
  <2> QED
    BY <1>2, <1>5, <1>6, <2>1
<1> QED
  BY <1>1, <1>2, <1>4, <1>7 DEF ViewedInv

-----------------------------------------------------------------------------
AllParts == OpsOK /\ KeptOK /\ LookedOK /\ RowsInv /\ CountsKept /\ ExportInv /\ ViewedInv

\* An empty database.
LEMMA AnalyticsInitInd ==
  ASSUME AnalyticsInit
  PROVE  AllParts
<1>1. /\ rows = <<>> /\ events = <<>> /\ committed = <<>> /\ viewed = <<>>
      /\ at = [p \in Runners |-> Nothing] /\ hits = [p \in Runners |-> 0]
      /\ numbered = 0 /\ missed = 0
  BY DEF AnalyticsInit
<1>2. DOMAIN rows = {} /\ DOMAIN events = {} /\ DOMAIN committed = {} /\ Looked = {}
  BY <1>1 DEF Looked
<1>3. OpsOK
  <2>1. 0 \in 0..MaxRuns /\ 0 \in 0..MaxMissed
    BY AnalyticsConstants
  <2> QED
    BY <1>1, <2>1 DEF OpsOK
<1>4. KeptOK
  <2>1. committed \in Seq([n : 1..numbered, id : RunIDs, hits : Nat])
    BY <1>1
  <2>2. events \in Seq([id : RunIDs, hits : Nat \ {0}])
    BY <1>1
  <2>3. rows \in [DOMAIN rows -> Rows]
    <3>1. rows = [i \in {} |-> i]
      BY <1>1, <1>2
    <3> QED
      BY <1>2, <3>1
  <2>4. IsFiniteSet(DOMAIN rows)
    BY <1>2, FS_EmptySet
  <2> QED
    BY <2>1, <2>2, <2>3, <2>4 DEF KeptOK
<1>5. LookedOK
  <2>1. viewed = [i \in {} |-> i]
    BY <1>1, <1>2
  <2> QED
    BY <1>2, <2>1 DEF LookedOK
<1>6. RowsInv
  BY <1>2 DEF RowsInv
<1>7. CountsKept
  <2>1. Hits(events) = 0 /\ Hits(committed) = 0
    BY <1>2, HitsOver, SumEmpty
  <2>2. SumFunction(Spent) \in Nat
    BY <1>3, SpentBelow
  <2> QED
    BY <2>1, <2>2 DEF CountsKept
<1>8. ExportInv /\ ViewedInv
  BY <1>2 DEF ExportInv, ViewedInv
<1> QED
  BY <1>3, <1>4, <1>5, <1>6, <1>7, <1>8 DEF AllParts

\* Each step of an operation or of an export.
LEMMA AnalyticsStep ==
  ASSUME AllParts, [AnalyticsNext]_analyticsVars
  PROVE  AllParts'
<1>1. OpsOK /\ KeptOK /\ LookedOK /\ RowsInv /\ CountsKept /\ ExportInv /\ ViewedInv
  BY DEF AllParts
<1>2. ASSUME UNCHANGED <<rows, events, committed>>
      PROVE  RowsInv'
  <2>1. \A id : Observations(id)' = Observations(id)
    BY <1>2 DEF Observations
  <2> QED
    BY <1>1, <1>2, <2>1 DEF RowsInv
<1>3. ASSUME UNCHANGED <<rows, events, viewed>>
      PROVE  LookedOK' /\ ExportInv' /\ ViewedInv'
  <2>1. Looked' = Looked
    BY <1>3 DEF Looked
  <2> QED
    BY <1>1, <1>3, <2>1, LookedSame DEF ViewedInv
<1>4. ASSUME OpsOK', UNCHANGED <<events, committed>>, \A q \in Runners : Spent[q] <= Spent'[q]
      PROVE  CountsKept'
  BY <1>1, <1>4, CountsKeptStep
<1>5. \A q \in Runners : Spent[q] <= Spent[q]
  <2>1. \A q \in Runners : Spent[q] \in Nat
    BY <1>1, SpentValues DEF SpentOK
  <2> QED
    BY <2>1
<1>6. ASSUME NEW p \in Runners, BeginRun(p) PROVE AllParts'
  <2>1. UNCHANGED <<rows, events, committed, viewed>>
    BY <1>6 DEF BeginRun
  <2>2. OpsOK' /\ KeptOK' /\ \A q \in Runners : Spent'[q] = Spent[q]
    BY <1>1, <1>6, BeginTypes
  <2> QED
    BY <1>2, <1>3, <1>4, <1>5, <2>1, <2>2 DEF AllParts
<1>7. ASSUME NEW p \in Runners, EndRun(p) PROVE AllParts'
  <2>1. UNCHANGED <<rows, events, committed, viewed>>
    BY <1>7 DEF EndRun
  <2>2. OpsOK' /\ KeptOK' /\ \A q \in Runners : Spent'[q] = Spent[q]
    BY <1>1, <1>7, EndTypes
  <2> QED
    BY <1>2, <1>3, <1>4, <1>5, <2>1, <2>2 DEF AllParts
<1>8. ASSUME NEW p \in Runners, Save(p) PROVE AllParts'
  <2>1. UNCHANGED <<rows, events, committed, viewed>>
    BY <1>8 DEF Save
  <2>2. OpsOK' /\ KeptOK' /\ \A q \in Runners : Spent[q] <= Spent'[q]
    BY <1>1, <1>8, SaveTypes
  <2> QED
    BY <1>2, <1>3, <1>4, <2>1, <2>2 DEF AllParts
<1>9. ASSUME NEW p \in Runners, Misses(p) PROVE AllParts'
  <2>1. UNCHANGED <<rows, events, committed, viewed>>
    BY <1>9 DEF Misses
  <2>2. OpsOK' /\ KeptOK' /\ \A q \in Runners : Spent[q] <= Spent'[q]
    BY <1>1, <1>9, MissTypes
  <2> QED
    BY <1>2, <1>3, <1>4, <2>1, <2>2 DEF AllParts
<1>10. ASSUME NEW p \in Runners, AppendRun(p) PROVE AllParts'
  <2>1. OpsOK' /\ KeptOK'
    BY <1>1, <1>10, AppendTypes
  <2>2. RowsInv' /\ CountsKept' /\ ViewedInv'
    BY <1>1, <1>10, <2>1, AppendRowsOf, AppendCounts, AppendViewed
  <2>3. viewed' = viewed
    BY <1>10 DEF AppendRun
  <2>4. LookedOK' /\ ExportInv'
    BY <1>1, <2>3, LookedSame
  <2> QED
    BY <2>1, <2>2, <2>4 DEF AllParts
<1>11. ASSUME UNCHANGED <<rows, events, at, hits, numbered, committed, missed>>
       PROVE  OpsOK' /\ KeptOK' /\ RowsInv' /\ CountsKept'
  <2>1. numbered \in Nat /\ numbered' \in Nat /\ numbered <= numbered'
    BY <1>1, <1>11, AnalyticsConstants DEF OpsOK
  <2>2. KeptOK' /\ RowsInv'
    BY <1>1, <1>2, <1>11, <2>1, KeptStep
  <2>3. OpsOK'
    BY <1>1, <1>11 DEF OpsOK, Running
  <2>4. Spent' = Spent
    BY <1>11 DEF Spent
  <2> QED
    BY <1>4, <1>5, <1>11, <2>2, <2>3, <2>4
<1>12. CASE ExportNext
  <2>1. LookedOK' /\ ExportInv' /\ ViewedInv'
    BY <1>1, <1>12, ExportStep
  <2>2. UNCHANGED <<rows, events, at, hits, numbered, committed, missed>>
    BY <1>12 DEF ExportNext
  <2> QED
    BY <1>11, <2>1, <2>2 DEF AllParts
<1>13. CASE UNCHANGED analyticsVars
  <2>1. UNCHANGED <<rows, events, at, hits, numbered, committed, missed, viewed>>
    BY <1>13 DEF analyticsVars
  <2> QED
    BY <1>3, <1>11, <2>1 DEF AllParts
<1> QED
  BY <1>6, <1>7, <1>8, <1>9, <1>10, <1>12, <1>13 DEF AnalyticsNext

\* The parts say what the runs check.
LEMMA PartsSuffice ==
  ASSUME AllParts
  PROVE  AnalyticsInd
BY AnalyticsParts, SpentBelow
   DEF AllParts, AnalyticsInd, AnalyticsInv, CacheInv, CountsKept

\* Whatever operations and exports interleave and whichever observations are
\* missed, the rows tell of what was committed, nothing is counted twice and
\* no file of an export falls behind its reports (AppendRun, ExportJSON).
THEOREM AnalyticsSafety == AnalyticsSpec => []AnalyticsInd
<1>1. AnalyticsInit => AllParts
  BY AnalyticsInitInd
<1>2. AllParts /\ [AnalyticsNext]_analyticsVars => AllParts'
  BY AnalyticsStep
<1>3. AllParts => AnalyticsInd
  BY PartsSuffice
<1> QED
  BY <1>1, <1>2, <1>3, PTL DEF AnalyticsSpec

\* The log and the analytics keep what they promise at once: they share
\* nothing (runtime_logging.go, runtime_ops.go).
THEOREM RecordsSafety == RecordsSpec => []RecordsInv
<1>1. RecordsSpec => []LogInd
  BY LogSafety DEF RecordsSpec
<1>2. RecordsSpec => []AnalyticsInd
  BY AnalyticsSafety DEF RecordsSpec
<1>3. LogInd /\ AnalyticsInd => RecordsInv
  BY DEF RecordsInv
<1> QED
  BY <1>1, <1>2, <1>3, PTL

=============================================================================
