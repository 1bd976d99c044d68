--------------------------- MODULE EmbeddingPrune ---------------------------
(***************************************************************************)
(* PruneEmbeddingCache (internal/intel/embedder_cache.go) over a directory *)
(* that EmbeddingCache goes on to use: the directory is listed, the files  *)
(* are read one by one, a loop picks those that go, and they are removed   *)
(* one by one.  A call of Embed prunes once it has written a file, and an  *)
(* operator when he likes; nothing keeps two prunes, or a prune and the    *)
(* calls of other processes, apart.                                        *)
(***************************************************************************)
EXTENDS EmbeddingCache, Sequences, Functions

CONSTANTS
  Operators,     \* processes of needlex prune --embedding-cache and web_prune
  MaxEntries,    \* policy.MaxEntries
  MaxBytes       \* policy.MaxBytes, where a vector's file has two bytes

ASSUME PruneConstants ==
  /\ Operators \cap Callers = {}
  /\ MaxEntries \in Nat /\ MaxBytes \in Nat

Pruners == Callers \cup Operators

\* The files of the directory: <key>.json is positive, <key>.neg.json is not.
Files == [key : Keys, positive : BOOLEAN]

VARIABLES
  pruning,   \* who prunes
  unread,    \* files a prune listed whose info it has still to read
  seen,      \* their ages as it read them; Absent of one gone, or expired
  spared,    \* files its loop has not picked (kept)
  remove,    \* files to be removed
  later      \* history: files that came, or would not go, while it ran

pruneVars == <<pruning, unread, seen, spared, remove, later>>
allVars == <<vars, pruneVars>>

\* The time since the file was written or touched (modTime).
Age(f) ==
  IF ~f.positive THEN refusal[f.key]
  ELSE IF file[f.key] = Absent THEN Absent ELSE used[f.key]

Present == {f \in Files : Age(f) # Absent}

Expired(f) ==
  LET ttl == IF f.positive THEN TTL ELSE NegTTL
  IN ttl > 0 /\ Age(f) > ttl

Vectors(S) == {f \in S : f.positive}
Bytes(S) == 2 * Cardinality(Vectors(S)) + Cardinality(S \ Vectors(S))

\* Mutant: files are dropped only when both limits are passed.
OverBothLimits(S) ==
  /\ MaxBytes > 0 /\ Bytes(S) > MaxBytes
  /\ MaxEntries > 0 /\ Cardinality(Vectors(S)) > MaxEntries

\* The files S exceed the policy.
OverBudget(S) ==
  \/ MaxBytes > 0 /\ Bytes(S) > MaxBytes
  \/ MaxEntries > 0 /\ Cardinality(Vectors(S)) > MaxEntries

NoAges == [f \in Files |-> Absent]

PruneInit ==
  /\ Init
  /\ pruning = {}
  /\ unread = [x \in Pruners |-> {}]
  /\ seen = [x \in Pruners |-> NoAges]
  /\ spared = [x \in Pruners |-> {}]
  /\ remove = [x \in Pruners |-> <<>>]
  /\ later = [x \in Pruners |-> {}]

-----------------------------------------------------------------------------
(* One prune.                                                              *)

\* ReadDir in embeddingCacheFiles
ListFiles(x) ==
  /\ "prune" \in Faults /\ x \notin pruning
  /\ x \in Callers => pc[x] = "prune"
  /\ pruning' = pruning \cup {x}
  /\ unread' = [unread EXCEPT ![x] = Present]
  /\ UNCHANGED <<vars, seen, spared, remove, later>>

\* The file's info is read, unless it has gone; an expired one is to go
\* (the first loop of embeddingCacheRemovalSet).
ReadInfo(x, f) ==
  /\ x \in pruning /\ f \in unread[x]
  /\ unread' = [unread EXCEPT ![x] = @ \ {f}]
  /\ IF f \notin Present THEN UNCHANGED <<seen, spared, remove>>
     ELSE IF Expired(f)
     THEN /\ remove' = [remove EXCEPT ![x] = Append(@, f)]
          /\ UNCHANGED <<seen, spared>>
     ELSE /\ seen' = [seen EXCEPT ![x][f] = Age(f)]
          /\ spared' = [spared EXCEPT ![x] = @ \cup {f}]
          /\ UNCHANGED remove
  /\ UNCHANGED <<vars, pruning, later>>

\* Mutant: the files are sorted the other way.
Youngest(x, f) ==
  f \in spared[x] /\ \A g \in spared[x] : seen[x][g] >= seen[x][f]

\* The files that are left to spare, the oldest first.
Oldest(x, f) ==
  f \in spared[x] /\ \A g \in spared[x] : seen[x][g] <= seen[x][f]

\* One round of the loop of embeddingCacheRemovalSet
PickOldest(x, f) ==
  /\ x \in pruning /\ unread[x] = {} /\ OverBudget(spared[x])
  /\ Oldest(x, f)
  /\ spared' = [spared EXCEPT ![x] = @ \ {f}]
  /\ remove' = [remove EXCEPT ![x] = Append(@, f)]
  /\ UNCHANGED <<vars, pruning, unread, seen, later>>

Picked(x) == x \in pruning /\ unread[x] = {} /\ ~OverBudget(spared[x])

\* The next file is removed by its name, whatever it holds by now, or cannot
\* be, which is ignored.
RemoveFile(x) ==
  /\ Picked(x) /\ remove[x] # <<>>
  /\ remove' = [remove EXCEPT ![x] = Tail(@)]
  /\ LET f == Head(remove[x])
     IN \/ /\ IF f.positive THEN DropVector(f.key) ELSE DropRefusal(f.key)
           /\ UNCHANGED later
        \/ /\ "write" \in Faults
           /\ later' = [later EXCEPT ![x] = @ \cup {f}]
           /\ UNCHANGED vars
  /\ UNCHANGED <<pruning, unread, seen, spared>>

\* The prunes of S are over.
Over(S) ==
  /\ pruning' = pruning \ S
  /\ unread' = [x \in Pruners |-> IF x \in S THEN {} ELSE unread[x]]
  /\ seen' = [x \in Pruners |-> IF x \in S THEN NoAges ELSE seen[x]]
  /\ spared' = [x \in Pruners |-> IF x \in S THEN {} ELSE spared[x]]
  /\ remove' = [x \in Pruners |-> IF x \in S THEN <<>> ELSE remove[x]]

\* PruneEmbeddingCache returns, and with it persistentCacheSet of a call.
EndPrune(x) ==
  /\ Picked(x) /\ remove[x] = <<>>
  /\ IF x \in Callers THEN Pruned(x) ELSE UNCHANGED vars
  /\ Over({x})
  /\ later' = [later EXCEPT ![x] = {}]

\* The directory of a call's prune cannot be listed.
PruneFails(c) ==
  /\ c \notin pruning /\ Pruned(c)
  /\ UNCHANGED pruneVars

-----------------------------------------------------------------------------
(* What goes on meanwhile.                                                 *)

\* Files that appear are noted for the prunes that run.
Note(running) ==
  later' = [x \in Pruners |->
             IF x \in running THEN later[x] \cup (Present' \ Present) ELSE {}]

Beside(c) ==
  /\ Work(c) \/ \E ks \in SUBSET Keys : Call(c, ks)
  /\ Note(pruning)
  /\ UNCHANGED <<pruning, unread, seen, spared, remove>>

\* A prune reads its files within a tick; picking and removing take longer.
TimePasses ==
  /\ \A x \in pruning : unread[x] = {}
  /\ Tick
  /\ UNCHANGED pruneVars

\* A process dies, with the prunes of its calls.
Dies(p) ==
  LET mine == {c \in Callers : Home[c] = p}
  IN /\ Restart(p) /\ Over(mine) /\ Note(pruning \ mine)

PruneNext ==
  \/ \E x \in Pruners : \/ ListFiles(x) \/ RemoveFile(x) \/ EndPrune(x)
                        \/ \E f \in Files : ReadInfo(x, f) \/ PickOldest(x, f)
  \/ \E c \in Callers : PruneFails(c) \/ Beside(c)
  \/ TimePasses
  \/ \E p \in Procs : Dies(p)

PruneSpec == PruneInit /\ [][PruneNext]_allVars

-----------------------------------------------------------------------------
(* Properties.                                                             *)

PruneTypeOK ==
  /\ pruning \subseteq Pruners
  /\ unread \in [Pruners -> SUBSET Files]
  /\ seen \in [Pruners -> [Files -> -1..(TTL + NegTTL + 1)]]
  /\ spared \in [Pruners -> SUBSET Files]
  /\ remove \in [Pruners -> Seq(Files)]
  /\ later \in [Pruners -> SUBSET Files]

\* What a prune has picked because of the limits.
Dropped(x) == {f \in Files : seen[x][f] # Absent} \ spared[x]

\* What a prune has picked although it had not expired has not been used since
\* anything it spares, and it picked no more than it had to: all the loop of
\* embeddingCacheRemovalSet promises, at whatever point of it the prune is.
LoopInv ==
  \A x \in pruning :
    /\ \A f \in Dropped(x), g \in spared[x] : seen[x][g] <= seen[x][f]
    /\ Dropped(x) # {} =>
         \E f \in Dropped(x) : /\ OverBudget(spared[x] \cup {f})
                               /\ \A g \in Dropped(x) : seen[x][f] <= seen[x][g]

\* No file escapes a prune but those that came after its listing or that it
\* could not remove, whatever other prunes and calls do in between.
ListedInv ==
  \A x \in pruning :
    Present \subseteq unread[x] \cup spared[x] \cup Range(remove[x]) \cup later[x]

\* Nothing is picked before all is read, only what was read is spared, and who
\* does not prune has nothing in hand.
StageInv ==
  \A x \in Pruners :
    /\ \A f \in spared[x] : seen[x][f] # Absent
    /\ unread[x] # {} => Dropped(x) = {}
    /\ x \notin pruning => /\ unread[x] = {} /\ seen[x] = NoAges
                          /\ spared[x] = {} /\ remove[x] = <<>>

PruneInd == PruneTypeOK /\ LoopInv /\ ListedInv /\ StageInv

\* When a prune returns, the directory is within both limits but for what came
\* while it ran or could not be removed, although it worked from an old
\* listing and others wrote and removed files all along (PruneEmbeddingCache).
PruneWithinPolicy ==
  [][\A x \in Pruners : EndPrune(x) =>
       LET left == Present \ later[x]
       IN /\ MaxEntries > 0 => Cardinality({f \in left : f.positive}) <= MaxEntries
          /\ MaxBytes > 0 => Cardinality(left) + Cardinality({f \in left : f.positive})
                             <= MaxBytes]_allVars
=============================================================================
