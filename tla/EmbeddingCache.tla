--------------------------- MODULE EmbeddingCache ---------------------------
(***************************************************************************)
(* Embedding through the shared cache: DenseHTTPTextEmbedder.Embed         *)
(* (internal/intel/embedder.go) over the in-process LRU, the file cache    *)
(* and the flight locks of internal/intel/embedder_cache.go.               *)
(*                                                                         *)
(* Callers are goroutines of one or several processes; each process has    *)
(* its own memory and flight locks and all share the cache directory.      *)
(* Vectors are identified by their key and by their age since the provider *)
(* returned them; ages are in ticks and saturate at Cap.  The cache is     *)
(* enabled, and a file that cannot be read back is a file that is absent.  *)
(* Which files a prune takes away is said in EmbeddingPrune; here any file *)
(* may go at any time.                                                     *)
(***************************************************************************)
EXTENDS Integers, FiniteSets

CONSTANTS
  Callers, Procs,
  Home,          \* the process of each caller
  Keys,          \* cache keys, integers in their sort order
  TTL,           \* policy.TTL; 0 when it is not positive: nothing expires
  NegTTL,        \* policy.NegativeTTL; 0 when it is not: no refusals
  MemoryMax,     \* denseEmbeddingCacheMax
  StaleIfError,  \* policy.StaleIfError
  MaxCalls,      \* bound: calls of Embed by one caller
  Faults,        \* what an instance lets happen, of AllFaults
  Earlier,       \* ages of the files an earlier run may have left
  NoKey

\* A write or a removal fails, the directory is pruned, a process restarts.
AllFaults == {"write", "prune", "restart"}

ASSUME CacheConstants ==
  /\ Home \in [Callers -> Procs] /\ IsFiniteSet(Callers)
  /\ Keys \subseteq Int /\ NoKey \notin Keys
  /\ TTL \in Nat /\ NegTTL \in Nat
  /\ MemoryMax \in Nat \ {0} /\ MaxCalls \in Nat
  /\ StaleIfError \in BOOLEAN /\ Faults \subseteq AllFaults
  /\ Earlier \subseteq 0..(2 * TTL + 1)

\* A file is named by the digest, of fixed length, of its key (embeddingCacheKeyHash).
ASSUME KeysFinite == IsFiniteSet(Keys)

\* An age beyond which nothing tells two vectors apart.
Cap == 2 * TTL + 1

\* Nothing is stored.
Absent == -1

VARIABLES
  known,     \* age of the vector each process holds for a key, or Absent
  kept,      \* time since it was put there (StoredAt)
  tick,      \* Tick of each vector held, counted from 1: its order of use
  file,      \* age of the vector in the key's file, or Absent
  used,      \* time since the file was written or touched (modTime)
  refusal,   \* time since the key's .neg.json was written, or Absent
  timedOut,  \* keys whose refusal records a timeout
  waiters,   \* keys with a flight channel, per process
  owned,     \* keys whose channel a caller made
  parked,    \* the key on whose channel a caller waits
  pc, inputs,
  todo,      \* keys the current loop has still to visit
  missing,   \* keys embeddingCacheMisses reported
  vectors,   \* age of the vector found for each input, or Absent
  at,        \* the key in hand, or NoKey
  held,      \* age of the vector read from its file, or Absent
  cause,     \* how the provider call failed, "" if it did not
  result,    \* what the last call returned
  calls      \* calls made

memoryVars == <<known, kept, tick>>
fileVars == <<file, used>>
refusalVars == <<refusal, timedOut>>
cacheVars == <<memoryVars, fileVars, refusalVars>>
flightVars == <<waiters, owned, parked>>
loopVars == <<todo, missing, vectors, at, held>>
callVars == <<inputs, cause, result, calls>>
vars == <<cacheVars, flightVars, pc, loopVars, callVars>>

Causes == {"error", "timeout"}
PCs == {"idle", "check", "lock", "recheck", "refused", "fetch", "store",
        "written", "prune", "stale", "failed", "refuse"}

Ages == -1..Cap
NoVectors == [k \in Keys |-> Absent]

\* An age beyond which nothing tells two uses of a file apart.
Saturate(n, bound) == IF n > bound THEN bound ELSE n

Init ==
  /\ known = [p \in Procs |-> NoVectors]
  /\ kept = [p \in Procs |-> [k \in Keys |-> 0]]
  /\ tick = [p \in Procs |-> [k \in Keys |-> 0]]
  /\ file \in [Keys -> Earlier \cup {Absent}]
  /\ used = [k \in Keys |-> IF file[k] = Absent THEN 0 ELSE Saturate(file[k], TTL + 1)]
  /\ refusal = NoVectors /\ timedOut = {}
  /\ waiters = [p \in Procs |-> {}]
  /\ owned = [c \in Callers |-> {}]
  /\ parked = [c \in Callers |-> NoKey]
  /\ pc = [c \in Callers |-> "idle"]
  /\ inputs = [c \in Callers |-> {}]
  /\ todo = [c \in Callers |-> {}]
  /\ missing = [c \in Callers |-> {}]
  /\ vectors = [c \in Callers |-> NoVectors]
  /\ at = [c \in Callers |-> NoKey]
  /\ held = [c \in Callers |-> Absent]
  /\ cause = [c \in Callers |-> ""]
  /\ result = [c \in Callers |-> "none"]
  /\ calls = [c \in Callers |-> 0]

-----------------------------------------------------------------------------
(* The in-process cache.                                                   *)

\* The keys a process holds a vector for.
Held(p) == {k \in Keys : known[p][k] # Absent}

\* The ticks t of the entries S; only their order tells anything apart.
Ranked(t, S) ==
  [j \in Keys |-> IF j \in S THEN Cardinality({i \in S : t[i] <= t[j]}) ELSE 0]

\* c.tick, which is above the Tick of every entry, goes to the entry of k.
Stamped(p, k) == [tick[p] EXCEPT ![k] = Cardinality(Keys) + 1]

\* embeddingCache.set and evictOldest: the entry with the least Tick goes
\* when there are too many.
Remember(p, k, age) ==
  LET entries == Held(p) \cup {k}
      stamps == Stamped(p, k)
      gone == IF Cardinality(entries) > MemoryMax
              THEN {j \in entries : \A i \in entries : stamps[j] <= stamps[i]} ELSE {}
  IN /\ tick' = [tick EXCEPT ![p] = Ranked(stamps, entries \ gone)]
     /\ known' = [known EXCEPT ![p] = [j \in Keys |->
          IF j \in gone THEN Absent ELSE IF j = k THEN age ELSE known[p][j]]]
     /\ kept' = [kept EXCEPT ![p] = [j \in Keys |->
          IF j \in gone \cup {k} THEN 0 ELSE kept[p][j]]]

\* embeddingCache.get deletes an entry it finds expired.
Forget(p, k) ==
  /\ tick' = [tick EXCEPT ![p] = Ranked(tick[p], Held(p) \ {k})]
  /\ known' = [known EXCEPT ![p][k] = Absent]
  /\ kept' = [kept EXCEPT ![p][k] = 0]

\* embeddingCache.get stamps an entry it returns.
Touch(p, k) ==
  /\ tick' = [tick EXCEPT ![p] = Ranked(Stamped(p, k), Held(p))]
  /\ UNCHANGED <<known, kept>>

\* Mutant: an entry of the in-process cache does not expire.
HeldForEver(p, k) == known[p][k] # Absent

InMemory(p, k) == known[p][k] # Absent /\ (TTL > 0 => kept[p][k] <= TTL)

\* persistentCacheEntry.validFor, expired entries not allowed
Valid(k) == file[k] # Absent /\ (TTL > 0 => file[k] <= TTL)

-----------------------------------------------------------------------------
(* Embed.                                                                  *)

Call(c, ks) ==
  /\ pc[c] = "idle" /\ calls[c] < MaxCalls /\ ks # {}
  /\ pc' = [pc EXCEPT ![c] = "check"]
  /\ inputs' = [inputs EXCEPT ![c] = ks]
  /\ todo' = [todo EXCEPT ![c] = ks]
  /\ result' = [result EXCEPT ![c] = "none"]
  /\ calls' = [calls EXCEPT ![c] = @ + 1]
  /\ UNCHANGED <<cacheVars, flightVars, missing, vectors, at, held, cause>>

Checking(c) == pc[c] \in {"check", "recheck"}

\* cacheGet, the in-process part
LookUp(c, k) ==
  /\ Checking(c) /\ at[c] = NoKey /\ k \in todo[c]
  /\ IF InMemory(Home[c], k)
     THEN /\ vectors' = [vectors EXCEPT ![c][k] = known[Home[c]][k]]
          /\ todo' = [todo EXCEPT ![c] = @ \ {k}]
          /\ Touch(Home[c], k)
          /\ UNCHANGED at
     ELSE /\ at' = [at EXCEPT ![c] = k]
          /\ Forget(Home[c], k)
          /\ UNCHANGED <<vectors, todo>>
  /\ UNCHANGED <<fileVars, refusalVars, flightVars, pc, missing, held, callVars>>

\* persistentCacheGet: a hit touches the file.
ReadFile(c) ==
  /\ Checking(c) /\ at[c] # NoKey /\ held[c] = Absent
  /\ IF Valid(at[c])
     THEN /\ held' = [held EXCEPT ![c] = file[at[c]]]
          /\ used' = [used EXCEPT ![at[c]] = 0]
          /\ UNCHANGED <<todo, missing, at>>
     ELSE /\ missing' = [missing EXCEPT ![c] = @ \cup {at[c]}]
          /\ todo' = [todo EXCEPT ![c] = @ \ {at[c]}]
          /\ at' = [at EXCEPT ![c] = NoKey]
          /\ UNCHANGED <<held, used>>
  /\ UNCHANGED <<memoryVars, file, refusalVars, flightVars, pc, vectors, callVars>>

\* What was read goes to the in-process cache, as if stored now.
Keep(c) ==
  /\ Checking(c) /\ at[c] # NoKey /\ held[c] # Absent
  /\ Remember(Home[c], at[c], held[c])
  /\ vectors' = [vectors EXCEPT ![c][at[c]] = held[c]]
  /\ todo' = [todo EXCEPT ![c] = @ \ {at[c]}]
  /\ at' = [at EXCEPT ![c] = NoKey]
  /\ held' = [held EXCEPT ![c] = Absent]
  /\ UNCHANGED <<fileVars, refusalVars, flightVars, pc, missing, callVars>>

\* Mutant: the channels are dropped and nobody is woken.
UnlockUnwoken(c) ==
  /\ waiters' = [waiters EXCEPT ![Home[c]] = @ \ owned[c]]
  /\ owned' = [owned EXCEPT ![c] = {}]
  /\ UNCHANGED parked

\* The deferred unlock closes the channels of c and drops them.
Unlock(c) ==
  /\ waiters' = [waiters EXCEPT ![Home[c]] = @ \ owned[c]]
  /\ owned' = [owned EXCEPT ![c] = {}]
  /\ parked' = [d \in Callers |->
       IF Home[d] = Home[c] /\ parked[d] \in owned[c] THEN NoKey ELSE parked[d]]

\* Embed returns.
Return(c, outcome) ==
  /\ Unlock(c)
  /\ pc' = [pc EXCEPT ![c] = "idle"]
  /\ result' = [result EXCEPT ![c] = outcome]
  /\ inputs' = [inputs EXCEPT ![c] = {}]
  /\ todo' = [todo EXCEPT ![c] = {}]
  /\ missing' = [missing EXCEPT ![c] = {}]
  /\ vectors' = [vectors EXCEPT ![c] = NoVectors]
  /\ cause' = [cause EXCEPT ![c] = ""]
  /\ UNCHANGED <<at, held, calls>>

\* The call goes on to the next loop, over ks.
Continue(c, next, ks) ==
  /\ pc' = [pc EXCEPT ![c] = next]
  /\ todo' = [todo EXCEPT ![c] = ks]
  /\ UNCHANGED <<vectors, at, held, callVars>>

\* The first misses are known: none, or lock their keys.
Checked(c) ==
  /\ pc[c] = "check" /\ todo[c] = {}
  /\ IF missing[c] = {} THEN Return(c, "vectors")
     ELSE Continue(c, "lock", missing[c]) /\ UNCHANGED <<flightVars, missing>>
  /\ UNCHANGED cacheVars

\* Mutant: the keys are locked in the order they were missed.
NextInAnyOrder(c, k) == k \in todo[c]

\* sortedUnique
NextKey(c, k) == k \in todo[c] /\ \A j \in todo[c] : k <= j

\* embeddingFlightGroup.lock: make the key's channel, or wait on it.  After
\* the last key every input is looked up again.
Lock(c, k) ==
  /\ pc[c] = "lock" /\ parked[c] = NoKey /\ NextKey(c, k)
  /\ IF k \in waiters[Home[c]]
     THEN parked' = [parked EXCEPT ![c] = k]
          /\ UNCHANGED <<waiters, owned, pc, loopVars, callVars>>
     ELSE /\ waiters' = [waiters EXCEPT ![Home[c]] = @ \cup {k}]
          /\ owned' = [owned EXCEPT ![c] = @ \cup {k}]
          /\ UNCHANGED parked
          /\ IF todo[c] = {k}
             THEN /\ Continue(c, "recheck", inputs[c])
                  /\ missing' = [missing EXCEPT ![c] = {}]
             ELSE Continue(c, "lock", todo[c] \ {k}) /\ UNCHANGED missing
  /\ UNCHANGED cacheVars

Rechecked(c) ==
  /\ pc[c] = "recheck" /\ todo[c] = {}
  /\ IF missing[c] = {} THEN Return(c, "vectors")
     ELSE Continue(c, "refused", missing[c]) /\ UNCHANGED <<flightVars, missing>>
  /\ UNCHANGED cacheVars

\* negativeCacheHit for one key: a fresh refusal fails the call, an old one
\* is removed.  After the last key the provider is called.
CheckRefusal(c, k) ==
  /\ pc[c] = "refused" /\ k \in todo[c]
  /\ IF NegTTL > 0 /\ refusal[k] # Absent /\ refusal[k] <= NegTTL
     THEN Return(c, "refused") /\ UNCHANGED refusalVars
     ELSE /\ IF NegTTL > 0
             THEN /\ refusal' = [refusal EXCEPT ![k] = Absent]
                  /\ timedOut' = timedOut \ {k}
             ELSE UNCHANGED refusalVars
          /\ Continue(c, IF todo[c] = {k} THEN "fetch" ELSE "refused", todo[c] \ {k})
          /\ UNCHANGED <<flightVars, missing>>
  /\ UNCHANGED <<memoryVars, fileVars>>

\* The provider returns one vector per input.
Answer(c) ==
  /\ pc[c] = "fetch"
  /\ Continue(c, "store", missing[c])
  /\ UNCHANGED <<cacheVars, flightVars, missing>>

\* The call fails: transport, status, decoding, a wrong count or the caller's
\* own context ("error"), or the timeout the embedder sets itself.
Fail(c, why) ==
  /\ pc[c] = "fetch"
  /\ cause' = [cause EXCEPT ![c] = why]
  /\ pc' = [pc EXCEPT ![c] = IF StaleIfError THEN "stale" ELSE "failed"]
  /\ todo' = [todo EXCEPT ![c] = missing[c]]
  /\ UNCHANGED <<cacheVars, flightVars, missing, vectors, at, held, inputs,
                 result, calls>>

-----------------------------------------------------------------------------
(* What a call leaves in the cache.                                        *)

\* mergeFetchedEmbeddings, one key: the in-process cache first
Store(c, k) ==
  /\ pc[c] = "store" /\ at[c] = NoKey /\ k \in todo[c]
  /\ Remember(Home[c], k, 0)
  /\ at' = [at EXCEPT ![c] = k]
  /\ UNCHANGED <<fileVars, refusalVars, flightVars, pc, todo, missing, vectors,
                 held, callVars>>

\* The key's vector is cached, or could not be written: it is the answer.
UseFetched(c) ==
  /\ vectors' = [vectors EXCEPT ![c][at[c]] = 0]
  /\ todo' = [todo EXCEPT ![c] = @ \ {at[c]}]
  /\ at' = [at EXCEPT ![c] = NoKey]
  /\ pc' = [pc EXCEPT ![c] = "store"]
  /\ UNCHANGED <<missing, held, callVars>>

\* persistentCacheSet up to the rename; an error leaves the old file.
WriteFile(c) ==
  /\ pc[c] = "store" /\ at[c] # NoKey
  /\ \/ /\ file' = [file EXCEPT ![at[c]] = 0]
        /\ used' = [used EXCEPT ![at[c]] = 0]
        /\ pc' = [pc EXCEPT ![c] = "written"]
        /\ UNCHANGED <<loopVars, callVars>>
     \/ "write" \in Faults /\ UseFetched(c) /\ UNCHANGED fileVars
  /\ UNCHANGED <<memoryVars, refusalVars, flightVars>>

\* The rest of persistentCacheSet: the refusal goes, and the directory is
\* pruned unless it was during the last minute.
Written(c) ==
  /\ pc[c] = "written"
  /\ refusal' = [refusal EXCEPT ![at[c]] = Absent]
  /\ timedOut' = timedOut \ {at[c]}
  /\ \/ UseFetched(c)
     \/ /\ "prune" \in Faults
        /\ pc' = [pc EXCEPT ![c] = "prune"]
        /\ UNCHANGED <<loopVars, callVars>>
  /\ UNCHANGED <<memoryVars, fileVars, flightVars>>

\* PruneEmbeddingCache returns.
Pruned(c) ==
  /\ pc[c] = "prune"
  /\ UseFetched(c)
  /\ UNCHANGED <<cacheVars, flightVars>>

Stored(c) ==
  /\ pc[c] = "store" /\ at[c] = NoKey /\ todo[c] = {}
  /\ Return(c, "vectors")
  /\ UNCHANGED cacheVars

\* Mutant: a key without a file does not stop the stale answer.
StaleVectorOfAny(c, k) ==
  /\ pc[c] = "stale" /\ k \in todo[c]
  /\ vectors' = [vectors EXCEPT ![c][k] = file[k]]
  /\ todo' = [todo EXCEPT ![c] = @ \ {k}]
  /\ UNCHANGED <<cacheVars, flightVars, pc, missing, at, held, callVars>>

\* staleVectors, one key: its file however old, or no stale answer at all
StaleVector(c, k) ==
  /\ pc[c] = "stale" /\ k \in todo[c]
  /\ IF file[k] # Absent
     THEN /\ vectors' = [vectors EXCEPT ![c][k] = file[k]]
          /\ used' = [used EXCEPT ![k] = 0]
          /\ todo' = [todo EXCEPT ![c] = @ \ {k}]
          /\ UNCHANGED pc
     ELSE /\ pc' = [pc EXCEPT ![c] = "failed"]
          /\ todo' = [todo EXCEPT ![c] = {}]
          /\ UNCHANGED <<vectors, used>>
  /\ UNCHANGED <<memoryVars, file, refusalVars, flightVars, missing, at, held, callVars>>

StaleDone(c) ==
  /\ pc[c] = "stale" /\ todo[c] = {}
  /\ Return(c, "vectors")
  /\ UNCHANGED cacheVars

\* The call fails: at once if its context has ended, else after setNegativeCache.
GiveUp(c) ==
  /\ pc[c] = "failed"
  /\ \/ Return(c, "error")
     \/ Continue(c, "refuse", missing[c]) /\ UNCHANGED <<flightVars, missing>>
  /\ UNCHANGED cacheVars

\* setNegativeCache, one key; a failed write is ignored.
Refuse(c, k) ==
  /\ pc[c] = "refuse" /\ k \in todo[c]
  /\ \/ /\ NegTTL > 0
        /\ refusal' = [refusal EXCEPT ![k] = 0]
        /\ timedOut' = IF cause[c] = "timeout" THEN timedOut \cup {k} ELSE timedOut \ {k}
     \/ (NegTTL = 0 \/ "write" \in Faults) /\ UNCHANGED refusalVars
  /\ Continue(c, "refuse", todo[c] \ {k})
  /\ UNCHANGED <<memoryVars, fileVars, flightVars, missing>>

Refused(c) ==
  /\ pc[c] = "refuse" /\ todo[c] = {}
  /\ Return(c, "error")
  /\ UNCHANGED cacheVars

-----------------------------------------------------------------------------
(* The environment.                                                        *)

\* Time is counted in ticks beside which a lookup takes no time.
Tick ==
  /\ \A c \in Callers : at[c] = NoKey
  /\ LET Older(a, bound) == IF a = Absent THEN a ELSE Saturate(a + 1, bound) IN
     /\ known' = [p \in Procs |-> [k \in Keys |-> Older(known[p][k], Cap)]]
     /\ kept' = [p \in Procs |-> [k \in Keys |->
          IF known[p][k] = Absent THEN 0 ELSE Older(kept[p][k], TTL + 1)]]
     /\ file' = [k \in Keys |-> Older(file[k], Cap)]
     /\ used' = [k \in Keys |-> IF file[k] = Absent THEN 0 ELSE Older(used[k], TTL + 1)]
     /\ refusal' = [k \in Keys |-> Older(refusal[k], NegTTL + 1)]
  /\ UNCHANGED <<tick, timedOut, flightVars, pc, loopVars, callVars>>

\* os.Remove of a file by a prune, of this or another process
DropVector(k) ==
  /\ "prune" \in Faults
  /\ file' = [file EXCEPT ![k] = Absent]
  /\ used' = [used EXCEPT ![k] = 0]
  /\ UNCHANGED <<memoryVars, refusalVars, flightVars, pc, loopVars, callVars>>

DropRefusal(k) ==
  /\ "prune" \in Faults
  /\ refusal' = [refusal EXCEPT ![k] = Absent]
  /\ timedOut' = timedOut \ {k}
  /\ UNCHANGED <<memoryVars, fileVars, flightVars, pc, loopVars, callVars>>

\* A process dies and is started again.
Restart(p) ==
  LET mine == {c \in Callers : Home[c] = p}
      Reset(f, zero) == [c \in Callers |-> IF c \in mine THEN zero ELSE f[c]]
  IN /\ "restart" \in Faults /\ \E c \in mine : pc[c] # "idle"
     /\ known' = [known EXCEPT ![p] = NoVectors]
     /\ kept' = [kept EXCEPT ![p] = [k \in Keys |-> 0]]
     /\ tick' = [tick EXCEPT ![p] = [k \in Keys |-> 0]]
     /\ waiters' = [waiters EXCEPT ![p] = {}]
     /\ owned' = Reset(owned, {}) /\ parked' = Reset(parked, NoKey)
     /\ pc' = Reset(pc, "idle") /\ inputs' = Reset(inputs, {})
     /\ todo' = Reset(todo, {}) /\ missing' = Reset(missing, {})
     /\ vectors' = Reset(vectors, NoVectors)
     /\ at' = Reset(at, NoKey) /\ held' = Reset(held, Absent)
     /\ cause' = Reset(cause, "") /\ result' = Reset(result, "none")
     /\ UNCHANGED <<fileVars, refusalVars, calls>>

\* What a caller does but for the end of a prune.
Work(c) ==
  \/ \E k \in Keys : \/ LookUp(c, k) \/ Lock(c, k) \/ CheckRefusal(c, k)
                     \/ Store(c, k) \/ StaleVector(c, k) \/ Refuse(c, k)
  \/ ReadFile(c) \/ Keep(c) \/ Checked(c) \/ Rechecked(c)
  \/ Answer(c) \/ WriteFile(c) \/ Written(c) \/ Stored(c)
  \/ StaleDone(c) \/ GiveUp(c) \/ Refused(c)
  \/ \E why \in Causes : Fail(c, why)

Step(c) == Work(c) \/ Pruned(c)

Next ==
  \/ \E c \in Callers : Step(c) \/ \E ks \in SUBSET Keys : Call(c, ks)
  \/ Tick
  \/ \E k \in Keys : DropVector(k) \/ DropRefusal(k)
  \/ \E p \in Procs : Restart(p)

Spec == Init /\ [][Next]_vars

\* Each goroutine runs, and a timeout ends every provider call.
Fairness == \A c \in Callers : WF_vars(Step(c))

FairSpec == Spec /\ Fairness

-----------------------------------------------------------------------------
(* Properties.                                                             *)

TypeOK ==
  /\ known \in [Procs -> [Keys -> Ages]]
  /\ kept \in [Procs -> [Keys -> 0..(TTL + 1)]]
  /\ tick \in [Procs -> [Keys -> Nat]]
  /\ file \in [Keys -> Ages] /\ used \in [Keys -> 0..(TTL + 1)]
  /\ refusal \in [Keys -> -1..(NegTTL + 1)] /\ timedOut \in SUBSET Keys
  /\ waiters \in [Procs -> SUBSET Keys]
  /\ owned \in [Callers -> SUBSET Keys]
  /\ parked \in [Callers -> Keys \cup {NoKey}]
  /\ pc \in [Callers -> PCs]
  /\ inputs \in [Callers -> SUBSET Keys] /\ todo \in [Callers -> SUBSET Keys]
  /\ missing \in [Callers -> SUBSET Keys]
  /\ vectors \in [Callers -> [Keys -> Ages]]
  /\ at \in [Callers -> Keys \cup {NoKey}] /\ held \in [Callers -> Ages]
  /\ cause \in [Callers -> Causes \cup {""}]
  /\ result \in [Callers -> {"none", "vectors", "refused", "error"}]
  /\ calls \in [Callers -> Nat]

\* A caller waits for a key above all it holds (sortedUnique), and only for a
\* channel that another caller of its process will close; no key is locked
\* twice (embeddingFlightGroup.lock).
LockOrder ==
  /\ \A c \in Callers : pc[c] = "lock" =>
       \A j \in owned[c], k \in todo[c] : j < k
  /\ \A c \in Callers : parked[c] # NoKey =>
       /\ pc[c] = "lock" /\ parked[c] \in todo[c]
       /\ \E d \in Callers \ {c} : Home[d] = Home[c] /\ parked[c] \in owned[d]
  /\ \A c, d \in Callers : c # d /\ Home[c] = Home[d] => owned[c] \cap owned[d] = {}
  /\ \A p \in Procs : waiters[p] = UNION {owned[c] : c \in {d \in Callers : Home[d] = p}}

\* No set of callers waits for one another, however their batches overlap
\* (embeddingFlightGroup.lock holds some keys while it waits for others).
NoWaitCycle ==
  \A S \in SUBSET Callers : S # {} =>
    \E c \in S : \A d \in S : parked[c] = NoKey \/ parked[c] \notin owned[d]

Answers(c) == result'[c] = "vectors" /\ result[c] # "vectors"

\* A caller that gets vectors gets one for every input, whichever mixture of
\* memory, files, provider and stale files they came from (Embed).
VectorsComplete ==
  [][\A c \in Callers : Answers(c) =>
       \A k \in inputs[c] : vectors[c][k] # Absent]_vars

\* A vector older than the policy allows is only served by a call whose
\* provider call failed: the in-process copy of a file may double its life
\* (embeddingCache.set stamps it anew) but no chain of copies goes further.
OldOnlyIfError ==
  [][\A c \in Callers : TTL > 0 /\ Answers(c) /\ cause[c] = "" =>
       \A k \in inputs[c] : vectors[c][k] <= 2 * TTL]_vars

\* Every call of Embed returns, whatever locks it meets (Embed).
CallsReturn == \A c \in Callers : pc[c] # "idle" ~> pc[c] = "idle"

-----------------------------------------------------------------------------
(* The inductive invariant behind these properties.                        *)

FlightInv ==
  /\ LockOrder
  /\ \A c \in Callers : pc[c] \in {"idle", "check"} => owned[c] = {}

\* A copy is at most TTL older than its stamp says, because what it was read
\* from was valid; only a stale answer goes beyond.
AgeInv == TTL > 0 =>
  /\ \A p \in Procs, k \in Keys : known[p][k] <= kept[p][k] + TTL
  /\ \A c \in Callers : held[c] <= TTL
  /\ \A c \in Callers, k \in Keys : cause[c] = "" => vectors[c][k] <= 2 * TTL
  /\ \A c \in Callers : pc[c] = "stale" => cause[c] # ""

Found(c) == {k \in Keys : vectors[c][k] # Absent}

\* Every input has a vector, or is among the keys its call still has to do.
CompleteInv ==
  \A c \in Callers :
    /\ Checking(c) => inputs[c] \subseteq todo[c] \cup missing[c] \cup Found(c)
    /\ pc[c] \in {"refused", "fetch"} => inputs[c] \subseteq missing[c] \cup Found(c)
    /\ pc[c] \in {"store", "written", "prune", "stale"} => inputs[c] \subseteq todo[c] \cup Found(c)
    /\ pc[c] \in {"written", "prune"} => at[c] # NoKey

IndInv == TypeOK /\ FlightInv /\ AgeInv /\ CompleteInv

-----------------------------------------------------------------------------
(* What the documentation says and the code does not do.                   *)

\* issues/2026-05-08-pal-embedding-cache.md:15: "In-process and persistent
\* cache entries honor TTL"; keeping a file's vector stamps it anew.
HitsHonorTTL ==
  [][\A c \in Callers : Answers(c) /\ cause[c] = "" =>
       \A k \in inputs[c] : vectors[c][k] <= TTL]_vars

\* issues/2026-05-08-pal-embedding-cache.md:20: "Concurrent identical misses
\* singleflight to one provider call"; a key that was a hit at the first
\* lookup and is a miss at the second has not been locked.
OneProviderCall ==
  \A c, d \in Callers :
    c # d /\ Home[c] = Home[d] /\ pc[c] = "fetch" /\ pc[d] = "fetch" =>
      missing[c] \cap missing[d] = {}

\* issues/2026-05-08-pal-embedding-cache.md:258: "do not negative-cache
\* context.DeadlineExceeded"; only the caller's own context is looked at.
TimeoutsNotRefused == timedOut = {}

=============================================================================
