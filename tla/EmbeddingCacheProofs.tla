------------------------ MODULE EmbeddingCacheProofs ------------------------
(***************************************************************************)
(* Proofs about EmbeddingCache and EmbeddingPrune: callers acquire their   *)
(* flight locks in one order and never hold a key twice, a call that       *)
(* succeeds has a vector for every input, only a failed provider call      *)
(* serves vectors older than twice the policy's age, and a prune leaves    *)
(* the directory within its limits whatever goes on meanwhile.             *)
(***************************************************************************)
EXTENDS EmbeddingPrune, ListLemmas

\* The types the steps below use, one by one.
LEMMA Types ==
  ASSUME TypeOK
  PROVE  /\ known \in [Procs -> [Keys -> Ages]]
         /\ kept \in [Procs -> [Keys -> 0..(TTL + 1)]]
         /\ tick \in [Procs -> [Keys -> Nat]]
         /\ file \in [Keys -> Ages] /\ used \in [Keys -> 0..(TTL + 1)]
         /\ refusal \in [Keys -> -1..(NegTTL + 1)] /\ timedOut \in SUBSET Keys
         /\ waiters \in [Procs -> SUBSET Keys]
         /\ owned \in [Callers -> SUBSET Keys]
         /\ parked \in [Callers -> Keys \cup {NoKey}]
         /\ pc \in [Callers -> PCs]
         /\ inputs \in [Callers -> SUBSET Keys] /\ todo \in [Callers -> SUBSET Keys]
         /\ missing \in [Callers -> SUBSET Keys]
         /\ vectors \in [Callers -> [Keys -> Ages]]
         /\ at \in [Callers -> Keys \cup {NoKey}] /\ held \in [Callers -> Ages]
         /\ cause \in [Callers -> Causes \cup {""}]
         /\ calls \in [Callers -> Nat]
BY DEF TypeOK

\* What the constants give the age arithmetic.
LEMMA Numbers ==
  /\ TTL \in Nat /\ NegTTL \in Nat /\ Cap = 2 * TTL + 1
  /\ Absent = -1 /\ -1 \in Ages /\ 0 \in Ages
  /\ \A n \in Ages : n \in Int /\ n >= -1 /\ n <= 2 * TTL + 1
  /\ \A n \in Int : n \in Ages <=> n >= -1 /\ n <= 2 * TTL + 1
BY CacheConstants DEF Cap, Absent, Ages

-----------------------------------------------------------------------------
(* Flight locks.                                                           *)

\* A step that leaves the locks alone and moves no caller into lock or idle.
LEMMA FlightFrame ==
  ASSUME IndInv, UNCHANGED flightVars,
         \A c \in Callers :
           /\ pc'[c] = "lock" <=> pc[c] = "lock"
           /\ pc[c] = "lock" => todo'[c] = todo[c]
           /\ pc'[c] \in {"idle", "check"} => pc[c] \in {"idle", "check"}
  PROVE  FlightInv'
<1>1. owned' = owned /\ parked' = parked /\ waiters' = waiters
  BY DEF flightVars
<1>2. LockOrder /\ \A c \in Callers : pc[c] \in {"idle", "check"} => owned[c] = {}
  BY DEF IndInv, FlightInv
<1>3. LockOrder'
  BY <1>1, <1>2 DEF LockOrder
<1> QED
  BY <1>1, <1>2, <1>3 DEF FlightInv

\* Releasing the locks of c, which is not waiting for one.
LEMMA UnlockFlight ==
  ASSUME IndInv, NEW c \in Callers, pc[c] # "lock", Unlock(c),
         pc' = [pc EXCEPT ![c] = "idle"], todo' = [todo EXCEPT ![c] = {}]
  PROVE  FlightInv'
<1> USE DEF Unlock
<1>1. /\ owned \in [Callers -> SUBSET Keys] /\ waiters \in [Procs -> SUBSET Keys]
      /\ pc \in [Callers -> PCs] /\ todo \in [Callers -> SUBSET Keys]
      /\ parked \in [Callers -> Keys \cup {NoKey}] /\ NoKey \notin Keys
      /\ Home \in [Callers -> Procs]
  BY Types, CacheConstants DEF IndInv
<1>2. LockOrder /\ \A d \in Callers : pc[d] \in {"idle", "check"} => owned[d] = {}
  BY DEF IndInv, FlightInv
<1>3. /\ owned'[c] = {} /\ pc'[c] = "idle" /\ parked[c] = NoKey
      /\ \A d \in Callers : d # c => owned'[d] = owned[d] /\ pc'[d] = pc[d] /\ todo'[d] = todo[d]
  BY <1>1, <1>2 DEF LockOrder
<1>4. \A d \in Callers : parked'[d] # NoKey =>
        /\ parked'[d] = parked[d] /\ d # c
        /\ ~(Home[d] = Home[c] /\ parked[d] \in owned[c])
  BY <1>1, <1>3
<1>5. \A d \in Callers : pc'[d] = "lock" => \A j \in owned'[d], k \in todo'[d] : j < k
  BY <1>2, <1>3 DEF LockOrder
<1>6. \A d \in Callers : parked'[d] # NoKey =>
        /\ pc'[d] = "lock" /\ parked'[d] \in todo'[d]
        /\ \E e \in Callers \ {d} : Home[e] = Home[d] /\ parked'[d] \in owned'[e]
  BY <1>2, <1>3, <1>4 DEF LockOrder
<1>7. \A d, e \in Callers : d # e /\ Home[d] = Home[e] => owned'[d] \cap owned'[e] = {}
  BY <1>2, <1>3 DEF LockOrder
<1>8. \A p \in Procs : waiters'[p] = UNION {owned'[d] : d \in {e \in Callers : Home[e] = p}}
  <2> TAKE p \in Procs
  <2>1. waiters[p] = UNION {owned[d] : d \in {e \in Callers : Home[e] = p}}
    BY <1>2 DEF LockOrder
  <2>2. CASE p # Home[c]
    <3>1. waiters'[p] = waiters[p]
      BY <2>2, <1>1
    <3>2. \A d \in {e \in Callers : Home[e] = p} : owned'[d] = owned[d]
      BY <2>2, <1>3
    <3> QED
      BY <2>1, <3>1, <3>2
  <2>3. CASE p = Home[c]
    <3>1. waiters'[p] = waiters[p] \ owned[c]
      BY <2>3, <1>1
    <3>2. \A d \in Callers : Home[d] = p /\ d # c => owned[d] \cap owned[c] = {} /\ owned'[d] = owned[d]
      BY <2>3, <1>2, <1>3 DEF LockOrder
    <3>3. owned'[c] = {} /\ c \in {e \in Callers : Home[e] = p}
      BY <1>3, <2>3
    <3> QED
      BY <2>1, <3>1, <3>2, <3>3
  <2> QED
    BY <2>2, <2>3
<1>9. \A d \in Callers : pc'[d] \in {"idle", "check"} => owned'[d] = {}
  BY <1>2, <1>3
<1> QED
  BY <1>5, <1>6, <1>7, <1>8, <1>9 DEF FlightInv, LockOrder

\* What returning does to the rest of the invariant.
LEMMA ReturnRest ==
  ASSUME IndInv, NEW c \in Callers, NEW outcome \in {"vectors", "refused", "error"},
         Return(c, outcome), pc[c] # "lock",
         known' \in [Procs -> [Keys -> Ages]],
         kept' \in [Procs -> [Keys -> 0..(TTL + 1)]],
         tick' \in [Procs -> [Keys -> Nat]],
         TTL > 0 => \A p \in Procs, k \in Keys : known'[p][k] <= kept'[p][k] + TTL,
         file' \in [Keys -> Ages], used' \in [Keys -> 0..(TTL + 1)],
         refusal' \in [Keys -> -1..(NegTTL + 1)], timedOut' \in SUBSET Keys
  PROVE  IndInv'
<1>0. NoVectors \in [Keys -> Ages] /\ \A k \in Keys : NoVectors[k] = -1
  BY Numbers DEF NoVectors
<1>1. TypeOK'
  <2>1. waiters' \in [Procs -> SUBSET Keys] /\ owned' \in [Callers -> SUBSET Keys]
        /\ parked' \in [Callers -> Keys \cup {NoKey}]
    BY Types DEF IndInv, Return, Unlock
  <2>2. pc' \in [Callers -> PCs] /\ inputs' \in [Callers -> SUBSET Keys]
        /\ todo' \in [Callers -> SUBSET Keys] /\ missing' \in [Callers -> SUBSET Keys]
        /\ cause' \in [Callers -> Causes \cup {""}]
        /\ result' \in [Callers -> {"none", "vectors", "refused", "error"}]
    BY Types DEF IndInv, TypeOK, Return, PCs
  <2>3. vectors' \in [Callers -> [Keys -> Ages]]
    BY <1>0, Types DEF IndInv, Return
  <2>4. at' \in [Callers -> Keys \cup {NoKey}] /\ held' \in [Callers -> Ages]
        /\ calls' \in [Callers -> Nat]
    BY Types DEF IndInv, Return
  <2> QED
    BY <2>1, <2>2, <2>3, <2>4 DEF TypeOK
<1>2. FlightInv'
  BY UnlockFlight DEF Return
<1>3. /\ pc'[c] = "idle" /\ vectors'[c] = NoVectors /\ held' = held /\ at' = at
      /\ \A d \in Callers : d # c =>
           /\ pc'[d] = pc[d] /\ cause'[d] = cause[d] /\ vectors'[d] = vectors[d]
           /\ inputs'[d] = inputs[d] /\ todo'[d] = todo[d] /\ missing'[d] = missing[d]
  BY Types DEF IndInv, Return
<1>4. AgeInv'
  <2>1. TTL > 0 => \A d \in Callers : held'[d] <= TTL
    BY <1>3 DEF IndInv, AgeInv
  <2>2. TTL > 0 =>
          \A d \in Callers, k \in Keys : cause'[d] = "" => vectors'[d][k] <= 2 * TTL
    <3>1. \A k \in Keys : vectors'[c][k] <= 2 * TTL
      BY <1>0, <1>3, Numbers
    <3>2. TTL > 0 => \A d \in Callers, k \in Keys :
            d # c /\ cause'[d] = "" => vectors'[d][k] <= 2 * TTL
      BY <1>3 DEF IndInv, AgeInv
    <3> QED
      BY <3>1, <3>2
  <2>3. TTL > 0 => \A d \in Callers : pc'[d] = "stale" => cause'[d] # ""
    BY <1>3 DEF IndInv, AgeInv
  <2> QED
    BY <2>1, <2>2, <2>3 DEF AgeInv
<1>5. CompleteInv'
  BY <1>3 DEF IndInv, CompleteInv, Checking, Found
<1> QED
  BY <1>1, <1>2, <1>4, <1>5 DEF IndInv

\* ... when the step does nothing but return.
LEMMA ReturnOnly ==
  ASSUME IndInv, NEW c \in Callers, NEW outcome \in {"vectors", "refused", "error"},
         Return(c, outcome), pc[c] # "lock", UNCHANGED cacheVars
  PROVE  IndInv'
<1>1. /\ known' = known /\ kept' = kept /\ tick' = tick /\ file' = file /\ used' = used
      /\ refusal' = refusal /\ timedOut' = timedOut
  BY DEF cacheVars, memoryVars, fileVars, refusalVars
<1>2. /\ known' \in [Procs -> [Keys -> Ages]] /\ kept' \in [Procs -> [Keys -> 0..(TTL + 1)]]
      /\ tick' \in [Procs -> [Keys -> Nat]]
      /\ file' \in [Keys -> Ages] /\ used' \in [Keys -> 0..(TTL + 1)]
      /\ refusal' \in [Keys -> -1..(NegTTL + 1)] /\ timedOut' \in SUBSET Keys
  BY <1>1, Types DEF IndInv
<1>3. TTL > 0 => \A p \in Procs, k \in Keys : known'[p][k] <= kept'[p][k] + TTL
  BY <1>1 DEF IndInv, AgeInv
<1> QED
  BY <1>2, <1>3, ReturnRest

\* Ranks are numbers, and so are the Ticks after each use of the in-process cache.
LEMMA RankedTicks == \A t : \A S \in SUBSET Keys : Ranked(t, S) \in [Keys -> Nat]
<1> SUFFICES ASSUME NEW t, NEW S \in SUBSET Keys, NEW j \in Keys
             PROVE  Cardinality({i \in S : t[i] <= t[j]}) \in Nat
  BY DEF Ranked
<1>1. IsFiniteSet({i \in S : t[i] <= t[j]})
  BY KeysFinite, FS_Subset
<1> QED
  BY <1>1, FS_CardinalityType

LEMMA TouchTicks ==
  ASSUME IndInv, NEW p \in Procs, NEW k \in Keys, Touch(p, k)
  PROVE  tick' \in [Procs -> [Keys -> Nat]]
<1>1. tick \in [Procs -> [Keys -> Nat]]
  BY Types DEF IndInv
<1>2. Ranked(Stamped(p, k), Held(p)) \in [Keys -> Nat]
  BY RankedTicks DEF Held
<1> QED
  BY <1>1, <1>2 DEF Touch

LEMMA ForgetTicks ==
  ASSUME IndInv, NEW p \in Procs, NEW k \in Keys, Forget(p, k)
  PROVE  tick' \in [Procs -> [Keys -> Nat]]
<1>1. tick \in [Procs -> [Keys -> Nat]]
  BY Types DEF IndInv
<1>2. Ranked(tick[p], Held(p) \ {k}) \in [Keys -> Nat]
  BY RankedTicks DEF Held
<1> QED
  BY <1>1, <1>2 DEF Forget

LEMMA RememberTicks ==
  ASSUME IndInv, NEW p \in Procs, NEW k \in Keys, NEW age, Remember(p, k, age)
  PROVE  tick' \in [Procs -> [Keys -> Nat]]
<1>1. tick \in [Procs -> [Keys -> Nat]]
  BY Types DEF IndInv
<1>2. PICK S \in SUBSET Keys : tick' = [tick EXCEPT ![p] = Ranked(Stamped(p, k), S)]
  BY DEF Remember, Held
<1>3. Ranked(Stamped(p, k), S) \in [Keys -> Nat]
  BY RankedTicks
<1> QED
  BY <1>1, <1>2, <1>3

\* The ages of the in-process cache after embeddingCache.set.
LEMMA RememberAges ==
  ASSUME IndInv, NEW p \in Procs, NEW k \in Keys, NEW age \in Ages,
         TTL > 0 => age <= TTL, Remember(p, k, age)
  PROVE  /\ known' \in [Procs -> [Keys -> Ages]]
         /\ kept' \in [Procs -> [Keys -> 0..(TTL + 1)]]
         /\ TTL > 0 => \A q \in Procs, j \in Keys : known'[q][j] <= kept'[q][j] + TTL
<1>1. known \in [Procs -> [Keys -> Ages]] /\ kept \in [Procs -> [Keys -> 0..(TTL + 1)]]
  BY Types DEF IndInv
<1>2. TTL > 0 => \A q \in Procs, j \in Keys : known[q][j] <= kept[q][j] + TTL
  BY DEF IndInv, AgeInv
<1>3. PICK gone :
        /\ known' = [known EXCEPT ![p] = [j \in Keys |->
             IF j \in gone THEN Absent ELSE IF j = k THEN age ELSE known[p][j]]]
        /\ kept' = [kept EXCEPT ![p] = [j \in Keys |->
             IF j \in gone \cup {k} THEN 0 ELSE kept[p][j]]]
  BY DEF Remember
<1>4. Absent \in Ages /\ 0 \in 0..(TTL + 1) /\ Absent <= TTL
  BY Numbers
<1>5. known' \in [Procs -> [Keys -> Ages]] /\ kept' \in [Procs -> [Keys -> 0..(TTL + 1)]]
  BY <1>1, <1>3, <1>4
<1>6. ASSUME TTL > 0, NEW q \in Procs, NEW j \in Keys PROVE known'[q][j] <= kept'[q][j] + TTL
  <2>1. CASE q # p
    BY <2>1, <1>1, <1>2, <1>3, <1>6
  <2>2. CASE q = p /\ j \in gone
    <3>1. known'[q][j] = Absent /\ kept'[q][j] = 0
      BY <2>2, <1>1, <1>3
    <3> QED
      BY <3>1, <1>4, Numbers
  <2>3. CASE q = p /\ j \notin gone /\ j = k
    <3>1. known'[q][j] = age /\ kept'[q][j] = 0
      BY <2>3, <1>1, <1>3
    <3> QED
      BY <3>1, <1>6, Numbers
  <2>4. CASE q = p /\ j \notin gone /\ j # k
    <3>1. known'[q][j] = known[q][j] /\ kept'[q][j] = kept[q][j]
      BY <2>4, <1>1, <1>3
    <3> QED
      BY <3>1, <1>2, <1>6
  <2> QED
    BY <2>1, <2>2, <2>3, <2>4
<1> QED
  BY <1>5, <1>6

-----------------------------------------------------------------------------
(* One lemma per action.                                                   *)

LEMMA CallInd ==
  ASSUME IndInv, NEW c \in Callers, NEW ks \in SUBSET Keys, Call(c, ks)
  PROVE  IndInv'
<1>1. /\ known' = known /\ kept' = kept /\ tick' = tick /\ file' = file /\ used' = used
      /\ refusal' = refusal /\ timedOut' = timedOut /\ missing' = missing
      /\ vectors' = vectors /\ at' = at /\ held' = held /\ cause' = cause
      /\ UNCHANGED flightVars
  BY DEF Call, cacheVars, memoryVars, fileVars, refusalVars
<1>2. /\ pc[c] = "idle" /\ pc' = [pc EXCEPT ![c] = "check"]
      /\ inputs' = [inputs EXCEPT ![c] = ks] /\ todo' = [todo EXCEPT ![c] = ks]
      /\ result' = [result EXCEPT ![c] = "none"]
      /\ calls' = [calls EXCEPT ![c] = @ + 1]
  BY DEF Call
<1>3. pc \in [Callers -> PCs] /\ inputs \in [Callers -> SUBSET Keys] /\ todo \in [Callers -> SUBSET Keys]
  BY Types DEF IndInv
<1>4. TypeOK'
  <2>1. calls' \in [Callers -> Nat]
    <3>1. calls \in [Callers -> Nat]
      BY Types DEF IndInv
    <3> QED
      BY <1>2, <3>1
  <2>2. pc' \in [Callers -> PCs] /\ inputs' \in [Callers -> SUBSET Keys] /\ todo' \in [Callers -> SUBSET Keys]
    BY <1>2, <1>3 DEF PCs
  <2>3. result' \in [Callers -> {"none", "vectors", "refused", "error"}]
    BY <1>2 DEF IndInv, TypeOK
  <2> QED
    BY <2>1, <2>2, <2>3, <1>1 DEF IndInv, TypeOK, flightVars
<1>5. FlightInv'
  BY <1>1, <1>2, <1>3, FlightFrame
<1>6. AgeInv'
  BY <1>1, <1>2, <1>3 DEF IndInv, AgeInv
<1>7. CompleteInv'
  BY <1>1, <1>2, <1>3 DEF IndInv, CompleteInv, Checking, Found
<1> QED
  BY <1>4, <1>5, <1>6, <1>7 DEF IndInv

LEMMA LookUpInd ==
  ASSUME IndInv, NEW c \in Callers, NEW k \in Keys, LookUp(c, k)
  PROVE  IndInv'
<1>1. /\ file' = file /\ used' = used /\ refusal' = refusal /\ timedOut' = timedOut
      /\ pc' = pc /\ missing' = missing /\ held' = held /\ inputs' = inputs
      /\ cause' = cause /\ result' = result /\ calls' = calls /\ UNCHANGED flightVars
      /\ Checking(c) /\ at[c] = NoKey /\ k \in todo[c]
  BY DEF LookUp, fileVars, refusalVars, callVars
<1>2. /\ known \in [Procs -> [Keys -> Ages]] /\ kept \in [Procs -> [Keys -> 0..(TTL + 1)]]
      /\ vectors \in [Callers -> [Keys -> Ages]] /\ todo \in [Callers -> SUBSET Keys]
      /\ at \in [Callers -> Keys \cup {NoKey}] /\ pc \in [Callers -> PCs]
      /\ Home[c] \in Procs
  BY Types, CacheConstants DEF IndInv
<1>3. CASE InMemory(Home[c], k)
  <2>1. /\ vectors' = [vectors EXCEPT ![c][k] = known[Home[c]][k]]
        /\ todo' = [todo EXCEPT ![c] = @ \ {k}]
        /\ known' = known /\ kept' = kept /\ at' = at
        /\ tick' \in [Procs -> [Keys -> Nat]]
    BY <1>2, <1>3, TouchTicks DEF LookUp, Touch
  <2>2. /\ known[Home[c]][k] # Absent /\ known[Home[c]][k] \in Ages
        /\ TTL > 0 => known[Home[c]][k] <= 2 * TTL
    <3>1. TTL > 0 =>
            known[Home[c]][k] <= kept[Home[c]][k] + TTL /\ kept[Home[c]][k] <= TTL
      BY <1>2, <1>3 DEF IndInv, AgeInv, InMemory
    <3>2. known[Home[c]][k] \in Ages /\ kept[Home[c]][k] \in 0..(TTL + 1)
      BY <1>2
    <3>3. known[Home[c]][k] # Absent
      BY <1>3 DEF InMemory
    <3> QED
      BY <3>1, <3>2, <3>3, Numbers
  <2>3. TypeOK'
    BY <1>1, <1>2, <2>1, <2>2 DEF IndInv, TypeOK, flightVars
  <2>4. FlightInv'
    BY <1>1, <1>2, <2>1, FlightFrame DEF Checking
  <2>5. AgeInv'
    BY <1>1, <1>2, <2>1, <2>2 DEF IndInv, AgeInv
  <2>6. CompleteInv'
    <3>1. \A d \in Callers : d # c => todo'[d] = todo[d] /\ vectors'[d] = vectors[d]
      BY <1>2, <2>1
    <3>2. todo'[c] = todo[c] \ {k} /\ vectors'[c][k] # Absent
          /\ \A j \in Keys : j # k => vectors'[c][j] = vectors[c][j]
      BY <1>2, <2>1, <2>2
    <3> QED
      BY <1>1, <2>1, <3>1, <3>2 DEF IndInv, CompleteInv, Checking, Found
  <2> QED
    BY <2>3, <2>4, <2>5, <2>6 DEF IndInv
<1>4. CASE ~InMemory(Home[c], k)
  <2>1. /\ at' = [at EXCEPT ![c] = k] /\ vectors' = vectors /\ todo' = todo
        /\ known' = [known EXCEPT ![Home[c]][k] = Absent]
        /\ kept' = [kept EXCEPT ![Home[c]][k] = 0]
        /\ tick' \in [Procs -> [Keys -> Nat]]
    BY <1>2, <1>4, ForgetTicks DEF LookUp, Forget
  <2>2. Absent \in Ages /\ 0 \in 0..(TTL + 1) /\ Absent <= TTL
    BY Numbers
  <2>3. TypeOK'
    BY <1>1, <1>2, <2>1, <2>2 DEF IndInv, TypeOK, flightVars
  <2>4. FlightInv'
    BY <1>1, <2>1, FlightFrame
  <2>5. AgeInv'
    <3>1. ASSUME TTL > 0, NEW p \in Procs, NEW j \in Keys
          PROVE  known'[p][j] <= kept'[p][j] + TTL
      <4>1. CASE p = Home[c] /\ j = k
        <5>1. known'[p][j] = Absent /\ kept'[p][j] = 0
          BY <4>1, <1>2, <2>1
        <5> QED
          BY <5>1, Numbers
      <4>2. CASE ~(p = Home[c] /\ j = k)
        <5>1. known'[p][j] = known[p][j] /\ kept'[p][j] = kept[p][j]
          BY <4>2, <1>2, <2>1
        <5> QED
          BY <3>1, <5>1 DEF IndInv, AgeInv
      <4> QED
        BY <4>1, <4>2
    <3> QED
      BY <1>1, <2>1, <3>1 DEF IndInv, AgeInv
  <2>6. CompleteInv'
    BY <1>1, <1>2, <2>1, CacheConstants DEF IndInv, CompleteInv, Checking, Found
  <2> QED
    BY <2>3, <2>4, <2>5, <2>6 DEF IndInv
<1> QED
  BY <1>3, <1>4

LEMMA ReadFileInd ==
  ASSUME IndInv, NEW c \in Callers, ReadFile(c)
  PROVE  IndInv'
<1>1. /\ known' = known /\ kept' = kept /\ tick' = tick /\ file' = file /\ refusal' = refusal
      /\ timedOut' = timedOut /\ pc' = pc /\ vectors' = vectors /\ inputs' = inputs
      /\ cause' = cause /\ result' = result /\ calls' = calls /\ UNCHANGED flightVars
      /\ Checking(c) /\ at[c] # NoKey /\ held[c] = Absent
  BY DEF ReadFile, memoryVars, refusalVars, callVars
<1>2. /\ file \in [Keys -> Ages] /\ used \in [Keys -> 0..(TTL + 1)]
      /\ todo \in [Callers -> SUBSET Keys] /\ missing \in [Callers -> SUBSET Keys]
      /\ at \in [Callers -> Keys \cup {NoKey}] /\ held \in [Callers -> Ages]
      /\ pc \in [Callers -> PCs]
  BY Types DEF IndInv
<1>3. at[c] \in Keys
  BY <1>1, <1>2
<1>4. CASE Valid(at[c])
  <2>1. /\ held' = [held EXCEPT ![c] = file[at[c]]] /\ used' = [used EXCEPT ![at[c]] = 0]
        /\ todo' = todo /\ missing' = missing /\ at' = at
    BY <1>4 DEF ReadFile
  <2>2. file[at[c]] \in Ages /\ (TTL > 0 => file[at[c]] <= TTL) /\ 0 \in 0..(TTL + 1)
    BY <1>2, <1>3, <1>4, Numbers DEF Valid
  <2>3. TypeOK'
    BY <1>1, <1>2, <2>1, <2>2 DEF IndInv, TypeOK, flightVars
  <2>4. FlightInv'
    BY <1>1, <2>1, FlightFrame
  <2>5. AgeInv'
    BY <1>1, <1>2, <2>1, <2>2 DEF IndInv, AgeInv
  <2>6. CompleteInv'
    BY <1>1, <1>2, <2>1 DEF IndInv, CompleteInv, Checking, Found
  <2> QED
    BY <2>3, <2>4, <2>5, <2>6 DEF IndInv
<1>5. CASE ~Valid(at[c])
  <2>1. /\ missing' = [missing EXCEPT ![c] = @ \cup {at[c]}]
        /\ todo' = [todo EXCEPT ![c] = @ \ {at[c]}]
        /\ at' = [at EXCEPT ![c] = NoKey] /\ held' = held /\ used' = used
    BY <1>5 DEF ReadFile
  <2>2. TypeOK'
    BY <1>1, <1>2, <1>3, <2>1 DEF IndInv, TypeOK, flightVars
  <2>3. FlightInv'
    BY <1>1, <1>2, <2>1, FlightFrame DEF Checking
  <2>4. AgeInv'
    BY <1>1, <2>1 DEF IndInv, AgeInv
  <2>5. CompleteInv'
    <3>1. \A d \in Callers : d # c =>
            todo'[d] = todo[d] /\ missing'[d] = missing[d] /\ at'[d] = at[d]
      BY <1>2, <2>1
    <3>2. todo'[c] = todo[c] \ {at[c]} /\ missing'[c] = missing[c] \cup {at[c]}
      BY <1>2, <2>1
    <3>3. held'[c] = Absent /\ held' = held
      BY <1>1, <2>1
    <3>4. pc[c] \in {"check", "recheck"}
      BY <1>1 DEF Checking
    <3> QED
      BY <1>1, <3>1, <3>2, <3>3, <3>4 DEF IndInv, CompleteInv, Checking, Found
  <2> QED
    BY <2>2, <2>3, <2>4, <2>5 DEF IndInv
<1> QED
  BY <1>4, <1>5

LEMMA KeepInd ==
  ASSUME IndInv, NEW c \in Callers, Keep(c)
  PROVE  IndInv'
<1>1. /\ file' = file /\ used' = used /\ refusal' = refusal /\ timedOut' = timedOut
      /\ pc' = pc /\ missing' = missing /\ inputs' = inputs
      /\ cause' = cause /\ result' = result /\ calls' = calls /\ UNCHANGED flightVars
      /\ Checking(c) /\ at[c] # NoKey /\ held[c] # Absent
      /\ Remember(Home[c], at[c], held[c])
      /\ vectors' = [vectors EXCEPT ![c][at[c]] = held[c]]
      /\ todo' = [todo EXCEPT ![c] = @ \ {at[c]}]
      /\ at' = [at EXCEPT ![c] = NoKey] /\ held' = [held EXCEPT ![c] = Absent]
  BY DEF Keep, fileVars, refusalVars, callVars
<1>2. /\ vectors \in [Callers -> [Keys -> Ages]] /\ todo \in [Callers -> SUBSET Keys]
      /\ at \in [Callers -> Keys \cup {NoKey}] /\ held \in [Callers -> Ages]
      /\ pc \in [Callers -> PCs] /\ Home[c] \in Procs
  BY Types, CacheConstants DEF IndInv
<1>3. at[c] \in Keys /\ held[c] \in Ages /\ (TTL > 0 => held[c] <= TTL) /\ Absent \in Ages /\ Absent <= TTL
  <2>1. at[c] \in Keys
    BY <1>1, <1>2
  <2>2. held[c] \in Ages /\ (TTL > 0 => held[c] <= TTL)
    BY <1>2 DEF IndInv, AgeInv
  <2>3. Absent \in Ages /\ Absent <= TTL
    BY Numbers
  <2> QED
    BY <2>1, <2>2, <2>3
<1>4. /\ known' \in [Procs -> [Keys -> Ages]] /\ kept' \in [Procs -> [Keys -> 0..(TTL + 1)]]
      /\ tick' \in [Procs -> [Keys -> Nat]]
      /\ TTL > 0 => \A p \in Procs, k \in Keys : known'[p][k] <= kept'[p][k] + TTL
  BY <1>1, <1>2, <1>3, RememberAges, RememberTicks
<1>5. TypeOK'
  BY <1>1, <1>2, <1>3, <1>4 DEF IndInv, TypeOK, flightVars
<1>6. FlightInv'
  BY <1>1, <1>2, FlightFrame DEF Checking
<1>7. TTL > 0 => held[c] <= 2 * TTL
  <2>1. held[c] \in Int /\ (TTL > 0 => held[c] <= TTL) /\ TTL \in Nat
    BY <1>3, Numbers
  <2> QED
    BY <2>1
<1>8. AgeInv'
  <2>1. TTL > 0 => \A d \in Callers : held'[d] <= TTL
    BY <1>1, <1>2, <1>3 DEF IndInv, AgeInv
  <2>2. TTL > 0 =>
          \A d \in Callers, k \in Keys : cause'[d] = "" => vectors'[d][k] <= 2 * TTL
    BY <1>1, <1>2, <1>3, <1>7 DEF IndInv, AgeInv
  <2> QED
    BY <1>1, <1>4, <2>1, <2>2 DEF IndInv, AgeInv
<1>9. CompleteInv'
  <2>1. \A d \in Callers : d # c => todo'[d] = todo[d] /\ vectors'[d] = vectors[d]
          /\ at'[d] = at[d] /\ held'[d] = held[d]
    BY <1>1, <1>2
  <2>2. /\ todo'[c] = todo[c] \ {at[c]} /\ vectors'[c][at[c]] # Absent /\ held'[c] = Absent
        /\ \A j \in Keys : j # at[c] => vectors'[c][j] = vectors[c][j]
    BY <1>1, <1>2, <1>3
  <2>3. pc[c] \in {"check", "recheck"}
    BY <1>1 DEF Checking
  <2> QED
    BY <1>1, <1>2, <1>3, <2>1, <2>2, <2>3 DEF IndInv, CompleteInv, Checking, Found
<1> QED
  BY <1>5, <1>6, <1>8, <1>9 DEF IndInv

\* The frame of the steps that only move one call on to its next loop.
LEMMA ContinueRest ==
  ASSUME IndInv, NEW c \in Callers, NEW next \in PCs \ {"idle", "check", "written", "prune", "stale"},
         NEW ks \in SUBSET Keys, Continue(c, next, ks),
         missing' \in [Callers -> SUBSET Keys],
         \A d \in Callers \ {c} : missing'[d] = missing[d],
         next = "recheck" => inputs[c] \subseteq ks,
         next \in {"refused", "fetch"} => inputs[c] \subseteq missing'[c] \cup Found(c),
         next = "store" => inputs[c] \subseteq ks \cup Found(c),
         known' = known, kept' = kept, tick' = tick, file' = file, used' = used,
         refusal' \in [Keys -> -1..(NegTTL + 1)], timedOut' \in SUBSET Keys
  PROVE  /\ pc' \in [Callers -> PCs] /\ todo' \in [Callers -> SUBSET Keys]
         /\ pc'[c] = next /\ todo'[c] = ks
         /\ \A d \in Callers \ {c} : pc'[d] = pc[d] /\ todo'[d] = todo[d]
         /\ AgeInv' /\ CompleteInv'
         /\ waiters' \in [Procs -> SUBSET Keys] /\ owned' \in [Callers -> SUBSET Keys]
              /\ parked' \in [Callers -> Keys \cup {NoKey}] => TypeOK'
<1>1. /\ pc' = [pc EXCEPT ![c] = next] /\ todo' = [todo EXCEPT ![c] = ks]
      /\ vectors' = vectors /\ at' = at /\ held' = held /\ inputs' = inputs
      /\ cause' = cause /\ result' = result /\ calls' = calls
  BY DEF Continue, callVars
<1>2. pc \in [Callers -> PCs] /\ todo \in [Callers -> SUBSET Keys]
  BY Types DEF IndInv
<1>3. /\ pc' \in [Callers -> PCs] /\ todo' \in [Callers -> SUBSET Keys]
      /\ pc'[c] = next /\ todo'[c] = ks
      /\ \A d \in Callers \ {c} : pc'[d] = pc[d] /\ todo'[d] = todo[d]
  BY <1>1, <1>2
<1>4. AgeInv'
  BY <1>1, <1>3 DEF IndInv, AgeInv
<1>5. CompleteInv'
  BY <1>1, <1>3 DEF IndInv, CompleteInv, Checking, Found
<1>6. ASSUME waiters' \in [Procs -> SUBSET Keys], owned' \in [Callers -> SUBSET Keys],
             parked' \in [Callers -> Keys \cup {NoKey}]
      PROVE  TypeOK'
  BY <1>1, <1>3, <1>6 DEF IndInv, TypeOK
<1> QED
  BY <1>3, <1>4, <1>5, <1>6

LEMMA CheckedInd ==
  ASSUME IndInv, NEW c \in Callers, Checked(c)
  PROVE  IndInv'
<1>1. CASE missing[c] = {}
  BY <1>1, ReturnOnly DEF Checked
<1>2. CASE missing[c] # {}
  <2>1. /\ pc[c] = "check" /\ Continue(c, "lock", missing[c])
        /\ UNCHANGED flightVars /\ missing' = missing
        /\ known' = known /\ kept' = kept /\ tick' = tick /\ file' = file /\ used' = used
        /\ refusal' = refusal /\ timedOut' = timedOut
    BY <1>2 DEF Checked, cacheVars, memoryVars, fileVars, refusalVars
  <2>2. /\ missing \in [Callers -> SUBSET Keys] /\ refusal \in [Keys -> -1..(NegTTL + 1)]
        /\ timedOut \in SUBSET Keys /\ waiters \in [Procs -> SUBSET Keys]
        /\ owned \in [Callers -> SUBSET Keys] /\ parked \in [Callers -> Keys \cup {NoKey}]
    BY Types DEF IndInv
  <2>3. missing[c] \in SUBSET Keys /\ "lock" \in PCs \ {"idle", "check", "written", "prune", "stale"}
    BY <2>2 DEF PCs
  <2>4. /\ AgeInv' /\ CompleteInv' /\ TypeOK'
        /\ pc'[c] = "lock" /\ todo'[c] = missing[c]
        /\ \A d \in Callers \ {c} : pc'[d] = pc[d] /\ todo'[d] = todo[d]
    BY <2>1, <2>2, <2>3, ContinueRest DEF flightVars
  <2>5. owned[c] = {}
    BY <2>1 DEF IndInv, FlightInv
  <2>6. LockOrder'
    BY <2>1, <2>4, <2>5 DEF IndInv, FlightInv, LockOrder, flightVars
  <2>7. FlightInv'
    BY <2>1, <2>4, <2>6 DEF IndInv, FlightInv, flightVars
  <2> QED
    BY <2>4, <2>7 DEF IndInv
<1> QED
  BY <1>1, <1>2

LEMMA RecheckedInd ==
  ASSUME IndInv, NEW c \in Callers, Rechecked(c)
  PROVE  IndInv'
<1>1. CASE missing[c] = {}
  BY <1>1, ReturnOnly DEF Rechecked
<1>2. CASE missing[c] # {}
  <2>1. /\ pc[c] = "recheck" /\ todo[c] = {} /\ Continue(c, "refused", missing[c])
        /\ UNCHANGED flightVars /\ missing' = missing
        /\ known' = known /\ kept' = kept /\ tick' = tick /\ file' = file /\ used' = used
        /\ refusal' = refusal /\ timedOut' = timedOut
    BY <1>2 DEF Rechecked, cacheVars, memoryVars, fileVars, refusalVars
  <2>2. /\ missing \in [Callers -> SUBSET Keys] /\ refusal \in [Keys -> -1..(NegTTL + 1)]
        /\ timedOut \in SUBSET Keys /\ waiters \in [Procs -> SUBSET Keys]
        /\ owned \in [Callers -> SUBSET Keys] /\ parked \in [Callers -> Keys \cup {NoKey}]
    BY Types DEF IndInv
  <2>3. missing[c] \in SUBSET Keys /\ "refused" \in PCs \ {"idle", "check", "written", "prune", "stale"}
    BY <2>2 DEF PCs
  <2>4. inputs[c] \subseteq missing[c] \cup Found(c)
    BY <2>1 DEF IndInv, CompleteInv, Checking
  <2>5. /\ AgeInv' /\ CompleteInv' /\ TypeOK'
        /\ pc'[c] = "refused"
        /\ \A d \in Callers \ {c} : pc'[d] = pc[d] /\ todo'[d] = todo[d]
    BY <2>1, <2>2, <2>3, <2>4, ContinueRest DEF flightVars
  <2>6. FlightInv'
    BY <2>1, <2>5, FlightFrame
  <2> QED
    BY <2>5, <2>6 DEF IndInv
<1> QED
  BY <1>1, <1>2

LEMMA LockInd ==
  ASSUME IndInv, NEW c \in Callers, NEW k \in Keys, Lock(c, k)
  PROVE  IndInv'
<1>1. /\ known' = known /\ kept' = kept /\ tick' = tick /\ file' = file /\ used' = used
      /\ refusal' = refusal /\ timedOut' = timedOut
      /\ pc[c] = "lock" /\ parked[c] = NoKey /\ k \in todo[c] /\ \A j \in todo[c] : k <= j
  BY DEF Lock, NextKey, cacheVars, memoryVars, fileVars, refusalVars
<1>2. /\ missing \in [Callers -> SUBSET Keys] /\ refusal \in [Keys -> -1..(NegTTL + 1)]
      /\ timedOut \in SUBSET Keys /\ waiters \in [Procs -> SUBSET Keys]
      /\ owned \in [Callers -> SUBSET Keys] /\ parked \in [Callers -> Keys \cup {NoKey}]
      /\ todo \in [Callers -> SUBSET Keys] /\ inputs \in [Callers -> SUBSET Keys]
      /\ Home \in [Callers -> Procs] /\ Keys \subseteq Int /\ NoKey \notin Keys
  BY Types, CacheConstants DEF IndInv
<1>3. LockOrder /\ \A d \in Callers : pc[d] \in {"idle", "check"} => owned[d] = {}
  BY DEF IndInv, FlightInv
<1>4. CASE k \in waiters[Home[c]]
  <2>1. /\ parked' = [parked EXCEPT ![c] = k] /\ waiters' = waiters /\ owned' = owned
        /\ pc' = pc /\ todo' = todo /\ missing' = missing /\ vectors' = vectors
        /\ at' = at /\ held' = held /\ inputs' = inputs /\ cause' = cause
        /\ result' = result /\ calls' = calls
    BY <1>4 DEF Lock, loopVars, callVars
  <2>2. TypeOK'
    BY <1>1, <1>2, <2>1 DEF IndInv, TypeOK
  <2>3. PICK d \in Callers : Home[d] = Home[c] /\ k \in owned[d]
    BY <1>2, <1>3, <1>4 DEF LockOrder
  <2>4. d # c
    BY <1>1, <1>2, <1>3, <2>3 DEF LockOrder
  <2>5. FlightInv'
    BY <1>1, <1>2, <1>3, <2>1, <2>3, <2>4 DEF FlightInv, LockOrder
  <2>6. AgeInv' /\ CompleteInv'
    BY <1>1, <2>1 DEF IndInv, AgeInv, CompleteInv, Checking, Found
  <2> QED
    BY <2>2, <2>5, <2>6 DEF IndInv
<1>5. CASE k \notin waiters[Home[c]]
  <2>1. /\ waiters' = [waiters EXCEPT ![Home[c]] = @ \cup {k}]
        /\ owned' = [owned EXCEPT ![c] = @ \cup {k}] /\ parked' = parked
    BY <1>5 DEF Lock
  <2>2. waiters' \in [Procs -> SUBSET Keys] /\ owned' \in [Callers -> SUBSET Keys]
        /\ parked' \in [Callers -> Keys \cup {NoKey}]
    BY <1>2, <2>1
  <2>3. /\ AgeInv' /\ CompleteInv' /\ TypeOK'
        /\ \A d \in Callers \ {c} : pc'[d] = pc[d] /\ todo'[d] = todo[d]
        /\ pc'[c] = "recheck" \/ (pc'[c] = "lock" /\ todo'[c] = todo[c] \ {k})
    <3>1. CASE todo[c] = {k}
      <4>1. Continue(c, "recheck", inputs[c]) /\ missing' = [missing EXCEPT ![c] = {}]
        BY <1>5, <3>1 DEF Lock
      <4>2. /\ "recheck" \in PCs \ {"idle", "check", "written", "prune", "stale"}
            /\ inputs[c] \in SUBSET Keys /\ missing' \in [Callers -> SUBSET Keys]
            /\ \A d \in Callers \ {c} : missing'[d] = missing[d]
        BY <1>2, <4>1 DEF PCs
      <4> QED
        BY <1>1, <1>2, <2>2, <4>1, <4>2, ContinueRest, SMTT(30)
    <3>2. CASE todo[c] # {k}
      <4>1. Continue(c, "lock", todo[c] \ {k}) /\ missing' = missing
        BY <1>5, <3>2 DEF Lock
      <4>2. "lock" \in PCs \ {"idle", "check", "written", "prune", "stale"} /\ todo[c] \ {k} \in SUBSET Keys
        BY <1>2 DEF PCs
      <4> QED
        BY <1>1, <1>2, <2>2, <4>1, <4>2, ContinueRest
    <3> QED
      BY <3>1, <3>2
  <2>4. /\ owned'[c] = owned[c] \cup {k}
        /\ \A d \in Callers \ {c} : owned'[d] = owned[d]
        /\ \A d \in Callers \ {c} : Home[d] = Home[c] => k \notin owned[d]
    BY <1>2, <1>3, <1>5, <2>1 DEF LockOrder
  <2>5. \A d \in Callers : pc'[d] = "lock" => \A i \in owned'[d], j \in todo'[d] : i < j
    <3>1. \A j \in todo[c] \ {k} : k < j
      BY <1>1, <1>2
    <3> QED
      BY <1>1, <1>3, <2>3, <2>4, <3>1 DEF LockOrder
  <2>6. \A d \in Callers : parked'[d] # NoKey =>
          /\ pc'[d] = "lock" /\ parked'[d] \in todo'[d]
          /\ \E e \in Callers \ {d} : Home[e] = Home[d] /\ parked'[d] \in owned'[e]
    BY <1>1, <1>3, <2>1, <2>3, <2>4 DEF LockOrder
  <2>7. \A d, e \in Callers : d # e /\ Home[d] = Home[e] => owned'[d] \cap owned'[e] = {}
    BY <1>3, <2>4 DEF LockOrder
  <2>8. \A p \in Procs : waiters'[p] = UNION {owned'[d] : d \in {e \in Callers : Home[e] = p}}
    <3> TAKE p \in Procs
    <3>1. waiters[p] = UNION {owned[d] : d \in {e \in Callers : Home[e] = p}}
      BY <1>3 DEF LockOrder
    <3>2. CASE p = Home[c]
      <4>1. waiters'[p] = waiters[p] \cup {k}
        BY <3>2, <1>2, <2>1
      <4> QED
        BY <3>1, <3>2, <4>1, <2>4
    <3>3. CASE p # Home[c]
      <4>1. waiters'[p] = waiters[p]
        BY <3>3, <1>2, <2>1
      <4>2. \A d \in {e \in Callers : Home[e] = p} : owned'[d] = owned[d]
        BY <3>3, <2>4
      <4> QED
        BY <3>1, <4>1, <4>2
    <3> QED
      BY <3>2, <3>3
  <2>9. \A d \in Callers : pc'[d] \in {"idle", "check"} => owned'[d] = {}
    BY <1>3, <2>3, <2>4
  <2>10. FlightInv'
    BY <2>5, <2>6, <2>7, <2>8, <2>9 DEF FlightInv, LockOrder
  <2> QED
    BY <2>3, <2>10 DEF IndInv
<1> QED
  BY <1>4, <1>5

LEMMA CheckRefusalInd ==
  ASSUME IndInv, NEW c \in Callers, NEW k \in Keys, CheckRefusal(c, k)
  PROVE  IndInv'
<1>1. /\ known' = known /\ kept' = kept /\ tick' = tick /\ file' = file /\ used' = used
      /\ pc[c] = "refused" /\ k \in todo[c]
  BY DEF CheckRefusal, memoryVars, fileVars
<1>2. CASE NegTTL > 0 /\ refusal[k] # Absent /\ refusal[k] <= NegTTL
  BY <1>1, <1>2, ReturnOnly DEF CheckRefusal, cacheVars, memoryVars, fileVars
<1>3. CASE ~(NegTTL > 0 /\ refusal[k] # Absent /\ refusal[k] <= NegTTL)
  <2> DEFINE next == IF todo[c] = {k} THEN "fetch" ELSE "refused"
  <2>1. /\ \/ refusal' = [refusal EXCEPT ![k] = Absent] /\ timedOut' = timedOut \ {k}
           \/ refusal' = refusal /\ timedOut' = timedOut
        /\ Continue(c, next, todo[c] \ {k}) /\ UNCHANGED flightVars /\ missing' = missing
    BY <1>3 DEF CheckRefusal, refusalVars
  <2>2. /\ missing \in [Callers -> SUBSET Keys] /\ refusal \in [Keys -> -1..(NegTTL + 1)]
        /\ timedOut \in SUBSET Keys /\ waiters \in [Procs -> SUBSET Keys]
        /\ owned \in [Callers -> SUBSET Keys] /\ parked \in [Callers -> Keys \cup {NoKey}]
        /\ todo \in [Callers -> SUBSET Keys]
    BY Types DEF IndInv
  <2>3. Absent \in -1..(NegTTL + 1)
    BY Numbers
  <2>4. refusal' \in [Keys -> -1..(NegTTL + 1)] /\ timedOut' \in SUBSET Keys
    BY <2>1, <2>2, <2>3
  <2>5. /\ next \in PCs \ {"idle", "check", "written", "prune", "stale"}
        /\ next \notin {"recheck", "store", "lock", "idle", "check"}
        /\ todo[c] \ {k} \in SUBSET Keys
    BY <2>2 DEF PCs
  <2>6. inputs[c] \subseteq missing[c] \cup Found(c)
    BY <1>1 DEF IndInv, CompleteInv
  <2>7. /\ AgeInv' /\ CompleteInv' /\ TypeOK' /\ pc'[c] = next
        /\ \A d \in Callers \ {c} : pc'[d] = pc[d] /\ todo'[d] = todo[d]
    <3> HIDE DEF next
    <3> QED
      BY <1>1, <2>1, <2>2, <2>4, <2>5, <2>6, ContinueRest DEF flightVars
  <2>8. FlightInv'
    BY <1>1, <2>1, <2>5, <2>7, FlightFrame
  <2> QED
    BY <2>7, <2>8 DEF IndInv
<1> QED
  BY <1>2, <1>3

LEMMA AnswerInd ==
  ASSUME IndInv, NEW c \in Callers, Answer(c)
  PROVE  IndInv'
<1>1. /\ known' = known /\ kept' = kept /\ tick' = tick /\ file' = file /\ used' = used
      /\ refusal' = refusal /\ timedOut' = timedOut /\ missing' = missing
      /\ pc[c] = "fetch" /\ Continue(c, "store", missing[c]) /\ UNCHANGED flightVars
  BY DEF Answer, cacheVars, memoryVars, fileVars, refusalVars
<1>2. /\ missing \in [Callers -> SUBSET Keys] /\ refusal \in [Keys -> -1..(NegTTL + 1)]
      /\ timedOut \in SUBSET Keys /\ waiters \in [Procs -> SUBSET Keys]
      /\ owned \in [Callers -> SUBSET Keys] /\ parked \in [Callers -> Keys \cup {NoKey}]
  BY Types DEF IndInv
<1>3. "store" \in PCs \ {"idle", "check", "written", "prune", "stale"} /\ missing[c] \in SUBSET Keys
      /\ inputs[c] \subseteq missing[c] \cup Found(c)
  BY <1>1, <1>2 DEF IndInv, CompleteInv, PCs
<1>4. /\ AgeInv' /\ CompleteInv' /\ TypeOK' /\ pc'[c] = "store"
      /\ \A d \in Callers \ {c} : pc'[d] = pc[d] /\ todo'[d] = todo[d]
  BY <1>1, <1>2, <1>3, ContinueRest DEF flightVars
<1>5. FlightInv'
  BY <1>1, <1>4, FlightFrame
<1> QED
  BY <1>4, <1>5 DEF IndInv

LEMMA FailInd ==
  ASSUME IndInv, NEW c \in Callers, NEW why \in Causes, Fail(c, why)
  PROVE  IndInv'
<1>1. /\ known' = known /\ kept' = kept /\ tick' = tick /\ file' = file /\ used' = used
      /\ refusal' = refusal /\ timedOut' = timedOut /\ UNCHANGED flightVars
      /\ missing' = missing /\ vectors' = vectors /\ at' = at /\ held' = held
      /\ inputs' = inputs /\ result' = result /\ calls' = calls
      /\ pc[c] = "fetch" /\ cause' = [cause EXCEPT ![c] = why]
      /\ pc' = [pc EXCEPT ![c] = IF StaleIfError THEN "stale" ELSE "failed"]
      /\ todo' = [todo EXCEPT ![c] = missing[c]]
  BY DEF Fail, cacheVars, memoryVars, fileVars, refusalVars
<1>2. /\ missing \in [Callers -> SUBSET Keys] /\ cause \in [Callers -> Causes \cup {""}]
      /\ pc \in [Callers -> PCs] /\ todo \in [Callers -> SUBSET Keys]
  BY Types DEF IndInv
<1>3. /\ pc'[c] \in {"stale", "failed"} /\ cause'[c] # "" /\ todo'[c] = missing[c]
      /\ \A d \in Callers \ {c} : pc'[d] = pc[d] /\ todo'[d] = todo[d] /\ cause'[d] = cause[d]
  BY <1>1, <1>2 DEF Causes
<1>4. TypeOK'
  BY <1>1, <1>2 DEF IndInv, TypeOK, PCs, flightVars
<1>5. FlightInv'
  BY <1>1, <1>3, FlightFrame
<1>6. AgeInv'
  BY <1>1, <1>3 DEF IndInv, AgeInv
<1>7. CompleteInv'
  <2>1. CompleteInv /\ Found(c)' = Found(c)
    BY <1>1 DEF IndInv, Found
  <2>2. inputs[c] \subseteq todo'[c] \cup Found(c)
    BY <1>1, <1>3, <2>1 DEF CompleteInv
  <2>3. \A d \in Callers \ {c} : /\ Checking(d)' <=> Checking(d)
                                /\ Found(d)' = Found(d)
    BY <1>1, <1>3 DEF Checking, Found
  <2>4. ~Checking(c)' /\ pc'[c] \notin {"refused", "fetch", "written", "prune"}
    BY <1>3 DEF Checking
  <2>5. \A d \in Callers \ {c} :
          /\ Checking(d)' => inputs[d] \subseteq todo'[d] \cup missing[d] \cup Found(d)'
          /\ pc'[d] \in {"refused", "fetch"} => inputs[d] \subseteq missing[d] \cup Found(d)'
          /\ pc'[d] \in {"store", "written", "prune", "stale"} =>
               inputs[d] \subseteq todo'[d] \cup Found(d)'
          /\ pc'[d] \in {"written", "prune"} => at[d] # NoKey
    BY <1>3, <2>1, <2>3 DEF CompleteInv
  <2> QED
    BY <1>1, <2>1, <2>2, <2>4, <2>5 DEF CompleteInv
<1> QED
  BY <1>4, <1>5, <1>6, <1>7 DEF IndInv

LEMMA StoreInd ==
  ASSUME IndInv, NEW c \in Callers, NEW k \in Keys, Store(c, k)
  PROVE  IndInv'
<1>1. /\ file' = file /\ used' = used /\ refusal' = refusal /\ timedOut' = timedOut
      /\ UNCHANGED flightVars /\ pc' = pc /\ todo' = todo /\ missing' = missing
      /\ vectors' = vectors /\ held' = held /\ inputs' = inputs /\ cause' = cause
      /\ result' = result /\ calls' = calls
      /\ at' = [at EXCEPT ![c] = k] /\ Remember(Home[c], k, 0) /\ pc[c] = "store"
  BY DEF Store, fileVars, refusalVars, callVars
<1>2. Home[c] \in Procs /\ 0 \in Ages /\ (TTL > 0 => 0 <= TTL)
  BY CacheConstants, Numbers
<1>3. /\ known' \in [Procs -> [Keys -> Ages]] /\ kept' \in [Procs -> [Keys -> 0..(TTL + 1)]]
      /\ tick' \in [Procs -> [Keys -> Nat]]
      /\ TTL > 0 => \A p \in Procs, j \in Keys : known'[p][j] <= kept'[p][j] + TTL
  BY <1>1, <1>2, RememberAges, RememberTicks
<1>4. at \in [Callers -> Keys \cup {NoKey}] /\ NoKey \notin Keys
  BY Types, CacheConstants DEF IndInv
<1>5. TypeOK'
  BY <1>1, <1>3, <1>4 DEF IndInv, TypeOK, flightVars
<1>6. FlightInv'
  BY <1>1, FlightFrame
<1>7. AgeInv'
  BY <1>1, <1>3 DEF IndInv, AgeInv
<1>8. CompleteInv'
  BY <1>1, <1>4 DEF IndInv, CompleteInv, Checking, Found
<1> QED
  BY <1>5, <1>6, <1>7, <1>8 DEF IndInv

\* The call's vector for the key in hand is the fetched one.
LEMMA UseFetchedRest ==
  ASSUME IndInv, NEW c \in Callers, UseFetched(c), pc[c] \in {"store", "written", "prune"},
         at[c] \in Keys, known' = known, kept' = kept, tick' = tick, UNCHANGED flightVars,
         file' \in [Keys -> Ages], used' \in [Keys -> 0..(TTL + 1)],
         refusal' \in [Keys -> -1..(NegTTL + 1)], timedOut' \in SUBSET Keys
  PROVE  IndInv'
<1>1. /\ vectors' = [vectors EXCEPT ![c][at[c]] = 0]
      /\ todo' = [todo EXCEPT ![c] = @ \ {at[c]}] /\ at' = [at EXCEPT ![c] = NoKey]
      /\ pc' = [pc EXCEPT ![c] = "store"] /\ missing' = missing /\ held' = held
      /\ inputs' = inputs /\ cause' = cause /\ result' = result /\ calls' = calls
  BY DEF UseFetched, callVars
<1>2. /\ vectors \in [Callers -> [Keys -> Ages]] /\ todo \in [Callers -> SUBSET Keys]
      /\ at \in [Callers -> Keys \cup {NoKey}] /\ pc \in [Callers -> PCs]
  BY Types DEF IndInv
<1>3. 0 \in Ages /\ 0 # Absent /\ 0 <= 2 * TTL
  BY Numbers
<1>4. /\ vectors'[c][at[c]] = 0 /\ todo'[c] = todo[c] \ {at[c]} /\ pc'[c] = "store"
      /\ \A j \in Keys : j # at[c] => vectors'[c][j] = vectors[c][j]
      /\ \A d \in Callers \ {c} : /\ vectors'[d] = vectors[d] /\ todo'[d] = todo[d]
                                  /\ at'[d] = at[d] /\ pc'[d] = pc[d]
  BY <1>1, <1>2
<1>5. TypeOK'
  BY <1>1, <1>2, <1>3 DEF IndInv, TypeOK, PCs, flightVars
<1>6. FlightInv'
  BY <1>4, FlightFrame
<1>7. AgeInv'
  <2>1. ASSUME TTL > 0
        PROVE  \A d \in Callers, k \in Keys : cause'[d] = "" => vectors'[d][k] <= 2 * TTL
    <3>1. \A d \in Callers, k \in Keys : cause[d] = "" => vectors[d][k] <= 2 * TTL
      BY <2>1 DEF IndInv, AgeInv
    <3>2. \A d \in Callers \ {c}, k \in Keys : cause'[d] = "" => vectors'[d][k] <= 2 * TTL
      BY <1>1, <1>4, <3>1
    <3>3. \A k \in Keys : cause'[c] = "" => vectors'[c][k] <= 2 * TTL
      <4>1. \A k \in Keys : vectors'[c][k] = vectors[c][k] \/ vectors'[c][k] = 0
        BY <1>4
      <4> QED
        BY <1>1, <1>3, <3>1, <4>1
    <3> QED
      BY <3>2, <3>3
  <2> QED
    BY <1>1, <1>4, <2>1 DEF IndInv, AgeInv
<1>8. CompleteInv'
  BY <1>1, <1>3, <1>4 DEF IndInv, CompleteInv, Checking, Found
<1> QED
  BY <1>5, <1>6, <1>7, <1>8 DEF IndInv

LEMMA WriteFileInd ==
  ASSUME IndInv, NEW c \in Callers, WriteFile(c)
  PROVE  IndInv'
<1>1. /\ pc[c] = "store" /\ at[c] # NoKey /\ known' = known /\ kept' = kept /\ tick' = tick
      /\ refusal' = refusal /\ timedOut' = timedOut /\ UNCHANGED flightVars
  BY DEF WriteFile, memoryVars, refusalVars
<1>2. /\ file \in [Keys -> Ages] /\ used \in [Keys -> 0..(TTL + 1)]
      /\ refusal \in [Keys -> -1..(NegTTL + 1)] /\ timedOut \in SUBSET Keys
      /\ at \in [Callers -> Keys \cup {NoKey}] /\ pc \in [Callers -> PCs]
  BY Types DEF IndInv
<1>3. at[c] \in Keys /\ 0 \in Ages /\ 0 \in 0..(TTL + 1)
  BY <1>1, <1>2, Numbers
<1>4. CASE UseFetched(c) /\ UNCHANGED fileVars
  <2>1. file' = file /\ used' = used
    BY <1>4 DEF fileVars
  <2> QED
    BY <1>1, <1>2, <1>3, <1>4, <2>1, UseFetchedRest
<1>5. CASE /\ file' = [file EXCEPT ![at[c]] = 0] /\ used' = [used EXCEPT ![at[c]] = 0]
           /\ pc' = [pc EXCEPT ![c] = "written"] /\ UNCHANGED <<loopVars, callVars>>
  <2>1. /\ todo' = todo /\ missing' = missing /\ vectors' = vectors /\ at' = at /\ held' = held
        /\ inputs' = inputs /\ cause' = cause /\ result' = result /\ calls' = calls
    BY <1>5 DEF loopVars, callVars
  <2>2. pc'[c] = "written" /\ \A d \in Callers \ {c} : pc'[d] = pc[d]
    BY <1>2, <1>5
  <2>3. TypeOK'
    BY <1>1, <1>2, <1>3, <1>5, <2>1 DEF IndInv, TypeOK, PCs, flightVars
  <2>4. FlightInv'
    BY <1>1, <2>1, <2>2, FlightFrame
  <2>5. AgeInv'
    BY <1>1, <2>1, <2>2 DEF IndInv, AgeInv
  <2>6. CompleteInv'
    BY <1>1, <2>1, <2>2 DEF IndInv, CompleteInv, Checking, Found
  <2> QED
    BY <2>3, <2>4, <2>5, <2>6 DEF IndInv
<1> QED
  BY <1>4, <1>5 DEF WriteFile

LEMMA WrittenInd ==
  ASSUME IndInv, NEW c \in Callers, Written(c)
  PROVE  IndInv'
<1>1. /\ pc[c] = "written" /\ known' = known /\ kept' = kept /\ tick' = tick
      /\ file' = file /\ used' = used /\ UNCHANGED flightVars
      /\ refusal' = [refusal EXCEPT ![at[c]] = Absent]
      /\ timedOut' = timedOut \ {at[c]}
  BY DEF Written, memoryVars, fileVars
<1>2. /\ file \in [Keys -> Ages] /\ used \in [Keys -> 0..(TTL + 1)]
      /\ refusal \in [Keys -> -1..(NegTTL + 1)] /\ timedOut \in SUBSET Keys
      /\ at \in [Callers -> Keys \cup {NoKey}] /\ pc \in [Callers -> PCs]
  BY Types DEF IndInv
<1>3. at[c] \in Keys /\ Absent \in -1..(NegTTL + 1)
  BY <1>1, <1>2, Numbers DEF IndInv, CompleteInv
<1>4. refusal' \in [Keys -> -1..(NegTTL + 1)] /\ timedOut' \in SUBSET Keys
  BY <1>1, <1>2, <1>3
<1>5. CASE UseFetched(c)
  BY <1>1, <1>2, <1>3, <1>4, <1>5, UseFetchedRest
<1>6. CASE pc' = [pc EXCEPT ![c] = "prune"] /\ UNCHANGED <<loopVars, callVars>>
  <2>1. /\ todo' = todo /\ missing' = missing /\ vectors' = vectors /\ at' = at /\ held' = held
        /\ inputs' = inputs /\ cause' = cause /\ result' = result /\ calls' = calls
    BY <1>6 DEF loopVars, callVars
  <2>2. pc'[c] = "prune" /\ \A d \in Callers \ {c} : pc'[d] = pc[d]
    BY <1>2, <1>6
  <2>3. TypeOK'
    BY <1>1, <1>2, <1>4, <1>6, <2>1 DEF IndInv, TypeOK, PCs, flightVars
  <2>4. FlightInv'
    BY <1>1, <2>1, <2>2, FlightFrame
  <2>5. AgeInv'
    BY <1>1, <2>1, <2>2 DEF IndInv, AgeInv
  <2>6. CompleteInv'
    BY <1>1, <1>3, <2>1, <2>2 DEF IndInv, CompleteInv, Checking, Found
  <2> QED
    BY <2>3, <2>4, <2>5, <2>6 DEF IndInv
<1> QED
  BY <1>5, <1>6 DEF Written

LEMMA PrunedInd ==
  ASSUME IndInv, NEW c \in Callers, Pruned(c)
  PROVE  IndInv'
<1>1. /\ pc[c] = "prune" /\ UseFetched(c) /\ UNCHANGED flightVars
      /\ known' = known /\ kept' = kept /\ tick' = tick /\ file' = file /\ used' = used
      /\ refusal' = refusal /\ timedOut' = timedOut
  BY DEF Pruned, cacheVars, memoryVars, fileVars, refusalVars
<1>2. /\ file \in [Keys -> Ages] /\ used \in [Keys -> 0..(TTL + 1)]
      /\ refusal \in [Keys -> -1..(NegTTL + 1)] /\ timedOut \in SUBSET Keys
      /\ at \in [Callers -> Keys \cup {NoKey}]
  BY Types DEF IndInv
<1>3. at[c] \in Keys
  BY <1>1, <1>2 DEF IndInv, CompleteInv
<1> QED
  BY <1>1, <1>2, <1>3, UseFetchedRest

LEMMA StaleVectorInd ==
  ASSUME IndInv, NEW c \in Callers, NEW k \in Keys, StaleVector(c, k)
  PROVE  IndInv'
<1>1. /\ known' = known /\ kept' = kept /\ tick' = tick /\ file' = file /\ refusal' = refusal
      /\ timedOut' = timedOut /\ UNCHANGED flightVars /\ missing' = missing
      /\ at' = at /\ held' = held /\ inputs' = inputs /\ cause' = cause
      /\ result' = result /\ calls' = calls /\ pc[c] = "stale" /\ k \in todo[c]
  BY DEF StaleVector, memoryVars, refusalVars, callVars
<1>2. /\ file \in [Keys -> Ages] /\ used \in [Keys -> 0..(TTL + 1)]
      /\ vectors \in [Callers -> [Keys -> Ages]] /\ todo \in [Callers -> SUBSET Keys]
      /\ pc \in [Callers -> PCs]
  BY Types DEF IndInv
<1>3. CASE file[k] # Absent
  <2>1. /\ vectors' = [vectors EXCEPT ![c][k] = file[k]] /\ used' = [used EXCEPT ![k] = 0]
        /\ todo' = [todo EXCEPT ![c] = @ \ {k}] /\ pc' = pc
    BY <1>3 DEF StaleVector
  <2>2. 0 \in 0..(TTL + 1)
    BY Numbers
  <2>3. /\ vectors'[c][k] # Absent /\ todo'[c] = todo[c] \ {k}
        /\ \A j \in Keys : j # k => vectors'[c][j] = vectors[c][j]
        /\ \A d \in Callers \ {c} : vectors'[d] = vectors[d] /\ todo'[d] = todo[d]
    BY <1>2, <1>3, <2>1
  <2>4. TypeOK'
    BY <1>1, <1>2, <2>1, <2>2 DEF IndInv, TypeOK, flightVars
  <2>5. FlightInv'
    BY <1>1, <2>1, <2>3, FlightFrame
  <2>6. AgeInv'
    <3>1. TTL > 0 => cause[c] # ""
      BY <1>1 DEF IndInv, AgeInv
    <3> QED
      BY <1>1, <2>1, <2>3, <3>1 DEF IndInv, AgeInv
  <2>7. CompleteInv'
    BY <1>1, <2>1, <2>3 DEF IndInv, CompleteInv, Checking, Found
  <2> QED
    BY <2>4, <2>5, <2>6, <2>7 DEF IndInv
<1>4. CASE file[k] = Absent
  <2>1. /\ pc' = [pc EXCEPT ![c] = "failed"] /\ todo' = [todo EXCEPT ![c] = {}]
        /\ vectors' = vectors /\ used' = used
    BY <1>4 DEF StaleVector
  <2>2. pc'[c] = "failed" /\ \A d \in Callers \ {c} : pc'[d] = pc[d] /\ todo'[d] = todo[d]
    BY <1>2, <2>1
  <2>3. TypeOK'
    BY <1>1, <1>2, <2>1 DEF IndInv, TypeOK, PCs, flightVars
  <2>4. FlightInv'
    BY <1>1, <2>2, FlightFrame
  <2>5. AgeInv'
    BY <1>1, <2>1, <2>2 DEF IndInv, AgeInv
  <2>6. CompleteInv'
    BY <1>1, <2>1, <2>2 DEF IndInv, CompleteInv, Checking, Found
  <2> QED
    BY <2>3, <2>4, <2>5, <2>6 DEF IndInv
<1> QED
  BY <1>3, <1>4

LEMMA GiveUpInd ==
  ASSUME IndInv, NEW c \in Callers, GiveUp(c)
  PROVE  IndInv'
<1>1. pc[c] = "failed" /\ UNCHANGED cacheVars
  BY DEF GiveUp
<1>2. CASE Return(c, "error")
  BY <1>1, <1>2, ReturnOnly
<1>3. CASE Continue(c, "refuse", missing[c]) /\ UNCHANGED <<flightVars, missing>>
  <2>1. /\ known' = known /\ kept' = kept /\ tick' = tick /\ file' = file /\ used' = used
        /\ refusal' = refusal /\ timedOut' = timedOut
        /\ missing' = missing /\ UNCHANGED flightVars
    BY <1>1, <1>3 DEF cacheVars, memoryVars, fileVars, refusalVars
  <2>2. /\ missing \in [Callers -> SUBSET Keys] /\ refusal \in [Keys -> -1..(NegTTL + 1)]
        /\ timedOut \in SUBSET Keys /\ waiters \in [Procs -> SUBSET Keys]
        /\ owned \in [Callers -> SUBSET Keys] /\ parked \in [Callers -> Keys \cup {NoKey}]
    BY Types DEF IndInv
  <2>3. "refuse" \in PCs \ {"idle", "check", "written", "prune", "stale"} /\ missing[c] \in SUBSET Keys
    BY <2>2 DEF PCs
  <2>4. /\ AgeInv' /\ CompleteInv' /\ TypeOK' /\ pc'[c] = "refuse"
        /\ \A d \in Callers \ {c} : pc'[d] = pc[d] /\ todo'[d] = todo[d]
    BY <1>3, <2>1, <2>2, <2>3, ContinueRest DEF flightVars
  <2>5. FlightInv'
    BY <1>1, <2>1, <2>4, FlightFrame
  <2> QED
    BY <2>4, <2>5 DEF IndInv
<1> QED
  BY <1>2, <1>3 DEF GiveUp

LEMMA RefuseInd ==
  ASSUME IndInv, NEW c \in Callers, NEW k \in Keys, Refuse(c, k)
  PROVE  IndInv'
<1>1. /\ known' = known /\ kept' = kept /\ tick' = tick /\ file' = file /\ used' = used
      /\ UNCHANGED flightVars /\ missing' = missing /\ pc[c] = "refuse"
      /\ Continue(c, "refuse", todo[c] \ {k})
  BY DEF Refuse, memoryVars, fileVars
<1>2. /\ missing \in [Callers -> SUBSET Keys] /\ refusal \in [Keys -> -1..(NegTTL + 1)]
      /\ timedOut \in SUBSET Keys /\ waiters \in [Procs -> SUBSET Keys]
      /\ owned \in [Callers -> SUBSET Keys] /\ parked \in [Callers -> Keys \cup {NoKey}]
      /\ todo \in [Callers -> SUBSET Keys]
  BY Types DEF IndInv
<1>3. refusal' \in [Keys -> -1..(NegTTL + 1)] /\ timedOut' \in SUBSET Keys
  <2>1. 0 \in -1..(NegTTL + 1)
    BY Numbers
  <2> QED
    BY <1>2, <2>1 DEF Refuse, refusalVars
<1>4. "refuse" \in PCs \ {"idle", "check", "written", "prune", "stale"} /\ todo[c] \ {k} \in SUBSET Keys
  BY <1>2 DEF PCs
<1>5. /\ AgeInv' /\ CompleteInv' /\ TypeOK' /\ pc'[c] = "refuse"
      /\ \A d \in Callers \ {c} : pc'[d] = pc[d] /\ todo'[d] = todo[d]
  BY <1>1, <1>2, <1>3, <1>4, ContinueRest DEF flightVars
<1>6. FlightInv'
  BY <1>1, <1>5, FlightFrame
<1> QED
  BY <1>5, <1>6 DEF IndInv

LEMMA TickInd ==
  ASSUME IndInv, Tick
  PROVE  IndInv'
<1> DEFINE Older(a, bound) == IF a = Absent THEN a ELSE Saturate(a + 1, bound)
<1>1. /\ UNCHANGED <<tick, timedOut, flightVars, pc, loopVars, callVars>>
      /\ known' = [p \in Procs |-> [k \in Keys |-> Older(known[p][k], Cap)]]
      /\ kept' = [p \in Procs |-> [k \in Keys |->
           IF known[p][k] = Absent THEN 0 ELSE Older(kept[p][k], TTL + 1)]]
      /\ file' = [k \in Keys |-> Older(file[k], Cap)]
      /\ used' = [k \in Keys |-> IF file[k] = Absent THEN 0 ELSE Older(used[k], TTL + 1)]
      /\ refusal' = [k \in Keys |-> Older(refusal[k], NegTTL + 1)]
  BY DEF Tick
<1>2. /\ known \in [Procs -> [Keys -> Ages]] /\ kept \in [Procs -> [Keys -> 0..(TTL + 1)]]
      /\ file \in [Keys -> Ages] /\ used \in [Keys -> 0..(TTL + 1)]
      /\ refusal \in [Keys -> -1..(NegTTL + 1)]
  BY Types DEF IndInv
<1>3. \A a \in Ages : Older(a, Cap) \in Ages
  BY Numbers DEF Ages, Saturate
<1>4. \A a \in 0..(TTL + 1) : Older(a, TTL + 1) \in 0..(TTL + 1) /\ 0 \in 0..(TTL + 1)
  BY Numbers DEF Saturate
<1>5. \A a \in -1..(NegTTL + 1) : Older(a, NegTTL + 1) \in -1..(NegTTL + 1)
  BY Numbers DEF Saturate
<1>6. \A p \in Procs, k \in Keys :
        /\ known'[p][k] = Older(known[p][k], Cap)
        /\ kept'[p][k] = IF known[p][k] = Absent THEN 0 ELSE Older(kept[p][k], TTL + 1)
  BY <1>1
<1>7. TypeOK'
  <2>1. /\ known' \in [Procs -> [Keys -> Ages]] /\ kept' \in [Procs -> [Keys -> 0..(TTL + 1)]]
    <3> HIDE DEF Older
    <3> QED
      BY <1>1, <1>2, <1>3, <1>4
  <2>2. /\ file' \in [Keys -> Ages] /\ used' \in [Keys -> 0..(TTL + 1)]
        /\ refusal' \in [Keys -> -1..(NegTTL + 1)]
    <3> HIDE DEF Older
    <3> QED
      BY <1>1, <1>2, <1>3, <1>4, <1>5
  <2> QED
    BY <1>1, <2>1, <2>2 DEF IndInv, TypeOK, flightVars, loopVars, callVars
<1>8. FlightInv'
  BY <1>1, FlightFrame DEF loopVars
<1>9. AgeInv'
  <2>1. ASSUME TTL > 0, NEW p \in Procs, NEW k \in Keys
        PROVE  known'[p][k] <= kept'[p][k] + TTL
    <3>1. known[p][k] <= kept[p][k] + TTL
      BY <2>1 DEF IndInv, AgeInv
    <3>2. known[p][k] \in Ages /\ kept[p][k] \in 0..(TTL + 1)
      BY <1>2
    <3> QED
      BY <1>6, <3>1, <3>2, Numbers DEF Saturate
  <2> QED
    BY <1>1, <2>1 DEF IndInv, AgeInv, loopVars, callVars
<1>10. CompleteInv'
  BY <1>1 DEF IndInv, CompleteInv, Checking, Found, loopVars, callVars
<1> QED
  BY <1>7, <1>8, <1>9, <1>10 DEF IndInv

LEMMA DropInd ==
  ASSUME IndInv, NEW k \in Keys, DropVector(k) \/ DropRefusal(k)
  PROVE  IndInv'
<1>1. /\ known' = known /\ kept' = kept /\ tick' = tick /\ UNCHANGED flightVars
      /\ pc' = pc /\ todo' = todo /\ missing' = missing /\ vectors' = vectors
      /\ at' = at /\ held' = held /\ inputs' = inputs /\ cause' = cause
      /\ result' = result /\ calls' = calls
  BY DEF DropVector, DropRefusal, memoryVars, loopVars, callVars
<1>2. /\ file \in [Keys -> Ages] /\ used \in [Keys -> 0..(TTL + 1)]
      /\ refusal \in [Keys -> -1..(NegTTL + 1)] /\ timedOut \in SUBSET Keys
  BY Types DEF IndInv
<1>3. /\ file' \in [Keys -> Ages] /\ used' \in [Keys -> 0..(TTL + 1)]
      /\ refusal' \in [Keys -> -1..(NegTTL + 1)] /\ timedOut' \in SUBSET Keys
  <2>1. Absent \in Ages /\ 0 \in 0..(TTL + 1) /\ Absent \in -1..(NegTTL + 1)
    BY Numbers
  <2>2. CASE DropVector(k)
    BY <1>2, <2>1, <2>2 DEF DropVector, refusalVars
  <2>3. CASE DropRefusal(k)
    BY <1>2, <2>1, <2>3 DEF DropRefusal, fileVars
  <2> QED
    BY <2>2, <2>3
<1>4. TypeOK'
  BY <1>1, <1>3 DEF IndInv, TypeOK, flightVars
<1>5. FlightInv'
  BY <1>1, FlightFrame
<1>6. AgeInv' /\ CompleteInv'
  BY <1>1 DEF IndInv, AgeInv, CompleteInv, Checking, Found
<1> QED
  BY <1>4, <1>5, <1>6 DEF IndInv

LEMMA RestartInd ==
  ASSUME IndInv, NEW p \in Procs, Restart(p)
  PROVE  IndInv'
<1> DEFINE mine == {c \in Callers : Home[c] = p}
<1>1. /\ known' = [known EXCEPT ![p] = NoVectors]
      /\ kept' = [kept EXCEPT ![p] = [k \in Keys |-> 0]]
      /\ tick' = [tick EXCEPT ![p] = [k \in Keys |-> 0]]
      /\ waiters' = [waiters EXCEPT ![p] = {}]
      /\ owned' = [c \in Callers |-> IF c \in mine THEN {} ELSE owned[c]]
      /\ parked' = [c \in Callers |-> IF c \in mine THEN NoKey ELSE parked[c]]
      /\ pc' = [c \in Callers |-> IF c \in mine THEN "idle" ELSE pc[c]]
      /\ inputs' = [c \in Callers |-> IF c \in mine THEN {} ELSE inputs[c]]
      /\ todo' = [c \in Callers |-> IF c \in mine THEN {} ELSE todo[c]]
      /\ missing' = [c \in Callers |-> IF c \in mine THEN {} ELSE missing[c]]
      /\ vectors' = [c \in Callers |-> IF c \in mine THEN NoVectors ELSE vectors[c]]
      /\ at' = [c \in Callers |-> IF c \in mine THEN NoKey ELSE at[c]]
      /\ held' = [c \in Callers |-> IF c \in mine THEN Absent ELSE held[c]]
      /\ cause' = [c \in Callers |-> IF c \in mine THEN "" ELSE cause[c]]
      /\ result' = [c \in Callers |-> IF c \in mine THEN "none" ELSE result[c]]
      /\ file' = file /\ used' = used /\ refusal' = refusal /\ timedOut' = timedOut
      /\ calls' = calls
  BY DEF Restart, fileVars, refusalVars
<1>2. /\ known \in [Procs -> [Keys -> Ages]] /\ kept \in [Procs -> [Keys -> 0..(TTL + 1)]]
      /\ tick \in [Procs -> [Keys -> Nat]]
      /\ waiters \in [Procs -> SUBSET Keys] /\ owned \in [Callers -> SUBSET Keys]
      /\ parked \in [Callers -> Keys \cup {NoKey}] /\ Home \in [Callers -> Procs]
      /\ NoKey \notin Keys
  BY Types, CacheConstants DEF IndInv
<1>3. /\ NoVectors \in [Keys -> Ages] /\ Absent \in Ages /\ Absent = -1 /\ TTL \in Nat
      /\ [k \in Keys |-> 0] \in [Keys -> 0..(TTL + 1)] /\ [k \in Keys |-> 0] \in [Keys -> Nat]
      /\ \A k \in Keys : NoVectors[k] = -1
  BY Numbers DEF NoVectors
<1>4. \A c \in Callers :
        /\ Home[c] = p => /\ owned'[c] = {} /\ parked'[c] = NoKey /\ pc'[c] = "idle"
                          /\ vectors'[c] = NoVectors /\ held'[c] = Absent
        /\ Home[c] # p => /\ owned'[c] = owned[c] /\ parked'[c] = parked[c]
                          /\ pc'[c] = pc[c] /\ inputs'[c] = inputs[c] /\ todo'[c] = todo[c]
                          /\ missing'[c] = missing[c] /\ vectors'[c] = vectors[c]
                          /\ at'[c] = at[c] /\ held'[c] = held[c] /\ cause'[c] = cause[c]
  BY <1>1
<1>5. TypeOK'
  <2>1. /\ known' \in [Procs -> [Keys -> Ages]] /\ kept' \in [Procs -> [Keys -> 0..(TTL + 1)]]
        /\ tick' \in [Procs -> [Keys -> Nat]]
        /\ waiters' \in [Procs -> SUBSET Keys] /\ owned' \in [Callers -> SUBSET Keys]
        /\ parked' \in [Callers -> Keys \cup {NoKey}]
    BY <1>1, <1>2, <1>3
  <2>2. /\ vectors' \in [Callers -> [Keys -> Ages]] /\ held' \in [Callers -> Ages]
        /\ at' \in [Callers -> Keys \cup {NoKey}] /\ calls' \in [Callers -> Nat]
    BY <1>1, <1>3, Types DEF IndInv
  <2>3. /\ pc' \in [Callers -> PCs] /\ inputs' \in [Callers -> SUBSET Keys]
        /\ todo' \in [Callers -> SUBSET Keys] /\ missing' \in [Callers -> SUBSET Keys]
        /\ cause' \in [Callers -> Causes \cup {""}]
    BY <1>1, Types DEF IndInv, PCs
  <2>4. result' \in [Callers -> {"none", "vectors", "refused", "error"}]
    BY <1>1 DEF IndInv, TypeOK
  <2> QED
    BY <1>1, <2>1, <2>2, <2>3, <2>4 DEF IndInv, TypeOK
<1>6. FlightInv'
  <2>1. LockOrder /\ \A c \in Callers : pc[c] \in {"idle", "check"} => owned[c] = {}
    BY DEF IndInv, FlightInv
  <2>2. \A c \in Callers : pc'[c] = "lock" => \A j \in owned'[c], k \in todo'[c] : j < k
    BY <1>4, <2>1 DEF LockOrder
  <2>3. \A c \in Callers : parked'[c] # NoKey =>
          /\ pc'[c] = "lock" /\ parked'[c] \in todo'[c]
          /\ \E d \in Callers \ {c} : Home[d] = Home[c] /\ parked'[c] \in owned'[d]
    BY <1>4, <2>1 DEF LockOrder
  <2>4. \A c, d \in Callers : c # d /\ Home[c] = Home[d] => owned'[c] \cap owned'[d] = {}
    BY <1>4, <2>1 DEF LockOrder
  <2>5. \A q \in Procs : waiters'[q] = UNION {owned'[c] : c \in {d \in Callers : Home[d] = q}}
    <3> TAKE q \in Procs
    <3>1. waiters[q] = UNION {owned[c] : c \in {d \in Callers : Home[d] = q}}
      BY <2>1 DEF LockOrder
    <3>2. CASE q = p
      <4>1. waiters'[q] = {} /\ \A c \in {d \in Callers : Home[d] = q} : owned'[c] = {}
        BY <1>1, <1>2, <1>4, <3>2
      <4> QED
        BY <4>1
    <3>3. CASE q # p
      <4>1. waiters'[q] = waiters[q] /\ \A c \in {d \in Callers : Home[d] = q} : owned'[c] = owned[c]
        BY <1>1, <1>2, <1>4, <3>3
      <4> QED
        BY <3>1, <4>1
    <3> QED
      BY <3>2, <3>3
  <2>6. \A c \in Callers : pc'[c] \in {"idle", "check"} => owned'[c] = {}
    BY <1>4, <2>1
  <2> QED
    BY <2>2, <2>3, <2>4, <2>5, <2>6 DEF FlightInv, LockOrder
<1>7. AgeInv'
  <2>1. ASSUME TTL > 0, NEW q \in Procs, NEW k \in Keys
        PROVE  known'[q][k] <= kept'[q][k] + TTL
    <3>1. CASE q = p
      <4>1. known'[q][k] = -1 /\ kept'[q][k] = 0
        BY <1>1, <1>2, <1>3, <3>1
      <4> QED
        BY <4>1, <1>3
    <3>2. CASE q # p
      <4>1. known'[q][k] = known[q][k] /\ kept'[q][k] = kept[q][k]
        BY <1>1, <1>2, <3>2
      <4> QED
        BY <2>1, <4>1 DEF IndInv, AgeInv
    <3> QED
      BY <3>1, <3>2
  <2>2. TTL > 0 => \A c \in Callers : held'[c] <= TTL
    <3>1. Absent <= TTL
      BY Numbers
    <3> QED
      BY <1>4, <3>1 DEF IndInv, AgeInv
  <2>3. TTL > 0 =>
          \A c \in Callers, k \in Keys : cause'[c] = "" => vectors'[c][k] <= 2 * TTL
    <3>1. \A c \in Callers, k \in Keys : Home[c] = p => vectors'[c][k] <= 2 * TTL
      BY <1>3, <1>4
    <3>2. TTL > 0 => \A c \in Callers, k \in Keys :
            Home[c] # p /\ cause'[c] = "" => vectors'[c][k] <= 2 * TTL
      BY <1>4 DEF IndInv, AgeInv
    <3> QED
      BY <3>1, <3>2
  <2>4. TTL > 0 => \A c \in Callers : pc'[c] = "stale" => cause'[c] # ""
    BY <1>4 DEF IndInv, AgeInv
  <2> QED
    BY <2>1, <2>2, <2>3, <2>4 DEF AgeInv
<1>8. CompleteInv'
  BY <1>4 DEF IndInv, CompleteInv, Checking, Found
<1> QED
  BY <1>5, <1>6, <1>7, <1>8 DEF IndInv

LEMMA StutterInd ==
  ASSUME IndInv, UNCHANGED vars
  PROVE  IndInv'
<1>1. /\ known' = known /\ kept' = kept /\ tick' = tick /\ file' = file /\ used' = used
      /\ refusal' = refusal /\ timedOut' = timedOut /\ UNCHANGED flightVars
      /\ pc' = pc /\ todo' = todo /\ missing' = missing /\ vectors' = vectors
      /\ at' = at /\ held' = held /\ inputs' = inputs /\ cause' = cause
      /\ result' = result /\ calls' = calls
  BY DEF vars, cacheVars, memoryVars, fileVars, refusalVars, loopVars, callVars
<1>2. TypeOK' /\ FlightInv'
  BY <1>1, FlightFrame DEF IndInv, TypeOK, flightVars
<1> QED
  BY <1>1, <1>2 DEF IndInv, AgeInv, CompleteInv, Checking, Found

-----------------------------------------------------------------------------
(* The invariant holds, and what it gives.                                 *)

LEMMA InitInd == Init => IndInv
<1> SUFFICES ASSUME Init PROVE IndInv
  OBVIOUS
<1>1. /\ NoVectors \in [Keys -> Ages] /\ \A k \in Keys : NoVectors[k] = -1
      /\ -1 \in Ages /\ Absent = -1 /\ TTL \in Nat /\ NegTTL \in Nat
  BY Numbers DEF NoVectors
<1>2. Earlier \cup {Absent} \subseteq Ages
  BY CacheConstants, Numbers
<1>3. file \in [Keys -> Ages]
  BY <1>2 DEF Init
<1>4. used \in [Keys -> 0..(TTL + 1)]
  <2>1. \A k \in Keys : file[k] # Absent => Saturate(file[k], TTL + 1) \in 0..(TTL + 1)
    BY <1>3, Numbers DEF Saturate
  <2>2. 0 \in 0..(TTL + 1)
    BY <1>1
  <2> QED
    BY <2>1, <2>2 DEF Init
<1>5. /\ known \in [Procs -> [Keys -> Ages]] /\ kept \in [Procs -> [Keys -> 0..(TTL + 1)]]
      /\ refusal \in [Keys -> -1..(NegTTL + 1)] /\ tick \in [Procs -> [Keys -> Nat]]
  <2>1. [k \in Keys |-> 0] \in [Keys -> 0..(TTL + 1)] /\ NoVectors \in [Keys -> -1..(NegTTL + 1)]
    BY <1>1 DEF NoVectors
  <2> QED
    BY <1>1, <2>1 DEF Init
<1>6. TypeOK
  <2>1. vectors \in [Callers -> [Keys -> Ages]] /\ held \in [Callers -> Ages]
        /\ calls \in [Callers -> Nat]
    BY <1>1 DEF Init
  <2> QED
    BY <1>3, <1>4, <1>5, <2>1 DEF Init, TypeOK, PCs
<1>7. FlightInv
  BY DEF Init, FlightInv, LockOrder
<1>8. AgeInv
  <2>1. /\ known = [p \in Procs |-> NoVectors] /\ kept = [p \in Procs |-> [k \in Keys |-> 0]]
        /\ held = [c \in Callers |-> Absent] /\ vectors = [c \in Callers |-> NoVectors]
    BY DEF Init
  <2>2. \A p \in Procs, k \in Keys : known[p][k] = -1 /\ kept[p][k] = 0
    BY <1>1, <2>1
  <2>3. /\ \A c \in Callers : held[c] = -1
        /\ \A c \in Callers, k \in Keys : vectors[c][k] = -1
    BY <1>1, <2>1
  <2>4. -1 <= 0 + TTL /\ -1 <= TTL /\ -1 <= 2 * TTL
    BY <1>1
  <2>5. /\ \A p \in Procs, k \in Keys : known[p][k] <= kept[p][k] + TTL
        /\ \A c \in Callers : held[c] <= TTL
        /\ \A c \in Callers, k \in Keys : vectors[c][k] <= 2 * TTL
    BY <2>2, <2>3, <2>4
  <2> QED
    BY <2>5 DEF Init, AgeInv
<1>9. CompleteInv
  BY DEF Init, CompleteInv, Checking
<1> QED
  BY <1>6, <1>7, <1>8, <1>9 DEF IndInv

LEMMA NextInd == IndInv /\ [Next]_vars => IndInv'
<1> SUFFICES ASSUME IndInv, [Next]_vars PROVE IndInv'
  OBVIOUS
<1>1. ASSUME NEW c \in Callers, Work(c) PROVE IndInv'
  <2>1. ASSUME NEW k \in Keys,
               LookUp(c, k) \/ Lock(c, k) \/ CheckRefusal(c, k)
                 \/ Store(c, k) \/ StaleVector(c, k) \/ Refuse(c, k)
        PROVE  IndInv'
    BY <2>1, LookUpInd, LockInd, CheckRefusalInd, StoreInd, StaleVectorInd, RefuseInd
  <2>2. CASE ReadFile(c) \/ Keep(c) \/ Checked(c) \/ Rechecked(c)
    BY <2>2, ReadFileInd, KeepInd, CheckedInd, RecheckedInd
  <2>3. CASE Answer(c) \/ WriteFile(c) \/ Written(c) \/ GiveUp(c)
    BY <2>3, AnswerInd, WriteFileInd, WrittenInd, GiveUpInd
  <2>4. CASE Stored(c) \/ StaleDone(c)
    <3>1. Return(c, "vectors") /\ pc[c] # "lock" /\ UNCHANGED cacheVars
      BY <2>4 DEF Stored, StaleDone
    <3> QED
      BY <3>1, ReturnOnly
  <2>5. CASE Refused(c)
    <3>1. Return(c, "error") /\ pc[c] # "lock" /\ UNCHANGED cacheVars
      BY <2>5 DEF Refused
    <3> QED
      BY <3>1, ReturnOnly
  <2>6. ASSUME NEW why \in Causes, Fail(c, why) PROVE IndInv'
    BY <2>6, FailInd
  <2> QED
    BY <1>1, <2>1, <2>2, <2>3, <2>4, <2>5, <2>6 DEF Work
<1>2. ASSUME NEW c \in Callers, NEW ks \in SUBSET Keys, Call(c, ks) PROVE IndInv'
  BY <1>2, CallInd
<1>3. CASE Tick
  BY <1>3, TickInd
<1>4. ASSUME NEW k \in Keys, DropVector(k) \/ DropRefusal(k) PROVE IndInv'
  BY <1>4, DropInd
<1>5. ASSUME NEW p \in Procs, Restart(p) PROVE IndInv'
  BY <1>5, RestartInd
<1>6. CASE UNCHANGED vars
  BY <1>6, StutterInd
<1>7. ASSUME NEW c \in Callers, Pruned(c) PROVE IndInv'
  BY <1>7, PrunedInd
<1> QED
  BY <1>1, <1>2, <1>3, <1>4, <1>5, <1>6, <1>7 DEF Next, Step

\* Whatever the callers, keys, limits and faults, the inductive invariant holds
\* of every run (Embed, embeddingFlightGroup, embeddingCache).
THEOREM Invariance == Spec => []IndInv
<1>1. Init => IndInv
  BY InitInd
<1>2. IndInv /\ [Next]_vars => IndInv'
  BY NextInd
<1> QED
  BY <1>1, <1>2, PTL DEF Spec

\* The variables keep their types (embeddingCache and embeddingFlightGroup).
THEOREM TypeCorrect == Spec => []TypeOK
<1>1. IndInv => TypeOK
  BY DEF IndInv
<1> QED
  BY <1>1, Invariance, PTL

\* Flight locks are taken in one order by every caller, each has one owner, and
\* a caller only waits for a channel that another caller will close
\* (embeddingFlightGroup.lock, sortedUnique).
THEOREM LockSafety == Spec => []LockOrder
<1>1. IndInv => LockOrder
  BY DEF IndInv, FlightInv
<1> QED
  BY <1>1, Invariance, PTL

\* The steps in which a call returns vectors.
LEMMA AnswerSteps ==
  ASSUME IndInv, [Next]_vars, NEW c \in Callers, Answers(c)
  PROVE  \/ Checking(c) /\ todo[c] = {} /\ missing[c] = {}
         \/ pc[c] \in {"store", "stale"} /\ todo[c] = {}
<1>1. result'[c] = "vectors" /\ result[c] # "vectors"
  BY DEF Answers
<1>2. result \in [Callers -> {"none", "vectors", "refused", "error"}]
  BY DEF IndInv, TypeOK
<1>3. result' # result
  BY <1>1
<1>4. ASSUME NEW d \in Callers, NEW outcome \in {"refused", "error"}, Return(d, outcome)
      PROVE  FALSE
  <2>1. result' = [result EXCEPT ![d] = outcome]
    BY <1>4 DEF Return
  <2> QED
    BY <1>1, <1>2, <2>1
<1>5. ASSUME NEW d \in Callers, Return(d, "vectors") PROVE d = c
  <2>1. result' = [result EXCEPT ![d] = "vectors"]
    BY <1>5 DEF Return
  <2> QED
    BY <1>1, <1>2, <2>1
<1>6. ASSUME NEW d \in Callers, Work(d)
      PROVE  \/ Checking(c) /\ todo[c] = {} /\ missing[c] = {}
             \/ pc[c] \in {"store", "stale"} /\ todo[c] = {}
  <2>1. ASSUME NEW k \in Keys,
               LookUp(d, k) \/ Lock(d, k) \/ CheckRefusal(d, k)
                 \/ Store(d, k) \/ StaleVector(d, k) \/ Refuse(d, k)
        PROVE  FALSE
    BY <2>1, <1>3, <1>4 DEF LookUp, Lock, CheckRefusal, Store, StaleVector, Refuse,
                            Continue, callVars
  <2>2. CASE ReadFile(d) \/ Keep(d) \/ Answer(d) \/ WriteFile(d) \/ Written(d)
    BY <2>2, <1>3 DEF ReadFile, Keep, Answer, WriteFile, Written, Continue, UseFetched, callVars
  <2>3. CASE Checked(d) \/ Rechecked(d)
    <3>1. missing[d] = {} /\ Return(d, "vectors")
      BY <2>3, <1>3 DEF Checked, Rechecked, Continue, callVars
    <3>2. Checking(d) /\ todo[d] = {}
      BY <2>3 DEF Checked, Rechecked, Checking
    <3> QED
      BY <3>1, <3>2, <1>5
  <2>4. CASE Stored(d) \/ StaleDone(d)
    BY <2>4, <1>5 DEF Stored, StaleDone
  <2>5. CASE GiveUp(d) \/ Refused(d)
    BY <2>5, <1>3, <1>4 DEF GiveUp, Refused, Continue, callVars
  <2>6. ASSUME NEW why \in Causes, Fail(d, why) PROVE FALSE
    BY <2>6, <1>3 DEF Fail
  <2> QED
    BY <1>6, <2>1, <2>2, <2>3, <2>4, <2>5, <2>6 DEF Work
<1>7. ASSUME NEW d \in Callers, NEW ks \in SUBSET Keys, Call(d, ks) PROVE FALSE
  <2>1. result' = [result EXCEPT ![d] = "none"]
    BY <1>7 DEF Call
  <2> QED
    BY <1>1, <1>2, <2>1
<1>8. /\ ~Tick /\ ~UNCHANGED vars
      /\ \A k \in Keys : ~DropVector(k) /\ ~DropRefusal(k)
      /\ \A d \in Callers : ~Pruned(d)
  BY <1>3 DEF Tick, DropVector, DropRefusal, Pruned, UseFetched, vars, callVars
<1>9. ASSUME NEW p \in Procs, Restart(p) PROVE FALSE
  <2>1. result' = [d \in Callers |-> IF d \in {e \in Callers : Home[e] = p} THEN "none" ELSE result[d]]
    BY <1>9 DEF Restart
  <2> QED
    BY <1>1, <2>1
<1> QED
  BY <1>6, <1>7, <1>8, <1>9 DEF Next, Step

\* A call that returns vectors has one for each of its inputs (Embed).
THEOREM CompleteSafety == Spec => VectorsComplete
<1>1. IndInv /\ [Next]_vars =>
        [\A c \in Callers : Answers(c) => \A k \in inputs[c] : vectors[c][k] # Absent]_vars
  <2> SUFFICES ASSUME IndInv, [Next]_vars, NEW c \in Callers, Answers(c), NEW k \in inputs[c]
               PROVE  vectors[c][k] # Absent
    OBVIOUS
  <2>1. inputs[c] \subseteq Found(c)
    BY AnswerSteps DEF IndInv, CompleteInv, Checking
  <2> QED
    BY <2>1 DEF Found
<1> QED
  BY <1>1, Invariance, PTL DEF Spec, VectorsComplete

\* Vectors older than twice the policy's age come from failed provider calls
\* only (staleVectors); no chain of files and copies goes further.
THEOREM AgeSafety == Spec => OldOnlyIfError
<1>1. IndInv /\ [Next]_vars =>
        [\A c \in Callers : TTL > 0 /\ Answers(c) /\ cause[c] = "" =>
           \A k \in inputs[c] : vectors[c][k] <= 2 * TTL]_vars
  <2> SUFFICES ASSUME IndInv, TTL > 0, NEW c \in Callers, cause[c] = "", NEW k \in inputs[c]
               PROVE  vectors[c][k] <= 2 * TTL
    OBVIOUS
  <2>1. k \in Keys
    BY Types DEF IndInv
  <2> QED
    BY <2>1 DEF IndInv, AgeInv
<1> QED
  BY <1>1, Invariance, PTL DEF Spec, OldOnlyIfError

-----------------------------------------------------------------------------
(* Waiting for one another.                                                *)

\* Among callers that all wait for one another, the one that waits for the
\* greatest key would wait for an owner that waits for a greater one.
LEMMA NoCycle == IndInv => NoWaitCycle
<1> SUFFICES ASSUME IndInv, NEW S \in SUBSET Callers, S # {},
                    ~ \E c \in S : \A d \in S : parked[c] = NoKey \/ parked[c] \notin owned[d]
             PROVE  FALSE
  BY DEF NoWaitCycle
<1>0. \A c \in S : \E d \in S : parked[c] # NoKey /\ parked[c] \in owned[d]
  OBVIOUS
<1> DEFINE wanted == [c \in S |-> parked[c]]
           T == {parked[c] : c \in S}
<1>1. T \in SUBSET Int /\ T # {}
  <2>1. \A c \in S : parked[c] \in Keys
    BY <1>0, Types DEF IndInv
  <2>2. \A c \in S : parked[c] \in Int
    BY <2>1, CacheConstants
  <2> QED
    BY <1>0, <2>2, Zenon
<1>2. IsFiniteSet(T)
  <2>1. IsFiniteSet(S)
    BY <1>0, CacheConstants, FS_Subset
  <2>2. wanted \in Surjection(S, T)
    BY DEF Surjection
  <2> QED
    BY <2>1, <2>2, FS_Surjection
<1>3. PICK k \in T : \A j \in T : j <= k
  BY <1>1, <1>2, GreatestInt
<1>4. PICK c \in S : parked[c] = k
  BY <1>3
<1>5. PICK d \in S : parked[c] \in owned[d]
  BY <1>0
<1>6. parked[d] # NoKey /\ pc[d] = "lock" /\ parked[d] \in todo[d]
  BY <1>0 DEF IndInv, FlightInv, LockOrder
<1>7. parked[c] < parked[d]
  BY <1>0, <1>5, <1>6 DEF IndInv, FlightInv, LockOrder
<1>8. parked[d] <= k /\ k \in Int /\ parked[d] \in Int
  BY <1>1, <1>3
<1> QED
  BY <1>4, <1>7, <1>8

\* No set of callers ever waits for one another.
THEOREM NoDeadlock == Spec => []NoWaitCycle
<1> QED
  BY Invariance, NoCycle, PTL

-----------------------------------------------------------------------------
(* A prune: what it reads and removes.                                     *)

\* The types of the prunes, one by one.
LEMMA PruneTypes ==
  ASSUME PruneInd
  PROVE  /\ pruning \in SUBSET Pruners
         /\ unread \in [Pruners -> SUBSET Files]
         /\ seen \in [Pruners -> [Files -> -1..(TTL + NegTTL + 1)]]
         /\ spared \in [Pruners -> SUBSET Files]
         /\ remove \in [Pruners -> Seq(Files)]
         /\ later \in [Pruners -> SUBSET Files]
BY DEF PruneInd, PruneTypeOK

\* The age of a file is a number that has room in what a prune notes.
LEMMA AgeTypes ==
  ASSUME TypeOK, NEW f \in Files
  PROVE  Age(f) \in -1..(TTL + NegTTL + 1)
<1>1. /\ file \in [Keys -> Ages] /\ used \in [Keys -> 0..(TTL + 1)]
      /\ refusal \in [Keys -> -1..(NegTTL + 1)]
  BY Types
<1>2. f.key \in Keys
  BY DEF Files
<1>3. refusal[f.key] \in -1..(NegTTL + 1) /\ used[f.key] \in 0..(TTL + 1)
  BY <1>1, <1>2
<1>4. \A n \in -1..(NegTTL + 1) : n \in -1..(TTL + NegTTL + 1)
  BY Numbers
<1>5. \A n \in 0..(TTL + 1) : n \in -1..(TTL + NegTTL + 1)
  BY Numbers
<1>6. Absent \in -1..(TTL + NegTTL + 1)
  BY Numbers
<1> QED
  BY <1>3, <1>4, <1>5, <1>6 DEF Age

\* A list with one more element, and one without its first.
LEMMA AppendRange ==
  ASSUME NEW S, NEW s \in Seq(S), NEW e \in S
  PROVE  Append(s, e) \in Seq(S) /\ Range(Append(s, e)) = Range(s) \cup {e}
<1> DEFINE t == Append(s, e)
<1>1. /\ t \in Seq(S) /\ Len(t) = Len(s) + 1 /\ t[Len(s) + 1] = e
      /\ \A i \in 1..Len(s) : t[i] = s[i]
  BY AppendProperties
<1>2. Len(s) \in Nat /\ DOMAIN s = 1..Len(s) /\ DOMAIN t = 1..(Len(s) + 1)
  BY <1>1, LenProperties
<1> HIDE DEF t
<1>3. 1..(Len(s) + 1) = 1..Len(s) \cup {Len(s) + 1}
  BY <1>2
<1>4. Range(t) = Range(s) \cup {e}
  BY <1>1, <1>2, <1>3 DEF Range
<1> QED
  BY <1>1, <1>4 DEF t

LEMMA TailRange ==
  ASSUME NEW S, NEW s \in Seq(S), s # <<>>
  PROVE  /\ Head(s) \in S /\ Tail(s) \in Seq(S)
         /\ Range(s) \subseteq Range(Tail(s)) \cup {Head(s)}
<1>1. /\ Head(s) \in S /\ Tail(s) \in Seq(S) /\ Len(Tail(s)) = Len(s) - 1
      /\ \A i \in 1..Len(Tail(s)) : Tail(s)[i] = s[i + 1]
  BY HeadTailProperties
<1>2. /\ Len(s) \in Nat \ {0} /\ DOMAIN s = 1..Len(s)
      /\ DOMAIN Tail(s) = 1..(Len(s) - 1)
  BY <1>1, LenProperties, EmptySeq
<1>3. Head(s) = s[1]
  OBVIOUS
<1>4. ASSUME NEW i \in 1..Len(s), i # 1 PROVE s[i] \in Range(Tail(s))
  <2>1. i - 1 \in 1..(Len(s) - 1) /\ (i - 1) + 1 = i
    BY <1>2, <1>4
  <2>2. Tail(s)[i - 1] = s[i]
    BY <1>1, <2>1
  <2> QED
    BY <1>2, <2>1, <2>2 DEF Range
<1>5. \A i \in DOMAIN s : s[i] \in Range(Tail(s)) \cup {Head(s)}
  BY <1>2, <1>3, <1>4
<1> QED
  BY <1>1, <1>5 DEF Range

\* A file that is removed is not there, and no other comes or goes.
LEMMA DropsOne ==
  ASSUME TypeOK, NEW f \in Files,
         IF f.positive THEN DropVector(f.key) ELSE DropRefusal(f.key)
  PROVE  Present' \subseteq Present \ {f}
<1>1. /\ file \in [Keys -> Ages] /\ used \in [Keys -> 0..(TTL + 1)]
      /\ refusal \in [Keys -> -1..(NegTTL + 1)]
  BY Types
<1>2. f.key \in Keys /\ f.positive \in BOOLEAN /\ f = [key |-> f.key, positive |-> f.positive]
  BY DEF Files
<1>3. ASSUME NEW g \in Files, g.key \in Keys, g = [key |-> g.key, positive |-> g.positive],
             g.positive \in BOOLEAN, Age(g)' # Absent
      PROVE  Age(g) # Absent /\ g # f
  <2>1. CASE f.positive
    <3>1. /\ file' = [file EXCEPT ![f.key] = Absent] /\ used' = [used EXCEPT ![f.key] = 0]
          /\ refusal' = refusal
      BY <2>1 DEF DropVector, refusalVars
    <3>2. CASE g.positive
      <4>1. file'[g.key] # Absent
        BY <1>3, <3>2 DEF Age
      <4>2. g.key # f.key
        BY <1>1, <1>2, <3>1, <4>1
      <4>3. file'[g.key] = file[g.key] /\ used'[g.key] = used[g.key]
        BY <1>1, <1>3, <3>1, <4>2
      <4> QED
        BY <1>3, <3>2, <4>2, <4>3 DEF Age
    <3>3. CASE ~g.positive
      BY <1>3, <2>1, <3>1, <3>3 DEF Age
    <3> QED
      BY <3>2, <3>3
  <2>2. CASE ~f.positive
    <3>1. refusal' = [refusal EXCEPT ![f.key] = Absent] /\ file' = file /\ used' = used
      BY <2>2 DEF DropRefusal, fileVars
    <3>2. CASE ~g.positive
      <4>1. refusal'[g.key] # Absent
        BY <1>3, <3>2 DEF Age
      <4>2. g.key # f.key
        BY <1>1, <1>2, <3>1, <4>1
      <4>3. refusal'[g.key] = refusal[g.key]
        BY <1>1, <1>3, <3>1, <4>2
      <4> QED
        BY <1>3, <3>2, <4>2, <4>3 DEF Age
    <3>3. CASE g.positive
      BY <1>3, <2>2, <3>1, <3>3 DEF Age
    <3> QED
      BY <3>2, <3>3
  <2> QED
    BY <2>1, <2>2
<1>4. \A g \in Files : g.key \in Keys /\ g.positive \in BOOLEAN
                       /\ g = [key |-> g.key, positive |-> g.positive]
  BY DEF Files
<1> QED
  BY <1>3, <1>4 DEF Present

\* Steps that leave the files alone leave the same files.
LEMMA SameFiles ==
  ASSUME UNCHANGED <<fileVars, refusalVars>>
  PROVE  Present' = Present
<1>1. file' = file /\ used' = used /\ refusal' = refusal
  BY DEF fileVars, refusalVars
<1> QED
  BY <1>1 DEF Present, Age

\* Neither does a file that gets older come or go.
LEMMA TickFiles ==
  ASSUME TypeOK, Tick
  PROVE  Present' = Present
<1> DEFINE Older(a, bound) == IF a = Absent THEN a ELSE Saturate(a + 1, bound)
<1>1. /\ file' = [k \in Keys |-> Older(file[k], Cap)]
      /\ used' = [k \in Keys |-> IF file[k] = Absent THEN 0 ELSE Older(used[k], TTL + 1)]
      /\ refusal' = [k \in Keys |-> Older(refusal[k], NegTTL + 1)]
  BY DEF Tick
<1>2. /\ file \in [Keys -> Ages] /\ used \in [Keys -> 0..(TTL + 1)]
      /\ refusal \in [Keys -> -1..(NegTTL + 1)]
  BY Types
<1>3. \A a \in Ages : Older(a, Cap) = Absent <=> a = Absent
  BY Numbers DEF Saturate
<1>4. \A a \in -1..(NegTTL + 1) : Older(a, NegTTL + 1) = Absent <=> a = Absent
  BY Numbers DEF Saturate
<1>5. \A a \in 0..(TTL + 1) : a # Absent /\ Older(a, TTL + 1) # Absent /\ 0 # Absent
  BY Numbers DEF Saturate
<1> HIDE DEF Older
<1>6. \A k \in Keys : /\ file'[k] = Absent <=> file[k] = Absent
                      /\ refusal'[k] = Absent <=> refusal[k] = Absent
                      /\ used[k] # Absent /\ used'[k] # Absent
  BY <1>1, <1>2, <1>3, <1>4, <1>5
<1>7. \A f \in Files : f.key \in Keys
  BY DEF Files
<1>8. \A f \in Files : Age(f)' = Absent <=> Age(f) = Absent
  BY <1>6, <1>7 DEF Age
<1> QED
  BY <1>8 DEF Present

-----------------------------------------------------------------------------
(* The prunes implement the environment of EmbeddingCache.                 *)

LEMMA PruneStep ==
  ASSUME IndInv, PruneInd, [PruneNext]_allVars
  PROVE  [Next]_vars
<1>1. ASSUME NEW x \in Pruners, ListFiles(x) \/ EndPrune(x)
      PROVE  [Next]_vars
  BY <1>1 DEF ListFiles, EndPrune, Next, Step
<1>2. ASSUME NEW x \in Pruners, RemoveFile(x)
      PROVE  [Next]_vars
  <2>1. remove[x] \in Seq(Files) /\ remove[x] # <<>>
    BY <1>2, PruneTypes DEF RemoveFile
  <2>2. Head(remove[x]) \in Files
    BY <2>1, HeadTailProperties
  <2>3. Head(remove[x]).key \in Keys
    BY <2>2 DEF Files
  <2> QED
    BY <1>2, <2>3 DEF RemoveFile, Next
<1>3. ASSUME NEW x \in Pruners, NEW f \in Files, ReadInfo(x, f) \/ PickOldest(x, f)
      PROVE  [Next]_vars
  BY <1>3 DEF ReadInfo, PickOldest
<1>4. ASSUME NEW c \in Callers, PruneFails(c) \/ Beside(c)
      PROVE  [Next]_vars
  BY <1>4 DEF PruneFails, Beside, Next, Step
<1>5. CASE TimePasses
  BY <1>5 DEF TimePasses, Next
<1>6. ASSUME NEW p \in Procs, Dies(p)
      PROVE  [Next]_vars
  BY <1>6 DEF Dies, Next
<1>7. CASE UNCHANGED allVars
  BY <1>7 DEF allVars
<1> QED
  BY <1>1, <1>2, <1>3, <1>4, <1>5, <1>6, <1>7 DEF PruneNext

-----------------------------------------------------------------------------
(* What a prune has in hand.                                               *)

\* The parts of PruneInd, one prune at a time.
LoopOf(x) ==
  /\ \A f \in Dropped(x), g \in spared[x] : seen[x][g] <= seen[x][f]
  /\ Dropped(x) # {} =>
       \E f \in Dropped(x) : /\ OverBudget(spared[x] \cup {f})
                             /\ \A g \in Dropped(x) : seen[x][f] <= seen[x][g]

ListedOf(x) ==
  Present \subseteq unread[x] \cup spared[x] \cup Range(remove[x]) \cup later[x]

StageOf(x) ==
  /\ \A f \in spared[x] : seen[x][f] # Absent
  /\ unread[x] # {} => Dropped(x) = {}
  /\ x \notin pruning => /\ unread[x] = {} /\ seen[x] = NoAges
                         /\ spared[x] = {} /\ remove[x] = <<>>

LEMMA PruneParts ==
  PruneInd <=> /\ PruneTypeOK
               /\ \A x \in Pruners : StageOf(x)
               /\ \A x \in pruning : LoopOf(x) /\ ListedOf(x)
BY DEF PruneInd, LoopInv, ListedInv, StageInv, LoopOf, ListedOf, StageOf

\* Nothing of this depends on more than what the prune has in hand and on the
\* files that are there.
LEMMA OtherPrune ==
  ASSUME NEW x,
         unread'[x] = unread[x], seen'[x] = seen[x], spared'[x] = spared[x],
         remove'[x] = remove[x], x \in pruning' <=> x \in pruning
  PROVE  /\ StageOf(x) => StageOf(x)'
         /\ LoopOf(x) => LoopOf(x)'
         /\ ListedOf(x) /\ Present' \subseteq Present \cup later'[x]
              /\ later[x] \subseteq later'[x] => ListedOf(x)'
<1>1. Dropped(x)' = Dropped(x)
  BY DEF Dropped
<1>2. \A S : OverBudget(S)' <=> OverBudget(S)
  BY DEF OverBudget, Bytes, Vectors
<1>3. StageOf(x) => StageOf(x)'
  BY <1>1 DEF StageOf, NoAges
<1>4. LoopOf(x) => LoopOf(x)'
  BY <1>1, <1>2 DEF LoopOf
<1>5. ASSUME ListedOf(x), Present' \subseteq Present \cup later'[x], later[x] \subseteq later'[x]
      PROVE  ListedOf(x)'
  BY <1>5 DEF ListedOf
<1> QED
  BY <1>3, <1>4, <1>5

\* A step in which only x changes what it has in hand, and no file comes.
LEMMA OnePrune ==
  ASSUME PruneInd, NEW x \in Pruners, PruneTypeOK',
         \A y \in Pruners \ {x} :
           /\ unread'[y] = unread[y] /\ seen'[y] = seen[y] /\ spared'[y] = spared[y]
           /\ remove'[y] = remove[y] /\ (y \in pruning' <=> y \in pruning)
           /\ later[y] \subseteq later'[y],
         Present' \subseteq Present,
         StageOf(x)', x \in pruning' => LoopOf(x)' /\ ListedOf(x)'
  PROVE  PruneInd'
<1>1. /\ \A y \in Pruners : StageOf(y)
      /\ \A y \in pruning : LoopOf(y) /\ ListedOf(y)
      /\ pruning' \subseteq Pruners
  BY PruneParts DEF PruneTypeOK
<1>2. ASSUME NEW y \in Pruners \ {x}
      PROVE  StageOf(y)' /\ (y \in pruning' => LoopOf(y)' /\ ListedOf(y)')
  BY <1>1, <1>2, OtherPrune
<1>3. /\ PruneTypeOK'
      /\ \A y \in Pruners : StageOf(y)'
      /\ \A y \in pruning' : LoopOf(y)' /\ ListedOf(y)'
  BY <1>1, <1>2
<1> QED
  BY <1>3 DEF PruneInd, LoopInv, ListedInv, StageInv, LoopOf, ListedOf, StageOf

LEMMA ListFilesInd ==
  ASSUME PruneInd, NEW x \in Pruners, ListFiles(x)
  PROVE  PruneInd'
<1>1. /\ x \notin pruning /\ pruning' = pruning \cup {x}
      /\ unread' = [unread EXCEPT ![x] = Present]
      /\ seen' = seen /\ spared' = spared /\ remove' = remove /\ later' = later
      /\ UNCHANGED <<fileVars, refusalVars>>
  BY DEF ListFiles, vars, cacheVars
<1>2. /\ unread \in [Pruners -> SUBSET Files] /\ pruning \in SUBSET Pruners
      /\ Present \in SUBSET Files
  BY PruneTypes DEF Present
<1>3. PruneTypeOK'
  BY <1>1, <1>2 DEF PruneInd, PruneTypeOK
<1>4. unread'[x] = Present /\ Present' = Present
  BY <1>1, <1>2, SameFiles
<1>5. /\ seen[x] = NoAges /\ spared[x] = {} /\ remove[x] = <<>>
  BY <1>1, PruneParts DEF StageOf
<1>6. Dropped(x)' = {}
  BY <1>1, <1>5 DEF Dropped, NoAges
<1>7. StageOf(x)'
  BY <1>1, <1>5, <1>6 DEF StageOf
<1>8. LoopOf(x)'
  BY <1>6 DEF LoopOf
<1>9. ListedOf(x)'
  BY <1>4 DEF ListedOf
<1>10. \A y \in Pruners \ {x} :
         /\ unread'[y] = unread[y] /\ seen'[y] = seen[y] /\ spared'[y] = spared[y]
         /\ remove'[y] = remove[y] /\ (y \in pruning' <=> y \in pruning)
         /\ later[y] \subseteq later'[y]
  BY <1>1, <1>2
<1>11. Present' \subseteq Present
  BY <1>4
<1> QED
  BY <1>3, <1>7, <1>8, <1>9, <1>10, <1>11, OnePrune

LEMMA ReadInfoInd ==
  ASSUME TypeOK, PruneInd, NEW x \in Pruners, NEW f \in Files, ReadInfo(x, f)
  PROVE  PruneInd'
<1>1. /\ x \in pruning /\ f \in unread[x] /\ pruning' = pruning /\ later' = later
      /\ unread' = [unread EXCEPT ![x] = @ \ {f}]
      /\ UNCHANGED <<fileVars, refusalVars>>
  BY DEF ReadInfo, vars, cacheVars
<1>2. /\ unread \in [Pruners -> SUBSET Files]
      /\ seen \in [Pruners -> [Files -> -1..(TTL + NegTTL + 1)]]
      /\ spared \in [Pruners -> SUBSET Files] /\ remove \in [Pruners -> Seq(Files)]
  BY PruneTypes
<1>3. Present' = Present /\ unread'[x] = unread[x] \ {f}
  BY <1>1, <1>2, SameFiles
<1>4. /\ StageOf(x) /\ LoopOf(x) /\ ListedOf(x) /\ Dropped(x) = {}
  BY <1>1, PruneParts DEF StageOf
<1>5. /\ seen' \in [Pruners -> [Files -> -1..(TTL + NegTTL + 1)]]
      /\ spared' \in [Pruners -> SUBSET Files] /\ remove' \in [Pruners -> Seq(Files)]
      /\ Dropped(x)' = {} /\ (\A g \in spared'[x] : seen'[x][g] # Absent)
      /\ ListedOf(x)'
      /\ \A y \in Pruners \ {x} : seen'[y] = seen[y] /\ spared'[y] = spared[y]
                                  /\ remove'[y] = remove[y]
  <2>1. CASE f \notin Present
    <3>1. seen' = seen /\ spared' = spared /\ remove' = remove
      BY <2>1 DEF ReadInfo
    <3>2. ListedOf(x)'
      BY <1>1, <1>3, <1>4, <2>1, <3>1 DEF ListedOf
    <3> QED
      BY <1>2, <1>4, <3>1, <3>2 DEF Dropped, StageOf
  <2>2. CASE f \in Present /\ Expired(f)
    <3>1. seen' = seen /\ spared' = spared /\ remove' = [remove EXCEPT ![x] = Append(@, f)]
      BY <2>2 DEF ReadInfo
    <3>2. /\ Append(remove[x], f) \in Seq(Files)
          /\ Range(Append(remove[x], f)) = Range(remove[x]) \cup {f}
      BY <1>2, AppendRange
    <3>3. remove'[x] = Append(remove[x], f)
      BY <1>2, <3>1
    <3>4. ListedOf(x)'
      BY <1>1, <1>3, <1>4, <3>1, <3>2, <3>3 DEF ListedOf
    <3>5. remove' \in [Pruners -> Seq(Files)]
      BY <1>2, <3>1, <3>2
    <3> QED
      BY <1>2, <1>4, <3>1, <3>4, <3>5 DEF Dropped, StageOf
  <2>3. CASE f \in Present /\ ~Expired(f)
    <3>1. /\ seen' = [seen EXCEPT ![x][f] = Age(f)]
          /\ spared' = [spared EXCEPT ![x] = @ \cup {f}] /\ remove' = remove
      BY <2>3 DEF ReadInfo
    <3>2. Age(f) \in -1..(TTL + NegTTL + 1) /\ Age(f) # Absent
      BY <2>3, AgeTypes DEF Present
    <3>3. /\ seen'[x] = [seen[x] EXCEPT ![f] = Age(f)] /\ spared'[x] = spared[x] \cup {f}
          /\ seen[x] \in [Files -> -1..(TTL + NegTTL + 1)]
      BY <1>2, <3>1
    <3>4. /\ \A g \in Files : g # f => seen'[x][g] = seen[x][g]
          /\ seen'[x][f] = Age(f)
      BY <3>3
    <3>5. Dropped(x)' = {}
      BY <1>4, <3>3, <3>4 DEF Dropped
    <3>6. \A g \in spared'[x] : seen'[x][g] # Absent
      BY <1>2, <1>4, <3>2, <3>3, <3>4 DEF StageOf
    <3>7. ListedOf(x)'
      BY <1>1, <1>3, <1>4, <3>1, <3>3 DEF ListedOf
    <3>8. /\ seen' \in [Pruners -> [Files -> -1..(TTL + NegTTL + 1)]]
          /\ spared' \in [Pruners -> SUBSET Files]
      BY <1>2, <3>1, <3>2
    <3> QED
      BY <1>2, <3>1, <3>5, <3>6, <3>7, <3>8
  <2> QED
    BY <2>1, <2>2, <2>3
<1>6. PruneTypeOK'
  BY <1>1, <1>2, <1>5 DEF PruneInd, PruneTypeOK
<1>7. StageOf(x)' /\ LoopOf(x)'
  BY <1>1, <1>5 DEF StageOf, LoopOf
<1>8. \A y \in Pruners \ {x} :
         /\ unread'[y] = unread[y] /\ seen'[y] = seen[y] /\ spared'[y] = spared[y]
         /\ remove'[y] = remove[y] /\ (y \in pruning' <=> y \in pruning)
         /\ later[y] \subseteq later'[y]
  BY <1>1, <1>2, <1>5
<1>9. Present' \subseteq Present
  BY <1>3
<1> QED
  BY <1>5, <1>6, <1>7, <1>8, <1>9, OnePrune

\* A round of the loop picks the oldest that is left, so that what has been
\* picked stays at least as old as what is spared.
LEMMA PickOldestInd ==
  ASSUME PruneInd, NEW x \in Pruners, NEW f \in Files, PickOldest(x, f)
  PROVE  PruneInd'
<1>1. /\ x \in pruning /\ unread[x] = {} /\ OverBudget(spared[x]) /\ f \in spared[x]
      /\ \A g \in spared[x] : seen[x][g] <= seen[x][f]
      /\ spared' = [spared EXCEPT ![x] = @ \ {f}]
      /\ remove' = [remove EXCEPT ![x] = Append(@, f)]
      /\ pruning' = pruning /\ unread' = unread /\ seen' = seen /\ later' = later
      /\ UNCHANGED <<fileVars, refusalVars>>
  BY DEF PickOldest, Oldest, vars, cacheVars
<1>2. /\ seen \in [Pruners -> [Files -> -1..(TTL + NegTTL + 1)]]
      /\ spared \in [Pruners -> SUBSET Files] /\ remove \in [Pruners -> Seq(Files)]
  BY PruneTypes
<1>3. /\ Append(remove[x], f) \in Seq(Files)
      /\ Range(Append(remove[x], f)) = Range(remove[x]) \cup {f}
  BY <1>2, AppendRange
<1>4. /\ spared'[x] = spared[x] \ {f} /\ remove'[x] = Append(remove[x], f)
      /\ \A y \in Pruners \ {x} : spared'[y] = spared[y] /\ remove'[y] = remove[y]
  BY <1>1, <1>2
<1>5. StageOf(x) /\ LoopOf(x) /\ ListedOf(x)
  BY <1>1, PruneParts
<1>6. Present' = Present
  BY <1>1, SameFiles
<1>7. Dropped(x)' = Dropped(x) \cup {f}
  BY <1>1, <1>4, <1>5 DEF Dropped, StageOf
<1>8. \A g \in Dropped(x) : seen[x][f] <= seen[x][g]
  BY <1>1, <1>5 DEF LoopOf
<1>9. seen[x][f] <= seen[x][f]
  BY <1>1
<1>10. LoopOf(x)'
  <2>1. \A g \in Dropped(x)', h \in spared'[x] : seen'[x][h] <= seen'[x][g]
    BY <1>1, <1>4, <1>5, <1>7 DEF LoopOf
  <2>2. OverBudget(spared[x] \cup {f})'
    <3>1. spared'[x] \cup {f} = spared[x]
      BY <1>1, <1>4
    <3> QED
      BY <1>1, <3>1 DEF OverBudget, Bytes, Vectors
  <2>3. \A g \in Dropped(x)' : seen'[x][f] <= seen'[x][g]
    BY <1>1, <1>7, <1>8, <1>9
  <2> QED
    BY <1>7, <2>1, <2>2, <2>3 DEF LoopOf
<1>11. StageOf(x)'
  BY <1>1, <1>4, <1>5 DEF StageOf
<1>12. ListedOf(x)'
  BY <1>1, <1>3, <1>4, <1>5, <1>6 DEF ListedOf
<1>13. PruneTypeOK'
  BY <1>1, <1>2, <1>3 DEF PruneInd, PruneTypeOK
<1>14. \A y \in Pruners \ {x} :
         /\ unread'[y] = unread[y] /\ seen'[y] = seen[y] /\ spared'[y] = spared[y]
         /\ remove'[y] = remove[y] /\ (y \in pruning' <=> y \in pruning)
         /\ later[y] \subseteq later'[y]
  BY <1>1, <1>4
<1>15. Present' \subseteq Present
  BY <1>6
<1> QED
  BY <1>10, <1>11, <1>12, <1>13, <1>14, <1>15, OnePrune

LEMMA RemoveFileInd ==
  ASSUME TypeOK, PruneInd, NEW x \in Pruners, RemoveFile(x)
  PROVE  PruneInd'
<1> DEFINE f == Head(remove[x])
<1>1. /\ x \in pruning /\ unread[x] = {} /\ remove[x] # <<>>
      /\ remove' = [remove EXCEPT ![x] = Tail(@)]
      /\ pruning' = pruning /\ unread' = unread /\ seen' = seen /\ spared' = spared
      /\ \/ (IF f.positive THEN DropVector(f.key) ELSE DropRefusal(f.key)) /\ later' = later
         \/ later' = [later EXCEPT ![x] = @ \cup {f}] /\ UNCHANGED vars
  BY DEF RemoveFile, Picked
<1>2. remove \in [Pruners -> Seq(Files)] /\ later \in [Pruners -> SUBSET Files]
  BY PruneTypes
<1>3. /\ f \in Files /\ Tail(remove[x]) \in Seq(Files)
      /\ Range(remove[x]) \subseteq Range(Tail(remove[x])) \cup {f}
  BY <1>1, <1>2, TailRange
<1> HIDE DEF f
<1>4. /\ remove'[x] = Tail(remove[x])
      /\ \A y \in Pruners \ {x} : remove'[y] = remove[y]
  BY <1>1, <1>2
<1>5. /\ Present' \subseteq Present /\ (f \in Present' => f \in later'[x])
      /\ later' \in [Pruners -> SUBSET Files]
      /\ \A y \in Pruners : later[y] \subseteq later'[y]
  <2>1. CASE (IF f.positive THEN DropVector(f.key) ELSE DropRefusal(f.key)) /\ later' = later
    <3>1. Present' \subseteq Present \ {f}
      BY <1>3, <2>1, DropsOne
    <3> QED
      BY <1>2, <2>1, <3>1
  <2>2. CASE later' = [later EXCEPT ![x] = @ \cup {f}] /\ UNCHANGED vars
    <3>1. UNCHANGED <<fileVars, refusalVars>>
      BY <2>2 DEF vars, cacheVars
    <3>2. Present' = Present
      BY <3>1, SameFiles
    <3> QED
      BY <1>2, <1>3, <2>2, <3>2
  <2> QED
    BY <1>1, <2>1, <2>2
<1>6. StageOf(x) /\ LoopOf(x) /\ ListedOf(x)
  BY <1>1, PruneParts
<1>7. StageOf(x)'
  BY <1>1, <1>6 DEF StageOf, Dropped
<1>8. LoopOf(x)'
  BY <1>1, <1>6 DEF LoopOf, Dropped, OverBudget, Bytes, Vectors
<1>9. ListedOf(x)'
  BY <1>1, <1>3, <1>4, <1>5, <1>6 DEF ListedOf
<1>10. PruneTypeOK'
  BY <1>1, <1>2, <1>3, <1>5 DEF PruneInd, PruneTypeOK
<1>11. \A y \in Pruners \ {x} :
         /\ unread'[y] = unread[y] /\ seen'[y] = seen[y] /\ spared'[y] = spared[y]
         /\ remove'[y] = remove[y] /\ (y \in pruning' <=> y \in pruning)
         /\ later[y] \subseteq later'[y]
  BY <1>1, <1>4, <1>5
<1> QED
  BY <1>5, <1>7, <1>8, <1>9, <1>10, <1>11, OnePrune

\* The files and refusals a step leaves as they are.
LEMMA PrunedFiles ==
  ASSUME NEW x, IF x \in Callers THEN Pruned(x) ELSE UNCHANGED vars
  PROVE  Present' = Present
<1>1. UNCHANGED <<fileVars, refusalVars>>
  BY DEF Pruned, vars, cacheVars
<1> QED
  BY <1>1, SameFiles

LEMMA EndPruneInd ==
  ASSUME PruneInd, NEW x \in Pruners, EndPrune(x)
  PROVE  PruneInd'
<1>1. /\ pruning' = pruning \ {x}
      /\ unread' = [y \in Pruners |-> IF y \in {x} THEN {} ELSE unread[y]]
      /\ seen' = [y \in Pruners |-> IF y \in {x} THEN NoAges ELSE seen[y]]
      /\ spared' = [y \in Pruners |-> IF y \in {x} THEN {} ELSE spared[y]]
      /\ remove' = [y \in Pruners |-> IF y \in {x} THEN <<>> ELSE remove[y]]
      /\ later' = [later EXCEPT ![x] = {}]
  BY DEF EndPrune, Over
<1>2. /\ pruning \in SUBSET Pruners /\ unread \in [Pruners -> SUBSET Files]
      /\ seen \in [Pruners -> [Files -> -1..(TTL + NegTTL + 1)]]
      /\ spared \in [Pruners -> SUBSET Files] /\ remove \in [Pruners -> Seq(Files)]
      /\ later \in [Pruners -> SUBSET Files]
  BY PruneTypes
<1>3. NoAges \in [Files -> -1..(TTL + NegTTL + 1)]
  BY Numbers DEF NoAges
<1>4. Present' \subseteq Present
  BY PrunedFiles DEF EndPrune
<1>5. PruneTypeOK'
  BY <1>1, <1>2, <1>3 DEF PruneTypeOK
<1>6. StageOf(x)' /\ x \notin pruning'
  <2>1. /\ x \notin pruning' /\ unread'[x] = {} /\ seen'[x] = NoAges
        /\ spared'[x] = {} /\ remove'[x] = <<>>
    BY <1>1
  <2> QED
    BY <2>1 DEF StageOf, NoAges
<1>7. \A y \in Pruners \ {x} :
        /\ unread'[y] = unread[y] /\ seen'[y] = seen[y] /\ spared'[y] = spared[y]
        /\ remove'[y] = remove[y] /\ (y \in pruning' <=> y \in pruning)
        /\ later[y] \subseteq later'[y]
  BY <1>1, <1>2
<1> QED
  BY <1>4, <1>5, <1>6, <1>7, OnePrune

\* A step that leaves the prunes alone, and notes for them what comes.
LEMMA BesidePrune ==
  ASSUME PruneInd, UNCHANGED <<pruning, unread, seen, spared, remove>>,
         later' \in [Pruners -> SUBSET Files],
         \A x \in pruning : Present' \subseteq Present \cup later'[x]
                            /\ later[x] \subseteq later'[x]
  PROVE  PruneInd'
<1>1. /\ \A y \in Pruners : StageOf(y)
      /\ \A y \in pruning : LoopOf(y) /\ ListedOf(y)
      /\ PruneTypeOK
  BY PruneParts
<1>2. PruneTypeOK'
  BY <1>1 DEF PruneTypeOK
<1>3. \A y \in Pruners : StageOf(y)'
  BY <1>1, OtherPrune
<1>4. ASSUME NEW y \in pruning PROVE LoopOf(y)' /\ ListedOf(y)'
  BY <1>1, <1>4, OtherPrune
<1> QED
  BY <1>2, <1>3, <1>4 DEF PruneInd, LoopInv, ListedInv, StageInv, LoopOf, ListedOf, StageOf

LEMMA MeanwhileInd ==
  ASSUME TypeOK, PruneInd,
         \/ \E c \in Callers : PruneFails(c) \/ Beside(c)
         \/ TimePasses
         \/ UNCHANGED allVars
  PROVE  PruneInd'
<1>1. later \in [Pruners -> SUBSET Files] /\ pruning \in SUBSET Pruners
  BY PruneTypes
<1>2. CASE Present' = Present /\ UNCHANGED pruneVars
  <2>1. UNCHANGED <<pruning, unread, seen, spared, remove>> /\ later' = later
    BY <1>2 DEF pruneVars
  <2> QED
    BY <1>1, <1>2, <2>1, BesidePrune
<1>3. ASSUME NEW c \in Callers, Beside(c) PROVE PruneInd'
  <2>1. /\ UNCHANGED <<pruning, unread, seen, spared, remove>>
        /\ later' = [x \in Pruners |->
                      IF x \in pruning THEN later[x] \cup (Present' \ Present) ELSE {}]
    BY <1>3 DEF Beside, Note
  <2>2. Present' \subseteq Files
    BY DEF Present, Files
  <2>3. later' \in [Pruners -> SUBSET Files]
    BY <1>1, <2>1, <2>2
  <2>4. \A x \in pruning : later'[x] = later[x] \cup (Present' \ Present)
    BY <1>1, <2>1
  <2> QED
    BY <2>1, <2>3, <2>4, BesidePrune
<1>4. ASSUME NEW c \in Callers, PruneFails(c) PROVE PruneInd'
  <2>1. UNCHANGED <<fileVars, refusalVars>> /\ UNCHANGED pruneVars
    BY <1>4 DEF PruneFails, Pruned, cacheVars
  <2> QED
    BY <1>2, <2>1, SameFiles
<1>5. CASE TimePasses
  BY <1>2, <1>5, TickFiles DEF TimePasses
<1>6. CASE UNCHANGED allVars
  <2>1. UNCHANGED <<fileVars, refusalVars>> /\ UNCHANGED pruneVars
    BY <1>6 DEF allVars, vars, cacheVars
  <2> QED
    BY <1>2, <2>1, SameFiles
<1> QED
  BY <1>3, <1>4, <1>5, <1>6

\* A process that dies takes its prunes with it and leaves the files.
LEMMA DiesInd ==
  ASSUME PruneInd, NEW p \in Procs, Dies(p)
  PROVE  PruneInd'
<1> DEFINE mine == {c \in Callers : Home[c] = p}
<1>1. /\ pruning' = pruning \ mine
      /\ unread' = [y \in Pruners |-> IF y \in mine THEN {} ELSE unread[y]]
      /\ seen' = [y \in Pruners |-> IF y \in mine THEN NoAges ELSE seen[y]]
      /\ spared' = [y \in Pruners |-> IF y \in mine THEN {} ELSE spared[y]]
      /\ remove' = [y \in Pruners |-> IF y \in mine THEN <<>> ELSE remove[y]]
      /\ later' = [y \in Pruners |->
           IF y \in pruning \ mine THEN later[y] \cup (Present' \ Present) ELSE {}]
  BY DEF Dies, Over, Note
<1>2. /\ pruning \in SUBSET Pruners /\ unread \in [Pruners -> SUBSET Files]
      /\ seen \in [Pruners -> [Files -> -1..(TTL + NegTTL + 1)]]
      /\ spared \in [Pruners -> SUBSET Files] /\ remove \in [Pruners -> Seq(Files)]
      /\ later \in [Pruners -> SUBSET Files]
  BY PruneTypes
<1>3. NoAges \in [Files -> -1..(TTL + NegTTL + 1)]
  BY Numbers DEF NoAges
<1>4. Present' = Present
  <2>1. UNCHANGED <<fileVars, refusalVars>>
    BY DEF Dies, Restart
  <2> QED
    BY <2>1, SameFiles
<1> HIDE DEF mine
<1>5. PruneTypeOK'
  BY <1>1, <1>2, <1>3, <1>4 DEF PruneTypeOK
<1>6. ASSUME NEW y \in Pruners PROVE StageOf(y)'
  <2>1. CASE y \in mine
    <3>1. /\ y \notin pruning' /\ unread'[y] = {} /\ seen'[y] = NoAges
          /\ spared'[y] = {} /\ remove'[y] = <<>>
      BY <1>1, <2>1
    <3> QED
      BY <3>1 DEF StageOf, NoAges
  <2>2. CASE y \notin mine
    <3>1. /\ unread'[y] = unread[y] /\ seen'[y] = seen[y] /\ spared'[y] = spared[y]
          /\ remove'[y] = remove[y] /\ (y \in pruning' <=> y \in pruning)
      BY <1>1, <2>2
    <3>2. StageOf(y)
      BY PruneParts
    <3> QED
      BY <3>1, <3>2, OtherPrune
  <2> QED
    BY <2>1, <2>2
<1>7. ASSUME NEW y \in pruning' PROVE LoopOf(y)' /\ ListedOf(y)'
  <2>1. y \in Pruners /\ y \notin mine /\ y \in pruning
    BY <1>1, <1>2, <1>7
  <2>2. /\ unread'[y] = unread[y] /\ seen'[y] = seen[y] /\ spared'[y] = spared[y]
        /\ remove'[y] = remove[y] /\ later[y] \subseteq later'[y]
    BY <1>1, <2>1
  <2>3. LoopOf(y) /\ ListedOf(y)
    BY <2>1, PruneParts
  <2> QED
    BY <1>4, <1>7, <2>1, <2>2, <2>3, OtherPrune
<1> QED
  BY <1>5, <1>6, <1>7 DEF PruneInd, LoopInv, ListedInv, StageInv, LoopOf, ListedOf, StageOf

LEMMA PruneInitInd == PruneInit => PruneInd
<1> SUFFICES ASSUME PruneInit PROVE PruneInd
  OBVIOUS
<1>1. NoAges \in [Files -> -1..(TTL + NegTTL + 1)]
  BY Numbers DEF NoAges
<1>2. <<>> \in Seq(Files)
  BY EmptySeq
<1>3. PruneTypeOK
  BY <1>1, <1>2 DEF PruneInit, PruneTypeOK
<1>4. LoopInv /\ ListedInv
  BY DEF PruneInit, LoopInv, ListedInv
<1>5. StageInv
  BY DEF PruneInit, StageInv
<1> QED
  BY <1>3, <1>4, <1>5 DEF PruneInd

\* Both invariants hold together: the steps of the prunes are steps of the
\* cache that they are run beside.
LEMMA PruneTogether == PruneSpec => [](IndInv /\ PruneInd)
<1>1. PruneInit => IndInv /\ PruneInd
  BY InitInd, PruneInitInd DEF PruneInit
<1>2. IndInv /\ PruneInd /\ [PruneNext]_allVars => (IndInv /\ PruneInd)'
  <2> SUFFICES ASSUME IndInv, PruneInd, [PruneNext]_allVars
               PROVE  IndInv' /\ PruneInd'
    OBVIOUS
  <2>1. IndInv'
    <3>1. [Next]_vars
      BY PruneStep
    <3> QED
      BY <3>1, NextInd
  <2>2. TypeOK
    BY DEF IndInv
  <2>3. PruneInd'
    <3>1. ASSUME NEW x \in Pruners, ListFiles(x) \/ RemoveFile(x) \/ EndPrune(x)
          PROVE  PruneInd'
      BY <2>2, <3>1, ListFilesInd, RemoveFileInd, EndPruneInd
    <3>2. ASSUME NEW x \in Pruners, NEW f \in Files, ReadInfo(x, f) \/ PickOldest(x, f)
          PROVE  PruneInd'
      BY <2>2, <3>2, ReadInfoInd, PickOldestInd
    <3>3. CASE (\E c \in Callers : PruneFails(c) \/ Beside(c)) \/ TimePasses \/ UNCHANGED allVars
      BY <2>2, <3>3, MeanwhileInd
    <3>4. ASSUME NEW p \in Procs, Dies(p) PROVE PruneInd'
      BY <3>4, DiesInd
    <3> QED
      BY <3>1, <3>2, <3>3, <3>4 DEF PruneNext
  <2> QED
    BY <2>1, <2>3
<1> QED
  BY <1>1, <1>2, PTL DEF PruneSpec

\* A directory that is listed, read, sorted and emptied file by file, by calls
\* and operators at once, is one from which files may go at any time: what
\* holds of Embed beside the one holds beside the other (PruneEmbeddingCache).
THEOREM PruneImplements == PruneSpec => Spec
<1>1. PruneInit => Init
  BY DEF PruneInit
<1>2. IndInv /\ PruneInd /\ [PruneNext]_allVars => [Next]_vars
  BY PruneStep
<1> QED
  BY <1>1, <1>2, PruneTogether, PTL DEF PruneSpec, Spec

\* However prunes, calls and deaths of processes interleave, a prune spares
\* what was used last, drops no more than it must, and has every file it
\* listed in hand until it has removed it (embeddingCacheRemovalSet).
THEOREM PruneInvariance == PruneSpec => []PruneInd
BY PruneTogether, PTL

\* There are finitely many files, since the name of each is that of its key.
LEMMA FilesFinite == IsFiniteSet(Files)
<1> DEFINE name == [kb \in Keys \X BOOLEAN |-> [key |-> kb[1], positive |-> kb[2]]]
<1>1. IsFiniteSet(BOOLEAN)
  <2>1. BOOLEAN = {TRUE, FALSE}
    OBVIOUS
  <2>2. IsFiniteSet({TRUE})
    BY FS_Singleton
  <2>3. IsFiniteSet({TRUE} \cup {FALSE})
    BY <2>2, FS_AddElement
  <2> QED
    BY <2>1, <2>3
<1>2. IsFiniteSet(Keys \X BOOLEAN)
  BY <1>1, KeysFinite, FS_Product
<1>3. name \in Surjection(Keys \X BOOLEAN, Files)
  <2>1. \A f \in Files : <<f.key, f.positive>> \in Keys \X BOOLEAN
                         /\ name[<<f.key, f.positive>>] = f
    BY DEF Files
  <2>2. name \in [Keys \X BOOLEAN -> Files]
    BY DEF Files
  <2> HIDE DEF name
  <2> QED
    BY <2>1, <2>2 DEF Surjection
<1> HIDE DEF name
<1> QED
  BY <1>2, <1>3, FS_Surjection

\* What is left of files within the limits is within them.
LEMMA WithinLimits ==
  ASSUME NEW S \in SUBSET Files, ~OverBudget(S), NEW left \in SUBSET S
  PROVE  /\ MaxEntries > 0 => Cardinality({f \in left : f.positive}) <= MaxEntries
         /\ MaxBytes > 0 =>
              Cardinality(left) + Cardinality({f \in left : f.positive}) <= MaxBytes
<1> DEFINE V == Vectors(S)
           R == S \ Vectors(S)
           W == {f \in left : f.positive}
<1>1. IsFiniteSet(S)
  BY FilesFinite, FS_Subset
<1>2. V \in SUBSET S /\ R \in SUBSET S /\ W \in SUBSET V /\ V \cup R = S /\ V \cap R = {}
  BY DEF Vectors
<1> HIDE DEF V, R, W
<1>3. IsFiniteSet(V) /\ IsFiniteSet(R)
  BY <1>1, <1>2, FS_Subset
<1>4. Cardinality(S) = Cardinality(V) + Cardinality(R)
  <2>1. Cardinality(S) = Cardinality(V) + Cardinality(R) - Cardinality({})
    BY <1>2, <1>3, FS_Union
  <2>2. Cardinality(V) \in Nat /\ Cardinality(R) \in Nat /\ Cardinality({}) = 0
    BY <1>3, FS_CardinalityType, FS_EmptySet
  <2> QED
    BY <2>1, <2>2
<1>5. Cardinality(left) <= Cardinality(S)
  BY <1>1, FS_Subset
<1>6. Cardinality(W) <= Cardinality(V) /\ IsFiniteSet(W) /\ IsFiniteSet(left)
  <2>1. Cardinality(W) <= Cardinality(V) /\ IsFiniteSet(W)
    BY <1>2, <1>3, FS_Subset
  <2>2. IsFiniteSet(left)
    BY <1>1, FS_Subset
  <2> QED
    BY <2>1, <2>2
<1>7. /\ Cardinality(V) \in Nat /\ Cardinality(R) \in Nat
      /\ Cardinality(W) \in Nat /\ Cardinality(left) \in Nat
  BY <1>3, <1>6, FS_CardinalityType
<1>8. /\ ~(MaxBytes > 0 /\ 2 * Cardinality(V) + Cardinality(R) > MaxBytes)
      /\ ~(MaxEntries > 0 /\ Cardinality(V) > MaxEntries)
  BY DEF OverBudget, Bytes, V, R
<1>9. MaxEntries \in Nat /\ MaxBytes \in Nat
  BY PruneConstants
<1>10. MaxEntries > 0 => Cardinality(W) <= MaxEntries
  BY <1>6, <1>7, <1>8, <1>9
<1>11. MaxBytes > 0 => Cardinality(left) + Cardinality(W) <= MaxBytes
  BY <1>4, <1>5, <1>6, <1>7, <1>8, <1>9
<1> QED
  BY <1>10, <1>11 DEF W

\* Whatever others write and remove meanwhile, a prune that returns leaves the
\* directory within both limits, but for the files that came while it ran or
\* would not be removed (PruneEmbeddingCache).
THEOREM PruneSafety == PruneSpec => PruneWithinPolicy
<1> DEFINE Within(x) ==
             LET left == Present \ later[x]
             IN /\ MaxEntries > 0 => Cardinality({f \in left : f.positive}) <= MaxEntries
                /\ MaxBytes > 0 => Cardinality(left) + Cardinality({f \in left : f.positive})
                                   <= MaxBytes
<1>1. PruneInd /\ [PruneNext]_allVars => [\A x \in Pruners : EndPrune(x) => Within(x)]_allVars
  <2> SUFFICES ASSUME PruneInd, NEW x \in Pruners, EndPrune(x) PROVE Within(x)
    OBVIOUS
  <2>1. /\ x \in pruning /\ unread[x] = {} /\ remove[x] = <<>> /\ ~OverBudget(spared[x])
    BY DEF EndPrune, Picked
  <2>2. Range(remove[x]) = {}
    BY <2>1 DEF Range
  <2>3. Present \ later[x] \in SUBSET spared[x]
    BY <2>1, <2>2, PruneParts DEF ListedOf
  <2>4. spared[x] \in SUBSET Files
    BY PruneTypes
  <2> QED
    BY <2>1, <2>3, <2>4, WithinLimits
<1> QED
  BY <1>1, PruneInvariance, PTL DEF PruneSpec, PruneWithinPolicy
=============================================================================
