----------------------- MODULE NetworkCollectorProofs -----------------------
(***************************************************************************)
(* Proofs about NetworkCollector, for every page, every budget and every   *)
(* timing.  IndInv is inductive: a request is tracked as open exactly      *)
(* while it is (TrackedAsOpen), which needs what each tracking set may     *)
(* hold (ObservedInv); a body is pending, in the batch, awaited or         *)
(* captured once per time it was put in pendingBodies (FetchInv); and      *)
(* nothing is dropped without the truncated flag (WholeInv).               *)
(***************************************************************************)
EXTENDS NetworkCollector, ListLemmas

\* appendToResource keeps a prefix of what it is given.
LEMMA KeptFacts ==
  ASSUME TypeOK, NEW r \in Requests, NEW n \in Nat
  PROVE  Kept(r, n) \in Nat /\ Kept(r, n) <= n
<1>1. total \in Nat /\ bytes[r] \in Nat
  BY DEF TypeOK
<1>2. MaxBytes \in Nat /\ ResourceMaxBytes \in Nat
  BY CollectorConstants
<1>3. MaxBytes - total \in Int /\ ResourceMaxBytes - bytes[r] \in Int
  BY <1>1, <1>2
<1>4. \A a, b \in Int : MinPositive(a, b) \in Nat
  BY DEF MinPositive
<1>5. MinPositive(MaxBytes - total, ResourceMaxBytes - bytes[r]) \in Nat
  BY <1>3, <1>4
<1> QED
  BY <1>5 DEF Kept

\* What appendToResource does to the evidence of r, and to nothing else.
LEMMA AppendFacts ==
  ASSUME TypeOK, NEW r \in Requests, NEW n \in Nat, AppendToResource(r, n)
  PROVE  /\ bytes' \in [Requests -> Nat] /\ offered' \in [Requests -> Nat]
         /\ total' \in Nat /\ truncated' \in BOOLEAN /\ cut' \in SUBSET Requests
         /\ \A q \in Requests : q # r => bytes'[q] = bytes[q] /\ offered'[q] = offered[q]
         /\ offered'[r] = offered[r] + n
         /\ ~truncated' => ~truncated /\ cut' = cut /\ bytes'[r] = bytes[r] + n
<1> DEFINE kept == Kept(r, n)
<1>1. kept \in Nat /\ kept <= n
  BY KeptFacts
<1>2. /\ bytes' = [bytes EXCEPT ![r] = @ + kept]
      /\ total' = total + kept
      /\ offered' = [offered EXCEPT ![r] = @ + n]
  BY DEF AppendToResource
<1>3. \/ kept < n /\ truncated' = TRUE /\ cut' = cut \cup {r}
      \/ ~(kept < n) /\ truncated' = truncated /\ cut' = cut
  BY DEF AppendToResource
<1> HIDE DEF kept
<1>4. /\ bytes \in [Requests -> Nat] /\ offered \in [Requests -> Nat]
      /\ total \in Nat
  BY DEF TypeOK
<1>5. bytes' \in [Requests -> Nat] /\ offered' \in [Requests -> Nat] /\ total' \in Nat
  BY <1>1, <1>2, <1>4
<1>6. truncated' \in BOOLEAN /\ cut' \in SUBSET Requests
  BY <1>3, Zenon DEF TypeOK
<1>7. \A q \in Requests : q # r => bytes'[q] = bytes[q] /\ offered'[q] = offered[q]
  BY <1>2, <1>4
<1>8. bytes'[r] = bytes[r] + kept /\ offered'[r] = offered[r] + n
  BY <1>2, <1>4
<1>9. ~truncated' => ~(kept < n) /\ ~truncated /\ cut' = cut
  BY <1>3, Zenon
<1>10. ~(kept < n) => kept = n
  BY <1>1
<1> QED
  BY <1>5, <1>6, <1>7, <1>8, <1>9, <1>10, Zenon

\* Nothing is observed when a render starts.
LEMMA InitInd ==
  ASSUME Init
  PROVE  IndInv
<1>1. TypeOK
  <2>1. /\ wire \in [Requests -> {"new", "open", "finished", "failed"}]
        /\ sent \in [Requests -> Nat] /\ bytes \in [Requests -> Nat]
        /\ msgs \in [Requests -> Nat] /\ offered \in [Requests -> Nat]
        /\ copies \in [Requests -> Nat]
    BY DEF Init
  <2>2. /\ total \in Nat /\ missing \in Nat
        /\ ready \in -1..ReadyMin /\ elapsed \in 0..(MaxWait + 1)
        /\ sinceActivity \in 0..StreamIdle /\ sinceStream \in -1..StreamIdle
    <3>1. StreamIdle \in Nat /\ ReadyMin \in Nat /\ MaxWait \in Nat
      BY CollectorConstants
    <3>2. /\ total = 0 /\ missing = 0 /\ ready = -1
          /\ elapsed = 0 /\ sinceActivity = 0 /\ sinceStream = -1
      BY DEF Init
    <3> QED
      BY <3>1, <3>2
  <2>3. truncated \in BOOLEAN /\ inflateCut \in BOOLEAN
    BY DEF Init
  <2>4. /\ order \in SUBSET Requests /\ cut \in SUBSET Requests
        /\ ended \in SUBSET Requests /\ active \in SUBSET Requests
        /\ eventSources \in SUBSET Requests /\ streams \in SUBSET Requests
        /\ webSockets \in SUBSET Requests /\ pending \in SUBSET Requests
        /\ batch \in SUBSET Requests /\ asked \in SUBSET Requests
        /\ refused \in SUBSET Requests
    BY DEF Init
  <2>5. /\ phase \in Phases /\ ((phase = "fetch") <=> (fetching # NoRequest))
        /\ fetching \in Requests \cup {NoRequest}
        /\ lost \in {"no", "conn", "ctx"}
        /\ reason \in {"", "settle_timeout", "event_source_idle", "stream_idle",
                      "network_idle_with_active_requests", "websocket_idle",
                      "network_idle"}
    BY DEF Init, Phases, Awaiting
  <2> QED
    BY <2>1, <2>2, <2>3, <2>4, <2>5 DEF TypeOK
<1>2. OnlyObserved
  <2>1. Cardinality(order) <= MaxResources
    <3>1. Cardinality(order) = 0
      BY FS_EmptySet DEF Init
    <3> QED
      BY <3>1, CollectorConstants
  <2>2. \A r \in Requests : ~(bytes[r] > 0 \/ copies[r] > 0)
    <3>1. \A r \in Requests : bytes[r] = 0 /\ copies[r] = 0
      BY DEF Init
    <3> QED
      BY <3>1
  <2>3. /\ pending \cup batch \cup OpenStreams \cup active = {}
        /\ order = {} /\ refused = {}
    BY DEF Init, OpenStreams
  <2> QED
    BY <2>1, <2>2, <2>3 DEF OnlyObserved
<1>3. TrackedAsOpen /\ FinishedBodyAsked
  BY DEF Init, TrackedAsOpen, FinishedBodyAsked
<1>4. ObservedInv
  BY DEF Init, ObservedInv
<1>5. FetchInv
  <2> SUFFICES ASSUME NEW r \in Requests
               PROVE  copies[r] + Count(r, pending) + Count(r, batch \cup {fetching})
                        <= (IF wire[r] = "open" THEN 1 ELSE 2)
    BY CollectorConstants DEF Init, FetchInv
  <2>1. copies[r] = 0 /\ Count(r, pending) = 0 /\ Count(r, batch \cup {fetching}) = 0
    BY CollectorConstants DEF Init, Count
  <2> QED
    BY <2>1
<1>6. WholeInv
  BY DEF Init, WholeInv
<1> QED
  BY <1>1, <1>2, <1>3, <1>4, <1>5, <1>6 DEF IndInv

\* Steps that touch neither the collector nor the bodies to fetch: time and the
\* context, and the loop's own moves between two commands.
LEMMA FrameInd ==
  ASSUME IndInv,
         UNCHANGED <<wire, sent, collectorVars, batch, fetching, historyVars>>,
         ready' \in -1..ReadyMin, elapsed' \in 0..(MaxWait + 1),
         sinceActivity' \in 0..StreamIdle, sinceStream' \in -1..StreamIdle,
         lost' \in {"no", "conn", "ctx"},
         reason' \in {"", "settle_timeout", "event_source_idle", "stream_idle",
                      "network_idle_with_active_requests", "websocket_idle",
                      "network_idle"},
         phase' \in Phases,
         phase' = "fetch" <=> phase = "fetch",
         phase' = "done" <=> phase = "done",
         phase' \notin {"loop", "fetch"} => batch = {}
  PROVE  IndInv'
<1> USE DEF collectorVars, resourceVars, trackingVars, historyVars
<1>1. TypeOK'
  BY DEF IndInv, TypeOK
<1>2. TrackedAsOpen' /\ OnlyObserved' /\ FinishedBodyAsked'
  BY DEF IndInv, TrackedAsOpen, OnlyObserved, FinishedBodyAsked, OpenStreams
<1>3. ObservedInv'
  BY DEF IndInv, ObservedInv
<1>4. FetchInv'
  BY DEF IndInv, FetchInv, Count
<1>5. WholeInv'
  BY DEF IndInv, WholeInv, OpenStreams
<1> QED
  BY <1>1, <1>2, <1>3, <1>4, <1>5 DEF IndInv

\* A request that a browser event is about is observed at most once.
LEMMA ResponseInd ==
  ASSUME IndInv, NEW r \in Requests, Response(r)
  PROVE  IndInv'
<1> USE DEF Receiving
<1>0. /\ phase # "done" /\ wire[r] = "new" /\ wire' = [wire EXCEPT ![r] = "open"]
      /\ UNCHANGED <<sent, bytes, msgs, cut, ended, total, missing, loopVars, lost,
                     offered, copies, asked, inflateCut>>
  BY DEF Response, Awaiting
<1>1. \A q \in Requests : q # r => wire'[q] = wire[q]
  BY <1>0 DEF IndInv, TypeOK
<1>2. wire'[r] = "open"
  BY <1>0 DEF IndInv, TypeOK
<1>3. r \notin order /\ r \notin pending \cup batch \cup OpenStreams \cup active
  BY <1>0 DEF IndInv, ObservedInv, OnlyObserved
<1>4. fetching # r
  BY <1>0, <1>3, CollectorConstants DEF IndInv, FetchInv
<1>5. copies[r] = 0
  <2>1. ~(copies[r] > 0)
    BY <1>3 DEF IndInv, OnlyObserved
  <2>2. copies[r] \in Nat
    BY DEF IndInv, TypeOK
  <2> QED
    BY <2>1, <2>2
<1>6. /\ sinceActivity' \in 0..StreamIdle /\ sinceStream' \in -1..StreamIdle
      /\ elapsed' \in 0..(MaxWait + 1)
  <2>1. StreamIdle \in Nat /\ 0 \in 0..StreamIdle /\ 0 \in -1..StreamIdle
    BY CollectorConstants
  <2>2. /\ elapsed' = elapsed
        /\ sinceActivity' \in {0, sinceActivity} /\ sinceStream' \in {0, sinceStream}
    BY DEF Response, clockVars, MarkActivity, MarkStreamActivity
  <2> QED
    BY <2>1, <2>2 DEF IndInv, TypeOK
<1>7. CASE ~Relevant(r)
  <2>0. UNCHANGED <<order, trackingVars, pending, truncated, refused>>
    BY <1>7 DEF Response
  <2> USE DEF trackingVars, loopVars
  <2>1. TypeOK'
    BY <1>0, <1>6, <2>0 DEF IndInv, TypeOK
  <2>2. TrackedAsOpen'
    BY <1>0, <1>1, <1>3, <2>0 DEF IndInv, TrackedAsOpen, OpenStreams, OnlyObserved
  <2>3. OnlyObserved' /\ FinishedBodyAsked'
    BY <1>0, <1>1, <1>3, <2>0 DEF IndInv, OnlyObserved, FinishedBodyAsked, OpenStreams
  <2>4. ObservedInv'
    BY <1>0, <1>1, <1>3, <1>7, <2>0 DEF IndInv, ObservedInv, Relevant
  <2>5. FetchInv'
    <3>1. \A q \in Requests :
            copies'[q] + Count(q, pending)' + Count(q, batch \cup {fetching})'
              <= (IF wire'[q] = "open" THEN 1 ELSE 2)
      BY <1>0, <1>1, <1>3, <1>4, <1>5, <2>0 DEF IndInv, FetchInv, Count
    <3> QED
      BY <3>1, <1>0, <2>0 DEF IndInv, FetchInv
  <2>6. WholeInv'
    BY <1>0, <2>0 DEF IndInv, WholeInv, OpenStreams
  <2> QED
    BY <2>1, <2>2, <2>3, <2>4, <2>5, <2>6 DEF IndInv
<1>8. CASE Relevant(r) /\ ~HasRoom
  <2>0. /\ UNCHANGED <<order, trackingVars, pending>>
        /\ truncated' = TRUE /\ refused' = refused \cup {r}
    BY <1>8 DEF Response
  <2> USE DEF trackingVars, loopVars
  <2>1. TypeOK'
    BY <1>0, <1>6, <2>0 DEF IndInv, TypeOK
  <2>2. TrackedAsOpen'
    BY <1>0, <1>1, <1>3, <2>0 DEF IndInv, TrackedAsOpen, OpenStreams, OnlyObserved
  <2>3. OnlyObserved' /\ FinishedBodyAsked'
    BY <1>0, <1>1, <1>3, <2>0 DEF IndInv, OnlyObserved, FinishedBodyAsked, OpenStreams
  <2>4. ObservedInv'
    BY <1>0, <1>1, <1>2, <1>3, <2>0 DEF IndInv, ObservedInv, Relevant
  <2>5. FetchInv'
    <3>1. \A q \in Requests :
            copies'[q] + Count(q, pending)' + Count(q, batch \cup {fetching})'
              <= (IF wire'[q] = "open" THEN 1 ELSE 2)
      BY <1>0, <1>1, <1>3, <1>4, <1>5, <2>0 DEF IndInv, FetchInv, Count
    <3> QED
      BY <3>1, <1>0, <2>0 DEF IndInv, FetchInv
  <2>6. WholeInv'
    BY <2>0, Zenon DEF WholeInv
  <2> QED
    BY <2>1, <2>2, <2>3, <2>4, <2>5, <2>6 DEF IndInv
<1>9. CASE Relevant(r) /\ HasRoom
  <2>0. /\ order' = order \cup {r} /\ active' = active \cup {r}
        /\ pending' = (IF ShouldFetch(r) THEN pending \cup {r} ELSE pending)
        /\ eventSources' = (IF Kind[r] = "eventsource" THEN eventSources \cup {r}
                            ELSE eventSources)
        /\ streams' = (IF Kind[r] = "stream" THEN streams \cup {r} ELSE streams)
        /\ webSockets' = (IF Kind[r] = "websocket" THEN webSockets \cup {r}
                          ELSE webSockets)
        /\ UNCHANGED <<truncated, refused>>
    BY <1>9 DEF Response
  <2> USE DEF loopVars
  <2>1. TypeOK'
    BY <1>0, <1>6, <2>0 DEF IndInv, TypeOK
  <2>2. TrackedAsOpen'
    BY <1>0, <1>1, <1>2, <1>3, <2>0
       DEF IndInv, TrackedAsOpen, OpenStreams, OnlyObserved, IsStream
  <2>3. OnlyObserved'
    <3>1. IsFiniteSet(order)
      BY FS_Subset, CollectorConstants DEF IndInv, TypeOK
    <3>2. Cardinality(order') <= MaxResources
      <4>1. Cardinality(order') = Cardinality(order) + 1
        BY <1>3, <2>0, <3>1, FS_AddElement
      <4>2. Cardinality(order) < MaxResources /\ Cardinality(order) \in Nat
        BY <1>9, <3>1, FS_CardinalityType DEF HasRoom
      <4>3. MaxResources \in Nat
        BY CollectorConstants
      <4> QED
        BY <4>1, <4>2, <4>3
    <3>3. r \notin refused
      BY <1>0 DEF IndInv, ObservedInv
    <3> QED
      BY <1>0, <2>0, <3>2, <3>3 DEF IndInv, OnlyObserved, OpenStreams
  <2>4. FinishedBodyAsked'
    BY <1>0, <1>1, <1>2, <2>0 DEF IndInv, FinishedBodyAsked
  <2>5. ObservedInv'
    BY <1>0, <1>1, <1>2, <2>0 DEF IndInv, ObservedInv, Relevant
  <2>6. FetchInv'
    <3>1. \A q \in Requests :
            copies'[q] + Count(q, pending)' + Count(q, batch \cup {fetching})'
              <= (IF wire'[q] = "open" THEN 1 ELSE 2)
      <4> SUFFICES ASSUME NEW q \in Requests
                   PROVE  copies'[q] + Count(q, pending)' + Count(q, batch \cup {fetching})'
                            <= (IF wire'[q] = "open" THEN 1 ELSE 2)
        OBVIOUS
      <4>1. CASE q = r
        <5>1. copies'[q] = 0 /\ Count(q, batch \cup {fetching})' = 0
          BY <1>0, <1>3, <1>4, <1>5, <4>1 DEF Count
        <5>2. Count(q, pending)' \in {0, 1}
          BY DEF Count
        <5> QED
          BY <1>2, <4>1, <5>1, <5>2
      <4>2. CASE q # r
        BY <1>0, <1>1, <2>0, <4>2 DEF IndInv, FetchInv, Count
      <4> QED
        BY <4>1, <4>2
    <3> QED
      BY <3>1, <1>0, <2>0 DEF IndInv, FetchInv
  <2>7. WholeInv'
    BY <1>0, <2>0 DEF IndInv, WholeInv, OpenStreams
  <2> QED
    BY <2>1, <2>2, <2>3, <2>4, <2>5, <2>6, <2>7 DEF IndInv
<1> QED
  BY <1>7, <1>8, <1>9 DEF Response

\* A message adds to what its resource holds, or marks it cut; it changes no
\* connection and no body to fetch.
LEMMA MessageInd ==
  ASSUME IndInv, NEW r \in Requests, NEW n \in Sizes, Message(r, n)
  PROVE  IndInv'
<1> USE DEF Receiving, loopVars
<1>0. /\ phase # "done" /\ sent' = [sent EXCEPT ![r] = @ + 1]
      /\ UNCHANGED <<wire, order, active, streams, webSockets, pending, missing,
                     phase, batch, fetching, ready, reason, lost, copies, asked,
                     refused, inflateCut>>
  BY DEF Message, Awaiting
<1>1. n \in Nat
  BY CollectorConstants
<1>2. sent' \in [Requests -> Nat]
  <2>1. sent \in [Requests -> Nat]
    BY DEF IndInv, TypeOK
  <2> QED
    BY <1>0, <2>1
<1>3. FetchInv'
  BY <1>0 DEF IndInv, FetchInv, Count
<1>4. ObservedInv' /\ FinishedBodyAsked' /\ TrackedAsOpen' /\ OnlyObserved' /\ TypeOK' /\ WholeInv'
  <2>1. CASE r \notin order
    <3>0. UNCHANGED <<bytes, msgs, cut, ended, eventSources, total, truncated,
                      offered, elapsed, sinceActivity, sinceStream>>
      BY <2>1 DEF Message, clockVars
    <3>1. TypeOK'
      BY <1>0, <1>2, <3>0 DEF IndInv, TypeOK
    <3>2. TrackedAsOpen' /\ OnlyObserved' /\ FinishedBodyAsked'
      BY <1>0, <3>0 DEF IndInv, TrackedAsOpen, OnlyObserved, FinishedBodyAsked, OpenStreams
    <3>3. ObservedInv' /\ WholeInv'
      BY <1>0, <3>0 DEF IndInv, ObservedInv, WholeInv, OpenStreams
    <3> QED
      BY <3>1, <3>2, <3>3
  <2>2. CASE r \in order
    <3>0. /\ msgs' = [msgs EXCEPT ![r] = @ + 1]
          /\ \/ AppendToResource(r, n)
             \/ /\ cut' = cut \cup {r} /\ truncated' = TRUE
                /\ offered' = [offered EXCEPT ![r] = @ + n]
                /\ UNCHANGED <<bytes, total>>
          /\ \/ /\ Kind[r] = "eventsource" /\ wire[r] \in {"open", "finished"}
                /\ eventSources' = eventSources \cup {r} /\ ended' = ended \ {r}
             \/ eventSources' = eventSources /\ ended' = ended
          /\ \/ MarkStreamActivity
             \/ MarkActivity
      BY <2>2 DEF Message
    <3>1. /\ bytes' \in [Requests -> Nat] /\ offered' \in [Requests -> Nat]
          /\ total' \in Nat /\ truncated' \in BOOLEAN /\ cut' \in SUBSET Requests
          /\ \A q \in Requests : q # r => bytes'[q] = bytes[q] /\ offered'[q] = offered[q]
          /\ ~truncated' => /\ ~truncated /\ cut' = cut
                            /\ bytes'[r] = bytes[r] + n /\ offered'[r] = offered[r] + n
      <4>1. CASE AppendToResource(r, n)
        BY <1>1, <4>1, AppendFacts, Zenon DEF IndInv
      <4>2. CASE /\ cut' = cut \cup {r} /\ truncated' = TRUE
                 /\ offered' = [offered EXCEPT ![r] = @ + n]
                 /\ UNCHANGED <<bytes, total>>
        <5>1. bytes' \in [Requests -> Nat] /\ offered' \in [Requests -> Nat] /\ total' \in Nat
          <6>1. bytes \in [Requests -> Nat] /\ offered \in [Requests -> Nat] /\ total \in Nat
            BY DEF IndInv, TypeOK
          <6> QED
            BY <1>1, <4>2, <6>1
        <5>2. truncated' \in BOOLEAN /\ cut' \in SUBSET Requests /\ truncated'
          BY <4>2 DEF IndInv, TypeOK
        <5>3. \A q \in Requests : q # r => bytes'[q] = bytes[q] /\ offered'[q] = offered[q]
          BY <4>2 DEF IndInv, TypeOK
        <5> QED
          BY <5>1, <5>2, <5>3, Zenon
      <4> QED
        BY <3>0, <4>1, <4>2
    <3>2. /\ msgs' \in [Requests -> Nat] /\ msgs'[r] > 0
          /\ \A q \in Requests : msgs[q] > 0 => msgs'[q] > 0
      <4>1. msgs \in [Requests -> Nat]
        BY DEF IndInv, TypeOK
      <4> QED
        BY <3>0, <4>1
    <3>3. /\ sinceActivity' \in 0..StreamIdle /\ sinceStream' \in -1..StreamIdle
          /\ elapsed' \in 0..(MaxWait + 1)
      <4>1. StreamIdle \in Nat /\ 0 \in 0..StreamIdle /\ 0 \in -1..StreamIdle
        BY CollectorConstants
      <4>2. /\ elapsed' = elapsed
            /\ sinceActivity' \in {0, sinceActivity} /\ sinceStream' \in {0, sinceStream}
        BY <3>0 DEF MarkActivity, MarkStreamActivity
      <4> QED
        BY <4>1, <4>2 DEF IndInv, TypeOK
    <3>4. eventSources' \in SUBSET Requests /\ ended' \in SUBSET Requests
      BY <3>0 DEF IndInv, TypeOK
    <3>5. TypeOK'
      BY <1>0, <1>2, <3>1, <3>2, <3>3, <3>4 DEF IndInv, TypeOK
    <3>6. TrackedAsOpen'
      <4>1. \A q \in eventSources' : q \in active \/ (wire[q] = "finished" /\ msgs'[q] > 0)
        <5> SUFFICES ASSUME NEW q \in eventSources'
                     PROVE  q \in active \/ (wire[q] = "finished" /\ msgs'[q] > 0)
          OBVIOUS
        <5>1. CASE q \in eventSources
          <6>1. q \in Requests
            BY <5>1 DEF IndInv, TypeOK
          <6> QED
            BY <5>1, <6>1, <3>2 DEF IndInv, TrackedAsOpen
        <5>2. CASE q = r /\ wire[r] \in {"open", "finished"}
          BY <2>2, <3>2, <5>2 DEF IndInv, TrackedAsOpen
        <5> QED
          BY <3>0, <5>1, <5>2
      <4> QED
        BY <1>0, <3>0, <4>1 DEF IndInv, TrackedAsOpen, OpenStreams
    <3>7. OnlyObserved'
      <4>1. \A q \in Requests : bytes'[q] > 0 \/ copies'[q] > 0 => q \in order
        BY <1>0, <2>2, <3>1 DEF IndInv, OnlyObserved
      <4> QED
        BY <1>0, <2>2, <3>0, <4>1 DEF IndInv, OnlyObserved, OpenStreams
    <3>8. FinishedBodyAsked' /\ ObservedInv'
      BY <1>0, <3>0 DEF IndInv, FinishedBodyAsked, ObservedInv
    <3>9. WholeInv'
      <4> SUFFICES ASSUME ~truncated'
                   PROVE  /\ refused' = {}
                          /\ \A q \in Requests : bytes'[q] = offered'[q]
                          /\ cut' = {}
        BY DEF WholeInv
      <4>1. ~truncated /\ cut' = cut
        BY <3>1, Zenon
      <4>2. refused = {} /\ cut = {} /\ \A q \in Requests : bytes[q] = offered[q]
        BY <1>0, <4>1, Zenon DEF IndInv, WholeInv
      <4>3. bytes'[r] = bytes[r] + n /\ offered'[r] = offered[r] + n
        BY <3>1, Zenon
      <4> QED
        BY <1>0, <3>1, <4>1, <4>2, <4>3
    <3> QED
      BY <3>5, <3>6, <3>7, <3>8, <3>9
  <2> QED
    BY <2>1, <2>2
<1> QED
  BY <1>3, <1>4 DEF IndInv

\* The end of a connection ends what is tracked of it, except for an event
\* source that has delivered, and puts its body in pendingBodies once more.
LEMMA LoadingDoneInd ==
  ASSUME IndInv, NEW r \in Requests, NEW ok \in BOOLEAN, LoadingDone(r, ok)
  PROVE  IndInv'
<1> USE DEF Receiving, loopVars, historyVars
<1>0. /\ phase # "done"
      /\ wire' = [wire EXCEPT ![r] = IF ok THEN "finished" ELSE "failed"]
      /\ active' = active \ {r} /\ webSockets' = webSockets \ {r}
      /\ streams' = streams \ {r}
      /\ UNCHANGED <<sent, order, bytes, msgs, cut, total, truncated, missing,
                     phase, batch, fetching, ready, reason, lost, offered,
                     copies, asked, refused, inflateCut>>
  BY DEF LoadingDone, Awaiting
<1>1. /\ \A q \in Requests : q # r => wire'[q] = wire[q]
      /\ wire'[r] = (IF ok THEN "finished" ELSE "failed")
      /\ wire' \in [Requests -> {"new", "open", "finished", "failed"}]
  BY <1>0 DEF IndInv, TypeOK
<1>2. /\ wire[r] \in {"open", "finished"}
      /\ wire[r] = "open" \/ ~ShouldFetch(r)
      /\ wire[r] # "new"
  BY DEF LoadingDone, ShouldFetch
<1>3. /\ eventSources' \in {eventSources, eventSources \ {r}}
      /\ ended' \in {ended, ended \cup {r}, ended \ {r}}
      /\ pending' = (IF r \in order /\ ShouldFetch(r) THEN pending \cup {r} ELSE pending)
      /\ r \in eventSources' => r \notin order \/ KeepsOpen(r, ok)
  BY DEF LoadingDone, PendAfterDone
<1>4. /\ sinceActivity' \in 0..StreamIdle /\ sinceStream' \in -1..StreamIdle
      /\ elapsed' \in 0..(MaxWait + 1)
  <2>1. StreamIdle \in Nat /\ 0 \in 0..StreamIdle
    BY CollectorConstants
  <2>2. elapsed' = elapsed /\ sinceActivity' \in {0, sinceActivity} /\ sinceStream' = sinceStream
    BY DEF LoadingDone, clockVars, MarkActivity
  <2> QED
    BY <2>1, <2>2 DEF IndInv, TypeOK
<1>5. TypeOK'
  <2>1. /\ active' \in SUBSET Requests /\ webSockets' \in SUBSET Requests
        /\ streams' \in SUBSET Requests
    BY <1>0 DEF IndInv, TypeOK
  <2>2. /\ eventSources' \in SUBSET Requests /\ ended' \in SUBSET Requests
        /\ pending' \in SUBSET Requests
    BY <1>3 DEF IndInv, TypeOK
  <2>3. TypeOK
    BY DEF IndInv
  <2>4. wire' \in [Requests -> {"new", "open", "finished", "failed"}]
    BY <1>1
  <2> QED
    BY <1>0, <1>4, <2>1, <2>2, <2>3, <2>4 DEF TypeOK
<1>6. TrackedAsOpen'
  <2>1. \A q \in eventSources' : q \in active' \/ (wire'[q] = "finished" /\ msgs[q] > 0)
    <3> SUFFICES ASSUME NEW q \in eventSources'
                 PROVE  q \in active' \/ (wire'[q] = "finished" /\ msgs[q] > 0)
      OBVIOUS
    <3>1. CASE q = r
      <4>1. r \in order
        BY <1>3, <3>1 DEF IndInv, OnlyObserved, OpenStreams
      <4> QED
        BY <1>1, <1>3, <3>1, <4>1 DEF KeepsOpen
    <3>2. CASE q # r
      <4>1. q \in Requests /\ q \in eventSources
        BY <1>3 DEF IndInv, TypeOK
      <4> QED
        BY <1>0, <1>1, <3>2, <4>1 DEF IndInv, TrackedAsOpen
    <3> QED
      BY <3>1, <3>2
  <2>2. \A q \in order : wire'[q] = "open" =>
          q \in active' /\ (IsStream(q) => q \in (eventSources' \cup streams'))
    <3> SUFFICES ASSUME NEW q \in order, wire'[q] = "open"
                 PROVE  q \in active' /\ (IsStream(q) => q \in (eventSources' \cup streams'))
      OBVIOUS
    <3>1. q # r /\ q \in Requests
      BY <1>1 DEF IndInv, TypeOK
    <3>2. wire[q] = "open"
      BY <1>1, <3>1
    <3>3. q \in active /\ (IsStream(q) => q \in (eventSources \cup streams))
      BY <3>2 DEF IndInv, TrackedAsOpen, OpenStreams
    <3> QED
      BY <1>0, <1>3, <3>1, <3>3
  <2>3. \A q \in active' : q \in order /\ wire'[q] = "open"
    BY <1>0, <1>1 DEF IndInv, TypeOK, TrackedAsOpen
  <2>4. streams' \subseteq active' /\ webSockets' \subseteq active'
    BY <1>0 DEF IndInv, TrackedAsOpen
  <2> QED
    BY <1>0, <2>1, <2>2, <2>3, <2>4 DEF TrackedAsOpen, OpenStreams
<1>7. OnlyObserved'
  BY <1>0, <1>3 DEF IndInv, OnlyObserved, OpenStreams
<1>8. FinishedBodyAsked'
  <2> SUFFICES ASSUME NEW q \in order, ShouldFetch(q), wire'[q] \in {"finished", "failed"}
               PROVE  q \in pending' \cup batch \cup asked
    BY <1>0 DEF FinishedBodyAsked
  <2>1. CASE q = r
    BY <1>3, <2>1
  <2>2. CASE q # r
    <3>1. wire'[q] = wire[q]
      BY <1>1, <2>2 DEF IndInv, TypeOK
    <3>2. q \in pending \cup batch \cup asked
      BY <3>1 DEF IndInv, FinishedBodyAsked
    <3> QED
      BY <1>3, <3>2
  <2> QED
    BY <2>1, <2>2
<1>9. ObservedInv'
  BY <1>0, <1>1, <1>2, <1>3 DEF IndInv, TypeOK, ObservedInv
<1>10. FetchInv'
  <2>1. \A q \in Requests :
          copies'[q] + Count(q, pending)' + Count(q, batch \cup {fetching})'
            <= (IF wire'[q] = "open" THEN 1 ELSE 2)
    <3> SUFFICES ASSUME NEW q \in Requests
                 PROVE  copies'[q] + Count(q, pending)' + Count(q, batch \cup {fetching})'
                          <= (IF wire'[q] = "open" THEN 1 ELSE 2)
      OBVIOUS
    <3>1. copies[q] \in Nat
      BY DEF IndInv, TypeOK
    <3>2. CASE q = r
      <4>1. wire'[r] # "open"
        BY <1>1
      <4>2. CASE wire[r] = "open"
        <5>1. copies[r] + Count(r, pending) + Count(r, batch \cup {fetching}) <= 1
          BY <4>2 DEF IndInv, FetchInv
        <5>2. /\ Count(r, pending) \in {0, 1} /\ Count(r, pending)' \in {0, 1}
              /\ Count(r, batch \cup {fetching}) \in {0, 1}
              /\ Count(r, batch \cup {fetching})' = Count(r, batch \cup {fetching})
              /\ copies' = copies
          BY <1>0 DEF Count
        <5>3. copies[r] + Count(r, pending)' + Count(r, batch \cup {fetching}) <= 2
          BY <3>1, <3>2, <5>1, <5>2
        <5> QED
          BY <3>2, <4>1, <5>2, <5>3
      <4>3. CASE wire[r] # "open"
        <5>1. pending' = pending
          BY <1>2, <1>3, <4>3
        <5>2. copies[r] + Count(r, pending) + Count(r, batch \cup {fetching}) <= 2
          BY <4>3 DEF IndInv, FetchInv
        <5> QED
          BY <1>0, <3>2, <4>1, <5>1, <5>2 DEF Count
      <4> QED
        BY <4>2, <4>3
    <3>3. CASE q # r
      <4>1. wire'[q] = wire[q]
        BY <1>1, <3>3
      <4>2. Count(q, pending)' = Count(q, pending)
        BY <1>3, <3>3 DEF Count
      <4>3. Count(q, batch \cup {fetching})' = Count(q, batch \cup {fetching}) /\ copies' = copies
        BY <1>0 DEF Count
      <4> QED
        BY <4>1, <4>2, <4>3 DEF IndInv, FetchInv
    <3> QED
      BY <3>2, <3>3
  <2>2. \A q \in Requests : q \in (pending \cup batch \cup {fetching})' => ShouldFetch(q)
    BY <1>0, <1>3 DEF IndInv, FetchInv
  <2> QED
    BY <1>0, <2>1, <2>2 DEF IndInv, FetchInv
<1>11. WholeInv'
  BY <1>0 DEF IndInv, WholeInv
<1> QED
  BY <1>5, <1>6, <1>7, <1>8, <1>9, <1>10, <1>11 DEF IndInv

\* A closed socket is no longer tracked.
LEMMA WebSocketClosedInd ==
  ASSUME IndInv, NEW r \in Requests, WebSocketClosed(r)
  PROVE  IndInv'
<1> USE DEF Receiving, loopVars, historyVars
<1>0. /\ phase # "done" /\ Kind[r] = "websocket" /\ wire[r] = "open"
      /\ wire' = [wire EXCEPT ![r] = "finished"]
      /\ active' = active \ {r} /\ webSockets' = webSockets \ {r}
      /\ ended' \in {ended, ended \cup {r}}
      /\ UNCHANGED <<sent, order, bytes, msgs, cut, eventSources, streams, pending,
                     total, truncated, missing, phase, batch, fetching, ready,
                     reason, lost, offered, copies, asked, refused, inflateCut>>
  BY DEF WebSocketClosed, Awaiting
<1>1. /\ \A q \in Requests : q # r => wire'[q] = wire[q]
      /\ wire'[r] = "finished"
      /\ wire' \in [Requests -> {"new", "open", "finished", "failed"}]
  BY <1>0 DEF IndInv, TypeOK
<1>2. ~ShouldFetch(r) /\ r \notin eventSources /\ r \notin streams
  BY <1>0 DEF ShouldFetch, IndInv, ObservedInv
<1>3. /\ sinceActivity' \in 0..StreamIdle /\ sinceStream' \in -1..StreamIdle
      /\ elapsed' \in 0..(MaxWait + 1)
  <2>1. StreamIdle \in Nat /\ 0 \in 0..StreamIdle
    BY CollectorConstants
  <2>2. elapsed' = elapsed /\ sinceActivity' \in {0, sinceActivity} /\ sinceStream' = sinceStream
    BY DEF WebSocketClosed, clockVars, MarkActivity
  <2> QED
    BY <2>1, <2>2 DEF IndInv, TypeOK
<1>4. TypeOK'
  BY <1>0, <1>1, <1>3 DEF IndInv, TypeOK
<1>5. TrackedAsOpen'
  <2>1. \A q \in order : wire'[q] = "open" =>
          q \in active' /\ (IsStream(q) => q \in OpenStreams)
    BY <1>0, <1>1 DEF IndInv, TypeOK, TrackedAsOpen
  <2>2. \A q \in active' : q \in order /\ wire'[q] = "open"
    BY <1>0, <1>1 DEF IndInv, TypeOK, TrackedAsOpen
  <2>3. streams \subseteq active' /\ webSockets' \subseteq active'
    BY <1>0, <1>2 DEF IndInv, TrackedAsOpen
  <2>4. \A q \in eventSources : q \in active' \/ (wire'[q] = "finished" /\ msgs[q] > 0)
    <3> SUFFICES ASSUME NEW q \in eventSources
                 PROVE  q \in active' \/ (wire'[q] = "finished" /\ msgs[q] > 0)
      OBVIOUS
    <3>1. q # r /\ q \in Requests
      BY <1>2 DEF IndInv, TypeOK
    <3>2. q \in active \/ (wire[q] = "finished" /\ msgs[q] > 0)
      BY DEF IndInv, TrackedAsOpen
    <3>3. wire'[q] = wire[q]
      BY <1>1, <3>1
    <3> QED
      BY <1>0, <3>1, <3>2, <3>3, Zenon
  <2> QED
    BY <1>0, <2>1, <2>2, <2>3, <2>4 DEF TrackedAsOpen, OpenStreams
<1>6. OnlyObserved' /\ WholeInv'
  BY <1>0 DEF IndInv, OnlyObserved, WholeInv, OpenStreams
<1>7. FinishedBodyAsked'
  BY <1>0, <1>1, <1>2 DEF IndInv, TypeOK, FinishedBodyAsked
<1>8. ObservedInv'
  BY <1>0, <1>1 DEF IndInv, TypeOK, ObservedInv
<1>9. FetchInv'
  <2>1. \A q \in Requests :
          copies'[q] + Count(q, pending)' + Count(q, batch \cup {fetching})'
            <= (IF wire'[q] = "open" THEN 1 ELSE 2)
    <3> SUFFICES ASSUME NEW q \in Requests
                 PROVE  copies[q] + Count(q, pending) + Count(q, batch \cup {fetching})
                          <= (IF wire'[q] = "open" THEN 1 ELSE 2)
      BY <1>0 DEF Count
    <3>1. copies[q] + Count(q, pending) + Count(q, batch \cup {fetching})
            <= (IF wire[q] = "open" THEN 1 ELSE 2)
      BY DEF IndInv, FetchInv
    <3>2. copies[q] \in Nat
      BY DEF IndInv, TypeOK
    <3>3. Count(q, pending) \in {0, 1} /\ Count(q, batch \cup {fetching}) \in {0, 1}
      BY DEF Count
    <3> QED
      BY <1>1, <3>1, <3>2, <3>3
  <2> QED
    BY <1>0, <2>1 DEF IndInv, FetchInv
<1> QED
  BY <1>4, <1>5, <1>6, <1>7, <1>8, <1>9 DEF IndInv

\* takePendingBodies moves every pending body to an empty batch.
LEMMA ReadyReplyInd ==
  ASSUME IndInv, NEW isReady \in BOOLEAN, ReadyReply(isReady)
  PROVE  IndInv'
<1> USE DEF resourceVars, trackingVars, historyVars
<1>0. /\ phase = "ready" /\ phase' = "loop" /\ batch' = pending /\ pending' = {}
      /\ UNCHANGED <<wire, sent, order, bytes, msgs, cut, ended, active,
                     eventSources, streams, webSockets, total, truncated,
                     missing, fetching, reason, lost, offered, copies, asked,
                     refused, inflateCut>>
  BY DEF ReadyReply
<1>1. batch = {} /\ fetching = NoRequest
  BY <1>0 DEF IndInv, FetchInv, TypeOK
<1>2. /\ ready' \in -1..ReadyMin /\ sinceActivity' \in 0..StreamIdle
      /\ sinceStream' \in -1..StreamIdle /\ elapsed' \in 0..(MaxWait + 1)
  <2>1. StreamIdle \in Nat /\ ReadyMin \in Nat /\ 0 \in 0..StreamIdle /\ 0 \in -1..ReadyMin
    BY CollectorConstants
  <2>2. /\ elapsed' = elapsed /\ sinceStream' = sinceStream
        /\ sinceActivity' \in {0, sinceActivity} /\ ready' \in {0, ready}
    BY DEF ReadyReply, clockVars, MarkActivity
  <2> QED
    BY <2>1, <2>2 DEF IndInv, TypeOK
<1>3. TypeOK'
  BY <1>0, <1>1, <1>2 DEF IndInv, TypeOK, Phases
<1>4. TrackedAsOpen' /\ OnlyObserved' /\ FinishedBodyAsked'
  BY <1>0, <1>1 DEF IndInv, TrackedAsOpen, OnlyObserved, FinishedBodyAsked, OpenStreams
<1>5. ObservedInv' /\ WholeInv'
  BY <1>0 DEF IndInv, ObservedInv, WholeInv, OpenStreams
<1>6. FetchInv'
  <2>1. \A q \in Requests :
          copies'[q] + Count(q, pending)' + Count(q, batch \cup {fetching})'
            <= (IF wire'[q] = "open" THEN 1 ELSE 2)
    <3> SUFFICES ASSUME NEW q \in Requests
                 PROVE  copies'[q] + Count(q, pending)' + Count(q, batch \cup {fetching})'
                          <= (IF wire'[q] = "open" THEN 1 ELSE 2)
      OBVIOUS
    <3>1. /\ Count(q, pending)' = Count(q, batch \cup {fetching})
          /\ Count(q, batch \cup {fetching})' = Count(q, pending)
      BY <1>0, <1>1, CollectorConstants DEF Count
    <3>2. copies[q] \in Nat
      BY DEF IndInv, TypeOK
    <3>3. Count(q, pending) \in {0, 1} /\ Count(q, batch \cup {fetching}) \in {0, 1}
      BY DEF Count
    <3> QED
      BY <1>0, <3>1, <3>2, <3>3 DEF IndInv, FetchInv
  <2> QED
    BY <1>0, <1>1, <2>1, CollectorConstants DEF IndInv, FetchInv, TypeOK
<1> QED
  BY <1>3, <1>4, <1>5, <1>6 DEF IndInv

\* Asking for a body moves it from the batch to the wire.
LEMMA AskBodyInd ==
  ASSUME IndInv, NEW r \in Requests, AskBody(r)
  PROVE  IndInv'
<1> USE DEF collectorVars, resourceVars, trackingVars, clockVars
<1>0. /\ phase = "loop" /\ phase' = "fetch" /\ r \in batch
      /\ batch' = batch \ {r} /\ fetching' = r
      /\ asked' = (IF wire[r] = "open" THEN asked ELSE asked \cup {r})
      /\ UNCHANGED <<wire, sent, order, bytes, msgs, cut, ended, active,
                     eventSources, streams, webSockets, pending, total,
                     truncated, missing, ready, reason, elapsed, sinceActivity,
                     sinceStream, lost, offered, copies, refused, inflateCut>>
  BY DEF AskBody
<1>1. fetching = NoRequest /\ r # NoRequest
  BY <1>0, CollectorConstants DEF IndInv, TypeOK
<1>2. TypeOK'
  BY <1>0, <1>1 DEF IndInv, TypeOK, Phases, Awaiting
<1>3. TrackedAsOpen' /\ OnlyObserved'
  BY <1>0 DEF IndInv, TrackedAsOpen, OnlyObserved, OpenStreams
<1>4. FinishedBodyAsked'
  BY <1>0 DEF IndInv, FinishedBodyAsked
<1>5. ObservedInv' /\ WholeInv'
  BY <1>0 DEF IndInv, ObservedInv, WholeInv, OpenStreams
<1>6. FetchInv'
  <2>1. \A q \in Requests : q \in batch' \cup {fetching'} <=> q \in batch \cup {fetching}
    BY <1>0, <1>1, CollectorConstants
  <2>2. \A q \in Requests : Count(q, batch \cup {fetching})' = Count(q, batch \cup {fetching})
    BY <2>1 DEF Count
  <2>3. r \in order
    BY <1>0 DEF IndInv, OnlyObserved
  <2>4. \A q \in Requests : Count(q, pending)' = Count(q, pending)
    BY <1>0 DEF Count
  <2>5. \A q \in Requests :
          copies'[q] + Count(q, pending)' + Count(q, batch \cup {fetching})'
            <= (IF wire'[q] = "open" THEN 1 ELSE 2)
    BY <1>0, <2>2, <2>4 DEF IndInv, FetchInv
  <2> QED
    BY <1>0, <2>1, <2>3, <2>5 DEF IndInv, FetchInv
<1> QED
  BY <1>2, <1>3, <1>4, <1>5, <1>6 DEF IndInv

\* After its reply, no body is awaited: the count of each drops by one use.
LEMMA AnsweredInd ==
  ASSUME IndInv, phase = "fetch", fetching' = NoRequest, phase' = "loop",
         UNCHANGED <<pending, batch, order, wire>>,
         \A q \in Requests : copies'[q] = copies[q] \/ (q = fetching /\ copies'[q] = copies[q] + 1)
  PROVE  FetchInv'
<1>1. fetching \in Requests /\ fetching \notin batch
  BY DEF IndInv, TypeOK, FetchInv
<1>2. \A q \in Requests :
        copies'[q] + Count(q, pending)' + Count(q, batch \cup {fetching})'
          <= (IF wire'[q] = "open" THEN 1 ELSE 2)
  <2> SUFFICES ASSUME NEW q \in Requests
               PROVE  copies'[q] + Count(q, pending)' + Count(q, batch \cup {fetching})'
                        <= (IF wire'[q] = "open" THEN 1 ELSE 2)
    OBVIOUS
  <2>1. copies[q] \in Nat
    BY DEF IndInv, TypeOK
  <2>2. Count(q, pending)' = Count(q, pending) /\ Count(q, pending) \in {0, 1}
    BY DEF Count
  <2>3. copies[q] + Count(q, pending) + Count(q, batch \cup {fetching})
          <= (IF wire[q] = "open" THEN 1 ELSE 2)
    BY DEF IndInv, FetchInv
  <2>4. CASE q = fetching
    <3>1. Count(q, batch \cup {fetching}) = 1 /\ Count(q, batch \cup {fetching})' = 0
      BY <1>1, <2>4, CollectorConstants DEF Count
    <3> QED
      BY <2>1, <2>2, <2>3, <3>1
  <2>5. CASE q # fetching
    <3>1. Count(q, batch \cup {fetching})' = Count(q, batch \cup {fetching})
      BY <2>5, CollectorConstants DEF Count
    <3> QED
      BY <2>2, <2>3, <2>5, <3>1
  <2> QED
    BY <2>4, <2>5
<1>3. NoRequest \notin Requests /\ batch \subseteq Requests
  BY CollectorConstants DEF IndInv, TypeOK
<1> QED
  BY <1>2, <1>3 DEF IndInv, FetchInv

\* A failed fetch only counts as unavailable.
LEMMA BodyErrorInd ==
  ASSUME IndInv, BodyError
  PROVE  IndInv'
<1> USE DEF resourceVars, trackingVars, historyVars, clockVars
<1>0. /\ phase = "fetch" /\ missing' = missing + 1
      /\ fetching' = NoRequest /\ phase' = "loop"
      /\ UNCHANGED <<wire, sent, order, bytes, msgs, cut, ended, active,
                     eventSources, streams, webSockets, pending, total, batch,
                     truncated, ready, reason, elapsed, sinceActivity,
                     sinceStream, lost, offered, copies, asked, refused,
                     inflateCut>>
  BY DEF BodyError
<1>1. missing' \in Nat
  <2>1. missing \in Nat
    BY DEF IndInv, TypeOK
  <2> QED
    BY <1>0, <2>1
<1>2. TypeOK'
  BY <1>0, <1>1 DEF IndInv, TypeOK, Phases
<1>3. TrackedAsOpen' /\ OnlyObserved' /\ FinishedBodyAsked'
  BY <1>0 DEF IndInv, TrackedAsOpen, OnlyObserved, FinishedBodyAsked, OpenStreams
<1>4. ObservedInv' /\ WholeInv'
  BY <1>0 DEF IndInv, ObservedInv, WholeInv, OpenStreams
<1>5. FetchInv'
  BY <1>0, AnsweredInd
<1> QED
  BY <1>2, <1>3, <1>4, <1>5 DEF IndInv

\* A body that is not text leaves nothing behind.
LEMMA BodyUnusableInd ==
  ASSUME IndInv, BodyUnusable
  PROVE  IndInv'
<1> USE DEF collectorVars, resourceVars, trackingVars, historyVars, clockVars
<1>0. /\ phase = "fetch" /\ fetching' = NoRequest /\ phase' = "loop"
      /\ UNCHANGED <<wire, sent, order, bytes, msgs, cut, ended, active, missing,
                     eventSources, streams, webSockets, pending, total, batch,
                     truncated, ready, reason, elapsed, sinceActivity,
                     sinceStream, lost, offered, copies, asked, refused,
                     inflateCut>>
  BY DEF BodyUnusable
<1>1. TypeOK'
  BY <1>0 DEF IndInv, TypeOK, Phases
<1>2. TrackedAsOpen' /\ OnlyObserved' /\ FinishedBodyAsked'
  BY <1>0 DEF IndInv, TrackedAsOpen, OnlyObserved, FinishedBodyAsked, OpenStreams
<1>3. ObservedInv' /\ WholeInv'
  BY <1>0 DEF IndInv, ObservedInv, WholeInv, OpenStreams
<1>4. FetchInv'
  BY <1>0, AnsweredInd
<1> QED
  BY <1>1, <1>2, <1>3, <1>4 DEF IndInv

\* A captured body adds to its resource, up to the budgets.
LEMMA BodyTextInd ==
  ASSUME IndInv, NEW n \in Sizes, NEW gzip \in BOOLEAN, BodyText(n, gzip)
  PROVE  IndInv'
<1> USE DEF trackingVars
<1> DEFINE data == IF gzip /\ n > ResourceMaxBytes THEN ResourceMaxBytes ELSE n
<1>0. /\ phase = "fetch" /\ fetching' = NoRequest /\ phase' = "loop"
      /\ AppendToResource(fetching, data)
      /\ inflateCut' = (IF data < n THEN TRUE ELSE inflateCut)
      /\ copies' = [copies EXCEPT ![fetching] = @ + 1]
      /\ MarkActivity
      /\ UNCHANGED <<wire, sent, order, msgs, ended, active, eventSources,
                     streams, webSockets, pending, missing, batch, ready,
                     reason, lost, asked, refused>>
  BY DEF BodyText
<1>1. data \in Nat
  <2>1. n \in Nat /\ ResourceMaxBytes \in Nat
    BY CollectorConstants
  <2> QED
    BY <2>1
<1>2. inflateCut' \in BOOLEAN
  BY <1>0, Zenon DEF IndInv, TypeOK
<1> HIDE DEF data
<1>3. fetching \in Requests /\ fetching \in order
  BY <1>0 DEF IndInv, TypeOK, FetchInv
<1>4. /\ bytes' \in [Requests -> Nat] /\ offered' \in [Requests -> Nat]
      /\ total' \in Nat /\ truncated' \in BOOLEAN /\ cut' \in SUBSET Requests
      /\ \A q \in Requests : q # fetching => bytes'[q] = bytes[q] /\ offered'[q] = offered[q]
      /\ offered'[fetching] = offered[fetching] + data
      /\ ~truncated' => ~truncated /\ cut' = cut /\ bytes'[fetching] = bytes[fetching] + data
  BY <1>0, <1>1, <1>3, AppendFacts, Zenon DEF IndInv
<1>5. /\ copies' \in [Requests -> Nat]
      /\ copies'[fetching] = copies[fetching] + 1
      /\ \A q \in Requests : q # fetching => copies'[q] = copies[q]
  <2>1. copies \in [Requests -> Nat]
    BY DEF IndInv, TypeOK
  <2> QED
    BY <1>0, <1>3, <2>1
<1>6. /\ sinceActivity' \in 0..StreamIdle /\ sinceStream' \in -1..StreamIdle
      /\ elapsed' \in 0..(MaxWait + 1)
  <2>1. StreamIdle \in Nat /\ 0 \in 0..StreamIdle
    BY CollectorConstants
  <2>2. elapsed' = elapsed /\ sinceActivity' = 0 /\ sinceStream' = sinceStream
    BY <1>0 DEF MarkActivity
  <2> QED
    BY <2>1, <2>2 DEF IndInv, TypeOK
<1>7. TypeOK'
  BY <1>0, <1>2, <1>4, <1>5, <1>6 DEF IndInv, TypeOK, Phases
<1>8. TrackedAsOpen' /\ FinishedBodyAsked'
  BY <1>0 DEF IndInv, TrackedAsOpen, FinishedBodyAsked, OpenStreams
<1>9. OnlyObserved'
  <2>1. \A q \in Requests : bytes'[q] > 0 \/ copies'[q] > 0 => q \in order
    BY <1>3, <1>4, <1>5 DEF IndInv, OnlyObserved
  <2> QED
    BY <1>0, <2>1 DEF IndInv, OnlyObserved, OpenStreams
<1>10. ObservedInv'
  BY <1>0 DEF IndInv, ObservedInv
<1>11. FetchInv'
  BY <1>0, <1>5, AnsweredInd
<1>12. WholeInv'
  <2> SUFFICES ASSUME ~truncated'
               PROVE  /\ refused' = {} /\ cut' = {}
                      /\ \A q \in Requests : bytes'[q] = offered'[q]
    BY DEF WholeInv
  <2>1. ~truncated /\ cut' = cut /\ bytes'[fetching] = bytes[fetching] + data
    BY <1>4, Zenon
  <2>2. phase # "done"
    BY <1>0
  <2>3. refused = {} /\ cut = {} /\ \A q \in Requests : bytes[q] = offered[q]
    BY <2>1, <2>2, Zenon DEF IndInv, WholeInv
  <2> QED
    BY <1>0, <1>3, <1>4, <2>1, <2>3
<1> QED
  BY <1>7, <1>8, <1>9, <1>10, <1>11, <1>12 DEF IndInv

\* The snapshot marks the open streams as cut, and reports them.
LEMMA SnapshotInd ==
  ASSUME IndInv, Snapshot
  PROVE  IndInv'
<1> USE DEF trackingVars, historyVars, clockVars
<1>0. /\ phase = "href" /\ phase' = "done" /\ cut' = cut \cup (order \cap OpenStreams)
      /\ UNCHANGED <<wire, sent, order, bytes, msgs, ended, active, missing,
                     eventSources, streams, webSockets, pending, total, batch,
                     fetching, truncated, ready, reason, elapsed,
                     sinceActivity, sinceStream, lost, offered, copies, asked,
                     refused, inflateCut>>
  BY DEF Snapshot
<1>1. TypeOK'
  BY <1>0 DEF IndInv, TypeOK, Phases, Awaiting
<1>2. TrackedAsOpen' /\ OnlyObserved' /\ FinishedBodyAsked'
  BY <1>0 DEF IndInv, TrackedAsOpen, OnlyObserved, FinishedBodyAsked, OpenStreams
<1>3. ObservedInv'
  BY <1>0 DEF IndInv, ObservedInv
<1>4. WholeInv'
  BY <1>0 DEF IndInv, WholeInv, OpenStreams
<1>5. FetchInv'
  BY <1>0 DEF IndInv, FetchInv, Count
<1> QED
  BY <1>1, <1>2, <1>3, <1>4, <1>5 DEF IndInv

\* The remaining steps are frames: time, the context, and the loop's moves.
LEMMA QuietInd ==
  ASSUME IndInv,
         \/ \E r \in Requests : Data(r)
         \/ SettleCheck \/ Wake \/ WakeDone
         \/ \E ok \in BOOLEAN : HtmlReply(ok)
         \/ Tick \/ LoseConnection \/ ContextDone
         \/ UNCHANGED vars
  PROVE  IndInv'
<1> USE DEF loopVars, clockVars
<1>1. StreamIdle \in Nat /\ ReadyMin \in Nat /\ MaxWait \in Nat
  BY CollectorConstants
<1>2. /\ ready \in -1..ReadyMin /\ elapsed \in 0..(MaxWait + 1)
      /\ sinceActivity \in 0..StreamIdle /\ sinceStream \in -1..StreamIdle
      /\ lost \in {"no", "conn", "ctx"} /\ phase \in Phases
      /\ phase \notin {"loop", "fetch"} => batch = {}
  BY DEF IndInv, TypeOK, FetchInv
<1>3. reason \in {"", "settle_timeout", "event_source_idle", "stream_idle",
                  "network_idle_with_active_requests", "websocket_idle",
                  "network_idle"}
  BY DEF IndInv, TypeOK
<1>4. CASE \E r \in Requests : Data(r)
  <2>1. /\ UNCHANGED <<wire, sent, collectorVars, loopVars, lost, historyVars>>
        /\ sinceActivity' = 0 /\ sinceStream' = 0 /\ elapsed' = elapsed
    BY <1>4 DEF Data, MarkStreamActivity
  <2>2. sinceActivity' \in 0..StreamIdle /\ sinceStream' \in -1..StreamIdle
    BY <1>1, <2>1
  <2> QED
    BY <1>2, <1>3, <2>1, <2>2, FrameInd
<1>5. CASE SettleCheck
  <2>1. SettledReason \in {"", "event_source_idle", "stream_idle",
                           "network_idle_with_active_requests",
                           "websocket_idle", "network_idle"}
    BY DEF SettledReason
  <2>2. /\ UNCHANGED <<wire, sent, collectorVars, batch, fetching, ready, clockVars,
                       lost, historyVars>>
        /\ phase = "loop" /\ phase' \in {"html", "sleep"} /\ batch = {}
        /\ reason' \in {SettledReason, reason}
    BY <1>5 DEF SettleCheck
  <2>3. phase' \in Phases
    BY <2>2 DEF Phases, Awaiting
  <2> QED
    BY <1>2, <1>3, <2>1, <2>2, <2>3, FrameInd
<1>6. CASE Wake \/ WakeDone
  <2>1. /\ UNCHANGED <<wire, sent, collectorVars, batch, fetching, ready, clockVars,
                       lost, historyVars>>
        /\ phase = "sleep" /\ phase' \in {"html", "ready"}
        /\ reason' \in {"settle_timeout", reason}
    BY <1>6 DEF Wake, WakeDone
  <2>2. phase' \in Phases
    BY <2>1 DEF Phases, Awaiting
  <2> QED
    BY <1>2, <1>3, <2>1, <2>2, FrameInd
<1>7. CASE \E ok \in BOOLEAN : HtmlReply(ok)
  <2>1. /\ UNCHANGED <<wire, sent, collectorVars, batch, fetching, ready, reason,
                       clockVars, lost, historyVars>>
        /\ phase = "html" /\ phase' \in {"href", "failed"}
    BY <1>7 DEF HtmlReply
  <2>2. phase' \in Phases
    BY <2>1 DEF Phases, Awaiting
  <2> QED
    BY <1>2, <1>3, <2>1, <2>2, FrameInd
<1>8. CASE Tick
  <2>1. UNCHANGED <<wire, sent, collectorVars, phase, batch, fetching, reason,
                    lost, historyVars>>
    BY <1>8 DEF Tick
  <2>2. /\ ready' \in -1..ReadyMin /\ elapsed' \in 0..(MaxWait + 1)
        /\ sinceActivity' \in 0..StreamIdle /\ sinceStream' \in -1..StreamIdle
    BY <1>1, <1>2, <1>8 DEF Tick, Saturate
  <2> QED
    BY <1>2, <1>3, <2>1, <2>2, FrameInd
<1>9. CASE LoseConnection \/ ContextDone
  <2>1. /\ UNCHANGED <<wire, sent, collectorVars, loopVars, clockVars, historyVars>>
        /\ lost' \in {"conn", "ctx"}
    BY <1>9 DEF LoseConnection, ContextDone
  <2> QED
    BY <1>2, <1>3, <2>1, FrameInd
<1>10. CASE UNCHANGED vars
  BY <1>2, <1>3, <1>10, FrameInd DEF vars
<1> QED
  BY <1>4, <1>5, <1>6, <1>7, <1>8, <1>9, <1>10

-----------------------------------------------------------------------------

\* Every step of the collector, of the browser and of the clock.
LEMMA StepInd ==
  ASSUME IndInv, [Next]_vars
  PROVE  IndInv'
<1>1. CASE \E r \in Requests : Event(r)
  <2>1. PICK r \in Requests : Event(r)
    BY <1>1
  <2> QED
    BY <2>1, ResponseInd, MessageInd, LoadingDoneInd, WebSocketClosedInd, QuietInd
       DEF Event
<1>2. CASE Loop
  BY <1>2, ReadyReplyInd, AskBodyInd, BodyErrorInd, BodyUnusableInd, BodyTextInd,
     SnapshotInd, QuietInd DEF Loop
<1>3. CASE Tick \/ LoseConnection \/ ContextDone \/ UNCHANGED vars
  BY <1>3, QuietInd
<1> QED
  BY <1>1, <1>2, <1>3 DEF Next

\* The inductive invariant holds of every render.
THEOREM Invariance == Spec => []IndInv
<1>1. Init => IndInv
  BY InitInd
<1> QED
  BY <1>1, StepInd, PTL DEF Spec

\* The collector's state has its types: handleEvent, the loop and the snapshot
\* never leave a budget negative or a body half-fetched.
THEOREM TypeCorrect == Spec => []TypeOK
<1>1. IndInv => TypeOK
  BY DEF IndInv
<1> QED
  BY <1>1, Invariance, PTL

\* A request is tracked as open exactly while its connection is.
THEOREM TrackingSafety == Spec => []TrackedAsOpen
<1>1. IndInv => TrackedAsOpen
  BY DEF IndInv
<1> QED
  BY <1>1, Invariance, PTL

\* Only observed requests, never more than maxResources, hold evidence.
THEOREM ObservationSafety == Spec => []OnlyObserved
<1>1. IndInv => OnlyObserved
  BY DEF IndInv
<1> QED
  BY <1>1, Invariance, PTL

\* No finished body is forgotten by takePendingBodies.
THEOREM BodySafety == Spec => []FinishedBodyAsked
<1>1. IndInv => FinishedBodyAsked
  BY DEF IndInv
<1> QED
  BY <1>1, Invariance, PTL

\* No body is captured more than twice, nor twice while it loads.
THEOREM CaptureSafety == Spec => []BodyAtMostTwice
<1>1. IndInv => BodyAtMostTwice
  <2> SUFFICES ASSUME IndInv, NEW r \in Requests
               PROVE  copies[r] <= (IF wire[r] = "open" THEN 1 ELSE 2)
    BY DEF BodyAtMostTwice
  <2>1. copies[r] \in Nat
    BY DEF IndInv, TypeOK
  <2>2. Count(r, pending) \in {0, 1} /\ Count(r, batch \cup {fetching}) \in {0, 1}
    BY DEF Count
  <2>3. copies[r] + Count(r, pending) + Count(r, batch \cup {fetching})
          <= (IF wire[r] = "open" THEN 1 ELSE 2)
    BY DEF IndInv, FetchInv
  <2> QED
    BY <2>1, <2>2, <2>3
<1> QED
  BY <1>1, Invariance, PTL

\* A render that is not reported truncated holds everything it was offered.
THEOREM TruncationSafety == Spec => []NotTruncatedIsWhole
<1>1. IndInv => NotTruncatedIsWhole
  <2> SUFFICES ASSUME IndInv, phase = "done", ~truncated, OpenStreams = {},
                      NEW r \in Requests, Relevant(r), wire[r] # "new"
               PROVE  /\ r \in order /\ bytes[r] = offered[r] /\ r \notin cut
                      /\ IsStream(r) => wire[r] # "open"
    BY DEF NotTruncatedIsWhole, PageTruncated
  <2>1. refused = {} /\ cut = {} /\ bytes[r] = offered[r]
    BY DEF IndInv, WholeInv
  <2>2. r \in order
    BY <2>1 DEF IndInv, ObservedInv
  <2>3. IsStream(r) => wire[r] # "open"
    BY <2>2 DEF IndInv, TrackedAsOpen
  <2> QED
    BY <2>1, <2>2, <2>3
<1> QED
  BY <1>1, Invariance, PTL

\* A tracked stream has a stream activity to be measured from.
THEOREM StampSafety == Spec => []StampedStreams
<1>1. Init => StampedStreams
  BY DEF Init, StampedStreams, OpenStreams
<1>2. IndInv /\ StampedStreams /\ [Next]_vars => StampedStreams'
  <2> SUFFICES ASSUME IndInv, StampedStreams, [Next]_vars
               PROVE  StampedStreams'
    OBVIOUS
  <2>1. sinceStream \in -1..StreamIdle /\ StreamIdle \in Nat
    BY CollectorConstants DEF IndInv, TypeOK
  <2>2. \/ sinceStream' = 0
        \/ OpenStreams' \subseteq OpenStreams /\ sinceStream' \in {sinceStream, Saturate(sinceStream, StreamIdle)}
    <3> USE DEF OpenStreams, loopVars, clockVars, collectorVars, trackingVars,
               MarkActivity, MarkStreamActivity
    <3>1. CASE \E r \in Requests : Response(r)
      BY <3>1 DEF Response
    <3>2. CASE \E r \in Requests, n \in Sizes : Message(r, n)
      BY <3>2 DEF Message
    <3>3. CASE \E r \in Requests : Data(r) \/ WebSocketClosed(r)
      BY <3>3 DEF Data, WebSocketClosed
    <3>4. CASE \E r \in Requests, ok \in BOOLEAN : LoadingDone(r, ok)
      BY <3>4 DEF LoadingDone
    <3>5. CASE \/ \E isReady \in BOOLEAN : ReadyReply(isReady)
               \/ \E r \in Requests : AskBody(r)
               \/ BodyError \/ BodyUnusable
               \/ \E n \in Sizes, gzip \in BOOLEAN : BodyText(n, gzip)
      BY <3>5 DEF ReadyReply, AskBody, BodyError, BodyUnusable, BodyText
    <3>6. CASE \/ SettleCheck \/ Wake \/ WakeDone \/ Snapshot
               \/ \E ok \in BOOLEAN : HtmlReply(ok)
      BY <3>6 DEF SettleCheck, Wake, WakeDone, Snapshot, HtmlReply
    <3>7. CASE Tick \/ LoseConnection \/ ContextDone \/ UNCHANGED vars
      BY <3>7 DEF Tick, LoseConnection, ContextDone, vars
    <3> QED
      BY <3>1, <3>2, <3>3, <3>4, <3>5, <3>6, <3>7 DEF Next, Event, Loop
  <2>3. sinceStream # -1 => Saturate(sinceStream, StreamIdle) # -1
    BY <2>1 DEF Saturate
  <2> QED
    BY <2>2, <2>3 DEF StampedStreams
<1> QED
  BY <1>1, <1>2, Invariance, PTL DEF Spec

StreamStep ==
  phase = "loop" /\ phase' = "html" =>
    \A r \in order : wire[r] = "open" /\ IsStream(r) =>
      elapsed >= MinObservation /\ sinceStream >= StreamIdle

QuietStep ==
  reason' = "network_idle" /\ reason = "" =>
    /\ \A r \in order : wire[r] # "open"
    /\ sinceActivity >= Idle

\* Only SettleCheck ends the wait with an idle reason.
LEMMA SettleSteps ==
  ASSUME IndInv, [Next]_vars
  PROVE  /\ phase = "loop" /\ phase' = "html" => SettleCheck
         /\ reason' = "network_idle" /\ reason = "" => SettleCheck
<1> USE DEF loopVars, vars
<1>1. CASE \E r \in Requests : Event(r)
  BY <1>1 DEF Event, Response, Message, Data, LoadingDone, WebSocketClosed
<1>2. CASE \/ \E isReady \in BOOLEAN : ReadyReply(isReady)
           \/ \E r \in Requests : AskBody(r)
           \/ BodyError \/ BodyUnusable
           \/ \E n \in Sizes, gzip \in BOOLEAN : BodyText(n, gzip)
  BY <1>2 DEF ReadyReply, AskBody, BodyError, BodyUnusable, BodyText
<1>3. CASE Wake \/ WakeDone \/ Snapshot \/ \E ok \in BOOLEAN : HtmlReply(ok)
  BY <1>3 DEF Wake, WakeDone, Snapshot, HtmlReply
<1>4. CASE Tick \/ LoseConnection \/ ContextDone \/ UNCHANGED vars
  BY <1>4 DEF Tick, LoseConnection, ContextDone
<1> QED
  BY <1>1, <1>2, <1>3, <1>4 DEF Next, Loop

\* Open streams keep the render alive while they produce.
THEOREM StreamPatience == Spec => StreamsKeepAlive
<1>1. IndInv /\ StampedStreams /\ [Next]_vars => StreamStep
  <2> SUFFICES ASSUME IndInv, StampedStreams, SettleCheck, phase' = "html",
                      NEW r \in order, wire[r] = "open", IsStream(r)
               PROVE  elapsed >= MinObservation /\ sinceStream >= StreamIdle
    BY SettleSteps DEF StreamStep
  <2>1. OpenStreams # {}
    BY DEF IndInv, TrackedAsOpen
  <2>2. SettledReason # ""
    BY DEF SettleCheck
  <2>3. /\ ~(elapsed < MinObservation)
        /\ ~(sinceStream = -1 /\ sinceActivity < StreamIdle)
        /\ ~(sinceStream # -1 /\ sinceStream < StreamIdle)
    BY <2>1, <2>2 DEF SettledReason
  <2>4. sinceStream # -1
    BY <2>1 DEF StampedStreams
  <2>5. elapsed \in Int /\ sinceStream \in Int /\ MinObservation \in Nat /\ StreamIdle \in Nat
    <3>1. MinObservation \in Nat /\ StreamIdle \in Nat /\ MaxWait \in Nat
      BY CollectorConstants
    <3>2. elapsed \in 0..(MaxWait + 1) /\ sinceStream \in -1..StreamIdle
      BY DEF IndInv, TypeOK
    <3> QED
      BY <3>1, <3>2
  <2> QED
    BY <2>3, <2>4, <2>5
<1>2. IndInv /\ StampedStreams /\ [Next]_vars => [StreamStep]_vars
  BY <1>1
<1> QED
  BY <1>2, Invariance, StampSafety, PTL DEF Spec, StreamsKeepAlive, StreamStep

\* A quiet network really is quiet.
THEOREM QuietSafety == Spec => QuietIsQuiet
<1>1. IndInv /\ [Next]_vars => QuietStep
  <2> SUFFICES ASSUME IndInv, [Next]_vars
               PROVE  QuietStep
    OBVIOUS
  <2> SUFFICES ASSUME SettleCheck, reason' = "network_idle", reason # "network_idle"
               PROVE  (\A r \in order : wire[r] # "open") /\ sinceActivity >= Idle
    BY SettleSteps DEF QuietStep
  <2>1. SettledReason = "network_idle"
    BY DEF SettleCheck
  <2>2. active = {} /\ ~(sinceActivity < Idle)
    BY <2>1 DEF SettledReason
  <2>3. sinceActivity \in Int /\ Idle \in Nat
    <3>1. StreamIdle \in Nat /\ Idle \in Nat
      BY CollectorConstants
    <3>2. sinceActivity \in 0..StreamIdle
      BY DEF IndInv, TypeOK
    <3> QED
      BY <3>1, <3>2
  <2>4. \A r \in order : wire[r] # "open"
    BY <2>2 DEF IndInv, TrackedAsOpen
  <2>5. sinceActivity >= Idle
    BY <2>2, <2>3
  <2> QED
    BY <2>4, <2>5
<1>2. IndInv /\ [Next]_vars => [QuietStep]_vars
  BY <1>1
<1> QED
  BY <1>2, Invariance, PTL DEF Spec, QuietIsQuiet, QuietStep
-----------------------------------------------------------------------------
(* What is retained *)

\* What a step does to the evidence: nothing, a resource that has no bytes
\* yet, or one appendToResource for an observed resource.
RetainedSteps ==
  \/ UNCHANGED <<order, bytes, total>>
  \/ \E r \in Requests : /\ order' = order \cup {r} /\ bytes[r] = 0
                         /\ Cardinality(order') <= MaxResources
                         /\ UNCHANGED <<bytes, total>>
  \/ \E r \in order, n \in Nat : AppendToResource(r, n) /\ order' = order

LEMMA StepsRetain ==
  ASSUME IndInv, [Next]_vars
  PROVE  RetainedSteps
<1>0. TypeOK /\ TypeOK' /\ OnlyObserved /\ OnlyObserved'
  <2>1. IndInv'
    BY StepInd
  <2> QED
    BY <2>1 DEF IndInv
<1>1. ASSUME NEW r \in Requests, Response(r)
      PROVE  RetainedSteps
  <2>1. UNCHANGED <<bytes, total>> /\ (order' = order \/ order' = order \cup {r})
    BY <1>1 DEF Response
  <2>2. r \in order \/ bytes[r] = 0
    <3>1. bytes[r] \in Nat /\ (bytes[r] > 0 => r \in order)
      BY <1>0 DEF TypeOK, OnlyObserved
    <3> QED
      BY <3>1
  <2>3. Cardinality(order') <= MaxResources
    BY <1>0 DEF OnlyObserved
  <2>4. r \in order => order \cup {r} = order
    OBVIOUS
  <2> QED
    BY <2>1, <2>2, <2>3, <2>4, Zenon DEF RetainedSteps
<1>2. ASSUME NEW r \in Requests, NEW n \in Sizes, Message(r, n)
      PROVE  RetainedSteps
  <2>1. order' = order /\ n \in Nat
    BY <1>2, CollectorConstants DEF Message
  <2>2. UNCHANGED <<bytes, total>> \/ (r \in order /\ AppendToResource(r, n))
    BY <1>2, Zenon DEF Message
  <2> QED
    BY <2>1, <2>2, Zenon DEF RetainedSteps
<1>3. ASSUME NEW n \in Sizes, NEW gzip \in BOOLEAN, BodyText(n, gzip)
      PROVE  RetainedSteps
  <2> DEFINE data == IF gzip /\ n > ResourceMaxBytes THEN ResourceMaxBytes ELSE n
  <2>1. order' = order /\ AppendToResource(fetching, data)
    BY <1>3, Zenon DEF BodyText
  <2>2. data \in Nat
    BY CollectorConstants
  <2>3. fetching \in order
    BY <1>3 DEF IndInv, FetchInv, ObservedInv, TypeOK, BodyText
  <2> HIDE DEF data
  <2> QED
    BY <2>1, <2>2, <2>3, Zenon DEF RetainedSteps
<1>4. ASSUME UNCHANGED <<order, bytes, total>>
      PROVE  RetainedSteps
  BY <1>4 DEF RetainedSteps
<1> USE DEF loopVars, clockVars, collectorVars, resourceVars, historyVars
<1>5. CASE \E r \in Requests : Event(r)
  <2>1. PICK r \in Requests : Event(r)
    BY <1>5
  <2>2. CASE Data(r) \/ (\E ok \in BOOLEAN : LoadingDone(r, ok)) \/ WebSocketClosed(r)
    BY <1>4, <2>2 DEF Data, LoadingDone, WebSocketClosed
  <2> QED
    BY <1>1, <1>2, <2>1, <2>2 DEF Event
<1>6. CASE Loop
  <2>1. CASE (\E isReady \in BOOLEAN : ReadyReply(isReady)) \/ SettleCheck \/ Wake \/ WakeDone
    BY <1>4, <2>1 DEF ReadyReply, SettleCheck, Wake, WakeDone
  <2>2. CASE (\E r \in Requests : AskBody(r)) \/ BodyError \/ BodyUnusable
    BY <1>4, <2>2 DEF AskBody, BodyError, BodyUnusable
  <2>3. CASE (\E ok \in BOOLEAN : HtmlReply(ok)) \/ Snapshot
    BY <1>4, <2>3 DEF HtmlReply, Snapshot
  <2> QED
    BY <1>3, <1>6, <2>1, <2>2, <2>3 DEF Loop
<1>7. CASE Tick \/ LoseConnection \/ ContextDone \/ UNCHANGED vars
  BY <1>4, <1>7 DEF Tick, LoseConnection, ContextDone, vars
<1> QED
  BY <1>5, <1>6, <1>7 DEF Next

\* RetainedInd, with its sums named.
Own(b) == [r \in Requests |-> IF b[r] <= ResourceMaxBytes THEN b[r] ELSE ResourceMaxBytes]

Retained(t, b, seen) ==
  /\ t = SumOver(b, seen)
  /\ t <= MaxBytes + MaxResources * ResourceMaxBytes
  /\ \A r \in seen : b[r] <= ResourceMaxBytes \/ b[r] <= MaxBytes
  /\ t <= MaxBytes + SumOver(Own(b), seen)

RetainedNow == Retained(total, bytes, order)

LEMMA RetainedForm == RetainedInd <=> RetainedNow
BY DEF RetainedInd, RetainedBound, WithinOwnBudget, RetainedNow, Retained, Own, SumOver

LEMMA RetainedFormNext == RetainedInd' <=> Retained(total', bytes', order')
<1>1. RetainedInd' <=> RetainedNow'
  BY RetainedForm, PTL
<1> QED
  BY <1>1 DEF RetainedNow

\* The budgets of the observed resources together are MaxResources of them.
LEMMA OwnBudgets ==
  ASSUME NEW b \in [Requests -> Nat], NEW seen \in SUBSET Requests,
         Cardinality(seen) <= MaxResources
  PROVE  /\ IsFiniteSet(seen)
         /\ \A r \in seen : Own(b)[r] \in 0..ResourceMaxBytes
         /\ SumOver(Own(b), seen) \in Nat
         /\ SumOver(Own(b), seen) <= MaxResources * ResourceMaxBytes
<1>1. IsFiniteSet(seen) /\ \A r \in seen : b[r] \in Nat /\ r \in Requests
  BY FS_Subset, CollectorConstants
<1>2. ResourceMaxBytes \in Nat /\ MaxResources \in Nat
  BY CollectorConstants
<1>3. \A r \in seen : Own(b)[r] \in 0..ResourceMaxBytes
  BY <1>1, <1>2 DEF Own
<1>4. SumOver(Own(b), seen) <= Cardinality(seen) * ResourceMaxBytes
  BY <1>1, <1>2, <1>3, SumBound
<1>5. SumOver(Own(b), seen) \in Nat
  BY <1>1, <1>2, <1>3, SumNat
<1>6. Cardinality(seen) \in Nat /\ Cardinality(seen) <= MaxResources
  BY <1>1, FS_CardinalityType
<1>7. \A c, m, u \in Nat : c <= m => c * u <= m * u /\ c * u \in Nat /\ m * u \in Nat
  OBVIOUS
<1>8. SumOver(Own(b), seen) <= MaxResources * ResourceMaxBytes
  BY <1>2, <1>4, <1>5, <1>6, <1>7
<1> QED
  BY <1>1, <1>3, <1>5, <1>8

\* What appendToResource keeps is within the page's budget while there is
\* any, and else within the resource's own.
LEMMA KeptWithin ==
  ASSUME TypeOK, NEW r \in Requests, NEW n \in Nat
  PROVE  /\ total < MaxBytes => total + Kept(r, n) <= MaxBytes
         /\ ~(total < MaxBytes) /\ Kept(r, n) > 0 => bytes[r] + Kept(r, n) <= ResourceMaxBytes
<1>1. total \in Nat /\ bytes[r] \in Nat /\ MaxBytes \in Nat /\ ResourceMaxBytes \in Nat
  BY CollectorConstants DEF TypeOK
<1> QED
  BY <1>1 DEF Kept, MinPositive

\* appendToResource keeps the account and the bound.
LEMMA AppendRetains ==
  ASSUME RetainedInd, TypeOK, TypeOK', OnlyObserved,
         NEW r \in order, NEW n \in Nat, AppendToResource(r, n), order' = order
  PROVE  RetainedInd'
<1> DEFINE k == Kept(r, n)
           own == Own(bytes)
           now == Own(bytes')
<1>1. /\ r \in Requests /\ order \subseteq Requests /\ Cardinality(order) <= MaxResources
      /\ bytes \in [Requests -> Nat] /\ bytes' \in [Requests -> Nat]
      /\ total \in Nat /\ MaxBytes \in Nat /\ ResourceMaxBytes \in Nat
  BY CollectorConstants DEF TypeOK, OnlyObserved
<1>2. /\ k \in Nat
      /\ bytes' = [bytes EXCEPT ![r] = @ + k] /\ total' = total + k
      /\ total < MaxBytes => total + k <= MaxBytes
      /\ ~(total < MaxBytes) /\ k > 0 => bytes[r] + k <= ResourceMaxBytes
  BY <1>1, KeptFacts, KeptWithin DEF AppendToResource
<1> HIDE DEF k
<1>3. bytes'[r] = bytes[r] + k /\ \A q \in Requests \ {r} : bytes'[q] = bytes[q]
  BY <1>1, <1>2
<1>4. /\ IsFiniteSet(order)
      /\ \A q \in order : own[q] \in 0..ResourceMaxBytes /\ now[q] \in 0..ResourceMaxBytes
      /\ SumOver(own, order) \in Nat /\ SumOver(now, order) \in Nat
      /\ SumOver(now, order) <= MaxResources * ResourceMaxBytes
  BY <1>1, OwnBudgets
<1>5. /\ own[r] = IF bytes[r] <= ResourceMaxBytes THEN bytes[r] ELSE ResourceMaxBytes
      /\ now[r] = IF bytes'[r] <= ResourceMaxBytes THEN bytes'[r] ELSE ResourceMaxBytes
      /\ \A q \in order \ {r} : now[q] = own[q]
  BY <1>1, <1>3 DEF Own
<1> HIDE DEF own, now
<1>6. /\ total = SumOver(bytes, order) /\ total <= MaxBytes + SumOver(own, order)
      /\ \A q \in order : bytes[q] <= ResourceMaxBytes \/ bytes[q] <= MaxBytes
  BY RetainedForm DEF RetainedNow, Retained, own
<1>7. total' = SumOver(bytes', order)
  <2>1. \A q \in order : bytes[q] \in Nat /\ bytes'[q] \in Nat
    BY <1>1
  <2>2. \A q \in order \ {r} : bytes'[q] = bytes[q]
    BY <1>1, <1>3
  <2>3. SumOver(bytes', order) = SumOver(bytes, order) + k
    <3>1. PICK b : b = bytes'
      OBVIOUS
    <3>2. /\ \A q \in order : bytes[q] \in Nat /\ b[q] \in Nat
          /\ \A q \in order \ {r} : b[q] = bytes[q]
          /\ b[r] = bytes[r] + k
      BY <1>3, <2>1, <2>2, <3>1, Zenon
    <3>3. k \in Int
      BY <1>2
    <3>4. SumOver(b, order) = SumOver(bytes, order) + k
      BY <1>4, <3>2, <3>3, SumChange
    <3> QED
      BY <3>1, <3>4
  <2> QED
    BY <1>2, <1>6, <2>3
<1>8. bytes'[r] <= total'
  BY <1>1, <1>4, <1>7, SumContains
<1>9. \A j \in Int : now[r] = own[r] + j => SumOver(now, order) = SumOver(own, order) + j
  <2>1. \A q \in order : own[q] \in Nat /\ now[q] \in Nat
    BY <1>1, <1>4
  <2> QED
    BY <1>4, <1>5, <2>1, SumChange
<1>10. total' <= MaxBytes + SumOver(now, order)
  <2>1. CASE total < MaxBytes
    BY <1>1, <1>2, <1>4, <2>1
  <2>2. CASE ~(total < MaxBytes)
    <3>1. bytes[r] \in Nat
      BY <1>1
    <3>2. now[r] = own[r] + k
      BY <1>1, <1>2, <1>3, <1>5, <2>2, <3>1
    <3>3. SumOver(now, order) = SumOver(own, order) + k
      BY <1>2, <1>9, <3>2
    <3> QED
      BY <1>1, <1>2, <1>4, <1>6, <3>3
  <2> QED
    BY <2>1, <2>2
<1>11. \A q \in order : bytes'[q] <= ResourceMaxBytes \/ bytes'[q] <= MaxBytes
  <2>1. bytes'[r] <= ResourceMaxBytes \/ bytes'[r] <= MaxBytes
    <3>1. bytes[r] \in Nat /\ (bytes[r] <= ResourceMaxBytes \/ bytes[r] <= MaxBytes)
      BY <1>1, <1>6
    <3> QED
      BY <1>1, <1>2, <1>3, <1>8, <3>1
  <2> QED
    BY <1>1, <1>3, <1>6, <2>1
<1>12. total' <= MaxBytes + MaxResources * ResourceMaxBytes
  <2>1. MaxResources * ResourceMaxBytes \in Nat
    BY CollectorConstants
  <2> QED
    BY <1>1, <1>2, <1>4, <1>10, <2>1
<1> QED
  BY <1>7, <1>10, <1>11, <1>12, RetainedFormNext DEF Retained, now

\* So does ensureResource: what is new has no bytes yet.
LEMMA EnsureRetains ==
  ASSUME RetainedInd, TypeOK, OnlyObserved,
         NEW r \in Requests, order' = order \cup {r}, bytes[r] = 0, UNCHANGED <<bytes, total>>
  PROVE  RetainedInd'
<1>1. bytes \in [Requests -> Nat] /\ order \in SUBSET Requests /\ IsFiniteSet(order)
  BY CollectorConstants, FS_Subset DEF TypeOK
<1>2. ResourceMaxBytes \in Nat /\ bytes[r] <= ResourceMaxBytes
  BY CollectorConstants
<1>3. \A q \in Requests : bytes[q] \in Nat /\ Own(bytes)[q] \in Nat
  BY <1>1, <1>2 DEF Own
<1>4. Own(bytes)[r] = 0
  BY <1>2 DEF Own
<1>5. ASSUME NEW f, \A q \in Requests : f[q] \in Nat, f[r] = 0
      PROVE  SumOver(f, order') = SumOver(f, order)
  <2>1. CASE r \in order
    <3>1. order' = order
      BY <2>1
    <3> QED
      BY <3>1
  <2>2. CASE r \notin order
    <3>1. \A q \in order \cup {r} : f[q] \in Nat
      BY <1>1, <1>5
    <3>2. \A q \in order : f[q] \in Nat
      BY <1>1, <1>5
    <3>3. SumOver(f, order) \in Nat
      BY <1>1, <3>2, SumNat
    <3>4. SumOver(f, order \cup {r}) = f[r] + SumOver(f, order)
      BY <1>1, <2>2, <3>1, SumAdd
    <3> QED
      BY <1>5, <3>3, <3>4
  <2> QED
    BY <2>1, <2>2
<1>6. SumOver(bytes, order') = SumOver(bytes, order)
  BY <1>3, <1>5
<1>7. SumOver(Own(bytes), order') = SumOver(Own(bytes), order)
  BY <1>3, <1>4, <1>5
<1>8. Retained(total, bytes, order)
  BY RetainedForm DEF RetainedNow
<1>9. Retained(total, bytes, order')
  BY <1>2, <1>6, <1>7, <1>8 DEF Retained
<1>10. Retained(total', bytes', order')
  BY <1>9
<1> QED
  BY <1>10, RetainedFormNext

\* What is retained is accounted for, and bounded although an exhausted
\* budget is ignored (appendToResource, minPositiveInt64).
THEOREM RetainedSafety == Spec => []RetainedInd
<1>1. Init => RetainedInd
  <2> SUFFICES ASSUME Init PROVE RetainedInd
    OBVIOUS
  <2>1. order = {} /\ total = 0
    BY DEF Init
  <2>2. SumOver(bytes, {}) = 0 /\ SumOver(Own(bytes), {}) = 0
    BY SumEmpty
  <2>3. MaxBytes \in Nat /\ MaxResources * ResourceMaxBytes \in Nat
    BY CollectorConstants
  <2> QED
    BY <2>1, <2>2, <2>3, RetainedForm DEF RetainedNow, Retained
<1>2. RetainedInd /\ IndInv /\ [Next]_vars => RetainedInd'
  <2> SUFFICES ASSUME RetainedInd, IndInv, [Next]_vars PROVE RetainedInd'
    OBVIOUS
  <2>1. TypeOK /\ TypeOK' /\ OnlyObserved /\ OnlyObserved'
    BY StepInd DEF IndInv
  <2>2. CASE UNCHANGED <<order, bytes, total>>
    <3>1. Retained(total, bytes, order)
      BY RetainedForm DEF RetainedNow
    <3>2. Retained(total', bytes', order')
      BY <2>2, <3>1
    <3> QED
      BY <3>2, RetainedFormNext
  <2> QED
    BY <2>1, <2>2, StepsRetain, EnsureRetains, AppendRetains DEF RetainedSteps
<1> QED
  BY <1>1, <1>2, Invariance, PTL DEF Spec

=============================================================================
