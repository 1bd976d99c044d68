-------------------------- MODULE NetworkCollector --------------------------
(***************************************************************************)
(* What one rendered page captures of its own network traffic:             *)
(* internal/rendering/cdp_client.go, network_event_source.go and           *)
(* network_state.go, driven by renderWithCDP (rendering_cdp.go).           *)
(*                                                                         *)
(* One goroutine sends CDP commands and reads the socket; browser events   *)
(* and command replies share that socket, so every event is handled while  *)
(* the reply to some command is awaited: to readyState, to the body of one *)
(* request, or to one of the two snapshot expressions.  Sizes are counted  *)
(* in units of payload and time in ticks; both are bounded or saturate.    *)
(***************************************************************************)
EXTENDS Integers, FiniteSets, FiniteSetsExt

CONSTANTS
  Requests,         \* requestIds the page uses
  Kind,             \* what each request is: a member of Kinds
  Sizes,            \* sizes of a body or a message, in units
  MaxSent,          \* bound: messages a server sends on one connection
  MaxBytes,         \* Request.NetworkMaxBytes
  ResourceMaxBytes, \* Request.NetworkResourceMaxBytes
  MaxResources,     \* Request.NetworkMaxResources
  MaxMessages,      \* Request.NetworkMaxMessages
  ReadyMin,         \* the 500 ms after readiness, in ticks
  Idle,             \* networkIdle
  StreamIdle,       \* max(idle*4, 6s)
  MinObservation,   \* streamMinObservation
  MaxWait,          \* renderSettleBudget(req.Timeout)
  NoRequest         \* no body is being fetched

\* "fetch" is an XHR or fetch response read whole, "stream" one whose content
\* type is a stream, "asset" a stylesheet, a script or a foreign host.
Kinds == {"fetch", "stream", "eventsource", "websocket", "asset"}

ASSUME CollectorConstants ==
  /\ Kind \in [Requests -> Kinds]
  /\ IsFiniteSet(Requests) /\ NoRequest \notin Requests
  /\ Sizes \subseteq Nat \ {0}
  /\ MaxBytes \in Nat \ {0} /\ ResourceMaxBytes \in Nat \ {0}
  /\ MaxResources \in Nat \ {0} /\ MaxMessages \in Nat \ {0}
  /\ Idle \in Nat \ {0} /\ StreamIdle \in Nat \ {0}
  /\ MaxSent \in Nat /\ ReadyMin \in Nat
  /\ MinObservation \in Nat /\ MaxWait \in Nat
  /\ Idle <= StreamIdle

VARIABLES
  wire,          \* the browser's view of each request
  sent,          \* messages sent on each connection so far
  order,         \* the keys of c.resources (c.order)
  bytes,         \* BodyBytes of each resource
  msgs,          \* MessageCount of each resource
  cut,           \* resources whose Truncated flag is set
  ended,         \* resources whose Finished flag is set
  active,        \* c.active
  eventSources,  \* c.activeEventSources
  streams,       \* c.activeStreams
  webSockets,    \* c.activeWebSockets
  pending,       \* c.pendingBodies
  total,         \* c.totalBytes
  truncated,     \* c.truncated
  reason,        \* c.idleReason ("" until set)
  missing,       \* c.bodyUnavailableCount
  phase,         \* where renderWithCDP is
  batch,         \* bodies taken from pendingBodies and not yet asked for
  fetching,      \* the request whose body is being fetched
  ready,         \* ticks since readyAt, -1 while it is zero
  elapsed,       \* ticks since started
  sinceActivity, \* ticks since lastActivity
  sinceStream,   \* ticks since the later of the stream activities, -1 if none
  lost,          \* "ctx" (deadline or cancellation) or "conn" or "no"
  offered,       \* history: units of payload handed to appendToResource
  copies,        \* history: times the body of a request was captured
  asked,         \* history: requests whose body was asked for once finished
  refused,       \* history: relevant requests the collector had no room for
  inflateCut     \* history: decodeNetworkBody cut a body

resourceVars == <<order, bytes, msgs, cut, ended>>
trackingVars == <<active, eventSources, streams, webSockets>>
collectorVars == <<resourceVars, trackingVars, pending, total, truncated,
                   missing>>
loopVars == <<phase, batch, fetching, ready, reason>>
clockVars == <<elapsed, sinceActivity, sinceStream>>
historyVars == <<offered, copies, asked, refused, inflateCut>>
vars == <<wire, sent, collectorVars, loopVars, clockVars, lost, historyVars>>

Awaiting == {"ready", "fetch", "html", "href"}
Phases == Awaiting \cup {"loop", "sleep", "done", "failed"}

Init ==
  /\ wire = [r \in Requests |-> "new"]
  /\ sent = [r \in Requests |-> 0]
  /\ order = {} /\ cut = {} /\ ended = {}
  /\ bytes = [r \in Requests |-> 0]
  /\ msgs = [r \in Requests |-> 0]
  /\ active = {} /\ eventSources = {} /\ streams = {} /\ webSockets = {}
  /\ pending = {} /\ total = 0 /\ truncated = FALSE
  /\ reason = "" /\ missing = 0
  /\ phase = "ready" /\ batch = {} /\ fetching = NoRequest /\ ready = -1
  /\ elapsed = 0 /\ sinceActivity = 0 /\ sinceStream = -1
  /\ lost = "no"
  /\ offered = [r \in Requests |-> 0]
  /\ copies = [r \in Requests |-> 0]
  /\ asked = {} /\ refused = {} /\ inflateCut = FALSE

-----------------------------------------------------------------------------
(* The collector's own operations.                                         *)

\* relevantResource and relevantHost
Relevant(r) == Kind[r] # "asset"

\* shouldFetchResponseBody: the Source of the other kinds excludes them
ShouldFetch(r) == Kind[r] \in {"fetch", "stream"}

\* minPositiveInt64: the smaller of the budgets that are positive, 0 if none
MinPositive(a, b) ==
  IF a <= 0 /\ b <= 0 THEN 0
  ELSE IF a <= 0 THEN b
  ELSE IF b <= 0 THEN a
  ELSE IF a < b THEN a ELSE b

\* What appendToResource keeps of n units for r.
Kept(r, n) ==
  LET available == MinPositive(MaxBytes - total, ResourceMaxBytes - bytes[r])
  IN IF n <= available THEN n ELSE available

\* Mutant: a cut is recorded for the resource only.
AppendSilently(r, n) ==
  /\ bytes' = [bytes EXCEPT ![r] = @ + Kept(r, n)]
  /\ total' = total + Kept(r, n)
  /\ offered' = [offered EXCEPT ![r] = @ + n]
  /\ cut' = IF Kept(r, n) < n THEN cut \cup {r} ELSE cut
  /\ UNCHANGED truncated

\* Mutant: the page's count takes the offered length, not the written one.
AppendCountsOffered(r, n) ==
  /\ bytes' = [bytes EXCEPT ![r] = @ + Kept(r, n)]
  /\ total' = total + n
  /\ offered' = [offered EXCEPT ![r] = @ + n]
  /\ IF Kept(r, n) < n THEN truncated' = TRUE /\ cut' = cut \cup {r}
     ELSE UNCHANGED <<truncated, cut>>

\* appendToResource(r, n units)
AppendToResource(r, n) ==
  /\ bytes' = [bytes EXCEPT ![r] = @ + Kept(r, n)]
  /\ total' = total + Kept(r, n)
  /\ offered' = [offered EXCEPT ![r] = @ + n]
  /\ IF Kept(r, n) < n THEN truncated' = TRUE /\ cut' = cut \cup {r}
     ELSE UNCHANGED <<truncated, cut>>

MarkActivity == sinceActivity' = 0 /\ UNCHANGED <<elapsed, sinceStream>>
MarkStreamActivity == sinceActivity' = 0 /\ sinceStream' = 0 /\ UNCHANGED elapsed

\* Mutant: off by one.
HasRoomForOneMore == Cardinality(order) <= MaxResources

\* ensureResource for a request the collector has no record of
HasRoom == Cardinality(order) < MaxResources

OpenStreams == eventSources \cup streams    \* activeStreamCount, isOpenStream

-----------------------------------------------------------------------------
(* Browser events, each handled by handleEvent while a reply is awaited.   *)

Receiving == phase \in Awaiting /\ lost = "no"

\* handleResponseReceived, and handleWebSocketCreated for a websocket.
Response(r) ==
  /\ Receiving /\ wire[r] = "new"
  /\ wire' = [wire EXCEPT ![r] = "open"]
  /\ UNCHANGED <<sent, bytes, msgs, cut, ended, total, missing, loopVars, lost,
                 offered, copies, asked, inflateCut>>
  /\ \/ /\ ~Relevant(r)
        /\ UNCHANGED <<order, trackingVars, pending, truncated, clockVars, refused>>
     \/ /\ Relevant(r) /\ ~HasRoom
        /\ truncated' = TRUE
        /\ refused' = refused \cup {r}
        /\ UNCHANGED <<order, trackingVars, pending, clockVars>>
     \/ /\ Relevant(r) /\ HasRoom
        /\ order' = order \cup {r}
        /\ active' = active \cup {r}
        /\ pending' = IF ShouldFetch(r) THEN pending \cup {r} ELSE pending
        /\ eventSources' = IF Kind[r] = "eventsource" THEN eventSources \cup {r}
                           ELSE eventSources
        /\ streams' = IF Kind[r] = "stream" THEN streams \cup {r} ELSE streams
        /\ webSockets' = IF Kind[r] = "websocket" THEN webSockets \cup {r}
                         ELSE webSockets
        /\ IF Kind[r] \in {"eventsource", "stream"}
             THEN MarkStreamActivity ELSE MarkActivity
        /\ UNCHANGED <<truncated, refused>>

\* handleEventSourceMessage, handleWebSocketFrameReceived: n units of text.
\* An event source may deliver after its loadingFinished event.
Message(r, n) ==
  /\ Receiving /\ sent[r] < MaxSent
  /\ \/ Kind[r] = "eventsource" /\ wire[r] \in {"open", "finished"}
     \/ Kind[r] = "websocket" /\ wire[r] = "open"
  /\ sent' = [sent EXCEPT ![r] = @ + 1]
  /\ UNCHANGED <<wire, order, active, streams, webSockets, pending, missing,
                 loopVars, lost, copies, asked, refused, inflateCut>>
  /\ IF r \notin order
     THEN UNCHANGED <<bytes, msgs, cut, ended, eventSources, total, truncated,
                      offered, clockVars>>
     ELSE /\ msgs' = [msgs EXCEPT ![r] = @ + 1]
          /\ IF msgs[r] + 1 <= MaxMessages    \* networkMessageBudgetAvailable
             THEN AppendToResource(r, n)
             ELSE /\ cut' = cut \cup {r} /\ truncated' = TRUE
                  /\ offered' = [offered EXCEPT ![r] = @ + n]
                  /\ UNCHANGED <<bytes, total>>
          /\ IF Kind[r] = "eventsource"
             THEN /\ eventSources' = eventSources \cup {r}
                  /\ ended' = ended \ {r}
                  /\ MarkStreamActivity
             ELSE UNCHANGED <<eventSources, ended>> /\ MarkActivity

\* handleDataReceived: bytes of a body that is still loading
Data(r) ==
  /\ Receiving /\ wire[r] = "open" /\ r \in OpenStreams
  /\ MarkStreamActivity
  /\ UNCHANGED <<wire, sent, collectorVars, loopVars, lost, historyVars>>

\* Mutant: every finished event source stays open.
KeepsOpenAlways(r, ok) == ok /\ Kind[r] = "eventsource"

\* shouldKeepEventSourceOpenUntilMessageIdle
KeepsOpen(r, ok) == ok /\ Kind[r] = "eventsource" /\ msgs[r] > 0

\* Mutant: a body already taken is not put back when it finishes.
PendAfterDoneIfNew(r) ==
  IF ShouldFetch(r) /\ r # fetching THEN pending \cup {r} ELSE pending

\* The bodies to fetch once r is done loading.
PendAfterDone(r) == IF ShouldFetch(r) THEN pending \cup {r} ELSE pending

\* handleLoadingDone(finished = ok) for a response
LoadingDone(r, ok) ==
  /\ Receiving /\ Kind[r] # "websocket"
  /\ \/ wire[r] = "open"
     \/ wire[r] = "finished" /\ Kind[r] = "eventsource" /\ ~ok
  /\ wire' = [wire EXCEPT ![r] = IF ok THEN "finished" ELSE "failed"]
  /\ active' = active \ {r}
  /\ webSockets' = webSockets \ {r}
  /\ streams' = streams \ {r}
  /\ UNCHANGED <<sent, order, bytes, msgs, cut, total, truncated, missing,
                 loopVars, lost, historyVars>>
  /\ IF r \notin order
     THEN UNCHANGED <<ended, eventSources, pending, clockVars>>
     ELSE /\ eventSources' = IF KeepsOpen(r, ok) THEN eventSources
                             ELSE eventSources \ {r}
          /\ ended' = IF ok THEN ended \cup {r} ELSE ended \ {r}
          /\ pending' = PendAfterDone(r)
          /\ MarkActivity

\* handleWebSocketClosed
WebSocketClosed(r) ==
  /\ Receiving /\ Kind[r] = "websocket" /\ wire[r] = "open"
  /\ wire' = [wire EXCEPT ![r] = "finished"]
  /\ active' = active \ {r}
  /\ webSockets' = webSockets \ {r}
  /\ IF r \in order
       THEN ended' = ended \cup {r} /\ MarkActivity
       ELSE UNCHANGED <<ended, clockVars>>
  /\ UNCHANGED <<sent, order, bytes, msgs, cut, eventSources, streams, pending, total, truncated,
                 missing, loopVars, lost, historyVars>>

Event(r) ==
  \/ Response(r) \/ Data(r) \/ WebSocketClosed(r)
  \/ \E n \in Sizes : Message(r, n)
  \/ \E ok \in BOOLEAN : LoadingDone(r, ok)

-----------------------------------------------------------------------------
(* waitForApplicationSettled, one reply or one decision at a time.         *)

\* Mutant: the taken bodies stay pending.
ReadyReplyKeepsPending(isReady) ==
  /\ phase = "ready" /\ (lost # "no" => ~isReady)
  /\ IF isReady /\ ready = -1
       THEN ready' = 0 /\ MarkActivity
       ELSE UNCHANGED <<ready, clockVars>>
  /\ batch' = pending
  /\ phase' = "loop"
  /\ UNCHANGED <<wire, sent, collectorVars, fetching, reason, lost, historyVars>>

\* The reply to document.readyState, or its error, then takePendingBodies.
\* isReady is whether the state is "interactive" or "complete".
ReadyReply(isReady) ==
  /\ phase = "ready" /\ (lost # "no" => ~isReady)
  /\ IF isReady /\ ready = -1
       THEN ready' = 0 /\ MarkActivity
       ELSE UNCHANGED <<ready, clockVars>>
  /\ batch' = pending
  /\ pending' = {}
  /\ phase' = "loop"
  /\ UNCHANGED <<wire, sent, resourceVars, trackingVars, total, truncated,
                 missing, fetching, reason, lost, historyVars>>

\* collectNetworkBodies sends Network.getResponseBody for one of the batch.
AskBody(r) ==
  /\ phase = "loop" /\ r \in batch
  /\ batch' = batch \ {r}
  /\ fetching' = r
  /\ phase' = "fetch"
  /\ asked' = IF wire[r] = "open" THEN asked ELSE asked \cup {r}
  /\ UNCHANGED <<wire, sent, collectorVars, ready, reason, clockVars, lost,
                 offered, copies, refused, inflateCut>>

\* The command fails, or its reply cannot be decoded: markBodyUnavailable.
BodyError ==
  /\ phase = "fetch"
  /\ missing' = missing + 1
  /\ fetching' = NoRequest /\ phase' = "loop"
  /\ UNCHANGED <<wire, sent, resourceVars, trackingVars, pending, total,
                 truncated, batch, ready, reason, clockVars, lost, historyVars>>

\* The body has n units of text, or of gzip that decodeNetworkBody inflates.
BodyText(n, gzip) ==
  /\ phase = "fetch" /\ lost = "no"
  /\ LET data == IF gzip /\ n > ResourceMaxBytes THEN ResourceMaxBytes ELSE n IN
     /\ AppendToResource(fetching, data)
     /\ inflateCut' = IF data < n THEN TRUE ELSE inflateCut
  /\ copies' = [copies EXCEPT ![fetching] = @ + 1]
  /\ MarkActivity
  /\ fetching' = NoRequest /\ phase' = "loop"
  /\ UNCHANGED <<wire, sent, order, msgs, ended, trackingVars, pending, missing,
                 batch, ready, reason, lost, asked, refused>>

\* The body is empty, blank or not text: it is left out of the evidence.
BodyUnusable ==
  /\ phase = "fetch" /\ lost = "no"
  /\ fetching' = NoRequest /\ phase' = "loop"
  /\ UNCHANGED <<wire, sent, collectorVars, batch, ready, reason, clockVars,
                 lost, historyVars>>

\* Mutant: active requests do not delay the end of the wait.
SettledIgnoringActive ==
  IF ready < ReadyMin \/ OpenStreams # {} \/ sinceActivity < Idle THEN ""
  ELSE "network_idle"

\* Mutant: streams get the idle period of ordinary traffic.
SettledImpatient ==
  IF ready < ReadyMin THEN ""
  ELSE IF OpenStreams # {}
    THEN IF elapsed < MinObservation \/ sinceStream < Idle THEN ""
         ELSE "stream_idle"
  ELSE IF active # {} \/ sinceActivity < Idle THEN "" ELSE "network_idle"

\* The idle reason settled() gives, "" when the page is not settled.
SettledReason ==
  IF ready < ReadyMin THEN ""
  ELSE IF OpenStreams # {}
    THEN IF \/ elapsed < MinObservation
            \/ sinceStream = -1 /\ sinceActivity < StreamIdle
            \/ sinceStream # -1 /\ sinceStream < StreamIdle THEN ""
         ELSE IF eventSources # {} THEN "event_source_idle" ELSE "stream_idle"
  ELSE IF active # {}
    THEN IF elapsed < MinObservation \/ sinceActivity < StreamIdle THEN ""
         ELSE "network_idle_with_active_requests"
  ELSE IF sinceActivity < Idle THEN ""
  ELSE IF webSockets # {} THEN "websocket_idle" ELSE "network_idle"

\* The batch is done: return if ready and settled, else wait for the tick.
SettleCheck ==
  /\ phase = "loop" /\ batch = {}
  /\ IF ready # -1 /\ SettledReason # ""
       THEN phase' = "html" /\ reason' = SettledReason
       ELSE phase' = "sleep" /\ UNCHANGED reason
  /\ UNCHANGED <<wire, sent, collectorVars, batch, fetching, ready, clockVars,
                 lost, historyVars>>

\* Mutant: the deadline is not looked at.
WakeWithoutDeadline ==
  /\ phase = "sleep" /\ phase' = "ready"
  /\ UNCHANGED <<wire, sent, collectorVars, batch, fetching, ready, reason,
                 clockVars, lost, historyVars>>

\* The tick of 250 ms: give up at the deadline, else ask for readyState.
Wake ==
  /\ phase = "sleep"
  /\ IF elapsed > MaxWait
       THEN phase' = "html" /\ reason' = "settle_timeout"
       ELSE phase' = "ready" /\ UNCHANGED reason
  /\ UNCHANGED <<wire, sent, collectorVars, batch, fetching, ready, clockVars,
                 lost, historyVars>>

\* ctx.Done() is chosen instead of the tick.
WakeDone ==
  /\ phase = "sleep" /\ lost = "ctx"
  /\ phase' = "html" /\ reason' = "settle_timeout"
  /\ UNCHANGED <<wire, sent, collectorVars, batch, fetching, ready, clockVars,
                 lost, historyVars>>

-----------------------------------------------------------------------------
(* The snapshot of renderWithCDP.                                          *)

\* The DOM arrives, or the command fails or the DOM is empty: no page.
HtmlReply(ok) ==
  /\ phase = "html" /\ (lost # "no" => ~ok)
  /\ phase' = IF ok THEN "href" ELSE "failed"
  /\ UNCHANGED <<wire, sent, collectorVars, batch, fetching, ready, reason,
                 clockVars, lost, historyVars>>

\* location.href arrives or fails, then collector.snapshot(): what is left in
\* the collector is the page's evidence, and open streams count as cut.
Snapshot ==
  /\ phase = "href"
  /\ phase' = "done"
  /\ cut' = cut \cup (order \cap OpenStreams)
  /\ UNCHANGED <<wire, sent, order, bytes, msgs, ended, trackingVars, pending,
                 total, truncated, missing, batch, fetching, ready, reason,
                 clockVars, lost, historyVars>>

-----------------------------------------------------------------------------
(* The environment: time passes, the connection or the context ends.       *)

Finished == phase \in {"done", "failed"}

Saturate(n, bound) == IF n = -1 \/ n = bound THEN n ELSE n + 1

Tick ==
  /\ ~Finished
  /\ elapsed' = Saturate(elapsed, MaxWait + 1)
  /\ sinceActivity' = Saturate(sinceActivity, StreamIdle)
  /\ sinceStream' = Saturate(sinceStream, StreamIdle)
  /\ ready' = Saturate(ready, ReadyMin)
  /\ UNCHANGED <<wire, sent, collectorVars, phase, batch, fetching, reason,
                 lost, historyVars>>

LoseConnection ==
  /\ ~Finished /\ lost = "no" /\ lost' = "conn"
  /\ UNCHANGED <<wire, sent, collectorVars, loopVars, clockVars, historyVars>>

\* The render's deadline passes or its caller cancels.
ContextDone ==
  /\ ~Finished /\ lost # "ctx" /\ lost' = "ctx"
  /\ UNCHANGED <<wire, sent, collectorVars, loopVars, clockVars, historyVars>>

Loop ==
  \/ \E isReady \in BOOLEAN : ReadyReply(isReady)
  \/ \E r \in Requests : AskBody(r)
  \/ BodyError \/ BodyUnusable
  \/ \E n \in Sizes, gzip \in BOOLEAN : BodyText(n, gzip)
  \/ SettleCheck \/ Wake \/ WakeDone
  \/ \E ok \in BOOLEAN : HtmlReply(ok)
  \/ Snapshot

Next ==
  \/ \E r \in Requests : Event(r)
  \/ Loop
  \/ Tick \/ LoseConnection \/ ContextDone

Spec == Init /\ [][Next]_vars

\* The goroutine runs, time passes, the deadline of the render's context
\* comes, and a read whose context has ended returns.
Fairness == WF_vars(Tick) /\ WF_vars(ContextDone) /\ WF_vars(lost = "ctx" /\ Loop)

FairSpec == Spec /\ Fairness

-----------------------------------------------------------------------------
(* What the page reports.                                                  *)

\* networkTruncated of sourceresolution.RenderRawPage, the render stage
PageTruncated == truncated \/ OpenStreams # {}

\* NetworkTruncated of the discovery probe's page
ProbeTruncated == truncated

-----------------------------------------------------------------------------
(* Properties.                                                             *)

TypeOK ==
  /\ wire \in [Requests -> {"new", "open", "finished", "failed"}]
  /\ sent \in [Requests -> Nat]
  /\ order \in SUBSET Requests
  /\ bytes \in [Requests -> Nat] /\ msgs \in [Requests -> Nat]
  /\ cut \in SUBSET Requests /\ ended \in SUBSET Requests
  /\ active \in SUBSET Requests /\ eventSources \in SUBSET Requests
  /\ streams \in SUBSET Requests /\ webSockets \in SUBSET Requests
  /\ pending \in SUBSET Requests
  /\ total \in Nat /\ truncated \in BOOLEAN /\ missing \in Nat
  /\ reason \in {"", "settle_timeout", "event_source_idle", "stream_idle",
                 "network_idle_with_active_requests", "websocket_idle",
                 "network_idle"}
  /\ phase \in Phases /\ batch \in SUBSET Requests
  /\ fetching \in Requests \cup {NoRequest}
  /\ (phase = "fetch") <=> (fetching # NoRequest)
  /\ ready \in -1..ReadyMin /\ elapsed \in 0..(MaxWait + 1)
  /\ sinceActivity \in 0..StreamIdle /\ sinceStream \in -1..StreamIdle
  /\ lost \in {"no", "conn", "ctx"}
  /\ offered \in [Requests -> Nat] /\ copies \in [Requests -> Nat]
  /\ asked \in SUBSET Requests /\ refused \in SUBSET Requests
  /\ inflateCut \in BOOLEAN

IsStream(r) == Kind[r] \in {"stream", "eventsource"}

\* The collector's bookkeeping agrees with the connections: an observed
\* request that is still open is active, and tracked as a stream when it is
\* one; nothing that has ended stays tracked, except an event source that has
\* delivered and did not fail (shouldKeepEventSourceOpenUntilMessageIdle).
TrackedAsOpen ==
  /\ \A r \in order : wire[r] = "open" =>
       r \in active /\ (IsStream(r) => r \in OpenStreams)
  /\ \A r \in active : r \in order /\ wire[r] = "open"
  /\ streams \subseteq active /\ webSockets \subseteq active
  /\ \A r \in eventSources :
       r \in active \/ (wire[r] = "finished" /\ msgs[r] > 0)

\* An event source that failed, a finished stream, an asset and a request the
\* collector refused never get anything captured for them: what is captured
\* belongs to an observed request, and never to one outside the limit.
OnlyObserved ==
  /\ Cardinality(order) <= MaxResources
  /\ pending \cup batch \cup OpenStreams \cup active \subseteq order
  /\ refused \cap order = {}
  /\ \A r \in Requests : bytes[r] > 0 \/ copies[r] > 0 => r \in order

\* A render that is not reported truncated holds everything it was offered:
\* nothing relevant was refused, nothing captured was cut, no stream is open
\* at the snapshot (appendToResource, networkMessageBudgetAvailable,
\* ensureResource, snapshot and sourceresolution's network_truncated).
NotTruncatedIsWhole ==
  phase = "done" /\ ~PageTruncated =>
    \A r \in Requests : Relevant(r) /\ wire[r] # "new" =>
      /\ r \in order /\ bytes[r] = offered[r] /\ r \notin cut
      /\ IsStream(r) => wire[r] # "open"

\* What is retained is accounted for, and bounded even though an exhausted
\* budget is ignored (minPositiveInt64): a resource never passes the larger
\* of the two budgets, and the page at most one budget more per resource.
RetainedBound ==
  /\ total = MapThenSumSet(LAMBDA r : bytes[r], order)
  /\ total <= MaxBytes + MaxResources * ResourceMaxBytes
  /\ \A r \in order : bytes[r] <= ResourceMaxBytes \/ bytes[r] <= MaxBytes

\* RetainedBound and why it holds: what a resource gets beyond the page's
\* budget, it gets within its own (appendToResource).
WithinOwnBudget ==
  [r \in Requests |-> IF bytes[r] <= ResourceMaxBytes THEN bytes[r] ELSE ResourceMaxBytes]

RetainedInd ==
  /\ RetainedBound
  /\ total <= MaxBytes + MapThenSumSet(LAMBDA r : WithinOwnBudget[r], order)

\* A body that finished loading is asked for after it finished, even when its
\* request was taken, or was being fetched, at that moment: no finished body
\* is forgotten by takePendingBodies.
FinishedBodyAsked ==
  \A r \in order : ShouldFetch(r) /\ wire[r] \in {"finished", "failed"} =>
    r \in pending \cup batch \cup asked

\* A body is captured at most once while it loads and once when it is done.
BodyAtMostTwice ==
  \A r \in Requests : copies[r] <= (IF wire[r] = "open" THEN 1 ELSE 2)

\* Open streams keep the render alive while they produce: settled() returns
\* while the connection of an observed stream is open only after the minimum
\* observation and a quiet period of that kind of traffic.
StreamsKeepAlive ==
  [][phase = "loop" /\ phase' = "html" =>
       \A r \in order : wire[r] = "open" /\ IsStream(r) =>
         elapsed >= MinObservation /\ sinceStream >= StreamIdle]_vars

\* A render that reports a quiet network has no request of the application
\* in flight and has been quiet for the idle period (settled).
QuietIsQuiet ==
  [][reason' = "network_idle" /\ reason = "" =>
       /\ \A r \in order : wire[r] # "open"
       /\ sinceActivity >= Idle]_vars

\* Every render ends with a page or an error (waitForApplicationSettled).
RenderEnds == <>Finished

-----------------------------------------------------------------------------
(* The inductive invariant behind these properties.                        *)

\* What the collector holds of a request fits how far its connection got.
ObservedInv ==
  /\ \A r \in order \cup refused : wire[r] # "new"
  /\ \A r \in Requests : Relevant(r) /\ wire[r] # "new" => r \in order \cup refused
  /\ \A r \in eventSources : Kind[r] = "eventsource"
  /\ \A r \in streams : Kind[r] = "stream"

Count(r, S) == IF r \in S THEN 1 ELSE 0

\* Each body is still to be fetched, or was captured, as often as its request
\* has put it in pendingBodies.
FetchInv ==
  /\ phase \notin {"loop", "fetch"} => batch = {}
  /\ fetching \notin batch
  /\ \A r \in Requests : r \in pending \cup batch \cup {fetching} => ShouldFetch(r)
  /\ fetching # NoRequest => fetching \in order
  /\ \A r \in Requests :
       copies[r] + Count(r, pending) + Count(r, batch \cup {fetching})
         <= (IF wire[r] = "open" THEN 1 ELSE 2)

\* As long as nothing is reported truncated, nothing has been left out.
WholeInv ==
  /\ ~truncated => refused = {} /\ \A r \in Requests : bytes[r] = offered[r]
  /\ ~truncated => cut \subseteq (IF phase = "done" THEN OpenStreams ELSE {})

\* A tracked stream has been stamped, so streamQuietSince never falls back to
\* lastActivity while settled() asks it about one.
StampedStreams == OpenStreams # {} => sinceStream # -1

IndInv ==
  /\ TypeOK /\ TrackedAsOpen /\ OnlyObserved /\ FinishedBodyAsked
  /\ ObservedInv /\ FetchInv /\ WholeInv

-----------------------------------------------------------------------------
(* What the documentation says and the code does not do.                   *)

\* docs/architecture.md:204: "relevant textual resources are retained within
\* render.network_* budgets".
RetainedWithinBudget == total <= MaxBytes

\* docs/operator-guide.md:86: "network_body_missing counts relevant
\* application resources whose bodies could not be read".
MissingCountsUnread ==
  phase = "done" => missing <= Cardinality({r \in order : copies[r] = 0})

\* docs/agent-answer-packet.md:138: a capture that was cut is reported as
\* truncated; a gzipped body is cut by decodeNetworkBody before that.
InflatedCutReported == phase = "done" /\ inflateCut => PageTruncated

\* docs/architecture.md:200: "active application requests and open streams
\* keep the render alive while they produce".
ProducersKeepAlive ==
  [][phase = "loop" /\ phase' = "html" =>
       active = {} \/ sinceActivity >= StreamIdle]_vars

\* docs/architecture.md:201: "a stream still open at snapshot time is reported
\* as truncated instead of being presented as complete".
ProbeReportsOpenStreams == phase = "done" /\ OpenStreams # {} => ProbeTruncated

=============================================================================
