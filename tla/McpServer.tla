----------------------------- MODULE McpServer -----------------------------
(***************************************************************************)
(* The MCP server process: runMCP (internal/transport/mcp.go) with its     *)
(* serial dispatch loop, the render runtime it owns (render_runtime.go),   *)
(* the service it keeps (service_runtime.go), the shutdown worker          *)
(* (internal/platform/shutdown.go) and its standard input                  *)
(* (internal/platform/input_unix.go).                                      *)
(*                                                                         *)
(* Two threads run: main, the dispatch loop and then its deferred calls,   *)
(* and worker, the shutdown callback.  A request is the configuration its  *)
(* config_path names; what its tool computes is left out.  A runtime is    *)
(* opened by renderRuntime.get and closed by its Close (BrowserRuntime     *)
(* says what happens in between).                                          *)
(***************************************************************************)
EXTENDS Naturals, FiniteSets

CONSTANTS
  Configs,       \* configurations that requests name
  Render,        \* the render configuration in each
  Runtimes,      \* identities of the runtimes opened
  MaxRequests,   \* bound: payloads the client sends
  MaxSignals,    \* bound: interrupts and SIGTERMs the process is sent
  Faults,        \* what an instance lets happen, of AllFaults
  None           \* no configuration, no runtime

\* Creating the state root, opening or closing a runtime, or a tool fails
\* (a panic), a payload is malformed, the client does not read its answers
\* (the write fails, or raises SIGPIPE).
AllFaults == {"root", "new", "close", "panic", "malformed", "write", "pipe"}

ASSUME ServerConstants ==
  /\ None \notin Configs \cup Runtimes
  /\ DOMAIN Render = Configs
  /\ IsFiniteSet(Runtimes) /\ Cardinality(Runtimes) >= MaxRequests
  /\ MaxRequests \in Nat /\ MaxSignals \in Nat
  /\ Faults \subseteq AllFaults

VARIABLES
  pc,          \* where main is
  request,     \* configuration of the request in hand
  got,         \* the runtime get returned (renderer in runtimeService)
  borrowed,    \* the runtime of the service that runs the request
  closing,     \* the runtime each thread is closing (previous)
  worker,      \* where the shutdown worker is
  pool,        \* renderRuntime: closed, runtime, config
  runtimes,    \* unopened, open, closed, or closed with an error ("failed")
  service,     \* serviceRuntime: key and the renderer of its service
  input,       \* the process input: open or closed
  cancelled,   \* the operation context is
  left,        \* payloads that can still be read
  client,      \* "here", or "gone" once it has closed its end
  pending,     \* a signal waits in the channel
  signals,     \* signals sent
  exit,        \* exitCode
  failures     \* what went wrong, of AllFaults

requestVars == <<request, got, borrowed>>
poolVars == <<pool, runtimes>>
clientVars == <<left, client>>
signalVars == <<pending, signals>>
exitVars == <<exit, failures>>
vars == <<pc, requestVars, closing, worker, poolVars, service, input,
          cancelled, clientVars, signalVars, exitVars>>

MainPCs == {"start", "read", "get", "swap", "use", "work", "reply", "stop",
            "join", "take", "closing", "input", "done", "killed"}
WorkerPCs == {"wait", "take", "closing", "input", "stopped"}

Running == pc \notin {"done", "killed"}

Init ==
  /\ pc = "start" /\ worker = "wait"
  /\ request = None /\ got = None /\ borrowed = None
  /\ closing = [t \in {"main", "worker"} |-> None]
  /\ pool = [closed |-> FALSE, runtime |-> None, config |-> None]
  /\ runtimes = [r \in Runtimes |-> "unopened"]
  /\ service = [key |-> None, renderer |-> None]
  /\ input = "open" /\ cancelled = FALSE
  /\ left = MaxRequests /\ client = "here"
  /\ pending = FALSE /\ signals = 0
  /\ exit = 0 /\ failures = {}

-----------------------------------------------------------------------------
(* The client and the operating system.                                    *)

\* The client closes its end of the pipe; a part of what it sent is in it.
Hangup ==
  /\ Running /\ client = "here"
  /\ client' = "gone" /\ left' \in 0..left
  /\ UNCHANGED <<pc, requestVars, closing, worker, poolVars, service, input,
                 cancelled, signalVars, exitVars>>

\* Until signal.Stop a signal goes to the channel, which holds one; after it
\* the default action is back, which ends the process.
Signal ==
  /\ Running /\ signals < MaxSignals
  /\ signals' = signals + 1
  /\ IF pc \in {"join", "take", "closing", "input"}
     THEN pc' = "killed" /\ UNCHANGED pending
     ELSE pending' = TRUE /\ UNCHANGED pc
  /\ UNCHANGED <<requestVars, closing, worker, poolVars, service, input,
                 cancelled, clientVars, exitVars>>

-----------------------------------------------------------------------------
(* The dispatch loop.                                                      *)

\* The deferred calls start, with the exit code a return or a panic gives.
Leave(code, fault) ==
  /\ pc' = "stop" /\ exit' = code /\ failures' = failures \cup fault

\* os.MkdirAll of the state root.
Start ==
  /\ pc = "start"
  /\ \/ pc' = "read" /\ UNCHANGED exitVars
     \/ "root" \in Faults /\ Leave(1, {"root"})
  /\ UNCHANGED <<requestVars, closing, worker, poolVars, service, input,
                 cancelled, clientVars, signalVars>>

\* ReadPayload returns a payload: a tool call for the service, or a request
\* that needs none.  A closed input still gives what the bufio.Reader holds.
ReadRequest ==
  /\ pc = "read" /\ left > 0
  /\ left' = left - 1
  /\ \/ \E c \in Configs : request' = c /\ pc' = "get"
     \/ UNCHANGED request /\ pc' = "reply"
  /\ UNCHANGED <<got, borrowed, closing, worker, poolVars, service, input,
                 cancelled, client, signalVars, exitVars>>

\* A failed read is no failure once the operations are cancelled.
ReadCode == IF cancelled THEN 0 ELSE 1

\* ReadPayload returns an error: the end of the input, a malformed frame, or
\* a read that the closing of the input interrupted.
ReadError ==
  /\ pc = "read"
  /\ \/ client = "gone" /\ left = 0 /\ input = "open" /\ Leave(0, {})
     \/ input = "closed" /\ left = 0 /\ Leave(ReadCode, {})
     \/ "malformed" \in Faults /\ left > 0 /\ Leave(ReadCode, {"malformed"})
  /\ UNCHANGED <<requestVars, closing, worker, poolVars, service, input,
                 cancelled, clientVars, signalVars>>

\* runtimeService, first part: renderRuntime.get up to its unlock.  An error
\* becomes the answer to the request.
Get ==
  /\ pc = "get"
  /\ \/ pool.closed /\ pc' = "reply" /\ UNCHANGED <<got, closing, poolVars, exitVars>>
     \/ /\ ~pool.closed /\ pool.runtime # None /\ pool.config = Render[request]
        /\ got' = pool.runtime /\ pc' = "use"
        /\ UNCHANGED <<closing, poolVars, exitVars>>
     \/ /\ ~pool.closed /\ (pool.runtime = None \/ pool.config # Render[request])
        /\ \/ /\ "new" \in Faults /\ pc' = "reply"
              /\ failures' = failures \cup {"new"}
              /\ UNCHANGED <<got, closing, poolVars, exit>>
           \/ \E r \in Runtimes :
                /\ runtimes[r] = "unopened"
                /\ runtimes' = [runtimes EXCEPT ![r] = "open"]
                /\ pool' = [pool EXCEPT !.runtime = r, !.config = Render[request]]
                /\ got' = r
                /\ closing' = [closing EXCEPT !["main"] = pool.runtime]
                /\ pc' = IF pool.runtime = None THEN "use" ELSE "swap"
                /\ UNCHANGED exitVars
  /\ UNCHANGED <<request, borrowed, worker, service, input, cancelled,
                 clientVars, signalVars>>

\* Runtime.Close of the runtime t took; a failed Close closes it all the same.
CloseTaken(t, ok) ==
  /\ ok \/ "close" \in Faults
  /\ runtimes' = [runtimes EXCEPT ![closing[t]] = IF ok THEN "closed" ELSE "failed"]
  /\ closing' = [closing EXCEPT ![t] = None]
  /\ failures' = IF ok THEN failures ELSE failures \cup {"close"}

\* renderRuntime.get, the rest: the previous runtime is closed.
Swap ==
  /\ pc = "swap"
  /\ \E ok \in BOOLEAN : CloseTaken("main", ok) /\ pc' = IF ok THEN "use" ELSE "reply"
  /\ UNCHANGED <<requestVars, worker, pool, service, input, cancelled,
                 clientVars, signalVars, exit>>

\* Mutant: the service outlives a change of configuration.
UseFirst ==
  /\ pc = "use"
  /\ service' = IF service.key # None THEN service
                ELSE [key |-> request, renderer |-> got]
  /\ borrowed' = service'.renderer
  /\ pc' = "work"
  /\ UNCHANGED <<request, got, closing, worker, poolVars, input, cancelled,
                 clientVars, signalVars, exitVars>>

\* serviceRuntime.get: the current service if its configuration is the
\* request's, else a new one with the renderer in hand.
Use ==
  /\ pc = "use"
  /\ service' = IF service.key = request THEN service
                ELSE [key |-> request, renderer |-> got]
  /\ borrowed' = service'.renderer
  /\ pc' = "work"
  /\ UNCHANGED <<request, got, closing, worker, poolVars, input, cancelled,
                 clientVars, signalVars, exitVars>>

\* The service runs the operation, under its own timeout.
Work ==
  /\ pc = "work"
  /\ \/ pc' = "reply" /\ UNCHANGED exitVars
     \/ "panic" \in Faults /\ Leave(1, {"panic"})
  /\ UNCHANGED <<requestVars, closing, worker, poolVars, service, input,
                 cancelled, clientVars, signalVars>>

\* WriteResponse, or none for a notification.
Reply ==
  /\ pc = "reply"
  /\ request' = None /\ got' = None /\ borrowed' = None
  /\ \/ pc' = "read" /\ UNCHANGED exitVars
     \/ client = "gone" /\ "write" \in Faults /\ Leave(1, {"write"})
     \/ client = "gone" /\ "pipe" \in Faults /\ pc' = "killed" /\ UNCHANGED exitVars
  /\ UNCHANGED <<closing, worker, poolVars, service, input, cancelled,
                 clientVars, signalVars>>

-----------------------------------------------------------------------------
(* Closing the renderers and the input: the deferred calls and the shutdown *)
(* callback run the same two functions.                                    *)

\* Mutant: Close does not take the runtime from the pool.
TakeShared(t) ==
  /\ closing' = [closing EXCEPT ![t] = pool.runtime]
  /\ pool' = [pool EXCEPT !.closed = TRUE]

\* Mutant: Close does not mark the pool closed.
TakeUnclosed(t) ==
  /\ closing' = [closing EXCEPT ![t] = pool.runtime]
  /\ pool' = [pool EXCEPT !.runtime = None]

\* renderRuntime.Close up to its unlock.
TakeRuntime(t) ==
  /\ closing' = [closing EXCEPT ![t] = pool.runtime]
  /\ pool' = [pool EXCEPT !.closed = TRUE, !.runtime = None]

\* processInput.Close: the reads of a closed input fail, apart from what the
\* reader has buffered.
CloseInput ==
  /\ input' = "closed"
  /\ left' \in IF input = "open" THEN 0..left ELSE {left}

AfterTake == IF pool.runtime = None THEN "input" ELSE "closing"

\* stopShutdown: signal.Stop and close(done).
StopSignals ==
  /\ pc = "stop"
  /\ pc' = "join"
  /\ UNCHANGED <<requestVars, closing, worker, poolVars, service, input,
                 cancelled, clientVars, signalVars, exitVars>>

\* Mutant: stopShutdown does not wait for the callback.
JoinNobody ==
  /\ pc = "join"
  /\ cancelled' = TRUE
  /\ pc' = "take"
  /\ UNCHANGED <<requestVars, closing, worker, poolVars, service, input,
                 clientVars, signalVars, exitVars>>

\* stopShutdown, the rest: the worker has stopped.  cancelOperations follows.
JoinWorker ==
  /\ pc = "join" /\ worker = "stopped"
  /\ cancelled' = TRUE
  /\ pc' = "take"
  /\ UNCHANGED <<requestVars, closing, worker, poolVars, service, input,
                 clientVars, signalVars, exitVars>>

MainTakes ==
  /\ pc = "take"
  /\ TakeRuntime("main")
  /\ pc' = AfterTake
  /\ UNCHANGED <<requestVars, worker, runtimes, service, input, cancelled,
                 clientVars, signalVars, exitVars>>

MainCloses ==
  /\ pc = "closing"
  /\ \E ok \in BOOLEAN : CloseTaken("main", ok) /\ exit' = IF ok THEN exit ELSE 1
  /\ pc' = "input"
  /\ UNCHANGED <<requestVars, worker, pool, service, input, cancelled,
                 clientVars, signalVars>>

MainClosesInput ==
  /\ pc = "input"
  /\ CloseInput
  /\ pc' = "done"
  /\ UNCHANGED <<requestVars, closing, worker, poolVars, service, cancelled,
                 client, signalVars, exitVars>>

\* Mutant: the callback does not cancel the operations.
WakeUncancelled ==
  /\ Running /\ worker = "wait"
  /\ \/ pending /\ worker' = "take" /\ pending' = FALSE
     \/ pc = "join" /\ worker' = "stopped" /\ UNCHANGED pending
  /\ UNCHANGED <<pc, requestVars, closing, poolVars, service, input, cancelled,
                 clientVars, signals, exitVars>>

\* The worker's select: a signal, or done once main has closed it.  The
\* callback cancels the operations first.
WorkerWakes ==
  /\ Running /\ worker = "wait"
  /\ \/ /\ pending /\ worker' = "take"
        /\ pending' = FALSE /\ cancelled' = TRUE
     \/ /\ pc = "join" /\ worker' = "stopped"
        /\ UNCHANGED <<pending, cancelled>>
  /\ UNCHANGED <<pc, requestVars, closing, poolVars, service, input,
                 clientVars, signals, exitVars>>

WorkerTakes ==
  /\ Running /\ worker = "take"
  /\ TakeRuntime("worker")
  /\ worker' = AfterTake
  /\ UNCHANGED <<pc, requestVars, runtimes, service, input, cancelled,
                 clientVars, signalVars, exitVars>>

\* A Close that fails here is logged and leaves the exit code alone.
WorkerCloses ==
  /\ Running /\ worker = "closing"
  /\ \E ok \in BOOLEAN : CloseTaken("worker", ok)
  /\ worker' = "input"
  /\ UNCHANGED <<pc, requestVars, pool, service, input, cancelled,
                 clientVars, signalVars, exit>>

\* Mutant: the callback leaves the input open.
WorkerKeepsInput ==
  /\ Running /\ worker = "input"
  /\ worker' = "stopped"
  /\ UNCHANGED <<pc, requestVars, closing, poolVars, service, input, left,
                 cancelled, client, signalVars, exitVars>>

WorkerClosesInput ==
  /\ Running /\ worker = "input"
  /\ CloseInput
  /\ worker' = "stopped"
  /\ UNCHANGED <<pc, requestVars, closing, poolVars, service, cancelled,
                 client, signalVars, exitVars>>

Main ==
  \/ Start \/ ReadRequest \/ ReadError \/ Get \/ Swap \/ Use \/ Work \/ Reply
  \/ StopSignals \/ JoinWorker \/ MainTakes \/ MainCloses \/ MainClosesInput

Worker == WorkerWakes \/ WorkerTakes \/ WorkerCloses \/ WorkerClosesInput

Next == Hangup \/ Signal \/ Main \/ Worker

Spec == Init /\ [][Next]_vars

\* Both threads are scheduled.  A tool ends at its timeout, a browser's Close
\* ends, and a client that is there reads its answers; no client need send or
\* close anything.
FairSpec == Spec /\ WF_vars(Main) /\ WF_vars(Worker)

-----------------------------------------------------------------------------
(* Properties.                                                             *)

\* The types of the state.
TypeOK ==
  /\ pc \in MainPCs /\ worker \in WorkerPCs
  /\ request \in Configs \cup {None}
  /\ got \in Runtimes \cup {None} /\ borrowed \in Runtimes \cup {None}
  /\ closing \in [{"main", "worker"} -> Runtimes \cup {None}]
  /\ pool \in [closed : BOOLEAN, runtime : Runtimes \cup {None},
               config : {Render[c] : c \in Configs} \cup {None}]
  /\ runtimes \in [Runtimes -> {"unopened", "open", "closed", "failed"}]
  /\ service \in [key : Configs \cup {None}, renderer : Runtimes \cup {None}]
  /\ input \in {"open", "closed"} /\ cancelled \in BOOLEAN
  /\ left \in 0..MaxRequests /\ client \in {"here", "gone"}
  /\ pending \in BOOLEAN /\ signals \in 0..MaxSignals
  /\ exit \in {0, 1} /\ failures \subseteq AllFaults

\* Every open runtime has one owner, the pool or the thread that is closing it
\* (a swap of configurations, the deferred Close and the shutdown callback may
\* overlap), and a closed pool gets no runtime any more (renderRuntime.get).
OneOwner ==
  /\ \A r \in Runtimes : runtimes[r] = "open" <=>
       pool.runtime = r \/ \E t \in {"main", "worker"} : closing[t] = r
  /\ \A t \in {"main", "worker"} : closing[t] # None => closing[t] # pool.runtime
  /\ closing["main"] # None => closing["main"] # closing["worker"]
  /\ pool.closed => pool.runtime = None

\* When runMCP returns, whatever came first, the end of the input, a failure or
\* a signal, no runtime is open, the worker has stopped and the input is
\* restored (the deferred calls of runMCP).
Released ==
  pc = "done" =>
    /\ \A r \in Runtimes : runtimes[r] # "open"
    /\ worker = "stopped" /\ input = "closed"

\* A shutdown is not reported as a failed read, although it is the closing of
\* the input that interrupts the read (operation.Err in runMCP).
NoFalseAlarm == exit = 1 => failures # {}

\* While the server is not shutting down and closed every runtime it replaced,
\* an operation runs on the current runtime, which is the one of its own
\* configuration (renderRuntime.get, serviceRuntime.get).
BorrowsCurrent ==
  pc = "work" /\ ~pool.closed /\ "close" \notin failures =>
    /\ borrowed = pool.runtime /\ runtimes[borrowed] = "open"
    /\ pool.config = Render[request]

\* Once the client is gone or a signal was caught the process ends, whatever it
\* was doing (runMCP, WatchShutdown, processInput.Close).
ServerEnds == (client = "gone" \/ pending) ~> ~Running

\* The process never ends with a runtime open, so no browser outlives it
\* (docs/chromium-reuse.md:36-37: "EOF, transport errors and SIGTERM close the
\* MCP renderer").  signal.Stop comes before renderRuntime.Close in the
\* deferred calls, so a SIGTERM that follows an EOF abandons the browser.
NeverAbandons == ~Running => \A r \in Runtimes : runtimes[r] # "open"

\* Until the server shuts down an operation runs on an open runtime
\* (docs/architecture.md:173-174: "Configuration changes replace the runtime
\* between operations").  After a swap whose Close failed, serviceRuntime.get
\* still returns the service that borrows the closed runtime.
RunsOnOpenRuntime == pc = "work" /\ ~pool.closed => runtimes[borrowed] = "open"

\* What a deferred call or the worker has done by each of its steps.
ShutdownOrder ==
  /\ pc \in {"take", "closing", "input", "done"} => worker = "stopped" /\ cancelled
  /\ pc \in {"closing", "input", "done"} => pool.closed
  /\ pc \in {"swap", "closing"} => closing["main"] # None
  /\ closing["main"] # None => pc \in {"swap", "closing", "killed"}
  /\ worker = "closing" <=> closing["worker"] # None
  /\ worker # "wait" /\ worker # "stopped" => cancelled
  /\ worker \in {"closing", "input"} => pool.closed
  /\ input = "closed" => cancelled
  /\ pc = "done" => input = "closed" /\ pool.runtime = None

\* The service in hand belongs to the current runtime; between get and its use
\* only a service for the request's own configuration must.
ServiceInv ==
  /\ pc \in {"get", "swap", "use", "work"} => request # None
  /\ ~pool.closed /\ "close" \notin failures =>
       /\ service.key # None /\ (pc \in {"swap", "use"} => service.key = request) =>
            /\ service.renderer = pool.runtime /\ pool.runtime # None
            /\ pool.config = Render[service.key]
       /\ pc \in {"swap", "use", "work"} =>
            pool.runtime # None /\ pool.config = Render[request]
       /\ pc \in {"swap", "use"} => got = pool.runtime
       /\ pc = "work" => borrowed = pool.runtime

IndInv == TypeOK /\ OneOwner /\ ShutdownOrder /\ ServiceInv /\ NoFalseAlarm
=============================================================================
