-------------------------- MODULE McpServerProofs --------------------------
(***************************************************************************)
(* Proofs about McpServer: every open runtime has one owner whatever the   *)
(* dispatch loop, its deferred calls and the shutdown callback do at the   *)
(* same time, so that a server that returns has released everything, and   *)
(* an operation runs on the current runtime.                               *)
(***************************************************************************)
EXTENDS McpServer, TLAPS

Threads == {"main", "worker"}

\* A step that leaves the pool, the runtimes and who closes them alone.
LEMMA OwnerFrame ==
  ASSUME OneOwner, UNCHANGED <<pool, runtimes, closing>>
  PROVE  OneOwner'
BY DEF OneOwner

\* Closing the runtime a thread took leaves every other with its owner.
LEMMA CloseOwner ==
  ASSUME TypeOK, OneOwner, NEW t \in Threads, NEW ok \in BOOLEAN,
         closing[t] # None, CloseTaken(t, ok), pool' = pool
  PROVE  /\ OneOwner'
         /\ runtimes' \in [Runtimes -> {"unopened", "open", "closed", "failed"}]
         /\ closing' \in [Threads -> Runtimes \cup {None}] /\ closing'[t] = None
         /\ \A u \in Threads \ {t} : closing'[u] = closing[u]
         /\ failures' \subseteq AllFaults /\ failures \subseteq failures'
         /\ IF ok THEN failures' = failures ELSE "close" \in failures'
<1>1. /\ closing \in [Threads -> Runtimes \cup {None}]
      /\ runtimes \in [Runtimes -> {"unopened", "open", "closed", "failed"}]
      /\ closing[t] \in Runtimes /\ None \notin Runtimes
  BY ServerConstants DEF TypeOK, Threads
<1>2. /\ runtimes' \in [Runtimes -> {"unopened", "open", "closed", "failed"}]
      /\ closing' \in [Threads -> Runtimes \cup {None}] /\ closing'[t] = None
      /\ \A u \in Threads \ {t} : closing'[u] = closing[u]
      /\ runtimes'[closing[t]] # "open"
      /\ \A r \in Runtimes : r # closing[t] => runtimes'[r] = runtimes[r]
  BY <1>1 DEF CloseTaken
<1>3. /\ failures' \subseteq AllFaults /\ failures \subseteq failures'
      /\ IF ok THEN failures' = failures ELSE "close" \in failures'
  BY DEF CloseTaken, TypeOK, AllFaults
<1>4. OneOwner'
  <2>1. \A u \in Threads \ {t} : closing[u] # closing[t]
    BY <1>1 DEF OneOwner, Threads
  <2>2. closing[t] # pool.runtime
    BY DEF OneOwner, Threads
  <2> QED
    BY <1>1, <1>2, <2>1, <2>2 DEF OneOwner, Threads
<1> QED
  BY <1>2, <1>3, <1>4

\* Taking the runtime from the pool makes the thread its owner.
LEMMA TakeOwner ==
  ASSUME TypeOK, OneOwner, NEW t \in Threads, closing[t] = None,
         TakeRuntime(t), runtimes' = runtimes
  PROVE  /\ OneOwner'
         /\ closing' \in [Threads -> Runtimes \cup {None}] /\ closing'[t] = pool.runtime
         /\ \A u \in Threads \ {t} : closing'[u] = closing[u]
         /\ pool' \in [closed : BOOLEAN, runtime : Runtimes \cup {None},
                       config : {Render[c] : c \in Configs} \cup {None}]
         /\ pool'.closed /\ pool'.runtime = None
<1>1. /\ closing \in [Threads -> Runtimes \cup {None}] /\ None \notin Runtimes
      /\ pool \in [closed : BOOLEAN, runtime : Runtimes \cup {None},
                   config : {Render[c] : c \in Configs} \cup {None}]
  BY ServerConstants DEF TypeOK, Threads
<1>2. /\ closing' \in [Threads -> Runtimes \cup {None}] /\ closing'[t] = pool.runtime
      /\ \A u \in Threads \ {t} : closing'[u] = closing[u]
      /\ pool' \in [closed : BOOLEAN, runtime : Runtimes \cup {None},
                    config : {Render[c] : c \in Configs} \cup {None}]
      /\ pool'.closed /\ pool'.runtime = None
  BY <1>1 DEF TakeRuntime
<1>3. OneOwner'
  BY <1>1, <1>2 DEF OneOwner, Threads
<1> QED
  BY <1>2, <1>3

\* CloseInput keeps the types and closes the input.
LEMMA InputType ==
  ASSUME TypeOK, CloseInput
  PROVE  input' = "closed" /\ left' \in 0..MaxRequests
<1>1. left \in 0..MaxRequests /\ MaxRequests \in Nat
  BY ServerConstants DEF TypeOK
<1>2. \A n \in 0..left : n \in 0..MaxRequests
  BY <1>1
<1> QED
  BY <1>1, <1>2 DEF CloseInput

LEMMA InitInd == Init => IndInv
<1> SUFFICES ASSUME Init PROVE IndInv
  OBVIOUS
<1>1. TypeOK
  <2>1. pool \in [closed : BOOLEAN, runtime : Runtimes \cup {None},
                 config : {Render[c] : c \in Configs} \cup {None}]
    BY DEF Init
  <2>2. service \in [key : Configs \cup {None}, renderer : Runtimes \cup {None}]
    BY DEF Init
  <2>3. left \in 0..MaxRequests /\ signals \in 0..MaxSignals
    BY ServerConstants DEF Init
  <2> QED
    BY <2>1, <2>2, <2>3 DEF Init, TypeOK, MainPCs, WorkerPCs
<1>2. OneOwner
  BY ServerConstants DEF Init, OneOwner
<1>3. ShutdownOrder
  BY DEF Init, ShutdownOrder
<1>4. ServiceInv /\ NoFalseAlarm
  BY DEF Init, ServiceInv, NoFalseAlarm
<1> QED
  BY <1>1, <1>2, <1>3, <1>4 DEF IndInv

-----------------------------------------------------------------------------
(* The client, the system and the dispatch loop.                           *)

LEMMA HangupInd == IndInv /\ Hangup => IndInv'
<1> SUFFICES ASSUME IndInv, Hangup PROVE IndInv'
  OBVIOUS
<1>1. left' \in 0..MaxRequests
  <2>1. left \in 0..MaxRequests /\ left' \in 0..left /\ MaxRequests \in Nat
    BY ServerConstants DEF IndInv, TypeOK, Hangup
  <2> QED
    BY <2>1
<1>2. TypeOK'
  BY <1>1 DEF IndInv, TypeOK, Hangup, requestVars, poolVars, signalVars, exitVars
<1>3. OneOwner' /\ ShutdownOrder' /\ ServiceInv' /\ NoFalseAlarm'
  BY OwnerFrame DEF IndInv, Hangup, ShutdownOrder, ServiceInv, NoFalseAlarm,
     requestVars, poolVars, signalVars, exitVars
<1> QED
  BY <1>2, <1>3 DEF IndInv

LEMMA SignalInd == IndInv /\ Signal => IndInv'
<1> SUFFICES ASSUME IndInv, Signal PROVE IndInv'
  OBVIOUS
<1> USE DEF requestVars, poolVars, clientVars, exitVars
<1>1. signals' \in 0..MaxSignals
  <2>1. signals \in 0..MaxSignals /\ signals < MaxSignals /\ MaxSignals \in Nat
        /\ signals' = signals + 1
    BY ServerConstants DEF IndInv, TypeOK, Signal
  <2> QED
    BY <2>1
<1>2. pc' \in {pc, "killed"} /\ pending' \in BOOLEAN
  BY DEF Signal, IndInv, TypeOK
<1>3. TypeOK'
  BY <1>1, <1>2 DEF IndInv, TypeOK, Signal, MainPCs
<1>4. OneOwner'
  BY OwnerFrame DEF IndInv, Signal
<1>5. ShutdownOrder' /\ ServiceInv' /\ NoFalseAlarm'
  BY <1>2 DEF IndInv, Signal, ShutdownOrder, ServiceInv, NoFalseAlarm
<1> QED
  BY <1>3, <1>4, <1>5 DEF IndInv

\* Leaving the loop with a code that a failure explains.
LEMMA LeaveInd ==
  ASSUME IndInv, NEW code \in {0, 1}, NEW fault \in SUBSET AllFaults,
         Leave(code, fault), code = 1 => fault # {},
         pc \in {"start", "read", "work", "reply"},
         request' = request \/ request' = None, got' = got \/ got' = None,
         borrowed' = borrowed \/ borrowed' = None,
         UNCHANGED <<closing, worker, poolVars, service, input, cancelled,
                     clientVars, signalVars>>
  PROVE  IndInv'
<1> USE DEF poolVars, clientVars, signalVars, Leave
<1>1. TypeOK'
  BY DEF IndInv, TypeOK, MainPCs
<1>2. OneOwner'
  BY OwnerFrame DEF IndInv
<1>3. ShutdownOrder'
  BY DEF IndInv, ShutdownOrder
<1>4. ServiceInv'
  BY DEF IndInv, ServiceInv
<1>5. NoFalseAlarm'
  BY DEF IndInv, NoFalseAlarm
<1> QED
  BY <1>1, <1>2, <1>3, <1>4, <1>5 DEF IndInv

\* A step of the loop that only moves on.
LEMMA MoveInd ==
  ASSUME IndInv, pc \in {"start", "read", "get", "work", "reply", "stop"},
         pc' \in {"read", "reply", "join", "killed"},
         pc = "stop" <=> pc' = "join",
         request' = request \/ request' = None, got' = got \/ got' = None,
         borrowed' = borrowed \/ borrowed' = None,
         left' \in 0..MaxRequests,
         UNCHANGED <<closing, worker, poolVars, service, input, cancelled,
                     client, signalVars, exit>>,
         failures' \subseteq AllFaults, failures \subseteq failures',
         "close" \in failures' => "close" \in failures
  PROVE  IndInv'
<1> USE DEF poolVars, signalVars
<1>1. TypeOK'
  BY DEF IndInv, TypeOK, MainPCs
<1>2. OneOwner'
  BY OwnerFrame DEF IndInv
<1>3. ShutdownOrder'
  BY DEF IndInv, ShutdownOrder
<1>4. ServiceInv'
  BY DEF IndInv, ServiceInv
<1>5. NoFalseAlarm'
  BY DEF IndInv, NoFalseAlarm
<1> QED
  BY <1>1, <1>2, <1>3, <1>4, <1>5 DEF IndInv

LEMMA StartInd == IndInv /\ Start => IndInv'
<1> SUFFICES ASSUME IndInv, Start PROVE IndInv'
  OBVIOUS
<1> USE DEF requestVars, clientVars, exitVars
<1>1. CASE pc' = "read" /\ UNCHANGED exitVars
  BY <1>1, MoveInd DEF Start, IndInv, TypeOK
<1>2. CASE Leave(1, {"root"})
  BY <1>2, LeaveInd DEF Start, AllFaults
<1> QED
  BY <1>1, <1>2 DEF Start

LEMMA ReadErrorInd == IndInv /\ ReadError => IndInv'
<1> SUFFICES ASSUME IndInv, ReadError PROVE IndInv'
  OBVIOUS
<1> USE DEF requestVars
<1>1. CASE Leave(0, {})
  BY <1>1, LeaveInd DEF ReadError
<1>2. CASE input = "closed" /\ Leave(ReadCode, {})
  <2>1. ReadCode = 0
    BY <1>2 DEF IndInv, ShutdownOrder, ReadCode
  <2> QED
    BY <1>2, <2>1, LeaveInd DEF ReadError
<1>3. CASE Leave(ReadCode, {"malformed"})
  <2>1. ReadCode \in {0, 1}
    BY DEF ReadCode
  <2> QED
    BY <1>3, <2>1, LeaveInd DEF ReadError, AllFaults
<1> QED
  BY <1>1, <1>2, <1>3 DEF ReadError

LEMMA ReadRequestInd == IndInv /\ ReadRequest => IndInv'
<1> SUFFICES ASSUME IndInv, ReadRequest PROVE IndInv'
  OBVIOUS
<1> USE DEF poolVars, signalVars, exitVars
<1>1. left' \in 0..MaxRequests
  <2>1. left \in 0..MaxRequests /\ left > 0 /\ left' = left - 1 /\ MaxRequests \in Nat
    BY ServerConstants DEF IndInv, TypeOK, ReadRequest
  <2> QED
    BY <2>1
<1>2. pc = "read" /\ pc' \in {"get", "reply"} /\ request' \in Configs \cup {None}
  BY DEF ReadRequest, IndInv, TypeOK
<1>3. TypeOK'
  BY <1>1, <1>2 DEF IndInv, TypeOK, ReadRequest, MainPCs
<1>4. OneOwner'
  BY OwnerFrame DEF IndInv, ReadRequest
<1>5. ShutdownOrder' /\ NoFalseAlarm'
  BY <1>2 DEF IndInv, ReadRequest, ShutdownOrder, NoFalseAlarm
<1>6. ServiceInv'
  <2>1. pc' = "get" => request' # None
    BY ServerConstants DEF ReadRequest
  <2> QED
    BY <1>2, <2>1 DEF IndInv, ReadRequest, ServiceInv
<1> QED
  BY <1>3, <1>4, <1>5, <1>6 DEF IndInv

LEMMA WorkInd == IndInv /\ Work => IndInv'
<1> SUFFICES ASSUME IndInv, Work PROVE IndInv'
  OBVIOUS
<1> USE DEF requestVars, clientVars, exitVars
<1>1. CASE pc' = "reply" /\ UNCHANGED exitVars
  BY <1>1, MoveInd DEF Work, IndInv, TypeOK
<1>2. CASE Leave(1, {"panic"})
  BY <1>2, LeaveInd DEF Work, AllFaults
<1> QED
  BY <1>1, <1>2 DEF Work

LEMMA ReplyInd == IndInv /\ Reply => IndInv'
<1> SUFFICES ASSUME IndInv, Reply PROVE IndInv'
  OBVIOUS
<1> USE DEF clientVars, exitVars
<1>1. CASE pc' \in {"read", "killed"} /\ UNCHANGED exitVars
  BY <1>1, MoveInd DEF Reply, IndInv, TypeOK
<1>2. CASE Leave(1, {"write"})
  BY <1>2, LeaveInd DEF Reply, AllFaults
<1> QED
  BY <1>1, <1>2 DEF Reply

LEMMA StopSignalsInd == IndInv /\ StopSignals => IndInv'
<1> SUFFICES ASSUME IndInv, StopSignals PROVE IndInv'
  OBVIOUS
<1> QED
  BY MoveInd DEF StopSignals, requestVars, clientVars, exitVars, IndInv, TypeOK

-----------------------------------------------------------------------------
(* From the request to its service.                                        *)

LEMMA GetInd == IndInv /\ Get => IndInv'
<1> SUFFICES ASSUME IndInv, Get PROVE IndInv'
  OBVIOUS
<1> USE DEF clientVars, signalVars
<1>1. CASE pc' = "reply" /\ UNCHANGED <<got, closing, poolVars, exit>>
           /\ failures' \subseteq failures \cup {"new"} /\ failures \subseteq failures'
  BY <1>1, MoveInd DEF Get, IndInv, TypeOK, AllFaults
<1>2. CASE /\ ~pool.closed /\ pool.runtime # None /\ pool.config = Render[request]
           /\ got' = pool.runtime /\ pc' = "use"
           /\ UNCHANGED <<closing, poolVars, exitVars>>
  <2> USE <1>2 DEF Get, IndInv, poolVars, exitVars
  <2>1. TypeOK'
    BY DEF TypeOK, MainPCs
  <2>2. OneOwner'
    BY OwnerFrame
  <2>3. ShutdownOrder' /\ NoFalseAlarm'
    BY DEF ShutdownOrder, NoFalseAlarm
  <2>4. ServiceInv'
    BY DEF ServiceInv
  <2> QED
    BY <2>1, <2>2, <2>3, <2>4
<1>3. ASSUME ~pool.closed, pool.runtime = None \/ pool.config # Render[request],
             NEW r \in Runtimes, runtimes[r] = "unopened",
             runtimes' = [runtimes EXCEPT ![r] = "open"],
             pool' = [pool EXCEPT !.runtime = r, !.config = Render[request]],
             got' = r,
             closing' = [closing EXCEPT !["main"] = pool.runtime],
             pc' = IF pool.runtime = None THEN "use" ELSE "swap",
             UNCHANGED exitVars
      PROVE  IndInv'
  <2> USE <1>3 DEF exitVars
  <2>1. /\ TypeOK /\ OneOwner /\ ShutdownOrder /\ ServiceInv /\ NoFalseAlarm
        /\ pc = "get" /\ closing["main"] = None /\ request # None
        /\ UNCHANGED <<request, borrowed, worker, service, input, cancelled,
                       left, client, pending, signals>>
    BY DEF IndInv, Get, ShutdownOrder, ServiceInv
  <2>2. request \in Configs /\ None \notin Runtimes
    BY <2>1, ServerConstants DEF TypeOK
  <2>3. /\ pool'.runtime = r /\ pool'.config = Render[request] /\ ~pool'.closed
        /\ pool' \in [closed : BOOLEAN, runtime : Runtimes \cup {None},
                      config : {Render[c] : c \in Configs} \cup {None}]
    BY <2>1, <2>2 DEF TypeOK
  <2>4. /\ closing' \in [Threads -> Runtimes \cup {None}]
        /\ closing'["main"] = pool.runtime /\ closing'["worker"] = closing["worker"]
        /\ runtimes' \in [Runtimes -> {"unopened", "open", "closed", "failed"}]
        /\ runtimes'[r] = "open" /\ \A s \in Runtimes \ {r} : runtimes'[s] = runtimes[s]
    BY <2>1 DEF TypeOK, Threads
  <2>5. TypeOK'
    <3>1. pc' \in MainPCs
      BY DEF MainPCs
    <3> QED
      BY <2>1, <2>3, <2>4, <3>1 DEF TypeOK, Threads
  <2>6. OneOwner'
    <3>1. r # pool.runtime /\ \A t \in Threads : closing[t] # r
      BY <2>1, <2>2 DEF OneOwner, Threads
    <3>2. pool.runtime # None => closing["worker"] # pool.runtime
      BY <2>1 DEF OneOwner
    <3> QED
      BY <2>1, <2>2, <2>3, <2>4, <3>1, <3>2 DEF OneOwner, Threads
  <2>7. ShutdownOrder' /\ NoFalseAlarm'
    BY <2>1, <2>3, <2>4 DEF ShutdownOrder, NoFalseAlarm
  <2>8. ServiceInv'
    BY <2>1, <2>2, <2>3 DEF ServiceInv
  <2> QED
    BY <2>5, <2>6, <2>7, <2>8 DEF IndInv
<1> QED
  BY <1>1, <1>2, <1>3 DEF Get, exitVars

LEMMA SwapInd == IndInv /\ Swap => IndInv'
<1> SUFFICES ASSUME IndInv, Swap PROVE IndInv'
  OBVIOUS
<1>1. PICK ok \in BOOLEAN : CloseTaken("main", ok) /\ pc' = IF ok THEN "use" ELSE "reply"
  BY DEF Swap
<1>2. /\ TypeOK /\ OneOwner /\ ShutdownOrder /\ ServiceInv /\ NoFalseAlarm
      /\ pc = "swap" /\ closing["main"] # None
      /\ UNCHANGED <<request, got, borrowed, worker, pool, service, input, cancelled,
                     left, client, pending, signals, exit>>
  BY DEF IndInv, Swap, ShutdownOrder, requestVars, clientVars, signalVars
<1>3. /\ OneOwner'
      /\ runtimes' \in [Runtimes -> {"unopened", "open", "closed", "failed"}]
      /\ closing' \in [Threads -> Runtimes \cup {None}] /\ closing'["main"] = None
      /\ closing'["worker"] = closing["worker"]
      /\ failures' \subseteq AllFaults /\ failures \subseteq failures'
      /\ IF ok THEN failures' = failures ELSE "close" \in failures'
  BY <1>1, <1>2, CloseOwner DEF Threads
<1>4. TypeOK'
  BY <1>1, <1>2, <1>3 DEF TypeOK, MainPCs, Threads
<1>5. ShutdownOrder' /\ NoFalseAlarm'
  BY <1>1, <1>2, <1>3 DEF ShutdownOrder, NoFalseAlarm
<1>6. ServiceInv'
  BY <1>1, <1>2, <1>3 DEF ServiceInv
<1> QED
  BY <1>3, <1>4, <1>5, <1>6 DEF IndInv

LEMMA UseInd == IndInv /\ Use => IndInv'
<1> SUFFICES ASSUME IndInv, Use PROVE IndInv'
  OBVIOUS
<1>1. /\ TypeOK /\ OneOwner /\ ShutdownOrder /\ ServiceInv /\ NoFalseAlarm
      /\ pc = "use" /\ pc' = "work" /\ borrowed' = service'.renderer
      /\ service' = IF service.key = request THEN service
                    ELSE [key |-> request, renderer |-> got]
      /\ UNCHANGED <<request, got, closing, worker, pool, runtimes, input, cancelled,
                     left, client, pending, signals, exit, failures>>
  BY DEF IndInv, Use, poolVars, clientVars, signalVars, exitVars
<1>2. /\ service' \in [key : Configs \cup {None}, renderer : Runtimes \cup {None}]
      /\ service'.key = request
      /\ service'.renderer = IF service.key = request THEN service.renderer ELSE got
  BY <1>1 DEF TypeOK
<1>3. TypeOK'
  <2>1. borrowed' \in Runtimes \cup {None}
    BY <1>1, <1>2 DEF TypeOK
  <2> QED
    BY <1>1, <1>2, <2>1 DEF TypeOK, MainPCs
<1>4. OneOwner' /\ ShutdownOrder' /\ NoFalseAlarm'
  BY <1>1, OwnerFrame DEF ShutdownOrder, NoFalseAlarm
<1>5. ServiceInv'
  BY <1>1, <1>2 DEF ServiceInv
<1> QED
  BY <1>3, <1>4, <1>5 DEF IndInv

-----------------------------------------------------------------------------
(* The deferred calls and the shutdown callback.                           *)

LEMMA JoinWorkerInd == IndInv /\ JoinWorker => IndInv'
<1> SUFFICES ASSUME IndInv, JoinWorker PROVE IndInv'
  OBVIOUS
<1> USE DEF IndInv, JoinWorker, requestVars, poolVars, clientVars, signalVars, exitVars
<1>1. TypeOK'
  BY DEF TypeOK, MainPCs
<1>2. OneOwner'
  BY OwnerFrame
<1>3. ShutdownOrder' /\ ServiceInv' /\ NoFalseAlarm'
  BY DEF ShutdownOrder, ServiceInv, NoFalseAlarm
<1> QED
  BY <1>1, <1>2, <1>3

LEMMA MainTakesInd == IndInv /\ MainTakes => IndInv'
<1> SUFFICES ASSUME IndInv, MainTakes PROVE IndInv'
  OBVIOUS
<1>1. /\ TypeOK /\ OneOwner /\ ShutdownOrder /\ ServiceInv /\ NoFalseAlarm
      /\ pc = "take" /\ closing["main"] = None /\ TakeRuntime("main")
      /\ pc' = IF pool.runtime = None THEN "input" ELSE "closing"
      /\ UNCHANGED <<request, got, borrowed, worker, runtimes, service, input,
                     cancelled, left, client, pending, signals, exit, failures>>
  BY DEF IndInv, MainTakes, ShutdownOrder, AfterTake, requestVars, clientVars, signalVars,
     exitVars
<1>2. /\ OneOwner'
      /\ closing' \in [Threads -> Runtimes \cup {None}] /\ closing'["main"] = pool.runtime
      /\ closing'["worker"] = closing["worker"]
      /\ pool' \in [closed : BOOLEAN, runtime : Runtimes \cup {None},
                    config : {Render[c] : c \in Configs} \cup {None}]
      /\ pool'.closed /\ pool'.runtime = None
  BY <1>1, TakeOwner DEF Threads
<1>3. TypeOK'
  BY <1>1, <1>2 DEF TypeOK, MainPCs, WorkerPCs, Threads
<1>4. ShutdownOrder' /\ NoFalseAlarm'
  BY <1>1, <1>2 DEF ShutdownOrder, NoFalseAlarm
<1>5. ServiceInv'
  BY <1>1, <1>2 DEF ServiceInv
<1> QED
  BY <1>2, <1>3, <1>4, <1>5 DEF IndInv

LEMMA MainClosesInd == IndInv /\ MainCloses => IndInv'
<1> SUFFICES ASSUME IndInv, MainCloses PROVE IndInv'
  OBVIOUS
<1>1. PICK ok \in BOOLEAN : CloseTaken("main", ok) /\ exit' = IF ok THEN exit ELSE 1
  BY DEF MainCloses
<1>2. /\ TypeOK /\ OneOwner /\ ShutdownOrder /\ ServiceInv /\ NoFalseAlarm
      /\ pc = "closing" /\ pc' = "input" /\ closing["main"] # None
      /\ UNCHANGED <<request, got, borrowed, worker, pool, service, input, cancelled,
                     left, client, pending, signals>>
  BY DEF IndInv, MainCloses, ShutdownOrder, requestVars, clientVars, signalVars
<1>3. /\ OneOwner'
      /\ runtimes' \in [Runtimes -> {"unopened", "open", "closed", "failed"}]
      /\ closing' \in [Threads -> Runtimes \cup {None}] /\ closing'["main"] = None
      /\ closing'["worker"] = closing["worker"]
      /\ failures' \subseteq AllFaults /\ failures \subseteq failures'
      /\ IF ok THEN failures' = failures ELSE "close" \in failures'
  BY <1>1, <1>2, CloseOwner DEF Threads
<1>4. TypeOK'
  BY <1>1, <1>2, <1>3 DEF TypeOK, MainPCs, WorkerPCs, Threads
<1>5. ShutdownOrder' /\ NoFalseAlarm'
  BY <1>1, <1>2, <1>3 DEF ShutdownOrder, NoFalseAlarm
<1>6. ServiceInv'
  <2>1. pool.closed
    BY <1>2 DEF ShutdownOrder
  <2> QED
    BY <1>2, <2>1 DEF ServiceInv
<1> QED
  BY <1>3, <1>4, <1>5, <1>6 DEF IndInv

LEMMA MainClosesInputInd == IndInv /\ MainClosesInput => IndInv'
<1> SUFFICES ASSUME IndInv, MainClosesInput PROVE IndInv'
  OBVIOUS
<1>1. /\ TypeOK /\ OneOwner /\ ShutdownOrder /\ ServiceInv /\ NoFalseAlarm
      /\ pc = "input" /\ pc' = "done" /\ CloseInput
      /\ UNCHANGED <<request, got, borrowed, closing, worker, pool, runtimes, service,
                     cancelled, client, pending, signals, exit, failures>>
  BY DEF IndInv, MainClosesInput, requestVars, poolVars, signalVars, exitVars
<1>2. input' = "closed" /\ left' \in 0..MaxRequests
  BY <1>1, InputType
<1>3. TypeOK'
  BY <1>1, <1>2 DEF TypeOK, MainPCs, WorkerPCs
<1>4. OneOwner' /\ NoFalseAlarm'
  BY <1>1, OwnerFrame DEF NoFalseAlarm
<1>5. ShutdownOrder'
  BY <1>1, <1>2 DEF ShutdownOrder, OneOwner
<1>6. ServiceInv'
  BY <1>1 DEF ServiceInv
<1> QED
  BY <1>3, <1>4, <1>5, <1>6 DEF IndInv

LEMMA WorkerWakesInd == IndInv /\ WorkerWakes => IndInv'
<1> SUFFICES ASSUME IndInv, WorkerWakes PROVE IndInv'
  OBVIOUS
<1> USE DEF IndInv, WorkerWakes, requestVars, poolVars, clientVars, exitVars
<1>1. worker = "wait" /\ worker' \in {"take", "stopped"} /\ pc' = pc
      /\ \/ worker' = "take" /\ cancelled' = TRUE /\ pending' = FALSE
         \/ worker' = "stopped" /\ cancelled' = cancelled /\ pending' = pending
  OBVIOUS
<1>2. TypeOK'
  <2>1. cancelled' \in BOOLEAN /\ pending' \in BOOLEAN
    BY <1>1, Zenon DEF TypeOK
  <2>2. worker' \in WorkerPCs
    BY <1>1 DEF WorkerPCs
  <2> QED
    BY <2>1, <2>2 DEF TypeOK
<1>3. OneOwner'
  BY OwnerFrame
<1>4. ShutdownOrder' /\ ServiceInv' /\ NoFalseAlarm'
  BY <1>1 DEF ShutdownOrder, ServiceInv, NoFalseAlarm
<1> QED
  BY <1>2, <1>3, <1>4

LEMMA WorkerTakesInd == IndInv /\ WorkerTakes => IndInv'
<1> SUFFICES ASSUME IndInv, WorkerTakes PROVE IndInv'
  OBVIOUS
<1>1. /\ TypeOK /\ OneOwner /\ ShutdownOrder /\ ServiceInv /\ NoFalseAlarm
      /\ worker = "take" /\ closing["worker"] = None /\ TakeRuntime("worker")
      /\ worker' = IF pool.runtime = None THEN "input" ELSE "closing"
      /\ UNCHANGED <<request, got, borrowed, pc, runtimes, service, input,
                     cancelled, left, client, pending, signals, exit, failures>>
  BY DEF IndInv, WorkerTakes, ShutdownOrder, AfterTake, requestVars, clientVars,
     signalVars, exitVars
<1>2. /\ OneOwner'
      /\ closing' \in [Threads -> Runtimes \cup {None}] /\ closing'["worker"] = pool.runtime
      /\ closing'["main"] = closing["main"]
      /\ pool' \in [closed : BOOLEAN, runtime : Runtimes \cup {None},
                    config : {Render[c] : c \in Configs} \cup {None}]
      /\ pool'.closed /\ pool'.runtime = None
  BY <1>1, TakeOwner DEF Threads
<1>3. TypeOK'
  BY <1>1, <1>2 DEF TypeOK, MainPCs, WorkerPCs, Threads
<1>4. ShutdownOrder' /\ NoFalseAlarm'
  BY <1>1, <1>2 DEF ShutdownOrder, NoFalseAlarm
<1>5. ServiceInv'
  BY <1>1, <1>2 DEF ServiceInv
<1> QED
  BY <1>2, <1>3, <1>4, <1>5 DEF IndInv

LEMMA WorkerClosesInd == IndInv /\ WorkerCloses => IndInv'
<1> SUFFICES ASSUME IndInv, WorkerCloses PROVE IndInv'
  OBVIOUS
<1>1. PICK ok \in BOOLEAN : CloseTaken("worker", ok)
  BY DEF WorkerCloses
<1>2. /\ TypeOK /\ OneOwner /\ ShutdownOrder /\ ServiceInv /\ NoFalseAlarm
      /\ worker = "closing" /\ worker' = "input" /\ closing["worker"] # None
      /\ UNCHANGED <<request, got, borrowed, pc, pool, service, input, cancelled,
                     left, client, pending, signals, exit>>
  BY DEF IndInv, WorkerCloses, ShutdownOrder, requestVars, clientVars, signalVars
<1>3. /\ OneOwner'
      /\ runtimes' \in [Runtimes -> {"unopened", "open", "closed", "failed"}]
      /\ closing' \in [Threads -> Runtimes \cup {None}] /\ closing'["worker"] = None
      /\ closing'["main"] = closing["main"]
      /\ failures' \subseteq AllFaults /\ failures \subseteq failures'
      /\ IF ok THEN failures' = failures ELSE "close" \in failures'
  BY <1>1, <1>2, CloseOwner DEF Threads
<1>4. TypeOK'
  BY <1>1, <1>2, <1>3 DEF TypeOK, MainPCs, WorkerPCs, Threads
<1>5. ShutdownOrder' /\ NoFalseAlarm'
  BY <1>1, <1>2, <1>3 DEF ShutdownOrder, NoFalseAlarm
<1>6. ServiceInv'
  <2>1. pool.closed
    BY <1>2 DEF ShutdownOrder
  <2> QED
    BY <1>2, <2>1 DEF ServiceInv
<1> QED
  BY <1>3, <1>4, <1>5, <1>6 DEF IndInv

LEMMA WorkerClosesInputInd == IndInv /\ WorkerClosesInput => IndInv'
<1> SUFFICES ASSUME IndInv, WorkerClosesInput PROVE IndInv'
  OBVIOUS
<1>1. /\ TypeOK /\ OneOwner /\ ShutdownOrder /\ ServiceInv /\ NoFalseAlarm
      /\ worker = "input" /\ worker' = "stopped" /\ CloseInput
      /\ UNCHANGED <<request, got, borrowed, closing, pc, pool, runtimes, service,
                     cancelled, client, pending, signals, exit, failures>>
  BY DEF IndInv, WorkerClosesInput, requestVars, poolVars, signalVars, exitVars
<1>2. input' = "closed" /\ left' \in 0..MaxRequests
  BY <1>1, InputType
<1>3. TypeOK'
  BY <1>1, <1>2 DEF TypeOK, MainPCs, WorkerPCs
<1>4. OneOwner' /\ NoFalseAlarm'
  BY <1>1, OwnerFrame DEF NoFalseAlarm
<1>5. ShutdownOrder'
  BY <1>1, <1>2 DEF ShutdownOrder, OneOwner
<1>6. ServiceInv'
  BY <1>1 DEF ServiceInv
<1> QED
  BY <1>3, <1>4, <1>5, <1>6 DEF IndInv

-----------------------------------------------------------------------------
(* The invariant holds, and what it gives.                                 *)

LEMMA StutterInd ==
  ASSUME IndInv, UNCHANGED vars
  PROVE  IndInv'
<1> USE DEF vars, requestVars, poolVars, clientVars, signalVars, exitVars, IndInv
<1>1. TypeOK'
  BY DEF TypeOK
<1>2. OneOwner'
  BY OwnerFrame
<1>3. ShutdownOrder' /\ ServiceInv' /\ NoFalseAlarm'
  BY DEF ShutdownOrder, ServiceInv, NoFalseAlarm
<1> QED
  BY <1>1, <1>2, <1>3

LEMMA NextInd == IndInv /\ [Next]_vars => IndInv'
<1>1. IndInv /\ Main => IndInv'
  <2>1. IndInv /\ (Start \/ ReadRequest \/ ReadError \/ Get \/ Swap \/ Use) => IndInv'
    BY StartInd, ReadRequestInd, ReadErrorInd, GetInd, SwapInd, UseInd
  <2>2. IndInv /\ (Work \/ Reply \/ StopSignals \/ JoinWorker) => IndInv'
    BY WorkInd, ReplyInd, StopSignalsInd, JoinWorkerInd
  <2>3. IndInv /\ (MainTakes \/ MainCloses \/ MainClosesInput) => IndInv'
    BY MainTakesInd, MainClosesInd, MainClosesInputInd
  <2> QED
    BY <2>1, <2>2, <2>3 DEF Main
<1>2. IndInv /\ Worker => IndInv'
  BY WorkerWakesInd, WorkerTakesInd, WorkerClosesInd, WorkerClosesInputInd DEF Worker
<1> QED
  BY <1>1, <1>2, HangupInd, SignalInd, StutterInd DEF Next

\* The inductive invariant holds whatever the configurations and faults.
THEOREM Invariance == Spec => []IndInv
BY InitInd, NextInd, PTL DEF Spec

\* Types: every variable of the server has its type, in every behaviour.
THEOREM TypeCorrect == Spec => []TypeOK
<1>1. IndInv => TypeOK
  BY DEF IndInv
<1> QED
  BY Invariance, <1>1, PTL

\* Whatever the dispatch loop and the shutdown callback close at the same time,
\* every open runtime has one owner (renderRuntime.get and Close).
THEOREM OwnerSafety == Spec => []OneOwner
<1>1. IndInv => OneOwner
  BY DEF IndInv
<1> QED
  BY Invariance, <1>1, PTL

\* A server that returns has closed every runtime and restored its input
\* (the deferred calls of runMCP).
THEOREM ReleaseSafety == Spec => []Released
<1>1. IndInv => Released
  <2> SUFFICES ASSUME IndInv, pc = "done"
               PROVE  /\ \A r \in Runtimes : runtimes[r] # "open"
                      /\ worker = "stopped" /\ input = "closed"
    BY DEF Released
  <2>1. worker = "stopped" /\ input = "closed" /\ pool.runtime = None
    BY DEF IndInv, ShutdownOrder
  <2>2. closing["main"] = None /\ closing["worker"] = None
    BY <2>1 DEF IndInv, ShutdownOrder
  <2> QED
    BY <2>1, <2>2, ServerConstants DEF IndInv, OneOwner
<1> QED
  BY Invariance, <1>1, PTL

\* Closing the input to interrupt a read is never reported as a failed read.
THEOREM AlarmSafety == Spec => []NoFalseAlarm
<1>1. IndInv => NoFalseAlarm
  BY DEF IndInv
<1> QED
  BY Invariance, <1>1, PTL

\* Unless a Close failed, an operation of an open server runs on the current
\* runtime, and on the one of its own configuration.
THEOREM BorrowSafety == Spec => []BorrowsCurrent
<1>1. IndInv => BorrowsCurrent
  <2> SUFFICES ASSUME IndInv, pc = "work", ~pool.closed, "close" \notin failures
               PROVE  /\ borrowed = pool.runtime /\ runtimes[borrowed] = "open"
                      /\ pool.config = Render[request]
    BY DEF BorrowsCurrent
  <2>1. borrowed = pool.runtime /\ pool.runtime # None /\ pool.config = Render[request]
    BY DEF IndInv, ServiceInv
  <2>2. pool.runtime \in Runtimes
    BY <2>1 DEF IndInv, TypeOK
  <2> QED
    BY <2>1, <2>2 DEF IndInv, OneOwner
<1> QED
  BY Invariance, <1>1, PTL
=============================================================================
