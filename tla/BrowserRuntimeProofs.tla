----------------------- MODULE BrowserRuntimeProofs -----------------------
(***************************************************************************)
(* Proofs about BrowserRuntime, for every number of callers, closers and   *)
(* pending timers and every positive limit.                                *)
(*                                                                         *)
(* IndInv is inductive.  Its core is SlotInv: r.busy stands for exactly    *)
(* one goroutine that works outside the lock, and a native process belongs *)
(* to the runtime or to that goroutine.  The other parts need it: a lease  *)
(* is of the current process because nothing detaches a process that is    *)
(* lent (LeaseInv), a parked goroutine has someone to wake it because the  *)
(* reservation has a holder (NoLostWakeup), and after Close has returned   *)
(* the only reservations left are those of goroutines that start nothing   *)
(* (CloseInv).  There is one lemma per action, with one step per part.     *)
(***************************************************************************)
EXTENDS BrowserRuntime, FiniteSetTheorems, TLAPS

\* r.active counts a finite set of leases, so it is a natural number, and zero
\* only when there is no lease.
LEMMA LeaseCount ==
  ASSUME TypeOK, ActiveCountsLeases
  PROVE  /\ IsFiniteSet(Leases)
         /\ active \in Nat
         /\ active = 0 <=> Leases = {}
<1>1. IsFiniteSet(Leases)
  BY ThreadsDistinct, FS_Subset DEF Leases
<1> QED
  BY <1>1, FS_CardinalityType, FS_EmptySet DEF ActiveCountsLeases

\* Notify moves parked goroutines to the head of their loop and nothing else.
LEMMA NotifyType ==
  ASSUME pc \in [Threads -> PcValues]
  PROVE  Notify(pc) \in [Threads -> PcValues]
BY DEF Notify, PcValues, Reserving, Waiting

\* Initially nothing runs and nothing is reserved.
LEMMA InitInd ==
  ASSUME Init
  PROVE  IndInv
<1>1. Leases = {}
  BY DEF Init, Leases, Threads
<1>2. ActiveCountsLeases
  BY <1>1, FS_EmptySet DEF Init, ActiveCountsLeases
<1>3. TypeOK
  <2>1. pc \in [Threads -> PcValues] /\ failed \in [Threads -> BOOLEAN]
    BY DEF Init, PcValues
  <2>2. cancelled \in [Callers -> BOOLEAN]
    BY DEF Init
  <2>3. /\ proc \in [Threads -> Procs \cup {NoProc}]
        /\ want \in [Callers -> Paths \cup {NoPath}]
    BY DEF Init
  <2>4. /\ busy \in BOOLEAN /\ retiring \in BOOLEAN
        /\ closed \in BOOLEAN /\ err \in BOOLEAN
    BY DEF Init
  <2>5. active \in Int /\ uses \in Int
    BY DEF Init
  <2>6. /\ process \in Procs \cup {NoProc} /\ path \in Paths \cup {NoPath}
        /\ idle \in Procs \cup {NoProc}
        /\ native \subseteq Procs /\ tainted \subseteq Procs
    BY DEF Init
  <2> QED
    BY <2>1, <2>2, <2>3, <2>4, <2>5, <2>6 DEF TypeOK
<1>4. SlotInv /\ CloseInv /\ HealthInv /\ NoLostWakeup /\ IdleBrowserHasTimer
  BY SentinelsDistinct
     DEF Init, SlotInv, CloseInv, HealthInv, NoLostWakeup,
         IdleBrowserHasTimer, Threads, Reserving
<1>5. LeaseInv
  BY <1>1, <1>2, LimitsPositive
     DEF Init, LeaseInv, LimitsRespected, BorrowersKeepTheirBrowser,
         RetiringIsLent
<1> QED
  BY <1>3, <1>4, <1>5 DEF IndInv

\* A new Acquire touches only its own goroutine.
LEMMA AcquireCallInd ==
  ASSUME IndInv, NEW c \in Callers, AcquireCall(c)
  PROVE  IndInv'
<1> USE DEF IndInv, TypeOK, Threads, AcquireCall, runtimeVars
<1>1. TypeOK'
  BY DEF PcValues, Reserving, Waiting
<1>2. Leases' = Leases /\ active' = active
  BY DEF Leases
<1>3. ActiveCountsLeases'
  BY <1>2 DEF LeaseInv, LimitsRespected, ActiveCountsLeases
<1>4. SlotInv' /\ CloseInv' /\ HealthInv' /\ NoLostWakeup'
        /\ IdleBrowserHasTimer'
  BY LeaseCount, LimitsPositive, SentinelsDistinct, ThreadsDistinct
     DEF SlotInv, LeaseInv, CloseInv, HealthInv, NoLostWakeup,
         IdleBrowserHasTimer, LimitsRespected, RetiringIsLent,
         BorrowersKeepTheirBrowser, Leases, Reserving
<1>5. LeaseInv'
  BY <1>1, <1>2, <1>3, LeaseCount, LimitsPositive, SentinelsDistinct
     DEF SlotInv, LeaseInv, LimitsRespected, RetiringIsLent,
         BorrowersKeepTheirBrowser, Leases, Reserving
<1> QED
  BY <1>1, <1>4, <1>5

\* Acquire returns an error before it changes anything.
LEMMA AcquireRefuseInd ==
  ASSUME IndInv, NEW c \in Callers, AcquireRefuse(c)
  PROVE  IndInv'
<1> USE DEF IndInv, TypeOK, Threads, AcquireRefuse, Admitted, runtimeVars
<1>1. TypeOK'
  BY DEF PcValues, Reserving, Waiting
<1>2. Leases' = Leases /\ active' = active
  BY DEF Leases
<1>3. ActiveCountsLeases'
  BY <1>2 DEF LeaseInv, LimitsRespected, ActiveCountsLeases
<1>4. SlotInv' /\ CloseInv' /\ HealthInv' /\ NoLostWakeup'
        /\ IdleBrowserHasTimer'
  BY LeaseCount, LimitsPositive, SentinelsDistinct
     DEF SlotInv, LeaseInv, CloseInv, HealthInv, NoLostWakeup,
         IdleBrowserHasTimer, LimitsRespected, RetiringIsLent,
         BorrowersKeepTheirBrowser, Leases, Reserving
<1>5. LeaseInv'
  BY <1>1, <1>2, <1>3, LeaseCount, LimitsPositive, SentinelsDistinct
     DEF SlotInv, LeaseInv, LimitsRespected, RetiringIsLent,
         BorrowersKeepTheirBrowser, Leases, Reserving
<1> QED
  BY <1>1, <1>4, <1>5

\* Acquire detaches an unusable process that nobody borrows.
LEMMA AcquireRetireInd ==
  ASSUME IndInv, NEW c \in Callers, AcquireRetire(c)
  PROVE  IndInv'
<1> USE DEF IndInv, TypeOK, Threads, AcquireRetire, Admitted, MustRetire,
        Detach
<1>1. TypeOK'
  BY DEF PcValues, Reserving, Waiting
<1>2. Leases' = Leases /\ active' = active
  BY DEF Leases
<1>3. ActiveCountsLeases'
  BY <1>2 DEF LeaseInv, LimitsRespected, ActiveCountsLeases
<1>4. SlotInv' /\ CloseInv' /\ HealthInv' /\ NoLostWakeup'
        /\ IdleBrowserHasTimer'
  BY LeaseCount, LimitsPositive, SentinelsDistinct
     DEF SlotInv, LeaseInv, CloseInv, HealthInv, NoLostWakeup,
         IdleBrowserHasTimer, LimitsRespected, RetiringIsLent,
         BorrowersKeepTheirBrowser, Leases, Reserving
<1>5. LeaseInv'
  BY <1>1, <1>2, <1>3, LeaseCount, LimitsPositive, SentinelsDistinct
     DEF SlotInv, LeaseInv, LimitsRespected, RetiringIsLent,
         BorrowersKeepTheirBrowser, Leases, Reserving
<1> QED
  BY <1>1, <1>4, <1>5

\* Acquire reserves the empty slot for a start.
LEMMA AcquireLaunchInd ==
  ASSUME IndInv, NEW c \in Callers, AcquireLaunch(c)
  PROVE  IndInv'
<1> USE DEF IndInv, TypeOK, Threads, AcquireLaunch, Admitted, CanLend,
        MustRetire
<1>1. TypeOK'
  BY DEF PcValues, Reserving, Waiting
<1>2. Leases' = Leases /\ active' = active
  BY DEF Leases
<1>3. ActiveCountsLeases'
  BY <1>2 DEF LeaseInv, LimitsRespected, ActiveCountsLeases
<1>4. SlotInv' /\ CloseInv' /\ HealthInv' /\ NoLostWakeup'
        /\ IdleBrowserHasTimer'
  BY LeaseCount, LimitsPositive, SentinelsDistinct
     DEF SlotInv, LeaseInv, CloseInv, HealthInv, NoLostWakeup,
         IdleBrowserHasTimer, LimitsRespected, RetiringIsLent,
         BorrowersKeepTheirBrowser, Leases, Reserving
<1>5. LeaseInv'
  BY <1>1, <1>2, <1>3, LeaseCount, LimitsPositive, SentinelsDistinct
     DEF SlotInv, LeaseInv, LimitsRespected, RetiringIsLent,
         BorrowersKeepTheirBrowser, Leases, Reserving
<1> QED
  BY <1>1, <1>4, <1>5

\* Acquire lends the current process.
LEMMA AcquireReuseInd ==
  ASSUME IndInv, NEW c \in Callers, AcquireReuse(c)
  PROVE  IndInv'
<1> USE DEF IndInv, TypeOK, Threads, AcquireReuse, Admitted, CanLend,
        MustRetire
<1>1. TypeOK'
  BY DEF PcValues, Reserving, Waiting
<1>2. Leases' = Leases \cup {c} /\ c \notin Leases
  BY DEF Leases
<1>3. ActiveCountsLeases'
  BY <1>2, LeaseCount, FS_AddElement
     DEF LeaseInv, LimitsRespected, ActiveCountsLeases
<1>4. SlotInv' /\ CloseInv' /\ HealthInv' /\ NoLostWakeup'
        /\ IdleBrowserHasTimer'
  BY LeaseCount, LimitsPositive, SentinelsDistinct
     DEF SlotInv, LeaseInv, CloseInv, HealthInv, NoLostWakeup,
         IdleBrowserHasTimer, LimitsRespected, RetiringIsLent,
         BorrowersKeepTheirBrowser, Leases, Reserving
<1>5. LeaseInv'
  BY <1>1, <1>2, <1>3, LeaseCount, LimitsPositive, SentinelsDistinct
     DEF SlotInv, LeaseInv, LimitsRespected, RetiringIsLent,
         BorrowersKeepTheirBrowser, Leases, Reserving
<1> QED
  BY <1>1, <1>4, <1>5

\* Acquire parks: the slot is reserved or somebody holds a lease.
LEMMA AcquireWaitInd ==
  ASSUME IndInv, NEW c \in Callers, AcquireWait(c)
  PROVE  IndInv'
<1> USE DEF IndInv, TypeOK, Threads, AcquireWait, Admitted, CanLend,
        MustRetire
<1>1. TypeOK'
  BY DEF PcValues, Reserving, Waiting
<1>2. Leases' = Leases /\ active' = active
  BY DEF Leases
<1>3. ActiveCountsLeases'
  BY <1>2 DEF LeaseInv, LimitsRespected, ActiveCountsLeases
<1>4. SlotInv' /\ CloseInv' /\ HealthInv' /\ NoLostWakeup'
        /\ IdleBrowserHasTimer'
  BY LeaseCount, LimitsPositive, SentinelsDistinct
     DEF SlotInv, LeaseInv, CloseInv, HealthInv, NoLostWakeup,
         IdleBrowserHasTimer, LimitsRespected, RetiringIsLent,
         BorrowersKeepTheirBrowser, Leases, Reserving
<1>5. LeaseInv'
  BY <1>1, <1>2, <1>3, LeaseCount, LimitsPositive, SentinelsDistinct
     DEF SlotInv, LeaseInv, LimitsRespected, RetiringIsLent,
         BorrowersKeepTheirBrowser, Leases, Reserving
<1> QED
  BY <1>1, <1>4, <1>5

\* A parked caller leaves because its ctx is done.
LEMMA WaitCancelledInd ==
  ASSUME IndInv, NEW c \in Callers, WaitCancelled(c)
  PROVE  IndInv'
<1> USE DEF IndInv, TypeOK, Threads, WaitCancelled, runtimeVars
<1>1. TypeOK'
  BY DEF PcValues, Reserving, Waiting
<1>2. Leases' = Leases /\ active' = active
  BY DEF Leases
<1>3. ActiveCountsLeases'
  BY <1>2 DEF LeaseInv, LimitsRespected, ActiveCountsLeases
<1>4. SlotInv' /\ CloseInv' /\ HealthInv' /\ NoLostWakeup'
        /\ IdleBrowserHasTimer'
  BY LeaseCount, LimitsPositive, SentinelsDistinct
     DEF SlotInv, LeaseInv, CloseInv, HealthInv, NoLostWakeup,
         IdleBrowserHasTimer, LimitsRespected, RetiringIsLent,
         BorrowersKeepTheirBrowser, Leases, Reserving
<1>5. LeaseInv'
  BY <1>1, <1>2, <1>3, LeaseCount, LimitsPositive, SentinelsDistinct
     DEF SlotInv, LeaseInv, LimitsRespected, RetiringIsLent,
         BorrowersKeepTheirBrowser, Leases, Reserving
<1> QED
  BY <1>1, <1>4, <1>5

\* A start that created no process.
LEMMA LaunchFailInd ==
  ASSUME IndInv, NEW c \in Callers, LaunchFail(c)
  PROVE  IndInv'
<1> USE DEF IndInv, TypeOK, Threads, LaunchFail, runtimeVars
<1>1. TypeOK'
  BY DEF PcValues, Reserving, Waiting
<1>2. Leases' = Leases /\ active' = active
  BY DEF Leases
<1>3. ActiveCountsLeases'
  BY <1>2 DEF LeaseInv, LimitsRespected, ActiveCountsLeases
<1>4. SlotInv' /\ CloseInv' /\ HealthInv' /\ NoLostWakeup'
        /\ IdleBrowserHasTimer'
  BY LeaseCount, LimitsPositive, SentinelsDistinct
     DEF SlotInv, LeaseInv, CloseInv, HealthInv, NoLostWakeup,
         IdleBrowserHasTimer, LimitsRespected, RetiringIsLent,
         BorrowersKeepTheirBrowser, Leases, Reserving
<1>5. LeaseInv'
  BY <1>1, <1>2, <1>3, LeaseCount, LimitsPositive, SentinelsDistinct
     DEF SlotInv, LeaseInv, LimitsRespected, RetiringIsLent,
         BorrowersKeepTheirBrowser, Leases, Reserving
<1> QED
  BY <1>1, <1>4, <1>5

\* A start creates the only native process.
LEMMA LaunchSpawnInd ==
  ASSUME IndInv, NEW c \in Callers, LaunchSpawn(c)
  PROVE  IndInv'
<1> USE DEF IndInv, TypeOK, Threads, LaunchSpawn, Fresh, runtimeVars
<1>1. TypeOK'
  BY DEF PcValues, Reserving, Waiting
<1>2. Leases' = Leases /\ active' = active
  BY DEF Leases
<1>3. ActiveCountsLeases'
  BY <1>2 DEF LeaseInv, LimitsRespected, ActiveCountsLeases
<1>4. SlotInv' /\ CloseInv' /\ HealthInv' /\ NoLostWakeup'
        /\ IdleBrowserHasTimer'
  BY LeaseCount, LimitsPositive, SentinelsDistinct
     DEF SlotInv, LeaseInv, CloseInv, HealthInv, NoLostWakeup,
         IdleBrowserHasTimer, LimitsRespected, RetiringIsLent,
         BorrowersKeepTheirBrowser, Leases, Reserving
<1>5. LeaseInv'
  BY <1>1, <1>2, <1>3, LeaseCount, LimitsPositive, SentinelsDistinct
     DEF SlotInv, LeaseInv, LimitsRespected, RetiringIsLent,
         BorrowersKeepTheirBrowser, Leases, Reserving
<1> QED
  BY <1>1, <1>4, <1>5

\* The endpoint of the started process is known.
LEMMA LaunchReadyInd ==
  ASSUME IndInv, NEW c \in Callers, LaunchReady(c)
  PROVE  IndInv'
<1> USE DEF IndInv, TypeOK, Threads, LaunchReady, runtimeVars
<1>1. TypeOK'
  BY DEF PcValues, Reserving, Waiting
<1>2. Leases' = Leases /\ active' = active
  BY DEF Leases
<1>3. ActiveCountsLeases'
  BY <1>2 DEF LeaseInv, LimitsRespected, ActiveCountsLeases
<1>4. SlotInv' /\ CloseInv' /\ HealthInv' /\ NoLostWakeup'
        /\ IdleBrowserHasTimer'
  BY LeaseCount, LimitsPositive, SentinelsDistinct
     DEF SlotInv, LeaseInv, CloseInv, HealthInv, NoLostWakeup,
         IdleBrowserHasTimer, LimitsRespected, RetiringIsLent,
         BorrowersKeepTheirBrowser, Leases, Reserving
<1>5. LeaseInv'
  BY <1>1, <1>2, <1>3, LeaseCount, LimitsPositive, SentinelsDistinct
     DEF SlotInv, LeaseInv, LimitsRespected, RetiringIsLent,
         BorrowersKeepTheirBrowser, Leases, Reserving
<1> QED
  BY <1>1, <1>4, <1>5

\* A cancelled or dead start leaves no process.
LEMMA LaunchAbandonInd ==
  ASSUME IndInv, NEW c \in Callers, LaunchAbandon(c)
  PROVE  IndInv'
<1> USE DEF IndInv, TypeOK, Threads, LaunchAbandon, CtxDone, runtimeVars
<1>1. TypeOK'
  BY DEF PcValues, Reserving, Waiting
<1>2. Leases' = Leases /\ active' = active
  BY DEF Leases
<1>3. ActiveCountsLeases'
  BY <1>2 DEF LeaseInv, LimitsRespected, ActiveCountsLeases
<1>4. SlotInv' /\ CloseInv' /\ HealthInv' /\ NoLostWakeup'
        /\ IdleBrowserHasTimer'
  BY LeaseCount, LimitsPositive, SentinelsDistinct
     DEF SlotInv, LeaseInv, CloseInv, HealthInv, NoLostWakeup,
         IdleBrowserHasTimer, LimitsRespected, RetiringIsLent,
         BorrowersKeepTheirBrowser, Leases, Reserving
<1>5. LeaseInv'
  BY <1>1, <1>2, <1>3, LeaseCount, LimitsPositive, SentinelsDistinct
     DEF SlotInv, LeaseInv, LimitsRespected, RetiringIsLent,
         BorrowersKeepTheirBrowser, Leases, Reserving
<1> QED
  BY <1>1, <1>4, <1>5

\* The started process is installed and lent; nobody else borrows.
LEMMA LaunchInstallInd ==
  ASSUME IndInv, NEW c \in Callers, LaunchInstall(c)
  PROVE  IndInv'
<1> USE DEF IndInv, TypeOK, Threads, LaunchInstall
<1>1. TypeOK'
  <2>1. pc' \in [Threads -> PcValues]
    BY NotifyType DEF PcValues, Reserving, Waiting
  <2>2. proc' \in [Threads -> Procs \cup {NoProc}]
    OBVIOUS
  <2>3. busy' \in BOOLEAN /\ retiring' \in BOOLEAN
        /\ closed' \in BOOLEAN /\ err' \in BOOLEAN
    OBVIOUS
  <2>4. process' \in Procs \cup {NoProc} /\ path' \in Paths \cup {NoPath}
    OBVIOUS
  <2>5. active' \in Int /\ uses' \in Int
    OBVIOUS
  <2> QED
    BY <2>1, <2>2, <2>3, <2>4, <2>5
<1>2. Leases' = Leases \cup {c} /\ c \notin Leases
  BY DEF Leases, Notify
<1>3. ActiveCountsLeases'
  BY <1>2, LeaseCount, FS_AddElement
     DEF LeaseInv, LimitsRespected, ActiveCountsLeases
<1>4. SlotInv'
  <2>1. \A t \in Threads : pc'[t] \notin Reserving
    BY DEF SlotInv, Reserving, Notify
  <2>2. \A p \in native : p = proc[c]
    BY SentinelsDistinct DEF SlotInv, Reserving
  <2> QED
    BY <2>1, <2>2 DEF SlotInv, Reserving
<1>5. LeaseInv'
  BY <1>1, <1>2, <1>3, LeaseCount, LimitsPositive, SentinelsDistinct
     DEF SlotInv, LeaseInv, LimitsRespected, RetiringIsLent,
         BorrowersKeepTheirBrowser, Leases, Reserving, Notify
<1>6. CloseInv'
  BY DEF SlotInv, CloseInv, Reserving, Notify
<1>7. HealthInv'
  BY SentinelsDistinct
     DEF SlotInv, LeaseInv, HealthInv, RetiringIsLent,
         BorrowersKeepTheirBrowser, Leases, Reserving, Notify
<1>8. NoLostWakeup'
  BY LeaseCount, LimitsPositive
     DEF SlotInv, LeaseInv, LimitsRespected, NoLostWakeup, RetiringIsLent,
         CloseInv, Reserving, Notify
<1>9. IdleBrowserHasTimer'
  BY LeaseCount
     DEF SlotInv, LeaseInv, LimitsRespected, IdleBrowserHasTimer,
         BorrowersKeepTheirBrowser, Leases, Reserving, Notify
<1> QED
  BY <1>1, <1>4, <1>5, <1>6, <1>7, <1>8, <1>9

\* A start that outlived Close is closed again.
LEMMA LaunchDiscardInd ==
  ASSUME IndInv, NEW c \in Callers, LaunchDiscard(c)
  PROVE  IndInv'
<1> USE DEF IndInv, TypeOK, Threads, LaunchDiscard, runtimeVars
<1>1. TypeOK'
  BY DEF PcValues, Reserving, Waiting
<1>2. Leases' = Leases /\ active' = active
  BY DEF Leases
<1>3. ActiveCountsLeases'
  BY <1>2 DEF LeaseInv, LimitsRespected, ActiveCountsLeases
<1>4. SlotInv' /\ CloseInv' /\ HealthInv' /\ NoLostWakeup'
        /\ IdleBrowserHasTimer'
  BY LeaseCount, LimitsPositive, SentinelsDistinct
     DEF SlotInv, LeaseInv, CloseInv, HealthInv, NoLostWakeup,
         IdleBrowserHasTimer, LimitsRespected, RetiringIsLent,
         BorrowersKeepTheirBrowser, Leases, Reserving
<1>5. LeaseInv'
  BY <1>1, <1>2, <1>3, LeaseCount, LimitsPositive, SentinelsDistinct
     DEF SlotInv, LeaseInv, LimitsRespected, RetiringIsLent,
         BorrowersKeepTheirBrowser, Leases, Reserving
<1> QED
  BY <1>1, <1>4, <1>5

\* A failed start gives the reservation back.
LEMMA LaunchReturnErrorInd ==
  ASSUME IndInv, NEW c \in Callers, LaunchReturnError(c)
  PROVE  IndInv'
<1> USE DEF IndInv, TypeOK, Threads, LaunchReturnError, Unreserve
<1>1. TypeOK'
  BY NotifyType DEF PcValues, Reserving, Waiting
<1>2. Leases' = Leases /\ active' = active
  BY DEF Leases, Notify
<1>3. ActiveCountsLeases'
  BY <1>2 DEF LeaseInv, LimitsRespected, ActiveCountsLeases
<1>4. SlotInv'
  BY SentinelsDistinct DEF SlotInv, Reserving, Notify
<1>6. CloseInv'
  BY DEF SlotInv, CloseInv, Reserving, Notify
<1>7. HealthInv'
  BY SentinelsDistinct
     DEF SlotInv, LeaseInv, HealthInv, RetiringIsLent,
         BorrowersKeepTheirBrowser, Leases, Reserving, Notify
<1>8. NoLostWakeup'
  BY LeaseCount, LimitsPositive
     DEF SlotInv, LeaseInv, LimitsRespected, NoLostWakeup, RetiringIsLent,
         CloseInv, Reserving, Notify
<1>9. IdleBrowserHasTimer'
  BY LeaseCount
     DEF SlotInv, LeaseInv, LimitsRespected, IdleBrowserHasTimer,
         BorrowersKeepTheirBrowser, Leases, Reserving, Notify
<1>5. LeaseInv'
  BY <1>1, <1>2, <1>3, LeaseCount, LimitsPositive, SentinelsDistinct
     DEF SlotInv, LeaseInv, LimitsRespected, RetiringIsLent,
         BorrowersKeepTheirBrowser, Leases, Reserving, Notify
<1> QED
  BY <1>1, <1>4, <1>5, <1>6, <1>7, <1>8, <1>9

\* The detached process is gone.
LEMMA ProcessCloseInd ==
  ASSUME IndInv, NEW t \in Threads, ProcessClose(t)
  PROVE  IndInv'
<1> USE DEF IndInv, TypeOK, Threads, ProcessClose, runtimeVars
<1>1. TypeOK'
  BY DEF PcValues, Reserving, Waiting
<1>2. Leases' = Leases /\ active' = active
  BY DEF Leases
<1>3. ActiveCountsLeases'
  BY <1>2 DEF LeaseInv, LimitsRespected, ActiveCountsLeases
<1>4. SlotInv' /\ CloseInv' /\ HealthInv' /\ NoLostWakeup'
        /\ IdleBrowserHasTimer'
  BY LeaseCount, LimitsPositive, SentinelsDistinct
     DEF SlotInv, LeaseInv, CloseInv, HealthInv, NoLostWakeup,
         IdleBrowserHasTimer, LimitsRespected, RetiringIsLent,
         BorrowersKeepTheirBrowser, Leases, Reserving
<1>5. LeaseInv'
  BY <1>1, <1>2, <1>3, LeaseCount, LimitsPositive, SentinelsDistinct
     DEF SlotInv, LeaseInv, LimitsRespected, RetiringIsLent,
         BorrowersKeepTheirBrowser, Leases, Reserving
<1> QED
  BY <1>1, <1>4, <1>5

\* A retirement gives the reservation back.
LEMMA FinishRetirementInd ==
  ASSUME IndInv, NEW t \in Threads, FinishRetirement(t)
  PROVE  IndInv'
<1> USE DEF IndInv, TypeOK, Threads, FinishRetirement, Unreserve,
        AfterRetirement
<1>1. TypeOK'
  BY NotifyType DEF PcValues, Reserving, Waiting
<1>2. Leases' = Leases /\ active' = active
  BY DEF Leases, Notify
<1>3. ActiveCountsLeases'
  BY <1>2 DEF LeaseInv, LimitsRespected, ActiveCountsLeases
<1>4. SlotInv'
  BY SentinelsDistinct DEF SlotInv, Reserving, Notify
<1>6. CloseInv'
  BY DEF SlotInv, CloseInv, Reserving, Notify
<1>7. HealthInv'
  BY SentinelsDistinct
     DEF SlotInv, LeaseInv, HealthInv, RetiringIsLent,
         BorrowersKeepTheirBrowser, Leases, Reserving, Notify
<1>8. NoLostWakeup'
  BY LeaseCount, LimitsPositive
     DEF SlotInv, LeaseInv, LimitsRespected, NoLostWakeup, RetiringIsLent,
         CloseInv, Reserving, Notify
<1>9. IdleBrowserHasTimer'
  BY LeaseCount
     DEF SlotInv, LeaseInv, LimitsRespected, IdleBrowserHasTimer,
         BorrowersKeepTheirBrowser, Leases, Reserving, Notify
<1>5. LeaseInv'
  BY <1>1, <1>2, <1>3, LeaseCount, LimitsPositive, SentinelsDistinct
     DEF SlotInv, LeaseInv, LimitsRespected, RetiringIsLent,
         BorrowersKeepTheirBrowser, Leases, Reserving, Notify
<1> QED
  BY <1>1, <1>4, <1>5, <1>6, <1>7, <1>8, <1>9

\* The release of a lease whose process Close has taken.
LEMMA ReleaseOrphanInd ==
  ASSUME IndInv, NEW c \in Callers, NEW healthy \in BOOLEAN,
         ReleaseOrphan(c, healthy)
  PROVE  IndInv'
<1> USE DEF IndInv, TypeOK, Threads, ReleaseOrphan
<1>1. TypeOK'
  <2>1. pc' \in [Threads -> PcValues]
    BY NotifyType DEF PcValues, Reserving, Waiting
  <2>2. proc' \in [Threads -> Procs \cup {NoProc}]
    OBVIOUS
  <2> QED
    BY <2>1, <2>2 DEF LeaseInv, Leases
<1>2. Leases' = Leases \ {c} /\ c \in Leases
  BY DEF Leases, Notify
<1>3. ActiveCountsLeases'
  BY <1>2, LeaseCount, FS_RemoveElement
     DEF LeaseInv, LimitsRespected, ActiveCountsLeases
<1>4. SlotInv' /\ CloseInv' /\ HealthInv' /\ NoLostWakeup'
        /\ IdleBrowserHasTimer'
  BY LeaseCount, LimitsPositive, SentinelsDistinct
     DEF SlotInv, LeaseInv, CloseInv, HealthInv, NoLostWakeup,
         IdleBrowserHasTimer, LimitsRespected, RetiringIsLent,
         BorrowersKeepTheirBrowser, Leases, Reserving, Notify
<1>5. LeaseInv'
  BY <1>1, <1>2, <1>3, LeaseCount, LimitsPositive, SentinelsDistinct
     DEF SlotInv, LeaseInv, LimitsRespected, RetiringIsLent,
         BorrowersKeepTheirBrowser, Leases, Reserving, Notify
<1> QED
  BY <1>1, <1>4, <1>5

\* The last release of a retiring process detaches it.
LEMMA ReleaseRetireInd ==
  ASSUME IndInv, NEW c \in Callers, NEW healthy \in BOOLEAN,
         ReleaseRetire(c, healthy)
  PROVE  IndInv'
<1> USE DEF IndInv, TypeOK, Threads, ReleaseRetire, Retires, TakesDown, Detach
<1>1. TypeOK'
  <2>1. pc' \in [Threads -> PcValues]
    BY DEF PcValues, Reserving, Waiting
  <2>2. proc' \in [Threads -> Procs \cup {NoProc}]
    OBVIOUS
  <2>3. busy' \in BOOLEAN /\ retiring' \in BOOLEAN
    OBVIOUS
  <2>4. tainted' \subseteq Procs
    BY DEF LeaseInv, Leases
  <2>5. active' \in Int
    OBVIOUS
  <2> QED
    BY <2>1, <2>2, <2>3, <2>4, <2>5
<1>2. Leases' = Leases \ {c} /\ c \in Leases
  BY DEF Leases
<1>3. ActiveCountsLeases'
  BY <1>2, LeaseCount, FS_RemoveElement
     DEF LeaseInv, LimitsRespected, ActiveCountsLeases
<1>4. SlotInv' /\ CloseInv' /\ HealthInv' /\ NoLostWakeup'
        /\ IdleBrowserHasTimer'
  BY LeaseCount, LimitsPositive, SentinelsDistinct
     DEF SlotInv, LeaseInv, CloseInv, HealthInv, NoLostWakeup,
         IdleBrowserHasTimer, LimitsRespected, RetiringIsLent,
         BorrowersKeepTheirBrowser, Leases, Reserving
<1>5. LeaseInv'
  <2>1. active' = 0 /\ process' = NoProc /\ ~retiring'
    OBVIOUS
  <2>2. Leases' = {}
    <3>1. IsFiniteSet(Leases')
      BY <1>2, LeaseCount, FS_RemoveElement DEF LeaseInv, LimitsRespected
    <3>2. Cardinality(Leases') = 0
      BY <1>3, <2>1 DEF ActiveCountsLeases
    <3> QED
      BY <3>1, <3>2, FS_EmptySet
  <2> QED
    BY <1>3, <2>1, <2>2, LimitsPositive
       DEF LeaseInv, LimitsRespected, RetiringIsLent,
           BorrowersKeepTheirBrowser
<1> QED
  BY <1>1, <1>4, <1>5

\* Any other release; the last one arms the idle timer.
LEMMA ReleaseKeepInd ==
  ASSUME IndInv, NEW c \in Callers, NEW healthy \in BOOLEAN,
         ReleaseKeep(c, healthy)
  PROVE  IndInv'
<1> USE DEF IndInv, TypeOK, Threads, ReleaseKeep, Retires, TakesDown, IdleAfterRelease
<1>1. TypeOK'
  <2>1. pc' \in [Threads -> PcValues]
    BY NotifyType DEF PcValues, Reserving, Waiting
  <2>2. proc' \in [Threads -> Procs \cup {NoProc}]
    OBVIOUS
  <2> QED
    BY <2>1, <2>2 DEF LeaseInv, Leases
<1>2. Leases' = Leases \ {c} /\ c \in Leases
  BY DEF Leases, Notify
<1>3. ActiveCountsLeases'
  BY <1>2, LeaseCount, FS_RemoveElement
     DEF LeaseInv, LimitsRespected, ActiveCountsLeases
<1>4. SlotInv'
  BY SentinelsDistinct
     DEF SlotInv, LeaseInv, CloseInv, BorrowersKeepTheirBrowser, Leases,
         Reserving, Notify
<1>5. LeaseInv'
  BY <1>1, <1>2, <1>3, LeaseCount, LimitsPositive, SentinelsDistinct
     DEF SlotInv, LeaseInv, LimitsRespected, RetiringIsLent,
         BorrowersKeepTheirBrowser, Leases, Reserving, Notify
<1>6. CloseInv'
  BY DEF SlotInv, CloseInv, Reserving, Notify
<1>7. HealthInv'
  BY SentinelsDistinct
     DEF SlotInv, LeaseInv, HealthInv, RetiringIsLent,
         BorrowersKeepTheirBrowser, Leases, Reserving, Notify
<1>8. NoLostWakeup'
  BY LeaseCount, LimitsPositive
     DEF SlotInv, LeaseInv, LimitsRespected, NoLostWakeup, RetiringIsLent,
         CloseInv, Reserving, Notify
<1>9. IdleBrowserHasTimer'
  BY LeaseCount
     DEF SlotInv, LeaseInv, LimitsRespected, IdleBrowserHasTimer,
         BorrowersKeepTheirBrowser, Leases, Reserving, Notify
<1> QED
  BY <1>1, <1>4, <1>5, <1>6, <1>7, <1>8, <1>9

\* A new CaptureDOM touches only its own goroutine.
LEMMA CaptureCallInd ==
  ASSUME IndInv, NEW c \in Callers, CaptureCall(c)
  PROVE  IndInv'
<1> USE DEF IndInv, TypeOK, Threads, CaptureCall, runtimeVars
<1>1. TypeOK'
  BY DEF PcValues, Reserving, Waiting
<1>2. Leases' = Leases /\ active' = active
  BY DEF Leases
<1>3. ActiveCountsLeases'
  BY <1>2 DEF LeaseInv, LimitsRespected, ActiveCountsLeases
<1>4. SlotInv' /\ CloseInv' /\ HealthInv' /\ NoLostWakeup'
        /\ IdleBrowserHasTimer'
  BY LeaseCount, LimitsPositive, SentinelsDistinct, ThreadsDistinct
     DEF SlotInv, LeaseInv, CloseInv, HealthInv, NoLostWakeup,
         IdleBrowserHasTimer, LimitsRespected, RetiringIsLent,
         BorrowersKeepTheirBrowser, Leases, Reserving
<1>5. LeaseInv'
  BY <1>1, <1>2, <1>3, LeaseCount, LimitsPositive, SentinelsDistinct
     DEF SlotInv, LeaseInv, LimitsRespected, RetiringIsLent,
         BorrowersKeepTheirBrowser, Leases, Reserving
<1> QED
  BY <1>1, <1>4, <1>5

\* CaptureDOM returns an error before it changes anything.
LEMMA CaptureRefuseInd ==
  ASSUME IndInv, NEW c \in Callers, CaptureRefuse(c)
  PROVE  IndInv'
<1> USE DEF IndInv, TypeOK, Threads, CaptureRefuse, runtimeVars
<1>1. TypeOK'
  BY DEF PcValues, Reserving, Waiting
<1>2. Leases' = Leases /\ active' = active
  BY DEF Leases
<1>3. ActiveCountsLeases'
  BY <1>2 DEF LeaseInv, LimitsRespected, ActiveCountsLeases
<1>4. SlotInv' /\ CloseInv' /\ HealthInv' /\ NoLostWakeup'
        /\ IdleBrowserHasTimer'
  BY LeaseCount, LimitsPositive, SentinelsDistinct
     DEF SlotInv, LeaseInv, CloseInv, HealthInv, NoLostWakeup,
         IdleBrowserHasTimer, LimitsRespected, RetiringIsLent,
         BorrowersKeepTheirBrowser, Leases, Reserving
<1>5. LeaseInv'
  BY <1>1, <1>2, <1>3, LeaseCount, LimitsPositive, SentinelsDistinct
     DEF SlotInv, LeaseInv, LimitsRespected, RetiringIsLent,
         BorrowersKeepTheirBrowser, Leases, Reserving
<1> QED
  BY <1>1, <1>4, <1>5

\* CaptureDOM detaches the idle process.
LEMMA CaptureReserveInd ==
  ASSUME IndInv, NEW c \in Callers, CaptureReserve(c)
  PROVE  IndInv'
<1> USE DEF IndInv, TypeOK, Threads, CaptureReserve, Detach
<1>1. TypeOK'
  BY DEF PcValues, Reserving, Waiting
<1>2. Leases' = Leases /\ active' = active
  BY DEF Leases
<1>3. ActiveCountsLeases'
  BY <1>2 DEF LeaseInv, LimitsRespected, ActiveCountsLeases
<1>4. SlotInv' /\ CloseInv' /\ HealthInv' /\ NoLostWakeup'
        /\ IdleBrowserHasTimer'
  BY LeaseCount, LimitsPositive, SentinelsDistinct
     DEF SlotInv, LeaseInv, CloseInv, HealthInv, NoLostWakeup,
         IdleBrowserHasTimer, LimitsRespected, RetiringIsLent,
         BorrowersKeepTheirBrowser, Leases, Reserving
<1>5. LeaseInv'
  BY <1>1, <1>2, <1>3, LeaseCount, LimitsPositive, SentinelsDistinct
     DEF SlotInv, LeaseInv, LimitsRespected, RetiringIsLent,
         BorrowersKeepTheirBrowser, Leases, Reserving
<1> QED
  BY <1>1, <1>4, <1>5

\* CaptureDOM parks: the slot is reserved or somebody holds a lease.
LEMMA CaptureWaitInd ==
  ASSUME IndInv, NEW c \in Callers, CaptureWait(c)
  PROVE  IndInv'
<1> USE DEF IndInv, TypeOK, Threads, CaptureWait, runtimeVars
<1>1. TypeOK'
  BY DEF PcValues, Reserving, Waiting
<1>2. Leases' = Leases /\ active' = active
  BY DEF Leases
<1>3. ActiveCountsLeases'
  BY <1>2 DEF LeaseInv, LimitsRespected, ActiveCountsLeases
<1>4. SlotInv' /\ CloseInv' /\ HealthInv' /\ NoLostWakeup'
        /\ IdleBrowserHasTimer'
  BY LeaseCount, LimitsPositive, SentinelsDistinct
     DEF SlotInv, LeaseInv, CloseInv, HealthInv, NoLostWakeup,
         IdleBrowserHasTimer, LimitsRespected, RetiringIsLent,
         BorrowersKeepTheirBrowser, Leases, Reserving
<1>5. LeaseInv'
  BY <1>1, <1>2, <1>3, LeaseCount, LimitsPositive, SentinelsDistinct
     DEF SlotInv, LeaseInv, LimitsRespected, RetiringIsLent,
         BorrowersKeepTheirBrowser, Leases, Reserving
<1> QED
  BY <1>1, <1>4, <1>5

\* CaptureDOM closes the detached process.
LEMMA CaptureRetireInd ==
  ASSUME IndInv, NEW c \in Callers, CaptureRetire(c)
  PROVE  IndInv'
<1> USE DEF IndInv, TypeOK, Threads, CaptureRetire, runtimeVars
<1>1. TypeOK'
  BY DEF PcValues, Reserving, Waiting
<1>2. Leases' = Leases /\ active' = active
  BY DEF Leases
<1>3. ActiveCountsLeases'
  BY <1>2 DEF LeaseInv, LimitsRespected, ActiveCountsLeases
<1>4. SlotInv' /\ CloseInv' /\ HealthInv' /\ NoLostWakeup'
        /\ IdleBrowserHasTimer'
  BY LeaseCount, LimitsPositive, SentinelsDistinct
     DEF SlotInv, LeaseInv, CloseInv, HealthInv, NoLostWakeup,
         IdleBrowserHasTimer, LimitsRespected, RetiringIsLent,
         BorrowersKeepTheirBrowser, Leases, Reserving
<1>5. LeaseInv'
  BY <1>1, <1>2, <1>3, LeaseCount, LimitsPositive, SentinelsDistinct
     DEF SlotInv, LeaseInv, LimitsRespected, RetiringIsLent,
         BorrowersKeepTheirBrowser, Leases, Reserving
<1> QED
  BY <1>1, <1>4, <1>5

\* The browser of the capture is the only native process.
LEMMA CaptureSpawnInd ==
  ASSUME IndInv, NEW c \in Callers, CaptureSpawn(c)
  PROVE  IndInv'
<1> USE DEF IndInv, TypeOK, Threads, CaptureSpawn, Fresh, runtimeVars
<1>1. TypeOK'
  BY DEF PcValues, Reserving, Waiting
<1>2. Leases' = Leases /\ active' = active
  BY DEF Leases
<1>3. ActiveCountsLeases'
  BY <1>2 DEF LeaseInv, LimitsRespected, ActiveCountsLeases
<1>4. SlotInv' /\ CloseInv' /\ HealthInv' /\ NoLostWakeup'
        /\ IdleBrowserHasTimer'
  BY LeaseCount, LimitsPositive, SentinelsDistinct
     DEF SlotInv, LeaseInv, CloseInv, HealthInv, NoLostWakeup,
         IdleBrowserHasTimer, LimitsRespected, RetiringIsLent,
         BorrowersKeepTheirBrowser, Leases, Reserving
<1>5. LeaseInv'
  BY <1>1, <1>2, <1>3, LeaseCount, LimitsPositive, SentinelsDistinct
     DEF SlotInv, LeaseInv, LimitsRespected, RetiringIsLent,
         BorrowersKeepTheirBrowser, Leases, Reserving
<1> QED
  BY <1>1, <1>4, <1>5

\* The capture started no browser.
LEMMA CaptureFailInd ==
  ASSUME IndInv, NEW c \in Callers, CaptureFail(c)
  PROVE  IndInv'
<1> USE DEF IndInv, TypeOK, Threads, CaptureFail, runtimeVars
<1>1. TypeOK'
  BY DEF PcValues, Reserving, Waiting
<1>2. Leases' = Leases /\ active' = active
  BY DEF Leases
<1>3. ActiveCountsLeases'
  BY <1>2 DEF LeaseInv, LimitsRespected, ActiveCountsLeases
<1>4. SlotInv' /\ CloseInv' /\ HealthInv' /\ NoLostWakeup'
        /\ IdleBrowserHasTimer'
  BY LeaseCount, LimitsPositive, SentinelsDistinct
     DEF SlotInv, LeaseInv, CloseInv, HealthInv, NoLostWakeup,
         IdleBrowserHasTimer, LimitsRespected, RetiringIsLent,
         BorrowersKeepTheirBrowser, Leases, Reserving
<1>5. LeaseInv'
  BY <1>1, <1>2, <1>3, LeaseCount, LimitsPositive, SentinelsDistinct
     DEF SlotInv, LeaseInv, LimitsRespected, RetiringIsLent,
         BorrowersKeepTheirBrowser, Leases, Reserving
<1> QED
  BY <1>1, <1>4, <1>5

\* The browser of the capture is gone.
LEMMA CaptureExitInd ==
  ASSUME IndInv, NEW c \in Callers, CaptureExit(c)
  PROVE  IndInv'
<1> USE DEF IndInv, TypeOK, Threads, CaptureExit, runtimeVars
<1>1. TypeOK'
  BY DEF PcValues, Reserving, Waiting
<1>2. Leases' = Leases /\ active' = active
  BY DEF Leases
<1>3. ActiveCountsLeases'
  BY <1>2 DEF LeaseInv, LimitsRespected, ActiveCountsLeases
<1>4. SlotInv' /\ CloseInv' /\ HealthInv' /\ NoLostWakeup'
        /\ IdleBrowserHasTimer'
  BY LeaseCount, LimitsPositive, SentinelsDistinct
     DEF SlotInv, LeaseInv, CloseInv, HealthInv, NoLostWakeup,
         IdleBrowserHasTimer, LimitsRespected, RetiringIsLent,
         BorrowersKeepTheirBrowser, Leases, Reserving
<1>5. LeaseInv'
  BY <1>1, <1>2, <1>3, LeaseCount, LimitsPositive, SentinelsDistinct
     DEF SlotInv, LeaseInv, LimitsRespected, RetiringIsLent,
         BorrowersKeepTheirBrowser, Leases, Reserving
<1> QED
  BY <1>1, <1>4, <1>5

\* CaptureDOM gives the reservation back.
LEMMA CaptureReturnInd ==
  ASSUME IndInv, NEW c \in Callers, CaptureReturn(c)
  PROVE  IndInv'
<1> USE DEF IndInv, TypeOK, Threads, CaptureReturn, Unreserve
<1>1. TypeOK'
  BY NotifyType DEF PcValues, Reserving, Waiting
<1>2. Leases' = Leases /\ active' = active
  BY DEF Leases, Notify
<1>3. ActiveCountsLeases'
  BY <1>2 DEF LeaseInv, LimitsRespected, ActiveCountsLeases
<1>4. SlotInv'
  BY SentinelsDistinct DEF SlotInv, Reserving, Notify
<1>6. CloseInv'
  BY DEF SlotInv, CloseInv, Reserving, Notify
<1>7. HealthInv'
  BY SentinelsDistinct
     DEF SlotInv, LeaseInv, HealthInv, RetiringIsLent,
         BorrowersKeepTheirBrowser, Leases, Reserving, Notify
<1>8. NoLostWakeup'
  BY LeaseCount, LimitsPositive
     DEF SlotInv, LeaseInv, LimitsRespected, NoLostWakeup, RetiringIsLent,
         CloseInv, Reserving, Notify
<1>9. IdleBrowserHasTimer'
  BY LeaseCount
     DEF SlotInv, LeaseInv, LimitsRespected, IdleBrowserHasTimer,
         BorrowersKeepTheirBrowser, Leases, Reserving, Notify
<1>5. LeaseInv'
  BY <1>1, <1>2, <1>3, LeaseCount, LimitsPositive, SentinelsDistinct
     DEF SlotInv, LeaseInv, LimitsRespected, RetiringIsLent,
         BorrowersKeepTheirBrowser, Leases, Reserving, Notify
<1> QED
  BY <1>1, <1>4, <1>5, <1>6, <1>7, <1>8, <1>9

\* The idle timer of the current process becomes a pending expire.
LEMMA TimerFireInd ==
  ASSUME IndInv, NEW e \in Expirers, TimerFire(e)
  PROVE  IndInv'
<1> USE DEF IndInv, TypeOK, Threads, TimerFire
<1>1. TypeOK'
  BY DEF PcValues, Reserving, Waiting
<1>2. Leases' = Leases /\ active' = active
  BY DEF Leases
<1>3. ActiveCountsLeases'
  BY <1>2 DEF LeaseInv, LimitsRespected, ActiveCountsLeases
<1>4. SlotInv' /\ CloseInv' /\ HealthInv' /\ NoLostWakeup'
        /\ IdleBrowserHasTimer'
  BY LeaseCount, LimitsPositive, SentinelsDistinct, ThreadsDistinct
     DEF SlotInv, LeaseInv, CloseInv, HealthInv, NoLostWakeup,
         IdleBrowserHasTimer, LimitsRespected, RetiringIsLent,
         BorrowersKeepTheirBrowser, Leases, Reserving
<1>5. LeaseInv'
  BY <1>1, <1>2, <1>3, LeaseCount, LimitsPositive, SentinelsDistinct
     DEF SlotInv, LeaseInv, LimitsRespected, RetiringIsLent,
         BorrowersKeepTheirBrowser, Leases, Reserving
<1> QED
  BY <1>1, <1>4, <1>5

\* expire finds its process replaced, lent or reserved.
LEMMA ExpireSkipInd ==
  ASSUME IndInv, NEW e \in Expirers, ExpireSkip(e)
  PROVE  IndInv'
<1> USE DEF IndInv, TypeOK, Threads, ExpireSkip, ExpireStale, runtimeVars
<1>1. TypeOK'
  BY DEF PcValues, Reserving, Waiting
<1>2. Leases' = Leases /\ active' = active
  BY DEF Leases
<1>3. ActiveCountsLeases'
  BY <1>2 DEF LeaseInv, LimitsRespected, ActiveCountsLeases
<1>4. SlotInv' /\ CloseInv' /\ HealthInv' /\ NoLostWakeup'
        /\ IdleBrowserHasTimer'
  BY LeaseCount, LimitsPositive, SentinelsDistinct
     DEF SlotInv, LeaseInv, CloseInv, HealthInv, NoLostWakeup,
         IdleBrowserHasTimer, LimitsRespected, RetiringIsLent,
         BorrowersKeepTheirBrowser, Leases, Reserving
<1>5. LeaseInv'
  BY <1>1, <1>2, <1>3, LeaseCount, LimitsPositive, SentinelsDistinct
     DEF SlotInv, LeaseInv, LimitsRespected, RetiringIsLent,
         BorrowersKeepTheirBrowser, Leases, Reserving
<1> QED
  BY <1>1, <1>4, <1>5

\* expire detaches a process that nobody borrows.
LEMMA ExpireRetireInd ==
  ASSUME IndInv, NEW e \in Expirers, ExpireRetire(e)
  PROVE  IndInv'
<1> USE DEF IndInv, TypeOK, Threads, ExpireRetire, ExpireStale, Detach
<1>1. TypeOK'
  BY DEF PcValues, Reserving, Waiting
<1>2. Leases' = Leases /\ active' = active
  BY DEF Leases
<1>3. ActiveCountsLeases'
  BY <1>2 DEF LeaseInv, LimitsRespected, ActiveCountsLeases
<1>4. SlotInv' /\ CloseInv' /\ HealthInv' /\ NoLostWakeup'
        /\ IdleBrowserHasTimer'
  BY LeaseCount, LimitsPositive, SentinelsDistinct
     DEF SlotInv, LeaseInv, CloseInv, HealthInv, NoLostWakeup,
         IdleBrowserHasTimer, LimitsRespected, RetiringIsLent,
         BorrowersKeepTheirBrowser, Leases, Reserving
<1>5. LeaseInv'
  BY <1>1, <1>2, <1>3, LeaseCount, LimitsPositive, SentinelsDistinct
     DEF SlotInv, LeaseInv, LimitsRespected, RetiringIsLent,
         BorrowersKeepTheirBrowser, Leases, Reserving
<1> QED
  BY <1>1, <1>4, <1>5

\* What Close does while the slot is reserved: it marks the runtime closed, wakes
\* everybody and parks.
LEMMA CloseParkInd ==
  ASSUME IndInv, NEW k \in Closers, CloseCall(k), busy
  PROVE  IndInv'
<1> USE DEF IndInv, TypeOK, Threads
<1>0. /\ pc[k] = "idle" /\ closed' = TRUE /\ busy' = TRUE
      /\ pc' = [Notify(pc) EXCEPT ![k] = "closeWait"]
      /\ UNCHANGED <<process, retiring, idle, proc, path, active, uses, err,
                     want, failed, cancelled, native, tainted>>
  BY DEF CloseCall
<1>1. TypeOK'
  BY <1>0, NotifyType DEF PcValues, Reserving, Waiting
<1>2. \A t \in Threads : /\ pc[t] \in Reserving => pc'[t] = pc[t]
                         /\ pc'[t] \in Reserving => pc'[t] = pc[t]
  BY <1>0 DEF Reserving, Notify
<1>3. Leases' = Leases
  BY <1>0 DEF Leases, Notify
<1>4. SlotInv'
  BY <1>0, <1>2 DEF SlotInv, Reserving
<1>5. LeaseInv'
  <2>1. ActiveCountsLeases' /\ RetiringIsLent'
    BY <1>0, <1>3 DEF LeaseInv, LimitsRespected, ActiveCountsLeases, RetiringIsLent
  <2>2. BorrowersKeepTheirBrowser' /\ LimitsRespected'
    BY <1>0, <2>1 DEF BorrowersKeepTheirBrowser, LeaseInv, LimitsRespected
  <2> QED
    BY <1>0, <1>3, <2>1, <2>2 DEF LeaseInv
<1>6. CloseInv'
  BY <1>0 DEF CloseInv, Notify
<1>7. HealthInv'
  BY <1>0, <1>2 DEF HealthInv, Reserving
<1>8. NoLostWakeup'
  BY <1>0 DEF NoLostWakeup, Notify
<1>9. IdleBrowserHasTimer'
  BY <1>0 DEF IdleBrowserHasTimer, SlotInv
<1> QED
  BY <1>1, <1>4, <1>5, <1>6, <1>7, <1>8, <1>9

\* What Close does with a free slot: it takes the process, if any, and reserves.
LEMMA CloseTakeInd ==
  ASSUME IndInv, NEW k \in Closers, CloseCall(k), ~busy
  PROVE  IndInv'
<1> USE DEF IndInv, TypeOK, Threads
<1>0. /\ pc[k] = "idle" /\ closed' = TRUE /\ busy' = TRUE
      /\ process' = NoProc /\ retiring' = FALSE /\ idle' = NoProc
      /\ proc' = [proc EXCEPT ![k] = process]
      /\ pc' = [Notify(pc) EXCEPT ![k] = "retire"]
      /\ UNCHANGED <<path, active, uses, err, want, failed, cancelled, native,
                     tainted>>
  BY DEF CloseCall, Detach
<1>1. TypeOK'
  BY <1>0, NotifyType DEF PcValues, Reserving, Waiting
<1>2. /\ \A t \in Threads : pc[t] \notin Reserving
      /\ \A t \in Threads : pc'[t] \in Reserving <=> t = k
      /\ proc'[k] = process /\ pc'[k] = "retire"
  BY <1>0 DEF Reserving, Notify, SlotInv
<1>3. /\ Leases' = Leases
      /\ \A c \in Leases : c # k /\ proc'[c] = proc[c]
  BY <1>0 DEF Leases, Notify
<1>4. SlotInv'
  BY <1>0, <1>2 DEF SlotInv, Reserving
<1>5. LeaseInv'
  <2>1. ActiveCountsLeases' /\ RetiringIsLent'
    BY <1>0, <1>3 DEF LeaseInv, LimitsRespected, ActiveCountsLeases, RetiringIsLent
  <2>2. BorrowersKeepTheirBrowser' /\ LimitsRespected'
    BY <1>0, <2>1 DEF BorrowersKeepTheirBrowser, LeaseInv, LimitsRespected
  <2> QED
    BY <1>0, <1>3, <2>1, <2>2 DEF LeaseInv
<1>6. CloseInv'
  BY <1>0 DEF CloseInv, Notify
<1>7. HealthInv'
  BY <1>0, <1>2, SentinelsDistinct DEF HealthInv, Reserving
<1>8. NoLostWakeup'
  BY <1>0 DEF NoLostWakeup, Notify
<1>9. IdleBrowserHasTimer'
  BY <1>0 DEF IdleBrowserHasTimer
<1> QED
  BY <1>1, <1>4, <1>5, <1>6, <1>7, <1>8, <1>9

\* Close detaches the process, or parks while the slot is reserved.
LEMMA CloseCallInd ==
  ASSUME IndInv, NEW k \in Closers, CloseCall(k)
  PROVE  IndInv'
BY CloseParkInd, CloseTakeInd

\* Close looks again after a wake-up.
LEMMA CloseRetryInd ==
  ASSUME IndInv, NEW k \in Closers, CloseRetry(k)
  PROVE  IndInv'
<1> USE DEF IndInv, TypeOK, Threads, CloseRetry, Detach
<1>1. TypeOK'
  <2>1. pc' \in [Threads -> PcValues]
    BY DEF PcValues, Reserving, Waiting
  <2>2. proc' \in [Threads -> Procs \cup {NoProc}]
    OBVIOUS
  <2> QED
    BY <2>1, <2>2
<1>2. Leases' = Leases /\ active' = active
  BY DEF Leases
<1>3. ActiveCountsLeases'
  BY <1>2 DEF LeaseInv, LimitsRespected, ActiveCountsLeases
<1>4. SlotInv' /\ CloseInv' /\ HealthInv' /\ NoLostWakeup'
        /\ IdleBrowserHasTimer'
  BY LeaseCount, LimitsPositive, SentinelsDistinct
     DEF SlotInv, LeaseInv, CloseInv, HealthInv, NoLostWakeup,
         IdleBrowserHasTimer, LimitsRespected, RetiringIsLent,
         BorrowersKeepTheirBrowser, Leases, Reserving
<1>5. LeaseInv'
  BY <1>1, <1>2, <1>3, LeaseCount, LimitsPositive, SentinelsDistinct
     DEF SlotInv, LeaseInv, CloseInv, LimitsRespected, RetiringIsLent,
         BorrowersKeepTheirBrowser, Leases, Reserving
<1> QED
  BY <1>1, <1>4, <1>5

\* A ctx is cancelled.
LEMMA CancelInd ==
  ASSUME IndInv, NEW c \in Callers, Cancel(c)
  PROVE  IndInv'
<1> USE DEF IndInv, TypeOK, Threads, Cancel, runtimeVars
<1>1. TypeOK'
  BY DEF PcValues, Reserving, Waiting
<1>2. Leases' = Leases /\ active' = active
  BY DEF Leases
<1>3. ActiveCountsLeases'
  BY <1>2 DEF LeaseInv, LimitsRespected, ActiveCountsLeases
<1>4. SlotInv' /\ CloseInv' /\ HealthInv' /\ NoLostWakeup'
        /\ IdleBrowserHasTimer'
  BY LeaseCount, LimitsPositive, SentinelsDistinct
     DEF SlotInv, LeaseInv, CloseInv, HealthInv, NoLostWakeup,
         IdleBrowserHasTimer, LimitsRespected, RetiringIsLent,
         BorrowersKeepTheirBrowser, Leases, Reserving
<1>5. LeaseInv'
  BY <1>1, <1>2, <1>3, LeaseCount, LimitsPositive, SentinelsDistinct
     DEF SlotInv, LeaseInv, LimitsRespected, RetiringIsLent,
         BorrowersKeepTheirBrowser, Leases, Reserving
<1> QED
  BY <1>1, <1>4, <1>5

\* A native process dies.
LEMMA CrashInd ==
  ASSUME IndInv, NEW p \in Procs, Crash(p)
  PROVE  IndInv'
<1> USE DEF IndInv, TypeOK, Threads, Crash, runtimeVars
<1>1. TypeOK'
  BY DEF PcValues, Reserving, Waiting
<1>2. Leases' = Leases /\ active' = active
  BY DEF Leases
<1>3. ActiveCountsLeases'
  BY <1>2 DEF LeaseInv, LimitsRespected, ActiveCountsLeases
<1>4. SlotInv' /\ CloseInv' /\ HealthInv' /\ NoLostWakeup'
        /\ IdleBrowserHasTimer'
  BY LeaseCount, LimitsPositive, SentinelsDistinct
     DEF SlotInv, LeaseInv, CloseInv, HealthInv, NoLostWakeup,
         IdleBrowserHasTimer, LimitsRespected, RetiringIsLent,
         BorrowersKeepTheirBrowser, Leases, Reserving
<1>5. LeaseInv'
  BY <1>1, <1>2, <1>3, LeaseCount, LimitsPositive, SentinelsDistinct
     DEF SlotInv, LeaseInv, LimitsRespected, RetiringIsLent,
         BorrowersKeepTheirBrowser, Leases, Reserving
<1> QED
  BY <1>1, <1>4, <1>5


\* Every step preserves the invariant.
THEOREM NextInd == IndInv /\ [Next]_vars => IndInv'
<1> SUFFICES ASSUME IndInv, [Next]_vars
             PROVE  IndInv'
  OBVIOUS
<1>1. CASE UNCHANGED vars
  BY <1>1 DEF vars, IndInv, TypeOK, SlotInv, LeaseInv, CloseInv, HealthInv,
              NoLostWakeup, IdleBrowserHasTimer, LimitsRespected,
              ActiveCountsLeases, BorrowersKeepTheirBrowser, RetiringIsLent,
              Leases
<1>2. ASSUME NEW c \in Callers,
             AcquireCall(c) \/ CaptureCall(c) \/ Cancel(c) \/ ReleaseStep(c)
      PROVE  IndInv'
  BY <1>2, AcquireCallInd, CaptureCallInd, CancelInd, ReleaseOrphanInd,
     ReleaseRetireInd, ReleaseKeepInd DEF ReleaseStep, Release
<1>3. ASSUME NEW c \in Callers, AcquireStep(c) \/ WaitCancelled(c)
      PROVE  IndInv'
  BY <1>3, AcquireRefuseInd, AcquireRetireInd, AcquireLaunchInd,
     AcquireReuseInd, AcquireWaitInd, WaitCancelledInd DEF AcquireStep
<1>4. ASSUME NEW c \in Callers, LaunchStep(c)
      PROVE  IndInv'
  BY <1>4, LaunchFailInd, LaunchSpawnInd, LaunchReadyInd, LaunchAbandonInd,
     LaunchInstallInd, LaunchDiscardInd, LaunchReturnErrorInd DEF LaunchStep
<1>5. ASSUME NEW c \in Callers, CaptureStep(c)
      PROVE  IndInv'
  BY <1>5, CaptureRefuseInd, CaptureReserveInd, CaptureWaitInd,
     CaptureRetireInd, CaptureSpawnInd, CaptureFailInd, CaptureExitInd,
     CaptureReturnInd DEF CaptureStep
<1>6. ASSUME NEW t \in Threads, RetireStep(t)
      PROVE  IndInv'
  BY <1>6, ProcessCloseInd, FinishRetirementInd DEF RetireStep
<1>7. ASSUME NEW e \in Expirers, TimerFire(e) \/ ExpireStep(e)
      PROVE  IndInv'
  BY <1>7, TimerFireInd, ExpireSkipInd, ExpireRetireInd DEF ExpireStep
<1>8. ASSUME NEW k \in Closers, CloseCall(k) \/ CloseRetry(k)
      PROVE  IndInv'
  BY <1>8, CloseCallInd, CloseRetryInd
<1>9. ASSUME NEW p \in Procs, Crash(p)
      PROVE  IndInv'
  BY <1>9, CrashInd
<1> QED
  BY <1>1, <1>2, <1>3, <1>4, <1>5, <1>6, <1>7, <1>8, <1>9
     DEF Next, CallerStep

\* The invariant holds in every reachable state of the runtime.
THEOREM Invariance == Spec => []IndInv
<1>1. Init => IndInv
  BY InitInd
<1> QED
  BY <1>1, NextInd, PTL DEF Spec

\* The fields of browserRuntime and the goroutines' locals keep their types.
THEOREM TypeCorrect == Spec => []TypeOK
<1>1. IndInv => TypeOK
  BY DEF IndInv
<1> QED
  BY <1>1, Invariance, PTL

\* At most one native browser exists, whatever is starting, being retired or
\* capturing: all native processes belong to the one holder of the slot.
THEOREM AtMostOneBrowser == Spec => []OneNativeBrowser
<1>1. IndInv => OneNativeBrowser
  BY SentinelsDistinct DEF IndInv, TypeOK, SlotInv, OneNativeBrowser
<1> QED
  BY <1>1, Invariance, PTL

\* No borrower of an open runtime loses its browser to a retirement.
THEOREM LeaseSafety == Spec => []BorrowersKeepTheirBrowser
<1>1. IndInv => BorrowersKeepTheirBrowser
  BY DEF IndInv, LeaseInv
<1> QED
  BY <1>1, Invariance, PTL

\* r.active counts the leases and both limits hold.
THEOREM LimitSafety == Spec => []LimitsRespected
<1>1. IndInv => LimitsRespected
  BY DEF IndInv, LeaseInv
<1> QED
  BY <1>1, Invariance, PTL

\* Whoever is parked has somebody to wake it.
THEOREM WakeupSafety == Spec => []NoLostWakeup
<1>1. IndInv => NoLostWakeup
  BY DEF IndInv
<1> QED
  BY <1>1, Invariance, PTL

\* A browser without leases has a timer, armed or fired, that will retire it.
THEOREM TimerSafety == Spec => []IdleBrowserHasTimer
<1>1. IndInv => IdleBrowserHasTimer
  BY DEF IndInv
<1> QED
  BY <1>1, Invariance, PTL

\* After a Close has returned no native browser exists.
THEOREM CloseSafety == Spec => []ClosedMeansGone
<1>1. IndInv => ClosedMeansGone
  BY DEF IndInv, SlotInv, CloseInv, ClosedMeansGone
<1> QED
  BY <1>1, Invariance, PTL

\* A browser is lent only when it is not one some borrower released as
\* unhealthy, and only by a runtime that is open and has no failed retirement.
THEOREM HealthyLending == Spec => LendsOnlyHealthy
<1>1. IndInv /\ [Next]_vars => [HealthyStep]_vars
  <2> SUFFICES ASSUME IndInv, Next
               PROVE  HealthyStep
    BY DEF vars
  <2> SUFFICES ASSUME NEW c \in Callers, pc[c] # "leased", pc'[c] = "leased"
               PROVE  proc'[c] \notin tainted /\ ~closed /\ ~err
    BY DEF HealthyStep
  <2>1. AcquireReuse(c) \/ LaunchInstall(c)
    <3> USE DEF IndInv, TypeOK, Threads
    <3>1. ASSUME NEW d \in Callers,
                 AcquireCall(d) \/ CaptureCall(d) \/ Cancel(d) \/ ReleaseStep(d)
          PROVE  FALSE
      BY <3>1 DEF AcquireCall, CaptureCall, Cancel, ReleaseStep, Release,
                  ReleaseOrphan, ReleaseRetire, ReleaseKeep, Notify
    <3>2. ASSUME NEW d \in Callers, AcquireStep(d) \/ WaitCancelled(d)
          PROVE  AcquireReuse(c)
      BY <3>2 DEF AcquireStep, AcquireRefuse, AcquireRetire, AcquireLaunch,
                  AcquireReuse, AcquireWait, WaitCancelled, Detach
    <3>3. ASSUME NEW d \in Callers, LaunchStep(d)
          PROVE  LaunchInstall(c)
      BY <3>3 DEF LaunchStep, LaunchFail, LaunchSpawn, LaunchReady,
                  LaunchAbandon, LaunchInstall, LaunchDiscard,
                  LaunchReturnError, Unreserve, Notify
    <3>4. ASSUME NEW d \in Callers, CaptureStep(d)
          PROVE  FALSE
      BY <3>4 DEF CaptureStep, CaptureRefuse, CaptureReserve, CaptureWait,
                  CaptureRetire, CaptureSpawn, CaptureFail, CaptureExit,
                  CaptureReturn, Unreserve, Notify, Detach
    <3>5. ASSUME NEW t \in Threads, RetireStep(t)
          PROVE  FALSE
      BY <3>5 DEF RetireStep, ProcessClose, FinishRetirement, Unreserve,
                  AfterRetirement, Notify
    <3>6. ASSUME NEW e \in Expirers, TimerFire(e) \/ ExpireStep(e)
          PROVE  FALSE
      BY <3>6 DEF TimerFire, ExpireStep, ExpireSkip, ExpireRetire, Detach
    <3>7. ASSUME NEW k \in Closers, CloseCall(k) \/ CloseRetry(k)
          PROVE  FALSE
      BY <3>7 DEF CloseCall, CloseRetry, Notify, Detach
    <3>8. ASSUME NEW p \in Procs, Crash(p)
          PROVE  FALSE
      BY <3>8 DEF Crash
    <3> QED
      BY <3>1, <3>2, <3>3, <3>4, <3>5, <3>6, <3>7, <3>8 DEF Next, CallerStep
  <2>2. CASE AcquireReuse(c)
    BY <2>2 DEF IndInv, TypeOK, HealthInv, AcquireReuse, Admitted, CanLend,
                MustRetire, Threads
  <2>3. CASE LaunchInstall(c)
    BY <2>3 DEF IndInv, TypeOK, HealthInv, LaunchInstall, Threads
  <2> QED
    BY <2>1, <2>2, <2>3
<1> QED
  BY <1>1, Invariance, PTL DEF Spec, LendsOnlyHealthy

-----------------------------------------------------------------------------
(***************************************************************************)
(* The runtime of browser_runtime.go implements the pool its interface     *)
(* comments promise, for every number of callers, closers and timers.      *)
(*                                                                         *)
(* Most steps leave the pool alone.  The others are grouped by the step    *)
(* of the pool they are: IndInv tells that nobody borrows the browser when *)
(* the slot is taken, that a launch ends with the slot still its own, and  *)
(* that what a Close finds after its wait is an empty slot.                *)
(***************************************************************************)

\* Nothing the pool is made of changes.
Quiet == busy' = busy /\ process' = process /\ closed' = closed /\ Leases' = Leases

\* Such a step is none of the pool's.
LEMMA QuietStep ==
  ASSUME Quiet
  PROVE  UNCHANGED Pool!poolVars
BY DEF Quiet, Pool!poolVars

\* What the invariant says of the pool.
LEMMA PoolInv ==
  ASSUME IndInv
  PROVE  /\ Leases \subseteq Callers /\ IsFiniteSet(Leases)
         /\ active = Cardinality(Leases)
         /\ active = 0 <=> Leases = {}
         /\ Leases # {} /\ ~closed => ~busy /\ process # NoProc
         /\ busy \/ closed => process = NoProc
<1>1. TypeOK /\ ActiveCountsLeases
  BY DEF IndInv, LeaseInv, LimitsRespected
<1>2. Leases # {} /\ ~closed => ~busy /\ process # NoProc
  BY DEF IndInv, LeaseInv, BorrowersKeepTheirBrowser
<1> QED
  BY <1>1, <1>2, LeaseCount DEF ActiveCountsLeases, Leases, IndInv, SlotInv

\* The operations that take the empty or idle slot for themselves: the slot of
\* an open runtime is reserved, that of a closed one sealed.
LEMMA Takes ==
  ASSUME IndInv, ~busy, busy' = TRUE, Leases = {}, Leases' = Leases,
         closed' = closed
  PROVE  Pool!Reserve \/ Pool!Seal
<1>1. CASE closed
  BY <1>1, PoolInv DEF Pool!Seal
<1>2. CASE ~closed
  BY <1>2, PoolInv DEF Pool!Reserve
<1> QED
  BY <1>1, <1>2

\* The end of a reservation.
LEMMA Frees ==
  ASSUME IndInv, busy, busy' = FALSE, process' = process, closed' = closed,
         Leases' = Leases
  PROVE  Pool!Vacate
BY PoolInv DEF Pool!Vacate

\* The pool counts as the runtime does.
LEMMA PoolCount == \A S : Pool!Cardinality(S) = Cardinality(S)
BY DEF Pool!Cardinality, Cardinality

\* Acquire reserves the slot, or takes one more lease of its browser.
LEMMA AcquireRefines ==
  ASSUME IndInv, NEW c \in Callers,
         AcquireCall(c) \/ Cancel(c) \/ AcquireStep(c) \/ WaitCancelled(c)
  PROVE  Pool!PoolNext \/ UNCHANGED Pool!poolVars
<1> USE DEF IndInv, TypeOK, Threads, runtimeVars
<1>1. CASE AcquireCall(c) \/ Cancel(c) \/ AcquireRefuse(c) \/ AcquireWait(c)
           \/ WaitCancelled(c)
  <2>1. Quiet
    BY <1>1 DEF Quiet, Leases, AcquireCall, Cancel, AcquireRefuse, AcquireWait,
                WaitCancelled
  <2> QED
    BY <2>1, QuietStep
<1>2. CASE AcquireRetire(c) \/ AcquireLaunch(c)
  <2>1. ~busy /\ busy' = TRUE /\ closed' = closed /\ Leases' = Leases
    BY <1>2 DEF AcquireRetire, AcquireLaunch, CanLend, Detach, Leases
  <2>2. Leases = {}
    BY <1>2, PoolInv, LeaseCount
       DEF AcquireRetire, AcquireLaunch, Admitted, CanLend
  <2> QED
    BY <2>1, <2>2, Takes DEF Pool!PoolNext
<1>3. CASE AcquireReuse(c)
  <2>1. c \notin Leases /\ Leases' = Leases \cup {c}
    BY <1>3 DEF AcquireReuse, Leases
  <2>2. ~busy /\ process # NoProc /\ ~closed /\ Cardinality(Leases) < MaxConcurrency
    BY <1>3, PoolInv DEF AcquireReuse, CanLend, Admitted
  <2>3. UNCHANGED <<busy, process, closed>>
    BY <1>3 DEF AcquireReuse
  <2>4. Pool!Lend(c)
    BY <2>1, <2>2, <2>3, PoolCount DEF Pool!Lend
  <2> QED
    BY <2>4 DEF Pool!PoolNext
<1> QED
  BY <1>1, <1>2, <1>3 DEF AcquireStep

\* A launch holds the slot until it gives it back, with a browser or empty.
LEMMA LaunchRefines ==
  ASSUME IndInv, NEW c \in Callers, LaunchStep(c)
  PROVE  Pool!PoolNext \/ UNCHANGED Pool!poolVars
<1> USE DEF IndInv, TypeOK, Threads, runtimeVars
<1>1. CASE LaunchFail(c) \/ LaunchSpawn(c) \/ LaunchReady(c) \/ LaunchAbandon(c)
           \/ LaunchDiscard(c)
  <2>1. Quiet
    BY <1>1 DEF Quiet, Leases, LaunchFail, LaunchSpawn, LaunchReady,
                LaunchAbandon, LaunchDiscard
  <2> QED
    BY <2>1, QuietStep
<1>2. CASE LaunchInstall(c)
  <2>1. busy /\ ~closed /\ proc[c] # NoProc
    BY <1>2 DEF LaunchInstall, SlotInv, Reserving
  <2>2. Leases = {}
    BY <2>1, PoolInv
  <2>3. Leases' = {c}
    BY <1>2, <2>2 DEF LaunchInstall, Notify, Leases
  <2>4. busy' = FALSE /\ process' # NoProc /\ closed' = closed
    BY <1>2, <2>1 DEF LaunchInstall
  <2>5. Pool!Open(c)
    BY <2>1, <2>2, <2>3, <2>4 DEF Pool!Open
  <2> QED
    BY <2>5 DEF Pool!PoolNext
<1>3. CASE LaunchReturnError(c)
  <2>1. busy /\ busy' = FALSE /\ process' = process /\ closed' = closed
    BY <1>3 DEF LaunchReturnError, Unreserve, SlotInv, Reserving
  <2>2. Leases' = Leases
    BY <1>3 DEF LaunchReturnError, Unreserve, Notify, Leases
  <2> QED
    BY <2>1, <2>2, Frees DEF Pool!PoolNext
<1> QED
  BY <1>1, <1>2, <1>3 DEF LaunchStep

\* A retirement ends with the slot empty.
LEMMA RetireRefines ==
  ASSUME IndInv, NEW t \in Threads, RetireStep(t)
  PROVE  Pool!PoolNext \/ UNCHANGED Pool!poolVars
<1> USE DEF IndInv, TypeOK, Threads, runtimeVars
<1>1. CASE ProcessClose(t)
  <2>1. Quiet
    BY <1>1 DEF Quiet, Leases, ProcessClose
  <2> QED
    BY <2>1, QuietStep
<1>2. CASE FinishRetirement(t)
  <2>1. busy /\ busy' = FALSE /\ process' = process /\ closed' = closed
    BY <1>2 DEF FinishRetirement, Unreserve, SlotInv, Reserving
  <2>2. Leases' = Leases
    BY <1>2 DEF FinishRetirement, Unreserve, AfterRetirement, Notify, Leases
  <2> QED
    BY <2>1, <2>2, Frees DEF Pool!PoolNext
<1> QED
  BY <1>1, <1>2 DEF RetireStep

\* A release returns one lease, and the last one of a browser that must go
\* reserves the slot.
LEMMA ReleaseRefines ==
  ASSUME IndInv, NEW c \in Callers, ReleaseStep(c)
  PROVE  Pool!PoolNext
<1> USE DEF IndInv, TypeOK, Threads, runtimeVars
<1> PICK healthy \in BOOLEAN : Release(c, healthy)
  BY DEF ReleaseStep
<1>1. c \in Leases
  BY DEF Release, ReleaseOrphan, ReleaseRetire, ReleaseKeep, Leases
<1>2. Leases' = Leases \ {c}
  BY DEF Release, ReleaseOrphan, ReleaseRetire, ReleaseKeep, Notify, Leases
<1>3. CASE ReleaseOrphan(c, healthy) \/ ReleaseKeep(c, healthy)
  <2>1. UNCHANGED <<busy, process, closed>>
    BY <1>3 DEF ReleaseOrphan, ReleaseKeep
  <2>2. Pool!Return(c)
    BY <1>1, <1>2, <2>1 DEF Pool!Return
  <2> QED
    BY <2>2 DEF Pool!PoolNext
<1>4. CASE ReleaseRetire(c, healthy)
  <2>1. busy' = TRUE /\ closed' = closed /\ active = 1
    BY <1>4 DEF ReleaseRetire, TakesDown, Detach
  <2>2. process = proc[c] /\ proc[c] # NoProc
    BY <1>1, <1>4 DEF ReleaseRetire, LeaseInv
  <2>3. ~busy /\ ~closed
    BY <2>2, PoolInv
  <2>4. Leases = {c}
    <3>1. IsFiniteSet(Leases) /\ Cardinality(Leases) = 1
      BY <2>1, PoolInv
    <3> QED
      BY <3>1, <1>1, FS_Singleton
  <2>5. Pool!ReturnAndReserve(c)
    BY <1>2, <2>1, <2>2, <2>3, <2>4 DEF Pool!ReturnAndReserve
  <2> QED
    BY <2>5 DEF Pool!PoolNext
<1> QED
  BY <1>3, <1>4 DEF Release

\* A capture takes the slot when nobody borrows, and gives it back empty.
LEMMA CaptureRefines ==
  ASSUME IndInv, NEW c \in Callers, CaptureCall(c) \/ CaptureStep(c)
  PROVE  Pool!PoolNext \/ UNCHANGED Pool!poolVars
<1> USE DEF IndInv, TypeOK, Threads, runtimeVars
<1>1. CASE CaptureCall(c) \/ CaptureRefuse(c) \/ CaptureWait(c) \/ CaptureRetire(c)
           \/ CaptureSpawn(c) \/ CaptureFail(c) \/ CaptureExit(c)
  <2>1. Quiet
    BY <1>1 DEF Quiet, Leases, CaptureCall, CaptureRefuse, CaptureWait,
                CaptureRetire, CaptureSpawn, CaptureFail, CaptureExit
  <2> QED
    BY <2>1, QuietStep
<1>2. CASE CaptureReserve(c)
  <2>1. ~busy /\ busy' = TRUE /\ closed' = closed /\ Leases' = Leases
    BY <1>2 DEF CaptureReserve, Detach, Leases
  <2>2. Leases = {}
    BY <1>2, PoolInv DEF CaptureReserve
  <2> QED
    BY <2>1, <2>2, Takes DEF Pool!PoolNext
<1>3. CASE CaptureReturn(c)
  <2>1. busy /\ busy' = FALSE /\ process' = process /\ closed' = closed
    BY <1>3 DEF CaptureReturn, Unreserve, SlotInv, Reserving
  <2>2. Leases' = Leases
    BY <1>3 DEF CaptureReturn, Unreserve, Notify, Leases
  <2> QED
    BY <2>1, <2>2, Frees DEF Pool!PoolNext
<1> QED
  BY <1>1, <1>2, <1>3 DEF CaptureStep

\* A fired timer takes an idle browser, or nothing.
LEMMA ExpireRefines ==
  ASSUME IndInv, NEW e \in Expirers, TimerFire(e) \/ ExpireStep(e)
  PROVE  Pool!PoolNext \/ UNCHANGED Pool!poolVars
<1> USE DEF IndInv, TypeOK, Threads, runtimeVars
<1>1. CASE TimerFire(e) \/ ExpireSkip(e)
  <2>1. Quiet
    BY <1>1, ThreadsDistinct DEF Quiet, Leases, TimerFire, ExpireSkip
  <2> QED
    BY <2>1, QuietStep
<1>2. CASE ExpireRetire(e)
  <2>1. ~busy /\ busy' = TRUE /\ closed' = closed /\ Leases' = Leases
    BY <1>2, ThreadsDistinct DEF ExpireRetire, ExpireStale, Detach, Leases
  <2>2. Leases = {}
    BY <1>2, PoolInv DEF ExpireRetire, ExpireStale
  <2> QED
    BY <2>1, <2>2, Takes DEF Pool!PoolNext
<1> QED
  BY <1>1, <1>2 DEF ExpireStep

\* The first steps of a Close shut the pool; those after a wait find the slot
\* empty, and seal it.
LEMMA CloseRefines ==
  ASSUME IndInv, NEW k \in Closers, CloseCall(k) \/ CloseRetry(k)
  PROVE  Pool!PoolNext \/ UNCHANGED Pool!poolVars
<1> USE DEF IndInv, TypeOK, Threads, runtimeVars
<1>0. k \notin Callers
  BY ThreadsDistinct
<1>1. CASE CloseCall(k)
  <2>1. closed' = TRUE /\ busy' = TRUE
    BY <1>1 DEF CloseCall, Detach
  <2>2. Leases' = Leases
    BY <1>0, <1>1 DEF CloseCall, Detach, Notify, Leases
  <2>3. Pool!Shut
    BY <2>1, <2>2 DEF Pool!Shut
  <2> QED
    BY <2>3 DEF Pool!PoolNext
<1>2. CASE CloseRetry(k)
  <2>1. Leases' = Leases /\ closed' = closed
    BY <1>0, <1>2 DEF CloseRetry, Leases
  <2>2. CASE busy
    <3>1. Quiet
      BY <1>2, <2>1, <2>2 DEF CloseRetry, Quiet
    <3> QED
      BY <3>1, QuietStep
  <2>3. CASE ~busy
    <3>1. closed /\ busy' = TRUE
      BY <1>2, <2>3 DEF CloseRetry, Detach, CloseInv
    <3>2. Pool!Seal
      BY <2>1, <2>3, <3>1, PoolInv DEF Pool!Seal
    <3> QED
      BY <3>2 DEF Pool!PoolNext
  <2> QED
    BY <2>2, <2>3
<1> QED
  BY <1>1, <1>2

\* Every step of the runtime is a step of the pool or none of its.
LEMMA StepRefines ==
  ASSUME IndInv, [Next]_vars
  PROVE  [Pool!PoolNext]_Pool!poolVars
<1>1. CASE UNCHANGED vars
  BY <1>1, QuietStep DEF vars, Quiet, Leases
<1>2. ASSUME NEW p \in Procs, Crash(p)
      PROVE  UNCHANGED Pool!poolVars
  BY <1>2, QuietStep DEF Crash, runtimeVars, Quiet, Leases
<1> QED
  BY <1>1, <1>2, AcquireRefines, LaunchRefines, RetireRefines, ReleaseRefines,
     CaptureRefines, ExpireRefines, CloseRefines
     DEF Next, CallerStep

\* The runtime is the single-slot lease pool that the interface comments of
\* browser_runtime.go (lines 23-33) describe, whoever launches, releases,
\* captures, expires and closes together.
THEOREM PoolRefinement == Spec => ImplementsPool
<1>1. Init => Pool!PoolInit
  BY DEF Init, Pool!PoolInit, Leases, Threads
<1>2. IndInv /\ [Next]_vars => [Pool!PoolNext]_Pool!poolVars
  BY StepRefines
<1> QED
  BY <1>1, <1>2, Invariance, PTL DEF Spec, ImplementsPool, Pool!PoolSpec
=============================================================================
