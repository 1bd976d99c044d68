--------------------------- MODULE BrowserRuntime ---------------------------
(***************************************************************************)
(* The shared browser runtime of internal/platform/browser_runtime.go and  *)
(* the native processes it owns (browser_process.go).                      *)
(*                                                                         *)
(* Callers run Acquire/Release and CaptureDOM, closers run Close, and      *)
(* expirers are the goroutines in which an idle timer has fired and        *)
(* expire(p) runs.  Every action is one critical section of r.mu, or one   *)
(* step a goroutine takes outside it while r.busy reserves the process     *)
(* slot.  The name of a program counter value is the place in the code the *)
(* goroutine has reached.                                                  *)
(***************************************************************************)
EXTENDS Integers, FiniteSets

CONSTANTS
  Callers,         \* goroutines that render (Acquire, Release, CaptureDOM)
  Closers,         \* goroutines that call Close, once each
  Expirers,        \* goroutines of fired idle timers (bounds how many pend)
  Procs,           \* identities of native browser processes
  Paths,           \* browser executables a caller may ask for
  MaxConcurrency,  \* BrowserLimits.MaxConcurrency
  MaxUses,         \* BrowserLimits.MaxUses
  NoProc,          \* the nil BrowserProcess
  NoPath           \* no Acquire in progress

Threads == Callers \cup Closers \cup Expirers

\* NewBrowserRuntime refuses limits that are not positive.
ASSUME LimitsPositive ==
  MaxConcurrency \in Nat \ {0} /\ MaxUses \in Nat \ {0}

ASSUME ThreadsDistinct ==
  /\ Callers \cap Closers = {}
  /\ Callers \cap Expirers = {}
  /\ Closers \cap Expirers = {}
  /\ IsFiniteSet(Callers)

ASSUME SentinelsDistinct == NoProc \notin Procs /\ NoPath \notin Paths

VARIABLES
  process,    \* r.process
  path,       \* r.path (the zero value is NoPath)
  active,     \* r.active
  uses,       \* r.uses
  busy,       \* r.busy
  retiring,   \* r.retiring
  closed,     \* r.closed; r.ctx is cancelled in the same critical section
  err,        \* r.err # nil
  idle,       \* the process of the armed, unfired idle timer, or NoProc
  pc,         \* where each goroutine is
  proc,       \* the process a goroutine holds (lease.process, the local p)
  want,       \* the path argument of the Acquire in progress
  failed,     \* the local err of the p.Close a goroutine has made
  cancelled,  \* whether the caller's own ctx is done
  native,     \* the native processes that exist
  tainted     \* history: processes a borrower has released as unhealthy

runtimeVars == <<process, path, active, uses, busy, retiring, closed, err, idle>>
vars == <<process, path, active, uses, busy, retiring, closed, err, idle,
          pc, proc, want, failed, cancelled, native, tainted>>

\* Goroutines at these points hold the reservation that r.busy stands for.
Reserving == {"retire", "retired", "launch", "starting", "launched",
              "launchFailed", "capRetire", "capReady",
              "capturing", "capDone"}
Waiting == {"wait", "capWait", "closeWait"}
PcValues == {"idle", "acquire", "capture", "closing", "expire", "leased",
             "closed"} \cup Reserving \cup Waiting

Init ==
  /\ process = NoProc /\ path = NoPath
  /\ active = 0 /\ uses = 0
  /\ busy = FALSE /\ retiring = FALSE /\ closed = FALSE /\ err = FALSE
  /\ idle = NoProc
  /\ pc = [t \in Threads |-> "idle"]
  /\ proc = [t \in Threads |-> NoProc]
  /\ want = [c \in Callers |-> NoPath]
  /\ failed = [t \in Threads |-> FALSE]
  /\ cancelled = [c \in Callers |-> FALSE]
  /\ native = {}
  /\ tainted = {}

-----------------------------------------------------------------------------
(* Helpers of the runtime. *)

\* Mutant of Notify: the waiters are not woken.
NotifyDropped(f) == f

\* notify: closing the channel releases every goroutine parked on it; each one
\* goes back to the head of its loop.  Notify(f) is f after that.
Notify(f) ==
  [t \in Threads |-> CASE f[t] = "wait"      -> "acquire"
                       [] f[t] = "capWait"   -> "capture"
                       [] f[t] = "closeWait" -> "closing"
                       [] OTHER              -> f[t]]

\* Mutant of Detach: r.retiring survives into the next process.
DetachKeepsRetiring(t) ==
  /\ idle' = NoProc
  /\ proc' = [proc EXCEPT ![t] = process]
  /\ process' = NoProc
  /\ busy' = TRUE
  /\ retiring' = retiring

\* detach: t takes the process out of the runtime and reserves the slot.
Detach(t) ==
  /\ idle' = NoProc
  /\ proc' = [proc EXCEPT ![t] = process]
  /\ process' = NoProc
  /\ busy' = TRUE
  /\ retiring' = FALSE

\* The end of every reservation: r.busy = false and notify; t moves to next.
Unreserve(t, next) ==
  /\ busy' = FALSE
  /\ pc' = [Notify(pc) EXCEPT ![t] = next]
  /\ proc' = [proc EXCEPT ![t] = NoProc]

\* A process identity nothing refers to: pointers are never reused while held.
Fresh(p) ==
  /\ p \notin native
  /\ p # process /\ p # idle
  /\ \A t \in Threads : proc[t] # p

\* The caller's own context, or the runtime's, is done.
CtxDone(c) == cancelled[c] \/ closed

-----------------------------------------------------------------------------
(* Acquire *)

AcquireCall(c) ==
  /\ pc[c] = "idle"
  /\ \E pa \in Paths : want' = [want EXCEPT ![c] = pa]
  /\ pc' = [pc EXCEPT ![c] = "acquire"]
  /\ cancelled' = [cancelled EXCEPT ![c] = FALSE]
  /\ UNCHANGED <<runtimeVars, proc, failed, native, tainted>>

\* Mutant of Admitted: Acquire does not look at r.closed.
AdmittedWhenClosed(c) == ~err /\ ~cancelled[c]

\* Mutant of Admitted: the loop does not look at the caller's ctx.
AdmittedWhenCancelled(c) == ~closed /\ ~err

\* The head of the loop finds the runtime open and sound and the ctx alive.
Admitted(c) == ~closed /\ ~err /\ ~cancelled[c]

\* The head of the loop returns ErrBrowserRuntimeClosed, r.err or ctx.Err().
AcquireRefuse(c) ==
  /\ pc[c] = "acquire"
  /\ ~Admitted(c)
  /\ pc' = [pc EXCEPT ![c] = "idle"]
  /\ want' = [want EXCEPT ![c] = NoPath]
  /\ UNCHANGED <<runtimeVars, proc, failed, cancelled, native, tainted>>

\* Mutant of MustRetire: a retirement that is due is forgotten.
MustRetireForgets(c) ==
  /\ ~busy
  /\ process # NoProc
  /\ process \notin native \/ path # want[c] \/ uses >= MaxUses

\* r.retiring after the loop has examined the current process: a dead process,
\* one of another executable, or one at its use limit must go.
MustRetire(c) ==
  \/ retiring
  \/ /\ ~busy
     /\ process # NoProc
     /\ process \notin native \/ path # want[c] \/ uses >= MaxUses

AcquireRetire(c) ==
  /\ pc[c] = "acquire"
  /\ Admitted(c)
  /\ ~busy /\ MustRetire(c) /\ active = 0
  /\ Detach(c)
  /\ pc' = [pc EXCEPT ![c] = "retire"]
  /\ UNCHANGED <<path, active, uses, closed, err, want, failed, cancelled,
                 native, tainted>>

\* Mutant of CanLend: off by one at the concurrency limit.
CanLendOneMore(c) == ~busy /\ ~MustRetire(c) /\ active <= MaxConcurrency

CanLend(c) == ~busy /\ ~MustRetire(c) /\ active < MaxConcurrency

AcquireLaunch(c) ==
  /\ pc[c] = "acquire"
  /\ Admitted(c)
  /\ CanLend(c) /\ process = NoProc
  /\ idle' = NoProc
  /\ busy' = TRUE
  /\ pc' = [pc EXCEPT ![c] = "launch"]
  /\ UNCHANGED <<process, path, active, uses, retiring, closed, err, proc,
                 want, failed, cancelled, native, tainted>>

AcquireReuse(c) ==
  /\ pc[c] = "acquire"
  /\ Admitted(c)
  /\ CanLend(c) /\ process # NoProc
  /\ idle' = NoProc
  /\ active' = active + 1
  /\ uses' = uses + 1
  /\ pc' = [pc EXCEPT ![c] = "leased"]
  /\ proc' = [proc EXCEPT ![c] = process]
  /\ want' = [want EXCEPT ![c] = NoPath]
  /\ UNCHANGED <<process, path, busy, retiring, closed, err, failed,
                 cancelled, native, tainted>>

\* Neither retirement nor a lease is possible: keep r.retiring, park on changed.
AcquireWait(c) ==
  /\ pc[c] = "acquire"
  /\ Admitted(c)
  /\ ~(~busy /\ MustRetire(c) /\ active = 0) /\ ~CanLend(c)
  /\ retiring' = MustRetire(c)
  /\ pc' = [pc EXCEPT ![c] = "wait"]
  /\ UNCHANGED <<process, path, active, uses, busy, closed, err, idle, proc,
                 want, failed, cancelled, native, tainted>>

\* select: ctx.Done() wins over changed, in Acquire and in CaptureDOM.
WaitCancelled(c) ==
  /\ pc[c] \in {"wait", "capWait"}
  /\ cancelled[c]
  /\ pc' = [pc EXCEPT ![c] = "idle"]
  /\ want' = [want EXCEPT ![c] = NoPath]
  /\ UNCHANGED <<runtimeVars, proc, failed, cancelled, native, tainted>>

\* launchBrowser before cmd.Start succeeds: no browser found, no profile, ...
LaunchFail(c) ==
  /\ pc[c] = "launch"
  /\ pc' = [pc EXCEPT ![c] = "launchFailed"]
  /\ UNCHANGED <<runtimeVars, proc, want, failed, cancelled, native, tainted>>

LaunchSpawn(c) ==
  /\ pc[c] = "launch"
  /\ \E p \in Procs :
       /\ Fresh(p)
       /\ native' = native \cup {p}
       /\ proc' = [proc EXCEPT ![c] = p]
       /\ tainted' = tainted \ {p}
  /\ pc' = [pc EXCEPT ![c] = "starting"]
  /\ UNCHANGED <<runtimeVars, want, failed, cancelled>>

\* The endpoint appears on stderr.  The poll reads it before it looks at the
\* context or at p.done, so a dead or cancelled start may still be returned.
LaunchReady(c) ==
  /\ pc[c] = "starting"
  /\ pc' = [pc EXCEPT ![c] = "launched"]
  /\ UNCHANGED <<runtimeVars, proc, want, failed, cancelled, native, tainted>>

\* Startup is abandoned: p.Close() after ctx.Done(), or the process is gone.
LaunchAbandon(c) ==
  /\ pc[c] = "starting"
  /\ CtxDone(c) \/ proc[c] \notin native
  /\ native' = native \ {proc[c]}
  /\ pc' = [pc EXCEPT ![c] = "launchFailed"]
  /\ UNCHANGED <<runtimeVars, proc, want, failed, cancelled, tainted>>

\* Back under the lock with a browser: install it and take the first lease.
LaunchInstall(c) ==
  /\ pc[c] = "launched"
  /\ ~closed
  /\ process' = proc[c]
  /\ path' = want[c]
  /\ active' = active + 1
  /\ uses' = 1
  /\ busy' = FALSE
  /\ pc' = [Notify(pc) EXCEPT ![c] = "leased"]
  /\ want' = [want EXCEPT ![c] = NoPath]
  /\ UNCHANGED <<retiring, closed, err, idle, proc, failed, cancelled, native,
                 tainted>>

\* Mutant of LaunchDiscard: the browser that came too late is left running.
LaunchDiscardLeaks(c) ==
  /\ pc[c] = "launched"
  /\ closed
  /\ pc' = [pc EXCEPT ![c] = "launchFailed"]
  /\ UNCHANGED <<runtimeVars, proc, want, failed, cancelled, native, tainted>>

\* The runtime was closed meanwhile: unlock, p.Close(), lock again.
LaunchDiscard(c) ==
  /\ pc[c] = "launched"
  /\ closed
  /\ native' = native \ {proc[c]}
  /\ pc' = [pc EXCEPT ![c] = "launchFailed"]
  /\ UNCHANGED <<runtimeVars, proc, want, failed, cancelled, tainted>>

LaunchReturnError(c) ==
  /\ pc[c] = "launchFailed"
  /\ Unreserve(c, "idle")
  /\ want' = [want EXCEPT ![c] = NoPath]
  /\ UNCHANGED <<process, path, active, uses, retiring, closed, err, idle,
                 failed, cancelled, native, tainted>>

-----------------------------------------------------------------------------
(* Retirement: browserProcess.Close outside the lock, then finishRetirement. *)

\* p.Close() kills the process group and waits for the cleanup, whose error it
\* returns; nothing to do when the detached process was nil.
ProcessClose(t) ==
  /\ pc[t] = "retire"
  /\ native' = native \ {proc[t]}
  /\ \E e \in BOOLEAN : /\ e => proc[t] # NoProc
                        /\ failed' = [failed EXCEPT ![t] = e]
  /\ pc' = [pc EXCEPT ![t] = "retired"]
  /\ UNCHANGED <<runtimeVars, proc, want, cancelled, tainted>>

\* Where t continues: Acquire loops unless the retirement failed, the other
\* callers of finishRetirement return.
AfterRetirement(t) ==
  IF t \in Closers THEN "closed"
  ELSE IF t \in Callers /\ want[t] # NoPath /\ ~failed[t] THEN "acquire"
  ELSE "idle"

FinishRetirement(t) ==
  /\ pc[t] = "retired"
  /\ err' = (err \/ failed[t])
  /\ Unreserve(t, AfterRetirement(t))
  /\ want' = IF t \in Callers /\ AfterRetirement(t) = "idle"
             THEN [want EXCEPT ![t] = NoPath] ELSE want
  /\ failed' = [failed EXCEPT ![t] = FALSE]
  /\ UNCHANGED <<process, path, active, uses, retiring, closed, idle,
                 cancelled, native, tainted>>

-----------------------------------------------------------------------------
(* browserLease.Release, the body of its sync.Once *)

\* The lease of a process the runtime no longer holds (Close detached it).
ReleaseOrphan(c, healthy) ==
  /\ pc[c] = "leased"
  /\ process # proc[c]
  /\ active' = active - 1
  /\ pc' = [Notify(pc) EXCEPT ![c] = "idle"]
  /\ proc' = [proc EXCEPT ![c] = NoProc]
  /\ tainted' = IF healthy THEN tainted ELSE tainted \cup {proc[c]}
  /\ UNCHANGED <<process, path, uses, busy, retiring, closed, err, idle, want,
                 failed, cancelled, native>>

\* r.retiring as Release leaves it.
Retires(healthy) == retiring \/ ~healthy \/ uses >= MaxUses

\* Mutant of TakesDown: any release of a retiring process takes it down.
TakesDownEarly(healthy) == Retires(healthy)

\* The last lease of a retiring process takes it down.
TakesDown(healthy) == Retires(healthy) /\ active = 1

\* Mutant of IdleAfterRelease: no timer is armed.
IdleNotArmed == idle

\* The idle timer is armed when nobody uses the process any more.
IdleAfterRelease == IF active = 1 THEN process ELSE idle

ReleaseRetire(c, healthy) ==
  /\ pc[c] = "leased"
  /\ process = proc[c]
  /\ TakesDown(healthy)
  /\ active' = active - 1
  /\ Detach(c)
  /\ pc' = [pc EXCEPT ![c] = "retire"]
  /\ tainted' = IF healthy THEN tainted ELSE tainted \cup {proc[c]}
  /\ UNCHANGED <<path, uses, closed, err, want, failed, cancelled, native>>

\* Otherwise the process stays.
ReleaseKeep(c, healthy) ==
  /\ pc[c] = "leased"
  /\ process = proc[c]
  /\ ~TakesDown(healthy)
  /\ active' = active - 1
  /\ retiring' = Retires(healthy)
  /\ idle' = IdleAfterRelease
  /\ pc' = [Notify(pc) EXCEPT ![c] = "idle"]
  /\ proc' = [proc EXCEPT ![c] = NoProc]
  /\ tainted' = IF healthy THEN tainted ELSE tainted \cup {proc[c]}
  /\ UNCHANGED <<process, path, uses, busy, closed, err, want, failed,
                 cancelled, native>>

Release(c, healthy) ==
  \/ ReleaseOrphan(c, healthy)
  \/ ReleaseRetire(c, healthy)
  \/ ReleaseKeep(c, healthy)

-----------------------------------------------------------------------------
(* CaptureDOM *)

CaptureCall(c) ==
  /\ pc[c] = "idle"
  /\ pc' = [pc EXCEPT ![c] = "capture"]
  /\ cancelled' = [cancelled EXCEPT ![c] = FALSE]
  /\ UNCHANGED <<runtimeVars, proc, want, failed, native, tainted>>

CaptureRefuse(c) ==
  /\ pc[c] = "capture"
  /\ closed \/ cancelled[c]
  /\ pc' = [pc EXCEPT ![c] = "idle"]
  /\ UNCHANGED <<runtimeVars, proc, want, failed, cancelled, native, tainted>>

CaptureReserve(c) ==
  /\ pc[c] = "capture"
  /\ ~closed /\ ~cancelled[c]
  /\ ~busy /\ active = 0
  /\ Detach(c)
  /\ pc' = [pc EXCEPT ![c] = "capRetire"]
  /\ UNCHANGED <<path, active, uses, closed, err, want, failed, cancelled,
                 native, tainted>>

CaptureWait(c) ==
  /\ pc[c] = "capture"
  /\ ~closed /\ ~cancelled[c]
  /\ busy \/ active # 0
  /\ pc' = [pc EXCEPT ![c] = "capWait"]
  /\ UNCHANGED <<runtimeVars, proc, want, failed, cancelled, native, tainted>>

\* Mutant of CaptureRetire: the capture does not wait for the pooled browser.
CaptureRetireSkipped(c) ==
  /\ pc[c] = "capRetire"
  /\ pc' = [pc EXCEPT ![c] = "capReady"]
  /\ proc' = [proc EXCEPT ![c] = NoProc]
  /\ UNCHANGED <<runtimeVars, want, failed, cancelled, native, tainted>>

\* p.Close() of the detached process; its error ends the capture before it
\* starts, and is returned to this caller only (r.err keeps its value).
CaptureRetire(c) ==
  /\ pc[c] = "capRetire"
  /\ native' = native \ {proc[c]}
  /\ \/ pc' = [pc EXCEPT ![c] = "capReady"]
     \/ proc[c] # NoProc /\ pc' = [pc EXCEPT ![c] = "capDone"]
  /\ proc' = [proc EXCEPT ![c] = NoProc]
  /\ UNCHANGED <<runtimeVars, want, failed, cancelled, tainted>>

\* captureBrowserDOM starts its own browser, unless its ctx is already done or
\* the start fails.
CaptureSpawn(c) ==
  /\ pc[c] = "capReady"
  /\ ~CtxDone(c)
  /\ \E p \in Procs :
       /\ Fresh(p)
       /\ native' = native \cup {p}
       /\ proc' = [proc EXCEPT ![c] = p]
       /\ tainted' = tainted \ {p}
  /\ pc' = [pc EXCEPT ![c] = "capturing"]
  /\ UNCHANGED <<runtimeVars, want, failed, cancelled>>

CaptureFail(c) ==
  /\ pc[c] = "capReady"
  /\ pc' = [pc EXCEPT ![c] = "capDone"]
  /\ UNCHANGED <<runtimeVars, proc, want, failed, cancelled, native, tainted>>

\* cmd.Run returns: the browser has printed the DOM, or was killed by the ctx.
CaptureExit(c) ==
  /\ pc[c] = "capturing"
  /\ native' = native \ {proc[c]}
  /\ pc' = [pc EXCEPT ![c] = "capDone"]
  /\ UNCHANGED <<runtimeVars, proc, want, failed, cancelled, tainted>>

CaptureReturn(c) ==
  /\ pc[c] = "capDone"
  /\ Unreserve(c, "idle")
  /\ UNCHANGED <<process, path, active, uses, retiring, closed, err, idle,
                 want, failed, cancelled, native, tainted>>

-----------------------------------------------------------------------------
(* expire and Close *)

\* The armed timer fires: its goroutine will run expire on the process.
TimerFire(e) ==
  /\ pc[e] = "idle"
  /\ idle # NoProc
  /\ proc' = [proc EXCEPT ![e] = idle]
  /\ idle' = NoProc
  /\ pc' = [pc EXCEPT ![e] = "expire"]
  /\ UNCHANGED <<process, path, active, uses, busy, retiring, closed, err,
                 want, failed, cancelled, native, tainted>>

\* Mutant of ExpireStale: expire does not look for leases.
ExpireStaleIgnoresLeases(e) == process # proc[e] \/ busy

ExpireStale(e) == process # proc[e] \/ active # 0 \/ busy

ExpireSkip(e) ==
  /\ pc[e] = "expire"
  /\ ExpireStale(e)
  /\ pc' = [pc EXCEPT ![e] = "idle"]
  /\ proc' = [proc EXCEPT ![e] = NoProc]
  /\ UNCHANGED <<runtimeVars, want, failed, cancelled, native, tainted>>

ExpireRetire(e) ==
  /\ pc[e] = "expire"
  /\ ~ExpireStale(e)
  /\ Detach(e)
  /\ pc' = [pc EXCEPT ![e] = "retire"]
  /\ UNCHANGED <<path, active, uses, closed, err, want, failed, cancelled,
                 native, tainted>>

\* Close up to its wait for r.busy: closed, cancel, notify, and detach at once
\* when the slot is free, whoever still holds a lease.
CloseCall(k) ==
  /\ pc[k] = "idle"
  /\ closed' = TRUE
  /\ \/ /\ busy
        /\ pc' = [Notify(pc) EXCEPT ![k] = "closeWait"]
        /\ UNCHANGED <<process, busy, retiring, idle, proc>>
     \/ /\ ~busy
        /\ Detach(k)
        /\ pc' = [Notify(pc) EXCEPT ![k] = "retire"]
  /\ UNCHANGED <<path, active, uses, err, want, failed, cancelled, native,
                 tainted>>

CloseRetry(k) ==
  /\ pc[k] = "closing"
  /\ \/ /\ busy
        /\ pc' = [pc EXCEPT ![k] = "closeWait"]
        /\ UNCHANGED <<process, busy, retiring, idle, proc>>
     \/ /\ ~busy
        /\ Detach(k)
        /\ pc' = [pc EXCEPT ![k] = "retire"]
  /\ UNCHANGED <<path, active, uses, closed, err, want, failed, cancelled,
                 native, tainted>>

-----------------------------------------------------------------------------
(* The environment *)

\* A caller's deadline passes or its request is abandoned.
Cancel(c) ==
  /\ pc[c] \notin {"idle", "leased"}
  /\ ~cancelled[c]
  /\ cancelled' = [cancelled EXCEPT ![c] = TRUE]
  /\ UNCHANGED <<runtimeVars, pc, proc, want, failed, native, tainted>>

\* A native browser dies by itself; its waiter goroutine cleans up.
Crash(p) ==
  /\ p \in native
  /\ native' = native \ {p}
  /\ UNCHANGED <<runtimeVars, pc, proc, want, failed, cancelled, tainted>>

AcquireStep(c) ==
  \/ AcquireRefuse(c) \/ AcquireRetire(c) \/ AcquireLaunch(c)
  \/ AcquireReuse(c) \/ AcquireWait(c)
LaunchStep(c) ==
  \/ LaunchFail(c) \/ LaunchSpawn(c) \/ LaunchReady(c) \/ LaunchAbandon(c)
  \/ LaunchInstall(c) \/ LaunchDiscard(c) \/ LaunchReturnError(c)
CaptureStep(c) ==
  \/ CaptureRefuse(c) \/ CaptureReserve(c) \/ CaptureWait(c)
  \/ CaptureRetire(c) \/ CaptureSpawn(c) \/ CaptureFail(c)
  \/ CaptureExit(c) \/ CaptureReturn(c)
ReleaseStep(c) == \E healthy \in BOOLEAN : Release(c, healthy)
CallerStep(c) ==
  AcquireStep(c) \/ LaunchStep(c) \/ CaptureStep(c) \/ WaitCancelled(c)
RetireStep(t) == ProcessClose(t) \/ FinishRetirement(t)
ExpireStep(e) == ExpireSkip(e) \/ ExpireRetire(e)

Next ==
  \/ \E c \in Callers : \/ AcquireCall(c) \/ CaptureCall(c) \/ Cancel(c)
                        \/ CallerStep(c) \/ ReleaseStep(c)
  \/ \E t \in Threads : RetireStep(t)
  \/ \E e \in Expirers : TimerFire(e) \/ ExpireStep(e)
  \/ \E k \in Closers : CloseCall(k) \/ CloseRetry(k)
  \/ \E p \in Procs : Crash(p)

Spec == Init /\ [][Next]_vars

(***************************************************************************)
(* Goroutines run: every step the code takes by itself is weakly fair, and *)
(* so are the ends of a native close, of a startup and of a capture, which *)
(* the code waits for.  Borrowers release (renderWithCDP defers Release)   *)
(* and every render has a deadline (Render wraps ctx in WithTimeout), and  *)
(* an armed timer fires.  New calls, Close and crashes need not happen.    *)
(***************************************************************************)
Fairness ==
  /\ \A c \in Callers : /\ WF_vars(CallerStep(c))
                        /\ WF_vars(ReleaseStep(c))
                        /\ WF_vars(Cancel(c))
  /\ \A t \in Threads : WF_vars(RetireStep(t))
  /\ \A e \in Expirers : WF_vars(ExpireStep(e))
  /\ WF_vars(\E e \in Expirers : TimerFire(e))
  /\ \A k \in Closers : WF_vars(CloseRetry(k))

FairSpec == Spec /\ Fairness

-----------------------------------------------------------------------------
(* Properties *)

\* The type of the state: browserRuntime's fields and the goroutines' locals.
TypeOK ==
  /\ process \in Procs \cup {NoProc}
  /\ path \in Paths \cup {NoPath}
  /\ active \in Int /\ uses \in Int
  /\ busy \in BOOLEAN /\ retiring \in BOOLEAN
  /\ closed \in BOOLEAN /\ err \in BOOLEAN
  /\ idle \in Procs \cup {NoProc}
  /\ pc \in [Threads -> PcValues]
  /\ proc \in [Threads -> Procs \cup {NoProc}]
  /\ want \in [Callers -> Paths \cup {NoPath}]
  /\ failed \in [Threads -> BOOLEAN]
  /\ cancelled \in [Callers -> BOOLEAN]
  /\ native \subseteq Procs
  /\ tainted \subseteq Procs

Leases == {c \in Callers : pc[c] = "leased"}

\* "It owns at most one native browser": counting the one being started, the
\* one being retired and the one of a dump-DOM capture (lines 32-33, 201-202).
OneNativeBrowser == \A p, q \in native : p = q

\* Retirement never takes a browser from under an active borrower: while the
\* runtime is open every lease is of the process the runtime still holds.
BorrowersKeepTheirBrowser ==
  \A c \in Leases : closed \/ (proc[c] = process /\ ~busy)

ActiveCountsLeases == active = Cardinality(Leases)

\* The two limits: never more leases than MaxConcurrency nor more acquisitions
\* of one process than MaxUses, and r.active counts exactly the live leases.
LimitsRespected ==
  /\ ActiveCountsLeases
  /\ active <= MaxConcurrency
  /\ process # NoProc => active <= uses /\ uses <= MaxUses

\* A parked Acquire or CaptureDOM always has somebody who will notify it: a
\* goroutine holding the reservation, or a lease; and nobody stays parked in a
\* closed runtime.
NoLostWakeup ==
  /\ \A c \in Callers : pc[c] \in {"wait", "capWait"} =>
       ~closed /\ (busy \/ active > 0)
  /\ \A k \in Closers : pc[k] = "closeWait" => busy

\* A browser nobody uses is never forgotten: its idle timer is armed, or has
\* fired and its goroutine is about to retire it.
IdleBrowserHasTimer ==
  process # NoProc /\ active = 0 =>
    \/ idle = process
    \/ \E e \in Expirers : pc[e] = "expire" /\ proc[e] = process

\* r.retiring is only ever set on a process that is still lent: the release of
\* its last lease retires it, so no flag is left for the next process.
RetiringIsLent == retiring => process # NoProc /\ active > 0

\* Once a Close has returned no native browser exists and none ever will.
ClosedMeansGone ==
  (\E k \in Closers : pc[k] = "closed") => native = {} /\ process = NoProc

\* "An unhealthy process retires after its existing leases finish; no new lease
\* can borrow it": nor can anybody borrow from a closed or poisoned runtime.
HealthyStep ==
  \A c \in Callers : pc[c] # "leased" /\ pc'[c] = "leased" =>
    /\ proc'[c] \notin tainted
    /\ ~closed /\ ~err
LendsOnlyHealthy == [][HealthyStep]_vars

\* Close returns, even when borrowers hold leases and a start is in flight.
CloseReturns == \A k \in Closers : pc[k] \in {"closing", "closeWait", "retire"}
                                     ~> pc[k] = "closed"

\* Every Acquire and CaptureDOM ends: with a lease, a page or an error.
CallsReturn == \A c \in Callers : pc[c] \notin {"idle", "leased"}
                                    ~> pc[c] \in {"idle", "leased"}

\* A browser without leases is retired unless somebody borrows it again.
IdleBrowserRetired ==
  (process # NoProc /\ active = 0) ~> (process = NoProc \/ active > 0)

\* "retires the browser after 30 seconds without leases": the browser expires
\* by the timer armed at the last release, not by one an Acquire had stopped.
ExpiresByCurrentTimer ==
  [][\A e \in Expirers : pc[e] = "expire" /\ pc'[e] = "retire" =>
       idle = NoProc]_vars
-----------------------------------------------------------------------------
(* The runtime implements the pool of BrowserPool. *)

Pool == INSTANCE BrowserPool WITH
  slot <- IF busy THEN "reserved" ELSE IF process # NoProc THEN "open" ELSE "vacant",
  borrowers <- Leases,
  shut <- closed

\* Every step of the goroutines is a step of the single-slot lease pool that the
\* interface comments of browser_runtime.go (lines 23-33) describe.
ImplementsPool == Pool!PoolSpec

-----------------------------------------------------------------------------
(* The inductive invariant behind the safety properties. *)

\* One goroutine at a time holds the reservation, which is what r.busy means,
\* and a native process belongs to the runtime or to that goroutine.
SlotInv ==
  /\ busy <=> \E t \in Threads : pc[t] \in Reserving
  /\ \A s, t \in Threads : pc[s] \in Reserving /\ pc[t] \in Reserving => s = t
  /\ busy \/ closed => process = NoProc
  /\ \A p \in native : \/ p = process
                       \/ \E t \in Threads : pc[t] \in Reserving /\ proc[t] = p
  /\ \A t \in Threads :
       /\ pc[t] \in {"starting", "launched"} => proc[t] # NoProc
       /\ pc[t] \in {"launch", "retired", "launchFailed", "capReady", "capDone"}
            => native = {}

LeaseInv ==
  /\ \A c \in Leases : proc[c] # NoProc
  /\ BorrowersKeepTheirBrowser
  /\ LimitsRespected
  /\ RetiringIsLent

CloseInv ==
  /\ \A k \in Closers : pc[k] # "idle" => closed
  /\ (\E k \in Closers : pc[k] = "closed") =>
       /\ native = {}
       /\ \A t \in Threads : pc[t] \notin {"launch", "capRetire", "capReady"}

HealthInv ==
  /\ process \in tainted => retiring
  /\ \A t \in Threads :
       /\ pc[t] \in {"launch", "starting", "launched"} => ~err
       /\ pc[t] \in {"starting", "launched"} => closed \/ proc[t] \notin tainted

\* Inductive: implies every safety invariant above, and is preserved by Next.
IndInv ==
  /\ TypeOK /\ SlotInv /\ LeaseInv /\ CloseInv /\ HealthInv
  /\ NoLostWakeup /\ IdleBrowserHasTimer
=============================================================================
