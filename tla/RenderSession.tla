--------------------------- MODULE RenderSession ----------------------------
(***************************************************************************)
(* Renders over one browser runtime (internal/rendering).  Render borrows  *)
(* the browser, opens an isolated context over a CDP connection, navigates *)
(* and takes a snapshot, disposes of the context and returns the browser,  *)
(* saying whether it may be lent again.  Whatever fails on the way, unless *)
(* the runtime is closed or the time is up, it falls back to a browser     *)
(* process of its own that prints the DOM.                                 *)
(*                                                                         *)
(* The runtime is BrowserPool, which BrowserRuntime is shown to implement; *)
(* here its callers are added.  NetworkCollector is the settle phase.      *)
(***************************************************************************)
EXTENDS Naturals, FiniteSets

CONSTANTS
  Renders,
  BrowserLimit,   \* BrowserLimits.MaxConcurrency
  MaxLosses       \* BOUND: commands that fail, connections and browsers lost

VARIABLES
  browserSlot, borrowers, shut,  \* the runtime, as its callers see it
  worn,       \* the browser must not be lent again
  doing,      \* where each render stands
  linkedUp,   \* its CDP connection is open
  contexts,   \* the renders that have a context in the browser
  fit,        \* healthy: the render vouches for the browser
  caught,     \* it has a snapshot
  failed,     \* the CDP attempt has returned an error
  timedOut,   \* its context is done
  outcome,    \* what Render returned
  losses

poolState == <<browserSlot, borrowers, shut>>
own == <<linkedUp, contexts, fit, caught, failed, timedOut, outcome, losses>>
renderVars == <<poolState, worn, doing, own>>

Pool == INSTANCE BrowserPool WITH slot <- browserSlot, Callers <- Renders, MaxConcurrency <- BrowserLimit

None == [q \in Renders |-> FALSE]

RenderInit ==
  /\ Pool!PoolInit /\ worn = FALSE /\ doing = [q \in Renders |-> "acquire"]
  /\ linkedUp = None /\ contexts = {} /\ fit = None /\ caught = None /\ failed = None
  /\ timedOut = None /\ outcome = [q \in Renders |-> "none"] /\ losses = 0

Turns(q, to) == doing' = [doing EXCEPT ![q] = to]
LoseOne == losses < MaxLosses /\ losses' = losses + 1

\* The timeout, the caller's context, or the runtime's, whose end cancels
\* the render's own.
TimeOver(q) == timedOut[q] \/ shut

-----------------------------------------------------------------------------
(* Acquire and release *)

\* An idle browser that is worn is retired first; the slot is then reserved
\* until the new browser is there.
StartBrowser(q) ==
  /\ doing[q] = "acquire" /\ ~TimeOver(q) /\ (browserSlot = "open" => worn)
  /\ Pool!Reserve /\ Turns(q, "launch") /\ contexts' = {} /\ worn' = FALSE
  /\ UNCHANGED <<linkedUp, fit, caught, failed, timedOut, outcome, losses>>

Launched(q) ==
  /\ doing[q] = "launch"
  /\ \/ Pool!Open(q) /\ Turns(q, "dial") /\ UNCHANGED <<failed, losses>>
     \/ /\ Pool!Vacate /\ IF TimeOver(q) THEN UNCHANGED losses ELSE LoseOne
        /\ failed' = [failed EXCEPT ![q] = TRUE] /\ Turns(q, "decide")
  /\ UNCHANGED <<worn, linkedUp, contexts, fit, caught, timedOut, outcome>>

Borrow(q) ==
  /\ doing[q] = "acquire" /\ ~TimeOver(q) /\ ~worn /\ Pool!Lend(q) /\ Turns(q, "dial")
  /\ UNCHANGED <<worn, own>>

\* A waiting call is refused when its time is up or the runtime closes.
Refused(q) ==
  /\ doing[q] = "acquire" /\ TimeOver(q)
  /\ Turns(q, "decide") /\ failed' = [failed EXCEPT ![q] = TRUE]
  /\ UNCHANGED <<poolState, worn, linkedUp, contexts, fit, caught, timedOut, outcome, losses>>

\* The last borrower of a worn browser retires it before it goes on, and
\* the retirement may fail.  A browser that has been lent often enough is
\* worn, too.  A closed runtime has taken the browser already.
Release(q) ==
  /\ doing[q] = "release"
  /\ \E old \in BOOLEAN : worn' = (browserSlot = "open" /\ (worn \/ ~fit[q] \/ old))
  /\ IF worn' /\ borrowers = {q} THEN Pool!ReturnAndReserve(q) ELSE Pool!Return(q)
  /\ Turns(q, IF browserSlot' = "reserved" /\ ~shut THEN "retire" ELSE "decide")
  /\ UNCHANGED own

Retire(q) ==
  /\ doing[q] = "retire" /\ contexts' = {} /\ worn' = FALSE
  /\ IF shut THEN UNCHANGED poolState ELSE Pool!Vacate
  /\ \/ UNCHANGED <<failed, losses>>
     \/ LoseOne /\ failed' = [failed EXCEPT ![q] = TRUE]
  /\ Turns(q, "decide") /\ UNCHANGED <<linkedUp, fit, caught, timedOut, outcome>>

-----------------------------------------------------------------------------
(* The session *)

\* The commands before the snapshot, in order; those of the last two are
\* each several commands that fail as one.
After == [dial |-> "context", context |-> "target", target |-> "attach", attach |-> "navigate",
          navigate |-> "settle", settle |-> "snapshot"]

\* Attaching, the user agent and the navigation must succeed; enabling the
\* domains and settling may fail and do not stop the render.
Command(q) ==
  /\ doing[q] \in DOMAIN After
  /\ doing[q] = "settle" \/ (~TimeOver(q) /\ (doing[q] # "dial" => linkedUp[q]))
  /\ Turns(q, After[doing[q]])
  /\ linkedUp' = IF doing[q] = "dial" THEN [linkedUp EXCEPT ![q] = TRUE] ELSE linkedUp
  /\ contexts' = IF doing[q] = "context" THEN contexts \cup {q} ELSE contexts
  /\ UNCHANGED <<poolState, worn, fit, caught, failed, timedOut, outcome, losses>>

TakeSnapshot(q) ==
  /\ doing[q] = "snapshot" /\ ~TimeOver(q) /\ linkedUp[q]
  /\ fit' = [fit EXCEPT ![q] = TRUE] /\ caught' = [caught EXCEPT ![q] = TRUE]
  /\ Turns(q, "dispose")
  /\ UNCHANGED <<poolState, worn, linkedUp, contexts, failed, timedOut, outcome, losses>>

\* A command fails, or gets no answer in time, which may close the
\* connection; the browser may have made the context all the same.
CommandFails(q) ==
  /\ doing[q] \in (DOMAIN After \ {"settle"}) \cup {"snapshot"}
  /\ \/ (TimeOver(q) \/ (~linkedUp[q] /\ doing[q] # "dial")) /\ UNCHANGED losses
     \/ ~TimeOver(q) /\ LoseOne
  /\ linkedUp' \in {linkedUp, [linkedUp EXCEPT ![q] = FALSE]}
  /\ \/ contexts' = contexts
     \/ doing[q] = "context" /\ browserSlot = "open" /\ contexts' = contexts \cup {q}
  /\ failed' = [failed EXCEPT ![q] = TRUE]
  /\ Turns(q, IF doing[q] \in {"dial", "context"} THEN "hangup" ELSE "dispose")
  /\ UNCHANGED <<poolState, worn, fit, caught, timedOut, outcome>>

\* Mutant of DisposeFails: the browser is still vouched for.
DisposeFailsFit(q) ==
  /\ doing[q] = "dispose" /\ (linkedUp[q] => LoseOne) /\ (~linkedUp[q] => UNCHANGED losses)
  /\ failed' = [failed EXCEPT ![q] = TRUE]
  /\ Turns(q, "hangup")
  /\ UNCHANGED <<poolState, worn, fit, linkedUp, contexts, caught, timedOut, outcome>>

\* Disposing has a second of its own, whatever has become of the render's
\* context; when it fails, so does the attempt, snapshot or not.
DisposeFails(q) ==
  /\ doing[q] = "dispose" /\ (linkedUp[q] => LoseOne) /\ (~linkedUp[q] => UNCHANGED losses)
  /\ failed' = [failed EXCEPT ![q] = TRUE] /\ fit' = [fit EXCEPT ![q] = FALSE]
  /\ Turns(q, "hangup")
  /\ UNCHANGED <<poolState, worn, linkedUp, contexts, caught, timedOut, outcome>>

Dispose(q) ==
  /\ doing[q] = "dispose" /\ linkedUp[q] /\ contexts' = contexts \ {q} /\ Turns(q, "hangup")
  /\ UNCHANGED <<poolState, worn, linkedUp, fit, caught, failed, timedOut, outcome, losses>>

HangUp(q) ==
  /\ doing[q] = "hangup" /\ linkedUp' = [linkedUp EXCEPT ![q] = FALSE] /\ Turns(q, "release")
  /\ UNCHANGED <<poolState, worn, contexts, fit, caught, failed, timedOut, outcome, losses>>

-----------------------------------------------------------------------------
(* The result, and the fallback *)

Returns(q, what) == outcome' = [outcome EXCEPT ![q] = what] /\ Turns(q, "done")

Conclude(q) ==
  /\ doing[q] = "decide"
  /\ IF ~failed[q] THEN Returns(q, "page")
     ELSE IF shut THEN Returns(q, "closed")
     ELSE IF timedOut[q] THEN Returns(q, "ended")
     ELSE Turns(q, "fallback") /\ UNCHANGED outcome
  /\ UNCHANGED <<poolState, worn, linkedUp, contexts, fit, caught, failed, timedOut, losses>>

\* The fallback waits until it has the slot for itself.
Capture(q) ==
  /\ doing[q] = "fallback" /\ ~TimeOver(q) /\ Pool!Reserve /\ Turns(q, "capture")
  /\ contexts' = {} /\ worn' = FALSE
  /\ UNCHANGED <<linkedUp, fit, caught, failed, timedOut, outcome, losses>>

CaptureRefused(q) ==
  /\ doing[q] = "fallback" /\ TimeOver(q) /\ Returns(q, IF shut THEN "closed" ELSE "ended")
  /\ UNCHANGED <<poolState, worn, linkedUp, contexts, fit, caught, failed, timedOut, losses>>

Captured(q) ==
  /\ doing[q] = "capture" /\ Pool!Vacate
  /\ \/ Returns(q, "degraded") /\ UNCHANGED losses
     \/ Returns(q, "error") /\ IF TimeOver(q) THEN UNCHANGED losses ELSE LoseOne
  /\ UNCHANGED <<worn, linkedUp, contexts, fit, caught, failed, timedOut>>

-----------------------------------------------------------------------------
(* The environment *)

TimeUp(q) ==
  /\ doing[q] # "done" /\ ~timedOut[q] /\ timedOut' = [timedOut EXCEPT ![q] = TRUE]
  /\ UNCHANGED <<poolState, worn, doing, linkedUp, contexts, fit, caught, failed, outcome, losses>>

\* The browser drops the connection: it crashed, or the answer was larger
\* than the connection reads.  It drops the contexts of a connection that is
\* gone (disposeOnDetach) when it notices.
Disconnect(q) ==
  /\ linkedUp[q] /\ LoseOne /\ linkedUp' = [linkedUp EXCEPT ![q] = FALSE]
  /\ UNCHANGED <<poolState, worn, doing, contexts, fit, caught, failed, timedOut, outcome>>

Detached(q) ==
  /\ q \in contexts /\ ~linkedUp[q] /\ contexts' = contexts \ {q}
  /\ UNCHANGED <<poolState, worn, doing, linkedUp, fit, caught, failed, timedOut, outcome, losses>>

\* The runtime closes: the browser is killed, or the operation that has the
\* slot is awaited.
CloseRuntime ==
  /\ ~shut /\ Pool!Shut
  /\ linkedUp' = None /\ contexts' = {} /\ worn' = FALSE
  /\ UNCHANGED <<doing, fit, caught, failed, timedOut, outcome, losses>>

RenderStep(q) ==
  \/ StartBrowser(q) \/ Launched(q) \/ Borrow(q) \/ Refused(q) \/ Release(q) \/ Retire(q)
  \/ Command(q) \/ TakeSnapshot(q) \/ CommandFails(q) \/ DisposeFails(q) \/ Dispose(q) \/ HangUp(q)
  \/ Conclude(q) \/ Capture(q) \/ CaptureRefused(q) \/ Captured(q)

RenderNext ==
  \/ \E q \in Renders : RenderStep(q) \/ TimeUp(q) \/ Disconnect(q) \/ Detached(q)
  \/ CloseRuntime

RenderSpec == RenderInit /\ [][RenderNext]_renderVars
FairRenderSpec == RenderSpec /\ \A q \in Renders : WF_renderVars(RenderStep(q))

-----------------------------------------------------------------------------
\* "Every render creates a fresh CDP browser context" (rendering/runtime.go:13):
\* a browser that will be lent again holds no context of a render that has
\* returned it, whatever failed in that render.
FreshInv == browserSlot = "open" /\ ~worn => contexts \subseteq borrowers

\* A page that is not degraded was seen, its context disposed of and its
\* browser returned without an error.
PageInv ==
  \A q \in Renders : outcome[q] = "page" => caught[q] /\ fit[q] /\ ~failed[q] /\ q \notin contexts

\* The fallback runs alone: no render keeps the browser it has given up, so
\* renders that fall back together cannot wait for one another.
AloneInv ==
  \A q \in Renders :
    /\ doing[q] = "capture" => browserSlot = "reserved" /\ borrowers = {}
    /\ doing[q] \in {"decide", "fallback", "capture", "done"} => q \notin borrowers /\ ~linkedUp[q]
    /\ outcome[q] = "closed" => shut
    /\ outcome[q] = "degraded" => failed[q]

SessionInv == FreshInv /\ PageInv /\ AloneInv

-----------------------------------------------------------------------------
(* The inductive invariant behind them. *)

\* A render that has the slot to itself, and one that has a lease.
Holding == {"launch", "retire", "capture"}
InSession == {"dial", "context", "target", "attach", "navigate", "settle", "snapshot",
              "dispose", "hangup", "release"}

RenderTypeOK ==
  /\ browserSlot \in {"vacant", "open", "reserved"} /\ borrowers \subseteq Renders
  /\ shut \in BOOLEAN /\ worn \in BOOLEAN /\ contexts \subseteq Renders /\ losses \in Nat
  /\ doing \in [Renders -> Holding \cup InSession \cup {"acquire", "decide", "fallback", "done"}]
  /\ linkedUp \in [Renders -> BOOLEAN] /\ fit \in [Renders -> BOOLEAN]
  /\ caught \in [Renders -> BOOLEAN] /\ failed \in [Renders -> BOOLEAN]
  /\ timedOut \in [Renders -> BOOLEAN]
  /\ outcome \in [Renders -> {"none", "page", "closed", "ended", "degraded", "error"}]

\* The slot has one holder, and a browser is held by those that borrow it.
HoldInv ==
  /\ borrowers # {} /\ ~shut => browserSlot = "open"
  /\ \A q \in Renders :
       /\ doing[q] \in InSession <=> q \in borrowers
       /\ linkedUp[q] => doing[q] \in InSession \ {"dial", "release"}
       /\ doing[q] \in Holding =>
            /\ browserSlot = "reserved" /\ borrowers = {}
            /\ \A p \in Renders : doing[p] \in Holding => p = q
       /\ doing[q] = "launch" => contexts = {} /\ ~worn

\* Who vouches for the browser has disposed of its context.
FitInv ==
  \A q \in Renders :
    /\ doing[q] \in {"acquire", "launch"} \cup DOMAIN After \cup {"snapshot"} => ~fit[q]
    /\ doing[q] \in {"hangup", "release"} /\ fit[q] => q \notin contexts
    /\ doing[q] \in {"dispose", "hangup", "release", "retire", "decide"} /\ ~failed[q] =>
         /\ caught[q] /\ fit[q]
         /\ doing[q] # "dispose" => q \notin contexts
    /\ doing[q] \in {"fallback", "capture"} => failed[q]
    /\ outcome[q] # "none" => doing[q] = "done"

\* What renders keep together (rendering_cdp.go:48).
RenderInd == RenderTypeOK /\ HoldInv /\ FitInv /\ SessionInv

RendersEnded == \A q \in Renders : doing[q] = "done"
=============================================================================
