------------------------------ MODULE Acquirer ------------------------------
(***************************************************************************)
(* Page acquisition: Acquirer.Acquire (internal/pipeline/acquire.go).      *)
(*                                                                         *)
(* A call is a chain of attempts: the first, one more with the retry       *)
(* profile when the site blocks, one more with a longer timeout when time  *)
(* ran out, and up to MaxHops for client side redirects.  Every attempt    *)
(* reserves a slot of its host under the lock of globalPacingState and     *)
(* waits for it outside, then sends one GET, or two when the impersonating *)
(* client (req) fails in a way the plain client may not.                   *)
(*                                                                         *)
(* The calls of one process run together.  Time is discrete; a timer that  *)
(* is due is served before time goes on (Tick), the idealisation under     *)
(* which the gaps between the requests can be stated at all.               *)
(***************************************************************************)
EXTENDS Integers

CONSTANTS
  Callers,       \* calls of Acquire, each made once
  Hosts,
  MinGap,        \* per_host_min_gap_ms
  MaxJitter,     \* per_host_jitter_ms, and the jitter of the backoffs
  Backoff,       \* blocked_retry_backoff_ms and timeout_retry_backoff_ms
  Timeout,       \* runtime.timeout_ms
  LongTimeout,   \* expandedTimeout of it
  MaxHops,       \* client side redirects followed (the code's 3)
  Links,         \* where client side redirects lead
  Inputs,        \* what the calls may ask for
  Horizon        \* bound: no later time is looked at

ASSUME AcquirerConstants ==
  /\ MinGap \in Nat \ {0} /\ MaxJitter \in Nat /\ Backoff \in Nat
  /\ Timeout \in Nat \ {0} /\ LongTimeout \in Nat \ {0}
  /\ MaxHops \in Nat /\ Horizon \in Nat
  /\ Links \subseteq [host : Hosts, https : BOOLEAN]
  /\ Inputs \subseteq [target : [host : Hosts, https : BOOLEAN],
                       profile : {"standard", "browser_like", "hardened"},
                       retry : {"standard", "browser_like", "hardened", "none"},
                       deadline : Nat]

VARIABLES
  clock,
  lastSeen,   \* pacingState: the last slot given out per host, Never
  lastSent,   \* history: when the last paced GET to the host was sent
  at,         \* where each call is
  try,        \* the attempt it is in
  input,      \* its AcquireInput, profiles normalised, and its deadline
  target,     \* the URL of the attempt: host, and whether https
  profile,    \* the profile of the attempt
  slot,       \* the slot reserved for the attempt
  due,        \* when the timer it waits on fires
  hops,       \* redirects followed
  gets        \* history: GETs sent

acquireVars == <<clock, lastSeen, lastSent, at, try, input, target,
                 profile, slot, due, hops, gets>>

Never == -1
Targets == [host : Hosts, https : BOOLEAN]
Waits == {"pacing", "req", "http", "backoff"}
Places == Waits \cup {"idle", "reserve", "send", "page", "error"}
Tries == {"first", "blocked", "timeout", "redirect"}

AcquireInit ==
  /\ clock = 0
  /\ lastSeen = [h \in Hosts |-> Never] /\ lastSent = lastSeen
  /\ at = [c \in Callers |-> "idle"] /\ try = [c \in Callers |-> "first"]
  /\ input \in [Callers -> Inputs]
  /\ target = [c \in Callers |-> input[c].target]
  /\ profile = [c \in Callers |-> input[c].profile]
  /\ slot = [c \in Callers |-> Never] /\ due = [c \in Callers |-> 0]
  /\ hops = [c \in Callers |-> 0] /\ gets = [c \in Callers |-> 0]

Cancelled(c) == clock >= input[c].deadline

\* validateAcquireInput passes; the first attempt begins.
Acquire(c) ==
  /\ at[c] = "idle"
  /\ at' = [at EXCEPT ![c] = "reserve"]
  /\ UNCHANGED <<clock, lastSeen, lastSent, try, target, profile, slot, due,
                 hops, gets, input>>

\* Mutant of SlotFor: the gap is counted from the GET sent last, not from the
\* slot given out last.
SlotForSent(h, jitter) ==
  IF lastSent[h] # Never /\ lastSent[h] + MinGap + jitter > clock
    THEN lastSent[h] + MinGap + jitter
    ELSE clock

\* The slot an attempt gets: at once for a new host, or after the gap.
SlotFor(h, jitter) ==
  IF lastSeen[h] # Never /\ lastSeen[h] + MinGap + jitter > clock
    THEN lastSeen[h] + MinGap + jitter
    ELSE clock

\* Mutant of Reserve: the time of the reservation is kept, not the slot given.
ReserveNow(c, jitter) ==
  LET h == target[c].host
      given == SlotFor(h, jitter)
  IN /\ at[c] = "reserve"
     /\ lastSeen' = [lastSeen EXCEPT ![h] = clock]
     /\ slot' = [slot EXCEPT ![c] = given]
     /\ due' = [due EXCEPT ![c] = given]
     /\ at' = [at EXCEPT ![c] = IF given > clock THEN "pacing" ELSE "send"]
     /\ UNCHANGED <<clock, lastSent, try, target, profile, hops, gets, input>>

\* applyPerHostPacing, up to the unlock.
Reserve(c, jitter) ==
  LET h == target[c].host
      given == SlotFor(h, jitter)
  IN /\ at[c] = "reserve"
     /\ lastSeen' = [lastSeen EXCEPT ![h] = given]
     /\ slot' = [slot EXCEPT ![c] = given]
     /\ due' = [due EXCEPT ![c] = given]
     /\ at' = [at EXCEPT ![c] = IF given > clock THEN "pacing" ELSE "send"]
     /\ UNCHANGED <<clock, lastSent, try, target, profile, hops, gets, input>>

\* Sending a GET with the client for it arms the timer of requestContext.
Get(c, client) ==
  /\ at' = [at EXCEPT ![c] = client]
  /\ due' = [due EXCEPT ![c] =
               clock + (IF try[c] = "timeout" THEN LongTimeout ELSE Timeout)]
  /\ gets' = [gets EXCEPT ![c] = @ + 1]

Impersonates(c) == target[c].https /\ profile[c] # "standard"

\* The slot is reached, or was free: acquireAttempt sends its first GET.
Send(c) ==
  /\ at[c] = "send" \/ (at[c] = "pacing" /\ clock >= due[c])
  /\ Get(c, IF Impersonates(c) THEN "req" ELSE "http")
  /\ lastSent' = [lastSent EXCEPT ![target[c].host] = clock]
  /\ UNCHANGED <<clock, lastSeen, try, target, profile, slot, hops, input>>

\* acquireWithReq failed in a way shouldFallbackToHTTP names: a second GET,
\* in the same slot.
FallBack(c, error) ==
  /\ at[c] = "req" /\ error \in {"blocked", "protocol"}
  /\ Get(c, "http")
  /\ UNCHANGED <<clock, lastSeen, lastSent, try, target, profile, slot, hops,
                 input>>

Stay(c) == UNCHANGED <<clock, lastSeen, lastSent, target, slot, hops, gets, input>>

End(c, how) ==
  /\ at' = [at EXCEPT ![c] = how]
  /\ UNCHANGED <<try, profile, due>>
  /\ Stay(c)

\* sleepWithJitter before another attempt with a profile.
SleepBefore(c, next, with, jitter) ==
  /\ at' = [at EXCEPT ![c] = "backoff"]
  /\ try' = [try EXCEPT ![c] = next]
  /\ profile' = [profile EXCEPT ![c] = with]
  /\ due' = [due EXCEPT ![c] = clock + Backoff + jitter]
  /\ Stay(c)

\* The error of an attempt: a retry with the other profile, then one with
\* more time, unless the context is done.
Fail(c, error, jitter) ==
  LET blocked == try[c] = "first" /\ error = "blocked"
                 /\ input[c].retry # "none"
      timeout == try[c] \in {"first", "blocked"} /\ error = "deadline"
                 /\ ~Cancelled(c)
  IN \/ blocked /\ SleepBefore(c, "blocked", input[c].retry, jitter)
     \/ timeout /\ SleepBefore(c, "timeout", input[c].profile, jitter)
     \/ ~blocked /\ ~timeout /\ End(c, "error")

\* The response of a GET was not a page.  "blocked" is 403, 429 or 503,
\* "protocol" an HTTP/2 or TLS failure, "other" what is never retried.
GetFails(c, error, jitter) ==
  /\ at[c] = "http" \/ (at[c] = "req" /\ error = "other")
  /\ Fail(c, error, jitter)

\* The timer of requestContext, or the context of the call, fires.
GetTimesOut(c, jitter) ==
  /\ at[c] \in {"req", "http"} /\ (clock >= due[c] \/ Cancelled(c))
  /\ Fail(c, "deadline", jitter)

\* A page without a client side redirect, or one too many.
GetPage(c) ==
  /\ at[c] \in {"req", "http"}
  /\ End(c, "page")

\* followClientSideRedirects: another attempt, whose errors end the call.
GetRedirect(c, to) ==
  /\ at[c] \in {"req", "http"} /\ hops[c] < MaxHops
  /\ hops' = [hops EXCEPT ![c] = @ + 1]
  /\ target' = [target EXCEPT ![c] = to]
  /\ try' = [try EXCEPT ![c] = "redirect"]
  /\ at' = [at EXCEPT ![c] = "reserve"]
  /\ UNCHANGED <<clock, lastSeen, lastSent, profile, slot, due, gets, input>>

BackoffEnds(c) ==
  /\ at[c] = "backoff" /\ clock >= due[c]
  /\ at' = [at EXCEPT ![c] = "reserve"]
  /\ UNCHANGED <<try, profile, due>> /\ Stay(c)

\* ctx.Done in sleepWithJitter or in applyPerHostPacing, whose slot stays
\* taken.
WaitCancelled(c) ==
  /\ at[c] \in {"pacing", "backoff"} /\ Cancelled(c)
  /\ End(c, "error")

\* Whether a call has something to do now.
Due(c) == \/ at[c] \in {"reserve", "send"}
          \/ at[c] \in Waits /\ (clock >= due[c] \/ Cancelled(c))

Tick ==
  /\ clock < Horizon /\ \A c \in Callers : ~Due(c)
  /\ clock' = clock + 1
  /\ UNCHANGED <<lastSeen, lastSent, at, try, target, profile, slot, due,
                 hops, gets, input>>

\* What the site answers, when it does.
Answer(c) ==
  \/ GetPage(c)
  \/ \E to \in Links : GetRedirect(c, to)
  \/ \E error \in {"blocked", "protocol"} : FallBack(c, error)
  \/ \E error \in {"blocked", "protocol", "other"}, jitter \in 0..MaxJitter :
       GetFails(c, error, jitter)

\* What the call does by itself.
Go(c) ==
  \/ Send(c) \/ BackoffEnds(c) \/ WaitCancelled(c)
  \/ \E jitter \in 0..MaxJitter : Reserve(c, jitter) \/ GetTimesOut(c, jitter)

AcquireNext == Tick \/ \E c \in Callers : Acquire(c) \/ Answer(c) \/ Go(c)

\* The scheduler runs a call that can go on, and time passes; a site need
\* never answer.
AcquireSpec == AcquireInit /\ [][AcquireNext]_acquireVars
FairAcquireSpec ==
  /\ AcquireSpec /\ WF_acquireVars(Tick)
  /\ \A c \in Callers : WF_acquireVars(Go(c))

-----------------------------------------------------------------------------
(* Properties. *)

AcquireTypeOK ==
  /\ clock \in Nat
  /\ lastSeen \in [Hosts -> Nat \cup {Never}]
  /\ lastSent \in [Hosts -> Nat \cup {Never}]
  /\ at \in [Callers -> Places] /\ try \in [Callers -> Tries]
  /\ input \in [Callers -> Inputs] /\ target \in [Callers -> Targets]
  /\ profile \in [Callers -> {"standard", "browser_like", "hardened", "none"}]
  /\ slot \in [Callers -> Nat \cup {Never}] /\ due \in [Callers -> Nat]
  /\ hops \in [Callers -> 0..MaxHops] /\ gets \in [Callers -> Nat]

Waiting(c) == at[c] \in {"pacing", "send"}

\* A slot that is waited for is not past, is not later than the last slot
\* given out, and keeps its gap to the GET sent last.
SlotInv ==
  \A c \in Callers : Waiting(c) =>
    LET h == target[c].host
    IN /\ clock <= slot[c] /\ slot[c] <= lastSeen[h]
       /\ at[c] = "pacing" => due[c] = slot[c]
       /\ at[c] = "send" => slot[c] = clock
       /\ lastSent[h] # Never => slot[c] >= lastSent[h] + MinGap

\* The slots of two attempts that wait for one host are MinGap apart, which
\* of them asked first and whatever was cancelled in between.
SlotsSpaced ==
  \A c, d \in Callers :
    c # d /\ Waiting(c) /\ Waiting(d) /\ target[c].host = target[d].host
    => slot[c] >= slot[d] + MinGap \/ slot[d] >= slot[c] + MinGap

SentInv ==
  \A h \in Hosts : lastSent[h] # Never => lastSent[h] <= lastSeen[h]

\* The attempt a call is in, counted from the first.
AttemptsUpTo(c) ==
  [first |-> 1, blocked |-> 2, timeout |-> 3, redirect |-> 3 + hops[c]][try[c]]

\* Both clients have been used in every attempt before, and in this one
\* when it is with the plain client.
Allowed(c) ==
  2 * AttemptsUpTo(c)
  - (IF at[c] \in {"idle", "reserve", "pacing", "send", "backoff"} THEN 2
     ELSE IF at[c] = "req" THEN 1 ELSE 0)

EffortInv == \A c \in Callers : gets[c] <= Allowed(c)

\* What the steps of every call preserve together: the slots, and the bound
\* of retries, fallbacks and redirects on the GETs of one call.
AcquireInd == AcquireTypeOK /\ SlotInv /\ SlotsSpaced /\ SentInv /\ EffortInv

\* A call sends at most two GETs for each of three attempts and MaxHops
\* redirects (acquire.go:52).
EffortBounded == \A c \in Callers : gets[c] <= 2 * (3 + MaxHops)

\* A GET that waited for its slot is sent MinGap at least after the last one
\* to its host, one sent in the same tick included, over all calls, retries
\* and redirects (acquire.go:317).
PacedSends ==
  [][\A c \in Callers :
       Send(c) /\ lastSent[target[c].host] # Never
       => clock >= lastSent[target[c].host] + MinGap]_acquireVars

\* The calls made so far have returned, with a page or an error.
AcquireEnded == \A c \in Callers : at[c] \in {"idle", "page", "error"}
=============================================================================
