---------------------------- MODULE BrowserPool ----------------------------
(***************************************************************************)
(* What the browser runtime promises its callers, without goroutines,      *)
(* processes, timers or wake-ups: one slot that is vacant, open to a       *)
(* bounded set of borrowers, or reserved by one operation that starts,     *)
(* retires or replaces the browser; and a shutdown after which it is lent  *)
(* to nobody.  Internal/platform/browser_runtime.go, lines 23-33.          *)
(***************************************************************************)
EXTENDS Naturals, FiniteSets

CONSTANTS Callers, MaxConcurrency

VARIABLES slot, borrowers, shut

poolVars == <<slot, borrowers, shut>>

PoolInit == slot = "vacant" /\ borrowers = {} /\ shut = FALSE

\* An operation takes the slot for itself: only when nobody borrows the browser.
Reserve ==
  /\ slot # "reserved" /\ borrowers = {} /\ ~shut
  /\ slot' = "reserved"
  /\ UNCHANGED <<borrowers, shut>>

\* The reserved slot is given back empty.
Vacate ==
  /\ slot = "reserved"
  /\ slot' = "vacant"
  /\ UNCHANGED <<borrowers, shut>>

\* The reserved slot is given back with a browser lent to its first borrower.
Open(c) ==
  /\ slot = "reserved" /\ borrowers = {} /\ ~shut
  /\ slot' = "open"
  /\ borrowers' = {c}
  /\ UNCHANGED shut

Lend(c) ==
  /\ slot = "open" /\ ~shut
  /\ c \notin borrowers /\ Cardinality(borrowers) < MaxConcurrency
  /\ borrowers' = borrowers \cup {c}
  /\ UNCHANGED <<slot, shut>>

Return(c) ==
  /\ c \in borrowers
  /\ borrowers' = borrowers \ {c}
  /\ UNCHANGED <<slot, shut>>

\* The last borrower returns a browser that must not be lent again.
ReturnAndReserve(c) ==
  /\ borrowers = {c} /\ slot = "open" /\ ~shut
  /\ borrowers' = {}
  /\ slot' = "reserved"
  /\ UNCHANGED shut

\* Shutdown takes the browser from everybody, now or once the slot is free.
Shut ==
  /\ shut' = TRUE
  /\ slot' = "reserved"
  /\ UNCHANGED borrowers

\* Each of several shutdowns reserves the slot, vacant by then, once more.
Seal ==
  /\ shut /\ slot = "vacant"
  /\ slot' = "reserved"
  /\ UNCHANGED <<borrowers, shut>>

PoolNext ==
  \/ Reserve \/ Vacate \/ Shut \/ Seal
  \/ \E c \in Callers : Open(c) \/ Lend(c) \/ Return(c) \/ ReturnAndReserve(c)

PoolSpec == PoolInit /\ [][PoolNext]_poolVars
=============================================================================
