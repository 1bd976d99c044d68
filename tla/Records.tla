------------------------------ MODULE Records -------------------------------
(***************************************************************************)
(* What is recorded of the runs of a state root (transport/runtime_ops.go, *)
(* transport/runtime_logging.go): each operation writes to the log while   *)
(* it runs and appends to the analytics when it is over.  The two share no *)
(* state, so that their steps come in any order.                           *)
(***************************************************************************)
EXTENDS RuntimeLog, Analytics

RecordsSpec == LogSpec /\ AnalyticsSpec

\* The log and the analytics keep what they promise, whichever process
\* rotates, appends, reports or exports meanwhile.
RecordsInv == LogInd /\ AnalyticsInd
=============================================================================
