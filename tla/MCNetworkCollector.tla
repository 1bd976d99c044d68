------------------------- MODULE MCNetworkCollector -------------------------
(* The pages the runs of NetworkCollector render.                          *)
EXTENDS NetworkCollector, TLC

CONSTANTS r1, r2, r3

\* a fetch and a stream read whole
BodiesPage == r1 :> "fetch" @@ r2 :> "stream"

\* a socket, an event source and a body that compete for the budgets
MixedPage == r1 :> "websocket" @@ r2 :> "eventsource" @@ r3 :> "fetch"
=============================================================================
