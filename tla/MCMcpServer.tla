---------------------------- MODULE MCMcpServer ----------------------------
(* The configurations of the runs of McpServer.                            *)
EXTENDS McpServer, TLC

CONSTANTS a, b, c, x, y

\* two configurations share their render section
Shared == a :> x @@ b :> y @@ c :> x
=============================================================================
