-------------------------- MODULE MCEmbeddingPrune --------------------------
(* The process, caller and operator of the run of EmbeddingPrune.           *)
EXTENDS EmbeddingPrune, TLC

CONSTANTS a, p, operator

\* a caller in a process of its own, which shares the directory with operators
OneCaller == a :> p
=============================================================================
