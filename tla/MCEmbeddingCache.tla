-------------------------- MODULE MCEmbeddingCache --------------------------
(* The processes and callers of the runs of EmbeddingCache.                *)
EXTENDS EmbeddingCache, TLC

CONSTANTS a, b, p

\* both callers are goroutines of one process
OneProcess == a :> p @@ b :> p

\* one caller alone
OneCaller == a :> p
=============================================================================
