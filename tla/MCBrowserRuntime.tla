-------------------------- MODULE MCBrowserRuntime --------------------------
(* TLC instances of BrowserRuntime. *)
EXTENDS BrowserRuntime, TLC

\* Callers, closers, process identities and paths are interchangeable.
Symmetry == Permutations(Callers) \cup Permutations(Closers)
              \cup Permutations(Expirers) \cup Permutations(Procs)
              \cup Permutations(Paths)
=============================================================================
