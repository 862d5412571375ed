---------------------------- MODULE MCRedigoPool ----------------------------
(***************************************************************************)
(* Small instances of RedigoPool for TLC.                                  *)
(***************************************************************************)
EXTENDS RedigoPool, TLC

\* Goroutines are alike and so are sockets: used in the runs that check only
\* invariants.
Symmetry == Permutations(Threads) \cup Permutations(Conns)
=============================================================================
