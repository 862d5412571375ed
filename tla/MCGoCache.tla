----------------------------- MODULE MCGoCache -----------------------------
(***************************************************************************)
(* Small instances of GoCache for TLC.                                     *)
(***************************************************************************)
EXTENDS GoCache, TLC

\* NoExpiration and DefaultExpiration.
SomeLifetimes == {-1, 0}

\* Goroutines, keys and objects are alike: used where only safety is checked.
Symmetry == Permutations(Users) \cup Permutations(Keys) \cup Permutations(Objects)
=============================================================================
