----------------------------- MODULE MCHystrix -----------------------------
(* Hystrix for TLC: commands are interchangeable. *)
EXTENDS Hystrix, TLC

Symmetry == Permutations(Commands)
=============================================================================
