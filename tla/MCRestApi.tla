------------------------------- MODULE MCRestApi -------------------------------
(* RestApi for TLC: two Flask threads, two main loops. *)
EXTENDS RestApi, TLC

Symmetry == Permutations(Callers)
================================================================================
