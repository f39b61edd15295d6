----------------------------- MODULE MCWebApp -----------------------------
(* The requests are alike.                                                 *)
EXTENDS WebApp, TLC

Symmetry == Permutations(Requests)
=============================================================================
