---------------------------- MODULE MCToolCalls ----------------------------
(* Sessions and statements are interchangeable: no property names one.     *)
EXTENDS ToolCalls, TLC

GivenAges == {-1, 2, 3}

Symmetry == Permutations(Backends) \cup Permutations(Queries)
=============================================================================
