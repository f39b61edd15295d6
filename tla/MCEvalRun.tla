----------------------------- MODULE MCEvalRun -----------------------------
(* Every scenario once, in the order of SCENARIOS; d4 is a web demo.       *)
EXTENDS EvalRun

CONSTANTS d1, d2, d3, d4

ThePlan == <<d1, d2, d3>>
=============================================================================
