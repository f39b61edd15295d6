---------------------------- MODULE MCRuleAgent ----------------------------
(* Two requests of the web UI at once: one that is cut off after its first *)
(* turn, and one with the five that the playbook and its answer need.      *)
EXTENDS RuleAgent, TLC

CONSTANTS r1, r2

Budgets == r1 :> 1 @@ r2 :> 5
=============================================================================
