---------------------------- MODULE MCAgentLoop ----------------------------
(* Two requests at once: one with any provider, two turns of up to two     *)
(* calls, the other a scripted one of a single call.                       *)
EXTENDS Transcripts

CONSTANTS r1, r2

Budgets == (r1 :> 2) @@ (r2 :> 1)
Batch == (r1 :> 2) @@ (r2 :> 1)
Engines == (r1 :> Adapters) @@ (r2 :> {"scripted"})
=============================================================================
