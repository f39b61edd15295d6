----------------------------- MODULE AgentLoop -----------------------------
(***************************************************************************)
(* The agent loop (agent/loop.py: run) with the allowlist it calls through *)
(* (agent/mcp_client.py), the schema of its answer (agent/schemas.py) and  *)
(* the adapters that turn a provider's reply into a Turn (agent/llm.py).   *)
(*                                                                         *)
(* The web backend starts one run per request, in threads of their own, so *)
(* several runs share the tool server: its correlation ids and its audit   *)
(* log.  A tool is what DbaTool promises: it audits its call exactly once  *)
(* under a fresh id and answers with that id, whatever its status.  The    *)
(* model behind the provider is free: it asks for any tools with any       *)
(* arguments, and its final text claims and cites any ids.                 *)
(***************************************************************************)
EXTENDS Integers, Sequences, FiniteSets

CONSTANTS
  Runs,         \* the runs, one per request
  Providers,    \* the adapters each run may be given
  None,
  Invented,     \* stands for every id that no call of the run has
  MaxSteps,     \* max_steps of each request: its budget of turns
  MaxBatch,     \* bound on the tool calls of one turn of each run
  MaxFindings   \* bound on the findings of one diagnosis

Adapters == {"anthropic", "openai", "ollama", "scripted"}
Names == {"listed", "unlisted"}

ASSUME LoopAssumption ==
  /\ Providers \in [Runs -> SUBSET Adapters]
  /\ MaxSteps \in [Runs -> Nat] /\ MaxBatch \in [Runs -> Nat \ {0}] /\ MaxFindings \in Nat
  /\ Invented \notin Nat
  /\ None \notin Nat

VARIABLES
  provider,   \* the adapter of each run
  pc,         \* where each run is
  steps,      \* turns it has completed
  pending,    \* tool calls of the current turn still to be made
  results,    \* ids of the ToolResults collected in this turn
  transcript, \* the conversation: the call ids of each message, as _messages has it
  ids,        \* tool_call_ids, the ground truth of the run
  report,     \* the accepted Diagnosis, or None
  error,      \* RunResult.error, or None
  minted,     \* correlation ids the tool server has minted
  context,    \* the id of the call each run is waiting for
  log         \* the audit log: who called, under which id

runVars == <<provider, steps, pending, results, transcript, ids, report, error>>
serverVars == <<minted, context, log>>
vars == <<runVars, serverVars, pc>>

Init ==
  /\ provider = [r \in Runs |-> None]
  /\ pc = [r \in Runs |-> "idle"]
  /\ steps = [r \in Runs |-> 0]
  /\ pending = [r \in Runs |-> << >>]
  /\ results = [r \in Runs |-> << >>]
  /\ transcript = [r \in Runs |-> << >>]
  /\ ids = [r \in Runs |-> << >>]
  /\ report = [r \in Runs |-> None]
  /\ error = [r \in Runs |-> None]
  /\ minted = 0
  /\ context = [r \in Runs |-> None]
  /\ log = << >>

Goto(r, label) == pc' = [pc EXCEPT ![r] = label]

\* Mutant: one turn more than max_steps.
InBudgetLate(r) == steps[r] <= MaxSteps[r]

InBudget(r) == steps[r] < MaxSteps[r]

(* llm.start(): the adapter begins an empty transcript.                    *)
Start(r, p) ==
  /\ pc[r] = "idle"
  /\ provider' = [provider EXCEPT ![r] = p]
  /\ Goto(r, "turn")
  /\ UNCHANGED <<serverVars, steps, pending, results, transcript, ids, report, error>>

-----------------------------------------------------------------------------
(* What the adapters make of a reply.                                      *)

(* The arguments a model may send: the hosted SDK of Anthropic delivers    *)
(* objects, the others deliver text of the model's own making.             *)
Raws(p) ==
  IF p \in {"openai", "ollama"} THEN {"object", "broken", "null", "array"} ELSE {"object"}

(* Broken JSON becomes {}; null becomes {} except under OpenAI; any other  *)
(* JSON value goes through as it is.                                       *)
Parsed(p, raw) ==
  IF raw = "array" \/ (raw = "null" /\ p = "openai") THEN "other" ELSE "object"

(* A call has the provider's id, which is fresh, or the one that the       *)
(* Ollama adapter makes up from position and name (turn 0 here): it looks  *)
(* at each call for itself, and a reply may mix both.                      *)
CallId(turn, i, name) == <<turn, i, name>>

Turns(r) == {steps[r] + 1} \cup (IF provider[r] = "ollama" THEN {0} ELSE {})

Requests(p, turns) == Names \X {Parsed(p, raw) : raw \in Raws(p)} \X turns

Batches(r, p, turns) ==
  {[i \in 1..Len(q) |-> [id |-> CallId(q[i][3], i, q[i][1]), args |-> q[i][2]]]
    : q \in UNION {[1..n -> Requests(p, turns)] : n \in 1..MaxBatch[r]}}

Listed(c) == c.id[3] = "listed"
CallIds(b) == [i \in 1..Len(b) |-> b[i].id]

(* next_turn() comes back with tool calls: the assistant message is        *)
(* recorded with the ids that the results will have to name.               *)
AskTools(r) ==
  /\ pc[r] = "turn"
  /\ InBudget(r)
  /\ \E b \in Batches(r, provider[r], Turns(r)) :
       /\ pending' = [pending EXCEPT ![r] = b]
       /\ transcript' = [transcript EXCEPT ![r] =
            Append(@, [role |-> "assistant", ids |-> CallIds(b)])]
  /\ Goto(r, "calls")
  /\ UNCHANGED <<serverVars, provider, steps, results, ids, report, error>>

(* The text of a final answer, as far as the schema reads it: it fits or   *)
(* it does not, and then it claims calls and cites them as evidence.       *)
Answers(r) ==
  LET Nameable == {ids[r][i] : i \in 1..Len(ids[r])} \cup {Invented}
      Findings(n) == {{f[i] : i \in 1..n} : f \in [1..n -> SUBSET Nameable]}
  IN  {None} \cup [claimed : SUBSET Nameable,
                  findings : UNION {Findings(n) : n \in 0..MaxFindings}]

\* Mutant: the evidence is not compared with all_tool_calls.
AcceptedUnchecked(a) ==
  /\ a # None
  /\ \A e \in a.findings : e # {}

(* Finding and Diagnosis validate: every finding cites something, and      *)
(* nothing that all_tool_calls does not claim.                             *)
Accepted(a) ==
  /\ a # None
  /\ \A e \in a.findings : e # {} /\ e \subseteq a.claimed

(* next_turn() comes back with a final answer: the run returns.            *)
Finish(r) ==
  /\ pc[r] = "turn"
  /\ InBudget(r)
  /\ \E a \in Answers(r) :
       /\ report' = [report EXCEPT ![r] = IF Accepted(a) THEN a ELSE None]
       /\ error' = [error EXCEPT ![r] = IF Accepted(a) THEN None ELSE "schema"]
  /\ Goto(r, "done")
  /\ UNCHANGED <<serverVars, provider, steps, pending, results, transcript, ids>>

(* A turn with neither: a scripted LLM may produce it, the adapters not.   *)
GiveUp(r) ==
  /\ pc[r] = "turn"
  /\ InBudget(r)
  /\ provider[r] = "scripted"
  /\ error' = [error EXCEPT ![r] = "neither"]
  /\ Goto(r, "done")
  /\ UNCHANGED <<serverVars, provider, steps, pending, results, transcript, ids, report>>

(* next_turn() raises - network, quota, an exhausted script - and nothing  *)
(* in run() catches it: the caller gets no RunResult.                      *)
Fail(r) ==
  /\ pc[r] = "turn"
  /\ InBudget(r)
  /\ Goto(r, "raised")
  /\ UNCHANGED <<serverVars, runVars>>

\* Mutant: the budget is compared one turn too late.
ExhaustLate(r) ==
  /\ pc[r] = "turn"
  /\ steps[r] > MaxSteps[r]
  /\ error' = [error EXCEPT ![r] = "max_steps"]
  /\ Goto(r, "done")
  /\ UNCHANGED <<serverVars, provider, steps, pending, results, transcript, ids, report>>

Exhaust(r) ==
  /\ pc[r] = "turn"
  /\ steps[r] = MaxSteps[r]
  /\ error' = [error EXCEPT ![r] = "max_steps"]
  /\ Goto(r, "done")
  /\ UNCHANGED <<serverVars, provider, steps, pending, results, transcript, ids, report>>

-----------------------------------------------------------------------------
(* The calls of a turn, one after the other.                               *)

\* Mutant: a tool that is not on the allowlist is skipped, unanswered.
RefuseSilently(r) ==
  /\ pc[r] = "calls" /\ pending[r] # << >>
  /\ ~Listed(Head(pending[r]))
  /\ pending' = [pending EXCEPT ![r] = Tail(@)]
  /\ UNCHANGED <<serverVars, pc, provider, steps, results, transcript, ids, report, error>>

(* call_tool() of a name that is not on the allowlist: an envelope without *)
(* correlation id, made by the client alone, is the answer.                *)
Refuse(r) ==
  /\ pc[r] = "calls" /\ pending[r] # << >>
  /\ ~Listed(Head(pending[r]))
  /\ results' = [results EXCEPT ![r] = Append(@, Head(pending[r]).id)]
  /\ pending' = [pending EXCEPT ![r] = Tail(@)]
  /\ UNCHANGED <<serverVars, pc, provider, steps, transcript, ids, report, error>>

(* Unpacking arguments that are not a mapping into the call of a listed    *)
(* tool: TypeError, before the tool is entered, and out of run().          *)
Misfit(r) ==
  /\ pc[r] = "calls" /\ pending[r] # << >>
  /\ Listed(Head(pending[r])) /\ Head(pending[r]).args = "other"
  /\ Goto(r, "raised")
  /\ UNCHANGED <<serverVars, runVars>>

\* Mutant: one current id for the whole server.
MintShared(r) == context' = [q \in Runs |-> minted + 1]

Mint(r) == context' = [context EXCEPT ![r] = minted + 1]

(* The tool is entered: it mints an id in the context of this thread.      *)
Invoke(r) ==
  /\ pc[r] = "calls" /\ pending[r] # << >>
  /\ Listed(Head(pending[r])) /\ Head(pending[r]).args = "object"
  /\ minted' = minted + 1
  /\ Mint(r)
  /\ Goto(r, "tool")
  /\ UNCHANGED <<runVars, log>>

(* The tool audits the call under that id, whatever its outcome.           *)
Audit(r) ==
  /\ pc[r] = "tool"
  /\ log' = Append(log, [run |-> r, cid |-> context[r]])
  /\ Goto(r, "answer")
  /\ UNCHANGED <<runVars, minted, context>>

(* The envelope comes back: its id is kept, its content goes to the model. *)
Observe(r) ==
  /\ pc[r] = "answer"
  /\ ids' = [ids EXCEPT ![r] = Append(@, context[r])]
  /\ results' = [results EXCEPT ![r] = Append(@, Head(pending[r]).id)]
  /\ pending' = [pending EXCEPT ![r] = Tail(@)]
  /\ Goto(r, "calls")
  /\ UNCHANGED <<serverVars, provider, steps, transcript, report, error>>

(* submit_tool_results(): all the results of the turn, in one go.          *)
Submit(r) ==
  /\ pc[r] = "calls" /\ pending[r] = << >>
  /\ transcript' = [transcript EXCEPT ![r] =
       Append(@, [role |-> "tool", ids |-> results[r]])]
  /\ results' = [results EXCEPT ![r] = << >>]
  /\ steps' = [steps EXCEPT ![r] = @ + 1]
  /\ Goto(r, "turn")
  /\ UNCHANGED <<serverVars, provider, pending, ids, report, error>>

Step(r) ==
  \/ AskTools(r) \/ Finish(r) \/ GiveUp(r) \/ Fail(r) \/ Exhaust(r)
  \/ Refuse(r) \/ Misfit(r) \/ Invoke(r) \/ Audit(r) \/ Observe(r) \/ Submit(r)

Next == \E r \in Runs : Step(r) \/ \E p \in Providers[r] : Start(r, p)

Spec == Init /\ [][Next]_vars

(* A request that was accepted is executed: its thread is scheduled, the   *)
(* tools answer (statement_timeout) and so does the provider, with a reply *)
(* or an error - every client has a read timeout.                          *)
FairSpec == Spec /\ \A r \in Runs : WF_vars(Step(r))

-----------------------------------------------------------------------------
CallIdSet == Nat \X (Nat \ {0}) \X Names
Message == [role : {"assistant", "tool"}, ids : Seq(CallIdSet)]
IdSpace == Nat \cup {Invented}
Reports == [claimed : SUBSET IdSpace, findings : SUBSET SUBSET IdSpace]

TypeOK ==
  /\ provider \in [Runs -> Adapters \cup {None}]
  /\ pc \in [Runs -> {"idle", "turn", "calls", "tool", "answer", "done", "raised"}]
  /\ steps \in [Runs -> Nat] /\ \A r \in Runs : steps[r] <= MaxSteps[r]
  /\ pending \in [Runs -> Seq([id : CallIdSet, args : {"object", "other"}])]
  /\ results \in [Runs -> Seq(CallIdSet)]
  /\ transcript \in [Runs -> Seq(Message)]
  /\ ids \in [Runs -> Seq(Nat)]
  /\ report \in [Runs -> Reports \cup {None}]
  /\ error \in [Runs -> {None, "schema", "neither", "max_steps"}]
  /\ minted \in Nat
  /\ context \in [Runs -> Nat \cup {None}]
  /\ log \in Seq([run : Runs, cid : Nat])

(* The calls a run has made, by their ids: its ground truth and, at its    *)
(* end, the call whose answer is on its way.                               *)
Calls(r) == IF pc[r] = "answer" THEN Append(ids[r], context[r]) ELSE ids[r]

(* loop.py:21: every correlation id is captured, as ground truth from the  *)
(* server.  The calls of a run are exactly the records the audit log has   *)
(* of it, in the same order, and no id occurs twice in the log.            *)
GroundTruth ==
  /\ \A i, j \in 1..Len(log) : log[i].cid = log[j].cid => i = j
  /\ \A r \in Runs :
       LET calls == Calls(r)
           At(k, i) == log[i] = [run |-> r, cid |-> calls[k]]
       IN  /\ \A k \in 1..Len(calls) : \E i \in 1..Len(log) : At(k, i)
           /\ \A i \in 1..Len(log) : log[i].run = r => \E k \in 1..Len(calls) : At(k, i)
           /\ \A k, l \in 1..Len(calls), i, j \in 1..Len(log) :
                At(k, i) /\ At(l, j) /\ k < l => i < j

(* loop.py:23-25: cross-checking the two catches fabrication.  If a caller *)
(* compares the claim of an accepted diagnosis with the ground truth and   *)
(* finds nothing foreign, then every finding rests on calls that this run  *)
(* made and that the server audited.                                       *)
CrossCheckSound ==
  \A r \in Runs :
    LET real == {ids[r][i] : i \in 1..Len(ids[r])}
    IN  (report[r] # None /\ report[r].claimed \subseteq real) =>
          \A e \in report[r].findings :
            /\ e # {}
            /\ \A c \in e : \E i \in 1..Len(log) : log[i] = [run |-> r, cid |-> c]

(* What every provider demands of a conversation: when the model speaks    *)
(* again, each call of its last message has been answered, once, in order, *)
(* under the id it gave - unlisted tools, broken arguments and failing     *)
(* tools included.                                                         *)
Paired ==
  \A r \in Runs : pc[r] \in {"turn", "done"} =>
    /\ Len(transcript[r]) = 2 * steps[r]
    /\ \A i \in 1..steps[r] :
         /\ transcript[r][2 * i - 1].role = "assistant"
         /\ transcript[r][2 * i] = [role |-> "tool", ids |-> transcript[r][2 * i - 1].ids]

(* A run that was started ends: with a diagnosis, with an error, or by     *)
(* raising - not by asking for tools for ever.                             *)
RunsEnd == \A r \in Runs : pc[r] = "turn" ~> pc[r] \in {"done", "raised"}

(* README.md:272-274: the schema rejects any finding whose evidence cites  *)
(* a correlation id that was not produced in this run.                     *)
EvidenceProduced ==
  \A r \in Runs : report[r] # None =>
    \A e \in report[r].findings : \A c \in e :
      \E i \in 1..Len(log) : log[i] = [run |-> r, cid |-> c]
=============================================================================
