----------------------------- MODULE RuleAgent -----------------------------
(***************************************************************************)
(* The offline engine (eval/rule_llm.py: RuleBasedLLM) inside the agent    *)
(* loop: a fixed playbook of four tools, one per turn, and a diagnosis     *)
(* computed from what came back.  The web UI's default, and what the eval  *)
(* harness validates itself with.                                          *)
(*                                                                         *)
(* AgentLoop leaves the model free; here it is this program.  The          *)
(* composition implements AgentLoop with a scripted LLM (Implements).      *)
(***************************************************************************)
EXTENDS Integers, Sequences, FiniteSets

CONSTANTS
  Runs,       \* the runs, one per request
  None,
  Invented,   \* of AgentLoop
  MaxSteps    \* max_steps of each request: its budget of turns

Playbook == <<"health", "connections", "slow", "locks">>
Tools == {Playbook[i] : i \in 1..Len(Playbook)}
Ids == [text : Nat, tagged : BOOLEAN]

ASSUME EngineAssumption ==
  /\ MaxSteps \in [Runs -> Nat]
  \* None is no diagnosis, of this module or of AgentLoop
  /\ None \notin [claimed : SUBSET Ids, findings : SUBSET (Tools \cup {"all_clear"})]
  /\ None \notin [claimed : SUBSET Nat, findings : SUBSET SUBSET Nat]

(* What a tool may answer.  The signal of a tool is what its rule looks    *)
(* for: idle sessions, slow queries, blocked pairs; connections has none.  *)
(* failed: refused by the rate limiter, or an error - no rows either way.  *)
Outcomes(tool) ==
  {"clean", "failed"} \cup (IF tool = "connections" THEN {} ELSE {"signal"})

VARIABLES
  pc,        \* where each run is
  played,    \* _step: tools of the playbook already asked for
  steps,     \* turns completed
  result,    \* the sanitized envelope on its way to the engine
  observed,  \* _observed: the envelopes the engine was given
  ids,       \* tool_call_ids of the run
  diagnosis, \* the accepted diagnosis, or None
  error,     \* RunResult.error
  minted, context, log   \* of the tool server, as in AgentLoop

engineVars == <<played, steps, result, observed, ids, diagnosis, error>>
serverVars == <<minted, context, log>>
vars == <<engineVars, serverVars, pc>>

Init ==
  /\ pc = [r \in Runs |-> "idle"]
  /\ played = [r \in Runs |-> 0]
  /\ steps = [r \in Runs |-> 0]
  /\ result = [r \in Runs |-> None]
  /\ observed = [r \in Runs |-> << >>]
  /\ ids = [r \in Runs |-> << >>]
  /\ diagnosis = [r \in Runs |-> None]
  /\ error = [r \in Runs |-> None]
  /\ minted = 0
  /\ context = [r \in Runs |-> None]
  /\ log = << >>

Goto(r, label) == pc' = [pc EXCEPT ![r] = label]

Start(r) ==
  /\ pc[r] = "idle"
  /\ Goto(r, "turn")
  /\ UNCHANGED <<engineVars, serverVars>>

\* Mutant: the final answer is not counted as a turn when the budget is set.
InBudgetShort(r) == steps[r] + 1 < MaxSteps[r]

InBudget(r) == steps[r] < MaxSteps[r]

\* Mutant: one entry past the end of the playbook.
RemainingLate(r) == played[r] <= Len(Playbook)

Remaining(r) == played[r] < Len(Playbook)

(* next_turn() with tools left: one call, with no arguments.               *)
AskNext(r) ==
  /\ pc[r] = "turn" /\ InBudget(r)
  /\ Remaining(r)
  /\ played' = [played EXCEPT ![r] = @ + 1]
  /\ Goto(r, "calls")
  /\ UNCHANGED <<serverVars, steps, result, observed, ids, diagnosis, error>>

Invoke(r) ==
  /\ pc[r] = "calls"
  /\ minted' = minted + 1
  /\ context' = [context EXCEPT ![r] = minted + 1]
  /\ Goto(r, "tool")
  /\ UNCHANGED <<engineVars, log>>

(* The tool runs and audits the call under its id.                         *)
Audit(r) ==
  /\ pc[r] = "tool"
  /\ \E o \in Outcomes(Playbook[played[r]]) :
       log' = Append(log, [run |-> r, cid |-> context[r],
                           tool |-> Playbook[played[r]], outcome |-> o])
  /\ Goto(r, "answer")
  /\ UNCHANGED <<engineVars, minted, context>>

(* The envelope that answers the call in progress.                         *)
Envelope(r) == CHOOSE e \in {log[i] : i \in 1..Len(log)} : e.cid = context[r]

(* sanitize() wraps every string leaf, the correlation id too.             *)
Sanitized(e) == [cid |-> [text |-> e.cid, tagged |-> TRUE], tool |-> e.tool,
                 signal |-> e.outcome = "signal"]

\* Mutant: only the ids of successful calls are captured.
CapturedOk(r) ==
  IF Envelope(r).outcome \in {"clean", "signal"} THEN Append(ids[r], context[r]) ELSE ids[r]

Captured(r) == Append(ids[r], context[r])

Observe(r) ==
  /\ pc[r] = "answer"
  /\ ids' = [ids EXCEPT ![r] = Captured(r)]
  /\ result' = [result EXCEPT ![r] = Sanitized(Envelope(r))]
  /\ Goto(r, "submit")
  /\ UNCHANGED <<serverVars, played, steps, observed, diagnosis, error>>

\* Mutant: the engine keeps the results of the last turn only.
RememberedLast(r) == <<result[r]>>

Remembered(r) == Append(observed[r], result[r])

Submit(r) ==
  /\ pc[r] = "submit"
  /\ observed' = [observed EXCEPT ![r] = Remembered(r)]
  /\ result' = [result EXCEPT ![r] = None]
  /\ steps' = [steps EXCEPT ![r] = @ + 1]
  /\ Goto(r, "turn")
  /\ UNCHANGED <<serverVars, played, ids, diagnosis, error>>

-----------------------------------------------------------------------------
(* _build_diagnosis()                                                      *)

Observations(r) == {observed[r][i] : i \in 1..Len(observed[r])}

\* Mutant: the id is cited as the engine reads it.
UnwrapNot(id) == id

Unwrap(id) == [text |-> id.text, tagged |-> FALSE]

Claim(r) == {Unwrap(o.cid) : o \in Observations(r)}

(* The rules, one per tool that has a signal; all clear if none applies.   *)
Rules(r) == {o.tool : o \in {x \in Observations(r) : x.signal}}
Findings(r) == IF Rules(r) = {} THEN {"all_clear"} ELSE Rules(r)

(* The final answer: every finding cites every id.  The schema would turn  *)
(* down an empty claim, for its findings would be without evidence.        *)
Conclude(r) ==
  LET answer == [claimed |-> Claim(r), findings |-> Findings(r)]
  IN  /\ pc[r] = "turn" /\ InBudget(r)
      /\ ~Remaining(r)
      /\ diagnosis' = [diagnosis EXCEPT ![r] = IF Claim(r) = {} THEN None ELSE answer]
      /\ error' = [error EXCEPT ![r] = IF Claim(r) = {} THEN "schema" ELSE None]
      /\ Goto(r, "done")
      /\ UNCHANGED <<serverVars, played, steps, result, observed, ids>>

Exhaust(r) ==
  /\ pc[r] = "turn" /\ ~InBudget(r)
  /\ error' = [error EXCEPT ![r] = "max_steps"]
  /\ Goto(r, "done")
  /\ UNCHANGED <<serverVars, played, steps, result, observed, ids, diagnosis>>

Step(r) ==
  \/ AskNext(r) \/ Invoke(r) \/ Audit(r) \/ Observe(r) \/ Submit(r) \/ Conclude(r) \/ Exhaust(r)

Next == \E r \in Runs : Start(r) \/ Step(r)

Spec == Init /\ [][Next]_vars

(* The thread of a started request is scheduled and its tools answer.      *)
FairSpec == Spec /\ \A r \in Runs : WF_vars(Step(r))

-----------------------------------------------------------------------------
(* The engine as a scripted LLM of AgentLoop.                              *)

CallOf(turn) == <<turn, 1, "listed">>

Conversation(r) ==
  [i \in 1..(played[r] + steps[r]) |->
    IF i % 2 = 1 THEN [role |-> "assistant", ids |-> <<CallOf((i + 1) \div 2)>>]
    ELSE [role |-> "tool", ids |-> <<CallOf(i \div 2)>>]]

Claimed(d) == {IF id.tagged THEN Invented ELSE id.text : id \in d.claimed}

loopProvider == [r \in Runs |-> IF pc[r] = "idle" THEN None ELSE "scripted"]
loopPc == [r \in Runs |-> IF pc[r] = "submit" THEN "calls" ELSE pc[r]]
loopPending ==
  [r \in Runs |-> IF pc[r] \in {"calls", "tool", "answer"}
                  THEN <<[id |-> CallOf(played[r]), args |-> "object"]>> ELSE << >>]
loopResults == [r \in Runs |-> IF pc[r] = "submit" THEN <<CallOf(played[r])>> ELSE << >>]
loopTranscript == [r \in Runs |-> Conversation(r)]
loopReport ==
  [r \in Runs |-> IF diagnosis[r] = None THEN None
                  ELSE [claimed |-> Claimed(diagnosis[r]), findings |-> {Claimed(diagnosis[r])}]]
loopLog == [i \in 1..Len(log) |-> [run |-> log[i].run, cid |-> log[i].cid]]

Loop == INSTANCE AgentLoop WITH
  Providers <- [r \in Runs |-> {"scripted"}], MaxBatch <- [r \in Runs |-> 1], MaxFindings <- 1,
  provider <- loopProvider, pc <- loopPc, pending <- loopPending, results <- loopResults,
  transcript <- loopTranscript, report <- loopReport, log <- loopLog

(* The engine is one of the models the loop is written for: what holds of  *)
(* every run of AgentLoop holds of its runs (rule_llm.py:3: the same agent *)
(* loop as a real LLM, same turn shape, same final answer format).         *)
Implements == Loop!Spec

-----------------------------------------------------------------------------
Envelopes == [cid : Ids, tool : Tools, signal : BOOLEAN]

TypeOK ==
  /\ pc \in [Runs -> {"idle", "turn", "calls", "tool", "answer", "submit", "done"}]
  /\ played \in [Runs -> 0..Len(Playbook)]
  /\ steps \in [Runs -> Nat] /\ \A r \in Runs : steps[r] <= MaxSteps[r]
  /\ result \in [Runs -> Envelopes \cup {None}]
  /\ observed \in [Runs -> Seq(Envelopes)]
  /\ ids \in [Runs -> Seq(Nat)]
  /\ \A r \in Runs : diagnosis[r] # None =>
       diagnosis[r].claimed \subseteq Ids /\ diagnosis[r].findings \subseteq Tools \cup {"all_clear"}
  /\ error \in [Runs -> {None, "schema", "max_steps"}]
  /\ minted \in Nat
  /\ context \in [Runs -> Nat \cup {None}]
  /\ \A i \in 1..Len(log) : log[i].run \in Runs /\ log[i].cid \in Nat /\ log[i].tool \in Tools

(* The calls of r that the server answered with what rule k looks for.     *)
Signalled(r, k) ==
  \E i \in 1..Len(log) : log[i].run = r /\ log[i].tool = k /\ log[i].outcome = "signal"

(* The diagnosis says what the tools said, from the first turn to the      *)
(* last: a finding for each signal the server answered this run with, none *)
(* for a signal nobody saw, and the all-clear only in the absence of any.  *)
NothingMissed ==
  \A r \in Runs : diagnosis[r] # None =>
    /\ \A k \in Tools : k \in diagnosis[r].findings <=> Signalled(r, k)
    /\ "all_clear" \in diagnosis[r].findings <=> \A k \in Tools : ~Signalled(r, k)

(* The engine never trips the cross-check of loop.py:23-25: its claim is   *)
(* the ground truth of the run, although every id it reads is wrapped.     *)
HonestClaim ==
  \A r \in Runs : diagnosis[r] # None =>
    diagnosis[r].claimed = {[text |-> ids[r][i], tagged |-> FALSE] : i \in 1..Len(ids[r])}

(* With a budget beyond the playbook, a request gets its diagnosis         *)
(* whatever the tools answer - refused and failed ones included.           *)
VerdictReached ==
  \A r \in Runs : pc[r] = "turn" /\ MaxSteps[r] > Len(Playbook) ~> diagnosis[r] # None
=============================================================================
