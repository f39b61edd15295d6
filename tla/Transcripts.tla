---------------------------- MODULE Transcripts ----------------------------
(***************************************************************************)
(* The messages that the adapters of agent/llm.py send to their providers. *)
(* AgentLoop keeps one conversation for all of them - which calls a turn   *)
(* made, which results were submitted -; here each adapter writes it down  *)
(* in the form of its provider, and sends all of it again with every turn. *)
(* Of a message there remain its role, the ids of the calls it makes, and  *)
(* the ids of the results it brings.                                       *)
(***************************************************************************)
EXTENDS AgentLoop, SequencesExt

VARIABLE wire   \* _messages of each run's adapter

wireVars == <<vars, wire>>

Plain(role) == [role |-> role, calls |-> << >>, answers |-> << >>]

TInit == Init /\ wire = [r \in Runs |-> << >>]

(* start(): Anthropic has the system prompt apart from the messages.       *)
Opening(p) ==
  CASE p = "anthropic" -> <<Plain("user")>>
    [] p \in {"openai", "ollama"} -> <<Plain("system"), Plain("user")>>
    [] p = "scripted" -> << >>

(* The reply is recorded as it came: an Ollama call may have no id, and    *)
(* the one made up for it (turn 0) is not in the record.                   *)
Recorded(p, calls) ==
  IF p = "scripted" THEN << >>
  ELSE LET IdOf(c) == IF c[1] = 0 THEN None ELSE c
       IN  <<[role |-> "assistant", answers |-> << >>,
              calls |-> [i \in 1..Len(calls) |-> IdOf(calls[i])]]>>

\* Mutant: Anthropic gets one message per result, as the others do.
SubmittedEach(p, answers) ==
  IF p = "scripted" THEN << >>
  ELSE [i \in 1..Len(answers) |-> [role |-> IF p = "anthropic" THEN "user" ELSE "tool",
                                   calls |-> << >>, answers |-> <<answers[i]>>]]

(* submit_tool_results(): one user message with all the results, or one    *)
(* tool message per result.                                                *)
Submitted(p, answers) ==
  CASE p = "anthropic" -> <<[role |-> "user", calls |-> << >>, answers |-> answers]>>
    [] p \in {"openai", "ollama"} ->
         [i \in 1..Len(answers) |-> [role |-> "tool", calls |-> << >>, answers |-> <<answers[i]>>]]
    [] p = "scripted" -> << >>

Write(r, messages) == wire' = [wire EXCEPT ![r] = @ \o messages]

Ask(r) == AskTools(r) /\ Write(r, Recorded(provider[r], Last(transcript'[r]).ids))

(* The final answer is recorded too: the run returns, nobody sends it.     *)
Conclude(r) == Finish(r) /\ Write(r, Recorded(provider[r], << >>))

Hand(r) == Submit(r) /\ Write(r, Submitted(provider[r], results[r]))

TStep(r) ==
  \/ Ask(r) \/ Conclude(r) \/ Hand(r)
  \/ /\ \/ GiveUp(r) \/ Fail(r) \/ Exhaust(r) \/ Refuse(r) \/ Misfit(r)
        \/ Invoke(r) \/ Audit(r) \/ Observe(r)
     /\ UNCHANGED wire

TNext ==
  \E r \in Runs :
    TStep(r) \/ \E p \in Providers[r] : Start(r, p) /\ Write(r, Opening(p))

TSpec == TInit /\ [][TNext]_wireVars /\ \A r \in Runs : WF_wireVars(TStep(r))

-----------------------------------------------------------------------------
(* A result answers a call under its id; a call without id is answered by  *)
(* the result in its place.                                                *)
Fits(call, result) == call \in {None, result}

(* The calls of reply i are answered all together in the next message...   *)
AnsweredTogether(w, i) ==
  /\ i < Len(w) /\ Len(w[i + 1].answers) = Len(w[i].calls)
  /\ \A k \in 1..Len(w[i].calls) : Fits(w[i].calls[k], w[i + 1].answers[k])

(* ...or one by one in the messages that follow it.                        *)
AnsweredSingly(w, i) ==
  /\ i + Len(w[i].calls) <= Len(w)
  /\ \A k \in 1..Len(w[i].calls) :
       w[i + k].role = "tool" /\ Fits(w[i].calls[k], w[i + k].answers[1])

Answered(p, w, i) ==
  IF p = "anthropic" THEN AnsweredTogether(w, i) ELSE AnsweredSingly(w, i)

(* The roles in the order the provider knows, and no result that belongs   *)
(* to no call.                                                             *)
Alternating(w) ==
  /\ w[1].answers = << >>
  /\ \A i \in 1..Len(w) : w[i].role = IF i % 2 = 1 THEN "user" ELSE "assistant"

Prefaced(w) ==
  \A i \in 1..Len(w) :
    /\ w[i].role = "system" <=> i = 1
    /\ Len(w[i].answers) = IF w[i].role = "tool" THEN 1 ELSE 0
    /\ w[i].role = "tool" => \E j \in 1..(i - 1) : w[j].role = "assistant" /\ i <= j + Len(w[j].calls)

InForm(p, w) == IF p = "anthropic" THEN Alternating(w) ELSE Prefaced(w)

(* What a provider accepts when it is asked for the next turn, or answers  *)
(* with 400: that form, and every call of every earlier reply answered.    *)
Acceptable(p, w) ==
  /\ Len(w) > 0 /\ Last(w).role \in {"user", "tool"}
  /\ InForm(p, w)
  /\ \A i \in 1..Len(w) : w[i].role = "assistant" => Answered(p, w, i)

(* Whatever a model asks for - several tools in one turn, unlisted ones,   *)
(* calls without ids -, the conversation that is sent back to its provider *)
(* for the next turn is one that provider accepts.                         *)
Resumable ==
  \A r \in Runs : pc[r] = "turn" /\ provider[r] # "scripted" => Acceptable(provider[r], wire[r])
=============================================================================
