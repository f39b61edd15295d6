-------------------------- MODULE RuleAgentProofs --------------------------
(***************************************************************************)
(* Proofs about the rule engine inside the agent loop, for any number of   *)
(* runs and any budget: type correctness, the honesty and completeness of  *)
(* its diagnosis, and that it implements AgentLoop step by step.           *)
(*                                                                         *)
(* The argument.  The ids in the log are unique, so the envelope that      *)
(* comes back is the record of the call just made (Served).  A run asks    *)
(* each tool of the playbook once, so the signals the server answered it   *)
(* with are those of the envelopes it has read (Memory, Book); and it      *)
(* concludes only when it has read them all (Verdict).                     *)
(***************************************************************************)
EXTENDS RuleAgent, SequenceTheorems, TLAPS

Kinds == {"clean", "failed", "signal"}
Records == [run : Runs, cid : Nat, tool : Tools, outcome : Kinds]

(* What the log holds of run q, and whether tool k signalled to it.        *)
Of(q) == {log[i] : i \in {j \in 1..Len(log) : log[j].run = q}}
Sig(q, k) == \E e \in Of(q) : e.tool = k /\ e.outcome = "signal"

InTurn(q) == pc[q] \in {"calls", "tool", "answer", "submit"}

(* One tool per turn, one envelope and one id per tool.                    *)
Phase(q) ==
  /\ pc[q] = "idle" => steps[q] = 0
  /\ ~InTurn(q) => played[q] = steps[q] /\ Len(ids[q]) = steps[q]
  /\ InTurn(q) => played[q] = steps[q] + 1 /\ steps[q] < MaxSteps[q]
  /\ InTurn(q) /\ pc[q] # "submit" => Len(ids[q]) = steps[q]
  /\ pc[q] = "submit" => Len(ids[q]) = played[q]
  /\ Len(observed[q]) = steps[q]

(* Envelope e is what the call of the i-th tool was answered with.         *)
Answers(q, e, i) ==
  /\ e \in Envelopes
  /\ e.cid = [text |-> ids[q][i], tagged |-> TRUE]
  /\ e.tool = Playbook[i]
  /\ e.signal <=> Sig(q, Playbook[i])

Memory(q) ==
  /\ \A i \in 1..steps[q] : Answers(q, observed[q][i], i)
  /\ pc[q] = "submit" => Answers(q, result[q], played[q])

(* The tools audited for q are those it has read, or is about to.          *)
Book(q) ==
  /\ pc[q] \in {"idle", "turn", "calls", "tool", "done"} =>
       \A e \in Of(q) : \E i \in 1..steps[q] : e.tool = Playbook[i]
  /\ pc[q] \in {"answer", "submit"} =>
       \A e \in Of(q) : \E i \in 1..played[q] : e.tool = Playbook[i]
  /\ pc[q] = "answer" =>
       /\ \A e \in Of(q) : e.tool = Playbook[played[q]] => e.cid = context[q]
       /\ \E e \in Of(q) : e.tool = Playbook[played[q]] /\ e.cid = context[q]

Verdict(q) == diagnosis[q] # None =>
  /\ pc[q] = "done"
  /\ diagnosis[q].claimed = {[text |-> ids[q][i], tagged |-> FALSE] : i \in 1..Len(ids[q])}
  /\ diagnosis[q].findings \subseteq Tools \cup {"all_clear"}
  /\ \A k \in Tools : k \in diagnosis[q].findings <=> Sig(q, k)
  /\ "all_clear" \in diagnosis[q].findings <=> \A k \in Tools : ~Sig(q, k)

Story(q) == Phase(q) /\ Memory(q) /\ Book(q) /\ Verdict(q)

(* The log and the ids of the tools at work.                               *)
Served ==
  /\ log \in Seq(Records)
  /\ \A i \in 1..Len(log) : log[i].cid <= minted
  /\ \A i, j \in 1..Len(log) : log[i].cid = log[j].cid => i = j
  /\ \A r \in Runs : pc[r] \in {"tool", "answer"} => context[r] \in Nat
  /\ \A r \in Runs : pc[r] = "tool" =>
       /\ context[r] <= minted
       /\ \A i \in 1..Len(log) : log[i].cid # context[r]
       /\ \A q \in Runs : q # r /\ pc[q] = "tool" => context[q] # context[r]

(* TypeOK without what Verdict and Served say.                             *)
Typed ==
  /\ pc \in [Runs -> {"idle", "turn", "calls", "tool", "answer", "submit", "done"}]
  /\ played \in [Runs -> 0..4]
  /\ steps \in [Runs -> Nat] /\ \A r \in Runs : steps[r] <= MaxSteps[r]
  /\ result \in [Runs -> Envelopes \cup {None}]
  /\ observed \in [Runs -> Seq(Envelopes)]
  /\ ids \in [Runs -> Seq(Nat)]
  /\ diagnosis = [r \in Runs |-> diagnosis[r]]
  /\ error \in [Runs -> {None, "schema", "max_steps"}]
  /\ minted \in Nat
  /\ context \in [Runs -> Nat \cup {None}]

IInv == Typed /\ Served /\ \A q \in Runs : Story(q)

-----------------------------------------------------------------------------
LEMMA PlaybookFacts ==
  /\ Len(Playbook) = 4
  /\ \A i \in 1..4 : Playbook[i] \in Tools
  /\ \A k \in Tools : \E i \in 1..4 : k = Playbook[i]
  /\ \A i, j \in 1..4 : Playbook[i] = Playbook[j] => i = j
  /\ "all_clear" \notin Tools
<1>1. Len(Playbook) = 4
  BY DEF Playbook
<1>2. /\ Playbook[1] = "health" /\ Playbook[2] = "connections"
      /\ Playbook[3] = "slow" /\ Playbook[4] = "locks"
  BY DEF Playbook
<1>3. \A i \in 1..4 : i = 1 \/ i = 2 \/ i = 3 \/ i = 4
  OBVIOUS
<1>4. \A i, j \in 1..4 : Playbook[i] = Playbook[j] => i = j
  BY <1>2, <1>3
<1>5. Tools = {Playbook[i] : i \in 1..4}
  BY <1>1 DEF Tools
<1>6. "all_clear" \notin Tools
  BY <1>2, <1>3, <1>5
<1>. QED  BY <1>1, <1>4, <1>5, <1>6

LEMMA InitInv == Init => IInv
<1>. SUFFICES ASSUME Init PROVE IInv
  OBVIOUS
<1>. USE EngineAssumption DEF Init
<1>1. Typed
  BY EmptySeq DEF Typed
<1>2. Served
  BY EmptySeq DEF Served
<1>3. ASSUME NEW q \in Runs PROVE Story(q)
  <2>1. Of(q) = {}
    BY DEF Of
  <2>2. Phase(q) /\ Memory(q) /\ Verdict(q)
    BY <1>3 DEF Phase, Memory, Verdict, InTurn
  <2>3. Book(q)
    BY <1>3, <2>1 DEF Book
  <2>. QED  BY <2>2, <2>3 DEF Story
<1>. QED  BY <1>1, <1>2, <1>3 DEF IInv

(* A run to which nothing happens keeps its story.                         *)
LEMMA Elsewhere ==
  ASSUME NEW q \in Runs, Story(q), Of(q)' = Of(q),
         pc'[q] = pc[q], played'[q] = played[q], steps'[q] = steps[q],
         result'[q] = result[q], observed'[q] = observed[q], ids'[q] = ids[q],
         diagnosis'[q] = diagnosis[q], context'[q] = context[q]
  PROVE  Story(q)'
<1>1. Phase(q)' /\ (InTurn(q)' <=> InTurn(q))
  BY DEF Story, Phase, InTurn
<1>2. \A k : Sig(q, k)' <=> Sig(q, k)
  BY DEF Sig
<1>3. Memory(q)'
  <2>1. \A e, i : Answers(q, e, i)' <=> Answers(q, e, i)
    BY <1>2 DEF Answers
  <2>. QED  BY <2>1 DEF Story, Memory
<1>4. Book(q)'
  BY DEF Story, Book
<1>5. Verdict(q)'
  BY <1>2 DEF Story, Verdict
<1>. QED  BY <1>1, <1>3, <1>4, <1>5 DEF Story

LEMMA OfAppend ==
  ASSUME log \in Seq(Records), NEW e \in Records, log' = Append(log, e), NEW q
  PROVE  Of(q)' = IF e.run = q THEN Of(q) \cup {e} ELSE Of(q)
<1>. DEFINE n == Len(log)
<1>1. /\ n \in Nat /\ Len(log') = n + 1 /\ log'[n + 1] = e
      /\ \A i \in 1..n : log'[i] = log[i]
  BY AppendProperties, LenProperties
<1>. HIDE DEF n
<1>2. \A i \in 1..Len(log') : i \in 1..n \/ i = n + 1
  BY <1>1
<1>3. n + 1 \in 1..Len(log') /\ \A i \in 1..n : i \in 1..Len(log')
  BY <1>1
<1>4. \A x : x \in Of(q)' <=> \E i \in 1..Len(log') : log'[i].run = q /\ x = log'[i]
  BY DEF Of
<1>5. \A x : x \in Of(q) <=> \E i \in 1..n : log[i].run = q /\ x = log[i]
  BY DEF Of, n
<1>6. \A x : x \in Of(q)' <=> x \in Of(q) \/ (e.run = q /\ x = e)
  BY <1>1, <1>2, <1>3, <1>4, <1>5
<1>7. CASE e.run = q
  BY <1>6, <1>7
<1>8. CASE e.run # q
  BY <1>6, <1>8
<1>. QED  BY <1>7, <1>8

(* The envelope that comes back is the record of the call just made: it is *)
(* of this run and of the tool asked for, and has the signal of that tool. *)
LEMMA EnvelopeIs ==
  ASSUME Served, NEW r \in Runs, Story(r), pc[r] = "answer"
  PROVE  /\ Envelope(r) \in Records
         /\ Envelope(r).cid = context[r]
         /\ Envelope(r).tool = Playbook[played[r]]
         /\ Envelope(r).outcome = "signal" <=> Sig(r, Playbook[played[r]])
<1>1. PICK e \in Of(r) : e.tool = Playbook[played[r]] /\ e.cid = context[r]
  BY DEF Story, Book
<1>2. PICK i \in 1..Len(log) : e = log[i]
  BY DEF Of
<1>3. e \in {log[j] : j \in 1..Len(log)}
  BY <1>2
<1>4. Envelope(r) \in {log[j] : j \in 1..Len(log)} /\ Envelope(r).cid = context[r]
  BY <1>1, <1>3 DEF Envelope
<1>5. PICK j \in 1..Len(log) : Envelope(r) = log[j]
  BY <1>4
<1>6. i = j
  BY <1>1, <1>2, <1>4, <1>5 DEF Served
<1>7. Envelope(r) = e
  BY <1>2, <1>5, <1>6
<1>8. e \in Records
  <2>1. log \in Seq(Records)
    BY DEF Served
  <2>. QED  BY <1>2, <2>1, ElementOfSeq
<1>9. ASSUME NEW f \in Of(r), f.tool = Playbook[played[r]]
      PROVE  f = e
  <2>1. f.cid = context[r]
    BY <1>9 DEF Story, Book
  <2>2. PICK l \in 1..Len(log) : f = log[l]
    BY DEF Of
  <2>3. l = i
    BY <1>1, <1>2, <2>1, <2>2 DEF Served
  <2>. QED  BY <1>2, <2>2, <2>3
<1>10. e.outcome = "signal" <=> Sig(r, Playbook[played[r]])
  BY <1>1, <1>9 DEF Sig
<1>. QED  BY <1>1, <1>7, <1>8, <1>10

LEMMA SanitizedIs ==
  ASSUME NEW e \in Records
  PROVE  /\ Sanitized(e) \in Envelopes
         /\ Sanitized(e).cid = [text |-> e.cid, tagged |-> TRUE]
         /\ Sanitized(e).tool = e.tool
         /\ Sanitized(e).signal <=> e.outcome = "signal"
<1>1. e.cid \in Nat /\ e.tool \in Tools
  BY DEF Records
<1>2. (e.outcome = "signal") \in BOOLEAN
  OBVIOUS
<1>3. [text |-> e.cid, tagged |-> TRUE] \in Ids
  BY <1>1 DEF Ids
<1>. QED  BY <1>1, <1>2, <1>3 DEF Sanitized, Envelopes

-----------------------------------------------------------------------------
LEMMA TypedStep ==
  ASSUME IInv, [Next]_vars
  PROVE  Typed'
<1>. USE EngineAssumption
<1>1. ASSUME NEW r \in Runs, Start(r) \/ Exhaust(r) \/ Conclude(r)
      PROVE  Typed'
  <2>1. /\ pc' \in [Runs -> {"idle", "turn", "calls", "tool", "answer", "submit", "done"}]
        /\ error' \in [Runs -> {None, "schema", "max_steps"}]
        /\ diagnosis' = [q \in Runs |-> diagnosis'[q]]
    BY <1>1 DEF Start, Exhaust, Conclude, Goto, IInv, Typed, engineVars
  <2>2. UNCHANGED <<played, steps, result, observed, ids, minted, context>>
    BY <1>1 DEF Start, Exhaust, Conclude, engineVars, serverVars
  <2>. QED  BY <2>1, <2>2 DEF IInv, Typed
<1>2. ASSUME NEW r \in Runs, AskNext(r)
      PROVE  Typed'
  <2>0. played[r] + 1 \in 0..4
    <3>1. played[r] < 4
      BY <1>2, PlaybookFacts DEF AskNext, Remaining
    <3>2. played[r] \in 0..4
      BY DEF IInv, Typed
    <3>. QED  BY <3>1, <3>2
  <2>1. played' \in [Runs -> 0..4]
    BY <1>2, <2>0 DEF AskNext, IInv, Typed
  <2>2. pc' \in [Runs -> {"idle", "turn", "calls", "tool", "answer", "submit", "done"}]
    BY <1>2 DEF AskNext, Goto, IInv, Typed
  <2>3. UNCHANGED <<serverVars, steps, result, observed, ids, diagnosis, error>>
    BY <1>2 DEF AskNext
  <2>. QED  BY <2>1, <2>2, <2>3 DEF IInv, Typed, serverVars
<1>3. ASSUME NEW r \in Runs, Invoke(r) \/ Audit(r)
      PROVE  Typed'
  <2>0. pc' \in [Runs -> {"idle", "turn", "calls", "tool", "answer", "submit", "done"}]
    BY <1>3 DEF Invoke, Audit, Goto, IInv, Typed
  <2>1. minted' \in Nat /\ context' \in [Runs -> Nat \cup {None}]
    <3>1. \/ minted' = minted + 1 /\ context' = [context EXCEPT ![r] = minted + 1]
          \/ UNCHANGED <<minted, context>>
      BY <1>3 DEF Invoke, Audit
    <3>2. minted + 1 \in Nat /\ minted \in Nat /\ context \in [Runs -> Nat \cup {None}]
      BY DEF IInv, Typed
    <3>. QED  BY <3>1, <3>2
  <2>2. UNCHANGED engineVars
    BY <1>3 DEF Invoke, Audit
  <2>. QED  BY <2>0, <2>1, <2>2 DEF IInv, Typed, engineVars
<1>4. ASSUME NEW r \in Runs, Observe(r)
      PROVE  Typed'
  <2>1. Served /\ Story(r) /\ pc[r] = "answer"
    BY <1>4 DEF IInv, Observe
  <2>2. Envelope(r) \in Records /\ context[r] \in Nat
    BY <2>1, EnvelopeIs DEF Served
  <2>3. Sanitized(Envelope(r)) \in Envelopes
    BY <2>2, SanitizedIs
  <2>4. result' \in [Runs -> Envelopes \cup {None}]
    BY <1>4, <2>3 DEF Observe, IInv, Typed
  <2>5. ids' \in [Runs -> Seq(Nat)]
    BY <1>4, <2>2, AppendProperties DEF Observe, Captured, IInv, Typed
  <2>6. pc' \in [Runs -> {"idle", "turn", "calls", "tool", "answer", "submit", "done"}]
    BY <1>4 DEF Observe, Goto, IInv, Typed
  <2>7. UNCHANGED <<serverVars, played, steps, observed, diagnosis, error>>
    BY <1>4 DEF Observe
  <2>. QED  BY <2>4, <2>5, <2>6, <2>7 DEF IInv, Typed, serverVars
<1>5. ASSUME NEW r \in Runs, Submit(r)
      PROVE  Typed'
  <2>1. Story(r) /\ pc[r] = "submit"
    BY <1>5 DEF IInv, Submit
  <2>2. result[r] \in Envelopes /\ steps[r] < MaxSteps[r]
    BY <2>1 DEF Story, Memory, Answers, Phase, InTurn
  <2>3. observed' \in [Runs -> Seq(Envelopes)]
    BY <1>5, <2>2, AppendProperties DEF Submit, Remembered, IInv, Typed
  <2>4. steps' \in [Runs -> Nat] /\ \A q \in Runs : steps'[q] <= MaxSteps[q]
    BY <1>5, <2>2 DEF Submit, IInv, Typed
  <2>5. /\ pc' \in [Runs -> {"idle", "turn", "calls", "tool", "answer", "submit", "done"}]
        /\ result' \in [Runs -> Envelopes \cup {None}]
    BY <1>5 DEF Submit, Goto, IInv, Typed
  <2>6. UNCHANGED <<serverVars, played, ids, diagnosis, error>>
    BY <1>5 DEF Submit
  <2>. QED  BY <2>3, <2>4, <2>5, <2>6 DEF IInv, Typed, serverVars
<1>6. CASE UNCHANGED vars
  BY <1>6 DEF vars, engineVars, serverVars, IInv, Typed
<1>. QED  BY <1>1, <1>2, <1>3, <1>4, <1>5, <1>6 DEF Next, Step

(* What an audit appends.                                                  *)
LEMMA AuditIs ==
  ASSUME IInv, NEW r \in Runs, Audit(r)
  PROVE  \E e \in Records : /\ log' = Append(log, e)
                             /\ e.run = r /\ e.cid = context[r]
                             /\ e.tool = Playbook[played[r]]
<1>1. PICK o \in Outcomes(Playbook[played[r]]) :
        log' = Append(log, [run |-> r, cid |-> context[r],
                            tool |-> Playbook[played[r]], outcome |-> o])
  BY DEF Audit
<1>2. context[r] \in Nat
  BY DEF Audit, IInv, Served
<1>3. played[r] \in 1..4
  BY DEF Audit, IInv, Story, Phase, InTurn, Typed
<1>4. o \in Kinds
  BY DEF Outcomes, Kinds
<1>5. [run |-> r, cid |-> context[r], tool |-> Playbook[played[r]], outcome |-> o] \in Records
  BY <1>2, <1>3, <1>4, PlaybookFacts DEF Records
<1>. QED  BY <1>1, <1>5

LEMMA ServedStep ==
  ASSUME IInv, [Next]_vars
  PROVE  Served'
<1>0. Served /\ minted \in Nat /\ \A i \in 1..Len(log) : log[i].cid \in Nat
  <2>1. \A i \in 1..Len(log) : log[i] \in Records
    BY ElementOfSeq DEF IInv, Served
  <2>. QED  BY <2>1 DEF IInv, Typed, Records
<1>1. ASSUME NEW r \in Runs,
             Start(r) \/ AskNext(r) \/ Observe(r) \/ Submit(r) \/ Conclude(r) \/ Exhaust(r)
      PROVE  Served'
  <2>1. UNCHANGED <<minted, context, log>>
    BY <1>1 DEF Start, AskNext, Observe, Submit, Conclude, Exhaust, serverVars
  <2>2. \A q \in Runs : pc'[q] = pc[q] \/ pc'[q] \notin {"tool", "answer"}
    BY <1>1 DEF Start, AskNext, Observe, Submit, Conclude, Exhaust, Goto, IInv, Typed
  <2>. QED  BY <1>0, <2>1, <2>2 DEF Served
<1>2. ASSUME NEW r \in Runs, Invoke(r)
      PROVE  Served'
  <2>1. /\ pc' = [pc EXCEPT ![r] = "tool"] /\ minted' = minted + 1
        /\ context' = [context EXCEPT ![r] = minted + 1] /\ log' = log
    BY <1>2 DEF Invoke, Goto
  <2>2. \A q \in Runs : q # r => pc'[q] = pc[q] /\ context'[q] = context[q]
    BY <2>1 DEF IInv, Typed
  <2>3. pc'[r] = "tool" /\ context'[r] = minted + 1
    BY <2>1 DEF IInv, Typed
  <2>4. \A i \in 1..Len(log) : log[i].cid <= minted + 1 /\ log[i].cid # minted + 1
    BY <1>0 DEF Served
  <2>5. \A q \in Runs : pc[q] = "tool" => context[q] \in Nat /\ context[q] <= minted
    BY <1>0 DEF Served
  <2>6. \A q \in Runs : pc'[q] \in {"tool", "answer"} => context'[q] \in Nat
    BY <1>0, <2>2, <2>3 DEF Served
  <2>7. ASSUME NEW q \in Runs, pc'[q] = "tool"
        PROVE  /\ context'[q] <= minted'
               /\ \A i \in 1..Len(log) : log[i].cid # context'[q]
               /\ \A p \in Runs : p # q /\ pc'[p] = "tool" => context'[p] # context'[q]
    <3>1. CASE q = r
      BY <1>0, <2>1, <2>2, <2>3, <2>4, <2>5, <3>1
    <3>2. CASE q # r
      <4>1. /\ pc[q] = "tool" /\ context'[q] = context[q]
            /\ context[q] \in Nat /\ context[q] <= minted
        BY <2>2, <2>5, <2>7, <3>2
      <4>2. \A i \in 1..Len(log) : log[i].cid # context[q]
        BY <1>0, <4>1 DEF Served
      <4>3. \A p \in Runs : p # q /\ p # r /\ pc'[p] = "tool" => context'[p] # context[q]
        BY <1>0, <2>2, <4>1 DEF Served
      <4>4. context'[r] # context[q]
        BY <1>0, <2>3, <4>1
      <4>. QED  BY <1>0, <2>1, <4>1, <4>2, <4>3, <4>4
    <3>. QED  BY <3>1, <3>2
  <2>. QED  BY <1>0, <2>1, <2>4, <2>6, <2>7 DEF Served
<1>3. ASSUME NEW r \in Runs, Audit(r)
      PROVE  Served'
  <2>1. PICK e \in Records : log' = Append(log, e) /\ e.cid = context[r]
    BY <1>3, AuditIs
  <2>2. /\ pc[r] = "tool" /\ pc' = [pc EXCEPT ![r] = "answer"]
        /\ UNCHANGED <<minted, context>>
    BY <1>3 DEF Audit, Goto
  <2>. DEFINE n == Len(log)
  <2>3. /\ log' \in Seq(Records) /\ n \in Nat /\ Len(log') = n + 1
        /\ log'[n + 1] = e /\ \A i \in 1..n : log'[i] = log[i]
    BY <1>0, <2>1, AppendProperties, LenProperties DEF Served
  <2>4. /\ context[r] <= minted
        /\ \A i \in 1..n : log[i].cid # context[r]
        /\ \A q \in Runs : q # r /\ pc[q] = "tool" => context[q] # context[r]
    BY <1>0, <2>2 DEF Served
  <2>. HIDE DEF n
  <2>5. \A i \in 1..Len(log') : i \in 1..n \/ i = n + 1
    BY <2>3
  <2>6. \A i \in 1..Len(log') : log'[i].cid <= minted
    BY <1>0, <2>1, <2>3, <2>4, <2>5 DEF Served, n
  <2>7. \A i, j \in 1..Len(log') : log'[i].cid = log'[j].cid => i = j
    BY <1>0, <2>1, <2>3, <2>4, <2>5 DEF Served, n
  <2>8. \A q \in Runs : q # r => pc'[q] = pc[q]
    BY <2>2
  <2>9. pc'[r] = "answer"
    BY <2>2 DEF IInv, Typed
  <2>10. \A q \in Runs : pc'[q] \in {"tool", "answer"} => context[q] \in Nat
    BY <1>0, <2>2, <2>8 DEF Served
  <2>11. ASSUME NEW q \in Runs, pc'[q] = "tool"
         PROVE  /\ context[q] <= minted
                /\ \A i \in 1..Len(log') : log'[i].cid # context[q]
                /\ \A p \in Runs : p # q /\ pc'[p] = "tool" => context[p] # context[q]
    <3>1. q # r /\ pc[q] = "tool"
      BY <2>8, <2>9, <2>11
    <3>2. \A i \in 1..Len(log') : log'[i].cid # context[q]
      BY <1>0, <2>1, <2>3, <2>4, <2>5, <3>1 DEF Served, n
    <3>. QED  BY <1>0, <2>8, <2>9, <3>1, <3>2 DEF Served
  <2>. QED  BY <2>2, <2>3, <2>6, <2>7, <2>10, <2>11 DEF Served
<1>4. CASE UNCHANGED vars
  BY <1>0, <1>4 DEF vars, serverVars, Served
<1>. QED  BY <1>1, <1>2, <1>3, <1>4 DEF Next, Step

-----------------------------------------------------------------------------
(* A step of one run leaves the story of the others alone.                 *)
LEMMA StoryElsewhere ==
  ASSUME IInv, NEW r \in Runs, Start(r) \/ Step(r), NEW q \in Runs, q # r
  PROVE  Story(q)'
<1>1. Story(q)
  BY DEF IInv
<1>2. Of(q)' = Of(q)
  <2>1. CASE Audit(r)
    <3>1. PICK e \in Records : log' = Append(log, e) /\ e.run = r
      BY <2>1, AuditIs
    <3>2. log \in Seq(Records)
      BY DEF IInv, Served
    <3>. QED  BY <3>1, <3>2, OfAppend
  <2>2. ASSUME ~Audit(r)
        PROVE  Of(q)' = Of(q)
    <3>1. log' = log
      BY <2>2 DEF Start, Step, AskNext, Invoke, Observe, Submit, Conclude, Exhaust, serverVars
    <3>. QED  BY <3>1 DEF Of
  <2>. QED  BY <2>1, <2>2
<1>3. pc'[q] = pc[q]
  BY DEF Start, Step, AskNext, Invoke, Audit, Observe, Submit, Conclude, Exhaust, Goto,
         IInv, Typed
<1>4. played'[q] = played[q] /\ steps'[q] = steps[q]
  BY DEF Start, Step, AskNext, Invoke, Audit, Observe, Submit, Conclude, Exhaust,
         engineVars, IInv, Typed
<1>5. result'[q] = result[q] /\ observed'[q] = observed[q]
  BY DEF Start, Step, AskNext, Invoke, Audit, Observe, Submit, Conclude, Exhaust,
         engineVars, IInv, Typed
<1>6. ids'[q] = ids[q] /\ context'[q] = context[q]
  BY DEF Start, Step, AskNext, Invoke, Audit, Observe, Submit, Conclude, Exhaust,
         engineVars, serverVars, IInv, Typed
<1>7. diagnosis'[q] = diagnosis[q]
  <2>1. diagnosis = [p \in Runs |-> diagnosis[p]]
    BY DEF IInv, Typed
  <2>2. CASE Conclude(r)
    <3>. DEFINE d == IF Claim(r) = {} THEN None
                     ELSE [claimed |-> Claim(r), findings |-> Findings(r)]
    <3>1. diagnosis' = [diagnosis EXCEPT ![r] = d]
      BY <2>2 DEF Conclude
    <3>. HIDE DEF d
    <3>. QED  BY <2>1, <3>1
  <2>3. ASSUME ~Conclude(r)
        PROVE  diagnosis'[q] = diagnosis[q]
    BY <2>3 DEF Start, Step, AskNext, Invoke, Audit, Observe, Submit, Exhaust, engineVars
  <2>. QED  BY <2>2, <2>3
<1>. QED  BY <1>1, <1>2, <1>3, <1>4, <1>5, <1>6, <1>7, Elsewhere

(* A step that goes on to another place with nothing new to remember.      *)
LEMMA StoryMoves ==
  ASSUME NEW r \in Runs, Story(r), steps[r] \in Nat,
         UNCHANGED <<steps, ids, observed, diagnosis, log>>,
         pc[r] \in {"idle", "turn", "calls"},
         pc'[r] \in {"turn", "calls", "tool", "done"},
         ~InTurn(r)' => played'[r] = steps[r] /\ ~InTurn(r),
         InTurn(r)' => played'[r] = steps[r] + 1 /\ steps[r] < MaxSteps[r]
  PROVE  Story(r)'
<1>1. Phase(r)'
  BY DEF Story, Phase, InTurn
<1>2. Of(r)' = Of(r) /\ \A k : Sig(r, k)' <=> Sig(r, k)
  BY DEF Of, Sig
<1>3. Memory(r)'
  <2>1. \A e, i : Answers(r, e, i)' <=> Answers(r, e, i)
    BY <1>2 DEF Answers
  <2>. QED  BY <2>1 DEF Story, Memory
<1>4. Book(r)'
  BY <1>2 DEF Story, Book
<1>5. Verdict(r)'
  <2>1. diagnosis[r] = None
    BY DEF Story, Verdict
  <2>. QED  BY <2>1 DEF Verdict
<1>. QED  BY <1>1, <1>3, <1>4, <1>5 DEF Story

LEMMA StoryAudit ==
  ASSUME IInv, NEW r \in Runs, Audit(r)
  PROVE  Story(r)'
<1>1. PICK e \in Records : /\ log' = Append(log, e)
                            /\ e.run = r /\ e.cid = context[r]
                            /\ e.tool = Playbook[played[r]]
  BY AuditIs
<1>2. /\ Story(r) /\ pc[r] = "tool" /\ pc'[r] = "answer"
      /\ UNCHANGED <<played, steps, result, observed, ids, diagnosis, context>>
  BY DEF IInv, Typed, Audit, Goto, engineVars
<1>3. Of(r)' = Of(r) \cup {e}
  BY <1>1, OfAppend DEF IInv, Served
<1>4. /\ played[r] \in 1..4 /\ played[r] = steps[r] + 1 /\ steps[r] \in Nat
      /\ \A i \in 1..steps[r] : i \in 1..4 /\ i # played[r] /\ i \in 1..played[r]
  BY <1>2 DEF Story, Phase, InTurn, IInv, Typed
<1>5. \A i \in 1..steps[r] : Playbook[i] # Playbook[played[r]]
  BY <1>4, PlaybookFacts
<1>6. \A f \in Of(r) : \E i \in 1..steps[r] : f.tool = Playbook[i]
  BY <1>2 DEF Story, Book
<1>7. \A i \in 1..steps[r] : Sig(r, Playbook[i])' <=> Sig(r, Playbook[i])
  BY <1>1, <1>3, <1>5 DEF Sig
<1>8. Phase(r)'
  BY <1>2 DEF Story, Phase, InTurn
<1>9. Memory(r)'
  <2>1. \A i \in 1..steps[r] : Answers(r, observed[r][i], i)
    BY <1>2 DEF Story, Memory
  <2>2. \A i \in 1..steps[r] : Answers(r, observed[r][i], i)'
    BY <1>2, <1>7, <2>1 DEF Answers
  <2>. QED  BY <1>2, <2>2 DEF Memory
<1>10. Book(r)'
  <2>1. \A f \in Of(r)' : \E i \in 1..played[r] : f.tool = Playbook[i]
    BY <1>1, <1>3, <1>4, <1>6
  <2>2. \A f \in Of(r)' : f.tool = Playbook[played[r]] => f.cid = context[r]
    BY <1>1, <1>3, <1>5, <1>6
  <2>3. e \in Of(r)'
    BY <1>3
  <2>. QED  BY <1>1, <1>2, <2>1, <2>2, <2>3 DEF Book
<1>11. Verdict(r)'
  BY <1>2 DEF Story, Verdict
<1>. QED  BY <1>8, <1>9, <1>10, <1>11 DEF Story

LEMMA StoryObserve ==
  ASSUME IInv, NEW r \in Runs, Observe(r)
  PROVE  Story(r)'
<1>. DEFINE n == steps[r]
<1>1. /\ Story(r) /\ Served /\ pc[r] = "answer" /\ pc'[r] = "submit"
      /\ UNCHANGED <<played, steps, observed, diagnosis, context, log>>
      /\ ids'[r] = Append(ids[r], context[r])
      /\ result'[r] = Sanitized(Envelope(r))
  BY DEF IInv, Typed, Observe, Captured, Goto, serverVars
<1>2. ids[r] \in Seq(Nat) /\ context[r] \in Nat /\ n \in Nat
  BY <1>1 DEF IInv, Typed, Served
<1>3. Len(ids[r]) = n /\ played[r] = n + 1 /\ n < MaxSteps[r] /\ Len(observed[r]) = n
  BY <1>1 DEF Story, Phase, InTurn
<1>4. /\ Len(ids'[r]) = n + 1 /\ ids'[r][n + 1] = context[r]
      /\ \A i \in 1..n : ids'[r][i] = ids[r][i]
  BY <1>1, <1>2, <1>3, AppendProperties
<1>5. Of(r)' = Of(r) /\ \A k : Sig(r, k)' <=> Sig(r, k)
  BY <1>1 DEF Of, Sig
<1>6. Phase(r)'
  BY <1>1, <1>3, <1>4 DEF Phase, InTurn
<1>7. Memory(r)'
  <2>1. \A i \in 1..n : Answers(r, observed[r][i], i)
    BY <1>1 DEF Story, Memory
  <2>2. \A i \in 1..n : Answers(r, observed[r][i], i)'
    BY <1>1, <1>4, <1>5, <2>1 DEF Answers
  <2>3. /\ Envelope(r) \in Records
        /\ Envelope(r).cid = context[r]
        /\ Envelope(r).tool = Playbook[played[r]]
        /\ Envelope(r).outcome = "signal" <=> Sig(r, Playbook[played[r]])
    BY <1>1, EnvelopeIs
  <2>4. /\ result'[r] \in Envelopes
        /\ result'[r].cid = [text |-> context[r], tagged |-> TRUE]
        /\ result'[r].tool = Playbook[played[r]]
        /\ result'[r].signal <=> Sig(r, Playbook[played[r]])
    BY <1>1, <2>3, SanitizedIs
  <2>5. Answers(r, result[r], played[r])'
    BY <1>1, <1>3, <1>4, <1>5, <2>4 DEF Answers
  <2>. QED  BY <1>1, <2>2, <2>5 DEF Memory
<1>8. Book(r)'
  BY <1>1, <1>5 DEF Story, Book
<1>9. Verdict(r)'
  BY <1>1 DEF Story, Verdict
<1>. QED  BY <1>6, <1>7, <1>8, <1>9 DEF Story

LEMMA StorySubmit ==
  ASSUME IInv, NEW r \in Runs, Submit(r)
  PROVE  Story(r)'
<1>. DEFINE n == steps[r]
<1>1. /\ Story(r) /\ pc[r] = "submit" /\ pc'[r] = "turn"
      /\ UNCHANGED <<played, ids, diagnosis, context, log>>
      /\ observed'[r] = Append(observed[r], result[r])
      /\ steps'[r] = n + 1
  BY DEF IInv, Typed, Submit, Remembered, Goto, serverVars
<1>2. Answers(r, result[r], played[r]) /\ n \in Nat /\ observed[r] \in Seq(Envelopes)
  BY <1>1 DEF Story, Memory, IInv, Typed
<1>3. Len(ids[r]) = n + 1 /\ played[r] = n + 1 /\ Len(observed[r]) = n
  BY <1>1 DEF Story, Phase, InTurn
<1>4. /\ Len(observed'[r]) = n + 1 /\ observed'[r][n + 1] = result[r]
      /\ \A i \in 1..n : observed'[r][i] = observed[r][i]
  <2>1. result[r] \in Envelopes
    BY <1>2 DEF Answers
  <2>. QED  BY <1>1, <1>2, <1>3, <2>1, AppendProperties
<1>5. Of(r)' = Of(r) /\ \A k : Sig(r, k)' <=> Sig(r, k)
  BY <1>1 DEF Of, Sig
<1>6. Phase(r)'
  BY <1>1, <1>3, <1>4 DEF Phase, InTurn
<1>7. Memory(r)'
  <2>1. \A e, i : Answers(r, e, i)' <=> Answers(r, e, i)
    BY <1>1, <1>5 DEF Answers
  <2>2. \A i \in 1..n : Answers(r, observed[r][i], i)
    BY <1>1 DEF Story, Memory
  <2>3. \A i \in 1..(n + 1) : Answers(r, observed'[r][i], i)
    <3>1. \A i \in 1..(n + 1) : i \in 1..n \/ i = n + 1
      BY <1>2
    <3>. HIDE DEF n
    <3>. QED  BY <1>2, <1>3, <1>4, <2>2, <3>1
  <2>4. \A i \in 1..steps'[r] : Answers(r, observed[r][i], i)'
    BY <1>1, <2>3, <1>5 DEF Answers
  <2>. QED  BY <1>1, <2>4 DEF Memory
<1>8. Book(r)'
  BY <1>1, <1>3, <1>5 DEF Story, Book
<1>9. Verdict(r)'
  BY <1>1 DEF Story, Verdict
<1>. QED  BY <1>6, <1>7, <1>8, <1>9 DEF Story

(* The final answer, of a run that has read all four envelopes.            *)
LEMMA StoryConclude ==
  ASSUME IInv, NEW r \in Runs, Conclude(r)
  PROVE  Story(r)'
<1>. DEFINE d == IF Claim(r) = {} THEN None
                 ELSE [claimed |-> Claim(r), findings |-> Findings(r)]
<1>1. /\ Story(r) /\ pc[r] = "turn" /\ pc'[r] = "done" /\ ~Remaining(r)
      /\ UNCHANGED <<played, steps, result, observed, ids, context, log>>
  BY DEF IInv, Typed, Conclude, Goto, serverVars
<1>2. diagnosis'[r] = d
  <2>1. diagnosis = [p \in Runs |-> diagnosis[p]]
    BY DEF IInv, Typed
  <2>2. diagnosis' = [diagnosis EXCEPT ![r] = d]
    BY DEF Conclude
  <2>. HIDE DEF d
  <2>. QED  BY <2>1, <2>2
<1>3. /\ played[r] = 4 /\ steps[r] = 4
      /\ Len(ids[r]) = 4 /\ Len(observed[r]) = 4
  <2>1. played[r] \in 0..4 /\ ~(played[r] < 4)
    BY <1>1, PlaybookFacts DEF Remaining, IInv, Typed
  <2>2. played[r] = 4
    BY <2>1
  <2>. QED  BY <1>1, <2>2 DEF Story, Phase, InTurn
<1>4. \A i \in 1..4 : Answers(r, observed[r][i], i)
  BY <1>1, <1>3 DEF Story, Memory
<1>5. Claim(r) = {[text |-> ids[r][i], tagged |-> FALSE] : i \in 1..4}
  <2>1. ASSUME NEW i \in 1..4
        PROVE  Unwrap(observed[r][i].cid) = [text |-> ids[r][i], tagged |-> FALSE]
    <3>1. observed[r][i].cid = [text |-> ids[r][i], tagged |-> TRUE]
      BY <1>4 DEF Answers
    <3>2. observed[r][i].cid.text = ids[r][i]
      BY <3>1
    <3>. QED  BY <3>2 DEF Unwrap
  <2>2. Claim(r) = {Unwrap(observed[r][i].cid) : i \in 1..4}
    BY <1>3 DEF Claim, Observations
  <2>. QED  BY <2>1, <2>2
<1>6. Rules(r) \subseteq Tools /\ \A k \in Tools : k \in Rules(r) <=> Sig(r, k)
  <2>1. \A k : k \in Rules(r) <=> \E i \in 1..4 : observed[r][i].signal /\ k = observed[r][i].tool
    BY <1>3 DEF Rules, Observations
  <2>2. \A k : k \in Rules(r) <=> \E i \in 1..4 : Sig(r, Playbook[i]) /\ k = Playbook[i]
    BY <1>4, <2>1 DEF Answers
  <2>. QED  BY <2>2, PlaybookFacts
<1>7. /\ Findings(r) \subseteq Tools \cup {"all_clear"}
      /\ \A k \in Tools : k \in Findings(r) <=> Sig(r, k)
      /\ "all_clear" \in Findings(r) <=> \A k \in Tools : ~Sig(r, k)
  <2>1. CASE Rules(r) = {}
    BY <1>6, <2>1, PlaybookFacts DEF Findings
  <2>2. CASE Rules(r) # {}
    BY <1>6, <2>2, PlaybookFacts DEF Findings
  <2>. QED  BY <2>1, <2>2
<1>8. Of(r)' = Of(r) /\ \A k : Sig(r, k)' <=> Sig(r, k)
  BY <1>1 DEF Of, Sig
<1>9. Phase(r)'
  BY <1>1 DEF Story, Phase, InTurn
<1>10. Memory(r)'
  <2>1. \A e, i : Answers(r, e, i)' <=> Answers(r, e, i)
    BY <1>1, <1>8 DEF Answers
  <2>. QED  BY <1>1, <2>1 DEF Story, Memory
<1>11. Book(r)'
  BY <1>1, <1>8 DEF Story, Book
<1>12. Verdict(r)'
  <2>. SUFFICES ASSUME d # None PROVE Verdict(r)'
    BY <1>2 DEF Verdict
  <2>1. d.claimed = Claim(r) /\ d.findings = Findings(r)
    OBVIOUS
  <2>. HIDE DEF d
  <2>2. d.claimed = {[text |-> ids'[r][i], tagged |-> FALSE] : i \in 1..Len(ids'[r])}
    BY <1>1, <1>3, <1>5, <2>1
  <2>3. \A k \in Tools : k \in d.findings <=> Sig(r, k)'
    BY <1>7, <1>8, <2>1
  <2>4. "all_clear" \in d.findings <=> \A k \in Tools : ~Sig(r, k)'
    BY <1>7, <1>8, <2>1
  <2>. QED  BY <1>1, <1>2, <1>7, <2>1, <2>2, <2>3, <2>4 DEF Verdict
<1>. QED  BY <1>9, <1>10, <1>11, <1>12 DEF Story

LEMMA StoryStep ==
  ASSUME IInv, [Next]_vars, NEW q \in Runs
  PROVE  Story(q)'
<1>1. ASSUME NEW r \in Runs, Start(r) \/ Step(r)
      PROVE  Story(r)'
  <2>0. Story(r) /\ steps[r] \in Nat
    BY DEF IInv, Typed
  <2>1. ASSUME Start(r) \/ AskNext(r) \/ Invoke(r) \/ Exhaust(r)
        PROVE  Story(r)'
    <3>1. UNCHANGED <<steps, ids, observed, diagnosis, log>>
      BY <2>1 DEF Start, AskNext, Invoke, Exhaust, engineVars, serverVars
    <3>2. /\ pc[r] \in {"idle", "turn", "calls"}
          /\ pc'[r] \in {"turn", "calls", "tool", "done"}
      BY <2>1 DEF Start, AskNext, Invoke, Exhaust, Goto, IInv, Typed
    <3>3. ~InTurn(r)' => played'[r] = steps[r] /\ ~InTurn(r)
      BY <2>0, <2>1 DEF Start, AskNext, Invoke, Exhaust, Goto, IInv, Typed, engineVars,
                        InTurn, Story, Phase
    <3>4. InTurn(r)' => played'[r] = steps[r] + 1 /\ steps[r] < MaxSteps[r]
      BY <2>0, <2>1 DEF Start, AskNext, Invoke, Exhaust, Goto, IInv, Typed, engineVars,
                        InTurn, Story, Phase, InBudget
    <3>. QED  BY <2>0, <3>1, <3>2, <3>3, <3>4, StoryMoves
  <2>. QED  BY <1>1, <2>1, StoryAudit, StoryObserve, StorySubmit, StoryConclude DEF Step
<1>2. CASE UNCHANGED vars
  <2>1. UNCHANGED <<pc, played, steps, result, observed, ids, diagnosis, context, log>>
    BY <1>2 DEF vars, engineVars, serverVars
  <2>2. Of(q)' = Of(q) /\ Story(q)
    BY <2>1 DEF Of, IInv
  <2>. QED  BY <2>1, <2>2, Elsewhere
<1>. QED  BY <1>1, <1>2, StoryElsewhere DEF Next

-----------------------------------------------------------------------------
(* The invariant holds in every reachable state of the composition.        *)
THEOREM Invariance == Spec => []IInv
<1>1. Init => IInv
  BY InitInv
<1>2. IInv /\ [Next]_vars => IInv'
  <2>. SUFFICES ASSUME IInv, [Next]_vars PROVE IInv'
    OBVIOUS
  <2>1. Typed' /\ Served'
    BY TypedStep, ServedStep
  <2>2. \A q \in Runs : Story(q)'
    BY StoryStep
  <2>. QED  BY <2>1, <2>2 DEF IInv
<1>. QED  BY <1>1, <1>2, PTL DEF Spec

(* Type correctness of the engine in the loop, for every number of runs    *)
(* and every budget: the playbook is never read past its end               *)
(* (rule_llm.py:50).                                                       *)
THEOREM TypeCorrect == Spec => []TypeOK
<1>1. IInv => TypeOK
  <2>. SUFFICES ASSUME IInv PROVE TypeOK
    OBVIOUS
  <2>1. \A i \in 1..Len(log) : log[i] \in Records
    BY ElementOfSeq DEF IInv, Served
  <2>2. \A i \in 1..Len(log) : log[i].run \in Runs /\ log[i].cid \in Nat /\ log[i].tool \in Tools
    BY <2>1 DEF Records
  <2>3. ASSUME NEW r \in Runs, diagnosis[r] # None
        PROVE  /\ diagnosis[r].claimed \subseteq Ids
               /\ diagnosis[r].findings \subseteq Tools \cup {"all_clear"}
    <3>1. ids[r] \in Seq(Nat)
      BY DEF IInv, Typed
    <3>2. \A i \in 1..Len(ids[r]) : ids[r][i] \in Nat
      BY <3>1, ElementOfSeq
    <3>3. Verdict(r)
      BY DEF IInv, Story
    <3>4. \A i \in 1..Len(ids[r]) : [text |-> ids[r][i], tagged |-> FALSE] \in Ids
      BY <3>2 DEF Ids
    <3>. QED  BY <2>3, <3>3, <3>4 DEF Verdict
  <2>4. 0..Len(Playbook) = 0..4
    BY PlaybookFacts
  <2>. QED  BY <2>2, <2>3, <2>4 DEF TypeOK, IInv, Typed
<1>. QED  BY <1>1, Invariance, PTL

(* The engine never trips the cross-check of loop.py:23-25: what it claims *)
(* is the ground truth of its run, although it reads every id wrapped.     *)
THEOREM ClaimIsHonest == Spec => []HonestClaim
<1>1. IInv => HonestClaim
  BY DEF IInv, Story, Verdict, HonestClaim
<1>. QED  BY <1>1, Invariance, PTL

(* The diagnosis says what the tools said: a finding for each signal the   *)
(* server answered this run with, and no other (rule_llm.py:74-141).       *)
THEOREM NothingIsMissed == Spec => []NothingMissed
<1>1. IInv => NothingMissed
  <2>. SUFFICES ASSUME IInv, NEW r \in Runs, diagnosis[r] # None
                PROVE  /\ \A k \in Tools : k \in diagnosis[r].findings <=> Signalled(r, k)
                       /\ "all_clear" \in diagnosis[r].findings <=>
                            \A k \in Tools : ~Signalled(r, k)
    BY DEF NothingMissed
  <2>1. \A k : Signalled(r, k) <=> Sig(r, k)
    BY DEF Signalled, Sig, Of
  <2>2. Verdict(r)
    BY DEF IInv, Story
  <2>. QED  BY <2>1, <2>2 DEF Verdict
<1>. QED  BY <1>1, Invariance, PTL

-----------------------------------------------------------------------------
(* The refinement: what each step does to the state of AgentLoop.          *)

LEMMA InitMaps == Init => Loop!Init
<1>. SUFFICES ASSUME Init PROVE Loop!Init
  OBVIOUS
<1>. USE DEF Init
<1>1. loopProvider = [r \in Runs |-> None] /\ loopPc = [r \in Runs |-> "idle"]
  BY DEF loopProvider, loopPc
<1>2. loopPending = [r \in Runs |-> << >>] /\ loopResults = [r \in Runs |-> << >>]
  BY DEF loopPending, loopResults
<1>3. loopTranscript = [r \in Runs |-> << >>]
  <2>1. ASSUME NEW r \in Runs PROVE Conversation(r) = << >>
    BY DEF Conversation
  <2>. QED  BY <2>1 DEF loopTranscript
<1>4. loopReport = [r \in Runs |-> None]
  BY DEF loopReport
<1>5. loopLog = << >>
  BY DEF loopLog
<1>. QED  BY <1>1, <1>2, <1>3, <1>4, <1>5 DEF Loop!Init

LEMMA StutterMaps == UNCHANGED vars => UNCHANGED Loop!vars
<1>. SUFFICES ASSUME UNCHANGED vars PROVE UNCHANGED Loop!vars
  OBVIOUS
<1>0. UNCHANGED <<pc, played, steps, ids, diagnosis, error, minted, context, log>>
  BY DEF vars, engineVars, serverVars
<1>1. UNCHANGED <<loopProvider, loopPc, loopPending, loopResults>>
  BY <1>0 DEF loopProvider, loopPc, loopPending, loopResults
<1>2. UNCHANGED loopTranscript
  BY <1>0 DEF loopTranscript, Conversation
<1>3. UNCHANGED loopReport
  BY <1>0 DEF loopReport, Claimed
<1>4. UNCHANGED loopLog
  BY <1>0 DEF loopLog
<1>. QED  BY <1>0, <1>1, <1>2, <1>3, <1>4 DEF Loop!vars, Loop!runVars, Loop!serverVars

LEMMA StartMaps ==
  ASSUME IInv, NEW r \in Runs, Start(r)
  PROVE  Loop!Start(r, "scripted")
<1>0. /\ pc \in [Runs -> {"idle", "turn", "calls", "tool", "answer", "submit", "done"}]
      /\ pc[r] = "idle" /\ pc' = [pc EXCEPT ![r] = "turn"]
      /\ UNCHANGED <<played, steps, ids, diagnosis, error, minted, context, log>>
  BY DEF IInv, Typed, Start, Goto, engineVars, serverVars
<1>1. loopProvider' = [loopProvider EXCEPT ![r] = "scripted"]
  BY <1>0 DEF loopProvider
<1>2. loopPc[r] = "idle" /\ loopPc' = [loopPc EXCEPT ![r] = "turn"]
  BY <1>0 DEF loopPc
<1>3. UNCHANGED <<loopPending, loopResults>>
  BY <1>0 DEF loopPending, loopResults
<1>4. UNCHANGED loopTranscript
  BY <1>0 DEF loopTranscript, Conversation
<1>5. UNCHANGED <<loopReport, loopLog>>
  BY <1>0 DEF loopReport, loopLog, Claimed
<1>. QED  BY <1>0, <1>1, <1>2, <1>3, <1>4, <1>5 DEF Loop!Start, Loop!Goto, Loop!serverVars

LEMMA InvokeMaps ==
  ASSUME IInv, NEW r \in Runs, Invoke(r)
  PROVE  Loop!Invoke(r)
<1>0. /\ pc \in [Runs -> {"idle", "turn", "calls", "tool", "answer", "submit", "done"}]
      /\ pc[r] = "calls" /\ pc' = [pc EXCEPT ![r] = "tool"]
      /\ minted' = minted + 1 /\ context' = [context EXCEPT ![r] = minted + 1]
      /\ UNCHANGED <<played, steps, ids, diagnosis, error, log>>
  BY DEF IInv, Typed, Invoke, Goto, engineVars
<1>1. UNCHANGED loopProvider
  BY <1>0 DEF loopProvider
<1>2. loopPc[r] = "calls" /\ loopPc' = [loopPc EXCEPT ![r] = "tool"]
  BY <1>0 DEF loopPc
<1>3. UNCHANGED <<loopPending, loopResults>>
  BY <1>0 DEF loopPending, loopResults
<1>4. UNCHANGED loopTranscript
  BY <1>0 DEF loopTranscript, Conversation
<1>5. UNCHANGED <<loopReport, loopLog>>
  BY <1>0 DEF loopReport, loopLog, Claimed
<1>6. /\ loopPending[r] = <<[id |-> CallOf(played[r]), args |-> "object"]>>
      /\ Head(loopPending[r]) = [id |-> CallOf(played[r]), args |-> "object"]
      /\ loopPending[r] # << >>
  BY <1>0 DEF loopPending
<1>7. Loop!Listed(Head(loopPending[r]))
  BY <1>6 DEF Loop!Listed, CallOf
<1>. QED  BY <1>0, <1>1, <1>2, <1>3, <1>4, <1>5, <1>6, <1>7
          DEF Loop!Invoke, Loop!Mint, Loop!Goto, Loop!runVars

LEMMA AuditMaps ==
  ASSUME IInv, NEW r \in Runs, Audit(r)
  PROVE  Loop!Audit(r)
<1>0. /\ pc \in [Runs -> {"idle", "turn", "calls", "tool", "answer", "submit", "done"}]
      /\ pc[r] = "tool" /\ pc' = [pc EXCEPT ![r] = "answer"]
      /\ UNCHANGED <<played, steps, ids, diagnosis, error, minted, context>>
  BY DEF IInv, Typed, Audit, Goto, engineVars
<1>1. UNCHANGED loopProvider
  BY <1>0 DEF loopProvider
<1>2. loopPc[r] = "tool" /\ loopPc' = [loopPc EXCEPT ![r] = "answer"]
  BY <1>0 DEF loopPc
<1>3. UNCHANGED <<loopPending, loopResults>>
  BY <1>0 DEF loopPending, loopResults
<1>4. UNCHANGED loopTranscript
  BY <1>0 DEF loopTranscript, Conversation
<1>5. UNCHANGED loopReport
  BY <1>0 DEF loopReport, Claimed
<1>6. loopLog' = Append(loopLog, [run |-> r, cid |-> context[r]])
  <2>. DEFINE n == Len(log)
              Entry == [run : Runs, cid : Nat]
              new == [run |-> r, cid |-> context[r]]
  <2>1. PICK e \in Records : log' = Append(log, e) /\ e.run = r /\ e.cid = context[r]
    BY AuditIs
  <2>2. log \in Seq(Records) /\ \A i \in 1..n : log[i] \in Records
    BY ElementOfSeq DEF IInv, Served
  <2>3. /\ n \in Nat /\ Len(log') = n + 1 /\ log'[n + 1] = e
        /\ \A i \in 1..n : log'[i] = log[i]
    BY <2>1, <2>2, AppendProperties, LenProperties
  <2>4. new \in Entry
    BY <2>1 DEF Records
  <2>5. loopLog \in [1..n -> Entry]
    BY <2>2 DEF loopLog, Records
  <2>6. loopLog \in Seq(Entry) /\ Len(loopLog) = n
    <3>. HIDE DEF Entry
    <3>1. loopLog \in Seq(Entry)
      BY <2>3, <2>5, SeqDef
    <3>. QED  BY <2>3, <2>5, <3>1, LenProperties
  <2>. HIDE DEF Entry, new
  <2>7. /\ Append(loopLog, new) \in Seq(Entry) /\ Len(Append(loopLog, new)) = n + 1
        /\ Append(loopLog, new)[n + 1] = new
        /\ \A i \in 1..n : Append(loopLog, new)[i] = loopLog[i]
    BY <2>4, <2>6, AppendProperties
  <2>8. loopLog' = [i \in 1..(n + 1) |-> [run |-> log'[i].run, cid |-> log'[i].cid]]
    BY <2>3 DEF loopLog
  <2>9. Append(loopLog, new) \in [1..(n + 1) -> Entry]
    BY <2>7, LenProperties
  <2>. HIDE DEF n
  <2>10. ASSUME NEW i \in 1..(n + 1)
         PROVE  Append(loopLog, new)[i] = [run |-> log'[i].run, cid |-> log'[i].cid]
    <3>1. CASE i \in 1..n
      <4>1. loopLog[i] = [run |-> log[i].run, cid |-> log[i].cid]
        BY <3>1 DEF loopLog, n
      <4>. QED  BY <2>3, <2>7, <3>1, <4>1
    <3>2. CASE i = n + 1
      BY <2>1, <2>3, <2>7, <3>2 DEF new
    <3>3. i \in 1..n \/ i = n + 1
      BY <2>3
    <3>. QED  BY <3>1, <3>2, <3>3
  <2>. QED  BY <2>8, <2>9, <2>10 DEF new
<1>. QED  BY <1>0, <1>1, <1>2, <1>3, <1>4, <1>5, <1>6 DEF Loop!Audit, Loop!Goto, Loop!runVars

LEMMA ObserveMaps ==
  ASSUME IInv, NEW r \in Runs, Observe(r)
  PROVE  Loop!Observe(r)
<1>0. /\ pc \in [Runs -> {"idle", "turn", "calls", "tool", "answer", "submit", "done"}]
      /\ pc[r] = "answer" /\ pc' = [pc EXCEPT ![r] = "submit"]
      /\ ids' = [ids EXCEPT ![r] = Append(@, context[r])]
      /\ UNCHANGED <<played, steps, diagnosis, error, minted, context, log>>
  BY DEF IInv, Typed, Observe, Captured, Goto, serverVars
<1>. DEFINE call == CallOf(played[r])
<1>1. UNCHANGED loopProvider
  BY <1>0 DEF loopProvider
<1>2. loopPc[r] = "answer" /\ loopPc' = [loopPc EXCEPT ![r] = "calls"]
  BY <1>0 DEF loopPc
<1>3. /\ loopPending[r] = <<[id |-> call, args |-> "object"]>>
      /\ loopResults[r] = << >>
  BY <1>0 DEF loopPending, loopResults
<1>. HIDE DEF call
<1>4. /\ Head(loopPending[r]).id = call /\ Tail(loopPending[r]) = << >>
      /\ Append(loopResults[r], call) = <<call>>
  BY <1>3
<1>5. loopPending' = [loopPending EXCEPT ![r] = Tail(@)]
  BY <1>0, <1>4 DEF loopPending
<1>6. loopResults' = [loopResults EXCEPT ![r] = Append(@, Head(loopPending[r]).id)]
  <2>1. loopResults' = [loopResults EXCEPT ![r] = <<call>>]
    BY <1>0 DEF loopResults, call
  <2>. QED  BY <1>4, <2>1
<1>7. UNCHANGED loopTranscript
  BY <1>0 DEF loopTranscript, Conversation
<1>8. UNCHANGED <<loopReport, loopLog>>
  BY <1>0 DEF loopReport, loopLog, Claimed
<1>. QED  BY <1>0, <1>1, <1>2, <1>5, <1>6, <1>7, <1>8
          DEF Loop!Observe, Loop!Goto, Loop!serverVars

(* The conversation as a function of its length.                           *)
Msg == [i \in Nat |->
  IF i % 2 = 1 THEN [role |-> "assistant", ids |-> <<CallOf((i + 1) \div 2)>>]
  ELSE [role |-> "tool", ids |-> <<CallOf(i \div 2)>>]]

LEMMA ConversationGrows ==
  ASSUME NEW n \in Nat
  PROVE  [i \in 1..(n + 1) |-> Msg[i]] = Append([i \in 1..n |-> Msg[i]], Msg[n + 1])
<1>. DEFINE S == {Msg[i] : i \in Nat}
            short == [i \in 1..n |-> Msg[i]]
            long == [i \in 1..(n + 1) |-> Msg[i]]
<1>1. short \in [1..n -> S] /\ long \in [1..(n + 1) -> S] /\ Msg[n + 1] \in S
  OBVIOUS
<1>2. /\ \A i \in 1..n : short[i] = Msg[i] /\ long[i] = Msg[i]
      /\ long[n + 1] = Msg[n + 1]
  OBVIOUS
<1>. HIDE DEF S, short, long
<1>3. short \in Seq(S) /\ Len(short) = n
  <2>1. short \in Seq(S)
    BY <1>1, SeqDef
  <2>. QED  BY <1>1, <2>1, LenProperties
<1>4. long \in Seq(S) /\ Len(long) = n + 1
  <2>1. long \in Seq(S)
    BY <1>1, SeqDef
  <2>. QED  BY <1>1, <2>1, LenProperties
<1>5. /\ Append(short, Msg[n + 1]) \in Seq(S)
      /\ Len(Append(short, Msg[n + 1])) = n + 1
      /\ Append(short, Msg[n + 1])[n + 1] = Msg[n + 1]
      /\ \A i \in 1..n : Append(short, Msg[n + 1])[i] = short[i]
  BY <1>1, <1>3, AppendProperties
<1>6. \A i \in 1..(n + 1) : i \in 1..n \/ i = n + 1
  OBVIOUS
<1>7. \A i \in 1..(n + 1) : long[i] = Append(short, Msg[n + 1])[i]
  BY <1>2, <1>5, <1>6
<1>8. long = Append(short, Msg[n + 1])
  BY <1>4, <1>5, <1>7, SeqEqual
<1>. QED  BY <1>8 DEF short, long

LEMMA ConversationIs ==
  ASSUME NEW r, played[r] \in Nat, steps[r] \in Nat
  PROVE  Conversation(r) = [i \in 1..(played[r] + steps[r]) |-> Msg[i]]
<1>1. \A i \in 1..(played[r] + steps[r]) : i \in Nat
  OBVIOUS
<1>. QED  BY <1>1 DEF Conversation, Msg

(* Where the messages of a turn stand in the conversation.                 *)
LEMMA MsgOf ==
  ASSUME NEW k \in Nat
  PROVE  /\ Msg[2 * k + 1] = [role |-> "assistant", ids |-> <<CallOf(k + 1)>>]
         /\ Msg[2 * k + 2] = [role |-> "tool", ids |-> <<CallOf(k + 1)>>]
<1>1. /\ 2 * k + 1 \in Nat /\ (2 * k + 1) % 2 = 1
      /\ ((2 * k + 1) + 1) \div 2 = k + 1
  OBVIOUS
<1>2. /\ 2 * k + 2 \in Nat /\ (2 * k + 2) % 2 # 1
      /\ (2 * k + 2) \div 2 = k + 1
  OBVIOUS
<1>. QED  BY <1>1, <1>2 DEF Msg

LEMMA SubmitMaps ==
  ASSUME IInv, NEW r \in Runs, Submit(r)
  PROVE  Loop!Submit(r)
<1>0. /\ pc \in [Runs -> {"idle", "turn", "calls", "tool", "answer", "submit", "done"}]
      /\ pc[r] = "submit" /\ pc' = [pc EXCEPT ![r] = "turn"]
      /\ steps' = [steps EXCEPT ![r] = @ + 1]
      /\ UNCHANGED <<played, ids, diagnosis, error, minted, context, log>>
  BY DEF IInv, Typed, Submit, Goto, serverVars
<1>1. UNCHANGED loopProvider
  BY <1>0 DEF loopProvider
<1>2. loopPc[r] = "calls" /\ loopPc' = [loopPc EXCEPT ![r] = "turn"]
  BY <1>0 DEF loopPc
<1>3. loopPending[r] = << >> /\ UNCHANGED loopPending
  BY <1>0 DEF loopPending
<1>4. loopResults[r] = <<CallOf(played[r])>> /\ loopResults' = [loopResults EXCEPT ![r] = << >>]
  BY <1>0 DEF loopResults
<1>5. loopTranscript' = [loopTranscript EXCEPT ![r] =
        Append(@, [role |-> "tool", ids |-> loopResults[r]])]
  <2>. DEFINE message == [role |-> "tool", ids |-> <<CallOf(played[r])>>]
              n == steps[r]
  <2>1. /\ n \in Nat /\ played[r] \in Nat /\ played[r] = n + 1
        /\ steps'[r] = n + 1 /\ played'[r] = played[r]
    BY <1>0 DEF IInv, Typed, Story, Phase, InTurn
  <2>2. Conversation(r) = [i \in 1..(2 * n + 1) |-> Msg[i]]
    <3>1. played[r] + steps[r] = 2 * n + 1
      BY <2>1
    <3>. QED  BY <2>1, <3>1, ConversationIs
  <2>3. Conversation(r)' = [i \in 1..(2 * n + 2) |-> Msg[i]]
    <3>1. played'[r] + steps'[r] = 2 * n + 2
      BY <2>1
    <3>2. \A i \in 1..(2 * n + 2) : i \in Nat
      BY <2>1
    <3>. QED  BY <3>1, <3>2 DEF Conversation, Msg
  <2>4. Conversation(r)' = Append(Conversation(r), message)
    <3>1. 2 * n + 1 \in Nat /\ (2 * n + 1) + 1 = 2 * n + 2
      BY <2>1
    <3>2. Msg[2 * n + 2] = message
      BY <2>1, MsgOf
    <3>3. [i \in 1..((2 * n + 1) + 1) |-> Msg[i]]
            = Append([i \in 1..(2 * n + 1) |-> Msg[i]], Msg[(2 * n + 1) + 1])
      BY <3>1, ConversationGrows
    <3>. HIDE DEF message, n
    <3>. QED  BY <2>2, <2>3, <3>1, <3>2, <3>3
  <2>5. \A q \in Runs : q # r => Conversation(q)' = Conversation(q)
    BY <1>0 DEF Conversation
  <2>6. loopTranscript' = [loopTranscript EXCEPT ![r] = Append(@, message)]
    <3>. HIDE DEF message
    <3>. QED  BY <2>4, <2>5 DEF loopTranscript
  <2>. QED  BY <1>4, <2>6
<1>6. UNCHANGED <<loopReport, loopLog>>
  BY <1>0 DEF loopReport, loopLog, Claimed
<1>. QED  BY <1>0, <1>1, <1>2, <1>3, <1>4, <1>5, <1>6
          DEF Loop!Submit, Loop!Goto, Loop!serverVars

(* The call of a turn is a batch of one, of a listed tool.                 *)
LEMMA BatchIs ==
  ASSUME NEW r \in Runs, NEW turn \in Nat
  PROVE  /\ <<[id |-> CallOf(turn), args |-> "object"]>> \in Loop!Batches(r, "scripted", {turn})
         /\ Loop!CallIds(<<[id |-> CallOf(turn), args |-> "object"]>>) = <<CallOf(turn)>>
<1>. DEFINE ask == <<"listed", "object", turn>>
            q == [i \in 1..1 |-> ask]
            call == [id |-> CallOf(turn), args |-> "object"]
            Shape(x) == [i \in 1..Len(x) |-> [id |-> Loop!CallId(x[i][3], i, x[i][1]), args |-> x[i][2]]]
<1>1. ask \in Loop!Requests("scripted", {turn})
  <2>1. "object" \in {Loop!Parsed("scripted", raw) : raw \in Loop!Raws("scripted")}
    BY DEF Loop!Parsed, Loop!Raws
  <2>. QED  BY <2>1 DEF Loop!Requests, Loop!Names
<1>2. q \in [1..1 -> Loop!Requests("scripted", {turn})]
  BY <1>1
<1>3. q \in UNION {[1..n -> Loop!Requests("scripted", {turn})] : n \in 1..[s \in Runs |-> 1][r]}
  <2>1. [s \in Runs |-> 1][r] = 1 /\ 1 \in 1..1
    OBVIOUS
  <2>. HIDE DEF q
  <2>. QED  BY <1>2, <2>1
<1>4. Len(q) = 1 /\ q[1][1] = "listed" /\ q[1][2] = "object" /\ q[1][3] = turn
  OBVIOUS
<1>5. Shape(q) = <<call>>
  <2>1. Loop!CallId(turn, 1, "listed") = CallOf(turn)
    BY DEF Loop!CallId, CallOf
  <2>2. Shape(q) = [i \in 1..1 |-> call]
    BY <1>4, <2>1
  <2>. HIDE DEF call
  <2>. QED  BY <2>2
<1>. HIDE DEF q
<1>6. <<call>> \in Loop!Batches(r, "scripted", {turn})
  BY <1>3, <1>5 DEF Loop!Batches
<1>7. Loop!CallIds(<<call>>) = <<CallOf(turn)>>
  BY DEF Loop!CallIds
<1>. QED  BY <1>6, <1>7

LEMMA AskMaps ==
  ASSUME IInv, NEW r \in Runs, AskNext(r)
  PROVE  Loop!AskTools(r)
<1>. DEFINE n == steps[r]
            b == <<[id |-> CallOf(n + 1), args |-> "object"]>>
            message == [role |-> "assistant", ids |-> <<CallOf(n + 1)>>]
<1>0. /\ pc \in [Runs -> {"idle", "turn", "calls", "tool", "answer", "submit", "done"}]
      /\ pc[r] = "turn" /\ pc' = [pc EXCEPT ![r] = "calls"]
      /\ played' = [played EXCEPT ![r] = @ + 1]
      /\ UNCHANGED <<steps, ids, diagnosis, error, minted, context, log>>
  BY DEF IInv, Typed, AskNext, Goto, serverVars
<1>1. n \in Nat /\ played[r] = n /\ played'[r] = n + 1 /\ n < MaxSteps[r]
  BY <1>0 DEF IInv, Typed, Story, Phase, InTurn, AskNext, InBudget
<1>2. loopProvider[r] = "scripted" /\ UNCHANGED loopProvider
  BY <1>0 DEF loopProvider
<1>3. loopPc[r] = "turn" /\ loopPc' = [loopPc EXCEPT ![r] = "calls"]
  BY <1>0 DEF loopPc
<1>4. loopPending' = [loopPending EXCEPT ![r] = b]
  <2>1. \A q \in Runs : q # r => pc'[q] = pc[q] /\ played'[q] = played[q]
    BY <1>0 DEF IInv, Typed
  <2>2. pc'[r] = "calls"
    BY <1>0
  <2>. QED  BY <1>1, <2>1, <2>2 DEF loopPending
<1>5. UNCHANGED loopResults
  <2>1. \A q \in Runs : q # r => pc'[q] = pc[q] /\ played'[q] = played[q]
    BY <1>0 DEF IInv, Typed
  <2>2. pc'[r] = "calls" /\ pc[r] = "turn"
    BY <1>0
  <2>. QED  BY <2>1, <2>2 DEF loopResults
<1>6. loopTranscript' = [loopTranscript EXCEPT ![r] = Append(@, message)]
  <2>1. Conversation(r) = [i \in 1..(2 * n) |-> Msg[i]]
    <3>1. played[r] + steps[r] = 2 * n
      BY <1>1
    <3>. QED  BY <1>1, <3>1, ConversationIs
  <2>2. Conversation(r)' = [i \in 1..(2 * n + 1) |-> Msg[i]]
    <3>1. played'[r] + steps'[r] = 2 * n + 1
      BY <1>0, <1>1
    <3>2. \A i \in 1..(2 * n + 1) : i \in Nat
      BY <1>1
    <3>. QED  BY <3>1, <3>2 DEF Conversation, Msg
  <2>3. Conversation(r)' = Append(Conversation(r), message)
    <3>1. 2 * n \in Nat
      BY <1>1
    <3>2. Msg[2 * n + 1] = message
      BY <1>1, MsgOf
    <3>3. [i \in 1..(2 * n + 1) |-> Msg[i]]
            = Append([i \in 1..(2 * n) |-> Msg[i]], Msg[2 * n + 1])
      BY <3>1, ConversationGrows
    <3>. HIDE DEF message, n
    <3>. QED  BY <2>1, <2>2, <3>2, <3>3
  <2>4. \A q \in Runs : q # r => Conversation(q)' = Conversation(q)
    <3>1. \A q \in Runs : q # r => played'[q] = played[q] /\ steps'[q] = steps[q]
      BY <1>0 DEF IInv, Typed
    <3>. QED  BY <3>1 DEF Conversation
  <2>. HIDE DEF message
  <2>. QED  BY <2>3, <2>4 DEF loopTranscript
<1>7. UNCHANGED <<loopReport, loopLog>>
  BY <1>0 DEF loopReport, loopLog, Claimed
<1>8. b \in Loop!Batches(r, loopProvider[r], Loop!Turns(r)) /\ Loop!CallIds(b) = <<CallOf(n + 1)>>
  <2>1. Loop!Turns(r) = {n + 1}
    BY <1>2 DEF Loop!Turns
  <2>2. b \in Loop!Batches(r, "scripted", {n + 1}) /\ Loop!CallIds(b) = <<CallOf(n + 1)>>
    BY <1>1, BatchIs
  <2>. QED  BY <1>2, <2>1, <2>2
<1>9. \E c \in Loop!Batches(r, loopProvider[r], Loop!Turns(r)) :
        /\ loopPending' = [loopPending EXCEPT ![r] = c]
        /\ loopTranscript' = [loopTranscript EXCEPT ![r] =
             Append(@, [role |-> "assistant", ids |-> Loop!CallIds(c)])]
  <2>. HIDE DEF b
  <2>. QED  BY <1>4, <1>6, <1>8
<1>. QED  BY <1>0, <1>1, <1>2, <1>3, <1>5, <1>7, <1>9
          DEF Loop!AskTools, Loop!InBudget, Loop!Goto, Loop!serverVars

LEMMA ExhaustMaps ==
  ASSUME IInv, NEW r \in Runs, Exhaust(r)
  PROVE  Loop!Exhaust(r)
<1>0. /\ pc \in [Runs -> {"idle", "turn", "calls", "tool", "answer", "submit", "done"}]
      /\ pc[r] = "turn" /\ pc' = [pc EXCEPT ![r] = "done"]
      /\ error' = [error EXCEPT ![r] = "max_steps"]
      /\ UNCHANGED <<played, steps, ids, diagnosis, minted, context, log>>
  BY DEF IInv, Typed, Exhaust, Goto, serverVars
<1>1. steps[r] = MaxSteps[r]
  <2>1. steps[r] \in Nat /\ MaxSteps[r] \in Nat /\ steps[r] <= MaxSteps[r]
    BY EngineAssumption DEF IInv, Typed
  <2>2. ~(steps[r] < MaxSteps[r])
    BY DEF Exhaust, InBudget
  <2>. QED  BY <2>1, <2>2
<1>2. UNCHANGED loopProvider
  BY <1>0 DEF loopProvider
<1>3. loopPc[r] = "turn" /\ loopPc' = [loopPc EXCEPT ![r] = "done"]
  BY <1>0 DEF loopPc
<1>4. UNCHANGED <<loopPending, loopResults>>
  BY <1>0 DEF loopPending, loopResults
<1>5. UNCHANGED loopTranscript
  BY <1>0 DEF loopTranscript, Conversation
<1>6. UNCHANGED <<loopReport, loopLog>>
  BY <1>0 DEF loopReport, loopLog, Claimed
<1>. QED  BY <1>0, <1>1, <1>2, <1>3, <1>4, <1>5, <1>6
          DEF Loop!Exhaust, Loop!Goto, Loop!serverVars

(* The answer of the engine is one that the schema accepts: it claims the  *)
(* four ids of the run, and its findings cite them all.                    *)
LEMMA ConcludeMaps ==
  ASSUME IInv, NEW r \in Runs, Conclude(r)
  PROVE  Loop!Finish(r)
<1>. DEFINE d == [claimed |-> Claim(r), findings |-> Findings(r)]
            real == {ids[r][i] : i \in 1..Len(ids[r])}
            a == [claimed |-> real, findings |-> {real}]
<1>0. /\ pc \in [Runs -> {"idle", "turn", "calls", "tool", "answer", "submit", "done"}]
      /\ pc[r] = "turn" /\ pc' = [pc EXCEPT ![r] = "done"]
      /\ UNCHANGED <<played, steps, ids, minted, context, log>>
      /\ diagnosis' = [diagnosis EXCEPT ![r] = IF Claim(r) = {} THEN None ELSE d]
      /\ error' = [error EXCEPT ![r] = IF Claim(r) = {} THEN "schema" ELSE None]
  BY DEF IInv, Typed, Conclude, Goto, serverVars
<1>1. Story(r)' /\ Typed'
  <2>1. Step(r)
    BY DEF Step
  <2>2. [Next]_vars
    BY <2>1 DEF Next
  <2>. QED  BY <2>2, StoryStep, TypedStep
<1>2. /\ ids[r] \in Seq(Nat) /\ Len(ids[r]) = 4 /\ Len(observed[r]) = 4
      /\ \A i \in 1..4 : observed[r][i].cid = [text |-> ids[r][i], tagged |-> TRUE]
  <2>1. played[r] \in 0..4 /\ ~(played[r] < 4)
    BY PlaybookFacts DEF Conclude, Remaining, IInv, Typed
  <2>2. played[r] = 4
    BY <2>1
  <2>3. steps[r] = 4 /\ Len(ids[r]) = 4 /\ Len(observed[r]) = 4
    BY <1>0, <2>2 DEF IInv, Story, Phase, InTurn
  <2>. QED  BY <2>3 DEF IInv, Typed, Story, Memory, Answers
<1>3. real \in SUBSET Nat /\ real # {}
  <2>1. \A i \in 1..Len(ids[r]) : ids[r][i] \in Nat
    BY <1>2, ElementOfSeq
  <2>2. 1 \in 1..Len(ids[r])
    BY <1>2
  <2>. QED  BY <2>1, <2>2
<1>4. Claim(r) = {[text |-> x, tagged |-> FALSE] : x \in real}
  <2>1. ASSUME NEW i \in 1..4
        PROVE  Unwrap(observed[r][i].cid) = [text |-> ids[r][i], tagged |-> FALSE]
    <3>1. observed[r][i].cid = [text |-> ids[r][i], tagged |-> TRUE]
      BY <1>2
    <3>2. observed[r][i].cid.text = ids[r][i]
      BY <3>1
    <3>. QED  BY <3>2 DEF Unwrap
  <2>2. Claim(r) = {Unwrap(observed[r][i].cid) : i \in 1..4}
    BY <1>2 DEF Claim, Observations
  <2>3. Claim(r) = {[text |-> ids[r][i], tagged |-> FALSE] : i \in 1..4}
    BY <2>1, <2>2
  <2>. QED  BY <1>2, <2>3
<1>5. Claim(r) # {}
  BY <1>3, <1>4
<1>6. d # None
  <2>1. Claim(r) \in SUBSET Ids
    <3>. HIDE DEF real
    <3>1. \A x \in real : [text |-> x, tagged |-> FALSE] \in Ids
      BY <1>3 DEF Ids
    <3>. QED  BY <1>4, <3>1
  <2>2. Findings(r) \in SUBSET (Tools \cup {"all_clear"})
    <3>1. observed[r] \in Seq(Envelopes)
      BY DEF IInv, Typed
    <3>2. \A i \in 1..Len(observed[r]) : observed[r][i] \in Envelopes
      BY <3>1, ElementOfSeq
    <3>3. \A o \in Observations(r) : o.tool \in Tools
      BY <3>2 DEF Observations, Envelopes
    <3>4. Rules(r) \subseteq Tools
      BY <3>3 DEF Rules
    <3>. QED  BY <3>4 DEF Findings
  <2>. QED  BY <2>1, <2>2, EngineAssumption
<1>7. Claimed(d) = real
  <2>1. d.claimed = Claim(r)
    OBVIOUS
  <2>. HIDE DEF d, real
  <2>2. ASSUME NEW x \in real, NEW id, id = [text |-> x, tagged |-> FALSE]
        PROVE  (IF id.tagged THEN Invented ELSE id.text) = x
    <3>1. id.text = x /\ id.tagged = FALSE
      BY <2>2
    <3>. QED  BY <3>1
  <2>3. \A y : y \in Claimed(d) <=> \E id \in Claim(r) : y = IF id.tagged THEN Invented ELSE id.text
    BY <2>1 DEF Claimed
  <2>4. ASSUME NEW y \in Claimed(d)
        PROVE  y \in real
    <3>1. PICK id \in Claim(r) : y = IF id.tagged THEN Invented ELSE id.text
      BY <2>3
    <3>2. PICK x \in real : id = [text |-> x, tagged |-> FALSE]
      BY <1>4
    <3>3. (IF id.tagged THEN Invented ELSE id.text) = x
      BY <2>2, <3>2
    <3>. QED  BY <3>1, <3>2, <3>3
  <2>5. ASSUME NEW y \in real
        PROVE  y \in Claimed(d)
    <3>. DEFINE id == [text |-> y, tagged |-> FALSE]
    <3>1. (IF id.tagged THEN Invented ELSE id.text) = y
      BY <2>2
    <3>2. id \in Claim(r)
      BY <1>4
    <3>. HIDE DEF id
    <3>. QED  BY <2>3, <3>1, <3>2
  <2>. QED  BY <2>4, <2>5
<1>8. loopReport' = [loopReport EXCEPT ![r] = a]
  <2>1. diagnosis' = [diagnosis EXCEPT ![r] = d]
    BY <1>0, <1>5
  <2>2. diagnosis = [q \in Runs |-> diagnosis[q]]
    BY DEF IInv, Typed
  <2>. HIDE DEF d, real
  <2>3. diagnosis'[r] = d /\ \A q \in Runs : q # r => diagnosis'[q] = diagnosis[q]
    BY <2>1, <2>2
  <2>4. \A q \in Runs : q # r => Claimed(diagnosis[q])' = Claimed(diagnosis[q])
    BY <2>3 DEF Claimed
  <2>5. Claimed(diagnosis[r])' = real
    BY <1>7, <2>3 DEF Claimed
  <2>. QED  BY <1>6, <2>3, <2>4, <2>5 DEF loopReport
<1>. HIDE DEF d
<1>9. a \in Loop!Answers(r)
  <2>. DEFINE Nameable == real \cup {Invented}
              Findings0(n) == {{f[i] : i \in 1..n} : f \in [1..n -> SUBSET Nameable]}
  <2>1. real \in SUBSET Nameable
    OBVIOUS
  <2>2. {real} \in Findings0(1)
    <3>. DEFINE f == [i \in 1..1 |-> real]
    <3>1. f \in [1..1 -> SUBSET Nameable]
      BY <2>1
    <3>2. {real} = {f[i] : i \in 1..1}
      OBVIOUS
    <3>. HIDE DEF f, Nameable, real
    <3>. QED  BY <3>1, <3>2
  <2>3. {real} \in UNION {Findings0(n) : n \in 0..1}
    <3>1. 1 \in 0..1
      OBVIOUS
    <3>. HIDE DEF Findings0
    <3>. QED  BY <2>2, <3>1
  <2>. QED  BY <2>1, <2>3 DEF Loop!Answers
<1>10. Loop!Accepted(a)
  <2>1. a \in [claimed : SUBSET Nat, findings : SUBSET SUBSET Nat]
    BY <1>3
  <2>2. a # None
    BY <2>1, EngineAssumption
  <2>. QED  BY <1>3, <2>2 DEF Loop!Accepted
<1>11. /\ loopReport' = [loopReport EXCEPT ![r] = IF Loop!Accepted(a) THEN a ELSE None]
       /\ error' = [error EXCEPT ![r] = IF Loop!Accepted(a) THEN None ELSE "schema"]
  <2>. HIDE DEF a
  <2>. QED  BY <1>0, <1>5, <1>8, <1>10
<1>. HIDE DEF a
<1>12. UNCHANGED loopProvider
  BY <1>0 DEF loopProvider
<1>13. loopPc[r] = "turn" /\ loopPc' = [loopPc EXCEPT ![r] = "done"]
  BY <1>0 DEF loopPc
<1>14. UNCHANGED <<loopPending, loopResults>>
  BY <1>0 DEF loopPending, loopResults
<1>15. UNCHANGED loopTranscript
  BY <1>0 DEF loopTranscript, Conversation
<1>16. UNCHANGED loopLog
  BY <1>0 DEF loopLog
<1>17. steps[r] < MaxSteps[r]
  BY DEF Conclude, InBudget
<1>. QED  BY <1>0, <1>9, <1>11, <1>12, <1>13, <1>14, <1>15, <1>16, <1>17
          DEF Loop!Finish, Loop!InBudget, Loop!Goto, Loop!serverVars

(* The rule engine in the loop is an agent loop with a scripted LLM: every *)
(* run of it is one of AgentLoop (rule_llm.py:3), whatever the number of   *)
(* runs, their budgets and what the tools answer.                          *)
THEOREM EngineImplementsLoop == Spec => Implements
<1>1. Init => Loop!Init
  BY InitMaps
<1>2. IInv /\ [Next]_vars => [Loop!Next]_(Loop!vars)
  <2>. SUFFICES ASSUME IInv, [Next]_vars PROVE Loop!Next \/ UNCHANGED Loop!vars
    OBVIOUS
  <2>1. ASSUME NEW r \in Runs, Start(r)
        PROVE  Loop!Next
    <3>1. Loop!Start(r, "scripted")
      BY <2>1, StartMaps
    <3>2. "scripted" \in [q \in Runs |-> {"scripted"}][r]
      OBVIOUS
    <3>. QED  BY <3>1, <3>2 DEF Loop!Next
  <2>2. ASSUME NEW r \in Runs, Step(r)
        PROVE  Loop!Next
    <3>1. Loop!Step(r)
      BY <2>2, AskMaps, InvokeMaps, AuditMaps, ObserveMaps, SubmitMaps, ConcludeMaps, ExhaustMaps
         DEF Step, Loop!Step
    <3>. QED  BY <3>1 DEF Loop!Next
  <2>3. CASE UNCHANGED vars
    BY <2>3, StutterMaps
  <2>. QED  BY <2>1, <2>2, <2>3 DEF Next
<1>. QED  BY <1>1, <1>2, Invariance, PTL DEF Spec, Implements, Loop!Spec
=============================================================================
