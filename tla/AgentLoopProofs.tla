-------------------------- MODULE AgentLoopProofs --------------------------
(***************************************************************************)
(* Proofs about the agent loop, for any number of runs, any budget and any *)
(* size of a turn: type correctness, the ids as ground truth, the          *)
(* soundness of the cross-check, the pairing of calls and results, and the *)
(* conversation on the wire that a hosted provider can always take up.     *)
(*                                                                         *)
(* The argument.  An id enters tool_call_ids only after its record is in   *)
(* the log, and the log only grows (Audited); an accepted diagnosis cites  *)
(* only what it claims (Validated); and while a turn is open, the results  *)
(* collected followed by the calls still to be made are the ids of the     *)
(* last message (Open), so that Submit answers exactly those.  Since ids   *)
(* are minted in ascending order, a run's calls and its records in the log *)
(* are the same ascending series (Trail).  The messages sent add nothing   *)
(* to that and follow from it (TInv): an assistant message leaves exactly  *)
(* its own calls open, and what Submit sends is exactly their ids.         *)
(***************************************************************************)
EXTENDS Transcripts, SequenceTheorems, TLAPS

(* The log l has a record of run r under the id c.                         *)
OnRecord(l, r, c) == \E j \in 1..Len(l) : l[j] = [run |-> r, cid |-> c]

Audited ==
  \A r \in Runs :
    /\ \A i \in 1..Len(ids[r]) : OnRecord(log, r, ids[r][i])
    /\ pc[r] \in {"tool", "answer"} => context[r] \in Nat
    /\ pc[r] = "answer" => OnRecord(log, r, context[r])

Validated ==
  \A r \in Runs : report[r] # None =>
    \A e \in report[r].findings : e # {} /\ e \subseteq report[r].claimed

(* The exchanges that are over.                                            *)
Past(r) ==
  /\ Len(transcript[r]) >= 2 * steps[r]
  /\ \A i \in 1..steps[r] :
       /\ transcript[r][2 * i - 1].role = "assistant"
       /\ transcript[r][2 * i] = [role |-> "tool", ids |-> transcript[r][2 * i - 1].ids]

InTurn(r) == pc[r] \in {"calls", "tool", "answer"}

(* The exchange in progress.                                               *)
Open(r) ==
  LET asked == transcript[r][2 * steps[r] + 1]
  IN  /\ Len(transcript[r]) = 2 * steps[r] + 1
      /\ asked.role = "assistant"
      /\ Len(asked.ids) = Len(results[r]) + Len(pending[r])
      /\ \A i \in 1..Len(results[r]) : asked.ids[i] = results[r][i]
      /\ \A i \in 1..Len(pending[r]) : asked.ids[Len(results[r]) + i] = pending[r][i].id

TalkOf(r) ==
  /\ Past(r)
  /\ InTurn(r) => Open(r)
  /\ InTurn(r) => steps[r] < MaxSteps[r]
  /\ pc[r] \in {"tool", "answer"} => pending[r] # << >>
  /\ pc[r] \in {"idle", "turn"} => results[r] = << >>
  /\ pc[r] \in {"idle", "turn", "done"} => Len(transcript[r]) = 2 * steps[r]

Talk == \A r \in Runs : TalkOf(r)

(* The log and the clock of ids: each record has an id of its own that was *)
(* minted, and the records of one run are in the order of their ids.       *)
Filed ==
  /\ \A i \in 1..Len(log) : log[i].cid <= minted
  /\ \A i, j \in 1..Len(log) : log[i].cid = log[j].cid => i = j
  /\ \A i, j \in 1..Len(log) :
       i < j /\ log[i].run = log[j].run => log[i].cid < log[j].cid

(* The calls of run r, in the order of their ids too, against the log.     *)
MatchedOf(r) ==
  /\ \A k \in 1..Len(Calls(r)) : OnRecord(log, r, Calls(r)[k])
  /\ \A i \in 1..Len(log) : log[i].run = r =>
       \E k \in 1..Len(Calls(r)) : Calls(r)[k] = log[i].cid
  /\ \A k, l \in 1..Len(Calls(r)) : k < l => Calls(r)[k] < Calls(r)[l]

(* The id of a tool still running: later than every call of its run, and   *)
(* neither in the log nor the id of another run's tool.                    *)
WaitingOf(r) == pc[r] = "tool" =>
  /\ context[r] <= minted
  /\ \A i \in 1..Len(log) :
       log[i].cid # context[r] /\ (log[i].run = r => log[i].cid < context[r])
  /\ \A q \in Runs : q # r /\ pc[q] = "tool" => context[q] # context[r]

Trail == Filed /\ \A r \in Runs : MatchedOf(r) /\ WaitingOf(r)

IInv == TypeOK /\ Audited /\ Validated /\ Talk /\ Trail

LEMMA InitInv == Init => IInv
<1>. SUFFICES ASSUME Init PROVE IInv
  OBVIOUS
<1>. USE LoopAssumption DEF Init
<1>1. TypeOK
  BY EmptySeq DEF TypeOK
<1>2. Audited /\ Validated
  BY DEF Audited, Validated
<1>3. Talk
  BY DEF Talk, TalkOf, Past, InTurn
<1>4. Trail
  BY DEF Trail, Filed, MatchedOf, WaitingOf, Calls
<1>. QED  BY <1>1, <1>2, <1>3, <1>4 DEF IInv

-----------------------------------------------------------------------------
(* A batch is a sequence of calls, with ids of the turn or made-up ones.   *)
LEMMA BatchType ==
  ASSUME NEW r \in Runs, NEW p, NEW turns \in SUBSET Nat, NEW b \in Batches(r, p, turns)
  PROVE  /\ b \in Seq([id : CallIdSet, args : {"object", "other"}])
         /\ CallIds(b) \in Seq(CallIdSet)
         /\ Len(CallIds(b)) = Len(b) /\ Len(b) > 0
         /\ \A i \in 1..Len(b) : CallIds(b)[i] = b[i].id
<1>. DEFINE Call == [id : CallIdSet, args : {"object", "other"}]
<1>0. PICK n \in 1..MaxBatch[r] : \E q \in [1..n -> Requests(p, turns)] :
        b = [i \in 1..Len(q) |-> [id |-> CallId(q[i][3], i, q[i][1]), args |-> q[i][2]]]
  BY DEF Batches
<1>1. PICK q \in [1..n -> Requests(p, turns)] :
        b = [i \in 1..Len(q) |-> [id |-> CallId(q[i][3], i, q[i][1]), args |-> q[i][2]]]
  BY <1>0
<1>2. n \in Nat /\ Len(q) = n /\ 1..n \subseteq Nat \ {0}
  BY <1>1, LoopAssumption
<1>3. \A i \in 1..n : q[i][1] \in Names /\ q[i][2] \in {"object", "other"} /\ q[i][3] \in Nat
  BY <1>1 DEF Requests, Parsed
<1>4. \A i \in 1..n : [id |-> CallId(q[i][3], i, q[i][1]), args |-> q[i][2]] \in Call
  BY <1>2, <1>3 DEF CallIdSet, CallId
<1>5. b \in [1..n -> Call]
  BY <1>1, <1>2, <1>4
<1>. HIDE DEF Call
<1>6. b \in Seq(Call) /\ Len(b) = n
  <2>1. b \in Seq(Call)
    BY <1>2, <1>5, SeqDef
  <2>. QED  BY <1>2, <1>5, <2>1, LenProperties
<1>7. CallIds(b) \in [1..n -> CallIdSet]
  BY <1>5, <1>6 DEF CallIds, Call
<1>8. CallIds(b) \in Seq(CallIdSet) /\ Len(CallIds(b)) = n
  <2>1. CallIds(b) \in Seq(CallIdSet)
    BY <1>2, <1>7, SeqDef
  <2>. QED  BY <1>2, <1>7, <2>1, LenProperties
<1>. QED  BY <1>6, <1>8 DEF CallIds, Call

LEMMA AcceptedType ==
  ASSUME TypeOK, NEW r \in Runs, NEW a \in Answers(r), Accepted(a)
  PROVE  /\ a \in Reports
         /\ \A e \in a.findings : e # {} /\ e \subseteq a.claimed
<1>. DEFINE Nameable == {ids[r][i] : i \in 1..Len(ids[r])} \cup {Invented}
            Findings(n) == {{f[i] : i \in 1..n} : f \in [1..n -> SUBSET Nameable]}
<1>1. Nameable \subseteq IdSpace
  BY ElementOfSeq DEF TypeOK, IdSpace
<1>2. a \in [claimed : SUBSET Nameable, findings : UNION {Findings(n) : n \in 0..MaxFindings}]
  BY DEF Answers, Accepted
<1>3. a.claimed \in SUBSET IdSpace
  BY <1>1, <1>2
<1>4. a.findings \in SUBSET SUBSET IdSpace
  <2>1. PICK n \in 0..MaxFindings : a.findings \in Findings(n)
    BY <1>2
  <2>2. PICK f \in [1..n -> SUBSET Nameable] : a.findings = {f[i] : i \in 1..n}
    BY <2>1
  <2>. QED  BY <1>1, <2>2
<1>5. a \in Reports
  BY <1>2, <1>3, <1>4 DEF Reports
<1>. QED  BY <1>5 DEF Accepted

-----------------------------------------------------------------------------
LEMMA TypeStep ==
  ASSUME TypeOK, Talk, Audited, [Next]_vars
  PROVE  TypeOK'
<1>. USE LoopAssumption DEF TypeOK, Goto
<1>. DEFINE Call == [id : CallIdSet, args : {"object", "other"}]
<1>1. ASSUME NEW r \in Runs, NEW p \in Providers[r], Start(r, p)
      PROVE  TypeOK'
  BY <1>1 DEF Start, serverVars
<1>2. ASSUME NEW r \in Runs, AskTools(r)
      PROVE  TypeOK'
  <2>0. steps[r] + 1 \in Nat
    BY <1>2 DEF AskTools, InBudget
  <2>2. Turns(r) \in SUBSET Nat
    BY <2>0 DEF Turns
  <2>3. PICK b \in Batches(r, provider[r], Turns(r)) :
            /\ pending' = [pending EXCEPT ![r] = b]
            /\ transcript' = [transcript EXCEPT ![r] =
                 Append(@, [role |-> "assistant", ids |-> CallIds(b)])]
    BY <1>2 DEF AskTools
  <2>4. b \in Seq(Call) /\ CallIds(b) \in Seq(CallIdSet)
    BY <2>2, BatchType
  <2>5. [role |-> "assistant", ids |-> CallIds(b)] \in Message
    BY <2>4 DEF Message
  <2>6. pending' \in [Runs -> Seq(Call)]
    BY <2>3, <2>4
  <2>7. transcript' \in [Runs -> Seq(Message)]
    BY <2>3, <2>5, AppendProperties
  <2>. QED  BY <1>2, <2>6, <2>7 DEF AskTools, serverVars
<1>3. ASSUME NEW r \in Runs, Finish(r)
      PROVE  TypeOK'
  <2>1. PICK a \in Answers(r) :
          /\ report' = [report EXCEPT ![r] = IF Accepted(a) THEN a ELSE None]
          /\ error' = [error EXCEPT ![r] = IF Accepted(a) THEN None ELSE "schema"]
    BY <1>3 DEF Finish
  <2>2. Accepted(a) => a \in Reports
    BY AcceptedType
  <2>3. report' \in [Runs -> Reports \cup {None}]
    BY <2>1, <2>2
  <2>. QED  BY <1>3, <2>1, <2>3 DEF Finish, serverVars
<1>4. ASSUME NEW r \in Runs, GiveUp(r) \/ Exhaust(r)
      PROVE  TypeOK'
  BY <1>4 DEF GiveUp, Exhaust, serverVars
<1>5. ASSUME NEW r \in Runs, Fail(r) \/ Misfit(r)
      PROVE  TypeOK'
  BY <1>5 DEF Fail, Misfit, serverVars, runVars
<1>6. ASSUME NEW r \in Runs, Refuse(r)
      PROVE  TypeOK'
  <2>1. Head(pending[r]) \in Call /\ Tail(pending[r]) \in Seq(Call)
    BY <1>6, HeadTailProperties DEF Refuse
  <2>2. results' \in [Runs -> Seq(CallIdSet)]
    BY <1>6, <2>1, AppendProperties DEF Refuse
  <2>3. pending' \in [Runs -> Seq(Call)]
    BY <1>6, <2>1 DEF Refuse
  <2>. QED  BY <1>6, <2>2, <2>3 DEF Refuse, serverVars
<1>7. ASSUME NEW r \in Runs, Invoke(r)
      PROVE  TypeOK'
  <2>1. minted' \in Nat /\ context' \in [Runs -> Nat \cup {None}]
    BY <1>7 DEF Invoke, Mint
  <2>2. pc' \in [Runs -> {"idle", "turn", "calls", "tool", "answer", "done", "raised"}]
    BY <1>7 DEF Invoke
  <2>3. UNCHANGED <<runVars, log>>
    BY <1>7 DEF Invoke
  <2>. QED  BY <2>1, <2>2, <2>3 DEF runVars
<1>8. ASSUME NEW r \in Runs, Audit(r)
      PROVE  TypeOK'
  <2>1. context[r] \in Nat
    BY <1>8 DEF Audit, Audited
  <2>2. log' \in Seq([run : Runs, cid : Nat])
    BY <1>8, <2>1, AppendProperties DEF Audit
  <2>. QED  BY <1>8, <2>2 DEF Audit, runVars
<1>9. ASSUME NEW r \in Runs, Observe(r)
      PROVE  TypeOK'
  <2>0. context[r] \in Nat /\ pending[r] # << >>
    BY <1>9 DEF Observe, Audited, Talk, TalkOf
  <2>1. Head(pending[r]) \in Call /\ Tail(pending[r]) \in Seq(Call)
    BY <2>0, HeadTailProperties
  <2>2. results' \in [Runs -> Seq(CallIdSet)]
    BY <1>9, <2>1, AppendProperties DEF Observe
  <2>3. pending' \in [Runs -> Seq(Call)]
    BY <1>9, <2>1 DEF Observe
  <2>4. ids' \in [Runs -> Seq(Nat)]
    BY <1>9, <2>0, AppendProperties DEF Observe
  <2>. QED  BY <1>9, <2>2, <2>3, <2>4 DEF Observe, serverVars
<1>10. ASSUME NEW r \in Runs, Submit(r)
       PROVE  TypeOK'
  <2>1. [role |-> "tool", ids |-> results[r]] \in Message
    BY DEF Message
  <2>2. transcript' \in [Runs -> Seq(Message)]
    BY <1>10, <2>1, AppendProperties DEF Submit
  <2>3. steps[r] < MaxSteps[r]
    BY <1>10 DEF Submit, Talk, TalkOf, InTurn
  <2>4. steps' \in [Runs -> Nat] /\ \A q \in Runs : steps'[q] <= MaxSteps[q]
    BY <1>10, <2>3 DEF Submit
  <2>5. results' \in [Runs -> Seq(CallIdSet)]
    BY <1>10, EmptySeq DEF Submit
  <2>. QED  BY <1>10, <2>2, <2>4, <2>5 DEF Submit, serverVars
<1>11. CASE UNCHANGED vars
  BY <1>11 DEF vars, runVars, serverVars
<1>. QED  BY <1>1, <1>2, <1>3, <1>4, <1>5, <1>6, <1>7, <1>8, <1>9, <1>10, <1>11 DEF Next, Step


(* A log that grows keeps its records and has the new one.                 *)
LEMMA RecordedAppend ==
  ASSUME NEW l \in Seq([run : Runs, cid : Nat]), NEW r \in Runs, NEW c \in Nat
  PROVE  /\ OnRecord(Append(l, [run |-> r, cid |-> c]), r, c)
         /\ \A q, d : OnRecord(l, q, d) => OnRecord(Append(l, [run |-> r, cid |-> c]), q, d)
<1>. DEFINE e == [run |-> r, cid |-> c]
            longer == Append(l, e)
<1>1. Len(l) \in Nat
  BY LenProperties
<1>2. /\ Len(longer) = Len(l) + 1
      /\ longer[Len(l) + 1] = e
      /\ \A j \in 1..Len(l) : longer[j] = l[j]
  BY AppendProperties
<1>. HIDE DEF longer
<1>3. OnRecord(longer, r, c)
  BY <1>1, <1>2 DEF OnRecord
<1>4. ASSUME NEW q, NEW d, OnRecord(l, q, d)
      PROVE  OnRecord(longer, q, d)
  <2>1. PICK j \in 1..Len(l) : l[j] = [run |-> q, cid |-> d]
    BY <1>4 DEF OnRecord
  <2>2. j \in 1..Len(longer) /\ longer[j] = [run |-> q, cid |-> d]
    BY <1>1, <1>2, <2>1
  <2>. QED  BY <2>2 DEF OnRecord
<1>. QED  BY <1>3, <1>4 DEF longer

LEMMA AuditedStep ==
  ASSUME TypeOK, Talk, Audited, [Next]_vars
  PROVE  Audited'
<1>. USE DEF TypeOK, Goto
<1>1. ASSUME NEW r \in Runs,
             AskTools(r) \/ Finish(r) \/ GiveUp(r) \/ Fail(r) \/ Exhaust(r)
               \/ Refuse(r) \/ Misfit(r) \/ Submit(r) \/ \E p \in Providers[r] : Start(r, p)
      PROVE  Audited'
  <2>1. UNCHANGED <<ids, log, context>>
    BY <1>1 DEF AskTools, Finish, GiveUp, Fail, Exhaust, Refuse, Misfit, Submit, Start,
                runVars, serverVars
  <2>2. \A q \in Runs : pc'[q] = pc[q] \/ pc'[q] \notin {"tool", "answer"}
    BY <1>1 DEF AskTools, Finish, GiveUp, Fail, Exhaust, Refuse, Misfit, Submit, Start
  <2>. QED  BY <2>1, <2>2 DEF Audited
<1>2. ASSUME NEW r \in Runs, Invoke(r)
      PROVE  Audited'
  <2>1. context' = [context EXCEPT ![r] = minted + 1] /\ pc' = [pc EXCEPT ![r] = "tool"]
    BY <1>2 DEF Invoke, Mint
  <2>2. UNCHANGED <<ids, log>>
    BY <1>2 DEF Invoke, runVars
  <2>. QED  BY <2>1, <2>2 DEF Audited
<1>3. ASSUME NEW r \in Runs, Audit(r)
      PROVE  Audited'
  <2>1. context[r] \in Nat
    BY <1>3 DEF Audit, Audited
  <2>2. /\ log' = Append(log, [run |-> r, cid |-> context[r]])
        /\ pc' = [pc EXCEPT ![r] = "answer"]
        /\ UNCHANGED <<ids, context>>
    BY <1>3 DEF Audit, runVars
  <2>3. /\ OnRecord(log', r, context[r])
        /\ \A q, d : OnRecord(log, q, d) => OnRecord(log', q, d)
    BY <2>1, <2>2, RecordedAppend
  <2>4. \A q \in Runs : \A i \in 1..Len(ids'[q]) : OnRecord(log', q, ids'[q][i])
    BY <2>2, <2>3 DEF Audited
  <2>5. \A q \in Runs : q # r => pc'[q] = pc[q]
    BY <2>2
  <2>6. \A q \in Runs :
          /\ pc'[q] \in {"tool", "answer"} => context'[q] \in Nat
          /\ pc'[q] = "answer" => OnRecord(log', q, context'[q])
    BY <2>1, <2>2, <2>3, <2>5 DEF Audited
  <2>. QED  BY <2>4, <2>6 DEF Audited
<1>4. ASSUME NEW r \in Runs, Observe(r)
      PROVE  Audited'
  <2>1. /\ ids' = [ids EXCEPT ![r] = Append(@, context[r])]
        /\ pc' = [pc EXCEPT ![r] = "calls"]
        /\ UNCHANGED <<log, context>>
    BY <1>4 DEF Observe, serverVars
  <2>2. context[r] \in Nat /\ OnRecord(log, r, context[r])
    BY <1>4 DEF Observe, Audited
  <2>3. /\ Len(ids'[r]) = Len(ids[r]) + 1
        /\ ids'[r][Len(ids[r]) + 1] = context[r]
        /\ \A i \in 1..Len(ids[r]) : ids'[r][i] = ids[r][i]
    BY <2>1, <2>2, AppendProperties
  <2>4. Len(ids[r]) \in Nat
    BY LenProperties
  <2>5. ASSUME NEW i \in 1..Len(ids'[r])
        PROVE  OnRecord(log, r, ids'[r][i])
    <3>1. i \in 1..Len(ids[r]) \/ i = Len(ids[r]) + 1
      BY <2>3, <2>4
    <3>2. i \in 1..Len(ids[r]) => OnRecord(log, r, ids'[r][i])
      BY <2>3 DEF Audited
    <3>3. i = Len(ids[r]) + 1 => OnRecord(log, r, ids'[r][i])
      BY <2>2, <2>3
    <3>. QED  BY <3>1, <3>2, <3>3
  <2>6. \A q \in Runs : q # r =>
          \A i \in 1..Len(ids'[q]) : OnRecord(log, q, ids'[q][i])
    <3>1. \A q \in Runs : q # r => ids'[q] = ids[q]
      BY <2>1
    <3>. QED  BY <3>1 DEF Audited
  <2>7. \A q \in Runs : \A i \in 1..Len(ids'[q]) : OnRecord(log', q, ids'[q][i])
    BY <2>1, <2>5, <2>6
  <2>8. \A q \in Runs :
          /\ pc'[q] \in {"tool", "answer"} => context'[q] \in Nat
          /\ pc'[q] = "answer" => OnRecord(log', q, context'[q])
    BY <2>1 DEF Audited
  <2>. QED  BY <2>7, <2>8 DEF Audited
<1>5. CASE UNCHANGED vars
  BY <1>5 DEF vars, runVars, serverVars, Audited
<1>. QED  BY <1>1, <1>2, <1>3, <1>4, <1>5 DEF Next, Step

LEMMA ValidatedStep ==
  ASSUME TypeOK, Validated, [Next]_vars
  PROVE  Validated'
<1>1. ASSUME NEW r \in Runs, Finish(r)
      PROVE  Validated'
  <2>1. PICK a \in Answers(r) :
          report' = [report EXCEPT ![r] = IF Accepted(a) THEN a ELSE None]
    BY <1>1 DEF Finish
  <2>2. Accepted(a) => \A e \in a.findings : e # {} /\ e \subseteq a.claimed
    BY AcceptedType
  <2>. QED  BY <2>1, <2>2 DEF Validated, TypeOK
<1>2. ASSUME UNCHANGED report
      PROVE  Validated'
  BY <1>2 DEF Validated
<1>3. (\E r \in Runs : Finish(r)) \/ UNCHANGED report
  BY DEF Next, Step, AskTools, GiveUp, Fail, Exhaust, Refuse, Misfit, Invoke, Audit,
         Observe, Submit, Start, vars, runVars
<1>. QED  BY <1>1, <1>2, <1>3


-----------------------------------------------------------------------------
(* The steps of one run leave the conversations of the others alone.       *)
LEMMA TalkElsewhere ==
  ASSUME TypeOK, Talk, [Next]_vars, NEW r \in Runs,
         Step(r) \/ \E p \in Providers[r] : Start(r, p),
         NEW q \in Runs, q # r
  PROVE  TalkOf(q)'
<1>. USE DEF TypeOK, Goto
<1>a. pc'[q] = pc[q]
  BY DEF Step, AskTools, Finish, GiveUp, Fail, Exhaust, Refuse, Misfit,
         Invoke, Audit, Observe, Submit, Start
<1>b. steps'[q] = steps[q]
  BY DEF Step, AskTools, Finish, GiveUp, Fail, Exhaust, Refuse, Misfit,
         Invoke, Audit, Observe, Submit, Start, runVars
<1>c. pending'[q] = pending[q]
  <2>1. CASE AskTools(r)
    BY <2>1 DEF AskTools
  <2>2. CASE Refuse(r) \/ Observe(r)
    BY <2>2 DEF Refuse, Observe
  <2>3. ASSUME UNCHANGED pending PROVE pending'[q] = pending[q]
    BY <2>3
  <2>. QED  BY <2>1, <2>2, <2>3 DEF Step, Finish, GiveUp, Fail, Exhaust, Misfit,
         Invoke, Audit, Submit, Start, runVars
<1>d. results'[q] = results[q]
  BY DEF Step, AskTools, Finish, GiveUp, Fail, Exhaust, Refuse, Misfit,
         Invoke, Audit, Observe, Submit, Start, runVars
<1>e. transcript'[q] = transcript[q]
  BY DEF Step, AskTools, Finish, GiveUp, Fail, Exhaust, Refuse, Misfit,
         Invoke, Audit, Observe, Submit, Start, runVars
<1>2. TalkOf(q)
  BY DEF Talk
<1>. QED  BY <1>a, <1>b, <1>c, <1>d, <1>e, <1>2 DEF TalkOf, Past, Open, InTurn

(* One more call of the turn is answered, under the id it was asked with.  *)
LEMMA TalkAnswer ==
  ASSUME TypeOK, NEW r \in Runs, TalkOf(r), InTurn(r), pending[r] # << >>,
         results' = [results EXCEPT ![r] = Append(@, Head(pending[r]).id)],
         pending' = [pending EXCEPT ![r] = Tail(@)],
         pc'[r] = "calls", UNCHANGED <<steps, transcript>>
  PROVE  TalkOf(r)'
<1>. DEFINE asked == transcript[r][2 * steps[r] + 1]
            n == Len(results[r])
            m == Len(pending[r])
<1>. DEFINE Call == [id : CallIdSet, args : {"object", "other"}]
<1>0. pending[r] \in Seq(Call)
  BY DEF TypeOK
<1>. HIDE DEF Call
<1>1. /\ Head(pending[r]) \in Call
      /\ Head(pending[r]) = pending[r][1]
      /\ Len(Tail(pending[r])) = m - 1
      /\ \A i \in 1..(m - 1) : Tail(pending[r])[i] = pending[r][i + 1]
  BY <1>0, HeadTailProperties
<1>2. n \in Nat /\ m \in Nat \ {0}
  BY <1>0, LenProperties, EmptySeq DEF TypeOK
<1>3. /\ Len(results'[r]) = n + 1
      /\ results'[r][n + 1] = pending[r][1].id
      /\ \A i \in 1..n : results'[r][i] = results[r][i]
  BY <1>1, AppendProperties DEF TypeOK, Call
<1>4. pending'[r] = Tail(pending[r])
  BY DEF TypeOK
<1>5. /\ Len(asked.ids) = n + m
      /\ \A i \in 1..n : asked.ids[i] = results[r][i]
      /\ \A i \in 1..m : asked.ids[n + i] = pending[r][i].id
      /\ Len(transcript[r]) = 2 * steps[r] + 1
      /\ asked.role = "assistant"
  BY DEF TalkOf, Open
<1>. HIDE DEF n, m, asked
<1>6. Len(asked.ids) = Len(results'[r]) + Len(pending'[r])
  <2>1. Len(results'[r]) = n + 1 /\ Len(pending'[r]) = m - 1 /\ Len(asked.ids) = n + m
    BY <1>1, <1>3, <1>4, <1>5
  <2>2. (n + 1) + (m - 1) = n + m
    BY <1>2
  <2>. QED  BY <2>1, <2>2, Zenon
<1>7. ASSUME NEW i \in 1..Len(results'[r])
      PROVE  asked.ids[i] = results'[r][i]
  <2>1. i \in 1..n \/ i = n + 1
    BY <1>2, <1>3
  <2>2. 1 \in 1..m
    BY <1>2
  <2>3. asked.ids[n + 1] = pending[r][1].id
    BY <1>5, <2>2
  <2>. QED  BY <1>3, <1>5, <2>1, <2>3
<1>8. ASSUME NEW i \in 1..Len(pending'[r])
      PROVE  asked.ids[Len(results'[r]) + i] = pending'[r][i].id
  <2>1. i \in 1..(m - 1) /\ i + 1 \in 1..m
    <3>1. Len(pending'[r]) = m - 1
      BY <1>1, <1>4
    <3>. QED  BY <1>2, <3>1
  <2>2. pending'[r][i] = pending[r][i + 1]
    BY <1>1, <1>4, <2>1
  <2>3. Len(results'[r]) + i = n + (i + 1)
    <3>1. Len(results'[r]) = n + 1
      BY <1>3
    <3>2. (n + 1) + i = n + (i + 1)
      BY <1>2, <2>1
    <3>. QED  BY <3>1, <3>2, Zenon
  <2>4. asked.ids[n + (i + 1)] = pending[r][i + 1].id
    BY <1>5, <2>1
  <2>. QED  BY <2>2, <2>3, <2>4
<1>9. transcript'[r] = transcript[r] /\ steps'[r] = steps[r]
  OBVIOUS
<1>10. Open(r)'
  BY <1>5, <1>6, <1>7, <1>8, <1>9 DEF Open, asked
<1>11. Past(r)'
  BY <1>9 DEF TalkOf, Past
<1>. QED  BY <1>9, <1>10, <1>11 DEF TalkOf, InTurn

(* The assistant message that opens an exchange.                           *)
LEMMA TalkAsk ==
  ASSUME TypeOK, NEW r \in Runs, TalkOf(r), AskTools(r)
  PROVE  TalkOf(r)'
<1>. USE LoopAssumption
<1>0. steps[r] + 1 \in Nat /\ steps[r] \in Nat
  BY DEF AskTools, InBudget, TypeOK
<1>2. Turns(r) \in SUBSET Nat
  BY <1>0 DEF Turns
<1>3. PICK b \in Batches(r, provider[r], Turns(r)) :
          /\ pending' = [pending EXCEPT ![r] = b]
          /\ transcript' = [transcript EXCEPT ![r] =
               Append(@, [role |-> "assistant", ids |-> CallIds(b)])]
  BY DEF AskTools
<1>. DEFINE message == [role |-> "assistant", ids |-> CallIds(b)]
<1>. DEFINE Call == [id : CallIdSet, args : {"object", "other"}]
<1>4. /\ b \in Seq(Call)
      /\ CallIds(b) \in Seq(CallIdSet)
      /\ Len(CallIds(b)) = Len(b)
      /\ \A i \in 1..Len(b) : CallIds(b)[i] = b[i].id
  <2>1. b \in Seq(Call)
    BY <1>2, BatchType
  <2>2. CallIds(b) \in Seq(CallIdSet)
    BY <1>2, BatchType
  <2>3. Len(CallIds(b)) = Len(b)
    BY <1>2, BatchType
  <2>4. \A i \in 1..Len(b) : CallIds(b)[i] = b[i].id
    BY <1>2, BatchType
  <2>. QED  BY <2>1, <2>2, <2>3, <2>4
<1>. HIDE DEF Call
<1>5. message \in Message
  BY <1>4 DEF Message
<1>6. Len(transcript[r]) = 2 * steps[r] /\ results[r] = << >>
  BY DEF TalkOf, AskTools
<1>7. /\ pc'[r] = "calls" /\ steps'[r] = steps[r] /\ results'[r] = << >>
      /\ pending'[r] = b
  BY <1>3, <1>6 DEF AskTools, Goto, TypeOK
<1>8. /\ Len(transcript'[r]) = 2 * steps[r] + 1
      /\ transcript'[r][2 * steps[r] + 1] = message
      /\ \A i \in 1..(2 * steps[r]) : transcript'[r][i] = transcript[r][i]
  <2>. HIDE DEF message
  <2>1. transcript[r] \in Seq(Message)
    BY DEF TypeOK
  <2>2. transcript'[r] = Append(transcript[r], message)
    BY <1>3 DEF TypeOK, message
  <2>. QED  BY <1>5, <1>6, <2>1, <2>2, AppendProperties
<1>9. Past(r)'
  <2>1. \A i \in 1..steps[r] : 2 * i \in 1..(2 * steps[r]) /\ 2 * i - 1 \in 1..(2 * steps[r])
    BY <1>0
  <2>2. \A i \in 1..steps[r] :
          /\ transcript'[r][2 * i - 1].role = "assistant"
          /\ transcript'[r][2 * i] = [role |-> "tool", ids |-> transcript'[r][2 * i - 1].ids]
    BY <1>8, <2>1 DEF TalkOf, Past
  <2>3. Len(transcript'[r]) >= 2 * steps[r]
    BY <1>0, <1>8
  <2>. QED  BY <1>7, <2>2, <2>3 DEF Past
<1>10. Open(r)'
  <2>1. Len(<< >>) = 0 /\ Len(b) \in Nat
    BY <1>4, LenProperties
  <2>2. Len(CallIds(b)) = Len(<< >>) + Len(b)
    BY <1>4, <2>1
  <2>3. \A i \in 1..Len(b) : CallIds(b)[Len(<< >>) + i] = b[i].id
    BY <1>4, <2>1
  <2>4. \A i \in 1..Len(<< >>) : CallIds(b)[i] = << >>[i]
    BY <2>1
  <2>. QED  BY <1>7, <1>8, <2>2, <2>3, <2>4 DEF Open
<1>11. steps'[r] < MaxSteps[r]
  BY <1>7 DEF AskTools, InBudget
<1>. QED  BY <1>7, <1>9, <1>10, <1>11 DEF TalkOf, InTurn


(* The tool message that closes an exchange names exactly the calls asked. *)
LEMMA TalkSubmit ==
  ASSUME TypeOK, NEW r \in Runs, TalkOf(r), Submit(r)
  PROVE  TalkOf(r)'
<1>. DEFINE asked == transcript[r][2 * steps[r] + 1]
            n == steps[r]
            message == [role |-> "tool", ids |-> results[r]]
<1>0. n \in Nat /\ results[r] \in Seq(CallIdSet) /\ transcript[r] \in Seq(Message)
  BY LoopAssumption DEF TypeOK
<1>1. Open(r) /\ Past(r) /\ pending[r] = << >>
  BY DEF Submit, TalkOf, InTurn
<1>2. /\ Len(transcript[r]) = 2 * n + 1
      /\ asked.role = "assistant"
      /\ Len(asked.ids) = Len(results[r])
      /\ \A i \in 1..Len(results[r]) : asked.ids[i] = results[r][i]
  <2>1. Len(pending[r]) = 0 /\ Len(results[r]) \in Nat
    BY <1>0, <1>1, EmptySeq, LenProperties
  <2>. QED  BY <1>1, <2>1 DEF Open
<1>3. asked.ids = results[r]
  <2>1. asked \in Message
    <3>1. 2 * n + 1 \in 1..Len(transcript[r])
      BY <1>0, <1>2
    <3>. QED  BY <1>0, <3>1, ElementOfSeq
  <2>2. asked.ids \in Seq(CallIdSet)
    BY <2>1 DEF Message
  <2>. HIDE DEF asked
  <2>. QED  BY <1>0, <1>2, <2>2, SeqEqual
<1>4. /\ transcript'[r] = Append(transcript[r], message)
      /\ results'[r] = << >> /\ steps'[r] = n + 1 /\ pc'[r] = "turn"
  BY DEF Submit, Goto, TypeOK
<1>5. message \in Message
  BY <1>0 DEF Message
<1>6. /\ Len(transcript'[r]) = Len(transcript[r]) + 1
      /\ transcript'[r][Len(transcript[r]) + 1] = message
      /\ \A i \in 1..Len(transcript[r]) : transcript'[r][i] = transcript[r][i]
  BY <1>0, <1>4, <1>5, AppendProperties
<1>. HIDE DEF n, message
<1>7. 2 * n + 1 + 1 = 2 * (n + 1) /\ 2 * (n + 1) - 1 = 2 * n + 1
  BY <1>0
<1>8. Len(transcript'[r]) = 2 * (n + 1)
  BY <1>2, <1>6, <1>7, Zenon
<1>9. ASSUME NEW i \in 1..(n + 1)
      PROVE  /\ transcript'[r][2 * i - 1].role = "assistant"
             /\ transcript'[r][2 * i] = [role |-> "tool", ids |-> transcript'[r][2 * i - 1].ids]
  <2>1. i \in 1..n \/ i = n + 1
    BY <1>0
  <2>2. ASSUME i \in 1..n
        PROVE  /\ transcript'[r][2 * i - 1].role = "assistant"
               /\ transcript'[r][2 * i] = [role |-> "tool", ids |-> transcript'[r][2 * i - 1].ids]
    <3>1. 2 * i \in 1..(2 * n + 1) /\ 2 * i - 1 \in 1..(2 * n + 1)
      BY <1>0, <2>2
    <3>2. transcript'[r][2 * i] = transcript[r][2 * i]
      BY <1>2, <1>6, <3>1
    <3>3. transcript'[r][2 * i - 1] = transcript[r][2 * i - 1]
      BY <1>2, <1>6, <3>1
    <3>. QED  BY <1>1, <2>2, <3>2, <3>3 DEF Past, n
  <2>3. ASSUME i = n + 1
        PROVE  /\ transcript'[r][2 * i - 1].role = "assistant"
               /\ transcript'[r][2 * i] = [role |-> "tool", ids |-> transcript'[r][2 * i - 1].ids]
    <3>1. 2 * n + 1 \in 1..Len(transcript[r])
      BY <1>0, <1>2
    <3>2. transcript'[r][2 * n + 1] = asked
      BY <1>6, <3>1 DEF n
    <3>3. transcript'[r][2 * n + 1 + 1] = message
      BY <1>2, <1>6
    <3>4. /\ transcript'[r][2 * n + 1].role = "assistant"
          /\ transcript'[r][2 * n + 1 + 1]
               = [role |-> "tool", ids |-> transcript'[r][2 * n + 1].ids]
      BY <1>2, <1>3, <3>2, <3>3 DEF message
    <3>. QED  BY <1>7, <2>3, <3>4
  <2>. QED  BY <2>1, <2>2, <2>3
<1>10. Len(transcript'[r]) >= 2 * (n + 1)
  BY <1>0, <1>8
<1>11. Past(r)'
  BY <1>4, <1>9, <1>10 DEF Past
<1>. QED  BY <1>4, <1>8, <1>11 DEF TalkOf, InTurn

LEMMA TalkStep ==
  ASSUME TypeOK, Talk, [Next]_vars
  PROVE  Talk'
<1>1. ASSUME NEW r \in Runs, Step(r) \/ \E p \in Providers[r] : Start(r, p)
      PROVE  TalkOf(r)'
  <2>. USE DEF TypeOK, Goto
  <2>0. TalkOf(r)
    BY DEF Talk
  <2>1. CASE AskTools(r)
    BY <2>0, <2>1, TalkAsk
  <2>2. CASE Refuse(r)
    <3>1. /\ InTurn(r) /\ pending[r] # << >> /\ pc'[r] = "calls"
          /\ results' = [results EXCEPT ![r] = Append(@, Head(pending[r]).id)]
          /\ pending' = [pending EXCEPT ![r] = Tail(@)]
          /\ UNCHANGED <<steps, transcript>>
      BY <2>2 DEF Refuse, InTurn
    <3>. QED  BY <2>0, <3>1, TalkAnswer
  <2>3. CASE Observe(r)
    <3>1. /\ InTurn(r) /\ pending[r] # << >> /\ pc'[r] = "calls"
          /\ results' = [results EXCEPT ![r] = Append(@, Head(pending[r]).id)]
          /\ pending' = [pending EXCEPT ![r] = Tail(@)]
          /\ UNCHANGED <<steps, transcript>>
      BY <2>0, <2>3 DEF Observe, InTurn, TalkOf
    <3>. QED  BY <2>0, <3>1, TalkAnswer
  <2>4. CASE Submit(r)
    BY <2>0, <2>4, TalkSubmit
  <2>5. ASSUME Finish(r) \/ GiveUp(r) \/ Exhaust(r) \/ Fail(r) \/ Misfit(r)
                 \/ \E p \in Providers[r] : Start(r, p)
        PROVE  TalkOf(r)'
    <3>1. /\ UNCHANGED <<steps, transcript, results>>
          /\ pc'[r] \in {"turn", "done", "raised"}
          /\ pc'[r] = "turn" => pc[r] = "idle"
          /\ pc'[r] = "done" => pc[r] = "turn"
      BY <2>5 DEF Finish, GiveUp, Exhaust, Fail, Misfit, Start, runVars
    <3>. QED  BY <2>0, <3>1 DEF TalkOf, Past, InTurn
  <2>6. ASSUME Invoke(r) \/ Audit(r)
        PROVE  TalkOf(r)'
    <3>1. /\ UNCHANGED <<steps, transcript, results, pending>>
          /\ pc[r] \in {"calls", "tool"} /\ pc'[r] \in {"tool", "answer"}
          /\ pending[r] # << >>
      BY <2>0, <2>6 DEF Invoke, Audit, runVars, TalkOf
    <3>. QED  BY <2>0, <3>1 DEF TalkOf, Past, Open, InTurn
  <2>. QED  BY <1>1, <2>1, <2>2, <2>3, <2>4, <2>5, <2>6 DEF Step
<1>2. ASSUME NEW r \in Runs, Step(r) \/ \E p \in Providers[r] : Start(r, p)
      PROVE  Talk'
  BY <1>1, <1>2, TalkElsewhere DEF Talk
<1>3. CASE UNCHANGED vars
  BY <1>3 DEF vars, runVars, Talk, TalkOf, Past, Open, InTurn
<1>. QED  BY <1>2, <1>3 DEF Next

-----------------------------------------------------------------------------
LEMMA LogType ==
  ASSUME TypeOK
  PROVE  \A i \in 1..Len(log) : log[i] \in [run : Runs, cid : Nat] /\ log[i].cid \in Nat
<1>1. log \in Seq([run : Runs, cid : Nat])
  BY DEF TypeOK
<1>2. \A i \in 1..Len(log) : log[i] \in [run : Runs, cid : Nat]
  BY <1>1, ElementOfSeq
<1>. QED  BY <1>2

(* Most steps touch neither the log nor the calls of a run.                *)
LEMMA TrailQuiet ==
  ASSUME Trail, UNCHANGED <<log, minted, context>>,
         \A q \in Runs : Calls(q)' = Calls(q) /\ (pc'[q] = "tool" => pc[q] = "tool")
  PROVE  Trail'
<1>1. Filed'
  BY DEF Trail, Filed
<1>2. ASSUME NEW q \in Runs
      PROVE  MatchedOf(q)'
  <2>1. MatchedOf(q) /\ Calls(q)' = Calls(q) /\ log' = log
    BY <1>2 DEF Trail
  <2>. QED  BY <2>1 DEF MatchedOf
<1>3. ASSUME NEW q \in Runs
      PROVE  WaitingOf(q)'
  BY <1>3 DEF Trail, WaitingOf
<1>. QED  BY <1>1, <1>2, <1>3 DEF Trail

(* A new id is greater than all there are.                                 *)
LEMMA TrailInvoke ==
  ASSUME TypeOK, Audited, Trail, NEW r \in Runs, Invoke(r)
  PROVE  Trail'
<1>1. /\ pc[r] = "calls" /\ pc' = [pc EXCEPT ![r] = "tool"]
      /\ minted' = minted + 1 /\ context' = [context EXCEPT ![r] = minted + 1]
      /\ UNCHANGED <<ids, log>>
  BY DEF Invoke, Goto, Mint, runVars
<1>2. minted \in Nat /\ \A i \in 1..Len(log) : log[i].cid \in Nat /\ log[i].cid <= minted
  BY LogType DEF TypeOK, Trail, Filed
<1>3. Filed'
  BY <1>1, <1>2 DEF Trail, Filed
<1>4. ASSUME NEW q \in Runs
      PROVE  MatchedOf(q)'
  <2>1. Calls(q)' = Calls(q)
    BY <1>1, <1>4 DEF Calls, TypeOK
  <2>2. MatchedOf(q) /\ log' = log
    BY <1>1 DEF Trail
  <2>. QED  BY <2>1, <2>2 DEF MatchedOf
<1>5. ASSUME NEW q \in Runs, pc[q] = "tool"
      PROVE  context[q] \in Nat /\ context[q] <= minted
  BY <1>5 DEF Trail, WaitingOf, Audited
<1>6. ASSUME NEW q \in Runs
      PROVE  WaitingOf(q)'
  <2>. SUFFICES ASSUME pc'[q] = "tool" PROVE WaitingOf(q)'
    BY DEF WaitingOf
  <2>1. ASSUME q = r PROVE WaitingOf(q)'
    <3>1. context'[q] = minted + 1
      BY <1>1, <2>1 DEF TypeOK
    <3>2. \A p \in Runs : p # r /\ pc'[p] = "tool" => context'[p] # minted + 1
      BY <1>1, <1>2, <1>5 DEF TypeOK
    <3>. QED  BY <1>1, <1>2, <2>1, <3>1, <3>2 DEF WaitingOf
  <2>2. ASSUME q # r PROVE WaitingOf(q)'
    <3>1. context'[q] = context[q] /\ pc[q] = "tool" /\ context'[r] = minted + 1
      BY <1>1, <2>2 DEF TypeOK
    <3>2. WaitingOf(q) /\ context[q] \in Nat /\ context[q] <= minted
      BY <1>5, <3>1 DEF Trail
    <3>3. \A p \in Runs : p # q /\ pc'[p] = "tool" => context'[p] # context[q]
      <4>1. ASSUME NEW p \in Runs, p # q, p # r, pc'[p] = "tool"
            PROVE  context'[p] # context[q]
        BY <1>1, <3>1, <3>2, <4>1 DEF WaitingOf, TypeOK
      <4>. QED  BY <1>2, <3>1, <3>2, <4>1
    <3>. QED  BY <1>1, <1>2, <3>1, <3>2, <3>3 DEF WaitingOf
  <2>. QED  BY <2>1, <2>2
<1>. QED  BY <1>3, <1>4, <1>6 DEF Trail

(* The record of a tool that was running is the last of its run.           *)
LEMMA TrailAudit ==
  ASSUME TypeOK, Audited, Trail, NEW r \in Runs, Audit(r)
  PROVE  Trail'
<1>. DEFINE n == Len(log)
            c == context[r]
<1>1. /\ pc[r] = "tool" /\ pc' = [pc EXCEPT ![r] = "answer"]
      /\ log' = Append(log, [run |-> r, cid |-> c])
      /\ UNCHANGED <<ids, minted, context>>
  BY DEF Audit, Goto, runVars
<1>2. c \in Nat /\ WaitingOf(r) /\ c <= minted /\ minted \in Nat
  BY <1>1 DEF Trail, WaitingOf, Audited, TypeOK
<1>3. /\ n \in Nat /\ Len(log') = n + 1
      /\ log'[n + 1].run = r /\ log'[n + 1].cid = c
      /\ \A i \in 1..n : log'[i] = log[i]
  BY <1>1, <1>2, AppendProperties, LenProperties DEF TypeOK
<1>4. \A i \in 1..n : log[i].cid \in Nat
  BY LogType
<1>5. \A i \in 1..n : log[i].cid # c /\ (log[i].run = r => log[i].cid < c)
  BY <1>1, <1>2 DEF WaitingOf
<1>6. \A q, d : OnRecord(log, q, d) => OnRecord(log', q, d)
  BY <1>1, <1>2, RecordedAppend DEF TypeOK
<1>7. OnRecord(log', r, c)
  BY <1>1, <1>2, RecordedAppend DEF TypeOK
<1>. HIDE DEF n, c
<1>8. \A i \in 1..Len(log') : i \in 1..n \/ i = n + 1
  BY <1>3
<1>9. Filed'
  <2>1. \A i \in 1..Len(log') : log'[i].cid <= minted'
    BY <1>1, <1>2, <1>3, <1>8 DEF Trail, Filed, n
  <2>2. ASSUME NEW i \in 1..Len(log'), NEW j \in 1..Len(log'), log'[i].cid = log'[j].cid
        PROVE  i = j
    BY <1>3, <1>5, <1>8, <2>2 DEF Trail, Filed, n
  <2>3. ASSUME NEW i \in 1..Len(log'), NEW j \in 1..Len(log'),
               i < j, log'[i].run = log'[j].run
        PROVE  log'[i].cid < log'[j].cid
    <3>1. i \in 1..n
      BY <1>3, <1>8, <2>3
    <3>. QED  BY <1>3, <1>5, <1>8, <2>3, <3>1 DEF Trail, Filed, n
  <2>. QED  BY <2>1, <2>2, <2>3 DEF Filed
<1>10. ASSUME NEW q \in Runs, q # r
       PROVE  MatchedOf(q)' /\ WaitingOf(q)'
  <2>1. Calls(q)' = Calls(q) /\ pc'[q] = pc[q] /\ context' = context
    BY <1>1, <1>10 DEF Calls, TypeOK
  <2>2. MatchedOf(q) /\ WaitingOf(q)
    BY DEF Trail
  <2>3. MatchedOf(q)'
    <3>1. \A k \in 1..Len(Calls(q)) : OnRecord(log', q, Calls(q)[k])
      BY <1>6, <2>2 DEF MatchedOf
    <3>2. \A i \in 1..Len(log') : log'[i].run = q =>
            \E k \in 1..Len(Calls(q)) : Calls(q)[k] = log'[i].cid
      BY <1>3, <1>8, <1>10, <2>2 DEF MatchedOf, n
    <3>3. \A k, l \in 1..Len(Calls(q)) : k < l => Calls(q)[k] < Calls(q)[l]
      BY <2>2 DEF MatchedOf
    <3>. QED  BY <2>1, <3>1, <3>2, <3>3 DEF MatchedOf
  <2>4. WaitingOf(q)'
    <3>. SUFFICES ASSUME pc[q] = "tool" PROVE WaitingOf(q)'
      BY <2>1 DEF WaitingOf
    <3>1. c # context[q]
      BY <1>1, <1>10, <2>2 DEF WaitingOf, c
    <3>2. \A i \in 1..Len(log') : log'[i].cid # context[q]
            /\ (log'[i].run = q => log'[i].cid < context[q])
      BY <1>3, <1>8, <1>10, <2>2, <3>1 DEF WaitingOf, n
    <3>3. \A p \in Runs : pc'[p] = "tool" => pc[p] = "tool"
      BY <1>1 DEF TypeOK
    <3>. QED  BY <1>1, <2>1, <2>2, <3>2, <3>3 DEF WaitingOf
  <2>. QED  BY <2>3, <2>4
<1>11. MatchedOf(r)' /\ WaitingOf(r)'
  <2>. DEFINE m == Len(ids[r])
              later == Append(ids[r], c)
  <2>1. Calls(r)' = later /\ Calls(r) = ids[r] /\ pc'[r] = "answer"
    BY <1>1 DEF Calls, TypeOK, c
  <2>2. /\ m \in Nat /\ Len(later) = m + 1 /\ later[m + 1] = c
        /\ \A k \in 1..m : later[k] = ids[r][k]
    BY <1>2, AppendProperties, LenProperties DEF TypeOK
  <2>3. MatchedOf(r)
    BY DEF Trail
  <2>4. \A k \in 1..m : OnRecord(log, r, ids[r][k]) /\ ids[r][k] < c
    <3>1. ASSUME NEW k \in 1..m
          PROVE  OnRecord(log, r, ids[r][k])
      BY <2>1, <2>3 DEF MatchedOf
    <3>2. ASSUME NEW k \in 1..m
          PROVE  ids[r][k] < c
      <4>1. PICK j \in 1..n : log[j] = [run |-> r, cid |-> ids[r][k]]
        BY <3>1 DEF OnRecord, n
      <4>. QED  BY <1>5, <4>1
    <3>. QED  BY <3>1, <3>2
  <2>. HIDE DEF later
  <2>5. \A k \in 1..Len(later) : k \in 1..m \/ k = m + 1
    BY <2>2
  <2>6. \A k \in 1..Len(later) : OnRecord(log', r, later[k])
    BY <1>6, <1>7, <2>2, <2>4, <2>5
  <2>7. ASSUME NEW i \in 1..Len(log'), log'[i].run = r
        PROVE  \E k \in 1..Len(later) : later[k] = log'[i].cid
    <3>1. m + 1 \in 1..Len(later) /\ \A k \in 1..m : k \in 1..Len(later)
      BY <2>2
    <3>2. ASSUME i \in 1..n
          PROVE  \E k \in 1..m : ids[r][k] = log'[i].cid
      BY <1>3, <2>1, <2>3, <2>7, <3>2 DEF MatchedOf, n
    <3>. QED  BY <1>3, <1>8, <2>2, <3>1, <3>2
  <2>8. ASSUME NEW k \in 1..Len(later), NEW l \in 1..Len(later), k < l
        PROVE  later[k] < later[l]
    <3>1. k \in 1..m
      BY <2>2, <2>5, <2>8
    <3>2. l \in 1..m => ids[r][k] < ids[r][l]
      BY <2>1, <2>3, <2>8, <3>1 DEF MatchedOf
    <3>. QED  BY <2>2, <2>4, <2>5, <3>1, <3>2
  <2>9. MatchedOf(r)'
    BY <2>1, <2>6, <2>7, <2>8 DEF MatchedOf
  <2>. QED  BY <2>1, <2>9 DEF WaitingOf
<1>. QED  BY <1>9, <1>10, <1>11 DEF Trail

LEMMA TrailStep ==
  ASSUME TypeOK, Audited, Trail, [Next]_vars
  PROVE  Trail'
<1>1. ASSUME NEW r \in Runs,
             AskTools(r) \/ Finish(r) \/ GiveUp(r) \/ Fail(r) \/ Exhaust(r) \/ Refuse(r)
               \/ Misfit(r) \/ Submit(r) \/ \E p \in Providers[r] : Start(r, p)
      PROVE  Trail'
  <2>1. UNCHANGED <<ids, log, minted, context>>
    BY <1>1 DEF AskTools, Finish, GiveUp, Fail, Exhaust, Refuse, Misfit, Submit, Start,
                runVars, serverVars
  <2>2. /\ \A q \in Runs : pc'[q] = pc[q] \/ pc'[q] \notin {"tool", "answer"}
        /\ \A q \in Runs : pc'[q] = pc[q] \/ pc[q] # "answer"
    BY <1>1 DEF AskTools, Finish, GiveUp, Fail, Exhaust, Refuse, Misfit, Submit, Start,
                Goto, TypeOK
  <2>3. \A q \in Runs : Calls(q)' = Calls(q) /\ (pc'[q] = "tool" => pc[q] = "tool")
    BY <2>1, <2>2 DEF Calls
  <2>. QED  BY <2>1, <2>3, TrailQuiet
<1>2. ASSUME NEW r \in Runs, Observe(r)
      PROVE  Trail'
  <2>1. /\ pc[r] = "answer" /\ pc' = [pc EXCEPT ![r] = "calls"]
        /\ ids' = [ids EXCEPT ![r] = Append(@, context[r])]
        /\ UNCHANGED <<log, minted, context>>
    BY <1>2 DEF Observe, Goto, serverVars
  <2>2. \A q \in Runs : Calls(q)' = Calls(q) /\ (pc'[q] = "tool" => pc[q] = "tool")
    BY <2>1 DEF Calls, TypeOK
  <2>. QED  BY <2>1, <2>2, TrailQuiet
<1>3. CASE UNCHANGED vars
  <2>1. UNCHANGED <<ids, pc, log, minted, context>>
    BY <1>3 DEF vars, runVars, serverVars
  <2>2. \A q \in Runs : Calls(q)' = Calls(q) /\ (pc'[q] = "tool" => pc[q] = "tool")
    BY <2>1 DEF Calls
  <2>. QED  BY <2>1, <2>2, TrailQuiet
<1>. QED  BY <1>1, <1>2, <1>3, TrailInvoke, TrailAudit DEF Next, Step

-----------------------------------------------------------------------------
LEMMA InvStep == IInv /\ [Next]_vars => IInv'
  BY TypeStep, AuditedStep, ValidatedStep, TalkStep, TrailStep DEF IInv

(* The invariant holds in every reachable state of the loop.               *)
THEOREM Invariance == Spec => []IInv
<1>. QED  BY InitInv, InvStep, PTL DEF Spec

(* Type correctness of the loop, for every number of runs and every budget *)
(* (loop.py: run).                                                         *)
THEOREM TypeCorrect == Spec => []TypeOK
<1>1. IInv => TypeOK
  BY DEF IInv
<1>. QED  BY <1>1, Invariance, PTL

(* loop.py:23-25: comparing the claim of an accepted diagnosis with        *)
(* RunResult.tool_call_ids catches fabrication - if the claim holds no     *)
(* foreign id, every finding cites calls this run made and the server      *)
(* audited.                                                                *)
THEOREM CrossCheckIsSound == Spec => []CrossCheckSound
<1>1. IInv => CrossCheckSound
  <2>. SUFFICES ASSUME IInv, NEW r \in Runs, report[r] # None,
                       report[r].claimed \subseteq {ids[r][i] : i \in 1..Len(ids[r])},
                       NEW e \in report[r].findings
                PROVE  /\ e # {}
                       /\ \A c \in e : \E i \in 1..Len(log) : log[i] = [run |-> r, cid |-> c]
    BY DEF CrossCheckSound
  <2>1. e # {} /\ e \subseteq report[r].claimed
    BY DEF IInv, Validated
  <2>2. ASSUME NEW c \in e
        PROVE  \E i \in 1..Len(log) : log[i] = [run |-> r, cid |-> c]
    <3>1. PICK i \in 1..Len(ids[r]) : c = ids[r][i]
      BY <2>1
    <3>. QED  BY <3>1 DEF IInv, Audited, OnRecord
  <2>. QED  BY <2>1, <2>2
<1>. QED  BY <1>1, Invariance, PTL

(* loop.py:21: tool_call_ids is the ground truth of a run - its calls are  *)
(* the records the audit log has of it, one by one and in the same order,  *)
(* however many runs share the server (audit.py:35: one id per context).   *)
THEOREM IdsAreGroundTruth == Spec => []GroundTruth
<1>1. IInv => GroundTruth
  <2>. SUFFICES ASSUME IInv PROVE GroundTruth
    OBVIOUS
  <2>0. Trail /\ Filed
    BY DEF IInv, Trail
  <2>1. \A i \in 1..Len(log) : log[i] \in [run : Runs, cid : Nat]
    BY LogType DEF IInv
  <2>2. ASSUME NEW r \in Runs
        PROVE  \A k \in 1..Len(Calls(r)) :
                 \E i \in 1..Len(log) : log[i] = [run |-> r, cid |-> Calls(r)[k]]
    BY <2>0 DEF Trail, MatchedOf, OnRecord
  <2>3. ASSUME NEW r \in Runs, NEW i \in 1..Len(log), log[i].run = r
        PROVE  \E k \in 1..Len(Calls(r)) : log[i] = [run |-> r, cid |-> Calls(r)[k]]
    <3>1. PICK k \in 1..Len(Calls(r)) : Calls(r)[k] = log[i].cid
      BY <2>0, <2>3 DEF Trail, MatchedOf
    <3>2. log[i] = [run |-> r, cid |-> Calls(r)[k]]
      BY <2>1, <2>3, <3>1
    <3>. QED  BY <3>2
  <2>4. ASSUME NEW r \in Runs,
               NEW k \in 1..Len(Calls(r)), NEW l \in 1..Len(Calls(r)),
               NEW i \in 1..Len(log), NEW j \in 1..Len(log),
               log[i] = [run |-> r, cid |-> Calls(r)[k]],
               log[j] = [run |-> r, cid |-> Calls(r)[l]], k < l
        PROVE  i < j
    <3>1. Calls(r)[k] < Calls(r)[l]
      BY <2>0, <2>4 DEF Trail, MatchedOf
    <3>2. log[i].cid < log[j].cid /\ log[i].run = log[j].run
      BY <2>4, <3>1
    <3>3. log[i].cid \in Nat /\ log[j].cid \in Nat
      BY <2>1
    <3>4. i # j
      BY <3>2, <3>3
    <3>5. ~(j < i)
      BY <2>0, <3>2, <3>3 DEF Filed
    <3>6. i \in Int /\ j \in Int
      OBVIOUS
    <3>. QED  BY <3>4, <3>5, <3>6
  <2>5. \A i, j \in 1..Len(log) : log[i].cid = log[j].cid => i = j
    BY <2>0 DEF Filed
  <2>. QED  BY <2>2, <2>3, <2>4, <2>5 DEF GroundTruth
<1>. QED  BY <1>1, Invariance, PTL

(* Whatever a turn asked for, its calls and the results submitted for them *)
(* pair up (loop.py:123-156 with the adapters of llm.py).                  *)
THEOREM CallsPaired == Spec => []Paired
<1>1. IInv => Paired
  BY DEF IInv, Talk, TalkOf, Past, Paired
<1>. QED  BY <1>1, Invariance, PTL

-----------------------------------------------------------------------------
(* The messages on the wire.  A conversation is Acceptable when the model  *)
(* is asked; after its reply it is Halfway, all of it answered but that    *)
(* reply; and Submit, which by Open brings exactly the results that reply  *)
(* asked for, makes it Acceptable again.                                   *)
Wired == [role : {"system", "user", "assistant", "tool"},
          calls : Seq(CallIdSet \cup {None}), answers : Seq(CallIdSet)]

Hosted == Adapters \ {"scripted"}

Halfway(p, w, asked) ==
  /\ Len(w) > 1
  /\ Len(asked) > 0
  /\ InForm(p, w)
  /\ \A i \in 1..(Len(w) - 1) : w[i].role = "assistant" => Answered(p, w, i)
  /\ w[Len(w)].role = "assistant"
  /\ w[Len(w)].answers = << >>
  /\ Len(w[Len(w)].calls) = Len(asked)
  /\ \A k \in 1..Len(asked) : Fits(w[Len(w)].calls[k], asked[k])

SentOf(r) ==
  /\ pc[r] = "idle" => wire[r] = << >>
  /\ provider[r] \in Hosted =>
       /\ pc[r] = "turn" => Acceptable(provider[r], wire[r])
       /\ InTurn(r) => Halfway(provider[r], wire[r], transcript[r][2 * steps[r] + 1].ids)

Sent == wire \in [Runs -> Seq(Wired)] /\ \A r \in Runs : SentOf(r)

Chosen == \A r \in Runs : pc[r] # "idle" => provider[r] \in Adapters

TInv == IInv /\ Chosen /\ Sent

(* What an adapter opens with is in order, and there is a question.        *)
LEMMA OpeningAccepted ==
  ASSUME NEW p \in Adapters
  PROVE  /\ Opening(p) \in Seq(Wired)
         /\ p # "scripted" => Acceptable(p, Opening(p))
<1>1. Plain("user") \in Wired /\ Plain("system") \in Wired
  BY EmptySeq DEF Plain, Wired
<1>2. ASSUME p = "anthropic"
      PROVE  Opening(p) \in Seq(Wired) /\ Acceptable(p, Opening(p))
  <2>1. Opening(p) = <<Plain("user")>>
    BY <1>2 DEF Opening
  <2>. DEFINE w == <<Plain("user")>>
  <2>2. w \in Seq(Wired) /\ Len(w) = 1 /\ w[1] = Plain("user")
    BY <1>1
  <2>. HIDE DEF w
  <2>3. w[1].role = "user" /\ w[1].answers = << >>
    BY <2>2 DEF Plain
  <2>4. InForm(p, w)
    BY <1>2, <2>2, <2>3 DEF InForm, Alternating
  <2>5. Acceptable(p, w)
    BY <2>2, <2>3, <2>4 DEF Acceptable, Last
  <2>. QED  BY <2>1, <2>2, <2>5 DEF w
<1>3. ASSUME p \in {"openai", "ollama"}
      PROVE  Opening(p) \in Seq(Wired) /\ Acceptable(p, Opening(p))
  <2>1. Opening(p) = <<Plain("system"), Plain("user")>>
    BY <1>3 DEF Opening
  <2>. DEFINE w == <<Plain("system"), Plain("user")>>
  <2>2. w \in Seq(Wired) /\ Len(w) = 2 /\ w[1] = Plain("system") /\ w[2] = Plain("user")
    BY <1>1
  <2>. HIDE DEF w
  <2>3. /\ w[1].role = "system" /\ w[2].role = "user"
        /\ w[1].answers = << >> /\ w[2].answers = << >>
    BY <2>2 DEF Plain
  <2>4. Len(<< >>) = 0 /\ \A i \in 1..Len(w) : i = 1 \/ i = 2
    BY <2>2
  <2>5. Prefaced(w)
    BY <2>2, <2>3, <2>4 DEF Prefaced
  <2>6. InForm(p, w)
    BY <1>3, <2>5 DEF InForm
  <2>7. Acceptable(p, w)
    BY <2>2, <2>3, <2>4, <2>6 DEF Acceptable, Last
  <2>. QED  BY <2>1, <2>2, <2>7 DEF w
<1>4. p = "scripted" => Opening(p) \in Seq(Wired)
  BY EmptySeq DEF Opening
<1>. QED  BY <1>2, <1>3, <1>4 DEF Adapters

(* What is answered stays answered, whatever is sent after it.             *)
LEMMA StaysAnswered ==
  ASSUME NEW p, NEW w \in Seq(Wired), NEW v \in Seq(Wired), NEW i \in 1..Len(w),
         Answered(p, w, i), Len(w) <= Len(v), \A j \in 1..Len(w) : v[j] = w[j]
  PROVE  Answered(p, v, i)
<1>1. Len(w) \in Nat /\ Len(v) \in Nat /\ w[i] \in Wired
  BY LenProperties, ElementOfSeq
<1>2. Len(w[i].calls) \in Nat /\ v[i] = w[i]
  BY <1>1, LenProperties DEF Wired
<1>3. ASSUME AnsweredTogether(w, i) PROVE AnsweredTogether(v, i)
  <2>1. i + 1 \in 1..Len(w) /\ v[i + 1] = w[i + 1] /\ i < Len(v)
    BY <1>1, <1>3 DEF AnsweredTogether
  <2>. QED  BY <1>2, <1>3, <2>1 DEF AnsweredTogether
<1>4. ASSUME AnsweredSingly(w, i) PROVE AnsweredSingly(v, i)
  <2>1. i + Len(w[i].calls) <= Len(v)
    BY <1>1, <1>2, <1>4 DEF AnsweredSingly
  <2>2. \A k \in 1..Len(w[i].calls) : i + k \in 1..Len(w)
    BY <1>1, <1>2, <1>4 DEF AnsweredSingly
  <2>3. \A k \in 1..Len(w[i].calls) : v[i + k] = w[i + k]
    BY <2>2
  <2>. QED  BY <1>2, <1>4, <2>1, <2>3 DEF AnsweredSingly
<1>. QED  BY <1>3, <1>4 DEF Answered

(* The record of a reply is a message.                                     *)
LEMMA RecordedType ==
  ASSUME NEW p, NEW asked \in Seq(CallIdSet)
  PROVE  /\ Recorded(p, asked) \in Seq(Wired)
         /\ [role |-> "assistant", answers |-> << >>,
             calls |-> [i \in 1..Len(asked) |-> IF asked[i][1] = 0 THEN None ELSE asked[i]]] \in Wired
<1>. DEFINE calls == [i \in 1..Len(asked) |-> IF asked[i][1] = 0 THEN None ELSE asked[i]]
            reply == [role |-> "assistant", answers |-> << >>, calls |-> calls]
<1>1. Len(asked) \in Nat /\ \A i \in 1..Len(asked) : asked[i] \in CallIdSet
  BY LenProperties, ElementOfSeq
<1>2. calls \in [1..Len(asked) -> CallIdSet \cup {None}]
  BY <1>1
<1>3. calls \in Seq(CallIdSet \cup {None})
  BY <1>1, <1>2, SeqDef
<1>. HIDE DEF calls
<1>4. reply \in Wired
  BY <1>3, EmptySeq DEF Wired
<1>. HIDE DEF reply
<1>5. <<reply>> \in Seq(Wired) /\ << >> \in Seq(Wired)
  BY <1>4
<1>6. Recorded(p, asked) = IF p = "scripted" THEN << >> ELSE <<reply>>
  BY DEF Recorded, reply, calls
<1>. QED  BY <1>4, <1>5, <1>6 DEF reply, calls

(* The reply of the model, recorded: only its own calls are open now.      *)
LEMMA RecordedHalfway ==
  ASSUME NEW p \in Hosted, NEW w \in Seq(Wired), Acceptable(p, w),
         NEW asked \in Seq(CallIdSet), Len(asked) > 0
  PROVE  Halfway(p, w \o Recorded(p, asked), asked)
<1>. DEFINE n == Len(w)
            IdOf(c) == IF c[1] = 0 THEN None ELSE c
            reply == [role |-> "assistant", answers |-> << >>,
                      calls |-> [i \in 1..Len(asked) |-> IdOf(asked[i])]]
            v == w \o <<reply>>
<1>1. Recorded(p, asked) = <<reply>>
  BY DEF Recorded, Hosted
<1>2. reply \in Wired
  BY RecordedType
<1>3. n \in Nat /\ n > 0
  BY LenProperties DEF Acceptable
<1>4. /\ reply.role = "assistant" /\ reply.answers = << >>
      /\ Len(reply.calls) = Len(asked)
      /\ \A k \in 1..Len(asked) : Fits(reply.calls[k], asked[k])
  BY LenProperties DEF Fits
<1>. HIDE DEF reply
<1>5. /\ v \in Seq(Wired) /\ Len(v) = n + 1 /\ v[n + 1] = reply
      /\ \A i \in 1..n : v[i] = w[i]
  <2>1. <<reply>> \in Seq(Wired) /\ Len(<<reply>>) = 1 /\ <<reply>>[1] = reply
    BY <1>2
  <2>. DEFINE one == <<reply>>
  <2>. HIDE DEF one
  <2>2. one \in Seq(Wired) /\ Len(one) = 1 /\ one[1] = reply
    BY <2>1 DEF one
  <2>3. /\ w \o one \in Seq(Wired) /\ Len(w \o one) = n + 1
        /\ \A i \in 1..(n + 1) : (w \o one)[i] = IF i <= n THEN w[i] ELSE one[i - n]
    <3>1. /\ w \o one \in Seq(Wired) /\ Len(w \o one) = Len(w) + Len(one)
          /\ \A i \in 1..(Len(w) + Len(one)) :
               (w \o one)[i] = IF i <= Len(w) THEN w[i] ELSE one[i - Len(w)]
      BY <2>2, ConcatProperties
    <3>. QED  BY <2>2, <3>1
  <2>4. (w \o one)[n + 1] = one[1]
    BY <1>3, <2>3
  <2>5. \A i \in 1..n : (w \o one)[i] = w[i]
    BY <1>3, <2>3
  <2>. QED  BY <2>2, <2>3, <2>4, <2>5 DEF one
<1>. HIDE DEF v
<1>6. \A i \in 1..Len(v) : i \in 1..n \/ i = n + 1
  BY <1>3, <1>5
<1>7. \A i \in 1..n : w[i].role = "assistant" => Answered(p, w, i)
  BY DEF Acceptable
<1>8. \A i \in 1..(Len(v) - 1) : v[i].role = "assistant" => Answered(p, v, i)
  <2>. SUFFICES ASSUME NEW i \in 1..(Len(v) - 1), v[i].role = "assistant"
                PROVE  Answered(p, v, i)
    OBVIOUS
  <2>1. i \in 1..n /\ v[i] = w[i] /\ n <= Len(v)
    BY <1>3, <1>5
  <2>. QED  BY <1>5, <1>7, <2>1, StaysAnswered
<1>9. InForm(p, w) /\ w[n].role \in {"user", "tool"}
  BY DEF Acceptable, Last
<1>10. InForm(p, v)
  <2>1. ASSUME p = "anthropic" PROVE Alternating(v)
    <3>1. Alternating(w)
      BY <1>9, <2>1 DEF InForm
    <3>2. n % 2 = 1
      BY <1>3, <1>9, <3>1 DEF Alternating
    <3>3. (n + 1) % 2 # 1
      BY <1>3, <3>2
    <3>4. v[1].answers = << >>
      BY <1>3, <1>5, <3>1 DEF Alternating
    <3>5. \A i \in 1..n : v[i].role = IF i % 2 = 1 THEN "user" ELSE "assistant"
      BY <1>5, <3>1 DEF Alternating
    <3>6. v[n + 1].role = IF (n + 1) % 2 = 1 THEN "user" ELSE "assistant"
      BY <1>4, <1>5, <3>3
    <3>. QED  BY <1>6, <3>4, <3>5, <3>6 DEF Alternating
  <2>2. ASSUME p # "anthropic" PROVE Prefaced(v)
    <3>1. Prefaced(w)
      BY <1>9, <2>2 DEF InForm
    <3>2. ASSUME NEW i \in 1..n
          PROVE  /\ v[i].role = "system" <=> i = 1
                 /\ Len(v[i].answers) = IF v[i].role = "tool" THEN 1 ELSE 0
                 /\ v[i].role = "tool" =>
                      \E j \in 1..(i - 1) : v[j].role = "assistant" /\ i <= j + Len(v[j].calls)
      <4>1. v[i] = w[i] /\ \A j \in 1..(i - 1) : j \in 1..n /\ v[j] = w[j]
        BY <1>3, <1>5, <3>2
      <4>2. /\ w[i].role = "system" <=> i = 1
            /\ Len(w[i].answers) = IF w[i].role = "tool" THEN 1 ELSE 0
            /\ w[i].role = "tool" =>
                 \E j \in 1..(i - 1) : w[j].role = "assistant" /\ i <= j + Len(w[j].calls)
        BY <3>1, <3>2 DEF Prefaced
      <4>. QED  BY <4>1, <4>2
    <3>3. v[n + 1].role = "assistant" /\ Len(v[n + 1].answers) = 0 /\ n + 1 # 1
      BY <1>3, <1>4, <1>5
    <3>. QED  BY <1>6, <3>2, <3>3 DEF Prefaced
  <2>. QED  BY <2>1, <2>2 DEF InForm
<1>11. Len(v) > 1 /\ v[Len(v)] = reply
  BY <1>3, <1>5
<1>. QED  BY <1>1, <1>4, <1>8, <1>10, <1>11 DEF Halfway, v
(* The results as messages: all in one for Anthropic, else one for each.   *)
LEMMA SubmittedForm ==
  ASSUME NEW p \in Adapters, NEW answers \in Seq(CallIdSet)
  PROVE  /\ Submitted(p, answers) \in Seq(Wired)
         /\ p = "anthropic" =>
              /\ Len(Submitted(p, answers)) = 1
              /\ Submitted(p, answers)[1].role = "user"
              /\ Submitted(p, answers)[1].answers = answers
         /\ p \in {"openai", "ollama"} =>
              /\ Len(Submitted(p, answers)) = Len(answers)
              /\ \A k \in 1..Len(answers) :
                   /\ Submitted(p, answers)[k].role = "tool"
                   /\ Submitted(p, answers)[k].answers = <<answers[k]>>
<1>1. Len(answers) \in Nat /\ \A k \in 1..Len(answers) : answers[k] \in CallIdSet
  BY LenProperties, ElementOfSeq
<1>2. << >> \in Seq(Wired) /\ << >> \in Seq(CallIdSet \cup {None})
  BY EmptySeq
<1>3. ASSUME p = "anthropic"
      PROVE  /\ Submitted(p, answers) \in Seq(Wired)
             /\ Len(Submitted(p, answers)) = 1
             /\ Submitted(p, answers)[1].role = "user"
             /\ Submitted(p, answers)[1].answers = answers
  <2>. DEFINE all == [role |-> "user", calls |-> << >>, answers |-> answers]
  <2>1. all \in Wired /\ all.role = "user" /\ all.answers = answers
    BY <1>2 DEF Wired
  <2>2. Submitted(p, answers) = <<all>>
    BY <1>3 DEF Submitted
  <2>. HIDE DEF all
  <2>3. <<all>> \in Seq(Wired) /\ Len(<<all>>) = 1 /\ <<all>>[1] = all
    BY <2>1
  <2>. QED  BY <2>1, <2>2, <2>3
<1>4. ASSUME p \in {"openai", "ollama"}
      PROVE  /\ Submitted(p, answers) \in Seq(Wired)
             /\ Len(Submitted(p, answers)) = Len(answers)
             /\ \A k \in 1..Len(answers) :
                  /\ Submitted(p, answers)[k].role = "tool"
                  /\ Submitted(p, answers)[k].answers = <<answers[k]>>
  <2>. DEFINE n == Len(answers)
              Of(k) == [role |-> "tool", calls |-> << >>, answers |-> <<answers[k]>>]
              each == [k \in 1..n |-> Of(k)]
  <2>1. Submitted(p, answers) = each
    BY <1>4 DEF Submitted
  <2>2. \A k \in 1..n : Of(k) \in Wired
    <3>1. \A k \in 1..n : <<answers[k]>> \in Seq(CallIdSet)
      BY <1>1
    <3>. QED  BY <1>2, <3>1 DEF Wired
  <2>3. \A k \in 1..n : Of(k).role = "tool" /\ Of(k).answers = <<answers[k]>>
    OBVIOUS
  <2>. HIDE DEF Of
  <2>4. each \in [1..n -> Wired] /\ \A k \in 1..n : each[k] = Of(k)
    BY <2>2
  <2>. HIDE DEF each
  <2>5. each \in Seq(Wired) /\ Len(each) = n
    <3>1. each \in Seq(Wired)
      BY <1>1, <2>4, SeqDef
    <3>. QED  BY <1>1, <2>4, <3>1, LenProperties
  <2>. QED  BY <2>1, <2>3, <2>4, <2>5
<1>5. p = "scripted" => Submitted(p, answers) \in Seq(Wired)
  BY <1>2 DEF Submitted
<1>. QED  BY <1>3, <1>4, <1>5 DEF Adapters

(* With the results of that reply the conversation is in order again.      *)
LEMMA SubmittedSettles ==
  ASSUME NEW p \in Hosted, NEW w \in Seq(Wired),
         NEW asked \in Seq(CallIdSet), Halfway(p, w, asked)
  PROVE  Acceptable(p, w \o Submitted(p, asked))
<1>. DEFINE s == Submitted(p, asked)
            n == Len(w)
            m == Len(s)
            v == w \o s
<1>1. /\ s \in Seq(Wired)
      /\ p = "anthropic" => m = 1 /\ s[1].role = "user" /\ s[1].answers = asked
      /\ p \in {"openai", "ollama"} =>
           /\ m = Len(asked)
           /\ \A k \in 1..m : s[k].role = "tool" /\ s[k].answers = <<asked[k]>>
  BY SubmittedForm DEF Hosted
<1>. HIDE DEF s
<1>2. n \in Nat /\ n > 1 /\ m \in Nat /\ Len(asked) \in Nat /\ Len(asked) > 0
  BY <1>1, LenProperties DEF Halfway
<1>3. p = "anthropic" \/ p \in {"openai", "ollama"}
  BY DEF Hosted, Adapters
<1>4. m > 0
  BY <1>1, <1>2, <1>3
<1>5. /\ v \in Seq(Wired) /\ Len(v) = n + m
      /\ \A i \in 1..n : v[i] = w[i]
      /\ \A k \in 1..m : v[n + k] = s[k]
  <2>1. /\ v \in Seq(Wired) /\ Len(v) = n + m
        /\ \A i \in 1..(n + m) : v[i] = IF i <= n THEN w[i] ELSE s[i - n]
    BY <1>1, ConcatProperties
  <2>. HIDE DEF v, n, m
  <2>2. \A k \in 1..m : n + k \in 1..(n + m) /\ ~(n + k <= n) /\ (n + k) - n = k
    BY <1>2
  <2>3. \A i \in 1..n : i \in 1..(n + m)
    BY <1>2
  <2>. QED  BY <2>1, <2>2, <2>3
<1>. HIDE DEF v, m
<1>6. \A i \in 1..Len(v) : i \in 1..n \/ \E k \in 1..m : i = n + k
  <2>. SUFFICES ASSUME NEW i \in 1..(n + m), i \notin 1..n
                PROVE  i - n \in 1..m /\ i = n + (i - n)
    BY <1>5
  <2>. QED  BY <1>2
<1>7. /\ InForm(p, w)
      /\ \A i \in 1..(n - 1) : w[i].role = "assistant" => Answered(p, w, i)
      /\ w[n].role = "assistant" /\ w[n].answers = << >>
      /\ Len(w[n].calls) = Len(asked)
      /\ \A k \in 1..Len(asked) : Fits(w[n].calls[k], asked[k])
  BY DEF Halfway
<1>. HIDE DEF n
<1>8. v[n] = w[n] /\ v[1] = w[1] /\ v[Len(v)] = s[m]
  BY <1>2, <1>4, <1>5
<1>9. \A k \in 1..m : v[n + k].role \in {"user", "tool"}
  BY <1>1, <1>3, <1>5
<1>10. ASSUME NEW i \in 1..Len(v), v[i].role = "assistant"
       PROVE  Answered(p, v, i)
  <2>1. i \in 1..n
    BY <1>6, <1>9, <1>10
  <2>2. ASSUME i # n PROVE Answered(p, v, i)
    <3>1. i \in 1..(n - 1) /\ i \in 1..Len(w) /\ w[i].role = "assistant" /\ Len(w) <= Len(v)
      BY <1>2, <1>4, <1>5, <1>10, <2>1, <2>2 DEF n
    <3>2. Answered(p, w, i)
      BY <1>7, <3>1
    <3>3. \A j \in 1..Len(w) : v[j] = w[j]
      BY <1>5 DEF n
    <3>. QED  BY <1>5, <3>1, <3>2, <3>3, StaysAnswered
  <2>3. ASSUME i = n, p = "anthropic" PROVE Answered(p, v, i)
    <3>1. v[n + 1].answers = asked /\ n < Len(v)
      BY <1>1, <1>2, <1>5, <2>3
    <3>2. AnsweredTogether(v, n)
      BY <1>7, <1>8, <3>1 DEF AnsweredTogether
    <3>. QED  BY <2>3, <3>2 DEF Answered
  <2>4. ASSUME i = n, p \in {"openai", "ollama"} PROVE Answered(p, v, i)
    <3>1. ASSUME NEW k \in 1..Len(asked)
          PROVE  v[n + k].role = "tool" /\ v[n + k].answers[1] = asked[k]
      <4>1. v[n + k] = s[k] /\ s[k].role = "tool" /\ s[k].answers = <<asked[k]>>
        BY <1>1, <1>5, <2>4, <3>1
      <4>. QED  BY <4>1
    <3>2. n + Len(v[n].calls) <= Len(v)
      BY <1>1, <1>2, <1>5, <1>7, <1>8, <2>4
    <3>3. AnsweredSingly(v, n)
      BY <1>7, <1>8, <3>1, <3>2 DEF AnsweredSingly
    <3>. QED  BY <2>4, <3>3 DEF Answered
  <2>. QED  BY <1>3, <2>2, <2>3, <2>4
<1>11. InForm(p, v)
  <2>1. ASSUME p = "anthropic" PROVE Alternating(v)
    <3>1. Alternating(w)
      BY <1>7, <2>1 DEF InForm
    <3>2. n % 2 # 1
      <4>1. n \in 1..Len(w) /\ w[n].role = IF n % 2 = 1 THEN "user" ELSE "assistant"
        BY <1>2, <3>1 DEF Alternating, n
      <4>. QED  BY <1>7, <4>1
    <3>3. (n + 1) % 2 = 1
      BY <1>2, <3>2
    <3>4. v[1].answers = << >>
      BY <1>8, <3>1 DEF Alternating
    <3>5. \A i \in 1..n : v[i].role = IF i % 2 = 1 THEN "user" ELSE "assistant"
      BY <1>5, <3>1 DEF Alternating, n
    <3>6. v[n + 1].role = IF (n + 1) % 2 = 1 THEN "user" ELSE "assistant"
      BY <1>1, <1>5, <2>1, <3>3
    <3>7. \A i \in 1..Len(v) : i \in 1..n \/ i = n + 1
      BY <1>1, <1>6, <2>1
    <3>. QED  BY <3>4, <3>5, <3>6, <3>7 DEF Alternating
  <2>2. ASSUME p \in {"openai", "ollama"} PROVE Prefaced(v)
    <3>1. Prefaced(w)
      BY <1>7, <2>2 DEF InForm
    <3>2. ASSUME NEW i \in 1..n
          PROVE  /\ v[i].role = "system" <=> i = 1
                 /\ Len(v[i].answers) = IF v[i].role = "tool" THEN 1 ELSE 0
                 /\ v[i].role = "tool" =>
                      \E j \in 1..(i - 1) : v[j].role = "assistant" /\ i <= j + Len(v[j].calls)
      <4>1. v[i] = w[i] /\ \A j \in 1..(i - 1) : j \in 1..n /\ v[j] = w[j]
        BY <1>2, <1>5, <3>2
      <4>2. /\ w[i].role = "system" <=> i = 1
            /\ Len(w[i].answers) = IF w[i].role = "tool" THEN 1 ELSE 0
            /\ w[i].role = "tool" =>
                 \E j \in 1..(i - 1) : w[j].role = "assistant" /\ i <= j + Len(w[j].calls)
        BY <3>1, <3>2 DEF Prefaced, n
      <4>. QED  BY <4>1, <4>2
    <3>3. ASSUME NEW k \in 1..m
          PROVE  /\ v[n + k].role = "tool" /\ n + k # 1
                 /\ Len(v[n + k].answers) = 1
                 /\ n \in 1..(n + k - 1) /\ n + k <= n + Len(v[n].calls)
      <4>1. v[n + k] = s[k] /\ s[k].role = "tool" /\ s[k].answers = <<asked[k]>>
        BY <1>1, <1>5, <2>2, <3>3
      <4>2. Len(v[n].calls) = m /\ k <= m /\ k \in Nat /\ k > 0
        BY <1>1, <1>2, <1>7, <1>8, <2>2, <3>3
      <4>. QED  BY <1>2, <4>1, <4>2
    <3>4. ASSUME NEW i \in 1..Len(v)
          PROVE  /\ v[i].role = "system" <=> i = 1
                 /\ Len(v[i].answers) = IF v[i].role = "tool" THEN 1 ELSE 0
                 /\ v[i].role = "tool" =>
                      \E j \in 1..(i - 1) : v[j].role = "assistant" /\ i <= j + Len(v[j].calls)
      <4>1. ASSUME NEW k \in 1..m, i = n + k
            PROVE  /\ v[i].role = "tool" /\ i # 1 /\ Len(v[i].answers) = 1
                   /\ \E j \in 1..(i - 1) : v[j].role = "assistant" /\ i <= j + Len(v[j].calls)
        <5>1. v[i].role = "tool" /\ i # 1 /\ Len(v[i].answers) = 1
          BY <3>3, <4>1
        <5>2. n \in 1..(i - 1) /\ i <= n + Len(v[n].calls)
          BY <3>3, <4>1
        <5>3. v[n].role = "assistant"
          BY <1>7, <1>8
        <5>. QED  BY <5>1, <5>2, <5>3
      <4>2. CASE i \in 1..n
        BY <3>2, <4>2
      <4>3. CASE \E k \in 1..m : i = n + k
        <5>1. PICK k \in 1..m : i = n + k
          BY <4>3
        <5>2. /\ v[i].role = "tool" /\ i # 1 /\ Len(v[i].answers) = 1
              /\ \E j \in 1..(i - 1) : v[j].role = "assistant" /\ i <= j + Len(v[j].calls)
          BY <4>1, <5>1
        <5>. QED  BY <5>2
      <4>. QED  BY <1>6, <4>2, <4>3
    <3>. QED  BY <3>4 DEF Prefaced
  <2>. QED  BY <1>3, <2>1, <2>2 DEF InForm
<1>12. Len(v) > 0 /\ v[Len(v)].role \in {"user", "tool"}
  <2>1. Len(v) = n + m /\ m \in 1..m /\ n + m > 0
    BY <1>2, <1>4, <1>5
  <2>. QED  BY <1>9, <2>1
<1>13. Acceptable(p, v)
  BY <1>10, <1>11, <1>12 DEF Acceptable, Last
<1>. QED  BY <1>13 DEF v, s
-----------------------------------------------------------------------------
(* The loop with its transcripts takes the steps of the loop.              *)
LEMMA WireStep == [TNext]_wireVars => [Next]_vars
<1>1. ASSUME NEW r \in Runs, TStep(r)
      PROVE  Step(r)
  BY <1>1 DEF TStep, Ask, Conclude, Hand, Step
<1>2. TNext => Next
  BY <1>1 DEF TNext, Next
<1>3. UNCHANGED wireVars => UNCHANGED vars
  BY DEF wireVars
<1>. QED  BY <1>2, <1>3

LEMMA ChosenStep ==
  ASSUME TypeOK, Chosen, [Next]_vars
  PROVE  Chosen'
<1>1. ASSUME NEW r \in Runs, NEW p \in Providers[r], Start(r, p)
      PROVE  Chosen'
  <2>1. p \in Adapters
    BY LoopAssumption
  <2>. QED  BY <1>1, <2>1 DEF Start, Chosen, Goto, TypeOK
<1>2. ASSUME NEW r \in Runs, Step(r)
      PROVE  Chosen'
  <2>1. provider' = provider
    BY <1>2 DEF Step, AskTools, Finish, GiveUp, Fail, Exhaust, Refuse, Misfit,
                Invoke, Audit, Observe, Submit, runVars
  <2>2. pc[r] # "idle"
    BY <1>2 DEF Step, AskTools, Finish, GiveUp, Fail, Exhaust, Refuse, Misfit,
                Invoke, Audit, Observe, Submit
  <2>3. \A q \in Runs : q # r => pc'[q] = pc[q]
    BY <1>2 DEF Step, AskTools, Finish, GiveUp, Fail, Exhaust, Refuse, Misfit,
                Invoke, Audit, Observe, Submit, runVars, Goto, TypeOK
  <2>. QED  BY <2>1, <2>2, <2>3 DEF Chosen
<1>3. CASE UNCHANGED vars
  BY <1>3 DEF vars, runVars, Chosen
<1>. QED  BY <1>1, <1>2, <1>3 DEF Next

(* A reply with calls is recorded as it came.                              *)
LEMMA SentAsk ==
  ASSUME IInv, IInv', Chosen, Sent, NEW r \in Runs, Ask(r)
  PROVE  wire' \in [Runs -> Seq(Wired)] /\ SentOf(r)'
<1>. DEFINE p == provider[r]
            asked == Last(transcript'[r]).ids
            k == 2 * steps[r] + 1
<1>1. /\ AskTools(r) /\ pc[r] = "turn" /\ pc'[r] = "calls"
      /\ provider' = provider /\ steps' = steps
      /\ wire' = [wire EXCEPT ![r] = @ \o Recorded(p, asked)]
  BY DEF Ask, AskTools, Write, Goto, IInv, TypeOK
<1>2. Open(r)' /\ k \in Nat \ {0} /\ steps'[r] = steps[r]
  <2>1. InTurn(r)'
    BY <1>1 DEF InTurn
  <2>2. steps[r] \in Nat
    BY DEF IInv, TypeOK
  <2>. QED  BY <1>1, <2>1, <2>2 DEF IInv, Talk, TalkOf
<1>3. Len(transcript'[r]) = k /\ asked = transcript'[r][k].ids
  BY <1>2 DEF Open, Last
<1>4. asked \in Seq(CallIdSet)
  <2>1. transcript'[r] \in Seq(Message)
    BY DEF IInv, TypeOK
  <2>2. transcript'[r][k] \in Message
    BY <1>2, <1>3, <2>1, ElementOfSeq
  <2>. QED  BY <1>3, <2>2 DEF Message
<1>5. Len(asked) > 0
  <2>1. steps[r] + 1 \in Nat
    BY DEF IInv, TypeOK
  <2>3. PICK b \in Batches(r, p, Turns(r)) :
          transcript' = [transcript EXCEPT ![r] =
            Append(@, [role |-> "assistant", ids |-> CallIds(b)])]
    BY <1>1 DEF AskTools
  <2>4. Turns(r) \in SUBSET Nat
    BY <2>1 DEF Turns
  <2>5. CallIds(b) \in Seq(CallIdSet) /\ Len(CallIds(b)) > 0
    BY <2>4, BatchType
  <2>. DEFINE message == [role |-> "assistant", ids |-> CallIds(b)]
  <2>6. message \in Message /\ message.ids = CallIds(b)
    BY <2>5 DEF Message
  <2>. HIDE DEF message
  <2>7. transcript'[r] = Append(transcript[r], message) /\ transcript[r] \in Seq(Message)
    BY <2>3 DEF IInv, TypeOK, message
  <2>8. transcript'[r][Len(transcript'[r])] = message
    BY <2>6, <2>7, AppendProperties
  <2>. QED  BY <2>5, <2>6, <2>8 DEF Last
<1>6. wire[r] \in Seq(Wired) /\ p \in Adapters
  BY <1>1 DEF Sent, Chosen
<1>. HIDE DEF asked
<1>7. wire'[r] = wire[r] \o Recorded(p, asked) /\ wire'[r] \in Seq(Wired)
  <2>1. Recorded(p, asked) \in Seq(Wired)
    BY <1>4, RecordedType
  <2>2. wire[r] \o Recorded(p, asked) \in Seq(Wired)
    BY <1>6, <2>1, ConcatProperties
  <2>. QED  BY <1>1, <2>2 DEF Sent
<1>8. wire' \in [Runs -> Seq(Wired)]
  BY <1>1, <1>7 DEF Sent
<1>9. p \in Hosted => Halfway(p, wire'[r], asked)
  <2>. SUFFICES ASSUME p \in Hosted PROVE Halfway(p, wire'[r], asked)
    OBVIOUS
  <2>1. Acceptable(p, wire[r])
    BY <1>1 DEF Sent, SentOf
  <2>. QED  BY <1>4, <1>5, <1>6, <1>7, <2>1, RecordedHalfway
<1>. QED  BY <1>1, <1>2, <1>3, <1>8, <1>9 DEF SentOf

(* All the results of the turn, under the ids the reply asked for.         *)
LEMMA SentHand ==
  ASSUME IInv, Chosen, Sent, NEW r \in Runs, Hand(r)
  PROVE  wire' \in [Runs -> Seq(Wired)] /\ SentOf(r)'
<1>. DEFINE p == provider[r]
            asked == transcript[r][2 * steps[r] + 1].ids
<1>1. /\ pc[r] = "calls" /\ pending[r] = << >> /\ pc'[r] = "turn" /\ provider' = provider
      /\ wire' = [wire EXCEPT ![r] = @ \o Submitted(p, results[r])]
  BY DEF Hand, Submit, Write, Goto, IInv, TypeOK
<1>2. p \in Adapters /\ wire[r] \in Seq(Wired) /\ results[r] \in Seq(CallIdSet)
  BY <1>1 DEF Chosen, Sent, IInv, TypeOK
<1>3. asked = results[r]
  <2>1. Open(r) /\ steps[r] \in Nat /\ transcript[r] \in Seq(Message)
    BY <1>1 DEF IInv, Talk, TalkOf, InTurn, TypeOK
  <2>2. transcript[r][2 * steps[r] + 1] \in Message
    <3>1. 2 * steps[r] + 1 \in 1..Len(transcript[r])
      BY <2>1 DEF Open
    <3>. QED  BY <2>1, <3>1, ElementOfSeq
  <2>3. asked \in Seq(CallIdSet)
    BY <2>2 DEF Message
  <2>4. Len(pending[r]) = 0 /\ Len(results[r]) \in Nat
    BY <1>1, <1>2, LenProperties
  <2>5. Len(asked) = Len(results[r]) /\ \A i \in 1..Len(results[r]) : asked[i] = results[r][i]
    <3>1. /\ Len(asked) = Len(results[r]) + Len(pending[r])
          /\ \A i \in 1..Len(results[r]) : asked[i] = results[r][i]
      BY <2>1 DEF Open
    <3>. HIDE DEF asked
    <3>. QED  BY <2>4, <3>1
  <2>. HIDE DEF asked
  <2>. QED  BY <1>2, <2>3, <2>5, SeqEqual
<1>4. wire'[r] = wire[r] \o Submitted(p, results[r]) /\ wire'[r] \in Seq(Wired)
  <2>1. Submitted(p, results[r]) \in Seq(Wired)
    BY <1>2, SubmittedForm
  <2>2. wire[r] \o Submitted(p, results[r]) \in Seq(Wired)
    BY <1>2, <2>1, ConcatProperties
  <2>. QED  BY <1>1, <2>2 DEF Sent
<1>5. wire' \in [Runs -> Seq(Wired)]
  BY <1>1, <1>4 DEF Sent
<1>6. p \in Hosted => Acceptable(p, wire'[r])
  <2>. SUFFICES ASSUME p \in Hosted PROVE Acceptable(p, wire'[r])
    OBVIOUS
  <2>1. Halfway(p, wire[r], results[r])
    BY <1>1, <1>3 DEF Sent, SentOf, InTurn
  <2>. QED  BY <1>2, <1>4, <2>1, SubmittedSettles
<1>. QED  BY <1>1, <1>5, <1>6 DEF SentOf, InTurn

(* A new run opens its conversation.                                       *)
LEMMA SentStart ==
  ASSUME IInv, Sent, NEW r \in Runs, NEW p \in Providers[r], Start(r, p), Write(r, Opening(p))
  PROVE  wire' \in [Runs -> Seq(Wired)] /\ SentOf(r)'
<1>1. p \in Adapters
  BY LoopAssumption
<1>2. /\ pc[r] = "idle" /\ pc'[r] = "turn" /\ provider'[r] = p
      /\ wire' = [wire EXCEPT ![r] = @ \o Opening(p)]
  BY DEF Start, Write, Goto, IInv, TypeOK
<1>3. wire[r] = << >>
  BY <1>2 DEF Sent, SentOf
<1>4. Opening(p) \in Seq(Wired) /\ (p # "scripted" => Acceptable(p, Opening(p)))
  BY <1>1, OpeningAccepted
<1>5. << >> \o Opening(p) = Opening(p)
  BY <1>4, ConcatEmptySeq
<1>6. wire'[r] = Opening(p) /\ wire' \in [Runs -> Seq(Wired)]
  BY <1>2, <1>3, <1>4, <1>5 DEF Sent
<1>. QED  BY <1>2, <1>4, <1>6 DEF SentOf, InTurn, Hosted

(* A final answer is recorded and never sent.                              *)
LEMMA SentConclude ==
  ASSUME IInv, Sent, NEW r \in Runs, Conclude(r)
  PROVE  wire' \in [Runs -> Seq(Wired)] /\ SentOf(r)'
<1>1. /\ pc'[r] = "done" /\ wire' = [wire EXCEPT ![r] = @ \o Recorded(provider[r], << >>)]
  BY DEF Conclude, Finish, Write, Goto, IInv, TypeOK
<1>2. << >> \in Seq(CallIdSet)
  BY EmptySeq
<1>3. Recorded(provider[r], << >>) \in Seq(Wired)
  BY <1>2, RecordedType
<1>4. wire[r] \o Recorded(provider[r], << >>) \in Seq(Wired)
  BY <1>3, ConcatProperties DEF Sent
<1>5. wire' \in [Runs -> Seq(Wired)]
  BY <1>1, <1>4 DEF Sent
<1>. QED  BY <1>1, <1>5 DEF SentOf, InTurn

(* Every other step writes nothing and asks nothing new.                   *)
LEMMA SentQuiet ==
  ASSUME IInv, Sent, NEW r \in Runs, UNCHANGED wire,
         GiveUp(r) \/ Fail(r) \/ Exhaust(r) \/ Refuse(r) \/ Misfit(r)
           \/ Invoke(r) \/ Audit(r) \/ Observe(r)
  PROVE  SentOf(r)'
<1>1. UNCHANGED <<provider, steps, transcript>>
  BY DEF GiveUp, Fail, Exhaust, Refuse, Misfit, Invoke, Audit, Observe, runVars
<1>2. pc'[r] \in {"done", "raised"} \/ (InTurn(r) /\ InTurn(r)')
  BY DEF GiveUp, Fail, Exhaust, Refuse, Misfit, Invoke, Audit, Observe, Goto, InTurn, IInv, TypeOK
<1>. QED  BY <1>1, <1>2 DEF Sent, SentOf, InTurn

(* The steps of one run leave the messages of the others alone.            *)
LEMMA SentElsewhere ==
  ASSUME IInv, Sent, NEW r \in Runs,
         TStep(r) \/ \E p \in Providers[r] : Start(r, p) /\ Write(r, Opening(p)),
         NEW q \in Runs, q # r
  PROVE  SentOf(q)'
<1>1. wire'[q] = wire[q]
  BY DEF TStep, Ask, Conclude, Hand, Write, Sent
<1>2. Step(r) \/ \E p \in Providers[r] : Start(r, p)
  BY DEF TStep, Ask, Conclude, Hand, Step
<1>. USE <1>2 DEF IInv, TypeOK, Goto
<1>3. pc'[q] = pc[q]
  BY DEF Step, AskTools, Finish, GiveUp, Fail, Exhaust, Refuse, Misfit,
         Invoke, Audit, Observe, Submit, Start
<1>4. provider'[q] = provider[q] /\ steps'[q] = steps[q]
  BY DEF Step, AskTools, Finish, GiveUp, Fail, Exhaust, Refuse, Misfit,
         Invoke, Audit, Observe, Submit, Start, runVars
<1>5. transcript'[q] = transcript[q]
  BY DEF Step, AskTools, Finish, GiveUp, Fail, Exhaust, Refuse, Misfit,
         Invoke, Audit, Observe, Submit, Start, runVars
<1>6. SentOf(q)
  BY DEF Sent
<1>. QED  BY <1>1, <1>3, <1>4, <1>5, <1>6 DEF SentOf, InTurn

LEMMA SentStep ==
  ASSUME IInv, IInv', Chosen, Sent, [TNext]_wireVars
  PROVE  Sent'
<1>1. ASSUME NEW r \in Runs,
             TStep(r) \/ \E p \in Providers[r] : Start(r, p) /\ Write(r, Opening(p))
      PROVE  Sent'
  <2>1. wire' \in [Runs -> Seq(Wired)] /\ SentOf(r)'
    <3>1. ASSUME NEW p \in Providers[r], Start(r, p) /\ Write(r, Opening(p))
          PROVE  wire' \in [Runs -> Seq(Wired)] /\ SentOf(r)'
      BY <3>1, SentStart
    <3>2. ASSUME Ask(r) \/ Conclude(r) \/ Hand(r)
          PROVE  wire' \in [Runs -> Seq(Wired)] /\ SentOf(r)'
      BY <3>2, SentAsk, SentConclude, SentHand
    <3>3. ASSUME UNCHANGED wire,
                 GiveUp(r) \/ Fail(r) \/ Exhaust(r) \/ Refuse(r) \/ Misfit(r)
                   \/ Invoke(r) \/ Audit(r) \/ Observe(r)
          PROVE  wire' \in [Runs -> Seq(Wired)] /\ SentOf(r)'
      BY <3>3, SentQuiet DEF Sent
    <3>. QED  BY <1>1, <3>1, <3>2, <3>3 DEF TStep
  <2>2. ASSUME NEW q \in Runs, q # r PROVE SentOf(q)'
    BY <1>1, <2>2, SentElsewhere
  <2>. QED  BY <2>1, <2>2 DEF Sent
<1>2. CASE UNCHANGED wireVars
  BY <1>2 DEF wireVars, vars, runVars, Sent, SentOf, InTurn
<1>. QED  BY <1>1, <1>2 DEF TNext

-----------------------------------------------------------------------------
(* With its transcripts, the loop is the loop: the adapters' bookkeeping   *)
(* disables no step and adds none (llm.py: start, next_turn,               *)
(* submit_tool_results).                                                   *)
THEOREM TranscriptsFollow == TSpec => Spec
<1>1. TInit => Init
  BY DEF TInit
<1>. QED  BY <1>1, WireStep, PTL DEF TSpec, Spec

THEOREM WireInvariance == TSpec => []TInv
<1>1. TInit => TInv
  <2>. SUFFICES ASSUME TInit PROVE TInv
    OBVIOUS
  <2>1. IInv
    BY InitInv DEF TInit
  <2>2. Chosen
    BY DEF TInit, Init, Chosen
  <2>3. wire \in [Runs -> Seq(Wired)]
    BY EmptySeq DEF TInit
  <2>4. Sent
    BY <2>3 DEF TInit, Init, Sent, SentOf, InTurn
  <2>. QED  BY <2>1, <2>2, <2>4 DEF TInv
<1>2. TInv /\ [TNext]_wireVars => TInv'
  <2>. SUFFICES ASSUME TInv, [TNext]_wireVars PROVE TInv'
    OBVIOUS
  <2>1. IInv'
    BY WireStep, InvStep DEF TInv
  <2>2. Chosen'
    BY WireStep, ChosenStep DEF TInv, IInv
  <2>. QED  BY <2>1, <2>2, SentStep DEF TInv
<1>. QED  BY <1>1, <1>2, PTL DEF TSpec

(* llm.py, submit_tool_results of each adapter: when a hosted model is     *)
(* asked for its next turn, what is sent is in its provider's form and     *)
(* every call of every earlier reply is answered - for any number of turns *)
(* and calls, unlisted tools and calls without ids included.               *)
THEOREM ConversationResumes == TSpec => []Resumable
<1>1. TInv => Resumable
  <2>. SUFFICES ASSUME TInv, NEW r \in Runs, pc[r] = "turn", provider[r] # "scripted"
                PROVE  Acceptable(provider[r], wire[r])
    BY DEF Resumable
  <2>1. provider[r] \in Hosted
    BY DEF TInv, Chosen, Hosted
  <2>. QED  BY <2>1 DEF TInv, Sent, SentOf
<1>. QED  BY <1>1, WireInvariance, PTL
=============================================================================
