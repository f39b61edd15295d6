--------------------------- MODULE DbaToolProofs ---------------------------
(***************************************************************************)
(* Proofs about the tool wrapper, for any number of request threads, tools *)
(* and calls: type correctness, one audit record and one answer per        *)
(* correlation id, an exact in-flight gauge, counters equal to the log,    *)
(* and no token spent twice.                                               *)
(*                                                                         *)
(* The argument.  A running call owns its number: no other running call    *)
(* has it and it is in no answer (Owner).  Its record is not in the log    *)
(* until Audit and is there from then on (Written), because every path     *)
(* through the wrapper passes Audit exactly once.  The counts of the       *)
(* counters, the log and the tokens change by the one thread that moves    *)
(* between two sets of threads (Accounts).                                 *)
(***************************************************************************)
EXTENDS DbaTool, SequenceTheorems, FiniteSetTheorems, TLAPS

Running(t) == pc[t] # "idle"

Record_(t) == [cid |-> context[t], tool |-> tool[t], status |-> outcome[t]]

Owner ==
  /\ \A t \in Threads : Running(t) =>
       /\ call[t] \in 1..calls /\ context[t] = call[t] /\ tool[t] \in Tools
       /\ answer[call[t]] = None
  /\ \A t, u \in Threads : Running(t) /\ Running(u) /\ call[t] = call[u] => t = u

Decided ==
  \A t \in Threads :
    IF pc[t] \in {"audit", "record", "return"} THEN outcome[t] \in Statuses ELSE outcome[t] = None

Written ==
  /\ \A i \in 1..Len(log) : log[i].cid <= calls
  /\ \A c \in Cids : c > calls => answer[c] = None
  /\ \A t \in Threads :
       /\ pc[t] \in {"limit", "validate", "body", "audit"} =>
            \A i \in 1..Len(log) : log[i].cid # call[t]
       /\ pc[t] \in {"record", "return"} =>
            \E i \in 1..Len(log) : log[i] = Record_(t)

IInv == TypeOK /\ Owner /\ Decided /\ Written /\ AuditedOnce /\ GaugeExact

LEMMA InitInv == Init => IInv
<1>. SUFFICES ASSUME Init PROVE IInv
  OBVIOUS
<1>. USE ToolAssumption DEF Init
<1>1. TypeOK
  <2>1. log \in Seq(Envelopes)
    BY EmptySeq
  <2>2. clock \in 0..MaxTime /\ calls \in 0..MaxCalls
    BY DEF Limiter!Init
  <2>. QED  BY <2>1, <2>2 DEF TypeOK, Inputs
<1>2. Owner /\ Decided /\ Written /\ AuditedOnce
  BY DEF Owner, Decided, Written, AuditedOnce, Running, Cids
<1>3. GaugeExact
  <2>. SUFFICES ASSUME NEW k \in Tools PROVE gauge[k] = Cardinality(InFlight(k))
    BY DEF GaugeExact
  <2>1. InFlight(k) = {}
    BY DEF InFlight, Statuses
  <2>. QED  BY <2>1, FS_EmptySet
<1>. QED  BY <1>1, <1>2, <1>3 DEF IInv
(* What a thread is about to answer is an envelope. *)
LEMMA RecordType ==
  ASSUME TypeOK, Owner, Decided, NEW t \in Threads, pc[t] \in {"audit", "record", "return"}
  PROVE  Record_(t) \in Envelopes /\ call[t] \in Cids /\ tool[t] \in Tools
<1>1. context[t] \in Cids /\ call[t] \in Cids /\ tool[t] \in Tools
  BY ToolAssumption DEF Owner, Running, TypeOK, Cids
<1>2. outcome[t] \in Statuses
  BY DEF Decided
<1>. QED  BY <1>1, <1>2 DEF Record_, Envelopes

(* A thread that leaves the wrapper after a body is one of those the gauge *)
(* counts, so the gauge is positive then.                                  *)
LEMMA GaugePositive ==
  ASSUME IInv, NEW t \in Threads, pc[t] = "return", outcome[t] \in {"ok", "error"}
  PROVE  tool[t] \in Tools /\ gauge[tool[t]] \in Nat \ {0}
<1>1. tool[t] \in Tools
  BY DEF IInv, Owner, Running
<1>2. t \in InFlight(tool[t]) /\ IsFiniteSet(InFlight(tool[t]))
  BY <1>1, FS_Subset, ToolAssumption DEF InFlight
<1>3. Cardinality(InFlight(tool[t])) \in Nat \ {0}
  BY <1>2, FS_CardinalityType, FS_EmptySet
<1>. QED  BY <1>1, <1>3 DEF IInv, GaugeExact

LEMMA TypeStep ==
  ASSUME IInv, [Next]_vars
  PROVE  TypeOK'
<1>. USE ToolAssumption DEF IInv, TypeOK
<1>1. CASE Tick
  BY <1>1 DEF Tick, Limiter!Tick, threadVars
<1>2. CASE \E t \in Threads, k \in Tools, in \in Inputs : Invoke(t, k, in)
  BY <1>2 DEF Invoke, Mint, Goto, Limiter!Ask, Cids
<1>3. ASSUME NEW t \in Threads, Admit(t) \/ Refuse(t)
      PROVE  TypeOK'
  BY <1>3 DEF Admit, Refuse, Conclude, Goto, Limiter!Grant, Limiter!Deny, Limiter!Answer,
              threadVars, Statuses
<1>4. ASSUME NEW t \in Threads, Reject(t) \/ Succeed(t) \/ Raise(t)
      PROVE  TypeOK'
  BY <1>4 DEF Reject, Succeed, Raise, Conclude, Goto, limiterVars, threadVars, Statuses
<1>5. ASSUME NEW t \in Threads, Execute(t)
      PROVE  TypeOK'
  <2>1. tool[t] \in Tools
    BY <1>5 DEF Owner, Running, Execute
  <2>. QED  BY <1>5, <2>1 DEF Execute, Goto, limiterVars, threadVars
<1>6. ASSUME NEW t \in Threads, Audit(t)
      PROVE  TypeOK'
  <2>1. Record_(t) \in Envelopes
    BY <1>6, RecordType DEF Audit
  <2>2. log' \in Seq(Envelopes)
    BY <1>6, <2>1, AppendProperties DEF Audit, Record_
  <2>. QED  BY <1>6, <2>2 DEF Audit, Goto, limiterVars, threadVars
<1>7. ASSUME NEW t \in Threads, Record(t)
      PROVE  TypeOK'
  <2>1. outcome[t] \in Statuses /\ tool[t] \in Tools
    BY <1>7 DEF Record, Decided, Owner, Running
  <2>2. total' \in [Tools -> [Statuses -> Nat]]
    BY <1>7, <2>1 DEF Record, Counted
  <2>. QED  BY <1>7, <2>2 DEF Record, Goto, limiterVars, threadVars
<1>8. ASSUME NEW t \in Threads, Return(t)
      PROVE  TypeOK'
  <2>1. answer' \in [Cids -> Envelopes \cup {None}]
    BY <1>8, RecordType DEF Return, Record_
  <2>2. gauge' \in [Tools -> Nat]
    BY <1>8, GaugePositive DEF Return, Left
  <2>. QED  BY <1>8, <2>1, <2>2 DEF Return, Goto, limiterVars, threadVars
<1>9. CASE UNCHANGED vars
  BY <1>9 DEF vars, limiterVars, threadVars
<1>. QED  BY <1>1, <1>2, <1>3, <1>4, <1>5, <1>6, <1>7, <1>8, <1>9 DEF Next, Step
(* What the steps inside the wrapper have in common.                       *)
Advance(t) ==
  /\ Running(t)
  /\ \E l \in {"validate", "body", "audit", "record", "return"} : pc' = [pc EXCEPT ![t] = l]
  /\ UNCHANGED <<threadVars, calls, answer>>

LEMMA AllAdvance ==
  ASSUME NEW t \in Threads,
         \/ Admit(t) \/ Refuse(t) \/ Reject(t) \/ Execute(t)
         \/ Succeed(t) \/ Raise(t) \/ Audit(t) \/ Record(t)
  PROVE  Advance(t)
<1>1. CASE Admit(t) \/ Refuse(t)
  BY <1>1 DEF Admit, Refuse, Conclude, Goto, Advance, Running
<1>2. CASE Reject(t) \/ Execute(t)
  BY <1>2 DEF Reject, Execute, Conclude, Goto, Advance, Running
<1>3. CASE Succeed(t) \/ Raise(t)
  BY <1>3 DEF Succeed, Raise, Conclude, Goto, Advance, Running
<1>4. CASE Audit(t) \/ Record(t)
  BY <1>4 DEF Audit, Record, Goto, Advance, Running
<1>. QED  BY <1>1, <1>2, <1>3, <1>4

LEMMA Concluded ==
  ASSUME TypeOK, Decided, NEW t \in Threads, NEW s \in Statuses, Conclude(t, s)
  PROVE  Decided'
<1>. SUFFICES ASSUME NEW u \in Threads
              PROVE IF pc'[u] \in {"audit", "record", "return"}
                    THEN outcome'[u] \in Statuses ELSE outcome'[u] = None
  BY DEF Decided
<1>1. CASE u = t
  BY <1>1 DEF Conclude, Goto, TypeOK
<1>2. CASE u # t
  <2>. pc'[u] = pc[u] /\ outcome'[u] = outcome[u]
    BY <1>2 DEF Conclude, Goto, TypeOK
  <2>. QED  BY DEF Decided
<1>. QED  BY <1>1, <1>2

(* A step of one thread leaves the locals of every other thread alone, and *)
(* keeps its own while the call runs.                                      *)
LEMMA OwnerStep ==
  ASSUME IInv, [Next]_vars
  PROVE  Owner' /\ Decided'
<1>. USE ToolAssumption DEF IInv, TypeOK, Owner, Decided, Running
<1>1. CASE Tick
  BY <1>1 DEF Tick, threadVars
<1>2. ASSUME NEW t \in Threads, NEW k \in Tools, NEW in \in Inputs, Invoke(t, k, in)
      PROVE  Owner' /\ Decided'
  <2>1. answer[calls + 1] = None
    BY <1>2 DEF Invoke, Written, Cids
  <2>. QED  BY <1>2, <2>1 DEF Invoke, Mint, Goto, Cids
<1>3. ASSUME NEW t \in Threads, Advance(t)
      PROVE  Owner'
  BY <1>3 DEF Advance, threadVars
<1>4. ASSUME NEW t \in Threads,
             \/ Admit(t) \/ Refuse(t) \/ Reject(t) \/ Execute(t)
             \/ Succeed(t) \/ Raise(t) \/ Audit(t) \/ Record(t)
      PROVE  Owner' /\ Decided'
  <2>1. Owner'
    BY <1>3, <1>4, AllAdvance
  <2>2. ASSUME Admit(t) \/ Execute(t) PROVE Decided'
    BY <2>2 DEF Admit, Execute, Goto
  <2>3. ASSUME Refuse(t) \/ Reject(t) PROVE Decided'
    BY <2>3, Concluded DEF Refuse, Reject, Statuses
  <2>4. ASSUME Succeed(t) \/ Raise(t) PROVE Decided'
    BY <2>4, Concluded DEF Succeed, Raise, Statuses
  <2>5. ASSUME Audit(t) \/ Record(t) PROVE Decided'
    BY <2>5 DEF Audit, Record, Goto
  <2>. QED  BY <1>4, <2>1, <2>2, <2>3, <2>4, <2>5
<1>5. ASSUME NEW t \in Threads, Return(t)
      PROVE  Owner' /\ Decided'
  BY <1>5 DEF Return, Goto, threadVars
<1>6. CASE UNCHANGED vars
  BY <1>6 DEF vars, threadVars
<1>. QED  BY <1>1, <1>2, <1>3, <1>4, <1>5, <1>6 DEF Next, Step

(* Audit adds the one record of its call; Return hands out a copy of it.   *)
LEMMA WrittenStep ==
  ASSUME IInv, [Next]_vars, TypeOK'
  PROVE  Written' /\ AuditedOnce'
<1>. USE ToolAssumption DEF IInv, Written, AuditedOnce, Record_
<1>1. CASE Tick
  BY <1>1 DEF Tick, threadVars
<1>2. ASSUME NEW t \in Threads, NEW k \in Tools, NEW in \in Inputs, Invoke(t, k, in)
      PROVE  Written' /\ AuditedOnce'
  <2>1. /\ pc' = [pc EXCEPT ![t] = "limit"] /\ call' = [call EXCEPT ![t] = calls + 1]
        /\ calls' = calls + 1 /\ calls \in Nat /\ UNCHANGED <<outcome, log, answer>>
        /\ context' = [context EXCEPT ![t] = calls + 1]
        /\ tool' = [tool EXCEPT ![t] = k]
    BY <1>2 DEF Invoke, Mint, Goto, TypeOK
  <2>2. \A i \in 1..Len(log) : log[i].cid \in Int /\ log[i].cid # calls + 1
    <3>. SUFFICES ASSUME NEW i \in 1..Len(log) PROVE log[i].cid \in Int /\ log[i].cid # calls + 1
      OBVIOUS
    <3>1. log[i] \in Envelopes
      BY ElementOfSeq DEF TypeOK
    <3>. QED  BY <2>1, <3>1 DEF Envelopes, Cids
  <2>. QED  BY <2>1, <2>2 DEF TypeOK, Cids
<1>3. ASSUME NEW t \in Threads,
             \/ Admit(t) \/ Refuse(t) \/ Reject(t) \/ Execute(t) \/ Succeed(t) \/ Raise(t)
      PROVE  Written' /\ AuditedOnce'
  <2>1. /\ UNCHANGED <<log, calls, call, answer>>
        /\ pc[t] \in {"limit", "validate", "body"}
        /\ \E l \in {"validate", "body", "audit"} : pc' = [pc EXCEPT ![t] = l]
    <3>1. CASE Admit(t) \/ Refuse(t)
      BY <3>1 DEF Admit, Refuse, Conclude, Goto, threadVars
    <3>2. CASE Reject(t) \/ Execute(t)
      BY <3>2 DEF Reject, Execute, Conclude, Goto, threadVars
    <3>3. CASE Succeed(t) \/ Raise(t)
      BY <3>3 DEF Succeed, Raise, Conclude, Goto, threadVars
    <3>. QED  BY <1>3, <3>1, <3>2, <3>3
  <2>2. UNCHANGED <<context, tool>> /\ \A u \in Threads : u # t => outcome'[u] = outcome[u]
    <3>1. CASE Admit(t) \/ Refuse(t)
      BY <3>1 DEF Admit, Refuse, Conclude, threadVars, TypeOK
    <3>2. CASE Reject(t) \/ Execute(t)
      BY <3>2 DEF Reject, Execute, Conclude, threadVars, TypeOK
    <3>3. CASE Succeed(t) \/ Raise(t)
      BY <3>3 DEF Succeed, Raise, Conclude, threadVars, TypeOK
    <3>. QED  BY <1>3, <3>1, <3>2, <3>3
  <2>3. ASSUME NEW u \in Threads
        PROVE  /\ pc'[u] \in {"limit", "validate", "body", "audit"} =>
                    \A i \in 1..Len(log) : log[i].cid # call[u]
               /\ pc'[u] \in {"record", "return"} =>
                    \E i \in 1..Len(log) : log[i] = Record_(u)'
    <3>1. CASE u = t
      <4>1. pc'[u] \in {"validate", "body", "audit"}
        BY <2>1, <3>1 DEF TypeOK
      <4>2. \A i \in 1..Len(log) : log[i].cid # call[u]
        BY <2>1, <3>1
      <4>. QED  BY <4>1, <4>2
    <3>2. CASE u # t
      <4>1. pc'[u] = pc[u] /\ Record_(u)' = Record_(u)
        BY <2>1, <2>2, <3>2 DEF TypeOK
      <4>. QED  BY <4>1
    <3>. QED  BY <3>1, <3>2
  <2>. QED  BY <2>1, <2>3
<1>4. ASSUME NEW t \in Threads, Record(t)
      PROVE  Written' /\ AuditedOnce'
  <2>1. /\ pc[t] = "record" /\ pc' = [pc EXCEPT ![t] = "return"]
        /\ UNCHANGED <<log, calls, call, answer, context, tool, outcome>>
    BY <1>4 DEF Record, Goto, threadVars
  <2>2. ASSUME NEW u \in Threads
        PROVE  /\ pc'[u] \in {"limit", "validate", "body", "audit"} =>
                    \A i \in 1..Len(log) : log[i].cid # call[u]
               /\ pc'[u] \in {"record", "return"} =>
                    \E i \in 1..Len(log) : log[i] = Record_(u)'
    <3>1. pc'[u] \in {"record", "return"} => pc[u] \in {"record", "return"}
      BY <2>1 DEF TypeOK
    <3>2. pc'[u] \in {"limit", "validate", "body", "audit"} => pc'[u] = pc[u]
      BY <2>1 DEF TypeOK
    <3>3. \A i \in 1..Len(log) : pc[u] \in {"limit", "validate", "body", "audit"} => log[i].cid # call[u]
      OBVIOUS
    <3>4. pc[u] \in {"record", "return"} => \E i \in 1..Len(log) : log[i] = Record_(u)'
      BY <2>1
    <3>. QED  BY <3>1, <3>2, <3>3, <3>4
  <2>. QED  BY <2>1, <2>2
<1>5. ASSUME NEW t \in Threads, Audit(t)
      PROVE  Written' /\ AuditedOnce'
  <2>. DEFINE rec == Record_(t)
  <2>. PICK n \in Nat : n = Len(log)
    BY LenProperties DEF TypeOK
  <2>1. rec \in Envelopes /\ log' = Append(log, rec)
    BY <1>5, RecordType DEF Audit
  <2>2. /\ Len(log') = n + 1
        /\ \A i \in 1..n : log'[i] = log[i]
        /\ log'[n + 1] = rec
    BY <2>1, AppendProperties DEF TypeOK
  <2>3. /\ rec.cid = call[t] /\ call[t] \in 1..calls
        /\ \A i \in 1..n : log[i].cid # call[t]
    BY <1>5 DEF Audit, Owner, Running
  <2>4. /\ pc' = [pc EXCEPT ![t] = "record"]
        /\ UNCHANGED <<call, context, tool, outcome, calls, answer>>
    BY <1>5 DEF Audit, Goto, threadVars
  <2>5. ASSUME NEW i \in 1..n + 1
        PROVE  i \in 1..n \/ i = n + 1
    OBVIOUS
  <2>6. \A i \in 1..Len(log') : log'[i].cid <= calls'
    <3>1. \A i \in 1..n : log'[i].cid <= calls
      BY <2>2
    <3>2. log'[n + 1].cid <= calls
      BY <2>2, <2>3
    <3>. QED  BY <2>2, <2>4, <2>5, <3>1, <3>2
  <2>7. \A i, j \in 1..Len(log') : log'[i].cid = log'[j].cid => i = j
    BY <2>2, <2>3, <2>5
  <2>8. \A c \in Cids : answer'[c] # None =>
          answer'[c].cid = c /\ \E i \in 1..Len(log') : log'[i] = answer'[c]
    <3>1. \A i \in 1..n : i \in 1..Len(log')
      BY <2>2
    <3>. QED  BY <2>2, <2>4, <3>1
  <2>9. ASSUME NEW u \in Threads
        PROVE  /\ pc'[u] \in {"limit", "validate", "body", "audit"} =>
                    \A i \in 1..Len(log') : log'[i].cid # call'[u]
               /\ pc'[u] \in {"record", "return"} =>
                    \E i \in 1..Len(log') : log'[i] = Record_(u)'
    <3>0. Record_(u)' = Record_(u) /\ n + 1 \in 1..Len(log') /\ \A i \in 1..n : i \in 1..Len(log')
      BY <2>2, <2>4
    <3>1. CASE u = t
      BY <2>2, <2>4, <3>0, <3>1 DEF TypeOK
    <3>2. CASE u # t
      <4>1. pc'[u] = pc[u]
        BY <2>4, <3>2 DEF TypeOK
      <4>2. Running(u) => call[u] # call[t]
        BY <1>5, <3>2 DEF Audit, Owner, Running
      <4>. QED  BY <2>2, <2>3, <2>4, <2>5, <3>0, <4>1, <4>2 DEF Running
    <3>. QED  BY <3>1, <3>2
  <2>. QED  BY <2>4, <2>6, <2>7, <2>8, <2>9
<1>6. ASSUME NEW t \in Threads, Return(t)
      PROVE  Written' /\ AuditedOnce'
  <2>1. /\ pc' = [pc EXCEPT ![t] = "idle"] /\ outcome' = [outcome EXCEPT ![t] = None]
        /\ answer' = [answer EXCEPT ![call[t]] = Record_(t)]
        /\ UNCHANGED <<call, context, tool, calls, log>>
    BY <1>6 DEF Return, Goto, threadVars
  <2>2. /\ call[t] \in Cids /\ call[t] \in 1..calls /\ Record_(t).cid = call[t]
        /\ \E i \in 1..Len(log) : log[i] = Record_(t)
    BY <1>6, RecordType DEF Return, Owner, Running
  <2>3. AuditedOnce'
    <3>1. \A c \in Cids : answer'[c] = IF c = call[t] THEN Record_(t) ELSE answer[c]
      BY <2>1, <2>2 DEF TypeOK
    <3>2. \A c \in Cids : answer'[c] # None =>
            answer'[c].cid = c /\ \E i \in 1..Len(log) : log[i] = answer'[c]
      BY <2>2, <3>1
    <3>. QED  BY <2>1, <3>2
  <2>4. \A c \in Cids : c > calls' => answer'[c] = None
    BY <2>1, <2>2 DEF TypeOK, Cids
  <2>5. ASSUME NEW u \in Threads
        PROVE  /\ pc'[u] \in {"limit", "validate", "body", "audit"} =>
                    \A i \in 1..Len(log) : log[i].cid # call[u]
               /\ pc'[u] \in {"record", "return"} =>
                    \E i \in 1..Len(log) : log[i] = Record_(u)'
    BY <2>1 DEF TypeOK
  <2>. QED  BY <2>1, <2>3, <2>4, <2>5
<1>7. CASE UNCHANGED vars
  BY <1>7 DEF vars, threadVars
<1>. QED  BY <1>1, <1>2, <1>3, <1>4, <1>5, <1>6, <1>7 DEF Next, Step
(* Only Execute adds a thread to those in flight, only Return removes one. *)
LEMMA GaugeStep ==
  ASSUME IInv, [Next]_vars
  PROVE  GaugeExact'
<1>. USE ToolAssumption DEF IInv, TypeOK
<1>. SUFFICES ASSUME NEW k \in Tools PROVE gauge'[k] = Cardinality(InFlight(k)')
  BY DEF GaugeExact
<1>0. gauge[k] = Cardinality(InFlight(k)) /\ IsFiniteSet(InFlight(k))
  BY FS_Subset DEF InFlight, GaugeExact
<1>1. CASE InFlight(k)' = InFlight(k) /\ gauge'[k] = gauge[k]
  BY <1>0, <1>1
<1>2. CASE Tick
  BY <1>1, <1>2 DEF Tick, threadVars, InFlight
<1>3. ASSUME NEW t \in Threads, NEW l \in Tools, NEW in \in Inputs, Invoke(t, l, in)
      PROVE  InFlight(k)' = InFlight(k) /\ gauge'[k] = gauge[k]
  <2>1. outcome[t] = None /\ pc[t] = "idle" /\ pc' = [pc EXCEPT ![t] = "limit"]
        /\ outcome' = outcome /\ gauge' = gauge /\ tool' = [tool EXCEPT ![t] = l]
    BY <1>3 DEF Invoke, Goto, Decided
  <2>2. ASSUME NEW u \in Threads
        PROVE  u \in InFlight(k)' <=> u \in InFlight(k)
    BY <2>1 DEF InFlight, Statuses
  <2>. QED  BY <2>1, <2>2 DEF InFlight
<1>4. ASSUME NEW t \in Threads, Admit(t) \/ Refuse(t) \/ Reject(t) \/ Succeed(t) \/ Raise(t)
      PROVE  InFlight(k)' = InFlight(k) /\ gauge'[k] = gauge[k]
  <2>1. /\ gauge' = gauge /\ tool' = tool
        /\ outcome[t] \notin {"ok", "error"} /\ pc[t] \in {"limit", "validate", "body"}
        /\ \A u \in Threads : u # t => pc'[u] = pc[u] /\ outcome'[u] = outcome[u]
        /\ pc[t] = "body" <=> outcome'[t] \in {"ok", "error"}
        /\ pc'[t] # "body"
    <3>1. outcome[t] \notin {"ok", "error"} /\ pc[t] \in {"limit", "validate", "body"}
          /\ outcome[t] = None
      BY <1>4 DEF Admit, Refuse, Reject, Succeed, Raise, Decided, Statuses
    <3>2. CASE Admit(t)
      BY <3>1, <3>2 DEF Admit, Goto, threadVars
    <3>3. CASE Refuse(t)
      BY <3>1, <3>3 DEF Refuse, Conclude, Goto, threadVars
    <3>4. CASE Reject(t)
      BY <3>1, <3>4 DEF Reject, Conclude, Goto, threadVars
    <3>5. CASE Succeed(t) \/ Raise(t)
      BY <3>1, <3>5 DEF Succeed, Raise, Conclude, Goto, threadVars
    <3>. QED  BY <1>4, <3>2, <3>3, <3>4, <3>5
  <2>2. ASSUME NEW u \in Threads
        PROVE  u \in InFlight(k)' <=> u \in InFlight(k)
    BY <2>1 DEF InFlight
  <2>. QED  BY <2>1, <2>2 DEF InFlight
<1>5. ASSUME NEW t \in Threads, Execute(t)
      PROVE  gauge'[k] = Cardinality(InFlight(k)')
  <2>1. /\ pc[t] = "validate" /\ pc' = [pc EXCEPT ![t] = "body"]
        /\ UNCHANGED <<tool, outcome>> /\ tool[t] \in Tools
        /\ outcome[t] = None /\ gauge' = [gauge EXCEPT ![tool[t]] = @ + 1]
    BY <1>5 DEF Execute, Goto, threadVars, Decided, Owner, Running
  <2>2. CASE tool[t] = k
    <3>1. t \notin InFlight(k)
      BY <2>1 DEF InFlight, Statuses
    <3>2. InFlight(k)' = InFlight(k) \cup {t}
      BY <2>1, <2>2 DEF InFlight
    <3>3. Cardinality(InFlight(k) \cup {t}) = Cardinality(InFlight(k)) + 1
      BY <1>0, <3>1, FS_AddElement
    <3>4. gauge'[k] = gauge[k] + 1
      BY <2>1, <2>2
    <3>. QED  BY <1>0, <3>2, <3>3, <3>4
  <2>3. CASE tool[t] # k
    <3>1. InFlight(k)' = InFlight(k)
      BY <2>1, <2>3 DEF InFlight
    <3>. QED  BY <1>0, <2>1, <2>3, <3>1
  <2>. QED  BY <2>2, <2>3
<1>6. ASSUME NEW t \in Threads, Audit(t) \/ Record(t)
      PROVE  InFlight(k)' = InFlight(k) /\ gauge'[k] = gauge[k]
  <2>1. /\ UNCHANGED <<gauge, tool, outcome>>
        /\ pc[t] # "body" /\ pc'[t] # "body" /\ \A u \in Threads : u # t => pc'[u] = pc[u]
    BY <1>6 DEF Audit, Record, Goto, threadVars
  <2>. QED  BY <2>1 DEF InFlight
<1>7. ASSUME NEW t \in Threads, Return(t)
      PROVE  gauge'[k] = Cardinality(InFlight(k)')
  <2>1. /\ pc[t] = "return" /\ pc' = [pc EXCEPT ![t] = "idle"]
        /\ outcome' = [outcome EXCEPT ![t] = None] /\ tool' = tool
        /\ tool[t] \in Tools /\ gauge' = Left(t)
    BY <1>7 DEF Return, Goto, threadVars, Owner, Running
  <2>2. CASE tool[t] = k /\ outcome[t] \in {"ok", "error"}
    <3>1. t \in InFlight(k)
      BY <2>2 DEF InFlight
    <3>2. InFlight(k)' = InFlight(k) \ {t}
      BY <2>1, <2>2 DEF InFlight, Statuses
    <3>3. gauge'[k] = gauge[k] - 1
      BY <2>1, <2>2 DEF Left
    <3>. QED  BY <1>0, <3>1, <3>2, <3>3, FS_RemoveElement
  <2>3. CASE ~(tool[t] = k /\ outcome[t] \in {"ok", "error"})
    <3>1. \A u \in Threads : u \in InFlight(k)' <=> u \in InFlight(k)
      BY <2>1, <2>3 DEF InFlight, Statuses
    <3>2. gauge'[k] = gauge[k]
      BY <2>1, <2>3 DEF Left
    <3>3. InFlight(k)' = InFlight(k)
      BY <3>1 DEF InFlight
    <3>. QED  BY <1>0, <3>2, <3>3
  <2>. QED  BY <2>2, <2>3
<1>8. CASE UNCHANGED vars
  BY <1>1, <1>8 DEF vars, threadVars, InFlight
<1>9. CASE \E t \in Threads : Step(t)
  BY <1>1, <1>4, <1>5, <1>6, <1>7, <1>9 DEF Step
<1>10. CASE \E t \in Threads, l \in Tools, in \in Inputs : Invoke(t, l, in)
  BY <1>1, <1>3, <1>10
<1>. QED  BY <1>2, <1>8, <1>9, <1>10 DEF Next

THEOREM Invariance == Spec => []IInv
<1>1. Init => IInv
  BY InitInv
<1>2. IInv /\ [Next]_vars => IInv'
  BY TypeStep, OwnerStep, WrittenStep, GaugeStep DEF IInv
<1>. QED  BY <1>1, <1>2, PTL DEF Spec

(* Everything has its type; in particular the gauge is never negative.     *)
THEOREM TypeCorrect == Spec => []TypeOK
<1>1. IInv => TypeOK
  BY DEF IInv
<1>. QED  BY <1>1, Invariance, PTL

(* Every envelope that reaches a caller carries the id of its own call and *)
(* is in the audit log, once, whatever the concurrent calls do.            *)
THEOREM OneRecordPerAnswer == Spec => []AuditedOnce
<1>1. IInv => AuditedOnce
  BY DEF IInv
<1>. QED  BY <1>1, Invariance, PTL

(* tool_calls_in_flight counts the threads between inc() and dec().        *)
THEOREM GaugeCounts == Spec => []GaugeExact
<1>1. IInv => GaugeExact
  BY DEF IInv
<1>. QED  BY <1>1, Invariance, PTL

-----------------------------------------------------------------------------
(* The records of k with status s; the threads between such a record and   *)
(* its increment; the threads whose token has paid for nothing yet.        *)
Kept(k, s) == {i \in 1..Len(log) : log[i].tool = k /\ log[i].status = s}
Between(k, s) == {t \in Threads : pc[t] = "record" /\ tool[t] = k /\ outcome[t] = s}
Unspent(k) ==
  {t \in Threads : /\ tool[t] = k
                   /\ \/ pc[t] = "validate"
                      \/ pc[t] = "audit" /\ outcome[t] = "invalid_input"}

(* A thread asks the limiter for the tool it calls, at the first step only. *)
Asking ==
  /\ granted \in [Tools -> Seq(Nat)]
  /\ request \in [Threads -> Tools \cup {None}]
  /\ \A t \in Threads : (pc[t] = "limit" => request[t] = tool[t])
                        /\ (pc[t] # "limit" => request[t] = None)

Accounts == Asking /\ MetricsMatchLog /\ TokensAccounted

LEMMA AccountSets ==
  ASSUME IInv, NEW k \in Tools, NEW s \in Statuses
  PROVE  /\ IsFiniteSet(Kept(k, s)) /\ Cardinality(Kept(k, s)) \in Nat
         /\ IsFiniteSet(Between(k, s)) /\ Cardinality(Between(k, s)) \in Nat
         /\ IsFiniteSet(Unspent(k)) /\ Cardinality(Unspent(k)) \in Nat
<1>1. Len(log) \in Nat
  BY LenProperties DEF IInv, TypeOK
<1>2. IsFiniteSet(1..Len(log)) /\ IsFiniteSet(Threads)
  BY <1>1, FS_Interval, ToolAssumption
<1>3. Kept(k, s) \in SUBSET (1..Len(log))
  BY DEF Kept
<1>4. Between(k, s) \in SUBSET Threads /\ Unspent(k) \in SUBSET Threads
  BY DEF Between, Unspent
<1>5. IsFiniteSet(Kept(k, s)) /\ IsFiniteSet(Between(k, s)) /\ IsFiniteSet(Unspent(k))
  BY <1>2, <1>3, <1>4, FS_Subset
<1>. QED  BY <1>5, FS_CardinalityType

LEMMA AccountInit == Init => Accounts
<1>. SUFFICES ASSUME Init PROVE Accounts
  OBVIOUS
<1>. USE ToolAssumption
<1>1. IInv
  BY InitInv
<1>2. Asking
  BY EmptySeq DEF Init, Limiter!Init, Asking
<1>3. ASSUME NEW k \in Tools, NEW s \in Statuses
      PROVE  Kept(k, s) = {} /\ Between(k, s) = {} /\ Unspent(k) = {}
  BY DEF Init, Kept, Between, Unspent
<1>4. MetricsMatchLog
  <2>1. \A k \in Tools, s \in Statuses : total[k][s] = 0
    BY DEF Init
  <2>2. \A k \in Tools, s \in Statuses : Cardinality(Kept(k, s)) = 0 /\ Cardinality(Between(k, s)) = 0
    BY <1>3, FS_EmptySet
  <2>. QED  BY <2>1, <2>2 DEF MetricsMatchLog, Kept, Between
<1>5. TokensAccounted
  <2>1. \A k \in Tools : Len(granted[k]) = 0 /\ ran[k] = 0
    BY DEF Init, Limiter!Init
  <2>2. "invalid_input" \in Statuses
    BY DEF Statuses
  <2>3. \A k \in Tools : Cardinality(Kept(k, "invalid_input")) = 0 /\ Cardinality(Unspent(k)) = 0
    BY <1>3, <2>2, FS_EmptySet
  <2>. QED  BY <2>1, <2>3 DEF TokensAccounted, Kept, Unspent
<1>. QED  BY <1>2, <1>4, <1>5 DEF Accounts

LEMMA AskingStep ==
  ASSUME IInv, Asking, [Next]_vars
  PROVE  Asking'
<1>. USE ToolAssumption DEF IInv, TypeOK, Asking
<1>1. CASE Tick
  BY <1>1 DEF Tick, Limiter!Tick, threadVars
<1>2. ASSUME NEW t \in Threads, NEW k \in Tools, NEW in \in Inputs, Invoke(t, k, in)
      PROVE  Asking'
  BY <1>2 DEF Invoke, Goto, Limiter!Ask
<1>3. ASSUME NEW t \in Threads, Admit(t)
      PROVE  Asking'
  <2>1. PICK at \in 0..clock : Limiter!Grant(t, at)
    BY <1>3 DEF Admit
  <2>2. tool[t] \in Tools /\ request[t] = tool[t] /\ at \in Nat
    BY <1>3 DEF Admit, Owner, Running
  <2>3. Append(granted[tool[t]], at) \in Seq(Nat)
    BY <2>2, AppendProperties
  <2>. QED  BY <1>3, <2>1, <2>2, <2>3 DEF Admit, Goto, Limiter!Grant, Limiter!Answer, threadVars
<1>4. ASSUME NEW t \in Threads, Refuse(t)
      PROVE  Asking'
  BY <1>4 DEF Refuse, Conclude, Goto, Limiter!Deny, Limiter!Answer, threadVars
<1>5. ASSUME NEW t \in Threads,
             Reject(t) \/ Execute(t) \/ Succeed(t) \/ Raise(t) \/ Audit(t) \/ Record(t) \/ Return(t)
      PROVE  Asking'
  <2>1. UNCHANGED <<granted, request, tool>>
    BY <1>5 DEF Reject, Execute, Succeed, Raise, Audit, Record, Return, limiterVars, threadVars
  <2>2. pc[t] # "limit" /\ pc'[t] # "limit" /\ \A u \in Threads : u # t => pc'[u] = pc[u]
    BY <1>5 DEF Reject, Execute, Succeed, Raise, Audit, Record, Return, Conclude, Goto
  <2>. QED  BY <2>1, <2>2
<1>6. CASE UNCHANGED vars
  BY <1>6 DEF vars, limiterVars, threadVars
<1>. QED  BY <1>1, <1>2, <1>3, <1>4, <1>5, <1>6 DEF Next, Step

(* Audit adds one record, of the tool and the status of its call.          *)
LEMMA AuditCounts ==
  ASSUME IInv, NEW t \in Threads, Audit(t), NEW k \in Tools, NEW s \in Statuses
  PROVE  /\ tool[t] = k /\ outcome[t] = s =>
              Cardinality(Kept(k, s)') = Cardinality(Kept(k, s)) + 1
         /\ ~(tool[t] = k /\ outcome[t] = s) => Kept(k, s)' = Kept(k, s)
<1>. DEFINE rec == Record_(t)
<1>1. PICK n \in Nat : n = Len(log)
  BY LenProperties DEF IInv, TypeOK
<1>2. rec \in Envelopes /\ log' = Append(log, rec)
  <2>1. pc[t] \in {"audit", "record", "return"}
    BY DEF Audit
  <2>. QED  BY <2>1, RecordType DEF Audit, IInv, Record_
<1>3. /\ Len(log') = n + 1
      /\ \A i \in 1..n : log'[i] = log[i]
      /\ log'[n + 1] = rec
  BY <1>1, <1>2, AppendProperties DEF IInv, TypeOK
<1>4. rec.tool = tool[t] /\ rec.status = outcome[t]
  BY DEF Record_
<1>5. ASSUME tool[t] = k, outcome[t] = s
      PROVE  Cardinality(Kept(k, s)') = Cardinality(Kept(k, s)) + 1
  <2>1. Kept(k, s)' = Kept(k, s) \cup {n + 1}
    BY <1>1, <1>3, <1>4, <1>5 DEF Kept
  <2>2. n + 1 \notin Kept(k, s)
    BY <1>1 DEF Kept
  <2>3. IsFiniteSet(Kept(k, s))
    BY AccountSets
  <2>4. Cardinality(Kept(k, s) \cup {n + 1}) = Cardinality(Kept(k, s)) + 1
    BY <2>2, <2>3, FS_AddElement
  <2>. QED  BY <2>1, <2>4
<1>6. ASSUME ~(tool[t] = k /\ outcome[t] = s)
      PROVE  Kept(k, s)' = Kept(k, s)
  BY <1>1, <1>3, <1>4, <1>6 DEF Kept
<1>. QED  BY <1>5, <1>6

(* What a step does to the counters, the log and the thread that moves.    *)
LEMMA MetricsStep ==
  ASSUME IInv, MetricsMatchLog, [Next]_vars
  PROVE  MetricsMatchLog'
<1>. SUFFICES ASSUME NEW k \in Tools, NEW s \in Statuses
              PROVE  total'[k][s] + Cardinality(Between(k, s)') = Cardinality(Kept(k, s)')
  BY Zenon DEF MetricsMatchLog, Between, Kept
<1>0. total[k][s] + Cardinality(Between(k, s)) = Cardinality(Kept(k, s))
  BY Zenon DEF MetricsMatchLog, Between, Kept
<1>. USE ToolAssumption DEF IInv, TypeOK
<1>a. IsFiniteSet(Between(k, s)) /\ Cardinality(Between(k, s)) \in Nat /\ Cardinality(Kept(k, s)) \in Nat
  BY AccountSets
<1>q. ASSUME Between(k, s)' = Between(k, s), log' = log, total' = total
      PROVE  total'[k][s] + Cardinality(Between(k, s)') = Cardinality(Kept(k, s)')
  BY <1>0, <1>q DEF Kept
<1>1. CASE Tick
  BY <1>1, <1>q DEF Tick, threadVars, Between
<1>2. ASSUME NEW t \in Threads, NEW l \in Tools, NEW in \in Inputs, Invoke(t, l, in)
      PROVE  total'[k][s] + Cardinality(Between(k, s)') = Cardinality(Kept(k, s)')
  <2>1. /\ pc[t] = "idle" /\ pc' = [pc EXCEPT ![t] = "limit"]
        /\ outcome' = outcome /\ tool' = [tool EXCEPT ![t] = l] /\ log' = log /\ total' = total
    BY <1>2 DEF Invoke, Goto
  <2>2. Between(k, s)' = Between(k, s)
    BY <2>1 DEF Between
  <2>. QED  BY <1>q, <2>1, <2>2
<1>3. ASSUME NEW t \in Threads,
             \/ Admit(t) \/ Refuse(t) \/ Reject(t) \/ Execute(t)
             \/ Succeed(t) \/ Raise(t) \/ Return(t)
      PROVE  total'[k][s] + Cardinality(Between(k, s)') = Cardinality(Kept(k, s)')
  <2>1. /\ tool' = tool /\ log' = log /\ total' = total
        /\ pc[t] # "record" /\ pc'[t] # "record"
        /\ \A u \in Threads : u # t => pc'[u] = pc[u] /\ outcome'[u] = outcome[u]
    <3>1. CASE Admit(t) \/ Refuse(t)
      BY <3>1 DEF Admit, Refuse, Conclude, Goto, threadVars
    <3>2. CASE Reject(t) \/ Execute(t)
      BY <3>2 DEF Reject, Execute, Conclude, Goto, threadVars
    <3>3. CASE Succeed(t) \/ Raise(t) \/ Return(t)
      BY <3>3 DEF Succeed, Raise, Return, Conclude, Goto, threadVars
    <3>. QED  BY <1>3, <3>1, <3>2, <3>3
  <2>2. Between(k, s)' = Between(k, s)
    BY <2>1 DEF Between
  <2>. QED  BY <1>q, <2>1, <2>2
<1>4. ASSUME NEW t \in Threads, Audit(t)
      PROVE  total'[k][s] + Cardinality(Between(k, s)') = Cardinality(Kept(k, s)')
  <2>1. /\ pc[t] = "audit" /\ pc' = [pc EXCEPT ![t] = "record"]
        /\ UNCHANGED <<tool, outcome, total>>
    BY <1>4 DEF Audit, Goto, threadVars
  <2>2. CASE tool[t] = k /\ outcome[t] = s
    <3>1. Between(k, s)' = Between(k, s) \cup {t} /\ t \notin Between(k, s)
      BY <2>1, <2>2 DEF Between
    <3>2. Cardinality(Between(k, s)') = Cardinality(Between(k, s)) + 1
      BY <1>a, <3>1, FS_AddElement
    <3>3. Cardinality(Kept(k, s)') = Cardinality(Kept(k, s)) + 1
      BY <1>4, <2>2, AuditCounts
    <3>. QED  BY <1>0, <1>a, <2>1, <3>2, <3>3
  <2>3. CASE ~(tool[t] = k /\ outcome[t] = s)
    <3>1. Between(k, s)' = Between(k, s)
      BY <2>1, <2>3 DEF Between
    <3>2. Kept(k, s)' = Kept(k, s)
      BY <1>4, <2>3, AuditCounts
    <3>. QED  BY <1>0, <2>1, <3>1, <3>2
  <2>. QED  BY <2>2, <2>3
<1>5. ASSUME NEW t \in Threads, Record(t)
      PROVE  total'[k][s] + Cardinality(Between(k, s)') = Cardinality(Kept(k, s)')
  <2>1. /\ pc[t] = "record" /\ pc' = [pc EXCEPT ![t] = "return"]
        /\ UNCHANGED <<tool, outcome, log>> /\ total' = Counted(t)
        /\ tool[t] \in Tools /\ outcome[t] \in Statuses
    BY <1>5 DEF Record, Goto, threadVars, Owner, Running, Decided
  <2>2. Kept(k, s)' = Kept(k, s)
    BY <2>1 DEF Kept
  <2>3. CASE tool[t] = k /\ outcome[t] = s
    <3>1. Between(k, s)' = Between(k, s) \ {t} /\ t \in Between(k, s)
      BY <2>1, <2>3 DEF Between
    <3>2. Cardinality(Between(k, s)') = Cardinality(Between(k, s)) - 1
      BY <1>a, <3>1, FS_RemoveElement
    <3>3. total'[k][s] = total[k][s] + 1
      BY <2>1, <2>3 DEF Counted
    <3>. QED  BY <1>0, <1>a, <2>2, <3>2, <3>3
  <2>4. CASE ~(tool[t] = k /\ outcome[t] = s)
    <3>1. Between(k, s)' = Between(k, s)
      BY <2>1, <2>4 DEF Between
    <3>2. total'[k][s] = total[k][s]
      BY <2>1, <2>4 DEF Counted
    <3>. QED  BY <1>0, <2>2, <3>1, <3>2
  <2>. QED  BY <2>3, <2>4
<1>6. CASE UNCHANGED vars
  BY <1>6, <1>q DEF vars, threadVars, Between
<1>. QED  BY <1>1, <1>2, <1>3, <1>4, <1>5, <1>6 DEF Next, Step

(* Admit takes a token; Execute and the record of a rejected input spend it. *)
LEMMA TokensStep ==
  ASSUME IInv, Asking, TokensAccounted, [Next]_vars
  PROVE  TokensAccounted'
<1>. USE ToolAssumption DEF IInv, TypeOK
<1>. DEFINE bad == "invalid_input"
<1>. SUFFICES ASSUME NEW k \in Tools
              PROVE  Len(granted'[k])
                       = ran'[k] + Cardinality(Kept(k, bad)') + Cardinality(Unspent(k)')
  BY DEF TokensAccounted, Kept, Unspent
<1>0. Len(granted[k]) = ran[k] + Cardinality(Kept(k, bad)) + Cardinality(Unspent(k))
  BY DEF TokensAccounted, Kept, Unspent
<1>s. bad \in Statuses
  BY DEF Statuses
<1>a. /\ IsFiniteSet(Unspent(k)) /\ Cardinality(Unspent(k)) \in Nat
      /\ Cardinality(Kept(k, bad)) \in Nat /\ ran[k] \in Nat
  BY <1>s, AccountSets
<1>q. ASSUME Unspent(k)' = Unspent(k), log' = log, granted' = granted, ran' = ran
      PROVE  Len(granted'[k]) = ran'[k] + Cardinality(Kept(k, bad)') + Cardinality(Unspent(k)')
  BY <1>0, <1>q DEF Kept
<1>1. CASE Tick
  BY <1>1, <1>q DEF Tick, Limiter!Tick, threadVars, Unspent
<1>2. ASSUME NEW t \in Threads, NEW l \in Tools, NEW in \in Inputs, Invoke(t, l, in)
      PROVE  Len(granted'[k]) = ran'[k] + Cardinality(Kept(k, bad)') + Cardinality(Unspent(k)')
  <2>1. /\ pc[t] = "idle" /\ pc' = [pc EXCEPT ![t] = "limit"] /\ tool' = [tool EXCEPT ![t] = l]
        /\ UNCHANGED <<outcome, log, granted, ran>>
    BY <1>2 DEF Invoke, Goto, Limiter!Ask
  <2>2. Unspent(k)' = Unspent(k)
    BY <2>1 DEF Unspent
  <2>. QED  BY <1>q, <2>1, <2>2
<1>3. ASSUME NEW t \in Threads, Admit(t)
      PROVE  Len(granted'[k]) = ran'[k] + Cardinality(Kept(k, bad)') + Cardinality(Unspent(k)')
  <2>1. PICK at \in 0..clock : Limiter!Grant(t, at)
    BY <1>3 DEF Admit
  <2>2. /\ pc[t] = "limit" /\ pc' = [pc EXCEPT ![t] = "validate"] /\ at \in Nat
        /\ UNCHANGED <<tool, outcome, log, ran>>
        /\ tool[t] \in Tools /\ granted' = [granted EXCEPT ![tool[t]] = Append(@, at)]
    <3>1. /\ pc[t] = "limit" /\ pc' = [pc EXCEPT ![t] = "validate"] /\ at \in Nat
          /\ UNCHANGED <<tool, outcome, log, ran>>
      BY <1>3 DEF Admit, Goto, threadVars
    <3>2. tool[t] \in Tools /\ request[t] = tool[t]
      BY <3>1 DEF Asking, Owner, Running
    <3>. QED  BY <2>1, <3>1, <3>2 DEF Limiter!Grant
  <2>3. Kept(k, bad)' = Kept(k, bad)
    BY <2>2 DEF Kept
  <2>4. CASE tool[t] = k
    <3>1. Unspent(k)' = Unspent(k) \cup {t} /\ t \notin Unspent(k)
      BY <2>2, <2>4 DEF Unspent
    <3>2. Cardinality(Unspent(k)') = Cardinality(Unspent(k)) + 1
      BY <1>a, <3>1, FS_AddElement
    <3>3. Len(granted'[k]) = Len(granted[k]) + 1
      <4>1. granted[k] \in Seq(Nat) /\ granted'[k] = Append(granted[k], at)
        BY <2>2, <2>4 DEF Asking
      <4>. QED  BY <2>2, <4>1, AppendProperties
    <3>. QED  BY <1>0, <1>a, <2>2, <2>3, <3>2, <3>3
  <2>5. CASE tool[t] # k
    <3>1. Unspent(k)' = Unspent(k)
      BY <2>2, <2>5 DEF Unspent
    <3>2. granted'[k] = granted[k]
      BY <2>2, <2>5 DEF Asking
    <3>. QED  BY <1>0, <2>2, <2>3, <3>1, <3>2
  <2>. QED  BY <2>4, <2>5
<1>4. ASSUME NEW t \in Threads,
             Refuse(t) \/ Reject(t) \/ Succeed(t) \/ Raise(t) \/ Record(t) \/ Return(t)
      PROVE  Len(granted'[k]) = ran'[k] + Cardinality(Kept(k, bad)') + Cardinality(Unspent(k)')
  <2>1. /\ UNCHANGED <<tool, log, granted, ran>>
        /\ \A u \in Threads : u # t => pc'[u] = pc[u] /\ outcome'[u] = outcome[u]
        /\ (pc[t] = "validate" \/ (pc[t] = "audit" /\ outcome[t] = bad))
              <=> (pc'[t] = "validate" \/ (pc'[t] = "audit" /\ outcome'[t] = bad))
    <3>1. CASE Refuse(t)
      BY <3>1 DEF Refuse, Conclude, Goto, Limiter!Deny, threadVars
    <3>2. CASE Reject(t) \/ Succeed(t) \/ Raise(t)
      BY <3>2 DEF Reject, Succeed, Raise, Conclude, Goto, limiterVars, threadVars
    <3>3. CASE Record(t) \/ Return(t)
      BY <3>3 DEF Record, Return, Goto, limiterVars, threadVars
    <3>. QED  BY <1>4, <3>1, <3>2, <3>3
  <2>2. Unspent(k)' = Unspent(k)
    BY <2>1 DEF Unspent
  <2>. QED  BY <1>q, <2>1, <2>2
<1>5. ASSUME NEW t \in Threads, Execute(t)
      PROVE  Len(granted'[k]) = ran'[k] + Cardinality(Kept(k, bad)') + Cardinality(Unspent(k)')
  <2>1. /\ pc[t] = "validate" /\ pc' = [pc EXCEPT ![t] = "body"]
        /\ UNCHANGED <<tool, outcome, log, granted>>
        /\ tool[t] \in Tools /\ ran' = [ran EXCEPT ![tool[t]] = @ + 1]
    BY <1>5 DEF Execute, Goto, limiterVars, threadVars, Owner, Running
  <2>2. Kept(k, bad)' = Kept(k, bad)
    BY <2>1 DEF Kept
  <2>3. CASE tool[t] = k
    <3>1. Unspent(k)' = Unspent(k) \ {t} /\ t \in Unspent(k)
      BY <2>1, <2>3 DEF Unspent
    <3>2. Cardinality(Unspent(k)') = Cardinality(Unspent(k)) - 1
      BY <1>a, <3>1, FS_RemoveElement
    <3>3. ran'[k] = ran[k] + 1
      BY <2>1, <2>3
    <3>. QED  BY <1>0, <1>a, <2>1, <2>2, <3>2, <3>3
  <2>4. CASE tool[t] # k
    <3>1. Unspent(k)' = Unspent(k)
      BY <2>1, <2>4 DEF Unspent
    <3>. QED  BY <1>0, <2>1, <2>2, <2>4, <3>1
  <2>. QED  BY <2>3, <2>4
<1>6. ASSUME NEW t \in Threads, Audit(t)
      PROVE  Len(granted'[k]) = ran'[k] + Cardinality(Kept(k, bad)') + Cardinality(Unspent(k)')
  <2>1. /\ pc[t] = "audit" /\ pc' = [pc EXCEPT ![t] = "record"]
        /\ UNCHANGED <<tool, outcome, granted, ran>>
    BY <1>6 DEF Audit, Goto, limiterVars, threadVars
  <2>2. CASE tool[t] = k /\ outcome[t] = bad
    <3>1. Unspent(k)' = Unspent(k) \ {t} /\ t \in Unspent(k)
      BY <2>1, <2>2 DEF Unspent
    <3>2. Cardinality(Unspent(k)') = Cardinality(Unspent(k)) - 1
      BY <1>a, <3>1, FS_RemoveElement
    <3>3. Cardinality(Kept(k, bad)') = Cardinality(Kept(k, bad)) + 1
      BY <1>6, <1>s, <2>2, AuditCounts
    <3>. QED  BY <1>0, <1>a, <2>1, <3>2, <3>3
  <2>3. CASE ~(tool[t] = k /\ outcome[t] = bad)
    <3>1. Unspent(k)' = Unspent(k)
      BY <2>1, <2>3 DEF Unspent
    <3>2. Kept(k, bad)' = Kept(k, bad)
      BY <1>6, <1>s, <2>3, AuditCounts
    <3>. QED  BY <1>0, <2>1, <3>1, <3>2
  <2>. QED  BY <2>2, <2>3
<1>7. CASE UNCHANGED vars
  BY <1>7, <1>q DEF vars, limiterVars, threadVars, Unspent
<1>. QED  BY <1>1, <1>2, <1>3, <1>4, <1>5, <1>6, <1>7 DEF Next, Step

THEOREM AccountInvariance == Spec => []Accounts
<1>1. Init => Accounts
  BY AccountInit
<1>2. IInv /\ Accounts /\ [Next]_vars => Accounts'
  BY AskingStep, MetricsStep, TokensStep DEF Accounts
<1>. QED  BY <1>1, <1>2, Invariance, PTL DEF Spec

(* The counters and the log differ by the threads between the two only.    *)
THEOREM CountersMatchLog == Spec => []MetricsMatchLog
<1>1. Accounts => MetricsMatchLog
  BY DEF Accounts
<1>. QED  BY <1>1, AccountInvariance, PTL

(* Every token given out was spent on one body or on one rejected input,   *)
(* or is in the hands of a thread that is about to spend it.               *)
THEOREM TokensAreSpent == Spec => []TokensAccounted
<1>1. Accounts => TokensAccounted
  BY DEF Accounts
<1>. QED  BY <1>1, AccountInvariance, PTL

=============================================================================
