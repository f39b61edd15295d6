------------------------ MODULE GuardedSessionProofs ------------------------
(***************************************************************************)
(* Proofs about the guarded session, for any number of threads and slots:  *)
(* type correctness, every tool statement guarded, nothing committed, no   *)
(* session left behind.                                                    *)
(*                                                                         *)
(* The argument is what the position of a thread says of its session       *)
(* (SessionInv).  The step that matters is the commit: it ends the         *)
(* transaction the SETs ran in, so the body begins a new one, which is     *)
(* read-only, and its settings can no longer be undone.                    *)
(***************************************************************************)
EXTENDS GuardedSession, SequenceTheorems, TLAPS

(* No transaction, and no setting that differs from the server's default. *)
Clean(t) ==
  /\ running[t] = None /\ tx[t] = "none" /\ t \notin touched
  /\ saved[t] = {} /\ setting[t] = {}

SessionInv(t) ==
  /\ pc[t] \in {"idle", "connect"} => t \notin sessions /\ Clean(t)
  /\ pc[t] \in {"set_timeout", "set_readonly", "commit"} => t \in sessions /\ t \notin touched
  /\ pc[t] = "set_timeout" =>
       /\ running[t] \in {"timeout", None}
       /\ running[t] # None => tx[t] = "open"
  /\ pc[t] = "set_readonly" =>
       /\ running[t] \in {"readonly", None}
       /\ tx[t] = "open" /\ "timeout" \in setting[t]
  /\ pc[t] = "commit" => setting[t] = Guards /\ tx[t] = "open" /\ running[t] = None
  /\ pc[t] = "body" =>
       /\ t \in sessions /\ setting[t] = Guards /\ saved[t] = Guards
       /\ tx[t] # "failed"
       /\ tx[t] = "open" => t \in readonly
       /\ running[t] \in Statements => tx[t] = "open" /\ body[t] # << >>
       /\ running[t] \in Statements \cup {None}
  /\ pc[t] \in {"rollback", "close"} => running[t] = None

IInv == TypeOK /\ NothingKept /\ \A t \in Threads : SessionInv(t)

LEMMA InitInv == Init => IInv
<1>. SUFFICES ASSUME Init PROVE IInv
  OBVIOUS
<1>1. TypeOK
  <2>1. body \in [Threads -> Seq(Statements)]
    BY EmptySeq DEF Init
  <2>. QED  BY <2>1 DEF Init, TypeOK, Labels, Guards
<1>2. NothingKept /\ \A t \in Threads : SessionInv(t)
  BY DEF Init, NothingKept, SessionInv, Clean
<1>. QED  BY <1>1, <1>2 DEF IInv

LEMMA InvImplies == IInv => EveryStatementGuarded /\ NoSessionLeak
<1>. SUFFICES ASSUME IInv PROVE EveryStatementGuarded /\ NoSessionLeak
  OBVIOUS
<1>1. ASSUME NEW t \in Threads, running[t] \in Statements
      PROVE  t \in readonly /\ "timeout" \in setting[t]
  <2>1. pc[t] = "body"
    BY <1>1, SessionAssumption DEF IInv, TypeOK, SessionInv, Clean, Guards, Statements, Labels
  <2>. QED  BY <1>1, <2>1 DEF IInv, SessionInv, Guards
<1>2. NoSessionLeak
  BY DEF IInv, SessionInv, NoSessionLeak
<1>. QED  BY <1>1, <1>2 DEF EveryStatementGuarded

(* What a step of thread t leaves alone: the session of any other thread.  *)
Others(t) ==
  \A u \in Threads : u # t =>
    /\ pc'[u] = pc[u] /\ body'[u] = body[u] /\ (u \in sessions' <=> u \in sessions) /\ tx'[u] = tx[u]
    /\ (u \in readonly' <=> u \in readonly) /\ saved'[u] = saved[u] /\ setting'[u] = setting[u]
    /\ running'[u] = running[u] /\ (u \in touched' <=> u \in touched)

LEMMA OneThread ==
  ASSUME IInv, NEW t \in Threads, Others(t), SessionInv(t)'
  PROVE  \A u \in Threads : SessionInv(u)'
<1>. SUFFICES ASSUME NEW u \in Threads, u # t PROVE SessionInv(u)'
  OBVIOUS
<1>. QED  BY DEF Others, IInv, SessionInv, Clean

LEMMA Stepwise ==
  ASSUME IInv, NEW t \in Threads,
         \/ \E b \in Bodies : Call(t, b)
         \/ Step(t) \/ Finish(t) \/ Fail(t) \/ Lose(t)
  PROVE  IInv'
<1>. USE SessionAssumption DEF IInv, TypeOK, Labels
<1>1. ASSUME NEW b \in Bodies, Call(t, b)
      PROVE  IInv'
  <2>1. b \in Seq(Statements)
    <3>1. SimpleBody \in Seq(Statements)
      BY DEF SimpleBody, Statements
    <3>2. SlowQueriesBody \in Seq(Statements)
      BY DEF SlowQueriesBody, Statements
    <3>3. ExplainBody \in Seq(Statements)
      BY DEF ExplainBody, Statements
    <3>. QED  BY <3>1, <3>2, <3>3 DEF Bodies
  <2>2. TypeOK' /\ NothingKept'
    BY <1>1, <2>1 DEF Call, Goto, serverVars, NothingKept, Statements
  <2>3. SessionInv(t)' /\ Others(t)
    BY <1>1 DEF Call, Goto, serverVars, SessionInv, Clean, Others
  <2>. QED  BY <2>2, <2>3, OneThread
<1>2. ASSUME Connect(t)
      PROVE  IInv'
  <2>1. TypeOK' /\ NothingKept'
    BY <1>2 DEF Connect, Goto, NothingKept
  <2>2. SessionInv(t)' /\ Others(t)
    BY <1>2 DEF Connect, Goto, SessionInv, Clean, Others
  <2>. QED  BY <2>1, <2>2, OneThread
<1>3. ASSUME ConnectFails(t)
      PROVE  IInv'
  <2>1. TypeOK' /\ NothingKept'
    BY <1>3 DEF ConnectFails, Goto, serverVars, NothingKept
  <2>2. SessionInv(t)' /\ Others(t)
    BY <1>3 DEF ConnectFails, Goto, serverVars, SessionInv, Clean, Others
  <2>. QED  BY <2>1, <2>2, OneThread
<1>4. ASSUME NEW s \in Guards \cup Statements, Issue(t, s)
      PROVE  IInv'
  <2>1. TypeOK' /\ NothingKept'
    BY <1>4 DEF Issue, NothingKept
  <2>2. /\ running'[t] = s /\ tx'[t] = "open"
        /\ t \in touched' <=> t \in touched \/ s \in Statements
        /\ t \in readonly' <=> t \in readonly \/ (tx[t] = "none" /\ "readonly" \in setting[t])
        /\ UNCHANGED <<pc, body, sessions, saved, setting>>
    BY <1>4 DEF Issue
  <2>3. ASSUME pc[t] = "set_timeout" /\ s = "timeout" PROVE SessionInv(t)'
    BY <2>2, <2>3 DEF SessionInv, Guards, Statements
  <2>4. ASSUME pc[t] = "set_readonly" /\ s = "readonly" PROVE SessionInv(t)'
    BY <2>2, <2>4 DEF SessionInv, Guards, Statements
  <2>5. ASSUME pc[t] = "body" /\ body[t] # << >> /\ s = Head(body[t]) PROVE SessionInv(t)'
    <3>1. s \in Statements
      BY <2>5 DEF Statements
    <3>. QED  BY <2>2, <2>5, <3>1 DEF SessionInv, Guards
  <2>6. Others(t)
    BY <1>4 DEF Issue, Others
  <2>7. SessionInv(t)'
    BY <1>4, <2>3, <2>4, <2>5 DEF Issue, Sends
  <2>. QED  BY <2>1, <2>6, <2>7, OneThread
<1>5. ASSUME Finish(t)
      PROVE  IInv'
  <2>1. running[t] \in Guards \cup Statements
    BY <1>5 DEF Finish
  <2>2. pc[t] \in {"set_timeout", "set_readonly", "body"}
    BY <1>5 DEF Finish, SessionInv, Clean
  <2>3. PICK label \in Labels : Continues(t, label) /\ pc' = [pc EXCEPT ![t] = label]
    BY <1>5 DEF Finish, Goto
  <2>4. /\ pc[t] = "set_timeout" => running[t] = "timeout" /\ label = "set_readonly"
        /\ pc[t] = "set_readonly" => running[t] = "readonly" /\ label = "commit"
        /\ pc[t] = "body" => running[t] \in Statements /\ label \in {"body", "rollback", "close"}
    BY <2>1, <2>3, <1>5 DEF Continues, AfterSets, SessionInv, Finish, Guards, Statements
  <2>5. body' \in [Threads -> Seq(Statements)]
    BY <1>5, <2>2, <2>4 DEF Finish, SessionInv
  <2>6. TypeOK' /\ NothingKept'
    BY <1>5, <2>3, <2>5 DEF Finish, NothingKept, Guards
  <2>7. /\ setting'[t] = setting[t] \cup ({running[t]} \cap Guards) /\ running'[t] = None
        /\ pc'[t] = label /\ UNCHANGED <<sessions, tx, readonly, saved, touched>>
    BY <1>5, <2>3 DEF Finish
  <2>8. ASSUME pc[t] = "set_timeout" PROVE SessionInv(t)'
    BY <2>4, <2>7, <2>8 DEF SessionInv, Guards
  <2>9. ASSUME pc[t] = "set_readonly" PROVE SessionInv(t)'
    <3>1. "timeout" \in setting[t] /\ tx[t] = "open" /\ t \in sessions /\ t \notin touched
      BY <2>9 DEF SessionInv
    <3>2. setting[t] \subseteq Guards /\ running[t] = "readonly"
      BY <2>4, <2>9
    <3>3. setting'[t] = Guards
      BY <2>7, <3>1, <3>2 DEF Guards
    <3>. QED  BY <2>4, <2>7, <2>9, <3>1, <3>3 DEF SessionInv
  <2>10. ASSUME pc[t] = "body" PROVE SessionInv(t)'
    <3>1. setting'[t] = Guards
      BY <2>7, <2>10 DEF SessionInv, Guards
    <3>. QED  BY <2>4, <2>7, <2>10, <3>1 DEF SessionInv
  <2>11. Others(t)
    BY <1>5, <2>3 DEF Finish, Others
  <2>. QED  BY <2>2, <2>6, <2>8, <2>9, <2>10, <2>11, OneThread
<1>6. ASSUME Fail(t)
      PROVE  IInv'
  <2>1. Handler(t) \in {"rollback", "close"}
    BY DEF Handler
  <2>2. TypeOK' /\ NothingKept'
    BY <1>6, <2>1 DEF Fail, Goto, NothingKept
  <2>3. SessionInv(t)' /\ Others(t)
    BY <1>6, <2>1 DEF Fail, Goto, SessionInv, Others
  <2>. QED  BY <2>2, <2>3, OneThread
<1>7. ASSUME Lose(t)
      PROVE  IInv'
  <2>1. Handler(t) \in {"rollback", "close"}
    BY DEF Handler
  <2>2. TypeOK' /\ NothingKept'
    BY <1>7, <2>1 DEF Lose, EndTx, Goto, NothingKept
  <2>3. SessionInv(t)' /\ Others(t)
    BY <1>7, <2>1 DEF Lose, EndTx, Goto, SessionInv, Others
  <2>. QED  BY <2>2, <2>3, OneThread
<1>8. ASSUME Commit(t)
      PROVE  IInv'
  <2>1. TypeOK' /\ NothingKept'
    BY <1>8 DEF Commit, EndTx, Goto, NothingKept, SessionInv
  <2>2. SessionInv(t)' /\ Others(t)
    BY <1>8 DEF Commit, EndTx, Goto, SessionInv, Others
  <2>. QED  BY <2>1, <2>2, OneThread
<1>9. ASSUME Rollback(t)
      PROVE  IInv'
  <2>1. TypeOK' /\ NothingKept'
    BY <1>9 DEF Rollback, EndTx, Goto, NothingKept
  <2>2. SessionInv(t)' /\ Others(t)
    BY <1>9 DEF Rollback, EndTx, Goto, SessionInv, Others
  <2>. QED  BY <2>1, <2>2, OneThread
<1>10. ASSUME Close(t)
      PROVE  IInv'
  <2>1. TypeOK' /\ NothingKept'
    BY <1>10, EmptySeq DEF Close, Goto, NothingKept, CloseKeeps
  <2>2. SessionInv(t)' /\ Others(t)
    BY <1>10 DEF Close, Goto, SessionInv, Clean, Others
  <2>. QED  BY <2>1, <2>2, OneThread
<1>. QED  BY <1>1, <1>2, <1>3, <1>4, <1>5, <1>6, <1>7, <1>8, <1>9, <1>10 DEF Step
THEOREM Invariance == Spec => []IInv
<1>1. Init => IInv
  BY InitInv
<1>2. IInv /\ [Next]_vars => IInv'
  <2>. SUFFICES ASSUME IInv, [Next]_vars PROVE IInv'
    OBVIOUS
  <2>1. CASE Next
    BY <2>1, Stepwise DEF Next
  <2>2. CASE UNCHANGED vars
    BY <2>2 DEF vars, IInv, TypeOK, NothingKept, SessionInv, Clean
  <2>. QED  BY <2>1, <2>2
<1>. QED  BY <1>1, <1>2, PTL DEF Spec

(* Everything has its type. *)
THEOREM TypeCorrect == Spec => []TypeOK
<1>1. IInv => TypeOK
  BY DEF IInv
<1>. QED  BY <1>1, Invariance, PTL

(* No statement of a tool is executed outside a read-only transaction or   *)
(* without the timeout, on any path of any of the concurrent calls.        *)
THEOREM StatementsGuarded == Spec => []EveryStatementGuarded
<1>1. IInv => EveryStatementGuarded
  BY InvImplies
<1>. QED  BY <1>1, Invariance, PTL

(* What a tool's statements did is never committed.                        *)
THEOREM NothingCommitted == Spec => []NothingKept
<1>1. IInv => NothingKept
  BY DEF IInv
<1>. QED  BY <1>1, Invariance, PTL

(* A thread that is not in a call holds no session.                        *)
THEOREM SessionsClosed == Spec => []NoSessionLeak
<1>1. IInv => NoSessionLeak
  BY InvImplies
<1>. QED  BY <1>1, Invariance, PTL

=============================================================================
