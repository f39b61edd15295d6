--------------------------- MODULE GuardedSession ---------------------------
(***************************************************************************)
(* The guarded database session of mcp_server/db.py, and the tool bodies   *)
(* that run in one (mcp_server/tools/*.py).  Each call of a tool opens a   *)
(* session, sets statement_timeout and default_transaction_read_only,      *)
(* commits, runs its statements and closes the session on every path.      *)
(*                                                                         *)
(* PostgreSQL is external.  What matters of it here: without autocommit a  *)
(* session begins a transaction with its first statement; SET is undone    *)
(* when its transaction does not commit; a transaction is read-only if the *)
(* default was so when it BEGAN; a statement is cancelled after            *)
(* statement_timeout if that is set; there are MaxSessions slots, and the  *)
(* slot of a closed session is free at once.                               *)
(***************************************************************************)
EXTENDS Naturals, Sequences, FiniteSets

CONSTANTS
  Threads,      \* threads that call tools
  None,
  MaxSessions   \* max_connections of the server

Guards == {"timeout", "readonly"}
Statements == {"query", "probe", "lookup", "explain"}

ASSUME SessionAssumption ==
  /\ MaxSessions \in Nat \ {0}
  /\ None \notin Guards \cup Statements

(* The statements of a body.  After "probe" (is the extension there?) and  *)
(* "lookup" (is the queryid known?) a body may return early.               *)
SimpleBody == <<"query">>
SlowQueriesBody == <<"query", "probe", "query">>
ExplainBody == <<"probe", "lookup", "explain">>
Bodies == {SimpleBody, SlowQueriesBody, ExplainBody}

VARIABLES
  pc,       \* where each thread is: in connect(), in the body, or idle
  body,     \* the statements its tool has yet to run
  sessions, \* the threads for which the server has a backend process
  tx,       \* the state of the thread's transaction
  readonly, \* the threads whose transaction is read-only
  saved,    \* the settings that hold if the transaction is undone
  setting,  \* the settings in force
  running,  \* the statement the server is executing for the thread, or None
  touched,  \* the threads with a tool statement in their transaction
  kept      \* history: the threads that committed such a transaction

vars == <<pc, body, sessions, tx, readonly, saved, setting, running, touched, kept>>
serverVars == <<sessions, tx, readonly, saved, setting, running, touched, kept>>

Init ==
  /\ pc = [t \in Threads |-> "idle"]
  /\ body = [t \in Threads |-> << >>]
  /\ sessions = {}
  /\ tx = [t \in Threads |-> "none"]
  /\ readonly = {}
  /\ saved = [t \in Threads |-> {}]
  /\ setting = [t \in Threads |-> {}]
  /\ running = [t \in Threads |-> None]
  /\ touched = {}
  /\ kept = {}

Labels == {"idle", "connect", "set_timeout", "set_readonly", "commit", "body", "rollback", "close"}

Goto(t, label) == pc' = [pc EXCEPT ![t] = label]

Call(t, b) ==
  /\ pc[t] = "idle"
  /\ body' = [body EXCEPT ![t] = b]
  /\ Goto(t, "connect")
  /\ UNCHANGED serverVars

Connect(t) ==
  /\ pc[t] = "connect"
  /\ Cardinality(sessions) < MaxSessions
  /\ sessions' = sessions \cup {t}
  /\ Goto(t, "set_timeout")
  /\ UNCHANGED <<body, tx, readonly, saved, setting, running, touched, kept>>

(* psycopg.connect raises before the try: there is nothing to close.       *)
ConnectFails(t) ==
  /\ pc[t] = "connect"
  /\ Goto(t, "idle")
  /\ UNCHANGED <<body, serverVars>>

\* Mutant: statement_timeout is never set.
SendsUntimed(t, s) ==
  \/ pc[t] \in {"set_timeout", "set_readonly"} /\ s = "readonly"
  \/ pc[t] = "body" /\ body[t] # << >> /\ s = Head(body[t])

(* s is the statement the thread sends next.                               *)
Sends(t, s) ==
  \/ pc[t] = "set_timeout" /\ s = "timeout"
  \/ pc[t] = "set_readonly" /\ s = "readonly"
  \/ pc[t] = "body" /\ body[t] # << >> /\ s = Head(body[t])

Issue(t, s) ==
  /\ running[t] = None
  /\ Sends(t, s)
  /\ running' = [running EXCEPT ![t] = s]
  /\ tx' = [tx EXCEPT ![t] = "open"]
  /\ readonly' = IF tx[t] = "none" /\ "readonly" \in setting[t] THEN readonly \cup {t} ELSE readonly
  /\ touched' = IF s \in Statements THEN touched \cup {t} ELSE touched
  /\ UNCHANGED <<pc, body, sessions, saved, setting, kept>>

\* Mutant: the transaction of the two SETs is not committed.
AfterSetsOpen == "body"

AfterSets == "commit"

(* Where a thread may go when the statement it ran has succeeded.          *)
Continues(t, label) ==
  \/ running[t] = "timeout" /\ label = "set_readonly"
  \/ running[t] = "readonly" /\ label = AfterSets
  \/ running[t] = "query" /\ label = IF Len(body[t]) > 1 THEN "body" ELSE "close"
  \/ running[t] \in {"probe", "lookup"} /\ label \in {"body", "close"}
  \/ running[t] = "explain" /\ label = "rollback"

Finish(t) ==
  /\ running[t] # None
  /\ setting' = [setting EXCEPT ![t] = @ \cup ({running[t]} \cap Guards)]
  /\ body' = [body EXCEPT ![t] = IF pc[t] = "body" THEN Tail(@) ELSE @]
  /\ \E label \in Labels : Continues(t, label) /\ Goto(t, label)
  /\ running' = [running EXCEPT ![t] = None]
  /\ UNCHANGED <<sessions, tx, readonly, saved, touched, kept>>

\* Mutant: no finally clause, the exception leaves connect() at once.
HandlerNone(t) == IF running[t] = "explain" THEN "rollback" ELSE "escaped"

\* Mutant: the SETs come before the try, so a failing one closes nothing.
HandlerLate(t) ==
  IF running[t] = "explain" THEN "rollback"
  ELSE IF running[t] \in Guards THEN "idle" ELSE "close"

(* The exception of a failing statement runs the finally clauses around it.*)
Handler(t) == IF running[t] = "explain" THEN "rollback" ELSE "close"

(* An error of the statement, or its cancellation: the transaction fails.  *)
Fail(t) ==
  /\ running[t] # None
  /\ tx' = [tx EXCEPT ![t] = "failed"]
  /\ running' = [running EXCEPT ![t] = None]
  /\ Goto(t, Handler(t))
  /\ UNCHANGED <<body, sessions, readonly, saved, setting, touched, kept>>

TimedOut(t) == running[t] # None /\ "timeout" \in setting[t] /\ Fail(t)

(* A transaction ends; undone, it takes its SETs with it.                  *)
EndTx(t, commit) ==
  /\ tx' = [tx EXCEPT ![t] = "none"]
  /\ readonly' = readonly \ {t}
  /\ touched' = touched \ {t}
  /\ kept' = IF commit /\ tx[t] = "open" THEN kept \cup (touched \cap {t}) ELSE kept
  /\ IF commit /\ tx[t] = "open"
     THEN saved' = [saved EXCEPT ![t] = setting[t]] /\ UNCHANGED setting
     ELSE setting' = [setting EXCEPT ![t] = saved[t]] /\ UNCHANGED saved

(* The backend is gone: the server went down, or an administrator          *)
(* terminated the session; the thread notices at its next round trip.      *)
Lose(t) ==
  /\ t \in sessions
  /\ sessions' = sessions \ {t}
  /\ running' = [running EXCEPT ![t] = None]
  /\ Goto(t, IF running[t] = None THEN "close" ELSE Handler(t))
  /\ EndTx(t, FALSE)
  /\ UNCHANGED body

Commit(t) ==
  /\ pc[t] = "commit"
  /\ t \in sessions
  /\ Goto(t, "body")
  /\ EndTx(t, TRUE)
  /\ UNCHANGED <<body, sessions, running>>

(* The rollback around EXPLAIN; on a lost session it raises, and the       *)
(* session is closed just the same.                                        *)
Rollback(t) ==
  /\ pc[t] = "rollback"
  /\ Goto(t, "close")
  /\ EndTx(t, FALSE)
  /\ UNCHANGED <<body, sessions, running>>

\* Mutant: leaving the block commits, as psycopg's own `with connection' does.
CloseCommits == TRUE

(* conn.close() leaves the open transaction to be rolled back.             *)
CloseKeeps == FALSE

Close(t) ==
  /\ pc[t] = "close"
  /\ sessions' = sessions \ {t}
  /\ tx' = [tx EXCEPT ![t] = "none"]
  /\ readonly' = readonly \ {t}
  /\ touched' = touched \ {t}
  /\ kept' = IF CloseKeeps /\ tx[t] = "open" THEN kept \cup (touched \cap {t}) ELSE kept
  /\ saved' = [saved EXCEPT ![t] = {}]
  /\ setting' = [setting EXCEPT ![t] = {}]
  /\ body' = [body EXCEPT ![t] = << >>]
  /\ Goto(t, "idle")
  /\ UNCHANGED running

Step(t) ==
  \/ Connect(t) \/ ConnectFails(t) \/ Commit(t) \/ Rollback(t) \/ Close(t)
  \/ \E s \in Guards \cup Statements : Issue(t, s)

Next ==
  \E t \in Threads :
    \/ \E b \in Bodies : Call(t, b)
    \/ Step(t) \/ Finish(t) \/ Fail(t) \/ Lose(t)

Spec == Init /\ [][Next]_vars

(* A thread that can go on does.  The server answers a SET by itself, but  *)
(* a query may run for ever unless the timeout cancels it.                 *)
FairSpec ==
  /\ Spec
  /\ \A t \in Threads :
       /\ WF_vars(Step(t))
       /\ WF_vars(TimedOut(t))
       /\ WF_vars(running[t] \in Guards /\ (Finish(t) \/ Fail(t)))

-----------------------------------------------------------------------------
TypeOK ==
  /\ pc \in [Threads -> Labels]
  /\ body \in [Threads -> Seq(Statements)]
  /\ sessions \subseteq Threads
  /\ tx \in [Threads -> {"none", "open", "failed"}]
  /\ readonly \subseteq Threads
  /\ saved \in [Threads -> SUBSET Guards]
  /\ setting \in [Threads -> SUBSET Guards]
  /\ running \in [Threads -> Guards \cup Statements \cup {None}]
  /\ touched \subseteq Threads
  /\ kept \subseteq Threads

(* db.py:3-6: whatever statement of a tool the server executes, it does so *)
(* in a read-only transaction and under the statement timeout - also after *)
(* a failure, and in whichever transaction the statement happens to start. *)
EveryStatementGuarded ==
  \A t \in Threads : running[t] \in Statements =>
    t \in readonly /\ "timeout" \in setting[t]

(* No path of a tool commits what its statements did: EXPLAIN is rolled    *)
(* back (explain_query.py:5), the others end with their session.           *)
NothingKept == kept = {}

(* The finally clause closes the session on every path (db.py:57): an idle *)
(* thread holds no slot of the server, so calls cannot exhaust them.       *)
NoSessionLeak == \A t \in Threads : pc[t] \in {"idle", "connect"} => t \notin sessions

(* Every call returns: its session is not kept busy by a statement that    *)
(* runs for ever, because the timeout is in force before the first one.    *)
CallsEnd == \A t \in Threads : pc[t] # "idle" ~> pc[t] = "idle"
=============================================================================
