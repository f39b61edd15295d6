------------------------------- MODULE WebUI -------------------------------
(***************************************************************************)
(* The page of the web UI (web/static/app.js): callAgent() clears the      *)
(* page, awaits the response and renders it.  The one event loop of the    *)
(* page runs the code before the await and the code after it as two steps; *)
(* between them other events run.  The Run button is disabled meanwhile,   *)
(* but Ctrl+Enter and the demo chips call the agent without asking it.     *)
(***************************************************************************)
EXTENDS Integers, FiniteSets

CONSTANTS
  Requests,  \* the calls of callAgent()
  None

Responses == {"diagnosis", "no_diagnosis", "http_error", "network_error"}

ASSUME UIAssumption == None \notin Requests

VARIABLES
  pc,        \* idle, fetching or over, per request
  response,  \* what came back, per request
  disabled,  \* els.run.disabled
  visible,   \* whether els.result is shown
  summary,   \* the request whose summary, findings and timeline are on the page
  raw,       \* the request whose JSON is on the page
  status,    \* the banner: hidden, spinning or an error, and of which request
  crossed    \* history: the requests that were in flight together with another

page == <<visible, summary, raw, status>>
vars == <<pc, response, disabled, page, crossed>>

Hidden == [kind |-> "hidden", of |-> None]

Init ==
  /\ pc = [q \in Requests |-> "idle"]
  /\ response = [q \in Requests |-> None]
  /\ disabled = FALSE
  /\ visible = FALSE
  /\ summary = None
  /\ raw = None
  /\ status = Hidden
  /\ crossed = {}

Pending == {q \in Requests : pc[q] = "fetching"}

\* Mutant: the old content is hidden, not cleared.
ClearedNot == summary

Cleared == None

(* The code before the await.                                              *)
Send(q) ==
  /\ pc[q] = "idle"
  /\ pc' = [pc EXCEPT ![q] = "fetching"]
  /\ disabled' = TRUE
  /\ visible' = FALSE
  /\ summary' = Cleared
  /\ raw' = None
  /\ status' = [kind |-> "info", of |-> q]
  /\ crossed' = IF Pending = {} THEN crossed ELSE crossed \cup Pending \cup {q}
  /\ UNCHANGED response

(* A click on Run reaches the page only while the button is enabled; a     *)
(* chip, or the key, always does.                                          *)
Click(q) == ~disabled /\ Send(q)
Shortcut(q) == Send(q)

(* Run, or the key, without a question: a banner that belongs to no        *)
(* request, whatever else is on the page or in flight.                     *)
NoQuestion ==
  /\ status' = [kind |-> "error", of |-> None]
  /\ UNCHANGED <<pc, response, disabled, visible, summary, raw, crossed>>

Arrive(q, kind) ==
  /\ pc[q] = "fetching"
  /\ pc' = [pc EXCEPT ![q] = "over"]
  /\ response' = [response EXCEPT ![q] = kind]
  /\ UNCHANGED crossed

\* Mutant: the button is enabled again after a success only.
EnabledOnSuccess(kind) == IF kind = "diagnosis" THEN FALSE ELSE disabled

(* The finally clause.                                                     *)
Enabled(kind) == FALSE

Banner(q) == [kind |-> "error", of |-> q]

(* The code after the await: a diagnosis is rendered in full.              *)
Rendered(q) ==
  /\ Arrive(q, "diagnosis")
  /\ disabled' = Enabled("diagnosis")
  /\ visible' = TRUE
  /\ summary' = q
  /\ raw' = q
  /\ status' = Hidden

(* The agent ended without diagnosis: a banner, and the JSON as it is.     *)
Undiagnosed(q) ==
  /\ Arrive(q, "no_diagnosis")
  /\ disabled' = Enabled("no_diagnosis")
  /\ visible' = TRUE
  /\ raw' = q
  /\ status' = Banner(q)
  /\ UNCHANGED summary

(* An HTTP error, or fetch() or json() throws: a banner and nothing else.  *)
Failed(q) ==
  \E kind \in {"http_error", "network_error"} :
    /\ Arrive(q, kind)
    /\ disabled' = Enabled(kind)
    /\ status' = Banner(q)
    /\ UNCHANGED <<visible, summary, raw>>

Answer(q) == Rendered(q) \/ Undiagnosed(q) \/ Failed(q)

Next == NoQuestion \/ \E q \in Requests : Click(q) \/ Shortcut(q) \/ Answer(q)

Spec == Init /\ [][Next]_vars

-----------------------------------------------------------------------------
TypeOK ==
  /\ pc \in [Requests -> {"idle", "fetching", "over"}]
  /\ response \in [Requests -> Responses \cup {None}]
  /\ disabled \in BOOLEAN
  /\ visible \in BOOLEAN
  /\ summary \in Requests \cup {None}
  /\ raw \in Requests \cup {None}
  /\ status \in [kind : {"hidden", "info", "error"}, of : Requests \cup {None}]
  /\ crossed \subseteq Requests

(* app.js:105-106: a failed run never leaves an old diagnosis under a      *)
(* fresh error banner.                                                     *)
NoStaleDiagnosis ==
  status.kind = "error" /\ status.of # None /\ visible => summary \in {None, status.of}

(* The same, of a request that had the page to itself from its call to its *)
(* answer - whatever other requests did before.                            *)
NothingStaleAlone ==
  status.kind = "error" /\ visible /\ status.of \in Requests \ crossed =>
    summary \in {None, status.of}

(* What is on the page belongs together: a visible diagnosis is one that   *)
(* the agent gave, and the JSON beside it is of the same request, unless   *)
(* that request shared the page.                                           *)
OnePicture ==
  visible /\ summary # None =>
    /\ response[summary] = "diagnosis"
    /\ summary \notin crossed => raw = summary

(* The button is never left disabled: with nothing in flight a click works *)
(* again, whatever the requests came back with and in which order.         *)
ButtonReturns == Pending = {} => ~disabled
=============================================================================
