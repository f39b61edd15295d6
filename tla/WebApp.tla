------------------------------- MODULE WebApp -------------------------------
(***************************************************************************)
(* The page with the server behind it: the menu of engines, which          *)
(* /api/providers annotates some time after the page has loaded, the       *)
(* engine that each request names, and what the server makes of it.        *)
(* WebUI leaves open what a request comes back with; here the server does  *)
(* what Providers says.                                                    *)
(***************************************************************************)
EXTENDS WebUI

INSTANCE Providers

CONSTANTS
  Shown,      \* the engines of the menu that are looked at
  MaxFlips    \* bound on the times the Ollama server comes or goes

ASSUME AppAssumption ==
  "rule" \in Shown /\ Shown \subseteq Engines /\ None \notin Engines \cup {"auto"}

VARIABLES
  env,       \* the environment of the server
  up,        \* whether an Ollama server answers
  flips,     \* how often that has changed
  probed,    \* "available" of /api/providers for Ollama, while its reason is still to come
  menu,      \* the annotated menu: what each engine is said to be, once it is known
  selected,  \* els.llm.value
  engine,    \* the engine named by each request in flight
  offered    \* history: those whose engine the page offered, annotated, when they were sent

server == <<env, up, flips>>
options == <<probed, menu, selected>>
appVars == <<vars, server, options, engine, offered>>

AppInit ==
  /\ Init
  /\ env \in Environments
  /\ up \in BOOLEAN /\ flips = 0
  /\ probed = None
  /\ menu = [e \in Shown |-> None]
  /\ selected = "rule"
  /\ engine = [q \in Requests |-> None]
  /\ offered = {}

Flip ==
  /\ flips < MaxFlips
  /\ up' = ~up
  /\ flips' = flips + 1
  /\ UNCHANGED <<vars, env, options, engine, offered>>

(* /api/providers asks the Ollama server whether it is available ...       *)
Probe ==
  /\ probed = None
  /\ probed' = [available |-> up]
  /\ UNCHANGED <<vars, server, menu, selected, engine, offered>>

(* ... and once more for the reason; then the menu shows both.  The fetch  *)
(* may also fail, and the menu stays as it is.                             *)
Annotate ==
  /\ probed # None /\ \A e \in Shown : menu[e] = None
  /\ menu' = [e \in Shown |->
       [available |-> Available(e, env, probed.available), reason |-> Available(e, env, up)]]
  /\ UNCHANGED <<vars, server, probed, selected, engine, offered>>

Greyed(e) == menu[e] # None /\ ~menu[e].available

(* A disabled option cannot be chosen, but one chosen before stays.        *)
Select(e) ==
  /\ e # selected /\ ~Greyed(e)
  /\ selected' = e
  /\ UNCHANGED <<vars, server, probed, menu, engine, offered>>

(* Run, the key, or a chip: the request names the selected engine.         *)
Submit(q) ==
  /\ Click(q) \/ Shortcut(q)
  /\ engine' = [engine EXCEPT ![q] = selected]
  /\ offered' = IF menu[selected] # None /\ ~Greyed(selected) THEN offered \cup {q} ELSE offered
  /\ UNCHANGED <<server, options>>

(* The run returns, which it does only with an engine.  Any request may    *)
(* fail instead: without a key with 400, with arguments that are invalid   *)
(* with 422, and when the package is missing or the run raises - a quota,  *)
(* an Ollama server that is down - with 500, whose body is no JSON, so     *)
(* that json() throws as it does when the connection breaks.               *)
Served(q) ==
  /\ BuildForPage(engine[q], env) \in Engines
  /\ Rendered(q) \/ Undiagnosed(q)

Return(q) ==
  /\ Failed(q) \/ Served(q)
  /\ engine' = [engine EXCEPT ![q] = None]
  /\ offered' = offered \ {q}
  /\ UNCHANGED <<server, options>>

AppNext ==
  \/ Flip \/ Probe \/ Annotate
  \/ \E e \in Shown : Select(e)
  \/ NoQuestion /\ UNCHANGED <<server, options, engine, offered>>
  \/ \E q \in Requests : Submit(q) \/ Return(q)

AppSpec == AppInit /\ [][AppNext]_appVars

-----------------------------------------------------------------------------
(* README.md:188-189, providers without credentials are greyed out: a      *)
(* request whose engine the page offered when it was sent is never turned  *)
(* down for its credentials, and the engine exists unless its package is   *)
(* missing.  The menu is asked once, and the request comes much later; an  *)
(* engine chosen before the menu was annotated has no such promise.        *)
OfferKept ==
  \A q \in offered :
    /\ BuildForPage(engine[q], env) # "refused"
    /\ engine[q] \in Hosted /\ engine[q] \in env.sdks => BuildForPage(engine[q], env) = engine[q]

(* Three places say which provider is usable.  When AI_DBA_LLM pins none   *)
(* (README.md:166-168, the factory picks the first one with credentials    *)
(* available), what build_llm() gives the evaluation or the command line   *)
(* is what the page would offer and the server accept - with one           *)
(* exception: it trusts an OLLAMA_HOST where nobody answers.  And it gives *)
(* none only if the page offers none either, or offers a hosted one whose  *)
(* package is missing, which then would not work.                          *)
AutoOffered ==
  \A unpinned \in {"auto", None} :
    \A pick \in {BuildLLM(None, unpinned, env, up), CommandLine(None, unpinned, env, up)} :
      /\ pick \in PROVIDERS =>
           /\ Available(pick, env, up) \/ (pick = "ollama" /\ env.host)
           /\ BuildForPage(pick, env) = pick
      /\ pick = "raises" =>
           \/ \A e \in PROVIDERS : ~Available(e, env, up)
           \/ \E e \in Hosted \ env.sdks : Available(e, env, up)
=============================================================================
