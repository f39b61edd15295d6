---------------------------- MODULE WebAppProofs ----------------------------
(***************************************************************************)
(* Proofs about the page and the server behind it, for any number of       *)
(* requests, any menu and any environment.                                 *)
(*                                                                         *)
(* The argument.  A request that is in flight and has met no other is the  *)
(* only one in flight, on a page that is empty (Alone): a second Send      *)
(* would have marked both, and Send clears the page.  What is on the page  *)
(* was put there by a request that is over, and as long as another is in   *)
(* flight they have met (Shows), because every Send clears it.  The menu,  *)
(* once annotated, says of a hosted engine whether its key is set, and the *)
(* keys do not change (Menu).                                              *)
(***************************************************************************)
EXTENDS WebApp, TLAPS

Alone ==
  \A q \in Pending \ crossed : Pending = {q} /\ summary = None /\ ~visible

Shows ==
  summary # None =>
    /\ pc[summary] = "over"
    /\ response[summary] = "diagnosis"
    /\ summary \in crossed \/ (raw = summary /\ Pending = {})

PageInv == TypeOK /\ Alone /\ Shows /\ NothingStaleAlone /\ ButtonReturns

LEMMA PageInit == Init => PageInv
<1>. SUFFICES ASSUME Init PROVE PageInv
  OBVIOUS
<1>1. TypeOK
  BY DEF Init, TypeOK, Hidden
<1>2. Pending = {}
  BY DEF Init, Pending
<1>. QED  BY <1>1, <1>2 DEF Init, PageInv, Alone, Shows, NothingStaleAlone, ButtonReturns

(* A request is sent.                                                      *)
LEMMA PageSend ==
  ASSUME PageInv, NEW q \in Requests, Send(q)
  PROVE  PageInv'
<1>1. TypeOK'
  BY DEF PageInv, TypeOK, Send, Cleared, Pending
<1>2. Pending' = Pending \cup {q}
  BY DEF PageInv, TypeOK, Send, Pending
<1>3. Alone'
  BY <1>2 DEF Send, Alone, Cleared
<1>4. Shows' /\ NothingStaleAlone' /\ ButtonReturns'
  BY <1>2, UIAssumption DEF Send, Shows, NothingStaleAlone, ButtonReturns, Cleared
<1>. QED  BY <1>1, <1>3, <1>4 DEF PageInv

(* A request comes back.                                                   *)
LEMMA PageAnswer ==
  ASSUME PageInv, NEW q \in Requests, Answer(q)
  PROVE  PageInv'
<1>0. /\ pc[q] = "fetching" /\ pc' = [pc EXCEPT ![q] = "over"]
      /\ \E kind \in Responses : response' = [response EXCEPT ![q] = kind]
      /\ disabled' = FALSE
      /\ crossed' = crossed
  BY DEF Answer, Rendered, Undiagnosed, Failed, Arrive, Enabled, Responses
<1>1. TypeOK'
  <2>1. /\ pc' \in [Requests -> {"idle", "fetching", "over"}]
        /\ response' \in [Requests -> Responses \cup {None}]
        /\ disabled' \in BOOLEAN /\ crossed' \subseteq Requests
    BY <1>0 DEF PageInv, TypeOK
  <2>2. /\ visible' \in BOOLEAN
        /\ summary' \in Requests \cup {None} /\ raw' \in Requests \cup {None}
        /\ status' \in [kind : {"hidden", "info", "error"}, of : Requests \cup {None}]
    <3>1. CASE Rendered(q)
      BY <3>1 DEF Rendered, Hidden
    <3>2. CASE Undiagnosed(q)
      BY <3>2 DEF PageInv, TypeOK, Undiagnosed, Banner
    <3>3. CASE Failed(q)
      BY <3>3 DEF PageInv, TypeOK, Failed, Banner
    <3>. QED  BY <3>1, <3>2, <3>3 DEF Answer
  <2>. QED  BY <2>1, <2>2 DEF TypeOK
<1>2. Pending' = Pending \ {q} /\ q \in Pending
  BY <1>0 DEF PageInv, TypeOK, Pending
<1>3. q \in crossed \/ (Pending = {q} /\ summary = None /\ ~visible)
  BY <1>2 DEF PageInv, Alone
<1>4. Alone'
  BY <1>0, <1>2 DEF PageInv, Alone
<1>5. summary # q
  BY <1>0, UIAssumption DEF PageInv, Shows
<1>6. Shows'
  <2>1. CASE Rendered(q)
    <3>1. pc'[q] = "over" /\ response'[q] = "diagnosis" /\ summary' = q /\ raw' = q
      BY <2>1 DEF PageInv, TypeOK, Rendered, Arrive
    <3>. QED  BY <3>1, <1>0, <1>2, <1>3 DEF Shows
  <2>2. ASSUME Undiagnosed(q) \/ Failed(q), summary # None
        PROVE  /\ summary' = summary /\ pc'[summary] = "over"
               /\ response'[summary] = "diagnosis" /\ summary \in crossed
    <3>1. summary' = summary
      BY <2>2 DEF Undiagnosed, Failed
    <3>2. summary \in crossed
      BY <1>2, <2>2 DEF PageInv, Shows
    <3>3. summary \in Requests /\ pc[summary] = "over" /\ response[summary] = "diagnosis"
      BY <2>2 DEF PageInv, TypeOK, Shows
    <3>. QED  BY <1>0, <1>5, <3>1, <3>2, <3>3 DEF PageInv, TypeOK
  <2>3. CASE Undiagnosed(q) \/ Failed(q)
    <3>1. summary' = summary
      BY <2>3 DEF Undiagnosed, Failed
    <3>. QED  BY <1>0, <2>2, <2>3, <3>1 DEF Shows
  <2>. QED  BY <2>1, <2>3 DEF Answer
<1>7. NothingStaleAlone'
  <2>1. CASE Rendered(q)
    BY <2>1 DEF NothingStaleAlone, Rendered, Hidden
  <2>2. CASE Undiagnosed(q)
    BY <2>2, <1>0, <1>3 DEF NothingStaleAlone, Undiagnosed, Banner
  <2>3. CASE Failed(q)
    BY <2>3, <1>0, <1>3 DEF NothingStaleAlone, Failed, Banner
  <2>. QED  BY <2>1, <2>2, <2>3 DEF Answer
<1>8. ButtonReturns'
  BY <1>0 DEF ButtonReturns
<1>. QED  BY <1>1, <1>4, <1>6, <1>7, <1>8 DEF PageInv

LEMMA PageStep == PageInv /\ [Next]_vars => PageInv'
<1>. SUFFICES ASSUME PageInv, [Next]_vars PROVE PageInv'
  OBVIOUS
<1>1. CASE NoQuestion
  BY <1>1, UIAssumption DEF NoQuestion, PageInv, TypeOK, Alone, Shows, NothingStaleAlone,
     ButtonReturns, Pending
<1>2. CASE UNCHANGED vars
  BY <1>2 DEF vars, page, PageInv, TypeOK, Alone, Shows, NothingStaleAlone, ButtonReturns,
     Pending
<1>3. CASE \E q \in Requests : Click(q) \/ Shortcut(q) \/ Answer(q)
  BY <1>3, PageSend, PageAnswer DEF Click, Shortcut
<1>. QED  BY <1>1, <1>2, <1>3 DEF Next

LEMMA PageInvariance == Spec => []PageInv
  BY PageInit, PageStep, PTL DEF Spec

(* Whatever the server answers, the page behaves as WebUI says.            *)
LEMMA PageImplemented == AppSpec => Spec
<1>1. AppInit => Init
  BY DEF AppInit
<1>2. [AppNext]_appVars => [Next]_vars
  <2>. SUFFICES ASSUME [AppNext]_appVars PROVE [Next]_vars
    OBVIOUS
  <2>1. CASE UNCHANGED appVars
    BY <2>1 DEF appVars
  <2>2. CASE Flip \/ Probe \/ Annotate \/ \E e \in Shown : Select(e)
    BY <2>2 DEF Flip, Probe, Annotate, Select
  <2>3. CASE NoQuestion
    BY <2>3 DEF Next
  <2>4. ASSUME NEW q \in Requests, Submit(q) \/ Return(q)
        PROVE  Next
    BY <2>4 DEF Submit, Return, Served, Answer, Next
  <2>. QED  BY <2>1, <2>2, <2>3, <2>4 DEF AppNext
<1>. QED  BY <1>1, <1>2, PTL DEF AppSpec, Spec

(* Type correctness of the page, for any number of requests (app.js).      *)
THEOREM TypeCorrect == AppSpec => []TypeOK
<1>1. PageInv => TypeOK
  BY DEF PageInv
<1>. QED  BY <1>1, PageImplemented, PageInvariance, PTL

(* app.js:105-106, the comment on callAgent: a request that had the page   *)
(* to itself leaves no old diagnosis under its error banner, however many  *)
(* others came before.                                                     *)
THEOREM NoStaleDiagnosisAlone == AppSpec => []NothingStaleAlone
<1>1. PageInv => NothingStaleAlone
  BY DEF PageInv
<1>. QED  BY <1>1, PageImplemented, PageInvariance, PTL

(* The diagnosis and the JSON on the page are of the same request, one     *)
(* that was diagnosed (app.js: renderDiagnosis).                           *)
THEOREM PictureIsOne == AppSpec => []OnePicture
<1>1. PageInv => OnePicture
  BY DEF PageInv, Shows, OnePicture
<1>. QED  BY <1>1, PageImplemented, PageInvariance, PTL

(* The finally clause of callAgent gives the Run button back whatever the  *)
(* requests came back with.                                                *)
THEOREM ButtonComesBack == AppSpec => []ButtonReturns
<1>1. PageInv => ButtonReturns
  BY DEF PageInv
<1>. QED  BY <1>1, PageImplemented, PageInvariance, PTL

-----------------------------------------------------------------------------
(* The menu tells the truth about the keys, and requests come from it.     *)
Menu ==
  \A e \in Shown : menu[e] # None /\ e \in Hosted /\ menu[e].available => e \in env.keys

Offers ==
  \A q \in offered :
    q \in Pending /\ engine[q] \in Shown /\ (engine[q] \in Hosted => engine[q] \in env.keys)

MenuInv ==
  /\ env \in Environments /\ up \in BOOLEAN
  /\ selected \in Shown
  /\ engine \in [Requests -> Shown \cup {None}]
  /\ offered \subseteq Requests
  /\ Menu /\ Offers

LEMMA MenuStep == PageInv /\ MenuInv /\ [AppNext]_appVars => MenuInv'
<1>. SUFFICES ASSUME PageInv, MenuInv, [AppNext]_appVars PROVE MenuInv'
  OBVIOUS
<1>1. ASSUME UNCHANGED <<pc, env, menu, selected, engine, offered>>, up' \in BOOLEAN
      PROVE  MenuInv'
  BY <1>1 DEF MenuInv, Menu, Offers, Pending
<1>2. CASE Annotate
  <2>1. UNCHANGED <<pc, env, up, selected, engine, offered>>
    BY <1>2 DEF Annotate, vars, server
  <2>2. ASSUME NEW e \in Shown, e \in Hosted, menu'[e].available
        PROVE  e \in env.keys
    BY <1>2, <2>2 DEF Annotate, Available, Hosted
  <2>3. Menu'
    BY <2>1, <2>2 DEF Menu
  <2>. QED  BY <2>1, <2>3 DEF MenuInv, Offers, Pending
<1>3. ASSUME NEW e \in Shown, Select(e)
      PROVE  MenuInv'
  BY <1>3 DEF MenuInv, Menu, Offers, Select, server, vars, Pending
<1>4. ASSUME NEW q \in Requests, Submit(q)
      PROVE  MenuInv'
  <2>1. /\ UNCHANGED <<env, up, menu, selected>>
        /\ engine' = [engine EXCEPT ![q] = selected]
        /\ offered' = IF menu[selected] # None /\ ~Greyed(selected)
                      THEN offered \cup {q} ELSE offered
        /\ pc[q] = "idle" /\ pc' = [pc EXCEPT ![q] = "fetching"]
    BY <1>4 DEF Submit, Click, Shortcut, Send, server, options
  <2>2. q \notin offered
    BY <2>1 DEF MenuInv, Offers, Pending
  <2>3. ASSUME NEW p \in offered
        PROVE  p \in Pending' /\ engine'[p] \in Shown /\ (engine'[p] \in Hosted => engine'[p] \in env.keys)
    <3>1. p # q /\ p \in Requests /\ engine'[p] = engine[p] /\ pc'[p] = pc[p]
      BY <2>1, <2>2, <2>3 DEF MenuInv, PageInv, TypeOK
    <3>. QED  BY <3>1, <2>3 DEF MenuInv, Offers, Pending
  <2>4. ASSUME menu[selected] # None, ~Greyed(selected)
        PROVE  q \in Pending' /\ engine'[q] \in Shown /\ (engine'[q] \in Hosted => engine'[q] \in env.keys)
    <3>1. engine'[q] = selected /\ selected \in Shown /\ pc'[q] = "fetching"
      BY <2>1 DEF MenuInv, PageInv, TypeOK
    <3>. QED  BY <3>1, <2>4 DEF MenuInv, Menu, Greyed, Pending
  <2>5. Offers'
    BY <2>1, <2>3, <2>4 DEF Offers
  <2>. QED  BY <2>1, <2>5 DEF MenuInv, Menu
<1>5. ASSUME NEW q \in Requests, Return(q)
      PROVE  MenuInv'
  <2>1. /\ UNCHANGED <<env, up, menu, selected>>
        /\ engine' = [engine EXCEPT ![q] = None]
        /\ offered' = offered \ {q}
        /\ pc' = [pc EXCEPT ![q] = "over"]
    BY <1>5 DEF Return, Served, Failed, Rendered, Undiagnosed, Arrive, server, options
  <2>2. ASSUME NEW p \in offered'
        PROVE  p \in Pending' /\ engine'[p] \in Shown /\ (engine'[p] \in Hosted => engine'[p] \in env.keys)
    <3>1. p # q /\ p \in offered /\ engine'[p] = engine[p] /\ pc'[p] = pc[p]
      BY <2>1, <2>2 DEF MenuInv, PageInv, TypeOK
    <3>. QED  BY <3>1 DEF MenuInv, Offers, Pending
  <2>3. Offers'
    BY <2>1, <2>2 DEF Offers
  <2>. QED  BY <2>1, <2>3 DEF MenuInv, Menu
<1>6. CASE \/ UNCHANGED appVars \/ Flip \/ Probe
           \/ NoQuestion /\ UNCHANGED <<server, options, engine, offered>>
  BY <1>1, <1>6 DEF MenuInv, appVars, vars, server, options, Flip, Probe, NoQuestion
<1>. QED  BY <1>2, <1>3, <1>4, <1>5, <1>6 DEF AppNext

LEMMA MenuInvariance == AppSpec => []MenuInv
<1>1. AppInit => MenuInv
  BY AppAssumption DEF AppInit, MenuInv, Menu, Offers
<1>2. AppSpec => []PageInv
  BY PageImplemented, PageInvariance, PTL
<1>. QED  BY <1>1, <1>2, MenuStep, PTL DEF AppSpec

(* README.md:188-189: no request is turned down for the credentials of an  *)
(* engine that the annotated menu offered it, whichever keys and packages  *)
(* the server has.                                                         *)
THEOREM OffersAreKept == AppSpec => []OfferKept
<1>1. MenuInv => OfferKept
  BY AppAssumption DEF MenuInv, Offers, OfferKept, BuildForPage, Constructed, Engines, PROVIDERS,
     Hosted
<1>. QED  BY <1>1, MenuInvariance, PTL

(* agent/llm.py, build_llm(), against web/backend.py, _build_llm() and     *)
(* /api/providers: what the factory picks when no provider is pinned is    *)
(* what the page would offer and the server accept, for any keys and       *)
(* packages, but for an OLLAMA_HOST where nobody answers; and when it      *)
(* raises, the page offers nothing, or an engine whose package is missing. *)
THEOREM AutoIsOffered == AppSpec => []AutoOffered
<1>1. MenuInv => AutoOffered
  <2>. SUFFICES ASSUME MenuInv, NEW unpinned \in {"auto", None},
                       NEW pick \in {BuildLLM(None, unpinned, env, up),
                                     CommandLine(None, unpinned, env, up)}
                PROVE  /\ pick \in PROVIDERS =>
                            /\ Available(pick, env, up) \/ (pick = "ollama" /\ env.host)
                            /\ BuildForPage(pick, env) = pick
                       /\ pick = "raises" =>
                            \/ \A e \in PROVIDERS : ~Available(e, env, up)
                            \/ \E e \in Hosted \ env.sdks : Available(e, env, up)
    BY DEF AutoOffered
  <2>1. AutoKind(env, up) \in PROVIDERS \cup {"raises"}
    BY DEF AutoKind, PROVIDERS, Hosted
  <2>2. pick = IF AutoKind(env, up) \in PROVIDERS THEN Constructed(AutoKind(env, up), env) ELSE "raises"
    BY AppAssumption DEF BuildLLM, CommandLine, Engines
  <2>3. CASE AutoKind(env, up) = "raises"
    BY <2>2, <2>3 DEF AutoKind, Available, PROVIDERS, Hosted
  <2>4. CASE AutoKind(env, up) = "ollama"
    BY <2>2, <2>4 DEF AutoKind, Available, PROVIDERS, Hosted, Constructed, BuildForPage
  <2>5. CASE AutoKind(env, up) \in Hosted
    BY <2>2, <2>5 DEF AutoKind, Available, PROVIDERS, Hosted, Constructed, BuildForPage
  <2>. QED  BY <2>1, <2>3, <2>4, <2>5 DEF PROVIDERS
<1>. QED  BY <1>1, MenuInvariance, PTL
=============================================================================
