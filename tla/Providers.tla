----------------------------- MODULE Providers -----------------------------
(***************************************************************************)
(* Which provider answers: build_llm() of agent/llm.py, for the evaluation *)
(* and the command line; _build_llm() of web/backend.py, for the page; and *)
(* what /api/providers tells the page about them.                          *)
(*                                                                         *)
(* The environment is the process's: keys, the providers whose key is set; *)
(* sdks, those whose package is installed; host, whether OLLAMA_HOST is    *)
(* set; and, apart, the value of AI_DBA_LLM (pinned).  Whether an Ollama   *)
(* server answers (up) may change at any time.                             *)
(***************************************************************************)
CONSTANT None

Hosted == {"anthropic", "openai"}
PROVIDERS == Hosted \cup {"ollama"}
Engines == PROVIDERS \cup {"rule"}

Environments == [keys : SUBSET Hosted, sdks : SUBSET Hosted, host : BOOLEAN]

\* Mutant: an installed package is taken for a key.
AutoKindByPackage(env, up) ==
  IF "anthropic" \in env.sdks THEN "anthropic"
  ELSE IF "openai" \in env.sdks THEN "openai"
  ELSE IF env.host \/ up THEN "ollama" ELSE "raises"

(* The first provider whose credentials look set.                          *)
AutoKind(env, up) ==
  IF "anthropic" \in env.keys THEN "anthropic"
  ELSE IF "openai" \in env.keys THEN "openai"
  ELSE IF env.host \/ up THEN "ollama" ELSE "raises"

(* A constructor raises without its package.                               *)
Constructed(kind, env) == IF kind \in Hosted \ env.sdks THEN "raises" ELSE kind

(* build_llm(kind): the argument, else AI_DBA_LLM, else auto.              *)
BuildLLM(kind, pinned, env, up) ==
  LET asked  == IF kind # None THEN kind ELSE IF pinned # None THEN pinned ELSE "auto"
      chosen == IF asked = "auto" THEN AutoKind(env, up) ELSE asked
  IN  IF chosen \in PROVIDERS THEN Constructed(chosen, env) ELSE "raises"

(* cli.py: --llm, or its default, which is an argument as well.            *)
CommandLine(option, pinned, env, up) ==
  BuildLLM(IF option = None THEN "auto" ELSE option, pinned, env, up)

(* _build_llm(kind): 400 without the key.                                  *)
BuildForPage(kind, env) ==
  IF kind \in Hosted \ env.keys THEN "refused" ELSE Constructed(kind, env)

\* Mutant: the key of the other provider is tested.
AvailableSwapped(kind, env, up) ==
  \/ kind = "rule"
  \/ \E other \in Hosted \ {kind} : kind \in Hosted /\ other \in env.keys
  \/ kind = "ollama" /\ up

(* /api/providers, if the server is up when it is asked.                   *)
Available(kind, env, up) ==
  \/ kind = "rule"
  \/ kind \in Hosted /\ kind \in env.keys
  \/ kind = "ollama" /\ up
=============================================================================
