# AI-DBA: specifications and proofs

TLA+ models of the AI-DBA agent: a diagnostic agent that asks a language model (or a rule
engine) what to look at in a PostgreSQL database, calls read-only tools for it, and returns a
diagnosis whose findings cite the audited calls they rest on.

    cd tla
    tlc -workers 2 -config AgentLoop.cfg MCAgentLoop    # one run
    tlapm AgentLoopProofs.tla                           # one set of proofs

Source paths below are relative to `src/`. `PROJECT.json` lists components, runs, the lines each
definition models, findings, hazards and theorems.

## 1. The system

| component | state it keeps | operations | talks to |
| --- | --- | --- | --- |
| rate limiter `mcp_server/rate_limit.py` | dict of token buckets, one lock | `try_acquire` | called by every tool call, from any thread |
| tool wrapper `mcp_server/tools/base.py` | none of its own (a frame per call) | `wrapper`: mint id, limit, validate, execute, audit, record, answer | limiter, audit, metrics, tool body |
| audit `mcp_server/audit.py` | the context variable of the correlation id; the log | `new_correlation_id`, `audit` | wrapper |
| metrics `mcp_server/metrics.py` | counters, histogram, in-flight gauge; whether the server runs | `record`, `ensure_started` | wrapper, Prometheus |
| guarded session `mcp_server/db.py` | one PostgreSQL session per call | `connect`: open, two SETs, commit, yield, close | PostgreSQL |
| tools `mcp_server/tools/*.py` | none | eight bodies: one query, or probe/lookup/EXPLAIN | guarded session |
| agent loop `agent/loop.py` | turns used, `tool_call_ids`, results of the turn | `run` | LLM adapter, allowlist |
| allowlist `agent/mcp_client.py` | fixed table | `call_tool` | wrapper |
| schema `agent/schemas.py` | none | validators of `Finding`, `Diagnosis` | agent loop |
| LLM adapters `agent/llm.py` | the transcript in the provider's shape | `start`, `next_turn`, `submit_tool_results` | provider |
| provider choice `agent/llm.py`, `web/backend.py`, `agent/cli.py` | environment | `build_llm`, `_build_llm`, `/api/providers` | - |
| sanitizer `agent/sanitize.py` | none | `sanitize`, `contains_suspicious` | agent loop |
| rule engine `eval/rule_llm.py` | step, observed results | `next_turn`, `submit_tool_results` | agent loop |
| chaos injectors `eval/chaos.py` | threads, a stop event, admin sessions | `start`, `stop` | PostgreSQL |
| eval runner and scorer `eval/runner.py`, `eval/scorer.py` | scores | `_run_once`, `score_diagnosis` | injectors, loop |
| web backend `web/backend.py` | none between requests | `/api/diagnose`, `/api/demo`, ... | loop, injectors |
| web page `web/static/app.js` | the page | `callAgent` | backend |

**How they interact.** FastAPI runs each request in a thread of a pool, because the endpoints are
plain functions. A request owns its LLM, its `run()` and its database sessions; all requests share
the rate limiter, the metrics, the audit log and the database. So the concurrency of this system
is between requests (and, in the page, between the code before and after an `await`), and what
must not leak from one request to another is the correlation id, the tokens, the gauge, the
sessions, the row of the lock demo, and what the page shows.

**What is hard.** Interleavings of requests on the shared parts; failures between any two
statements of a session; the exit paths of a tool call; a model that may answer anything; a
budget of turns that must fit the playbook; timeouts that give up on work that goes on; answers
that arrive in another order than the requests. The list, with lines, is under `hazards` in
`PROJECT.json`.

**What makes each part correct.** Limiter: no window of time over budget, no needless refusal.
Wrapper: one record per answer under one id, whatever happens; exact gauge; metrics equal to the
log; every call answered. Session: every tool statement read-only and under the timeout, nothing
committed, nothing left open. Loop: `tool_call_ids` is what the server audited, the cross-check
catches fabrication, calls and results pair up, the run ends. Engine: its diagnosis says what the
tools said. Demo: nothing is left when it answers. Page: what it shows belongs together.

## 2. The modules

| module | models | state and actions |
| --- | --- | --- |
| `RateLimitContract` | what the limiter promises, without buckets | `Ask`, `Grant`, `Deny`; a grant is possible exactly when every window that ends now stays within capacity + rate x length |
| `RateLimiter` | `try_acquire`, one action per step between which threads may switch or the clock may advance | `Enter` (lock and `_bucket`), `Refill` (`now`, `min`, `last`), `Test`, `Take`; `granted` is a history variable |
| `DbaTool` | `wrapper` with the audit log, the counters and the ids; INSTANCEs `RateLimitContract` for the limiter | `pc` is the place in the wrapper; `Invoke` mints, `Admit`/`Refuse`, `Reject`, `Execute`, `Succeed`/`Raise`, `Audit`, `Record`, `Return` (with the `finally`) |
| `GuardedSession` | `connect()` and the statement order of the tool bodies; PostgreSQL's transactions, SET semantics, timeout and slots as external actions | `Issue` sends, `Finish`/`Fail` is what the server answers, `Lose` loses the backend, `Handler` is the `finally` reached |
| `AgentLoop` | `run()`, `call_tool`, the validators, what adapters do to ids and arguments | `AskTools`, `Finish`, `GiveUp`, `Fail`, `Exhaust`; per call `Refuse`, `Misfit`, `Invoke`-`Audit`-`Observe`; `Submit` |
| `Transcripts` | the messages each adapter accumulates for its provider, on top of `AgentLoop` | `Start`, `Ask`, `Conclude`, `Hand` append to `wire` what `start`, `next_turn` and `submit_tool_results` append to `_messages` |
| `ToolCalls` | the five tools with a limit, from arguments to rows, through `call_tool` and through `server.py`; the two statements of `get_slow_queries` against a database at work | `Call` fills in defaults and validates; `ReadActive`, `ReadExtension`, `ReadHistoric`, `ReadRows`; `Begin`, `End`, `Tick` are the database |
| `RuleAgent` | `RuleBasedLLM` composed with the loop; refines `AgentLoop` | `AskNext`, `Conclude` for `next_turn`; `Observe` sanitizes, `Submit` remembers |
| `ChaosDemo` | `/api/demo` (and `_run_once`, of the same shape) around the injectors | requests: `Spawn`, `AgentEnds`, `Join`; threads: `Connect`, `Settle`, `Lock`, `LetGo`, `Rollback`, `Close` |
| `EvalRun` | `runner.py` and `scorer.py` on top of `ChaosDemo`: the runs of an evaluation, what the engine sees of the sessions, score, summary and exit code | `Begin`, `Wake`, `Look` (one tool of the playbook), `Conclude` (score and `stop()`), `Summarise` |
| `Providers` | `build_llm`, `_build_llm`, the credential tests of `/api/providers`, `--llm` | operators only |
| `WebUI` | `callAgent` and its triggers | `Send` is the code before the await, `Rendered`/`Undiagnosed`/`Failed` the code after it |
| `WebApp` | the page with the server of `Providers` behind it: the menu of engines, its annotation, the engine of a request | `Probe` and `Annotate` are the two questions of `/api/providers`; `Select`, `Submit`, `Return`; `Flip` is an Ollama server that comes or goes |
| `MC*` | budgets, plans and symmetry sets of a run of TLC | |
| `*Proofs` | theorems about the module they extend | |

How they compose: `DbaTool` uses the limiter through the contract that `RateLimiter` is shown to
implement. `AgentLoop` uses a tool through what `DbaTool` guarantees - one record under a fresh
id, an answer with that id, whatever the status (`AuditedOnce`, `Answered`). `Transcripts` runs
together with `AgentLoop`, step for step, and adds what the providers see. `RuleAgent` is one of
the models that `AgentLoop` leaves open, shown by refinement. `ChaosDemo` uses a run only through
the fact that it ends (`RunsEnd`). `EvalRun` puts runner and engine on top of `ChaosDemo`: the
sessions of the injectors are what the tools of the engine select, those of other demos included.
`WebApp` puts the server on top of `WebUI`. `GuardedSession` is the body that `DbaTool` reduces to
its outcome, which may be reduced because `CallsEnd` holds; `ToolCalls` is the same body seen
from its arguments and rows.

Definitions headed "Mutant" are alternative bodies of the definition that follows them, each a
mistake one could make in that line of the code. No specification uses them; substituting one
must make the property it belongs to fail.

## 3. Abstractions

* Token amounts are integers in fractions of a token; float rounding is not modelled.
* The clock is discrete and bounded by `MaxTime`; a correlation id is a number never used before
  (`uuid4().hex[:12]`, 48 bits).
* A tool's arguments are what the code tells apart: they fit its model or not (`DbaTool`), they
  are an object or not (`AgentLoop`). A final answer is unparsable/ill-formed, or a set of claimed
  ids with findings, each a set of cited ids. `Invented` stands for every id no call has.
* One increment of a counter and one log record are atomic: `prometheus_client` and `logging`
  lock themselves.
* PostgreSQL as far as the guards need it: SET is undone when its transaction is; a transaction
  is read-only if the default was on when it began; the timeout cancels a statement; slots are
  limited; a session may be lost at any moment.
* In `ChaosDemo` time enters only through `join(timeout=5)` and `started.wait(timeout=5)`: they
  give up on a thread that the database keeps busy, never on one merely not scheduled yet. This
  makes `LeftBehind` a statement about the program and not about a slow machine.
* A message of a provider is its role, the ids of its calls and the ids of the results it brings;
  `Acceptable` says of it what the provider's interface demands, which is outside `src/`.
* In `ToolCalls` the database is two sessions and two statements, a clock of ticks and the mean
  duration of finished statements; the other tools find a number of rows (`Sizes`). `MAX_ROWS` is a
  variable chosen by the call, standing for one process per value.
* In `EvalRun` the sleep of a second before the engine looks means: the failure may be in place,
  and then for half a second (`settled`), or not. A score is the number of keywords of `SCENARIOS`
  (`chaos.py`) in the texts of `rule_llm.py`: of a finding of the right kind, of a wrong one, or of
  the all-clear (`Hits`). A run is credited with the sessions on which its finding rests (`credit`):
  of an idle alarm, all those it counts. `--live` is left out.
* The environment of `Providers` is a set of keys, a set of installed packages and whether
  `OLLAMA_HOST` is set; it does not change while the server runs, the Ollama server may.

## 4. The runs

Passing runs, with the bounds and what they leave room for:

| run | bounds | shows |
| --- | --- | --- |
| `rate_limiter` | 2 threads, 2 tools, 2 tokens, half a token per tick, 3 ticks | `WindowBound`; refinement of the contract. Half-refilled buckets and a bucket that becomes exactly full occur |
| `dba_tool` | 2 threads, a checked and an unchecked tool, 3 calls, 1 token per tool, 1 tick | `AuditedOnce`, `GaugeExact`, `MetricsMatchLog`, `TokensAccounted`, `Answered`. Two calls of one tool overlap, one is refused, and a third can be admitted after the tick |
| `guarded_session` | 3 threads, 2 slots | `EveryStatementGuarded`, `NothingKept`, `NoSessionLeak`, `CallsEnd`. Calls wait for a slot, and every statement may fail |
| `agent_loop` | a run with any of 4 adapters, 2 turns, 2 calls per turn, and a scripted run of 1 turn and 1 call on the same log; 2 findings | `GroundTruth`, `CrossCheckSound`, `Paired`, `Resumable`, `RunsEnd`; repeated Ollama ids, unlisted tools and misfitting arguments occur in one turn, and an Ollama reply may mix calls with and without ids |
| `rule_engine` | 2 runs, one of 1 turn and one of 5 | `NothingMissed`, `HonestClaim`, `VerdictReached`, refinement of `AgentLoop`. One run is cut off while it shares the log with the other; 5 is the least budget that fits the playbook and its answer |
| `tool_calls` | 2 sessions, 2 statements begun up to 3 times, 2 ticks; `MAX_ROWS` 1, 60 and 200; limits 0, 1, 200, 201 or none; `min_duration_ms` negative, allowed, too large or none | `OneInterface`, `RowCap`, `SlowFound`. A cap below every default, one between the defaults and the one of the delivery; statements end, are cancelled or stay idle in their transaction between the two reads |
| `eval_run` | the three scenarios once each, beside a slow web demo; 3 idle sessions against an alarm of 2 (the code: 5 against 3), at most 1 thread that cannot start | `ExitHonest`, `LeftBehind`, `Detected`, `OwnCredit`: sessions left over by an earlier run or by the demo are seen by the engine of a later one, and an alarm may be made of its own and of others |
| `demo_overlap` | 2 lock demos, 1 slow demo, at most 1 thread that cannot start | `SessionsEnd`, `DemosAnswer`: waiters and holders of two demos on one row, and a row that a failed demo keeps |
| `web_ui` | 3 requests, overlapping or not; a menu of 3 engines, every environment; an Ollama server that changes once | `NothingStaleAlone`, `OnePicture`, `ButtonReturns`: two requests in any order of answers, and a third before or after them; `OfferKept`, `AutoOffered`: what the page, the server and, unless `AI_DBA_LLM` pins a provider, the command line and the evaluation make of one environment |

In all but `guarded_session` the bound on calls, turns or requests lets the system stop, so
deadlock is not checked there; in `guarded_session` it is.

Why these bounds are enough: the properties relate one thread, run, demo or call to one other
through a shared variable, so two of each show every interference; a third is there where a
resource has to be contended (slots) or a history of three events matters (the page). In
`eval_run` each scenario follows another one, and the web demo adds the sleepers of a third party;
in `tool_calls` two sessions are enough for one to displace the other from a list of one. Symmetry
is used where no property names a request, a session or a statement, and never with liveness. The
theorems remove the bounds for every invariant and action property of the passing runs; what stays
bounded is liveness.

Violated runs. Each states what a document or comment says and is refuted by what the code does:

| run | what is said | what happens |
| --- | --- | --- |
| `evidence` | README: the schema rejects evidence that was not produced in this run | the schema compares with the model's own list; claiming an invented id makes it acceptable. `CrossCheckSound` says what a caller can rely on instead |
| `demo_slow` | `backend.py`: never leaves background sessions dangling | the sleeper outlives the answer by up to 30 s |
| `web_ui_stale` | `app.js`: never an old diagnosis under a fresh error banner | two requests overlap through Ctrl+Enter or a chip |

What does hold of the second promise is `LeftBehind`, checked with everything else going on in
`eval_run` and proved for any demos, alone and under an evaluation: a demo that neither sleeps nor shares the row leaves no
session and no lock. The promise of the page holds for a request that overlaps no other
(`NothingStaleAlone`). The passing runs say under which use each promise is kept.

Other disagreements between the code and what is said about it, met while modelling. The models
contain the behaviour; no run is spent on it:

* README.md:114, unknown fields are rejected before any SQL runs: the two tools without an
  `input_model` (`connection.py:8`, `health.py:24`) ignore their arguments (`DbaTool!Accepts`).
* README.md:39, every tool call emits metrics and audit JSON: `call_tool` answers a call of an
  unlisted tool itself, without id or record (`AgentLoop!Refuse`).
* `llm.py:46`, `arguments: dict[str, Any]`: `null` (OpenAI) and arrays come through `json.loads`
  as they are and raise out of `run()` (`AgentLoop!Parsed`, `Misfit`).
* README.md:242, 3-4 steps are enough for a quick triage: the rule engine needs five turns, with
  fewer it ends in `max_steps` (`RuleAgent!Conclude`).
* `rule_llm.py:136`, the all-clear speaks of health, connections, slow queries and locks: it is
  given when those tools were refused or failed (`RuleAgent!Findings`).
* `backend.py:145-147`, two more ways to leave sessions behind: with two lock demos at once a demo
  gives up on sessions that wait for the other's row (`ChaosDemo!Busy`), and when a thread cannot
  be started, outside the `try`, those already running are never stopped (`ChaosDemo!SpawnFails`).
* config.py:37-38, never more rows than `MAX_ROWS`: `get_slow_queries` has two lists, each capped
  on its own, so an answer may have twice as many rows (`slow_queries.py:80`); and a default limit
  above `MAX_ROWS` is not validated when the agent leaves the limit out: with `MAX_ROWS` 60
  `get_index_usage` gives it 100 rows. `RowCap` therefore states the default as the cap of such
  calls, and `OneInterface` that `server.py` refuses them.
* mcp_client.py:87 and slow_queries.py:1, currently running slow queries: `state <> 'idle'` also
  selects a session that is idle in its transaction, whose last statement may have been short
  (`ToolCalls!Slow`). The maximum of `min_duration_ms`, one hour, is not advertised to the model.
* slow_queries.py:30 and locks.py:26 take `EXTRACT(MILLISECOND ...)` of a duration, which is the
  seconds field and starts again every minute; the number is only shown, so it is not modelled.
* cli.py:24 and README.md:166-167, `AI_DBA_LLM` pins the provider: the option's default `auto`
  is passed on as an argument, so the command line never reads it (`Providers!CommandLine`).
  `AutoOffered` does not speak of pinned environments.
* backend.py:104, usable providers: a key is enough for the page, though the package may be missing
  and the request then fails (`Providers!Constructed`); `auto` does not fall back in that case, and
  takes an `OLLAMA_HOST` on trust.
* backend.py:122 asks the Ollama server twice in one answer, so a provider may be said available
  with the reason why it is not (`WebApp!Annotate`).
* README.md:328-329, the evaluation exits non-zero below a mean of 0.5: the all-clear alone has one
  third of the keywords of every scenario, so one failure named in four is enough for success, and a
  slow statement left in `pg_stat_statements` by an earlier run is credited to a later one
  (`EvalRun!Hits`, `ExitHonest`). With `--all --runs 3` (README.md:322) the sleepers that slow runs
  gave up on may, just after they end, count towards the alarm of a later idle run, or make it
  alone (`OwnCredit` bounds what is credited to these). With `--runs 0` the mean raises (`Summary`).

## 5. Fairness

Weak fairness per thread, run or demo, and only on steps the program itself takes once it has
been called: an operating system thread that can run is scheduled. Never on the environment -
nobody is obliged to call, the clock need not advance, no body must succeed.

* `DbaTool`: steps inside the wrapper, `Succeed` or `Raise` included: the body ends, which
  `GuardedSession` shows (`CallsEnd`).
* `GuardedSession`: steps of the client; the timeout, but only where it has been set; and the
  answer to a SET. Not the end of a tool's own statement: the timeout has to provide it.
  Connecting is assumed to end; there is no `connect_timeout` in the code.
* `AgentLoop` (in `Transcripts!TSpec`), `RuleAgent`: the steps of a run that was started, provider's
  answer included: all clients have a read timeout, and an error is an answer (`Fail`).
* `ChaosDemo`: requests and threads; the end of `pg_sleep(30)` and the grant of the row are steps
  of a thread. For the row, weak fairness is what suffices because every contender takes it once.
  That a thread fails to start is never obliged to happen, nor excluded: `SessionsEnd` is claimed
  only if none does, since `stop()` is then not called and the row stays locked.
* `RateLimiter`, `ToolCalls`, `EvalRun`, `WebApp`: none; what is checked of them is safety.

## 6. The proofs

`TLAPS` proves, for every value of the constants that satisfies the named ASSUME of the module:

| module | theorems | argument |
| --- | --- | --- |
| `RateLimiterProofs` | `TypeCorrect`, `WindowsBounded`, `Refinement` | The lock gives mutual exclusion, so the bucket of a call does not change under it. The inductive invariant says that the level of a bucket is the least, over all earlier grants, of what a window from that grant to now has left, capped at the capacity; then `tokens >= 1` is exactly the contract's condition |
| `DbaToolProofs` | `TypeCorrect`, `OneRecordPerAnswer`, `GaugeCounts`, `CountersMatchLog`, `TokensAreSpent` | The context of a thread inside the wrapper is its call's number, no two threads have the same, and the log has an id only after `Audit` of that call. The gauge is the cardinality of a set of threads that changes by one thread per step; so are the threads between record and counter, and those whose token has paid for nothing yet (`Accounts`) |
| `GuardedSessionProofs` | `TypeCorrect`, `StatementsGuarded`, `NothingCommitted`, `SessionsClosed` | The place of a thread says what its session is like (`SessionInv`). The step that matters is the commit: both settings become permanent for the session, and the next transaction begins read-only |
| `AgentLoopProofs` | `TypeCorrect`, `CrossCheckIsSound`, `CallsPaired`, `IdsAreGroundTruth`; of `Transcripts`: `TranscriptsFollow`, `ConversationResumes` | `Audited`: an id is in `tool_call_ids` only after its record; the log only grows. `Trail`: ids are minted in ascending order, and the id of a tool that is still running is later than any of its run in the log, so the calls of a run and its records are one ascending series. `Talk`: while a turn is open, results collected followed by calls pending are the ids of the last message (`Open`). On the wire (`TInv`): a conversation is `Acceptable` when the model is asked; its reply leaves it `Halfway`, with only that reply's calls open; and what `Submit` sends is, by `Open`, exactly their ids |
| `RuleAgentProofs` | `TypeCorrect`, `ClaimIsHonest`, `NothingIsMissed`, `EngineImplementsLoop` | The envelope that comes back is the record of the call just made (`Served`); a run asks each tool of the playbook once, so the signals in the log are those of the envelopes it has read (`Memory`, `Book`), and it concludes only after all of them (`Verdict`). Under the refinement mapping (`loopPc`, `loopTranscript`, ...) each action of the engine is the action of `AgentLoop` at the same place, `Conclude` its `Finish` with an accepted diagnosis |
| `ToolCallsProofs` | `TypeCorrect`, `RowsCapped`, `InterfaceIsOne`, `NothingSlowIsLost` | The parameters of a call in progress are what its arguments translate to (`Meant`), by a lemma that follows each argument through both entries; LIMIT selects a set no larger than the limit (`Short`). A statement that was slow at the call runs until it is counted, and stays counted (`Kept`): the first read sees it running or the second finds it counted |
| `ChaosProofs` | of `ChaosDemo`: `TypeCorrect`, `LittleLeftBehind`; of `EvalRun`: `EvalRefines`, `EvalTypeCorrect`, `EvalLittleLeftBehind`, `FailuresAreNamed`, `ExitIsHonest`, `CreditIsOwn` | A thread that was joined is closed or was busy (`Joined`). Busy asleep means a slow demo; busy waiting means that the row had a holder (`Held`) whose demo was not stopped, while its own was (`Stopped`): a second lock demo, already begun (`Begun`). The evaluation takes only steps of the demos (`EvalRefines`). A failure in place stays until its tool has looked, or is on record as slow (`Standing`, `Found`). Two of three keywords means named (`Scored`), and the exit code is counted from that. The runs take turns (`InTurn`) and leave only what slow ones may (`Tidy`), so beside its own sessions a lock run sees none and an idle run only theirs (`OwnOnly`, `Credited`) |
| `WebAppProofs` | `TypeCorrect`, `NoStaleDiagnosisAlone`, `PictureIsOne`, `ButtonComesBack`, `OffersAreKept`, `AutoIsOffered` | Every step of the page with its server is a step of `WebUI` or leaves the page alone. A request that has met no other is alone in flight, on an empty page (`Alone`), and what is shown comes from a request that is over (`Shows`). Of a hosted engine the annotated menu says whether its key is set, and keys do not change (`Menu`) |

The properties are not inductive as they stand: `WindowBound` speaks of the past grants only and
needs the link to the bucket; `EveryStatementGuarded` of the moment a statement runs and needs
the settings of every earlier position; `Paired` of closed turns and needs the open one;
`Resumable` of the moments the model is asked and needs what is open between them; `GroundTruth` of
records that are written and needs the ids that are on their way; `SlowFound` of the answer and
needs what became of each statement at every moment of the call; `LeftBehind` of demos that have
answered and needs what was true when each thread was joined. Each module of proofs defines the
strengthening (`IInv`; `Accounts` besides it for the counts of the wrapper; `TInv` for the wire;
`EInv` and `AInv` for the evaluation; `PageInv` and `MenuInv` for the page), proves that the initial
states satisfy it, one lemma per part or per kind of step that it is kept, and obtains the theorems
from that.

The assumptions say what the code says of its parameters - sizes are natural numbers, the kinds of
demos are disjoint and finitely many, a plan names each run once, an idle alarm can be raised by one
demo's sessions - and keep the values `None` and `Invented` apart from ids, diagnoses and exits, as
Python does. No theorem has a hypothesis beyond these. In particular `CreditIsOwn` holds of every
plan: a slow run may leave its session for up to 30 seconds, and those that just end count as idle in
their transactions; `OwnCredit` names these leftovers instead of excluding plans that have them.

Only model-checked: the liveness properties `Answered`, `CallsEnd`, `RunsEnd`, `VerdictReached`,
`SessionsEnd` and `DemosAnswer` (fairness and ENABLED are outside what the prover handles). The
refinements are proved as safety: `Implements` and `ImplementsContract` are the specifications
without fairness. What the violated runs show is shown by their counterexamples.

## 7. Not modelled

Text: prompts, SQL, formatting, the wire formats of the providers beyond roles and ids, the look of
the page. Libraries: FastMCP, FastAPI, pydantic beyond accept/reject, psycopg beyond the calls used.
Process death: nothing is persisted, so there is nothing to recover; a process killed between a
tool's body and its audit record leaves a query without a record.
The start of the metrics server (`ensure_started`: once per process, under a lock), the recursion
and truncation of `sanitize`, `--live` evaluations, durations and row counts of records.
The chaos scripts in SQL and the sample data.

## 8. Plan

Done, in this order because the trust in a diagnosis rests on it: limiter, wrapper, session,
loop; then the engine, the demo and the page; then the messages to the providers, the limits of the
tools, the provider choice with its menu, and the evaluation, the latter as the composition of
injectors and engine.

Left:

1. `MetricsServer`: `ensure_started` from several starting points and processes.
2. `Sanitize`: recursion over nested values with truncation, checked against a reference
   definition over bounded values (TLC only, it is recursive).
