------------------------------ MODULE EvalRun ------------------------------
(***************************************************************************)
(* The evaluation (eval/runner.py, eval/scorer.py) on top of the failures  *)
(* of ChaosDemo: the runner injects one failure after the other, lets the  *)
(* rule engine look at the database, scores what it found and exits with   *)
(* the mean.  Demos of the web backend run beside it on the same database. *)
(* With --live any model takes the place of the engine, of which nothing   *)
(* could be said: not modelled.                                            *)
(*                                                                         *)
(* What the engine finds is what the queries of its tools select from      *)
(* pg_stat_activity and pg_stat_statements at that moment, whoever caused  *)
(* it; a tool may also be refused or fail, and then shows nothing.  The    *)
(* other demos use any model, whose answer nobody scores.                  *)
(***************************************************************************)
EXTENDS ChaosDemo

CONSTANTS
  Plan,       \* the runs of the evaluation, in order: keys times --runs
  IdleAlarm,  \* sessions idle in transaction that the engine calls a leak
  Past        \* stands for statements that ended before a run began

Planned == {Plan[i] : i \in 1..Len(Plan)}

ASSUME PlanAssumption ==
  /\ Plan \in Seq(Demos) /\ Cardinality(Planned) = Len(Plan)
  /\ IdleAlarm \in 1..IdleSessions
  /\ IsFiniteSet(Demos)
  /\ Past \notin Demos \X Nat /\ None \notin {"ok", "failed", "raised"}

Playbook == <<"idle", "slow", "lock">>   \* the tools that have a rule

Kind(d) == IF d \in SlowDemos THEN "slow" ELSE IF d \in LockDemos THEN "lock" ELSE "idle"

VARIABLES
  scores,  \* all_scores: for each finished run its hits, and whether it named its failure
  looks,   \* tools the engine of the current run has used
  credit,  \* the sessions, and Past, by which it has found its failure
  others,  \* whether it has found anything else
  settled, \* history: the failure was there for long enough, and no tool has failed
  slowly,  \* whether pg_stat_statements has a slow statement
  exit     \* how main() ended

engine == <<looks, credit, others, settled>>
evalVars == <<scores, engine, slowly, exit>>
allVars == <<vars, evalVars>>

EvalInit ==
  /\ Init
  /\ scores = << >>
  /\ looks = 0
  /\ credit = {}
  /\ others = FALSE
  /\ settled = FALSE
  /\ slowly \in BOOLEAN
  /\ exit = None

-----------------------------------------------------------------------------
(* What the queries see.                                                   *)

Blocked(x) == worker[x] = "connected" /\ x \in Contenders /\ row # None
Open(x) == worker[x] \in {"holding", "finished"}

(* state <> 'idle': sessions at work, and those idle in a transaction.     *)
NotIdle(x) == worker[x] = "sleeping" \/ Blocked(x) \/ Open(x)

Selected(kind) ==
  {x \in Workers : \/ kind = "idle" /\ Open(x)
                   \/ kind = "slow" /\ NotIdle(x)
                   \/ kind = "lock" /\ Blocked(x)}

SessionsOf(d) == {d} \X Threads(d)

(* The failure of d is in place.                                           *)
InPlace(d) ==
  \A i \in Threads(d) :
    LET x == <<d, i>>
    IN  IF x \in Waiters THEN Blocked(x) ELSE worker[x] \in {"sleeping", "holding"}

Alarming(n) == n >= IdleAlarm

\* Mutant: pg_stat_statements is not asked.
AnswersNow(d, kind) ==
  LET seen == Selected(kind)
  IN  IF kind = "idle"
      THEN {IF Alarming(Cardinality(seen)) THEN seen ELSE {}}
      ELSE {S \in SUBSET seen : settled => seen \cap SessionsOf(d) \subseteq S}

(* What the tool for a kind of failure may answer to the run d: sessions,  *)
(* and statements of the past.  The alarm of the idle rule rests on all    *)
(* the sessions it counts.  Sessions younger than half a second are not    *)
(* slow yet, and a statement that is still on its way is not blocked; both *)
(* are over for the sessions of d when its failure has settled.            *)
Answers(d, kind) ==
  LET seen == Selected(kind)
      past == IF kind = "slow" /\ slowly THEN {Past} ELSE {}
  IN  IF kind = "idle"
      THEN {IF Alarming(Cardinality(seen)) THEN seen ELSE {}}
      ELSE {past \cup S : S \in {T \in SUBSET seen :
                                  settled => seen \cap SessionsOf(d) \subseteq T}}

-----------------------------------------------------------------------------
(* The runner.                                                             *)

(* The next run, once the one before has been stopped.                     *)
Begin(i) ==
  /\ exit = None
  /\ i = Len(scores) + 1
  /\ i > 1 => pc[Plan[i - 1]] = "answered"
  /\ Request(Plan[i])
  /\ UNCHANGED evalVars

(* sleep(1.0) is over.  It is meant to give the failure time: to be there, *)
(* and for half a second.                                                  *)
Wake(d) ==
  /\ pc[d] = "agent" /\ looks = 0
  /\ looks' = 1
  /\ settled' \in {FALSE, InPlace(d)}
  /\ UNCHANGED <<vars, scores, credit, others, slowly, exit>>

(* One tool of the playbook, answered or not.                              *)
Look(d) ==
  /\ pc[d] = "agent" /\ looks \in 1..Len(Playbook)
  /\ looks' = looks + 1
  /\ LET kind == Playbook[looks]
     IN  \/ \E shown \in Answers(d, kind) :
              /\ credit' = IF kind = Kind(d) THEN shown ELSE credit
              /\ others' = (others \/ (kind # Kind(d) /\ shown # {}))
              /\ UNCHANGED settled
         \/ /\ settled' = FALSE
            /\ UNCHANGED <<credit, others>>
  /\ UNCHANGED <<vars, scores, slowly, exit>>

\* Mutant: one keyword is enough for the full score.
HitsAny(d) ==
  IF credit # {} THEN (IF Kind(d) = "idle" THEN 2 ELSE 3)
  ELSE IF others THEN 0 ELSE 3

(* score_diagnosis(): of three keywords a finding of the right kind has    *)
(* all - two for idle sessions -, the all-clear has one for each scenario, *)
(* a finding of another kind has none.                                     *)
Hits(d) ==
  IF credit # {} THEN (IF Kind(d) = "idle" THEN 2 ELSE 3)
  ELSE IF others THEN 0 ELSE 1

(* The engine answers, the run is scored, and stop() is called.            *)
Conclude(d) ==
  /\ looks = Len(Playbook) + 1
  /\ AgentEnds(d)
  /\ scores' = Append(scores, [hits |-> Hits(d), named |-> credit # {}])
  /\ looks' = 0
  /\ credit' = {}
  /\ others' = FALSE
  /\ settled' = FALSE
  /\ UNCHANGED <<slowly, exit>>

(* The mean of all scores decides.  With --runs 0 there is no mean, and    *)
(* main() raises as it does when a run has raised.                         *)
Summary ==
  LET With(hits) == Cardinality({i \in 1..Len(scores) : scores[i].hits = hits})
      total == With(1) + 2 * With(2) + 3 * With(3)
  IN  IF Len(scores) < Len(Plan) \/ Plan = << >> THEN "raised"
      ELSE IF 2 * total >= 3 * Len(Plan) THEN "ok" ELSE "failed"

Summarise ==
  /\ exit = None
  /\ \/ Len(scores) = Len(Plan) /\ (Plan # << >> => pc[Plan[Len(Plan)]] = "answered")
     \/ \E d \in Planned : pc[d] = "failed"
  /\ exit' = Summary
  /\ UNCHANGED <<vars, scores, engine, slowly>>

(* A statement that has ended is in pg_stat_statements: pg_sleep is slow,  *)
(* an UPDATE that had to wait may be.                                      *)
Recorded(x) ==
  slowly' \in (IF worker[x] = "sleeping" /\ worker'[x] = "finished" THEN {TRUE}
               ELSE IF x \in Contenders /\ worker[x] = "connected" /\ worker'[x] # "connected"
               THEN {slowly, TRUE} ELSE {slowly})

Session(x) ==
  /\ Work(x) /\ Recorded(x)
  /\ UNCHANGED <<scores, engine, exit>>

EvalNext ==
  \/ \E i \in 1..Len(Plan) : Begin(i)
  \/ \E d \in Planned : Wake(d) \/ Look(d) \/ Conclude(d)
  \/ \E d \in Planned : (Spawn(d) \/ Join(d)) /\ UNCHANGED evalVars
  \/ Summarise
  \/ \E d \in Demos \ Planned : (Request(d) \/ Serve(d)) /\ UNCHANGED evalVars
  \/ \E d \in Demos : SpawnFails(d) /\ UNCHANGED evalVars
  \/ \E x \in Workers : Session(x)

EvalSpec == EvalInit /\ [][EvalNext]_allVars

-----------------------------------------------------------------------------
EvalTypeOK ==
  /\ TypeOK
  /\ scores \in Seq([hits : 0..3, named : BOOLEAN]) /\ Len(scores) <= Len(Plan)
  /\ looks \in 0..(Len(Playbook) + 1)
  /\ credit \subseteq Workers \cup {Past}
  /\ others \in BOOLEAN
  /\ settled \in BOOLEAN
  /\ slowly \in BOOLEAN
  /\ exit \in {None, "ok", "failed", "raised"}

(* The right root cause is named: once the failure is in place and no tool *)
(* fails, the run passes (Score.passed), although sessions of other demos  *)
(* come and go and pg_sleep may be over before the engine looks.           *)
DetectedStep ==
  scores' # scores /\ settled => 2 * scores'[Len(scores')].hits >= 3
Detected == [][DetectedStep]_allVars

(* And it is named for the right reason.  A run whose failure had settled  *)
(* is credited for every session of its own that shows the failure, the    *)
(* waiter of the lock or all the idle ones.  As long as the evaluation has *)
(* the database for itself, a lock is named on the strength of no other    *)
(* session, and an alarm of idle sessions counts, beside its own, only     *)
(* sleepers which earlier slow runs gave up on: those stop() cannot end,   *)
(* and enough of them can make an alarm by themselves.                     *)
Telling(d) ==
  IF d \in SlowDemos THEN {} ELSE {x \in SessionsOf(d) : x \in Contenders => x \in Waiters}

Sleepers(n) == {x \in Workers : \E i \in 1..n : x[1] = Plan[i] /\ x[1] \in SlowDemos}

OwnCreditStep ==
  LET n == Len(scores')
      alone == \A e \in Demos \ Planned : pc[e] = "idle"
  IN  scores' # scores =>
        /\ settled => Telling(Plan[n]) \subseteq credit
        /\ alone /\ Plan[n] \in LockDemos => credit \subseteq SessionsOf(Plan[n])
        /\ alone /\ Plan[n] \in IdleDemos =>
             credit \subseteq SessionsOf(Plan[n]) \cup Sleepers(n - 1)
OwnCredit == [][OwnCreditStep]_allVars

(* README.md:328-329, exits non-zero when the overall mean is below 0.5.   *)
(* What an exit says of the runs: success means that one in four named its *)
(* failure - no more, since the all-clear scores too -, and failure that   *)
(* one in four did not.                                                    *)
ExitHonest ==
  LET named == Cardinality({i \in 1..Len(scores) : scores[i].named})
  IN  /\ exit = "ok" => 4 * named >= Len(Plan)
      /\ exit = "failed" => 4 * named < 3 * Len(Plan)
=============================================================================
