------------------------------ MODULE ChatRun ------------------------------
(***************************************************************************)
(* One POST /v1/chat (agent/app/main.py, chat), from the safety check to   *)
(* the answer, with its row of market.agent_run_log, composed with the     *)
(* execution of its plan (PlanExecutor).                                   *)
(*                                                                         *)
(* plan is the plan the request will execute, chosen in the initial state: *)
(* planning then only decides which planner it came from, and a fallback   *)
(* can only have produced a rule-based plan.                               *)
(*                                                                         *)
(* The handler of a resumed request is modelled as chat uses it: the       *)
(* lookup of the old run either refuses the request or supplies a plan,    *)
(* of which the executor then runs what was not completed.                 *)
(***************************************************************************)
EXTENDS Integers, Sequences

CONSTANTS
  Plans,         \* every plan a planner or an old run may supply
  RulePlans,     \* those build_rule_based_plan returns: chains of tools
  MaxTokens,     \* MAX_TOKENS_PER_RUN
  Counts         \* the token counts a provider may report

VARIABLES
  plan, pc, reason, unresolved, batch, results, task, row, dbErr,

  phase,         \* where the handler of the request is
  resume,        \* the request asks to resume an old run
  injected,      \* assess_user_query matched an injection rule
  fallback,      \* plan_result.fallback_reason
  tokens,        \* planner_token_count
  outTokens,     \* llm_output_tokens
  runRow,        \* status of the row in agent_run_log
  planSaved,     \* the row has its plan_json
  flagged,       \* the row has its safety_flag
  error,         \* what went wrong
  answer,        \* the HTTP status, once sent
  runErr         \* a call on agent_run_log has raised (history)

execVars == <<plan, pc, reason, unresolved, batch, results, task, row, dbErr>>
input    == <<resume, injected>>
llmVars  == <<fallback, tokens, outTokens>>
rowVars  == <<runRow, planSaved, flagged, runErr>>
ending   == <<error, answer>>

vars == <<execVars, phase, input, llmVars, rowVars, ending>>

Exec == INSTANCE PlanExecutor

ASSUME ChatAssumption ==
  /\ Plans \subseteq Seq(Exec!Step) /\ RulePlans \subseteq Plans
  /\ MaxTokens \in Nat
  /\ Counts \subseteq Nat

TypeOK ==
  /\ Exec!TypeOK
  /\ phase \in {"start", "planning", "planned", "saving", "executing",
                "summarizing", "finishing", "failing", "answered", "crashed"}
  /\ {resume, injected, planSaved, flagged, runErr} \subseteq BOOLEAN
  /\ fallback \in {"none", "token_count_failed", "token_budget_exceeded",
                   "llm_plan_failed"}
  /\ tokens \in Counts \cup {0} /\ outTokens \in Counts \cup {0}
  /\ runRow \in {"none", "running", "success", "failed"}
  /\ error \in {"none", "request", "run_log", "plan", "summary", "budget"}
  /\ answer \in {"none", "200", "4xx", "500"}

Init ==
  /\ Exec!Init
  /\ phase = "start"
  /\ resume \in BOOLEAN /\ injected \in BOOLEAN
  /\ plan = <<>> => resume        \* no planner returns an empty plan
  /\ fallback = "none" /\ tokens = 0 /\ outTokens = 0
  /\ runRow = "none" /\ planSaved = FALSE /\ flagged = FALSE /\ runErr = FALSE
  /\ error = "none" /\ answer = "none"

-----------------------------------------------------------------------------
(* Before the plan runs *)

Go(from, to) == phase = from /\ phase' = to

\* A database call on the run's row raises.  Its statement may have committed
\* or not: the column then has its new value or its old one.
RowCallFails == runErr' = TRUE

\* _resolve_resume_context refuses: nothing has been logged yet.
RefuseResume ==
  /\ resume
  /\ Go("start", "answered")
  /\ error' = "request"
  /\ answer' \in {"4xx", "500"}
  /\ UNCHANGED <<execVars, input, llmVars, rowVars>>

CreateRunLog ==
  /\ Go("start", IF resume THEN "planned" ELSE "planning")
  /\ runRow' = "running"
  /\ UNCHANGED <<execVars, input, llmVars, planSaved, flagged, runErr, ending>>

\* run_log_created is still False: the handler does not log the failure, even
\* if the insert has committed.
CreateRunLogFails ==
  /\ Go("start", "answered")
  /\ RowCallFails /\ runRow' \in {runRow, "running"}
  /\ error' = "run_log" /\ answer' = "500"
  /\ UNCHANGED <<execVars, input, llmVars, planSaved, flagged>>

Planned(why, count) ==
  /\ Go("planning", "planned")
  /\ fallback' = why /\ tokens' = count
  /\ why # "none" => plan \in RulePlans
  /\ UNCHANGED <<execVars, input, outTokens, rowVars, ending>>

\* build_plan with a provider: it falls back to the rules when the provider
\* cannot count, when the query is over the budget, and when the provider's
\* plan cannot be had, is empty or names an unknown tool.
CountFails == Planned("token_count_failed", 0)

OverBudget(count) ==
  count > MaxTokens /\ Planned("token_budget_exceeded", count)

LlmPlans(count) == count <= MaxTokens /\ plan # <<>> /\ Planned("none", count)

LlmPlanFails(count) == count <= MaxTokens /\ Planned("llm_plan_failed", count)

\* update_run_log_safety_flag when the query matched; its failure is only
\* logged.
FlagQuery ==
  /\ Go("planned", "saving")
  /\ \/ ~injected /\ UNCHANGED <<flagged, runErr>>
     \/ injected /\ flagged' = TRUE /\ UNCHANGED runErr
     \/ injected /\ RowCallFails /\ flagged' \in {flagged, TRUE}
  /\ UNCHANGED <<execVars, input, llmVars, runRow, planSaved, ending>>

SavePlan ==
  /\ Go("saving", "executing")
  /\ planSaved' = TRUE
  /\ UNCHANGED <<execVars, input, llmVars, runRow, flagged, runErr, ending>>

\* Any exception once the row exists: the failed update comes next.
Fail(from, why) == Go(from, "failing") /\ error' = why /\ UNCHANGED answer

SavePlanFails ==
  /\ Fail("saving", "run_log")
  /\ RowCallFails /\ planSaved' \in {planSaved, TRUE}
  /\ UNCHANGED <<execVars, input, llmVars, runRow, flagged>>

-----------------------------------------------------------------------------
(* The plan runs, and the answer is written *)

\* The tasks of the steps run on whatever the handler does meanwhile; only
\* execute_plan itself is awaited.
ExecuteStep ==
  /\ phase # "crashed"
  /\ \/ phase = "executing" /\ Exec!PlanStep
     \/ \E s \in Exec!Steps : Exec!TaskStep(s)
  /\ UNCHANGED <<phase, input, llmVars, rowVars, ending>>

\* execute_plan returns; synthesize_response builds the template answer.
PlanReturns ==
  /\ pc = "success" /\ Go("executing", "summarizing")
  /\ UNCHANGED <<execVars, input, llmVars, rowVars, ending>>

\* Mutant: only the failure of a step is handled.
StepErrorOnly ==
  /\ pc = "error" /\ reason = "step" /\ Fail("executing", "plan")
  /\ UNCHANGED <<execVars, input, llmVars, rowVars>>

PlanRaises ==
  /\ pc = "error" /\ Fail("executing", "plan")
  /\ UNCHANGED <<execVars, input, llmVars, rowVars>>

\* Mutant: the budget is compared with the planner's tokens alone.
CheckPlannerBudget(out) ==
  IF tokens <= MaxTokens
  THEN Go("summarizing", "finishing") /\ UNCHANGED ending
  ELSE Fail("summarizing", "budget")

\* within_token_budget, right after the summary.
CheckBudget(out) ==
  IF tokens + out <= MaxTokens
  THEN Go("summarizing", "finishing") /\ UNCHANGED ending
  ELSE Fail("summarizing", "budget")

\* Both calls of the try succeed.
Summarize(out) ==
  /\ outTokens' = out
  /\ CheckBudget(out)
  /\ UNCHANGED <<execVars, input, fallback, tokens, rowVars>>

\* summarize, or count_tokens after it, raises an exception the handler expects:
\* the answer is the template, or the text whose tokens are then not counted.
SummarizeFails ==
  /\ CheckBudget(0)
  /\ UNCHANGED <<execVars, input, llmVars, rowVars>>

\* An exception the handler does not list: the whole request fails.
SummarizeRaises ==
  /\ Fail("summarizing", "summary")
  /\ UNCHANGED <<execVars, input, llmVars, rowVars>>

-----------------------------------------------------------------------------
(* The run's row is closed, and the answer sent *)

Answer(from, status) ==
  Go(from, "answered") /\ answer' = status /\ UNCHANGED error

LogSuccess ==
  /\ Answer("finishing", "200")
  /\ runRow' = "success"
  /\ UNCHANGED <<execVars, input, llmVars, planSaved, flagged, runErr>>

LogSuccessFails ==
  /\ Fail("finishing", "run_log")
  /\ RowCallFails /\ runRow' \in {runRow, "success"}
  /\ UNCHANGED <<execVars, input, llmVars, planSaved, flagged>>

\* Mutant: an exception is answered without closing the row.
AnswerOnly ==
  /\ Answer("failing", "500")
  /\ UNCHANGED <<execVars, input, llmVars, rowVars>>

LogFailure ==
  /\ Answer("failing", "500")
  /\ runRow' = "failed"
  /\ UNCHANGED <<execVars, input, llmVars, planSaved, flagged, runErr>>

\* The exception of the except branch itself: still a 500.
LogFailureFails ==
  /\ Answer("failing", "500")
  /\ RowCallFails /\ runRow' \in {runRow, "failed"}
  /\ UNCHANGED <<execVars, input, llmVars, planSaved, flagged>>

Over == phase \in {"answered", "crashed"}

Crash ==
  /\ ~Over
  /\ phase' = "crashed"
  /\ Exec!Crash \/ (Exec!Ended /\ UNCHANGED execVars)
  /\ UNCHANGED <<input, llmVars, rowVars, ending>>

Progress ==
  \/ RefuseResume \/ CreateRunLog \/ CreateRunLogFails
  \/ CountFails
  \/ \E n \in Counts : OverBudget(n) \/ LlmPlans(n) \/ LlmPlanFails(n)
  \/ FlagQuery \/ SavePlan \/ SavePlanFails
  \/ ExecuteStep \/ PlanReturns \/ PlanRaises
  \/ \E n \in Counts : Summarize(n)
  \/ SummarizeFails \/ SummarizeRaises
  \/ LogSuccess \/ LogSuccessFails \/ LogFailure \/ LogFailureFails

Next == Progress \/ Crash

Spec == Init /\ [][Next]_vars

\* Every await of the handler is a call with a timeout.
FairSpec == Spec /\ WF_vars(Progress)

-----------------------------------------------------------------------------
(* What must hold *)

\* A 200 is sent only for a run whose row is closed as a success with its plan
\* saved, whose plan has run completely with every step logged as a success,
\* and whose tokens are within the budget.
SuccessIsLogged ==
  answer = "200" =>
    /\ runRow = "success" /\ planSaved
    /\ pc = "success" /\ \A s \in DOMAIN row : row[s] = "success"
    /\ tokens + outTokens <= MaxTokens
    /\ injected => flagged \/ runErr

\* Once the answer is sent, the row of the run is closed the way the answer
\* says, unless a call on agent_run_log has raised: only then can a row stay
\* "running", or say "success" for a request that got a 500.
RowTellsAnswer ==
  phase = "answered" /\ ~runErr =>
    runRow = IF answer = "200" THEN "success"
             ELSE IF error = "request" THEN "none" ELSE "failed"

\* A request that has fallen back to the rules is never refused by the executor:
\* when its plan fails, a tool or a call on its log has failed.  The fallback is
\* there for whatever the provider may do and must not fail on its own.
FallbackRuns ==
  fallback # "none" /\ error = "plan" => reason = "step"

\* No tool is in flight, and no row of the run's tools changes, once the handler
\* has left execute_plan, also when a step has failed: the other tasks of its
\* batch are awaited first.
ToolsAreOver ==
  [][(phase \in {"summarizing", "finishing", "failing", "answered"})
       => task' = task /\ row' = row]_vars

\* Every request is answered, unless the process is killed.
Answered == <>Over
=============================================================================
