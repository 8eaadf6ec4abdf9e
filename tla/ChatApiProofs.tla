--------------------------- MODULE ChatApiProofs ---------------------------
(***************************************************************************)
(* The API of the agent.  What a chat request is answered agrees with its  *)
(* row and with the rows of its tools, for every set of plans, budget and  *)
(* token counts; the lemmas of PlanExecutorProofs are used for the         *)
(* execution of the plan.  The token bucket in front of it keeps its       *)
(* bounds for every rate, clock and set of keys.                           *)
(***************************************************************************)
EXTENDS MCChatRun, RateLimiter, WellFoundedInduction, TLAPS

Executor == INSTANCE PlanExecutorProofs

LEMMA PlansOK == Executor!PlansAssumption
  BY ChatAssumption DEF Executor!PlansAssumption, Exec!Step, Executor!Step

-----------------------------------------------------------------------------
(* The executor of ChatRun is the one of PlanExecutorProofs.               *)

LEMMA SameState ==
  /\ Exec!vars = Executor!vars /\ Exec!vars = execVars
  /\ Exec!Steps = Executor!Steps
  /\ Exec!Ended <=> Executor!Ended
  /\ Exec!Init <=> Executor!Init
  /\ Exec!TypeOK <=> Executor!TypeOK
  BY DEF Exec!vars, Executor!vars, execVars, Exec!Steps, Executor!Steps, Exec!Indexes,
         Executor!Indexes, Exec!Ended, Executor!Ended, Exec!Init, Executor!Init,
         Exec!TypeOK, Executor!TypeOK, Exec!TaskState, Executor!TaskState,
         Exec!RowState, Executor!RowState

LEMMA SamePlanStep == Exec!PlanStep <=> Executor!PlanStep
  BY DEF Exec!PlanStep, Executor!PlanStep,
         Exec!RefuseDuplicate, Executor!RefuseDuplicate, Exec!RunEmptyPlan, Executor!RunEmptyPlan,
         Exec!RefuseDependency, Executor!RefuseDependency, Exec!RefuseCycle, Executor!RefuseCycle,
         Exec!LaunchFirstBatch, Executor!LaunchFirstBatch, Exec!RaiseStepError,
         Executor!RaiseStepError, Exec!LaunchNextBatch, Executor!LaunchNextBatch,
         Exec!FinishPlan, Executor!FinishPlan, Exec!CollectBatch, Executor!CollectBatch,
         Exec!Released, Executor!Released, Exec!Remaining, Executor!Remaining,
         Exec!Dependents, Executor!Dependents, Exec!BatchSettled, Executor!BatchSettled,
         Exec!BatchFailed, Executor!BatchFailed, Exec!Settled, Executor!Settled,
         Exec!Launch, Executor!Launch, Exec!End, Executor!End, Exec!Completed, Executor!Completed,
         Exec!Steps, Executor!Steps, Exec!Indexes, Executor!Indexes, Exec!Deps, Executor!Deps,
         Exec!StepOf, Executor!StepOf, Exec!WellFormed, Executor!WellFormed,
         Exec!HasDuplicate, Executor!HasDuplicate, Exec!HasBadDependency, Executor!HasBadDependency

LEMMA SameTaskStep == \A s : Exec!TaskStep(s) <=> Executor!TaskStep(s)
  BY DEF Exec!TaskStep, Executor!TaskStep, Exec!OpenLog, Executor!OpenLog,
         Exec!OpenLogFails, Executor!OpenLogFails, Exec!StartHandler, Executor!StartHandler,
         Exec!RefuseTool, Executor!RefuseTool, Exec!HandlerSucceeds, Executor!HandlerSucceeds,
         Exec!HandlerFails, Executor!HandlerFails, Exec!LogSuccess, Executor!LogSuccess,
         Exec!LogSuccessFails, Executor!LogSuccessFails, Exec!LogFailure, Executor!LogFailure,
         Exec!LogFailureFails, Executor!LogFailureFails, Exec!Move, Executor!Move,
         Exec!SetRow, Executor!SetRow, Exec!DbFails, Executor!DbFails,
         Exec!StepOf, Executor!StepOf

LEMMA SameCrash == Exec!Crash <=> Executor!Crash
  BY DEF Exec!Crash, Executor!Crash, Exec!Ended, Executor!Ended

LEMMA SameNext ==
  Exec!Next <=> Executor!Next
  BY SameState, SamePlanStep, SameTaskStep, SameCrash
     DEF Exec!Next, Executor!Next, Exec!Progress, Executor!Progress
\* What of the executor's invariant a request needs: the tasks of a plan that has
\* not started do not exist, those of a plan that has ended have settled.
ExecInv == Executor!IInv

LEMMA ExecInit == Exec!Init => ExecInv
  BY PlansOK, SameState, Executor!InitIInv DEF ExecInv

LEMMA ExecNext == ExecInv /\ [Exec!Next]_Exec!vars => ExecInv'
<1>1. (UNCHANGED Exec!vars) <=> (UNCHANGED Executor!vars)
  BY DEF Exec!vars, Executor!vars
<1>2. Executor!IInv /\ [Executor!Next]_(Executor!vars) => Executor!IInv'
  BY PlansOK, Executor!NextKeeps
<1> QED
  BY <1>1, <1>2, SameNext DEF ExecInv

LEMMA ExecFacts ==
  ASSUME ExecInv
  PROVE  /\ Exec!TypeOK
         /\ pc # "gather" => \A s \in Exec!Steps : ~Exec!TaskStep(s)
         /\ pc = "success" => \A s \in DOMAIN row : row[s] = "success"
<1>1. Exec!TypeOK
  BY SameState DEF ExecInv, Executor!IInv
<1>2. DOMAIN row = Exec!Steps /\ DOMAIN task = Exec!Steps
  BY <1>1 DEF Exec!TypeOK
<1>3. ASSUME pc # "gather", NEW s \in Exec!Steps, Exec!TaskStep(s) PROVE FALSE
  <2>1. pc # "crashed" /\ task[s] \in {"created", "opened", "handling", "returned", "raised"}
    BY <1>3 DEF Exec!TaskStep, Exec!OpenLog, Exec!OpenLogFails, Exec!StartHandler,
                Exec!RefuseTool, Exec!HandlerSucceeds, Exec!HandlerFails, Exec!LogSuccess,
                Exec!LogSuccessFails, Exec!LogFailure, Exec!LogFailureFails, Exec!Move
  <2>2. s \in Executor!Started
    BY <1>3, <2>1, SameState DEF Executor!Started
  <2>3. pc \in {"init", "success", "error"}
    BY <1>1, <1>3, <2>1 DEF Exec!TypeOK
  <2>4. pc \in {"success", "error"} => Executor!Settled(s)
    BY <2>2 DEF ExecInv, Executor!IInv, Executor!Outcome
  <2> QED
    BY <2>1, <2>2, <2>3, <2>4
       DEF ExecInv, Executor!IInv, Executor!Fresh, Executor!Settled
<1>4. ASSUME pc = "success", NEW s \in Exec!Steps PROVE row[s] = "success"
  <2>1. Executor!Completed = Executor!Steps /\ s \in Executor!Steps
    BY <1>4, SameState DEF ExecInv, Executor!IInv, Executor!Outcome
  <2>2. task[s] = "ok"
    BY <2>1 DEF ExecInv, Executor!IInv, Executor!Bookkeeping
  <2> QED
    BY <2>1, <2>2 DEF ExecInv, Executor!IInv, Executor!RowFollowsTask
<1> QED
  BY <1>1, <1>2, <1>3, <1>4

-----------------------------------------------------------------------------
(* The inductive invariant.                                                *)

Types ==
  /\ phase \in {"start", "planning", "planned", "saving", "executing",
                "summarizing", "finishing", "failing", "answered", "crashed"}
  /\ {resume, injected, planSaved, flagged, runErr} \subseteq BOOLEAN
  /\ fallback \in {"none", "token_count_failed", "token_budget_exceeded",
                   "llm_plan_failed"}
  /\ tokens \in Counts \cup {0} /\ outTokens \in Counts \cup {0}
  /\ runRow \in {"none", "running", "success", "failed"}
  /\ error \in {"none", "request", "run_log", "plan", "summary", "budget"}
  /\ answer \in {"none", "200", "4xx", "500"}

\* The plan runs in one phase only.
PlanInPhase ==
  /\ phase \in {"start", "planning", "planned", "saving"} => pc = "init"
  /\ phase \in {"summarizing", "finishing"} => pc = "success"
  /\ phase \in {"failing", "answered"} => pc # "gather"

\* The row is open from its creation to the answer, and has the plan and the flag
\* before the plan runs.
RowInPhase ==
  /\ phase = "start" => runRow = "none"
  /\ phase \notin {"answered", "crashed"} => error # "request"
  /\ phase \in {"start", "planning", "planned", "saving", "executing"} => error = "none"
  /\ phase # "answered" => answer = "none"
  /\ phase \notin {"start", "answered", "crashed"} /\ ~runErr => runRow = "running"
  /\ phase \in {"executing", "summarizing", "finishing"} => planSaved
  /\ phase \in {"saving", "executing", "summarizing", "finishing"} /\ injected =>
       flagged \/ runErr

\* The tokens of the summary are counted last, and the budget is checked then.
TokensInPhase ==
  /\ phase \in {"start", "planning", "planned", "saving", "executing", "summarizing"} =>
       outTokens = 0
  /\ phase = "finishing" => tokens + outTokens <= MaxTokens

\* What an answer says of its own row.
AnswerIsTrue ==
  answer = "200" =>
    /\ pc = "success" /\ runRow = "success" /\ planSaved
    /\ tokens + outTokens <= MaxTokens
    /\ injected => flagged \/ runErr

Request ==
  /\ Types /\ PlanInPhase /\ RowInPhase /\ TokensInPhase
  /\ AnswerIsTrue /\ RowTellsAnswer

IInv == ExecInv /\ Request

-----------------------------------------------------------------------------
LEMMA InitIInv == Init => IInv
<1> SUFFICES ASSUME Init PROVE IInv
  OBVIOUS
<1>1. ExecInv /\ pc = "init"
  BY ExecInit DEF Init, Exec!Init
<1>2. Types
  BY ChatAssumption DEF Init, Types
<1>3. PlanInPhase /\ RowInPhase /\ TokensInPhase /\ AnswerIsTrue /\ RowTellsAnswer
  BY <1>1 DEF Init, PlanInPhase, RowInPhase, TokensInPhase, AnswerIsTrue, RowTellsAnswer
<1> QED
  BY <1>1, <1>2, <1>3 DEF IInv, Request

BeforePlan ==
  \/ RefuseResume \/ CreateRunLog \/ CreateRunLogFails
  \/ CountFails
  \/ \E n \in Counts : OverBudget(n) \/ LlmPlans(n) \/ LlmPlanFails(n)
  \/ FlagQuery \/ SavePlan \/ SavePlanFails

AfterPlan ==
  \/ PlanReturns \/ PlanRaises
  \/ \E n \in Counts : Summarize(n)
  \/ SummarizeFails \/ SummarizeRaises
  \/ LogSuccess \/ LogSuccessFails \/ LogFailure \/ LogFailureFails

\* The steps of the handler itself leave the executor alone.
LEMMA HandlerOnly == BeforePlan \/ AfterPlan => UNCHANGED execVars
  BY DEF BeforePlan, AfterPlan, RefuseResume, CreateRunLog, CreateRunLogFails, CountFails,
         OverBudget, LlmPlans, LlmPlanFails, Planned, FlagQuery, SavePlan, SavePlanFails,
         PlanReturns, PlanRaises, Summarize, SummarizeFails, SummarizeRaises, LogSuccess,
         LogSuccessFails, LogFailure, LogFailureFails

LEMMA BeforePlanKeeps == ASSUME Request, BeforePlan PROVE Request'
<1>1. pc' = pc
  BY HandlerOnly DEF execVars
<1> USE <1>1, ChatAssumption
    DEF Request, Types, PlanInPhase, RowInPhase, TokensInPhase, AnswerIsTrue, RowTellsAnswer,
        Go, Fail, RowCallFails, input, llmVars, rowVars, ending
<1>2. CASE RefuseResume \/ CreateRunLog \/ CreateRunLogFails
  BY <1>2 DEF RefuseResume, CreateRunLog, CreateRunLogFails
<1>3. CASE CountFails \/ \E n \in Counts : OverBudget(n) \/ LlmPlans(n) \/ LlmPlanFails(n)
  BY <1>3 DEF CountFails, OverBudget, LlmPlans, LlmPlanFails, Planned
<1>4. CASE FlagQuery
  BY <1>4 DEF FlagQuery
<1>5. CASE SavePlan
  BY <1>5 DEF SavePlan
<1>6. CASE SavePlanFails
  BY <1>6 DEF SavePlanFails
<1> QED
  BY <1>2, <1>3, <1>4, <1>5, <1>6 DEF BeforePlan

LEMMA AfterPlanKeeps == ASSUME Request, AfterPlan PROVE Request'
<1>1. pc' = pc
  BY HandlerOnly DEF execVars
<1> USE <1>1, ChatAssumption
    DEF Request, Types, PlanInPhase, RowInPhase, TokensInPhase, AnswerIsTrue, RowTellsAnswer,
        Go, Fail, Answer, RowCallFails, CheckBudget, input, llmVars, rowVars, ending
<1>2. CASE PlanReturns \/ PlanRaises
  BY <1>2 DEF PlanReturns, PlanRaises
<1>3. CASE \/ SummarizeFails \/ SummarizeRaises \/ \E n \in Counts : Summarize(n)
  BY <1>3 DEF SummarizeFails, SummarizeRaises, Summarize
<1>4. CASE LogSuccess
  BY <1>4 DEF LogSuccess
<1>5. CASE LogSuccessFails
  BY <1>5 DEF LogSuccessFails
<1>6. CASE LogFailure
  BY <1>6 DEF LogFailure
<1>7. CASE LogFailureFails
  BY <1>7 DEF LogFailureFails
<1> QED
  BY <1>2, <1>3, <1>4, <1>5, <1>6, <1>7 DEF AfterPlan

\* A step of the executor happens in the phase "executing" only.
LEMMA ExecuteKeeps == ASSUME IInv, ExecuteStep PROVE Request' /\ phase = "executing"
<1>1. /\ UNCHANGED <<phase, input, llmVars, rowVars, ending>>
      /\ \/ phase = "executing"
         \/ phase # "crashed" /\ \E s \in Exec!Steps : Exec!TaskStep(s)
  BY DEF ExecuteStep
<1>2. (\E s \in Exec!Steps : Exec!TaskStep(s)) => pc = "gather"
  BY ExecFacts DEF IInv
<1>3. phase = "executing"
  BY <1>1, <1>2 DEF IInv, Request, Types, PlanInPhase
<1>4. answer = "none" /\ answer' = "none" /\ phase' = "executing"
  BY <1>1, <1>3 DEF IInv, Request, RowInPhase, ending
<1> QED
  BY <1>1, <1>3, <1>4
     DEF IInv, Request, Types, PlanInPhase, RowInPhase, TokensInPhase, AnswerIsTrue,
         RowTellsAnswer, input, llmVars, rowVars, ending

LEMMA CrashKeeps == ASSUME Request, Crash PROVE Request'
<1>1. /\ phase # "answered" /\ phase' = "crashed"
      /\ UNCHANGED <<input, llmVars, rowVars, ending>>
  BY DEF Crash, Over
<1>2. answer = "none" /\ answer' = "none"
  BY <1>1 DEF Request, RowInPhase, ending
<1> QED
  BY <1>1, <1>2
     DEF Request, Types, PlanInPhase, RowInPhase, TokensInPhase, AnswerIsTrue,
         RowTellsAnswer, input, llmVars, rowVars, ending

LEMMA NextCases == Next <=> BeforePlan \/ AfterPlan \/ ExecuteStep \/ Crash
  BY DEF Next, Progress, BeforePlan, AfterPlan

\* Every step of the request is a step of the executor or leaves it alone.
LEMMA StepIsExecutors == [Next]_vars => [Exec!Next]_Exec!vars
<1>1. BeforePlan \/ AfterPlan => UNCHANGED Exec!vars
  BY HandlerOnly DEF execVars, Exec!vars
<1>2. ExecuteStep => Exec!Next
  BY DEF ExecuteStep, Exec!Next, Exec!Progress
<1>3. Crash => [Exec!Next]_Exec!vars
  BY DEF Crash, Exec!Next, execVars, Exec!vars
<1>4. UNCHANGED vars => UNCHANGED Exec!vars
  BY DEF vars, execVars, Exec!vars
<1> QED
  BY <1>1, <1>2, <1>3, <1>4, NextCases

LEMMA NextIInv == IInv /\ [Next]_vars => IInv'
<1> SUFFICES ASSUME IInv, [Next]_vars PROVE IInv'
  OBVIOUS
<1>1. ExecInv'
  BY StepIsExecutors, ExecNext DEF IInv
<1>2. CASE Next
  <2>1. Request'
    BY <1>2, NextCases, BeforePlanKeeps, AfterPlanKeeps, ExecuteKeeps, CrashKeeps DEF IInv
  <2> QED
    BY <1>1, <2>1 DEF IInv
<1>3. CASE UNCHANGED vars
  <2>1. Request'
    BY <1>3 DEF IInv, Request, Types, PlanInPhase, RowInPhase, TokensInPhase, AnswerIsTrue,
                RowTellsAnswer, vars, execVars, input, llmVars, rowVars, ending
  <2> QED
    BY <1>1, <2>1 DEF IInv
<1> QED
  BY <1>2, <1>3

-----------------------------------------------------------------------------
(* Theorems.                                                               *)

\* The invariant that the theorems below follow from holds in every state: the row
\* of the run, the tokens and the execution of the plan are where the phase of the
\* request says.
THEOREM Inductive == Spec => []IInv
  BY InitIInv, NextIInv, PTL DEF Spec

\* A request executes its plan as execute_plan does alone, whatever the handler does
\* meanwhile: what is proved of the executor holds within a request.
THEOREM RequestRunsPlan == Spec => Exec!Spec
<1>1. Init => Exec!Init
  BY DEF Init
<1> QED
  BY <1>1, StepIsExecutors, PTL DEF Spec, Exec!Spec

\* Seen from outside, the steps of a request are a run of its dependency graph: each
\* begins once, after its dependencies have succeeded and while no step has failed,
\* and the run succeeds only with all of them.
THEOREM RequestImplementsRun == Spec => Executor!Run!SafeSpec
<1>1. Exec!Init => Executor!Init
  BY SameState
<1>2. [Exec!Next]_(Exec!vars) => [Executor!Next]_(Executor!vars)
  BY SameNext DEF Exec!vars, Executor!vars
<1>3. Exec!Spec => Executor!Spec
  BY <1>1, <1>2, PTL DEF Exec!Spec, Executor!Spec
<1>4. Executor!Spec => Executor!Run!SafeSpec
  BY PlansOK, Executor!ExecutorImplementsRun
<1> QED
  BY <1>3, <1>4, RequestRunsPlan, PTL

\* Rows, tokens and answers have their types, those of the executor included.
THEOREM TypeCorrect == Spec => []TypeOK
<1>1. IInv => TypeOK
  BY ExecFacts DEF IInv, Request, Types, TypeOK
<1> QED
  BY Inductive, <1>1, PTL

\* A 200 is the answer of a run that is logged as a success, with its plan and each
\* of its steps, and is within the budget.
THEOREM SuccessAlwaysLogged == Spec => []SuccessIsLogged
<1>1. IInv => SuccessIsLogged
  BY ExecFacts DEF IInv, Request, AnswerIsTrue, SuccessIsLogged
<1> QED
  BY Inductive, <1>1, PTL

\* A closed request has a row that says what the client was told, unless a call on
\* that row has raised.
THEOREM RowAlwaysTells == Spec => []RowTellsAnswer
<1>1. IInv => RowTellsAnswer
  BY DEF IInv, Request
<1> QED
  BY Inductive, <1>1, PTL

\* No tool runs on once the handler has left execute_plan.
THEOREM ToolsStayOver == Spec => ToolsAreOver
<1> DEFINE Left == phase \in {"summarizing", "finishing", "failing", "answered"}
<1>1. ASSUME IInv, [Next]_vars, Left PROVE task' = task /\ row' = row
  <2>1. CASE UNCHANGED vars \/ BeforePlan \/ AfterPlan
    BY <2>1, HandlerOnly DEF vars, execVars
  <2>2. CASE ExecuteStep
    BY <1>1, <2>2, ExecuteKeeps
  <2>3. CASE Crash
    BY <2>3 DEF Crash, Exec!Crash, execVars
  <2> QED
    BY <1>1, <2>1, <2>2, <2>3, NextCases
<1>2. IInv /\ [Next]_vars => [Left => task' = task /\ row' = row]_vars
  BY <1>1
<1> QED
  BY Inductive, <1>2, PTL DEF Spec, ToolsAreOver

-----------------------------------------------------------------------------
(* A fallback can be executed.                                             *)

\* A plan that came from a fallback is one of the rules, and "plan" is the error of
\* an execution that has ended with one.
FellBack ==
  /\ fallback # "none" => plan \in RulePlans
  /\ error = "plan" => pc = "error"

LEMMA FellBackKept == IInv /\ FellBack /\ [Next]_vars => FellBack'
<1> SUFFICES ASSUME IInv, FellBack, [Next]_vars PROVE FellBack'
  OBVIOUS
<1>1. CASE UNCHANGED vars
  BY <1>1 DEF FellBack, vars, execVars, llmVars, ending
<1>2. CASE BeforePlan
  <2>1. pc' = pc /\ plan' = plan
    BY <1>2, HandlerOnly DEF execVars
  <2>2. /\ fallback' # "none" => fallback' = fallback \/ plan \in RulePlans
        /\ error' = "plan" => error' = error
    BY <1>2 DEF BeforePlan, RefuseResume, CreateRunLog, CreateRunLogFails, CountFails, OverBudget,
                LlmPlans, LlmPlanFails, Planned, FlagQuery, SavePlan, SavePlanFails, Fail,
                llmVars, ending
  <2> QED
    BY <2>1, <2>2 DEF FellBack
<1>3. CASE AfterPlan
  <2>1. pc' = pc /\ plan' = plan
    BY <1>3, HandlerOnly DEF execVars
  <2>2. fallback' = fallback
    BY <1>3 DEF AfterPlan, PlanReturns, PlanRaises, Summarize, SummarizeFails, SummarizeRaises,
                LogSuccess, LogSuccessFails, LogFailure, LogFailureFails, llmVars
  <2>3. error' = "plan" => error' = error \/ pc = "error"
    BY <1>3 DEF AfterPlan, PlanReturns, PlanRaises, Summarize, SummarizeFails, SummarizeRaises,
                LogSuccess, LogSuccessFails, LogFailure, LogFailureFails, CheckBudget, Fail,
                Answer, ending
  <2> QED
    BY <2>1, <2>2, <2>3 DEF FellBack
<1>4. CASE ExecuteStep
  <2>1. plan' = plan
    <3>1. Exec!PlanStep => plan' = plan
      BY DEF Exec!PlanStep, Exec!RefuseDuplicate, Exec!RunEmptyPlan, Exec!RefuseDependency,
             Exec!RefuseCycle, Exec!LaunchFirstBatch, Exec!RaiseStepError, Exec!LaunchNextBatch,
             Exec!FinishPlan, Exec!Launch, Exec!End
    <3>2. \A s : Exec!TaskStep(s) => plan' = plan
      BY DEF Exec!TaskStep, Exec!OpenLog, Exec!OpenLogFails, Exec!StartHandler,
             Exec!RefuseTool, Exec!HandlerSucceeds, Exec!HandlerFails, Exec!LogSuccess,
             Exec!LogSuccessFails, Exec!LogFailure, Exec!LogFailureFails, Exec!Move
    <3> QED
      BY <1>4, <3>1, <3>2 DEF ExecuteStep
  <2>2. error # "plan" /\ error' = error /\ fallback' = fallback
    BY <1>4, ExecuteKeeps DEF ExecuteStep, ending, llmVars, IInv, Request, RowInPhase
  <2> QED
    BY <2>1, <2>2 DEF FellBack
<1>5. CASE Crash
  <2>1. error # "plan" \/ pc = "error"
    BY DEF FellBack
  <2>2. (Exec!Crash => ~Exec!Ended) /\ (pc = "error" => Exec!Ended)
    BY DEF Exec!Crash, Exec!Ended
  <2>3. plan' = plan /\ fallback' = fallback /\ error' = error /\ (pc = "error" => pc' = pc)
    BY <1>5, <2>2 DEF Crash, Exec!Crash, execVars, llmVars, ending
  <2> QED
    BY <2>3 DEF FellBack
<1> QED
  BY <1>1, <1>2, <1>3, <1>4, <1>5, NextCases

\* What the rules ask for is a sequence of tools, and not an empty one.
LEMMA RulesAskForTools ==
  ASSUME NEW asked \in SUBSET Intents
  PROVE  RuleTools(asked) \in Seq(Tools) /\ RuleTools(asked) # <<>>
<1>1. /\ Rule("trend" \in asked, "query_kline") \in Seq(Tools)
      /\ Rule("indicators" \in asked, "technical_indicators") \in Seq(Tools)
      /\ Rule("qlib" \in asked, "reco_query") \in Seq(Tools)
      /\ Rule("pick" \in asked /\ "qlib" \notin asked, "strategy_ensemble_v1") \in Seq(Tools)
      /\ <<"query_kline">> \in Seq(Tools)
  BY DEF Rule, Tools
<1> DEFINE steps == Rule("trend" \in asked, "query_kline")
                      \o Rule("indicators" \in asked, "technical_indicators")
                      \o Rule("qlib" \in asked, "reco_query")
                      \o Rule("pick" \in asked /\ "qlib" \notin asked, "strategy_ensemble_v1")
<1>2. steps \in Seq(Tools)
  BY <1>1
<1>3. RuleTools(asked) = IF steps = <<>> THEN <<"query_kline">> ELSE steps
  BY DEF RuleTools
<1> HIDE DEF steps
<1>4. <<"query_kline">> # <<>>
  OBVIOUS
<1> QED
  BY <1>1, <1>2, <1>3, <1>4

\* A step of a chain is found under its place, and waits for the one before it.
LEMMA ChainSteps ==
  ASSUME NEW tools \in Seq(Tools)
  PROVE  LET p == Chain(tools) IN
         /\ DOMAIN p = 1..Len(tools)
         /\ \A i \in DOMAIN p : p[i].step_index = i /\ p[i].callable
         /\ Graph!Indexes(p) = DOMAIN p
         /\ \A s \in DOMAIN p : Graph!Deps(p, s) = DependsOn(s) /\ p[s].depends_on = DependsOn(s)
<1> DEFINE p == Chain(tools)
<1>1. DOMAIN p = 1..Len(tools)
  BY DEF Chain
<1>2. \A i \in DOMAIN p : /\ p[i].step_index = i /\ p[i].callable
                          /\ p[i].depends_on = DependsOn(i)
  <2>1. \A i \in 1..Len(tools) : tools[i] \in Tools
    OBVIOUS
  <2>2. \A i \in 1..Len(tools) : p[i].step_index = i /\ p[i].depends_on = DependsOn(i)
    BY <1>1 DEF Chain
  <2>3. \A i \in 1..Len(tools) : p[i].callable = (tools[i] \in Tools)
    BY <1>1, SMT DEF Chain
  <2> HIDE DEF p
  <2> QED
    BY <1>1, <2>1, <2>2, <2>3
<1> HIDE DEF p
<1>3. Graph!Indexes(p) = DOMAIN p
  BY <1>2 DEF Graph!Indexes
<1>4. ASSUME NEW s \in DOMAIN p
      PROVE  Graph!Deps(p, s) = DependsOn(s)
  <2>1. \A i \in DOMAIN p : p[i].step_index = s <=> i = s
    BY <1>2
  <2>2. (CHOOSE i \in DOMAIN p : p[i].step_index = s) = s
    BY <2>1
  <2> QED
    BY <1>2, <2>2 DEF Graph!Deps, Graph!StepOf
<1> QED
  BY <1>1, <1>2, <1>3, <1>4 DEF p

\* A chain has no cycle: of a set of its steps the first one waits for none of them.
LEMMA ChainHasNoCycle ==
  ASSUME NEW tools \in Seq(Tools)
  PROVE  ~Graph!Cyclic(Chain(tools))
<1> DEFINE p == Chain(tools)
<1> SUFFICES ASSUME NEW core \in SUBSET Graph!Indexes(p), Graph!IsCore(p, core)
             PROVE  FALSE
  BY DEF Graph!Cyclic
<1>1. core \subseteq Nat /\ core # {}
  BY ChainSteps DEF Graph!IsCore
<1>2. PICK m \in core : \A n \in core : ~(<<n, m>> \in OpToRel(<, Nat))
  BY <1>1, NatLessThanWellFounded, WFMin, Zenon
<1>3. Graph!Deps(p, m) = DependsOn(m) /\ m \in 1..Len(tools)
  BY ChainSteps
<1>4. PICK n \in core : n \in DependsOn(m)
  BY <1>3 DEF Graph!IsCore
<1>5. n \in Nat /\ m \in Nat /\ n < m
  BY <1>1, <1>4 DEF DependsOn
<1>6. <<n, m>> \in OpToRel(<, Nat)
  BY <1>5 DEF OpToRel
<1> QED
  BY <1>2, <1>6

\* Whatever a query asks for, the plan of the rules can be executed: its indexes and
\* dependencies are accepted, it has no cycle, calls only tools there are, and each of
\* its steps waits for the one before.
THEOREM RulesAlwaysRun ==
  ASSUME NEW asked \in SUBSET Intents
  PROVE  Runs(RulePlan(asked))
<1> DEFINE tools == RuleTools(asked)
           p == Chain(tools)
<1>1. tools \in Seq(Tools) /\ tools # <<>>
  BY RulesAskForTools
<1> HIDE DEF tools
<1>2. /\ DOMAIN p = 1..Len(tools)
      /\ \A i \in DOMAIN p : p[i].step_index = i /\ p[i].callable
      /\ Graph!Indexes(p) = DOMAIN p
      /\ \A s \in DOMAIN p : Graph!Deps(p, s) = DependsOn(s) /\ p[s].depends_on = DependsOn(s)
  BY <1>1, ChainSteps
<1>3. Len(tools) \in Nat \ {0}
  BY <1>1
<1>4. ~Graph!Cyclic(p)
  BY <1>1, ChainHasNoCycle
<1>a. Len(p) = Len(tools)
  BY <1>3 DEF Chain
<1> HIDE DEF p
<1>5. p # <<>>
  BY <1>2, <1>3, <1>a
<1>6. ~Graph!HasDuplicate(p)
  BY <1>2 DEF Graph!HasDuplicate
<1>7. ~Graph!HasBadDependency(p)
  <2>1. \A s \in DOMAIN p : s \notin DependsOn(s) /\ DependsOn(s) \subseteq DOMAIN p
    BY <1>2, <1>3 DEF DependsOn
  <2> QED
    BY <1>2, <2>1 DEF Graph!HasBadDependency
<1>8. \A i \in 2..Len(p) : p[i - 1].step_index \in p[i].depends_on
  <2> SUFFICES ASSUME NEW i \in 2..Len(p)
               PROVE  p[i - 1].step_index \in p[i].depends_on
    OBVIOUS
  <2>1. i \in DOMAIN p /\ i - 1 \in DOMAIN p /\ i > 1
    BY <1>2, <1>3, <1>a
  <2>2. p[i - 1].step_index = i - 1 /\ p[i].depends_on = {i - 1}
    BY <1>2, <2>1 DEF DependsOn
  <2> QED
    BY <2>2
<1>9. RulePlan(asked) = p
  BY DEF RulePlan, p, tools
<1> QED
  BY <1>2, <1>4, <1>5, <1>6, <1>7, <1>8, <1>9 DEF Runs, Graph!WellFormed

\* The same of the plan of a request, once the rules are those of planner_rule.py.
THEOREM RulePlansAlwaysRun ==
  ASSUME RulePlans = PlansOfRules PROVE Spec => []RulePlansRun
<1>1. RulePlansRun
  BY RulesAlwaysRun DEF RulePlansRun, PlansOfRules
<1> QED
  BY <1>1, PTL

\* With the rules of planner_rule.py, a request that has fallen back to them fails in
\* its plan only where a step has failed.
THEOREM FallbackAlwaysRuns ==
  ASSUME RulePlans = PlansOfRules
  PROVE  Spec => []FallbackRuns
<1>0. \A p \in RulePlans : Exec!WellFormed(p) /\ ~Exec!Cyclic(p)
  <2> SUFFICES ASSUME NEW asked \in SUBSET Intents
               PROVE  Exec!WellFormed(RulePlan(asked)) /\ ~Exec!Cyclic(RulePlan(asked))
    BY DEF PlansOfRules
  <2>1. Graph!WellFormed(RulePlan(asked)) /\ ~Graph!Cyclic(RulePlan(asked))
    BY RulesAlwaysRun DEF Runs
  <2> QED
    BY <2>1 DEF Exec!WellFormed, Exec!HasDuplicate, Exec!HasBadDependency, Exec!Indexes,
                Exec!Deps, Exec!StepOf, Exec!Cyclic, Exec!IsCore, Graph!WellFormed,
                Graph!HasDuplicate, Graph!HasBadDependency, Graph!Indexes, Graph!Deps,
                Graph!StepOf, Graph!Cyclic, Graph!IsCore
<1>1. Init => FellBack
  BY DEF Init, FellBack
<1>2. IInv /\ FellBack => FallbackRuns
  <2> SUFFICES ASSUME IInv, FellBack, fallback # "none", error = "plan" PROVE reason = "step"
    BY DEF FallbackRuns
  <2>1. plan \in RulePlans /\ pc = "error"
    BY DEF FellBack
  <2>2. Exec!WellFormed(plan) /\ ~Exec!Cyclic(plan)
    BY <1>0, <2>1
  <2>3. Executor!ErrorExplained
    BY DEF IInv, ExecInv, Executor!IInv, Executor!Outcome
  <2>4. ~Executor!HasDuplicate(plan) /\ ~Executor!HasBadDependency(plan)
    BY <2>2 DEF Exec!WellFormed, Exec!HasDuplicate, Exec!HasBadDependency,
                Executor!HasDuplicate, Executor!HasBadDependency, Exec!Indexes, Executor!Indexes,
                Exec!Deps, Executor!Deps, Exec!StepOf, Executor!StepOf
  <2>5. ~Executor!Cyclic(plan)
    BY <2>2 DEF Exec!Cyclic, Executor!Cyclic, Exec!IsCore, Executor!IsCore, Exec!Indexes,
                Executor!Indexes, Exec!Deps, Executor!Deps, Exec!StepOf, Executor!StepOf
  <2>6. ~Executor!IsCore(plan, Executor!Steps \ Executor!Completed)
    BY <2>5 DEF Executor!Cyclic, Executor!Steps
  <2>7. reason \in {"none", "duplicate", "dependency", "cycle", "step"}
    BY DEF IInv, ExecInv, Executor!IInv, Executor!TypeOK
  <2> QED
    BY <2>1, <2>3, <2>4, <2>6, <2>7 DEF Executor!ErrorExplained
<1> QED
  BY <1>1, <1>2, FellBackKept, Inductive, PTL DEF Spec

-----------------------------------------------------------------------------
(* The rate limiter in front of the request.                               *)

\* What a key has been admitted in the window, plus what its bucket could
\* still admit now, lies between what the window has refilled (a burst at
\* most) and a burst plus that refill.
AtMost ==
  \A k \in Keys :
    admitted[k] * Minute + Level(k)
      <= (1 + restarts) * Capacity + (now - since) * Rpm

AtLeast ==
  \A k \in Keys :
    admitted[k] * Minute + Level(k) >= Smaller(Capacity, (now - since) * Rpm)

BucketsInv == LimiterTypeOK /\ AtMost /\ AtLeast

-----------------------------------------------------------------------------
LEMMA CapacityType == Capacity \in Nat
  BY LimiterAssumption DEF Capacity

\* The level of a bucket is a number of units between none and full.
LEMMA LevelType ==
  ASSUME LimiterTypeOK, NEW k \in Keys
  PROVE  Level(k) \in 0..Capacity
<1>1. CASE k \in DOMAIN buckets
  <2>1. /\ buckets[k].tokens \in 0..Capacity
        /\ buckets[k].last_refill_ts \in Nat /\ now \in Nat
        /\ buckets[k].last_refill_ts <= now
    BY <1>1 DEF LimiterTypeOK, Bucket
  <2>2. (now - buckets[k].last_refill_ts) * Rpm \in Nat
    BY <2>1, LimiterAssumption
  <2> QED
    BY <1>1, <2>1, <2>2, CapacityType DEF Level, Smaller
<1>2. CASE k \notin DOMAIN buckets
  BY <1>2, CapacityType DEF Level
<1> QED
  BY <1>1, <1>2

\* Writing a bucket back sets the level of its key and no other.
LEMMA SetBucketLevel ==
  ASSUME LimiterTypeOK, NEW k \in Keys, NEW level \in 0..Capacity,
         SetBucket(k, level), now' = now
  PROVE  /\ Level(k)' = level
         /\ \A x \in Keys : x # k => Level(x)' = Level(x)
         /\ DOMAIN buckets' \subseteq Keys
         /\ \A x \in DOMAIN buckets' :
              buckets'[x] \in Bucket /\ buckets'[x].last_refill_ts <= now
<1>1. /\ DOMAIN buckets' = DOMAIN buckets \cup {k}
      /\ buckets'[k] = [tokens |-> level, last_refill_ts |-> now]
      /\ \A x \in DOMAIN buckets : x # k => buckets'[x] = buckets[x]
  BY DEF SetBucket
<1>2. now \in Nat
  BY DEF LimiterTypeOK
<1>3. Level(k)' = level
  <2>1. (now - now) * Rpm = 0
    BY <1>2, LimiterAssumption
  <2> QED
    BY <1>1, <2>1, CapacityType DEF Level, Smaller
<1>4. ASSUME NEW x \in Keys, x # k PROVE Level(x)' = Level(x)
  BY <1>1, <1>4 DEF Level
<1>5. ASSUME NEW x \in DOMAIN buckets'
      PROVE  buckets'[x] \in Bucket /\ buckets'[x].last_refill_ts <= now
  BY <1>1, <1>2 DEF LimiterTypeOK, Bucket
<1> QED
  BY <1>1, <1>3, <1>4, <1>5 DEF LimiterTypeOK

LEMMA LimiterInitInv == LimiterInit => BucketsInv
<1> SUFFICES ASSUME LimiterInit PROVE BucketsInv
  OBVIOUS
<1>1. LimiterTypeOK
  BY LimiterAssumption DEF LimiterInit, LimiterTypeOK
<1>2. \A k \in Keys : Level(k) = Capacity /\ admitted[k] = 0
  BY DEF LimiterInit, Level
<1>3. (now - since) * Rpm = 0 /\ 0 * Minute = 0 /\ (1 + 0) * Capacity = Capacity
  BY LimiterAssumption, CapacityType DEF LimiterInit
<1>4. AtMost /\ AtLeast
  BY <1>2, <1>3, CapacityType DEF AtMost, AtLeast, Smaller, LimiterInit
<1> QED
  BY <1>1, <1>4 DEF BucketsInv

\* An admitted request moves Minute units from the bucket to the count.
LEMMA AdmitKeeps == ASSUME BucketsInv, NEW k \in Keys, Admit(k) PROVE BucketsInv'
<1>1. Level(k) \in 0..Capacity /\ Minute \in Nat \ {0} /\ Capacity \in Nat
  BY LevelType, CapacityType, LimiterAssumption DEF BucketsInv
<1>2. Level(k) - Minute \in 0..Capacity
  BY <1>1 DEF Admit
<1>3. /\ Level(k)' = Level(k) - Minute
      /\ \A x \in Keys : x # k => Level(x)' = Level(x)
      /\ DOMAIN buckets' \subseteq Keys
      /\ \A x \in DOMAIN buckets' :
           buckets'[x] \in Bucket /\ buckets'[x].last_refill_ts <= now
  BY <1>2, SetBucketLevel DEF Admit, BucketsInv
<1>4. /\ admitted \in [Keys -> Nat] /\ admitted' \in [Keys -> Nat]
      /\ admitted'[k] = admitted[k] + 1
      /\ \A x \in Keys : x # k => admitted'[x] = admitted[x]
  BY DEF Admit, BucketsInv, LimiterTypeOK
<1>5. LimiterTypeOK'
  BY <1>3, <1>4 DEF Admit, BucketsInv, LimiterTypeOK
<1>6. admitted'[k] * Minute + Level(k)' = admitted[k] * Minute + Level(k)
  <2>1. (admitted[k] + 1) * Minute = admitted[k] * Minute + Minute
    BY <1>1, <1>4
  <2>2. admitted[k] * Minute \in Nat
    BY <1>1, <1>4
  <2> QED
    BY <1>1, <1>3, <1>4, <2>1, <2>2
<1>7. \A x \in Keys :
        admitted'[x] * Minute + Level(x)' = admitted[x] * Minute + Level(x)
  BY <1>3, <1>4, <1>6
<1>8. AtMost' /\ AtLeast'
  BY <1>7 DEF AtMost, AtLeast, BucketsInv, Admit
<1> QED
  BY <1>5, <1>8 DEF BucketsInv

\* A refusal only writes the refilled level back.
LEMMA RefuseKeeps == ASSUME BucketsInv, NEW k \in Keys, Refuse(k) PROVE BucketsInv'
<1>1. Level(k) \in 0..Capacity
  BY LevelType DEF BucketsInv
<1>2. /\ Level(k)' = Level(k)
      /\ \A x \in Keys : x # k => Level(x)' = Level(x)
      /\ DOMAIN buckets' \subseteq Keys
      /\ \A x \in DOMAIN buckets' :
           buckets'[x] \in Bucket /\ buckets'[x].last_refill_ts <= now
  BY <1>1, SetBucketLevel DEF Refuse, BucketsInv
<1>3. LimiterTypeOK'
  BY <1>2 DEF Refuse, BucketsInv, LimiterTypeOK
<1>4. \A x \in Keys : Level(x)' = Level(x)
  BY <1>2
<1>5. AtMost' /\ AtLeast'
  BY <1>4 DEF AtMost, AtLeast, BucketsInv, Refuse
<1> QED
  BY <1>3, <1>5 DEF BucketsInv

\* A tick refills at most Rpm units, and exactly that below the capacity.
LEMMA TickKeeps == BucketsInv /\ Tick => BucketsInv'
<1> SUFFICES ASSUME BucketsInv, Tick PROVE BucketsInv'
  OBVIOUS
<1>1. /\ now \in Nat /\ since \in Nat /\ since <= now /\ now' = now + 1
      /\ Rpm \in Nat /\ Minute \in Nat /\ Capacity \in Nat
      /\ restarts \in Nat
      /\ UNCHANGED <<buckets, since, admitted, restarts>>
  BY LimiterAssumption, CapacityType DEF BucketsInv, LimiterTypeOK, Tick
<1>2. LimiterTypeOK'
  <2>1. \A k \in DOMAIN buckets :
          buckets[k].last_refill_ts \in Nat /\ buckets[k].last_refill_ts <= now + 1
    BY <1>1 DEF BucketsInv, LimiterTypeOK, Bucket
  <2>2. now' \in 0..MaxTime /\ since \in 0..now'
    BY <1>1, LimiterAssumption DEF Tick
  <2> QED
    BY <1>1, <2>1, <2>2 DEF BucketsInv, LimiterTypeOK
<1>3. (now' - since) * Rpm = (now - since) * Rpm + Rpm
  BY <1>1
<1>4. (now - since) * Rpm \in Nat /\ (1 + restarts) * Capacity \in Nat
  BY <1>1
<1>5. ASSUME NEW k \in Keys
      PROVE  Level(k)' = Smaller(Capacity, Level(k) + Rpm)
  <2>1. CASE k \in DOMAIN buckets
    <3> DEFINE t == buckets[k].tokens
               d == now - buckets[k].last_refill_ts
    <3>1. t \in Nat /\ d \in Nat
      BY <1>1, <2>1 DEF BucketsInv, LimiterTypeOK, Bucket
    <3>2. (now' - buckets[k].last_refill_ts) * Rpm = d * Rpm + Rpm
      <4>1. buckets[k].last_refill_ts \in Nat
        BY <2>1 DEF BucketsInv, LimiterTypeOK, Bucket
      <4>2. now' - buckets[k].last_refill_ts = d + 1
        BY <1>1, <4>1
      <4>3. (d + 1) * Rpm = d * Rpm + Rpm
        <5> HIDE DEF d
        <5> QED
          BY <1>1, <3>1
      <4> QED
        BY <4>2, <4>3
    <3>3. d * Rpm \in Nat
      BY <1>1, <3>1
    <3>4. Level(k)' = Smaller(Capacity, t + (d * Rpm + Rpm))
      BY <1>1, <2>1, <3>2 DEF Level
    <3>5. Level(k) = Smaller(Capacity, t + d * Rpm)
      BY <2>1 DEF Level
    <3> HIDE DEF t, d
    <3> QED
      BY <1>1, <3>1, <3>3, <3>4, <3>5 DEF Smaller
  <2>2. CASE k \notin DOMAIN buckets
    BY <1>1, <2>2 DEF Level, Smaller
  <2> QED
    BY <2>1, <2>2
<1>6. ASSUME NEW k \in Keys
      PROVE  /\ Level(k) \in Nat /\ admitted[k] * Minute \in Nat
             /\ Level(k) <= Capacity
  BY <1>1, LevelType DEF BucketsInv, LimiterTypeOK
<1>7. AtMost'
  <2> SUFFICES ASSUME NEW k \in Keys
               PROVE  admitted[k] * Minute + Level(k)'
                        <= (1 + restarts) * Capacity + (now' - since) * Rpm
    BY <1>1 DEF AtMost
  <2>1. admitted[k] * Minute + Level(k)
          <= (1 + restarts) * Capacity + (now - since) * Rpm
    BY DEF BucketsInv, AtMost
  <2>2. Level(k)' <= Level(k) + Rpm /\ Level(k)' \in Nat
    BY <1>1, <1>5, <1>6 DEF Smaller
  <2> QED
    BY <1>1, <1>3, <1>4, <1>6, <2>1, <2>2
<1>8. AtLeast'
  <2> SUFFICES ASSUME NEW k \in Keys
               PROVE  admitted[k] * Minute + Level(k)'
                        >= Smaller(Capacity, (now' - since) * Rpm)
    BY <1>1 DEF AtLeast, Capacity
  <2>1. admitted[k] * Minute + Level(k)
          >= Smaller(Capacity, (now - since) * Rpm)
    BY DEF BucketsInv, AtLeast
  <2>2. Level(k)' = Capacity \/ Level(k)' = Level(k) + Rpm
    BY <1>5 DEF Smaller
  <2>3. CASE Level(k)' = Capacity
    BY <1>1, <1>3, <1>4, <1>6, <2>3 DEF Smaller
  <2>4. CASE Level(k)' = Level(k) + Rpm
    BY <1>1, <1>3, <1>4, <1>6, <2>1, <2>4 DEF Smaller
  <2> QED
    BY <2>2, <2>3, <2>4
<1> QED
  BY <1>2, <1>7, <1>8 DEF BucketsInv

\* A restart fills every bucket, and the window counts it.
LEMMA RestartKeeps == BucketsInv /\ Restart => BucketsInv'
<1> SUFFICES ASSUME BucketsInv, Restart PROVE BucketsInv'
  OBVIOUS
<1>1. /\ restarts \in Nat /\ restarts' = restarts + 1 /\ restarts < MaxRestarts
      /\ Capacity \in Nat /\ Minute \in Nat
      /\ (now - since) * Rpm \in Nat
      /\ UNCHANGED <<now, since, admitted>>
  BY LimiterAssumption, CapacityType DEF BucketsInv, LimiterTypeOK, Restart
<1>2. LimiterTypeOK'
  BY <1>1, LimiterAssumption DEF BucketsInv, LimiterTypeOK, Restart
<1>3. \A k \in Keys : Level(k)' = Capacity
  BY DEF Restart, Level, Capacity
<1>4. (1 + restarts') * Capacity = (1 + restarts) * Capacity + Capacity
      /\ (1 + restarts) * Capacity \in Nat
  BY <1>1
<1>5. \A k \in Keys : /\ admitted[k] * Minute \in Nat
                      /\ Level(k) \in Nat /\ Level(k) <= Capacity
  BY <1>1, LevelType DEF BucketsInv, LimiterTypeOK
<1>6. ASSUME NEW k \in Keys
      PROVE  admitted[k] * Minute + Capacity
               <= (1 + restarts') * Capacity + (now - since) * Rpm
  <2>1. admitted[k] * Minute + Level(k)
          <= (1 + restarts) * Capacity + (now - since) * Rpm
    BY DEF BucketsInv, AtMost
  <2> QED
    BY <1>1, <1>4, <1>5, <2>1
<1>7. ASSUME NEW k \in Keys
      PROVE  admitted[k] * Minute + Capacity
               >= Smaller(Capacity, (now - since) * Rpm)
  BY <1>1, <1>5 DEF Smaller
<1>8. AtMost' /\ AtLeast'
  BY <1>1, <1>3, <1>6, <1>7 DEF AtMost, AtLeast, Capacity
<1> QED
  BY <1>2, <1>8 DEF BucketsInv

\* A window that opens has admitted nothing and refilled nothing.
LEMMA OpenWindowKeeps == BucketsInv /\ OpenWindow => BucketsInv'
<1> SUFFICES ASSUME BucketsInv, OpenWindow PROVE BucketsInv'
  OBVIOUS
<1>1. LimiterTypeOK'
  BY LimiterAssumption DEF BucketsInv, LimiterTypeOK, OpenWindow
<1>2. \A k \in Keys : Level(k)' = Level(k) /\ Level(k) \in 0..Capacity
  BY LevelType DEF OpenWindow, Level, BucketsInv
<1>3. /\ (now' - since') * Rpm = 0
      /\ \A k \in Keys : admitted'[k] * Minute = 0
      /\ (1 + restarts') * Capacity = Capacity
  BY LimiterAssumption, CapacityType DEF OpenWindow, BucketsInv, LimiterTypeOK
<1>4. AtMost' /\ AtLeast'
  BY <1>2, <1>3, CapacityType DEF AtMost, AtLeast, Smaller
<1> QED
  BY <1>1, <1>4 DEF BucketsInv

LEMMA LimiterStutterKeeps == BucketsInv /\ UNCHANGED limiterVars => BucketsInv'
<1> SUFFICES ASSUME BucketsInv, UNCHANGED limiterVars PROVE BucketsInv'
  OBVIOUS
<1>1. \A k \in Keys : Level(k)' = Level(k)
  BY DEF limiterVars, Level
<1> QED
  BY <1>1 DEF limiterVars, BucketsInv, LimiterTypeOK, AtMost, AtLeast

\* The two bounds are inductive.
THEOREM LimiterInductive == LimiterSpec => []BucketsInv
<1>1. BucketsInv /\ [LimiterNext]_limiterVars => BucketsInv'
  BY AdmitKeeps, RefuseKeeps, TickKeeps, RestartKeeps, OpenWindowKeeps,
     LimiterStutterKeeps DEF LimiterNext
<1> QED
  BY <1>1, LimiterInitInv, PTL DEF LimiterSpec

\* The clock, the buckets and the counters have their types: a bucket never
\* goes below zero or above its capacity.
THEOREM LimiterTypeCorrect == LimiterSpec => []LimiterTypeOK
<1>1. BucketsInv => LimiterTypeOK
  BY DEF BucketsInv
<1> QED
  BY <1>1, LimiterInductive, PTL

\* No window, wherever it starts, admits more than a burst plus its refill.
THEOREM RateBound == LimiterSpec => []NeverOverRate
<1>1. BucketsInv => NeverOverRate
  <2> SUFFICES ASSUME BucketsInv, NEW k \in Keys
               PROVE  admitted[k] * Minute
                        <= (1 + restarts) * Capacity + (now - since) * Rpm
    BY DEF NeverOverRate
  <2>1. Level(k) \in Nat /\ admitted[k] * Minute \in Nat
    BY LevelType, CapacityType, LimiterAssumption DEF BucketsInv, LimiterTypeOK
  <2>2. (1 + restarts) * Capacity \in Nat /\ (now - since) * Rpm \in Nat
    BY CapacityType, LimiterAssumption DEF BucketsInv, LimiterTypeOK
  <2> QED
    BY <2>1, <2>2 DEF BucketsInv, AtMost
<1> QED
  BY <1>1, LimiterInductive, PTL

\* A 429 means that Rpm requests were admitted within the last minute.
THEOREM RefusalsAreDue == LimiterSpec => RefusalJustified
<1>1. ASSUME BucketsInv, NEW k \in Keys, Refuse(k), now - since >= Minute
      PROVE  admitted[k] >= Rpm
  <2>1. /\ Rpm \in Nat \ {0} /\ Minute \in Nat \ {0} /\ admitted[k] \in Nat
        /\ now \in Nat /\ since \in Nat /\ since <= now
    BY <1>1, LimiterAssumption DEF BucketsInv, LimiterTypeOK
  <2>2. (now - since) * Rpm >= Capacity
    BY <1>1, <2>1 DEF Capacity
  <2>3. admitted[k] * Minute + Level(k) >= Capacity
    BY <1>1, <2>1, <2>2, CapacityType DEF BucketsInv, AtLeast, Smaller
  <2>4. Level(k) \in Nat /\ Level(k) < Minute
    BY <1>1, LevelType, CapacityType DEF Refuse, BucketsInv
  <2>5. (admitted[k] + 1) * Minute > Rpm * Minute
    BY <2>1, <2>3, <2>4 DEF Capacity
  <2>6. ASSUME admitted[k] + 1 <= Rpm PROVE FALSE
    <3>1. (admitted[k] + 1) * Minute <= Rpm * Minute
      BY <2>1, <2>6
    <3> QED
      BY <2>1, <2>5, <3>1
  <2> QED
    BY <2>1, <2>6
<1>2. BucketsInv => [\A k \in Keys :
                 Refuse(k) /\ now - since >= Minute => admitted[k] >= Rpm]_limiterVars
  BY <1>1
<1> QED
  BY <1>2, LimiterInductive, PTL DEF RefusalJustified
=============================================================================
