---------------------------- MODULE PlanExecutor ----------------------------
(***************************************************************************)
(* agent/app/executor.py: execute_plan and the tasks it starts, with the   *)
(* rows of market.tool_call_log they write (agent/app/db.py).              *)
(*                                                                         *)
(* execute_plan runs the plan in batches.  It creates one asyncio task per *)
(* ready step, awaits all of them (gather with return_exceptions), stops   *)
(* at the first batch with an error, and otherwise releases the dependents *)
(* of the batch.  The code between two awaits is one action; between them  *)
(* the tasks of a batch interleave at every database call and at the tool  *)
(* handler.                                                                *)
(*                                                                         *)
(* A database call may fail before its statement commits, or after (the    *)
(* 5 second timeout, a lost connection): the caller sees the same          *)
(* exception.  The process may be killed at any await.                     *)
(***************************************************************************)
EXTENDS PlanGraph

VARIABLES
  plan,         \* the argument of execute_plan
  pc,           \* where execute_plan is: "init", "gather", or how it ended
  reason,       \* which PlanExecutionError ended it
  unresolved,   \* unresolved_dependencies, by step
  batch,        \* current_batch_indexes
  results,      \* step_results: one set of steps per finished batch (within
                \* a batch the code sorts them by step_index)
  task,         \* the state of each step's _execute_single_step task
  row,          \* the status of each step's row in tool_call_log
  dbErr         \* the steps for which a database call has failed (history)

vars == <<plan, pc, reason, unresolved, batch, results, task, row, dbErr>>

Steps == Indexes(plan)

TaskState == {"none", "created", "opened", "handling", "returned", "raised",
              "ok", "err"}
RowState == {"none", "running", "success", "failed"}

Ended == pc \in {"success", "error", "crashed"}

\* The steps whose results the run has collected (completed_steps counts them).
Completed == UNION {results[i] : i \in DOMAIN results}

Settled(s) == task[s] \in {"ok", "err"}

TypeOK ==
  /\ plan \in Plans
  /\ pc \in {"init", "gather", "success", "error", "crashed"}
  /\ reason \in {"none", "duplicate", "dependency", "cycle", "step"}
  /\ unresolved \in [Steps -> SUBSET Nat]
  /\ batch \subseteq Steps
  /\ results \in Seq(SUBSET Steps)
  /\ task \in [Steps -> TaskState]
  /\ row \in [Steps -> RowState]
  /\ dbErr \subseteq Steps

Init ==
  /\ plan \in Plans
  /\ pc = "init" /\ reason = "none"
  /\ unresolved = [s \in Steps |-> {}]
  /\ batch = {} /\ results = <<>>
  /\ task = [s \in Steps |-> "none"]
  /\ row = [s \in Steps |-> "none"]
  /\ dbErr = {}

-----------------------------------------------------------------------------
(* execute_plan *)

\* Mutant: dependents are looked for among the later steps only.
LaterDependents(s) == {t \in Steps : t > s /\ s \in Deps(plan, t)}

\* reverse_dependencies[s]: the steps that wait for s.
Dependents(s) == {t \in Steps : s \in Deps(plan, t)}

End(outcome, why) ==
  /\ pc' = outcome /\ reason' = why
  /\ UNCHANGED <<plan, task, row, dbErr>>

\* create_task for each step of the batch, then await gather.
Launch(ready) ==
  /\ pc' = "gather"
  /\ batch' = ready
  /\ task' = [s \in Steps |-> IF s \in ready THEN "created" ELSE task[s]]
  /\ UNCHANGED <<plan, reason, row, dbErr>>

RefuseDuplicate ==
  /\ pc = "init" /\ HasDuplicate(plan)
  /\ End("error", "duplicate")
  /\ UNCHANGED <<unresolved, batch, results>>

RunEmptyPlan ==
  /\ pc = "init" /\ Steps = {}
  /\ End("success", "none")
  /\ UNCHANGED <<unresolved, batch, results>>

RefuseDependency ==
  /\ pc = "init" /\ ~HasDuplicate(plan) /\ HasBadDependency(plan)
  /\ End("error", "dependency")
  /\ UNCHANGED <<unresolved, batch, results>>

\* Nothing is ready: every step of the plan waits for another.
RefuseCycle ==
  /\ pc = "init" /\ WellFormed(plan) /\ Steps # {}
  /\ {s \in Steps : Deps(plan, s) = {}} = {}
  /\ End("error", "cycle")
  /\ UNCHANGED <<unresolved, batch, results>>

LaunchFirstBatch ==
  LET ready == {s \in Steps : Deps(plan, s) = {}}
  IN  /\ pc = "init" /\ WellFormed(plan) /\ ready # {}
      /\ unresolved' = [s \in Steps |-> Deps(plan, s)]
      /\ Launch(ready)
      /\ UNCHANGED results

\* Mutant: gather without return_exceptions returns at the first exception.
FirstExceptionSettles ==
  /\ pc = "gather"
  /\ (\A s \in batch : Settled(s)) \/ \E s \in batch : task[s] = "err"

\* gather returns when every task of the batch has a result or an exception.
BatchSettled == pc = "gather" /\ \A s \in batch : Settled(s)

BatchFailed == \E s \in batch : task[s] = "err"

RaiseStepError ==
  /\ BatchSettled /\ BatchFailed
  /\ End("error", "step")
  /\ UNCHANGED <<unresolved, batch, results>>

\* The dependencies that are left once the results of the batch are in, and
\* the steps whose last one has just been discarded.
Remaining == [s \in Steps |-> unresolved[s] \ batch]
\* Mutant: the dependents of the batch are released whatever they still miss.
AllDependents == UNION {Dependents(b) : b \in batch}
\* Mutant: every step with nothing unresolved is ready, run or not.
NothingUnresolved == {s \in Steps : Remaining[s] = {}}
Released == {s \in UNION {Dependents(b) : b \in batch} : Remaining[s] = {}}

CollectBatch ==
  /\ BatchSettled /\ ~BatchFailed
  /\ results' = Append(results, batch)
  /\ unresolved' = Remaining

LaunchNextBatch ==
  /\ CollectBatch
  /\ Released # {}
  /\ Launch(Released)

\* No step is ready any more.  completed_steps # len(step_map) means that the
\* steps left over wait for each other: the cycle is found only here, after
\* everything outside it has run.
FinishPlan ==
  /\ CollectBatch
  /\ Released = {}
  /\ UNCHANGED batch
  /\ IF Completed' = Steps THEN End("success", "none") ELSE End("error", "cycle")

-----------------------------------------------------------------------------
(* _execute_single_step, as the task of step s *)

\* A task lives until it settles or the process dies, whatever the run does.
Move(s, from, to) ==
  /\ pc # "crashed" /\ task[s] = from
  /\ task' = [task EXCEPT ![s] = to]
  /\ UNCHANGED <<plan, pc, reason, unresolved, batch, results>>

SetRow(s, status) == row' = [row EXCEPT ![s] = status] /\ UNCHANGED dbErr

\* A database call that raises: its statement has committed or it has not.
DbFails(s, status) ==
  /\ \/ row' = [row EXCEPT ![s] = status]
     \/ UNCHANGED row
  /\ dbErr' = dbErr \cup {s}

OpenLog(s) == Move(s, "created", "opened") /\ SetRow(s, "running")

\* The insert is outside the try: the exception leaves the task at once.
OpenLogFails(s) == Move(s, "created", "err") /\ DbFails(s, "running")

\* ensure_tool_allowed, get_tool and model_validate, then the handler starts.
StartHandler(s) ==
  /\ StepOf(plan, s).callable
  /\ Move(s, "opened", "handling") /\ UNCHANGED <<row, dbErr>>

\* Mutant: the whitelist is checked before the try.
RefuseOutsideTry(s) ==
  /\ ~StepOf(plan, s).callable
  /\ Move(s, "opened", "err") /\ UNCHANGED <<row, dbErr>>

RefuseTool(s) ==
  /\ ~StepOf(plan, s).callable
  /\ Move(s, "opened", "raised") /\ UNCHANGED <<row, dbErr>>

HandlerSucceeds(s) == Move(s, "handling", "returned") /\ UNCHANGED <<row, dbErr>>

\* The handler raises, or returns a result whose success flag is false.
HandlerFails(s) == Move(s, "handling", "raised") /\ UNCHANGED <<row, dbErr>>

LogSuccess(s) == Move(s, "returned", "ok") /\ SetRow(s, "success")

\* The update is inside the try: the step goes on to be logged as failed.
LogSuccessFails(s) == Move(s, "returned", "raised") /\ DbFails(s, "success")

LogFailure(s) == Move(s, "raised", "err") /\ SetRow(s, "failed")

\* The update of the except branch raises: gather gets this exception.
LogFailureFails(s) == Move(s, "raised", "err") /\ DbFails(s, "failed")

TaskStep(s) ==
  \/ OpenLog(s) \/ OpenLogFails(s)
  \/ StartHandler(s) \/ RefuseTool(s)
  \/ HandlerSucceeds(s) \/ HandlerFails(s)
  \/ LogSuccess(s) \/ LogSuccessFails(s)
  \/ LogFailure(s) \/ LogFailureFails(s)

-----------------------------------------------------------------------------
\* The process is killed (a pod eviction, a crash); nothing recovers the run.
Crash ==
  /\ ~Ended
  /\ pc' = "crashed"
  /\ UNCHANGED <<plan, reason, unresolved, batch, results, task, row, dbErr>>

PlanStep ==
  \/ RefuseDuplicate \/ RunEmptyPlan \/ RefuseDependency \/ RefuseCycle
  \/ LaunchFirstBatch \/ RaiseStepError \/ LaunchNextBatch \/ FinishPlan

Progress == PlanStep \/ \E s \in Steps : TaskStep(s)

Next == Progress \/ Crash

\* The event loop runs every ready task, database calls time out after five
\* seconds and a handler is a bounded number of them.
Fairness == WF_vars(Progress)

Spec == Init /\ [][Next]_vars

FairSpec == Spec /\ Fairness

-----------------------------------------------------------------------------
(* What must hold *)

\* A step's task exists only when every dependency has returned its result and
\* its row says success: gather, the release of dependents and the order of
\* "log, then return" in _execute_single_step together guarantee it.
DepsSucceeded ==
  \A s \in Steps : task[s] # "none" =>
    \A d \in Deps(plan, s) : task[d] = "ok" /\ row[d] = "success"

\* A member of a cyclic core never gets a task, although the executor notices
\* the cycle only after it has run the steps outside it.
CoreNeverRuns ==
  \A core \in SUBSET Steps :
    WellFormed(plan) /\ IsCore(plan, core) => \A s \in core : task[s] = "none"

\* A run that returns has executed every step of a plan without a cycle, each
\* logged as a success.
SuccessMeansAll ==
  pc = "success" =>
    /\ WellFormed(plan) /\ ~Cyclic(plan)
    /\ Completed = Steps
    /\ \A s \in Steps : task[s] = "ok" /\ row[s] = "success"

\* The error execute_plan raises is the true one: "cycle" only when the steps
\* left over form a cyclic core and everything else succeeded, a step error
\* only when a step failed, and a refused plan has run nothing.
ErrorExplained ==
  pc = "error" =>
    /\ reason # "none"
    /\ reason = "duplicate"  => HasDuplicate(plan)
    /\ reason = "dependency" => HasBadDependency(plan)
    /\ reason = "cycle" => /\ IsCore(plan, Steps \ Completed)
                           /\ \A s \in Completed : task[s] = "ok"
    /\ reason = "step"  => \E s \in Steps : task[s] = "err"

\* step_results does not depend on how the tasks of a batch interleave: a
\* step's result is in the batch right after that of its last dependency.
ResultsByDepth ==
  \A i \in DOMAIN results : \A s \in results[i] :
    /\ Deps(plan, s) \subseteq UNION {results[j] : j \in 1..(i - 1)}
    /\ i > 1 => Deps(plan, s) \cap results[i - 1] # {}

\* When the caller gets its answer no task is in flight, and the log tells
\* what happened except for a step one of whose database calls failed; a row
\* left "running" is such a step's, and the run has then ended in error.
RowsTellOutcome ==
  pc \in {"success", "error"} =>
    \A s \in Steps :
      \/ task[s] = "none" /\ row[s] = "none"
      \/ task[s] = "ok"   /\ row[s] = "success"
      \/ task[s] = "err"  /\ (row[s] = "failed" \/ s \in dbErr)

\* After a step has failed no further step gets a task: the other tasks of its
\* batch finish and the run ends.
StopsAfterError ==
  [][(\E s \in Steps : task[s] = "err") =>
       \A t \in Steps : task[t] = "none" => task'[t] = "none"]_vars

\* A closed row is not rewritten, except that a success whose acknowledgement
\* was lost is turned into a failure by the except branch.
ClosedRowsStay ==
  [][\A s \in Steps :
       row[s] \in {"success", "failed"} /\ row'[s] # row[s]
         => row[s] = "success" /\ row'[s] = "failed" /\ s \in dbErr]_vars

\* The executor implements the abstract run of a dependency graph, fairness
\* included: every run that is not killed ends.
Run == INSTANCE DagRun WITH
         begun <- {s \in Steps : task[s] # "none"},
         ok <- {s \in Steps : task[s] = "ok"},
         err <- {s \in Steps : task[s] = "err"},
         outcome <- IF Ended THEN pc ELSE "running"

ImplementsDagRun == Run!Spec

\* A well-formed plan without a cycle succeeds unless a step fails or the
\* process is killed: no order of completion can strand a step.
GoodPlanSucceeds ==
  (WellFormed(plan) /\ ~Cyclic(plan))
    ~> (pc \in {"success", "crashed"} \/ \E s \in Steps : task[s] = "err")
=============================================================================
