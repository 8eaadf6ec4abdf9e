------------------------ MODULE PlanExecutorProofs -------------------------
(***************************************************************************)
(* Theorems about PlanExecutor, for every set of plans.                    *)
(***************************************************************************)
EXTENDS PlanExecutor, TLAPS

-----------------------------------------------------------------------------
(* The inductive invariant.                                                *)

Started == {s \in Steps : task[s] # "none"}

\* Before the first batch nothing has been touched.
Fresh ==
  pc = "init" => Started = {} /\ results = <<>> /\ dbErr = {}

\* Only a well-formed plan gets tasks.  Tasks exist for the collected batches
\* and the current one; whatever is collected has succeeded.
Bookkeeping ==
  /\ Started # {} => WellFormed(plan)
  /\ Started = Completed \cup batch
  /\ \A s \in Completed : task[s] = "ok"
  /\ \A s \in Started : Deps(plan, s) \subseteq Completed

\* While a batch runs: unresolved is what the collected batches leave of the
\* dependencies, and no step that could run has been forgotten.
Frontier ==
  pc = "gather" =>
    /\ WellFormed(plan)
    /\ batch \cap Completed = {}
    /\ unresolved = [s \in Steps |-> Deps(plan, s) \ Completed]
    /\ \A s \in Steps : Deps(plan, s) \subseteq Completed => s \in Started

\* The row of a step follows its task.
RowFollowsTask ==
  \A s \in Steps :
    /\ task[s] \in {"none", "created"} => row[s] = "none"
    /\ task[s] \in {"opened", "handling", "returned"} => row[s] = "running"
    /\ task[s] = "raised" =>
         row[s] = "running" \/ (row[s] = "success" /\ s \in dbErr)
    /\ task[s] = "ok" => row[s] = "success"
    /\ task[s] = "err" => row[s] = "failed" \/ s \in dbErr

\* How the run has ended.
Outcome ==
  /\ pc = "success" => WellFormed(plan) /\ Completed = Steps
  /\ pc \in {"success", "error"} => \A s \in Started : Settled(s)
  /\ ErrorExplained

IInv ==
  /\ TypeOK
  /\ Fresh
  /\ Bookkeeping
  /\ Frontier
  /\ RowFollowsTask
  /\ CoreNeverRuns
  /\ Outcome

-----------------------------------------------------------------------------
(* Lemmas *)

\* The dependencies of a step are indexes.
LEMMA DepsType ==
  ASSUME NEW p \in Plans, NEW s \in Indexes(p)
  PROVE  Deps(p, s) \in SUBSET Nat
<1>1. p \in Seq(Step)
  BY PlansAssumption
<1> DEFINE i == CHOOSE i \in DOMAIN p : p[i].step_index = s
<1>2. i \in DOMAIN p
  BY DEF Indexes
<1>3. p[i] \in Step
  BY <1>1, <1>2
<1> QED
  BY <1>3 DEF Deps, StepOf, Step

\* Collecting a batch adds exactly its steps to the completed ones.
LEMMA CollectAdds ==
  ASSUME TypeOK, CollectBatch
  PROVE  Completed' = Completed \cup batch
<1>1. results \in Seq(SUBSET Steps) /\ results' = Append(results, batch)
  BY DEF TypeOK, CollectBatch
<1>2. DOMAIN results' = DOMAIN results \cup {Len(results) + 1}
  BY <1>1
<1>3. results'[Len(results) + 1] = batch
  BY <1>1
<1>4. \A j \in DOMAIN results : results'[j] = results[j]
  BY <1>1
<1> QED
  BY <1>2, <1>3, <1>4 DEF Completed

\* The initial states satisfy the invariant.
LEMMA InitIInv == Init => IInv
<1> SUFFICES ASSUME Init PROVE IInv
  OBVIOUS
<1> USE DEF Init
<1>1. TypeOK
  BY DEF TypeOK, TaskState, RowState
<1>2. Started = {} /\ Completed = {}
  BY DEF Started, Completed
<1>3. Fresh /\ Bookkeeping /\ Frontier
  BY <1>2 DEF Fresh, Bookkeeping, Frontier
<1>4. RowFollowsTask
  BY DEF RowFollowsTask
<1>5. CoreNeverRuns
  BY DEF CoreNeverRuns, IsCore
<1>6. Outcome
  BY DEF Outcome, ErrorExplained
<1> QED
  BY <1>1, <1>3, <1>4, <1>5, <1>6 DEF IInv

-----------------------------------------------------------------------------
(* The steps of execute_plan *)

\* Ending a run that has no task in flight keeps the invariant.
LEMMA EndKeeps ==
  ASSUME IInv, NEW outcome \in {"success", "error"},
         NEW why \in {"none", "duplicate", "dependency", "cycle", "step"},
         End(outcome, why), UNCHANGED <<unresolved, batch, results>>,
         \A s \in Started : Settled(s),
         outcome = "success" => WellFormed(plan) /\ Completed = Steps,
         ErrorExplained'
  PROVE  IInv'
<1> USE DEF IInv, End
<1>1. Steps' = Steps /\ Started' = Started /\ Completed' = Completed
  BY DEF Steps, Started, Completed
<1>2. TypeOK'
  BY <1>1 DEF TypeOK
<1>3. Fresh' /\ Frontier'
  BY DEF Fresh, Frontier
<1>4. Bookkeeping'
  BY <1>1 DEF Bookkeeping
<1>5. RowFollowsTask'
  BY <1>1 DEF RowFollowsTask
<1>6. CoreNeverRuns'
  BY <1>1 DEF CoreNeverRuns
<1>7. Outcome'
  BY <1>1 DEF Outcome, Settled
<1> QED
  BY <1>2, <1>3, <1>4, <1>5, <1>6, <1>7

\* The refusals, and the plan with no step.
LEMMA RefusalsKeep ==
  ASSUME IInv,
         RefuseDuplicate \/ RunEmptyPlan \/ RefuseDependency \/ RefuseCycle
  PROVE  IInv'
<1>1. Started = {} /\ Completed = {} /\ pc = "init"
  BY DEF IInv, Fresh, Completed, RefuseDuplicate, RunEmptyPlan,
         RefuseDependency, RefuseCycle
<1>2. CASE RefuseDuplicate
  <2>1. ErrorExplained'
    BY <1>2 DEF RefuseDuplicate, End, ErrorExplained
  <2> QED
    BY <1>1, <1>2, <2>1, EndKeeps DEF RefuseDuplicate
<1>3. CASE RunEmptyPlan
  <2>1. ErrorExplained'
    BY <1>3 DEF RunEmptyPlan, End, ErrorExplained
  <2>2. WellFormed(plan)
    BY <1>3 DEF RunEmptyPlan, WellFormed, HasDuplicate, HasBadDependency,
                Steps, Indexes
  <2> QED
    BY <1>1, <1>3, <2>1, <2>2, EndKeeps DEF RunEmptyPlan
<1>4. CASE RefuseDependency
  <2>1. ErrorExplained'
    BY <1>4 DEF RefuseDependency, End, ErrorExplained
  <2> QED
    BY <1>1, <1>4, <2>1, EndKeeps DEF RefuseDependency
<1>5. CASE RefuseCycle
  <2>1. \A s \in Steps : Deps(plan, s) \subseteq Steps /\ Deps(plan, s) # {}
    BY <1>5 DEF RefuseCycle, WellFormed, HasBadDependency, Steps
  <2>2. IsCore(plan, Steps \ Completed)
    BY <1>1, <1>5, <2>1 DEF RefuseCycle, IsCore
  <2>3. ErrorExplained'
    BY <1>1, <1>5, <2>2
    DEF RefuseCycle, End, ErrorExplained, Steps, Completed
  <2> QED
    BY <1>1, <1>5, <2>3, EndKeeps DEF RefuseCycle
<1> QED
  BY <1>2, <1>3, <1>4, <1>5

\* A step error ends the run when all tasks of the batch have settled.
LEMMA RaiseKeeps == IInv /\ RaiseStepError => IInv'
<1> SUFFICES ASSUME IInv, RaiseStepError PROVE IInv'
  OBVIOUS
<1>1. \A s \in Started : Settled(s)
  BY DEF IInv, Bookkeeping, RaiseStepError, BatchSettled, Settled
<1>2. ErrorExplained'
  <2>1. PICK s \in batch : task[s] = "err"
    BY DEF RaiseStepError, BatchFailed
  <2>2. s \in Steps' /\ task'[s] = "err"
    BY <2>1 DEF RaiseStepError, End, IInv, TypeOK, Steps
  <2> QED
    BY <2>2 DEF RaiseStepError, End, ErrorExplained
<1> QED
  BY <1>1, <1>2, EndKeeps DEF RaiseStepError

\* Launching a set of steps whose dependencies have all been collected.
LEMMA LaunchKeeps ==
  ASSUME IInv, NEW ready \in SUBSET Steps, Launch(ready),
         pc \in {"init", "gather"},
         WellFormed(plan),
         results' \in Seq(SUBSET Steps),
         Completed' = Started,
         \A s \in Started : task[s] = "ok",
         ready \cap Started = {},
         \A s \in Steps : Deps(plan, s) \subseteq Started
                            => s \in Started \cup ready,
         \A s \in ready : Deps(plan, s) \subseteq Started,
         unresolved' = [s \in Steps |-> Deps(plan, s) \ Started]
  PROVE  IInv'
<1> USE DEF IInv, Launch
<1>1. Steps' = Steps /\ plan' = plan
  BY DEF Steps
<1>2. task \in [Steps -> TaskState] /\ task' \in [Steps -> TaskState]
  BY DEF TypeOK, TaskState
<1>3. Started' = Started \cup ready
  BY <1>1, <1>2 DEF Started
<1>4. \A s \in Started : s \notin ready /\ task'[s] = task[s]
  BY DEF Started
<1>5. TypeOK'
  <2>1. unresolved' \in [Steps -> SUBSET Nat]
    BY DepsType DEF TypeOK, Steps
  <2> QED
    BY <1>1, <1>2, <2>1 DEF TypeOK
<1>6. Fresh' /\ Outcome'
  BY DEF Fresh, Outcome, ErrorExplained
<1>7. Bookkeeping'
  <2>1. \A s \in Started : Deps(plan, s) \subseteq Started
    BY DEF Bookkeeping, Started
  <2>2. batch' = ready
    OBVIOUS
  <2> QED
    BY <1>1, <1>3, <1>4, <2>1, <2>2 DEF Bookkeeping
<1>8. Frontier'
  BY <1>1, <1>3 DEF Frontier
<1>9. RowFollowsTask'
  <2>1. \A s \in ready : row[s] = "none"
    BY DEF RowFollowsTask, Started
  <2> QED
    BY <1>1, <2>1 DEF RowFollowsTask
<1>10. CoreNeverRuns'
  <2>1. ASSUME NEW core \in SUBSET Steps, IsCore(plan, core)
        PROVE  core \cap Started' = {}
    <3>1. core \cap Started = {}
      BY <2>1 DEF CoreNeverRuns, Started
    <3>2. core \cap ready = {}
      BY <2>1, <3>1 DEF IsCore
    <3> QED
      BY <1>3, <3>1, <3>2
  <2>2. \A core \in SUBSET Steps :
          IsCore(plan, core) => \A s \in core : task'[s] = "none"
    BY <1>1, <2>1 DEF Started
  <2> QED
    BY <1>1, <2>2 DEF CoreNeverRuns
<1> QED
  BY <1>5, <1>6, <1>7, <1>8, <1>9, <1>10

\* The first batch: the steps without dependencies.
LEMMA LaunchFirstKeeps == IInv /\ LaunchFirstBatch => IInv'
<1> SUFFICES ASSUME IInv, LaunchFirstBatch PROVE IInv'
  OBVIOUS
<1> DEFINE ready == {s \in Steps : Deps(plan, s) = {}}
<1>1. Launch(ready) /\ WellFormed(plan) /\ pc = "init"
  BY DEF LaunchFirstBatch
<1>2. Started = {} /\ Completed = {} /\ Completed' = {}
  BY <1>1 DEF IInv, Fresh, LaunchFirstBatch, Completed
<1>3. results' \in Seq(SUBSET Steps)
  BY DEF IInv, TypeOK, LaunchFirstBatch
<1>4. unresolved' = [s \in Steps |-> Deps(plan, s) \ Started]
  BY <1>2 DEF LaunchFirstBatch
<1> HIDE DEF ready
<1> QED
  BY <1>1, <1>2, <1>3, <1>4, LaunchKeeps DEF ready

\* What a collected batch leaves: everything started is now collected and has
\* succeeded, and a step is released exactly when that completed its
\* dependencies.
LEMMA CollectFacts ==
  ASSUME IInv, CollectBatch, ~BatchFailed, BatchSettled
  PROVE  /\ Completed' = Started
         /\ \A s \in Started : task[s] = "ok"
         /\ Remaining = [s \in Steps |-> Deps(plan, s) \ Started]
         /\ Released \in SUBSET Steps
         /\ Released \cap Started = {}
         /\ \A s \in Released : Deps(plan, s) \subseteq Started
         /\ \A s \in Steps : Deps(plan, s) \subseteq Started
                               => s \in Started \cup Released
<1> USE DEF IInv
<1>1. Completed' = Completed \cup batch /\ Started = Completed \cup batch
  BY CollectAdds DEF Bookkeeping
<1>2. \A s \in Started : task[s] = "ok"
  BY <1>1 DEF BatchSettled, BatchFailed, Settled, Bookkeeping
<1>3. unresolved = [s \in Steps |-> Deps(plan, s) \ Completed]
  BY DEF BatchSettled, Frontier
<1>4. Remaining = [s \in Steps |-> Deps(plan, s) \ Started]
  BY <1>1, <1>3 DEF Remaining
<1>5. Released \in SUBSET Steps
  BY DEF Released, Dependents
<1>6. \A s \in Released : Deps(plan, s) \subseteq Started
  BY <1>4, <1>5 DEF Released
<1>7. Released \cap Started = {}
  <2> SUFFICES ASSUME NEW s \in Released, s \in Started PROVE FALSE
    OBVIOUS
  <2>1. PICK b \in batch : b \in Deps(plan, s)
    BY DEF Released, Dependents
  <2>2. Deps(plan, s) \subseteq Completed
    BY DEF Bookkeeping
  <2> QED
    BY <2>1, <2>2 DEF Frontier, BatchSettled
<1>8. ASSUME NEW s \in Steps, Deps(plan, s) \subseteq Started
      PROVE  s \in Started \cup Released
  <2>1. CASE Deps(plan, s) \subseteq Completed
    BY <2>1 DEF Frontier, BatchSettled
  <2>2. CASE ~(Deps(plan, s) \subseteq Completed)
    <3>1. PICK b \in batch : b \in Deps(plan, s)
      BY <1>1, <1>8, <2>2
    <3>2. s \in Dependents(b) /\ Remaining[s] = {}
      BY <1>4, <1>8, <3>1 DEF Dependents
    <3> QED
      BY <3>2 DEF Released
  <2> QED
    BY <2>1, <2>2
<1> QED
  BY <1>1, <1>2, <1>4, <1>5, <1>6, <1>7, <1>8

\* The next batch.
LEMMA LaunchNextKeeps == IInv /\ LaunchNextBatch => IInv'
<1> SUFFICES ASSUME IInv, LaunchNextBatch PROVE IInv'
  OBVIOUS
<1>1. CollectBatch /\ BatchSettled /\ ~BatchFailed /\ Launch(Released)
  BY DEF LaunchNextBatch, CollectBatch
<1>2. results' \in Seq(SUBSET Steps)
  BY <1>1 DEF CollectBatch, IInv, TypeOK
<1>3. WellFormed(plan) /\ pc = "gather"
  BY <1>1 DEF IInv, Frontier, BatchSettled
<1>4. unresolved' = Remaining
  BY <1>1 DEF CollectBatch
<1> QED
  BY <1>1, <1>2, <1>3, <1>4, CollectFacts, LaunchKeeps

\* The end of the loop: the run succeeds, or the steps left are a cyclic core.
LEMMA FinishKeeps == IInv /\ FinishPlan => IInv'
<1> SUFFICES ASSUME IInv, FinishPlan PROVE IInv'
  OBVIOUS
<1> USE DEF IInv
<1>1. CollectBatch /\ BatchSettled /\ ~BatchFailed /\ Released = {}
  BY DEF FinishPlan, CollectBatch
<1>2. /\ pc' \in {"success", "error"} /\ plan' = plan
      /\ UNCHANGED <<task, row, dbErr, batch>>
      /\ pc' = "success" => Completed' = Steps /\ reason' = "none"
      /\ pc' = "error" => Completed' # Steps /\ reason' = "cycle"
  BY DEF FinishPlan, End
<1>3. Steps' = Steps /\ Started' = Started /\ WellFormed(plan)
  BY <1>1, <1>2 DEF Steps, Started, Frontier, BatchSettled
<1>4. /\ Completed' = Started
      /\ \A s \in Started : task[s] = "ok"
      /\ \A s \in Steps : Deps(plan, s) \subseteq Started => s \in Started
  BY <1>1, CollectFacts
<1>5. TypeOK'
  <2>1. Remaining \in [Steps -> SUBSET Nat]
    BY <1>1, CollectFacts, DepsType DEF TypeOK, Steps
  <2>2. unresolved' = Remaining /\ results' = Append(results, batch)
    BY <1>1 DEF CollectBatch
  <2> QED
    BY <1>2, <1>3, <2>1, <2>2 DEF TypeOK
<1>6. Fresh' /\ Frontier'
  BY <1>2 DEF Fresh, Frontier
<1>7. Bookkeeping'
  <2>1. \A s \in Started : Deps(plan, s) \subseteq Started
    BY DEF Bookkeeping
  <2>2. batch \subseteq Started
    BY DEF Bookkeeping
  <2> QED
    BY <1>2, <1>3, <1>4, <2>1, <2>2 DEF Bookkeeping
<1>8. RowFollowsTask' /\ CoreNeverRuns'
  BY <1>2, <1>3 DEF RowFollowsTask, CoreNeverRuns
<1>9. ErrorExplained'
  <2> SUFFICES ASSUME pc' = "error"
               PROVE  IsCore(plan', (Steps \ Completed)')
    BY <1>2, <1>3, <1>4 DEF ErrorExplained
  <2>1. \A s \in Steps : Deps(plan, s) \subseteq Steps
    BY <1>3 DEF WellFormed, HasBadDependency, Steps
  <2>2. \A s \in Steps \ Started : Deps(plan, s) \cap (Steps \ Started) # {}
    BY <1>4, <2>1
  <2>3. Steps \ Started # {}
    BY <1>2, <1>4 DEF Started
  <2>4. IsCore(plan, Steps \ Started)
    BY <2>2, <2>3 DEF IsCore
  <2> QED
    BY <1>2, <1>3, <1>4, <2>4
<1>10. Outcome'
  BY <1>2, <1>3, <1>4, <1>9 DEF Outcome, Settled
<1> QED
  BY <1>5, <1>6, <1>7, <1>8, <1>9, <1>10

-----------------------------------------------------------------------------
(* The steps of a task *)

\* A step of a task changes neither the plan's bookkeeping nor which steps have
\* started, and the task it moves had not been collected.
LEMMA MoveKeeps ==
  ASSUME IInv, NEW s \in Steps,
         NEW from \in {"created", "opened", "handling", "returned", "raised"},
         NEW to \in TaskState \ {"none"},
         Move(s, from, to)
  PROVE  /\ Fresh' /\ Bookkeeping' /\ Frontier' /\ CoreNeverRuns' /\ Outcome'
         /\ Steps' = Steps
         /\ task' \in [Steps -> TaskState]
         /\ pc = "gather"
<1> USE DEF IInv, Move
<1>0. pc = "gather" /\ pc' = "gather"
  BY DEF Fresh, Outcome, Started, Settled, TypeOK
<1>1. Steps' = Steps /\ Completed' = Completed
  BY DEF Steps, Completed
<1>2. task \in [Steps -> TaskState] /\ task' \in [Steps -> TaskState]
  BY DEF TypeOK
<1>3. s \notin Completed
  BY DEF Bookkeeping
<1>4. \A t \in Steps : (task'[t] = "none") <=> (task[t] = "none")
  BY <1>2 DEF TaskState
<1>5. Started' = Started
  BY <1>1, <1>4 DEF Started
<1>6. Completed \subseteq Started /\ Started \subseteq Steps
  BY DEF Bookkeeping, Started
<1>7. \A t \in Completed : task'[t] = "ok"
  BY <1>2, <1>3, <1>6 DEF Bookkeeping
<1>8. Fresh' /\ Outcome'
  BY <1>0 DEF Fresh, Outcome, ErrorExplained
<1>9. Bookkeeping'
  BY <1>1, <1>5, <1>7 DEF Bookkeeping
<1>10. Frontier'
  BY <1>1, <1>5 DEF Frontier
<1>11. CoreNeverRuns'
  BY <1>1, <1>4 DEF CoreNeverRuns
<1> QED
  BY <1>0, <1>1, <1>2, <1>8, <1>9, <1>10, <1>11

LEMMA TaskKeeps == ASSUME IInv, NEW s \in Steps, TaskStep(s) PROVE IInv'
<1> DEFINE From == {"created", "opened", "handling", "returned", "raised"}
<1>1. PICK from \in From, to \in TaskState \ {"none"} : Move(s, from, to)
  BY DEF TaskStep, OpenLog, OpenLogFails, StartHandler, RefuseTool,
         HandlerSucceeds, HandlerFails, LogSuccess, LogSuccessFails,
         LogFailure, LogFailureFails, TaskState
<1>2. /\ Fresh' /\ Bookkeeping' /\ Frontier' /\ CoreNeverRuns' /\ Outcome'
      /\ Steps' = Steps
      /\ task' \in [Steps -> TaskState]
  BY <1>1, MoveKeeps
<1>3. /\ row \in [Steps -> RowState] /\ task \in [Steps -> TaskState]
      /\ dbErr \in SUBSET Steps /\ RowFollowsTask
  BY DEF IInv, TypeOK
<1>4. row' \in [Steps -> RowState] /\ dbErr' \in SUBSET Steps
  BY <1>3 DEF TaskStep, OpenLog, OpenLogFails, StartHandler, RefuseTool,
         HandlerSucceeds, HandlerFails, LogSuccess, LogSuccessFails,
         LogFailure, LogFailureFails, SetRow, DbFails, RowState
<1>5. TypeOK'
  BY <1>1, <1>2, <1>4 DEF IInv, TypeOK, Move
<1>6. RowFollowsTask'
  <2>1. ASSUME NEW t \in Steps, t # s
        PROVE  /\ row'[t] = row[t] /\ task'[t] = task[t]
               /\ (t \in dbErr) => (t \in dbErr')
    BY <1>3, <2>1 DEF TaskStep, Move, OpenLog, OpenLogFails, StartHandler,
         RefuseTool, HandlerSucceeds, HandlerFails, LogSuccess,
         LogSuccessFails, LogFailure, LogFailureFails, SetRow, DbFails
  <2>2. /\ task'[s] \in {"none", "created"} => row'[s] = "none"
        /\ task'[s] \in {"opened", "handling", "returned"}
             => row'[s] = "running"
        /\ task'[s] = "raised" =>
             row'[s] = "running" \/ (row'[s] = "success" /\ s \in dbErr')
        /\ task'[s] = "ok" => row'[s] = "success"
        /\ task'[s] = "err" => row'[s] = "failed" \/ s \in dbErr'
    BY <1>3 DEF TaskStep, Move, OpenLog, OpenLogFails, StartHandler,
         RefuseTool, HandlerSucceeds, HandlerFails, LogSuccess,
         LogSuccessFails, LogFailure, LogFailureFails, SetRow, DbFails,
         RowFollowsTask
  <2> QED
    BY <1>2, <1>3, <2>1, <2>2 DEF RowFollowsTask
<1> QED
  BY <1>2, <1>5, <1>6 DEF IInv

LEMMA CrashKeeps == IInv /\ Crash => IInv'
<1> SUFFICES ASSUME IInv, Crash PROVE IInv'
  OBVIOUS
<1>1. Steps' = Steps /\ Started' = Started /\ Completed' = Completed
  BY DEF Crash, Steps, Started, Completed
<1>2. TypeOK'
  BY <1>1 DEF IInv, TypeOK, Crash
<1>3. Fresh' /\ Frontier' /\ Outcome'
  BY DEF Crash, Fresh, Frontier, Outcome, ErrorExplained
<1>4. Bookkeeping'
  BY <1>1 DEF IInv, Bookkeeping, Crash
<1>5. RowFollowsTask' /\ CoreNeverRuns'
  BY <1>1 DEF IInv, RowFollowsTask, CoreNeverRuns, Crash
<1> QED
  BY <1>2, <1>3, <1>4, <1>5 DEF IInv

LEMMA StutterKeeps == IInv /\ UNCHANGED vars => IInv'
<1> SUFFICES ASSUME IInv, UNCHANGED vars PROVE IInv'
  OBVIOUS
<1>1. Steps' = Steps /\ Started' = Started /\ Completed' = Completed
  BY DEF vars, Steps, Started, Completed
<1>2. TypeOK' /\ Fresh' /\ Bookkeeping' /\ Frontier'
  BY <1>1 DEF IInv, vars, TypeOK, Fresh, Bookkeeping, Frontier
<1>3. RowFollowsTask' /\ CoreNeverRuns'
  BY <1>1 DEF IInv, vars, RowFollowsTask, CoreNeverRuns
<1>4. ErrorExplained'
  BY <1>1 DEF IInv, vars, Outcome, ErrorExplained
<1>5. Outcome'
  BY <1>1, <1>4 DEF IInv, vars, Outcome, Settled
<1> QED
  BY <1>2, <1>3, <1>5 DEF IInv

LEMMA NextKeeps == IInv /\ [Next]_vars => IInv'
  BY RefusalsKeep, LaunchFirstKeeps, RaiseKeeps, LaunchNextKeeps, FinishKeeps,
     TaskKeeps, CrashKeeps, StutterKeeps
  DEF Next, Progress, PlanStep

-----------------------------------------------------------------------------
(* Theorems *)

\* The inductive invariant holds of every behaviour.
THEOREM Inductive == Spec => []IInv
<1> QED
  BY InitIInv, NextKeeps, PTL DEF Spec

\* The variables of execute_plan, of its tasks and of tool_call_log have their
\* types, whatever the plans.
THEOREM TypeCorrect == Spec => []TypeOK
<1>1. IInv => TypeOK
  BY DEF IInv
<1> QED
  BY <1>1, Inductive, PTL

\* A step gets a task only when every dependency has returned and its row in
\* tool_call_log says success.
THEOREM DependenciesFirst == Spec => []DepsSucceeded
<1>1. IInv => DepsSucceeded
  <2> SUFFICES ASSUME IInv, NEW s \in Steps, task[s] # "none",
                      NEW d \in Deps(plan, s)
               PROVE  task[d] = "ok" /\ row[d] = "success"
    BY DEF DepsSucceeded
  <2>1. d \in Completed /\ d \in Steps
    BY DEF IInv, Bookkeeping, Started
  <2>2. task[d] = "ok"
    BY <2>1 DEF IInv, Bookkeeping
  <2> QED
    BY <2>1, <2>2 DEF IInv, RowFollowsTask
<1> QED
  BY <1>1, Inductive, PTL

\* Whatever the cycle detection finds late, no member of a cycle ever runs.
THEOREM CyclesNeverRun == Spec => []CoreNeverRuns
<1>1. IInv => CoreNeverRuns
  BY DEF IInv
<1> QED
  BY <1>1, Inductive, PTL

\* A run that returns normally has executed every step of an acyclic plan.
THEOREM SuccessIsComplete == Spec => []SuccessMeansAll
<1>1. IInv => SuccessMeansAll
  <2> SUFFICES ASSUME IInv, pc = "success"
               PROVE  /\ WellFormed(plan) /\ ~Cyclic(plan)
                      /\ Completed = Steps
                      /\ \A s \in Steps : task[s] = "ok" /\ row[s] = "success"
    BY DEF SuccessMeansAll
  <2>1. WellFormed(plan) /\ Completed = Steps
    BY DEF IInv, Outcome
  <2>2. \A s \in Steps : task[s] = "ok"
    BY <2>1 DEF IInv, Bookkeeping
  <2>3. \A s \in Steps : row[s] = "success"
    BY <2>2 DEF IInv, RowFollowsTask
  <2>4. ~Cyclic(plan)
    BY <2>1, <2>2 DEF IInv, CoreNeverRuns, Cyclic, IsCore, Steps
  <2> QED
    BY <2>1, <2>2, <2>3, <2>4
<1> QED
  BY <1>1, Inductive, PTL

\* The exception execute_plan raises names the true reason.
THEOREM ErrorsAreTrue == Spec => []ErrorExplained
<1>1. IInv => ErrorExplained
  BY DEF IInv, Outcome
<1> QED
  BY <1>1, Inductive, PTL

\* When execute_plan has returned or raised no task is in flight, and the log
\* differs from what happened only where a database call failed.
THEOREM LogIsTrue == Spec => []RowsTellOutcome
<1>1. IInv => RowsTellOutcome
  <2> SUFFICES ASSUME IInv, pc \in {"success", "error"}, NEW s \in Steps
               PROVE  \/ task[s] = "none" /\ row[s] = "none"
                      \/ task[s] = "ok"   /\ row[s] = "success"
                      \/ task[s] = "err"  /\ (row[s] = "failed" \/ s \in dbErr)
    BY DEF RowsTellOutcome
  <2>1. task[s] \in {"none", "ok", "err"}
    BY DEF IInv, Outcome, Started, Settled
  <2> QED
    BY <2>1 DEF IInv, RowFollowsTask
<1> QED
  BY <1>1, Inductive, PTL

\* Once a step has failed no further step is started.
THEOREM NoStartAfterError == Spec => StopsAfterError
<1>1. ASSUME IInv, [Next]_vars, NEW f \in Steps, task[f] = "err",
             NEW t \in Steps, task[t] = "none"
      PROVE  task'[t] = "none"
  <2>1. task \in [Steps -> TaskState] /\ f \in batch /\ f \notin Completed
    BY <1>1 DEF IInv, TypeOK, Bookkeeping, Started
  <2>2. ~LaunchFirstBatch
    BY <1>1 DEF LaunchFirstBatch, IInv, Fresh, Started
  <2>3. ~LaunchNextBatch /\ ~FinishPlan
    BY <1>1, <2>1 DEF LaunchNextBatch, FinishPlan, CollectBatch, BatchFailed
  <2>4. ASSUME NEW s \in Steps, TaskStep(s)
        PROVE  task'[t] = "none"
    <3>1. task[s] # "none" /\ \E to \in TaskState : task' = [task EXCEPT ![s] = to]
      BY <2>4 DEF TaskStep, Move, OpenLog, OpenLogFails, StartHandler,
         RefuseTool, HandlerSucceeds, HandlerFails, LogSuccess,
         LogSuccessFails, LogFailure, LogFailureFails, TaskState
    <3> QED
      BY <1>1, <2>1, <3>1
  <2>5. CASE UNCHANGED task
    BY <1>1, <2>5
  <2> QED
    BY <1>1, <2>2, <2>3, <2>4, <2>5
    DEF Next, Progress, PlanStep, RefuseDuplicate, RunEmptyPlan,
        RefuseDependency, RefuseCycle, RaiseStepError, End, Crash, vars
<1>2. IInv /\ [Next]_vars =>
        [(\E s \in Steps : task[s] = "err") =>
           \A t \in Steps : task[t] = "none" => task'[t] = "none"]_vars
  BY <1>1
<1> QED
  BY <1>2, Inductive, PTL DEF Spec, StopsAfterError

\* A closed row is rewritten only when the acknowledgement of a success was
\* lost and the except branch logs the step as failed.
THEOREM ClosedRowsAreFinal == Spec => ClosedRowsStay
<1>1. ASSUME IInv, [Next]_vars, NEW t \in Steps,
             row[t] \in {"success", "failed"}, row'[t] # row[t]
      PROVE  row[t] = "success" /\ row'[t] = "failed" /\ t \in dbErr
  <2>1. row \in [Steps -> RowState] /\ task \in [Steps -> TaskState]
    BY <1>1 DEF IInv, TypeOK
  <2>2. PICK s \in Steps : TaskStep(s)
    BY <1>1
    DEF Next, Progress, PlanStep, RefuseDuplicate, RunEmptyPlan,
        RefuseDependency, RefuseCycle, RaiseStepError, LaunchFirstBatch,
        LaunchNextBatch, FinishPlan, Launch, End, Crash, vars
  <2>3. s = t
    BY <1>1, <2>1, <2>2
    DEF TaskStep, OpenLog, OpenLogFails, StartHandler, RefuseTool,
        HandlerSucceeds, HandlerFails, LogSuccess, LogSuccessFails,
        LogFailure, LogFailureFails, SetRow, DbFails
  <2>4. task[t] = "raised" /\ row'[t] = "failed"
    BY <1>1, <2>1, <2>2, <2>3
    DEF TaskStep, OpenLog, OpenLogFails, StartHandler, RefuseTool,
        HandlerSucceeds, HandlerFails, LogSuccess, LogSuccessFails,
        LogFailure, LogFailureFails, SetRow, DbFails, Move, IInv,
        RowFollowsTask
  <2>5. t \in dbErr
    BY <1>1, <2>4 DEF IInv, RowFollowsTask
  <2> QED
    BY <1>1, <2>4, <2>5
<1>2. IInv /\ [Next]_vars =>
        [\A s \in Steps :
           row[s] \in {"success", "failed"} /\ row'[s] # row[s]
             => row[s] = "success" /\ row'[s] = "failed" /\ s \in dbErr]_vars
  BY <1>1
<1> QED
  BY <1>2, Inductive, PTL DEF Spec, ClosedRowsStay

-----------------------------------------------------------------------------
(* The order of the results.                                               *)

\* Each step of the running batch waited for the batch before.
Layers ==
  /\ ResultsByDepth
  /\ pc = "gather" /\ results # <<>> =>
       \A s \in batch : Deps(plan, s) \cap results[Len(results)] # {}

\* Collecting a batch appends it as the next layer.
LEMMA CollectLayer == ASSUME IInv, Layers, CollectBatch, plan' = plan
                      PROVE  ResultsByDepth'
<1> DEFINE Below(i) == UNION {results[j] : j \in 1..(i - 1)}
<1>1. results \in Seq(SUBSET Steps) /\ results' = Append(results, batch)
  BY DEF IInv, TypeOK, CollectBatch
<1>2. DOMAIN results = 1..Len(results) /\ Len(results) \in Nat
  BY <1>1
<1>3. /\ DOMAIN results' = 1..(Len(results) + 1)
      /\ results'[Len(results) + 1] = batch
      /\ \A j \in 1..Len(results) : results'[j] = results[j]
  BY <1>1
<1>4. ASSUME NEW i \in 1..(Len(results) + 1)
      PROVE  UNION {results'[j] : j \in 1..(i - 1)} = Below(i)
  BY <1>2, <1>3
<1>5. ASSUME NEW i \in 1..(Len(results) + 1), NEW s \in results'[i]
      PROVE  /\ Deps(plan, s) \subseteq Below(i)
             /\ i > 1 => Deps(plan, s) \cap results'[i - 1] # {}
  <2>1. CASE i \in 1..Len(results)
    <3>1. s \in results[i] /\ i \in DOMAIN results
      BY <1>2, <1>3, <1>5, <2>1
    <3>2. i > 1 => results'[i - 1] = results[i - 1]
      BY <1>2, <1>3, <2>1
    <3> QED
      BY <3>1, <3>2 DEF Layers, ResultsByDepth
  <2>2. CASE i = Len(results) + 1
    <3>1. s \in batch /\ s \in Started
      BY <1>3, <1>5, <2>2 DEF IInv, Bookkeeping
    <3>2. Completed = Below(i)
      BY <1>2, <2>2 DEF Completed
    <3>3. Deps(plan, s) \subseteq Below(i)
      BY <3>1, <3>2 DEF IInv, Bookkeeping
    <3>4. i > 1 => results # <<>> /\ results'[i - 1] = results[Len(results)]
      BY <1>2, <1>3, <2>2
    <3>5. i > 1 => Deps(plan, s) \cap results'[i - 1] # {}
      BY <3>1, <3>4 DEF Layers, CollectBatch, BatchSettled
    <3> QED
      BY <3>3, <3>5
  <2> QED
    BY <1>2, <2>1, <2>2
<1> QED
  BY <1>3, <1>4, <1>5 DEF ResultsByDepth

\* Every step keeps the layers.
LEMMA LayersKept == ASSUME IInv, Layers, [Next]_vars PROVE Layers'
<1>1. CASE LaunchFirstBatch
  <2>1. results' = <<>> /\ results = <<>>
    BY <1>1 DEF LaunchFirstBatch, IInv, Fresh
  <2> QED
    BY <2>1 DEF Layers, ResultsByDepth
<1>2. CASE LaunchNextBatch
  <2>1. CollectBatch /\ BatchSettled /\ ~BatchFailed /\ plan' = plan
        /\ batch' = Released
    BY <1>2 DEF LaunchNextBatch, CollectBatch, Launch
  <2>2. results' = Append(results, batch) /\ results \in Seq(SUBSET Steps)
    BY <2>1 DEF CollectBatch, IInv, TypeOK
  <2>3. results'[Len(results')] = batch
    BY <2>2
  <2>4. \A s \in Released : Deps(plan, s) \cap batch # {}
    BY DEF Released, Dependents
  <2>5. ResultsByDepth'
    BY <2>1, CollectLayer
  <2> QED
    BY <2>1, <2>3, <2>4, <2>5 DEF Layers
<1>3. CASE FinishPlan
  <2>1. CollectBatch /\ plan' = plan /\ pc' # "gather"
    BY <1>3 DEF FinishPlan, End
  <2> QED
    BY <2>1, CollectLayer DEF Layers
<1>4. CASE \/ RefuseDuplicate \/ RunEmptyPlan \/ RefuseDependency
           \/ RefuseCycle \/ RaiseStepError \/ Crash
  <2>1. UNCHANGED <<plan, results, batch>> /\ pc' # "gather"
    BY <1>4
    DEF RefuseDuplicate, RunEmptyPlan, RefuseDependency, RefuseCycle,
        RaiseStepError, End, Crash
  <2> QED
    BY <2>1 DEF Layers, ResultsByDepth
<1>5. CASE \E s \in Steps : TaskStep(s)
  <2>1. UNCHANGED <<plan, results, batch, pc>>
    BY <1>5
    DEF TaskStep, Move, OpenLog, OpenLogFails, StartHandler, RefuseTool,
        HandlerSucceeds, HandlerFails, LogSuccess, LogSuccessFails,
        LogFailure, LogFailureFails
  <2> QED
    BY <2>1 DEF Layers, ResultsByDepth
<1>6. CASE UNCHANGED vars
  BY <1>6 DEF vars, Layers, ResultsByDepth
<1> QED
  BY <1>1, <1>2, <1>3, <1>4, <1>5, <1>6 DEF Next, Progress, PlanStep

\* The batch of a step's result is given by its depth in the dependency graph,
\* so the result list is the same for every interleaving of the tasks.
THEOREM ResultsAreOrdered == Spec => []ResultsByDepth
<1>1. Init => Layers
  BY DEF Init, Layers, ResultsByDepth
<1>2. IInv /\ Layers /\ [Next]_vars => Layers'
  BY LayersKept
<1>3. Layers => ResultsByDepth
  BY DEF Layers
<1> QED
  BY <1>1, <1>2, <1>3, Inductive, PTL DEF Spec

-----------------------------------------------------------------------------
(* The executor implements the abstract run of a dependency graph.         *)

\* The two modules read a plan in the same way.
LEMMA SameGraph ==
  ASSUME NEW p
  PROVE  /\ Run!Indexes(p) = Indexes(p)
         /\ Run!HasDuplicate(p) = HasDuplicate(p)
         /\ \A s : Run!Deps(p, s) = Deps(p, s)
         /\ Run!WellFormed(p) = WellFormed(p)
         /\ \A core : Run!IsCore(p, core) = IsCore(p, core)
<1>1. Run!Indexes(p) = Indexes(p)
  BY DEF Run!Indexes, Indexes
<1>2. Run!HasDuplicate(p) = HasDuplicate(p)
  BY DEF Run!HasDuplicate, HasDuplicate
<1>3. \A s : Run!Deps(p, s) = Deps(p, s)
  BY DEF Run!Deps, Deps, Run!StepOf, StepOf
<1>4. Run!HasBadDependency(p) = HasBadDependency(p)
  BY <1>1, <1>3 DEF Run!HasBadDependency, HasBadDependency
<1>5. Run!WellFormed(p) = WellFormed(p)
  BY <1>2, <1>4 DEF Run!WellFormed, WellFormed
<1>6. \A core : Run!IsCore(p, core) = IsCore(p, core)
  BY <1>3 DEF Run!IsCore, IsCore
<1> QED
  BY <1>1, <1>2, <1>3, <1>5, <1>6

Failed == {s \in Steps : task[s] = "err"}
Succeeded == {s \in Steps : task[s] = "ok"}

\* Every initial state is one of the abstract run.
LEMMA InitMaps == Init => Run!Init
<1> SUFFICES ASSUME Init PROVE Run!Init
  OBVIOUS
<1>1. /\ {s \in Steps : task[s] # "none"} = {}
      /\ {s \in Steps : task[s] = "ok"} = {}
      /\ {s \in Steps : task[s] = "err"} = {}
  BY DEF Init
<1> QED
  BY <1>1 DEF Init, Run!Init, Ended

\* Launching a batch is beginning its steps.
LEMMA LaunchMaps ==
  ASSUME IInv, NEW ready \in SUBSET Steps, Launch(ready), ready # {},
         pc \in {"init", "gather"}, WellFormed(plan), Failed = {},
         ready \cap Started = {},
         \A s \in ready : Deps(plan, s) \subseteq Succeeded
  PROVE  Run!Next
<1>1. Steps' = Steps /\ plan' = plan
  BY DEF Launch, Steps
<1>2. /\ {s \in Steps' : task'[s] # "none"} = Started \cup ready
      /\ {s \in Steps' : task'[s] = "ok"} = Succeeded
      /\ {s \in Steps' : task'[s] = "err"} = Failed
  BY <1>1 DEF Launch, Started, Succeeded, Failed
<1>3. Ended = FALSE /\ Ended' = FALSE
  BY DEF Ended, Launch
<1>4. Run!WellFormed(plan) /\ \A s \in ready : Run!Deps(plan, s) \subseteq Succeeded
  BY SameGraph
<1>5. Run!Begin(ready)
  BY <1>1, <1>2, <1>3, <1>4 DEF Run!Begin, Started, Succeeded, Failed
<1> QED
  BY <1>5, SameGraph DEF Run!Next, Run!Progress, Steps

\* Ending a run with nothing in flight is Succeed or GiveUp.
LEMMA EndMaps ==
  ASSUME IInv, pc \in {"init", "gather"}, pc' \in {"success", "error"},
         UNCHANGED <<plan, task>>,
         \A s \in Started : Settled(s),
         pc' = "success" => WellFormed(plan) /\ Succeeded = Steps,
         pc' = "error" => \/ Failed # {} \/ ~WellFormed(plan)
                          \/ IsCore(plan, Steps \ Succeeded)
  PROVE  Run!Next
<1>1. Steps' = Steps
  BY DEF Steps
<1>2. /\ {s \in Steps' : task'[s] # "none"} = Started
      /\ {s \in Steps' : task'[s] = "ok"} = Succeeded
      /\ {s \in Steps' : task'[s] = "err"} = Failed
  BY <1>1 DEF Started, Succeeded, Failed
<1>3. Ended = FALSE /\ Ended' = TRUE
  BY DEF Ended
<1>4. Started = Succeeded \cup Failed
  BY DEF Started, Succeeded, Failed, Settled
<1>5. CASE pc' = "success"
  <2>1. Failed = {} /\ Succeeded = Run!Indexes(plan) /\ ~Run!HasDuplicate(plan)
    BY <1>5, SameGraph DEF Succeeded, Failed, Steps, WellFormed
  <2>2. Run!Succeed
    BY <1>2, <1>3, <1>5, <2>1 DEF Run!Succeed, Started, Succeeded, Failed
  <2> QED
    BY <2>2 DEF Run!Next, Run!Progress
<1>6. CASE pc' = "error"
  <2>1. \/ Failed # {} \/ ~Run!WellFormed(plan)
        \/ Run!IsCore(plan, Run!Indexes(plan) \ Succeeded)
    BY <1>6, SameGraph DEF Steps
  <2>2. Run!GiveUp
    BY <1>2, <1>3, <1>4, <1>6, <2>1 DEF Run!GiveUp, Started, Succeeded, Failed
  <2> QED
    BY <2>2 DEF Run!Next, Run!Progress
<1> QED
  BY <1>5, <1>6

\* A step of a task settles it or is invisible.
LEMMA TaskMaps ==
  ASSUME IInv, NEW s \in Steps, TaskStep(s)
  PROVE  Run!Next \/ UNCHANGED Run!vars
<1>1. PICK from \in {"created", "opened", "handling", "returned", "raised"},
           to \in TaskState \ {"none"} : Move(s, from, to)
  BY DEF TaskStep, OpenLog, OpenLogFails, StartHandler, RefuseTool,
         HandlerSucceeds, HandlerFails, LogSuccess, LogSuccessFails,
         LogFailure, LogFailureFails, TaskState
<1>2. /\ Steps' = Steps /\ plan' = plan /\ pc = "gather" /\ pc' = "gather"
      /\ task' = [task EXCEPT ![s] = to] /\ task[s] = from
      /\ task \in [Steps -> TaskState]
  BY <1>1, MoveKeeps DEF Move, Steps, IInv, TypeOK
<1>3. {t \in Steps' : task'[t] # "none"} = Started
  BY <1>2 DEF Started
<1>4. Ended = FALSE /\ Ended' = FALSE
  BY <1>2 DEF Ended
<1>5. s \in Started \ (Succeeded \cup Failed)
  BY <1>2 DEF Started, Succeeded, Failed
<1>6. CASE to = "ok"
  <2>1. /\ {t \in Steps' : task'[t] = "ok"} = Succeeded \cup {s}
        /\ {t \in Steps' : task'[t] = "err"} = Failed
    BY <1>2, <1>6 DEF Succeeded, Failed
  <2>2. Run!Settle(s)
    BY <1>2, <1>3, <1>4, <1>5, <2>1 DEF Run!Settle, Started, Succeeded, Failed
  <2> QED
    BY <2>2, SameGraph DEF Run!Next, Run!Progress, Steps
<1>7. CASE to = "err"
  <2>1. /\ {t \in Steps' : task'[t] = "ok"} = Succeeded
        /\ {t \in Steps' : task'[t] = "err"} = Failed \cup {s}
    BY <1>2, <1>7 DEF Succeeded, Failed
  <2>2. Run!Settle(s)
    BY <1>2, <1>3, <1>4, <1>5, <2>1 DEF Run!Settle, Started, Succeeded, Failed
  <2> QED
    BY <2>2, SameGraph DEF Run!Next, Run!Progress, Steps
<1>8. CASE to \notin {"ok", "err"}
  <2>1. /\ {t \in Steps' : task'[t] = "ok"} = Succeeded
        /\ {t \in Steps' : task'[t] = "err"} = Failed
    BY <1>2, <1>8 DEF Succeeded, Failed
  <2> QED
    BY <1>2, <1>3, <1>4, <2>1 DEF Run!vars, Started, Succeeded, Failed
<1> QED
  BY <1>6, <1>7, <1>8

\* Every step of the executor is a step of the abstract run or invisible.
LEMMA StepMaps ==
  ASSUME IInv, [Next]_vars
  PROVE  Run!Next \/ UNCHANGED Run!vars
<1>1. CASE RefuseDuplicate \/ RunEmptyPlan \/ RefuseDependency \/ RefuseCycle
  <2>1. Started = {} /\ Succeeded = {}
    BY <1>1 DEF IInv, Fresh, Started, Succeeded, RefuseDuplicate,
                RunEmptyPlan, RefuseDependency, RefuseCycle
  <2>2. CASE RefuseDuplicate \/ RefuseDependency
    <3>1. ~WellFormed(plan)
      BY <2>2 DEF RefuseDuplicate, RefuseDependency, WellFormed
    <3> QED
      BY <2>1, <2>2, <3>1, EndMaps
      DEF RefuseDuplicate, RefuseDependency, End, Started
  <2>3. CASE RunEmptyPlan
    <3>1. WellFormed(plan) /\ Succeeded = Steps
      BY <2>1, <2>3 DEF RunEmptyPlan, WellFormed, HasDuplicate,
                        HasBadDependency, Steps, Indexes
    <3> QED
      BY <2>1, <2>3, <3>1, EndMaps DEF RunEmptyPlan, End, Started
  <2>4. CASE RefuseCycle
    <3>1. IsCore(plan, Steps)
      BY <2>4 DEF RefuseCycle, WellFormed, HasBadDependency, Steps, IsCore
    <3> QED
      BY <2>1, <2>4, <3>1, EndMaps DEF RefuseCycle, End, Started
  <2> QED
    BY <1>1, <2>2, <2>3, <2>4
<1>2. CASE LaunchFirstBatch
  <2> DEFINE ready == {s \in Steps : Deps(plan, s) = {}}
  <2>1. Started = {} /\ Failed = {}
    BY <1>2 DEF IInv, Fresh, Started, Failed, LaunchFirstBatch
  <2>2. Launch(ready) /\ ready # {} /\ WellFormed(plan) /\ pc = "init"
    BY <1>2 DEF LaunchFirstBatch
  <2>3. /\ ready \in SUBSET Steps
        /\ \A s \in ready : Deps(plan, s) \subseteq Succeeded
    OBVIOUS
  <2> HIDE DEF ready
  <2> QED
    BY <2>1, <2>2, <2>3, LaunchMaps
<1>3. CASE RaiseStepError
  <2>1. \A s \in Started : Settled(s)
    BY <1>3 DEF IInv, Bookkeeping, RaiseStepError, BatchSettled, Settled
  <2>2. Failed # {}
    BY <1>3 DEF IInv, TypeOK, RaiseStepError, BatchFailed, Failed
  <2> QED
    BY <1>3, <2>1, <2>2, EndMaps DEF RaiseStepError, End, BatchSettled
<1>4. CASE LaunchNextBatch \/ FinishPlan
  <2>1. CollectBatch /\ BatchSettled /\ ~BatchFailed
    BY <1>4 DEF LaunchNextBatch, FinishPlan, CollectBatch
  <2>2. /\ Completed' = Started
        /\ \A s \in Started : task[s] = "ok"
        /\ Released \in SUBSET Steps
        /\ Released \cap Started = {}
        /\ \A s \in Released : Deps(plan, s) \subseteq Started
        /\ \A s \in Steps : Deps(plan, s) \subseteq Started
                              => s \in Started \cup Released
    BY <2>1, CollectFacts
  <2>3. Succeeded = Started /\ Failed = {}
    BY <2>2 DEF Started, Succeeded, Failed
  <2>4. WellFormed(plan) /\ pc = "gather"
    BY <2>1 DEF IInv, Frontier, BatchSettled
  <2>5. CASE LaunchNextBatch
    BY <2>2, <2>3, <2>4, <2>5, LaunchMaps DEF LaunchNextBatch
  <2>6. CASE FinishPlan
    <3>1. /\ Released = {} /\ UNCHANGED <<plan, task>>
          /\ pc' \in {"success", "error"}
          /\ pc' = "success" => Succeeded = Steps
          /\ pc' = "error" => Succeeded # Steps
      BY <2>2, <2>3, <2>6 DEF FinishPlan, End
    <3>2. \A s \in Steps : Deps(plan, s) \subseteq Steps
      BY <2>4 DEF WellFormed, HasBadDependency, Steps
    <3>3. Succeeded # Steps => IsCore(plan, Steps \ Succeeded)
      BY <2>2, <2>3, <3>1, <3>2 DEF IsCore, Succeeded
    <3> QED
      BY <2>2, <2>4, <3>1, <3>3, EndMaps DEF Settled
  <2> QED
    BY <1>4, <2>5, <2>6
<1>5. CASE \E s \in Steps : TaskStep(s)
  BY <1>5, TaskMaps
<1>6. CASE Crash
  <2>1. UNCHANGED <<plan, task>> /\ ~Ended /\ Ended' /\ pc' = "crashed"
    BY <1>6 DEF Crash, Ended
  <2>2. Steps' = Steps
    BY <2>1 DEF Steps
  <2>3. Run!Crash
    BY <2>1, <2>2 DEF Run!Crash
  <2> QED
    BY <2>3 DEF Run!Next
<1>7. CASE UNCHANGED vars
  BY <1>7 DEF vars, Run!vars, Steps, Ended
<1> QED
  BY <1>1, <1>2, <1>3, <1>4, <1>5, <1>6, <1>7 DEF Next, Progress, PlanStep

\* The executor implements the abstract run (its safety part; that it always
\* ends under fairness is model-checked).
THEOREM ExecutorImplementsRun == Spec => Run!SafeSpec
<1>1. IInv /\ [Next]_vars => [Run!Next]_(Run!vars)
  BY StepMaps
<1> QED
  BY <1>1, InitMaps, Inductive, PTL DEF Spec, Run!SafeSpec
=============================================================================
