# Formal models of ljwx-stock

TLA+ models of the programs in this repository, the TLC runs that check them on
small instances, and TLAPS proofs of what matters most for every instance.

- [The system](#the-system): components, state, operations, interactions, hard behaviours
- [Modules](#modules): which module models what, and how
- [Runs](#runs): what each run checks and shows, bounds, fairness
- [Proofs](#proofs): what is proved, from what, and how
- [What disagrees](#what-disagrees): runs that end in a counterexample
- [Not modelled](#not-modelled)
- [Plan](#plan)
- [Running](#running)

## The system

Four Python programs share one PostgreSQL database (schema `market`) and one
MinIO bucket.

```
 upstream quotes          PostgreSQL (market.*)                     MinIO
      |                        |                                      |
 stock_etl  --upsert-->  kline_daily --export-->  qlib_bootstrap --upload, LATEST-->
  (CronJob)                    |                     (CronJob)         |
                               |                              init container copies
 agent (FastAPI, 2 pods)       |                                      |
   /v1/chat: plan, tools <-----+                                qlib_predict
   strategy --upsert--> reco_daily <-----------upsert------------ (CronJob)
   /v1/qc/run <-- reads --+--> reco_qc_log, gauge
   agent_run_log, tool_call_log
```

Beside them a workflow of this repository hands every release to the deploy
repository: each run of `enqueue-release.yml` appends an entry to `pending` of one
file there, from which a promoter, maintained elsewhere, takes them out.

| component | state | operations | what is hard |
|---|---|---|---|
| plan executor, `agent/app/executor.py` | the batch, unresolved dependencies, results, the tasks of the steps, rows of `tool_call_log` | `execute_plan`, `_execute_single_step`, `insert_tool_call_log_start`, `update_tool_call_log_end` | tasks of a batch interleave; a cycle is found at the end only; an error is raised only when the batch has settled; a database call may fail after its commit |
| chat request, `agent/app/main.py` | the row of `agent_run_log`, planner and summary fallbacks, token counts | `chat`, `build_plan`, `create_run_log`, `update_run_log_*` | failures inside the handlers of failures; two fallbacks; a budget checked at the end; one row that must tell what the client was told |
| rate limiter, `agent/app/rate_limit.py` | a bucket per API key, in memory | `allow_request` | windows that start anywhere, pauses, restarts |
| tools that read quotes, `agent/app/tools/query_kline.py` | none (reads `kline_daily`) | `query_kline`, `query_kline_bulk` | the count and the rows are two statements, the LIMIT of the second comes from the first |
| strategies, `agent/app/strategy` | `reco_daily` | `run_ensemble_v1`, `insert_reco_daily_rows` | long transactions that lock rows in the order of ranks; readers with two statements |
| quality check, `agent/app/qc` | `reco_qc_log`, the gauge `reco_qc_status` | `run_reco_qc` | eight reads without a snapshot; the log and the gauge are two places |
| ETL, `stock_etl/app` | `kline_daily` | `run_ingest` in three modes, `upsert_kline_batch` | sources that fail and change their history, a commit per batch, overlapping modes |
| bootstrap, `qlib_bootstrap/app` | the bucket: directories by date, two `LATEST` objects and their `.tmp` | `run`, `publish_to_minio`, `atomic_write_latest` | no transaction in an object store; kills, overlaps and leftovers; a reader that copies file by file |
| prediction, `qlib_predict/app` | its volume, `reco_daily` | `resolve_model_files`, `run_prediction`, `upsert_reco_daily` | starts from whatever the copy has left |
| training windows, `qlib_bootstrap/app/train_model.py` | none | `_split_dates`, the segments of the dataset | floats that round, two places that must agree on a boundary |
| rules, indicators, quotes: `agent/app/planner_rule.py`, `tools/technical.py`, `tools/query_kline.py`, `synthesizer_template.py` | none | `build_rule_based_plan`, `calculate_rsi14`, `query_kline_handler`, `_resolve_latest_kline_row` | special cases (no loss, NULL closes), two tools that read the quotes at different times and with different limits |
| release queue, `.github/workflows/enqueue-release.yml` | `pending` of the deploy repository, a branch and a pull request per run | clone, push, branch, create, merge, delete | runs beside each other on one file, steps that fail after their effect, runs that are run again, merges by hand |

What makes each of them correct, in a sentence:

- *executor*: a step starts only after its dependencies have succeeded and are
  logged so; the outcome and its reason are the true ones; the log tells what
  happened unless a call to the database failed; an acyclic plan is executed.
- *chat*: the answer, the run's row and the rows of its tools agree; no tool goes
  on behind the end of its request; a fallback can be executed; every request is
  answered.
- *rate limiter*: no window admits more than a burst and a refill; no refusal is
  undue.
- *bulk query*: rows of a symbol come without a hole; what is missing is the tail
  and is reported.
- *lists*: two lists never mix, a found date has rows, a write that has begun ends.
- *quality check*: verdicts fit together, and are shown only when logged.
- *ETL*: what is counted as stored is stored, what failed is untouched, what is
  missing is at the new end; old prices of the main source come back only through
  runs that overlap; the previous quarter is a whole one, and a backfill of N
  trading days looks back over N of them.
- *publish*: `LATEST` names complete directories at every moment; a finished copy
  is whole; exit code 0 means switched; what was copied should be able
  to score the last day (it is not always: [below](#what-disagrees)).
- *training*: every day of the window is in one segment and in one only.
- *rules, indicators, quotes*: a fallback plan can be executed; RSI counts rises
  as it counts falls; the tools of one answer speak of the same day, unless a newer
  one was stored between their reads.
- *release queue*: no entry is lost, moved or queued twice, a promoted one stays
  out, what an earlier attempt has left behind does not come after a later one, and
  the outputs of a run are true.

**A note on this commit.** `agent/app/main.py` imports
`execute_plan_with_completed_steps` from `executor.py` and `CompletedPlanStep`
from `models.py` and calls `db.fetch_resumable_run_by_id`,
`db.fetch_latest_resumable_run_by_session` and `db.fetch_successful_tool_steps`;
none of them exists, and neither do the extra arguments of `create_run_log` nor
the fields `resume`, `resume_run_id` and `resumed_from_run_id` of the models. As
it stands the service does not start. The models take `chat` as it is written and
`execute_plan` as the executor it means; a resume is modelled only as far as
`chat` itself goes.

## Modules

Every component module has its state as VARIABLES and one action per operation
or per stretch of code between two points where another actor can come in: an
`await`, a call to the database, to MinIO or to the upstream. Definitions named
after a mutation ("Mutant: ...") are not part of `Next`: each is a plausible bug
in the definition after it, used to see that the properties notice it.

Common to all models: a call that raises may have had its effect or not (an
acknowledgement lost); a process may be killed anywhere; names and payloads are
values of small sets. Cancellation of a request (the client goes away) has the
effects of a kill and is not an action of its own.

| module | models | state | actions |
|---|---|---|---|
| `PlanGraph` | plans as data | | `WellFormed`, `HasDuplicate`, `HasBadDependency`, `IsCore`, `Cyclic` |
| `PlanExecutor` | `execute_plan` and its tasks | `pc`, `unresolved`, `batch`, `results`, `task`, `row` | the refusals, `LaunchFirstBatch`, `LaunchNextBatch`, `RaiseStepError`, `FinishPlan`; per step `OpenLog`, `StartHandler`, `RefuseTool`, `HandlerSucceeds/Fails`, `LogSuccess`, `LogFailure` and the failure of each database call; `Crash` |
| `DagRun` | what an executor promises (abstract) | steps begun, ok, err, outcome | `Begin`, `Settle`, `Succeed`, `GiveUp`, `Crash` |
| `ChatRun` | one `POST /v1/chat`, composed with `PlanExecutor` by INSTANCE | the variables of the executor, `phase`, `runRow`, fallbacks, tokens, `answer` | one action per await of `chat`, with its failure; `ExecuteStep` is a step of the executor |
| `RateLimiter` | `allow_request` | `now`, `buckets`; an observer's window | `Admit`, `Refuse`, `Tick`, `Restart`, `OpenWindow` |
| `KlineTable` | the keys of `kline_daily`, which `StockEtl` and `KlineBulk` share | | `RowKeys` |
| `KlineBulk` | `query_kline_bulk_handler` | `rows`, `query` | `Call`, `CountRows`, `FetchRows`, `StoreBatch` (the ETL) |
| `RecoDaily` | strategy runs that upsert lists, and `reco_query` | `rows`, `writer`, `reader` | `Score`, `UpsertRow` (waits for a lock), `Commit`, `Abort`, `ResolveTradeDate`, `FetchRows` |
| `QcRun` | `run_reco_qc` | `rows`, `mean`, `run`, `log`, `gauge` | one action per read, `InsertLog`, `SetGauge`, failures, `StoreList`, `Restart` |
| `StockEtl` | `run_ingest` | the upstream's `version`, `table`, `run` | `Retry`, `GiveUp` (to the other source), `UniverseArrives`, `FrameArrives`, `WriteBatch`, failures, `Kill`, `Rebase` (the upstream changes its history) |
| `EtlWindow` | `previous_quarter_window`, `decide_window` | a day that walks through the calendar | `Tomorrow` |
| `ModelPublish` | bootstrap runs, the bucket, the copy, the resolver | `tradeDate`, `objects`, `latest`, `tmp`, `job`, `sync`, `local` | one action per call to MinIO, with its failure and its lost answer; `Kill`; the copy file by file |
| `ReleaseQueue` | the job of `enqueue-release.yml`; git, GitHub, maintainers and the promoter around it | `file`, `head`, `taken`, `branch`, `pr`, `job` | `Start` (an attempt), `Clone`, `PushMain`, `PushBranch`, `CreatePr`, `MergePr`, `MergePrAgain`, `DeleteBranch`, `View`, each done or failed after its effect; `Stop`; outside: `MergeByHand`, `DeleteByHand`, `Promote` |
| `TrainWindow` | `_split_dates`, the segments of the dataset | | `Splits`, `Segments` |
| `PlanRules` | `build_rule_based_plan` | | `RulePlan`, of the intents of a query; `MCChatRun` takes its rule plans from here |
| `Indicators` | moving averages and RSI | | `MovingAverage`, `Rsi`, `Interpretation` |
| `Quotes` | the two reads of one symbol in a plan: `query_kline_handler` for the template, and again inside `technical_indicators_handler` | `stored`, `ask`, `shown`, `asof`; the history `since` | `Plan`, `QueryKline`, `TechnicalIndicators`, `StoreDays` (the ETL) |

Modules named `MC...` give a specification its instance; modules named
`...Proofs` hold the theorems.

### Choices of abstraction

- *Plans* (`PlanExecutor`, `ChatRun`): a plan is a sequence of steps with an
  index, a set of dependencies and `callable`, which stands for the whitelist,
  the registry and the validation of parameters together: all three raise inside
  the same `try`. In `ChatRun` the plan is chosen in the initial state and the
  planning actions decide only where it came from.
- *Results* are sets of steps per batch: the code sorts a batch by `step_index`,
  so the sets determine `step_results`.
- *Rate limiter*: floats are exact. A bucket counts units of `1/Minute` of a
  token, so a request costs `Minute` units and a tick refills `Rpm`. The clock is
  read just before the lock, and no coroutine ever awaits while holding the lock,
  so a call is one step.
- *Bulk query*: rows are pairs of symbol and date; a list of symbols is a set.
- *Lists*: scores are left out, since a list is any ranking of symbols, and ties
  (a set is iterated before the sort) make the order among equals arbitrary. Every
  row may carry another date, as `_extract_features` takes the last date of the
  symbol's own rows. A statement takes its row lock or waits; a deadlock ends in
  an abort, as PostgreSQL's detector or the timeout makes it.
- *Quality check*: `top_n` and `QC_LOOKBACK_DAYS` are at least the number of
  symbols and days of the instance. `|x - mean| > k * std` is compared squared and
  multiplied by the counts, in integers. With at most `MaxDate - 1` days of history
  some "warn" verdicts do not occur in the runs; no property distinguishes "warn"
  from "pass" except through the log.
- *ETL*: the upstream's answer for a symbol is a set of trade dates and the
  version of its history; a stored row remembers its writer and version. There are
  two sources (`stock_zh_a_hist`, and `stock_zh_a_hist_tx` when the first keeps
  failing) with a history each: versions count that of the main source, and rows of
  the fallback, which may be behind it or ahead, are `Incomparable`. The
  window is left out of `StockEtl` (any set of dates may come back) and has a
  module of its own.
- *Publish*: a file is its position in the sorted listing and its content is the
  run that made it. Export, dump and training are one step that may fail. The init
  container is not in this repository; it is modelled from the deployment described in
  `codex-prompts/P6c.md`, as the weakest thing that fits: it reads each `LATEST`,
  copies the directory in any order and writes the local `LATEST` last. The data of
  a run's date end with that date, and so do the features of its model; whether the
  predictor finds features for the day it scores (`HasFeatures`) is a comparison of
  the two dates.
- *Release queue*: the list is what the file holds; a branch is the entry it adds,
  the list it adds it to, and the head it was made at. Git merges two changes of the
  list when they do not touch, which is when the last entry is still the one of the
  clone; a rebase is a squash, because a branch has one commit. Maintainers merge
  whatever is open in any way and delete the branch of a run that is over; the
  promoter takes any entry. A failing step stops the job before or after its effect.
- *Functions without state*: `int(n * 0.70)` is the exact floor or, where the
  product is a whole number, possibly one less; a query is the set of intents its
  keywords ask for; decimals are exact, a fraction is a pair of integers; the row of
  a quote is its date, and each of the two reads of a plan is one statement.
- *The exchange* is not in this repository. What `BackfillHoldsTradingDays` needs of
  it is an assumption about its calendar, `ClosedAtMost`: of n days in a row it is
  closed on at most 10 + 6n/100 weekdays.

## Runs

| run | module | states | properties |
|---|---|---|---|
| `plan` | `MCPlanExecutor` | 13 thousand | `DepsSucceeded ErrorExplained ResultsByDepth RowsTellOutcome ClosedRowsStay ImplementsDagRun GoodPlanSucceeds` |
| `rate_limit` | `RateLimiter` | 178 thousand | `NeverOverRate RefusalJustified` |
| `chat` | `MCChatRun` | 34 thousand | `SuccessIsLogged RowTellsAnswer FallbackRuns RulePlansRun ToolsAreOver Answered` |
| `publish` | `MCModelPublish` | 1.0 million | `LatestComplete SyncedWhole ExitZeroSwitches LatestForward` |
| `etl` | `MCStockEtl` | 2.5 million | `FailedUntouched SuccessIsStored NoHole RowsForward` |
| `reco` | `RecoDaily` | 165 thousand | `NoMixture FoundDateHasRows WritesEnd` |
| `qc` | `MCQcRun` | 1.2 million | `RowsHaveMean GaugeWasLogged` |
| `kline_bulk` | `KlineBulk` | 633 thousand | `AnswerHasNoHole OnlyTailIsCut TruncationReported` |
| `release` | `MCReleaseQueue` | 2.4 million | `PromotedStaysOut OutputsAreTrue KeepsEntries NoLateEntry` |
| `pure_functions` | `MCPureFunctions` | 45 thousand | `QuarterIsWhole BackfillHoldsTradingDays SegmentsTile IndicatorsMeasure ToolsAgreeOnDay` |

and two that end in a counterexample, [below](#what-disagrees). The `TypeOK` of a module is a theorem ([Proofs](#proofs)) and
takes no time in the runs; that of `KlineBulk` is `BulkTypes`, beside the proofs.
Deadlock is not checked where the programs stop; the rate limiter, which does not,
has it checked.

What the properties say that a test would hardly reach:

- `plan`: the order of the results is the depth of the steps in the graph, however
  the tasks interleave (`ResultsByDepth`); at the end of a run that was not killed
  no task is in flight and a row differs from what happened only where a call to
  the database failed (`RowsTellOutcome`); a closed row is rewritten only after an
  acknowledgement was lost (`ClosedRowsStay`). `ImplementsDagRun` is the
  refinement of the abstract dependency run, with its fairness.
- `chat`: the tasks of the executor are free to run in every phase of the request,
  so that `ToolsAreOver` (no tool is in flight once the request has an end) is a
  property of `execute_plan` waiting for its whole batch, not of the composition.
  `RulePlansRun` says that the executor accepts and can finish the plan of every set
  of intents; `FallbackRuns` joins three parts: these plans, the planner that falls
  back to them, and the executor that checks them.
- `publish` and `etl`: runs may overlap. `LatestComplete`, `SyncedWhole`,
  `FailedUntouched`, `SuccessIsStored` and `NoHole` hold whatever overlaps. In
  `ModelPublish` a run remembers, in the history field `beside`, whether another one
  was going on when it started, and `Alone` says that none has; `ExitZeroSwitches`
  and `LatestForward` hold as long as `Alone` does, and fail without it. In
  `StockEtl` it remembers which ones were, and `RowsForward` speaks of each two runs
  that have not overlapped, whatever others do: in a row that both write, the one
  with the older history of the main source does not come second.
- `release`: each run writes a file it has read some steps before, and nothing but
  git's refusals keeps the others' entries in it: `KeepsEntries` and
  `PromotedStaysOut` are what these refusals and the merge rule amount to.
  `OutputsAreTrue` is about the step that fails behind a merge that has been done.
  All of them speak of entries, of which each attempt makes one. A *release* may be
  queued twice, and even come back after its promotion: an attempt that fails behind
  its push or its merge has queued an entry, and the next attempt makes another one.
  `NoLateEntry` says that this is the only way: what an earlier attempt has left
  behind, a branch or an open pull request, never comes into the queue after the
  entry of a later one. It rests on the name of the branch, which is the run's and
  not the attempt's.
- `pure_functions`: the two reads of `ToolsAgreeOnDay` are steps with commits of the
  ETL in between; the tools speak of one day unless the newer one was stored there.
  `BackfillHoldsTradingDays` is about `max(int(n * 1.7), n + 90)` being calendar days
  enough for n trading days, on either side of the n where one term takes over.
   `IndicatorsMeasure` states what RSI must be by what happens when
  prices are turned upside down and when the last close rises, and so reaches the
  special cases of the code (no gain, no loss) without repeating them.

Bounds, and why they are enough:

- *Plans*: every dependency relation on three steps (all acyclic shapes, every
  cycle, and a step outside a cycle), the empty plan, a duplicated index, a
  dependency that does not exist, a tool that cannot be called, the diamond on
  four steps, and a chain beside a cycle. The theorems remove the bound.
- *Chat*: budget 2 with counts 1 to 3: below, at and above the budget, with one
  summary more or less; the plans of the rules for all sixteen sets of intents, and
  plans of up to three steps that are refused, have a cycle or run side by side. The
  theorems remove the bound.
- *Rate limiter*: two requests a minute, a minute of three ticks, so that the
  refill per tick (2/3 of a token) is no whole number; seven ticks are more than
  two windows; one restart within a window. The theorems remove the bound.
- *Bulk query*: three symbols of three days, a cap of four rows and two per
  symbol: the cap falls before, inside and after a symbol, and both limits can
  bind. The theorems remove the bound, and put the ETL job in the place of the
  arbitrary writer.
- *Lists*: two writers, three symbols, two dates, lists of up to two rows: lists
  that share no row, one or both, locks taken in opposite orders, and rows that
  stay from the other list.
- *Quality check*: two checks, three verdicts each, two lists stored in between.
- *ETL*: two runs, two symbols, two days in batches of one (so that a run may stop
  between the batches of a symbol), one retry, two versions of the main source's
  history. The theorems remove the bound.
- *Windows*: four years with a leap year, every day; backfills of 0 to 300 trading
  days, on both sides of the 129 where the factor takes over from the margin. The
  theorems remove the bound.
- *Publish*: two runs, beside each other or one after the other, so that a run can
  follow one that died in each state; two dates, directories of different size.
  The theorems remove the bounds.
- *Release queue*: two runs with two attempts each, in every mode: a run repeated
  after each way to stop, beside another one; four entries, so that entries before,
  between and after an own one can come and go. The theorems remove the bound.
- *Functions*: training windows of 700 to 800 days (the shortest that is split is
  720) and of 1 to 10 years; up to six closes of 0 to 3 or NULL
  with a period of three (gains, losses, both, neither, too few); four days of
  quotes, stored in any order around the two reads, with every window and limits up
  to three. The theorems remove the bounds.

Symmetry is declared over the runs of the jobs, of the workflow and of the quality
check, and over its symbols, which the modules treat alike, and only in runs without liveness
properties.

**Fairness.** `PlanExecutor` and `ChatRun` have weak fairness of the progress of
the process: the event loop runs what is ready, every statement on a connection
has a timeout (`timeout=5.0`, `command_timeout`), the pool's waiters are served
because no holder of a connection waits for another one, and the LLM client has a
timeout. A kill is always possible and never fair, so liveness is "ends, unless
killed". `RecoDaily` has weak fairness of each writer whose transaction is open:
a statement that waits for a lock is ended by the timeout or the database's
deadlock detector. Nothing else is assumed; the ETL calls its main source without
a timeout, so no progress is claimed for it, and the jobs are ended by
`activeDeadlineSeconds`, which is a kill.

## Proofs

TLAPS proves the following for every value of the constants that satisfies the
module's ASSUME (all are types of the constants; none restricts their size, except
that the calendar of `EtlWindow` starts after the year 1, the first one `date` has).

`PlanExecutorProofs`, for every set of plans:

| theorem | says |
|---|---|
| `TypeCorrect` | `TypeOK` |
| `DependenciesFirst` | `DepsSucceeded` |
| `CyclesNeverRun` | `CoreNeverRuns`: no step of a cycle is ever started |
| `SuccessIsComplete` | `SuccessMeansAll`: success means every step of an acyclic plan |
| `ErrorsAreTrue` | `ErrorExplained` |
| `LogIsTrue` | `RowsTellOutcome` |
| `NoStartAfterError` | `StopsAfterError`: no step is started once one has failed |
| `ClosedRowsAreFinal` | `ClosedRowsStay` |
| `ResultsAreOrdered` | `ResultsByDepth` |
| `ExecutorImplementsRun` | `Spec` implies the safety part of `DagRun` |

The inductive invariant `IInv` says, beside the type: before the first batch
nothing has been touched; the steps with a task are the collected ones and the
batch, and these are disjoint; `unresolved` of a step is its dependencies without
the collected steps; *the frontier*: a step without a task either still waits for
a step that is not collected, or the plan is still at its start; a row follows
its task unless a call failed; an ended run has a true reason. The frontier is
what makes the check at the end of `execute_plan` sound: when nothing is
released, the steps left over wait for each other. `ResultsByDepth` needs one
more layer (`Layers`): each batch is released by the one before it.

`ModelPublishProofs`, for any number of runs, dates and files:

| theorem | says | assuming |
|---|---|---|
| `TypeCorrect` | `TypeOK` | |
| `LatestIsComplete` | `LatestComplete` | |
| `SyncIsWhole` | `SyncedWhole` | |
| `SuccessSwitches` | `ExitZeroSwitches` | |
| `LatestNeverBack` | `LatestForward` | `TRAIN_END_DATE` is unset (`Overrides = {}`) |

The invariant: an object under a date was put there by a run of that date; a run
at file *f* has uploaded what is before *f*; who is past the uploads has both
directories complete; what is in `LATEST.tmp` or `LATEST` names complete
directories (this is why a leftover `.tmp` or an interleaved copy does no harm);
and what the copy has taken so far is of the date it reads. Runs that
have overlapped have done so for good (`AloneBefore`); until then at most one runs
(`OneRuns`), a run that is switching has put its own date in `LATEST.tmp`
(`Serial`), and no date that `LATEST` names is newer than that of the run that
goes on (`Forward`).

`KlineProofs`, of the ETL job, for any number of runs, symbols, days and versions:
`TypeCorrect`, `FailedStaysUntouched` (`FailedUntouched`), `SuccessStaysStored`
(`SuccessIsStored`), `NoHoleEver` (`NoHole`) and `RowsOnlyForward` (`RowsForward`).
Every step of a run has one of a few shapes (it stays, downloads, writes more, writes
the last batch, ...), to which the actions are reduced first. The invariant keeps
the books of a run: what it has not begun it has not touched; of the download it
writes, every row that is not left to write is stored; what it counts is what it
stored. `RowsForward` needs in addition that no version
in the table or in a run is newer than the main source's (`VersionsBelow`), that any
two runs that are going on have overlapped, which they then have for good
(`OverlapOK`), and that a run that writes holds a version no older than the rows it
finds, but for those of runs it has overlapped (`WritesNewest`).

The same module, of the bulk query, for any number of symbols and days, any caps and
any rows stored between the two statements: `NoHoleInAnswer` (`AnswerHasNoHole`),
`CutsOnlyTail` (`OnlyTailIsCut`) and `TruncationIsTold` (`TruncationReported`). The
invariant `BulkInv` has little state to speak of (what was counted is there until it
is fetched, because rows are never deleted); the arguments are about counting: a row
has its `Place`, the number of rows before it in the ORDER BY; a LIMIT keeps the rows
whose place is below it; and what comes between the statements can move a row back
but never put an older one of its symbol before it.

`JobFeedsQuery` puts the two together: in `QueryBesideJob` the rows of the query are
what the ETL job has stored so far, and it implements the arbitrary writer of
`KlineBulk` (each step of the job, read through `StoredKeys`, is a `StoreBatch` of one
symbol or a stutter) as it implements its own specification. So everything proved of
either holds of the two side by side (`QueryBesideJobIsRight`).

`RecoDailyProofs`, for any number of writers, symbols and days: `TypeCorrect`,
`ListsNeverMix` (`NoMixture`) and `DateHasRows` (`FoundDateHasRows`). The invariant
adds that a run whose transaction has not committed has no row in the table and
that the date the reader holds has rows, which nothing ever deletes.

`QcRunProofs`, for any number of checks, symbols and days: `TypeCorrect`,
`RowsAlwaysHaveMean` (`RowsHaveMean`) and `GaugeAlwaysLogged` (`GaugeWasLogged`). Each
field a check has read bounds what the table can be afterwards, although every read
is of another moment: a count that was not zero is of a date that has rows and a
mean from then on; a verdict that goes to the gauge is in the log.

`ReleaseQueueProofs`, for any number of runs and attempts: `TypeCorrect`,
`PromotedNeverBack` (`PromotedStaysOut`: of an entry), `OutputsAlwaysTrue`
(`OutputsAreTrue`), `EntriesKept` (`KeepsEntries`) and `NeverLate` (`NoLateEntry`). The
invariant: the
file holds an entry once and none that was taken; the entry of an attempt that has
not been pushed or merged is not in the file and was never taken; an open pull
request is the one its branch holds; and a clone made at the present head has the
present file, which is why a push that is not refused appends. `NeverLate` adds that
a branch of a run holds the entry of no attempt before one that is queued.

`ChatApiProofs`, of a chat request, for every set of plans, budget and set of counts:
`TypeCorrect`, `SuccessAlwaysLogged` (`SuccessIsLogged`), `RowAlwaysTells`
(`RowTellsAnswer`), `ToolsStayOver` (`ToolsAreOver`), and `RequestRunsPlan` (every
behaviour of a request is one of `execute_plan` for the executor's variables, so that
whatever is proved of the executor holds within a request), hence
`RequestImplementsRun` (a request, too, implements the safety part of `DagRun`). It
instantiates `PlanExecutorProofs` and takes over its invariant: a step of the request
is a step of the executor or leaves it alone. To that it adds where the row, the flag,
the tokens and the plan are in each phase; that the tasks of an ended plan have
settled, from the executor's invariant, is why no tool can run on.

`RulesAlwaysRun` proves of the plan of every set of intents that the executor accepts
it, has all of its tools and finds no cycle: the step with the least index in any set
depends on none of the others. From it follow, when `RulePlans` is what the code's
rules give (`RulePlans = PlansOfRules`, as in the run), `RulePlansAlwaysRun`
(`RulePlansRun`) and `FallbackAlwaysRuns` (`FallbackRuns`).

The same module, of the rate limiter, for every rate, clock and set of keys:
`LimiterTypeCorrect`, `RateBound` (`NeverOverRate`) and `RefusalsAreDue`
(`RefusalJustified`). The invariant bounds from both sides what
an observer has counted plus what the key could still get: the level of its
bucket plus the admitted requests is at most the bound of the window, and at
least `Rpm` once the window is a minute long. Neither property is inductive
without the level.

`PureFunctionsProofs`, of the functions without state, over all inputs where the run
takes bounded ones, and of the two reads of a plan:

| theorem | says | argument |
|---|---|---|
| `SegmentsAlwaysTile`, `CasesTile` | `SegmentsTile`: the segments of every training window of at least 720 days tile it, however the two shares are rounded | linear arithmetic on the two cuts |
| `QuarterAlwaysWhole` | `QuarterIsWhole` on every day of every calendar | the state walks through dates only (`TodayIsADate`, inductive: months have 28 to 31 days); a quarter starts one day after the last one ended, over leap years too |
| `BackfillReaches`, `CasesReach` | `BackfillHoldsTradingDays` for every n and every day | a stretch of d days holds at least (5d - 10)/7 weekdays, and the closures take at most 10 + 6d/100 of them; linear arithmetic on both sides of the `max` |
| `RsiAlwaysMeasures` | `RsiMeasures` for closes of any number and size | the sum of the losses is the sum of the gains of the mirrored prices; raising the last close raises one and lowers the other |
| `AverageAlwaysMeasures` | `AverageMeasures`, likewise | a sum lies between its least and its greatest term times their number |
| `CasesMeasure` | `IndicatorsMeasure` | from these two |
| `ToolsAlwaysAgree` | `ToolsAgreeOnDay`, for every number of days, window and pair of limits, whatever is stored around the two reads | `ReadsStayNewest`, inductive: each tool shows the newest day asked for that was stored when it read, since the newest one is within every limit |

What a fold computes is defined by recursion, and the induction theorems of the
library cannot be used (no prover instantiates an operator parameter). Two things
take their place. A recursive function on the naturals exists and is what its
equation says by well-founded minimality: of the places where it would fail there is a
least one (lemma `Smallest`), and the equation holds there after all. And a sum is
given another form without recursion, the number of units below the terms (lemma
`TotalCounts`), so that what is needed of sums follows from the theorems about
cardinalities.

**Only model-checked**: liveness, which is out of the reach of the prover's temporal
back end: `GoodPlanSucceeds`, the fairness part of `ImplementsDagRun` (its safety part is
`ExecutorImplementsRun`), `Answered` and `WritesEnd`; and the two counterexamples. Every
other property of the runs is a theorem. No module declares a RECURSIVE operator.

## What disagrees

| run | what the text says | what the code does |
|---|---|---|
| `publish_predictor` | `codex-prompts/P6c.md:25`: once a bootstrap has succeeded, the prediction job runs through and writes `reco_daily` | a run switches the `LATEST` of the data before that of the model (`bootstrap/main.py:146-158`); a prediction that starts in between, or after a failure there, scores the last day of the new data with a handler that ends with the older training (`feature_builder.py:19` replaces the segments only), finds no features and fails |
| `qc_gauge_latest` | `metrics.py:27`: the gauge has the latest status | two checks interleave between the insert and the gauge, which then shows the older verdict |

Two more that need no run, as one line of code shows each: the planner falls back to
rules when the query is over the budget (`planner_rule.py:155-161`), but the count is
kept and `main.py:360` fails the run for the same budget after all its tools have
run, so that this fallback can never serve a request; and `qlib_bootstrap/README.md:51`
gives exit code 2 to a failed preflight, while an error of the database is no
`RuntimeError` and leaves the program with 1 (`main.py:52`).

Known limits that no text contradicts are in the list of hazards of
`PROJECT.json`, with a note where no property covers them: rows left "running" by
a kill, the rate limit of two replicas, rows of earlier lists that stay in
`reco_daily`, overlapping ETL runs and rows of the fallback, a release that is queued again by a
run repeated after a step failed behind its effect, files of two builds of one date, and a summary that is sent
although its fallback is reported (`main.py:344-352`, when only the counting of its
tokens fails).

## Not modelled

- *Resume*, beyond `chat`: the functions do not exist (see the note above).
- *Training, export and dump*, beyond the windows: sequential, on local files;
  LightGBM and qlib do the work. Stale files in `OUTPUT_ROOT` between runs are not
  modelled either.
- *`vendor/qlib_dump_bin.py`*: third-party code.
- *The scores of the strategies*: decimal formulas without state; `RecoDaily` takes
  any ranking they may lead to.
- *LLM providers, the template*: prompts, parsing and wording; `ChatRun` has their
  results and exceptions, `Quotes` the day the template names.
- *Configuration, authentication, logging, counters, DDL, manifests*: no behaviour
  beyond a lookup.
- *The promoter and the deploy repository*: not in this repository; `ReleaseQueue`
  has them as the workflow uses them.

## Plan

Done, in this order: `PlanExecutor` with `DagRun` and proofs; `RateLimiter` with
proofs; `ChatRun`; `ModelPublish` with proofs; `StockEtl`, `EtlWindow`;
`RecoDaily`; `QcRun`; `KlineBulk`; `ReleaseQueue` with proofs; the functions without
state (`TrainWindow` with proofs, `PlanRules`, `Indicators`, `Quotes`); proofs for
`StockEtl`, `RecoDaily`, `QcRun` and `ChatRun`; what the predictor can score; proofs
for `KlineBulk`, alone and beside the ETL job, for the plans of the rules, and for the
functions without state.

What is left, the most useful first:

1. The readers of `kline_daily` and `reco_daily` other than the bulk query beside their
   writers, as `JobFeedsQuery` has it for the bulk query: the export of `ModelPublish`,
   the quality check beside the transactions of `RecoDaily`.
2. Two replicas of the agent: the sum of two limiters, two gauges.
3. `merge_strategy_signals` (weights renormalised over the strategies that answer).
4. A resume, once its functions exist.

## Running

```
tlc -workers 2 -config MCPlanExecutor.cfg MCPlanExecutor
tlapm PlanExecutorProofs.tla
```

`PROJECT.json` lists the runs with their configurations, the source lines of every
definition (`map`), the mutant that each property catches, the hazards and the
theorems.
