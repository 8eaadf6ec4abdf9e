------------------------------- MODULE QcRun --------------------------------
(***************************************************************************)
(* The quality check of the stored recommendations,                        *)
(* agent/app/qc/qc_runner.py `run_reco_qc`: up to eight reads with no      *)
(* common snapshot, three verdicts (agent/app/qc/reco_qc.py), and for each *)
(* one a row of market.reco_qc_log and then the gauge of                   *)
(* agent/app/metrics.py.  Runs of one process are coroutines: they         *)
(* interleave at every await, with each other and with the lists that      *)
(* RecoDaily commits.                                                      *)
(*                                                                         *)
(* One strategy; top_n and QC_LOOKBACK_DAYS are no smaller than the number *)
(* of symbols and of days.  Mean scores are numbers of a small scale.      *)
(***************************************************************************)
EXTENDS Integers, Sequences, FiniteSets, Functions

CONSTANTS
  Runs,           \* requests to /v1/qc/run
  Symbols,
  MaxDate,        \* trade dates are 1..MaxDate
  Means,          \* mean scores
  ColdStartMin,   \* QC_COLD_START_MIN
  MaxWrites,      \* bound on the lists stored
  None

Dates == 1..MaxDate
NoDate == 0
Checks == 1..3    \* row_count_check, score_distribution_check, overlap_check
Statuses == {"pass", "warn", "error"}

ASSUME QcAssumption ==
  /\ MaxDate \in Nat \ {0} /\ ColdStartMin \in Nat /\ MaxWrites \in Nat
  /\ Means \subseteq Nat /\ Means # {} /\ None \notin Means
  /\ IsFiniteSet(Symbols) /\ Symbols # {}

VARIABLES
  rows,     \* rows[d]: the symbols stored for the day d
  mean,     \* mean[d]: avg(score) of the day d, None if it has no row
  writes,
  run,
  log,      \* log[c]: the rows of market.reco_qc_log of a check, oldest first
  gauge     \* RECO_QC_STATUS, by check; None before the first run

vars == <<rows, mean, writes, run, log, gauge>>

Reading == {"resolve", "count", "counts", "mean", "means", "top", "previous", "before"}
Running == Reading \cup {"log", "gauge"}

Partial(S) == UNION {[dates -> S] : dates \in SUBSET Dates}

TypeOK ==
  /\ rows \in [Dates -> SUBSET Symbols]
  /\ mean \in [Dates -> Means \cup {None}]
  /\ \A d \in Dates : rows[d] = {} <=> mean[d] = None
  /\ writes \in 0..MaxWrites
  /\ \A r \in Runs :
       /\ run[r].pc \in Running \cup {"idle", "done", "failed"}
       /\ run[r].date \in Dates \cup {NoDate} /\ run[r].prev \in Dates \cup {NoDate}
       /\ run[r].count \in 0..Cardinality(Symbols)
       /\ run[r].counts \in Partial(1..Cardinality(Symbols))
       /\ run[r].mean \in Means \cup {None} /\ run[r].means \in Partial(Means)
       /\ run[r].top \subseteq Symbols
       /\ run[r].check \in Checks /\ run[r].results \in [Checks -> Statuses]
  /\ \A c \in Checks : log[c] \in Seq([run : Runs, status : Statuses])
  /\ gauge \in [Checks -> Statuses \cup {None}]

Fresh ==
  [pc |-> "idle", date |-> NoDate, count |-> 0, counts |-> <<>>, mean |-> None,
   means |-> <<>>, top |-> {}, prev |-> NoDate, check |-> 1,
   results |-> [c \in Checks |-> "pass"]]

Init ==
  /\ rows = [d \in Dates |-> {}]
  /\ mean = [d \in Dates |-> None]
  /\ writes = 0
  /\ run = [r \in Runs |-> Fresh]
  /\ log = [c \in Checks |-> <<>>]
  /\ gauge = [c \in Checks |-> None]

\* A list is committed (RecoDaily): rows are added or replaced, never removed.
StoreList ==
  /\ writes < MaxWrites /\ writes' = writes + 1
  /\ \E d \in Dates, list \in (SUBSET Symbols) \ {{}}, m \in Means :
       /\ rows' = [rows EXCEPT ![d] = @ \cup list]
       /\ mean' = [mean EXCEPT ![d] = m]
  /\ UNCHANGED <<run, log, gauge>>

-----------------------------------------------------------------------------
(* The verdicts.                                                           *)

\* |x - mean| > k * std of a history, multiplied out: no root, no rounding.  An
\* empty one has a mean and a deviation of 0.
Outside(x, history, k) ==
  LET n == IF DOMAIN history = {} THEN 1 ELSE Cardinality(DOMAIN history)
      sum == SumFunction(history)
      squares == SumFunction([d \in DOMAIN history |-> history[d] * history[d]])
  IN  (n * x - sum) * (n * x - sum) > k * k * (n * squares - sum * sum)

ColdStart(history) == Cardinality(DOMAIN history) < ColdStartMin

RowCountStatus(count, counts) ==
  IF count = 0 THEN "error"
  ELSE IF ~ColdStart(counts) /\ Outside(count, counts, 2) THEN "warn" ELSE "pass"

ScoreStatus(m, means) ==
  IF m = None THEN "error"
  ELSE IF ~ColdStart(means) /\ Outside(m, means, 3) THEN "warn" ELSE "pass"

\* Of the larger list, all is common (1.0) or at least nine tenths (0.9).
OverlapStatus(top, prevTop) ==
  LET common == Cardinality(top \cap prevTop)
      larger == IF Cardinality(top) > Cardinality(prevTop)
                  THEN Cardinality(top) ELSE Cardinality(prevTop)
  IN IF common = 0 THEN "pass"
     ELSE IF common = larger THEN "error"
     ELSE IF 10 * common >= 9 * larger THEN "warn" ELSE "pass"

-----------------------------------------------------------------------------
(* A run: the awaits in their order.                                       *)

Goto(r, from, fields) ==
  /\ run[r].pc = from
  /\ run' = [run EXCEPT ![r] = fields]

Untouched == UNCHANGED <<rows, mean, writes, log, gauge>>

StoredBefore(d) == {e \in Dates : e < d /\ rows[e] # {}}

Newest(dates) ==
  IF dates = {} THEN NoDate ELSE CHOOSE d \in dates : \A e \in dates : e <= d

\* A date in the request is taken as it is.
Start(r) ==
  /\ \/ \E d \in Dates :
          Goto(r, "idle", [run[r] EXCEPT !.pc = "count", !.date = d])
     \/ Goto(r, "idle", [run[r] EXCEPT !.pc = "resolve"])
  /\ Untouched

\* No row at all is a ValueError.
ResolveLatestTradeDate(r) ==
  /\ LET date == Newest({d \in Dates : rows[d] # {}}) IN
     Goto(r, "resolve",
          IF date = NoDate THEN [run[r] EXCEPT !.pc = "failed"]
          ELSE [run[r] EXCEPT !.pc = "count", !.date = date])
  /\ Untouched

FetchTodayRowCount(r) ==
  /\ Goto(r, "count", [run[r] EXCEPT !.pc = "counts",
                                     !.count = Cardinality(rows[run[r].date])])
  /\ Untouched

FetchHistoryRowCounts(r) ==
  /\ Goto(r, "counts", [run[r] EXCEPT !.pc = "mean",
       !.counts = [d \in StoredBefore(run[r].date) |-> Cardinality(rows[d])]])
  /\ Untouched

FetchTodayScoreMean(r) ==
  /\ Goto(r, "mean", [run[r] EXCEPT !.pc = "means", !.mean = mean[run[r].date]])
  /\ Untouched

FetchHistoryScoreMeans(r) ==
  /\ Goto(r, "means", [run[r] EXCEPT !.pc = "top",
       !.means = [d \in StoredBefore(run[r].date) |-> mean[d]]])
  /\ Untouched

FetchTopSymbols(r) ==
  /\ Goto(r, "top", [run[r] EXCEPT !.pc = "previous", !.top = rows[run[r].date]])
  /\ Untouched

\* Mutant: the rows are counted last.
EvaluateCountLast(r, from, prevTop) ==
  Goto(r, from, [Fresh EXCEPT !.pc = "log", !.date = run[r].date,
    !.results = <<RowCountStatus(Cardinality(rows[run[r].date]), run[r].counts),
                  ScoreStatus(run[r].mean, run[r].means),
                  OverlapStatus(run[r].top, prevTop)>>])

\* The verdicts, from everything that was read.
Evaluate(r, from, prevTop) ==
  Goto(r, from, [Fresh EXCEPT !.pc = "log", !.date = run[r].date,
    !.results = <<RowCountStatus(run[r].count, run[r].counts),
                  ScoreStatus(run[r].mean, run[r].means),
                  OverlapStatus(run[r].top, prevTop)>>])

\* Without a day before, there is nothing more to read.
FetchPreviousTradeDate(r) ==
  /\ LET prev == Newest(StoredBefore(run[r].date)) IN
     IF prev = NoDate THEN Evaluate(r, "previous", {})
     ELSE Goto(r, "previous", [run[r] EXCEPT !.pc = "before", !.prev = prev])
  /\ Untouched

FetchPreviousTopSymbols(r) ==
  /\ Evaluate(r, "before", rows[run[r].prev])
  /\ Untouched

Status(r) == run[r].results[run[r].check]

Logged(r) ==
  [log EXCEPT ![run[r].check] = Append(@, [run |-> r, status |-> Status(r)])]

\* The row of the log is committed; the gauge follows when the await returns.
InsertLog(r) ==
  /\ Goto(r, "log", [run[r] EXCEPT !.pc = "gauge"])
  /\ log' = Logged(r)
  /\ UNCHANGED <<rows, mean, writes, gauge>>

\* It is committed, but the answer is lost.
InsertLogUnacknowledged(r) ==
  /\ Goto(r, "log", [run[r] EXCEPT !.pc = "failed"])
  /\ log' = Logged(r)
  /\ UNCHANGED <<rows, mean, writes, gauge>>

SetGauge(r) ==
  /\ Goto(r, "gauge", IF run[r].check = 3 THEN [run[r] EXCEPT !.pc = "done"]
                      ELSE [run[r] EXCEPT !.pc = "log", !.check = @ + 1])
  /\ gauge' = [gauge EXCEPT ![run[r].check] = Status(r)]
  /\ UNCHANGED <<rows, mean, writes, log>>

\* Mutant: a failed insert is ignored.
IgnoreDbError(r) ==
  /\ Goto(r, "log", [run[r] EXCEPT !.pc = "gauge"])
  /\ Untouched

\* A statement fails: 400 for a RuntimeError, ValueError or OSError, else 500.
DbFails(r) ==
  /\ run[r].pc \in Reading \cup {"log"}
  /\ Goto(r, run[r].pc, [run[r] EXCEPT !.pc = "failed"])
  /\ Untouched

\* The process restarts.
Restart ==
  /\ run' = [r \in Runs |-> IF run[r].pc \in Running
                              THEN [run[r] EXCEPT !.pc = "failed"] ELSE run[r]]
  /\ gauge' = [c \in Checks |-> None]
  /\ UNCHANGED <<rows, mean, writes, log>>

RunStep(r) ==
  \/ Start(r) \/ ResolveLatestTradeDate(r)
  \/ FetchTodayRowCount(r) \/ FetchHistoryRowCounts(r)
  \/ FetchTodayScoreMean(r) \/ FetchHistoryScoreMeans(r)
  \/ FetchTopSymbols(r) \/ FetchPreviousTradeDate(r) \/ FetchPreviousTopSymbols(r)
  \/ InsertLog(r) \/ InsertLogUnacknowledged(r) \/ SetGauge(r) \/ DbFails(r)

Next == StoreList \/ Restart \/ \E r \in Runs : RunStep(r)

Spec == Init /\ [][Next]_vars
-----------------------------------------------------------------------------
(* Properties.                                                             *)

HasResults(r) == run[r].pc \in {"log", "gauge", "done"}

\* A run never reports rows that have no mean score, although it counts the
\* rows and reads the mean at different times: rows are only added and the
\* count is read first.
RowsHaveMean ==
  \A r \in Runs : HasResults(r) /\ run[r].results[2] = "error"
    => run[r].results[1] = "error"

\* The gauge only ever shows a verdict that is in the log.
GaugeWasLogged ==
  \A c \in Checks : gauge[c] # None =>
    \E i \in DOMAIN log[c] : log[c][i].status = gauge[c]

\* agent/app/metrics.py:27, "Latest reco QC status by strategy/check": when
\* every run is over and none has failed, the gauge shows the newest verdict of
\* the log.
GaugeIsLatest ==
  \A c \in Checks :
    (\A r \in Runs : run[r].pc \in {"idle", "done"}) /\ gauge[c] # None
      => gauge[c] = log[c][Len(log[c])].status
=============================================================================
