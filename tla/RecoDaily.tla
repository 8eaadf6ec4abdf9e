----------------------------- MODULE RecoDaily ------------------------------
(***************************************************************************)
(* market.reco_daily: strategy runs that rank symbols and upsert the list  *)
(* (agent/app/strategy/ensemble_v1.py `run_ensemble_v1`, agent/app/db.py   *)
(* `insert_reco_daily_rows`, qlib_predict/app/db.py `upsert_reco_daily`),  *)
(* and the query that reads it back in two statements                      *)
(* (agent/app/tools/reco_query.py).  All rows are of one strategy.         *)
(*                                                                         *)
(* A list is written in one transaction, row by row in the order of its    *)
(* ranks; the lock of a row is held until the end, so a run can wait for   *)
(* another, and two runs for each other.  A row carries the last day of    *)
(* its symbol's own data, so a list may touch several days, and symbols of *)
(* equal score come in any order.                                          *)
(***************************************************************************)
EXTENDS Integers, Sequences, FiniteSets

CONSTANTS
  Writers,    \* runs of the strategy
  Symbols,
  MaxDate,    \* trade dates are 1..MaxDate
  PoolSize,   \* CANDIDATE_POOL_SIZE
  Nobody      \* writer of a row that does not exist

Dates == 1..MaxDate
NoDate == 0

ASSUME RecoAssumption ==
  /\ MaxDate \in Nat \ {0}
  /\ PoolSize \in Nat
  /\ IsFiniteSet(Symbols)
  /\ Nobody \notin Writers

VARIABLES
  rows,      \* rows[key]: the committed rows, a key is <<symbol, date>>
  writer,
  reader

vars == <<rows, writer, reader>>

Keys == Symbols \X Dates
NoRow == [by |-> Nobody, rank |-> 0]

\* Candidate lists: a symbol appears once.
Lists ==
  {list \in UNION {[1..n -> Keys] : n \in 0..PoolSize} :
     \A i, j \in DOMAIN list : list[i][1] = list[j][1] => i = j}

TypeOK ==
  /\ rows \in [Keys -> [by : Writers \cup {Nobody}, rank : 0..PoolSize]]
  /\ writer \in [Writers -> [pc : {"idle", "write", "done", "failed"},
                             list : Lists, sent : 0..PoolSize]]
  /\ \A w \in Writers : writer[w].sent <= Len(writer[w].list)
  /\ reader \in [pc : {"idle", "rows", "done"}, date : Dates \cup {NoDate},
                 found : SUBSET Keys]

Init ==
  /\ rows = [key \in Keys |-> NoRow]
  /\ writer = [w \in Writers |-> [pc |-> "idle", list |-> <<>>, sent |-> 0]]
  /\ reader = [pc |-> "idle", date |-> NoDate, found |-> {}]

-----------------------------------------------------------------------------
(* Writers.                                                                *)

ListKeys(w) == {writer[w].list[i] : i \in DOMAIN writer[w].list}
Sent(w) == {writer[w].list[i] : i \in 1..writer[w].sent}

\* The rows an open transaction has upserted.
Locked(w) == IF writer[w].pc = "write" THEN Sent(w) ELSE {}

Free(key, w) == \A v \in Writers \ {w} : key \notin Locked(v)

\* Scores are computed from the market data; with no candidate, or with
\* WRITE_RECO off, nothing is written.
Score(w) ==
  /\ writer[w].pc = "idle"
  /\ \E list \in Lists :
       writer' = [writer EXCEPT ![w] =
         [pc |-> IF list = <<>> THEN "done" ELSE "write", list |-> list, sent |-> 0]]
  /\ UNCHANGED <<rows, reader>>

\* The market data cannot be read, or a strategy fails.
ScoreFails(w) ==
  /\ writer[w].pc = "idle"
  /\ writer' = [writer EXCEPT ![w].pc = "failed"]
  /\ UNCHANGED <<rows, reader>>

UpsertRow(w) ==
  /\ writer[w].pc = "write" /\ writer[w].sent < Len(writer[w].list)
  /\ Free(writer[w].list[writer[w].sent + 1], w)
  /\ writer' = [writer EXCEPT ![w].sent = @ + 1]
  /\ UNCHANGED <<rows, reader>>

\* Mutant: the rows of the strategy are deleted first.
VisibleAlone(w) ==
  [key \in Keys |->
     IF key \in Sent(w) THEN [by |-> w, rank |-> 1] ELSE NoRow]

\* What the table is when the rows sent so far become visible.
Visible(w) ==
  [key \in Keys |->
     IF key \in Sent(w)
       THEN [by |-> w, rank |-> CHOOSE i \in 1..writer[w].sent : writer[w].list[i] = key]
       ELSE rows[key]]

\* Mutant: every row is committed as it is sent.
CommitEarly(w) ==
  /\ writer[w].pc = "write"
  /\ rows' = Visible(w)
  /\ writer' = [writer EXCEPT ![w].pc =
       IF writer[w].sent = Len(writer[w].list) THEN "done" ELSE "write"]
  /\ UNCHANGED reader

\* The answer of a commit may be lost: the tool call fails, the rows stay.
Commit(w) ==
  /\ writer[w].pc = "write" /\ writer[w].sent = Len(writer[w].list)
  /\ rows' = Visible(w)
  /\ \E pc \in {"done", "failed"} : writer' = [writer EXCEPT ![w].pc = pc]
  /\ UNCHANGED reader

\* Mutant: no timeout while a run waits for a lock.
AbortUnlessWaiting(w) ==
  /\ writer[w].pc = "write"
  /\ writer[w].sent < Len(writer[w].list) => Free(writer[w].list[writer[w].sent + 1], w)
  /\ writer' = [writer EXCEPT ![w].pc = "failed"]
  /\ UNCHANGED <<rows, reader>>

\* A lost connection, the timeout of five seconds, or the victim of a deadlock.
Abort(w) ==
  /\ writer[w].pc = "write"
  /\ writer' = [writer EXCEPT ![w].pc = "failed"]
  /\ UNCHANGED <<rows, reader>>

WriterStep(w) == Score(w) \/ ScoreFails(w) \/ UpsertRow(w) \/ Commit(w) \/ Abort(w)

-----------------------------------------------------------------------------
(* reco_query, without a trade_date in the request.                        *)

Stored(date) == {key \in Keys : key[2] = date /\ rows[key] # NoRow}

StoredDates == {date \in Dates : Stored(date) # {}}

\* max(trade_date), or the empty answer.
ResolveTradeDate ==
  /\ reader.pc = "idle"
  /\ \/ /\ StoredDates = {}
        /\ reader' = [pc |-> "done", date |-> NoDate, found |-> {}]
     \/ \E date \in StoredDates :
          /\ \A other \in StoredDates : other <= date
          /\ reader' = [pc |-> "rows", date |-> date, found |-> {}]
  /\ UNCHANGED <<rows, writer>>

FetchRows ==
  /\ reader.pc = "rows"
  /\ reader' = [reader EXCEPT !.pc = "done", !.found = Stored(reader.date)]
  /\ UNCHANGED <<rows, writer>>

\* The answer is sent, or a statement has failed.
NextQuery ==
  /\ reader.pc # "idle"
  /\ reader' = [pc |-> "idle", date |-> NoDate, found |-> {}]
  /\ UNCHANGED <<rows, writer>>

Next ==
  \/ ResolveTradeDate \/ FetchRows \/ NextQuery
  \/ \E w \in Writers : WriterStep(w)

\* The database answers or times out: agent/app/db.py gives every statement a
\* timeout, so a run that waits for a lock is aborted.
Fairness == \A w \in Writers : WF_vars(WriterStep(w) /\ writer[w].pc = "write")

Spec == Init /\ [][Next]_vars /\ Fairness
-----------------------------------------------------------------------------
(* Properties.                                                             *)

\* Two lists never mix: of the rows two lists share, all are of the one or all
\* of the other, whatever the order in which each run wrote them.
NoMixture ==
  \A v, w \in Writers :
    \A k, l \in ListKeys(v) \cap ListKeys(w) :
      rows[k].by = v /\ rows[l].by = w => v = w

\* A query that finds a date finds rows: the date and the rows are read by two
\* statements, and between them a list may be replaced.
FoundDateHasRows ==
  reader.pc = "done" => (reader.date = NoDate <=> reader.found = {})

\* A write that has begun ends, also when two runs wait for each other.
WritesEnd ==
  \A w \in Writers : writer[w].pc = "write" ~> writer[w].pc # "write"
=============================================================================
