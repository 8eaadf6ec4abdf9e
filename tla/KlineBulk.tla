------------------------------ MODULE KlineBulk ------------------------------
(***************************************************************************)
(* query_kline_bulk (agent/app/tools/query_kline.py): the rows of many     *)
(* symbols in one answer, read by two statements - a count, then the rows  *)
(* with a LIMIT taken from that count - while the ETL commits batches      *)
(* between them.  What the answer leaves out is told by its meta.          *)
(*                                                                         *)
(* Rows of one adjust; a row is <<symbol, trade date>>, and symbols are    *)
(* numbered in the order of the ORDER BY.                                  *)
(***************************************************************************)
EXTENDS Integers, FiniteSets, KlineTable

CONSTANTS
  MaxSymbols,       \* KLINE_BULK_MAX_SYMBOLS
  MaxRows,          \* KLINE_BULK_MAX_ROWS
  PerSymbolLimit    \* KLINE_BULK_PER_SYMBOL_LIMIT

ASSUME BulkAssumption ==
  MaxSymbols \in Nat /\ MaxRows \in Nat /\ PerSymbolLimit \in Nat

VARIABLES
  rows,     \* market.kline_daily: a subset of RowKeys
  query,    \* the call
  counted   \* what matched when the rows were counted (history)

bulkVars == <<rows, query, counted>>

Idle == [pc |-> "idle", symbols |-> {}, first |-> 1, last |-> 1, limit |-> 0,
         total |-> 0, kept |-> {}, truncated |-> FALSE, capped |-> FALSE]

BulkInit == rows = {} /\ query = Idle /\ counted = {}

\* The ETL commits a batch of a symbol (StockEtl): rows are never deleted.
StoreBatch ==
  /\ \E s \in Symbols, days \in (SUBSET Days) \ {{}} : rows' = rows \cup ({s} \X days)
  /\ UNCHANGED <<query, counted>>

-----------------------------------------------------------------------------
Smaller(a, b) == IF a < b THEN a ELSE b

\* Too many symbols are refused before anything is read; an empty list, like
\* none, asks for every symbol.
Call ==
  /\ query.pc = "idle"
  /\ \E symbols \in SUBSET Symbols, first, last \in Days, limit \in 1..MaxDay :
       /\ Cardinality(symbols) <= MaxSymbols
       /\ query' = [Idle EXCEPT !.pc = "count", !.first = first, !.last = last,
                      !.symbols = IF symbols = {} THEN Symbols ELSE symbols,
                      !.limit = Smaller(limit, PerSymbolLimit)]
  /\ UNCHANGED <<rows, counted>>

Matching ==
  {r \in rows : r[1] \in query.symbols /\ query.first <= r[2] /\ r[2] <= query.last}

\* Nothing to fetch is answered at once.
CountRows ==
  /\ query.pc = "count"
  /\ LET total == Cardinality(Matching) IN
     query' = [query EXCEPT !.pc = IF Smaller(total, MaxRows) = 0 THEN "done" ELSE "rows",
                            !.total = total, !.capped = total > MaxRows]
  /\ counted' = Matching
  /\ UNCHANGED rows

\* Mutant: the oldest rows of a symbol come first.
OldestFirst(r, q) == r[1] < q[1] \/ (r[1] = q[1] /\ r[2] < q[2])

\* Mutant: the newest rows of all symbols come first.
ByDate(r, q) == r[2] > q[2] \/ (r[2] = q[2] /\ r[1] < q[1])

\* ORDER BY symbol ASC, trade_date DESC
Before(r, q) == r[1] < q[1] \/ (r[1] = q[1] /\ r[2] > q[2])

Limit(set, n) == {r \in set : Cardinality({q \in set : Before(q, r)}) < n}

\* The first rows of each symbol, in the order they come in.
Grouped(fetched) ==
  {r \in fetched :
     Cardinality({q \in fetched : q[1] = r[1] /\ Before(q, r)}) < query.limit}

\* Mutant: the rows the LIMIT has cut off are not reported.
TruncatedBySymbol(fetched, kept) == fetched # kept

Truncated(fetched, kept) == fetched # kept \/ query.total > Cardinality(kept)

FetchRows ==
  /\ query.pc = "rows"
  /\ LET fetched == Limit(Matching, Smaller(query.total, MaxRows))
         kept == Grouped(fetched)
     IN query' = [query EXCEPT !.pc = "done", !.kept = kept,
                               !.truncated = Truncated(fetched, kept)]
  /\ UNCHANGED <<rows, counted>>

\* The answer is used, or a statement has failed.
NextCall ==
  /\ query.pc # "idle"
  /\ query' = Idle /\ counted' = {}
  /\ UNCHANGED rows

BulkNext == StoreBatch \/ Call \/ CountRows \/ FetchRows \/ NextCall

BulkSpec == BulkInit /\ [][BulkNext]_bulkVars
-----------------------------------------------------------------------------
(* Properties.  The rows that are missing are looked for among those that  *)
(* had been there when the rows were counted.                              *)

Missing == counted \ query.kept

\* A symbol's rows in the answer have no hole: the strategies take the last
\* ones as consecutive days (ret_5d, the 20 day windows), also when rows were
\* inserted in between and the LIMIT has cut older ones off.
AnswerHasNoHole ==
  query.pc = "done" =>
    \A r \in query.kept, m \in Missing : m[1] = r[1] => m[2] < r[2]

\* What the LIMIT cuts off is the tail of the symbols: a symbol before one
\* that is in the answer has all its rows, up to the limit per symbol.
OnlyTailIsCut ==
  query.pc = "done" =>
    \A r \in query.kept, m \in Missing : m[1] < r[1] =>
      Cardinality({k \in query.kept : k[1] = m[1]}) = query.limit

\* meta.truncated FALSE: nothing is missing, except that each row inserted
\* between the two statements may have pushed one out.  (With a row cap of zero
\* the code answers "not truncated" to everything.)
TruncationReported ==
  query.pc = "done" /\ ~query.truncated /\ MaxRows > 0 =>
    /\ ~query.capped
    /\ Cardinality(Missing) <= Cardinality(query.kept \ counted)
=============================================================================
