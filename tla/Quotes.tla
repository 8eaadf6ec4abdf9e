------------------------------- MODULE Quotes -------------------------------
(***************************************************************************)
(* The quotes of one symbol as the tools of a plan read them, each with a  *)
(* statement of its own: `query_kline_handler` for the template answer     *)
(* (agent/app/synthesizer_template.py), and once more for the technical    *)
(* indicators (agent/app/tools/technical.py).  Between the two the ETL job *)
(* may commit rows.  A row is its date.                                    *)
(***************************************************************************)
EXTENDS Naturals, Sequences, SequencesExt, FiniteSetsExt

CONSTANTS
  MaxDay,      \* bound on the trade dates of the symbol
  MaxLimit,    \* KLINE_MAX_LIMIT
  Unread       \* nothing asked or read yet

ASSUME QuotesAssumption ==
  /\ MaxDay \in Nat /\ MaxLimit \in Nat \ {0}
  /\ Unread \notin Nat

VARIABLES
  stored,   \* trade dates with a row
  ask,      \* what the plan asks both tools for
  shown,    \* the day the template's answer shows
  asof,     \* the day the indicators are of
  since     \* dates stored since the first of the two reads: a history

quotes == <<stored, ask, shown, asof, since>>

NoDay == 0     \* no bound, no row

\* A limit above KLINE_MAX_LIMIT is refused.
Asks == [from : 0..MaxDay, to : 0..MaxDay, limit : 1..MaxLimit]

Asked(days, from, to) ==
  {d \in days : (from = NoDay \/ d >= from) /\ (to = NoDay \/ d <= to)}

\* Mutant: ORDER BY trade_date
FirstDays(days, limit) == {d \in days : Cardinality({e \in days : e < d}) < limit}

\* ORDER BY trade_date DESC LIMIT
LastDays(days, limit) == {d \in days : Cardinality({e \in days : e > d}) < limit}

\* The rows of query_kline_handler, turned round again: the oldest first.
Rows(days, from, to, limit) ==
  LET last == LastDays(Asked(days, from, to), limit)
  IN  [i \in 1..Cardinality(last) |->
         CHOOSE d \in last : Cardinality({e \in last : e < d}) = i - 1]

\* _resolve_latest_kline_row, for rows in any order
LatestRow(rows) == FoldSeq(LAMBDA d, latest : IF d >= latest THEN d ELSE latest, NoDay, rows)

\* asof_date of technical_indicators_handler, which refuses an empty answer
AsofDate(rows) == IF rows = <<>> THEN NoDay ELSE Last(rows)

-----------------------------------------------------------------------------
QuotesInit ==
  /\ stored = {} /\ since = {}
  /\ ask = Unread /\ shown = Unread /\ asof = Unread

BothRead == shown # Unread /\ asof # Unread

\* The ETL job commits a batch; it deletes no row.
StoreDays ==
  /\ ~BothRead
  /\ \E days \in (SUBSET ((1..MaxDay) \ stored)) \ {{}} :
       /\ stored' = stored \cup days
       /\ since' = IF shown = Unread /\ asof = Unread THEN since ELSE since \cup days
  /\ UNCHANGED <<ask, shown, asof>>

\* The plan gives both tools one symbol and one window.
Plan ==
  /\ ask = Unread
  /\ ask' \in Asks
  /\ UNCHANGED <<stored, shown, asof, since>>

QueryKline ==
  /\ ask # Unread /\ shown = Unread
  /\ shown' = LatestRow(Rows(stored, ask.from, ask.to, ask.limit))
  /\ UNCHANGED <<stored, ask, asof, since>>

TechnicalIndicators ==
  /\ ask # Unread /\ asof = Unread
  /\ asof' = AsofDate(Rows(stored, ask.from, ask.to, MaxLimit))
  /\ UNCHANGED <<stored, ask, shown, since>>

QuotesNext == StoreDays \/ Plan \/ QueryKline \/ TechnicalIndicators

-----------------------------------------------------------------------------
(* Properties.                                                             *)

\* The two tools of a plan read with different limits and at different times.
\* They speak of one day, unless the newer day was stored between their reads;
\* and neither is of an older day than one that was there at the first read.
ToolsAgreeOnDay ==
  BothRead =>
    /\ shown < asof => asof \in since
    /\ asof < shown => shown \in since
    /\ \A d \in Asked(stored \ since, ask.from, ask.to) : d <= shown /\ d <= asof
=============================================================================
