----------------------------- MODULE EtlWindow ------------------------------
(***************************************************************************)
(* The date windows of the ETL job (stock_etl/app/ingest.py,               *)
(* `previous_quarter_window` and `decide_window`), on the days of a        *)
(* calendar that a run walks through.                                      *)
(***************************************************************************)
EXTENDS Integers, FiniteSets

CONSTANTS
  FirstYear, LastYear,
  DailyLookback,   \* DAILY_LOOKBACK_CALENDAR_DAYS
  Lookback         \* RECONCILE_LOOKBACK_CALENDAR_DAYS

ASSUME WindowAssumption ==
  /\ FirstYear \in Nat /\ LastYear \in Nat
  /\ 1 < FirstYear /\ FirstYear <= LastYear   \* datetime.MINYEAR is 1
  /\ DailyLookback \in Nat /\ Lookback \in Nat

VARIABLE today

vars == today

-----------------------------------------------------------------------------
(* The calendar (datetime).                                                *)

Date(y, m, d) == [y |-> y, m |-> m, d |-> d]

IsLeap(y) == y % 4 = 0 /\ (y % 100 # 0 \/ y % 400 = 0)

DaysIn(y, m) ==
  IF m = 2 THEN IF IsLeap(y) THEN 29 ELSE 28
  ELSE IF m \in {4, 6, 9, 11} THEN 30 ELSE 31

\* Days before the first of a month, in a year that is not a leap year.
DaysBefore(m) ==
  Cardinality({x \in (1..11) \X (1..31) : x[1] < m /\ x[2] <= DaysIn(1, x[1])})

\* toordinal: the number of days up to a date.
Ordinal(a) ==
  LET y == a.y - 1 IN
  365 * y + y \div 4 - y \div 100 + y \div 400
    + DaysBefore(a.m) + a.d + IF a.m > 2 /\ IsLeap(a.y) THEN 1 ELSE 0

-----------------------------------------------------------------------------
(* The code.  A window is a pair of ordinals.                              *)

Window(start, end) == [start |-> start, end |-> end]

\* Mutant: the quarter of a month without the shift to 0..11.
QuarterUnshifted(a) == a.m \div 3 + 1

Quarter(a) == (a.m - 1) \div 3 + 1

PreviousQuarterWindow(a) ==
  LET quarter == IF Quarter(a) = 1 THEN 4 ELSE Quarter(a) - 1
      year == IF Quarter(a) = 1 THEN a.y - 1 ELSE a.y
      month == (quarter - 1) * 3 + 1
  IN Window(Ordinal(Date(year, month, 1)),
            IF month = 10 THEN Ordinal(Date(year, 12, 31))
            ELSE Ordinal(Date(year, month + 3, 1)) - 1)

Earlier(x, y) == IF x < y THEN x ELSE y
Longer(x, y) == IF x > y THEN x ELSE y

\* int(trading_days * 1.7): where the product is a whole number, that of the
\* floats may lie just below it.
Stretched(tradingDays) ==
  LET floor == (tradingDays * 17) \div 10
  IN  IF (tradingDays * 17) % 10 = 0 THEN {floor - 1, floor} ELSE {floor}

\* Mutant: the shorter of the two.
ReachShorter(tradingDays) == {Earlier(n, tradingDays + 90) : n \in Stretched(tradingDays)}

\* The days a backfill looks back.
Reach(tradingDays) == {Longer(n, tradingDays + 90) : n \in Stretched(tradingDays)}

\* What decide_window may return; nothing when it raises.
DecideWindow(mode, tradingDays, a) ==
  LET quarter == PreviousQuarterWindow(a)
      day == Ordinal(a)
      windows ==
        [backfill |-> {Window(day - n, day) : n \in Reach(tradingDays)},
         daily |-> {Window(day - DailyLookback, day)},
         reconcile |-> {Window(Earlier(quarter.start, day - Lookback), quarter.end)}]
  IN  IF mode \in DOMAIN windows THEN windows[mode] ELSE {}

-----------------------------------------------------------------------------
Init == today = Date(FirstYear, 1, 1)

Tomorrow ==
  \/ /\ today.d < DaysIn(today.y, today.m)
     /\ today' = [today EXCEPT !.d = @ + 1]
  \/ /\ today.d = DaysIn(today.y, today.m) /\ today.m < 12
     /\ today' = Date(today.y, today.m + 1, 1)
  \/ /\ today.d = 31 /\ today.m = 12 /\ today.y < LastYear
     /\ today' = Date(today.y + 1, 1, 1)

Spec == Init /\ [][Tomorrow]_vars

-----------------------------------------------------------------------------
(* Properties.                                                             *)

QuarterStarts == {Ordinal(Date(y, m, 1)) : y \in (FirstYear - 1)..LastYear,
                                           m \in {1, 4, 7, 10}}

\* The window of the previous quarter runs from one start of a quarter to the
\* day before the next one, and that next one is the start of the quarter of
\* today: no other start of a quarter lies between the window's start and today.
QuarterIsWhole ==
  LET w == PreviousQuarterWindow(today) IN
  {q \in QuarterStarts : w.start <= q /\ q <= Ordinal(today)} = {w.start, w.end + 1}

\* The exchange: closed on Saturdays and Sundays, and on no more than so many
\* other days of any n days that follow each other (about 20 of a year, up to 8
\* at once around the spring festival).
Weekdays(x) == 5 * (x \div 7) + IF x % 7 < 5 THEN x % 7 ELSE 5   \* of the ordinals 1..x
ClosedAtMost(n) == 10 + (6 * n) \div 100

\* stock_etl/README.md:6, "backfill recent N trading days": the calendar days the
\* window looks back hold N days the exchange was open, whatever today is and
\* however its closures fall, and today itself, which may not be over, is not
\* needed for that.
HoldsTradingDays(tradingDays, a) ==
  \A w \in DecideWindow("backfill", tradingDays, a) :
    /\ w.end = Ordinal(a)
    /\ Weekdays(w.end - 1) - Weekdays(w.start - 1) - ClosedAtMost(w.end - w.start)
         >= tradingDays
=============================================================================
