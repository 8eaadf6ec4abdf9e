-------------------------- MODULE MCPureFunctions ---------------------------
(***************************************************************************)
(* The functions, each over a set of inputs: the days of EtlWindow's       *)
(* calendar, one case of the others a step; and the two reads of Quotes.   *)
(***************************************************************************)
EXTENDS EtlWindow, TrainWindow, Indicators, Quotes

CONSTANTS
  MaxDays,     \* longest training window
  MaxPrice,
  MaxCloses,   \* closes of a symbol
  MaxTrading,  \* bound on TRADING_DAYS
  Period

ASSUME CasesAssumption ==
  /\ {MaxDays, MaxPrice, MaxCloses, MaxTrading} \subseteq Nat
  /\ Period \in Nat \ {0}

VARIABLE case

Cases ==
  [of : {"training"}, days : (MinDays - 20)..MaxDays]
    \cup [of : {"training"}, days : {0 - TrainStart(0, y) : y \in 1..10}]
    \cup [of : {"closes"},
          raw : UNION {[1..n -> (0..MaxPrice) \cup {NoValue}] : n \in 0..MaxCloses}]
    \cup [of : {"backfill"}, tradingDays : 1..MaxTrading,
          on : {Date(FirstYear, 1, d) : d \in 1..7}]   \* a week

MCInit == Init /\ case = NoValue /\ QuotesInit

NextDay == Tomorrow /\ UNCHANGED <<case, quotes>>

ChooseCase ==
  /\ today = Date(FirstYear, 1, 1)
  /\ case' \in Cases
  /\ UNCHANGED <<today, quotes>>

ReadQuotes ==
  /\ today = Date(FirstYear, 1, 1)
  /\ QuotesNext
  /\ UNCHANGED <<today, case>>

\* One of the three at a time: they have nothing to do with each other.
MCNext ==
  \/ case = NoValue /\ stored = {} /\ ask = Unread /\ (NextDay \/ ChooseCase)
  \/ case = NoValue /\ ReadQuotes

MCSpec == MCInit /\ [][MCNext]_<<today, case, quotes>>

Of(kind) == case # NoValue /\ case.of = kind

-----------------------------------------------------------------------------
(* The properties of the modules, for the case at hand.                    *)

\* Every day of a training window is in one of its segments and in one only.
SegmentsTile == Of("training") => SegmentsTileOf(0, case.days)

\* RSI counts rises as it counts falls, and a moving average is of the last closes.
IndicatorsMeasure ==
  Of("closes") => /\ RsiMeasures(Closes(case.raw), Period, MaxPrice)
                  /\ AverageMeasures(Closes(case.raw), Period)

\* A backfill of N trading days looks back far enough to hold them.
BackfillHoldsTradingDays ==
  Of("backfill") => HoldsTradingDays(case.tradingDays, case.on)
=============================================================================
