----------------------------- MODULE Indicators -----------------------------
(***************************************************************************)
(* The indicators of agent/app/tools/technical.py: moving averages and RSI *)
(* of the closes of one symbol, the oldest first.  A fraction is a pair;   *)
(* Decimal arithmetic is taken to be exact.                                *)
(***************************************************************************)
EXTENDS Integers, Sequences, SequencesExt

CONSTANT NoValue   \* a close that is NULL; an indicator there are too few closes for

ASSUME NoValueAssumption == NoValue \notin Int /\ NoValue \notin Int \X Int

\* _to_decimal_list, a close after the other
Closes(raw) ==
  LET kept[i \in 0..Len(raw)] ==
        IF i = 0 THEN <<>>
        ELSE IF raw[i] = NoValue THEN kept[i - 1] ELSE Append(kept[i - 1], raw[i])
  IN  kept[Len(raw)]

LastOf(s, n) == SubSeq(s, Len(s) - n + 1, Len(s))

Total(s) == FoldSeq(LAMBDA x, y : x + y, 0, s)

MovingAverage(closes, period) ==
  IF period <= 0 \/ Len(closes) < period THEN NoValue
  ELSE <<Total(LastOf(closes, period)), period>>

Deltas(closes, period) ==
  LET recent == LastOf(closes, period + 1)
  IN  [i \in 1..period |-> recent[i + 1] - recent[i]]

Gain(delta) == IF delta > 0 THEN delta ELSE 0

\* Mutant: the sign of the losses is kept.
LossSigned(delta) == IF delta < 0 THEN delta ELSE 0

Loss(delta) == IF delta < 0 THEN -delta ELSE 0

\* calculate_rsi14, of a period; the averages' common divisor is left out.
Rsi(closes, period) ==
  LET deltas == Deltas(closes, period)
      gain == Total([i \in 1..period |-> Gain(deltas[i])])
      loss == Total([i \in 1..period |-> Loss(deltas[i])])
  IN  IF Len(closes) < period + 1 THEN NoValue
      ELSE IF loss = 0 /\ gain = 0 THEN <<50, 1>>
      ELSE IF loss = 0 THEN <<100, 1>>
      ELSE IF gain = 0 THEN <<0, 1>>
      ELSE <<100 * (gain + loss) - 100 * loss, gain + loss>>

Interpretation(rsi) ==
  IF rsi = NoValue THEN "insufficient"
  ELSE IF rsi[1] >= 70 * rsi[2] THEN "overbought"
  ELSE IF rsi[1] <= 30 * rsi[2] THEN "oversold"
  ELSE "neutral"

-----------------------------------------------------------------------------
(* Properties.                                                             *)

Mirrored(s, top) == [i \in DOMAIN s |-> top - s[i]]

Opposite(text) ==
  IF text = "overbought" THEN "oversold"
  ELSE IF text = "oversold" THEN "overbought" ELSE text

\* RSI lies between 0 and 100, has a value exactly when there are enough closes,
\* counts rises as it counts falls (prices turned upside down give 100 - RSI and
\* the opposite interpretation, in the special cases too), and does not fall when
\* the last close rises.
RsiMeasures(closes, period, top) ==
  LET rsi == Rsi(closes, period)
      mirror == Rsi(Mirrored(closes, top), period)
  IN  IF Len(closes) <= period THEN rsi = NoValue /\ mirror = NoValue
      ELSE /\ 0 <= rsi[1] /\ rsi[1] <= 100 * rsi[2]
           /\ rsi[1] * mirror[2] + mirror[1] * rsi[2] = 100 * rsi[2] * mirror[2]
           /\ Interpretation(mirror) = Opposite(Interpretation(rsi))
           /\ LET higher == Rsi([closes EXCEPT ![Len(closes)] = @ + 1], period)
              IN  rsi[1] * higher[2] <= higher[1] * rsi[2]

\* A moving average is between the lowest and the highest of the last closes, and
\* one more close moves it by the difference to the one that leaves the window.
AverageMeasures(closes, period) ==
  LET last == LastOf(closes, period)
      average == MovingAverage(closes, period)
  IN  IF Len(closes) < period THEN average = NoValue
      ELSE /\ \E i, j \in 1..period : /\ last[i] * average[2] <= average[1]
                                      /\ average[1] <= last[j] * average[2]
           /\ Len(closes) > period =>
                average[1] - MovingAverage(Front(closes), period)[1]
                  = Last(closes) - closes[Len(closes) - period]
=============================================================================
