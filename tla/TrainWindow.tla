---------------------------- MODULE TrainWindow -----------------------------
(***************************************************************************)
(* The segments of a training (qlib_bootstrap/app/train_model.py,          *)
(* `_split_dates` and the dataset configuration of `train_lightgbm`).      *)
(* Days are ordinals.                                                      *)
(***************************************************************************)
EXTENDS Integers

\* The shortest window that is split.
MinDays == 720

\* LOOKBACK_YEARS of 365 days
TrainStart(end, years) == end - years * 365

\* int(n * 0.70), int(n * 0.85): where the product is a whole number, that of
\* the floats may lie just below it.
Share(n, percent) ==
  LET floor == (n * percent) \div 100
  IN  IF (n * percent) % 100 = 0 THEN {floor - 1, floor} ELSE {floor}

\* The ends of the training and of the validation, kept apart and before the end.
Cut(start, end, a, b) ==
  LET valid == IF start + b >= end THEN end - 30 ELSE start + b
  IN  [train |-> IF start + a >= valid THEN valid - 30 ELSE start + a,
       valid |-> valid]

\* What _split_dates may return; nothing when it raises.
Splits(start, end) ==
  {c \in {Cut(start, end, a, b) : a \in Share(end - start, 70),
                                  b \in Share(end - start, 85)} :
     end - start >= MinDays /\ start < c.train /\ c.train < c.valid}

\* Mutant: the validation starts on the last day of the training.
SegmentsOverlapping(start, c, end) ==
  [train |-> <<start, c.train>>, valid |-> <<c.train, c.valid>>,
   test |-> <<c.valid + 1, end>>]

\* First and last day of each segment.
Segments(start, c, end) ==
  [train |-> <<start, c.train>>, valid |-> <<c.train + 1, c.valid>>,
   test |-> <<c.valid + 1, end>>]

-----------------------------------------------------------------------------
(* Properties.                                                             *)

Holds(segment, day) == segment[1] <= day /\ day <= segment[2]

\* Every window that is long enough is split, however the floats are rounded,
\* and each of its days is in one segment and in one only: no day is trained on
\* and validated with, and none is lost at a boundary.
SegmentsTileOf(start, end) ==
  end - start >= MinDays =>
    /\ Splits(start, end) # {}
    /\ \A c \in Splits(start, end) :
         LET s == Segments(start, c, end) IN
         /\ \A k \in {"train", "valid", "test"} : s[k][1] <= s[k][2]
         /\ \A day \in start..end :
              \E k \in {"train", "valid", "test"} :
                /\ Holds(s[k], day)
                /\ \A l \in {"train", "valid", "test"} : Holds(s[l], day) => l = k
=============================================================================
