------------------------ MODULE PureFunctionsProofs -------------------------
(***************************************************************************)
(* The functions, for every input: the segments of a training tile its     *)
(* window, the window of the previous quarter is whole on every day of     *)
(* every year, a backfill of N trading days looks back far enough for      *)
(* every N, the indicators measure the closes they are given; and what two *)
(* tools read of the quotes agrees up to what is stored between them.      *)
(***************************************************************************)
EXTENDS MCPureFunctions, FiniteSetTheorems, SequenceTheorems, WellFoundedInduction, TLAPS

\* The least number of a set.
LEMMA Smallest ==
  ASSUME NEW S, S \subseteq Nat, S # {}
  PROVE  \E m \in S : \A n \in S : m <= n
<1>1. PICK m \in S : \A n \in S : ~(<<n, m>> \in OpToRel(<, Nat))
  BY NatLessThanWellFounded, WFMin, Zenon
<1>2. \A n \in S : <<n, m>> \in Nat \X Nat
  OBVIOUS
<1>3. \A n \in S : ~(n < m)
  BY <1>1, <1>2 DEF OpToRel
<1> QED
  BY <1>3

-----------------------------------------------------------------------------
(* The segments of a training (TrainWindow).                               *)

\* Whatever the floats make of the two shares, they leave room on both sides.
LEMMA SharesApart ==
  ASSUME NEW n \in Int, n >= MinDays,
         NEW a \in Share(n, 70), NEW b \in Share(n, 85)
  PROVE  a \in Int /\ b \in Int /\ 0 < a /\ a < b /\ b < n
<1>1. /\ (n * 70) \div 100 \in Int /\ (n * 85) \div 100 \in Int
      /\ a \in {((n * 70) \div 100) - 1, (n * 70) \div 100}
      /\ b \in {((n * 85) \div 100) - 1, (n * 85) \div 100}
  BY DEF Share
<1>2. /\ 100 * ((n * 70) \div 100) <= n * 70 /\ n * 70 < 100 * ((n * 70) \div 100) + 100
      /\ 100 * ((n * 85) \div 100) <= n * 85 /\ n * 85 < 100 * ((n * 85) \div 100) + 100
  OBVIOUS
<1> QED
  BY <1>1, <1>2 DEF MinDays

LEMMA CutInside ==
  ASSUME NEW start \in Int, NEW end \in Int, end - start >= MinDays,
         NEW a \in Share(end - start, 70), NEW b \in Share(end - start, 85)
  PROVE  LET c == Cut(start, end, a, b) IN
         /\ c.train = start + a /\ c.valid = start + b
         /\ start < c.train /\ c.train < c.valid /\ c.valid < end
         /\ c.train \in Int /\ c.valid \in Int
<1>1. a \in Int /\ b \in Int /\ 0 < a /\ a < b /\ b < end - start
  BY SharesApart
<1>2. start + b < end /\ start + a < start + b
  BY <1>1
<1> QED
  BY <1>1, <1>2 DEF Cut

LEMMA ShareExists ==
  ASSUME NEW n, NEW percent
  PROVE  \E x : x \in Share(n, percent)
<1>1. (n * percent) \div 100 \in Share(n, percent)
  BY DEF Share
<1> QED
  BY <1>1

\* _split_dates raises for no window of at least 720 days, and of every such window
\* each day lies in one segment and in one only, whichever way the floats round.
THEOREM SegmentsAlwaysTile ==
  ASSUME NEW start \in Int, NEW end \in Int
  PROVE  SegmentsTileOf(start, end)
<1> SUFFICES ASSUME end - start >= MinDays
             PROVE  /\ Splits(start, end) # {}
                    /\ \A c \in Splits(start, end) :
                         LET s == Segments(start, c, end) IN
                         /\ \A k \in {"train", "valid", "test"} : s[k][1] <= s[k][2]
                         /\ \A day \in start..end :
                              \E k \in {"train", "valid", "test"} :
                                /\ Holds(s[k], day)
                                /\ \A l \in {"train", "valid", "test"} :
                                     Holds(s[l], day) => l = k
  BY DEF SegmentsTileOf
<1>1. Splits(start, end) # {}
  <2>1. PICK a, b : a \in Share(end - start, 70) /\ b \in Share(end - start, 85)
    BY ShareExists
  <2>2. Cut(start, end, a, b) \in Splits(start, end)
    BY <2>1, CutInside DEF Splits
  <2> QED
    BY <2>2
<1>2. ASSUME NEW c \in Splits(start, end)
      PROVE  LET s == Segments(start, c, end) IN
             /\ \A k \in {"train", "valid", "test"} : s[k][1] <= s[k][2]
             /\ \A day \in start..end :
                  \E k \in {"train", "valid", "test"} :
                    /\ Holds(s[k], day)
                    /\ \A l \in {"train", "valid", "test"} : Holds(s[l], day) => l = k
  <2>1. PICK a \in Share(end - start, 70), b \in Share(end - start, 85) :
          c = Cut(start, end, a, b)
    BY DEF Splits
  <2>2. /\ start < c.train /\ c.train < c.valid /\ c.valid < end
        /\ c.train \in Int /\ c.valid \in Int
    BY <2>1, CutInside
  <2> DEFINE s == Segments(start, c, end)
  <2>3. /\ s["train"][1] = start /\ s["train"][2] = c.train
        /\ s["valid"][1] = c.train + 1 /\ s["valid"][2] = c.valid
        /\ s["test"][1] = c.valid + 1 /\ s["test"][2] = end
    BY DEF Segments
  <2> HIDE DEF s
  <2>4. \A k \in {"train", "valid", "test"} : s[k][1] <= s[k][2]
    BY <2>2, <2>3
  <2>5. ASSUME NEW day \in start..end
        PROVE  \E k \in {"train", "valid", "test"} :
                 /\ Holds(s[k], day)
                 /\ \A l \in {"train", "valid", "test"} : Holds(s[l], day) => l = k
    <3>1. /\ Holds(s["train"], day) <=> day <= c.train
          /\ Holds(s["valid"], day) <=> c.train < day /\ day <= c.valid
          /\ Holds(s["test"], day) <=> c.valid < day
      BY <2>2, <2>3 DEF Holds
    <3>2. CASE day <= c.train
      BY <2>2, <3>1, <3>2
    <3>3. CASE c.train < day /\ day <= c.valid
      BY <2>2, <3>1, <3>3
    <3>4. CASE c.valid < day
      BY <2>2, <3>1, <3>4
    <3> QED
      BY <2>2, <3>2, <3>3, <3>4
  <2> QED
    BY <2>4, <2>5 DEF s
<1> QED
  BY <1>1, <1>2

\* A step takes no case but one of Cases, and goes to the next day or stays.
LEMMA OneOfCases == MCSpec => [](case # NoValue => case \in Cases)
<1>1. MCInit => (case # NoValue => case \in Cases)
  BY DEF MCInit
<1>2. (case # NoValue => case \in Cases) /\ [MCNext]_<<today, case, quotes>>
        => (case # NoValue => case \in Cases)'
  BY DEF MCNext, NextDay, ChooseCase, ReadQuotes, Cases, quotes
<1> QED
  BY <1>1, <1>2, PTL DEF MCSpec

\* The same of the windows that are taken as cases.
THEOREM CasesTile == MCSpec => []SegmentsTile
<1>1. (case # NoValue => case \in Cases) => SegmentsTile
  <2> SUFFICES ASSUME case \in Cases, case.of = "training"
               PROVE  SegmentsTileOf(0, case.days)
    BY DEF SegmentsTile, Of
  <2>1. (MinDays - 20)..MaxDays \subseteq Int
    BY CasesAssumption DEF MinDays
  <2>2. \A y \in 1..10 : 0 - TrainStart(0, y) \in Int
    BY DEF TrainStart
  <2>3. case.days \in Int
    BY <2>1, <2>2 DEF Cases
  <2> QED
    BY <2>3, SegmentsAlwaysTile
<1> QED
  BY <1>1, OneOfCases, PTL

-----------------------------------------------------------------------------
(* The days of a year (EtlWindow).                                         *)

\* Whichever year it is, a month has 28 to 31 days, and February has 28 in year 1.
LEMMA MonthLengths ==
  \A m \in 1..12 :
    /\ \A y : DaysIn(y, m) \in 28..31
    /\ DaysIn(1, m) = IF m = 2 THEN 28 ELSE IF m \in {4, 6, 9, 11} THEN 30 ELSE 31
    /\ \A y : m # 2 => DaysIn(y, m) = DaysIn(1, m)
  BY DEF DaysIn, IsLeap

\* The days before a month are those before the last one and those in it.
LEMMA OneMonthMore ==
  ASSUME NEW m \in 1..11
  PROVE  /\ DaysBefore(m) \in Nat
         /\ DaysBefore(m + 1) = DaysBefore(m) + DaysIn(1, m)
<1> DEFINE Before(k) == {x \in (1..11) \X (1..31) : x[1] < k /\ x[2] <= DaysIn(1, x[1])}
           New == {m} \X (1..DaysIn(1, m))
<1>1. DaysIn(1, m) \in 28..31
  BY MonthLengths
<1>2. IsFiniteSet((1..11) \X (1..31))
  <2>1. IsFiniteSet(1..11) /\ IsFiniteSet(1..31)
    BY FS_Interval, 1 \in Int, 11 \in Int, 31 \in Int
  <2> QED
    BY <2>1, FS_Product
<1>3. Before(m) \subseteq (1..11) \X (1..31) /\ Before(m + 1) \subseteq (1..11) \X (1..31)
  OBVIOUS
<1>4. Before(m + 1) = Before(m) \cup New
  BY <1>1
<1>5. Before(m) \cap New = {}
  OBVIOUS
<1>6. IsFiniteSet(New) /\ Cardinality(New) = DaysIn(1, m)
  <2>1. IsFiniteSet(1..DaysIn(1, m)) /\ Cardinality(1..DaysIn(1, m)) = DaysIn(1, m)
    <3>1. 1 \in Int /\ DaysIn(1, m) \in Int /\ ~(1 > DaysIn(1, m))
      BY <1>1
    <3>2. /\ IsFiniteSet(1..DaysIn(1, m))
          /\ Cardinality(1..DaysIn(1, m))
               = IF 1 > DaysIn(1, m) THEN 0 ELSE DaysIn(1, m) - 1 + 1
      BY <3>1, FS_Interval, Zenon
    <3> QED
      BY <1>1, <3>2
  <2>2. IsFiniteSet({m}) /\ Cardinality({m}) = 1
    BY FS_Singleton
  <2>3. IsFiniteSet(New) /\ Cardinality(New) = 1 * DaysIn(1, m)
    BY <2>1, <2>2, FS_Product
  <2> QED
    BY <1>1, <2>3
<1>7. DaysBefore(m) = Cardinality(Before(m)) /\ DaysBefore(m + 1) = Cardinality(Before(m + 1))
  BY DEF DaysBefore
<1> HIDE DEF Before, New
<1>8. IsFiniteSet(Before(m)) /\ Cardinality(Before(m)) \in Nat
  BY <1>2, <1>3, FS_Subset, FS_CardinalityType
<1>9. Cardinality(Before(m) \cup New)
        = Cardinality(Before(m)) + Cardinality(New) - Cardinality(Before(m) \cap New)
  BY <1>6, <1>8, FS_Union
<1>a. Cardinality(Before(m) \cap New) = 0
  BY <1>5, FS_EmptySet
<1>b. Cardinality(Before(m) \cup New) = Cardinality(Before(m)) + DaysIn(1, m)
  BY <1>1, <1>6, <1>8, <1>9, <1>a
<1>c. Cardinality(Before(m + 1)) = Cardinality(Before(m)) + DaysIn(1, m)
  BY <1>4, <1>b, Zenon
<1> QED
  BY <1>7, <1>8, <1>c, Zenon

\* The table of the days before each month.
LEMMA DaysBeforeMonths ==
  /\ DaysBefore(1) = 0 /\ DaysBefore(2) = 31 /\ DaysBefore(3) = 59
  /\ DaysBefore(4) = 90 /\ DaysBefore(5) = 120 /\ DaysBefore(6) = 151
  /\ DaysBefore(7) = 181 /\ DaysBefore(8) = 212 /\ DaysBefore(9) = 243
  /\ DaysBefore(10) = 273 /\ DaysBefore(11) = 304 /\ DaysBefore(12) = 334
<1>1. DaysBefore(1) = 0
  <2>1. {x \in (1..11) \X (1..31) : x[1] < 1 /\ x[2] <= DaysIn(1, x[1])} = {}
    OBVIOUS
  <2> QED
    BY <2>1, FS_EmptySet DEF DaysBefore
<1>2. \A m \in 1..11 : DaysBefore(m + 1) = DaysBefore(m) + DaysIn(1, m)
  BY OneMonthMore
<1>3. /\ DaysIn(1, 1) = 31 /\ DaysIn(1, 2) = 28 /\ DaysIn(1, 3) = 31 /\ DaysIn(1, 4) = 30
      /\ DaysIn(1, 5) = 31 /\ DaysIn(1, 6) = 30 /\ DaysIn(1, 7) = 31 /\ DaysIn(1, 8) = 31
      /\ DaysIn(1, 9) = 30 /\ DaysIn(1, 10) = 31 /\ DaysIn(1, 11) = 30
  BY MonthLengths
<1>4. /\ DaysBefore(2) = 31 /\ DaysBefore(3) = 59 /\ DaysBefore(4) = 90
      /\ DaysBefore(5) = 120 /\ DaysBefore(6) = 151
  BY <1>1, <1>2, <1>3
<1>5. /\ DaysBefore(7) = 181 /\ DaysBefore(8) = 212 /\ DaysBefore(9) = 243
      /\ DaysBefore(10) = 273 /\ DaysBefore(11) = 304 /\ DaysBefore(12) = 334
  BY <1>2, <1>3, <1>4
<1> QED
  BY <1>1, <1>4, <1>5

-----------------------------------------------------------------------------
(* The ordinals of a year and of its quarters.                             *)

Leap(y) == IF IsLeap(y) THEN 1 ELSE 0

YearStart(y) == Ordinal(Date(y, 1, 1))

QuarterStart(y, q) == Ordinal(Date(y, 3 * q - 2, 1))

\* How far a date is into its year.
LEMMA DaysIntoYear ==
  ASSUME NEW y \in Nat \ {0}, NEW m \in 1..12, NEW d \in Nat
  PROVE  /\ YearStart(y) \in Int /\ Ordinal(Date(y, m, d)) \in Int
         /\ Ordinal(Date(y, m, d))
              = YearStart(y) + DaysBefore(m) + (d - 1) + IF m > 2 THEN Leap(y) ELSE 0
<1>1. DaysBefore(m) \in Int /\ DaysBefore(1) = 0
  BY DaysBeforeMonths
<1> DEFINE years == 365 * (y - 1) + (y - 1) \div 4 - (y - 1) \div 100 + (y - 1) \div 400
<1>2. years \in Int
  OBVIOUS
<1>3. YearStart(y) = years + DaysBefore(1) + 1 + 0
  BY DEF YearStart, Ordinal, Date
<1>4. Ordinal(Date(y, m, d)) = years + DaysBefore(m) + d + IF m > 2 /\ IsLeap(y) THEN 1 ELSE 0
  BY DEF Ordinal, Date
<1> HIDE DEF years
<1> QED
  BY <1>1, <1>2, <1>3, <1>4 DEF Leap

\* A year has 365 days, a leap year one more.
LEMMA NextYear ==
  ASSUME NEW y \in Nat \ {0}
  PROVE  YearStart(y + 1) = YearStart(y) + 365 + Leap(y)
<1> DEFINE x == y - 1
<1>1. /\ YearStart(y) = 365 * x + x \div 4 - x \div 100 + x \div 400 + DaysBefore(1) + 1 + 0
      /\ YearStart(y + 1) = 365 * y + y \div 4 - y \div 100 + y \div 400 + DaysBefore(1) + 1 + 0
  BY DEF YearStart, Ordinal, Date
<1>2. DaysBefore(1) = 0
  BY DaysBeforeMonths
<1>3. /\ y \div 4 = x \div 4 + (IF y % 4 = 0 THEN 1 ELSE 0)
      /\ y \div 100 = x \div 100 + (IF y % 100 = 0 THEN 1 ELSE 0)
      /\ y \div 400 = x \div 400 + (IF y % 400 = 0 THEN 1 ELSE 0)
  OBVIOUS
<1>4. (y % 400 = 0 => y % 100 = 0) /\ (y % 100 = 0 => y % 4 = 0)
  OBVIOUS
<1> QED
  BY <1>1, <1>2, <1>3, <1>4 DEF Leap, IsLeap

\* A later year starts no earlier than 365 days after.
LEMMA LaterYear ==
  ASSUME NEW y \in Nat \ {0}, NEW z \in Nat \ {0}, y < z
  PROVE  YearStart(z) >= YearStart(y) + 365 + Leap(y)
<1> DEFINE Years(x) == 365 * x + x \div 4 - x \div 100 + x \div 400
<1>1. ASSUME NEW a \in Nat, NEW b \in Nat, a <= b
      PROVE  Years(a) <= Years(b)
  <2>1. /\ a \div 4 <= b \div 4 /\ a \div 400 <= b \div 400
        /\ b \div 100 - a \div 100 <= b - a
    BY <1>1
  <2> QED
    BY <1>1, <2>1
<1>2. \A x \in Nat \ {0} : YearStart(x) = Years(x - 1) + DaysBefore(1) + 1 + 0
  BY DEF YearStart, Ordinal, Date
<1>3. DaysBefore(1) = 0
  BY DaysBeforeMonths
<1>4. Years(y) <= Years(z - 1)
  BY <1>1
<1>5. YearStart(y + 1) <= YearStart(z)
  BY <1>2, <1>3, <1>4
<1> QED
  BY <1>5, NextYear

\* The quarters of a year, and its last day.
LEMMA QuartersOfYear ==
  ASSUME NEW y \in Nat \ {0}
  PROVE  /\ YearStart(y) \in Int /\ Leap(y) \in {0, 1}
         /\ QuarterStart(y, 1) = YearStart(y)
         /\ QuarterStart(y, 2) = YearStart(y) + 90 + Leap(y)
         /\ QuarterStart(y, 3) = YearStart(y) + 181 + Leap(y)
         /\ QuarterStart(y, 4) = YearStart(y) + 273 + Leap(y)
         /\ Ordinal(Date(y, 12, 31)) = YearStart(y) + 364 + Leap(y)
<1>1. \A m \in 1..12, d \in Nat :
        /\ YearStart(y) \in Int
        /\ Ordinal(Date(y, m, d))
             = YearStart(y) + DaysBefore(m) + (d - 1) + IF m > 2 THEN Leap(y) ELSE 0
  BY DaysIntoYear
<1>2. Leap(y) \in {0, 1}
  BY DEF Leap
<1>3. /\ QuarterStart(y, 1) = Ordinal(Date(y, 1, 1)) /\ QuarterStart(y, 2) = Ordinal(Date(y, 4, 1))
      /\ QuarterStart(y, 3) = Ordinal(Date(y, 7, 1)) /\ QuarterStart(y, 4) = Ordinal(Date(y, 10, 1))
  BY DEF QuarterStart
<1> QED
  BY <1>1, <1>2, <1>3, DaysBeforeMonths

\* A date lies in its quarter, whose first day is at most as late, and before the
\* first day of the next one.
LEMMA DateInQuarter ==
  ASSUME NEW y \in Nat \ {0}, NEW m \in 1..12, NEW d \in 1..DaysIn(y, m)
  PROVE  LET a == Date(y, m, d) IN
         /\ Ordinal(a) \in Int /\ Quarter(a) \in 1..4
         /\ QuarterStart(y, Quarter(a)) <= Ordinal(a)
         /\ Quarter(a) < 4 => Ordinal(a) < QuarterStart(y, Quarter(a) + 1)
         /\ Quarter(a) = 4 => Ordinal(a) < YearStart(y + 1)
<1> DEFINE a == Date(y, m, d)
<1>1. d \in Nat /\ d >= 1 /\ d <= DaysIn(y, m) /\ DaysIn(y, m) \in 28..31
  BY MonthLengths
<1>2. /\ Ordinal(a) \in Int
      /\ Ordinal(a) = YearStart(y) + DaysBefore(m) + (d - 1) + IF m > 2 THEN Leap(y) ELSE 0
  BY <1>1, DaysIntoYear
<1>3. YearStart(y + 1) = YearStart(y) + 365 + Leap(y)
  BY NextYear
<1>4. Quarter(a) = (m - 1) \div 3 + 1
  BY DEF Quarter, Date
<1>5. /\ DaysIn(y, m) = IF m = 2 THEN 28 + Leap(y) ELSE IF m \in {4, 6, 9, 11} THEN 30 ELSE 31
  BY DEF DaysIn, Leap
<1> HIDE DEF a
<1>6. CASE m \in 1..3
  <2>1. Quarter(a) = 1
    BY <1>4, <1>6
  <2> QED
    BY <1>1, <1>2, <1>5, <1>6, <2>1, QuartersOfYear, DaysBeforeMonths DEF a
<1>7. CASE m \in 4..6
  <2>1. Quarter(a) = 2
    BY <1>4, <1>7
  <2> QED
    BY <1>1, <1>2, <1>5, <1>7, <2>1, QuartersOfYear, DaysBeforeMonths DEF a
<1>8. CASE m \in 7..9
  <2>1. Quarter(a) = 3
    BY <1>4, <1>8
  <2> QED
    BY <1>1, <1>2, <1>5, <1>8, <2>1, QuartersOfYear, DaysBeforeMonths DEF a
<1>9. CASE m \in 10..12
  <2>1. Quarter(a) = 4
    BY <1>4, <1>9
  <2> QED
    BY <1>1, <1>2, <1>3, <1>5, <1>9, <2>1, QuartersOfYear, DaysBeforeMonths DEF a
<1> QED
  BY <1>6, <1>7, <1>8, <1>9

\* The window of the previous quarter, from its first day to the day before today's.
LEMMA QuarterBefore ==
  ASSUME NEW y \in Nat, y > 1, NEW m \in 1..12, NEW d \in 1..DaysIn(y, m)
  PROVE  LET a == Date(y, m, d)
             w == PreviousQuarterWindow(a)
             q == Quarter(a)
         IN  /\ w.end + 1 = QuarterStart(y, q) /\ w.end \in Int /\ w.start \in Int
             /\ q = 1 => w.start = QuarterStart(y - 1, 4)
             /\ q > 1 => w.start = QuarterStart(y, q - 1)
<1> DEFINE a == Date(y, m, d)
           q == Quarter(a)
           w == PreviousQuarterWindow(a)
<1>1. q \in 1..4 /\ a.y = y
  BY DateInQuarter DEF Date
<1> HIDE DEF a, q
<1>2. CASE q = 1
  <2>1. w = Window(Ordinal(Date(y - 1, 10, 1)), Ordinal(Date(y - 1, 12, 31)))
    BY <1>1, <1>2 DEF PreviousQuarterWindow, q
  <2>2. w.start = QuarterStart(y - 1, 4) /\ w.end = Ordinal(Date(y - 1, 12, 31))
    BY <2>1 DEF Window, QuarterStart
  <2>3. /\ YearStart(y) = YearStart(y - 1) + 365 + Leap(y - 1)
        /\ YearStart(y - 1) \in Int /\ Leap(y - 1) \in {0, 1}
    BY NextYear, QuartersOfYear
  <2> QED
    BY <1>2, <2>2, <2>3, QuartersOfYear DEF a, q
<1>3. CASE q > 1
  <2>1. w = Window(Ordinal(Date(y, 3 * (q - 1) - 2, 1)), Ordinal(Date(y, 3 * q - 2, 1)) - 1)
    BY <1>1, <1>3 DEF PreviousQuarterWindow, q
  <2>2. w.start = QuarterStart(y, q - 1) /\ w.end = QuarterStart(y, q) - 1
    BY <2>1 DEF Window, QuarterStart
  <2>3. \A r \in 1..4 : QuarterStart(y, r) \in Int
    BY QuartersOfYear
  <2>4. QuarterStart(y, q) \in Int /\ QuarterStart(y, q - 1) \in Int
    BY <1>1, <1>3, <2>3
  <2> QED
    BY <1>1, <1>3, <2>2, <2>4 DEF a, q
<1> QED
  BY <1>1, <1>2, <1>3 DEF a, q

-----------------------------------------------------------------------------
(* The window on every day of the calendar.                                *)

\* Today is a day of one of the years.
TodayIsADate ==
  \E y \in FirstYear..LastYear, m \in 1..12 : \E d \in 1..DaysIn(y, m) : today = Date(y, m, d)

LEMMA TodayStays == MCSpec => []TodayIsADate
<1>1. MCInit => TodayIsADate
  <2>1. FirstYear \in FirstYear..LastYear /\ 1 \in 1..12 /\ 1 \in 1..DaysIn(FirstYear, 1)
    BY WindowAssumption, MonthLengths
  <2> QED
    BY <2>1 DEF MCInit, Init, TodayIsADate
<1>2. TodayIsADate /\ [MCNext]_<<today, case, quotes>> => TodayIsADate'
  <2> SUFFICES ASSUME NEW y \in FirstYear..LastYear, NEW m \in 1..12,
                      NEW d \in 1..DaysIn(y, m), today = Date(y, m, d), Tomorrow
               PROVE  TodayIsADate'
    BY DEF TodayIsADate, MCNext, NextDay, ChooseCase, ReadQuotes, quotes
  <2>1. today.y = y /\ today.m = m /\ today.d = d
    BY DEF Date
  <2>2. CASE d < DaysIn(y, m)
    <3>1. d + 1 \in 1..DaysIn(y, m)
      BY <2>2, MonthLengths
    <3>2. today' = Date(y, m, d + 1)
      <4>1. d # DaysIn(y, m) /\ (d = 31 /\ m = 12 => FALSE)
        BY <2>2, MonthLengths
      <4>2. today' = [today EXCEPT !.d = @ + 1]
        BY <2>1, <4>1 DEF Tomorrow
      <4> QED
        BY <4>2 DEF Date
    <3> QED
      BY <3>1, <3>2 DEF TodayIsADate
  <2>3. CASE d = DaysIn(y, m) /\ m < 12
    <3>1. today' = Date(y, m + 1, 1)
      BY <2>1, <2>3, MonthLengths DEF Tomorrow
    <3>2. m + 1 \in 1..12 /\ 1 \in 1..DaysIn(y, m + 1)
      BY <2>3, MonthLengths
    <3> QED
      BY <3>1, <3>2 DEF TodayIsADate
  <2>4. CASE d = DaysIn(y, m) /\ m = 12
    <3>1. today' = Date(y + 1, 1, 1) /\ y < LastYear
      BY <2>1, <2>4, MonthLengths DEF Tomorrow
    <3>2. y + 1 \in FirstYear..LastYear /\ 1 \in 1..12 /\ 1 \in 1..DaysIn(y + 1, 1)
      BY <3>1, WindowAssumption, MonthLengths
    <3> QED
      BY <3>1, <3>2 DEF TodayIsADate
  <2> QED
    BY <2>2, <2>3, <2>4, MonthLengths
<1> QED
  BY <1>1, <1>2, PTL DEF MCSpec

\* No quarter starts between the one before today's and today's, nor between that and
\* today: its number and its year would lie between theirs.
LEMMA NoStartBetween ==
  ASSUME NEW y \in Nat, y > 1, NEW m \in 1..12, NEW d \in 1..DaysIn(y, m),
         NEW z \in Nat \ {0}, NEW r \in 1..4,
         PreviousQuarterWindow(Date(y, m, d)).start <= QuarterStart(z, r),
         QuarterStart(z, r) <= Ordinal(Date(y, m, d))
  PROVE  LET w == PreviousQuarterWindow(Date(y, m, d)) IN
         QuarterStart(z, r) \in {w.start, w.end + 1}
<1> DEFINE a == Date(y, m, d)
           w == PreviousQuarterWindow(a)
           q == Quarter(a)
<1>1. /\ w.end + 1 = QuarterStart(y, q) /\ w.end \in Int /\ w.start \in Int
      /\ q = 1 => w.start = QuarterStart(y - 1, 4)
      /\ q > 1 => w.start = QuarterStart(y, q - 1)
  BY QuarterBefore
<1>2. /\ Ordinal(a) \in Int /\ q \in 1..4
      /\ QuarterStart(y, q) <= Ordinal(a)
      /\ q < 4 => Ordinal(a) < QuarterStart(y, q + 1)
      /\ q = 4 => Ordinal(a) < YearStart(y + 1)
  BY DateInQuarter
<1>3. w.start <= QuarterStart(z, r) /\ QuarterStart(z, r) <= Ordinal(a)
  OBVIOUS
<1> HIDE DEF a, w, q
<1>4. /\ YearStart(y) = YearStart(y - 1) + 365 + Leap(y - 1)
      /\ YearStart(y + 1) = YearStart(y) + 365 + Leap(y)
      /\ YearStart(y - 1) \in Int /\ Leap(y - 1) \in {0, 1}
  BY NextYear, QuartersOfYear
<1>5. ASSUME z = y PROVE QuarterStart(z, r) \in {w.start, w.end + 1}
  <2>1. q < 4 => r <= q
    BY <1>2, <1>3, <1>5, QuartersOfYear
  <2>2. q > 1 => r >= q - 1
    BY <1>1, <1>2, <1>3, <1>5, QuartersOfYear
  <2>3. r = q \/ (q > 1 /\ r = q - 1)
    BY <1>2, <2>1, <2>2
  <2> QED
    BY <1>1, <1>5, <2>3
<1>6. ASSUME z = y - 1 PROVE QuarterStart(z, r) \in {w.start, w.end + 1}
  <2>1. z \in Nat \ {0}
    OBVIOUS
  <2>2. q = 1 /\ r = 4
    BY <1>1, <1>2, <1>3, <1>4, <1>6, <2>1, QuartersOfYear
  <2> QED
    BY <1>1, <1>6, <2>2
<1>7. ASSUME z > y PROVE FALSE
  <2>1. YearStart(z) >= YearStart(y) + 365 + Leap(y)
    BY <1>7, LaterYear
  <2> QED
    BY <1>1, <1>2, <1>3, <1>4, <2>1, QuartersOfYear
<1>8. ASSUME z < y - 1 PROVE FALSE
  <2>1. YearStart(y - 1) >= YearStart(z) + 365 + Leap(z)
    BY <1>8, LaterYear
  <2> QED
    BY <1>1, <1>2, <1>3, <1>4, <2>1, QuartersOfYear
<1> QED
  BY <1>5, <1>6, <1>7, <1>8 DEF w, a

\* On every day of every year, the window of previous_quarter_window is one whole
\* quarter, and the one right before today's.
THEOREM QuarterAlwaysWhole == MCSpec => []QuarterIsWhole
<1>1. TodayIsADate => QuarterIsWhole
  <2> SUFFICES ASSUME NEW y \in FirstYear..LastYear, NEW m \in 1..12,
                      NEW d \in 1..DaysIn(y, m), today = Date(y, m, d)
               PROVE  QuarterIsWhole
    BY DEF TodayIsADate
  <2> DEFINE a == Date(y, m, d)
             w == PreviousQuarterWindow(a)
             q == Quarter(a)
  <2>1. y \in Nat /\ y > 1
    BY WindowAssumption
  <2>2. QuarterStarts = {QuarterStart(z, r) : z \in (FirstYear - 1)..LastYear, r \in 1..4}
    <3>1. \A r \in 1..4 : 3 * r - 2 \in {1, 4, 7, 10}
      OBVIOUS
    <3>2. \A k \in {1, 4, 7, 10} : \E r \in 1..4 : k = 3 * r - 2
      <4>1. 1 = 3 * 1 - 2 /\ 4 = 3 * 2 - 2 /\ 7 = 3 * 3 - 2 /\ 10 = 3 * 4 - 2
        OBVIOUS
      <4> QED
        BY <4>1
    <3> QED
      BY <3>1, <3>2 DEF QuarterStarts, QuarterStart
  <2>3. \A s \in QuarterStarts : w.start <= s /\ s <= Ordinal(a) => s \in {w.start, w.end + 1}
    <3> SUFFICES ASSUME NEW z \in (FirstYear - 1)..LastYear, NEW r \in 1..4,
                        w.start <= QuarterStart(z, r), QuarterStart(z, r) <= Ordinal(a)
                 PROVE  QuarterStart(z, r) \in {w.start, w.end + 1}
      BY <2>2
    <3>1. z \in Nat \ {0}
      BY WindowAssumption
    <3> QED
      BY <2>1, <3>1, NoStartBetween
  <2>4. /\ w.end + 1 = QuarterStart(y, q) /\ w.end \in Int /\ w.start \in Int
        /\ q = 1 => w.start = QuarterStart(y - 1, 4)
        /\ q > 1 => w.start = QuarterStart(y, q - 1)
    BY <2>1, QuarterBefore
  <2>5. Ordinal(a) \in Int /\ q \in 1..4 /\ QuarterStart(y, q) <= Ordinal(a)
    BY <2>1, DateInQuarter
  <2> HIDE DEF a, w, q
  <2>6. w.start \in QuarterStarts /\ w.end + 1 \in QuarterStarts
    <3>1. y - 1 \in (FirstYear - 1)..LastYear /\ y \in (FirstYear - 1)..LastYear
      BY WindowAssumption
    <3>2. q = 1 \/ (q > 1 /\ q - 1 \in 1..4)
      BY <2>5
    <3> QED
      BY <2>2, <2>4, <2>5, <3>1, <3>2
  <2>7. w.start <= w.end + 1
    <3>1. /\ YearStart(y) = YearStart(y - 1) + 365 + Leap(y - 1)
          /\ YearStart(y - 1) \in Int /\ Leap(y - 1) \in {0, 1}
      BY <2>1, NextYear, QuartersOfYear
    <3> QED
      BY <2>1, <2>4, <2>5, <3>1, QuartersOfYear
  <2>8. {s \in QuarterStarts : w.start <= s /\ s <= Ordinal(a)} = {w.start, w.end + 1}
    BY <2>3, <2>4, <2>5, <2>6, <2>7
  <2> QED
    BY <2>8 DEF QuarterIsWhole, w, a
<1> QED
  BY <1>1, TodayStays, PTL

-----------------------------------------------------------------------------
(* The window of a backfill.                                               *)

\* A stretch of n days has at least (5 n - 10) / 7 weekdays.
LEMMA WeekdaysOfStretch ==
  ASSUME NEW x \in Int, NEW n \in Nat
  PROVE  /\ Weekdays(x + n) \in Int /\ Weekdays(x) \in Int
         /\ 7 * (Weekdays(x + n) - Weekdays(x)) >= 5 * n - 10
<1>1. ASSUME NEW z \in Int
      PROVE  Weekdays(z) \in Int /\ 5 * z <= 7 * Weekdays(z) /\ 7 * Weekdays(z) <= 5 * z + 10
  <2>1. PICK q \in Int, r \in 0..6 : z \div 7 = q /\ (z % 7) = r /\ z = 7 * q + r
    <3>1. z \div 7 \in Int /\ (z % 7) \in 0..6 /\ z = 7 * (z \div 7) + (z % 7)
      <4>1. \A u \in Int : (u % 7) \in 0..6 /\ (u \div 7) \in Int
                           /\ u = 7 * (u \div 7) + (u % 7)
        OBVIOUS
      <4> QED
        BY <4>1
    <3> QED
      BY <3>1
  <2>2. Weekdays(z) = 5 * q + IF r < 5 THEN r ELSE 5
    BY <2>1 DEF Weekdays
  <2> QED
    BY <2>1, <2>2
<1> QED
  BY <1>1, x + n \in Int

\* Whatever the floats make of the product, the days looked back are at least
\* both of what they are the longer of.
LEMMA ReachIsLong ==
  ASSUME NEW tradingDays \in Nat, NEW n \in Reach(tradingDays)
  PROVE  n \in Nat /\ n >= tradingDays + 90 /\ 10 * n >= 17 * tradingDays - 10
<1> DEFINE floor == (tradingDays * 17) \div 10
<1>1. /\ floor \in Int /\ 10 * floor <= tradingDays * 17
      /\ tradingDays * 17 < 10 * floor + 10
      /\ (tradingDays * 17) % 10 = 0 => tradingDays * 17 = 10 * floor
  OBVIOUS
<1>2. PICK k \in Stretched(tradingDays) : n = Longer(k, tradingDays + 90)
  BY DEF Reach
<1>3. /\ k = floor \/ (k = floor - 1 /\ (tradingDays * 17) % 10 = 0)
  BY DEF Stretched
<1> HIDE DEF floor
<1>4. k \in Int /\ 10 * k >= 17 * tradingDays - 10
  BY <1>1, <1>3
<1> QED
  BY <1>2, <1>4 DEF Longer

\* For every number of trading days, and on every day.
THEOREM BackfillReaches ==
  ASSUME NEW tradingDays \in Nat, NEW y \in Nat \ {0}, NEW m \in 1..12,
         NEW d \in 1..DaysIn(y, m)
  PROVE  HoldsTradingDays(tradingDays, Date(y, m, d))
<1> DEFINE a == Date(y, m, d)
           day == Ordinal(a)
<1>1. day \in Int
  BY DateInQuarter
<1> HIDE DEF day, a
<1>2. ASSUME NEW w \in DecideWindow("backfill", tradingDays, a)
      PROVE  /\ w.end = day
             /\ Weekdays(w.end - 1) - Weekdays(w.start - 1) - ClosedAtMost(w.end - w.start)
                  >= tradingDays
  <2>1. PICK n \in Reach(tradingDays) : w.start = day - n /\ w.end = day
    BY DEF DecideWindow, Window, day
  <2>2. n \in Nat /\ n >= tradingDays + 90 /\ 10 * n >= 17 * tradingDays - 10
    BY ReachIsLong
  <2>3. PICK x \in Int : x = day - n - 1
    BY <1>1, <2>2
  <2>4. w.start - 1 = x /\ w.end - 1 = x + n /\ w.end - w.start = n
    BY <1>1, <2>1, <2>2, <2>3
  <2>5. /\ Weekdays(x + n) \in Int /\ Weekdays(x) \in Int
        /\ 7 * (Weekdays(x + n) - Weekdays(x)) >= 5 * n - 10
    BY <2>2, WeekdaysOfStretch
  <2>6. ClosedAtMost(n) \in Int /\ 100 * ClosedAtMost(n) <= 1000 + 6 * n
    <3>1. PICK c \in Int : c = (6 * n) \div 100 /\ 100 * c <= 6 * n
      <4>1. (6 * n) \div 100 \in Int /\ 100 * ((6 * n) \div 100) <= 6 * n
        BY <2>2
      <4> QED
        BY <4>1
    <3>2. ClosedAtMost(n) = 10 + c
      BY <3>1 DEF ClosedAtMost
    <3> QED
      BY <2>2, <3>1, <3>2
  <2>7. Weekdays(x + n) - Weekdays(x) - ClosedAtMost(n) >= tradingDays
    <3>1. \A a1, b1, c1 \in Int :
            7 * (b1 - a1) >= 5 * n - 10 /\ 100 * c1 <= 1000 + 6 * n
              => b1 - a1 - c1 >= tradingDays
      BY <2>2
    <3> QED
      BY <2>5, <2>6, <3>1
  <2> QED
    BY <2>1, <2>4, <2>7
<1> QED
  BY <1>2 DEF HoldsTradingDays, day, a

\* The same of the windows that are taken as cases.
THEOREM CasesReach == MCSpec => []BackfillHoldsTradingDays
<1>1. (case # NoValue => case \in Cases) => BackfillHoldsTradingDays
  <2> SUFFICES ASSUME case \in Cases, case.of = "backfill"
               PROVE  HoldsTradingDays(case.tradingDays, case.on)
    BY DEF BackfillHoldsTradingDays, Of
  <2>1. /\ case.tradingDays \in 1..MaxTrading
        /\ case.on \in {Date(FirstYear, 1, d) : d \in 1..7}
    BY DEF Cases
  <2>2. PICK d \in 1..7 : case.on = Date(FirstYear, 1, d)
    BY <2>1
  <2>3. /\ case.tradingDays \in Nat /\ FirstYear \in Nat \ {0}
        /\ 1 \in 1..12 /\ d \in 1..DaysIn(FirstYear, 1)
    BY <2>1, CasesAssumption, WindowAssumption, MonthLengths
  <2> QED
    BY <2>2, <2>3, BackfillReaches
<1> QED
  BY <1>1, OneOfCases, PTL

-----------------------------------------------------------------------------
(* Totals: what the fold of a sequence of naturals computes.               *)

\* One token for each unit of each number at one of the places of t.
Units(s, top, t) == {x \in t \X (1..top) : x[2] <= s[x[1]]}

LEMMA UnitsFinite ==
  ASSUME NEW n \in Nat, NEW top \in Nat, NEW s \in [1..n -> 0..top], NEW t \in SUBSET (1..n)
  PROVE  IsFiniteSet(t) /\ IsFiniteSet(Units(s, top, t)) /\ Cardinality(Units(s, top, t)) \in Nat
<1>1. IsFiniteSet(1..n) /\ IsFiniteSet(1..top)
  BY FS_Interval, 1 \in Int, n \in Int, top \in Int
<1>2. IsFiniteSet(t)
  BY <1>1, FS_Subset
<1>3. IsFiniteSet(t \X (1..top))
  BY <1>1, <1>2, FS_Product
<1>4. Units(s, top, t) \subseteq t \X (1..top)
  BY DEF Units
<1> QED
  BY <1>2, <1>3, <1>4, FS_Subset, FS_CardinalityType

\* Adding a place adds its number.
LEMMA UnitsAdd ==
  ASSUME NEW n \in Nat, NEW top \in Nat, NEW s \in [1..n -> 0..top],
         NEW t \in SUBSET (1..n), NEW i \in t
  PROVE  Cardinality(Units(s, top, t)) = s[i] + Cardinality(Units(s, top, t \ {i}))
<1> DEFINE A == Units(s, top, t)
           B == Units(s, top, t \ {i})
           C == {i} \X (1..s[i])
<1>1. s[i] \in 0..top /\ s[i] \in Int
  OBVIOUS
<1>2. A = B \cup C
  BY <1>1 DEF Units
<1>3. B \cap C = {}
  BY DEF Units
<1>4. IsFiniteSet(C) /\ Cardinality(C) = s[i]
  <2>1. IsFiniteSet(1..s[i]) /\ Cardinality(1..s[i]) = IF 1 > s[i] THEN 0 ELSE s[i] - 1 + 1
    BY <1>1, 1 \in Int, FS_Interval, Zenon
  <2>2. Cardinality(1..s[i]) = s[i]
    BY <1>1, <2>1
  <2>3. IsFiniteSet({i}) /\ Cardinality({i}) = 1
    BY FS_Singleton
  <2>4. IsFiniteSet(C) /\ Cardinality(C) = Cardinality({i}) * Cardinality(1..s[i])
    BY <2>1, <2>3, FS_Product, Zenon
  <2> QED
    BY <1>1, <2>2, <2>3, <2>4
<1>5. IsFiniteSet(B) /\ Cardinality(B) \in Nat
  BY UnitsFinite
<1> HIDE DEF A, B, C
<1>6. Cardinality(B \cup C) = Cardinality(B) + Cardinality(C) - Cardinality(B \cap C)
  BY <1>4, <1>5, FS_Union
<1>7. Cardinality(B \cap C) = 0
  BY <1>3, FS_EmptySet
<1>8. Cardinality(B \cup C) = s[i] + Cardinality(B)
  BY <1>1, <1>4, <1>5, <1>6, <1>7
<1>9. Cardinality(A) = s[i] + Cardinality(B)
  BY <1>2, <1>8, Zenon
<1> QED
  BY <1>9 DEF A, B

LEMMA UnitsWithout ==
  ASSUME NEW n \in Nat, NEW top \in Nat, NEW s \in [1..n -> 0..top], NEW i \in 1..n
  PROVE  Cardinality(Units(s, top, 1..n)) = s[i] + Cardinality(Units(s, top, (1..n) \ {i}))
<1>1. PICK t : t = 1..n
  OBVIOUS
<1>2. t \in SUBSET (1..n) /\ i \in t
  BY <1>1
<1>3. Cardinality(Units(s, top, t)) = s[i] + Cardinality(Units(s, top, t \ {i}))
  BY <1>2, UnitsAdd
<1> QED
  BY <1>1, <1>3, Zenon

\* The fold counts the units.
LEMMA TotalCounts ==
  ASSUME NEW n \in Nat, NEW top \in Nat, NEW s \in [1..n -> 0..top]
  PROVE  Total(s) = Cardinality(Units(s, top, 1..n))
<1> DEFINE D == 1..n
           Pick(t) == CHOOSE i \in t : TRUE
           Step(f, t) == IF t = {} THEN 0 ELSE s[Pick(t)] + f[t \ {Pick(t)}]
           Folds(f) == f = [t \in SUBSET D |-> Step(f, t)]
           count == [t \in SUBSET D |-> Cardinality(Units(s, top, t))]
           iter == CHOOSE f : Folds(f)
<1>1. Total(s) = iter[D]
  <2>1. DOMAIN s = D
    OBVIOUS
  <2>2. Total(s) = (CHOOSE f : f = [t \in SUBSET DOMAIN s |->
                      IF t = {} THEN 0
                      ELSE s[CHOOSE i \in t : TRUE] + f[t \ {CHOOSE i \in t : TRUE}]])[DOMAIN s]
    BY DEF Total, FoldSeq, FoldFunction, FoldFunctionOnSet, MapThenFoldSet
  <2> QED
    BY <2>1, <2>2
<1>2. \A t \in SUBSET D : t # {} => Pick(t) \in t
  OBVIOUS
<1> HIDE DEF Pick
<1>3. Folds(count)
  <2>1. \A t \in SUBSET D : count[t] = Step(count, t)
    <3> SUFFICES ASSUME NEW t \in SUBSET D PROVE count[t] = Step(count, t)
      OBVIOUS
    <3>1. CASE t = {}
      <4>1. Units(s, top, t) = {}
        BY <3>1 DEF Units
      <4> QED
        BY <3>1, <4>1, FS_EmptySet
    <3>2. CASE t # {}
      <4>1. t \ {Pick(t)} \in SUBSET D /\ Pick(t) \in t
        BY <1>2, <3>2
      <4>2. Cardinality(Units(s, top, t))
              = s[Pick(t)] + Cardinality(Units(s, top, t \ {Pick(t)}))
        <5>1. \A i \in t : Cardinality(Units(s, top, t))
                            = s[i] + Cardinality(Units(s, top, t \ {i}))
          BY UnitsAdd
        <5> QED
          BY <4>1, <5>1, Zenon
      <4>3. /\ count[t] = Cardinality(Units(s, top, t))
            /\ count[t \ {Pick(t)}] = Cardinality(Units(s, top, t \ {Pick(t)}))
        BY <4>1
      <4> QED
        BY <3>2, <4>2, <4>3
    <3> QED
      BY <3>1, <3>2
  <2> QED
    BY <2>1
<1>4. Folds(iter)
  BY <1>3
<1> HIDE DEF iter
<1>5. \A t \in SUBSET D : iter[t] = Step(iter, t) /\ count[t] = Step(count, t)
  BY <1>3, <1>4, Zenon
<1> HIDE DEF count
<1>6. ASSUME NEW u \in SUBSET D, iter[u] # count[u]
      PROVE  FALSE
  <2> DEFINE Bad == {t \in SUBSET D : iter[t] # count[t]}
             Sizes == {Cardinality(t) : t \in Bad}
  <2>1. \A t \in SUBSET D : IsFiniteSet(t) /\ Cardinality(t) \in Nat
    BY UnitsFinite, FS_CardinalityType
  <2>2. PICK t \in Bad : \A v \in Bad : Cardinality(t) <= Cardinality(v)
    <3>1. Sizes \subseteq Nat /\ Sizes # {}
      BY <1>6, <2>1
    <3> HIDE DEF Bad
    <3>2. PICK m \in Sizes : \A k \in Sizes : m <= k
      BY <3>1, Smallest
    <3> QED
      BY <3>2
  <2>3. t # {}
    BY <1>5
  <2>4. t \ {Pick(t)} \notin Bad
    <3>1. Cardinality(t \ {Pick(t)}) = Cardinality(t) - 1
      BY <1>2, <2>1, <2>3, FS_RemoveElement
    <3> QED
      BY <2>1, <2>2, <3>1
  <2>5. iter[t \ {Pick(t)}] = count[t \ {Pick(t)}]
    BY <2>4
  <2> QED
    BY <1>5, <2>2, <2>3, <2>5
<1> QED
  BY <1>1, <1>6 DEF count

LEMMA TotalIsNat ==
  ASSUME NEW n \in Nat, NEW top \in Nat, NEW s \in [1..n -> 0..top]
  PROVE  Total(s) \in Nat
<1>1. IsFiniteSet(Units(s, top, 1..n)) /\ Cardinality(Units(s, top, 1..n)) \in Nat
  BY UnitsFinite
<1> QED
  BY <1>1, TotalCounts, Zenon

\* Greater numbers have the greater total.
LEMMA TotalMonotone ==
  ASSUME NEW n \in Nat, NEW top \in Nat, NEW s \in [1..n -> 0..top], NEW u \in [1..n -> 0..top],
         \A i \in 1..n : s[i] <= u[i]
  PROVE  Total(s) <= Total(u)
<1> DEFINE A == Units(s, top, 1..n)
           B == Units(u, top, 1..n)
<1>1. A \subseteq B
  <2> SUFFICES ASSUME NEW i \in 1..n, NEW k \in 1..top, k <= s[i] PROVE k <= u[i]
    BY DEF Units
  <2>1. s[i] \in Int /\ u[i] \in Int /\ s[i] <= u[i]
    OBVIOUS
  <2> QED
    BY <2>1
<1>2. IsFiniteSet(B)
  BY UnitsFinite
<1>3. Total(s) = Cardinality(A) /\ Total(u) = Cardinality(B)
  BY TotalCounts
<1> HIDE DEF A, B
<1> QED
  BY <1>1, <1>2, <1>3, FS_Subset

\* A total lies between as many times the least of its numbers and the greatest.
LEMMA TotalBetween ==
  ASSUME NEW n \in Nat \ {0}, NEW top \in Nat, NEW s \in [1..n -> 0..top]
  PROVE  /\ \E i \in 1..n : s[i] * n <= Total(s)
         /\ \E j \in 1..n : Total(s) <= s[j] * n
<1> DEFINE A == Units(s, top, 1..n)
           Times(k) == (1..n) \X (1..k)
<1>1. \A i \in 1..n : s[i] \in 0..top
  OBVIOUS
<1>2. ASSUME NEW k \in Nat
      PROVE  IsFiniteSet(Times(k)) /\ Cardinality(Times(k)) = k * n
  <2>1. IsFiniteSet(1..k) /\ Cardinality(1..k) = IF 1 > k THEN 0 ELSE k - 1 + 1
    BY 1 \in Int, k \in Int, FS_Interval, Zenon
  <2>2. IsFiniteSet(1..n) /\ Cardinality(1..n) = IF 1 > n THEN 0 ELSE n - 1 + 1
    BY 1 \in Int, n \in Int, FS_Interval, Zenon
  <2>3. IsFiniteSet(Times(k)) /\ Cardinality(Times(k)) = Cardinality(1..n) * Cardinality(1..k)
    BY <2>1, <2>2, FS_Product, Zenon
  <2>4. Cardinality(1..k) = k /\ Cardinality(1..n) = n
    BY <2>1, <2>2
  <2>5. Cardinality(1..n) * Cardinality(1..k) = k * n
    BY <2>4
  <2> QED
    BY <2>3, <2>5, Zenon
<1>3. IsFiniteSet(A) /\ Total(s) = Cardinality(A)
  BY UnitsFinite, TotalCounts
<1>4. PICK i \in 1..n : \A k \in 1..n : s[i] <= s[k]
  <2> DEFINE S == {s[k] : k \in 1..n}
  <2>1. S \subseteq Nat /\ S # {}
    BY <1>1, 1 \in 1..n
  <2>2. PICK m \in S : \A k \in S : m <= k
    BY <2>1, Smallest
  <2> QED
    BY <2>2
<1>5. PICK j \in 1..n : \A k \in 1..n : s[k] <= s[j]
  <2> DEFINE S == {top - s[k] : k \in 1..n}
  <2>1. S \subseteq Nat /\ S # {}
    BY <1>1, 1 \in 1..n
  <2>2. PICK m \in S : \A k \in S : m <= k
    BY <2>1, Smallest
  <2>3. PICK j \in 1..n : m = top - s[j]
    OBVIOUS
  <2>4. ASSUME NEW k \in 1..n PROVE s[k] <= s[j]
    <3>1. top - s[j] <= top - s[k] /\ s[j] \in Int /\ s[k] \in Int
      BY <1>1, <2>2, <2>3
    <3> QED
      BY <3>1
  <2> QED
    BY <2>4
<1>6. Times(s[i]) \subseteq A
  <2>1. \A k \in 1..n, u \in 1..s[i] : u \in 1..top /\ u <= s[k]
    BY <1>1, <1>4
  <2> QED
    BY <2>1 DEF Units
<1>7. A \subseteq Times(s[j])
  <2>1. \A k \in 1..n, u \in 1..top : u <= s[k] => u \in 1..s[j]
    BY <1>1, <1>5
  <2> QED
    BY <2>1 DEF Units
<1>8. s[i] \in Nat /\ s[j] \in Nat
  BY <1>1
<1>9. /\ IsFiniteSet(Times(s[i])) /\ Cardinality(Times(s[i])) = s[i] * n
      /\ IsFiniteSet(Times(s[j])) /\ Cardinality(Times(s[j])) = s[j] * n
  BY <1>2, <1>8
<1> HIDE DEF A, Times
<1>10. Cardinality(Times(s[i])) <= Cardinality(A) /\ Cardinality(A) <= Cardinality(Times(s[j]))
  BY <1>3, <1>6, <1>7, <1>9, FS_Subset
<1> QED
  BY <1>3, <1>9, <1>10

\* The total of a sequence is that of all but the last, and the last.
LEMMA TotalLast ==
  ASSUME NEW n \in Nat, NEW top \in Nat, NEW s \in [1..(n + 1) -> 0..top]
  PROVE  Total(s) = Total([i \in 1..n |-> s[i]]) + s[n + 1]
<1> DEFINE front == [i \in 1..n |-> s[i]]
<1>1. front \in [1..n -> 0..top]
  OBVIOUS
<1>2. Units(s, top, (1..(n + 1)) \ {n + 1}) = Units(front, top, 1..n)
  <2>1. (1..(n + 1)) \ {n + 1} = 1..n
    OBVIOUS
  <2> QED
    BY <2>1 DEF Units
<1> HIDE DEF front
<1>3. Total(s) = Cardinality(Units(s, top, 1..(n + 1)))
  BY TotalCounts, n + 1 \in Nat
<1>4. Cardinality(Units(s, top, 1..(n + 1)))
        = s[n + 1] + Cardinality(Units(s, top, (1..(n + 1)) \ {n + 1}))
  <2>1. PICK m \in Nat : m = n + 1
    OBVIOUS
  <2>2. s \in [1..m -> 0..top] /\ m \in 1..m /\ 1 \in 1..m
    BY <2>1
  <2>3. \A i \in 1..m : Cardinality(Units(s, top, 1..m))
                         = s[i] + Cardinality(Units(s, top, (1..m) \ {i}))
    BY <2>2, UnitsWithout
  <2> QED
    BY <2>1, <2>2, <2>3, Zenon
<1>5. Total(front) = Cardinality(Units(front, top, 1..n)) /\ Total(front) \in Nat
  BY <1>1, TotalCounts, TotalIsNat
<1>6. s[n + 1] \in Int
  BY n + 1 \in 1..(n + 1)
<1> QED
  BY <1>2, <1>3, <1>4, <1>5, <1>6 DEF front

\* The total of a sequence is the first, and that of all the others.
LEMMA TotalFirst ==
  ASSUME NEW n \in Nat, NEW top \in Nat, NEW s \in [1..(n + 1) -> 0..top]
  PROVE  Total(s) = s[1] + Total([i \in 1..n |-> s[i + 1]])
<1> DEFINE rest == [i \in 1..n |-> s[i + 1]]
           A == Units(rest, top, 1..n)
           B == Units(s, top, (1..(n + 1)) \ {1})
           f == [x \in A |-> <<x[1] + 1, x[2]>>]
<1>1. rest \in [1..n -> 0..top]
  OBVIOUS
<1>2. f \in Bijection(A, B)
  <2>1. f \in [A -> B]
    BY DEF Units
  <2>2. ASSUME NEW x \in A, NEW y \in A, f[x] = f[y] PROVE x = y
    <3>1. /\ x[1] \in 1..n /\ x = <<x[1], x[2]>>
          /\ y[1] \in 1..n /\ y = <<y[1], y[2]>>
      BY DEF Units
    <3>2. x[1] + 1 = y[1] + 1 /\ x[2] = y[2]
      BY <2>2
    <3> QED
      BY <3>1, <3>2
  <2>3. ASSUME NEW y \in B PROVE \E x \in A : f[x] = y
    <3>1. y[1] \in 2..(n + 1) /\ y[2] \in 1..top /\ y[2] <= s[y[1]] /\ y = <<y[1], y[2]>>
      BY DEF Units
    <3>2. y[1] - 1 \in 1..n /\ rest[y[1] - 1] = s[y[1]]
      BY <3>1
    <3>3. <<y[1] - 1, y[2]>> \in A
      BY <3>1, <3>2 DEF Units
    <3>4. f[<<y[1] - 1, y[2]>>] = y
      BY <3>1, <3>3
    <3> QED
      BY <3>3, <3>4
  <2> QED
    BY <2>1, <2>2, <2>3 DEF Bijection, Injection, Surjection, IsInjective
<1>3. IsFiniteSet(A) /\ Total(rest) = Cardinality(A) /\ Total(rest) \in Nat
  BY <1>1, UnitsFinite, TotalCounts, TotalIsNat
<1> HIDE DEF rest, A, f
<1>4. Cardinality(B) = Cardinality(A)
  BY <1>2, <1>3, FS_Bijection DEF ExistsBijection
<1> HIDE DEF B
<1>5. Total(s) = Cardinality(Units(s, top, 1..(n + 1)))
  BY TotalCounts, n + 1 \in Nat
<1>6. Cardinality(Units(s, top, 1..(n + 1))) = s[1] + Cardinality(B)
  <2>1. PICK m \in Nat : m = n + 1
    OBVIOUS
  <2>2. s \in [1..m -> 0..top] /\ m \in 1..m /\ 1 \in 1..m
    BY <2>1
  <2>3. \A i \in 1..m : Cardinality(Units(s, top, 1..m))
                         = s[i] + Cardinality(Units(s, top, (1..m) \ {i}))
    BY <2>2, UnitsWithout
  <2> QED
    BY <2>1, <2>2, <2>3, Zenon DEF B
<1>7. s[1] \in Int
  BY 1 \in 1..(n + 1)
<1> QED
  BY <1>3, <1>4, <1>5, <1>6, <1>7 DEF rest

-----------------------------------------------------------------------------
(* RSI, of the total gain and the total loss.                              *)

RsiOf(gain, loss) ==
  IF loss = 0 /\ gain = 0 THEN <<50, 1>>
  ELSE IF loss = 0 THEN <<100, 1>>
  ELSE IF gain = 0 THEN <<0, 1>>
  ELSE <<100 * (gain + loss) - 100 * loss, gain + loss>>

LEMMA RsiIsFraction ==
  ASSUME NEW g \in Nat, NEW l \in Nat
  PROVE  LET r == RsiOf(g, l) IN
         /\ r \in Int \X Int /\ r # NoValue /\ r[2] > 0
         /\ 0 <= r[1] /\ r[1] <= 100 * r[2]
<1>1. RsiOf(g, l) \in Int \X Int
  BY DEF RsiOf
<1> QED
  BY <1>1, NoValueAssumption DEF RsiOf

LEMMA RsiMirrors ==
  ASSUME NEW g \in Nat, NEW l \in Nat
  PROVE  LET r == RsiOf(g, l)
             m == RsiOf(l, g)
         IN  /\ r[1] * m[2] + m[1] * r[2] = 100 * r[2] * m[2]
             /\ Interpretation(m) = Opposite(Interpretation(r))
<1> DEFINE r == RsiOf(g, l)
           m == RsiOf(l, g)
<1>1. CASE g = 0 \/ l = 0
  BY <1>1, RsiIsFraction DEF RsiOf, Interpretation, Opposite
<1>2. CASE g > 0 /\ l > 0
  <2>1. /\ r[1] = 100 * (g + l) - 100 * l /\ r[2] = g + l
        /\ m[1] = 100 * (l + g) - 100 * g /\ m[2] = l + g
    BY <1>2 DEF RsiOf
  <2>2. r # NoValue /\ m # NoValue
    BY RsiIsFraction
  <2> HIDE DEF r, m
  <2>3. r[1] = 100 * g /\ m[1] = 100 * l /\ r[2] = g + l /\ m[2] = g + l
    BY <2>1
  <2>4. (100 * g) * (g + l) + (100 * l) * (g + l) = 100 * (g + l) * (g + l)
    OBVIOUS
  <2>5. r[1] * m[2] + m[1] * r[2] = 100 * r[2] * m[2]
    BY <2>3, <2>4
  <2>6. Interpretation(m) = Opposite(Interpretation(r))
    BY <1>2, <2>2, <2>3 DEF Interpretation, Opposite
  <2> QED
    BY <2>5, <2>6 DEF r, m
<1> QED
  BY <1>1, <1>2

\* With more gain and less loss it does not fall.
LEMMA RsiRises ==
  ASSUME NEW g \in Nat, NEW l \in Nat, NEW g2 \in Nat, NEW l2 \in Nat, g <= g2, l2 <= l
  PROVE  LET r == RsiOf(g, l)
             h == RsiOf(g2, l2)
         IN  r[1] * h[2] <= h[1] * r[2]
<1> DEFINE r == RsiOf(g, l)
           h == RsiOf(g2, l2)
<1>1. CASE l = 0 \/ g = 0 \/ l2 = 0
  BY <1>1 DEF RsiOf
<1>2. CASE g > 0 /\ l2 > 0
  <2>1. /\ r[1] = 100 * g /\ r[2] = g + l /\ h[1] = 100 * g2 /\ h[2] = g2 + l2
    BY <1>2 DEF RsiOf
  <2> HIDE DEF r, h
  <2>2. g * l2 <= g * l /\ g * l <= g2 * l
    OBVIOUS
  <2>3. (100 * g) * (g2 + l2) = 100 * (g * g2) + 100 * (g * l2)
    OBVIOUS
  <2>4. (100 * g2) * (g + l) = 100 * (g * g2) + 100 * (g2 * l)
    OBVIOUS
  <2>5. g * l2 \in Int /\ g * l \in Int /\ g2 * l \in Int /\ g * g2 \in Int
    OBVIOUS
  <2>6. (100 * g) * (g2 + l2) <= (100 * g2) * (g + l)
    BY <2>2, <2>3, <2>4, <2>5
  <2> QED
    BY <2>1, <2>6 DEF r, h
<1> QED
  BY <1>1, <1>2

-----------------------------------------------------------------------------
(* The indicators of a sequence of closes.                                 *)

LEMMA SeqIsFunction ==
  ASSUME NEW S, NEW s \in Seq(S)
  PROVE  s \in [1..Len(s) -> S]
  OBVIOUS

\* The differences of the last closes.
LEMMA DeltasAt ==
  ASSUME NEW closes \in Seq(Int), NEW period \in Nat \ {0}, Len(closes) > period
  PROVE  Deltas(closes, period)
           = [i \in 1..period |-> closes[Len(closes) - period + i]
                                    - closes[Len(closes) - period + i - 1]]
<1> DEFINE n == Len(closes)
           recent == LastOf(closes, period + 1)
<1>1. n \in Nat /\ n > period
  OBVIOUS
<1>2. ASSUME NEW i \in 1..(period + 1) PROVE recent[i] = closes[n - period + i - 1]
  <2>1. n - period \in 1..n /\ n - (period + 1) + 1 = n - period
    BY <1>1
  <2>2. PICK from \in 1..n : from = n - period
    BY <2>1
  <2>3. recent = SubSeq(closes, from, n)
    BY <2>1, <2>2, Zenon DEF LastOf
  <2>4. i \in 1..(n - from + 1) /\ n \in Int /\ \A k \in from..n : closes[k] \in Int
    BY <1>1, <2>2
  <2>5. recent[i] = closes[from + i - 1]
    BY <2>3, <2>4, SubSeqProperties
  <2> QED
    BY <2>2, <2>5
<1>3. \A i \in 1..period : recent[i + 1] = closes[n - period + i]
                           /\ recent[i] = closes[n - period + i - 1]
  <2> SUFFICES ASSUME NEW i \in 1..period
               PROVE  recent[i + 1] = closes[n - period + i] /\ recent[i] = closes[n - period + i - 1]
    OBVIOUS
  <2>1. i + 1 \in 1..(period + 1) /\ i \in 1..(period + 1)
    OBVIOUS
  <2>2. n - period + (i + 1) - 1 = n - period + i
    BY <1>1
  <2> QED
    BY <1>2, <2>1, <2>2
<1>4. Deltas(closes, period) = [i \in 1..period |-> recent[i + 1] - recent[i]]
  BY DEF Deltas
<1> HIDE DEF recent
<1> QED
  BY <1>3, <1>4

Gains(deltas, period) == [i \in 1..period |-> Gain(deltas[i])]
Losses(deltas, period) == [i \in 1..period |-> Loss(deltas[i])]

LEMMA GainAndLoss ==
  /\ \A d \in Int : Gain(0 - d) = Loss(d) /\ Loss(0 - d) = Gain(d)
  /\ \A d, e \in Int : d <= e => Gain(d) <= Gain(e) /\ Loss(e) <= Loss(d)
  BY DEF Gain, Loss

\* Closes between 0 and top gain and lose no more than top a day.
LEMMA DeltasBounded ==
  ASSUME NEW top \in Nat, NEW closes \in Seq(0..top), NEW period \in Nat \ {0},
         Len(closes) > period
  PROVE  LET deltas == Deltas(closes, period) IN
         /\ deltas \in [1..period -> Int]
         /\ Gains(deltas, period) \in [1..period -> 0..top]
         /\ Losses(deltas, period) \in [1..period -> 0..top]
<1> DEFINE n == Len(closes)
           deltas == Deltas(closes, period)
<1>1. n \in Nat /\ n > period /\ \A i \in 1..n : closes[i] \in 0..top
  OBVIOUS
<1>2. closes \in Seq(Int)
  OBVIOUS
<1>3. deltas = [i \in 1..period |-> closes[n - period + i] - closes[n - period + i - 1]]
  BY <1>2, DeltasAt
<1>4. \A i \in 1..period : n - period + i \in 1..n /\ n - period + i - 1 \in 1..n
  BY <1>1
<1> HIDE DEF deltas
<1>5. ASSUME NEW i \in 1..period
      PROVE  deltas[i] \in Int /\ 0 - top <= deltas[i] /\ deltas[i] <= top
  <2>1. closes[n - period + i] \in 0..top /\ closes[n - period + i - 1] \in 0..top
    BY <1>1, <1>4
  <2>2. PICK x \in 0..top, y \in 0..top : deltas[i] = x - y
    BY <1>3, <2>1, Zenon
  <2> QED
    BY <2>2
<1>6. deltas \in [1..period -> Int]
  BY <1>3, <1>5
<1>7. \A i \in 1..period : Gain(deltas[i]) \in 0..top /\ Loss(deltas[i]) \in 0..top
  BY <1>5 DEF Gain, Loss
<1> QED
  BY <1>6, <1>7 DEF Gains, Losses, deltas

LEMMA RsiOfTotals ==
  ASSUME NEW top \in Nat, NEW closes \in Seq(0..top), NEW period \in Nat \ {0},
         Len(closes) > period
  PROVE  LET deltas == Deltas(closes, period)
             g == Total(Gains(deltas, period))
             l == Total(Losses(deltas, period))
         IN  g \in Nat /\ l \in Nat /\ Rsi(closes, period) = RsiOf(g, l)
<1> DEFINE deltas == Deltas(closes, period)
           g == Total(Gains(deltas, period))
           l == Total(Losses(deltas, period))
<1>1. g \in Nat /\ l \in Nat
  BY DeltasBounded, TotalIsNat
<1>2. Len(closes) \in Nat /\ ~(Len(closes) < period + 1)
  OBVIOUS
<1>3. Rsi(closes, period) = IF Len(closes) < period + 1 THEN NoValue ELSE RsiOf(g, l)
  BY DEF Rsi, RsiOf, Gains, Losses
<1> HIDE DEF g, l
<1> QED
  BY <1>1, <1>2, <1>3 DEF g, l

LEMMA MirroredCloses ==
  ASSUME NEW top \in Nat, NEW closes \in Seq(0..top)
  PROVE  /\ Mirrored(closes, top) \in Seq(0..top)
         /\ Len(Mirrored(closes, top)) = Len(closes)
         /\ \A i \in 1..Len(closes) : Mirrored(closes, top)[i] = top - closes[i]
<1>1. Len(closes) \in Nat /\ DOMAIN closes = 1..Len(closes)
  OBVIOUS
<1>2. \A i \in 1..Len(closes) : closes[i] \in 0..top
  OBVIOUS
<1>3. \A i \in 1..Len(closes) : top - closes[i] \in 0..top
  BY <1>2
<1>4. Mirrored(closes, top) = [i \in 1..Len(closes) |-> top - closes[i]]
  BY <1>1 DEF Mirrored
<1> QED
  BY <1>1, <1>3, <1>4

LEMMA RaisedCloses ==
  ASSUME NEW top \in Nat, NEW closes \in Seq(0..top), Len(closes) > 0
  PROVE  LET raised == [closes EXCEPT ![Len(closes)] = @ + 1] IN
         /\ closes \in Seq(0..(top + 1)) /\ raised \in Seq(0..(top + 1))
         /\ Len(raised) = Len(closes)
         /\ \A i \in 1..Len(closes) :
              raised[i] = IF i = Len(closes) THEN closes[i] + 1 ELSE closes[i]
<1> DEFINE n == Len(closes)
           raised == [closes EXCEPT ![n] = @ + 1]
<1>1. n \in Nat /\ n \in 1..n /\ closes \in [1..n -> 0..top]
  OBVIOUS
<1>2. \A i \in 1..n : closes[i] \in 0..(top + 1) /\ closes[i] + 1 \in 0..(top + 1)
  BY <1>1
<1>3. closes \in [1..n -> 0..(top + 1)] /\ raised \in [1..n -> 0..(top + 1)]
  BY <1>1, <1>2
<1>4. closes \in Seq(0..(top + 1)) /\ raised \in Seq(0..(top + 1)) /\ Len(raised) = n
  BY <1>1, <1>3
<1> QED
  BY <1>1, <1>4

\* Prices turned upside down gain what they lost.
LEMMA TurnedDeltas ==
  ASSUME NEW top \in Nat, NEW closes \in Seq(0..top), NEW turned \in Seq(0..top),
         NEW period \in Nat \ {0}, Len(closes) > period, Len(turned) = Len(closes),
         \A i \in 1..Len(closes) : turned[i] = top - closes[i]
  PROVE  /\ Gains(Deltas(turned, period), period) = Losses(Deltas(closes, period), period)
         /\ Losses(Deltas(turned, period), period) = Gains(Deltas(closes, period), period)
<1> DEFINE n == Len(closes)
           there == Deltas(closes, period)
           back == Deltas(turned, period)
<1>1. closes \in Seq(Int) /\ turned \in Seq(Int)
  OBVIOUS
<1>2. /\ there = [i \in 1..period |-> closes[n - period + i] - closes[n - period + i - 1]]
      /\ back = [i \in 1..period |-> turned[n - period + i] - turned[n - period + i - 1]]
  BY <1>1, DeltasAt
<1>3. n \in Nat /\ n > period /\ \A i \in 1..n : closes[i] \in 0..top
  OBVIOUS
<1> HIDE DEF there, back
<1>4. ASSUME NEW i \in 1..period PROVE back[i] = 0 - there[i] /\ there[i] \in Int
  <2>1. n - period + i \in 1..n /\ n - period + i - 1 \in 1..n
    BY <1>3
  <2>2. /\ closes[n - period + i] \in 0..top /\ closes[n - period + i - 1] \in 0..top
        /\ turned[n - period + i] = top - closes[n - period + i]
        /\ turned[n - period + i - 1] = top - closes[n - period + i - 1]
    BY <1>3, <2>1
  <2>3. PICK x \in 0..top, y \in 0..top : there[i] = x - y /\ back[i] = (top - x) - (top - y)
    BY <1>2, <2>2, Zenon
  <2> QED
    BY <2>3
<1>5. \A i \in 1..period : /\ Gain(back[i]) = Loss(there[i])
                           /\ Loss(back[i]) = Gain(there[i])
  BY <1>4, GainAndLoss, Zenon
<1> QED
  BY <1>5 DEF Gains, Losses, there, back

\* With the last close raised, the total gain does not fall and the loss does not rise.
LEMMA RaisedDeltas ==
  ASSUME NEW top \in Nat, NEW closes \in Seq(0..top), NEW raised \in Seq(0..top),
         NEW period \in Nat \ {0}, Len(closes) > period, Len(raised) = Len(closes),
         \A i \in 1..Len(closes) :
           raised[i] = IF i = Len(closes) THEN closes[i] + 1 ELSE closes[i]
  PROVE  /\ Total(Gains(Deltas(closes, period), period))
              <= Total(Gains(Deltas(raised, period), period))
         /\ Total(Losses(Deltas(raised, period), period))
              <= Total(Losses(Deltas(closes, period), period))
<1> DEFINE n == Len(closes)
           old == Deltas(closes, period)
           new == Deltas(raised, period)
<1>1. closes \in Seq(Int) /\ raised \in Seq(Int)
  OBVIOUS
<1>2. /\ old = [i \in 1..period |-> closes[n - period + i] - closes[n - period + i - 1]]
      /\ new = [i \in 1..period |-> raised[n - period + i] - raised[n - period + i - 1]]
  BY <1>1, DeltasAt
<1>3. n \in Nat /\ n > period /\ \A i \in 1..n : closes[i] \in 0..top
  OBVIOUS
<1>4. /\ Gains(old, period) \in [1..period -> 0..top]
      /\ Losses(old, period) \in [1..period -> 0..top]
      /\ Gains(new, period) \in [1..period -> 0..top]
      /\ Losses(new, period) \in [1..period -> 0..top]
  BY DeltasBounded
<1> HIDE DEF old, new
<1>5. ASSUME NEW i \in 1..period
      PROVE  old[i] \in Int /\ new[i] \in Int /\ old[i] <= new[i]
  <2>1. n - period + i \in 1..n /\ n - period + i - 1 \in 1..n /\ n - period + i - 1 # n
    BY <1>3
  <2>2. /\ closes[n - period + i] \in 0..top /\ closes[n - period + i - 1] \in 0..top
        /\ raised[n - period + i] \in {closes[n - period + i], closes[n - period + i] + 1}
        /\ raised[n - period + i - 1] = closes[n - period + i - 1]
    BY <1>3, <2>1
  <2>3. PICK x \in 0..top, y \in 0..top :
          \E z \in {x, x + 1} : old[i] = x - y /\ new[i] = z - y
    BY <1>2, <2>2, Zenon
  <2> QED
    BY <2>3
<1>6. \A i \in 1..period : /\ Gains(old, period)[i] <= Gains(new, period)[i]
                           /\ Losses(new, period)[i] <= Losses(old, period)[i]
  BY <1>5, GainAndLoss, Zenon DEF Gains, Losses
<1>7. period \in Nat
  OBVIOUS
<1> QED
  BY <1>4, <1>6, <1>7, TotalMonotone DEF old, new

\* RSI measures what RsiMeasures says of it, for closes of any number and size.
THEOREM RsiAlwaysMeasures ==
  ASSUME NEW top \in Nat, NEW closes \in Seq(0..top), NEW period \in Nat \ {0}
  PROVE  RsiMeasures(closes, period, top)
<1> DEFINE n == Len(closes)
           turned == Mirrored(closes, top)
           raised == [closes EXCEPT ![Len(closes)] = @ + 1]
<1>1. turned \in Seq(0..top) /\ Len(turned) = n /\ \A i \in 1..n : turned[i] = top - closes[i]
  BY MirroredCloses
<1>2. n \in Nat
  OBVIOUS
<1>3. CASE n <= period
  <2>1. n < period + 1
    BY <1>2, <1>3
  <2>2. Rsi(closes, period) = NoValue /\ Rsi(turned, period) = NoValue
    BY <1>1, <2>1 DEF Rsi
  <2> QED
    BY <1>3, <2>2 DEF RsiMeasures
<1>4. CASE n > period
  <2> DEFINE g == Total(Gains(Deltas(closes, period), period))
             l == Total(Losses(Deltas(closes, period), period))
             g2 == Total(Gains(Deltas(raised, period), period))
             l2 == Total(Losses(Deltas(raised, period), period))
  <2>1. g \in Nat /\ l \in Nat /\ Rsi(closes, period) = RsiOf(g, l)
    BY <1>4, RsiOfTotals
  <2>2. Rsi(turned, period) = RsiOf(l, g)
    <3>1. Rsi(turned, period) = RsiOf(Total(Gains(Deltas(turned, period), period)),
                                      Total(Losses(Deltas(turned, period), period)))
      BY <1>1, <1>4, RsiOfTotals
    <3>2. /\ Gains(Deltas(turned, period), period) = Losses(Deltas(closes, period), period)
          /\ Losses(Deltas(turned, period), period) = Gains(Deltas(closes, period), period)
      BY <1>1, <1>4, TurnedDeltas
    <3> QED
      BY <3>1, <3>2, Zenon
  <2>3. /\ closes \in Seq(0..(top + 1)) /\ raised \in Seq(0..(top + 1)) /\ Len(raised) = n
        /\ \A i \in 1..n : raised[i] = IF i = n THEN closes[i] + 1 ELSE closes[i]
    BY <1>2, <1>4, RaisedCloses
  <2> HIDE DEF raised
  <2>4. PICK more \in Nat : more = top + 1
    OBVIOUS
  <2>5. /\ g2 \in Nat /\ l2 \in Nat /\ Rsi(raised, period) = RsiOf(g2, l2)
        /\ g <= g2 /\ l2 <= l
    <3>1. closes \in Seq(0..more) /\ raised \in Seq(0..more)
      BY <2>3, <2>4
    <3>2. g2 \in Nat /\ l2 \in Nat /\ Rsi(raised, period) = RsiOf(g2, l2)
      BY <1>4, <2>3, <3>1, RsiOfTotals
    <3>3. g <= g2 /\ l2 <= l
      BY <1>4, <2>3, <3>1, RaisedDeltas
    <3> QED
      BY <3>2, <3>3
  <2> HIDE DEF g, l, g2, l2, turned
  <2> DEFINE rsi == RsiOf(g, l)
             mirror == RsiOf(l, g)
             higher == RsiOf(g2, l2)
  <2>6. /\ 0 <= rsi[1] /\ rsi[1] <= 100 * rsi[2]
        /\ rsi[1] * mirror[2] + mirror[1] * rsi[2] = 100 * rsi[2] * mirror[2]
        /\ Interpretation(mirror) = Opposite(Interpretation(rsi))
        /\ rsi[1] * higher[2] <= higher[1] * rsi[2]
    BY <2>1, <2>5, RsiIsFraction, RsiMirrors, RsiRises
  <2> HIDE DEF rsi, mirror, higher
  <2>7. /\ Rsi(closes, period) = rsi /\ Rsi(turned, period) = mirror
        /\ Rsi(raised, period) = higher
    BY <2>1, <2>2, <2>5 DEF rsi, mirror, higher
  <2>8. ~(n <= period)
    BY <1>2, <1>4
  <2> QED
    BY <2>6, <2>7, <2>8 DEF RsiMeasures, turned, raised
<1> QED
  BY <1>2, <1>3, <1>4

\* A moving average lies within its closes and moves by those that enter and leave,
\* for closes of any number and size.
THEOREM AverageAlwaysMeasures ==
  ASSUME NEW top \in Nat, NEW closes \in Seq(0..top), NEW period \in Nat \ {0}
  PROVE  AverageMeasures(closes, period)
<1> DEFINE n == Len(closes)
           last == LastOf(closes, period)
           average == MovingAverage(closes, period)
<1>1. n \in Nat /\ \A i \in 1..n : closes[i] \in 0..top
  OBVIOUS
<1>2. CASE n < period
  BY <1>2 DEF AverageMeasures, MovingAverage
<1>3. CASE n >= period
  <2>1. PICK from \in 1..n : from = n - period + 1
    <3>1. n - period + 1 \in 1..n
      BY <1>1, <1>3
    <3> QED
      BY <3>1
  <2>2. /\ last \in [1..period -> 0..top]
        /\ \A i \in 1..period : last[i] = closes[n - period + i]
    <3>1. last = SubSeq(closes, from, n) /\ n - from + 1 = period /\ from <= n
      BY <1>1, <1>3, <2>1 DEF LastOf
    <3>2. \A k \in from..n : closes[k] \in 0..top
      BY <1>1, <2>1
    <3>3. /\ last \in Seq(0..top) /\ Len(last) = period
          /\ \A i \in 1..period : last[i] = closes[from + i - 1]
      BY <1>1, <2>1, <3>1, <3>2, SubSeqProperties
    <3>4. \A i \in 1..period : from + i - 1 = n - period + i
      BY <1>1, <2>1
    <3>5. last \in [1..Len(last) -> 0..top]
      BY <3>3
    <3> QED
      BY <3>3, <3>4, <3>5
  <2>3. average = <<Total(last), period>>
    BY <1>1, <1>3 DEF MovingAverage
  <2> HIDE DEF last
  <2>4. Total(last) \in Nat
    BY <2>2, TotalIsNat
  <2>5. \E i, j \in 1..period : last[i] * period <= Total(last) /\ Total(last) <= last[j] * period
    BY <2>2, TotalBetween
  <2>6. ASSUME n > period
        PROVE  average[1] - MovingAverage(Front(closes), period)[1]
                 = closes[n] - closes[n - period]
    <3> DEFINE before == LastOf(Front(closes), period)
               both == [i \in 1..(period + 1) |-> closes[n - period - 1 + i]]
    <3>1. Front(closes) \in Seq(0..top) /\ Len(Front(closes)) = n - 1
          /\ \A i \in 1..(n - 1) : Front(closes)[i] = closes[i]
      <4>1. /\ 1 \in Int /\ n - 1 \in Int /\ 1 <= n - 1 /\ n - 1 - 1 + 1 = n - 1
            /\ \A i \in 1..(n - 1) : closes[i] \in 0..top /\ 1 + i - 1 = i
        BY <1>1, <2>6
      <4>2. /\ SubSeq(closes, 1, n - 1) \in Seq(0..top)
            /\ Len(SubSeq(closes, 1, n - 1)) = n - 1
            /\ \A i \in 1..(n - 1) : SubSeq(closes, 1, n - 1)[i] = closes[i]
        BY <4>1, SubSeqProperties
      <4> QED
        BY <4>2, Zenon DEF Front
    <3>2. both \in [1..(period + 1) -> 0..top]
      <4>1. \A i \in 1..(period + 1) : n - period - 1 + i \in 1..n
        BY <1>1, <2>6
      <4> QED
        BY <1>1, <4>1
    <3>3. before = [i \in 1..period |-> both[i]]
      <4>1. PICK start \in 1..(n - 1) : start = n - period
        <5>1. n - period \in 1..(n - 1)
          BY <1>1, <2>6
        <5> QED
          BY <5>1
      <4>2. before = SubSeq(Front(closes), start, n - 1)
        <5>1. (n - 1) - period + 1 = start
          BY <1>1, <4>1
        <5> QED
          BY <3>1, <5>1 DEF LastOf
      <4>3. /\ (n - 1) - start + 1 = period /\ start <= n - 1 /\ n - 1 \in Int
            /\ \A i \in start..(n - 1) : Front(closes)[i] \in 0..top
        <5>1. \A i \in start..(n - 1) : i \in 1..(n - 1) /\ i \in 1..n
          BY <1>1, <4>1
        <5>2. \A i \in start..(n - 1) : Front(closes)[i] \in 0..top
          BY <1>1, <3>1, <5>1
        <5>3. (n - 1) - start + 1 = period /\ start <= n - 1 /\ n - 1 \in Int
          BY <1>1, <4>1
        <5> QED
          BY <5>2, <5>3
      <4>4. /\ before \in Seq(0..top) /\ Len(before) = period
            /\ \A i \in 1..period : before[i] = Front(closes)[start + i - 1]
        BY <4>2, <4>3, SubSeqProperties
      <4>5. \A i \in 1..period : /\ start + i - 1 \in 1..(n - 1)
                                 /\ start + i - 1 = n - period - 1 + i
                                 /\ i \in 1..(period + 1)
        BY <1>1, <4>1
      <4>6. \A i \in 1..period : before[i] = both[i]
        BY <3>1, <4>4, <4>5
      <4> HIDE DEF before, both
      <4>7. before \in [1..Len(before) -> 0..top]
        BY <4>4, SeqIsFunction, Zenon
      <4> QED
        BY <4>4, <4>6, <4>7
    <3>4. last = [i \in 1..period |-> both[i + 1]]
      <4>1. \A i \in 1..period : i + 1 \in 1..(period + 1) /\ n - period - 1 + (i + 1) = n - period + i
        BY <1>1
      <4>2. \A i \in 1..period : last[i] = both[i + 1]
        BY <2>2, <4>1
      <4> QED
        BY <2>2, <4>2
    <3>5. both[1] = closes[n - period] /\ both[period + 1] = closes[n]
      <4>1. /\ 1 \in 1..(period + 1) /\ period + 1 \in 1..(period + 1)
            /\ n - period - 1 + 1 = n - period /\ n - period - 1 + (period + 1) = n
        BY <1>1
      <4> QED
        BY <4>1
    <3>6. MovingAverage(Front(closes), period) = <<Total(before), period>>
      <4>1. ~(period <= 0 \/ n - 1 < period)
        BY <1>1, <2>6
      <4> QED
        BY <3>1, <4>1 DEF MovingAverage
    <3>7. both[1] \in Int /\ both[period + 1] \in Int
      <4>1. 1 \in 1..(period + 1) /\ period + 1 \in 1..(period + 1)
        OBVIOUS
      <4> QED
        BY <3>2, <4>1
    <3> HIDE DEF both, before
    <3>8. /\ Total(both) = Total(before) + both[period + 1]
          /\ Total(both) = both[1] + Total(last)
      BY <3>2, <3>3, <3>4, TotalLast, TotalFirst
    <3>9. Total(before) \in Nat
      <4>1. before \in [1..period -> 0..top]
        BY <3>2, <3>3
      <4> QED
        BY <4>1, TotalIsNat
    <3>10. Total(last) - Total(before) = closes[n] - closes[n - period]
      <4>1. PICK a \in Nat, b \in Nat, x \in Int, y \in Int :
              a = Total(last) /\ b = Total(before) /\ x = both[1] /\ y = both[period + 1]
        BY <2>4, <3>7, <3>9
      <4>2. b + y = x + a
        BY <3>8, <4>1, Zenon
      <4>3. \A k, m, u, v \in Int : m + v = u + k => k - m = v - u
        OBVIOUS
      <4>4. a \in Int /\ b \in Int /\ x \in Int /\ y \in Int
        OBVIOUS
      <4>5. a - b = y - x
        BY <4>2, <4>3, <4>4
      <4> QED
        BY <3>5, <4>1, <4>5, Zenon
    <3> QED
      BY <2>3, <3>6, <3>10
  <2>7. Last(closes) = closes[n]
    BY DEF Last
  <2>8. average[1] = Total(last) /\ average[2] = period
    BY <2>3
  <2> HIDE DEF average
  <2>9. ~(n < period)
    BY <1>1, <1>3
  <2> QED
    BY <2>5, <2>6, <2>7, <2>8, <2>9 DEF AverageMeasures, last, average
<1> QED
  BY <1>1, <1>2, <1>3

-----------------------------------------------------------------------------
(* The closes that are kept.                                               *)

LEMMA ClosesAreNumbers ==
  ASSUME NEW n \in Nat, NEW top \in Nat, NEW raw \in [1..n -> (0..top) \cup {NoValue}]
  PROVE  Closes(raw) \in Seq(0..top)
<1> DEFINE Next(f, i) == IF i = 0 THEN <<>>
                         ELSE IF raw[i] = NoValue THEN f[i - 1] ELSE Append(f[i - 1], raw[i])
           Keeps(f, m) == f = [i \in 0..m |-> Next(f, i)]
           kept == CHOOSE f : Keeps(f, n)
<1>1. Closes(raw) = kept[n]
  <2>1. Len(raw) = n
    OBVIOUS
  <2> QED
    BY <2>1 DEF Closes
<1>2. \E f : Keeps(f, n)
  <2> SUFFICES ASSUME ~\E f : Keeps(f, n) PROVE FALSE
    OBVIOUS
  <2> DEFINE Bad == {m \in 0..n : ~\E f : Keeps(f, m)}
  <2>1. Bad \subseteq Nat /\ n \in Bad
    OBVIOUS
  <2>2. PICK m \in Bad : \A k \in Bad : m <= k
    BY <2>1, Smallest
  <2>3. CASE m = 0
    <3>1. Keeps([i \in 0..0 |-> <<>>], 0)
      OBVIOUS
    <3> QED
      BY <2>2, <2>3, <3>1
  <2>4. CASE m > 0
    <3>0. m \in 0..n
      OBVIOUS
    <3> HIDE DEF Bad
    <3>1. m - 1 \in 0..n /\ m - 1 \notin Bad
      BY <2>2, <2>4, <3>0
    <3> USE DEF Bad
    <3>2. PICK f : Keeps(f, m - 1)
      BY <3>1
    <3> DEFINE g == [i \in 0..m |-> IF i = m THEN Next(f, m) ELSE f[i]]
    <3>3. m \in Nat
      BY <2>1
    <3>4. \A i \in 0..m : Next(g, i) = Next(f, i)
      <4>1. \A i \in 1..m : g[i - 1] = f[i - 1]
        BY <3>3
      <4> QED
        BY <3>3, <4>1
    <3>5. \A i \in 0..(m - 1) : f[i] = Next(f, i)
      BY <3>2
    <3>6. g = [i \in 0..m |-> Next(f, i)]
      BY <3>3, <3>5
    <3> HIDE DEF Next
    <3>7. Keeps(g, m)
      BY <3>4, <3>6
    <3> QED
      BY <3>7
  <2> QED
    BY <2>1, <2>3, <2>4
<1>3. \A i \in 0..n : kept[i] = Next(kept, i)
  <2>1. Keeps(kept, n)
    BY <1>2
  <2> HIDE DEF kept
  <2> QED
    BY <2>1
<1> HIDE DEF kept
<1>4. ASSUME NEW i \in 0..n, kept[i] \notin Seq(0..top) PROVE FALSE
  <2> DEFINE Bad == {k \in 0..n : kept[k] \notin Seq(0..top)}
  <2>1. Bad \subseteq Nat /\ i \in Bad
    BY <1>4
  <2>2. PICK m \in Bad : \A k \in Bad : m <= k
    BY <2>1, Smallest
  <2>3. m # 0
    <3>1. kept[0] = <<>> /\ <<>> \in Seq(0..top)
      BY <1>3, 0 \in 0..n
    <3> QED
      BY <2>2, <3>1, Zenon
  <2>4. m - 1 \in 0..n /\ m - 1 \notin Bad /\ m \in 1..n
    BY <2>2, <2>3
  <2>5. kept[m - 1] \in Seq(0..top) /\ raw[m] \in (0..top) \cup {NoValue}
    BY <2>4
  <2>6. kept[m] \in Seq(0..top)
    <3>1. kept[m] = IF raw[m] = NoValue THEN kept[m - 1] ELSE Append(kept[m - 1], raw[m])
      BY <1>3, <2>3, Zenon
    <3>2. CASE raw[m] = NoValue
      BY <2>5, <3>1, <3>2, Zenon
    <3>3. CASE raw[m] # NoValue
      <4>1. raw[m] \in 0..top
        BY <2>5, <3>3
      <4>2. Append(kept[m - 1], raw[m]) \in Seq(0..top)
        BY <2>5, <4>1
      <4> QED
        BY <3>1, <3>3, <4>2, Zenon
    <3> QED
      BY <3>2, <3>3
  <2> QED
    BY <2>2, <2>6
<1> QED
  BY <1>1, <1>4

\* On the cases of a run: NULL closes are dropped, and the others measured.
THEOREM CasesMeasure == MCSpec => []IndicatorsMeasure
<1>1. (case # NoValue => case \in Cases) => IndicatorsMeasure
  <2> SUFFICES ASSUME case \in Cases, case.of = "closes"
               PROVE  /\ RsiMeasures(Closes(case.raw), Period, MaxPrice)
                      /\ AverageMeasures(Closes(case.raw), Period)
    BY DEF IndicatorsMeasure, Of
  <2>1. PICK n \in 0..MaxCloses : case.raw \in [1..n -> (0..MaxPrice) \cup {NoValue}]
    BY DEF Cases
  <2>2. n \in Nat /\ MaxPrice \in Nat /\ Period \in Nat \ {0}
    BY CasesAssumption
  <2>3. Closes(case.raw) \in Seq(0..MaxPrice)
    BY <2>1, <2>2, ClosesAreNumbers
  <2> QED
    BY <2>2, <2>3, RsiAlwaysMeasures, AverageAlwaysMeasures
<1> QED
  BY <1>1, OneOfCases, PTL

-----------------------------------------------------------------------------
(* The quotes of a symbol.                                                 *)

\* Bounded days have a newest one.
LEMMA Newest ==
  ASSUME NEW top \in Nat, NEW S \in SUBSET (1..top), S # {}
  PROVE  \E m \in S : \A d \in S : d <= m
<1> DEFINE T == {top - d : d \in S}
<1>0. \A d \in S : d \in Int /\ d <= top
  OBVIOUS
<1>1. T \subseteq Nat /\ T # {}
  <2>1. \A d \in S : top - d \in Nat
    BY <1>0
  <2> QED
    BY <2>1
<1>2. PICK k \in T : \A x \in T : k <= x
  BY <1>1, Smallest
<1>3. PICK m \in S : k = top - m
  OBVIOUS
<1>4. ASSUME NEW d \in S PROVE d <= m
  <2>1. top - m <= top - d
    BY <1>2, <1>3
  <2> QED
    BY <1>0, <2>1
<1> QED
  BY <1>4

Older(S, d) == {e \in S : e < d}

\* Rows in the order of their days: each is one of them, and the last is the newest.
LEMMA InOrder ==
  ASSUME NEW top \in Nat, NEW S \in SUBSET (1..top)
  PROVE  LET n == Cardinality(S)
             Row(i) == CHOOSE d \in S : Cardinality(Older(S, d)) = i - 1
         IN  /\ n \in Nat /\ (n = 0 <=> S = {})
             /\ \A i \in 1..n : Row(i) \in S
             /\ S # {} => \A d \in S : d <= Row(n)
<1> DEFINE n == Cardinality(S)
           Row(i) == CHOOSE d \in S : Cardinality(Older(S, d)) = i - 1
           place == [d \in S |-> Cardinality(Older(S, d))]
<1>0. S \subseteq Int
  OBVIOUS
<1>1. IsFiniteSet(S) /\ n \in Nat /\ (n = 0 <=> S = {})
  <2>1. IsFiniteSet(1..top)
    BY FS_Interval, 1 \in Int, top \in Int
  <2> QED
    BY <2>1, FS_Subset, FS_CardinalityType, FS_EmptySet
<1>2. ASSUME NEW d \in S
      PROVE  /\ IsFiniteSet(Older(S, d)) /\ Cardinality(Older(S, d)) \in 0..(n - 1)
  <2>1. Older(S, d) \subseteq S \ {d}
    BY DEF Older
  <2>2. IsFiniteSet(S \ {d}) /\ Cardinality(S \ {d}) = n - 1
    BY <1>1, FS_RemoveElement
  <2>3. IsFiniteSet(Older(S, d)) /\ Cardinality(Older(S, d)) <= n - 1
    BY <2>1, <2>2, FS_Subset
  <2>4. Cardinality(Older(S, d)) \in Nat
    BY <2>3, FS_CardinalityType
  <2> HIDE DEF n
  <2> QED
    BY <1>1, <2>3, <2>4
<1>3. ASSUME NEW d \in S, NEW e \in S, d < e
      PROVE  Cardinality(Older(S, d)) # Cardinality(Older(S, e))
  <2>1. Older(S, d) \subseteq Older(S, e) /\ d \in Older(S, e) /\ d \notin Older(S, d)
    <3>1. \A x \in S : x < d => x < e
      BY <1>0, <1>3
    <3>2. ~(d < d)
      BY <1>0
    <3> QED
      BY <1>3, <3>1, <3>2 DEF Older
  <2>2. IsFiniteSet(Older(S, e))
    BY <1>2
  <2> QED
    BY <2>1, <2>2, FS_Subset
<1>4. place \in Injection(S, 0..(n - 1))
  <2>1. place \in [S -> 0..(n - 1)]
    BY <1>2
  <2>2. ASSUME NEW d \in S, NEW e \in S, place[d] = place[e] PROVE d = e
    <3>1. d \in Int /\ e \in Int
      OBVIOUS
    <3>2. ~(d < e) /\ ~(e < d)
      BY <1>3, <2>2
    <3> QED
      BY <3>1, <3>2
  <2> QED
    BY <2>1, <2>2 DEF Injection, IsInjective
<1> HIDE DEF n
<1>5. IsFiniteSet(0..(n - 1)) /\ Cardinality(0..(n - 1)) = n
  <2>1. /\ IsFiniteSet(0..(n - 1))
        /\ Cardinality(0..(n - 1)) = IF 0 > n - 1 THEN 0 ELSE (n - 1) - 0 + 1
    BY <1>1, 0 \in Int, n - 1 \in Int, FS_Interval, Zenon
  <2> QED
    BY <1>1, <2>1
<1>6. place \in Surjection(S, 0..(n - 1))
  <2>1. Cardinality(S) = Cardinality(0..(n - 1))
    BY <1>5 DEF n
  <2> QED
    BY <1>4, <1>5, <2>1, FS_Injection
<1>7. ASSUME NEW i \in 1..n
      PROVE  Row(i) \in S /\ Cardinality(Older(S, Row(i))) = i - 1
  <2>1. i - 1 \in 0..(n - 1)
    BY <1>1
  <2>2. \E d \in S : place[d] = i - 1
    BY <1>6, <2>1, Zenon DEF Surjection
  <2>3. \E d \in S : Cardinality(Older(S, d)) = i - 1
    BY <2>2
  <2> QED
    BY <2>3, Zenon
<1>8. ASSUME S # {}, NEW d \in S PROVE d <= Row(n)
  <2>1. n \in 1..n
    BY <1>1, <1>8
  <2> DEFINE m == Row(n)
  <2>2. m \in S /\ Cardinality(Older(S, m)) = n - 1
    BY <1>7, <2>1
  <2> HIDE DEF m
  <2>3. IsFiniteSet(S \ {m}) /\ Cardinality(S \ {m}) = n - 1
    BY <1>1, <2>2, FS_RemoveElement DEF n
  <2>4. Older(S, m) \subseteq S \ {m}
    <3>1. ~(m < m)
      BY <1>0, <2>2
    <3> QED
      BY <3>1 DEF Older
  <2>5. Older(S, m) = S \ {m}
    BY <2>2, <2>3, <2>4, FS_Subset
  <2>6. d = m \/ d < m
    BY <2>5 DEF Older
  <2>7. d <= m
    <3>1. d \in Int /\ m \in Int
      BY <1>0, <2>2
    <3> QED
      BY <2>6, <3>1
  <2> QED
    BY <2>7 DEF m
<1> QED
  BY <1>1, <1>7, <1>8 DEF n

\* v is the newest of the days at the places of t, or no day.
IsNewest(rows, t, v) ==
  /\ v \in Nat /\ \A i \in t : rows[i] <= v
  /\ v = NoDay \/ \E i \in t : rows[i] = v

\* The fold of _resolve_latest_kline_row finds the newest day, in whatever order.
LEMMA LatestIsNewest ==
  ASSUME NEW n \in Nat, NEW top \in Nat, NEW rows \in [1..n -> 1..top]
  PROVE  IsNewest(rows, 1..n, LatestRow(rows))
<1> DEFINE D == 1..n
           Pick(t) == CHOOSE i \in t : TRUE
           Step(f, t) == IF t = {} THEN NoDay
                         ELSE IF rows[Pick(t)] >= f[t \ {Pick(t)}] THEN rows[Pick(t)]
                              ELSE f[t \ {Pick(t)}]
           Folds(f) == f = [t \in SUBSET D |-> Step(f, t)]
           best == [t \in SUBSET D |-> CHOOSE v : IsNewest(rows, t, v)]
           iter == CHOOSE f : Folds(f)
<1>1. LatestRow(rows) = iter[D]
  <2>1. DOMAIN rows = D
    OBVIOUS
  <2>2. LatestRow(rows) = (CHOOSE f : f = [t \in SUBSET DOMAIN rows |->
          IF t = {} THEN NoDay
          ELSE IF rows[CHOOSE i \in t : TRUE] >= f[t \ {CHOOSE i \in t : TRUE}]
               THEN rows[CHOOSE i \in t : TRUE]
               ELSE f[t \ {CHOOSE i \in t : TRUE}]])[DOMAIN rows]
    BY DEF LatestRow, FoldSeq, FoldFunction, FoldFunctionOnSet, MapThenFoldSet
  <2> QED
    BY <2>1, <2>2
<1>2. \A t \in SUBSET D : t # {} => Pick(t) \in t
  OBVIOUS
<1> HIDE DEF Pick
<1>3. \A i \in D : rows[i] \in Nat /\ rows[i] <= top /\ rows[i] >= 1
  OBVIOUS
<1>4. ASSUME NEW t \in SUBSET D PROVE \E v : IsNewest(rows, t, v)
  <2> DEFINE Above == {v \in Nat : \A i \in t : rows[i] <= v}
  <2>1. top \in Above
    BY <1>3
  <2>2. PICK m \in Above : \A v \in Above : m <= v
    BY <2>1, Smallest
  <2>3. m = NoDay \/ \E i \in t : rows[i] = m
    <3> SUFFICES ASSUME m # 0, \A i \in t : rows[i] # m PROVE FALSE
      BY DEF NoDay
    <3>1. m - 1 \in Above
      BY <1>3
    <3> QED
      BY <2>2, <3>1
  <2> QED
    BY <2>3 DEF IsNewest
<1>5. ASSUME NEW t \in SUBSET D, NEW v, NEW w, IsNewest(rows, t, v), IsNewest(rows, t, w)
      PROVE  v = w
  <2>1. v \in Nat /\ w \in Nat /\ v <= w /\ w <= v
    BY <1>3, <1>5 DEF IsNewest, NoDay
  <2> QED
    BY <2>1
<1>6. ASSUME NEW t \in SUBSET D, t # {}, NEW v, IsNewest(rows, t \ {Pick(t)}, v)
      PROVE  IsNewest(rows, t, IF rows[Pick(t)] >= v THEN rows[Pick(t)] ELSE v)
  <2>1. PICK i \in t : i = Pick(t)
    BY <1>2, <1>6
  <2>2. IsNewest(rows, t \ {i}, v)
    BY <1>6, <2>1
  <2>3. IsNewest(rows, t, IF rows[i] >= v THEN rows[i] ELSE v)
    BY <1>3, <2>2 DEF IsNewest, NoDay
  <2> QED
    BY <2>1, <2>3
<1>7. IsNewest(rows, {}, NoDay)
  BY DEF IsNewest, NoDay
<1>8. \A t \in SUBSET D : IsNewest(rows, t, best[t])
  BY <1>4
<1>9. Folds(best)
  <2>1. ASSUME NEW t \in SUBSET D PROVE best[t] = Step(best, t)
    <3>1. CASE t = {}
      <4>1. IsNewest(rows, t, Step(best, t))
        BY <1>7, <3>1
      <4> QED
        BY <1>5, <1>8, <4>1
    <3>2. CASE t # {}
      <4>1. t \ {Pick(t)} \in SUBSET D
        OBVIOUS
      <4>2. IsNewest(rows, t \ {Pick(t)}, best[t \ {Pick(t)}])
        BY <1>8, <4>1
      <4> HIDE DEF best
      <4>3. IsNewest(rows, t, Step(best, t))
        BY <1>6, <3>2, <4>2
      <4> QED
        BY <1>5, <1>8, <4>3
    <3> QED
      BY <3>1, <3>2
  <2> QED
    BY <2>1
<1>10. Folds(iter)
  BY <1>9
<1> HIDE DEF iter, best
<1>11. \A t \in SUBSET D : iter[t] = Step(iter, t)
  BY <1>10, Zenon
<1>12. ASSUME NEW u \in SUBSET D, ~IsNewest(rows, u, iter[u]) PROVE FALSE
  <2> DEFINE Bad == {t \in SUBSET D : ~IsNewest(rows, t, iter[t])}
             Sizes == {Cardinality(t) : t \in Bad}
  <2>1. \A t \in SUBSET D : IsFiniteSet(t) /\ Cardinality(t) \in Nat
    <3>1. IsFiniteSet(D)
      BY FS_Interval, 1 \in Int, n \in Int
    <3> QED
      BY <3>1, FS_Subset, FS_CardinalityType
  <2>2. PICK t \in Bad : \A v \in Bad : Cardinality(t) <= Cardinality(v)
    <3>1. Sizes \subseteq Nat /\ Sizes # {}
      BY <1>12, <2>1
    <3> HIDE DEF Bad
    <3>2. PICK m \in Sizes : \A k \in Sizes : m <= k
      BY <3>1, Smallest
    <3> QED
      BY <3>2
  <2>3. t # {}
    BY <1>7, <1>11
  <2>4. t \ {Pick(t)} \notin Bad
    <3>1. Cardinality(t \ {Pick(t)}) = Cardinality(t) - 1
      BY <1>2, <2>1, <2>3, FS_RemoveElement
    <3> QED
      BY <2>1, <2>2, <3>1
  <2>5. IsNewest(rows, t \ {Pick(t)}, iter[t \ {Pick(t)}])
    BY <2>4
  <2> QED
    BY <1>6, <1>11, <2>2, <2>3, <2>5
<1> QED
  BY <1>1, <1>12

\* A limit of at least one keeps the newest of the days that were asked for.
LEMMA LimitKeepsNewest ==
  ASSUME NEW top \in Nat, NEW S \in SUBSET (1..top), NEW limit \in Nat \ {0},
         NEW m \in S, \A d \in S : d <= m
  PROVE  m \in LastDays(S, limit)
<1>1. {e \in S : e > m} = {}
  <2>1. \A e \in S : ~(e > m)
    OBVIOUS
  <2> QED
    BY <2>1
<1>2. Cardinality({e \in S : e > m}) = 0
  BY <1>1, FS_EmptySet
<1> QED
  BY <1>2 DEF LastDays

\* What both tools say of their rows is the newest day that was asked for.
LEMMA BothSayNewest ==
  ASSUME NEW top \in Nat, NEW days \in SUBSET (1..top), NEW from, NEW to,
         NEW limit \in Nat \ {0}
  PROVE  LET asked == Asked(days, from, to)
             rows == Rows(days, from, to, limit)
         IN  /\ asked = {} => LatestRow(rows) = NoDay /\ AsofDate(rows) = NoDay
             /\ asked # {} => LatestRow(rows) = Max(asked) /\ AsofDate(rows) = Max(asked)
<1> DEFINE asked == Asked(days, from, to)
           last == LastDays(asked, limit)
           n == Cardinality(last)
           Row(i) == CHOOSE d \in last : Cardinality(Older(last, d)) = i - 1
           rows == Rows(days, from, to, limit)
<1>1. asked \in SUBSET (1..top) /\ last \in SUBSET asked
  BY DEF Asked, LastDays
<1>2. rows = [i \in 1..n |-> Row(i)]
  BY DEF Rows, Older
<1> HIDE DEF asked, last, rows
<1>3. /\ n \in Nat /\ (n = 0 <=> last = {})
      /\ \A i \in 1..n : Row(i) \in last
      /\ last # {} => \A d \in last : d <= Row(n)
  BY <1>1, InOrder
<1> HIDE DEF n, Row
<1>4. rows \in [1..n -> 1..top] /\ \A i \in 1..n : rows[i] \in last
  BY <1>1, <1>2, <1>3
<1>5. IsNewest(rows, 1..n, LatestRow(rows))
  BY <1>3, <1>4, LatestIsNewest
<1>6. Len(rows) = n
  BY <1>3, <1>4
<1>7. CASE asked = {}
  <2>1. last = {} /\ n = 0
    BY <1>1, <1>3, <1>7
  <2>2. 1..n = {}
    BY <2>1
  <2>3. LatestRow(rows) = NoDay
    BY <1>5, <2>2 DEF IsNewest
  <2>4. rows = <<>>
    BY <1>4, <1>6, <2>1, <2>2
  <2> QED
    BY <1>7, <2>3, <2>4 DEF AsofDate, asked, rows
<1>8. CASE asked # {}
  <2>1. PICK m \in asked : \A d \in asked : d <= m
    BY <1>1, <1>8, Newest
  <2>2. m \in last
    BY <1>1, <2>1, LimitKeepsNewest DEF last
  <2>3. asked \subseteq Int
    BY <1>1
  <2>4. Max(asked) = m
    <3>1. \A d \in asked : (\A e \in asked : d >= e) => d = m
      BY <2>1, <2>3
    <3>2. \A e \in asked : m >= e
      BY <2>1, <2>3
    <3> QED
      BY <2>1, <3>1, <3>2 DEF Max
  <2>5. n \in 1..n /\ rows[n] = m
    <3>1. last # {} /\ n \in 1..n
      BY <1>3, <2>2
    <3>2. Row(n) \in last /\ m <= Row(n) /\ Row(n) <= m
      BY <1>1, <1>3, <2>1, <2>2, <3>1
    <3>3. Row(n) = m
      <4>1. \A x, y \in Int : x <= y /\ y <= x => y = x
        OBVIOUS
      <4>2. m \in Int /\ Row(n) \in Int
        BY <1>1, <2>3, <3>2
      <4> QED
        BY <3>2, <4>1, <4>2, Zenon
    <3> QED
      BY <1>2, <3>1, <3>3
  <2>6. LatestRow(rows) = m
    <3>1. m <= LatestRow(rows) /\ LatestRow(rows) \in Nat
      BY <1>5, <2>5 DEF IsNewest
    <3>2. LatestRow(rows) = NoDay \/ \E i \in 1..n : rows[i] = LatestRow(rows)
      BY <1>5 DEF IsNewest
    <3>3. m >= 1 /\ m \in Nat
      BY <1>1
    <3>4. LatestRow(rows) <= m
      BY <1>1, <1>4, <2>1, <3>2, <3>3 DEF NoDay
    <3> QED
      BY <3>1, <3>3, <3>4
  <2>7. AsofDate(rows) = m
    <3>1. rows # <<>>
      BY <1>6, <2>5
    <3> QED
      BY <1>6, <2>5, <3>1 DEF AsofDate, Last
  <2> QED
    BY <1>8, <2>4, <2>6, <2>7 DEF asked, rows
<1> QED
  BY <1>7, <1>8 DEF asked, rows

\* What a read finds: the newest day of those it asked for.
NewestOf(days) ==
  LET asked == Asked(days, ask.from, ask.to)
  IN  IF asked = {} THEN NoDay ELSE Max(asked)

\* What has been read is the newest day of one of the two moments: of the first
\* read, since when the dates of since have come in, or of now.  A single read is
\* of the first moment.
ReadsNewest ==
  /\ stored \in SUBSET (1..MaxDay) /\ since \subseteq stored
  /\ ask = Unread => shown = Unread /\ asof = Unread
  /\ ask # Unread => ask \in Asks
  /\ shown = Unread /\ asof = Unread => since = {}
  /\ shown # Unread => shown \in {NewestOf(stored \ since), NewestOf(stored)}
  /\ asof # Unread => asof \in {NewestOf(stored \ since), NewestOf(stored)}
  /\ asof = Unread /\ shown # Unread => shown = NewestOf(stored \ since)
  /\ shown = Unread /\ asof # Unread => asof = NewestOf(stored \ since)

\* It is one of them, and none of them is later.
LEMMA NewestIsAsked ==
  ASSUME NEW days \in SUBSET (1..MaxDay)
  PROVE  LET asked == Asked(days, ask.from, ask.to) IN
         /\ NewestOf(days) \in Nat
         /\ NewestOf(days) = NoDay \/ NewestOf(days) \in asked
         /\ \A d \in asked : d <= NewestOf(days)
<1> DEFINE asked == Asked(days, ask.from, ask.to)
<1>1. asked \in SUBSET (1..MaxDay) /\ MaxDay \in Nat
  BY QuotesAssumption DEF Asked
<1> HIDE DEF asked
<1>2. CASE asked = {}
  BY <1>2 DEF NewestOf, NoDay, asked
<1>3. CASE asked # {}
  <2>1. PICK m \in asked : \A d \in asked : d <= m
    BY <1>1, <1>3, Newest
  <2>2. Max(asked) = m
    <3>1. \A d \in asked : (\A e \in asked : d >= e) => d = m
      BY <1>1, <2>1
    <3>2. \A e \in asked : m >= e
      BY <1>1, <2>1
    <3> QED
      BY <2>1, <3>1, <3>2 DEF Max
  <2> QED
    BY <1>1, <1>3, <2>1, <2>2 DEF NewestOf, asked
<1> QED
  BY <1>2, <1>3

LEMMA ReadsStayNewest == MCSpec => []ReadsNewest
<1>1. MCInit => ReadsNewest
  BY DEF MCInit, QuotesInit, ReadsNewest
<1>2. ReadsNewest /\ [MCNext]_<<today, case, quotes>> => ReadsNewest'
  <2> SUFFICES ASSUME ReadsNewest, [MCNext]_<<today, case, quotes>>
               PROVE  ReadsNewest'
    OBVIOUS
  <2>1. CASE UNCHANGED quotes
    BY <2>1 DEF ReadsNewest, NewestOf, quotes
  <2>2. CASE StoreDays
    <3>1. PICK days \in SUBSET ((1..MaxDay) \ stored) :
            /\ stored' = stored \cup days
            /\ since' = IF shown = Unread /\ asof = Unread THEN since ELSE since \cup days
      BY <2>2 DEF StoreDays
    <3>2. UNCHANGED <<ask, shown, asof>> /\ ~BothRead
      BY <2>2 DEF StoreDays
    <3>3. CASE shown = Unread /\ asof = Unread
      BY <3>1, <3>2, <3>3 DEF ReadsNewest
    <3>4. CASE shown # Unread \/ asof # Unread
      <4>1. stored' \ since' = stored \ since
        BY <3>1, <3>4 DEF ReadsNewest
      <4>2. NewestOf(stored \ since)' = NewestOf(stored \ since)
        BY <3>2, <4>1 DEF NewestOf
      <4> QED
        BY <3>1, <3>2, <3>4, <4>2 DEF ReadsNewest, BothRead
    <3> QED
      BY <3>3, <3>4
  <2>3. CASE Plan
    BY <2>3, QuotesAssumption DEF Plan, ReadsNewest, Asks
  <2>4. ASSUME ask # Unread, NEW limit \in Nat \ {0}
        PROVE  /\ LatestRow(Rows(stored, ask.from, ask.to, limit)) = NewestOf(stored)
               /\ AsofDate(Rows(stored, ask.from, ask.to, limit)) = NewestOf(stored)
    <3>1. stored \in SUBSET (1..MaxDay) /\ MaxDay \in Nat
      BY QuotesAssumption DEF ReadsNewest
    <3>2. LET asked == Asked(stored, ask.from, ask.to)
              rows == Rows(stored, ask.from, ask.to, limit)
          IN  /\ asked = {} => LatestRow(rows) = NoDay /\ AsofDate(rows) = NoDay
              /\ asked # {} => LatestRow(rows) = Max(asked) /\ AsofDate(rows) = Max(asked)
      BY <2>4, <3>1, BothSayNewest
    <3> QED
      BY <3>2 DEF NewestOf
  <2>5. CASE QueryKline
    <3>1. ask.limit \in Nat \ {0}
      BY <2>5, QuotesAssumption DEF QueryKline, ReadsNewest, Asks
    <3>2. shown' = NewestOf(stored) /\ UNCHANGED <<stored, ask, asof, since>>
      BY <2>4, <2>5, <3>1 DEF QueryKline
    <3>3. NewestOf(stored)' = NewestOf(stored) /\ NewestOf(stored \ since)' = NewestOf(stored \ since)
      BY <3>2 DEF NewestOf
    <3>4. asof = Unread => stored \ since = stored
      BY <2>5 DEF QueryKline, ReadsNewest
    <3>5. ask # Unread /\ shown = Unread
      BY <2>5 DEF QueryKline
    <3> QED
      BY <3>2, <3>3, <3>4, <3>5 DEF ReadsNewest
  <2>6. CASE TechnicalIndicators
    <3>1. asof' = NewestOf(stored) /\ UNCHANGED <<stored, ask, shown, since>>
      BY <2>4, <2>6, QuotesAssumption DEF TechnicalIndicators
    <3>2. NewestOf(stored)' = NewestOf(stored) /\ NewestOf(stored \ since)' = NewestOf(stored \ since)
      BY <3>1 DEF NewestOf
    <3>3. shown = Unread => stored \ since = stored
      BY <2>6 DEF TechnicalIndicators, ReadsNewest
    <3>4. ask # Unread /\ asof = Unread
      BY <2>6 DEF TechnicalIndicators
    <3> QED
      BY <3>1, <3>2, <3>3, <3>4 DEF ReadsNewest
  <2> QED
    BY <2>1, <2>2, <2>3, <2>5, <2>6 DEF MCNext, NextDay, ChooseCase, ReadQuotes, QuotesNext
<1> QED
  BY <1>1, <1>2, PTL DEF MCSpec

\* Whatever dates a symbol has, whatever window and limits are asked for and
\* whatever is stored between the two reads: the days differ only by what came
\* in between, and neither is behind what was there at the first read.
THEOREM ToolsAlwaysAgree == MCSpec => []ToolsAgreeOnDay
<1>1. ReadsNewest => ToolsAgreeOnDay
  <2> SUFFICES ASSUME ReadsNewest, BothRead
               PROVE  /\ shown < asof => asof \in since
                      /\ asof < shown => shown \in since
                      /\ \A d \in Asked(stored \ since, ask.from, ask.to) :
                           d <= shown /\ d <= asof
    BY DEF ToolsAgreeOnDay
  <2> DEFINE old == NewestOf(stored \ since)
             new == NewestOf(stored)
  <2>1. shown \in {old, new} /\ asof \in {old, new}
    BY DEF ReadsNewest, BothRead
  <2>2. stored \in SUBSET (1..MaxDay) /\ stored \ since \in SUBSET (1..MaxDay)
    BY DEF ReadsNewest
  <2>3. /\ old \in Nat /\ new \in Nat
        /\ old = NoDay \/ old \in Asked(stored \ since, ask.from, ask.to)
        /\ new = NoDay \/ new \in Asked(stored, ask.from, ask.to)
        /\ \A d \in Asked(stored \ since, ask.from, ask.to) : d <= old
        /\ \A d \in Asked(stored, ask.from, ask.to) : d <= new
    BY <2>2, NewestIsAsked
  <2>4. Asked(stored \ since, ask.from, ask.to) \subseteq Asked(stored, ask.from, ask.to)
    BY DEF Asked
  <2>5. \A d \in Asked(stored, ask.from, ask.to) :
          d \in since \/ d \in Asked(stored \ since, ask.from, ask.to)
    BY DEF Asked
  <2>6. Asked(stored, ask.from, ask.to) \subseteq 1..MaxDay
    BY <2>2 DEF Asked
  <2> HIDE DEF old, new
  <2>7. old <= new
    BY <2>3, <2>4 DEF NoDay
  <2>8. new \in since \/ new <= old
    BY <2>3, <2>5 DEF NoDay
  <2>9. \A x, z \in {old, new} : x < z => z \in since
    BY <2>3, <2>7, <2>8
  <2> QED
    BY <2>1, <2>3, <2>4, <2>6, <2>9, QuotesAssumption
<1> QED
  BY <1>1, ReadsStayNewest, PTL
=============================================================================
