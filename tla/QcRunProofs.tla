---------------------------- MODULE QcRunProofs -----------------------------
(***************************************************************************)
(* What a quality check reports and shows, for any number of runs, symbols *)
(* and days, any mean scores and any number of restarts.                   *)
(***************************************************************************)
EXTENDS QcRun, FiniteSetTheorems, WellFoundedInduction, TLAPS

Sizes == 0..Cardinality(Symbols)

Run == [pc : Running \cup {"idle", "done", "failed"}, date : Dates \cup {NoDate},
        count : Sizes, counts : Partial(1..Cardinality(Symbols)),
        mean : Means \cup {None}, means : Partial(Means), top : SUBSET Symbols,
        prev : Dates \cup {NoDate}, check : Checks, results : [Checks -> Statuses]]

LogRow == [run : Runs, status : Statuses]

InLog(check, status) == \E i \in DOMAIN log[check] : log[check][i].status = status

\* What the fields of a run say of the table and of the log: a count that is not
\* zero was of a day that has rows ever since, and so a mean score.
Sound(x) ==
  /\ x \in Run
  /\ x.pc \in Reading \ {"resolve"} => x.date \in Dates
  /\ x.pc = "before" => x.prev \in Dates
  /\ x.pc \in Reading \ {"resolve", "count"} /\ x.count # 0 => rows[x.date] # {}
  /\ x.pc \in {"means", "top", "previous", "before"} /\ x.mean = None => x.count = 0
  /\ x.pc \in {"log", "gauge", "done"} /\ x.results[2] = "error" => x.results[1] = "error"
  /\ x.pc = "gauge" => InLog(x.check, x.results[x.check])

TablesOK ==
  /\ rows \in [Dates -> SUBSET Symbols] /\ mean \in [Dates -> Means \cup {None}]
  /\ \A d \in Dates : rows[d] = {} <=> mean[d] = None
  /\ writes \in 0..MaxWrites

LogsOK == log \in [Checks -> Seq(LogRow)] /\ gauge \in [Checks -> Statuses \cup {None}]

IInv ==
  /\ TablesOK /\ LogsOK /\ GaugeWasLogged
  /\ run \in [Runs -> Run] /\ \A r \in Runs : Sound(run[r])

-----------------------------------------------------------------------------
(* Numbers of symbols.                                                     *)

LEMMA Size ==
  ASSUME NEW S \in SUBSET Symbols
  PROVE  /\ Cardinality(S) \in Sizes
         /\ Cardinality(S) = 0 <=> S = {}
         /\ S # {} => Cardinality(S) \in 1..Cardinality(Symbols)
<1>1. IsFiniteSet(Symbols)
  BY QcAssumption
<1>2. IsFiniteSet(S) /\ Cardinality(S) <= Cardinality(Symbols)
  BY <1>1, FS_Subset
<1>3. Cardinality(S) \in Nat /\ Cardinality(Symbols) \in Nat
  BY <1>1, <1>2, FS_CardinalityType
<1>4. Cardinality(S) = 0 <=> S = {}
  BY <1>2, FS_EmptySet
<1> QED
  BY <1>2, <1>3, <1>4 DEF Sizes

LEMMA LeastExists ==
  ASSUME NEW S, S \subseteq Nat, S # {}
  PROVE  \E m \in S : \A n \in S : m <= n
<1>1. PICK m \in S : \A n \in S : ~(<<n, m>> \in OpToRel(<, Nat))
  BY NatLessThanWellFounded, WFMin, Zenon
<1>2. \A n \in S : <<n, m>> \in Nat \X Nat
  OBVIOUS
<1>3. \A n \in S : ~(n < m)
  BY <1>1, <1>2 DEF OpToRel
<1> QED
  BY <1>3

LEMMA NewestIsDate ==
  ASSUME NEW dates \in SUBSET Dates
  PROVE  /\ Newest(dates) \in Dates \cup {NoDate}
         /\ Newest(dates) # NoDate => Newest(dates) \in Dates
         /\ Newest(dates) = NoDate <=> dates = {}
<1>0. NoDate \notin Dates
  BY DEF NoDate, Dates
<1>1. CASE dates = {}
  BY <1>1 DEF Newest
<1>2. CASE dates # {}
  <2> DEFINE before == {MaxDate - d : d \in dates}
  <2>0. \A d \in dates : d \in Nat /\ MaxDate - d \in Nat
    BY QcAssumption DEF Dates
  <2>a. PICK d0 \in dates : TRUE
    BY <1>2
  <2>b. MaxDate - d0 \in before
    BY <2>a
  <2>1. before \subseteq Nat /\ before # {}
    BY <2>0, <2>b
  <2> HIDE DEF before
  <2>2. PICK m \in before : \A n \in before : m <= n
    BY <2>1, LeastExists
  <2>3. PICK d \in dates : m = MaxDate - d
    BY <2>2 DEF before
  <2>4. \A e \in dates : MaxDate - d <= MaxDate - e
    BY <2>2, <2>3 DEF before
  <2>5. \A e \in dates : e <= d
    BY <2>4, QcAssumption DEF Dates
  <2>6. Newest(dates) \in dates
    BY <1>2, <2>5 DEF Newest
  <2> QED
    BY <1>0, <1>2, <2>6
<1> QED
  BY <1>1, <1>2

LEMMA StoredBeforeDates ==
  ASSUME NEW d
  PROVE  StoredBefore(d) \in SUBSET Dates /\ \A e \in StoredBefore(d) : rows[e] # {}
  BY DEF StoredBefore

LEMMA RowCountError ==
  ASSUME NEW count, NEW counts
  PROVE  /\ RowCountStatus(count, counts) \in Statuses
         /\ count = 0 => RowCountStatus(count, counts) = "error"
  BY DEF RowCountStatus, Statuses

LEMMA ScoreError ==
  ASSUME NEW m, NEW means
  PROVE  /\ ScoreStatus(m, means) \in Statuses
         /\ ScoreStatus(m, means) = "error" => m = None
  BY DEF ScoreStatus, Statuses

LEMMA OverlapVerdict ==
  ASSUME NEW top, NEW prevTop
  PROVE  OverlapStatus(top, prevTop) \in Statuses
  BY DEF OverlapStatus, Statuses

-----------------------------------------------------------------------------
(* A step of one run that leaves the table and the log alone.              *)

LEMMA GotoKeeps ==
  ASSUME IInv, NEW r \in Runs, NEW from, NEW x, Goto(r, from, x), Untouched, Sound(x)
  PROVE  IInv'
<1>1. /\ run' \in [Runs -> Run] /\ run'[r] = x
      /\ \A q \in Runs : q # r => run'[q] = run[q]
  BY DEF IInv, Goto, Sound
<1>2. TablesOK' /\ LogsOK' /\ GaugeWasLogged'
  BY DEF Untouched, IInv, TablesOK, LogsOK, GaugeWasLogged
<1>3. Sound(run[r])' /\ \A q \in Runs : Sound(run[q])'
  <2>1. rows' = rows /\ log' = log
    BY DEF Untouched
  <2>2. ASSUME NEW q \in Runs PROVE Sound(run[q])'
    <3>1. CASE q = r
      BY <1>1, <2>1, <3>1 DEF Sound, InLog
    <3>2. CASE q # r
      <4>1. Sound(run[q]) /\ run'[q] = run[q]
        BY <1>1, <3>2 DEF IInv
      <4> QED
        BY <2>1, <4>1 DEF Sound, InLog
    <3> QED
      BY <3>1, <3>2
  <2> QED
    BY <2>2
<1> QED
  BY <1>1, <1>2, <1>3 DEF IInv

\* A run that only stops stays sound.
LEMMA StopSound ==
  ASSUME NEW x, Sound(x), NEW pc \in {"failed", "idle"}
  PROVE  Sound([x EXCEPT !.pc = pc])
<1> DEFINE y == [x EXCEPT !.pc = pc]
<1>1. y \in Run /\ y.pc = pc
  BY DEF Sound, Run
<1> HIDE DEF y
<1>2. Sound(y)
  BY <1>1 DEF Sound, Reading
<1> QED
  BY <1>2 DEF y

LEMMA StartIInv ==
  ASSUME IInv, NEW r \in Runs, Start(r) PROVE IInv'
<1>1. run[r] \in Run /\ Untouched
  BY DEF IInv, Start
<1>2. ASSUME NEW d \in Dates, Goto(r, "idle", [run[r] EXCEPT !.pc = "count", !.date = d])
      PROVE  IInv'
  <2> DEFINE y == [run[r] EXCEPT !.pc = "count", !.date = d]
  <2>1. y \in Run /\ y.pc = "count" /\ y.date = d
    BY <1>1 DEF Run, Running, Reading
  <2> HIDE DEF y
  <2>2. Sound(y)
    BY <2>1 DEF Sound
  <2> QED
    BY <1>1, <1>2, <2>2, GotoKeeps DEF y
<1>3. ASSUME Goto(r, "idle", [run[r] EXCEPT !.pc = "resolve"]) PROVE IInv'
  <2> DEFINE y == [run[r] EXCEPT !.pc = "resolve"]
  <2>1. y \in Run /\ y.pc = "resolve"
    BY <1>1 DEF Run, Running, Reading
  <2> HIDE DEF y
  <2>2. Sound(y)
    BY <2>1 DEF Sound
  <2> QED
    BY <1>1, <1>3, <2>2, GotoKeeps DEF y
<1> QED
  BY <1>2, <1>3 DEF Start

LEMMA ResolveIInv ==
  ASSUME IInv, NEW r \in Runs, ResolveLatestTradeDate(r) PROVE IInv'
<1> DEFINE dates == {d \in Dates : rows[d] # {}}
           date == Newest(dates)
           y == [run[r] EXCEPT !.pc = "count", !.date = date]
<1>1. run[r] \in Run /\ Untouched /\ Sound(run[r])
  BY DEF IInv, ResolveLatestTradeDate
<1>2. date # NoDate => date \in Dates
  BY NewestIsDate
<1>3. Goto(r, "resolve", IF date = NoDate THEN [run[r] EXCEPT !.pc = "failed"] ELSE y)
  BY DEF ResolveLatestTradeDate
<1> HIDE DEF date
<1>4. CASE date = NoDate
  <2>1. Sound([run[r] EXCEPT !.pc = "failed"])
    BY <1>1, StopSound
  <2>2. Goto(r, "resolve", [run[r] EXCEPT !.pc = "failed"])
    BY <1>3, <1>4, Zenon
  <2> QED
    BY <1>1, <2>1, <2>2, GotoKeeps
<1>5. CASE date # NoDate
  <2>1. y \in Run /\ y.pc = "count" /\ y.date = date
    BY <1>1, <1>2, <1>5 DEF Run, Running, Reading
  <2> HIDE DEF y
  <2>2. Sound(y)
    BY <1>2, <1>5, <2>1 DEF Sound
  <2>3. Goto(r, "resolve", y)
    BY <1>3, <1>5
  <2> QED
    BY <1>1, <2>2, <2>3, GotoKeeps
<1> QED
  BY <1>4, <1>5

LEMMA CountIInv ==
  ASSUME IInv, NEW r \in Runs, FetchTodayRowCount(r) PROVE IInv'
<1> DEFINE x == run[r]
           count == Cardinality(rows[x.date])
           y == [x EXCEPT !.pc = "counts", !.count = count]
<1>1. x \in Run /\ Untouched /\ x.date \in Dates /\ Goto(r, "count", y)
  BY DEF IInv, FetchTodayRowCount, Goto, Sound, Reading
<1>2. rows[x.date] \in SUBSET Symbols
  BY <1>1 DEF IInv, TablesOK
<1>3. count \in Sizes /\ (count # 0 => rows[x.date] # {})
  BY <1>2, Size
<1> HIDE DEF count
<1>4. y \in Run /\ y.pc = "counts" /\ y.date = x.date /\ y.count = count
  BY <1>1, <1>3 DEF Run, Running, Reading
<1> HIDE DEF y
<1>5. Sound(y)
  BY <1>1, <1>3, <1>4 DEF Sound
<1> QED
  BY <1>1, <1>5, GotoKeeps

LEMMA CountsIInv ==
  ASSUME IInv, NEW r \in Runs, FetchHistoryRowCounts(r) PROVE IInv'
<1> DEFINE x == run[r]
           counts == [d \in StoredBefore(x.date) |-> Cardinality(rows[d])]
           y == [x EXCEPT !.pc = "mean", !.counts = counts]
<1>1. /\ x \in Run /\ Untouched /\ x.date \in Dates /\ Goto(r, "counts", y)
      /\ (x.count # 0 => rows[x.date] # {})
  BY DEF IInv, FetchHistoryRowCounts, Goto, Sound, Reading
<1>2. counts \in Partial(1..Cardinality(Symbols))
  <2>1. \A d \in StoredBefore(x.date) : Cardinality(rows[d]) \in 1..Cardinality(Symbols)
    BY StoredBeforeDates, Size DEF IInv, TablesOK
  <2>2. counts \in [StoredBefore(x.date) -> 1..Cardinality(Symbols)]
    BY <2>1
  <2> QED
    BY <2>2, StoredBeforeDates DEF Partial
<1> HIDE DEF counts
<1>3. y \in Run /\ y.pc = "mean" /\ y.date = x.date /\ y.count = x.count
  BY <1>1, <1>2 DEF Run, Running, Reading
<1> HIDE DEF y
<1>4. Sound(y)
  BY <1>1, <1>3 DEF Sound
<1> QED
  BY <1>1, <1>4, GotoKeeps

LEMMA MeanIInv ==
  ASSUME IInv, NEW r \in Runs, FetchTodayScoreMean(r) PROVE IInv'
<1> DEFINE x == run[r]
           m == mean[x.date]
           y == [x EXCEPT !.pc = "means", !.mean = m]
<1>1. /\ x \in Run /\ Untouched /\ x.date \in Dates /\ Goto(r, "mean", y)
      /\ (x.count # 0 => rows[x.date] # {})
  BY DEF IInv, FetchTodayScoreMean, Goto, Sound, Reading
<1>2. m \in Means \cup {None} /\ (m = None => x.count = 0)
  BY <1>1 DEF IInv, TablesOK
<1> HIDE DEF m
<1>3. y \in Run /\ y.pc = "means" /\ y.date = x.date /\ y.count = x.count /\ y.mean = m
  BY <1>1, <1>2 DEF Run, Running, Reading
<1> HIDE DEF y
<1>4. Sound(y)
  BY <1>1, <1>2, <1>3 DEF Sound
<1> QED
  BY <1>1, <1>4, GotoKeeps

LEMMA MeansIInv ==
  ASSUME IInv, NEW r \in Runs, FetchHistoryScoreMeans(r) PROVE IInv'
<1> DEFINE x == run[r]
           means == [d \in StoredBefore(x.date) |-> mean[d]]
           y == [x EXCEPT !.pc = "top", !.means = means]
<1>1. /\ x \in Run /\ Untouched /\ x.date \in Dates /\ Goto(r, "means", y)
      /\ (x.count # 0 => rows[x.date] # {}) /\ (x.mean = None => x.count = 0)
  BY DEF IInv, FetchHistoryScoreMeans, Goto, Sound, Reading
<1>2. means \in Partial(Means)
  <2>1. \A d \in StoredBefore(x.date) : mean[d] \in Means
    BY StoredBeforeDates DEF IInv, TablesOK
  <2>2. means \in [StoredBefore(x.date) -> Means]
    BY <2>1
  <2> QED
    BY <2>2, StoredBeforeDates DEF Partial
<1> HIDE DEF means
<1>3. y \in Run /\ y.pc = "top" /\ y.date = x.date /\ y.count = x.count /\ y.mean = x.mean
  BY <1>1, <1>2 DEF Run, Running, Reading
<1> HIDE DEF y
<1>4. Sound(y)
  BY <1>1, <1>3 DEF Sound
<1> QED
  BY <1>1, <1>4, GotoKeeps

LEMMA TopIInv ==
  ASSUME IInv, NEW r \in Runs, FetchTopSymbols(r) PROVE IInv'
<1> DEFINE x == run[r]
           top == rows[x.date]
           y == [x EXCEPT !.pc = "previous", !.top = top]
<1>1. /\ x \in Run /\ Untouched /\ x.date \in Dates /\ Goto(r, "top", y)
      /\ (x.count # 0 => rows[x.date] # {}) /\ (x.mean = None => x.count = 0)
  BY DEF IInv, FetchTopSymbols, Goto, Sound, Reading
<1>2. top \in SUBSET Symbols
  BY <1>1 DEF IInv, TablesOK
<1> HIDE DEF top
<1>3. y \in Run /\ y.pc = "previous" /\ y.date = x.date /\ y.count = x.count /\ y.mean = x.mean
  BY <1>1, <1>2 DEF Run, Running, Reading
<1> HIDE DEF y
<1>4. Sound(y)
  BY <1>1, <1>3 DEF Sound, top
<1> QED
  BY <1>1, <1>4, GotoKeeps

LEMMA FreshIsRun == Fresh \in Run
<1>1. <<>> \in [{} -> 1..Cardinality(Symbols)] /\ <<>> \in [{} -> Means]
  OBVIOUS
<1>2. <<>> \in Partial(1..Cardinality(Symbols)) /\ <<>> \in Partial(Means)
  BY <1>1 DEF Partial
<1>3. 0 \in Sizes
  BY Size
<1>4. [c \in Checks |-> "pass"] \in [Checks -> Statuses] /\ 1 \in Checks
  BY DEF Statuses, Checks
<1> QED
  BY <1>2, <1>3, <1>4 DEF Fresh, Run

LEMMA EvaluateIInv ==
  ASSUME IInv, NEW r \in Runs, NEW from, NEW prevTop, Evaluate(r, from, prevTop),
         from \in {"previous", "before"}, Untouched
  PROVE  IInv'
<1> DEFINE x == run[r]
           count == RowCountStatus(x.count, x.counts)
           score == ScoreStatus(x.mean, x.means)
           overlap == OverlapStatus(x.top, prevTop)
           results == <<count, score, overlap>>
           y == [Fresh EXCEPT !.pc = "log", !.date = x.date, !.results = results]
<1>1. /\ x \in Run /\ (x.mean = None => x.count = 0)
      /\ Goto(r, from, y)
  BY DEF IInv, Evaluate, Goto, Sound, Reading
<1>2. /\ count \in Statuses /\ score \in Statuses /\ overlap \in Statuses
      /\ (score = "error" => count = "error")
  BY <1>1, RowCountError, ScoreError, OverlapVerdict
<1> HIDE DEF count, score, overlap
<1>3. /\ results \in [Checks -> Statuses]
      /\ (results[2] = "error" => results[1] = "error")
  BY <1>2 DEF Checks
<1> HIDE DEF results
<1>4. Fresh \in Run
  BY FreshIsRun
<1> HIDE DEF x
<1>5. x.date \in Dates \cup {NoDate}
  BY <1>1 DEF Run
<1>6. y \in Run /\ y.pc = "log" /\ y.results = results
  BY <1>3, <1>4, <1>5 DEF Run, Running
<1> HIDE DEF y
<1>7. Sound(y)
  BY <1>3, <1>6 DEF Sound, Reading
<1> QED
  BY <1>1, <1>7, GotoKeeps

LEMMA PreviousIInv ==
  ASSUME IInv, NEW r \in Runs, FetchPreviousTradeDate(r) PROVE IInv'
<1> DEFINE x == run[r]
           prev == Newest(StoredBefore(x.date))
           y == [x EXCEPT !.pc = "before", !.prev = prev]
<1>1. /\ x \in Run /\ Untouched
      /\ IF prev = NoDate THEN Evaluate(r, "previous", {}) ELSE Goto(r, "previous", y)
  BY DEF IInv, FetchPreviousTradeDate
<1>2. prev # NoDate => prev \in Dates
  BY NewestIsDate, StoredBeforeDates
<1> HIDE DEF prev
<1>3. CASE prev = NoDate
  BY <1>1, <1>3, EvaluateIInv
<1>4. CASE prev # NoDate
  <2>1. Goto(r, "previous", y)
    BY <1>1, <1>4
  <2>2. /\ x.date \in Dates /\ (x.count # 0 => rows[x.date] # {})
        /\ (x.mean = None => x.count = 0)
    BY <2>1 DEF Goto, IInv, Sound, Reading
  <2>3. y \in Run /\ y.pc = "before" /\ y.date = x.date /\ y.count = x.count
        /\ y.mean = x.mean /\ y.prev = prev
    BY <1>1, <1>2, <1>4 DEF Run, Running, Reading
  <2> HIDE DEF y
  <2>4. Sound(y)
    BY <1>2, <1>4, <2>2, <2>3 DEF Sound
  <2> QED
    BY <1>1, <2>1, <2>4, GotoKeeps
<1> QED
  BY <1>3, <1>4

LEMMA BeforeIInv ==
  ASSUME IInv, NEW r \in Runs, FetchPreviousTopSymbols(r) PROVE IInv'
  BY EvaluateIInv DEF FetchPreviousTopSymbols

LEMMA FailsIInv ==
  ASSUME IInv, NEW r \in Runs, DbFails(r) PROVE IInv'
<1>1. Sound([run[r] EXCEPT !.pc = "failed"])
  BY StopSound DEF IInv
<1> QED
  BY <1>1, GotoKeeps DEF DbFails

-----------------------------------------------------------------------------
(* The verdicts of a run are logged and shown.                             *)

LEMMA LogGrows ==
  ASSUME IInv, NEW r \in Runs, log' = Logged(r)
  PROVE  /\ log' \in [Checks -> Seq(LogRow)]
         /\ \A c \in Checks : \A s : InLog(c, s) => InLog(c, s)'
         /\ LET c == run[r].check IN
            \E i \in DOMAIN log'[c] : log'[c][i].status = Status(r)
<1> DEFINE c == run[r].check
           row == [run |-> r, status |-> Status(r)]
<1>1. run[r] \in Run /\ c \in Checks /\ log \in [Checks -> Seq(LogRow)]
  BY DEF IInv, LogsOK, Run
<1>2. row \in LogRow /\ row.status = Status(r)
  BY <1>1 DEF LogRow, Status, Run
<1>3. log' = [log EXCEPT ![c] = Append(log[c], row)]
  BY DEF Logged
<1> HIDE DEF c, row
<1>4. log'[c] = Append(log[c], row) /\ \A d \in Checks : d # c => log'[d] = log[d]
  BY <1>1, <1>3
<1>5. /\ log[c] \in Seq(LogRow) /\ log'[c] \in Seq(LogRow)
      /\ DOMAIN log'[c] = 1..(Len(log[c]) + 1) /\ Len(log[c]) \in Nat
      /\ \A i \in DOMAIN log[c] : i \in DOMAIN log'[c] /\ log'[c][i] = log[c][i]
      /\ log'[c][Len(log[c]) + 1] = row
  BY <1>1, <1>2, <1>4
<1>6. log' \in [Checks -> Seq(LogRow)]
  BY <1>1, <1>2, <1>3
<1>7. ASSUME NEW d \in Checks, NEW s, InLog(d, s) PROVE InLog(d, s)'
  BY <1>4, <1>5, <1>7 DEF InLog
<1>8. \E i \in DOMAIN log'[c] : log'[c][i].status = Status(r)
  <2>1. Len(log[c]) + 1 \in DOMAIN log'[c]
    BY <1>5
  <2> QED
    BY <1>2, <1>5, <2>1
<1> QED
  BY <1>6, <1>7, <1>8 DEF c

\* A run that goes on is not touched by a log or a table that grows.
LEMMA SoundKept ==
  ASSUME IInv, NEW q \in Runs, run'[q] = run[q],
         \A d \in Dates : rows[d] \subseteq rows'[d],
         \A c \in Checks : \A s : InLog(c, s) => InLog(c, s)'
  PROVE  Sound(run[q])'
<1>1. Sound(run[q]) /\ run[q] \in Run
  BY DEF IInv
<1>2. run[q].check \in Checks
  BY <1>1 DEF Run
<1>3. run[q].pc = "gauge" => InLog(run[q].check, run[q].results[run[q].check])
  BY <1>1 DEF Sound
<1>4. run[q].pc = "gauge" =>
        LET c == run[q].check IN
        \E i \in DOMAIN log'[c] : log'[c][i].status = run[q].results[c]
  <2> SUFFICES ASSUME run[q].pc = "gauge"
               PROVE  LET c == run[q].check IN
                      \E i \in DOMAIN log'[c] : log'[c][i].status = run[q].results[c]
    OBVIOUS
  <2>1. PICK c \in Checks : c = run[q].check
    BY <1>2
  <2>2. PICK s : s = run[q].results[c]
    OBVIOUS
  <2>3. InLog(c, s)'
    BY <1>3, <2>1, <2>2
  <2>4. \E i \in DOMAIN log'[c] : log'[c][i].status = s
    BY <2>3 DEF InLog
  <2> QED
    BY <2>1, <2>2, <2>4
<1>5. \A d \in Dates : rows[d] # {} => rows'[d] # {}
  OBVIOUS
<1>6. InLog(run[q].check, run[q].results[run[q].check])' <=>
        LET c == run[q].check IN
        \E i \in DOMAIN log'[c] : log'[c][i].status = run[q].results[c]
  BY DEF InLog
<1>7. run[q].pc \in Reading \ {"resolve", "count"} => run[q].date \in Dates
  BY <1>1 DEF Sound
<1> QED
  BY <1>1, <1>4, <1>5, <1>6, <1>7 DEF Sound

LEMMA InsertIInv ==
  ASSUME IInv, NEW r \in Runs, InsertLog(r) \/ InsertLogUnacknowledged(r) PROVE IInv'
<1> DEFINE x == run[r]
<1>1. /\ x \in Run /\ Sound(x) /\ x.pc = "log" /\ log' = Logged(r)
      /\ UNCHANGED <<rows, mean, writes, gauge>>
  BY DEF IInv, InsertLog, InsertLogUnacknowledged, Goto
<1>2. PICK pc \in {"gauge", "failed"} : run' = [run EXCEPT ![r] = [x EXCEPT !.pc = pc]]
  BY DEF InsertLog, InsertLogUnacknowledged, Goto
<1> DEFINE y == [x EXCEPT !.pc = pc]
<1>3. y \in Run /\ y.pc = pc /\ y.check = x.check /\ y.results = x.results
  BY <1>1 DEF Run, Running
<1> HIDE DEF y
<1>4. /\ run' \in [Runs -> Run] /\ run'[r] = y
      /\ \A q \in Runs : q # r => run'[q] = run[q]
  BY <1>2, <1>3 DEF IInv, y
<1>5. /\ log' \in [Checks -> Seq(LogRow)]
      /\ \A c \in Checks : \A s : InLog(c, s) => InLog(c, s)'
      /\ \E i \in DOMAIN log'[x.check] : log'[x.check][i].status = Status(r)
  BY <1>1, LogGrows
<1>6. \A d \in Dates : rows[d] \subseteq rows'[d]
  BY <1>1
<1>7. \A q \in Runs : q # r => Sound(run[q])'
  BY <1>4, <1>5, <1>6, SoundKept
<1>8. Sound(run[r])'
  <2>1. Status(r) = y.results[y.check]
    BY <1>3 DEF Status
  <2>2. InLog(run[r].check, run[r].results[run[r].check])' <=>
          \E i \in DOMAIN log'[y.check] : log'[y.check][i].status = y.results[y.check]
    BY <1>4 DEF InLog
  <2>3. InLog(run[r].check, run[r].results[run[r].check])'
    BY <1>3, <1>5, <2>1, <2>2
  <2>4. run'[r].results[2] = "error" => run'[r].results[1] = "error"
    BY <1>1, <1>3, <1>4 DEF Sound
  <2> QED
    BY <1>3, <1>4, <2>3, <2>4 DEF Sound, Reading
<1>9. GaugeWasLogged'
  <2>1. \A c \in Checks : gauge[c] # None => InLog(c, gauge[c])
    BY DEF IInv, GaugeWasLogged, InLog
  <2>2. ASSUME NEW c \in Checks, gauge'[c] # None
        PROVE  \E i \in DOMAIN log'[c] : log'[c][i].status = gauge'[c]
    <3>1. PICK s : s = gauge[c]
      OBVIOUS
    <3>2. InLog(c, s)'
      BY <1>1, <1>5, <2>1, <2>2, <3>1
    <3> QED
      BY <1>1, <3>1, <3>2 DEF InLog
  <2> QED
    BY <2>2 DEF GaugeWasLogged
<1>10. TablesOK' /\ LogsOK'
  BY <1>1, <1>5 DEF IInv, TablesOK, LogsOK
<1> QED
  BY <1>4, <1>7, <1>8, <1>9, <1>10 DEF IInv

LEMMA GaugeIInv ==
  ASSUME IInv, NEW r \in Runs, SetGauge(r) PROVE IInv'
<1> DEFINE x == run[r]
           y == IF x.check = 3 THEN [x EXCEPT !.pc = "done"]
                ELSE [x EXCEPT !.pc = "log", !.check = x.check + 1]
<1>1. /\ x \in Run /\ Sound(x) /\ x.pc = "gauge" /\ run' = [run EXCEPT ![r] = y]
      /\ gauge' = [gauge EXCEPT ![x.check] = Status(r)]
      /\ UNCHANGED <<rows, mean, writes, log>>
  BY DEF IInv, SetGauge, Goto
<1>2. /\ x.check \in Checks /\ Status(r) \in Statuses
      /\ InLog(x.check, Status(r))
      /\ (x.results[2] = "error" => x.results[1] = "error")
  BY <1>1 DEF Sound, Status, Run
<1>3. y \in Run /\ y.pc \in {"done", "log"} /\ y.results = x.results
  <2>1. CASE x.check = 3
    BY <1>1, <2>1 DEF Run, Running
  <2>2. CASE x.check # 3
    <3>1. x.check + 1 \in Checks
      BY <1>2, <2>2 DEF Checks
    <3>2. y = [x EXCEPT !.pc = "log", !.check = x.check + 1]
      BY <2>2
    <3> HIDE DEF y
    <3> QED
      BY <1>1, <3>1, <3>2 DEF Run, Running
  <2> QED
    BY <2>1, <2>2
<1> HIDE DEF y
<1>4. /\ run' \in [Runs -> Run] /\ run'[r] = y
      /\ \A q \in Runs : q # r => run'[q] = run[q]
  BY <1>1, <1>3 DEF IInv
<1>5. Sound(run[r])'
  BY <1>1, <1>2, <1>3, <1>4 DEF Sound, Reading
<1>6. ASSUME NEW q \in Runs, q # r PROVE Sound(run[q])'
  <2>1. \A c \in Checks : \A s : InLog(c, s) => InLog(c, s)'
    BY <1>1 DEF InLog
  <2> QED
    BY <1>1, <1>4, <1>6, <2>1, SoundKept
<1>7. TablesOK' /\ LogsOK'
  BY <1>1, <1>2 DEF IInv, TablesOK, LogsOK
<1>8. GaugeWasLogged'
  <2>1. \A c \in Checks : gauge'[c] = gauge[c] \/ (c = x.check /\ gauge'[c] = Status(r))
    BY <1>1, <1>2 DEF IInv, LogsOK
  <2> QED
    BY <1>1, <1>2, <2>1 DEF IInv, GaugeWasLogged, InLog
<1> QED
  BY <1>4, <1>5, <1>6, <1>7, <1>8 DEF IInv

LEMMA StoreIInv ==
  ASSUME IInv, StoreList PROVE IInv'
<1>1. PICK d \in Dates, list \in (SUBSET Symbols) \ {{}}, m \in Means :
        /\ rows' = [rows EXCEPT ![d] = rows[d] \cup list]
        /\ mean' = [mean EXCEPT ![d] = m]
  BY DEF StoreList
<1>2. UNCHANGED <<run, log, gauge>> /\ writes < MaxWrites /\ writes' = writes + 1
  BY DEF StoreList
<1>3. TablesOK /\ m # None
  BY QcAssumption DEF IInv
<1>4. rows' \in [Dates -> SUBSET Symbols] /\ mean' \in [Dates -> Means \cup {None}]
  BY <1>1, <1>3 DEF TablesOK
<1>5. \A e \in Dates : rows'[e] = {} <=> mean'[e] = None
  <2>1. /\ rows'[d] = rows[d] \cup list /\ mean'[d] = m
        /\ \A e \in Dates : e # d => rows'[e] = rows[e] /\ mean'[e] = mean[e]
    BY <1>1, <1>3 DEF TablesOK
  <2>2. PICK s \in list : TRUE
    BY <1>1
  <2>3. s \in rows'[d]
    BY <2>1, <2>2
  <2> QED
    BY <1>3, <2>1, <2>3 DEF TablesOK
<1>6. writes' \in 0..MaxWrites
  BY <1>2, <1>3, QcAssumption DEF TablesOK
<1>7. \A e \in Dates : rows[e] \subseteq rows'[e]
  BY <1>1, <1>3 DEF TablesOK
<1>8. \A c \in Checks : \A s : InLog(c, s) => InLog(c, s)'
  BY <1>2 DEF InLog
<1>9. \A q \in Runs : Sound(run[q])'
  BY <1>2, <1>7, <1>8, SoundKept
<1> QED
  BY <1>2, <1>4, <1>5, <1>6, <1>9 DEF IInv, TablesOK, LogsOK, GaugeWasLogged

LEMMA RestartIInv ==
  ASSUME IInv, Restart PROVE IInv'
<1>1. /\ run' = [r \in Runs |-> IF run[r].pc \in Running
                                THEN [run[r] EXCEPT !.pc = "failed"] ELSE run[r]]
      /\ gauge' = [c \in Checks |-> None] /\ UNCHANGED <<rows, mean, writes, log>>
  BY DEF Restart
<1>2. ASSUME NEW r \in Runs PROVE run'[r] \in Run /\ Sound(run[r])'
  <2>1. Sound(run[r]) /\ run[r] \in Run
    BY DEF IInv
  <2>2. CASE run[r].pc \in Running
    <3> DEFINE y == [run[r] EXCEPT !.pc = "failed"]
    <3>1. run'[r] = y
      BY <1>1, <2>2
    <3>2. y \in Run /\ y.pc = "failed"
      BY <2>1 DEF Run
    <3> HIDE DEF y
    <3> QED
      BY <3>1, <3>2 DEF Sound, Reading
  <2>3. CASE run[r].pc \notin Running
    <3>1. run'[r] = run[r]
      BY <1>1, <2>3
    <3>2. \A c \in Checks : \A s : InLog(c, s) => InLog(c, s)'
      BY <1>1 DEF InLog
    <3> QED
      BY <1>1, <2>1, <3>1, <3>2, SoundKept
  <2> QED
    BY <2>2, <2>3
<1>3. run' \in [Runs -> Run]
  <2>1. run' = [r \in Runs |-> run'[r]]
    BY <1>1
  <2> QED
    BY <1>2, <2>1
<1>4. TablesOK' /\ LogsOK' /\ GaugeWasLogged'
  BY <1>1 DEF IInv, TablesOK, LogsOK, GaugeWasLogged
<1> QED
  BY <1>2, <1>3, <1>4 DEF IInv

LEMMA InitIInv == Init => IInv
<1> SUFFICES ASSUME Init PROVE IInv
  OBVIOUS
<1>1. Fresh \in Run /\ Fresh.pc = "idle"
  BY FreshIsRun DEF Fresh
<1>2. run = [r \in Runs |-> Fresh]
  BY DEF Init
<1>3. Sound(Fresh)
  BY <1>1 DEF Sound, Reading
<1>4. run \in [Runs -> Run] /\ \A r \in Runs : Sound(run[r])
  BY <1>1, <1>2, <1>3
<1>5. TablesOK /\ LogsOK /\ GaugeWasLogged
  BY QcAssumption DEF Init, TablesOK, LogsOK, GaugeWasLogged
<1> QED
  BY <1>4, <1>5 DEF IInv

\* The invariant the theorems below follow from: a day of market.reco_daily with
\* rows has a mean, a check that has counted rows will read one, and each gauge
\* shows a verdict of the log.
THEOREM Inductive == Spec => []IInv
<1>1. ASSUME IInv, UNCHANGED vars PROVE IInv'
  <2>1. UNCHANGED <<rows, mean, writes, run, log, gauge>>
    BY <1>1 DEF vars
  <2>2. \A c \in Checks : \A s : InLog(c, s) => InLog(c, s)'
    BY <2>1 DEF InLog
  <2>3. \A q \in Runs : Sound(run[q])'
    BY <1>1, <2>1, <2>2, SoundKept
  <2> QED
    BY <1>1, <2>1, <2>3 DEF IInv, TablesOK, LogsOK, GaugeWasLogged
<1>2. ASSUME IInv, NEW r \in Runs, RunStep(r) PROVE IInv'
  BY <1>2, StartIInv, ResolveIInv, CountIInv, CountsIInv, MeanIInv, MeansIInv, TopIInv,
     PreviousIInv, BeforeIInv, InsertIInv, GaugeIInv, FailsIInv DEF RunStep
<1>3. IInv /\ [Next]_vars => IInv'
  BY <1>1, <1>2, StoreIInv, RestartIInv DEF Next
<1> QED
  BY <1>3, InitIInv, PTL DEF Spec

\* The fields of the table, of the runs and of the log have the values the code can
\* give them: no history holds a day without rows or without a mean score.
THEOREM TypeCorrect == Spec => []TypeOK
<1>1. IInv => TypeOK
  BY DEF IInv, TablesOK, LogsOK, LogRow, Sound, Run, Sizes, TypeOK
<1> QED
  BY <1>1, Inductive, PTL

\* run_reco_qc never reports rows that have no mean score, whatever is stored
\* between its reads.
THEOREM RowsAlwaysHaveMean == Spec => []RowsHaveMean
<1>1. IInv => RowsHaveMean
  BY DEF IInv, Sound, RowsHaveMean, HasResults
<1> QED
  BY <1>1, Inductive, PTL

\* RECO_QC_STATUS only shows verdicts that market.reco_qc_log holds, also after a
\* restart and after a failed insert.
THEOREM GaugeAlwaysLogged == Spec => []GaugeWasLogged
<1>1. IInv => GaugeWasLogged
  BY DEF IInv
<1> QED
  BY <1>1, Inductive, PTL
=============================================================================
