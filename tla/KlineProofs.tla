---------------------------- MODULE KlineProofs ----------------------------
(***************************************************************************)
(* market.kline_daily: what a run of the ETL job reports of a symbol is    *)
(* what it has stored, for any number of runs, symbols, days and versions, *)
(* overlapping or not; what a bulk query leaves out of its answer is told  *)
(* by the answer, for every limit and whatever is stored between its two   *)
(* statements; and the job is such a writer.                               *)
(***************************************************************************)
EXTENDS StockEtl, KlineBulk, FiniteSetTheorems, WellFoundedInduction, TLAPS

\* The type of a run.
Run == [pc : Running \cup {"idle", "done", "killed"}, attempt : 0..Retries,
        todo : SUBSET Symbols, frame : [Symbols -> SUBSET Days],
        version : 0..MaxVersion, left : SUBSET Days,
        ok : SUBSET Symbols, failed : SUBSET Symbols, code : 0..1, beside : SUBSET Runs]

RunOK(x) == x \in Run /\ (x.pc \in {"em", "tx", "write"} => x.todo # {})

RunsOK == run \in [Runs -> Run] /\ \A r \in Runs : RunOK(run[r])

Row == [by : Runs \cup {Nobody}, version : 0..MaxVersion]

TableOK == table \in [Symbols -> [Days -> Row]]

VersionsOK == version \in [Symbols -> 1..MaxVersion]

LEMMA TypeParts == TypeOK <=> VersionsOK /\ TableOK /\ RunsOK
  BY DEF TypeOK, VersionsOK, TableOK, Row, RunsOK, RunOK, Run

-----------------------------------------------------------------------------
(* The symbol the loop is at, and the batch.                               *)

LEMMA LeastExists ==
  ASSUME NEW S, S \subseteq Nat, S # {}
  PROVE  \E m \in S : \A n \in S : m <= n
<1>1. PICK m \in S : \A n \in S : ~(<<n, m>> \in OpToRel(<, Nat))
  BY NatLessThanWellFounded, WFMin, Zenon
<1>2. \A n \in S : <<n, m>> \in Nat \X Nat
  OBVIOUS
<1>3. \A n \in S : ~(n < m)
  BY <1>1, <1>2 DEF OpToRel
<1> QED
  BY <1>3

LEMMA CurrentIsTodo ==
  ASSUME RunsOK, NEW r \in Runs, run[r].todo # {}
  PROVE  Current(r) \in run[r].todo /\ Current(r) \in Symbols
<1>1. run[r].todo \subseteq Symbols /\ Symbols \subseteq Nat
  BY TableAssumption DEF RunsOK, Run, Symbols
<1>2. \E s \in run[r].todo : \A t \in run[r].todo : s <= t
  BY <1>1, LeastExists
<1> QED
  BY <1>1, <1>2 DEF Current

\* A batch is a non-empty lower part of what is left.
LEMMA BatchIsLowest ==
  ASSUME RunsOK, NEW r \in Runs
  PROVE  /\ Batch(r) \subseteq run[r].left /\ Batch(r) \subseteq Days
         /\ \A d \in Batch(r) : \A e \in run[r].left : e < d => e \in Batch(r)
<1> DEFINE left == run[r].left
           Below(d) == {e \in left : e < d}
<1>1. left \subseteq Days /\ Days \subseteq Nat
  BY TableAssumption DEF RunsOK, Run, Days
<1>a. IsFiniteSet(Days)
  BY FS_Interval, TableAssumption DEF Days
<1>2. IsFiniteSet(left)
  BY <1>1, <1>a, FS_Subset
<1>3. \A d : IsFiniteSet(Below(d)) /\ Cardinality(Below(d)) \in Nat
  BY <1>2, FS_Subset, FS_CardinalityType
<1>4. ASSUME NEW d \in Batch(r), NEW e \in left, e < d
      PROVE  e \in Batch(r)
  <2>0. d \in Nat /\ e \in Nat /\ left \subseteq Nat
    BY <1>1, <1>4 DEF Batch
  <2>1. \A x \in Below(e) : x \in Below(d)
    BY <2>0, <1>4
  <2>2. Cardinality(Below(e)) <= Cardinality(Below(d))
    BY <1>3, <2>1, FS_Subset, Zenon
  <2>3. Cardinality(Below(d)) < BatchSize
    BY <1>4 DEF Batch
  <2>4. Cardinality(Below(e)) < BatchSize
    BY <2>2, <2>3, <1>3, EtlAssumption
  <2> QED
    BY <2>4, <1>4 DEF Batch
<1> QED
  BY <1>1, <1>4 DEF Batch

-----------------------------------------------------------------------------
(* What a step makes of the run that takes it.                             *)

\* Only the run r changes, and it becomes x.
Becomes(r, x) == RunOK(x) /\ run' = [run EXCEPT ![r] = x]

LEMMA BecomesType ==
  ASSUME RunsOK, NEW r \in Runs, NEW x, Becomes(r, x)
  PROVE  /\ RunsOK' /\ run'[r] = x
         /\ \A q \in Runs : q # r => run'[q] = run[q]
  BY DEF RunsOK, RunOK, Becomes

\* The books of a run: what it has done with the symbols.
SameBooks(x, y) == y.frame = x.frame /\ y.ok = x.ok /\ y.failed = x.failed

LEMMA EndedFields ==
  ASSUME NEW x \in Run, NEW pc \in {"done", "killed"}, NEW code \in 0..1
  PROVE  LET y == Ended(x, pc, code) IN
         /\ RunOK(y) /\ SameBooks(x, y)
         /\ y.pc = pc /\ y.todo = {} /\ y.beside = x.beside
<1> DEFINE y == Ended(x, pc, code)
<1>1. y = [x EXCEPT !.pc = pc, !.code = code, !.attempt = 0, !.todo = {}, !.left = {},
                    !.version = Incomparable]
  BY DEF Ended
<1>2. 0 \in 0..Retries /\ Incomparable \in 0..MaxVersion
  BY EtlAssumption DEF Incomparable
<1> HIDE DEF y
<1>3. y \in Run
  BY <1>1, <1>2 DEF Run
<1>4. SameBooks(x, y) /\ y.pc = pc /\ y.todo = {} /\ y.beside = x.beside
  BY <1>1 DEF Run, SameBooks
<1> QED
  BY <1>3, <1>4 DEF RunOK, y

LEMMA ProceedFields ==
  ASSUME NEW x \in Run, NEW todo \in SUBSET Symbols
  PROVE  LET y == Proceed(x, todo) IN
         /\ RunOK(y) /\ SameBooks(x, y)
         /\ y.todo = todo /\ y.beside = x.beside /\ y.pc \in {"em", "done"}
<1> DEFINE y == Proceed(x, todo)
<1>1. CASE todo = {}
  <2>1. y = Ended(x, "done", 0) /\ 0 \in 0..1
    BY <1>1 DEF Proceed
  <2> HIDE DEF y
  <2> QED
    BY <1>1, <2>1, EndedFields DEF y
<1>2. CASE todo # {}
  <2>1. y = [x EXCEPT !.pc = "em", !.todo = todo, !.attempt = 0, !.left = {},
                      !.version = Incomparable]
    BY <1>2 DEF Proceed
  <2>2. /\ "em" \in Running /\ 0 \in 0..Retries /\ {} \in SUBSET Days
        /\ Incomparable \in 0..MaxVersion
    BY EtlAssumption DEF Running, Calling, Incomparable
  <2> HIDE DEF y
  <2>3. y \in Run /\ y.pc = "em"
    BY <2>1, <2>2 DEF Run
  <2>4. y.todo = todo /\ SameBooks(x, y) /\ y.beside = x.beside
    BY <2>1 DEF Run, SameBooks
  <2> QED
    BY <1>2, <2>3, <2>4 DEF RunOK, y
<1> QED
  BY <1>1, <1>2

Others(r) == \A q \in Runs : q # r => run'[q] = run[q]

\* The run goes on, or stops, with the same books.
Stays(r) ==
  /\ SameBooks(run[r], run'[r]) /\ table' = table
  /\ \/ run'[r].pc \in {"done", "killed"}
     \/ run[r].pc \in {"idle", "spot", "names"} /\ run'[r].pc \in {"spot", "names"}
     \/ /\ run[r].pc \in {"em", "tx"} /\ run'[r].pc \in {"em", "tx"}
        /\ run'[r].todo = run[r].todo

\* The list of symbols has come.
Begins(r) ==
  /\ run[r].pc \in {"spot", "names"} /\ run'[r].pc \in {"em", "done"}
  /\ SameBooks(run[r], run'[r]) /\ table' = table

\* The current symbol is ended: ok and failed say how.
EndsSymbol(r, ok, failed) ==
  /\ run'[r].pc \in {"em", "done"}
  /\ run'[r].todo = run[r].todo \ {Current(r)}
  /\ run'[r].frame = run[r].frame
  /\ run'[r].ok = run[r].ok \cup ok /\ run'[r].failed = run[r].failed \cup failed

FailsSymbol(r) ==
  /\ run[r].pc \in {"em", "tx"} /\ table' = table
  /\ EndsSymbol(r, {}, {Current(r)})

FindsNothing(r) ==
  /\ run[r].pc \in {"em", "tx"} /\ table' = table
  /\ EndsSymbol(r, {Current(r)}, {})

Downloads(r) ==
  /\ run[r].pc \in {"em", "tx"} /\ run'[r].pc = "write" /\ table' = table
  /\ \E frame \in SUBSET Days :
       /\ frame # {} /\ run'[r].left = frame
       /\ run'[r].frame = [run[r].frame EXCEPT ![Current(r)] = frame]
  /\ run'[r].version \in {Incomparable, version[Current(r)]}
  /\ run'[r].todo = run[r].todo
  /\ run'[r].ok = run[r].ok /\ run'[r].failed = run[r].failed

Writes(r) == run[r].pc = "write" /\ table' = Stored(r, Current(r), Batch(r))

WritesMore(r) ==
  /\ Writes(r) /\ run'[r].pc = "write"
  /\ run[r].left \ Batch(r) # {} /\ run'[r].left = run[r].left \ Batch(r)
  /\ run'[r].todo = run[r].todo
  /\ run'[r].frame = run[r].frame /\ run'[r].version = run[r].version
  /\ run'[r].ok = run[r].ok /\ run'[r].failed = run[r].failed

WritesLast(r) ==
  /\ Writes(r) /\ run[r].left \ Batch(r) = {}
  /\ EndsSymbol(r, {Current(r)}, {})

WritesAndStops(r) ==
  Writes(r) /\ SameBooks(run[r], run'[r]) /\ run'[r].pc = "done"

Shape(r) ==
  \/ Stays(r) \/ Begins(r) \/ FailsSymbol(r) \/ FindsNothing(r) \/ Downloads(r)
  \/ WritesMore(r) \/ WritesLast(r) \/ WritesAndStops(r)

\* A run that calls again or asks the other source keeps its place.
Moved(x, pc, attempt, beside) ==
  [x EXCEPT !.pc = pc, !.attempt = attempt, !.beside = beside]

LEMMA MoveTo ==
  ASSUME RunsOK, NEW r \in Runs, NEW pc \in Running,
         NEW attempt \in 0..Retries, NEW beside \in SUBSET Runs,
         pc \in {"em", "tx", "write"} => run[r].pc \in {"em", "tx", "write"},
         run' = [run EXCEPT ![r] = Moved(run[r], pc, attempt, beside)]
  PROVE  /\ RunsOK' /\ Others(r) /\ SameBooks(run[r], run'[r])
         /\ run'[r].pc = pc /\ run'[r].beside = beside /\ run'[r].todo = run[r].todo
<1> DEFINE y == Moved(run[r], pc, attempt, beside)
<1>1. run[r] \in Run /\ RunOK(run[r])
  BY DEF RunsOK
<1>2. y \in Run /\ y.pc = pc /\ y.todo = run[r].todo /\ y.beside = beside
  BY <1>1 DEF Run, Moved
<1>3. SameBooks(run[r], y)
  BY <1>1 DEF Run, SameBooks, Moved
<1>4. Becomes(r, y)
  BY <1>1, <1>2 DEF Becomes, RunOK
<1> HIDE DEF y
<1> QED
  BY <1>2, <1>3, <1>4, BecomesType DEF Others

LEMMA EndTo ==
  ASSUME RunsOK, NEW r \in Runs, NEW pc \in {"done", "killed"}, NEW code \in 0..1,
         Become(r, Ended(run[r], pc, code))
  PROVE  /\ RunsOK' /\ Others(r) /\ SameBooks(run[r], run'[r])
         /\ run'[r].pc = pc /\ run'[r].beside = run[r].beside
<1> DEFINE y == Ended(run[r], pc, code)
<1>1. RunOK(y) /\ SameBooks(run[r], y) /\ y.pc = pc /\ y.beside = run[r].beside
  BY EndedFields DEF RunsOK
<1>2. Becomes(r, y)
  BY <1>1 DEF Becomes, Become
<1> HIDE DEF y
<1> QED
  BY <1>1, <1>2, BecomesType DEF Others

\* With the attempts counted from 0 again.
LEMMA SwitchTo ==
  ASSUME RunsOK, NEW r \in Runs, NEW pc \in {"names", "tx"},
         pc = "tx" => run[r].pc \in {"em", "tx", "write"},
         run' = [run EXCEPT ![r] = Moved(run[r], pc, 0, run[r].beside)]
  PROVE  /\ RunsOK' /\ Others(r) /\ SameBooks(run[r], run'[r])
         /\ run'[r].pc = pc /\ run'[r].beside = run[r].beside
         /\ run'[r].todo = run[r].todo
<1> DEFINE y == Moved(run[r], pc, 0, run[r].beside)
<1>1. run[r] \in Run /\ RunOK(run[r]) /\ 0 \in 0..Retries
  BY EtlAssumption DEF RunsOK
<1>2. pc \in Running
  BY DEF Running, Calling
<1>3. /\ y \in Run /\ y.pc = pc /\ y.todo = run[r].todo /\ y.beside = run[r].beside
      /\ SameBooks(run[r], y)
  BY <1>1, <1>2 DEF Run, SameBooks, Moved
<1>4. Becomes(r, y)
  BY <1>1, <1>3 DEF Becomes, RunOK
<1> HIDE DEF y
<1> QED
  BY <1>3, <1>4, BecomesType DEF Others

LEMMA MoveShape ==
  ASSUME RunsOK, NEW r \in Runs, UNCHANGED <<version, table>>,
         \/ Start(r) \/ Retry(r) \/ UniverseMalformed(r) \/ Uncaught(r) \/ Kill(r)
         \/ GiveUp(r) /\ run[r].pc # "tx"
  PROVE  RunsOK' /\ Others(r) /\ Stays(r) /\ (Start(r) \/ run'[r].beside = run[r].beside)
<1> DEFINE x == run[r]
           going == {q \in Runs : run[q].pc \in Running}
<1>1. /\ x.attempt \in 0..Retries /\ x.beside \in SUBSET Runs
      /\ 0 \in 0..Retries /\ x \in Run
  BY EtlAssumption DEF RunsOK, RunOK, Run
<1>2. Calling \subseteq Running /\ Calling = {"spot", "names", "em", "tx"}
  BY DEF Running, Calling
<1>4. CASE Start(r)
  <2>1. run' = [run EXCEPT ![r] = Moved(x, "spot", x.attempt, going)]
    BY <1>1, <1>4 DEF Start, Become, Run, Moved
  <2>2. going \in SUBSET Runs
    OBVIOUS
  <2> HIDE DEF going
  <2>3. RunsOK' /\ Others(r) /\ SameBooks(x, run'[r]) /\ run'[r].pc = "spot"
    BY <1>1, <1>2, <2>1, <2>2, MoveTo
  <2> QED
    BY <2>3, <1>4 DEF Start, Stays
<1>5. CASE Retry(r)
  <2>1. x.attempt + 1 \in 0..Retries /\ x.pc \in {"spot", "names", "em", "tx"}
    BY <1>1, <1>5, EtlAssumption DEF Retry, Calling
  <2>2. run' = [run EXCEPT ![r] = Moved(x, x.pc, x.attempt + 1, x.beside)]
    BY <1>1, <1>5 DEF Retry, Become, Run, Moved
  <2>3. /\ RunsOK' /\ Others(r) /\ SameBooks(x, run'[r]) /\ run'[r].pc = x.pc
        /\ run'[r].beside = x.beside /\ run'[r].todo = x.todo
    BY <1>1, <1>2, <2>1, <2>2, MoveTo
  <2> QED
    BY <2>1, <2>3 DEF Stays
<1>6. CASE UniverseMalformed(r) \/ Uncaught(r) \/ (GiveUp(r) /\ x.pc = "names")
  <2>1. Become(r, Ended(run[r], "done", 1)) /\ 1 \in 0..1
    BY <1>6 DEF UniverseMalformed, Uncaught, GiveUp, Exit
  <2> QED
    BY <2>1, EndTo DEF Stays
<1>7. CASE Kill(r)
  <2>1. Become(r, Ended(run[r], "killed", 0)) /\ 0 \in 0..1
    BY <1>7 DEF Kill
  <2> QED
    BY <2>1, EndTo DEF Stays
<1>8. CASE GiveUp(r) /\ x.pc = "spot"
  <2>1. run' = [run EXCEPT ![r] = Moved(x, "names", 0, x.beside)]
    BY <1>1, <1>8 DEF GiveUp, Become, Run, Moved
  <2> QED
    BY <2>1, <1>8, SwitchTo DEF Stays
<1>9. CASE GiveUp(r) /\ x.pc = "em"
  <2>1. run' = [run EXCEPT ![r] = Moved(x, "tx", 0, x.beside)]
    BY <1>1, <1>9 DEF GiveUp, Become, Run, Moved
  <2> QED
    BY <2>1, <1>9, SwitchTo DEF Stays
<1>10. GiveUp(r) /\ x.pc # "tx" => x.pc \in {"spot", "names", "em"}
  BY DEF GiveUp
<1> QED
  BY <1>4, <1>5, <1>6, <1>7, <1>8, <1>9, <1>10

\* The list arrives, or a symbol is ended: the loop proceeds from the fields x.
LEMMA ProceedFrom ==
  ASSUME RunsOK, NEW r \in Runs, NEW x \in Run, NEW todo \in SUBSET Symbols,
         Become(r, Proceed(x, todo))
  PROVE  /\ RunsOK' /\ Others(r) /\ SameBooks(x, run'[r])
         /\ run'[r].todo = todo /\ run'[r].beside = x.beside
         /\ run'[r].pc \in {"em", "done"}
<1> DEFINE y == Proceed(x, todo)
<1>1. /\ RunOK(y) /\ SameBooks(x, y)
      /\ y.todo = todo /\ y.beside = x.beside /\ y.pc \in {"em", "done"}
  BY ProceedFields
<1>2. Becomes(r, y)
  BY <1>1 DEF Becomes, Become
<1> HIDE DEF y
<1> QED
  BY <1>1, <1>2, BecomesType DEF Others

LEMMA BeginShape ==
  ASSUME RunsOK, NEW r \in Runs, UniverseArrives(r)
  PROVE  RunsOK' /\ Others(r) /\ Begins(r) /\ run'[r].beside = run[r].beside
<1>1. PICK todo \in SUBSET Symbols : Become(r, Proceed(run[r], todo))
  BY DEF UniverseArrives
<1>2. run[r] \in Run /\ run[r].pc \in {"spot", "names"} /\ table' = table
  BY DEF RunsOK, UniverseArrives
<1> QED
  BY <1>1, <1>2, ProceedFrom DEF Begins

LEMMA FailedShape ==
  ASSUME RunsOK, NEW r \in Runs, run[r].todo # {}, Become(r, Failed(r))
  PROVE  /\ RunsOK' /\ Others(r) /\ EndsSymbol(r, {}, {Current(r)})
         /\ run'[r].beside = run[r].beside
<1> DEFINE s == Current(r)
           x == [run[r] EXCEPT !.failed = @ \cup {s}]
<1>1. run[r] \in Run /\ s \in Symbols /\ run[r].todo \ {s} \in SUBSET Symbols
  BY CurrentIsTodo DEF RunsOK, Run
<1>2. /\ x \in Run /\ x.frame = run[r].frame
      /\ x.ok = run[r].ok /\ x.failed = run[r].failed \cup {s}
      /\ x.beside = run[r].beside
  BY <1>1 DEF Run
<1>3. Become(r, Proceed(x, run[r].todo \ {s}))
  BY DEF Failed
<1> HIDE DEF x
<1> QED
  BY <1>1, <1>2, <1>3, ProceedFrom DEF EndsSymbol, SameBooks

LEMMA FinishedShape ==
  ASSUME RunsOK, NEW r \in Runs, run[r].todo # {}, Become(r, Finished(r))
  PROVE  /\ RunsOK' /\ Others(r) /\ EndsSymbol(r, {Current(r)}, {})
         /\ run'[r].beside = run[r].beside
<1> DEFINE s == Current(r)
           x == [run[r] EXCEPT !.ok = @ \cup {s}]
<1>1. run[r] \in Run /\ s \in Symbols /\ run[r].todo \ {s} \in SUBSET Symbols
  BY CurrentIsTodo DEF RunsOK, Run
<1>2. /\ x \in Run /\ x.frame = run[r].frame
      /\ x.failed = run[r].failed /\ x.ok = run[r].ok \cup {s}
      /\ x.beside = run[r].beside
  BY <1>1 DEF Run
<1>3. Become(r, Proceed(x, run[r].todo \ {s}))
  BY DEF Finished
<1> HIDE DEF x
<1> QED
  BY <1>1, <1>2, <1>3, ProceedFrom DEF EndsSymbol, SameBooks

LEMMA DownloadShape ==
  ASSUME RunsOK, VersionsOK, NEW r \in Runs, run[r].pc \in {"em", "tx"}, table' = table,
         NEW frame \in SUBSET Days, frame # {},
         Become(r, [run[r] EXCEPT !.pc = "write", !.frame[Current(r)] = frame,
                      !.version = VersionOfAnswer(r), !.left = frame])
  PROVE  RunsOK' /\ Others(r) /\ Downloads(r) /\ run'[r].beside = run[r].beside
<1> DEFINE s == Current(r)
           x == run[r]
           frames == [x.frame EXCEPT ![s] = frame]
           v == VersionOfAnswer(r)
           y == [x EXCEPT !.pc = "write", !.frame = frames, !.version = v, !.left = frame]
<1>1. x \in Run /\ x.todo # {} /\ s \in Symbols
  BY CurrentIsTodo DEF RunsOK, RunOK
<1>2. v \in 0..MaxVersion /\ v \in {Incomparable, version[s]}
  BY <1>1, EtlAssumption DEF VersionsOK, VersionOfAnswer, Incomparable
<1>3. frames \in [Symbols -> SUBSET Days]
  BY <1>1 DEF Run
<1>4. run' = [run EXCEPT ![r] = y]
  BY <1>1 DEF Become, Run
<1> HIDE DEF frames, v
<1>5. /\ y \in Run /\ y.pc = "write" /\ y.frame = frames /\ y.version = v
      /\ y.left = frame /\ y.todo = x.todo /\ y.ok = x.ok /\ y.failed = x.failed
      /\ y.beside = x.beside
  BY <1>1, <1>2, <1>3 DEF Run, Running
<1> HIDE DEF y
<1>6. Becomes(r, y)
  BY <1>1, <1>4, <1>5 DEF Becomes, RunOK
<1>7. RunsOK' /\ Others(r) /\ run'[r] = y
  BY <1>6, BecomesType DEF Others
<1>8. /\ frame # {} /\ run'[r].left = frame
      /\ run'[r].frame = [run[r].frame EXCEPT ![Current(r)] = frame]
  BY <1>5, <1>7 DEF frames
<1> QED
  BY <1>2, <1>5, <1>7, <1>8 DEF Downloads

LEMMA FrameShape ==
  ASSUME RunsOK, VersionsOK, NEW r \in Runs, FrameArrives(r)
  PROVE  /\ RunsOK' /\ Others(r) /\ (Downloads(r) \/ FindsNothing(r))
         /\ run'[r].beside = run[r].beside
<1>1. run[r].pc \in {"em", "tx"} /\ table' = table /\ run[r].todo # {}
  BY DEF FrameArrives, RunsOK, RunOK
<1>2. PICK frame \in SUBSET Days :
        IF frame = {} THEN Become(r, Finished(r))
        ELSE Become(r, [run[r] EXCEPT !.pc = "write", !.frame[Current(r)] = frame,
                          !.version = VersionOfAnswer(r), !.left = frame])
  BY DEF FrameArrives
<1>3. CASE frame = {}
  BY <1>1, <1>2, <1>3, FinishedShape DEF FindsNothing
<1>4. CASE frame # {}
  BY <1>1, <1>2, <1>4, DownloadShape
<1> QED
  BY <1>3, <1>4

LEMMA WriteShape ==
  ASSUME RunsOK, NEW r \in Runs, WriteBatch(r)
  PROVE  /\ RunsOK' /\ Others(r) /\ (WritesMore(r) \/ WritesLast(r))
         /\ run'[r].beside = run[r].beside
<1> DEFINE left == run[r].left \ Batch(r)
           x == run[r]
           y == [run[r] EXCEPT !.left = left]
<1>1. /\ Writes(r) /\ x.todo # {} /\ x \in Run
      /\ Become(r, IF left = {} THEN Finished(r) ELSE y)
  BY DEF WriteBatch, Writes, RunsOK, RunOK
<1>2. CASE left = {}
  BY <1>1, <1>2, FinishedShape DEF WritesLast
<1>3. CASE left # {}
  <2>1. left \in SUBSET Days
    BY <1>1 DEF Run
  <2> HIDE DEF left
  <2>2. /\ y \in Run /\ y.pc = x.pc /\ y.left = left
        /\ y.todo = x.todo /\ y.frame = x.frame /\ y.version = x.version
        /\ y.ok = x.ok /\ y.failed = x.failed /\ y.beside = x.beside
    BY <1>1, <2>1 DEF Run
  <2>3. run' = [run EXCEPT ![r] = y]
    BY <1>1, <1>3 DEF Become
  <2> HIDE DEF y
  <2>4. Becomes(r, y)
    BY <1>1, <2>2, <2>3 DEF Becomes, RunOK
  <2>5. RunsOK' /\ Others(r) /\ run'[r] = y
    BY <2>4, BecomesType DEF Others
  <2> QED
    BY <1>1, <1>3, <2>2, <2>5 DEF WritesMore, Writes, left
<1> QED
  BY <1>2, <1>3

LEMMA StopShape ==
  ASSUME RunsOK, NEW r \in Runs, WriteUnacknowledged(r)
  PROVE  RunsOK' /\ Others(r) /\ WritesAndStops(r) /\ run'[r].beside = run[r].beside
<1>1. Writes(r) /\ Become(r, Ended(run[r], "done", 1)) /\ 1 \in 0..1
  BY DEF WriteUnacknowledged, Writes, Exit
<1> QED
  BY <1>1, EndTo DEF WritesAndStops

\* Every step of a run has one of the shapes.
LEMMA StepShape ==
  ASSUME RunsOK, VersionsOK, NEW r \in Runs, RunStep(r)
  PROVE  /\ RunsOK' /\ Others(r) /\ Shape(r) /\ version' = version
         /\ (Start(r) \/ run'[r].beside = run[r].beside)
<1>1. CASE \/ Start(r) \/ Retry(r) \/ UniverseMalformed(r) \/ Uncaught(r) \/ Kill(r)
           \/ GiveUp(r) /\ run[r].pc # "tx"
  <2>1. UNCHANGED <<version, table>>
    BY <1>1 DEF Start, Retry, UniverseMalformed, Uncaught, Kill, GiveUp
  <2> QED
    BY <1>1, <2>1, MoveShape DEF Shape
<1>2. CASE UniverseArrives(r)
  BY <1>2, BeginShape DEF Shape, UniverseArrives
<1>3. CASE FrameMalformed(r) \/ (GiveUp(r) /\ run[r].pc = "tx")
  <2>1. /\ run[r].pc \in {"em", "tx"} /\ Become(r, Failed(r)) /\ run[r].todo # {}
        /\ table' = table /\ version' = version
    BY <1>3 DEF FrameMalformed, GiveUp, RunsOK, RunOK
  <2> QED
    BY <2>1, FailedShape DEF FailsSymbol, Shape
<1>4. CASE FrameArrives(r)
  BY <1>4, FrameShape DEF Shape, FrameArrives
<1>5. CASE WriteBatch(r)
  BY <1>5, WriteShape DEF Shape, WriteBatch
<1>6. CASE WriteUnacknowledged(r)
  BY <1>6, StopShape DEF Shape, WriteUnacknowledged
<1>7. \/ Start(r) \/ Retry(r) \/ UniverseMalformed(r) \/ Uncaught(r) \/ Kill(r)
      \/ GiveUp(r) /\ run[r].pc # "tx"
      \/ UniverseArrives(r)
      \/ FrameMalformed(r) \/ (GiveUp(r) /\ run[r].pc = "tx")
      \/ FrameArrives(r) \/ WriteBatch(r) \/ WriteUnacknowledged(r)
  BY DEF RunStep
<1> QED
  BY <1>1, <1>2, <1>3, <1>4, <1>5, <1>6, <1>7, Zenon

-----------------------------------------------------------------------------
(* The books of a run against the table.                                   *)

Least(S) == CHOOSE s \in S : \A t \in S : s <= t

LEMMA CurrentIsLeast ==
  ASSUME NEW r \in Runs
  PROVE  Current(r) = Least(run[r].todo) /\ Current(r)' = Least(run'[r].todo)
  BY DEF Current, Least

\* Nothing of s has been downloaded or stored by r.
Untouched(r, s) == run[r].frame[s] = {} /\ \A d \in Days : table[s][d].by # r

\* Before the loop the books are empty.
Fresh(r) ==
  run[r].pc \in {"idle", "spot", "names"} =>
    run[r].ok = {} /\ run[r].failed = {} /\ \A s \in Symbols : Untouched(r, s)

\* The symbols the loop has not ended are in no list, and the ones after the
\* current one are untouched.
Ahead(r) ==
  run[r].pc \in {"em", "tx", "write"} =>
    \A s \in run[r].todo :
      /\ s \notin run[r].ok /\ s \notin run[r].failed
      /\ (run[r].pc # "write" \/ s # Least(run[r].todo)) => Untouched(r, s)

\* While a symbol is written, the rows of its download that are not left are stored.
Writing(r) ==
  run[r].pc = "write" =>
    LET s == Least(run[r].todo) IN
    /\ run[r].left \subseteq run[r].frame[s]
    /\ \A d \in run[r].frame[s] \ run[r].left : table[s][d] # NoRow

FailedUntouchedBy(r) == \A s \in run[r].failed, d \in Days : table[s][d].by # r
StoredBy(r) == \A s \in run[r].ok : \A d \in run[r].frame[s] : table[s][d] # NoRow
NoHoleBy(r) ==
  \A s \in Symbols, d \in Days :
    table[s][d].by = r => \A e \in run[r].frame[s] : e < d => table[s][e] # NoRow

BooksOK(r) ==
  Fresh(r) /\ Ahead(r) /\ Writing(r) /\ FailedUntouchedBy(r) /\ StoredBy(r) /\ NoHoleBy(r)

\* A step writes rows of the current symbol, in its batch, and erases none.
Wrote(r, s, d) ==
  /\ run[r].pc = "write" /\ s = Least(run[r].todo) /\ d \in Batch(r)
  /\ table'[s][d] = [by |-> r, version |-> run[r].version]

LEMMA TableStep ==
  ASSUME RunsOK, TableOK, NEW r \in Runs, Shape(r)
  PROVE  /\ TableOK'
         /\ \A s \in Symbols, d \in Days : table'[s][d] = table[s][d] \/ Wrote(r, s, d)
         /\ Writes(r) => \A d \in Batch(r) : Wrote(r, Least(run[r].todo), d)
<1>1. CASE table' = table /\ ~Writes(r)
  BY <1>1 DEF TableOK
<1>2. CASE Writes(r)
  <2> DEFINE c == Current(r)
  <2>1. run[r] \in Run /\ run[r].todo # {} /\ run[r].pc = "write" /\ c \in Symbols
    BY <1>2, CurrentIsTodo DEF Writes, RunsOK, RunOK
  <2>2. c = Least(run[r].todo) /\ Batch(r) \subseteq Days
    BY CurrentIsLeast, BatchIsLowest
  <2>3. run[r].version \in 0..MaxVersion
    BY <2>1 DEF Run
  <2> DEFINE new == [by |-> r, version |-> run[r].version]
             column == [d \in Days |-> IF d \in Batch(r) THEN new ELSE table[c][d]]
  <2>4. new \in Row
    BY <2>3 DEF Row
  <2>5. table' = [table EXCEPT ![c] = column]
    BY <1>2 DEF Writes, Stored
  <2> HIDE DEF c, new
  <2>6. column \in [Days -> Row]
    BY <2>1, <2>4 DEF TableOK
  <2>7. \A d \in Days : column[d] = IF d \in Batch(r) THEN new ELSE table[c][d]
    OBVIOUS
  <2> HIDE DEF column
  <2>8. TableOK'
    BY <2>5, <2>6 DEF TableOK
  <2>9. /\ table'[c] = column
        /\ \A s \in Symbols : s # c => table'[s] = table[s]
    BY <2>1, <2>5 DEF TableOK
  <2>10. \A d \in Batch(r) : Wrote(r, c, d)
    BY <2>1, <2>2, <2>7, <2>9 DEF Wrote, new
  <2> QED
    BY <2>2, <2>7, <2>8, <2>9, <2>10
<1>3. table' = table \/ Writes(r)
  BY DEF Shape, Stays, Begins, FailsSymbol, FindsNothing, Downloads, WritesMore, WritesLast,
         WritesAndStops
<1> QED
  BY <1>1, <1>2, <1>3

\* No row is erased, and the rows of the others that are there were there.
LEMMA RowsKept ==
  ASSUME RunsOK, TableOK, NEW r \in Runs, Shape(r)
  PROVE  /\ \A s \in Symbols, d \in Days : table[s][d] # NoRow => table'[s][d] # NoRow
         /\ \A s \in Symbols, d \in Days : table'[s][d].by # r =>
              table'[s][d] = table[s][d]
         /\ \A s \in Symbols, d \in Days :
              table'[s][d].by = r => table[s][d].by = r \/ Wrote(r, s, d)
         /\ \A s \in Symbols, d \in Days : Wrote(r, s, d) => table'[s][d] # NoRow
<1>1. \A s \in Symbols, d \in Days :
        Wrote(r, s, d) => table'[s][d].by = r /\ table'[s][d] # NoRow
  BY EtlAssumption DEF Wrote, NoRow
<1> QED
  BY <1>1, TableStep

\* Only the current symbol is written.
LEMMA RestUntouched ==
  ASSUME RunsOK, TableOK, NEW r \in Runs, Shape(r), NEW s \in Symbols,
         s # Least(run[r].todo), Untouched(r, s), run'[r].frame[s] = run[r].frame[s]
  PROVE  Untouched(r, s)'
<1>1. \A d \in Days : ~Wrote(r, s, d)
  BY DEF Wrote
<1>2. \A d \in Days : table'[s][d] = table[s][d]
  BY <1>1, TableStep
<1> QED
  BY <1>2 DEF Untouched

LEMMA OthersKeep ==
  ASSUME RunsOK, TableOK, NEW r \in Runs, Shape(r),
         NEW q \in Runs, q # r, run'[q] = run[q], BooksOK(q)
  PROVE  BooksOK(q)'
<1>1. run[q] \in Run
  BY DEF RunsOK
<1>2. \A s \in Symbols, d \in Days : table'[s][d].by = q => table[s][d].by = q
  BY RowsKept
<1>3. \A s \in Symbols, d \in Days : table[s][d] # NoRow => table'[s][d] # NoRow
  BY RowsKept
<1>4. \A s \in Symbols : Untouched(q, s) => Untouched(q, s)'
  BY <1>2 DEF Untouched
<1>5. run[q].todo \subseteq Symbols /\ run[q].ok \subseteq Symbols
      /\ run[q].failed \subseteq Symbols /\ \A s \in Symbols : run[q].frame[s] \subseteq Days
  BY <1>1 DEF Run
<1>6. Fresh(q)'
  BY <1>4 DEF BooksOK, Fresh
<1>7. Ahead(q)'
  BY <1>4, <1>5 DEF BooksOK, Ahead
<1>8. Writing(q)'
  <2>1. SUFFICES ASSUME run[q].pc = "write" PROVE Writing(q)'
    BY DEF Writing
  <2>2. Least(run[q].todo) \in Symbols
    BY <2>1, CurrentIsLeast, CurrentIsTodo DEF RunsOK, RunOK
  <2> QED
    BY <1>3, <1>5, <2>1, <2>2 DEF BooksOK, Writing
<1>9. FailedUntouchedBy(q)'
  BY <1>2, <1>5 DEF BooksOK, FailedUntouchedBy
<1>10. StoredBy(q)'
  BY <1>3, <1>5 DEF BooksOK, StoredBy
<1>11. NoHoleBy(q)'
  BY <1>2, <1>3, <1>5 DEF BooksOK, NoHoleBy
<1> QED
  BY <1>6, <1>7, <1>8, <1>9, <1>10, <1>11 DEF BooksOK

\* The run's own step, when it leaves the table alone.
LEMMA StaysKeeps ==
  ASSUME RunsOK, NEW r \in Runs, BooksOK(r), Stays(r)
  PROVE  BooksOK(r)'
<1>1. /\ run'[r].frame = run[r].frame /\ run'[r].ok = run[r].ok
      /\ run'[r].failed = run[r].failed /\ table' = table
  BY DEF Stays, SameBooks
<1>2. \A s \in Symbols : Untouched(r, s)' <=> Untouched(r, s)
  BY <1>1 DEF Untouched
<1>3. run[r].todo \subseteq Symbols
  BY DEF RunsOK, Run
<1>4. Fresh(r)'
  BY <1>1, <1>2 DEF Stays, BooksOK, Fresh
<1>5. Ahead(r)'
  BY <1>1, <1>2, <1>3 DEF Stays, BooksOK, Ahead
<1>6. Writing(r)'
  BY DEF Stays, Writing
<1> QED
  BY <1>1, <1>4, <1>5, <1>6 DEF BooksOK, FailedUntouchedBy, StoredBy, NoHoleBy

LEMMA BeginsKeeps ==
  ASSUME RunsOK, NEW r \in Runs, BooksOK(r), Begins(r), RunsOK'
  PROVE  BooksOK(r)'
<1>1. \A s \in Symbols : Untouched(r, s) /\ Untouched(r, s)'
  BY DEF Begins, SameBooks, BooksOK, Fresh, Untouched
<1>2. run'[r].ok = {} /\ run'[r].failed = {} /\ run'[r].pc \in {"em", "done"}
  BY DEF Begins, SameBooks, BooksOK, Fresh
<1>3. run'[r].todo \subseteq Symbols
  BY DEF RunsOK, Run
<1> QED
  BY <1>1, <1>2, <1>3
     DEF BooksOK, Fresh, Ahead, Writing, FailedUntouchedBy, StoredBy, NoHoleBy, Untouched

\* The current symbol is in no list yet.
LEMMA CurrentAhead ==
  ASSUME RunsOK, NEW r \in Runs, BooksOK(r), run[r].pc \in {"em", "tx", "write"}
  PROVE  LET c == Least(run[r].todo) IN
         /\ c \in run[r].todo /\ c \in Symbols /\ c = Current(r)
         /\ c \notin run[r].ok /\ c \notin run[r].failed
         /\ run[r].pc # "write" => Untouched(r, c)
<1>1. Current(r) \in run[r].todo /\ Current(r) \in Symbols
  BY CurrentIsTodo DEF RunsOK, RunOK
<1> QED
  BY <1>1, CurrentIsLeast DEF BooksOK, Ahead

\* The loop goes on after a symbol: what is common to the ways it can end.
LEMMA EndsKeeps ==
  ASSUME RunsOK, TableOK, NEW r \in Runs, BooksOK(r), Shape(r),
         NEW ok, NEW failed, EndsSymbol(r, ok, failed),
         run[r].pc \in {"em", "tx", "write"},
         ok \cup failed = {Current(r)}
  PROVE  Fresh(r)' /\ Ahead(r)' /\ Writing(r)'
<1> DEFINE c == Least(run[r].todo)
<1>1. c \in run[r].todo /\ c = Current(r)
  BY CurrentAhead
<1>2. /\ run'[r].pc \in {"em", "done"} /\ run'[r].todo = run[r].todo \ {c}
      /\ run'[r].frame = run[r].frame
      /\ run'[r].ok \subseteq run[r].ok \cup {c}
      /\ run'[r].failed \subseteq run[r].failed \cup {c}
  BY <1>1 DEF EndsSymbol
<1>3. run[r].todo \subseteq Symbols
  BY DEF RunsOK, Run
<1>4. \A s \in run[r].todo \ {c} :
        s \notin run[r].ok /\ s \notin run[r].failed /\ Untouched(r, s)
  BY DEF BooksOK, Ahead
<1>5. \A s \in run[r].todo \ {c} : Untouched(r, s)'
  BY <1>2, <1>3, <1>4, RestUntouched
<1> HIDE DEF c
<1> QED
  BY <1>2, <1>4, <1>5 DEF Fresh, Ahead, Writing

LEMMA FailsKeeps ==
  ASSUME RunsOK, TableOK, NEW r \in Runs, BooksOK(r), FailsSymbol(r)
  PROVE  BooksOK(r)'
<1> DEFINE c == Least(run[r].todo)
<1>1. c \in Symbols /\ c = Current(r) /\ Untouched(r, c)
  BY CurrentAhead DEF FailsSymbol
<1> HIDE DEF c
<1>2. /\ table' = table /\ run'[r].frame = run[r].frame
      /\ run'[r].ok = run[r].ok /\ run'[r].failed = run[r].failed \cup {c}
  BY <1>1 DEF FailsSymbol, EndsSymbol
<1>3. Fresh(r)' /\ Ahead(r)' /\ Writing(r)'
  BY EndsKeeps DEF FailsSymbol, Shape
<1>4. FailedUntouchedBy(r)'
  BY <1>1, <1>2 DEF BooksOK, FailedUntouchedBy, Untouched
<1> QED
  BY <1>2, <1>3, <1>4 DEF BooksOK, StoredBy, NoHoleBy

LEMMA FindsNothingKeeps ==
  ASSUME RunsOK, TableOK, NEW r \in Runs, BooksOK(r), FindsNothing(r)
  PROVE  BooksOK(r)'
<1> DEFINE c == Least(run[r].todo)
<1>1. c \in Symbols /\ c = Current(r) /\ Untouched(r, c)
  BY CurrentAhead DEF FindsNothing
<1> HIDE DEF c
<1>2. /\ table' = table /\ run'[r].frame = run[r].frame
      /\ run'[r].ok = run[r].ok \cup {c} /\ run'[r].failed = run[r].failed
  BY <1>1 DEF FindsNothing, EndsSymbol
<1>3. Fresh(r)' /\ Ahead(r)' /\ Writing(r)'
  BY EndsKeeps DEF FindsNothing, Shape
<1>4. StoredBy(r)'
  BY <1>1, <1>2 DEF BooksOK, StoredBy, Untouched
<1> QED
  BY <1>2, <1>3, <1>4 DEF BooksOK, FailedUntouchedBy, NoHoleBy

LEMMA DownloadsKeeps ==
  ASSUME RunsOK, TableOK, NEW r \in Runs, BooksOK(r), Downloads(r)
  PROVE  BooksOK(r)'
<1> DEFINE c == Least(run[r].todo)
<1>1. /\ c \in Symbols /\ c = Current(r) /\ Untouched(r, c)
      /\ c \notin run[r].ok /\ c \notin run[r].failed
  BY CurrentAhead DEF Downloads
<1>2. /\ table' = table /\ run'[r].todo = run[r].todo /\ run'[r].pc = "write"
      /\ run'[r].ok = run[r].ok /\ run'[r].failed = run[r].failed
      /\ run[r].pc \in {"em", "tx"}
  BY DEF Downloads
<1>3. PICK frame \in SUBSET Days :
        run'[r].left = frame /\ run'[r].frame = [run[r].frame EXCEPT ![c] = frame]
  BY <1>1 DEF Downloads
<1>4. run[r].todo \subseteq Symbols /\ run[r].ok \subseteq Symbols
      /\ run[r].frame \in [Symbols -> SUBSET Days]
  BY DEF RunsOK, Run
<1>5. \A s \in Symbols :
        run'[r].frame[s] = IF s = c THEN frame ELSE run[r].frame[s]
  BY <1>3, <1>4
<1>6. \A s \in Symbols : s # c /\ Untouched(r, s) => Untouched(r, s)'
  BY <1>2, <1>5 DEF Untouched
<1>7. Fresh(r)'
  BY <1>2 DEF Fresh
<1>8. Ahead(r)'
  BY <1>2, <1>4, <1>6 DEF BooksOK, Ahead
<1>9. Writing(r)'
  BY <1>1, <1>2, <1>3, <1>5 DEF Writing
<1>10. FailedUntouchedBy(r)'
  BY <1>2 DEF BooksOK, FailedUntouchedBy
<1>11. StoredBy(r)'
  BY <1>1, <1>2, <1>4, <1>5 DEF BooksOK, StoredBy
<1>12. NoHoleBy(r)'
  BY <1>1, <1>2, <1>5 DEF BooksOK, NoHoleBy, Untouched
<1> QED
  BY <1>7, <1>8, <1>9, <1>10, <1>11, <1>12 DEF BooksOK

\* A batch is written: no hole opens and no failed symbol is touched.
LEMMA WritesKeeps ==
  ASSUME RunsOK, TableOK, NEW r \in Runs, BooksOK(r), Shape(r), Writes(r)
  PROVE  LET c == Least(run[r].todo) IN
         /\ \A s \in run[r].failed, d \in Days : table'[s][d].by # r
         /\ \A s \in run[r].ok : \A d \in run[r].frame[s] : table'[s][d] # NoRow
         /\ \A s \in Symbols, d \in Days :
              table'[s][d].by = r =>
                \A e \in run[r].frame[s] : e < d => table'[s][e] # NoRow
         /\ \A d \in run[r].frame[c] \ (run[r].left \ Batch(r)) : table'[c][d] # NoRow
<1> DEFINE c == Least(run[r].todo)
<1>1. run[r].pc = "write"
  BY DEF Writes
<1>2. c \in Symbols /\ c \notin run[r].failed
  BY <1>1, CurrentAhead
<1>3. /\ run[r].failed \subseteq Symbols /\ run[r].ok \subseteq Symbols
      /\ \A s \in Symbols : run[r].frame[s] \subseteq Days
  BY DEF RunsOK, Run
<1>4. \A d \in Batch(r) : Wrote(r, c, d)
  BY TableStep
<1>5. /\ Batch(r) \subseteq Days
      /\ \A d \in Batch(r) : \A e \in run[r].left : e < d => e \in Batch(r)
  BY BatchIsLowest
<1>6. \A d \in run[r].frame[c] \ run[r].left : table[c][d] # NoRow
  BY <1>1 DEF BooksOK, Writing
<1>7. \A s \in Symbols, d \in Days : Wrote(r, s, d) => s = c /\ d \in Batch(r)
  BY DEF Wrote
<1> HIDE DEF c
<1>8. \A d \in run[r].frame[c] \ (run[r].left \ Batch(r)) : table'[c][d] # NoRow
  BY <1>2, <1>3, <1>4, <1>6, RowsKept
<1>9. \A s \in run[r].failed, d \in Days : table'[s][d].by # r
  BY <1>2, <1>3, <1>7, RowsKept DEF BooksOK, FailedUntouchedBy
<1>10. \A s \in run[r].ok : \A d \in run[r].frame[s] : table'[s][d] # NoRow
  BY <1>3, RowsKept DEF BooksOK, StoredBy
<1>11. ASSUME NEW s \in Symbols, NEW d \in Days, table'[s][d].by = r,
              NEW e \in run[r].frame[s], e < d
       PROVE  table'[s][e] # NoRow
  <2>1. CASE table[s][d].by = r
    BY <1>3, <1>11, <2>1, RowsKept DEF BooksOK, NoHoleBy
  <2>2. CASE Wrote(r, s, d)
    <3>1. s = c /\ d \in Batch(r)
      BY <1>7, <2>2
    <3>2. e \notin run[r].left \ Batch(r)
      BY <1>5, <1>11, <3>1
    <3> QED
      BY <1>8, <1>11, <3>1, <3>2
  <2> QED
    BY <1>11, <2>1, <2>2, RowsKept
<1> QED
  BY <1>8, <1>9, <1>10, <1>11 DEF c

LEMMA WritesMoreKeeps ==
  ASSUME RunsOK, TableOK, NEW r \in Runs, BooksOK(r), WritesMore(r)
  PROVE  BooksOK(r)'
<1> DEFINE c == Least(run[r].todo)
<1>1. /\ run'[r].pc = "write" /\ run'[r].left = run[r].left \ Batch(r)
      /\ run'[r].todo = run[r].todo /\ run'[r].frame = run[r].frame
      /\ run'[r].ok = run[r].ok /\ run'[r].failed = run[r].failed
      /\ run[r].pc = "write" /\ Shape(r) /\ Writes(r)
  BY DEF WritesMore, Shape, Writes
<1>2. /\ \A s \in run[r].failed, d \in Days : table'[s][d].by # r
      /\ \A s \in run[r].ok : \A d \in run[r].frame[s] : table'[s][d] # NoRow
      /\ \A s \in Symbols, d \in Days :
           table'[s][d].by = r =>
             \A e \in run[r].frame[s] : e < d => table'[s][e] # NoRow
      /\ \A d \in run[r].frame[c] \ (run[r].left \ Batch(r)) : table'[c][d] # NoRow
  BY <1>1, WritesKeeps
<1>3. run[r].todo \subseteq Symbols
  BY DEF RunsOK, Run
<1>4. \A s \in run[r].todo : s # c => Untouched(r, s)'
  <2>1. \A s \in run[r].todo : s # c => Untouched(r, s)
    BY <1>1 DEF BooksOK, Ahead
  <2> QED
    BY <1>1, <1>3, <2>1, RestUntouched
<1>5. Ahead(r)'
  BY <1>1, <1>4 DEF BooksOK, Ahead
<1>6. Writing(r)'
  BY <1>1, <1>2 DEF BooksOK, Writing
<1> QED
  BY <1>1, <1>2, <1>5, <1>6
     DEF BooksOK, Fresh, FailedUntouchedBy, StoredBy, NoHoleBy

LEMMA WritesLastKeeps ==
  ASSUME RunsOK, TableOK, NEW r \in Runs, BooksOK(r), WritesLast(r)
  PROVE  BooksOK(r)'
<1> DEFINE c == Least(run[r].todo)
<1>1. Shape(r) /\ Writes(r) /\ run[r].pc = "write" /\ c = Current(r)
  BY CurrentIsLeast DEF WritesLast, Shape, Writes
<1>2. /\ run[r].left \ Batch(r) = {} /\ EndsSymbol(r, {Current(r)}, {})
      /\ run'[r].frame = run[r].frame
      /\ run'[r].ok = run[r].ok \cup {c} /\ run'[r].failed = run[r].failed
  BY <1>1 DEF WritesLast, EndsSymbol
<1>3. /\ \A s \in run[r].failed, d \in Days : table'[s][d].by # r
      /\ \A s \in run[r].ok : \A d \in run[r].frame[s] : table'[s][d] # NoRow
      /\ \A s \in Symbols, d \in Days :
           table'[s][d].by = r =>
             \A e \in run[r].frame[s] : e < d => table'[s][e] # NoRow
      /\ \A d \in run[r].frame[c] \ (run[r].left \ Batch(r)) : table'[c][d] # NoRow
  BY <1>1, WritesKeeps
<1>4. Fresh(r)' /\ Ahead(r)' /\ Writing(r)'
  BY <1>1, <1>2, EndsKeeps
<1> HIDE DEF c
<1> QED
  BY <1>2, <1>3, <1>4 DEF BooksOK, FailedUntouchedBy, StoredBy, NoHoleBy

LEMMA StopsKeeps ==
  ASSUME RunsOK, TableOK, NEW r \in Runs, BooksOK(r), WritesAndStops(r)
  PROVE  BooksOK(r)'
<1>1. /\ Shape(r) /\ Writes(r) /\ run'[r].pc = "done" /\ run'[r].frame = run[r].frame
      /\ run'[r].ok = run[r].ok /\ run'[r].failed = run[r].failed
  BY DEF WritesAndStops, Shape, SameBooks
<1>2. /\ \A s \in run[r].failed, d \in Days : table'[s][d].by # r
      /\ \A s \in run[r].ok : \A d \in run[r].frame[s] : table'[s][d] # NoRow
      /\ \A s \in Symbols, d \in Days :
           table'[s][d].by = r =>
             \A e \in run[r].frame[s] : e < d => table'[s][e] # NoRow
  BY <1>1, WritesKeeps
<1> QED
  BY <1>1, <1>2 DEF BooksOK, Fresh, Ahead, Writing, FailedUntouchedBy, StoredBy, NoHoleBy

LEMMA OwnKeeps ==
  ASSUME RunsOK, TableOK, RunsOK', NEW r \in Runs, BooksOK(r), Shape(r)
  PROVE  BooksOK(r)'
  BY StaysKeeps, BeginsKeeps, FailsKeeps, FindsNothingKeeps, DownloadsKeeps,
     WritesMoreKeeps, WritesLastKeeps, StopsKeeps DEF Shape

-----------------------------------------------------------------------------
(* Versions: what a run writes against what the runs before it have left.  *)

VersionsBelow ==
  /\ \A r \in Runs :
       run[r].pc = "write" => run[r].version <= version[Least(run[r].todo)]
  /\ \A s \in Symbols, d \in Days : table[s][d].version <= version[s]

\* Two runs that are going on at once have overlapped.
OverlapOK ==
  /\ \A r \in Runs : run[r].pc = "idle" => run[r].beside = {}
  /\ \A q, r \in Runs :
       q # r /\ run[q].pc \in Running /\ run[r].pc \in Running => Overlapped(q, r)

\* What a run writes of the main source is not older than any row that is there,
\* but for the rows of a run that it has overlapped.
WritesNewest(r) ==
  run[r].pc = "write" /\ run[r].version # Incomparable =>
    LET s == Least(run[r].todo) IN
    \A d \in Days : \/ table[s][d].version <= run[r].version
                   \/ \E q \in Runs : table[s][d].by = q /\ Overlapped(r, q)

\* A run that writes after a step has downloaded in it, or has written in it.
LEMMA StillWriting ==
  ASSUME RunsOK, NEW r \in Runs, Shape(r), run'[r].pc = "write"
  PROVE  /\ Downloads(r) \/ WritesMore(r)
         /\ run'[r].todo = run[r].todo
         /\ Least(run[r].todo) = Current(r) /\ Current(r) \in Symbols
<1>1. Downloads(r) \/ WritesMore(r)
  BY DEF Shape, Stays, Begins, FailsSymbol, FindsNothing, EndsSymbol, WritesLast,
         WritesAndStops
<1>2. run'[r].todo = run[r].todo /\ run[r].pc \in {"em", "tx", "write"}
  BY <1>1 DEF Downloads, WritesMore, Writes
<1> QED
  BY <1>1, <1>2, CurrentIsTodo, CurrentIsLeast DEF RunsOK, RunOK

LEMMA VersionsStep ==
  ASSUME RunsOK, TableOK, VersionsOK, VersionsBelow, NEW r \in Runs,
         RunsOK', Others(r), Shape(r), version' = version
  PROVE  VersionsBelow'
<1>1. \A s \in Symbols, d \in Days : table'[s][d].version <= version[s]
  <2>1. \A s \in Symbols, d \in Days :
          Wrote(r, s, d) => table'[s][d].version <= version[s]
    BY DEF Wrote, VersionsBelow
  <2> QED
    BY <2>1, TableStep DEF VersionsBelow
<1>2. ASSUME run'[r].pc = "write"
      PROVE  run'[r].version <= version[Least(run'[r].todo)]
  <2> DEFINE c == Least(run[r].todo)
  <2>1. c = Current(r) /\ c \in Symbols /\ run'[r].todo = run[r].todo
    BY <1>2, StillWriting
  <2> HIDE DEF c
  <2>2. CASE Downloads(r)
    <3>1. run'[r].version \in {Incomparable, version[c]}
      BY <2>1, <2>2 DEF Downloads
    <3>2. version[c] \in 1..MaxVersion
      BY <2>1 DEF VersionsOK
    <3>3. run'[r].version <= version[c]
      BY <3>1, <3>2, EtlAssumption DEF Incomparable
    <3> QED
      BY <2>1, <3>3 DEF c
  <2>3. CASE WritesMore(r)
    BY <2>1, <2>3 DEF WritesMore, Writes, VersionsBelow, c
  <2> QED
    BY <1>2, <2>2, <2>3, StillWriting
<1> QED
  BY <1>1, <1>2 DEF Others, VersionsBelow

\* A run that takes a step was running, unless it starts.
LEMMA WasRunning ==
  ASSUME NEW r \in Runs, RunStep(r), ~Start(r)
  PROVE  run[r].pc \in Running
  BY DEF RunStep, Retry, GiveUp, UniverseArrives, UniverseMalformed, FrameArrives,
         FrameMalformed, WriteBatch, WriteUnacknowledged, Uncaught, Kill, Running, Calling

LEMMA OverlapStep ==
  ASSUME RunsOK, NEW r \in Runs, RunStep(r), RunsOK', Others(r), Shape(r), OverlapOK,
         Start(r) \/ run'[r].beside = run[r].beside
  PROVE  /\ OverlapOK'
         /\ \A p, q \in Runs : Overlapped(p, q) => Overlapped(p, q)'
<1>1. run'[r].pc # "idle"
  BY DEF Shape, Stays, Begins, FailsSymbol, FindsNothing, EndsSymbol, Downloads, WritesMore,
         WritesLast, WritesAndStops
<1>2. run[r].beside \subseteq run'[r].beside
  <2>1. Start(r) => run[r].beside = {}
    BY DEF Start, OverlapOK
  <2> QED
    BY <2>1
<1>3. \A p \in Runs : run[p].beside \subseteq run'[p].beside
  BY <1>2 DEF Others
<1>4. \A p, q \in Runs : Overlapped(p, q) => Overlapped(p, q)'
  BY <1>3 DEF Overlapped
<1>5. ASSUME NEW p \in Runs, NEW q \in Runs, p # q,
             run'[p].pc \in Running, run'[q].pc \in Running
      PROVE  Overlapped(p, q)'
  <2>1. CASE ~Start(r)
    <3>1. run[p].pc \in Running /\ run[q].pc \in Running
      BY <1>5, <2>1, WasRunning DEF Others
    <3> QED
      BY <1>4, <1>5, <3>1 DEF OverlapOK
  <2>2. CASE Start(r)
    <3> DEFINE going == {o \in Runs : run[o].pc \in Running}
    <3>1. run' = [run EXCEPT ![r] = [run[r] EXCEPT !.pc = "spot", !.beside = going]]
      BY <2>2 DEF Start, Become
    <3>a. \A o \in Runs : run[o].pc \in Running => o \in going
      OBVIOUS
    <3> HIDE DEF going
    <3>b. run'[r].beside = going
      BY <3>1 DEF RunsOK, Run
    <3>2. \A o \in Runs : o # r /\ run'[o].pc \in Running => o \in run'[r].beside
      BY <3>a, <3>b DEF Others
    <3>3. CASE p = r \/ q = r
      BY <1>5, <3>2, <3>3 DEF Overlapped
    <3>4. CASE p # r /\ q # r
      BY <1>4, <1>5, <3>4 DEF Others, OverlapOK
    <3> QED
      BY <3>3, <3>4
  <2> QED
    BY <2>1, <2>2
<1>6. \A p \in Runs : run'[p].pc = "idle" => run'[p].beside = {}
  BY <1>1 DEF Others, OverlapOK
<1> QED
  BY <1>4, <1>5, <1>6 DEF OverlapOK

LEMMA NewestStep ==
  ASSUME RunsOK, TableOK, VersionsOK, VersionsBelow, NEW r \in Runs, Others(r), Shape(r),
         OverlapOK, \A p, q \in Runs : Overlapped(p, q) => Overlapped(p, q)',
         NEW q \in Runs, WritesNewest(q)
  PROVE  WritesNewest(q)'
<1> DEFINE s == Least(run'[q].todo)
<1>1. SUFFICES ASSUME run'[q].pc = "write", run'[q].version # Incomparable, NEW d \in Days
               PROVE  \/ table'[s][d].version <= run'[q].version
                      \/ \E p \in Runs : table'[s][d].by = p /\ Overlapped(q, p)'
  BY DEF WritesNewest
<1>2. CASE q # r
  <2>1. run'[q] = run[q] /\ s = Least(run[q].todo)
    BY <1>2 DEF Others
  <2>2. s \in Symbols
    BY <1>1, <2>1, CurrentIsTodo, CurrentIsLeast DEF RunsOK, RunOK
  <2> HIDE DEF s
  <2>3. CASE table'[s][d] = table[s][d]
    BY <1>1, <2>1, <2>3 DEF WritesNewest, s
  <2>4. CASE Wrote(r, s, d)
    <3>1. run[r].pc \in Running /\ run[q].pc \in Running /\ table'[s][d].by = r
      BY <1>1, <2>1, <2>4 DEF Wrote, Running
    <3> QED
      BY <1>2, <3>1 DEF OverlapOK
  <2> QED
    BY <2>2, <2>3, <2>4, TableStep
<1>3. CASE q = r
  <2>1. /\ Downloads(r) \/ WritesMore(r)
        /\ s = Least(run[r].todo) /\ s = Current(r) /\ s \in Symbols
    BY <1>1, <1>3, StillWriting
  <2> HIDE DEF s
  <2>2. CASE Downloads(r)
    <3>1. run'[r].version = version[s] /\ table' = table
      BY <1>1, <1>3, <2>1, <2>2 DEF Downloads
    <3> QED
      BY <1>3, <2>1, <3>1 DEF VersionsBelow
  <2>3. CASE WritesMore(r)
    <3>1. run'[r].version = run[r].version /\ run[r].pc = "write"
      BY <2>3 DEF WritesMore, Writes
    <3>2. CASE table'[s][d] = table[s][d]
      BY <1>1, <1>3, <2>1, <3>1, <3>2 DEF WritesNewest
    <3>3. CASE Wrote(r, s, d)
      <4>1. table'[s][d].version = run[r].version /\ run[r].version <= run[r].version
        BY <3>3 DEF Wrote, RunsOK, Run
      <4> QED
        BY <1>3, <3>1, <4>1
    <3> QED
      BY <2>1, <3>2, <3>3, TableStep
  <2> QED
    BY <2>1, <2>2, <2>3
<1> QED
  BY <1>2, <1>3

-----------------------------------------------------------------------------
(* The inductive invariant.                                                *)

IInv ==
  /\ TypeOK
  /\ \A r \in Runs : BooksOK(r)
  /\ VersionsBelow /\ OverlapOK
  /\ \A r \in Runs : WritesNewest(r)

LEMMA InitIInv == Init => IInv
<1> SUFFICES ASSUME Init PROVE IInv
  OBVIOUS
<1> DEFINE x == [pc |-> "idle", attempt |-> 0, todo |-> {},
                 frame |-> [s \in Symbols |-> {}],
                 version |-> Incomparable, left |-> {},
                 ok |-> {}, failed |-> {}, code |-> 0, beside |-> {}]
<1>1. /\ x \in Run /\ x.pc = "idle" /\ x.ok = {} /\ x.failed = {} /\ x.beside = {}
      /\ \A s \in Symbols : x.frame[s] = {}
  BY EtlAssumption DEF Run, Incomparable
<1>2. run = [r \in Runs |-> x]
  BY DEF Init
<1> HIDE DEF x
<1>3. \A r \in Runs : run[r] = x
  BY <1>2
<1>4. RunsOK
  BY <1>1, <1>2 DEF RunsOK, RunOK
<1>5. NoRow \in Row /\ NoRow.by = Nobody /\ NoRow.version = 0
  BY EtlAssumption DEF NoRow, Row, Incomparable
<1>6. \A s \in Symbols, d \in Days : table[s][d] = NoRow
  BY DEF Init
<1>7. TableOK
  BY <1>5 DEF Init, TableOK
<1>8. VersionsOK /\ \A s \in Symbols : version[s] = 1
  BY EtlAssumption DEF Init, VersionsOK
<1>9. \A r \in Runs, s \in Symbols : Untouched(r, s)
  BY <1>1, <1>3, <1>5, <1>6, EtlAssumption DEF Untouched
<1>10. ASSUME NEW r \in Runs PROVE BooksOK(r)
  <2>1. Fresh(r)
    BY <1>1, <1>3, <1>9 DEF Fresh
  <2>2. Ahead(r) /\ Writing(r)
    BY <1>1, <1>3 DEF Ahead, Writing
  <2>3. FailedUntouchedBy(r) /\ StoredBy(r)
    BY <1>1, <1>3 DEF FailedUntouchedBy, StoredBy
  <2>4. NoHoleBy(r)
    BY <1>1, <1>3 DEF NoHoleBy
  <2> QED
    BY <2>1, <2>2, <2>3, <2>4 DEF BooksOK
<1>11. VersionsBelow
  BY <1>1, <1>3, <1>5, <1>6, <1>8 DEF VersionsBelow
<1>12. OverlapOK /\ \A r \in Runs : WritesNewest(r)
  BY <1>1, <1>3 DEF OverlapOK, WritesNewest, Running, Calling
<1> QED
  BY <1>4, <1>7, <1>8, <1>10, <1>11, <1>12, TypeParts DEF IInv

LEMMA RebaseIInv ==
  ASSUME IInv, NEW s \in Symbols, Rebase(s)
  PROVE  IInv'
<1>1. VersionsOK /\ TableOK /\ RunsOK /\ run' = run /\ table' = table
  BY TypeParts DEF IInv, Rebase
<1>2. /\ version' = [version EXCEPT ![s] = version[s] + 1] /\ version[s] < MaxVersion
      /\ version[s] \in 1..MaxVersion
  BY <1>1 DEF Rebase, VersionsOK
<1>3. version[s] + 1 \in 1..MaxVersion
  BY <1>2, EtlAssumption
<1>4. VersionsOK'
  BY <1>1, <1>2, <1>3 DEF VersionsOK
<1>5. \A t \in Symbols : version[t] \in Int /\ version[t] <= version'[t] /\ version'[t] \in Int
  BY <1>1, <1>2, EtlAssumption DEF VersionsOK
<1>a. \A r \in Runs : run[r].pc = "write" => Least(run[r].todo) \in Symbols
  BY <1>1, CurrentIsTodo, CurrentIsLeast DEF RunsOK, RunOK
<1>6. /\ \A r \in Runs : run[r].version \in Int
      /\ \A t \in Symbols, d \in Days : table[t][d].version \in Int
  BY <1>1, EtlAssumption DEF RunsOK, Run, TableOK, Row
<1>7. VersionsBelow'
  <2>1. ASSUME NEW r \in Runs, run[r].pc = "write"
        PROVE  run[r].version <= version'[Least(run[r].todo)]
    <3> DEFINE t == Least(run[r].todo)
    <3>1. run[r].version <= version[t]
      BY <2>1 DEF IInv, VersionsBelow
    <3>a. t \in Symbols /\ run[r].version \in Int
      BY <1>6, <1>a, <2>1
    <3> HIDE DEF t
    <3>2. run[r].version <= version'[t]
      BY <1>5, <3>1, <3>a
    <3> QED
      BY <3>2 DEF t
  <2>2. ASSUME NEW t \in Symbols, NEW d \in Days
        PROVE  table[t][d].version <= version'[t]
    BY <1>5, <1>6 DEF IInv, VersionsBelow
  <2> QED
    BY <1>1, <2>1, <2>2 DEF VersionsBelow
<1>8. \A r \in Runs : BooksOK(r)'
  BY <1>1 DEF IInv, BooksOK, Fresh, Ahead, Writing, FailedUntouchedBy, StoredBy, NoHoleBy,
              Untouched
<1>9. OverlapOK' /\ \A r \in Runs : WritesNewest(r)'
  BY <1>1 DEF IInv, OverlapOK, Overlapped, WritesNewest
<1>10. TableOK' /\ RunsOK'
  BY <1>1 DEF TableOK, RunsOK
<1>11. TypeOK'
  BY <1>4, <1>10 DEF TypeOK, VersionsOK, TableOK, Row, RunsOK, RunOK, Run
<1> QED
  BY <1>7, <1>8, <1>9, <1>11 DEF IInv

LEMMA RunIInv ==
  ASSUME IInv, NEW r \in Runs, RunStep(r)
  PROVE  IInv'
<1>1. VersionsOK /\ TableOK /\ RunsOK
  BY TypeParts DEF IInv
<1>2. /\ RunsOK' /\ Others(r) /\ Shape(r) /\ version' = version
      /\ (Start(r) \/ run'[r].beside = run[r].beside)
  BY <1>1, StepShape
<1>3. TableOK' /\ VersionsOK'
  BY <1>1, <1>2, TableStep DEF VersionsOK
<1>4. TypeOK'
  BY <1>2, <1>3 DEF TypeOK, VersionsOK, TableOK, Row, RunsOK, RunOK, Run
<1>5. ASSUME NEW q \in Runs PROVE BooksOK(q)'
  <2>1. BooksOK(q) /\ BooksOK(r)
    BY DEF IInv
  <2>2. CASE q = r
    BY <1>1, <1>2, <2>1, <2>2, OwnKeeps
  <2>3. CASE q # r
    BY <1>1, <1>2, <2>1, <2>3, OthersKeep DEF Others
  <2> QED
    BY <2>2, <2>3
<1>6. VersionsBelow'
  BY <1>1, <1>2, VersionsStep DEF IInv
<1>7. OverlapOK' /\ \A p, q \in Runs : Overlapped(p, q) => Overlapped(p, q)'
  BY <1>1, <1>2, OverlapStep DEF IInv
<1>8. \A q \in Runs : WritesNewest(q)'
  BY <1>1, <1>2, <1>7, NewestStep DEF IInv
<1> QED
  BY <1>4, <1>5, <1>6, <1>7, <1>8 DEF IInv

LEMMA StutterIInv ==
  ASSUME IInv, UNCHANGED vars
  PROVE  IInv'
<1>1. run' = run /\ table' = table /\ version' = version
  BY DEF vars
<1>2. TypeOK'
  BY <1>1 DEF IInv, TypeOK
<1>3. \A r \in Runs : BooksOK(r)'
  BY <1>1 DEF IInv, BooksOK, Fresh, Ahead, Writing, FailedUntouchedBy, StoredBy, NoHoleBy,
              Untouched, Batch
<1>4. VersionsBelow' /\ OverlapOK' /\ \A r \in Runs : WritesNewest(r)'
  BY <1>1 DEF IInv, VersionsBelow, OverlapOK, Overlapped, WritesNewest
<1> QED
  BY <1>2, <1>3, <1>4 DEF IInv

\* The invariant the theorems below follow from: what a run of run_ingest has stored
\* of a symbol is the front of its download, and its counts follow from that.
THEOREM Inductive == Spec => []IInv
<1>1. IInv /\ [Next]_vars => IInv'
  BY RebaseIInv, RunIInv, StutterIInv DEF Next
<1> QED
  BY <1>1, InitIInv, PTL DEF Spec

\* The fields of a run and of the table have the values the job can give them, and
\* in the loop there is always a current symbol.
THEOREM TypeCorrect == Spec => []TypeOK
<1>1. IInv => TypeOK
  BY DEF IInv
<1> QED
  BY <1>1, Inductive, PTL

\* A symbol that a run of run_ingest counts in stocks_failed has no row by this
\* run, whatever other runs store meanwhile.
THEOREM FailedStaysUntouched == Spec => []FailedUntouched
<1>1. IInv => FailedUntouched
  BY DEF IInv, BooksOK, FailedUntouchedBy, FailedUntouched
<1> QED
  BY <1>1, Inductive, PTL

\* A symbol that a run counts in stocks_success is stored completely: its
\* batches cover the download.
THEOREM SuccessStaysStored == Spec => []SuccessIsStored
<1>1. IInv => SuccessIsStored
  BY DEF IInv, BooksOK, StoredBy, SuccessIsStored
<1> QED
  BY <1>1, Inductive, PTL

\* No crash, lost acknowledgement or unexpected exception leaves a hole behind the
\* rows a run has stored of a download.
THEOREM NoHoleEver == Spec => []NoHole
<1>1. IInv => NoHole
  BY DEF IInv, BooksOK, NoHoleBy, NoHole
<1> QED
  BY <1>1, Inductive, PTL

\* Of two downloads from the main source by runs that have not overlapped, the one
\* with the older history never takes the place of the other one in a row.
THEOREM RowsOnlyForward == Spec => RowsForward
<1> DEFINE Forward(s, d) ==
      \/ table'[s][d].version >= table[s][d].version
      \/ table'[s][d].by \in Runs /\ table'[s][d].version = Incomparable
      \/ \E q, r \in Runs : /\ table'[s][d].by = q /\ table[s][d].by = r
                           /\ Overlapped(q, r)
<1>1. ASSUME IInv, [Next]_vars, NEW s \in Symbols, NEW d \in Days
      PROVE  Forward(s, d)
  <2>1. VersionsOK /\ TableOK /\ RunsOK
    BY <1>1, TypeParts DEF IInv
  <2>2. table[s][d].version \in Int
    BY <2>1, EtlAssumption DEF TableOK, Row
  <2>3. CASE table'[s][d] = table[s][d]
    BY <2>2, <2>3
  <2>4. ASSUME NEW r \in Runs, RunStep(r), Wrote(r, s, d) PROVE Forward(s, d)
    <3>1. /\ table'[s][d].version = run[r].version /\ table'[s][d].by = r
          /\ run[r].pc = "write" /\ s = Least(run[r].todo) /\ run[r].version \in Int
      BY <2>1, <2>4, EtlAssumption DEF Wrote, RunsOK, Run
    <3>2. CASE run[r].version = Incomparable
      BY <3>1, <3>2
    <3>3. CASE run[r].version # Incomparable
      <4>1. \/ table[s][d].version <= run[r].version
            \/ \E q \in Runs : table[s][d].by = q /\ Overlapped(r, q)
        BY <1>1, <3>1, <3>3 DEF IInv, WritesNewest
      <4> QED
        BY <2>2, <3>1, <4>1
    <3> QED
      BY <3>2, <3>3
  <2>5. \/ table'[s][d] = table[s][d]
        \/ \E r \in Runs : RunStep(r) /\ Wrote(r, s, d)
    <3>1. CASE \E t \in Symbols : Rebase(t)
      BY <3>1 DEF Rebase
    <3>2. CASE \E r \in Runs : RunStep(r)
      BY <2>1, <3>2, StepShape, TableStep
    <3>3. CASE UNCHANGED vars
      BY <3>3 DEF vars
    <3> QED
      BY <1>1, <3>1, <3>2, <3>3 DEF Next
  <2> QED
    BY <2>3, <2>4, <2>5
<1>2. IInv /\ [Next]_vars => [\A s \in Symbols, d \in Days : Forward(s, d)]_vars
  BY <1>1
<1> QED
  BY <1>2, Inductive, PTL DEF Spec, RowsForward

-----------------------------------------------------------------------------
(* The bulk query: counting in the order of its ORDER BY.                  *)

LEMMA RowKeysFinite == IsFiniteSet(RowKeys)
<1>1. IsFiniteSet(Symbols) /\ IsFiniteSet(Days)
  BY FS_Interval, TableAssumption DEF Symbols, Days
<1> QED
  BY <1>1, FS_Product DEF RowKeys

LEMMA KeysFinite ==
  ASSUME NEW G \in SUBSET RowKeys
  PROVE  IsFiniteSet(G) /\ Cardinality(G) \in Nat
  BY RowKeysFinite, FS_Subset, FS_CardinalityType

\* The ORDER BY is a strict linear order on the keys of the table.
LEMMA OrderIsLinear ==
  ASSUME NEW p \in RowKeys, NEW q \in RowKeys, NEW r \in RowKeys
  PROVE  /\ ~Before(p, p)
         /\ Before(p, q) /\ Before(q, r) => Before(p, r)
         /\ p # q => Before(p, q) \/ Before(q, p)
<1>1. /\ p[1] \in Int /\ p[2] \in Int /\ q[1] \in Int /\ q[2] \in Int
      /\ r[1] \in Int /\ r[2] \in Int
  BY TableAssumption DEF RowKeys, Symbols, Days
<1>2. p = <<p[1], p[2]>> /\ q = <<q[1], q[2]>>
  BY DEF RowKeys
<1> QED
  BY <1>1, <1>2 DEF Before

\* The place of a row among the rows of a set: how many come before it.
Place(G, r) == Cardinality({q \in G : Before(q, r)})

LEMMA PlaceType ==
  ASSUME NEW G \in SUBSET RowKeys, NEW r
  PROVE  Place(G, r) \in Nat
  BY KeysFinite DEF Place

\* A row that comes before another has an earlier place.
LEMMA PlacesFollowOrder ==
  ASSUME NEW G \in SUBSET RowKeys, NEW p \in G, NEW r \in RowKeys, Before(p, r)
  PROVE  Place(G, p) < Place(G, r)
<1> DEFINE A == {q \in G : Before(q, p)}
           B == {q \in G : Before(q, r)}
<1>1. A \in SUBSET B /\ p \in B /\ p \notin A
  BY OrderIsLinear
<1>2. IsFiniteSet(B) /\ Cardinality(B) \in Nat /\ Cardinality(A) \in Nat
  BY KeysFinite
<1>3. Cardinality(A) <= Cardinality(B) /\ Cardinality(A) # Cardinality(B)
  BY <1>1, <1>2, FS_Subset
<1> QED
  BY <1>2, <1>3 DEF Place

\* A LIMIT gives as many rows as it says, or all of them.
LEMMA LimitCounts ==
  ASSUME NEW G \in SUBSET RowKeys, NEW n \in Nat
  PROVE  /\ Limit(G, n) \in SUBSET G
         /\ n <= Cardinality(G) => Cardinality(Limit(G, n)) = n
         /\ Cardinality(Limit(G, n)) <= n
<1> DEFINE N == Cardinality(G)
           place == [r \in G |-> Place(G, r)]
           L == Limit(G, n)
<1>1. L \in SUBSET G /\ \A r \in G : r \in L <=> Place(G, r) < n
  BY DEF Limit, Place
<1>2. N \in Nat /\ IsFiniteSet(G) /\ IsFiniteSet(L) /\ Cardinality(L) \in Nat
  BY <1>1, KeysFinite
<1>3. \A r \in G : Place(G, r) \in 0..(N - 1)
  <2> SUFFICES ASSUME NEW r \in G PROVE Place(G, r) \in 0..(N - 1)
    OBVIOUS
  <2> DEFINE B == {q \in G : Before(q, r)}
  <2>1. B \in SUBSET G /\ r \notin B
    BY OrderIsLinear
  <2>2. Cardinality(B) \in Nat /\ Cardinality(B) <= N /\ Cardinality(B) # N
    BY <1>2, <2>1, KeysFinite, FS_Subset
  <2> QED
    BY <1>2, <2>2 DEF Place
<1>4. ASSUME NEW p \in G, NEW r \in G, Place(G, p) = Place(G, r) PROVE p = r
  <2>1. ~Before(p, r) /\ ~Before(r, p)
    BY <1>4, PlacesFollowOrder, PlaceType
  <2> QED
    BY <2>1, OrderIsLinear
<1>5. place \in Injection(G, 0..(N - 1))
  BY <1>3, <1>4 DEF Injection, IsInjective
<1>6. IsFiniteSet(0..(N - 1)) /\ Cardinality(0..(N - 1)) = N
  <2>1. 0 \in Int /\ N - 1 \in Int /\ (0 > N - 1 => N = 0) /\ N - 1 - 0 + 1 = N
    BY <1>2
  <2> HIDE DEF N
  <2> QED
    BY <2>1, FS_Interval
<1>7. place \in Surjection(G, 0..(N - 1))
  BY <1>5, <1>6, FS_Injection
<1>8. ASSUME n <= N PROVE Cardinality(L) = n
  <2> DEFINE cut == [r \in L |-> Place(G, r)]
  <2>1. cut \in [L -> 0..(n - 1)]
    BY <1>1, PlaceType
  <2>2. ASSUME NEW k \in 0..(n - 1) PROVE \E r \in L : cut[r] = k
    <3>1. k \in 0..(N - 1)
      BY <1>2, <1>8, <2>2
    <3>2. PICK r \in G : place[r] = k
      BY <1>7, <3>1 DEF Surjection
    <3> QED
      BY <1>1, <2>2, <3>2
  <2>3. cut \in Injection(L, 0..(n - 1))
    BY <1>1, <1>4, <2>1 DEF Injection, IsInjective
  <2>4. cut \in Surjection(L, 0..(n - 1))
    BY <2>1, <2>2 DEF Surjection
  <2>5. IsFiniteSet(0..(n - 1)) /\ Cardinality(0..(n - 1)) = n
    BY FS_Interval
  <2> QED
    BY <2>3, <2>4, <2>5, FS_Injection
<1>9. ASSUME ~(n <= N) PROVE Cardinality(L) <= n
  BY <1>1, <1>2, <1>9, FS_Subset
<1> QED
  BY <1>1, <1>2, <1>8, <1>9
\* What comes before a row of the LIMIT is in it as well.
LEMMA LimitIsPrefix ==
  ASSUME NEW G \in SUBSET RowKeys, NEW n \in Nat, NEW r \in Limit(G, n),
         NEW m \in G, Before(m, r)
  PROVE  m \in Limit(G, n)
<1>1. r \in G /\ Place(G, r) < n
  BY DEF Limit, Place
<1>2. Place(G, m) < n
  BY <1>1, PlacesFollowOrder, PlaceType
<1> QED
  BY <1>2 DEF Limit, Place

\* The rows kept of a symbol are the LIMIT of that symbol's rows.
LEMMA GroupIsLimit ==
  ASSUME NEW F \in SUBSET RowKeys, NEW s
  PROVE  {k \in Grouped(F) : k[1] = s} = Limit({q \in F : q[1] = s}, query.limit)
<1> DEFINE G == {q \in F : q[1] = s}
<1>1. ASSUME NEW r \in G
      PROVE  {q \in F : q[1] = r[1] /\ Before(q, r)} = {q \in G : Before(q, r)}
  OBVIOUS
<1> QED
  BY <1>1 DEF Grouped, Limit

-----------------------------------------------------------------------------
(* The answer, as FetchRows puts it together from what matches now.        *)

Answered(M, C, n, kept) ==
  /\ \A r \in kept, m \in C \ kept : m[1] = r[1] => m[2] < r[2]
  /\ \A r \in kept, m \in C \ kept : m[1] < r[1] =>
       Cardinality({k \in kept : k[1] = m[1]}) = query.limit
  /\ Cardinality(kept) <= n

LEMMA FetchAnswers ==
  ASSUME NEW M \in SUBSET RowKeys, NEW C \in SUBSET M, NEW n \in Nat,
         query.limit \in Nat
  PROVE  Answered(M, C, n, Grouped(Limit(M, n)))
<1> DEFINE F == Limit(M, n)
           K == Grouped(F)
<1>1. F \in SUBSET M /\ F \in SUBSET RowKeys /\ K \in SUBSET F
  BY LimitCounts DEF Grouped
<1>2. \A r \in RowKeys : r[1] \in Int /\ r[2] \in Int /\ r = <<r[1], r[2]>>
  BY TableAssumption DEF RowKeys, Symbols, Days
<1>3. \A r \in F, m \in M : Before(m, r) => m \in F
  BY LimitIsPrefix
<1>4. \A s : {k \in K : k[1] = s} = Limit({q \in F : q[1] = s}, query.limit)
  BY <1>1, GroupIsLimit
<1>5. Cardinality(K) <= n
  <2>1. Cardinality(F) <= n /\ IsFiniteSet(F) /\ Cardinality(F) \in Nat
    BY <1>1, LimitCounts, KeysFinite
  <2>2. Cardinality(K) <= Cardinality(F) /\ Cardinality(K) \in Nat
    <3>1. K \in SUBSET RowKeys
      BY <1>1
    <3> HIDE DEF K, F
    <3> QED
      BY <1>1, <2>1, <3>1, FS_Subset, KeysFinite
  <2> HIDE DEF F, K
  <2> QED
    BY <2>1, <2>2
<1> HIDE DEF F, K
<1>6. ASSUME NEW r \in K, NEW m \in C \ K, m[1] = r[1], ~(m[2] < r[2])
      PROVE  FALSE
  <2> DEFINE G == {q \in F : q[1] = m[1]}
  <2>1. m \in M /\ m # r /\ Before(m, r)
    BY <1>1, <1>2, <1>6 DEF Before
  <2>2. m \in G /\ r \in G /\ G \in SUBSET RowKeys
    BY <1>1, <1>3, <1>6, <2>1
  <2>3. {k \in K : k[1] = m[1]} = Limit(G, query.limit)
    BY <1>4
  <2> HIDE DEF G
  <2>4. m \in Limit(G, query.limit)
    BY <1>6, <2>1, <2>2, <2>3, LimitIsPrefix
  <2> QED
    BY <1>6, <2>3, <2>4
<1>7. ASSUME NEW r \in K, NEW m \in C \ K, m[1] < r[1]
      PROVE  Cardinality({k \in K : k[1] = m[1]}) = query.limit
  <2> DEFINE G == {q \in F : q[1] = m[1]}
  <2>1. m \in M /\ Before(m, r)
    BY <1>7 DEF Before
  <2>2. m \in G /\ G \in SUBSET RowKeys
    BY <1>1, <1>3, <1>7, <2>1
  <2>3. {k \in K : k[1] = m[1]} = Limit(G, query.limit)
    BY <1>4
  <2> HIDE DEF G
  <2>4. ~(Place(G, m) < query.limit) /\ Place(G, m) \in Nat
    BY <1>7, <2>2, <2>3, PlaceType DEF Limit, Place
  <2>5. Place(G, m) <= Cardinality(G) /\ Cardinality(G) \in Nat
    <3>1. {q \in G : Before(q, m)} \in SUBSET G
      OBVIOUS
    <3> QED
      BY <2>2, <3>1, KeysFinite, FS_Subset DEF Place
  <2>6. query.limit <= Cardinality(G)
    BY <2>4, <2>5
  <2> QED
    BY <2>2, <2>3, <2>6, LimitCounts
<1> QED
  BY <1>1, <1>5, <1>6, <1>7 DEF Answered, F, K


-----------------------------------------------------------------------------
(* The inductive invariant.                                                *)

BulkTypes ==
  /\ rows \in SUBSET RowKeys /\ counted \in SUBSET RowKeys
  /\ query \in [pc : {"idle", "count", "rows", "done"}, symbols : SUBSET Symbols,
                first : Days, last : Days, limit : Nat, total : Nat,
                kept : SUBSET RowKeys, truncated : BOOLEAN, capped : BOOLEAN]

\* What was counted is there until the rows are fetched.
CountStands ==
  query.pc = "rows" =>
    /\ counted \subseteq Matching
    /\ query.total = Cardinality(counted)
    /\ query.capped = (query.total > MaxRows)

KeptLast == query.pc # "done" => query.kept = {}

BulkInv ==
  /\ BulkTypes /\ CountStands /\ KeptLast
  /\ AnswerHasNoHole /\ OnlyTailIsCut /\ TruncationReported

LEMMA BulkInitInv == BulkInit => BulkInv
<1> SUFFICES ASSUME BulkInit PROVE BulkInv
  OBVIOUS
<1>1. 1 \in Days
  BY TableAssumption DEF Days
<1>2. BulkTypes /\ query.pc = "idle" /\ query.kept = {}
  BY <1>1 DEF BulkInit, BulkTypes, Idle
<1> QED
  BY <1>2 DEF BulkInv, CountStands, KeptLast, AnswerHasNoHole, OnlyTailIsCut, TruncationReported

LEMMA StoreBatchInv == BulkInv /\ StoreBatch => BulkInv'
<1> SUFFICES ASSUME BulkInv, StoreBatch PROVE BulkInv'
  OBVIOUS
<1>1. rows \subseteq rows' /\ rows' \in SUBSET RowKeys /\ UNCHANGED <<query, counted>>
  BY DEF BulkInv, BulkTypes, StoreBatch, RowKeys
<1>2. Matching \subseteq Matching'
  BY <1>1 DEF Matching
<1> QED
  BY <1>1, <1>2 DEF BulkInv, BulkTypes, CountStands, KeptLast, AnswerHasNoHole,
                    OnlyTailIsCut, TruncationReported, Missing

LEMMA CallInv == BulkInv /\ Call => BulkInv'
<1> SUFFICES ASSUME BulkInv, Call PROVE BulkInv'
  OBVIOUS
<1>1. BulkTypes' /\ query'.pc = "count" /\ query'.kept = {}
  <2>1. PICK symbols \in SUBSET Symbols, first \in Days, last \in Days,
             limit \in 1..MaxDay :
          query' = [Idle EXCEPT !.pc = "count", !.first = first, !.last = last,
                      !.symbols = IF symbols = {} THEN Symbols ELSE symbols,
                      !.limit = Smaller(limit, PerSymbolLimit)]
    BY DEF Call
  <2>2. Smaller(limit, PerSymbolLimit) \in Nat
    BY BulkAssumption, TableAssumption DEF Smaller
  <2>3. UNCHANGED <<rows, counted>>
    BY DEF Call
  <2> QED
    BY <2>1, <2>2, <2>3 DEF BulkInv, BulkTypes, Idle
<1> QED
  BY <1>1 DEF BulkInv, CountStands, KeptLast, AnswerHasNoHole, OnlyTailIsCut, TruncationReported

LEMMA MatchingType == BulkTypes => Matching \in SUBSET RowKeys /\ Cardinality(Matching) \in Nat
  BY KeysFinite DEF BulkTypes, Matching

LEMMA CountRowsInv == BulkInv /\ CountRows => BulkInv'
<1> SUFFICES ASSUME BulkInv, CountRows PROVE BulkInv'
  OBVIOUS
<1> DEFINE total == Cardinality(Matching)
<1>1. Matching \in SUBSET RowKeys /\ total \in Nat
  BY MatchingType DEF BulkInv
<1>2. /\ query' = [query EXCEPT !.pc = IF Smaller(total, MaxRows) = 0 THEN "done" ELSE "rows",
                                !.total = total, !.capped = total > MaxRows]
      /\ counted' = Matching /\ rows' = rows
  BY DEF CountRows
<1>3. (total > MaxRows) \in BOOLEAN /\ Smaller(total, MaxRows) \in Nat
      /\ (Smaller(total, MaxRows) = 0 /\ MaxRows > 0 => total = 0 /\ ~(total > MaxRows))
  BY <1>1, BulkAssumption DEF Smaller
<1>4. BulkTypes'
  <2> HIDE DEF total
  <2> QED
    BY <1>1, <1>2, <1>3 DEF BulkInv, BulkTypes
<1>5. query'.kept = {} /\ query'.total = total /\ query'.capped = (total > MaxRows)
      /\ query'.pc = IF Smaller(total, MaxRows) = 0 THEN "done" ELSE "rows"
  BY <1>2 DEF BulkInv, BulkTypes, KeptLast, CountRows
<1>6. CountStands' /\ KeptLast'
  <2>1. Matching' = Matching
    BY <1>2 DEF BulkInv, BulkTypes, Matching
  <2> QED
    BY <1>2, <1>5, <2>1 DEF CountStands, KeptLast
<1>7. AnswerHasNoHole' /\ OnlyTailIsCut'
  BY <1>5 DEF AnswerHasNoHole, OnlyTailIsCut
<1>8. TruncationReported'
  <2> SUFFICES ASSUME query'.pc = "done", MaxRows > 0
               PROVE  ~query'.capped /\ Cardinality(Missing)' <= Cardinality(query.kept \ counted)'
    BY DEF TruncationReported
  <2>1. total = 0 /\ ~query'.capped
    BY <1>3, <1>5
  <2>2. counted' = {}
    BY <1>1, <1>2, <2>1, FS_EmptySet, KeysFinite
  <2>3. Missing' = {} /\ (query.kept \ counted)' = {}
    BY <1>5, <2>2 DEF Missing
  <2> QED
    BY <2>1, <2>3, FS_EmptySet
<1> QED
  BY <1>4, <1>6, <1>7, <1>8 DEF BulkInv

\* Not truncated: as much was fetched as had been counted, so what is missing is
\* made up for by rows that came in between.
LEMMA NothingLost ==
  ASSUME NEW K \in SUBSET RowKeys, NEW C \in SUBSET RowKeys,
         Cardinality(C) <= Cardinality(K)
  PROVE  Cardinality(C \ K) <= Cardinality(K \ C)
<1>1. /\ IsFiniteSet(K) /\ IsFiniteSet(C) /\ C \cap K = K \cap C
      /\ C \cap K \in SUBSET RowKeys
  BY KeysFinite
<1>2. Cardinality(C \ K) = Cardinality(C) - Cardinality(C \cap K)
  BY <1>1, FS_Difference
<1>3. Cardinality(K \ C) = Cardinality(K) - Cardinality(C \cap K)
  BY <1>1, FS_Difference
<1>4. /\ Cardinality(C) \in Nat /\ Cardinality(K) \in Nat
      /\ Cardinality(C \cap K) \in Nat
  BY <1>1, KeysFinite
<1> QED
  BY <1>2, <1>3, <1>4

LEMMA FetchRowsInv == BulkInv /\ FetchRows => BulkInv'
<1> SUFFICES ASSUME BulkInv, FetchRows PROVE BulkInv'
  OBVIOUS
<1> DEFINE n == Smaller(query.total, MaxRows)
           F == Limit(Matching, n)
           K == Grouped(F)
<1>1. /\ query' = [query EXCEPT !.pc = "done", !.kept = K, !.truncated = Truncated(F, K)]
      /\ UNCHANGED <<rows, counted>> /\ query.pc = "rows"
  BY DEF FetchRows
<1>2. /\ Matching \in SUBSET RowKeys /\ counted \in SUBSET Matching
      /\ query.total = Cardinality(counted) /\ query.capped = (query.total > MaxRows)
      /\ query.total \in Nat /\ query.limit \in Nat
  BY <1>1, MatchingType DEF BulkInv, BulkTypes, CountStands
<1>3. n \in Nat /\ n <= MaxRows
  BY <1>2, BulkAssumption DEF Smaller
<1>4. F \in SUBSET RowKeys /\ K \in SUBSET F
  BY <1>2, <1>3, LimitCounts DEF Grouped
<1>5. Answered(Matching, counted, n, K)
  BY <1>2, <1>3, FetchAnswers
<1>6. Truncated(F, K) <=> F # K \/ query.total > Cardinality(K)
  BY DEF Truncated
<1>7. Truncated(F, K) \in BOOLEAN
  BY DEF Truncated
<1> HIDE DEF n, F, K
<1>8. /\ BulkTypes' /\ query'.pc = "done" /\ query'.kept = K /\ counted' = counted
      /\ query'.limit = query.limit /\ query'.capped = query.capped
      /\ query'.truncated = Truncated(F, K)
  BY <1>1, <1>4, <1>7 DEF BulkInv, BulkTypes
<1>9. AnswerHasNoHole' /\ OnlyTailIsCut'
  BY <1>5, <1>8 DEF AnswerHasNoHole, OnlyTailIsCut, Missing, Answered
<1>10. TruncationReported'
  <2> SUFFICES ASSUME ~Truncated(F, K)
               PROVE  ~query.capped /\ Cardinality(counted \ K) <= Cardinality(K \ counted)
    BY <1>8 DEF TruncationReported, Missing
  <2>1. Cardinality(K) \in Nat /\ query.total <= Cardinality(K)
    BY <1>2, <1>4, <1>6, KeysFinite
  <2>2. Cardinality(K) <= n
    BY <1>5 DEF Answered
  <2>3. ~(query.total > MaxRows)
    BY <1>2, <1>3, <2>1, <2>2, BulkAssumption
  <2> QED
    BY <1>2, <1>4, <2>1, <2>3, NothingLost
<1> QED
  BY <1>8, <1>9, <1>10 DEF BulkInv, CountStands, KeptLast

LEMMA NextCallInv == BulkInv /\ NextCall => BulkInv'
<1> SUFFICES ASSUME BulkInv, NextCall PROVE BulkInv'
  OBVIOUS
<1>1. 1 \in Days
  BY TableAssumption DEF Days
<1>2. BulkTypes' /\ query'.pc = "idle" /\ query'.kept = {}
  BY <1>1 DEF BulkInv, BulkTypes, NextCall, Idle
<1> QED
  BY <1>2 DEF BulkInv, CountStands, KeptLast, AnswerHasNoHole, OnlyTailIsCut, TruncationReported

LEMMA BulkStutterInv == BulkInv /\ UNCHANGED bulkVars => BulkInv'
  BY DEF bulkVars, BulkInv, BulkTypes, CountStands, KeptLast, AnswerHasNoHole, OnlyTailIsCut,
         TruncationReported, Missing, Matching

\* What counted rows and an answer have to do with the table is inductive: counted
\* rows stay, and an answer is made of the front of what the LIMIT lets through.
THEOREM BulkInductive == BulkSpec => []BulkInv
<1>1. BulkInv /\ [BulkNext]_bulkVars => BulkInv'
  BY StoreBatchInv, CallInv, CountRowsInv, FetchRowsInv, NextCallInv, BulkStutterInv
     DEF BulkNext
<1> QED
  BY <1>1, BulkInitInv, PTL DEF BulkSpec

\* The rows query_kline_bulk gives of a symbol have no hole: only older ones are
\* missing, for every limit and every row inserted between its two statements.
THEOREM NoHoleInAnswer == BulkSpec => []AnswerHasNoHole
<1>1. BulkInv => AnswerHasNoHole
  BY DEF BulkInv
<1> QED
  BY <1>1, BulkInductive, PTL

\* Of the symbols of an answer only the last one can be cut by the row cap: those
\* before it have as many rows as the limit per symbol lets them have.
THEOREM CutsOnlyTail == BulkSpec => []OnlyTailIsCut
<1>1. BulkInv => OnlyTailIsCut
  BY DEF BulkInv
<1> QED
  BY <1>1, BulkInductive, PTL

\* meta.truncated FALSE is true: no more is missing than was inserted meanwhile.
THEOREM TruncationIsTold == BulkSpec => []TruncationReported
<1>1. BulkInv => TruncationReported
  BY DEF BulkInv
<1> QED
  BY <1>1, BulkInductive, PTL

-----------------------------------------------------------------------------
(* The query beside the job: rows are what the job has stored.             *)

StoredKeys == {k \in RowKeys : table[k[1]][k[2]] # NoRow}

JobStep == Next /\ rows' = StoredKeys' /\ UNCHANGED <<query, counted>>

QueryStep == (Call \/ CountRows \/ FetchRows \/ NextCall) /\ UNCHANGED vars

QueryBesideJob ==
  Init /\ BulkInit /\ [][JobStep \/ QueryStep]_<<vars, bulkVars>>

\* A step of the job stores rows of one symbol, or none.
LEMMA JobStoresOneSymbol ==
  ASSUME VersionsOK, TableOK, RunsOK, Next
  PROVE  \/ StoredKeys' = StoredKeys
         \/ \E s \in Symbols, days \in (SUBSET Days) \ {{}} :
              StoredKeys' = StoredKeys \cup ({s} \X days)
<1>1. CASE table' = table
  BY <1>1 DEF StoredKeys
<1>2. ASSUME NEW r \in Runs, RunStep(r), table' # table
      PROVE  \/ StoredKeys' = StoredKeys
             \/ \E s \in Symbols, days \in (SUBSET Days) \ {{}} :
                  StoredKeys' = StoredKeys \cup ({s} \X days)
  <2> DEFINE s == Least(run[r].todo)
             days == Batch(r)
  <2>1. Shape(r)
    BY <1>2, StepShape
  <2>2. Writes(r)
    BY <1>2, <2>1 DEF Shape, Stays, Begins, FailsSymbol, FindsNothing, Downloads,
                      WritesMore, WritesLast, WritesAndStops
  <2>3. s \in Symbols /\ days \in SUBSET Days
    BY <2>2, CurrentIsTodo, CurrentIsLeast, BatchIsLowest DEF Writes, RunsOK, RunOK
  <2>4. \A t \in Symbols, d \in Days :
          table'[t][d] # NoRow <=> table[t][d] # NoRow \/ (t = s /\ d \in days)
    <3> SUFFICES ASSUME NEW t \in Symbols, NEW d \in Days
                 PROVE  table'[t][d] # NoRow <=>
                          table[t][d] # NoRow \/ (t = s /\ d \in days)
      OBVIOUS
    <3>1. table'[t][d] = table[t][d] \/ Wrote(r, t, d)
      BY <2>1, TableStep
    <3>2. Wrote(r, t, d) => t = s /\ d \in days /\ table'[t][d] # NoRow
      BY <2>1, RowsKept DEF Wrote
    <3>3. t = s /\ d \in days => Wrote(r, t, d)
      BY <2>1, <2>2, TableStep
    <3> QED
      BY <3>1, <3>2, <3>3
  <2> HIDE DEF s, days
  <2>5. \A k \in RowKeys : k[1] \in Symbols /\ k[2] \in Days
    BY DEF RowKeys
  <2>6. {s} \X days \subseteq RowKeys
    BY <2>3 DEF RowKeys
  <2>7. StoredKeys' = StoredKeys \cup ({s} \X days)
    <3>1. ASSUME NEW k \in RowKeys
          PROVE  k \in StoredKeys' <=> k \in StoredKeys \/ k \in {s} \X days
      <4>1. k \in {s} \X days <=> k[1] = s /\ k[2] \in days
        BY DEF RowKeys
      <4> QED
        BY <2>4, <2>5, <4>1 DEF StoredKeys
    <3> QED
      BY <2>6, <3>1 DEF StoredKeys
  <2>8. CASE days # {}
    BY <2>3, <2>7, <2>8
  <2>9. CASE days = {}
    BY <2>7, <2>9
  <2> QED
    BY <2>8, <2>9
<1> QED
  BY <1>1, <1>2 DEF Next, Rebase

LEMMA JobStepIsStoreBatch ==
  ASSUME IInv, rows = StoredKeys, JobStep
  PROVE  [BulkNext]_bulkVars /\ rows' = StoredKeys'
<1>1. VersionsOK /\ TableOK /\ RunsOK
  BY TypeParts DEF IInv
<1>2. /\ rows' = StoredKeys' /\ UNCHANGED <<query, counted>>
      /\ \/ StoredKeys' = StoredKeys
         \/ \E s \in Symbols, days \in (SUBSET Days) \ {{}} :
              StoredKeys' = StoredKeys \cup ({s} \X days)
  BY <1>1, JobStoresOneSymbol DEF JobStep
<1> QED
  BY <1>2 DEF BulkNext, StoreBatch, bulkVars

LEMMA BesideInit == Init /\ BulkInit => rows = StoredKeys
<1> SUFFICES ASSUME Init, BulkInit PROVE StoredKeys = {}
  BY DEF BulkInit
<1>1. \A k \in RowKeys : table[k[1]][k[2]] = NoRow
  BY DEF Init, RowKeys
<1> QED
  BY <1>1 DEF StoredKeys

LEMMA BesideStep ==
  IInv /\ rows = StoredKeys /\ [JobStep \/ QueryStep]_<<vars, bulkVars>>
    => [Next]_vars /\ [BulkNext]_bulkVars /\ (rows = StoredKeys)'
<1> SUFFICES ASSUME IInv, rows = StoredKeys, [JobStep \/ QueryStep]_<<vars, bulkVars>>
             PROVE  [Next]_vars /\ [BulkNext]_bulkVars /\ (rows = StoredKeys)'
  OBVIOUS
<1>1. CASE JobStep
  BY <1>1, JobStepIsStoreBatch DEF JobStep
<1>2. CASE QueryStep
  <2>1. UNCHANGED vars /\ rows' = rows /\ BulkNext
    BY <1>2 DEF QueryStep, Call, CountRows, FetchRows, NextCall, BulkNext
  <2> QED
    BY <2>1 DEF vars, StoredKeys
<1>3. CASE UNCHANGED <<vars, bulkVars>>
  BY <1>3 DEF vars, bulkVars, StoredKeys
<1> QED
  BY <1>1, <1>2, <1>3

\* The job of stock_etl is the writer that the query was verified against: beside
\* it, with rows what the job has stored, the query behaves as KlineBulk says, and
\* the job is not disturbed by the query.
THEOREM JobFeedsQuery == QueryBesideJob => BulkSpec /\ Spec
<1> DEFINE Beside == IInv /\ rows = StoredKeys
<1>1. Init /\ BulkInit => Beside
  BY InitIInv, BesideInit
<1>2. IInv /\ [Next]_vars => IInv'
  BY RebaseIInv, RunIInv, StutterIInv DEF Next
<1>3. Beside /\ [JobStep \/ QueryStep]_<<vars, bulkVars>>
        => Beside' /\ [Next]_vars /\ [BulkNext]_bulkVars
  BY <1>2, BesideStep
<1> HIDE DEF Beside
<1> QED
  BY <1>1, <1>3, PTL DEF QueryBesideJob, BulkSpec, Spec

\* So an answer taken while the job writes has no hole, is cut at its tail only and
\* says so, and the job's books are right all the same.
THEOREM QueryBesideJobIsRight ==
  QueryBesideJob => [](AnswerHasNoHole /\ OnlyTailIsCut /\ TruncationReported /\ NoHole)
  BY JobFeedsQuery, NoHoleInAnswer, CutsOnlyTail, TruncationIsTold, NoHoleEver, PTL
=============================================================================
