-------------------------- MODULE RecoDailyProofs ---------------------------
(***************************************************************************)
(* The lists of market.reco_daily do not mix and a query finds the rows of *)
(* the date it has found, for any number of runs, symbols and days.        *)
(***************************************************************************)
EXTENDS RecoDaily, TLAPS

Row == [by : Writers \cup {Nobody}, rank : 0..PoolSize]
Writer == [pc : {"idle", "write", "done", "failed"}, list : Lists, sent : 0..PoolSize]
Reader == [pc : {"idle", "rows", "done"}, date : Dates \cup {NoDate}, found : SUBSET Keys]

LEMMA ListLength ==
  ASSUME NEW list \in Lists
  PROVE  /\ list \in Seq(Keys) /\ Len(list) \in 0..PoolSize
         /\ DOMAIN list = 1..Len(list)
<1>1. PICK n \in 0..PoolSize : list \in [1..n -> Keys]
  BY DEF Lists
<1>2. list \in Seq(Keys) /\ Len(list) = n
  BY <1>1, RecoAssumption
<1> QED
  BY <1>2

\* A writer that has not committed has no row.
WriterOK(w) ==
  /\ writer[w] \in Writer /\ writer[w].sent <= Len(writer[w].list)
  /\ writer[w].pc \in {"idle", "write"} => \A key \in Keys : rows[key].by # w

\* The reader holds a date that has rows until it has read them.
ReaderOK ==
  /\ reader \in Reader
  /\ reader.pc = "rows" => reader.date \in Dates /\ Stored(reader.date) # {}

RowsOK == rows \in [Keys -> Row]

IInv ==
  /\ RowsOK /\ ReaderOK /\ writer \in [Writers -> Writer]
  /\ \A w \in Writers : WriterOK(w)
  /\ NoMixture /\ FoundDateHasRows

LEMMA NoRowType == NoRow \in Row /\ NoRow.by = Nobody
  BY RecoAssumption DEF NoRow, Row

LEMMA InitIInv == Init => IInv
<1> SUFFICES ASSUME Init PROVE IInv
  OBVIOUS
<1> DEFINE x == [pc |-> "idle", list |-> <<>>, sent |-> 0]
<1>1. <<>> \in Lists
  <2>1. <<>> \in [1..0 -> Keys] /\ 0 \in 0..PoolSize
    BY RecoAssumption
  <2> QED
    BY <2>1 DEF Lists
<1>2. x \in Writer /\ x.sent <= Len(x.list)
  BY <1>1, RecoAssumption DEF Writer
<1>3. \A w \in Writers : writer[w] = x
  BY DEF Init
<1>4. \A key \in Keys : rows[key] = NoRow
  BY DEF Init
<1>5. RowsOK
  BY NoRowType DEF Init, RowsOK
<1>6. \A w \in Writers : WriterOK(w)
  BY <1>2, <1>3, <1>4, NoRowType, RecoAssumption DEF WriterOK
<1>7. ReaderOK /\ FoundDateHasRows
  BY DEF Init, ReaderOK, Reader, FoundDateHasRows
<1>8. \A w \in Writers : ListKeys(w) = {}
  BY <1>3 DEF ListKeys
<1>9. NoMixture
  BY <1>8 DEF NoMixture
<1> QED
  BY <1>2, <1>5, <1>6, <1>7, <1>9 DEF Init, IInv

-----------------------------------------------------------------------------
(* Steps that leave the rows alone.                                        *)

\* Only the writer w changes, and it becomes x.
Becomes(w, x) ==
  /\ x \in Writer /\ x.sent <= Len(x.list)
  /\ writer' = [writer EXCEPT ![w] = x]

LEMMA WriterBecomes ==
  ASSUME IInv, NEW w \in Writers, NEW x, Becomes(w, x), UNCHANGED <<rows, reader>>,
         x.list = writer[w].list \/ writer[w].pc = "idle",
         x.pc \in {"idle", "write"} => writer[w].pc \in {"idle", "write"}
  PROVE  IInv'
<1>1. /\ writer' \in [Writers -> Writer] /\ writer'[w] = x
      /\ \A v \in Writers : v # w => writer'[v] = writer[v]
  BY DEF IInv, Becomes
<1>2. RowsOK' /\ ReaderOK' /\ FoundDateHasRows'
  BY DEF IInv, RowsOK, ReaderOK, Stored, FoundDateHasRows
<1>3. \A v \in Writers : WriterOK(v)'
  BY <1>1 DEF IInv, WriterOK, Becomes
<1>4. ASSUME NEW u \in Writers, NEW v \in Writers,
             NEW k \in ListKeys(u)' \cap ListKeys(v)',
             NEW l \in ListKeys(u)' \cap ListKeys(v)',
             rows'[k].by = u, rows'[l].by = v
      PROVE  u = v
  <2>1. \A t \in Writers : ListKeys(t)' = ListKeys(t) \/ (t = w /\ writer[w].pc = "idle")
    BY <1>1 DEF ListKeys
  <2>2. k \in Keys /\ l \in Keys
    BY <1>1, <1>4, ListLength DEF ListKeys, Writer
  <2>3. writer[w].pc = "idle" => rows[k].by # w /\ rows[l].by # w
    BY <2>2 DEF IInv, WriterOK
  <2>4. ListKeys(u)' = ListKeys(u) /\ ListKeys(v)' = ListKeys(v)
    BY <1>4, <2>1, <2>3
  <2> QED
    BY <1>4, <2>4 DEF IInv, NoMixture
<1>5. NoMixture'
  BY <1>4 DEF NoMixture
<1> QED
  BY <1>1, <1>2, <1>3, <1>5 DEF IInv

LEMMA ScoreIInv ==
  ASSUME IInv, NEW w \in Writers, Score(w) \/ ScoreFails(w) PROVE IInv'
<1>1. writer[w].pc = "idle" /\ UNCHANGED <<rows, reader>> /\ writer[w] \in Writer
      /\ writer[w].sent <= Len(writer[w].list)
  BY DEF Score, ScoreFails, IInv, WriterOK
<1>2. CASE Score(w)
  <2>1. PICK list \in Lists :
          writer' = [writer EXCEPT ![w] =
            [pc |-> IF list = <<>> THEN "done" ELSE "write", list |-> list, sent |-> 0]]
    BY <1>2 DEF Score
  <2> DEFINE x == [pc |-> IF list = <<>> THEN "done" ELSE "write", list |-> list, sent |-> 0]
  <2>2. x \in Writer /\ x.sent <= Len(x.list)
    BY ListLength, RecoAssumption DEF Writer
  <2>3. Becomes(w, x)
    BY <2>1, <2>2 DEF Becomes
  <2> HIDE DEF x
  <2> QED
    BY <1>1, <2>3, WriterBecomes
<1>3. CASE ScoreFails(w)
  <2> DEFINE x == [writer[w] EXCEPT !.pc = "failed"]
  <2>1. x \in Writer /\ x.sent <= Len(x.list) /\ x.list = writer[w].list /\ x.pc = "failed"
    BY <1>1 DEF Writer
  <2>2. Becomes(w, x)
    BY <1>3, <2>1 DEF Becomes, ScoreFails
  <2> HIDE DEF x
  <2> QED
    BY <1>1, <2>1, <2>2, WriterBecomes
<1> QED
  BY <1>2, <1>3

LEMMA UpsertIInv ==
  ASSUME IInv, NEW w \in Writers, UpsertRow(w) \/ Abort(w) PROVE IInv'
<1>1. /\ writer[w].pc = "write" /\ UNCHANGED <<rows, reader>> /\ writer[w] \in Writer
      /\ writer[w].sent <= Len(writer[w].list)
      /\ Len(writer[w].list) \in 0..PoolSize /\ writer[w].sent \in Nat
  BY ListLength DEF UpsertRow, Abort, IInv, WriterOK, Writer
<1>2. CASE UpsertRow(w)
  <2> DEFINE x == [writer[w] EXCEPT !.sent = writer[w].sent + 1]
  <2>1. writer[w].sent + 1 <= Len(writer[w].list) /\ writer[w].sent + 1 \in 0..PoolSize
    BY <1>1, <1>2, RecoAssumption DEF UpsertRow
  <2>2. x \in Writer /\ x.sent <= Len(x.list) /\ x.list = writer[w].list /\ x.pc = "write"
    BY <1>1, <2>1 DEF Writer
  <2>3. Becomes(w, x)
    BY <1>2, <2>2 DEF Becomes, UpsertRow
  <2> HIDE DEF x
  <2> QED
    BY <1>1, <2>2, <2>3, WriterBecomes
<1>3. CASE Abort(w)
  <2> DEFINE x == [writer[w] EXCEPT !.pc = "failed"]
  <2>1. x \in Writer /\ x.sent <= Len(x.list) /\ x.list = writer[w].list /\ x.pc = "failed"
    BY <1>1 DEF Writer
  <2>2. Becomes(w, x)
    BY <1>3, <2>1 DEF Becomes, Abort
  <2> HIDE DEF x
  <2> QED
    BY <1>1, <2>1, <2>2, WriterBecomes
<1> QED
  BY <1>2, <1>3

-----------------------------------------------------------------------------
(* The commit.                                                             *)

LEMMA SentIsList ==
  ASSUME IInv, NEW w \in Writers, writer[w].sent = Len(writer[w].list)
  PROVE  Sent(w) = ListKeys(w) /\ Sent(w) \subseteq Keys
  BY ListLength DEF IInv, Writer, Sent, ListKeys

Rank(w, key) == CHOOSE i \in 1..writer[w].sent : writer[w].list[i] = key

LEMMA VisibleRows ==
  ASSUME IInv, NEW w \in Writers, Sent(w) \subseteq Keys
  PROVE  /\ Visible(w) \in [Keys -> Row]
         /\ \A key \in Keys : IF key \in Sent(w) THEN Visible(w)[key].by = w
                              ELSE Visible(w)[key] = rows[key]
<1>1. ASSUME NEW key \in Sent(w)
      PROVE  Rank(w, key) \in 0..PoolSize
  <2>1. \E i \in 1..writer[w].sent : writer[w].list[i] = key
    BY <1>1 DEF Sent
  <2>2. Rank(w, key) \in 1..writer[w].sent
    BY <2>1 DEF Rank
  <2>3. writer[w].sent \in 0..PoolSize
    BY DEF IInv, Writer
  <2> QED
    BY <2>2, <2>3, RecoAssumption
<1>2. \A key \in Keys :
        /\ key \in Sent(w) => Visible(w)[key] = [by |-> w, rank |-> Rank(w, key)]
        /\ key \notin Sent(w) => Visible(w)[key] = rows[key]
  BY DEF Visible, Rank
<1>3. ASSUME NEW key \in Keys PROVE Visible(w)[key] \in Row
  <2>1. CASE key \in Sent(w)
    <3>1. Visible(w)[key] = [by |-> w, rank |-> Rank(w, key)]
      BY <1>2, <2>1, Zenon
    <3>2. Rank(w, key) \in 0..PoolSize
      BY <1>1, <2>1
    <3> QED
      BY <3>1, <3>2 DEF Row
  <2>2. CASE key \notin Sent(w)
    BY <1>2, <2>2 DEF IInv, RowsOK
  <2> QED
    BY <2>1, <2>2
<1>4. Visible(w) \in [Keys -> Row]
  <2>1. Visible(w) = [key \in Keys |-> Visible(w)[key]]
    BY DEF Visible
  <2> QED
    BY <1>3, <2>1
<1>5. ASSUME NEW key \in Keys
      PROVE  IF key \in Sent(w) THEN Visible(w)[key].by = w
             ELSE Visible(w)[key] = rows[key]
  <2>1. CASE key \in Sent(w)
    <3>1. Visible(w)[key] = [by |-> w, rank |-> Rank(w, key)]
      BY <1>2, <2>1, Zenon
    <3> QED
      BY <2>1, <3>1
  <2>2. CASE key \notin Sent(w)
    BY <1>2, <2>2
  <2> QED
    BY <2>1, <2>2
<1> QED
  BY <1>4, <1>5

LEMMA CommitIInv ==
  ASSUME IInv, NEW w \in Writers, Commit(w) PROVE IInv'
<1>1. /\ writer[w].pc = "write" /\ writer[w].sent = Len(writer[w].list)
      /\ rows' = Visible(w) /\ reader' = reader /\ writer[w] \in Writer
  BY DEF Commit, IInv
<1>2. PICK pc \in {"done", "failed"} : writer' = [writer EXCEPT ![w].pc = pc]
  BY DEF Commit
<1>3. /\ writer' \in [Writers -> Writer] /\ writer'[w].pc = pc
      /\ \A v \in Writers : /\ writer'[v].list = writer[v].list
                            /\ writer'[v].sent = writer[v].sent
      /\ \A v \in Writers : v # w => writer'[v] = writer[v]
  BY <1>2 DEF IInv, Writer
<1>4. Sent(w) = ListKeys(w) /\ Sent(w) \subseteq Keys
  BY <1>1, SentIsList
<1>5. /\ rows' \in [Keys -> Row]
      /\ \A key \in Keys : IF key \in ListKeys(w) THEN rows'[key].by = w
                           ELSE rows'[key] = rows[key]
  BY <1>1, <1>4, VisibleRows
<1>6. \A v \in Writers : ListKeys(v)' = ListKeys(v)
  BY <1>3 DEF ListKeys
<1>7. ASSUME NEW v \in Writers PROVE WriterOK(v)'
  <2>1. writer'[v] \in Writer /\ writer'[v].sent <= Len(writer'[v].list)
    BY <1>3 DEF IInv, WriterOK
  <2>2. CASE v = w
    BY <1>3, <2>1, <2>2 DEF WriterOK
  <2>3. CASE v # w
    BY <1>3, <1>5, <2>1, <2>3 DEF IInv, WriterOK
  <2> QED
    BY <2>2, <2>3
<1>8. \A key \in Keys : rows[key] # NoRow => rows'[key] # NoRow
  BY <1>5, NoRowType, RecoAssumption
<1>9. \A date : Stored(date) \subseteq Stored(date)'
  BY <1>8 DEF Stored
<1>10. ReaderOK' /\ FoundDateHasRows'
  BY <1>1, <1>9 DEF IInv, ReaderOK, FoundDateHasRows
<1>11. NoMixture'
  <2> SUFFICES ASSUME NEW u \in Writers, NEW v \in Writers,
                      NEW k \in ListKeys(u) \cap ListKeys(v),
                      NEW l \in ListKeys(u) \cap ListKeys(v),
                      rows'[k].by = u, rows'[l].by = v
               PROVE  u = v
    BY <1>6 DEF NoMixture
  <2>1. k \in Keys /\ l \in Keys
    BY ListLength DEF ListKeys, IInv, Writer
  <2>2. CASE u = w \/ v = w
    BY <1>5, <2>1, <2>2
  <2>3. CASE u # w /\ v # w
    <3>1. rows[k].by = u /\ rows[l].by = v
      BY <1>5, <2>1, <2>3
    <3> QED
      BY <3>1 DEF IInv, NoMixture
  <2> QED
    BY <2>2, <2>3
<1> QED
  BY <1>3, <1>5, <1>7, <1>10, <1>11 DEF IInv, RowsOK

-----------------------------------------------------------------------------
(* The reader.                                                             *)

LEMMA ReaderIInv ==
  ASSUME IInv, ResolveTradeDate \/ FetchRows \/ NextQuery PROVE IInv'
<1>1. UNCHANGED <<rows, writer>>
  BY DEF ResolveTradeDate, FetchRows, NextQuery
<1>2. /\ RowsOK' /\ writer' \in [Writers -> Writer] /\ NoMixture'
      /\ \A w \in Writers : WriterOK(w)'
  BY <1>1 DEF IInv, RowsOK, NoMixture, ListKeys, WriterOK
<1>3. \A date : Stored(date)' = Stored(date) /\ Stored(date) \subseteq Keys
  BY <1>1 DEF Stored
<1>4. NoDate \notin Dates
  BY DEF NoDate, Dates
<1>5. ReaderOK' /\ FoundDateHasRows'
  <2>1. CASE ResolveTradeDate
    <3>1. CASE reader' = [pc |-> "done", date |-> NoDate, found |-> {}]
      BY <3>1 DEF ReaderOK, Reader, FoundDateHasRows
    <3>2. ASSUME NEW date \in StoredDates,
                 reader' = [pc |-> "rows", date |-> date, found |-> {}]
          PROVE  ReaderOK' /\ FoundDateHasRows'
      <4>1. date \in Dates /\ Stored(date) # {}
        BY DEF StoredDates
      <4> QED
        BY <1>3, <3>2, <4>1 DEF ReaderOK, Reader, FoundDateHasRows
    <3> QED
      BY <2>1, <3>1, <3>2 DEF ResolveTradeDate
  <2>2. CASE FetchRows
    <3>1. /\ reader.pc = "rows" /\ reader \in Reader /\ reader.date \in Dates
          /\ Stored(reader.date) # {}
      BY <2>2 DEF FetchRows, IInv, ReaderOK
    <3>2. /\ reader' \in Reader /\ reader'.pc = "done" /\ reader'.date = reader.date
          /\ reader'.found = Stored(reader.date)
      BY <1>3, <2>2, <3>1 DEF FetchRows, Reader
    <3> QED
      BY <1>4, <3>1, <3>2 DEF ReaderOK, FoundDateHasRows
  <2>3. CASE NextQuery
    BY <2>3 DEF NextQuery, ReaderOK, Reader, FoundDateHasRows
  <2> QED
    BY <2>1, <2>2, <2>3
<1> QED
  BY <1>2, <1>5 DEF IInv

\* The invariant the theorems below follow from: a strategy run that has not
\* committed has no row, and a date that reco_query has found has rows.
THEOREM Inductive == Spec => []IInv
<1>1. ASSUME IInv, UNCHANGED vars PROVE IInv'
  BY <1>1 DEF vars, IInv, RowsOK, ReaderOK, Stored, WriterOK, NoMixture, ListKeys,
              FoundDateHasRows
<1>2. IInv /\ [Next]_vars => IInv'
  BY <1>1, ScoreIInv, UpsertIInv, CommitIInv, ReaderIInv DEF Next, WriterStep
<1> QED
  BY <1>2, InitIInv, PTL DEF Spec

\* The fields of the rows, of the runs and of the query have the values the code
\* can give them, for every candidate pool.
THEOREM TypeCorrect == Spec => []TypeOK
<1>1. IInv => TypeOK
  BY DEF IInv, RowsOK, ReaderOK, Reader, Row, Writer, WriterOK, TypeOK
<1> QED
  BY <1>1, Inductive, PTL

\* Of the rows that the lists of two strategy runs share, all are of the one or all
\* of the other: insert_reco_daily_rows is one transaction.
THEOREM ListsNeverMix == Spec => []NoMixture
<1>1. IInv => NoMixture
  BY DEF IInv
<1> QED
  BY <1>1, Inductive, PTL

\* reco_query finds rows for the date it has found, whatever is committed between
\* its two statements.
THEOREM DateHasRows == Spec => []FoundDateHasRows
<1>1. IInv => FoundDateHasRows
  BY DEF IInv
<1> QED
  BY <1>1, Inductive, PTL
=============================================================================
