------------------------------ MODULE StockEtl ------------------------------
(***************************************************************************)
(* The ETL job, stock_etl/app: the symbol universe, then for each symbol   *)
(* one download from the main source or, when that keeps failing, from the *)
(* fallback, and the upsert of its rows in batches, each its own commit.   *)
(*                                                                         *)
(* The rows of a symbol are adjusted for dividends (qfq), so the upstream  *)
(* now and then changes all of them: version[s] counts these changes as    *)
(* the main source answers them, and a row of the main source remembers    *)
(* the version it was downloaded at. The fallback takes the changes over   *)
(* at times of its own, older or newer ones than the main source: its rows *)
(* compare with no version.                                                *)
(***************************************************************************)
EXTENDS Integers, FiniteSets, KlineTable

CONSTANTS
  Runs,        \* runs of the job
  MaxVersion,  \* bound on the changes of the upstream's history
  BatchSize,
  Retries,     \* REQUEST_RETRIES
  Nobody       \* writer of a row that does not exist

ASSUME EtlAssumption ==
  /\ MaxVersion \in Nat \ {0} /\ BatchSize \in Nat \ {0} /\ Retries \in Nat
  /\ Nobody \notin Runs

VARIABLES
  version,   \* version[s]: what the main source answers now
  table,     \* market.kline_daily, by symbol and day
  run

vars == <<version, table, run>>

Incomparable == 0   \* the version of the fallback's rows
NoRow == [by |-> Nobody, version |-> Incomparable]
Calling == {"spot", "names", "em", "tx"}
Running == Calling \cup {"write"}

TypeOK ==
  /\ version \in [Symbols -> 1..MaxVersion]
  /\ table \in [Symbols -> [Days -> [by : Runs \cup {Nobody}, version : 0..MaxVersion]]]
  /\ run \in [Runs -> [pc : Running \cup {"idle", "done", "killed"},
                       attempt : 0..Retries,
                       todo : SUBSET Symbols,
                       frame : [Symbols -> SUBSET Days],
                       version : 0..MaxVersion,
                       left : SUBSET Days,
                       ok : SUBSET Symbols, failed : SUBSET Symbols,
                       code : 0..1, beside : SUBSET Runs]]
  /\ \A r \in Runs : run[r].pc \in {"em", "tx", "write"} => run[r].todo # {}

Init ==
  /\ version \in [Symbols -> {1}]
  /\ table = [s \in Symbols |-> [d \in Days |-> NoRow]]
  /\ run = [r \in Runs |-> [pc |-> "idle", attempt |-> 0, todo |-> {},
                            frame |-> [s \in Symbols |-> {}],
                            version |-> Incomparable, left |-> {},
                            ok |-> {}, failed |-> {}, code |-> 0,
                            beside |-> {}]]

\* A dividend or a correction: the main source answers differently from now on.
Rebase(s) ==
  /\ version[s] < MaxVersion
  /\ version' = [version EXCEPT ![s] = @ + 1]
  /\ UNCHANGED <<table, run>>

-----------------------------------------------------------------------------
Become(r, fields) == run' = [run EXCEPT ![r] = fields]

\* The process ends: only its books are left, the place in the loop is gone.
Ended(fields, pc, code) ==
  [fields EXCEPT !.pc = pc, !.code = code, !.attempt = 0, !.todo = {}, !.left = {},
                 !.version = Incomparable]

Exit(r, code) == Become(r, Ended(run[r], "done", code))

\* The symbol the loop is at: the list is sorted.
Current(r) == CHOOSE s \in run[r].todo : \A t \in run[r].todo : s <= t

\* What the loop goes on with when only the symbols of todo are left.
Proceed(fields, todo) ==
  IF todo = {}
    THEN Ended(fields, "done", 0)
    ELSE [fields EXCEPT !.pc = "em", !.todo = todo, !.attempt = 0, !.left = {},
                        !.version = Incomparable]

Finished(r) ==
  LET s == Current(r) IN
  Proceed([run[r] EXCEPT !.ok = @ \cup {s}], run[r].todo \ {s})

Failed(r) ==
  LET s == Current(r) IN
  Proceed([run[r] EXCEPT !.failed = @ \cup {s}], run[r].todo \ {s})

\* The field beside remembers the runs that were going on at the start: nothing
\* in the program keeps two runs, of one RUN_MODE or of two, apart.
Overlapped(q, r) == q \in run[r].beside \/ r \in run[q].beside

Start(r) ==
  /\ run[r].pc = "idle"
  /\ Become(r, [run[r] EXCEPT !.pc = "spot",
                        !.beside = {q \in Runs : run[q].pc \in Running}])
  /\ UNCHANGED <<version, table>>

\* A RequestException, ValueError or RuntimeError of the upstream call.
Retry(r) ==
  /\ run[r].pc \in Calling /\ run[r].attempt < Retries
  /\ Become(r, [run[r] EXCEPT !.attempt = @ + 1])
  /\ UNCHANGED <<version, table>>

\* The last attempt has failed: the other source, or nothing is left to try.
GiveUp(r) ==
  /\ run[r].pc \in Calling /\ run[r].attempt = Retries
  /\ \/ run[r].pc = "spot" /\ Become(r, [run[r] EXCEPT !.pc = "names", !.attempt = 0])
     \/ run[r].pc = "names" /\ Exit(r, 1)
     \/ run[r].pc = "em" /\ Become(r, [run[r] EXCEPT !.pc = "tx", !.attempt = 0])
     \/ run[r].pc = "tx" /\ Become(r, Failed(r))
  /\ UNCHANGED <<version, table>>

UniverseArrives(r) ==
  /\ run[r].pc \in {"spot", "names"}
  /\ \E todo \in SUBSET Symbols : Become(r, Proceed(run[r], todo))
  /\ UNCHANGED <<version, table>>

\* A list without the code column is a ValueError, also from the main source.
UniverseMalformed(r) ==
  /\ run[r].pc \in {"spot", "names"} /\ Exit(r, 1)
  /\ UNCHANGED <<version, table>>

\* Mutant: the answer comes from a cache that an earlier run has filled.
FrameFromCache(r) ==
  /\ run[r].pc \in {"em", "tx"}
  /\ \E frame \in (SUBSET Days) \ {{}}, v \in 1..version[Current(r)] :
       Become(r, [run[r] EXCEPT !.pc = "write", !.frame[Current(r)] = frame,
                                !.version = v, !.left = frame])
  /\ UNCHANGED <<version, table>>

VersionOfAnswer(r) ==
  IF run[r].pc = "em" THEN version[Current(r)] ELSE Incomparable

\* The download is converted at once: the trade dates it has, in order.
FrameArrives(r) ==
  /\ run[r].pc \in {"em", "tx"}
  /\ \E frame \in SUBSET Days :
       IF frame = {} THEN Become(r, Finished(r))
       ELSE Become(r, [run[r] EXCEPT !.pc = "write", !.frame[Current(r)] = frame,
                         !.version = VersionOfAnswer(r), !.left = frame])
  /\ UNCHANGED <<version, table>>

\* A TypeError of the call, or a ValueError or TypeError of the conversion:
\* the symbol is given up without another attempt.
FrameMalformed(r) ==
  /\ run[r].pc \in {"em", "tx"} /\ Become(r, Failed(r))
  /\ UNCHANGED <<version, table>>

\* The rows of the next batch: the oldest ones that are left.
Batch(r) == {d \in run[r].left : Cardinality({e \in run[r].left : e < d}) < BatchSize}

Stored(r, s, days) ==
  [table EXCEPT ![s] = [d \in Days |->
     IF d \in days THEN [by |-> r, version |-> run[r].version] ELSE table[s][d]]]

\* Mutant: the loop stops one row early.
WriteAllButLast(r) ==
  /\ run[r].pc = "write"
  /\ table' = Stored(r, Current(r), Batch(r))
  /\ LET left == run[r].left \ Batch(r) IN
     Become(r, IF Cardinality(left) < 2 THEN Finished(r)
               ELSE [run[r] EXCEPT !.left = left])
  /\ UNCHANGED version

\* Mutant: the batches are taken from the newest rows down.
WriteNewestFirst(r) ==
  /\ run[r].pc = "write"
  /\ LET last == {d \in run[r].left :
                    Cardinality({e \in run[r].left : e > d}) < BatchSize}
         left == run[r].left \ last IN
     /\ table' = Stored(r, Current(r), last)
     /\ Become(r, IF left = {} THEN Finished(r) ELSE [run[r] EXCEPT !.left = left])
  /\ UNCHANGED version

WriteBatch(r) ==
  /\ run[r].pc = "write"
  /\ table' = Stored(r, Current(r), Batch(r))
  /\ LET left == run[r].left \ Batch(r) IN
     Become(r, IF left = {} THEN Finished(r) ELSE [run[r] EXCEPT !.left = left])
  /\ UNCHANGED version

\* The commit is done but its answer is lost.
WriteUnacknowledged(r) ==
  /\ run[r].pc = "write"
  /\ table' = Stored(r, Current(r), Batch(r))
  /\ Exit(r, 1)
  /\ UNCHANGED version

\* Mutant: an error of the database counts as a failed symbol.
SkipOnDbError(r) ==
  /\ run[r].pc = "write" /\ Become(r, Failed(r))
  /\ UNCHANGED <<version, table>>

\* An exception that run_ingest and main do not name: psycopg2.Error,
\* decimal.InvalidOperation, a KeyError of the library.
Uncaught(r) ==
  /\ run[r].pc \in Running /\ Exit(r, 1)
  /\ UNCHANGED <<version, table>>

Kill(r) ==
  /\ run[r].pc \in Running
  /\ Become(r, Ended(run[r], "killed", 0))
  /\ UNCHANGED <<version, table>>

RunStep(r) ==
  \/ Start(r) \/ Retry(r) \/ GiveUp(r)
  \/ UniverseArrives(r) \/ UniverseMalformed(r)
  \/ FrameArrives(r) \/ FrameMalformed(r)
  \/ WriteBatch(r) \/ WriteUnacknowledged(r) \/ Uncaught(r) \/ Kill(r)

Next == (\E s \in Symbols : Rebase(s)) \/ \E r \in Runs : RunStep(r)

Spec == Init /\ [][Next]_vars
-----------------------------------------------------------------------------
(* Properties.                                                             *)

\* A symbol that a run counts as failed was not touched by that run: only the
\* download and the conversion can fail a symbol, an error between two of its
\* batches ends the run.
FailedUntouched ==
  \A r \in Runs : \A s \in run[r].failed, d \in Days : table[s][d].by # r

\* A symbol that a run counts as a success is stored completely, its last
\* batch included, whatever other runs do meanwhile.
SuccessIsStored ==
  \A r \in Runs : \A s \in run[r].ok :
    \A d \in run[r].frame[s] : table[s][d] # NoRow

\* Wherever a run stops, and whatever the answer of its last commit was, the
\* rows it has stored are the oldest ones of its downloads: no stored row of a
\* download has a missing one behind it.
NoHole ==
  \A r \in Runs, s \in Symbols, d \in Days :
    table[s][d].by = r =>
      \A e \in run[r].frame[s] : e < d => table[s][e] # NoRow

\* A row of the main source is replaced by one of an older version of its history
\* only where the run that writes it and the one that wrote it before had
\* overlapped. What other runs do meanwhile does not matter, nor do the batches
\* that a run which died half way has left behind. A row of the fallback replaces
\* any row and is replaced by any.
RowsForward ==
  [][ \A s \in Symbols, d \in Days :
        \/ table'[s][d].version >= table[s][d].version
        \/ table'[s][d].by \in Runs /\ table'[s][d].version = Incomparable
        \/ \E q, r \in Runs : /\ table'[s][d].by = q /\ table[s][d].by = r
                             /\ Overlapped(q, r) ]_vars
=============================================================================
