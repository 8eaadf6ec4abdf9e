------------------------- MODULE ModelPublishProofs -------------------------
(***************************************************************************)
(* What LATEST names is complete, and what the predictor copies is whole,  *)
(* for any number of runs, dates and files, overlapping or not.            *)
(***************************************************************************)
EXTENDS ModelPublish, TLAPS

\* A file that some run for date d has made.
MadeFor(content, d) == content # Absent /\ job[content].date = d

\* A run that has not started has no date and runs beside none, and what is
\* stored under a date was made for that date.
Dated ==
  /\ \A j \in Jobs : job[j].pc = "idle" => job[j].date = NoDate /\ ~job[j].beside
  /\ \A k \in Kinds, d \in Dates : \A f \in Files(k) :
       objects[k][d][f] # Absent => MadeFor(objects[k][d][f], d)

\* How far the uploads of a run have come.
UploadedBy(j) ==
  /\ job[j].pc \in {"put", "copy", "remove"} =>
       \A k \in Kinds : Full(k, job[j].date)
  /\ job[j].pc \in {"bucket", "make", "upload"} =>
       /\ job[j].kind = "model" => Full("qdata", job[j].date)
       /\ \A f \in Files(job[j].kind) :
            f < job[j].file => objects[job[j].kind][job[j].date][f] # Absent
  /\ job[j].pc \in {"idle", "build"} => job[j].kind = "qdata" /\ job[j].file = 1

Uploaded == \A j \in Jobs : UploadedBy(j)

\* Whoever wrote LATEST.tmp had uploaded both directories.
TmpComplete ==
  \A k \in Kinds : tmp[k] # NoDate => \A both \in Kinds : Full(both, tmp[k])

\* How far the init container has come.
Copied ==
  /\ sync.pc = "qdata" =>
       /\ sync.qdata \in Dates /\ Full("qdata", sync.qdata)
       /\ sync.todo \subseteq Files("qdata")
       /\ \A f \in Files("qdata") :
            f \notin sync.todo => MadeFor(local.qdata[f], sync.qdata)
  /\ sync.pc \in {"model", "ready"} =>
       /\ sync.qdata \in Dates
       /\ \A f \in Files("qdata") : MadeFor(local.qdata[f], sync.qdata)
  /\ sync.pc = "model" =>
       /\ sync.model \in Dates /\ Full("model", sync.model)
       /\ sync.todo \subseteq Files("model")
       /\ \A f \in Files("model") :
            f \notin sync.todo => MadeFor(local.model[sync.model][f], sync.model)
  /\ sync.pc = "ready" =>
       /\ local.latest \in Dates
       /\ \A f \in Files("model") : MadeFor(local.model[local.latest][f], local.latest)

IInv == TypeOK /\ Dated /\ Uploaded /\ TmpComplete /\ LatestComplete /\ Copied

-----------------------------------------------------------------------------
LEMMA FilesFacts ==
  /\ Kinds = {"qdata", "model"} /\ NoDate = 0 /\ NoDate \notin Dates
  /\ \A d \in Dates : d \in Nat /\ d # NoDate
  /\ \A k \in Kinds : /\ Size[k] \in Nat \ {0}
                      /\ 1 \in Files(k) /\ Size[k] \in Files(k)
                      /\ \A f \in Files(k) : f \in Nat /\ f >= 1 /\ f <= Size[k]
  BY PublishAssumption DEF Kinds, Files, NoDate, Dates

LEMMA InitIInv == Init => IInv
<1> SUFFICES ASSUME Init PROVE IInv
  OBVIOUS
<1> USE FilesFacts
<1>1. TypeOK
  BY PublishAssumption DEF Init, TypeOK, Running, Publishing
<1>2. Dated /\ Uploaded
  BY DEF Init, Dated, Uploaded, UploadedBy
<1>3. TmpComplete /\ LatestComplete /\ Copied
  BY DEF Init, TmpComplete, LatestComplete, Copied
<1> QED
  BY <1>1, <1>2, <1>3 DEF IInv

-----------------------------------------------------------------------------
(* The steps of a run.                                                     *)

\* The type of a run, and of the place where it stands.
Run == [pc : Running \cup {"idle", "done", "killed"}, date : Dates \cup {NoDate},
        kind : Kinds, file : Nat, code : 0..3, beside : BOOLEAN]

JobOK(r) ==
  /\ r \in Run
  /\ r.file \in Files(r.kind)
  /\ r.pc \in Running => r.date \in Dates

JobsOK == job \in [Jobs -> Run] /\ \A j \in Jobs : JobOK(job[j])

LEMMA TypeJobs == TypeOK => JobsOK
  BY DEF TypeOK, JobsOK, JobOK, Run

LEMMA MovedRun ==
  ASSUME NEW r \in Run, NEW k \in Kinds, NEW f \in Nat,
         NEW pc \in Running \cup {"idle", "done", "killed"}
  PROVE  [r EXCEPT !.pc = pc, !.kind = k, !.file = f] \in Run
  BY DEF Run

\* Only the run j changes, and it becomes r.
Becomes(j, r) == job' = [job EXCEPT ![j] = r]

LEMMA BecomesType ==
  ASSUME JobsOK, NEW j \in Jobs, NEW r, JobOK(r), Becomes(j, r)
  PROVE  /\ JobsOK' /\ job'[j] = r
         /\ \A i \in Jobs : i # j => job'[i] = job[i]
  BY DEF JobsOK, JobOK, Becomes

LEMMA GotoStep ==
  ASSUME JobsOK, NEW j \in Jobs, job[j].pc \in Running,
         NEW pc \in Running \cup {"done", "killed"}, Goto(j, pc)
  PROVE  /\ JobsOK'
         /\ \A i \in Jobs : i # j => job'[i] = job[i]
         /\ job'[j].pc = pc /\ job'[j].date = job[j].date
         /\ job'[j].kind = job[j].kind /\ job'[j].file = job[j].file
         /\ job'[j].beside = job[j].beside
<1> DEFINE r == [job[j] EXCEPT !.pc = pc]
<1>1. Becomes(j, r)
  BY DEF Goto, Becomes, JobsOK, Run
<1>2. /\ r.pc = pc /\ r.date = job[j].date /\ r.beside = job[j].beside
      /\ r.kind = job[j].kind /\ r.file = job[j].file
  BY DEF JobsOK, Run
<1>3. JobOK(r)
  BY <1>2 DEF JobsOK, JobOK, Run
<1> HIDE DEF r
<1> QED
  BY <1>1, <1>2, <1>3, BecomesType

LEMMA ExitStep ==
  ASSUME JobsOK, NEW j \in Jobs, NEW code \in 0..3, Exit(j, code)
  PROVE  /\ JobsOK'
         /\ \A i \in Jobs : i # j => job'[i] = job[i]
         /\ job'[j].pc = "done" /\ job'[j].date = job[j].date
         /\ job'[j].code = code /\ job'[j].beside = job[j].beside
<1> DEFINE r == [job[j] EXCEPT !.pc = "done", !.code = code]
<1>1. Becomes(j, r)
  BY DEF Exit, Becomes, JobsOK, Run
<1>2. /\ r.pc = "done" /\ r.date = job[j].date /\ r.code = code
      /\ r.kind = job[j].kind /\ r.file = job[j].file
      /\ r.beside = job[j].beside
  BY DEF JobsOK, Run
<1>3. JobOK(r)
  BY <1>2 DEF JobsOK, JobOK, Running, Publishing, Run
<1> HIDE DEF r
<1> QED
  BY <1>1, <1>2, <1>3, BecomesType

\* A raised exception ends the run and changes nothing else of it.
LEMMA RaiseStep ==
  ASSUME JobsOK, NEW j \in Jobs, Raise(j)
  PROVE  /\ JobsOK'
         /\ \A i \in Jobs : i # j => job'[i] = job[i]
         /\ job'[j].pc = "done" /\ job'[j].date = job[j].date
         /\ job'[j].code # 0 /\ job'[j].beside = job[j].beside
<1>1. PICK code \in {1, 3} : Exit(j, code)
  BY DEF Raise
<1> QED
  BY <1>1, ExitStep

\* A build starts for the date d.
Starts(j, d) ==
  job' = [job EXCEPT ![j].pc = "build", ![j].date = d, ![j].beside = AnotherRuns]

LEMMA StartStep ==
  ASSUME JobsOK, NEW j \in Jobs, NEW d \in Dates, Starts(j, d)
  PROVE  /\ JobsOK'
         /\ \A i \in Jobs : i # j => job'[i] = job[i]
         /\ job'[j].pc = "build" /\ job'[j].date = d
         /\ job'[j].kind = job[j].kind /\ job'[j].file = job[j].file
         /\ job'[j].beside = AnotherRuns
<1> DEFINE r == [job[j] EXCEPT !.pc = "build", !.date = d, !.beside = AnotherRuns]
<1>0. AnotherRuns \in BOOLEAN
  BY DEF AnotherRuns
<1>1. Becomes(j, r)
  BY DEF Becomes, JobsOK, Run, Starts
<1>2. /\ r.pc = "build" /\ r.date = d /\ r.beside = AnotherRuns
      /\ r.kind = job[j].kind /\ r.file = job[j].file
  BY DEF JobsOK, Run
<1>3. JobOK(r)
  BY <1>0, <1>2 DEF JobsOK, JobOK, Running, Publishing, Run
<1> HIDE DEF r
<1> QED
  BY <1>1, <1>2, <1>3, BecomesType

\* After the upload of a file: the next file, the next directory, or LATEST.
LEMMA UploadReturnsStep ==
  ASSUME JobsOK, NEW j \in Jobs, job[j].pc = "upload", UploadReturns(j)
  PROVE  /\ JobsOK'
         /\ \A i \in Jobs : i # j => job'[i] = job[i]
         /\ job'[j].date = job[j].date /\ job'[j].beside = job[j].beside
         /\ \/ /\ job[j].file < Size[job[j].kind]
               /\ job'[j].pc = "upload" /\ job'[j].kind = job[j].kind
               /\ job'[j].file = job[j].file + 1
            \/ /\ job[j].file = Size[job[j].kind]
               /\ job'[j].file = 1
               /\ \/ /\ job[j].kind = "qdata" /\ job'[j].kind = "model"
                     /\ job'[j].pc = "bucket"
                  \/ job[j].kind = "model" /\ job'[j].kind = "qdata" /\ job'[j].pc = "put"
<1> DEFINE k == job[j].kind
           f == job[j].file
<1>0. k \in Kinds /\ f \in Files(k) /\ f \in Nat /\ job[j].date \in Dates
  BY FilesFacts DEF JobsOK, JobOK, Running, Publishing, Run
<1>1. CASE f < Size[k] /\ job' = [job EXCEPT ![j].file = @ + 1]
  <2> DEFINE r == [job[j] EXCEPT !.file = f + 1]
  <2>1. Becomes(j, r)
    BY <1>1 DEF Becomes, JobsOK, Run
  <2>2. /\ r.pc = "upload" /\ r.date = job[j].date /\ r.kind = k /\ r.file = f + 1
        /\ r.beside = job[j].beside
    BY DEF JobsOK, Run
  <2>3. f + 1 \in Files(k)
    BY <1>0, <1>1, FilesFacts DEF Files
  <2>4. JobOK(r)
    BY <2>2, <2>3, <1>0 DEF JobsOK, JobOK, Run
  <2> HIDE DEF r
  <2> QED
    BY <1>1, <2>1, <2>2, <2>4, BecomesType
<1>2. CASE /\ f = Size[k] /\ k = "qdata"
           /\ job' = [job EXCEPT ![j].pc = "bucket", ![j].kind = "model", ![j].file = 1]
  <2> DEFINE r == [job[j] EXCEPT !.pc = "bucket", !.kind = "model", !.file = 1]
  <2>1. Becomes(j, r)
    BY <1>2 DEF Becomes, JobsOK, Run
  <2>2. /\ r.pc = "bucket" /\ r.date = job[j].date /\ r.kind = "model" /\ r.file = 1
        /\ r.beside = job[j].beside
    BY DEF JobsOK, Run
  <2>4. JobOK(r)
    <3>1. job[j] \in Run
      BY DEF JobsOK
    <3>2. /\ "model" \in Kinds /\ 1 \in Nat
          /\ "bucket" \in Running /\ "bucket" \in Running \cup {"idle", "done", "killed"}
      BY FilesFacts DEF Running, Publishing
    <3>3. r \in Run
      BY <3>1, <3>2, MovedRun
    <3> HIDE DEF r
    <3> QED
      BY <2>2, <3>2, <3>3, <1>0, FilesFacts DEF JobOK
  <2> HIDE DEF r
  <2> QED
    BY <1>2, <2>1, <2>2, <2>4, BecomesType
<1>3. CASE /\ f = Size[k] /\ k = "model"
           /\ job' = [job EXCEPT ![j].pc = "put", ![j].kind = "qdata", ![j].file = 1]
  <2> DEFINE r == [job[j] EXCEPT !.pc = "put", !.kind = "qdata", !.file = 1]
  <2>1. Becomes(j, r)
    BY <1>3 DEF Becomes, JobsOK, Run
  <2>2. /\ r.pc = "put" /\ r.date = job[j].date /\ r.kind = "qdata" /\ r.file = 1
        /\ r.beside = job[j].beside
    BY DEF JobsOK, Run
  <2>4. JobOK(r)
    <3>1. job[j] \in Run
      BY DEF JobsOK
    <3>2. /\ "qdata" \in Kinds /\ 1 \in Nat
          /\ "put" \in Running /\ "put" \in Running \cup {"idle", "done", "killed"}
      BY FilesFacts DEF Running, Publishing
    <3>3. r \in Run
      BY <3>1, <3>2, MovedRun
    <3> HIDE DEF r
    <3> QED
      BY <2>2, <3>2, <3>3, <1>0, FilesFacts DEF JobOK
  <2> HIDE DEF r
  <2> QED
    BY <1>3, <2>1, <2>2, <2>4, BecomesType
<1> QED
  BY <1>1, <1>2, <1>3 DEF UploadReturns

\* After LATEST of the provider data comes LATEST of the model.
LEMMA SwitchNextStep ==
  ASSUME JobsOK, NEW j \in Jobs, job[j].pc = "remove", SwitchNext(j)
  PROVE  /\ JobsOK'
         /\ \A i \in Jobs : i # j => job'[i] = job[i]
         /\ job'[j].date = job[j].date /\ job'[j].beside = job[j].beside
         /\ \/ job[j].kind = "qdata" /\ job'[j].kind = "model" /\ job'[j].pc = "put"
            \/ job[j].kind = "model" /\ job'[j].pc = "done"
<1>1. CASE /\ job[j].kind = "qdata"
           /\ job' = [job EXCEPT ![j].pc = "put", ![j].kind = "model"]
  <2> DEFINE r == [job[j] EXCEPT !.pc = "put", !.kind = "model"]
  <2>1. Becomes(j, r)
    BY <1>1 DEF Becomes, JobsOK, Run
  <2>2. /\ r.pc = "put" /\ r.date = job[j].date /\ r.kind = "model"
        /\ r.file = job[j].file /\ r.beside = job[j].beside
    BY DEF JobsOK, Run
  <2>3. JobOK(r)
    BY <2>2, <1>1, FilesFacts DEF JobsOK, JobOK, Running, Publishing, Run
  <2> HIDE DEF r
  <2> QED
    BY <1>1, <2>1, <2>2, <2>3, BecomesType
<1>2. CASE job[j].kind = "model" /\ Exit(j, 0)
  BY <1>2, ExitStep
<1> QED
  BY <1>1, <1>2 DEF SwitchNext

-----------------------------------------------------------------------------
(* What no step undoes.                                                    *)

\* The date a build starts with.
LEMMA StartDate ==
  ASSUME TypeOK, NEW j \in Jobs, StartBuild(j)
  PROVE  /\ job[j].pc = "idle"
         /\ \E d \in Dates : Starts(j, d)
  BY PublishAssumption DEF StartBuild, MayStart, TypeOK, Starts

\* Every step of a run changes that run alone and keeps its date, except the
\* start of the build, which gives it one.
LEMMA JobChanges ==
  ASSUME TypeOK, NEW j \in Jobs, JobStep(j)
  PROVE  /\ JobsOK'
         /\ \A i \in Jobs : i # j => job'[i] = job[i]
         /\ job[j].pc # "idle" => job'[j].date = job[j].date
         /\ job'[j].pc # "idle"
         /\ \/ job'[j].beside = job[j].beside
            \/ job[j].pc = "idle" /\ job'[j].beside = AnotherRuns
<1> USE TypeJobs DEF Running, Publishing
<1>1. CASE Preflight(j)
  BY <1>1, ExitStep
     DEF Preflight, PreflightRefuses, PreflightLosesDb, PreflightOnly, MayStart
<1>2. CASE StartBuild(j)
  <2>1. PICK d \in Dates : Starts(j, d)
    BY <1>2, StartDate
  <2> QED
    BY <1>2, <2>1, StartDate, StartStep
<1>3. CASE Build(j)
  BY <1>3, GotoStep DEF Build
<1>4. CASE BuildFails(j)
  BY <1>4, ExitStep DEF BuildFails
<1>5. CASE CallFails(j)
  BY <1>5, RaiseStep DEF CallFails
<1>6. CASE CheckBucket(j)
  <2>1. PICK pc \in {"upload", "make"} : Goto(j, pc)
    BY <1>6 DEF CheckBucket
  <2> QED
    BY <1>6, <2>1, GotoStep DEF CheckBucket
<1>7. CASE MakeBucket(j)
  BY <1>7, GotoStep, RaiseStep DEF MakeBucket
<1>8. CASE MakeBucketRefused(j)
  BY <1>8, ExitStep DEF MakeBucketRefused
<1>9. CASE Upload(j)
  BY <1>9, UploadReturnsStep, RaiseStep DEF Upload
<1>10. CASE PutTmp(j)
  BY <1>10, GotoStep, RaiseStep DEF PutTmp
<1>11. CASE CopyLatest(j)
  BY <1>11, GotoStep, RaiseStep DEF CopyLatest
<1>12. CASE CopyFindsNothing(j)
  BY <1>12, ExitStep DEF CopyFindsNothing
<1>13. CASE RemoveTmp(j)
  BY <1>13, SwitchNextStep, RaiseStep DEF RemoveTmp
<1>14. CASE Kill(j)
  BY <1>14, GotoStep DEF Kill
<1> QED
  BY <1>1, <1>2, <1>3, <1>4, <1>5, <1>6, <1>7, <1>8, <1>9, <1>10, <1>11, <1>12,
     <1>13, <1>14 DEF JobStep, Publish

\* Once a run has a date it keeps it.
LEMMA DatesStay ==
  ASSUME TypeOK, Dated, [Next]_vars, NEW j \in Jobs, job[j].date \in Dates
  PROVE  job'[j].date = job[j].date
<1>1. job[j].pc # "idle"
  BY FilesFacts DEF Dated
<1>2. CASE \E i \in Jobs : JobStep(i)
  BY <1>1, <1>2, JobChanges
<1>3. CASE NewTradeDate \/ SyncStep \/ UNCHANGED vars
  BY <1>3 DEF NewTradeDate, SyncStep, ReadDataLatest, MirrorData, ReadModelLatest,
              MirrorModel, WriteLocalLatest, SyncStops, Predict, vars
<1> QED
  BY <1>2, <1>3 DEF Next

\* An upload writes one object, as its own.
LEMMA UploadObjects ==
  ASSUME TypeOK, NEW j \in Jobs, Upload(j)
  PROVE  /\ job[j].kind \in Kinds /\ job[j].date \in Dates
         /\ job[j].file \in Files(job[j].kind)
         /\ DOMAIN objects' = Kinds
         /\ \A k \in Kinds : objects'[k] \in [Dates -> [Files(k) -> Jobs \cup {Absent}]]
         /\ objects'[job[j].kind][job[j].date][job[j].file] = j
         /\ \A k \in Kinds, d \in Dates : \A f \in Files(k) :
              \/ objects'[k][d][f] = objects[k][d][f]
              \/ objects'[k][d][f] = j /\ d = job[j].date
<1> DEFINE k0 == job[j].kind
           d0 == job[j].date
           f0 == job[j].file
<1>1. k0 \in Kinds /\ d0 \in Dates /\ f0 \in Files(k0)
  BY DEF Upload, TypeOK, Running, Publishing
<1>2. objects' = [objects EXCEPT ![k0][d0][f0] = j]
  BY DEF Upload
<1>3. /\ DOMAIN objects = Kinds
      /\ \A k \in Kinds : objects[k] \in [Dates -> [Files(k) -> Jobs \cup {Absent}]]
  BY DEF TypeOK
<1> HIDE DEF k0, d0, f0
<1>4. /\ DOMAIN objects' = Kinds
      /\ objects'[k0] = [objects[k0] EXCEPT ![d0][f0] = j]
      /\ \A k \in Kinds : k # k0 => objects'[k] = objects[k]
  BY <1>1, <1>2, <1>3
<1>5. /\ objects'[k0] \in [Dates -> [Files(k0) -> Jobs \cup {Absent}]]
      /\ objects'[k0][d0][f0] = j
      /\ \A d \in Dates : \A f \in Files(k0) :
           <<d, f>> # <<d0, f0>> => objects'[k0][d][f] = objects[k0][d][f]
  BY <1>1, <1>3, <1>4
<1>6. ASSUME NEW k \in Kinds, NEW d \in Dates, NEW f \in Files(k)
      PROVE  \/ objects'[k][d][f] = objects[k][d][f]
             \/ objects'[k][d][f] = j /\ d = d0
  BY <1>4, <1>5
<1>7. \A k \in Kinds : objects'[k] \in [Dates -> [Files(k) -> Jobs \cup {Absent}]]
  BY <1>3, <1>4, <1>5
<1> USE DEF k0, d0, f0
<1> QED
  BY <1>1, <1>4, <1>5, <1>6, <1>7

\* An object is never removed, and is overwritten only by a run of its date.
LEMMA ObjectsStay ==
  ASSUME TypeOK, Dated, [Next]_vars,
         NEW k \in Kinds, NEW d \in Dates, NEW f \in Files(k)
  PROVE  /\ objects[k][d][f] # Absent => objects'[k][d][f] # Absent
         /\ objects'[k][d][f] # Absent => job'[objects'[k][d][f]].date = d
         /\ objects'[k][d][f] \in Jobs \cup {Absent}
<1>0. objects[k][d][f] \in Jobs \cup {Absent}
  BY DEF TypeOK
<1>4. objects[k][d][f] # Absent => job'[objects[k][d][f]].date = d
  BY <1>0, DatesStay DEF Dated, MadeFor
<1>1. CASE objects' = objects
  BY <1>0, <1>1, <1>4
<1>2. CASE \E j \in Jobs : Upload(j)
  <2>1. PICK j \in Jobs : Upload(j)
    BY <1>2
  <2>2. job'[j].date = job[j].date
    BY <2>1, UploadObjects, DatesStay
  <2>3. CASE objects'[k][d][f] = objects[k][d][f]
    BY <1>0, <1>4, <2>3
  <2>4. CASE objects'[k][d][f] = j /\ d = job[j].date
    BY <2>2, <2>4, PublishAssumption
  <2> QED
    BY <2>1, <2>3, <2>4, UploadObjects
<1>3. objects' = objects \/ \E j \in Jobs : Upload(j)
  BY DEF Next, NewTradeDate, SyncStep, ReadDataLatest, MirrorData, ReadModelLatest,
         MirrorModel, WriteLocalLatest, SyncStops, Predict, JobStep, Preflight,
         PreflightRefuses, PreflightLosesDb, PreflightOnly, StartBuild, Build,
         BuildFails, Publish, CheckBucket, MakeBucket, MakeBucketRefused, PutTmp,
         CopyLatest, CopyFindsNothing, RemoveTmp, CallFails, Kill, store, vars
<1> QED
  BY <1>1, <1>2, <1>3

LEMMA FullStays ==
  ASSUME TypeOK, Dated, [Next]_vars
  PROVE  \A k \in Kinds, d \in Dates :
           Full(k, d) => \A f \in Files(k) : objects'[k][d][f] # Absent
  BY ObjectsStay DEF Full

LEMMA DatedStep ==
  ASSUME TypeOK, Dated, [Next]_vars PROVE Dated'
<1>1. \A j \in Jobs : job'[j].pc = "idle" => job'[j] = job[j]
  <2>1. CASE \E i \in Jobs : JobStep(i)
    BY <2>1, JobChanges
  <2>2. CASE NewTradeDate \/ SyncStep \/ UNCHANGED vars
    BY <2>2 DEF NewTradeDate, SyncStep, ReadDataLatest, MirrorData, ReadModelLatest,
                MirrorModel, WriteLocalLatest, SyncStops, Predict, vars
  <2> QED
    BY <2>1, <2>2 DEF Next
<1>2. \A k \in Kinds, d \in Dates : \A f \in Files(k) :
        objects'[k][d][f] # Absent => job'[objects'[k][d][f]].date = d
  BY ObjectsStay
<1> QED
  BY <1>1, <1>2 DEF Dated, MadeFor

-----------------------------------------------------------------------------
(* The uploads of a run.                                                   *)

\* A run that does not change what it uploads next loses nothing.
LEMMA UploadedStays ==
  ASSUME TypeOK, Dated, [Next]_vars, NEW j \in Jobs, UploadedBy(j),
         job'[j].date = job[j].date, job'[j].kind = job[j].kind,
         job'[j].file = job[j].file,
         \/ job'[j].pc = job[j].pc
         \/ job[j].pc \in {"bucket", "make"} /\ job'[j].pc \in {"make", "upload"}
         \/ job[j].pc \in {"put", "copy", "remove"} /\ job'[j].pc \in {"put", "copy", "remove"}
  PROVE  UploadedBy(j)'
<1> DEFINE k == job[j].kind
           d == job[j].date
<1>1. CASE job[j].pc \in {"put", "copy", "remove"}
  <2>1. d \in Dates
    BY <1>1 DEF TypeOK, Running, Publishing
  <2>2. \A kk \in Kinds : \A f \in Files(kk) : objects'[kk][d][f] # Absent
    BY <1>1, <2>1, FullStays DEF UploadedBy
  <2> QED
    BY <1>1, <2>2 DEF UploadedBy, Full
<1>2. CASE job[j].pc \in {"bucket", "make", "upload"}
  <2>1. d \in Dates /\ k \in Kinds
    BY <1>2 DEF TypeOK, Running, Publishing
  <2>2. k = "model" => \A f \in Files("qdata") : objects'["qdata"][d][f] # Absent
    BY <1>2, <2>1, FullStays, FilesFacts DEF UploadedBy
  <2>3. \A f \in Files(k) : f < job[j].file => objects'[k][d][f] # Absent
    <3>1. SUFFICES ASSUME NEW f \in Files(k), f < job[j].file
                   PROVE  objects'[k][d][f] # Absent
      OBVIOUS
    <3>2. objects[k][d][f] # Absent
      BY <1>2, <3>1 DEF UploadedBy
    <3>3. \A kk \in Kinds, dd \in Dates : \A ff \in Files(kk) :
            objects[kk][dd][ff] # Absent => objects'[kk][dd][ff] # Absent
      BY ObjectsStay
    <3> QED
      BY <2>1, <3>1, <3>2, <3>3
  <2> QED
    BY <1>2, <2>2, <2>3 DEF UploadedBy, Full
<1>3. CASE job[j].pc \notin {"put", "copy", "remove", "bucket", "make", "upload"}
  BY <1>3 DEF UploadedBy
<1> QED
  BY <1>1, <1>2, <1>3

\* The upload of the next file, in the order of the listing.
LEMMA UploadNext ==
  ASSUME TypeOK, Dated, [Next]_vars, NEW j \in Jobs, UploadedBy(j),
         Upload(j), UploadReturns(j)
  PROVE  UploadedBy(j)'
<1> DEFINE k == job[j].kind
           d == job[j].date
           n == job[j].file
<1>1. /\ k \in Kinds /\ d \in Dates /\ n \in Files(k) /\ n \in Nat
      /\ job[j].pc = "upload" /\ job'[j].date = d
      /\ objects'[k][d][n] # Absent
  <2>1. job[j].pc = "upload"
    BY DEF Upload
  <2>2. job'[j].date = d
    BY <2>1, UploadReturnsStep, TypeJobs
  <2>3. k \in Kinds /\ d \in Dates /\ n \in Files(k) /\ objects'[k][d][n] = j
    BY UploadObjects
  <2> HIDE DEF k, d, n
  <2> QED
    BY <2>1, <2>2, <2>3, FilesFacts, PublishAssumption
<1>2. ASSUME NEW f \in Files(k), f < n + 1
      PROVE  objects'[k][d][f] # Absent
  <2>1. CASE f = n
    BY <1>1, <2>1
  <2>2. CASE f < n
    <3>1. objects[k][d][f] # Absent
      BY <1>1, <2>2 DEF UploadedBy
    <3>2. \A kk \in Kinds, dd \in Dates : \A ff \in Files(kk) :
            objects[kk][dd][ff] # Absent => objects'[kk][dd][ff] # Absent
      BY ObjectsStay
    <3> QED
      BY <1>1, <3>1, <3>2
  <2> QED
    BY <1>1, <1>2, <2>1, <2>2, FilesFacts
<1>3. k = "model" => \A f \in Files("qdata") : objects'["qdata"][d][f] # Absent
  BY <1>1, FullStays, FilesFacts DEF UploadedBy
<1>4. CASE /\ n < Size[k] /\ job'[j].pc = "upload"
           /\ job'[j].kind = k /\ job'[j].file = n + 1
  BY <1>1, <1>2, <1>3, <1>4 DEF UploadedBy, Full
<1>5. CASE /\ n = Size[k] /\ job'[j].file = 1 /\ k = "qdata"
           /\ job'[j].kind = "model" /\ job'[j].pc = "bucket"
  <2>1. \A f \in Files("qdata") : objects'["qdata"][d][f] # Absent
    BY <1>1, <1>2, <1>5, FilesFacts
  <2>2. \A f \in Files("model") : ~ (f < 1)
    BY FilesFacts
  <2> QED
    BY <1>1, <1>5, <2>1, <2>2 DEF UploadedBy, Full
<1>6. CASE n = Size[k] /\ k = "model" /\ job'[j].kind = "qdata" /\ job'[j].pc = "put"
  <2>1. \A f \in Files("model") : objects'["model"][d][f] # Absent
    BY <1>1, <1>2, <1>6, FilesFacts
  <2> QED
    BY <1>1, <1>3, <1>6, <2>1, FilesFacts DEF UploadedBy, Full
<1> QED
  BY <1>1, <1>4, <1>5, <1>6, UploadReturnsStep, TypeJobs

\* A run that is over has nothing to keep.
LEMMA UploadedOver ==
  ASSUME NEW j \in Jobs, job'[j].pc \in {"done", "killed"}
  PROVE  UploadedBy(j)'
  BY DEF UploadedBy

LEMMA UploadedByStep ==
  ASSUME TypeOK, Dated, [Next]_vars, NEW j \in Jobs, UploadedBy(j), JobStep(j)
  PROVE  UploadedBy(j)'
<1> USE TypeJobs DEF Running, Publishing
<1>1. CASE Preflight(j)
  BY <1>1, ExitStep, UploadedOver
     DEF Preflight, PreflightRefuses, PreflightLosesDb, PreflightOnly
<1>2. CASE StartBuild(j)
  <2>1. PICK d \in Dates : Starts(j, d)
    BY <1>2, StartDate
  <2> QED
    BY <1>2, <2>1, StartDate, StartStep DEF UploadedBy
<1>3. CASE Build(j)
  <2>1. /\ job[j].kind = "qdata" /\ job[j].file = 1
        /\ job'[j].pc = "bucket" /\ job'[j].kind = "qdata" /\ job'[j].file = 1
    BY <1>3, GotoStep DEF Build, UploadedBy
  <2>2. \A f \in Files("qdata") : ~ (f < 1)
    BY FilesFacts
  <2> QED
    BY <2>1, <2>2 DEF UploadedBy
<1>4. CASE BuildFails(j)
  BY <1>4, ExitStep, UploadedOver DEF BuildFails
<1>5. CASE CallFails(j)
  BY <1>5, RaiseStep, UploadedOver DEF CallFails
<1>6. CASE CheckBucket(j)
  <2>1. PICK pc \in {"upload", "make"} : Goto(j, pc)
    BY <1>6 DEF CheckBucket
  <2> QED
    BY <1>6, <2>1, GotoStep, UploadedStays DEF CheckBucket
<1>7. CASE MakeBucket(j)
  BY <1>7, GotoStep, RaiseStep, UploadedStays, UploadedOver DEF MakeBucket
<1>8. CASE MakeBucketRefused(j)
  BY <1>8, ExitStep, UploadedOver DEF MakeBucketRefused
<1>9. CASE Upload(j)
  BY <1>9, UploadNext, RaiseStep, UploadedOver DEF Upload
<1>10. CASE PutTmp(j)
  BY <1>10, GotoStep, RaiseStep, UploadedStays, UploadedOver DEF PutTmp
<1>11. CASE CopyLatest(j)
  BY <1>11, GotoStep, RaiseStep, UploadedStays, UploadedOver DEF CopyLatest
<1>12. CASE CopyFindsNothing(j)
  BY <1>12, ExitStep, UploadedOver DEF CopyFindsNothing
<1>13. CASE RemoveTmp(j)
  <2>1. CASE Raise(j)
    BY <2>1, RaiseStep, UploadedOver
  <2>2. CASE SwitchNext(j)
    <3>1. CASE job'[j].pc = "done"
      BY <3>1, UploadedOver
    <3>2. CASE job'[j].pc = "put"
      <4>1. job[j].date \in Dates /\ job'[j].date = job[j].date
        BY <1>13, <2>2, SwitchNextStep DEF RemoveTmp, TypeOK
      <4>2. \A k \in Kinds : \A f \in Files(k) : objects'[k][job[j].date][f] # Absent
        BY <1>13, <4>1, FullStays DEF RemoveTmp, UploadedBy
      <4> QED
        BY <3>2, <4>1, <4>2 DEF UploadedBy, Full
    <3> QED
      BY <1>13, <2>2, <3>1, <3>2, SwitchNextStep DEF RemoveTmp
  <2> QED
    BY <1>13, <2>1, <2>2 DEF RemoveTmp
<1>14. CASE Kill(j)
  BY <1>14, GotoStep, UploadedOver DEF Kill
<1> QED
  BY <1>1, <1>2, <1>3, <1>4, <1>5, <1>6, <1>7, <1>8, <1>9, <1>10, <1>11, <1>12,
     <1>13, <1>14 DEF JobStep, Publish

LEMMA UploadedStep ==
  ASSUME TypeOK, Dated, Uploaded, [Next]_vars PROVE Uploaded'
<1> SUFFICES ASSUME NEW j \in Jobs PROVE UploadedBy(j)'
  BY DEF Uploaded
<1>1. CASE JobStep(j)
  BY <1>1, UploadedByStep DEF Uploaded
<1>2. CASE \E i \in Jobs : i # j /\ JobStep(i)
  BY <1>2, JobChanges, UploadedStays DEF Uploaded
<1>3. CASE NewTradeDate \/ SyncStep \/ UNCHANGED vars
  <2>1. job' = job
    BY <1>3 DEF NewTradeDate, SyncStep, ReadDataLatest, MirrorData, ReadModelLatest,
                MirrorModel, WriteLocalLatest, SyncStops, Predict, vars
  <2> QED
    BY <2>1, UploadedStays DEF Uploaded
<1> QED
  BY <1>1, <1>2, <1>3 DEF Next

-----------------------------------------------------------------------------
(* The init container.                                                     *)

SyncOK ==
  /\ sync \in [pc : {"idle", "qdata", "model", "ready"},
               qdata : Dates \cup {NoDate}, model : Dates \cup {NoDate},
               todo : SUBSET (Files("qdata") \cup Files("model"))]
  /\ local \in [latest : Dates \cup {NoDate},
                qdata : [Files("qdata") -> Jobs \cup {Absent}],
                model : [Dates -> [Files("model") -> Jobs \cup {Absent}]]]

LEMMA ReadDataLatestStep ==
  ASSUME TypeOK, LatestComplete, Copied, ReadDataLatest
  PROVE  SyncOK' /\ Copied'
<1>1. latest["qdata"] \in Dates /\ Full("qdata", latest["qdata"])
  BY FilesFacts DEF ReadDataLatest, TypeOK, LatestComplete
<1>2. SyncOK'
  BY FilesFacts DEF ReadDataLatest, TypeOK, SyncOK
<1>3. /\ sync'.pc = "qdata" /\ sync'.qdata = latest["qdata"]
      /\ sync'.todo = Files("qdata") /\ objects' = objects
  BY DEF ReadDataLatest, store
<1> QED
  BY <1>1, <1>2, <1>3 DEF Copied, Full

LEMMA MirrorDataStep ==
  ASSUME TypeOK, Dated, Copied, MirrorData
  PROVE  SyncOK' /\ Copied'
<1> USE FilesFacts
<1>1. /\ sync.pc = "qdata" /\ sync.qdata \in Dates /\ Full("qdata", sync.qdata)
      /\ sync.todo \subseteq Files("qdata")
      /\ objects' = objects /\ job' = job
  BY DEF MirrorData, Copied, store
<1>2. PICK f \in sync.todo :
        /\ local' = [local EXCEPT !.qdata[f] = objects["qdata"][sync.qdata][f]]
        /\ sync' = [sync EXCEPT !.todo = @ \ {f}]
  BY DEF MirrorData
<1> DEFINE c == objects["qdata"][sync.qdata][f]
<1>3. f \in Files("qdata") /\ c \in Jobs \cup {Absent} /\ MadeFor(c, sync.qdata)
  BY <1>1, <1>2 DEF TypeOK, Dated, Full
<1>4. SyncOK
  BY DEF TypeOK, SyncOK
<1>5. /\ sync' \in [pc : {"idle", "qdata", "model", "ready"},
               qdata : Dates \cup {NoDate}, model : Dates \cup {NoDate},
               todo : SUBSET (Files("qdata") \cup Files("model"))]
      /\ sync'.pc = "qdata" /\ sync'.qdata = sync.qdata
      /\ sync'.todo = sync.todo \ {f}
  BY <1>1, <1>2, <1>4 DEF SyncOK
<1>6. /\ local' = [local EXCEPT !.qdata = [local.qdata EXCEPT ![f] = c]]
      /\ local.qdata \in [Files("qdata") -> Jobs \cup {Absent}]
  BY <1>2, <1>4 DEF SyncOK
<1> HIDE DEF c
<1>7. /\ local' \in [latest : Dates \cup {NoDate},
                qdata : [Files("qdata") -> Jobs \cup {Absent}],
                model : [Dates -> [Files("model") -> Jobs \cup {Absent}]]]
      /\ local'.qdata = [local.qdata EXCEPT ![f] = c]
  BY <1>3, <1>4, <1>6 DEF SyncOK
<1>8. ASSUME NEW g \in Files("qdata"), g \notin sync'.todo
      PROVE  local'.qdata[g] # Absent /\ job[local'.qdata[g]].date = sync.qdata
  BY <1>1, <1>3, <1>5, <1>6, <1>7, <1>8 DEF Copied, MadeFor
<1> QED
  BY <1>1, <1>5, <1>7, <1>8 DEF SyncOK, Copied, MadeFor, Full

LEMMA ReadModelLatestStep ==
  ASSUME TypeOK, LatestComplete, Copied, ReadModelLatest
  PROVE  SyncOK' /\ Copied'
<1> USE FilesFacts
<1>1. latest["model"] \in Dates /\ Full("model", latest["model"])
  BY DEF ReadModelLatest, TypeOK, LatestComplete
<1>2. SyncOK'
  BY DEF ReadModelLatest, TypeOK, SyncOK
<1>3. /\ sync.pc = "qdata" /\ sync.todo = {}
      /\ sync'.pc = "model" /\ sync'.model = latest["model"]
      /\ sync'.qdata = sync.qdata /\ sync'.todo = Files("model")
      /\ objects' = objects /\ job' = job /\ local' = local
  BY DEF ReadModelLatest, TypeOK, store
<1> QED
  BY <1>1, <1>2, <1>3 DEF Copied, Full, MadeFor

LEMMA MirrorModelStep ==
  ASSUME TypeOK, Dated, Copied, MirrorModel
  PROVE  SyncOK' /\ Copied'
<1> USE FilesFacts
<1>1. /\ sync.pc = "model" /\ sync.model \in Dates /\ Full("model", sync.model)
      /\ sync.qdata \in Dates /\ sync.todo \subseteq Files("model")
      /\ objects' = objects /\ job' = job
  BY DEF MirrorModel, Copied, store
<1>2. PICK f \in sync.todo :
        /\ local' = [local EXCEPT
                       !.model[sync.model][f] = objects["model"][sync.model][f]]
        /\ sync' = [sync EXCEPT !.todo = @ \ {f}]
  BY DEF MirrorModel
<1> DEFINE c == objects["model"][sync.model][f]
           m == sync.model
           dir == [local.model[m] EXCEPT ![f] = c]
<1>3. f \in Files("model") /\ c \in Jobs \cup {Absent} /\ MadeFor(c, m)
  BY <1>1, <1>2 DEF TypeOK, Dated, Full
<1>4. SyncOK
  BY DEF TypeOK, SyncOK
<1>5. /\ sync' \in [pc : {"idle", "qdata", "model", "ready"},
               qdata : Dates \cup {NoDate}, model : Dates \cup {NoDate},
               todo : SUBSET (Files("qdata") \cup Files("model"))]
      /\ sync'.pc = "model" /\ sync'.qdata = sync.qdata /\ sync'.model = m
      /\ sync'.todo = sync.todo \ {f}
  BY <1>1, <1>2, <1>4 DEF SyncOK
<1>6. /\ local' = [local EXCEPT !.model = [local.model EXCEPT ![m] = dir]]
      /\ local.model \in [Dates -> [Files("model") -> Jobs \cup {Absent}]]
  BY <1>2, <1>4 DEF SyncOK
<1> HIDE DEF c
<1>7. /\ dir \in [Files("model") -> Jobs \cup {Absent}]
      /\ dir[f] = c
      /\ \A g \in Files("model") : g # f => dir[g] = local.model[m][g]
  BY <1>1, <1>3, <1>6
<1> HIDE DEF dir
<1>8. /\ local' \in [latest : Dates \cup {NoDate},
                qdata : [Files("qdata") -> Jobs \cup {Absent}],
                model : [Dates -> [Files("model") -> Jobs \cup {Absent}]]]
      /\ local'.model[m] = dir /\ local'.qdata = local.qdata
  BY <1>1, <1>4, <1>6, <1>7 DEF SyncOK
<1>9. ASSUME NEW g \in Files("model"), g \notin sync'.todo
      PROVE  local'.model[m][g] # Absent /\ job[local'.model[m][g]].date = m
  <2>1. CASE g = f
    BY <1>3, <1>7, <1>8, <2>1 DEF MadeFor
  <2>2. CASE g # f
    <3>1. g \notin sync.todo
      BY <1>5, <1>9, <2>2
    <3>2. MadeFor(local.model[m][g], m)
      BY <1>1, <3>1 DEF Copied
    <3> QED
      BY <1>7, <1>8, <2>2, <3>2 DEF MadeFor
  <2> QED
    BY <2>1, <2>2
<1>10. \A g \in Files("qdata") : MadeFor(local.qdata[g], sync.qdata)
  BY <1>1 DEF Copied
<1> QED
  BY <1>1, <1>5, <1>8, <1>9, <1>10 DEF SyncOK, Copied, MadeFor, Full

LEMMA WriteLocalLatestStep ==
  ASSUME TypeOK, Copied, WriteLocalLatest
  PROVE  SyncOK' /\ Copied'
<1> USE FilesFacts
<1>1. SyncOK'
  BY DEF WriteLocalLatest, TypeOK, SyncOK
<1>2. /\ sync.pc = "model" /\ sync.todo = {}
      /\ sync'.pc = "ready" /\ sync'.qdata = sync.qdata
      /\ local'.latest = sync.model /\ local'.qdata = local.qdata
      /\ local'.model = local.model /\ job' = job
  BY DEF WriteLocalLatest, TypeOK
<1> QED
  BY <1>1, <1>2 DEF Copied, MadeFor

LEMMA SyncBackToIdle ==
  ASSUME TypeOK, SyncStops \/ Predict
  PROVE  SyncOK' /\ Copied'
  BY DEF SyncStops, Predict, TypeOK, SyncOK, Copied

\* A step of a bootstrap run does not take back what has been copied.
LEMMA CopiedStays ==
  ASSUME TypeOK, Dated, Copied, [Next]_vars, UNCHANGED reader
  PROVE  SyncOK' /\ Copied'
<1> USE FilesFacts
<1>1. SyncOK /\ SyncOK'
  BY DEF TypeOK, SyncOK, reader
<1>2. ASSUME NEW d \in Dates, NEW c \in Jobs \cup {Absent}, MadeFor(c, d)
      PROVE  c # Absent /\ job'[c].date = d
  BY <1>2, DatesStay DEF MadeFor
<1>3. sync' = sync /\ local' = local
  BY DEF reader
<1>4. CASE sync.pc = "qdata"
  <2>1. sync.qdata \in Dates /\ \A f \in Files("qdata") : objects'["qdata"][sync.qdata][f] # Absent
    BY <1>4, FullStays DEF Copied
  <2>2. \A f \in Files("qdata") : f \notin sync.todo =>
          local.qdata[f] # Absent /\ job'[local.qdata[f]].date = sync.qdata
    BY <1>1, <1>2, <1>4, <2>1 DEF Copied, SyncOK
  <2> QED
    BY <1>1, <1>3, <1>4, <2>1, <2>2 DEF Copied, MadeFor, Full
<1>5. ASSUME sync.pc \in {"model", "ready"}, NEW f \in Files("qdata")
      PROVE  local.qdata[f] # Absent /\ job'[local.qdata[f]].date = sync.qdata
  BY <1>1, <1>2, <1>5 DEF Copied, SyncOK
<1>6. CASE sync.pc = "model"
  <2>1. sync.model \in Dates /\ \A f \in Files("model") : objects'["model"][sync.model][f] # Absent
    BY <1>6, FullStays DEF Copied
  <2>2. \A f \in Files("model") : f \notin sync.todo =>
          /\ local.model[sync.model][f] # Absent
          /\ job'[local.model[sync.model][f]].date = sync.model
    BY <1>1, <1>2, <1>6, <2>1 DEF Copied, SyncOK
  <2> QED
    BY <1>1, <1>3, <1>5, <1>6, <2>1, <2>2 DEF Copied, MadeFor, Full
<1>7. CASE sync.pc = "ready"
  <2>1. local.latest \in Dates
    BY <1>7 DEF Copied
  <2>2. \A f \in Files("model") :
          /\ local.model[local.latest][f] # Absent
          /\ job'[local.model[local.latest][f]].date = local.latest
    BY <1>1, <1>2, <1>7, <2>1 DEF Copied, SyncOK
  <2> QED
    BY <1>1, <1>3, <1>5, <1>7, <2>1, <2>2 DEF Copied, MadeFor
<1>8. CASE sync.pc = "idle"
  BY <1>1, <1>3, <1>8 DEF Copied
<1> QED
  BY <1>1, <1>4, <1>6, <1>7, <1>8 DEF SyncOK

LEMMA CopiedStep ==
  ASSUME TypeOK, Dated, LatestComplete, Copied, [Next]_vars
  PROVE  SyncOK' /\ Copied'
<1>1. CASE SyncStep
  BY <1>1, ReadDataLatestStep, MirrorDataStep, ReadModelLatestStep, MirrorModelStep,
     WriteLocalLatestStep, SyncBackToIdle DEF SyncStep
<1>2. CASE ~SyncStep
  <2>1. UNCHANGED reader
    BY <1>2 DEF Next, NewTradeDate, JobStep, Preflight,
         PreflightRefuses, PreflightLosesDb, PreflightOnly, StartBuild, Build,
         BuildFails, Publish, CheckBucket, MakeBucket, MakeBucketRefused, Upload, PutTmp,
         CopyLatest, CopyFindsNothing, RemoveTmp, CallFails, Kill, vars
  <2> QED
    BY <2>1, CopiedStays
<1> QED
  BY <1>1, <1>2

-----------------------------------------------------------------------------
(* The pointers.                                                           *)

\* The steps that write LATEST.tmp and LATEST.
LEMMA PointersChange ==
  ASSUME [Next]_vars
  PROVE  /\ tmp' = tmp \/ \E j \in Jobs : PutTmp(j) \/ RemoveTmp(j)
         /\ latest' = latest \/ \E j \in Jobs : CopyLatest(j)
  BY DEF Next, NewTradeDate, SyncStep, ReadDataLatest, MirrorData, ReadModelLatest,
         MirrorModel, WriteLocalLatest, SyncStops, Predict, JobStep, Preflight,
         PreflightRefuses, PreflightLosesDb, PreflightOnly, StartBuild, Build,
         BuildFails, Publish, CheckBucket, MakeBucket, MakeBucketRefused, Upload, PutTmp,
         CopyLatest, CopyFindsNothing, RemoveTmp, CallFails, Kill, store, vars

LEMMA TmpStep ==
  ASSUME TypeOK, Dated, Uploaded, TmpComplete, [Next]_vars
  PROVE  tmp' \in [Kinds -> Dates \cup {NoDate}] /\ TmpComplete'
<1> USE FilesFacts
<1>1. \A k \in Kinds : tmp'[k] # NoDate =>
        tmp'[k] \in Dates /\ \A both \in Kinds : Full(both, tmp'[k])
  <2>1. CASE tmp' = tmp
    BY <2>1 DEF TypeOK, TmpComplete
  <2>2. CASE \E j \in Jobs : PutTmp(j)
    BY <2>2 DEF PutTmp, TypeOK, TmpComplete, Uploaded, UploadedBy, Running, Publishing
  <2>3. CASE \E j \in Jobs : RemoveTmp(j)
    BY <2>3 DEF RemoveTmp, TypeOK, TmpComplete
  <2> QED
    BY <2>1, <2>2, <2>3, PointersChange
<1>2. tmp' \in [Kinds -> Dates \cup {NoDate}]
  <2>1. CASE tmp' = tmp
    BY <2>1 DEF TypeOK
  <2>2. CASE \E j \in Jobs : PutTmp(j)
    BY <2>2 DEF PutTmp, TypeOK
  <2>3. CASE \E j \in Jobs : RemoveTmp(j)
    BY <2>3 DEF RemoveTmp, TypeOK
  <2> QED
    BY <2>1, <2>2, <2>3, PointersChange
<1> QED
  BY <1>1, <1>2, FullStays DEF TmpComplete, Full

LEMMA LatestStep ==
  ASSUME TypeOK, Dated, TmpComplete, LatestComplete, [Next]_vars
  PROVE  latest' \in [Kinds -> Dates \cup {NoDate}] /\ LatestComplete'
<1> USE FilesFacts
<1>1. \A k \in Kinds : latest'[k] # NoDate =>
        latest'[k] \in Dates /\ \A both \in Kinds : Full(both, latest'[k])
  <2>1. CASE latest' = latest
    BY <2>1 DEF TypeOK, LatestComplete
  <2>2. CASE \E j \in Jobs : CopyLatest(j)
    BY <2>2 DEF CopyLatest, TypeOK, TmpComplete, LatestComplete
  <2> QED
    BY <2>1, <2>2, PointersChange
<1>2. latest' \in [Kinds -> Dates \cup {NoDate}]
  <2>1. CASE latest' = latest
    BY <2>1 DEF TypeOK
  <2>2. CASE \E j \in Jobs : CopyLatest(j)
    BY <2>2 DEF CopyLatest, TypeOK
  <2> QED
    BY <2>1, <2>2, PointersChange
<1> QED
  BY <1>1, <1>2, FullStays DEF LatestComplete, Full

LEMMA TypeStep ==
  ASSUME IInv, [Next]_vars PROVE TypeOK'
<1> USE FilesFacts DEF IInv
<1>1. JobsOK'
  <2>1. CASE \E j \in Jobs : JobStep(j)
    BY <2>1, JobChanges
  <2>2. CASE NewTradeDate \/ SyncStep \/ UNCHANGED vars
    <3>1. job' = job
      BY <2>2 DEF NewTradeDate, SyncStep, ReadDataLatest, MirrorData, ReadModelLatest,
                  MirrorModel, WriteLocalLatest, SyncStops, Predict, vars
    <3> QED
      BY <3>1, TypeJobs DEF JobsOK, JobOK
  <2> QED
    BY <2>1, <2>2 DEF Next
<1>2. tradeDate' \in Dates \cup {NoDate} /\ bucket' \in BOOLEAN
  <2>1. CASE NewTradeDate
    BY <2>1, PublishAssumption DEF NewTradeDate, TypeOK, Dates, NoDate, store
  <2>2. CASE ~NewTradeDate
    BY <2>2 DEF TypeOK, Next, SyncStep, ReadDataLatest, MirrorData, ReadModelLatest,
         MirrorModel, WriteLocalLatest, SyncStops, Predict, JobStep, Preflight,
         PreflightRefuses, PreflightLosesDb, PreflightOnly, StartBuild, Build,
         BuildFails, Publish, CheckBucket, MakeBucket, MakeBucketRefused, Upload, PutTmp,
         CopyLatest, CopyFindsNothing, RemoveTmp, CallFails, Kill, store, vars
  <2> QED
    BY <2>1, <2>2
<1>3. /\ DOMAIN objects' = Kinds
      /\ \A k \in Kinds : objects'[k] \in [Dates -> [Files(k) -> Jobs \cup {Absent}]]
  <2>1. CASE \E j \in Jobs : Upload(j)
    BY <2>1, UploadObjects
  <2>2. CASE objects' = objects
    BY <2>2 DEF TypeOK
  <2>3. objects' = objects \/ \E j \in Jobs : Upload(j)
    BY DEF Next, NewTradeDate, SyncStep, ReadDataLatest, MirrorData, ReadModelLatest,
         MirrorModel, WriteLocalLatest, SyncStops, Predict, JobStep, Preflight,
         PreflightRefuses, PreflightLosesDb, PreflightOnly, StartBuild, Build,
         BuildFails, Publish, CheckBucket, MakeBucket, MakeBucketRefused, PutTmp,
         CopyLatest, CopyFindsNothing, RemoveTmp, CallFails, Kill, store, vars
  <2> QED
    BY <2>1, <2>2, <2>3
<1> QED
  BY <1>1, <1>2, <1>3, TmpStep, LatestStep, CopiedStep
     DEF TypeOK, JobsOK, JobOK, Run, SyncOK

\* The inductive invariant: what is stored under a date was made for it, a run
\* that writes LATEST.tmp has uploaded both directories, and the init container
\* has copied from complete directories.
THEOREM Inductive == Spec => []IInv
<1>1. IInv /\ [Next]_vars => IInv'
  <2> SUFFICES ASSUME IInv, [Next]_vars PROVE IInv'
    OBVIOUS
  <2> USE DEF IInv
  <2> QED
    BY TypeStep, DatedStep, UploadedStep, TmpStep, LatestStep, CopiedStep
<1> QED
  BY InitIInv, <1>1, PTL DEF Spec

\* Every run, file and pointer has its type.
THEOREM TypeCorrect == Spec => []TypeOK
<1>1. IInv => TypeOK
  BY DEF IInv
<1> QED
  BY <1>1, Inductive, PTL

\* Both directories of the date that LATEST names are complete, for any number
\* of runs that overlap, fail or are killed anywhere.
THEOREM LatestIsComplete == Spec => []LatestComplete
<1>1. IInv => LatestComplete
  BY DEF IInv
<1> QED
  BY <1>1, Inductive, PTL

\* What the predictor finds after a finished copy is whole and of one date.
THEOREM SyncIsWhole == Spec => []SyncedWhole
<1>1. IInv => SyncedWhole
  BY FilesFacts DEF IInv, Copied, SyncedWhole, Resolves, MadeFor
<1> QED
  BY <1>1, Inductive, PTL

-----------------------------------------------------------------------------
(* Runs that have not overlapped.                                          *)

\* Runs that have overlapped have overlapped for good.
LEMMA AloneBefore ==
  ASSUME TypeOK, Dated, [Next]_vars, Alone'
  PROVE  Alone
<1>1. CASE \E j \in Jobs : JobStep(j)
  BY <1>1, JobChanges DEF Alone, Dated
<1>2. CASE NewTradeDate \/ SyncStep \/ UNCHANGED vars
  <2>1. job' = job
    BY <1>2 DEF NewTradeDate, SyncStep, ReadDataLatest, MirrorData, ReadModelLatest,
                MirrorModel, WriteLocalLatest, SyncStops, Predict, vars
  <2> QED
    BY <2>1 DEF Alone
<1> QED
  BY <1>1, <1>2 DEF Next

\* Where a run is in the switch of the two LATEST objects, nobody else is.
Switching(j) ==
  /\ job[j].pc = "copy" => tmp[job[j].kind] = job[j].date
  /\ job[j].pc = "remove" => latest[job[j].kind] = job[j].date
  /\ job[j].pc \in {"put", "copy", "remove"} /\ job[j].kind = "model"
       => latest["qdata"] = job[j].date

Serial ==
  /\ \A i, j \in Jobs : job[i].pc \in Running /\ job[j].pc \in Running => i = j
  /\ \A j \in Jobs : Switching(j)

\* Only a run that was going on, or that starts alone, goes on.
LEMMA OneRuns ==
  ASSUME TypeOK, Serial, [Next]_vars, Alone'
  PROVE  \A i, j \in Jobs : job'[i].pc \in Running /\ job'[j].pc \in Running => i = j
<1>1. ASSUME NEW j \in Jobs, JobStep(j)
      PROVE  \/ job[j].pc \in Running
             \/ job'[j].pc \notin Running
             \/ \A i \in Jobs : job[i].pc \notin Running
  <2>1. CASE Preflight(j)
    BY <2>1, TypeJobs, ExitStep
       DEF Preflight, PreflightRefuses, PreflightLosesDb, PreflightOnly, Running,
           Publishing
  <2>2. CASE StartBuild(j)
    <3>1. PICK d \in Dates : Starts(j, d)
      BY <2>2, StartDate
    <3>2. job'[j].beside = AnotherRuns
      BY <3>1, TypeJobs, StartStep
    <3> QED
      BY <3>2 DEF Alone, AnotherRuns
  <2>3. CASE ~Preflight(j) /\ ~StartBuild(j)
    BY <1>1, <2>3 DEF JobStep, Build, BuildFails, Publish, CheckBucket, MakeBucket,
         MakeBucketRefused, Upload, PutTmp, CopyLatest, CopyFindsNothing, RemoveTmp,
         CallFails, Kill, Running, Publishing
  <2> QED
    BY <2>1, <2>2, <2>3
<1>2. CASE \E j \in Jobs : JobStep(j)
  BY <1>1, <1>2, JobChanges DEF Serial
<1>3. CASE NewTradeDate \/ SyncStep \/ UNCHANGED vars
  <2>1. job' = job
    BY <1>3 DEF NewTradeDate, SyncStep, ReadDataLatest, MirrorData, ReadModelLatest,
                MirrorModel, WriteLocalLatest, SyncStops, Predict, vars
  <2> QED
    BY <2>1 DEF Serial
<1> QED
  BY <1>2, <1>3 DEF Next

\* A run that is over is not switching anything.
LEMMA SwitchingOver ==
  ASSUME NEW j \in Jobs, job'[j].pc \notin {"put", "copy", "remove"}
  PROVE  Switching(j)'
  BY DEF Switching

LEMMA SwitchingStep ==
  ASSUME TypeOK, NEW j \in Jobs, Switching(j), JobStep(j)
  PROVE  Switching(j)'
<1> USE TypeJobs, FilesFacts DEF Running, Publishing
<1>1. CASE Preflight(j) \/ BuildFails(j) \/ CallFails(j) \/ CopyFindsNothing(j)
           \/ MakeBucketRefused(j) \/ Kill(j)
  BY <1>1, ExitStep, RaiseStep, GotoStep, SwitchingOver
     DEF Preflight, PreflightRefuses, PreflightLosesDb, PreflightOnly, BuildFails,
         CallFails, CopyFindsNothing, MakeBucketRefused, Kill
<1>2. CASE StartBuild(j)
  <2>1. PICK d \in Dates : Starts(j, d)
    BY <1>2, StartDate
  <2> QED
    BY <2>1, StartStep, SwitchingOver
<1>3. CASE Build(j)
  BY <1>3, GotoStep, SwitchingOver DEF Build
<1>4. CASE CheckBucket(j)
  <2>1. PICK pc \in {"upload", "make"} : Goto(j, pc)
    BY <1>4 DEF CheckBucket
  <2> QED
    BY <1>4, <2>1, GotoStep, SwitchingOver DEF CheckBucket
<1>5. CASE MakeBucket(j)
  BY <1>5, GotoStep, RaiseStep, SwitchingOver DEF MakeBucket
<1>6. CASE Upload(j)
  <2>1. CASE Raise(j)
    BY <2>1, RaiseStep, SwitchingOver
  <2>2. CASE UploadReturns(j)
    BY <1>6, <2>2, UploadReturnsStep DEF Upload, Switching
  <2> QED
    BY <1>6, <2>1, <2>2 DEF Upload
<1>7. CASE PutTmp(j)
  <2>1. CASE Raise(j)
    BY <2>1, RaiseStep, SwitchingOver
  <2>2. CASE Goto(j, "copy")
    <3>1. /\ job'[j].pc = "copy" /\ job'[j].date = job[j].date
          /\ job'[j].kind = job[j].kind
      BY <1>7, <2>2, GotoStep DEF PutTmp
    <3>2. tmp'[job[j].kind] = job[j].date /\ latest' = latest
      BY <1>7 DEF PutTmp, TypeOK
    <3> QED
      BY <1>7, <3>1, <3>2 DEF PutTmp, Switching
  <2> QED
    BY <1>7, <2>1, <2>2 DEF PutTmp
<1>8. CASE CopyLatest(j)
  <2>1. CASE Raise(j)
    BY <2>1, RaiseStep, SwitchingOver
  <2>2. CASE Goto(j, "remove")
    <3>1. /\ job'[j].pc = "remove" /\ job'[j].date = job[j].date
          /\ job'[j].kind = job[j].kind
      BY <1>8, <2>2, GotoStep DEF CopyLatest
    <3>2. /\ latest'[job[j].kind] = job[j].date
          /\ job[j].kind = "model" => latest'["qdata"] = latest["qdata"]
      BY <1>8 DEF CopyLatest, TypeOK, Switching
    <3> QED
      BY <1>8, <3>1, <3>2 DEF CopyLatest, Switching
  <2> QED
    BY <1>8, <2>1, <2>2 DEF CopyLatest
<1>9. CASE RemoveTmp(j)
  <2>1. CASE Raise(j)
    BY <2>1, RaiseStep, SwitchingOver
  <2>2. CASE SwitchNext(j)
    BY <1>9, <2>2, SwitchNextStep DEF RemoveTmp, Switching
  <2> QED
    BY <1>9, <2>1, <2>2 DEF RemoveTmp
<1> QED
  BY <1>1, <1>2, <1>3, <1>4, <1>5, <1>6, <1>7, <1>8, <1>9 DEF JobStep, Publish

LEMMA SerialStep ==
  ASSUME TypeOK, Serial, [Next]_vars, Alone'
  PROVE  Serial'
<1>1. ASSUME NEW j \in Jobs PROVE Switching(j)'
  <2>1. CASE JobStep(j)
    BY <2>1, SwitchingStep DEF Serial
  <2>2. CASE job'[j] = job[j] /\ tmp' = tmp /\ latest' = latest
    BY <2>2 DEF Serial, Switching
  <2>3. ASSUME NEW i \in Jobs, i # j, JobStep(i) PROVE Switching(j)'
    <3>1. job'[j] = job[j]
      BY <2>3, JobChanges
    <3>2. CASE job[i].pc \in Running
      <4>1. job[j].pc \notin Running
        BY <2>3, <3>2 DEF Serial
      <4> QED
        BY <3>1, <4>1, SwitchingOver DEF Running, Publishing
    <3>3. CASE job[i].pc \notin Running
      <4>1. tmp' = tmp /\ latest' = latest
        BY <2>3, <3>3
           DEF JobStep, Preflight, PreflightRefuses, PreflightLosesDb, PreflightOnly,
               StartBuild, Build, BuildFails, Publish, CheckBucket, MakeBucket,
               MakeBucketRefused, Upload, PutTmp, CopyLatest, CopyFindsNothing,
               RemoveTmp, CallFails, Kill, Running, Publishing, store
      <4> QED
        BY <2>2, <3>1, <4>1
    <3> QED
      BY <3>2, <3>3
  <2>4. CASE NewTradeDate \/ SyncStep \/ UNCHANGED vars
    BY <2>2, <2>4 DEF NewTradeDate, SyncStep, ReadDataLatest, MirrorData, ReadModelLatest,
                MirrorModel, WriteLocalLatest, SyncStops, Predict, store, vars
  <2> QED
    BY <2>1, <2>3, <2>4 DEF Next
<1> QED
  BY <1>1, OneRuns DEF Serial

LEMMA InitSerial == Init => Serial
  BY DEF Init, Serial, Switching, Running, Publishing

\* A run that goes from the removal of LATEST.tmp to exit code 0 has just
\* switched LATEST of the model.
LEMMA ExitsZero ==
  ASSUME TypeOK, NEW j \in Jobs, JobStep(j),
         job[j].pc = "remove", job'[j].pc = "done", job'[j].code = 0
  PROVE  job[j].kind = "model" /\ latest' = latest
<1> USE TypeJobs DEF Running, Publishing
<1>1. ~CallFails(j)
  BY RaiseStep DEF CallFails
<1>2. ~Kill(j)
  BY GotoStep DEF Kill
<1>3. RemoveTmp(j)
  BY <1>1, <1>2
     DEF JobStep, Preflight, PreflightRefuses, PreflightLosesDb, PreflightOnly,
         StartBuild, Build, BuildFails, Publish, CheckBucket, MakeBucket,
         MakeBucketRefused, Upload, PutTmp, CopyLatest, CopyFindsNothing, MayStart
<1>4. SwitchNext(j)
  BY <1>3, RaiseStep DEF RemoveTmp
<1> QED
  BY <1>3, <1>4, SwitchNextStep DEF RemoveTmp

\* As long as no runs have overlapped, exit code 0 of a full run means that
\* both LATEST objects name its date.
THEOREM SuccessSwitches == Spec => ExitZeroSwitches
<1> DEFINE SerialIfAlone == Alone => Serial
           Named ==
      \A j \in Jobs :
        (Alone' /\ job[j].pc = "remove" /\ job'[j].pc = "done" /\ job'[j].code = 0)
          => \A k \in Kinds : latest'[k] = job[j].date
<1>0. Init => SerialIfAlone
  BY InitSerial
<1>1. IInv /\ SerialIfAlone /\ [Next]_vars => SerialIfAlone'
  BY SerialStep, AloneBefore DEF IInv
<1>2. IInv /\ SerialIfAlone /\ [Next]_vars => [Named]_vars
  <2> SUFFICES ASSUME IInv, SerialIfAlone, Next, NEW j \in Jobs, Alone',
                      job[j].pc = "remove", job'[j].pc = "done", job'[j].code = 0
               PROVE  \A k \in Kinds : latest'[k] = job[j].date
    OBVIOUS
  <2>0. TypeOK /\ Serial
    BY AloneBefore DEF IInv
  <2>1. JobStep(j)
    <3>1. job'[j] # job[j]
      OBVIOUS
    <3>2. ~(NewTradeDate \/ SyncStep)
      BY <3>1 DEF NewTradeDate, SyncStep, ReadDataLatest, MirrorData, ReadModelLatest,
                  MirrorModel, WriteLocalLatest, SyncStops, Predict
    <3> QED
      BY <2>0, <3>1, <3>2, JobChanges DEF Next
  <2>2. job[j].kind = "model" /\ latest' = latest
    BY <2>0, <2>1, ExitsZero
  <2> QED
    BY <2>0, <2>2 DEF Serial, Switching, Kinds
<1>3. [][Named]_vars => ExitZeroSwitches
  BY DEF ExitZeroSwitches
<1> QED
  BY <1>0, <1>1, <1>2, <1>3, Inductive, PTL DEF Spec

\* With TRAIN_END_DATE unset: LATEST is no newer than the run that is going
\* on, and that run no newer than the table.
Forward ==
  /\ \A k \in Kinds : latest[k] <= tradeDate
  /\ \A j \in Jobs : job[j].pc \in Running =>
       /\ job[j].date <= tradeDate
       /\ \A k \in Kinds : latest[k] <= job[j].date

LEMMA InitForward == Init => Forward
  BY PublishAssumption DEF Init, Forward, Running, Publishing, Dates, NoDate

\* The table grows; a run that goes on keeps its date or has just taken that
\* of the table.
LEMMA NewDates ==
  ASSUME Overrides = {}, TypeOK, [Next]_vars
  PROVE  /\ tradeDate \in Nat /\ tradeDate' \in Nat /\ tradeDate <= tradeDate'
         /\ \A j \in Jobs : job'[j].pc \in Running =>
              \/ job[j].pc \in Running /\ job'[j].date = job[j].date
              \/ job'[j].date = tradeDate /\ latest' = latest
<1>1. tradeDate \in Nat
  BY PublishAssumption DEF TypeOK, Dates, NoDate
<1>2. tradeDate' \in Nat /\ tradeDate <= tradeDate'
  <2>1. CASE NewTradeDate
    BY <1>1, <2>1 DEF NewTradeDate
  <2>2. CASE tradeDate' = tradeDate
    BY <1>1, <2>2
  <2>3. NewTradeDate \/ tradeDate' = tradeDate
    BY DEF Next, SyncStep, ReadDataLatest, MirrorData, ReadModelLatest,
         MirrorModel, WriteLocalLatest, SyncStops, Predict, JobStep, Preflight,
         PreflightRefuses, PreflightLosesDb, PreflightOnly, StartBuild, Build,
         BuildFails, Publish, CheckBucket, MakeBucket, MakeBucketRefused, Upload, PutTmp,
         CopyLatest, CopyFindsNothing, RemoveTmp, CallFails, Kill, store, vars
  <2> QED
    BY <2>1, <2>2, <2>3
<1>3. ASSUME NEW j \in Jobs, job'[j].pc \in Running
      PROVE  \/ job[j].pc \in Running /\ job'[j].date = job[j].date
             \/ job'[j].date = tradeDate /\ latest' = latest
  <2>1. CASE JobStep(j) /\ job[j].pc \notin Running
    <3>1. Preflight(j) \/ StartBuild(j)
      BY <2>1 DEF JobStep, Build, BuildFails, Publish, CheckBucket, MakeBucket,
           MakeBucketRefused, Upload, PutTmp, CopyLatest, CopyFindsNothing, RemoveTmp,
           CallFails, Kill, Running, Publishing
    <3>2. ~Preflight(j)
      BY <1>3, TypeJobs, ExitStep
         DEF Preflight, PreflightRefuses, PreflightLosesDb, PreflightOnly, Running,
             Publishing
    <3>3. Starts(j, tradeDate)
      BY <3>1, <3>2 DEF StartBuild, Starts
    <3>4. tradeDate \in Dates
      BY <3>1, <3>2 DEF StartBuild, TypeOK
    <3> QED
      BY <3>1, <3>2, <3>3, <3>4, TypeJobs, StartStep DEF StartBuild, store
  <2>2. CASE JobStep(j) /\ job[j].pc \in Running
    BY <2>2, JobChanges DEF Running, Publishing
  <2>3. CASE \E i \in Jobs : i # j /\ JobStep(i)
    BY <1>3, <2>3, JobChanges
  <2>4. CASE NewTradeDate \/ SyncStep \/ UNCHANGED vars
    <3>1. job' = job
      BY <2>4 DEF NewTradeDate, SyncStep, ReadDataLatest, MirrorData, ReadModelLatest,
                  MirrorModel, WriteLocalLatest, SyncStops, Predict, vars
    <3> QED
      BY <1>3, <3>1
  <2> QED
    BY <2>1, <2>2, <2>3, <2>4 DEF Next
<1> QED
  BY <1>1, <1>2, <1>3

LEMMA ForwardStep ==
  ASSUME Overrides = {}, TypeOK, Serial, Forward, [Next]_vars
  PROVE  Forward' /\ \A k \in Kinds : latest'[k] >= latest[k]
<1>1. \A k \in Kinds : latest[k] \in Nat
  BY PublishAssumption DEF TypeOK, Dates, NoDate
<1>2. CASE latest' = latest
  <2>1. \A k \in Kinds : latest'[k] <= tradeDate'
    BY <1>1, <1>2, NewDates DEF Forward
  <2>2. ASSUME NEW j \in Jobs, job'[j].pc \in Running
        PROVE  /\ job'[j].date <= tradeDate'
               /\ \A k \in Kinds : latest'[k] <= job'[j].date
    <3>1. CASE job[j].pc \in Running /\ job'[j].date = job[j].date
      <4>1. job[j].date \in Nat
        BY <3>1, PublishAssumption DEF TypeOK, Dates
      <4> QED
        BY <1>1, <1>2, <3>1, <4>1, NewDates DEF Forward
    <3>2. CASE job'[j].date = tradeDate
      BY <1>1, <1>2, <3>2, NewDates DEF Forward
    <3> QED
      BY <2>2, <3>1, <3>2, NewDates
  <2> QED
    BY <1>1, <1>2, <2>1, <2>2 DEF Forward
<1>3. CASE \E j \in Jobs : CopyLatest(j)
  <2>1. PICK j \in Jobs : CopyLatest(j)
    BY <1>3
  <2>2. job[j].pc = "copy" /\ job[j].kind \in Kinds /\ job[j].date \in Dates
    BY <2>1, TypeJobs DEF CopyLatest, TypeOK, Running, Publishing
  <2>3. latest' = [latest EXCEPT ![job[j].kind] = job[j].date]
    BY <2>1, <2>2 DEF CopyLatest, Serial, Switching
  <2>4. job[j].date \in Nat /\ job[j].date <= tradeDate
        /\ \A k \in Kinds : latest[k] <= job[j].date
    BY <2>2, PublishAssumption DEF Forward, Dates, Running, Publishing
  <2>5. \A k \in Kinds : /\ latest'[k] \in Nat
                         /\ latest'[k] >= latest[k] /\ latest'[k] <= job[j].date
    BY <1>1, <2>2, <2>3, <2>4 DEF TypeOK
  <2>6. tradeDate' = tradeDate /\ JobStep(j)
    BY <2>1 DEF CopyLatest, JobStep, Publish
  <2>7. \A i \in Jobs : job'[i].pc \in Running => i = j
    BY <2>2, <2>6, JobChanges DEF Serial, Running, Publishing
  <2>8. job'[j].date = job[j].date
    BY <2>2, <2>6, JobChanges
  <2> QED
    BY <2>4, <2>5, <2>6, <2>7, <2>8, NewDates DEF Forward
<1> QED
  BY <1>2, <1>3, PointersChange

\* As long as no runs have overlapped and with TRAIN_END_DATE unset, LATEST
\* never goes back.
THEOREM LatestNeverBack ==
  ASSUME Overrides = {} PROVE Spec => LatestForward
<1> DEFINE AloneForward == Alone => Serial /\ Forward
           NoLess == Alone' => \A k \in Kinds : latest'[k] >= latest[k]
<1>0. Init => AloneForward
  BY InitSerial, InitForward
<1>1. IInv /\ AloneForward /\ [Next]_vars => AloneForward'
  BY SerialStep, ForwardStep, AloneBefore DEF IInv
<1>2. IInv /\ AloneForward /\ [Next]_vars => [NoLess]_vars
  BY ForwardStep, AloneBefore DEF IInv
<1>3. [][NoLess]_vars => LatestForward
  BY DEF LatestForward
<1> QED
  BY <1>0, <1>1, <1>2, <1>3, Inductive, PTL DEF Spec

=============================================================================
