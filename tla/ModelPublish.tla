---------------------------- MODULE ModelPublish ----------------------------
(***************************************************************************)
(* How a model gets from the training job to the predictor.                *)
(*                                                                         *)
(* qlib_bootstrap/app/main.py `run`: preflight, export, dump, train, then  *)
(* the provider data and the model are uploaded to MinIO under the date of *)
(* the last trading day, one object per call and with no transaction, and  *)
(* two LATEST objects are switched, each by a put of LATEST.tmp, a copy    *)
(* over LATEST and a removal.  The prediction job copies both directories  *)
(* to its volume first (an init container, external), then resolves the    *)
(* model (qlib_predict/app/model_resolve.py).                              *)
(*                                                                         *)
(* A file is its position in the sorted listing of its directory, and its  *)
(* content is the run that made it.  Every call to MinIO may fail before   *)
(* or after its effect, and a job may be killed anywhere.                  *)
(***************************************************************************)
EXTENDS Integers

CONSTANTS
  Jobs,        \* runs of the bootstrap job
  MaxDate,     \* trade dates are 1..MaxDate
  Size,        \* number of files in a directory, by kind
  Overrides,   \* values TRAIN_END_DATE is set to; {} when it is left unset
  Absent       \* content of an object that does not exist

Kinds == {"qdata", "model"}
Dates == 1..MaxDate
NoDate == 0
Files(k) == 1..Size[k]

ASSUME PublishAssumption ==
  /\ MaxDate \in Nat \ {0}
  /\ Size \in [Kinds -> Nat \ {0}]
  /\ Overrides \subseteq Dates
  /\ Absent \notin Jobs

VARIABLES
  tradeDate,   \* max(trade_date) of the qfq rows of market.kline_daily
  bucket,      \* does the bucket exist?
  objects,     \* objects[k][d][f]: the file f of the directory of kind k, date d
  latest,      \* latest[k]: the value of the LATEST object
  tmp,         \* tmp[k]: the value of the LATEST.tmp object
  job,         \* the runs
  sync,        \* the init container of the prediction job
  local        \* the volume of the prediction job

store == <<bucket, objects, latest, tmp>>
reader == <<sync, local>>
vars == <<tradeDate, store, job, reader>>

Publishing == {"bucket", "make", "upload", "put", "copy", "remove"}
Running == Publishing \cup {"build"}

TypeOK ==
  /\ tradeDate \in Dates \cup {NoDate}
  /\ bucket \in BOOLEAN
  /\ DOMAIN objects = Kinds
  /\ \A k \in Kinds : objects[k] \in [Dates -> [Files(k) -> Jobs \cup {Absent}]]
  /\ latest \in [Kinds -> Dates \cup {NoDate}]
  /\ tmp \in [Kinds -> Dates \cup {NoDate}]
  /\ job \in [Jobs -> [pc : Running \cup {"idle", "done", "killed"},
                       date : Dates \cup {NoDate}, kind : Kinds,
                       file : Nat, code : 0..3, beside : BOOLEAN]]
  /\ \A j \in Jobs : /\ job[j].file \in Files(job[j].kind)
                     /\ job[j].pc \in Running => job[j].date \in Dates
  /\ sync \in [pc : {"idle", "qdata", "model", "ready"},
              qdata : Dates \cup {NoDate}, model : Dates \cup {NoDate},
              todo : SUBSET (Files("qdata") \cup Files("model"))]
  /\ local \in [latest : Dates \cup {NoDate},
               qdata : [Files("qdata") -> Jobs \cup {Absent}],
               model : [Dates -> [Files("model") -> Jobs \cup {Absent}]]]

Init ==
  /\ tradeDate \in Dates \cup {NoDate}
  /\ bucket \in BOOLEAN
  /\ objects = [k \in Kinds |-> [d \in Dates |-> [f \in Files(k) |-> Absent]]]
  /\ latest = [k \in Kinds |-> NoDate]
  /\ tmp = [k \in Kinds |-> NoDate]
  /\ job = [j \in Jobs |-> [pc |-> "idle", date |-> NoDate, kind |-> "qdata",
                            file |-> 1, code |-> 0, beside |-> FALSE]]
  /\ sync = [pc |-> "idle", qdata |-> NoDate, model |-> NoDate, todo |-> {}]
  /\ local = [latest |-> NoDate,
              qdata |-> [f \in Files("qdata") |-> Absent],
              model |-> [d \in Dates |-> [f \in Files("model") |-> Absent]]]

\* The ETL stores a new trading day (StockEtl is the program that does it).
NewTradeDate ==
  /\ tradeDate < MaxDate /\ tradeDate' = tradeDate + 1
  /\ UNCHANGED <<store, job, reader>>

-----------------------------------------------------------------------------
(* The bootstrap job.                                                      *)

Goto(j, pc) == job' = [job EXCEPT ![j].pc = pc]
Exit(j, code) == job' = [job EXCEPT ![j].pc = "done", ![j].code = code]

\* A Job resource may be started at any time, beside another run too.
MayStart(j) == job[j].pc = "idle"

\* The field beside remembers that another run was going on at the start.  No
\* run has overlapped as long as only the CronJob has started them
\* (concurrencyPolicy: Forbid).
AnotherRuns == \E i \in Jobs : job[i].pc \in Running
Alone == \A j \in Jobs : ~job[j].beside

\* The table is missing or holds no qfq row.
PreflightRefuses(j) ==
  /\ MayStart(j) /\ tradeDate = NoDate
  /\ Exit(j, 2)
  /\ UNCHANGED <<tradeDate, store, reader>>

\* A psycopg2 error is none of the exceptions that run or main catch.
PreflightLosesDb(j) ==
  /\ MayStart(j) /\ Exit(j, 1)
  /\ UNCHANGED <<tradeDate, store, reader>>

\* --preflight-only, --dry-run
PreflightOnly(j) ==
  /\ MayStart(j) /\ tradeDate # NoDate
  /\ Exit(j, 0)
  /\ UNCHANGED <<tradeDate, store, reader>>

\* Mutant: the training date is taken from any trading day of the table.
StartBuildEarlier(j) ==
  /\ MayStart(j) /\ tradeDate # NoDate
  /\ \E d \in 1..tradeDate :
       job' = [job EXCEPT ![j].pc = "build", ![j].date = d,
                          ![j].beside = AnotherRuns]
  /\ UNCHANGED <<tradeDate, store, reader>>

StartBuild(j) ==
  /\ MayStart(j) /\ tradeDate # NoDate
  /\ \E d \in IF Overrides = {} THEN {tradeDate} ELSE Overrides :
       job' = [job EXCEPT ![j].pc = "build", ![j].date = d,
                          ![j].beside = AnotherRuns]
  /\ UNCHANGED <<tradeDate, store, reader>>

\* Export, dump and train: local files only, all of this run.
Build(j) ==
  /\ job[j].pc = "build" /\ Goto(j, "bucket")
  /\ UNCHANGED <<tradeDate, store, reader>>

BuildFails(j) ==
  /\ job[j].pc = "build" /\ Exit(j, 1)
  /\ UNCHANGED <<tradeDate, store, reader>>

\* S3Error ends the run with 3; the errors of the transport below it are not
\* S3Errors, nobody catches them and the interpreter exits with 1.
Raise(j) == \E code \in {1, 3} : Exit(j, code)

\* Mutant: a failed upload is logged and skipped.
SkipFailedUpload(j) ==
  /\ job[j].pc = "upload" /\ job[j].file < Size[job[j].kind]
  /\ job' = [job EXCEPT ![j].file = @ + 1]
  /\ UNCHANGED <<tradeDate, store, reader>>

\* Mutant: the failure to write LATEST.tmp is ignored.
SkipFailedPut(j) ==
  /\ job[j].pc = "put" /\ Goto(j, "copy")
  /\ UNCHANGED <<tradeDate, store, reader>>

\* A call to MinIO fails before it has any effect.
CallFails(j) ==
  /\ job[j].pc \in Publishing /\ Raise(j)
  /\ UNCHANGED <<tradeDate, store, reader>>

CheckBucket(j) ==
  /\ job[j].pc = "bucket"
  /\ Goto(j, IF bucket THEN "upload" ELSE "make")
  /\ UNCHANGED <<tradeDate, store, reader>>

MakeBucket(j) ==
  /\ job[j].pc = "make" /\ ~bucket
  /\ bucket' = TRUE
  /\ Goto(j, "upload") \/ Raise(j)
  /\ UNCHANGED <<tradeDate, objects, latest, tmp, reader>>

\* Another run has made the bucket since it was looked for.
MakeBucketRefused(j) ==
  /\ job[j].pc = "make" /\ bucket /\ Exit(j, 3)
  /\ UNCHANGED <<tradeDate, store, reader>>

\* Mutant: LATEST is switched once the provider data is there.
SwitchBeforeModel(j) ==
  \/ /\ job[j].file < Size[job[j].kind]
     /\ job' = [job EXCEPT ![j].file = @ + 1]
  \/ /\ job[j].file = Size[job[j].kind]
     /\ job' = [job EXCEPT ![j].pc = "put", ![j].file = 1]

\* The upload of a file has returned: the next file, then the model's
\* directory, then the two LATEST objects.
UploadReturns(j) ==
  LET k == job[j].kind IN
  \/ /\ job[j].file < Size[k]
     /\ job' = [job EXCEPT ![j].file = @ + 1]
  \/ /\ job[j].file = Size[k] /\ k = "qdata"
     /\ job' = [job EXCEPT ![j].pc = "bucket", ![j].kind = "model", ![j].file = 1]
  \/ /\ job[j].file = Size[k] /\ k = "model"
     /\ job' = [job EXCEPT ![j].pc = "put", ![j].kind = "qdata", ![j].file = 1]

Upload(j) ==
  /\ job[j].pc = "upload"
  /\ objects' = [objects EXCEPT ![job[j].kind][job[j].date][job[j].file] = j]
  /\ UploadReturns(j) \/ Raise(j)
  /\ UNCHANGED <<tradeDate, bucket, latest, tmp, reader>>

PutTmp(j) ==
  /\ job[j].pc = "put"
  /\ tmp' = [tmp EXCEPT ![job[j].kind] = job[j].date]
  /\ Goto(j, "copy") \/ Raise(j)
  /\ UNCHANGED <<tradeDate, bucket, objects, latest, reader>>

CopyLatest(j) ==
  /\ job[j].pc = "copy" /\ tmp[job[j].kind] # NoDate
  /\ latest' = [latest EXCEPT ![job[j].kind] = tmp[job[j].kind]]
  /\ Goto(j, "remove") \/ Raise(j)
  /\ UNCHANGED <<tradeDate, bucket, objects, tmp, reader>>

\* Every run uses the same LATEST.tmp: another one has removed it.
CopyFindsNothing(j) ==
  /\ job[j].pc = "copy" /\ tmp[job[j].kind] = NoDate /\ Exit(j, 3)
  /\ UNCHANGED <<tradeDate, store, reader>>

SwitchNext(j) ==
  \/ /\ job[j].kind = "qdata"
     /\ job' = [job EXCEPT ![j].pc = "put", ![j].kind = "model"]
  \/ job[j].kind = "model" /\ Exit(j, 0)

RemoveTmp(j) ==
  /\ job[j].pc = "remove"
  /\ tmp' = [tmp EXCEPT ![job[j].kind] = NoDate]
  /\ SwitchNext(j) \/ Raise(j)
  /\ UNCHANGED <<tradeDate, bucket, objects, latest, reader>>

\* activeDeadlineSeconds, an eviction, out of memory
Kill(j) ==
  /\ job[j].pc \in Running /\ Goto(j, "killed")
  /\ UNCHANGED <<tradeDate, store, reader>>

Preflight(j) == PreflightRefuses(j) \/ PreflightLosesDb(j) \/ PreflightOnly(j)

Publish(j) ==
  \/ CheckBucket(j) \/ MakeBucket(j) \/ MakeBucketRefused(j)
  \/ Upload(j) \/ PutTmp(j) \/ CopyLatest(j) \/ CopyFindsNothing(j) \/ RemoveTmp(j)

JobStep(j) ==
  \/ Preflight(j) \/ StartBuild(j) \/ Build(j) \/ BuildFails(j)
  \/ Publish(j) \/ CallFails(j) \/ Kill(j)

-----------------------------------------------------------------------------
(* The prediction job: the init container copies what the two LATEST       *)
(* objects name, file by file, then the model is resolved.                 *)

ReadDataLatest ==
  /\ sync.pc = "idle" /\ latest["qdata"] # NoDate
  /\ sync' = [pc |-> "qdata", qdata |-> latest["qdata"], model |-> NoDate,
              todo |-> Files("qdata")]
  /\ UNCHANGED <<tradeDate, store, job, local>>

MirrorData ==
  /\ sync.pc = "qdata"
  /\ \E f \in sync.todo :
       /\ local' = [local EXCEPT !.qdata[f] = objects["qdata"][sync.qdata][f]]
       /\ sync' = [sync EXCEPT !.todo = @ \ {f}]
  /\ UNCHANGED <<tradeDate, store, job>>

ReadModelLatest ==
  /\ sync.pc = "qdata" /\ sync.todo = {} /\ latest["model"] # NoDate
  /\ sync' = [sync EXCEPT !.pc = "model", !.model = latest["model"],
                          !.todo = Files("model")]
  /\ UNCHANGED <<tradeDate, store, job, local>>

MirrorModel ==
  /\ sync.pc = "model"
  /\ \E f \in sync.todo :
       /\ local' = [local EXCEPT
                      !.model[sync.model][f] = objects["model"][sync.model][f]]
       /\ sync' = [sync EXCEPT !.todo = @ \ {f}]
  /\ UNCHANGED <<tradeDate, store, job>>

WriteLocalLatest ==
  /\ sync.pc = "model" /\ sync.todo = {}
  /\ local' = [local EXCEPT !.latest = sync.model]
  /\ sync' = [sync EXCEPT !.pc = "ready"]
  /\ UNCHANGED <<tradeDate, store, job>>

\* The init container fails or finds no LATEST for the model: no prediction.
SyncStops ==
  /\ sync.pc \in {"qdata", "model"}
  /\ sync' = [sync EXCEPT !.pc = "idle"]
  /\ UNCHANGED <<tradeDate, store, job, local>>

\* run_prediction reads the model, builds the features and scores, or stops with
\* an error, and the job ends.
Predict ==
  /\ sync.pc = "ready"
  /\ sync' = [sync EXCEPT !.pc = "idle"]
  /\ UNCHANGED <<tradeDate, store, job, local>>

\* resolve_model_files returns: LATEST names a directory with all its files.
Resolves ==
  /\ local.latest # NoDate
  /\ \A f \in Files("model") : local.model[local.latest][f] # Absent

\* The day to score is the last of the provider data, and the features are those
\* of the handler the model was trained with: they end with the training, and a
\* day after it has none ("the features are empty", exit code 1).
HasFeatures == sync.qdata <= local.latest

SyncStep ==
  \/ ReadDataLatest \/ MirrorData \/ ReadModelLatest \/ MirrorModel
  \/ WriteLocalLatest \/ SyncStops \/ Predict

Next == NewTradeDate \/ SyncStep \/ \E j \in Jobs : JobStep(j)

Spec == Init /\ [][Next]_vars
-----------------------------------------------------------------------------
(* Properties.                                                             *)

Full(k, d) == \A f \in Files(k) : objects[k][d][f] # Absent

\* The acceptance criterion of codex-prompts/P6c.md:25: LATEST points at a
\* complete directory, whatever failed, was killed or overlapped.  Both
\* directories of that date are complete, so a model that LATEST names never
\* lacks the provider data it was trained on.
LatestComplete ==
  \A k \in Kinds :
    latest[k] # NoDate => \A both \in Kinds : Full(both, latest[k])

\* When the init container has finished, the predictor finds a model, and the
\* model and the provider data are each complete and of one date, although
\* they were copied file by file while runs were publishing (model_resolve.py
\* would accept a model of mixed dates: it looks at the names only).
SyncedWhole ==
  sync.pc = "ready" =>
    /\ Resolves
    /\ \A f \in Files("qdata") :
         local.qdata[f] # Absent /\ job[local.qdata[f]].date = sync.qdata
    /\ \A f \in Files("model") :
         /\ local.model[local.latest][f] # Absent
         /\ job[local.model[local.latest][f]].date = local.latest

\* As long as no runs have overlapped: exit code 0 of a full run means that
\* both LATEST objects name its date, whatever earlier runs left behind in
\* LATEST.tmp.
ExitZeroSwitches ==
  [][ \A j \in Jobs :
        (Alone' /\ job[j].pc = "remove" /\ job'[j].pc = "done" /\ job'[j].code = 0)
          => \A k \in Kinds : latest'[k] = job[j].date ]_vars

\* As long as no runs have overlapped, TRAIN_END_DATE unset: LATEST never goes
\* back to an older date, also not through the LATEST.tmp of a run that died.
LatestForward ==
  [][ Alone' => \A k \in Kinds : latest'[k] >= latest[k] ]_vars

\* codex-prompts/P6c.md:25: when the bootstrap has succeeded, the prediction job
\* runs through.  Here: one run has exited with 0, no other has failed, was
\* killed or has overlapped it, and a prediction that starts finds features to
\* score.  Between the two switches of a run, its data is read with the model of
\* the run before.
PredictorCanScore ==
  /\ sync.pc = "ready" /\ Alone
  /\ \E j \in Jobs : job[j].pc = "done" /\ job[j].code = 0
  /\ \A j \in Jobs : job[j].pc # "killed" /\ job[j].code = 0
  => HasFeatures
=============================================================================
