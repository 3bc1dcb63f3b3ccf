--------------------------- MODULE UploadPipeline ---------------------------
(***************************************************************************)
(* One account's uploads from the HTTP request to the terminal job:        *)
(* create_upload (routers/uploads.py), the RQ job process_upload and its   *)
(* failure callback (jobs/process_upload.py), and retention_sweep          *)
(* (services/lifecycle.py), over a database, an object store and a queue   *)
(* that share no transaction.                                              *)
(*                                                                         *)
(* An upload, its job row, its stored object and its budget claim are all  *)
(* named by the request that created them.  Transactions are READ          *)
(* COMMITTED: a row is "pending" from its INSERT to its COMMIT.  Ages are   *)
(* thresholds the code compares with, not durations.                       *)
(***************************************************************************)
EXTENDS Integers, FiniteSets

CONSTANTS
    Requests,        \* POST /uploads requests of the account
    Contents,        \* file contents, identified by their hash
    Content,         \* the content each request carries
    Kind,            \* the kind of each content: "csv", "image", "statement"
    Sound,           \* contents the worker's own checks accept
    Arrivals,        \* how many of the requests the rate limiter lets through (bound)
    ConcurrentJobs,  \* settings.quota_concurrent_jobs
    MaxAttempts,     \* settings.quota_max_job_attempts
    Workers,         \* RQ worker processes
    ReservationAge,  \* RESERVATION_TTL
    StuckAge,        \* STUCK_JOB_HOURS
    ReviewAge,       \* settings.statement_review_hours
    FileAge,         \* FAILED_UPLOAD_FILE_DAYS
    ReceiptAge       \* UNCONFIRMED_RECEIPT_DAYS

ASSUME PipelineAssumption ==
    /\ Content \in [Requests -> Contents]
    /\ Kind \in [Contents -> {"csv", "image", "statement"}]
    /\ Sound \subseteq Contents
    /\ \A c \in Contents : Kind[c] = "csv" => c \in Sound
    /\ {Arrivals, ConcurrentJobs, MaxAttempts, Workers} \subseteq Nat \ {0}
    /\ {ReservationAge, StuckAge, ReviewAge, FileAge, ReceiptAge} \subseteq Nat \ {0}
    /\ ReservationAge <= StuckAge
    /\ StuckAge <= ReviewAge
    /\ ReviewAge <= FileAge
    /\ FileAge <= ReceiptAge

VARIABLES
    request,       \* progress of each create_upload handler
    row,           \* the uploads row (and, with it, the processing_jobs row)
    keyed,         \* whether its storage_key is not ""
    status,        \* its status
    stage,         \* the stage of its job row
    object,        \* whether the object store holds its bytes
    claim,         \* its usage_reservations row
    results,       \* whether transactions, a receipt or a staged statement exist
    job,           \* the RQ job
    attempts,      \* runs of the job so far
    step,          \* progress of process_upload in the worker running the job
    seen,          \* jobs whose run loaded their upload as COMPLETE
    age,           \* time since the request, in thresholds passed
    stuck,         \* jobs a running sweep has read as abandoned
    loaded,        \* whether it has loaded their uploads
    spared,        \* those of them whose upload it found FAILED already
    contested,     \* jobs whose upload had an outcome already and that ran on
                   \* while a sweep held them as abandoned (history)
    storageFault   \* requests with a failed storage call or a purge cut short (history)

intake == <<request, row>>
record == <<keyed, status, stage, results>>
run == <<attempts, seen>>
work == <<job, run, step>>
sweep == <<stuck, loaded, spared, contested>>
vars == <<request, row, keyed, status, stage, object, claim, results,
          job, attempts, step, seen, age, stuck, loaded, spared, contested, storageFault>>

Terminal == {"COMPLETE", "FAILED"}
Stages == {"QUEUED", "EXTRACTING", "NORMALIZING", "CATEGORIZING", "ANALYZING"} \cup Terminal
Answers == {"created", "duplicate", "refused", "failed", "crashed"}

TypeOK ==
    /\ request \in [Requests -> {"start", "checked", "reserved", "stored", "flushed",
                                 "enqueued", "undo", "undoPut", "discard"} \cup Answers]
    /\ row \in [Requests -> {"none", "pending", "committed", "deleted"}]
    /\ keyed \in [Requests -> BOOLEAN]
    /\ status \in [Requests -> {"PROCESSING"} \cup Terminal]
    /\ stage \in [Requests -> Stages]
    /\ object \in [Requests -> BOOLEAN]
    /\ claim \in [Requests -> {"none", "held", "converted", "released", "lapsed"}]
    /\ results \in [Requests -> BOOLEAN]
    /\ job \in [Requests -> {"none", "queued", "running", "over"}]
    /\ attempts \in [Requests -> 0 .. MaxAttempts]
    /\ step \in [Requests -> {"idle", "load", "begin", "extract", "normalize", "categorize",
                              "analyze", "completed", "rejecting", "terminal",
                              "returning", "raised"}]
    /\ seen \subseteq Requests
    /\ age \in [Requests -> 0 .. ReceiptAge]
    /\ stuck \subseteq Requests /\ spared \subseteq stuck
    /\ loaded \in BOOLEAN
    /\ contested \subseteq Requests
    /\ storageFault \subseteq Requests

KindOf(r) == Kind[Content[r]]
Passes(r) == Content[r] \in Sound
Committed(r) == row[r] = "committed"
Twins(r) == {q \in Requests \ {r} : Content[q] = Content[r]}
Expired(r) == age[r] >= ReservationAge
Live == {r \in Requests : claim[r] = "held" /\ ~Expired(r)}
Running == {r \in Requests : job[r] = "running"}

(* The rate limiter has refused all but a few of the requests. *)
Init ==
    /\ \E served \in {s \in SUBSET Requests : Cardinality(s) <= Arrivals} :
          request = [r \in Requests |-> IF r \in served THEN "start" ELSE "refused"]
    /\ row = [r \in Requests |-> "none"]
    /\ keyed = [r \in Requests |-> TRUE]
    /\ status = [r \in Requests |-> "PROCESSING"]
    /\ stage = [r \in Requests |-> "QUEUED"]
    /\ object = [r \in Requests |-> FALSE]
    /\ claim = [r \in Requests |-> "none"]
    /\ results = [r \in Requests |-> FALSE]
    /\ job = [r \in Requests |-> "none"]
    /\ attempts = [r \in Requests |-> 0]
    /\ step = [r \in Requests |-> "idle"]
    /\ seen = {}
    /\ age = [r \in Requests |-> 0]
    /\ stuck = {} /\ spared = {} /\ loaded = FALSE /\ contested = {}
    /\ storageFault = {}

-----------------------------------------------------------------------------
(***************************************************************************)
(* create_upload.                                                          *)
(***************************************************************************)
Goto(r, pc) == request' = [request EXCEPT ![r] = pc]

(* The lookup by content hash, over committed rows. *)
FindExisting(r) ==
    /\ request[r] = "start"
    /\ Goto(r, IF \E q \in Twins(r) : Committed(q) THEN "duplicate" ELSE "checked")
    /\ UNCHANGED <<row, record, object, claim, work, age, sweep, storageFault>>

(* reserve_for_request commits its own transaction, or answers 429. *)
Reserve(r) ==
    /\ request[r] = "checked"
    /\ IF Cardinality(Live) < ConcurrentJobs
       THEN Goto(r, "reserved") /\ claim' = [claim EXCEPT ![r] = "held"]
       ELSE Goto(r, "refused") /\ UNCHANGED claim
    /\ UNCHANGED <<row, record, object, work, age, sweep, storageFault>>

PutObject(r) ==
    /\ request[r] = "reserved"
    /\ Goto(r, "stored")
    /\ object' = [object EXCEPT ![r] = TRUE]
    /\ UNCHANGED <<row, record, claim, work, age, sweep, storageFault>>

(* StorageError: a put that timed out may have stored the bytes. *)
PutFails(r) ==
    /\ request[r] = "reserved"
    /\ Goto(r, "undoPut")
    /\ \E b \in BOOLEAN : object' = [object EXCEPT ![r] = b]
    /\ storageFault' = storageFault \cup {r}
    /\ UNCHANGED <<row, record, claim, work, age, sweep>>

(* Mutant: the schema has no UNIQUE(user_id, content_hash). *)
InsertAnyUpload(r) ==
    /\ request[r] = "stored"
    /\ Goto(r, "flushed")
    /\ row' = [row EXCEPT ![r] = "pending"]
    /\ UNCHANGED <<record, object, claim, work, age, sweep, storageFault>>

(* Mutant: the loser of the race keeps its object. *)
InsertKeepingObject(r) ==
    /\ request[r] = "stored"
    /\ \A q \in Twins(r) : row[q] # "pending"
    /\ IF \E q \in Twins(r) : Committed(q)
       THEN Goto(r, "undoPut") /\ UNCHANGED row
       ELSE Goto(r, "flushed") /\ row' = [row EXCEPT ![r] = "pending"]
    /\ UNCHANGED <<record, object, claim, work, age, sweep, storageFault>>

(* The INSERT waits for a pending twin; UNIQUE(user_id, content_hash)      *)
(* refuses it beside a committed one, and the handler rolls back.  The     *)
(* claim is bound and the job row added in the same transaction.           *)
InsertUpload(r) ==
    /\ request[r] = "stored"
    /\ \A q \in Twins(r) : row[q] # "pending"
    /\ IF \E q \in Twins(r) : Committed(q)
       THEN Goto(r, "undo") /\ UNCHANGED row
       ELSE Goto(r, "flushed") /\ row' = [row EXCEPT ![r] = "pending"]
    /\ UNCHANGED <<record, object, claim, work, age, sweep, storageFault>>

(* The queue learns of the job before the rows are committed. *)
Enqueue(r) ==
    /\ request[r] = "flushed"
    /\ Goto(r, "enqueued")
    /\ job' = [job EXCEPT ![r] = "queued"]
    /\ UNCHANGED <<row, record, object, claim, run, step, age, sweep, storageFault>>

(* enqueue raised, whether or not Redis took the job: roll back. *)
EnqueueFails(r) ==
    /\ request[r] = "flushed"
    /\ Goto(r, "undo")
    /\ row' = [row EXCEPT ![r] = "none"]
    /\ \E j \in {"none", "queued"} : job' = [job EXCEPT ![r] = j]
    /\ UNCHANGED <<record, object, claim, run, step, age, sweep, storageFault>>

CommitUpload(r) ==
    /\ request[r] = "enqueued"
    /\ Goto(r, "created")
    /\ row' = [row EXCEPT ![r] = "committed"]
    /\ UNCHANGED <<record, object, claim, work, age, sweep, storageFault>>

(* release_for_request never raises: a release that fails leaves the claim *)
(* to the sweep.  A failed put has nothing to discard.                     *)
UndoClaim(r) ==
    /\ request[r] \in {"undo", "undoPut"}
    /\ Goto(r, IF request[r] = "undo" THEN "discard" ELSE "failed")
    /\ \/ claim[r] = "held" /\ claim' = [claim EXCEPT ![r] = "released"]
       \/ UNCHANGED claim
    /\ UNCHANGED <<row, record, object, work, age, sweep, storageFault>>

(* _discard_object is best effort too. *)
DiscardObject(r) ==
    /\ request[r] = "discard"
    /\ Goto(r, "failed")
    /\ \/ object' = [object EXCEPT ![r] = FALSE] /\ UNCHANGED storageFault
       \/ storageFault' = storageFault \cup {r} /\ UNCHANGED object
    /\ UNCHANGED <<row, record, claim, work, age, sweep>>

(* The API process dies, or its COMMIT fails: the transaction is gone, and *)
(* what left the database is not undone.                                   *)
CrashRequest(r) ==
    /\ request[r] \notin {"start"} \cup Answers
    /\ Goto(r, "crashed")
    /\ row' = [row EXCEPT ![r] = IF @ = "pending" THEN "none" ELSE @]
    /\ UNCHANGED <<record, object, claim, work, age, sweep, storageFault>>

-----------------------------------------------------------------------------
(***************************************************************************)
(* The worker: process_upload for a job taken from the queue.              *)
(***************************************************************************)
At(r, pc) == job[r] = "running" /\ step[r] = pc
StepTo(r, pc) == step' = [step EXCEPT ![r] = pc]

(* _set_stage commits whatever the session holds. *)
SetStage(r, s) == stage' = [stage EXCEPT ![r] = s]

TakeJob(r) ==
    /\ job[r] = "queued"
    /\ Cardinality(Running) < Workers
    /\ job' = [job EXCEPT ![r] = "running"]
    /\ attempts' = [attempts EXCEPT ![r] = @ + 1]
    /\ StepTo(r, "load")
    /\ contested' = contested \cup {q \in {r} \cap stuck : status[q] # "PROCESSING"}
    /\ UNCHANGED <<intake, record, object, claim, seen, age, stuck, loaded, spared,
                   storageFault>>

(* A worker faster than the request's COMMIT finds no row and raises       *)
(* before the try block.                                                   *)
LoadRows(r) ==
    /\ At(r, "load")
    /\ IF Committed(r)
       THEN /\ seen' = IF status[r] = "COMPLETE" THEN seen \cup {r} ELSE seen \ {r}
            /\ StepTo(r, IF stage[r] = "EXTRACTING" THEN "extract" ELSE "begin")
       ELSE StepTo(r, "raised") /\ UNCHANGED seen
    /\ UNCHANGED <<intake, record, object, claim, job, attempts, age, sweep, storageFault>>

(* The job is shown as EXTRACTING; a job loaded as such stays as it is.    *)
BeginRun(r) ==
    /\ At(r, "begin")
    /\ Committed(r)
    /\ StepTo(r, "extract")
    /\ SetStage(r, "EXTRACTING")
    /\ UNCHANGED <<intake, keyed, status, results, object, claim, job, run, age, sweep,
                   storageFault>>

(* The bytes are read and parsed, or the image read by OCR. *)
Extract(r) ==
    /\ At(r, "extract")
    /\ Committed(r) /\ keyed[r] /\ object[r]
    /\ StepTo(r, "normalize")
    /\ SetStage(r, "NORMALIZING")
    /\ UNCHANGED <<intake, keyed, status, results, object, claim, job, run, age,
                   sweep, storageFault>>

(* An image is checked for unmasked identifiers here. *)
Normalize(r) ==
    /\ At(r, "normalize")
    /\ Committed(r)
    /\ KindOf(r) = "image" => Passes(r)
    /\ StepTo(r, "categorize")
    /\ SetStage(r, "CATEGORIZING")
    /\ UNCHANGED <<intake, keyed, status, results, object, claim, job, run, age,
                   sweep, storageFault>>

(* ingest_rows, the receipt upsert or staging.stage: each leaves one set   *)
(* of results however often it runs.  They commit with ANALYZING.          *)
WriteResults(r) ==
    /\ At(r, "categorize")
    /\ Committed(r)
    /\ KindOf(r) = "statement" => Passes(r)
    /\ results' = [results EXCEPT ![r] = TRUE]
    /\ StepTo(r, "analyze")
    /\ SetStage(r, "ANALYZING")
    /\ UNCHANGED <<intake, keyed, status, object, claim, job, run, age, sweep,
                   storageFault>>

(* Mutant: the claim is not converted. *)
CompleteUncharged(r) ==
    /\ At(r, "analyze")
    /\ Committed(r)
    /\ status' = [status EXCEPT ![r] = IF r \in seen THEN @ ELSE "COMPLETE"]
    /\ StepTo(r, "completed")
    /\ SetStage(r, "COMPLETE")
    /\ UNCHANGED <<intake, keyed, results, object, claim, job, run, age, sweep,
                   storageFault>>

(* Upload, claim and job become complete in one commit; a claim that was   *)
(* swept meanwhile is silently not counted.  The session keeps what it     *)
(* loaded across its commits and sends no UPDATE of a column assigned the  *)
(* value it was loaded with: a retry that loaded the upload as COMPLETE    *)
(* leaves its status as it is.  (The failure handlers load it afresh.)     *)
CompleteJob(r) ==
    /\ At(r, "analyze")
    /\ Committed(r)
    /\ status' = [status EXCEPT ![r] = IF r \in seen THEN @ ELSE "COMPLETE"]
    /\ claim' = [claim EXCEPT ![r] = IF @ = "held" THEN "converted" ELSE @]
    /\ StepTo(r, "completed")
    /\ SetStage(r, "COMPLETE")
    /\ UNCHANGED <<intake, keyed, results, object, job, run, age, sweep, storageFault>>

(* Mutant: only the job row records the failure. *)
FailJobOnly(r) ==
    /\ job[r] = "running"
    /\ step[r] \in {"extract", "normalize", "categorize", "analyze", "completed"}
    /\ Committed(r) /\ SetStage(r, "FAILED")
    /\ StepTo(r, "raised")
    /\ UNCHANGED <<intake, keyed, status, results, object, claim, job, run, age,
                   sweep, storageFault>>

(* Any other exception in the try block, a storage failure, a timeout or a *)
(* save_meta that failed after the COMPLETE commit included: roll back,    *)
(* record the failure where the rows still exist, and raise to RQ.         *)
FailJob(r) ==
    /\ job[r] = "running"
    /\ step[r] \in {"extract", "normalize", "categorize", "analyze", "completed"}
    /\ IF Committed(r)
       THEN SetStage(r, "FAILED") /\ status' = [status EXCEPT ![r] = "FAILED"]
       ELSE UNCHANGED <<stage, status>>
    /\ StepTo(r, "raised")
    /\ UNCHANGED <<intake, keyed, results, object, claim, job, run, age, sweep,
                   storageFault>>

(* _reject_upload: the object is deleted, or a StorageError is logged. *)
RejectObject(r) ==
    /\ At(r, "normalize")
    /\ Committed(r) /\ KindOf(r) = "image" /\ ~Passes(r)
    /\ \/ object' = [object EXCEPT ![r] = FALSE] /\ UNCHANGED storageFault
       \/ storageFault' = storageFault \cup {r} /\ UNCHANGED object
    /\ StepTo(r, "rejecting")
    /\ UNCHANGED <<intake, record, claim, job, run, age, sweep>>

(* Then everything else in one commit, the key cleared in either case. *)
RejectRows(r) ==
    /\ At(r, "rejecting")
    /\ keyed' = [keyed EXCEPT ![r] = FALSE]
    /\ status' = [status EXCEPT ![r] = "FAILED"]
    /\ claim' = [claim EXCEPT ![r] = IF @ = "held" THEN "released" ELSE @]
    /\ StepTo(r, "returning")
    /\ SetStage(r, "FAILED")
    /\ UNCHANGED <<intake, results, object, job, run, age, sweep, storageFault>>

(* _fail_terminally: _set_stage commits the failure ... *)
FailTerminally(r) ==
    /\ At(r, "categorize")
    /\ Committed(r) /\ KindOf(r) = "statement" /\ ~Passes(r)
    /\ status' = [status EXCEPT ![r] = "FAILED"]
    /\ StepTo(r, "terminal")
    /\ SetStage(r, "FAILED")
    /\ UNCHANGED <<intake, keyed, results, object, claim, job, run, age, sweep,
                   storageFault>>

(* ... and the claim is released in a second transaction. *)
ReleaseTerminally(r) ==
    /\ At(r, "terminal")
    /\ claim' = [claim EXCEPT ![r] = IF @ = "held" THEN "released" ELSE @]
    /\ StepTo(r, "returning")
    /\ UNCHANGED <<intake, record, object, job, run, age, sweep, storageFault>>

(* process_upload returns normally: RQ is done with the job. *)
FinishJob(r) ==
    /\ job[r] = "running"
    /\ step[r] \in {"completed", "returning"}
    /\ job' = [job EXCEPT ![r] = "over"]
    /\ StepTo(r, "idle")
    /\ UNCHANGED <<intake, record, object, claim, run, age, sweep, storageFault>>

PurgeCutShort(r) ==
    storageFault' = storageFault \cup {q \in {r} : step[q] = "rejecting"}

(* The work horse is killed, or an exception escapes outside the try block *)
(* or inside a failure handler: the transaction is gone and RQ sees a      *)
(* failed run.                                                             *)
KillHorse(r) ==
    /\ job[r] = "running"
    /\ step[r] # "raised"
    /\ StepTo(r, "raised")
    /\ PurgeCutShort(r)
    /\ UNCHANGED <<intake, record, object, claim, job, run, age, sweep>>

(* Retry(max = MaxAttempts - 1), without a delay. *)
RetryJob(r) ==
    /\ At(r, "raised")
    /\ attempts[r] < MaxAttempts
    /\ job' = [job EXCEPT ![r] = "queued"]
    /\ StepTo(r, "idle")
    /\ UNCHANGED <<intake, record, object, claim, run, age, sweep, storageFault>>

(* on_failure, once the retries are exhausted. *)
MarkJobFailed(r) ==
    /\ At(r, "raised")
    /\ attempts[r] = MaxAttempts
    /\ IF Committed(r) /\ stage[r] \notin Terminal
       THEN /\ SetStage(r, "FAILED")
            /\ status' = [status EXCEPT ![r] = "FAILED"]
            /\ claim' = [claim EXCEPT ![r] = IF @ = "held" THEN "released" ELSE @]
       ELSE UNCHANGED <<stage, status, claim>>
    /\ job' = [job EXCEPT ![r] = "over"]
    /\ StepTo(r, "idle")
    /\ UNCHANGED <<intake, keyed, results, object, run, age, sweep, storageFault>>

(* The whole worker process is lost, or its callback fails: nobody handles *)
(* the run.                                                                *)
LoseWorker(r) ==
    /\ job[r] = "running"
    /\ job' = [job EXCEPT ![r] = "over"]
    /\ StepTo(r, "idle")
    /\ PurgeCutShort(r)
    /\ UNCHANGED <<intake, record, object, claim, run, age, sweep>>

-----------------------------------------------------------------------------
(***************************************************************************)
(* retention_sweep: one transaction that reads, deletes objects, commits.  *)
(***************************************************************************)
(* Mutant: only jobs a worker had started count as abandoned. *)
AbandonedMidStage == {r \in Requests : /\ Committed(r)
                                      /\ stage[r] \notin Terminal \cup {"QUEUED"}
                                      /\ age[r] >= StuckAge}

(* Jobs in no terminal stage for STUCK_JOB_HOURS. *)
Abandoned == {r \in Requests : /\ Committed(r)
                              /\ stage[r] \notin Terminal
                              /\ age[r] >= StuckAge}

(* What the sweep makes of an upload: it fails those of the stuck jobs. *)
Outcome(r) == IF r \in stuck \ spared THEN "FAILED" ELSE status[r]

(* Files of failed uploads, those this sweep fails included. *)
FailedFiles == {r \in Requests : /\ Committed(r) /\ keyed[r]
                                /\ Outcome(r) = "FAILED"
                                /\ age[r] >= FileAge}

(* Results nobody confirmed. *)
OldImports == {r \in Requests : /\ Committed(r) /\ results[r]
                               /\ KindOf(r) = "statement" /\ age[r] >= ReviewAge}
OldReceipts == {r \in Requests : /\ Committed(r) /\ results[r]
                                /\ KindOf(r) = "image" /\ age[r] >= ReceiptAge}

ToPurge == {r \in FailedFiles \cup OldImports \cup OldReceipts : keyed[r]}

(* Mutant: expired claims alone do not make the sweep act. *)
RowsToSweep == stuck \cup ToPurge \cup OldImports \cup OldReceipts # {}

SomethingToSweep ==
    \/ stuck \cup ToPurge \cup OldImports \cup OldReceipts # {}
    \/ \E r \in Requests : claim[r] = "held" /\ Expired(r)

(* The stuck jobs are read first; a slow worker may still be running one. *)
SweepRead ==
    /\ stuck = {}
    /\ Abandoned # {}
    /\ stuck' = Abandoned
    /\ contested' = contested \cup
                       {r \in Abandoned \cap Running : status[r] # "PROCESSING"}
    /\ UNCHANGED <<intake, record, object, claim, work, age, loaded, spared, storageFault>>

(* Their uploads are loaded next; one that was read as FAILED is not       *)
(* written again.                                                          *)
SweepLoad ==
    /\ stuck # {} /\ ~loaded
    /\ loaded' = TRUE
    /\ spared' = {r \in stuck : status[r] = "FAILED"}
    /\ UNCHANGED <<intake, record, object, claim, work, age, stuck, contested,
                   storageFault>>

EndSweep == stuck' = {} /\ spared' = {} /\ loaded' = FALSE /\ UNCHANGED contested

(* Everything else happens at the commit.  "kept" are the files the object *)
(* store would not delete: a row keeps its key, but a receipt goes without *)
(* its file.                                                               *)
SweepCommit ==
    /\ SomethingToSweep
    /\ stuck # {} => loaded
    /\ \E kept \in SUBSET ToPurge :
          LET purged == ToPurge \ kept IN
          /\ object' = [r \in Requests |-> object[r] /\ r \notin purged]
          /\ keyed' = [r \in Requests |-> keyed[r] /\ r \notin purged]
          /\ storageFault' = storageFault \cup kept
    /\ stage' = [r \in Requests |-> IF r \in stuck THEN "FAILED" ELSE stage[r]]
    /\ status' = [r \in Requests |-> Outcome(r)]
    /\ results' = [r \in Requests |-> results[r] /\ r \notin OldImports \cup OldReceipts]
    /\ row' = [r \in Requests |-> IF r \in OldReceipts THEN "deleted" ELSE row[r]]
    /\ claim' = [r \in Requests |->
                    IF claim[r] # "held" THEN claim[r]
                    ELSE IF r \in stuck \cup OldReceipts THEN "released"
                    ELSE IF Expired(r) THEN "lapsed" ELSE "held"]
    /\ EndSweep
    /\ UNCHANGED <<request, work, age>>

(* The sweep dies after deleting some files: nothing else happened. *)
SweepCrash ==
    /\ stuck # {} \/ ToPurge # {}
    /\ \E gone \in SUBSET ToPurge :
          /\ object' = [r \in Requests |-> object[r] /\ r \notin gone]
          /\ storageFault' = storageFault \cup gone
    /\ EndSweep
    /\ UNCHANGED <<intake, record, claim, work, age>>

(* Time passes for one request's rows. *)
GrowOlder(r) ==
    /\ request[r] \notin {"start", "checked", "duplicate", "refused"}
    /\ age[r] < ReceiptAge
    /\ age' = [age EXCEPT ![r] = @ + 1]
    /\ UNCHANGED <<intake, record, object, claim, work, sweep, storageFault>>

-----------------------------------------------------------------------------
Handler(r) ==
    \/ FindExisting(r) \/ Reserve(r) \/ PutObject(r) \/ PutFails(r)
    \/ InsertUpload(r) \/ Enqueue(r) \/ EnqueueFails(r) \/ CommitUpload(r)
    \/ UndoClaim(r) \/ DiscardObject(r) \/ CrashRequest(r)

Worker(r) ==
    \/ TakeJob(r) \/ LoadRows(r) \/ BeginRun(r) \/ Extract(r) \/ Normalize(r)
    \/ WriteResults(r)
    \/ CompleteJob(r) \/ FailJob(r) \/ RejectObject(r) \/ RejectRows(r)
    \/ FailTerminally(r) \/ ReleaseTerminally(r) \/ FinishJob(r) \/ KillHorse(r)
    \/ RetryJob(r) \/ MarkJobFailed(r) \/ LoseWorker(r)

Sweep == SweepRead \/ SweepLoad \/ SweepCommit \/ SweepCrash

Next ==
    \/ Sweep
    \/ \E r \in Requests : Handler(r) \/ Worker(r) \/ GrowOlder(r)

Spec == Init /\ [][Next]_vars

(* The event loop runs every handler, a running worker runs its job, time  *)
(* passes, and the maintenance thread gets a whole sweep through again and *)
(* again, however often one dies.  Nothing makes a worker take a job.      *)
Fairness ==
    /\ \A r \in Requests :
          /\ WF_vars(Handler(r))
          /\ WF_vars(Worker(r) /\ job[r] = "running")
          /\ WF_vars(GrowOlder(r))
    /\ WF_vars(SweepRead)
    /\ SF_vars(SweepLoad)
    /\ SF_vars(SweepCommit)

FairSpec == Spec /\ Fairness

-----------------------------------------------------------------------------
(***************************************************************************)
(* Properties.                                                             *)
(***************************************************************************)
InFlight(r) == request[r] \notin {"start"} \cup Answers
Working(r) == job[r] = "running"

(* Identical bytes become one upload, however two requests interleave the  *)
(* lookup, the put and the insert (README: "a constraint, not a check").   *)
OneUploadPerContent ==
    \A r, q \in Requests :
        Committed(r) /\ Committed(q) /\ Content[r] = Content[q] => r = q

(* Every byte in the store is reachable from a row that can purge it,      *)
(* unless a handler is still at work, the process died, or the store       *)
(* itself refused a call; and a row that still names its object has it: no *)
(* purge forgets the key, and no loser of the insert race discards the     *)
(* winner's bytes.                                                         *)
ObjectsReachable ==
    \A r \in Requests :
        r \notin storageFault =>
            /\ object[r] /\ request[r] # "crashed" =>
                   InFlight(r) \/ (Committed(r) /\ keyed[r])
            /\ Committed(r) /\ keyed[r] => object[r] \/ At(r, "rejecting")

(* A complete upload is charged: its claim was converted in the commit     *)
(* that completed it, unless it had outlived its TTL; a worker faster than *)
(* the request never completes an upload whose claim is yet to be bound.   *)
CompleteIsCharged ==
    \A r \in Requests :
        status[r] = "COMPLETE" =>
            claim[r] = "converted" \/ (claim[r] # "held" /\ Expired(r))

(* Once nobody works on an upload, a job shown as terminal and its upload  *)
(* tell the same story, and what is complete has its transactions or its   *)
(* receipt.  The story is told wrong only where the upload had an outcome  *)
(* already and its job ran on, or again, while a sweep held it as          *)
(* abandoned: each then leaves out the status it read before the other     *)
(* wrote it, against "safe to run concurrently with normal traffic".       *)
StoryAgrees ==
    \A r \in Requests :
        Committed(r) /\ ~Working(r) =>
            /\ stage[r] \in Terminal => status[r] = stage[r] \/ r \in contested
            /\ status[r] = "COMPLETE" /\ KindOf(r) # "statement" => results[r]

(* No accepted upload stays "processing" forever: whatever was killed,     *)
(* lost or consumed too early, its job ends COMPLETE or FAILED for good.   *)
EveryUploadSettles ==
    <>[](\A r \in Requests : Committed(r) => stage[r] \in Terminal)

(* Every claim is given back in the end, converted, released or lapsed.    *)
EveryClaimReturns == <>[](\A r \in Requests : claim[r] # "held")
=============================================================================
