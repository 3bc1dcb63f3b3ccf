---------------------------- MODULE PipelineProofs ----------------------------
(* What is proved of the upload pipeline for any number of requests, files *)
(* of any kind, retries and workers: one upload per content, no lost and   *)
(* no forgotten object, a charge for what is complete, and one story told  *)
(* by the job and its upload.                                              *)
EXTENDS UploadPipeline, TLAPS

-----------------------------------------------------------------------------
(* The inductive invariant.                                                *)

(* The request's row is there between its INSERT and the rollback or the   *)
(* sweep that takes it away.                                               *)
RowFollows ==
    \A r \in Requests :
        /\ request[r] \in {"flushed", "enqueued"} <=> row[r] = "pending"
        /\ request[r] = "created" <=> row[r] \in {"committed", "deleted"}

(* No two rows of one content are pending or committed together. *)
OneAlive ==
    \A r, q \in Requests :
        /\ row[r] \in {"pending", "committed"} /\ row[q] \in {"pending", "committed"}
        /\ Content[r] = Content[q]
        => r = q

(* The queue has no job of a request that has not reached it, and a job in *)
(* the queue has a run left.                                               *)
JobFollows ==
    \A r \in Requests :
        /\ request[r] \in {"start", "checked", "reserved", "stored", "flushed"} =>
               job[r] = "none"
        /\ job[r] = "none" => attempts[r] = 0
        /\ job[r] = "queued" => attempts[r] < MaxAttempts
        /\ step[r] # "idle" => job[r] = "running"

(* A run past its first read has a committed upload, whatever becomes of   *)
(* the row later; and the worker's checks are behind it.                   *)
Judged ==
    \A r \in Requests :
        /\ step[r] \notin {"idle", "load", "raised"} => request[r] = "created"
        /\ step[r] \in {"rejecting", "terminal"} => ~Passes(r)
        /\ step[r] = "categorize" /\ KindOf(r) = "image" => Passes(r)
        /\ step[r] = "analyze" => Passes(r)
        /\ status[r] = "COMPLETE" => Passes(r) /\ request[r] = "created"

(* A claim is given up only by a request that will have no upload, after   *)
(* its TTL, or where nothing can complete any more.                        *)
ClaimFollows ==
    /\ \A r \in stuck : age[r] >= StuckAge
    /\ \A r \in Requests :
        /\ request[r] \in {"reserved", "stored", "flushed", "enqueued", "created",
                           "undo", "undoPut", "discard"} => claim[r] # "none"
        /\ claim[r] = "lapsed" => Expired(r)
        /\ claim[r] = "released" =>
               \/ Expired(r) \/ ~Passes(r) \/ job[r] = "over"
               \/ request[r] \in {"discard", "failed", "crashed"}

(* Who runs an upload that has its outcome already, under a sweep that     *)
(* holds its job, contests it: only then has the outcome changed since a   *)
(* run read COMPLETE or a sweep read FAILED.                               *)
Loaded == {"begin", "extract", "normalize", "categorize", "analyze"}
ContestFollows ==
    /\ \A r \in stuck :
          step[r] \in Loaded \cup {"load"} /\ status[r] # "PROCESSING" => r \in
       contested
    /\ \A r \in seen :
          step[r] \in Loaded => status[r] = "COMPLETE" \/ r \in contested
    /\ \A r \in spared :
          /\ status[r] # "PROCESSING"
          /\ status[r] = "FAILED" \/ r \in contested

(* What StoryAgrees says of a job at rest holds at every moment, and a run *)
(* about to complete has written its results.                              *)
StoryHolds ==
    \A r \in Requests :
        /\ stage[r] \in Terminal => status[r] = stage[r] \/ r \in contested
        /\ /\ Committed(r) /\ KindOf(r) # "statement"
           /\ status[r] = "COMPLETE" \/ step[r] = "analyze"
           => results[r]

(* Where the object of a request is, at each point of its life.            *)
ObjectFollows ==
    \A r \in Requests :
        /\ request[r] \in {"start", "checked", "reserved", "duplicate", "refused"} =>
               ~object[r]
        /\ request[r] \in {"stored", "flushed", "enqueued"} => object[r]
        /\ request[r] = "undoPut" => r \in storageFault
        /\ ~keyed[r] => request[r] = "created"
        /\ r \notin storageFault =>
              /\ request[r] = "failed" => ~object[r]
              /\ request[r] = "created" /\ object[r] => Committed(r) /\ keyed[r]
              /\ Committed(r) /\ keyed[r] => object[r] \/ At(r, "rejecting")
              /\ At(r, "rejecting") => ~object[r]

Inv == /\ TypeOK /\ RowFollows /\ OneAlive /\ JobFollows
       /\ Judged /\ ClaimFollows /\ CompleteIsCharged /\ ContestFollows
       /\ StoryHolds /\ ObjectFollows

-----------------------------------------------------------------------------
(* What each actor leaves alone. *)

(* A handler touches neither the job's run nor the sweep's. *)
LEMMA HandlerLeaves ==
    ASSUME NEW r \in Requests, Handler(r)
    PROVE  UNCHANGED <<keyed, status, stage, results, attempts, step, seen, age,
                        sweep>>
BY DEF Handler, record, work, run, sweep, FindExisting, Reserve, PutObject, PutFails,
       InsertUpload,
     Enqueue,
       EnqueueFails, CommitUpload, UndoClaim, DiscardObject, CrashRequest

(* A worker inserts no row and answers no request. *)
LEMMA WorkerLeaves ==
    ASSUME NEW r \in Requests, Worker(r)
    PROVE  UNCHANGED <<request, row, age, stuck, loaded, spared>>
BY DEF Worker, intake, run, sweep, TakeJob, LoadRows, BeginRun, Extract, Normalize,
       WriteResults, CompleteJob,
     FailJob,
       RejectObject, RejectRows, FailTerminally, ReleaseTerminally, FinishJob,
            KillHorse, RetryJob,
       MarkJobFailed, LoseWorker

(* Time passes for one request and changes nothing else. *)
LEMMA TimeLeaves ==
    ASSUME NEW r \in Requests, GrowOlder(r)
    PROVE  UNCHANGED <<request, row, keyed, status, stage, object, claim, results,
                       job, attempts, step, seen, sweep, storageFault>>
BY DEF GrowOlder, intake, record, work, run, sweep

(* Before its commit a sweep deletes objects, or nothing. *)
LEMMA SweepLeaves ==
    ASSUME SweepRead \/ SweepLoad \/ SweepCrash
    PROVE  UNCHANGED <<request, row, keyed, status, stage, claim, results,
                       job, attempts, step, seen, age>>
BY DEF SweepRead, SweepLoad, SweepCrash, EndSweep, intake, record, work, run, sweep

(* The commit of a sweep answers no request and runs no job. *)
LEMMA CommitLeaves ==
    ASSUME SweepCommit
    PROVE  UNCHANGED <<request, job, attempts, step, seen, age, contested>>
BY DEF SweepCommit, EndSweep, work, run

(* The thresholds are ordered as the settings are. *)
LEMMA Thresholds ==
    /\ {ReservationAge, StuckAge, ReviewAge, FileAge, ReceiptAge} \subseteq Nat \ {0}
    /\ ReservationAge <= StuckAge /\ ReservationAge <= ReceiptAge
BY PipelineAssumption

(* A content is of one of three kinds, and a CSV file passes. *)
LEMMA Kinds ==
    ASSUME NEW r \in Requests
    PROVE  /\ KindOf(r) \in {"csv", "image", "statement"}
           /\ KindOf(r) = "csv" => Passes(r)
BY PipelineAssumption DEF KindOf, Passes

-----------------------------------------------------------------------------
(* Every step keeps the types; a job taken from the queue has a run left. *)
LEMMA StepTypeOK ==
    ASSUME Inv, Next
    PROVE  TypeOK'
<1> USE PipelineAssumption DEF Inv, TypeOK, JobFollows, Goto, StepTo, SetStage, At,
       Answers, Stages, Terminal, intake, record, work, run, sweep
<1>1. ASSUME NEW r \in Requests, Handler(r)  PROVE TypeOK'
  <2>0. UNCHANGED <<keyed, status, stage, results, attempts, step, seen, age,
                        sweep>>
    BY <1>1, HandlerLeaves
  <2>1. CASE FindExisting(r)  BY <2>0, <2>1 DEF FindExisting
  <2>2. CASE Reserve(r)  BY <2>0, <2>2 DEF Reserve
  <2>3. CASE PutObject(r)  BY <2>0, <2>3 DEF PutObject
  <2>4. CASE PutFails(r)  BY <2>0, <2>4 DEF PutFails
  <2>5. CASE InsertUpload(r)  BY <2>0, <2>5 DEF InsertUpload
  <2>6. CASE Enqueue(r)  BY <2>0, <2>6 DEF Enqueue
  <2>7. CASE EnqueueFails(r)  BY <2>0, <2>7 DEF EnqueueFails
  <2>8. CASE CommitUpload(r)  BY <2>0, <2>8 DEF CommitUpload
  <2>9. CASE UndoClaim(r)  BY <2>0, <2>9 DEF UndoClaim
  <2>10. CASE DiscardObject(r)
    <3>1. storageFault' \subseteq Requests  BY <2>10 DEF DiscardObject
    <3>2. object' \in [Requests -> BOOLEAN]
      <4>1. object' = [object EXCEPT ![r] = FALSE] \/ object' = object
        BY <2>10 DEF DiscardObject
      <4>2. object \in [Requests -> BOOLEAN]  OBVIOUS
      <4> QED  BY ONLY <4>1, <4>2
    <3>3. UNCHANGED <<row, claim, job>>  BY <2>10 DEF DiscardObject
    <3>4. request' = [request EXCEPT ![r] = "failed"]  BY <2>10 DEF DiscardObject
    <3> QED  BY <2>0, <3>1, <3>2, <3>3, <3>4
  <2>11. CASE CrashRequest(r)  BY <2>0, <2>11 DEF CrashRequest
  <2> QED
    BY <1>1, <2>1, <2>2, <2>3, <2>4, <2>5, <2>6, <2>7, <2>8, <2>9, <2>10, <2>11 DEF
       Handler
<1>2. ASSUME NEW r \in Requests, Worker(r)  PROVE TypeOK'
  <2>0. UNCHANGED <<request, row, age, stuck, loaded, spared>>  BY <1>2, WorkerLeaves
  <2>1. CASE TakeJob(r)  BY <2>0, <2>1 DEF TakeJob
  <2>2. CASE LoadRows(r)  BY <2>0, <2>2 DEF LoadRows
  <2>3. CASE Extract(r)  BY <2>0, <2>3 DEF Extract
  <2>4. CASE Normalize(r)  BY <2>0, <2>4 DEF Normalize
  <2>5. CASE WriteResults(r)  BY <2>0, <2>5 DEF WriteResults
  <2>6. CASE CompleteJob(r)  BY <2>0, <2>6 DEF CompleteJob
  <2>7. CASE FailJob(r)  BY <2>0, <2>7 DEF FailJob
  <2>8. CASE RejectObject(r)
    <3>1. storageFault' \subseteq Requests  BY <2>8 DEF RejectObject
    <3>2. object' \in [Requests -> BOOLEAN]
      <4>1. object' = [object EXCEPT ![r] = FALSE] \/ object' = object
        BY <2>8 DEF RejectObject
      <4>2. object \in [Requests -> BOOLEAN]  OBVIOUS
      <4> QED  BY ONLY <4>1, <4>2
    <3>3. UNCHANGED <<keyed, status, stage, results, claim, job, attempts, seen, contested>>
      BY <2>8 DEF RejectObject
    <3>4. step' = [step EXCEPT ![r] = "rejecting"]  BY <2>8 DEF RejectObject
    <3> QED  BY <2>0, <3>1, <3>2, <3>3, <3>4
  <2>9. CASE RejectRows(r)  BY <2>0, <2>9 DEF RejectRows
  <2>10. CASE FailTerminally(r)  BY <2>0, <2>10 DEF FailTerminally
  <2>11. CASE ReleaseTerminally(r)  BY <2>0, <2>11 DEF ReleaseTerminally
  <2>12. CASE FinishJob(r)  BY <2>0, <2>12 DEF FinishJob
  <2>13. CASE KillHorse(r)  BY <2>0, <2>13 DEF KillHorse, PurgeCutShort
  <2>14. CASE RetryJob(r)  BY <2>0, <2>14 DEF RetryJob
  <2>15. CASE MarkJobFailed(r)  BY <2>0, <2>15 DEF MarkJobFailed
  <2>16. CASE LoseWorker(r)  BY <2>0, <2>16 DEF LoseWorker, PurgeCutShort
  <2>17. CASE BeginRun(r)  BY <2>0, <2>17 DEF BeginRun
  <2> QED
    BY <1>2, <2>1, <2>2, <2>3, <2>4, <2>5, <2>6, <2>7, <2>8, <2>9, <2>10, <2>11, <2>12,
       <2>13, <2>14, <2>15, <2>16, <2>17 DEF Worker
<1>3. ASSUME NEW r \in Requests, GrowOlder(r)  PROVE TypeOK'
  BY <1>3, TimeLeaves DEF GrowOlder
<1>4. CASE SweepRead
  BY <1>4, SweepLeaves DEF SweepRead, Abandoned
<1>7. CASE SweepLoad
  BY <1>7, SweepLeaves DEF SweepLoad
<1>5. CASE SweepCrash
  BY <1>5, SweepLeaves DEF SweepCrash, EndSweep, Outcome, ToPurge, FailedFiles,
       OldImports, OldReceipts
<1>6. CASE SweepCommit
  <2>0. UNCHANGED <<request, job, attempts, step, seen, age, contested>>
    BY <1>6, CommitLeaves
  <2>1. stuck' = {} /\ spared' = {} /\ loaded' = FALSE
    BY <1>6 DEF SweepCommit, EndSweep
  <2>2. ToPurge \subseteq Requests
    BY DEF ToPurge, FailedFiles, OldImports, OldReceipts
  <2>3. /\ object' \in [Requests -> BOOLEAN] /\ keyed' \in [Requests -> BOOLEAN]
        /\ storageFault' \subseteq Requests
    <3>1. PICK kept \in SUBSET ToPurge :
             /\ object' = [r \in Requests |-> object[r] /\ r \notin ToPurge \ kept]
             /\ keyed' = [r \in Requests |-> keyed[r] /\ r \notin ToPurge \ kept]
             /\ storageFault' = storageFault \cup kept
      BY <1>6 DEF SweepCommit
    <3> QED  BY <2>2, <3>1
  <2>4. /\ status' \in [Requests -> {"PROCESSING"} \cup Terminal]
        /\ stage' \in [Requests -> Stages]
    BY <1>6 DEF SweepCommit, Outcome
  <2>5. /\ results' \in [Requests -> BOOLEAN]
        /\ row' \in [Requests -> {"none", "pending", "committed", "deleted"}]
    BY <1>6 DEF SweepCommit
  <2>6. claim' \in [Requests -> {"none", "held", "converted", "released", "lapsed"}]
    BY <1>6 DEF SweepCommit
  <2> QED  BY <2>0, <2>1, <2>3, <2>4, <2>5, <2>6
<1> QED  BY <1>1, <1>2, <1>3, <1>4, <1>5, <1>6, <1>7 DEF Next, Sweep

(* A row is inserted, rolled back, committed and deleted with its request. *)
LEMMA StepRowFollows ==
    ASSUME Inv, Next
    PROVE  RowFollows'
<1> USE DEF Inv, TypeOK, intake, record, work, run, sweep, RowFollows, Goto, Committed
<1>1. ASSUME NEW r \in Requests, Handler(r)  PROVE RowFollows'
  <2>0. UNCHANGED <<keyed, status, stage, results, attempts, step, seen, age,
                        sweep>>
    BY <1>1, HandlerLeaves
  <2>1. CASE FindExisting(r)  BY <2>0, <2>1 DEF FindExisting
  <2>2. CASE Reserve(r)  BY <2>0, <2>2 DEF Reserve
  <2>3. CASE PutObject(r)  BY <2>0, <2>3 DEF PutObject
  <2>4. CASE PutFails(r)  BY <2>0, <2>4 DEF PutFails
  <2>5. CASE InsertUpload(r)  BY <2>0, <2>5 DEF InsertUpload
  <2>6. CASE Enqueue(r)  BY <2>0, <2>6 DEF Enqueue
  <2>7. CASE EnqueueFails(r)  BY <2>0, <2>7 DEF EnqueueFails
  <2>8. CASE CommitUpload(r)  BY <2>0, <2>8 DEF CommitUpload
  <2>9. CASE UndoClaim(r)  BY <2>0, <2>9 DEF UndoClaim
  <2>10. CASE DiscardObject(r)  BY <2>0, <2>10 DEF DiscardObject
  <2>11. CASE CrashRequest(r)  BY <2>0, <2>11 DEF CrashRequest
  <2> QED
    BY <1>1, <2>1, <2>2, <2>3, <2>4, <2>5, <2>6, <2>7, <2>8, <2>9, <2>10, <2>11 DEF
       Handler
<1>2. ASSUME NEW r \in Requests, Worker(r)  PROVE RowFollows'
  BY <1>2, WorkerLeaves
<1>3. ASSUME NEW r \in Requests, GrowOlder(r)  PROVE RowFollows'
  BY <1>3, TimeLeaves
<1>4. CASE SweepRead
  BY <1>4, SweepLeaves DEF SweepRead
<1>7. CASE SweepLoad
  BY <1>7, SweepLeaves DEF SweepLoad
<1>5. CASE SweepCrash
  BY <1>5, SweepLeaves DEF SweepCrash, EndSweep
<1>6. CASE SweepCommit
  BY <1>6, CommitLeaves DEF SweepCommit, EndSweep, Outcome, SomethingToSweep, ToPurge,
       FailedFiles,
       OldImports, OldReceipts
<1> QED  BY <1>1, <1>2, <1>3, <1>4, <1>5, <1>6, <1>7 DEF Next, Sweep

(* UNIQUE(user_id, content_hash) lets an insert through only where it is alone. *)
LEMMA StepOneAlive ==
    ASSUME Inv, Next
    PROVE  OneAlive'
<1> USE DEF Inv, TypeOK, intake, record, work, run, sweep, RowFollows, OneAlive,
       Committed, Twins
<1>1. ASSUME NEW r \in Requests, Handler(r)  PROVE OneAlive'
  <2>0. UNCHANGED <<keyed, status, stage, results, attempts, step, seen, age,
                        sweep>>
    BY <1>1, HandlerLeaves
  <2>1. CASE FindExisting(r)  BY <2>0, <2>1 DEF FindExisting
  <2>2. CASE Reserve(r)  BY <2>0, <2>2 DEF Reserve
  <2>3. CASE PutObject(r)  BY <2>0, <2>3 DEF PutObject
  <2>4. CASE PutFails(r)  BY <2>0, <2>4 DEF PutFails
  <2>5. CASE InsertUpload(r)  BY <2>0, <2>5 DEF InsertUpload
  <2>6. CASE Enqueue(r)  BY <2>0, <2>6 DEF Enqueue
  <2>7. CASE EnqueueFails(r)  BY <2>0, <2>7 DEF EnqueueFails
  <2>8. CASE CommitUpload(r)  BY <2>0, <2>8 DEF CommitUpload
  <2>9. CASE UndoClaim(r)  BY <2>0, <2>9 DEF UndoClaim
  <2>10. CASE DiscardObject(r)  BY <2>0, <2>10 DEF DiscardObject
  <2>11. CASE CrashRequest(r)  BY <2>0, <2>11 DEF CrashRequest
  <2> QED
    BY <1>1, <2>1, <2>2, <2>3, <2>4, <2>5, <2>6, <2>7, <2>8, <2>9, <2>10, <2>11 DEF
       Handler
<1>2. ASSUME NEW r \in Requests, Worker(r)  PROVE OneAlive'
  BY <1>2, WorkerLeaves
<1>3. ASSUME NEW r \in Requests, GrowOlder(r)  PROVE OneAlive'
  BY <1>3, TimeLeaves
<1>4. CASE SweepRead
  BY <1>4, SweepLeaves DEF SweepRead
<1>7. CASE SweepLoad
  BY <1>7, SweepLeaves DEF SweepLoad
<1>5. CASE SweepCrash
  BY <1>5, SweepLeaves DEF SweepCrash, EndSweep
<1>6. CASE SweepCommit
  BY <1>6, CommitLeaves DEF SweepCommit, EndSweep, Outcome, SomethingToSweep, ToPurge,
       FailedFiles,
       OldImports, OldReceipts
<1> QED  BY <1>1, <1>2, <1>3, <1>4, <1>5, <1>6, <1>7 DEF Next, Sweep

(* A job is queued by its request, and again by RQ while a run is left. *)
LEMMA StepJobFollows ==
    ASSUME Inv, Next
    PROVE  JobFollows'
<1> USE PipelineAssumption DEF Inv, TypeOK, intake, record, work, run, sweep,
       JobFollows, Goto,
       StepTo, At
<1>1. ASSUME NEW r \in Requests, Handler(r)  PROVE JobFollows'
  <2>0. UNCHANGED <<keyed, status, stage, results, attempts, step, seen, age,
                        sweep>>
    BY <1>1, HandlerLeaves
  <2>1. CASE FindExisting(r)  BY <2>0, <2>1 DEF FindExisting
  <2>2. CASE Reserve(r)  BY <2>0, <2>2 DEF Reserve
  <2>3. CASE PutObject(r)  BY <2>0, <2>3 DEF PutObject
  <2>4. CASE PutFails(r)  BY <2>0, <2>4 DEF PutFails
  <2>5. CASE InsertUpload(r)  BY <2>0, <2>5 DEF InsertUpload
  <2>6. CASE Enqueue(r)  BY <2>0, <2>6 DEF Enqueue
  <2>7. CASE EnqueueFails(r)  BY <2>0, <2>7 DEF EnqueueFails
  <2>8. CASE CommitUpload(r)  BY <2>0, <2>8 DEF CommitUpload
  <2>9. CASE UndoClaim(r)  BY <2>0, <2>9 DEF UndoClaim
  <2>10. CASE DiscardObject(r)  BY <2>0, <2>10 DEF DiscardObject
  <2>11. CASE CrashRequest(r)  BY <2>0, <2>11 DEF CrashRequest
  <2> QED
    BY <1>1, <2>1, <2>2, <2>3, <2>4, <2>5, <2>6, <2>7, <2>8, <2>9, <2>10, <2>11 DEF
       Handler
<1>2. ASSUME NEW r \in Requests, Worker(r)  PROVE JobFollows'
  <2>0. UNCHANGED <<request, row, age, stuck, loaded, spared>>  BY <1>2, WorkerLeaves
  <2>1. CASE TakeJob(r)  BY <2>0, <2>1 DEF TakeJob
  <2>2. CASE LoadRows(r)  BY <2>0, <2>2 DEF LoadRows
  <2>3. CASE Extract(r)  BY <2>0, <2>3 DEF Extract
  <2>4. CASE Normalize(r)  BY <2>0, <2>4 DEF Normalize
  <2>5. CASE WriteResults(r)  BY <2>0, <2>5 DEF WriteResults
  <2>6. CASE CompleteJob(r)  BY <2>0, <2>6 DEF CompleteJob
  <2>7. CASE FailJob(r)  BY <2>0, <2>7 DEF FailJob
  <2>8. CASE RejectObject(r)  BY <2>0, <2>8 DEF RejectObject, PurgeCutShort
  <2>9. CASE RejectRows(r)  BY <2>0, <2>9 DEF RejectRows
  <2>10. CASE FailTerminally(r)  BY <2>0, <2>10 DEF FailTerminally
  <2>11. CASE ReleaseTerminally(r)  BY <2>0, <2>11 DEF ReleaseTerminally
  <2>12. CASE FinishJob(r)  BY <2>0, <2>12 DEF FinishJob
  <2>13. CASE KillHorse(r)  BY <2>0, <2>13 DEF KillHorse, PurgeCutShort
  <2>14. CASE RetryJob(r)  BY <2>0, <2>14 DEF RetryJob
  <2>15. CASE MarkJobFailed(r)  BY <2>0, <2>15 DEF MarkJobFailed
  <2>16. CASE LoseWorker(r)  BY <2>0, <2>16 DEF LoseWorker, PurgeCutShort
  <2>17. CASE BeginRun(r)  BY <2>0, <2>17 DEF BeginRun
  <2> QED
    BY <1>2, <2>1, <2>2, <2>3, <2>4, <2>5, <2>6, <2>7, <2>8, <2>9, <2>10, <2>11, <2>12,
       <2>13, <2>14, <2>15, <2>16, <2>17 DEF Worker
<1>3. ASSUME NEW r \in Requests, GrowOlder(r)  PROVE JobFollows'
  BY <1>3, TimeLeaves
<1>4. CASE SweepRead
  BY <1>4, SweepLeaves DEF SweepRead
<1>7. CASE SweepLoad
  BY <1>7, SweepLeaves DEF SweepLoad
<1>5. CASE SweepCrash
  BY <1>5, SweepLeaves DEF SweepCrash, EndSweep
<1>6. CASE SweepCommit
  BY <1>6, CommitLeaves
<1> QED  BY <1>1, <1>2, <1>3, <1>4, <1>5, <1>6, <1>7 DEF Next, Sweep

(* A run goes on only with a committed row, and completes only what passes. *)
LEMMA StepJudged ==
    ASSUME Inv, Next
    PROVE  Judged'
<1> USE Kinds DEF Inv, TypeOK, intake, record, work, run, sweep, RowFollows, Judged,
       Goto, StepTo,
       SetStage, At, Committed, KindOf, Passes, Terminal
<1>1. ASSUME NEW r \in Requests, Handler(r)  PROVE Judged'
  <2>0. UNCHANGED <<keyed, status, stage, results, attempts, step, seen, age,
                        sweep>>
    BY <1>1, HandlerLeaves
  <2>1. CASE FindExisting(r)  BY <2>0, <2>1 DEF FindExisting
  <2>2. CASE Reserve(r)  BY <2>0, <2>2 DEF Reserve
  <2>3. CASE PutObject(r)  BY <2>0, <2>3 DEF PutObject
  <2>4. CASE PutFails(r)  BY <2>0, <2>4 DEF PutFails
  <2>5. CASE InsertUpload(r)  BY <2>0, <2>5 DEF InsertUpload
  <2>6. CASE Enqueue(r)  BY <2>0, <2>6 DEF Enqueue
  <2>7. CASE EnqueueFails(r)  BY <2>0, <2>7 DEF EnqueueFails
  <2>8. CASE CommitUpload(r)  BY <2>0, <2>8 DEF CommitUpload
  <2>9. CASE UndoClaim(r)  BY <2>0, <2>9 DEF UndoClaim
  <2>10. CASE DiscardObject(r)  BY <2>0, <2>10 DEF DiscardObject
  <2>11. CASE CrashRequest(r)  BY <2>0, <2>11 DEF CrashRequest
  <2> QED
    BY <1>1, <2>1, <2>2, <2>3, <2>4, <2>5, <2>6, <2>7, <2>8, <2>9, <2>10, <2>11 DEF
       Handler
<1>2. ASSUME NEW r \in Requests, Worker(r)  PROVE Judged'
  <2>0. UNCHANGED <<request, row, age, stuck, loaded, spared>>  BY <1>2, WorkerLeaves
  <2>1. CASE TakeJob(r)  BY <2>0, <2>1 DEF TakeJob
  <2>2. CASE LoadRows(r)  BY <2>0, <2>2 DEF LoadRows
  <2>3. CASE Extract(r)  BY <2>0, <2>3 DEF Extract
  <2>4. CASE Normalize(r)  BY <2>0, <2>4 DEF Normalize
  <2>5. CASE WriteResults(r)  BY <2>0, <2>5 DEF WriteResults
  <2>6. CASE CompleteJob(r)  BY <2>0, <2>6 DEF CompleteJob
  <2>7. CASE FailJob(r)  BY <2>0, <2>7 DEF FailJob
  <2>8. CASE RejectObject(r)  BY <2>0, <2>8 DEF RejectObject, PurgeCutShort
  <2>9. CASE RejectRows(r)  BY <2>0, <2>9 DEF RejectRows
  <2>10. CASE FailTerminally(r)  BY <2>0, <2>10 DEF FailTerminally
  <2>11. CASE ReleaseTerminally(r)  BY <2>0, <2>11 DEF ReleaseTerminally
  <2>12. CASE FinishJob(r)  BY <2>0, <2>12 DEF FinishJob
  <2>13. CASE KillHorse(r)  BY <2>0, <2>13 DEF KillHorse, PurgeCutShort
  <2>14. CASE RetryJob(r)  BY <2>0, <2>14 DEF RetryJob
  <2>15. CASE MarkJobFailed(r)  BY <2>0, <2>15 DEF MarkJobFailed
  <2>16. CASE LoseWorker(r)  BY <2>0, <2>16 DEF LoseWorker, PurgeCutShort
  <2>17. CASE BeginRun(r)  BY <2>0, <2>17 DEF BeginRun
  <2> QED
    BY <1>2, <2>1, <2>2, <2>3, <2>4, <2>5, <2>6, <2>7, <2>8, <2>9, <2>10, <2>11, <2>12,
       <2>13, <2>14, <2>15, <2>16, <2>17 DEF Worker
<1>3. ASSUME NEW r \in Requests, GrowOlder(r)  PROVE Judged'
  BY <1>3, TimeLeaves
<1>4. CASE SweepRead
  BY <1>4, SweepLeaves DEF SweepRead
<1>7. CASE SweepLoad
  BY <1>7, SweepLeaves DEF SweepLoad
<1>5. CASE SweepCrash
  BY <1>5, SweepLeaves DEF SweepCrash, EndSweep
<1>6. CASE SweepCommit
  BY <1>6, CommitLeaves DEF SweepCommit, EndSweep, Outcome, SomethingToSweep, ToPurge,
       FailedFiles,
       OldImports, OldReceipts
<1> QED  BY <1>1, <1>2, <1>3, <1>4, <1>5, <1>6, <1>7 DEF Next, Sweep

(* Whoever releases a claim has made sure that no charge is lost. *)
LEMMA StepClaimFollows ==
    ASSUME Inv, Next
    PROVE  ClaimFollows'
<1> USE Thresholds DEF Inv, TypeOK, intake, record, work, run, sweep, RowFollows,
       JobFollows,
       Judged, ClaimFollows, Goto, StepTo, At, Committed, Expired, Answers
<1>1. ASSUME NEW r \in Requests, Handler(r)  PROVE ClaimFollows'
  <2>0. UNCHANGED <<keyed, status, stage, results, attempts, step, seen, age,
                        sweep>>
    BY <1>1, HandlerLeaves
  <2>1. CASE FindExisting(r)  BY <2>0, <2>1 DEF FindExisting
  <2>2. CASE Reserve(r)  BY <2>0, <2>2 DEF Reserve
  <2>3. CASE PutObject(r)  BY <2>0, <2>3 DEF PutObject
  <2>4. CASE PutFails(r)  BY <2>0, <2>4 DEF PutFails
  <2>5. CASE InsertUpload(r)  BY <2>0, <2>5 DEF InsertUpload
  <2>6. CASE Enqueue(r)  BY <2>0, <2>6 DEF Enqueue
  <2>7. CASE EnqueueFails(r)  BY <2>0, <2>7 DEF EnqueueFails
  <2>8. CASE CommitUpload(r)  BY <2>0, <2>8 DEF CommitUpload
  <2>9. CASE UndoClaim(r)  BY <2>0, <2>9 DEF UndoClaim
  <2>10. CASE DiscardObject(r)  BY <2>0, <2>10 DEF DiscardObject
  <2>11. CASE CrashRequest(r)  BY <2>0, <2>11 DEF CrashRequest
  <2> QED
    BY <1>1, <2>1, <2>2, <2>3, <2>4, <2>5, <2>6, <2>7, <2>8, <2>9, <2>10, <2>11 DEF
       Handler
<1>2. ASSUME NEW r \in Requests, Worker(r)  PROVE ClaimFollows'
  <2>0. UNCHANGED <<request, row, age, stuck, loaded, spared>>  BY <1>2, WorkerLeaves
  <2>1. CASE TakeJob(r)  BY <2>0, <2>1 DEF TakeJob
  <2>2. CASE LoadRows(r)  BY <2>0, <2>2 DEF LoadRows
  <2>3. CASE Extract(r)  BY <2>0, <2>3 DEF Extract
  <2>4. CASE Normalize(r)  BY <2>0, <2>4 DEF Normalize
  <2>5. CASE WriteResults(r)  BY <2>0, <2>5 DEF WriteResults
  <2>6. CASE CompleteJob(r)  BY <2>0, <2>6 DEF CompleteJob
  <2>7. CASE FailJob(r)  BY <2>0, <2>7 DEF FailJob
  <2>8. CASE RejectObject(r)  BY <2>0, <2>8 DEF RejectObject, PurgeCutShort
  <2>9. CASE RejectRows(r)  BY <2>0, <2>9 DEF RejectRows
  <2>10. CASE FailTerminally(r)  BY <2>0, <2>10 DEF FailTerminally
  <2>11. CASE ReleaseTerminally(r)  BY <2>0, <2>11 DEF ReleaseTerminally
  <2>12. CASE FinishJob(r)  BY <2>0, <2>12 DEF FinishJob
  <2>13. CASE KillHorse(r)  BY <2>0, <2>13 DEF KillHorse, PurgeCutShort
  <2>14. CASE RetryJob(r)  BY <2>0, <2>14 DEF RetryJob
  <2>15. CASE MarkJobFailed(r)  BY <2>0, <2>15 DEF MarkJobFailed
  <2>16. CASE LoseWorker(r)  BY <2>0, <2>16 DEF LoseWorker, PurgeCutShort
  <2>17. CASE BeginRun(r)  BY <2>0, <2>17 DEF BeginRun
  <2> QED
    BY <1>2, <2>1, <2>2, <2>3, <2>4, <2>5, <2>6, <2>7, <2>8, <2>9, <2>10, <2>11, <2>12,
       <2>13, <2>14, <2>15, <2>16, <2>17 DEF Worker
<1>3. ASSUME NEW r \in Requests, GrowOlder(r)  PROVE ClaimFollows'
  BY <1>3, TimeLeaves DEF GrowOlder
<1>4. CASE SweepRead
  BY <1>4, SweepLeaves DEF SweepRead, Abandoned
<1>7. CASE SweepLoad
  BY <1>7, SweepLeaves DEF SweepLoad
<1>5. CASE SweepCrash
  BY <1>5, SweepLeaves DEF SweepCrash, EndSweep, Outcome, ToPurge, FailedFiles,
       OldImports, OldReceipts
<1>6. CASE SweepCommit
  BY <1>6, CommitLeaves DEF SweepCommit, EndSweep, Outcome, SomethingToSweep, ToPurge,
       FailedFiles,
       OldImports, OldReceipts
<1> QED  BY <1>1, <1>2, <1>3, <1>4, <1>5, <1>6, <1>7 DEF Next, Sweep

(* The commit that completes an upload converts the claim that is there. *)
LEMMA StepCompleteIsCharged ==
    ASSUME Inv, Next
    PROVE  CompleteIsCharged'
<1> USE Thresholds DEF Inv, TypeOK, intake, record, work, run, sweep, RowFollows,
       JobFollows,
       Judged, ClaimFollows, CompleteIsCharged, StepTo, At, Committed, Expired
<1>1. ASSUME NEW r \in Requests, Handler(r)  PROVE CompleteIsCharged'
  <2>0. UNCHANGED <<keyed, status, stage, results, attempts, step, seen, age,
                        sweep>>
    BY <1>1, HandlerLeaves
  <2>1. CASE FindExisting(r)  BY <2>0, <2>1 DEF FindExisting
  <2>2. CASE Reserve(r)  BY <2>0, <2>2 DEF Reserve
  <2>3. CASE PutObject(r)  BY <2>0, <2>3 DEF PutObject
  <2>4. CASE PutFails(r)  BY <2>0, <2>4 DEF PutFails
  <2>5. CASE InsertUpload(r)  BY <2>0, <2>5 DEF InsertUpload
  <2>6. CASE Enqueue(r)  BY <2>0, <2>6 DEF Enqueue
  <2>7. CASE EnqueueFails(r)  BY <2>0, <2>7 DEF EnqueueFails
  <2>8. CASE CommitUpload(r)  BY <2>0, <2>8 DEF CommitUpload
  <2>9. CASE UndoClaim(r)  BY <2>0, <2>9 DEF UndoClaim
  <2>10. CASE DiscardObject(r)  BY <2>0, <2>10 DEF DiscardObject
  <2>11. CASE CrashRequest(r)  BY <2>0, <2>11 DEF CrashRequest
  <2> QED
    BY <1>1, <2>1, <2>2, <2>3, <2>4, <2>5, <2>6, <2>7, <2>8, <2>9, <2>10, <2>11 DEF
       Handler
<1>2. ASSUME NEW r \in Requests, Worker(r)  PROVE CompleteIsCharged'
  <2>0. UNCHANGED <<request, row, age, stuck, loaded, spared>>  BY <1>2, WorkerLeaves
  <2>1. CASE TakeJob(r)  BY <2>0, <2>1 DEF TakeJob
  <2>2. CASE LoadRows(r)  BY <2>0, <2>2 DEF LoadRows
  <2>3. CASE Extract(r)  BY <2>0, <2>3 DEF Extract
  <2>4. CASE Normalize(r)  BY <2>0, <2>4 DEF Normalize
  <2>5. CASE WriteResults(r)  BY <2>0, <2>5 DEF WriteResults
  <2>6. CASE CompleteJob(r)  BY <2>0, <2>6 DEF CompleteJob
  <2>7. CASE FailJob(r)  BY <2>0, <2>7 DEF FailJob
  <2>8. CASE RejectObject(r)  BY <2>0, <2>8 DEF RejectObject, PurgeCutShort
  <2>9. CASE RejectRows(r)  BY <2>0, <2>9 DEF RejectRows
  <2>10. CASE FailTerminally(r)  BY <2>0, <2>10 DEF FailTerminally
  <2>11. CASE ReleaseTerminally(r)  BY <2>0, <2>11 DEF ReleaseTerminally
  <2>12. CASE FinishJob(r)  BY <2>0, <2>12 DEF FinishJob
  <2>13. CASE KillHorse(r)  BY <2>0, <2>13 DEF KillHorse, PurgeCutShort
  <2>14. CASE RetryJob(r)  BY <2>0, <2>14 DEF RetryJob
  <2>15. CASE MarkJobFailed(r)  BY <2>0, <2>15 DEF MarkJobFailed
  <2>16. CASE LoseWorker(r)  BY <2>0, <2>16 DEF LoseWorker, PurgeCutShort
  <2>17. CASE BeginRun(r)  BY <2>0, <2>17 DEF BeginRun
  <2> QED
    BY <1>2, <2>1, <2>2, <2>3, <2>4, <2>5, <2>6, <2>7, <2>8, <2>9, <2>10, <2>11, <2>12,
       <2>13, <2>14, <2>15, <2>16, <2>17 DEF Worker
<1>3. ASSUME NEW r \in Requests, GrowOlder(r)  PROVE CompleteIsCharged'
  BY <1>3, TimeLeaves DEF GrowOlder
<1>4. CASE SweepRead
  BY <1>4, SweepLeaves DEF SweepRead
<1>7. CASE SweepLoad
  BY <1>7, SweepLeaves DEF SweepLoad
<1>5. CASE SweepCrash
  BY <1>5, SweepLeaves DEF SweepCrash, EndSweep
<1>6. CASE SweepCommit
  BY <1>6, CommitLeaves DEF SweepCommit, EndSweep, Outcome, SomethingToSweep, ToPurge,
       FailedFiles,
       OldImports, OldReceipts
<1> QED  BY <1>1, <1>2, <1>3, <1>4, <1>5, <1>6, <1>7 DEF Next, Sweep

(* Whoever loads a status that changes under it is seen to contest it. *)
LEMMA StepContestFollows ==
    ASSUME Inv, Next
    PROVE  ContestFollows'
<1> USE Kinds DEF Inv, TypeOK, intake, record, work, run, sweep, RowFollows,
       JobFollows, Judged, ContestFollows, Loaded, Running,
       StepTo, SetStage, At, Committed, Terminal, KindOf
<1>1. ASSUME NEW r \in Requests, Handler(r)  PROVE ContestFollows'
  <2>0. UNCHANGED <<keyed, status, stage, results, attempts, step, seen, age,
                        sweep>>
    BY <1>1, HandlerLeaves
  <2>1. CASE FindExisting(r)  BY <2>0, <2>1 DEF FindExisting
  <2>2. CASE Reserve(r)  BY <2>0, <2>2 DEF Reserve
  <2>3. CASE PutObject(r)  BY <2>0, <2>3 DEF PutObject
  <2>4. CASE PutFails(r)  BY <2>0, <2>4 DEF PutFails
  <2>5. CASE InsertUpload(r)  BY <2>0, <2>5 DEF InsertUpload
  <2>6. CASE Enqueue(r)  BY <2>0, <2>6 DEF Enqueue
  <2>7. CASE EnqueueFails(r)  BY <2>0, <2>7 DEF EnqueueFails
  <2>8. CASE CommitUpload(r)  BY <2>0, <2>8 DEF CommitUpload
  <2>9. CASE UndoClaim(r)  BY <2>0, <2>9 DEF UndoClaim
  <2>10. CASE DiscardObject(r)  BY <2>0, <2>10 DEF DiscardObject
  <2>11. CASE CrashRequest(r)  BY <2>0, <2>11 DEF CrashRequest
  <2> QED
    BY <1>1, <2>1, <2>2, <2>3, <2>4, <2>5, <2>6, <2>7, <2>8, <2>9, <2>10, <2>11 DEF
       Handler
<1>2. ASSUME NEW r \in Requests, Worker(r)  PROVE ContestFollows'
  <2>0. UNCHANGED <<request, row, age, stuck, loaded, spared>>  BY <1>2, WorkerLeaves
  <2>1. CASE TakeJob(r)  BY <2>0, <2>1 DEF TakeJob
  <2>2. CASE LoadRows(r)  BY <2>0, <2>2 DEF LoadRows
  <2>3. CASE Extract(r)  BY <2>0, <2>3 DEF Extract
  <2>4. CASE Normalize(r)  BY <2>0, <2>4 DEF Normalize
  <2>5. CASE WriteResults(r)  BY <2>0, <2>5 DEF WriteResults
  <2>6. CASE CompleteJob(r)  BY <2>0, <2>6 DEF CompleteJob
  <2>7. CASE FailJob(r)  BY <2>0, <2>7 DEF FailJob
  <2>8. CASE RejectObject(r)  BY <2>0, <2>8 DEF RejectObject, PurgeCutShort
  <2>9. CASE RejectRows(r)  BY <2>0, <2>9 DEF RejectRows
  <2>10. CASE FailTerminally(r)  BY <2>0, <2>10 DEF FailTerminally
  <2>11. CASE ReleaseTerminally(r)  BY <2>0, <2>11 DEF ReleaseTerminally
  <2>12. CASE FinishJob(r)  BY <2>0, <2>12 DEF FinishJob
  <2>13. CASE KillHorse(r)  BY <2>0, <2>13 DEF KillHorse, PurgeCutShort
  <2>14. CASE RetryJob(r)  BY <2>0, <2>14 DEF RetryJob
  <2>15. CASE MarkJobFailed(r)  BY <2>0, <2>15 DEF MarkJobFailed
  <2>16. CASE LoseWorker(r)  BY <2>0, <2>16 DEF LoseWorker, PurgeCutShort
  <2>17. CASE BeginRun(r)  BY <2>0, <2>17 DEF BeginRun
  <2> QED
    BY <1>2, <2>1, <2>2, <2>3, <2>4, <2>5, <2>6, <2>7, <2>8, <2>9, <2>10, <2>11, <2>12,
       <2>13, <2>14, <2>15, <2>16, <2>17 DEF Worker
<1>3. ASSUME NEW r \in Requests, GrowOlder(r)  PROVE ContestFollows'
  BY <1>3, TimeLeaves
<1>4. CASE SweepRead
  BY <1>4, SweepLeaves DEF SweepRead, Abandoned
<1>7. CASE SweepLoad
  BY <1>7, SweepLeaves DEF SweepLoad
<1>5. CASE SweepCrash
  BY <1>5, SweepLeaves DEF SweepCrash, EndSweep
<1>6. CASE SweepCommit
  BY <1>6, CommitLeaves DEF SweepCommit, EndSweep, Outcome, SomethingToSweep, ToPurge,
       FailedFiles,
       OldImports, OldReceipts
<1> QED  BY <1>1, <1>2, <1>3, <1>4, <1>5, <1>6, <1>7 DEF Next, Sweep

(* The job and its upload are written together, and the results before them. *)
LEMMA StepStoryHolds ==
    ASSUME Inv, Next
    PROVE  StoryHolds'
<1> USE Kinds DEF Inv, TypeOK, intake, record, work, run, sweep, RowFollows, Judged,
       ContestFollows, Loaded, StoryHolds,
       StepTo, SetStage, At, Committed, Terminal, KindOf
<1>1. ASSUME NEW r \in Requests, Handler(r)  PROVE StoryHolds'
  <2>0. UNCHANGED <<keyed, status, stage, results, attempts, step, seen, age,
                        sweep>>
    BY <1>1, HandlerLeaves
  <2>1. CASE FindExisting(r)  BY <2>0, <2>1 DEF FindExisting
  <2>2. CASE Reserve(r)  BY <2>0, <2>2 DEF Reserve
  <2>3. CASE PutObject(r)  BY <2>0, <2>3 DEF PutObject
  <2>4. CASE PutFails(r)  BY <2>0, <2>4 DEF PutFails
  <2>5. CASE InsertUpload(r)  BY <2>0, <2>5 DEF InsertUpload
  <2>6. CASE Enqueue(r)  BY <2>0, <2>6 DEF Enqueue
  <2>7. CASE EnqueueFails(r)  BY <2>0, <2>7 DEF EnqueueFails
  <2>8. CASE CommitUpload(r)  BY <2>0, <2>8 DEF CommitUpload
  <2>9. CASE UndoClaim(r)  BY <2>0, <2>9 DEF UndoClaim
  <2>10. CASE DiscardObject(r)  BY <2>0, <2>10 DEF DiscardObject
  <2>11. CASE CrashRequest(r)  BY <2>0, <2>11 DEF CrashRequest
  <2> QED
    BY <1>1, <2>1, <2>2, <2>3, <2>4, <2>5, <2>6, <2>7, <2>8, <2>9, <2>10, <2>11 DEF
       Handler
<1>2. ASSUME NEW r \in Requests, Worker(r)  PROVE StoryHolds'
  <2>0. UNCHANGED <<request, row, age, stuck, loaded, spared>>  BY <1>2, WorkerLeaves
  <2>1. CASE TakeJob(r)  BY <2>0, <2>1 DEF TakeJob
  <2>2. CASE LoadRows(r)  BY <2>0, <2>2 DEF LoadRows
  <2>3. CASE Extract(r)  BY <2>0, <2>3 DEF Extract
  <2>4. CASE Normalize(r)  BY <2>0, <2>4 DEF Normalize
  <2>5. CASE WriteResults(r)  BY <2>0, <2>5 DEF WriteResults
  <2>6. CASE CompleteJob(r)  BY <2>0, <2>6 DEF CompleteJob
  <2>7. CASE FailJob(r)  BY <2>0, <2>7 DEF FailJob
  <2>8. CASE RejectObject(r)  BY <2>0, <2>8 DEF RejectObject, PurgeCutShort
  <2>9. CASE RejectRows(r)  BY <2>0, <2>9 DEF RejectRows
  <2>10. CASE FailTerminally(r)  BY <2>0, <2>10 DEF FailTerminally
  <2>11. CASE ReleaseTerminally(r)  BY <2>0, <2>11 DEF ReleaseTerminally
  <2>12. CASE FinishJob(r)  BY <2>0, <2>12 DEF FinishJob
  <2>13. CASE KillHorse(r)  BY <2>0, <2>13 DEF KillHorse, PurgeCutShort
  <2>14. CASE RetryJob(r)  BY <2>0, <2>14 DEF RetryJob
  <2>15. CASE MarkJobFailed(r)  BY <2>0, <2>15 DEF MarkJobFailed
  <2>16. CASE LoseWorker(r)  BY <2>0, <2>16 DEF LoseWorker, PurgeCutShort
  <2>17. CASE BeginRun(r)  BY <2>0, <2>17 DEF BeginRun
  <2> QED
    BY <1>2, <2>1, <2>2, <2>3, <2>4, <2>5, <2>6, <2>7, <2>8, <2>9, <2>10, <2>11, <2>12,
       <2>13, <2>14, <2>15, <2>16, <2>17 DEF Worker
<1>3. ASSUME NEW r \in Requests, GrowOlder(r)  PROVE StoryHolds'
  BY <1>3, TimeLeaves
<1>4. CASE SweepRead
  BY <1>4, SweepLeaves DEF SweepRead
<1>7. CASE SweepLoad
  BY <1>7, SweepLeaves DEF SweepLoad
<1>5. CASE SweepCrash
  BY <1>5, SweepLeaves DEF SweepCrash, EndSweep
<1>6. CASE SweepCommit
  BY <1>6, CommitLeaves DEF SweepCommit, EndSweep, Outcome, SomethingToSweep, ToPurge,
       FailedFiles,
       OldImports, OldReceipts
<1> QED  BY <1>1, <1>2, <1>3, <1>4, <1>5, <1>6, <1>7 DEF Next, Sweep

(* No step forgets an object it leaves behind, or takes one that is named. *)
LEMMA StepObjectFollows ==
    ASSUME Inv, Next
    PROVE  ObjectFollows'
<1> USE DEF Inv, TypeOK, intake, record, work, run, sweep, RowFollows, JobFollows,
       Judged,
       ObjectFollows, Goto, StepTo, At, Committed, Answers
<1>1. ASSUME NEW r \in Requests, Handler(r)  PROVE ObjectFollows'
  <2>0. UNCHANGED <<keyed, status, stage, results, attempts, step, seen, age,
                        sweep>>
    BY <1>1, HandlerLeaves
  <2>1. CASE FindExisting(r)  BY <2>0, <2>1 DEF FindExisting
  <2>2. CASE Reserve(r)  BY <2>0, <2>2 DEF Reserve
  <2>3. CASE PutObject(r)  BY <2>0, <2>3 DEF PutObject
  <2>4. CASE PutFails(r)  BY <2>0, <2>4 DEF PutFails
  <2>5. CASE InsertUpload(r)  BY <2>0, <2>5 DEF InsertUpload
  <2>6. CASE Enqueue(r)  BY <2>0, <2>6 DEF Enqueue
  <2>7. CASE EnqueueFails(r)  BY <2>0, <2>7 DEF EnqueueFails
  <2>8. CASE CommitUpload(r)  BY <2>0, <2>8 DEF CommitUpload
  <2>9. CASE UndoClaim(r)  BY <2>0, <2>9 DEF UndoClaim
  <2>10. CASE DiscardObject(r)  BY <2>0, <2>10 DEF DiscardObject
  <2>11. CASE CrashRequest(r)  BY <2>0, <2>11 DEF CrashRequest
  <2> QED
    BY <1>1, <2>1, <2>2, <2>3, <2>4, <2>5, <2>6, <2>7, <2>8, <2>9, <2>10, <2>11 DEF
       Handler
<1>2. ASSUME NEW r \in Requests, Worker(r)  PROVE ObjectFollows'
  <2>0. UNCHANGED <<request, row, age, stuck, loaded, spared>>  BY <1>2, WorkerLeaves
  <2>1. CASE TakeJob(r)  BY <2>0, <2>1 DEF TakeJob
  <2>2. CASE LoadRows(r)  BY <2>0, <2>2 DEF LoadRows
  <2>3. CASE Extract(r)  BY <2>0, <2>3 DEF Extract
  <2>4. CASE Normalize(r)  BY <2>0, <2>4 DEF Normalize
  <2>5. CASE WriteResults(r)  BY <2>0, <2>5 DEF WriteResults
  <2>6. CASE CompleteJob(r)  BY <2>0, <2>6 DEF CompleteJob
  <2>7. CASE FailJob(r)  BY <2>0, <2>7 DEF FailJob
  <2>8. CASE RejectObject(r)  BY <2>0, <2>8 DEF RejectObject, PurgeCutShort
  <2>9. CASE RejectRows(r)  BY <2>0, <2>9 DEF RejectRows
  <2>10. CASE FailTerminally(r)  BY <2>0, <2>10 DEF FailTerminally
  <2>11. CASE ReleaseTerminally(r)  BY <2>0, <2>11 DEF ReleaseTerminally
  <2>12. CASE FinishJob(r)  BY <2>0, <2>12 DEF FinishJob
  <2>13. CASE KillHorse(r)  BY <2>0, <2>13 DEF KillHorse, PurgeCutShort
  <2>14. CASE RetryJob(r)  BY <2>0, <2>14 DEF RetryJob
  <2>15. CASE MarkJobFailed(r)  BY <2>0, <2>15 DEF MarkJobFailed
  <2>16. CASE LoseWorker(r)  BY <2>0, <2>16 DEF LoseWorker, PurgeCutShort
  <2>17. CASE BeginRun(r)  BY <2>0, <2>17 DEF BeginRun
  <2> QED
    BY <1>2, <2>1, <2>2, <2>3, <2>4, <2>5, <2>6, <2>7, <2>8, <2>9, <2>10, <2>11, <2>12,
       <2>13, <2>14, <2>15, <2>16, <2>17 DEF Worker
<1>3. ASSUME NEW r \in Requests, GrowOlder(r)  PROVE ObjectFollows'
  BY <1>3, TimeLeaves
<1>4. CASE SweepRead
  BY <1>4, SweepLeaves DEF SweepRead, Abandoned
<1>7. CASE SweepLoad
  BY <1>7, SweepLeaves DEF SweepLoad
<1>5. CASE SweepCrash
  BY <1>5, SweepLeaves DEF SweepCrash, EndSweep, Outcome, ToPurge, FailedFiles,
       OldImports, OldReceipts
<1>6. CASE SweepCommit
  <2>1. PICK kept \in SUBSET ToPurge :
           /\ object' = [r \in Requests |-> object[r] /\ r \notin ToPurge \ kept]
           /\ keyed' = [r \in Requests |-> keyed[r] /\ r \notin ToPurge \ kept]
           /\ storageFault' = storageFault \cup kept
    BY <1>6 DEF SweepCommit
  <2>2. row' = [r \in Requests |-> IF r \in OldReceipts THEN "deleted" ELSE row[r]]
    BY <1>6 DEF SweepCommit
  <2>3. UNCHANGED <<request, job, step>>  BY <1>6, CommitLeaves
  <2>4. \A r \in ToPurge \cup OldReceipts : row[r] = "committed" /\ request[r] = "created"
    BY DEF ToPurge, FailedFiles, OldImports, OldReceipts
  <2>5. \A r \in OldReceipts : keyed[r] => r \in ToPurge
    BY DEF ToPurge, OldReceipts
  <2> QED  BY <2>1, <2>2, <2>3, <2>4, <2>5
<1> QED  BY <1>1, <1>2, <1>3, <1>4, <1>5, <1>6, <1>7 DEF Next, Sweep

(* The invariant holds at the start. *)
LEMMA InitInv == Init => Inv
<1> SUFFICES ASSUME Init  PROVE Inv
  OBVIOUS
<1> USE PipelineAssumption
<1>1. \A r \in Requests : request[r] \in {"start", "refused"}
  BY DEF Init
<1>2. request \in [Requests -> {"start", "refused"}]
  BY DEF Init
<1>3. TypeOK
  <2>1. /\ request \in [Requests -> {"start", "refused"}]
        /\ attempts \in [Requests -> 0 .. MaxAttempts]
        /\ age \in [Requests -> 0 .. ReceiptAge]
    BY <1>2 DEF Init
  <2>2. /\ keyed \in [Requests -> BOOLEAN] /\ object \in [Requests -> BOOLEAN]
        /\ results \in [Requests -> BOOLEAN]
    BY DEF Init
  <2>3. /\ row \in [Requests -> {"none", "pending", "committed", "deleted"}]
        /\ status \in [Requests -> {"PROCESSING"} \cup Terminal]
        /\ stage \in [Requests -> Stages]
    BY DEF Init, Stages
  <2>4. /\ claim \in [Requests -> {"none", "held", "converted", "released", "lapsed"}]
        /\ job \in [Requests -> {"none", "queued", "running", "over"}]
        /\ step = [r \in Requests |-> "idle"]
    BY DEF Init
  <2>5. /\ seen = {} /\ stuck = {} /\ spared = {} /\ loaded = FALSE
        /\ contested = {} /\ storageFault = {}
    BY DEF Init
  <2> QED  BY <2>1, <2>2, <2>3, <2>4, <2>5 DEF TypeOK, Answers
<1>4. RowFollows /\ OneAlive /\ JobFollows /\ Judged /\ ClaimFollows
  BY <1>1 DEF Init, RowFollows, OneAlive, JobFollows, Judged, ClaimFollows
<1>5. ContestFollows /\ StoryHolds /\ CompleteIsCharged /\ ObjectFollows
  BY <1>1 DEF Init, ContestFollows, Loaded, StoryHolds, CompleteIsCharged,
       ObjectFollows,
     Terminal, Committed, Expired, At
<1> QED  BY <1>3, <1>4, <1>5 DEF Inv

(* Every step, stuttering included, keeps it. *)
LEMMA StepInv == Inv /\ [Next]_vars => Inv'
<1>1. ASSUME Inv, Next  PROVE Inv'
  BY <1>1, StepTypeOK, StepRowFollows, StepOneAlive, StepJobFollows, StepJudged,
     StepClaimFollows, StepCompleteIsCharged, StepContestFollows,
     StepStoryHolds, StepObjectFollows DEF Inv
<1>2. ASSUME Inv, UNCHANGED vars  PROVE Inv'
  BY <1>2 DEF vars, Inv, TypeOK, RowFollows, OneAlive, JobFollows, Judged, ClaimFollows,
       ContestFollows, Loaded, StoryHolds, CompleteIsCharged, ObjectFollows,
       Committed, Expired, At
<1> QED  BY <1>1, <1>2

-----------------------------------------------------------------------------
(* Theorems. *)

(* Every reachable state of the pipeline has its types; no job is run more *)
(* often than MaxAttempts.                                                 *)
THEOREM PipelineTypeCorrect == Spec => []TypeOK
<1>1. Inv => TypeOK  BY DEF Inv
<1> QED  BY <1>1, InitInv, StepInv, PTL DEF Spec

(* However many requests race with the same bytes, one upload is kept.     *)
THEOREM UploadsAreUnique == Spec => []OneUploadPerContent
<1>1. Inv => OneUploadPerContent  BY DEF Inv, OneAlive, OneUploadPerContent, Committed
<1> QED  BY <1>1, InitInv, StepInv, PTL DEF Spec

(* Outside storage failures no object is lost or forgotten.                *)
THEOREM NoObjectForgotten == Spec => []ObjectsReachable
<1>1. Inv => ObjectsReachable
  BY DEF Inv, TypeOK, RowFollows, ObjectFollows, ObjectsReachable, InFlight, Committed,
       Answers
<1> QED  BY <1>1, InitInv, StepInv, PTL DEF Spec

(* A complete upload was charged, or its claim had outlived its TTL.       *)
THEOREM CompletionIsCharged == Spec => []CompleteIsCharged
<1>1. Inv => CompleteIsCharged  BY DEF Inv
<1> QED  BY <1>1, InitInv, StepInv, PTL DEF Spec

(* The job and its upload contradict each other only where a sweep and a   *)
(* run contested an outcome, and what is shown as complete is there.       *)
THEOREM OneStory == Spec => []StoryAgrees
<1>1. Inv => StoryAgrees  BY DEF Inv, StoryHolds, StoryAgrees
<1> QED  BY <1>1, InitInv, StepInv, PTL DEF Spec
=============================================================================
