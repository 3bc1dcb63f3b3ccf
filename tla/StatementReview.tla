--------------------------- MODULE StatementReview ---------------------------
(***************************************************************************)
(* One bank statement from the worker that stages its rows to the person   *)
(* who edits, confirms or discards them, or never comes back               *)
(* (routers/statements.py, services/statements/staging.py, the statement   *)
(* part of retention_sweep in services/lifecycle.py).                      *)
(*                                                                         *)
(* Transactions are READ COMMITTED and sessions do not autoflush: a query  *)
(* does not see what the same session has added and not flushed.  A        *)
(* confirmation locks the import before the uploads row, a removal the     *)
(* uploads row before the import.                                          *)
(***************************************************************************)
EXTENDS Integers, FiniteSets

CONSTANTS
    Rows,        \* the transaction lines of the document
    Charge,      \* date, amount and description of each, as parsed
    Line,        \* source_line: its index among the lines of its page
    Confirms,    \* POST /confirm requests
    Patches,     \* PATCH requests for one row each
    Discards,    \* DELETE requests
    Casts,       \* which of these requests are made together
    Sweep,       \* retention_sweep
    NoOne,       \* the holder of a free row lock
    MaxRuns      \* settings.quota_max_job_attempts

Removers == Discards \cup {Sweep}
Lockers == Confirms \cup Removers

ASSUME ReviewAssumption ==
    /\ DOMAIN Charge = Rows
    /\ Line \in [Rows -> Nat]
    /\ NoOne \notin Lockers
    /\ Confirms \cap Removers = {}
    /\ Sweep \notin Discards
    /\ Casts \subseteq SUBSET (Confirms \cup Patches \cup Discards)
    /\ MaxRuns \in Nat \ {0}

VARIABLES
    import,       \* the statement_imports row
    version,      \* how often its rows were staged; names the rows of a staging
    edited,       \* rows the user corrected
    excluded,     \* rows the user left out
    expired,      \* whether expires_at has passed
    upload,       \* status of the uploads row
    keyed,        \* whether its storage_key is not ""
    object,       \* whether the object store holds the PDF
    ledger,       \* transactions imported: each row with its dedupe_hash
    importLock,   \* who holds the import row's lock to its COMMIT
    uploadLock,   \* who holds the uploads row's lock to its COMMIT
    worker,       \* progress of the job
    runs,         \* its runs so far
    closed,       \* whether its stage is COMPLETE or FAILED
    saw,          \* the import status stage() has read
    confirm,      \* progress of each confirmation
    pending,      \* transactions the confirmation holding the lock has added
    patch,        \* progress of each correction
    seen,         \* the staging whose row it has loaded
    remove,       \* progress of each removal
    storageFault, \* the object store has refused a delete (history)
    reopened      \* rows were staged for review after they were imported (history)

record == <<import, version, edited, excluded, expired>>
file == <<keyed, object, storageFault>>
locks == <<importLock, uploadLock>>
jobs == <<worker, runs, closed, saw>>
people == <<confirm, pending, patch, seen, remove>>
reviewVars == <<record, upload, file, ledger, locks, jobs, people, reopened>>

(* dedupe_hash_for leaves the page out; an edited row has a text of its own. *)
Digest(r) == <<IF r \in edited THEN r ELSE Charge[r], Line[r]>>
Imported == {t[2] : t \in ledger}

ConfirmAnswers == {"missing", "already", "imported", "clashed", "failed"}
RemoveAnswers == {"missing", "discarded", "failed"}

ReviewTypeOK ==
    /\ import \in {"none", "review", "committed"}
    /\ version \in 0 .. MaxRuns
    /\ edited \subseteq Rows /\ excluded \subseteq Rows
    /\ {expired, keyed, object, closed, storageFault, reopened} \subseteq BOOLEAN
    /\ upload \in {"PROCESSING", "COMPLETE", "FAILED"}
    /\ {t[1] : t \in ledger \cup pending} \subseteq Rows
    /\ importLock \in Confirms \cup {NoOne}
    /\ uploadLock \in Lockers \cup {NoOne}
    /\ worker \in {"queued", "reading", "parsing", "staging", "staged", "completed", "over"}
    /\ runs \in 0 .. MaxRuns
    /\ saw \in {"none", "review", "committed"}
    /\ confirm \in [Confirms -> {"start", "waiting", "locked", "inserted", "marked",
                                 "purged", "unpurged"} \cup ConfirmAnswers]
    /\ patch \in [Patches -> {"start", "checked", "done", "refused"}]
    /\ seen \in [Patches -> 0 .. MaxRuns]
    /\ remove \in [Removers -> {"start", "loaded", "purged", "flushed", "unlinked"}
                               \cup RemoveAnswers]

ReviewInit ==
    /\ import = "none" /\ version = 0 /\ edited = {} /\ excluded = {} /\ expired = FALSE
    /\ upload = "PROCESSING" /\ keyed = TRUE /\ object = TRUE
    /\ ledger = {}
    /\ importLock = NoOne /\ uploadLock = NoOne
    /\ worker = "queued" /\ runs = 0 /\ closed = FALSE /\ saw = "none"
    /\ \E cast \in Casts :
          /\ confirm = [c \in Confirms |-> IF c \in cast THEN "start" ELSE "missing"]
          /\ patch = [p \in Patches |-> IF p \in cast THEN "start" ELSE "refused"]
          /\ remove = [x \in Removers |-> IF x \in cast \cup {Sweep} THEN "start" ELSE "missing"]
    /\ pending = {}
    /\ seen = [p \in Patches |-> 0]
    /\ storageFault = FALSE /\ reopened = FALSE

-----------------------------------------------------------------------------
(***************************************************************************)
(* The worker: process_upload for a statement.                             *)
(***************************************************************************)
Busy == worker \in {"reading", "parsing", "staging", "staged", "completed"}
Retried == IF runs < MaxRuns THEN "queued" ELSE "over"

StartRun ==
    /\ worker = "queued"
    /\ worker' = "reading"
    /\ runs' = runs + 1
    /\ closed' = FALSE
    /\ UNCHANGED <<record, upload, file, ledger, locks, saw, people, reopened>>

ReadFile ==
    /\ worker = "reading"
    /\ keyed /\ object
    /\ worker' = "parsing"
    /\ UNCHANGED <<record, upload, file, ledger, locks, runs, closed, saw, people, reopened>>

(* The text layer does not match the pages: terminal, no retry. *)
RejectDocument ==
    /\ worker = "parsing"
    /\ uploadLock = NoOne
    /\ worker' = "over"
    /\ upload' = "FAILED"
    /\ closed' = TRUE
    /\ UNCHANGED <<record, file, ledger, locks, runs, saw, people, reopened>>

(* stage() looks its import up without locking it ... *)
LookUpImport ==
    /\ worker = "parsing"
    /\ worker' = "staging"
    /\ saw' = import
    /\ UNCHANGED <<record, upload, file, ledger, locks, runs, closed, people, reopened>>

(* ... and replaces its rows.  The status is written only if it differs    *)
(* from the one read; an import deleted meanwhile fails the UPDATE.        *)
StageRows ==
    /\ worker = "staging"
    /\ importLock = NoOne
    /\ saw = "none" \/ import # "none"
    /\ worker' = "staged"
    /\ import' = IF saw = "review" THEN import ELSE "review"
    /\ version' = version + 1
    /\ edited' = {} /\ excluded' = {} /\ expired' = FALSE
    /\ saw' = "none"
    /\ reopened' = (reopened \/ (import' = "review" /\ ledger # {}))
    /\ UNCHANGED <<upload, file, ledger, locks, runs, closed, people>>

CompleteRun ==
    /\ worker = "staged"
    /\ uploadLock = NoOne
    /\ worker' = "completed"
    /\ upload' = "COMPLETE"
    /\ closed' = TRUE
    /\ UNCHANGED <<record, file, ledger, locks, runs, saw, people, reopened>>

FinishRun ==
    /\ worker = "completed"
    /\ worker' = "over"
    /\ UNCHANGED <<record, upload, file, ledger, locks, runs, closed, saw, people, reopened>>

(* An exception, at a storage call, in the parser or after the COMPLETE    *)
(* commit: the failure is recorded and RQ retries without a delay.         *)
FailRun ==
    /\ Busy
    /\ uploadLock = NoOne
    /\ worker' = Retried
    /\ upload' = "FAILED"
    /\ closed' = TRUE
    /\ saw' = "none"
    /\ UNCHANGED <<record, file, ledger, locks, runs, people, reopened>>

(* The work horse is killed: nothing is recorded. *)
KillRun ==
    /\ Busy
    /\ worker' = Retried
    /\ saw' = "none"
    /\ UNCHANGED <<record, upload, file, ledger, locks, runs, closed, people, reopened>>

(* mark_job_failed after the last run, or the sweep of stuck jobs. *)
GiveUp ==
    /\ ~closed /\ ~Busy
    /\ uploadLock = NoOne
    /\ upload' = "FAILED"
    /\ closed' = TRUE
    /\ UNCHANGED <<record, file, ledger, locks, worker, runs, saw, people, reopened>>

-----------------------------------------------------------------------------
(***************************************************************************)
(* update_row.                                                             *)
(***************************************************************************)
(* The status and the row are read without a lock. *)
CheckPatch(p) ==
    /\ patch[p] = "start"
    /\ import # "none"
    /\ patch' = [patch EXCEPT ![p] = IF import = "review" THEN "checked" ELSE "refused"]
    /\ seen' = [seen EXCEPT ![p] = IF import = "review" THEN version ELSE 0]
    /\ UNCHANGED <<record, upload, file, ledger, locks, jobs, confirm, pending, remove, reopened>>

(* The row may be gone by the UPDATE, and the import may be committed. *)
PatchRow(p) ==
    /\ patch[p] = "checked"
    /\ IF import # "none" /\ seen[p] = version
       THEN /\ patch' = [patch EXCEPT ![p] = "done"]
            /\ \E r \in Rows :
                  /\ edited' \in {edited, edited \cup {r}}
                  /\ excluded' \in {excluded, excluded \cup {r}, excluded \ {r}}
       ELSE patch' = [patch EXCEPT ![p] = "refused"] /\ UNCHANGED <<edited, excluded>>
    /\ seen' = [seen EXCEPT ![p] = 0]
    /\ UNCHANGED <<import, version, expired, upload, file, ledger, locks, jobs, confirm,
                   pending, remove, reopened>>

-----------------------------------------------------------------------------
(***************************************************************************)
(* confirm_import.                                                         *)
(***************************************************************************)
Answer(c, a) ==
    /\ confirm' = [confirm EXCEPT ![c] = a]
    /\ pending' = IF importLock = c THEN {} ELSE pending
    /\ importLock' = IF importLock = c THEN NoOne ELSE importLock
    /\ uploadLock' = IF uploadLock = c THEN NoOne ELSE uploadLock

ConfirmGoto(c, pc) == confirm' = [confirm EXCEPT ![c] = pc]

Verdict == CASE import = "none" -> "missing" [] import = "committed" -> "already"
             [] import = "review" -> "waiting"

LoadImport(c) ==
    /\ confirm[c] = "start"
    /\ version > 0
    /\ ConfirmGoto(c, Verdict)
    /\ UNCHANGED <<record, upload, file, ledger, locks, jobs, pending, patch, seen, remove,
                   reopened>>

(* Mutant: the status is not read again under the lock. *)
LockImportBlindly(c) ==
    /\ confirm[c] = "waiting"
    /\ importLock = NoOne
    /\ importLock' = c
    /\ ConfirmGoto(c, "locked")
    /\ UNCHANGED <<record, upload, file, ledger, uploadLock, jobs, pending, patch, seen,
                   remove, reopened>>

(* Mutant: the early answer leaves the transaction open. *)
LockImportForGood(c) ==
    /\ confirm[c] = "waiting"
    /\ importLock = NoOne
    /\ importLock' = c
    /\ ConfirmGoto(c, IF import = "review" THEN "locked" ELSE Verdict)
    /\ UNCHANGED <<record, upload, file, ledger, uploadLock, jobs, pending, patch, seen,
                   remove, reopened>>

(* SELECT .. FOR UPDATE; the import may have been committed or deleted.    *)
LockImport(c) ==
    /\ confirm[c] = "waiting"
    /\ importLock = NoOne
    /\ IF import = "review"
       THEN ConfirmGoto(c, "locked") /\ importLock' = c
       ELSE ConfirmGoto(c, Verdict) /\ UNCHANGED importLock
    /\ UNCHANGED <<record, upload, file, ledger, uploadLock, jobs, pending, patch, seen,
                   remove, reopened>>

(* Rows already in the ledger are skipped; two new rows of one digest pass *)
(* that test together and violate UNIQUE(dedupe_hash) at the flush.        *)
InsertRows(c) ==
    LET new == {r \in Rows \ excluded : Digest(r) \notin Imported}
        digests == {Digest(r) : r \in new}
    IN  /\ confirm[c] = "locked"
        /\ IF Cardinality(digests) = Cardinality(new)
           THEN /\ ConfirmGoto(c, "inserted")
                /\ pending' = {<<r, Digest(r)>> : r \in new}
                /\ UNCHANGED locks
           ELSE Answer(c, "clashed")
        /\ UNCHANGED <<record, upload, file, ledger, jobs, patch, seen, remove, reopened>>

(* mark_committed writes the upload's status only if that changes it. *)
MarkCommitted(c) ==
    /\ confirm[c] = "inserted"
    /\ ConfirmGoto(c, "marked")
    /\ IF upload = "COMPLETE" THEN UNCHANGED uploadLock
       ELSE uploadLock = NoOne /\ uploadLock' = c
    /\ UNCHANGED <<record, upload, file, ledger, importLock, jobs, pending, patch, seen,
                   remove, reopened>>

(* purge_original: the object is deleted at once, whatever becomes of the  *)
(* transaction; a StorageError is logged.                                  *)
PurgeFile(purged) ==
    /\ purged => keyed
    /\ object' = (object /\ ~purged)
    /\ storageFault' = (storageFault \/ (keyed /\ ~purged))
    /\ UNCHANGED keyed

PurgeOriginal(c) ==
    /\ confirm[c] = "marked"
    /\ \E purged \in BOOLEAN :
          PurgeFile(purged) /\ ConfirmGoto(c, IF purged THEN "purged" ELSE "unpurged")
    /\ UNCHANGED <<record, upload, ledger, locks, jobs, pending, patch, seen, remove, reopened>>

(* Clearing the key waits for the uploads row; then everything commits. *)
CommitConfirm(c) ==
    /\ confirm[c] \in {"purged", "unpurged"}
    /\ confirm[c] = "purged" => uploadLock \in {NoOne, c}
    /\ ledger' = ledger \cup pending
    /\ import' = "committed"
    /\ upload' = IF uploadLock = c THEN "COMPLETE" ELSE upload
    /\ keyed' = (keyed /\ confirm[c] # "purged")
    /\ Answer(c, "imported")
    /\ UNCHANGED <<version, edited, excluded, expired, object, storageFault, jobs, patch, seen,
                   remove, reopened>>

(* A crash, a failing statement, or Postgres choosing it as the victim of  *)
(* a deadlock: everything but the purge is rolled back.                    *)
FailConfirm(c) ==
    /\ confirm[c] \notin {"start"} \cup ConfirmAnswers
    /\ Answer(c, "failed")
    /\ UNCHANGED <<record, upload, file, ledger, jobs, patch, seen, remove, reopened>>

-----------------------------------------------------------------------------
(***************************************************************************)
(* discard_import, and retention_sweep's expired imports.                  *)
(***************************************************************************)
RemoveGoto(x, pc) == remove' = [remove EXCEPT ![x] = pc]
End(x, a) == RemoveGoto(x, IF x = Sweep THEN "start" ELSE a)

LoadDiscarded(d) ==
    /\ remove[d] = "start"
    /\ version > 0
    /\ RemoveGoto(d, IF import = "none" THEN "missing" ELSE "loaded")
    /\ UNCHANGED <<record, upload, file, ledger, locks, jobs, confirm, pending, patch, seen,
                   reopened>>

(* Mutant: a statement whose file is gone does not expire. *)
ReadExpiredFiles ==
    /\ remove[Sweep] = "start"
    /\ import = "review" /\ expired /\ keyed
    /\ RemoveGoto(Sweep, "loaded")
    /\ UNCHANGED <<record, upload, file, ledger, locks, jobs, confirm, pending, patch, seen,
                   reopened>>

(* The status is read here and not again. *)
ReadExpired ==
    /\ remove[Sweep] = "start"
    /\ import = "review" /\ expired
    /\ RemoveGoto(Sweep, "loaded")
    /\ UNCHANGED <<record, upload, file, ledger, locks, jobs, confirm, pending, patch, seen,
                   reopened>>

PurgeRemoved(x) ==
    /\ remove[x] = "loaded"
    /\ \E purged \in BOOLEAN :
          PurgeFile(purged) /\ RemoveGoto(x, IF purged THEN "purged" ELSE "unlinked")
    /\ UNCHANGED <<record, upload, ledger, locks, jobs, confirm, pending, patch, seen, reopened>>

ClearKey(x) ==
    /\ remove[x] = "purged"
    /\ uploadLock = NoOne
    /\ uploadLock' = x
    /\ RemoveGoto(x, "flushed")
    /\ UNCHANGED <<record, upload, file, ledger, importLock, jobs, confirm, pending, patch,
                   seen, reopened>>

(* DELETE by id, whatever the status is by now; the rows cascade. *)
DeleteImport(x) ==
    /\ remove[x] \in {"flushed", "unlinked"}
    /\ importLock = NoOne
    /\ import' = "none" /\ edited' = {} /\ excluded' = {} /\ expired' = FALSE
    /\ keyed' = (keyed /\ remove[x] # "flushed")
    /\ uploadLock' = IF uploadLock = x THEN NoOne ELSE uploadLock
    /\ End(x, "discarded")
    /\ UNCHANGED <<version, upload, object, storageFault, ledger, importLock, jobs, confirm,
                   pending, patch, seen, reopened>>

FailRemove(x) ==
    /\ remove[x] \in {"loaded", "purged", "flushed", "unlinked"}
    /\ uploadLock' = IF uploadLock = x THEN NoOne ELSE uploadLock
    /\ End(x, "failed")
    /\ UNCHANGED <<record, upload, file, ledger, importLock, jobs, confirm, pending, patch,
                   seen, reopened>>

(* retention_sweep's files of failed uploads. *)
PurgeFailedFile ==
    /\ upload = "FAILED" /\ keyed
    /\ uploadLock = NoOne
    /\ \/ object' = FALSE /\ keyed' = FALSE /\ UNCHANGED storageFault
       \/ storageFault' = TRUE /\ UNCHANGED <<object, keyed>>
    /\ UNCHANGED <<record, upload, ledger, locks, jobs, people, reopened>>

(* expires_at passes. *)
Expire ==
    /\ import = "review" /\ ~expired
    /\ expired' = TRUE
    /\ UNCHANGED <<import, version, edited, excluded, upload, file, ledger, locks, jobs, people,
                   reopened>>

-----------------------------------------------------------------------------
(* A confirmation waits for the uploads row of a removal that waits for    *)
(* the import: Postgres aborts one of the two.                             *)
Deadlocked(c, x) ==
    /\ importLock = c /\ uploadLock = x
    /\ remove[x] = "flushed"
    /\ confirm[c] = "purged" \/ (confirm[c] = "inserted" /\ upload # "COMPLETE")

AbortVictim ==
    \E c \in Confirms, x \in Removers :
        Deadlocked(c, x) /\ (FailConfirm(c) \/ FailRemove(x))

Job == StartRun \/ ReadFile \/ RejectDocument \/ LookUpImport \/ StageRows \/ CompleteRun
       \/ FinishRun \/ FailRun \/ KillRun \/ GiveUp

Confirm(c) == LockImport(c) \/ InsertRows(c) \/ MarkCommitted(c)
              \/ PurgeOriginal(c) \/ CommitConfirm(c)

Remove(x) == PurgeRemoved(x) \/ ClearKey(x) \/ DeleteImport(x)

ReviewNext ==
    \/ Job
    \/ ReadExpired \/ PurgeFailedFile \/ Expire \/ AbortVictim
    \/ \E p \in Patches : CheckPatch(p) \/ PatchRow(p)
    \/ \E c \in Confirms : LoadImport(c) \/ Confirm(c) \/ FailConfirm(c)
    \/ \E d \in Discards : LoadDiscarded(d)
    \/ \E x \in Removers : Remove(x) \/ FailRemove(x)

ReviewSpec == ReviewInit /\ [][ReviewNext]_reviewVars

(* A busy worker works, the server runs what it has accepted, Postgres     *)
(* ends a deadlock, time passes, the sweeps recur (SweepsRecur of          *)
(* MaintenanceSchedule) and do not die every time.  Nothing makes a worker *)
(* take a job.                                                             *)
ReviewFairness ==
    /\ WF_reviewVars(Job /\ Busy)
    /\ WF_reviewVars(GiveUp)
    /\ WF_reviewVars(Expire)
    /\ WF_reviewVars(AbortVictim)
    /\ WF_reviewVars(PurgeFailedFile)
    /\ WF_reviewVars(ReadExpired)
    /\ \A x \in Removers : WF_reviewVars(Remove(x))
    /\ \A c \in Confirms : WF_reviewVars(Confirm(c))
    /\ <>[][~FailRemove(Sweep)]_reviewVars

ReviewFairSpec == ReviewSpec /\ ReviewFairness

-----------------------------------------------------------------------------
(***************************************************************************)
(* Properties.                                                             *)
(***************************************************************************)

(* "A second confirmation of the same import is a no-op": however two      *)
(* confirmations, corrections between them and a retried job interleave,   *)
(* no line of the statement becomes two transactions, unless the retried   *)
(* job staged the rows again after they were imported.                     *)
ImportedOnce ==
    ~reopened => \A t, u \in ledger : t[1] = u[1] => t = u

(* "Unconfirmed, the whole import ... is purged automatically"             *)
(* (models/tables.py): no statement waits for review forever, and its PDF  *)
(* goes with the decision, unless the object store refused to delete it.   *)
PurgedAutomatically == <>[](import # "review" /\ (object => storageFault))

(* Confirmations and removals take the two row locks in opposite orders,   *)
(* yet each of them that has begun is answered.                            *)
RequestsAnswered ==
    <>[](/\ \A c \in Confirms : confirm[c] \in {"start"} \cup ConfirmAnswers
         /\ \A d \in Discards : remove[d] \in {"start"} \cup RemoveAnswers)
=============================================================================
