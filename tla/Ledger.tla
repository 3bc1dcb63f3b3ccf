------------------------------- MODULE Ledger -------------------------------
(***************************************************************************)
(* The transactions of one user, and all who write them at once: the jobs  *)
(* that import CSV rows and look for unusual charges (jobs/                *)
(* process_upload.py, services/ingest.py, services/alerts/service.py), the *)
(* requests that correct a row or every row of its merchant                *)
(* (routers/transactions.py, services/corrections.py), the rulings on      *)
(* alerts, and the deletion of all data (services/lifecycle.py).           *)
(*                                                                         *)
(* Transactions are READ COMMITTED.  A job commits at every _set_stage and *)
(* that commit updates its row; an insert locks the uploads row its        *)
(* foreign key names; the deletion holds what it deleted until it commits. *)
(* A row is known by its dedupe_hash: the account and the line of the file *)
(* (its index and its normalised content).                                 *)
(***************************************************************************)
EXTENDS Naturals, FiniteSets, Sequences

CONSTANTS
    Uploads,     \* CSV uploads of the user, each with its job
    Lines,       \* lines they may contain
    RowsOf,      \* the lines of each upload
    MerchantOf,  \* the merchant key of a line
    Merchants,
    Categories,
    Unusual,     \* lines that may look unusual beside the others
    Ruled,       \* the category the rules give every line
    Accounts,    \* ids an account may get
    Held,        \* the accounts the user starts with, in heap order
    Hinted,      \* the accounts the file's account column matches
    Edits,       \* PATCH /transactions/{id} requests
    Wanted,      \* the category and the merchant each of them carries
    Matching,    \* those with apply_to_matching
    Erases,      \* whether the data is deleted
    Nothing,     \* NULL, no row
    MaxRuns      \* settings.quota_max_job_attempts

Digests == Accounts \X Lines
Fields == {"category", "merchant"}
Row == [category : Categories, merchant : Merchants, by : {"import", "correction"},
        upload : Uploads \cup {Nothing}]
Statuses == {"open", "dismissed", "resolved"}

ASSUME LedgerAssumption ==
    /\ RowsOf \in [Uploads -> SUBSET Lines]
    /\ MerchantOf \in [Lines -> Merchants]
    /\ Ruled \in Categories
    /\ Unusual \subseteq Lines
    /\ Held \in Seq(Accounts)
    /\ Hinted \in [Uploads -> SUBSET Accounts]
    /\ Wanted \in [Edits -> [category : Categories \cup {Nothing}, merchant : Merchants \cup {Nothing}]]
    /\ Matching \subseteq Edits
    /\ Erases \in BOOLEAN
    /\ MaxRuns \in Nat \ {0}
    /\ Nothing \notin Categories \cup Merchants \cup Uploads \cup Accounts \cup Row \cup Statuses
    /\ Nothing \notin Categories \X Merchants

VARIABLES
    clock,        \* order in which edits begin and commit
    accounts,     \* accounts rows, in heap order
    txn,          \* transactions rows
    corrections,  \* transaction_corrections rows
    alert,        \* alerts rows (of one type)
    uploads,      \* uploads rows, with their processing_jobs rows
    at,           \* progress of each job
    runs,         \* its runs so far
    account,      \* the account it resolved
    memory,       \* its categorisation memory
    mine,         \* rows it inserted and has not committed
    raised,       \* alerts it inserted and has not committed
    edit,         \* progress of each edit
    began,        \* its now()
    target,       \* the transaction it names
    saw,          \* what it read of it
    hits,         \* the siblings it will write, per field
    erase,        \* progress of the deletion
    doomed        \* rows it has deleted and holds

tables == <<clock, accounts, txn, corrections, alert, uploads>>
jobs == <<at, runs, account, memory, mine, raised>>
edits == <<edit, began, target, saw, hits>>
erasure == <<erase, doomed>>
vars == <<tables, jobs, edits, erasure>>

Present == {d \in Digests : txn[d] # Nothing}
(* The deletion holds the processing_jobs rows: no job commits a stage.    *)
JobsHeld == erase = "jobs"

Untaught == [m \in Merchants |-> Nothing]

TypeOK ==
    /\ clock \in Nat
    /\ accounts \in Seq(Accounts)
    /\ txn \in [Digests -> Row \cup {Nothing}]
    /\ \A c \in corrections :
         /\ c.txn \in Digests /\ c.field \in Fields
         /\ c.value \in IF c.field = "category" THEN Categories ELSE Merchants
         /\ c.key \in Merchants /\ c.alone \in BOOLEAN /\ c.edit \in Edits
         /\ c.began \in 0 .. clock /\ c.done \in 0 .. clock
    /\ alert \in [Digests -> Statuses \cup {Nothing}]
    /\ uploads \subseteq Uploads
    /\ at \in [Uploads -> {"queued", "parsed", "resolved", "categorizing", "inserted",
                          "analyzing", "detected", "complete", "failed"}]
    /\ runs \in [Uploads -> 0 .. MaxRuns]
    /\ account \in [Uploads -> Accounts \cup {Nothing}]
    /\ memory \in [Uploads -> [Merchants -> Categories \cup {Nothing}]]
    /\ mine \in [Uploads -> SUBSET Digests]
    /\ raised \in [Uploads -> SUBSET Digests]
    /\ edit \in [Edits -> {"idle", "category", "merchant", "ready", "done", "refused"}]
    /\ began \in [Edits -> 0 .. clock]
    /\ target \in [Edits -> Digests \cup {Nothing}]
    /\ saw \in [Edits -> Row \cup {Nothing}]
    /\ hits \in [Edits -> [Fields -> SUBSET Digests]]
    /\ erase \in {"idle", "begun", "rows", "jobs", "done", "aborted"}
    /\ doomed \subseteq Digests

Init ==
    /\ clock = 0
    /\ accounts = Held
    /\ txn = [d \in Digests |-> Nothing]
    /\ corrections = {}
    /\ alert = [d \in Digests |-> Nothing]
    /\ uploads = Uploads
    /\ at = [u \in Uploads |-> "queued"]
    /\ runs = [u \in Uploads |-> 0]
    /\ account = [u \in Uploads |-> Nothing]
    /\ memory = [u \in Uploads |-> Untaught]
    /\ mine = [u \in Uploads |-> {}]
    /\ raised = [u \in Uploads |-> {}]
    /\ edit = [e \in Edits |-> "idle"]
    /\ began = [e \in Edits |-> 0]
    /\ target = [e \in Edits |-> Nothing]
    /\ saw = [e \in Edits |-> Nothing]
    /\ hits = [e \in Edits |-> [f \in Fields |-> {}]]
    /\ erase = "idle"
    /\ doomed = {}

-----------------------------------------------------------------------------
(* The job of a CSV upload.                                                *)

(* The worker takes the job; the file parses.                              *)
Start(u) ==
    /\ at[u] = "queued" /\ u \in uploads /\ ~JobsHeld
    /\ at' = [at EXCEPT ![u] = "parsed"]
    /\ runs' = [runs EXCEPT ![u] = @ + 1]
    /\ UNCHANGED <<tables, account, memory, mine, raised, edits, erasure>>

(* The first account the file's hint matches, or else the first one.       *)
Matches(u) == {i \in DOMAIN accounts : accounts[i] \in Hinted[u]}
Resolved(u) ==
    IF Matches(u) # {}
    THEN accounts[CHOOSE i \in Matches(u) : \A j \in Matches(u) : i <= j]
    ELSE Head(accounts)

(* An id nobody has: uuid4.                                                *)
Fresh == Accounts \ ({accounts[i] : i \in DOMAIN accounts} \cup {account[u] : u \in Uploads})

(* Category corrections by merchant, the most recent created_at wins.      *)
Taught(m) == {c \in corrections : c.field = "category" /\ c.key = m}
Memory ==
    [m \in Merchants |->
        IF Taught(m) = {} THEN Nothing
        ELSE (CHOOSE c \in Taught(m) : \A o \in Taught(m) : o.began <= c.began).value]

(* The destination account and the lookup tables.                          *)
ResolveAccount(u) ==
    /\ at[u] = "parsed"
    /\ \/ accounts # <<>> /\ account' = [account EXCEPT ![u] = Resolved(u)]
       \/ accounts = <<>> /\ \E a \in Fresh : account' = [account EXCEPT ![u] = a]
    /\ memory' = [memory EXCEPT ![u] = Memory]
    /\ at' = [at EXCEPT ![u] = "resolved"]
    /\ UNCHANGED <<tables, runs, mine, raised, edits, erasure>>

(* _set_stage(CATEGORIZING) commits an account it added.                   *)
EnterCategorizing(u) ==
    /\ at[u] = "resolved" /\ u \in uploads /\ ~JobsHeld
    /\ accounts' = IF \E i \in DOMAIN accounts : accounts[i] = account[u]
                   THEN accounts ELSE Append(accounts, account[u])
    /\ at' = [at EXCEPT ![u] = "categorizing"]
    /\ UNCHANGED <<clock, txn, corrections, alert, uploads, runs, account, memory, mine, raised, edits, erasure>>

Payload(u) == {<<account[u], l>> : l \in RowsOf[u]}

(* Mutant of InsertRows: ON CONFLICT DO UPDATE.                            *)
InsertOrUpdateRows(u) ==
    /\ at[u] = "categorizing" /\ u \in uploads
    /\ Payload(u) \cap (doomed \cup UNION {mine[o] : o \in Uploads}) = {}
    /\ mine' = [mine EXCEPT ![u] = Payload(u)]
    /\ at' = [at EXCEPT ![u] = "inserted"]
    /\ UNCHANGED <<tables, runs, account, memory, raised, edits, erasure>>

(* Mutant of InsertRows: what another job inserts at the moment is taken   *)
(* for imported, and not waited for.                                       *)
InsertRowsUnwaiting(u) ==
    /\ at[u] = "categorizing" /\ u \in uploads
    /\ Payload(u) \cap doomed = {}
    /\ mine' = [mine EXCEPT ![u] = Payload(u) \ (Present \cup UNION {mine[o] : o \in Uploads})]
    /\ at' = [at EXCEPT ![u] = "inserted"]
    /\ UNCHANGED <<tables, runs, account, memory, raised, edits, erasure>>

(* INSERT ... ON CONFLICT DO NOTHING; a conflict with an open transaction  *)
(* waits for it, and the uploads row must exist.                           *)
InsertRows(u) ==
    /\ at[u] = "categorizing" /\ u \in uploads
    /\ Payload(u) \cap (doomed \cup UNION {mine[o] : o \in Uploads}) = {}
    /\ mine' = [mine EXCEPT ![u] = Payload(u) \ Present]
    /\ at' = [at EXCEPT ![u] = "inserted"]
    /\ UNCHANGED <<tables, runs, account, memory, raised, edits, erasure>>

Categorized(u, l) ==
    LET m == MerchantOf[l]
    IN  [category |-> IF memory[u][m] # Nothing THEN memory[u][m] ELSE Ruled,
         merchant |-> m, by |-> "import", upload |-> u]

(* _set_stage(ANALYZING) commits the rows.                                 *)
EnterAnalyzing(u) ==
    /\ at[u] = "inserted" /\ u \in uploads /\ ~JobsHeld
    /\ txn' = [d \in Digests |-> IF d \in mine[u] THEN Categorized(u, d[2]) ELSE txn[d]]
    /\ mine' = [mine EXCEPT ![u] = {}]
    /\ account' = [account EXCEPT ![u] = Nothing]
    /\ memory' = [memory EXCEPT ![u] = Untaught]
    /\ at' = [at EXCEPT ![u] = "analyzing"]
    /\ UNCHANGED <<clock, accounts, corrections, alert, uploads, runs, raised, edits, erasure>>

(* Detection may find its rows unusual; a second alert of the type         *)
(* conflicts.                                                              *)
Detect(u) ==
    /\ at[u] = "analyzing"
    /\ \E found \in SUBSET {d \in Present : d[2] \in Unusual /\ txn[d].upload = u} :
         /\ found \cap doomed = {}
         /\ raised' = [raised EXCEPT ![u] = {d \in found : alert[d] = Nothing}]
    /\ at' = [at EXCEPT ![u] = "detected"]
    /\ UNCHANGED <<tables, runs, account, memory, mine, edits, erasure>>

(* The upload is COMPLETE and its alerts are committed.                    *)
CompleteJob(u) ==
    /\ at[u] = "detected" /\ u \in uploads /\ ~JobsHeld
    /\ alert' = [d \in Digests |-> IF d \in raised[u] THEN "open" ELSE alert[d]]
    /\ raised' = [raised EXCEPT ![u] = {}]
    /\ at' = [at EXCEPT ![u] = "complete"]
    /\ UNCHANGED <<clock, accounts, txn, corrections, uploads, runs, account, memory, mine, edits, erasure>>

Retried(u) == IF runs[u] < MaxRuns THEN "queued" ELSE "failed"

(* An error, a kill, or a row that is gone: what was not committed is lost *)
(* and RQ runs the job again while it has attempts left.                   *)
FailJob(u) ==
    /\ at[u] \in {"parsed", "resolved", "categorizing", "inserted", "analyzing", "detected"}
    /\ at' = [at EXCEPT ![u] = Retried(u)]
    /\ mine' = [mine EXCEPT ![u] = {}]
    /\ raised' = [raised EXCEPT ![u] = {}]
    /\ account' = [account EXCEPT ![u] = Nothing]
    /\ memory' = [memory EXCEPT ![u] = Untaught]
    /\ UNCHANGED <<tables, runs, edits, erasure>>

(* A job whose rows or file are gone ends without a commit.                *)
StartNothing(u) ==
    /\ at[u] = "queued" /\ (u \notin uploads \/ erase # "idle")
    /\ at' = [at EXCEPT ![u] = "failed"]
    /\ UNCHANGED <<tables, runs, account, memory, mine, raised, edits, erasure>>

-----------------------------------------------------------------------------
(* PATCH /transactions/{id}.                                               *)

Changes(e, f) == Wanted[e][f] \notin {Nothing, saw[e][f]}

(* The transaction is read without a lock; a foreign or absent one is 404. *)
LoadTransaction(e) ==
    /\ edit[e] = "idle"
    /\ \E d \in Present :
         /\ target' = [target EXCEPT ![e] = d]
         /\ saw' = [saw EXCEPT ![e] = txn[d]]
    /\ clock' = clock + 1
    /\ began' = [began EXCEPT ![e] = clock']
    /\ edit' = [edit EXCEPT ![e] = IF e \in Matching THEN "category" ELSE "ready"]
    /\ UNCHANGED <<accounts, txn, corrections, alert, uploads, jobs, hits, erasure>>

(* Mutant of Protected: a bulk change takes every row of the merchant.     *)
ProtectNothing(e, f) == {}

(* Rows corrected one at a time, which bulk changes must not touch.        *)
Protected(e, f) == {c.txn : c \in {k \in corrections : k.field = f /\ k.alone /\ k.txn # target[e]}}

(* The other rows of the merchant that would change.                       *)
Siblings(e, f) ==
    {d \in Present \ {target[e]} :
        /\ txn[d].merchant = saw[e].merchant
        /\ txn[d][f] # Wanted[e][f]}

(* apply_bulk_correction reads what it will write when it is flushed.      *)
Gather(e, f, next) ==
    /\ edit[e] = f
    /\ hits' = [hits EXCEPT ![e][f] =
                    IF Changes(e, f) THEN Siblings(e, f) \ Protected(e, f) ELSE {}]
    /\ edit' = [edit EXCEPT ![e] = next]
    /\ UNCHANGED <<tables, jobs, began, target, saw, erasure>>

GatherCategory(e) == Gather(e, "category", "merchant")
GatherMerchant(e) == Gather(e, "merchant", "ready")

Writes(e, f) == IF Changes(e, f) THEN hits[e][f] \cup {target[e]} ELSE {}
Written(e) == UNION {Writes(e, f) : f \in Fields}

(* The columns it sets in row d.                                           *)
Corrected(e, d) ==
    [txn[d] EXCEPT !.category = IF d \in Writes(e, "category") THEN Wanted[e].category ELSE @,
                   !.merchant = IF d \in Writes(e, "merchant") THEN Wanted[e].merchant ELSE @,
                   !.by = "correction"]

(* The audit row, which is also the memory of later imports.               *)
Correction(e, f, d) ==
    [txn |-> d, field |-> f, value |-> Wanted[e][f],
     key |-> IF f = "category" THEN saw[e].merchant ELSE Wanted[e].merchant,
     alone |-> e \notin Matching, edit |-> e, began |-> began[e], done |-> clock + 1]

Answer(e, how) ==
    /\ edit' = [edit EXCEPT ![e] = how]
    /\ saw' = [saw EXCEPT ![e] = Nothing]
    /\ hits' = [hits EXCEPT ![e] = [f \in Fields |-> {}]]

(* One UPDATE per row, which waits for the deletion that holds it; then    *)
(* the commit.                                                             *)
CommitEdit(e) ==
    /\ edit[e] = "ready"
    /\ Written(e) \subseteq Present \ doomed
    /\ txn' = [d \in Digests |-> IF d \in Written(e) THEN Corrected(e, d) ELSE txn[d]]
    /\ corrections' = corrections \cup
            UNION {{Correction(e, f, d) : d \in Writes(e, f)} : f \in Fields}
    /\ clock' = clock + 1
    /\ Answer(e, "done")
    /\ UNCHANGED <<accounts, alert, uploads, jobs, began, target, erasure>>

(* An UPDATE that finds its row gone fails the request.                    *)
RefuseEdit(e) ==
    /\ edit[e] = "ready"
    /\ ~(Written(e) \subseteq Present)
    /\ Answer(e, "refused")
    /\ UNCHANGED <<tables, jobs, began, target, erasure>>

(* PATCH /alerts/{id}.                                                     *)
UpdateAlert ==
    /\ \E d \in Digests \ doomed, s \in Statuses :
         /\ alert[d] # Nothing
         /\ alert' = [alert EXCEPT ![d] = s]
    /\ UNCHANGED <<clock, accounts, txn, corrections, uploads, jobs, edits, erasure>>

-----------------------------------------------------------------------------
(* POST /settings/delete-data.                                             *)

(* Queued jobs are cancelled as far as the broker answers; the files go.   *)
BeginErase ==
    /\ Erases /\ erase = "idle"
    /\ erase' = "begun"
    /\ \E gone \in SUBSET {u \in Uploads : at[u] = "queued"} :
         at' = [u \in Uploads |-> IF u \in gone THEN "failed" ELSE at[u]]
    /\ UNCHANGED <<tables, runs, account, memory, mine, raised, edits, doomed>>

(* Alerts, corrections and transactions the statements see; an alert not   *)
(* yet committed locks the row it names.                                   *)
EraseRows ==
    /\ erase = "begun"
    /\ \A u \in Uploads : raised[u] = {}
    /\ doomed' = Present
    /\ erase' = "rows"
    /\ UNCHANGED <<tables, jobs, edits>>

EraseJobs ==
    /\ erase = "rows"
    /\ erase' = "jobs"
    /\ UNCHANGED <<tables, jobs, edits, doomed>>

(* The uploads go once no open insert names them, SET NULL in the rows     *)
(* that remain; then the commit.                                           *)
EraseUploads ==
    /\ erase = "jobs"
    /\ \A u \in Uploads : mine[u] = {}
    /\ txn' = [d \in Digests |->
                  IF d \in doomed \/ txn[d] = Nothing THEN Nothing
                  ELSE [txn[d] EXCEPT !.upload = Nothing]]
    /\ alert' = [d \in Digests |-> IF d \in doomed THEN Nothing ELSE alert[d]]
    /\ corrections' = {c \in corrections : c.txn \notin doomed}
    /\ uploads' = {}
    /\ doomed' = {}
    /\ erase' = "done"
    /\ UNCHANGED <<clock, accounts, jobs, edits>>

(* An error or a deadlock rolls it back; the files stay removed.           *)
AbortErase ==
    /\ erase \in {"begun", "rows", "jobs"}
    /\ doomed' = {}
    /\ erase' = "aborted"
    /\ UNCHANGED <<tables, jobs, edits>>

-----------------------------------------------------------------------------
Job(u) ==
    \/ Start(u) \/ StartNothing(u) \/ ResolveAccount(u) \/ EnterCategorizing(u)
    \/ InsertRows(u) \/ EnterAnalyzing(u) \/ Detect(u) \/ CompleteJob(u) \/ FailJob(u)

Edit(e) ==
    \/ LoadTransaction(e) \/ GatherCategory(e) \/ GatherMerchant(e)
    \/ CommitEdit(e) \/ RefuseEdit(e)

Erasure == BeginErase \/ EraseRows \/ EraseJobs \/ EraseUploads \/ AbortErase

Next ==
    \/ \E u \in Uploads : Job(u)
    \/ \E e \in Edits : Edit(e)
    \/ UpdateAlert
    \/ Erasure

Spec == Init /\ [][Next]_vars

-----------------------------------------------------------------------------
(* A file whose rows were committed is in the ledger with every line, all  *)
(* of them in one account, until the data is deleted: which of the jobs    *)
(* that carry a line inserted it does not matter, and a job that found it  *)
(* inserted by another has waited for that one's commit or done it itself  *)
(* (insert_transactions, ON CONFLICT DO NOTHING).                          *)
FilesWhole ==
    \A u \in Uploads : at[u] \in {"analyzing", "detected", "complete"} /\ erase # "done" =>
        \E a \in Accounts : \A l \in RowsOf[u] : txn[<<a, l>>] # Nothing

(* What a person set on one row stays, unless a later correction of that   *)
(* row itself, or a bulk correction that had begun before it committed,    *)
(* replaced it.                                                            *)
DecisionStands ==
    \A c \in corrections : c.alone /\ txn[c.txn][c.field] # c.value =>
        \E o \in corrections :
            /\ o.txn = c.txn /\ o.field = c.field /\ o.done > c.done
            /\ o.alone \/ target[o.edit] = o.txn \/ o.began < c.done

(* The tables implement the book: what a job does, run once or again, adds *)
(* rows and alerts and changes none; corrections and rulings neither add   *)
(* nor remove them; and nothing is added once the deletion has committed.  *)
(* Every step of a job moves its entry of at, and no step of a request     *)
(* does, but for the jobs the deletion cancels.                            *)
Entry(d) == IF txn[d] = Nothing THEN Nothing ELSE <<txn[d].category, txn[d].merchant>>
TheBook == INSTANCE Book WITH
    Keys <- Digests, Nothing <- Nothing, entry <- [d \in Digests |-> Entry(d)],
    alert <- alert, imports <- at, erased <- erase = "done"
KeepsBook == TheBook!Spec
=============================================================================
