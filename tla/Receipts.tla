------------------------------ MODULE Receipts ------------------------------
(***************************************************************************)
(* Receipts after they were read: the job that writes their fields, the    *)
(* person who corrects, confirms and deletes them, and the sweep of those  *)
(* nobody confirmed (services/receipts.py, routers/receipts.py, the        *)
(* receipt part of jobs/process_upload.py and services/lifecycle.py).      *)
(*                                                                         *)
(* Transactions are READ COMMITTED.  A request reads its receipt once,     *)
(* without a lock, and its UPDATE at the commit writes only the columns    *)
(* whose value differs from the one it read; an UPDATE of a row that is    *)
(* gone fails the request.  Money and text are left out.                   *)
(***************************************************************************)
EXTENDS Naturals

CONSTANTS
    Receipts,    \* receipt files, each with its uploads row
    Legible,     \* those whose total and date the OCR reads
    Imported,    \* transactions that came from elsewhere
    Creates,     \* POST /confirm with mode "create"; names the transaction it inserts
    Links,       \* POST /confirm with mode "link"
    Patches,     \* PATCH requests
    Deletes,     \* DELETE requests
    Casts,       \* which of these requests are made together
    Nothing,     \* a NULL column, an absent row
    MaxRuns      \* settings.quota_max_job_attempts

Confirms == Creates \cup Links
Requests == Confirms \cup Patches \cup Deletes
Transactions == Imported \cup Creates

ASSUME ReceiptAssumption ==
    /\ Legible \subseteq Receipts
    /\ Imported \cap Creates = {}
    /\ Creates \cap Links = {} /\ Confirms \cap Patches = {}
    /\ (Confirms \cup Patches) \cap Deletes = {}
    /\ Casts \subseteq SUBSET Requests
    /\ Nothing \notin Receipts \cup Transactions
    /\ MaxRuns \in Nat \ {0}

Row == [link : Transactions \cup {Nothing}, mode : {"none", "created", "linked"},
        status : {"pending", "needs_review", "confirmed"}, filled : BOOLEAN]

ASSUME NothingIsNoRow == Nothing \notin Row

VARIABLES
    uploads,        \* receipts whose uploads row exists
    row,            \* the receipts row: transaction, link_mode, status, total and date known
    created,        \* transactions inserted by confirm_create, with their dedupe_hash
    job,            \* progress of the job of each receipt
    runs,           \* its runs so far
    jobSaw,         \* the row it looked up
    at,             \* progress of each request
    of,             \* the receipt it is about
    tx,             \* the transaction it is to write into it
    seen,           \* the row it has read
    swept,          \* receipts the running sweep has read and will delete
    confirmedSince, \* receipts confirmed since it read them (history)
    overtaken,      \* confirmations another one committed beside (history)
    raced,          \* receipts last confirmed by an overtaken one (history)
    rewritten       \* receipts the job wrote again after their confirmation (history)

jobs == <<job, runs, jobSaw>>
requests == <<at, of, tx, seen>>
races == <<overtaken, raced>>
vars == <<uploads, row, created, jobs, requests, swept, confirmedSince, races, rewritten>>

Ledger == Imported \cup {c[1] : c \in created}
Confirmed(r) == row[r] # Nothing /\ row[r].link # Nothing

TypeOK ==
    /\ uploads \subseteq Receipts
    /\ row \in [Receipts -> Row \cup {Nothing}]
    /\ created \subseteq Creates \X Receipts
    /\ job \in [Receipts -> {"queued", "looked", "written", "over"}]
    /\ runs \in [Receipts -> 0 .. MaxRuns]
    /\ jobSaw \in [Receipts -> Row \cup {Nothing}]
    /\ at \in [Requests -> {"start", "loaded", "checked", "inserted", "found", "over"}]
    /\ of \in [Requests -> Receipts \cup {Nothing}]
    /\ tx \in [Requests -> Transactions \cup {Nothing}]
    /\ seen \in [Requests -> Row \cup {Nothing}]
    /\ {swept, confirmedSince, raced, rewritten} \subseteq SUBSET Receipts
    /\ overtaken \subseteq Confirms

Init ==
    /\ uploads = Receipts
    /\ row = [r \in Receipts |-> Nothing]
    /\ created = {}
    /\ job = [r \in Receipts |-> "queued"]
    /\ runs = [r \in Receipts |-> 0]
    /\ jobSaw = [r \in Receipts |-> Nothing]
    /\ \E cast \in Casts : at = [q \in Requests |-> IF q \in cast THEN "start" ELSE "over"]
    /\ of = [q \in Requests |-> Nothing]
    /\ tx = [q \in Requests |-> Nothing]
    /\ seen = [q \in Requests |-> Nothing]
    /\ swept = {} /\ confirmedSince = {}
    /\ overtaken = {} /\ raced = {} /\ rewritten = {}

-----------------------------------------------------------------------------
(***************************************************************************)
(* _process_receipt.                                                       *)
(***************************************************************************)
Parsed(r) == IF r \in Legible THEN "pending" ELSE "needs_review"

JobLooksUp(r) ==
    /\ job[r] = "queued"
    /\ r \in uploads
    /\ runs[r] < MaxRuns
    /\ job' = [job EXCEPT ![r] = "looked"]
    /\ runs' = [runs EXCEPT ![r] = @ + 1]
    /\ jobSaw' = [jobSaw EXCEPT ![r] = row[r]]
    /\ UNCHANGED <<uploads, row, created, requests, swept, confirmedSince, races, rewritten>>

(* A retried job writes status and fields anew and leaves transaction_id   *)
(* and link_mode; the row is visible from here, before the job is over.    *)
JobWrites(r) ==
    /\ job[r] = "looked"
    /\ r \in uploads
    /\ IF jobSaw[r] = Nothing
       THEN row' = [row EXCEPT ![r] = [link |-> Nothing, mode |-> "none",
                                       status |-> Parsed(r), filled |-> r \in Legible]]
       ELSE /\ row[r] # Nothing
            /\ row' = [row EXCEPT
                  ![r].status = IF jobSaw[r].status = Parsed(r) THEN @ ELSE Parsed(r),
                  ![r].filled = IF jobSaw[r].filled = (r \in Legible) THEN @ ELSE r \in Legible]
    /\ rewritten' = IF Confirmed(r) THEN rewritten \cup {r} ELSE rewritten
    /\ job' = [job EXCEPT ![r] = "written"]
    /\ UNCHANGED <<uploads, created, runs, jobSaw, requests, swept, confirmedSince, races>>

(* The run completes, or a death, an exception or save_meta ends it and RQ *)
(* starts the next.                                                        *)
EndRun(r) ==
    /\ job[r] # "over"
    /\ \/ job' = [job EXCEPT ![r] = "over"]
       \/ job[r] # "queued" /\ runs[r] < MaxRuns /\ job' = [job EXCEPT ![r] = "queued"]
    /\ jobSaw' = [jobSaw EXCEPT ![r] = Nothing]
    /\ UNCHANGED <<uploads, row, created, runs, requests, swept, confirmedSince, races,
                   rewritten>>

-----------------------------------------------------------------------------
(***************************************************************************)
(* The routes.                                                             *)
(***************************************************************************)
InFlight(q) == at[q] \notin {"start", "over"}

(* Every way a request ends without a write of its own. *)
Answer(q) ==
    /\ at' = [at EXCEPT ![q] = "over"]
    /\ of' = [of EXCEPT ![q] = Nothing]
    /\ tx' = [tx EXCEPT ![q] = Nothing]
    /\ seen' = [seen EXCEPT ![q] = Nothing]

(* _load_receipt; a link names one of the user's transactions. *)
LoadReceipt(q) ==
    /\ at[q] = "start"
    /\ \E r \in Receipts :
          /\ row[r] # Nothing
          /\ of' = [of EXCEPT ![q] = r]
          /\ seen' = [seen EXCEPT ![q] = row[r]]
    /\ \E t \in IF q \in Links THEN Ledger ELSE {Nothing} : tx' = [tx EXCEPT ![q] = t]
    /\ at' = [at EXCEPT ![q] = "loaded"]
    /\ UNCHANGED <<uploads, row, created, jobs, swept, confirmedSince, races, rewritten>>

(* An error, or the server dying: the transaction is rolled back. *)
FailRequest(q) ==
    /\ InFlight(q)
    /\ Answer(q)
    /\ UNCHANGED <<uploads, row, created, jobs, swept, confirmedSince, races, rewritten>>

(* confirm_create without a total or a date is refused; a receipt that has *)
(* a transaction is answered with it.                                      *)
AnswerCreate(e) ==
    /\ at[e] = "loaded"
    /\ ~seen[e].filled \/ seen[e].link # Nothing
    /\ Answer(e)
    /\ UNCHANGED <<uploads, row, created, jobs, swept, confirmedSince, races, rewritten>>

Hash(r) == {c \in created : c[2] = r}
Inserting(r) == \E e \in Creates : at[e] = "inserted" /\ of[e] = r

(* Mutant: every transaction has a hash of its own. *)
InsertAnyTransaction(e) ==
    /\ at[e] = "loaded"
    /\ seen[e].filled /\ seen[e].link = Nothing
    /\ of[e] \in uploads
    /\ at' = [at EXCEPT ![e] = "inserted"]
    /\ tx' = [tx EXCEPT ![e] = e]
    /\ UNCHANGED <<uploads, row, created, jobs, of, seen, swept, confirmedSince, races,
                   rewritten>>

(* The INSERT ... ON CONFLICT waits for one of the same hash that has not  *)
(* committed, and needs the uploads row.                                   *)
InsertTransaction(e) ==
    /\ at[e] = "loaded"
    /\ seen[e].filled /\ seen[e].link = Nothing
    /\ ~Inserting(of[e])
    /\ Hash(of[e]) = {}
    /\ of[e] \in uploads
    /\ at' = [at EXCEPT ![e] = "inserted"]
    /\ tx' = [tx EXCEPT ![e] = e]
    /\ UNCHANGED <<uploads, row, created, jobs, of, seen, swept, confirmedSince, races,
                   rewritten>>

(* It inserted nothing: the row is found by its hash. *)
FindTransaction(e) ==
    /\ at[e] = "loaded"
    /\ seen[e].filled /\ seen[e].link = Nothing
    /\ ~Inserting(of[e])
    /\ \E c \in Hash(of[e]) : tx' = [tx EXCEPT ![e] = c[1]]
    /\ at' = [at EXCEPT ![e] = "found"]
    /\ UNCHANGED <<uploads, row, created, jobs, of, seen, swept, confirmedSince, races,
                   rewritten>>

Claimants(r, t) == {s \in Receipts \ {r} : row[s] # Nothing /\ row[s].link = t}

(* confirm_link of the transaction the receipt has, or of one another      *)
(* receipt claims (an error of its own when two do).                       *)
AnswerLink(k) ==
    /\ at[k] = "loaded"
    /\ seen[k].link = tx[k] \/ Claimants(of[k], tx[k]) # {}
    /\ Answer(k)
    /\ UNCHANGED <<uploads, row, created, jobs, swept, confirmedSince, races, rewritten>>

(* Mutant: a claimed transaction is not refused. *)
CheckNothing(k) ==
    /\ at[k] = "loaded"
    /\ seen[k].link # tx[k]
    /\ at' = [at EXCEPT ![k] = "checked"]
    /\ UNCHANGED <<uploads, row, created, jobs, of, tx, seen, swept, confirmedSince, races,
                   rewritten>>

CheckClaims(k) ==
    /\ at[k] = "loaded"
    /\ seen[k].link # tx[k]
    /\ Claimants(of[k], tx[k]) = {}
    /\ at' = [at EXCEPT ![k] = "checked"]
    /\ UNCHANGED <<uploads, row, created, jobs, of, tx, seen, swept, confirmedSince, races,
                   rewritten>>

(* The commit of a confirmation: an UPDATE of the columns that differ from *)
(* the row it read.  It fails (FailRequest) when the receipt is gone.      *)
Outcome(q) == IF q \in Links THEN "linked" ELSE "created"

Record(q, r) ==
    /\ created' = IF at[q] = "inserted" THEN created \cup {<<q, r>>} ELSE created
    /\ confirmedSince' = IF swept = {} THEN {} ELSE confirmedSince \cup {r}
    /\ overtaken' = (overtaken \cup {p \in Confirms : InFlight(p)}) \ {q}
    /\ raced' = IF q \in overtaken THEN raced \cup {r} ELSE raced \ {r}
    /\ UNCHANGED rewritten

(* Mutant: a second confirmation leaves link_mode as it is. *)
ModeKept(q, w) ==
    [w EXCEPT !.link = tx[q],
              !.mode = IF seen[q].mode = "none" THEN Outcome(q) ELSE @,
              !.status = IF seen[q].status = "confirmed" THEN @ ELSE "confirmed"]

(* Mutant: confirm_link leaves the status to the review page. *)
StatusKept(q, w) ==
    [w EXCEPT !.link = tx[q],
              !.mode = IF seen[q].mode = Outcome(q) THEN @ ELSE Outcome(q),
              !.status = IF q \in Links THEN @ ELSE "confirmed"]

(* Mutant: the receipt's own id goes into transaction_id. *)
OwnId(q, w) ==
    [w EXCEPT !.link = of[q],
              !.mode = IF seen[q].mode = Outcome(q) THEN @ ELSE Outcome(q),
              !.status = IF seen[q].status = "confirmed" THEN @ ELSE "confirmed"]

Updated(q, w) ==
    [w EXCEPT !.link = tx[q],
              !.mode = IF seen[q].mode = Outcome(q) THEN @ ELSE Outcome(q),
              !.status = IF seen[q].status = "confirmed" THEN @ ELSE "confirmed"]

CommitConfirm(q) ==
    /\ at[q] \in {"inserted", "found", "checked"}
    /\ row[of[q]] # Nothing
    /\ row' = [row EXCEPT ![of[q]] = Updated(q, @)]
    /\ Record(q, of[q])
    /\ Answer(q)
    /\ UNCHANGED <<uploads, jobs, swept>>

(* update_receipt refuses a receipt that was confirmed when it was read    *)
(* (FailRequest); it may be confirmed by the time this commits.            *)
CommitPatch(p) ==
    /\ at[p] = "loaded"
    /\ seen[p].link = Nothing
    /\ row[of[p]] # Nothing
    /\ row' = [row EXCEPT ![of[p]].filled = TRUE]
    /\ Answer(p)
    /\ UNCHANGED <<uploads, created, jobs, swept, confirmedSince, races, rewritten>>

(* The receipt and its upload go, the transaction stays.  Deleting the     *)
(* upload waits for an INSERT that refers to it.                           *)
CommitDelete(x) ==
    /\ at[x] = "loaded"
    /\ ~Inserting(of[x])
    /\ row' = [row EXCEPT ![of[x]] = Nothing]
    /\ uploads' = uploads \ {of[x]}
    /\ Answer(x)
    /\ UNCHANGED <<created, jobs, swept, confirmedSince, races, rewritten>>

-----------------------------------------------------------------------------
(***************************************************************************)
(* retention_sweep's receipts never confirmed.                             *)
(***************************************************************************)
(* Mutant: the status alone says that nobody confirmed a receipt. *)
SweepReadsStatus ==
    /\ swept = {}
    /\ \E old \in SUBSET {r \in Receipts : row[r] # Nothing /\ row[r].status # "confirmed"} :
          old # {} /\ swept' = old
    /\ confirmedSince' = {}
    /\ UNCHANGED <<uploads, row, created, jobs, requests, races, rewritten>>

(* Which of them are UNCONFIRMED_RECEIPT_DAYS old is any. *)
SweepReads ==
    /\ swept = {}
    /\ \E old \in SUBSET {r \in Receipts : /\ row[r] # Nothing
                                           /\ row[r].link = Nothing
                                           /\ row[r].status # "confirmed"} :
          old # {} /\ swept' = old
    /\ confirmedSince' = {}
    /\ UNCHANGED <<uploads, row, created, jobs, requests, races, rewritten>>

(* delete_receipt, by id, whatever became of the receipt. *)
SweepCommits ==
    /\ swept # {}
    /\ \A r \in swept : ~Inserting(r)
    /\ row' = [r \in Receipts |-> IF r \in swept THEN Nothing ELSE row[r]]
    /\ uploads' = uploads \ swept
    /\ swept' = {} /\ confirmedSince' = {}
    /\ UNCHANGED <<created, jobs, requests, races, rewritten>>

SweepFails ==
    /\ swept # {}
    /\ swept' = {} /\ confirmedSince' = {}
    /\ UNCHANGED <<uploads, row, created, jobs, requests, races, rewritten>>

-----------------------------------------------------------------------------
Next ==
    \/ \E r \in Receipts : JobLooksUp(r) \/ JobWrites(r) \/ EndRun(r)
    \/ \E q \in Requests : LoadReceipt(q) \/ FailRequest(q)
    \/ \E e \in Creates : AnswerCreate(e) \/ InsertTransaction(e) \/ FindTransaction(e)
    \/ \E k \in Links : AnswerLink(k) \/ CheckClaims(k)
    \/ \E q \in Confirms : CommitConfirm(q)
    \/ \E p \in Patches : CommitPatch(p)
    \/ \E x \in Deletes : CommitDelete(x)
    \/ SweepReads \/ SweepCommits \/ SweepFails

Spec == Init /\ [][Next]_vars

-----------------------------------------------------------------------------
(***************************************************************************)
(* Properties.                                                             *)
(***************************************************************************)

(* "One receipt can only ever produce one transaction"                     *)
(* (receipt_dedupe_hash): confirmations that race, are retried or come     *)
(* after a rollback insert one transaction for a receipt between them.     *)
CreatedOnce == \A c, d \in created : c[2] = d[2] => c = d

(* "Another receipt is already linked to that transaction" (confirm_link): *)
(* no two receipts hold one transaction, unless confirmations overlapped.  *)
LinkedOnce ==
    \A r, s \in Receipts \ raced :
        Confirmed(r) /\ Confirmed(s) /\ row[r].link = row[s].link => r = s

(* link_mode is "how a confirmed receipt produced its transaction": a      *)
(* receipt said to have created its transaction holds the one inserted for *)
(* it, however often it is confirmed again, unless confirmations overlapped. *)
LinkModeTrue ==
    \A r \in Receipts \ raced :
        row[r] # Nothing /\ row[r].mode = "created" => <<row[r].link, r>> \in created

(* The review queue holds no receipt that has a transaction, which could   *)
(* neither be edited nor swept, and a confirmed one has its transaction,   *)
(* unless the job ran again after the confirmation.                        *)
ReviewedIsOpen ==
    \A r \in Receipts \ rewritten :
        row[r] # Nothing => (row[r].link # Nothing <=> row[r].status = "confirmed")

(* "Scoped to rows that are already terminal or demonstrably abandoned"    *)
(* (retention_sweep): a receipt that has its transaction is swept only if  *)
(* it was confirmed after the sweep had read it.                           *)
SweepSparesConfirmed ==
    [][SweepCommits => \A r \in swept : Confirmed(r) => r \in confirmedSince]_vars
=============================================================================
