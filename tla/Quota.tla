------------------------------- MODULE Quota -------------------------------
(***************************************************************************)
(* The durable upload budget of one persistent account                     *)
(* (apps/api/ledgerai/services/quota.py).                                  *)
(*                                                                         *)
(* A request reads the clock, locks the usage row of the day it read,      *)
(* sums what is committed and what is held, inserts a reservation and      *)
(* commits.  The worker later converts the reservation into committed      *)
(* usage under the same row lock; a failure releases it; a sweep deletes   *)
(* the reservations that outlived their TTL.  Budgets of different         *)
(* accounts share nothing, so the model has one account.                   *)
(*                                                                         *)
(* Transactions run at READ COMMITTED: a row a request has inserted but    *)
(* not committed is invisible to everybody else, which is why "claimed"    *)
(* and "held" are two phases.                                              *)
(***************************************************************************)
EXTENDS Integers, FiniteSets, FiniteSetsExt

CONSTANTS
    Requests,          \* upload requests of the account
    NoRequest,         \* the holder of a free day row
    MaxTime,           \* bound on the clock
    DayLength,         \* ticks in a UTC day
    TTL,               \* RESERVATION_TTL, in ticks
    ConcurrentJobs,    \* settings.quota_concurrent_jobs
    UploadsPerDay,     \* settings.quota_uploads_per_day
    BytesPerDay,       \* settings.quota_upload_bytes_per_day
    StoredBytes,       \* settings.quota_stored_bytes
    PagesPerDay,       \* settings.quota_statement_pages_per_day
    OpenImports,       \* settings.quota_statement_imports
    LedgerRows,        \* settings.quota_transaction_rows / quota_receipts
    SizeOf,            \* bytes each request carries
    PagesOf,           \* statement pages each request carries, 0 if no PDF
    RowsOf             \* transactions or receipts its job writes

ASSUME BudgetAssumption ==
    /\ IsFiniteSet(Requests)
    /\ NoRequest \notin Requests
    /\ MaxTime \in Nat
    /\ DayLength \in Nat \ {0}
    /\ TTL \in Nat \ {0}
    /\ {ConcurrentJobs, UploadsPerDay, BytesPerDay, StoredBytes,
        PagesPerDay, OpenImports, LedgerRows} \subseteq Nat
    /\ {SizeOf, PagesOf, RowsOf} \subseteq [Requests -> Nat]

Time == 0 .. MaxTime
Day(t) == t \div DayLength
Days == {Day(t) : t \in Time}

Phases == {"idle", "arrived", "locked", "claimed", "held",
           "converted", "released", "lapsed", "refused"}

VARIABLES
    now,         \* the clock all processes read
    phase,       \* progress of each request's budget claim
    moment,      \* the clock reading reserve_upload works with
    dayLock,     \* who holds the usage row of each day FOR UPDATE
    usage,       \* user_usage: committed counters of each day
    upload,      \* the request's uploads row and whether its object remains
    resultsDay,  \* the day its job committed rows, or -1
    converting,  \* claims commit_by_upload has read and not yet converted
    late         \* claims used after they had expired (history)

vars == <<now, phase, moment, dayLock, usage, upload, resultsDay, converting, late>>

TypeOK ==
    /\ now \in Time
    /\ phase \in [Requests -> Phases]
    /\ moment \in [Requests -> Time]
    /\ dayLock \in [Days -> Requests \cup {NoRequest}]
    /\ usage \in [Days -> [uploads : Nat, bytes : Nat]]
    /\ upload \in [Requests -> {"none", "stored", "purged"}]
    /\ resultsDay \in [Requests -> Days \cup {-1}]
    /\ converting \subseteq Requests
    /\ late \subseteq Requests

(***************************************************************************)
(* What the queries of the module read.                                    *)
(***************************************************************************)
UsageDate(r) == Day(moment[r])
Expired(r) == now >= moment[r] + TTL
Live == {r \in Requests : phase[r] = "held" /\ ~Expired(r)}
LiveOn(d) == {r \in Live : UsageDate(r) = d}

(* Only a live claim may be used; a late user is remembered. *)
Uses(r) == late' = IF r \in Live THEN late ELSE late \cup {r}

SumOver(f, S) == MapThenSumSet(LAMBDA r : f[r], S)

Stored == SumOver(SizeOf, {r \in Requests : upload[r] = "stored"})
WithResults == {r \in Requests : resultsDay[r] # -1}
Imports == {r \in WithResults : PagesOf[r] > 0}
PagesToday(d) ==
    SumOver(PagesOf, {r \in Imports : resultsDay[r] >= d}) + SumOver(PagesOf, LiveOn(d))

(* Mutant: pages already staged today are not counted. *)
FitsHeldPages(r) ==
    /\ Cardinality(Live) < ConcurrentJobs
    /\ PagesOf[r] > 0 => SumOver(PagesOf, LiveOn(UsageDate(r))) + PagesOf[r] <= PagesPerDay

(* reserve_upload's checks, in the order it makes them. *)
Fits(r) ==
    LET d == UsageDate(r) IN
    /\ Cardinality(Live) < ConcurrentJobs
    /\ usage[d].uploads + Cardinality(LiveOn(d)) < UploadsPerDay
    /\ usage[d].bytes + SumOver(SizeOf, LiveOn(d)) + SizeOf[r] <= BytesPerDay
    /\ Stored + SumOver(SizeOf, LiveOn(d)) + SizeOf[r] <= StoredBytes
    /\ SumOver(RowsOf, WithResults) < LedgerRows
    /\ PagesOf[r] > 0 => /\ PagesToday(d) + PagesOf[r] <= PagesPerDay
                         /\ Cardinality(Imports) < OpenImports

Init ==
    /\ now = 0
    /\ phase = [r \in Requests |-> "idle"]
    /\ moment = [r \in Requests |-> 0]
    /\ dayLock = [d \in Days |-> NoRequest]
    /\ usage = [d \in Days |-> [uploads |-> 0, bytes |-> 0]]
    /\ upload = [r \in Requests |-> "none"]
    /\ resultsDay = [r \in Requests |-> -1]
    /\ converting = {}
    /\ late = {}

-----------------------------------------------------------------------------
(***************************************************************************)
(* reserve_upload, run by reserve_for_request in a transaction of its own. *)
(***************************************************************************)

(* The clock is read before the day row is locked. *)
Arrive(r) ==
    /\ phase[r] = "idle"
    /\ phase' = [phase EXCEPT ![r] = "arrived"]
    /\ moment' = [moment EXCEPT ![r] = now]
    /\ UNCHANGED <<now, dayLock, usage, upload, resultsDay, converting, late>>

(* Mutant: the row is read without FOR UPDATE. *)
LockDayUnlocked(r) ==
    /\ phase[r] = "arrived"
    /\ phase' = [phase EXCEPT ![r] = "locked"]
    /\ dayLock' = [dayLock EXCEPT ![UsageDate(r)] = r]
    /\ UNCHANGED <<now, moment, usage, upload, resultsDay, converting, late>>

(* INSERT .. ON CONFLICT DO NOTHING, then SELECT .. FOR UPDATE. *)
LockDay(r) ==
    /\ phase[r] = "arrived"
    /\ dayLock[UsageDate(r)] = NoRequest
    /\ phase' = [phase EXCEPT ![r] = "locked"]
    /\ dayLock' = [dayLock EXCEPT ![UsageDate(r)] = r]
    /\ UNCHANGED <<now, moment, usage, upload, resultsDay, converting, late>>

(* Every total fits: the reservation is inserted, still uncommitted. *)
Claim(r) ==
    /\ phase[r] = "locked"
    /\ Fits(r)
    /\ phase' = [phase EXCEPT ![r] = "claimed"]
    /\ UNCHANGED <<now, moment, dayLock, usage, upload, resultsDay, converting, late>>

(* QuotaExceededError: the transaction rolls back and frees the row. *)
Refuse(r) ==
    /\ phase[r] = "locked"
    /\ ~Fits(r)
    /\ phase' = [phase EXCEPT ![r] = "refused"]
    /\ dayLock' = [dayLock EXCEPT ![UsageDate(r)] = NoRequest]
    /\ UNCHANGED <<now, moment, usage, upload, resultsDay, converting, late>>

CommitClaim(r) ==
    /\ phase[r] = "claimed"
    /\ phase' = [phase EXCEPT ![r] = "held"]
    /\ dayLock' = [dayLock EXCEPT ![UsageDate(r)] = NoRequest]
    /\ UNCHANGED <<now, moment, usage, upload, resultsDay, converting, late>>

(* The API process dies inside the transaction; the server rolls it back. *)
CrashReserving(r) ==
    /\ phase[r] \in {"locked", "claimed"}
    /\ phase' = [phase EXCEPT ![r] = "refused"]
    /\ dayLock' = [dayLock EXCEPT ![UsageDate(r)] = NoRequest]
    /\ UNCHANGED <<now, moment, usage, upload, resultsDay, converting, late>>

-----------------------------------------------------------------------------
(***************************************************************************)
(* What the rest of the system does with a claim.                          *)
(***************************************************************************)

(* The request commits its uploads row with the claim bound to it. *)
StoreUpload(r) ==
    /\ phase[r] \in {"held", "lapsed"}
    /\ upload[r] = "none"
    /\ upload' = [upload EXCEPT ![r] = "stored"]
    /\ Uses(r)
    /\ UNCHANGED <<now, phase, moment, dayLock, usage, resultsDay, converting>>

(* Mutant: the row remembers the instant where the day is meant. *)
CommitResultsInstant(r) ==
    /\ upload[r] = "stored"
    /\ phase[r] \in {"held", "lapsed"}
    /\ resultsDay[r] = -1
    /\ resultsDay' = [resultsDay EXCEPT ![r] = now]
    /\ Uses(r)
    /\ UNCHANGED <<now, phase, moment, dayLock, usage, upload, converting>>

(* The job commits transactions, a receipt or a staged statement. *)
CommitResults(r) ==
    /\ upload[r] = "stored"
    /\ phase[r] \in {"held", "lapsed"}
    /\ resultsDay[r] = -1
    /\ resultsDay' = [resultsDay EXCEPT ![r] = Day(now)]
    /\ Uses(r)
    /\ UNCHANGED <<now, phase, moment, dayLock, usage, upload, converting>>

(* commit_by_upload finds the reservation before it locks the day row. *)
FindClaim(r) ==
    /\ phase[r] = "held"
    /\ upload[r] # "none"
    /\ r \notin converting
    /\ converting' = converting \cup {r}
    /\ UNCHANGED <<now, phase, moment, dayLock, usage, upload, resultsDay, late>>

(* Mutant: usage is charged to the day the job ended. *)
ConvertToday(r) ==
    LET d == Day(now) IN
    /\ r \in converting
    /\ dayLock[d] = NoRequest
    /\ converting' = converting \ {r}
    /\ usage' = [usage EXCEPT ![d] = [uploads |-> @.uploads + 1,
                                      bytes |-> @.bytes + SizeOf[r]]]
    /\ phase' = [phase EXCEPT ![r] = "converted"]
    /\ Uses(r)
    /\ UNCHANGED <<now, moment, dayLock, upload, resultsDay>>

(* The day row is locked, the counters rise, the reservation goes, COMMIT. *)
(* A reservation swept since it was found is counted all the same.         *)
Convert(r) ==
    LET d == UsageDate(r) IN
    /\ r \in converting
    /\ dayLock[d] = NoRequest
    /\ converting' = converting \ {r}
    /\ usage' = [usage EXCEPT ![d] = [uploads |-> @.uploads + 1,
                                      bytes |-> @.bytes + SizeOf[r]]]
    /\ phase' = [phase EXCEPT ![r] = "converted"]
    /\ Uses(r)
    /\ UNCHANGED <<now, moment, dayLock, upload, resultsDay>>

(* release when the intake fails, release_for_upload when the job ends in  *)
(* a failure it declares itself: the job writes nothing afterwards.        *)
Release(r) ==
    /\ phase[r] = "held"
    /\ r \notin converting
    /\ phase' = [phase EXCEPT ![r] = "released"]
    /\ UNCHANGED <<now, moment, dayLock, usage, upload, resultsDay, converting, late>>

(* retention_sweep gives up on an upload stuck for longer than the TTL; a  *)
(* slow job may still be running.                                          *)
ReleaseStuck(r) ==
    /\ phase[r] = "held"
    /\ Expired(r)
    /\ phase' = [phase EXCEPT ![r] = "lapsed"]
    /\ UNCHANGED <<now, moment, dayLock, usage, upload, resultsDay, converting, late>>

(* sweep_expired: one DELETE over everything past its expiry. *)
SweepExpired ==
    /\ \E r \in Requests : phase[r] = "held" /\ Expired(r)
    /\ phase' = [r \in Requests |-> IF phase[r] = "held" /\ Expired(r)
                                    THEN "lapsed" ELSE phase[r]]
    /\ UNCHANGED <<now, moment, dayLock, usage, upload, resultsDay, converting, late>>

(* The stored object goes: rejection, retention, a committed statement. *)
PurgeObject(r) ==
    /\ upload[r] = "stored"
    /\ upload' = [upload EXCEPT ![r] = "purged"]
    /\ UNCHANGED <<now, phase, moment, dayLock, usage, resultsDay, converting, late>>

(* The owner deletes the rows, the receipt or the staged statement. *)
DiscardResults(r) ==
    /\ resultsDay[r] # -1
    /\ resultsDay' = [resultsDay EXCEPT ![r] = -1]
    /\ UNCHANGED <<now, phase, moment, dayLock, usage, upload, converting, late>>

Tick ==
    /\ now < MaxTime
    /\ now' = now + 1
    /\ UNCHANGED <<phase, moment, dayLock, usage, upload, resultsDay, converting, late>>

Next ==
    \/ SweepExpired
    \/ Tick
    \/ \E r \in Requests :
          \/ Arrive(r)
          \/ LockDay(r)
          \/ Claim(r)
          \/ Refuse(r)
          \/ CommitClaim(r)
          \/ CrashReserving(r)
          \/ StoreUpload(r)
          \/ CommitResults(r)
          \/ FindClaim(r)
          \/ Convert(r)
          \/ Release(r)
          \/ ReleaseStuck(r)
          \/ PurgeObject(r)
          \/ DiscardResults(r)

Spec == Init /\ [][Next]_vars

-----------------------------------------------------------------------------
(***************************************************************************)
(* Properties.                                                             *)
(***************************************************************************)
ConvertedOn(d) == {r \in Requests : phase[r] = "converted" /\ UsageDate(r) = d}

(* Claims that count against day d: live ones, and those converted before  *)
(* they expired.                                                           *)
InTime(d) == LiveOn(d) \cup (ConvertedOn(d) \ late)

(* The committed counters of a day are exactly the claims converted on it: *)
(* commit_by_upload, racing the sweep between its read and its lock,       *)
(* neither loses nor repeats a conversion.                                 *)
UsageCountsConversions ==
    \A d \in Days :
        /\ usage[d].uploads = Cardinality(ConvertedOn(d))
        /\ usage[d].bytes = SumOver(SizeOf, ConvertedOn(d))

(* Two requests never take the last upload of a day: the claims that count *)
(* against a day stay within quota_uploads_per_day, whatever the clock     *)
(* does between reading it and locking the row.  Only a claim converted    *)
(* after its TTL escapes the limit.                                        *)
DailyUploadsBounded ==
    \A d \in Days : Cardinality(InTime(d)) <= UploadsPerDay

(* The same for the bytes of a day.                                        *)
DailyBytesFit ==
    \A d \in Days : SumOver(SizeOf, InTime(d)) <= BytesPerDay

(* "That hold is the concurrency limit" (docs/security.md): the live       *)
(* claims of a day never outnumber quota_concurrent_jobs.  Claims of two   *)
(* days may: the day row serialises two requests only when both read the   *)
(* same day.                                                               *)
ConcurrentJobsFit ==
    \A d \in Days : Cardinality(LiveOn(d)) <= ConcurrentJobs

(* No request has read another day than its neighbours. *)
OneDay ==
    \A q, r \in Requests :
        phase[q] # "idle" /\ phase[r] # "idle" => UsageDate(q) = UsageDate(r)

(* The storage budget: what is stored and what live claims may still store *)
(* fits quota_stored_bytes.  An object stored after its claim expired, and *)
(* claims of another day, escape it.                                       *)
StoredBytesFit ==
    OneDay =>
        SumOver(SizeOf, {r \in Requests \ late : upload[r] = "stored"}
                        \cup {r \in Live : upload[r] = "none"}) <= StoredBytes

(* The page budget: statement pages staged on a day and pages of live      *)
(* claims whose statement is still to be staged fit the day's limit, with  *)
(* the same two exceptions.                                                *)
DailyPagesFit ==
    OneDay =>
        \A d \in Days :
            SumOver(PagesOf, {r \in Imports \ late : resultsDay[r] = d}
                             \cup {r \in LiveOn(d) : resultsDay[r] = -1}) <= PagesPerDay

(* The other limits of the budget, checked one after another under the     *)
(* lock of one day, hold together however requests, jobs and sweeps        *)
(* interleave with the clock.                                              *)
LimitsKept == DailyBytesFit /\ ConcurrentJobsFit /\ StoredBytesFit /\ DailyPagesFit
=============================================================================
