--------------------------- MODULE AccountDeletion ---------------------------
(***************************************************************************)
(* Deleting one Clerk-backed account: lazy provisioning                    *)
(* (services/identity.py), the tombstone (services/account_deletion.py),   *)
(* the deletion route (routers/settings.py, services/lifecycle.py), the    *)
(* user.deleted webhook and the reconciliation pass                        *)
(* (jobs/account_reconcile.py), over a database, an object store and an    *)
(* identity provider that share no transaction.                            *)
(*                                                                         *)
(* A profile is named by the request whose provisioning inserted it, a     *)
(* stored file by the request that put it.  One reconciliation pass runs   *)
(* at a time: OneRunner of MaintenanceSchedule.                            *)
(***************************************************************************)
EXTENDS Integers

CONSTANTS
    Requests,      \* authenticated requests with a token of the subject
    Kinds,         \* what each may do: "visit", "upload", "preview", "delete"
    Old,           \* the profile and the file from before the model starts
    Nobody,        \* no profile
    Starts,        \* which of them come, and whether the subject has a profile then
    MaxAttempts    \* MAX_ATTEMPTS

ASSUME DeletionAssumption ==
    /\ Kinds \in [Requests -> SUBSET {"visit", "upload", "preview", "delete"}]
    /\ Old \notin Requests /\ Nobody \notin Requests \cup {Old}
    /\ Starts \subseteq [asking : SUBSET Requests, known : BOOLEAN]
    /\ MaxAttempts \in Nat \ {0}

VARIABLES
    user,        \* the users row of the subject
    userStatus,  \* its status, kept while there is no row
    files,       \* objects under the prefixes of its profiles
    tombstone,   \* state of the deleted_identities row
    tombUser,    \* its user_id
    attempts,    \* its attempts
    identity,    \* whether the Clerk identity exists
    request,     \* progress of each request
    who,         \* the profile each request authenticated as
    pass,        \* the reconciliation pass, with what it read of the row
    lingering,   \* files a purge of the route failed on or an upload overtook (history)
    condemned    \* profiles the intent was recorded for before a pass had read it (history)

row == <<user, userStatus>>
mark == <<tombstone, tombUser, attempts>>
client == <<request, who>>
vars == <<user, userStatus, files, tombstone, tombUser, attempts, identity, request, who,
          pass, lingering, condemned>>
history == <<lingering, condemned>>

Profiles == Requests \cup {Old}
Unfinished == {"pending", "storage_purged"}
Idle == [at |-> "idle", state |-> "none", user |-> Nobody, erased |-> FALSE, revoked |-> FALSE]

TypeOK ==
    /\ user \in Profiles \cup {Nobody}
    /\ userStatus \in {"active", "pending_deletion"}
    /\ files \subseteq Profiles
    /\ tombstone \in {"none", "complete"} \cup Unfinished
    /\ tombUser \in Profiles \cup {Nobody}
    /\ attempts \in 0 .. MaxAttempts
    /\ identity \in BOOLEAN
    /\ request \in [Requests -> {"start", "checked", "resolving", "inserting", "known", "admitted", "put",
                                 "recorded", "purged", "done", "denied"}]
    /\ who \in [Requests -> Profiles \cup {Nobody}]
    /\ pass \in [at : {"idle", "purging", "purged", "revoking", "closing"},
                 state : {"none"} \cup Unfinished,
                 user : Profiles \cup {Nobody},
                 erased : BOOLEAN,
                 revoked : BOOLEAN]
    /\ lingering \subseteq Profiles
    /\ condemned \subseteq Profiles

Owner(f) == IF f = Old THEN Old ELSE who[f]
FilesOf(u) == {f \in files : Owner(f) = u}

(* The pass holds its row locks from its first flush to its commit. *)
UserLocked == pass.erased
TombstoneLocked == pass.at \in {"revoking", "closing"} /\ pass.state = "pending"

Init ==
    /\ \E start \in Starts :
          /\ user = IF start.known THEN Old ELSE Nobody
          /\ files = IF start.known THEN {Old} ELSE {}
          /\ request = [r \in Requests |-> IF r \in start.asking THEN "start" ELSE "denied"]
    /\ userStatus = "active"
    /\ tombstone = "none"
    /\ tombUser = Nobody
    /\ attempts = 0
    /\ identity = TRUE
    /\ who = [r \in Requests |-> Nobody]
    /\ pass = Idle
    /\ lingering = {}
    /\ condemned = {}

Goto(r, pc) == request' = [request EXCEPT ![r] = pc]

-----------------------------------------------------------------------------
(***************************************************************************)
(* provision_profile and get_current_user, before every handler.           *)
(***************************************************************************)

(* The tombstone first ... *)
LookUpTombstone(r) ==
    /\ request[r] = "start"
    /\ Goto(r, IF tombstone = "none" THEN "checked" ELSE "denied")
    /\ UNCHANGED <<who, row, files, mark, identity, pass, history>>

(* ... then the profile. *)
LookUpProfile(r) ==
    /\ request[r] = "checked"
    /\ Goto(r, IF user # Nobody THEN "known" ELSE "resolving")
    /\ who' = [who EXCEPT ![r] = user]
    /\ UNCHANGED <<row, files, mark, identity, pass, history>>

(* fetch_verified_email asks Clerk, which may take its time. *)
ResolveEmail(r) ==
    /\ request[r] = "resolving"
    /\ identity
    /\ Goto(r, "inserting")
    /\ UNCHANGED <<who, row, files, mark, identity, pass, history>>

(* Clerk has no such user or does not answer, or no invitation is open. *)
RefuseProfile(r) ==
    /\ request[r] \in {"resolving", "inserting"}
    /\ Goto(r, "denied")
    /\ UNCHANGED <<who, row, files, mark, identity, pass, history>>

(* INSERT .. ON CONFLICT DO NOTHING; the loser re-reads the winner's row. *)
InsertProfile(r) ==
    /\ request[r] = "inserting"
    /\ ~UserLocked
    /\ IF user = Nobody THEN user' = r /\ userStatus' = "active" ELSE UNCHANGED row
    /\ who' = [who EXCEPT ![r] = user']
    /\ Goto(r, "known")
    /\ UNCHANGED <<files, mark, identity, pass, history>>

(* The row is read again in the request's own session. *)
Admit(r) ==
    /\ request[r] = "known"
    /\ Goto(r, IF user = who[r] /\ userStatus = "active" THEN "admitted" ELSE "denied")
    /\ UNCHANGED <<who, row, files, mark, identity, pass, history>>

-----------------------------------------------------------------------------
(***************************************************************************)
(* What an admitted request does.                                          *)
(***************************************************************************)
Visit(r) ==
    /\ request[r] = "admitted" /\ "visit" \in Kinds[r]
    /\ Goto(r, "done")
    /\ UNCHANGED <<who, row, files, mark, identity, pass, history>>

PutFile(r) ==
    /\ request[r] = "admitted" /\ "upload" \in Kinds[r]
    /\ files' = files \cup {r}
    /\ Goto(r, "put")
    /\ UNCHANGED <<who, row, mark, identity, pass, history>>

(* An upload that ends after the deletion began may have put its file when *)
(* the prefix was already purged.                                          *)
Overtakes(r) ==
    lingering' = IF request[r] = "put" /\ tombstone # "none"
                 THEN lingering \cup {r} ELSE lingering

(* The uploads row references the profile; without it the INSERT fails and *)
(* the object is discarded, at best.                                       *)
InsertFileRow(r) ==
    /\ request[r] = "put"
    /\ ~UserLocked
    /\ \/ user = who[r] /\ UNCHANGED files
       \/ user # who[r] /\ files' = files \ {r}
       \/ user # who[r] /\ UNCHANGED files
    /\ Overtakes(r)
    /\ Goto(r, "done")
    /\ UNCHANGED <<who, row, mark, identity, pass, condemned>>

(* The intent names the profile there is, and no pass has read it yet. *)
Condemn ==
    condemned' = IF /\ tombstone \in {"none", "pending"} /\ pass.at = "idle"
                    /\ user # Nobody /\ tombUser \in {Nobody, user}
                 THEN condemned \cup {user} ELSE condemned

(* Mutant: the profile is not marked. *)
RecordIntentOnly ==
    /\ ~TombstoneLocked
    /\ tombstone' = IF tombstone = "none" THEN "pending" ELSE tombstone
    /\ tombUser' = IF tombUser = Nobody THEN user ELSE tombUser
    /\ Condemn
    /\ UNCHANGED <<row, attempts>>

(* Mutant: the profile to purge is not remembered. *)
RecordIntentBlindly ==
    /\ ~TombstoneLocked
    /\ tombstone' = IF tombstone = "none" THEN "pending" ELSE tombstone
    /\ userStatus' = IF user = Nobody THEN userStatus ELSE "pending_deletion"
    /\ Condemn
    /\ UNCHANGED <<user, tombUser, attempts>>

(* Mutant: a repeated intent starts the deletion over. *)
RecordIntentAfresh ==
    /\ ~TombstoneLocked
    /\ tombstone' = "pending"
    /\ tombUser' = IF tombUser = Nobody THEN user ELSE tombUser
    /\ userStatus' = IF user = Nobody THEN userStatus ELSE "pending_deletion"
    /\ Condemn
    /\ UNCHANGED <<user, attempts>>

(* record_deletion_intent and its commit: the row is inserted, or its      *)
(* profile filled in while unknown, and the profile is marked.             *)
RecordIntent ==
    /\ ~TombstoneLocked /\ ~UserLocked
    /\ tombstone' = IF tombstone = "none" THEN "pending" ELSE tombstone
    /\ tombUser' = IF tombUser = Nobody THEN user ELSE tombUser
    /\ userStatus' = IF user = Nobody THEN userStatus ELSE "pending_deletion"
    /\ Condemn
    /\ UNCHANGED <<user, attempts>>

(* delete_account records the intent before it looks at the confirmation,  *)
(* the rate limit or dry_run: after a preview, or a refusal, it stands.    *)
BeginDeletion(r) ==
    /\ request[r] = "admitted"
    /\ \/ "delete" \in Kinds[r] /\ Goto(r, "recorded")
       \/ "preview" \in Kinds[r] /\ Goto(r, "done")
    /\ RecordIntent
    /\ UNCHANGED <<who, files, identity, pass, lingering>>

(* delete_prefix; a StorageError is reported to the user, no more. *)
PurgeFiles(r) ==
    /\ request[r] = "recorded"
    /\ \/ files' = files \ FilesOf(who[r]) /\ UNCHANGED lingering
       \/ UNCHANGED files /\ lingering' = lingering \cup FilesOf(who[r])
    /\ Goto(r, "purged")
    /\ UNCHANGED <<who, row, mark, identity, pass, condemned>>

(* DELETE FROM users cascades to everything; then COMMIT. *)
DeleteUser(r) ==
    /\ request[r] = "purged"
    /\ ~UserLocked
    /\ user' = IF user = who[r] THEN Nobody ELSE user
    /\ Goto(r, "done")
    /\ UNCHANGED <<who, userStatus, files, mark, identity, pass, history>>

(* The API process dies or a statement fails: the handler stops here, if   *)
(* the request was admitted at all.                                        *)
CrashRequest(r) ==
    /\ request[r] \notin {"start", "done", "denied"}
    /\ Goto(r, IF request[r] \in {"admitted", "put", "recorded", "purged"} THEN "done"
               ELSE "denied")
    /\ Overtakes(r)
    /\ UNCHANGED <<who, row, files, mark, identity, pass, condemned>>

-----------------------------------------------------------------------------
(***************************************************************************)
(* Clerk and its webhook.                                                  *)
(***************************************************************************)

(* The identity is deleted at the provider, without us. *)
ClerkDeletes ==
    /\ identity
    /\ identity' = FALSE
    /\ UNCHANGED <<row, files, mark, client, pass, history>>

(* user.deleted, delivered any number of times at any time afterwards. *)
Webhook ==
    /\ ~identity
    /\ RecordIntent
    /\ UNCHANGED <<files, identity, client, pass, lingering>>

-----------------------------------------------------------------------------
(***************************************************************************)
(* reconcile_deletions.                                                    *)
(***************************************************************************)

(* Mutant: only deletions that have not begun are picked up. *)
PassReadsPending ==
    /\ pass.at = "idle"
    /\ tombstone = "pending" /\ attempts < MaxAttempts
    /\ pass' = [Idle EXCEPT !.at = "purging", !.state = tombstone, !.user = tombUser]
    /\ UNCHANGED <<row, files, mark, identity, client, history>>

(* unfinished: the pass works with the state and the profile it reads. *)
PassReads ==
    /\ pass.at = "idle"
    /\ tombstone \in Unfinished /\ attempts < MaxAttempts
    /\ pass' = [Idle EXCEPT !.at = IF tombstone = "pending" THEN "purging" ELSE "revoking",
                            !.state = tombstone, !.user = tombUser]
    /\ UNCHANGED <<row, files, mark, identity, client, history>>

ProfileRemains == pass.user # Nobody /\ user = pass.user

(* "The profile never existed, or a previous attempt removed it". *)
PassFindsNothing ==
    /\ pass.at = "purging"
    /\ ~ProfileRemains
    /\ pass' = [pass EXCEPT !.at = "revoking"]
    /\ UNCHANGED <<row, files, mark, identity, client, history>>

(* Mutant: a StorageError does not stop the purge. *)
PassPurgesAtBest ==
    /\ pass.at = "purging"
    /\ ProfileRemains
    /\ files' \in {files, files \ FilesOf(pass.user)}
    /\ pass' = [pass EXCEPT !.at = "purged"]
    /\ UNCHANGED <<row, mark, identity, client, history>>

PassPurgesFiles ==
    /\ pass.at = "purging"
    /\ ProfileRemains
    /\ files' = files \ FilesOf(pass.user)
    /\ pass' = [pass EXCEPT !.at = "purged"]
    /\ UNCHANGED <<row, mark, identity, client, history>>

(* The DELETE is flushed, not committed. *)
PassErasesUser ==
    /\ pass.at = "purged"
    /\ pass' = [pass EXCEPT !.at = "revoking", !.erased = ProfileRemains]
    /\ UNCHANGED <<row, files, mark, identity, client, history>>

(* revoke_identity: deleted or already absent, or anything else, an        *)
(* applied call whose answer was lost included.                            *)
PassRevokes ==
    /\ pass.at = "revoking"
    /\ \E ok \in BOOLEAN :
          /\ pass' = [pass EXCEPT !.at = "closing", !.revoked = ok]
          /\ IF ok THEN identity' = FALSE ELSE identity' \in {identity, FALSE}
    /\ UNCHANGED <<row, files, mark, client, history>>

(* mark_storage_purged, then mark_complete or record_attempt, and COMMIT. *)
PassCommits ==
    /\ pass.at = "closing"
    /\ user' = IF pass.erased THEN Nobody ELSE user
    /\ IF pass.revoked
       THEN tombstone' = "complete" /\ UNCHANGED attempts
       ELSE tombstone' = "storage_purged" /\ attempts' = attempts + 1
    /\ tombUser' = IF pass.user # Nobody /\ (pass.revoked \/ pass.state = "pending")
                   THEN Nobody ELSE tombUser
    /\ pass' = Idle
    /\ UNCHANGED <<userStatus, files, identity, client, history>>

(* A StorageError or a database error: roll back, count the attempt in a   *)
(* session of its own.                                                     *)
PassFails ==
    /\ pass.at # "idle"
    /\ attempts' = attempts + 1
    /\ pass' = Idle
    /\ UNCHANGED <<row, tombstone, tombUser, files, identity, client, history>>

PassDies ==
    /\ pass.at # "idle"
    /\ pass' = Idle
    /\ UNCHANGED <<row, files, mark, identity, client, history>>

-----------------------------------------------------------------------------
Handler(r) ==
    \/ LookUpTombstone(r) \/ LookUpProfile(r)
    \/ ResolveEmail(r) \/ RefuseProfile(r) \/ InsertProfile(r)
    \/ Admit(r) \/ Visit(r) \/ PutFile(r) \/ InsertFileRow(r)
    \/ BeginDeletion(r) \/ PurgeFiles(r) \/ DeleteUser(r) \/ CrashRequest(r)

Purge == PassFindsNothing \/ PassPurgesFiles

Pass == PassReads \/ Purge \/ PassErasesUser \/ PassRevokes \/ PassCommits
        \/ PassFails \/ PassDies

Next ==
    \/ ClerkDeletes
    \/ Webhook
    \/ Pass
    \/ \E r \in Requests : Handler(r)

Spec == Init /\ [][Next]_vars

(* The schedule runs the pass again and again (SweepsRecur of              *)
(* MaintenanceSchedule); a pass may die any number of times, but not every *)
(* time at the same step.  Nothing makes Clerk or the store answer.        *)
Fairness ==
    /\ WF_vars(PassReads)
    /\ SF_vars(Purge)
    /\ SF_vars(PassErasesUser)
    /\ SF_vars(PassRevokes)
    /\ SF_vars(PassCommits)

FairSpec == Spec /\ Fairness

-----------------------------------------------------------------------------
(***************************************************************************)
(* Properties.                                                             *)
(***************************************************************************)
Rank(state) == CASE state = "none" -> 0 [] state = "pending" -> 1
                 [] state = "storage_purged" -> 2 [] state = "complete" -> 3

(* A repeated request, a replayed webhook or a pass working with a state   *)
(* it read earlier never takes the deletion back a stage.                  *)
ProgressIsKept == [][Rank(tombstone') >= Rank(tombstone)]_vars

(* "That one fact denies access immediately": once the tombstone exists,   *)
(* no request that already looked is admitted to a profile it was recorded *)
(* for.                                                                    *)
TombstoneDenies ==
    [][\A r \in Requests :
          Admit(r) /\ request'[r] = "admitted" /\ tombstone # "none" =>
              who[r] \notin condemned \cup {tombUser}]_vars

(* A deletion whose local part is done has left no profile row that it was *)
(* recorded for: the pass knew which one to remove, or the route had       *)
(* removed it.  A profile that a visit rebuilt beside the tombstone is not *)
(* one of them, unless a later intent recorded it in time: while the       *)
(* deletion was pending and no pass was under way.                         *)
PurgedMeansNoProfile ==
    tombstone \in {"storage_purged", "complete"} => user \notin condemned

(* A complete deletion has revoked the identity at the provider, and left  *)
(* no file but those an upload put while it was running or the route's own *)
(* purge failed on.                                                        *)
CompleteMeansErased ==
    tombstone = "complete" =>
        ~identity /\ \A f \in files \ lingering : f \in Requests /\ request[f] = "put"

(* A deletion ends: the pass completes it, or gives up after MAX_ATTEMPTS. *)
DeletionEnds ==
    tombstone # "none" ~> (tombstone = "complete" \/ attempts = MaxAttempts)

(* "Report what would be removed without removing anything" (dry_run):     *)
(* there is a tombstone only after a real deletion was asked for, here or  *)
(* at the provider.                                                        *)
PreviewRemovesNothing ==
    tombstone # "none" =>
        \/ ~identity
        \/ \E r \in Requests : "delete" \in Kinds[r] /\ request[r] \in {"recorded", "purged", "done"}
=============================================================================
