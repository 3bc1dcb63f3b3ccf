--------------------------- MODULE LifecycleProofs ---------------------------
(* What is proved, for any number of requests, of the two lives that       *)
(* services/lifecycle.py ends.  Of an account that is deleted: its types,  *)
(* that the deletion only moves forward, that it denies at once, and what  *)
(* it has erased when it says so.  Of a statement under review: its types, *)
(* and that no line is imported twice.                                     *)
EXTENDS AccountDeletion, StatementReview, TLAPS

-----------------------------------------------------------------------------
(* The deletion of an account: the inductive invariant.                    *)

(* A pass under way has an attempt left. *)
Typed == TypeOK /\ (pass.at # "idle" => attempts < MaxAttempts)

(* Nobody but the pass takes a deletion forward, so the state it read is   *)
(* still there; what it has flushed and what it was told are true.         *)
PassCurrent ==
    /\ pass.at # "idle" => pass.state = tombstone /\ tombstone \in Unfinished
    /\ pass.at \in {"purging", "purged"} => pass.state = "pending"
    /\ pass.erased => pass.at \in {"revoking", "closing"}
    /\ pass.revoked => pass.at = "closing" /\ ~identity
    /\ tombstone = "complete" => ~identity

(* A request that has not provisioned a profile has given its name to none.*)
NamesFresh ==
    \A r \in Requests : request[r] \in {"start", "checked", "resolving", "inserting"} =>
        user # r /\ tombUser # r /\ r \notin condemned

(* A request that goes on has a profile, the current one as long as nobody *)
(* asked for the deletion; and one that deletes has asked for it.          *)
ProfilesKnown ==
    \A r \in Requests :
        /\ request[r] \in {"known", "admitted", "put", "recorded", "purged"} =>
               who[r] # Nobody /\ (tombstone = "none" => user = who[r])
        /\ request[r] \in {"recorded", "purged"} => tombstone # "none"

(* A profile the deletion was recorded for is marked, and as long as it is *)
(* there the tombstone remembers it.                                       *)
ProfileMarked ==
    /\ tombstone = "none" => tombUser = Nobody /\ condemned = {}
    /\ tombstone # "none" /\ user # Nobody /\ user \in condemned \cup {tombUser} =>
           userStatus = "pending_deletion"
    /\ tombstone = "pending" /\ user \in condemned => tombUser = user
    /\ tombstone \in {"storage_purged", "complete"} => user \notin condemned

(* The pass knows the profile, or it is gone.                              *)
PassKnows ==
    /\ pass.at \in {"purging", "purged"} /\ user \in condemned => pass.user = user
    /\ pass.at \in {"revoking", "closing"} /\ ~pass.erased => user \notin condemned

(* A file was put by its name; and one that nothing excuses belongs to the *)
(* profile that is still to be purged, here and in the pass.               *)
Excused(f) == f \in lingering \/ (f \in Requests /\ request[f] = "put")
FilesClaimed ==
    /\ \A f \in files \ {Old} : request[f] \in {"put", "done"}
    /\ \A f \in files : Excused(f)
          \/ /\ user # Nobody /\ Owner(f) = user
             /\ tombstone \in {"none", "pending"}
             /\ tombstone = "pending" => tombUser = user
             /\ pass.at \in {"idle", "purging"}
             /\ pass.at = "purging" => pass.user = user
             /\ \A r \in Requests : request[r] = "purged" => who[r] # user

Inv == Typed /\ PassCurrent /\ NamesFresh /\ ProfilesKnown /\ ProfileMarked /\ PassKnows /\ FilesClaimed

(* Every step keeps the types, and a pass its attempt. *)
LEMMA StepTyped ==
    ASSUME Inv, Next
    PROVE  Typed'
<1> USE DeletionAssumption DEF Goto, row, mark, client, history, Profiles, Unfinished, Idle, Inv, Typed, TypeOK, PassCurrent
<1>1. ASSUME NEW r \in Requests, Handler(r)  PROVE Typed'
  <2>0. CASE LookUpTombstone(r)
    BY <2>0 DEF LookUpTombstone
  <2>1. CASE LookUpProfile(r)
    BY <2>1 DEF LookUpProfile
  <2>2. CASE ResolveEmail(r)
    BY <2>2 DEF ResolveEmail
  <2>3. CASE RefuseProfile(r)
    BY <2>3 DEF RefuseProfile
  <2>4. CASE InsertProfile(r)
    BY <2>4 DEF InsertProfile
  <2>5. CASE Admit(r)
    BY <2>5 DEF Admit
  <2>6. CASE Visit(r)
    BY <2>6 DEF Visit
  <2>7. CASE PutFile(r)
    BY <2>7 DEF PutFile
  <2>8. CASE InsertFileRow(r)
    BY <2>8 DEF Overtakes, InsertFileRow
  <2>9. CASE BeginDeletion(r)
    BY <2>9 DEF Condemn, RecordIntent, BeginDeletion
  <2>10. CASE PurgeFiles(r)
    BY <2>10 DEF PurgeFiles, FilesOf
  <2>11. CASE DeleteUser(r)
    BY <2>11 DEF DeleteUser
  <2>12. CASE CrashRequest(r)
    BY <2>12 DEF Overtakes, CrashRequest
  <2> QED  BY <1>1, <2>0, <2>1, <2>2, <2>3, <2>4, <2>5, <2>6, <2>7, <2>8, <2>9, <2>10, <2>11, <2>12
          DEF Handler
<1>2. CASE ClerkDeletes
  BY <1>2 DEF ClerkDeletes
<1>3. CASE Webhook
  BY <1>3 DEF Condemn, RecordIntent, Webhook
<1>4. CASE PassReads
  BY <1>4 DEF PassReads
<1>5. CASE PassFindsNothing
  BY <1>5 DEF PassFindsNothing
<1>6. CASE PassPurgesFiles
  BY <1>6 DEF PassPurgesFiles
<1>7. CASE PassErasesUser
  <2>1. ProfileRemains \in BOOLEAN  BY DEF ProfileRemains
  <2>2. pass' = [pass EXCEPT !.at = "revoking", !.erased = ProfileRemains]
    BY <1>7 DEF PassErasesUser
  <2> QED  BY <1>7, <2>1, <2>2 DEF PassErasesUser
<1>8. CASE PassRevokes
  <2>1. PICK ok \in BOOLEAN :
            /\ pass' = [pass EXCEPT !.at = "closing", !.revoked = ok]
            /\ IF ok THEN identity' = FALSE ELSE identity' \in {identity, FALSE}
    BY <1>8 DEF PassRevokes
  <2> QED  BY <1>8, <2>1 DEF PassRevokes
<1>9. CASE PassCommits
  BY <1>9 DEF PassCommits
<1>10. CASE PassFails
  BY <1>10 DEF PassFails
<1>11. CASE PassDies
  BY <1>11 DEF PassDies
<1> QED  BY <1>1, <1>2, <1>3, <1>4, <1>5, <1>6, <1>7, <1>8, <1>9, <1>10, <1>11 DEF Next, Pass, Purge

(* Nobody overtakes the pass. *)
LEMMA StepPassCurrent ==
    ASSUME Inv, Next
    PROVE  PassCurrent'
<1> USE DeletionAssumption DEF Goto, row, mark, client, history, Profiles, Unfinished, Idle, Inv, Typed, TypeOK, PassCurrent, UserLocked, TombstoneLocked
<1>1. ASSUME NEW r \in Requests, Handler(r)  PROVE PassCurrent'
  <2>0. CASE LookUpTombstone(r)
    BY <2>0 DEF LookUpTombstone
  <2>1. CASE LookUpProfile(r)
    BY <2>1 DEF LookUpProfile
  <2>2. CASE ResolveEmail(r)
    BY <2>2 DEF ResolveEmail
  <2>3. CASE RefuseProfile(r)
    BY <2>3 DEF RefuseProfile
  <2>4. CASE InsertProfile(r)
    BY <2>4 DEF InsertProfile
  <2>5. CASE Admit(r)
    BY <2>5 DEF Admit
  <2>6. CASE Visit(r)
    BY <2>6 DEF Visit
  <2>7. CASE PutFile(r)
    BY <2>7 DEF PutFile
  <2>8. CASE InsertFileRow(r)
    BY <2>8 DEF Overtakes, InsertFileRow
  <2>9. CASE BeginDeletion(r)
    BY <2>9 DEF Condemn, RecordIntent, BeginDeletion
  <2>10. CASE PurgeFiles(r)
    BY <2>10 DEF PurgeFiles
  <2>11. CASE DeleteUser(r)
    BY <2>11 DEF DeleteUser
  <2>12. CASE CrashRequest(r)
    BY <2>12 DEF Overtakes, CrashRequest
  <2> QED  BY <1>1, <2>0, <2>1, <2>2, <2>3, <2>4, <2>5, <2>6, <2>7, <2>8, <2>9, <2>10, <2>11, <2>12
          DEF Handler
<1>2. CASE ClerkDeletes
  BY <1>2 DEF ClerkDeletes
<1>3. CASE Webhook
  BY <1>3 DEF Condemn, RecordIntent, Webhook
<1>4. CASE PassReads
  BY <1>4 DEF PassReads
<1>5. CASE PassFindsNothing
  BY <1>5 DEF PassFindsNothing
<1>6. CASE PassPurgesFiles
  BY <1>6 DEF PassPurgesFiles
<1>7. CASE PassErasesUser
  BY <1>7 DEF PassErasesUser
<1>8. CASE PassRevokes
  <2>1. PICK ok \in BOOLEAN :
            /\ pass' = [pass EXCEPT !.at = "closing", !.revoked = ok]
            /\ IF ok THEN identity' = FALSE ELSE identity' \in {identity, FALSE}
    BY <1>8 DEF PassRevokes
  <2>2. /\ pass'.state = pass.state /\ pass'.erased = pass.erased
        /\ pass'.at = "closing" /\ pass'.revoked = ok
    BY <2>1
  <2> QED  BY <1>8, <2>1, <2>2 DEF PassRevokes
<1>9. CASE PassCommits
  BY <1>9 DEF PassCommits
<1>10. CASE PassFails
  BY <1>10 DEF PassFails
<1>11. CASE PassDies
  BY <1>11 DEF PassDies
<1> QED  BY <1>1, <1>2, <1>3, <1>4, <1>5, <1>6, <1>7, <1>8, <1>9, <1>10, <1>11 DEF Next, Pass, Purge

(* Names are given once. *)
LEMMA StepNamesFresh ==
    ASSUME Inv, Next
    PROVE  NamesFresh'
<1> USE DeletionAssumption DEF Goto, row, mark, client, history, Profiles, Unfinished, Idle, Inv, Typed, TypeOK, NamesFresh
<1>1. ASSUME NEW r \in Requests, Handler(r)  PROVE NamesFresh'
  <2>0. CASE LookUpTombstone(r)
    BY <2>0 DEF LookUpTombstone
  <2>1. CASE LookUpProfile(r)
    BY <2>1 DEF LookUpProfile
  <2>2. CASE ResolveEmail(r)
    BY <2>2 DEF ResolveEmail
  <2>3. CASE RefuseProfile(r)
    BY <2>3 DEF RefuseProfile
  <2>4. CASE InsertProfile(r)
    BY <2>4 DEF InsertProfile
  <2>5. CASE Admit(r)
    BY <2>5 DEF Admit
  <2>6. CASE Visit(r)
    BY <2>6 DEF Visit
  <2>7. CASE PutFile(r)
    BY <2>7 DEF PutFile
  <2>8. CASE InsertFileRow(r)
    BY <2>8 DEF Overtakes, InsertFileRow
  <2>9. CASE BeginDeletion(r)
    BY <2>9 DEF Condemn, RecordIntent, BeginDeletion
  <2>10. CASE PurgeFiles(r)
    BY <2>10 DEF PurgeFiles
  <2>11. CASE DeleteUser(r)
    BY <2>11 DEF DeleteUser
  <2>12. CASE CrashRequest(r)
    BY <2>12 DEF Overtakes, CrashRequest
  <2> QED  BY <1>1, <2>0, <2>1, <2>2, <2>3, <2>4, <2>5, <2>6, <2>7, <2>8, <2>9, <2>10, <2>11, <2>12
          DEF Handler
<1>2. CASE ClerkDeletes
  BY <1>2 DEF ClerkDeletes
<1>3. CASE Webhook
  BY <1>3 DEF Condemn, RecordIntent, Webhook
<1>4. CASE PassReads
  BY <1>4 DEF PassReads
<1>5. CASE PassFindsNothing
  BY <1>5 DEF PassFindsNothing
<1>6. CASE PassPurgesFiles
  BY <1>6 DEF PassPurgesFiles
<1>7. CASE PassErasesUser
  BY <1>7 DEF PassErasesUser
<1>8. CASE PassRevokes
  BY <1>8 DEF PassRevokes
<1>9. CASE PassCommits
  BY <1>9 DEF PassCommits
<1>10. CASE PassFails
  BY <1>10 DEF PassFails
<1>11. CASE PassDies
  BY <1>11 DEF PassDies
<1> QED  BY <1>1, <1>2, <1>3, <1>4, <1>5, <1>6, <1>7, <1>8, <1>9, <1>10, <1>11 DEF Next, Pass, Purge

(* A request keeps the profile it has. *)
LEMMA StepProfilesKnown ==
    ASSUME Inv, Next
    PROVE  ProfilesKnown'
<1> USE DeletionAssumption DEF Goto, row, mark, client, history, Profiles, Unfinished, Idle, Inv, Typed, TypeOK, PassCurrent, ProfilesKnown
<1>1. ASSUME NEW r \in Requests, Handler(r)  PROVE ProfilesKnown'
  <2>0. CASE LookUpTombstone(r)
    BY <2>0 DEF LookUpTombstone
  <2>1. CASE LookUpProfile(r)
    BY <2>1 DEF LookUpProfile
  <2>2. CASE ResolveEmail(r)
    BY <2>2 DEF ResolveEmail
  <2>3. CASE RefuseProfile(r)
    BY <2>3 DEF RefuseProfile
  <2>4. CASE InsertProfile(r)
    BY <2>4 DEF InsertProfile
  <2>5. CASE Admit(r)
    BY <2>5 DEF Admit
  <2>6. CASE Visit(r)
    BY <2>6 DEF Visit
  <2>7. CASE PutFile(r)
    BY <2>7 DEF PutFile
  <2>8. CASE InsertFileRow(r)
    BY <2>8 DEF Overtakes, InsertFileRow
  <2>9. CASE BeginDeletion(r)
    BY <2>9 DEF Condemn, RecordIntent, BeginDeletion
  <2>10. CASE PurgeFiles(r)
    BY <2>10 DEF PurgeFiles
  <2>11. CASE DeleteUser(r)
    BY <2>11 DEF DeleteUser
  <2>12. CASE CrashRequest(r)
    BY <2>12 DEF Overtakes, CrashRequest
  <2> QED  BY <1>1, <2>0, <2>1, <2>2, <2>3, <2>4, <2>5, <2>6, <2>7, <2>8, <2>9, <2>10, <2>11, <2>12
          DEF Handler
<1>2. CASE ClerkDeletes
  BY <1>2 DEF ClerkDeletes
<1>3. CASE Webhook
  BY <1>3 DEF Condemn, RecordIntent, Webhook
<1>4. CASE PassReads
  BY <1>4 DEF PassReads
<1>5. CASE PassFindsNothing
  BY <1>5 DEF PassFindsNothing
<1>6. CASE PassPurgesFiles
  BY <1>6 DEF PassPurgesFiles
<1>7. CASE PassErasesUser
  BY <1>7 DEF PassErasesUser
<1>8. CASE PassRevokes
  BY <1>8 DEF PassRevokes
<1>9. CASE PassCommits
  BY <1>9 DEF PassCommits
<1>10. CASE PassFails
  BY <1>10 DEF PassFails
<1>11. CASE PassDies
  BY <1>11 DEF PassDies
<1> QED  BY <1>1, <1>2, <1>3, <1>4, <1>5, <1>6, <1>7, <1>8, <1>9, <1>10, <1>11 DEF Next, Pass, Purge

(* Once marked, a profile stays marked. *)
LEMMA StepProfileMarked ==
    ASSUME Inv, Next
    PROVE  ProfileMarked'
<1> USE DeletionAssumption DEF Goto, row, mark, client, history, Profiles, Unfinished, Idle, Inv, Typed, TypeOK, PassCurrent, NamesFresh, ProfilesKnown, ProfileMarked, PassKnows
<1>1. ASSUME NEW r \in Requests, Handler(r)  PROVE ProfileMarked'
  <2>0. CASE LookUpTombstone(r)
    BY <2>0 DEF LookUpTombstone
  <2>1. CASE LookUpProfile(r)
    BY <2>1 DEF LookUpProfile
  <2>2. CASE ResolveEmail(r)
    BY <2>2 DEF ResolveEmail
  <2>3. CASE RefuseProfile(r)
    BY <2>3 DEF RefuseProfile
  <2>4. CASE InsertProfile(r)
    BY <2>4 DEF InsertProfile
  <2>5. CASE Admit(r)
    BY <2>5 DEF Admit
  <2>6. CASE Visit(r)
    BY <2>6 DEF Visit
  <2>7. CASE PutFile(r)
    BY <2>7 DEF PutFile
  <2>8. CASE InsertFileRow(r)
    BY <2>8 DEF Overtakes, InsertFileRow
  <2>9. CASE BeginDeletion(r)
    BY <2>9 DEF Condemn, RecordIntent, BeginDeletion
  <2>10. CASE PurgeFiles(r)
    BY <2>10 DEF PurgeFiles
  <2>11. CASE DeleteUser(r)
    BY <2>11 DEF DeleteUser
  <2>12. CASE CrashRequest(r)
    BY <2>12 DEF Overtakes, CrashRequest
  <2> QED  BY <1>1, <2>0, <2>1, <2>2, <2>3, <2>4, <2>5, <2>6, <2>7, <2>8, <2>9, <2>10, <2>11, <2>12
          DEF Handler
<1>2. CASE ClerkDeletes
  BY <1>2 DEF ClerkDeletes
<1>3. CASE Webhook
  BY <1>3 DEF Condemn, RecordIntent, Webhook
<1>4. CASE PassReads
  BY <1>4 DEF PassReads
<1>5. CASE PassFindsNothing
  BY <1>5 DEF PassFindsNothing
<1>6. CASE PassPurgesFiles
  BY <1>6 DEF PassPurgesFiles
<1>7. CASE PassErasesUser
  BY <1>7 DEF PassErasesUser
<1>8. CASE PassRevokes
  BY <1>8 DEF PassRevokes
<1>9. CASE PassCommits
  BY <1>9 DEF PassCommits
<1>10. CASE PassFails
  BY <1>10 DEF PassFails
<1>11. CASE PassDies
  BY <1>11 DEF PassDies
<1> QED  BY <1>1, <1>2, <1>3, <1>4, <1>5, <1>6, <1>7, <1>8, <1>9, <1>10, <1>11 DEF Next, Pass, Purge

(* The pass does not lose the profile. *)
LEMMA StepPassKnows ==
    ASSUME Inv, Next
    PROVE  PassKnows'
<1> USE DeletionAssumption DEF Goto, row, mark, client, history, Profiles, Unfinished, Idle, Inv, Typed, TypeOK, PassCurrent, NamesFresh, ProfileMarked, PassKnows, ProfileRemains, UserLocked
<1>1. ASSUME NEW r \in Requests, Handler(r)  PROVE PassKnows'
  <2>0. CASE LookUpTombstone(r)
    BY <2>0 DEF LookUpTombstone
  <2>1. CASE LookUpProfile(r)
    BY <2>1 DEF LookUpProfile
  <2>2. CASE ResolveEmail(r)
    BY <2>2 DEF ResolveEmail
  <2>3. CASE RefuseProfile(r)
    BY <2>3 DEF RefuseProfile
  <2>4. CASE InsertProfile(r)
    BY <2>4 DEF InsertProfile
  <2>5. CASE Admit(r)
    BY <2>5 DEF Admit
  <2>6. CASE Visit(r)
    BY <2>6 DEF Visit
  <2>7. CASE PutFile(r)
    BY <2>7 DEF PutFile
  <2>8. CASE InsertFileRow(r)
    BY <2>8 DEF Overtakes, InsertFileRow
  <2>9. CASE BeginDeletion(r)
    BY <2>9 DEF Condemn, RecordIntent, BeginDeletion
  <2>10. CASE PurgeFiles(r)
    BY <2>10 DEF PurgeFiles
  <2>11. CASE DeleteUser(r)
    BY <2>11 DEF DeleteUser
  <2>12. CASE CrashRequest(r)
    BY <2>12 DEF Overtakes, CrashRequest
  <2> QED  BY <1>1, <2>0, <2>1, <2>2, <2>3, <2>4, <2>5, <2>6, <2>7, <2>8, <2>9, <2>10, <2>11, <2>12
          DEF Handler
<1>2. CASE ClerkDeletes
  BY <1>2 DEF ClerkDeletes
<1>3. CASE Webhook
  BY <1>3 DEF Condemn, RecordIntent, Webhook
<1>4. CASE PassReads
  BY <1>4 DEF PassReads
<1>5. CASE PassFindsNothing
  BY <1>5 DEF PassFindsNothing
<1>6. CASE PassPurgesFiles
  BY <1>6 DEF PassPurgesFiles
<1>7. CASE PassErasesUser
  BY <1>7 DEF PassErasesUser
<1>8. CASE PassRevokes
  BY <1>8 DEF PassRevokes
<1>9. CASE PassCommits
  BY <1>9 DEF PassCommits
<1>10. CASE PassFails
  BY <1>10 DEF PassFails
<1>11. CASE PassDies
  BY <1>11 DEF PassDies
<1> QED  BY <1>1, <1>2, <1>3, <1>4, <1>5, <1>6, <1>7, <1>8, <1>9, <1>10, <1>11 DEF Next, Pass, Purge

(* No file is forgotten. *)
LEMMA StepFilesClaimed ==
    ASSUME Inv, Next
    PROVE  FilesClaimed'
<1> USE DeletionAssumption DEF Goto, row, mark, client, history, Profiles, Unfinished, Idle, Inv, Typed, TypeOK, PassCurrent, ProfilesKnown, ProfileMarked, FilesClaimed, Excused, Owner, FilesOf, ProfileRemains
<1>1. ASSUME NEW r \in Requests, Handler(r)  PROVE FilesClaimed'
  <2>0. CASE LookUpTombstone(r)
    BY <2>0 DEF LookUpTombstone
  <2>1. CASE LookUpProfile(r)
    BY <2>1 DEF LookUpProfile
  <2>2. CASE ResolveEmail(r)
    BY <2>2 DEF ResolveEmail
  <2>3. CASE RefuseProfile(r)
    BY <2>3 DEF RefuseProfile
  <2>4. CASE InsertProfile(r)
    BY <2>4 DEF InsertProfile
  <2>5. CASE Admit(r)
    BY <2>5 DEF Admit
  <2>6. CASE Visit(r)
    BY <2>6 DEF Visit
  <2>7. CASE PutFile(r)
    BY <2>7 DEF PutFile
  <2>8. CASE InsertFileRow(r)
    BY <2>8 DEF Overtakes, InsertFileRow
  <2>9. CASE BeginDeletion(r)
    BY <2>9 DEF Condemn, RecordIntent, BeginDeletion
  <2>10. CASE PurgeFiles(r)
    BY <2>10 DEF PurgeFiles
  <2>11. CASE DeleteUser(r)
    BY <2>11 DEF DeleteUser
  <2>12. CASE CrashRequest(r)
    BY <2>12 DEF Overtakes, CrashRequest
  <2> QED  BY <1>1, <2>0, <2>1, <2>2, <2>3, <2>4, <2>5, <2>6, <2>7, <2>8, <2>9, <2>10, <2>11, <2>12
          DEF Handler
<1>2. CASE ClerkDeletes
  BY <1>2 DEF ClerkDeletes
<1>3. CASE Webhook
  BY <1>3 DEF Condemn, RecordIntent, Webhook
<1>4. CASE PassReads
  BY <1>4 DEF PassReads
<1>5. CASE PassFindsNothing
  BY <1>5 DEF PassFindsNothing
<1>6. CASE PassPurgesFiles
  BY <1>6 DEF PassPurgesFiles
<1>7. CASE PassErasesUser
  BY <1>7 DEF PassErasesUser
<1>8. CASE PassRevokes
  BY <1>8 DEF PassRevokes
<1>9. CASE PassCommits
  BY <1>9 DEF PassCommits
<1>10. CASE PassFails
  BY <1>10 DEF PassFails
<1>11. CASE PassDies
  BY <1>11 DEF PassDies
<1> QED  BY <1>1, <1>2, <1>3, <1>4, <1>5, <1>6, <1>7, <1>8, <1>9, <1>10, <1>11 DEF Next, Pass, Purge

(* The invariant holds at first. *)
LEMMA InitInv == Init => Inv
<1> SUFFICES ASSUME Init  PROVE Inv  OBVIOUS
<1> USE DeletionAssumption DEF Init, Profiles, Unfinished, Idle
<1>1. Typed  BY DEF Typed, TypeOK
<1>2. PassCurrent /\ NamesFresh /\ ProfilesKnown /\ ProfileMarked /\ PassKnows
  BY DEF PassCurrent, NamesFresh, ProfilesKnown, ProfileMarked, PassKnows
<1>3. FilesClaimed  BY DEF FilesClaimed, Owner
<1> QED  BY <1>1, <1>2, <1>3 DEF Inv

(* Every step keeps it. *)
LEMMA StepInv == Inv /\ [Next]_vars => Inv'
<1> SUFFICES ASSUME Inv, [Next]_vars  PROVE Inv'  OBVIOUS
<1>1. CASE Next
  BY <1>1, StepTyped, StepPassCurrent, StepNamesFresh, StepProfilesKnown, StepProfileMarked,
     StepPassKnows, StepFilesClaimed DEF Inv
<1>2. CASE UNCHANGED vars
  BY <1>2 DEF vars, Inv, Typed, TypeOK, PassCurrent, NamesFresh, ProfilesKnown, ProfileMarked,
              PassKnows, FilesClaimed, Excused, Owner
<1> QED  BY <1>1, <1>2

-----------------------------------------------------------------------------
(* Theorems about the deletion.                                            *)

(* Every reachable state of the deletion has its types. *)
THEOREM DeletionTypeCorrect == Spec => []TypeOK
<1>1. Inv => TypeOK  BY DEF Inv, Typed
<1> QED  BY <1>1, InitInv, StepInv, PTL DEF Spec

(* No repeated request, replayed webhook or late pass takes the deletion   *)
(* back a stage.                                                           *)
THEOREM DeletionOnlyAdvances == Spec => ProgressIsKept
<1>1. Inv /\ [Next]_vars => [Rank(tombstone') >= Rank(tombstone)]_vars
  <2> SUFFICES ASSUME Inv, Next  PROVE Rank(tombstone') >= Rank(tombstone)  OBVIOUS
  <2>1. tombstone \in {"none", "pending", "storage_purged", "complete"}
    BY DEF Inv, Typed, TypeOK, Unfinished
  <2>2. CASE RecordIntent
    BY <2>1, <2>2 DEF RecordIntent, Rank
  <2>3. CASE PassCommits
    BY <2>1, <2>3 DEF PassCommits, Inv, PassCurrent, Unfinished, Rank
  <2>4. CASE ~RecordIntent /\ ~PassCommits
    <3>1. tombstone' = tombstone
      BY <2>4 DEF Next, ClerkDeletes, Webhook, Pass, PassReads, Purge, PassFindsNothing, PassPurgesFiles,
                  PassErasesUser, PassRevokes, PassFails, PassDies, Handler, LookUpTombstone, LookUpProfile, ResolveEmail,
                  RefuseProfile, InsertProfile, Admit, Visit, PutFile, InsertFileRow, BeginDeletion,
                  PurgeFiles, DeleteUser, CrashRequest, mark
    <3> QED  BY <2>1, <3>1 DEF Rank
  <2> QED  BY <2>2, <2>3, <2>4
<1> QED  BY <1>1, InitInv, StepInv, PTL DEF Spec, ProgressIsKept

(* Once the tombstone exists nobody is admitted to a profile the deletion  *)
(* was recorded for, however long ago the request looked.                  *)
THEOREM TombstoneAlwaysDenies == Spec => TombstoneDenies
<1> DEFINE Denies == \A r \in Requests :
                        Admit(r) /\ request'[r] = "admitted" /\ tombstone # "none" =>
                            who[r] \notin condemned \cup {tombUser}
<1>1. Inv /\ [Next]_vars => [Denies]_vars
  <2> SUFFICES ASSUME Inv, NEW r \in Requests, Admit(r), request'[r] = "admitted", tombstone # "none"
               PROVE  who[r] \notin condemned \cup {tombUser}
    OBVIOUS
  <2>1. DOMAIN request = Requests  BY DEF Inv, Typed, TypeOK
  <2>2. request[r] = "known" /\ user = who[r] /\ userStatus = "active"
    BY <2>1 DEF Admit, Goto
  <2>3. user # Nobody  BY <2>2 DEF Inv, ProfilesKnown
  <2> QED  BY <2>2, <2>3 DEF Inv, ProfileMarked
<1> HIDE DEF Denies
<1>2. Spec => [][Denies]_vars  BY <1>1, InitInv, StepInv, PTL DEF Spec
<1> QED  BY <1>2 DEF Denies, TombstoneDenies

(* A deletion whose local part is done has left no profile row that the    *)
(* deletion was recorded for; a profile rebuilt beside the tombstone may   *)
(* stand.                                                                  *)
THEOREM PurgeRemovesProfile == Spec => []PurgedMeansNoProfile
<1>1. Inv => PurgedMeansNoProfile  BY DEF Inv, ProfileMarked, PurgedMeansNoProfile
<1> QED  BY <1>1, InitInv, StepInv, PTL DEF Spec

(* A complete deletion has revoked the identity and left no file but those *)
(* that an upload put while it was running or the route failed to purge.   *)
THEOREM CompleteErases == Spec => []CompleteMeansErased
<1>1. Inv => CompleteMeansErased
  BY DEF Inv, PassCurrent, FilesClaimed, Excused, CompleteMeansErased
<1> QED  BY <1>1, InitInv, StepInv, PTL DEF Spec

-----------------------------------------------------------------------------
(* The review of a statement: the inductive invariant.                     *)

(* A run stages its rows once, and a queued job has a run left. *)
RunsCounted ==
    /\ worker = "queued" => runs < MaxRuns
    /\ version <= runs
    /\ worker \in {"reading", "parsing", "staging"} => version < runs
ReviewTyped == ReviewTypeOK /\ RunsCounted

(* The confirmation that holds the import's lock is between its FOR UPDATE *)
(* and its COMMIT, and nobody else is there.                               *)
Locking == {"locked", "inserted", "marked", "purged", "unpurged"}
LockHeld == \A c \in Confirms : importLock = c <=> confirm[c] \in Locking

(* What the holder read under the lock is still so. *)
ReviewHeld == importLock # NoOne => import = "review"

(* A statement that waits for review was not imported, unless it was       *)
(* staged again.                                                           *)
ReviewOpen == import = "review" /\ ledger # {} => reopened

(* What is to be imported has each row once. *)
PendingOnce == \A t, u \in pending : t[1] = u[1] => t = u

ReviewInv == ReviewTyped /\ LockHeld /\ ReviewHeld /\ ReviewOpen /\ PendingOnce /\ ImportedOnce

-----------------------------------------------------------------------------
(* The actors of the next-state relation, one step each.                   *)
ConfirmStep(c) == LoadImport(c) \/ Confirm(c) \/ FailConfirm(c)
PatchStep(p) == CheckPatch(p) \/ PatchRow(p)
RemoveStep(x) == (x \in Discards /\ LoadDiscarded(x)) \/ Remove(x) \/ FailRemove(x)
SweepStep == ReadExpired \/ PurgeFailedFile \/ Expire

(* A victim of a deadlock fails like anything else, so these are all. *)
LEMMA Actors ==
    ASSUME ReviewNext
    PROVE  \/ Job \/ SweepStep
           \/ \E c \in Confirms : ConfirmStep(c)
           \/ \E p \in Patches : PatchStep(p)
           \/ \E x \in Removers : RemoveStep(x)
<1>1. \A d \in Discards : d \in Removers  BY DEF Removers
<1> QED  BY <1>1 DEF ReviewNext, AbortVictim, ConfirmStep, PatchStep, RemoveStep, SweepStep

(* A correction changes neither the lock nor what is imported. *)
LEMMA PatchLeaves ==
    ASSUME NEW p \in Patches, PatchStep(p)
    PROVE  UNCHANGED <<import, version, expired, upload, keyed, object, storageFault, ledger,
                       importLock, uploadLock, worker, runs, closed, saw, confirm,
                            pending,
                       remove, reopened>>
BY DEF PatchStep, CheckPatch, PatchRow, record, file, locks, jobs

(* The sweep's reading and its other files leave all of the import alone.  *)
LEMMA SweepLeaves ==
    ASSUME SweepStep
    PROVE  UNCHANGED <<import, version, edited, excluded, upload, ledger, importLock, uploadLock,
                       worker, runs, closed, saw, confirm, pending, patch, seen,
                            reopened>>
BY DEF SweepStep, ReadExpired, PurgeFailedFile, Expire, record, file, locks, jobs,
     people

(* A removal deletes at most the import, and only while it is not locked.  *)
LEMMA RemoveLeaves ==
    ASSUME NEW x \in Removers, RemoveStep(x)
    PROVE  /\ UNCHANGED <<version, upload, ledger, importLock, worker, runs, closed, saw,
                         confirm, pending, patch, seen, reopened>>
           /\ import' = import \/ (import' = "none" /\ importLock = NoOne)
BY DEF RemoveStep, LoadDiscarded, Remove, PurgeRemoved, ClearKey, DeleteImport,
     FailRemove,
       record, file, locks, jobs

(* The job imports nothing, and restages only an import nobody has locked. *)
LEMMA JobLeaves ==
    ASSUME Job
    PROVE  /\ UNCHANGED <<ledger, locks, people, file>>
           /\ \/ /\ import' = import
                 /\ reopened' = reopened
              \/ /\ importLock = NoOne
                 /\ reopened' = (reopened \/ (import' = "review" /\ ledger # {}))
BY DEF Job, StartRun, ReadFile, RejectDocument, LookUpImport, StageRows, CompleteRun,
       FinishRun, FailRun, KillRun, GiveUp, record

-----------------------------------------------------------------------------
(* Every step keeps the types, and counts a run's staging. *)
LEMMA ReviewStepTyped ==
    ASSUME ReviewInv, ReviewNext
    PROVE  ReviewTyped'
<1> USE ReviewAssumption DEF ReviewInv, ReviewTyped, ReviewTypeOK, RunsCounted, record, file, locks, jobs,
       people, ConfirmAnswers, RemoveAnswers, Removers, Lockers
<1>1. CASE Job
  <2>1. CASE StartRun
    <3>1. runs \in 0 .. MaxRuns /\ version \in 0 .. MaxRuns /\ MaxRuns \in Nat  OBVIOUS
    <3>2. runs < MaxRuns /\ version <= runs  BY <2>1 DEF StartRun
    <3>3. runs' = runs + 1 /\ version' = version /\ worker' = "reading"
      BY <2>1 DEF StartRun
    <3>4. RunsCounted'  BY <3>1, <3>2, <3>3
    <3>5. runs' \in 0 .. MaxRuns  BY <3>1, <3>2, <3>3
    <3>6. ReviewTypeOK'  BY <2>1, <3>5 DEF StartRun
    <3> QED  BY <3>4, <3>6
  <2>2. CASE ReadFile  BY <2>2 DEF ReadFile
  <2>3. CASE RejectDocument  BY <2>3 DEF RejectDocument
  <2>4. CASE LookUpImport  BY <2>4 DEF LookUpImport
  <2>5. CASE StageRows
    <3>1. runs \in 0 .. MaxRuns /\ version \in 0 .. MaxRuns /\ MaxRuns \in Nat  OBVIOUS
    <3>2. version < runs  BY <2>5 DEF StageRows
    <3>3. runs' = runs /\ version' = version + 1 /\ worker' = "staged"
      BY <2>5 DEF StageRows
    <3>4. RunsCounted'  BY <3>1, <3>2, <3>3
    <3>5. version' \in 0 .. MaxRuns  BY <3>1, <3>2, <3>3
    <3>6. import' \in {"none", "review", "committed"}  BY <2>5 DEF StageRows
    <3>7. reopened' \in BOOLEAN  BY <2>5 DEF StageRows
    <3>8. ReviewTypeOK'  BY <2>5, <3>5, <3>6, <3>7 DEF StageRows
    <3> QED  BY <3>4, <3>8
  <2>6. CASE CompleteRun  BY <2>6 DEF CompleteRun
  <2>7. CASE FinishRun  BY <2>7 DEF FinishRun
  <2>8. CASE FailRun  BY <2>8 DEF FailRun, Busy, Retried
  <2>9. CASE KillRun  BY <2>9 DEF KillRun, Busy, Retried
  <2>10. CASE GiveUp  BY <2>10 DEF GiveUp, Busy
  <2> QED  BY <1>1, <2>1, <2>2, <2>3, <2>4, <2>5, <2>6, <2>7, <2>8, <2>9, <2>10 DEF Job
<1>2. CASE SweepStep
  <2>1. CASE ReadExpired  BY <2>1 DEF ReadExpired, RemoveGoto
  <2>2. CASE PurgeFailedFile  BY <2>2 DEF PurgeFailedFile
  <2>3. CASE Expire  BY <2>3 DEF Expire
  <2> QED  BY <1>2, <2>1, <2>2, <2>3 DEF SweepStep
<1>3. ASSUME NEW c \in Confirms, ConfirmStep(c)  PROVE ReviewTyped'
  <2>1. CASE LoadImport(c)  BY <2>1 DEF LoadImport, ConfirmGoto, Verdict
  <2>2. CASE LockImport(c)  BY <2>2 DEF LockImport, ConfirmGoto, Verdict
  <2>3. CASE InsertRows(c)  BY <2>3 DEF InsertRows, ConfirmGoto, Answer
  <2>4. CASE MarkCommitted(c)  BY <2>4 DEF MarkCommitted, ConfirmGoto
  <2>5. CASE PurgeOriginal(c)  BY <2>5 DEF PurgeOriginal, ConfirmGoto, PurgeFile
  <2>6. CASE CommitConfirm(c)  BY <2>6 DEF CommitConfirm, Answer
  <2>7. CASE FailConfirm(c)  BY <2>7 DEF FailConfirm, Answer, ConfirmAnswers
  <2> QED  BY <1>3, <2>1, <2>2, <2>3, <2>4, <2>5, <2>6, <2>7 DEF ConfirmStep, Confirm
<1>4. ASSUME NEW p \in Patches, PatchStep(p)  PROVE ReviewTyped'
  <2>1. CASE CheckPatch(p)  BY <2>1 DEF CheckPatch
  <2>2. CASE PatchRow(p)  BY <2>2 DEF PatchRow
  <2> QED  BY <1>4, <2>1, <2>2 DEF PatchStep
<1>5. ASSUME NEW x \in Removers, RemoveStep(x)  PROVE ReviewTyped'
  <2>1. CASE LoadDiscarded(x)  BY <2>1 DEF LoadDiscarded, RemoveGoto
  <2>2. CASE PurgeRemoved(x)  BY <2>2 DEF PurgeRemoved, RemoveGoto, PurgeFile
  <2>3. CASE ClearKey(x)  BY <2>3 DEF ClearKey, RemoveGoto
  <2>4. CASE DeleteImport(x)  BY <2>4 DEF DeleteImport, End, RemoveGoto
  <2>5. CASE FailRemove(x)  BY <2>5 DEF FailRemove, End, RemoveGoto
  <2> QED  BY <1>5, <2>1, <2>2, <2>3, <2>4, <2>5 DEF RemoveStep, Remove
<1> QED  BY <1>1, <1>2, <1>3, <1>4, <1>5, Actors

(* The lock is taken by FOR UPDATE and given back by COMMIT and ROLLBACK. *)
LEMMA StepLockHeld ==
    ASSUME ReviewInv, ReviewNext
    PROVE  LockHeld'
<1> USE ReviewAssumption DEF ReviewInv, ReviewTyped, ReviewTypeOK, LockHeld, Locking, record, file, locks,
       jobs, people, Lockers, ConfirmAnswers
<1>1. CASE Job
  BY <1>1, JobLeaves
<1>2. CASE SweepStep
  BY <1>2, SweepLeaves
<1>3. ASSUME NEW c \in Confirms, ConfirmStep(c)  PROVE LockHeld'
  <2>1. CASE LoadImport(c)  BY <2>1 DEF LoadImport, ConfirmGoto, Verdict
  <2>2. CASE LockImport(c)  BY <2>2 DEF LockImport, ConfirmGoto, Verdict
  <2>3. CASE InsertRows(c)  BY <2>3 DEF InsertRows, ConfirmGoto, Answer
  <2>4. CASE MarkCommitted(c)  BY <2>4 DEF MarkCommitted, ConfirmGoto
  <2>5. CASE PurgeOriginal(c)  BY <2>5 DEF PurgeOriginal, ConfirmGoto, PurgeFile
  <2>6. CASE CommitConfirm(c)  BY <2>6 DEF CommitConfirm, Answer
  <2>7. CASE FailConfirm(c)  BY <2>7 DEF FailConfirm, Answer, ConfirmAnswers
  <2> QED  BY <1>3, <2>1, <2>2, <2>3, <2>4, <2>5, <2>6, <2>7 DEF ConfirmStep, Confirm
<1>4. ASSUME NEW p \in Patches, PatchStep(p)  PROVE LockHeld'
  BY <1>4, PatchLeaves
<1>5. ASSUME NEW x \in Removers, RemoveStep(x)  PROVE LockHeld'
  BY <1>5, RemoveLeaves
<1> QED  BY <1>1, <1>2, <1>3, <1>4, <1>5, Actors

(* Nobody changes the status of an import that is locked. *)
LEMMA StepReviewHeld ==
    ASSUME ReviewInv, ReviewNext
    PROVE  ReviewHeld'
<1> USE DEF ReviewInv, LockHeld, Locking, ReviewHeld, record, file, locks, jobs, people
<1>1. CASE Job
  BY <1>1, JobLeaves
<1>2. CASE SweepStep
  BY <1>2, SweepLeaves
<1>3. ASSUME NEW c \in Confirms, ConfirmStep(c)  PROVE ReviewHeld'
  <2>1. CASE LoadImport(c)  BY <2>1 DEF LoadImport, ConfirmGoto, Verdict
  <2>2. CASE LockImport(c)  BY <2>2 DEF LockImport, ConfirmGoto, Verdict
  <2>3. CASE InsertRows(c)  BY <2>3 DEF InsertRows, ConfirmGoto, Answer
  <2>4. CASE MarkCommitted(c)  BY <2>4 DEF MarkCommitted, ConfirmGoto
  <2>5. CASE PurgeOriginal(c)  BY <2>5 DEF PurgeOriginal, ConfirmGoto, PurgeFile
  <2>6. CASE CommitConfirm(c)  BY <2>6 DEF CommitConfirm, Answer
  <2>7. CASE FailConfirm(c)  BY <2>7 DEF FailConfirm, Answer, ConfirmAnswers
  <2> QED  BY <1>3, <2>1, <2>2, <2>3, <2>4, <2>5, <2>6, <2>7 DEF ConfirmStep, Confirm
<1>4. ASSUME NEW p \in Patches, PatchStep(p)  PROVE ReviewHeld'
  BY <1>4, PatchLeaves
<1>5. ASSUME NEW x \in Removers, RemoveStep(x)  PROVE ReviewHeld'
  BY <1>5, RemoveLeaves
<1> QED  BY <1>1, <1>2, <1>3, <1>4, <1>5, Actors

(* Importing ends the review, and staging again is remembered. *)
LEMMA StepReviewOpen ==
    ASSUME ReviewInv, ReviewNext
    PROVE  ReviewOpen'
<1> USE DEF ReviewInv, ReviewOpen, record, file, locks, jobs, people
<1>1. CASE Job
  BY <1>1, JobLeaves
<1>2. CASE SweepStep
  BY <1>2, SweepLeaves
<1>3. ASSUME NEW c \in Confirms, ConfirmStep(c)  PROVE ReviewOpen'
  <2>1. CASE LoadImport(c)  BY <2>1 DEF LoadImport, ConfirmGoto, Verdict
  <2>2. CASE LockImport(c)  BY <2>2 DEF LockImport, ConfirmGoto, Verdict
  <2>3. CASE InsertRows(c)  BY <2>3 DEF InsertRows, ConfirmGoto, Answer
  <2>4. CASE MarkCommitted(c)  BY <2>4 DEF MarkCommitted, ConfirmGoto
  <2>5. CASE PurgeOriginal(c)  BY <2>5 DEF PurgeOriginal, ConfirmGoto, PurgeFile
  <2>6. CASE CommitConfirm(c)  BY <2>6 DEF CommitConfirm, Answer
  <2>7. CASE FailConfirm(c)  BY <2>7 DEF FailConfirm, Answer, ConfirmAnswers
  <2> QED  BY <1>3, <2>1, <2>2, <2>3, <2>4, <2>5, <2>6, <2>7 DEF ConfirmStep, Confirm
<1>4. ASSUME NEW p \in Patches, PatchStep(p)  PROVE ReviewOpen'
  BY <1>4, PatchLeaves
<1>5. ASSUME NEW x \in Removers, RemoveStep(x)  PROVE ReviewOpen'
  BY <1>5, RemoveLeaves
<1> QED  BY <1>1, <1>2, <1>3, <1>4, <1>5, Actors

(* The rows inserted together are each one row of the statement. *)
LEMMA StepPendingOnce ==
    ASSUME ReviewInv, ReviewNext
    PROVE  PendingOnce'
<1> USE DEF ReviewInv, PendingOnce, record, file, locks, jobs, people
<1>1. CASE Job
  BY <1>1, JobLeaves
<1>2. CASE SweepStep
  BY <1>2, SweepLeaves
<1>3. ASSUME NEW c \in Confirms, ConfirmStep(c)  PROVE PendingOnce'
  <2>1. CASE LoadImport(c)  BY <2>1 DEF LoadImport, ConfirmGoto, Verdict
  <2>2. CASE LockImport(c)  BY <2>2 DEF LockImport, ConfirmGoto, Verdict
  <2>3. CASE InsertRows(c)  BY <2>3 DEF InsertRows, ConfirmGoto, Answer
  <2>4. CASE MarkCommitted(c)  BY <2>4 DEF MarkCommitted, ConfirmGoto
  <2>5. CASE PurgeOriginal(c)  BY <2>5 DEF PurgeOriginal, ConfirmGoto, PurgeFile
  <2>6. CASE CommitConfirm(c)  BY <2>6 DEF CommitConfirm, Answer
  <2>7. CASE FailConfirm(c)  BY <2>7 DEF FailConfirm, Answer, ConfirmAnswers
  <2> QED  BY <1>3, <2>1, <2>2, <2>3, <2>4, <2>5, <2>6, <2>7 DEF ConfirmStep, Confirm
<1>4. ASSUME NEW p \in Patches, PatchStep(p)  PROVE PendingOnce'
  BY <1>4, PatchLeaves
<1>5. ASSUME NEW x \in Removers, RemoveStep(x)  PROVE PendingOnce'
  BY <1>5, RemoveLeaves
<1> QED  BY <1>1, <1>2, <1>3, <1>4, <1>5, Actors

(* The first import finds the ledger empty. *)
LEMMA StepImportedOnce ==
    ASSUME ReviewInv, ReviewNext
    PROVE  ImportedOnce'
<1> USE DEF ReviewInv, LockHeld, Locking, ReviewHeld, ReviewOpen, PendingOnce, ImportedOnce,
       record, file, locks, jobs, people
<1>1. CASE Job
  BY <1>1, JobLeaves
<1>2. CASE SweepStep
  BY <1>2, SweepLeaves
<1>3. ASSUME NEW c \in Confirms, ConfirmStep(c)  PROVE ImportedOnce'
  <2>1. CASE LoadImport(c)  BY <2>1 DEF LoadImport, ConfirmGoto, Verdict
  <2>2. CASE LockImport(c)  BY <2>2 DEF LockImport, ConfirmGoto, Verdict
  <2>3. CASE InsertRows(c)  BY <2>3 DEF InsertRows, ConfirmGoto, Answer
  <2>4. CASE MarkCommitted(c)  BY <2>4 DEF MarkCommitted, ConfirmGoto
  <2>5. CASE PurgeOriginal(c)  BY <2>5 DEF PurgeOriginal, ConfirmGoto, PurgeFile
  <2>6. CASE CommitConfirm(c)
    <3>1. importLock = c  BY <2>6 DEF CommitConfirm
    <3>2. import = "review"  BY <3>1, ReviewAssumption DEF Lockers
    <3>3. ledger = {} \/ reopened  BY <3>2
    <3>4. ledger' = ledger \cup pending /\ reopened' = reopened
      BY <2>6 DEF CommitConfirm
    <3> QED  BY <3>3, <3>4
  <2>7. CASE FailConfirm(c)  BY <2>7 DEF FailConfirm, Answer, ConfirmAnswers
  <2> QED  BY <1>3, <2>1, <2>2, <2>3, <2>4, <2>5, <2>6, <2>7 DEF ConfirmStep, Confirm
<1>4. ASSUME NEW p \in Patches, PatchStep(p)  PROVE ImportedOnce'
  BY <1>4, PatchLeaves
<1>5. ASSUME NEW x \in Removers, RemoveStep(x)  PROVE ImportedOnce'
  BY <1>5, RemoveLeaves
<1> QED  BY <1>1, <1>2, <1>3, <1>4, <1>5, Actors

(* The invariant holds at the start. *)
LEMMA ReviewInitInv == ReviewInit => ReviewInv
<1> SUFFICES ASSUME ReviewInit  PROVE ReviewInv  OBVIOUS
<1>1. ReviewTypeOK
  <2>1. {t[1] : t \in ledger \cup pending} \subseteq Rows  BY DEF ReviewInit
  <2>2. confirm \in [Confirms -> {"start", "waiting", "locked", "inserted", "marked", "purged",
                                 "unpurged"} \cup ConfirmAnswers]
    BY DEF ReviewInit, ConfirmAnswers
  <2>3. /\ patch \in [Patches -> {"start", "checked", "done", "refused"}]
        /\ seen \in [Patches -> 0 .. MaxRuns]
    BY ReviewAssumption DEF ReviewInit
  <2>4. remove \in [Removers -> {"start", "loaded", "purged", "flushed", "unlinked"}
                                \cup RemoveAnswers]
    BY DEF ReviewInit, RemoveAnswers
  <2>5. {expired, keyed, object, closed, storageFault, reopened} \subseteq BOOLEAN
    BY DEF ReviewInit
  <2> QED  BY <2>1, <2>2, <2>3, <2>4, <2>5, ReviewAssumption DEF ReviewInit, ReviewTypeOK
<1>2. RunsCounted  BY ReviewAssumption DEF ReviewInit, RunsCounted
<1>3. LockHeld
  BY ReviewAssumption DEF ReviewInit, LockHeld, Locking, Lockers
<1> QED  BY <1>1, <1>2, <1>3
            DEF ReviewInit, ReviewInv, ReviewTyped, ReviewHeld, ReviewOpen, PendingOnce, ImportedOnce

(* Every step, stuttering included, keeps it. *)
LEMMA ReviewStepInv == ReviewInv /\ [ReviewNext]_reviewVars => ReviewInv'
<1>1. ASSUME ReviewInv, ReviewNext  PROVE ReviewInv'
  BY <1>1, ReviewStepTyped, StepLockHeld, StepReviewHeld, StepReviewOpen, StepPendingOnce,
     StepImportedOnce DEF ReviewInv
<1>2. ASSUME ReviewInv, UNCHANGED reviewVars  PROVE ReviewInv'
  BY <1>2 DEF reviewVars, record, file, locks, jobs, people, ReviewInv, ReviewTyped, ReviewTypeOK, RunsCounted,
       LockHeld,
       ReviewHeld, ReviewOpen, PendingOnce, ImportedOnce
<1> QED  BY <1>1, <1>2

-----------------------------------------------------------------------------
(* Theorems about the review.                                              *)

(* Every reachable state of the review has its types. *)
THEOREM ReviewTypeCorrect == ReviewSpec => []ReviewTypeOK
<1>1. ReviewInv => ReviewTypeOK  BY DEF ReviewInv, ReviewTyped
<1> QED  BY <1>1, ReviewInitInv, ReviewStepInv, PTL DEF ReviewSpec

(* However confirmations, corrections, removals and retried jobs           *)
(* interleave, no line becomes two transactions, unless the rows were      *)
(* staged again after they were imported.                                  *)
THEOREM LinesConfirmOnce == ReviewSpec => []ImportedOnce
<1>1. ReviewInv => ImportedOnce  BY DEF ReviewInv
<1> QED  BY <1>1, ReviewInitInv, ReviewStepInv, PTL DEF ReviewSpec
=============================================================================
