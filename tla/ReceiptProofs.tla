---------------------------- MODULE ReceiptProofs ----------------------------
(* What is proved of receipts for every number of receipts, requests and   *)
(* job runs: the types, one transaction per receipt, that the sweep takes  *)
(* no receipt that was confirmed when it read it, that the review queue    *)
(* holds only receipts without a transaction, and that links are exclusive *)
(* and their modes true where confirmations do not overlap.                *)
EXTENDS Receipts, TLAPS

(* A request under way has a receipt. *)
Targeted == \A q \in Requests : InFlight(q) => of[q] \in Receipts

(* Only creating confirmations insert. *)
InsertedAreCreates == \A q \in Requests : at[q] = "inserted" => q \in Creates

Typed == TypeOK /\ Targeted /\ InsertedAreCreates

-----------------------------------------------------------------------------
(* Types.                                                                  *)

(* Answering a request keeps its types. *)
LEMMA AnswerTyped ==
    ASSUME Typed, NEW q \in Requests, Answer(q)
    PROVE  /\ at' \in [Requests -> {"start", "loaded", "checked", "inserted", "found", "over"}]
           /\ of' \in [Requests -> Receipts \cup {Nothing}]
           /\ tx' \in [Requests -> Transactions \cup {Nothing}]
           /\ seen' \in [Requests -> Row \cup {Nothing}]
           /\ Targeted' /\ InsertedAreCreates'
BY DEF Typed, TypeOK, Targeted, InsertedAreCreates, InFlight, Answer

(* A row with its columns replaced is a row. *)
LEMMA UpdatedRow ==
    ASSUME NEW w \in Row, NEW s \in {"pending", "needs_review", "confirmed"}, NEW f \in BOOLEAN
    PROVE  [w EXCEPT !.status = s, !.filled = f] \in Row
BY DEF Row

(* So is a row with its confirmation written into it. *)
LEMMA LinkedRow ==
    ASSUME NEW w \in Row, NEW t \in Transactions \cup {Nothing},
           NEW m \in {"none", "created", "linked"},
           NEW s \in {"pending", "needs_review", "confirmed"}
    PROVE  [w EXCEPT !.link = t, !.mode = m, !.status = s] \in Row
BY DEF Row

(* The initial state is well typed. *)
LEMMA InitTyped == Init => Typed
BY ReceiptAssumption DEF Init, Typed, TypeOK, Targeted, InsertedAreCreates, InFlight, Requests

(* What the job writes is a row. *)
LEMMA JobRow ==
    ASSUME Typed, NEW r \in Receipts, JobWrites(r)
    PROVE  row' = [row EXCEPT ![r] = row'[r]] /\ row'[r] \in Row
<1> USE DEF Typed
<1>1. CASE jobSaw[r] = Nothing
  <2>1. [link |-> Nothing, mode |-> "none", status |-> Parsed(r),
         filled |-> r \in Legible] \in Row
    BY DEF Row, Parsed
  <2> QED  BY <1>1, <2>1 DEF TypeOK, JobWrites
<1>2. CASE jobSaw[r] # Nothing
  <2> DEFINE s == IF jobSaw[r].status = Parsed(r) THEN row[r].status ELSE Parsed(r)
             f == IF jobSaw[r].filled = (r \in Legible) THEN row[r].filled
                  ELSE r \in Legible
  <2>1. row[r] \in Row  BY <1>2 DEF TypeOK, JobWrites
  <2>2. s \in {"pending", "needs_review", "confirmed"}  BY <2>1 DEF Row, Parsed
  <2>3. f \in BOOLEAN
    <3>1. row[r].filled \in BOOLEAN  BY <2>1 DEF Row
    <3>2. (r \in Legible) \in BOOLEAN  OBVIOUS
    <3> HIDE DEF f
    <3>3. f = row[r].filled \/ f = (r \in Legible)  BY Zenon DEF f
    <3> QED  BY <3>1, <3>2, <3>3, Zenon
  <2>4. [row[r] EXCEPT !.status = s, !.filled = f] \in Row
    BY <2>1, <2>2, <2>3, UpdatedRow
  <2>5. row' = [row EXCEPT ![r] = [row[r] EXCEPT !.status = s, !.filled = f]]
    BY <1>2 DEF TypeOK, JobWrites
  <2>6. row'[r] = [row[r] EXCEPT !.status = s, !.filled = f]  BY <2>5 DEF TypeOK
  <2> QED  BY <2>4, <2>5, <2>6
<1> QED  BY <1>1, <1>2

(* What a confirmation writes is a row. *)
LEMMA UpdatedIsRow ==
    ASSUME Typed, NEW q \in Confirms, NEW w \in Row
    PROVE  Updated(q, w) \in Row
<1> DEFINE m == IF seen[q].mode = Outcome(q) THEN w.mode ELSE Outcome(q)
           s == IF seen[q].status = "confirmed" THEN w.status ELSE "confirmed"
<1>1. q \in Requests  BY DEF Requests
<1>2. tx[q] \in Transactions \cup {Nothing}  BY <1>1 DEF Typed, TypeOK
<1>3. m \in {"none", "created", "linked"} /\ s \in {"pending", "needs_review", "confirmed"}
  BY DEF Row, Outcome
<1>4. Updated(q, w) = [w EXCEPT !.link = tx[q], !.mode = m, !.status = s]
  BY DEF Updated
<1> HIDE DEF m, s
<1>5. [w EXCEPT !.link = tx[q], !.mode = m, !.status = s] \in Row
  BY ONLY <1>2, <1>3, LinkedRow
<1> QED  BY <1>4, <1>5, Zenon

(* Every step keeps the types. *)
LEMMA StepTyped == Typed /\ [Next]_vars => Typed'
<1> SUFFICES ASSUME Typed, [Next]_vars  PROVE Typed'  OBVIOUS
<1> USE ReceiptAssumption, NothingIsNoRow
    DEF jobs, requests, races, Typed, InFlight
<1>1. ASSUME NEW r \in Receipts, JobLooksUp(r)  PROVE Typed'
  BY <1>1 DEF TypeOK, Targeted, InsertedAreCreates, JobLooksUp
<1>2. ASSUME NEW r \in Receipts, JobWrites(r)  PROVE Typed'
  <2>1. row' \in [Receipts -> Row \cup {Nothing}]  BY <1>2, JobRow DEF TypeOK
  <2> QED  BY <1>2, <2>1 DEF TypeOK, Targeted, InsertedAreCreates, JobWrites
<1>3. ASSUME NEW r \in Receipts, EndRun(r)  PROVE Typed'
  BY <1>3 DEF TypeOK, Targeted, InsertedAreCreates, EndRun
<1>4. ASSUME NEW q \in Requests, LoadReceipt(q)  PROVE Typed'
  <2>1. of' \in [Requests -> Receipts \cup {Nothing}] /\ seen' \in [Requests -> Row \cup {Nothing}]
    BY <1>4 DEF TypeOK, Targeted, InsertedAreCreates, LoadReceipt
  <2>2. Ledger \subseteq Transactions
    <3>1. \A c \in created : c[1] \in Creates  BY DEF TypeOK
    <3> QED  BY <3>1 DEF Ledger, Transactions
  <2>3. PICK t \in Transactions \cup {Nothing} : tx' = [tx EXCEPT ![q] = t]
    BY <1>4, <2>2, Zenon DEF LoadReceipt
  <2>4. tx' \in [Requests -> Transactions \cup {Nothing}]
    BY <2>3 DEF TypeOK
  <2>5. at' = [at EXCEPT ![q] = "loaded"]
        /\ UNCHANGED <<uploads, row, created, jobs, swept, confirmedSince, races, rewritten>>
    BY <1>4 DEF LoadReceipt
  <2>6. of'[q] \in Receipts  BY <1>4 DEF TypeOK, LoadReceipt
  <2>7. Targeted' /\ InsertedAreCreates'
    BY <1>4, <2>5, <2>6 DEF TypeOK, Targeted, InsertedAreCreates, LoadReceipt
  <2> QED  BY <2>1, <2>4, <2>5, <2>7 DEF TypeOK
<1>5. ASSUME NEW q \in Requests, FailRequest(q)  PROVE Typed'
  BY <1>5, AnswerTyped DEF TypeOK, Targeted, InsertedAreCreates, FailRequest
<1>6. ASSUME NEW e \in Creates, AnswerCreate(e)  PROVE Typed'
  BY <1>6, AnswerTyped DEF TypeOK, Targeted, InsertedAreCreates, AnswerCreate, Requests, Confirms
<1>7. ASSUME NEW e \in Creates, InsertTransaction(e)  PROVE Typed'
  <2>1. e \in Requests  BY DEF Requests, Confirms
  <2>2. tx' \in [Requests -> Transactions \cup {Nothing}]
    BY <1>7 DEF TypeOK, InsertTransaction, Transactions
  <2>3. at' = [at EXCEPT ![e] = "inserted"]
        /\ UNCHANGED <<uploads, row, created, jobs, of, seen, swept, confirmedSince, races,
                       rewritten>>
        /\ at[e] = "loaded"
    BY <1>7 DEF InsertTransaction
  <2>4. Targeted' /\ InsertedAreCreates'
    BY <2>1, <2>3 DEF TypeOK, Targeted, InsertedAreCreates
  <2> QED  BY <2>1, <2>2, <2>3, <2>4 DEF TypeOK
<1>8. ASSUME NEW e \in Creates, FindTransaction(e)  PROVE Typed'
  <2>1. e \in Requests  BY DEF Requests, Confirms
  <2>2. PICK c \in created : tx' = [tx EXCEPT ![e] = c[1]]
    BY <1>8 DEF FindTransaction, Hash
  <2>3. c[1] \in Transactions  BY DEF TypeOK, Transactions
  <2>4. tx' \in [Requests -> Transactions \cup {Nothing}]
    BY <2>2, <2>3 DEF TypeOK
  <2>5. at' = [at EXCEPT ![e] = "found"]
        /\ UNCHANGED <<uploads, row, created, jobs, of, seen, swept, confirmedSince, races,
                       rewritten>>
        /\ at[e] = "loaded"
    BY <1>8 DEF FindTransaction
  <2>6. Targeted' /\ InsertedAreCreates'
    BY <2>1, <2>5 DEF TypeOK, Targeted, InsertedAreCreates
  <2> QED  BY <2>1, <2>4, <2>5, <2>6 DEF TypeOK
<1>9. ASSUME NEW k \in Links, AnswerLink(k)  PROVE Typed'
  BY <1>9, AnswerTyped DEF TypeOK, Targeted, InsertedAreCreates, AnswerLink, Requests, Confirms
<1>10. ASSUME NEW k \in Links, CheckClaims(k)  PROVE Typed'
  <2>1. k \in Requests  BY DEF Requests, Confirms
  <2>2. at' = [at EXCEPT ![k] = "checked"] /\ at[k] = "loaded"
        /\ UNCHANGED <<uploads, row, created, jobs, of, tx, seen, swept, confirmedSince, races,
                       rewritten>>
    BY <1>10 DEF CheckClaims
  <2> QED  BY <2>1, <2>2 DEF TypeOK, Targeted, InsertedAreCreates
<1>11. ASSUME NEW q \in Confirms, CommitConfirm(q)  PROVE Typed'
  <2> DEFINE r == of[q]
  <2>1. q \in Requests  BY DEF Requests
  <2>2. r \in Receipts  BY <1>11, <2>1 DEF Targeted, CommitConfirm
  <2>3. row[r] \in Row  BY <1>11, <2>2 DEF TypeOK, CommitConfirm
  <2>4. Updated(q, row[r]) \in Row  BY <2>3, UpdatedIsRow
  <2>5. row' \in [Receipts -> Row \cup {Nothing}]  BY <1>11, <2>2, <2>4 DEF TypeOK, CommitConfirm
  <2>6. created' \subseteq Creates \X Receipts
    <3>1. created' = created \/ (at[q] = "inserted" /\ created' = created \cup {<<q, r>>})
      BY <1>11 DEF CommitConfirm, Record
    <3>2. at[q] = "inserted" => q \in Creates  BY <2>1 DEF InsertedAreCreates
    <3> QED  BY <2>2, <3>1, <3>2 DEF TypeOK
  <2>7. {confirmedSince', raced'} \subseteq SUBSET Receipts /\ overtaken' \subseteq Confirms
    <3>1. confirmedSince' \in {{}, confirmedSince \cup {r}}
          /\ raced' \in {raced \cup {r}, raced \ {r}}
          /\ overtaken' = (overtaken \cup {p \in Confirms : InFlight(p)}) \ {q}
      BY <1>11, Zenon DEF CommitConfirm, Record
    <3> QED  BY <2>2, <3>1 DEF TypeOK
  <2> QED
    BY <1>11, <2>1, <2>5, <2>6, <2>7, AnswerTyped DEF TypeOK, CommitConfirm, Record
<1>12. ASSUME NEW p \in Patches, CommitPatch(p)  PROVE Typed'
  <2>1. p \in Requests  BY DEF Requests
  <2>2. of[p] \in Receipts  BY <1>12, <2>1 DEF Targeted, CommitPatch
  <2>3. row[of[p]] \in Row  BY <1>12, <2>2 DEF TypeOK, CommitPatch
  <2>4. [row[of[p]] EXCEPT !.filled = TRUE] \in Row  BY <2>3 DEF Row
  <2>5. row' \in [Receipts -> Row \cup {Nothing}]
    BY <1>12, <2>2, <2>4 DEF TypeOK, CommitPatch
  <2> QED  BY <1>12, <2>1, <2>5, AnswerTyped DEF TypeOK, CommitPatch
<1>13. ASSUME NEW x \in Deletes, CommitDelete(x)  PROVE Typed'
  BY <1>13, AnswerTyped DEF TypeOK, Targeted, InsertedAreCreates, CommitDelete, Requests
<1>14. CASE SweepReads  BY <1>14 DEF TypeOK, Targeted, InsertedAreCreates, SweepReads
<1>15. CASE SweepCommits  BY <1>15 DEF TypeOK, Targeted, InsertedAreCreates, SweepCommits
<1>16. CASE SweepFails  BY <1>16 DEF TypeOK, Targeted, InsertedAreCreates, SweepFails
<1>17. CASE UNCHANGED vars  BY <1>17 DEF TypeOK, Targeted, InsertedAreCreates, vars
<1> QED
  BY <1>1, <1>2, <1>3, <1>4, <1>5, <1>6, <1>7, <1>8, <1>9, <1>10, <1>11, <1>12,
     <1>13, <1>14, <1>15, <1>16, <1>17 DEF Next

(* TypeOK holds in every reachable state: every column, every progress and *)
(* every history set keeps to its values, whatever requests overlap.       *)
THEOREM ReceiptsTypeCorrect == Spec => []TypeOK
<1>1. Init => Typed  BY InitTyped
<1>2. Typed /\ [Next]_vars => Typed'  BY StepTyped
<1>3. Typed => TypeOK  BY DEF Typed
<1> QED  BY <1>1, <1>2, <1>3, PTL DEF Spec

(* Spec keeps the strengthened type invariant. *)
LEMMA AlwaysTyped == Spec => []Typed
<1>1. Init => Typed  BY InitTyped
<1>2. Typed /\ [Next]_vars => Typed'  BY StepTyped
<1> QED  BY <1>1, <1>2, PTL DEF Spec

-----------------------------------------------------------------------------
(* One transaction per receipt.                                            *)

(* An INSERT that has not committed is the only one of its receipt, and no *)
(* earlier one committed.                                                  *)
InsertsAlone ==
    /\ \A e \in Creates : at[e] = "inserted" => Hash(of[e]) = {}
    /\ \A d, e \in Creates :
          at[d] = "inserted" /\ at[e] = "inserted" /\ of[d] = of[e] => d = e

Once == CreatedOnce /\ InsertsAlone

(* A step that neither inserts nor commits keeps it. *)
LEMMA OnceKept ==
    ASSUME Once, created' = created,
           \A e \in Creates : at'[e] = "inserted" => at[e] = "inserted" /\ of'[e] = of[e]
    PROVE  Once'
BY DEF Once, CreatedOnce, InsertsAlone, Hash

(* Every step keeps it. *)
LEMMA OnceStep == Typed /\ Once /\ [Next]_vars => Once'
<1> SUFFICES ASSUME Typed, Once, [Next]_vars  PROVE Once'  OBVIOUS
<1> DEFINE Calm == \A e \in Creates : at'[e] = "inserted" => at[e] = "inserted" /\ of'[e] = of[e]
<1> USE DEF requests, jobs, races, Typed
<1>0. \A e \in Confirms \cup Creates : e \in Requests  BY DEF Requests, Confirms
<1>1. ASSUME NEW q \in Requests, Answer(q)  PROVE Calm
  BY <1>0, <1>1 DEF TypeOK, Answer
<1>2. ASSUME NEW e \in Creates, InsertTransaction(e)  PROVE Once'
  <2>1. created' = created /\ of' = of /\ at' = [at EXCEPT ![e] = "inserted"]
    BY <1>2 DEF InsertTransaction
  <2>2. ~Inserting(of[e]) /\ Hash(of[e]) = {}  BY <1>2 DEF InsertTransaction
  <2>3. \A d \in Creates : at'[d] = "inserted" => d = e \/ at[d] = "inserted"
    BY <1>0, <2>1 DEF TypeOK
  <2>4. \A d \in Creates : at[d] = "inserted" => of[d] # of[e]  BY <2>2 DEF Inserting
  <2> QED  BY <2>1, <2>2, <2>3, <2>4 DEF Once, CreatedOnce, InsertsAlone, Hash
<1>3. ASSUME NEW q \in Confirms, CommitConfirm(q)  PROVE Once'
  <2>1. Calm  BY <1>0, <1>1, <1>3 DEF CommitConfirm
  <2>2. CASE at[q] # "inserted"
    <3>1. created' = created  BY <1>3, <2>2 DEF CommitConfirm, Record
    <3> QED  BY <2>1, <3>1, OnceKept
  <2>3. CASE at[q] = "inserted"
    <3>1. created' = created \cup {<<q, of[q]>>}  BY <1>3, <2>3 DEF CommitConfirm, Record
    <3>2. q \in Creates  BY <1>0, <2>3 DEF InsertedAreCreates
    <3>3. \A c \in created : c[2] # of[q]  BY <2>3, <3>2 DEF Once, InsertsAlone, Hash
    <3>4. CreatedOnce'  BY <3>1, <3>3 DEF Once, CreatedOnce
    <3>5. at'[q] # "inserted"  BY <1>0, <1>3 DEF TypeOK, CommitConfirm, Answer
    <3>6. ASSUME NEW e \in Creates, at'[e] = "inserted"  PROVE Hash(of[e])' = {}
      <4>1. at[e] = "inserted" /\ of'[e] = of[e]  BY <2>1, <3>6
      <4>2. of[e] # of[q]  BY <2>3, <3>2, <3>5, <3>6, <4>1 DEF Once, InsertsAlone
      <4>3. Hash(of[e]) = {}  BY <4>1 DEF Once, InsertsAlone
      <4> QED  BY <3>1, <4>1, <4>2, <4>3 DEF Hash
    <3>7. \A d, e \in Creates :
             at'[d] = "inserted" /\ at'[e] = "inserted" /\ of'[d] = of'[e] => d = e
      BY <2>1 DEF Once, InsertsAlone
    <3> QED  BY <3>4, <3>6, <3>7 DEF Once, InsertsAlone
  <2> QED  BY <2>2, <2>3
<1>4. ASSUME NEW q \in Requests, LoadReceipt(q)  PROVE Once'
  BY <1>0, <1>4, OnceKept DEF TypeOK, LoadReceipt
<1>5. ASSUME NEW e \in Creates, FindTransaction(e)  PROVE Once'
  BY <1>0, <1>5, OnceKept DEF TypeOK, FindTransaction
<1>6. ASSUME NEW k \in Links, CheckClaims(k)  PROVE Once'
  BY <1>0, <1>6, OnceKept DEF TypeOK, CheckClaims
<1>7. ASSUME NEW q \in Requests, FailRequest(q)  PROVE Once'
  BY <1>1, <1>7, OnceKept DEF FailRequest
<1>8. ASSUME NEW e \in Creates, AnswerCreate(e)  PROVE Once'
  BY <1>0, <1>1, <1>8, OnceKept DEF AnswerCreate
<1>9. ASSUME NEW k \in Links, AnswerLink(k)  PROVE Once'
  <2>1. k \in Requests  BY DEF Requests, Confirms
  <2> QED  BY <1>1, <1>9, <2>1, OnceKept DEF AnswerLink
<1>10. ASSUME NEW p \in Patches, CommitPatch(p)  PROVE Once'
  <2>1. p \in Requests  BY DEF Requests
  <2> QED  BY <1>1, <1>10, <2>1, OnceKept DEF CommitPatch
<1>11. ASSUME NEW x \in Deletes, CommitDelete(x)  PROVE Once'
  <2>1. x \in Requests  BY DEF Requests
  <2> QED  BY <1>1, <1>11, <2>1, OnceKept DEF CommitDelete
<1>12. ASSUME UNCHANGED <<created, requests>>  PROVE Once'
  BY <1>12, OnceKept
<1>13. ASSUME NEW r \in Receipts, JobLooksUp(r) \/ JobWrites(r) \/ EndRun(r)  PROVE Once'
  BY <1>12, <1>13 DEF JobLooksUp, JobWrites, EndRun
<1>14. CASE SweepReads \/ SweepCommits \/ SweepFails
  BY <1>12, <1>14 DEF SweepReads, SweepCommits, SweepFails
<1>15. CASE UNCHANGED vars  BY <1>12, <1>15 DEF vars
<1> QED
  BY <1>2, <1>3, <1>4, <1>5, <1>6, <1>7, <1>8, <1>9, <1>10, <1>11, <1>13, <1>14, <1>15
  DEF Next

(* CreatedOnce: one receipt only ever produces one transaction.  The       *)
(* unique hash and the wait for an uncommitted INSERT of it are what the   *)
(* argument rests on; no lock on the receipt is needed.                    *)
THEOREM OneTransactionPerReceipt == Spec => []CreatedOnce
<1>1. Init => Once
  <2>1. \A q \in Creates : q \in Requests  BY DEF Requests, Confirms
  <2> QED  BY <2>1 DEF Init, Once, CreatedOnce, InsertsAlone
<1>2. Typed /\ Once /\ [Next]_vars => Once'  BY OnceStep
<1>3. Once => CreatedOnce  BY DEF Once
<1> QED  BY <1>1, <1>2, <1>3, AlwaysTyped, PTL DEF Spec

-----------------------------------------------------------------------------
(* The sweep.                                                              *)

(* A receipt the sweep is to delete has been confirmed since, or is not.   *)
SweepSaw == \A r \in swept : Confirmed(r) => r \in confirmedSince

(* A step that confirms nothing keeps it. *)
LEMMA SweepSawKept ==
    ASSUME SweepSaw, swept' = swept, confirmedSince' = confirmedSince,
           \A r \in swept : Confirmed(r)' => Confirmed(r)
    PROVE  SweepSaw'
BY DEF SweepSaw

(* The job gives no receipt a transaction. *)
LEMMA JobConfirmsNothing ==
    ASSUME Typed, NEW r \in Receipts, JobWrites(r)
    PROVE  \A s \in Receipts : Confirmed(s)' => Confirmed(s)
<1> USE DEF Typed
<1>1. CASE jobSaw[r] = Nothing  BY <1>1 DEF TypeOK, JobWrites, Confirmed
<1>2. CASE jobSaw[r] # Nothing
  <2>1. row[r] \in Row  BY <1>2 DEF TypeOK, JobWrites
  <2>2. row'[r].link = row[r].link /\ row[r] # Nothing
    BY <1>2, <2>1 DEF TypeOK, JobWrites, Row
  <2>3. \A s \in Receipts \ {r} : row'[s] = row[s]  BY <1>2 DEF TypeOK, JobWrites
  <2> QED  BY <2>2, <2>3 DEF Confirmed
<1> QED  BY <1>1, <1>2

(* An edit gives no receipt a transaction. *)
LEMMA PatchConfirmsNothing ==
    ASSUME Typed, NEW p \in Patches, CommitPatch(p)
    PROVE  \A s \in Receipts : Confirmed(s)' => Confirmed(s)
<1> USE DEF Typed
<1>1. p \in Requests  BY DEF Requests
<1>2. of[p] \in Receipts /\ row[of[p]] \in Row
  BY <1>1 DEF TypeOK, Targeted, InFlight, CommitPatch
<1>3. row'[of[p]].link = row[of[p]].link /\ row[of[p]] # Nothing
  BY <1>2 DEF TypeOK, CommitPatch, Row
<1>4. \A s \in Receipts \ {of[p]} : row'[s] = row[s]  BY DEF TypeOK, CommitPatch
<1> QED  BY <1>3, <1>4 DEF Confirmed

(* Every step keeps it. *)
LEMMA SweepStep == Typed /\ SweepSaw /\ [Next]_vars => SweepSaw'
<1> SUFFICES ASSUME Typed, SweepSaw, [Next]_vars  PROVE SweepSaw'  OBVIOUS
<1> USE DEF jobs, requests, races, Typed
<1>0. swept \subseteq Receipts  BY DEF TypeOK
<1>1. ASSUME NEW r \in Receipts, JobWrites(r)  PROVE SweepSaw'
  BY <1>0, <1>1, JobConfirmsNothing, SweepSawKept DEF JobWrites
<1>2. ASSUME NEW p \in Patches, CommitPatch(p)  PROVE SweepSaw'
  BY <1>0, <1>2, PatchConfirmsNothing, SweepSawKept DEF CommitPatch
<1>3. ASSUME NEW q \in Confirms, CommitConfirm(q)  PROVE SweepSaw'
  <2>1. \A r \in Receipts \ {of[q]} : row'[r] = row[r]  BY <1>3 DEF TypeOK, CommitConfirm
  <2>2. swept' = swept /\ (swept # {} => confirmedSince' = confirmedSince \cup {of[q]})
    BY <1>3 DEF CommitConfirm, Record
  <2> QED  BY <1>0, <2>1, <2>2 DEF SweepSaw, Confirmed
<1>4. ASSUME NEW x \in Deletes, CommitDelete(x)  PROVE SweepSaw'
  <2>1. \A r \in Receipts : row'[r] # Nothing => row'[r] = row[r]
    BY <1>4 DEF TypeOK, CommitDelete
  <2> QED  BY <1>0, <1>4, <2>1, SweepSawKept DEF CommitDelete, Confirmed
<1>5. CASE SweepReads
  BY <1>5 DEF SweepReads, SweepSaw, Confirmed
<1>6. CASE SweepCommits \/ SweepFails
  BY <1>6 DEF SweepCommits, SweepFails, SweepSaw
<1>7. ASSUME UNCHANGED <<row, swept, confirmedSince>>  PROVE SweepSaw'
  BY <1>7 DEF SweepSaw, Confirmed
<1>8. ASSUME NEW r \in Receipts, JobLooksUp(r) \/ EndRun(r)  PROVE SweepSaw'
  BY <1>7, <1>8 DEF JobLooksUp, EndRun
<1>9. ASSUME NEW q \in Requests, LoadReceipt(q) \/ FailRequest(q)  PROVE SweepSaw'
  BY <1>7, <1>9 DEF LoadReceipt, FailRequest
<1>10. ASSUME NEW e \in Creates, AnswerCreate(e) \/ InsertTransaction(e) \/ FindTransaction(e)
       PROVE SweepSaw'
  BY <1>7, <1>10 DEF AnswerCreate, InsertTransaction, FindTransaction
<1>11. ASSUME NEW k \in Links, AnswerLink(k) \/ CheckClaims(k)  PROVE SweepSaw'
  BY <1>7, <1>11 DEF AnswerLink, CheckClaims
<1>12. CASE UNCHANGED vars  BY <1>7, <1>12 DEF vars
<1> QED
  BY <1>1, <1>2, <1>3, <1>4, <1>5, <1>6, <1>8, <1>9, <1>10, <1>11, <1>12 DEF Next

(* SweepSparesConfirmed: a receipt that has its transaction when the sweep *)
(* deletes it got it after the sweep's read, which asks for none.          *)
THEOREM SweepOnlyTakesUnconfirmed == Spec => SweepSparesConfirmed
<1>1. Init => SweepSaw  BY DEF Init, SweepSaw
<1>2. Typed /\ SweepSaw /\ [Next]_vars => SweepSaw'  BY SweepStep
<1>3. SweepSaw /\ [Next]_vars =>
          [SweepCommits => \A r \in swept : Confirmed(r) => r \in confirmedSince]_vars
  BY DEF SweepSaw
<1> QED  BY <1>1, <1>2, <1>3, AlwaysTyped, PTL DEF Spec, SweepSparesConfirmed

-----------------------------------------------------------------------------
(* The review queue.                                                       *)

(* What a confirmation that read a confirmed receipt relies on: the status *)
(* it will not write is still there, unless the job wrote it again.        *)
SeenConfirmed ==
    \A q \in Confirms :
        /\ InFlight(q) /\ seen[q].status = "confirmed"
        /\ of[q] \notin rewritten /\ row[of[q]] # Nothing
        => row[of[q]].status = "confirmed"

(* A confirmation about to commit has a transaction to write. *)
HasTransaction ==
    \A q \in Confirms :
        at[q] \in {"checked", "inserted", "found"} \/ (q \in Links /\ at[q] = "loaded")
        => tx[q] # Nothing

(* A receipt a request had read and that is gone does not come back. *)
GoneForGood == \A q \in Requests : InFlight(q) /\ row[of[q]] = Nothing => of[q] \notin uploads

Open == ReviewedIsOpen /\ SeenConfirmed /\ HasTransaction /\ GoneForGood

(* What the requests' own steps leave of it: the requests under way were   *)
(* there before with the same receipt, transaction and row.                *)
Fewer ==
    \A q \in Requests :
        InFlight(q)' => /\ InFlight(q) /\ at'[q] = at[q]
                        /\ of'[q] = of[q] /\ tx'[q] = tx[q] /\ seen'[q] = seen[q]

(* Answering leaves fewer requests under way. *)
LEMMA AnswerFewer ==
    ASSUME Typed, NEW q \in Requests, Answer(q)
    PROVE  Fewer
BY DEF Typed, TypeOK, Answer, Fewer, InFlight

(* Which keeps Open while the rows stay. *)
LEMMA OpenFewer ==
    ASSUME Open, Fewer, UNCHANGED <<row, uploads, rewritten>>
    PROVE  Open'
<1>1. \A q \in Confirms : q \in Requests  BY DEF Requests
<1>2. ReviewedIsOpen'  BY DEF Open, ReviewedIsOpen
<1>3. SeenConfirmed'  BY <1>1 DEF Open, SeenConfirmed, Fewer
<1>4. HasTransaction'  BY <1>1 DEF Open, HasTransaction, Fewer, InFlight
<1>5. GoneForGood'  BY DEF Open, GoneForGood, Fewer
<1> QED  BY <1>2, <1>3, <1>4, <1>5 DEF Open

(* Deleting receipts with their uploads keeps it. *)
LEMMA OpenDeleted ==
    ASSUME Typed, Open, Fewer, NEW D \in SUBSET Receipts, rewritten' = rewritten,
           row' = [r \in Receipts |-> IF r \in D THEN Nothing ELSE row[r]],
           uploads' = uploads \ D
    PROVE  Open'
<1>1. \A q \in Confirms : q \in Requests  BY DEF Requests
<1>2. \A r \in Receipts : row'[r] # Nothing => row'[r] = row[r]  OBVIOUS
<1>3. \A q \in Requests : InFlight(q) => of[q] \in Receipts  BY DEF Typed, Targeted
<1>4. ReviewedIsOpen'  BY <1>2 DEF Open, ReviewedIsOpen
<1>5. SeenConfirmed'  BY <1>1, <1>2, <1>3 DEF Open, SeenConfirmed, Fewer
<1>6. HasTransaction'  BY <1>1 DEF Open, HasTransaction, Fewer, InFlight
<1>7. GoneForGood'  BY <1>3 DEF Open, GoneForGood, Fewer
<1> QED  BY <1>4, <1>5, <1>6, <1>7 DEF Open

(* The job either writes an unconfirmed receipt or counts as rewriting.    *)
LEMMA OpenJob ==
    ASSUME Typed, Open, NEW r \in Receipts, JobWrites(r)
    PROVE  Open'
<1> USE DEF requests, Typed
<1>1. \A q \in Confirms : q \in Requests  BY DEF Requests
<1>2. UNCHANGED <<at, of, tx, seen, uploads>> /\ r \in uploads  BY DEF JobWrites
<1>3. \A s \in Receipts \ {r} : row'[s] = row[s]  BY DEF TypeOK, JobWrites
<1>4. rewritten \subseteq rewritten' /\ (Confirmed(r) => r \in rewritten')  BY DEF JobWrites
<1>5. row'[r] # Nothing  BY JobRow, NothingIsNoRow
<1>6. r \notin rewritten' => row'[r].link = Nothing /\ row'[r].status # "confirmed"
  <2> SUFFICES ASSUME r \notin rewritten'  PROVE row'[r].link = Nothing /\ row'[r].status # "confirmed"
    OBVIOUS
  <2>1. CASE jobSaw[r] = Nothing  BY <2>1 DEF TypeOK, JobWrites, Parsed
  <2>2. CASE jobSaw[r] # Nothing
    <3>1. row[r] \in Row /\ row[r] # Nothing  BY <2>2 DEF TypeOK, JobWrites
    <3>2. row[r].link = Nothing /\ row[r].status # "confirmed"
      BY <1>4, <3>1 DEF Open, ReviewedIsOpen, Confirmed
    <3>3. row'[r].link = row[r].link /\ row'[r].status \in {row[r].status, Parsed(r)}
      BY <2>2, <3>1 DEF TypeOK, JobWrites, Row
    <3> QED  BY <3>2, <3>3 DEF Parsed
  <2> QED  BY <2>1, <2>2
<1>7. ReviewedIsOpen'  BY <1>3, <1>4, <1>6 DEF Open, ReviewedIsOpen
<1>8. SeenConfirmed'
  <2> SUFFICES ASSUME NEW q \in Confirms, InFlight(q), seen[q].status = "confirmed",
                      of[q] \notin rewritten', row'[of[q]] # Nothing
               PROVE  row'[of[q]].status = "confirmed"
    BY <1>2 DEF SeenConfirmed, InFlight
  <2>1. of[q] \in Receipts /\ of[q] \notin rewritten  BY <1>1, <1>4 DEF Targeted
  <2>2. row[of[q]] # Nothing => row[of[q]].status = "confirmed"
    BY <2>1 DEF Open, SeenConfirmed
  <2>3. row[r] = Nothing => of[q] # r  BY <1>1, <1>2 DEF Open, GoneForGood
  <2>4. CASE of[q] = r
    <3>1. row[r].link # Nothing  BY <2>1, <2>2, <2>3, <2>4 DEF Open, ReviewedIsOpen
    <3> QED  BY <1>4, <2>3, <2>4, <3>1 DEF Confirmed
  <2> QED  BY <1>3, <2>1, <2>2, <2>4
<1>9. HasTransaction' /\ GoneForGood'
  BY <1>2, <1>3, <1>5 DEF Open, HasTransaction, GoneForGood, InFlight, Targeted
<1> QED  BY <1>7, <1>8, <1>9 DEF Open

(* A confirmation leaves its receipt with a transaction and confirmed. *)
LEMMA OpenCommit ==
    ASSUME Typed, Open, NEW q \in Confirms, CommitConfirm(q)
    PROVE  Open'
<1> DEFINE r == of[q]
<1> USE DEF Typed
<1>1. \A p \in Confirms : p \in Requests  BY DEF Requests
<1>2. r \in Receipts /\ row[r] \in Row /\ tx[q] # Nothing
  BY <1>1 DEF TypeOK, Targeted, InFlight, CommitConfirm, Open, HasTransaction
<1>3. Fewer /\ UNCHANGED <<uploads, rewritten>>
  BY <1>1, AnswerFewer DEF CommitConfirm, Record
<1>4. \A s \in Receipts \ {r} : row'[s] = row[s]  BY DEF TypeOK, CommitConfirm
<1>5. row'[r] = Updated(q, row[r])  BY <1>2 DEF TypeOK, CommitConfirm
<1>6. row'[r].link = tx[q]  BY <1>2, <1>5 DEF Updated, Row
<1>7. row'[r].status = IF seen[q].status = "confirmed" THEN row[r].status ELSE "confirmed"
  BY <1>2, <1>5 DEF Updated, Row
<1>8. r \notin rewritten => row'[r].status = "confirmed"
  BY <1>2, <1>7 DEF Open, SeenConfirmed, CommitConfirm, InFlight
<1>9. ReviewedIsOpen'  BY <1>2, <1>3, <1>4, <1>6, <1>8 DEF Open, ReviewedIsOpen
<1>10. SeenConfirmed'
  <2> SUFFICES ASSUME NEW p \in Confirms, InFlight(p)', seen'[p].status = "confirmed",
                      of'[p] \notin rewritten, row'[of'[p]] # Nothing
               PROVE  row'[of'[p]].status = "confirmed"
    BY <1>3 DEF SeenConfirmed
  <2>1. InFlight(p) /\ of'[p] = of[p] /\ seen'[p] = seen[p]  BY <1>1, <1>3 DEF Fewer
  <2>2. of[p] \in Receipts  BY <1>1, <2>1 DEF Targeted
  <2>3. CASE of[p] = r  BY <1>8, <2>1, <2>3
  <2>4. CASE of[p] # r  BY <1>4, <2>1, <2>2, <2>4 DEF Open, SeenConfirmed
  <2> QED  BY <2>3, <2>4
<1>11. HasTransaction'  BY <1>1, <1>3 DEF Open, HasTransaction, Fewer, InFlight
<1>12. GoneForGood'
  <2>1. \A p \in Requests : InFlight(p) => of[p] \in Receipts  BY DEF Targeted
  <2>2. \A s \in Receipts : row'[s] = Nothing => row[s] = Nothing \/ s = r  BY <1>4
  <2>3. row'[r] # Nothing  BY <1>2, <1>5, UpdatedIsRow, NothingIsNoRow
  <2> QED  BY <1>3, <2>1, <2>2, <2>3 DEF Open, GoneForGood, Fewer
<1> QED  BY <1>9, <1>10, <1>11, <1>12 DEF Open

(* An edit touches neither. *)
LEMMA OpenPatch ==
    ASSUME Typed, Open, NEW p \in Patches, CommitPatch(p)
    PROVE  Open'
<1> USE DEF Typed
<1>1. \A q \in Confirms \cup Patches : q \in Requests  BY DEF Requests
<1>2. of[p] \in Receipts /\ row[of[p]] \in Row
  BY <1>1 DEF TypeOK, Targeted, InFlight, CommitPatch
<1>3. Fewer /\ UNCHANGED <<uploads, rewritten>>  BY <1>1, AnswerFewer DEF CommitPatch
<1>4. row' = [row EXCEPT ![of[p]] = [row[of[p]] EXCEPT !.filled = TRUE]]
  BY <1>2 DEF TypeOK, CommitPatch
<1>5. row'[of[p]] = [row[of[p]] EXCEPT !.filled = TRUE]  BY <1>2, <1>4 DEF TypeOK
<1>6. [row[of[p]] EXCEPT !.filled = TRUE] \in Row  BY <1>2 DEF Row
<1>7. \A s \in Receipts : (row'[s] = Nothing) <=> (row[s] = Nothing)
  BY <1>2, <1>4, <1>5, <1>6, NothingIsNoRow DEF TypeOK
<1>8. \A s \in Receipts : row'[s].link = row[s].link /\ row'[s].status = row[s].status
  BY <1>2, <1>4 DEF TypeOK, Row
<1>9. \A q \in Requests : InFlight(q) => of[q] \in Receipts  BY DEF Targeted
<1>10. ReviewedIsOpen'  BY <1>3, <1>7, <1>8 DEF Open, ReviewedIsOpen
<1>11. SeenConfirmed'  BY <1>1, <1>3, <1>7, <1>8, <1>9 DEF Open, SeenConfirmed, Fewer
<1>12. HasTransaction'  BY <1>1, <1>3 DEF Open, HasTransaction, Fewer, InFlight
<1>13. GoneForGood'  BY <1>3, <1>7, <1>9 DEF Open, GoneForGood, Fewer
<1> QED  BY <1>10, <1>11, <1>12, <1>13 DEF Open

(* A request starts from the row as it is. *)
LEMMA OpenLoad ==
    ASSUME Typed, Open, NEW q \in Requests, LoadReceipt(q)
    PROVE  Open'
<1> USE DEF Typed
<1>1. \A p \in Confirms : p \in Requests  BY DEF Requests
<1>2. PICK r \in Receipts : row[r] # Nothing /\ of' = [of EXCEPT ![q] = r]
                            /\ seen' = [seen EXCEPT ![q] = row[r]]
  BY DEF LoadReceipt
<1>3. UNCHANGED <<row, uploads, rewritten>> /\ at' = [at EXCEPT ![q] = "loaded"]
  BY DEF LoadReceipt
<1>4. q \in Links => tx'[q] # Nothing
  <2>1. Ledger \subseteq Transactions
    <3>1. \A c \in created : c[1] \in Creates  BY DEF TypeOK
    <3> QED  BY <3>1 DEF Ledger, Transactions
  <2> QED  BY <2>1, ReceiptAssumption DEF TypeOK, LoadReceipt
<1>5. \A p \in Requests \ {q} : at'[p] = at[p] /\ of'[p] = of[p] /\ seen'[p] = seen[p]
                                /\ tx'[p] = tx[p]
  BY DEF TypeOK, LoadReceipt
<1>6. at'[q] = "loaded" /\ of'[q] = r /\ seen'[q] = row[r]  BY <1>2, <1>3 DEF TypeOK
<1>7. ReviewedIsOpen'  BY <1>3 DEF Open, ReviewedIsOpen
<1>8. SeenConfirmed'  BY <1>1, <1>3, <1>5, <1>6 DEF Open, SeenConfirmed, InFlight
<1>9. HasTransaction'  BY <1>1, <1>4, <1>5, <1>6 DEF Open, HasTransaction
<1>10. GoneForGood'  BY <1>2, <1>3, <1>5, <1>6 DEF Open, GoneForGood, InFlight
<1> QED  BY <1>7, <1>8, <1>9, <1>10 DEF Open

(* A confirmation that has found what it will write goes on with a         *)
(* transaction.                                                            *)
LEMMA OpenAdvance ==
    ASSUME Typed, Open, NEW q \in Confirms, at[q] = "loaded", tx'[q] # Nothing,
           NEW a \in {"checked", "inserted", "found"}, at' = [at EXCEPT ![q] = a],
           \A p \in Requests \ {q} : tx'[p] = tx[p],
           UNCHANGED <<of, seen, row, uploads, rewritten>>
    PROVE  Open'
<1>1. \A p \in Confirms : p \in Requests  BY DEF Requests
<1>2. \A p \in Requests : InFlight(p)' => InFlight(p)  BY <1>1 DEF Typed, TypeOK, InFlight
<1>3. \A p \in Requests \ {q} : at'[p] = at[p]  BY DEF Typed, TypeOK
<1>4. ReviewedIsOpen' /\ SeenConfirmed' /\ GoneForGood'
  BY <1>1, <1>2 DEF Open, ReviewedIsOpen, SeenConfirmed, GoneForGood
<1>5. HasTransaction'  BY <1>1, <1>3 DEF Open, HasTransaction
<1> QED  BY <1>4, <1>5 DEF Open

(* Every step keeps it. *)
LEMMA OpenStep == Typed /\ Open /\ [Next]_vars => Open'
<1> SUFFICES ASSUME Typed, Open, [Next]_vars  PROVE Open'  OBVIOUS
<1> USE DEF requests, races, jobs, Typed
<1>1. \A q \in Confirms \cup Patches \cup Deletes : q \in Requests  BY DEF Requests
<1>2. \A e \in Creates \cup Links : e \in Confirms  BY DEF Confirms
<1>3. ASSUME NEW r \in Receipts, JobWrites(r)  PROVE Open'  BY <1>3, OpenJob
<1>4. ASSUME NEW q \in Requests, LoadReceipt(q)  PROVE Open'  BY <1>4, OpenLoad
<1>5. ASSUME NEW q \in Requests, FailRequest(q)  PROVE Open'
  BY <1>5, AnswerFewer, OpenFewer DEF FailRequest
<1>6. ASSUME NEW e \in Creates, AnswerCreate(e)  PROVE Open'
  BY <1>1, <1>2, <1>6, AnswerFewer, OpenFewer DEF AnswerCreate
<1>7. ASSUME NEW k \in Links, AnswerLink(k)  PROVE Open'
  BY <1>1, <1>2, <1>7, AnswerFewer, OpenFewer DEF AnswerLink
<1>8. ASSUME NEW e \in Creates, InsertTransaction(e)  PROVE Open'
  <2>1. at[e] = "loaded" /\ at' = [at EXCEPT ![e] = "inserted"] /\ tx' = [tx EXCEPT ![e] = e]
        /\ UNCHANGED <<of, seen, row, uploads, rewritten>>
    BY <1>8 DEF InsertTransaction
  <2>2. tx'[e] # Nothing  BY <1>1, <1>2, <2>1, ReceiptAssumption DEF TypeOK, Transactions
  <2> QED  BY <1>2, <2>1, <2>2, OpenAdvance DEF TypeOK
<1>9. ASSUME NEW e \in Creates, FindTransaction(e)  PROVE Open'
  <2>1. PICK c \in created : tx' = [tx EXCEPT ![e] = c[1]]  BY <1>9 DEF FindTransaction, Hash
  <2>2. at[e] = "loaded" /\ at' = [at EXCEPT ![e] = "found"]
        /\ UNCHANGED <<of, seen, row, uploads, rewritten>>
    BY <1>9 DEF FindTransaction
  <2>3. c[1] \in Creates  BY DEF TypeOK
  <2>4. tx'[e] # Nothing
    BY <1>1, <1>2, <2>1, <2>3, ReceiptAssumption DEF TypeOK, Transactions
  <2> QED  BY <1>2, <2>1, <2>2, <2>4, OpenAdvance DEF TypeOK
<1>10. ASSUME NEW k \in Links, CheckClaims(k)  PROVE Open'
  <2>1. at[k] = "loaded" /\ at' = [at EXCEPT ![k] = "checked"]
        /\ UNCHANGED <<of, tx, seen, row, uploads, rewritten>>
    BY <1>10 DEF CheckClaims
  <2>2. tx'[k] # Nothing  BY <1>2, <2>1 DEF Open, HasTransaction
  <2> QED  BY <1>2, <2>1, <2>2, OpenAdvance
<1>11. ASSUME NEW q \in Confirms, CommitConfirm(q)  PROVE Open'  BY <1>11, OpenCommit
<1>12. ASSUME NEW p \in Patches, CommitPatch(p)  PROVE Open'  BY <1>12, OpenPatch
<1>13. ASSUME NEW x \in Deletes, CommitDelete(x)  PROVE Open'
  <2>1. of[x] \in Receipts  BY <1>1, <1>13 DEF CommitDelete, Targeted, InFlight
  <2>2. row' = [r \in Receipts |-> IF r \in {of[x]} THEN Nothing ELSE row[r]]
    BY <1>13, <2>1 DEF TypeOK, CommitDelete
  <2>3. uploads' = uploads \ {of[x]} /\ rewritten' = rewritten  BY <1>13 DEF CommitDelete
  <2>4. Fewer  BY <1>1, <1>13, AnswerFewer DEF CommitDelete
  <2> QED  BY <2>1, <2>2, <2>3, <2>4, OpenDeleted
<1>14. ASSUME UNCHANGED requests  PROVE Fewer  BY <1>14 DEF Fewer, InFlight
<1>15. CASE SweepCommits
  BY <1>14, <1>15, OpenDeleted DEF SweepCommits, TypeOK
<1>16. ASSUME UNCHANGED <<row, uploads, rewritten, requests>>  PROVE Open'
  BY <1>14, <1>16, OpenFewer
<1>17. ASSUME NEW r \in Receipts, JobLooksUp(r) \/ EndRun(r)  PROVE Open'
  BY <1>16, <1>17 DEF JobLooksUp, EndRun
<1>18. CASE SweepReads \/ SweepFails  BY <1>16, <1>18 DEF SweepReads, SweepFails
<1>19. CASE UNCHANGED vars  BY <1>16, <1>19 DEF vars
<1> QED
  BY <1>3, <1>4, <1>5, <1>6, <1>7, <1>8, <1>9, <1>10, <1>11, <1>12, <1>13, <1>15, <1>17,
     <1>18, <1>19 DEF Next

(* ReviewedIsOpen: outside the receipts a job wrote again after they were  *)
(* confirmed, having a transaction and being confirmed are the same thing, *)
(* although each UPDATE leaves the status out when its reader saw the      *)
(* receipt confirmed.                                                      *)
THEOREM ReviewQueueIsOpen == Spec => []ReviewedIsOpen
<1>1. Init => Open
  <2>1. \A q \in Confirms : q \in Requests  BY DEF Requests
  <2> QED
    BY <2>1 DEF Init, Open, ReviewedIsOpen, SeenConfirmed, HasTransaction, GoneForGood, InFlight
<1>2. Typed /\ Open /\ [Next]_vars => Open'  BY OpenStep
<1>3. Open => ReviewedIsOpen  BY DEF Open
<1> QED  BY <1>1, <1>2, <1>3, AlwaysTyped, PTL DEF Spec

-----------------------------------------------------------------------------
(* Links and their modes.                                                  *)

(* The job that found no receipt is the one that writes it. *)
JobAlone ==
    \A r \in Receipts : job[r] = "looked" /\ jobSaw[r] = Nothing => row[r] = Nothing

(* A confirmation that none committed beside has read the transaction and  *)
(* the mode its receipt still has.                                         *)
Fresh ==
    \A q \in Confirms \ overtaken :
        InFlight(q) /\ row[of[q]] # Nothing =>
            seen[q].link = row[of[q]].link /\ seen[q].mode = row[of[q]].mode

(* A receipt without a transaction has produced none, unless it is gone.   *)
HashLinked ==
    \A r \in Receipts :
        /\ row[r] # Nothing /\ row[r].link = Nothing => Hash(r) = {}
        /\ row[r] = Nothing /\ r \in uploads => Hash(r) = {}

(* What a confirmation writes is a transaction that is there, or its own;  *)
(* and one that created a transaction is over.                             *)
TxTrue ==
    /\ \A q \in Confirms : at[q] = "inserted" => tx[q] = q
    /\ \A q \in Confirms : at[q] = "found" \/ (q \in Links /\ InFlight(q)) => tx[q] \in Ledger
    /\ \A q \in Confirms : at[q] = "checked" => q \in Links
    /\ \A c \in created : at[c[1]] = "over"

(* Whoever finds the receipt's transaction in place of inserting one was   *)
(* overtaken by the confirmation that inserted it.                         *)
FoundOvertaken ==
    \A q \in Confirms : at[q] = "found" /\ row[of[q]] # Nothing => q \in overtaken

(* Receipts have transactions that are there. *)
LinksKnown ==
    \A r \in Receipts : row[r] # Nothing /\ row[r].link # Nothing => row[r].link \in Ledger

(* A checked transaction is claimed by no other receipt, unless somebody   *)
(* committed since.                                                        *)
Unclaimed ==
    \A q \in Confirms \ overtaken : at[q] = "checked" => Claimants(of[q], tx[q]) = {}

Joined ==
    /\ JobAlone /\ Fresh /\ HashLinked /\ TxTrue /\ FoundOvertaken /\ LinksKnown /\ Unclaimed
    /\ LinkedOnce /\ LinkModeTrue

(* Every step keeps what the job found. *)
LEMMA JobAloneStep == Typed /\ JobAlone /\ [Next]_vars => JobAlone'
<1> SUFFICES ASSUME Typed, JobAlone, [Next]_vars  PROVE JobAlone'  OBVIOUS
<1> USE DEF Typed, TypeOK, JobAlone, jobs
<1>1. ASSUME NEW r \in Receipts, JobLooksUp(r) \/ EndRun(r)  PROVE JobAlone'
  BY <1>1 DEF JobLooksUp, EndRun
<1>2. ASSUME NEW r \in Receipts, JobWrites(r)  PROVE JobAlone'
  <2>1. \A s \in Receipts \ {r} : row'[s] = row[s]  BY <1>2 DEF JobWrites
  <2>2. job'[r] = "written" /\ UNCHANGED jobSaw /\ \A s \in Receipts \ {r} : job'[s] = job[s]
    BY <1>2 DEF JobWrites
  <2> QED  BY <2>1, <2>2
<1>3. ASSUME UNCHANGED <<job, jobSaw>>, \A s \in Receipts : row[s] = Nothing => row'[s] = Nothing
      PROVE  JobAlone'
  BY <1>3
<1>4. ASSUME NEW q \in Requests, LoadReceipt(q) \/ FailRequest(q)  PROVE JobAlone'
  BY <1>3, <1>4 DEF LoadReceipt, FailRequest
<1>5. ASSUME NEW e \in Creates, AnswerCreate(e) \/ InsertTransaction(e) \/ FindTransaction(e)
      PROVE  JobAlone'
  BY <1>3, <1>5 DEF AnswerCreate, InsertTransaction, FindTransaction
<1>6. ASSUME NEW k \in Links, AnswerLink(k) \/ CheckClaims(k)  PROVE JobAlone'
  BY <1>3, <1>6 DEF AnswerLink, CheckClaims
<1>7. ASSUME NEW q \in Confirms, CommitConfirm(q)  PROVE JobAlone'
  <2>1. \A s \in Receipts \ {of[q]} : row'[s] = row[s]  BY <1>7 DEF CommitConfirm
  <2> QED  BY <1>3, <1>7, <2>1 DEF CommitConfirm
<1>8. ASSUME NEW p \in Patches, CommitPatch(p)  PROVE JobAlone'
  <2>1. \A s \in Receipts \ {of[p]} : row'[s] = row[s]  BY <1>8 DEF CommitPatch
  <2> QED  BY <1>3, <1>8, <2>1 DEF CommitPatch
<1>9. ASSUME NEW x \in Deletes, CommitDelete(x)  PROVE JobAlone'
  <2>1. \A s \in Receipts : row'[s] \in {Nothing, row[s]}  BY <1>9 DEF CommitDelete
  <2> QED  BY <1>3, <1>9, <2>1 DEF CommitDelete
<1>10. CASE SweepReads \/ SweepCommits \/ SweepFails
  BY <1>3, <1>10 DEF SweepReads, SweepCommits, SweepFails
<1>11. CASE UNCHANGED vars  BY <1>3, <1>11 DEF vars
<1> QED
  BY <1>1, <1>2, <1>4, <1>5, <1>6, <1>7, <1>8, <1>9, <1>10, <1>11 DEF Next

(* A step leaves a receipt its transaction and mode, or removes it. *)
Same(r) == row'[r] # Nothing =>
               row[r] # Nothing /\ row'[r].link = row[r].link /\ row'[r].mode = row[r].mode

(* Steps that do so with every receipt and take no confirmation further    *)
(* keep the rest.                                                          *)
LEMMA JoinedFewer ==
    ASSUME Typed, Joined, JobAlone', Fewer, UNCHANGED <<created, races>>,
           \A q \in Requests : at[q] = "over" => at'[q] = "over",
           \A r \in Receipts : Same(r),
           \A r \in Receipts : row'[r] = Nothing /\ r \in uploads' => row[r] = Nothing /\ r \in uploads
    PROVE  Joined'
<1> USE DEF Joined, Same, races
<1>1. \A q \in Confirms : q \in Requests  BY DEF Requests
<1>2. \A q \in Requests : InFlight(q) => of[q] \in Receipts  BY DEF Typed, Targeted
<1>3. \A q \in Confirms : at'[q] \in {"found", "inserted", "checked"} => InFlight(q)'  BY DEF InFlight
<1>4. Ledger' = Ledger  BY DEF Ledger
<1>5. Fresh'  BY <1>1, <1>2 DEF Fresh, Fewer
<1>6. HashLinked'  BY DEF HashLinked, Hash
<1>7. TxTrue'
  <2>1. \A c \in created : c[1] \in Requests  BY DEF Typed, TypeOK, Requests, Confirms
  <2> QED  BY <1>1, <1>3, <1>4, <2>1 DEF TxTrue, Fewer
<1>8. FoundOvertaken'  BY <1>1, <1>2, <1>3 DEF FoundOvertaken, Fewer
<1>9. LinksKnown'  BY <1>4 DEF LinksKnown
<1>10. Unclaimed'
  <2> SUFFICES ASSUME NEW q \in Confirms \ overtaken, at'[q] = "checked",
                      NEW s \in Receipts \ {of'[q]}, row'[s] # Nothing, row'[s].link = tx'[q]
               PROVE  FALSE
    BY DEF Unclaimed, Claimants
  <2>1. at[q] = "checked" /\ of'[q] = of[q] /\ tx'[q] = tx[q]  BY <1>1, <1>3 DEF Fewer
  <2>2. Claimants(of[q], tx[q]) = {}  BY <2>1 DEF Unclaimed
  <2> QED  BY <2>1, <2>2 DEF Claimants
<1>11. LinkedOnce'  BY DEF LinkedOnce, Confirmed
<1>12. LinkModeTrue'  BY DEF LinkModeTrue
<1> QED  BY <1>5, <1>6, <1>7, <1>8, <1>9, <1>10, <1>11, <1>12

(* The job gives its receipt no transaction and no mode, and writes one    *)
(* that was not there while its upload is.                                 *)
LEMMA JoinedJob ==
    ASSUME Typed, Open, Joined, JobAlone', NEW r \in Receipts, JobWrites(r)
    PROVE  Joined'
<1> USE DEF Joined, requests, races, Typed
<1>1. UNCHANGED <<at, of, tx, seen, created, overtaken, raced, uploads>> /\ r \in uploads
      /\ job[r] = "looked"
  BY DEF JobWrites
<1>2. \A s \in Receipts \ {r} : row'[s] = row[s]  BY DEF TypeOK, JobWrites
<1>3. CASE jobSaw[r] # Nothing
  <2>1. row[r] \in Row /\ row[r] # Nothing  BY <1>3 DEF TypeOK, JobWrites
  <2>2. row'[r].link = row[r].link /\ row'[r].mode = row[r].mode
    BY <1>3, <2>1 DEF TypeOK, JobWrites, Row
  <2>3. row'[r] # Nothing  BY JobRow, NothingIsNoRow
  <2>4. Fewer  BY <1>1 DEF Fewer, InFlight
  <2> QED  BY <1>1, <1>2, <2>1, <2>2, <2>3, <2>4, JoinedFewer DEF Same
<1>4. CASE jobSaw[r] = Nothing
  <2>1. row[r] = Nothing  BY <1>1, <1>4 DEF JobAlone
  <2>2. row'[r] # Nothing /\ row'[r].link = Nothing /\ row'[r].mode = "none"
    <3>1. row'[r] # Nothing  BY JobRow, NothingIsNoRow
    <3> QED  BY <1>4, <3>1 DEF TypeOK, JobWrites
  <2>3. \A q \in Confirms : q \in Requests  BY DEF Requests
  <2>4. \A q \in Confirms : InFlight(q) => of[q] \in Receipts \ {r}
    BY <1>1, <2>1, <2>3 DEF Open, GoneForGood, Targeted
  <2>5. Ledger' = Ledger  BY <1>1 DEF Ledger
  <2>6. Fresh'  BY <1>1, <1>2, <2>4 DEF Fresh, InFlight
  <2>7. HashLinked'  BY <1>1, <1>2, <2>1, <2>2 DEF HashLinked, Hash
  <2>8. TxTrue'  BY <1>1, <2>5 DEF TxTrue, InFlight
  <2>9. FoundOvertaken'  BY <1>1, <1>2, <2>4 DEF FoundOvertaken, InFlight
  <2>10. LinksKnown'  BY <1>1, <1>2, <2>2, <2>5 DEF LinksKnown
  <2>11. Unclaimed'
    <3> SUFFICES ASSUME NEW q \in Confirms \ overtaken, at[q] = "checked",
                        NEW s \in Receipts \ {of[q]}, row'[s] # Nothing, row'[s].link = tx[q]
                 PROVE  FALSE
      BY <1>1 DEF Unclaimed, Claimants
    <3>1. tx[q] # Nothing  BY DEF Open, HasTransaction
    <3>2. row[s] # Nothing /\ row[s].link = tx[q]  BY <1>2, <2>2, <3>1
    <3> QED  BY <3>2 DEF Unclaimed, Claimants
  <2>12. LinkedOnce'  BY <1>1, <1>2, <2>2 DEF LinkedOnce, Confirmed
  <2>13. LinkModeTrue'  BY <1>1, <1>2, <2>2 DEF LinkModeTrue
  <2> QED  BY <2>6, <2>7, <2>8, <2>9, <2>10, <2>11, <2>12, <2>13
<1> QED  BY <1>3, <1>4

(* A confirmation starts from the row as it is and a transaction that is   *)
(* there.                                                                  *)
LEMMA JoinedLoad ==
    ASSUME Typed, Joined, JobAlone', NEW q \in Requests, LoadReceipt(q)
    PROVE  Joined'
<1> USE DEF Joined, races, Typed
<1>1. \A p \in Confirms : p \in Requests  BY DEF Requests
<1>2. PICK r \in Receipts : row[r] # Nothing /\ of' = [of EXCEPT ![q] = r]
                            /\ seen' = [seen EXCEPT ![q] = row[r]]
  BY DEF LoadReceipt
<1>3. UNCHANGED <<row, uploads, created, overtaken, raced>> /\ at' = [at EXCEPT ![q] = "loaded"]
      /\ at[q] = "start"
  BY DEF LoadReceipt
<1>4. PICK t \in IF q \in Links THEN Ledger ELSE {Nothing} : tx' = [tx EXCEPT ![q] = t]
  BY DEF LoadReceipt
<1>5. q \in Links => tx'[q] \in Ledger
  <2>1. Ledger \subseteq Transactions
    <3>1. \A c \in created : c[1] \in Creates  BY DEF TypeOK
    <3> QED  BY <3>1 DEF Ledger, Transactions
  <2>2. tx'[q] = t  BY <1>4 DEF TypeOK
  <2> QED  BY <1>4, <2>2
<1>6. \A p \in Requests \ {q} : at'[p] = at[p] /\ of'[p] = of[p] /\ seen'[p] = seen[p]
                                /\ tx'[p] = tx[p]
  BY <1>2, <1>3, <1>4 DEF TypeOK
<1>7. at'[q] = "loaded" /\ of'[q] = r /\ seen'[q] = row[r]  BY <1>2, <1>3 DEF TypeOK
<1>8. Ledger' = Ledger  BY <1>3 DEF Ledger
<1>9. Fresh'  BY <1>1, <1>3, <1>6, <1>7 DEF Fresh, InFlight
<1>10. HashLinked' /\ LinkedOnce' /\ LinkModeTrue'
  BY <1>3 DEF HashLinked, Hash, LinkedOnce, Confirmed, LinkModeTrue
<1>11. TxTrue'
  <2>1. \A c \in created : c[1] \in Requests  BY DEF TypeOK, Requests, Confirms
  <2>2. \A c \in created : at'[c[1]] = "over"  BY <1>3, <1>6, <2>1 DEF TxTrue
  <2>3. \A p \in Confirms : at'[p] = "inserted" => tx'[p] = p
    BY <1>1, <1>6, <1>7 DEF TxTrue
  <2>4. \A p \in Confirms : at'[p] = "checked" => p \in Links
    BY <1>1, <1>6, <1>7 DEF TxTrue
  <2>5. \A p \in Confirms : at'[p] = "found" \/ (p \in Links /\ InFlight(p)') => tx'[p] \in Ledger
    BY <1>1, <1>5, <1>6, <1>7 DEF TxTrue, InFlight
  <2> QED  BY <1>3, <1>8, <2>2, <2>3, <2>4, <2>5 DEF TxTrue
<1>12. FoundOvertaken'  BY <1>1, <1>3, <1>6, <1>7 DEF FoundOvertaken
<1>13. LinksKnown'  BY <1>3, <1>8 DEF LinksKnown
<1>14. Unclaimed'  BY <1>1, <1>3, <1>6, <1>7 DEF Unclaimed, Claimants
<1> QED  BY <1>9, <1>10, <1>11, <1>12, <1>13, <1>14

(* A confirmation goes on with what it found.                              *)
LEMMA JoinedAdvance ==
    ASSUME Typed, Joined, JobAlone', NEW q \in Confirms, at[q] = "loaded",
           NEW a \in {"checked", "inserted", "found"}, at' = [at EXCEPT ![q] = a],
           \A p \in Requests \ {q} : tx'[p] = tx[p],
           UNCHANGED <<of, seen, row, uploads, created, races>>,
           a = "inserted" => q \notin Links /\ tx'[q] = q,
           a = "found" => tx'[q] \in Ledger /\ (row[of[q]] # Nothing => q \in overtaken),
           a = "checked" => /\ q \in Links /\ tx'[q] = tx[q]
                            /\ Claimants(of[q], tx[q]) = {}
    PROVE  Joined'
<1> USE DEF Joined, races, Typed
<1>1. \A p \in Confirms : p \in Requests  BY DEF Requests
<1>2. \A p \in Requests : InFlight(p)' => InFlight(p)  BY <1>1 DEF TypeOK, InFlight
<1>3. \A p \in Requests \ {q} : at'[p] = at[p]  BY DEF TypeOK
<1>4. at'[q] = a  BY <1>1 DEF TypeOK
<1>5. Ledger' = Ledger  BY DEF Ledger
<1>6. Fresh'  BY <1>1, <1>2 DEF Fresh
<1>7. HashLinked' /\ LinkedOnce' /\ LinkModeTrue'
  BY DEF HashLinked, Hash, LinkedOnce, Confirmed, LinkModeTrue
<1>8. TxTrue'
  <2>1. \A c \in created : c[1] \in Requests  BY DEF TypeOK, Requests, Confirms
  <2>2. \A c \in created : at'[c[1]] = "over"
    <3>1. \A c \in created : c[1] # q  BY DEF TxTrue
    <3> QED  BY <1>3, <2>1, <3>1 DEF TxTrue
  <2>3. \A p \in Confirms : at'[p] = "inserted" => tx'[p] = p
    BY <1>1, <1>3, <1>4 DEF TxTrue
  <2>4. \A p \in Confirms : at'[p] = "checked" => p \in Links
    BY <1>1, <1>3, <1>4 DEF TxTrue
  <2>5. \A p \in Confirms : at'[p] = "found" \/ (p \in Links /\ InFlight(p)') => tx'[p] \in Ledger
    BY <1>1, <1>2, <1>3, <1>4 DEF TxTrue
  <2> QED  BY <1>5, <2>2, <2>3, <2>4, <2>5 DEF TxTrue
<1>9. FoundOvertaken'  BY <1>1, <1>3, <1>4 DEF FoundOvertaken
<1>10. LinksKnown'  BY <1>5 DEF LinksKnown
<1>11. Unclaimed'  BY <1>1, <1>3, <1>4 DEF Unclaimed, Claimants
<1> QED  BY <1>6, <1>7, <1>8, <1>9, <1>10, <1>11

(* A confirmation that commits overtakes all others; overtaken itself, it  *)
(* counts as raced.                                                        *)
LEMMA JoinedCommit ==
    ASSUME Typed, Open, Joined, JobAlone', NEW q \in Confirms, CommitConfirm(q)
    PROVE  Joined'
<1> DEFINE r == of[q]
<1> USE DEF Joined, races, Typed
<1>1. \A p \in Confirms : p \in Requests  BY DEF Requests
<1>2. r \in Receipts /\ row[r] \in Row /\ row[r] # Nothing /\ tx[q] # Nothing /\ InFlight(q)
  BY <1>1 DEF TypeOK, Targeted, InFlight, CommitConfirm, Open, HasTransaction
<1>3. Fewer /\ ~InFlight(q)' /\ at'[q] = "over"
  BY <1>1, AnswerFewer DEF CommitConfirm, Answer, TypeOK, InFlight
<1>4. \A s \in Receipts \ {r} : row'[s] = row[s]  BY DEF TypeOK, CommitConfirm
<1>5. row'[r] = Updated(q, row[r])  BY <1>2 DEF TypeOK, CommitConfirm
<1>6. row'[r] # Nothing  BY <1>2, <1>5, UpdatedIsRow, NothingIsNoRow
<1>7. row'[r].link = tx[q]
      /\ row'[r].mode = IF seen[q].mode = Outcome(q) THEN row[r].mode ELSE Outcome(q)
  BY <1>2, <1>5 DEF Updated, Row
<1>8. created' = (IF at[q] = "inserted" THEN created \cup {<<q, r>>} ELSE created)
      /\ uploads' = uploads
  BY DEF CommitConfirm, Record
<1>9. \A p \in Confirms : InFlight(p)' => p \in overtaken'
  BY <1>1, <1>3 DEF CommitConfirm, Record, Fewer
<1>10. raced' = IF q \in overtaken THEN raced \cup {r} ELSE raced \ {r}
  BY DEF CommitConfirm, Record
<1>11. Ledger \subseteq Ledger' /\ (at[q] = "inserted" => q \in Ledger')
  <2>1. created \subseteq created'  BY <1>8
  <2>2. at[q] = "inserted" => <<q, r>> \in created'  BY <1>8
  <2>3. at[q] = "inserted" => \E c \in created' : q = c[1]
    <3>1. <<q, r>>[1] = q  OBVIOUS
    <3> QED  BY <2>2, <3>1
  <2> QED  BY <2>1, <2>3 DEF Ledger
<1>12. tx[q] \in Ledger'
  BY <1>2, <1>11 DEF TxTrue, CommitConfirm
<1>13. \A p \in Confirms : at'[p] \in {"found", "inserted", "checked"} =>
           InFlight(p)' /\ at[p] = at'[p] /\ of'[p] = of[p] /\ tx'[p] = tx[p]
  BY <1>1, <1>3 DEF InFlight, Fewer
<1>14. Fresh'  BY <1>9 DEF Fresh
<1>15. HashLinked'
  <2>1. \A s \in Receipts \ {r} : Hash(s)' = Hash(s)
    <3>1. <<q, r>>[2] = r  OBVIOUS
    <3> QED  BY <1>8, <3>1 DEF Hash
  <2> QED  BY <1>2, <1>4, <1>6, <1>7, <1>8, <2>1 DEF HashLinked
<1>16. TxTrue'
  <2>1. \A c \in created' : at'[c[1]] = "over"
    <3>1. \A c \in created : c[1] \in Requests  BY DEF TypeOK, Requests, Confirms
    <3>2. \A c \in created : at'[c[1]] = "over"
      <4>1. \A p \in Requests : at[p] = "over" => at'[p] = "over"
        BY <1>1, <1>3 DEF CommitConfirm, Answer, TypeOK
      <4> QED  BY <3>1, <4>1 DEF TxTrue
    <3>3. <<q, r>>[1] = q  OBVIOUS
    <3> QED  BY <1>3, <1>8, <3>2, <3>3
  <2>2. \A p \in Confirms : p \in Links /\ InFlight(p)' => tx'[p] \in Ledger'
    BY <1>1, <1>3, <1>11 DEF TxTrue, Fewer
  <2>3. \A p \in Confirms : at'[p] = "found" => tx'[p] \in Ledger'
    BY <1>11, <1>13 DEF TxTrue
  <2>4. \A p \in Confirms : /\ at'[p] = "inserted" => tx'[p] = p
                            /\ at'[p] = "checked" => p \in Links
    BY <1>13 DEF TxTrue
  <2> QED  BY <2>1, <2>2, <2>3, <2>4 DEF TxTrue
<1>17. FoundOvertaken'  BY <1>9, <1>13 DEF FoundOvertaken
<1>18. LinksKnown'
  <2> SUFFICES ASSUME NEW s \in Receipts, row'[s] # Nothing, row'[s].link # Nothing
               PROVE  row'[s].link \in Ledger'
    BY DEF LinksKnown
  <2>1. CASE s = r  BY <1>7, <1>12, <2>1
  <2>2. CASE s # r  BY <1>4, <1>11, <2>2 DEF LinksKnown
  <2> QED  BY <2>1, <2>2
<1>19. Unclaimed'  BY <1>9, <1>13 DEF Unclaimed
<1>20. LinkedOnce'
  <2>1. ASSUME NEW s \in Receipts \ {r}, q \notin overtaken, row[s] # Nothing, row[s].link = tx[q]
        PROVE  FALSE
    <3>1. CASE at[q] = "checked"
      BY <2>1, <3>1 DEF Unclaimed, Claimants
    <3>2. CASE at[q] = "found"
      BY <1>2, <2>1, <3>2 DEF FoundOvertaken
    <3>3. CASE at[q] = "inserted"
      <4>1. tx[q] = q /\ q \in Creates  BY <1>1, <3>3 DEF TxTrue, InsertedAreCreates
      <4>2. q \in Ledger  BY <1>2, <2>1, <4>1 DEF LinksKnown
      <4>3. q \notin Imported  BY <4>1, ReceiptAssumption
      <4>4. PICK c \in created : c[1] = q  BY <4>2, <4>3 DEF Ledger
      <4> QED  BY <3>3, <4>4 DEF TxTrue
    <3> QED  BY <3>1, <3>2, <3>3 DEF CommitConfirm
  <2> SUFFICES ASSUME NEW s \in Receipts \ raced', NEW u \in Receipts \ raced',
                      Confirmed(s)', Confirmed(u)', row'[s].link = row'[u].link
               PROVE  s = u
    BY DEF LinkedOnce
  <2>2. CASE s # r /\ u # r
    BY <1>4, <1>10, <2>2 DEF LinkedOnce, Confirmed
  <2>3. CASE s = r /\ u # r
    <3>1. q \notin overtaken  BY <1>10, <2>3
    <3> QED  BY <1>4, <1>7, <2>1, <2>3, <3>1 DEF Confirmed
  <2>4. CASE s # r /\ u = r
    <3>1. q \notin overtaken  BY <1>10, <2>4
    <3> QED  BY <1>4, <1>7, <2>1, <2>4, <3>1 DEF Confirmed
  <2> QED  BY <2>2, <2>3, <2>4
<1>21. LinkModeTrue'
  <2> SUFFICES ASSUME NEW s \in Receipts \ raced', row'[s] # Nothing, row'[s].mode = "created"
               PROVE  <<row'[s].link, s>> \in created'
    BY DEF LinkModeTrue
  <2>1. CASE s # r  BY <1>4, <1>8, <1>10, <2>1 DEF LinkModeTrue
  <2>2. CASE s = r
    <3>1. q \notin overtaken  BY <1>10, <2>2
    <3>2. CASE at[q] = "checked"
      <4>1. Outcome(q) = "linked"  BY <3>2 DEF TxTrue, Outcome
      <4>2. seen[q].mode = row[r].mode  BY <1>2, <3>1 DEF Fresh
      <4> QED  BY <1>7, <2>2, <4>1, <4>2
    <3>3. CASE at[q] = "found"  BY <1>2, <3>1, <3>3 DEF FoundOvertaken
    <3>4. CASE at[q] = "inserted"
      BY <1>7, <1>8, <2>2, <3>4 DEF TxTrue
    <3> QED  BY <3>2, <3>3, <3>4 DEF CommitConfirm
  <2> QED  BY <2>1, <2>2
<1> QED  BY <1>14, <1>15, <1>16, <1>17, <1>18, <1>19, <1>20, <1>21

(* Every step keeps it. *)
LEMMA JoinedStep == Typed /\ Open /\ Joined /\ [Next]_vars => Joined'
<1> SUFFICES ASSUME Typed, Open, Joined, [Next]_vars  PROVE Joined'  OBVIOUS
<1> USE DEF requests, races, jobs, Typed
<1>0. JobAlone'  BY JobAloneStep DEF Joined
<1>1. \A q \in Confirms \cup Patches \cup Deletes : q \in Requests  BY DEF Requests
<1>2. \A e \in Creates \cup Links : e \in Confirms  BY DEF Confirms
<1>3. ASSUME NEW q \in Requests, Answer(q)
      PROVE  Fewer /\ \A p \in Requests : at[p] = "over" => at'[p] = "over"
  BY <1>3, AnswerFewer DEF TypeOK, Answer
<1>4. ASSUME NEW r \in Receipts, JobWrites(r)  PROVE Joined'  BY <1>0, <1>4, JoinedJob
<1>5. ASSUME NEW q \in Requests, LoadReceipt(q)  PROVE Joined'  BY <1>0, <1>5, JoinedLoad
<1>6. ASSUME NEW q \in Requests, FailRequest(q)  PROVE Joined'
  BY <1>0, <1>3, <1>6, JoinedFewer DEF FailRequest, Same
<1>7. ASSUME NEW e \in Creates, AnswerCreate(e)  PROVE Joined'
  <2>1. e \in Requests  BY <1>1, <1>2
  <2> QED  BY <1>0, <1>3, <1>7, <2>1, JoinedFewer DEF AnswerCreate, Same
<1>8. ASSUME NEW k \in Links, AnswerLink(k)  PROVE Joined'
  <2>1. k \in Requests  BY <1>1, <1>2
  <2> QED  BY <1>0, <1>3, <1>8, <2>1, JoinedFewer DEF AnswerLink, Same
<1>9. ASSUME NEW e \in Creates, InsertTransaction(e)  PROVE Joined'
  <2>1. e \in Confirms /\ e \in Requests  BY <1>1, <1>2
  <2>2. at[e] = "loaded" /\ at' = [at EXCEPT ![e] = "inserted"] /\ tx' = [tx EXCEPT ![e] = e]
        /\ UNCHANGED <<of, seen, row, uploads, created, races>>
    BY <1>9 DEF InsertTransaction
  <2>3. tx'[e] = e /\ \A p \in Requests \ {e} : tx'[p] = tx[p]  BY <2>1, <2>2 DEF TypeOK
  <2>4. e \notin Links  BY ReceiptAssumption
  <2> QED  BY <1>0, <2>1, <2>2, <2>3, <2>4, JoinedAdvance
<1>10. ASSUME NEW e \in Creates, FindTransaction(e)  PROVE Joined'
  <2>1. e \in Confirms /\ e \in Requests  BY <1>1, <1>2
  <2>2. PICK c \in Hash(of[e]) : tx' = [tx EXCEPT ![e] = c[1]]  BY <1>10 DEF FindTransaction
  <2>3. at[e] = "loaded" /\ at' = [at EXCEPT ![e] = "found"]
        /\ UNCHANGED <<of, seen, row, uploads, created, races>> /\ seen[e].link = Nothing
    BY <1>10 DEF FindTransaction
  <2>4. tx'[e] = c[1] /\ \A p \in Requests \ {e} : tx'[p] = tx[p]  BY <2>1, <2>2 DEF TypeOK
  <2>5. c[1] \in Ledger  BY <2>2 DEF Hash, Ledger
  <2>6. of[e] \in Receipts  BY <2>1, <2>3 DEF Targeted, InFlight
  <2>7. row[of[e]] # Nothing => e \in overtaken
    <3> SUFFICES ASSUME row[of[e]] # Nothing, e \notin overtaken  PROVE FALSE  OBVIOUS
    <3>1. row[of[e]].link = Nothing  BY <2>1, <2>3 DEF Joined, Fresh, InFlight
    <3>2. Hash(of[e]) = {}  BY <2>6, <3>1 DEF Joined, HashLinked
    <3> QED  BY <2>2, <3>2
  <2> QED  BY <1>0, <2>1, <2>3, <2>4, <2>5, <2>7, JoinedAdvance
<1>11. ASSUME NEW k \in Links, CheckClaims(k)  PROVE Joined'
  <2>1. k \in Confirms  BY <1>2
  <2>2. at[k] = "loaded" /\ at' = [at EXCEPT ![k] = "checked"]
        /\ UNCHANGED <<of, tx, seen, row, uploads, created, races>>
        /\ Claimants(of[k], tx[k]) = {}
    BY <1>11 DEF CheckClaims
  <2> QED  BY <1>0, <2>1, <2>2, JoinedAdvance
<1>12. ASSUME NEW q \in Confirms, CommitConfirm(q)  PROVE Joined'  BY <1>0, <1>12, JoinedCommit
<1>13. ASSUME NEW p \in Patches, CommitPatch(p)  PROVE Joined'
  <2>1. p \in Requests  BY <1>1
  <2>2. of[p] \in Receipts /\ row[of[p]] \in Row /\ row[of[p]] # Nothing
    BY <1>13, <2>1 DEF TypeOK, Targeted, InFlight, CommitPatch
  <2>3. row' = [row EXCEPT ![of[p]] = [row[of[p]] EXCEPT !.filled = TRUE]]
    BY <1>13, <2>2 DEF TypeOK, CommitPatch
  <2>4. row'[of[p]] = [row[of[p]] EXCEPT !.filled = TRUE]  BY <2>2, <2>3 DEF TypeOK
  <2>5. [row[of[p]] EXCEPT !.filled = TRUE] \in Row  BY <2>2 DEF Row
  <2>6. \A s \in Receipts \ {of[p]} : row'[s] = row[s]  BY <2>3 DEF TypeOK
  <2>7. row'[of[p]] # Nothing /\ row'[of[p]].link = row[of[p]].link
        /\ row'[of[p]].mode = row[of[p]].mode
    BY <2>2, <2>4, <2>5, NothingIsNoRow DEF Row
  <2>8. \A s \in Receipts : Same(s)  BY <2>2, <2>6, <2>7 DEF Same
  <2>9. Fewer /\ (\A z \in Requests : at[z] = "over" => at'[z] = "over")
        /\ UNCHANGED <<created, races, uploads>>
    BY <1>3, <1>13, <2>1 DEF CommitPatch
  <2> QED  BY <1>0, <2>6, <2>7, <2>8, <2>9, JoinedFewer
<1>14. ASSUME NEW x \in Deletes, CommitDelete(x)  PROVE Joined'
  <2>1. x \in Requests  BY <1>1
  <2>2. of[x] \in Receipts  BY <1>14, <2>1 DEF CommitDelete, Targeted, InFlight
  <2>3. row' = [row EXCEPT ![of[x]] = Nothing] /\ uploads' = uploads \ {of[x]}
        /\ UNCHANGED <<created, races>>
    BY <1>14 DEF CommitDelete
  <2>4. \A s \in Receipts \ {of[x]} : row'[s] = row[s]  BY <2>3 DEF TypeOK
  <2>5. row'[of[x]] = Nothing  BY <2>2, <2>3 DEF TypeOK
  <2>6. \A s \in Receipts : Same(s)  BY <2>4, <2>5 DEF Same
  <2>7. Fewer /\ \A z \in Requests : at[z] = "over" => at'[z] = "over"
    BY <1>3, <1>14, <2>1 DEF CommitDelete
  <2> QED  BY <1>0, <2>3, <2>4, <2>6, <2>7, JoinedFewer
<1>15. ASSUME UNCHANGED requests
       PROVE  Fewer /\ \A p \in Requests : at[p] = "over" => at'[p] = "over"
  BY <1>15 DEF Fewer, InFlight
<1>16. CASE SweepCommits
  <2>1. \A s \in Receipts : Same(s)  BY <1>16 DEF SweepCommits, Same
  <2>2. \A s \in Receipts : row'[s] = Nothing /\ s \in uploads' => row[s] = Nothing /\ s \in uploads
    BY <1>16 DEF SweepCommits
  <2> QED  BY <1>0, <1>15, <1>16, <2>1, <2>2, JoinedFewer DEF SweepCommits
<1>17. ASSUME UNCHANGED <<row, uploads, created, races, requests>>  PROVE Joined'
  <2>1. \A s \in Receipts : Same(s)  BY <1>17 DEF Same
  <2> QED  BY <1>0, <1>15, <1>17, <2>1, JoinedFewer
<1>18. ASSUME NEW r \in Receipts, JobLooksUp(r) \/ EndRun(r)  PROVE Joined'
  BY <1>17, <1>18 DEF JobLooksUp, EndRun
<1>19. CASE SweepReads \/ SweepFails  BY <1>17, <1>19 DEF SweepReads, SweepFails
<1>20. CASE UNCHANGED vars  BY <1>17, <1>20 DEF vars
<1> QED
  BY <1>4, <1>5, <1>6, <1>7, <1>8, <1>9, <1>10, <1>11, <1>12, <1>13, <1>14, <1>16, <1>18,
     <1>19, <1>20 DEF Next

(* The initial state has no receipt to be linked. *)
LEMMA InitJoined == Init => Joined
<1> SUFFICES ASSUME Init  PROVE Joined  OBVIOUS
<1>1. \A q \in Confirms : q \in Requests  BY DEF Requests
<1>2. \A q \in Confirms : ~InFlight(q) /\ at[q] \in {"start", "over"}
  BY <1>1 DEF Init, InFlight
<1>3. created = {} /\ \A r \in Receipts : row[r] = Nothing  BY DEF Init
<1> QED
  BY <1>2, <1>3 DEF Init, Joined, JobAlone, Fresh, HashLinked, Hash, TxTrue, FoundOvertaken,
     LinksKnown, Unclaimed, LinkedOnce, Confirmed, LinkModeTrue

(* Spec keeps what the links rest on. *)
LEMMA AlwaysJoined == Spec => []Joined
<1>1. Init => Open
  <2>1. \A q \in Confirms : q \in Requests  BY DEF Requests
  <2> QED
    BY <2>1 DEF Init, Open, ReviewedIsOpen, SeenConfirmed, HasTransaction, GoneForGood, InFlight
<1>2. Typed /\ Open /\ [Next]_vars => Open'  BY OpenStep
<1>3. Init => Joined  BY InitJoined
<1>4. Typed /\ Open /\ Joined /\ [Next]_vars => Joined'  BY JoinedStep
<1> QED  BY <1>1, <1>2, <1>3, <1>4, AlwaysTyped, PTL DEF Spec

(* LinkedOnce: two receipts do not hold one transaction, except where a    *)
(* confirmation committed beside another: the check of confirm_link holds  *)
(* until somebody commits, and confirm_create finds an old transaction     *)
(* only when it was overtaken by whoever inserted it.                      *)
THEOREM TransactionsLinkOnce == Spec => []LinkedOnce
<1>1. Joined => LinkedOnce  BY DEF Joined
<1> QED  BY <1>1, AlwaysJoined, PTL

(* LinkModeTrue: a receipt said to have created its transaction holds the  *)
(* one inserted for it, although the UPDATE leaves link_mode out when its  *)
(* reader saw the mode it would write.                                     *)
THEOREM ModesAreTrue == Spec => []LinkModeTrue
<1>1. Joined => LinkModeTrue  BY DEF Joined
<1> QED  BY <1>1, AlwaysJoined, PTL
=============================================================================
