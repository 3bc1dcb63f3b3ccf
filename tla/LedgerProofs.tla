----------------------------- MODULE LedgerProofs -----------------------------
(* What is proved of the ledger for every set of files, lines, edits and   *)
(* accounts, every mixture of retries and the deletion at any moment: the  *)
(* types, that the tables implement the book, that a person's decision on  *)
(* one row stands, and that no file arrives with lines missing.            *)
EXTENDS Ledger, WellFoundedInduction, TLAPS

-----------------------------------------------------------------------------
(* Order.                                                                  *)

(* A non-empty set of natural numbers has a least element. *)
LEMMA LeastNatural ==
    ASSUME NEW T \in SUBSET Nat, T # {}
    PROVE  \E x \in T : \A y \in T : x <= y
<1> DEFINE less == {p \in Nat \X Nat : p[1] < p[2]}
<1>1. IsWellFoundedOn(less, Nat)
  BY NatLessThanWellFounded, Zenon DEF OpToRel
<1>2. PICK x \in T : \A y \in T : ~ (<<y, x>> \in less)
  <2> HIDE DEF less
  <2> QED  BY <1>1, WFMin, Zenon
<1>3. \A y \in T : ~ (y < x)
  BY <1>2
<1> QED  BY <1>3

(* Of records whose began is bounded, one has the latest. *)
LEMMA LatestExists ==
    ASSUME NEW T, T # {}, NEW k \in Nat, \A c \in T : c.began \in 0 .. k
    PROVE  \E c \in T : \A o \in T : o.began <= c.began
<1> DEFINE gaps == {k - c.began : c \in T}
<1>1. gaps \in SUBSET Nat /\ gaps # {}  OBVIOUS
<1>2. PICK x \in gaps : \A y \in gaps : x <= y
  <2> HIDE DEF gaps
  <2> QED  BY <1>1, LeastNatural
<1>3. PICK c \in T : x = k - c.began  OBVIOUS
<1>4. ASSUME NEW o \in T  PROVE o.began <= c.began
  <2>1. k - o.began \in gaps  OBVIOUS
  <2>2. k - c.began <= k - o.began  BY <1>2, <1>3, <2>1
  <2> QED  BY <2>2
<1> QED  BY <1>4

-----------------------------------------------------------------------------
(* The inductive invariant.                                                *)

(* What a job or an edit under way has read, and that a job in the queue   *)
(* has a run left.                                                         *)
Underway ==
    /\ \A u \in Uploads : at[u] = "queued" => runs[u] < MaxRuns
    /\ \A u \in Uploads : at[u] \in {"resolved", "categorizing", "inserted"} => account[u] \in Accounts
    /\ \A e \in Edits : edit[e] \in {"category", "merchant", "ready"} =>
            target[e] \in Digests /\ saw[e] \in Row

Typed == TypeOK /\ Underway

(* Rows a job has inserted and not committed are nobody else's. *)
MineApart ==
    /\ \A u \in Uploads : at[u] # "inserted" => mine[u] = {}
    /\ \A u \in Uploads : mine[u] \cap Present = {}
    /\ \A u, o \in Uploads : u # o => mine[u] \cap mine[o] = {}

(* Alerts a job has inserted and not committed are about rows of its file  *)
(* that have none.                                                         *)
RaisedApart ==
    uploads # {} =>
        \A u \in Uploads : \A d \in raised[u] :
            alert[d] = Nothing /\ d \in Present /\ txn[d].upload = u

(* Once the deletion has committed no upload is left. *)
ErasedEmpty == erase = "done" => uploads = {}

Inv == Typed /\ MineApart /\ RaisedApart /\ ErasedEmpty

-----------------------------------------------------------------------------
(* Types.                                                                  *)

(* No row is NULL. *)
LEMMA RowIsSomething == \A w \in Row : w # Nothing
BY LedgerAssumption

(* The memory names categories. *)
LEMMA MemoryTyped ==
    ASSUME Typed
    PROVE  Memory \in [Merchants -> Categories \cup {Nothing}]
<1> SUFFICES ASSUME NEW m \in Merchants, Taught(m) # {}
             PROVE  (CHOOSE c \in Taught(m) : \A o \in Taught(m) : o.began <= c.began).value
                        \in Categories
  BY Zenon DEF Memory
<1>1. \A c \in Taught(m) : c.began \in 0 .. clock /\ c.value \in Categories
  BY DEF Typed, TypeOK, Taught
<1>2. \E c \in Taught(m) : \A o \in Taught(m) : o.began <= c.began
  <2>1. clock \in Nat  BY DEF Typed, TypeOK
  <2> QED  BY <1>1, <2>1, LatestExists
<1> QED  BY <1>1, <1>2

(* The account a job resolves is one of the user's. *)
LEMMA ResolvedTyped ==
    ASSUME Typed, accounts # <<>>, NEW u \in Uploads
    PROVE  Resolved(u) \in Accounts
<1>1. accounts \in Seq(Accounts) /\ DOMAIN accounts \in SUBSET Nat
  BY DEF Typed, TypeOK
<1>2. CASE Matches(u) # {}
  <2>1. Matches(u) \in SUBSET Nat  BY <1>1 DEF Matches
  <2>2. \E i \in Matches(u) : \A j \in Matches(u) : i <= j
    BY <1>2, <2>1, LeastNatural
  <2>3. PICK i \in Matches(u) : Resolved(u) = accounts[i]
    BY <1>2, <2>2 DEF Resolved
  <2> QED  BY <1>1, <2>3 DEF Matches
<1>3. CASE Matches(u) = {}
  BY <1>1, <1>3 DEF Resolved
<1> QED  BY <1>2, <1>3

(* What an import writes is a row. *)
LEMMA CategorizedIsRow ==
    ASSUME Typed, NEW u \in Uploads, NEW l \in Lines
    PROVE  Categorized(u, l) \in Row
<1> DEFINE m == MerchantOf[l]
           k == IF memory[u][m] # Nothing THEN memory[u][m] ELSE Ruled
<1>1. m \in Merchants  BY LedgerAssumption
<1>2. k \in Categories
  BY <1>1, LedgerAssumption DEF Typed, TypeOK
<1> HIDE DEF k, m
<1>3. [category |-> k, merchant |-> m, by |-> "import", upload |-> u] \in Row
  BY <1>1, <1>2 DEF Row
<1> QED  BY <1>3, Zenon DEF Categorized, k, m

(* A field an edit changes gets a value of its kind. *)
LEMMA WantedTyped ==
    ASSUME NEW e \in Edits
    PROVE  /\ Changes(e, "category") => Wanted[e].category \in Categories
           /\ Changes(e, "merchant") => Wanted[e].merchant \in Merchants
BY LedgerAssumption DEF Changes

(* What a correction leaves is a row of the same upload. *)
LEMMA CorrectedIsRow ==
    ASSUME Typed, NEW e \in Edits, NEW d \in Present
    PROVE  Corrected(e, d) \in Row /\ Corrected(e, d).upload = txn[d].upload
<1> DEFINE w == txn[d]
           k == IF d \in Writes(e, "category") THEN Wanted[e].category ELSE w.category
           m == IF d \in Writes(e, "merchant") THEN Wanted[e].merchant ELSE w.merchant
<1>1. w \in Row  BY DEF Typed, TypeOK, Present
<1>2. k \in Categories  BY <1>1, WantedTyped DEF Writes, Row
<1>3. m \in Merchants  BY <1>1, WantedTyped DEF Writes, Row
<1>4. Corrected(e, d) = [w EXCEPT !.category = k, !.merchant = m, !.by = "correction"]
  BY DEF Corrected
<1> HIDE DEF k, m, w
<1>5. [w EXCEPT !.category = k, !.merchant = m, !.by = "correction"] \in Row
      /\ [w EXCEPT !.category = k, !.merchant = m, !.by = "correction"].upload = w.upload
  BY <1>1, <1>2, <1>3 DEF Row
<1> QED  BY <1>4, <1>5, Zenon DEF w

(* The initial state is well typed. *)
LEMMA InitTyped == Init => Typed
BY LedgerAssumption DEF Init, Typed, TypeOK, Underway, Untaught, Fields

(* The steps of a job keep the types. *)
LEMMA JobTyped ==
    ASSUME Typed, NEW u \in Uploads, Job(u)
    PROVE  Typed'
<1> USE DEF Typed, TypeOK, Underway, tables, jobs, edits, erasure
<1>1. CASE Start(u)
  <2>1. runs[u] + 1 \in 0 .. MaxRuns
    <3>1. at[u] = "queued" /\ runs[u] \in 0 .. MaxRuns  BY <1>1 DEF Start
    <3> QED  BY <3>1, LedgerAssumption
  <2>2. runs' \in [Uploads -> 0 .. MaxRuns]  BY <1>1, <2>1 DEF Start
  <2> QED  BY <1>1, <2>2 DEF Start
<1>2. CASE StartNothing(u)
  BY <1>2 DEF StartNothing
<1>3. CASE ResolveAccount(u)
  <2>1. PICK a \in Accounts : account' = [account EXCEPT ![u] = a]
    BY <1>3, ResolvedTyped DEF ResolveAccount, Fresh
  <2>2. memory' = [memory EXCEPT ![u] = Memory] /\ at' = [at EXCEPT ![u] = "resolved"]
        /\ UNCHANGED <<tables, runs, mine, raised, edits, erasure>>
    BY <1>3 DEF ResolveAccount
  <2>3. memory' \in [Uploads -> [Merchants -> Categories \cup {Nothing}]]
    BY <2>2, MemoryTyped
  <2> QED  BY <2>1, <2>2, <2>3
<1>4. CASE EnterCategorizing(u)
  <2>1. accounts' \in Seq(Accounts)  BY <1>4 DEF EnterCategorizing
  <2> QED  BY <1>4, <2>1 DEF EnterCategorizing
<1>5. CASE InsertRows(u)
  <2>1. Payload(u) \subseteq Digests
    <3>1. account[u] \in Accounts  BY <1>5 DEF InsertRows
    <3>2. RowsOf[u] \subseteq Lines  BY LedgerAssumption
    <3> QED  BY ONLY <3>1, <3>2 DEF Payload, Digests
  <2>2. mine' \in [Uploads -> SUBSET Digests]
    BY <1>5, <2>1 DEF InsertRows
  <2> QED  BY <1>5, <2>2 DEF InsertRows
<1>6. CASE EnterAnalyzing(u)
  <2>1. \A d \in Digests : Categorized(u, d[2]) \in Row
    BY CategorizedIsRow DEF Digests
  <2>2. txn' \in [Digests -> Row \cup {Nothing}]
    BY <1>6, <2>1 DEF EnterAnalyzing
  <2>3. memory' \in [Uploads -> [Merchants -> Categories \cup {Nothing}]]
    BY <1>6 DEF EnterAnalyzing, Untaught
  <2> QED  BY <1>6, <2>2, <2>3 DEF EnterAnalyzing
<1>7. CASE Detect(u)
  <2>1. raised' \in [Uploads -> SUBSET Digests]
    BY <1>7 DEF Detect, Present
  <2> QED  BY <1>7, <2>1 DEF Detect
<1>8. CASE CompleteJob(u)
  <2>1. alert' \in [Digests -> Statuses \cup {Nothing}]
    BY <1>8 DEF CompleteJob, Statuses
  <2> QED  BY <1>8, <2>1 DEF CompleteJob
<1>9. CASE FailJob(u)
  <2>1. memory' \in [Uploads -> [Merchants -> Categories \cup {Nothing}]]
    BY <1>9 DEF FailJob, Untaught
  <2>2. at' \in [Uploads -> {"queued", "parsed", "resolved", "categorizing", "inserted",
                             "analyzing", "detected", "complete", "failed"}]
    BY <1>9 DEF FailJob, Retried
  <2> QED  BY <1>9, <2>1, <2>2 DEF FailJob, Retried
<1> QED  BY <1>1, <1>2, <1>3, <1>4, <1>5, <1>6, <1>7, <1>8, <1>9 DEF Job

(* The corrections of an edit are typed. *)
LEMMA CorrectionTyped ==
    ASSUME Typed, NEW e \in Edits, edit[e] = "ready", Written(e) \subseteq Present,
           NEW f \in Fields, NEW d \in Writes(e, f), NEW c, c = Correction(e, f, d)
    PROVE  /\ c.txn \in Digests /\ c.field \in Fields
           /\ c.value \in IF c.field = "category" THEN Categories ELSE Merchants
           /\ c.key \in Merchants /\ c.alone \in BOOLEAN /\ c.edit \in Edits
           /\ c.began \in 0 .. clock + 1 /\ c.done \in 0 .. clock + 1
<1>1. d \in Digests  BY DEF Written, Present
<1>2. Changes(e, f)  BY DEF Writes
<1>3. saw[e].merchant \in Merchants  BY DEF Typed, Underway, Row
<1>4. clock \in Nat /\ began[e] \in 0 .. clock  BY DEF Typed, TypeOK
<1>5. CASE f = "category"
  BY <1>1, <1>2, <1>3, <1>4, <1>5, WantedTyped DEF Correction, Fields
<1>6. CASE f = "merchant"
  BY <1>1, <1>2, <1>3, <1>4, <1>6, WantedTyped DEF Correction, Fields
<1> QED  BY <1>5, <1>6 DEF Fields

(* The steps of an edit keep the types. *)
LEMMA EditTyped ==
    ASSUME Typed, NEW e \in Edits, Edit(e)
    PROVE  Typed'
<1> USE DEF Typed, TypeOK, Underway, tables, jobs, edits, erasure
<1>1. CASE LoadTransaction(e)
  <2>1. PICK d \in Present : /\ target' = [target EXCEPT ![e] = d]
                             /\ saw' = [saw EXCEPT ![e] = txn[d]]
    BY <1>1 DEF LoadTransaction
  <2>2. d \in Digests /\ txn[d] \in Row  BY DEF Present
  <2>3. clock' \in Nat /\ began' \in [Edits -> 0 .. clock']
    BY <1>1 DEF LoadTransaction
  <2>4. \A c \in corrections' : /\ c.began \in 0 .. clock' /\ c.done \in 0 .. clock'
    BY <1>1 DEF LoadTransaction
  <2>5. /\ edit' \in [Edits -> {"idle", "category", "merchant", "ready", "done", "refused"}]
        /\ edit' = [edit EXCEPT ![e] = edit'[e]]
        /\ UNCHANGED <<accounts, txn, corrections, alert, uploads, jobs, hits, erasure>>
    BY <1>1 DEF LoadTransaction
  <2> QED  BY <2>1, <2>2, <2>3, <2>4, <2>5
<1>2. ASSUME NEW f \in Fields, NEW next \in {"merchant", "ready"}, Gather(e, f, next)
      PROVE  Typed'
  <2>1. edit[e] \in {"category", "merchant"}  BY <1>2 DEF Gather, Fields
  <2>2. PICK s \in SUBSET Digests : hits' = [hits EXCEPT ![e][f] = s]
    BY <1>2 DEF Gather, Siblings, Present
  <2>3. hits' \in [Edits -> [Fields -> SUBSET Digests]]
    BY <2>2
  <2> QED  BY <1>2, <2>1, <2>3 DEF Gather
<1>3. ASSUME NEW how \in {"done", "refused"}, Answer(e, how)
      PROVE  /\ edit' \in [Edits -> {"idle", "category", "merchant", "ready", "done", "refused"}]
             /\ saw' \in [Edits -> Row \cup {Nothing}]
             /\ hits' \in [Edits -> [Fields -> SUBSET Digests]]
             /\ \A x \in Edits : x # e => edit'[x] = edit[x] /\ saw'[x] = saw[x]
             /\ edit'[e] = how
  BY <1>3 DEF Answer
<1>4. CASE CommitEdit(e)
  <2>1. edit[e] = "ready" /\ Written(e) \subseteq Present
    BY <1>4 DEF CommitEdit
  <2>2. txn' \in [Digests -> Row \cup {Nothing}]
    BY <1>4, <2>1, CorrectedIsRow DEF CommitEdit
  <2>3. clock' = clock + 1 /\ clock' \in Nat  BY <1>4 DEF CommitEdit
  <2>4. ASSUME NEW c \in corrections'
        PROVE  /\ c.txn \in Digests /\ c.field \in Fields
               /\ c.value \in IF c.field = "category" THEN Categories ELSE Merchants
               /\ c.key \in Merchants /\ c.alone \in BOOLEAN /\ c.edit \in Edits
               /\ c.began \in 0 .. clock' /\ c.done \in 0 .. clock'
    <3>1. CASE c \in corrections  BY <3>1, <2>3
    <3>2. CASE c \notin corrections
      <4>1. PICK f \in Fields : c \in {Correction(e, f, d) : d \in Writes(e, f)}
        BY <1>4, <3>2 DEF CommitEdit
      <4>2. PICK d \in Writes(e, f) : c = Correction(e, f, d)
        BY <4>1
      <4> HIDE DEF Typed, TypeOK, Underway
      <4> QED  BY <2>1, <2>3, <4>2, CorrectionTyped
    <3> QED  BY <3>1, <3>2
  <2>5. Answer(e, "done") /\ UNCHANGED <<accounts, alert, uploads, jobs, began, target, erasure>>
    BY <1>4 DEF CommitEdit
  <2>6. began' \in [Edits -> 0 .. clock']  BY <2>3, <2>5
  <2>7. TypeOK'  BY <1>3, <2>2, <2>3, <2>4, <2>5, <2>6
  <2>8. Underway'  BY <1>3, <2>5
  <2> QED  BY <2>7, <2>8
<1>5. CASE RefuseEdit(e)
  <2>1. Answer(e, "refused") /\ UNCHANGED <<tables, jobs, began, target, erasure>>
    BY <1>5 DEF RefuseEdit
  <2> QED  BY <1>3, <2>1
<1> QED  BY <1>1, <1>2, <1>4, <1>5 DEF Edit, GatherCategory, GatherMerchant, Fields

(* Rulings and the deletion keep the types. *)
LEMMA OthersTyped ==
    ASSUME Typed, UpdateAlert \/ Erasure
    PROVE  Typed'
<1> USE DEF Typed, TypeOK, Underway, tables, jobs, edits, erasure
<1>1. CASE UpdateAlert
  <2>1. alert' \in [Digests -> Statuses \cup {Nothing}]
    BY <1>1 DEF UpdateAlert
  <2> QED  BY <1>1, <2>1 DEF UpdateAlert
<1>2. CASE BeginErase
  <2>1. /\ at' \in [Uploads -> {"queued", "parsed", "resolved", "categorizing", "inserted",
                                "analyzing", "detected", "complete", "failed"}]
        /\ \A u \in Uploads : at'[u] \in {at[u], "failed"}
    BY <1>2 DEF BeginErase
  <2> QED  BY <1>2, <2>1 DEF BeginErase
<1>3. CASE EraseRows
  BY <1>3 DEF EraseRows, Present
<1>4. CASE EraseJobs
  BY <1>4 DEF EraseJobs
<1>5. CASE EraseUploads
  <2>1. \A w \in Row : [w EXCEPT !.upload = Nothing] \in Row  BY DEF Row
  <2>2. txn' \in [Digests -> Row \cup {Nothing}]
    BY <1>5, <2>1 DEF EraseUploads
  <2>3. alert' \in [Digests -> Statuses \cup {Nothing}] /\ corrections' \subseteq corrections
    BY <1>5 DEF EraseUploads
  <2> QED  BY <1>5, <2>2, <2>3 DEF EraseUploads
<1>6. CASE AbortErase
  BY <1>6 DEF AbortErase
<1> QED  BY <1>1, <1>2, <1>3, <1>4, <1>5, <1>6 DEF Erasure

(* Every step keeps the types. *)
LEMMA StepTyped == Typed /\ [Next]_vars => Typed'
<1> SUFFICES ASSUME Typed, [Next]_vars  PROVE Typed'  OBVIOUS
<1>1. CASE UNCHANGED vars
  BY <1>1 DEF vars, tables, jobs, edits, erasure, Typed, TypeOK, Underway
<1> QED  BY <1>1, JobTyped, EditTyped, OthersTyped DEF Next

(* Every reachable state of the ledger has its types. *)
THEOREM LedgerTypeCorrect == Spec => []TypeOK
<1>1. Typed => TypeOK  BY DEF Typed
<1> QED  BY InitTyped, StepTyped, <1>1, PTL DEF Spec

-----------------------------------------------------------------------------
(* What jobs hold is apart.                                                *)

(* The initial state has it all. *)
LEMMA InitInv == Init => Inv
BY InitTyped DEF Init, Inv, MineApart, RaisedApart, ErasedEmpty, Present

(* The steps of a job keep what jobs hold apart. *)
LEMMA JobInv ==
    ASSUME Inv, NEW u \in Uploads, Job(u)
    PROVE  MineApart' /\ RaisedApart' /\ ErasedEmpty'
<1> USE DEF Inv, MineApart, RaisedApart, ErasedEmpty, tables, jobs, edits, erasure, Present
<1>0. /\ at \in [Uploads -> {"queued", "parsed", "resolved", "categorizing", "inserted",
                             "analyzing", "detected", "complete", "failed"}]
      /\ mine \in [Uploads -> SUBSET Digests] /\ raised \in [Uploads -> SUBSET Digests]
      /\ txn \in [Digests -> Row \cup {Nothing}] /\ alert \in [Digests -> Statuses \cup {Nothing}]
  BY DEF Typed, TypeOK
<1>1. CASE Start(u)
  BY <1>0, <1>1 DEF Start
<1>2. CASE StartNothing(u)
  BY <1>0, <1>2 DEF StartNothing
<1>3. CASE ResolveAccount(u)
  <2>1. at[u] = "parsed" /\ at' = [at EXCEPT ![u] = "resolved"]
        /\ UNCHANGED <<tables, mine, raised, edits, erasure>>
    BY <1>3 DEF ResolveAccount
  <2> QED  BY <1>0, <2>1
<1>4. CASE EnterCategorizing(u)
  <2>1. at[u] = "resolved" /\ at' = [at EXCEPT ![u] = "categorizing"]
        /\ UNCHANGED <<txn, alert, uploads, mine, raised, erasure>>
    BY <1>4 DEF EnterCategorizing
  <2> QED  BY <1>0, <2>1
<1>5. CASE InsertRows(u)
  <2>1. /\ mine' = [mine EXCEPT ![u] = Payload(u) \ Present]
        /\ at[u] = "categorizing" /\ at' = [at EXCEPT ![u] = "inserted"]
        /\ \A o \in Uploads : Payload(u) \cap mine[o] = {}
        /\ UNCHANGED <<tables, raised, edits, erasure>>
    BY <1>5 DEF InsertRows
  <2> QED  BY <1>0, <2>1
<1>6. CASE EnterAnalyzing(u)
  <2>1. /\ txn' = [d \in Digests |-> IF d \in mine[u] THEN Categorized(u, d[2]) ELSE txn[d]]
        /\ mine' = [mine EXCEPT ![u] = {}]
        /\ at[u] = "inserted" /\ at' = [at EXCEPT ![u] = "analyzing"]
        /\ UNCHANGED <<alert, uploads, raised, erasure>>
    BY <1>6 DEF EnterAnalyzing
  <2>2. Present' \subseteq Present \cup mine[u]  BY <1>0, <2>1
  <2>3. \A d \in Present : txn'[d] = txn[d] /\ d \in Present'  BY <1>0, <2>1
  <2>4. MineApart'  BY <1>0, <2>1, <2>2
  <2>5. RaisedApart'  BY <1>0, <2>1, <2>3
  <2>6. ErasedEmpty'  BY <2>1
  <2> QED  BY <2>4, <2>5, <2>6
<1>7. CASE Detect(u)
  <2>1. PICK found \in SUBSET {d \in Present : d[2] \in Unusual /\ txn[d].upload = u} :
            raised' = [raised EXCEPT ![u] = {d \in found : alert[d] = Nothing}]
    BY <1>7, Zenon DEF Detect
  <2>2. at[u] = "analyzing" /\ at' = [at EXCEPT ![u] = "detected"]
        /\ UNCHANGED <<tables, mine, edits, erasure>>
    BY <1>7 DEF Detect
  <2> QED  BY <1>0, <2>1, <2>2
<1>8. CASE CompleteJob(u)
  <2>1. /\ alert' = [d \in Digests |-> IF d \in raised[u] THEN "open" ELSE alert[d]]
        /\ raised' = [raised EXCEPT ![u] = {}]
        /\ u \in uploads
        /\ at[u] = "detected" /\ at' = [at EXCEPT ![u] = "complete"]
        /\ UNCHANGED <<txn, uploads, mine, erasure>>
    BY <1>8 DEF CompleteJob
  <2>2. \A o \in Uploads : o # u => raised[o] \cap raised[u] = {}  BY <2>1
  <2> QED  BY <1>0, <2>1, <2>2
<1>9. CASE FailJob(u)
  <2>1. /\ mine' = [mine EXCEPT ![u] = {}] /\ raised' = [raised EXCEPT ![u] = {}]
        /\ at' = [at EXCEPT ![u] = Retried(u)]
        /\ UNCHANGED <<tables, edits, erasure>>
    BY <1>9 DEF FailJob
  <2> QED  BY <1>0, <2>1 DEF Retried
<1> QED  BY <1>1, <1>2, <1>3, <1>4, <1>5, <1>6, <1>7, <1>8, <1>9 DEF Job

(* A committed correction keeps every row, and the file it came from. *)
LEMMA CommitKeepsRows ==
    ASSUME Typed, NEW e \in Edits, CommitEdit(e), NEW d \in Digests
    PROVE  /\ txn[d] = Nothing <=> txn'[d] = Nothing
           /\ txn[d] # Nothing => txn'[d] \in Row /\ txn'[d].upload = txn[d].upload
<1>1. Written(e) \subseteq Present
      /\ txn' = [x \in Digests |-> IF x \in Written(e) THEN Corrected(e, x) ELSE txn[x]]
  BY DEF CommitEdit
<1>2. txn[d] \in Row \cup {Nothing}  BY DEF Typed, TypeOK
<1>3. CASE d \in Written(e)
  <2>1. d \in Present  BY <1>1, <1>3
  <2>2. txn'[d] = Corrected(e, d)  BY <1>1, <1>3
  <2> QED  BY <2>1, <2>2, CorrectedIsRow, RowIsSomething DEF Present
<1>4. CASE d \notin Written(e)
  BY <1>1, <1>2, <1>4
<1> QED  BY <1>3, <1>4

(* So do edits, rulings and the deletion. *)
LEMMA OthersInv ==
    ASSUME Inv, (\E e \in Edits : Edit(e)) \/ UpdateAlert \/ Erasure
    PROVE  MineApart' /\ RaisedApart' /\ ErasedEmpty'
<1> USE DEF Inv, MineApart, RaisedApart, ErasedEmpty, tables, jobs, edits, erasure, Present
<1>0. /\ at \in [Uploads -> {"queued", "parsed", "resolved", "categorizing", "inserted",
                             "analyzing", "detected", "complete", "failed"}]
      /\ mine \in [Uploads -> SUBSET Digests] /\ raised \in [Uploads -> SUBSET Digests]
      /\ txn \in [Digests -> Row \cup {Nothing}] /\ alert \in [Digests -> Statuses \cup {Nothing}]
  BY DEF Typed, TypeOK
<1>1. ASSUME NEW e \in Edits, Edit(e)  PROVE MineApart' /\ RaisedApart' /\ ErasedEmpty'
  <2>1. UNCHANGED <<alert, uploads, at, mine, raised, erase>>
    BY <1>1 DEF Edit, LoadTransaction, GatherCategory, GatherMerchant, Gather, CommitEdit, RefuseEdit
  <2>2. CASE CommitEdit(e)
    <3>1. \A d \in Digests : /\ txn[d] = Nothing <=> txn'[d] = Nothing
                             /\ txn[d] # Nothing => txn'[d].upload = txn[d].upload
      BY <2>2, CommitKeepsRows
    <3>2. Present' = Present  BY <3>1
    <3>3. MineApart' /\ ErasedEmpty'  BY <2>1, <3>2
    <3>4. RaisedApart'  BY <1>0, <2>1, <3>1
    <3> QED  BY <3>3, <3>4
  <2>3. CASE UNCHANGED txn
    BY <2>1, <2>3
  <2> QED  BY <1>1, <2>2, <2>3 DEF Edit, LoadTransaction, GatherCategory, GatherMerchant, Gather,
                                  RefuseEdit
<1>2. CASE UpdateAlert
  <2>1. PICK d \in Digests, s \in Statuses : alert[d] # Nothing /\ alert' = [alert EXCEPT ![d] = s]
    BY <1>2 DEF UpdateAlert
  <2>2. UNCHANGED <<txn, uploads, at, mine, raised, erase>>  BY <1>2 DEF UpdateAlert
  <2> QED  BY <1>0, <2>1, <2>2
<1>3. CASE BeginErase
  <2>1. /\ \A u \in Uploads : at'[u] \in {at[u], "failed"} /\ (at'[u] # at[u] => at[u] = "queued")
        /\ erase' = "begun" /\ UNCHANGED <<txn, alert, uploads, mine, raised>>
    BY <1>0, <1>3 DEF BeginErase
  <2> QED  BY <1>0, <2>1
<1>4. CASE EraseRows
  BY <1>4 DEF EraseRows
<1>5. CASE EraseJobs
  BY <1>5 DEF EraseJobs
<1>6. CASE EraseUploads
  <2>1. uploads' = {} /\ UNCHANGED <<at, mine, raised>>
        /\ \A u \in Uploads : mine[u] = {}
    BY <1>6 DEF EraseUploads
  <2> QED  BY <1>0, <2>1
<1>7. CASE AbortErase
  BY <1>7 DEF AbortErase
<1> QED  BY <1>1, <1>2, <1>3, <1>4, <1>5, <1>6, <1>7 DEF Erasure

(* Every step keeps the invariant. *)
LEMMA StepInv == Inv /\ [Next]_vars => Inv'
<1> SUFFICES ASSUME Inv, [Next]_vars  PROVE Inv'  OBVIOUS
<1>1. Typed'  BY StepTyped DEF Inv
<1>2. CASE UNCHANGED vars
  <2>1. UNCHANGED <<txn, alert, uploads, at, mine, raised, erase>>
    BY <1>2 DEF vars, tables, jobs, erasure
  <2>2. MineApart' /\ RaisedApart' /\ ErasedEmpty'
    BY <2>1 DEF Inv, MineApart, RaisedApart, ErasedEmpty, Present
  <2> QED  BY <1>1, <2>2 DEF Inv
<1>3. CASE Next
  <2>1. MineApart' /\ RaisedApart' /\ ErasedEmpty'
    BY <1>3, JobInv, OthersInv DEF Next
  <2> QED  BY <1>1, <2>1 DEF Inv
<1> QED  BY <1>2, <1>3

-----------------------------------------------------------------------------
(* The book.                                                               *)

(* What a row says is an entry. *)
LEMMA ContentsOfRow == \A w \in Row : <<w.category, w.merchant>> # Nothing
<1> SUFFICES ASSUME NEW w \in Row  PROVE <<w.category, w.merchant>> # Nothing  OBVIOUS
<1>1. <<w.category, w.merchant>> \in Categories \X Merchants  BY DEF Row
<1> QED  BY <1>1, LedgerAssumption

(* An entry is there exactly where a row is. *)
LEMMA EntryOfRow ==
    ASSUME Typed, NEW d \in Digests
    PROVE  Entry(d) = Nothing <=> txn[d] = Nothing
BY ContentsOfRow DEF Entry, Typed, TypeOK

(* The first tables are the first book. *)
LEMMA InitIsBook == Init => TheBook!Init
BY DEF Init, TheBook!Init, Entry

(* Where rows, alerts and the deletion stay, the book stays, and imports   *)
(* may proceed.                                                            *)
LEMMA BookStays ==
    ASSUME UNCHANGED <<txn, alert>>, (erase = "done") = (erase' = "done")
    PROVE  [TheBook!Next]_(TheBook!book)
<1>1. UNCHANGED <<[d \in Digests |-> Entry(d)], alert, erase = "done">>
  BY DEF Entry
<1>2. CASE at' = at
  BY <1>1, <1>2 DEF TheBook!book
<1>3. CASE at' # at
  BY <1>1, <1>3 DEF TheBook!Proceed, TheBook!Next
<1> QED  BY <1>2, <1>3

(* Every step of a job stutters or imports. *)
LEMMA JobIsBook ==
    ASSUME Inv, NEW u \in Uploads, Job(u)
    PROVE  [TheBook!Next]_(TheBook!book)
<1> USE DEF tables, jobs, edits, erasure
<1>0. at \in [Uploads -> {"queued", "parsed", "resolved", "categorizing", "inserted",
                          "analyzing", "detected", "complete", "failed"}]
  BY DEF Inv, Typed, TypeOK
<1>1. CASE EnterAnalyzing(u)
  <2>1. /\ txn' = [d \in Digests |-> IF d \in mine[u] THEN Categorized(u, d[2]) ELSE txn[d]]
        /\ u \in uploads /\ UNCHANGED <<alert, erase>>
        /\ at[u] = "inserted" /\ at' = [at EXCEPT ![u] = "analyzing"]
    BY <1>1 DEF EnterAnalyzing
  <2>0. at' # at  BY <1>0, <2>1
  <2>2. erase # "done"  BY <2>1 DEF Inv, ErasedEmpty
  <2>3. \A d \in Digests : txn[d] # Nothing => txn'[d] = txn[d]
    BY <2>1 DEF Inv, MineApart, Present
  <2>4. \A d \in Digests : Entry(d) # Nothing => Entry(d)' = Entry(d)
    BY <2>3 DEF Entry
  <2>5. TheBook!Import
    BY <2>0, <2>1, <2>2, <2>4 DEF TheBook!Import, TheBook!Adds
  <2> QED  BY <2>5 DEF TheBook!Next
<1>2. CASE CompleteJob(u)
  <2>1. /\ alert' = [d \in Digests |-> IF d \in raised[u] THEN "open" ELSE alert[d]]
        /\ u \in uploads /\ UNCHANGED <<txn, erase>>
        /\ at[u] = "detected" /\ at' = [at EXCEPT ![u] = "complete"]
    BY <1>2 DEF CompleteJob
  <2>0. at' # at  BY <1>0, <2>1
  <2>2. erase # "done"  BY <2>1 DEF Inv, ErasedEmpty
  <2>3. \A d \in Digests : alert[d] # Nothing => alert'[d] = alert[d]
    BY <2>1 DEF Inv, RaisedApart
  <2>4. \A d \in Digests : Entry(d)' = Entry(d)
    BY <2>1 DEF Entry
  <2>5. TheBook!Import
    BY <2>0, <2>1, <2>2, <2>3, <2>4 DEF TheBook!Import, TheBook!Adds
  <2> QED  BY <2>5 DEF TheBook!Next
<1>3. CASE ~EnterAnalyzing(u) /\ ~CompleteJob(u)
  <2>1. UNCHANGED <<txn, alert, erase>>
    BY <1>3 DEF Job, Start, StartNothing, ResolveAccount, EnterCategorizing, InsertRows, Detect, FailJob
  <2> QED  BY <2>1, BookStays
<1> QED  BY <1>1, <1>2, <1>3

(* Every step of an edit stutters or decides; so does a ruling. *)
LEMMA DecisionIsBook ==
    ASSUME Inv, Typed', (\E e \in Edits : Edit(e)) \/ UpdateAlert
    PROVE  [TheBook!Next]_(TheBook!book)
<1> USE DEF tables, jobs, edits, erasure
<1>1. ASSUME NEW e \in Edits, CommitEdit(e)  PROVE [TheBook!Next]_(TheBook!book)
  <2>1. UNCHANGED <<alert, at, erase>>  BY <1>1 DEF CommitEdit
  <2>2. \A d \in Digests : txn[d] = Nothing <=> txn'[d] = Nothing
    BY <1>1, CommitKeepsRows DEF Inv
  <2>3. \A d \in Digests : /\ Entry(d) = Nothing <=> txn[d] = Nothing
                           /\ Entry(d)' = Nothing <=> txn'[d] = Nothing
    <3>1. \A d \in Digests : Entry(d) = Nothing <=> txn[d] = Nothing
      BY EntryOfRow DEF Inv
    <3>2. \A d \in Digests : Entry(d)' = Nothing <=> txn'[d] = Nothing
      <4>1. txn' \in [Digests -> Row \cup {Nothing}]  BY DEF Typed, TypeOK
      <4> QED  BY <4>1, ContentsOfRow DEF Entry
    <3> QED  BY <3>1, <3>2
  <2>4. TheBook!Decide
    BY <2>1, <2>2, <2>3 DEF TheBook!Decide, TheBook!Rewrites
  <2> QED  BY <2>4 DEF TheBook!Next
<1>2. CASE UpdateAlert
  <2>1. PICK d \in Digests, s \in Statuses : alert[d] # Nothing /\ alert' = [alert EXCEPT ![d] = s]
    BY <1>2 DEF UpdateAlert
  <2>2. UNCHANGED <<txn, at, erase>>  BY <1>2 DEF UpdateAlert
  <2>3. alert \in [Digests -> Statuses \cup {Nothing}] /\ Nothing \notin Statuses
    BY LedgerAssumption DEF Inv, Typed, TypeOK
  <2>4. \A k \in Digests : (alert[k] = Nothing) = (alert'[k] = Nothing)
    BY <2>1, <2>3
  <2>5. \A k \in Digests : Entry(k)' = Entry(k)  BY <2>2 DEF Entry
  <2>6. TheBook!Decide
    BY <2>2, <2>4, <2>5 DEF TheBook!Decide, TheBook!Rewrites
  <2> QED  BY <2>6 DEF TheBook!Next
<1>3. ASSUME NEW e \in Edits, Edit(e), ~CommitEdit(e)  PROVE [TheBook!Next]_(TheBook!book)
  <2>1. UNCHANGED <<txn, alert, erase>>
    BY <1>3 DEF Edit, LoadTransaction, GatherCategory, GatherMerchant, Gather, RefuseEdit
  <2> QED  BY <2>1, BookStays
<1> QED  BY <1>1, <1>2, <1>3

(* Every step of the deletion stutters or erases. *)
LEMMA ErasureIsBook ==
    ASSUME Inv, Erasure
    PROVE  [TheBook!Next]_(TheBook!book)
<1> USE DEF tables, jobs, edits, erasure
<1>1. CASE EraseUploads
  <2>1. /\ txn' = [d \in Digests |->
                      IF d \in doomed \/ txn[d] = Nothing THEN Nothing
                      ELSE [txn[d] EXCEPT !.upload = Nothing]]
        /\ alert' = [d \in Digests |-> IF d \in doomed THEN Nothing ELSE alert[d]]
        /\ erase = "jobs" /\ erase' = "done" /\ UNCHANGED at
    BY <1>1 DEF EraseUploads
  <2>2. \A d \in Digests : Entry(d)' # Nothing => Entry(d) # Nothing
    <3>1. \A d \in Digests : txn[d] = Nothing => Entry(d)' = Nothing
      BY <2>1 DEF Entry
    <3>2. \A d \in Digests : Entry(d) = Nothing <=> txn[d] = Nothing
      BY EntryOfRow DEF Inv
    <3> QED  BY <3>1, <3>2
  <2>3. TheBook!Erase
    BY <2>1, <2>2 DEF TheBook!Erase, TheBook!Keeps
  <2> QED  BY <2>3 DEF TheBook!Next
<1>2. CASE ~EraseUploads
  <2>1. UNCHANGED <<txn, alert>> /\ erase # "done" /\ erase' # "done"
    BY <1>2 DEF Erasure, BeginErase, EraseRows, EraseJobs, AbortErase
  <2> QED  BY <2>1, BookStays
<1> QED  BY <1>1, <1>2

(* The tables, and all who write them, implement the book: imports add and *)
(* never change, the owner's decisions alone change what is there, and     *)
(* nothing is added after the deletion has committed.                      *)
THEOREM LedgerKeepsBook == Spec => KeepsBook
<1>1. Inv /\ [Next]_vars => [TheBook!Next]_(TheBook!book)
  <2> SUFFICES ASSUME Inv, [Next]_vars  PROVE [TheBook!Next]_(TheBook!book)  OBVIOUS
  <2>1. CASE UNCHANGED vars
    <3>1. UNCHANGED <<txn, alert, erase>>  BY <2>1 DEF vars, tables, erasure
    <3> QED  BY <3>1, BookStays
  <2>2. Typed'  BY StepTyped DEF Inv
  <2> QED  BY <2>1, <2>2, JobIsBook, DecisionIsBook, ErasureIsBook DEF Next
<1>2. Spec => []Inv
  BY InitInv, StepInv, PTL DEF Spec
<1> QED  BY <1>1, <1>2, InitIsBook, PTL DEF Spec, KeepsBook, TheBook!Spec

-----------------------------------------------------------------------------
(* Decisions.                                                              *)

(* A correction is of a row that is there, by an edit that is done. *)
CorrectionsSettled == \A c \in corrections : c.txn \in Present /\ edit[c.edit] = "done"

(* What an edit has gathered was decided alone only after it had begun; it *)
(* gathers nothing before.                                                 *)
HitsFresh ==
    \A e \in Edits, f \in Fields :
        /\ edit[e] = "idle" => hits[e][f] = {}
        /\ \A d \in hits[e][f] : \A c \in corrections :
               c.txn = d /\ c.field = f /\ c.alone => began[e] < c.done

Decided == Inv /\ CorrectionsSettled /\ HitsFresh /\ DecisionStands

(* No correction was made yet. *)
LEMMA InitDecided == Init => Decided
BY InitInv DEF Init, Decided, CorrectionsSettled, HitsFresh, DecisionStands

(* Steps that keep what is said of corrected rows keep the decisions. *)
LEMMA DecisionsStay ==
    ASSUME Decided, UNCHANGED <<clock, corrections, edits>>,
           \A d \in Present : /\ d \in Present'
                              /\ txn'[d].category = txn[d].category
                              /\ txn'[d].merchant = txn[d].merchant
    PROVE  CorrectionsSettled' /\ HitsFresh' /\ DecisionStands'
<1> USE DEF Decided, CorrectionsSettled, HitsFresh, DecisionStands, edits
<1>1. \A c \in corrections : txn'[c.txn][c.field] = txn[c.txn][c.field]
  BY DEF Inv, Typed, TypeOK, Fields
<1> QED  BY <1>1

(* The steps of a job keep the decisions. *)
LEMMA JobDecided ==
    ASSUME Decided, NEW u \in Uploads, Job(u)
    PROVE  CorrectionsSettled' /\ HitsFresh' /\ DecisionStands'
<1> USE DEF tables, jobs, edits, erasure
<1>1. UNCHANGED <<clock, corrections, edits>>
  BY DEF Job, Start, StartNothing, ResolveAccount, EnterCategorizing, InsertRows, EnterAnalyzing,
         Detect, CompleteJob, FailJob
<1>2. \A d \in Present : txn'[d] = txn[d]
  <2>1. CASE EnterAnalyzing(u)
    <3>1. txn' = [d \in Digests |-> IF d \in mine[u] THEN Categorized(u, d[2]) ELSE txn[d]]
      BY <2>1 DEF EnterAnalyzing
    <3> QED  BY <3>1 DEF Decided, Inv, MineApart, Present
  <2>2. CASE ~EnterAnalyzing(u)
    BY <2>2 DEF Job, Start, StartNothing, ResolveAccount, EnterCategorizing, InsertRows, Detect,
                CompleteJob, FailJob
  <2> QED  BY <2>1, <2>2
<1> QED  BY <1>1, <1>2, DecisionsStay DEF Present

(* What a committed edit leaves in a field is what it wanted there, or     *)
(* what there was.                                                         *)
LEMMA CorrectedField ==
    ASSUME Typed, NEW e \in Edits, CommitEdit(e), NEW d \in Present, NEW f \in Fields
    PROVE  txn'[d][f] = IF d \in Writes(e, f) THEN Wanted[e][f] ELSE txn[d][f]
<1>1. d \in Digests /\ txn[d] \in Row  BY DEF Present, Typed, TypeOK
<1>2. txn'[d] = IF d \in Written(e) THEN Corrected(e, d) ELSE txn[d]
  BY <1>1 DEF CommitEdit
<1>3. CASE d \in Written(e)
  <2> DEFINE w == txn[d]
             k == IF d \in Writes(e, "category") THEN Wanted[e].category ELSE w.category
             m == IF d \in Writes(e, "merchant") THEN Wanted[e].merchant ELSE w.merchant
  <2>1. txn'[d] = [w EXCEPT !.category = k, !.merchant = m, !.by = "correction"]
    BY <1>2, <1>3 DEF Corrected
  <2> HIDE DEF k, m, w
  <2>2. txn'[d].category = k /\ txn'[d].merchant = m
    BY <1>1, <2>1 DEF Row, w
  <2> QED  BY <2>2 DEF k, m, w, Fields
<1>4. CASE d \notin Written(e)
  BY <1>2, <1>4 DEF Written
<1> QED  BY <1>3, <1>4

(* A committed edit replaces decisions only in the ways that are allowed. *)
LEMMA CommitDecided ==
    ASSUME Decided, NEW e \in Edits, CommitEdit(e)
    PROVE  CorrectionsSettled' /\ HitsFresh' /\ DecisionStands'
<1> DEFINE new == UNION {{Correction(e, f, d) : d \in Writes(e, f)} : f \in Fields}
<1>1. Typed /\ clock \in Nat /\ began \in [Edits -> 0 .. clock]
      /\ edit \in [Edits -> {"idle", "category", "merchant", "ready", "done", "refused"}]
      /\ hits \in [Edits -> [Fields -> SUBSET Digests]]
  BY DEF Decided, Inv, Typed, TypeOK
<1>2. /\ corrections' = corrections \cup new
      /\ Written(e) \subseteq Present
      /\ edit[e] = "ready" /\ edit' = [edit EXCEPT ![e] = "done"]
      /\ hits' = [hits EXCEPT ![e] = [f \in Fields |-> {}]]
      /\ UNCHANGED <<began, target>>
  BY DEF CommitEdit, Answer
<1>3. \A d \in Present : d \in Present'
  <2>1. \A d \in Digests : txn[d] # Nothing => txn'[d] # Nothing
    BY <1>1, CommitKeepsRows
  <2> QED  BY <2>1 DEF Present
<1>4. ASSUME NEW c \in new
      PROVE  \E f \in Fields : \E d \in Writes(e, f) :
                /\ d \in Present /\ c.txn = d /\ c.field = f /\ c.value = Wanted[e][f]
                /\ c.alone = (e \notin Matching) /\ c.edit = e
                /\ c.began = began[e] /\ c.done = clock + 1
  <2>1. PICK f \in Fields : c \in {Correction(e, f, d) : d \in Writes(e, f)}
    OBVIOUS
  <2>2. PICK d \in Writes(e, f) : c = Correction(e, f, d)
    BY <2>1
  <2>3. d \in Present  BY <1>2 DEF Written
  <2> QED  BY <2>2, <2>3 DEF Correction
<1>5. \A f \in Fields : \A d \in Writes(e, f) : Correction(e, f, d) \in new
  OBVIOUS
<1> HIDE DEF new
<1>6. CorrectionsSettled'
  <2>1. ASSUME NEW c \in corrections'  PROVE c.txn \in Present' /\ edit'[c.edit] = "done"
    <3>1. CASE c \in corrections
      BY <1>1, <1>2, <1>3, <3>1 DEF Decided, CorrectionsSettled
    <3>2. CASE c \in new
      BY <1>1, <1>2, <1>3, <1>4, <3>2
    <3> QED  BY <1>2, <3>1, <3>2
  <2> QED  BY <2>1 DEF CorrectionsSettled
<1>7. HitsFresh'
  <2>1. ASSUME NEW x \in Edits, NEW f \in Fields, NEW d \in hits'[x][f], NEW c \in corrections',
               c.txn = d, c.field = f, c.alone
        PROVE  began'[x] < c.done
    <3>1. x # e /\ d \in hits[x][f]  BY <1>1, <1>2, <2>1
    <3>2. CASE c \in corrections
      BY <1>2, <2>1, <3>1, <3>2 DEF Decided, HitsFresh
    <3>3. CASE c \in new
      BY <1>1, <1>2, <1>4, <3>3
    <3> QED  BY <1>2, <3>2, <3>3
  <2>2. \A x \in Edits, f \in Fields : edit'[x] = "idle" => hits'[x][f] = {}
    BY <1>1, <1>2 DEF Decided, HitsFresh
  <2> QED  BY <2>1, <2>2 DEF HitsFresh
<1>8. DecisionStands'
  <2>1. ASSUME NEW c \in corrections', c.alone, txn'[c.txn][c.field] # c.value
        PROVE  \E o \in corrections' :
                 /\ o.txn = c.txn /\ o.field = c.field /\ o.done > c.done
                 /\ o.alone \/ target'[o.edit] = o.txn \/ o.began < c.done
    <3>1. c \in corrections
      <4>1. SUFFICES ASSUME c \in new  PROVE FALSE  BY <1>2
      <4>2. PICK f \in Fields :
               \E d \in Writes(e, f) :
                  d \in Present /\ c.txn = d /\ c.field = f /\ c.value = Wanted[e][f]
        BY <1>4, <4>1
      <4>3. PICK d \in Writes(e, f) :
               d \in Present /\ c.txn = d /\ c.field = f /\ c.value = Wanted[e][f]
        BY <4>2
      <4> QED  BY <1>1, <2>1, <4>3, CorrectedField
    <3>2. c.txn \in Present /\ c.field \in Fields /\ c.done \in 0 .. clock
      BY <3>1 DEF Decided, CorrectionsSettled, Inv, Typed, TypeOK
    <3>3. CASE c.txn \in Writes(e, c.field)
      <4> DEFINE o == Correction(e, c.field, c.txn)
      <4>1. o \in corrections'  BY <1>2, <1>5, <3>2, <3>3
      <4>2. /\ o.txn = c.txn /\ o.field = c.field /\ o.done = clock + 1
            /\ o.alone = (e \notin Matching) /\ o.edit = e /\ o.began = began[e]
        BY DEF Correction
      <4>3. o.done > c.done  BY <1>1, <3>2, <4>2
      <4>4. CASE c.txn = target[e]
        BY <1>2, <4>1, <4>2, <4>3, <4>4
      <4>5. CASE c.txn # target[e]
        <5>1. c.txn \in hits[e][c.field]  BY <3>3, <4>5 DEF Writes
        <5>2. began[e] < c.done
          BY <2>1, <3>1, <3>2, <5>1 DEF Decided, HitsFresh
        <5> QED  BY <4>1, <4>2, <4>3, <5>2
      <4> QED  BY <4>4, <4>5
    <3>4. CASE c.txn \notin Writes(e, c.field)
      <4>1. txn[c.txn][c.field] # c.value
        BY <1>1, <2>1, <3>2, <3>4, CorrectedField
      <4> QED  BY <1>2, <2>1, <3>1, <4>1 DEF Decided, DecisionStands
    <3> QED  BY <3>3, <3>4
  <2> QED  BY <2>1 DEF DecisionStands
<1> QED  BY <1>6, <1>7, <1>8

(* Loading, gathering and refusing replace no decision. *)
LEMMA RequestDecided ==
    ASSUME Decided, NEW e \in Edits, Edit(e), ~CommitEdit(e)
    PROVE  CorrectionsSettled' /\ HitsFresh' /\ DecisionStands'
<1>1. /\ clock \in Nat /\ began \in [Edits -> 0 .. clock]
      /\ edit \in [Edits -> {"idle", "category", "merchant", "ready", "done", "refused"}]
      /\ hits \in [Edits -> [Fields -> SUBSET Digests]]
      /\ target \in [Edits -> Digests \cup {Nothing}]
      /\ \A c \in corrections : c.edit \in Edits /\ c.field \in Fields /\ c.done \in Nat
  BY DEF Decided, Inv, Typed, TypeOK
<1>2. UNCHANGED <<txn, corrections>> /\ edit[e] # "done"
  BY DEF Edit, LoadTransaction, GatherCategory, GatherMerchant, Gather, RefuseEdit, CommitEdit, tables
<1>3. \A x \in Edits \ {e} : edit'[x] = edit[x] /\ target'[x] = target[x]
  BY <1>1 DEF Edit, LoadTransaction, GatherCategory, GatherMerchant, Gather, RefuseEdit, Answer
<1>4. CorrectionsSettled'
  BY <1>1, <1>2, <1>3 DEF Decided, CorrectionsSettled, Present
<1>5. DecisionStands'
  <2>1. \A c \in corrections : c.edit \in Edits \ {e}
    BY <1>1, <1>2 DEF Decided, CorrectionsSettled
  <2> QED  BY <1>2, <1>3, <2>1 DEF Decided, DecisionStands
<1>6. CASE LoadTransaction(e)
  <2>1. /\ hits' = hits /\ edit[e] = "idle" /\ edit'[e] # "idle"
        /\ \A x \in Edits \ {e} : began'[x] = began[x]
    BY <1>1, <1>6 DEF LoadTransaction
  <2> QED  BY <1>1, <1>2, <1>3, <1>4, <1>5, <2>1 DEF Decided, HitsFresh
<1>7. CASE RefuseEdit(e)
  <2>1. /\ began' = began /\ edit'[e] = "refused"
        /\ hits' = [hits EXCEPT ![e] = [f \in Fields |-> {}]]
    BY <1>1, <1>7 DEF RefuseEdit, Answer
  <2> QED  BY <1>1, <1>2, <1>3, <1>4, <1>5, <2>1 DEF Decided, HitsFresh
<1>8. ASSUME NEW g \in Fields, NEW next \in {"merchant", "ready"}, Gather(e, g, next)
      PROVE  HitsFresh'
  <2> DEFINE new == IF Changes(e, g) THEN Siblings(e, g) \ Protected(e, g) ELSE {}
  <2>1. /\ hits' = [hits EXCEPT ![e][g] = new] /\ began' = began
        /\ edit' = [edit EXCEPT ![e] = next] /\ edit[e] = g
    BY <1>8 DEF Gather
  <2>2. \A d \in new : \A c \in corrections : ~(c.txn = d /\ c.field = g /\ c.alone)
    BY DEF Siblings, Protected
  <2> HIDE DEF new
  <2>3. /\ hits'[e][g] = new
        /\ \A x \in Edits, f \in Fields : x # e \/ f # g => hits'[x][f] = hits[x][f]
    BY <1>1, <2>1
  <2>4. edit'[e] # "idle"  BY <1>1, <2>1
  <2>5. ASSUME NEW x \in Edits, NEW f \in Fields
        PROVE  /\ edit'[x] = "idle" => hits'[x][f] = {}
               /\ \A d \in hits'[x][f] : \A c \in corrections' :
                      c.txn = d /\ c.field = f /\ c.alone => began'[x] < c.done
    <3>1. CASE x = e /\ f = g
      BY <1>2, <2>2, <2>3, <2>4, <3>1
    <3>2. CASE x # e \/ f # g
      BY <1>2, <1>3, <2>1, <2>3, <2>4, <3>2 DEF Decided, HitsFresh
    <3> QED  BY <3>1, <3>2
  <2> QED  BY <2>5 DEF HitsFresh
<1>9. CASE GatherCategory(e) \/ GatherMerchant(e)
  BY <1>4, <1>5, <1>8, <1>9 DEF GatherCategory, GatherMerchant, Fields
<1> QED  BY <1>6, <1>7, <1>9 DEF Edit

(* The deletion takes corrections with their rows, and leaves what the     *)
(* others say.                                                             *)
LEMMA ErasureDecided ==
    ASSUME Decided, Erasure
    PROVE  CorrectionsSettled' /\ HitsFresh' /\ DecisionStands'
<1> USE DEF tables, jobs, edits, erasure
<1>1. CASE EraseUploads
  <2>1. /\ corrections' = {c \in corrections : c.txn \notin doomed}
        /\ UNCHANGED <<clock, edits>>
        /\ txn' = [d \in Digests |->
                      IF d \in doomed \/ txn[d] = Nothing THEN Nothing
                      ELSE [txn[d] EXCEPT !.upload = Nothing]]
    BY <1>1 DEF EraseUploads
  <2>2. \A d \in Present \ doomed : txn'[d] = [txn[d] EXCEPT !.upload = Nothing] /\ txn[d] \in Row
    BY <2>1 DEF Present, Decided, Inv, Typed, TypeOK
  <2>3. \A d \in Present \ doomed :
            d \in Present' /\ txn'[d].category = txn[d].category /\ txn'[d].merchant = txn[d].merchant
    <3> SUFFICES ASSUME NEW d \in Present \ doomed
        PROVE d \in Present' /\ txn'[d].category = txn[d].category /\ txn'[d].merchant = txn[d].merchant
      OBVIOUS
    <3>1. txn'[d] \in Row /\ txn'[d].category = txn[d].category /\ txn'[d].merchant = txn[d].merchant
      BY <2>2 DEF Row
    <3> QED  BY <3>1, LedgerAssumption DEF Present
  <2>4. \A c \in corrections' :
            /\ c \in corrections /\ c.txn \in Present'
            /\ txn'[c.txn][c.field] = txn[c.txn][c.field]
    BY <2>1, <2>3 DEF Decided, CorrectionsSettled, Inv, Typed, TypeOK, Fields
  <2>5. CorrectionsSettled' /\ HitsFresh'
    <3>1. UNCHANGED <<edit, began, hits>>  BY <2>1
    <3>2. CorrectionsSettled'  BY <2>4, <3>1 DEF Decided, CorrectionsSettled
    <3>3. HitsFresh'  BY <2>4, <3>1 DEF Decided, HitsFresh
    <3> QED  BY <3>2, <3>3
  <2>6. DecisionStands'
    BY <2>1, <2>4 DEF Decided, DecisionStands
  <2> QED  BY <2>5, <2>6
<1>2. CASE ~EraseUploads
  <2>1. UNCHANGED <<clock, txn, corrections, edits>>
    BY <1>2 DEF Erasure, BeginErase, EraseRows, EraseJobs, AbortErase
  <2> QED  BY <2>1, DecisionsStay DEF Present
<1> QED  BY <1>1, <1>2

(* What a person set on one row stays until a correction of the row        *)
(* itself, or one that had begun before, replaces it.                      *)
THEOREM DecisionsStand == Spec => []DecisionStands
<1>1. Decided /\ [Next]_vars => Decided'
  <2> SUFFICES ASSUME Decided, [Next]_vars  PROVE Decided'  OBVIOUS
  <2>1. Inv'  BY StepInv DEF Decided
  <2>2. CorrectionsSettled' /\ HitsFresh' /\ DecisionStands'
    <3>1. CASE UNCHANGED vars \/ UpdateAlert
      <4>1. UNCHANGED <<clock, txn, corrections, edits>>
        BY <3>1 DEF vars, UpdateAlert, tables, edits
      <4> QED  BY <4>1, DecisionsStay DEF Present
    <3> QED
      BY <3>1, JobDecided, CommitDecided, RequestDecided, ErasureDecided DEF Next
  <2> QED  BY <2>1, <2>2 DEF Decided
<1>2. Decided => DecisionStands  BY DEF Decided
<1> QED  BY <1>1, <1>2, InitDecided, PTL DEF Spec

-----------------------------------------------------------------------------
(* Whole files.                                                            *)

(* While a job has inserted, each of its lines is among what it inserted   *)
(* or what was committed before.                                           *)
NoneMissing ==
    \A u \in Uploads : at[u] = "inserted" /\ erase # "done" => Payload(u) \subseteq mine[u] \cup Present

Whole == Inv /\ NoneMissing /\ FilesWhole

(* A row that is kept and a job that comes no further keep both. *)
LEMMA WholeStays ==
    ASSUME Whole, Present \subseteq Present' \/ erase' = "done", erase = "done" => erase' = "done",
           \A u \in Uploads : at'[u] = "inserted" =>
               at[u] = "inserted" /\ account'[u] = account[u] /\ mine'[u] = mine[u],
           \A u \in Uploads : at'[u] \in {"analyzing", "detected", "complete"} =>
               at[u] \in {"analyzing", "detected", "complete"}
    PROVE  NoneMissing' /\ FilesWhole'
<1>1. NoneMissing'
  BY DEF Whole, NoneMissing, Payload
<1>2. FilesWhole'
  <2> SUFFICES ASSUME NEW u \in Uploads, at'[u] \in {"analyzing", "detected", "complete"}, erase' # "done"
               PROVE  \E a \in Accounts : \A l \in RowsOf[u] : txn'[<<a, l>>] # Nothing
    BY DEF FilesWhole
  <2>1. PICK a \in Accounts : \A l \in RowsOf[u] : txn[<<a, l>>] # Nothing
    BY DEF Whole, FilesWhole
  <2>2. RowsOf[u] \subseteq Lines  BY LedgerAssumption
  <2>3. \A l \in RowsOf[u] : <<a, l>> \in Present  BY <2>1, <2>2 DEF Present, Digests
  <2>4. \A l \in RowsOf[u] : <<a, l>> \in Present'  BY <2>3
  <2> QED  BY <2>4 DEF Present
<1> QED  BY <1>1, <1>2

(* The steps of a job lose no line of a file. *)
LEMMA JobWhole ==
    ASSUME Whole, NEW u \in Uploads, Job(u)
    PROVE  NoneMissing' /\ FilesWhole'
<1> USE DEF tables, jobs, edits, erasure
<1>1. /\ at \in [Uploads -> {"queued", "parsed", "resolved", "categorizing", "inserted",
                            "analyzing", "detected", "complete", "failed"}]
      /\ account \in [Uploads -> Accounts \cup {Nothing}]
      /\ mine \in [Uploads -> SUBSET Digests]
      /\ txn \in [Digests -> Row \cup {Nothing}]
  BY DEF Whole, Inv, Typed, TypeOK
<1>2. CASE InsertRows(u)
  <2>1. /\ mine' = [mine EXCEPT ![u] = Payload(u) \ Present]
        /\ at' = [at EXCEPT ![u] = "inserted"]
        /\ UNCHANGED <<account, txn, erase>>
    BY <1>2 DEF InsertRows
  <2>2. \A o \in Uploads : Payload(o)' = Payload(o)  BY <2>1 DEF Payload
  <2>3. Payload(u) \subseteq mine'[u] \cup Present  BY <1>1, <2>1
  <2>4. \A o \in Uploads \ {u} : at'[o] = at[o] /\ mine'[o] = mine[o]  BY <1>1, <2>1
  <2>5. Present' = Present  BY <2>1 DEF Present
  <2>6. NoneMissing'
    BY <2>1, <2>2, <2>3, <2>4, <2>5 DEF Whole, NoneMissing
  <2>7. FilesWhole'
    BY <1>1, <2>1, <2>4 DEF Whole, FilesWhole
  <2> QED  BY <2>6, <2>7
<1>3. CASE EnterAnalyzing(u)
  <2>1. /\ txn' = [d \in Digests |-> IF d \in mine[u] THEN Categorized(u, d[2]) ELSE txn[d]]
        /\ mine' = [mine EXCEPT ![u] = {}]
        /\ account' = [account EXCEPT ![u] = Nothing]
        /\ at[u] = "inserted" /\ at' = [at EXCEPT ![u] = "analyzing"]
        /\ UNCHANGED erase
    BY <1>3 DEF EnterAnalyzing
  <2>2. \A d \in mine[u] : txn'[d] # Nothing
    <3> SUFFICES ASSUME NEW d \in mine[u]  PROVE txn'[d] # Nothing  OBVIOUS
    <3>1. d \in Digests /\ d[2] \in Lines  BY <1>1 DEF Digests
    <3>2. Categorized(u, d[2]) \in Row  BY <3>1, CategorizedIsRow DEF Whole, Inv
    <3> QED  BY <2>1, <3>1, <3>2, RowIsSomething
  <2>3. \A d \in Digests : txn[d] # Nothing => txn'[d] # Nothing
    BY <2>1, <2>2
  <2>4. \A o \in Uploads \ {u} : at'[o] = at[o] /\ mine'[o] = mine[o] /\ account'[o] = account[o]
    BY <1>1, <2>1
  <2>5. NoneMissing'
    <3> SUFFICES ASSUME NEW o \in Uploads, at'[o] = "inserted", erase' # "done"
                 PROVE  Payload(o)' \subseteq mine'[o] \cup Present'
      BY DEF NoneMissing
    <3>1. o # u  BY <1>1, <2>1
    <3>2. Payload(o)' = Payload(o)  BY <2>4, <3>1 DEF Payload
    <3>3. Payload(o) \subseteq mine[o] \cup Present
      BY <2>1, <2>4, <3>1 DEF Whole, NoneMissing
    <3>4. Present \subseteq Present'  BY <2>3 DEF Present
    <3> QED  BY <2>4, <3>1, <3>2, <3>3, <3>4
  <2>6. FilesWhole'
    <3> SUFFICES ASSUME NEW o \in Uploads, at'[o] \in {"analyzing", "detected", "complete"}, erase' # "done"
                 PROVE  \E a \in Accounts : \A l \in RowsOf[o] : txn'[<<a, l>>] # Nothing
      BY DEF FilesWhole
    <3>0. RowsOf[o] \subseteq Lines  BY LedgerAssumption
    <3>1. CASE o = u
      <4>1. Payload(u) \subseteq mine[u] \cup Present
        BY <2>1 DEF Whole, NoneMissing
      <4>2. \A d \in Payload(u) : txn'[d] # Nothing
        BY <2>2, <2>3, <4>1 DEF Present
      <4>3. account[u] \in Accounts
        BY <2>1 DEF Whole, Inv, Typed, Underway
      <4>4. \A l \in RowsOf[u] : txn'[<<account[u], l>>] # Nothing
        BY <4>2 DEF Payload
      <4> QED  BY <3>1, <4>3, <4>4
    <3>2. CASE o # u
      <4>1. PICK a \in Accounts : \A l \in RowsOf[o] : txn[<<a, l>>] # Nothing
        BY <2>1, <2>4, <3>2 DEF Whole, FilesWhole
      <4>2. \A l \in RowsOf[o] : <<a, l>> \in Digests  BY <3>0 DEF Digests
      <4> QED  BY <2>3, <4>1, <4>2
    <3> QED  BY <3>1, <3>2
  <2> QED  BY <2>5, <2>6
<1>4. CASE ~InsertRows(u) /\ ~EnterAnalyzing(u)
  <2>1. UNCHANGED <<txn, erase>>
    BY <1>4 DEF Job, Start, StartNothing, ResolveAccount, EnterCategorizing, Detect, CompleteJob, FailJob
  <2>2. /\ at'[u] \notin {"inserted"}
        /\ at'[u] \in {"analyzing", "detected", "complete"} => at[u] \in {"analyzing", "detected", "complete"}
    BY <1>1, <1>4 DEF Job, Start, StartNothing, ResolveAccount, EnterCategorizing, Detect, CompleteJob,
                      FailJob, Retried
  <2>3. \A o \in Uploads \ {u} : at'[o] = at[o] /\ mine'[o] = mine[o] /\ account'[o] = account[o]
    BY <1>1, <1>4 DEF Job, Start, StartNothing, ResolveAccount, EnterCategorizing, Detect, CompleteJob,
                      FailJob
  <2>4. Present' = Present  BY <2>1 DEF Present
  <2>5. /\ \A o \in Uploads : at'[o] = "inserted" =>
               at[o] = "inserted" /\ account'[o] = account[o] /\ mine'[o] = mine[o]
        /\ \A o \in Uploads : at'[o] \in {"analyzing", "detected", "complete"} =>
               at[o] \in {"analyzing", "detected", "complete"}
    BY <2>2, <2>3
  <2> QED  BY <2>1, <2>4, <2>5, WholeStays
<1> QED  BY <1>2, <1>3, <1>4

(* Edits and rulings lose no line, and the deletion all at once. *)
LEMMA OthersWhole ==
    ASSUME Whole, (\E e \in Edits : Edit(e)) \/ UpdateAlert \/ Erasure
    PROVE  NoneMissing' /\ FilesWhole'
<1> USE DEF tables, jobs, edits, erasure
<1>1. UNCHANGED <<account, mine>>
  BY DEF Edit, LoadTransaction, GatherCategory, GatherMerchant, Gather, CommitEdit, RefuseEdit,
         UpdateAlert, Erasure, BeginErase, EraseRows, EraseJobs, EraseUploads, AbortErase
<1>2. \A u \in Uploads : at'[u] = at[u] \/ at'[u] = "failed"
  BY DEF Edit, LoadTransaction, GatherCategory, GatherMerchant, Gather, CommitEdit, RefuseEdit,
         UpdateAlert, Erasure, BeginErase, EraseRows, EraseJobs, EraseUploads, AbortErase
<1>3. erase = "done" => erase' = "done"
  BY DEF Edit, LoadTransaction, GatherCategory, GatherMerchant, Gather, CommitEdit, RefuseEdit,
         UpdateAlert, Erasure, BeginErase, EraseRows, EraseJobs, EraseUploads, AbortErase
<1>4. Present \subseteq Present' \/ erase' = "done"
  <2>1. ASSUME NEW e \in Edits, CommitEdit(e)  PROVE Present \subseteq Present'
    <3>1. \A d \in Digests : txn[d] # Nothing => txn'[d] # Nothing
      BY <2>1, CommitKeepsRows DEF Whole, Inv
    <3> QED  BY <3>1 DEF Present
  <2>2. CASE EraseUploads
    BY <2>2 DEF EraseUploads
  <2>3. CASE ~EraseUploads /\ \A e \in Edits : ~CommitEdit(e)
    BY <2>3 DEF Edit, LoadTransaction, GatherCategory, GatherMerchant, Gather, RefuseEdit,
                UpdateAlert, Erasure, BeginErase, EraseRows, EraseJobs, AbortErase, Present
  <2> QED  BY <2>1, <2>2, <2>3
<1>5. /\ \A u \in Uploads : at'[u] = "inserted" =>
               at[u] = "inserted" /\ account'[u] = account[u] /\ mine'[u] = mine[u]
      /\ \A u \in Uploads : at'[u] \in {"analyzing", "detected", "complete"} =>
               at[u] \in {"analyzing", "detected", "complete"}
  BY <1>1, <1>2
<1> QED  BY <1>3, <1>4, <1>5, WholeStays

(* A file whose rows were committed has every line in one account until    *)
(* the data is deleted, whatever jobs run, are retried or are cut off      *)
(* together and whichever accounts they resolve.                           *)
THEOREM FilesArriveWhole == Spec => []FilesWhole
<1>1. Whole /\ [Next]_vars => Whole'
  <2> SUFFICES ASSUME Whole, [Next]_vars  PROVE Whole'  OBVIOUS
  <2>1. Inv'  BY StepInv DEF Whole
  <2>2. NoneMissing' /\ FilesWhole'
    <3>1. CASE UNCHANGED vars
      <4>1. UNCHANGED <<at, account, mine, txn, erase>>  BY <3>1 DEF vars, tables, jobs, erasure
      <4> QED  BY <4>1, WholeStays DEF Present
    <3> QED  BY <3>1, JobWhole, OthersWhole DEF Next
  <2> QED  BY <2>1, <2>2 DEF Whole
<1>2. Whole => FilesWhole  BY DEF Whole
<1>3. Init => Whole
  <2>1. Init => NoneMissing /\ FilesWhole  BY DEF Init, NoneMissing, FilesWhole
  <2> QED  BY <2>1, InitInv DEF Whole
<1> QED  BY <1>1, <1>2, <1>3, PTL DEF Spec
=============================================================================
