---------------------------- MODULE RedisProofs ----------------------------
(* What is proved of the components that trust Redis with something: the   *)
(* cache of answers, for any requests, corrections and failures; the       *)
(* maintenance lease, for any workers, interval and TTL; and the limiter,  *)
(* with the visitors it lets in and the accounts they get.                 *)
EXTENDS Answers, MaintenanceSchedule, Visits, FiniteSetTheorems, TLAPS

-----------------------------------------------------------------------------
(***************************************************************************)
(* The inductive invariant of the answers.                                 *)
(***************************************************************************)

(* Requests whose watermark is in use. *)
Active == {a \in Asks : at[a] \notin {"idle", "ended"}}

(* The oldest version a request has seen, or will see. *)
Seen(a) ==
    IF at[a] \in {"aggregating", "totalled", "composing", "committing", "storing"}
    THEN oldest[a] ELSE basis[a]

(* The watermarks somebody may meet again: those of requests under way and *)
(* those in the keys of the cache, each with what was computed under it.   *)
Reckonings ==
    {[mark |-> mark[a], seen |-> Seen(a), overtaken |-> overtaken[a]] : a \in Active}
    \cup {[mark |-> c.key[3], seen |-> oldest[c.run], overtaken |-> overtaken[c.run]] : c \in cache}

(* A write that had begun before the newest one counted has ended since. *)
Escaped(h) == \E w \in h.overtaken : w \notin open

(* The data are what was counted. *)
Unmoved(h) ==
    /\ version <= h.seen
    /\ \E y \in Present : UpdatedAt(y) = h.mark[1]
    /\ \A y \in Present : UpdatedAt(y) <= h.mark[1]
    /\ Cardinality(Present) = h.mark[2]

(* A newer write has come, and goes only together with the newest counted. *)
Outdated(h) ==
    \E x \in Present :
        /\ UpdatedAt(x) > h.mark[1]
        /\ x \in doomed => \A y \in Present : UpdatedAt(y) = h.mark[1] => y \in doomed

(* The newest one counted is gone for good. *)
Gone(h) == \A y \in Present : UpdatedAt(y) # h.mark[1]

(* Rows are gone, and none has come. *)
Fewer(h) == Cardinality(Present) < h.mark[2]

(* A watermark that counted rows is never met again over other data,       *)
(* unless a write that began too early escaped it.                         *)
Reckoned(h) ==
    /\ h.mark[1] \in Nat
    /\ h.mark[1] = 0 \/ \E v \in Writes : began[v] = h.mark[1]
    /\ \A w \in open : began[w] # h.mark[1] /\ (began[w] < h.mark[1] => w \in h.overtaken)
    /\ Escaped(h) \/ Unmoved(h) \/ Outdated(h) \/ Gone(h) \/ Fewer(h)

(* Every watermark that counted rows is reckoned with. *)
WatermarksReckoned == \A h \in Reckonings : h.mark[2] # 0 => Reckoned(h)

(* The watermark of no rows is now(), which is nobody else's. *)
EmptyIsOwn ==
    /\ \A a \in Active : mark[a][2] = 0 => mark[a] = <<a, 0>>
    /\ \A c \in cache : c.key[3][2] = 0 => c.key[3] = <<c.run, 0>>

(* What a request may find under its key saw all it has itself counted. *)
FoundIsCurrent ==
    \A a \in Asks : at[a] = "looking" =>
        \A h \in Reckonings :
            h.mark = mark[a] /\ h.mark[2] # 0 => basis[a] <= h.seen \/ Escaped(h)

(* The run a request replays has told its result, and is current. *)
HitIsCurrent ==
    \A a \in Asks : at[a] = "replaying" \/ told[a] = "replayed" =>
        /\ hit[a] \in Asks
        /\ told[hit[a]] = "result"
        /\ basis[a] <= oldest[hit[a]] \/ \E w \in overtaken[hit[a]] : w \notin open

(* Writes that have begun. *)
Begun == {w \in Writes : began[w] # 0}

(* Writes begin one after another, end once, and stay where they went; the *)
(* data change with each that ends and with the deletion.                  *)
WritesOrdered ==
    /\ open \subseteq Begun
    /\ \A v, w \in Begun : began[v] = began[w] => v = w
    /\ \A r \in Rows : data[r] \in Writes =>
          data[r] \in Begun \ open /\ Target[data[r]] = r
    /\ \A w \in Writes : began[w] <= Cardinality(Begun)
    /\ version <= Cardinality(Begun \ open) + IF erase = "done" THEN 1 ELSE 0

(* The rows to be deleted are there until the deletion commits. *)
DoomedPresent ==
    /\ doomed \cap Rows \subseteq Present
    /\ erase \notin {"deleted", "purged"} => doomed = {}

(* What is kept of a request is of the past, and its stream ends once. *)
HistoriesKept ==
    \A a \in Asks :
        /\ told[a] # "nothing" <=> at[a] = "ended"
        /\ basis[a] <= version /\ oldest[a] <= version
        /\ overtaken[a] \subseteq Begun

(* Watermarks, and those in the keys of the cache, which name runs that    *)
(* have told their result.                                                 *)
KeysTyped ==
    /\ mark \in [Asks -> (Asks \cup Nat) \X Nat]
    /\ overtaken \in [Asks -> SUBSET Writes]
    /\ \A c \in cache : /\ c.run \in Asks /\ told[c.run] = "result"
                        /\ c.key[3] \in (Asks \cup Nat) \X Nat

(* A result is told of a run on record. *)
OnRecord ==
    \A a \in Asks :
        told[a] = "result" \/ at[a] = "storing" =>
            saved[a] = "COMPLETE" \/ (saved[a] = Nothing /\ erase = "done")

(* What every step of the answers preserves. *)
IInv ==
    /\ TypeOK /\ KeysTyped
    /\ WritesOrdered /\ DoomedPresent /\ HistoriesKept
    /\ EmptyIsOwn /\ WatermarksReckoned /\ FoundIsCurrent /\ HitIsCurrent
    /\ OnRecord

-----------------------------------------------------------------------------
(***************************************************************************)
(* Numbers and sets.                                                       *)
(***************************************************************************)

(* A non-empty set of natural numbers has a least element. *)
LEMMA LeastNatural ==
    ASSUME NEW T \in SUBSET Nat, T # {}
    PROVE  \E x \in T : \A y \in T : x <= y
<1> DEFINE less == {p \in Nat \X Nat : p[1] < p[2]}
<1>1. IsWellFoundedOn(less, Nat)
  BY NatLessThanWellFounded, Zenon DEF OpToRel
<1>2. PICK x \in T : \A y \in T : <<y, x>> \notin less
  BY <1>1, WFMin, Zenon
<1>3. \A y \in T : ~(y < x)  BY <1>2
<1> QED  BY <1>3

(* Max finds the greatest of a bounded, non-empty set of naturals. *)
LEMMA GreatestIs ==
    ASSUME NEW S \in SUBSET Nat, S # {}, NEW b \in Nat, \A y \in S : y <= b
    PROVE  Max(S) \in S /\ \A y \in S : y <= Max(S)
<1> DEFINE Above == {n \in Nat : \A y \in S : y <= n}
<1>1. PICK n \in Above : \A m \in Above : n <= m  BY LeastNatural
<1>2. n \in S
  <2> SUFFICES ASSUME n \notin S  PROVE FALSE  OBVIOUS
  <2>1. \A y \in S : y < n  BY <1>1
  <2>2. PICK y \in S : TRUE  OBVIOUS
  <2>3. n - 1 \in Above  BY <2>1, <2>2
  <2> QED  BY <1>1, <2>3
<1>3. \A y \in S : n >= y  BY <1>1
<1>4. Max(S) \in S /\ \A y \in S : Max(S) >= y  BY <1>2, <1>3, Zenon DEF Max
<1> QED  BY <1>4

(* Sets of rows and of writes are finite. *)
LEMMA SetsFinite ==
    /\ \A S \in SUBSET Rows : IsFiniteSet(S) /\ Cardinality(S) \in Nat
    /\ \A S \in SUBSET Writes :
          /\ IsFiniteSet(S) /\ Cardinality(S) \in Nat
          /\ Cardinality(S) <= Cardinality(Writes)
BY AnswersAssumption, FS_Subset, FS_CardinalityType

(* The newest write among the rows there are. *)
LEMMA NewestIs ==
    ASSUME TypeOK, WritesOrdered, Present # {}
    PROVE  /\ Newest \in Nat
           /\ \E y \in Present : UpdatedAt(y) = Newest
           /\ \A y \in Present : UpdatedAt(y) <= Newest
<1> DEFINE S == {UpdatedAt(r) : r \in Present}  b == Cardinality(Begun)
<1>1. b \in Nat /\ \A w \in Writes : began[w] \in Nat /\ began[w] <= b
  BY SetsFinite DEF TypeOK, WritesOrdered, Begun
<1>2. \A y \in Present : UpdatedAt(y) \in Nat /\ UpdatedAt(y) <= b
  BY <1>1 DEF TypeOK, Present, UpdatedAt
<1>3. S \in SUBSET Nat /\ S # {} /\ \A n \in S : n <= b  BY <1>2
<1>4. Max(S) \in S /\ \A n \in S : n <= Max(S)
  <2> HIDE DEF S, b
  <2> QED  BY <1>1, <1>3, GreatestIs
<1>5. Newest = Max(S)  BY DEF Newest
<1> QED  BY <1>3, <1>4, <1>5

(* What is there was there from the beginning or comes from a write that   *)
(* has begun and ended.                                                    *)
LEMMA UpdatesAreEnded ==
    ASSUME TypeOK, WritesOrdered, NEW y \in Present
    PROVE  /\ y \in Rows /\ UpdatedAt(y) \in Nat
           /\ data[y] = "held" => UpdatedAt(y) = 0
           /\ data[y] # "held" => /\ data[y] \in Begun \ open
                                  /\ UpdatedAt(y) = began[data[y]]
BY DEF TypeOK, WritesOrdered, Present, UpdatedAt

-----------------------------------------------------------------------------
(***************************************************************************)
(* Steps of the ledger.                                                    *)
(***************************************************************************)

(* A step of a request, and one that only takes entries from the cache. *)
Serve(a) == ReadWatermark(a) \/ Step(a) \/ Cancel(a) \/ Break(a)
Evict == Expire \/ PurgeCache

(* The next-state relation, by who takes the step. *)
LEMMA StepsSplit ==
    ASSUME [Next]_vars
    PROVE  \/ \E a \in Asks : Serve(a)
           \/ \E w \in Writes : BeginWrite(w) \/ CommitWrite(w) \/ AbortWrite(w)
           \/ Evict \/ DeleteRows \/ CommitErase \/ AbortErase
           \/ UNCHANGED vars
BY DEF Next, Write, Serve, Evict

(* Requests read the ledger, and leave it and the deletion alone. *)
LEMMA RequestsOnlyRead ==
    ASSUME NEW a \in Asks, Serve(a)
    PROVE  UNCHANGED <<ledger, script, erasure>>
BY DEF Serve, Step, ReadWatermark, LookUp, Replay, Understand, Select, Aggregate,
        ReadMore, Query,
       Compose, CommitRun, StoreRun, Cancel, Break, ledger, erasure

(* Eviction takes entries and leaves the rest of the answers alone. *)
LEMMA EvictionOnlyTakes ==
    ASSUME Evict
    PROVE  /\ cache' \subseteq cache
           /\ UNCHANGED <<ledger, script, at, reading, saved, told, doomed>>
           /\ erase' = erase \/ (erase = "deleted" /\ erase' = "purged")
BY DEF Evict, Expire, PurgeCache, redis, erasure

(* Writes are numbered as they begin, and counted as they end. *)
LEMMA WritesOrderedPreserved ==
    ASSUME TypeOK, WritesOrdered, [Next]_vars
    PROVE  WritesOrdered' /\ began' \in [Writes -> Nat] /\ version' \in Nat
<1> USE DEF TypeOK, WritesOrdered, ledger
<1>t. /\ Cardinality(Begun) \in Nat /\ Cardinality(Begun \ open) \in Nat
      /\ began \in [Writes -> Nat] /\ version \in Nat
      /\ IsFiniteSet(Begun) /\ IsFiniteSet(Begun \ open)
  BY SetsFinite DEF Versions, Begun
<1>1. ASSUME NEW a \in Asks, Serve(a)
      PROVE  WritesOrdered' /\ began' \in [Writes -> Nat] /\ version' \in Nat
  <2>1. UNCHANGED <<data, began, version, open, erase>>
    BY <1>1, RequestsOnlyRead DEF erasure
  <2>2. Begun' = Begun  BY <2>1 DEF Begun
  <2> QED  BY <1>t, <2>1, <2>2
<1>2. ASSUME NEW w \in Writes, BeginWrite(w)
      PROVE  WritesOrdered' /\ began' \in [Writes -> Nat] /\ version' \in Nat
  <2> DEFINE S == {began[v] : v \in Writes}  n == Cardinality(Begun)
  <2>1. S \in SUBSET Nat /\ S # {} /\ \A y \in S : y <= n  BY <1>t
  <2>2. Max(S) \in S /\ \A y \in S : y <= Max(S)
    <3> HIDE DEF S, n
    <3> QED  BY <1>t, <2>1, GreatestIs DEF n
  <2> DEFINE m == Max(S)
  <2>3. m \in Nat /\ m <= n /\ \A v \in Writes : began[v] <= m  BY <2>1, <2>2
  <2>4. began' = [began EXCEPT ![w] = 1 + m]  BY <1>2 DEF BeginWrite
  <2>0. \A v \in Writes : began'[v] = IF v = w THEN 1 + m ELSE began[v]  BY <1>t, <2>4
  <2>5. Begun' = Begun \cup {w} /\ w \notin Begun /\ began[w] = 0
    <3> HIDE DEF m
    <3>1. began[w] = 0  BY <1>2 DEF BeginWrite
    <3> QED  BY <2>3, <2>0, <3>1 DEF Begun
  <2>6. Cardinality(Begun') = n + 1  BY <1>t, <2>5, FS_AddElement
  <2>7. open' = open \cup {w} /\ data' = data /\ version' = version /\ erase' = erase
    BY <1>2 DEF BeginWrite, erasure
  <2>8. Begun' \ open' = Begun \ open  BY <2>5, <2>7
  <2> HIDE DEF m
  <2>10. began' \in [Writes -> Nat]  BY <1>t, <2>3, <2>4
  <2>11. \A v \in Writes : began'[v] <= Cardinality(Begun')  BY <1>t, <2>3, <2>0, <2>6
  <2>12. \A u, v \in Begun' : began'[u] = began'[v] => u = v
    <3> SUFFICES ASSUME NEW u \in Begun', NEW v \in Begun', began'[u] = began'[v]
                 PROVE  u = v
      OBVIOUS
    <3>1. u \in Writes /\ v \in Writes  BY <2>5 DEF Begun
    <3>2. CASE u = w \/ v = w  BY <1>t, <2>3, <2>0, <3>1, <3>2
    <3>3. CASE u # w /\ v # w
      <4>1. u \in Begun /\ v \in Begun /\ began[u] = began[v]  BY <2>0, <2>5, <3>1, <3>3
      <4> QED  BY <4>1
    <3> QED  BY <3>2, <3>3
  <2>13. \A r \in Rows : data[r] \in Writes => data[r] \in Begun' \ open'  BY <2>8
  <2> QED  BY <1>t, <2>5, <2>7, <2>8, <2>10, <2>11, <2>12, <2>13
<1>3. ASSUME NEW w \in Writes, CommitWrite(w)
      PROVE  WritesOrdered' /\ began' \in [Writes -> Nat] /\ version' \in Nat
  <2>1. Begun' = Begun /\ w \in Begun /\ w \in open /\ Target[w] \in Rows
    BY <1>3, AnswersAssumption DEF CommitWrite, Begun
  <2>2. Begun' \ open' = (Begun \ open) \cup {w}  BY <1>3, <2>1 DEF CommitWrite
  <2>3. Cardinality(Begun' \ open') = Cardinality(Begun \ open) + 1
    <3> DEFINE E == Begun \ open
    <3>1. IsFiniteSet(E) /\ w \notin E  BY <1>t, <2>1
    <3>2. Cardinality(E \cup {w}) = Cardinality(E) + 1
      <4> HIDE DEF E
      <4> QED  BY <3>1, FS_AddElement
    <3> QED  BY <2>2, <3>2
  <2>4. data' = [data EXCEPT ![Target[w]] = w] /\ version' = version + 1 /\ began' = began
        /\ open' = open \ {w} /\ erase' = erase
    BY <1>3 DEF CommitWrite, erasure
  <2>5. \A r \in Rows : data'[r] \in Writes =>
          data'[r] \in Begun' \ open' /\ Target[data'[r]] = r
    BY <2>1, <2>2, <2>4
  <2> QED  BY <1>t, <2>1, <2>3, <2>4, <2>5
<1>4. ASSUME NEW w \in Writes, AbortWrite(w)
      PROVE  WritesOrdered' /\ began' \in [Writes -> Nat] /\ version' \in Nat
  <2>1. Begun' = Begun /\ w \in Begun /\ w \in open  BY <1>4 DEF AbortWrite, Begun
  <2>2. Begun' \ open' = (Begun \ open) \cup {w}  BY <1>4, <2>1 DEF AbortWrite
  <2>3. Cardinality(Begun' \ open') = Cardinality(Begun \ open) + 1
    <3> DEFINE E == Begun \ open
    <3>1. IsFiniteSet(E) /\ w \notin E  BY <1>t, <2>1
    <3>2. Cardinality(E \cup {w}) = Cardinality(E) + 1
      <4> HIDE DEF E
      <4> QED  BY <3>1, FS_AddElement
    <3> QED  BY <2>2, <3>2
  <2> QED  BY <1>4, <1>t, <2>1, <2>2, <2>3 DEF AbortWrite, erasure
<1>5. CASE Evict
  <2>1. /\ UNCHANGED <<data, began, version, open>>
        /\ erase' = erase \/ (erase = "deleted" /\ erase' = "purged")
    BY <1>5, EvictionOnlyTakes
  <2>2. Begun' = Begun  BY <2>1 DEF Begun
  <2> QED  BY <1>t, <2>1, <2>2
<1>6. CASE DeleteRows
  <2>1. Begun' = Begun  BY <1>6 DEF DeleteRows, Begun
  <2> QED  BY <1>6, <1>t, <2>1 DEF DeleteRows
<1>7. CASE CommitErase
  <2>1. Begun' = Begun  BY <1>7 DEF CommitErase, Begun
  <2> QED  BY <1>7, <1>t, <2>1, AnswersAssumption DEF CommitErase
<1>8. CASE AbortErase
  <2>1. Begun' = Begun  BY <1>8 DEF AbortErase, Begun
  <2> QED  BY <1>8, <1>t, <2>1 DEF AbortErase
<1>9. CASE UNCHANGED vars
  <2>1. Begun' = Begun  BY <1>9 DEF vars, Begun
  <2> QED  BY <1>9, <1>t, <2>1 DEF vars, erasure
<1> QED
  BY <1>1, <1>2, <1>3, <1>4, <1>5, <1>6, <1>7, <1>8, <1>9, StepsSplit

(* Doomed rows stay, for a write waits for the deletion. *)
LEMMA DoomedPresentPreserved ==
    ASSUME TypeOK, DoomedPresent, [Next]_vars
    PROVE  DoomedPresent'
<1> USE AnswersAssumption DEF TypeOK, DoomedPresent, Present, ledger, erasure
<1>1. ASSUME NEW a \in Asks, Serve(a)  PROVE DoomedPresent'
  BY <1>1, RequestsOnlyRead
<1>2. ASSUME NEW w \in Writes, BeginWrite(w)  PROVE DoomedPresent'
  BY <1>2 DEF BeginWrite
<1>3. ASSUME NEW w \in Writes, CommitWrite(w)  PROVE DoomedPresent'
  BY <1>3 DEF CommitWrite
<1>4. ASSUME NEW w \in Writes, AbortWrite(w)  PROVE DoomedPresent'
  BY <1>4 DEF AbortWrite
<1>5. CASE Evict  BY <1>5, EvictionOnlyTakes
<1>6. CASE DeleteRows  BY <1>6 DEF DeleteRows
<1>7. CASE CommitErase  BY <1>7 DEF CommitErase
<1>8. CASE AbortErase  BY <1>8 DEF AbortErase
<1>9. CASE UNCHANGED vars  BY <1>9 DEF vars
<1> QED
  BY <1>1, <1>2, <1>3, <1>4, <1>5, <1>6, <1>7, <1>8, <1>9, StepsSplit

-----------------------------------------------------------------------------
(***************************************************************************)
(* Watermarks.                                                             *)
(***************************************************************************)

(* While the rows stay as they are and no write begins, a watermark that   *)
(* was reckoned with still is, be the deletion begun or given up.          *)
LEMMA QuietKeepsReckoned ==
    ASSUME NEW h, Reckoned(h), open' \subseteq open, UNCHANGED <<data, version, began>>,
           doomed' = doomed \/ doomed' = {} \/ Present \subseteq doomed'
    PROVE  Reckoned(h)'
<1>1. Present' = Present  BY DEF Present
<1>2. \A y \in Rows : UpdatedAt(y)' = UpdatedAt(y)  BY DEF UpdatedAt
<1>3. Present \subseteq Rows  BY DEF Present
<1>4. Escaped(h) => Escaped(h)'  BY DEF Escaped
<1>5. Unmoved(h) => Unmoved(h)'  BY <1>1, <1>2, <1>3 DEF Unmoved
<1>6. Outdated(h) => Outdated(h)'  BY <1>1, <1>2, <1>3 DEF Outdated
<1>7. Gone(h) => Gone(h)'  BY <1>1, <1>2, <1>3 DEF Gone
<1>8. Fewer(h) => Fewer(h)'  BY <1>1 DEF Fewer
<1> QED  BY <1>4, <1>5, <1>6, <1>7, <1>8 DEF Reckoned

(* A write that begins is newer than all that was counted. *)
LEMMA BeginKeepsReckoned ==
    ASSUME TypeOK, WritesOrdered, NEW w \in Writes, BeginWrite(w),
           NEW h, Reckoned(h), h.overtaken \subseteq Begun
    PROVE  Reckoned(h)'
<1> DEFINE S == {began[v] : v \in Writes}  n == Cardinality(Begun)  m == Max(S)
<1>0. /\ n \in Nat /\ began \in [Writes -> Nat]
      /\ \A v \in Writes : began[v] <= n
  BY SetsFinite DEF TypeOK, WritesOrdered, Begun
<1>1. S \in SUBSET Nat /\ S # {} /\ \A y \in S : y <= n  BY <1>0
<1>2. m \in S /\ \A y \in S : y <= m
  <2> HIDE DEF S, n
  <2> QED  BY <1>0, <1>1, GreatestIs DEF n
<1>3. m \in Nat /\ \A v \in Writes : began[v] <= m  BY <1>1, <1>2
<1>4. /\ began' = [began EXCEPT ![w] = 1 + m]
      /\ began[w] = 0 /\ open' = open \cup {w} /\ UNCHANGED <<data, version, doomed>>
  BY DEF BeginWrite, erasure
<1> HIDE DEF m
<1>5. \A v \in Writes : began'[v] = IF v = w THEN 1 + m ELSE began[v]  BY <1>0, <1>4
<1>6. w \notin Begun  BY <1>4 DEF Begun
<1>7. Present' = Present  BY <1>4 DEF Present
<1>8. \A y \in Present : UpdatedAt(y)' = UpdatedAt(y)
  <2> TAKE y \in Present
  <2>1. CASE data[y] = "held"  BY <2>1, <1>4 DEF UpdatedAt
  <2>2. CASE data[y] # "held"
    <3>1. data[y] \in Begun  BY <2>2, UpdatesAreEnded
    <3>2. data[y] # w /\ data[y] \in Writes  BY <3>1, <1>6 DEF Begun
    <3>3. began'[data[y]] = began[data[y]]  BY <3>2, <1>5
    <3> QED  BY <2>2, <3>3, <1>4 DEF UpdatedAt
  <2> QED  BY <2>1, <2>2
<1>9. h.mark[1] \in Nat /\ h.mark[1] <= m  BY <1>3 DEF Reckoned
<1>10. h.mark[1] = 0 \/ \E v \in Writes : began'[v] = h.mark[1]
  BY <1>4, <1>5, <1>9 DEF Reckoned
<1>11. \A v \in open' : began'[v] # h.mark[1] /\ (began'[v] < h.mark[1] => v \in h.overtaken)
  <2>1. w \in Writes /\ open \subseteq Begun /\ open \subseteq Writes  BY DEF WritesOrdered, TypeOK
  <2>2. \A v \in open : began'[v] = began[v]  BY <1>5, <1>6, <2>1
  <2>3. \A v \in open : began[v] # h.mark[1] /\ (began[v] < h.mark[1] => v \in h.overtaken)
    BY DEF Reckoned
  <2>4. began'[w] > h.mark[1]  BY <1>3, <1>5, <1>9
  <2> QED  BY <1>3, <1>4, <1>5, <1>9, <2>2, <2>3, <2>4
<1>12. Escaped(h) => Escaped(h)'  BY <1>4, <1>6 DEF Escaped
<1>13. Unmoved(h) => Unmoved(h)'  BY <1>4, <1>7, <1>8 DEF Unmoved
<1>14. Outdated(h) => Outdated(h)'  BY <1>4, <1>7, <1>8 DEF Outdated
<1>15. Gone(h) => Gone(h)'  BY <1>7, <1>8 DEF Gone
<1>16. Fewer(h) => Fewer(h)'  BY <1>7 DEF Fewer
<1> QED  BY <1>9, <1>10, <1>11, <1>12, <1>13, <1>14, <1>15, <1>16 DEF Reckoned

(* A write that commits has escaped, or is newer than all that was counted.*)
LEMMA CommitKeepsReckoned ==
    ASSUME TypeOK, WritesOrdered, NEW w \in Writes, CommitWrite(w), NEW h, Reckoned(h)
    PROVE  Reckoned(h)'
<1> DEFINE x == Target[w]
<1>0. began \in [Writes -> Nat] /\ x \in Rows /\ w # "held" /\ w # Nothing
  BY AnswersAssumption, SetsFinite DEF TypeOK
<1>1. /\ w \in open /\ x \notin doomed
      /\ data' = [data EXCEPT ![x] = w] /\ open' = open \ {w} /\ began' = began /\ doomed' = doomed
  BY DEF CommitWrite, erasure
<1> HIDE DEF x
<1>2. began[w] # h.mark[1] /\ (began[w] < h.mark[1] => w \in h.overtaken) /\ h.mark[1] \in Nat
  BY <1>1 DEF Reckoned
<1>3. CASE began[w] < h.mark[1]
  <2>1. Escaped(h)'  BY <1>1, <1>2, <1>3 DEF Escaped
  <2> QED  BY <1>1, <2>1 DEF Reckoned
<1>4. CASE began[w] > h.mark[1]
  <2>1. data'[x] = w  BY <1>0, <1>1 DEF TypeOK
  <2>2. x \in Present' /\ UpdatedAt(x)' = began[w]
    BY <1>0, <1>1, <2>1 DEF Present, UpdatedAt
  <2>3. Outdated(h)'  BY <1>1, <1>4, <2>2 DEF Outdated
  <2> QED  BY <1>1, <2>3 DEF Reckoned
<1> QED  BY <1>0, <1>2, <1>3, <1>4

(* The deletion takes rows, and with a newer write the newest it follows.  *)
LEMMA EraseKeepsReckoned ==
    ASSUME TypeOK, DoomedPresent, CommitErase, NEW h, h.mark[2] \in Nat, Reckoned(h)
    PROVE  Reckoned(h)'
<1> DEFINE D == doomed \cap Rows
<1>1. /\ data' = [r \in Rows |-> IF r \in doomed THEN Nothing ELSE data[r]]
      /\ UNCHANGED <<began, open>> /\ doomed' = {}
      /\ version' = IF D = {} THEN version ELSE version + 1
  BY DEF CommitErase
<1>2. Present' = Present \ D /\ D \in SUBSET Present /\ Present \in SUBSET Rows
  BY <1>1 DEF Present, DoomedPresent, TypeOK
<1>3. \A y \in Present' : UpdatedAt(y)' = UpdatedAt(y) /\ y \notin doomed /\ y \in Present
  BY <1>1, <1>2 DEF UpdatedAt, Present
<1>4. /\ Cardinality(Present) \in Nat /\ Cardinality(Present') \in Nat
      /\ Cardinality(Present') <= Cardinality(Present)
      /\ D # {} => Cardinality(Present') < Cardinality(Present)
  <2>1. Present' \in SUBSET Present /\ IsFiniteSet(Present)  BY <1>2, SetsFinite
  <2> QED  BY <1>2, <2>1, FS_Subset, FS_CardinalityType
<1>5. Escaped(h) => Escaped(h)'  BY <1>1 DEF Escaped
<1>6. Unmoved(h) => Unmoved(h)' \/ Fewer(h)'
  <2>1. CASE D = {}  BY <1>1, <1>2, <1>3, <2>1 DEF Unmoved
  <2>2. CASE D # {}  BY <1>4, <2>2 DEF Unmoved, Fewer
  <2> QED  BY <2>1, <2>2
<1>7. Outdated(h) => Outdated(h)' \/ Gone(h)'
  <2> SUFFICES ASSUME Outdated(h)  PROVE Outdated(h)' \/ Gone(h)'  OBVIOUS
  <2>1. PICK x \in Present : /\ UpdatedAt(x) > h.mark[1]
                             /\ x \in doomed => \A y \in Present : UpdatedAt(y) = h.mark[1] => y \in doomed
    BY DEF Outdated
  <2>2. CASE x \in doomed  BY <1>3, <2>1, <2>2 DEF Gone
  <2>3. CASE x \notin doomed
    <3>1. x \in Present'  BY <1>2, <2>3
    <3> QED  BY <1>1, <1>3, <2>1, <3>1 DEF Outdated
  <2> QED  BY <2>2, <2>3
<1>8. Gone(h) => Gone(h)'  BY <1>3 DEF Gone
<1>9. Fewer(h) => Fewer(h)'  BY <1>4 DEF Fewer
<1> QED  BY <1>1, <1>5, <1>6, <1>7, <1>8, <1>9 DEF Reckoned

(* Whatever the ledger does, a watermark stays reckoned with. *)
LEMMA ReckonedPreserved ==
    ASSUME TypeOK, WritesOrdered, DoomedPresent, [Next]_vars,
           NEW h, h.mark[2] \in Nat, h.overtaken \subseteq Begun, Reckoned(h)
    PROVE  Reckoned(h)'
<1>1. ASSUME NEW a \in Asks, Serve(a)  PROVE Reckoned(h)'
  BY <1>1, RequestsOnlyRead, QuietKeepsReckoned DEF ledger, erasure
<1>2. ASSUME NEW w \in Writes, BeginWrite(w)  PROVE Reckoned(h)'
  BY <1>2, BeginKeepsReckoned
<1>3. ASSUME NEW w \in Writes, CommitWrite(w)  PROVE Reckoned(h)'
  BY <1>3, CommitKeepsReckoned
<1>4. ASSUME NEW w \in Writes, AbortWrite(w)  PROVE Reckoned(h)'
  BY <1>4, QuietKeepsReckoned DEF AbortWrite, erasure
<1>5. CASE Evict  BY <1>5, EvictionOnlyTakes, QuietKeepsReckoned DEF ledger
<1>6. CASE DeleteRows  BY <1>6, QuietKeepsReckoned DEF DeleteRows, ledger
<1>7. CASE CommitErase  BY <1>7, EraseKeepsReckoned
<1>8. CASE AbortErase  BY <1>8, QuietKeepsReckoned DEF AbortErase, ledger
<1>9. CASE UNCHANGED vars  BY <1>9, QuietKeepsReckoned DEF vars, ledger, erasure
<1> QED
  BY <1>1, <1>2, <1>3, <1>4, <1>5, <1>6, <1>7, <1>8, <1>9, StepsSplit

-----------------------------------------------------------------------------
(***************************************************************************)
(* Steps of the requests.                                                  *)
(***************************************************************************)

(* What is kept of the other requests stays. *)
OthersKept(a) ==
    \A b \in Asks \ {a} :
        UNCHANGED <<at[b], mark[b], basis[b], overtaken[b], hit[b], oldest[b], told[b]>>

(* The stream goes on under its watermark. *)
Goes(a) ==
    /\ at'[a] \notin {"idle", "ended", "looking"}
    /\ UNCHANGED <<cache, mark[a], basis[a], overtaken[a], told[a]>>
    /\ Seen(a) <= Seen(a)' /\ oldest'[a] \in {oldest[a], version}

(* The stream ends; only what has told its result enters the cache. *)
Ends(a) ==
    /\ at'[a] = "ended" /\ told'[a] # "nothing"
    /\ mark'[a] = <<0, 0>> /\ basis'[a] \in {0, basis[a]} /\ oldest'[a] \in {0, oldest[a]}
    /\ overtaken'[a] \in {{}, overtaken[a]}
    /\ hit'[a] = hit[a]
    /\ told'[a] = "replayed" => at[a] = "replaying" /\ basis'[a] = basis[a]
    /\ told'[a] = "result" =>
          at[a] = "storing" /\ oldest'[a] = oldest[a] /\ overtaken'[a] = overtaken[a]
    /\ \/ cache' = cache
       \/ told'[a] = "result" /\ cache' \subseteq cache \cup {[key |-> Key(a), run |-> a]}

(* A request begins with its watermark, goes on or ends. *)
LEMMA RequestsMove ==
    ASSUME TypeOK, KeysTyped, HistoriesKept, NEW a \in Asks, Serve(a)
    PROVE  /\ OthersKept(a)
           /\ ReadWatermark(a) \/ (a \in Active /\ Goes(a)) \/ (a \in Active /\ Ends(a))
<1> USE DEF TypeOK, KeysTyped, HistoriesKept, OthersKept, Active, Goto, Go, ledger, redis
<1>0. /\ basis[a] \in Nat /\ oldest[a] \in Nat /\ version \in Nat
      /\ basis[a] <= version /\ oldest[a] <= version
  BY SetsFinite DEF Versions
<1>1. CASE ReadWatermark(a)  BY <1>1 DEF ReadWatermark
<1>2. CASE LookUp(a)
  BY <1>0, <1>2 DEF LookUp, Goes, Seen
<1>3. CASE Replay(a)
  <2>1. CASE saved[hit[a]] = "COMPLETE"  BY <1>0, <1>3, <2>1 DEF Replay, End, Ends
  <2>2. CASE saved[hit[a]] # "COMPLETE"  BY <1>0, <1>3, <2>2 DEF Replay, Goes, Seen
  <2> QED  BY <2>1, <2>2
<1>4. CASE Understand(a)
  <2>1. CASE Go(a, "selecting")  BY <1>0, <1>4, <2>1 DEF Understand, Goes, Seen
  <2>2. CASE Finish(a, "DECLINED", "declined") \/ Finish(a, "FAILED", "error")
    BY <1>0, <1>4, <2>2 DEF Understand, Finish, End, Ends
  <2> QED  BY <1>4, <2>1, <2>2 DEF Understand
<1>5. CASE Select(a)  BY <1>0, <1>5 DEF Select, Query, Goes, Seen
<1>6. CASE Aggregate(a)  BY <1>0, <1>6 DEF Aggregate, Query, Goes, Seen
<1>7. CASE ReadMore(a)  BY <1>0, <1>7 DEF ReadMore, Query, Goes, Seen
<1>8. CASE Compose(a)  BY <1>0, <1>8 DEF Compose, Goes, Seen
<1>9. CASE CommitRun(a)  BY <1>0, <1>9 DEF CommitRun, Goes, Seen
<1>10. CASE StoreRun(a)
  <2>1. a \in Active /\ at[a] = "storing"  BY <1>10 DEF StoreRun
  <2>2. End(a, "result") /\ hit' = hit  BY <1>10 DEF StoreRun
  <2>3. cache' = cache \/ cache' \subseteq cache \cup {[key |-> Key(a), run |-> a]}
    BY <1>10 DEF StoreRun, Entered
  <2>4. OthersKept(a)  BY <2>2 DEF End
  <2>5. Ends(a)  BY <2>1, <2>2, <2>3 DEF End, Ends
  <2> QED  BY <2>1, <2>4, <2>5
<1>11. CASE Cancel(a)  BY <1>0, <1>11 DEF Cancel, Finish, End, Ends
<1>12. CASE Break(a)  BY <1>0, <1>12 DEF Break, End, Ends
<1> QED
  BY <1>1, <1>2, <1>3, <1>4, <1>5, <1>6, <1>7, <1>8, <1>9, <1>10, <1>11,
          <1>12 DEF Serve, Step

(* The ledger's steps leave the requests and the cache alone. *)
LEMMA LedgerLeavesRequests ==
    ASSUME [Next]_vars
    PROVE  \/ \E a \in Asks : Serve(a)
           \/ /\ cache' \subseteq cache
              /\ UNCHANGED <<at, mark, basis, overtaken, hit, oldest, told>>
<1> USE DEF reading, redis
<1>1. ASSUME NEW w \in Writes, BeginWrite(w) \/ CommitWrite(w) \/ AbortWrite(w)
      PROVE  cache' = cache /\ UNCHANGED <<at, mark, basis, overtaken, hit, oldest, told>>
  BY <1>1 DEF BeginWrite, CommitWrite, AbortWrite
<1>2. CASE Evict  BY <1>2, EvictionOnlyTakes
<1>3. CASE DeleteRows \/ CommitErase \/ AbortErase
  BY <1>3 DEF DeleteRows, CommitErase, AbortErase
<1>4. CASE UNCHANGED vars  BY <1>4 DEF vars
<1> QED  BY <1>1, <1>2, <1>3, <1>4, StepsSplit

(* What is reckoned with has its types, and is of the past. *)
LEMMA ReckoningsTyped ==
    ASSUME TypeOK, KeysTyped, HistoriesKept
    PROVE  \A h \in Reckonings :
              /\ h.mark \in (Asks \cup Nat) \X Nat /\ h.seen \in Nat
              /\ h.overtaken \subseteq Begun
BY SetsFinite DEF Reckonings, Active, Seen, TypeOK, KeysTyped, HistoriesKept, Versions

(* Watermarks come with the requests that read them, and are handed on to  *)
(* the cache.                                                              *)
LEMMA ReckoningsMove ==
    ASSUME TypeOK, KeysTyped, HistoriesKept, [Next]_vars
    PROVE  \A h \in Reckonings' :
              \/ \E g \in Reckonings : /\ g.mark = h.mark /\ g.overtaken = h.overtaken
                                       /\ g.seen <= h.seen
              \/ \E a \in Asks :
                    /\ ReadWatermark(a)
                    /\ h = [mark |-> Watermark(a), seen |-> version, overtaken |-> overtaken'[a]]
<1> DEFINE Old(h) == \E g \in Reckonings : /\ g.mark = h.mark /\ g.overtaken = h.overtaken
                                           /\ g.seen <= h.seen
           New(h) == \E a \in Asks :
                        /\ ReadWatermark(a)
                        /\ h = [mark |-> Watermark(a), seen |-> version, overtaken |-> overtaken'[a]]
           OfRequest(b) == [mark |-> mark[b], seen |-> Seen(b), overtaken |-> overtaken[b]]
           OfEntry(c) == [mark |-> c.key[3], seen |-> oldest[c.run], overtaken |-> overtaken[c.run]]
<1>0. /\ \A b \in Asks : Seen(b) \in Nat /\ oldest[b] \in Nat
      /\ \A b \in Active : OfRequest(b) \in Reckonings
      /\ \A c \in cache : OfEntry(c) \in Reckonings /\ c.run \in Asks /\ at[c.run] = "ended"
  <2>1. \A b \in Asks : Seen(b) \in Nat /\ oldest[b] \in Nat
    BY SetsFinite DEF TypeOK, Versions, Seen
  <2>2. \A b \in Active : OfRequest(b) \in Reckonings  BY DEF Reckonings
  <2>3. \A c \in cache : OfEntry(c) \in Reckonings  BY DEF Reckonings
  <2>4. \A c \in cache : c.run \in Asks /\ at[c.run] = "ended"  BY DEF KeysTyped, HistoriesKept
  <2> QED  BY <2>1, <2>2, <2>3, <2>4
<1> SUFFICES ASSUME NEW h \in Reckonings'  PROVE Old(h) \/ New(h)  OBVIOUS
<1>1. \/ \E b \in Active' : h = OfRequest(b)'
      \/ \E c \in cache' : h = OfEntry(c)'
  BY DEF Reckonings
<1>2. ASSUME NEW a \in Asks, Serve(a)  PROVE Old(h) \/ New(h)
  <2>1. OthersKept(a)  BY <1>2, RequestsMove
  <2>2. \A b \in Asks \ {a} : OfRequest(b)' = OfRequest(b) /\ (b \in Active' => b \in Active)
    BY <2>1 DEF OthersKept, Seen, Active
  <2>3. \A c \in cache : c.run # a => OfEntry(c)' = OfEntry(c)
    BY <1>0, <2>1 DEF OthersKept
  <2>4. at[a] # "ended" => \A c \in cache : c.run # a  BY <1>0
  <2>5. ASSUME NEW b \in Active' \ {a}, h = OfRequest(b)'  PROVE Old(h)
    <3>1. b \in Active /\ h = OfRequest(b)  BY <2>2, <2>5 DEF Active
    <3> QED  BY <1>0, <3>1 DEF Active
  <2>6. ASSUME NEW c \in cache, c.run # a, h = OfEntry(c)'  PROVE Old(h)
    <3>1. h = OfEntry(c)  BY <2>3, <2>6
    <3> QED  BY <1>0, <3>1
  <2>7. CASE ReadWatermark(a)
    <3>1. at[a] # "ended" /\ cache' = cache  BY <2>7 DEF ReadWatermark, redis
    <3>2. ASSUME h = OfRequest(a)'  PROVE New(h)
      <4>1. Seen(a)' = version  BY <2>7 DEF ReadWatermark, Seen, Goto, TypeOK
      <4>2. mark'[a] = Watermark(a)  BY <2>7 DEF ReadWatermark, KeysTyped
      <4> QED  BY <2>7, <3>2, <4>1, <4>2
    <3> QED  BY <1>1, <2>4, <2>5, <2>6, <3>1, <3>2
  <2>8. CASE a \in Active /\ Goes(a)
    <3>1. at[a] # "ended" /\ cache' = cache  BY <2>8 DEF Goes, Active
    <3>2. ASSUME h = OfRequest(a)'  PROVE Old(h)
      <4>1. h.mark = mark[a] /\ h.overtaken = overtaken[a] /\ Seen(a) <= h.seen
        BY <2>8, <3>2 DEF Goes
      <4> QED  BY <1>0, <2>8, <4>1
    <3> QED  BY <1>1, <2>4, <2>5, <2>6, <3>1, <3>2
  <2>9. CASE a \in Active /\ Ends(a)
    <3>1. at[a] # "ended" /\ a \notin Active'  BY <2>9 DEF Ends, Active
    <3>2. ASSUME NEW c \in cache', c \notin cache, h = OfEntry(c)'  PROVE Old(h)
      <4>1. c = [key |-> Key(a), run |-> a] /\ told'[a] = "result"  BY <2>9, <3>2 DEF Ends
      <4>2. /\ at[a] = "storing" /\ oldest'[a] = oldest[a] /\ overtaken'[a] = overtaken[a]
        BY <2>9, <4>1 DEF Ends
      <4>3. c.key[3] = mark[a] /\ c.run = a  BY <4>1 DEF Key
      <4>4. h = OfRequest(a)  BY <3>2, <4>2, <4>3 DEF Seen
      <4> QED  BY <1>0, <2>9, <4>4
    <3> QED  BY <1>1, <2>4, <2>5, <2>6, <3>1, <3>2
  <2> QED  BY <1>2, <2>7, <2>8, <2>9, RequestsMove
<1>3. CASE cache' \subseteq cache /\ UNCHANGED <<at, mark, basis, overtaken, hit, oldest, told>>
  <2>1. \A b \in Asks : OfRequest(b)' = OfRequest(b) /\ (b \in Active' => b \in Active)
    BY <1>3 DEF Seen, Active
  <2>2. \A c \in cache : OfEntry(c)' = OfEntry(c)  BY <1>3
  <2>3. h \in Reckonings
    <3>1. ASSUME NEW b \in Active', h = OfRequest(b)'  PROVE h \in Reckonings
      <4>1. b \in Active /\ h = OfRequest(b)  BY <2>1, <3>1 DEF Active
      <4> QED  BY <1>0, <4>1
    <3>2. ASSUME NEW c \in cache', h = OfEntry(c)'  PROVE h \in Reckonings
      <4>1. c \in cache /\ h = OfEntry(c)  BY <1>3, <2>2, <3>2
      <4> QED  BY <1>0, <4>1
    <3> QED  BY <1>1, <3>1, <3>2
  <2>4. h.seen \in Nat  BY <2>3, ReckoningsTyped
  <2> QED  BY <2>3, <2>4
<1> QED  BY <1>2, <1>3, LedgerLeavesRequests

-----------------------------------------------------------------------------
(***************************************************************************)
(* The invariant, part by part.                                            *)
(***************************************************************************)

(* Versions grow, writes stay begun and ended ones stay ended. *)
LEMMA LedgerGrows ==
    ASSUME TypeOK, WritesOrdered, [Next]_vars
    PROVE  /\ version \in Nat /\ version' \in Nat /\ version <= version'
           /\ Begun \subseteq Begun'
           /\ \A w \in Begun : w \notin open => w \notin open'
<1> USE DEF ledger, erasure
<1>0. /\ version \in Nat /\ version' \in Nat /\ began' \in [Writes -> Nat]
      /\ began \in [Writes -> Nat]
  BY SetsFinite, WritesOrderedPreserved DEF TypeOK, Versions
<1>1. ASSUME NEW a \in Asks, Serve(a)
      PROVE  version <= version' /\ UNCHANGED <<began, open>>
  BY <1>0, <1>1, RequestsOnlyRead
<1>2. ASSUME NEW w \in Writes, BeginWrite(w)
      PROVE  /\ version <= version' /\ w \notin Begun /\ open' = open \cup {w}
             /\ \A v \in Writes \ {w} : began'[v] = began[v]
  BY <1>0, <1>2 DEF BeginWrite, Begun
<1>3. ASSUME NEW w \in Writes, CommitWrite(w) \/ AbortWrite(w)
      PROVE  version <= version' /\ began' = began /\ open' \subseteq open
  BY <1>0, <1>3 DEF CommitWrite, AbortWrite
<1>4. CASE Evict  BY <1>0, <1>4, EvictionOnlyTakes DEF Begun
<1>5. CASE DeleteRows \/ CommitErase \/ AbortErase
  BY <1>0, <1>5 DEF DeleteRows, CommitErase, AbortErase, Begun
<1>6. CASE UNCHANGED vars  BY <1>0, <1>6 DEF vars, Begun
<1>7. ASSUME NEW w \in Writes, BeginWrite(w)
      PROVE  Begun \subseteq Begun' /\ \A v \in Begun : v \notin open => v \notin open'
  BY <1>2, <1>7 DEF Begun
<1> QED  BY <1>0, <1>1, <1>2, <1>3, <1>4, <1>5, <1>6, <1>7, StepsSplit DEF Begun

(* What is there was counted by a watermark, or nothing was. *)
LEMMA WatermarkIs ==
    ASSUME TypeOK, WritesOrdered, NEW a
    PROVE  /\ Watermark(a)[2] \in Nat
           /\ Watermark(a)[2] = 0 => Watermark(a) = <<a, 0>>
           /\ Watermark(a)[2] # 0 =>
                /\ Present # {} /\ Watermark(a)[1] = Newest /\ Newest \in Nat
                /\ Cardinality(Present) = Watermark(a)[2]
<1>1. CASE Present = {}  BY <1>1 DEF Watermark
<1>2. CASE Present # {}
  <2>1. Present \in SUBSET Rows  BY DEF Present
  <2>2. IsFiniteSet(Present) /\ Cardinality(Present) \in Nat  BY <2>1, SetsFinite
  <2>3. Cardinality(Present) # 0  BY <1>2, <2>2, FS_EmptySet
  <2>4. Newest \in Nat  BY <1>2, NewestIs
  <2> QED  BY <1>2, <2>2, <2>3, <2>4 DEF Watermark
<1> QED  BY <1>1, <1>2

(* The requests, the cache and the deletion keep their types. *)
LEMMA TypePreserved ==
    ASSUME TypeOK, KeysTyped, WritesOrdered, WritesOrdered', [Next]_vars
    PROVE  TypeOK'
<1> USE DEF Goto, Go, End, Finish, ledger, redis, reading, erasure
<1>b. /\ began' \in [Writes -> 0 .. Cardinality(Writes)]
      /\ version' \in Versions
  <2>1. began' \in [Writes -> Nat] /\ version' \in Nat  BY WritesOrderedPreserved
  <2>2. /\ Begun' \in SUBSET Writes /\ Begun' \ open' \in SUBSET Writes
    BY DEF Begun
  <2>3. /\ Cardinality(Begun') \in Nat /\ Cardinality(Begun') <= Cardinality(Writes)
        /\ Cardinality(Begun' \ open') \in Nat
        /\ Cardinality(Begun' \ open') <= Cardinality(Writes)
        /\ Cardinality(Writes) \in Nat
    BY <2>2, SetsFinite
  <2>4. \A w \in Writes : began'[w] <= Cardinality(Begun')  BY DEF WritesOrdered
  <2>5. version' <= Cardinality(Begun' \ open') + 1  BY <2>1, <2>3 DEF WritesOrdered
  <2> QED  BY <2>1, <2>3, <2>4, <2>5 DEF Versions
<1>v. 0 \in Versions  BY SetsFinite DEF Versions
<1> USE AnswersAssumption, <1>b, <1>v
<1> USE DEF TypeOK
<1>1. ASSUME NEW a \in Asks, ReadWatermark(a)  PROVE TypeOK'  BY <1>1 DEF ReadWatermark
<1>2. ASSUME NEW a \in Asks, LookUp(a)  PROVE TypeOK'  BY <1>2 DEF LookUp
<1>3. ASSUME NEW a \in Asks, Replay(a)  PROVE TypeOK'  BY <1>3 DEF Replay
<1>4. ASSUME NEW a \in Asks, Understand(a)  PROVE TypeOK'  BY <1>4 DEF Understand
<1>5. ASSUME NEW a \in Asks, Select(a)  PROVE TypeOK'  BY <1>5 DEF Select, Query
<1>6. ASSUME NEW a \in Asks, Aggregate(a)  PROVE TypeOK'  BY <1>6 DEF Aggregate, Query
<1>7. ASSUME NEW a \in Asks, ReadMore(a)  PROVE TypeOK'  BY <1>7 DEF ReadMore, Query
<1>8. ASSUME NEW a \in Asks, Compose(a)  PROVE TypeOK'  BY <1>8 DEF Compose
<1>9. ASSUME NEW a \in Asks, CommitRun(a)  PROVE TypeOK'  BY <1>9 DEF CommitRun
<1>10. ASSUME NEW a \in Asks, StoreRun(a)  PROVE TypeOK'  BY <1>10 DEF StoreRun, Entered
<1>11. ASSUME NEW a \in Asks, Cancel(a)  PROVE TypeOK'  BY <1>11 DEF Cancel
<1>12. ASSUME NEW a \in Asks, Break(a)  PROVE TypeOK'  BY <1>12 DEF Break
<1>13. ASSUME NEW w \in Writes, BeginWrite(w)  PROVE TypeOK'  BY <1>13 DEF BeginWrite
<1>14. ASSUME NEW w \in Writes, CommitWrite(w)  PROVE TypeOK'  BY <1>14 DEF CommitWrite
<1>15. ASSUME NEW w \in Writes, AbortWrite(w)  PROVE TypeOK'  BY <1>15 DEF AbortWrite
<1>16. CASE Expire  BY <1>16 DEF Expire
<1>17. CASE DeleteRows  BY <1>17 DEF DeleteRows, Present
<1>18. CASE PurgeCache  BY <1>18 DEF PurgeCache
<1>19. CASE CommitErase  BY <1>19 DEF CommitErase
<1>20. CASE AbortErase  BY <1>20 DEF AbortErase
<1>21. CASE UNCHANGED vars  BY <1>21 DEF vars
<1> QED
  BY <1>1, <1>2, <1>3, <1>4, <1>5, <1>6, <1>7, <1>8, <1>9, <1>10, <1>11, <1>12, <1>13,
     <1>14, <1>15, <1>16, <1>17, <1>18, <1>19, <1>20, <1>21 DEF Next, Step, Write

(* Keys name runs that have told their result. *)
LEMMA KeysPreserved ==
    ASSUME TypeOK, KeysTyped, WritesOrdered, HistoriesKept, [Next]_vars
    PROVE  KeysTyped'
<1> USE DEF KeysTyped
<1>1. ASSUME NEW a \in Asks, Serve(a)  PROVE KeysTyped'
  <2>1. mark' \in [Asks -> (Asks \cup Nat) \X Nat] /\ overtaken' \in [Asks -> SUBSET Writes]
    <3>1. CASE ReadWatermark(a)
      <4>1. Watermark(a) \in (Asks \cup Nat) \X Nat
        BY NewestIs, SetsFinite DEF Watermark, Present
      <4>2. open \subseteq Writes  BY DEF TypeOK
      <4> QED  BY <3>1, <4>1, <4>2 DEF ReadWatermark
    <3>2. CASE mark' = mark /\ overtaken' = overtaken  BY <3>2
    <3>3. CASE \E how \in {"replayed", "result", "declined", "cancelled", "error"} : End(a, how)
      BY <3>3 DEF End
    <3> QED
      BY <1>1, <3>1, <3>2, <3>3
      DEF Serve, Step, LookUp, Replay, Understand, Select, Aggregate, ReadMore, Query, Compose,
          CommitRun, StoreRun, Cancel, Break, Finish, Go
  <2>2. ASSUME NEW c \in cache, at[a] # "ended"  PROVE told'[c.run] = "result"
    <3>1. c.run # a  BY <2>2 DEF HistoriesKept
    <3> QED  BY <1>1, <3>1, RequestsMove DEF OthersKept
  <2>3. CASE cache' = cache
    <3>1. at[a] # "ended"
      BY <1>1, RequestsMove DEF ReadWatermark, Active
    <3> QED  BY <2>1, <2>2, <2>3, <3>1
  <2>4. CASE cache' # cache
    <3>1. a \in Active /\ Ends(a)
      BY <1>1, <2>4, RequestsMove DEF ReadWatermark, Goes, redis
    <3>2. at[a] # "ended" /\ told'[a] = "result"
          /\ cache' \subseteq cache \cup {[key |-> Key(a), run |-> a]}
      BY <2>4, <3>1 DEF Ends, Active
    <3>3. Key(a)[3] \in (Asks \cup Nat) \X Nat  BY DEF Key
    <3> QED  BY <2>1, <2>2, <3>2, <3>3
  <2> QED  BY <2>3, <2>4
<1>2. CASE cache' \subseteq cache /\ UNCHANGED <<at, mark, basis, overtaken, hit, oldest, told>>
  BY <1>2
<1> QED  BY <1>1, <1>2, LedgerLeavesRequests

(* A request's history is of the past, and its stream ends once. *)
LEMMA HistoriesPreserved ==
    ASSUME TypeOK, KeysTyped, WritesOrdered, HistoriesKept, [Next]_vars
    PROVE  HistoriesKept'
<1> USE LedgerGrows DEF HistoriesKept
<1>0. \A a \in Asks : basis[a] \in Nat /\ oldest[a] \in Nat
  BY SetsFinite DEF TypeOK, Versions
<1>1. ASSUME NEW a \in Asks, Serve(a)  PROVE HistoriesKept'
  <2>1. ASSUME NEW b \in Asks \ {a}
        PROVE  /\ told'[b] # "nothing" <=> at'[b] = "ended"
               /\ basis'[b] <= version' /\ oldest'[b] <= version'
               /\ overtaken'[b] \subseteq Begun'
    BY <1>0, <1>1, RequestsMove DEF OthersKept
  <2>2. /\ told'[a] # "nothing" <=> at'[a] = "ended"
        /\ basis'[a] <= version' /\ oldest'[a] <= version'
        /\ overtaken'[a] \subseteq Begun'
    <3>1. CASE ReadWatermark(a)
      BY <1>0, <3>1 DEF ReadWatermark, Goto, TypeOK, KeysTyped, WritesOrdered
    <3>2. CASE a \in Active /\ Goes(a)
      <4>1. at[a] # "ended" /\ at'[a] # "ended" /\ UNCHANGED <<basis[a], overtaken[a], told[a]>>
            /\ oldest'[a] \in {oldest[a], version}
        BY <3>2 DEF Active, Goes
      <4> QED  BY <1>0, <4>1
    <3>3. CASE a \in Active /\ Ends(a)  BY <1>0, <3>3 DEF Ends
    <3> QED  BY <1>1, <3>1, <3>2, <3>3, RequestsMove
  <2> QED  BY <2>1, <2>2
<1>2. CASE cache' \subseteq cache /\ UNCHANGED <<at, mark, basis, overtaken, hit, oldest, told>>
  BY <1>0, <1>2
<1> QED  BY <1>1, <1>2, LedgerLeavesRequests

(* Requests that count no rows have a watermark of their own. *)
LEMMA EmptyIsOwnPreserved ==
    ASSUME TypeOK, KeysTyped, WritesOrdered, HistoriesKept, EmptyIsOwn, [Next]_vars
    PROVE  EmptyIsOwn'
<1> USE DEF EmptyIsOwn
<1>1. ASSUME NEW a \in Asks, Serve(a)  PROVE EmptyIsOwn'
  <2>1. ASSUME NEW b \in Active' \ {a}, mark'[b][2] = 0  PROVE mark'[b] = <<b, 0>>
    <3>1. b \in Active /\ mark'[b] = mark[b]  BY <1>1, RequestsMove DEF OthersKept, Active
    <3> QED  BY <2>1, <3>1
  <2>2. CASE ReadWatermark(a)
    <3>1. cache' = cache /\ mark'[a] = Watermark(a)
      BY <2>2 DEF ReadWatermark, redis, KeysTyped
    <3> QED  BY <2>1, <3>1, WatermarkIs
  <2>3. CASE a \in Active /\ Goes(a)
    <3>1. cache' = cache /\ mark'[a] = mark[a]  BY <2>3 DEF Goes
    <3> QED  BY <2>1, <2>3, <3>1
  <2>4. CASE a \in Active /\ Ends(a)
    <3>1. a \notin Active' /\ cache' \subseteq cache \cup {[key |-> Key(a), run |-> a]}
      BY <2>4 DEF Ends, Active
    <3>2. Key(a)[3] = mark[a]  BY DEF Key
    <3> QED  BY <2>1, <2>4, <3>1, <3>2
  <2> QED  BY <1>1, <2>2, <2>3, <2>4, RequestsMove
<1>2. CASE cache' \subseteq cache /\ UNCHANGED <<at, mark, basis, overtaken, hit, oldest, told>>
  BY <1>2 DEF Active
<1> QED  BY <1>1, <1>2, LedgerLeavesRequests

(* A watermark is reckoned with from the moment it is read. *)
LEMMA NewIsReckoned ==
    ASSUME TypeOK, WritesOrdered, WritesOrdered', KeysTyped, NEW a \in Asks,
            ReadWatermark(a),
           NEW h, h = [mark |-> Watermark(a), seen |-> version, overtaken |-> overtaken'[a]],
           h.mark[2] # 0
    PROVE  Reckoned(h)'
<1>1. /\ Present # {} /\ h.mark[1] = Newest /\ Newest \in Nat
      /\ Cardinality(Present) = h.mark[2]
  BY WatermarkIs
<1>2. UNCHANGED <<data, version, began, open, doomed>>
  BY DEF ReadWatermark, ledger, erasure
<1>3. h.overtaken = {w \in open : began[w] < Newest}
  BY <1>1 DEF ReadWatermark, KeysTyped
<1>4. PICK y \in Present : UpdatedAt(y) = Newest  BY <1>1, NewestIs
<1>5. \A z \in Present : UpdatedAt(z) <= Newest  BY <1>1, NewestIs
<1>6. Newest = 0 \/ \E v \in Begun \ open : began[v] = Newest
  BY <1>4, UpdatesAreEnded
<1>7. \A w \in open : began[w] # Newest
  BY <1>6 DEF WritesOrdered, Begun
<1>8. Unmoved(h)
  <2>1. version <= h.seen  BY SetsFinite DEF TypeOK, Versions
  <2> QED  BY <1>1, <1>4, <1>5, <2>1 DEF Unmoved
<1>9. Reckoned(h)
  <2>1. h.mark[1] = 0 \/ \E v \in Writes : began[v] = h.mark[1]  BY <1>1, <1>6 DEF Begun
  <2>2. \A w \in open : began[w] # h.mark[1] /\ (began[w] < h.mark[1] => w \in h.overtaken)
    BY <1>1, <1>3, <1>7
  <2> QED  BY <1>1, <1>8, <2>1, <2>2 DEF Reckoned
<1> QED  BY <1>2, <1>9, QuietKeepsReckoned

(* A later first look is as good. *)
LEMMA LaterIsReckoned ==
    ASSUME NEW g, NEW h, Reckoned(g)', g.mark = h.mark, g.overtaken = h.overtaken,
           g.seen <= h.seen, g.seen \in Nat, h.seen \in Nat, version' \in Nat
    PROVE  Reckoned(h)'
<1>1. Unmoved(g)' => Unmoved(h)'  BY DEF Unmoved
<1>2. Escaped(g)' => Escaped(h)'  BY DEF Escaped
<1>3. Outdated(g)' => Outdated(h)'  BY DEF Outdated
<1>4. Gone(g)' => Gone(h)'  BY DEF Gone
<1>5. Fewer(g)' => Fewer(h)'  BY DEF Fewer
<1> QED  BY <1>1, <1>2, <1>3, <1>4, <1>5 DEF Reckoned

(* Every watermark stays reckoned with. *)
LEMMA WatermarksPreserved ==
    ASSUME TypeOK, TypeOK', KeysTyped, KeysTyped', WritesOrdered, WritesOrdered',
            DoomedPresent,
           HistoriesKept, HistoriesKept', WatermarksReckoned, [Next]_vars
    PROVE  WatermarksReckoned'
<1> SUFFICES ASSUME NEW h \in Reckonings', h.mark[2] # 0
             PROVE  Reckoned(h)'
  BY DEF WatermarksReckoned
<1>0. h.seen \in Nat /\ version' \in Nat
  <2>1. \A a \in Asks : basis'[a] \in Nat /\ oldest'[a] \in Nat
    BY SetsFinite DEF TypeOK, Versions
  <2>2. \A a \in Asks : Seen(a)' \in Nat  BY <2>1 DEF Seen
  <2>3. \A c \in cache' : c.run \in Asks  BY DEF TypeOK
  <2> QED  BY <2>1, <2>2, <2>3, LedgerGrows DEF Reckonings, Active
<1>1. ASSUME NEW g \in Reckonings, g.mark = h.mark, g.overtaken = h.overtaken,
        g.seen <= h.seen
      PROVE  Reckoned(h)'
  <2>1. g.mark[2] \in Nat /\ g.overtaken \subseteq Begun /\ g.seen \in Nat
    BY ReckoningsTyped
  <2>2. Reckoned(g)  BY <1>1 DEF WatermarksReckoned
  <2>3. Reckoned(g)'  BY <2>1, <2>2, ReckonedPreserved
  <2> QED  BY <1>0, <1>1, <2>1, <2>3, LaterIsReckoned
<1>2. ASSUME NEW a \in Asks, ReadWatermark(a),
             h = [mark |-> Watermark(a), seen |-> version, overtaken |-> overtaken'[a]]
      PROVE  Reckoned(h)'
  BY <1>2, NewIsReckoned
<1> QED  BY <1>1, <1>2, ReckoningsMove

(* What a request finds under the watermark it has read is current. *)
LEMMA FoundPreserved ==
    ASSUME TypeOK, KeysTyped, WritesOrdered, HistoriesKept, WatermarksReckoned,
            FoundIsCurrent,
           [Next]_vars
    PROVE  FoundIsCurrent'
<1> SUFFICES ASSUME NEW b \in Asks, at'[b] = "looking",
                    NEW h \in Reckonings', h.mark = mark'[b], h.mark[2] # 0
             PROVE  basis'[b] <= h.seen \/ Escaped(h)'
  BY DEF FoundIsCurrent
<1>0. version \in Nat /\ \A a \in Asks : basis[a] \in Nat /\ basis[a] <= version
  BY LedgerGrows, SetsFinite DEF TypeOK, Versions, HistoriesKept
<1>1. ASSUME NEW g \in Reckonings, g.mark = h.mark, g.overtaken = h.overtaken,
        g.seen <= h.seen
      PROVE  /\ g.seen \in Nat
             /\ Escaped(g) => Escaped(h)'
  BY <1>1, ReckoningsTyped, LedgerGrows DEF Escaped
<1>s. h.seen \in Int
  <2>1. \A a \in Asks : basis'[a] \in Nat /\ oldest'[a] \in Nat
    BY TypePreserved, WritesOrderedPreserved, SetsFinite DEF TypeOK, Versions
  <2>2. \A a \in Asks : Seen(a)' \in Nat  BY <2>1 DEF Seen
  <2>3. \A c \in cache' : c.run \in Asks
    BY TypePreserved, WritesOrderedPreserved DEF TypeOK
  <2> QED  BY <2>1, <2>2, <2>3 DEF Reckonings, Active
<1>2. ASSUME NEW a \in Asks, ReadWatermark(a), b = a
      PROVE  basis'[b] <= h.seen \/ Escaped(h)'
  <2>1. basis'[b] = version /\ mark'[b] = Watermark(b)
    BY <1>2 DEF ReadWatermark, TypeOK, KeysTyped
  <2>2. /\ Present # {} /\ h.mark[1] = Newest /\ Newest \in Nat
        /\ Cardinality(Present) = h.mark[2]
    BY <2>1, WatermarkIs
  <2>3. ASSUME NEW g \in Reckonings, g.mark = h.mark, g.overtaken = h.overtaken,
          g.seen <= h.seen
        PROVE  version <= h.seen \/ Escaped(h)'
    <3>1. Reckoned(g)  BY <2>3 DEF WatermarksReckoned
    <3>2. ~Fewer(g)
      <4>1. Cardinality(Present) \in Nat  BY SetsFinite DEF Present
      <4> QED  BY <2>2, <2>3, <4>1 DEF Fewer
    <3>3. ~Gone(g) /\ ~Outdated(g)
      <4>1. \E y \in Present : UpdatedAt(y) = Newest  BY <2>2, NewestIs
      <4>2. \A y \in Present : UpdatedAt(y) \in Nat /\ UpdatedAt(y) <= Newest
        BY <2>2, NewestIs, UpdatesAreEnded
      <4> QED  BY <2>2, <2>3, <4>1, <4>2 DEF Gone, Outdated
    <3>4. CASE Unmoved(g)  BY <1>0, <1>1, <1>s, <2>3, <3>4 DEF Unmoved
    <3>5. CASE Escaped(g)  BY <1>1, <2>3, <3>5
    <3> QED  BY <3>1, <3>2, <3>3, <3>4, <3>5 DEF Reckoned
  <2>4. ASSUME NEW c \in Asks,
               h = [mark |-> Watermark(c), seen |-> version, overtaken |-> overtaken'[c]]
        PROVE  version <= h.seen
    BY <1>0, <2>4
  <2> QED  BY <2>1, <2>3, <2>4, ReckoningsMove
<1>3. ASSUME at[b] = "looking", mark'[b] = mark[b], basis'[b] = basis[b]
      PROVE  basis'[b] <= h.seen \/ Escaped(h)'
  <2>1. ASSUME NEW g \in Reckonings, g.mark = h.mark, g.overtaken = h.overtaken,
          g.seen <= h.seen
        PROVE  basis[b] <= h.seen \/ Escaped(h)'
    <3>1. basis[b] <= g.seen \/ Escaped(g)  BY <1>3, <2>1 DEF FoundIsCurrent
    <3> QED  BY <1>0, <1>1, <1>s, <2>1, <3>1
  <2>2. ASSUME NEW c \in Asks,
               h = [mark |-> Watermark(c), seen |-> version, overtaken |-> overtaken'[c]]
        PROVE  basis[b] <= h.seen
    BY <1>0, <2>2
  <2> QED  BY <1>3, <2>1, <2>2, ReckoningsMove
<1>4. ASSUME NEW a \in Asks, Serve(a)  PROVE basis'[b] <= h.seen \/ Escaped(h)'
  <2>1. CASE b # a
    <3>1. at[b] = "looking" /\ mark'[b] = mark[b] /\ basis'[b] = basis[b]
      BY <1>4, <2>1, RequestsMove DEF OthersKept
    <3> QED  BY <1>3, <3>1
  <2>2. CASE b = a
    <3>1. ReadWatermark(a)  BY <1>4, <2>2, RequestsMove DEF Goes, Ends
    <3> QED  BY <1>2, <2>2, <3>1
  <2> QED  BY <2>1, <2>2
<1>5. CASE UNCHANGED <<at, mark, basis, overtaken, hit, oldest, told>>
  BY <1>3, <1>5
<1> QED  BY <1>4, <1>5, LedgerLeavesRequests

(* What was found stays as current as it was. *)
LEMMA HitPreserved ==
    ASSUME TypeOK, KeysTyped, WritesOrdered, HistoriesKept, EmptyIsOwn, FoundIsCurrent,
           HitIsCurrent, [Next]_vars
    PROVE  HitIsCurrent'
<1> DEFINE Good(b) == /\ hit[b] \in Asks
                      /\ told[hit[b]] = "result"
                      /\ basis[b] <= oldest[hit[b]] \/ \E w \in overtaken[hit[b]] : w \notin open
<1> SUFFICES ASSUME NEW b \in Asks, at'[b] = "replaying" \/ told'[b] = "replayed"
             PROVE  Good(b)'
  BY DEF HitIsCurrent
<1>0. \A h \in Asks : overtaken[h] \subseteq Begun /\ (told[h] # "nothing" <=> at[h] = "ended")
  BY DEF HistoriesKept
<1>1. ASSUME Good(b), hit'[b] = hit[b], basis'[b] = basis[b],
             UNCHANGED <<told[hit[b]], oldest[hit[b]], overtaken[hit[b]]>>
      PROVE  Good(b)'
  BY <1>0, <1>1, LedgerGrows
<1>2. ASSUME NEW a \in Asks, Serve(a)  PROVE Good(b)'
  <2>1. ASSUME NEW h \in Asks, told[h] = "result"
        PROVE  h # a /\ UNCHANGED <<told[h], oldest[h], overtaken[h]>>
    <3>1. at[a] # "ended"  BY <1>2, RequestsMove DEF ReadWatermark, Active
    <3>2. h # a  BY <1>0, <2>1, <3>1
    <3> QED  BY <1>2, <3>2, RequestsMove DEF OthersKept
  <2>2. CASE b # a
    <3>1. UNCHANGED <<at[b], told[b], hit[b], basis[b]>>
      BY <1>2, <2>2, RequestsMove DEF OthersKept
    <3>2. Good(b)  BY <3>1 DEF HitIsCurrent
    <3> QED  BY <1>1, <2>1, <3>1, <3>2
  <2>3. CASE b = a /\ LookUp(a)
    <3>1. told[a] = "nothing" /\ told' = told /\ basis' = basis /\ at[a] = "looking"
      BY <1>0, <2>3 DEF LookUp, Go
    <3>2. PICK c \in cache : c.key = Key(a) /\ hit' = [hit EXCEPT ![a] = c.run]
      BY <2>3, <3>1 DEF LookUp, Go, Goto, TypeOK
    <3>3. c.run \in Asks /\ told[c.run] = "result" /\ hit'[a] = c.run /\ c.key[3] = mark[a]
      BY <3>2 DEF KeysTyped, TypeOK, Key
    <3>4. mark[a][2] # 0
      <4>1. c.run # a /\ a \in Active  BY <3>1, <3>3 DEF Active
      <4> QED  BY <3>3, <4>1 DEF EmptyIsOwn
    <3> DEFINE h == [mark |-> c.key[3], seen |-> oldest[c.run], overtaken |-> overtaken[c.run]]
    <3>5. h \in Reckonings  BY DEF Reckonings
    <3>6. basis[a] <= h.seen \/ Escaped(h)
      <4>1. h.mark = mark[a]  BY <3>3
      <4> HIDE DEF h
      <4> QED  BY <3>1, <3>4, <3>5, <4>1 DEF FoundIsCurrent
    <3>7. basis[a] <= oldest[c.run] \/ \E w \in overtaken[c.run] : w \notin open
      BY <3>6 DEF Escaped
    <3>8. UNCHANGED <<told[c.run], oldest[c.run], overtaken[c.run]>>  BY <2>1, <3>3
    <3>9. /\ hit'[b] = c.run /\ basis'[b] = basis[a] /\ overtaken'[c.run] = overtaken[c.run]
          /\ oldest'[c.run] = oldest[c.run] /\ told'[c.run] = "result"
      BY <2>3, <3>1, <3>3, <3>8
    <3>10. (\E w \in overtaken[c.run] : w \notin open) => \E w \in overtaken[c.run] : w \notin open'
      BY <1>0, <3>3, LedgerGrows
    <3> QED  BY <3>3, <3>7, <3>9, <3>10
  <2>4. CASE b = a /\ ~LookUp(a)
    <3>1. at[a] = "replaying" /\ told'[a] = "replayed" /\ hit' = hit /\ basis'[a] = basis[a]
      <4>1. told[a] # "replayed" /\ at[a] # "ended"
        BY <1>0, <1>2, RequestsMove DEF ReadWatermark, Active
      <4>2. CASE Replay(a)
        BY <2>4, <4>1, <4>2 DEF Replay, End, Go, Goto, TypeOK
      <4>3. CASE ~Replay(a)
        BY <1>2, <2>4, <4>1, <4>3
        DEF Serve, Step, ReadWatermark, Understand, Select, Aggregate, ReadMore, Query, Compose,
            CommitRun, StoreRun, Cancel, Break, Finish, End, Go, Goto, TypeOK
      <4> QED  BY <4>2, <4>3
    <3>2. Good(b)  BY <2>4, <3>1 DEF HitIsCurrent
    <3> QED  BY <1>1, <2>1, <2>4, <3>1, <3>2
  <2> QED  BY <2>2, <2>3, <2>4
<1>3. CASE UNCHANGED <<at, mark, basis, overtaken, hit, oldest, told>>
  <2>1. Good(b)  BY <1>3 DEF HitIsCurrent
  <2> QED  BY <1>1, <1>3, <2>1
<1> QED  BY <1>2, <1>3, LedgerLeavesRequests

(* What is told is on record until the deletion commits. *)
LEMMA OnRecordPreserved ==
    ASSUME TypeOK, HistoriesKept, OnRecord, [Next]_vars
    PROVE  OnRecord'
<1> USE DEF TypeOK, HistoriesKept, OnRecord, Goto, Go, End, Finish, ledger, redis,
        reading, erasure
<1>1. ASSUME NEW a \in Asks, ReadWatermark(a)  PROVE OnRecord'  BY <1>1 DEF ReadWatermark
<1>2. ASSUME NEW a \in Asks, LookUp(a)  PROVE OnRecord'  BY <1>2 DEF LookUp
<1>3. ASSUME NEW a \in Asks, Replay(a)  PROVE OnRecord'  BY <1>3 DEF Replay
<1>4. ASSUME NEW a \in Asks, Understand(a)  PROVE OnRecord'  BY <1>4 DEF Understand
<1>5. ASSUME NEW a \in Asks, Select(a)  PROVE OnRecord'  BY <1>5 DEF Select, Query
<1>6. ASSUME NEW a \in Asks, Aggregate(a)  PROVE OnRecord'  BY <1>6 DEF Aggregate, Query
<1>7. ASSUME NEW a \in Asks, ReadMore(a)  PROVE OnRecord'  BY <1>7 DEF ReadMore, Query
<1>8. ASSUME NEW a \in Asks, Compose(a)  PROVE OnRecord'  BY <1>8 DEF Compose
<1>9. ASSUME NEW a \in Asks, CommitRun(a)  PROVE OnRecord'  BY <1>9 DEF CommitRun
<1>10. ASSUME NEW a \in Asks, StoreRun(a)  PROVE OnRecord'  BY <1>10 DEF StoreRun
<1>11. ASSUME NEW a \in Asks, Cancel(a)  PROVE OnRecord'  BY <1>11 DEF Cancel
<1>12. ASSUME NEW a \in Asks, Break(a)  PROVE OnRecord'  BY <1>12 DEF Break
<1>13. ASSUME NEW w \in Writes, Write(w)  PROVE OnRecord'
  BY <1>13 DEF Write, BeginWrite, CommitWrite, AbortWrite
<1>14. CASE Expire  BY <1>14 DEF Expire
<1>15. CASE DeleteRows  BY <1>15 DEF DeleteRows
<1>16. CASE PurgeCache  BY <1>16 DEF PurgeCache
<1>17. CASE CommitErase  BY <1>17 DEF CommitErase
<1>18. CASE AbortErase  BY <1>18 DEF AbortErase
<1>19. CASE UNCHANGED vars  BY <1>19 DEF vars
<1> QED
  BY <1>1, <1>2, <1>3, <1>4, <1>5, <1>6, <1>7, <1>8, <1>9, <1>10, <1>11, <1>12, <1>13,
     <1>14, <1>15, <1>16, <1>17, <1>18, <1>19 DEF Next, Step

(* Nothing is asked, written or cached at the start. *)
LEMMA InitEstablishes == Init => IInv
<1> SUFFICES ASSUME Init  PROVE IInv  OBVIOUS
<1> USE AnswersAssumption DEF Init
<1>1. Cardinality(Writes) \in Nat /\ 0 \in Versions  BY SetsFinite DEF Versions
<1>2. TypeOK  BY <1>1 DEF TypeOK
<1>3. KeysTyped  BY DEF KeysTyped
<1>4. Active = {} /\ Reckonings = {}  BY DEF Active, Reckonings
<1>5. Begun = {}  BY DEF Begun
<1>6. WritesOrdered
  <2>1. Cardinality(Begun) \in Nat /\ Cardinality(Begun \ open) \in Nat
    BY <1>5, SetsFinite
  <2> QED  BY <1>5, <2>1 DEF WritesOrdered
<1>7. DoomedPresent /\ HistoriesKept  BY DEF DoomedPresent, HistoriesKept
<1>8. EmptyIsOwn /\ WatermarksReckoned /\ FoundIsCurrent /\ HitIsCurrent /\ OnRecord
  BY <1>4 DEF EmptyIsOwn, WatermarksReckoned, FoundIsCurrent, HitIsCurrent, OnRecord
<1> QED  BY <1>2, <1>3, <1>6, <1>7, <1>8 DEF IInv

(* Every step preserves the invariant. *)
LEMMA StepPreserves == IInv /\ [Next]_vars => IInv'
<1> SUFFICES ASSUME IInv, [Next]_vars  PROVE IInv'  OBVIOUS
<1> USE DEF IInv
<1>1. WritesOrdered'  BY WritesOrderedPreserved
<1>2. TypeOK'  BY <1>1, TypePreserved
<1>3. KeysTyped'  BY KeysPreserved
<1>4. DoomedPresent'  BY DoomedPresentPreserved
<1>5. HistoriesKept'  BY HistoriesPreserved
<1>6. EmptyIsOwn'  BY EmptyIsOwnPreserved
<1>7. WatermarksReckoned'  BY <1>1, <1>2, <1>3, <1>5, WatermarksPreserved
<1>8. FoundIsCurrent'  BY FoundPreserved
<1>9. HitIsCurrent'  BY HitPreserved
<1>10. OnRecord'  BY OnRecordPreserved
<1> QED  BY <1>1, <1>2, <1>3, <1>4, <1>5, <1>6, <1>7, <1>8, <1>9, <1>10

-----------------------------------------------------------------------------
(***************************************************************************)
(* Theorems about the answers.                                             *)
(***************************************************************************)

(* The invariant holds in every reachable state. *)
LEMMA AnswersInvariant == FairSpec => []IInv
BY InitEstablishes, StepPreserves, PTL DEF FairSpec

(* Every reachable state has its types, and no more versions than writes.  *)
THEOREM AnswersTypeCorrect == FairSpec => []TypeOK
<1>1. IInv => TypeOK  BY DEF IInv
<1> QED  BY <1>1, AnswersInvariant, PTL

(* For any requests, rows, writes and a deletion, a replayed answer saw    *)
(* all that its reader has counted, unless a write that had begun before   *)
(* the newest one counted was committed after it looked.                   *)
THEOREM ReplaysAreCurrent == FairSpec => []ReplayCurrent
<1>1. IInv => ReplayCurrent
  <2> SUFFICES ASSUME IInv, NEW a \in Asks, told[a] = "replayed"
               PROVE  \/ oldest[hit[a]] >= basis[a]
                      \/ \E w \in overtaken[hit[a]] : w \notin open
    BY DEF ReplayCurrent
  <2>1. hit[a] \in Asks /\ basis[a] \in Nat /\ \A b \in Asks : oldest[b] \in Nat
    BY SetsFinite DEF IInv, HitIsCurrent, TypeOK, Versions
  <2>2. basis[a] <= oldest[hit[a]] \/ \E w \in overtaken[hit[a]] : w \notin open
    BY DEF IInv, HitIsCurrent
  <2> QED  BY <2>1, <2>2
<1> QED  BY <1>1, AnswersInvariant, PTL

(* The cache names only runs on record, and so does every result told,     *)
(* until the deletion of all data has committed.                           *)
THEOREM CacheNamesRecords == FairSpec => []CacheNamesAnswers
<1>1. IInv => CacheNamesAnswers
  BY DEF IInv, KeysTyped, OnRecord, CacheNamesAnswers
<1> QED  BY <1>1, AnswersInvariant, PTL

-----------------------------------------------------------------------------
(***************************************************************************)
(* The maintenance lease.                                                  *)
(***************************************************************************)

(* A worker between its SET NX and its release holds the lock, and what is *)
(* left of the lock covers what is left of its evaluation.                 *)
LeaseCoversRun ==
    \A w \in Workers :
        pc[w] \in {"locked", "running", "ran"} =>
            holder = w /\ lockLeft + since[w] >= LockTTL

(* Nobody records a run while another run is on. *)
MarkerStaysOld ==
    \A w \in Workers :
        pc[w] \in {"running", "ran"} => markerAge = Never \/ markerAge >= Interval

(* What every step of the schedule preserves. *)
LeaseInv == ScheduleTypeOK /\ LeaseCoversRun /\ MarkerStaysOld

(* A completed run finds the last record an interval old. *)
Spaced ==
    \A w \in Workers : WriteMarker(w) => markerAge = Never \/ markerAge >= Interval

-----------------------------------------------------------------------------
(* Nobody runs at the start. *)
LEMMA LeaseInit == ScheduleInit => LeaseInv
BY ScheduleAssumption DEF ScheduleInit, LeaseInv, ScheduleTypeOK, LeaseCoversRun,
   MarkerStaysOld, OldAge

(* Every step preserves the invariant. *)
LEMMA LeaseStep ==
    ASSUME RunLimit < LockTTL, LeaseInv, [ScheduleNext]_scheduleVars
    PROVE  LeaseInv'
<1> USE ScheduleAssumption DEF LeaseInv, ScheduleTypeOK, LeaseCoversRun,
       MarkerStaysOld, OldAge
<1>1. CASE Advance
  <2>1. ScheduleTypeOK'  BY <1>1 DEF Advance
  <2>2. LeaseCoversRun'  BY <1>1 DEF Advance
  <2>3. MarkerStaysOld'  BY <1>1 DEF Advance
  <2> QED  BY <2>1, <2>2, <2>3
<1>2. ASSUME NEW w \in Workers, FindDue(w)  PROVE LeaseInv'
  BY <1>2 DEF FindDue, Proceed
<1>3. ASSUME NEW w \in Workers, Acquire(w)  PROVE LeaseInv'
  BY <1>3 DEF Acquire, Proceed
<1>4. ASSUME NEW w \in Workers, FindLocked(w)  PROVE LeaseInv'
  BY <1>4 DEF FindLocked, Return, Proceed
<1>5. ASSUME NEW w \in Workers, AcquireFails(w)  PROVE LeaseInv'
  BY <1>5 DEF AcquireFails, Return, Proceed
<1>6. ASSUME NEW w \in Workers, Recheck(w)  PROVE LeaseInv'
  BY <1>6 DEF Recheck, Due, Proceed
<1>7. ASSUME NEW w \in Workers, RecheckFails(w)  PROVE LeaseInv'
  BY <1>7 DEF RecheckFails, Proceed
<1>8. ASSUME NEW w \in Workers, SweepSucceeds(w)  PROVE LeaseInv'
  BY <1>8 DEF SweepSucceeds, Proceed
<1>9. ASSUME NEW w \in Workers, SweepFails(w)  PROVE LeaseInv'
  BY <1>9 DEF SweepFails, Proceed
<1>10. ASSUME NEW w \in Workers, WriteMarker(w)  PROVE LeaseInv'
  BY <1>10 DEF WriteMarker, Proceed
<1>11. ASSUME NEW w \in Workers, WriteMarkerFails(w)  PROVE LeaseInv'
  BY <1>11 DEF WriteMarkerFails, Proceed
<1>12. ASSUME NEW w \in Workers, Release(w)  PROVE LeaseInv'
  BY <1>12 DEF Release, Return, Proceed
<1>13. ASSUME NEW w \in Workers, ReleaseFails(w)  PROVE LeaseInv'
  BY <1>13 DEF ReleaseFails, Return, Proceed
<1>14. ASSUME NEW w \in Workers, Die(w)  PROVE LeaseInv'
  BY <1>14 DEF Die, Return, Proceed
<1>15. CASE UNCHANGED scheduleVars  BY <1>15 DEF scheduleVars
<1> QED
  BY <1>1, <1>2, <1>3, <1>4, <1>5, <1>6, <1>7, <1>8, <1>9, <1>10, <1>11, <1>12,
     <1>13, <1>14, <1>15 DEF ScheduleNext

-----------------------------------------------------------------------------
(* The invariant holds in every reachable state while the lock outlives    *)
(* every evaluation.                                                       *)
LEMMA LeaseInvariant ==
    ASSUME RunLimit < LockTTL
    PROVE  ScheduleSpec => []LeaseInv
<1>1. ScheduleInit => LeaseInv  BY LeaseInit
<1>2. LeaseInv /\ [ScheduleNext]_scheduleVars => LeaseInv'  BY LeaseStep
<1> QED  BY <1>1, <1>2, PTL DEF ScheduleSpec

(* "Only one runner" holds as long as an evaluation is shorter than        *)
(* LOCK_TTL_MS, with any number of workers, deaths and lost replies.       *)
THEOREM OnlyOneRunner ==
    ASSUME RunLimit < LockTTL
    PROVE  ScheduleSpec => []OneRunner
<1>1. LeaseInv => OneRunner  BY DEF LeaseInv, LeaseCoversRun, OneRunner
<1> QED  BY <1>1, LeaseInvariant, PTL

(* The re-check under the lock keeps recorded runs an interval apart.      *)
THEOREM RunsAreSpaced ==
    ASSUME RunLimit < LockTTL
    PROVE  ScheduleSpec => CompletionsSpaced
<1>1. LeaseInv => Spaced  BY DEF LeaseInv, MarkerStaysOld, Spaced, WriteMarker
<1>2. LeaseInv /\ [ScheduleNext]_scheduleVars => [Spaced]_scheduleVars  BY <1>1
<1>3. [][Spaced]_scheduleVars => CompletionsSpaced  BY DEF Spaced, CompletionsSpaced
<1> QED  BY <1>2, <1>3, LeaseInvariant, PTL DEF ScheduleSpec

-----------------------------------------------------------------------------
(***************************************************************************)
(* Visitors without a password, and the limiter at their door.             *)
(***************************************************************************)

(* A request has an uncommitted account between its INSERT and its COMMIT, *)
(* and a committed one only when it is done.                               *)
PhaseRows ==
    /\ \A r \in Requests : r \in pending <=> phase[r] \in {"seeding", "committing"}
    /\ \A r \in rows \cap Requests : phase[r] = "answered"
    /\ list \cup gone \subseteq rows

(* No key, identity or address has two accounts, committed or about to be. *)
Alone ==
    \A a, b \in rows \cup pending : a # b =>
        /\ a = Owner \/ ~Same(a, b)
        /\ email[a] = Absent \/ email[a] # email[b]

(* Nobody is given an account of someone else. *)
Given == \A r \in Requests : answer[r] # Absent => Same(r, answer[r])

(* A demo account is complete before it is committed. *)
Seeded ==
    \A r \in Requests : Demo(r) /\ (r \in rows \/ phase[r] = "committing") => r \in filled

(* A counter that will expire does so when the window ends; one that will  *)
(* not lets nobody through; and every request let through in the window    *)
(* was counted by the counter there is or by one that was lost.            *)
WithinBudget ==
    /\ counter.ttl > 0 => counter.ttl = left /\ counter.count > 0
    /\ counter.ttl = 0 => counter.count = 0
    /\ counter.ttl = NoTtl => left = 0 /\ counter.count = Times + 1
    /\ lost <= faults
    /\ Production =>
         /\ left = 0 => admitted = 0 /\ lost = 0
         /\ admitted <= Times * lost + counter.count
         /\ admitted <= Times * lost + Times

(* What every step of theirs preserves. *)
VisitInv ==
    /\ VisitsTypeOK /\ PhaseRows /\ Alone /\ Given
    /\ Seeded /\ DeadlineHolds /\ WithinBudget

-----------------------------------------------------------------------------
(* What one request does, and what the sweep does to its account. *)
Acts(r) == Provision(r) \/ EnforceBlindly(r) \/ Fail(r) \/ Visit(r)
              \/ SweepDeletes(r) \/ SweepSkips(r)

(* These are all the steps. *)
LEMMA Actors ==
    ASSUME VisitsNext
    PROVE  (\E r \in Requests : Acts(r)) \/ SweepReads \/ SweepCommits \/ Tick \/ LoseCounter
BY DEF VisitsNext, Sweep, Acts

(* Whoever is behind a request, it has a kind, a key and an address; the   *)
(* owner's account is not a request's.                                     *)
LEMMA Visitors ==
    ASSUME VisitInv, NEW r \in Requests
    PROVE  /\ who[r].kind \in {"demo", "github"} /\ who[r].email \in Addresses \cup {Absent}
           /\ r # Owner /\ r # Absent /\ Owner # Absent
           /\ r \in Accounts /\ Same(r, r)
BY VisitsAssumption DEF VisitInv, VisitsTypeOK, Visitor, Accounts, Same

(* What a visitor is given is an account, and a token of a legal life. *)
LEMMA GiveTyped ==
    ASSUME VisitInv, NEW r \in Requests, NEW a \in Requests, Give(r, a)
    PROVE  /\ answer' \in [Requests -> Accounts \cup {Absent}]
           /\ token' \in [Requests -> 0 .. TokenLife]
           /\ served' = served /\ phase' = [phase EXCEPT ![r] = "answered"]
<1>1. life[a] \in -1 .. Life /\ TokenLife \in Nat \ {0} /\ Life \in Nat
  BY VisitsAssumption DEF VisitInv, VisitsTypeOK
<1>2. DEFINE rest == IF life[a] < 1 THEN 1 ELSE life[a]
<1>3. rest \in Nat  BY <1>1
<1>4. LeastOf(TokenLife, rest) \in 0 .. TokenLife  BY <1>1, <1>3 DEF LeastOf
<1>5. TokenLife \in 0 .. TokenLife  BY <1>1
<1> HIDE DEF rest
<1>6. token' = [token EXCEPT ![r] = IF Demo(r) THEN LeastOf(TokenLife, rest) ELSE
     TokenLife]
  BY DEF Give, rest
<1>7. token' \in [Requests -> 0 .. TokenLife]
  BY <1>4, <1>5, <1>6 DEF VisitInv, VisitsTypeOK
<1> QED  BY <1>7 DEF Give, Reach, VisitInv, VisitsTypeOK, Accounts

(* Who is found is in the table, and a request's account. *)
LEMMA FoundKnown ==
    ASSUME VisitInv, NEW r \in Requests, NEW a \in Found(r)
    PROVE  a \in Requests /\ a \in rows
BY DEF VisitInv, VisitsTypeOK, Found, Same, Accounts

(* Every step keeps the types. *)
LEMMA StepVisitTypes ==
    ASSUME VisitInv, VisitsNext
    PROVE  VisitsTypeOK'
<1> USE VisitsAssumption, Visitors DEF VisitInv, VisitsTypeOK, PhaseRows, Phases,
       NoTtl, Accounts, users, visits, limiter, sweep
<1>1. ASSUME NEW r \in Requests, Acts(r)  PROVE VisitsTypeOK'
  <2>1. CASE Enforce(r)
    BY <2>1 DEF Enforce, Opened, Counted, LeastOf, Allowed, Reach
  <2>2. CASE EnforceBlindly(r)
    BY <2>2 DEF EnforceBlindly, Opened, Counted, LeastOf, Reach, Fault
  <2>3. CASE Callback(r)  BY <2>3 DEF Callback, Reach
  <2>4. CASE LookForAccount(r)
    <3>1. CASE Found(r) = {} /\ UNCHANGED visits
      BY <2>4, <3>1 DEF LookForAccount, Reach
    <3>2. ASSUME NEW a \in Found(r), Give(r, a),
            UNCHANGED email  PROVE VisitsTypeOK'
      BY <2>4, <3>2, GiveTyped, FoundKnown DEF LookForAccount
    <3> QED  BY <2>4, <3>1, <3>2 DEF LookForAccount
  <2>5. CASE CheckAddress(r)  BY <2>5 DEF CheckAddress, Reach
  <2>6. CASE Insert(r)  BY <2>6 DEF Insert, Reach, Clash
  <2>7. CASE Rescue(r)
    <3>1. CASE Again(r) /\ UNCHANGED visits
      BY <2>7, <3>1 DEF Rescue, Again, Reach
    <3>2. ASSUME NEW a \in Found(r), Give(r, a),
            UNCHANGED life  PROVE VisitsTypeOK'
      <4>1. UNCHANGED <<who, pending, rows, filled, email, life, limiter,
              sweep, faults>>
        BY <2>7, <3>2 DEF Rescue
      <4>2. a \in Requests  BY <3>2, FoundKnown
      <4> QED  BY <3>2, <4>1, <4>2, GiveTyped
    <3> QED  BY <2>7, <3>1, <3>2 DEF Rescue
  <2>8. CASE Seed(r)  BY <2>8 DEF Seed, Reach
  <2>9. CASE Commit(r)  BY <2>9 DEF Commit, Reach, Give, LeastOf
  <2>10. CASE Fail(r)  BY <2>10 DEF Fail, Again, Reach, Fault
  <2>11. CASE Visit(r)
    <3>1. answer[r] \in Requests \/ ~Demo(r)
      BY <2>11 DEF Visit, Welcome, Given, Same, Accounts, Demo
    <3>2. served' \in [Requests -> -1 .. Life]  BY <2>11, <3>1 DEF Visit
    <3>3. token' \in [Requests -> 0 .. TokenLife]
      <4>1. TokenLife \in 0 .. TokenLife  OBVIOUS
      <4> QED  BY <2>11, <4>1 DEF Visit
    <3> QED  BY <2>11, <3>2, <3>3 DEF Visit
  <2>12. CASE SweepDeletes(r)  BY <2>12 DEF SweepDeletes
  <2>13. CASE SweepSkips(r)  BY <2>13 DEF SweepSkips, Fault
  <2> QED
    BY <1>1, <2>1, <2>2, <2>3, <2>4, <2>5, <2>6, <2>7, <2>8, <2>9, <2>10, <2>11,
       <2>12, <2>13 DEF Acts, Provision
<1>2. CASE SweepReads  BY <1>2 DEF SweepReads, Expired
<1>3. CASE SweepCommits  BY <1>3 DEF SweepCommits
<1>4. CASE Tick  BY <1>4 DEF Tick, Less
<1>5. CASE LoseCounter  BY <1>5 DEF LoseCounter, Fault, WithinBudget
<1> QED  BY <1>1, <1>2, <1>3, <1>4, <1>5, Actors

(* Rows are inserted, committed and rolled back by their own request. *)
LEMMA StepPhaseRows ==
    ASSUME VisitInv, VisitsNext
    PROVE  PhaseRows'
<1> USE DEF VisitInv, VisitsTypeOK, PhaseRows, Phases, users, visits, limiter, sweep
<1>1. ASSUME NEW r \in Requests, Acts(r)  PROVE PhaseRows'
  <2>1. CASE Enforce(r)
    BY <2>1 DEF Enforce, Opened, Counted, Allowed, Reach
  <2>2. CASE EnforceBlindly(r)
    BY <2>2 DEF EnforceBlindly, Opened, Counted, Reach, Fault
  <2>3. CASE Callback(r)  BY <2>3 DEF Callback, Reach
  <2>4. CASE LookForAccount(r)  BY <2>4 DEF LookForAccount, Reach, Give
  <2>5. CASE CheckAddress(r)  BY <2>5 DEF CheckAddress, Reach
  <2>6. CASE Insert(r)  BY <2>6 DEF Insert, Reach
  <2>7. CASE Rescue(r)  BY <2>7 DEF Rescue, Reach, Again, Give
  <2>8. CASE Seed(r)  BY <2>8 DEF Seed, Reach
  <2>9. CASE Commit(r)  BY <2>9 DEF Commit, Reach, Give
  <2>10. CASE Fail(r)  BY <2>10 DEF Fail, Again, Reach, Fault
  <2>11. CASE Visit(r)  BY <2>11 DEF Visit, Welcome
  <2>12. CASE SweepDeletes(r)  BY <2>12 DEF SweepDeletes
  <2>13. CASE SweepSkips(r)  BY <2>13 DEF SweepSkips, Fault
  <2> QED
    BY <1>1, <2>1, <2>2, <2>3, <2>4, <2>5, <2>6, <2>7, <2>8, <2>9, <2>10, <2>11,
       <2>12, <2>13 DEF Acts, Provision
<1>2. CASE SweepReads  BY <1>2 DEF SweepReads, Expired
<1>3. CASE SweepCommits  BY <1>3 DEF SweepCommits
<1>4. CASE Tick  BY <1>4 DEF Tick, Less
<1>5. CASE LoseCounter  BY <1>5 DEF LoseCounter, Fault
<1> QED  BY <1>1, <1>2, <1>3, <1>4, <1>5, Actors

(* The unique keys let an insert through only where it is alone. *)
LEMMA StepAlone ==
    ASSUME VisitInv, VisitsNext
    PROVE  Alone'
<1> USE Visitors DEF VisitInv, VisitsTypeOK, PhaseRows, Alone, Same, Phases, users,
       visits, limiter, sweep
<1>1. ASSUME NEW r \in Requests, Acts(r)  PROVE Alone'
  <2>1. CASE Enforce(r)
    BY <2>1 DEF Enforce, Opened, Counted, Allowed, Reach
  <2>2. CASE EnforceBlindly(r)
    BY <2>2 DEF EnforceBlindly, Opened, Counted, Reach, Fault
  <2>3. CASE Callback(r)  BY <2>3 DEF Callback, Reach
  <2>4. CASE LookForAccount(r)  BY <2>4 DEF LookForAccount, Reach, Give
  <2>5. CASE CheckAddress(r)  BY <2>5 DEF CheckAddress, Reach
  <2>6. CASE Insert(r)  BY <2>6 DEF Insert, Reach, Clash
  <2>7. CASE Rescue(r)  BY <2>7 DEF Rescue, Reach, Again, Give
  <2>8. CASE Seed(r)  BY <2>8 DEF Seed, Reach
  <2>9. CASE Commit(r)  BY <2>9 DEF Commit, Reach, Give
  <2>10. CASE Fail(r)  BY <2>10 DEF Fail, Again, Reach, Fault
  <2>11. CASE Visit(r)  BY <2>11 DEF Visit, Welcome
  <2>12. CASE SweepDeletes(r)  BY <2>12 DEF SweepDeletes
  <2>13. CASE SweepSkips(r)  BY <2>13 DEF SweepSkips, Fault
  <2> QED
    BY <1>1, <2>1, <2>2, <2>3, <2>4, <2>5, <2>6, <2>7, <2>8, <2>9, <2>10, <2>11,
       <2>12, <2>13 DEF Acts, Provision
<1>2. CASE SweepReads  BY <1>2 DEF SweepReads, Expired
<1>3. CASE SweepCommits  BY <1>3 DEF SweepCommits
<1>4. CASE Tick  BY <1>4 DEF Tick, Less
<1>5. CASE LoseCounter  BY <1>5 DEF LoseCounter, Fault
<1> QED  BY <1>1, <1>2, <1>3, <1>4, <1>5, Actors

(* An answer is an account found by the key, or the request's own. *)
LEMMA StepGiven ==
    ASSUME VisitInv, VisitsNext
    PROVE  Given'
<1> USE Visitors DEF VisitInv, VisitsTypeOK, Given, Same, users, visits, limiter,
       sweep
<1>1. ASSUME NEW r \in Requests, Acts(r)  PROVE Given'
  <2>1. CASE Enforce(r)
    BY <2>1 DEF Enforce, Opened, Counted, Allowed, Reach
  <2>2. CASE EnforceBlindly(r)
    BY <2>2 DEF EnforceBlindly, Opened, Counted, Reach, Fault
  <2>3. CASE Callback(r)  BY <2>3 DEF Callback, Reach
  <2>4. CASE LookForAccount(r)  BY <2>4 DEF LookForAccount, Reach, Found, Give
  <2>5. CASE CheckAddress(r)  BY <2>5 DEF CheckAddress, Reach
  <2>6. CASE Insert(r)  BY <2>6 DEF Insert, Reach, Clash
  <2>7. CASE Rescue(r)
    BY <2>7 DEF Rescue, Reach, Again, Found, Give
  <2>8. CASE Seed(r)  BY <2>8 DEF Seed, Reach
  <2>9. CASE Commit(r)  BY <2>9 DEF Commit, Reach, Give
  <2>10. CASE Fail(r)  BY <2>10 DEF Fail, Again, Reach, Fault
  <2>11. CASE Visit(r)  BY <2>11 DEF Visit, Welcome
  <2>12. CASE SweepDeletes(r)  BY <2>12 DEF SweepDeletes
  <2>13. CASE SweepSkips(r)  BY <2>13 DEF SweepSkips, Fault
  <2> QED
    BY <1>1, <2>1, <2>2, <2>3, <2>4, <2>5, <2>6, <2>7, <2>8, <2>9, <2>10, <2>11,
       <2>12, <2>13 DEF Acts, Provision
<1>2. CASE SweepReads  BY <1>2 DEF SweepReads, Expired
<1>3. CASE SweepCommits  BY <1>3 DEF SweepCommits
<1>4. CASE Tick  BY <1>4 DEF Tick, Less
<1>5. CASE LoseCounter  BY <1>5 DEF LoseCounter, Fault
<1> QED  BY <1>1, <1>2, <1>3, <1>4, <1>5, Actors

(* What is committed was seeded by the request itself. *)
LEMMA StepSeeded ==
    ASSUME VisitInv, VisitsNext
    PROVE  Seeded'
<1> USE DEF VisitInv, VisitsTypeOK, PhaseRows, Seeded, Demo, Phases, users, visits,
       limiter, sweep
<1>1. ASSUME NEW r \in Requests, Acts(r)  PROVE Seeded'
  <2>1. CASE Enforce(r)
    BY <2>1 DEF Enforce, Opened, Counted, Allowed, Reach
  <2>2. CASE EnforceBlindly(r)
    BY <2>2 DEF EnforceBlindly, Opened, Counted, Reach, Fault
  <2>3. CASE Callback(r)  BY <2>3 DEF Callback, Reach
  <2>4. CASE LookForAccount(r)  BY <2>4 DEF LookForAccount, Reach, Give
  <2>5. CASE CheckAddress(r)  BY <2>5 DEF CheckAddress, Reach
  <2>6. CASE Insert(r)  BY <2>6 DEF Insert, Reach
  <2>7. CASE Rescue(r)  BY <2>7 DEF Rescue, Reach, Again, Give
  <2>8. CASE Seed(r)  BY <2>8 DEF Seed, Reach
  <2>9. CASE Commit(r)  BY <2>9 DEF Commit, Reach, Give
  <2>10. CASE Fail(r)  BY <2>10 DEF Fail, Again, Reach, Fault
  <2>11. CASE Visit(r)  BY <2>11 DEF Visit, Welcome
  <2>12. CASE SweepDeletes(r)  BY <2>12 DEF SweepDeletes
  <2>13. CASE SweepSkips(r)  BY <2>13 DEF SweepSkips, Fault
  <2> QED
    BY <1>1, <2>1, <2>2, <2>3, <2>4, <2>5, <2>6, <2>7, <2>8, <2>9, <2>10, <2>11,
       <2>12, <2>13 DEF Acts, Provision
<1>2. CASE SweepReads  BY <1>2 DEF SweepReads, Expired
<1>3. CASE SweepCommits  BY <1>3 DEF SweepCommits
<1>4. CASE Tick  BY <1>4 DEF Tick, Less
<1>5. CASE LoseCounter  BY <1>5 DEF LoseCounter, Fault
<1> QED  BY <1>1, <1>2, <1>3, <1>4, <1>5, Actors

(* Lives only run down, and only visits that pass the check are served. *)
LEMMA StepDeadlineHolds ==
    ASSUME VisitInv, VisitsNext
    PROVE  DeadlineHolds'
<1> USE VisitsAssumption DEF VisitInv, VisitsTypeOK, PhaseRows, DeadlineHolds, Demo,
       users, visits, limiter, sweep
<1>1. ASSUME NEW r \in Requests, Acts(r)  PROVE DeadlineHolds'
  <2>1. CASE Enforce(r)
    BY <2>1 DEF Enforce, Opened, Counted, Allowed, Reach
  <2>2. CASE EnforceBlindly(r)
    BY <2>2 DEF EnforceBlindly, Opened, Counted, Reach, Fault
  <2>3. CASE Callback(r)  BY <2>3 DEF Callback, Reach
  <2>4. CASE LookForAccount(r)  BY <2>4 DEF LookForAccount, Reach, Found, Give
  <2>5. CASE CheckAddress(r)  BY <2>5 DEF CheckAddress, Reach
  <2>6. CASE Insert(r)  BY <2>6 DEF Insert, Reach
  <2>7. CASE Rescue(r)
    BY <2>7 DEF Rescue, Reach, Again, Found, Give
  <2>8. CASE Seed(r)  BY <2>8 DEF Seed, Reach
  <2>9. CASE Commit(r)  BY <2>9 DEF Commit, Reach, Give
  <2>10. CASE Fail(r)  BY <2>10 DEF Fail, Again, Reach, Fault
  <2>11. CASE Visit(r)  BY <2>11 DEF Visit, Welcome
  <2>12. CASE SweepDeletes(r)  BY <2>12 DEF SweepDeletes
  <2>13. CASE SweepSkips(r)  BY <2>13 DEF SweepSkips, Fault
  <2> QED
    BY <1>1, <2>1, <2>2, <2>3, <2>4, <2>5, <2>6, <2>7, <2>8, <2>9, <2>10, <2>11,
       <2>12, <2>13 DEF Acts, Provision
<1>2. CASE SweepReads  BY <1>2 DEF SweepReads, Expired
<1>3. CASE SweepCommits  BY <1>3 DEF SweepCommits
<1>4. CASE Tick  BY <1>4 DEF Tick, Less
<1>5. CASE LoseCounter  BY <1>5 DEF LoseCounter, Fault
<1> QED  BY <1>1, <1>2, <1>3, <1>4, <1>5, Actors

(* A window with one more loss has one more budget. *)
LEMMA OneMore ==
    ASSUME NEW n \in Nat, NEW m \in Nat
    PROVE  n * m \in Nat /\ n * (m + 1) = n * m + n /\ n * (1 + m) = n * m + n /\ n * 0 = 0
BY Z3

(* A request is let through only if it is counted within the budget. *)
LEMMA StepWithinBudget ==
    ASSUME VisitInv, VisitsNext
    PROVE  WithinBudget'
<1> USE VisitsAssumption DEF VisitInv, VisitsTypeOK, WithinBudget, users, visits,
       limiter, sweep
<1> DEFINE spent == Times * lost
<1>0. /\ Times \in Nat \ {0} /\ Window \in Nat \ {0} /\ NoTtl = -1
      /\ counter.count \in 0 .. Times + 1 /\ counter.ttl \in -1 .. Window
      /\ left \in 0 .. Window /\ lost \in Nat /\ admitted \in Nat /\ spent \in Nat
      /\ Times * (lost + 1) = spent + Times /\ Times * 0 = 0
  BY OneMore DEF NoTtl
<1>1. ASSUME NEW r \in Requests, Acts(r)  PROVE WithinBudget'
  <2>1. CASE Enforce(r)
    <3>1. /\ Counted.count = (IF counter.count + 1 < Times + 1 THEN counter.count + 1 ELSE Times + 1)
          /\ Counted.ttl = (IF counter.count = 0 \/ counter.ttl = -1 THEN Window ELSE counter.ttl)
      BY <1>0 DEF Counted, LeastOf
    <3>2. /\ counter' = Counted /\ lost' = lost /\ faults' = faults
          /\ left' = IF counter'.ttl > left THEN counter'.ttl ELSE left
          /\ \/ admitted' = admitted + 1 /\ Counted.count <= Times
             \/ admitted' = admitted
      BY <2>1 DEF Enforce, Opened, Allowed
    <3>3. Times * lost' = spent  BY <3>2
    <3> HIDE DEF spent
    <3>4. /\ counter'.ttl > 0 => counter'.ttl = left' /\ counter'.count > 0
          /\ counter'.ttl = 0 => counter'.count = 0
          /\ counter'.ttl # -1
      BY <1>0, <3>1, <3>2
    <3>5. lost' <= faults' /\ left' > 0  BY <1>0, <3>1, <3>2
    <3>6. Production => admitted' <= spent + counter'.count /\ admitted' <= spent + Times
      BY <1>0, <3>1, <3>2 DEF spent
    <3> QED  BY <1>0, <3>3, <3>4, <3>5, <3>6
  <2>2. CASE EnforceBlindly(r)
    <3>1. /\ Counted.count = (IF counter.count + 1 < Times + 1 THEN counter.count + 1 ELSE Times + 1)
          /\ Counted.ttl = (IF counter.count = 0 \/ counter.ttl = -1 THEN Window ELSE counter.ttl)
      BY <1>0 DEF Counted, LeastOf
    <3>2. /\ counter' \in {counter, Counted} /\ lost' = lost /\ faults' = faults + 1
          /\ left' = IF counter'.ttl > left THEN counter'.ttl ELSE left
          /\ Production => admitted' = admitted
      BY <2>2 DEF EnforceBlindly, Opened, Fault
    <3>3. Times * lost' = spent  BY <3>2
    <3>4. faults \in Nat  OBVIOUS
    <3> HIDE DEF spent
    <3>5. /\ counter'.ttl > 0 => counter'.ttl = left' /\ counter'.count > 0
          /\ counter'.ttl = 0 => counter'.count = 0
          /\ counter'.ttl = -1 => left' = 0 /\ counter'.count = Times + 1
      BY <1>0, <3>1, <3>2
    <3>6. lost' <= faults' /\ (Production /\ left' = 0 => admitted' = 0 /\ lost' = 0)
      BY <1>0, <3>1, <3>2, <3>4
    <3>7. Production => admitted' <= spent + counter'.count /\ admitted' <= spent + Times
      BY <1>0, <3>1, <3>2 DEF spent
    <3> QED  BY <1>0, <3>3, <3>5, <3>6, <3>7
  <2>3. CASE Callback(r)  BY <2>3 DEF Callback, Reach
  <2>4. CASE LookForAccount(r)  BY <2>4 DEF LookForAccount, Reach, Give, LeastOf
  <2>5. CASE CheckAddress(r)  BY <2>5 DEF CheckAddress, Reach
  <2>6. CASE Insert(r)  BY <2>6 DEF Insert, Reach
  <2>7. CASE Rescue(r)
    BY <2>7 DEF Rescue, Reach, Again, Give, LeastOf
  <2>8. CASE Seed(r)  BY <2>8 DEF Seed, Reach
  <2>9. CASE Commit(r)  BY <2>9 DEF Commit, Reach, Give, LeastOf
  <2>10. CASE Fail(r)  BY <2>10 DEF Fail, Again, Reach, Fault
  <2>11. CASE Visit(r)  BY <2>11 DEF Visit, Welcome
  <2>12. CASE SweepDeletes(r)  BY <2>12 DEF SweepDeletes
  <2>13. CASE SweepSkips(r)  BY <2>13 DEF SweepSkips, Fault
  <2> QED
    BY <1>1, <2>1, <2>2, <2>3, <2>4, <2>5, <2>6, <2>7, <2>8, <2>9, <2>10, <2>11,
       <2>12, <2>13 DEF Acts, Provision
<1>2. CASE SweepReads  BY <1>2 DEF SweepReads, Expired
<1>3. CASE SweepCommits  BY <1>3 DEF SweepCommits
<1>4. CASE Tick
  <2>1. /\ counter' = IF counter.ttl = -1 THEN counter
                      ELSE IF counter.ttl <= 1 THEN [count |-> 0, ttl |-> 0]
                      ELSE [counter EXCEPT !.ttl = @ - 1]
        /\ left' = IF left > 0 THEN left - 1 ELSE 0
        /\ IF left <= 1 THEN admitted' = 0 /\ lost' = 0 ELSE UNCHANGED <<admitted, lost>>
        /\ faults' = faults
    BY <1>0, <1>4 DEF Tick, Less
  <2>2. CASE left <= 1
    <3>1. \/ counter' = counter /\ counter.ttl = -1 /\ left' = 0
          \/ counter'.count = 0 /\ counter'.ttl = 0 /\ left' = 0
      BY <1>0, <2>1, <2>2
    <3>2. admitted' = 0 /\ lost' = 0 /\ Times * lost' = 0  BY <1>0, <2>1, <2>2
    <3>3. faults' \in Nat  BY <2>1
    <3> QED  BY <1>0, <3>1, <3>2, <3>3
  <2>3. CASE left > 1
    <3>1. \/ counter.ttl = 0 /\ counter'.count = 0 /\ counter'.ttl = 0 /\ counter.count = 0
          \/ /\ counter.ttl = left /\ counter'.ttl = left - 1 /\ counter'.count = counter.count
             /\ counter.count > 0
      BY <1>0, <2>1, <2>3
    <3>2. admitted' = admitted /\ lost' = lost /\ Times * lost' = spent /\ left' = left - 1
      BY <1>0, <2>1, <2>3
    <3>3. lost' <= faults'  BY <2>1, <3>2
    <3> QED  BY <1>0, <2>3, <3>1, <3>2, <3>3
  <2> QED  BY <1>0, <2>2, <2>3
<1>5. CASE LoseCounter
  <2>1. /\ counter' = [count |-> 0, ttl |-> 0]
        /\ lost' = IF left > 0 THEN lost + 1 ELSE lost
        /\ faults' = faults + 1 /\ left' = left /\ admitted' = admitted
    BY <1>5 DEF LoseCounter, Fault
  <2>2. faults \in Nat /\ lost' <= faults'  BY <1>0, <2>1
  <2>3. CASE left > 0
    BY <1>0, <2>1, <2>2, <2>3
  <2>4. CASE left = 0
    BY <1>0, <2>1, <2>2, <2>4
  <2> QED  BY <1>0, <2>3, <2>4
<1> QED  BY <1>1, <1>2, <1>3, <1>4, <1>5, Actors

(* It holds at the start. *)
LEMMA VisitInit == VisitsInit => VisitInv
<1> SUFFICES ASSUME VisitsInit  PROVE VisitInv  OBVIOUS
<1>1. VisitsTypeOK
  BY VisitsAssumption DEF VisitsInit, VisitsTypeOK, Accounts, Phases, NoTtl
<1>2. PhaseRows  BY VisitsAssumption DEF VisitsInit, PhaseRows
<1>3. Alone /\ Given /\ Seeded
  BY VisitsAssumption DEF VisitsInit, Alone, Given, Seeded
<1>4. DeadlineHolds  BY VisitsAssumption DEF VisitsInit, DeadlineHolds
<1>5. WithinBudget
  <2>1. Times \in Nat /\ Times * 0 = 0  BY VisitsAssumption, OneMore
  <2> QED  BY <2>1 DEF VisitsInit, WithinBudget, NoTtl
<1> QED  BY <1>1, <1>2, <1>3, <1>4, <1>5 DEF VisitInv

(* Every step, stuttering included, keeps it. *)
LEMMA VisitStep == VisitInv /\ [VisitsNext]_visitVars => VisitInv'
<1>1. ASSUME VisitInv, VisitsNext  PROVE VisitInv'
  BY <1>1, StepVisitTypes, StepPhaseRows, StepAlone, StepGiven, StepSeeded,
     StepDeadlineHolds, StepWithinBudget DEF VisitInv
<1>2. ASSUME VisitInv, UNCHANGED visitVars  PROVE VisitInv'
  BY <1>2 DEF visitVars, users, visits, limiter, sweep, VisitInv, VisitsTypeOK,
     PhaseRows, Alone, Given, Seeded, DeadlineHolds, WithinBudget, Same, Demo
<1> QED  BY <1>1, <1>2

(* The invariant holds of every behaviour; fairness is not needed. *)
LEMMA VisitInvariant == VisitsFairSpec => []VisitInv
BY VisitInit, VisitStep, PTL DEF VisitsFairSpec

-----------------------------------------------------------------------------
(* Every reachable state of the visits has its types. *)
THEOREM VisitsTypeCorrect == VisitsFairSpec => []VisitsTypeOK
<1>1. VisitInv => VisitsTypeOK  BY DEF VisitInv
<1> QED  BY <1>1, VisitInvariant, PTL

(* A key or a GitHub id has one account, complete, and an address one      *)
(* account, however requests race, fail and are retried; and nobody is     *)
(* given someone else's.                                                   *)
THEOREM AccountsAreOwn == VisitsFairSpec => []OneAccountEach
<1>1. VisitInv => OneAccountEach
  BY DEF VisitInv, Alone, Given, Seeded, OneAccountEach
<1> QED  BY <1>1, VisitInvariant, PTL

(* No demo visitor is served past the deadline, and the sweep deletes only *)
(* what cannot be served any more.                                         *)
THEOREM DeadlinesHold == VisitsFairSpec => []DeadlineHolds
<1>1. VisitInv => DeadlineHolds  BY DEF VisitInv
<1> QED  BY <1>1, VisitInvariant, PTL

(* The limiter keeps its budget in every window, once more for every       *)
(* counter Redis lost in it.                                               *)
THEOREM BudgetHolds == VisitsFairSpec => []BudgetKept
<1>1. VisitInv => BudgetKept
  <2> SUFFICES ASSUME VisitInv  PROVE BudgetKept  OBVIOUS
  <2>1. Times \in Nat /\ lost \in Nat
    BY VisitsAssumption DEF VisitInv, VisitsTypeOK
  <2> QED  BY <2>1, OneMore DEF VisitInv, WithinBudget, BudgetKept
<1> QED  BY <1>1, VisitInvariant, PTL
=============================================================================
