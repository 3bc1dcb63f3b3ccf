------------------------------ MODULE Answers -------------------------------
(***************************************************************************)
(* Questions a user asks about the ledger, and the cache that answers them *)
(* again (routers/analysis.py, services/analysis/runner.py, cache.py and   *)
(* the queries of executor.py), while the transactions are corrected,      *)
(* imported and deleted.                                                   *)
(*                                                                         *)
(* Every statement of a question reads its own snapshot (READ COMMITTED);  *)
(* the run's row and its steps are flushed as they come and committed once *)
(* at the end.  updated_at is now(), when the writing transaction BEGAN.   *)
(* Redis may fail at any call, entries may expire at any time, and a client*)
(* may leave at any time: a guard then finds it gone, or the server cancels*)
(* its stream.                                                             *)
(***************************************************************************)
EXTENDS Naturals, FiniteSets, FiniteSetsExt

CONSTANTS
    Asks,       \* POST /analysis/runs requests, each with the run it opens
    Questions,  \* normalised questions
    Scripts,    \* what the requests ask for, what is written meanwhile, and
                \* whether the user deletes all data
    Rows,       \* transactions the user may have
    Held,       \* those there from the beginning
    Writes,     \* transactions (of the database) that correct or import a row
    Imports,    \* those that import one
    Target,     \* the row each of them writes
    Nothing     \* no row, no run, no entry

Request == [text : Questions, refines : Asks \cup {Nothing}, advice : BOOLEAN, cached : BOOLEAN]

ASSUME AnswersAssumption ==
    /\ Scripts \subseteq [asks : [Asks -> Request], writes : SUBSET Writes, erases : BOOLEAN]
    /\ Held \subseteq Rows
    /\ Imports \subseteq Writes
    /\ Target \in [Writes -> Rows]
    /\ Nothing \notin Asks \cup Rows \cup Writes /\ "held" \notin Writes \cup {Nothing}
    /\ Rows \cap Asks = {}
    /\ IsFiniteSet(Rows) /\ IsFiniteSet(Writes)

VARIABLES
    data,     \* the write that last committed each row, or "held"
    began,    \* the order in which the writes began, 0 for none yet
    open,     \* writes that have begun and not ended
    cache,    \* Redis: the run each key names
    index,    \* Redis: the keys listed for the user
    script,   \* what is asked for and done
    at,       \* progress of each request
    mark,     \* the data watermark it read
    version,  \* changes of the data committed so far (history)
    basis,    \* the version that watermark was read from (history)
    overtaken,\* writes then open that began before the newest it counted (history)
    hit,      \* the run the cache named
    oldest,   \* the oldest version its statements saw (history)
    saved,    \* its analysis_runs row
    told,     \* how its stream ended
    erase,    \* progress of the deletion
    doomed    \* rows and runs it has deleted and not committed

ledger == <<data, version, began, open>>
redis == <<cache, index>>
reading == <<mark, basis, overtaken, hit, oldest>>
erasure == <<erase, doomed>>
vars == <<ledger, redis, script, at, reading, saved, told, erasure>>

Versions == 0 .. Cardinality(Writes) + 1

TypeOK ==
    /\ data \in [Rows -> Writes \cup {"held", Nothing}]
    /\ version \in Versions
    /\ began \in [Writes -> 0 .. Cardinality(Writes)]
    /\ open \subseteq Writes
    /\ \A c \in cache : c.run \in Asks
    /\ script \in Scripts
    /\ at \in [Asks -> {"idle", "looking", "replaying", "understanding", "selecting",
                        "aggregating", "totalled", "composing", "committing", "storing", "ended"}]
    /\ hit \in [Asks -> Asks \cup {Nothing}]
    /\ basis \in [Asks -> Versions] /\ oldest \in [Asks -> Versions]
    /\ saved \in [Asks -> {Nothing, "COMPLETE", "DECLINED", "CANCELLED", "FAILED"}]
    /\ told \in [Asks -> {"nothing", "replayed", "result", "declined", "cancelled", "error"}]
    /\ erase \in {"idle", "deleted", "purged", "done", "aborted"}
    /\ doomed \subseteq Rows \cup Asks

Init ==
    /\ data = [r \in Rows |-> IF r \in Held THEN "held" ELSE Nothing]
    /\ began = [w \in Writes |-> 0]
    /\ open = {}
    /\ cache = {} /\ index = {}
    /\ script \in Scripts
    /\ at = [a \in Asks |-> "idle"]
    /\ mark = [a \in Asks |-> <<0, 0>>]
    /\ version = 0
    /\ basis = [a \in Asks |-> 0]
    /\ overtaken = [a \in Asks |-> {}]
    /\ hit = [a \in Asks |-> Nothing]
    /\ oldest = [a \in Asks |-> 0]
    /\ saved = [a \in Asks |-> Nothing]
    /\ told = [a \in Asks |-> "nothing"]
    /\ erase = "idle"
    /\ doomed = {}

-----------------------------------------------------------------------------
(* Corrections and imports: updated_at is the moment the transaction began.*)

BeginWrite(w) ==
    /\ w \in script.writes /\ began[w] = 0
    /\ w \in Imports \/ data[Target[w]] # Nothing
    /\ began' = [began EXCEPT ![w] = 1 + Max({began[v] : v \in Writes})]
    /\ open' = open \cup {w}
    /\ UNCHANGED <<data, version, redis, script, at, reading, saved, told, erasure>>

(* An UPDATE waits for the deletion that holds its row.                    *)
CommitWrite(w) ==
    /\ w \in open
    /\ Target[w] \notin doomed
    /\ w \in Imports \/ data[Target[w]] # Nothing
    /\ data' = [data EXCEPT ![Target[w]] = w]
    /\ version' = version + 1
    /\ open' = open \ {w}
    /\ UNCHANGED <<began, redis, script, at, reading, saved, told, erasure>>

(* It fails, or its row is gone.                                           *)
AbortWrite(w) ==
    /\ w \in open
    /\ open' = open \ {w}
    /\ UNCHANGED <<data, version, began, redis, script, at, reading, saved, told, erasure>>

-----------------------------------------------------------------------------
(* One request.                                                            *)

Goto(a, step) == at' = [at EXCEPT ![a] = step]

(* The history of a request is kept as long as a replay may be judged by it*)
End(a, how) ==
    /\ Goto(a, "ended")
    /\ told' = [told EXCEPT ![a] = how]
    /\ mark' = [mark EXCEPT ![a] = <<0, 0>>]
    /\ basis' = IF how = "replayed" THEN basis ELSE [basis EXCEPT ![a] = 0]
    /\ oldest' = IF how = "result" THEN oldest ELSE [oldest EXCEPT ![a] = 0]
    /\ overtaken' = IF how = "result" THEN overtaken ELSE [overtaken EXCEPT ![a] = {}]

Present == {r \in Rows : data[r] # Nothing}
UpdatedAt(r) == IF data[r] = "held" THEN 0 ELSE began[data[r]]
Newest == Max({UpdatedAt(r) : r \in Present})

(* Mutant of Watermark: the number of rows alone.                          *)
WatermarkCount(a) == <<0, Cardinality(Present)>>

(* coalesce(max(updated_at), now()) and the number of rows.                *)
Watermark(a) ==
    IF Present = {} THEN <<a, 0>> ELSE <<Newest, Cardinality(Present)>>

ReadWatermark(a) ==
    /\ at[a] = "idle"
    /\ mark' = [mark EXCEPT ![a] = Watermark(a)]
    /\ basis' = [basis EXCEPT ![a] = version]
    /\ overtaken' = [overtaken EXCEPT ![a] =
                        IF Present = {} THEN {} ELSE {w \in open : began[w] < Newest}]
    /\ Goto(a, IF script.asks[a].cached THEN "looking" ELSE "understanding")
    /\ UNCHANGED <<ledger, redis, script, hit, oldest, saved, told, erasure>>

(* build_cache_key of the question, the refinement and the watermark.      *)
Key(a) == <<script.asks[a].text, script.asks[a].refines, mark[a]>>

(* The stream goes on, or ends.                                            *)
Go(a, step) == Goto(a, step) /\ UNCHANGED <<told, mark, basis, oldest, overtaken>>

(* An unreachable cache is a miss.                                         *)
LookUp(a) ==
    /\ at[a] = "looking"
    /\ \/ Go(a, "understanding") /\ UNCHANGED hit
       \/ \E c \in cache : /\ c.key = Key(a)
                           /\ hit' = [hit EXCEPT ![a] = c.run]
                           /\ Go(a, "replaying")
    /\ UNCHANGED <<ledger, redis, script, saved, erasure>>

(* Mutant of Replay: no answer when the run is not there.                  *)
ReplayOrWait(a) ==
    /\ at[a] = "replaying"
    /\ saved[hit[a]] = "COMPLETE"
    /\ End(a, "replayed")
    /\ UNCHANGED <<ledger, redis, script, hit, saved, erasure>>

(* Only a complete run of the user that still exists; or else afresh.      *)
Replay(a) ==
    /\ at[a] = "replaying"
    /\ IF saved[hit[a]] = "COMPLETE" THEN End(a, "replayed") ELSE Go(a, "understanding")
    /\ UNCHANGED <<ledger, redis, script, hit, saved, erasure>>

Finish(a, status, how) ==
    /\ saved' = [saved EXCEPT ![a] = status]
    /\ End(a, how)

(* The run is flushed and its id sent.  Advice is declined; a refinement   *)
(* needs its complete, planned run.                                        *)
Understand(a) ==
    /\ at[a] = "understanding"
    /\ \/ script.asks[a].advice /\ Finish(a, "DECLINED", "declined")
       \/ /\ ~script.asks[a].advice
          /\ script.asks[a].refines # Nothing /\ saved[script.asks[a].refines] # "COMPLETE"
          /\ Finish(a, "FAILED", "error")
       \/ /\ ~script.asks[a].advice
          /\ script.asks[a].refines # Nothing => saved[script.asks[a].refines] = "COMPLETE"
          /\ Go(a, "selecting")
          /\ UNCHANGED saved
    /\ UNCHANGED <<ledger, redis, script, hit, erasure>>

(* Versions only grow: the first statement sees the oldest one.            *)
Query(a, next) ==
    /\ oldest' = IF at[a] = "selecting" THEN [oldest EXCEPT ![a] = version] ELSE oldest
    /\ Goto(a, next)
    /\ UNCHANGED <<ledger, redis, script, mark, basis, overtaken, hit, saved, told, erasure>>

(* count_matching.                                                         *)
Select(a) == at[a] = "selecting" /\ Query(a, "aggregating")

(* _scalar_total; then the groups, the comparison, the supporting rows and *)
(* the other currencies, one statement after another.                      *)
Aggregate(a) == at[a] = "aggregating" /\ Query(a, "totalled")
ReadMore(a) == at[a] = "totalled" /\ Query(a, "composing")

(* SETEX: the last run stored under a key.                                 *)
Entered(a) == {c \in cache : c.key # Key(a)} \cup {[key |-> Key(a), run |-> a]}

(* Mutant of Compose: the run is offered to others before it is committed. *)
ComposeAndStore(a) ==
    /\ at[a] = "composing"
    /\ cache' = Entered(a)
    /\ Go(a, "committing")
    /\ UNCHANGED <<ledger, index, script, hit, saved, erasure>>

(* The charts and the narrative, from what was read.                       *)
Compose(a) ==
    /\ at[a] = "composing"
    /\ Go(a, "committing")
    /\ UNCHANGED <<ledger, redis, script, hit, saved, erasure>>

CommitRun(a) ==
    /\ at[a] = "committing"
    /\ saved' = [saved EXCEPT ![a] = "COMPLETE"]
    /\ Go(a, "storing")
    /\ UNCHANGED <<ledger, redis, script, hit, erasure>>

(* store_run_id sets the entry, then lists its key; it may fail before,    *)
(* between or after.  Then the result is sent.                             *)
StoreRun(a) ==
    /\ at[a] = "storing"
    /\ \/ UNCHANGED redis
       \/ cache' = Entered(a) /\ (index' = index \/ index' = index \cup {Key(a)})
    /\ End(a, "result")
    /\ UNCHANGED <<ledger, script, hit, saved, erasure>>

(* The guard of one of the five steps finds the client gone.               *)
Cancel(a) ==
    /\ at[a] \in {"understanding", "selecting", "aggregating", "composing"}
    /\ Finish(a, "CANCELLED", "cancelled")
    /\ UNCHANGED <<ledger, redis, script, hit, erasure>>

(* An exception: FAILED is committed, unless it was raised before the run  *)
(* was opened or the database itself has failed.  Or the server cancels the*)
(* stream of a client that left, and what was not committed is rolled back.*)
Break(a) ==
    /\ at[a] \notin {"idle", "ended"}
    /\ End(a, "error")
    /\ \/ UNCHANGED saved
       \/ /\ at[a] \in {"understanding", "selecting", "aggregating", "totalled", "composing", "committing"}
          /\ saved' = [saved EXCEPT ![a] = "FAILED"]
    /\ UNCHANGED <<ledger, redis, script, hit, erasure>>

-----------------------------------------------------------------------------
(* Entries expire; the user's index outlives them.                         *)
Expire ==
    /\ \E c \in cache : cache' = cache \ {c}
    /\ UNCHANGED <<ledger, index, script, at, reading, saved, told, erasure>>

(* The deletion of all data: the rows, then the cache, then the commit.    *)
DeleteRows ==
    /\ script.erases /\ erase = "idle"
    /\ doomed' = Present \cup {a \in Asks : saved[a] # Nothing}
    /\ erase' = "deleted"
    /\ UNCHANGED <<ledger, redis, script, at, reading, saved, told>>

(* purge_user_cache finds the entries through the index; a failure counts  *)
(* as nothing removed.                                                     *)
PurgeCache ==
    /\ erase = "deleted"
    /\ \/ UNCHANGED redis
       \/ cache' = {c \in cache : c.key \notin index} /\ (index' = {} \/ index' = index)
    /\ erase' = "purged"
    /\ UNCHANGED <<ledger, script, at, reading, saved, told, doomed>>

CommitErase ==
    /\ erase = "purged"
    /\ data' = [r \in Rows |-> IF r \in doomed THEN Nothing ELSE data[r]]
    /\ saved' = [a \in Asks |-> IF a \in doomed THEN Nothing ELSE saved[a]]
    /\ doomed' = {}
    /\ erase' = "done"
    /\ version' = IF doomed \cap Rows = {} THEN version ELSE version + 1
    /\ UNCHANGED <<began, open, redis, script, at, reading, told>>

AbortErase ==
    /\ erase \in {"deleted", "purged"}
    /\ doomed' = {}
    /\ erase' = "aborted"
    /\ UNCHANGED <<ledger, redis, script, at, reading, saved, told>>

-----------------------------------------------------------------------------
Step(a) ==
    \/ LookUp(a) \/ Replay(a) \/ Understand(a) \/ Select(a) \/ Aggregate(a) \/ ReadMore(a)
    \/ Compose(a) \/ CommitRun(a) \/ StoreRun(a)

Write(w) == BeginWrite(w) \/ CommitWrite(w) \/ AbortWrite(w)

Next ==
    \/ \E a \in Asks : ReadWatermark(a) \/ Step(a) \/ Cancel(a) \/ Break(a)
    \/ \E w \in Writes : Write(w)
    \/ Expire \/ DeleteRows \/ PurgeCache \/ CommitErase \/ AbortErase

(* The event loop resumes every stream it has begun.                       *)
FairSpec == Init /\ [][Next]_vars /\ \A a \in Asks : WF_vars(Step(a))

-----------------------------------------------------------------------------
(* "The cache key folds in the user's data watermark" (cache.py): a        *)
(* replayed answer was computed from data no older than what the ledger    *)
(* held when it was asked for again.  Only a write that had begun before   *)
(* the newest one the first run counted, and committed after the run       *)
(* looked, escapes the watermark.                                          *)
ReplayCurrent ==
    \A a \in Asks : told[a] = "replayed" =>
        \/ oldest[hit[a]] >= basis[a]
        \/ \E w \in overtaken[hit[a]] : w \notin open

(* The cache only ever names runs on record: computed to the end and       *)
(* committed, never one that was cancelled, failed, declined or lost; and  *)
(* whoever was told a result finds it on record, until the data is deleted.*)
CacheNamesAnswers ==
    \A a \in Asks :
        (\E c \in cache : c.run = a) \/ told[a] = "result" =>
            saved[a] = "COMPLETE" \/ (saved[a] = Nothing /\ erase = "done")

(* "A stream must always terminate cleanly" (routers/analysis.py): every   *)
(* question that was begun ends, whatever the cache says, however often    *)
(* Redis fails, and whatever happens to the run it would have replayed.    *)
EveryAskEnds == <>[](\A a \in Asks : at[a] \in {"idle", "ended"})
=============================================================================
