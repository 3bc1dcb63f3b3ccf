------------------------ MODULE MaintenanceSchedule ------------------------
(***************************************************************************)
(* Which worker runs a periodic sweep, and when: run_sweep_if_due          *)
(* (maintenance/schedule.py), evaluated on every tick by the maintenance   *)
(* thread of each worker (maintenance/supervisor.py), over one Redis lock  *)
(* and one Redis last-run marker.                                          *)
(*                                                                         *)
(* Sweeps have separate keys, so one sweep is modelled.  Times are kept as *)
(* ages that stop growing once they can no longer matter, so that the      *)
(* model runs for ever in finitely many states.                            *)
(***************************************************************************)
EXTENDS Integers

CONSTANTS
    Workers,     \* worker processes, each with a maintenance thread
    NoOne,       \* the lock key is absent
    Ghost,       \* a token whose SET was applied and whose reply was lost
    Never,       \* the marker key is absent or unreadable
    Interval,    \* interval_seconds
    LockTTL,     \* LOCK_TTL_MS
    RunLimit     \* the longest an evaluation lasts, from its clock reading

ASSUME ScheduleAssumption ==
    /\ NoOne \notin Workers /\ Ghost \notin Workers /\ NoOne # Ghost
    /\ Never \notin Nat
    /\ {Interval, LockTTL, RunLimit} \subseteq Nat \ {0}

VARIABLES
    pc,          \* where each worker's evaluation is
    since,       \* time since it read the clock ("now")
    holder,      \* value of the lock key
    lockLeft,    \* remaining time to live of the lock key
    markerAge    \* age of the last-run marker

scheduleVars == <<pc, since, holder, lockLeft, markerAge>>

(* Beyond this age a marker is due however old the reader's clock is. *)
OldAge == Interval + RunLimit

ScheduleTypeOK ==
    /\ pc \in [Workers -> {"asleep", "due", "locked", "running", "ran", "releasing"}]
    /\ since \in [Workers -> 0 .. RunLimit]
    /\ holder \in Workers \cup {NoOne, Ghost}
    /\ lockLeft \in 0 .. LockTTL
    /\ markerAge \in (0 .. OldAge) \cup {Never}

ScheduleInit ==
    /\ pc = [w \in Workers |-> "asleep"]
    /\ since = [w \in Workers |-> 0]
    /\ holder = NoOne
    /\ lockLeft = 0
    /\ markerAge = Never

Proceed(w, l) == pc' = [pc EXCEPT ![w] = l]

(* Every exit from run_sweep_if_due. *)
Return(w) == Proceed(w, "asleep") /\ since' = [since EXCEPT ![w] = 0]

(* Mutant: an absent or unreadable marker is not due. *)
DueWithMarker(w) == markerAge # Never /\ markerAge - since[w] >= Interval

(* _seconds_since_last_run, against the clock reading of the evaluation. *)
Due(w) == markerAge = Never \/ (markerAge # Never /\ markerAge - since[w] >= Interval)

-----------------------------------------------------------------------------
(* A tick reads the clock and finds the sweep due. *)
FindDue(w) ==
    /\ pc[w] = "asleep"
    /\ Due(w)
    /\ Proceed(w, "due")
    /\ UNCHANGED <<since, holder, lockLeft, markerAge>>

(* Mutant: SET without NX. *)
AcquireAnyway(w) ==
    /\ pc[w] = "due"
    /\ holder' = w
    /\ lockLeft' = LockTTL
    /\ Proceed(w, "locked")
    /\ UNCHANGED <<since, markerAge>>

(* SET key token NX PX ttl. *)
Acquire(w) ==
    /\ pc[w] = "due"
    /\ holder = NoOne
    /\ holder' = w
    /\ lockLeft' = LockTTL
    /\ Proceed(w, "locked")
    /\ UNCHANGED <<since, markerAge>>

FindLocked(w) ==
    /\ pc[w] = "due"
    /\ holder # NoOne
    /\ Return(w)
    /\ UNCHANGED <<holder, lockLeft, markerAge>>

(* Redis is unreachable; the SET may have been applied all the same. *)
AcquireFails(w) ==
    /\ pc[w] = "due"
    /\ Return(w)
    /\ \/ UNCHANGED <<holder, lockLeft>>
       \/ holder = NoOne /\ holder' = Ghost /\ lockLeft' = LockTTL
    /\ UNCHANGED markerAge

(* Mutant: the marker is not read again under the lock. *)
RecheckNothing(w) ==
    /\ pc[w] = "locked"
    /\ Proceed(w, "running")
    /\ UNCHANGED <<since, holder, lockLeft, markerAge>>

(* The marker is read again under the lock. *)
Recheck(w) ==
    /\ pc[w] = "locked"
    /\ Proceed(w, IF Due(w) THEN "running" ELSE "releasing")
    /\ UNCHANGED <<since, holder, lockLeft, markerAge>>

RecheckFails(w) ==
    /\ pc[w] = "locked"
    /\ Proceed(w, "releasing")
    /\ UNCHANGED <<since, holder, lockLeft, markerAge>>

SweepSucceeds(w) ==
    /\ pc[w] = "running"
    /\ Proceed(w, "ran")
    /\ UNCHANGED <<since, holder, lockLeft, markerAge>>

(* A failed sweep stays due: no marker is written. *)
SweepFails(w) ==
    /\ pc[w] = "running"
    /\ Proceed(w, "releasing")
    /\ UNCHANGED <<since, holder, lockLeft, markerAge>>

(* The time at which the run finished. *)
WriteMarker(w) ==
    /\ pc[w] = "ran"
    /\ markerAge' = 0
    /\ Proceed(w, "releasing")
    /\ UNCHANGED <<since, holder, lockLeft>>

WriteMarkerFails(w) ==
    /\ pc[w] = "ran"
    /\ Proceed(w, "releasing")
    /\ UNCHANGED <<since, holder, lockLeft, markerAge>>

(* Compare and delete: a lock that expired meanwhile may be another's. *)
Release(w) ==
    /\ pc[w] = "releasing"
    /\ Return(w)
    /\ IF holder = w THEN holder' = NoOne /\ lockLeft' = 0
                     ELSE UNCHANGED <<holder, lockLeft>>
    /\ UNCHANGED markerAge

ReleaseFails(w) ==
    /\ pc[w] = "releasing"
    /\ Return(w)
    /\ UNCHANGED <<holder, lockLeft, markerAge>>

(* The process dies without unwinding. *)
Die(w) ==
    /\ pc[w] # "asleep"
    /\ Return(w)
    /\ UNCHANGED <<holder, lockLeft, markerAge>>

(* Redis lets the lock key expire. *)
Advance ==
    /\ \A w \in Workers : pc[w] # "asleep" => since[w] < RunLimit
    /\ since' = [w \in Workers |-> IF pc[w] = "asleep" THEN 0 ELSE since[w] + 1]
    /\ lockLeft' = IF lockLeft > 0 THEN lockLeft - 1 ELSE 0
    /\ holder' = IF lockLeft <= 1 THEN NoOne ELSE holder
    /\ markerAge' = IF markerAge = Never THEN Never
                    ELSE IF markerAge < OldAge THEN markerAge + 1 ELSE markerAge
    /\ UNCHANGED pc

ScheduleNext ==
    \/ Advance
    \/ \E w \in Workers :
          \/ FindDue(w) \/ Acquire(w) \/ FindLocked(w) \/ AcquireFails(w)
          \/ Recheck(w) \/ RecheckFails(w)
          \/ SweepSucceeds(w) \/ SweepFails(w)
          \/ WriteMarker(w) \/ WriteMarkerFails(w)
          \/ Release(w) \/ ReleaseFails(w) \/ Die(w)

ScheduleSpec == ScheduleInit /\ [][ScheduleNext]_scheduleVars

(* Every thread keeps ticking and time passes.  Redis, the sweep and the   *)
(* process may fail any number of times, but not every time.               *)
ScheduleFairness ==
    /\ WF_scheduleVars(Advance)
    /\ \A w \in Workers :
          /\ WF_scheduleVars(FindDue(w))
          /\ WF_scheduleVars(FindLocked(w))
          /\ WF_scheduleVars(Release(w) \/ ReleaseFails(w))
    /\ SF_scheduleVars(\E w \in Workers : Acquire(w))
    /\ SF_scheduleVars(\E w \in Workers : Recheck(w))
    /\ SF_scheduleVars(\E w \in Workers : SweepSucceeds(w))
    /\ SF_scheduleVars(\E w \in Workers : WriteMarker(w))

ScheduleFairSpec == ScheduleSpec /\ ScheduleFairness

-----------------------------------------------------------------------------
(***************************************************************************)
(* Properties.                                                             *)
(***************************************************************************)

(* "Only one runner": two workers never run the sweep at the same time,    *)
(* however their evaluations, deaths and lost replies interleave.          *)
OneRunner ==
    \A v, w \in Workers : pc[v] = "running" /\ pc[w] = "running" => v = w

(* Completed runs are an interval apart: when a run records itself, the    *)
(* last recorded one is at least an interval old, whoever recorded it.     *)
CompletionsSpaced ==
    [][\A w \in Workers :
          WriteMarker(w) => markerAge = Never \/ markerAge >= Interval]_scheduleVars

(* A worker that dies holding the lock, or a lost reply, never stops the   *)
(* schedule: the sweep completes again and again.                          *)
SweepsRecur == []<>(markerAge = 0)
=============================================================================
