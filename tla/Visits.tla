------------------------------- MODULE Visits -------------------------------
(***************************************************************************)
(* How visitors get an account without a password: the demo button         *)
(* (routers/auth.py, services/demo.py) behind the rate limiter             *)
(* (security/ratelimit.py), the GitHub callback, and the sweep that removes*)
(* demo accounts whose time is over (jobs/demo_cleanup.py).                *)
(*                                                                         *)
(* A request is named with the account it would open.  Time is counted     *)
(* down: life of an account, window of the counter, life of a token.       *)
(***************************************************************************)
EXTENDS Naturals, Integers, FiniteSets

CONSTANTS
    Requests,    \* POST /demo-session and /oauth/github, retried when they fail
    Owner,       \* an account with a password, there from the beginning
    Keys,        \* request keys and GitHub ids
    Addresses,   \* addresses GitHub may have verified
    Owned,       \* the Owner's address
    Guests,     \* who the visitors are
    Life,        \* DEMO_LIFETIME_HOURS, in ticks
    TokenLife,   \* access_token_ttl_minutes, in ticks
    Window,      \* DEMO_SESSION_LIMIT.seconds, in ticks
    Times,       \* DEMO_SESSION_LIMIT.times
    Batch,       \* limit of one sweep
    Production,  \* settings.is_production
    Faults,      \* bound on the failures of the store, the threads and the sweep
    Absent

Visitor == [kind : {"demo", "github"}, key : Keys, email : Addresses \cup {Absent}]
Accounts == Requests \cup {Owner}

ASSUME VisitsAssumption ==
    /\ Guests \subseteq [Requests -> Visitor]
    /\ Owner \notin Requests /\ Owned \in Addresses
    /\ Absent \notin Accounts \cup Keys \cup Addresses
    /\ {Life, TokenLife, Window, Times, Batch} \subseteq Nat \ {0}
    /\ Production \in BOOLEAN /\ Faults \in Nat

VARIABLES
    who,      \* the visitor behind each request
    phase,    \* progress of each request
    pending,  \* users inserted and not committed
    rows,     \* users
    filled,   \* those with their accounts, transactions and alerts
    email,    \* users.email, Absent for a placeholder
    life,     \* ticks until demo_expires_at, -1 once it is past
    answer,   \* the account each visitor was given
    token,    \* ticks its token still lives
    served,   \* life left to the account when it was last served (history)
    counter,  \* the limiter's key
    left,     \* ticks left of the limiter's window (history)
    admitted, \* requests let through in this window (history)
    lost,     \* counters Redis lost in this window (history)
    list,     \* accounts the sweep has read and not dealt with
    gone,     \* accounts it has deleted and not committed
    faults    \* failures so far

users == <<pending, rows, filled, email, life>>
visits == <<answer, token, served>>
limiter == <<counter, left, admitted, lost>>
sweep == <<list, gone>>
visitVars == <<who, phase, users, visits, limiter, sweep, faults>>

Phases == {"idle", "looking", "checking", "inserting", "rescuing", "seeding", "committing", "answered"}
NoTtl == -1

VisitsTypeOK ==
    /\ who \in Guests
    /\ phase \in [Requests -> Phases]
    /\ pending \subseteq Requests /\ rows \subseteq Accounts /\ filled \subseteq Accounts
    /\ email \in [Accounts -> Addresses \cup {Absent}]
    /\ life \in [Requests -> -1 .. Life]
    /\ answer \in [Requests -> Accounts \cup {Absent}]
    /\ token \in [Requests -> 0 .. TokenLife]
    /\ served \in [Requests -> -1 .. Life]
    /\ counter \in [count : 0 .. Times + 1, ttl : NoTtl .. Window]
    /\ left \in 0 .. Window
    /\ admitted \in Nat /\ lost \in 0 .. Faults
    /\ list \subseteq Requests /\ gone \subseteq Requests
    /\ faults \in 0 .. Faults

(* An older build may have left a counter that never expires.              *)
VisitsInit ==
    /\ who \in Guests
    /\ phase = [r \in Requests |-> "idle"]
    /\ pending = {} /\ rows = {Owner} /\ filled = {}
    /\ email = [a \in Accounts |-> IF a = Owner THEN Owned ELSE Absent]
    /\ life = [r \in Requests |-> Life]
    /\ answer = [r \in Requests |-> Absent]
    /\ token = [r \in Requests |-> 0]
    /\ served = [r \in Requests |-> Life]
    /\ counter \in {[count |-> 0, ttl |-> 0], [count |-> Times + 1, ttl |-> NoTtl]}
    /\ left = 0 /\ admitted = 0 /\ lost = 0
    /\ list = {} /\ gone = {}
    /\ faults = 0

Demo(r) == who[r].kind = "demo"
Reach(r, p) == phase' = [phase EXCEPT ![r] = p]
Again(r) == Reach(r, "idle") /\ life' = [life EXCEPT ![r] = Life]
Fault == faults < Faults /\ faults' = faults + 1
LeastOf(a, b) == IF a < b THEN a ELSE b

-----------------------------------------------------------------------------
(* The limiter: one script counts and sets the expiry.                     *)

(* Mutant of Counted: a key that lost its expiry is not repaired.          *)
CountedOnly ==
    [count |-> LeastOf(counter.count + 1, Times + 1),
     ttl |-> IF counter.count = 0 THEN Window ELSE counter.ttl]

(* The count matters up to one over the budget.                            *)
Counted ==
    [count |-> LeastOf(counter.count + 1, Times + 1),
     ttl |-> IF counter.count = 0 \/ counter.ttl = NoTtl THEN Window ELSE counter.ttl]

(* Mutant of Allowed: the count before this request.                       *)
AllowedBefore(c) == c.count <= Times \/ counter.count <= Times

Allowed(c) == c.count <= Times

(* A window opens with a counter, and is over when its time is and no      *)
(* counter that was begun in it is left.                                   *)
Opened(c) == IF c.ttl > left THEN c.ttl ELSE left

(* A refused visitor may ask again.                                        *)
Enforce(r) ==
    /\ phase[r] = "idle" /\ Demo(r)
    /\ counter' = Counted
    /\ left' = Opened(counter')
    /\ IF Allowed(Counted)
       THEN Reach(r, "looking") /\ admitted' = admitted + 1
       ELSE UNCHANGED <<phase, admitted>>
    /\ UNCHANGED <<who, users, visits, lost, sweep, faults>>

(* The store fails, before or after it counted: closed in production.      *)
EnforceBlindly(r) ==
    /\ phase[r] = "idle" /\ Demo(r)
    /\ Fault
    /\ counter' \in {counter, Counted}
    /\ left' = Opened(counter')
    /\ IF Production
       THEN UNCHANGED <<phase, admitted>>
       ELSE Reach(r, "looking") /\ admitted' = admitted + 1
    /\ UNCHANGED <<who, users, visits, lost, sweep>>

(* Redis restarts without its data or evicts the key, its expiry with it.  *)
LoseCounter ==
    /\ counter.count > 0
    /\ Fault
    /\ counter' = [count |-> 0, ttl |-> 0]
    /\ lost' = IF left > 0 THEN lost + 1 ELSE lost
    /\ UNCHANGED <<who, phase, users, visits, left, admitted, sweep>>

(* The callback is not limited.                                            *)
Callback(r) ==
    /\ phase[r] = "idle" /\ ~Demo(r)
    /\ Reach(r, "looking")
    /\ UNCHANGED <<who, users, visits, limiter, sweep, faults>>

-----------------------------------------------------------------------------
(* Provisioning.                                                           *)

Same(r, a) == a # Owner /\ who[a].kind = who[r].kind /\ who[a].key = who[r].key
Found(r) == {a \in rows : Same(r, a)}

(* The account's token, of a minute at least; a demo's dies with it.       *)
Give(r, a) ==
    /\ answer' = [answer EXCEPT ![r] = a]
    /\ token' = [token EXCEPT ![r] =
            IF Demo(r) THEN LeastOf(TokenLife, IF life[a] < 1 THEN 1 ELSE life[a]) ELSE TokenLife]
    /\ UNCHANGED served
    /\ Reach(r, "answered")

(* The deadline is set from the time the request began.                    *)
LookForAccount(r) ==
    /\ phase[r] = "looking"
    /\ \/ /\ Found(r) = {}
          /\ Reach(r, IF Demo(r) \/ who[r].email = Absent THEN "inserting" ELSE "checking")
          /\ email' = [email EXCEPT ![r] = Absent]
          /\ UNCHANGED visits
       \/ \E a \in Found(r) : Give(r, a) /\ UNCHANGED email
    /\ UNCHANGED <<who, pending, rows, filled, life, limiter, sweep, faults>>

(* A taken address is not adopted: the account gets a placeholder.         *)
CheckAddress(r) ==
    /\ phase[r] = "checking"
    /\ email' = [email EXCEPT ![r] =
            IF \E a \in rows : email[a] = who[r].email THEN Absent ELSE who[r].email]
    /\ Reach(r, "inserting")
    /\ UNCHANGED <<who, pending, rows, filled, life, visits, limiter, sweep, faults>>

(* The unique keys: demo_request_key, github_id, email.                    *)
Clash(r, a) == Same(r, a) \/ (email[a] = email[r] /\ email[r] # Absent)

(* Mutant of Insert: no unique key.                                        *)
InsertAnyway(r) ==
    /\ phase[r] = "inserting"
    /\ pending' = pending \cup {r}
    /\ Reach(r, IF Demo(r) THEN "seeding" ELSE "committing")
    /\ UNCHANGED <<who, rows, filled, email, life, visits, limiter, sweep, faults>>

(* It waits for whoever holds the key, uncommitted.                        *)
Insert(r) ==
    /\ phase[r] = "inserting"
    /\ ~\E a \in pending \cup gone : Clash(r, a)
    /\ IF \E a \in rows : Clash(r, a)
       THEN Reach(r, "rescuing") /\ UNCHANGED pending
       ELSE /\ pending' = pending \cup {r}
            /\ Reach(r, IF Demo(r) THEN "seeding" ELSE "committing")
    /\ UNCHANGED <<who, rows, filled, email, life, visits, limiter, sweep, faults>>

(* The winner's account, or an error the visitor retries.                  *)
Rescue(r) ==
    /\ phase[r] = "rescuing"
    /\ \/ Found(r) = {} /\ Again(r) /\ UNCHANGED visits
       \/ \E a \in Found(r) : Give(r, a) /\ UNCHANGED life
    /\ UNCHANGED <<who, pending, rows, filled, email, limiter, sweep, faults>>

Seed(r) ==
    /\ phase[r] = "seeding"
    /\ filled' = filled \cup {r}
    /\ Reach(r, "committing")
    /\ UNCHANGED <<who, pending, rows, email, life, visits, limiter, sweep, faults>>

Commit(r) ==
    /\ phase[r] = "committing"
    /\ rows' = rows \cup {r}
    /\ pending' = pending \ {r}
    /\ Give(r, r)
    /\ UNCHANGED <<who, filled, email, life, limiter, sweep, faults>>

(* The thread or the connection fails: nothing of the account is left.     *)
Fail(r) ==
    /\ phase[r] \notin {"idle", "answered"}
    /\ Fault
    /\ pending' = pending \ {r}
    /\ filled' = IF r \in pending THEN filled \ {r} ELSE filled
    /\ Again(r)
    /\ UNCHANGED <<who, rows, email, visits, limiter, sweep>>

-----------------------------------------------------------------------------
(* Visits.                                                                 *)

(* Mutant of Welcome: whoever holds a valid token.                         *)
WelcomeByToken(r) == token[r] > 0 /\ answer[r] \in rows

(* get_current_user: the token, the row, and the row's deadline.           *)
Welcome(r) ==
    /\ token[r] > 0 /\ answer[r] \in rows
    /\ Demo(r) => life[answer[r]] > 0

(* Any route, or POST /token, which gives a token of full length.          *)
Visit(r) ==
    /\ Welcome(r)
    /\ served' = IF Demo(r) THEN [served EXCEPT ![r] = life[answer[r]]] ELSE served
    /\ token' \in {token, [token EXCEPT ![r] = TokenLife]}
    /\ UNCHANGED <<who, phase, users, answer, limiter, sweep, faults>>

-----------------------------------------------------------------------------
(* The sweep: one transaction for the whole batch.                         *)

Expired == {a \in rows \cap Requests : Demo(a) /\ life[a] < 0}

(* Mutant of SweepReads: every demo account.                               *)
SweepReadsDemos ==
    /\ list = {} /\ gone = {}
    /\ list' = {a \in rows \cap Requests : Demo(a)} /\ list' # {}
    /\ UNCHANGED <<who, phase, users, visits, limiter, gone, faults>>

SweepReads ==
    /\ list = {} /\ gone = {}
    /\ list' \in {s \in SUBSET Expired : s # {} /\ Cardinality(s) <= Batch}
    /\ UNCHANGED <<who, phase, users, visits, limiter, gone, faults>>

(* Its files, its cache, its row; flushed.                                 *)
SweepDeletes(a) ==
    /\ a \in list
    /\ list' = list \ {a}
    /\ gone' = gone \cup {a}
    /\ UNCHANGED <<who, phase, users, visits, limiter, faults>>

(* One account fails: the session is rolled back, with the deletions that  *)
(* were only flushed, and the sweep goes on.                               *)
SweepSkips(a) ==
    /\ a \in list
    /\ Fault
    /\ list' = list \ {a}
    /\ gone' = {}
    /\ UNCHANGED <<who, phase, users, visits, limiter>>

SweepCommits ==
    /\ list = {} /\ gone # {}
    /\ rows' = rows \ gone
    /\ filled' = filled \ gone
    /\ gone' = {}
    /\ UNCHANGED <<who, phase, pending, email, life, visits, limiter, list, faults>>

-----------------------------------------------------------------------------
(* Time: of the accounts whose request has read the clock, of the tokens,  *)
(* of the counter, which Redis then forgets, and of the window.            *)
Less(n, floor) == IF n > floor THEN n - 1 ELSE n

Tick ==
    /\ life' = [r \in Requests |->
            IF phase[r] = "idle" THEN life[r] ELSE Less(life[r], -1)]
    /\ token' = [r \in Requests |-> Less(token[r], 0)]
    /\ counter' = IF counter.ttl = NoTtl THEN counter
                  ELSE IF counter.ttl <= 1 THEN [count |-> 0, ttl |-> 0]
                  ELSE [counter EXCEPT !.ttl = @ - 1]
    /\ left' = Less(left, 0)
    /\ IF left <= 1 THEN admitted' = 0 /\ lost' = 0 ELSE UNCHANGED <<admitted, lost>>
    /\ UNCHANGED <<who, phase, pending, rows, filled, email, answer, served, sweep, faults>>

-----------------------------------------------------------------------------
Provision(r) ==
    \/ Enforce(r) \/ Callback(r) \/ LookForAccount(r) \/ CheckAddress(r) \/ Insert(r)
    \/ Rescue(r) \/ Seed(r) \/ Commit(r)

Sweep == SweepReads \/ SweepCommits \/ \E a \in Requests : SweepDeletes(a)

VisitsNext ==
    \/ \E r \in Requests : Provision(r) \/ EnforceBlindly(r) \/ Fail(r) \/ Visit(r) \/ SweepSkips(r)
    \/ LoseCounter \/ Sweep \/ Tick

(* Visitors ask again, threads run, time passes, the sweep is scheduled.   *)
VisitsFairSpec ==
    /\ VisitsInit /\ [][VisitsNext]_visitVars
    /\ \A r \in Requests : WF_visitVars(Provision(r))
    /\ WF_visitVars(Sweep) /\ WF_visitVars(Tick)

-----------------------------------------------------------------------------
(* A key or a GitHub id has one account, with its data complete, and an    *)
(* address one account; nobody is ever given an account that was opened for*)
(* another key or id, not even one that has the address GitHub verified.   *)
(* (services/demo.py: "two concurrent requests with the same key cannot    *)
(* both win"; routers/auth.py: "NEVER adopted because its email matches".) *)
OneAccountEach ==
    /\ \A a, b \in rows : a # b =>
            /\ a # Owner => ~Same(a, b)
            /\ email[a] = Absent \/ email[a] # email[b]
    /\ \A r \in Requests : answer[r] # Absent => Same(r, answer[r])
    /\ \A r \in rows \cap Requests : Demo(r) => r \in filled

(* "A demo session cannot be extended by staying logged in": nothing is    *)
(* served to a demo visitor once the deadline has come, however often the  *)
(* token was renewed; and the sweep never deletes what can be served.      *)
DeadlineHolds ==
    /\ \A r \in Requests : Demo(r) => served[r] > 0
    /\ \A a \in list \cup gone : a \in rows => Demo(a) /\ life[a] < 0

(* In production no window lets more demo accounts be asked for than the   *)
(* budget, and as much again for every time Redis lost the counter in it:  *)
(* a stranded counter, a call that counted and failed, and a counter begun *)
(* anew while the window was open add nothing.                             *)
BudgetKept == Production => admitted <= Times * (1 + lost)

(* A counter that lost its expiry locks nobody out for good, a visitor who *)
(* keeps asking gets an account however the requests race and fail, and    *)
(* every demo account is removed in the end.                               *)
VisitsEnd ==
    <>[](/\ \A r \in Requests : phase[r] = "answered"
         /\ \A r \in rows \cap Requests : ~Demo(r))
=============================================================================
