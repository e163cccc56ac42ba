--------------------------- MODULE AutomationQueue ---------------------------
(***************************************************************************)
(* The automation job queue (backend/app/services/automation): clients     *)
(* enqueue jobs through the API under the policy of their wallet, worker   *)
(* processes claim them one at a time, run a scan, and record incidents.   *)
(*                                                                         *)
(* A worker keeps everything it does for a job in one open READ COMMITTED  *)
(* transaction, from the SELECT ... FOR UPDATE SKIP LOCKED to the commit   *)
(* of the polling loop: work[v] is that uncommitted state, and the row     *)
(* lock is the mere fact that work[v].job = j.  An enqueue reads the       *)
(* policy, counts the jobs of the day and inserts; other transactions      *)
(* commit in between.                                                      *)
(*                                                                         *)
(* A policy that was never stored is equal to the stored default, because  *)
(* get_or_create_policy creates the default and a refused enqueue rolls it *)
(* back.  The amount and allowlist tests of a payload refuse an enqueue    *)
(* without a trace and no handler reads the payload, so a refused payload  *)
(* is an enqueue that is not begun.  The type of a job matters only to its *)
(* handler: each attempt may be of any type.                               *)
(***************************************************************************)
EXTENDS Naturals, FiniteSets

CONSTANTS
    Wallets,      \* wallet addresses
    Jobs,         \* ids of the jobs that may be enqueued
    Txs,          \* staking transactions a scan may find stuck
    TxOwner,      \* TxOwner[x]: the wallet of transaction x
    Signals,      \* what the scans of rewards and of risk may report
    Clients,      \* concurrent enqueue requests
    Workers,      \* worker processes
    Schedules,    \* the values of scheduled_for
    Caps,         \* values of max_daily_jobs
    DefaultCap,   \* the default of max_daily_jobs
    MaxAttempts,  \* max_attempts of a job
    DayLength,    \* clock ticks in a UTC day
    MaxTime,      \* bound: the clock stops here
    MaxCrashes,   \* bound: worker crashes
    None

ASSUME TxOwnerAssumption == TxOwner \in [Txs -> Wallets]
ASSUME CapAssumption == Caps \subseteq Nat /\ DefaultCap \in Caps
\* The API accepts 500 at most.
ASSUME LargestAssumption == \E cap \in Caps : \A other \in Caps : other <= cap
ASSUME SizeAssumption ==
    IsFiniteSet(Jobs) /\ IsFiniteSet(Clients) /\ Clients # {}
ASSUME WorkersAssumption == IsFiniteSet(Workers)
ASSUME AttemptsAssumption == MaxAttempts \in Nat \ {0}
ASSUME ClockAssumption == /\ DayLength \in Nat \ {0}
                          /\ MaxTime \in Nat
                          /\ MaxCrashes \in Nat
ASSUME ScheduleAssumption == Schedules \subseteq 0..MaxTime
ASSUME NullAssumption == None \notin Jobs \cup Wallets
ASSUME SignalAssumption == Signals \cap Txs = {}

VARIABLES
    now,        \* the clock
    policy,     \* policy[w]: the committed policy of w
    job,        \* job[j]: the committed row of j in automation_jobs
    incidents,  \* the committed rows of automation_incidents, all unresolved
    request,    \* request[c]: the enqueue request c
    work,       \* work[v]: the open transaction of worker v
    allowed,    \* allowed[v]: history variable, see KillSwitchHolds
    crashes     \* how many workers have died

vars == <<now, policy, job, incidents, request, work, allowed, crashes>>

----------------------------------------------------------------------------
Day(time) == time \div DayLength

Policies == [opt_in : BOOLEAN, kill_switch : BOOLEAN, cap : Caps]

DefaultPolicy == [opt_in |-> FALSE, kill_switch |-> FALSE, cap |-> DefaultCap]

Allowed(p) == p.opt_in /\ ~p.kill_switch

Final == {"completed", "failed", "cancelled"}

JobRows ==
    [status : {"none", "pending"} \cup Final, wallet : Wallets \cup {None},
     attempts : 0..MaxAttempts, scheduled : 0..MaxTime, created : Nat]

\* No row yet: the id has not been handed out.
NoJob == [status |-> "none", wallet |-> None, attempts |-> 0, scheduled |-> 0,
          created |-> 0]

\* The incident that attempt a of job j records about subject x: a stuck
\* transaction, or a signal.
Incident(j, a, x) == [job |-> j, attempt |-> a, about |-> x]

NoRequest == [phase |-> "idle", wallet |-> None, cap |-> 0, day |-> 0]

NoWork == [phase |-> "idle", job |-> None, todo |-> {}, own |-> {}]

Init ==
    /\ now = 0
    /\ policy = [w \in Wallets |-> DefaultPolicy]
    /\ job = [j \in Jobs |-> NoJob]
    /\ incidents = {}
    /\ request = [c \in Clients |-> NoRequest]
    /\ work = [v \in Workers |-> NoWork]
    /\ allowed = [v \in Workers |-> FALSE]
    /\ crashes = 0

----------------------------------------------------------------------------
Tick ==
    /\ now < MaxTime
    /\ now' = now + 1
    /\ UNCHANGED <<policy, job, incidents, request, work, allowed, crashes>>

(***************************************************************************)
(* PUT policy and POST kill-switch.  Only the columns whose value differs  *)
(* from the one read earlier in the request are written, so what overlaps  *)
(* with another update may write any part of its fields: p is any policy.  *)
(***************************************************************************)
SetPolicy(w, p) ==
    /\ policy' = [policy EXCEPT ![w] = p]
    /\ allowed' = [v \in Workers |->
                     \/ allowed[v]
                     \/ /\ work[v].job # None
                        /\ job[work[v].job].wallet = w
                        /\ Allowed(p)]
    /\ UNCHANGED <<now, job, incidents, request, work, crashes>>

----------------------------------------------------------------------------
(***************************************************************************)
(* Enqueueing: enqueue_job and post_automation_job.                        *)
(***************************************************************************)
\* The first statement starts the database transaction, whose time becomes
\* created_at, and reads the policy; later tests use that copy of it.
Begin(c, w) ==
    /\ request[c].phase = "idle"
    /\ Allowed(policy[w])
    /\ request' = [request EXCEPT ![c] =
                     [phase |-> "begun", wallet |-> w,
                      cap |-> policy[w].cap, day |-> Day(now)]]
    /\ UNCHANGED <<now, policy, job, incidents, work, allowed, crashes>>

\* The jobs of w that count from the beginning of day d on.
Since(w, d) ==
    {j \in Jobs : /\ job[j].status \notin {"none", "cancelled"}
                  /\ job[j].wallet = w
                  /\ job[j].created >= d}

\* The count against the cap: "today" is the day of this moment.
Count(c) ==
    /\ request[c].phase = "begun"
    /\ request' =
         [request EXCEPT ![c] =
            IF Cardinality(Since(@.wallet, Day(now))) >= @.cap
            THEN NoRequest
            ELSE [@ EXCEPT !.phase = "counted"]]
    /\ UNCHANGED <<now, policy, job, incidents, work, allowed, crashes>>

\* The ids that uuid4 may still hand out; which one it is does not matter.
Fresh == {j \in Jobs : job[j].status = "none"}

\* The job is inserted and committed with its audit event.  scheduled_for is
\* the client's, past or future (the present where the client names none).
Insert(c, time) ==
    /\ request[c].phase = "counted"
    /\ Fresh # {}
    /\ job' = [job EXCEPT ![CHOOSE j \in Fresh : TRUE] =
                 [status |-> "pending", wallet |-> request[c].wallet,
                  attempts |-> 0, scheduled |-> time, created |-> request[c].day]]
    /\ request' = [request EXCEPT ![c] = NoRequest]
    /\ UNCHANGED <<now, policy, incidents, work, allowed, crashes>>

\* The request fails or its client goes away: nothing is stored.
GiveUp(c) ==
    /\ request[c].phase # "idle"
    /\ request' = [request EXCEPT ![c] = NoRequest]
    /\ UNCHANGED <<now, policy, job, incidents, work, allowed, crashes>>

----------------------------------------------------------------------------
(***************************************************************************)
(* A worker: process_next_job, in the loop of run_automation_worker.       *)
(***************************************************************************)
Locked(j) == \E v \in Workers : work[v].job = j

Due(j) == job[j].status = "pending" /\ job[j].scheduled <= now

Start(v, j) ==
    /\ work' = [work EXCEPT ![v] = [NoWork EXCEPT !.phase = "claimed", !.job = j]]
    /\ allowed' = [allowed EXCEPT ![v] = Allowed(policy[job[j].wallet])]
    /\ UNCHANGED <<now, policy, job, incidents, request, crashes>>

\* Mutated form of Claim: FOR UPDATE is missing.
ClaimUnlocked(v) ==
    /\ work[v].phase = "idle"
    /\ \E j \in Jobs :
         /\ Due(j)
         /\ \A i \in Jobs : Due(i) => job[j].scheduled <= job[i].scheduled
         /\ Start(v, j)

\* The due job scheduled first among those that no other worker has locked.
Claim(v) ==
    /\ work[v].phase = "idle"
    /\ \E j \in Jobs :
         /\ Due(j) /\ ~Locked(j)
         /\ \A i \in Jobs : Due(i) /\ ~Locked(i) =>
                              job[j].scheduled <= job[i].scheduled
         /\ Start(v, j)

\* The transaction of v ends: its job row becomes row, and what it inserted
\* becomes visible.
Commit(v, row) ==
    /\ job' = [job EXCEPT ![work[v].job] = row]
    /\ incidents' = incidents \cup work[v].own
    /\ work' = [work EXCEPT ![v] = NoWork]
    /\ allowed' = [allowed EXCEPT ![v] = FALSE]
    /\ UNCHANGED <<now, policy, request, crashes>>

\* The job of v as v has it: this attempt is counted.
Claimed(v) == [job[work[v].job] EXCEPT !.attempts = @ + 1]

\* Mutated form of ReadPolicy: the policy is tested at enqueue only.
ReadNoPolicy(v) ==
    /\ work[v].phase = "claimed"
    /\ work' = [work EXCEPT ![v].phase = "dispatched"]
    /\ UNCHANGED <<now, policy, job, incidents, request, allowed, crashes>>

\* The policy as it is now; a job it blocks is cancelled.
ReadPolicy(v) ==
    /\ work[v].phase = "claimed"
    /\ IF Allowed(policy[Claimed(v).wallet])
       THEN /\ work' = [work EXCEPT ![v].phase = "dispatched"]
            /\ UNCHANGED <<now, policy, job, incidents, request, allowed,
                           crashes>>
       ELSE Commit(v, [Claimed(v) EXCEPT !.status = "cancelled"])

\* The handler of the job's type reads what it scans: the transactions that
\* are stuck by now (they get stuck, are settled late, ...), or the rewards
\* or the risk, which are worth an incident or are not.
Dispatch(v) ==
    /\ work[v].phase = "dispatched"
    /\ \/ \E stuck \in SUBSET {x \in Txs : TxOwner[x] = Claimed(v).wallet} :
            work' = [work EXCEPT ![v].phase = "scanning", ![v].todo = stuck]
       \/ work' = [work EXCEPT ![v].phase = "scanning"]
       \/ \E s \in Signals :
            work' = [work EXCEPT ![v].phase = "scanning",
                       ![v].own = {Incident(work[v].job, Claimed(v).attempts, s)}]
    /\ UNCHANGED <<now, policy, job, incidents, request, allowed, crashes>>

\* Mutated forms of ScanOne: no test for an incident that exists; an incident
\* is committed on its own.
ScanBlindly(v, x) ==
    /\ work[v].phase = "scanning"
    /\ x \in work[v].todo
    /\ work' = [work EXCEPT ![v].todo = @ \ {x},
                  ![v].own = @ \cup {Incident(work[v].job, Claimed(v).attempts, x)}]
    /\ UNCHANGED <<now, policy, job, incidents, request, allowed, crashes>>

ScanCommitting(v, x) ==
    /\ work[v].phase = "scanning"
    /\ x \in work[v].todo
    /\ incidents' = incidents \cup {Incident(work[v].job, Claimed(v).attempts, x)}
    /\ work' = [work EXCEPT ![v].todo = @ \ {x}]
    /\ UNCHANGED <<now, policy, job, request, allowed, crashes>>

\* One transaction of the scan: an incident is added unless v sees one.
ScanOne(v, x) ==
    /\ work[v].phase = "scanning"
    /\ x \in work[v].todo
    /\ work' =
         [work EXCEPT
            ![v].todo = @ \ {x},
            ![v].own =
               IF \E i \in incidents \cup work[v].own : i.about = x
               THEN @
               ELSE @ \cup {Incident(work[v].job, Claimed(v).attempts, x)}]
    /\ UNCHANGED <<now, policy, job, incidents, request, allowed, crashes>>

\* The handler returns: mark_job_completed.
Complete(v) ==
    /\ work[v].phase = "scanning"
    /\ work[v].todo = {}
    /\ Commit(v, [Claimed(v) EXCEPT !.status = "completed"])

\* Mutated forms of MarkFailed: attempts are not limited; they are not counted.
RetryForever(v) == [Claimed(v) EXCEPT !.status = "pending", !.scheduled = now]

RetryUncounted(v) ==
    [job[work[v].job] EXCEPT !.status = "pending", !.scheduled = now]

\* mark_job_failed: the job is due again at once, or has had its attempts.
MarkFailed(v) ==
    IF Claimed(v).attempts >= MaxAttempts
    THEN [Claimed(v) EXCEPT !.status = "failed"]
    ELSE [Claimed(v) EXCEPT !.status = "pending", !.scheduled = now]

\* The handler raises; the incidents it has flushed are committed all the same.
Raise(v) ==
    /\ work[v].phase \in {"dispatched", "scanning"}
    /\ Commit(v, MarkFailed(v))

\* The worker dies, or an error of the database escapes process_next_job and
\* ends it: the transaction is rolled back, the attempt was never counted.
Crash(v) ==
    /\ crashes < MaxCrashes
    /\ work[v].phase # "idle"
    /\ work' = [work EXCEPT ![v] = NoWork]
    /\ allowed' = [allowed EXCEPT ![v] = FALSE]
    /\ crashes' = crashes + 1
    /\ UNCHANGED <<now, policy, job, incidents, request>>

----------------------------------------------------------------------------
Run(v) ==
    \/ Claim(v)
    \/ ReadPolicy(v)
    \/ Dispatch(v)
    \/ \E x \in Txs : ScanOne(v, x)
    \/ Complete(v)
    \/ Raise(v)

Enqueue(c) ==
    \/ \E w \in Wallets : Begin(c, w)
    \/ Count(c)
    \/ \E time \in Schedules : Insert(c, time)
    \/ GiveUp(c)

Next ==
    \/ Tick
    \/ \E w \in Wallets, p \in Policies : SetPolicy(w, p)
    \/ \E c \in Clients : Enqueue(c)
    \/ \E v \in Workers : Run(v) \/ Crash(v)

Spec == Init /\ [][Next]_vars

\* Time passes, and the polling loop of every worker goes on.
FairSpec == Spec /\ WF_vars(Tick) /\ \A v \in Workers : WF_vars(Run(v))

----------------------------------------------------------------------------
(***************************************************************************)
(* Properties.                                                             *)
(***************************************************************************)
IncidentRows ==
    [job : Jobs, attempt : 1..MaxAttempts, about : Txs \cup Signals]

\* Every variable has its type; in particular no job is attempted more than
\* max_attempts times, and none is ever committed as "running".
TypeOK ==
    /\ now \in 0..MaxTime
    /\ policy \in [Wallets -> Policies]
    /\ job \in [Jobs -> JobRows]
    /\ incidents \subseteq IncidentRows
    /\ request \in [Clients -> [phase : {"idle", "begun", "counted"},
                                wallet : Wallets \cup {None},
                                cap : Caps \cup {0}, day : Nat]]
    /\ work \in [Workers -> [phase : {"idle", "claimed", "dispatched", "scanning"},
                             job : Jobs \cup {None}, todo : SUBSET Txs,
                             own : SUBSET IncidentRows]]
    /\ allowed \in [Workers -> BOOLEAN]
    /\ crashes \in 0..MaxCrashes

\* With several workers, crashes and retries, the outcome of a job is final:
\* no worker that took the same job reports another one.
OutcomeFinal ==
    [][\A j \in Jobs : job[j].status \in Final => job'[j] = job[j]]_vars

\* Incidents and the state of their job are committed together: an incident
\* is of an attempt that the job row counts, an attempt that scanned, and a
\* worker that dies leaves none.
IncidentsCounted ==
    \A i \in incidents :
        /\ job[i.job].status # "none"
        /\ i.attempt <= job[i.job].attempts
        /\ job[i.job].status = "cancelled" => i.attempt < job[i.job].attempts

\* The test for an existing incident is not atomic with the insert, so a
\* stuck transaction may be reported more than once, but never more often
\* than there are workers, however many scans run.
DuplicatesBounded ==
    \A x \in Txs :
        Cardinality({i \in incidents : i.about = x}) <= Cardinality(Workers)

\* The jobs that count for day d.
Counted(w, d) == Since(w, d) \ Since(w, d + 1)

\* The largest cap any policy may have.
LargestCap == CHOOSE cap \in Caps : \A other \in Caps : other <= cap

\* How far the cap of a day is missed at most: each concurrent request may
\* slip past the count once, and once more across midnight, when created_at
\* is of the day before the one that is counted.
OvershootBounded ==
    \A w \in Wallets, d \in 0..Day(MaxTime) :
        Cardinality(Counted(w, d)) <=
            LargestCap + 2 * Cardinality(Clients) - 1

\* max_daily_jobs caps the jobs of a day.
DailyCap ==
    \A w \in Wallets, d \in 0..Day(MaxTime) :
        Cardinality(Counted(w, d)) <= LargestCap

\* The kill switch and opting out take effect on jobs that are queued: a job
\* completes, is retried or leaves incidents only if automation was allowed
\* at some moment since it was claimed.
KillSwitchHolds ==
    [][\A v \in Workers :
          LET j == work[v].job
          IN  j # None /\ ~allowed[v] /\ job'[j] # job[j] =>
                  job'[j].status = "cancelled" /\ incidents' = incidents]_vars

\* However many workers take jobs, die and retry, what becomes of a job is its
\* life in JobLifecycle: bounded attempts, one outcome, and incidents that are
\* reported together with the attempt that found them.
Jobwise == INSTANCE JobLifecycle WITH
    status   <- [j \in Jobs |-> job[j].status],
    tries    <- [j \in Jobs |-> job[j].attempts],
    reported <- {<<i.job, i.attempt>> : i \in incidents}

JobwiseSpec == Jobwise!Spec

\* Every job gets an outcome once it is due, through errors of handlers and
\* crashes of workers.
EveryJobEnds ==
    \A j \in Jobs : job[j].status = "pending" ~> job[j].status \in Final
=============================================================================
