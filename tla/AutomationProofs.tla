-------------------------- MODULE AutomationProofs --------------------------
(***************************************************************************)
(* What holds of AutomationQueue for any number of workers, clients, jobs  *)
(* and attempts: its type, that incidents are committed with the attempt   *)
(* that found them, that outcomes are final, that the kill switch takes    *)
(* effect on queued jobs, by how much the daily cap can be missed, how     *)
(* often a transaction is reported, and that every job has the life of     *)
(* JobLifecycle.  The last part is about PolicyUpdates.                    *)
(* The inductive invariant is QueueInv: the first two, and what an open    *)
(* transaction of a worker may rely on; CapInv, for the last, counts the   *)
(* jobs of a day together with the requests still under way.               *)
(***************************************************************************)
EXTENDS AutomationQueue, PolicyUpdates, FiniteSetTheorems, TLAPS

\* SKIP LOCKED: a job is in the hands of one worker at most.
Exclusive ==
    \A u, v \in Workers : work[u].job = work[v].job /\ work[u].job # None => u = v

\* A worker holds a job that is still pending, and what it has found so far
\* is of the attempt it will count.
Held ==
    \A v \in Workers :
        /\ work[v].phase = "idle" <=> work[v].job = None
        /\ work[v].job # None => job[work[v].job].status = "pending"
        /\ work[v].phase # "scanning" => work[v].own = {}
        /\ \A i \in work[v].own : /\ i.job = work[v].job
                                  /\ i.attempt = job[i.job].attempts + 1

\* A job has an owner, and one that is pending has attempts left.
Rows ==
    /\ \A j \in Jobs :
         /\ job[j].status # "none" => job[j].wallet \in Wallets
         /\ job[j].status = "pending" => job[j].attempts < MaxAttempts
    /\ \A c \in Clients : request[c].phase # "idle" => request[c].wallet \in Wallets

\* A worker that got past the policy was allowed to at some moment since its
\* claim, and whoever is allowed to now is on record.
Permitted ==
    \A v \in Workers :
        work[v].job # None =>
            /\ Allowed(policy[job[work[v].job].wallet]) => allowed[v]
            /\ work[v].phase \in {"dispatched", "scanning"} => allowed[v]

QueueInv ==
    TypeOK /\ IncidentsCounted /\ Exclusive /\ Held /\ Rows /\ Permitted

WorkRecords ==
    [phase : {"idle", "claimed", "dispatched", "scanning"},
     job : Jobs \cup {None}, todo : SUBSET Txs, own : SUBSET IncidentRows]

\* A worker without a job is typed.
LEMMA NoWorkTyped == NoWork \in WorkRecords
BY DEF NoWork, WorkRecords

\* The clock is at a day.
LEMMA DayTyped == ASSUME NEW time \in Nat PROVE Day(time) \in Nat
BY ClockAssumption, SMT DEF Day

\* An incident is made from what it is about.
LEMMA IncidentTyped ==
    ASSUME NEW j \in Jobs, NEW a \in 1..MaxAttempts, NEW x \in Txs \cup Signals
    PROVE  /\ Incident(j, a, x) \in IncidentRows
           /\ Incident(j, a, x).job = j
           /\ Incident(j, a, x).attempt = a
BY DEF Incident, IncidentRows

\* The job of a worker as it has it: one more attempt, and not too many.
LEMMA ClaimedTyped ==
    ASSUME QueueInv, NEW v \in Workers, work[v].phase # "idle"
    PROVE  /\ work[v].job \in Jobs
           /\ job[work[v].job].status = "pending"
           /\ Claimed(v) \in JobRows
           /\ Claimed(v).attempts = job[work[v].job].attempts + 1
           /\ Claimed(v).attempts \in 1..MaxAttempts
           /\ Claimed(v).wallet = job[work[v].job].wallet
           /\ Claimed(v).wallet \in Wallets
<1>1. work[v].job \in Jobs /\ job[work[v].job].status = "pending"
  BY DEF QueueInv, Held, TypeOK
<1>2. /\ job[work[v].job] \in JobRows
      /\ job[work[v].job].attempts < MaxAttempts
      /\ job[work[v].job].wallet \in Wallets
  BY <1>1 DEF QueueInv, Rows, TypeOK
<1>3. /\ job[work[v].job].attempts + 1 \in 0..MaxAttempts
      /\ job[work[v].job].attempts + 1 \in 1..MaxAttempts
  BY <1>2, AttemptsAssumption DEF JobRows
<1> QED BY <1>1, <1>2, <1>3 DEF Claimed, JobRows

----------------------------------------------------------------------------
\* The clock changes nothing but the time.
LEMMA ClockStep == QueueInv /\ Tick => QueueInv'
<1> SUFFICES ASSUME QueueInv, Tick PROVE QueueInv'
  OBVIOUS
<1>1. now' \in 0..MaxTime /\ UNCHANGED <<policy, job, incidents, request, work,
                                         allowed, crashes>>
  BY ClockAssumption DEF QueueInv, TypeOK, Tick
<1> QED
  BY <1>1 DEF QueueInv, TypeOK, IncidentsCounted, Exclusive, Held, Rows,
              Permitted

\* Whoever holds a job of the wallet is allowed from then on, if p allows.
LEMMA PolicyStep ==
    ASSUME QueueInv, NEW w \in Wallets, NEW p \in Policies, SetPolicy(w, p)
    PROVE  QueueInv'
<1>1. /\ policy' = [policy EXCEPT ![w] = p]
      /\ UNCHANGED <<now, job, incidents, request, work, crashes>>
      /\ policy \in [Wallets -> Policies]
      /\ work \in [Workers -> WorkRecords]
  BY DEF SetPolicy, QueueInv, TypeOK, WorkRecords
<1>2. /\ allowed' \in [Workers -> BOOLEAN]
      /\ \A v \in Workers :
           allowed'[v] <=> \/ allowed[v]
                           \/ /\ work[v].job # None
                              /\ job[work[v].job].wallet = w
                              /\ Allowed(p)
  BY DEF SetPolicy, QueueInv, TypeOK, Allowed, Policies
<1>3. TypeOK'
  BY <1>1, <1>2 DEF QueueInv, TypeOK
<1>4. Permitted'
  <2> SUFFICES ASSUME NEW v \in Workers, work[v].job # None
               PROVE  /\ Allowed(policy'[job[work[v].job].wallet]) => allowed'[v]
                      /\ work[v].phase \in {"dispatched", "scanning"} => allowed'[v]
    BY <1>1 DEF Permitted
  <2>1. job[work[v].job].wallet \in Wallets
    <3>1. work[v].phase # "idle"
      BY DEF QueueInv, Held
    <3> QED BY <3>1, ClaimedTyped
  <2>2. CASE job[work[v].job].wallet = w
    BY <1>1, <1>2, <2>2 DEF QueueInv, Permitted
  <2>3. CASE job[work[v].job].wallet # w
    BY <1>1, <1>2, <2>1, <2>3 DEF QueueInv, Permitted
  <2> QED BY <2>2, <2>3
<1>5. (IncidentsCounted /\ Exclusive /\ Held /\ Rows)'
  BY <1>1 DEF QueueInv, IncidentsCounted, Exclusive, Held, Rows
<1> QED BY <1>3, <1>4, <1>5 DEF QueueInv

----------------------------------------------------------------------------
\* A request that is under way stores nothing yet.
LEMMA RequestStep ==
    ASSUME QueueInv, NEW c \in Clients,
           (\E w \in Wallets : Begin(c, w)) \/ Count(c) \/ GiveUp(c)
    PROVE  QueueInv'
<1> DEFINE RequestRecords ==
      [phase : {"idle", "begun", "counted"}, wallet : Wallets \cup {None},
       cap : Caps \cup {0}, day : Nat]
<1>1. request \in [Clients -> RequestRecords] /\ NoRequest \in RequestRecords
  BY DEF QueueInv, TypeOK, NoRequest
<1>2. ASSUME NEW new \in RequestRecords, request' = [request EXCEPT ![c] = new],
             new.phase # "idle" => new.wallet \in Wallets,
             UNCHANGED <<now, policy, job, incidents, work, allowed, crashes>>
      PROVE  QueueInv'
  <2>1. request' \in [Clients -> RequestRecords]
    BY <1>1, <1>2
  <2>2. TypeOK'
    BY <1>2, <2>1 DEF QueueInv, TypeOK
  <2>3. Rows'
    BY <1>1, <1>2 DEF QueueInv, Rows
  <2>4. (IncidentsCounted /\ Exclusive /\ Held /\ Permitted)'
    BY <1>2 DEF QueueInv, IncidentsCounted, Exclusive, Held, Permitted
  <2> QED BY <2>2, <2>3, <2>4 DEF QueueInv
<1>3. ASSUME NEW w \in Wallets, Begin(c, w) PROVE QueueInv'
  <2> DEFINE new == [phase |-> "begun", wallet |-> w, cap |-> policy[w].cap,
                     day |-> Day(now)]
  <2>1. Day(now) \in Nat /\ policy[w].cap \in Caps
    BY DayTyped, ClockAssumption DEF QueueInv, TypeOK, Policies
  <2>2. new \in RequestRecords /\ new.wallet \in Wallets
    BY <2>1
  <2>3. /\ request' = [request EXCEPT ![c] = new]
        /\ UNCHANGED <<now, policy, job, incidents, work, allowed, crashes>>
    BY <1>3 DEF Begin
  <2> HIDE DEF new
  <2> QED BY <1>2, <2>2, <2>3
<1>4. CASE Count(c)
  <2> DEFINE new == [request[c] EXCEPT !.phase = "counted"]
  <2>1. new \in RequestRecords /\ new.wallet = request[c].wallet
    BY <1>1
  <2>2. request[c].wallet \in Wallets
    BY <1>4 DEF Count, QueueInv, Rows
  <2>3. request' = [request EXCEPT ![c] = NoRequest]
        \/ request' = [request EXCEPT ![c] = new]
    BY <1>1, <1>4 DEF Count
  <2>4. UNCHANGED <<now, policy, job, incidents, work, allowed, crashes>>
    BY <1>4 DEF Count
  <2>5. NoRequest.phase = "idle"
    BY DEF NoRequest
  <2> HIDE DEF new, RequestRecords
  <2> QED BY <1>1, <1>2, <2>1, <2>2, <2>3, <2>4, <2>5
<1>5. CASE GiveUp(c)
  BY <1>1, <1>2, <1>5 DEF GiveUp, NoRequest
<1> QED BY <1>3, <1>4, <1>5

\* A job is inserted under an id that no worker holds and no incident names.
LEMMA InsertStep ==
    ASSUME QueueInv, NEW c \in Clients, NEW time \in Schedules, Insert(c, time)
    PROVE  QueueInv'
<1> DEFINE j == CHOOSE x \in Fresh : TRUE
           row == [status |-> "pending", wallet |-> request[c].wallet,
                   attempts |-> 0, scheduled |-> time, created |-> request[c].day]
<1>1. j \in Jobs /\ job[j].status = "none"
  BY DEF Insert, Fresh
<1>2. row \in JobRows /\ row.wallet \in Wallets
  BY ScheduleAssumption, AttemptsAssumption
  DEF Insert, QueueInv, TypeOK, Rows, JobRows
<1>3. /\ job' = [job EXCEPT ![j] = row]
      /\ request' = [request EXCEPT ![c] = NoRequest]
      /\ UNCHANGED <<now, policy, incidents, work, allowed, crashes>>
  BY DEF Insert
<1>4. row.status = "pending" /\ row.attempts = 0
  OBVIOUS
<1> HIDE DEF j, row
<1>5. /\ job'[j] = row
      /\ \A i \in Jobs : i # j => job'[i] = job[i]
      /\ job' \in [Jobs -> JobRows]
  BY <1>1, <1>2, <1>3 DEF QueueInv, TypeOK
<1>6. /\ \A v \in Workers : work[v].job # j /\ work[v].job \in Jobs \cup {None}
      /\ \A i \in incidents : i.job # j /\ i.job \in Jobs
  BY <1>1, NullAssumption
  DEF QueueInv, Held, IncidentsCounted, TypeOK, IncidentRows
<1>7. TypeOK'
  BY <1>3, <1>5 DEF QueueInv, TypeOK, NoRequest
<1>8. Rows'
  BY <1>2, <1>3, <1>4, <1>5, AttemptsAssumption
  DEF QueueInv, Rows, NoRequest, TypeOK
<1>9. (IncidentsCounted /\ Exclusive /\ Permitted)'
  BY <1>3, <1>5, <1>6 DEF QueueInv, IncidentsCounted, Exclusive, Permitted
<1>10. Held'
  BY <1>3, <1>5, <1>6 DEF QueueInv, Held
<1> QED BY <1>7, <1>8, <1>9, <1>10 DEF QueueInv

----------------------------------------------------------------------------
\* A worker claims a job that no other worker has.
LEMMA ClaimStep ==
    ASSUME QueueInv, NEW v \in Workers, Claim(v)
    PROVE  QueueInv'
<1>1. PICK j \in Jobs : Due(j) /\ ~Locked(j) /\ Start(v, j)
  BY DEF Claim
<1> DEFINE new == [NoWork EXCEPT !.phase = "claimed", !.job = j]
<1>2. /\ new \in WorkRecords
      /\ new.phase = "claimed" /\ new.job = j /\ new.own = {}
  BY DEF NoWork, WorkRecords
<1>3. /\ work' = [work EXCEPT ![v] = new]
      /\ allowed' = [allowed EXCEPT ![v] = Allowed(policy[job[j].wallet])]
      /\ UNCHANGED <<now, policy, job, incidents, request, crashes>>
  BY <1>1 DEF Start
<1> HIDE DEF new
<1>4. /\ work \in [Workers -> WorkRecords]
      /\ allowed \in [Workers -> BOOLEAN]
  BY DEF QueueInv, TypeOK, WorkRecords
<1>5. /\ work'[v] = new
      /\ \A u \in Workers : u # v => work'[u] = work[u] /\ allowed'[u] = allowed[u]
      /\ allowed'[v] = Allowed(policy[job[j].wallet])
      /\ work' \in [Workers -> WorkRecords]
  BY <1>2, <1>3, <1>4
<1>6. Allowed(policy[job[j].wallet]) \in BOOLEAN
  BY <1>1 DEF Due, QueueInv, Rows, TypeOK, Policies, Allowed
<1>7. TypeOK'
  BY <1>3, <1>4, <1>5, <1>6 DEF QueueInv, TypeOK, WorkRecords
<1>8. \A u \in Workers : work[u].job # j
  BY <1>1 DEF Locked
<1>9. Exclusive'
  BY <1>2, <1>5, <1>8 DEF QueueInv, Exclusive
<1>10. Held'
  BY <1>1, <1>2, <1>3, <1>5, NullAssumption DEF QueueInv, Held, Due
<1>11. Permitted'
  BY <1>2, <1>3, <1>5 DEF QueueInv, Permitted
<1>12. IncidentsCounted' /\ Rows'
  BY <1>3 DEF QueueInv, IncidentsCounted, Rows
<1> QED BY <1>7, <1>9, <1>10, <1>11, <1>12 DEF QueueInv

\* A worker goes on within its transaction: with the same job, and only past
\* the policy if it was allowed to.
LEMMA Advance ==
    ASSUME QueueInv, NEW v \in Workers, work[v].phase # "idle",
           NEW new \in WorkRecords, work' = [work EXCEPT ![v] = new],
           UNCHANGED <<now, policy, job, incidents, request, allowed, crashes>>,
           new.job = work[v].job,
           new.phase \in {"dispatched", "scanning"}, allowed[v],
           new.phase # "scanning" => new.own = {},
           \A i \in new.own : /\ i.job = work[v].job
                              /\ i.attempt = job[i.job].attempts + 1
    PROVE  QueueInv'
<1>1. work \in [Workers -> WorkRecords]
  BY DEF QueueInv, TypeOK, WorkRecords
<1>2. /\ work'[v] = new
      /\ \A u \in Workers : u # v => work'[u] = work[u]
      /\ work' \in [Workers -> WorkRecords]
  BY <1>1
<1>3. TypeOK'
  BY <1>2 DEF QueueInv, TypeOK, WorkRecords
<1>4. \A u \in Workers : work'[u].job = work[u].job
  BY <1>2
<1>5. Exclusive'
  BY <1>4 DEF QueueInv, Exclusive
<1>6. Held'
  BY <1>2, ClaimedTyped, NullAssumption DEF QueueInv, Held
<1>7. Permitted'
  BY <1>2 DEF QueueInv, Permitted
<1>8. IncidentsCounted' /\ Rows'
  BY DEF QueueInv, IncidentsCounted, Rows
<1> QED BY <1>3, <1>5, <1>6, <1>7, <1>8 DEF QueueInv

\* The transaction of a worker ends with a row that counts the attempt.
LEMMA CommitStep ==
    ASSUME QueueInv, NEW v \in Workers, work[v].phase # "idle",
           NEW row \in JobRows, Commit(v, row),
           row.attempts = job[work[v].job].attempts + 1,
           row.wallet = job[work[v].job].wallet,
           row.status \in {"pending"} \cup Final,
           row.status = "pending" => row.attempts < MaxAttempts,
           row.status = "cancelled" => work[v].own = {}
    PROVE  QueueInv'
<1> DEFINE j == work[v].job
<1>1. j \in Jobs /\ job[j].status = "pending" /\ row.wallet \in Wallets
  BY ClaimedTyped
<1>2. /\ work \in [Workers -> WorkRecords]
      /\ allowed \in [Workers -> BOOLEAN]
      /\ job \in [Jobs -> JobRows]
      /\ incidents \subseteq IncidentRows
  BY DEF QueueInv, TypeOK, WorkRecords
<1>3. /\ job' = [job EXCEPT ![j] = row]
      /\ incidents' = incidents \cup work[v].own
      /\ work' = [work EXCEPT ![v] = NoWork]
      /\ allowed' = [allowed EXCEPT ![v] = FALSE]
      /\ UNCHANGED <<now, policy, request, crashes>>
  BY DEF Commit
<1>4. /\ job'[j] = row
      /\ \A i \in Jobs : i # j => job'[i] = job[i]
      /\ job' \in [Jobs -> JobRows]
  BY <1>1, <1>2, <1>3
<1>5. /\ work'[v].phase = "idle" /\ work'[v].job = None /\ work'[v].own = {}
      /\ \A u \in Workers : u # v => work'[u] = work[u] /\ allowed'[u] = allowed[u]
      /\ work' \in [Workers -> WorkRecords]
      /\ allowed' \in [Workers -> BOOLEAN]
  BY <1>2, <1>3, NoWorkTyped DEF NoWork
<1>6. \A u \in Workers : u # v => work[u].job # j
  BY <1>1, NullAssumption DEF QueueInv, Exclusive
<1>7. TypeOK'
  <2>1. work[v].own \subseteq IncidentRows
    BY <1>2 DEF WorkRecords
  <2> QED BY <1>2, <1>3, <1>4, <1>5, <2>1 DEF QueueInv, TypeOK, WorkRecords
<1>8. IncidentsCounted'
  <2> SUFFICES ASSUME NEW i \in incidents'
               PROVE  /\ job'[i.job].status # "none"
                      /\ i.attempt <= job'[i.job].attempts
                      /\ job'[i.job].status = "cancelled" =>
                             i.attempt < job'[i.job].attempts
    BY DEF IncidentsCounted
  <2>1. row.status # "none" /\ row.attempts \in Nat
    BY DEF Final, JobRows
  <2>2. CASE i \in incidents /\ i.job # j
    <3>1. i.job \in Jobs
      BY <1>2, <2>2 DEF IncidentRows
    <3> QED BY <1>4, <2>2, <3>1 DEF QueueInv, IncidentsCounted
  <2>3. CASE i \in incidents /\ i.job = j
    <3>1. i.attempt <= job[j].attempts
      BY <2>3 DEF QueueInv, IncidentsCounted
    <3>2. i.attempt \in Nat /\ job[j].attempts \in Nat
      BY <1>1, <1>2, <2>3 DEF IncidentRows, JobRows
    <3> QED BY <1>4, <2>1, <2>3, <3>1, <3>2
  <2>4. CASE i \in work[v].own
    <3>1. i.job = j /\ i.attempt = job[j].attempts + 1
      BY <2>4 DEF QueueInv, Held
    <3> QED BY <1>4, <2>1, <2>4, <3>1
  <2> QED BY <1>3, <2>2, <2>3, <2>4
<1>9. Exclusive'
  BY <1>5 DEF QueueInv, Exclusive
<1>10. Held'
  <2> SUFFICES ASSUME NEW u \in Workers
               PROVE  /\ work'[u].phase = "idle" <=> work'[u].job = None
                      /\ work'[u].job # None => job'[work'[u].job].status = "pending"
                      /\ work'[u].phase # "scanning" => work'[u].own = {}
                      /\ \A i \in work'[u].own :
                           /\ i.job = work'[u].job
                           /\ i.attempt = job'[i.job].attempts + 1
    BY DEF Held
  <2>1. CASE u = v
    BY <1>5, <2>1
  <2>2. CASE u # v
    <3>1. work'[u] = work[u] /\ work[u].job # j /\ work[u].job \in Jobs \cup {None}
      BY <1>2, <1>5, <1>6, <2>2 DEF WorkRecords
    <3>2. work[u].job # None => job'[work[u].job] = job[work[u].job]
      BY <1>4, <3>1
    <3>3. work[u].job = None => work[u].own = {}
      BY DEF QueueInv, Held
    <3> QED BY <3>1, <3>2, <3>3 DEF QueueInv, Held
  <2> QED BY <2>1, <2>2
<1>11. Rows'
  BY <1>1, <1>3, <1>4 DEF QueueInv, Rows
<1>12. Permitted'
  <2> SUFFICES ASSUME NEW u \in Workers, work'[u].job # None
               PROVE  /\ Allowed(policy[job'[work'[u].job].wallet]) => allowed'[u]
                      /\ work'[u].phase \in {"dispatched", "scanning"} => allowed'[u]
    BY <1>3 DEF Permitted
  <2>1. u # v
    BY <1>5
  <2>2. /\ work'[u] = work[u] /\ allowed'[u] = allowed[u]
        /\ work[u].job \in Jobs /\ work[u].job # j
    BY <1>2, <1>5, <1>6, <2>1 DEF WorkRecords
  <2>3. job'[work[u].job] = job[work[u].job]
    BY <1>4, <2>2
  <2> QED BY <2>2, <2>3 DEF QueueInv, Permitted
<1> QED BY <1>7, <1>8, <1>9, <1>10, <1>11, <1>12 DEF QueueInv

\* A worker that dies leaves its job to the others.
LEMMA CrashStep ==
    ASSUME QueueInv, NEW v \in Workers, Crash(v)
    PROVE  QueueInv'
<1>1. /\ work' = [work EXCEPT ![v] = NoWork]
      /\ allowed' = [allowed EXCEPT ![v] = FALSE]
      /\ crashes' = crashes + 1 /\ crashes < MaxCrashes
      /\ UNCHANGED <<now, policy, job, incidents, request>>
  BY DEF Crash
<1>2. /\ work \in [Workers -> WorkRecords]
      /\ allowed \in [Workers -> BOOLEAN]
      /\ crashes' \in 0..MaxCrashes
  BY <1>1, ClockAssumption DEF QueueInv, TypeOK, WorkRecords
<1>3. /\ work'[v].phase = "idle" /\ work'[v].job = None /\ work'[v].own = {}
      /\ \A u \in Workers : u # v => work'[u] = work[u] /\ allowed'[u] = allowed[u]
      /\ work' \in [Workers -> WorkRecords]
      /\ allowed' \in [Workers -> BOOLEAN]
  BY <1>1, <1>2, NoWorkTyped DEF NoWork
<1>4. TypeOK'
  BY <1>1, <1>2, <1>3 DEF QueueInv, TypeOK, WorkRecords
<1>5. (Exclusive /\ Held)'
  BY <1>1, <1>3 DEF QueueInv, Exclusive, Held
<1>6. (IncidentsCounted /\ Rows /\ Permitted)'
  BY <1>1, <1>3 DEF QueueInv, IncidentsCounted, Rows, Permitted
<1> QED BY <1>4, <1>5, <1>6 DEF QueueInv

----------------------------------------------------------------------------
\* The commits of a worker end a job that is pending, or leave it pending.
Ends(v) ==
    /\ work[v].phase # "idle"
    /\ \/ /\ Commit(v, [Claimed(v) EXCEPT !.status = "cancelled"])
          /\ work[v].phase = "claimed"
       \/ /\ \/ Commit(v, [Claimed(v) EXCEPT !.status = "completed"])
             \/ Commit(v, MarkFailed(v))
          /\ work[v].phase \in {"dispatched", "scanning"}

\* Whatever a worker commits counts the attempt.
LEMMA EndStep ==
    ASSUME QueueInv, NEW v \in Workers, Ends(v)
    PROVE  QueueInv'
<1>1. /\ work[v].phase # "idle"
      /\ Claimed(v) \in JobRows
      /\ Claimed(v).attempts = job[work[v].job].attempts + 1
      /\ Claimed(v).attempts \in 1..MaxAttempts
      /\ Claimed(v).wallet = job[work[v].job].wallet
      /\ now \in 0..MaxTime
  BY ClaimedTyped DEF Ends, QueueInv, TypeOK
<1>2. ASSUME NEW s \in Final, Commit(v, [Claimed(v) EXCEPT !.status = s]),
             s = "cancelled" => work[v].own = {}
      PROVE  QueueInv'
  <2> DEFINE row == [Claimed(v) EXCEPT !.status = s]
  <2>1. /\ row \in JobRows /\ row.status = s
        /\ row.attempts = Claimed(v).attempts
        /\ row.wallet = Claimed(v).wallet
    BY <1>1 DEF JobRows
  <2>2. s # "pending"
    BY DEF Final
  <2>3. Commit(v, row)
    BY <1>2
  <2> HIDE DEF row
  <2> QED BY <1>1, <1>2, <2>1, <2>2, <2>3, CommitStep
<1>3. work[v].phase = "claimed" => work[v].own = {}
  BY DEF QueueInv, Held
<1>4. CASE Commit(v, MarkFailed(v))
  <2>1. CASE Claimed(v).attempts >= MaxAttempts
    <3>1. Commit(v, [Claimed(v) EXCEPT !.status = "failed"])
      BY <1>4, <2>1 DEF MarkFailed
    <3> QED BY <1>2, <3>1 DEF Final
  <2>2. CASE ~(Claimed(v).attempts >= MaxAttempts)
    <3> DEFINE row == [Claimed(v) EXCEPT !.status = "pending", !.scheduled = now]
    <3>1. /\ row \in JobRows /\ row.status = "pending"
          /\ row.attempts = Claimed(v).attempts
          /\ row.wallet = Claimed(v).wallet
      BY <1>1 DEF JobRows
    <3>2. Commit(v, row)
      BY <1>4, <2>2 DEF MarkFailed
    <3>3. row.attempts < MaxAttempts
      BY <1>1, <2>2, <3>1, AttemptsAssumption
    <3> HIDE DEF row
    <3> QED BY <1>1, <3>1, <3>2, <3>3, CommitStep
  <2> QED BY <2>1, <2>2
<1>5. CASE Commit(v, [Claimed(v) EXCEPT !.status = "completed"])
  BY <1>2, <1>5 DEF Final
<1>6. CASE /\ Commit(v, [Claimed(v) EXCEPT !.status = "cancelled"])
           /\ work[v].phase = "claimed"
  BY <1>2, <1>3, <1>6 DEF Final
<1> QED BY <1>4, <1>5, <1>6 DEF Ends

\* A worker that is allowed to gets past the policy, and its handler reads
\* and writes within the open transaction.
Scans(v) ==
    \/ ReadPolicy(v) /\ Allowed(policy[Claimed(v).wallet])
    \/ Dispatch(v)
    \/ \E x \in Txs : ScanOne(v, x)

\* A scan finds incidents of its own attempt.
LEMMA ScanStep ==
    ASSUME QueueInv, NEW v \in Workers, Scans(v)
    PROVE  QueueInv'
<1>1. work \in [Workers -> WorkRecords] /\ work[v].phase # "idle"
  BY DEF QueueInv, TypeOK, WorkRecords, Scans, ReadPolicy, Dispatch, ScanOne
<1>2. /\ work[v].job \in Jobs
      /\ Claimed(v).attempts = job[work[v].job].attempts + 1
      /\ Claimed(v).attempts \in 1..MaxAttempts
      /\ Claimed(v).wallet = job[work[v].job].wallet
  BY <1>1, ClaimedTyped
<1>3. \A i \in work[v].own : /\ i.job = work[v].job
                             /\ i.attempt = job[i.job].attempts + 1
  BY DEF QueueInv, Held
<1>4. \A x \in Txs \cup Signals :
        LET i == Incident(work[v].job, Claimed(v).attempts, x)
        IN  /\ i \in IncidentRows
            /\ i.job = work[v].job
            /\ i.attempt = job[i.job].attempts + 1
  BY <1>2, IncidentTyped
<1>5. CASE ReadPolicy(v) /\ Allowed(policy[Claimed(v).wallet])
  <2> DEFINE new == [work[v] EXCEPT !.phase = "dispatched"]
  <2>1. /\ new \in WorkRecords /\ new.phase = "dispatched"
        /\ new.job = work[v].job /\ new.own = work[v].own
    BY <1>1 DEF WorkRecords
  <2>2. /\ work' = [work EXCEPT ![v] = new]
        /\ UNCHANGED <<now, policy, job, incidents, request, allowed, crashes>>
        /\ work[v].phase = "claimed"
    BY <1>1, <1>5 DEF ReadPolicy
  <2>3. work[v].own = {} /\ allowed[v]
    BY <1>2, <1>5, <2>2, NullAssumption DEF QueueInv, Held, Permitted
  <2> HIDE DEF new
  <2> QED BY <1>1, <2>1, <2>2, <2>3, Advance
<1>6. ASSUME work[v].phase \in {"dispatched", "scanning"} PROVE allowed[v]
  BY <1>2, <1>6, NullAssumption DEF QueueInv, Permitted
<1>7. ASSUME NEW new \in WorkRecords, new.phase = "scanning",
             new.job = work[v].job,
             work[v].phase \in {"dispatched", "scanning"},
             work' = [work EXCEPT ![v] = new],
             UNCHANGED <<now, policy, job, incidents, request, allowed, crashes>>,
             \A i \in new.own : /\ i.job = work[v].job
                                /\ i.attempt = job[i.job].attempts + 1
      PROVE  QueueInv'
  BY <1>1, <1>6, <1>7, Advance
<1>8. CASE Dispatch(v)
  <2>1. /\ work[v].phase = "dispatched"
        /\ UNCHANGED <<now, policy, job, incidents, request, allowed, crashes>>
    BY <1>8 DEF Dispatch
  <2>2. ASSUME NEW stuck \in SUBSET {x \in Txs : TxOwner[x] = Claimed(v).wallet},
               work' = [work EXCEPT ![v].phase = "scanning", ![v].todo = stuck]
        PROVE  QueueInv'
    <3> DEFINE new == [work[v] EXCEPT !.phase = "scanning", !.todo = stuck]
    <3>1. /\ new \in WorkRecords /\ new.phase = "scanning"
          /\ new.job = work[v].job /\ new.own = work[v].own
      BY <1>1 DEF WorkRecords
    <3>2. work' = [work EXCEPT ![v] = new]
      BY <1>1, <2>2
    <3> HIDE DEF new
    <3> QED BY <1>3, <1>7, <2>1, <3>1, <3>2
  <2>3. CASE work' = [work EXCEPT ![v].phase = "scanning"]
    <3> DEFINE new == [work[v] EXCEPT !.phase = "scanning"]
    <3>1. /\ new \in WorkRecords /\ new.phase = "scanning"
          /\ new.job = work[v].job /\ new.own = work[v].own
      BY <1>1 DEF WorkRecords
    <3>2. work' = [work EXCEPT ![v] = new]
      BY <1>1, <2>3
    <3> HIDE DEF new
    <3> QED BY <1>3, <1>7, <2>1, <3>1, <3>2
  <2>4. ASSUME NEW s \in Signals,
               work' = [work EXCEPT ![v].phase = "scanning",
                          ![v].own = {Incident(work[v].job, Claimed(v).attempts, s)}]
        PROVE  QueueInv'
    <3> DEFINE i == Incident(work[v].job, Claimed(v).attempts, s)
    <3>1. /\ i \in IncidentRows
          /\ i.job = work[v].job
          /\ i.attempt = job[i.job].attempts + 1
      BY <1>4
    <3>2. work' = [work EXCEPT ![v].phase = "scanning", ![v].own = {i}]
      BY <2>4
    <3> HIDE DEF i
    <3> DEFINE new == [work[v] EXCEPT !.phase = "scanning", !.own = {i}]
    <3>3. /\ new \in WorkRecords /\ new.phase = "scanning"
          /\ new.job = work[v].job /\ new.own = {i}
      BY <1>1, <3>1 DEF WorkRecords
    <3>4. work' = [work EXCEPT ![v] = new]
      BY <1>1, <3>2
    <3> HIDE DEF new
    <3> QED BY <1>7, <2>1, <3>1, <3>3, <3>4
  <2> QED BY <1>8, <2>2, <2>3, <2>4 DEF Dispatch
<1>9. ASSUME NEW x \in Txs, ScanOne(v, x) PROVE QueueInv'
  <2> DEFINE i == Incident(work[v].job, Claimed(v).attempts, x)
             own == IF \E e \in incidents \cup work[v].own : e.about = x
                    THEN work[v].own ELSE work[v].own \cup {i}
  <2>1. /\ i \in IncidentRows
        /\ i.job = work[v].job
        /\ i.attempt = job[i.job].attempts + 1
    BY <1>4
  <2>2. /\ work[v].phase = "scanning"
        /\ work' = [work EXCEPT ![v].todo = work[v].todo \ {x}, ![v].own = own]
        /\ UNCHANGED <<now, policy, job, incidents, request, allowed, crashes>>
    BY <1>9 DEF ScanOne
  <2> HIDE DEF i
  <2>3. own \in SUBSET IncidentRows
    BY <1>1, <2>1 DEF WorkRecords
  <2>4. \A e \in own : /\ e.job = work[v].job
                       /\ e.attempt = job[e.job].attempts + 1
    BY <1>3, <2>1
  <2> HIDE DEF own
  <2> DEFINE new == [work[v] EXCEPT !.todo = work[v].todo \ {x}, !.own = own]
  <2>5. /\ new \in WorkRecords /\ new.phase = "scanning"
        /\ new.job = work[v].job /\ new.own = own
    BY <1>1, <2>2, <2>3 DEF WorkRecords
  <2>6. work' = [work EXCEPT ![v] = new]
    BY <1>1, <2>2
  <2> HIDE DEF new
  <2> QED BY <1>7, <2>2, <2>4, <2>5, <2>6
<1> QED BY <1>5, <1>8, <1>9 DEF Scans

----------------------------------------------------------------------------
\* A step leaves the jobs alone, inserts one, or ends what a worker does.
LEMMA Steps ==
    ASSUME [Next]_vars
    PROVE  \/ UNCHANGED vars
           \/ Tick
           \/ \E w \in Wallets, p \in Policies : SetPolicy(w, p)
           \/ \E c \in Clients : \/ \E w \in Wallets : Begin(c, w)
                                 \/ Count(c)
                                 \/ GiveUp(c)
           \/ \E c \in Clients, time \in Schedules : Insert(c, time)
           \/ \E v \in Workers : Claim(v) \/ Scans(v) \/ Ends(v) \/ Crash(v)
<1>1. ASSUME NEW v \in Workers, Run(v)
      PROVE  Claim(v) \/ Scans(v) \/ Ends(v)
  <2>1. CASE ReadPolicy(v)
    BY <2>1 DEF ReadPolicy, Scans, Ends
  <2>2. CASE Complete(v) \/ Raise(v)
    BY <2>2 DEF Complete, Raise, Ends
  <2> QED BY <1>1, <2>1, <2>2 DEF Run, Scans
<1> QED BY <1>1 DEF Next, Enqueue

\* Jobs and incidents are written by inserts and by ends only.
LEMMA OnlyWriters ==
    ASSUME [Next]_vars,
           ~ \E c \in Clients, time \in Schedules : Insert(c, time),
           ~ \E v \in Workers : Ends(v)
    PROVE  job' = job /\ incidents' = incidents
<1>1. ASSUME NEW v \in Workers, Claim(v) \/ Scans(v) \/ Crash(v)
      PROVE  job' = job /\ incidents' = incidents
  BY <1>1 DEF Claim, Start, Scans, ReadPolicy, Dispatch, ScanOne, Crash
<1>2. CASE \/ UNCHANGED vars
           \/ Tick
           \/ \E w \in Wallets, p \in Policies : SetPolicy(w, p)
           \/ \E c \in Clients : \/ \E w \in Wallets : Begin(c, w)
                                 \/ Count(c)
                                 \/ GiveUp(c)
  BY <1>2 DEF vars, Tick, SetPolicy, Begin, Count, GiveUp
<1> QED BY <1>1, <1>2, Steps

\* Every step keeps the invariant.
LEMMA QueueStep == QueueInv /\ [Next]_vars => QueueInv'
<1> SUFFICES ASSUME QueueInv, [Next]_vars PROVE QueueInv'
  OBVIOUS
<1>1. CASE UNCHANGED vars
  BY <1>1 DEF vars, QueueInv, TypeOK, IncidentsCounted, Exclusive, Held, Rows,
              Permitted
<1> QED
  BY <1>1, ClockStep, PolicyStep, RequestStep, InsertStep, ClaimStep, ScanStep,
     EndStep, CrashStep, Steps

\* The empty queue satisfies the invariant.
LEMMA QueueInit == Init => QueueInv
<1> SUFFICES ASSUME Init PROVE QueueInv
  OBVIOUS
<1>1. /\ now = 0 /\ crashes = 0 /\ incidents = {}
      /\ policy = [w \in Wallets |-> DefaultPolicy]
      /\ job = [j \in Jobs |-> NoJob]
      /\ request = [c \in Clients |-> NoRequest]
      /\ work = [v \in Workers |-> NoWork]
      /\ allowed = [v \in Workers |-> FALSE]
  BY DEF Init
<1>2. /\ DefaultPolicy \in Policies
      /\ NoJob \in JobRows
      /\ now \in 0..MaxTime /\ crashes \in 0..MaxCrashes
  BY <1>1, CapAssumption, AttemptsAssumption, ClockAssumption
  DEF DefaultPolicy, Policies, NoJob, JobRows
<1>3. TypeOK
  BY <1>1, <1>2, NoWorkTyped DEF TypeOK, NoRequest, WorkRecords
<1>4. IncidentsCounted /\ Exclusive /\ Held /\ Rows /\ Permitted
  BY <1>1 DEF IncidentsCounted, Exclusive, Held, Rows, Permitted, NoWork, NoJob,
              NoRequest
<1> QED BY <1>3, <1>4 DEF QueueInv

----------------------------------------------------------------------------
\* The invariant of the queue.
THEOREM QueueInvariant == Spec => []QueueInv
BY QueueInit, QueueStep, PTL DEF Spec

\* Jobs, incidents, requests and workers keep their types: in particular a
\* job is attempted at most max_attempts times.
THEOREM QueueTyped == Spec => []TypeOK
<1>1. QueueInv => TypeOK
  BY DEF QueueInv
<1> QED BY <1>1, QueueInvariant, PTL

\* Every committed incident is of an attempt that its job row counts.
THEOREM Counting == Spec => []IncidentsCounted
<1>1. QueueInv => IncidentsCounted
  BY DEF QueueInv
<1> QED BY <1>1, QueueInvariant, PTL

\* What a step does to a job: only the worker that holds it, and only while
\* it is pending, or the insert that creates it.
LEMMA JobChange ==
    ASSUME QueueInv, [Next]_vars, NEW j \in Jobs, job'[j] # job[j]
    PROVE  \/ job[j].status = "none"
           \/ \E v \in Workers : Ends(v) /\ work[v].job = j
<1>1. ASSUME NEW c \in Clients, NEW time \in Schedules, Insert(c, time)
      PROVE  job[j].status = "none"
  <2> DEFINE x == CHOOSE y \in Fresh : TRUE
  <2>1. x \in Jobs /\ job[x].status = "none"
    BY <1>1 DEF Insert, Fresh
  <2>2. j # x => job'[j] = job[j]
    BY <1>1 DEF Insert, QueueInv, TypeOK
  <2> QED BY <2>1, <2>2
<1>2. ASSUME NEW v \in Workers, Ends(v) PROVE work[v].job = j
  BY <1>2 DEF Ends, Commit, QueueInv, TypeOK
<1>3. ASSUME NEW v \in Workers, Claim(v) \/ Scans(v) \/ Crash(v) PROVE FALSE
  BY <1>3 DEF Claim, Start, Scans, ReadPolicy, Dispatch, ScanOne, Crash
<1>4. CASE \/ UNCHANGED vars
           \/ Tick
           \/ \E w \in Wallets, p \in Policies : SetPolicy(w, p)
           \/ \E c \in Clients : \/ \E w \in Wallets : Begin(c, w)
                                 \/ Count(c)
                                 \/ GiveUp(c)
  BY <1>4 DEF vars, Tick, SetPolicy, Begin, Count, GiveUp
<1> QED BY <1>1, <1>2, <1>3, <1>4, Steps

\* The outcome of a job is final, however many workers run.
THEOREM OutcomesFinal == Spec => OutcomeFinal
<1>1. ASSUME QueueInv, [Next]_vars, NEW j \in Jobs, job[j].status \in Final
      PROVE  job'[j] = job[j]
  <2>1. job[j].status # "none" /\ job[j].status # "pending"
    BY <1>1 DEF Final
  <2>2. ASSUME NEW v \in Workers, Ends(v), work[v].job = j PROVE FALSE
    BY <1>1, <2>1, <2>2, ClaimedTyped DEF Ends
  <2> QED BY <1>1, <2>1, <2>2, JobChange
<1>2. QueueInv /\ [Next]_vars =>
        [\A j \in Jobs : job[j].status \in Final => job'[j] = job[j]]_vars
  BY <1>1
<1> QED BY <1>2, QueueInvariant, PTL DEF Spec, OutcomeFinal

\* A queued job of a wallet that opted out or pulled the kill switch before
\* the claim, and did not allow automation again since, is cancelled.
THEOREM KillSwitch == Spec => KillSwitchHolds
<1> DEFINE A(v) == LET j == work[v].job
                   IN  j # None /\ ~allowed[v] /\ job'[j] # job[j] =>
                         job'[j].status = "cancelled" /\ incidents' = incidents
<1>1. ASSUME QueueInv, [Next]_vars, NEW v \in Workers PROVE A(v)
  <2> DEFINE j == work[v].job
  <2> SUFFICES ASSUME j # None, ~allowed[v], job'[j] # job[j]
               PROVE  job'[j].status = "cancelled" /\ incidents' = incidents
    OBVIOUS
  <2>1. j \in Jobs /\ job[j].status = "pending"
    BY <1>1 DEF QueueInv, TypeOK, Held
  <2>2. Ends(v)
    <3>1. PICK u \in Workers : Ends(u) /\ work[u].job = j
      BY <1>1, <2>1, JobChange
    <3> QED BY <1>1, <3>1 DEF QueueInv, Exclusive
  <2>3. work[v].phase \notin {"dispatched", "scanning"}
    BY <1>1 DEF QueueInv, Permitted
  <2>4. /\ Commit(v, [Claimed(v) EXCEPT !.status = "cancelled"])
        /\ work[v].phase = "claimed"
    BY <2>2, <2>3 DEF Ends
  <2>5. work[v].own = {} /\ Claimed(v) \in JobRows
    BY <1>1, <2>4, ClaimedTyped DEF QueueInv, Held
  <2>6. job'[j] = [Claimed(v) EXCEPT !.status = "cancelled"]
    BY <1>1, <2>1, <2>4 DEF Commit, QueueInv, TypeOK
  <2>7. job'[j].status = "cancelled"
    BY <2>5, <2>6 DEF JobRows
  <2>8. incidents' = incidents
    BY <2>4, <2>5 DEF Commit
  <2> QED BY <2>7, <2>8
<1>2. QueueInv /\ [Next]_vars => [\A v \in Workers : A(v)]_vars
  BY <1>1
<1> QED BY <1>2, QueueInvariant, PTL DEF Spec, KillSwitchHolds

----------------------------------------------------------------------------
(***************************************************************************)
(* How far the daily cap is missed.                                        *)
(***************************************************************************)
\* The requests for w whose transaction began on day d, and those of them
\* that have passed the count.
Waiting(w, d) ==
    {c \in Clients : /\ request[c].phase # "idle"
                     /\ request[c].wallet = w
                     /\ request[c].day = d}

Passed(w, d) == {c \in Waiting(w, d) : request[c].phase = "counted"}

Slack == LargestCap + Cardinality(Clients) - 1

\* Whoever passes the count finds room for one more job, so that on the day
\* itself the jobs and those that have passed stay within the cap and one
\* for each other client.  When the day is over each request that is still
\* under way may add one more, and no request of the day begins any more.
Capped(w, d) ==
    /\ d > Day(now) => Counted(w, d) = {} /\ Waiting(w, d) = {}
    /\ d = Day(now) => Cardinality(Counted(w, d)) + Cardinality(Passed(w, d)) <= Slack
    /\ d < Day(now) => Cardinality(Counted(w, d)) + Cardinality(Waiting(w, d))
                          <= Slack + Cardinality(Clients)

CapInv == \A w \in Wallets, d \in Nat : Capped(w, d)

\* The caps of the requests under way are caps that a policy may have.
RequestCaps == \A c \in Clients : request[c].phase # "idle" => request[c].cap \in Caps

\* The largest cap is one of them.
LEMMA LargestCapTyped ==
    /\ LargestCap \in Nat
    /\ \A cap \in Caps : cap <= LargestCap
BY LargestAssumption, CapAssumption DEF LargestCap

\* Counting from a day on but not from the next is counting that day.
LEMMA CountedRows ==
    ASSUME TypeOK, NEW w, NEW d \in Nat
    PROVE  Counted(w, d) = {j \in Jobs : /\ job[j].status \notin {"none", "cancelled"}
                                         /\ job[j].wallet = w
                                         /\ job[j].created = d}
<1>1. \A j \in Jobs : job[j].created \in Nat
  BY DEF TypeOK, JobRows
<1>2. \A j \in Jobs : job[j].created >= d /\ ~(job[j].created >= d + 1)
                        <=> job[j].created = d
  BY <1>1
<1> QED BY <1>2, Zenon DEF Counted, Since

\* The same after a step.
LEMMA CountedRowsNext ==
    ASSUME TypeOK', NEW w, NEW d \in Nat
    PROVE  Counted(w, d)' = {j \in Jobs : /\ job'[j].status \notin {"none", "cancelled"}
                                          /\ job'[j].wallet = w
                                          /\ job'[j].created = d}
<1>1. \A j \in Jobs : job'[j].created \in Nat
  BY DEF TypeOK, JobRows
<1>2. \A j \in Jobs : job'[j].created >= d /\ ~(job'[j].created >= d + 1)
                        <=> job'[j].created = d
  BY <1>1
<1> QED BY <1>2, Zenon DEF Counted, Since

\* All these sets are finite, and no more requests wait than there are clients.
LEMMA Sizes ==
    ASSUME NEW w, NEW d
    PROVE  /\ IsFiniteSet(Counted(w, d)) /\ Cardinality(Counted(w, d)) \in Nat
           /\ IsFiniteSet(Waiting(w, d)) /\ Cardinality(Waiting(w, d)) \in Nat
           /\ IsFiniteSet(Passed(w, d)) /\ Cardinality(Passed(w, d)) \in Nat
           /\ Cardinality(Waiting(w, d)) <= Cardinality(Clients)
           /\ Cardinality(Passed(w, d)) <= Cardinality(Waiting(w, d))
           /\ Cardinality(Clients) \in Nat /\ Cardinality(Clients) >= 1
           /\ Slack \in Nat
<1>1. /\ Counted(w, d) \in SUBSET Jobs
      /\ Waiting(w, d) \in SUBSET Clients
      /\ Passed(w, d) \in SUBSET Waiting(w, d)
  BY DEF Counted, Since, Waiting, Passed
<1>2. IsFiniteSet(Counted(w, d)) /\ IsFiniteSet(Waiting(w, d))
  BY <1>1, SizeAssumption, FS_Subset
<1>3. /\ IsFiniteSet(Passed(w, d))
      /\ Cardinality(Waiting(w, d)) <= Cardinality(Clients)
      /\ Cardinality(Passed(w, d)) <= Cardinality(Waiting(w, d))
  BY <1>1, <1>2, SizeAssumption, FS_Subset
<1>4. /\ Cardinality(Counted(w, d)) \in Nat
      /\ Cardinality(Waiting(w, d)) \in Nat
      /\ Cardinality(Passed(w, d)) \in Nat
      /\ Cardinality(Clients) \in Nat
  BY <1>2, <1>3, SizeAssumption, FS_CardinalityType
<1>5. Cardinality(Clients) # 0
  BY SizeAssumption, FS_EmptySet
<1>6. Cardinality(Clients) >= 1 /\ Slack \in Nat
  BY <1>4, <1>5, LargestCapTyped DEF Slack
<1> QED BY <1>2, <1>3, <1>4, <1>6

----------------------------------------------------------------------------
\* Fewer jobs or requests of a day only help.
LEMMA Less ==
    ASSUME NEW w, NEW d \in Nat, Capped(w, d), now \in Nat, now' = now,
           Counted(w, d)' \subseteq Counted(w, d),
           Waiting(w, d)' \subseteq Waiting(w, d),
           Passed(w, d)' \subseteq Passed(w, d)
    PROVE  Capped(w, d)'
<1> DEFINE K == Counted(w, d)
           W == Waiting(w, d)
           P == Passed(w, d)
<1>1. /\ IsFiniteSet(K) /\ Cardinality(K) \in Nat
      /\ IsFiniteSet(W) /\ Cardinality(W) \in Nat
      /\ IsFiniteSet(P) /\ Cardinality(P) \in Nat
      /\ Slack \in Nat /\ Cardinality(Clients) \in Nat
  BY Sizes
<1>2. /\ Cardinality(K') <= Cardinality(K) /\ Cardinality(K') \in Nat
      /\ Cardinality(W') <= Cardinality(W) /\ Cardinality(W') \in Nat
      /\ Cardinality(P') <= Cardinality(P) /\ Cardinality(P') \in Nat
  BY <1>1, FS_Subset, FS_CardinalityType
<1>3. Day(now) \in Nat /\ Day(now)' = Day(now)
  BY DayTyped DEF Day
<1>4. /\ d > Day(now) => K = {} /\ W = {}
      /\ d = Day(now) => Cardinality(K) + Cardinality(P) <= Slack
      /\ d < Day(now) => Cardinality(K) + Cardinality(W) <= Slack + Cardinality(Clients)
  BY DEF Capped
<1>5. K' \subseteq K /\ W' \subseteq W
  OBVIOUS
<1> HIDE DEF K, W, P
<1>6. /\ d > Day(now) => K' = {} /\ W' = {}
      /\ d = Day(now) => Cardinality(K') + Cardinality(P') <= Slack
      /\ d < Day(now) => Cardinality(K') + Cardinality(W') <= Slack + Cardinality(Clients)
  <2>1. d > Day(now) => K' = {} /\ W' = {}
    BY <1>4, <1>5
  <2> QED BY <1>1, <1>2, <1>4, <2>1
<1> QED BY <1>3, <1>6 DEF Capped, K, W, P

\* Later is a later day or the same.
LEMMA DayMonotone ==
    ASSUME NEW m \in Nat, NEW n \in Nat, m <= n
    PROVE  Day(m) <= Day(n)
<1> DEFINE D == DayLength
<1>1. D \in Nat /\ D > 0
  BY ClockAssumption
<1>2. /\ Day(m) \in Nat /\ Day(n) \in Nat
      /\ m = D * Day(m) + (m % D) /\ m % D \in 0..(D - 1)
      /\ n = D * Day(n) + (n % D) /\ n % D \in 0..(D - 1)
  BY <1>1, DayTyped, SMT DEF Day
<1> HIDE DEF D
<1>3. ASSUME Day(n) + 1 <= Day(m) PROVE FALSE
  <2>1. D * (Day(n) + 1) <= D * Day(m)
    BY <1>1, <1>2, <1>3
  <2>2. D * (Day(n) + 1) = D * Day(n) + D
    BY <1>1, <1>2
  <2>3. /\ D * Day(n) \in Nat /\ D * Day(m) \in Nat
    BY <1>1, <1>2
  <2> QED BY <1>1, <1>2, <2>1, <2>2, <2>3
<1> QED BY <1>2, <1>3

\* Midnight: what was of today is of a day that is over.
LEMMA TickCap ==
    ASSUME QueueInv, CapInv, Tick
    PROVE  CapInv'
<1>1. /\ now \in Nat /\ now' \in Nat /\ now <= now'
      /\ UNCHANGED <<job, request>>
  BY ClockAssumption DEF QueueInv, TypeOK, Tick
<1>2. /\ Day(now) \in Nat /\ Day(now)' \in Nat /\ Day(now) <= Day(now)'
  BY <1>1, DayTyped, DayMonotone DEF Day
<1> SUFFICES ASSUME NEW w \in Wallets, NEW d \in Nat PROVE Capped(w, d)'
  BY DEF CapInv
<1> DEFINE K == Counted(w, d)
           W == Waiting(w, d)
           P == Passed(w, d)
<1>3. K' = K /\ W' = W /\ P' = P
  BY <1>1 DEF Counted, Since, Waiting, Passed
<1>4. /\ Cardinality(K) \in Nat /\ Cardinality(W) \in Nat /\ Cardinality(P) \in Nat
      /\ Cardinality(W) <= Cardinality(Clients)
      /\ Slack \in Nat /\ Cardinality(Clients) \in Nat
  BY Sizes
<1>5. /\ d > Day(now) => K = {} /\ W = {}
      /\ d = Day(now) => Cardinality(K) + Cardinality(P) <= Slack
      /\ d < Day(now) => Cardinality(K) + Cardinality(W) <= Slack + Cardinality(Clients)
  BY DEF CapInv, Capped
<1>6. P \subseteq W
  BY DEF Passed
<1>7. d > Day(now) => Cardinality(K) = 0 /\ Cardinality(W) = 0 /\ Cardinality(P) = 0
  BY <1>5, <1>6, FS_EmptySet
<1> HIDE DEF K, W, P
<1>8. /\ d > Day(now)' => K = {} /\ W = {}
      /\ d = Day(now)' => Cardinality(K) + Cardinality(P) <= Slack
      /\ d < Day(now)' => Cardinality(K) + Cardinality(W) <= Slack + Cardinality(Clients)
  BY <1>2, <1>4, <1>5, <1>7
<1> QED BY <1>3, <1>8 DEF Capped, K, W, P

\* A request that leaves, or does not get past the count.
LEMMA LeaveCap ==
    ASSUME QueueInv, CapInv, RequestCaps, NEW c \in Clients,
           request' = [request EXCEPT ![c] = NoRequest], UNCHANGED <<now, job>>
    PROVE  CapInv' /\ RequestCaps'
<1>1. request \in [Clients -> [phase : {"idle", "begun", "counted"},
                               wallet : Wallets \cup {None},
                               cap : Caps \cup {0}, day : Nat]]
      /\ now \in Nat
  BY ClockAssumption DEF QueueInv, TypeOK
<1>2. /\ request'[c].phase = "idle"
      /\ \A b \in Clients : b # c => request'[b] = request[b]
  BY <1>1 DEF NoRequest
<1>3. ASSUME NEW w \in Wallets, NEW d \in Nat PROVE Capped(w, d)'
  <2>1. Waiting(w, d)' \subseteq Waiting(w, d)
    BY <1>2 DEF Waiting
  <2>2. Passed(w, d)' \subseteq Passed(w, d)
    BY <1>2 DEF Passed, Waiting
  <2>3. Counted(w, d)' = Counted(w, d)
    BY DEF Counted, Since
  <2> QED BY <1>1, <2>1, <2>2, <2>3, Less DEF CapInv
<1> QED BY <1>2, <1>3 DEF CapInv, RequestCaps

\* A request that begins has not passed the count, and is of today.
LEMMA BeginCap ==
    ASSUME QueueInv, CapInv, RequestCaps, NEW c \in Clients, NEW v \in Wallets,
           Begin(c, v)
    PROVE  CapInv' /\ RequestCaps'
<1> DEFINE new == [phase |-> "begun", wallet |-> v, cap |-> policy[v].cap,
                   day |-> Day(now)]
<1>1. /\ request' = [request EXCEPT ![c] = new]
      /\ request[c].phase = "idle"
      /\ UNCHANGED <<now, job>>
      /\ request \in [Clients -> [phase : {"idle", "begun", "counted"},
                                  wallet : Wallets \cup {None},
                                  cap : Caps \cup {0}, day : Nat]]
      /\ now \in Nat /\ new.cap \in Caps
  BY ClockAssumption DEF Begin, QueueInv, TypeOK, Policies
<1>2. new.phase = "begun" /\ new.day = Day(now) /\ Day(now) \in Nat
  BY <1>1, DayTyped
<1> HIDE DEF new
<1>3. /\ request'[c] = new
      /\ \A b \in Clients : b # c => request'[b] = request[b]
  BY <1>1
<1>4. ASSUME NEW w \in Wallets, NEW d \in Nat PROVE Capped(w, d)'
  <2>1. Counted(w, d)' = Counted(w, d) /\ Day(now)' = Day(now)
    BY <1>1 DEF Counted, Since, Day
  <2>2. Passed(w, d)' = Passed(w, d)
    BY <1>1, <1>2, <1>3 DEF Passed, Waiting
  <2>3. d # Day(now) => Waiting(w, d)' = Waiting(w, d)
    BY <1>1, <1>2, <1>3 DEF Waiting
  <2>4. Capped(w, d)
    BY DEF CapInv
  <2>5. CASE d = Day(now)
    BY <1>2, <2>1, <2>2, <2>4, <2>5 DEF Capped
  <2>6. CASE d # Day(now)
    BY <1>2, <2>1, <2>2, <2>3, <2>4, <2>6 DEF Capped
  <2> QED BY <2>5, <2>6
<1>5. RequestCaps'
  BY <1>1, <1>3 DEF RequestCaps
<1> QED BY <1>4, <1>5 DEF CapInv

\* A request that passes the count has seen one job less than its cap.
LEMMA PassCap ==
    ASSUME QueueInv, CapInv, RequestCaps, NEW c \in Clients,
           request[c].phase = "begun",
           request' = [request EXCEPT ![c].phase = "counted"],
           UNCHANGED <<now, job>>,
           ~(Cardinality(Since(request[c].wallet, Day(now))) >= request[c].cap)
    PROVE  CapInv' /\ RequestCaps'
<1>1. /\ request \in [Clients -> [phase : {"idle", "begun", "counted"},
                                  wallet : Wallets \cup {None},
                                  cap : Caps \cup {0}, day : Nat]]
      /\ now \in Nat /\ request[c].cap \in Caps
  BY ClockAssumption DEF QueueInv, TypeOK, RequestCaps
<1>2. /\ request'[c] = [request[c] EXCEPT !.phase = "counted"]
      /\ \A b \in Clients : b # c => request'[b] = request[b]
  BY <1>1
<1>3. /\ request'[c].phase = "counted" /\ request'[c].wallet = request[c].wallet
      /\ request'[c].day = request[c].day /\ request'[c].cap = request[c].cap
  BY <1>1, <1>2
<1>4. ASSUME NEW w \in Wallets, NEW d \in Nat PROVE Capped(w, d)'
  <2> DEFINE K == Counted(w, d)
  <2>1. K' = K /\ Day(now)' = Day(now)
    BY DEF Counted, Since, Day
  <2>2. Waiting(w, d)' = Waiting(w, d)
    BY <1>2, <1>3 DEF Waiting
  <2>3. Capped(w, d) /\ Day(now) \in Nat
    BY <1>1, DayTyped DEF CapInv
  <2>4. CASE request[c].wallet = w /\ request[c].day = d /\ d = Day(now)
    <3>1. K \in SUBSET Since(w, d) /\ Since(w, d) \in SUBSET Jobs
      BY DEF Counted, Since
    <3>2. IsFiniteSet(Since(w, d))
      BY <3>1, SizeAssumption, FS_Subset
    <3>3. Cardinality(K) <= Cardinality(Since(w, d)) /\ Cardinality(Since(w, d)) \in Nat
      BY <3>1, <3>2, FS_Subset, FS_CardinalityType
    <3>4. /\ Cardinality(Passed(w, d)') \in Nat
          /\ Cardinality(Passed(w, d)') <= Cardinality(Waiting(w, d)')
      <4>1. Passed(w, d)' \in SUBSET Waiting(w, d)
        BY <2>2 DEF Passed
      <4>2. IsFiniteSet(Waiting(w, d))
        BY Sizes
      <4> QED BY <2>2, <4>1, <4>2, FS_Subset, FS_CardinalityType
    <3>5. /\ Cardinality(Waiting(w, d)) <= Cardinality(Clients)
          /\ Cardinality(Waiting(w, d)) \in Nat
          /\ Cardinality(Clients) \in Nat /\ Cardinality(K) \in Nat
      BY Sizes
    <3>6. /\ request[c].cap <= LargestCap /\ LargestCap \in Nat /\ request[c].cap \in Nat
          /\ ~(Cardinality(Since(w, d)) >= request[c].cap)
      BY <1>1, <2>4, LargestCapTyped, CapAssumption
    <3> HIDE DEF K
    <3>7. Cardinality(K) + Cardinality(Passed(w, d)') <= Slack
      BY <2>2, <3>3, <3>4, <3>5, <3>6 DEF Slack
    <3> QED BY <2>1, <2>3, <2>4, <3>7 DEF Capped, K
  <2>5. CASE ~(request[c].wallet = w /\ request[c].day = d)
    <3>1. Passed(w, d)' = Passed(w, d)
      BY <1>2, <1>3, <2>2, <2>5 DEF Passed, Waiting
    <3> QED BY <2>1, <2>2, <2>3, <3>1 DEF Capped
  <2>6. CASE d # Day(now)
    BY <2>1, <2>2, <2>3, <2>6 DEF Capped
  <2> QED BY <2>4, <2>5, <2>6
<1>5. RequestCaps'
  BY <1>2, <1>3 DEF RequestCaps
<1> QED BY <1>4, <1>5 DEF CapInv

\* An insert turns a request that has passed into a job of the same day.
LEMMA InsertCap ==
    ASSUME QueueInv, QueueInv', CapInv, RequestCaps, NEW c \in Clients,
           NEW time \in Schedules, Insert(c, time)
    PROVE  CapInv' /\ RequestCaps'
<1> DEFINE i == CHOOSE x \in Fresh : TRUE
           row == [status |-> "pending", wallet |-> request[c].wallet,
                   attempts |-> 0, scheduled |-> time, created |-> request[c].day]
<1>1. i \in Jobs /\ job[i].status = "none"
  BY DEF Insert, Fresh
<1>2. /\ job' = [job EXCEPT ![i] = row]
      /\ request' = [request EXCEPT ![c] = NoRequest]
      /\ request[c].phase = "counted" /\ now' = now
      /\ request \in [Clients -> [phase : {"idle", "begun", "counted"},
                                  wallet : Wallets \cup {None},
                                  cap : Caps \cup {0}, day : Nat]]
      /\ now \in Nat /\ job \in [Jobs -> JobRows] /\ TypeOK /\ TypeOK'
  BY ClockAssumption DEF Insert, QueueInv, TypeOK
<1>3. row.status = "pending" /\ row.wallet = request[c].wallet
      /\ row.created = request[c].day
  OBVIOUS
<1> HIDE DEF i, row
<1>4. /\ job'[i] = row /\ \A j \in Jobs : j # i => job'[j] = job[j]
      /\ request'[c].phase = "idle"
      /\ \A b \in Clients : b # c => request'[b] = request[b]
  BY <1>1, <1>2 DEF NoRequest
<1>5. ASSUME NEW w \in Wallets, NEW d \in Nat PROVE Capped(w, d)'
  <2> DEFINE K == Counted(w, d)
             W == Waiting(w, d)
             P == Passed(w, d)
  <2>1. /\ K = {j \in Jobs : /\ job[j].status \notin {"none", "cancelled"}
                             /\ job[j].wallet = w
                             /\ job[j].created = d}
        /\ K' = {j \in Jobs : /\ job'[j].status \notin {"none", "cancelled"}
                              /\ job'[j].wallet = w
                              /\ job'[j].created = d}
    BY <1>2, CountedRows, CountedRowsNext
  <2>2. Capped(w, d) /\ Day(now) \in Nat /\ Day(now)' = Day(now)
    BY <1>2, DayTyped DEF CapInv, Day
  <2>3. CASE request[c].wallet = w /\ request[c].day = d
    <3>1. K' = K \cup {i} /\ i \notin K
      BY <1>1, <1>3, <1>4, <2>1, <2>3
    <3>2. W' = W \ {c} /\ c \in W
      BY <1>2, <1>4, <2>3 DEF Waiting
    <3>3. P' = P \ {c} /\ c \in P
      BY <1>2, <1>4, <3>2 DEF Passed, Waiting
    <3>4. /\ IsFiniteSet(K) /\ IsFiniteSet(W) /\ IsFiniteSet(P)
          /\ Cardinality(K) \in Nat /\ Cardinality(W) \in Nat /\ Cardinality(P) \in Nat
          /\ Slack \in Nat /\ Cardinality(Clients) \in Nat
      BY Sizes
    <3>5. /\ W # {}
          /\ d = Day(now) => Cardinality(K) + Cardinality(P) <= Slack
          /\ d < Day(now) => Cardinality(K) + Cardinality(W) <= Slack + Cardinality(Clients)
          /\ ~(d > Day(now))
      BY <2>2, <3>2 DEF Capped
    <3> HIDE DEF K, W, P
    <3>6. /\ Cardinality(K') = Cardinality(K) + 1
          /\ Cardinality(W') = Cardinality(W) - 1
          /\ Cardinality(P') = Cardinality(P) - 1
      BY <3>1, <3>2, <3>3, <3>4, FS_AddElement, FS_RemoveElement
    <3>7. /\ ~(d > Day(now))
          /\ d = Day(now) => Cardinality(K') + Cardinality(P') <= Slack
          /\ d < Day(now) => Cardinality(K') + Cardinality(W') <= Slack + Cardinality(Clients)
      BY <3>4, <3>5, <3>6
    <3> QED BY <2>2, <3>7 DEF Capped, K, W, P
  <2>4. CASE ~(request[c].wallet = w /\ request[c].day = d)
    <3>1. K' \subseteq K
      BY <1>1, <1>3, <1>4, <2>1, <2>4
    <3>2. W' \subseteq W
      BY <1>4 DEF Waiting
    <3>3. P' \subseteq P
      BY <1>4 DEF Passed, Waiting
    <3> QED BY <1>2, <2>2, <3>1, <3>2, <3>3, Less
  <2> QED BY <2>3, <2>4
<1>6. RequestCaps'
  BY <1>4 DEF RequestCaps
<1> QED BY <1>5, <1>6 DEF CapInv

\* A worker ends a job that was counted, or keeps it counted.
LEMMA EndCap ==
    ASSUME QueueInv, QueueInv', CapInv, RequestCaps, NEW v \in Workers, Ends(v)
    PROVE  CapInv' /\ RequestCaps'
<1> DEFINE i == work[v].job
<1>1. /\ i \in Jobs /\ job[i].status = "pending"
      /\ Claimed(v) \in JobRows /\ Claimed(v).wallet = job[i].wallet
      /\ job[i] \in JobRows /\ now \in 0..MaxTime
  BY ClaimedTyped DEF Ends, QueueInv, TypeOK
<1>2. Claimed(v).created = job[i].created
  BY <1>1 DEF Claimed, JobRows
<1>3. PICK row : Commit(v, row) /\ row.wallet = job[i].wallet /\ row.created = job[i].created
  <2>1. \A s : LET row == [Claimed(v) EXCEPT !.status = s]
               IN  row.wallet = job[i].wallet /\ row.created = job[i].created
    BY <1>1, <1>2 DEF JobRows
  <2>2. MarkFailed(v).wallet = job[i].wallet /\ MarkFailed(v).created = job[i].created
    BY <1>1, <1>2 DEF JobRows, MarkFailed
  <2>3. \/ Commit(v, [Claimed(v) EXCEPT !.status = "cancelled"])
        \/ Commit(v, [Claimed(v) EXCEPT !.status = "completed"])
        \/ Commit(v, MarkFailed(v))
    BY DEF Ends
  <2> QED BY <2>1, <2>2, <2>3, Zenon
<1>4. /\ job' = [job EXCEPT ![i] = row] /\ UNCHANGED <<now, request>>
      /\ job \in [Jobs -> JobRows] /\ TypeOK /\ TypeOK' /\ now \in Nat
  BY <1>3, ClockAssumption DEF Commit, QueueInv, TypeOK
<1> HIDE DEF i
<1>5. job'[i] = row /\ \A j \in Jobs : j # i => job'[j] = job[j]
  BY <1>1, <1>4
<1>6. ASSUME NEW w \in Wallets, NEW d \in Nat PROVE Capped(w, d)'
  <2>1. /\ Counted(w, d) = {j \in Jobs : /\ job[j].status \notin {"none", "cancelled"}
                                         /\ job[j].wallet = w
                                         /\ job[j].created = d}
        /\ Counted(w, d)' = {j \in Jobs : /\ job'[j].status \notin {"none", "cancelled"}
                                          /\ job'[j].wallet = w
                                          /\ job'[j].created = d}
    BY <1>4, CountedRows, CountedRowsNext
  <2>2. Counted(w, d)' \subseteq Counted(w, d)
    BY <1>1, <1>3, <1>5, <2>1
  <2>3. Waiting(w, d)' = Waiting(w, d) /\ Passed(w, d)' = Passed(w, d)
    BY <1>4 DEF Waiting, Passed
  <2>4. Capped(w, d) /\ now' = now
    BY <1>4 DEF CapInv
  <2> QED BY <1>4, <2>2, <2>3, <2>4, Less
<1> QED BY <1>4, <1>6 DEF CapInv, RequestCaps

\* Every step keeps to it.
LEMMA CapStep ==
    QueueInv /\ QueueInv' /\ CapInv /\ RequestCaps /\ [Next]_vars => CapInv' /\ RequestCaps'
<1> SUFFICES ASSUME QueueInv, QueueInv', CapInv, RequestCaps, [Next]_vars
             PROVE  CapInv' /\ RequestCaps'
  OBVIOUS
<1>1. ASSUME UNCHANGED <<now, job, request>> PROVE CapInv' /\ RequestCaps'
  <2>1. ASSUME NEW w \in Wallets, NEW d \in Nat PROVE Capped(w, d)'
    <3>1. /\ Counted(w, d)' = Counted(w, d)
          /\ Waiting(w, d)' = Waiting(w, d)
          /\ Passed(w, d)' = Passed(w, d)
      BY <1>1 DEF Counted, Since, Waiting, Passed
    <3>2. Capped(w, d) /\ now' = now /\ now \in Nat
      BY <1>1, ClockAssumption DEF CapInv, QueueInv, TypeOK
    <3> QED BY <3>1, <3>2, Less
  <2> QED BY <1>1, <2>1 DEF CapInv, RequestCaps
<1>2. CASE UNCHANGED vars
  BY <1>1, <1>2 DEF vars
<1>3. CASE Tick
  BY <1>3, TickCap DEF Tick, RequestCaps
<1>4. CASE \E w \in Wallets, p \in Policies : SetPolicy(w, p)
  BY <1>1, <1>4 DEF SetPolicy
<1>5. ASSUME NEW c \in Clients, Count(c) PROVE CapInv' /\ RequestCaps'
  <2>1. /\ request[c].phase = "begun" /\ UNCHANGED <<now, job>>
        /\ IF Cardinality(Since(request[c].wallet, Day(now))) >= request[c].cap
           THEN request' = [request EXCEPT ![c] = NoRequest]
           ELSE request' = [request EXCEPT ![c].phase = "counted"]
    BY <1>5 DEF Count, QueueInv, TypeOK
  <2> QED BY <2>1, LeaveCap, PassCap
<1>6. ASSUME NEW c \in Clients, GiveUp(c) PROVE CapInv' /\ RequestCaps'
  BY <1>6, LeaveCap DEF GiveUp
<1>7. ASSUME NEW v \in Workers, Claim(v) \/ Scans(v) \/ Crash(v)
      PROVE  CapInv' /\ RequestCaps'
  BY <1>1, <1>7 DEF Claim, Start, Scans, ReadPolicy, Dispatch, ScanOne, Crash
<1>8. ASSUME NEW c \in Clients, NEW w \in Wallets, Begin(c, w)
      PROVE  CapInv' /\ RequestCaps'
  BY <1>8, BeginCap
<1>9. ASSUME NEW c \in Clients, NEW time \in Schedules, Insert(c, time)
      PROVE  CapInv' /\ RequestCaps'
  BY <1>9, InsertCap
<1>10. ASSUME NEW v \in Workers, Ends(v) PROVE CapInv' /\ RequestCaps'
  BY <1>10, EndCap
<1>11. CASE \E c \in Clients : \/ \E w \in Wallets : Begin(c, w)
                              \/ Count(c)
                              \/ GiveUp(c)
  <2>1. PICK c \in Clients : (\E w \in Wallets : Begin(c, w)) \/ Count(c) \/ GiveUp(c)
    BY <1>11
  <2> QED BY <2>1, <1>5, <1>6, <1>8
<1>12. CASE \E c \in Clients, time \in Schedules : Insert(c, time)
  BY <1>9, <1>12
<1>13. CASE \E v \in Workers : Claim(v) \/ Scans(v) \/ Ends(v) \/ Crash(v)
  <2>1. PICK v \in Workers : Claim(v) \/ Scans(v) \/ Ends(v) \/ Crash(v)
    BY <1>13
  <2> QED BY <2>1, <1>7, <1>10
<1> QED BY <1>2, <1>3, <1>4, <1>11, <1>12, <1>13, Steps

\* No job, no request: all caps are kept.
LEMMA CapInit == Init => CapInv /\ RequestCaps
<1> SUFFICES ASSUME Init PROVE CapInv /\ RequestCaps
  OBVIOUS
<1>1. /\ now = 0 /\ now \in Nat
      /\ \A j \in Jobs : job[j].status = "none"
      /\ \A c \in Clients : request[c].phase = "idle"
  BY DEF Init, NoJob, NoRequest
<1>2. \A w, d : Counted(w, d) = {} /\ Waiting(w, d) = {} /\ Passed(w, d) = {}
  BY <1>1 DEF Counted, Since, Waiting, Passed
<1>3. Cardinality({}) = 0 /\ Slack \in Nat /\ Cardinality(Clients) \in Nat
  BY FS_EmptySet, Sizes
<1>4. Day(now) \in Nat
  BY <1>1, DayTyped
<1>5. CapInv
  BY <1>2, <1>3, <1>4 DEF CapInv, Capped
<1> QED BY <1>1, <1>5 DEF RequestCaps

\* A day never has more jobs than its largest cap, one more for every other
\* concurrent request, and one for each across midnight.
THEOREM Overshoot == Spec => []OvershootBounded
<1>1. ASSUME QueueInv, CapInv PROVE OvershootBounded
  <2> SUFFICES ASSUME NEW w \in Wallets, NEW d \in 0..Day(MaxTime)
               PROVE  Cardinality(Counted(w, d))
                        <= LargestCap + 2 * Cardinality(Clients) - 1
    BY DEF OvershootBounded
  <2>1. d \in Nat /\ Day(now) \in Nat
    BY <1>1, DayTyped, ClockAssumption DEF QueueInv, TypeOK
  <2>2. Capped(w, d)
    BY <1>1, <2>1 DEF CapInv
  <2>3. /\ Cardinality(Counted(w, d)) \in Nat
        /\ Cardinality(Waiting(w, d)) \in Nat
        /\ Cardinality(Passed(w, d)) \in Nat
        /\ Cardinality(Clients) \in Nat /\ LargestCap \in Nat /\ Slack \in Nat
    BY Sizes, LargestCapTyped
  <2>4. Counted(w, d) = {} => Cardinality(Counted(w, d)) = 0
    BY FS_EmptySet
  <2>5. Slack + Cardinality(Clients) = LargestCap + 2 * Cardinality(Clients) - 1
    BY <2>3 DEF Slack
  <2>6. Cardinality(Counted(w, d)) <= Slack + Cardinality(Clients)
    BY <2>1, <2>2, <2>3, <2>4 DEF Capped
  <2> QED BY <2>5, <2>6
<1>2. Spec => [](CapInv /\ RequestCaps)
  BY QueueInvariant, CapInit, CapStep, PTL DEF Spec
<1> QED BY <1>1, <1>2, QueueInvariant, PTL

----------------------------------------------------------------------------
(***************************************************************************)
(* How often a stuck transaction is reported.  Whoever has an uncommitted  *)
(* incident about it has scanned before any was committed, so those that   *)
(* are committed and those that are not stem from different workers.       *)
(***************************************************************************)
About(x) == {i \in incidents : i.about = x}

\* The workers that have found x, but have not committed it yet.
Finders(x) == {v \in Workers : \E i \in work[v].own : i.about = x}

ReportedBy(x) ==
    /\ IsFiniteSet(About(x))
    /\ Cardinality(About(x)) + Cardinality(Finders(x)) <= Cardinality(Workers)

\* There are finitely many finders, and no more than workers.
LEMMA FindersFinite ==
    ASSUME NEW S \in SUBSET Workers
    PROVE  /\ IsFiniteSet(S)
           /\ Cardinality(S) \in Nat /\ Cardinality(Workers) \in Nat
           /\ Cardinality(S) <= Cardinality(Workers)
BY WorkersAssumption, FS_Subset, FS_CardinalityType

\* It stays so if nobody finds x, or nobody has committed it.
LEMMA FindersLeave ==
    ASSUME NEW x, ReportedBy(x), About(x)' = About(x),
           Finders(x)' \subseteq Finders(x) \/ About(x) = {}
    PROVE  ReportedBy(x)'
<1>1. /\ Finders(x) \in SUBSET Workers /\ Finders(x)' \in SUBSET Workers
      /\ IsFiniteSet(About(x))
  BY DEF Finders, ReportedBy
<1>2. /\ Cardinality(Finders(x)) \in Nat /\ Cardinality(Finders(x)') \in Nat
      /\ Cardinality(Finders(x)') <= Cardinality(Workers)
      /\ Cardinality(Workers) \in Nat /\ Cardinality(About(x)) \in Nat
  BY <1>1, FindersFinite, FS_CardinalityType
<1>3. CASE Finders(x)' \subseteq Finders(x)
  <2>1. Cardinality(Finders(x)') <= Cardinality(Finders(x))
    BY <1>1, <1>3, FindersFinite, FS_Subset
  <2> QED BY <1>2, <2>1 DEF ReportedBy
<1>4. CASE About(x) = {}
  <2>1. Cardinality(About(x)) = 0
    BY <1>4, FS_EmptySet
  <2> QED BY <1>1, <1>2, <2>1 DEF ReportedBy
<1> QED BY <1>3, <1>4

\* A scan adds an incident only if none is committed.
LEMMA ScanFinds ==
    ASSUME QueueInv, NEW v \in Workers, Scans(v), NEW x \in Txs
    PROVE  /\ About(x)' = About(x)
           /\ Finders(x)' \subseteq Finders(x) \/ About(x) = {}
<1>1. work \in [Workers -> WorkRecords]
  BY DEF QueueInv, TypeOK, WorkRecords
<1>2. About(x)' = About(x)
  BY DEF Scans, ReadPolicy, Dispatch, ScanOne, About
<1>3. \A u \in Workers : u # v => work'[u] = work[u]
  BY <1>1 DEF Scans, ReadPolicy, Dispatch, ScanOne
<1>4. \/ \A i \in work'[v].own : i.about = x => i \in work[v].own
      \/ About(x) = {}
  <2>1. CASE ReadPolicy(v) /\ Allowed(policy[Claimed(v).wallet])
    BY <1>1, <2>1 DEF ReadPolicy, WorkRecords
  <2>2. CASE Dispatch(v)
    <3>1. ASSUME NEW s \in Signals
          PROVE  Incident(work[v].job, Claimed(v).attempts, s).about # x
      BY <3>1, SignalAssumption DEF Incident
    <3> QED BY <1>1, <2>2, <3>1 DEF Dispatch, WorkRecords
  <2>3. ASSUME NEW y \in Txs, ScanOne(v, y)
        PROVE  \/ \A i \in work'[v].own : i.about = x => i \in work[v].own
               \/ About(x) = {}
    <3> DEFINE found == \E i \in incidents \cup work[v].own : i.about = y
               new == Incident(work[v].job, Claimed(v).attempts, y)
    <3>1. work'[v].own = IF found THEN work[v].own ELSE work[v].own \cup {new}
      BY <1>1, <2>3 DEF ScanOne, WorkRecords
    <3>2. new.about = y
      BY DEF Incident
    <3> HIDE DEF new
    <3> QED BY <3>1, <3>2 DEF About
  <2> QED BY <2>1, <2>2, <2>3 DEF Scans
<1>5. ASSUME About(x) # {} PROVE Finders(x)' \subseteq Finders(x)
  BY <1>3, <1>4, <1>5 DEF Finders
<1> QED BY <1>2, <1>5

\* A worker commits one incident about x at most, and is not a finder then.
LEMMA EndReports ==
    ASSUME QueueInv, NEW v \in Workers, Ends(v), NEW x \in Txs, ReportedBy(x)
    PROVE  ReportedBy(x)'
<1>1. /\ work \in [Workers -> WorkRecords]
      /\ incidents' = incidents \cup work[v].own
      /\ work' = [work EXCEPT ![v] = NoWork]
  BY DEF QueueInv, TypeOK, WorkRecords, Ends, Commit
<1>2. NoWork.own = {}
  BY DEF NoWork
<1>3. Finders(x)' = Finders(x) \ {v}
  BY <1>1, <1>2 DEF Finders
<1>4. CASE v \notin Finders(x)
  <2>1. About(x)' = About(x)
    BY <1>1, <1>4 DEF About, Finders
  <2> QED BY <1>3, <2>1, FindersLeave
<1>5. CASE v \in Finders(x)
  <2>1. PICK i \in work[v].own : i.about = x
    BY <1>5 DEF Finders
  <2>2. ASSUME NEW k \in work[v].own, k.about = x PROVE k = i
    <3>1. i \in IncidentRows /\ k \in IncidentRows
      BY <1>1, <2>1 DEF WorkRecords
    <3>2. i.job = k.job /\ i.attempt = k.attempt
      BY <2>1 DEF QueueInv, Held
    <3> QED BY <2>1, <2>2, <3>1, <3>2 DEF IncidentRows
  <2>3. About(x)' = About(x) \cup {i}
    BY <1>1, <2>1, <2>2 DEF About
  <2>4. IsFiniteSet(About(x)) /\ Finders(x) \in SUBSET Workers
    BY DEF ReportedBy, Finders
  <2>5. /\ IsFiniteSet(About(x)')
        /\ \/ Cardinality(About(x)') = Cardinality(About(x))
           \/ Cardinality(About(x)') = Cardinality(About(x)) + 1
    BY <2>3, <2>4, FS_AddElement
  <2>6. Cardinality(Finders(x)') = Cardinality(Finders(x)) - 1
    BY <1>3, <1>5, <2>4, FindersFinite, FS_RemoveElement
  <2>7. /\ Cardinality(About(x)) \in Nat /\ Cardinality(Finders(x)) \in Nat
        /\ Cardinality(Workers) \in Nat
    BY <2>4, FindersFinite, FS_CardinalityType
  <2> QED BY <2>5, <2>6, <2>7 DEF ReportedBy
<1> QED BY <1>4, <1>5

LEMMA ReportStep ==
    ASSUME QueueInv, [Next]_vars, NEW x \in Txs, ReportedBy(x)
    PROVE  ReportedBy(x)'
<1>1. CASE incidents' = incidents /\ work' = work
  BY <1>1, FindersLeave DEF About, Finders
<1>2. ASSUME NEW v \in Workers, Scans(v) PROVE ReportedBy(x)'
  BY <1>2, ScanFinds, FindersLeave
<1>3. ASSUME NEW v \in Workers, Claim(v) \/ Crash(v) PROVE ReportedBy(x)'
  <2>1. work \in [Workers -> WorkRecords] /\ incidents' = incidents
    BY <1>3 DEF QueueInv, TypeOK, WorkRecords, Claim, Start, Crash
  <2>2. PICK new : new.own = {} /\ work' = [work EXCEPT ![v] = new]
    <3>1. \A j : [NoWork EXCEPT !.phase = "claimed", !.job = j].own = {}
      BY DEF NoWork
    <3>2. NoWork.own = {}
      BY DEF NoWork
    <3> QED BY <1>3, <3>1, <3>2 DEF Claim, Start, Crash
  <2>3. /\ work'[v].own = {}
        /\ \A u \in Workers : u # v => work'[u] = work[u]
    BY <2>1, <2>2
  <2>4. About(x)' = About(x) /\ Finders(x)' \subseteq Finders(x)
    BY <2>1, <2>3 DEF About, Finders
  <2> QED BY <2>4, FindersLeave
<1>4. ASSUME NEW v \in Workers, Ends(v) PROVE ReportedBy(x)'
  BY <1>4, EndReports
<1>5. CASE \/ UNCHANGED vars
           \/ Tick
           \/ \E w \in Wallets, p \in Policies : SetPolicy(w, p)
           \/ \E c \in Clients : \/ \E w \in Wallets : Begin(c, w)
                                 \/ Count(c)
                                 \/ GiveUp(c)
           \/ \E c \in Clients, time \in Schedules : Insert(c, time)
  <2>1. incidents' = incidents /\ work' = work
    BY <1>5 DEF vars, Tick, SetPolicy, Begin, Count, GiveUp, Insert
  <2> QED BY <1>1, <2>1
<1> QED BY <1>2, <1>3, <1>4, <1>5, Steps

\* However many scans run, the workers report a stuck transaction at most
\* once each.
THEOREM Reporting == Spec => []DuplicatesBounded
<1> DEFINE Inv == \A x \in Txs : ReportedBy(x)
<1>1. Init => Inv
  <2> SUFFICES ASSUME Init, NEW x \in Txs PROVE ReportedBy(x)
    OBVIOUS
  <2>1. About(x) = {} /\ Finders(x) \in SUBSET Workers
    BY DEF Init, About, Finders
  <2>2. IsFiniteSet(About(x)) /\ Cardinality(About(x)) = 0
    BY <2>1, FS_EmptySet
  <2> QED BY <2>1, <2>2, FindersFinite DEF ReportedBy
<1>2. QueueInv /\ Inv /\ [Next]_vars => Inv'
  BY ReportStep
<1>3. ASSUME Inv PROVE DuplicatesBounded
  <2> SUFFICES ASSUME NEW x \in Txs
               PROVE  Cardinality(About(x)) <= Cardinality(Workers)
    BY DEF DuplicatesBounded, About
  <2>1. ReportedBy(x) /\ Finders(x) \in SUBSET Workers
    BY <1>3 DEF Finders
  <2>2. Cardinality(About(x)) \in Nat /\ Cardinality(Finders(x)) \in Nat
        /\ Cardinality(Workers) \in Nat
    BY <2>1, FindersFinite, FS_CardinalityType DEF ReportedBy
  <2> QED BY <2>1, <2>2 DEF ReportedBy
<1> QED BY <1>1, <1>2, <1>3, QueueInvariant, PTL DEF Spec

----------------------------------------------------------------------------
(***************************************************************************)
(* That the queue implements JobLifecycle.                                 *)
(***************************************************************************)
\* An id that has not been handed out has no attempts.
Unused == \A j \in Jobs : job[j].status = "none" => job[j].attempts = 0

\* A step that leaves the job table alone keeps unused ids unused, and the
\* steps that write it write rows that are in use.
LEMMA UnusedStep == QueueInv /\ Unused /\ [Next]_vars => Unused'
<1> SUFFICES ASSUME QueueInv, Unused, [Next]_vars, NEW j \in Jobs,
                    job'[j].status = "none"
             PROVE  job'[j].attempts = 0
  BY DEF Unused
<1>1. ASSUME NEW v \in Workers, Ends(v), work[v].job = j PROVE FALSE
  <2>1. Claimed(v) \in JobRows
    BY <1>1, ClaimedTyped DEF Ends
  <2>2. MarkFailed(v).status # "none"
    BY <2>1 DEF MarkFailed, JobRows
  <2>3. \A s \in Final : [Claimed(v) EXCEPT !.status = s].status # "none"
    BY <2>1 DEF JobRows, Final
  <2>4. PICK row : Commit(v, row) /\ row.status # "none"
    BY <1>1, <2>2, <2>3 DEF Ends, Final
  <2>5. job'[j] = row
    BY <1>1, <2>4 DEF Commit, QueueInv, TypeOK
  <2> QED BY <2>4, <2>5
<1>2. CASE job'[j] = job[j]
  BY <1>2 DEF Unused
<1>3. ASSUME job'[j] # job[j] PROVE FALSE
  <2>0. ASSUME NEW v \in Workers, Ends(v) PROVE FALSE
    BY <1>1, <1>3, <2>0 DEF Ends, Commit, QueueInv, TypeOK
  <2>1. PICK c \in Clients, time \in Schedules : Insert(c, time)
    BY <1>3, <2>0, OnlyWriters
  <2>2. Fresh # {} /\ Fresh \subseteq Jobs
    BY <2>1 DEF Insert, Fresh
  <2>3. PICK x \in Jobs :
          job' = [job EXCEPT ![x] =
                    [status |-> "pending", wallet |-> request[c].wallet,
                     attempts |-> 0, scheduled |-> time,
                     created |-> request[c].day]]
    BY <2>1, <2>2 DEF Insert
  <2> QED BY <1>3, <2>3 DEF QueueInv, TypeOK
<1> QED BY <1>2, <1>3

\* One row has changed and the refinement mapping with it.
LEMMA JobMapped ==
    ASSUME NEW j \in Jobs, NEW row, job \in [Jobs -> JobRows],
           job' = [job EXCEPT ![j] = row]
    PROVE  /\ [i \in Jobs |-> job'[i].status] =
                [[i \in Jobs |-> job[i].status] EXCEPT ![j] = row.status]
           /\ [i \in Jobs |-> job'[i].attempts] =
                [[i \in Jobs |-> job[i].attempts] EXCEPT ![j] = row.attempts]
OBVIOUS

Reported(rows) == {<<i.job, i.attempt>> : i \in rows}

\* What a worker commits is of the attempt it counts.
LEMMA OwnReported ==
    ASSUME QueueInv, NEW v \in Workers, work[v].phase # "idle",
           NEW a, a = job[work[v].job].attempts + 1
    PROVE  Reported(incidents \cup work[v].own) \in
             {Reported(incidents), Reported(incidents) \cup {<<work[v].job, a>>}}
<1>1. \A i \in work[v].own : <<i.job, i.attempt>> = <<work[v].job, a>>
  BY DEF QueueInv, Held
<1>2. CASE work[v].own = {}
  <2>1. incidents \cup work[v].own = incidents
    BY <1>2
  <2> QED BY <2>1
<1>3. CASE work[v].own # {}
  <2>1. PICK i \in work[v].own : TRUE
    BY <1>3
  <2>2. \A p : p \in Reported(incidents \cup work[v].own)
                 <=> p \in Reported(incidents) \cup {<<work[v].job, a>>}
    BY <1>1, <2>1 DEF Reported
  <2>3. Reported(incidents \cup work[v].own) =
          Reported(incidents) \cup {<<work[v].job, a>>}
    BY <2>2
  <2> QED BY <2>3
<1> QED BY <1>2, <1>3

\* An attempt that ends is an end of the job's life cycle.
LEMMA JobwiseEnd ==
    ASSUME QueueInv, NEW v \in Workers, Ends(v)
    PROVE  Jobwise!Next
<1>0. PICK j \in Jobs : j = work[v].job
  BY ClaimedTyped DEF Ends
<1> DEFINE a == job[j].attempts + 1
<1>1. /\ j \in Jobs /\ job[j].status = "pending" /\ work[v].phase # "idle"
      /\ Claimed(v) \in JobRows /\ Claimed(v).attempts = a
      /\ job[j].attempts \in Nat /\ MaxAttempts \in Nat
      /\ a <= MaxAttempts
      /\ job \in [Jobs -> JobRows]
  BY <1>0, ClaimedTyped, AttemptsAssumption DEF Ends, QueueInv, TypeOK, JobRows
<1>2. work[v].phase = "claimed" => work[v].own = {}
  BY DEF QueueInv, Held
<1>3. Reported(incidents \cup work[v].own) \in
        {Reported(incidents), Reported(incidents) \cup {<<j, a>>}}
  BY <1>0, <1>1, OwnReported
<1>4. ASSUME NEW s, NEW row, Commit(v, row), row.status = s, row.attempts = a
      PROVE  /\ Jobwise!EndsAs(j, s)
             /\ Jobwise!Reports(j)
             /\ work[v].own = {} => UNCHANGED {<<i.job, i.attempt>> : i \in incidents}
  <2>1. job' = [job EXCEPT ![j] = row] /\ incidents' = incidents \cup work[v].own
    BY <1>0, <1>4 DEF Commit
  <2>2. Jobwise!EndsAs(j, s)
    BY <1>1, <1>4, <2>1, JobMapped DEF Jobwise!EndsAs
  <2>3. Jobwise!Reports(j)
    BY <1>1, <1>3, <2>1 DEF Jobwise!Reports, Reported
  <2>4. work[v].own = {} => incidents' = incidents
    BY <2>1
  <2> QED BY <2>2, <2>3, <2>4
<1>5. \A s \in Final : /\ [Claimed(v) EXCEPT !.status = s].status = s
                       /\ [Claimed(v) EXCEPT !.status = s].attempts = a
  BY <1>1 DEF JobRows
<1>6. CASE /\ Commit(v, [Claimed(v) EXCEPT !.status = "cancelled"])
           /\ work[v].phase = "claimed"
  <2>1. Jobwise!Cancel(j)
    BY <1>2, <1>4, <1>5, <1>6 DEF Jobwise!Cancel, Final
  <2> QED BY <1>1, <2>1 DEF Jobwise!Next
<1>7. CASE Commit(v, [Claimed(v) EXCEPT !.status = "completed"])
  <2>1. Jobwise!Complete(j)
    BY <1>4, <1>5, <1>7 DEF Jobwise!Complete, Final
  <2> QED BY <1>1, <2>1 DEF Jobwise!Next
<1>8. Jobwise!Last(j) <=> a = MaxAttempts
  BY <1>1 DEF Jobwise!Last
<1>9. CASE Commit(v, MarkFailed(v)) /\ a >= MaxAttempts
  <2>1. MarkFailed(v) = [Claimed(v) EXCEPT !.status = "failed"]
    BY <1>1, <1>9 DEF MarkFailed
  <2>2. Commit(v, [Claimed(v) EXCEPT !.status = "failed"])
    BY <1>9, <2>1
  <2>3. a = MaxAttempts
    BY <1>1, <1>9
  <2>4. Jobwise!Fail(j)
    BY <1>4, <1>5, <1>8, <2>2, <2>3 DEF Jobwise!Fail, Final
  <2> QED BY <1>1, <2>4 DEF Jobwise!Next
<1>10. CASE Commit(v, MarkFailed(v)) /\ ~(a >= MaxAttempts)
  <2>1. MarkFailed(v) = [Claimed(v) EXCEPT !.status = "pending", !.scheduled = now]
    BY <1>1, <1>10 DEF MarkFailed
  <2>2. MarkFailed(v).status = "pending" /\ MarkFailed(v).attempts = a
    BY <1>1, <2>1 DEF JobRows
  <2>3. Jobwise!Retry(j)
    BY <1>1, <1>4, <1>8, <1>10, <2>2 DEF Jobwise!Retry
  <2> QED BY <1>1, <2>3 DEF Jobwise!Next
<1> QED BY <1>6, <1>7, <1>9, <1>10 DEF Ends

\* Every step of the queue is a step of the life of one job, or of none.
LEMMA JobwiseStep ==
    ASSUME QueueInv, Unused, [Next]_vars
    PROVE  [Jobwise!Next]_(Jobwise!vars)
<1>1. ASSUME job' = job, incidents' = incidents PROVE UNCHANGED Jobwise!vars
  BY <1>1 DEF Jobwise!vars
<1>2. CASE \E c \in Clients, time \in Schedules : Insert(c, time)
  <2>1. PICK c \in Clients, time \in Schedules : Insert(c, time)
    BY <1>2
  <2>2. PICK x \in Fresh :
          job' = [job EXCEPT ![x] =
                    [status |-> "pending", wallet |-> request[c].wallet,
                     attempts |-> 0, scheduled |-> time,
                     created |-> request[c].day]]
    BY <2>1 DEF Insert
  <2>3. x \in Jobs /\ job[x].status = "none" /\ job[x].attempts = 0
    BY <2>2 DEF Unused, Fresh
  <2>4. incidents' = incidents /\ job \in [Jobs -> JobRows]
    BY <2>1 DEF Insert, QueueInv, TypeOK
  <2>5. Jobwise!Accept(x)
    BY <2>2, <2>3, <2>4, JobMapped DEF Jobwise!Accept
  <2> QED BY <2>3, <2>5 DEF Jobwise!Next
<1>3. ASSUME NEW v \in Workers, Ends(v) PROVE Jobwise!Next
  BY <1>3, JobwiseEnd
<1> QED BY <1>1, <1>2, <1>3, Steps, OnlyWriters

\* AutomationQueue implements JobLifecycle, for any number of workers.
THEOREM JobsLive == Spec => JobwiseSpec
<1>1. Init => Unused /\ Jobwise!Init
  BY DEF Init, NoJob, Unused, Jobwise!Init
<1>2. QueueInv /\ Unused /\ [Next]_vars => [Jobwise!Next]_(Jobwise!vars)
  BY JobwiseStep
<1>3. Spec => []Unused
  BY <1>1, UnusedStep, QueueInvariant, PTL DEF Spec
<1> QED
  BY <1>1, <1>2, <1>3, QueueInvariant, PTL DEF Spec, JobwiseSpec, Jobwise!Spec

----------------------------------------------------------------------------
(***************************************************************************)
(* The endpoints that write policies.                                      *)
(***************************************************************************)
\* p has what it asked for in column c, or was overtaken there.
Granted(p, c) ==
    \/ stored[c] = update[p].asked[c]
    \/ c \in update[p].overtaken

\* What a request may rely on at its phase: a column it found as it was asked
\* to be, and once it has committed every column, is granted still; whoever
\* has written the row has locked it, and the row it will write is there.
Relied(p) ==
    /\ update[p].phase \in {"loaded", "written"} =>
          /\ \A c \in DOMAIN update[p].asked \ Changed(p) : Granted(p, c)
          /\ exists \/ update[p].locks
    /\ update[p].phase = "written" =>
          update[p].wrote = Changed(p) /\ (Changed(p) # {} => update[p].locks)
    /\ update[p].phase \in {"committed", "answered"} =>
          \A c \in DOMAIN update[p].asked : Granted(p, c)
    /\ update[p].phase = "creating" => update[p].copy = DefaultRow
    /\ update[p].locks => update[p].phase \in {"loaded", "written"}

UpdatePhases == {"new", "creating", "loaded", "written", "committed", "answered",
                 "failed"}

UpdateRecords ==
    [phase : UpdatePhases, asked : Bodies, copy : PolicyRows,
     wrote : SUBSET Columns, locks : BOOLEAN, overtaken : SUBSET Columns]

PolicyTypeOK ==
    /\ exists \in BOOLEAN
    /\ stored \in PolicyRows
    /\ update \in [Updates -> UpdateRecords]

\* One request at a time has written the row.
OneWriter == \A q \in Updates : update[q].locks => Free(q)

PolicyInv ==
    /\ PolicyTypeOK
    /\ OneWriter
    /\ Acknowledged
    /\ ~exists => stored = DefaultRow
    /\ \A p \in Updates : Relied(p)

\* A body asks for values of columns.
LEMMA BodyValues ==
    ASSUME NEW body \in Bodies
    PROVE  /\ DOMAIN body \subseteq Columns
           /\ \A c \in DOMAIN body : body[c] \in Values
BY DEF Bodies

\* Whoever steps alone and leaves the row as it is.
LEMMA OwnUpdate ==
    ASSUME PolicyInv, NEW q \in Updates, NEW new \in UpdateRecords,
           update' = [update EXCEPT ![q] = new],
           UNCHANGED <<exists, stored>>,
           new.locks => Free(q),
           Relied(q)',
           new.phase = "answered" =>
             \A c \in DOMAIN new.asked :
                new.copy[c] = new.asked[c] \/ c \in new.overtaken
    PROVE  PolicyInv'
<1>1. /\ update \in [Updates -> UpdateRecords] /\ update'[q] = new
      /\ \A p \in Updates : p # q => update'[p] = update[p]
      /\ update' \in [Updates -> UpdateRecords]
  BY DEF PolicyInv, PolicyTypeOK
<1>2. PolicyTypeOK' /\ OneWriter'
  <2>1. ASSUME NEW p \in Updates, update'[p].locks, NEW r \in Updates \ {p}
        PROVE  ~update'[r].locks
    BY <1>1, <2>1 DEF PolicyInv, PolicyTypeOK, OneWriter, Free
  <2> QED BY <1>1, <2>1 DEF PolicyInv, PolicyTypeOK, OneWriter, UpdateRecords, Free
<1>3. Acknowledged'
  BY <1>1 DEF PolicyInv, Acknowledged
<1>4. ASSUME NEW p \in Updates PROVE Relied(p)'
  <2>1. CASE p = q
    BY <2>1
  <2>2. CASE p # q
    <3>1. Relied(p) /\ update'[p] = update[p]
      BY <1>1, <2>2 DEF PolicyInv
    <3>2. Changed(p)' = Changed(p)
      BY <3>1 DEF Changed, Assigned
    <3>3. \A c : Granted(p, c)' <=> Granted(p, c)
      BY <3>1 DEF Granted
    <3>4. (exists \/ update[p].locks)' <=> (exists \/ update[p].locks)
      BY <3>1, Zenon
    <3> QED BY <3>1, <3>2, <3>3, <3>4, Zenon DEF Relied
  <2> QED BY <2>1, <2>2
<1> QED BY <1>2, <1>3, <1>4 DEF PolicyInv

\* A commit: what it takes from others, they have been overtaken in.
LEMMA UpdateCommits ==
    ASSUME PolicyInv, NEW q \in Updates, CommitPolicy(q)
    PROVE  PolicyInv'
<1> DEFINE moved(p) == IF p = q
                       THEN [update[q] EXCEPT !.phase = "committed", !.locks = FALSE]
                       ELSE [update[p] EXCEPT !.overtaken = @ \cup Overtakes(q, p)]
<1>0. update \in [Updates -> UpdateRecords] /\ stored \in PolicyRows
  BY DEF PolicyInv, PolicyTypeOK
<1>1. /\ exists' = TRUE
      /\ stored' = [c \in Columns |-> IF c \in update[q].wrote
                                      THEN Assigned(q)[c] ELSE stored[c]]
      /\ update' = [p \in Updates |-> moved(p)]
      /\ update[q].phase = "written" /\ update[q].wrote = Changed(q)
      /\ Changed(q) # {} => update[q].locks
  BY DEF CommitPolicy, PolicyInv, Relied
<1>2. Assigned(q) \in PolicyRows
  BY <1>0, BodyValues DEF Assigned, PolicyRows, UpdateRecords
<1>3. stored' \in PolicyRows
  BY <1>0, <1>1, <1>2 DEF PolicyRows
<1>4. ASSUME NEW p \in Updates, p # q
      PROVE  /\ update'[p] = [update[p] EXCEPT !.overtaken = @ \cup Overtakes(q, p)]
             /\ update'[p] \in UpdateRecords
             /\ update'[p].phase = update[p].phase
             /\ update'[p].asked = update[p].asked
             /\ update'[p].copy = update[p].copy
             /\ update'[p].wrote = update[p].wrote
             /\ update'[p].locks = update[p].locks
             /\ update'[p].overtaken = update[p].overtaken \cup Overtakes(q, p)
  <2>1. Overtakes(q, p) \subseteq Columns
    BY <1>0 DEF Overtakes, UpdateRecords
  <2>2. update'[p] = [update[p] EXCEPT !.overtaken = @ \cup Overtakes(q, p)]
    BY <1>1, <1>4
  <2> QED BY <1>0, <2>1, <2>2 DEF UpdateRecords
<1>5. /\ update'[q] = [update[q] EXCEPT !.phase = "committed", !.locks = FALSE]
      /\ update'[q] \in UpdateRecords
      /\ update'[q].phase = "committed" /\ update'[q].locks = FALSE
      /\ update'[q].asked = update[q].asked
      /\ update'[q].overtaken = update[q].overtaken
  <2>1. update'[q] = [update[q] EXCEPT !.phase = "committed", !.locks = FALSE]
    BY <1>1
  <2> QED BY <1>0, <2>1, ZenonT(60) DEF UpdateRecords, UpdatePhases
<1>6. update' \in [Updates -> UpdateRecords]
  BY <1>1, <1>4, <1>5
<1>7. PolicyTypeOK' /\ OneWriter'
  <2>1. ASSUME NEW p \in Updates, update'[p].locks, NEW r \in Updates \ {p}
        PROVE  ~update'[r].locks
    <3>1. p # q /\ update[p].locks
      BY <1>4, <1>5, <2>1
    <3>2. ~update[r].locks
      BY <3>1 DEF PolicyInv, PolicyTypeOK, OneWriter, Free
    <3> QED BY <1>4, <1>5, <3>2
  <2> QED BY <1>1, <1>3, <1>6, <2>1 DEF PolicyTypeOK, OneWriter, UpdateRecords, Free
<1>8. Acknowledged'
  <2>1. ASSUME NEW p \in Updates, update'[p].phase = "answered",
               NEW c \in DOMAIN update'[p].asked
        PROVE  update'[p].copy[c] = update'[p].asked[c] \/ c \in update'[p].overtaken
    <3>1. p # q
      BY <1>5, <2>1
    <3>2. update[p].phase = "answered" /\ c \in DOMAIN update[p].asked
      BY <1>4, <2>1, <3>1
    <3>3. update[p].copy[c] = update[p].asked[c] \/ c \in update[p].overtaken
      BY <3>2 DEF PolicyInv, Acknowledged
    <3> QED BY <1>4, <3>1, <3>3
  <2> QED BY <2>1 DEF Acknowledged
<1>9. ASSUME NEW p \in Updates PROVE Relied(p)'
  <2>1. CASE p = q
    <3>1. ASSUME NEW c \in DOMAIN update[q].asked PROVE Granted(q, c)'
      <4>1. c \in Columns
        BY <1>0, BodyValues DEF UpdateRecords
      <4>2. CASE c \in Changed(q)
        BY <1>1, <1>5, <4>1, <4>2 DEF Granted, Assigned
      <4>3. CASE c \notin Changed(q)
        <5>1. Granted(q, c) /\ stored'[c] = stored[c]
          BY <1>1, <4>1, <4>3 DEF PolicyInv, Relied
        <5> QED BY <1>5, <5>1 DEF Granted
      <4> QED BY <4>2, <4>3
    <3> QED BY <1>5, <2>1, <3>1 DEF Relied
  <2>2. CASE p # q
    <3>1. /\ Changed(p)' = Changed(p) /\ DOMAIN update[p].asked \subseteq Columns
      BY <1>0, <1>4, <2>2, BodyValues DEF Changed, Assigned, UpdateRecords
    <3>2. ASSUME NEW c \in Exposed(p), c \in Columns,
                 c \in DOMAIN update[p].asked, Granted(p, c)
          PROVE  Granted(p, c)'
      <4>1. CASE c \notin update[q].wrote
        <5>1. stored'[c] = stored[c]
          BY <1>1, <3>2, <4>1
        <5> QED BY <1>4, <2>2, <3>2, <5>1 DEF Granted
      <4>2. CASE c \in update[q].wrote
        <5>1. c \in DOMAIN update[q].asked /\ stored'[c] = update[q].asked[c]
          BY <1>1, <3>2, <4>2 DEF Changed, Assigned
        <5>2. CASE update[q].asked[c] = update[p].asked[c]
          BY <1>4, <2>2, <5>1, <5>2 DEF Granted
        <5>3. CASE update[q].asked[c] # update[p].asked[c]
          <6>1. c \in Overtakes(q, p)
            BY <3>2, <4>2, <5>1, <5>3 DEF Overtakes
          <6> QED BY <1>4, <2>2, <6>1 DEF Granted
        <5> QED BY <5>2, <5>3
      <4> QED BY <4>1, <4>2
    <3>3. Relied(p)
      BY DEF PolicyInv
    <3>4. /\ update[p].phase \in {"committed", "answered"} => Exposed(p) = DOMAIN update[p].asked
          /\ update[p].phase \in {"loaded", "written"} =>
                Exposed(p) = DOMAIN update[p].asked \ Changed(p)
      BY DEF Exposed
    <3>5. update'[p].phase \in {"loaded", "written"} =>
             \A c \in DOMAIN update'[p].asked \ Changed(p)' : Granted(p, c)'
      BY <1>4, <2>2, <3>1, <3>2, <3>3, <3>4 DEF Relied
    <3>6. update'[p].phase \in {"committed", "answered"} =>
             \A c \in DOMAIN update'[p].asked : Granted(p, c)'
      BY <1>4, <2>2, <3>1, <3>2, <3>3, <3>4 DEF Relied
    <3> QED BY <1>1, <1>4, <2>2, <3>1, <3>3, <3>5, <3>6 DEF Relied
  <2> QED BY <2>1, <2>2
<1> QED BY <1>1, <1>7, <1>8, <1>9 DEF PolicyInv

\* Every step keeps the invariant.
LEMMA UpdateStep == PolicyInv /\ [PolicyNext]_policyVars => PolicyInv'
<1> SUFFICES ASSUME PolicyInv, [PolicyNext]_policyVars PROVE PolicyInv'
  OBVIOUS
<1>0. update \in [Updates -> UpdateRecords] /\ stored \in PolicyRows /\ exists \in BOOLEAN
  BY DEF PolicyInv, PolicyTypeOK
<1>1. CASE UNCHANGED policyVars
  BY <1>1 DEF policyVars, PolicyInv, PolicyTypeOK, OneWriter, Free, Acknowledged, Relied,
              Granted, Changed, Assigned
<1>2. ASSUME NEW q \in Updates, NEW body \in Bodies, LoadPolicy(q, body)
      PROVE  PolicyInv'
  <2> DEFINE phase == IF exists THEN "loaded" ELSE "creating"
             new == [update[q] EXCEPT !.phase = phase, !.asked = body, !.copy = stored]
  <2>1. /\ update[q].phase = "new" /\ ~update[q].locks
        /\ update' = [update EXCEPT ![q] = new] /\ UNCHANGED <<exists, stored>>
    BY <1>0, <1>2 DEF LoadPolicy, PolicyInv, Relied, UpdateRecords
  <2>2. /\ new \in UpdateRecords /\ new.phase = phase /\ new.asked = body
        /\ new.copy = stored /\ new.locks = update[q].locks
        /\ new.overtaken = update[q].overtaken
    BY <1>0 DEF UpdateRecords, UpdatePhases
  <2> HIDE DEF new
  <2>3. update'[q] = new
    BY <1>0, <2>1
  <2>4. \A c \in DOMAIN body \ Changed(q)' : stored[c] = body[c]
    <3>1. Changed(q)' = {c \in Columns :
             (IF c \in DOMAIN body THEN body[c] ELSE stored[c]) # stored[c]}
      BY <2>2, <2>3 DEF Changed, Assigned
    <3> QED BY <3>1, BodyValues
  <2>5. Relied(q)'
    BY <1>0, <2>1, <2>2, <2>3, <2>4 DEF Relied, Granted, PolicyInv
  <2> QED BY <2>1, <2>2, <2>5, OwnUpdate
<1>3. ASSUME NEW q \in Updates, CreatePolicy(q) PROVE PolicyInv'
  <2> DEFINE phase == IF exists THEN "failed" ELSE "loaded"
             new == [update[q] EXCEPT !.phase = phase, !.locks = ~exists]
  <2>1. /\ update[q].phase = "creating" /\ Free(q) /\ update[q].copy = DefaultRow
        /\ update' = [update EXCEPT ![q] = new] /\ UNCHANGED <<exists, stored>>
    BY <1>0, <1>3 DEF CreatePolicy, PolicyInv, Relied
  <2>2. /\ new \in UpdateRecords /\ new.phase = phase /\ new.asked = update[q].asked
        /\ new.copy = update[q].copy /\ new.locks = ~exists
        /\ new.overtaken = update[q].overtaken
    BY <1>0 DEF UpdateRecords, UpdatePhases
  <2> HIDE DEF new
  <2>3. update'[q] = new
    BY <1>0, <2>1
  <2>4. ~exists => \A c \in DOMAIN new.asked \ Changed(q)' : stored[c] = new.asked[c]
    <3>1. DOMAIN new.asked \subseteq Columns
      BY <2>2, BodyValues DEF UpdateRecords
    <3>2. \A c \in DOMAIN new.asked \ Changed(q)' : new.asked[c] = new.copy[c]
      BY <2>3, <3>1 DEF Changed, Assigned
    <3> QED BY <2>1, <2>2, <3>2 DEF PolicyInv
  <2>5. Relied(q)'
    BY <2>1, <2>2, <2>3, <2>4 DEF Relied, Granted
  <2> QED BY <2>1, <2>2, <2>5, OwnUpdate
<1>4. ASSUME NEW q \in Updates, WriteColumns(q) PROVE PolicyInv'
  <2> DEFINE new == [update[q] EXCEPT !.phase = "written", !.wrote = Changed(q),
                                      !.locks = @ \/ Changed(q) # {}]
  <2>1. /\ update[q].phase = "loaded" /\ (Changed(q) # {} => Free(q))
        /\ update' = [update EXCEPT ![q] = new] /\ UNCHANGED <<exists, stored>>
    BY <1>0, <1>4 DEF WriteColumns
  <2>2. /\ new \in UpdateRecords /\ new.phase = "written" /\ new.asked = update[q].asked
        /\ new.copy = update[q].copy /\ new.wrote = Changed(q)
        /\ new.locks = (update[q].locks \/ Changed(q) # {})
        /\ new.overtaken = update[q].overtaken
    BY <1>0, ZenonT(60) DEF UpdateRecords, UpdatePhases, Changed
  <2> HIDE DEF new
  <2>3. update'[q] = new
    BY <1>0, <2>1
  <2>4. Changed(q)' = Changed(q)
    BY <2>2, <2>3 DEF Changed, Assigned
  <2>5. Relied(q) /\ (new.locks => Free(q))
    BY <2>1, <2>2 DEF PolicyInv, PolicyTypeOK, OneWriter
  <2>6. Relied(q)'
    BY <2>1, <2>2, <2>3, <2>4, <2>5, ZenonT(60) DEF Relied, Granted
  <2> QED BY <2>1, <2>2, <2>5, <2>6, OwnUpdate
<1>5. ASSUME NEW q \in Updates, RefreshPolicy(q) PROVE PolicyInv'
  <2> DEFINE new == [update[q] EXCEPT !.phase = "answered", !.copy = stored]
  <2>1. /\ update[q].phase = "committed"
        /\ update' = [update EXCEPT ![q] = new] /\ UNCHANGED <<exists, stored>>
    BY <1>0, <1>5 DEF RefreshPolicy
  <2>2. /\ new \in UpdateRecords /\ new.phase = "answered" /\ new.asked = update[q].asked
        /\ new.copy = stored /\ new.locks = update[q].locks
        /\ new.overtaken = update[q].overtaken
    BY <1>0 DEF UpdateRecords, UpdatePhases
  <2> HIDE DEF new
  <2>3. update'[q] = new
    BY <1>0, <2>1
  <2>4. /\ ~update[q].locks
        /\ \A c \in DOMAIN update[q].asked : Granted(q, c)
    BY <2>1 DEF PolicyInv, Relied
  <2>5. Relied(q)'
    BY <2>1, <2>2, <2>3, <2>4 DEF Relied, Granted
  <2> QED BY <2>1, <2>2, <2>4, <2>5, OwnUpdate DEF Granted
<1>6. ASSUME NEW q \in Updates, FailUpdate(q) PROVE PolicyInv'
  <2> DEFINE new == [update[q] EXCEPT !.phase = "failed", !.locks = FALSE]
  <2>1. update' = [update EXCEPT ![q] = new] /\ UNCHANGED <<exists, stored>>
    BY <1>0, <1>6 DEF FailUpdate
  <2>2. new \in UpdateRecords /\ new.phase = "failed" /\ new.locks = FALSE
    BY <1>0 DEF UpdateRecords, UpdatePhases
  <2> HIDE DEF new
  <2>3. update'[q] = new
    BY <1>0, <2>1
  <2>4. Relied(q)'
    BY <2>2, <2>3 DEF Relied
  <2> QED BY <2>1, <2>2, <2>4, OwnUpdate
<1> QED BY <1>1, <1>2, <1>3, <1>4, <1>5, <1>6, UpdateCommits DEF PolicyNext

\* No request has come.
LEMMA UpdateStart == PolicyInit => PolicyInv
<1> SUFFICES ASSUME PolicyInit PROVE PolicyInv
  OBVIOUS
<1>1. NoUpdate.asked \in Bodies /\ DefaultRow \in PolicyRows
  <2>1. <<>> \in [{} -> Values]
    OBVIOUS
  <2> QED BY <2>1, RowAssumption DEF NoUpdate, Bodies, PolicyRows
<1>2. PolicyTypeOK /\ OneWriter
  BY <1>1 DEF PolicyInit, PolicyTypeOK, UpdateRecords, OneWriter, NoUpdate,
                 UpdatePhases, Free
<1>3. Acknowledged /\ \A p \in Updates : Relied(p)
  BY DEF PolicyInit, NoUpdate, Acknowledged, Relied
<1> QED BY <1>2, <1>3 DEF PolicyInv, PolicyInit

\* The invariant of the policy endpoints, for any number of requests.
THEOREM PolicyInvariant == PolicySpec => []PolicyInv
BY UpdateStart, UpdateStep, PTL DEF PolicySpec

\* A request gets what it asked for, unless another one overtook it.
THEOREM Acknowledging == PolicySpec => []Acknowledged
<1>1. PolicyInv => Acknowledged
  BY DEF PolicyInv
<1> QED BY <1>1, PolicyInvariant, PTL

\* What a request has committed stays stored, unless another one overtakes it.
THEOREM SettingsStay == PolicySpec => []StaysSet
<1>1. PolicyInv => StaysSet
  BY DEF PolicyInv, Relied, Granted, StaysSet
<1> QED BY <1>1, PolicyInvariant, PTL

\* The row changes only as the committing request asked.
THEOREM ColumnsAsked == PolicySpec => OnlyAsked
<1> DEFINE Asked == \A c \in Columns :
              stored'[c] # stored[c] =>
                  \E q \in Updates :
                      /\ update[q].phase = "written" /\ update'[q].phase = "committed"
                      /\ c \in DOMAIN update[q].asked
                      /\ update[q].asked[c] = stored'[c]
<1>1. PolicyInv /\ [PolicyNext]_policyVars => [Asked]_policyVars
  <2> SUFFICES ASSUME PolicyInv, PolicyNext, NEW c \in Columns, stored'[c] # stored[c]
               PROVE  \E q \in Updates :
                      /\ update[q].phase = "written" /\ update'[q].phase = "committed"
                      /\ c \in DOMAIN update[q].asked
                      /\ update[q].asked[c] = stored'[c]
    BY DEF Asked
  <2>1. PICK q \in Updates : CommitPolicy(q)
    BY DEF PolicyNext, LoadPolicy, CreatePolicy, WriteColumns, RefreshPolicy, FailUpdate
  <2>2. update[q].phase = "written" /\ update[q].wrote = Changed(q)
    BY <2>1 DEF CommitPolicy, PolicyInv, Relied
  <2>3. update'[q].phase = "committed"
    BY <2>1 DEF CommitPolicy, PolicyInv, PolicyTypeOK, UpdateRecords
  <2>4. c \in Changed(q) /\ stored'[c] = Assigned(q)[c]
    BY <2>1, <2>2 DEF CommitPolicy
  <2>5. c \in DOMAIN update[q].asked /\ update[q].asked[c] = stored'[c]
    BY <2>4 DEF Changed, Assigned
  <2> QED BY <2>2, <2>3, <2>5
<1> QED BY <1>1, PolicyInvariant, PTL DEF PolicySpec, OnlyAsked
=============================================================================
