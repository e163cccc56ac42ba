------------------------------ MODULE Ingestion ------------------------------
(***************************************************************************)
(* Ingestion: the jobs that copy the chain into the database               *)
(* (backend/app/ingestion).  The chain head sync seeds the subnets, the    *)
(* catalog sync upserts the validators, the portfolio sync the stakes and  *)
(* rewards of a wallet, and the recompute scores validators and wallets.   *)
(* Each is an endpoint; run_mvp_sync.py does all four in one session.      *)
(*                                                                         *)
(* db is what is committed.  txn[r].writes is what the transaction of      *)
(* request r has flushed: others wait for it and do not see it.  Objects   *)
(* that a job adds or changes are flushed by the next SELECT of the        *)
(* session (autoflush), so every row is one SELECT (Visit) and, when it is *)
(* new or has changed, one INSERT or UPDATE (Flush).                       *)
(*                                                                         *)
(* A head is its block number; its hash is taken to be unique to it.  What *)
(* a row holds is abstracted to the head it was written at and, for a      *)
(* stake, the place in the selection that its amount depends on.           *)
(***************************************************************************)
EXTENDS Naturals, Sequences, FiniteSets, SequencesExt, Scoring

CONSTANTS
    Requests,     \* requests and scripts; each is served once
    Plans,        \* what the requests may be: functions from Requests to AllPlans
    Heads,        \* block numbers the node may answer with
    SubnetLimit,  \* bittensor_ingestion_subnet_limit
    PerSubnet,    \* validators_per_subnet
    Picked,       \* how many validators a portfolio is spread over
    Wallets,
    None

Jobs == {"head", "catalog", "portfolio", "recompute"}

\* One endpoint for each job, run_mvp_sync.py, and a request nobody makes.
AllPlans == {<<>>, <<"head", "catalog", "portfolio", "recompute">>}
            \cup {<<j>> : j \in Jobs}

ASSUME PlanAssumption == Plans \subseteq [Requests -> AllPlans]
ASSUME NumberAssumption ==
    /\ Heads \subseteq Nat
    /\ SubnetLimit \in Nat
    /\ PerSubnet \in Nat
    /\ Picked \in Nat
ASSUME FiniteAssumption == IsFiniteSet(Wallets)
ASSUME NoneAssumption == None \notin Nat \cup (Nat \X Nat) \cup Wallets

VARIABLES
    db,       \* db[x]: the committed row x, or None
    rewards,  \* rewards[w]: how often the reward history of w was appended
    txn,      \* txn[r]: the handler of r and its open transaction
    answers,  \* history: <<request, job, head, "fresh" or "reused">>
    excused   \* history: the last catalog sync was overtaken by another

vars == <<db, rewards, txn, answers, excused>>

----------------------------------------------------------------------------
Subnets == 0..(SubnetLimit - 1)
Validators == Subnets \X (0..(PerSubnet - 1))

RunOf(j, h) == <<"run", j, h>>
SubnetRow(n) == <<"subnet", n>>
ValidatorRow(v) == <<"validator", v>>
StakeRow(w, v) == <<"stake", w, v>>
RollupRow(v) == <<"rollup", v>>
RiskRow(w) == <<"risk", w>>

Rows == {RunOf(j, h) : j \in {"head", "recompute"}, h \in Heads}
        \cup {SubnetRow(n) : n \in Subnets}
        \cup {ValidatorRow(v) : v \in Validators}
        \cup {StakeRow(w, v) : w \in Wallets, v \in Validators}
        \cup {RollupRow(v) : v \in Validators}
        \cup {RiskRow(w) : w \in Wallets}

Kind(x) == x[1]

\* What is to be stored in a row: a seeded subnet has no head.
Write(x, h, place) == [row |-> x, value |-> <<h, place>>]

Untouched == [x \in Rows |-> None]

Begun(plan) ==
    [plan |-> plan, head |-> None, at |-> IF plan = <<>> THEN "done" ELSE "fetch",
     then |-> "commit", todo |-> <<>>, dirty |-> None, writes |-> Untouched,
     wallet |-> None, skipped |-> FALSE, overtaken |-> FALSE]

Init ==
    /\ db = Untouched
    /\ rewards = [w \in Wallets |-> 0]
    /\ \E plans \in Plans : txn = [r \in Requests |-> Begun(plans[r])]
    /\ answers = {}
    /\ excused = FALSE

----------------------------------------------------------------------------
Job(r) == Head(txn[r].plan)

\* What r sees: its own writes, then what is committed (READ COMMITTED).
Known(r, x) == IF txn[r].writes[x] # None THEN txn[r].writes[x] ELSE db[x]

Exists(r, x) == Known(r, x) # None

First(job) == IF job \in {"head", "recompute"} THEN "lookup" ELSE "list"

After(todo, then) == IF todo = <<>> THEN then ELSE "rows"

Ended == {"done", "error", "dead"}

RolledBack(t) == [t EXCEPT !.writes = Untouched, !.dirty = None, !.todo = <<>>]

\* An exception that nothing catches closes the session.
Raise(r) == txn' = [txn EXCEPT ![r] = [RolledBack(@) EXCEPT !.at = "error"]]

\* Mutated form of NextJob: the script goes on without a head.
NextJobHeadless(t) ==
    LET rest == Tail(t.plan)
        t1 == [RolledBack(t) EXCEPT !.plan = rest, !.head = None]
    IN  IF rest = <<>>
        THEN [t1 EXCEPT !.at = "done"]
        ELSE [t1 EXCEPT !.at = First(Head(rest))]

\* The next job of a script; it asks for the head once more after the first.
NextJob(t) ==
    LET rest == Tail(t.plan)
        t1 == [RolledBack(t) EXCEPT !.plan = rest, !.wallet = None,
                                    !.skipped = FALSE, !.overtaken = FALSE]
    IN  IF rest = <<>>
        THEN [t1 EXCEPT !.at = "done"]
        ELSE IF Head(t.plan) = "head"
             THEN [t1 EXCEPT !.at = "fetch", !.head = None]
             ELSE [t1 EXCEPT !.at = First(Head(rest))]

Reuse(r) ==
    /\ txn' = [txn EXCEPT ![r] = NextJob(@)]
    /\ answers' = answers \cup {<<r, Job(r), txn[r].head, "reused">>}

----------------------------------------------------------------------------
\* fetch_chain_head: any head, or a SubtensorRpcError after the last retry.
Fetch(r) ==
    /\ txn[r].at = "fetch"
    /\ \/ \E h \in Heads :
            txn' = [txn EXCEPT ![r].head = h, ![r].at = First(Job(r))]
       \/ Raise(r)
    /\ UNCHANGED <<db, rewards, answers, excused>>

\* The SELECT by idempotency key.
Lookup(r) ==
    LET h == txn[r].head
        run == RunOf(Job(r), h)
        seeds == [k \in 1..SubnetLimit |-> Write(SubnetRow(k - 1), 0, 0)]
    IN  /\ txn[r].at = "lookup"
        /\ \/ Exists(r, run) /\ Reuse(r)
           \/ /\ ~Exists(r, run)
              /\ Job(r) = "head"
              /\ txn' = [txn EXCEPT ![r].at = "rows", ![r].then = "commit",
                                    ![r].todo = <<Write(run, h, 0)>> \o seeds]
              /\ UNCHANGED answers
           \/ /\ ~Exists(r, run)
              /\ Job(r) = "recompute"
              /\ txn' = [txn EXCEPT ![r].at = "list"]
              /\ UNCHANGED answers
        /\ UNCHANGED <<db, rewards, excused>>

----------------------------------------------------------------------------
(***************************************************************************)
(* The SELECT that decides what a job writes.  Only the catalog sync goes  *)
(* through its rows in one fixed order.                                    *)
(***************************************************************************)
Ascending(s) ==
    \A i, j \in DOMAIN s : i < j =>
        \/ s[i][1] < s[j][1]
        \/ s[i][1] = s[j][1] /\ s[i][2] < s[j][2]

BySubnet(s) == \A i, j \in DOMAIN s : i < j => s[i][1] <= s[j][1]

Active(r) == {v \in Validators : Exists(r, ValidatorRow(v))}

Listed(r) == {v \in Validators : Exists(r, SubnetRow(v[1]))}

\* Mutated form of ListCatalog: the ORDER BY is missing.
ListCatalogUnordered(r) ==
    \E s \in SetToSeqs(Listed(r)) :
        LET todo == [k \in DOMAIN s |-> Write(ValidatorRow(s[k]), txn[r].head, 0)]
        IN  txn' = [txn EXCEPT ![r].todo = todo, ![r].then = "commit",
                               ![r].at = After(todo, "commit")]

ListCatalog(r) ==
    \E s \in SetToSeqs(Listed(r)) :
        LET todo == [k \in DOMAIN s |-> Write(ValidatorRow(s[k]), txn[r].head, 0)]
        IN  /\ Ascending(s)
            /\ txn' = [txn EXCEPT ![r].todo = todo, ![r].then = "commit",
                                  ![r].at = After(todo, "commit")]

\* Validators of one subnet come in any order, and so which are picked may vary.
ListPortfolio(r) ==
    \E w \in Wallets, s \in SetToSeqs(Active(r)) :
        LET picked == SubSeq(s, 1, IF Picked < Len(s) THEN Picked ELSE Len(s))
            todo == [k \in DOMAIN picked |->
                       Write(StakeRow(w, picked[k]), txn[r].head, k)]
        IN  /\ BySubnet(s)
            /\ txn' = [txn EXCEPT ![r].todo = todo, ![r].then = "commit",
                                  ![r].at = After(todo, "commit"),
                                  ![r].wallet = IF todo = <<>> THEN None ELSE w]

ListScores(r) ==
    \E s \in SetToSeqs(Active(r)) :
        LET todo == [k \in DOMAIN s |-> Write(RollupRow(s[k]), txn[r].head, 0)]
        IN  txn' = [txn EXCEPT ![r].todo = todo, ![r].then = "wallets",
                               ![r].at = After(todo, "wallets")]

List(r) ==
    /\ txn[r].at = "list"
    /\ \/ Job(r) = "catalog" /\ ListCatalog(r)
       \/ Job(r) = "portfolio" /\ ListPortfolio(r)
       \/ Job(r) = "recompute" /\ ListScores(r)
    /\ UNCHANGED <<db, rewards, answers, excused>>

\* The second half of a recompute: the risk of every wallet with a stake, in
\* any order, and the row of the run.
ListWallets(r) ==
    /\ txn[r].at = "wallets"
    /\ \E s \in SetToSeqs({w \in Wallets : \E v \in Validators : Exists(r, StakeRow(w, v))}) :
         LET h == txn[r].head
             risks == [k \in DOMAIN s |-> Write(RiskRow(s[k]), h, 0)]
         IN  txn' = [txn EXCEPT ![r].at = "rows", ![r].then = "commit",
                                ![r].todo = Append(risks, Write(RunOf("recompute", h), h, 0))]
    /\ UNCHANGED <<db, rewards, answers, excused>>

----------------------------------------------------------------------------
(***************************************************************************)
(* One row of a job.                                                       *)
(***************************************************************************)
\* computed_at differs in every recompute; other rows may be as they should be.
Stamped(x) == Kind(x) \in {"rollup", "risk"}

\* The SELECT of the row; a run is added without one.
Visit(r) ==
    LET t == txn[r]
        x == Head(t.todo).row
        value == Head(t.todo).value
        fresh == Kind(x) = "run" \/ ~Exists(r, x)
        same == ~fresh /\ Known(r, x) = value /\ ~Stamped(x)
    IN  /\ t.at = "rows"
        /\ txn' = [txn EXCEPT ![r] =
                     IF same
                     THEN [t EXCEPT !.todo = Tail(@),
                                    !.at = After(Tail(t.todo), t.then),
                                    !.skipped = @ \/ Kind(x) = "validator"]
                     ELSE [t EXCEPT !.todo = Tail(@), !.at = "flush",
                                    !.dirty = [row |-> x, value |-> value,
                                               fresh |-> fresh]]]
        /\ UNCHANGED <<db, rewards, answers, excused>>

WaitsFor(r, s) ==
    /\ txn[r].at = "flush"
    /\ s # r
    /\ txn[s].writes[txn[r].dirty.row] # None

\* rank_global and rank_subnet, which must not be NULL, are assigned after
\* the flush: a rollup cannot be inserted.
Unranked(d) == d.fresh /\ Kind(d.row) = "rollup"

Duplicate(d) == d.fresh /\ db[d.row] # None

\* Mutated forms of Flush: the constraints of the table are missing; each row
\* is committed; the sync that lost the race inserts its run again.
FlushUnconstrained(r) ==
    LET t == txn[r]
        d == t.dirty
    IN  /\ t.at = "flush"
        /\ txn' = [txn EXCEPT ![r] =
                     [t EXCEPT !.writes[d.row] = d.value, !.dirty = None,
                               !.at = After(t.todo, t.then)]]
        /\ UNCHANGED <<db, rewards, answers, excused>>

FlushCommitting(r) ==
    LET t == txn[r]
        d == t.dirty
    IN  /\ t.at = "flush"
        /\ db' = [db EXCEPT ![d.row] = d.value]
        /\ txn' = [txn EXCEPT ![r] = [t EXCEPT !.dirty = None,
                                              !.at = After(t.todo, t.then)]]
        /\ UNCHANGED <<rewards, answers, excused>>

FlushRetrying(r) ==
    LET t == txn[r]
        d == t.dirty
    IN  /\ t.at = "flush"
        /\ \A s \in Requests : ~WaitsFor(r, s)
        /\ \/ /\ Unranked(d) \/ (Duplicate(d) /\ d.row # RunOf("head", t.head))
              /\ Raise(r)
           \/ /\ ~Unranked(d) /\ ~Duplicate(d)
              /\ txn' = [txn EXCEPT ![r] =
                           [t EXCEPT !.writes[d.row] = d.value, !.dirty = None,
                                     !.at = After(t.todo, t.then)]]
        /\ UNCHANGED <<db, rewards, answers, excused>>

\* The INSERT or UPDATE, which waits for whoever has written the row.  The
\* sync of a head that lost the race for the row of its run reads it again.
Flush(r) ==
    LET t == txn[r]
        d == t.dirty
    IN  /\ t.at = "flush"
        /\ \A s \in Requests : ~WaitsFor(r, s)
        /\ \/ /\ Unranked(d) \/ (Duplicate(d) /\ d.row # RunOf("head", t.head))
              /\ Raise(r)
           \/ /\ Duplicate(d) /\ d.row = RunOf("head", t.head)
              /\ txn' = [txn EXCEPT ![r] = [RolledBack(t) EXCEPT !.at = "reread"]]
           \/ /\ ~Unranked(d) /\ ~Duplicate(d)
              /\ txn' = [txn EXCEPT ![r] =
                           [t EXCEPT !.writes[d.row] = d.value, !.dirty = None,
                                     !.at = After(t.todo, t.then)]]
        /\ UNCHANGED <<db, rewards, answers, excused>>

\* The run that won is committed: it is found.
Reread(r) ==
    /\ txn[r].at = "reread"
    /\ Exists(r, RunOf("head", txn[r].head))
    /\ Reuse(r)
    /\ UNCHANGED <<db, rewards, excused>>

----------------------------------------------------------------------------
\* A catalog sync that commits overtakes those that have left a row as it was.
Overtaken(r) ==
    {s \in Requests \ {r} : Job(r) = "catalog" /\ txn[s].skipped}

Commit(r) ==
    LET t == txn[r]
    IN  /\ t.at = "commit"
        /\ db' = [x \in Rows |-> Known(r, x)]
        /\ rewards' = [w \in Wallets |->
                         IF w = t.wallet THEN rewards[w] + 1 ELSE rewards[w]]
        /\ answers' = answers \cup {<<r, Job(r), t.head, "fresh">>}
        /\ txn' = [s \in Requests |->
                     IF s = r THEN NextJob(t)
                     ELSE [txn[s] EXCEPT !.overtaken = @ \/ s \in Overtaken(r)]]
        /\ excused' = IF Job(r) = "catalog" /\ (t.skipped \/ t.writes # Untouched)
                      THEN t.overtaken
                      ELSE excused

\* The process dies, or the connection of the session does.
Crash(r) ==
    /\ txn[r].at \notin Ended
    /\ txn' = [txn EXCEPT ![r] = [RolledBack(@) EXCEPT !.at = "dead"]]
    /\ UNCHANGED <<db, rewards, answers, excused>>

Deadlocked(r) ==
    /\ txn[r].at = "flush"
    /\ \E D \in SUBSET Requests :
          /\ r \in D
          /\ \A p \in D : /\ \E o \in D : WaitsFor(p, o)
                          /\ \E o \in D : WaitsFor(o, p)

\* PostgreSQL ends a deadlock by failing one of those in it.
Abort(r) ==
    /\ Deadlocked(r)
    /\ Raise(r)
    /\ UNCHANGED <<db, rewards, answers, excused>>

----------------------------------------------------------------------------
(***************************************************************************)
(* The rewards of a wallet as the forecast reads them.  Each portfolio     *)
(* sync appends a made-up history of 30 days for three of its validators   *)
(* at most; all syncs are taken to be of one day.                          *)
(***************************************************************************)
HistoryDays == 30

\* How many rows there are for a day after n syncs.
PerDay(n) == n * Min({3, Picked, Cardinality(Validators)})

\* The amounts in order of captured_at, in units of 10000 rao.
RewardRows(n) ==
    [k \in 1..HistoryDays * PerDay(n) |->
        100 + 5 * ((k - 1) \div PerDay(n)) + ((k - 1) % PerDay(1))]

\* ORDER BY captured_at ASC LIMIT days * 10.
Limited(rows, days) == SubSeq(rows, 1, Min({Len(rows), 10 * days}))

\* The totals of the days that have rows.
Daily(rows, perDay) ==
    [d \in 1..((Len(rows) + perDay - 1) \div perDay) |->
        Total(SubSeq(rows, (d - 1) * perDay + 1, Min({Len(rows), d * perDay})))]

\* The least number of days a client may ask for, and the default.
DaysAsked == {7, 30}

RewardForecast(w, days, horizon) ==
    LET n == rewards[w]
    IN  IF n = 0 THEN Forecast(<<>>, horizon)
        ELSE Forecast(Daily(Limited(RewardRows(n), days), PerDay(n)), horizon)

----------------------------------------------------------------------------
Continue(r) ==
    \/ Fetch(r)
    \/ Lookup(r)
    \/ List(r)
    \/ ListWallets(r)
    \/ Visit(r)
    \/ Flush(r)
    \/ Reread(r)
    \/ Commit(r)
    \/ Abort(r)

Next == \E r \in Requests : Continue(r) \/ Crash(r)

Spec == Init /\ [][Next]_vars

\* A request that has begun goes on as soon as the lock it waits for is free.
FairSpec == Spec /\ \A r \in Requests : WF_vars(Continue(r))
----------------------------------------------------------------------------
(***************************************************************************)
(* Properties.                                                             *)
(***************************************************************************)
Values == Nat \X Nat

Writes == [row : Rows, value : Values]

Dirty == [row : Rows, value : Values, fresh : BOOLEAN]

Handlers ==
    [plan : Seq(Jobs),
     head : Heads \cup {None},
     at : Ended \cup {"fetch", "lookup", "list", "wallets", "rows", "flush",
                      "reread", "commit"},
     then : {"commit", "wallets"},
     todo : Seq(Writes),
     dirty : Dirty \cup {None},
     writes : [Rows -> Values \cup {None}],
     wallet : Wallets \cup {None},
     skipped : BOOLEAN,
     overtaken : BOOLEAN]

\* Every variable has its type, and a job past its fetch has a head.
TypeOK ==
    /\ db \in [Rows -> Values \cup {None}]
    /\ rewards \in [Wallets -> Nat]
    /\ txn \in [Requests -> Handlers]
    /\ \A r \in Requests :
           txn[r].at \notin Ended \cup {"fetch"} =>
               txn[r].head # None /\ txn[r].plan # <<>>
    /\ answers \subseteq Requests \X Jobs \X Heads \X {"fresh", "reused"}
    /\ excused \in BOOLEAN

\* Idempotency by block hash: of all the requests that sync or recompute one
\* head, exactly one reports to have done it when the run is stored, none
\* before, and whoever reports to reuse a run reuses a committed one.
RunOnce ==
    \A j \in {"head", "recompute"}, h \in Heads :
        LET By(how) == {r \in Requests : <<r, j, h, how>> \in answers}
        IN  IF db[RunOf(j, h)] = None
            THEN By("fresh") = {} /\ By("reused") = {}
            ELSE Cardinality(By("fresh")) = 1

\* What a job writes is there together or not at all, whatever fails or dies
\* in between: a run that succeeded with all its subnets, stakes with the
\* rewards they earned, a risk with the run that computed it.
JobsWhole ==
    /\ \A h \in Heads : db[RunOf("head", h)] # None =>
           \A n \in Subnets : db[SubnetRow(n)] # None
    /\ \A w \in Wallets :
           rewards[w] > 0 <=> \E v \in Validators : db[StakeRow(w, v)] # None
    /\ \A w \in Wallets : db[RiskRow(w)] # None =>
           \E h \in Heads : /\ db[RiskRow(w)] = <<h, 0>>
                            /\ db[RunOf("recompute", h)] # None

\* After a catalog sync all validators are at one head, although others write
\* the same rows at the same time.  The one exception: a sync that found a row
\* at its head already has not locked it, and another sync may overtake it.
OneHead ==
    \/ excused
    \/ \A u, v \in Validators :
          db[ValidatorRow(u)] # None /\ db[ValidatorRow(v)] # None =>
              db[ValidatorRow(u)] = db[ValidatorRow(v)]

\* Only jobs that select without an order can wait for each other in a circle:
\* syncs of the chain head and of the catalog lock their rows in one order.
OrderedJobsNeverDeadlock ==
    \A r \in Requests :
        Deadlocked(r) => Job(r) \in {"portfolio", "recompute"}

\* Every request ends, with an answer, an error or its death.
EveryRequestEnds == \A r \in Requests : <>(txn[r].at \in Ended)

\* A recompute stores a rank for the validators it has found: it does not end
\* in an error while they have none (docs/BUILD_TODO.md:104).
RankingsStored ==
    \A r \in Requests :
        txn[r].at = "error" /\ txn[r].head # None /\ Job(r) = "recompute" =>
            \A v \in Validators :
                db[ValidatorRow(v)] # None => db[RollupRow(v)] # None

\* The forecast is made from the trailing daily rewards
\* (docs/phase4/scoring-and-risk.md:38): from the last days that are stored,
\* however many days a client asks for.
ForecastTrailing ==
    \A w \in Wallets, days \in DaysAsked :
        rewards[w] > 0 =>
            RewardForecast(w, days, 7) =
                Forecast(Daily(RewardRows(rewards[w]), PerDay(rewards[w])), 7)
=============================================================================
