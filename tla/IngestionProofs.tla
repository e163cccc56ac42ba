--------------------------- MODULE IngestionProofs ---------------------------
(***************************************************************************)
(* What holds of Ingestion for any requests, heads, subnets, validators    *)
(* and wallets: that a head is synced and recomputed once, that jobs are   *)
(* stored whole, that validators are at one head, and that jobs that go    *)
(* through their rows in one order never wait for each other in a circle.  *)
(*                                                                         *)
(* The inductive invariant is IngestionInv.  Beside these properties it    *)
(* says of every transaction what it has written and what it has yet to    *)
(* write (Whole), that no two have written the same row (Exclusive), and   *)
(* that subnets are seeded all together (SeededTogether).                  *)
(***************************************************************************)
EXTENDS Ingestion, FiniteSetTheorems, SequenceTheorems, WellFoundedInduction,
        TLAPS

\* What can be left of a plan.
Remaining ==
    AllPlans \cup {<<"catalog", "portfolio", "recompute">>,
                   <<"portfolio", "recompute">>}

\* The writes that t has yet to make: the one it waits for and the others.
Pending(t) ==
    ToSet(t.todo)
        \cup (IF t.at = "flush"
              THEN {[row |-> t.dirty.row, value |-> t.dirty.value]}
              ELSE {})

Awaits(t, x) == \E d \in Pending(t) : d.row = x

\* What t sees when store is committed: Known.
Seen(t, store, x) == IF t.writes[x] # None THEN t.writes[x] ELSE store[x]

\* Where t can be while it may have written.
Writing == {"rows", "flush", "wallets", "commit"}

\* Where a request is agrees with the job it does.
Fits(t) ==
    /\ t.plan \in Remaining
    /\ t.at \notin Ended => t.plan # <<>>
    /\ t.at \notin Ended \cup {"fetch"} => t.head \in Heads
    /\ t.at = "lookup" => Head(t.plan) \in {"head", "recompute"}
    /\ t.at = "list" => Head(t.plan) \in {"catalog", "portfolio", "recompute"}
    /\ t.at = "wallets" => Head(t.plan) = "recompute"
    /\ t.at \in {"rows", "flush"} /\ t.then = "wallets" =>
           Head(t.plan) = "recompute"
    /\ t.at = "reread" => Head(t.plan) = "head"
    /\ t.at = "commit" => t.then = "commit"

\* What a request holds agrees with where it is.
Holds(t) ==
    /\ t.at = "rows" => t.todo # <<>>
    /\ t.at \notin {"rows", "flush"} => t.todo = <<>>
    /\ t.at = "flush" => /\ t.dirty \in Dirty
                         /\ Kind(t.dirty.row) = "run" => t.dirty.fresh
    /\ t.at \notin Writing => t.writes = Untouched
    /\ t.at \notin Ended /\ Head(t.plan) # "portfolio" => t.wallet = None
    /\ t.at \notin Ended /\ t.skipped =>
           t.at \in Writing /\ Head(t.plan) = "catalog"
    /\ t.overtaken => t.skipped

\* The rows that the job of t writes.
Own(t, x) ==
    \/ /\ Head(t.plan) = "head"
       /\ x = RunOf("head", t.head) \/ \E n \in Subnets : x = SubnetRow(n)
    \/ /\ Head(t.plan) = "catalog"
       /\ \E v \in Validators : x = ValidatorRow(v)
    \/ /\ Head(t.plan) = "portfolio"
       /\ t.wallet \in Wallets
       /\ \E v \in Validators : x = StakeRow(t.wallet, v)
    \/ /\ Head(t.plan) = "recompute"
       /\ \/ x = RunOf("recompute", t.head)
          \/ \E v \in Validators : x = RollupRow(v)
          \/ \E w \in Wallets : x = RiskRow(w)

\* Jobs that write the head alone, whatever the place in their selection.
Plain == {"catalog", "recompute"}

\* A transaction writes rows of its job only, and at its head.
Proper(t) ==
    /\ \A d \in Pending(t) :
          Own(t, d.row) /\ (Head(t.plan) \in Plain => d.value = <<t.head, 0>>)
    /\ \A x \in Rows : t.writes[x] # None =>
          Own(t, x) /\ (Head(t.plan) \in Plain => t.writes[x] = <<t.head, 0>>)

\* What a job is to store is pending, or it is there: written by the job
\* itself (its run), or by whoever it may be.
Covers(t, store) ==
    t.at \in {"rows", "flush", "commit"} /\ t.then = "commit" =>
        /\ Head(t.plan) \in {"head", "recompute"} =>
               \/ Awaits(t, RunOf(Head(t.plan), t.head))
               \/ t.writes[RunOf(Head(t.plan), t.head)] # None
        /\ Head(t.plan) = "head" =>
               \A n \in Subnets : \/ Awaits(t, SubnetRow(n))
                                  \/ Seen(t, store, SubnetRow(n)) # None
        /\ Head(t.plan) = "portfolio" /\ t.wallet # None =>
               \E v \in Validators :
                   \/ Awaits(t, StakeRow(t.wallet, v))
                   \/ Seen(t, store, StakeRow(t.wallet, v)) # None

\* A catalog sync that has found validators goes through all of them, and
\* unless it is overtaken it sees those behind it at its head.
Catalogued(t, store) ==
    /\ t.at \in {"rows", "flush", "commit"}
    /\ Head(t.plan) = "catalog"
    /\ ~t.overtaken
    /\ t.skipped \/ t.writes # Untouched \/ Pending(t) # {}
    => \A v \in Validators :
           \/ Awaits(t, ValidatorRow(v))
           \/ /\ Seen(t, store, ValidatorRow(v)) = <<t.head, 0>>
              /\ t.writes[ValidatorRow(v)] # None \/ t.skipped

\* A run that is written is not committed: two requests cannot both store it.
Claims(t, store) ==
    \A x \in Rows : Kind(x) = "run" /\ t.writes[x] # None => store[x] = None

\* The order in which the chain head and the catalog are written.
Place(x) ==
    IF Kind(x) = "subnet" THEN x[2] + 1
    ELSE IF Kind(x) = "validator" THEN x[2][1] * PerSubnet + x[2][2]
    ELSE 0

Ordered == {"head", "catalog"}

\* They write in this order.
InOrder(t) ==
    t.at \in {"rows", "flush"} /\ Head(t.plan) \in Ordered =>
        /\ \A i, j \in DOMAIN t.todo : i < j =>
               Place(t.todo[i].row) < Place(t.todo[j].row)
        /\ t.at = "flush" =>
               \A i \in DOMAIN t.todo :
                   Place(t.dirty.row) < Place(t.todo[i].row)
        /\ \A x \in Rows, d \in Pending(t) :
               t.writes[x] # None => Place(x) < Place(d.row)

Whole(t, store) ==
    /\ Fits(t)
    /\ Holds(t)
    /\ Proper(t)
    /\ Covers(t, store)
    /\ Catalogued(t, store)
    /\ Claims(t, store)
    /\ InOrder(t)

\* No two transactions have written the same row.
Exclusive ==
    \A r, s \in Requests : \A x \in Rows :
        txn[r].writes[x] # None /\ txn[s].writes[x] # None => r = s

\* Subnets are committed all together.
SeededTogether(store) ==
    \A m, n \in Subnets :
        store[SubnetRow(m)] # None => store[SubnetRow(n)] # None

IngestionInv ==
    /\ TypeOK
    /\ \A r \in Requests : Whole(txn[r], db)
    /\ Exclusive
    /\ SeededTogether(db)
    /\ RunOnce
    /\ JobsWhole
    /\ OneHead

----------------------------------------------------------------------------
\* Every row has its kind, and rows of one kind differ in what they are of.
LEMMA RowKinds ==
    /\ \A j, h : Kind(RunOf(j, h)) = "run"
    /\ \A n : Kind(SubnetRow(n)) = "subnet"
    /\ \A v : Kind(ValidatorRow(v)) = "validator"
    /\ \A w, v : Kind(StakeRow(w, v)) = "stake"
    /\ \A v : Kind(RollupRow(v)) = "rollup"
    /\ \A w : Kind(RiskRow(w)) = "risk"
BY DEF Kind, RunOf, SubnetRow, ValidatorRow, StakeRow, RollupRow, RiskRow

LEMMA RowsDiffer ==
    /\ \A j, h, k, g : RunOf(j, h) = RunOf(k, g) => j = k /\ h = g
    /\ \A m, n : SubnetRow(m) = SubnetRow(n) => m = n
    /\ \A u, v : ValidatorRow(u) = ValidatorRow(v) => u = v
    /\ \A w, u, x, v : StakeRow(w, u) = StakeRow(x, v) => w = x /\ u = v
    /\ \A u, v : RiskRow(u) = RiskRow(v) => u = v
BY DEF RunOf, SubnetRow, ValidatorRow, StakeRow, RiskRow

\* What is a row.
LEMMA RowsAre ==
    /\ \A j \in {"head", "recompute"}, h \in Heads : RunOf(j, h) \in Rows
    /\ \A n \in Subnets : SubnetRow(n) \in Rows
    /\ \A v \in Validators : ValidatorRow(v) \in Rows
    /\ \A w \in Wallets, v \in Validators : StakeRow(w, v) \in Rows
    /\ \A v \in Validators : RollupRow(v) \in Rows
    /\ \A w \in Wallets : RiskRow(w) \in Rows
BY DEF Rows

\* A row of a kind is of that kind.
LEMMA RowOfRun ==
    ASSUME NEW x \in Rows, Kind(x) = "run"
    PROVE  \E j \in {"head", "recompute"}, h \in Heads : x = RunOf(j, h)
<1>1. \/ \E j \in {"head", "recompute"}, h \in Heads : x = RunOf(j, h)
      \/ \E n : x = SubnetRow(n)
      \/ \E v : x = ValidatorRow(v)
      \/ \E w, v : x = StakeRow(w, v)
      \/ \E v : x = RollupRow(v)
      \/ \E w : x = RiskRow(w)
  BY DEF Rows
<1> QED BY <1>1, RowKinds

\* Validators are pairs of numbers, and finitely many.
LEMMA ValidatorSet ==
    /\ IsFiniteSet(Validators)
    /\ \A v \in Validators : /\ v[1] \in Subnets /\ v[2] \in 0..(PerSubnet - 1)
                             /\ v = <<v[1], v[2]>>
<1>1. SubnetLimit - 1 \in Int /\ PerSubnet - 1 \in Int
  BY NumberAssumption
<1>2. IsFiniteSet(0..(SubnetLimit - 1)) /\ IsFiniteSet(0..(PerSubnet - 1))
  BY <1>1, FS_Interval
<1>3. IsFiniteSet(Subnets \X (0..(PerSubnet - 1)))
  BY <1>2, FS_Product DEF Subnets
<1>4. \A v \in Validators : /\ v[1] \in Subnets /\ v[2] \in 0..(PerSubnet - 1)
                           /\ v = <<v[1], v[2]>>
  BY DEF Validators
<1> QED BY <1>3, <1>4 DEF Validators

\* A sequence of SetToSeqs goes through all of a set, and only once.
LEMMA Selection ==
    ASSUME NEW S, IsFiniteSet(S), NEW s \in SetToSeqs(S)
    PROVE  /\ Len(s) = Cardinality(S) /\ Len(s) \in Nat
           /\ s \in Seq(S) /\ DOMAIN s = 1..Len(s)
           /\ \A k \in DOMAIN s : s[k] \in S
           /\ \A i, j \in DOMAIN s : s[i] = s[j] => i = j
           /\ \A x \in S : \E k \in DOMAIN s : s[k] = x
<1> DEFINE D == 1..Cardinality(S)
<1>1. Cardinality(S) \in Nat
  BY FS_CardinalityType
<1>2. s \in [D -> S] /\ \A i, j \in D : i # j => s[i] # s[j]
  BY DEF SetToSeqs
<1>3. IsFiniteSet(D) /\ Cardinality(D) = Cardinality(S)
  BY <1>1, FS_Interval
<1>4. s \in Injection(D, S)
  BY <1>2 DEF Injection, IsInjective
<1>5. s \in Surjection(D, S)
  BY <1>3, <1>4, FS_Injection
<1>6. \A x \in S : \E k \in D : s[k] = x
  BY <1>5 DEF Surjection
<1>7. s \in Seq(S) /\ Len(s) = Cardinality(S) /\ DOMAIN s = D
  BY <1>1, <1>2, SMT
<1> QED BY <1>1, <1>2, <1>6, <1>7

----------------------------------------------------------------------------
(***************************************************************************)
(* One transaction: each step leaves a whole one.                          *)
(***************************************************************************)
\* What is left of a plan after its first job.
LEMMA PlanSteps ==
    ASSUME NEW p \in Remaining
    PROVE  /\ p \in Seq(Jobs)
           /\ p # <<>> => /\ Head(p) \in Jobs
                          /\ Tail(p) \in Remaining
                          /\ Tail(p) # <<>> => Head(Tail(p)) \in Jobs
<1>1. CASE p = <<>>
  BY <1>1
<1>2. ASSUME NEW j \in Jobs, p = <<j>>
      PROVE  /\ p \in Seq(Jobs) /\ Head(p) = j /\ Tail(p) = <<>>
  BY <1>2
<1>3. CASE p = <<"head", "catalog", "portfolio", "recompute">>
  <2>1. /\ p \in Seq(Jobs) /\ Head(p) = "head"
        /\ Tail(p) = <<"catalog", "portfolio", "recompute">>
    BY <1>3 DEF Jobs
  <2> QED BY <2>1 DEF Remaining, Jobs
<1>4. CASE p = <<"catalog", "portfolio", "recompute">>
  <2>1. /\ p \in Seq(Jobs) /\ Head(p) = "catalog"
        /\ Tail(p) = <<"portfolio", "recompute">>
    BY <1>4 DEF Jobs
  <2> QED BY <2>1 DEF Remaining, Jobs
<1>5. CASE p = <<"portfolio", "recompute">>
  <2>1. /\ p \in Seq(Jobs) /\ Head(p) = "portfolio"
        /\ Tail(p) = <<"recompute">> /\ Head(Tail(p)) = "recompute"
    BY <1>5 DEF Jobs
  <2> QED BY <2>1 DEF Remaining, AllPlans, Jobs
<1> QED BY <1>1, <1>2, <1>3, <1>4, <1>5 DEF Remaining, AllPlans

\* The record of a request has its fields.
LEMMA HandlerFields ==
    ASSUME NEW t \in Handlers
    PROVE  /\ t = [plan |-> t.plan, head |-> t.head, at |-> t.at,
                   then |-> t.then, todo |-> t.todo, dirty |-> t.dirty,
                   writes |-> t.writes, wallet |-> t.wallet,
                   skipped |-> t.skipped, overtaken |-> t.overtaken]
           /\ t.plan \in Seq(Jobs) /\ t.head \in Heads \cup {None}
           /\ t.at \in Ended \cup {"fetch", "lookup", "list", "wallets", "rows",
                                  "flush", "reread", "commit"}
           /\ t.then \in {"commit", "wallets"}
           /\ t.todo \in Seq(Writes) /\ t.dirty \in Dirty \cup {None}
           /\ t.writes \in [Rows -> Values \cup {None}]
           /\ t.wallet \in Wallets \cup {None}
           /\ t.skipped \in BOOLEAN /\ t.overtaken \in BOOLEAN
BY DEF Handlers

LEMMA HandlerTyped ==
    ASSUME NEW plan \in Seq(Jobs), NEW head \in Heads \cup {None},
           NEW at \in Ended \cup {"fetch", "lookup", "list", "wallets", "rows",
                                  "flush", "reread", "commit"},
           NEW then \in {"commit", "wallets"},
           NEW todo \in Seq(Writes), NEW dirty \in Dirty \cup {None},
           NEW writes \in [Rows -> Values \cup {None}],
           NEW wallet \in Wallets \cup {None},
           NEW skipped \in BOOLEAN, NEW overtaken \in BOOLEAN
    PROVE  [plan |-> plan, head |-> head, at |-> at, then |-> then,
            todo |-> todo, dirty |-> dirty, writes |-> writes,
            wallet |-> wallet, skipped |-> skipped, overtaken |-> overtaken]
               \in Handlers
BY DEF Handlers

\* What is unwritten is typed.
LEMMA UntouchedTyped ==
    /\ Untouched \in [Rows -> Values \cup {None}]
    /\ \A x \in Rows : Untouched[x] = None
    /\ \A f \in [Rows -> Values \cup {None}] :
           (\A x \in Rows : f[x] = None) => f = Untouched
BY DEF Untouched

\* A request that has written nothing and waits for nothing is whole.
LEMMA StillWhole ==
    ASSUME NEW t \in Handlers, NEW store, Fits(t), Holds(t), t.at \notin Writing
    PROVE  Whole(t, store)
<1>1. t.todo = <<>> /\ t.writes = Untouched /\ t.at # "flush"
  BY DEF Holds, Writing
<1>2. Pending(t) = {}
  BY <1>1 DEF Pending, ToSet
<1>3. \A x \in Rows : t.writes[x] = None
  BY <1>1, UntouchedTyped
<1>4. Proper(t)
  BY <1>2, <1>3 DEF Proper
<1>5. Covers(t, store) /\ Catalogued(t, store) /\ Claims(t, store) /\ InOrder(t)
  BY <1>3 DEF Covers, Catalogued, Claims, InOrder, Writing
<1> QED BY <1>4, <1>5 DEF Whole

\* A transaction that is rolled back at a, field by field.
Emptied(t, a) ==
    [plan |-> t.plan, head |-> t.head, at |-> a, then |-> t.then,
     todo |-> <<>>, dirty |-> None, writes |-> Untouched, wallet |-> t.wallet,
     skipped |-> t.skipped, overtaken |-> t.overtaken]

LEMMA RolledBackIs ==
    ASSUME NEW t \in Handlers
    PROVE  /\ RolledBack(t) = Emptied(t, t.at)
           /\ \A a : [RolledBack(t) EXCEPT !.at = a] = Emptied(t, a)
<1>1. ASSUME NEW new, new = RolledBack(t)
      PROVE  new = Emptied(t, t.at)
  BY <1>1 DEF RolledBack, Emptied, Handlers
<1>2. \A a : [Emptied(t, t.at) EXCEPT !.at = a] = Emptied(t, a)
  BY DEF Emptied
<1> QED BY <1>1, <1>2

LEMMA EmptiedTyped ==
    ASSUME NEW t \in Handlers,
           NEW a \in Ended \cup {"fetch", "lookup", "list", "wallets", "rows",
                                "flush", "reread", "commit"}
    PROVE  Emptied(t, a) \in Handlers
<1>1. <<>> \in Seq(Writes) /\ None \in Dirty \cup {None}
  OBVIOUS
<1> QED BY <1>1, HandlerFields, UntouchedTyped DEF Emptied, Handlers

\* It holds nothing.
LEMMA RolledBackWhole ==
    ASSUME NEW t \in Handlers, NEW store, Whole(t, store), t.at \notin Ended,
           NEW a \in {"error", "dead", "reread"},
           a = "reread" => Head(t.plan) = "head" /\ t.head \in Heads
    PROVE  /\ Emptied(t, a) \in Handlers /\ Whole(Emptied(t, a), store)
           /\ Emptied(t, a).writes = Untouched
<1> DEFINE new == Emptied(t, a)
<1>1. new \in Handlers
  BY EmptiedTyped DEF Ended
<1>2. /\ t.plan \in Remaining /\ t.plan # <<>>
      /\ t.overtaken => t.skipped
      /\ Head(t.plan) # "portfolio" => t.wallet = None
      /\ t.skipped => Head(t.plan) = "catalog"
  BY DEF Whole, Fits, Holds
<1>3. /\ new.plan = t.plan /\ new.head = t.head /\ new.at = a
      /\ new.todo = <<>> /\ new.writes = Untouched /\ new.wallet = t.wallet
      /\ new.skipped = t.skipped /\ new.overtaken = t.overtaken
  BY DEF Emptied
<1> HIDE DEF new
<1>4. Fits(new) /\ Holds(new) /\ new.at \notin Writing
  <2>1. CASE a = "reread"
    BY <1>2, <1>3, <2>1 DEF Fits, Holds, Writing, Ended
  <2>2. CASE a \in {"error", "dead"}
    BY <1>2, <1>3, <2>2 DEF Fits, Holds, Writing, Ended
  <2> QED BY <2>1, <2>2
<1>5. Whole(new, store)
  BY <1>1, <1>4, StillWhole
<1> QED BY <1>1, <1>3, <1>5 DEF new

\* The next job of a request holds nothing.
LEMMA NextJobWhole ==
    ASSUME NEW t \in Handlers, NEW store, Fits(t), t.plan # <<>>,
           t.head \in Heads
    PROVE  /\ NextJob(t) \in Handlers /\ Whole(NextJob(t), store)
           /\ NextJob(t).writes = Untouched
<1> DEFINE rest == Tail(t.plan)
           new == NextJob(t)
           Next1(at, head) ==
             [plan |-> rest, head |-> head, at |-> at, then |-> t.then,
              todo |-> <<>>, dirty |-> None, writes |-> Untouched,
              wallet |-> None, skipped |-> FALSE, overtaken |-> FALSE]
<1>1. /\ rest \in Remaining /\ rest \in Seq(Jobs)
      /\ rest # <<>> => Head(rest) \in Jobs
  BY PlanSteps DEF Fits
<1>2. new = IF rest = <<>> THEN Next1("done", t.head)
            ELSE IF Head(t.plan) = "head" THEN Next1("fetch", None)
            ELSE Next1(First(Head(rest)), t.head)
  <2>1. PICK e : e = RolledBack(t)
    OBVIOUS
  <2>2. PICK t1 : t1 = [e EXCEPT !.plan = rest, !.wallet = None,
                                 !.skipped = FALSE, !.overtaken = FALSE]
    OBVIOUS
  <2>3. e \in Handlers /\ e = Emptied(t, t.at)
    BY <2>1, RolledBackIs, EmptiedTyped, HandlerFields
  <2>4. t1 = Next1(t.at, t.head)
    <3>1. t1 = [plan |-> rest, head |-> e.head, at |-> e.at, then |-> e.then,
                todo |-> e.todo, dirty |-> e.dirty, writes |-> e.writes,
                wallet |-> None, skipped |-> FALSE, overtaken |-> FALSE]
      <4> HIDE DEF rest
      <4> QED BY <2>2, <2>3 DEF Handlers
    <3> QED BY <2>3, <3>1 DEF Emptied
  <2> HIDE DEF rest
  <2>5. ASSUME NEW at, NEW u, u = [t1 EXCEPT !.at = at]
        PROVE  u = Next1(at, t.head)
    BY <2>4, <2>5
  <2>6. ASSUME NEW u, u = [t1 EXCEPT !.at = "fetch", !.head = None]
        PROVE  u = Next1("fetch", None)
    BY <2>4, <2>6
  <2> USE DEF rest
  <2>7. new = IF rest = <<>> THEN [t1 EXCEPT !.at = "done"]
              ELSE IF Head(t.plan) = "head"
                   THEN [t1 EXCEPT !.at = "fetch", !.head = None]
                   ELSE [t1 EXCEPT !.at = First(Head(rest))]
    BY <2>1, <2>2 DEF NextJob
  <2> HIDE DEF new, Next1
  <2> QED BY <2>5, <2>6, <2>7
<1>3. \A at \in {"done", "fetch", "lookup", "list"}, head \in Heads \cup {None} :
         Next1(at, head) \in Handlers
  BY <1>1, UntouchedTyped DEF Handlers, Ended
<1>4. \A j \in Jobs : \/ First(j) = "lookup" /\ j \in {"head", "recompute"}
                      \/ First(j) = "list" /\ j \in {"catalog", "portfolio"}
  BY DEF First, Jobs
<1>5. /\ new \in Handlers /\ Fits(new) /\ Holds(new)
      /\ new.at \notin Writing /\ new.writes = Untouched
  <2>1. CASE rest = <<>>
    <3>1. new = Next1("done", t.head)
      BY <1>2, <2>1
    <3> QED BY <1>1, <1>3, <3>1 DEF Fits, Holds, Writing, Ended
  <2>2. CASE rest # <<>> /\ Head(t.plan) = "head"
    <3>1. new = Next1("fetch", None)
      BY <1>2, <2>2
    <3> QED BY <1>1, <1>3, <2>2, <3>1 DEF Fits, Holds, Writing, Ended
  <2>3. CASE rest # <<>> /\ Head(t.plan) # "head"
    <3>1. new = Next1(First(Head(rest)), t.head)
      BY <1>2, <2>3
    <3> QED BY <1>1, <1>3, <1>4, <2>3, <3>1 DEF Fits, Holds, Writing, Ended
  <2> QED BY <2>1, <2>2, <2>3
<1> QED BY <1>5, StillWhole

\* So does one that has just fetched the head.
LEMMA FetchWhole ==
    ASSUME NEW t \in Handlers, NEW store, Whole(t, store), t.at = "fetch",
           NEW h \in Heads,
           NEW new, new = [t EXCEPT !.head = h, !.at = First(Head(t.plan))]
    PROVE  new \in Handlers /\ Whole(new, store) /\ new.writes = Untouched
<1>1. new = [plan |-> t.plan, head |-> h, at |-> First(Head(t.plan)),
             then |-> t.then, todo |-> t.todo, dirty |-> t.dirty,
             writes |-> t.writes, wallet |-> t.wallet, skipped |-> t.skipped,
             overtaken |-> t.overtaken]
  BY DEF Handlers
<1>2. Head(t.plan) \in Jobs /\ t.plan # <<>> /\ t.plan \in Remaining
  BY PlanSteps DEF Whole, Fits, Ended
<1>3. \/ First(Head(t.plan)) = "lookup" /\ Head(t.plan) \in {"head", "recompute"}
      \/ First(Head(t.plan)) = "list" /\ Head(t.plan) \in {"catalog", "portfolio"}
  BY <1>2 DEF First, Jobs
<1>4. new \in Handlers
  BY <1>1, <1>3 DEF Handlers
<1>5. Fits(new) /\ Holds(new) /\ new.at \notin Writing /\ new.writes = Untouched
  BY <1>1, <1>2, <1>3 DEF Whole, Fits, Holds, Writing, Ended
<1> QED BY <1>4, <1>5, StillWhole

\* The first write of a queue, and the others.
LEMMA Queue ==
    ASSUME NEW q \in Seq(Writes), q # <<>>
    PROVE  /\ Head(q) \in Writes /\ Head(q) = q[1] /\ 1 \in DOMAIN q
           /\ Tail(q) \in Seq(Writes)
           /\ \A i \in DOMAIN Tail(q) : i + 1 \in DOMAIN q /\ Tail(q)[i] = q[i + 1]
           /\ \A i \in DOMAIN q : i \in Nat /\ i > 0
           /\ \A i \in DOMAIN Tail(q) : i \in Nat /\ i > 0
           /\ ToSet(q) = {Head(q)} \cup ToSet(Tail(q))
<1>1. /\ Len(q) \in Nat /\ Len(q) > 0 /\ DOMAIN q = 1..Len(q)
      /\ Head(q) \in Writes /\ Tail(q) \in Seq(Writes) /\ Head(q) = q[1]
      /\ Len(Tail(q)) = Len(q) - 1 /\ DOMAIN Tail(q) = 1..(Len(q) - 1)
      /\ \A i \in 1..(Len(q) - 1) : Tail(q)[i] = q[i + 1]
  BY HeadTailProperties, LenProperties, SMT
<1>2. \A i \in 1..Len(q) :
         i = 1 \/ (i - 1 \in 1..(Len(q) - 1) /\ (i - 1) + 1 = i)
  BY <1>1
<1>3. \A i \in 1..(Len(q) - 1) : i + 1 \in 1..Len(q)
  BY <1>1
<1>4. ToSet(q) = {Head(q)} \cup ToSet(Tail(q))
  <2>1. ASSUME NEW i \in DOMAIN q PROVE q[i] \in {Head(q)} \cup ToSet(Tail(q))
    <3>1. CASE i = 1
      BY <1>1, <3>1
    <3>2. CASE i # 1
      <4>1. i - 1 \in DOMAIN Tail(q) /\ Tail(q)[i - 1] = q[i]
        BY <1>1, <1>2, <3>2
      <4> QED BY <4>1 DEF ToSet
    <3> QED BY <3>1, <3>2
  <2>2. ASSUME NEW i \in DOMAIN Tail(q) PROVE Tail(q)[i] \in ToSet(q)
    BY <1>1, <1>3 DEF ToSet
  <2>3. Head(q) \in ToSet(q)
    BY <1>1 DEF ToSet
  <2> QED BY <2>1, <2>2, <2>3 DEF ToSet
<1> QED BY <1>1, <1>3, <1>4

\* Where a job is after a row.
LEMMA Afters ==
    ASSUME NEW todo, NEW then \in {"commit", "wallets"}
    PROVE  /\ todo = <<>> => After(todo, then) = then
           /\ todo # <<>> => After(todo, then) = "rows"
BY DEF After

\* A row that is as it should be is passed over.
Passed(t, d) ==
    [plan |-> t.plan, head |-> t.head, at |-> After(Tail(t.todo), t.then),
     then |-> t.then, todo |-> Tail(t.todo), dirty |-> t.dirty,
     writes |-> t.writes, wallet |-> t.wallet,
     skipped |-> (t.skipped \/ Kind(d.row) = "validator"),
     overtaken |-> t.overtaken]

LEMMA SkipWhole ==
    ASSUME NEW t \in Handlers, NEW store, Whole(t, store), t.at = "rows",
           NEW d, d = Head(t.todo), Kind(d.row) # "run",
           d.value # None, Seen(t, store, d.row) = d.value
    PROVE  /\ Passed(t, d) \in Handlers /\ Whole(Passed(t, d), store)
           /\ Passed(t, d).writes = t.writes
<1> DEFINE new == Passed(t, d)
<1>1. /\ t.todo # <<>> /\ t.todo \in Seq(Writes) /\ t.then \in {"commit", "wallets"}
      /\ t.at \notin Ended /\ t.plan \in Remaining /\ t.plan # <<>>
      /\ t.head \in Heads
  BY HandlerFields DEF Whole, Fits, Holds, Ended
<1>2. /\ d \in Writes /\ Tail(t.todo) \in Seq(Writes)
      /\ ToSet(t.todo) = {d} \cup ToSet(Tail(t.todo))
      /\ \A i \in DOMAIN new.todo : /\ i + 1 \in DOMAIN t.todo /\ i \in Nat
                                   /\ new.todo[i] = t.todo[i + 1]
  BY <1>1, Queue DEF Passed
<1>3. /\ new.plan = t.plan /\ new.head = t.head /\ new.then = t.then
      /\ new.todo = Tail(t.todo) /\ new.writes = t.writes
      /\ new.wallet = t.wallet /\ new.overtaken = t.overtaken
      /\ new.skipped = (t.skipped \/ Kind(d.row) = "validator")
      /\ new.at = After(Tail(t.todo), t.then)
  BY DEF Passed
<1>4. /\ new.todo = <<>> => new.at = new.then
      /\ new.todo # <<>> => new.at = "rows"
      /\ new.at # "flush" /\ new.at \notin Ended
  BY <1>1, <1>3, Afters DEF Ended
<1>5. new \in Handlers
  BY <1>1, <1>2, <1>4, HandlerFields DEF Handlers, Passed
<1>6. Pending(t) = {d} \cup Pending(new) /\ Pending(new) = ToSet(new.todo)
  BY <1>2, <1>3, <1>4 DEF Pending
<1>7. Own(t, d.row) /\ \A x : Own(new, x) <=> Own(t, x)
  BY <1>3, <1>6 DEF Whole, Proper, Own
<1>8. Kind(d.row) = "validator" => Head(t.plan) = "catalog"
  BY <1>7, RowKinds DEF Own
<1> HIDE DEF new
<1>9. Fits(new) /\ Holds(new)
  BY <1>1, <1>3, <1>4, <1>8 DEF Whole, Fits, Holds, Writing, Ended
<1>10. Proper(new)
  BY <1>3, <1>6, <1>7 DEF Whole, Proper
<1>11. \A x : Seen(new, store, x) = Seen(t, store, x)
  BY <1>3 DEF Seen
<1>12. \A x : Awaits(t, x) => Awaits(new, x) \/ x = d.row
  BY <1>6 DEF Awaits
<1>13. Covers(new, store)
  BY <1>3, <1>11, <1>12, RowKinds DEF Whole, Covers
<1>14. Catalogued(new, store)
  <2>1. SUFFICES ASSUME Head(t.plan) = "catalog", ~t.overtaken, NEW v \in Validators
                 PROVE  \/ Awaits(new, ValidatorRow(v))
                        \/ /\ Seen(new, store, ValidatorRow(v)) = <<new.head, 0>>
                           /\ new.writes[ValidatorRow(v)] # None \/ new.skipped
    BY <1>3 DEF Catalogued
  <2>2. Pending(t) # {}
    BY <1>6
  <2>3. \/ Awaits(t, ValidatorRow(v))
        \/ /\ Seen(t, store, ValidatorRow(v)) = <<t.head, 0>>
           /\ t.writes[ValidatorRow(v)] # None \/ t.skipped
    BY <2>1, <2>2 DEF Whole, Catalogued
  <2>4. CASE ValidatorRow(v) = d.row
    <3>1. d.value = <<t.head, 0>>
      BY <1>6, <2>1 DEF Whole, Proper, Plain
    <3>2. new.skipped
      BY <1>3, <2>4, RowKinds
    <3> QED BY <1>3, <1>11, <2>4, <3>1, <3>2
  <2>5. CASE ValidatorRow(v) # d.row
    BY <1>3, <1>11, <1>12, <2>3, <2>5
  <2> QED BY <2>4, <2>5
<1>15. Claims(new, store)
  BY <1>3 DEF Whole, Claims
<1>16. InOrder(new)
  <2>1. SUFFICES ASSUME Head(t.plan) \in Ordered
                 PROVE  /\ \A i, j \in DOMAIN new.todo : i < j =>
                             Place(new.todo[i].row) < Place(new.todo[j].row)
                        /\ \A x \in Rows, e \in Pending(new) :
                             new.writes[x] # None => Place(x) < Place(e.row)
    BY <1>3, <1>4 DEF InOrder
  <2>2. /\ \A i, j \in DOMAIN t.todo : i < j =>
               Place(t.todo[i].row) < Place(t.todo[j].row)
        /\ \A x \in Rows, e \in Pending(t) :
               t.writes[x] # None => Place(x) < Place(e.row)
    BY <2>1 DEF Whole, InOrder
  <2>3. \A i, j \in DOMAIN new.todo : i < j => i + 1 < j + 1
    BY <1>2
  <2> QED BY <1>2, <1>3, <1>6, <2>2, <2>3
<1> QED BY <1>3, <1>5, <1>9, <1>10, <1>13, <1>14, <1>15, <1>16 DEF Whole, new

\* A row that is new or has changed is to be flushed.
Changed(t, d, fresh) ==
    [plan |-> t.plan, head |-> t.head, at |-> "flush", then |-> t.then,
     todo |-> Tail(t.todo),
     dirty |-> [row |-> d.row, value |-> d.value, fresh |-> fresh],
     writes |-> t.writes, wallet |-> t.wallet, skipped |-> t.skipped,
     overtaken |-> t.overtaken]

LEMMA ChangeWhole ==
    ASSUME NEW t \in Handlers, NEW store, Whole(t, store), t.at = "rows",
           NEW d, d = Head(t.todo),
           NEW fresh \in BOOLEAN, Kind(d.row) = "run" => fresh
    PROVE  /\ Changed(t, d, fresh) \in Handlers
           /\ Whole(Changed(t, d, fresh), store)
           /\ Changed(t, d, fresh).writes = t.writes
<1> DEFINE new == Changed(t, d, fresh)
<1>1. /\ t.todo # <<>> /\ t.todo \in Seq(Writes) /\ t.then \in {"commit", "wallets"}
      /\ t.at \notin Ended /\ t.plan \in Remaining /\ t.plan # <<>>
      /\ t.head \in Heads
  BY HandlerFields DEF Whole, Fits, Holds, Ended
<1>2. /\ d \in Writes /\ Tail(t.todo) \in Seq(Writes) /\ d = t.todo[1]
      /\ 1 \in DOMAIN t.todo
      /\ ToSet(t.todo) = {d} \cup ToSet(Tail(t.todo))
      /\ \A i \in DOMAIN new.todo : /\ i + 1 \in DOMAIN t.todo /\ i \in Nat
                                   /\ i > 0 /\ new.todo[i] = t.todo[i + 1]
  BY <1>1, Queue DEF Changed
<1>3. /\ new.plan = t.plan /\ new.head = t.head /\ new.then = t.then
      /\ new.todo = Tail(t.todo) /\ new.writes = t.writes
      /\ new.wallet = t.wallet /\ new.overtaken = t.overtaken
      /\ new.skipped = t.skipped /\ new.at = "flush"
      /\ new.dirty = [row |-> d.row, value |-> d.value, fresh |-> fresh]
  BY DEF Changed
<1>4. new.dirty \in Dirty /\ new.dirty.row = d.row /\ new.dirty.fresh = fresh
  BY <1>2, <1>3 DEF Dirty, Writes
<1>5. new \in Handlers
  BY <1>1, <1>2, <1>3, <1>4, HandlerFields DEF Handlers, Changed
<1>6. [row |-> new.dirty.row, value |-> new.dirty.value] = d
  BY <1>2, <1>3 DEF Writes
<1>7. Pending(t) = ToSet(t.todo) /\ Pending(new) = Pending(t)
  BY <1>2, <1>3, <1>6 DEF Pending
<1> HIDE DEF new
<1>8. Fits(new) /\ Holds(new)
  BY <1>1, <1>3, <1>4 DEF Whole, Fits, Holds, Writing, Ended
<1>9. Proper(new)
  BY <1>3, <1>7 DEF Whole, Proper, Own
<1>10. /\ \A x : Seen(new, store, x) = Seen(t, store, x)
       /\ \A x : Awaits(new, x) <=> Awaits(t, x)
  BY <1>3, <1>7 DEF Seen, Awaits
<1>11. Covers(new, store)
  BY <1>3, <1>10 DEF Whole, Covers
<1>12. Catalogued(new, store)
  BY <1>3, <1>7, <1>10 DEF Whole, Catalogued
<1>13. Claims(new, store)
  BY <1>3 DEF Whole, Claims
<1>14. InOrder(new)
  <2>1. SUFFICES ASSUME Head(t.plan) \in Ordered
                 PROVE  /\ \A i, j \in DOMAIN new.todo : i < j =>
                             Place(new.todo[i].row) < Place(new.todo[j].row)
                        /\ \A i \in DOMAIN new.todo :
                             Place(d.row) < Place(new.todo[i].row)
                        /\ \A x \in Rows, e \in Pending(new) :
                             new.writes[x] # None => Place(x) < Place(e.row)
    BY <1>3, <1>4 DEF InOrder
  <2>2. /\ \A i, j \in DOMAIN t.todo : i < j =>
               Place(t.todo[i].row) < Place(t.todo[j].row)
        /\ \A x \in Rows, e \in Pending(t) :
               t.writes[x] # None => Place(x) < Place(e.row)
    BY <2>1 DEF Whole, InOrder
  <2>3. \A i, j \in DOMAIN new.todo : i < j => i + 1 < j + 1
    BY <1>2
  <2>4. \A i \in DOMAIN new.todo : 1 < i + 1
    BY <1>2
  <2>5. \A i \in DOMAIN new.todo : Place(d.row) < Place(new.todo[i].row)
    BY <1>2, <2>2, <2>4
  <2> QED BY <1>2, <1>3, <1>7, <2>2, <2>3, <2>5
<1> QED BY <1>3, <1>5, <1>8, <1>9, <1>11, <1>12, <1>13, <1>14 DEF Whole, new

\* A row that is flushed is written.
Flushed(t) ==
    [plan |-> t.plan, head |-> t.head, at |-> After(t.todo, t.then),
     then |-> t.then, todo |-> t.todo, dirty |-> None,
     writes |-> [t.writes EXCEPT ![t.dirty.row] = t.dirty.value],
     wallet |-> t.wallet, skipped |-> t.skipped, overtaken |-> t.overtaken]

LEMMA FlushWhole ==
    ASSUME NEW t \in Handlers, NEW store, Whole(t, store), t.at = "flush",
           t.dirty.fresh => store[t.dirty.row] = None
    PROVE  /\ Flushed(t) \in Handlers /\ Whole(Flushed(t), store)
           /\ \A x \in Rows : Flushed(t).writes[x] # None =>
                                x = t.dirty.row \/ t.writes[x] # None
<1> DEFINE new == Flushed(t)
           d == t.dirty
           w == [row |-> d.row, value |-> d.value]
<1>1. /\ t.todo \in Seq(Writes) /\ t.then \in {"commit", "wallets"}
      /\ t.at \notin Ended /\ t.plan \in Remaining /\ t.plan # <<>>
      /\ t.head \in Heads /\ t.writes \in [Rows -> Values \cup {None}]
  BY HandlerFields DEF Whole, Fits, Holds, Ended
<1>2. /\ d \in Dirty /\ d.row \in Rows /\ d.value \in Values /\ d.value # None
      /\ Kind(d.row) = "run" => d.fresh
  BY NoneAssumption DEF Whole, Holds, Dirty, Values
<1>3. /\ new.plan = t.plan /\ new.head = t.head /\ new.then = t.then
      /\ new.todo = t.todo
      /\ new.wallet = t.wallet /\ new.overtaken = t.overtaken
      /\ new.skipped = t.skipped /\ new.at = After(t.todo, t.then)
  BY DEF Flushed
<1>4. /\ new.writes \in [Rows -> Values \cup {None}]
      /\ new.writes[d.row] = d.value
      /\ \A x \in Rows : x # d.row => new.writes[x] = t.writes[x]
  BY <1>1, <1>2 DEF Flushed
<1>5. /\ new.todo = <<>> => new.at = new.then
      /\ new.todo # <<>> => new.at = "rows"
      /\ new.at \in {"rows", "commit", "wallets"}
  BY <1>1, <1>3, Afters
<1>6. new \in Handlers
  BY <1>1, <1>4, <1>5, HandlerFields DEF Handlers, Flushed
<1> HIDE DEF new
<1>7. Pending(t) = {w} \cup Pending(new) /\ Pending(new) = ToSet(t.todo)
  BY <1>3, <1>5 DEF Pending
<1>8. w.row = d.row /\ w.value = d.value
  OBVIOUS
<1>9. \A x : Own(new, x) <=> Own(t, x)
  BY <1>3 DEF Own
<1>10. Own(t, d.row) /\ (Head(t.plan) \in Plain => d.value = <<t.head, 0>>)
  BY <1>7, <1>8 DEF Whole, Proper
<1>11. Fits(new) /\ Holds(new)
  BY <1>1, <1>3, <1>5 DEF Whole, Fits, Holds, Writing, Ended
<1> HIDE DEF d, w
<1>12. Proper(new)
  BY <1>3, <1>4, <1>7, <1>9, <1>10 DEF Whole, Proper
<1>13. /\ \A x \in Rows : x # d.row => Seen(new, store, x) = Seen(t, store, x)
       /\ Seen(new, store, d.row) = d.value
       /\ \A x : Awaits(t, x) => Awaits(new, x) \/ x = d.row
  BY <1>2, <1>4, <1>7, <1>8 DEF Seen, Awaits
<1>14. \A x \in Rows : t.writes[x] # None => new.writes[x] # None
  BY <1>2, <1>4
<1>15. Covers(new, store)
  <2>1. SUFFICES ASSUME new.then = "commit" PROVE Covers(new, store)
    BY DEF Covers
  <2>2. Head(t.plan) \in {"head", "recompute"} =>
            \/ Awaits(new, RunOf(Head(t.plan), t.head))
            \/ new.writes[RunOf(Head(t.plan), t.head)] # None
    BY <1>1, <1>2, <1>3, <1>4, <1>13, <1>14, <2>1, RowsAre DEF Whole, Covers
  <2>3. Head(t.plan) = "head" =>
            \A n \in Subnets : \/ Awaits(new, SubnetRow(n))
                               \/ Seen(new, store, SubnetRow(n)) # None
    BY <1>2, <1>3, <1>13, <2>1, RowsAre DEF Whole, Covers
  <2>4. Head(t.plan) = "portfolio" /\ t.wallet # None =>
            \E v \in Validators :
                \/ Awaits(new, StakeRow(t.wallet, v))
                \/ Seen(new, store, StakeRow(t.wallet, v)) # None
    BY <1>2, <1>3, <1>13, <2>1, RowsAre, HandlerFields DEF Whole, Covers
  <2> QED BY <1>3, <2>2, <2>3, <2>4 DEF Covers
<1>16. Catalogued(new, store)
  <2>1. SUFFICES ASSUME Head(t.plan) = "catalog", ~t.overtaken, NEW v \in Validators
                 PROVE  \/ Awaits(new, ValidatorRow(v))
                        \/ /\ Seen(new, store, ValidatorRow(v)) = <<new.head, 0>>
                           /\ new.writes[ValidatorRow(v)] # None \/ new.skipped
    BY <1>3 DEF Catalogued
  <2>2. Pending(t) # {}
    BY <1>7
  <2>3. \/ Awaits(t, ValidatorRow(v))
        \/ /\ Seen(t, store, ValidatorRow(v)) = <<t.head, 0>>
           /\ t.writes[ValidatorRow(v)] # None \/ t.skipped
    BY <2>1, <2>2 DEF Whole, Catalogued
  <2>4. ValidatorRow(v) \in Rows
    BY RowsAre
  <2>5. CASE ValidatorRow(v) = d.row
    BY <1>2, <1>3, <1>4, <1>10, <1>13, <2>1, <2>5 DEF Plain
  <2>6. CASE ValidatorRow(v) # d.row
    BY <1>3, <1>4, <1>13, <2>3, <2>4, <2>6
  <2> QED BY <2>5, <2>6
<1>17. Claims(new, store)
  BY <1>2, <1>4 DEF Whole, Claims, d
<1>18. InOrder(new)
  <2>1. SUFFICES ASSUME Head(t.plan) \in Ordered
                 PROVE  /\ \A i, j \in DOMAIN new.todo : i < j =>
                             Place(new.todo[i].row) < Place(new.todo[j].row)
                        /\ \A x \in Rows, e \in Pending(new) :
                             new.writes[x] # None => Place(x) < Place(e.row)
    BY <1>3, <1>5 DEF InOrder
  <2>2. /\ \A i, j \in DOMAIN t.todo : i < j =>
               Place(t.todo[i].row) < Place(t.todo[j].row)
        /\ \A i \in DOMAIN t.todo : Place(d.row) < Place(t.todo[i].row)
        /\ \A x \in Rows, e \in Pending(t) :
               t.writes[x] # None => Place(x) < Place(e.row)
    BY <2>1 DEF Whole, InOrder, d
  <2>3. \A e \in Pending(new) : \E i \in DOMAIN t.todo : e = t.todo[i]
    BY <1>7 DEF ToSet
  <2>4. \A e \in Pending(new) : Place(d.row) < Place(e.row)
    BY <2>2, <2>3
  <2> QED BY <1>3, <1>4, <1>7, <2>2, <2>4
<1> QED BY <1>3, <1>4, <1>6, <1>11, <1>12, <1>15, <1>16, <1>17, <1>18
        DEF Whole, new, d

\* What a SELECT has found is queued.
Queued(t, todo, then, wallet) ==
    [plan |-> t.plan, head |-> t.head, at |-> After(todo, then),
     then |-> then, todo |-> todo, dirty |-> t.dirty, writes |-> t.writes,
     wallet |-> wallet, skipped |-> t.skipped, overtaken |-> t.overtaken]

\* What the queue q has to hold for the job of t, which is to store w.
Serves(t, q, then, w) ==
    /\ \A d \in ToSet(q) : Head(t.plan) \in Plain => d.value = <<t.head, 0>>
    /\ then = "commit" =>
        /\ Head(t.plan) \in {"head", "recompute"} =>
               \E d \in ToSet(q) : d.row = RunOf(Head(t.plan), t.head)
        /\ Head(t.plan) = "head" =>
               \A n \in Subnets : \E d \in ToSet(q) : d.row = SubnetRow(n)
        /\ Head(t.plan) = "portfolio" /\ w # None =>
               \E v \in Validators : \E d \in ToSet(q) : d.row = StakeRow(w, v)
    /\ Head(t.plan) = "catalog" /\ q # <<>> =>
           \A v \in Validators : \E d \in ToSet(q) : d.row = ValidatorRow(v)
    /\ Head(t.plan) \in Ordered =>
           \A i, j \in DOMAIN q : i < j => Place(q[i].row) < Place(q[j].row)

LEMMA QueuedWhole ==
    ASSUME NEW t \in Handlers, NEW store, Whole(t, store),
           t.at \in {"lookup", "list", "wallets"},
           NEW q \in Seq(Writes), NEW then \in {"commit", "wallets"},
           NEW w \in Wallets \cup {None},
           then = "wallets" => Head(t.plan) = "recompute",
           Head(t.plan) # "portfolio" => w = None,
           Serves(t, q, then, w),
           \A d \in ToSet(q) : Own(Queued(t, q, then, w), d.row)
    PROVE  /\ Queued(t, q, then, w) \in Handlers
           /\ Whole(Queued(t, q, then, w), store)
           /\ Queued(t, q, then, w).writes = t.writes
<1> DEFINE new == Queued(t, q, then, w)
<1>1. /\ t.at \notin Ended /\ t.plan \in Remaining /\ t.plan # <<>>
      /\ t.head \in Heads /\ t.todo = <<>>
      /\ t.at # "wallets" => t.writes = Untouched /\ ~t.skipped /\ ~t.overtaken
      /\ t.at = "wallets" => Head(t.plan) = "recompute"
      /\ Head(t.plan) # "portfolio" => t.wallet = None
      /\ Head(t.plan) # "catalog" => ~t.skipped /\ ~t.overtaken
  BY HandlerFields DEF Whole, Fits, Holds, Ended, Writing
<1>2. /\ new.plan = t.plan /\ new.head = t.head /\ new.then = then
      /\ new.todo = q /\ new.writes = t.writes /\ new.at = After(q, then)
      /\ new.wallet = w /\ new.overtaken = t.overtaken
      /\ new.skipped = t.skipped
  BY DEF Queued
<1>3. /\ new.todo = <<>> => new.at = new.then
      /\ new.todo # <<>> => new.at = "rows"
      /\ new.at \in {"rows", "commit", "wallets"}
  BY <1>2, Afters
<1>4. new \in Handlers
  BY <1>1, <1>3, HandlerFields DEF Handlers, Queued
<1>5. \A d \in ToSet(q) : Own(new, d.row)
  OBVIOUS
<1> HIDE DEF new
<1>6. Pending(new) = ToSet(q)
  BY <1>2, <1>3 DEF Pending
<1>7. Fits(new) /\ Holds(new)
  BY <1>1, <1>2, <1>3 DEF Whole, Fits, Holds, Writing, Ended
<1>8. \A x \in Rows : t.writes[x] # None => Head(t.plan) = "recompute"
  BY <1>1, UntouchedTyped
<1>9. Proper(new)
  <2>1. \A x : Own(t, x) /\ Head(t.plan) = "recompute" => Own(new, x)
    BY <1>2 DEF Own
  <2> QED BY <1>2, <1>5, <1>6, <1>8, <2>1 DEF Whole, Proper, Serves
<1>10. Covers(new, store)
  BY <1>2, <1>6 DEF Covers, Awaits, Serves
<1>11. Catalogued(new, store)
  <2>1. CASE Head(t.plan) = "catalog"
    <3>1. new.writes = Untouched /\ ~new.skipped
      BY <1>1, <1>2, <2>1
    <3>2. Pending(new) # {} => q # <<>>
      BY <1>6 DEF ToSet
    <3> QED BY <1>2, <1>6, <2>1, <3>1, <3>2 DEF Catalogued, Awaits, Serves
  <2>2. CASE Head(t.plan) # "catalog"
    BY <1>2, <2>2 DEF Catalogued
  <2> QED BY <2>1, <2>2
<1>12. Claims(new, store)
  BY <1>2 DEF Whole, Claims
<1>13. InOrder(new)
  BY <1>2, <1>3, <1>8 DEF InOrder, Ordered, Serves
<1> QED BY <1>2, <1>4, <1>7, <1>9, <1>10, <1>11, <1>12, <1>13 DEF Whole, new

\* What is written is typed.
LEMMA WriteTyped ==
    ASSUME NEW x \in Rows, NEW h \in Nat, NEW place \in Nat
    PROVE  /\ Write(x, h, place) \in Writes
           /\ Write(x, h, place).row = x
           /\ Write(x, h, place).value = <<h, place>>
BY DEF Write, Writes, Values

\* The sync of a head queues the run and after it the subnets in order.
Seeds == [k \in 1..SubnetLimit |-> Write(SubnetRow(k - 1), 0, 0)]

HeadQueue(t) == <<Write(RunOf("head", t.head), t.head, 0)>> \o Seeds

LEMMA HeadWhole ==
    ASSUME NEW t \in Handlers, NEW store, Whole(t, store), t.at = "lookup",
           Head(t.plan) = "head",
           NEW q, q = HeadQueue(t)
    PROVE  /\ q # <<>>
           /\ Queued(t, q, "commit", t.wallet) \in Handlers
           /\ Whole(Queued(t, q, "commit", t.wallet), store)
           /\ Queued(t, q, "commit", t.wallet).writes = t.writes
<1> DEFINE N == SubnetLimit
           first == Write(RunOf("head", t.head), t.head, 0)
<1>1. /\ t.head \in Heads /\ t.head \in Nat /\ N \in Nat
      /\ t.wallet = None
  BY NumberAssumption DEF Whole, Fits, Holds, Ended
<1>2. \A k \in 1..N : k - 1 \in Subnets /\ SubnetRow(k - 1) \in Rows
  BY <1>1, RowsAre DEF Subnets
<1>3. \A k \in 1..N : /\ Seeds[k] \in Writes /\ Seeds[k].row = SubnetRow(k - 1)
  BY <1>2, WriteTyped DEF Seeds
<1>4. first \in Writes /\ first.row = RunOf("head", t.head)
  BY <1>1, RowsAre, WriteTyped
<1> HIDE DEF first
<1>5. Seeds \in Seq(Writes) /\ Len(Seeds) = N /\ <<first>> \in Seq(Writes)
  <2>1. Seeds \in [1..N -> Writes]
    BY <1>3 DEF Seeds
  <2> QED BY <1>1, <1>4, <2>1, SMT
<1>6. /\ q \in Seq(Writes) /\ Len(q) = N + 1 /\ DOMAIN q = 1..(N + 1)
      /\ q[1] = first /\ \A k \in 1..N : q[k + 1] = Seeds[k]
  <2>1. q = <<first>> \o Seeds
    BY DEF first, HeadQueue
  <2>2. PICK one \in Seq(Writes) : one = <<first>> /\ Len(one) = 1 /\ one[1] = first
    BY <1>5
  <2>3. /\ q \in Seq(Writes) /\ Len(q) = 1 + N
        /\ \A i \in 1..(1 + N) : q[i] = IF i <= 1 THEN one[i] ELSE Seeds[i - 1]
    BY <1>5, <2>1, <2>2, ConcatProperties
  <2>4. \A k \in 1..N : k + 1 \in 1..(1 + N) /\ ~(k + 1 <= 1) /\ (k + 1) - 1 = k
    BY <1>1
  <2>5. DOMAIN q = 1..(N + 1)
    BY <1>1, <2>3, LenProperties
  <2> QED BY <1>1, <2>2, <2>3, <2>4, <2>5
<1>7. \A i \in 1..(N + 1) : i = 1 \/ (i - 1 \in 1..N /\ (i - 1) + 1 = i)
  BY <1>1
<1>8. /\ \A i \in 1..(N + 1) : i # 1 => q[i].row = SubnetRow(i - 2)
      /\ q[1].row = RunOf("head", t.head)
  <2>1. ASSUME NEW i \in 1..(N + 1), i # 1 PROVE q[i].row = SubnetRow(i - 2)
    <3>1. i - 1 \in 1..N /\ (i - 1) + 1 = i /\ (i - 1) - 1 = i - 2
      BY <1>1, <2>1
    <3>2. q[(i - 1) + 1] = Seeds[i - 1] /\ Seeds[i - 1].row = SubnetRow((i - 1) - 1)
      BY <1>3, <1>6, <3>1
    <3> QED BY <3>1, <3>2
  <2> QED BY <1>4, <1>6, <2>1
<1>9. \A i \in 1..(N + 1) : Place(q[i].row) = i - 1
  <2>1. Place(RunOf("head", t.head)) = 0
    BY RowKinds DEF Place
  <2>2. \A n : Place(SubnetRow(n)) = n + 1
    BY RowKinds DEF Place, SubnetRow
  <2>3. \A i \in 1..(N + 1) : (i - 2) + 1 = i - 1
    BY <1>1
  <2> QED BY <1>1, <1>8, <2>1, <2>2, <2>3
<1>10. Serves(t, q, "commit", t.wallet)
  <2>1. q[1] \in ToSet(q)
    BY <1>1, <1>6 DEF ToSet
  <2>2. ASSUME NEW n \in Subnets PROVE \E d \in ToSet(q) : d.row = SubnetRow(n)
    <3>1. n + 2 \in 1..(N + 1) /\ n + 2 # 1 /\ (n + 2) - 2 = n
      BY <1>1 DEF Subnets
    <3>2. q[n + 2].row = SubnetRow(n) /\ q[n + 2] \in ToSet(q)
      BY <1>6, <1>8, <3>1 DEF ToSet
    <3> QED BY <3>2
  <2>3. ASSUME NEW i \in DOMAIN q, NEW j \in DOMAIN q, i < j
        PROVE  Place(q[i].row) < Place(q[j].row)
    <3>1. Place(q[i].row) = i - 1 /\ Place(q[j].row) = j - 1
      BY <1>6, <1>9
    <3>2. i \in 1..(N + 1) /\ j \in 1..(N + 1)
      BY <1>6
    <3>3. i - 1 < j - 1
      <4> HIDE DEF N
      <4> QED BY <1>1, <2>3, <3>2
    <3> QED BY <3>1, <3>3
  <2> QED BY <1>8, <2>1, <2>2, <2>3 DEF Serves, Plain
<1>11. \A d \in ToSet(q) : Own(Queued(t, q, "commit", t.wallet), d.row)
  <2>1. ASSUME NEW i \in DOMAIN q
        PROVE  q[i].row = RunOf("head", t.head) \/ \E n \in Subnets : q[i].row = SubnetRow(n)
    <3>1. CASE i = 1
      BY <1>8, <3>1
    <3>2. CASE i # 1
      <4>1. i \in 1..(N + 1)
        BY <1>6
      <4>2. i - 2 \in Subnets
        BY <1>1, <3>2, <4>1 DEF Subnets
      <4> QED BY <1>8, <3>2, <4>1, <4>2
    <3> QED BY <3>1, <3>2
  <2> QED BY <2>1 DEF ToSet, Own, Queued
<1>12. q # <<>>
  BY <1>1, <1>6
<1> QED BY <1>1, <1>6, <1>10, <1>11, <1>12, QueuedWhole

\* Validators in ascending order are in the order of their rows.
LEMMA PlaceAscends ==
    ASSUME NEW u \in Validators, NEW v \in Validators,
           u[1] < v[1] \/ (u[1] = v[1] /\ u[2] < v[2])
    PROVE  Place(ValidatorRow(u)) < Place(ValidatorRow(v))
<1>1. /\ u[1] \in Nat /\ u[2] \in Nat /\ u[2] < PerSubnet
      /\ v[1] \in Nat /\ v[2] \in Nat /\ v[2] < PerSubnet /\ PerSubnet \in Nat
  BY ValidatorSet, NumberAssumption DEF Subnets
<1>2. /\ Place(ValidatorRow(u)) = u[1] * PerSubnet + u[2]
      /\ Place(ValidatorRow(v)) = v[1] * PerSubnet + v[2]
  BY RowKinds DEF Place, ValidatorRow
<1>3. ASSUME NEW a \in Nat, NEW b \in Nat, NEW m \in Nat, a < b
      PROVE  a * m + m <= b * m
  <2>1. PICK c \in Nat : b = a + 1 + c
    <3>1. b - a - 1 \in Nat /\ b = a + 1 + (b - a - 1)
      BY <1>3
    <3> QED BY <3>1
  <2>2. b * m = a * m + m + c * m /\ c * m \in Nat /\ a * m \in Nat
    BY <1>3, <2>1
  <2> QED BY <1>3, <2>2
<1>4. /\ u[1] * PerSubnet \in Nat /\ v[1] * PerSubnet \in Nat
  BY <1>1
<1>5. CASE u[1] < v[1]
  <2>1. u[1] * PerSubnet + PerSubnet <= v[1] * PerSubnet
    BY <1>1, <1>3, <1>5
  <2> QED BY <1>1, <1>2, <1>4, <2>1
<1>6. CASE u[1] = v[1] /\ u[2] < v[2]
  BY <1>1, <1>2, <1>4, <1>6
<1> QED BY <1>5, <1>6

\* The catalog sync queues all validators in order, or none.
CatalogQueue(t, s) ==
    [k \in DOMAIN s |-> Write(ValidatorRow(s[k]), t.head, 0)]

LEMMA CatalogWhole ==
    ASSUME NEW t \in Handlers, NEW store, Whole(t, store), t.at = "list",
           Head(t.plan) = "catalog", SeededTogether(store),
           NEW s \in SetToSeqs({v \in Validators :
                                  Seen(t, store, SubnetRow(v[1])) # None}),
           Ascending(s),
           NEW q, q = CatalogQueue(t, s)
    PROVE  /\ Queued(t, q, "commit", t.wallet) \in Handlers
           /\ Whole(Queued(t, q, "commit", t.wallet), store)
           /\ Queued(t, q, "commit", t.wallet).writes = t.writes
<1> DEFINE S == {v \in Validators : Seen(t, store, SubnetRow(v[1])) # None}
<1>1. /\ t.head \in Heads /\ t.head \in Nat /\ t.wallet = None
      /\ t.writes = Untouched
  BY NumberAssumption DEF Whole, Fits, Holds, Ended, Writing
<1>2. IsFiniteSet(S)
  BY ValidatorSet, FS_Subset
<1>3. /\ Len(s) \in Nat /\ DOMAIN s = 1..Len(s)
      /\ \A k \in DOMAIN s : s[k] \in S
      /\ \A v \in S : \E k \in DOMAIN s : s[k] = v
  BY <1>2, Selection
<1>4. DOMAIN q = 1..Len(s)
  BY <1>3 DEF CatalogQueue
<1>5. \A k \in DOMAIN q : /\ q[k] \in Writes /\ q[k].row = ValidatorRow(s[k])
                         /\ q[k].value = <<t.head, 0>> /\ s[k] \in Validators
  <2>1. ASSUME NEW k \in DOMAIN q
        PROVE  /\ q[k] = Write(ValidatorRow(s[k]), t.head, 0)
               /\ s[k] \in Validators /\ ValidatorRow(s[k]) \in Rows
    BY <1>3, <1>4, RowsAre DEF CatalogQueue
  <2> QED BY <1>1, <2>1, WriteTyped
<1> HIDE DEF S
<1>6. q \in Seq(Writes)
  <2>1. q = [k \in 1..Len(s) |-> q[k]]
    BY <1>3 DEF CatalogQueue
  <2>2. q \in [1..Len(s) -> Writes]
    BY <1>4, <1>5, <2>1
  <2> QED BY <1>3, <2>2, SMT
<1>7. q # <<>> => S = Validators
  <2>1. SUFFICES ASSUME q # <<>>, NEW u \in Validators PROVE u \in S
    BY DEF S
  <2>2. 1 \in DOMAIN q /\ s[1] \in S
    BY <1>3, <1>4, <1>6, <2>1, Queue
  <2>3. \A n \in Subnets : Seen(t, store, SubnetRow(n)) = store[SubnetRow(n)]
    BY <1>1, RowsAre, UntouchedTyped DEF Seen
  <2>4. s[1] \in Validators /\ store[SubnetRow(s[1][1])] # None
    BY <2>2, <2>3, ValidatorSet DEF S
  <2>5. store[SubnetRow(u[1])] # None
    BY <2>4, ValidatorSet DEF SeededTogether
  <2> QED BY <2>3, <2>5, ValidatorSet DEF S
<1>8. Serves(t, q, "commit", t.wallet)
  <2>1. \A d \in ToSet(q) : d.value = <<t.head, 0>>
    BY <1>5 DEF ToSet
  <2>2. ASSUME q # <<>>, NEW v \in Validators
        PROVE  \E d \in ToSet(q) : d.row = ValidatorRow(v)
    <3>1. PICK k \in DOMAIN s : s[k] = v
      BY <1>3, <1>7, <2>2
    <3>2. q[k] \in ToSet(q) /\ q[k].row = ValidatorRow(v)
      BY <1>3, <1>4, <1>5, <3>1 DEF ToSet
    <3> QED BY <3>2
  <2>3. ASSUME NEW i \in DOMAIN q, NEW j \in DOMAIN q, i < j
        PROVE  Place(q[i].row) < Place(q[j].row)
    <3>1. s[i] \in Validators /\ s[j] \in Validators
      BY <1>5
    <3>2. s[i][1] < s[j][1] \/ (s[i][1] = s[j][1] /\ s[i][2] < s[j][2])
      BY <1>3, <1>4, <2>3 DEF Ascending
    <3>3. Place(ValidatorRow(s[i])) < Place(ValidatorRow(s[j]))
      BY <3>1, <3>2, PlaceAscends
    <3> QED BY <1>5, <3>3
  <2> QED BY <2>1, <2>2, <2>3 DEF Serves
<1>9. \A d \in ToSet(q) : Own(Queued(t, q, "commit", t.wallet), d.row)
  BY <1>5 DEF ToSet, Own, Queued
<1> QED BY <1>1, <1>6, <1>8, <1>9, QueuedWhole

\* The portfolio sync queues stakes of one wallet.
PickedOf(s) == SubSeq(s, 1, IF Picked < Len(s) THEN Picked ELSE Len(s))

PortfolioQueue(t, s, w) ==
    [k \in DOMAIN PickedOf(s) |-> Write(StakeRow(w, PickedOf(s)[k]), t.head, k)]

LEMMA PortfolioWhole ==
    ASSUME NEW t \in Handlers, NEW store, Whole(t, store), t.at = "list",
           Head(t.plan) = "portfolio", NEW w \in Wallets,
           NEW S \in SUBSET Validators, NEW s \in SetToSeqs(S),
           NEW q, q = PortfolioQueue(t, s, w),
           NEW x, x = IF q = <<>> THEN None ELSE w
    PROVE  /\ Queued(t, q, "commit", x) \in Handlers
           /\ Whole(Queued(t, q, "commit", x), store)
           /\ Queued(t, q, "commit", x).writes = t.writes
<1> DEFINE n == IF Picked < Len(s) THEN Picked ELSE Len(s)
           picked == PickedOf(s)
<1>1. t.head \in Heads /\ t.head \in Nat
  BY NumberAssumption DEF Whole, Fits, Ended
<1>2. IsFiniteSet(S)
  BY ValidatorSet, FS_Subset
<1>3. /\ Len(s) \in Nat /\ DOMAIN s = 1..Len(s)
      /\ \A k \in DOMAIN s : s[k] \in S
  BY <1>2, Selection
<1>4. n \in Nat /\ n <= Len(s)
  BY <1>3, NumberAssumption
<1>5. \A k \in 1..n : s[k] \in S
  BY <1>3, <1>4
<1>6. /\ picked \in Seq(S) /\ Len(picked) = n /\ DOMAIN picked = 1..n
      /\ \A k \in 1..n : picked[k] \in S
  <2>1. n \in Int /\ 1 \in Int /\ (IF 1 <= n THEN n - 1 + 1 ELSE 0) = n
    BY <1>4
  <2>2. picked = SubSeq(s, 1, n)
    BY DEF PickedOf
  <2> HIDE DEF n, picked
  <2>3. picked \in Seq(S) /\ Len(picked) = n
    BY <1>5, <2>1, <2>2, SubSeqProperties
  <2>4. DOMAIN picked = 1..n /\ picked \in [1..n -> S]
    BY <2>3, LenProperties
  <2> QED BY <2>3, <2>4
<1> HIDE DEF n
<1>7. DOMAIN q = 1..n
  BY <1>6 DEF PortfolioQueue
<1>8. \A k \in DOMAIN q : /\ q[k] \in Writes /\ picked[k] \in Validators
                         /\ q[k].row = StakeRow(w, picked[k])
  <2>1. ASSUME NEW k \in DOMAIN q
        PROVE  /\ q[k] = Write(StakeRow(w, picked[k]), t.head, k) /\ k \in Nat
               /\ picked[k] \in Validators /\ StakeRow(w, picked[k]) \in Rows
    BY <1>4, <1>6, <1>7, RowsAre DEF PortfolioQueue
  <2> HIDE DEF picked
  <2> QED BY <1>1, <2>1, WriteTyped
<1>9. q \in Seq(Writes)
  <2>1. q = [k \in 1..n |-> q[k]]
    BY <1>6 DEF PortfolioQueue
  <2>2. q \in [1..n -> Writes]
    BY <1>7, <1>8, <2>1
  <2> QED BY <1>4, <2>2, SMT
<1>10. x \in Wallets \cup {None} /\ x # None => q # <<>> /\ x = w
  OBVIOUS
<1>11. Serves(t, q, "commit", x)
  <2>1. ASSUME x # None
        PROVE  \E v \in Validators : \E d \in ToSet(q) : d.row = StakeRow(x, v)
    <3>1. q # <<>> /\ x = w
      BY <2>1
    <3>2. 1 \in DOMAIN q
      BY <1>9, <3>1, Queue
    <3> QED BY <1>8, <3>1, <3>2 DEF ToSet
  <2> QED BY <2>1 DEF Serves, Plain, Ordered
<1>12. \A d \in ToSet(q) : Own(Queued(t, q, "commit", x), d.row)
  <2>1. ASSUME NEW k \in DOMAIN q PROVE Own(Queued(t, q, "commit", x), q[k].row)
    <3>1. q # <<>>
      BY <1>9, <2>1
    <3> QED BY <1>8, <3>1 DEF Own, Queued
  <2> QED BY <2>1 DEF ToSet
<1> QED BY <1>9, <1>10, <1>11, <1>12, QueuedWhole

\* The recompute queues the rollups of the validators it has found.
ScoresQueue(t, s) == [k \in DOMAIN s |-> Write(RollupRow(s[k]), t.head, 0)]

LEMMA ScoresWhole ==
    ASSUME NEW t \in Handlers, NEW store, Whole(t, store), t.at = "list",
           Head(t.plan) = "recompute",
           NEW S \in SUBSET Validators, NEW s \in SetToSeqs(S),
           NEW q, q = ScoresQueue(t, s)
    PROVE  /\ Queued(t, q, "wallets", t.wallet) \in Handlers
           /\ Whole(Queued(t, q, "wallets", t.wallet), store)
           /\ Queued(t, q, "wallets", t.wallet).writes = t.writes
<1>1. t.head \in Heads /\ t.head \in Nat /\ t.wallet = None
  BY NumberAssumption DEF Whole, Fits, Holds, Ended
<1>2. IsFiniteSet(S)
  BY ValidatorSet, FS_Subset
<1>3. /\ Len(s) \in Nat /\ DOMAIN s = 1..Len(s)
      /\ \A k \in DOMAIN s : s[k] \in S
  BY <1>2, Selection
<1>4. DOMAIN q = 1..Len(s)
  BY <1>3 DEF ScoresQueue
<1>5. \A k \in DOMAIN q : /\ q[k] \in Writes /\ q[k].row = RollupRow(s[k])
                         /\ q[k].value = <<t.head, 0>> /\ s[k] \in Validators
  <2>1. ASSUME NEW k \in DOMAIN q
        PROVE  /\ q[k] = Write(RollupRow(s[k]), t.head, 0)
               /\ s[k] \in Validators /\ RollupRow(s[k]) \in Rows
    BY <1>3, <1>4, RowsAre DEF ScoresQueue
  <2> QED BY <1>1, <2>1, WriteTyped
<1>6. q \in Seq(Writes)
  <2>1. q = [k \in 1..Len(s) |-> q[k]]
    BY <1>3 DEF ScoresQueue
  <2>2. q \in [1..Len(s) -> Writes]
    BY <1>4, <1>5, <2>1
  <2> QED BY <1>3, <2>2, SMT
<1>7. Serves(t, q, "wallets", t.wallet)
  BY <1>5 DEF ToSet, Serves, Ordered
<1>8. \A d \in ToSet(q) : Own(Queued(t, q, "wallets", t.wallet), d.row)
  BY <1>5 DEF ToSet, Own, Queued
<1> QED BY <1>1, <1>6, <1>7, <1>8, QueuedWhole

\* And after them the risks of the wallets, and the run.
RisksQueue(t, s) ==
    Append([k \in DOMAIN s |-> Write(RiskRow(s[k]), t.head, 0)],
           Write(RunOf("recompute", t.head), t.head, 0))

LEMMA RisksWhole ==
    ASSUME NEW t \in Handlers, NEW store, Whole(t, store), t.at = "wallets",
           NEW S \in SUBSET Wallets, NEW s \in SetToSeqs(S),
           NEW q, q = RisksQueue(t, s)
    PROVE  /\ q # <<>>
           /\ Queued(t, q, "commit", t.wallet) \in Handlers
           /\ Whole(Queued(t, q, "commit", t.wallet), store)
           /\ Queued(t, q, "commit", t.wallet).writes = t.writes
<1> DEFINE risks == [k \in DOMAIN s |-> Write(RiskRow(s[k]), t.head, 0)]
           run == Write(RunOf("recompute", t.head), t.head, 0)
<1>1. /\ t.head \in Heads /\ t.head \in Nat /\ t.wallet = None
      /\ Head(t.plan) = "recompute"
  BY NumberAssumption DEF Whole, Fits, Holds, Ended
<1>2. IsFiniteSet(S)
  BY FiniteAssumption, FS_Subset
<1>3. /\ Len(s) \in Nat /\ DOMAIN s = 1..Len(s)
      /\ \A k \in DOMAIN s : s[k] \in S
  BY <1>2, Selection
<1>4. DOMAIN risks = 1..Len(s)
  BY <1>3
<1>5. \A k \in DOMAIN risks :
         /\ risks[k] \in Writes /\ risks[k].row = RiskRow(s[k])
         /\ risks[k].value = <<t.head, 0>> /\ s[k] \in Wallets
  <2>1. ASSUME NEW k \in DOMAIN risks
        PROVE  /\ risks[k] = Write(RiskRow(s[k]), t.head, 0)
               /\ s[k] \in Wallets /\ RiskRow(s[k]) \in Rows
    BY <1>3, <1>4, RowsAre
  <2> HIDE DEF risks
  <2> QED BY <1>1, <2>1, WriteTyped
<1>6. /\ run \in Writes /\ run.row = RunOf("recompute", t.head)
      /\ run.value = <<t.head, 0>>
  BY <1>1, RowsAre, WriteTyped
<1>7. q = Append(risks, run)
  BY DEF RisksQueue
<1>8. risks = [k \in 1..Len(s) |-> risks[k]]
  BY <1>3
<1> HIDE DEF risks, run
<1>9. risks \in Seq(Writes) /\ Len(risks) = Len(s)
  <2>1. risks \in [1..Len(s) -> Writes]
    BY <1>4, <1>5, <1>8
  <2> QED BY <1>3, <2>1, SMT
<1>10. /\ q \in Seq(Writes) /\ q # <<>> /\ DOMAIN q = 1..(Len(s) + 1)
       /\ q[Len(s) + 1] = run /\ \A k \in 1..Len(s) : q[k] = risks[k]
  <2>1. /\ q \in Seq(Writes) /\ q # <<>> /\ Len(q) = Len(s) + 1
        /\ q[Len(s) + 1] = run /\ \A k \in 1..Len(s) : q[k] = risks[k]
    BY <1>6, <1>7, <1>9, AppendProperties
  <2> QED BY <2>1, LenProperties
<1>11. \A d \in ToSet(q) : d = run \/ \E k \in DOMAIN risks : d = risks[k]
  <2>1. ASSUME NEW i \in DOMAIN q PROVE q[i] = run \/ \E k \in DOMAIN risks : q[i] = risks[k]
    <3>1. i = Len(s) + 1 \/ i \in 1..Len(s)
      BY <1>3, <1>10
    <3> QED BY <1>4, <1>10, <3>1
  <2> QED BY <2>1 DEF ToSet
<1>12. run \in ToSet(q)
  <2>1. Len(s) + 1 \in DOMAIN q
    BY <1>3, <1>10
  <2> QED BY <1>10, <2>1 DEF ToSet
<1>13. Serves(t, q, "commit", t.wallet)
  BY <1>1, <1>5, <1>6, <1>11, <1>12 DEF Serves, Ordered
<1>14. \A d \in ToSet(q) : Own(Queued(t, q, "commit", t.wallet), d.row)
  BY <1>1, <1>5, <1>6, <1>11 DEF Own, Queued
<1> QED BY <1>1, <1>10, <1>13, <1>14, QueuedWhole

\* What another transaction commits leaves t whole: it grows, does not touch
\* what t has written, and overtakes t if it changes what t has passed over.
Overtake(t, b) ==
    [plan |-> t.plan, head |-> t.head, at |-> t.at, then |-> t.then,
     todo |-> t.todo, dirty |-> t.dirty, writes |-> t.writes,
     wallet |-> t.wallet, skipped |-> t.skipped,
     overtaken |-> (t.overtaken \/ b)]

LEMMA OvertakeWhole ==
    ASSUME NEW t \in Handlers, NEW store, NEW later, Whole(t, store),
           NEW b \in BOOLEAN, b => t.skipped,
           \A x \in Rows : store[x] # None => later[x] # None,
           \A x \in Rows : t.writes[x] # None => later[x] = store[x],
           ~b /\ t.skipped =>
               \A v \in Validators : later[ValidatorRow(v)] = store[ValidatorRow(v)]
    PROVE  /\ Overtake(t, b) \in Handlers /\ Whole(Overtake(t, b), later)
           /\ Overtake(t, b).writes = t.writes
<1> DEFINE new == Overtake(t, b)
<1>1. /\ new.plan = t.plan /\ new.head = t.head /\ new.then = t.then
      /\ new.todo = t.todo /\ new.writes = t.writes /\ new.at = t.at
      /\ new.dirty = t.dirty
      /\ new.wallet = t.wallet /\ new.overtaken = (t.overtaken \/ b)
      /\ new.skipped = t.skipped
  BY DEF Overtake
<1>2. new \in Handlers
  BY HandlerFields DEF Handlers, Overtake
<1> HIDE DEF new
<1>3. Pending(new) = Pending(t) /\ \A x : Awaits(new, x) <=> Awaits(t, x)
  BY <1>1 DEF Pending, Awaits
<1>4. Fits(new) /\ Holds(new) /\ Proper(new)
  BY <1>1, <1>3 DEF Whole, Fits, Holds, Proper, Own
<1>5. /\ \A x \in Rows : Seen(t, store, x) # None => Seen(new, later, x) # None
      /\ \A x \in Rows : t.writes[x] # None => Seen(new, later, x) = Seen(t, store, x)
  BY <1>1 DEF Seen
<1>6. Covers(new, later)
  BY <1>1, <1>3, <1>5, RowsAre, HandlerFields DEF Whole, Covers
<1>7. Catalogued(new, later)
  <2>1. SUFFICES ASSUME new.at \in {"rows", "flush", "commit"},
                        Head(new.plan) = "catalog", ~new.overtaken,
                        new.skipped \/ new.writes # Untouched \/ Pending(new) # {},
                        NEW v \in Validators
                 PROVE  \/ Awaits(new, ValidatorRow(v))
                        \/ /\ Seen(new, later, ValidatorRow(v)) = <<new.head, 0>>
                           /\ new.writes[ValidatorRow(v)] # None \/ new.skipped
    BY DEF Catalogued
  <2>2. \/ Awaits(t, ValidatorRow(v))
        \/ /\ Seen(t, store, ValidatorRow(v)) = <<t.head, 0>>
           /\ t.writes[ValidatorRow(v)] # None \/ t.skipped
    BY <1>1, <1>3, <2>1 DEF Whole, Catalogued
  <2>3. ValidatorRow(v) \in Rows
    BY RowsAre
  <2>4. t.skipped => later[ValidatorRow(v)] = store[ValidatorRow(v)]
    BY <1>1, <2>1
  <2>5. CASE t.writes[ValidatorRow(v)] # None
    BY <1>1, <1>3, <1>5, <2>2, <2>3, <2>5
  <2>6. CASE t.writes[ValidatorRow(v)] = None /\ t.skipped
    BY <1>1, <1>3, <2>2, <2>4, <2>6 DEF Seen
  <2>7. CASE t.writes[ValidatorRow(v)] = None /\ ~t.skipped
    BY <1>3, <2>2, <2>7
  <2> QED BY <2>5, <2>6, <2>7
<1>8. Claims(new, later)
  BY <1>1 DEF Whole, Claims
<1>9. InOrder(new)
  BY <1>1, <1>3 DEF Whole, InOrder
<1> QED BY <1>1, <1>2, <1>4, <1>6, <1>7, <1>8, <1>9 DEF Whole, new

----------------------------------------------------------------------------
(***************************************************************************)
(* The steps.                                                              *)
(***************************************************************************)
\* The requests that have reported this of a run.
By(j, h, how) == {r \in Requests : <<r, j, h, how>> \in answers}

\* RunOnce of a run.
Once(j, h) ==
    IF db[RunOf(j, h)] = None
    THEN By(j, h, "fresh") = {} /\ By(j, h, "reused") = {}
    ELSE Cardinality(By(j, h, "fresh")) = 1

LEMMA RunOnceIs ==
    RunOnce <=> \A j \in {"head", "recompute"}, h \in Heads : Once(j, h)
BY DEF RunOnce, Once, By

\* A request is typed, and whatever is past its fetch has a head.
LEMMA RequestTyped ==
    ASSUME IngestionInv, NEW r \in Requests
    PROVE  /\ txn[r] \in Handlers /\ Whole(txn[r], db)
           /\ txn[r].at \notin Ended => Job(r) \in Jobs
<1>1. txn[r] \in Handlers /\ Whole(txn[r], db)
  BY DEF IngestionInv, TypeOK
<1>2. txn[r].at \notin Ended => Head(txn[r].plan) \in Jobs
  BY <1>1, PlanSteps DEF Whole, Fits
<1> QED BY <1>1, <1>2 DEF Job

LEMMA HeadsAre == None \notin Heads /\ Heads \subseteq Nat
BY NumberAssumption, NoneAssumption

\* A step of one request that neither commits nor writes a row that another
\* has written.
LEMMA LocalStep ==
    ASSUME IngestionInv, NEW r \in Requests, NEW new \in Handlers, Whole(new, db),
           \A x \in Rows : new.writes[x] # None =>
               \A s \in Requests \ {r} : txn[s].writes[x] = None,
           txn' = [txn EXCEPT ![r] = new],
           UNCHANGED <<db, rewards, excused>>,
           \/ answers' = answers
           \/ \E j \in {"head", "recompute"}, h \in Heads :
                 /\ db[RunOf(j, h)] # None
                 /\ answers' = answers \cup {<<r, j, h, "reused">>}
    PROVE  IngestionInv'
<1>1. /\ txn' \in [Requests -> Handlers] /\ txn'[r] = new
      /\ \A s \in Requests \ {r} : txn'[s] = txn[s]
  BY DEF IngestionInv, TypeOK
<1>2. \A s \in Requests : Whole(txn'[s], db')
  BY <1>1 DEF IngestionInv
<1>3. answers' \subseteq Requests \X Jobs \X Heads \X {"fresh", "reused"}
  BY DEF IngestionInv, TypeOK, Jobs
<1>4. TypeOK'
  <2>1. ASSUME NEW s \in Requests, txn'[s].at \notin Ended \cup {"fetch"}
        PROVE  txn'[s].head # None /\ txn'[s].plan # <<>>
    BY <1>2, <2>1, HeadsAre DEF Whole, Fits
  <2> QED BY <1>1, <1>3, <2>1 DEF IngestionInv, TypeOK
<1>5. Exclusive'
  BY <1>1 DEF IngestionInv, Exclusive
<1>6. SeededTogether(db') /\ JobsWhole' /\ OneHead'
  BY DEF IngestionInv, SeededTogether, JobsWhole, OneHead
<1>7. RunOnce'
  <2>1. ASSUME NEW j \in {"head", "recompute"}, NEW h \in Heads
        PROVE  Once(j, h)'
    <3>1. Once(j, h)
      BY RunOnceIs DEF IngestionInv
    <3>2. /\ By(j, h, "fresh")' = By(j, h, "fresh")
          /\ db[RunOf(j, h)] = None => By(j, h, "reused")' = By(j, h, "reused")
      <4>1. CASE answers' = answers
        BY <4>1 DEF By
      <4>2. ASSUME NEW k, NEW g, db[RunOf(k, g)] # None,
                   answers' = answers \cup {<<r, k, g, "reused">>}
            PROVE  /\ By(j, h, "fresh")' = By(j, h, "fresh")
                   /\ db[RunOf(j, h)] = None => By(j, h, "reused")' = By(j, h, "reused")
        <5>1. \A s : <<s, j, h, "fresh">> # <<r, k, g, "reused">>
          OBVIOUS
        <5>2. db[RunOf(j, h)] = None =>
                  \A s : <<s, j, h, "reused">> # <<r, k, g, "reused">>
          BY <4>2
        <5> QED BY <4>2, <5>1, <5>2 DEF By
      <4> QED BY <4>1, <4>2
    <3> QED BY <3>1, <3>2 DEF Once
  <2>2. (\A j \in {"head", "recompute"}, h \in Heads : Once(j, h))'
    BY <2>1
  <2> QED BY <2>2, RunOnceIs, PTL
<1> QED BY <1>2, <1>4, <1>5, <1>6, <1>7 DEF IngestionInv

\* A request that has written nothing gets in nobody's way.
LEMMA QuietStep ==
    ASSUME IngestionInv, NEW r \in Requests, NEW new \in Handlers, Whole(new, db),
           new.writes = Untouched \/ new.writes = txn[r].writes,
           txn' = [txn EXCEPT ![r] = new],
           UNCHANGED <<db, rewards, excused>>,
           \/ answers' = answers
           \/ \E j \in {"head", "recompute"}, h \in Heads :
                 /\ db[RunOf(j, h)] # None
                 /\ answers' = answers \cup {<<r, j, h, "reused">>}
    PROVE  IngestionInv'
<1>1. \A x \in Rows : new.writes[x] # None =>
          \A s \in Requests \ {r} : txn[s].writes[x] = None
  BY UntouchedTyped DEF IngestionInv, Exclusive
<1> QED BY <1>1, LocalStep

\* A request that ends early, or that rolls back to read a run again.
LEMMA EmptiedStep ==
    ASSUME IngestionInv, NEW r \in Requests, txn[r].at \notin Ended,
           NEW a \in {"error", "dead", "reread"},
           a = "reread" => Job(r) = "head" /\ txn[r].head \in Heads,
           txn' = [txn EXCEPT ![r] = Emptied(txn[r], a)],
           UNCHANGED <<db, rewards, answers, excused>>
    PROVE  IngestionInv'
<1> DEFINE new == Emptied(txn[r], a)
<1>1. new \in Handlers /\ Whole(new, db) /\ new.writes = Untouched
  BY RequestTyped, RolledBackWhole DEF Job
<1> HIDE DEF new
<1>2. txn' = [txn EXCEPT ![r] = new]
  BY DEF new
<1> QED BY <1>1, <1>2, QuietStep

LEMMA RaiseStep ==
    ASSUME IngestionInv, NEW r \in Requests, txn[r].at \notin Ended, Raise(r),
           UNCHANGED <<db, rewards, answers, excused>>
    PROVE  IngestionInv'
<1>1. txn \in [Requests -> Handlers] /\ txn[r] \in Handlers
  BY DEF IngestionInv, TypeOK
<1>2. txn' = [txn EXCEPT ![r] = Emptied(txn[r], "error")]
  BY <1>1, RolledBackIs DEF Raise
<1> QED BY <1>2, EmptiedStep

\* The request that finds a run goes on to its next job.
LEMMA ReuseStep ==
    ASSUME IngestionInv, NEW r \in Requests, txn[r].at \in {"lookup", "reread"},
           Exists(r, RunOf(Job(r), txn[r].head)), Reuse(r),
           UNCHANGED <<db, rewards, excused>>
    PROVE  IngestionInv'
<1> DEFINE t == txn[r]
<1>1. /\ txn \in [Requests -> Handlers] /\ t \in Handlers /\ Whole(t, db)
  BY DEF IngestionInv, TypeOK
<1>2. /\ Fits(t) /\ t.plan # <<>> /\ t.head \in Heads /\ t.writes = Untouched
      /\ Job(r) \in {"head", "recompute"}
  BY <1>1 DEF Whole, Fits, Holds, Ended, Writing, Job
<1>3. db[RunOf(Job(r), t.head)] # None
  BY <1>2, RowsAre, UntouchedTyped DEF Exists, Known
<1>4. /\ NextJob(t) \in Handlers /\ Whole(NextJob(t), db)
      /\ NextJob(t).writes = Untouched
  BY <1>1, <1>2, NextJobWhole
<1>5. txn' = [txn EXCEPT ![r] = NextJob(t)]
  BY <1>1 DEF Reuse
<1>6. answers' = answers \cup {<<r, Job(r), t.head, "reused">>}
  BY DEF Reuse
<1> HIDE DEF t
<1> QED BY <1>2, <1>3, <1>4, <1>5, <1>6, QuietStep

LEMMA FetchStep ==
    ASSUME IngestionInv, NEW r \in Requests, Fetch(r)
    PROVE  IngestionInv'
<1>1. txn[r].at = "fetch" /\ txn[r].at \notin Ended
  BY DEF Fetch, Ended
<1>2. /\ txn \in [Requests -> Handlers] /\ txn[r] \in Handlers /\ Whole(txn[r], db)
  BY DEF IngestionInv, TypeOK
<1>3. CASE Raise(r)
  BY <1>1, <1>3, RaiseStep DEF Fetch
<1>4. ASSUME NEW h \in Heads,
             txn' = [txn EXCEPT ![r].head = h, ![r].at = First(Job(r))]
      PROVE  IngestionInv'
  <2>1. PICK new : new = [txn[r] EXCEPT !.head = h, !.at = First(Head(txn[r].plan))]
    OBVIOUS
  <2>2. txn' = [txn EXCEPT ![r] = new]
    BY <1>2, <1>4, <2>1 DEF Job
  <2>3. new \in Handlers /\ Whole(new, db) /\ new.writes = Untouched
    BY <1>1, <1>2, <2>1, FetchWhole, ZenonT(60)
  <2> QED BY <2>2, <2>3, QuietStep DEF Fetch
<1> QED BY <1>3, <1>4 DEF Fetch

LEMMA LookupStep ==
    ASSUME IngestionInv, NEW r \in Requests, Lookup(r)
    PROVE  IngestionInv'
<1> DEFINE t == txn[r]
           run == RunOf(Job(r), t.head)
<1>1. /\ t.at = "lookup" /\ t.at \notin Ended /\ UNCHANGED <<db, rewards, excused>>
  BY DEF Lookup, Ended
<1>2. /\ txn \in [Requests -> Handlers] /\ t \in Handlers /\ Whole(t, db)
      /\ t.plan # <<>> /\ t.head \in Heads
  BY <1>1 DEF IngestionInv, TypeOK, Whole, Fits, Ended
<1>3. CASE Exists(r, run) /\ Reuse(r)
  BY <1>1, <1>3, ReuseStep
<1>4. CASE /\ Job(r) = "head"
           /\ txn' = [txn EXCEPT ![r].at = "rows", ![r].then = "commit",
                                 ![r].todo = HeadQueue(t)]
           /\ UNCHANGED answers
  <2>1. PICK q : q = HeadQueue(t)
    OBVIOUS
  <2>2. /\ q # <<>>
        /\ Queued(t, q, "commit", t.wallet) \in Handlers
        /\ Whole(Queued(t, q, "commit", t.wallet), db)
        /\ Queued(t, q, "commit", t.wallet).writes = t.writes
    BY <1>1, <1>2, <1>4, <2>1, HeadWhole DEF Job
  <2>3. After(q, "commit") = "rows"
    BY <2>2, Afters
  <2>4. PICK new : new = Queued(t, q, "commit", t.wallet)
    OBVIOUS
  <2>5. txn' = [txn EXCEPT ![r] = new]
    <3>1. PICK u : u = [t EXCEPT !.at = "rows", !.then = "commit", !.todo = q]
      OBVIOUS
    <3>2. txn' = [txn EXCEPT ![r] = u]
      BY <1>2, <1>4, <2>1, <3>1
    <3>3. u = [plan |-> t.plan, head |-> t.head, at |-> "rows",
               then |-> "commit", todo |-> q, dirty |-> t.dirty,
               writes |-> t.writes, wallet |-> t.wallet,
               skipped |-> t.skipped, overtaken |-> t.overtaken]
      <4> HIDE <1>4, <2>1
      <4> QED BY <1>2, <3>1 DEF Handlers
    <3>4. u = new
      BY <2>3, <2>4, <3>3 DEF Queued
    <3> QED BY <3>2, <3>4
  <2> QED BY <1>1, <1>4, <2>2, <2>4, <2>5, QuietStep
<1>5. CASE /\ Job(r) = "recompute"
           /\ txn' = [txn EXCEPT ![r].at = "list"]
           /\ UNCHANGED answers
  <2>1. PICK new : new = [t EXCEPT !.at = "list"]
    OBVIOUS
  <2>2. txn' = [txn EXCEPT ![r] = new]
    BY <1>2, <1>5, <2>1
  <2>3. new = [plan |-> t.plan, head |-> t.head, at |-> "list",
               then |-> t.then, todo |-> t.todo, dirty |-> t.dirty,
               writes |-> t.writes, wallet |-> t.wallet, skipped |-> t.skipped,
               overtaken |-> t.overtaken]
    BY <1>2, <2>1 DEF Handlers
  <2>4. new \in Handlers
    BY <1>2, <2>3, HandlerFields DEF Handlers
  <2>5. Fits(new) /\ Holds(new) /\ new.at \notin Writing /\ new.writes = t.writes
    BY <1>1, <1>2, <1>5, <2>3 DEF Whole, Fits, Holds, Writing, Ended, Job
  <2>6. Whole(new, db)
    BY <2>4, <2>5, StillWhole
  <2> QED BY <1>1, <1>5, <2>2, <2>4, <2>5, <2>6, QuietStep
<1> QED BY <1>3, <1>4, <1>5 DEF Lookup, HeadQueue, Seeds

\* A job that goes on to the queue q.
LEMMA QueueStep ==
    ASSUME IngestionInv, NEW r \in Requests, NEW q, NEW then, NEW w,
           NEW new, new = Queued(txn[r], q, then, w),
           new \in Handlers, Whole(new, db), new.writes = txn[r].writes,
           NEW at, at = After(q, then),
           \/ /\ w = txn[r].wallet
              /\ txn' = [txn EXCEPT ![r].todo = q, ![r].then = then, ![r].at = at]
           \/ txn' = [txn EXCEPT ![r].todo = q, ![r].then = then, ![r].at = at,
                                 ![r].wallet = w],
           UNCHANGED <<db, rewards, answers, excused>>
    PROVE  IngestionInv'
<1> DEFINE t == txn[r]
<1>1. txn \in [Requests -> Handlers] /\ t \in Handlers
  BY DEF IngestionInv, TypeOK
<1>2. PICK u : u = [t EXCEPT !.todo = q, !.then = then, !.at = at]
  OBVIOUS
<1>3. PICK v : v = [t EXCEPT !.todo = q, !.then = then, !.at = at, !.wallet = w]
  OBVIOUS
<1>4. \/ w = t.wallet /\ txn' = [txn EXCEPT ![r] = u]
      \/ txn' = [txn EXCEPT ![r] = v]
  BY <1>1, <1>2, <1>3
<1> HIDE DEF t
<1>5. u = [plan |-> t.plan, head |-> t.head, at |-> at, then |-> then,
           todo |-> q, dirty |-> t.dirty, writes |-> t.writes,
           wallet |-> t.wallet, skipped |-> t.skipped,
           overtaken |-> t.overtaken]
  BY <1>1, <1>2 DEF Handlers
<1>6. v = [plan |-> t.plan, head |-> t.head, at |-> at, then |-> then,
           todo |-> q, dirty |-> t.dirty, writes |-> t.writes,
           wallet |-> w, skipped |-> t.skipped,
           overtaken |-> t.overtaken]
  BY <1>1, <1>3 DEF Handlers
<1>7. new = v
  BY <1>6 DEF Queued, t
<1>8. w = t.wallet => new = u
  BY <1>5 DEF Queued, t
<1>9. txn' = [txn EXCEPT ![r] = new]
  BY <1>4, <1>7, <1>8
<1> QED BY <1>9, QuietStep

LEMMA ListStep ==
    ASSUME IngestionInv, NEW r \in Requests, List(r)
    PROVE  IngestionInv'
<1> DEFINE t == txn[r]
<1>1. /\ t \in Handlers /\ Whole(t, db) /\ t.at = "list"
      /\ SeededTogether(db) /\ UNCHANGED <<db, rewards, answers, excused>>
  BY DEF IngestionInv, TypeOK, List
<1>2. ASSUME Job(r) = "catalog", ListCatalog(r) PROVE IngestionInv'
  <2>1. Listed(r) = {v \in Validators : Seen(t, db, SubnetRow(v[1])) # None}
    BY DEF Listed, Exists, Known, Seen
  <2>2. PICK s \in SetToSeqs(Listed(r)) :
           /\ Ascending(s)
           /\ txn' = [txn EXCEPT ![r].todo = CatalogQueue(t, s),
                                 ![r].then = "commit",
                                 ![r].at = After(CatalogQueue(t, s), "commit")]
    BY <1>2 DEF ListCatalog, CatalogQueue
  <2>3. PICK q : q = CatalogQueue(t, s)
    OBVIOUS
  <2>4. PICK new : new = Queued(t, q, "commit", t.wallet)
    OBVIOUS
  <2>5. new \in Handlers /\ Whole(new, db) /\ new.writes = t.writes
    BY <1>1, <1>2, <2>1, <2>2, <2>3, <2>4, CatalogWhole DEF Job
  <2>6. txn' = [txn EXCEPT ![r].todo = q, ![r].then = "commit",
                           ![r].at = After(q, "commit")]
    BY <2>2, <2>3
  <2> QED BY <1>1, <2>4, <2>5, <2>6, QueueStep
<1>3. ASSUME Job(r) = "portfolio", ListPortfolio(r) PROVE IngestionInv'
  <2>1. PICK w \in Wallets, s \in SetToSeqs(Active(r)) :
           txn' = [txn EXCEPT ![r].todo = PortfolioQueue(t, s, w),
                              ![r].then = "commit",
                              ![r].at = After(PortfolioQueue(t, s, w), "commit"),
                              ![r].wallet = IF PortfolioQueue(t, s, w) = <<>>
                                            THEN None ELSE w]
    BY <1>3, ZenonT(60) DEF ListPortfolio, PortfolioQueue, PickedOf
  <2>2. PICK q : q = PortfolioQueue(t, s, w)
    OBVIOUS
  <2>3. PICK x : x = IF q = <<>> THEN None ELSE w
    OBVIOUS
  <2>4. PICK new : new = Queued(t, q, "commit", x)
    OBVIOUS
  <2>5. Active(r) \in SUBSET Validators
    BY DEF Active
  <2>6. new \in Handlers /\ Whole(new, db) /\ new.writes = t.writes
    BY <1>1, <1>3, <2>2, <2>3, <2>4, <2>5, PortfolioWhole DEF Job
  <2>7. txn' = [txn EXCEPT ![r].todo = q, ![r].then = "commit",
                           ![r].at = After(q, "commit"), ![r].wallet = x]
    BY <2>1, <2>2, <2>3
  <2> QED BY <1>1, <2>4, <2>6, <2>7, QueueStep
<1>4. ASSUME Job(r) = "recompute", ListScores(r) PROVE IngestionInv'
  <2>1. PICK s \in SetToSeqs(Active(r)) :
           txn' = [txn EXCEPT ![r].todo = ScoresQueue(t, s), ![r].then = "wallets",
                              ![r].at = After(ScoresQueue(t, s), "wallets")]
    BY <1>4 DEF ListScores, ScoresQueue
  <2>2. PICK q : q = ScoresQueue(t, s)
    OBVIOUS
  <2>3. PICK new : new = Queued(t, q, "wallets", t.wallet)
    OBVIOUS
  <2>4. Active(r) \in SUBSET Validators
    BY DEF Active
  <2>5. new \in Handlers /\ Whole(new, db) /\ new.writes = t.writes
    BY <1>1, <1>4, <2>2, <2>3, <2>4, ScoresWhole DEF Job
  <2>6. txn' = [txn EXCEPT ![r].todo = q, ![r].then = "wallets",
                           ![r].at = After(q, "wallets")]
    BY <2>1, <2>2
  <2> QED BY <1>1, <2>3, <2>5, <2>6, QueueStep
<1> QED BY <1>2, <1>3, <1>4 DEF List

LEMMA WalletsStep ==
    ASSUME IngestionInv, NEW r \in Requests, ListWallets(r)
    PROVE  IngestionInv'
<1> DEFINE t == txn[r]
           S == {w \in Wallets : \E v \in Validators : Exists(r, StakeRow(w, v))}
<1>1. /\ t \in Handlers /\ Whole(t, db) /\ t.at = "wallets"
      /\ UNCHANGED <<db, rewards, answers, excused>>
  BY DEF IngestionInv, TypeOK, ListWallets
<1>2. txn \in [Requests -> Handlers]
  BY DEF IngestionInv, TypeOK
<1>3. PICK s \in SetToSeqs(S) :
         txn' = [txn EXCEPT ![r].at = "rows", ![r].then = "commit",
                            ![r].todo = RisksQueue(t, s)]
  BY DEF ListWallets, RisksQueue
<1>4. PICK q : q = RisksQueue(t, s)
  OBVIOUS
<1>5. PICK new : new = Queued(t, q, "commit", t.wallet)
  OBVIOUS
<1>6. S \in SUBSET Wallets
  OBVIOUS
<1> HIDE DEF S
<1>7. q # <<>> /\ new \in Handlers /\ Whole(new, db) /\ new.writes = t.writes
  BY <1>1, <1>3, <1>4, <1>5, <1>6, RisksWhole
<1>8. After(q, "commit") = "rows"
  BY <1>7, Afters
<1>9. PICK u : u = [t EXCEPT !.at = "rows", !.then = "commit", !.todo = q]
  OBVIOUS
<1>10. txn' = [txn EXCEPT ![r] = u]
  BY <1>2, <1>3, <1>4, <1>9
<1> HIDE DEF t
<1>11. u = [plan |-> t.plan, head |-> t.head, at |-> "rows",
            then |-> "commit", todo |-> q, dirty |-> t.dirty,
            writes |-> t.writes, wallet |-> t.wallet,
            skipped |-> t.skipped, overtaken |-> t.overtaken]
  <2> HIDE <1>3, <1>4
  <2> QED BY <1>1, <1>9 DEF Handlers
<1>12. txn' = [txn EXCEPT ![r] = new]
  BY <1>5, <1>8, <1>10, <1>11 DEF Queued
<1> QED BY <1>1, <1>7, <1>12, QuietStep DEF t

LEMMA VisitStep ==
    ASSUME IngestionInv, NEW r \in Requests, Visit(r)
    PROVE  IngestionInv'
<1> DEFINE t == txn[r]
<1>1. /\ t \in Handlers /\ Whole(t, db) /\ t.at = "rows"
      /\ UNCHANGED <<db, rewards, answers, excused>>
  BY DEF IngestionInv, TypeOK, Visit
<1>2. PICK d : d = Head(t.todo)
  OBVIOUS
<1>3. d \in Writes
  BY <1>1, <1>2, HandlerFields, Queue DEF Whole, Holds
<1> DEFINE fresh == Kind(d.row) = "run" \/ ~Exists(r, d.row)
           same == ~fresh /\ Known(r, d.row) = d.value /\ ~Stamped(d.row)
<1>4. PICK u : u = [t EXCEPT !.todo = Tail(@),
                             !.at = After(Tail(t.todo), t.then),
                             !.skipped = @ \/ Kind(d.row) = "validator"]
  OBVIOUS
<1>5. PICK v : v = [t EXCEPT !.todo = Tail(@), !.at = "flush",
                             !.dirty = [row |-> d.row, value |-> d.value,
                                        fresh |-> fresh]]
  OBVIOUS
<1>6. txn' = [txn EXCEPT ![r] = IF same THEN u ELSE v]
  BY <1>2, <1>4, <1>5 DEF Visit
<1>7. CASE same
  <2>1. u = Passed(t, d)
    BY <1>1, <1>4 DEF Handlers, Passed
  <2>2. d.value # None /\ Seen(t, db, d.row) = d.value /\ Kind(d.row) # "run"
    BY <1>3, <1>7, NoneAssumption DEF Writes, Values, Known, Seen
  <2>3. u \in Handlers /\ Whole(u, db) /\ u.writes = t.writes
    BY <1>1, <1>2, <2>1, <2>2, SkipWhole
  <2>4. txn' = [txn EXCEPT ![r] = u]
    BY <1>6, <1>7
  <2> QED BY <1>1, <2>3, <2>4, QuietStep
<1>8. CASE ~same
  <2>1. PICK f : f = fresh
    OBVIOUS
  <2>2. f \in BOOLEAN /\ (Kind(d.row) = "run" => f)
    BY <2>1
  <2>3. v = Changed(t, d, f)
    BY <1>1, <1>5, <2>1 DEF Handlers, Changed
  <2>4. v \in Handlers /\ Whole(v, db) /\ v.writes = t.writes
    BY <1>1, <1>2, <2>2, <2>3, ChangeWhole
  <2>5. txn' = [txn EXCEPT ![r] = v]
    BY <1>6, <1>8
  <2> QED BY <1>1, <2>4, <2>5, QuietStep
<1> QED BY <1>7, <1>8

LEMMA FlushStep ==
    ASSUME IngestionInv, NEW r \in Requests, Flush(r)
    PROVE  IngestionInv'
<1> DEFINE t == txn[r]
<1>1. /\ t \in Handlers /\ Whole(t, db) /\ t.at = "flush" /\ t.at \notin Ended
      /\ UNCHANGED <<db, rewards, answers, excused>>
      /\ txn \in [Requests -> Handlers]
  BY DEF IngestionInv, TypeOK, Flush, Ended
<1>2. CASE Raise(r)
  BY <1>1, <1>2, RaiseStep
<1>3. CASE /\ t.dirty.row = RunOf("head", t.head)
           /\ txn' = [txn EXCEPT ![r] = [RolledBack(t) EXCEPT !.at = "reread"]]
  <2>1. t.dirty \in Dirty /\ t.head \in Heads
    BY <1>1 DEF Whole, Holds, Fits, Ended
  <2>2. Own(t, t.dirty.row)
    <3>1. [row |-> t.dirty.row, value |-> t.dirty.value] \in Pending(t)
      BY <1>1 DEF Pending
    <3> QED BY <1>1, <3>1 DEF Whole, Proper
  <2>3. Head(t.plan) = "head"
    BY <1>3, <2>2, RowKinds, RowsDiffer DEF Own
  <2>4. txn' = [txn EXCEPT ![r] = Emptied(t, "reread")]
    BY <1>1, <1>3, RolledBackIs
  <2> QED BY <1>1, <2>1, <2>3, <2>4, EmptiedStep DEF Job
<1>4. CASE /\ ~Duplicate(t.dirty)
           /\ txn' = [txn EXCEPT ![r] =
                        [t EXCEPT !.writes[t.dirty.row] = t.dirty.value,
                                  !.dirty = None, !.at = After(t.todo, t.then)]]
  <2>1. PICK u : u = [t EXCEPT !.writes[t.dirty.row] = t.dirty.value,
                               !.dirty = None, !.at = After(t.todo, t.then)]
    OBVIOUS
  <2>2. u = Flushed(t)
    BY <1>1, <2>1 DEF Handlers, Flushed
  <2>3. t.dirty.fresh => db[t.dirty.row] = None
    BY <1>4 DEF Duplicate
  <2>4. /\ u \in Handlers /\ Whole(u, db)
        /\ \A x \in Rows : u.writes[x] # None =>
                             x = t.dirty.row \/ t.writes[x] # None
    BY <1>1, <2>2, <2>3, FlushWhole
  <2>5. \A s \in Requests \ {r} : txn[s].writes[t.dirty.row] = None
    BY <1>1 DEF Flush, WaitsFor
  <2>6. \A x \in Rows : u.writes[x] # None =>
           \A s \in Requests \ {r} : txn[s].writes[x] = None
    BY <2>4, <2>5 DEF IngestionInv, Exclusive
  <2>7. txn' = [txn EXCEPT ![r] = u]
    BY <1>4, <2>1
  <2> QED BY <1>1, <2>4, <2>6, <2>7, LocalStep
<1> QED BY <1>2, <1>3, <1>4 DEF Flush

LEMMA RereadStep ==
    ASSUME IngestionInv, NEW r \in Requests, Reread(r)
    PROVE  IngestionInv'
<1>1. Job(r) = "head"
  BY DEF Reread, IngestionInv, Whole, Fits, Job
<1> QED BY <1>1, ReuseStep DEF Reread

LEMMA CrashStep ==
    ASSUME IngestionInv, NEW r \in Requests, Crash(r)
    PROVE  IngestionInv'
<1>1. txn \in [Requests -> Handlers] /\ txn[r] \in Handlers
  BY DEF IngestionInv, TypeOK
<1>2. txn' = [txn EXCEPT ![r] = Emptied(txn[r], "dead")]
  BY <1>1, RolledBackIs DEF Crash
<1> QED BY <1>2, EmptiedStep DEF Crash

LEMMA AbortStep ==
    ASSUME IngestionInv, NEW r \in Requests, Abort(r)
    PROVE  IngestionInv'
<1>1. txn[r].at = "flush" /\ txn[r].at \notin Ended
  BY DEF Abort, Deadlocked, Ended
<1> QED BY <1>1, RaiseStep DEF Abort

(***************************************************************************)
(* The commit of r.                                                        *)
(***************************************************************************)
\* What r stores: what it has written; all that its job is to store is there.
LEMMA CommitStores ==
    ASSUME IngestionInv, NEW r \in Requests, Commit(r), NEW t, t = txn[r]
    PROVE  /\ t \in Handlers /\ Whole(t, db)
           /\ t.plan # <<>> /\ t.head \in Heads /\ Job(r) \in Jobs
           /\ Job(r) = Head(t.plan)
           /\ db' \in [Rows -> Values \cup {None}]
           /\ \A x \in Rows : db'[x] = Seen(t, db, x)
           /\ \A x \in Rows : db[x] # None => db'[x] # None
           /\ \A x \in Rows : t.writes[x] = None => db'[x] = db[x]
           /\ \A x \in Rows : t.writes[x] # None => Own(t, x)
           /\ Pending(t) = {} /\ t.then = "commit" /\ t.at = "commit"
<1>1. /\ t \in Handlers /\ Whole(t, db) /\ t.at = "commit"
      /\ db' = [x \in Rows |-> Known(r, x)]
      /\ db \in [Rows -> Values \cup {None}]
  BY DEF IngestionInv, TypeOK, Commit
<1>2. \A x \in Rows : Known(r, x) = Seen(t, db, x)
  BY DEF Known, Seen
<1>3. \A x \in Rows : Seen(t, db, x) \in Values \cup {None}
  BY <1>1, HandlerFields DEF Seen
<1>4. /\ db' \in [Rows -> Values \cup {None}]
      /\ \A x \in Rows : db'[x] = Seen(t, db, x)
  BY <1>1, <1>2, <1>3
<1>5. /\ t.plan # <<>> /\ t.head \in Heads /\ t.todo = <<>> /\ t.then = "commit"
      /\ Head(t.plan) \in Jobs
  BY <1>1, PlanSteps DEF Whole, Fits, Holds, Ended
<1>6. Pending(t) = {}
  BY <1>1, <1>5 DEF Pending, ToSet
<1>7. /\ \A x \in Rows : db[x] # None => db'[x] # None
      /\ \A x \in Rows : t.writes[x] = None => db'[x] = db[x]
  BY <1>4 DEF Seen
<1>8. \A x \in Rows : t.writes[x] # None => Own(t, x)
  BY <1>1 DEF Whole, Proper
<1>9. Job(r) = Head(t.plan) /\ Job(r) \in Jobs
  BY <1>5 DEF Job
<1>10. /\ t \in Handlers /\ Whole(t, db)
       /\ t.plan # <<>> /\ t.head \in Heads /\ Job(r) \in Jobs
       /\ Job(r) = Head(t.plan)
       /\ Pending(t) = {} /\ t.then = "commit" /\ t.at = "commit"
  BY <1>1, <1>5, <1>6, <1>9
<1> QED BY <1>4, <1>7, <1>8, <1>10, Zenon

\* Whoever else is there stays whole.
LEMMA CommitTxn ==
    ASSUME IngestionInv, NEW r \in Requests, Commit(r)
    PROVE  /\ txn' \in [Requests -> Handlers]
           /\ \A s \in Requests : Whole(txn'[s], db')
           /\ txn'[r].writes = Untouched
           /\ \A s \in Requests \ {r} : txn'[s].writes = txn[s].writes
<1> DEFINE t == txn[r]
           Lost(s) == s \in Overtaken(r)
<1>1. /\ t \in Handlers /\ Fits(t) /\ t.plan # <<>> /\ t.head \in Heads
  BY CommitStores DEF Whole
<1>2. /\ NextJob(t) \in Handlers /\ Whole(NextJob(t), db')
      /\ NextJob(t).writes = Untouched
  BY <1>1, NextJobWhole
<1>3. txn' = [s \in Requests |->
                IF s = r THEN NextJob(t)
                ELSE [txn[s] EXCEPT !.overtaken = @ \/ Lost(s)]]
  BY DEF Commit
<1>4. ASSUME NEW s \in Requests \ {r}
      PROVE  /\ txn'[s] \in Handlers /\ Whole(txn'[s], db')
             /\ txn'[s].writes = txn[s].writes
  <2>1. PICK b : b = IF Lost(s) THEN TRUE ELSE FALSE
    OBVIOUS
  <2>2. txn[s] \in Handlers /\ Whole(txn[s], db)
    BY RequestTyped
  <2>3. b \in BOOLEAN /\ (b => txn[s].skipped)
    BY <2>1 DEF Overtaken
  <2>4. PICK new : new = [txn[s] EXCEPT !.overtaken = @ \/ b]
    OBVIOUS
  <2>5. new = Overtake(txn[s], b)
    <3> HIDE DEF Lost
    <3> QED BY <2>2, <2>4 DEF Handlers, Overtake
  <2>6. \A x \in Rows : db[x] # None => db'[x] # None
    BY CommitStores
  <2>7. ASSUME NEW x \in Rows, txn[s].writes[x] # None PROVE db'[x] = db[x]
    <3>1. t.writes[x] = None
      BY <2>7 DEF IngestionInv, Exclusive
    <3> QED BY <3>1, CommitStores
  <2>8. ASSUME ~b, txn[s].skipped, NEW v \in Validators
        PROVE  db'[ValidatorRow(v)] = db[ValidatorRow(v)]
    <3>1. Job(r) # "catalog"
      BY <2>1, <2>8 DEF Overtaken
    <3>2. ValidatorRow(v) \in Rows /\ Job(r) = Head(t.plan)
      BY RowsAre, CommitStores
    <3>3. ~Own(t, ValidatorRow(v))
      BY <3>1, <3>2, RowKinds DEF Own
    <3> QED BY <3>2, <3>3, CommitStores
  <2>9. new \in Handlers /\ Whole(new, db') /\ new.writes = txn[s].writes
    BY <2>2, <2>3, <2>5, <2>6, <2>7, <2>8, OvertakeWhole, ZenonT(60)
  <2>10. txn'[s] = new
    <3>1. Lost(s) <=> b
      BY <2>1
    <3> QED BY <1>3, <2>2, <2>4, <3>1 DEF Handlers
  <2> QED BY <2>9, <2>10
<1>5. txn'[r] = NextJob(t) /\ DOMAIN txn' = Requests
  BY <1>3
<1>6. txn' \in [Requests -> Handlers]
  BY <1>2, <1>3, <1>4, <1>5
<1> QED BY <1>2, <1>4, <1>5, <1>6

\* A run is reported once.
LEMMA CommitOnce ==
    ASSUME IngestionInv, NEW r \in Requests, Commit(r)
    PROVE  RunOnce'
<1> DEFINE t == txn[r]
<1>1. /\ t \in Handlers /\ Whole(t, db) /\ Job(r) = Head(t.plan)
      /\ t.head \in Heads /\ Pending(t) = {} /\ t.then = "commit" /\ t.at = "commit"
  BY CommitStores
<1>2. answers' = answers \cup {<<r, Job(r), t.head, "fresh">>}
  BY DEF Commit
<1>3. ASSUME NEW j \in {"head", "recompute"}, NEW h \in Heads
      PROVE  Once(j, h)'
  <2>1. RunOf(j, h) \in Rows /\ Once(j, h)
    BY <1>3, RowsAre, RunOnceIs DEF IngestionInv
  <2>2. CASE Job(r) = j /\ t.head = h
    <3>1. t.writes[RunOf(j, h)] # None
      BY <1>1, <2>2 DEF Whole, Covers, Awaits
    <3>2. db[RunOf(j, h)] = None
      BY <1>1, <2>1, <3>1, RowKinds DEF Whole, Claims
    <3>3. By(j, h, "fresh") = {}
      BY <2>1, <3>2 DEF Once
    <3>4. By(j, h, "fresh")' = {r}
      BY <1>2, <2>2, <3>3 DEF By
    <3>5. db'[RunOf(j, h)] # None
      BY <2>1, <3>1, CommitStores DEF Seen
    <3>6. Cardinality({r}) = 1
      BY FS_Singleton
    <3> QED BY <3>4, <3>5, <3>6 DEF Once
  <2>3. CASE ~(Job(r) = j /\ t.head = h)
    <3>1. ~Own(t, RunOf(j, h))
      BY <1>1, <2>3, RowKinds, RowsDiffer DEF Own
    <3>2. db'[RunOf(j, h)] = db[RunOf(j, h)]
      BY <2>1, <3>1, CommitStores
    <3>3. \A s, how : <<s, j, h, how>> # <<r, Job(r), t.head, "fresh">>
      BY <2>3
    <3>4. \A how : By(j, h, how)' = By(j, h, how)
      BY <1>2, <3>3 DEF By
    <3> QED BY <2>1, <3>2, <3>4 DEF Once
  <2> QED BY <2>2, <2>3
<1>4. (\A j \in {"head", "recompute"}, h \in Heads : Once(j, h))'
  BY <1>3
<1> QED BY <1>4, RunOnceIs, PTL

\* What a job stores is there together.
LEMMA CommitWhole ==
    ASSUME IngestionInv, NEW r \in Requests, Commit(r)
    PROVE  JobsWhole' /\ SeededTogether(db')
<1> DEFINE t == txn[r]
<1>1. /\ t \in Handlers /\ Whole(t, db) /\ Job(r) = Head(t.plan)
      /\ t.head \in Heads /\ Pending(t) = {} /\ t.then = "commit" /\ t.at = "commit"
      /\ \A x : ~Awaits(t, x)
  BY CommitStores DEF Awaits
<1>2. /\ \A x \in Rows : db'[x] = Seen(t, db, x)
      /\ \A x \in Rows : db[x] # None => db'[x] # None
      /\ \A x \in Rows : t.writes[x] = None => db'[x] = db[x]
      /\ \A x \in Rows : t.writes[x] # None => Own(t, x)
  BY CommitStores
<1>3. Head(t.plan) = "head" => \A n \in Subnets : db'[SubnetRow(n)] # None
  BY <1>1, <1>2, RowsAre DEF Whole, Covers
<1>4. SeededTogether(db')
  <2>1. CASE Head(t.plan) = "head"
    BY <1>3, <2>1 DEF SeededTogether
  <2>2. CASE Head(t.plan) # "head"
    <3>1. \A n \in Subnets : ~Own(t, SubnetRow(n))
      BY <2>2, RowKinds DEF Own
    <3>2. \A n \in Subnets : db'[SubnetRow(n)] = db[SubnetRow(n)]
      BY <1>2, <3>1, RowsAre
    <3> QED BY <3>2 DEF IngestionInv, SeededTogether
  <2> QED BY <2>1, <2>2
<1>5. ASSUME NEW h \in Heads, db'[RunOf("head", h)] # None, NEW n \in Subnets
      PROVE  db'[SubnetRow(n)] # None
  <2>1. RunOf("head", h) \in Rows /\ SubnetRow(n) \in Rows
    BY RowsAre
  <2>2. CASE Head(t.plan) = "head"
    BY <1>3, <2>2
  <2>3. CASE Head(t.plan) # "head"
    <3>1. ~Own(t, RunOf("head", h))
      BY <2>3, RowKinds, RowsDiffer DEF Own
    <3>2. db[RunOf("head", h)] # None
      BY <1>2, <1>5, <2>1, <3>1
    <3>3. db[SubnetRow(n)] # None
      BY <3>2 DEF IngestionInv, JobsWhole
    <3> QED BY <1>2, <2>1, <3>3
  <2> QED BY <2>2, <2>3
<1>6. ASSUME NEW w \in Wallets
      PROVE  rewards'[w] > 0 <=> \E v \in Validators : db'[StakeRow(w, v)] # None
  <2>1. /\ rewards[w] \in Nat
        /\ rewards'[w] = IF w = t.wallet THEN rewards[w] + 1 ELSE rewards[w]
    BY DEF IngestionInv, TypeOK, Commit
  <2>2. rewards[w] > 0 <=> \E v \in Validators : db[StakeRow(w, v)] # None
    BY DEF IngestionInv, JobsWhole
  <2>3. CASE w = t.wallet
    <3>1. Head(t.plan) = "portfolio" /\ t.wallet # None
      BY <1>1, <2>3, NoneAssumption DEF Whole, Holds, Ended
    <3>2. \E v \in Validators : Seen(t, db, StakeRow(w, v)) # None
      BY <1>1, <2>3, <3>1 DEF Whole, Covers
    <3>3. \E v \in Validators : db'[StakeRow(w, v)] # None
      BY <1>2, <3>2, RowsAre
    <3> QED BY <2>1, <2>3, <3>3
  <2>4. CASE w # t.wallet
    <3>1. \A v \in Validators : ~Own(t, StakeRow(w, v))
      BY <2>4, RowKinds, RowsDiffer DEF Own
    <3>2. \A v \in Validators : db'[StakeRow(w, v)] = db[StakeRow(w, v)]
      BY <1>2, <3>1, RowsAre
    <3> QED BY <2>1, <2>2, <2>4, <3>2
  <2> QED BY <2>3, <2>4
<1>7. ASSUME NEW w \in Wallets, db'[RiskRow(w)] # None
      PROVE  \E h \in Heads : /\ db'[RiskRow(w)] = <<h, 0>>
                              /\ db'[RunOf("recompute", h)] # None
  <2>1. RiskRow(w) \in Rows
    BY RowsAre
  <2>2. CASE t.writes[RiskRow(w)] # None
    <3>1. Head(t.plan) = "recompute"
      BY <1>2, <2>1, <2>2, RowKinds DEF Own
    <3>2. db'[RiskRow(w)] = <<t.head, 0>>
      BY <1>1, <1>2, <2>1, <2>2, <3>1 DEF Whole, Proper, Plain, Seen
    <3>3. t.writes[RunOf("recompute", t.head)] # None
      BY <1>1, <3>1 DEF Whole, Covers
    <3>4. db'[RunOf("recompute", t.head)] # None
      BY <1>1, <1>2, <3>3, RowsAre DEF Seen
    <3> QED BY <1>1, <3>2, <3>4
  <2>3. CASE t.writes[RiskRow(w)] = None
    <3>1. db'[RiskRow(w)] = db[RiskRow(w)]
      BY <1>2, <2>1, <2>3
    <3>2. PICK h \in Heads : /\ db[RiskRow(w)] = <<h, 0>>
                             /\ db[RunOf("recompute", h)] # None
      BY <1>7, <3>1 DEF IngestionInv, JobsWhole
    <3>3. db'[RunOf("recompute", h)] # None
      BY <1>2, <3>2, RowsAre
    <3> QED BY <3>1, <3>2, <3>3
  <2> QED BY <2>2, <2>3
<1>8. JobsWhole'
  BY <1>5, <1>6, <1>7 DEF JobsWhole
<1> QED BY <1>4, <1>8

\* A catalog sync that is not overtaken leaves all validators at its head.
LEMMA CommitOneHead ==
    ASSUME IngestionInv, NEW r \in Requests, Commit(r)
    PROVE  OneHead'
<1> DEFINE t == txn[r]
<1>1. /\ t \in Handlers /\ Whole(t, db) /\ Job(r) = Head(t.plan)
      /\ Pending(t) = {} /\ t.at = "commit" /\ \A x : ~Awaits(t, x)
  BY CommitStores DEF Awaits
<1>2. /\ \A x \in Rows : db'[x] = Seen(t, db, x)
      /\ \A x \in Rows : t.writes[x] = None => db'[x] = db[x]
      /\ \A x \in Rows : t.writes[x] # None => Own(t, x)
      /\ excused' = IF Job(r) = "catalog" /\ (t.skipped \/ t.writes # Untouched)
                    THEN t.overtaken ELSE excused
  BY CommitStores DEF Commit
<1>3. CASE Job(r) = "catalog" /\ (t.skipped \/ t.writes # Untouched)
  <2>1. CASE t.overtaken
    BY <1>2, <1>3, <2>1 DEF OneHead
  <2>2. CASE ~t.overtaken
    <3>1. \A v \in Validators : Seen(t, db, ValidatorRow(v)) = <<t.head, 0>>
      BY <1>1, <1>3, <2>2 DEF Whole, Catalogued
    <3>2. \A v \in Validators : db'[ValidatorRow(v)] = <<t.head, 0>>
      BY <1>2, <3>1, RowsAre
    <3> QED BY <3>2 DEF OneHead
  <2> QED BY <2>1, <2>2
<1>4. CASE ~(Job(r) = "catalog" /\ (t.skipped \/ t.writes # Untouched))
  <2>1. \A v \in Validators : t.writes[ValidatorRow(v)] = None
    <3>1. CASE Job(r) = "catalog"
      BY <1>4, <3>1, RowsAre, UntouchedTyped
    <3>2. CASE Job(r) # "catalog"
      BY <1>1, <1>2, <3>2, RowsAre, RowKinds DEF Own
    <3> QED BY <3>1, <3>2
  <2>2. \A v \in Validators : db'[ValidatorRow(v)] = db[ValidatorRow(v)]
    BY <1>2, <2>1, RowsAre
  <2>3. excused' = excused
    BY <1>2, <1>4
  <2> QED BY <2>2, <2>3 DEF IngestionInv, OneHead
<1> QED BY <1>3, <1>4

LEMMA CommitStep ==
    ASSUME IngestionInv, NEW r \in Requests, Commit(r)
    PROVE  IngestionInv'
<1>1. /\ txn' \in [Requests -> Handlers]
      /\ \A s \in Requests : Whole(txn'[s], db')
      /\ txn'[r].writes = Untouched
      /\ \A s \in Requests \ {r} : txn'[s].writes = txn[s].writes
  BY CommitTxn
<1>2. Exclusive'
  BY <1>1, UntouchedTyped DEF IngestionInv, Exclusive
<1>3. TypeOK'
  <2>1. /\ db' \in [Rows -> Values \cup {None}]
        /\ Job(r) \in Jobs /\ txn[r].head \in Heads
        /\ txn[r] \in Handlers
    BY CommitStores
  <2>2. rewards' \in [Wallets -> Nat]
    BY DEF Commit, IngestionInv, TypeOK
  <2>3. answers' \subseteq Requests \X Jobs \X Heads \X {"fresh", "reused"}
    BY <2>1 DEF Commit, IngestionInv, TypeOK
  <2>4. excused' \in BOOLEAN
    BY <2>1, HandlerFields DEF Commit, IngestionInv, TypeOK
  <2>5. ASSUME NEW s \in Requests, txn'[s].at \notin Ended \cup {"fetch"}
        PROVE  txn'[s].head # None /\ txn'[s].plan # <<>>
    BY <1>1, <2>5, HeadsAre DEF Whole, Fits
  <2> QED BY <1>1, <2>1, <2>2, <2>3, <2>4, <2>5 DEF TypeOK
<1> QED BY <1>1, <1>2, <1>3, CommitOnce, CommitWhole, CommitOneHead
        DEF IngestionInv

----------------------------------------------------------------------------
\* A request that has yet to begin is whole.
LEMMA BegunWhole ==
    ASSUME NEW plan \in AllPlans, NEW store
    PROVE  /\ Begun(plan) \in Handlers /\ Whole(Begun(plan), store)
           /\ Begun(plan).writes = Untouched
           /\ Begun(plan).at \in {"done", "fetch"}
<1> DEFINE t == Begun(plan)
<1>1. plan \in Remaining /\ plan \in Seq(Jobs)
  BY PlanSteps DEF Remaining
<1>2. /\ t.plan = plan /\ t.head = None /\ t.then = "commit" /\ t.todo = <<>>
      /\ t.writes = Untouched /\ t.wallet = None
      /\ t.skipped = FALSE /\ t.overtaken = FALSE
      /\ t.at = IF plan = <<>> THEN "done" ELSE "fetch"
  BY DEF Begun
<1>3. t \in Handlers
  BY <1>1, UntouchedTyped DEF Begun, Handlers, Ended
<1> HIDE DEF t
<1>4. Fits(t) /\ Holds(t) /\ t.at \notin Writing
  BY <1>1, <1>2 DEF Fits, Holds, Writing, Ended
<1> QED BY <1>2, <1>3, <1>4, StillWhole DEF t

\* The invariant holds at first.
LEMMA IngestionStart == Init => IngestionInv
<1> SUFFICES ASSUME Init PROVE IngestionInv
  OBVIOUS
<1>1. PICK plans \in Plans : txn = [r \in Requests |-> Begun(plans[r])]
  BY DEF Init
<1>2. \A r \in Requests : plans[r] \in AllPlans /\ txn[r] = Begun(plans[r])
  BY <1>1, PlanAssumption
<1>3. /\ db = Untouched /\ rewards = [w \in Wallets |-> 0]
      /\ answers = {} /\ excused = FALSE
  BY DEF Init
<1>4. \A r \in Requests : /\ txn[r] \in Handlers /\ Whole(txn[r], db)
                         /\ txn[r].writes = Untouched
                         /\ txn[r].at \in {"done", "fetch"}
  BY <1>2, BegunWhole
<1>5. TypeOK
  BY <1>1, <1>3, <1>4, UntouchedTyped DEF TypeOK, Ended
<1>6. \A x \in Rows : db[x] = None
  BY <1>3, UntouchedTyped
<1>7. Exclusive
  BY <1>4, UntouchedTyped DEF Exclusive
<1>8. RunOnce
  BY <1>3, <1>6, RowsAre DEF RunOnce
<1>9. JobsWhole /\ SeededTogether(db) /\ OneHead
  BY <1>3, <1>6, RowsAre DEF JobsWhole, SeededTogether, OneHead
<1> QED BY <1>4, <1>5, <1>7, <1>8, <1>9 DEF IngestionInv

\* Every step keeps it.
LEMMA IngestionNext == IngestionInv /\ [Next]_vars => IngestionInv'
<1> SUFFICES ASSUME IngestionInv, [Next]_vars PROVE IngestionInv'
  OBVIOUS
<1>1. ASSUME NEW r \in Requests, Continue(r) PROVE IngestionInv'
  BY <1>1, FetchStep, LookupStep, ListStep, WalletsStep, VisitStep, FlushStep,
     RereadStep, CommitStep, AbortStep DEF Continue
<1>2. ASSUME NEW r \in Requests, Crash(r) PROVE IngestionInv'
  BY <1>2, CrashStep
<1>3. CASE UNCHANGED vars
  <2>1. UNCHANGED <<db, rewards, txn, answers, excused>>
    BY <1>3 DEF vars
  <2>2. TypeOK' /\ Exclusive' /\ JobsWhole' /\ OneHead'
    BY <2>1 DEF IngestionInv, TypeOK, Exclusive, JobsWhole, OneHead
  <2>3. RunOnce'
    BY <2>1 DEF IngestionInv, RunOnce
  <2>4. SeededTogether(db)' /\ (\A r \in Requests : Whole(txn[r], db))'
    BY <2>1 DEF IngestionInv, SeededTogether
  <2> QED BY <2>2, <2>3, <2>4 DEF IngestionInv
<1> QED BY <1>1, <1>2, <1>3 DEF Next

\* Whatever requests sync and recompute at once, fail, die or are ended by
\* the database, the inductive invariant of ingestion holds.
THEOREM IngestionInvariant == Spec => []IngestionInv
BY IngestionStart, IngestionNext, PTL DEF Spec

\* No job leaves a variable outside its type, and a job past its fetch has a
\* head.
THEOREM IngestionTyped == Spec => []TypeOK
BY IngestionInvariant, PTL DEF IngestionInv

\* However many requests sync or recompute one head, it is done once, and
\* whoever reports to reuse a run reuses a committed one.
THEOREM SyncedOnce == Spec => []RunOnce
BY IngestionInvariant, PTL DEF IngestionInv

\* What a job writes is stored together or not at all.
THEOREM StoredWhole == Spec => []JobsWhole
BY IngestionInvariant, PTL DEF IngestionInv

\* After a catalog sync that nobody overtakes all validators are at one head.
THEOREM ValidatorsAtOneHead == Spec => []OneHead
BY IngestionInvariant, PTL DEF IngestionInv

----------------------------------------------------------------------------
(***************************************************************************)
(* Jobs that go through their rows in one order never deadlock: if some    *)
(* waited for each other in a circle, the one that waits for the last row  *)
(* would wait for one that waits for a later row.                          *)
(***************************************************************************)
\* Natural numbers have a least one.
LEMMA Lowest ==
    ASSUME NEW T \in SUBSET Nat, T # {}
    PROVE  \E x \in T : \A y \in T : ~(y < x)
<1> DEFINE R == OpToRel(<, Nat)
<1>1. IsWellFoundedOn(R, Nat)
  BY NatLessThanWellFounded
<1>2. \A x, y \in Nat : y < x => <<y, x>> \in R
  BY DEF OpToRel
<1> HIDE DEF R
<1>3. \E x \in T : \A y \in T : ~(<<y, x>> \in R)
  BY <1>1, WFMin
<1> QED BY <1>2, <1>3

\* Where the order ends.
LastPlace == SubnetLimit * PerSubnet + SubnetLimit + PerSubnet

LEMMA PlaceBounded ==
    ASSUME NEW t, Head(t.plan) \in Ordered, NEW x, Own(t, x)
    PROVE  Place(x) \in 0..LastPlace
<1>1. /\ SubnetLimit \in Nat /\ PerSubnet \in Nat
      /\ SubnetLimit * PerSubnet \in Nat /\ LastPlace \in Nat
  BY NumberAssumption DEF LastPlace
<1>2. CASE \E h : x = RunOf("head", h)
  <2>1. Place(x) = 0
    BY <1>2, RowKinds DEF Place
  <2> QED BY <1>1, <2>1
<1>3. ASSUME NEW n \in Subnets, x = SubnetRow(n)
      PROVE  Place(x) \in 0..LastPlace
  <2>1. Place(x) = n + 1
    BY <1>3 DEF Place, SubnetRow, Kind
  <2> QED BY <1>1, <2>1 DEF Subnets, LastPlace
<1>4. ASSUME NEW v \in Validators, x = ValidatorRow(v)
      PROVE  Place(x) \in 0..LastPlace
  <2>1. v[1] \in 0..(SubnetLimit - 1) /\ v[2] \in 0..(PerSubnet - 1)
    BY ValidatorSet DEF Subnets
  <2>2. Place(x) = v[1] * PerSubnet + v[2]
    BY <1>4 DEF Place, ValidatorRow, Kind
  <2>3. v[1] * PerSubnet \in Nat /\ v[1] * PerSubnet <= SubnetLimit * PerSubnet
    <3>1. PICK d \in Nat : SubnetLimit = v[1] + d
      <4>1. SubnetLimit - v[1] \in Nat /\ SubnetLimit = v[1] + (SubnetLimit - v[1])
        BY <1>1, <2>1
      <4> QED BY <4>1
    <3>2. v[1] \in Nat /\ SubnetLimit * PerSubnet = v[1] * PerSubnet + d * PerSubnet
      BY <1>1, <2>1, <3>1
    <3>3. v[1] * PerSubnet \in Nat /\ d * PerSubnet \in Nat
      BY <1>1, <3>2
    <3> QED BY <3>2, <3>3
  <2> QED BY <1>1, <2>1, <2>2, <2>3 DEF LastPlace
<1> QED BY <1>2, <1>3, <1>4 DEF Own, Ordered

\* Whoever waits for an ordered job does the same job, for an earlier row.
LEMMA WaitsForLater ==
    ASSUME IngestionInv, NEW p \in Requests, NEW o \in Requests,
           WaitsFor(p, o), txn[o].at = "flush", Job(p) \in Ordered
    PROVE  /\ Job(o) = Job(p)
           /\ Place(txn[p].dirty.row) < Place(txn[o].dirty.row)
           /\ Place(txn[p].dirty.row) \in 0..LastPlace
<1> DEFINE x == txn[p].dirty.row
<1>1. Whole(txn[p], db) /\ Whole(txn[o], db)
  BY RequestTyped
<1>2. txn[p].at = "flush" /\ txn[o].writes[x] # None
  BY DEF WaitsFor
<1>3. /\ [row |-> txn[p].dirty.row, value |-> txn[p].dirty.value] \in Pending(txn[p])
      /\ [row |-> txn[o].dirty.row, value |-> txn[o].dirty.value] \in Pending(txn[o])
  BY <1>2 DEF Pending
<1>4. x \in Rows /\ Own(txn[p], x)
  BY <1>1, <1>2, <1>3 DEF Whole, Holds, Proper, Dirty
<1>5. Own(txn[o], x)
  BY <1>1, <1>2, <1>4 DEF Whole, Proper
<1>6. Head(txn[o].plan) = Head(txn[p].plan)
  <2>1. CASE Job(p) = "head"
    BY <1>4, <1>5, <2>1, RowKinds, RowsDiffer DEF Own, Job
  <2>2. CASE Job(p) = "catalog"
    BY <1>4, <1>5, <2>2, RowKinds DEF Own, Job
  <2> QED BY <2>1, <2>2 DEF Ordered
<1>7. Place(x) < Place(txn[o].dirty.row)
  BY <1>1, <1>2, <1>3, <1>4, <1>6 DEF Whole, InOrder, Job
<1>8. Place(x) \in 0..LastPlace
  BY <1>4, PlaceBounded DEF Job
<1> QED BY <1>6, <1>7, <1>8 DEF Job

LEMMA OrderedJobs == IngestionInv => OrderedJobsNeverDeadlock
<1> SUFFICES ASSUME IngestionInv, NEW r \in Requests, Deadlocked(r),
                    Job(r) \notin {"portfolio", "recompute"}
             PROVE  FALSE
  BY DEF OrderedJobsNeverDeadlock
<1>1. PICK D \in SUBSET Requests :
         /\ r \in D
         /\ \A p \in D : \E o \in D : WaitsFor(p, o)
  BY DEF Deadlocked
<1>2. \A p \in D : txn[p].at = "flush"
  BY <1>1 DEF WaitsFor
<1>3. Job(r) \in Ordered
  BY <1>1, <1>2, RequestTyped DEF Ordered, Jobs, Ended
<1> DEFINE H == {p \in D : Job(p) = Job(r)}
           Left(p) == LastPlace - Place(txn[p].dirty.row)
           T == {Left(p) : p \in H}
<1>4. ASSUME NEW p \in H
      PROVE  Left(p) \in Nat /\ \E o \in H : Left(o) < Left(p)
  <2>1. PICK o \in D : WaitsFor(p, o)
    BY <1>1
  <2>2. /\ Job(o) = Job(p)
        /\ Place(txn[p].dirty.row) < Place(txn[o].dirty.row)
        /\ Place(txn[p].dirty.row) \in 0..LastPlace
    BY <1>2, <1>3, <2>1, WaitsForLater
  <2>3. PICK q \in D : WaitsFor(o, q)
    BY <1>1
  <2>4. Place(txn[o].dirty.row) \in 0..LastPlace
    BY <1>2, <1>3, <2>2, <2>3, WaitsForLater
  <2>5. LastPlace \in Nat
    BY NumberAssumption DEF LastPlace
  <2> QED BY <2>2, <2>4, <2>5
<1> HIDE DEF Left
<1>5. T \in SUBSET Nat /\ T # {}
  BY <1>1, <1>4
<1>6. PICK n \in T : \A m \in T : ~(m < n)
  BY <1>5, Lowest
<1>7. PICK p \in H : n = Left(p)
  BY <1>6
<1> QED BY <1>4, <1>6, <1>7

\* Syncs of the chain head and of the catalog never wait for each other in a
\* circle, whatever portfolio syncs and recomputes there are.
THEOREM OrderedNeverDeadlock == Spec => []OrderedJobsNeverDeadlock
BY IngestionInvariant, OrderedJobs, PTL
=============================================================================
