------------------------------- MODULE Premium -------------------------------
(***************************************************************************)
(* Premium: invites that unlock it for a wallet, and alert rules evaluated *)
(* for the wallets that have it (backend/app/services/premium).            *)
(*                                                                         *)
(* Every request does all it does in one READ COMMITTED transaction that   *)
(* is committed at its end: req[q] is that transaction, and what it has    *)
(* written is seen by the others only through the locks it holds.  A       *)
(* redemption holds the row of its invite (FOR UPDATE) and the row of the  *)
(* entitlement it writes; an evaluation holds the keys of the delivery log *)
(* it has inserted, and whoever inserts one of these waits for its end.    *)
(*                                                                         *)
(* The expiry of an invite refuses a redemption before anything is         *)
(* written and an entitlement never expires (valid_until is always NULL).  *)
(* The risk band of a wallet changes at any time: any of its rules may     *)
(* match.                                                                  *)
(***************************************************************************)
EXTENDS Naturals, Sequences, FiniteSets, SequencesExt

CONSTANTS
    Wallets,   \* wallet addresses
    Invites,   \* invite codes
    Limit,     \* Limit[i]: max_redemptions of invite i
    Rules,     \* ids of the alert rules that may be created
    InApp,     \* the rules whose channel is in_app; others deliver nothing yet
    Start,     \* Start[r]: quiet_hours_start_utc of rule r, or None
    End,       \* End[r]: quiet_hours_end_utc of rule r, or None
    Requests,  \* redemptions and evaluations; each is served once
    DayHours,  \* hours in a day
    MaxHour,   \* bound: the clock stops here
    None

ASSUME LimitAssumption == Limit \in [Invites -> Nat]
ASSUME HourAssumption ==
    /\ DayHours \in Nat \ {0}
    /\ MaxHour \in Nat
    /\ Start \in [Rules -> 0..(DayHours - 1) \cup {None}]
    /\ End \in [Rules -> 0..(DayHours - 1) \cup {None}]
ASSUME RuleAssumption == IsFiniteSet(Rules) /\ InApp \subseteq Rules
ASSUME NoneAssumption == None \notin Wallets \cup Invites \cup Nat

VARIABLES
    hour,    \* the clock, in hours
    count,   \* count[i]: the committed redemptions_count of invite i
    plan,    \* plan[w]: the invite of w's entitlement, None without a row
    events,  \* the committed premium_invite_redeemed audit events
    owner,   \* owner[r]: the wallet that created rule r, or None
    log,     \* the committed <<rule, hour>> of alert_delivery_log
    notes,   \* the committed in-app notifications
    req,     \* req[q]: the transaction of request q
    claims   \* history: what evaluations have reported as deduped

vars == <<hour, count, plan, events, owner, log, notes, req, claims>>

----------------------------------------------------------------------------
Idle == [phase |-> "idle", wallet |-> None, invite |-> None, seen |-> 0,
         old |-> None, hour |-> 0, todo |-> <<>>, own |-> {}, skipped |-> {}]

Done == [Idle EXCEPT !.phase = "done"]

Init ==
    /\ hour = 0
    /\ count = [i \in Invites |-> 0]
    /\ plan = [w \in Wallets |-> None]
    /\ events = {}
    /\ owner = [r \in Rules |-> None]
    /\ log = {}
    /\ notes = {}
    /\ req = [q \in Requests |-> Idle]
    /\ claims = {}

----------------------------------------------------------------------------
Tick ==
    /\ hour < MaxHour
    /\ hour' = hour + 1
    /\ UNCHANGED <<count, plan, events, owner, log, notes, req, claims>>

\* require_premium_scoped_wallet
Premium(w) == plan[w] # None

\* POST alert-rules: one insert and its commit.
CreateRule(w, r) ==
    /\ Premium(w)
    /\ owner[r] = None
    /\ owner' = [owner EXCEPT ![r] = w]
    /\ UNCHANGED <<hour, count, plan, events, log, notes, req, claims>>

----------------------------------------------------------------------------
(***************************************************************************)
(* POST redeem-invite.                                                     *)
(***************************************************************************)
Redeem(q, w, i) ==
    /\ req[q].phase = "idle"
    /\ req' = [req EXCEPT ![q] = [Idle EXCEPT !.phase = "locking",
                                              !.wallet = w, !.invite = i]]
    /\ UNCHANGED <<hour, count, plan, events, owner, log, notes, claims>>

HoldsInvite(p, i) ==
    req[p].phase \in {"locked", "writing", "written"} /\ req[p].invite = i

\* Mutated forms of LockInvite: FOR UPDATE is missing; one redemption too many.
ReadInvite(q) ==
    LET i == req[q].invite
    IN  /\ req[q].phase = "locking"
        /\ req' = [req EXCEPT ![q] =
                     IF count[i] >= Limit[i]
                     THEN Done
                     ELSE [@ EXCEPT !.phase = "locked", !.seen = count[i]]]
        /\ UNCHANGED <<hour, count, plan, events, owner, log, notes, claims>>

LockInviteOffByOne(q) ==
    LET i == req[q].invite
    IN  /\ req[q].phase = "locking"
        /\ ~\E p \in Requests : HoldsInvite(p, i)
        /\ req' = [req EXCEPT ![q] =
                     IF count[i] > Limit[i]
                     THEN Done
                     ELSE [@ EXCEPT !.phase = "locked", !.seen = count[i]]]
        /\ UNCHANGED <<hour, count, plan, events, owner, log, notes, claims>>

\* SELECT ... FOR UPDATE: an invite that is used up is refused.
LockInvite(q) ==
    LET i == req[q].invite
    IN  /\ req[q].phase = "locking"
        /\ ~\E p \in Requests : HoldsInvite(p, i)
        /\ req' = [req EXCEPT ![q] =
                     IF count[i] >= Limit[i]
                     THEN Done
                     ELSE [@ EXCEPT !.phase = "locked", !.seen = count[i]]]
        /\ UNCHANGED <<hour, count, plan, events, owner, log, notes, claims>>

\* session.get of the entitlement decides between INSERT, UPDATE and, when the
\* row is as it should be, neither.
ReadEntitlement(q) ==
    /\ req[q].phase = "locked"
    /\ req' = [req EXCEPT ![q].phase = "writing",
                          ![q].old = plan[req[q].wallet]]
    /\ UNCHANGED <<hour, count, plan, events, owner, log, notes, claims>>

Writes(p) == req[p].old # req[p].invite

HoldsEntitlement(p, w) ==
    req[p].phase = "written" /\ req[p].wallet = w /\ Writes(p)

EntitlementLocked(q) ==
    Writes(q) /\ \E p \in Requests : HoldsEntitlement(p, req[q].wallet)

\* Another redemption has inserted the row since: the primary key.
Duplicate(q) == req[q].old = None /\ Premium(req[q].wallet)

\* Mutated form of WriteEntitlement: a duplicate INSERT is tried again and again.
WriteEntitlementRetrying(q) ==
    /\ req[q].phase = "writing"
    /\ ~Duplicate(q)
    /\ ~EntitlementLocked(q)
    /\ req' = [req EXCEPT ![q].phase = "written"]
    /\ UNCHANGED <<hour, count, plan, events, owner, log, notes, claims>>

\* A duplicate fails the request, and the redemption is rolled back with it.
WriteEntitlement(q) ==
    /\ req[q].phase = "writing"
    /\ \/ /\ Duplicate(q)
          /\ req' = [req EXCEPT ![q] = Done]
       \/ /\ ~Duplicate(q)
          /\ ~EntitlementLocked(q)
          /\ req' = [req EXCEPT ![q].phase = "written"]
    /\ UNCHANGED <<hour, count, plan, events, owner, log, notes, claims>>

\* Count, entitlement and audit event are committed together.
CommitRedeem(q) ==
    LET w == req[q].wallet
        i == req[q].invite
    IN  /\ req[q].phase = "written"
        /\ count' = [count EXCEPT ![i] = req[q].seen + 1]
        /\ plan' = [plan EXCEPT ![w] = IF Writes(q) THEN i ELSE @]
        /\ events' = events \cup {[by |-> q, wallet |-> w, invite |-> i]}
        /\ req' = [req EXCEPT ![q] = Done]
        /\ UNCHANGED <<hour, owner, log, notes, claims>>

----------------------------------------------------------------------------
(***************************************************************************)
(* POST alerts/evaluate.                                                   *)
(***************************************************************************)
\* Mutated form of WithinQuietHours: hours that wrap around midnight are none.
WithinQuietRange(h, start, end) ==
    /\ start # None
    /\ end # None
    /\ start <= h /\ h < end

WithinQuietHours(h, start, end) ==
    /\ start # None
    /\ end # None
    /\ \/ start < end /\ start <= h /\ h < end
       \/ start > end /\ (h >= start \/ h < end)

Quiet(r, time) == WithinQuietHours(time % DayHours, Start[r], End[r])

\* The rules are read, with the risk they are matched with, in the order the
\* database returns them, which is any.
Evaluate(q, w) ==
    /\ req[q].phase = "idle"
    /\ Premium(w)
    /\ \E matching \in SUBSET {r \in Rules : owner[r] = w /\ ~Quiet(r, hour)} :
         \E order \in SetToSeqs(matching) :
            req' = [req EXCEPT ![q] = [Idle EXCEPT !.phase = "evaluating",
                                                   !.wallet = w, !.hour = hour,
                                                   !.todo = order]]
    /\ UNCHANGED <<hour, count, plan, events, owner, log, notes, claims>>

Key(q) == <<Head(req[q].todo), req[q].hour>>

HoldsKey(p, key) == req[p].phase = "evaluating" /\ key \in req[p].own

Skip(q) ==
    req' = [req EXCEPT ![q].todo = Tail(@), ![q].skipped = @ \cup {Key(q)}]

Fire(q) ==
    req' = [req EXCEPT ![q].todo = Tail(@), ![q].own = @ \cup {Key(q)}]

\* Mutated forms of FireRule: whoever holds the key counts as delivered; the
\* log is tested, and the row inserted later.
FireRuleNoWait(q) ==
    /\ req[q].phase = "evaluating"
    /\ req[q].todo # <<>>
    /\ \/ /\ Key(q) \in log \/ \E p \in Requests \ {q} : HoldsKey(p, Key(q))
          /\ Skip(q)
       \/ /\ Key(q) \notin log
          /\ ~\E p \in Requests \ {q} : HoldsKey(p, Key(q))
          /\ Fire(q)
    /\ UNCHANGED <<hour, count, plan, events, owner, log, notes, claims>>

FireRuleUnconstrained(q) ==
    /\ req[q].phase = "evaluating"
    /\ req[q].todo # <<>>
    /\ \/ Key(q) \in log /\ Skip(q)
       \/ Key(q) \notin log /\ Fire(q)
    /\ UNCHANGED <<hour, count, plan, events, owner, log, notes, claims>>

\* INSERT ... ON CONFLICT DO NOTHING: a key that is committed is skipped, one
\* that another evaluation holds is waited for.
FireRule(q) ==
    /\ req[q].phase = "evaluating"
    /\ req[q].todo # <<>>
    /\ ~\E p \in Requests \ {q} : HoldsKey(p, Key(q))
    /\ \/ Key(q) \in log /\ Skip(q)
       \/ Key(q) \notin log /\ Fire(q)
    /\ UNCHANGED <<hour, count, plan, events, owner, log, notes, claims>>

\* Log and notifications are committed together.
CommitEvaluate(q) ==
    /\ req[q].phase = "evaluating"
    /\ req[q].todo = <<>>
    /\ log' = log \cup req[q].own
    /\ notes' = notes \cup {[about |-> key, by |-> q] :
                              key \in {k \in req[q].own : k[1] \in InApp}}
    /\ claims' = claims \cup req[q].skipped
    /\ req' = [req EXCEPT ![q] = Done]
    /\ UNCHANGED <<hour, count, plan, events, owner>>

----------------------------------------------------------------------------
\* The request fails, its client goes away or its process dies: its
\* transaction is rolled back.
Fail(q) ==
    /\ req[q].phase \notin {"idle", "done"}
    /\ req' = [req EXCEPT ![q] = Done]
    /\ UNCHANGED <<hour, count, plan, events, owner, log, notes, claims>>

\* Two evaluations may insert the same keys in opposite orders.
WaitsFor(q, p) ==
    /\ req[q].phase = "evaluating"
    /\ req[q].todo # <<>>
    /\ p # q
    /\ HoldsKey(p, Key(q))

Deadlocked(q) ==
    \E D \in SUBSET Requests :
        /\ q \in D
        /\ \A p \in D : /\ \E o \in D : WaitsFor(p, o)
                        /\ \E o \in D : WaitsFor(o, p)

\* PostgreSQL ends a deadlock by failing one of those in it.
Abort(q) == Deadlocked(q) /\ Fail(q)

----------------------------------------------------------------------------
Continue(q) ==
    \/ LockInvite(q)
    \/ ReadEntitlement(q)
    \/ WriteEntitlement(q)
    \/ CommitRedeem(q)
    \/ FireRule(q)
    \/ CommitEvaluate(q)
    \/ Abort(q)

Next ==
    \/ Tick
    \/ \E w \in Wallets, r \in Rules : CreateRule(w, r)
    \/ \E q \in Requests :
         \/ \E w \in Wallets, i \in Invites : Redeem(q, w, i)
         \/ \E w \in Wallets : Evaluate(q, w)
         \/ Continue(q)
         \/ Fail(q)

Spec == Init /\ [][Next]_vars

\* A handler that has begun goes on as soon as the lock it waits for is free.
FairSpec == Spec /\ \A q \in Requests : WF_vars(Continue(q))

----------------------------------------------------------------------------
(***************************************************************************)
(* Properties.                                                             *)
(***************************************************************************)
Phases == {"idle", "locking", "locked", "writing", "written", "evaluating", "done"}

Stamps == Rules \X (0..MaxHour)

Transactions ==
    [phase : Phases, wallet : Wallets \cup {None}, invite : Invites \cup {None},
     seen : Nat, old : Invites \cup {None}, hour : 0..MaxHour, todo : Seq(Rules),
     own : SUBSET Stamps, skipped : SUBSET Stamps]

\* Every variable has its type, and no invite is used beyond its limit.
TypeOK ==
    /\ hour \in 0..MaxHour
    /\ count \in [Invites -> Nat]
    /\ \A i \in Invites : count[i] <= Limit[i]
    /\ plan \in [Wallets -> Invites \cup {None}]
    /\ events \subseteq [by : Requests, wallet : Wallets, invite : Invites]
    /\ owner \in [Rules -> Wallets \cup {None}]
    /\ log \subseteq Stamps
    /\ notes \subseteq [about : Stamps, by : Requests]
    /\ req \in [Requests -> Transactions]
    /\ claims \subseteq Stamps

\* An invite is charged once for each redemption that was recorded and for
\* nothing else (not for one that failed, was refused, or lost the race for
\* the entitlement row), and a wallet is premium by a recorded redemption.
Charged ==
    /\ \A i \in Invites : count[i] = Cardinality({e \in events : e.invite = i})
    /\ \A w \in Wallets : Premium(w) =>
           [wallet |-> w, invite |-> plan[w]] \in
               {[wallet |-> e.wallet, invite |-> e.invite] : e \in events}

\* However evaluations of a wallet overlap, a rule notifies it at most once
\* an hour.
NotifiedOnce == \A m, n \in notes : m.about = n.about => m = n

\* An alert that is withheld as a duplicate has been delivered: the delivery
\* it duplicates was committed, with its notification if the rule has one.
\* No evaluation relies on another that fails in the end.
DuplicatesDelivered ==
    /\ claims \subseteq log
    /\ {key \in log : key[1] \in InApp} = {n.about : n \in notes}

\* The hours from start to end, counted around the clock.
HoursFrom(start, end) ==
    {(start + k) % DayHours : k \in {k \in 0..(DayHours - 1) :
                                        k < (end + DayHours - start) % DayHours}}

\* No notification is made in the quiet hours of its rule, whether or not
\* they go past midnight.
QuietKept ==
    \A n \in notes :
        LET r == n.about[1]
        IN  Start[r] # None /\ End[r] # None =>
                n.about[2] % DayHours \notin HoursFrom(Start[r], End[r])

\* Every request ends: whoever waits gets the lock, or is told of a deadlock.
EveryRequestEnds ==
    \A q \in Requests : req[q].phase # "idle" ~> req[q].phase = "done"
=============================================================================
