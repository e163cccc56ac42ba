---------------------------- MODULE PremiumProofs ----------------------------
(***************************************************************************)
(* What holds of Premium for any number of wallets, invites, rules and     *)
(* requests: its safety properties.  The inductive invariant PremiumInv    *)
(* adds to them what the locks guarantee: a redemption that holds an       *)
(* invite knows its count, and is alone; a delivery that an evaluation has *)
(* inserted is in nobody else's hands and not committed yet.               *)
(***************************************************************************)
EXTENDS Premium, FiniteSetTheorems, TLAPS

Redeeming == {"locking", "locked", "writing", "written"}

\* A redemption knows its wallet and its invite.
Named ==
    \A q \in Requests : req[q].phase \in Redeeming =>
        req[q].wallet \in Wallets /\ req[q].invite \in Invites

\* The row of an invite that is held is the one its holder has read.
CountCurrent ==
    \A q \in Requests, i \in Invites : HoldsInvite(q, i) =>
        req[q].seen = count[i] /\ count[i] < Limit[i]

InviteExclusive ==
    \A p, q \in Requests, i \in Invites :
        HoldsInvite(p, i) /\ HoldsInvite(q, i) => p = q

\* A delivery that is held is held once and not committed.
KeyExclusive ==
    /\ \A p, q \in Requests, key \in Stamps :
           HoldsKey(p, key) /\ HoldsKey(q, key) => p = q
    /\ \A q \in Requests, key \in Stamps : HoldsKey(q, key) => key \notin log

\* What is skipped is committed; what is in the log is not quiet, nor is what
\* an evaluation has done or will do.
Skipped ==
    \A q \in Requests : req[q].phase = "evaluating" => req[q].skipped \subseteq log

Loud ==
    /\ \A n \in notes : ~Quiet(n.about[1], n.about[2])
    /\ \A q \in Requests : req[q].phase = "evaluating" =>
           /\ \A k \in 1..Len(req[q].todo) : ~Quiet(req[q].todo[k], req[q].hour)
           /\ \A key \in req[q].own : ~Quiet(key[1], key[2])

\* Audit events are finitely many, of requests that have ended.
Recorded ==
    /\ IsFiniteSet(events)
    /\ \A e \in events : req[e.by].phase = "done"

PremiumInv ==
    /\ TypeOK /\ Named /\ CountCurrent /\ InviteExclusive
    /\ KeyExclusive /\ Skipped /\ Loud /\ Recorded
    /\ Charged /\ NotifiedOnce /\ DuplicatesDelivered

----------------------------------------------------------------------------
\* The record new may become the transaction of q, without breaking what the
\* locks guarantee.
Fits(q, new) ==
    /\ new \in Transactions
    /\ new.phase \in Redeeming => new.wallet \in Wallets /\ new.invite \in Invites
    /\ new.phase \in {"locked", "writing", "written"} =>
           /\ new.seen = count[new.invite]
           /\ count[new.invite] < Limit[new.invite]
           /\ \A p \in Requests \ {q} : ~HoldsInvite(p, new.invite)
    /\ new.phase = "evaluating" =>
           /\ \A key \in new.own :
                  /\ key \notin log
                  /\ ~Quiet(key[1], key[2])
                  /\ \A p \in Requests \ {q} : ~HoldsKey(p, key)
           /\ new.skipped \subseteq log
           /\ \A k \in 1..Len(new.todo) : ~Quiet(new.todo[k], new.hour)

LEMMA IdleTyped == Idle \in Transactions /\ Done \in Transactions
<1>1. 0 \in 0..MaxHour
  BY HourAssumption
<1>2. <<>> \in Seq(Rules)
  OBVIOUS
<1> QED BY <1>1, <1>2 DEF Idle, Done, Transactions, Phases

\* A request takes a step that is not seen by the others.
LEMMA PrivateStep ==
    ASSUME PremiumInv, NEW q \in Requests, NEW new, Fits(q, new),
           req' = [req EXCEPT ![q] = new],
           req[q].phase # "done" \/ new.phase = "done",
           UNCHANGED <<hour, count, plan, events, owner, log, notes, claims>>
    PROVE  PremiumInv'
<1>1. /\ req \in [Requests -> Transactions]
      /\ \A p \in Requests : req'[p] = IF p = q THEN new ELSE req[p]
      /\ new \in Transactions
  BY DEF PremiumInv, TypeOK, Fits
<1>2. TypeOK'
  BY <1>1 DEF PremiumInv, TypeOK
<1>3. Named'
  BY <1>1 DEF PremiumInv, Named, Fits
<1>4. CountCurrent' /\ InviteExclusive'
  BY <1>1 DEF PremiumInv, CountCurrent, InviteExclusive, Fits, HoldsInvite
<1>5. KeyExclusive' /\ Skipped'
  BY <1>1 DEF PremiumInv, KeyExclusive, Skipped, Fits, HoldsKey
<1>6. Loud'
  BY <1>1 DEF PremiumInv, Loud, Fits
<1>7. Recorded'
  <2>1. \A e \in events : e.by \in Requests
    BY DEF PremiumInv, TypeOK
  <2> QED BY <1>1, <2>1 DEF PremiumInv, Recorded
<1>8. Charged' /\ NotifiedOnce' /\ DuplicatesDelivered'
  BY DEF PremiumInv, Charged, Premium, NotifiedOnce, DuplicatesDelivered
<1> QED BY <1>2, <1>3, <1>4, <1>5, <1>6, <1>7, <1>8 DEF PremiumInv

\* A request ends without having committed anything.
LEMMA EndingStep ==
    ASSUME PremiumInv, NEW q \in Requests, req' = [req EXCEPT ![q] = Done],
           UNCHANGED <<hour, count, plan, events, owner, log, notes, claims>>
    PROVE  PremiumInv'
<1>1. Done.phase = "done"
  BY DEF Done, Idle
<1>2. Fits(q, Done)
  BY <1>1, IdleTyped DEF Fits, Redeeming
<1> QED BY <1>1, <1>2, PrivateStep

----------------------------------------------------------------------------
LEMMA RedeemKeeps ==
    ASSUME PremiumInv, NEW q \in Requests, NEW w \in Wallets, NEW i \in Invites,
           Redeem(q, w, i)
    PROVE  PremiumInv'
<1> DEFINE new == [Idle EXCEPT !.phase = "locking", !.wallet = w, !.invite = i]
<1>1. new \in Transactions
  BY IdleTyped DEF Transactions, Phases
<1>2. new.phase = "locking" /\ new.wallet = w /\ new.invite = i
  BY DEF Idle
<1>3. Fits(q, new)
  BY <1>1, <1>2 DEF Fits, Redeeming
<1> QED BY <1>3, PrivateStep DEF Redeem

LEMMA LockInviteKeeps ==
    ASSUME PremiumInv, NEW q \in Requests, LockInvite(q)
    PROVE  PremiumInv'
<1> DEFINE i == req[q].invite
           new == [req[q] EXCEPT !.phase = "locked", !.seen = count[i]]
<1>1. req[q] \in Transactions /\ i \in Invites /\ req[q].wallet \in Wallets
  BY DEF PremiumInv, TypeOK, Named, Redeeming, LockInvite
<1>2. CASE count[i] >= Limit[i]
  BY <1>2, EndingStep DEF LockInvite
<1>3. CASE ~(count[i] >= Limit[i])
  <2>1. count[i] \in Nat /\ Limit[i] \in Nat
    BY <1>1, LimitAssumption DEF PremiumInv, TypeOK
  <2>2. /\ new \in Transactions
        /\ new.phase = "locked" /\ new.seen = count[i]
        /\ new.invite = i /\ new.wallet = req[q].wallet
    BY <1>1, <2>1 DEF Transactions, Phases
  <2>3. Fits(q, new)
    <3> HIDE DEF new
    <3> QED BY <1>1, <1>3, <2>1, <2>2 DEF Fits, Redeeming, LockInvite
  <2> QED BY <1>3, <2>3, PrivateStep DEF LockInvite
<1> QED BY <1>2, <1>3

\* The two steps in which a redemption goes on with the invite it holds.
LEMMA HoldingStep ==
    ASSUME PremiumInv, NEW q \in Requests, NEW new \in Transactions,
           HoldsInvite(q, req[q].invite),
           new.phase \in {"writing", "written"}, new.wallet = req[q].wallet,
           new.invite = req[q].invite, new.seen = req[q].seen,
           req' = [req EXCEPT ![q] = new],
           UNCHANGED <<hour, count, plan, events, owner, log, notes, claims>>
    PROVE  PremiumInv'
<1>1. req[q].invite \in Invites /\ req[q].wallet \in Wallets
  BY DEF PremiumInv, Named, Redeeming, HoldsInvite
<1>2. \A p \in Requests \ {q} : ~HoldsInvite(p, new.invite)
  BY <1>1 DEF PremiumInv, InviteExclusive
<1>3. new.seen = count[new.invite] /\ count[new.invite] < Limit[new.invite]
  BY <1>1 DEF PremiumInv, CountCurrent
<1>4. Fits(q, new)
  BY <1>1, <1>2, <1>3 DEF Fits, Redeeming
<1> QED BY <1>4, PrivateStep DEF HoldsInvite

LEMMA ReadEntitlementKeeps ==
    ASSUME PremiumInv, NEW q \in Requests, ReadEntitlement(q)
    PROVE  PremiumInv'
<1> DEFINE new == [req[q] EXCEPT !.phase = "writing", !.old = plan[req[q].wallet]]
<1>1. req[q] \in Transactions /\ req[q].wallet \in Wallets
  BY DEF PremiumInv, TypeOK, Named, Redeeming, ReadEntitlement
<1>2. plan[req[q].wallet] \in Invites \cup {None}
  BY <1>1 DEF PremiumInv, TypeOK
<1>3. /\ new \in Transactions
      /\ new.phase = "writing" /\ new.wallet = req[q].wallet
      /\ new.invite = req[q].invite /\ new.seen = req[q].seen
  BY <1>1, <1>2 DEF Transactions, Phases
<1>4. HoldsInvite(q, req[q].invite)
  BY DEF ReadEntitlement, HoldsInvite
<1>5. /\ req' = [req EXCEPT ![q] = new]
      /\ UNCHANGED <<hour, count, plan, events, owner, log, notes, claims>>
  BY DEF ReadEntitlement
<1> HIDE DEF new
<1> QED BY <1>3, <1>4, <1>5, HoldingStep

LEMMA WriteEntitlementKeeps ==
    ASSUME PremiumInv, NEW q \in Requests, WriteEntitlement(q)
    PROVE  PremiumInv'
<1> DEFINE new == [req[q] EXCEPT !.phase = "written"]
<1>1. CASE Duplicate(q)
  BY <1>1, EndingStep DEF WriteEntitlement
<1>2. CASE ~Duplicate(q)
  <2>1. req[q] \in Transactions
    BY DEF PremiumInv, TypeOK
  <2>2. /\ new \in Transactions
        /\ new.phase = "written" /\ new.wallet = req[q].wallet
        /\ new.invite = req[q].invite /\ new.seen = req[q].seen
    BY <2>1 DEF Transactions, Phases
  <2>3. HoldsInvite(q, req[q].invite)
    BY DEF WriteEntitlement, HoldsInvite
  <2>4. /\ req' = [req EXCEPT ![q] = new]
        /\ UNCHANGED <<hour, count, plan, events, owner, log, notes, claims>>
    BY <1>2 DEF WriteEntitlement
  <2> HIDE DEF new
  <2> QED BY <2>2, <2>3, <2>4, HoldingStep
<1> QED BY <1>1, <1>2

\* One more redemption is recorded, and one more is counted.
LEMMA CommitRedeemCharges ==
    ASSUME PremiumInv, NEW q \in Requests, CommitRedeem(q)
    PROVE  Charged' /\ Recorded'
<1> DEFINE w == req[q].wallet
           i == req[q].invite
           e == [by |-> q, wallet |-> w, invite |-> i]
           Of(j) == {x \in events : x.invite = j}
<1>1. w \in Wallets /\ i \in Invites
  BY DEF PremiumInv, Named, Redeeming, CommitRedeem
<1>2. req[q].seen = count[i] /\ count \in [Invites -> Nat]
  BY <1>1 DEF PremiumInv, TypeOK, CountCurrent, HoldsInvite, CommitRedeem
<1>3. /\ events' = events \cup {e}
      /\ count' = [count EXCEPT ![i] = count[i] + 1]
      /\ req' = [req EXCEPT ![q] = Done]
  BY <1>2 DEF CommitRedeem
<1>4. e \notin events
  <2>1. req[q].phase # "done"
    BY DEF CommitRedeem
  <2> QED BY <2>1 DEF PremiumInv, Recorded
<1>5. e.invite = i /\ e.by = q /\ e.wallet = w
  OBVIOUS
<1>6. Recorded'
  <2>1. IsFiniteSet(events')
    BY <1>3, FS_AddElement DEF PremiumInv, Recorded
  <2>2. Done.phase = "done"
    BY DEF Done, Idle
  <2>3. req \in [Requests -> Transactions] /\ \A x \in events : x.by \in Requests
    BY DEF PremiumInv, TypeOK
  <2>4. \A p \in Requests : req'[p] = IF p = q THEN Done ELSE req[p]
    BY <1>3, <2>3
  <2> HIDE DEF e
  <2>5. ASSUME NEW x \in events' PROVE req'[x.by].phase = "done"
    BY <1>3, <1>5, <2>2, <2>3, <2>4, <2>5 DEF PremiumInv, Recorded
  <2> QED BY <2>1, <2>5 DEF Recorded
<1>7. ASSUME NEW j \in Invites PROVE count'[j] = Cardinality(Of(j))'
  <2>1. IsFiniteSet(Of(j)) /\ count[j] = Cardinality(Of(j))
    BY FS_Subset DEF PremiumInv, Recorded, Charged
  <2>2. CASE j = i
    <3>1. Of(j)' = Of(j) \cup {e}
      BY <1>3, <1>5, <2>2
    <3>2. e \notin Of(j)
      BY <1>4
    <3>3. Cardinality(Of(j) \cup {e}) = Cardinality(Of(j)) + 1
      BY <2>1, <3>2, FS_AddElement
    <3> QED BY <1>1, <1>2, <1>3, <2>1, <2>2, <3>1, <3>3
  <2>3. CASE j # i
    <3>1. Of(j)' = Of(j)
      BY <1>3, <1>5, <2>3
    <3> QED BY <1>2, <1>3, <2>1, <2>3, <3>1
  <2> QED BY <2>2, <2>3
<1>8. ASSUME NEW v \in Wallets, Premium(v)'
      PROVE  [wallet |-> v, invite |-> plan'[v]] \in
                 {[wallet |-> x.wallet, invite |-> x.invite] : x \in events'}
  <2>1. plan \in [Wallets -> Invites \cup {None}]
    BY DEF PremiumInv, TypeOK
  <2>2. CASE v = w /\ plan'[v] = i
    <3>1. e \in events' /\ [wallet |-> v, invite |-> plan'[v]]
                         = [wallet |-> e.wallet, invite |-> e.invite]
      BY <1>3, <1>5, <2>2
    <3> QED BY <3>1
  <2>3. CASE ~(v = w /\ plan'[v] = i)
    <3>1. plan'[v] = plan[v]
      BY <2>1, <2>3 DEF CommitRedeem
    <3>2. [wallet |-> v, invite |-> plan[v]] \in
              {[wallet |-> x.wallet, invite |-> x.invite] : x \in events}
      BY <1>8, <3>1 DEF PremiumInv, Charged, Premium
    <3> QED BY <1>3, <3>1, <3>2
  <2> QED BY <2>2, <2>3
<1> QED BY <1>6, <1>7, <1>8 DEF Charged

\* The others hold other invites, and the limit is not passed.
LEMMA CommitRedeemKeeps ==
    ASSUME PremiumInv, NEW q \in Requests, CommitRedeem(q)
    PROVE  PremiumInv'
<1> DEFINE w == req[q].wallet
           i == req[q].invite
           e == [by |-> q, wallet |-> w, invite |-> i]
<1>1. /\ w \in Wallets /\ i \in Invites /\ HoldsInvite(q, i)
      /\ count \in [Invites -> Nat] /\ Limit \in [Invites -> Nat]
      /\ req \in [Requests -> Transactions]
  BY LimitAssumption
     DEF PremiumInv, TypeOK, Named, Redeeming, CommitRedeem, HoldsInvite
<1>2. req[q].seen = count[i] /\ count[i] < Limit[i]
  BY <1>1 DEF PremiumInv, CountCurrent
<1>3. /\ count' = [count EXCEPT ![i] = count[i] + 1]
      /\ req' = [req EXCEPT ![q] = Done]
      /\ events' = events \cup {e}
      /\ plan' \in {plan, [plan EXCEPT ![w] = i]}
      /\ UNCHANGED <<hour, owner, log, notes, claims>>
  BY <1>1, <1>2 DEF CommitRedeem, PremiumInv, TypeOK
<1>4. /\ \A p \in Requests : req'[p] = IF p = q THEN Done ELSE req[p]
      /\ Done.phase = "done"
  BY <1>1, <1>3 DEF Done, Idle
<1>5. TypeOK'
  <2>1. count' \in [Invites -> Nat] /\ \A j \in Invites : count'[j] <= Limit[j]
    BY <1>1, <1>2, <1>3 DEF PremiumInv, TypeOK
  <2>2. plan' \in [Wallets -> Invites \cup {None}]
    BY <1>1, <1>3 DEF PremiumInv, TypeOK
  <2>3. events' \subseteq [by : Requests, wallet : Wallets, invite : Invites]
    BY <1>1, <1>3 DEF PremiumInv, TypeOK
  <2>4. req' \in [Requests -> Transactions]
    BY <1>1, <1>3, IdleTyped
  <2> QED BY <1>3, <2>1, <2>2, <2>3, <2>4 DEF PremiumInv, TypeOK
<1>6. Named' /\ InviteExclusive' /\ KeyExclusive' /\ Skipped' /\ Loud'
  BY <1>3, <1>4
     DEF PremiumInv, Named, Redeeming, InviteExclusive, HoldsInvite,
         KeyExclusive, HoldsKey, Skipped, Loud
<1>7. CountCurrent'
  <2> SUFFICES ASSUME NEW p \in Requests, NEW j \in Invites, HoldsInvite(p, j)'
               PROVE  req'[p].seen = count'[j] /\ count'[j] < Limit[j]
    BY DEF CountCurrent
  <2>1. p # q /\ req'[p] = req[p] /\ HoldsInvite(p, j)
    BY <1>4 DEF HoldsInvite
  <2>2. j # i
    BY <1>1, <2>1 DEF PremiumInv, InviteExclusive
  <2> QED BY <1>1, <1>3, <2>1, <2>2 DEF PremiumInv, CountCurrent
<1>8. NotifiedOnce' /\ DuplicatesDelivered'
  BY <1>3 DEF PremiumInv, NotifiedOnce, DuplicatesDelivered
<1> QED BY <1>5, <1>6, <1>7, <1>8, CommitRedeemCharges DEF PremiumInv

----------------------------------------------------------------------------
\* The rules of an evaluation are put in some order.
LEMMA EvaluateKeeps ==
    ASSUME PremiumInv, NEW q \in Requests, NEW w \in Wallets, Evaluate(q, w)
    PROVE  PremiumInv'
<1> DEFINE new(order) == [Idle EXCEPT !.phase = "evaluating", !.wallet = w,
                                      !.hour = hour, !.todo = order]
<1>0. PICK matching \in SUBSET {r \in Rules : owner[r] = w /\ ~Quiet(r, hour)} :
         \E order \in SetToSeqs(matching) : req' = [req EXCEPT ![q] = new(order)]
  BY DEF Evaluate
<1>1. PICK order \in SetToSeqs(matching) : req' = [req EXCEPT ![q] = new(order)]
  BY <1>0
<1>2. Cardinality(matching) \in Nat
  BY RuleAssumption, FS_Subset, FS_CardinalityType
<1>3. /\ order \in Seq(Rules)
      /\ \A k \in 1..Len(order) : order[k] \in matching
  BY <1>2 DEF SetToSeqs
<1>4. hour \in 0..MaxHour
  BY DEF PremiumInv, TypeOK
<1>5. new(order) \in Transactions
  BY <1>3, <1>4, IdleTyped DEF Transactions, Phases
<1>6. /\ new(order).phase = "evaluating" /\ new(order).todo = order
      /\ new(order).hour = hour
      /\ new(order).own = {} /\ new(order).skipped = {}
  BY DEF Idle
<1> HIDE DEF new
<1>7. Fits(q, new(order))
  BY <1>3, <1>5, <1>6 DEF Fits, Redeeming
<1> QED BY <1>1, <1>7, PrivateStep DEF Evaluate

\* Whoever inserts a key has found it neither held nor committed.
LEMMA FireRuleKeeps ==
    ASSUME PremiumInv, NEW q \in Requests, FireRule(q)
    PROVE  PremiumInv'
<1> DEFINE t == req[q]
           fired == [t EXCEPT !.todo = Tail(@), !.own = @ \cup {Key(q)}]
           skips == [t EXCEPT !.todo = Tail(@), !.skipped = @ \cup {Key(q)}]
<1>1. t \in Transactions /\ t.phase = "evaluating" /\ t.todo # <<>>
  BY DEF PremiumInv, TypeOK, FireRule
<1>2. t.todo \in Seq(Rules) /\ t.hour \in 0..MaxHour
  BY <1>1 DEF Transactions
<1>3. /\ Head(t.todo) \in Rules /\ Head(t.todo) = t.todo[1]
      /\ Tail(t.todo) \in Seq(Rules)
      /\ 1 \in 1..Len(t.todo) /\ Len(Tail(t.todo)) = Len(t.todo) - 1
      /\ \A k \in 1..Len(Tail(t.todo)) : Tail(t.todo)[k] = t.todo[k + 1]
  BY <1>1, <1>2
<1>4. Key(q) = <<Head(t.todo), t.hour>> /\ Key(q) \in Stamps
  BY <1>2, <1>3 DEF Key, Stamps
<1>5. /\ ~Quiet(Key(q)[1], Key(q)[2])
      /\ \A k \in 1..Len(Tail(t.todo)) : ~Quiet(Tail(t.todo)[k], t.hour)
  <2>1. \A k \in 1..Len(t.todo) : ~Quiet(t.todo[k], t.hour)
    BY <1>1 DEF PremiumInv, Loud
  <2>2. \A k \in 1..Len(Tail(t.todo)) : k + 1 \in 1..Len(t.todo)
    BY <1>2, <1>3
  <2>3. Key(q)[1] = t.todo[1] /\ Key(q)[2] = t.hour
    BY <1>3, <1>4
  <2>4. \A k \in 1..Len(Tail(t.todo)) : ~Quiet(Tail(t.todo)[k], t.hour)
    BY <1>3, <2>1, <2>2
  <2> QED BY <1>3, <2>1, <2>3, <2>4
<1>6. /\ \A p \in Requests \ {q} : ~HoldsKey(p, Key(q))
      /\ t.skipped \subseteq log
      /\ \A key \in t.own : /\ key \notin log
                            /\ ~Quiet(key[1], key[2])
                            /\ \A p \in Requests \ {q} : ~HoldsKey(p, key)
  <2>1. t.own \subseteq Stamps
    BY <1>1 DEF Transactions
  <2>2. \A p \in Requests \ {q} : ~HoldsKey(p, Key(q))
    BY DEF FireRule
  <2>3. t.skipped \subseteq log /\ \A key \in t.own : ~Quiet(key[1], key[2])
    BY <1>1 DEF PremiumInv, Skipped, Loud
  <2>4. \A key \in t.own : key \in Stamps /\ HoldsKey(q, key)
    BY <1>1, <2>1 DEF HoldsKey
  <2>5. \A key \in t.own : /\ key \notin log
                           /\ \A p \in Requests \ {q} : ~HoldsKey(p, key)
    BY <2>4 DEF PremiumInv, KeyExclusive
  <2> QED BY <2>2, <2>3, <2>5
<1>7. CASE Key(q) \in log /\ Skip(q)
  <2>1. /\ skips \in Transactions
        /\ skips.phase = "evaluating" /\ skips.todo = Tail(t.todo)
        /\ skips.own = t.own /\ skips.skipped = t.skipped \cup {Key(q)}
        /\ skips.hour = t.hour
    BY <1>1, <1>3, <1>4 DEF Transactions
  <2>2. req' = [req EXCEPT ![q] = skips]
    BY <1>7 DEF Skip
  <2> HIDE DEF skips
  <2>3. Fits(q, skips)
    BY <1>5, <1>6, <1>7, <2>1 DEF Fits, Redeeming
  <2> QED BY <1>1, <2>2, <2>3, PrivateStep DEF FireRule
<1>8. CASE Key(q) \notin log /\ Fire(q)
  <2>1. /\ fired \in Transactions
        /\ fired.phase = "evaluating" /\ fired.todo = Tail(t.todo)
        /\ fired.own = t.own \cup {Key(q)} /\ fired.skipped = t.skipped
        /\ fired.hour = t.hour
    BY <1>1, <1>3, <1>4 DEF Transactions
  <2>2. req' = [req EXCEPT ![q] = fired]
    BY <1>8 DEF Fire
  <2> HIDE DEF fired
  <2>3. \A key \in fired.own : /\ key \notin log
                               /\ ~Quiet(key[1], key[2])
                               /\ \A p \in Requests \ {q} : ~HoldsKey(p, key)
    BY <1>5, <1>6, <1>8, <2>1
  <2>4. Fits(q, fired)
    BY <1>5, <1>6, <2>1, <2>3 DEF Fits, Redeeming
  <2> QED BY <1>1, <2>2, <2>4, PrivateStep DEF FireRule
<1> QED BY <1>7, <1>8 DEF FireRule

\* The deliveries of an evaluation join the log with their notifications.
LEMMA CommitEvaluateKeeps ==
    ASSUME PremiumInv, NEW q \in Requests, CommitEvaluate(q)
    PROVE  PremiumInv'
<1> DEFINE own == req[q].own
           New == {[about |-> key, by |-> q] : key \in {k \in own : k[1] \in InApp}}
<1>1. /\ req \in [Requests -> Transactions]
      /\ req[q].phase = "evaluating"
      /\ own \subseteq Stamps /\ req[q].skipped \subseteq Stamps
  BY DEF PremiumInv, TypeOK, Transactions, CommitEvaluate
<1>2. /\ log' = log \cup own
      /\ notes' = notes \cup New
      /\ claims' = claims \cup req[q].skipped
      /\ req' = [req EXCEPT ![q] = Done]
      /\ UNCHANGED <<hour, count, plan, events, owner>>
  BY DEF CommitEvaluate
<1>3. /\ \A p \in Requests : req'[p] = IF p = q THEN Done ELSE req[p]
      /\ Done.phase = "done"
  BY <1>1, <1>2 DEF Done, Idle
<1>4. \A key \in own : /\ key \notin log
                       /\ ~Quiet(key[1], key[2])
                       /\ \A p \in Requests \ {q} : ~HoldsKey(p, key)
  <2>1. \A key \in own : key \in Stamps /\ HoldsKey(q, key)
    BY <1>1 DEF HoldsKey
  <2> QED BY <1>1, <2>1 DEF PremiumInv, KeyExclusive, Loud
<1>5. \A n \in New : n.about \in own /\ n.about[1] \in InApp /\ n.by = q
  OBVIOUS
<1>6. ASSUME NEW key \in own, key[1] \in InApp PROVE \E n \in New : n.about = key
  <2>1. [about |-> key, by |-> q] \in New
    BY <1>6
  <2> QED BY <2>1
<1>7. New \subseteq [about : Stamps, by : Requests]
  BY <1>1
<1> HIDE DEF New
<1>8. TypeOK'
  <2>1. req' \in [Requests -> Transactions]
    BY <1>1, <1>2, IdleTyped
  <2> QED BY <1>1, <1>2, <1>7, <2>1 DEF PremiumInv, TypeOK
<1>9. Named' /\ CountCurrent' /\ InviteExclusive' /\ Charged'
  BY <1>2, <1>3
     DEF PremiumInv, Named, Redeeming, CountCurrent, InviteExclusive,
         HoldsInvite, Charged, Premium
<1>10. KeyExclusive' /\ Skipped'
  BY <1>2, <1>3, <1>4 DEF PremiumInv, KeyExclusive, HoldsKey, Skipped
<1>11. Loud'
  BY <1>2, <1>3, <1>4, <1>5 DEF PremiumInv, Loud
<1>12. Recorded'
  <2>1. \A e \in events : e.by \in Requests
    BY DEF PremiumInv, TypeOK
  <2> QED BY <1>2, <1>3, <2>1 DEF PremiumInv, Recorded
<1>13. NotifiedOnce'
  <2>1. \A n \in notes : n.about \in log
    BY DEF PremiumInv, DuplicatesDelivered
  <2>2. \A m, n \in New : m.about = n.about => m = n
    BY <1>7, <1>5
  <2> QED BY <1>2, <1>4, <1>5, <2>1, <2>2 DEF PremiumInv, NotifiedOnce
<1>14. DuplicatesDelivered'
  <2>1. req[q].skipped \subseteq log
    BY <1>1 DEF PremiumInv, Skipped
  <2>2. {key \in log' : key[1] \in InApp} = {n.about : n \in notes'}
    BY <1>2, <1>5, <1>6 DEF PremiumInv, DuplicatesDelivered
  <2> QED BY <1>2, <2>1, <2>2 DEF PremiumInv, DuplicatesDelivered
<1> QED BY <1>8, <1>9, <1>10, <1>11, <1>12, <1>13, <1>14 DEF PremiumInv

----------------------------------------------------------------------------
LEMMA InitHolds == Init => PremiumInv
<1> SUFFICES ASSUME Init PROVE PremiumInv
  OBVIOUS
<1>1. TypeOK
  BY IdleTyped, LimitAssumption, HourAssumption DEF Init, TypeOK
<1>2. \A q \in Requests : req[q].phase = "idle"
  BY DEF Init, Idle
<1>3. /\ Named /\ CountCurrent /\ InviteExclusive
      /\ KeyExclusive /\ Skipped /\ Loud
  BY <1>2 DEF Init, Named, Redeeming, CountCurrent, InviteExclusive, HoldsInvite,
              KeyExclusive, HoldsKey, Skipped, Loud
<1>4. events = {} /\ IsFiniteSet(events) /\ Cardinality(events) = 0
  BY FS_EmptySet DEF Init
<1>5. \A i \in Invites : {e \in events : e.invite = i} = events
  BY <1>4
<1>6. Recorded /\ Charged
  BY <1>4, <1>5 DEF Init, Recorded, Charged, Premium
<1>7. NotifiedOnce /\ DuplicatesDelivered
  BY DEF Init, NotifiedOnce, DuplicatesDelivered
<1> QED BY <1>1, <1>3, <1>6, <1>7 DEF PremiumInv

\* The steps that touch no request.
LEMMA OutsideStep ==
    ASSUME PremiumInv, UNCHANGED <<count, plan, events, log, notes, req, claims>>,
           hour' \in 0..MaxHour, owner' \in [Rules -> Wallets \cup {None}]
    PROVE  PremiumInv'
<1>1. TypeOK'
  BY DEF PremiumInv, TypeOK
<1>2. /\ Named' /\ CountCurrent' /\ InviteExclusive'
      /\ KeyExclusive' /\ Skipped' /\ Loud' /\ Recorded'
  BY DEF PremiumInv, Named, CountCurrent, InviteExclusive, HoldsInvite,
         KeyExclusive, HoldsKey, Skipped, Loud, Recorded
<1>3. Charged' /\ NotifiedOnce' /\ DuplicatesDelivered'
  BY DEF PremiumInv, Charged, Premium, NotifiedOnce, DuplicatesDelivered
<1> QED BY <1>1, <1>2, <1>3 DEF PremiumInv

LEMMA NextKeeps == PremiumInv /\ [Next]_vars => PremiumInv'
<1> SUFFICES ASSUME PremiumInv, [Next]_vars PROVE PremiumInv'
  OBVIOUS
<1>1. hour \in 0..MaxHour /\ owner \in [Rules -> Wallets \cup {None}]
  BY DEF PremiumInv, TypeOK
<1>2. CASE Tick
  BY <1>1, <1>2, OutsideStep, HourAssumption DEF Tick
<1>3. ASSUME NEW w \in Wallets, NEW r \in Rules, CreateRule(w, r)
      PROVE  PremiumInv'
  BY <1>1, <1>3, OutsideStep DEF CreateRule
<1>4. ASSUME NEW q \in Requests, NEW w \in Wallets, NEW i \in Invites,
             Redeem(q, w, i)
      PROVE  PremiumInv'
  BY <1>4, RedeemKeeps
<1>5. ASSUME NEW q \in Requests, NEW w \in Wallets, Evaluate(q, w)
      PROVE  PremiumInv'
  BY <1>5, EvaluateKeeps
<1>6. ASSUME NEW q \in Requests, Fail(q) PROVE PremiumInv'
  BY <1>6, EndingStep DEF Fail
<1>7. ASSUME NEW q \in Requests, Continue(q) PROVE PremiumInv'
  BY <1>6, <1>7, LockInviteKeeps, ReadEntitlementKeeps, WriteEntitlementKeeps,
     CommitRedeemKeeps, FireRuleKeeps, CommitEvaluateKeeps
     DEF Continue, Abort
<1>8. CASE UNCHANGED vars
  BY <1>1, <1>8, OutsideStep DEF vars
<1> QED BY <1>2, <1>3, <1>4, <1>5, <1>6, <1>7, <1>8 DEF Next

\* PremiumInv is an invariant, for any number of wallets, invites, rules and
\* requests.
THEOREM PremiumInvariant == Spec => []PremiumInv
BY InitHolds, NextKeeps, PTL DEF Spec

\* Every variable keeps its type, and no invite is used beyond its limit.
THEOREM PremiumTyped == Spec => []TypeOK
<1>1. PremiumInv => TypeOK
  BY DEF PremiumInv
<1> QED BY <1>1, PremiumInvariant, PTL

\* An invite is charged for the redemptions that were recorded, and a wallet
\* is premium by one of them.
THEOREM InvitesCharged == Spec => []Charged
<1>1. PremiumInv => Charged
  BY DEF PremiumInv
<1> QED BY <1>1, PremiumInvariant, PTL

\* A rule notifies its wallet at most once an hour.
THEOREM Notifying == Spec => []NotifiedOnce
<1>1. PremiumInv => NotifiedOnce
  BY DEF PremiumInv
<1> QED BY <1>1, PremiumInvariant, PTL

\* An alert withheld as a duplicate has been delivered.
THEOREM Duplicates == Spec => []DuplicatesDelivered
<1>1. PremiumInv => DuplicatesDelivered
  BY DEF PremiumInv
<1> QED BY <1>1, PremiumInvariant, PTL

----------------------------------------------------------------------------
\* A sum of an hour and less than a day, around the clock.
LEMMA AroundTheClock ==
    ASSUME NEW x \in 0..(2 * DayHours - 1)
    PROVE  x % DayHours = IF x < DayHours THEN x ELSE x - DayHours
BY HourAssumption

\* The code's tests of the hour accept every hour from start to end.
LEMMA QuietHours ==
    ASSUME NEW start \in 0..(DayHours - 1), NEW end \in 0..(DayHours - 1),
           NEW h \in HoursFrom(start, end)
    PROVE  WithinQuietHours(h, start, end)
<1>1. PICK k \in 0..(DayHours - 1) :
        h = (start + k) % DayHours /\ k < (end + DayHours - start) % DayHours
  BY DEF HoursFrom
<1>2. h = IF start + k < DayHours THEN start + k ELSE start + k - DayHours
  <2> DEFINE x == start + k
  <2>1. x \in 0..(2 * DayHours - 1)
    BY HourAssumption
  <2> HIDE DEF x
  <2>2. x % DayHours = IF x < DayHours THEN x ELSE x - DayHours
    BY <2>1, AroundTheClock
  <2>3. h = x % DayHours
    BY <1>1 DEF x
  <2>4. h = IF x < DayHours THEN x ELSE x - DayHours
    BY <2>2, <2>3
  <2> QED BY <2>4, HourAssumption DEF x
<1>3. (end + DayHours - start) % DayHours =
          IF end < start THEN end + DayHours - start ELSE end - start
  <2> DEFINE x == end + DayHours - start
  <2>1. /\ x \in 0..(2 * DayHours - 1)
        /\ x < DayHours <=> end < start
        /\ x - DayHours = end - start
    BY HourAssumption
  <2> HIDE DEF x
  <2>2. x % DayHours = IF x < DayHours THEN x ELSE x - DayHours
    BY <2>1, AroundTheClock
  <2> QED BY <2>1, <2>2 DEF x
<1>4. start # None /\ end # None
  BY HourAssumption, NoneAssumption
<1> QED BY <1>1, <1>2, <1>3, <1>4, HourAssumption DEF WithinQuietHours

\* No notification is made in the quiet hours of its rule, for a day of any
\* length.
THEOREM QuietHoursKept == Spec => []QuietKept
<1>1. PremiumInv => QuietKept
  <2> SUFFICES ASSUME PremiumInv, NEW n \in notes,
                      Start[n.about[1]] # None, End[n.about[1]] # None,
                      n.about[2] % DayHours \in
                          HoursFrom(Start[n.about[1]], End[n.about[1]])
               PROVE  FALSE
    BY DEF QuietKept
  <2>1. n.about[1] \in Rules
    BY DEF PremiumInv, TypeOK, Stamps
  <2>2. /\ Start[n.about[1]] \in 0..(DayHours - 1)
        /\ End[n.about[1]] \in 0..(DayHours - 1)
    BY <2>1, HourAssumption
  <2>3. Quiet(n.about[1], n.about[2])
    BY <2>2, QuietHours DEF Quiet
  <2> QED BY <2>3 DEF PremiumInv, Loud
<1> QED BY <1>1, PremiumInvariant, PTL
=============================================================================
