--------------------------- MODULE StakingProofs ---------------------------
(***************************************************************************)
(* What holds of StakingTransactions however the requests overlap: its     *)
(* type, the uniqueness of idempotency keys, and the audit trail.  The     *)
(* inductive invariant is OverlapInv: the three of them and Copies, which  *)
(* bounds how stale the copy is that a request writes back.                *)
(***************************************************************************)
EXTENDS StakingTransactions, TLAPS

\* A column is either left as it is or given the new value.
LEMMA NetChoice ==
    ASSUME NEW current, NEW loaded, NEW new
    PROVE  Net(current, loaded, new) \in {current, new}
BY DEF Net

\* Merging rows gives a row.
LEMMA FlushTyped ==
    ASSUME NEW a \in Columns, NEW b \in Columns, NEW c \in Columns
    PROVE  Flush(a, b, c) \in Columns
BY DEF Flush, Net, Columns

\* An event announces what it was made from.
LEMMA Announced ==
    ASSUME NEW name, NEW t, NEW h, NEW r, NEW events,
           Event(name, t, h, r) \in events
    PROVE  \E e \in events :
             /\ e.event = name
             /\ e.tx = t
             /\ e.tx_hash = h
             /\ e.by = r
<1>1. /\ Event(name, t, h, r).event = name
      /\ Event(name, t, h, r).tx = t
      /\ Event(name, t, h, r).tx_hash = h
      /\ Event(name, t, h, r).by = r
  BY DEF Event
<1> QED BY <1>1

\* A transaction that has not been built is typed as a row.
LEMMA NoRowTyped == NoRow \in Columns
BY DEF NoRow, Columns

\* The copies that are written back are rows.
LEMMA CopiesTyped ==
    ASSUME TypeOK, NEW r \in Requests
    PROVE  /\ Submitted(r) \in Columns
           /\ Verdict(r) \in Columns
           /\ \A s \in {"ok", "skipped"} :
                [obj[r] EXCEPT !.simulation = s] \in Columns
BY ZenonT(60) DEF TypeOK, Submitted, Verdict, Columns, Arguments, Terminal

\* Ending a request keeps the types.
LEMMA FinishTyped ==
    ASSUME TypeOK, NEW r \in Requests, NEW t \in TxIds \cup {None}, Finish(r, t)
    PROVE  /\ pc' \in [Requests -> {"idle"} \cup Working \cup Over]
           /\ obj' \in [Requests -> Columns]
           /\ answer' \in [Requests -> TxIds \cup {None}]
BY NoRowTyped DEF TypeOK, Finish, Over

\* Every step of the service keeps the types.
LEMMA TypeStep ==
    ASSUME TypeOK, Copies, [Next]_vars
    PROVE  TypeOK'
<1> USE DEF TypeOK
<1>1. CASE UNCHANGED vars
  BY <1>1 DEF vars
<1>2. ASSUME NEW t \in TxIds, Build(t) PROVE TypeOK'
  <2>1. \A s \in {"ok", "skipped"} :
          [NoRow EXCEPT !.status = "built", !.simulation = s] \in Columns
    BY DEF NoRow, Columns
  <2>2. Event("build", t, None, None) \in Events
    BY DEF Event, Events
  <2> QED BY <1>2, <2>1, <2>2, SimAssumption, ZenonT(60) DEF Build
<1>3. ASSUME NEW t \in TxIds, Expire(t) PROVE TypeOK'
  BY <1>3 DEF Expire
<1>4. ASSUME NEW r \in Requests, NEW t \in TxIds, NEW k \in Keys,
             NEW h \in Hashes, SubmitLoad(r, t, k, h)
      PROVE  TypeOK'
  <2>1. [op |-> "submit", tx |-> t, key |-> k, tx_hash |-> h] \in Arguments
    BY DEF Arguments
  <2>2. arg' \in [Requests -> Arguments]
    BY <1>4, <2>1 DEF SubmitLoad
  <2>3. CASE Finish(r, None) \/ Finish(r, t)
    BY <1>4, <2>2, <2>3, FinishTyped DEF SubmitLoad
  <2>4. CASE /\ pc' = [pc EXCEPT ![r] = "loaded"]
             /\ obj' = [obj EXCEPT ![r] = row[t]]
             /\ UNCHANGED answer
    BY <1>4, <2>2, <2>4 DEF SubmitLoad, Working
  <2> QED BY <1>4, <2>3, <2>4 DEF SubmitLoad
<1>5. ASSUME NEW r \in Requests, NEW t \in TxIds, SimulateLoad(r, t)
      PROVE  TypeOK'
  <2>1. [NoArg EXCEPT !.op = "simulate", !.tx = t] \in Arguments
    BY DEF NoArg, Arguments
  <2>2. arg' \in [Requests -> Arguments]
    BY <1>5, <2>1 DEF SimulateLoad
  <2>3. CASE Finish(r, None)
    BY <1>5, <2>2, <2>3, FinishTyped DEF SimulateLoad
  <2>4. CASE /\ pc' = [pc EXCEPT ![r] = "simulating"]
             /\ obj' = [obj EXCEPT ![r] = row[t]]
             /\ UNCHANGED answer
    BY <1>5, <2>2, <2>4 DEF SimulateLoad, Working
  <2> QED BY <1>5, <2>3, <2>4 DEF SimulateLoad
<1>6. ASSUME NEW r \in Requests, CheckKey(r) PROVE TypeOK'
  <2>1. arg[r].tx \in TxIds
    BY <1>6 DEF CheckKey, Copies, Working
  <2>2. KeyHolders(arg[r].tx, arg[r].key) \subseteq TxIds
    BY DEF KeyHolders
  <2>3. ASSUME NEW u \in TxIds, Finish(r, u) PROVE TypeOK'
    BY <1>6, <2>3, FinishTyped DEF CheckKey
  <2>4. CASE pc' = [pc EXCEPT ![r] = "checked"] /\ UNCHANGED <<obj, answer>>
    BY <1>6, <2>4 DEF CheckKey, Working
  <2> QED BY <1>6, <2>1, <2>2, <2>3, <2>4 DEF CheckKey
<1>7. ASSUME NEW r \in Requests, SaveSubmit(r) PROVE TypeOK'
  <2>1. arg[r].tx \in TxIds
    BY <1>7 DEF SaveSubmit, Copies, Working
  <2>2. CASE Finish(r, None) /\ UNCHANGED <<row, audit>>
    BY <1>7, <2>2, FinishTyped DEF SaveSubmit
  <2>3. CASE pc' = [pc EXCEPT ![r] = "saved"]
    <3>1. Event("submit", arg[r].tx, arg[r].tx_hash, r) \in Events
      BY <2>1 DEF Event, Events, Arguments
    <3>2. Flush(row[arg[r].tx], obj[r], Submitted(r)) \in Columns
      BY <2>1, FlushTyped, CopiesTyped
    <3>3. "saved" # "done" /\ pc' # [pc EXCEPT ![r] = "done"]
      BY <2>3
    <3> QED BY <1>7, <2>1, <2>3, <3>1, <3>2, <3>3, CopiesTyped, ZenonT(60)
            DEF SaveSubmit, Finish, Working
  <2> QED BY <1>7, <2>2, <2>3 DEF SaveSubmit
<1>8. ASSUME NEW r \in Requests, Refresh(r) PROVE TypeOK'
  <2>1. arg[r].tx \in TxIds
    BY <1>8 DEF Refresh, Copies, Working
  <2>2. CASE Finish(r, arg[r].tx)
    BY <1>8, <2>1, <2>2, FinishTyped DEF Refresh
  <2>3. CASE /\ pc' = [pc EXCEPT ![r] = "finalizing"]
             /\ obj' = [obj EXCEPT ![r] = row[arg[r].tx]]
             /\ UNCHANGED answer
    BY <1>8, <2>1, <2>3 DEF Refresh, Working
  <2> QED BY <1>8, <2>2, <2>3 DEF Refresh
<1>9. ASSUME NEW r \in Requests, Finalize(r) PROVE TypeOK'
  <2>1. arg[r].tx \in TxIds
    BY <1>9 DEF Finalize, Copies, Working
  <2>2. Event(Verdict(r).status, arg[r].tx, obj[r].tx_hash, r) \in Events
    BY <2>1 DEF Event, Events, Verdict, Columns
  <2>3. Flush(row[arg[r].tx], obj[r], Verdict(r)) \in Columns
    BY <2>1, FlushTyped, CopiesTyped
  <2> QED BY <1>9, <2>1, <2>2, <2>3, FinishTyped DEF Finalize
<1>10. ASSUME NEW r \in Requests, SimulateSave(r) PROVE TypeOK'
  <2>1. arg[r].tx \in TxIds
    BY <1>10 DEF SimulateSave, Copies, Working
  <2>2. \A s \in {"ok", "skipped"} :
          Flush(row[arg[r].tx], obj[r], [obj[r] EXCEPT !.simulation = s])
            \in Columns
    BY <2>1, FlushTyped, CopiesTyped
  <2> QED BY <1>10, <2>1, <2>2, FinishTyped, SimAssumption DEF SimulateSave
<1>11. ASSUME NEW r \in Requests, Crash(r) PROVE TypeOK'
  BY <1>11, NoRowTyped DEF Crash, Over
<1> QED
  BY <1>1, <1>2, <1>3, <1>4, <1>5, <1>6, <1>7, <1>8, <1>9, <1>10, <1>11
  DEF Next, Continue

----------------------------------------------------------------------------
(***************************************************************************)
(* What each writing step makes of the row it writes, column by column.    *)
(***************************************************************************)
\* Building writes one row, and nothing of a submission into it.
LEMMA BuildRow ==
    ASSUME TypeOK, NEW t \in TxIds, Build(t)
    PROVE  /\ row'[t].status = "built"
           /\ row'[t].key = None
           /\ row'[t].tx_hash = None
           /\ row'[t].block_hash = None
           /\ row'[t].failure_reason = None
           /\ \A u \in TxIds \ {t} : row'[u] = row[u]
           /\ row[t].status = "none"
<1>1. PICK s \in SimResults :
         row' = [row EXCEPT ![t] = [NoRow EXCEPT !.status = "built",
                                                 !.simulation = s]]
  BY DEF Build
<1>2. row'[t] = [NoRow EXCEPT !.status = "built", !.simulation = s]
  BY <1>1 DEF TypeOK
<1>3. \A u \in TxIds \ {t} : row'[u] = row[u]
  BY <1>1 DEF TypeOK
<1> QED BY <1>2, <1>3 DEF NoRow, Build

\* The commit of a submission writes the three columns it assigns, each one
\* only where the copy of the request differs from it.
LEMMA SubmitRow ==
    ASSUME TypeOK, Copies, NEW r \in Requests, SaveSubmit(r),
           NEW t, t = arg[r].tx, KeyHolders(t, arg[r].key) = {}
    PROVE  /\ t \in TxIds
           /\ row'[t].status = Net(row[t].status, obj[r].status, "submitted")
           /\ row'[t].key = Net(row[t].key, obj[r].key, arg[r].key)
           /\ row'[t].tx_hash = Net(row[t].tx_hash, obj[r].tx_hash,
                                    arg[r].tx_hash)
           /\ row'[t].block_hash = row[t].block_hash
           /\ row'[t].failure_reason = row[t].failure_reason
           /\ \A u \in TxIds \ {t} : row'[u] = row[u]
           /\ audit' = audit \cup {Event("submit", t, arg[r].tx_hash, r)}
<1>1. t \in TxIds
  BY DEF SaveSubmit, Copies, Working
<1>2. /\ row' = [row EXCEPT ![t] = Flush(row[t], obj[r], Submitted(r))]
      /\ audit' = audit \cup {Event("submit", t, arg[r].tx_hash, r)}
  BY <1>1 DEF SaveSubmit, TypeOK
<1>3. row'[t] = Flush(row[t], obj[r], Submitted(r))
  BY <1>1, <1>2 DEF TypeOK
<1>4. obj[r] \in Columns
  BY DEF TypeOK
<1>5. /\ Submitted(r).status = "submitted"
      /\ Submitted(r).key = arg[r].key
      /\ Submitted(r).tx_hash = arg[r].tx_hash
      /\ Submitted(r).block_hash = obj[r].block_hash
      /\ Submitted(r).failure_reason = obj[r].failure_reason
  BY <1>4 DEF Submitted, Columns
<1>6. \A u \in TxIds \ {t} : row'[u] = row[u]
  BY <1>1, <1>2 DEF TypeOK
<1> QED BY <1>1, <1>2, <1>3, <1>5, <1>6 DEF Flush, Net

\* The commit of an outcome leaves key and hash of the row as they are and
\* announces the outcome it writes.
LEMMA FinalizeRow ==
    ASSUME TypeOK, Copies, NEW r \in Requests, Finalize(r),
           NEW t, t = arg[r].tx
    PROVE  /\ t \in TxIds
           /\ row'[t].status = Verdict(r).status
           /\ row'[t].key = row[t].key
           /\ row'[t].tx_hash = row[t].tx_hash
           /\ <<t, obj[r].tx_hash>> \in Failing =>
                 /\ row'[t].status = "failed"
                 /\ row'[t].failure_reason # None
                 /\ row'[t].block_hash = row[t].block_hash
                 /\ audit' = audit \cup {Event("failed", t, obj[r].tx_hash, r)}
           /\ <<t, obj[r].tx_hash>> \notin Failing =>
                 /\ row'[t].status = "confirmed"
                 /\ row'[t].failure_reason = row[t].failure_reason
                 /\ row'[t].block_hash = Net(row[t].block_hash,
                                             obj[r].block_hash, obj[r].tx_hash)
                 /\ audit' = audit \cup
                                {Event("confirmed", t, obj[r].tx_hash, r)}
           /\ \A u \in TxIds \ {t} : row'[u] = row[u]
<1>1. t \in TxIds /\ NoneErased(obj[r], row[t])
  BY DEF Finalize, Copies, Working
<1>2. row'[t] = Flush(row[t], obj[r], Verdict(r))
  BY <1>1 DEF Finalize, TypeOK
<1>3. \A u \in TxIds \ {t} : row'[u] = row[u]
  BY <1>1 DEF Finalize, TypeOK
<1>4. /\ obj[r] \in Columns
      /\ row[t] \in Columns
      /\ obj[r].status = "submitted"
  BY <1>1 DEF TypeOK, Finalize, Copies
<1>5. CASE <<t, obj[r].tx_hash>> \in Failing
  <2>1. /\ Verdict(r).status = "failed"
        /\ Verdict(r).failure_reason = Watcher
        /\ Verdict(r).key = obj[r].key
        /\ Verdict(r).tx_hash = obj[r].tx_hash
        /\ Verdict(r).block_hash = obj[r].block_hash
    BY <1>4, <1>5 DEF Verdict, Columns
  <2>2. row'[t].failure_reason # None
    BY <1>1, <1>2, <2>1, NoneAssumption DEF Flush, Net, NoneErased
  <2> QED BY <1>1, <1>2, <1>3, <1>4, <1>5, <2>1, <2>2
          DEF Flush, Net, Finalize
<1>6. CASE <<t, obj[r].tx_hash>> \notin Failing
  <2>1. /\ Verdict(r).status = "confirmed"
        /\ Verdict(r).failure_reason = obj[r].failure_reason
        /\ Verdict(r).key = obj[r].key
        /\ Verdict(r).tx_hash = obj[r].tx_hash
        /\ Verdict(r).block_hash = obj[r].tx_hash
    BY <1>4, <1>6 DEF Verdict, Columns
  <2> QED BY <1>1, <1>2, <1>3, <1>4, <1>6, <2>1 DEF Flush, Net, Finalize
<1> QED BY <1>5, <1>6

\* A simulation changes nothing but the simulation result.
LEMMA SimulateRow ==
    ASSUME TypeOK, Copies, NEW r \in Requests, SimulateSave(r)
    PROVE  /\ \A u \in TxIds :
                /\ Current(row'[u], row[u])
           /\ audit' = audit
<1>1. arg[r].tx \in TxIds
  BY DEF SimulateSave, Copies, Working
<1>2. PICK s \in SimResults :
         row' = [row EXCEPT ![arg[r].tx] =
                   Flush(row[arg[r].tx], obj[r],
                         [obj[r] EXCEPT !.simulation = s])]
  BY <1>1 DEF SimulateSave, TypeOK
<1> DEFINE new == [obj[r] EXCEPT !.simulation = s]
<1>3. /\ new.status = obj[r].status
      /\ new.key = obj[r].key
      /\ new.tx_hash = obj[r].tx_hash
      /\ new.block_hash = obj[r].block_hash
      /\ new.failure_reason = obj[r].failure_reason
  BY DEF TypeOK, Columns
<1> HIDE DEF new
<1>4. row'[arg[r].tx] = Flush(row[arg[r].tx], obj[r], new)
  BY <1>1, <1>2 DEF TypeOK, new
<1>5. \A u \in TxIds : u # arg[r].tx => row'[u] = row[u]
  BY <1>1, <1>2 DEF TypeOK
<1> QED BY <1>3, <1>4, <1>5 DEF Current, Flush, Net, SimulateSave

\* The steps that write no row and no event.
ReadOnly(r) ==
    \/ \E t \in TxIds, k \in Keys, h \in Hashes : SubmitLoad(r, t, k, h)
    \/ \E t \in TxIds : SimulateLoad(r, t)
    \/ CheckKey(r)
    \/ SaveSubmit(r) /\ KeyHolders(arg[r].tx, arg[r].key) # {}
    \/ Refresh(r)
    \/ Crash(r)

\* A request that only reads leaves rows and trail alone.
LEMMA ReadOnlyRows ==
    ASSUME NEW r \in Requests, ReadOnly(r)
    PROVE  row' = row /\ audit' = audit
BY DEF ReadOnly, SubmitLoad, SimulateLoad, CheckKey, SaveSubmit, Refresh, Crash

\* SaveSubmit in the case in which it commits.
Commit(r) == SaveSubmit(r) /\ KeyHolders(arg[r].tx, arg[r].key) = {}

\* A step builds, lets a preview expire, only reads, or is one of the three
\* commits of a request.
LEMMA Steps ==
    ASSUME [Next]_vars
    PROVE  \/ UNCHANGED vars
           \/ \E t \in TxIds : Build(t)
           \/ \E t \in TxIds : Expire(t)
           \/ \E r \in Requests : ReadOnly(r)
           \/ \E r \in Requests : Commit(r)
           \/ \E r \in Requests : Finalize(r)
           \/ \E r \in Requests : SimulateSave(r)
BY DEF Next, Continue, ReadOnly, Commit

----------------------------------------------------------------------------
\* Every step keeps idempotency keys unique: the constraint refuses the one
\* commit that would not.
LEMMA KeyStep ==
    ASSUME TypeOK, Copies, KeyUnique, [Next]_vars
    PROVE  KeyUnique'
<1>1. ASSUME \A u \in TxIds : row'[u].key = row[u].key PROVE KeyUnique'
  BY <1>1 DEF KeyUnique
<1>2. CASE UNCHANGED vars
  BY <1>1, <1>2 DEF vars
<1>3. ASSUME NEW t \in TxIds, Build(t) PROVE KeyUnique'
  BY <1>3, BuildRow DEF KeyUnique
<1>4. ASSUME NEW t \in TxIds, Expire(t) PROVE KeyUnique'
  BY <1>1, <1>4 DEF Expire
<1>5. ASSUME NEW r \in Requests, ReadOnly(r) PROVE KeyUnique'
  BY <1>1, <1>5, ReadOnlyRows
<1>6. ASSUME NEW r \in Requests, Commit(r) PROVE KeyUnique'
  <2> DEFINE t == arg[r].tx
  <2>1. /\ t \in TxIds
        /\ row'[t].key \in {row[t].key, arg[r].key}
        /\ \A u \in TxIds \ {t} : row'[u] = row[u]
    BY <1>6, SubmitRow, NetChoice DEF Commit
  <2>2. \A u \in TxIds \ {t} : Owner[u] = Owner[t] => row[u].key # arg[r].key
    BY <1>6 DEF Commit, KeyHolders
  <2> QED BY <2>1, <2>2 DEF KeyUnique
<1>7. ASSUME NEW r \in Requests, Finalize(r) PROVE KeyUnique'
  <2>1. \A u \in TxIds : row'[u].key = row[u].key
    BY <1>7, FinalizeRow
  <2> QED BY <1>1, <2>1
<1>8. ASSUME NEW r \in Requests, SimulateSave(r) PROVE KeyUnique'
  BY <1>1, <1>8, SimulateRow DEF Current
<1> QED BY <1>2, <1>3, <1>4, <1>5, <1>6, <1>7, <1>8, Steps

----------------------------------------------------------------------------
\* The part of Traced that is about one row and one set of events.
RowTraced(current, t, events) ==
    /\ current.status \in {"submitted"} \cup Terminal =>
           current.key # None /\ current.tx_hash # None
    /\ current.tx_hash # None =>
           \E e \in events : /\ e.event = "submit" /\ e.tx = t
                             /\ e.tx_hash = current.tx_hash
    /\ current.status = "confirmed" => current.block_hash # None
    /\ current.status = "failed" => current.failure_reason # None
    /\ current.block_hash # None =>
           /\ <<t, current.block_hash>> \notin Failing
           /\ \E e \in events : /\ e.event = "confirmed" /\ e.tx = t
                               /\ e.tx_hash = current.block_hash
    /\ current.failure_reason # None =>
           \E e \in events : /\ e.event = "failed" /\ e.tx = t
                             /\ <<t, e.tx_hash>> \in Failing

\* The trail explains the table when it explains each row.
LEMMA TracedRows == Traced <=> \A t \in TxIds : RowTraced(row[t], t, audit)
BY DEF Traced, RowTraced

\* A row stays traced when events are added and its simulation changes.
LEMMA TracedGrows ==
    ASSUME NEW current, NEW new, NEW t, NEW events, NEW more,
           Current(new, current), events \subseteq more,
           RowTraced(current, t, events)
    PROVE  RowTraced(new, t, more)
BY DEF RowTraced, Current

\* Every step keeps the rows explained by the trail.
LEMMA TracedStep ==
    ASSUME TypeOK, Copies, Traced, [Next]_vars
    PROVE  Traced'
<1> SUFFICES ASSUME NEW t \in TxIds PROVE RowTraced(row'[t], t, audit')
  BY DEF Traced, RowTraced
<1>1. RowTraced(row[t], t, audit)
  BY TracedRows
<1>2. ASSUME Current(row'[t], row[t]), audit \subseteq audit'
      PROVE  RowTraced(row'[t], t, audit')
  BY <1>1, <1>2, TracedGrows
<1>3. ASSUME row'[t] = row[t], audit \subseteq audit'
      PROVE  RowTraced(row'[t], t, audit')
  BY <1>2, <1>3 DEF Current
<1>4. CASE UNCHANGED vars
  BY <1>3, <1>4 DEF vars
<1>5. ASSUME NEW u \in TxIds, Build(u) PROVE RowTraced(row'[t], t, audit')
  <2>1. audit \subseteq audit'
    BY <1>5 DEF Build
  <2>2. CASE u = t
    BY <1>5, <2>2, BuildRow DEF RowTraced, Terminal
  <2>3. CASE u # t
    BY <1>3, <1>5, <2>1, <2>3, BuildRow
  <2> QED BY <2>2, <2>3
<1>6. ASSUME NEW u \in TxIds, Expire(u) PROVE RowTraced(row'[t], t, audit')
  BY <1>3, <1>6 DEF Expire
<1>7. ASSUME NEW r \in Requests, ReadOnly(r)
      PROVE  RowTraced(row'[t], t, audit')
  BY <1>3, <1>7, ReadOnlyRows
<1>8. ASSUME NEW r \in Requests, Commit(r)
      PROVE  RowTraced(row'[t], t, audit')
  <2>1. audit \subseteq audit'
    BY <1>8, SubmitRow DEF Commit
  <2>2. CASE arg[r].tx # t
    BY <1>3, <1>8, <2>1, <2>2, SubmitRow DEF Commit
  <2>3. CASE arg[r].tx = t
    <3>1. /\ row'[t].status = Net(row[t].status, obj[r].status, "submitted")
          /\ row'[t].key = Net(row[t].key, obj[r].key, arg[r].key)
          /\ row'[t].tx_hash = Net(row[t].tx_hash, obj[r].tx_hash,
                                   arg[r].tx_hash)
          /\ row'[t].block_hash = row[t].block_hash
          /\ row'[t].failure_reason = row[t].failure_reason
          /\ audit' = audit \cup {Event("submit", t, arg[r].tx_hash, r)}
      BY <1>8, <2>3, SubmitRow DEF Commit
    <3>2. /\ arg[r].key # None
          /\ arg[r].tx_hash # None
          /\ NoneErased(obj[r], row[t])
      BY <1>8, <2>3 DEF Copies, Commit, SaveSubmit, Submitting, Working
    <3>3. row'[t].key # None /\ row'[t].tx_hash # None
      BY <3>1, <3>2 DEF Net, NoneErased
    <3>4. row'[t].tx_hash \in {row[t].tx_hash, arg[r].tx_hash}
      BY <3>1, NetChoice
    <3>5. \E e \in audit' : /\ e.event = "submit" /\ e.tx = t
                            /\ e.tx_hash = row'[t].tx_hash
      <4>1. CASE row'[t].tx_hash = row[t].tx_hash
        BY <1>1, <2>1, <3>3, <4>1 DEF RowTraced
      <4>2. CASE row'[t].tx_hash = arg[r].tx_hash
        BY <3>1, <4>2, Announced
      <4> QED BY <3>4, <4>1, <4>2
    <3>6. row'[t].status \in {row[t].status, "submitted"}
      BY <3>1, NetChoice
    <3> QED BY <1>1, <2>1, <3>1, <3>3, <3>5, <3>6 DEF RowTraced
  <2> QED BY <2>2, <2>3
<1>9. ASSUME NEW r \in Requests, Finalize(r)
      PROVE  RowTraced(row'[t], t, audit')
  <2> DEFINE h == obj[r].tx_hash
  <2>1. audit \subseteq audit'
    BY <1>9 DEF Finalize
  <2>2. CASE arg[r].tx # t
    <3>1. \A u \in TxIds \ {arg[r].tx} : row'[u] = row[u]
      BY <1>9, FinalizeRow
    <3> QED BY <1>3, <2>1, <2>2, <3>1
  <2>3. CASE arg[r].tx = t
    <3>1. /\ obj[r].key # None
          /\ h # None
          /\ NoneErased(obj[r], row[t])
      BY <1>9, <2>3 DEF Copies, Finalize, Working
    <3>2. /\ row'[t].key = row[t].key
          /\ row'[t].tx_hash = row[t].tx_hash
          /\ row'[t].key # None
          /\ row'[t].tx_hash # None
      BY <1>9, <2>3, <3>1, FinalizeRow DEF NoneErased
    <3>3. CASE <<t, h>> \in Failing
      <4>1. /\ row'[t].status = "failed"
            /\ row'[t].failure_reason # None
            /\ row'[t].block_hash = row[t].block_hash
            /\ audit' = audit \cup {Event("failed", t, h, r)}
        BY <1>9, <2>3, <3>3, FinalizeRow
      <4>2. \E e \in audit' : /\ e.event = "failed" /\ e.tx = t
                              /\ <<t, e.tx_hash>> \in Failing
        <5>1. PICK e \in audit' : /\ e.event = "failed" /\ e.tx = t
                                 /\ e.tx_hash = h
          BY <4>1, Announced
        <5> QED BY <3>3, <5>1
      <4> QED BY <1>1, <2>1, <3>2, <4>1, <4>2 DEF RowTraced
    <3>4. CASE <<t, h>> \notin Failing
      <4>1. /\ row'[t].status = "confirmed"
            /\ row'[t].failure_reason = row[t].failure_reason
            /\ row'[t].block_hash =
                  Net(row[t].block_hash, obj[r].block_hash, h)
            /\ audit' = audit \cup {Event("confirmed", t, h, r)}
        BY <1>9, <2>3, <3>4, FinalizeRow
      <4>2. row'[t].block_hash # None
        BY <3>1, <4>1 DEF Net, NoneErased
      <4>3. \E e \in audit' : /\ e.event = "confirmed" /\ e.tx = t
                              /\ e.tx_hash = h
        BY <4>1, Announced
      <4>4. row'[t].block_hash \in {row[t].block_hash, h}
        BY <4>1, NetChoice
      <4>5. CASE row'[t].block_hash = row[t].block_hash
        BY <1>1, <2>1, <3>2, <4>1, <4>2, <4>5 DEF RowTraced
      <4>6. CASE row'[t].block_hash = h
        BY <1>1, <2>1, <3>2, <3>4, <4>1, <4>2, <4>3, <4>6 DEF RowTraced
      <4> QED BY <4>4, <4>5, <4>6
    <3> QED BY <3>3, <3>4
  <2> QED BY <2>2, <2>3
<1>10. ASSUME NEW r \in Requests, SimulateSave(r)
       PROVE  RowTraced(row'[t], t, audit')
  BY <1>2, <1>10, SimulateRow
<1> QED BY <1>4, <1>5, <1>6, <1>7, <1>8, <1>9, <1>10, Steps

----------------------------------------------------------------------------
\* A row exists before it carries a key, a hash or an outcome.
LEMMA UnbuiltStep ==
    ASSUME TypeOK, Copies, Unbuilt, [Next]_vars
    PROVE  Unbuilt'
<1> SUFFICES ASSUME NEW t \in TxIds, row'[t].status = "none"
             PROVE  /\ row'[t].key = None
                    /\ row'[t].tx_hash = None
                    /\ row'[t].block_hash = None
                    /\ row'[t].failure_reason = None
  BY DEF Unbuilt
<1> DEFINE Goal == /\ row'[t].key = None
                   /\ row'[t].tx_hash = None
                   /\ row'[t].block_hash = None
                   /\ row'[t].failure_reason = None
<1>1. ASSUME Current(row'[t], row[t]) PROVE Goal
  BY <1>1 DEF Unbuilt, Current
<1>2. ASSUME row'[t] = row[t] PROVE Goal
  BY <1>1, <1>2 DEF Current
<1>3. CASE UNCHANGED vars
  BY <1>2, <1>3 DEF vars
<1>4. ASSUME NEW u \in TxIds, Build(u) PROVE Goal
  BY <1>2, <1>4, BuildRow
<1>5. ASSUME NEW u \in TxIds, Expire(u) PROVE Goal
  BY <1>2, <1>5 DEF Expire
<1>6. ASSUME NEW r \in Requests, ReadOnly(r) PROVE Goal
  BY <1>2, <1>6, ReadOnlyRows
<1>7. ASSUME NEW r \in Requests, Commit(r) PROVE Goal
  <2>1. row[arg[r].tx].status # "none"
    BY <1>7 DEF Commit, SaveSubmit, Copies, Working
  <2>2. /\ row'[arg[r].tx].status \in {row[arg[r].tx].status, "submitted"}
        /\ \A u \in TxIds \ {arg[r].tx} : row'[u] = row[u]
    BY <1>7, SubmitRow, NetChoice DEF Commit
  <2> QED BY <1>2, <2>1, <2>2
<1>8. ASSUME NEW r \in Requests, Finalize(r) PROVE Goal
  <2>1. /\ row'[arg[r].tx].status \in {"failed", "confirmed"}
        /\ \A u \in TxIds \ {arg[r].tx} : row'[u] = row[u]
    BY <1>8, FinalizeRow
  <2> QED BY <1>2, <2>1
<1>9. ASSUME NEW r \in Requests, SimulateSave(r) PROVE Goal
  BY <1>1, <1>9, SimulateRow
<1> QED BY <1>3, <1>4, <1>5, <1>6, <1>7, <1>8, <1>9, Steps

\* No step erases a column or a row.
LEMMA Grows ==
    ASSUME TypeOK, Copies, Unbuilt, [Next]_vars, NEW t \in TxIds
    PROVE  /\ NoneErased(row[t], row'[t])
           /\ row[t].status # "none" => row'[t].status # "none"
<1> DEFINE Goal == /\ NoneErased(row[t], row'[t])
                   /\ row[t].status # "none" => row'[t].status # "none"
<1>1. ASSUME Current(row'[t], row[t]) PROVE Goal
  BY <1>1 DEF NoneErased, Current
<1>2. ASSUME row'[t] = row[t] PROVE Goal
  BY <1>1, <1>2 DEF Current
<1>3. CASE UNCHANGED vars
  BY <1>2, <1>3 DEF vars
<1>4. ASSUME NEW u \in TxIds, Build(u) PROVE Goal
  BY <1>2, <1>4, BuildRow DEF Unbuilt, NoneErased
<1>5. ASSUME NEW u \in TxIds, Expire(u) PROVE Goal
  BY <1>2, <1>5 DEF Expire
<1>6. ASSUME NEW r \in Requests, ReadOnly(r) PROVE Goal
  BY <1>2, <1>6, ReadOnlyRows
<1>7. ASSUME NEW r \in Requests, Commit(r) PROVE Goal
  <2>1. \A u \in TxIds \ {arg[r].tx} : row'[u] = row[u]
    BY <1>7, SubmitRow DEF Commit
  <2>2. CASE t = arg[r].tx
    <3>1. /\ arg[r].key # None
          /\ arg[r].tx_hash # None
      BY <1>7 DEF Copies, Commit, SaveSubmit, Submitting
    <3>2. /\ row'[t].status = Net(row[t].status, obj[r].status, "submitted")
          /\ row'[t].key = Net(row[t].key, obj[r].key, arg[r].key)
          /\ row'[t].tx_hash = Net(row[t].tx_hash, obj[r].tx_hash,
                                   arg[r].tx_hash)
          /\ row'[t].block_hash = row[t].block_hash
          /\ row'[t].failure_reason = row[t].failure_reason
      BY <1>7, <2>2, SubmitRow DEF Commit
    <3> QED BY <3>1, <3>2 DEF Net, NoneErased
  <2> QED BY <1>2, <2>1, <2>2
<1>8. ASSUME NEW r \in Requests, Finalize(r) PROVE Goal
  <2>1. \A u \in TxIds \ {arg[r].tx} : row'[u] = row[u]
    BY <1>8, FinalizeRow
  <2>2. CASE t = arg[r].tx
    <3>1. obj[r].tx_hash # None
      BY <1>8 DEF Copies, Finalize
    <3>2. /\ row'[t].status \in {"failed", "confirmed"}
          /\ row'[t].key = row[t].key
          /\ row'[t].tx_hash = row[t].tx_hash
          /\ \/ row'[t].block_hash = row[t].block_hash
             \/ row'[t].block_hash = Net(row[t].block_hash,
                                         obj[r].block_hash, obj[r].tx_hash)
          /\ \/ row'[t].failure_reason = row[t].failure_reason
             \/ row'[t].failure_reason # None
      BY <1>8, <2>2, FinalizeRow
    <3> QED BY <3>1, <3>2, NetChoice DEF NoneErased
  <2> QED BY <1>2, <2>1, <2>2
<1>9. ASSUME NEW r \in Requests, SimulateSave(r) PROVE Goal
  BY <1>1, <1>9, SimulateRow
<1> QED BY <1>3, <1>4, <1>5, <1>6, <1>7, <1>8, <1>9, Steps

\* A fresh copy of a row has lost nothing.
LEMMA NoneErasedReflexive ==
    ASSUME NEW a
    PROVE  NoneErased(a, a)
BY DEF NoneErased

\* What Copies says of one request.
CopyOf(r) ==
    /\ pc[r] \in Working =>
           /\ arg[r].tx \in TxIds
           /\ row[arg[r].tx].status # "none"
           /\ NoneErased(obj[r], row[arg[r].tx])
    /\ pc[r] \in Submitting => arg[r].key # None /\ arg[r].tx_hash # None
    /\ pc[r] = "finalizing" =>
           /\ obj[r].status = "submitted"
           /\ obj[r].key # None
           /\ obj[r].tx_hash # None

\* No step makes the copy of a request miss more than columns that were set
\* since it was loaded.
LEMMA CopiesStep ==
    ASSUME TypeOK, Copies, Traced, Unbuilt, [Next]_vars
    PROVE  Copies'
<1> SUFFICES ASSUME NEW q \in Requests PROVE CopyOf(q)'
  BY DEF Copies, CopyOf
<1>1. CopyOf(q)
  BY DEF Copies, CopyOf
<1>2. \A t \in TxIds : row[t].status # "none" => row'[t].status # "none"
  BY Grows
<1>3. ASSUME pc'[q] = pc[q], arg'[q] = arg[q], obj'[q] = obj[q]
      PROVE  CopyOf(q)'
  <2>1. CASE pc[q] \notin Working
    BY <1>3, <2>1 DEF CopyOf, Working, Submitting
  <2>2. CASE pc[q] \in Working
    <3> DEFINE t == arg[q].tx
    <3>1. /\ t \in TxIds
          /\ row[t].status # "none"
          /\ NoneErased(obj[q], row[t])
      BY <1>1, <2>2 DEF CopyOf
    <3>2. row'[t].status # "none"
      BY <1>2, <3>1
    <3>3. NoneErased(row[t], row'[t])
      BY <3>1, Grows
    <3>4. NoneErased(obj[q], row'[t])
      BY <3>1, <3>3 DEF NoneErased
    <3> QED BY <1>1, <1>3, <3>1, <3>2, <3>4 DEF CopyOf
  <2> QED BY <2>1, <2>2
<1>4. ASSUME pc'[q] \in Over PROVE CopyOf(q)'
  BY <1>4 DEF CopyOf, Over, Working, Submitting
<1>5. ASSUME NEW r \in Requests, NEW t, Finish(r, t), arg' = arg
      PROVE  CopyOf(q)'
  <2>1. CASE q = r
    BY <1>4, <1>5, <2>1 DEF Finish, Over, TypeOK
  <2>2. CASE q # r
    BY <1>3, <1>5, <2>2 DEF Finish, TypeOK
  <2> QED BY <2>1, <2>2
<1>6. CASE UNCHANGED vars
  BY <1>3, <1>6 DEF vars
<1>7. ASSUME NEW t \in TxIds, Build(t) \/ Expire(t) PROVE CopyOf(q)'
  BY <1>3, <1>7 DEF Build, Expire
<1>8. ASSUME NEW r \in Requests, NEW t \in TxIds, NEW k \in Keys,
             NEW h \in Hashes, SubmitLoad(r, t, k, h)
      PROVE  CopyOf(q)'
  <2>1. CASE q # r
    BY <1>3, <1>8, <2>1 DEF SubmitLoad, Finish, TypeOK
  <2>2. CASE q = r /\ (Finish(r, None) \/ Finish(r, t))
    BY <1>4, <2>2 DEF Finish, Over, TypeOK
  <2>3. CASE /\ q = r
             /\ pc' = [pc EXCEPT ![r] = "loaded"]
             /\ obj' = [obj EXCEPT ![r] = row[t]]
    <3>1. /\ pc'[q] = "loaded"
          /\ obj'[q] = row[t]
          /\ arg'[q] = [op |-> "submit", tx |-> t, key |-> k, tx_hash |-> h]
          /\ row[t].status # "none"
          /\ row' = row
      BY <1>8, <2>3 DEF SubmitLoad, TypeOK
    <3>2. /\ arg'[q].tx = t /\ arg'[q].key # None /\ arg'[q].tx_hash # None
      BY <3>1, NoneAssumption
    <3> QED BY <3>1, <3>2, NoneErasedReflexive DEF CopyOf, Working
  <2> QED BY <1>8, <2>1, <2>2, <2>3 DEF SubmitLoad
<1>9. ASSUME NEW r \in Requests, NEW t \in TxIds, SimulateLoad(r, t)
      PROVE  CopyOf(q)'
  <2>1. CASE q # r
    BY <1>3, <1>9, <2>1 DEF SimulateLoad, Finish, TypeOK
  <2>2. CASE q = r /\ Finish(r, None)
    BY <1>4, <2>2 DEF Finish, Over, TypeOK
  <2>3. CASE /\ q = r
             /\ pc' = [pc EXCEPT ![r] = "simulating"]
             /\ obj' = [obj EXCEPT ![r] = row[t]]
    <3>1. /\ pc'[q] = "simulating"
          /\ obj'[q] = row[t]
          /\ arg'[q] = [NoArg EXCEPT !.op = "simulate", !.tx = t]
          /\ row[t].status # "none"
          /\ row' = row
      BY <1>9, <2>3 DEF SimulateLoad, TypeOK
    <3>2. arg'[q].tx = t
      BY <3>1 DEF NoArg
    <3> QED BY <3>1, <3>2, NoneErasedReflexive DEF CopyOf, Submitting
  <2> QED BY <1>9, <2>1, <2>2, <2>3 DEF SimulateLoad
<1>10. ASSUME NEW r \in Requests, CheckKey(r) PROVE CopyOf(q)'
  <2>1. CASE \E u : Finish(r, u)
    BY <1>5, <1>10, <2>1 DEF CheckKey
  <2>2. CASE pc' = [pc EXCEPT ![r] = "checked"] /\ UNCHANGED <<obj, answer>>
    <3>1. CASE q # r
      BY <1>3, <1>10, <2>2, <3>1 DEF CheckKey, TypeOK
    <3>2. CASE q = r
      BY <1>1, <1>10, <2>2, <3>2
      DEF CheckKey, TypeOK, CopyOf, Working, Submitting
    <3> QED BY <3>1, <3>2
  <2> QED BY <1>10, <2>1, <2>2 DEF CheckKey
<1>11. ASSUME NEW r \in Requests, SaveSubmit(r) PROVE CopyOf(q)'
  <2>1. CASE Finish(r, None)
    BY <1>5, <1>11, <2>1 DEF SaveSubmit
  <2>2. CASE ~Finish(r, None)
    <3>1. /\ pc' = [pc EXCEPT ![r] = "saved"]
          /\ obj' = [obj EXCEPT ![r] = Submitted(r)]
          /\ arg' = arg
          /\ pc[r] = "checked"
          /\ KeyHolders(arg[r].tx, arg[r].key) = {}
      BY <1>11, <2>2 DEF SaveSubmit
    <3>2. CASE q # r
      BY <1>3, <3>1, <3>2 DEF TypeOK
    <3>3. CASE q = r
      <4> DEFINE t == arg[q].tx
      <4>1. /\ t \in TxIds
            /\ row[t].status # "none"
            /\ arg[q].key # None
            /\ arg[q].tx_hash # None
            /\ NoneErased(obj[q], row[t])
        BY <1>1, <3>1, <3>3 DEF CopyOf, Working, Submitting
      <4>2. /\ Submitted(q).key = arg[q].key
            /\ Submitted(q).tx_hash = arg[q].tx_hash
            /\ Submitted(q).block_hash = obj[q].block_hash
            /\ Submitted(q).failure_reason = obj[q].failure_reason
        BY DEF Submitted, TypeOK, Columns
      <4>3. /\ row'[t].key = Net(row[t].key, obj[q].key, arg[q].key)
            /\ row'[t].tx_hash = Net(row[t].tx_hash, obj[q].tx_hash,
                                     arg[q].tx_hash)
            /\ row'[t].block_hash = row[t].block_hash
            /\ row'[t].failure_reason = row[t].failure_reason
        BY <1>11, <3>1, <3>3, SubmitRow
      <4>4. NoneErased(Submitted(q), row'[t])
        BY <4>1, <4>2, <4>3 DEF NoneErased, Net
      <4>5. row'[t].status # "none"
        <5>1. \A u \in TxIds : row[u].status # "none" =>
                                 row'[u].status # "none"
          BY <1>2
        <5>2. t \in TxIds /\ row[t].status # "none"
          BY <4>1
        <5> QED BY <5>1, <5>2
      <4>6. /\ pc'[q] = "saved"
            /\ obj'[q] = Submitted(q)
        BY <3>1, <3>3 DEF TypeOK
      <4> QED BY <3>1, <4>1, <4>4, <4>5, <4>6 DEF CopyOf
    <3> QED BY <3>2, <3>3
  <2> QED BY <2>1, <2>2
<1>12. ASSUME NEW r \in Requests, Refresh(r) PROVE CopyOf(q)'
  <2>1. CASE Finish(r, arg[r].tx)
    BY <1>5, <1>12, <2>1 DEF Refresh
  <2>2. CASE ~Finish(r, arg[r].tx)
    <3>1. /\ pc' = [pc EXCEPT ![r] = "finalizing"]
          /\ obj' = [obj EXCEPT ![r] = row[arg[r].tx]]
          /\ row[arg[r].tx].status = "submitted"
          /\ arg' = arg
          /\ row' = row
          /\ pc[r] = "saved"
      BY <1>12, <2>2 DEF Refresh
    <3>2. CASE q # r
      BY <1>3, <3>1, <3>2 DEF TypeOK
    <3>3. CASE q = r
      <4>1. /\ arg[q].tx \in TxIds
            /\ arg[q].key # None
            /\ arg[q].tx_hash # None
        BY <1>1, <3>1, <3>3 DEF CopyOf, Working, Submitting
      <4>2. row[arg[q].tx].key # None /\ row[arg[q].tx].tx_hash # None
        BY <3>1, <3>3, <4>1 DEF Traced
      <4>3. pc'[q] = "finalizing" /\ obj'[q] = row[arg[q].tx]
        BY <3>1, <3>3 DEF TypeOK
      <4> QED BY <3>1, <3>3, <4>1, <4>2, <4>3, NoneErasedReflexive DEF CopyOf
    <3> QED BY <3>2, <3>3
  <2> QED BY <2>1, <2>2
<1>13. ASSUME NEW r \in Requests, Finalize(r) \/ SimulateSave(r)
       PROVE  CopyOf(q)'
  BY <1>5, <1>13 DEF Finalize, SimulateSave
<1>14. ASSUME NEW r \in Requests, Crash(r) PROVE CopyOf(q)'
  <2>1. CASE q # r
    BY <1>3, <1>14, <2>1 DEF Crash, TypeOK
  <2>2. CASE q = r
    BY <1>4, <1>14, <2>2 DEF Crash, Over, TypeOK
  <2> QED BY <2>1, <2>2
<1> QED
  BY <1>6, <1>7, <1>8, <1>9, <1>10, <1>11, <1>12, <1>13, <1>14
  DEF Next, Continue

----------------------------------------------------------------------------
\* The empty table satisfies the invariant.
LEMMA OverlapInit == Init => OverlapInv
<1> SUFFICES ASSUME Init PROVE OverlapInv
  OBVIOUS
<1>1. TypeOK
  BY NoRowTyped DEF Init, TypeOK, NoArg, Arguments
<1>2. \A t \in TxIds : /\ row[t].status = "none"
                      /\ row[t].key = None
                      /\ row[t].tx_hash = None
                      /\ row[t].block_hash = None
                      /\ row[t].failure_reason = None
  BY DEF Init, NoRow
<1>3. \A r \in Requests : pc[r] = "idle"
  BY DEF Init
<1> QED
  BY <1>1, <1>2, <1>3
  DEF OverlapInv, KeyUnique, Traced, Unbuilt, Copies, Working, Submitting,
      Terminal

\* Every step of overlapping requests keeps the invariant.
LEMMA OverlapStep == OverlapInv /\ [Next]_vars => OverlapInv'
BY TypeStep, KeyStep, TracedStep, UnbuiltStep, CopiesStep DEF OverlapInv

\* Whatever the client does, the strengthened invariant of overlapping
\* requests holds.
THEOREM Overlapping == Spec => []OverlapInv
BY OverlapInit, OverlapStep, PTL DEF Spec

\* No request leaves a variable outside its type; in particular no row is
\* ever committed as "signed" or "expired".
THEOREM TypeCorrect == Spec => []TypeOK
BY Overlapping, PTL DEF OverlapInv

\* However the submissions of a wallet race, its idempotency keys are unique.
THEOREM KeysUnique == Spec => []KeyUnique
BY Overlapping, PTL DEF OverlapInv

\* However requests race, the audit trail explains every committed row.
THEOREM RowsTraced == Spec => []Traced
BY Overlapping, PTL DEF OverlapInv
=============================================================================
