------------------------- MODULE StakingModalProofs -------------------------
(***************************************************************************)
(* What holds of StakingTransactions when submissions come from the        *)
(* dashboard's modal only: an idempotency key stands for one submission,   *)
(* and the rows go through the life cycle of StakingLifecycle.  The        *)
(* inductive invariant, ModalInv, adds to that of StakingProofs that a     *)
(* submitting request works on a current copy, because the submissions of  *)
(* a transaction follow one another.                                       *)
(***************************************************************************)
EXTENDS StakingProofs

\* A request that is over stays over, and keeps its arguments.
LEMMA OverStays ==
    ASSUME TypeOK, [Next]_vars, NEW q \in Requests, pc[q] # "idle"
    PROVE  /\ arg'[q] = arg[q]
           /\ pc[q] \in Over => pc'[q] = pc[q]
<1>1. CASE UNCHANGED vars
  BY <1>1 DEF vars
<1>2. ASSUME NEW t \in TxIds, Build(t) \/ Expire(t)
      PROVE  pc' = pc /\ arg' = arg
  BY <1>2 DEF Build, Expire
<1>3. ASSUME NEW r \in Requests, NEW t \in TxIds, NEW k \in Keys,
             NEW h \in Hashes, SubmitLoad(r, t, k, h)
      PROVE  arg'[q] = arg[q] /\ pc'[q] = pc[q]
  <2>1. q # r
    BY <1>3 DEF SubmitLoad
  <2> QED BY <1>3, <2>1 DEF SubmitLoad, Finish, TypeOK
<1>4. ASSUME NEW r \in Requests, NEW t \in TxIds, SimulateLoad(r, t)
      PROVE  arg'[q] = arg[q] /\ pc'[q] = pc[q]
  <2>1. q # r
    BY <1>4 DEF SimulateLoad
  <2> QED BY <1>4, <2>1 DEF SimulateLoad, Finish, TypeOK
<1>5. ASSUME NEW r \in Requests, Continue(r) \/ Crash(r)
      PROVE  /\ arg' = arg
             /\ pc[r] \notin Over
             /\ q # r => pc'[q] = pc[q]
  BY <1>5 DEF Continue, CheckKey, SaveSubmit, Refresh, Finalize, SimulateSave,
              Crash, Finish, TypeOK, Over, Working
<1> QED BY <1>1, <1>2, <1>3, <1>4, <1>5 DEF Next

\* Only the two loading steps give a request its arguments.
LEMMA ArgsKept ==
    ASSUME [Next]_vars,
           ~ \E r \in Requests, t \in TxIds :
                \/ \E k \in Keys, h \in Hashes : SubmitLoad(r, t, k, h)
                \/ SimulateLoad(r, t)
    PROVE  arg' = arg
BY DEF Next, Continue, vars, Build, Expire, CheckKey, SaveSubmit, Refresh,
       Finalize, SimulateSave, Crash

\* Two requests that are both submitting submit different transactions.
LEMMA Apart ==
    ASSUME CurrentCopies, OneAtATime, Copies,
           NEW q \in Requests, NEW r \in Requests, q # r,
           pc[q] \in Submitting, pc[r] \in Submitting
    PROVE  arg[q].tx # arg[r].tx
<1>1. /\ arg[q].op = "submit" /\ arg[q].tx \in TxIds
      /\ arg[r].op = "submit"
      /\ pc[q] \notin Over /\ pc[r] \notin Over
  BY DEF CurrentCopies, Copies, Submitting, Working, Over
<1> QED BY <1>1 DEF OneAtATime, Submissions

\* What Commit makes of the row when the copy is current: a submission.
LEMMA SubmitCurrent ==
    ASSUME OverlapInv, CurrentCopies, OneAtATime,
           NEW r \in Requests, Commit(r), NEW t, t = arg[r].tx
    PROVE  /\ t \in TxIds
           /\ row[t].status = "built"
           /\ row[t].key = None
           /\ row[t].tx_hash = None
           /\ row'[t].status = "submitted"
           /\ row'[t].key = arg[r].key
           /\ row'[t].tx_hash = arg[r].tx_hash
           /\ row'[t].block_hash = row[t].block_hash
           /\ row'[t].failure_reason = row[t].failure_reason
           /\ \A u \in TxIds \ {t} : row'[u] = row[u]
           /\ audit' = audit \cup {Event("submit", t, arg[r].tx_hash, r)}
<1>1. TypeOK /\ Copies
  BY DEF OverlapInv
<1>2. /\ t \in TxIds
      /\ row'[t].status = Net(row[t].status, obj[r].status, "submitted")
      /\ row'[t].key = Net(row[t].key, obj[r].key, arg[r].key)
      /\ row'[t].tx_hash = Net(row[t].tx_hash, obj[r].tx_hash,
                               arg[r].tx_hash)
      /\ row'[t].block_hash = row[t].block_hash
      /\ row'[t].failure_reason = row[t].failure_reason
      /\ \A u \in TxIds \ {t} : row'[u] = row[u]
      /\ audit' = audit \cup {Event("submit", t, arg[r].tx_hash, r)}
  BY <1>1, SubmitRow DEF Commit
<1>3. pc[r] = "checked" /\ obj[r].status = "built"
  BY DEF Commit, SaveSubmit, CurrentCopies
<1>4. Current(obj[r], row[t])
  BY <1>3 DEF CurrentCopies, Submitting
<1>5. row[t].status = "built" /\ row[t].key = None /\ row[t].tx_hash = None
  BY <1>2, <1>3, <1>4 DEF Current, OneAtATime
<1> QED BY <1>2, <1>3, <1>4, <1>5 DEF Net, Current

\* What Finalize makes of the row when the copy is current: the outcome of
\* the submitted hash.
LEMMA FinalizeCurrent ==
    ASSUME OverlapInv, CurrentCopies,
           NEW r \in Requests, Finalize(r), NEW t, t = arg[r].tx
    PROVE  /\ t \in TxIds
           /\ row[t].status = "submitted"
           /\ row'[t].key = row[t].key
           /\ row'[t].tx_hash = row[t].tx_hash
           /\ \/ /\ <<t, row[t].tx_hash>> \in Failing
                 /\ row'[t].status = "failed"
                 /\ row'[t].block_hash = row[t].block_hash
              \/ /\ <<t, row[t].tx_hash>> \notin Failing
                 /\ row'[t].status = "confirmed"
                 /\ row'[t].block_hash = row[t].tx_hash
           /\ \A u \in TxIds \ {t} : row'[u] = row[u]
<1>1. TypeOK /\ Copies
  BY DEF OverlapInv
<1>2. /\ pc[r] = "finalizing"
      /\ obj[r].status = "submitted"
      /\ Current(obj[r], row[t])
  BY <1>1 DEF Finalize, Copies, CurrentCopies, Submitting
<1>3. /\ row[t].status = "submitted"
      /\ row[t].tx_hash = obj[r].tx_hash
      /\ row[t].block_hash = obj[r].block_hash
  BY <1>2 DEF Current
<1>4. /\ t \in TxIds
      /\ row'[t].key = row[t].key
      /\ row'[t].tx_hash = row[t].tx_hash
      /\ \A u \in TxIds \ {t} : row'[u] = row[u]
  BY <1>1, FinalizeRow
<1>5. CASE <<t, obj[r].tx_hash>> \in Failing
  <2>1. /\ row'[t].status = "failed"
        /\ row'[t].block_hash = row[t].block_hash
    BY <1>1, <1>5, FinalizeRow
  <2> QED BY <1>3, <1>4, <1>5, <2>1
<1>6. CASE <<t, obj[r].tx_hash>> \notin Failing
  <2>1. /\ row'[t].status = "confirmed"
        /\ row'[t].block_hash = Net(row[t].block_hash, obj[r].block_hash,
                                    obj[r].tx_hash)
    BY <1>1, <1>6, FinalizeRow
  <2>2. row'[t].block_hash = row[t].tx_hash
    BY <1>3, <2>1 DEF Net
  <2> QED BY <1>3, <1>4, <1>6, <2>1, <2>2
<1> QED BY <1>5, <1>6

----------------------------------------------------------------------------
\* What CurrentCopies says of one request.
CurrentCopyOf(r) ==
    /\ pc[r] = "idle" => arg[r].op = "none"
    /\ pc[r] \in Submitting =>
           /\ arg[r].op = "submit"
           /\ Current(obj[r], row[arg[r].tx])
    /\ pc[r] = "loaded" => obj[r].status \in {"built", "submitted"}
    /\ pc[r] = "checked" => obj[r].status = "built"

\* As long as submissions of a transaction follow one another, no step makes
\* the copy of a submitting request stale.
LEMMA CurrentStep ==
    ASSUME OverlapInv, CurrentCopies, OneAtATime, [Next]_vars
    PROVE  CurrentCopies'
<1> SUFFICES ASSUME NEW q \in Requests PROVE CurrentCopyOf(q)'
  BY DEF CurrentCopies, CurrentCopyOf
<1>1. /\ CurrentCopyOf(q)
      /\ TypeOK /\ Copies /\ Traced /\ Unbuilt
      /\ TypeOK'
  BY OverlapStep DEF CurrentCopies, CurrentCopyOf, OverlapInv
<1>2. ASSUME pc'[q] = pc[q], arg'[q] = arg[q], obj'[q] = obj[q],
             pc[q] \in Submitting =>
                 Current(row'[arg[q].tx], row[arg[q].tx])
      PROVE  CurrentCopyOf(q)'
  BY <1>1, <1>2 DEF CurrentCopyOf, Current
<1>3. ASSUME pc'[q] = pc[q], arg'[q] = arg[q], obj'[q] = obj[q], row' = row
      PROVE  CurrentCopyOf(q)'
  BY <1>2, <1>3 DEF Current
<1>4. ASSUME pc'[q] \in Over PROVE CurrentCopyOf(q)'
  BY <1>4 DEF CurrentCopyOf, Over, Submitting
<1>5. CASE UNCHANGED vars
  BY <1>3, <1>5 DEF vars
<1>6. ASSUME NEW t \in TxIds, Build(t) PROVE CurrentCopyOf(q)'
  <2>1. pc[q] \in Submitting =>
            arg[q].tx \in TxIds /\ row[arg[q].tx].status # "none"
    BY <1>1 DEF Copies, Submitting, Working
  <2>2. row[t].status = "none" /\ \A u \in TxIds \ {t} : row'[u] = row[u]
    BY <1>1, <1>6, BuildRow
  <2>3. pc[q] \in Submitting => Current(row'[arg[q].tx], row[arg[q].tx])
    BY <2>1, <2>2 DEF Current
  <2> QED BY <1>2, <1>6, <2>3 DEF Build
<1>7. ASSUME NEW t \in TxIds, Expire(t) PROVE CurrentCopyOf(q)'
  BY <1>3, <1>7 DEF Expire
<1>8. ASSUME NEW r \in Requests, NEW t \in TxIds, NEW k \in Keys,
             NEW h \in Hashes, SubmitLoad(r, t, k, h)
      PROVE  CurrentCopyOf(q)'
  <2>1. CASE q # r
    BY <1>1, <1>3, <1>8, <2>1 DEF SubmitLoad, Finish, TypeOK
  <2>2. CASE q = r /\ (Finish(r, None) \/ Finish(r, t))
    BY <1>1, <1>4, <2>2 DEF Finish, Over, TypeOK
  <2>3. CASE /\ q = r
             /\ row[t].status \notin Terminal
             /\ pc' = [pc EXCEPT ![r] = "loaded"]
             /\ obj' = [obj EXCEPT ![r] = row[t]]
    <3>1. /\ pc'[q] = "loaded"
          /\ obj'[q] = row[t]
          /\ arg'[q] = [op |-> "submit", tx |-> t, key |-> k, tx_hash |-> h]
          /\ row[t].status \in {"built", "submitted"}
          /\ row' = row
      BY <1>1, <1>8, <2>3 DEF SubmitLoad, TypeOK, Columns
    <3>2. arg'[q].op = "submit" /\ arg'[q].tx = t
      BY <3>1
    <3> QED BY <3>1, <3>2 DEF CurrentCopyOf, Current
  <2> QED BY <1>8, <2>1, <2>2, <2>3 DEF SubmitLoad
<1>9. ASSUME NEW r \in Requests, NEW t \in TxIds, SimulateLoad(r, t)
      PROVE  CurrentCopyOf(q)'
  <2>1. CASE q # r
    BY <1>1, <1>3, <1>9, <2>1 DEF SimulateLoad, Finish, TypeOK
  <2>2. CASE q = r /\ Finish(r, None)
    BY <1>1, <1>4, <2>2 DEF Finish, Over, TypeOK
  <2>3. CASE q = r /\ pc' = [pc EXCEPT ![r] = "simulating"]
    <3>1. pc'[q] = "simulating"
      BY <1>1, <2>3 DEF TypeOK
    <3> QED BY <3>1 DEF CurrentCopyOf, Submitting
  <2> QED BY <1>9, <2>1, <2>2, <2>3 DEF SimulateLoad
<1>10. ASSUME NEW r \in Requests, NEW t, Finish(r, t), arg' = arg,
              row' = row
       PROVE  CurrentCopyOf(q)'
  <2>1. CASE q = r
    BY <1>1, <1>4, <1>10, <2>1 DEF Finish, Over, TypeOK
  <2>2. CASE q # r
    BY <1>1, <1>3, <1>10, <2>2 DEF Finish, TypeOK
  <2> QED BY <2>1, <2>2
<1>11. ASSUME NEW r \in Requests, CheckKey(r) PROVE CurrentCopyOf(q)'
  <2>1. CASE \E u : Finish(r, u)
    BY <1>10, <1>11, <2>1 DEF CheckKey
  <2>2. CASE /\ ~(obj[r].key = arg[r].key /\ obj[r].tx_hash # None)
             /\ pc' = [pc EXCEPT ![r] = "checked"]
             /\ UNCHANGED <<obj, answer>>
    <3>1. CASE q # r
      BY <1>1, <1>3, <1>11, <2>2, <3>1 DEF CheckKey, TypeOK
    <3>2. CASE q = r
      <4> DEFINE t == arg[q].tx
      <4>1. /\ pc[q] = "loaded"
            /\ pc'[q] = "checked"
            /\ obj'[q] = obj[q]
            /\ arg' = arg /\ row' = row
        BY <1>1, <1>11, <2>2, <3>2 DEF CheckKey, TypeOK
      <4>2. /\ t \in TxIds
            /\ arg[q].op = "submit"
            /\ Current(obj[q], row[t])
            /\ obj[q].status \in {"built", "submitted"}
        BY <1>1, <4>1 DEF CurrentCopyOf, Copies, Submitting, Working
      <4>3. obj[q].status # "submitted"
        <5> SUFFICES ASSUME obj[q].status = "submitted" PROVE FALSE
          OBVIOUS
        <5>1. /\ row[t].status = "submitted"
              /\ row[t].key = obj[q].key
              /\ row[t].tx_hash = obj[q].tx_hash
          BY <4>2 DEF Current
        <5>2. row[t].key # None /\ row[t].tx_hash # None
          BY <1>1, <4>2, <5>1 DEF Traced
        <5>3. row[t].key = arg[q].key
          BY <4>2, <5>2 DEF OneAtATime, Submissions
        <5> QED BY <2>2, <3>2, <5>1, <5>2, <5>3
      <4> QED BY <4>1, <4>2, <4>3 DEF CurrentCopyOf, Submitting
    <3> QED BY <3>1, <3>2
  <2> QED BY <1>11, <2>1, <2>2 DEF CheckKey
<1>12. ASSUME NEW r \in Requests, Commit(r) PROVE CurrentCopyOf(q)'
  <2>1. /\ pc' = [pc EXCEPT ![r] = "saved"]
        /\ obj' = [obj EXCEPT ![r] = Submitted(r)]
        /\ arg' = arg
        /\ pc[r] = "checked"
    BY <1>12 DEF Commit, SaveSubmit
  <2>2. CASE q # r
    <3>1. pc[q] \in Submitting => arg[q].tx # arg[r].tx /\ arg[q].tx \in TxIds
      BY <1>1, <2>1, <2>2, Apart DEF Submitting, Copies, Working
    <3>2. \A u \in TxIds \ {arg[r].tx} : row'[u] = row[u]
      BY <1>12, SubmitCurrent
    <3>3. pc[q] \in Submitting => Current(row'[arg[q].tx], row[arg[q].tx])
      BY <3>1, <3>2 DEF Current
    <3> QED BY <1>1, <1>2, <2>1, <2>2, <3>3 DEF TypeOK
  <2>3. CASE q = r
    <3> DEFINE t == arg[q].tx
    <3>1. /\ row'[t].status = "submitted"
          /\ row'[t].key = arg[q].key
          /\ row'[t].tx_hash = arg[q].tx_hash
          /\ row'[t].block_hash = row[t].block_hash
          /\ row'[t].failure_reason = row[t].failure_reason
      BY <1>12, <2>3, SubmitCurrent
    <3>2. Current(obj[q], row[t]) /\ arg[q].op = "submit"
      BY <1>1, <2>1, <2>3 DEF CurrentCopyOf, Submitting
    <3>3. /\ Submitted(q).status = "submitted"
          /\ Submitted(q).key = arg[q].key
          /\ Submitted(q).tx_hash = arg[q].tx_hash
          /\ Submitted(q).block_hash = obj[q].block_hash
          /\ Submitted(q).failure_reason = obj[q].failure_reason
      BY <1>1 DEF Submitted, TypeOK, Columns
    <3>4. pc'[q] = "saved" /\ obj'[q] = Submitted(q)
      BY <1>1, <2>1, <2>3 DEF TypeOK
    <3>5. Current(Submitted(q), row'[t])
      BY <3>1, <3>2, <3>3 DEF Current
    <3> QED BY <2>1, <3>2, <3>4, <3>5 DEF CurrentCopyOf
  <2> QED BY <2>2, <2>3
<1>13. ASSUME NEW r \in Requests, SaveSubmit(r), ~Commit(r)
       PROVE  CurrentCopyOf(q)'
  BY <1>10, <1>13 DEF SaveSubmit, Commit
<1>14. ASSUME NEW r \in Requests, Refresh(r) PROVE CurrentCopyOf(q)'
  <2>1. CASE Finish(r, arg[r].tx)
    BY <1>10, <1>14, <2>1 DEF Refresh
  <2>2. CASE ~Finish(r, arg[r].tx)
    <3>1. /\ pc' = [pc EXCEPT ![r] = "finalizing"]
          /\ obj' = [obj EXCEPT ![r] = row[arg[r].tx]]
          /\ arg' = arg /\ row' = row
          /\ pc[r] = "saved"
      BY <1>14, <2>2 DEF Refresh
    <3>2. CASE q # r
      BY <1>1, <1>3, <3>1, <3>2 DEF TypeOK
    <3>3. CASE q = r
      <4>1. pc'[q] = "finalizing" /\ obj'[q] = row[arg[q].tx]
        BY <1>1, <3>1, <3>3 DEF TypeOK
      <4>2. arg[q].op = "submit"
        BY <1>1, <3>1, <3>3 DEF CurrentCopyOf, Submitting
      <4> QED BY <3>1, <4>1, <4>2 DEF CurrentCopyOf, Current
    <3> QED BY <3>2, <3>3
  <2> QED BY <2>1, <2>2
<1>15. ASSUME NEW r \in Requests, Finalize(r) PROVE CurrentCopyOf(q)'
  <2>1. /\ Finish(r, arg[r].tx)
        /\ arg' = arg
        /\ pc[r] = "finalizing"
    BY <1>15 DEF Finalize
  <2>2. CASE q = r
    BY <1>1, <1>4, <2>1, <2>2 DEF Finish, Over, TypeOK
  <2>3. CASE q # r
    <3>1. pc[q] \in Submitting => arg[q].tx # arg[r].tx /\ arg[q].tx \in TxIds
      BY <1>1, <2>1, <2>3, Apart DEF Submitting, Copies, Working
    <3>2. \A u \in TxIds \ {arg[r].tx} : row'[u] = row[u]
      BY <1>15, FinalizeCurrent
    <3>3. pc[q] \in Submitting => Current(row'[arg[q].tx], row[arg[q].tx])
      BY <3>1, <3>2 DEF Current
    <3> QED BY <1>1, <1>2, <2>1, <2>3, <3>3 DEF Finish, TypeOK
  <2> QED BY <2>2, <2>3
<1>16. ASSUME NEW r \in Requests, SimulateSave(r) PROVE CurrentCopyOf(q)'
  <2>1. Finish(r, arg[r].tx) /\ arg' = arg
    BY <1>16 DEF SimulateSave
  <2>2. CASE q = r
    BY <1>1, <1>4, <2>1, <2>2 DEF Finish, Over, TypeOK
  <2>3. CASE q # r
    <3>1. pc[q] \in Submitting => arg[q].tx \in TxIds
      BY <1>1 DEF Submitting, Copies, Working
    <3>2. pc[q] \in Submitting => Current(row'[arg[q].tx], row[arg[q].tx])
      BY <1>1, <1>16, <3>1, SimulateRow
    <3> QED BY <1>1, <1>2, <2>1, <2>3, <3>2 DEF Finish, TypeOK
  <2> QED BY <2>2, <2>3
<1>17. ASSUME NEW r \in Requests, Crash(r) PROVE CurrentCopyOf(q)'
  <2>1. CASE q # r
    BY <1>1, <1>3, <1>17, <2>1 DEF Crash, TypeOK
  <2>2. CASE q = r
    BY <1>1, <1>4, <1>17, <2>2 DEF Crash, Over, TypeOK
  <2> QED BY <2>1, <2>2
<1> QED
  BY <1>5, <1>6, <1>7, <1>8, <1>9, <1>11, <1>12, <1>13, <1>14, <1>15, <1>16,
     <1>17
  DEF Next, Continue

----------------------------------------------------------------------------
\* The submissions of a transaction change only when one is loaded.  It then
\* has the key of the earlier ones, which are all over.
LEMMA SubmissionsStep ==
    ASSUME OverlapInv, CurrentCopies, ModalClient, [Next]_vars, NEW t \in TxIds
    PROVE  \/ Submissions(t)' = Submissions(t)
           \/ \E r \in Requests :
                /\ Submissions(t)' = Submissions(t) \cup {r}
                /\ row' = row
                /\ \A q \in Submissions(t) :
                      pc[q] \in Over /\ arg[q].key = arg'[r].key
<1>1. TypeOK
  BY DEF OverlapInv
<1>2. ASSUME arg' = arg PROVE Submissions(t)' = Submissions(t)
  BY <1>2 DEF Submissions
<1>3. ASSUME NEW r \in Requests, NEW u \in TxIds, SimulateLoad(r, u)
      PROVE  Submissions(t)' = Submissions(t)
  <2>1. arg[r].op = "none"
    BY <1>3 DEF SimulateLoad, CurrentCopies
  <2>2. /\ arg'[r].op = "simulate"
        /\ \A q \in Requests : q # r => arg'[q] = arg[q]
    BY <1>1, <1>3 DEF SimulateLoad, TypeOK, NoArg
  <2> QED BY <2>1, <2>2 DEF Submissions
<1>4. ASSUME NEW r \in Requests, NEW u \in TxIds, NEW k \in Keys,
             NEW h \in Hashes, SubmitLoad(r, u, k, h)
      PROVE  \/ Submissions(t)' = Submissions(t)
             \/ /\ Submissions(t)' = Submissions(t) \cup {r}
                /\ row' = row
                /\ \A q \in Submissions(t) :
                      pc[q] \in Over /\ arg[q].key = arg'[r].key
  <2>1. arg[r].op = "none"
    BY <1>4 DEF SubmitLoad, CurrentCopies
  <2>2. /\ arg'[r] = [op |-> "submit", tx |-> u, key |-> k, tx_hash |-> h]
        /\ \A q \in Requests : q # r => arg'[q] = arg[q]
        /\ row' = row
    BY <1>1, <1>4 DEF SubmitLoad, TypeOK
  <2>3. arg'[r].op = "submit" /\ arg'[r].tx = u /\ arg'[r].key = k
    BY <2>2
  <2>4. CASE u # t
    BY <2>1, <2>2, <2>3, <2>4 DEF Submissions
  <2>5. CASE u = t
    <3>1. Submissions(t)' = Submissions(t) \cup {r}
      BY <2>1, <2>2, <2>3, <2>5 DEF Submissions
    <3>2. ModalAllows(t, k, h)
      BY <1>4, <2>5 DEF SubmitLoad
    <3> QED BY <2>2, <2>3, <3>1, <3>2 DEF ModalAllows, Submissions
  <2> QED BY <2>4, <2>5
<1> QED BY <1>2, <1>3, <1>4, ArgsKept

\* What OneAtATime says of the keys of t, and of its requests.
KeysAgree(t) ==
    /\ \A q, r \in Submissions(t) : arg[q].key = arg[r].key
    /\ \A r \in Submissions(t) : row[t].key \in {None, arg[r].key}
    /\ row[t].key # None => Submissions(t) # {}

OneWorking(t) ==
    \A q, r \in Submissions(t) : q # r => pc[q] \in Over \/ pc[r] \in Over

Fresh(t) ==
    row[t].status \in {"none", "built"} =>
        /\ row[t].key = None
        /\ row[t].tx_hash = None
        /\ row[t].block_hash = None

\* OneAtATime in three parts, one for each of its hazards.
LEMMA OneAtATimeParts ==
    OneAtATime <=> \A t \in TxIds : KeysAgree(t) /\ OneWorking(t) /\ Fresh(t)
BY DEF OneAtATime, KeysAgree, OneWorking, Fresh

\* How a step changes the key and the status of a row.
LEMMA RowStep ==
    ASSUME OverlapInv, CurrentCopies, OneAtATime, [Next]_vars, NEW t \in TxIds
    PROVE  \/ Current(row'[t], row[t])
           \/ /\ row'[t].status = "built"
              /\ row[t].key = None
              /\ row'[t].key = None
              /\ row'[t].tx_hash = None
              /\ row'[t].block_hash = None
           \/ /\ row'[t].status \in {"submitted", "confirmed", "failed"}
              /\ \/ row'[t].key = row[t].key
                 \/ \E r \in Submissions(t) : row'[t].key = arg[r].key
<1>1. TypeOK /\ Copies /\ Unbuilt
  BY DEF OverlapInv
<1>2. CASE row'[t] = row[t]
  BY <1>2 DEF Current
<1>3. ASSUME NEW u \in TxIds, Build(u), row'[t] # row[t]
      PROVE  /\ row'[t].status = "built"
             /\ row[t].key = None
             /\ row'[t].key = None
             /\ row'[t].tx_hash = None
             /\ row'[t].block_hash = None
  BY <1>1, <1>3, BuildRow DEF Unbuilt
<1>4. ASSUME NEW r \in Requests, Commit(r), row'[t] # row[t]
      PROVE  /\ row'[t].status = "submitted"
             /\ r \in Submissions(t)
             /\ row'[t].key = arg[r].key
  <2>1. /\ row'[arg[r].tx].status = "submitted"
        /\ row'[arg[r].tx].key = arg[r].key
        /\ \A u \in TxIds \ {arg[r].tx} : row'[u] = row[u]
    BY <1>4, SubmitCurrent
  <2>2. arg[r].op = "submit"
    BY <1>4 DEF Commit, SaveSubmit, CurrentCopies, Submitting
  <2> QED BY <1>4, <2>1, <2>2 DEF Submissions
<1>5. ASSUME NEW r \in Requests, Finalize(r), row'[t] # row[t]
      PROVE  /\ row'[t].status \in {"confirmed", "failed"}
             /\ row'[t].key = row[t].key
  <2>1. /\ row'[arg[r].tx].status \in {"confirmed", "failed"}
        /\ row'[arg[r].tx].key = row[arg[r].tx].key
        /\ \A u \in TxIds \ {arg[r].tx} : row'[u] = row[u]
    BY <1>5, FinalizeCurrent
  <2> QED BY <1>5, <2>1
<1>6. ASSUME NEW r \in Requests, SimulateSave(r)
      PROVE  Current(row'[t], row[t])
  BY <1>1, <1>6, SimulateRow
<1>7. ASSUME NEW u \in TxIds, Expire(u) PROVE row' = row
  BY <1>7 DEF Expire
<1>8. ASSUME NEW r \in Requests, ReadOnly(r) PROVE row' = row
  BY <1>8, ReadOnlyRows
<1>9. CASE row'[t] # row[t]
  <2>1. row' # row
    BY <1>9
  <2>2. ~ UNCHANGED vars
    BY <2>1 DEF vars
  <2> QED BY <1>3, <1>4, <1>5, <1>6, <1>7, <1>8, <1>9, <2>1, <2>2, Steps
<1> QED BY <1>2, <1>9

\* The modal sends no second submission while one is pending, and no other
\* step starts one.
LEMMA OneAtATimeStep ==
    ASSUME OverlapInv, CurrentCopies, OneAtATime, ModalClient, [Next]_vars
    PROVE  OneAtATime'
<1> SUFFICES ASSUME NEW t \in TxIds
             PROVE  /\ KeysAgree(t)'
                    /\ OneWorking(t)'
                    /\ Fresh(t)'
  BY DEF OneAtATime, KeysAgree, OneWorking, Fresh
<1>1. TypeOK /\ KeysAgree(t) /\ OneWorking(t) /\ Fresh(t)
  BY OneAtATimeParts DEF OverlapInv
<1>2. Submissions(t) \subseteq Requests
  BY DEF Submissions
<1>3. ASSUME NEW q \in Submissions(t)
      PROVE  /\ arg'[q] = arg[q]
             /\ pc[q] \in Over => pc'[q] \in Over
  <2>1. q \in Requests /\ pc[q] # "idle"
    BY DEF Submissions, CurrentCopies
  <2> QED BY <1>1, <2>1, OverStays
<1>4. Fresh(t)'
  BY <1>1, RowStep DEF Fresh, Current
<1>5. CASE Submissions(t)' = Submissions(t)
  <2>1. OneWorking(t)'
    <3>1. \A q, r \in Submissions(t) :
             q # r => pc'[q] \in Over \/ pc'[r] \in Over
      <4> SUFFICES ASSUME NEW q \in Submissions(t), NEW r \in Submissions(t),
                          q # r
                   PROVE  pc'[q] \in Over \/ pc'[r] \in Over
        OBVIOUS
      <4>1. pc[q] \in Over \/ pc[r] \in Over
        BY <1>1 DEF OneWorking
      <4> QED BY <1>3, <4>1
    <3> QED BY <1>5, <3>1 DEF OneWorking, Submissions
  <2>2. row'[t].key # row[t].key => \E r \in Submissions(t) :
                                         row'[t].key = arg[r].key
    BY RowStep DEF Current
  <2>3. KeysAgree(t)'
    <3>1. /\ \A q, r \in Submissions(t) : arg'[q].key = arg'[r].key
          /\ \A r \in Submissions(t) : row'[t].key \in {None, arg'[r].key}
          /\ row'[t].key # None => Submissions(t) # {}
      BY <1>1, <1>3, <2>2 DEF KeysAgree, Submissions
    <3> QED BY <1>5, <3>1 DEF KeysAgree, Submissions
  <2> QED BY <1>4, <2>1, <2>3
<1>6. CASE Submissions(t)' # Submissions(t)
  <2>1. PICK r \in Requests :
             /\ Submissions(t)' = Submissions(t) \cup {r}
             /\ row' = row
             /\ \A q \in Submissions(t) :
                   pc[q] \in Over /\ arg[q].key = arg'[r].key
    BY <1>6, SubmissionsStep
  <2>2. OneWorking(t)'
    <3>1. \A q, s \in Submissions(t) \cup {r} :
             q # s => pc'[q] \in Over \/ pc'[s] \in Over
      BY <1>3, <2>1 DEF Submissions
    <3> QED BY <2>1, <3>1 DEF OneWorking, Submissions
  <2>3. KeysAgree(t)'
    <3>1. /\ \A q, s \in Submissions(t) \cup {r} : arg'[q].key = arg'[s].key
          /\ \A q \in Submissions(t) \cup {r} :
                row'[t].key \in {None, arg'[q].key}
      BY <1>1, <1>3, <2>1 DEF KeysAgree, Submissions
    <3> QED BY <2>1, <3>1 DEF KeysAgree, Submissions
  <2> QED BY <1>4, <2>2, <2>3
<1> QED BY <1>5, <1>6

----------------------------------------------------------------------------
\* Events other than Commit's are not submissions.
LEMMA SubmitEvents ==
    ASSUME OverlapInv, [Next]_vars, ~ \E r \in Requests : Commit(r),
           NEW e \in audit', e.event = "submit"
    PROVE  e \in audit
<1>1. TypeOK /\ Copies
  BY DEF OverlapInv
<1>2. CASE UNCHANGED vars
  BY <1>2 DEF vars
<1>3. ASSUME NEW t \in TxIds, Build(t) PROVE e \in audit
  <2>1. e # Event("build", t, None, None)
    BY DEF Event
  <2> QED BY <1>3, <2>1 DEF Build
<1>4. ASSUME NEW t \in TxIds, Expire(t) PROVE e \in audit
  BY <1>4 DEF Expire
<1>5. ASSUME NEW r \in Requests, ReadOnly(r) PROVE e \in audit
  BY <1>5, ReadOnlyRows
<1>6. ASSUME NEW r \in Requests, Finalize(r) PROVE e \in audit
  <2>1. \A h : /\ e # Event("failed", arg[r].tx, h, r)
              /\ e # Event("confirmed", arg[r].tx, h, r)
    BY DEF Event
  <2>2. \/ audit' = audit \cup {Event("failed", arg[r].tx, obj[r].tx_hash, r)}
        \/ audit' = audit \cup
              {Event("confirmed", arg[r].tx, obj[r].tx_hash, r)}
    BY <1>1, <1>6, FinalizeRow
  <2> QED BY <2>1, <2>2
<1>7. ASSUME NEW r \in Requests, SimulateSave(r) PROVE e \in audit
  BY <1>1, <1>7, SimulateRow
<1> QED BY <1>2, <1>3, <1>4, <1>5, <1>6, <1>7, Steps

\* A key that a row carries stays, and a request that has left the steps
\* before its commit does not come back to them.
LEMMA KeyStays ==
    ASSUME OverlapInv, CurrentCopies, OneAtATime, [Next]_vars,
           NEW t \in TxIds, row[t].key # None
    PROVE  row'[t].key = row[t].key
<1>1. TypeOK /\ Copies
  BY DEF OverlapInv
<1>2. ASSUME NEW r \in Requests, Commit(r) PROVE row'[t].key = row[t].key
  BY <1>2, SubmitCurrent
<1>3. ASSUME NEW r \in Requests, Finalize(r) PROVE row'[t].key = row[t].key
  <2>1. \A u \in TxIds : row'[u].key = row[u].key
    BY <1>1, <1>3, FinalizeRow
  <2> QED BY <2>1
<1>4. ASSUME NEW r \in Requests, SimulateSave(r)
      PROVE  row'[t].key = row[t].key
  BY <1>1, <1>4, SimulateRow DEF Current
<1>5. ASSUME NEW u \in TxIds, Build(u) PROVE row'[t].key = row[t].key
  BY <1>1, <1>5, BuildRow DEF OverlapInv, Unbuilt
<1>6. ASSUME NEW u \in TxIds, Expire(u) PROVE row' = row
  BY <1>6 DEF Expire
<1>7. ASSUME NEW r \in Requests, ReadOnly(r) PROVE row' = row
  BY <1>7, ReadOnlyRows
<1>8. CASE UNCHANGED vars
  BY <1>8 DEF vars
<1> QED BY <1>2, <1>3, <1>4, <1>5, <1>6, <1>7, <1>8, Steps

\* A submission does not come back to the point before its commit.
LEMMA PastCommit ==
    ASSUME TypeOK, [Next]_vars, NEW q \in Requests,
           pc[q] \notin {"idle", "loaded", "checked"}
    PROVE  pc'[q] \notin {"idle", "loaded", "checked"}
<1>1. CASE pc'[q] = pc[q]
  BY <1>1
<1>2. ASSUME NEW r \in Requests, NEW t, Finish(r, t)
      PROVE  pc'[q] \notin {"idle", "loaded", "checked"}
  BY <1>2 DEF Finish, TypeOK
<1>3. ASSUME NEW r \in Requests, NEW t \in TxIds,
             \/ SimulateLoad(r, t)
             \/ \E k \in Keys, h \in Hashes : SubmitLoad(r, t, k, h)
      PROVE  pc'[q] = pc[q]
  <2>1. q # r
    BY <1>3 DEF SimulateLoad, SubmitLoad
  <2> QED BY <1>3, <2>1 DEF SimulateLoad, SubmitLoad, Finish, TypeOK
<1>4. ASSUME NEW r \in Requests, Continue(r) \/ Crash(r)
      PROVE  pc'[q] \notin {"idle", "loaded", "checked"}
  <2>1. CASE CheckKey(r)
    BY <2>1 DEF CheckKey, Finish, TypeOK
  <2>2. CASE SaveSubmit(r)
    BY <1>2, <2>2 DEF SaveSubmit, TypeOK
  <2>3. CASE Refresh(r)
    BY <1>2, <2>3 DEF Refresh, TypeOK
  <2>4. CASE Finalize(r) \/ SimulateSave(r)
    BY <1>2, <2>4 DEF Finalize, SimulateSave
  <2>5. CASE Crash(r)
    BY <2>5 DEF Crash, TypeOK
  <2> QED BY <1>4, <2>1, <2>2, <2>3, <2>4, <2>5 DEF Continue
<1> QED BY <1>1, <1>3, <1>4 DEF Next, vars, Build, Expire

\* A submission that was announced keeps its key in the row.
LEMMA SubmitsKeyedStep ==
    ASSUME OverlapInv, CurrentCopies, OneAtATime, SubmitsKeyed, [Next]_vars
    PROVE  SubmitsKeyed'
<1> SUFFICES ASSUME NEW e \in audit', e.event = "submit"
             PROVE  /\ e.by \in Requests
                    /\ arg'[e.by].op = "submit"
                    /\ arg'[e.by].tx = e.tx
                    /\ pc'[e.by] \notin {"idle", "loaded", "checked"}
                    /\ arg'[e.by].key # None
                    /\ row'[e.tx].key = arg'[e.by].key
  BY DEF SubmitsKeyed, Submissions
<1>1. TypeOK /\ Copies
  BY DEF OverlapInv
<1>2. CASE e \in audit
  <2>1. /\ e.by \in Requests
        /\ e.tx \in TxIds
        /\ arg[e.by].op = "submit"
        /\ arg[e.by].tx = e.tx
        /\ pc[e.by] \notin {"idle", "loaded", "checked"}
        /\ arg[e.by].key # None
        /\ row[e.tx].key = arg[e.by].key
    BY <1>1, <1>2 DEF SubmitsKeyed, Submissions, TypeOK, Events
  <2>2. arg'[e.by] = arg[e.by]
    BY <1>1, <2>1, OverStays
  <2>3. pc'[e.by] \notin {"idle", "loaded", "checked"}
    BY <1>1, <2>1, PastCommit
  <2>4. row'[e.tx].key = row[e.tx].key
    BY <2>1, KeyStays
  <2> QED BY <2>1, <2>2, <2>3, <2>4
<1>3. CASE e \notin audit
  <2>1. PICK r \in Requests : Commit(r)
    BY <1>3, SubmitEvents
  <2> DEFINE t == arg[r].tx
  <2>2. /\ t \in TxIds
        /\ row'[t].key = arg[r].key
        /\ audit' = audit \cup {Event("submit", t, arg[r].tx_hash, r)}
    BY <2>1, SubmitCurrent
  <2>3. e = Event("submit", t, arg[r].tx_hash, r)
    BY <1>3, <2>2
  <2>4. e.by = r /\ e.tx = t
    BY <2>3 DEF Event
  <2>5. /\ arg' = arg
        /\ pc'[r] = "saved"
        /\ pc[r] = "checked"
    BY <1>1, <2>1 DEF Commit, SaveSubmit, TypeOK
  <2>6. arg[r].op = "submit" /\ arg[r].key # None
    BY <1>1, <2>5 DEF CurrentCopies, Copies, Submitting
  <2> QED BY <2>2, <2>4, <2>5, <2>6
<1> QED BY <1>2, <1>3

\* No step announces a second submission under a key: a retry finds the key.
LEMMA SubmitOnceStep ==
    ASSUME OverlapInv, CurrentCopies, OneAtATime, SubmitsKeyed, SubmitOnce,
           [Next]_vars
    PROVE  SubmitOnce'
<1> SUFFICES ASSUME NEW e \in audit', NEW f \in audit',
                    e.event = "submit", f.event = "submit",
                    Owner[e.tx] = Owner[f.tx],
                    arg'[e.by].key = arg'[f.by].key
             PROVE  e = f
  BY DEF SubmitOnce
<1>1. TypeOK /\ Copies
  BY DEF OverlapInv
<1>2. ASSUME NEW g \in audit, g.event = "submit"
      PROVE  /\ g.tx \in TxIds
             /\ arg'[g.by] = arg[g.by]
             /\ arg[g.by].key # None
             /\ row[g.tx].key = arg[g.by].key
  <2>1. /\ g.by \in Requests
        /\ g.tx \in TxIds
        /\ pc[g.by] # "idle"
        /\ arg[g.by].key # None
        /\ row[g.tx].key = arg[g.by].key
    BY <1>1, <1>2 DEF SubmitsKeyed, Submissions, TypeOK, Events
  <2> QED BY <1>1, <2>1, OverStays
\* An event that was there and the one that Commit adds have different keys.
<1>3. ASSUME NEW g \in audit, NEW n \in audit', n \notin audit,
             g.event = "submit", n.event = "submit",
             Owner[g.tx] = Owner[n.tx]
      PROVE  arg'[g.by].key # arg'[n.by].key
  <2>1. PICK r \in Requests : Commit(r)
    BY <1>3, SubmitEvents
  <2> DEFINE t == arg[r].tx
  <2>2. /\ t \in TxIds
        /\ row[t].key = None
        /\ audit' = audit \cup {Event("submit", t, arg[r].tx_hash, r)}
    BY <2>1, SubmitCurrent
  <2>3. n.by = r /\ n.tx = t
    <3>1. n = Event("submit", t, arg[r].tx_hash, r)
      BY <1>3, <2>2
    <3> QED BY <3>1 DEF Event
  <2>4. arg' = arg /\ KeyHolders(t, arg[r].key) = {}
    BY <2>1 DEF Commit, SaveSubmit
  <2>5. /\ g.tx \in TxIds
        /\ arg[g.by].key # None
        /\ row[g.tx].key = arg[g.by].key
    BY <1>2, <1>3
  <2>6. g.tx # t
    BY <2>2, <2>5
  <2>7. row[g.tx].key # arg[r].key
    BY <1>3, <2>3, <2>4, <2>5, <2>6 DEF KeyHolders
  <2> QED BY <2>3, <2>4, <2>5, <2>7
<1>4. CASE e \in audit /\ f \in audit
  BY <1>2, <1>4 DEF SubmitOnce
<1>5. CASE e \in audit /\ f \notin audit
  BY <1>3, <1>5
<1>6. CASE e \notin audit /\ f \in audit
  BY <1>3, <1>6
<1>7. CASE e \notin audit /\ f \notin audit
  <2>1. PICK r \in Requests : Commit(r)
    BY <1>7, SubmitEvents
  <2>2. audit' = audit \cup {Event("submit", arg[r].tx, arg[r].tx_hash, r)}
    BY <2>1, SubmitCurrent
  <2> QED BY <1>7, <2>2
<1> QED BY <1>4, <1>5, <1>6, <1>7

\* The invariant holds before the first request.
LEMMA ModalInvInit == Init => ModalInv
<1> SUFFICES ASSUME Init PROVE ModalInv
  OBVIOUS
<1>1. OverlapInv
  BY OverlapInit
<1>2. /\ \A t \in TxIds : /\ row[t].status = "none"
                         /\ row[t].key = None
                         /\ row[t].tx_hash = None
                         /\ row[t].block_hash = None
      /\ \A r \in Requests : pc[r] = "idle" /\ arg[r].op = "none"
      /\ audit = {}
  BY DEF Init, NoRow, NoArg
<1> QED
  BY <1>1, <1>2
  DEF ModalInv, CurrentCopies, OneAtATime, SubmitsKeyed, SubmitOnce,
      Submissions, Submitting

\* Every step keeps the invariant as long as the modal is the only client.
LEMMA ModalInvStep == ModalClient /\ ModalInv /\ [Next]_vars => ModalInv'
BY OverlapStep, CurrentStep, OneAtATimeStep, SubmitsKeyedStep, SubmitOnceStep
DEF ModalInv

\* With submissions from the modal only, the strengthened invariant of
\* current copies holds.
THEOREM ModalInvariant == ASSUME ModalClient PROVE Spec => []ModalInv
<1>1. Init => ModalInv
  BY ModalInvInit
<1>2. ModalInv /\ [Next]_vars => ModalInv'
  BY ModalInvStep
<1> QED BY <1>1, <1>2, PTL DEF Spec

\* An idempotency key of a wallet stands for one submission, whatever is
\* retried, as long as submissions come from the modal.
THEOREM SubmittedOnce == ASSUME ModalClient PROVE Spec => []SubmitOnce
<1>1. ModalInv => SubmitOnce
  BY DEF ModalInv
<1> QED BY <1>1, ModalInvariant, PTL

----------------------------------------------------------------------------
\* The row of one transaction has changed and the refinement mapping with it.
LEMMA Mapped ==
    ASSUME NEW t \in TxIds, \A u \in TxIds \ {t} : row'[u] = row[u]
    PROVE  /\ [u \in TxIds |-> row'[u].status] =
                [[u \in TxIds |-> row[u].status] EXCEPT ![t] = row'[t].status]
           /\ [u \in TxIds |-> row'[u].tx_hash] =
                [[u \in TxIds |-> row[u].tx_hash] EXCEPT ![t] = row'[t].tx_hash]
           /\ [u \in TxIds |-> row'[u].block_hash] =
                [[u \in TxIds |-> row[u].block_hash]
                    EXCEPT ![t] = row'[t].block_hash]
OBVIOUS

\* The empty table is the initial state of the life cycle.
LEMMA LifecycleInit == Init => Lifecycle!Init
BY DEF Init, NoRow, Lifecycle!Init

\* A step that leaves the columns of the life cycle alone stutters.
LEMMA LifecycleStutter ==
    ASSUME \A u \in TxIds : Current(row'[u], row[u])
    PROVE  UNCHANGED Lifecycle!vars
BY DEF Lifecycle!vars, Current

\* Every step of the service is a step of the life cycle, or stutters.
LEMMA LifecycleStep ==
    ASSUME ModalInv, [Next]_vars
    PROVE  [Lifecycle!Next]_(Lifecycle!vars)
<1>1. OverlapInv /\ CurrentCopies /\ OneAtATime /\ TypeOK /\ Copies /\ Unbuilt
  BY DEF ModalInv, OverlapInv
<1>2. ASSUME row' = row PROVE UNCHANGED Lifecycle!vars
  BY <1>2, LifecycleStutter DEF Current
<1>3. CASE UNCHANGED vars
  BY <1>2, <1>3 DEF vars
<1>4. ASSUME NEW t \in TxIds, Build(t) PROVE Lifecycle!Next
  <2>1. /\ row[t].status = "none"
        /\ row'[t].status = "built"
        /\ row'[t].tx_hash = row[t].tx_hash
        /\ row'[t].block_hash = row[t].block_hash
        /\ \A u \in TxIds \ {t} : row'[u] = row[u]
    BY <1>1, <1>4, BuildRow DEF Unbuilt
  <2>2. Lifecycle!Build(t)
    BY <2>1, Mapped DEF Lifecycle!Build
  <2> QED BY <2>2 DEF Lifecycle!Next
<1>5. ASSUME NEW t \in TxIds, Expire(t) PROVE UNCHANGED Lifecycle!vars
  BY <1>2, <1>5 DEF Expire
<1>6. ASSUME NEW r \in Requests, ReadOnly(r) PROVE UNCHANGED Lifecycle!vars
  BY <1>2, <1>6, ReadOnlyRows
<1>7. ASSUME NEW r \in Requests, Commit(r) PROVE Lifecycle!Next
  <2>0. PICK t \in TxIds, h \in Hashes : t = arg[r].tx /\ h = arg[r].tx_hash
    <3>1. arg[r].tx \in TxIds
      BY <1>1, <1>7, SubmitCurrent
    <3>2. arg[r].tx_hash \in Hashes
      BY <1>1, <1>7
      DEF Commit, SaveSubmit, Copies, Submitting, TypeOK, Arguments
    <3> QED BY <3>1, <3>2
  <2>1. /\ row[t].status = "built"
        /\ row'[t].status = "submitted"
        /\ row'[t].tx_hash = h
        /\ row'[t].block_hash = row[t].block_hash
        /\ \A u \in TxIds \ {t} : row'[u] = row[u]
    BY <1>1, <1>7, <2>0, SubmitCurrent
  <2>2. Lifecycle!Submit(t, h)
    BY <2>1, Mapped DEF Lifecycle!Submit
  <2> QED BY <2>2 DEF Lifecycle!Next
<1>8. ASSUME NEW r \in Requests, Finalize(r) PROVE Lifecycle!Next
  <2>0. PICK t \in TxIds : t = arg[r].tx
    BY <1>1, <1>8, FinalizeCurrent
  <2>1. /\ row[t].status = "submitted"
        /\ row'[t].tx_hash = row[t].tx_hash
        /\ \A u \in TxIds \ {t} : row'[u] = row[u]
    BY <1>1, <1>8, <2>0, FinalizeCurrent
  <2>2. \/ /\ <<t, row[t].tx_hash>> \in Failing
           /\ row'[t].status = "failed"
           /\ row'[t].block_hash = row[t].block_hash
        \/ /\ <<t, row[t].tx_hash>> \notin Failing
           /\ row'[t].status = "confirmed"
           /\ row'[t].block_hash = row[t].tx_hash
    BY <1>1, <1>8, <2>0, FinalizeCurrent
  <2>3. Lifecycle!Confirm(t) \/ Lifecycle!Fail(t)
    BY <2>1, <2>2, Mapped DEF Lifecycle!Confirm, Lifecycle!Fail
  <2> QED BY <2>1, <2>3 DEF Lifecycle!Next
<1>9. ASSUME NEW r \in Requests, SimulateSave(r)
      PROVE  UNCHANGED Lifecycle!vars
  BY <1>1, <1>9, SimulateRow, LifecycleStutter
<1> QED
  BY <1>3, <1>4, <1>5, <1>6, <1>7, <1>8, <1>9, Steps

\* With submissions from the modal only, every committed row goes through the
\* life cycle of StakingLifecycle: StakingTransactions implements it.
THEOREM Implements == ASSUME ModalClient PROVE Spec => LifecycleSpec
<1>1. Init => Lifecycle!Init
  BY LifecycleInit
<1>2. ModalInv /\ [Next]_vars => [Lifecycle!Next]_(Lifecycle!vars)
  BY LifecycleStep
<1> QED
  BY <1>1, <1>2, ModalInvariant, PTL DEF Spec, LifecycleSpec, Lifecycle!Spec

----------------------------------------------------------------------------
\* What makes AnswerCarriesKey inductive: only a request that is done has an
\* answer, and what a request has saved is in the row.
AnswerOf(r) ==
    /\ pc[r] # "done" => answer[r] = None
    /\ pc[r] = "simulating" => arg[r].op = "simulate"
    /\ pc[r] = "saved" => row[arg[r].tx].key = arg[r].key
    /\ arg[r].op = "submit" /\ answer[r] # None =>
           /\ answer[r] \in TxIds
           /\ arg[r].key # None
           /\ row[answer[r]].key = arg[r].key

Answers == \A r \in Requests : AnswerOf(r)

\* What a submission answers when it ends without a commit of its own.
LEMMA AnswerGiven ==
    ASSUME ModalClient, ModalInv, Answers, NEW r \in Requests,
           \/ CheckKey(r) \/ Refresh(r)
           \/ \E t \in TxIds, k \in Keys, h \in Hashes : SubmitLoad(r, t, k, h)
    PROVE  /\ row' = row
           /\ pc'[r] \in {"loaded", "checked", "finalizing", "done"}
           /\ pc'[r] # "done" => answer' = answer
           /\ pc'[r] = "done" /\ answer'[r] # None =>
                  /\ answer'[r] \in TxIds
                  /\ arg'[r].key # None
                  /\ row[answer'[r]].key = arg'[r].key
           /\ \A q \in Requests \ {r} : pc'[q] = pc[q] /\ answer'[q] = answer[q]
<1>1. /\ TypeOK /\ Copies /\ Traced /\ CurrentCopies /\ OneAtATime
  BY DEF ModalInv, OverlapInv
<1>2. CASE CheckKey(r)
  <2>1. /\ arg[r].tx \in TxIds /\ arg[r].key # None
        /\ Current(obj[r], row[arg[r].tx])
    BY <1>1, <1>2 DEF CheckKey, Copies, CurrentCopies, Working, Submitting
  <2>2. CASE \E u \in KeyHolders(arg[r].tx, arg[r].key) : Finish(r, u)
    BY <1>1, <1>2, <2>1, <2>2 DEF CheckKey, KeyHolders, Finish, TypeOK
  <2>3. CASE obj[r].key = arg[r].key /\ Finish(r, arg[r].tx)
    BY <1>1, <1>2, <2>1, <2>3 DEF CheckKey, Finish, TypeOK, Current
  <2>4. CASE pc' = [pc EXCEPT ![r] = "checked"] /\ UNCHANGED <<obj, answer>>
    BY <1>1, <1>2, <2>4 DEF CheckKey, TypeOK
  <2> QED BY <1>2, <2>2, <2>3, <2>4 DEF CheckKey
<1>3. CASE Refresh(r)
  <2>1. arg[r].tx \in TxIds /\ arg[r].key # None
        /\ row[arg[r].tx].key = arg[r].key
    BY <1>1, <1>3 DEF Refresh, Copies, Working, Submitting, Answers,
           AnswerOf
  <2>2. CASE Finish(r, arg[r].tx)
    BY <1>1, <1>3, <2>1, <2>2 DEF Refresh, Finish, TypeOK
  <2>3. CASE pc' = [pc EXCEPT ![r] = "finalizing"] /\ UNCHANGED answer
    BY <1>1, <1>3, <2>3 DEF Refresh, TypeOK
  <2> QED BY <1>3, <2>2, <2>3 DEF Refresh
<1>4. ASSUME NEW t \in TxIds, NEW k \in Keys, NEW h \in Hashes,
             SubmitLoad(r, t, k, h)
      PROVE  /\ row' = row
             /\ pc'[r] \in {"loaded", "done"}
             /\ pc'[r] # "done" => answer' = answer
             /\ pc'[r] = "done" /\ answer'[r] # None =>
                    /\ answer'[r] \in TxIds
                    /\ arg'[r].key # None
                    /\ row[answer'[r]].key = arg'[r].key
             /\ \A q \in Requests \ {r} :
                    pc'[q] = pc[q] /\ answer'[q] = answer[q]
  <2>1. arg'[r].key = k /\ k # None
    BY <1>1, <1>4, NoneAssumption DEF SubmitLoad, TypeOK
  <2>2. row[t].status \in Terminal => row[t].key = k
    <3> SUFFICES ASSUME row[t].status \in Terminal PROVE row[t].key = k
      OBVIOUS
    <3>1. row[t].key # None
      BY <1>1 DEF Traced
    <3>2. PICK q \in Requests : arg[q].op = "submit" /\ arg[q].tx = t
      BY <1>1, <3>1 DEF OneAtATime, Submissions
    <3>3. row[t].key = arg[q].key
      BY <1>1, <3>1, <3>2 DEF OneAtATime, Submissions
    <3>4. arg[q].key = k
      BY <1>4, <3>2 DEF SubmitLoad, ModalAllows
    <3> QED BY <3>3, <3>4
  <2>3. CASE Finish(r, None)
    BY <1>1, <1>4, <2>3 DEF SubmitLoad, Finish, TypeOK
  <2>4. CASE row[t].status \in Terminal /\ Finish(r, t)
    BY <1>1, <1>4, <2>1, <2>2, <2>4 DEF SubmitLoad, Finish, TypeOK
  <2>5. CASE pc' = [pc EXCEPT ![r] = "loaded"] /\ UNCHANGED answer
    BY <1>1, <1>4, <2>5 DEF SubmitLoad, TypeOK
  <2> QED BY <1>4, <2>3, <2>4, <2>5 DEF SubmitLoad
<1> QED BY <1>2, <1>3, <1>4

\* The answer of a request that does not move stays right.
LEMMA AnswerStays ==
    ASSUME ModalInv, Answers, [Next]_vars, NEW q \in Requests,
           pc'[q] = pc[q], answer'[q] = answer[q], arg'[q] = arg[q]
    PROVE  AnswerOf(q)'
<1>1. OverlapInv /\ CurrentCopies /\ OneAtATime /\ TypeOK /\ Copies
  BY DEF ModalInv, OverlapInv
<1>2. ASSUME pc[q] = "saved" PROVE row'[arg[q].tx].key = arg[q].key
  <2>1. /\ arg[q].tx \in TxIds /\ arg[q].key # None
        /\ row[arg[q].tx].key = arg[q].key
    BY <1>1, <1>2 DEF Copies, Working, Submitting, Answers, AnswerOf
  <2> QED BY <1>1, <2>1, KeyStays
<1>3. ASSUME arg[q].op = "submit", answer[q] # None
      PROVE  /\ answer[q] \in TxIds
             /\ arg[q].key # None
             /\ row'[answer[q]].key = arg[q].key
  <2>1. /\ answer[q] \in TxIds
        /\ arg[q].key # None
        /\ row[answer[q]].key = arg[q].key
    BY <1>3 DEF Answers, AnswerOf
  <2> QED BY <1>1, <2>1, KeyStays
<1> QED BY <1>2, <1>3 DEF Answers, AnswerOf

\* A request that only reads gives a right answer, or none.
LEMMA ReaderAnswers ==
    ASSUME ModalClient, ModalInv, Answers, NEW r \in Requests, ReadOnly(r)
    PROVE  /\ AnswerOf(r)'
           /\ \A q \in Requests \ {r} : /\ pc'[q] = pc[q]
                                        /\ answer'[q] = answer[q]
                                        /\ arg'[q] = arg[q]
<1>1. TypeOK /\ CurrentCopies
  BY DEF ModalInv, OverlapInv
<1>2. CASE \/ CheckKey(r) \/ Refresh(r)
           \/ \E t \in TxIds, k \in Keys, h \in Hashes : SubmitLoad(r, t, k, h)
  <2>1. pc[r] # "done" /\ \A q \in Requests \ {r} : arg'[q] = arg[q]
    BY <1>1, <1>2 DEF CheckKey, Refresh, SubmitLoad, TypeOK
  <2>2. answer[r] = None
    BY <2>1 DEF Answers, AnswerOf
  <2> QED BY <1>2, <2>1, <2>2, AnswerGiven DEF AnswerOf
<1>3. ASSUME NEW t \in TxIds, SimulateLoad(r, t)
      PROVE  /\ AnswerOf(r)'
             /\ \A q \in Requests \ {r} : /\ pc'[q] = pc[q]
                                          /\ answer'[q] = answer[q]
                                          /\ arg'[q] = arg[q]
  <2>1. arg'[r].op = "simulate"
    BY <1>1, <1>3 DEF SimulateLoad, TypeOK
  <2>2. pc[r] = "idle" /\ answer[r] = None
    BY <1>3 DEF SimulateLoad, Answers, AnswerOf
  <2>3. CASE Finish(r, None)
    BY <1>1, <1>3, <2>1, <2>3 DEF SimulateLoad, Finish, TypeOK, AnswerOf
  <2>4. CASE pc' = [pc EXCEPT ![r] = "simulating"] /\ UNCHANGED answer
    BY <1>1, <1>3, <2>1, <2>2, <2>4 DEF SimulateLoad, TypeOK, AnswerOf
  <2> QED BY <1>3, <2>3, <2>4 DEF SimulateLoad
<1>4. CASE SaveSubmit(r) /\ KeyHolders(arg[r].tx, arg[r].key) # {}
  BY <1>1, <1>4 DEF SaveSubmit, Finish, TypeOK, AnswerOf
<1>5. CASE Crash(r)
  <2>1. pc[r] # "done"
    BY <1>5 DEF Crash, Working
  <2>2. answer[r] = None
    BY <2>1 DEF Answers, AnswerOf
  <2> QED BY <1>1, <1>5, <2>2 DEF Crash, TypeOK, AnswerOf
<1> QED BY <1>2, <1>3, <1>4, <1>5 DEF ReadOnly

LEMMA AnswersStep ==
    ASSUME ModalClient, ModalInv, Answers, [Next]_vars
    PROVE  Answers'
<1>1. OverlapInv /\ CurrentCopies /\ OneAtATime /\ TypeOK /\ Copies
  BY DEF ModalInv, OverlapInv
<1>2. ASSUME UNCHANGED <<pc, answer, arg>> PROVE Answers'
  BY <1>2, AnswerStays DEF Answers
<1>3. ASSUME NEW r \in Requests, AnswerOf(r)',
             \A q \in Requests \ {r} : /\ pc'[q] = pc[q]
                                      /\ answer'[q] = answer[q]
                                      /\ arg'[q] = arg[q]
      PROVE  Answers'
  <2>1. ASSUME NEW q \in Requests \ {r} PROVE AnswerOf(q)'
    BY <1>3, AnswerStays
  <2> QED BY <1>3, <2>1 DEF Answers
<1>4. CASE UNCHANGED vars
  BY <1>2, <1>4 DEF vars
<1>5. ASSUME NEW t \in TxIds, Build(t) \/ Expire(t) PROVE Answers'
  BY <1>2, <1>5 DEF Build, Expire
<1>6. ASSUME NEW r \in Requests, ReadOnly(r) PROVE Answers'
  BY <1>3, <1>6, ReaderAnswers
<1>7. ASSUME NEW r \in Requests, Commit(r) PROVE Answers'
  <2>1. row'[arg[r].tx].key = arg[r].key
    BY <1>1, <1>7, SubmitCurrent
  <2>2. /\ pc[r] = "checked" /\ pc' = [pc EXCEPT ![r] = "saved"]
        /\ UNCHANGED <<answer, arg>>
    BY <1>7 DEF Commit, SaveSubmit
  <2>3. answer[r] = None
    BY <2>2 DEF Answers, AnswerOf
  <2>4. pc'[r] = "saved" /\ \A q \in Requests \ {r} : pc'[q] = pc[q]
    BY <1>1, <2>2 DEF TypeOK
  <2>5. AnswerOf(r)'
    BY <2>1, <2>2, <2>3, <2>4 DEF AnswerOf
  <2> QED BY <1>3, <2>2, <2>4, <2>5
<1>8. ASSUME NEW r \in Requests, Finalize(r) PROVE Answers'
  <2>1. /\ arg[r].tx \in TxIds /\ arg[r].key # None
        /\ row[arg[r].tx].key # None /\ arg[r].op = "submit"
    BY <1>1, <1>8
       DEF Finalize, Copies, CurrentCopies, Current, Working, Submitting
  <2>2. row[arg[r].tx].key = arg[r].key
    BY <1>1, <2>1 DEF OneAtATime, Submissions
  <2>3. row'[arg[r].tx].key = arg[r].key
    BY <1>1, <2>1, <2>2, KeyStays
  <2>4. Finish(r, arg[r].tx) /\ UNCHANGED arg
    BY <1>8 DEF Finalize
  <2>5. /\ pc'[r] = "done" /\ answer'[r] = arg[r].tx
        /\ \A q \in Requests \ {r} : pc'[q] = pc[q] /\ answer'[q] = answer[q]
    BY <1>1, <2>4 DEF Finish, TypeOK
  <2>6. AnswerOf(r)'
    BY <2>1, <2>3, <2>4, <2>5 DEF AnswerOf
  <2> QED BY <1>3, <2>4, <2>5, <2>6
<1>9. ASSUME NEW r \in Requests, SimulateSave(r) PROVE Answers'
  <2>1. arg[r].op = "simulate"
    BY <1>9 DEF SimulateSave, Answers, AnswerOf
  <2>2. Finish(r, arg[r].tx) /\ UNCHANGED arg
    BY <1>9 DEF SimulateSave
  <2>3. /\ pc'[r] = "done"
        /\ \A q \in Requests \ {r} : pc'[q] = pc[q] /\ answer'[q] = answer[q]
    BY <1>1, <2>2 DEF Finish, TypeOK
  <2>4. AnswerOf(r)'
    BY <2>1, <2>2, <2>3 DEF AnswerOf
  <2> QED BY <1>3, <2>2, <2>3, <2>4
<1> QED BY <1>4, <1>5, <1>6, <1>7, <1>8, <1>9, Steps

\* A submission of the modal that is answered with a transaction is answered
\* with the one that carries its key.
THEOREM Answered == ASSUME ModalClient PROVE Spec => []AnswerCarriesKey
<1>1. Init => Answers
  BY DEF Init, Answers, AnswerOf, NoArg
<1>2. ModalInv /\ Answers /\ [Next]_vars => Answers'
  BY AnswersStep
<1>3. Answers => AnswerCarriesKey
  BY DEF Answers, AnswerOf, AnswerCarriesKey
<1> QED BY <1>1, <1>2, <1>3, ModalInvariant, PTL DEF Spec
=============================================================================
