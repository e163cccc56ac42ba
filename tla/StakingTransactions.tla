------------------------ MODULE StakingTransactions ------------------------
(***************************************************************************)
(* The staking transaction service (backend/app/services/staking) as it    *)
(* runs behind the API: every request has its own database session, reads  *)
(* the row once, works on that copy across awaits, and writes it back in   *)
(* short READ COMMITTED transactions.  A step of a request is one database *)
(* transaction or one statement of it, so requests interleave wherever the *)
(* code awaits the database.                                               *)
(*                                                                         *)
(* The watcher's verdict is the digest of the hash and the id, a fixed but *)
(* arbitrary relation: Failing.  tx_hash stands for the three columns that *)
(* are always written together with it (signed_extrinsic, submitted_at),   *)
(* and block_hash, a digest of tx_hash, is recorded as the hash it digests.*)
(***************************************************************************)
CONSTANTS
    TxIds,        \* ids of the transactions that may be built
    Wallets,      \* wallet addresses
    Owner,        \* Owner[t]: the wallet transaction t is built for
    Keys,         \* values of the Idempotency-Key header
    Hashes,       \* extrinsic hashes a client may submit
    Failing,      \* the pairs <<t, h>> whose digest the watcher fails
    SimResults,   \* how the RPC node may answer a dry run
    Requests,     \* submit and simulate requests; each is served once
    ModalClient,  \* TRUE: submissions come from StakingActionModal only
    None          \* the null of a nullable column

ASSUME OwnerAssumption == Owner \in [TxIds -> Wallets]
ASSUME FailingAssumption == Failing \subseteq TxIds \X Hashes
ASSUME SimAssumption == SimResults \subseteq {"ok", "skipped"}
ASSUME ClientAssumption == ModalClient \in BOOLEAN
\* The failure reason the watcher writes.
Watcher == "watcher"

ASSUME NoneAssumption == None \notin Keys \cup Hashes \cup TxIds \cup {Watcher}

VARIABLES
    row,      \* row[t]: the committed row of t in staking_transactions
    expired,  \* expired[t]: expires_at of t has passed
    audit,    \* the committed staking.* audit events
    pc,       \* pc[r]: where the handler of request r stands
    arg,      \* arg[r]: what request r asked for
    obj,      \* obj[r]: the ORM object the session of r holds
    answer    \* answer[r]: the transaction request r was answered with

vars == <<row, expired, audit, pc, arg, obj, answer>>

----------------------------------------------------------------------------
Terminal == {"confirmed", "failed"}

Columns ==
    [status : {"none", "built", "submitted"} \cup Terminal,
     key : Keys \cup {None},
     tx_hash : Hashes \cup {None},
     block_hash : Hashes \cup {None},
     failure_reason : {Watcher, None},
     simulation : {"ok", "skipped"}]

\* No row yet: the id has not been handed out.
NoRow == [status |-> "none", key |-> None, tx_hash |-> None,
          block_hash |-> None, failure_reason |-> None, simulation |-> "skipped"]

\* The ORM writes a column only when its value differs from the loaded one.
Net(current, loaded, new) == IF new = loaded THEN current ELSE new

\* Mutated form of Flush: an UPDATE of every column.
FlushAll(current, loaded, new) == new

Flush(current, loaded, new) ==
    [status     |-> Net(current.status, loaded.status, new.status),
     key        |-> Net(current.key, loaded.key, new.key),
     tx_hash    |-> Net(current.tx_hash, loaded.tx_hash, new.tx_hash),
     block_hash |-> Net(current.block_hash, loaded.block_hash, new.block_hash),
     failure_reason |->
         Net(current.failure_reason, loaded.failure_reason, new.failure_reason),
     simulation |-> Net(current.simulation, loaded.simulation, new.simulation)]

Event(name, t, h, r) == [event |-> name, tx |-> t, tx_hash |-> h, by |-> r]

Working == {"loaded", "checked", "saved", "finalizing", "simulating"}
Over == {"done", "crashed"}

NoArg == [op |-> "none", tx |-> None, key |-> None, tx_hash |-> None]

Init ==
    /\ row = [t \in TxIds |-> NoRow]
    /\ expired = [t \in TxIds |-> FALSE]
    /\ audit = {}
    /\ pc = [r \in Requests |-> "idle"]
    /\ arg = [r \in Requests |-> NoArg]
    /\ obj = [r \in Requests |-> NoRow]
    /\ answer = [r \in Requests |-> None]

----------------------------------------------------------------------------
(***************************************************************************)
(* Building.  Nothing is stored before the RPC calls have returned; the    *)
(* row and its audit event are committed together.                         *)
(***************************************************************************)
Build(t) ==
    /\ row[t].status = "none"
    /\ \E s \in SimResults :
         row' = [row EXCEPT ![t] = [NoRow EXCEPT !.status = "built",
                                                 !.simulation = s]]
    /\ audit' = audit \cup {Event("build", t, None, None)}
    /\ UNCHANGED <<expired, pc, arg, obj, answer>>

\* The clock passes expires_at.
Expire(t) ==
    /\ row[t].status # "none"
    /\ ~expired[t]
    /\ expired' = [expired EXCEPT ![t] = TRUE]
    /\ UNCHANGED <<row, audit, pc, arg, obj, answer>>

----------------------------------------------------------------------------
(***************************************************************************)
(* Submitting.                                                             *)
(***************************************************************************)
\* Request r is over: its session is closed and holds no object any more.
Finish(r, t) ==
    /\ pc' = [pc EXCEPT ![r] = "done"]
    /\ obj' = [obj EXCEPT ![r] = NoRow]
    /\ answer' = [answer EXCEPT ![r] = t]

\* StakingActionModal keeps one key (and so one signed extrinsic) for the
\* transaction it shows, and its button is disabled while a submission is
\* pending: it sends another only after the earlier one has ended.  That the
\* handler has ended too is assumed here: a connection that breaks under a
\* running handler makes the modal an unrestricted client.
ModalAllows(t, k, h) ==
    \A q \in Requests :
        arg[q].op = "submit" /\ arg[q].tx = t =>
            pc[q] \in Over /\ arg[q].key = k /\ arg[q].tx_hash = h

\* submit_staking_transaction loads the row; a preview that has expired is
\* refused (the assignment status = "expired" dies with the session), a
\* settled transaction is returned as it is.
SubmitLoad(r, t, k, h) ==
    /\ pc[r] = "idle"
    /\ row[t].status # "none"
    /\ ModalClient => ModalAllows(t, k, h)
    /\ arg' = [arg EXCEPT ![r] = [op |-> "submit", tx |-> t,
                                  key |-> k, tx_hash |-> h]]
    /\ \/ /\ expired[t]
          /\ Finish(r, None)
       \/ /\ ~expired[t]
          /\ row[t].status \in Terminal
          /\ Finish(r, t)
       \/ /\ ~expired[t]
          /\ row[t].status \notin Terminal
          /\ pc' = [pc EXCEPT ![r] = "loaded"]
          /\ obj' = [obj EXCEPT ![r] = row[t]]
          /\ UNCHANGED answer
    /\ UNCHANGED <<row, expired, audit>>

\* Other committed transactions of t's wallet that carry key k.
KeyHolders(t, k) ==
    {u \in TxIds \ {t} : Owner[u] = Owner[t] /\ row[u].key = k}

\* Mutated forms of CheckKey: a retry is not recognised; the transaction that
\* was named is returned in place of the holder of the key.
CheckKeyNoRetry(r) ==
    /\ pc[r] = "loaded"
    /\ \/ \E u \in KeyHolders(arg[r].tx, arg[r].key) : Finish(r, u)
       \/ /\ KeyHolders(arg[r].tx, arg[r].key) = {}
          /\ pc' = [pc EXCEPT ![r] = "checked"]
          /\ UNCHANGED <<obj, answer>>
    /\ UNCHANGED <<row, expired, audit, arg>>

CheckKeyNamed(r) ==
    /\ pc[r] = "loaded"
    /\ \/ /\ \/ KeyHolders(arg[r].tx, arg[r].key) # {}
             \/ obj[r].key = arg[r].key
          /\ Finish(r, arg[r].tx)
       \/ /\ KeyHolders(arg[r].tx, arg[r].key) = {}
          /\ obj[r].key # arg[r].key
          /\ pc' = [pc EXCEPT ![r] = "checked"]
          /\ UNCHANGED <<obj, answer>>
    /\ UNCHANGED <<row, expired, audit, arg>>

\* The SELECT by idempotency key, then the test of the session's own copy.
CheckKey(r) ==
    LET t == arg[r].tx
        k == arg[r].key
    IN  /\ pc[r] = "loaded"
        /\ \/ \E u \in KeyHolders(t, k) : Finish(r, u)
           \/ /\ KeyHolders(t, k) = {}
              /\ obj[r].key = k
              /\ obj[r].tx_hash # None
              /\ Finish(r, t)
           \/ /\ KeyHolders(t, k) = {}
              /\ ~(obj[r].key = k /\ obj[r].tx_hash # None)
              /\ pc' = [pc EXCEPT ![r] = "checked"]
              /\ UNCHANGED <<obj, answer>>
        /\ UNCHANGED <<row, expired, audit, arg>>

\* Mutated form of Submitted: the status the code declares and never uses.
SubmittedSigned(r) ==
    [obj[r] EXCEPT !.status = "signed", !.key = arg[r].key,
                   !.tx_hash = arg[r].tx_hash]

\* The copy of r with the assignments of submit_transaction.
Submitted(r) ==
    [obj[r] EXCEPT !.status = "submitted", !.key = arg[r].key,
                   !.tx_hash = arg[r].tx_hash]

\* Mutated form of SaveSubmit: no unique constraint in the database.
SaveSubmitUnconstrained(r) ==
    /\ pc[r] = "checked"
    /\ row' = [row EXCEPT ![arg[r].tx] = Flush(@, obj[r], Submitted(r))]
    /\ audit' = audit \cup {Event("submit", arg[r].tx, arg[r].tx_hash, r)}
    /\ pc' = [pc EXCEPT ![r] = "saved"]
    /\ obj' = [obj EXCEPT ![r] = Submitted(r)]
    /\ UNCHANGED <<expired, arg, answer>>

\* Row and audit event are committed together, unless the row would break
\* uq_staking_transactions_wallet_idempotency: then nothing is, and the
\* request is answered with an error.
SaveSubmit(r) ==
    LET t == arg[r].tx
    IN  /\ pc[r] = "checked"
        /\ \/ /\ KeyHolders(t, arg[r].key) # {}
              /\ Finish(r, None)
              /\ UNCHANGED <<row, audit>>
           \/ /\ KeyHolders(t, arg[r].key) = {}
              /\ row' = [row EXCEPT ![t] = Flush(@, obj[r], Submitted(r))]
              /\ audit' = audit \cup {Event("submit", t, arg[r].tx_hash, r)}
              /\ pc' = [pc EXCEPT ![r] = "saved"]
              /\ obj' = [obj EXCEPT ![r] = Submitted(r)]
              /\ UNCHANGED answer
        /\ UNCHANGED <<expired, arg>>

\* Mutated form of Refresh: the request is answered without finalizing.
RefreshOnly(r) ==
    /\ pc[r] = "saved"
    /\ Finish(r, arg[r].tx)
    /\ UNCHANGED <<row, expired, audit, arg>>

\* session.refresh, then the guard of finalize_submitted_transaction.
Refresh(r) ==
    LET t == arg[r].tx
    IN  /\ pc[r] = "saved"
        /\ \/ /\ row[t].status = "submitted"
              /\ row[t].tx_hash # None
              /\ pc' = [pc EXCEPT ![r] = "finalizing"]
              /\ obj' = [obj EXCEPT ![r] = row[t]]
              /\ UNCHANGED answer
           \/ /\ ~(row[t].status = "submitted" /\ row[t].tx_hash # None)
              /\ Finish(r, t)
        /\ UNCHANGED <<row, expired, audit, arg>>

\* Mutated form of Verdict: the digest of the hash the request came with.
VerdictOfRequest(r) ==
    IF <<arg[r].tx, arg[r].tx_hash>> \in Failing
    THEN [obj[r] EXCEPT !.status = "failed", !.failure_reason = Watcher]
    ELSE [obj[r] EXCEPT !.status = "confirmed", !.block_hash = arg[r].tx_hash]

\* The watcher's verdict on the copy of r.
Verdict(r) ==
    IF <<arg[r].tx, obj[r].tx_hash>> \in Failing
    THEN [obj[r] EXCEPT !.status = "failed", !.failure_reason = Watcher]
    ELSE [obj[r] EXCEPT !.status = "confirmed", !.block_hash = obj[r].tx_hash]

Finalize(r) ==
    LET t == arg[r].tx
    IN  /\ pc[r] = "finalizing"
        /\ row' = [row EXCEPT ![t] = Flush(@, obj[r], Verdict(r))]
        /\ audit' = audit \cup {Event(Verdict(r).status, t, obj[r].tx_hash, r)}
        /\ Finish(r, t)
        /\ UNCHANGED <<expired, arg>>

----------------------------------------------------------------------------
(***************************************************************************)
(* Simulating again: the row is read, the RPC node is awaited, and the     *)
(* result is written to the row as it is by then.                          *)
(***************************************************************************)
SimulateLoad(r, t) ==
    /\ pc[r] = "idle"
    /\ row[t].status # "none"
    /\ arg' = [arg EXCEPT ![r] = [NoArg EXCEPT !.op = "simulate", !.tx = t]]
    /\ \/ /\ expired[t]
          /\ Finish(r, None)
       \/ /\ ~expired[t]
          /\ pc' = [pc EXCEPT ![r] = "simulating"]
          /\ obj' = [obj EXCEPT ![r] = row[t]]
          /\ UNCHANGED answer
    /\ UNCHANGED <<row, expired, audit>>

SimulateSave(r) ==
    LET t == arg[r].tx
    IN  /\ pc[r] = "simulating"
        /\ \E s \in SimResults :
             row' = [row EXCEPT ![t] =
                       Flush(@, obj[r], [obj[r] EXCEPT !.simulation = s])]
        /\ Finish(r, t)
        /\ UNCHANGED <<expired, audit, arg>>

----------------------------------------------------------------------------
\* The API process dies under r, or the connection of its session is lost:
\* what r had committed stays, nothing else of it does.
Crash(r) ==
    /\ pc[r] \in Working
    /\ pc' = [pc EXCEPT ![r] = "crashed"]
    /\ obj' = [obj EXCEPT ![r] = NoRow]
    /\ UNCHANGED <<row, expired, audit, arg, answer>>

Continue(r) ==
    \/ CheckKey(r)
    \/ SaveSubmit(r)
    \/ Refresh(r)
    \/ Finalize(r)
    \/ SimulateSave(r)

Next ==
    \/ \E t \in TxIds : Build(t) \/ Expire(t)
    \/ \E r \in Requests :
         \/ \E t \in TxIds, k \in Keys, h \in Hashes : SubmitLoad(r, t, k, h)
         \/ \E t \in TxIds : SimulateLoad(r, t)
         \/ Continue(r)
         \/ Crash(r)

Spec == Init /\ [][Next]_vars

\* A handler that has started is run to its end by the event loop.
FairSpec == Spec /\ \A r \in Requests : WF_vars(Continue(r))

----------------------------------------------------------------------------
(***************************************************************************)
(* Properties.                                                             *)
(***************************************************************************)
Arguments ==
    [op : {"none", "submit", "simulate"}, tx : TxIds \cup {None},
     key : Keys \cup {None}, tx_hash : Hashes \cup {None}]

Events ==
    [event : {"build", "submit", "failed", "confirmed"}, tx : TxIds,
     tx_hash : Hashes \cup {None}, by : Requests \cup {None}]

\* Every variable has its type.  In particular no committed row ever has
\* one of the statuses "signed" and "expired" that the code declares.
TypeOK ==
    /\ row \in [TxIds -> Columns]
    /\ expired \in [TxIds -> BOOLEAN]
    /\ audit \subseteq Events
    /\ pc \in [Requests -> {"idle"} \cup Working \cup Over]
    /\ arg \in [Requests -> Arguments]
    /\ obj \in [Requests -> Columns]
    /\ answer \in [Requests -> TxIds \cup {None}]

\* However submissions overlap, an idempotency key belongs to one
\* transaction of a wallet: the SELECT alone does not ensure it.
KeyUnique ==
    \A t, u \in TxIds :
        t # u /\ Owner[t] = Owner[u] /\ row[t].key # None =>
            row[t].key # row[u].key

\* However requests overlap, the trail explains the row: the hash a row
\* carries was announced as submitted, a row that is confirmed or failed
\* says why, and the block and the failure it shows were announced for a
\* hash on which the watcher does give that verdict.
Traced ==
    \A t \in TxIds :
        /\ row[t].status \in {"submitted"} \cup Terminal =>
               row[t].key # None /\ row[t].tx_hash # None
        /\ row[t].tx_hash # None =>
               \E e \in audit : /\ e.event = "submit" /\ e.tx = t
                                /\ e.tx_hash = row[t].tx_hash
        /\ row[t].status = "confirmed" => row[t].block_hash # None
        /\ row[t].status = "failed" => row[t].failure_reason # None
        /\ row[t].block_hash # None =>
               /\ <<t, row[t].block_hash>> \notin Failing
               /\ \E e \in audit : /\ e.event = "confirmed" /\ e.tx = t
                                   /\ e.tx_hash = row[t].block_hash
        /\ row[t].failure_reason # None =>
               \E e \in audit : /\ e.event = "failed" /\ e.tx = t
                                /\ <<t, e.tx_hash>> \in Failing

\* One idempotency key of a wallet stands for one submission, whatever is
\* retried after an error or a lost answer: no two staking.submit events
\* come from requests with the same wallet and key.
SubmitOnce ==
    \A e, f \in audit :
        /\ e.event = "submit" /\ f.event = "submit"
        /\ Owner[e.tx] = Owner[f.tx]
        /\ arg[e.by].key = arg[f.by].key
        => e = f

\* A submission that is answered with a transaction is answered with the one
\* that carries its key, which need not be the one it named.
AnswerCarriesKey ==
    \A r \in Requests :
        arg[r].op = "submit" /\ answer[r] # None =>
            row[answer[r]].key = arg[r].key

\* What the owner of a transaction sees is the life cycle of
\* StakingLifecycle: at most one submission, at most one outcome, and the
\* outcome is that of the submitted hash.
Lifecycle == INSTANCE StakingLifecycle WITH
    status <- [t \in TxIds |-> row[t].status],
    hash   <- [t \in TxIds |-> row[t].tx_hash],
    block  <- [t \in TxIds |-> row[t].block_hash]

LifecycleSpec == Lifecycle!Spec

\* A submitted transaction is settled, unless a submission of it died: only
\* the request that submits a transaction ever finalizes it.
SettledUnlessCrashed ==
    \A t \in TxIds :
        row[t].status = "submitted" ~>
            \/ row[t].status \in Terminal
            \/ \E r \in Requests :
                 arg[r].op = "submit" /\ arg[r].tx = t /\ pc[r] = "crashed"

\* Every submitted transaction gets a tracked outcome, whatever happens to
\* the request that submitted it.
TrackedOutcome ==
    \A t \in TxIds :
        row[t].status = "submitted" ~> row[t].status \in Terminal

----------------------------------------------------------------------------
(***************************************************************************)
(* What the proofs of StakingProofs rest on: how far the copy a request    *)
(* works on can be behind the row when it writes that copy back.           *)
(***************************************************************************)
Submitting == {"loaded", "checked", "saved", "finalizing"}

\* A column that was set when the copy was made is still set in the row.
NoneErased(copy, current) ==
    /\ copy.key # None => current.key # None
    /\ copy.tx_hash # None => current.tx_hash # None
    /\ copy.block_hash # None => current.block_hash # None
    /\ copy.failure_reason # None => current.failure_reason # None

\* A transaction that has not been built has nothing to lose.
Unbuilt ==
    \A t \in TxIds :
        row[t].status = "none" =>
            /\ row[t].key = None
            /\ row[t].tx_hash = None
            /\ row[t].block_hash = None
            /\ row[t].failure_reason = None

\* Copies go stale in one direction only, and a request that is about to
\* finalize holds a submitted copy.
Copies ==
    \A r \in Requests :
        /\ pc[r] \in Working =>
               /\ arg[r].tx \in TxIds
               /\ row[arg[r].tx].status # "none"
               /\ NoneErased(obj[r], row[arg[r].tx])
        /\ pc[r] \in Submitting => arg[r].key # None /\ arg[r].tx_hash # None
        /\ pc[r] = "finalizing" =>
               /\ obj[r].status = "submitted"
               /\ obj[r].key # None
               /\ obj[r].tx_hash # None

OverlapInv == TypeOK /\ KeyUnique /\ Traced /\ Unbuilt /\ Copies

\* With submissions from the modal only, a request that submits works on a
\* copy that differs from the row in the simulation result at most ...
Current(copy, current) ==
    /\ copy.status = current.status
    /\ copy.key = current.key
    /\ copy.tx_hash = current.tx_hash
    /\ copy.block_hash = current.block_hash
    /\ copy.failure_reason = current.failure_reason

Submissions(t) == {r \in Requests : arg[r].op = "submit" /\ arg[r].tx = t}

CurrentCopies ==
    \A r \in Requests :
        /\ pc[r] = "idle" => arg[r].op = "none"
        /\ pc[r] \in Submitting =>
               /\ arg[r].op = "submit"
               /\ Current(obj[r], row[arg[r].tx])
        /\ pc[r] = "loaded" => obj[r].status \in {"built", "submitted"}
        /\ pc[r] = "checked" => obj[r].status = "built"

\* ... because the submissions of a transaction are sent one at a time with
\* the same key, so the row carries that key, or none if none was saved.
OneAtATime ==
    \A t \in TxIds :
        /\ \A q, r \in Submissions(t) :
              /\ arg[q].key = arg[r].key
              /\ q # r => pc[q] \in Over \/ pc[r] \in Over
        /\ \A r \in Submissions(t) : row[t].key \in {None, arg[r].key}
        /\ row[t].key # None => Submissions(t) # {}
        /\ row[t].status \in {"none", "built"} =>
              /\ row[t].key = None
              /\ row[t].tx_hash = None
              /\ row[t].block_hash = None

\* A staking.submit event comes from a submission whose key the row carries.
SubmitsKeyed ==
    \A e \in audit :
        e.event = "submit" =>
            /\ e.by \in Submissions(e.tx)
            /\ pc[e.by] \notin {"idle", "loaded", "checked"}
            /\ arg[e.by].key # None
            /\ row[e.tx].key = arg[e.by].key

ModalInv ==
    OverlapInv /\ CurrentCopies /\ OneAtATime /\ SubmitsKeyed /\ SubmitOnce
=============================================================================
