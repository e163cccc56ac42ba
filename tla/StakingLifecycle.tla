-------------------------- MODULE StakingLifecycle --------------------------
(***************************************************************************)
(* What the staking service promises the owner of a transaction, with no   *)
(* mention of requests, sessions or the database:                          *)
(*                                                                         *)
(*   - a transaction is built, submitted at most once under one extrinsic  *)
(*     hash, and given at most one outcome;                                *)
(*   - the outcome is the verdict the chain watcher has for that very hash *)
(*     and, once given, it never changes.                                  *)
(*                                                                         *)
(* StakingTransactions implements this specification as long as the client *)
(* behaves as the dashboard's modal does (see Lifecycle there).            *)
(***************************************************************************)
CONSTANTS
    TxIds,    \* transactions that may be built
    Hashes,   \* extrinsic hashes
    Failing,  \* the pairs <<transaction, hash>> that the watcher fails
    None      \* the null of a nullable column

VARIABLES
    status,   \* status[t]: the lifecycle status of t
    hash,     \* hash[t]: the extrinsic t was submitted with
    block     \* block[t]: the extrinsic whose inclusion is recorded for t

vars == <<status, hash, block>>

Init ==
    /\ status = [t \in TxIds |-> "none"]
    /\ hash = [t \in TxIds |-> None]
    /\ block = [t \in TxIds |-> None]

Build(t) ==
    /\ status[t] = "none"
    /\ status' = [status EXCEPT ![t] = "built"]
    /\ UNCHANGED <<hash, block>>

Submit(t, h) ==
    /\ status[t] = "built"
    /\ status' = [status EXCEPT ![t] = "submitted"]
    /\ hash' = [hash EXCEPT ![t] = h]
    /\ UNCHANGED block

Confirm(t) ==
    /\ status[t] = "submitted"
    /\ <<t, hash[t]>> \notin Failing
    /\ status' = [status EXCEPT ![t] = "confirmed"]
    /\ block' = [block EXCEPT ![t] = hash[t]]
    /\ UNCHANGED hash

Fail(t) ==
    /\ status[t] = "submitted"
    /\ <<t, hash[t]>> \in Failing
    /\ status' = [status EXCEPT ![t] = "failed"]
    /\ UNCHANGED <<hash, block>>

Next ==
    \E t \in TxIds :
        \/ Build(t)
        \/ \E h \in Hashes : Submit(t, h)
        \/ Confirm(t)
        \/ Fail(t)

Spec == Init /\ [][Next]_vars
=============================================================================
