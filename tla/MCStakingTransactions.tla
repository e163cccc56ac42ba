----------------------- MODULE MCStakingTransactions -----------------------
(***************************************************************************)
(* Instances of StakingTransactions for TLC.  Two transactions of one      *)
(* wallet compete for the same keys; of the two hashes one is confirmed    *)
(* and one is failed for t1, and both are confirmed for t2.                *)
(***************************************************************************)
EXTENDS StakingTransactions, TLC

CONSTANTS t1, t2, w1, h1, h2, k1, k2, r1, r2, r3

MCTxIds == {t1, t2}
MCWallets == {w1}
MCOwner == [t \in MCTxIds |-> w1]
MCKeys == {k1, k2}
MCHashes == {h1, h2}
MCFailing == {<<t1, h2>>}
MCRequests == {r1, r2, r3}
MCSimResults == {"ok", "skipped"}

\* Requests and keys are interchangeable.
Symmetry == Permutations(MCRequests) \cup Permutations(MCKeys)

\* Smaller instances: one key, two requests.
MCOneKey == {k1}
MCTwoRequests == {r1, r2}
=============================================================================
