--------------------------- MODULE MCStakingModal ---------------------------
(***************************************************************************)
(* The instance of StakingModal for TLC: two transactions of one wallet,   *)
(* of which the first fails.  The modal is opened any number of times.     *)
(***************************************************************************)
EXTENDS StakingModal, TLC

CONSTANTS t1, t2, w1, h1, h2, k1, k2, r1, r2

MCTxIds == {t1, t2}
MCWallets == {w1}
MCOwner == [t \in MCTxIds |-> w1]
MCKeys == {k1, k2}
MCHashes == {h1, h2}
MCFailing == {<<t1, h1>>}
MCPayload == t1 :> h1 @@ t2 :> h2
MCSimResults == {"ok"}
MCTwoRequests == {r1, r2}
=============================================================================
