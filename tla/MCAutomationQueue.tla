------------------------- MODULE MCAutomationQueue -------------------------
(***************************************************************************)
(* Instances of AutomationQueue for TLC: one wallet, whose jobs compete    *)
(* for the daily cap and for the workers, and two days of one tick each.   *)
(***************************************************************************)
EXTENDS AutomationQueue, TLC

CONSTANTS w1, j1, j2, x1, s1, c1, c2, v1, v2

MCWallets == {w1}
MCTxs == {x1}
MCTxOwner == [x \in MCTxs |-> w1]
MCSignals == {s1}
MCNoSignals == {}
MCWorkers == {v1, v2}
MCClients == {c1, c2}
MCCaps == {1}
MCNow == {0}
MCLater == {1}

\* Two workers share two jobs and two attempts for each.
MCTwoJobs == {j1, j2}

\* The race for the cap, of two requests.
MCNoTxs == {}
MCOneWorker == {v1}
MCOneClient == {c1}
MCAdmissionTxOwner == [x \in {} |-> w1]
AdmissionSymmetry == Permutations(MCClients)
=============================================================================
