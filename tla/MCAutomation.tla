---------------------------- MODULE MCAutomation ----------------------------
(***************************************************************************)
(* The queue and the endpoints that write its policies, for TLC.  For the  *)
(* queue a policy may change to any other at any moment, so there is       *)
(* nothing to learn from interleaving the two: a behaviour is one of the   *)
(* queue or one of the policy of a wallet, as part says.                   *)
(***************************************************************************)
EXTENDS MCAutomationQueue, PolicyUpdates

CONSTANTS q1, q2

MCColumns == {"opt_in", "kill_switch_active"}
MCDefaultRow == [c \in MCColumns |-> FALSE]
MCUpdates == {q1, q2}

VARIABLE part

automationVars == <<vars, policyVars, part>>

\* The state of the other part rests.
OfQueue(A) == part = "queue" /\ A /\ UNCHANGED <<policyVars, part>>
OfPolicy(A) == part = "policy" /\ A /\ UNCHANGED <<vars, part>>

AutomationInit ==
    /\ Init
    /\ PolicyInit
    /\ \/ part = "queue" /\ ~exists
       \/ part = "policy"

AutomationNext == OfQueue(Next) \/ OfPolicy(PolicyNext)

AutomationSpec == AutomationInit /\ [][AutomationNext]_automationVars

\* The fairness of FairSpec.  The policy promises nothing that needs any.
FairAutomationSpec ==
    /\ AutomationSpec
    /\ WF_automationVars(OfQueue(Tick))
    /\ \A v \in Workers : WF_automationVars(OfQueue(Run(v)))
=============================================================================
