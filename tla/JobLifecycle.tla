---------------------------- MODULE JobLifecycle ----------------------------
(***************************************************************************)
(* What the automation queue promises the wallet that enqueued a job, with *)
(* no mention of workers, locks, crashes or database transactions:         *)
(*                                                                         *)
(*   - a job that was accepted is attempted at most max_attempts times and *)
(*     gets one outcome, which never changes: it is completed, it is       *)
(*     cancelled by the policy, or it has failed in each of its attempts;  *)
(*   - an attempt reports its incidents at the moment it ends, none if the *)
(*     policy cancelled it, and nothing is reported otherwise.             *)
(*                                                                         *)
(* AutomationQueue implements this specification for any number of worker  *)
(* processes, which may die at any moment (see Jobwise there).             *)
(***************************************************************************)
EXTENDS Naturals

CONSTANTS
    Jobs,        \* jobs that may be accepted
    MaxAttempts  \* max_attempts of a job

VARIABLES
    status,   \* status[j]: where job j stands
    tries,    \* tries[j]: the attempts of j that have ended
    reported  \* the pairs <<j, a>> such that attempt a of j left incidents

vars == <<status, tries, reported>>

Init ==
    /\ status = [j \in Jobs |-> "none"]
    /\ tries = [j \in Jobs |-> 0]
    /\ reported = {}

Accept(j) ==
    /\ status[j] = "none"
    /\ status' = [status EXCEPT ![j] = "pending"]
    /\ UNCHANGED <<tries, reported>>

\* An attempt at j ends, and j is s from then on.
EndsAs(j, s) ==
    /\ status[j] = "pending"
    /\ status' = [status EXCEPT ![j] = s]
    /\ tries' = [tries EXCEPT ![j] = @ + 1]

Last(j) == tries[j] + 1 = MaxAttempts

\* What the attempt has found, if anything, is reported with its end.
Reports(j) == reported' \in {reported, reported \cup {<<j, tries[j] + 1>>}}

Complete(j) == EndsAs(j, "completed") /\ Reports(j)

Cancel(j) == EndsAs(j, "cancelled") /\ UNCHANGED reported

Retry(j) == ~Last(j) /\ EndsAs(j, "pending") /\ Reports(j)

Fail(j) == Last(j) /\ EndsAs(j, "failed") /\ Reports(j)

Next == \E j \in Jobs : Accept(j) \/ Complete(j) \/ Cancel(j) \/ Retry(j) \/ Fail(j)

Spec == Init /\ [][Next]_vars
=============================================================================
