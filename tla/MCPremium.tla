------------------------------ MODULE MCPremium ------------------------------
(***************************************************************************)
(* An instance of Premium for TLC.  One wallet redeems two invites or the  *)
(* same one twice and evaluates two rules, one of which is quiet past      *)
(* midnight; a second wallet competes for the last redemption of i1.       *)
(***************************************************************************)
EXTENDS Premium, TLC

CONSTANTS w1, w2, i1, i2, r1, r2, q1, q2, q3

MCWallets == {w1, w2}
MCInvites == {i1, i2}
MCLimit == (i1 :> 1) @@ (i2 :> 2)
MCRules == {r1, r2}
MCInApp == {r2}
MCStart == (r1 :> None) @@ (r2 :> 2)
MCEnd == (r1 :> 1) @@ (r2 :> 1)
MCRequests == {q1, q2, q3}
=============================================================================
