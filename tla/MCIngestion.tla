---------------------------- MODULE MCIngestion ----------------------------
(***************************************************************************)
(* Instances of Ingestion for TLC: every pair of endpoints, and the script *)
(* with an endpoint, of which two are catalog syncs that overtake others.  *)
(***************************************************************************)
EXTENDS Ingestion, TLC

CONSTANTS w1, r1, r2, r3

MCWallets == {w1}
MCHeads == {1, 2}
MCRequests == {r1, r2, r3}

Script == <<"head", "catalog", "portfolio", "recompute">>
Endpoints == <<<<"head">>, <<"catalog">>, <<"portfolio">>, <<"recompute">>>>

\* Which of two requests is which does not matter.
Pairs == {(r1 :> Endpoints[i]) @@ (r2 :> Endpoints[j]) @@ (r3 :> <<>>) :
             <<i, j>> \in {p \in (1..4) \X (1..4) : p[1] <= p[2]}}

Scripts == {(r1 :> Script) @@ (r2 :> Endpoints[i])
              @@ (r3 :> IF i = 2 THEN Endpoints[i] ELSE <<>>) : i \in 1..4}

MCPlans == Pairs \cup Scripts

\* The arithmetic of the scores: ln(1 + n) in thousandths, and small inputs.
MCLog == (0 :> 0) @@ (1 :> 693) @@ (2 :> 1099) @@ (3 :> 1386) @@ (4 :> 1609)
           @@ (5 :> 1792) @@ (6 :> 1946)
MCPercents == {-1, 0, 1, 7, 20, 101}
MCAmounts == {0, 1, 2, 4}

\* What Scoring says of its functions, over these inputs.
ASSUME ScoresKeepTheirPromises ==
    OwnStakePays /\ SubnetsCoarser /\ LowIsSpread /\ ForecastExact

\* Two syncs of one portfolio.
MCTwo == {r1, r2}
MCTwice == {(r1 :> Script) @@ (r2 :> <<"portfolio">>)}

\* The script alone.
MCOne == {r1}
MCScript == {r1 :> Script}
=============================================================================
