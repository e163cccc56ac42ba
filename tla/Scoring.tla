------------------------------- MODULE Scoring -------------------------------
(***************************************************************************)
(* The arithmetic of the intelligence service                              *)
(* (backend/app/services/intelligence): the score of a validator, the risk *)
(* band of a wallet and the forecast of its rewards, as operators on exact *)
(* integers and fractions where the code has floats.                       *)
(*                                                                         *)
(* The logarithm of a stake is a table, Log: any table that grows with the *)
(* stake will do.  What is stored for display only (the delegation trend,  *)
(* the reputation, the downtime) is left out.                              *)
(***************************************************************************)
EXTENDS Integers, FiniteSets, SequencesExt

CONSTANTS
    Log,          \* Log[n]: log1p of the stake n, for the stakes in its domain
    Percents,     \* bound: the percentages that are checked
    Amounts,      \* bound: the amounts that are checked
    MaxPositions  \* bound: the length of the sequences that are checked

ASSUME LogAssumption ==
    /\ DOMAIN Log \subseteq Nat
    /\ \A n \in DOMAIN Log : Log[n] \in Nat /\ (n > 0 => Log[n] > 0)
    /\ \A m, n \in DOMAIN Log : m <= n => Log[m] <= Log[n]
ASSUME BoundsAssumption ==
    Percents \subseteq Int /\ Amounts \subseteq Nat /\ MaxPositions \in Nat

----------------------------------------------------------------------------
\* x, or the bound that it is beyond: clamp.
Clamp(x, lower, upper) ==
    IF x < lower THEN lower ELSE IF x > upper THEN upper ELSE x

\* round(n / d): a half goes to the even neighbour.
Round(n, d) ==
    LET q == n \div d
        r == n % d
    IN  IF 2 * r > d \/ (2 * r = d /\ q % 2 = 1) THEN q + 1 ELSE q

Total(s) == MapThenSumSet(LAMBDA k : s[k], DOMAIN s)

SquareTotal(s) == MapThenSumSet(LAMBDA k : s[k] * s[k], DOMAIN s)

----------------------------------------------------------------------------
(***************************************************************************)
(* The score of a validator, from its uptime, consistency and yield (in    *)
(* percent) and its stake against the median of its subnet.                *)
(***************************************************************************)
\* int(median(...)), and 1 at least.
PoolMedian(stakes) ==
    LET s == SortSeq(stakes, <)
        n == Len(s)
        middle == (s[(n + 1) \div 2] + s[n \div 2 + 1]) \div 2
    IN  IF middle = 0 THEN 1 ELSE middle

\* The weights, in percent of the inputs; 20 is the yield that counts in full.
Blend(uptime, consistency, apy) ==
    35 * Clamp(uptime, 0, 100) + 30 * Clamp(consistency, 0, 100)
        + 125 * Clamp(apy, 0, 20)

\* own and pool are the logarithms of the stake and of the median.
CompositeScore(uptime, consistency, apy, own, pool) ==
    Round(Blend(uptime, consistency, apy) * pool + 1000 * Clamp(own, 0, pool),
          100 * pool)

----------------------------------------------------------------------------
(***************************************************************************)
(* The risk of a wallet, from its positions [subnet, amount], one for each *)
(* validator, and the totals of its rewards day by day.                    *)
(***************************************************************************)
SubnetsOf(positions) == {positions[k].subnet : k \in DOMAIN positions}

SubnetTotal(positions, n) ==
    MapThenSumSet(LAMBDA k : positions[k].amount,
                  {k \in DOMAIN positions : positions[k].subnet = n})

\* max_concentration and hhi of a split, to be divided by the total and by
\* its square.
Concentration(split) == Max({split[x] : x \in DOMAIN split})

Hhi(split) == SquareTotal(split)

ByValidator(positions) == [k \in DOMAIN positions |-> positions[k].amount]

BySubnetTotals(positions) ==
    [n \in SubnetsOf(positions) |-> SubnetTotal(positions, n)]

\* pstdev(daily) / max(mean(daily), 1) > percent / 100, both sides squared.
Volatile(daily, percent) ==
    LET n == Len(daily)
        sum == Total(daily)
        scale == IF sum > n THEN sum ELSE n
    IN  /\ n >= 2
        /\ 10000 * (n * SquareTotal(daily) - sum * sum)
             > percent * percent * scale * scale

Concentrated(positions, percent) ==
    100 * Concentration(ByValidator(positions))
        > percent * Total(ByValidator(positions))

RiskBand(positions, daily) ==
    IF Concentrated(positions, 70) \/ Volatile(daily, 60) THEN "high"
    ELSE IF ~Concentrated(positions, 40) /\ ~Volatile(daily, 35) THEN "low"
    ELSE "medium"

----------------------------------------------------------------------------
(***************************************************************************)
(* The forecast: least squares over the last days, cut off at 0.           *)
(***************************************************************************)
Window == 14

Trailing(daily) == SubSeq(daily, Max({1, Len(daily) - Window + 1}), Len(daily))

\* With x = 0, 1, ... for the days of the window, the line at x is
\* mean(y) + slope * (x - mean(x)), and slope is steep / den.
Forecast(daily, horizon) ==
    LET y == Trailing(daily)
        n == Len(y)
        sx == MapThenSumSet(LAMBDA k : k - 1, DOMAIN y)
        den == n * MapThenSumSet(LAMBDA k : (k - 1) * (k - 1), DOMAIN y) - sx * sx
        steep == n * MapThenSumSet(LAMBDA k : (k - 1) * y[k], DOMAIN y) - sx * Total(y)
        At(x) == Round(Total(y) * den + steep * (n * x - sx), n * den)
    IN  [h \in 1..horizon |->
           CASE n = 0 -> 0
             [] n = 1 -> Max({0, y[1]})
             [] OTHER -> Max({0, At(n + h - 1)})]

\* The yield in hundredths of a percent: mean daily rewards over a year.
ImpliedApy(daily, stake) ==
    IF stake <= 0 \/ daily = <<>> THEN 0
    ELSE Round(Total(daily) * 365 * 10000, Len(daily) * stake)

----------------------------------------------------------------------------
(***************************************************************************)
(* Properties, over all inputs within the bounds.                          *)
(***************************************************************************)
Positions ==
    UNION {[1..n -> [subnet : {0, 1}, amount : Amounts \ {0}]] : n \in 1..MaxPositions}

Histories == UNION {[1..n -> Amounts] : n \in 0..MaxPositions}

\* A validator that gains stake, the others of its subnet keeping theirs,
\* does not lose score by it, although its own stake lifts the median that it
\* is measured against.
OwnStakePays ==
    \A n \in 1..MaxPositions : \A stakes \in [1..n -> DOMAIN Log] :
        \A more \in DOMAIN Log, p \in Percents :
            LET Score(s) == CompositeScore(p, p, p, Log[s[1]], Log[PoolMedian(s)])
            IN  more >= stakes[1] =>
                    Score([stakes EXCEPT ![1] = more]) >= Score(stakes)

\* A wallet is no less concentrated by subnet than by validator, however its
\* stakes are spread: by share of the largest as well as by HHI.
SubnetsCoarser ==
    \A s \in Positions :
        /\ Concentration(BySubnetTotals(s)) >= Concentration(ByValidator(s))
        /\ Hhi(BySubnetTotals(s)) >= Hhi(ByValidator(s))

\* A low band means a spread over three validators at least, and a history in
\* which no day is worth more than all the others together, if it has three.
LowIsSpread ==
    \A s \in Positions, daily \in Histories :
        RiskBand(s, daily) = "low" =>
            /\ Len(s) >= 3
            /\ Len(daily) >= 3 /\ Total(daily) > Len(daily) =>
                   \A k \in DOMAIN daily : 2 * daily[k] <= Total(daily)

\* Rewards that lie on a line for the last days are forecast to stay on it
\* until it reaches 0, whatever came before those days.
ForecastExact ==
    \A base \in Amounts, slope \in Percents, n \in 0..Window, earlier \in Histories :
        LET line == [k \in 1..n |-> base + slope * k]
            fit == Forecast(earlier \o line, MaxPositions)
            OnLine(k) == IF n = 0 THEN 0 ELSE Max({0, base + slope * k})
        IN  (n = Window \/ earlier = <<>>) /\ n # 1 /\ (\A k \in 1..n : line[k] >= 0) =>
                \A h \in 1..MaxPositions : fit[h] = OnLine(n + h)
=============================================================================
