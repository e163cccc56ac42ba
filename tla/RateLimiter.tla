----------------------------- MODULE RateLimiter -----------------------------
(***************************************************************************)
(* RateLimitMiddleware (backend/app/middleware/rate_limit.py): a counter   *)
(* in Redis for every address and minute of the clock.  A call reads the   *)
(* clock once, counts itself with INCR and, if it was the first, gives the *)
(* counter its time to live with EXPIRE.  Redis executes each command at   *)
(* once, but a call may be held up before either, and an error of Redis    *)
(* lets the call through, whether the command was executed or not.         *)
(*                                                                         *)
(* Names carry the prefix of the module where ReadCache, the other user of *)
(* Redis, has the same: MCRedis checks the two side by side.               *)
(***************************************************************************)
EXTENDS Naturals, FiniteSets

CONSTANTS
    Addresses,    \* client addresses
    Calls,        \* calls of the API; each is made once
    Limit,        \* rate_limit_per_minute
    MinuteLength, \* clock ticks in a minute
    LastTick      \* bound: when the last call is made

ASSUME LimitAssumption == Limit \in Nat
ASSUME MinuteAssumption == MinuteLength \in Nat \ {0} /\ LastTick \in Nat

VARIABLES
    clock,   \* the time
    bucket,  \* bucket[b]: the counter under key b
    call     \* call[c]: how far call c has come

limiterVars == <<clock, bucket, call>>

----------------------------------------------------------------------------
Minute(time) == time \div MinuteLength

Buckets == (0..Minute(LastTick)) \X Addresses

\* No such key.  A deadline of 0 stands for a key that does not expire.
NoBucket == [count |-> 0, deadline |-> 0]

\* count is the answer of INCR; late tells that it was executed more than a
\* minute after the minute of the counter, for LimitHolds only.
NewCall == [phase |-> "new", bucket |-> <<>>, count |-> 0, late |-> FALSE]

\* The end of the minute after the one of b: no counter expires before.
Grace(b) == (b[1] + 2) * MinuteLength

LimiterInit ==
    /\ clock = 0
    /\ bucket = [b \in Buckets |-> NoBucket]
    /\ call = [c \in Calls |-> NewCall]

Expiring(b) == bucket[b].deadline > clock

\* Time passes, and Redis forgets what has reached its deadline.
Pass ==
    /\ clock < LastTick \/ \E b \in Buckets : Expiring(b)
    /\ clock' = clock + 1
    /\ bucket' = [b \in Buckets |-> IF bucket[b].deadline = clock + 1
                                    THEN NoBucket ELSE bucket[b]]
    /\ UNCHANGED call

\* Mutated form of BucketOf: the minute is rounded.
BucketRounded(a) == <<Minute(clock + MinuteLength \div 2), a>>

BucketOf(a) == <<Minute(clock), a>>

\* The call computes its key.
Arrive(c, a) ==
    /\ clock <= LastTick
    /\ call[c].phase = "new"
    /\ call' = [call EXCEPT ![c] = [phase |-> "stamped", bucket |-> BucketOf(a),
                                    count |-> 0, late |-> FALSE]]
    /\ UNCHANGED <<clock, bucket>>

\* Mutated form of Outcome: one call too many is served.
OutcomeLate(count) == IF count > Limit + 1 THEN "limited" ELSE "served"

Outcome(count) == IF count > Limit THEN "limited" ELSE "served"

\* INCR is executed for c, which is at phase then.
Counted(c, phase) ==
    LET b == call[c].bucket
        n == bucket[b].count + 1
    IN  /\ bucket' = [bucket EXCEPT ![b].count = n]
        /\ call' = [call EXCEPT ![c].phase = phase, ![c].count = n,
                                ![c].late = clock >= Grace(b)]
        /\ UNCHANGED clock

Incr(c) ==
    LET n == bucket[call[c].bucket].count + 1
    IN  /\ call[c].phase = "stamped"
        /\ Counted(c, IF n = 1 THEN "first" ELSE Outcome(n))

\* Mutated forms of TimeToLive: one minute; no EXPIRE.
TimeToLiveShort == MinuteLength
TimeToLiveNone == 0

\* 120 seconds.
TimeToLive == 2 * MinuteLength

\* EXPIRE is executed for c, which ends as outcome.  No key is not an error.
Timed(c, outcome) ==
    LET b == call[c].bucket
    IN  /\ call[c].phase = "first"
        /\ bucket' = [bucket EXCEPT ![b].deadline =
                        IF bucket[b].count = 0 THEN @ ELSE clock + TimeToLive]
        /\ call' = [call EXCEPT ![c].phase = outcome]
        /\ UNCHANGED clock

Expire120(c) == Timed(c, Outcome(1))

\* Redis fails: the command was not executed, or its answer is lost.
RedisFails(c) ==
    \/ /\ call[c].phase \in {"stamped", "first"}
       /\ call' = [call EXCEPT ![c].phase = "unlimited"]
       /\ UNCHANGED <<clock, bucket>>
    \/ call[c].phase = "stamped" /\ Counted(c, "unlimited")
    \/ Timed(c, "unlimited")

\* The process dies under the call.
Die(c) ==
    /\ call[c].phase \in {"stamped", "first"}
    /\ call' = [call EXCEPT ![c].phase = "dead"]
    /\ UNCHANGED <<clock, bucket>>

Dispatch(c) == Incr(c) \/ Expire120(c)

LimiterNext ==
    \/ Pass
    \/ \E c \in Calls :
         \/ \E a \in Addresses : Arrive(c, a)
         \/ Dispatch(c)
         \/ RedisFails(c)
         \/ Die(c)

LimiterSpec == LimiterInit /\ [][LimiterNext]_limiterVars

----------------------------------------------------------------------------
(***************************************************************************)
(* Properties.                                                             *)
(***************************************************************************)
Phases == {"new", "stamped", "first", "served", "limited", "unlimited", "dead"}

\* Every variable has its type.
LimiterTypeOK ==
    /\ clock \in Nat
    /\ bucket \in [Buckets -> [count : Nat, deadline : Nat]]
    /\ call \in [Calls -> [phase : Phases, bucket : Buckets \cup {<<>>},
                           count : Nat, late : BOOLEAN]]
    /\ \A c \in Calls : call[c].phase # "new" => call[c].bucket \in Buckets

\* The calls that were served under b because they were counted, and in time.
ServedInTime(b) ==
    {c \in Calls : /\ call[c].phase = "served"
                   /\ call[c].bucket = b
                   /\ ~call[c].late}

\* However calls are held up between the clock, INCR and EXPIRE, and whatever
\* fails, an address has no more than Limit calls of a minute served, but for
\* those that Redis failed and those held up for a whole minute and more: the
\* counter outlives the minute it counts.
LimitHolds == \A b \in Buckets : Cardinality(ServedInTime(b)) <= Limit

\* Call c made the counter b, and Redis may not have been told its deadline:
\* it has not been yet, or it failed, or the call died.  The two commands are
\* not atomic.
Unsettled(b, c) ==
    /\ call[c].bucket = b
    /\ call[c].count = 1
    /\ call[c].phase \in {"first", "unlimited", "dead"}

\* Counters do not pile up in Redis: each has a deadline ahead, unless the
\* call that made it could not set one.
CountersExpire ==
    \A b \in Buckets :
        bucket[b].count > 0 =>
            bucket[b].deadline > clock \/ \E c \in Calls : Unsettled(b, c)
=============================================================================
