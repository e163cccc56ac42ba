------------------------------ MODULE MCRedis ------------------------------
(***************************************************************************)
(* The two users of Redis, ReadCache and RateLimiter, for TLC.  They share *)
(* no key, so that interleaving them would show nothing: a behaviour is    *)
(* one of the cache or one of the limiter, as part says.                   *)
(***************************************************************************)
EXTENDS ReadCache, RateLimiter, TLC

CONSTANTS q1, c1, s1, s2, a1, l1, l2, l3

MCQuery == {q1}
MCReaders == {c1}
MCJobs == {s1, s2}
MCAddresses == {a1}
MCCalls == {l1, l2, l3}

VARIABLE part

redisVars == <<vars, limiterVars, part>>

\* The state of the other user rests.
OfCache(A) == part = "cache" /\ A /\ UNCHANGED <<limiterVars, part>>
OfLimiter(A) == part = "limiter" /\ A /\ UNCHANGED <<vars, part>>

RedisInit == part \in {"cache", "limiter"} /\ Init /\ LimiterInit

RedisNext == OfCache(Next) \/ OfLimiter(LimiterNext)

RedisSpec == RedisInit /\ [][RedisNext]_redisVars

\* The fairness of FairSpec.  The limiter promises nothing that it needs.
FairRedisSpec ==
    /\ RedisSpec
    /\ \A c \in Readers : WF_redisVars(OfCache(List(c)))
    /\ \A s \in Jobs : WF_redisVars(OfCache(Proceed(s)))
    /\ \A k \in Keys : WF_redisVars(OfCache(Expire(k)))
=============================================================================
