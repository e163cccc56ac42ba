----------------------------- MODULE RedisProofs -----------------------------
(***************************************************************************)
(* What holds of the two components that live in Redis, the read cache     *)
(* (ReadCache) and the rate limiter (RateLimiter), which share no keys and *)
(* no steps.                                                               *)
(*                                                                         *)
(* The cache, for any number of readers, jobs and commits: its type, and   *)
(* that a page misses a rewrite for one of the reasons named in            *)
(* StaleExplained only.  The inductive invariant is CacheInv: these two    *)
(* and Known, that a request that is under way knows its key or its head.  *)
(*                                                                         *)
(* The limiter, for any number of addresses, calls and minutes: its type,  *)
(* that counters have deadlines, and the limit.  The inductive invariant   *)
(* is LimiterInv.  Its core is Numbered: the calls that one counter has    *)
(* counted in time have different numbers, because the counter is not      *)
(* forgotten before Grace (Deadlines).                                     *)
(***************************************************************************)
EXTENDS ReadCache, RateLimiter, FiniteSetTheorems, TLAPS

(* The read cache. *)

\* A reader knows the key it looks up, a job the head it has fetched.
Known ==
    /\ \A c \in Readers : reader[c].phase # "idle" => reader[c].key \in Keys
    /\ \A s \in Jobs : job[s].phase \in {"fetched", "committed"} =>
                           job[s].head \in Heads

CacheInv == TypeOK /\ Known /\ StaleExplained

JobRecords ==
    [phase : {"idle", "fetched", "committed", "marked", "scanning"},
     head : Watermarks, commit : 0..db, todo : SUBSET Keys, mark : BOOLEAN]

ReaderRecords ==
    [phase : {"idle", "keyed", "missed", "counted", "read"},
     key : Keys \cup {None}, version : 0..db]

\* What is idle is typed, whatever has been committed.
LEMMA IdleTyped ==
    ASSUME db \in 0..MaxCommits
    PROVE  NoReader \in ReaderRecords /\ NoJob \in JobRecords
BY BoundAssumption DEF NoReader, NoJob, ReaderRecords, JobRecords, Watermarks

\* The two steps that rewrite the rows leave every type a type of the later
\* number of commits.
LEMMA MoreCommits ==
    ASSUME TypeOK, db < MaxCommits, db' = db + 1
    PROVE  /\ db' \in 0..MaxCommits
           /\ 0..db \subseteq 0..db'
           /\ JobRecords \subseteq JobRecords'
           /\ ReaderRecords \subseteq ReaderRecords'
<1>1. db' \in 0..MaxCommits /\ 0..db \subseteq 0..db'
  BY BoundAssumption DEF TypeOK
<1> QED BY <1>1 DEF JobRecords, ReaderRecords

\* Readers keep the types.
LEMMA ReaderTypes ==
    ASSUME TypeOK, Known, NEW c \in Readers,
           \/ \E q \in Queries : GetWatermark(c, q)
           \/ List(c)
           \/ Abandon(c)
    PROVE  TypeOK' /\ Known'
<1>1. /\ reader \in [Readers -> ReaderRecords]
      /\ NoReader \in ReaderRecords
      /\ db \in 0..MaxCommits
  BY IdleTyped DEF TypeOK, ReaderRecords
<1>2. ASSUME NEW new \in ReaderRecords, reader' = [reader EXCEPT ![c] = new],
             new.phase # "idle" => new.key \in Keys,
             UNCHANGED <<db, watermark, job, lost>>,
             page' \in [Keys -> 0..db \cup {None}], raced' \in SUBSET Keys
      PROVE  TypeOK' /\ Known'
  <2>1. reader' \in [Readers -> ReaderRecords]
    BY <1>1, <1>2
  <2>2. TypeOK'
    BY <1>2, <2>1 DEF TypeOK, ReaderRecords
  <2>3. Known'
    BY <1>1, <1>2 DEF Known
  <2> QED BY <2>2, <2>3
<1>3. page \in [Keys -> 0..db \cup {None}] /\ raced \in SUBSET Keys
  BY DEF TypeOK
<1>4. ASSUME NEW q \in Queries, GetWatermark(c, q) PROVE TypeOK' /\ Known'
  <2> DEFINE key == <<IF watermark = None THEN 0 ELSE watermark, q>>
             new == [phase |-> "keyed", key |-> key, version |-> 0]
  <2>1. key \in Keys
    BY DEF TypeOK, Keys, Watermarks
  <2>2. new \in ReaderRecords
    BY <1>1, <2>1, BoundAssumption DEF ReaderRecords
  <2>3. /\ reader' = [reader EXCEPT ![c] = new]
        /\ UNCHANGED <<db, watermark, page, job, raced, lost>>
    BY <1>4 DEF GetWatermark
  <2> QED BY <1>2, <1>3, <2>1, <2>2, <2>3
<1>5. CASE \/ Abandon(c)
           \/ GetPage(c) /\ page[reader[c].key] # None
  BY <1>1, <1>2, <1>3, <1>5 DEF Abandon, GetPage, NoReader
<1>6. CASE GetPage(c) /\ page[reader[c].key] = None
  <2> DEFINE new == [reader[c] EXCEPT !.phase = "missed"]
  <2>1. new \in ReaderRecords /\ new.key = reader[c].key
    BY <1>1 DEF ReaderRecords
  <2>2. new.key \in Keys
    BY <1>6, <2>1 DEF GetPage, Known
  <2>3. reader' = [reader EXCEPT ![c] = new]
    BY <1>6 DEF GetPage
  <2> QED BY <1>2, <1>3, <1>6, <2>1, <2>2, <2>3 DEF GetPage
<1>7. CASE CountItems(c)
  <2> DEFINE new == [reader[c] EXCEPT !.phase = "counted", !.version = db]
  <2>0. db \in 0..db
    BY <1>1, BoundAssumption
  <2>1. new \in ReaderRecords /\ new.key = reader[c].key
    BY <1>1, <2>0 DEF ReaderRecords
  <2>2. new.key \in Keys
    BY <1>7, <2>1 DEF CountItems, Known
  <2>3. reader' = [reader EXCEPT ![c] = new]
    BY <1>7 DEF CountItems
  <2> QED BY <1>2, <1>3, <1>7, <2>1, <2>2, <2>3 DEF CountItems
<1>8. CASE ReadRows(c)
  <2> DEFINE new == [reader[c] EXCEPT !.phase = "read"]
  <2>1. new \in ReaderRecords /\ new.key = reader[c].key
    BY <1>1 DEF ReaderRecords
  <2>2. new.key \in Keys
    BY <1>8, <2>1 DEF ReadRows, Known
  <2>3. reader' = [reader EXCEPT ![c] = new]
    BY <1>8 DEF ReadRows
  <2> QED BY <1>2, <1>3, <1>8, <2>1, <2>2, <2>3 DEF ReadRows
<1>9. CASE Store(c)
  <2>1. reader[c].key \in Keys /\ reader[c].version \in 0..db
    BY <1>1, <1>9 DEF Store, Known, ReaderRecords
  <2>2. /\ page' = [page EXCEPT ![reader[c].key] = reader[c].version]
        /\ raced' \subseteq raced \cup {reader[c].key}
        /\ reader' = [reader EXCEPT ![c] = NoReader]
        /\ UNCHANGED <<db, watermark, job, lost>>
    BY <1>9 DEF Store
  <2>3. page' \in [Keys -> 0..db \cup {None}] /\ raced' \in SUBSET Keys
    BY <1>3, <2>1, <2>2
  <2> QED BY <1>1, <1>2, <2>2, <2>3 DEF NoReader
<1>10. CASE List(c)
  <2>1. GetPage(c) => page[reader[c].key] # None \/ page[reader[c].key] = None
    OBVIOUS
  <2> QED BY <1>5, <1>6, <1>7, <1>8, <1>9, <1>10, <2>1 DEF List
<1> QED BY <1>4, <1>5, <1>10

\* Jobs keep the types, as long as the one that commits is within the bound.
LEMMA JobTypes ==
    ASSUME TypeOK, Known, NEW s \in Jobs,
           \/ \E h \in Heads : FetchHead(s, h)
           \/ Reuse(s)
           \/ Refresh(s)
           \/ Proceed(s)
           \/ Crash(s)
    PROVE  TypeOK' /\ Known'
<1>1. /\ job \in [Jobs -> JobRecords]
      /\ reader \in [Readers -> ReaderRecords]
      /\ NoJob \in JobRecords
      /\ db \in 0..MaxCommits
      /\ 0..db \subseteq Nat
  BY IdleTyped DEF TypeOK, JobRecords, ReaderRecords
<1>2. ASSUME NEW new \in JobRecords, job' = [job EXCEPT ![s] = new],
             new.phase \in {"fetched", "committed"} => new.head \in Heads,
             UNCHANGED <<db, reader>>, watermark' \in Heads \cup {None},
             page' \in [Keys -> 0..db \cup {None}], raced' \in SUBSET Keys,
             lost' \in 0..db
      PROVE  TypeOK' /\ Known'
  <2>1. job' \in [Jobs -> JobRecords]
    BY <1>1, <1>2
  <2>2. TypeOK'
    BY <1>2, <2>1 DEF TypeOK, JobRecords
  <2>3. Known'
    BY <1>1, <1>2 DEF Known
  <2> QED BY <2>2, <2>3
<1>3. /\ page \in [Keys -> 0..db \cup {None}]
      /\ raced \in SUBSET Keys
      /\ watermark \in Heads \cup {None}
      /\ lost \in 0..db
  BY DEF TypeOK
<1>4. ASSUME NEW h \in Heads, FetchHead(s, h) PROVE TypeOK' /\ Known'
  <2> DEFINE new == [NoJob EXCEPT !.phase = "fetched", !.head = h]
  <2>1. new \in JobRecords /\ new.head = h
    BY <1>1 DEF NoJob, JobRecords, Watermarks
  <2>2. job' = [job EXCEPT ![s] = new]
    BY <1>4 DEF FetchHead
  <2> QED BY <1>2, <1>3, <1>4, <2>1, <2>2 DEF FetchHead
<1>5. CASE Reuse(s)
  <2> DEFINE new == [job[s] EXCEPT !.phase = "committed"]
  <2>1. new \in JobRecords /\ new.head = job[s].head
    BY <1>1 DEF JobRecords
  <2>2. new.head \in Heads /\ job' = [job EXCEPT ![s] = new]
    BY <1>5, <2>1 DEF Reuse, Known
  <2> QED BY <1>2, <1>3, <1>5, <2>1, <2>2 DEF Reuse
<1>6. CASE Scan(s)
  <2>1. PICK mark \in BOOLEAN :
           /\ job' = [job EXCEPT ![s].phase = "scanning", ![s].mark = mark,
                                 ![s].todo = {k \in Keys : page[k] # None}]
           /\ UNCHANGED <<db, watermark, page, reader, raced, lost>>
    BY <1>6 DEF Scan
  <2> DEFINE new == [job[s] EXCEPT !.phase = "scanning", !.mark = mark,
                                   !.todo = {k \in Keys : page[k] # None}]
  <2>2. new \in JobRecords /\ new.phase = "scanning"
    BY <1>1 DEF JobRecords
  <2>3. job' = [job EXCEPT ![s] = new]
    BY <1>1, <2>1
  <2> QED BY <1>2, <1>3, <2>1, <2>2, <2>3
<1>7. CASE SetWatermark(s)
  <2> DEFINE new == [job[s] EXCEPT !.phase = "marked"]
  <2>1. new \in JobRecords /\ new.phase = "marked"
    BY <1>1 DEF JobRecords
  <2>2. watermark' \in Heads /\ job' = [job EXCEPT ![s] = new]
    BY <1>7 DEF SetWatermark, Known
  <2> QED BY <1>2, <1>3, <1>7, <2>1, <2>2 DEF SetWatermark
<1>8. ASSUME NEW k \in Keys, DeletePage(s, k) PROVE TypeOK' /\ Known'
  <2> DEFINE new == [job[s] EXCEPT !.todo = @ \ {k}]
  <2>1. new \in JobRecords /\ new.phase = "scanning"
    BY <1>1, <1>8 DEF JobRecords, DeletePage
  <2>2. /\ job' = [job EXCEPT ![s] = new]
        /\ page' \in [Keys -> 0..db \cup {None}]
        /\ raced' \in SUBSET Keys
    BY <1>3, <1>8 DEF DeletePage
  <2> QED BY <1>2, <1>3, <1>8, <2>1, <2>2 DEF DeletePage
<1>9. CASE DeleteWatermark(s)
  <2> DEFINE new == [job[s] EXCEPT !.mark = FALSE]
  <2>1. new \in JobRecords /\ new.phase = "scanning"
    BY <1>1, <1>9 DEF JobRecords, DeleteWatermark
  <2>2. job' = [job EXCEPT ![s] = new]
    BY <1>9 DEF DeleteWatermark
  <2> QED BY <1>2, <1>3, <1>9, <2>1, <2>2 DEF DeleteWatermark
<1>10. CASE Return(s)
  BY <1>1, <1>2, <1>3, <1>10 DEF Return, NoJob
<1>11. CASE Crash(s)
  <2>1. job[s].commit \in 0..db
    BY <1>1 DEF JobRecords
  <2>2. lost' \in 0..db
    BY <1>3, <1>11, <2>1 DEF Crash, Later
  <2> QED BY <1>1, <1>2, <1>3, <1>11, <2>2 DEF Crash, NoJob
<1>12. CASE Commit(s)
  <2>1. /\ db' = db + 1
        /\ db < MaxCommits
        /\ UNCHANGED <<watermark, page, reader, raced, lost>>
        /\ job[s].phase = "fetched"
    BY <1>12 DEF Commit
  <2>2. /\ db' \in 0..MaxCommits
        /\ 0..db \subseteq 0..db'
        /\ JobRecords \subseteq JobRecords'
        /\ ReaderRecords \subseteq ReaderRecords'
        /\ db' \in 0..db'
    BY <1>1, <2>1, MoreCommits
  <2> DEFINE new == [job[s] EXCEPT !.phase = "committed", !.commit = db']
  <2>3. job[s] \in JobRecords'
    BY <1>1, <2>2
  <2>4. new \in JobRecords' /\ new.head = job[s].head
    BY <2>2, <2>3 DEF JobRecords
  <2>5. job' = [job EXCEPT ![s] = new]
    BY <1>1, <1>12, <2>1 DEF Commit
  <2>6. job' \in [Jobs -> JobRecords'] /\ reader' \in [Readers -> ReaderRecords']
    BY <1>1, <2>1, <2>2, <2>4, <2>5
  <2>7. page' \in [Keys -> 0..db' \cup {None}] /\ lost' \in 0..db'
    BY <1>3, <2>1, <2>2
  <2>8. TypeOK'
    BY <1>3, <2>1, <2>2, <2>6, <2>7 DEF TypeOK, JobRecords, ReaderRecords
  <2>9. Known'
    BY <1>1, <2>1, <2>4, <2>5 DEF Known
  <2> QED BY <2>8, <2>9
<1> QED
  BY <1>4, <1>5, <1>6, <1>7, <1>8, <1>9, <1>10, <1>11, <1>12
  DEF Proceed, Refresh, Invalidate

\* Every step keeps the types.
LEMMA TypeStep ==
    ASSUME TypeOK, Known, [Next]_vars
    PROVE  TypeOK' /\ Known'
<1>1. CASE UNCHANGED vars
  BY <1>1 DEF vars, TypeOK, Known
<1>2. ASSUME NEW k \in Keys, Expire(k) PROVE TypeOK' /\ Known'
  BY <1>2 DEF Expire, TypeOK, Known
<1>3. CASE Script
  <2>1. /\ db' = db + 1 /\ db < MaxCommits /\ lost' = db'
        /\ UNCHANGED <<watermark, page, reader, job, raced>>
    BY <1>3 DEF Script
  <2>2. /\ db' \in 0..MaxCommits
        /\ 0..db \subseteq 0..db'
        /\ JobRecords \subseteq JobRecords'
        /\ ReaderRecords \subseteq ReaderRecords'
        /\ db' \in 0..db'
    BY <2>1, MoreCommits DEF TypeOK
  <2>3. /\ job' \in [Jobs -> JobRecords']
        /\ reader' \in [Readers -> ReaderRecords']
        /\ page' \in [Keys -> 0..db' \cup {None}]
    <3>1. job \in [Jobs -> JobRecords] /\ reader \in [Readers -> ReaderRecords]
      BY DEF TypeOK, JobRecords, ReaderRecords
    <3> QED BY <2>1, <2>2, <3>1 DEF TypeOK
  <2> QED BY <2>1, <2>2, <2>3 DEF TypeOK, Known, JobRecords, ReaderRecords
<1> QED BY <1>1, <1>2, <1>3, ReaderTypes, JobTypes DEF Next

----------------------------------------------------------------------------
\* Why the page under k misses rewrite u.
Explained(k, u) == u <= lost \/ \E s \in Jobs : WillDelete(s, u, k)

\* A step of one job that commits nothing keeps the explanations it does not
\* take back: those of the other jobs, and its own of before.
LEMMA JobExplains ==
    ASSUME NEW s \in Jobs, NEW k \in Keys, NEW u,
           Explained(k, u), lost' = lost,
           \A r \in Jobs : r # s => job'[r] = job[r],
           WillDelete(s, u, k) => WillDelete(s, u, k)'
    PROVE  Explained(k, u)'
BY DEF Explained, WillDelete

\* No step leaves a page that misses a rewrite unexplained.
LEMMA StaleStep ==
    ASSUME TypeOK, Known, StaleExplained, [Next]_vars
    PROVE  StaleExplained'
<1> SUFFICES ASSUME NEW k \in Keys, page'[k] # None, k \notin raced',
                    NEW u \in (page'[k] + 1)..db'
             PROVE  Explained(k, u)'
  BY DEF StaleExplained, Explained, WillDelete
<1>1. /\ db \in Nat /\ lost \in Nat
      /\ page \in [Keys -> Nat \cup {None}]
      /\ \A s \in Jobs : job[s].commit \in Nat
  BY BoundAssumption DEF TypeOK
<1>2. ASSUME page'[k] = page[k], k \notin raced, u <= db PROVE Explained(k, u)
  <2>1. u \in (page[k] + 1)..db
    BY <1>1, <1>2
  <2> QED BY <1>2, <2>1 DEF StaleExplained, Explained
<1>3. CASE UNCHANGED <<db, page, job, raced, lost>>
  BY <1>1, <1>2, <1>3 DEF Explained, WillDelete
<1>4. ASSUME NEW c \in Readers, Store(c) PROVE Explained(k, u)'
  <2>1. /\ page' = [page EXCEPT ![reader[c].key] = reader[c].version]
        /\ UNCHANGED <<db, job, lost>>
        /\ reader[c].key \in Keys
    BY <1>4 DEF Store, Known
  <2>2. CASE k = reader[c].key
    <3>1. reader[c].version = db
      BY <1>4, <2>2 DEF Store
    <3>2. page'[k] = db
      BY <1>1, <2>1, <2>2, <3>1
    <3> QED BY <1>1, <2>1, <3>2
  <2>3. CASE k # reader[c].key
    <3>1. page'[k] = page[k] /\ k \notin raced
      BY <1>1, <1>4, <2>1, <2>3 DEF Store
    <3> QED BY <1>1, <1>2, <2>1, <3>1 DEF Explained, WillDelete
  <2> QED BY <2>2, <2>3
<1>5. ASSUME NEW x \in Keys, Expire(x) PROVE Explained(k, u)'
  <2>1. k # x
    BY <1>1, <1>5 DEF Expire
  <2>2. page'[k] = page[k] /\ k \notin raced /\ UNCHANGED <<db, job, lost>>
    BY <1>1, <1>5, <2>1 DEF Expire
  <2> QED BY <1>1, <1>2, <2>2 DEF Explained, WillDelete
<1>6. CASE Script
  <2>1. db' = db + 1 /\ lost' = db'
    BY <1>6 DEF Script
  <2> QED BY <1>1, <2>1 DEF Explained
<1>7. ASSUME NEW s \in Jobs, Commit(s) PROVE Explained(k, u)'
  <2>1. /\ db' = db + 1
        /\ UNCHANGED <<page, raced, lost>>
        /\ job[s].phase = "fetched"
        /\ job' = [job EXCEPT ![s].phase = "committed", ![s].commit = db + 1]
    BY <1>7 DEF Commit
  <2>2. /\ job'[s].phase = "committed" /\ job'[s].commit = db'
        /\ \A r \in Jobs : r # s => job'[r] = job[r]
    BY <2>1 DEF TypeOK
  <2>3. CASE u <= db
    <3>1. Explained(k, u)
      BY <1>2, <2>1, <2>3
    <3>2. ~WillDelete(s, u, k)
      BY <2>1 DEF WillDelete
    <3> QED BY <2>1, <2>2, <3>1, <3>2, JobExplains
  <2>4. CASE u = db'
    BY <2>2, <2>4 DEF Explained, WillDelete
  <2> QED BY <1>1, <2>1, <2>3, <2>4
<1>8. ASSUME NEW s \in Jobs, Crash(s) PROVE Explained(k, u)'
  <2>1. /\ UNCHANGED <<db, page, raced>>
        /\ lost' = Later(lost, job[s].commit)
        /\ \A r \in Jobs : r # s => job'[r] = job[r]
    BY <1>8 DEF Crash, TypeOK
  <2>2. Explained(k, u)
    BY <1>1, <1>2, <2>1
  <2>3. lost <= lost' /\ job[s].commit <= lost'
    BY <1>1, <2>1 DEF Later
  <2>4. CASE u <= lost \/ WillDelete(s, u, k)
    <3>1. u <= lost'
      BY <1>1, <2>1, <2>3, <2>4 DEF WillDelete, Later
    <3> QED BY <3>1 DEF Explained
  <2>5. ASSUME NEW r \in Jobs, r # s, WillDelete(r, u, k)
        PROVE  Explained(k, u)'
    BY <2>1, <2>5 DEF Explained, WillDelete
  <2> QED BY <2>2, <2>4, <2>5 DEF Explained
<1>9. ASSUME NEW s \in Jobs, page'[k] = page[k], k \notin raced,
             UNCHANGED <<db, lost>>,
             \A r \in Jobs : r # s => job'[r] = job[r],
             WillDelete(s, u, k) => WillDelete(s, u, k)'
      PROVE  Explained(k, u)'
  <2>1. Explained(k, u)
    BY <1>1, <1>2, <1>9
  <2> QED BY <1>9, <2>1, JobExplains
<1>10. ASSUME NEW s \in Jobs, NEW h \in Heads, FetchHead(s, h)
       PROVE  Explained(k, u)'
  BY <1>9, <1>10 DEF FetchHead, WillDelete, TypeOK
<1>11. ASSUME NEW s \in Jobs, Reuse(s) \/ SetWatermark(s) \/ DeleteWatermark(s)
       PROVE  Explained(k, u)'
  BY <1>9, <1>11 DEF Reuse, SetWatermark, DeleteWatermark, WillDelete, TypeOK
<1>12. ASSUME NEW s \in Jobs, Invalidate(s) \/ Refresh(s)
       PROVE  Explained(k, u)'
  <2>1. PICK mark \in BOOLEAN :
           /\ job' = [job EXCEPT ![s].phase = "scanning", ![s].mark = mark,
                                 ![s].todo = {x \in Keys : page[x] # None}]
           /\ UNCHANGED <<db, watermark, page, reader, raced, lost>>
    BY <1>12 DEF Invalidate, Refresh, Scan
  <2>2. /\ job'[s].phase = "scanning" /\ job'[s].commit = job[s].commit
        /\ job'[s].todo = {x \in Keys : page[x] # None}
        /\ \A r \in Jobs : r # s => job'[r] = job[r]
    BY <2>1 DEF TypeOK
  <2>3. k \in job'[s].todo
    BY <2>1, <2>2
  <2> QED BY <1>9, <2>1, <2>2, <2>3 DEF WillDelete
<1>13. ASSUME NEW s \in Jobs, NEW x \in Keys, DeletePage(s, x)
       PROVE  Explained(k, u)'
  <2>1. k # x
    BY <1>1, <1>13 DEF DeletePage
  <2>2. page'[k] = page[k] /\ k \notin raced /\ UNCHANGED <<db, lost>>
    BY <1>1, <1>13, <2>1 DEF DeletePage
  <2>3. /\ job'[s].phase = job[s].phase /\ job'[s].commit = job[s].commit
        /\ job'[s].todo = job[s].todo \ {x}
        /\ \A r \in Jobs : r # s => job'[r] = job[r]
    BY <1>13 DEF DeletePage, TypeOK
  <2> QED BY <1>9, <2>1, <2>2, <2>3 DEF WillDelete
<1>14. ASSUME NEW s \in Jobs, Return(s) PROVE Explained(k, u)'
  BY <1>9, <1>14 DEF Return, WillDelete, TypeOK
<1>15. ASSUME NEW c \in Readers,
              \/ \E q \in Queries : GetWatermark(c, q)
              \/ GetPage(c)
              \/ CountItems(c)
              \/ ReadRows(c)
              \/ Abandon(c)
       PROVE  UNCHANGED <<db, page, job, raced, lost>>
  BY <1>15 DEF GetWatermark, GetPage, CountItems, ReadRows, Abandon
<1> QED
  BY <1>3, <1>4, <1>5, <1>6, <1>7, <1>8, <1>10, <1>11, <1>12, <1>13, <1>14,
     <1>15 DEF Next, vars, List, Proceed

----------------------------------------------------------------------------
\* The empty cache satisfies the invariant.
LEMMA CacheInit == Init => CacheInv
<1> SUFFICES ASSUME Init PROVE CacheInv
  OBVIOUS
<1>1. /\ db = 0 /\ lost = 0 /\ watermark = None /\ raced = {}
      /\ page = [k \in Keys |-> None]
      /\ reader = [c \in Readers |-> NoReader]
      /\ job = [s \in Jobs |-> NoJob]
  BY DEF Init
<1>2. db \in 0..MaxCommits
  BY <1>1, BoundAssumption
<1>3. NoReader \in ReaderRecords /\ NoJob \in JobRecords
  BY <1>2, IdleTyped
<1>4. TypeOK
  BY <1>1, <1>2, <1>3 DEF TypeOK, ReaderRecords, JobRecords
<1>5. Known
  BY <1>1 DEF Known, NoReader, NoJob
<1>6. StaleExplained
  BY <1>1 DEF StaleExplained
<1> QED BY <1>4, <1>5, <1>6 DEF CacheInv

\* The invariant of the cache.
THEOREM CacheInvariant == Spec => []CacheInv
<1>1. Init => CacheInv
  BY CacheInit
<1>2. CacheInv /\ [Next]_vars => CacheInv'
  BY TypeStep, StaleStep DEF CacheInv
<1> QED BY <1>1, <1>2, PTL DEF Spec

\* The cache, its readers and its jobs keep their types.
THEOREM CacheTyped == Spec => []TypeOK
<1>1. CacheInv => TypeOK
  BY DEF CacheInv
<1> QED BY <1>1, CacheInvariant, PTL

\* However many readers and jobs interleave, a cached page misses a rewrite
\* only while a job is about to delete it, after a script or a job that died,
\* or when its reader was overtaken by the rewrite.
THEOREM PagesExplained == Spec => []StaleExplained
<1>1. CacheInv => StaleExplained
  BY DEF CacheInv
<1> QED BY <1>1, CacheInvariant, PTL
----------------------------------------------------------------------------
(* The rate limiter. *)

\* When the minute of b began.
Begins(b) == b[1] * MinuteLength

\* A counter is kept for the minute it counts and the one after.
Deadlines ==
    \A b \in Buckets :
        bucket[b].deadline # 0 => /\ bucket[b].deadline >= Grace(b)
                                  /\ bucket[b].deadline > clock

\* A call under way was stamped with a minute that has begun, and what it has
\* been told so far agrees with its phase.
Stamped ==
    \A c \in Calls :
        /\ call[c].phase \in {"stamped", "first"} =>
               Begins(call[c].bucket) <= clock
        /\ call[c].phase \in {"new", "stamped"} => call[c].count = 0
        /\ call[c].phase = "first" => call[c].count = 1
        /\ call[c].phase = "served" => call[c].count \in 1..Limit

\* The calls that b has counted in time.
InTime(b) ==
    {c \in Calls : call[c].bucket = b /\ call[c].count > 0 /\ ~call[c].late}

\* They have different numbers, and up to Grace none that b has yet to give.
Numbered ==
    \A b \in Buckets :
        /\ \A c, d \in InTime(b) : call[c].count = call[d].count => c = d
        /\ clock < Grace(b) =>
               \A c \in InTime(b) : call[c].count <= bucket[b].count

LimiterInv == LimiterTypeOK /\ Deadlines /\ Stamped /\ Numbered /\ CountersExpire

CallRecords ==
    [phase : Phases, bucket : Buckets \cup {<<>>}, count : Nat, late : BOOLEAN]

BucketRecords == [count : Nat, deadline : Nat]

----------------------------------------------------------------------------
\* A time and the minute it is in.
LEMMA MinuteOf ==
    ASSUME NEW time \in Nat
    PROVE  /\ Minute(time) \in Nat
           /\ Minute(time) * MinuteLength <= time
           /\ time < Minute(time) * MinuteLength + MinuteLength
<1> DEFINE M == MinuteLength
<1>1. M \in Nat /\ M > 0
  BY MinuteAssumption
<1>2. /\ Minute(time) \in Nat
      /\ time = M * Minute(time) + (time % M) /\ time % M \in 0..(M - 1)
  BY <1>1, SMT DEF Minute
<1> HIDE DEF M
<1>3. M * Minute(time) \in Nat /\ M * Minute(time) = Minute(time) * M
  BY <1>1, <1>2
<1> QED BY <1>1, <1>2, <1>3 DEF M

\* An earlier time is in no later minute.
LEMMA MinuteMonotone ==
    ASSUME NEW m \in Nat, NEW n \in Nat, m <= n
    PROVE  Minute(m) <= Minute(n)
<1> DEFINE M == MinuteLength
<1>1. M \in Nat /\ M > 0
  BY MinuteAssumption
<1>2. /\ Minute(m) \in Nat /\ Minute(n) \in Nat
      /\ Minute(m) * M <= m /\ n < Minute(n) * M + M
  BY MinuteOf
<1> HIDE DEF M
<1>3. ASSUME Minute(n) + 1 <= Minute(m) PROVE FALSE
  <2>1. (Minute(n) + 1) * M <= Minute(m) * M
    BY <1>1, <1>2, <1>3
  <2>2. (Minute(n) + 1) * M = Minute(n) * M + M
    BY <1>1, <1>2
  <2>3. Minute(n) * M \in Nat /\ Minute(m) * M \in Nat
    BY <1>1, <1>2
  <2> QED BY <1>1, <1>2, <2>1, <2>2, <2>3
<1> QED BY <1>2, <1>3

\* From the beginning of a minute, the time to live reaches to Grace.
LEMMA GraceLength ==
    ASSUME NEW b \in Buckets
    PROVE  /\ Begins(b) \in Nat /\ Grace(b) \in Nat /\ TimeToLive \in Nat
           /\ TimeToLive > 0
           /\ Grace(b) = Begins(b) + TimeToLive
<1>1. b[1] \in Nat /\ MinuteLength \in Nat /\ MinuteLength > 0
  BY MinuteAssumption, MinuteOf DEF Buckets
<1>2. b[1] * MinuteLength \in Nat
  BY <1>1
<1>3. (b[1] + 2) * MinuteLength = b[1] * MinuteLength + 2 * MinuteLength
  BY <1>1
<1> QED BY <1>1, <1>2, <1>3 DEF Begins, Grace, TimeToLive

----------------------------------------------------------------------------
\* Time passes: a counter is forgotten after its Grace only.
LEMMA PassStep == LimiterInv /\ Pass => LimiterInv'
<1> SUFFICES ASSUME LimiterInv, Pass PROVE LimiterInv'
  OBVIOUS
<1>1. /\ clock \in Nat /\ clock' = clock + 1 /\ call' = call
      /\ bucket \in [Buckets -> BucketRecords]
      /\ bucket' = [b \in Buckets |-> IF bucket[b].deadline = clock + 1
                                      THEN NoBucket ELSE bucket[b]]
  BY DEF Pass, LimiterInv, LimiterTypeOK, BucketRecords
<1>2. NoBucket \in BucketRecords /\ NoBucket.count = 0 /\ NoBucket.deadline = 0
  BY DEF NoBucket, BucketRecords
<1>3. \A b \in Buckets : Grace(b) \in Nat /\ Begins(b) \in Nat
  BY GraceLength
<1>4. ASSUME NEW b \in Buckets
      PROVE  \/ bucket'[b] = bucket[b] /\ bucket[b].deadline # clock + 1
             \/ bucket'[b] = NoBucket /\ Grace(b) <= clock'
  BY <1>1, <1>3 DEF LimiterInv, Deadlines, BucketRecords
<1> HIDE DEF NoBucket
<1>5. LimiterTypeOK'
  <2>1. bucket' \in [Buckets -> BucketRecords]
    BY <1>1, <1>2
  <2> QED BY <1>1, <2>1 DEF LimiterInv, LimiterTypeOK, BucketRecords
<1>6. Deadlines'
  <2>1. ASSUME NEW b \in Buckets, bucket'[b].deadline # 0
        PROVE  /\ bucket'[b].deadline >= Grace(b)
               /\ bucket'[b].deadline > clock'
    <3>1. bucket'[b] = bucket[b] /\ bucket[b].deadline # clock + 1
      BY <1>2, <1>4, <2>1
    <3>2. bucket[b].deadline \in Nat
      BY <1>1 DEF BucketRecords
    <3> QED BY <1>1, <2>1, <3>1, <3>2 DEF LimiterInv, Deadlines
  <2> QED BY <2>1 DEF Deadlines, Grace
<1>7. Stamped'
  <2>1. ASSUME NEW c \in Calls, call[c].phase \in {"stamped", "first"}
        PROVE  Begins(call[c].bucket) <= clock'
    BY <1>1, <1>3, <2>1 DEF LimiterInv, LimiterTypeOK, Stamped
  <2> QED BY <1>1, <2>1 DEF LimiterInv, Stamped, Begins
<1>8. Numbered'
  <2>1. ASSUME NEW b \in Buckets, clock' < Grace(b)
        PROVE  clock < Grace(b) /\ bucket'[b] = bucket[b]
    BY <1>1, <1>3, <1>4, <2>1
  <2>2. \A b \in Buckets : InTime(b)' = InTime(b)
    BY <1>1 DEF InTime
  <2> QED BY <1>1, <2>1, <2>2 DEF LimiterInv, Numbered, Grace
<1>9. CountersExpire'
  <2>1. \A b \in Buckets, c \in Calls : Unsettled(b, c)' <=> Unsettled(b, c)
    BY <1>1 DEF Unsettled
  <2> QED BY <1>1, <1>2, <1>4, <2>1 DEF LimiterInv, CountersExpire, BucketRecords
<1> QED BY <1>5, <1>6, <1>7, <1>8, <1>9 DEF LimiterInv

\* A step that changes the phase of one call, and stamps it if it is new,
\* leaves the counters and their numbers alone.
LEMMA QuietStep ==
    ASSUME LimiterInv, NEW c \in Calls, NEW new \in CallRecords,
           call' = [call EXCEPT ![c] = new], UNCHANGED <<clock, bucket>>,
           new.bucket \in Buckets, new.count = call[c].count,
           new.late = call[c].late \/ new.count = 0,
           new.bucket = call[c].bucket \/ call[c].phase = "new",
           \/ new.phase = "stamped" /\ Begins(new.bucket) <= clock
                                    /\ call[c].phase = "new"
           \/ new.phase \in {"unlimited", "dead"}
    PROVE  LimiterInv'
<1>1. call \in [Calls -> CallRecords]
  BY DEF LimiterInv, LimiterTypeOK, CallRecords
<1>2. /\ call'[c] = new
      /\ \A d \in Calls : d # c => call'[d] = call[d]
      /\ call' \in [Calls -> CallRecords]
  BY <1>1
<1>3. call[c].phase = "new" => new.count = 0
  BY DEF LimiterInv, Stamped
<1>4. LimiterTypeOK'
  BY <1>2 DEF LimiterInv, LimiterTypeOK, CallRecords
<1>5. Deadlines' /\ Stamped'
  BY <1>2, <1>3 DEF LimiterInv, Deadlines, Stamped
<1>6. Numbered'
  <2>1. ASSUME NEW b \in Buckets, NEW d \in InTime(b)'
        PROVE  d \in InTime(b) /\ call'[d].count = call[d].count
    BY <1>2, <1>3, <2>1 DEF InTime
  <2> QED BY <2>1 DEF LimiterInv, Numbered
<1>7. CountersExpire'
  <2>1. ASSUME NEW b \in Buckets, NEW d \in Calls, Unsettled(b, d)
        PROVE  Unsettled(b, d)'
    BY <1>2, <1>3, <2>1 DEF Unsettled, LimiterInv, Stamped
  <2> QED BY <2>1 DEF LimiterInv, CountersExpire
<1> QED BY <1>4, <1>5, <1>6, <1>7 DEF LimiterInv

\* INCR gives a number that no call in time has.
LEMMA CountStep ==
    ASSUME LimiterInv, NEW c \in Calls, call[c].phase = "stamped",
           NEW n, n = bucket[call[c].bucket].count + 1,
           NEW phase \in {"first", "served", "limited", "unlimited"},
           phase = "first" => n = 1,
           phase = "served" => n <= Limit,
           n = 1 => phase \in {"first", "unlimited"},
           Counted(c, phase)
    PROVE  LimiterInv'
<1>0. PICK b \in Buckets : b = call[c].bucket
  BY DEF LimiterInv, LimiterTypeOK
<1>1. /\ call \in [Calls -> CallRecords]
      /\ bucket \in [Buckets -> BucketRecords]
      /\ clock \in Nat
      /\ b \in Buckets
  BY DEF LimiterInv, LimiterTypeOK, CallRecords, BucketRecords
<1>2. /\ n \in Nat /\ n > 0 /\ bucket[b].count \in Nat /\ n = bucket[b].count + 1
      /\ Grace(b) \in Nat /\ Begins(b) <= clock /\ Limit \in Nat
      /\ call[c].count = 0
  BY <1>0, <1>1, GraceLength, LimitAssumption
  DEF BucketRecords, LimiterInv, Stamped
<1>01. PICK late \in BOOLEAN : late = (clock >= Grace(b))
  <2> DEFINE g == Grace(b)
  <2>1. clock \in Nat /\ g \in Nat
    BY <1>1, <1>2
  <2> HIDE DEF g
  <2>2. CASE clock >= g
    <3>1. TRUE = (clock >= g)
      BY <2>1, <2>2
    <3> QED BY <3>1 DEF g
  <2>3. CASE ~(clock >= g)
    <3>1. FALSE = (clock >= g)
      BY <2>1, <2>3
    <3> QED BY <3>1 DEF g
  <2> QED BY <2>2, <2>3
<1>3. /\ bucket' = [bucket EXCEPT ![b].count = n]
      /\ call' = [call EXCEPT ![c].phase = phase, ![c].count = n, ![c].late = late]
      /\ clock' = clock
  BY <1>0, <1>01 DEF Counted
<1>4. /\ call'[c].phase = phase /\ call'[c].bucket = b
      /\ call'[c].count = n /\ call'[c].late = late
      /\ \A d \in Calls : d # c => call'[d] = call[d]
      /\ call' \in [Calls -> CallRecords]
  BY <1>0, <1>1, <1>2, <1>3 DEF CallRecords, Phases
<1>5. /\ bucket'[b].count = n /\ bucket'[b].deadline = bucket[b].deadline
      /\ \A x \in Buckets : x # b => bucket'[x] = bucket[x]
      /\ bucket' \in [Buckets -> BucketRecords]
  BY <1>1, <1>2, <1>3 DEF BucketRecords
<1>6. LimiterTypeOK'
  BY <1>1, <1>3, <1>4, <1>5
  DEF LimiterInv, LimiterTypeOK, CallRecords, BucketRecords
<1>7. Deadlines'
  BY <1>3, <1>5 DEF LimiterInv, Deadlines, Grace
<1>8. Stamped'
  BY <1>2, <1>3, <1>4 DEF LimiterInv, Stamped, Begins
<1>9. Numbered'
  <2> SUFFICES ASSUME NEW x \in Buckets
               PROVE  /\ \A d, e \in InTime(x)' :
                            call'[d].count = call'[e].count => d = e
                      /\ clock' < Grace(x) =>
                            \A d \in InTime(x)' : call'[d].count <= bucket'[x].count
    BY DEF Numbered, Grace
  <2>1. \A d \in InTime(x)' : d # c => d \in InTime(x)
    BY <1>4 DEF InTime
  <2>2. c \in InTime(x)' => x = b /\ clock < Grace(b)
    BY <1>01, <1>1, <1>2, <1>4 DEF InTime, CallRecords
  <2>3. clock < Grace(b) => \A d \in InTime(b) : call[d].count < n
    <3>1. \A d \in InTime(b) : call[d].count \in Nat
      BY <1>1 DEF InTime, CallRecords
    <3> QED BY <1>1, <1>2, <3>1 DEF LimiterInv, Numbered
  <2>4. \A d \in InTime(x) : call[d].count \in Nat
    BY <1>1 DEF InTime, CallRecords
  <2>5. \A d, e \in InTime(x)' : call'[d].count = call'[e].count => d = e
    <3> SUFFICES ASSUME NEW d \in InTime(x)', NEW e \in InTime(x)',
                        call'[d].count = call'[e].count, d # e
                 PROVE  FALSE
      OBVIOUS
    <3>0. d \in Calls /\ e \in Calls
      BY DEF InTime
    <3>1. CASE d # c /\ e # c
      BY <1>4, <2>1, <3>0, <3>1 DEF LimiterInv, Numbered
    <3>2. CASE d = c
      BY <1>2, <1>4, <2>1, <2>2, <2>3, <2>4, <3>0, <3>2
    <3>3. CASE e = c
      BY <1>2, <1>4, <2>1, <2>2, <2>3, <2>4, <3>0, <3>3
    <3> QED BY <3>1, <3>2, <3>3
  <2>6. ASSUME clock' < Grace(x), NEW d \in InTime(x)'
        PROVE  call'[d].count <= bucket'[x].count
    <3>0. d \in Calls
      BY DEF InTime
    <3>1. CASE d = c
      BY <1>2, <1>4, <1>5, <2>2, <2>6, <3>1
    <3>2. CASE d # c
      <4>1. d \in InTime(x) /\ call'[d] = call[d]
        BY <1>4, <2>1, <3>0, <3>2
      <4>2. call[d].count <= bucket[x].count
        BY <1>3, <2>6, <4>1 DEF LimiterInv, Numbered
      <4>3. bucket[x].count <= bucket'[x].count /\ bucket[x].count \in Nat
            /\ bucket'[x].count \in Nat
        BY <1>1, <1>2, <1>5 DEF BucketRecords
      <4> QED BY <2>4, <4>1, <4>2, <4>3
    <3> QED BY <3>1, <3>2
  <2> QED BY <2>5, <2>6
<1>10. CountersExpire'
  <2>1. ASSUME NEW x \in Buckets, NEW d \in Calls, Unsettled(x, d)
        PROVE  Unsettled(x, d)'
    <3>1. d # c
      BY <1>2, <2>1 DEF Unsettled
    <3> QED BY <1>4, <2>1, <3>1 DEF Unsettled
  <2>2. n = 1 => Unsettled(b, c)'
    BY <1>4 DEF Unsettled
  <2>3. n # 1 => bucket[b].count > 0
    BY <1>2
  <2> QED BY <1>1, <1>3, <1>5, <2>1, <2>2, <2>3 DEF LimiterInv, CountersExpire
<1> QED BY <1>6, <1>7, <1>8, <1>9, <1>10 DEF LimiterInv

\* EXPIRE gives a counter a deadline that is not before its Grace.
LEMMA TimedStep ==
    ASSUME LimiterInv, NEW c \in Calls,
           NEW phase \in {"served", "limited", "unlimited"},
           phase = "served" => 1 <= Limit,
           Timed(c, phase)
    PROVE  LimiterInv'
<1>0. PICK b \in Buckets : b = call[c].bucket
  BY DEF Timed, LimiterInv, LimiterTypeOK
<1> DEFINE deadline == IF bucket[b].count = 0 THEN bucket[b].deadline
                       ELSE clock + TimeToLive
<1>1. /\ call \in [Calls -> CallRecords]
      /\ bucket \in [Buckets -> BucketRecords]
      /\ clock \in Nat
      /\ call[c].phase = "first"
  BY DEF Timed, LimiterInv, LimiterTypeOK, CallRecords, BucketRecords
<1>2. /\ call[c].count = 1 /\ Begins(b) <= clock /\ Begins(b) \in Nat
      /\ TimeToLive \in Nat /\ TimeToLive > 0
      /\ Grace(b) = Begins(b) + TimeToLive
      /\ bucket[b].deadline \in Nat /\ bucket[b].count \in Nat
      /\ Limit \in Nat
  BY <1>0, <1>1, GraceLength, LimitAssumption
  DEF BucketRecords, LimiterInv, Stamped
<1>3. /\ bucket' = [bucket EXCEPT ![b].deadline = deadline]
      /\ call' = [call EXCEPT ![c].phase = phase]
      /\ clock' = clock
  BY <1>0, <1>1 DEF Timed, BucketRecords
<1>4. /\ deadline \in Nat
      /\ deadline # 0 => deadline >= Grace(b) /\ deadline > clock
      /\ bucket[b].count > 0 => deadline > clock
  BY <1>1, <1>2 DEF LimiterInv, Deadlines
<1> HIDE DEF deadline
<1>5. /\ call'[c].phase = phase /\ call'[c].bucket = b
      /\ call'[c].count = 1 /\ call'[c].late = call[c].late
      /\ \A d \in Calls : d # c => call'[d] = call[d]
      /\ call' \in [Calls -> CallRecords]
  BY <1>0, <1>1, <1>2, <1>3 DEF CallRecords, Phases
<1>6. /\ bucket'[b].count = bucket[b].count /\ bucket'[b].deadline = deadline
      /\ \A x \in Buckets : x # b => bucket'[x] = bucket[x]
      /\ bucket' \in [Buckets -> BucketRecords]
  BY <1>1, <1>3, <1>4 DEF BucketRecords
<1>7. LimiterTypeOK'
  BY <1>1, <1>3, <1>5, <1>6
  DEF LimiterInv, LimiterTypeOK, CallRecords, BucketRecords
<1>8. Deadlines'
  BY <1>3, <1>4, <1>6 DEF LimiterInv, Deadlines, Grace
<1>9. Stamped'
  BY <1>2, <1>3, <1>5 DEF LimiterInv, Stamped, Begins
<1>10. Numbered'
  <2>1. /\ \A x \in Buckets : InTime(x)' = InTime(x) /\ bucket'[x].count = bucket[x].count
        /\ \A d \in Calls : call'[d].count = call[d].count
    BY <1>0, <1>2, <1>5, <1>6 DEF InTime
  <2>2. \A x \in Buckets : InTime(x) \subseteq Calls
    BY DEF InTime
  <2> QED BY <1>3, <2>1, <2>2 DEF LimiterInv, Numbered, Grace
<1>11. CountersExpire'
  <2>1. ASSUME NEW x \in Buckets, NEW d \in Calls, Unsettled(x, d), x # b
        PROVE  Unsettled(x, d)'
    <3>1. d # c
      BY <1>0, <2>1 DEF Unsettled
    <3> QED BY <1>5, <2>1, <3>1 DEF Unsettled
  <2> QED BY <1>1, <1>3, <1>4, <1>6, <2>1 DEF LimiterInv, CountersExpire
<1> QED BY <1>7, <1>8, <1>9, <1>10, <1>11 DEF LimiterInv

----------------------------------------------------------------------------
\* Every step keeps the invariant.
LEMMA LimiterStep == LimiterInv /\ [LimiterNext]_limiterVars => LimiterInv'
<1> SUFFICES ASSUME LimiterInv, [LimiterNext]_limiterVars PROVE LimiterInv'
  OBVIOUS
<1>0. /\ call \in [Calls -> CallRecords] /\ clock \in Nat /\ Limit \in Nat
      /\ bucket \in [Buckets -> BucketRecords]
  BY LimitAssumption DEF LimiterInv, LimiterTypeOK, CallRecords, BucketRecords
<1>1. CASE UNCHANGED limiterVars
  BY <1>1 DEF limiterVars, LimiterInv, LimiterTypeOK, Deadlines, Stamped,
              Numbered, InTime, CountersExpire, Unsettled, Grace
<1>2. CASE Pass
  BY <1>2, PassStep
<1>3. ASSUME NEW c \in Calls, NEW a \in Addresses, Arrive(c, a)
      PROVE  LimiterInv'
  <2> DEFINE b == <<Minute(clock), a>>
             new == [phase |-> "stamped", bucket |-> b, count |-> 0, late |-> FALSE]
  <2>1. /\ clock <= LastTick /\ call[c].phase = "new"
        /\ call' = [call EXCEPT ![c] = new] /\ UNCHANGED <<clock, bucket>>
    BY <1>3 DEF Arrive, BucketOf
  <2>2. Minute(clock) \in 0..Minute(LastTick)
    BY <1>0, <2>1, MinuteOf, MinuteMonotone, MinuteAssumption
  <2>3. b \in Buckets
    BY <2>2 DEF Buckets
  <2>4. Begins(b) <= clock
    BY <1>0, MinuteOf DEF Begins
  <2>5. call[c].count = 0
    BY <2>1 DEF LimiterInv, Stamped
  <2> HIDE DEF b
  <2>6. new \in CallRecords
    BY <2>3 DEF CallRecords, Phases
  <2> QED BY <2>1, <2>3, <2>4, <2>5, <2>6, QuietStep
<1>4. ASSUME NEW c \in Calls, Incr(c) PROVE LimiterInv'
  <2> DEFINE n == bucket[call[c].bucket].count + 1
             phase == IF n = 1 THEN "first" ELSE Outcome(n)
  <2>1. call[c].phase = "stamped" /\ Counted(c, phase)
    BY <1>4 DEF Incr
  <2>2. /\ phase \in {"first", "served", "limited"}
        /\ phase = "first" => n = 1
        /\ n = 1 => phase = "first"
        /\ phase = "served" => ~(n > Limit)
    BY DEF Outcome
  <2>3. n \in Nat
    BY <1>0, <2>1 DEF LimiterInv, LimiterTypeOK, BucketRecords
  <2> HIDE DEF phase
  <2> QED BY <1>0, <2>1, <2>2, <2>3, CountStep
<1>5. ASSUME NEW c \in Calls, Expire120(c) PROVE LimiterInv'
  <2>1. /\ Outcome(1) \in {"served", "limited", "unlimited"}
        /\ Outcome(1) = "served" => 1 <= Limit
    BY <1>0 DEF Outcome
  <2> QED BY <1>5, <2>1, TimedStep DEF Expire120
<1>6. ASSUME NEW c \in Calls, NEW phase \in {"unlimited", "dead"},
             call[c].phase \in {"stamped", "first"},
             call' = [call EXCEPT ![c].phase = phase],
             UNCHANGED <<clock, bucket>>
      PROVE  LimiterInv'
  <2> DEFINE new == [call[c] EXCEPT !.phase = phase]
  <2>1. /\ new \in CallRecords /\ new.phase = phase
        /\ new.bucket = call[c].bucket /\ new.count = call[c].count
        /\ new.late = call[c].late
        /\ call' = [call EXCEPT ![c] = new]
    BY <1>0, <1>6 DEF CallRecords, Phases
  <2>2. call[c].bucket \in Buckets
    BY <1>6 DEF LimiterInv, LimiterTypeOK
  <2>3. new.late = (call[c].late \/ new.count = 0) \/ new.late = call[c].late
    BY <2>1
  <2> HIDE DEF new
  <2> QED BY <1>6, <2>1, <2>2, QuietStep
<1>7. ASSUME NEW c \in Calls, RedisFails(c) PROVE LimiterInv'
  <2>1. CASE call[c].phase = "stamped" /\ Counted(c, "unlimited")
    BY <2>1, CountStep
  <2>2. CASE Timed(c, "unlimited")
    BY <2>2, TimedStep
  <2> QED BY <1>6, <1>7, <2>1, <2>2 DEF RedisFails
<1>8. ASSUME NEW c \in Calls, Die(c) PROVE LimiterInv'
  BY <1>6, <1>8 DEF Die
<1> QED
  BY <1>1, <1>2, <1>3, <1>4, <1>5, <1>7, <1>8 DEF LimiterNext, Dispatch

\* No calls, no counters.
LEMMA LimiterStart == LimiterInit => LimiterInv
<1> SUFFICES ASSUME LimiterInit PROVE LimiterInv
  OBVIOUS
<1>1. LimiterTypeOK
  BY DEF LimiterInit, LimiterTypeOK, NoBucket, NewCall, Phases
<1>2. Deadlines /\ Stamped /\ Numbered /\ CountersExpire
  BY DEF LimiterInit, NoBucket, NewCall, Deadlines, Stamped, Numbered, InTime,
         CountersExpire
<1> QED BY <1>1, <1>2 DEF LimiterInv

----------------------------------------------------------------------------
\* The invariant of the limiter.
THEOREM LimiterInvariant == LimiterSpec => []LimiterInv
BY LimiterStart, LimiterStep, PTL DEF LimiterSpec

\* Counters and calls keep their types.
THEOREM LimiterTyped == LimiterSpec => []LimiterTypeOK
<1>1. LimiterInv => LimiterTypeOK
  BY DEF LimiterInv
<1> QED BY <1>1, LimiterInvariant, PTL

\* A counter without a deadline comes from a call that has not told Redis, or
\* could not.
THEOREM NoCounterStays == LimiterSpec => []CountersExpire
<1>1. LimiterInv => CountersExpire
  BY DEF LimiterInv
<1> QED BY <1>1, LimiterInvariant, PTL

\* However many calls are held up wherever, those that are counted in time are
\* served up to the limit only: their numbers are different ones of 1..Limit.
THEOREM Limited == LimiterSpec => []LimitHolds
<1>1. ASSUME LimiterInv PROVE LimitHolds
  <2> SUFFICES ASSUME NEW b \in Buckets
               PROVE  Cardinality(ServedInTime(b)) <= Limit
    BY DEF LimitHolds
  <2> DEFINE S == ServedInTime(b)
             number == [c \in S |-> call[c].count]
  <2>1. \A c \in S : call[c].count \in 1..Limit /\ c \in InTime(b)
    BY <1>1, LimitAssumption DEF LimiterInv, Stamped, ServedInTime, InTime
  <2>2. \A c, d \in S : call[c].count = call[d].count => c = d
    BY <1>1, <2>1 DEF LimiterInv, Numbered
  <2> HIDE DEF S
  <2>3. number \in Injection(S, 1..Limit)
    BY <2>1, <2>2 DEF Injection, IsInjective
  <2>4. IsFiniteSet(1..Limit) /\ Cardinality(1..Limit) = Limit
    BY FS_Interval, LimitAssumption
  <2>5. Cardinality(S) <= Limit
    BY <2>3, <2>4, FS_Injection
  <2> QED BY <2>5 DEF S
<1> QED BY <1>1, LimiterInvariant, PTL
=============================================================================
