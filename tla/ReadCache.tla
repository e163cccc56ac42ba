------------------------------ MODULE ReadCache ------------------------------
(***************************************************************************)
(* The Redis cache in front of the validator catalog (namespace            *)
(* "validators") and of the validator rankings (namespace "intelligence"). *)
(* Both endpoints read through it in the same way, and both jobs that      *)
(* rewrite the rows invalidate it in the same way; this module is one of   *)
(* the two namespaces.                                                     *)
(*                                                                         *)
(* Rows are abstracted to the number of commits that have rewritten them:  *)
(* page[k] is the number a cached page was read at.  A key of a page is    *)
(* made of the watermark the reader saw and of its query.  Redis commands  *)
(* are atomic, a reader or a job awaits between any two of them.           *)
(***************************************************************************)
EXTENDS Naturals

CONSTANTS
    Queries,     \* page, page_size, filters and order of a listing
    MaxHead,     \* chain heads are 1..MaxHead
    Readers,     \* requests that list
    Jobs,        \* requests that rewrite or invalidate
    MaxCommits,  \* bound: rewrites of the rows
    None

ASSUME BoundAssumption == MaxHead \in Nat /\ MaxCommits \in Nat
ASSUME NoneAssumption == None \notin Nat /\ None \notin Queries

VARIABLES
    db,         \* how often the rows have been rewritten and committed
    watermark,  \* the watermark key of the namespace
    page,       \* page[k]: the cached page under key k
    reader,     \* reader[c]: a request that lists
    job,        \* job[s]: a request that rewrites or invalidates
    raced,      \* history: the pages stored after a rewrite they had not seen
    lost        \* history: the last rewrite that nobody will invalidate

vars == <<db, watermark, page, reader, job, raced, lost>>

----------------------------------------------------------------------------
Heads == 1..MaxHead

\* The watermark of a namespace that has none is "0".
Watermarks == Heads \cup {0}

Keys == Watermarks \X Queries

NoReader == [phase |-> "idle", key |-> None, version |-> 0]

NoJob == [phase |-> "idle", head |-> 0, commit |-> 0, todo |-> {}, mark |-> FALSE]

Later(a, b) == IF a > b THEN a ELSE b

Init ==
    /\ db = 0
    /\ watermark = None
    /\ page = [k \in Keys |-> None]
    /\ reader = [c \in Readers |-> NoReader]
    /\ job = [s \in Jobs |-> NoJob]
    /\ raced = {}
    /\ lost = 0

----------------------------------------------------------------------------
(***************************************************************************)
(* Listing: list_validators and get_validator_rankings.                    *)
(***************************************************************************)
\* Mutated form of GetWatermark: a missing watermark is used as it is.
GetWatermarkRaw(c, q) ==
    /\ reader[c].phase = "idle"
    /\ reader' = [reader EXCEPT ![c] = [phase |-> "keyed",
                                       key |-> <<watermark, q>>, version |-> 0]]
    /\ UNCHANGED <<db, watermark, page, job, raced, lost>>

GetWatermark(c, q) ==
    /\ reader[c].phase = "idle"
    /\ reader' = [reader EXCEPT ![c] =
                    [phase |-> "keyed",
                     key |-> <<IF watermark = None THEN 0 ELSE watermark, q>>,
                     version |-> 0]]
    /\ UNCHANGED <<db, watermark, page, job, raced, lost>>

\* A page that is there is returned.
GetPage(c) ==
    /\ reader[c].phase = "keyed"
    /\ \/ /\ page[reader[c].key] # None
          /\ reader' = [reader EXCEPT ![c] = NoReader]
       \/ /\ page[reader[c].key] = None
          /\ reader' = [reader EXCEPT ![c].phase = "missed"]
    /\ UNCHANGED <<db, watermark, page, job, raced, lost>>

\* A page is made by two statements, the count of all items and the rows of
\* the page, and READ COMMITTED lets a rewrite come between them.  The version
\* of the page is that of its older part.
CountItems(c) ==
    /\ reader[c].phase = "missed"
    /\ reader' = [reader EXCEPT ![c].phase = "counted", ![c].version = db]
    /\ UNCHANGED <<db, watermark, page, job, raced, lost>>

ReadRows(c) ==
    /\ reader[c].phase = "counted"
    /\ reader' = [reader EXCEPT ![c].phase = "read"]
    /\ UNCHANGED <<db, watermark, page, job, raced, lost>>

\* The page is stored with a time to live and returned.
Store(c) ==
    LET k == reader[c].key
    IN  /\ reader[c].phase = "read"
        /\ page' = [page EXCEPT ![k] = reader[c].version]
        /\ raced' = IF reader[c].version = db THEN raced \ {k} ELSE raced \cup {k}
        /\ reader' = [reader EXCEPT ![c] = NoReader]
        /\ UNCHANGED <<db, watermark, job, lost>>

\* The request fails, or its client goes away.
Abandon(c) ==
    /\ reader[c].phase \in {"keyed", "missed", "counted", "read"}
    /\ reader' = [reader EXCEPT ![c] = NoReader]
    /\ UNCHANGED <<db, watermark, page, job, raced, lost>>

\* Mutated form of Expire: a page is stored without a time to live.
Persist(k) == FALSE /\ UNCHANGED vars

\* The time to live of a page is over.
Expire(k) ==
    /\ page[k] # None
    /\ page' = [page EXCEPT ![k] = None]
    /\ raced' = raced \ {k}
    /\ UNCHANGED <<db, watermark, reader, job, lost>>

----------------------------------------------------------------------------
(***************************************************************************)
(* Rewriting: run_catalog_sync and run_intelligence_recompute.  The head   *)
(* comes from an RPC node that may be behind another one.                  *)
(***************************************************************************)
FetchHead(s, h) ==
    /\ job[s].phase = "idle"
    /\ job' = [job EXCEPT ![s] = [NoJob EXCEPT !.phase = "fetched", !.head = h]]
    /\ UNCHANGED <<db, watermark, page, reader, raced, lost>>

Commit(s) ==
    /\ job[s].phase = "fetched"
    /\ db < MaxCommits
    /\ db' = db + 1
    /\ job' = [job EXCEPT ![s].phase = "committed", ![s].commit = db + 1]
    /\ UNCHANGED <<watermark, page, reader, raced, lost>>

\* recompute_intelligence has already run for this block: nothing is written,
\* the cache is invalidated all the same.
Reuse(s) ==
    /\ job[s].phase = "fetched"
    /\ job' = [job EXCEPT ![s].phase = "committed"]
    /\ UNCHANGED <<db, watermark, page, reader, raced, lost>>

SetWatermark(s) ==
    /\ job[s].phase = "committed"
    /\ watermark' = job[s].head
    /\ job' = [job EXCEPT ![s].phase = "marked"]
    /\ UNCHANGED <<db, page, reader, raced, lost>>

\* invalidate_namespace finds every key that is there from beginning to end,
\* among them the watermark (mark); a key that appears meanwhile may be found
\* or not.  For a page the former looks like its expiry.
Scan(s) ==
    \E mark \in BOOLEAN :
        /\ watermark # None => mark
        /\ job' = [job EXCEPT ![s].phase = "scanning", ![s].mark = mark,
                              ![s].todo = {k \in Keys : page[k] # None}]
        /\ UNCHANGED <<db, watermark, page, reader, raced, lost>>

\* Mutated form of Invalidate: only the pages of the new watermark.
InvalidateMarked(s) ==
    /\ job[s].phase = "marked"
    /\ job' = [job EXCEPT ![s].phase = "scanning", ![s].mark = FALSE,
                 ![s].todo = {k \in Keys : page[k] # None /\ k[1] = job[s].head}]
    /\ UNCHANGED <<db, watermark, page, reader, raced, lost>>

Invalidate(s) == job[s].phase = "marked" /\ Scan(s)

\* premium_priority_refresh: an invalidation with nothing rewritten.
Refresh(s) == job[s].phase = "idle" /\ Scan(s)

DeletePage(s, k) ==
    /\ job[s].phase = "scanning"
    /\ k \in job[s].todo
    /\ page' = [page EXCEPT ![k] = None]
    /\ raced' = raced \ {k}
    /\ job' = [job EXCEPT ![s].todo = @ \ {k}]
    /\ UNCHANGED <<db, watermark, reader, lost>>

DeleteWatermark(s) ==
    /\ job[s].phase = "scanning"
    /\ job[s].mark
    /\ watermark' = None
    /\ job' = [job EXCEPT ![s].mark = FALSE]
    /\ UNCHANGED <<db, page, reader, raced, lost>>

Return(s) ==
    /\ job[s].phase = "scanning"
    /\ job[s].todo = {}
    /\ ~job[s].mark
    /\ job' = [job EXCEPT ![s] = NoJob]
    /\ UNCHANGED <<db, watermark, page, reader, raced, lost>>

\* The request dies: what it has committed is not invalidated by it.
Crash(s) ==
    /\ job[s].phase # "idle"
    /\ lost' = Later(lost, job[s].commit)
    /\ job' = [job EXCEPT ![s] = NoJob]
    /\ UNCHANGED <<db, watermark, page, reader, raced>>

\* run_mvp_sync and run_intelligence_recompute, the scripts, do not know Redis.
Script ==
    /\ db < MaxCommits
    /\ db' = db + 1
    /\ lost' = db + 1
    /\ UNCHANGED <<watermark, page, reader, job, raced>>

----------------------------------------------------------------------------
List(c) == GetPage(c) \/ CountItems(c) \/ ReadRows(c) \/ Store(c)

Proceed(s) ==
    \/ Commit(s)
    \/ SetWatermark(s)
    \/ Invalidate(s)
    \/ \E k \in Keys : DeletePage(s, k)
    \/ DeleteWatermark(s)
    \/ Return(s)

Next ==
    \/ \E c \in Readers :
         \/ \E q \in Queries : GetWatermark(c, q)
         \/ List(c)
         \/ Abandon(c)
    \/ \E k \in Keys : Expire(k)
    \/ \E s \in Jobs :
         \/ \E h \in Heads : FetchHead(s, h)
         \/ Reuse(s)
         \/ Refresh(s)
         \/ Proceed(s)
         \/ Crash(s)
    \/ Script

Spec == Init /\ [][Next]_vars

\* Requests go on once they have begun, and Redis expires pages.
FairSpec ==
    /\ Spec
    /\ \A c \in Readers : WF_vars(List(c))
    /\ \A s \in Jobs : WF_vars(Proceed(s))
    /\ \A k \in Keys : WF_vars(Expire(k))

----------------------------------------------------------------------------
(***************************************************************************)
(* Properties.                                                             *)
(***************************************************************************)
\* Every variable has its type; a page is never read from the future.
TypeOK ==
    /\ db \in 0..MaxCommits
    /\ watermark \in Heads \cup {None}
    /\ page \in [Keys -> 0..db \cup {None}]
    /\ reader \in [Readers -> [phase : {"idle", "keyed", "missed", "counted", "read"},
                               key : Keys \cup {None},
                               version : 0..db]]
    /\ job \in [Jobs -> [phase : {"idle", "fetched", "committed", "marked", "scanning"},
                         head : Watermarks, commit : 0..db,
                         todo : SUBSET Keys, mark : BOOLEAN]]
    /\ raced \in SUBSET Keys
    /\ lost \in 0..db

\* Job s has committed rewrite u and will still delete the page under k.
WillDelete(s, u, k) ==
    /\ job[s].commit = u
    /\ \/ job[s].phase \in {"committed", "marked"}
       \/ job[s].phase = "scanning" /\ k \in job[s].todo

\* A cached page misses a rewrite of the rows for one of three reasons only:
\* a job is about to delete it, the rewrite came from a script or from a job
\* that died, or its reader had read the rows before the rewrite and stored
\* the page after it.  However jobs and readers interleave, the key by key
\* invalidation leaves no other gap.
StaleExplained ==
    \A k \in Keys : page[k] # None /\ k \notin raced =>
        \A u \in (page[k] + 1)..db :
            u <= lost \/ \E s \in Jobs : WillDelete(s, u, k)

\* Once the rows are left alone, the cache ends up with current pages only,
\* whatever was missed or stored late: every page has a time to live.
EventuallyFresh == <>[](\A k \in Keys : page[k] \in {db, None})

\* Once every job has returned, no cached page is older than the rows.
InvalidatedOnCompletion ==
    (\A s \in Jobs : job[s].phase = "idle") /\ lost = 0 =>
        \A k \in Keys : page[k] \in {db, None}
=============================================================================
