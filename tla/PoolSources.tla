---------------------------- MODULE PoolSources ----------------------------
(***************************************************************************)
(* MultiSourcePoolFetcher (nexus/protocols/pool_sources.py): one object    *)
(* without a lock, called by the pool analyser's threads, by requests and  *)
(* by the pool executor.  A call answers from memory, or asks every source *)
(* in a thread of its own, then fills up from 1inch, from a cache on disk  *)
(* and from pools in the code.  A source lists one pool, named like it; a  *)
(* day is the unit of time, so the memory cache (5 minutes) holds within   *)
(* its day.  Green threads switch at a blocking call only, so an action is *)
(* what runs between two of them.  PsMaxNow bounds the days.               *)
(***************************************************************************)
EXTENDS Integers, FiniteSetsExt

CONSTANTS
    PsCallers,    \* the threads that call fetch_all_pools
    PsSources,    \* the sources asked in parallel
    PsRetries,    \* MAX_RETRIES, attempts per request (4)
    PsFew,        \* fewer pools than this: ask 1inch (20)
    PsVeryFew,    \* fewer: read the disk cache (10)
    PsMinimum,    \* fewer: add the hardcoded pools (5)
    PsMaxAge,     \* max_age_hours of the disk cache, in days
    PsMaxNow

\* An empty list is a short one; the names of the fillers are no source's.
ASSUME PsAssumption ==
    /\ PsMinimum \in Nat \ {0} /\ PsRetries \in Nat /\ PsMaxNow \in Nat
    /\ PsSources \intersect {"1inch", "fallback"} = {}

VARIABLES
    psNow,
    psCache,      \* _cache_time, and since when its oldest live pool is known
    psLocks,      \* _lock_sources, the sources that returned data
    psDisk,       \* the cache file, or NoFile
    psPc,         \* where each caller is
    psSince,      \* `now` of its call
    psLeft,       \* the attempts each of its sources still has
    psGot         \* all_pools of its call

psVars == <<psNow, psCache, psLocks, psDisk, psPc, psSince, psLeft, psGot>>

NoFile == [at |-> -1, pools |-> {}]
NoCache == [at |-> -1, seen |-> -1]
\* A pool, the day it was seen at its source (0 when it was at none), and
\* how a call came by it.
Entry(id, seen, from) == [id |-> id, seen |-> seen, from |-> from]
Entries == [id : PsSources \cup {"1inch", "fallback"}, seen : 0 .. PsMaxNow,
            from : {"live", "disk", "code"}]

PsInit ==
    /\ psNow = 0
    /\ psCache = NoCache /\ psLocks = {} /\ psDisk = NoFile
    /\ psPc = [c \in PsCallers |-> "idle"]
    /\ psSince = [c \in PsCallers |-> 0]
    /\ psLeft = [c \in PsCallers |-> [s \in PsSources |-> 0]]
    /\ psGot = [c \in PsCallers |-> {}]

PsGo(c, pc) == psPc' = [psPc EXCEPT ![c] = pc]

\* A call forgets which sources succeeded and asks them all.  (One that
\* finds the memory cache young enough returns it and changes nothing.)
PsAsk(c) ==
    /\ psPc[c] = "idle"
    /\ psLocks' = {}
    /\ psSince' = [psSince EXCEPT ![c] = psNow]
    /\ psLeft' = [psLeft EXCEPT ![c] = [s \in PsSources |-> PsRetries]]
    /\ PsGo(c, "ask")
    /\ UNCHANGED <<psNow, psCache, psDisk, psGot>>

\* One attempt: the source answers with its pool, or fails, for good when
\* it was the last.  After the time-out the pools of a late source are
\* dropped, and its name is noted all the same.
PsAnswered(c, s) ==
    /\ psPc[c] \in {"ask", "late"} /\ psLeft[c][s] > 0
    /\ psLeft' = [psLeft EXCEPT ![c][s] = 0]
    /\ psLocks' = psLocks \cup {s}
    /\ psGot' = [psGot EXCEPT ![c] =
          IF psPc[c] = "ask" THEN @ \cup {Entry(s, psNow, "live")} ELSE @]
    /\ UNCHANGED <<psNow, psCache, psDisk, psPc, psSince>>

PsRefused(c, s) ==
    /\ psPc[c] \in {"ask", "late"} /\ psLeft[c][s] > 0
    /\ psLeft' = [psLeft EXCEPT ![c][s] = @ - 1]
    /\ UNCHANGED <<psNow, psCache, psLocks, psDisk, psPc, psSince, psGot>>

\* as_completed gives up after 90 s, less than the retries may take; the
\* pool of threads is still waited for.
PsTimeout(c) ==
    /\ psPc[c] = "ask" /\ \E s \in PsSources : psLeft[c][s] > 0
    /\ PsGo(c, "late")
    /\ UNCHANGED <<psNow, psCache, psLocks, psDisk, psSince, psLeft, psGot>>

\* _load_pools_from_disk: nothing when the file is missing, torn or too old.
PsLoaded ==
    IF psDisk = NoFile \/ psNow - psDisk.at > PsMaxAge THEN {}
    ELSE psDisk.pools

\* The first of two entries of one pool stays; the list has the live ones
\* first, and sorting by the source's name keeps the order of equal names.
Kept(got) ==
    LET rank == [live |-> 0, code |-> 0, disk |-> 1]
    IN {e \in got : \A d \in got : d.id = e.id => rank[e.from] <= rank[d.from]}

\* With every source done, 1inch (whose pools are made of protocol names and
\* carry figures of the code), the disk cache and the hardcoded pools fill up
\* what is missing; the memory cache takes the result as of the given time.
PsMergeAsOf(c, time) ==
    /\ psPc[c] \in {"ask", "late"} /\ \A s \in PsSources : psLeft[c][s] = 0
    /\ \E inch \in {{}, {Entry("1inch", 0, "code")}} :
       LET got == psGot[c] \cup IF Cardinality(psGot[c]) < PsFew THEN inch ELSE {}
           disk == IF Cardinality(got) < PsVeryFew THEN PsLoaded ELSE {}
           hard == Cardinality(got) + Cardinality(disk) < PsMinimum
           all == got \cup disk
                  \cup IF hard /\ \A e \in disk : e.id # "fallback"
                       THEN {Entry("fallback", 0, "code")} ELSE {}
       IN /\ psGot' = [psGot EXCEPT ![c] = Kept(all)]
          /\ psLocks' = IF hard THEN psLocks \cup {"fallback"} ELSE psLocks
          /\ psCache' = [at |-> time,
                seen |-> Min({e.seen : e \in {d \in got : d.from = "live"}} \cup {psNow})]
    /\ PsGo(c, "save")
    /\ UNCHANGED <<psNow, psDisk, psSince, psLeft>>

\* Fault variant: the memory cache is stamped when the call ends.
PsMergeStampedLate(c) == PsMergeAsOf(c, psNow)

\* The time is the one the call began at.
PsMerge(c) == PsMergeAsOf(c, psSince[c])

\* The result goes to the disk when some source returned data, to this call
\* or to another one that overlaps it; an error while writing is ignored,
\* whether it leaves the old file or an unreadable one.
PsSave(c) ==
    /\ psPc[c] = "save"
    /\ \/ UNCHANGED psDisk
       \/ psLocks \ {"fallback"} # {}
          /\ psDisk' \in {[at |-> psNow, pools |->
                             {Entry(e.id, e.seen, "disk") : e \in psGot[c]}], NoFile}
    /\ psGot' = [psGot EXCEPT ![c] = {}]
    /\ psSince' = [psSince EXCEPT ![c] = 0]
    /\ PsGo(c, "idle")
    /\ UNCHANGED <<psNow, psCache, psLocks, psLeft>>

\* The process starts again: its memory is gone, the file stays.
PsRestart ==
    /\ psCache' = NoCache /\ psLocks' = {}
    /\ psPc' = [c \in PsCallers |-> "idle"]
    /\ psSince' = [c \in PsCallers |-> 0]
    /\ psLeft' = [c \in PsCallers |-> [s \in PsSources |-> 0]]
    /\ psGot' = [c \in PsCallers |-> {}]
    /\ UNCHANGED <<psNow, psDisk>>

\* A day passes; a call takes minutes.
PsDayPasses ==
    /\ psNow < PsMaxNow
    /\ \A c \in PsCallers : psPc[c] # "idle" => psSince[c] = psNow
    /\ psNow' = psNow + 1
    /\ UNCHANGED <<psCache, psLocks, psDisk, psPc, psSince, psLeft, psGot>>

PsNext ==
    \/ PsDayPasses \/ PsRestart
    \/ \E c \in PsCallers :
          \/ PsAsk(c) \/ PsTimeout(c) \/ PsMerge(c) \/ PsSave(c)
          \/ \E s \in PsSources : PsAnswered(c, s) \/ PsRefused(c, s)

PsSpec == PsInit /\ [][PsNext]_psVars

-----------------------------------------------------------------------------
\* The types of the fetcher's variables and of its callers' locals.
PsTypeOK ==
    /\ psNow \in 0 .. PsMaxNow
    /\ psCache \in [at : -1 .. PsMaxNow, seen : -1 .. PsMaxNow]
    /\ psDisk \in [at : -1 .. PsMaxNow, pools : SUBSET Entries]
    /\ psLocks \subseteq PsSources \cup {"fallback"}
    /\ psPc \in [PsCallers -> {"idle", "ask", "late", "save"}]
    /\ psSince \in [PsCallers -> 0 .. PsMaxNow]
    /\ psLeft \in [PsCallers -> [PsSources -> 0 .. PsRetries]]
    /\ psGot \in [PsCallers -> SUBSET Entries]

\* Of each pool there is one entry.
PsOneEach(pools) == \A d, e \in pools : d.id = e.id => d = e

\* However calls overlap, restart and time out: what is answered or kept has
\* one entry of each pool, a call that ends answers something, and a pool in
\* the memory cache that came from its source is not older than the age the
\* cache is given, so that it is served for five minutes and no longer.
PsCacheIsSound ==
    /\ PsOneEach(psDisk.pools)
    /\ psCache.seen >= psCache.at
    /\ \A c \in PsCallers : psPc[c] = "save" => psGot[c] # {} /\ PsOneEach(psGot[c])

\* A pool taken from the disk cache was seen at its source no longer ago
\* than the maximum age of that cache.  (The code renews the file's time
\* when it writes back pools it had read from it.)
DiskPoolsAreRecent ==
    [][\A c \in PsCallers : \A e \in psGot'[c] \ psGot[c] :
          e.from = "disk" /\ e.id \in PsSources => psNow - e.seen <= PsMaxAge]_psVars
=============================================================================
