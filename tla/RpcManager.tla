----------------------------- MODULE RpcManager -----------------------------
(***************************************************************************)
(* LowLatencyBlockchainManager (nexus/execution/low_latency.py) for one    *)
(* chain: endpoints with a connection pool each, a primary connection that *)
(* all callers share, calls with retry and failover, and the thread that   *)
(* measures the endpoints.  Latency and success rate are choices: a check  *)
(* finds an endpoint healthy or not, and the best of the candidates is any *)
(* of them.  The caches of values hold for 2 s and are left out.           *)
(***************************************************************************)
EXTENDS Naturals, FiniteSetsExt

CONSTANTS
    RpCallers,
    RpEndpoints,   \* 1 .. n, in the order of _endpoints
    RpMaxSize,     \* MAX_CONNECTIONS_PER_RPC
    RpRetries      \* max_retries of execute_with_retry

\* 0 stands for no endpoint; a pool may hold at least the one connection it
\* is created with.
ASSUME RpAssumption == RpEndpoints \subseteq Nat \ {0} /\ RpMaxSize \in Nat \ {0}

VARIABLES
    rpUp,        \* the endpoints that answer
    rpHealthy,   \* is_healthy of each endpoint
    rpMonitor,   \* the latency monitor: "off", "on", or "shut" for good
    rpPool,      \* _connection_pools: the connections made and those in use
    rpPrimary,   \* the endpoint of the primary connection, the first of its
                 \* pool, or 0
    rpPc,        \* where each caller is
    rpConn,      \* the connection it uses; index 0: not one of the pool (any more)
    rpTried      \* tried_endpoints of execute_with_retry

rpVars == <<rpUp, rpHealthy, rpMonitor, rpPool, rpPrimary, rpPc, rpConn, rpTried>>

NoConn == [ep |-> 0, index |-> 0]
\* A pool with one connection, in use; no pool, which is like an empty one.
Fresh == [size |-> 1, used |-> {1}]
Empty == [size |-> 0, used |-> {}]

\* The first endpoint that answers gives the primary connection.
RpInit ==
    /\ rpUp \in SUBSET RpEndpoints
    /\ rpHealthy = [e \in RpEndpoints |-> TRUE]
    /\ rpMonitor = "off"
    /\ rpPrimary = IF rpUp = {} THEN 0 ELSE Min(rpUp)
    /\ rpPool = [e \in RpEndpoints |-> IF e = rpPrimary THEN Fresh ELSE Empty]
    /\ rpPc = [c \in RpCallers |-> "idle"]
    /\ rpConn = [c \in RpCallers |-> NoConn]
    /\ rpTried = [c \in RpCallers |-> {}]

RpGo(c, pc, conn) ==
    rpPc' = [rpPc EXCEPT ![c] = pc] /\ rpConn' = [rpConn EXCEPT ![c] = conn]

\* get_best_endpoint: any healthy one, or any when none is.
RpBest ==
    IF \E e \in RpEndpoints : rpHealthy[e]
    THEN {e \in RpEndpoints : rpHealthy[e]} ELSE RpEndpoints

\* acquire: a connection not in use, or a new one if the limit and the
\* endpoint allow it.
Free(e) == (1 .. rpPool[e].size) \ rpPool[e].used
CanAcquire(e) == Free(e) # {} \/ (rpPool[e].size < RpMaxSize /\ e \in rpUp)
NextIndex(e) == IF Free(e) # {} THEN Min(Free(e)) ELSE rpPool[e].size + 1

\* Fault variant: a reused connection is not marked as in use.
AcquiredUnmarked(e) ==
    [size |-> Max({NextIndex(e), rpPool[e].size}),
     used |-> IF Free(e) # {} THEN rpPool[e].used ELSE rpPool[e].used \cup {NextIndex(e)}]

Acquired(e) ==
    [size |-> Max({NextIndex(e), rpPool[e].size}),
     used |-> rpPool[e].used \cup {NextIndex(e)}]

\* A connection of the endpoint's pool; pc says how the caller goes on with
\* it, and without one.
RpTake(c, e, pc, without) ==
    IF CanAcquire(e)
    THEN /\ rpPool' = [rpPool EXCEPT ![e] = Acquired(e)]
         /\ RpGo(c, pc, [ep |-> e, index |-> NextIndex(e)])
    ELSE RpGo(c, without, NoConn) /\ UNCHANGED rpPool

\* get_web3 for a block number, a gas price or a batch: the primary while it
\* answers, else a connection of the best endpoint's pool, which these
\* callers never release.
RpGet(c) ==
    /\ rpPc[c] = "idle"
    /\ \/ /\ rpPrimary \in rpUp
          /\ RpGo(c, "shared", [ep |-> rpPrimary, index |-> 0]) /\ UNCHANGED rpPool
       \/ /\ rpPrimary \notin rpUp
          /\ \E e \in RpBest : RpTake(c, e, "kept", "idle")
    /\ UNCHANGED <<rpUp, rpHealthy, rpMonitor, rpPrimary, rpTried>>

\* The call comes back; after an error a new primary is looked for.
RpGot(c) ==
    /\ rpPc[c] \in {"shared", "kept"}
    /\ RpGo(c, IF rpConn[c].ep \in rpUp THEN "idle" ELSE "failover", NoConn)
    /\ UNCHANGED <<rpUp, rpHealthy, rpMonitor, rpPool, rpPrimary, rpTried>>

\* _handle_failure: a new pool for the best endpoint, whose connection
\* becomes the primary one, if it can be made.  Connections of the pool it
\* replaces live on with their users.
RpFailover(c) ==
    /\ rpPc[c] = "failover" /\ rpPc' = [rpPc EXCEPT ![c] = "idle"]
    /\ \E e \in RpBest :
          IF rpPrimary # 0 /\ e \in rpUp
          THEN /\ rpPool' = [rpPool EXCEPT ![e] = Fresh] /\ rpPrimary' = e
               /\ rpConn' = [d \in RpCallers |->
                     IF rpConn[d].ep = e THEN [ep |-> e, index |-> 0] ELSE rpConn[d]]
          ELSE UNCHANGED <<rpPool, rpPrimary, rpConn>>
    /\ UNCHANGED <<rpUp, rpHealthy, rpMonitor, rpTried>>

\* execute_with_retry: each attempt goes to the best endpoint, or to the
\* first not yet tried when that one was, until none is left.  An endpoint
\* without a connection costs an attempt.
RpTry(c) ==
    /\ rpPc[c] \in {"idle", "retry"}
    /\ Cardinality(rpTried[c]) < RpRetries
    /\ RpEndpoints \ rpTried[c] # {}
    /\ \E b \in RpBest :
       LET e == IF b \in rpTried[c] THEN Min(RpEndpoints \ rpTried[c]) ELSE b
       IN /\ RpTake(c, e, "trying", "retry")
          /\ rpTried' = [rpTried EXCEPT ![c] = @ \cup {e}]
    /\ UNCHANGED <<rpUp, rpHealthy, rpMonitor, rpPrimary>>

\* The connection goes back to its pool whatever the call came to.
RpTriedOne(c) ==
    /\ rpPc[c] = "trying"
    /\ rpPool' = [rpPool EXCEPT ![rpConn[c].ep].used = @ \ {rpConn[c].index}]
    /\ IF rpConn[c].ep \in rpUp
       THEN RpGo(c, "idle", NoConn) /\ rpTried' = [rpTried EXCEPT ![c] = {}]
       ELSE RpGo(c, "retry", NoConn) /\ UNCHANGED rpTried
    /\ UNCHANGED <<rpUp, rpHealthy, rpMonitor, rpPrimary>>

RpGivesUp(c) ==
    /\ rpPc[c] = "retry"
    /\ Cardinality(rpTried[c]) = RpRetries \/ RpEndpoints = rpTried[c]
    /\ RpGo(c, "idle", NoConn) /\ rpTried' = [rpTried EXCEPT ![c] = {}]
    /\ UNCHANGED <<rpUp, rpHealthy, rpMonitor, rpPool, rpPrimary>>

\* start and stop; a monitor that was stopped has shut its executor down and
\* measures nothing when it is started again.
RpStartStop ==
    /\ \/ rpMonitor = "off" /\ rpMonitor' = "on"
       \/ rpMonitor = "on" /\ rpMonitor' = "shut"
    /\ UNCHANGED <<rpUp, rpHealthy, rpPool, rpPrimary, rpPc, rpConn, rpTried>>

RpCheck(e) ==
    /\ rpMonitor = "on"
    /\ \E healthy \in BOOLEAN : rpHealthy' = [rpHealthy EXCEPT ![e] = healthy]
    /\ UNCHANGED <<rpUp, rpMonitor, rpPool, rpPrimary, rpPc, rpConn, rpTried>>

\* An endpoint begins or ceases to answer.
RpFlips(e) ==
    /\ rpUp' = IF e \in rpUp THEN rpUp \ {e} ELSE rpUp \cup {e}
    /\ UNCHANGED <<rpHealthy, rpMonitor, rpPool, rpPrimary, rpPc, rpConn, rpTried>>

RpNext ==
    \/ \E c \in RpCallers :
          RpGet(c) \/ RpGot(c) \/ RpFailover(c) \/ RpTry(c) \/ RpTriedOne(c) \/ RpGivesUp(c)
    \/ RpStartStop
    \/ \E e \in RpEndpoints : RpCheck(e) \/ RpFlips(e)

RpSpec == RpInit /\ [][RpNext]_rpVars

-----------------------------------------------------------------------------
\* The types of the manager's variables.
RpTypeOK ==
    /\ rpUp \subseteq RpEndpoints /\ rpHealthy \in [RpEndpoints -> BOOLEAN]
    /\ rpMonitor \in {"off", "on", "shut"}
    /\ rpPool \in [RpEndpoints -> [size : 0 .. RpMaxSize, used : SUBSET (1 .. RpMaxSize)]]
    /\ rpPrimary \in RpEndpoints \cup {0}
    /\ rpConn \in [RpCallers -> [ep : RpEndpoints \cup {0}, index : 0 .. RpMaxSize]]
    /\ rpPc \in [RpCallers -> {"idle", "shared", "kept", "failover", "trying", "retry"}]
    /\ rpTried \in [RpCallers -> SUBSET RpEndpoints]

\* A connection taken from a pool has one user: no second caller, and no
\* primary connection, however pools are replaced by failovers under calls
\* that still run.  What is in use stays counted, within the limit.
ConnectionHasOneUser ==
    /\ rpPrimary # 0 => 1 \in rpPool[rpPrimary].used
    /\ \A e \in RpEndpoints : rpPool[e].used \subseteq 1 .. rpPool[e].size
    /\ \A c \in RpCallers : rpConn[c].index # 0 =>
          /\ rpConn[c].index \in rpPool[rpConn[c].ep].used
          /\ rpConn[c] # [ep |-> rpPrimary, index |-> 1]
          /\ \A d \in RpCallers \ {c} : rpConn[d] # rpConn[c]

\* While an endpoint answers and no call runs, its pool can give a
\* connection.  (Connections that get_web3 took are never given back.)
EndpointStaysUsable ==
    (\A c \in RpCallers : rpPc[c] = "idle") => \A e \in rpUp : CanAcquire(e)
=============================================================================
