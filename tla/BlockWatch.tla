----------------------------- MODULE BlockWatch -----------------------------
(***************************************************************************)
(* nexus/blockchain.py (BlockchainManager: connections, block poller,      *)
(* reconnection) with nexus/monitor.py (OpportunityMonitor: one scan per   *)
(* new block or per fallback interval), under the start and stop of        *)
(* nexus/agent.py, which the dashboard calls from request threads.         *)
(*                                                                         *)
(* External: the RPC endpoints of a chain.  An endpoint that is "limited"  *)
(* answers is_connected() and refuses to tell the block number.            *)
(***************************************************************************)
EXTENDS Naturals

CONSTANTS Chains,        \* the chains that the configuration enables
          MaxEndpoint,   \* length of the fallback list of a chain
          RetryRounds,   \* RECONNECT_INTERVAL_SECONDS / BLOCK_POLL_SECONDS
          MaxHead,       \* bound: blocks of a chain
          MaxChanges,    \* bound: endpoints that change their state
          MaxStarts,     \* bound: starts of the agent
          MaxStops       \* bound: stops of the agent

ASSUME WatchAssumption ==
    /\ MaxEndpoint \in Nat \ {0} /\ RetryRounds \in Nat
    /\ MaxHead \in Nat \ {0} /\ MaxChanges \in Nat
    /\ MaxStarts \in Nat \ {0} /\ MaxStops \in Nat

Endpoints   == 1 .. MaxEndpoint
ScanThreads == 1 .. MaxStarts
None        == 0
ScanPlaces  == {"none", "test", "wait", "woken", "cleared", "scan", "ended"}

VARIABLES
    state,      \* external: what each endpoint of each chain does
    head,       \* external: the newest block of each chain
    conn,       \* _connections, None for a chain that has no entry
    clients,    \* the endpoint that _gas_managers and _multicall_clients use
    latest,     \* _latest_blocks, 0 for a chain that has no entry
    chainsRunning, \* _running of the BlockchainManager
    poller,     \* where the block-poller thread is
    rest,       \* the chains that its current loop still has to visit
    rounds,     \* its rounds since last_reconnect_attempt
    called,     \* the listeners it has called for the current block
    agentRunning,  \* _running of the NexusAgent
    starter,    \* how far a call of NexusAgent.start is
    stopper,    \* how far a call of NexusAgent.stop is
    starts, stops, changes,   \* counters of the bounds
    monRunning, \* _running of the OpportunityMonitor
    listeners,  \* Len(_block_listeners)
    pendingScan,\* the event _block_scan_pending
    scan,       \* where the scan thread of each start of the monitor is
    news        \* history: a block was announced since the last scan began

net     == <<state, head, changes>>
links   == <<conn, clients, latest>>
polling == <<poller, rest, rounds, called>>
control == <<agentRunning, starter, stopper, starts, stops>>
monitor == <<monRunning, listeners, pendingScan, scan, news>>
bwVars    == <<net, links, chainsRunning, polling, control, monitor>>

Reachable(c) == {e \in Endpoints : state[c][e] # "down"}

\* _connect walks the fallback list and takes the first that is connected.
First(c) == IF Reachable(c) = {} THEN None
            ELSE CHOOSE e \in Reachable(c) : \A d \in Reachable(c) : e <= d

\* The constructor has connected what it could and started the poller.
BwInit ==
    /\ state \in [Chains -> [Endpoints -> {"up", "limited", "down"}]]
    /\ head = [c \in Chains |-> 1] /\ changes = 0
    /\ conn = [c \in Chains |-> First(c)]
    /\ clients = [c \in Chains |-> First(c)]
    /\ latest = [c \in Chains |-> 0]
    /\ chainsRunning = TRUE
    /\ poller = "test" /\ rest = {} /\ rounds = RetryRounds /\ called = 0
    /\ agentRunning = FALSE /\ starter = "idle" /\ stopper = "idle"
    /\ starts = 0 /\ stops = 0
    /\ monRunning = FALSE /\ listeners = 0 /\ pendingScan = FALSE
    /\ scan = [t \in ScanThreads |-> "none"]
    /\ news = FALSE

-----------------------------------------------------------------------------
(* The endpoints.                                                          *)

NewBlock(c) ==
    /\ head[c] < MaxHead
    /\ head' = [head EXCEPT ![c] = @ + 1]
    /\ UNCHANGED <<state, changes, links, chainsRunning, polling, control, monitor>>

EndpointChanges(c, e) ==
    /\ changes < MaxChanges
    /\ changes' = changes + 1
    /\ \E s \in {"up", "limited", "down"} \ {state[c][e]} :
          state' = [state EXCEPT ![c][e] = s]
    /\ UNCHANGED <<head, links, chainsRunning, polling, control, monitor>>

-----------------------------------------------------------------------------
(* The block-poller thread.                                                *)

PollerTest ==
    /\ poller = "test"
    /\ IF chainsRunning
       THEN /\ poller' = "poll"
            /\ rest' = {c \in Chains : conn[c] # None}
       ELSE poller' = "ended" /\ UNCHANGED rest
    /\ UNCHANGED <<net, links, chainsRunning, rounds, called, control, monitor>>

PollSame(c) ==
    /\ poller = "poll" /\ c \in rest
    /\ state[c][conn[c]] = "up" /\ latest[c] = head[c]
    /\ rest' = rest \ {c}
    /\ UNCHANGED <<net, links, chainsRunning, poller, rounds, called, control, monitor>>

PollNew(c) ==
    /\ poller = "poll" /\ c \in rest
    /\ state[c][conn[c]] = "up" /\ latest[c] # head[c]
    /\ latest' = [latest EXCEPT ![c] = head[c]]
    /\ poller' = "notify" /\ called' = 0
    /\ rest' = rest \ {c}
    /\ UNCHANGED <<net, conn, clients, chainsRunning, rounds, control, monitor>>

\* Each registration of the monitor gets the block: its event is set.
Notify ==
    /\ poller = "notify" /\ called < listeners
    /\ called' = called + 1
    /\ pendingScan' = TRUE
    /\ news' = (news \/ monRunning)
    /\ UNCHANGED <<net, links, chainsRunning, poller, rest, rounds, control,
                   monRunning, listeners, scan>>

\* Fault variant: the loop over the listeners runs one step too far.
NotifiedTooFar ==
    /\ poller = "notify" /\ called >= listeners
    /\ called' = called + 1
    /\ poller' = "poll"
    /\ UNCHANGED <<net, links, chainsRunning, rest, rounds, control, monitor>>

Notified ==
    /\ poller = "notify" /\ called = listeners
    /\ poller' = "poll" /\ called' = 0
    /\ UNCHANGED <<net, links, chainsRunning, rest, rounds, control, monitor>>

\* Fault variant: the new connection is logged and not stored.
PollFailsUnstored(c) ==
    /\ poller = "poll" /\ c \in rest
    /\ state[c][conn[c]] # "up"
    /\ rest' = rest \ {c}
    /\ UNCHANGED <<net, links, chainsRunning, poller, rounds, called, control, monitor>>

\* The number is not to be had: the first endpoint that connects is taken, and
\* the gas manager and the multicall client stay with the endpoint before.
PollFails(c) ==
    /\ poller = "poll" /\ c \in rest
    /\ state[c][conn[c]] # "up"
    /\ conn' = IF First(c) = None THEN conn ELSE [conn EXCEPT ![c] = First(c)]
    /\ rest' = rest \ {c}
    /\ UNCHANGED <<net, clients, latest, chainsRunning, poller, rounds, called,
                   control, monitor>>

PollDone ==
    /\ poller = "poll" /\ rest = {}
    /\ IF rounds = RetryRounds
       THEN /\ poller' = "retry" /\ rounds' = 0
            /\ rest' = {c \in Chains : conn[c] = None}
       ELSE /\ poller' = "test" /\ rounds' = rounds + 1
            /\ UNCHANGED rest
    /\ UNCHANGED <<net, links, chainsRunning, called, control, monitor>>

RetryFailed(c) ==
    /\ poller = "retry" /\ c \in rest
    /\ conn' = [conn EXCEPT ![c] = First(c)]
    /\ clients' = [clients EXCEPT ![c] = First(c)]
    /\ rest' = rest \ {c}
    /\ UNCHANGED <<net, latest, chainsRunning, poller, rounds, called, control, monitor>>

RetryDone ==
    /\ poller = "retry" /\ rest = {}
    /\ poller' = "test"
    /\ UNCHANGED <<net, links, chainsRunning, rest, rounds, called, control, monitor>>

-----------------------------------------------------------------------------
(* Start and stop of the agent: each is a sequence of calls in a request   *)
(* thread, and the two may overlap.                                        *)

\* Before the monitor the price feed is started, with a first fetch.
StartAgent ==
    /\ ~agentRunning /\ starter = "idle" /\ starts < MaxStarts
    /\ agentRunning' = TRUE
    /\ starter' = "monitor" /\ starts' = starts + 1
    /\ UNCHANGED <<net, links, chainsRunning, polling, stopper, stops, monitor>>

StartMonitor ==
    /\ starter = "monitor"
    /\ starter' = "idle"
    /\ IF monRunning THEN UNCHANGED <<monRunning, listeners, scan>>
       ELSE /\ monRunning' = TRUE
            /\ listeners' = listeners + 1
            /\ scan' = [scan EXCEPT ![starts] = "test"]
    /\ UNCHANGED <<net, links, chainsRunning, polling, agentRunning, stopper, starts,
                   stops, pendingScan, news>>

\* The dashboard answers 503 until the first start is through.
StopAgent ==
    /\ stopper = "idle" /\ stops < MaxStops
    /\ listeners > 0
    /\ agentRunning' = FALSE
    /\ stopper' = "monitor" /\ stops' = stops + 1
    /\ UNCHANGED <<net, links, chainsRunning, polling, starter, starts, monitor>>

StopMonitor ==
    /\ stopper = "monitor"
    /\ stopper' = "chains"
    /\ monRunning' = FALSE /\ pendingScan' = TRUE /\ news' = FALSE
    /\ UNCHANGED <<net, links, chainsRunning, polling, agentRunning, starter, starts,
                   stops, listeners, scan>>

\* The scan thread was joined for 5 s at most; start never sets this flag again.
StopChains ==
    /\ stopper = "chains"
    /\ stopper' = "idle"
    /\ chainsRunning' = FALSE
    /\ UNCHANGED <<net, links, polling, agentRunning, starter, starts, stops, monitor>>

-----------------------------------------------------------------------------
(* The scan threads of the monitor.                                        *)

Step(t, from, to) == scan[t] = from /\ scan' = [scan EXCEPT ![t] = to]

ScanTest(t) ==
    /\ Step(t, "test", IF monRunning THEN "wait" ELSE "ended")
    /\ UNCHANGED <<net, links, chainsRunning, polling, control, monRunning, listeners,
                   pendingScan, news>>

WakeByBlock(t) ==
    /\ pendingScan
    /\ Step(t, "wait", "woken")
    /\ UNCHANGED <<net, links, chainsRunning, polling, control, monRunning, listeners,
                   pendingScan, news>>

\* Fault variant: the event is waited for without a timeout.
WakeByTimerNever(t) == FALSE

\* The fallback of SCAN_INTERVAL_SECONDS.
WakeByTimer(t) ==
    /\ Step(t, "wait", "woken")
    /\ UNCHANGED <<net, links, chainsRunning, polling, control, monRunning, listeners,
                   pendingScan, news>>

ClearEvent(t) ==
    /\ Step(t, "woken", "cleared")
    /\ pendingScan' = FALSE
    /\ UNCHANGED <<net, links, chainsRunning, polling, control, monRunning, listeners, news>>

BeginScan(t) ==
    /\ Step(t, "cleared", IF monRunning THEN "scan" ELSE "ended")
    /\ news' = (news /\ ~monRunning)
    /\ UNCHANGED <<net, links, chainsRunning, polling, control, monRunning, listeners,
                   pendingScan>>

\* Fault variant: the event is cleared here, after the scan.
EndScanClears(t) ==
    /\ Step(t, "scan", "test")
    /\ pendingScan' = FALSE
    /\ UNCHANGED <<net, links, chainsRunning, polling, control, monRunning, listeners, news>>

EndScan(t) ==
    /\ Step(t, "scan", "test")
    /\ UNCHANGED <<net, links, chainsRunning, polling, control, monRunning, listeners,
                   pendingScan, news>>

-----------------------------------------------------------------------------
PollerStep ==
    \/ PollerTest \/ Notify \/ Notified \/ PollDone \/ RetryDone
    \/ \E c \in Chains : \/ PollSame(c) \/ PollNew(c) \/ PollFails(c)
                         \/ RetryFailed(c)

ScanStep(t) == \/ ScanTest(t) \/ WakeByBlock(t) \/ WakeByTimer(t)
               \/ ClearEvent(t) \/ BeginScan(t) \/ EndScan(t)

ControlStep == StartMonitor \/ StopMonitor \/ StopChains

BwNext ==
    \/ PollerStep \/ ControlStep \/ StartAgent \/ StopAgent
    \/ \E t \in ScanThreads : ScanStep(t)
    \/ \E c \in Chains :
          NewBlock(c) \/ \E e \in Endpoints : EndpointChanges(c, e)

\* The threads are scheduled, every RPC call ends within its timeout of 10 s
\* and a call of start or stop that has begun goes on.  Nothing is assumed of
\* the endpoints and of the users.
BwFairness ==
    /\ WF_bwVars(PollerStep) /\ WF_bwVars(StartMonitor)
    /\ WF_bwVars(StopMonitor \/ StopChains)
    /\ \A t \in ScanThreads : WF_bwVars(ScanStep(t))

BwSpec == BwInit /\ [][BwNext]_bwVars /\ BwFairness

-----------------------------------------------------------------------------
\* A chain has an entry in _latest_blocks only for a block that exists, and
\* the poller never runs past the listeners that are registered.
BwTypeOK ==
    /\ state \in [Chains -> [Endpoints -> {"up", "limited", "down"}]]
    /\ head \in [Chains -> 1 .. MaxHead] /\ changes \in 0 .. MaxChanges
    /\ conn \in [Chains -> Endpoints \union {None}]
    /\ clients \in [Chains -> Endpoints \union {None}]
    /\ latest \in [Chains -> 0 .. MaxHead]
    /\ chainsRunning \in BOOLEAN /\ agentRunning \in BOOLEAN /\ monRunning \in BOOLEAN
    /\ poller \in {"test", "poll", "notify", "retry", "ended"}
    /\ rest \subseteq Chains /\ rounds \in 0 .. RetryRounds
    /\ called \in 0 .. listeners /\ listeners \in 0 .. starts
    /\ starter \in {"idle", "monitor"}
    /\ stopper \in {"idle", "monitor", "chains"}
    /\ starts \in 0 .. MaxStarts /\ stops \in 0 .. MaxStops
    /\ pendingScan \in BOOLEAN /\ news \in BOOLEAN
    /\ scan \in [ScanThreads -> ScanPlaces]

\* A block that the poller announced to a running monitor is never forgotten
\* between the event's set, wait and clear: until a scan begins after it, the
\* event is set or a scan thread is on its way to a scan, also when a quick
\* restart left two scan threads on the same event.
BlockNotForgotten ==
    news => /\ monRunning
            /\ \/ pendingScan
               \/ \E t \in ScanThreads : scan[t] \in {"woken", "cleared"}

\* A chain that the poller should serve, as its first reachable endpoint works,
\* and that is not connected to a working endpoint or not up to date.
Behind(c) ==
    /\ chainsRunning
    /\ First(c) # None /\ state[c][First(c)] = "up"
    /\ \/ conn[c] = None
       \/ state[c][conn[c]] # "up"
       \/ latest[c] # head[c]

\* As long as the monitor runs it keeps scanning, with or without blocks: the
\* fallback interval makes up for a poller that stopped announcing them.
Scanning == ~monRunning \/ \E t \in ScanThreads : scan[t] = "scan"

\* monitor.py line 108: "Called on every new block - signals the scan loop
\* immediately".  Of a running agent and monitor, with a chain that is served.
Served(c) == conn[c] # None /\ state[c][conn[c]] = "up"

BlocksReachAgent ==
    \A c \in Chains :
       /\ agentRunning /\ monRunning /\ stopper = "idle"
       /\ Served(c) /\ latest[c] # head[c]
       ~> ~agentRunning \/ ~Served(c) \/ latest[c] = head[c]
=============================================================================
