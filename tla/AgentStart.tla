----------------------------- MODULE AgentStart -----------------------------
(***************************************************************************)
(* Who starts and stops the agent.  In the web process (app.py) the first  *)
(* request launches a thread that builds the NexusAgent and starts it, at  *)
(* most AgTries times; until it is done a request is answered 503, later   *)
(* ones may start and stop the agent.  The worker process                  *)
(* (nexus/worker.py) does so in its main thread and stops at a signal.     *)
(* NexusAgent.start and stop (nexus/agent.py) set going and end the price  *)
(* feed (nexus/feeds/price_feed.py), the monitor, the scheduler and the    *)
(* agent's own loop; each of them polls its _running.                      *)
(***************************************************************************)
EXTENDS Naturals, FiniteSets

CONSTANTS AgHandlers,     \* request threads of the web process
          AgThreads,      \* bound: start threads of the web process
          AgMain,         \* the main thread of the worker process
          AgNone,         \* no thread
          AgTries,        \* _MAX_AGENT_INIT_ATTEMPTS
          AgWorkerTries,  \* MAX_INIT_RETRIES
          AgMaxCalls      \* bound: requests

\* The threads are different ones, and each process tries at least once.
ASSUME AgAssumption ==
    /\ AgHandlers \intersect AgThreads = {} /\ AgMain \notin AgHandlers \union AgThreads
    /\ AgNone \notin AgHandlers \union AgThreads \union {AgMain}
    /\ AgTries \in Nat \ {0} /\ AgWorkerTries \in Nat \ {0} /\ AgMaxCalls \in Nat

AgParts == {"agent", "feed", "monitor", "scheduler"}
AgProcs == AgHandlers \union AgThreads \union {AgMain}

VARIABLES
    agRole,      \* which process this is
    agBuilt,     \* nexus.agent._agent is there
    agReady,     \* _agent_started of app.py
    agStarter,   \* _agent_start_thread
    agPc,        \* where each thread is
    agTried,     \* attempts of the thread that builds the agent
    agUp,        \* the parts whose _running is set
    agLoops,     \* the live threads of each part
    agPriced,    \* the feed has prices
    agCalls,     \* bound
    agGaveUp,    \* history: the start thread gave up
    agStopped    \* history: somebody asked for a stop

agWeb   == <<agRole, agBuilt, agReady, agStarter, agTried, agCalls, agGaveUp, agStopped>>
agAgent == <<agUp, agLoops, agPriced>>
agVars  == <<agWeb, agPc, agAgent>>

AgAlive(p) == p # AgNone /\ agPc[p] \notin {"unborn", "dead"}

AgInit ==
    /\ agRole \in {"web", "worker"}
    /\ agBuilt = FALSE /\ agReady = FALSE /\ agStarter = AgNone
    /\ agPc = [p \in AgProcs |-> IF p = AgMain /\ agRole = "worker" THEN "build"
                                 ELSE IF p \in AgHandlers /\ agRole = "web" THEN "idle"
                                 ELSE "unborn"]
    /\ agTried = 0 /\ agUp = {} /\ agLoops = [c \in AgParts |-> 0]
    /\ agPriced = FALSE /\ agCalls = 0
    /\ agGaveUp = FALSE /\ agStopped = FALSE

Goes(p, place) == agPc' = [agPc EXCEPT ![p] = place]
Spawned(c) == agLoops' = [agLoops EXCEPT ![c] = @ + 1]

\* Where a thread goes on when start() or stop() has returned.
Back(p) == IF p \in AgHandlers THEN "idle"
           ELSE IF p \in AgThreads THEN "mark"
           ELSE IF agStopped THEN "exit" ELSE "serve"

\* ensure_agent, first without the lock ...
AgArrive(h) ==
    /\ agPc[h] = "idle" /\ agCalls < AgMaxCalls
    /\ agCalls' = agCalls + 1
    /\ Goes(h, IF agReady THEN "handle" ELSE "launch")
    /\ UNCHANGED <<agAgent, agRole, agBuilt, agReady, agStarter, agTried, agGaveUp, agStopped>>

\* Fault variant: the lock's holder does not ask whether a start thread lives.
AgLaunchAgain(h) ==
    /\ agPc[h] = "launch"
    /\ IF agReady
       THEN Goes(h, "handle") /\ UNCHANGED agStarter
       ELSE \E t \in AgThreads :
                /\ agPc[t] = "unborn"
                /\ agPc' = [agPc EXCEPT ![h] = "handle", ![t] = "build"]
                /\ agStarter' = t
    /\ UNCHANGED <<agAgent, agRole, agBuilt, agReady, agTried, agCalls, agGaveUp, agStopped>>

\* ... and again under it.
AgLaunch(h) ==
    /\ agPc[h] = "launch"
    /\ IF agReady \/ AgAlive(agStarter)
       THEN Goes(h, "handle") /\ UNCHANGED agStarter
       ELSE \E t \in AgThreads :
                /\ agPc[t] = "unborn"
                /\ agPc' = [agPc EXCEPT ![h] = "handle", ![t] = "build"]
                /\ agStarter' = t
    /\ UNCHANGED <<agAgent, agRole, agBuilt, agReady, agTried, agCalls, agGaveUp, agStopped>>

\* _require_agent_ready: 503, or get_agent(), which builds an agent that is
\* not there; then the request reads, starts the agent or stops it.
AgHandle(h) ==
    /\ agPc[h] = "handle"
    /\ IF ~agReady THEN Goes(h, "idle") /\ UNCHANGED <<agBuilt, agStopped>>
       ELSE \/ ~agBuilt /\ Goes(h, "idle") /\ UNCHANGED <<agBuilt, agStopped>>
            \/ \E place \in {"idle", "begin", "halt"} :
                   /\ agBuilt' = TRUE /\ Goes(h, place)
                   /\ agStopped' = (agStopped \/ place = "halt")
    /\ UNCHANGED <<agAgent, agRole, agReady, agStarter, agTried, agCalls, agGaveUp>>

\* _background_pusher asks for the status, and get_agent() builds an agent.
AgPush ==
    /\ agReady /\ ~agBuilt /\ agBuilt' = TRUE
    /\ UNCHANGED <<agAgent, agRole, agReady, agStarter, agPc, agTried, agCalls, agGaveUp, agStopped>>

\* Fault variant: the process calls itself ready before it starts the agent.
AgBuildReady(p) ==
    /\ agPc[p] = "build"
    /\ agBuilt' = TRUE /\ agReady' = (p \in AgThreads) /\ Goes(p, "begin")
    /\ UNCHANGED <<agAgent, agRole, agStarter, agTried, agCalls, agGaveUp, agStopped>>

\* _start_agent_once and main: get_agent() ...
AgBuild(p) ==
    /\ agPc[p] = "build"
    /\ agBuilt' = TRUE /\ Goes(p, "begin")
    /\ UNCHANGED <<agAgent, agRole, agReady, agStarter, agTried, agCalls, agGaveUp, agStopped>>

\* ... raises: another attempt, or the web process calls itself ready all the
\* same and the worker exits.
AgBuildFails(p) ==
    /\ agPc[p] = "build" /\ ~agBuilt
    /\ agTried' = agTried + 1
    /\ IF agTried' < (IF p = AgMain THEN AgWorkerTries ELSE AgTries)
       THEN UNCHANGED <<agPc, agReady, agGaveUp>>
       ELSE /\ Goes(p, "dead")
            /\ agReady' = (p # AgMain) /\ agGaveUp' = (p # AgMain)
    /\ UNCHANGED <<agAgent, agRole, agBuilt, agStarter, agCalls, agStopped>>

\* Fault variant: start() goes on although the agent runs.
AgBeginAgain(p) ==
    /\ agPc[p] = "begin"
    /\ Goes(p, "feed") /\ agUp' = agUp \union {"agent"}
    /\ UNCHANGED <<agWeb, agLoops, agPriced>>

\* NexusAgent.start.
AgBegin(p) ==
    /\ agPc[p] = "begin"
    /\ Goes(p, IF "agent" \in agUp THEN Back(p) ELSE "feed")
    /\ agUp' = agUp \union {"agent"}
    /\ UNCHANGED <<agWeb, agLoops, agPriced>>

\* PriceFeed.start fetches first ...
AgFeed(p) ==
    /\ agPc[p] = "feed"
    /\ Goes(p, IF "feed" \in agUp THEN "monitor" ELSE "fetch")
    /\ agUp' = agUp \union {"feed"}
    /\ UNCHANGED <<agWeb, agLoops, agPriced>>

\* ... within three attempts, which raise nothing, and then begins its loop.
AgFetched(p) ==
    /\ agPc[p] = "fetch"
    /\ Goes(p, "monitor") /\ Spawned("feed")
    /\ agPriced' \in {agPriced, TRUE}
    /\ UNCHANGED <<agWeb, agUp>>

\* OpportunityMonitor.start and TradeScheduler.start.
AgPart(p) ==
    /\ agPc[p] \in {"monitor", "scheduler"}
    /\ Goes(p, IF agPc[p] = "monitor" THEN "scheduler" ELSE "loop")
    /\ agUp' = agUp \union {agPc[p]}
    /\ IF agPc[p] \in agUp THEN UNCHANGED agLoops ELSE Spawned(agPc[p])
    /\ UNCHANGED <<agWeb, agPriced>>

\* The execution loop of the agent itself.
AgLoop(p) ==
    /\ agPc[p] = "loop"
    /\ Goes(p, Back(p)) /\ Spawned("agent")
    /\ UNCHANGED <<agWeb, agUp, agPriced>>

\* _start_agent_once sets _agent_started.
AgMark(p) ==
    /\ agPc[p] = "mark"
    /\ agReady' = TRUE /\ Goes(p, "dead")
    /\ UNCHANGED <<agAgent, agRole, agBuilt, agStarter, agTried, agCalls, agGaveUp, agStopped>>

HaltNext == [halt |-> "haltfeed", haltfeed |-> "haltmonitor", haltmonitor |-> "haltscheduler"]
Halts == [halt |-> "agent", haltfeed |-> "feed", haltmonitor |-> "monitor",
          haltscheduler |-> "scheduler"]

\* NexusAgent.stop, part after part; its waits end by timeout at the latest.
AgHalt(p) ==
    /\ agPc[p] \in DOMAIN Halts
    /\ agUp' = agUp \ {Halts[agPc[p]]}
    /\ Goes(p, IF agPc[p] \in DOMAIN HaltNext THEN HaltNext[agPc[p]] ELSE Back(p))
    /\ UNCHANGED <<agWeb, agLoops, agPriced>>

\* A loop finds its _running unset; the feed's loop fetches again.
AgLoopEnds(c) ==
    /\ c \notin agUp /\ agLoops[c] > 0
    /\ agLoops' = [agLoops EXCEPT ![c] = @ - 1]
    /\ UNCHANGED <<agWeb, agPc, agUp, agPriced>>
AgRefresh ==
    /\ agLoops["feed"] > 0 /\ agPriced' = TRUE
    /\ UNCHANGED <<agWeb, agPc, agUp, agLoops>>

\* SIGTERM or SIGINT interrupts the worker's main thread wherever it is: with
\* the handler installed it stops the agent, before that the process dies.
AgSignal ==
    /\ AgAlive(AgMain) /\ ~agStopped
    /\ agStopped' = TRUE
    /\ Goes(AgMain, IF agPc[AgMain] = "build" THEN "exit" ELSE "halt")
    /\ UNCHANGED <<agAgent, agRole, agBuilt, agReady, agStarter, agTried, agCalls, agGaveUp>>

\* The process ends and its daemon threads with it.
AgExit ==
    /\ agPc[AgMain] = "exit"
    /\ Goes(AgMain, "dead") /\ agLoops' = [c \in AgParts |-> 0]
    /\ UNCHANGED <<agWeb, agUp, agPriced>>

AgNext ==
    \/ \E h \in AgHandlers : AgArrive(h) \/ AgLaunch(h) \/ AgHandle(h)
    \/ AgPush
    \/ \E p \in AgProcs : AgBuild(p) \/ AgBuildFails(p) \/ AgBegin(p) \/ AgFeed(p) \/ AgFetched(p)
                          \/ AgPart(p) \/ AgLoop(p) \/ AgMark(p) \/ AgHalt(p)
    \/ \E c \in AgParts : AgLoopEnds(c)
    \/ AgRefresh \/ AgSignal \/ AgExit

AgSpec == AgInit /\ [][AgNext]_agVars

-----------------------------------------------------------------------------
\* The types: a process is in one of its places, and counts what it runs.
AgTypeOK ==
    /\ agRole \in {"web", "worker"}
    /\ {agBuilt, agReady, agPriced, agGaveUp, agStopped} \subseteq BOOLEAN
    /\ agStarter \in AgThreads \union {AgNone}
    /\ agPc \in [AgProcs -> {"unborn", "idle", "launch", "handle", "build", "begin", "feed", "fetch",
                             "monitor", "scheduler", "loop", "mark", "serve", "exit", "dead"}
                            \union DOMAIN Halts]
    /\ agTried \in 0 .. AgTries + AgWorkerTries /\ agUp \subseteq AgParts
    /\ agLoops \in [AgParts -> Nat] /\ agCalls \in 0 .. AgMaxCalls

\* app.py has at most one start thread ("Only launch one start thread").  As
\* long as nobody stopped the agent, no part of it has two threads, and a
\* process that answers its requests has all of them, unless the start thread
\* gave up.
StartUpIsSound ==
    /\ Cardinality({t \in AgThreads : AgAlive(t)}) <= 1
    /\ ~agStopped => \A c \in AgParts : agLoops[c] <= 1
    /\ agReady /\ ~agGaveUp /\ ~agStopped => \A c \in AgParts : c \in agUp /\ agLoops[c] = 1
=============================================================================
