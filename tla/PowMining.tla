------------------------------ MODULE PowMining ------------------------------
(***************************************************************************)
(* PoWMiningStrategy (nexus/strategies/pow_mining.py): the life of a       *)
(* mining session.  The thread that builds the strategy and later starts   *)
(* mining (Boot), the HTTP handlers (Users) and the profit switching       *)
(* thread (Switcher) call it; start_mining, stop_mining, status and        *)
(* _initialize take one lock, which is not reentrant.                      *)
(*                                                                         *)
(* A step runs from one blocking call to the next: a wait for the lock, a  *)
(* connection, a handshake, the start or the end of an engine, a sleep.    *)
(* ProfitSwitcher (gpu_mining.py) has a lock of its own, not reentrant     *)
(* either.                                                                 *)
(*                                                                         *)
(* The pool client (StratumClient) has receive threads that lose and renew *)
(* its connection on their own; here they are counted by what they do,     *)
(* Stratum follows each of them through its messages.                      *)
(***************************************************************************)
EXTENDS Integers, FiniteSets

CONSTANTS
  Users,            \* threads that serve /api/mining/*
  Boot, Switcher,
  Free,             \* nobody holds the lock
  PoolInConfig,     \* MINING_POOL_URL and MINING_POOL_USER are set
  MaxCalls,         \* bound: calls that users and the switcher make
  MaxReceivers      \* bound: receive threads of the client at a time

Threads == Users \union {Boot, Switcher}

ASSUME PowMiningAssumption ==
  /\ Boot \notin Users /\ Switcher \notin Users /\ Boot # Switcher
  /\ Free \notin Threads
  /\ PoolInConfig \in BOOLEAN /\ MaxCalls \in Nat /\ MaxReceivers \in Nat

VARIABLES
  pc,
  lock,                       \* holder of self._lock
  switching,                  \* threads inside switch_coin
  configured,                 \* what _is_configured answers without discovery
  dryRun, hasGpu, realCompute, \* configuration and machine, fixed at start-up
  running, gpuActive,         \* self._running, self._gpu_mining_active
  stratum,                    \* kind of self._stratum: a simulated one has no
                              \* connection
  connected, alive,           \* _connected and _running of the pool's client
  receivers,                  \* how many of its receive threads are at each place
  minerClient,                \* the client self._miner was built with
  cpu, ext, real,             \* the engines: CPUMiner, external miner, real compute
  realObject,                 \* self._real_compute is not None
  aiAsleep, aiEnding,         \* AI optimisation loops: in their sleep, on their way out
  switchOn,                   \* self._profit_switch_enabled
  profitLock,                 \* holder of the lock of self._profit_switcher
  calls

fixed == <<dryRun, hasGpu, realCompute>>
engines == <<cpu, ext, real, realObject>>
link == <<connected, alive, receivers>>
client == <<stratum, link, minerClient>>
loops == <<aiAsleep, aiEnding>>
switch == <<switchOn, profitLock, calls>>
vars == <<pc, lock, switching, configured, fixed, running, gpuActive, client, engines,
          loops, switch>>

Init ==
  /\ pc = [t \in Threads |-> IF t = Boot THEN "construct"
                             ELSE IF t = Switcher THEN "none" ELSE "idle"]
  /\ lock = Free /\ switching = {}
  /\ configured = PoolInConfig
  /\ dryRun \in BOOLEAN /\ hasGpu \in BOOLEAN /\ realCompute \in BOOLEAN
  /\ running = FALSE /\ gpuActive = FALSE
  /\ stratum = "none" /\ minerClient = "none"
  /\ connected = FALSE /\ alive = FALSE
  /\ receivers = [place \in {"reading", "waiting", "dialling", "joining"} |-> 0]
  /\ cpu = FALSE /\ ext = FALSE /\ real = FALSE /\ realObject = FALSE
  /\ aiAsleep = 0 /\ aiEnding = 0
  /\ switchOn = FALSE /\ profitLock = Free /\ calls = 0

Goto(t, where) == pc' = [pc EXCEPT ![t] = where]

Return(t) ==
  /\ Goto(t, "idle")
  /\ switching' = switching \ {t}

Built == pc[Boot] \notin {"construct", "initialize"}

\* A handler, once the agent is ready, takes a request.
Call(t) ==
  /\ t \in Users /\ pc[t] = "idle" /\ Built
  /\ calls < MaxCalls /\ calls' = calls + 1
-----------------------------------------------------------------------------
\* _is_configured: a usable pool that discovery offers is written into the
\* configuration.  It may offer none now and one later: a pool whose last
\* check failed is not offered (PoolDiscovery).
IsConfigured == configured' \in {configured, TRUE}

\* The constructor: _initialize only if a pool is known at this moment.
Construct ==
  /\ pc[Boot] = "construct"
  /\ IsConfigured
  /\ Goto(Boot, IF configured' THEN "initialize" ELSE "built")
  /\ UNCHANGED <<lock, switching, fixed, running, gpuActive, client, engines, loops, switch>>

\* Where start_mining begins.
FirstEngine == IF hasGpu THEN "gpu" ELSE "connect"

\* _initialize takes the lock for itself, whether the constructor calls it or
\* start_mining, which holds the lock already.
Initialize(t) ==
  /\ pc[t] \in {"initialize", "nested"}
  /\ lock = Free
  /\ stratum' = IF dryRun THEN "sim" ELSE "pool"
  /\ minerClient' = stratum'
  /\ Goto(t, IF pc[t] = "initialize" THEN "built" ELSE FirstEngine)
  /\ UNCHANGED <<lock, switching, configured, fixed, running, gpuActive, link, engines,
                 loops, switch>>

(* start_mining: by a handler, by the thread that started the strategy, or *)
(* by switch_coin after it has stopped mining.                             *)
StartMining(t) ==
  /\ \/ Call(t)
     \/ pc[t] = "built" /\ UNCHANGED calls
     \/ pc[t] = "restart" /\ UNCHANGED calls
  /\ IsConfigured
  /\ IF configured' THEN Goto(t, "startWait") /\ UNCHANGED switching ELSE Return(t)
  /\ UNCHANGED <<lock, fixed, running, gpuActive, client, engines, loops, switchOn,
                 profitLock>>

AlreadyMining(t) ==
  /\ pc[t] = "startWait" /\ lock = Free
  /\ running
  /\ Return(t)
  /\ UNCHANGED <<lock, configured, fixed, running, gpuActive, client, engines, loops, switch>>

BeginStart(t) ==
  /\ pc[t] = "startWait" /\ lock = Free
  /\ ~running
  /\ lock' = t
  /\ Goto(t, IF stratum = "none" THEN "nested" ELSE FirstEngine)
  /\ UNCHANGED <<switching, configured, fixed, running, gpuActive, client, engines, loops, switch>>

\* A session is on: the lock is released and the call returns.
Started(t, gpu) ==
  /\ running' = TRUE /\ gpuActive' = gpu
  /\ lock' = Free
  /\ Return(t)
  /\ UNCHANGED <<configured, fixed, switch>>

\* Fault variant: a loop that is still alive is not looked for.
StartAiLoopAlways ==
  /\ aiAsleep' = aiAsleep + 1
  /\ UNCHANGED aiEnding

\* _start_ai_optimization_loop, if no earlier loop is alive.
StartAiLoop ==
  /\ aiAsleep' = IF aiAsleep + aiEnding > 0 THEN aiAsleep ELSE 1
  /\ UNCHANGED aiEnding

\* The external miner starts, ...
StartGpuMining(t) ==
  /\ pc[t] = "gpu"
  /\ ext' = TRUE
  /\ Started(t, TRUE)
  /\ StartAiLoop
  /\ UNCHANGED <<client, cpu, real, realObject>>

\* ... or there is none for the algorithm, or it does not start.
GpuFallsBack(t) ==
  /\ pc[t] = "gpu"
  /\ Goto(t, "connect")
  /\ UNCHANGED <<lock, switching, configured, fixed, running, gpuActive, client, engines,
                 loops, switch>>

\* The receive threads of the client.
Receivers ==
  receivers["reading"] + receivers["waiting"] + receivers["dialling"] + receivers["joining"]

\* The client is connected, and a receive thread more reads.
Online(reading) ==
  /\ Receivers < MaxReceivers
  /\ connected' = TRUE /\ alive' = TRUE
  /\ receivers' = [reading EXCEPT !["reading"] = @ + 1]

\* disconnect: of the threads none is waited for.
Offline == connected' = FALSE /\ alive' = FALSE /\ UNCHANGED receivers

\* _start_cpu_mining: the pool answers, or the client is replaced by a
\* simulated one, which always connects.  The miner keeps its client.
Connect(t) ==
  /\ pc[t] = "connect"
  /\ \/ stratum = "pool" /\ Online(receivers) /\ UNCHANGED stratum
     \/ stratum = "pool" /\ stratum' = "sim" /\ connected' = FALSE /\ UNCHANGED <<alive, receivers>>
     \/ stratum = "sim" /\ UNCHANGED <<stratum, link>>
  /\ Goto(t, "handshake")
  /\ UNCHANGED <<lock, switching, configured, fixed, running, gpuActive, minerClient, engines,
                 loops, switch>>

StartCpuMining(t) ==
  /\ pc[t] = "handshake"
  /\ cpu' = TRUE
  /\ Started(t, FALSE)
  /\ StartAiLoop
  /\ UNCHANGED <<client, ext, real, realObject>>

\* A pool refuses to subscribe or to authorize: real compute takes over.
HandshakeFails(t) ==
  /\ pc[t] = "handshake" /\ stratum = "pool"
  /\ Offline
  /\ Goto(t, IF realCompute THEN "real" ELSE "simulate")
  /\ UNCHANGED <<lock, switching, configured, fixed, running, gpuActive, stratum, minerClient,
                 engines, loops, switch>>

\* _start_simulated_mining with real compute disabled.
StartSimulatedMining(t) ==
  /\ pc[t] = "simulate"
  /\ stratum' = "sim" /\ minerClient' = "sim"
  /\ cpu' = TRUE
  /\ Started(t, FALSE)
  /\ UNCHANGED <<link, ext, real, realObject, loops>>

StartRealCompute(t) ==
  /\ pc[t] = "real"
  /\ real' = TRUE /\ realObject' = TRUE
  /\ Started(t, TRUE)
  /\ UNCHANGED <<client, cpu, ext, loops>>

RealComputeFails(t) ==
  /\ pc[t] = "real"
  /\ realObject' = TRUE
  /\ lock' = Free
  /\ Return(t)
  /\ UNCHANGED <<configured, fixed, running, gpuActive, client, cpu, ext, real, loops, switch>>
-----------------------------------------------------------------------------
(* stop_mining.                                                            *)
StopMining(t) ==
  /\ Call(t)
  /\ Goto(t, "stopWait")
  /\ UNCHANGED <<lock, switching, configured, fixed, running, gpuActive, client, engines, loops,
                 switchOn, profitLock>>

AfterStop(t) == IF t \in switching THEN Goto(t, "restart") ELSE Goto(t, "idle")

NotMining(t) ==
  /\ pc[t] = "stopWait" /\ lock = Free
  /\ ~running
  /\ AfterStop(t)
  /\ UNCHANGED <<lock, switching, configured, fixed, running, gpuActive, client, engines, loops,
                 switch>>

BeginStop(t) ==
  /\ pc[t] = "stopWait" /\ lock = Free
  /\ running
  /\ running' = FALSE
  /\ lock' = t
  /\ Goto(t, "stopping")
  /\ UNCHANGED <<switching, configured, fixed, gpuActive, client, engines, loops, switch>>

\* Fault variant: the external miner is stopped only if there is no real compute.
StopEnginesOneOf(t) ==
  /\ pc[t] = "stopping"
  /\ real' = (real /\ ~realObject) /\ realObject' = FALSE
  /\ ext' = (ext /\ (realObject \/ ~gpuActive))
  /\ gpuActive' = FALSE
  /\ cpu' = FALSE
  /\ IF stratum = "pool" THEN Offline ELSE UNCHANGED link
  /\ lock' = Free
  /\ AfterStop(t)
  /\ UNCHANGED <<switching, configured, fixed, running, stratum, minerClient, loops, switch>>

\* Every engine that may be on is ended, and the client disconnects.
StopEngines(t) ==
  /\ pc[t] = "stopping"
  /\ real' = (real /\ ~realObject) /\ realObject' = FALSE
  /\ ext' = (ext /\ ~gpuActive)
  /\ gpuActive' = FALSE
  /\ cpu' = FALSE
  /\ IF stratum = "pool" THEN Offline ELSE UNCHANGED link
  /\ lock' = Free
  /\ AfterStop(t)
  /\ UNCHANGED <<switching, configured, fixed, running, stratum, minerClient, loops, switch>>

\* status holds the lock while it asks for the profits of the coins ...
Status(t) ==
  /\ Call(t)
  /\ lock = Free /\ lock' = t
  /\ Goto(t, "status")
  /\ UNCHANGED <<switching, configured, fixed, running, gpuActive, client, engines, loops,
                 switchOn, profitLock>>

\* ... in get_most_profitable, which takes the switcher's lock for itself.
\* should_switch, which calls it too, holds that lock already.
GetMostProfitable(t) ==
  /\ pc[t] \in {"status", "ranking"}
  /\ profitLock = Free
  /\ IsConfigured
  /\ lock' = IF lock = t THEN Free ELSE lock
  /\ Goto(t, IF t = Switcher THEN "top" ELSE "idle")
  /\ UNCHANGED <<switching, fixed, running, gpuActive, client, engines, loops, switch>>
-----------------------------------------------------------------------------
\* Fault variant: switch_coin holds the lock over both calls.
SwitchCoinLocked(t) ==
  /\ Call(t)
  /\ lock = Free /\ lock' = t
  /\ running
  /\ switching' = switching \union {t}
  /\ Goto(t, "stopWait")
  /\ UNCHANGED <<configured, fixed, running, gpuActive, client, engines, loops, switchOn,
                 profitLock>>

\* switch_coin reads the profits, reads running without the lock, stops and
\* starts again.
SwitchCoin(t) ==
  /\ Call(t)
  /\ profitLock = Free
  /\ running
  /\ switching' = switching \union {t}
  /\ Goto(t, "stopWait")
  /\ UNCHANGED <<lock, configured, fixed, running, gpuActive, client, engines, loops,
                 switchOn, profitLock>>

\* enable_profit_switching sets the flag only if it starts the thread.
EnableSwitching(t) ==
  /\ Call(t)
  /\ IF pc[Switcher] = "none"
     THEN switchOn' = TRUE /\ Goto(Switcher, "top")
     ELSE UNCHANGED <<switchOn, pc>>
  /\ UNCHANGED <<lock, switching, configured, fixed, running, gpuActive, client, engines, loops,
                 profitLock>>

DisableSwitching(t) ==
  /\ Call(t)
  /\ switchOn' = FALSE
  /\ UNCHANGED <<pc, lock, switching, configured, fixed, running, gpuActive, client, engines,
                 loops, profitLock>>

\* _profit_switch_loop: it ends at the top when switched off or when nothing
\* is mined, and otherwise sleeps 300 s.
SwitcherTop ==
  /\ pc[Switcher] = "top"
  /\ Goto(Switcher, IF switchOn /\ running THEN "asleep" ELSE "none")
  /\ UNCHANGED <<lock, switching, configured, fixed, running, gpuActive, client, engines, loops,
                 switch>>

\* Then, if something is still mined, should_switch takes the switcher's lock.
SwitcherWakes ==
  /\ pc[Switcher] = "asleep" /\ profitLock = Free
  /\ IF running THEN Goto(Switcher, "ranking") /\ profitLock' = Switcher
                ELSE Goto(Switcher, "top") /\ UNCHANGED profitLock
  /\ UNCHANGED <<lock, switching, configured, fixed, running, gpuActive, client, engines, loops,
                 switchOn, calls>>

\* _ai_optimization_loop wakes up to find the session over, and ends.
AiLoopWakes ==
  /\ aiAsleep > 0 /\ ~running
  /\ aiAsleep' = aiAsleep - 1 /\ aiEnding' = aiEnding + 1
  /\ UNCHANGED <<pc, lock, switching, configured, fixed, running, gpuActive, client, engines,
                 switch>>

AiLoopEnds ==
  /\ aiEnding > 0
  /\ aiEnding' = aiEnding - 1
  /\ UNCHANGED <<pc, lock, switching, configured, fixed, running, gpuActive, client, engines,
                 aiAsleep, switch>>
-----------------------------------------------------------------------------
(* The receive threads of the pool's client, whatever the session does.    *)
Moved(from, to) == [receivers EXCEPT ![from] = @ - 1, ![to] = @ + 1]

\* The connection is lost or found to be: the thread waits to renew it, or an
\* exception nobody expects ends it.
ConnectionLost ==
  /\ receivers["reading"] > 0 /\ alive
  /\ connected' = FALSE
  /\ receivers' \in {Moved("reading", "waiting"), [receivers EXCEPT !["reading"] = @ - 1]}
  /\ UNCHANGED alive

\* A reading thread finds the client disconnected and ends.
ReceiverEnds ==
  /\ receivers["reading"] > 0 /\ ~alive
  /\ receivers' = [receivers EXCEPT !["reading"] = @ - 1]
  /\ UNCHANGED <<connected, alive>>

\* After its wait the thread does not look again whether the client is to be
\* on: reconnect disconnects and dials.
Reconnect ==
  /\ receivers["waiting"] > 0
  /\ connected' = FALSE /\ alive' = FALSE
  /\ receivers' = Moved("waiting", "dialling")

\* The pool answers, and a thread more reads; or it does not.
PoolAnswers == receivers["dialling"] > 0 /\ Online(Moved("dialling", "joining"))
PoolSilent ==
  /\ receivers["dialling"] > 0
  /\ connected' = FALSE /\ receivers' = Moved("dialling", "reading")
  /\ UNCHANGED alive

\* It lets the client subscribe and authorize again, or it is disconnected.
Rejoined ==
  /\ receivers["joining"] > 0
  /\ \/ UNCHANGED <<connected, alive>>
     \/ connected' = FALSE /\ alive' = FALSE
  /\ receivers' = Moved("joining", "reading")

ReceiveThread ==
  /\ ConnectionLost \/ ReceiverEnds \/ Reconnect \/ PoolAnswers \/ PoolSilent \/ Rejoined
  /\ UNCHANGED <<pc, lock, switching, configured, fixed, running, gpuActive, stratum, minerClient,
                 engines, loops, switch>>
-----------------------------------------------------------------------------
\* What a thread does once it is inside a call.
Inside(t) ==
  \/ Initialize(t) \/ AlreadyMining(t) \/ BeginStart(t)
  \/ (pc[t] \in {"built", "restart"} /\ StartMining(t))
  \/ StartGpuMining(t) \/ GpuFallsBack(t) \/ Connect(t) \/ StartCpuMining(t)
  \/ HandshakeFails(t) \/ StartSimulatedMining(t) \/ StartRealCompute(t) \/ RealComputeFails(t)
  \/ NotMining(t) \/ BeginStop(t) \/ StopEngines(t) \/ GetMostProfitable(t)

Next ==
  \/ Construct
  \/ \E t \in Threads :
       Inside(t) \/ StartMining(t) \/ StopMining(t) \/ Status(t) \/ SwitchCoin(t)
         \/ EnableSwitching(t) \/ DisableSwitching(t)
  \/ SwitcherTop \/ SwitcherWakes
  \/ AiLoopWakes \/ AiLoopEnds
  \/ ReceiveThread

\* Every blocking call inside a call has a timeout, so a thread that is in one
\* goes on.  No handler has to be called.
Fairness == WF_vars(Construct) /\ \A t \in Threads : WF_vars(Inside(t))

Spec == Init /\ [][Next]_vars /\ Fairness
-----------------------------------------------------------------------------
Places == {"construct", "built", "idle", "initialize", "nested", "startWait", "gpu", "connect",
           "handshake", "real", "simulate", "stopWait", "stopping", "restart", "none", "top",
           "asleep", "status", "ranking"}

\* Types.  There is never more than one AI optimisation loop, which may be
\* one that a stop has not ended yet.
TypeOK ==
  /\ pc \in [Threads -> Places]
  /\ lock \in Threads \union {Free}
  /\ switching \subseteq Threads
  /\ configured \in BOOLEAN
  /\ dryRun \in BOOLEAN /\ hasGpu \in BOOLEAN /\ realCompute \in BOOLEAN
  /\ running \in BOOLEAN /\ gpuActive \in BOOLEAN
  /\ stratum \in {"none", "pool", "sim"} /\ minerClient \in {"none", "pool", "sim"}
  /\ connected \in BOOLEAN /\ alive \in BOOLEAN
  /\ receivers \in [{"reading", "waiting", "dialling", "joining"} -> Nat]
  /\ Receivers <= MaxReceivers
  /\ cpu \in BOOLEAN /\ ext \in BOOLEAN /\ real \in BOOLEAN /\ realObject \in BOOLEAN
  /\ aiAsleep \in 0 .. 1 /\ aiEnding \in 0 .. 1 /\ aiAsleep + aiEnding <= 1
  /\ switchOn \in BOOLEAN /\ profitLock \in {Switcher, Free}
  /\ calls \in 0 .. MaxCalls

OneEngine ==
  /\ running => \/ cpu /\ ~ext /\ ~real
                \/ ext /\ ~cpu /\ ~real
                \/ real /\ ~cpu /\ ~ext
  /\ ~running => ~cpu /\ ~ext /\ ~real

\* Whenever nobody is inside start_mining or stop_mining, a running session
\* has one engine and a session that is not running has none: whatever
\* fallbacks a start went through, whoever stopped or switched meanwhile, no
\* engine is left over and none is started twice.
SessionHasOneEngine == lock = Free => OneEngine

\* "Disconnect from the pool." (StratumClient.disconnect, which stop_mining
\* calls last): a session that is stopped has no connection to the pool.  (A
\* receive thread that is renewing a lost connection goes on and connects.)
StoppedLeavesThePool == lock = Free /\ ~running => ~connected

\* The engines that are on.
EnginesOn == {e \in {"cpu", "ext", "real"} :
                \/ e = "cpu" /\ cpu
                \/ e = "ext" /\ ext
                \/ e = "real" /\ real}

\* The strategy keeps the promise of a session: whoever starts or stops has it
\* for himself, no engine takes another one's place, and what is left behind
\* is one engine that was asked for or none.
Sessions == INSTANCE Session WITH
  Callers <- Threads, Nobody <- Free, Engines <- {"cpu", "ext", "real"},
  holder <- lock, asked <- running, on <- EnginesOn
KeepsSession == Sessions!SessionSpec

\* Every call into the strategy returns, as long as the profit switcher has
\* not made its first check.
Returned(t) == pc[t] = "idle" \/ profitLock # Free
CallsReturn == \A t \in Users \union {Boot} : []<>Returned(t)

\* The profit switcher's check for a better coin comes to an end, so that it
\* can switch and check again.
SwitcherGoesOn == pc[Switcher] = "ranking" ~> pc[Switcher] # "ranking"
=============================================================================
