---------------------------- MODULE AgentProofs -----------------------------
(***************************************************************************)
(* What holds of the mining session, of the watch for new blocks, of the   *)
(* nonces of the wallet and of a trade on its way to its record, for any   *)
(* number of threads, chains, endpoints, senders and trades.               *)
(***************************************************************************)
EXTENDS MCAgent, NumberProofs, FiniteSetTheorems, TLAPS

(* The mining session.                                                     *)

HoldsLock == {"nested", "gpu", "connect", "handshake", "real", "simulate", "stopping",
            "status"}

NoEngine == ~cpu /\ ~ext /\ ~real

\* Every thread is somewhere.
Shape == pc \in [Threads -> Places]

\* The lock is held by the thread that is inside, and by no other.
HolderInside == \A t \in Threads : pc[t] \in HoldsLock <=> lock = t

\* What stop_mining goes by: it stops real compute if there is an object for
\* it, and the external miner if GPU mining is marked active.
Marked == (real => realObject) /\ (ext => gpuActive)

\* What is on while the holder is on its way.
SessionProgress ==
  \A t \in Threads :
    /\ pc[t] = "status" => OneEngine
    /\ pc[t] \in HoldsLock \ {"status"} => ~running
    /\ pc[t] \in HoldsLock \ {"status", "stopping"} => NoEngine

SessionInv == Shape /\ HolderInside /\ Marked /\ SessionProgress /\ SessionHasOneEngine

\* The invariant holds initially: nobody is inside, nothing is on.
LEMMA SessionInitInv == ASSUME Init PROVE SessionInv
<1>1. pc = [t \in Threads |-> IF t = Boot THEN "construct"
                              ELSE IF t = Switcher THEN "none" ELSE "idle"]
  BY Zenon DEF Init
<1>2. lock = Free /\ ~running /\ NoEngine
  BY Zenon DEF Init, NoEngine
<1>3. \A t \in Threads : pc[t] \notin HoldsLock /\ lock # t
  BY <1>1, <1>2, PowMiningAssumption DEF PowMiningAssumption, HoldsLock
<1>4. Shape
  BY <1>1 DEF Shape, Places
<1>5. HolderInside /\ SessionProgress
  BY <1>3 DEF HolderInside, HoldsLock, SessionProgress
<1>6. Marked /\ SessionHasOneEngine
  BY <1>2 DEF Marked, NoEngine, SessionHasOneEngine, OneEngine
<1>. QED
  BY <1>4, <1>5, <1>6 DEF SessionInv

\* A step that leaves the lock and the engines alone and moves threads only
\* between places outside the lock keeps the invariant.
LEMMA OutsideStep ==
  ASSUME SessionInv, Shape',
         UNCHANGED <<lock, running, gpuActive, engines>>,
         \A t \in Threads : pc'[t] = pc[t] \/ {pc[t], pc'[t]} \intersect HoldsLock = {}
  PROVE  SessionInv'
  BY DEF SessionInv, Shape, HoldsLock, HolderInside, Marked, SessionProgress, NoEngine, SessionHasOneEngine, OneEngine,
     engines

\* A thread moves by Goto; if it moves outside the lock and changes nothing
\* else the invariant is about, the invariant stays.
LEMMA OutsideGoto ==
  ASSUME SessionInv, NEW t \in Threads, NEW where \in Places, Goto(t, where),
         {pc[t], where} \intersect HoldsLock = {},
         UNCHANGED <<lock, running, gpuActive, engines>>
  PROVE  SessionInv'
<1>1. Shape' /\ pc'[t] = where /\ \A u \in Threads : u # t => pc'[u] = pc[u]
  BY DEF SessionInv, Shape, Goto
<1>. QED
  BY <1>1, OutsideStep

\* A thread that takes the lock, keeps it or leaves it must account for what
\* is on at the place it moves to.
LEMMA InsideStep ==
  ASSUME SessionInv, NEW t \in Threads, NEW where \in Places, Goto(t, where),
         lock \in {t, Free}, lock' = IF where \in HoldsLock THEN t ELSE Free,
         Marked',
         where = "status" => OneEngine',
         where \in HoldsLock \ {"status"} => ~running',
         where \in HoldsLock \ {"status", "stopping"} => NoEngine',
         where \notin HoldsLock => SessionHasOneEngine'
  PROVE  SessionInv'
<1>1. Shape' /\ pc'[t] = where /\ \A u \in Threads : u # t => pc'[u] = pc[u]
  BY DEF SessionInv, Shape, Goto
<1>2. \A u \in Threads : u # t => pc'[u] \notin HoldsLock /\ lock' # u
  BY <1>1, PowMiningAssumption DEF SessionInv, HolderInside, PowMiningAssumption
<1>3. t # Free
  BY PowMiningAssumption DEF PowMiningAssumption
<1>4. HolderInside' /\ SessionProgress'
  BY <1>1, <1>2, <1>3 DEF HolderInside, HoldsLock, SessionProgress
<1>5. SessionHasOneEngine'
  BY <1>3 DEF SessionHasOneEngine
<1>. QED
  BY <1>1, <1>4, <1>5 DEF SessionInv

\* What the invariant says to a thread that is inside, and to one that finds
\* the lock free.
LEMMA AtHand ==
  ASSUME SessionInv, NEW t \in Threads
  PROVE  /\ pc[t] \in HoldsLock => lock = t
         /\ pc[t] \in HoldsLock \ {"status"} => ~running
         /\ pc[t] \in HoldsLock \ {"status", "stopping"} => NoEngine
         /\ lock = Free \/ pc[t] = "status" => OneEngine
         /\ lock = Free /\ ~running => NoEngine
  BY DEF SessionInv, HolderInside, SessionProgress, NoEngine, SessionHasOneEngine, OneEngine

\* start_mining takes the lock when nothing is on.
LEMMA BeginStartKeeps == ASSUME SessionInv, NEW t \in Threads, BeginStart(t) PROVE SessionInv'
<1>1. /\ lock = Free /\ ~running /\ lock' = t
      /\ UNCHANGED <<running, gpuActive, cpu, ext, real, realObject>>
  BY Zenon DEF BeginStart, engines
<1>2. PICK where \in {"nested", "gpu", "connect"} : Goto(t, where)
  BY Zenon DEF BeginStart, FirstEngine
<1>3. NoEngine' /\ ~running'
  BY <1>1, AtHand DEF NoEngine
<1>4. Marked'
  BY <1>3 DEF Marked, NoEngine
<1>. QED
  BY <1>1, <1>2, <1>3, <1>4, InsideStep DEF HoldsLock, Places

\* A fallback goes on inside with nothing on, connected or not.
LEMMA FallbackKeeps ==
  ASSUME SessionInv, NEW t \in Threads, GpuFallsBack(t) \/ Connect(t) \/ HandshakeFails(t)
  PROVE  SessionInv'
<1>1. /\ pc[t] \in {"gpu", "connect", "handshake"}
      /\ UNCHANGED <<lock, running, gpuActive, cpu, ext, real, realObject>>
  BY Zenon DEF GpuFallsBack, Connect, HandshakeFails, engines
<1>2. /\ lock = t /\ lock' = t /\ NoEngine' /\ ~running'
  BY <1>1, AtHand DEF NoEngine, HoldsLock
<1>3. Marked'
  BY <1>2 DEF Marked, NoEngine
<1>4. PICK where \in {"connect", "handshake", "real", "simulate"} : Goto(t, where)
  BY Zenon DEF GpuFallsBack, Connect, HandshakeFails
<1>. QED
  BY <1>2, <1>3, <1>4, InsideStep DEF HoldsLock, Places

\* A start ends with one engine on, or, if real compute fails, with none.
LEMMA StartEndsKeeps ==
  ASSUME SessionInv, NEW t \in Threads,
         \/ StartGpuMining(t) \/ StartCpuMining(t) \/ StartSimulatedMining(t)
         \/ StartRealCompute(t) \/ RealComputeFails(t)
  PROVE  SessionInv'
<1>1. Goto(t, "idle")
  BY Zenon DEF StartGpuMining, StartCpuMining, StartSimulatedMining, StartRealCompute,
     RealComputeFails, Started, Return
<1>2. lock' = Free /\ pc[t] \in HoldsLock
  BY DEF StartGpuMining, StartCpuMining, StartSimulatedMining, StartRealCompute,
     RealComputeFails, Started, HoldsLock
<1>3. lock = t
  BY <1>2, AtHand
<1>4. Marked' /\ SessionHasOneEngine'
  <2>1. CASE StartGpuMining(t)
    <3>1. pc[t] = "gpu" /\ ext' /\ running' /\ gpuActive' /\ UNCHANGED <<cpu, real>>
      BY <2>1, Zenon DEF StartGpuMining, Started
    <3>. QED
      BY <3>1, AtHand DEF Marked, SessionHasOneEngine, OneEngine, NoEngine, HoldsLock
  <2>2. CASE StartCpuMining(t)
    <3>1. pc[t] = "handshake" /\ cpu' /\ running' /\ UNCHANGED <<ext, real>>
      BY <2>2, Zenon DEF StartCpuMining, Started
    <3>. QED
      BY <3>1, AtHand DEF Marked, SessionHasOneEngine, OneEngine, NoEngine, HoldsLock
  <2>3. CASE StartSimulatedMining(t)
    <3>1. pc[t] = "simulate" /\ cpu' /\ running' /\ UNCHANGED <<ext, real>>
      BY <2>3, Zenon DEF StartSimulatedMining, Started
    <3>. QED
      BY <3>1, AtHand DEF Marked, SessionHasOneEngine, OneEngine, NoEngine, HoldsLock
  <2>4. CASE StartRealCompute(t)
    <3>1. pc[t] = "real" /\ real' /\ realObject' /\ running' /\ UNCHANGED <<cpu, ext>>
      BY <2>4, Zenon DEF StartRealCompute, Started
    <3>. QED
      BY <3>1, AtHand DEF Marked, SessionHasOneEngine, OneEngine, NoEngine, HoldsLock
  <2>5. CASE RealComputeFails(t)
    <3>1. pc[t] = "real" /\ UNCHANGED <<running, cpu, ext, real>>
      BY <2>5, Zenon DEF RealComputeFails
    <3>. QED
      BY <3>1, AtHand DEF Marked, SessionHasOneEngine, OneEngine, NoEngine, HoldsLock
  <2>. QED
    BY <2>1, <2>2, <2>3, <2>4, <2>5
<1>. QED
  BY <1>1, <1>2, <1>3, <1>4, InsideStep DEF HoldsLock, Places

\* stop_mining takes the lock of a running session ...
LEMMA BeginStopKeeps == ASSUME SessionInv, NEW t \in Threads, BeginStop(t) PROVE SessionInv'
<1>1. /\ lock = Free /\ lock' = t /\ Goto(t, "stopping") /\ ~running'
      /\ UNCHANGED <<gpuActive, ext, real, realObject>>
  BY Zenon DEF BeginStop, engines
<1>2. Marked'
  BY <1>1 DEF SessionInv, Marked
<1>. QED
  BY <1>1, <1>2, InsideStep DEF HoldsLock, Places

\* ... and leaves it with every engine off: what is on is marked.
LEMMA StopEnginesKeeps == ASSUME SessionInv, NEW t \in Threads, StopEngines(t) PROVE SessionInv'
<1>1. /\ pc[t] = "stopping" /\ lock' = Free /\ ~cpu' /\ running' = running
      /\ real' = (real /\ ~realObject) /\ ext' = (ext /\ ~gpuActive)
  BY Zenon DEF StopEngines
<1>2. PICK where \in {"restart", "idle"} : Goto(t, where)
  BY Zenon DEF StopEngines, AfterStop
<1>3. ~(real /\ ~realObject) /\ ~(ext /\ ~gpuActive)
  BY DEF SessionInv, Marked
<1>4. ~real' /\ ~ext'
  BY <1>1, <1>3, Zenon
<1>5. lock = t /\ ~running'
  BY <1>1, AtHand DEF HoldsLock
<1>6. Marked' /\ SessionHasOneEngine'
  BY <1>1, <1>4, <1>5 DEF Marked, SessionHasOneEngine, OneEngine
<1>. QED
  BY <1>1, <1>2, <1>5, <1>6, InsideStep DEF HoldsLock, Places

\* Moves outside the lock.
LEMMA CallKeeps ==
  ASSUME SessionInv, NEW t \in Threads,
         StartMining(t) \/ AlreadyMining(t) \/ StopMining(t) \/ NotMining(t) \/ SwitchCoin(t)
  PROVE  SessionInv'
<1>1. PICK where \in {"startWait", "idle", "restart", "stopWait"} : Goto(t, where)
  BY Zenon DEF StartMining, AlreadyMining, StopMining, NotMining, SwitchCoin,
     AfterStop, Return
<1>2. pc[t] \in {"idle", "built", "restart", "startWait", "stopWait"}
  BY DEF StartMining, AlreadyMining, StopMining, NotMining, SwitchCoin, Call
<1>3. UNCHANGED <<lock, running, gpuActive, engines>>
  BY Zenon DEF StartMining, AlreadyMining, StopMining, NotMining, SwitchCoin
<1>. QED
  BY <1>1, <1>2, <1>3, OutsideGoto DEF HoldsLock, Places

\* The constructor; _initialize from start_mining never gets the lock.
LEMMA BuildKeeps ==
  ASSUME SessionInv, Construct \/ \E t \in Threads : Initialize(t)
  PROVE  SessionInv'
<1>1. CASE Construct
  <2>1. PICK where \in {"initialize", "built"} : Goto(Boot, where)
    BY <1>1, Zenon DEF Construct
  <2>2. pc[Boot] = "construct" /\ UNCHANGED <<lock, running, gpuActive, engines>>
    BY <1>1, Zenon DEF Construct
  <2>. QED
    BY <2>1, <2>2, OutsideGoto DEF HoldsLock, Places, Threads
<1>2. ASSUME NEW t \in Threads, Initialize(t) PROVE SessionInv'
  <2>1. pc[t] \in {"initialize", "nested"} /\ lock = Free
    BY <1>2 DEF Initialize
  <2>2. pc[t] = "initialize"
    BY <2>1, PowMiningAssumption, AtHand DEF PowMiningAssumption, HoldsLock
  <2>3. Goto(t, "built") /\ UNCHANGED <<lock, running, gpuActive, engines>>
    BY <1>2, <2>2 DEF Initialize
  <2>. QED
    BY <2>2, <2>3, OutsideGoto DEF HoldsLock, Places
<1>. QED
  BY <1>1, <1>2

\* The switcher's own moves, and the requests that start and end it.
LEMMA SwitcherKeeps ==
  ASSUME SessionInv,
         SwitcherTop \/ SwitcherWakes
           \/ \E t \in Threads : EnableSwitching(t) \/ DisableSwitching(t)
  PROVE  SessionInv'
<1>1. UNCHANGED <<lock, running, gpuActive, engines>>
  BY Zenon DEF SwitcherTop, SwitcherWakes, EnableSwitching, DisableSwitching
<1>2. CASE SwitcherTop \/ SwitcherWakes
  <2>1. PICK where \in {"asleep", "none", "top", "ranking"} : Goto(Switcher, where)
    BY <1>2, Zenon DEF SwitcherTop, SwitcherWakes
  <2>2. pc[Switcher] \in {"top", "asleep"}
    BY <1>2 DEF SwitcherTop, SwitcherWakes
  <2>. QED
    BY <1>1, <2>1, <2>2, OutsideGoto DEF HoldsLock, Places, Threads
<1>3. ASSUME NEW t \in Threads, EnableSwitching(t) \/ DisableSwitching(t) PROVE SessionInv'
  <2>1. (pc[Switcher] = "none" /\ Goto(Switcher, "top")) \/ pc' = pc
    BY <1>3, Zenon DEF EnableSwitching, DisableSwitching
  <2>2. CASE pc' = pc
    BY <1>1, <2>2, OutsideStep DEF SessionInv, Shape
  <2>3. CASE pc[Switcher] = "none" /\ Goto(Switcher, "top")
    BY <1>1, <2>3, OutsideGoto DEF HoldsLock, Places, Threads
  <2>. QED
    BY <2>1, <2>2, <2>3
<1>. QED
  BY <1>2, <1>3

\* status takes the lock of a session in order, and leaves it so.
LEMMA StatusKeeps ==
  ASSUME SessionInv, NEW t \in Threads, Status(t) \/ GetMostProfitable(t)
  PROVE  SessionInv'
<1>1. UNCHANGED <<running, gpuActive, cpu, ext, real, realObject>>
  BY Zenon DEF Status, GetMostProfitable, engines
<1>2. Marked'
  BY <1>1 DEF SessionInv, Marked
<1>3. CASE Status(t)
  <2>1. lock = Free /\ lock' = t /\ Goto(t, "status")
    BY <1>3 DEF Status
  <2>2. OneEngine'
    BY <1>1, <2>1, AtHand DEF OneEngine
  <2>. QED
    BY <1>2, <2>1, <2>2, InsideStep DEF HoldsLock, Places
<1>4. CASE GetMostProfitable(t)
  <2>1. /\ pc[t] \in {"status", "ranking"}
        /\ lock' = IF lock = t THEN Free ELSE lock
    BY <1>4 DEF GetMostProfitable
  <2>2. PICK where \in {"top", "idle"} : Goto(t, where)
    BY <1>4, Zenon DEF GetMostProfitable
  <2>3. CASE pc[t] = "status"
    <3>1. lock = t /\ OneEngine
      BY <2>3, AtHand DEF HoldsLock
    <3>2. SessionHasOneEngine'
      BY <1>1, <3>1 DEF OneEngine, SessionHasOneEngine
    <3>. QED
      BY <1>2, <2>1, <2>2, <3>1, <3>2, InsideStep DEF HoldsLock, Places
  <2>4. CASE pc[t] = "ranking"
    <3>1. lock # t
      BY <2>4 DEF SessionInv, HolderInside, HoldsLock
    <3>. QED
      BY <1>1, <2>1, <2>2, <2>4, <3>1, OutsideGoto DEF HoldsLock, Places, engines
  <2>. QED
    BY <2>1, <2>3, <2>4
<1>. QED
  BY <1>3, <1>4

\* Steps that move no thread.
LEMMA IdleKeeps ==
  ASSUME SessionInv,
         AiLoopWakes \/ AiLoopEnds \/ ReceiveThread \/ UNCHANGED vars
  PROVE  SessionInv'
<1>1. pc' = pc /\ UNCHANGED <<lock, running, gpuActive, engines>>
  BY Zenon DEF AiLoopWakes, AiLoopEnds, ReceiveThread, vars
<1>. QED
  BY <1>1, OutsideStep DEF SessionInv, Shape

\* Every step keeps the invariant.
LEMMA SessionInvStep == ASSUME SessionInv, [Next]_vars PROVE SessionInv'
<1>1. ASSUME NEW t \in Threads, Inside(t) PROVE SessionInv'
  BY <1>1, BuildKeeps, CallKeeps, BeginStartKeeps, FallbackKeeps, StartEndsKeeps,
     BeginStopKeeps, StopEnginesKeeps, StatusKeeps DEF Inside
<1>. QED
  BY <1>1, BuildKeeps, CallKeeps, SwitcherKeeps, StatusKeeps, IdleKeeps DEF Next

\* Whenever nobody is inside a start or a stop, a running session has exactly
\* one engine on, and a stopped session has none, whatever the receive threads
\* of the pool's client do meanwhile.
THEOREM SessionSafe == Spec => []SessionHasOneEngine
<1>1. Init => SessionInv
  BY SessionInitInv
<1>2. SessionInv /\ [Next]_vars => SessionInv'
  BY SessionInvStep
<1>3. SessionInv => SessionHasOneEngine
  BY DEF SessionInv
<1>. QED
  BY <1>1, <1>2, <1>3, PTL DEF Spec
-----------------------------------------------------------------------------
(* The watch for new blocks.                                               *)

MonitorTypes ==
    /\ scan \in [ScanThreads -> ScanPlaces]
    /\ news \in BOOLEAN /\ monRunning \in BOOLEAN /\ pendingScan \in BOOLEAN

OnItsWay == \E t \in ScanThreads : scan[t] \in {"woken", "cleared"}

BwInv == MonitorTypes /\ BlockNotForgotten

-----------------------------------------------------------------------------
\* A thread that moves between places other than "woken" and "cleared" leaves
\* the threads on their way to a scan where they are.
LEMMA StepKeepsOthers ==
    ASSUME MonitorTypes, NEW t \in ScanThreads, NEW from \in ScanPlaces,
           NEW to \in ScanPlaces, Step(t, from, to),
           from \notin {"woken", "cleared"}
    PROVE  /\ scan' \in [ScanThreads -> ScanPlaces]
           /\ OnItsWay => OnItsWay'
BY DEF MonitorTypes, Step, OnItsWay

\* The one that clears the event, or is woken by it, is on its way to a scan.
LEMMA WakingIsOnItsWay ==
    ASSUME MonitorTypes, NEW t \in ScanThreads, NEW from \in ScanPlaces,
           NEW to \in {"woken", "cleared"}, Step(t, from, to)
    PROVE  scan' \in [ScanThreads -> ScanPlaces] /\ OnItsWay'
BY DEF MonitorTypes, Step, OnItsWay, ScanPlaces

\* The monitor starts with no scan thread and no event.
LEMMA BwInitInv == BwInit => BwInv
BY DEF BwInit, BwInv, MonitorTypes, BlockNotForgotten, ScanPlaces

-----------------------------------------------------------------------------
\* Every step of the poller, the monitor and the scan threads keeps BwInv.
LEMMA BwInvStep == BwInv /\ [BwNext]_bwVars => BwInv'
<1> SUFFICES ASSUME BwInv, [BwNext]_bwVars PROVE BwInv'
  OBVIOUS
<1> USE DEF BwInv
<1>0. BlockNotForgotten <=> (news => monRunning /\ (pendingScan \/ OnItsWay))
  BY DEF BlockNotForgotten, OnItsWay
<1>1. BlockNotForgotten' <=> (news' => monRunning' /\ (pendingScan' \/ OnItsWay'))
  BY DEF BlockNotForgotten, OnItsWay
<1>2. ASSUME UNCHANGED monitor PROVE BwInv'
  BY <1>2 DEF MonitorTypes, BlockNotForgotten, monitor
<1>3. CASE Notify
  <2>1. scan' = scan /\ monRunning' = monRunning /\ pendingScan' = TRUE
    BY <1>3 DEF Notify
  <2>2. news' = (news \/ monRunning)
    BY <1>3 DEF Notify
  <2>3. QED
    BY <2>1, <2>2, <1>0, <1>1 DEF MonitorTypes
<1>4. CASE StartMonitor
  <2>1. CASE monRunning
    BY <2>1, <1>4 DEF StartMonitor, MonitorTypes, BlockNotForgotten
  <2>2. CASE ~monRunning
    <3>1. ~news
      BY <2>2, <1>0
    <3>2. /\ monRunning' = TRUE
          /\ scan' = [scan EXCEPT ![starts] = "test"]
          /\ pendingScan' = pendingScan /\ news' = news
      BY <2>2, <1>4 DEF StartMonitor
    <3>3. QED
      BY <3>1, <3>2, <1>1 DEF MonitorTypes, ScanPlaces
  <2>3. QED
    BY <2>1, <2>2
<1>5. CASE StopMonitor
  BY <1>5, <1>1 DEF StopMonitor, MonitorTypes
<1>6. ASSUME NEW t \in ScanThreads, ScanStep(t) PROVE BwInv'
  <2>1. CASE ScanTest(t)
    <3>1. /\ Step(t, "test", IF monRunning THEN "wait" ELSE "ended")
          /\ UNCHANGED <<monRunning, pendingScan, news>>
      BY <2>1 DEF ScanTest
    <3>2. (IF monRunning THEN "wait" ELSE "ended") \in ScanPlaces /\ "test" \in ScanPlaces
      BY DEF ScanPlaces
    <3>3. QED
      BY <3>1, <3>2, <1>0, <1>1, StepKeepsOthers DEF MonitorTypes
  <2>2. CASE WakeByBlock(t)
    <3>1. Step(t, "wait", "woken") /\ UNCHANGED <<monRunning, pendingScan, news>>
      BY <2>2 DEF WakeByBlock
    <3>2. QED
      BY <3>1, <1>0, <1>1, WakingIsOnItsWay DEF MonitorTypes, ScanPlaces
  <2>3. CASE WakeByTimer(t)
    <3>1. Step(t, "wait", "woken") /\ UNCHANGED <<monRunning, pendingScan, news>>
      BY <2>3 DEF WakeByTimer
    <3>2. QED
      BY <3>1, <1>0, <1>1, WakingIsOnItsWay DEF MonitorTypes, ScanPlaces
  <2>4. CASE ClearEvent(t)
    <3>1. /\ Step(t, "woken", "cleared") /\ pendingScan' = FALSE
          /\ UNCHANGED <<monRunning, news>>
      BY <2>4 DEF ClearEvent
    <3>2. QED
      BY <3>1, <1>0, <1>1, WakingIsOnItsWay DEF MonitorTypes, ScanPlaces
  <2>5. CASE BeginScan(t)
    <3>1. /\ Step(t, "cleared", IF monRunning THEN "scan" ELSE "ended")
          /\ UNCHANGED <<monRunning, pendingScan>>
      BY <2>5 DEF BeginScan
    <3>2. news' = (news /\ ~monRunning)
      BY <2>5 DEF BeginScan
    <3>3. news' = FALSE
      BY <3>2, <1>0 DEF MonitorTypes
    <3>4. QED
      BY <3>1, <3>3, <1>1 DEF MonitorTypes, Step, ScanPlaces
  <2>6. CASE EndScan(t)
    <3>1. Step(t, "scan", "test") /\ UNCHANGED <<monRunning, pendingScan, news>>
      BY <2>6 DEF EndScan
    <3>2. QED
      BY <3>1, <1>0, <1>1, StepKeepsOthers DEF MonitorTypes, ScanPlaces
  <2>7. QED
    BY <1>6, <2>1, <2>2, <2>3, <2>4, <2>5, <2>6 DEF ScanStep
<1>7. CASE PollerTest \/ Notified \/ PollDone \/ RetryDone \/ StopChains
           \/ StartAgent \/ StopAgent
  BY <1>7, <1>2 DEF PollerTest, Notified, PollDone, RetryDone, StopChains,
                    StartAgent, StopAgent
<1>8. ASSUME NEW c \in Chains,
             \/ PollSame(c) \/ PollNew(c) \/ PollFails(c) \/ RetryFailed(c)
             \/ NewBlock(c) \/ \E e \in Endpoints : EndpointChanges(c, e)
      PROVE  BwInv'
  BY <1>8, <1>2 DEF PollSame, PollNew, PollFails, RetryFailed, NewBlock, EndpointChanges
<1>9. CASE UNCHANGED bwVars
  BY <1>9, <1>2 DEF bwVars
<1>10. QED
  BY <1>3, <1>4, <1>5, <1>6, <1>7, <1>8, <1>9 DEF BwNext, PollerStep, ControlStep

\* A block announced to the running monitor is never forgotten: until a scan
\* begins, the event is set or a scan thread is on its way (the event handling
\* of monitor.py 107-122, for every number of restarts).
THEOREM NoBlockForgotten == BwSpec => []BlockNotForgotten
<1>1. BwInv => BlockNotForgotten
  BY DEF BwInv
<1>2. QED
  BY BwInitInv, BwInvStep, <1>1, PTL DEF BwSpec
-----------------------------------------------------------------------------
(* The nonces of the wallet.                                               *)

\* DistinctUntilSync is not inductive: that two threads differ follows from
\* every held nonce being below the counter, which next() moves past each.
NmInv ==
  /\ NmTypeOK
  /\ ~synced => \A s \in Senders :
                  nmPc[s] = "holding" => nonces \in Nat /\ nmNonce[s] < nonces
  /\ DistinctUntilSync

\* What the node answers is a number.
LEMMA PendingIsNat == PendingCounts \subseteq Nat
  BY DEF PendingCounts

\* next() starts from a number.
LEMMA StartIsNat == NmTypeOK => StartValues \subseteq Nat
  BY PendingIsNat DEF NmTypeOK, StartValues

\* At the start nobody holds a nonce.
LEMMA NmInitInv == NmInit => NmInv
<1> SUFFICES ASSUME NmInit PROVE NmInv
  OBVIOUS
<1>1. NmTypeOK
  <2>1. synced \in BOOLEAN
    BY Zenon DEF NmInit
  <2>2. outside \in 0 .. MaxOutside
    BY NonceAssumption DEF NonceAssumption, NmInit
  <2>3. nmPc \in [Senders -> {"idle", "holding", "sent", "failed", "sync", "syncWrite"}]
    BY DEF NmInit
  <2> QED
    BY <2>1, <2>2, <2>3, NonceAssumption DEF NmInit, NmTypeOK
<1>2. \A s \in Senders : nmPc[s] = "idle"
  BY DEF NmInit
<1> QED
  BY <1>1, <1>2 DEF NmInv, DistinctUntilSync, Holding

\* Every step of a sender, of the chain and of a reset keeps NmInv.
LEMMA NmInvStep == NmInv /\ [NmNext]_nmVars => NmInv'
<1> SUFFICES ASSUME NmInv, [NmNext]_nmVars PROVE NmInv'
  OBVIOUS
<1> USE NonceAssumption DEF NonceAssumption
<1>1. ASSUME NEW s \in Senders, NextNonce(s) PROVE NmInv'
  <2>1. PICK n \in StartValues :
          /\ nmNonce' = [nmNonce EXCEPT ![s] = n]
          /\ nonces' = n + 1
    BY <1>1 DEF NextNonce
  <2>2. n \in Nat
    BY StartIsNat DEF NmInv
  <2>3. ~synced => \A t \in Senders : nmPc[t] = "holding" => n = nonces /\ nmNonce[t] < n
    BY <2>2 DEF NmInv, StartValues
  <2>4. NmTypeOK'
    BY <1>1, <2>1, <2>2 DEF NmInv, NmTypeOK, NextNonce
  <2> QED
    BY <1>1, <2>1, <2>2, <2>3, <2>4
    DEF NmInv, NmTypeOK, NextNonce, DistinctUntilSync, Holding
<1>2. ASSUME NEW s \in Senders, SendAccepted(s) PROVE NmInv'
  BY <1>2 DEF NmInv, NmTypeOK, SendAccepted, DistinctUntilSync, Holding
<1>3. ASSUME NEW s \in Senders, SendTooLow(s) PROVE NmInv'
  BY <1>3 DEF NmInv, NmTypeOK, SendTooLow, DistinctUntilSync, Holding
<1>4. ASSUME NEW s \in Senders, SendFailed(s) PROVE NmInv'
  BY <1>4 DEF NmInv, NmTypeOK, SendFailed, DistinctUntilSync, Holding
<1>5. ASSUME NEW s \in Senders, SyncRead(s) PROVE NmInv'
  BY <1>5, PendingIsNat DEF NmInv, NmTypeOK, SyncRead, DistinctUntilSync, Holding
<1>6. ASSUME NEW s \in Senders, SyncWrite(s) PROVE NmInv'
  BY <1>6 DEF NmInv, NmTypeOK, SyncWrite, DistinctUntilSync, Holding
<1>7. ASSUME Outside PROVE NmInv'
  BY <1>7, PendingIsNat DEF NmInv, NmTypeOK, Outside, DistinctUntilSync, Holding
<1>8. ASSUME UNCHANGED nmVars PROVE NmInv'
  BY <1>8 DEF NmInv, NmTypeOK, nmVars, DistinctUntilSync, Holding
<1> QED
  BY <1>1, <1>2, <1>3, <1>4, <1>5, <1>6, <1>7, <1>8 DEF NmNext

\* Whatever the number of threads: until a sync overwrites the counter no two
\* threads hold the same nonce.
THEOREM NoncesDistinct == NmSpec => []DistinctUntilSync
<1>1. NmInv => DistinctUntilSync
  BY DEF NmInv
<1> QED
  BY NmInitInv, NmInvStep, <1>1, PTL DEF NmSpec

\* The manager's state keeps its type, for every value of the constants.
THEOREM NonceTypes == NmSpec => []NmTypeOK
<1>1. NmInv => NmTypeOK
  BY DEF NmInv
<1> QED
  BY NmInitInv, NmInvStep, <1>1, PTL DEF NmSpec
-----------------------------------------------------------------------------
(* A trade on its way to its record.                                       *)

TfSpec == TfInit /\ [][TfNext]_tfVars

\* What a step leaves alone that neither settles a trade nor mines a leg.
BooksUntouched == UNCHANGED <<tfOnChain, tfSuccess, tfNotMined, tfUnsure>>

\* Picking, deferring, queueing and the walk over the queue record nothing.
LEMMA QueueingRecordsNothing ==
    ASSUME NEW t \in TfThreads,
           TfEnds(t) \/ TfPick(t) \/ TfSkip(t) \/ TfDefer(t) \/ TfExecute(t) \/ TfDispatchNext(t)
    PROVE  BooksUntouched
<1>1. CASE TfEnds(t)    BY <1>1 DEF TfEnds, BooksUntouched, tfOutcome
<1>2. CASE TfPick(t)    BY <1>2 DEF TfPick, BooksUntouched, tfOutcome
<1>3. CASE TfSkip(t)    BY <1>3 DEF TfSkip, BooksUntouched, tfOutcome
<1>4. CASE TfDefer(t)   BY <1>4 DEF TfDefer, BooksUntouched, tfOutcome
<1>5. CASE TfExecute(t) BY <1>5 DEF TfExecute, BooksUntouched, tfOutcome
<1>6. CASE TfDispatchNext(t)
    <2>1. CASE TfSnapshot(t) BY <2>1 DEF TfSnapshot, BooksUntouched, tfOutcome
    <2>2. CASE TfRebuild(t)  BY <2>2 DEF TfRebuild, BooksUntouched, tfOutcome
    <2>3. ASSUME NEW k \in TfTrades, TfExpire(t, k) \/ TfKeep(t, k) \/ TfSubmit(t, k)
          PROVE  TfLookedAt(t, k)
        BY <2>3 DEF TfExpire, TfKeep, TfSubmit
    <2>4. ASSUME NEW k \in TfTrades, TfLookedAt(t, k)
          PROVE  BooksUntouched
        BY <2>4 DEF TfLookedAt, BooksUntouched, tfOutcome
    <2> QED BY <1>6, <2>1, <2>2, <2>3, <2>4 DEF TfDispatchNext
<1> QED BY <1>1, <1>2, <1>3, <1>4, <1>5, <1>6

\* A step of TransactionExecutor keeps record and chain in agreement.
LEMMA ExecutorKeepsRecord ==
    ASSUME TradeSuccessIsMined, NEW t \in TfThreads, TfExecutorNext(t)
    PROVE  TradeSuccessIsMined'
<1>1. CASE TfRefuse(t)   BY <1>1 DEF TfRefuse, TradeSuccessIsMined
<1>2. CASE TfSimulate(t) BY <1>2 DEF TfSimulate, TradeSuccessIsMined
<1>3. CASE TfBuild(t)    BY <1>3 DEF TfBuild, TradeSuccessIsMined, tfOutcome
<1>4. CASE TfSend(t)     BY <1>4 DEF TfSend, TradeSuccessIsMined, tfOutcome
<1>5. CASE TfRaises(t)   BY <1>5 DEF TfRaises, TradeSuccessIsMined
<1>6. CASE TfReverted(t) BY <1>6 DEF TfReverted, TradeSuccessIsMined
<1>7. CASE TfNextLeg(t)  BY <1>7 DEF TfNextLeg, TradeSuccessIsMined, tfOutcome
<1>8. CASE TfLastLeg(t)
    <2>1. PICK ok \in BOOLEAN :
             /\ tfOnChain' = IF ok THEN tfOnChain \union {tfOpp[t]} ELSE tfOnChain
             /\ tfSuccess' = IF ok THEN tfSuccess \union {tfOpp[t]} ELSE tfSuccess
        BY <1>8 DEF TfLastLeg
    <2>2. UNCHANGED <<tfNotMined, tfUnsure>>
        BY <1>8 DEF TfLastLeg
    <2>3. CASE ok  BY <2>1, <2>2, <2>3 DEF TradeSuccessIsMined
    <2>4. CASE ~ok BY <2>1, <2>2, <2>4 DEF TradeSuccessIsMined
    <2> QED BY <2>3, <2>4
<1>9. CASE TfTimeout(t)  BY <1>9 DEF TfTimeout, TradeSuccessIsMined
<1> QED BY <1>1, <1>2, <1>3, <1>4, <1>5, <1>6, <1>7, <1>8, <1>9 DEF TfExecutorNext

\* What is recorded as a success, and queued for payout, was mined with
\* success but for dry runs and bundles; what was mined is recorded, unless
\* the last leg's send raised or its thread gave up waiting for the receipt.
THEOREM SuccessMined == TfSpec => []TradeSuccessIsMined
<1>1. TfInit => TradeSuccessIsMined
    BY DEF TfInit, TradeSuccessIsMined
<1>2. TradeSuccessIsMined /\ [TfNext]_tfVars => TradeSuccessIsMined'
    <2> SUFFICES ASSUME TradeSuccessIsMined, [TfNext]_tfVars
                 PROVE  TradeSuccessIsMined'
        OBVIOUS
    <2>1. BooksUntouched => TradeSuccessIsMined'
        BY DEF BooksUntouched, TradeSuccessIsMined
    <2>2. CASE TfStart BY <2>1, <2>2 DEF TfStart, BooksUntouched, tfOutcome
    <2>3. CASE TfStop  BY <2>1, <2>3 DEF TfStop, BooksUntouched, tfOutcome
    <2>4. ASSUME NEW o \in TfOpps, TfScan(o)
          PROVE  TradeSuccessIsMined'
        BY <2>1, <2>4 DEF TfScan, BooksUntouched, tfOutcome
    <2>5. ASSUME NEW o \in TfOpps, TfMinedLate(o)
          PROVE  TradeSuccessIsMined'
        BY <2>5 DEF TfMinedLate, TradeSuccessIsMined
    <2>6. ASSUME NEW k \in TfTrades, TfAge(k)
          PROVE  TradeSuccessIsMined'
        BY <2>1, <2>6 DEF TfAge, BooksUntouched, tfOutcome
    <2>7. ASSUME NEW t \in TfThreads,
                 \/ TfEnds(t) \/ TfPick(t) \/ TfSkip(t) \/ TfDefer(t) \/ TfExecute(t)
                 \/ TfDispatchNext(t)
          PROVE  TradeSuccessIsMined'
        BY <2>1, <2>7, QueueingRecordsNothing
    <2>8. ASSUME NEW t \in TfThreads, TfExecutorNext(t)
          PROVE  TradeSuccessIsMined'
        BY <2>8, ExecutorKeepsRecord
    <2>9. CASE UNCHANGED tfVars
        BY <2>1, <2>9 DEF tfVars, BooksUntouched, tfOutcome
    <2> QED BY <2>2, <2>3, <2>4, <2>5, <2>6, <2>7, <2>8, <2>9 DEF TfNext
<1> QED BY <1>1, <1>2, PTL DEF TfSpec

-----------------------------------------------------------------------------
(* The types of the whole agent: the session, the watch, the nonces and the *)
(* trades, each of which its own steps keep.                               *)

\* The types of the client's link: of its receive threads, at whatever place,
\* there are never more than the bound.
LinkTypes ==
    /\ connected \in BOOLEAN /\ alive \in BOOLEAN
    /\ receivers \in [{"reading", "waiting", "dialling", "joining"} -> Nat]
    /\ Receivers <= MaxReceivers

\* The steps on the link keep them.
LEMMA LinkTypesStep ==
    ASSUME LinkTypes,
           \/ UNCHANGED link
           \/ Online(receivers)
           \/ connected' = FALSE /\ alive' \in {alive, FALSE} /\ UNCHANGED receivers
           \/ ReceiveThread
    PROVE  LinkTypes'
<1> DEFINE Spots == {"reading", "waiting", "dialling", "joining"}
           Total(f) == f["reading"] + f["waiting"] + f["dialling"] + f["joining"]
<1>1. /\ receivers \in [Spots -> Nat] /\ Total(receivers) <= MaxReceivers /\ MaxReceivers \in Nat
      /\ connected \in BOOLEAN /\ alive \in BOOLEAN
    BY PowMiningAssumption DEF LinkTypes, Receivers, PowMiningAssumption
<1>2. ASSUME NEW from \in Spots, NEW to \in Spots, receivers[from] > 0, from # to
      PROVE  Moved(from, to) \in [Spots -> Nat] /\ Total(Moved(from, to)) = Total(receivers)
    BY <1>1, <1>2 DEF Moved
<1>3. ASSUME NEW f \in [Spots -> Nat], Total(f) = Total(receivers), Online(f)
      PROVE  LinkTypes'
    BY <1>1, <1>3 DEF Online, LinkTypes, Receivers
<1>4. ASSUME connected' \in BOOLEAN, alive' \in BOOLEAN, receivers' \in [Spots -> Nat],
             Total(receivers') <= Total(receivers)
      PROVE  LinkTypes'
    BY <1>1, <1>4 DEF LinkTypes, Receivers
<1>5. CASE UNCHANGED link
    BY <1>1, <1>4, <1>5 DEF link
<1>6. CASE Online(receivers)
    BY <1>1, <1>3, <1>6
<1>7. CASE connected' = FALSE /\ alive' \in {alive, FALSE} /\ UNCHANGED receivers
    <2>1. alive' = alive \/ alive' = FALSE
        BY <1>7
    <2>2. connected' \in BOOLEAN /\ alive' \in BOOLEAN
        BY <1>1, <1>7, <2>1, Zenon
    <2> QED BY <1>1, <1>4, <1>7, <2>2
<1>8. CASE ConnectionLost \/ ReceiverEnds
    <2>1. /\ receivers["reading"] > 0 /\ connected' \in BOOLEAN /\ alive' = alive
          /\ \/ receivers' = Moved("reading", "waiting")
             \/ receivers' = [receivers EXCEPT !["reading"] = @ - 1]
        BY <1>1, <1>8 DEF ConnectionLost, ReceiverEnds
    <2> QED BY <1>1, <1>2, <1>4, <2>1
<1>9. CASE Reconnect \/ PoolSilent \/ Rejoined
    <2>1. connected' \in BOOLEAN /\ alive' \in BOOLEAN
        BY <1>1, <1>9 DEF Reconnect, PoolSilent, Rejoined
    <2>2. \/ receivers["waiting"] > 0 /\ receivers' = Moved("waiting", "dialling")
          \/ receivers["dialling"] > 0 /\ receivers' = Moved("dialling", "reading")
          \/ receivers["joining"] > 0 /\ receivers' = Moved("joining", "reading")
        BY <1>9 DEF Reconnect, PoolSilent, Rejoined
    <2> QED BY <1>1, <1>2, <1>4, <2>1, <2>2
<1>10. CASE PoolAnswers
    BY <1>1, <1>2, <1>3, <1>10 DEF PoolAnswers
<1> QED BY <1>5, <1>6, <1>7, <1>8, <1>9, <1>10 DEF ReceiveThread

\* The types of the session, of which one more is part of the invariant: it is
\* at most one AI loop that lives.
LEMMA SessionTypesStep ==
    ASSUME SessionInv, TypeOK, [Next]_vars
    PROVE  TypeOK'
<1>0. TypeOK /\ MaxCalls \in Nat /\ Boot \in Threads /\ Switcher \in Threads
    BY PowMiningAssumption DEF Threads
<1>1. pc' \in [Threads -> Places]
    BY SessionInvStep DEF SessionInv, Shape
<1>2. lock' \in Threads \union {Free} /\ switching' \subseteq Threads /\ profitLock' \in {Switcher, Free}
    <2>1. lock' = lock \/ lock' = Free \/ lock' \in Threads
        BY Zenon DEF Next, Inside, vars, Construct, Initialize, StartMining, AlreadyMining, BeginStart, Started,
           StartGpuMining, GpuFallsBack, Connect, StartCpuMining, HandshakeFails, StartSimulatedMining,
           StartRealCompute, RealComputeFails, StopMining, NotMining, BeginStop, StopEngines, Status,
           GetMostProfitable, SwitchCoin, EnableSwitching, DisableSwitching, SwitcherTop, SwitcherWakes,
           AiLoopWakes, AiLoopEnds, ReceiveThread
    <2>2. switching' = switching \/ \E t \in Threads : switching' \in {switching \ {t}, switching \union {t}}
        BY Zenon DEF Next, Inside, vars, Construct, Initialize, StartMining, AlreadyMining, BeginStart, Started, Return,
           StartGpuMining, GpuFallsBack, Connect, StartCpuMining, HandshakeFails, StartSimulatedMining,
           StartRealCompute, RealComputeFails, StopMining, NotMining, BeginStop, StopEngines, Status,
           GetMostProfitable, SwitchCoin, EnableSwitching, DisableSwitching, SwitcherTop, SwitcherWakes,
           AiLoopWakes, AiLoopEnds, ReceiveThread
    <2>3. profitLock' = profitLock \/ profitLock' = Switcher
        BY Zenon DEF Next, Inside, vars, switch, Construct, Initialize, StartMining, AlreadyMining, BeginStart, Started,
           StartGpuMining, GpuFallsBack, Connect, StartCpuMining, HandshakeFails, StartSimulatedMining,
           StartRealCompute, RealComputeFails, StopMining, NotMining, BeginStop, StopEngines, Status,
           GetMostProfitable, SwitchCoin, EnableSwitching, DisableSwitching, SwitcherTop, SwitcherWakes,
           AiLoopWakes, AiLoopEnds, ReceiveThread
    <2> QED BY <1>0, <2>1, <2>2, <2>3 DEF TypeOK
<1>3. /\ configured' \in BOOLEAN
      /\ dryRun' \in BOOLEAN /\ hasGpu' \in BOOLEAN /\ realCompute' \in BOOLEAN
    <2>1. /\ configured' = configured \/ configured' = TRUE
          /\ dryRun' = dryRun /\ hasGpu' = hasGpu /\ realCompute' = realCompute
        BY DEF Next, Inside, vars, fixed, IsConfigured, Construct, Initialize, StartMining, AlreadyMining,
           BeginStart, Started, StartGpuMining, GpuFallsBack, Connect, StartCpuMining, HandshakeFails,
           StartSimulatedMining, StartRealCompute, RealComputeFails, StopMining, NotMining, BeginStop,
           StopEngines, Status, GetMostProfitable, SwitchCoin, EnableSwitching, DisableSwitching,
           SwitcherTop, SwitcherWakes, AiLoopWakes, AiLoopEnds, ReceiveThread
    <2> QED BY <1>0, <2>1, Zenon DEF TypeOK
<1>4. running' \in BOOLEAN /\ gpuActive' \in BOOLEAN
    <2>1. /\ running' = running \/ running' = TRUE \/ running' = FALSE
          /\ gpuActive' = gpuActive \/ gpuActive' = TRUE \/ gpuActive' = FALSE
        BY DEF Next, Inside, vars, Construct, Initialize, StartMining, AlreadyMining, BeginStart,
           Started, StartGpuMining, GpuFallsBack, Connect, StartCpuMining, HandshakeFails,
           StartSimulatedMining, StartRealCompute, RealComputeFails, StopMining, NotMining, BeginStop,
           StopEngines, Status, GetMostProfitable, SwitchCoin, EnableSwitching, DisableSwitching,
           SwitcherTop, SwitcherWakes, AiLoopWakes, AiLoopEnds, ReceiveThread
    <2> QED BY <1>0, <2>1, Zenon DEF TypeOK
<1>5. stratum' \in {"none", "pool", "sim"} /\ minerClient' \in {"none", "pool", "sim"}
    <2>1. /\ stratum' = stratum \/ stratum' \in {"pool", "sim"}
          /\ minerClient' = minerClient \/ minerClient' \in {"pool", "sim"}
        BY DEF Next, Inside, vars, client, Construct, Initialize, StartMining, AlreadyMining, BeginStart,
           Started, StartGpuMining, GpuFallsBack, Connect, StartCpuMining, HandshakeFails,
           StartSimulatedMining, StartRealCompute, RealComputeFails, StopMining, NotMining, BeginStop,
           StopEngines, Status, GetMostProfitable, SwitchCoin, EnableSwitching, DisableSwitching,
           SwitcherTop, SwitcherWakes, AiLoopWakes, AiLoopEnds, ReceiveThread
    <2> QED BY <1>0, <2>1 DEF TypeOK
<1>6. cpu' \in BOOLEAN /\ ext' \in BOOLEAN /\ real' \in BOOLEAN /\ realObject' \in BOOLEAN
    <2>1. /\ cpu' = cpu \/ cpu' = TRUE \/ cpu' = FALSE
          /\ ext' = ext \/ ext' = TRUE \/ ext' = (ext /\ ~gpuActive)
        BY Zenon DEF Next, Inside, vars, engines, Construct, Initialize, StartMining, AlreadyMining, BeginStart,
           Started, StartGpuMining, GpuFallsBack, Connect, StartCpuMining, HandshakeFails,
           StartSimulatedMining, StartRealCompute, RealComputeFails, StopMining, NotMining, BeginStop,
           StopEngines, Status, GetMostProfitable, SwitchCoin, EnableSwitching, DisableSwitching,
           SwitcherTop, SwitcherWakes, AiLoopWakes, AiLoopEnds, ReceiveThread
    <2>2. /\ real' = real \/ real' = TRUE \/ real' = (real /\ ~realObject)
          /\ realObject' = realObject \/ realObject' = TRUE \/ realObject' = FALSE
        BY Zenon DEF Next, Inside, vars, engines, Construct, Initialize, StartMining, AlreadyMining, BeginStart,
           Started, StartGpuMining, GpuFallsBack, Connect, StartCpuMining, HandshakeFails,
           StartSimulatedMining, StartRealCompute, RealComputeFails, StopMining, NotMining, BeginStop,
           StopEngines, Status, GetMostProfitable, SwitchCoin, EnableSwitching, DisableSwitching,
           SwitcherTop, SwitcherWakes, AiLoopWakes, AiLoopEnds, ReceiveThread
    <2> QED BY <1>0, <2>1, <2>2, Zenon DEF TypeOK
<1>7. aiAsleep' \in 0 .. 1 /\ aiEnding' \in 0 .. 1 /\ aiAsleep' + aiEnding' <= 1
    <2>1. \/ aiAsleep' = aiAsleep /\ aiEnding' = aiEnding
          \/ StartAiLoop \/ AiLoopWakes \/ AiLoopEnds
        BY DEF Next, Inside, vars, loops, Construct, Initialize, StartMining, AlreadyMining, BeginStart,
           Started, StartGpuMining, GpuFallsBack, Connect, StartCpuMining, HandshakeFails,
           StartSimulatedMining, StartRealCompute, RealComputeFails, StopMining, NotMining, BeginStop,
           StopEngines, Status, GetMostProfitable, SwitchCoin, EnableSwitching, DisableSwitching,
           SwitcherTop, SwitcherWakes, ReceiveThread
    <2> QED BY <1>0, <2>1 DEF TypeOK, StartAiLoop, AiLoopWakes, AiLoopEnds
<1>8. switchOn' \in BOOLEAN /\ calls' \in 0 .. MaxCalls
    <2>1. /\ switchOn' = switchOn \/ switchOn' = TRUE \/ switchOn' = FALSE
          /\ calls' = calls \/ (calls < MaxCalls /\ calls' = calls + 1)
        BY DEF Next, Inside, vars, switch, Call, Construct, Initialize, StartMining, AlreadyMining, BeginStart,
           Started, StartGpuMining, GpuFallsBack, Connect, StartCpuMining, HandshakeFails,
           StartSimulatedMining, StartRealCompute, RealComputeFails, StopMining, NotMining, BeginStop,
           StopEngines, Status, GetMostProfitable, SwitchCoin, EnableSwitching, DisableSwitching,
           SwitcherTop, SwitcherWakes, AiLoopWakes, AiLoopEnds, ReceiveThread
    <2>2. switchOn' \in BOOLEAN
        BY <1>0, <2>1, Zenon DEF TypeOK
    <2>3. calls' \in 0 .. MaxCalls
        BY <1>0, <2>1 DEF TypeOK
    <2> QED BY <2>2, <2>3
<1>9. LinkTypes'
    <2> DEFINE LinkStep == \/ UNCHANGED link
                           \/ Online(receivers)
                           \/ connected' = FALSE /\ alive' \in {alive, FALSE} /\ UNCHANGED receivers
                           \/ ReceiveThread
    <2>1. LinkStep
        <3>1. ASSUME NEW t \in Threads, Connect(t) PROVE LinkStep
            BY <3>1 DEF Connect, link
        <3>2. ASSUME NEW t \in Threads, HandshakeFails(t) PROVE LinkStep
            BY <3>2 DEF HandshakeFails, Offline
        <3>3. ASSUME NEW t \in Threads, StopEngines(t) PROVE LinkStep
            BY <3>3 DEF StopEngines, Offline
        <3>4. \/ UNCHANGED link \/ ReceiveThread
              \/ \E t \in Threads : Connect(t) \/ HandshakeFails(t) \/ StopEngines(t)
            BY Zenon DEF Next, Inside, vars, client, link, Construct, Initialize, StartMining, AlreadyMining,
               BeginStart, Started, StartGpuMining, GpuFallsBack, StartCpuMining,
               StartSimulatedMining, StartRealCompute, RealComputeFails, StopMining, NotMining, BeginStop,
               Status, GetMostProfitable, SwitchCoin, EnableSwitching, DisableSwitching,
               SwitcherTop, SwitcherWakes, AiLoopWakes, AiLoopEnds
        <3> QED BY <3>1, <3>2, <3>3, <3>4, Zenon
    <2> QED BY <1>0, <2>1, LinkTypesStep DEF TypeOK, LinkTypes
<1> QED BY <1>1, <1>2, <1>3, <1>4, <1>5, <1>6, <1>7, <1>8, <1>9 DEF TypeOK, LinkTypes

\* They begin so.
LEMMA SessionTypesBegin == Init => TypeOK
<1> SUFFICES ASSUME Init PROVE TypeOK
    OBVIOUS
<1>1. configured \in BOOLEAN /\ running \in BOOLEAN /\ gpuActive \in BOOLEAN
      /\ connected \in BOOLEAN /\ alive \in BOOLEAN /\ cpu \in BOOLEAN /\ ext \in BOOLEAN
      /\ real \in BOOLEAN /\ realObject \in BOOLEAN
      /\ switchOn \in BOOLEAN
    BY PowMiningAssumption, Zenon DEF Init
<1>2. pc \in [Threads -> Places]
    BY SessionInitInv DEF SessionInv, Shape
<1>3. receivers \in [{"reading", "waiting", "dialling", "joining"} -> Nat] /\ Receivers <= MaxReceivers
    BY PowMiningAssumption DEF Init, Receivers, PowMiningAssumption
<1> QED BY <1>1, <1>2, <1>3, PowMiningAssumption DEF Init, TypeOK

(* The session, step by step, is what Session promises.                    *)

\* What is on, before a step and after it.
LEMMA OnIs ==
    /\ NoEngine <=> EnginesOn = {}
    /\ NoEngine' <=> EnginesOn' = {}
    /\ cpu' /\ ~ext' /\ ~real' => EnginesOn' = {"cpu"}
    /\ ext' /\ ~cpu' /\ ~real' => EnginesOn' = {"ext"}
    /\ real' /\ ~cpu' /\ ~ext' => EnginesOn' = {"real"}
    /\ UNCHANGED <<cpu, ext, real>> => UNCHANGED EnginesOn
<1>1. NoEngine <=> EnginesOn = {}
    BY DEF EnginesOn, NoEngine
<1>2. NoEngine' <=> EnginesOn' = {}
    BY DEF EnginesOn, NoEngine
<1>3. cpu' /\ ~ext' /\ ~real' => EnginesOn' = {"cpu"}
    BY DEF EnginesOn
<1>4. ext' /\ ~cpu' /\ ~real' => EnginesOn' = {"ext"}
    BY DEF EnginesOn
<1>5. real' /\ ~cpu' /\ ~ext' => EnginesOn' = {"real"}
    BY DEF EnginesOn
<1>6. UNCHANGED <<cpu, ext, real>> => UNCHANGED EnginesOn
    BY DEF EnginesOn
<1> QED BY <1>1, <1>2, <1>3, <1>4, <1>5, <1>6

\* One engine is on, or none: that is order.
LEMMA OrderIs == ASSUME OneEngine PROVE Sessions!InOrder
<1>1. cpu /\ ~ext /\ ~real => EnginesOn = {"cpu"}
    BY Zenon DEF EnginesOn
<1>2. ext /\ ~cpu /\ ~real => EnginesOn = {"ext"}
    BY Zenon DEF EnginesOn
<1>3. real /\ ~cpu /\ ~ext => EnginesOn = {"real"}
    BY Zenon DEF EnginesOn
<1>4. ~cpu /\ ~ext /\ ~real => EnginesOn = {}
    BY Zenon DEF EnginesOn
<1>5. CASE running
    <2>1. \/ cpu /\ ~ext /\ ~real
          \/ ext /\ ~cpu /\ ~real
          \/ real /\ ~cpu /\ ~ext
        BY <1>5 DEF OneEngine
    <2>2. \E e \in {"cpu", "ext", "real"} : EnginesOn = {e}
        BY <1>1, <1>2, <1>3, <2>1
    <2> QED BY <1>5, <2>2 DEF Sessions!InOrder
<1>6. CASE ~running
    BY <1>4, <1>6 DEF OneEngine, Sessions!InOrder
<1> QED BY <1>5, <1>6

\* A step that moves neither lock nor flags nor engines is not seen.
LEMMA SessionUnseen ==
    ASSUME UNCHANGED <<lock, running, cpu, ext, real>>
    PROVE  UNCHANGED Sessions!session
BY OnIs DEF Sessions!session

\* The lock is taken, to start, to look or to stop.
LEMMA TakeRefines ==
    ASSUME NEW t \in Threads, BeginStart(t) \/ BeginStop(t) \/ Status(t)
    PROVE  Sessions!Take(t)
<1>1. lock = Free /\ lock' = t /\ UNCHANGED <<cpu, ext, real>>
    BY Zenon DEF BeginStart, BeginStop, Status, engines
<1>2. running' = running \/ running' = FALSE
    BY Zenon DEF BeginStart, BeginStop, Status
<1> QED BY <1>1, <1>2, OnIs DEF Sessions!Take

\* A start ends with the engine that comes; one that fails leaves nothing on.
LEMMA ComeRefines ==
    ASSUME SessionInv, NEW t \in Threads,
           \/ StartGpuMining(t) \/ StartCpuMining(t) \/ StartSimulatedMining(t)
           \/ StartRealCompute(t) \/ RealComputeFails(t)
    PROVE  Sessions!Go(t) \/ \E e \in {"cpu", "ext", "real"} : Sessions!Come(t, e)
<1>1. lock' = Free /\ pc[t] \in HoldsLock \ {"status", "stopping"}
    BY DEF StartGpuMining, StartCpuMining, StartSimulatedMining, StartRealCompute, RealComputeFails,
           Started, HoldsLock
<1>2. lock = t /\ ~running /\ NoEngine /\ EnginesOn = {}
    BY <1>1, AtHand, OnIs
<1>3. CASE StartCpuMining(t) \/ StartSimulatedMining(t)
    <2>1. cpu' /\ running' = TRUE /\ UNCHANGED <<ext, real>>
        BY <1>3, Zenon DEF StartCpuMining, StartSimulatedMining, Started
    <2>2. EnginesOn' = {"cpu"}
        BY <1>2, <2>1, OnIs DEF NoEngine
    <2> QED BY <1>1, <1>2, <2>1, <2>2 DEF Sessions!Come
<1>4. CASE StartGpuMining(t)
    <2>1. pc[t] = "gpu" /\ ext' /\ running' = TRUE /\ UNCHANGED <<cpu, real>>
        BY <1>4, Zenon DEF StartGpuMining, Started
    <2>2. EnginesOn' = {"ext"}
        BY <1>2, <2>1, OnIs DEF NoEngine
    <2> QED BY <1>1, <1>2, <2>1, <2>2 DEF Sessions!Come
<1>5. CASE StartRealCompute(t)
    <2>1. pc[t] = "real" /\ real' /\ running' = TRUE /\ UNCHANGED <<cpu, ext>>
        BY <1>5, Zenon DEF StartRealCompute, Started
    <2>2. EnginesOn' = {"real"}
        BY <1>2, <2>1, OnIs DEF NoEngine
    <2> QED BY <1>1, <1>2, <2>1, <2>2 DEF Sessions!Come
<1>6. CASE RealComputeFails(t)
    <2>1. UNCHANGED <<running, cpu, ext, real>>
        BY <1>6, Zenon DEF RealComputeFails
    <2>2. EnginesOn' = {}
        BY <1>2, <2>1, OnIs
    <2> QED BY <1>1, <1>2, <2>1, <2>2 DEF Sessions!Go
<1> QED BY <1>3, <1>4, <1>5, <1>6

\* A stop ends with nothing on: what is on is marked.
LEMMA GoRefines ==
    ASSUME SessionInv, NEW t \in Threads, StopEngines(t)
    PROVE  Sessions!Go(t)
<1>1. /\ pc[t] = "stopping" /\ lock' = Free /\ ~cpu' /\ running' = running
      /\ real' = (real /\ ~realObject) /\ ext' = (ext /\ ~gpuActive)
    BY Zenon DEF StopEngines
<1>2. ~(real /\ ~realObject) /\ ~(ext /\ ~gpuActive)
    BY DEF SessionInv, Marked
<1>3. ~real' /\ ~ext'
    BY <1>1, <1>2, Zenon
<1>4. EnginesOn' = {}
    BY <1>1, <1>3, OnIs DEF NoEngine
<1>5. lock = t /\ ~running
    BY <1>1, AtHand DEF HoldsLock
<1> QED BY <1>1, <1>4, <1>5 DEF Sessions!Go

\* status leaves the session as it finds it; the switcher's question does not
\* touch it.
LEMMA LookRefines ==
    ASSUME SessionInv, NEW t \in Threads, GetMostProfitable(t)
    PROVE  Sessions!Leave(t) \/ UNCHANGED Sessions!session
<1>1. /\ pc[t] \in {"status", "ranking"} /\ lock' = (IF lock = t THEN Free ELSE lock)
      /\ UNCHANGED <<running, cpu, ext, real>>
    BY Zenon DEF GetMostProfitable, engines
<1>2. CASE pc[t] = "status"
    <2>1. lock = t /\ OneEngine
        BY <1>2, AtHand DEF HoldsLock
    <2> QED BY <1>1, <2>1, OrderIs, OnIs DEF Sessions!Leave
<1>3. CASE pc[t] = "ranking"
    <2>1. lock # t
        BY <1>3 DEF SessionInv, HolderInside, HoldsLock
    <2> QED BY <1>1, <2>1, SessionUnseen
<1> QED BY <1>1, <1>2, <1>3

\* Calls that wait, return or only ask; the connections of a start, which come
\* before its engine; the switcher; the loops; the receive threads.
LEMMA OtherUnseen ==
    ASSUME \/ Construct \/ SwitcherTop \/ SwitcherWakes \/ AiLoopWakes \/ AiLoopEnds
           \/ ReceiveThread \/ UNCHANGED vars
           \/ \E t \in Threads :
                \/ Initialize(t) \/ GpuFallsBack(t) \/ Connect(t) \/ HandshakeFails(t)
                \/ StartMining(t) \/ AlreadyMining(t) \/ StopMining(t) \/ NotMining(t) \/ SwitchCoin(t)
                \/ EnableSwitching(t) \/ DisableSwitching(t)
    PROVE  UNCHANGED Sessions!session
<1>1. UNCHANGED <<lock, running, cpu, ext, real>>
    BY Zenon DEF Construct, SwitcherTop, SwitcherWakes, AiLoopWakes, AiLoopEnds, ReceiveThread, vars,
       Initialize, GpuFallsBack, Connect, HandshakeFails, StartMining, AlreadyMining, StopMining, NotMining, SwitchCoin,
       EnableSwitching, DisableSwitching, engines
<1> QED BY <1>1, SessionUnseen

\* Every step of the strategy is one of a session, or none.
LEMMA SessionStep ==
    ASSUME SessionInv, [Next]_vars
    PROVE  [Sessions!SessionNext]_Sessions!session
<1>1. ASSUME NEW t \in Threads, Inside(t)
      PROVE  Sessions!SessionNext \/ UNCHANGED Sessions!session
    <2>1. CASE \/ StartGpuMining(t) \/ StartCpuMining(t) \/ StartSimulatedMining(t)
               \/ StartRealCompute(t) \/ RealComputeFails(t)
        BY <2>1, ComeRefines DEF Sessions!SessionNext
    <2>2. CASE BeginStart(t) \/ BeginStop(t)
        BY <2>2, TakeRefines DEF Sessions!SessionNext
    <2>3. CASE StopEngines(t)
        BY <2>3, GoRefines DEF Sessions!SessionNext
    <2>4. CASE GetMostProfitable(t)
        BY <2>4, LookRefines DEF Sessions!SessionNext
    <2>5. CASE \/ Initialize(t) \/ AlreadyMining(t) \/ StartMining(t) \/ GpuFallsBack(t)
               \/ Connect(t) \/ HandshakeFails(t) \/ NotMining(t)
        BY <2>5, OtherUnseen
    <2> QED BY <1>1, <2>1, <2>2, <2>3, <2>4, <2>5 DEF Inside
<1>2. ASSUME NEW t \in Threads, Status(t)
      PROVE  Sessions!SessionNext
    BY <1>2, TakeRefines DEF Sessions!SessionNext
<1> QED BY <1>1, <1>2, OtherUnseen DEF Next

\* The strategy implements Session: whoever starts or stops has the session for
\* himself, an engine comes only when none is on, a stop ends every engine that
\* is on, and whoever leaves leaves one engine that was asked for or no engine.
\* (Of the connection to the pool nothing is promised: StoppedLeavesThePool.)
THEOREM SessionKept == Spec => KeepsSession
<1>1. Init => Sessions!SessionInit
    <2> SUFFICES ASSUME Init PROVE Sessions!SessionInit
        OBVIOUS
    <2>1. lock = Free /\ running = FALSE /\ ~cpu /\ ~ext /\ ~real
        BY Zenon DEF Init
    <2> QED BY <2>1, OnIs DEF Sessions!SessionInit, NoEngine
<1>2. Init => SessionInv
    BY SessionInitInv
<1>3. SessionInv /\ [Next]_vars => SessionInv'
    BY SessionInvStep
<1>4. SessionInv /\ [Next]_vars => [Sessions!SessionNext]_Sessions!session
    BY SessionStep
<1> QED BY <1>1, <1>2, <1>3, <1>4, PTL DEF Spec, KeepsSession, Sessions!SessionSpec

\* Because the strategy is a session, no step of anybody replaces an engine by
\* another: between two engines there is a moment without any, whatever coins
\* are switched to and whatever a start falls back to.
THEOREM EnginesHandedOver == Spec => Sessions!NothingReplaced
<1>1. [Sessions!SessionNext]_Sessions!session
        => [EnginesOn = {} \/ EnginesOn' \in {{}, EnginesOn}]_Sessions!session
    BY DEF Sessions!SessionNext, Sessions!Take, Sessions!Come, Sessions!Go, Sessions!Leave
<1> QED BY <1>1, SessionKept, PTL DEF KeepsSession, Sessions!SessionSpec, Sessions!NothingReplaced

\* And a session that is running is in order even while somebody holds its lock
\* to look at it: it has exactly one engine, and one that is over and let go
\* of has none.
THEOREM SessionAtRest == Spec => []Sessions!AtRest
<1>1. Sessions!SessionInit => Sessions!AtRest
    BY DEF Sessions!SessionInit, Sessions!AtRest, Sessions!InOrder
<1>2. Sessions!AtRest /\ [Sessions!SessionNext]_Sessions!session => Sessions!AtRest'
    <2> SUFFICES ASSUME Sessions!AtRest, [Sessions!SessionNext]_Sessions!session
                 PROVE  Sessions!AtRest'
        OBVIOUS
    <2>0. \A t \in Threads : t # Free
        BY PowMiningAssumption DEF PowMiningAssumption
    <2>1. CASE UNCHANGED Sessions!session
        BY <2>1 DEF Sessions!session, Sessions!AtRest, Sessions!InOrder
    <2>2. ASSUME NEW t \in Threads, Sessions!Take(t) PROVE Sessions!AtRest'
        BY <2>0, <2>2 DEF Sessions!Take, Sessions!AtRest, Sessions!InOrder
    <2>3. ASSUME NEW t \in Threads, NEW e \in {"cpu", "ext", "real"}, Sessions!Come(t, e)
          PROVE  Sessions!AtRest'
        BY <2>3 DEF Sessions!Come, Sessions!AtRest, Sessions!InOrder
    <2>4. ASSUME NEW t \in Threads, Sessions!Go(t) PROVE Sessions!AtRest'
        BY <2>4 DEF Sessions!Go, Sessions!AtRest, Sessions!InOrder
    <2>5. ASSUME NEW t \in Threads, Sessions!Leave(t) PROVE Sessions!AtRest'
        BY <2>5 DEF Sessions!Leave, Sessions!AtRest, Sessions!InOrder
    <2> QED BY <2>1, <2>2, <2>3, <2>4, <2>5 DEF Sessions!SessionNext
<1> QED BY <1>1, <1>2, SessionKept, PTL DEF KeepsSession, Sessions!SessionSpec

(* The types of the watch.                                                 *)

\* The first endpoint that is reachable is an endpoint.
LEMMA FirstIsEndpoint == \A c : First(c) \in Endpoints \union {None}
<1> SUFFICES ASSUME NEW c PROVE First(c) \in Endpoints \union {None}
    OBVIOUS
<1>1. Reachable(c) \in SUBSET Nat /\ Reachable(c) \subseteq Endpoints
    BY WatchAssumption DEF Reachable, Endpoints
<1>2. CASE Reachable(c) # {}
    BY <1>1, <1>2, LeastNumber DEF First
<1>3. CASE Reachable(c) = {}
    BY <1>3 DEF First
<1> QED BY <1>2, <1>3

\* The types of the watch in parts.  Each call of start that has not reached the
\* monitor leaves room for one listener more.
EndpointTypes ==
    /\ state \in [Chains -> [Endpoints -> {"up", "limited", "down"}]]
    /\ head \in [Chains -> 1 .. MaxHead] /\ changes \in 0 .. MaxChanges
    /\ conn \in [Chains -> Endpoints \union {None}]
    /\ clients \in [Chains -> Endpoints \union {None}]
    /\ latest \in [Chains -> 0 .. MaxHead]
PollerTypes ==
    /\ chainsRunning \in BOOLEAN
    /\ poller \in {"test", "poll", "notify", "retry", "ended"}
    /\ rest \subseteq Chains /\ rounds \in 0 .. RetryRounds
ControlTypes ==
    /\ agentRunning \in BOOLEAN
    /\ starter \in {"idle", "monitor"}
    /\ stopper \in {"idle", "monitor", "chains"}
    /\ starts \in 0 .. MaxStarts /\ stops \in 0 .. MaxStops
    /\ listeners \in 0 .. starts /\ called \in 0 .. listeners
    /\ starter = "monitor" => listeners < starts
WatchTypes == EndpointTypes /\ PollerTypes /\ ControlTypes

\* Every step keeps the types of the endpoints and of the connections,
LEMMA EndpointStep == ASSUME WatchTypes, [BwNext]_bwVars PROVE EndpointTypes'
<1>0. EndpointTypes
    BY DEF WatchTypes
<1>1. ASSUME NEW c \in Chains, NewBlock(c) PROVE EndpointTypes'
    BY <1>0, <1>1, WatchAssumption DEF NewBlock, links, EndpointTypes
<1>2. ASSUME NEW c \in Chains, NEW e \in Endpoints, EndpointChanges(c, e) PROVE EndpointTypes'
    <2>1. PICK s \in {"up", "limited", "down"} : state' = [state EXCEPT ![c][e] = s]
        BY <1>2 DEF EndpointChanges
    <2>2. state' \in [Chains -> [Endpoints -> {"up", "limited", "down"}]]
        BY <1>0, <2>1 DEF EndpointTypes
    <2>3. changes' \in 0 .. MaxChanges
        BY <1>0, <1>2, WatchAssumption DEF EndpointChanges, EndpointTypes
    <2> QED BY <1>0, <1>2, <2>2, <2>3 DEF EndpointChanges, links, EndpointTypes
<1>3. ASSUME NEW c \in Chains, PollNew(c) PROVE EndpointTypes'
    <2>1. head[c] \in 0 .. MaxHead
        BY <1>0 DEF EndpointTypes
    <2> QED BY <1>0, <1>3, <2>1 DEF PollNew, net, EndpointTypes
<1>4. ASSUME NEW c \in Chains, PollFails(c) PROVE EndpointTypes'
    BY <1>0, <1>4, FirstIsEndpoint DEF PollFails, net, EndpointTypes
<1>5. ASSUME NEW c \in Chains, RetryFailed(c) PROVE EndpointTypes'
    BY <1>0, <1>5, FirstIsEndpoint DEF RetryFailed, net, EndpointTypes
<1>6. ASSUME UNCHANGED <<net, links>> PROVE EndpointTypes'
    BY <1>0, <1>6 DEF net, links, EndpointTypes
<1>7. ASSUME \/ PollerTest \/ Notify \/ Notified \/ PollDone \/ RetryDone \/ ControlStep \/ StartAgent
             \/ StopAgent \/ UNCHANGED bwVars
             \/ \E t \in ScanThreads : ScanStep(t)
             \/ \E c \in Chains : PollSame(c)
      PROVE  UNCHANGED <<net, links>>
    BY <1>7 DEF PollerTest, Notify, Notified, PollDone, RetryDone, ControlStep, StartMonitor, StopMonitor,
                StopChains, StartAgent, StopAgent, bwVars, ScanStep, ScanTest, WakeByBlock, WakeByTimer,
                ClearEvent, BeginScan, EndScan, PollSame
<1> QED BY <1>1, <1>2, <1>3, <1>4, <1>5, <1>6, <1>7 DEF BwNext, PollerStep

\* those of the poller,
LEMMA PollerStepTypes == ASSUME WatchTypes, [BwNext]_bwVars PROVE PollerTypes'
<1>0. PollerTypes /\ RetryRounds \in Nat
    BY WatchAssumption DEF WatchTypes
<1>1. chainsRunning' \in BOOLEAN
    <2>1. chainsRunning' = chainsRunning \/ chainsRunning' = FALSE
        BY DEF BwNext, PollerStep, ControlStep, PollerTest, Notify, Notified, PollDone, RetryDone, StartMonitor,
               StopMonitor, StopChains, StartAgent, StopAgent, bwVars, ScanStep, ScanTest, WakeByBlock,
               WakeByTimer, ClearEvent, BeginScan, EndScan, PollSame, PollNew, PollFails, RetryFailed,
               NewBlock, EndpointChanges
    <2> QED BY <1>0, <2>1, Zenon DEF PollerTypes
<1>2. poller' \in {"test", "poll", "notify", "retry", "ended"} /\ rest' \subseteq Chains
      /\ rounds' \in 0 .. RetryRounds
    <2>1. CASE PollerTest \/ Notify \/ Notified \/ PollDone \/ RetryDone
        BY <1>0, <2>1 DEF PollerTypes, PollerTest, Notify, Notified, PollDone, RetryDone
    <2>2. ASSUME NEW c \in Chains, PollSame(c) \/ PollNew(c) \/ PollFails(c) \/ RetryFailed(c)
          PROVE  /\ poller' \in {"test", "poll", "notify", "retry", "ended"} /\ rest' \subseteq Chains
                 /\ rounds' \in 0 .. RetryRounds
        BY <1>0, <2>2 DEF PollerTypes, PollSame, PollNew, PollFails, RetryFailed
    <2>3. CASE UNCHANGED polling
        BY <1>0, <2>3 DEF PollerTypes, polling
    <2>4. ASSUME \/ ControlStep \/ StartAgent \/ StopAgent \/ UNCHANGED bwVars
                 \/ \E t \in ScanThreads : ScanStep(t)
                 \/ \E c \in Chains : NewBlock(c) \/ \E e \in Endpoints : EndpointChanges(c, e)
          PROVE  UNCHANGED polling
        BY <2>4 DEF ControlStep, StartMonitor, StopMonitor, StopChains, StartAgent, StopAgent, bwVars,
                    ScanStep, ScanTest, WakeByBlock, WakeByTimer, ClearEvent, BeginScan, EndScan,
                    NewBlock, EndpointChanges
    <2> QED BY <2>1, <2>2, <2>3, <2>4 DEF BwNext, PollerStep
<1> QED BY <1>1, <1>2 DEF PollerTypes

\* and those of start and stop.
LEMMA ControlStepTypes == ASSUME WatchTypes, [BwNext]_bwVars PROVE ControlTypes'
<1>0. ControlTypes /\ MaxStarts \in Nat /\ MaxStops \in Nat
    BY WatchAssumption DEF WatchTypes
<1>9. /\ starts \in Int /\ starts >= 0 /\ starts <= MaxStarts
      /\ stops \in Int /\ stops >= 0 /\ stops <= MaxStops
      /\ listeners \in Int /\ listeners >= 0 /\ listeners <= starts
      /\ called \in Int /\ called >= 0 /\ called <= listeners
      /\ starter \in {"idle", "monitor"} /\ stopper \in {"idle", "monitor", "chains"}
      /\ starter = "monitor" => listeners < starts
    BY <1>0 DEF ControlTypes
<1>1. agentRunning' \in BOOLEAN
    <2>1. agentRunning' = agentRunning \/ agentRunning' = FALSE \/ agentRunning' = TRUE
        BY DEF BwNext, PollerStep, ControlStep, PollerTest, Notify, Notified, PollDone, RetryDone, StartMonitor,
               StopMonitor, StopChains, StartAgent, StopAgent, bwVars, control, ScanStep, ScanTest, WakeByBlock,
               WakeByTimer, ClearEvent, BeginScan, EndScan, PollSame, PollNew, PollFails, RetryFailed,
               NewBlock, EndpointChanges
    <2> QED BY <1>0, <2>1, Zenon DEF ControlTypes
<1> DEFINE Rest == /\ starter' \in {"idle", "monitor"}
                   /\ stopper' \in {"idle", "monitor", "chains"}
                   /\ starts' \in 0 .. MaxStarts /\ stops' \in 0 .. MaxStops
                   /\ listeners' \in 0 .. starts' /\ called' \in 0 .. listeners'
                   /\ starter' = "monitor" => listeners' < starts'
<1>2. ASSUME StartMonitor PROVE Rest
    <2>1. /\ starter = "monitor" /\ starter' = "idle" /\ UNCHANGED <<stopper, starts, stops, called>>
          /\ listeners' \in {listeners, listeners + 1}
        BY <1>2 DEF StartMonitor, polling
    <2> QED BY <1>0, <1>9, <2>1
<1>3. ASSUME StartAgent PROVE Rest
    <2>1. /\ starts < MaxStarts /\ starter' = "monitor" /\ starts' = starts + 1
          /\ UNCHANGED <<stopper, stops, listeners, called>>
        BY <1>3 DEF StartAgent, polling, monitor
    <2> QED BY <1>0, <1>9, <2>1
<1>4. ASSUME StopAgent \/ StopMonitor \/ StopChains PROVE Rest
    <2>1. /\ stopper' \in {"idle", "monitor", "chains"}
          /\ stops' = stops \/ (stops < MaxStops /\ stops' = stops + 1)
          /\ UNCHANGED <<starter, starts, listeners, called>>
        BY <1>4 DEF StopAgent, StopMonitor, StopChains, polling, monitor
    <2> QED BY <1>0, <1>9, <2>1
<1>5. ASSUME Notify \/ Notified PROVE Rest
    <2>1. called' = 0 \/ (called < listeners /\ called' = called + 1)
        BY <1>5 DEF Notify, Notified
    <2>2. UNCHANGED <<starter, stopper, starts, stops, listeners>>
        BY <1>5 DEF Notify, Notified, control, monitor
    <2> QED BY <1>0, <1>9, <2>1, <2>2
<1>6. ASSUME \/ PollerTest \/ PollDone \/ RetryDone \/ UNCHANGED bwVars
             \/ \E t \in ScanThreads : ScanStep(t)
             \/ \E c \in Chains : \/ PollSame(c) \/ PollNew(c) \/ PollFails(c) \/ RetryFailed(c)
                                  \/ NewBlock(c) \/ \E e \in Endpoints : EndpointChanges(c, e)
      PROVE  UNCHANGED <<starter, stopper, starts, stops, listeners>> /\ called' \in {called, 0}
    BY <1>6 DEF PollerTest, PollDone, RetryDone, bwVars, control, monitor, polling, ScanStep, ScanTest,
                WakeByBlock, WakeByTimer, ClearEvent, BeginScan, EndScan, PollSame, PollNew, PollFails,
                RetryFailed, NewBlock, EndpointChanges
<1>7. ASSUME UNCHANGED <<starter, stopper, starts, stops, listeners>>, called' \in {called, 0} PROVE Rest
    BY <1>0, <1>9, <1>7
<1>8. Rest
    BY <1>2, <1>3, <1>4, <1>5, <1>6, <1>7 DEF BwNext, PollerStep, ControlStep
<1> QED BY <1>1, <1>8 DEF ControlTypes

\* The types of a trade's way in parts: the threads, the queue with the walks
\* over it, and the outcomes.  Who works has an opportunity; a walk takes what
\* is in its snapshot, and only a dispatcher that is awake has one.
Working == {"decide", "execute", "send", "receipt"}
TfPlaces == {"none", "asleep", "decide", "walk", "execute", "send", "receipt", "ended"}
TradeThreads ==
    /\ tfRunning \in BOOLEAN /\ tfStarts \in 0 .. TfMaxStarts /\ tfListed \subseteq TfOpps
    /\ tfStep \in [TfThreads -> TfPlaces]
    /\ tfOpp \in [TfThreads -> TfOpps \union {NoOpp}] /\ tfLegs \in [TfThreads -> 0 .. TfMaxLegs]
    /\ \A t \in TfThreads : /\ t[2] > tfStarts => tfStep[t] = "none"
                            /\ tfStep[t] \in Working => tfOpp[t] \in TfOpps
                            /\ tfStep[t] = "decide" => t \in TfLoops
TradeQueue ==
    /\ tfQueue \union tfOld \union tfSettled \union tfExposed \subseteq 1 .. tfQueued
    /\ tfQueued \in 0 .. TfMaxQueued /\ tfTradeOf \in [TfTrades -> TfOpps \union {NoOpp}]
    /\ \A k \in 1 .. tfQueued : tfTradeOf[k] \in TfOpps
    /\ tfSnapshot \in [TfThreads -> SUBSET (1 .. tfQueued)]
    /\ tfWalk \in [TfThreads -> SUBSET (1 .. tfQueued)]
    /\ tfRemove \in [TfThreads -> SUBSET (1 .. tfQueued)]
    /\ \A t \in TfThreads : /\ tfWalk[t] \union tfRemove[t] \subseteq tfSnapshot[t]
                            /\ (t \in TfLoops \/ tfStep[t] \in {"none", "asleep", "ended"})
                                  => tfSnapshot[t] = {}
TradeOutcome == tfExecuted \union tfOnChain \union tfSuccess \union tfNotMined \union tfUnsure \subseteq TfOpps
TradeTypes == TradeThreads /\ TradeQueue /\ TradeOutcome

\* Where a thread goes.
LEMMA TfMoves ==
    ASSUME TradeTypes, NEW t \in TfThreads, NEW to \in TfPlaces, TfGoTo(t, to)
    PROVE  /\ tfStep' \in [TfThreads -> TfPlaces]
           /\ \A u \in TfThreads : tfStep'[u] = IF u = t THEN to ELSE tfStep[u]
  BY DEF TradeTypes, TradeThreads, TfGoTo

\* A thread that goes on keeps the types, if it has an opportunity where it works,
\* and a snapshot only where a dispatcher may have one.
LEMMA TfThreadGoes ==
    ASSUME TradeTypes, NEW t \in TfThreads, NEW to \in TfPlaces, TfGoTo(t, to),
           tfStep[t] # "none", UNCHANGED <<tfLife, tfListed>>,
           tfLegs' \in [TfThreads -> 0 .. TfMaxLegs],
           NEW o \in TfOpps \union {NoOpp}, tfOpp' = [tfOpp EXCEPT ![t] = o],
           to \in Working => o \in TfOpps, to = "decide" => t \in TfLoops
    PROVE  TradeThreads'
<1>1. /\ tfStep' \in [TfThreads -> TfPlaces]
      /\ \A u \in TfThreads : tfStep'[u] = IF u = t THEN to ELSE tfStep[u]
    BY TfMoves
<1>2. /\ tfOpp' \in [TfThreads -> TfOpps \union {NoOpp}]
      /\ \A u \in TfThreads : tfOpp'[u] = IF u = t THEN o ELSE tfOpp[u]
    BY DEF TradeTypes, TradeThreads
<1>3. UNCHANGED <<tfRunning, tfStarts, tfListed>>
    BY DEF tfLife
<1>4. t[2] \in Nat /\ tfStarts \in Nat /\ ~(t[2] > tfStarts)
    BY DEF TradeTypes, TradeThreads, TfThreads, TfLoops
<1>5. tfRunning' \in BOOLEAN
    BY <1>3, Zenon DEF TradeTypes, TradeThreads
<1> QED BY <1>1, <1>2, <1>3, <1>4, <1>5 DEF TradeTypes, TradeThreads

\* A step that leaves queue and walks alone and puts nobody to sleep.
LEMMA TfQueueStays ==
    ASSUME TradeTypes, UNCHANGED tfQueueing,
           \A t \in TfThreads : tfStep'[t] \in {"none", "asleep", "ended"}
                                   => t \in TfLoops \/ tfStep[t] \in {"none", "asleep", "ended"}
    PROVE  TradeQueue'
  BY DEF TradeTypes, TradeQueue, tfQueueing

\* A thread of TransactionExecutor keeps the types.
LEMMA TfExecutorTypes ==
    ASSUME TradeTypes, NEW t \in TfThreads, TfExecutorNext(t)
    PROVE  TradeTypes'
<1>0. TradeThreads /\ TradeQueue /\ TradeOutcome
    BY DEF TradeTypes
<1>1. UNCHANGED <<tfLife, tfListed, tfQueueing>> /\ tfStep[t] \in {"execute", "send", "receipt"}
    BY DEF TfExecutorNext, TfRefuse, TfSimulate, TfBuild, TfSend, TfRaises, TfReverted, TfNextLeg, TfLastLeg, TfTimeout
<1>2. tfOpp[t] \in TfOpps
    BY <1>0, <1>1 DEF TradeThreads, Working
<1>3. TradeOutcome'
    <2>1. /\ tfExecuted' \in {tfExecuted, tfExecuted \union {tfOpp[t]}}
          /\ tfOnChain' \in {tfOnChain, tfOnChain \union {tfOpp[t]}}
          /\ tfSuccess' \in {tfSuccess, tfSuccess \union {tfOpp[t]}}
          /\ tfNotMined' \in {tfNotMined, tfNotMined \union {tfOpp[t]}}
          /\ tfUnsure' \in {tfUnsure, tfUnsure \union {tfOpp[t]}}
        BY DEF TfExecutorNext, TfRefuse, TfSimulate, TfBuild, TfSend, TfRaises, TfReverted, TfNextLeg, TfLastLeg, TfTimeout,
               TfRecord, tfOutcome
    <2> QED BY <1>0, <1>2, <2>1 DEF TradeOutcome
<1>4. ASSUME TfRecord(t)
      PROVE  TradeTypes'
    <2>1. TfGoTo(t, TfRest(t)) /\ tfOpp' = [tfOpp EXCEPT ![t] = NoOpp] /\ tfLegs' = [tfLegs EXCEPT ![t] = 0]
        BY <1>4 DEF TfRecord
    <2>2. TfRest(t) \in TfPlaces /\ TfRest(t) \notin Working /\ TfRest(t) # "decide"
          /\ (t \notin TfLoops => TfRest(t) = "walk")
        BY DEF TfRest, TfPlaces, Working
    <2>3. tfLegs' \in [TfThreads -> 0 .. TfMaxLegs]
        BY <1>0, <2>1, TfAssumption DEF TradeThreads
    <2>4. TradeThreads'
        BY <1>1, <2>1, <2>2, <2>3, TfThreadGoes
    <2>5. TradeQueue'
        BY <1>1, <2>1, <2>2, TfMoves, TfQueueStays
    <2> QED BY <1>3, <2>4, <2>5 DEF TradeTypes
<1>5. CASE TfBuild(t) \/ TfSend(t) \/ TfNextLeg(t)
    <2>1. PICK to \in {"send", "receipt"} : TfGoTo(t, to)
        BY <1>5 DEF TfBuild, TfSend, TfNextLeg
    <2>2. to \in TfPlaces /\ to # "decide" /\ to # "none" /\ to \notin {"none", "asleep", "ended"}
        BY DEF TfPlaces
    <2>3. tfLegs' \in [TfThreads -> 0 .. TfMaxLegs]
        <3>1. CASE TfBuild(t)
            <4>1. PICK n \in 1 .. TfMaxLegs : tfLegs' = [tfLegs EXCEPT ![t] = n]
                BY <3>1 DEF TfBuild
            <4> QED BY <1>0, <4>1, TfAssumption DEF TradeThreads
        <3>2. CASE TfSend(t)
            BY <1>0, <3>2 DEF TradeThreads, TfSend
        <3>3. CASE TfNextLeg(t)
            <4>1. tfLegs[t] \in 0 .. TfMaxLegs /\ tfLegs[t] > 1 /\ tfLegs' = [tfLegs EXCEPT ![t] = tfLegs[t] - 1]
                BY <1>0, <3>3 DEF TradeThreads, TfNextLeg
            <4>2. tfLegs[t] - 1 \in 0 .. TfMaxLegs
                BY <4>1, TfAssumption
            <4> QED BY <1>0, <4>1, <4>2 DEF TradeThreads
        <3> QED BY <1>5, <3>1, <3>2, <3>3
    <2>4. tfOpp' = [tfOpp EXCEPT ![t] = tfOpp[t]]
        BY <1>0, <1>5 DEF TradeThreads, TfBuild, TfSend, TfNextLeg
    <2>5. TradeThreads'
        BY <1>1, <1>2, <2>1, <2>2, <2>3, <2>4, TfThreadGoes
    <2>6. TradeQueue'
        BY <1>1, <2>1, <2>2, TfMoves, TfQueueStays
    <2> QED BY <1>3, <2>5, <2>6 DEF TradeTypes
<1> QED BY <1>4, <1>5 DEF TfExecutorNext, TfRefuse, TfSimulate, TfRaises, TfReverted, TfLastLeg, TfTimeout

\* So does the dispatcher in its walk over the queue.
LEMMA TfDispatchTypes ==
    ASSUME TradeTypes, NEW t \in TfThreads, TfDispatchNext(t)
    PROVE  TradeTypes'
<1>0. /\ TradeThreads /\ TradeQueue /\ TradeOutcome
      /\ tfStep \in [TfThreads -> TfPlaces]
      /\ tfSnapshot \in [TfThreads -> SUBSET (1 .. tfQueued)]
      /\ tfWalk \in [TfThreads -> SUBSET (1 .. tfQueued)]
      /\ tfRemove \in [TfThreads -> SUBSET (1 .. tfQueued)]
      /\ tfOpp = [tfOpp EXCEPT ![t] = tfOpp[t]] /\ tfOpp[t] \in TfOpps \union {NoOpp}
    BY DEF TradeTypes, TradeThreads, TradeQueue
<1>1. TradeOutcome'
    BY <1>0 DEF TradeOutcome, tfOutcome, TfDispatchNext, TfSnapshot, TfRebuild, TfExpire, TfKeep, TfSubmit, TfLookedAt
<1>2. UNCHANGED <<tfLife, tfListed, tfLegs, tfTradeOf, tfQueued, tfOld, tfExposed>>
    BY DEF TfDispatchNext, TfSnapshot, TfRebuild, TfExpire, TfKeep, TfSubmit, TfLookedAt
<1>3. tfLegs' \in [TfThreads -> 0 .. TfMaxLegs]
    BY <1>0, <1>2 DEF TradeThreads
<1>4. CASE TfSnapshot(t)
    <2>1. /\ t \notin TfLoops /\ tfStep[t] = "asleep" /\ TfGoTo(t, "walk")
          /\ tfSnapshot' = [tfSnapshot EXCEPT ![t] = tfQueue] /\ tfWalk' = [tfWalk EXCEPT ![t] = tfQueue]
          /\ UNCHANGED <<tfQueue, tfRemove, tfSettled, tfOpp>>
        BY <1>4 DEF TfSnapshot
    <2>2. "walk" \in TfPlaces /\ "walk" \notin Working
        BY DEF TfPlaces, Working
    <2>3. TradeThreads'
        BY <1>0, <1>2, <1>3, <2>1, <2>2, TfThreadGoes
    <2>4. \A u \in TfThreads : tfStep'[u] = IF u = t THEN "walk" ELSE tfStep[u]
        BY <2>1, <2>2, TfMoves
    <2>5. tfRemove[t] = {}
        BY <1>0, <2>1 DEF TradeQueue
    <2>6. TradeQueue'
        BY <1>0, <1>2, <2>1, <2>4, <2>5 DEF TradeQueue
    <2> QED BY <1>1, <2>3, <2>6 DEF TradeTypes
<1>5. CASE TfRebuild(t)
    <2>1. /\ tfStep[t] = "walk" /\ tfWalk[t] = {} /\ TfGoTo(t, "asleep")
          /\ tfQueue' = tfSnapshot[t] \ tfRemove[t] /\ tfSettled' = tfSettled \union tfRemove[t]
          /\ tfSnapshot' = [tfSnapshot EXCEPT ![t] = {}] /\ tfRemove' = [tfRemove EXCEPT ![t] = {}]
          /\ UNCHANGED <<tfWalk, tfOpp>>
        BY <1>5 DEF TfRebuild
    <2>2. "asleep" \in TfPlaces /\ "asleep" \notin Working
        BY DEF TfPlaces, Working
    <2>3. TradeThreads'
        BY <1>0, <1>2, <1>3, <2>1, <2>2, TfThreadGoes
    <2>4. \A u \in TfThreads : tfStep'[u] = IF u = t THEN "asleep" ELSE tfStep[u]
        BY <2>1, <2>2, TfMoves
    <2>5. TradeQueue'
        BY <1>0, <1>2, <2>1, <2>4 DEF TradeQueue
    <2> QED BY <1>1, <2>3, <2>5 DEF TradeTypes
<1>6. ASSUME NEW k \in TfTrades, TfExpire(t, k) \/ TfKeep(t, k) \/ TfSubmit(t, k)
      PROVE  TradeTypes'
    <2>1. /\ tfStep[t] = "walk" /\ k \in tfWalk[t] /\ tfWalk' = [tfWalk EXCEPT ![t] = @ \ {k}]
          /\ UNCHANGED <<tfQueue, tfSettled, tfSnapshot>>
          /\ tfRemove' = tfRemove \/ tfRemove' = [tfRemove EXCEPT ![t] = @ \union {k}]
        BY <1>6 DEF TfExpire, TfKeep, TfSubmit, TfLookedAt
    <2>2. \/ UNCHANGED <<tfStep, tfOpp>>
          \/ TfGoTo(t, "execute") /\ tfOpp' = [tfOpp EXCEPT ![t] = tfTradeOf[k]]
        BY <1>6 DEF TfExpire, TfKeep, TfSubmit
    <2>3. "execute" \in TfPlaces /\ tfTradeOf[k] \in TfOpps
        BY <1>0, <2>1 DEF TfPlaces, TradeQueue
    <2>4. TradeThreads'
        <3>1. CASE UNCHANGED <<tfStep, tfOpp>>
            <4>1. tfRunning' \in BOOLEAN
                BY <1>0, <1>2, Zenon DEF TradeThreads, tfLife
            <4> QED BY <1>0, <1>2, <1>3, <3>1, <4>1 DEF TradeThreads, tfLife
        <3>2. CASE TfGoTo(t, "execute") /\ tfOpp' = [tfOpp EXCEPT ![t] = tfTradeOf[k]]
            BY <1>0, <1>2, <1>3, <2>1, <2>3, <3>2, TfThreadGoes
        <3> QED BY <2>2, <3>1, <3>2
    <2>5. \A u \in TfThreads : tfStep'[u] = tfStep[u] \/ (u = t /\ tfStep'[u] = "execute")
        BY <2>2, <2>3, TfMoves
    <2>6. t \notin TfLoops /\ k \in tfSnapshot[t]
        BY <1>0, <2>1 DEF TradeQueue
    <2>7. TradeQueue'
        BY <1>0, <1>2, <2>1, <2>5, <2>6 DEF TradeQueue
    <2> QED BY <1>1, <2>4, <2>7 DEF TradeTypes
<1> QED BY <1>4, <1>5, <1>6 DEF TfDispatchNext

\* And the loop of the agent.
LEMMA TfLoopTypes ==
    ASSUME TradeTypes, NEW t \in TfThreads,
           TfEnds(t) \/ TfPick(t) \/ TfSkip(t) \/ TfDefer(t) \/ TfExecute(t)
    PROVE  TradeTypes'
<1>0. TradeThreads /\ TradeQueue /\ TradeOutcome
      /\ tfOpp = [tfOpp EXCEPT ![t] = tfOpp[t]] /\ tfOpp[t] \in TfOpps \union {NoOpp}
      /\ NoOpp \in TfOpps \union {NoOpp}
    BY DEF TradeTypes, TradeThreads
<1>1. TradeOutcome'
    BY <1>0 DEF TradeOutcome, tfOutcome, TfEnds, TfPick, TfSkip, TfDefer, TfExecute
<1>2. UNCHANGED <<tfLife, tfListed>> /\ tfLegs' \in [TfThreads -> 0 .. TfMaxLegs] /\ tfStep[t] # "none"
    BY <1>0 DEF TradeThreads, TfEnds, TfPick, TfSkip, TfDefer, TfExecute
<1>3. "ended" \in TfPlaces /\ "asleep" \in TfPlaces /\ "decide" \in TfPlaces /\ "execute" \in TfPlaces
      /\ "ended" \notin Working /\ "asleep" \notin Working
    BY DEF TfPlaces, Working
<1>4. CASE TfEnds(t)
    <2>1. tfStep[t] = "asleep" /\ TfGoTo(t, "ended") /\ UNCHANGED <<tfQueueing, tfOpp>>
        BY <1>4 DEF TfEnds
    <2>2. TradeThreads'
        BY <1>0, <1>2, <1>3, <2>1, TfThreadGoes
    <2>3. TradeQueue'
        BY <1>3, <2>1, TfMoves, TfQueueStays
    <2> QED BY <1>1, <2>2, <2>3 DEF TradeTypes
<1>5. CASE TfPick(t)
    <2>1. tfStep[t] = "asleep" /\ t \in TfLoops /\ TfGoTo(t, "decide") /\ UNCHANGED tfQueueing
        BY <1>5 DEF TfPick
    <2>2. PICK o \in tfListed : tfOpp' = [tfOpp EXCEPT ![t] = o]
        BY <1>5 DEF TfPick
    <2>3. o \in TfOpps
        BY <1>0 DEF TradeThreads
    <2>4. TradeThreads'
        BY <1>2, <1>3, <2>1, <2>2, <2>3, TfThreadGoes
    <2>5. TradeQueue'
        BY <1>3, <2>1, TfMoves, TfQueueStays
    <2> QED BY <1>1, <2>4, <2>5 DEF TradeTypes
<1>6. CASE TfSkip(t) \/ TfExecute(t)
    <2>1. tfStep[t] = "decide" /\ t \in TfLoops /\ tfOpp[t] \in TfOpps /\ UNCHANGED tfQueueing
        BY <1>0, <1>6 DEF TfSkip, TfExecute, TradeThreads, Working
    <2>2. \/ TfGoTo(t, "asleep") /\ tfOpp' = [tfOpp EXCEPT ![t] = NoOpp]
          \/ TfGoTo(t, "execute") /\ UNCHANGED tfOpp
        BY <1>6 DEF TfSkip, TfExecute
    <2>3. TradeThreads'
        BY <1>0, <1>2, <1>3, <2>1, <2>2, TfThreadGoes
    <2>4. TradeQueue'
        BY <1>3, <2>1, <2>2, TfMoves, TfQueueStays
    <2> QED BY <1>1, <2>3, <2>4 DEF TradeTypes
<1>7. CASE TfDefer(t)
    <2>1. /\ tfStep[t] = "decide" /\ t \in TfLoops /\ tfOpp[t] \in TfOpps
          /\ tfQueued < TfMaxQueued /\ tfQueued' = tfQueued + 1
          /\ tfTradeOf' = [tfTradeOf EXCEPT ![tfQueued + 1] = tfOpp[t]]
          /\ tfQueue' = tfQueue \union {tfQueued + 1}
          /\ tfExposed' \in {tfExposed, tfExposed \union {tfQueued + 1}}
          /\ TfGoTo(t, "asleep") /\ tfOpp' = [tfOpp EXCEPT ![t] = NoOpp]
          /\ UNCHANGED <<tfOld, tfSnapshot, tfWalk, tfRemove, tfSettled>>
        BY <1>0, <1>7 DEF TfDefer, TradeThreads, Working
    <2>2. TradeThreads'
        BY <1>0, <1>2, <1>3, <2>1, TfThreadGoes
    <2>3. \A u \in TfThreads : tfStep'[u] = IF u = t THEN "asleep" ELSE tfStep[u]
        BY <1>3, <2>1, TfMoves
    <2>4. tfQueued \in Nat /\ tfQueued + 1 \in TfTrades /\ 1 .. tfQueued \subseteq 1 .. tfQueued + 1
          /\ tfQueued + 1 \in 1 .. tfQueued + 1 /\ tfQueued' \in 0 .. TfMaxQueued
        BY <1>0, <2>1, TfAssumption DEF TradeQueue, TfTrades
    <2>5. tfTradeOf' \in [TfTrades -> TfOpps \union {NoOpp}] /\ \A k \in 1 .. tfQueued' : tfTradeOf'[k] \in TfOpps
        <3>1. tfTradeOf \in [TfTrades -> TfOpps \union {NoOpp}] /\ \A k \in 1 .. tfQueued : tfTradeOf[k] \in TfOpps
              /\ 1 .. tfQueued \subseteq TfTrades
            BY <1>0, TfAssumption DEF TradeQueue, TfTrades
        <3>2. \A k \in 1 .. tfQueued + 1 : k \in 1 .. tfQueued \/ k = tfQueued + 1
            BY <2>4
        <3> QED BY <2>1, <2>4, <3>1, <3>2
    <2>6. tfQueue' \union tfOld' \union tfSettled' \union tfExposed' \subseteq 1 .. tfQueued'
        BY <1>0, <2>1, <2>4 DEF TradeQueue
    <2>7. /\ tfSnapshot' \in [TfThreads -> SUBSET (1 .. tfQueued')]
          /\ tfWalk' \in [TfThreads -> SUBSET (1 .. tfQueued')]
          /\ tfRemove' \in [TfThreads -> SUBSET (1 .. tfQueued')]
        BY <1>0, <2>1, <2>4 DEF TradeQueue
    <2>8. \A u \in TfThreads : /\ tfWalk'[u] \union tfRemove'[u] \subseteq tfSnapshot'[u]
                               /\ (u \in TfLoops \/ tfStep'[u] \in {"none", "asleep", "ended"})
                                     => tfSnapshot'[u] = {}
        BY <1>0, <2>1, <2>3 DEF TradeQueue
    <2> QED BY <1>1, <2>2, <2>4, <2>5, <2>6, <2>7, <2>8 DEF TradeTypes, TradeQueue
<1> QED BY <1>4, <1>5, <1>6, <1>7

\* Every step keeps the types.
LEMMA TfTypesStep == TradeTypes /\ [TfNext]_tfVars => TradeTypes'
<1> SUFFICES ASSUME TradeTypes, [TfNext]_tfVars PROVE TradeTypes'
    OBVIOUS
<1>0. TradeThreads /\ TradeQueue /\ TradeOutcome
    BY DEF TradeTypes
<1>1. CASE TfStart
    <2>1. /\ tfStarts < TfMaxStarts /\ tfRunning' = TRUE /\ tfStarts' = tfStarts + 1
          /\ tfStep' = [t \in TfThreads |-> IF t[2] = tfStarts + 1 THEN "asleep" ELSE tfStep[t]]
          /\ UNCHANGED <<tfListed, tfQueueing, tfOutcome, tfOpp, tfLegs>>
        BY <1>1 DEF TfStart
    <2>2. /\ tfStarts \in Nat /\ tfStarts + 1 \in 0 .. TfMaxStarts
          /\ \A t \in TfThreads : t[2] \in Nat /\ (t[2] > tfStarts => tfStep[t] = "none")
        BY <1>0, <2>1, TfAssumption DEF TradeThreads, TfThreads, TfLoops
    <2>3. tfStep' \in [TfThreads -> TfPlaces]
        BY <1>0, <2>1 DEF TradeThreads, TfPlaces
    <2>4. \A t \in TfThreads : /\ t[2] > tfStarts + 1 => tfStep'[t] = "none"
                               /\ tfStep'[t] = tfStep[t] \/ (tfStep[t] = "none" /\ tfStep'[t] = "asleep")
        BY <2>1, <2>2
    <2>5. TradeThreads'
        BY <1>0, <2>1, <2>2, <2>3, <2>4 DEF TradeThreads, Working
    <2>6. TradeQueue'
        BY <2>1, <2>4, TfQueueStays
    <2> QED BY <1>0, <2>1, <2>5, <2>6 DEF TradeTypes, TradeOutcome, tfOutcome
<1>2. ASSUME TfStop \/ \E o \in TfOpps : TfScan(o) PROVE TradeTypes'
    <2>1. /\ tfRunning' = tfRunning \/ tfRunning' = FALSE
          /\ tfListed' \subseteq tfListed \union TfOpps /\ UNCHANGED <<tfStarts, tfQueueing, tfOutcome, tfThread>>
        BY <1>2 DEF TfStop, TfScan, tfLife
    <2>2. tfRunning' \in BOOLEAN
        BY <1>0, <2>1, Zenon DEF TradeThreads
    <2>3. TradeThreads'
        BY <1>0, <2>1, <2>2 DEF TradeThreads, tfThread
    <2>4. TradeQueue'
        BY <2>1, TfQueueStays DEF tfThread
    <2> QED BY <1>0, <2>1, <2>3, <2>4 DEF TradeTypes, TradeOutcome, tfOutcome
<1>3. ASSUME NEW o \in TfOpps, TfMinedLate(o) PROVE TradeTypes'
    <2>1. UNCHANGED <<tfLife, tfListed, tfQueueing, tfThread>>
        BY <1>3 DEF TfMinedLate
    <2>2. tfRunning' \in BOOLEAN
        BY <1>0, <2>1, Zenon DEF TradeThreads, tfLife
    <2>3. TradeThreads'
        BY <1>0, <2>1, <2>2 DEF TradeThreads, tfLife, tfThread
    <2>4. TradeQueue'
        BY <2>1, TfQueueStays DEF tfThread
    <2>5. TradeOutcome'
        BY <1>0, <1>3 DEF TradeOutcome, TfMinedLate
    <2> QED BY <2>3, <2>4, <2>5 DEF TradeTypes
<1>4. ASSUME NEW k \in TfTrades, TfAge(k) PROVE TradeTypes'
    <2>1. /\ k \in 1 .. tfQueued /\ tfOld' = tfOld \union {k}
          /\ UNCHANGED <<tfLife, tfListed, tfQueue, tfTradeOf, tfQueued, tfSnapshot, tfWalk, tfRemove,
                         tfSettled, tfExposed, tfOutcome, tfThread>>
        BY <1>4 DEF TfAge
    <2>2. tfRunning' \in BOOLEAN
        BY <1>0, <2>1, Zenon DEF TradeThreads, tfLife
    <2>3. TradeThreads'
        BY <1>0, <2>1, <2>2 DEF TradeThreads, tfLife, tfThread
    <2>4. TradeQueue'
        BY <1>0, <2>1 DEF TradeQueue, tfThread
    <2> QED BY <1>0, <2>1, <2>3, <2>4 DEF TradeTypes, TradeOutcome, tfOutcome
<1>5. CASE UNCHANGED tfVars
    <2>1. UNCHANGED <<tfLife, tfListed, tfQueueing, tfOutcome, tfThread>>
        BY <1>5 DEF tfVars
    <2>2. tfRunning' \in BOOLEAN
        BY <1>0, <2>1, Zenon DEF TradeThreads, tfLife
    <2>3. TradeThreads'
        BY <1>0, <2>1, <2>2 DEF TradeThreads, tfLife, tfThread
    <2>4. TradeQueue'
        BY <2>1, TfQueueStays DEF tfThread
    <2> QED BY <1>0, <2>1, <2>3, <2>4 DEF TradeTypes, TradeOutcome, tfOutcome
<1> QED BY <1>1, <1>2, <1>3, <1>4, <1>5, TfLoopTypes, TfDispatchTypes, TfExecutorTypes DEF TfNext

-----------------------------------------------------------------------------
(* The composition.                                                        *)

\* A behaviour of the composition is one of each component.
LEMMA AgentParts ==
    /\ AgentInit => Init /\ BwInit /\ NmInit /\ TfInit
    /\ [AgentNext]_agentVars => [Next]_vars /\ [BwNext]_bwVars /\ [NmNext]_nmVars /\ [TfNext]_tfVars
<1>1. AgentInit => Init /\ BwInit /\ NmInit /\ TfInit
    BY DEF AgentInit
<1>2. UNCHANGED agentVars => UNCHANGED <<vars, bwVars, nmVars, tfVars>>
    BY DEF agentVars
<1> QED BY <1>1, <1>2 DEF AgentNext

\* What the types of all four rest on.
AgentTypes == (SessionInv /\ TypeOK) /\ (BwInv /\ WatchTypes) /\ NmInv /\ TradeTypes

\* The types of the four components, in every behaviour of the agent.
THEOREM AgentTypesHold == AgentSpec => []AgentTypeOK
<1>1. AgentInit => AgentTypes
    <2> SUFFICES ASSUME AgentInit PROVE AgentTypes
        OBVIOUS
    <2>0. Init /\ BwInit /\ NmInit /\ TfInit
        BY AgentParts
    <2>1. TypeOK
        BY <2>0, SessionTypesBegin
    <2>2. WatchTypes
        <3>1. EndpointTypes
            BY <2>0, WatchAssumption, FirstIsEndpoint DEF BwInit, EndpointTypes
        <3>2. PollerTypes
            BY <2>0, WatchAssumption DEF BwInit, PollerTypes
        <3>3. ControlTypes
            <4>1. agentRunning \in BOOLEAN
                BY <2>0, Zenon DEF BwInit
            <4>2. /\ starter = "idle" /\ stopper = "idle"
                  /\ starts = 0 /\ stops = 0 /\ listeners = 0 /\ called = 0
                BY <2>0, Zenon DEF BwInit
            <4>3. starts \in 0 .. MaxStarts /\ stops \in 0 .. MaxStops
                  /\ listeners \in 0 .. starts /\ called \in 0 .. listeners
                BY <4>2, WatchAssumption
            <4> QED BY <4>1, <4>2, <4>3, Zenon DEF ControlTypes
        <3> QED BY <3>1, <3>2, <3>3 DEF WatchTypes
    <2>3. TradeTypes
        <3>1. TradeThreads
            <4>1. tfRunning \in BOOLEAN /\ tfListed \subseteq TfOpps
                BY <2>0, Zenon DEF TfInit
            <4>2. tfStarts \in 0 .. TfMaxStarts
                BY <2>0, TfAssumption DEF TfInit
            <4>3. /\ tfStep = [t \in TfThreads |-> "none"] /\ tfOpp = [t \in TfThreads |-> NoOpp]
                  /\ tfLegs = [t \in TfThreads |-> 0]
                BY <2>0, Zenon DEF TfInit
            <4>4. tfStep \in [TfThreads -> TfPlaces]
                BY <4>3 DEF TfPlaces
            <4>5. tfOpp \in [TfThreads -> TfOpps \union {NoOpp}]
                BY <4>3
            <4>6. tfLegs \in [TfThreads -> 0 .. TfMaxLegs]
                BY <4>3, TfAssumption
            <4>7. \A t \in TfThreads : tfStep[t] = "none"
                BY <4>3
            <4>8. \A t \in TfThreads : tfStep[t] # "decide" /\ ~ tfStep[t] \in Working
                BY <4>7 DEF Working
            <4> QED BY <4>1, <4>2, <4>4, <4>5, <4>6, <4>7, <4>8, Zenon DEF TradeThreads
        <3>2. TradeQueue
            BY <2>0, TfAssumption DEF TfInit, TradeQueue
        <3>3. TradeOutcome
            BY <2>0 DEF TfInit, TradeOutcome
        <3> QED BY <3>1, <3>2, <3>3 DEF TradeTypes
    <2> QED BY <2>0, <2>1, <2>2, <2>3, SessionInitInv, BwInitInv, NmInitInv DEF AgentTypes
<1>2. AgentTypes /\ [AgentNext]_agentVars => AgentTypes'
    <2> SUFFICES ASSUME AgentTypes, [AgentNext]_agentVars PROVE AgentTypes'
        OBVIOUS
    <2>0. [Next]_vars /\ [BwNext]_bwVars /\ [NmNext]_nmVars /\ [TfNext]_tfVars
        BY AgentParts
    <2>1. SessionInv' /\ TypeOK'
        BY <2>0, SessionInvStep, SessionTypesStep DEF AgentTypes
    <2>2. BwInv' /\ WatchTypes'
        BY <2>0, BwInvStep, EndpointStep, PollerStepTypes, ControlStepTypes DEF AgentTypes, WatchTypes
    <2>3. NmInv' /\ TradeTypes'
        BY <2>0, NmInvStep, TfTypesStep DEF AgentTypes
    <2> QED BY <2>1, <2>2, <2>3 DEF AgentTypes
<1>3. AgentTypes => AgentTypeOK
    <2> SUFFICES ASSUME AgentTypes PROVE AgentTypeOK
        OBVIOUS
    <2>1. TypeOK /\ NmTypeOK
        BY DEF AgentTypes, NmInv
    <2>2. BwTypeOK
        <3>1. chainsRunning \in BOOLEAN /\ agentRunning \in BOOLEAN /\ monRunning \in BOOLEAN
              /\ pendingScan \in BOOLEAN /\ news \in BOOLEAN
            BY Zenon DEF AgentTypes, WatchTypes, PollerTypes, ControlTypes, BwInv, MonitorTypes
        <3>2. scan \in [ScanThreads -> ScanPlaces]
            BY DEF AgentTypes, BwInv, MonitorTypes
        <3> QED BY <3>1, <3>2 DEF BwTypeOK, AgentTypes, WatchTypes, EndpointTypes, PollerTypes, ControlTypes
    <2>3. TfTypeOK
        <3>1. tfRunning \in BOOLEAN
            BY Zenon DEF AgentTypes, TradeTypes, TradeThreads
        <3> QED BY <3>1 DEF TfTypeOK, AgentTypes, TradeTypes, TradeThreads, TradeQueue, TradeOutcome, TfPlaces
    <2> QED BY <2>1, <2>2, <2>3 DEF AgentTypeOK
<1> QED BY <1>1, <1>2, <1>3, PTL DEF AgentSpec
=============================================================================
