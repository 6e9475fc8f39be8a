------------------------------- MODULE GpuRig -------------------------------
(***************************************************************************)
(* A GPU mining session below PoWMiningStrategy: GPUDetector and           *)
(* ExternalMinerManager of nexus/strategies/gpu_mining.py.  The strategy   *)
(* starts and stops sessions under its lock, one at a time; one thread per *)
(* child process reads what the child prints.                              *)
(*                                                                         *)
(* External: the vendor's tools and the child process.                     *)
(***************************************************************************)
EXTENDS Naturals

CONSTANT MaxChildren    \* bound: external miners started

ASSUME RigAssumption == MaxChildren \in Nat

Children == 1 .. MaxChildren
NoChild  == 0
VARIABLES
    rigListed, rigFresh,   \* GPUDetector: kind of _devices, detected within the interval
    rigVirtual,            \* _vgpu_enabled
    rigSession,            \* what the strategy mines with: off, gpu, cpu
    rigCaller,             \* how far its call of start or stop is
    rigHeld, rigRunning,   \* ExternalMinerManager: _process, _running
    rigChildren,           \* children started so far
    rigAlive, rigTold, rigKilled, \* children that run, were terminated, killed
    rigUnread,             \* children whose output thread could not start
    rigReader, rigSource   \* each output thread: where it is, whose pipe it reads

rigDetector  == <<rigListed, rigFresh, rigVirtual>>
rigProcess   == <<rigHeld, rigRunning, rigChildren, rigAlive, rigTold, rigKilled, rigUnread>>
rigOutput    == <<rigReader, rigSource>>
rigCall      == <<rigSession, rigCaller>>
rigVars == <<rigDetector, rigProcess, rigOutput, rigCall>>

RigInit ==
    /\ rigListed = "none" /\ rigFresh = FALSE /\ rigVirtual \in BOOLEAN
    /\ rigSession = "off" /\ rigCaller = "idle"
    /\ rigHeld = NoChild /\ rigRunning = FALSE /\ rigChildren = 0
    /\ rigAlive = {} /\ rigTold = {} /\ rigKilled = {} /\ rigUnread = {}
    /\ rigReader = [c \in Children |-> "none"]
    /\ rigSource = [c \in Children |-> NoChild]
-----------------------------------------------------------------------------
(* The detector and the virtual GPUs.                                      *)

\* What the vendor's tools report: the GPUs, or nothing when a tool times out;
\* with nothing the virtual GPUs stand in, if they are enabled.
Detected == {"physical", IF rigVirtual THEN "virtual" ELSE "none"}

DetectDevices ==
    IF rigFresh /\ rigListed # "none"
    THEN UNCHANGED <<rigListed, rigFresh>>
    ELSE rigListed' \in Detected /\ rigFresh' = TRUE

\* _detection_interval is over.
RigAges ==
    /\ rigFresh /\ rigFresh' = FALSE
    /\ UNCHANGED <<rigListed, rigVirtual, rigProcess, rigOutput, rigCall>>

\* enable_vgpu, disable_vgpu: the list that is cached stays as it is.
RigSetVirtual ==
    /\ rigVirtual' = ~rigVirtual
    /\ UNCHANGED <<rigListed, rigFresh, rigProcess, rigOutput, rigCall>>
-----------------------------------------------------------------------------
(* _start_gpu_mining.                                                      *)

RigStart ==
    /\ rigSession = "off" /\ rigCaller = "idle" /\ rigChildren < MaxChildren
    /\ DetectDevices
    /\ IF rigListed' = "none"
       THEN rigSession' = "cpu" /\ UNCHANGED rigCaller
       ELSE rigCaller' = "spawn" /\ UNCHANGED rigSession
    /\ UNCHANGED <<rigVirtual, rigProcess, rigOutput>>

\* No miner for the algorithm, one that cannot be executed, or
\* ExternalMinerManager.start finds a miner running: the CPU mines.
RigNoMiner ==
    /\ rigCaller = "spawn"
    /\ rigCaller' = "idle" /\ rigSession' = "cpu"
    /\ UNCHANGED <<rigDetector, rigProcess, rigOutput>>

Spawn ==
    /\ rigChildren < MaxChildren
    /\ rigChildren' = rigChildren + 1
    /\ rigHeld' = rigChildren'
    /\ rigRunning' = TRUE
    /\ rigAlive' = rigAlive \union {rigChildren'}
    /\ rigCaller' = "idle"
    /\ UNCHANGED <<rigTold, rigKilled, rigSource, rigDetector>>

\* Fault variant: start does not ask whether a miner runs.
RigSpawnUnasked ==
    /\ rigCaller = "spawn"
    /\ Spawn
    /\ rigReader' = [rigReader EXCEPT ![rigChildren'] = "test"]
    /\ rigSession' = "gpu"
    /\ UNCHANGED rigUnread

\* ExternalMinerManager.start.
RigSpawn ==
    /\ rigCaller = "spawn" /\ ~rigRunning
    /\ Spawn
    /\ rigReader' = [rigReader EXCEPT ![rigChildren'] = "test"]
    /\ rigSession' = "gpu"
    /\ UNCHANGED rigUnread

\* The output thread cannot be started: start reports a failure, and the child
\* mines on beside the CPU.
RigSpawnUnread ==
    /\ rigCaller = "spawn" /\ ~rigRunning
    /\ Spawn
    /\ rigUnread' = rigUnread \union {rigChildren'}
    /\ rigSession' = "cpu"
    /\ UNCHANGED rigReader
-----------------------------------------------------------------------------
(* ExternalMinerManager.stop, called by stop_mining for a GPU session.     *)

RigStopCpu ==
    /\ rigSession = "cpu" /\ rigCaller = "idle"
    /\ rigSession' = "off"
    /\ UNCHANGED <<rigCaller, rigDetector, rigProcess, rigOutput>>

RigTerminate ==
    /\ rigSession = "gpu" /\ rigCaller = "idle"
    /\ rigRunning' = FALSE
    /\ rigTold' = rigTold \union {rigHeld}
    /\ rigCaller' = "wait"
    /\ UNCHANGED <<rigSession, rigDetector, rigHeld, rigChildren, rigAlive,
                   rigKilled, rigUnread, rigOutput>>

RigStopped ==
    /\ rigHeld' = NoChild
    /\ rigCaller' = "idle" /\ rigSession' = "off"
    /\ UNCHANGED <<rigDetector, rigRunning, rigChildren, rigAlive, rigTold,
                   rigUnread, rigOutput>>

RigWaitEnds ==
    /\ rigCaller = "wait" /\ rigHeld \notin rigAlive
    /\ RigStopped
    /\ UNCHANGED rigKilled

\* Fault variant: a child that does not end in 10 s is given up.
RigWaitTimesOutGivingUp ==
    /\ rigCaller = "wait" /\ rigHeld \in rigAlive
    /\ RigStopped
    /\ UNCHANGED rigKilled

RigWaitTimesOut ==
    /\ rigCaller = "wait" /\ rigHeld \in rigAlive
    /\ rigKilled' = rigKilled \union {rigHeld}
    /\ RigStopped

\* A child ends by itself, as it was told, or because it was killed.  Nobody
\* notices a child that ended by itself.
RigChildEnds(c) ==
    /\ c \in rigAlive
    /\ rigAlive' = rigAlive \ {c}
    /\ UNCHANGED <<rigDetector, rigHeld, rigRunning, rigChildren, rigTold,
                   rigKilled, rigUnread, rigOutput, rigCall>>
-----------------------------------------------------------------------------
(* _read_output, one thread per child that was started.                    *)

\* The thread goes by what the manager holds now, maybe a later child.
RigReaderTest(c) ==
    /\ rigReader[c] = "test"
    /\ IF rigRunning /\ rigHeld # NoChild
       THEN /\ rigReader' = [rigReader EXCEPT ![c] = "read"]
            /\ rigSource' = [rigSource EXCEPT ![c] = rigHeld]
       ELSE rigReader' = [rigReader EXCEPT ![c] = "ended"] /\ UNCHANGED rigSource
    /\ UNCHANGED <<rigDetector, rigProcess, rigCall>>

\* Fault variant: an empty line is taken for the end of the output.
RigReaderLineEmpty(c) ==
    /\ rigReader[c] = "read" /\ rigSource[c] \in rigAlive
    /\ \E next \in {"test", "ended"} : rigReader' = [rigReader EXCEPT ![c] = next]
    /\ UNCHANGED <<rigSource, rigDetector, rigProcess, rigCall>>

\* A line, empty or with statistics.
RigReaderLine(c) ==
    /\ rigReader[c] = "read" /\ rigSource[c] \in rigAlive
    /\ rigReader' = [rigReader EXCEPT ![c] = "test"]
    /\ UNCHANGED <<rigSource, rigDetector, rigProcess, rigCall>>

RigReaderEof(c) ==
    /\ rigReader[c] = "read" /\ rigSource[c] \notin rigAlive
    /\ rigReader' = [rigReader EXCEPT ![c] = "ended"]
    /\ UNCHANGED <<rigSource, rigDetector, rigProcess, rigCall>>

\* A line that is not in the encoding of the locale ends the thread.
RigReaderRaises(c) ==
    /\ rigReader[c] = "read" /\ rigSource[c] \in rigAlive
    /\ rigReader' = [rigReader EXCEPT ![c] = "ended"]
    /\ rigUnread' = rigUnread \union {rigSource[c]}
    /\ UNCHANGED <<rigSource, rigDetector, rigHeld, rigRunning, rigChildren,
                   rigAlive, rigTold, rigKilled, rigCall>>
RigReaderNext(c) == RigReaderTest(c) \/ RigReaderEof(c)
RigStopNext == RigWaitEnds \/ RigWaitTimesOut

RigNext ==
    \/ RigAges \/ RigSetVirtual
    \/ RigStart \/ RigNoMiner \/ RigSpawn \/ RigSpawnUnread
    \/ RigStopCpu \/ RigTerminate \/ RigStopNext
    \/ \E c \in Children :
          RigChildEnds(c) \/ RigReaderNext(c) \/ RigReaderLine(c) \/ RigReaderRaises(c)

RigTypeOK ==
    /\ rigListed \in {"none", "physical", "virtual"} /\ rigFresh \in BOOLEAN /\ rigVirtual \in BOOLEAN
    /\ rigSession \in {"off", "gpu", "cpu"} /\ rigCaller \in {"idle", "spawn", "wait"}
    /\ rigHeld \in {NoChild} \union Children /\ rigRunning \in BOOLEAN
    /\ rigChildren \in 0 .. MaxChildren
    /\ rigAlive \union rigTold \union rigUnread \subseteq 1 .. rigChildren
    /\ rigKilled \subseteq rigTold
    /\ rigReader \in [Children -> {"none", "test", "read", "ended"}]
    /\ rigSource \in [Children -> {NoChild} \union Children]

\* A child that runs and was not told to end is the one the manager holds, and
\* its session is on unless its start was reported as failed: no start, stop,
\* crash or fallback leaves a miner that nobody would stop.
RigNoStrayChild ==
    \A c \in rigAlive \ rigTold :
        rigHeld = c /\ (rigSession = "gpu" \/ c \in rigUnread)

\* The pipe of a child that runs is read, by its own thread or by one of a
\* child before it, until a line cannot be decoded: a full pipe stops a miner.
RigPipeIsRead ==
    \A c \in rigAlive \ (rigTold \union rigUnread) :
        \E r \in Children : rigReader[r] = "test" \/ (rigReader[r] = "read" /\ rigSource[r] = c)

\* A child that was told to end and does not is killed in the end: again and
\* again no child is left that was told.
RigToldChildEnds == []<>(rigAlive \intersect rigTold = {})
=============================================================================
