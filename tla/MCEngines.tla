------------------------------ MODULE MCEngines ------------------------------
(***************************************************************************)
(* Model checking of what a mining session runs on: the CPU miner, the     *)
(* external GPU miner, the power limits of the GPUs, real compute and the  *)
(* discovery of mining pools.  They share no variable, so a behaviour      *)
(* moves one of them, chosen at the start, and leaves the others as they   *)
(* begin.                                                                  *)
(***************************************************************************)
EXTENDS CpuMiner, GpuRig, PowerControl, RealCompute, PoolDiscovery

CONSTANTS T4    \* an entry of GPU_MINING_PROFILES

MCModelOf == [g \in Known |-> T4]

VARIABLE part    \* the component that moves

engineVars == <<part, vars, rigVars, powVars, rcVars, pdVars>>

EnginesInit ==
    /\ part \in {"cpu", "rig", "power", "real", "discovery"}
    /\ Init /\ RigInit /\ PowInit /\ RcInit /\ PdInit
    /\ part # "rig" => ~rigVirtual
    /\ part # "discovery" => \A i \in Ids : answers[i] = "up"

EnginesNext ==
    /\ UNCHANGED part
    /\ \/ part = "cpu" /\ Next /\ UNCHANGED <<rigVars, powVars, rcVars, pdVars>>
       \/ part = "rig" /\ RigNext /\ UNCHANGED <<vars, powVars, rcVars, pdVars>>
       \/ part = "power" /\ PowNext /\ UNCHANGED <<vars, rigVars, rcVars, pdVars>>
       \/ part = "real" /\ RcNext /\ UNCHANGED <<vars, rigVars, powVars, pdVars>>
       \/ part = "discovery" /\ PdNext /\ UNCHANGED <<vars, rigVars, powVars, rcVars>>

\* Threads run, a wait with a timeout ends, a killed process dies; the monitor
\* thread comes by at every GPU.  Each condition names the component that
\* moves: of the others no step is asked.
EnginesFairness ==
    /\ \A w \in Workers : WF_vars(part = "cpu" /\ WorkerNext(w))
    /\ \A g \in Generations : WF_vars(part = "cpu" /\ WatcherEnds(g))
    /\ \A c \in Children :
           /\ WF_rigVars(part = "rig" /\ RigReaderNext(c))
           /\ WF_rigVars(part = "rig" /\ c \in rigKilled /\ RigChildEnds(c))
    /\ WF_rigVars(part = "rig" /\ RigStopNext)
    /\ \A g \in Gpus : WF_powVars(part = "power" /\ PowThrottle(g))
    /\ WF_pdVars(part = "discovery" /\ Wake)
    /\ \A t \in Threads : WF_pdVars(part = "discovery" /\ RoundNext(t))
    /\ \A u \in Users : WF_pdVars(part = "discovery" /\ Added(u))

EnginesSpec == EnginesInit /\ [][EnginesNext]_engineVars /\ EnginesFairness

\* The types of the five components.
EnginesTypeOK == TypeOK /\ RigTypeOK /\ PowTypeOK /\ RcTypeOK /\ PdTypeOK

\* No engine outlives the session that started it: neither an external miner
\* of ExternalMinerManager nor a worker or process of real compute.
NoEngineLeftBehind == RigNoStrayChild /\ RcNothingLeftBehind

\* No work is done twice and none is misreported: no header has two workers of
\* the CPU miner and no nonce two of real compute, and a share names the
\* header that was hashed.
HashingIsSound == NoHeaderTwice /\ RcNonceHasOneWorker /\ ShareWasHashed

\* What is told to stop ends: the threads of the CPU miner and an external
\* miner that is terminated.
StoppedEnginesEnd == StopEndsThreads /\ RigToldChildEnds

\* Pool discovery goes on through everything that makes a round raise: the
\* pools get checked again and again, and automatic selection ends at a pool
\* that answers.
DiscoveryGoesOn == []<>(part = "discovery" => AllChecked) /\ AutoSelectRecovers
=============================================================================
