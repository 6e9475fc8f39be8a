---------------------------- MODULE PowerControl ----------------------------
(***************************************************************************)
(* GPUOptimizer (nexus/strategies/gpu_optimizer.py): the power limit of    *)
(* each GPU, set when a GPU session starts (apply_profile), lowered by the *)
(* monitor thread while the GPU is at its temperature limit, and set by    *)
(* the AI loop of the strategy past the profile.  Limits are in tenths of  *)
(* the maximum.  The GPUs are NVIDIA's: the throttle sets no other.        *)
(*                                                                         *)
(* External: the temperatures, and the tool that sets a limit.             *)
(***************************************************************************)
EXTENDS Integers, FiniteSets

CONSTANTS Gpus,       \* physical GPUs
          Gpu0,       \* the one that nvidia-smi numbers 0
          Known,      \* those with the name of an entry in GPU_MINING_PROFILES
          ModelOf,    \* that entry
          MaxFails    \* bound: calls of the tool that fail

ASSUME PowerAssumption ==
    /\ Gpu0 \in Gpus /\ Known \subseteq Gpus /\ IsFiniteSet(Gpus)
    /\ MaxFails \in Nat

Floor == 5
Stock == 8          \* power_limit_percent of a profile as it is written
Full  == 10

\* get_profile_for_gpu: GPUs with the name of a known model share one object,
\* any other gets an object of its own, made anew at each call.
Profile(g) == IF g \in Known THEN ModelOf[g] ELSE g
Profiles   == {Profile(g) : g \in Gpus}

VARIABLES
    powProfile,    \* power_limit_percent of each profile
    powApplied,    \* GPUs in _profiles
    powMonitor,    \* _monitoring
    powMining,     \* a session is on, and with it the AI loop
    powLimit,      \* external: the limit each GPU is set to
    powHot,        \* external: GPUs at their temp_limit_c
    powFails       \* counter of the bound

powVars == <<powProfile, powApplied, powMonitor, powMining, powLimit, powHot, powFails>>

PowInit ==
    /\ powProfile = [p \in Profiles |-> Stock]
    /\ powApplied = {} /\ powMonitor = FALSE /\ powMining = FALSE
    /\ powLimit = [g \in Gpus |-> Full] /\ powHot = {} /\ powFails = 0

\* _start_gpu_mining applies the profile of each listed GPU and starts the
\* monitor, which nothing stops.  The tool may fail for some of the GPUs.
PowStart ==
    /\ ~powMining /\ powMining' = TRUE
    /\ powApplied' = Gpus /\ powMonitor' = TRUE
    /\ powProfile' = [p \in Profiles |-> IF p \in Gpus \ Known THEN Stock ELSE powProfile[p]]
    /\ \E failing \in SUBSET Gpus :
          /\ powFails + Cardinality(failing) <= MaxFails
          /\ powFails' = powFails + Cardinality(failing)
          /\ powLimit' = [g \in Gpus |-> IF g \in failing THEN powLimit[g]
                                                          ELSE powProfile'[Profile(g)]]
    /\ UNCHANGED powHot

PowStop ==
    /\ powMining /\ powMining' = FALSE
    /\ UNCHANGED <<powProfile, powApplied, powMonitor, powLimit, powHot, powFails>>

PowTemperature(g) ==
    /\ powHot' = IF g \in powHot THEN powHot \ {g} ELSE powHot \union {g}
    /\ UNCHANGED <<powProfile, powApplied, powMonitor, powMining, powLimit, powFails>>

\* Fault variant: the tool is called for GPU 0, whichever GPU is hot.
PowThrottleFirst(g) ==
    /\ powMonitor /\ g \in powApplied /\ g \in powHot
    /\ powProfile[Profile(g)] > Floor
    /\ powProfile' = [powProfile EXCEPT ![Profile(g)] = @ - 1]
    /\ \/ powLimit' = [powLimit EXCEPT ![Gpu0] = powProfile'[Profile(g)]] /\ UNCHANGED powFails
       \/ powFails < MaxFails /\ powFails' = powFails + 1 /\ UNCHANGED powLimit
    /\ UNCHANGED <<powApplied, powMonitor, powMining, powHot>>

\* _throttle_gpu: the profile goes down by a tenth, and the GPU is set to it
\* unless the tool fails.  At the floor nothing is done.
PowThrottle(g) ==
    /\ powMonitor /\ g \in powApplied /\ g \in powHot
    /\ powProfile[Profile(g)] > Floor
    /\ powProfile' = [powProfile EXCEPT ![Profile(g)] = @ - 1]
    /\ \/ powLimit' = [powLimit EXCEPT ![g] = powProfile'[Profile(g)]] /\ UNCHANGED powFails
       \/ powFails < MaxFails /\ powFails' = powFails + 1 /\ UNCHANGED powLimit
    /\ UNCHANGED <<powApplied, powMonitor, powMining, powHot>>

\* _apply_ai_optimization sets GPU 0, whatever the session mines with.
PowAiSets ==
    /\ powMining
    /\ \E limit \in {6, Full} : powLimit' = [powLimit EXCEPT ![Gpu0] = limit]
    /\ UNCHANGED <<powProfile, powApplied, powMonitor, powMining, powHot, powFails>>

PowNext ==
    \/ PowStart \/ PowStop \/ PowAiSets
    \/ \E g \in Gpus : PowTemperature(g) \/ PowThrottle(g)

PowTypeOK ==
    /\ powProfile \in [Profiles -> Floor .. Stock] /\ powApplied \subseteq Gpus
    /\ powMonitor \in BOOLEAN /\ powMining \in BOOLEAN
    /\ powLimit \in [Gpus -> Floor .. Full]
    /\ powHot \subseteq Gpus /\ powFails \in 0 .. MaxFails

\* A GPU that stays at its temperature limit under the monitor runs with less
\* power than its profile began with, although a call of the tool failed: for
\* a GPU that shares its profile with no other and is not the AI loop's.
HotGpuIsLowered ==
    \A g \in Gpus \ {Gpu0} :
        (\A h \in Gpus \ {g} : Profile(h) # Profile(g)) =>
            []<>(g \notin powHot \/ ~powMonitor \/ powLimit[g] < Stock)

\* "Emergency throttle a GPU." (GPUOptimizer._throttle_gpu): so does the GPU
\* of the AI loop as long as it is mined with.  (Once the profile is at its
\* floor nothing is set any more, and the limit that the AI loop has set past
\* the profile stays.)
HotGpu0IsLowered ==
    []<>(Gpu0 \notin powHot \/ ~powMining \/ powLimit[Gpu0] < Stock)
=============================================================================
