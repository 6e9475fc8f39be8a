----------------------------- MODULE RealCompute -----------------------------
(***************************************************************************)
(* nexus/strategies/real_vgpu_compute.py: RealVGPUComputeManager, made     *)
(* anew for each session, with its engines: RealCPUCompute (worker threads *)
(* over ranges of nonces), XMRigIntegration (a child process) and          *)
(* CloudGPURental (which has no offers and rents nothing).  The strategy   *)
(* starts and stops sessions under its lock.                               *)
(*                                                                         *)
(* External: the XMRig process.                                            *)
(***************************************************************************)
EXTENDS Integers, FiniteSets

CONSTANTS RcThreads,       \* self.threads: workers of an engine
          RangeSize,     \* nonces of a worker, 2^28
          NonceSpace,    \* nonces there are, 2^32
          MaxSessions    \* bound: starts

ASSUME RealAssumption ==
    /\ RcThreads \in Nat \ {0} /\ RangeSize \in Nat \ {0} /\ MaxSessions \in Nat
    /\ NonceSpace \in Nat \ {0}

RcWorkers  == 0 .. RcThreads - 1
RcSessionIds == 1 .. MaxSessions

\* The workers whose range is within the nonces there are: the first 16, since
\* the code gives a thread a range whatever their number.
RcFitting == {w \in RcWorkers : (w + 1) * RangeSize <= NonceSpace}

VARIABLES
    rcCaller,      \* the strategy: off, on, or where its call is
    rcSessions,    \* managers made so far; the last is self._real_compute
    rcCpu, rcXmrig,\* of each manager: it has the engine, _cpu_compute and _xmrig
    rcFlag,        \* of each manager: _running of its CPU engine
    rcWorker,      \* where each worker is: none, loop, hash, ended
    rcNonce,       \* its nonce
    rcHashed,      \* history: nonces that each worker hashed
    rcChild,       \* external: XMRig of each manager: none, runs, told, dead
    rcAbandoned    \* managers whose start failed

rcEngines == <<rcCpu, rcXmrig, rcFlag, rcChild>>
rcWork    == <<rcWorker, rcNonce, rcHashed>>
rcVars    == <<rcCaller, rcSessions, rcEngines, rcWork, rcAbandoned>>

RcInit ==
    /\ rcCaller = "off" /\ rcSessions = 0 /\ rcAbandoned = {}
    /\ rcCpu = {} /\ rcXmrig = {} /\ rcFlag = {}
    /\ rcChild = [s \in RcSessionIds |-> "none"]
    /\ rcWorker = [s \in RcSessionIds |-> [w \in RcWorkers |-> "none"]]
    /\ rcNonce = [w \in RcWorkers |-> w * RangeSize]
    /\ rcHashed = [w \in RcWorkers |-> {}]
-----------------------------------------------------------------------------
(* _start_real_vgpu_compute, RealVGPUComputeManager.start.                 *)

\* _determine_compute_mode: XMRig for its algorithms, else the CPU; the cloud
\* has no offers and falls back to the CPU.
RcStart ==
    /\ rcCaller = "off" /\ rcSessions < MaxSessions
    /\ rcSessions' = rcSessions + 1
    /\ rcCaller' \in {"xmrig", "cpu"}
    /\ UNCHANGED <<rcEngines, rcWork, rcAbandoned>>

\* XMRigIntegration.start: it starts, it cannot, or its process starts and a
\* thread does not; the last two fall back to the CPU.
RcStartXmrig ==
    /\ rcCaller = "xmrig"
    /\ rcXmrig' = rcXmrig \union {rcSessions}
    /\ \E process \in BOOLEAN :
          /\ rcChild' = [rcChild EXCEPT ![rcSessions] = IF process THEN "runs" ELSE @]
          /\ rcCaller' \in IF process THEN {"on", "cpu"} ELSE {"cpu"}
    /\ UNCHANGED <<rcSessions, rcCpu, rcFlag, rcWork, rcAbandoned>>

\* RealCPUCompute.start: the flag, and a thread per worker.
RcStartCpu ==
    /\ rcCaller = "cpu"
    /\ rcCpu' = rcCpu \union {rcSessions} /\ rcFlag' = rcFlag \union {rcSessions}
    /\ rcWorker' = [rcWorker EXCEPT ![rcSessions] = [w \in RcWorkers |-> "loop"]]
    /\ rcNonce' = [w \in RcWorkers |-> w * RangeSize]
    /\ rcHashed' = [w \in RcWorkers |-> {}]
    /\ rcCaller' = "on"
    /\ UNCHANGED <<rcSessions, rcXmrig, rcChild, rcAbandoned>>

\* A worker's thread cannot be started: the start fails, the workers before it
\* go on, and nobody keeps the manager but to replace it.
RcStartCpuRaises ==
    /\ rcCaller = "cpu"
    /\ rcCpu' = rcCpu \union {rcSessions} /\ rcFlag' = rcFlag \union {rcSessions}
    /\ \E n \in RcWorkers :
          rcWorker' = [rcWorker EXCEPT ![rcSessions] =
                          [w \in RcWorkers |-> IF w < n THEN "loop" ELSE "none"]]
    /\ rcAbandoned' = rcAbandoned \union {rcSessions}
    /\ rcCaller' = "off"
    /\ UNCHANGED <<rcSessions, rcXmrig, rcChild, rcNonce, rcHashed>>

\* Fault variant: the engines are alternatives.
RcStopOneOf ==
    /\ rcCaller = "on"
    /\ rcFlag' = rcFlag \ {rcSessions}
    /\ rcCpu' = rcCpu \ {rcSessions}
    /\ rcXmrig' = rcXmrig \ {rcSessions}
    /\ rcChild' = [rcChild EXCEPT ![rcSessions] =
                      IF @ = "runs" /\ rcSessions \notin rcCpu THEN "told" ELSE @]
    /\ rcCaller' = "off"
    /\ UNCHANGED <<rcSessions, rcWork, rcAbandoned>>

\* stop: every engine the manager has.  A worker may outlive its 2 s of join.
RcStop ==
    /\ rcCaller = "on"
    /\ rcFlag' = rcFlag \ {rcSessions}
    /\ rcCpu' = rcCpu \ {rcSessions}
    /\ rcXmrig' = rcXmrig \ {rcSessions}
    /\ rcChild' = [rcChild EXCEPT ![rcSessions] =
                      IF @ = "runs" /\ rcSessions \in rcXmrig THEN "told" ELSE @]
    /\ rcCaller' = "off"
    /\ UNCHANGED <<rcSessions, rcWork, rcAbandoned>>

RcChildEnds(s) ==
    /\ rcChild[s] \in {"runs", "told"}
    /\ rcChild' = [rcChild EXCEPT ![s] = "dead"]
    /\ UNCHANGED <<rcCaller, rcSessions, rcCpu, rcXmrig, rcFlag, rcWork, rcAbandoned>>
-----------------------------------------------------------------------------
(* _compute_worker of the current engine and of those before it.           *)

RcLoop(s, w) ==
    /\ rcWorker[s][w] = "loop"
    /\ rcWorker' = [rcWorker EXCEPT ![s][w] = IF s \in rcFlag THEN "hash" ELSE "ended"]
    /\ UNCHANGED <<rcCaller, rcSessions, rcEngines, rcNonce, rcHashed, rcAbandoned>>

\* Fault variant: the test for the end of the range is off by one.
RcNextNoncePast(w, n) == IF n + 1 > (w + 1) * RangeSize THEN w * RangeSize ELSE n + 1

\* The nonce after this one: at the end of the range, the range again.
RcNextNonce(w, n) == IF n + 1 >= (w + 1) * RangeSize THEN w * RangeSize ELSE n + 1

\* A hash, of the current engine's header or of an older one's.  The header has
\* the low bits of the nonce.
RcHash(s, w) ==
    /\ rcWorker[s][w] = "hash"
    /\ IF s = rcSessions
       THEN /\ rcHashed' = [rcHashed EXCEPT ![w] = @ \union {rcNonce[w] % NonceSpace}]
            /\ rcNonce' = [rcNonce EXCEPT ![w] = RcNextNonce(w, @)]
       ELSE UNCHANGED <<rcHashed, rcNonce>>
    /\ rcWorker' = [rcWorker EXCEPT ![s][w] = "loop"]
    /\ UNCHANGED <<rcCaller, rcSessions, rcEngines, rcAbandoned>>

RcNext ==
    \/ RcStart \/ RcStartXmrig \/ RcStartCpu \/ RcStartCpuRaises \/ RcStop
    \/ \E s \in RcSessionIds :
          \/ RcChildEnds(s)
          \/ \E w \in RcWorkers : RcLoop(s, w) \/ RcHash(s, w)

RcTypeOK ==
    /\ rcCaller \in {"off", "xmrig", "cpu", "on"} /\ rcSessions \in 0 .. MaxSessions
    /\ rcCpu \union rcXmrig \union rcFlag \union rcAbandoned \subseteq RcSessionIds
    /\ rcWorker \in [RcSessionIds -> [RcWorkers -> {"none", "loop", "hash", "ended"}]]
    /\ rcNonce \in [RcWorkers -> 0 .. RcThreads * RangeSize]
    /\ rcHashed \in [RcWorkers -> SUBSET (0 .. NonceSpace - 1)]
    /\ rcChild \in [RcSessionIds -> {"none", "runs", "told", "dead"}]

\* What computes belongs to the session that is on, or is on its way out: no
\* fallback and no order of starts and stops leaves an engine behind, but for
\* a start that failed with its workers on.
RcNothingLeftBehind ==
    /\ \A s \in rcFlag \ rcAbandoned : s = rcSessions /\ rcCaller = "on"
    /\ \A s \in RcSessionIds \ rcAbandoned :
          rcChild[s] = "runs" => s = rcSessions /\ rcCaller # "off"

\* No nonce is hashed by two of an engine's workers whose ranges are within
\* the nonces there are, however many workers there are beside them.
RcNonceHasOneWorker ==
    \A v, w \in RcFitting : v # w => rcHashed[v] \intersect rcHashed[w] = {}

\* "Each thread gets different nonce range" (real_vgpu_compute.py,
\* _compute_worker): no nonce is hashed by two workers of an engine.  (The
\* range of a seventeenth is the first one's again.)
RcRangesDiffer ==
    \A v, w \in RcWorkers : v # w => rcHashed[v] \intersect rcHashed[w] = {}
=============================================================================
