------------------------------ MODULE TradeFlow ------------------------------
(***************************************************************************)
(* A trade from the monitor's list to its record: the execution loop of    *)
(* NexusAgent, the queue and the dispatch loop of TradeScheduler and the   *)
(* transactions of TransactionExecutor.  An opportunity here is one of the *)
(* trading strategies; for those of mining _try_execute returns at once,   *)
(* and the monitor builds no other strategy at this commit.                *)
(*                                                                         *)
(* External: the chain, and time as it passes for a queued trade.          *)
(***************************************************************************)
EXTENDS Naturals, FiniteSets

CONSTANTS TfOpps,        \* opportunities
          TfMaxQueued,   \* bound: trades enqueued
          TfMaxStarts,   \* bound: starts of the agent
          TfMaxLegs      \* transactions of a trade, approvals included

ASSUME TfAssumption ==
    TfMaxQueued \in Nat /\ TfMaxStarts \in Nat /\ TfMaxLegs \in Nat \ {0}

TfTrades  == 1 .. TfMaxQueued
TfLoops   == {"exec"} \X (1 .. TfMaxStarts)
TfThreads == TfLoops \union ({"dispatch"} \X (1 .. TfMaxStarts))
NoOpp     == 0

VARIABLES
    tfRunning, tfStarts,   \* _running of agent and scheduler; starts so far
    tfListed,              \* opportunities in the monitor's list, fresh
    tfExecuted,            \* opp.executed
    tfQueue,               \* TradeScheduler._queue
    tfTradeOf, tfQueued,   \* the opportunity of each trade; trades so far
    tfOld,                 \* external: trades that waited 80 % of max_wait_seconds
    tfStep, tfOpp, tfLegs, \* each thread: where it is, with what, legs to go
    tfSnapshot, tfWalk,    \* of a dispatcher: its snapshot, the trades to look at
    tfRemove,              \* and those submitted or expired
    tfSettled, tfExposed,  \* history: trades that left the queue; pushed during a walk
    tfOnChain,             \* external: opportunities whose last leg succeeded
    tfSuccess, tfNotMined, \* history: recorded as a success; of those, simulated or in a bundle
    tfUnsure               \* history: given up with the last leg perhaps under way

tfQueueing  == <<tfQueue, tfTradeOf, tfQueued, tfOld, tfSnapshot, tfWalk, tfRemove, tfSettled, tfExposed>>
tfLife      == <<tfRunning, tfStarts>>
tfOutcome   == <<tfExecuted, tfOnChain, tfSuccess, tfNotMined, tfUnsure>>
tfThread    == <<tfStep, tfOpp, tfLegs>>
tfVars == <<tfLife, tfListed, tfQueueing, tfOutcome, tfThread>>

TfInit ==
    /\ tfRunning = FALSE /\ tfStarts = 0 /\ tfListed = {}
    /\ tfQueue = {} /\ tfTradeOf = [k \in TfTrades |-> NoOpp] /\ tfQueued = 0 /\ tfOld = {}
    /\ tfStep = [t \in TfThreads |-> "none"]
    /\ tfOpp = [t \in TfThreads |-> NoOpp] /\ tfLegs = [t \in TfThreads |-> 0]
    /\ tfSnapshot = [t \in TfThreads |-> {}] /\ tfWalk = [t \in TfThreads |-> {}]
    /\ tfRemove = [t \in TfThreads |-> {}]
    /\ tfSettled = {} /\ tfExposed = {}
    /\ tfExecuted = {} /\ tfOnChain = {} /\ tfSuccess = {} /\ tfNotMined = {} /\ tfUnsure = {}

TfGoTo(t, step) == tfStep' = [tfStep EXCEPT ![t] = step]
TfRest(t) == IF t \in TfLoops THEN "asleep" ELSE "walk"
-----------------------------------------------------------------------------
(* NexusAgent.start and stop, TradeScheduler.start and stop, the monitor.  *)

TfStart ==
    /\ ~tfRunning /\ tfStarts < TfMaxStarts
    /\ tfRunning' = TRUE /\ tfStarts' = tfStarts + 1
    /\ tfStep' = [t \in TfThreads |-> IF t[2] = tfStarts' THEN "asleep" ELSE tfStep[t]]
    /\ UNCHANGED <<tfListed, tfQueueing, tfOutcome, tfOpp, tfLegs>>

TfStop ==
    /\ tfRunning /\ tfRunning' = FALSE
    /\ UNCHANGED <<tfStarts, tfListed, tfQueueing, tfOutcome, tfThread>>

\* A scan finds an opportunity; after a while it is stale.
TfScan(o) ==
    /\ tfListed' = IF o \in tfListed THEN tfListed \ {o} ELSE tfListed \union {o}
    /\ UNCHANGED <<tfLife, tfQueueing, tfOutcome, tfThread>>

TfEnds(t) ==
    /\ tfStep[t] = "asleep" /\ ~tfRunning
    /\ TfGoTo(t, "ended")
    /\ UNCHANGED <<tfLife, tfListed, tfQueueing, tfOutcome, tfOpp, tfLegs>>
-----------------------------------------------------------------------------
(* _try_execute.                                                           *)

\* The best opportunity that is fresh and not executed is recorded.
TfPick(t) ==
    /\ tfStep[t] = "asleep" /\ t \in TfLoops /\ tfRunning
    /\ \E o \in tfListed \ tfExecuted : tfOpp' = [tfOpp EXCEPT ![t] = o]
    /\ TfGoTo(t, "decide")
    /\ UNCHANGED <<tfLife, tfListed, tfQueueing, tfOutcome, tfLegs>>

\* The brain says no.
TfSkip(t) ==
    /\ tfStep[t] = "decide"
    /\ TfGoTo(t, "asleep") /\ tfOpp' = [tfOpp EXCEPT ![t] = NoOpp]
    /\ UNCHANGED <<tfLife, tfListed, tfQueueing, tfOutcome, tfLegs>>

\* Gas is expensive: _defer_trade enqueues, also what is queued already.
TfDefer(t) ==
    /\ tfStep[t] = "decide" /\ tfQueued < TfMaxQueued
    /\ tfQueued' = tfQueued + 1
    /\ tfTradeOf' = [tfTradeOf EXCEPT ![tfQueued'] = tfOpp[t]]
    /\ tfQueue' = tfQueue \union {tfQueued'}
    /\ tfExposed' = IF \E d \in TfThreads : tfSnapshot[d] # {}
                    THEN tfExposed \union {tfQueued'} ELSE tfExposed
    /\ TfGoTo(t, "asleep") /\ tfOpp' = [tfOpp EXCEPT ![t] = NoOpp]
    /\ UNCHANGED <<tfLife, tfListed, tfOld, tfSnapshot, tfWalk, tfRemove, tfSettled, tfOutcome, tfLegs>>

\* TransactionExecutor.execute.
TfExecute(t) ==
    /\ tfStep[t] = "decide"
    /\ TfGoTo(t, "execute")
    /\ UNCHANGED <<tfLife, tfListed, tfQueueing, tfOutcome, tfOpp, tfLegs>>
-----------------------------------------------------------------------------
(* _process_queue.                                                         *)

TfSnapshot(t) ==
    /\ tfStep[t] = "asleep" /\ t \notin TfLoops /\ tfRunning /\ tfQueue # {}
    /\ tfSnapshot' = [tfSnapshot EXCEPT ![t] = tfQueue]
    /\ tfWalk' = [tfWalk EXCEPT ![t] = tfQueue]
    /\ TfGoTo(t, "walk")
    /\ UNCHANGED <<tfLife, tfListed, tfQueue, tfTradeOf, tfQueued, tfOld, tfRemove, tfSettled,
                   tfExposed, tfOutcome, tfOpp, tfLegs>>

\* Time passes for a trade that waits.
TfAge(k) ==
    /\ k \in 1 .. tfQueued \ tfOld
    /\ tfOld' = tfOld \union {k}
    /\ UNCHANGED <<tfLife, tfListed, tfQueue, tfTradeOf, tfQueued, tfSnapshot, tfWalk, tfRemove,
                   tfSettled, tfExposed, tfOutcome, tfThread>>

TfLookedAt(t, k) ==
    /\ tfStep[t] = "walk" /\ k \in tfWalk[t]
    /\ tfWalk' = [tfWalk EXCEPT ![t] = @ \ {k}]
    /\ UNCHANGED <<tfLife, tfListed, tfQueue, tfTradeOf, tfQueued, tfOld, tfSnapshot, tfSettled,
                   tfExposed, tfOutcome, tfLegs>>

TfExpire(t, k) ==
    /\ k \in tfOld
    /\ tfRemove' = [tfRemove EXCEPT ![t] = @ \union {k}]
    /\ TfLookedAt(t, k)
    /\ UNCHANGED <<tfStep, tfOpp>>

TfKeep(t, k) ==
    /\ k \notin tfOld
    /\ TfLookedAt(t, k)
    /\ UNCHANGED <<tfRemove, tfStep, tfOpp>>

\* Gas is cheap, or the trade waited 80 % of its time: the callback.  It does
\* nothing for an opportunity that was executed meanwhile.
TfSubmit(t, k) ==
    /\ tfRemove' = [tfRemove EXCEPT ![t] = @ \union {k}]
    /\ TfLookedAt(t, k)
    /\ IF tfTradeOf[k] \in tfExecuted
       THEN UNCHANGED <<tfStep, tfOpp>>
       ELSE TfGoTo(t, "execute") /\ tfOpp' = [tfOpp EXCEPT ![t] = tfTradeOf[k]]

\* Fault variant: the walk ends with the trades it was done with still there.
TfRebuildUnfiltered(t) ==
    /\ tfStep[t] = "walk" /\ tfWalk[t] = {}
    /\ tfQueue' = tfSnapshot[t]
    /\ UNCHANGED tfSettled
    /\ tfSnapshot' = [tfSnapshot EXCEPT ![t] = {}] /\ tfRemove' = [tfRemove EXCEPT ![t] = {}]
    /\ TfGoTo(t, "asleep")
    /\ UNCHANGED <<tfLife, tfListed, tfTradeOf, tfQueued, tfOld, tfWalk, tfExposed, tfOutcome, tfOpp, tfLegs>>

\* The queue becomes what is left of the snapshot: what was pushed meanwhile
\* is gone.
TfRebuild(t) ==
    /\ tfStep[t] = "walk" /\ tfWalk[t] = {}
    /\ tfQueue' = tfSnapshot[t] \ tfRemove[t]
    /\ tfSettled' = tfSettled \union tfRemove[t]
    /\ tfSnapshot' = [tfSnapshot EXCEPT ![t] = {}] /\ tfRemove' = [tfRemove EXCEPT ![t] = {}]
    /\ TfGoTo(t, "asleep")
    /\ UNCHANGED <<tfLife, tfListed, tfTradeOf, tfQueued, tfOld, tfWalk, tfExposed, tfOutcome, tfOpp, tfLegs>>
-----------------------------------------------------------------------------
(* TransactionExecutor, in either thread.                                  *)

\* mark_executed and the record, whatever the result.
TfRecord(t) ==
    /\ tfExecuted' = tfExecuted \union {tfOpp[t]}
    /\ TfGoTo(t, TfRest(t))
    /\ tfOpp' = [tfOpp EXCEPT ![t] = NoOpp] /\ tfLegs' = [tfLegs EXCEPT ![t] = 0]

\* The wallet is not configured, gas is too high, the balance too low, an
\* address is not known, the trade no longer pays.
TfRefuse(t) ==
    /\ tfStep[t] = "execute"
    /\ TfRecord(t)
    /\ UNCHANGED <<tfLife, tfListed, tfQueueing, tfOnChain, tfSuccess, tfNotMined, tfUnsure>>

\* A dry run, or a signed bundle that the relay took: a success without a receipt.
TfSimulate(t) ==
    /\ tfStep[t] = "execute" \/ (tfStep[t] = "send" /\ tfLegs[t] = 1)
    /\ tfSuccess' = tfSuccess \union {tfOpp[t]} /\ tfNotMined' = tfNotMined \union {tfOpp[t]}
    /\ TfRecord(t)
    /\ UNCHANGED <<tfLife, tfListed, tfQueueing, tfOnChain, tfUnsure>>

TfBuild(t) ==
    /\ tfStep[t] = "execute"
    /\ \E n \in 1 .. TfMaxLegs : tfLegs' = [tfLegs EXCEPT ![t] = n]
    /\ TfGoTo(t, "send")
    /\ UNCHANGED <<tfLife, tfListed, tfQueueing, tfOutcome, tfOpp>>

TfSend(t) ==
    /\ tfStep[t] = "send" /\ TfGoTo(t, "receipt")
    /\ UNCHANGED <<tfLife, tfListed, tfQueueing, tfOutcome, tfOpp, tfLegs>>

\* The leg could not be built, or its send raised: refused by the node, or
\* taken (as a bundle of the same nonce, too) and only the answer lost.  Which
\* of them it was the code does not ask.
TfRaises(t) ==
    /\ tfStep[t] = "send"
    /\ tfUnsure' = IF tfLegs[t] = 1 THEN tfUnsure \union {tfOpp[t]} ELSE tfUnsure
    /\ TfRecord(t)
    /\ UNCHANGED <<tfLife, tfListed, tfQueueing, tfOnChain, tfSuccess, tfNotMined>>

\* An approval reverted, where its status counts.
TfReverted(t) ==
    /\ tfStep[t] = "receipt" /\ tfLegs[t] > 1
    /\ TfRecord(t)
    /\ UNCHANGED <<tfLife, tfListed, tfQueueing, tfOnChain, tfSuccess, tfNotMined, tfUnsure>>

\* The receipt of a leg before the last; an arbitrage goes on if it reverted.
TfNextLeg(t) ==
    /\ tfStep[t] = "receipt" /\ tfLegs[t] > 1
    /\ tfLegs' = [tfLegs EXCEPT ![t] = @ - 1]
    /\ TfGoTo(t, "send")
    /\ UNCHANGED <<tfLife, tfListed, tfQueueing, tfOutcome, tfOpp>>

\* Fault variant: the hash is returned whatever the receipt says.
TfLastLegAnyStatus(t) ==
    /\ tfStep[t] = "receipt" /\ tfLegs[t] = 1
    /\ \E ok \in BOOLEAN :
          /\ tfOnChain' = IF ok THEN tfOnChain \union {tfOpp[t]} ELSE tfOnChain
          /\ tfSuccess' = tfSuccess \union {tfOpp[t]}
    /\ TfRecord(t)
    /\ UNCHANGED <<tfLife, tfListed, tfQueueing, tfNotMined, tfUnsure>>

\* The receipt of the last leg decides.
TfLastLeg(t) ==
    /\ tfStep[t] = "receipt" /\ tfLegs[t] = 1
    /\ \E ok \in BOOLEAN :
          /\ tfOnChain' = IF ok THEN tfOnChain \union {tfOpp[t]} ELSE tfOnChain
          /\ tfSuccess' = IF ok THEN tfSuccess \union {tfOpp[t]} ELSE tfSuccess
    /\ TfRecord(t)
    /\ UNCHANGED <<tfLife, tfListed, tfQueueing, tfNotMined, tfUnsure>>

\* No receipt in time, or the node does not answer: a failure, although the
\* leg may be mined later.
TfTimeout(t) ==
    /\ tfStep[t] = "receipt"
    /\ tfUnsure' = IF tfLegs[t] = 1 THEN tfUnsure \union {tfOpp[t]} ELSE tfUnsure
    /\ TfRecord(t)
    /\ UNCHANGED <<tfLife, tfListed, tfQueueing, tfOnChain, tfSuccess, tfNotMined>>

TfMinedLate(o) ==
    /\ o \in tfUnsure /\ tfOnChain' = tfOnChain \union {o}
    /\ UNCHANGED <<tfLife, tfListed, tfQueueing, tfExecuted, tfSuccess, tfNotMined, tfUnsure, tfThread>>

TfExecutorNext(t) ==
    TfRefuse(t) \/ TfSimulate(t) \/ TfBuild(t) \/ TfSend(t) \/ TfRaises(t) \/ TfReverted(t)
        \/ TfNextLeg(t) \/ TfLastLeg(t) \/ TfTimeout(t)

TfDispatchNext(t) ==
    \/ TfSnapshot(t) \/ TfRebuild(t)
    \/ \E k \in TfTrades : TfExpire(t, k) \/ TfKeep(t, k) \/ TfSubmit(t, k)

TfNext ==
    \/ TfStart \/ TfStop
    \/ \E o \in TfOpps : TfScan(o) \/ TfMinedLate(o)
    \/ \E k \in TfTrades : TfAge(k)
    \/ \E t \in TfThreads :
          TfEnds(t) \/ TfPick(t) \/ TfSkip(t) \/ TfDefer(t) \/ TfExecute(t)
              \/ TfDispatchNext(t) \/ TfExecutorNext(t)

TfTypeOK ==
    /\ tfRunning \in BOOLEAN /\ tfStarts \in 0 .. TfMaxStarts /\ tfListed \subseteq TfOpps
    /\ tfQueue \union tfOld \union tfSettled \union tfExposed \subseteq 1 .. tfQueued
    /\ tfQueued \in 0 .. TfMaxQueued /\ tfTradeOf \in [TfTrades -> TfOpps \union {NoOpp}]
    /\ tfStep \in [TfThreads -> {"none", "asleep", "decide", "walk", "execute", "send", "receipt", "ended"}]
    /\ tfOpp \in [TfThreads -> TfOpps \union {NoOpp}] /\ tfLegs \in [TfThreads -> 0 .. TfMaxLegs]
    /\ \A t \in TfThreads : tfWalk[t] \union tfRemove[t] \subseteq tfSnapshot[t]
    /\ tfExecuted \union tfOnChain \union tfSuccess \union tfNotMined \union tfUnsure \subseteq TfOpps

\* What is recorded as a success, and queued for payout, was mined with
\* success but for dry runs and bundles; what was mined is recorded, unless
\* the last leg's send raised or its thread gave up waiting for the receipt.
TradeSuccessIsMined ==
    /\ tfSuccess \subseteq tfOnChain \union tfNotMined
    /\ tfOnChain \subseteq tfSuccess \union tfUnsure

\* Every trade ever queued is submitted or expires, unless it was pushed into
\* the middle of a walk over the queue or the scheduler is stopped.
TradeSettles ==
    []<>(tfRunning => 1 .. tfQueued \subseteq tfSettled \union tfExposed)

\* Both loops and the dispatcher wait with timeouts and sleeps only, and time passes.
TfFairness ==
    /\ \A t \in TfThreads : WF_tfVars(TfDispatchNext(t)) /\ WF_tfVars(TfExecutorNext(t))
    /\ \A k \in TfTrades : WF_tfVars(TfAge(k))
=============================================================================
