------------------------------- MODULE Brain -------------------------------
(***************************************************************************)
(* NexusBrain (nexus/learning/): the decision on an opportunity and what a *)
(* trade teaches.  The agent's loop decides and executes, or defers; the   *)
(* scheduler's dispatcher executes what was deferred; both call learn(),   *)
(* which holds the brain's lock, while should_execute() takes none.  The   *)
(* threads are native ones (nexus/worker.py).  Scores are a choice.  Of    *)
(* the tuned parameters those are kept that decide: amounts in cents, the  *)
(* confidence bar in hundredths.                                           *)
(***************************************************************************)
EXTENDS Integers, Sequences, FiniteSets

CONSTANTS
    BrOpps,        \* opportunities, by id
    BrProfit,      \* the profit each one estimates
    BrMinProfit,   \* MIN_PROFIT_USD of the configuration
    BrWindow,      \* WINDOW of the optimizer (50)
    BrEnough, BrSure, BrMany,  \* its 10 outcomes, 15 wins, 20 outcomes
    BrSamples,     \* MIN_SAMPLES (30)
    BrEvery,       \* RETRAIN_EVERY (10)
    BrMaxPreds, BrKept,  \* the list of predictions is cut at 1000, to 500
    BrMaxAsks      \* bound: decisions made

\* An estimate may be any number, and 0 is no opportunity's id.
ASSUME BrAssumption ==
    /\ BrProfit \in [BrOpps -> Int] /\ BrMinProfit \in Int /\ 0 \notin BrOpps
    /\ BrWindow \in Nat /\ BrSamples \in Nat \ {0} /\ BrEvery \in Nat \ {0}
    /\ BrMaxPreds \in Nat /\ BrKept \in Nat

VARIABLES
    brRow,       \* the table of opportunities: none, seen, won or lost
    brFiles,     \* the model files: rows trained on, 0 none, -1 torn
    brModel,     \* _classifier and _regressor in memory, likewise
    brPreds,     \* _ml_predictions
    brPredId,    \* _prediction_id in each opportunity, 0: none
    brTally,     \* approved, rejected, right and wrong
    brParams,    \* min_profit_usd and confidence_threshold
    brHistory,   \* _history of the optimizer
    brTrades,    \* _trade_counter, up to the next training
    brExecuted,  \* opportunities marked executed
    brDeferred,  \* opportunities queued with the scheduler
    brPc, brOpp, brWon, brCut  \* of each thread: place, opportunity, result, slice

brMind == <<brModel, brPreds, brPredId, brTally, brParams, brHistory, brTrades>>
brVars == <<brRow, brFiles, brMind, brExecuted, brDeferred, brPc, brOpp, brWon, brCut>>

BrThreads == {"agent", "dispatcher"}
LastOf(s, n) == SubSeq(s, IF Len(s) > n THEN Len(s) - n + 1 ELSE 1, Len(s))
NoModel == [clf |-> 0, reg |-> 0]
NoTally == [approved |-> 0, rejected |-> 0, right |-> 0, wrong |-> 0]
FirstParams == [profit |-> BrMinProfit, bar |-> 30]

\* _load_models: a file that cannot be read leaves no model at all.
LoadedModel == IF -1 \in {brFiles.clf, brFiles.reg} THEN NoModel ELSE brFiles

BrInit ==
    /\ brRow = [o \in BrOpps |-> "none"]
    /\ brFiles = NoModel /\ brModel = NoModel
    /\ brPreds = <<>> /\ brPredId = [o \in BrOpps |-> 0] /\ brTally = NoTally
    /\ brParams = FirstParams /\ brHistory = <<>> /\ brTrades = 0
    /\ brExecuted = {} /\ brDeferred = {}
    /\ brPc = [t \in BrThreads |-> "idle"]
    /\ brOpp = [t \in BrThreads |-> 0] /\ brWon = [t \in BrThreads |-> FALSE]
    /\ brCut = [t \in BrThreads |-> <<>>]

BrGo(t, pc) == brPc' = [brPc EXCEPT ![t] = pc]
BrEnd(t) ==
    /\ BrGo(t, "idle")
    /\ brOpp' = [brOpp EXCEPT ![t] = 0] /\ brWon' = [brWon EXCEPT ![t] = FALSE]
BrLocked == \E t \in BrThreads : brPc[t] \in {"write", "tune", "train", "dumpClf", "dumpReg", "trim", "cut"}

-----------------------------------------------------------------------------
\* The agent's loop takes an opportunity that is not executed and stores it;
\* a row that exists stays as it is.
BrFind(o) ==
    /\ brPc["agent"] = "idle" /\ o \notin brExecuted
    /\ brTally.approved + brTally.rejected < BrMaxAsks
    /\ brRow' = [brRow EXCEPT ![o] = IF @ = "none" THEN "seen" ELSE @]
    /\ brOpp' = [brOpp EXCEPT !["agent"] = o]
    /\ BrGo("agent", "decide")
    /\ UNCHANGED <<brFiles, brMind, brExecuted, brDeferred, brWon, brCut>>

NewId == brTally.approved + brTally.rejected + 1
Prediction(o, skip) == [id |-> NewId, opp |-> o, skip |-> skip, known |-> FALSE]

\* should_execute: no.  Only what the score turns down is a prediction.
BrReject ==
    /\ brPc["agent"] = "decide"
    /\ LET o == brOpp["agent"]
       IN brPreds' = IF BrProfit[o] < brParams.profit THEN brPreds
                     ELSE Append(brPreds, Prediction(o, TRUE))
    /\ brTally' = [brTally EXCEPT !.rejected = @ + 1]
    /\ BrEnd("agent")
    /\ UNCHANGED <<brRow, brFiles, brModel, brPredId, brParams, brHistory, brTrades,
                   brExecuted, brDeferred, brCut>>

\* should_execute: yes; the agent executes, or defers until gas is cheap.
BrApprove ==
    /\ brPc["agent"] = "decide"
    /\ LET o == brOpp["agent"]
       IN /\ BrProfit[o] >= brParams.profit
          /\ brPreds' = Append(brPreds, Prediction(o, FALSE))
          /\ brPredId' = [brPredId EXCEPT ![o] = NewId]
          /\ brTally' = [brTally EXCEPT !.approved = @ + 1]
          /\ \/ BrGo("agent", "execute") /\ UNCHANGED <<brDeferred, brOpp, brWon>>
             \/ BrEnd("agent") /\ brDeferred' = brDeferred \cup {o}
    /\ UNCHANGED <<brRow, brFiles, brModel, brParams, brHistory, brTrades,
                   brExecuted, brCut>>

\* The dispatcher calls back for a deferred opportunity.
BrDispatch(o) ==
    /\ brPc["dispatcher"] = "idle" /\ o \in brDeferred
    /\ brDeferred' = brDeferred \ {o}
    /\ IF o \in brExecuted THEN UNCHANGED <<brOpp, brPc>>
       ELSE /\ brOpp' = [brOpp EXCEPT !["dispatcher"] = o]
            /\ BrGo("dispatcher", "execute")
    /\ UNCHANGED <<brRow, brFiles, brMind, brExecuted, brWon, brCut>>

\* A trade ends; monitor.mark_executed.
BrExecute(t) ==
    /\ brPc[t] = "execute"
    /\ \E won \in BOOLEAN : brWon' = [brWon EXCEPT ![t] = won]
    /\ brExecuted' = brExecuted \cup {brOpp[t]}
    /\ BrGo(t, "learn")
    /\ UNCHANGED <<brRow, brFiles, brMind, brDeferred, brOpp, brCut>>

-----------------------------------------------------------------------------
\* learn(), step by step.  The prediction meant is the one the opportunity
\* names, if it is open, else the last open one about the opportunity.
Open(o) == {i \in DOMAIN brPreds : brPreds[i].opp = o /\ ~brPreds[i].known}
Matched(o, open) ==
    LET named == {i \in open : brPreds[i].id = brPredId[o]}
    IN IF named # {} THEN named ELSE {i \in open : \A j \in open : j <= i}

\* The prediction is resolved, and counts if it was not to skip.
Resolve(t, hits) ==
    /\ brPreds' = [i \in DOMAIN brPreds |->
                     IF i \in hits THEN [brPreds[i] EXCEPT !.known = TRUE] ELSE brPreds[i]]
    /\ brTally' = IF \E i \in hits : ~brPreds[i].skip
                  THEN IF brWon[t] THEN [brTally EXCEPT !.right = @ + 1]
                                   ELSE [brTally EXCEPT !.wrong = @ + 1]
                  ELSE brTally
    /\ BrGo(t, "write")
    /\ UNCHANGED <<brRow, brFiles, brModel, brPredId, brParams, brHistory, brTrades,
                   brExecuted, brDeferred, brOpp, brWon, brCut>>

\* Fault variant: learn() does not take the lock.
BrMatchUnlocked(t) == brPc[t] = "learn" /\ Resolve(t, Matched(brOpp[t], Open(brOpp[t])))

BrMatch(t) ==
    /\ brPc[t] = "learn" /\ ~BrLocked
    /\ Resolve(t, Matched(brOpp[t], Open(brOpp[t])))

\* memory.record_outcome: the last outcome stands.
BrWrite(t) ==
    /\ brPc[t] = "write"
    /\ brRow' = [brRow EXCEPT ![brOpp[t]] = IF @ = "none" THEN @
                                            ELSE IF brWon[t] THEN "won" ELSE "lost"]
    /\ BrGo(t, "tune")
    /\ UNCHANGED <<brFiles, brMind, brExecuted, brDeferred, brOpp, brWon, brCut>>

\* _nudge.
Nudge(old, delta, lo, hi) ==
    LET new == old + delta IN IF new < lo THEN lo ELSE IF new > hi THEN hi ELSE new

\* _optimize, over the last outcomes: many wins raise the profit demanded,
\* many losses lower it and raise the bar.
Tuned(history) ==
    LET recent == LastOf(history, BrWindow)
        n == Len(recent)
        wins == Cardinality({i \in 1 .. n : recent[i].won})
    IN IF n < BrEnough THEN brParams ELSE
       [profit |->
          IF 4 * wins > 3 * n /\ wins >= BrSure
          THEN Nudge(brParams.profit, 1000, 50, 50000)
          ELSE IF 5 * wins < 2 * n /\ n >= BrMany
          THEN Nudge(brParams.profit, -500, 50, 50000) ELSE brParams.profit,
        bar |->
          IF n - wins > 2 * wins /\ brParams.bar < 90
          THEN Nudge(brParams.bar, 5, 10, 95)
          ELSE IF 5 * wins > 4 * n /\ brParams.bar > 20
          THEN Nudge(brParams.bar, -3, 10, 95) ELSE brParams.bar]

\* optimizer.add_outcome, which tunes when the last time is long ago, and
\* the count of trades.
BrTune(t) ==
    /\ brPc[t] = "tune"
    /\ brHistory' = LastOf(Append(brHistory, [opp |-> brOpp[t], won |-> brWon[t]]),
                           3 * BrWindow)
    /\ brParams' \in {brParams, Tuned(brHistory')}
    /\ brTrades' = (brTrades + 1) % BrEvery
    /\ BrGo(t, IF brTrades' = 0 THEN "train" ELSE "trim")
    /\ UNCHANGED <<brRow, brFiles, brModel, brPreds, brPredId, brTally,
                   brExecuted, brDeferred, brOpp, brWon, brCut>>

Taught == Cardinality({o \in BrOpps : brRow[o] \in {"won", "lost"}})

\* _retrain: with too few rows, or an error, nothing changes.
BrTrain(t) ==
    /\ brPc[t] = "train"
    /\ \/ BrGo(t, "trim") /\ UNCHANGED brModel
       \/ /\ Taught >= BrSamples
          /\ brModel' = [clf |-> Taught, reg |-> Taught]
          /\ BrGo(t, "dumpClf")
    /\ UNCHANGED <<brRow, brFiles, brPreds, brPredId, brTally, brParams, brHistory,
                   brTrades, brExecuted, brDeferred, brOpp, brWon, brCut>>

\* _save_models: one file, then the other.  A write that fails leaves the
\* old file or a torn one, and ends the saving.
BrDump(t, pc, file, next) ==
    /\ brPc[t] = pc
    /\ \/ brFiles' = [brFiles EXCEPT ![file] = brModel[file]] /\ BrGo(t, next)
       \/ brFiles' \in {brFiles, [brFiles EXCEPT ![file] = -1]} /\ BrGo(t, "trim")
    /\ UNCHANGED <<brRow, brMind, brExecuted, brDeferred, brOpp, brWon, brCut>>

\* A list of predictions that is too long is replaced by its end; what
\* should_execute appends in between is lost.
BrTrim(t) ==
    /\ brPc[t] = "trim"
    /\ IF Len(brPreds) > BrMaxPreds
       THEN /\ brCut' = [brCut EXCEPT ![t] = LastOf(brPreds, BrKept)]
            /\ BrGo(t, "cut") /\ UNCHANGED <<brOpp, brWon>>
       ELSE BrEnd(t) /\ UNCHANGED brCut
    /\ UNCHANGED <<brRow, brFiles, brMind, brExecuted, brDeferred>>

BrCut(t) ==
    /\ brPc[t] = "cut"
    /\ brPreds' = brCut[t]
    /\ brCut' = [brCut EXCEPT ![t] = <<>>]
    /\ BrEnd(t)
    /\ UNCHANGED <<brRow, brFiles, brModel, brPredId, brTally, brParams, brHistory,
                   brTrades, brExecuted, brDeferred>>

\* The process starts again; the table and the files are what is left.
BrRestart ==
    /\ brModel' = LoadedModel
    /\ brPreds' = <<>> /\ brPredId' = [o \in BrOpps |-> 0] /\ brTally' = NoTally
    /\ brParams' = FirstParams /\ brHistory' = <<>> /\ brTrades' = 0
    /\ brExecuted' = {} /\ brDeferred' = {}
    /\ brPc' = [t \in BrThreads |-> "idle"] /\ brCut' = [t \in BrThreads |-> <<>>]
    /\ brOpp' = [t \in BrThreads |-> 0] /\ brWon' = [t \in BrThreads |-> FALSE]
    /\ UNCHANGED <<brRow, brFiles>>

BrNext ==
    \/ BrReject \/ BrApprove \/ BrRestart
    \/ \E o \in BrOpps : BrFind(o) \/ BrDispatch(o)
    \/ \E t \in BrThreads :
          \/ BrExecute(t) \/ BrMatch(t) \/ BrWrite(t) \/ BrTune(t) \/ BrTrain(t)
          \/ BrDump(t, "dumpClf", "clf", "dumpReg") \/ BrDump(t, "dumpReg", "reg", "trim")
          \/ BrTrim(t) \/ BrCut(t)

BrSpec == BrInit /\ [][BrNext]_brVars

-----------------------------------------------------------------------------
\* The types of the brain's variables; a parameter keeps to its rails from its
\* first change on.
BrTypeOK ==
    /\ brRow \in [BrOpps -> {"none", "seen", "won", "lost"}]
    /\ brTally \in [{"approved", "rejected", "right", "wrong"} -> Nat]
    /\ \A i \in DOMAIN brPreds : brPreds[i].opp \in BrOpps
    /\ brParams.profit \in Int /\ brParams.bar \in 10 .. 95
    /\ brParams.profit = BrMinProfit \/ (50 <= brParams.profit /\ brParams.profit <= 50000)
    /\ brTrades \in 0 .. BrEvery - 1 /\ Len(brHistory) <= 3 * BrWindow
    /\ brExecuted \subseteq BrOpps /\ brDeferred \subseteq BrOpps
    /\ brOpp \in [BrThreads -> BrOpps \cup {0}] /\ brWon \in [BrThreads -> BOOLEAN]

\* However trades of both threads, retries of one opportunity and cuts of the
\* list mix: an approval is counted as right or wrong at most once, and not
\* while it is open.
BrTallyIsTrue ==
    brTally.right + brTally.wrong
        + Cardinality({i \in DOMAIN brPreds : ~brPreds[i].skip /\ ~brPreds[i].known})
    <= brTally.approved

\* The two places an outcome goes to agree, between two calls of learn(), on
\* how an opportunity that was executed twice ended.
BrMemoryAgrees ==
    ~BrLocked => \A i \in DOMAIN brHistory :
        (\A j \in DOMAIN brHistory : j > i => brHistory[j].opp # brHistory[i].opp)
        => brRow[brHistory[i].opp] = IF brHistory[i].won THEN "won" ELSE "lost"

\* No model in use or on disk was trained on fewer rows than it takes.
BrModelIsTrained ==
    \A m \in {brModel, brFiles} : \A n \in {m.clf, m.reg} :
        n > 0 => n >= BrSamples /\ n <= Taught

\* What the brain learns is what happened.
LearningIsSound == BrTallyIsTrue /\ BrMemoryAgrees /\ BrModelIsTrained
=============================================================================
