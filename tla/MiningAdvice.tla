---------------------------- MODULE MiningAdvice ----------------------------
(***************************************************************************)
(* nexus/strategies/ai_mining_optimizer.py (EnhancedAIMiningOptimizer over *)
(* AIMiningOptimizer: ensemble, anomaly detector, tuner) under the loop of *)
(* nexus/strategies/pow_mining.py that asks it every 30 s, applies what it *)
(* advises and lets it learn.  The dashboard sets the intensity and the    *)
(* switches of the optimizer meanwhile.                                    *)
(*                                                                         *)
(* What the models compute is left open: each may vote for any action of   *)
(* its own list, and the weights may give the vote to any of them.         *)
(***************************************************************************)
EXTENDS Integers, FiniteSets

CONSTANTS MaMaxRounds,     \* bound: rounds of the loop
          MaAnomalyNeeds,  \* snapshots that the anomaly detector needs, 10
          MaTuneEvery,     \* rounds between two suggestions of the tuner, 10
          MaSaveEvery,     \* optimisations between two savings of the models, 100
          MaPanel,         \* the intensities that the user sets
          MaMaxCalls       \* bound: calls of the dashboard

ASSUME AdviceAssumption ==
    /\ MaMaxRounds \in Nat /\ MaAnomalyNeeds \in Nat /\ MaTuneEvery \in Nat \ {0}
    /\ MaSaveEvery \in Nat \ {0}
    /\ MaMaxCalls \in Nat
    /\ MaPanel \subseteq 1 .. 100 /\ MaPanel # {}

MaSequence  == 3                \* snapshots that the ensemble needs
MaTemps     == {"cool", "warm", "hot"}      \* below 75, below 85, from 85 degrees
MaSuggested == {50, 100}        \* intensities of the network and of the tuner
MaNone      == 0

Ma_Max(a, b) == IF a > b THEN a ELSE b
Ma_Min(a, b) == IF a < b THEN a ELSE b

\* MiningRLAgent.ACTIONS, DeepQNetwork.ACTIONS.
BasicActions == {"CONTINUE", "INCREASE", "DECREASE", "POWER", "COOL_DOWN"}
DqnActions   == BasicActions \union {"SWITCH_ALGORITHM", "SWITCH_COIN"}

VARIABLES
    maPc,        \* where the loop is in its round
    maTaken,     \* snapshots taken since the process began
    maSnap,      \* the snapshot of this round
    maLast,      \* _last_snapshot: its number, MaNone at first
    maIntensity, \* intensity of the miner
    maProfile,   \* intensity of the profile of GPU 0, MaNone without one
    maLearning,  \* _learning_enabled
    maEnsemble,  \* _use_ensemble
    maTune,      \* _auto_tune
    maOptimized, \* _total_optimizations
    maWait,      \* the parent advised in the round before: 60 s are not over
    maResult,    \* the advice: decision, recommended intensity, confidence >= 0.6
    maAgent,     \* what MiningRLAgent of the parent has learned from: pairs of snapshots
    maDqn,       \* and DeepQNetwork of the ensemble
    maBasic,     \* and MiningRLAgent of the ensemble
    maVoted,     \* _recent_predictions is not empty
    maJudged,    \* _model_total of each model
    maAlways,    \* history: learning was never disabled
    maUnsaved,   \* history: the lessons after which saving the models raised
    maCalls      \* counter of the bound

maSettings == <<maLearning, maEnsemble, maTune, maAlways, maCalls>>
maLearned  == <<maAgent, maDqn, maBasic, maUnsaved, maJudged>>
maVars     == <<maPc, maTaken, maSnap, maLast, maIntensity, maProfile, maSettings,
                maOptimized, maWait, maResult, maLearned, maVoted>>

Advice(decision, intensity, sure) ==
    [decision |-> decision, intensity |-> intensity, sure |-> sure]

NoAdvice == Advice("CONTINUE", MaNone, FALSE)

MaInit ==
    /\ maPc = "sleep" /\ maTaken = 0 /\ maLast = MaNone
    /\ maSnap = [n |-> 0, temp |-> "cool", intensity |-> 0]
    /\ maIntensity \in MaPanel /\ maProfile \in {MaNone, 80}
    /\ maLearning = TRUE /\ maEnsemble = TRUE /\ maTune = TRUE /\ maAlways = TRUE
    /\ maOptimized = 0 /\ maWait = FALSE /\ maResult = NoAdvice
    /\ maAgent = {} /\ maDqn = {} /\ maBasic = {} /\ maUnsaved = {}
    /\ maVoted = FALSE /\ maJudged = 0 /\ maCalls = 0

-----------------------------------------------------------------------------
(* The dashboard.                                                          *)

MaConfigure ==
    /\ maCalls < MaMaxCalls /\ maCalls' = maCalls + 1
    /\ maLearning' \in BOOLEAN /\ maEnsemble' \in BOOLEAN /\ maTune' \in BOOLEAN
    /\ maAlways' = (maAlways /\ maLearning')
    /\ UNCHANGED <<maPc, maTaken, maSnap, maLast, maIntensity, maProfile, maOptimized, maWait,
                   maResult, maLearned, maVoted>>

MaSetIntensity ==
    /\ maCalls < MaMaxCalls /\ maCalls' = maCalls + 1
    /\ maIntensity' \in MaPanel
    /\ UNCHANGED <<maPc, maTaken, maSnap, maLast, maProfile, maLearning, maEnsemble, maTune,
                   maAlways, maOptimized, maWait, maResult, maLearned, maVoted>>

-----------------------------------------------------------------------------
(* A round of the loop.                                                    *)

\* With a GPU optimizer the intensity of the snapshot is the profile's.
MaSnapshot ==
    /\ maPc = "sleep" /\ maTaken < MaMaxRounds
    /\ maPc' = "optimize" /\ maTaken' = maTaken + 1
    /\ \E t \in MaTemps :
          maSnap' = [n |-> maTaken + 1, temp |-> t,
                     intensity |-> IF maProfile = MaNone THEN maIntensity ELSE maProfile]
    /\ UNCHANGED <<maLast, maIntensity, maProfile, maSettings, maOptimized, maWait, maResult,
                   maLearned, maVoted>>

Lowered(i, by) == Ma_Max(50, i - by)
Raised(i)      == Ma_Min(100, i + 5)

\* A high temperature, a lost hash rate or many refused shares, once the
\* detector has seen enough.
CriticalAnomaly ==
    /\ maTaken >= MaAnomalyNeeds
    /\ maResult' = Advice("COOL_DOWN", Lowered(maSnap.intensity, 20), TRUE)
    /\ maWait' = FALSE
    /\ UNCHANGED <<maVoted, maOptimized>>

\* What the tuner suggests where the ensemble recommends no intensity.
TunerSuggests(i) == IF maTune /\ maTaken % MaTuneEvery = 0 THEN MaSuggested ELSE {MaNone}

EnsembleSettings(d, i) ==
    CASE d = "INCREASE" -> {Raised(i)}
      [] d = "DECREASE" -> {Lowered(i, 5)}
      [] OTHER          -> TunerSuggests(i)

\* Each model votes, and the weights and confidences of the four decide.
NetworkVotes     == {"CONTINUE", "INCREASE", "DECREASE"}
DqnVotes         == DqnActions
TransformerVotes == {"CONTINUE", "INCREASE", "DECREASE"}
BasicVotes       == BasicActions
Votes == NetworkVotes \union DqnVotes \union TransformerVotes \union BasicVotes

EnsembleReady == maEnsemble /\ maTaken >= MaSequence

EnsembleAdvice ==
    /\ EnsembleReady
    /\ \E d \in Votes, sure \in BOOLEAN :
          \E i \in EnsembleSettings(d, maSnap.intensity) : maResult' = Advice(d, i, sure)
    /\ maVoted' = TRUE /\ maWait' = FALSE
    /\ UNCHANGED maOptimized

\* AIMiningOptimizer.optimize: not twice within 60 s.
TooEarly ==
    /\ ~EnsembleReady /\ maWait
    /\ maResult' = NoAdvice
    /\ maWait' = FALSE /\ maOptimized' = maOptimized + 1
    /\ UNCHANGED maVoted

\* Refused shares, the network and the agent recommend in this order, and the
\* last one counts.
Combined(i, temp) ==
    {Ma_Max(70, i - 10), Lowered(i, 5)} \union MaSuggested
        \union (IF temp = "cool" THEN {Raised(i)} ELSE {})

Decided(i, old) == IF i > old THEN "INCREASE" ELSE "DECREASE"

CombineRecommendations ==
    LET i == maSnap.intensity IN
    /\ ~EnsembleReady /\ ~maWait
    /\ maWait' = TRUE /\ maOptimized' = maOptimized + 1
    /\ IF maSnap.temp = "hot"
       THEN maResult' = Advice("COOL_DOWN", Lowered(i, 20), TRUE)
       ELSE \E sure \in BOOLEAN :
               \/ \E new \in Combined(i, maSnap.temp) :
                     maResult' = Advice(Decided(new, i), new, sure)
               \/ \E d \in {"CONTINUE", "POWER"} : maResult' = Advice(d, MaNone, sure)
    /\ UNCHANGED maVoted

MaOptimize ==
    /\ maPc = "optimize"
    /\ maPc' = "apply"
    /\ CriticalAnomaly \/ EnsembleAdvice \/ TooEarly \/ CombineRecommendations
    /\ UNCHANGED <<maTaken, maSnap, maLast, maIntensity, maProfile, maSettings, maLearned>>

\* update_intensity; a cool-down sets its own on top.
Applied ==
    IF maResult.decision = "COOL_DOWN" THEN Lowered(maSnap.intensity, 20)
    ELSE IF maResult.intensity # MaNone
         THEN Ma_Max(1, Ma_Min(100, maResult.intensity)) ELSE maIntensity

\* The end of a round; its snapshot becomes the one before, unless learning raised.
EndRound(last) ==
    /\ maPc' = "sleep" /\ maLast' = last
    /\ maResult' = NoAdvice

Worthwhile == maResult.sure /\ maResult.decision # "CONTINUE"

\* Fault variant: the snapshot is stored before the advice is applied.
MaApplyStores ==
    /\ maPc = "apply"
    /\ IF Worthwhile THEN /\ maPc' = "learn" /\ maLast' = maSnap.n
                          /\ UNCHANGED maResult
                     ELSE EndRound(maSnap.n)
    /\ maIntensity' = IF Worthwhile THEN Applied ELSE maIntensity
    /\ UNCHANGED <<maTaken, maSnap, maProfile, maSettings, maOptimized, maWait, maLearned,
                   maVoted>>

\* Only sure advice is applied; learning follows when there is a snapshot before.
MaApply ==
    /\ maPc = "apply"
    /\ IF Worthwhile /\ maLast # MaNone
       THEN maPc' = "learn" /\ UNCHANGED <<maLast, maResult>>
       ELSE EndRound(maSnap.n)
    /\ maIntensity' = IF Worthwhile THEN Applied ELSE maIntensity
    /\ UNCHANGED <<maTaken, maSnap, maProfile, maSettings, maOptimized, maWait, maLearned,
                   maVoted>>

Lesson == <<maLast, maSnap.n>>

\* ACTIONS.index raises for an action that the agent does not have.
Known == maResult.decision \in BasicActions

\* Fault variant: the parent's agent ignores an action that it does not have.
ParentLearnsSkips ==
    maAgent' = IF maLearning /\ Known THEN maAgent \union {Lesson} ELSE maAgent

\* AIMiningOptimizer.learn_from_result returns at once when learning is disabled.
ParentLearns ==
    /\ maAgent' = IF maLearning THEN maAgent \union {Lesson} ELSE maAgent
    /\ maLearning => Known

\* What an experience is remembered for: a replay trains on it.
DqnLearns == maDqn' = maDqn \union {Lesson}

BasicLearns == maBasic' = maBasic \union {Lesson}

\* EnsembleMiningOptimizer.learn_from_outcome: the networks first, then the agent,
\* then the models are judged by the newest prediction.
EnsembleLearns ==
    /\ DqnLearns
    /\ UNCHANGED maUnsaved
    /\ IF Known
       THEN /\ BasicLearns
            /\ maJudged' = IF maVoted THEN maJudged + 1 ELSE maJudged
            /\ EndRound(maSnap.n)
       ELSE UNCHANGED <<maBasic, maJudged>> /\ EndRound(maLast)

\* The loop catches the error, and the snapshot before stays the old one.
LearningRaises ==
    /\ maLearning /\ ~Known
    /\ UNCHANGED maLearned /\ EndRound(maLast)

\* The parent saves the models when it has learned, at every so many of its
\* optimisations; a file that cannot be written raises, and the ensemble does
\* not come to learn.
SavingRaises ==
    /\ maLearning /\ Known /\ maOptimized % MaSaveEvery = 0
    /\ maAgent' = maAgent \union {Lesson}
    /\ maUnsaved' = maUnsaved \union {Lesson}
    /\ UNCHANGED <<maDqn, maBasic, maJudged>>
    /\ EndRound(maLast)

MaLearn ==
    /\ maPc = "learn"
    /\ (ParentLearns /\ EnsembleLearns) \/ LearningRaises \/ SavingRaises
    /\ UNCHANGED <<maTaken, maSnap, maIntensity, maProfile, maSettings, maOptimized, maWait,
                   maVoted>>

MaNext == MaConfigure \/ MaSetIntensity \/ MaSnapshot \/ MaOptimize \/ MaApply \/ MaLearn

MaSpec == MaInit /\ [][MaNext]_maVars

-----------------------------------------------------------------------------
\* The miner is never set past its range, and a snapshot is stored only after
\* it was taken.
MaTypeOK ==
    /\ maPc \in {"sleep", "optimize", "apply", "learn"}
    /\ maTaken \in 0 .. MaMaxRounds /\ maLast \in 0 .. maTaken
    /\ maSnap \in [n : 0 .. MaMaxRounds, temp : MaTemps, intensity : 0 .. 100]
    /\ maIntensity \in 1 .. 100 /\ maProfile \in 0 .. 100
    /\ maResult \in [decision : DqnActions, intensity : 0 .. 100, sure : BOOLEAN]
    /\ \A b \in {maLearning, maEnsemble, maTune, maWait, maVoted, maAlways} : b \in BOOLEAN
    /\ maJudged \in 0 .. MaMaxRounds /\ maOptimized \in 0 .. MaMaxRounds
    /\ maCalls \in 0 .. MaMaxCalls
    /\ \A L \in {maAgent, maDqn, maBasic, maUnsaved} : L \subseteq (1 .. MaMaxRounds) \X (1 .. MaMaxRounds)

\* What the models learn from is a snapshot and a later one.  With learning
\* enabled all along the two of the ensemble have learned the same, although
\* they do not know the same actions, and the parent's agent has learned that
\* and nothing else but the lessons after which the models could not be saved:
\* an exception anywhere else in a lesson leaves no model ahead of another.  A
\* model is judged at most once for each lesson.
AdviceIsLearned ==
    /\ \A e \in maAgent \union maDqn \union maBasic : e[1] < e[2]
    /\ maAlways => maDqn = maBasic /\ maAgent = maDqn \union maUnsaved
    /\ maUnsaved \intersect maDqn = {}
    /\ maBasic \subseteq maDqn
    /\ maJudged <= Cardinality(maBasic)

\* ai_mining_optimizer.py line 818: "Temperature check (highest priority)", with
\* the reason "GPU temperature critical - reducing load to prevent damage" (827):
\* of a GPU at 85 degrees no advice raises the intensity.
HotGpuIsCooled ==
    maPc = "apply" /\ maSnap.temp = "hot" /\ maResult.sure => maResult.decision # "INCREASE"
=============================================================================
