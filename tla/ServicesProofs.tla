--------------------------- MODULE ServicesProofs ---------------------------
(***************************************************************************)
(* What holds of the settings, of what the mining models learn, of the RPC *)
(* endpoints, of the lists of liquidity pools, of the start of the         *)
(* processes, of the learning brain and of the pool analyser, for any      *)
(* number of users, callers, requests, trades, pools and rounds; and the   *)
(* types of all of these and of the Stratum connection together.           *)
(***************************************************************************)
EXTENDS MCServices, StratumProofs, NumberProofs, FiniteSetTheorems, SequenceTheorems, TLAPS

(* Settings.                                                               *)

\* Only the request that holds the lock saves, and what it has on its way to
\* Redis is the whole cache as it is.
OneSaves ==
    \A u \in SeUsers : sePc[u] = "save" =>
        /\ seSent[u] = seCache
        /\ \A w \in SeUsers : sePc[w] = "save" => w = u

SeInv == SeTypeOK /\ OneSaves /\ StoredIsShown

\* The manager starts unsaved, with every value in its range.
LEMMA SeInitInv == SeInit => SeInv
<1> SUFFICES ASSUME SeInit PROVE SeInv
  OBVIOUS
<1>1. seCache \in Table /\ seConfig \in [Processes -> Table]
  BY SettingsAssumption DEF SeInit, Table
<1>2. SeTypeOK
  <2>1. seRedis \in Table \cup {NoSettings} /\ seReach \in BOOLEAN /\ seSaved \in BOOLEAN
    BY DEF SeInit
  <2>2. sePc \in [SeUsers -> {"idle", "save"}]
    BY DEF SeInit
  <2>3. seKey \in [SeUsers -> SeKeys \cup {AllKeys}]
    BY DEF SeInit
  <2>4. seSent \in [SeUsers -> Table \cup {NoSettings}]
    BY DEF SeInit
  <2>5. seCalls \in 0 .. SeMaxCalls
    BY SettingsAssumption DEF SeInit
  <2> QED
    BY <1>1, <2>1, <2>2, <2>3, <2>4, <2>5 DEF SeTypeOK
<1>3. OneSaves /\ StoredIsShown
  BY DEF SeInit, OneSaves, StoredIsShown
<1> QED
  BY <1>2, <1>3 DEF SeInv

\* A step keeps the types.
LEMMA SeTypeStep == SeTypeOK /\ [SeNext]_seVars => SeTypeOK'
<1> SUFFICES ASSUME SeTypeOK, [SeNext]_seVars PROVE SeTypeOK'
  OBVIOUS
<1> USE SettingsAssumption DEF SeTypeOK
<1>1. CASE SeRestart
  <2>1. (seCache \in Table)' /\ (seConfig \in [Processes -> Table])'
    BY <1>1 DEF SeRestart, Loaded, Table
  <2> QED
    BY <1>1, <2>1 DEF SeRestart
<1>2. ASSUME NEW k \in SeKeys, NEW v \in SeValues, SeControl(k, v) PROVE SeTypeOK'
  BY <1>2 DEF SeControl, Table, Processes
<1>3. ASSUME NEW u \in SeUsers, SeResetAll(u) PROVE SeTypeOK'
  <2>1. (seCache \in Table)' /\ (seConfig \in [Processes -> Table])'
    BY <1>3 DEF SeResetAll, Table, Processes
  <2> QED
    BY <1>3, <2>1 DEF SeResetAll
<1>4. ASSUME NEW u \in SeUsers, SeSave(u) PROVE SeTypeOK'
  <2>1. (seConfig \in [Processes -> Table])'
    BY <1>4 DEF SeSave, Apply, Table, Processes
  <2> QED
    BY <1>4, <2>1 DEF SeSave, Apply, Store
<1>5. ASSUME NEW u \in SeUsers, NEW k \in SeKeys, NEW v \in SeValues, SeSet(u, k, v)
      PROVE SeTypeOK'
  <2>1. (seCache \in Table)'
    BY <1>5 DEF SeSet, Change, Table
  <2> QED
    BY <1>5, <2>1 DEF SeSet, Change
<1>6. CASE UNCHANGED seVars
  BY <1>6 DEF seVars
<1> QED
  BY <1>1, <1>2, <1>3, <1>4, <1>5, <1>6 DEF SeNext

\* A step keeps the lock to one request, and what Redis took last to what is
\* shown: the lock is released in the step in which Redis takes the values.
LEMMA SeInvStep == SeInv /\ [SeNext]_seVars => SeInv'
<1> SUFFICES ASSUME SeInv, [SeNext]_seVars PROVE SeInv'
  OBVIOUS
<1>t. SeTypeOK'
  BY SeTypeStep DEF SeInv
<1> SUFFICES OneSaves' /\ StoredIsShown'
  BY <1>t DEF SeInv
<1> USE DEF SeInv, SeTypeOK, OneSaves, StoredIsShown
<1>1. CASE SeRestart
  BY <1>1 DEF SeRestart, Loaded
<1>2. ASSUME NEW k \in SeKeys, NEW v \in SeValues, SeControl(k, v)
      PROVE OneSaves' /\ StoredIsShown'
  BY <1>2 DEF SeControl
<1>3. ASSUME NEW u \in SeUsers, SeResetAll(u) PROVE OneSaves' /\ StoredIsShown'
  BY <1>3 DEF SeResetAll, SeLocked
<1>4. ASSUME NEW u \in SeUsers, SeSave(u) PROVE OneSaves' /\ StoredIsShown'
  BY <1>4 DEF SeSave, Apply, Store
<1>5. ASSUME NEW u \in SeUsers, NEW k \in SeKeys, NEW v \in SeValues, SeSet(u, k, v)
      PROVE OneSaves' /\ StoredIsShown'
  BY <1>5 DEF SeSet, Change, SeLocked
<1>6. CASE UNCHANGED seVars
  BY <1>6 DEF seVars
<1> QED
  BY <1>1, <1>2, <1>3, <1>4, <1>5, <1>6 DEF SeNext

\* The values, the locals and the places of the requests stay in their ranges.
THEOREM SettingsTypes == SeSpec => []SeTypeOK
<1>1. SeInit => SeTypeOK
  BY SeInitInv DEF SeInv
<1> QED
  BY <1>1, SeTypeStep, PTL DEF SeSpec

\* Once Redis took the last change, it holds what the manager shows.
THEOREM StoredSettings == SeSpec => []StoredIsShown
<1>1. SeInv => StoredIsShown
  BY DEF SeInv
<1> QED
  BY <1>1, SeInitInv, SeInvStep, PTL DEF SeSpec
-----------------------------------------------------------------------------
(* What the mining models learn.                                           *)

Lessons == maAgent \union maDqn \union maBasic \union maUnsaved

\* The snapshot of a round is the newest; the one before is older while the
\* round goes on, and so is whatever was learned from.
Ordered ==
    /\ maTaken \in Nat /\ maLast \in Nat /\ maSnap.n = maTaken
    /\ maLast <= maTaken
    /\ maPc # "sleep" => maLast < maTaken
    /\ Lessons \subseteq Nat \X Nat
    /\ \A e \in Lessons : e[1] < e[2] /\ e[2] <= maTaken
    /\ maPc # "sleep" => \A e \in Lessons : e[2] < maTaken

\* While learning was never disabled the agents agree but for the lessons that
\* could not be saved; the agent of the ensemble has learned a part of what its
\* network has, at least what was judged.
Agreed ==
    /\ maAlways => maLearning /\ maDqn = maBasic /\ maAgent = maDqn \union maUnsaved
    /\ maUnsaved \intersect maDqn = {}
    /\ maBasic \subseteq maDqn
    /\ IsFiniteSet(maBasic)
    /\ maJudged \in Nat /\ maJudged <= Cardinality(maBasic)

MaInv == Ordered /\ Agreed

\* Nothing was learned at the start.
LEMMA MaInitInv == MaInit => MaInv
<1> SUFFICES ASSUME MaInit PROVE MaInv
  OBVIOUS
<1>1. Ordered
  BY DEF MaInit, Ordered, Lessons, MaNone
<1>2. IsFiniteSet(maBasic) /\ Cardinality(maBasic) = 0
  BY FS_EmptySet DEF MaInit
<1>3. Agreed
  BY <1>2 DEF MaInit, Agreed
<1> QED
  BY <1>1, <1>3 DEF MaInv

\* A call of the dashboard and a round up to its learning teach nobody.
LEMMA UntaughtStep ==
  ASSUME MaInv, UNCHANGED maLearned,
         \/ MaConfigure \/ MaSetIntensity \/ MaSnapshot \/ MaOptimize \/ MaApply
         \/ UNCHANGED maVars
  PROVE  MaInv'
<1> USE DEF MaInv, Ordered, Agreed, Lessons, maLearned
<1>1. CASE MaConfigure
  BY <1>1 DEF MaConfigure
<1>2. CASE MaSetIntensity
  BY <1>2 DEF MaSetIntensity
<1>3. CASE MaSnapshot
  BY <1>3 DEF MaSnapshot, maSettings
<1>4. CASE MaOptimize
  BY <1>4 DEF MaOptimize, maSettings
<1>5. CASE MaApply
  BY <1>5 DEF MaApply, EndRound, maSettings
<1>6. CASE UNCHANGED maVars
  BY <1>6 DEF maVars, maSettings
<1> QED
  BY <1>1, <1>2, <1>3, <1>4, <1>5, <1>6

\* A lesson is new: all others end with an older snapshot.
LEMMA LessonIsNew ==
  ASSUME MaInv, maPc = "learn"
  PROVE  /\ Lesson \in Nat \X Nat /\ Lesson[1] < Lesson[2] /\ Lesson[2] = maTaken
         /\ Lesson \notin Lessons
  BY DEF MaInv, Ordered, Lessons, Lesson

\* The learning at the end of a round.
LEMMA LearnStep == MaInv /\ MaLearn => MaInv'
<1> SUFFICES ASSUME MaInv, MaLearn PROVE MaInv'
  OBVIOUS
<1>1. maPc = "learn"
  BY DEF MaLearn
<1>2. UNCHANGED <<maTaken, maSnap, maLearning, maAlways>>
  BY DEF MaLearn, maSettings
<1>3. CASE LearningRaises
  BY <1>1, <1>2, <1>3 DEF LearningRaises, EndRound, maLearned, MaInv, Ordered, Agreed, Lessons
<1>5. CASE SavingRaises
  <2>1. /\ maPc' = "sleep" /\ maLast' = maLast
        /\ maAgent' = maAgent \union {Lesson} /\ maUnsaved' = maUnsaved \union {Lesson}
        /\ UNCHANGED <<maDqn, maBasic, maJudged>>
    BY <1>5 DEF SavingRaises, EndRound
  <2>2. Ordered'
    BY <1>1, <1>2, <2>1, LessonIsNew DEF MaInv, Ordered, Lessons
  <2>3. Agreed'
    BY <1>1, <1>2, <2>1, LessonIsNew DEF MaInv, Agreed, Lessons
  <2> QED
    BY <2>2, <2>3 DEF MaInv
<1>4. CASE ParentLearns /\ EnsembleLearns
  <2>1. /\ maPc' = "sleep" /\ maLast' \in {maLast, maSnap.n} /\ maUnsaved' = maUnsaved
        /\ maAgent' \in {maAgent, maAgent \union {Lesson}}
        /\ maDqn' = maDqn \union {Lesson}
        /\ \/ /\ maBasic' = maBasic \union {Lesson} /\ maJudged' \in {maJudged, maJudged + 1}
           \/ maBasic' = maBasic /\ maJudged' = maJudged
    BY <1>4 DEF ParentLearns, EnsembleLearns, DqnLearns, BasicLearns, EndRound
  <2>2. Ordered'
    BY <1>1, <1>2, <2>1, LessonIsNew DEF MaInv, Ordered, Lessons
  <2>3. /\ maAlways' => maDqn' = maBasic' /\ maAgent' = maDqn' \union maUnsaved'
        /\ maUnsaved' \intersect maDqn' = {}
    <3>1. Lesson \notin maUnsaved
      BY <1>1, LessonIsNew DEF Lessons
    <3>2. maUnsaved' \intersect maDqn' = {}
      BY <2>1, <3>1 DEF MaInv, Agreed
    <3>3. ASSUME maAlways'
          PROVE  maDqn' = maBasic' /\ maAgent' = maDqn' \union maUnsaved'
      <4>1. maLearning /\ maDqn = maBasic /\ maAgent = maDqn \union maUnsaved
        BY <1>2, <3>3 DEF MaInv, Agreed
      <4>2. Known /\ maAgent' = maAgent \union {Lesson}
        BY <1>4, <4>1 DEF ParentLearns
      <4>3. maBasic' = maBasic \union {Lesson}
        BY <1>4, <4>2 DEF EnsembleLearns, BasicLearns
      <4> QED
        BY <2>1, <4>1, <4>2, <4>3
    <3> QED
      BY <3>2, <3>3
  <2>4. /\ IsFiniteSet(maBasic')
        /\ maJudged' \in Nat /\ maJudged' <= Cardinality(maBasic')
    <3>1. IsFiniteSet(maBasic) /\ Cardinality(maBasic) \in Nat
      BY FS_CardinalityType DEF MaInv, Agreed
    <3>2. /\ IsFiniteSet(maBasic \union {Lesson})
          /\ Cardinality(maBasic \union {Lesson}) = Cardinality(maBasic) + 1
      BY <1>1, <3>1, LessonIsNew, FS_AddElement DEF Lessons
    <3>3. maJudged \in Nat /\ maJudged <= Cardinality(maBasic)
      BY DEF MaInv, Agreed
    <3>4. CASE maBasic' = maBasic \union {Lesson} /\ maJudged' \in {maJudged, maJudged + 1}
      <4>1. IsFiniteSet(maBasic') /\ Cardinality(maBasic') = Cardinality(maBasic) + 1
        BY <3>2, <3>4
      <4>2. maJudged' \in Nat /\ maJudged' <= Cardinality(maBasic) + 1
        BY <3>1, <3>3, <3>4
      <4> QED
        BY <4>1, <4>2
    <3>5. CASE maBasic' = maBasic /\ maJudged' = maJudged
      BY <3>1, <3>3, <3>5
    <3> QED
      BY <2>1, <3>4, <3>5
  <2>5. maBasic' \subseteq maDqn' /\ (maAlways' => maLearning')
    BY <1>2, <2>1 DEF MaInv, Agreed
  <2>6. Agreed'
    BY <2>3, <2>4, <2>5 DEF Agreed
  <2> QED
    BY <2>2, <2>6 DEF MaInv
<1> QED
  BY <1>3, <1>4, <1>5 DEF MaLearn

\* Every step keeps the invariant.
LEMMA MaInvStep == MaInv /\ [MaNext]_maVars => MaInv'
<1>1. MaConfigure \/ MaSetIntensity \/ MaSnapshot \/ MaOptimize \/ MaApply \/ UNCHANGED maVars
      => UNCHANGED maLearned
  BY DEF MaConfigure, MaSetIntensity, MaSnapshot, MaOptimize, MaApply, maVars
<1> QED
  BY <1>1, UntaughtStep, LearnStep DEF MaNext

\* What the models learn from is a snapshot and a later one; with learning
\* enabled all along they have learned the same, but for the lessons after which
\* the models could not be saved; none is judged without a lesson.
THEOREM LessonsAgree == MaSpec => []AdviceIsLearned
<1>1. MaInv => AdviceIsLearned
  BY DEF MaInv, Ordered, Agreed, Lessons, AdviceIsLearned
<1> QED
  BY <1>1, MaInitInv, MaInvStep, PTL DEF MaSpec
\* The ranges of the intensities, wherever they come from, and of an advice.
LEMMA Intensities ==
    ASSUME NEW i \in 0 .. 100
    PROVE  /\ Lowered(i, 20) \in 1 .. 100 /\ Lowered(i, 5) \in 1 .. 100 /\ Raised(i) \in 1 .. 100
           /\ \A d : EnsembleSettings(d, i) \subseteq 0 .. 100
           /\ \A temp : Combined(i, temp) \subseteq 0 .. 100
<1>1. Lowered(i, 20) \in 1 .. 100 /\ Lowered(i, 5) \in 1 .. 100 /\ Raised(i) \in 1 .. 100
    BY DEF Lowered, Raised, Ma_Max, Ma_Min
<1>2. MaNone \in 0 .. 100 /\ MaSuggested \subseteq 0 .. 100 /\ Ma_Max(70, i - 10) \in 0 .. 100
    BY DEF MaNone, MaSuggested, Ma_Max
<1>3. Lowered(i, 5) \in 0 .. 100 /\ Raised(i) \in 0 .. 100
    BY <1>1
<1>4. \A d : EnsembleSettings(d, i) \subseteq 0 .. 100
    BY <1>2, <1>3 DEF EnsembleSettings, TunerSuggests
<1>5. \A temp : Combined(i, temp) \subseteq 0 .. 100
    BY <1>2, <1>3 DEF Combined
<1> QED BY <1>1, <1>4, <1>5

\* The parts of the types, and what bounds a round: it has a snapshot, it learns
\* only with one before, and judges the models once at most.
MaPlaces == {"sleep", "optimize", "apply", "learn"}
SnapOK == maSnap \in [n : 0 .. MaMaxRounds, temp : MaTemps, intensity : 0 .. 100]
ResultOK == maResult \in [decision : DqnActions, intensity : 0 .. 100, sure : BOOLEAN]
LevelsOK == maIntensity \in 1 .. 100 /\ maProfile \in 0 .. 100
FlagsOK ==
    /\ maLearning \in BOOLEAN /\ maEnsemble \in BOOLEAN /\ maTune \in BOOLEAN
    /\ maWait \in BOOLEAN /\ maVoted \in BOOLEAN /\ maAlways \in BOOLEAN
RoundOK ==
    /\ maPc \in MaPlaces /\ maTaken \in 0 .. MaMaxRounds
    /\ maPc # "sleep" => maTaken >= 1
    /\ maPc = "learn" => maLast >= 1
    /\ maJudged <= maTaken /\ (maPc # "sleep" => maJudged < maTaken)
    /\ maOptimized \in Nat /\ maOptimized <= maTaken
    /\ maPc = "optimize" => maOptimized < maTaken
    /\ maCalls \in 0 .. MaMaxCalls
LessonsOK == Lessons \subseteq (1 .. MaMaxRounds) \X (1 .. MaMaxRounds)
MaTyped == MaInv /\ SnapOK /\ ResultOK /\ LevelsOK /\ FlagsOK /\ RoundOK /\ LessonsOK

\* Every step keeps the snapshot, the advice and the intensities in their ranges.
LEMMA LevelsStep ==
    ASSUME MaTyped, [MaNext]_maVars
    PROVE  SnapOK' /\ ResultOK' /\ LevelsOK'
<1>0. /\ maSnap \in [n : 0 .. MaMaxRounds, temp : MaTemps, intensity : 0 .. 100]
      /\ maSnap.intensity \in 0 .. 100 /\ maSnap.temp \in MaTemps
      /\ maResult \in [decision : DqnActions, intensity : 0 .. 100, sure : BOOLEAN]
      /\ maResult.intensity \in 0 .. 100
      /\ maIntensity \in 1 .. 100 /\ maProfile \in 0 .. 100
      /\ maTaken \in 0 .. MaMaxRounds /\ MaMaxRounds \in Nat
      /\ MaPanel \subseteq 1 .. 100
    BY AdviceAssumption DEF MaTyped, SnapOK, ResultOK, LevelsOK, RoundOK
<1>1. SnapOK'
    <2>1. CASE MaSnapshot
        <3>1. PICK t \in MaTemps :
                 maSnap' = [n |-> maTaken + 1, temp |-> t,
                            intensity |-> IF maProfile = MaNone THEN maIntensity ELSE maProfile]
            BY <2>1 DEF MaSnapshot
        <3>2. maTaken + 1 \in 0 .. MaMaxRounds
            BY <1>0, <2>1 DEF MaSnapshot
        <3>3. (IF maProfile = MaNone THEN maIntensity ELSE maProfile) \in 0 .. 100
            BY <1>0
        <3> QED BY <3>1, <3>2, <3>3 DEF SnapOK
    <2>2. CASE ~MaSnapshot
        <3>1. UNCHANGED maSnap
            BY <2>2 DEF MaNext, maVars, MaConfigure, MaSetIntensity, MaOptimize, MaApply, MaLearn
        <3> QED BY <1>0, <3>1 DEF SnapOK
    <2> QED BY <2>1, <2>2
<1>2. ResultOK'
    <2>1. ASSUME NEW d \in DqnActions, NEW i \in 0 .. 100, NEW sure \in BOOLEAN
          PROVE  Advice(d, i, sure) \in [decision : DqnActions, intensity : 0 .. 100, sure : BOOLEAN]
        BY <2>1 DEF Advice
    <2>2. /\ "COOL_DOWN" \in DqnActions /\ "CONTINUE" \in DqnActions /\ "POWER" \in DqnActions
          /\ "INCREASE" \in DqnActions /\ "DECREASE" \in DqnActions
          /\ Votes \subseteq DqnActions /\ MaNone \in 0 .. 100 /\ TRUE \in BOOLEAN /\ FALSE \in BOOLEAN
        BY DEF DqnActions, BasicActions, Votes, NetworkVotes, DqnVotes, TransformerVotes, BasicVotes, MaNone
    <2>3. Lowered(maSnap.intensity, 20) \in 0 .. 100
          /\ (\A d : EnsembleSettings(d, maSnap.intensity) \subseteq 0 .. 100)
          /\ (\A temp : Combined(maSnap.intensity, temp) \subseteq 0 .. 100)
        <3> DEFINE i == maSnap.intensity
        <3>1. i \in 0 .. 100
            BY <1>0
        <3> HIDE DEF i
        <3>2. /\ Lowered(i, 20) \in 1 .. 100
              /\ \A d : EnsembleSettings(d, i) \subseteq 0 .. 100
              /\ \A temp : Combined(i, temp) \subseteq 0 .. 100
            BY <3>1, Intensities
        <3>3. Lowered(i, 20) \in 0 .. 100
            BY <3>2
        <3> QED BY <3>2, <3>3 DEF i
    <2> DEFINE Good(r) == r \in [decision : DqnActions, intensity : 0 .. 100, sure : BOOLEAN]
    <2>4. Good(NoAdvice)
        BY <2>1, <2>2 DEF NoAdvice
    <2>5. CASE MaOptimize
        <3>1. CASE CriticalAnomaly
            BY <2>1, <2>2, <2>3, <3>1 DEF CriticalAnomaly, ResultOK
        <3>2. CASE EnsembleAdvice
            <4>1. PICK d \in Votes, sure \in BOOLEAN :
                     \E i \in EnsembleSettings(d, maSnap.intensity) : maResult' = Advice(d, i, sure)
                BY <3>2 DEF EnsembleAdvice
            <4>2. PICK i \in EnsembleSettings(d, maSnap.intensity) : maResult' = Advice(d, i, sure)
                BY <4>1
            <4>3. i \in 0 .. 100 /\ d \in DqnActions
                BY <2>2, <2>3
            <4> QED BY <2>1, <4>2, <4>3 DEF ResultOK
        <3>3. CASE TooEarly
            BY <2>4, <3>3 DEF TooEarly, ResultOK
        <3>4. CASE CombineRecommendations
            <4>1. CASE maResult' = Advice("COOL_DOWN", Lowered(maSnap.intensity, 20), TRUE)
                BY <2>1, <2>2, <2>3, <4>1 DEF ResultOK
            <4>2. ASSUME NEW sure \in BOOLEAN, NEW new \in Combined(maSnap.intensity, maSnap.temp),
                         maResult' = Advice(Decided(new, maSnap.intensity), new, sure)
                  PROVE  ResultOK'
                <5>1. Decided(new, maSnap.intensity) \in DqnActions /\ new \in 0 .. 100
                    BY <2>2, <2>3, <4>2 DEF Decided
                <5> QED BY <2>1, <4>2, <5>1 DEF ResultOK
            <4>3. ASSUME NEW sure \in BOOLEAN, NEW d \in {"CONTINUE", "POWER"},
                         maResult' = Advice(d, MaNone, sure)
                  PROVE  ResultOK'
                BY <2>1, <2>2, <4>3 DEF ResultOK
            <4> QED BY <3>4, <4>1, <4>2, <4>3 DEF CombineRecommendations
        <3> QED BY <2>5, <3>1, <3>2, <3>3, <3>4 DEF MaOptimize
    <2>6. CASE ~MaOptimize
        <3>1. maResult' \in {maResult, NoAdvice}
            BY <2>6 DEF MaNext, maVars, MaConfigure, MaSetIntensity, MaSnapshot, MaApply, MaLearn,
                        EnsembleLearns, LearningRaises, SavingRaises, EndRound
        <3> QED BY <1>0, <2>4, <3>1 DEF ResultOK
    <2> QED BY <2>5, <2>6
<1>3. LevelsOK'
    <2>1. UNCHANGED maProfile
        BY DEF MaNext, maVars, MaConfigure, MaSetIntensity, MaSnapshot, MaOptimize, MaApply, MaLearn
    <2>2. maIntensity' = maIntensity \/ maIntensity' \in MaPanel \/ maIntensity' = Applied
        BY DEF MaNext, maVars, MaConfigure, MaSetIntensity, MaSnapshot, MaOptimize, MaApply, MaLearn
    <2>3. Applied \in 1 .. 100
        BY <1>0, Intensities DEF Applied, Ma_Max, Ma_Min
    <2> QED BY <1>0, <2>1, <2>2, <2>3 DEF LevelsOK
<1> QED BY <1>1, <1>2, <1>3

\* Every step keeps the switches and the bounds of a round.
LEMMA RoundStep ==
    ASSUME MaTyped, [MaNext]_maVars
    PROVE  FlagsOK' /\ RoundOK' /\ LessonsOK'
<1>0. /\ FlagsOK /\ MaInv /\ MaInv' /\ LessonsOK
      /\ maPc \in MaPlaces /\ maTaken \in 0 .. MaMaxRounds /\ MaMaxRounds \in Nat /\ MaMaxCalls \in Nat
      /\ maPc # "sleep" => maTaken >= 1
      /\ maPc = "learn" => maLast >= 1
      /\ maJudged \in Nat /\ maJudged <= maTaken /\ (maPc # "sleep" => maJudged < maTaken)
      /\ maOptimized \in Nat /\ maOptimized <= maTaken
      /\ maPc = "optimize" => maOptimized < maTaken
      /\ maCalls \in 0 .. MaMaxCalls
      /\ maLast \in Nat /\ maSnap.n = maTaken /\ (maPc # "sleep" => maLast < maTaken)
    BY MaInvStep, AdviceAssumption DEF MaTyped, RoundOK, MaInv, Ordered, Agreed
<1>1. FlagsOK'
    <2>1. /\ maLearning' = maLearning \/ maLearning' \in BOOLEAN
          /\ maEnsemble' = maEnsemble \/ maEnsemble' \in BOOLEAN
          /\ maTune' = maTune \/ maTune' \in BOOLEAN
        BY DEF MaNext, maVars, maSettings, MaConfigure, MaSetIntensity, MaSnapshot, MaOptimize, MaApply, MaLearn
    <2>2. maAlways' = maAlways \/ maAlways' = (maAlways /\ maLearning')
        BY Zenon DEF MaNext, maVars, maSettings, MaConfigure, MaSetIntensity, MaSnapshot, MaOptimize, MaApply, MaLearn
    <2>3. maWait' = maWait \/ maWait' = TRUE \/ maWait' = FALSE
        BY Zenon DEF MaNext, maVars, MaConfigure, MaSetIntensity, MaSnapshot, MaOptimize, MaApply, MaLearn,
               CriticalAnomaly, EnsembleAdvice, TooEarly, CombineRecommendations
    <2>4. maVoted' = maVoted \/ maVoted' = TRUE
        BY Zenon DEF MaNext, maVars, MaConfigure, MaSetIntensity, MaSnapshot, MaOptimize, MaApply, MaLearn,
               CriticalAnomaly, EnsembleAdvice, TooEarly, CombineRecommendations
    <2> QED BY <1>0, <2>1, <2>2, <2>3, <2>4, Zenon DEF FlagsOK
<1>2. RoundOK'
    <2>1. CASE MaConfigure \/ MaSetIntensity \/ UNCHANGED maVars
        BY <1>0, <2>1 DEF MaConfigure, MaSetIntensity, maVars, maLearned, maSettings, RoundOK
    <2>2. CASE MaSnapshot
        BY <1>0, <2>2 DEF MaSnapshot, maLearned, maSettings, RoundOK, MaPlaces
    <2>3. CASE MaOptimize
        <3>1. maOptimized' \in {maOptimized, maOptimized + 1}
            BY <2>3 DEF MaOptimize, CriticalAnomaly, EnsembleAdvice, TooEarly, CombineRecommendations
        <3> QED BY <1>0, <2>3, <3>1 DEF MaOptimize, maLearned, maSettings, RoundOK, MaPlaces
    <2>4. CASE MaApply
        BY <1>0, <2>4 DEF MaApply, EndRound, maLearned, maSettings, RoundOK, MaPlaces, MaNone
    <2>5. CASE MaLearn
        <3>1. /\ maPc = "learn" /\ maPc' = "sleep" /\ maJudged' \in {maJudged, maJudged + 1}
              /\ UNCHANGED <<maTaken, maCalls, maOptimized>>
            BY <2>5 DEF MaLearn, EnsembleLearns, LearningRaises, SavingRaises, EndRound, maLearned, maSettings
        <3> QED BY <1>0, <3>1 DEF RoundOK, MaPlaces
    <2> QED BY <2>1, <2>2, <2>3, <2>4, <2>5 DEF MaNext
<1>3. LessonsOK'
    <2>1. CASE MaLearn
        <3>1. Lesson \in (1 .. MaMaxRounds) \X (1 .. MaMaxRounds)
            BY <1>0, <2>1 DEF MaLearn, Lesson
        <3>2. Lessons' \subseteq Lessons \union {Lesson}
            BY <2>1 DEF MaLearn, ParentLearns, EnsembleLearns, DqnLearns, BasicLearns, LearningRaises,
                        SavingRaises,
                        maLearned, Lessons
        <3> QED BY <1>0, <3>1, <3>2 DEF LessonsOK
    <2>2. CASE ~MaLearn
        <3>1. UNCHANGED <<maAgent, maDqn, maBasic, maUnsaved>>
            BY <2>2 DEF MaNext, maVars, maLearned, MaConfigure, MaSetIntensity, MaSnapshot, MaOptimize, MaApply
        <3> QED BY <1>0, <3>1 DEF LessonsOK, Lessons
    <2> QED BY <2>1, <2>2
<1> QED BY <1>1, <1>2, <1>3

\* The loop begins with no advice and no round, what is of type,
LEMMA MaTypesBegin == MaInit => MaTyped
<1> SUFFICES ASSUME MaInit PROVE MaTyped
    OBVIOUS
<1>0. MaMaxRounds \in Nat /\ MaMaxCalls \in Nat /\ MaPanel \subseteq 1 .. 100
    BY AdviceAssumption
<1>1. SnapOK
    BY <1>0 DEF MaInit, SnapOK, MaTemps
<1>2. ResultOK
    BY DEF MaInit, ResultOK, NoAdvice, Advice, DqnActions, BasicActions, MaNone
<1>3. LevelsOK
    BY <1>0 DEF MaInit, LevelsOK, MaNone
<1>4. FlagsOK
    BY Zenon DEF MaInit, FlagsOK
<1>5. RoundOK
    BY <1>0 DEF MaInit, RoundOK, MaPlaces
<1>6. LessonsOK
    BY DEF MaInit, LessonsOK, Lessons
<1> QED BY MaInitInv, <1>1, <1>2, <1>3, <1>4, <1>5, <1>6 DEF MaTyped

\* every step keeps it so,
LEMMA MaTypesStay == MaTyped /\ [MaNext]_maVars => MaTyped'
    BY MaInvStep, LevelsStep, RoundStep DEF MaTyped

\* and it is what the types say.
LEMMA MaTypesAre == MaTyped => MaTypeOK
<1> SUFFICES ASSUME MaTyped PROVE MaTypeOK
    OBVIOUS
<1>1. MaInv /\ SnapOK /\ ResultOK /\ LevelsOK /\ FlagsOK /\ RoundOK /\ LessonsOK
    BY DEF MaTyped
<1>2. \A b \in {maLearning, maEnsemble, maTune, maWait, maVoted, maAlways} : b \in BOOLEAN
    BY <1>1, Zenon DEF FlagsOK
<1>3. maLast \in 0 .. maTaken /\ maJudged \in 0 .. MaMaxRounds /\ maOptimized \in 0 .. MaMaxRounds
    BY <1>1, AdviceAssumption DEF MaInv, Ordered, Agreed, RoundOK
<1>4. /\ maPc \in {"sleep", "optimize", "apply", "learn"}
      /\ maTaken \in 0 .. MaMaxRounds /\ maCalls \in 0 .. MaMaxCalls
    BY <1>1 DEF RoundOK, MaPlaces
<1>5. \A L \in {maAgent, maDqn, maBasic, maUnsaved} : L \subseteq (1 .. MaMaxRounds) \X (1 .. MaMaxRounds)
    BY <1>1 DEF LessonsOK, Lessons
<1> QED BY <1>1, <1>2, <1>3, <1>4, <1>5 DEF MaTypeOK, SnapOK, ResultOK, LevelsOK

\* The types of the loop that asks for advice; the miner is never set past its
\* range, and the models are judged once a round at most.
THEOREM AdviceTypes == MaSpec => []MaTypeOK
    BY MaTypesBegin, MaTypesStay, MaTypesAre, PTL DEF MaSpec

-----------------------------------------------------------------------------
(* The RPC endpoints and their connection pools.                           *)

\* A numbered connection is one of some endpoint's pool.
OfAPool == \A c \in RpCallers : rpConn[c].index # 0 => rpConn[c].ep \in RpEndpoints

RpInv == RpTypeOK /\ ConnectionHasOneUser /\ OfAPool

\* What acquire hands out is of the pool, was not in use, and is counted as in
\* use from now on; nothing else changes in the pool.
LEMMA AcquireIsNew ==
    ASSUME RpInv, NEW e \in RpEndpoints, CanAcquire(e)
    PROVE  /\ NextIndex(e) \in 1 .. RpMaxSize /\ NextIndex(e) \notin rpPool[e].used
           /\ Acquired(e) \in [size : 0 .. RpMaxSize, used : SUBSET (1 .. RpMaxSize)]
           /\ Acquired(e).used = rpPool[e].used \cup {NextIndex(e)}
           /\ Acquired(e).used \subseteq 1 .. Acquired(e).size
<1>1. /\ rpPool[e].size \in 0 .. RpMaxSize /\ rpPool[e].used \subseteq 1 .. rpPool[e].size
      /\ RpMaxSize \in Nat
    BY RpAssumption DEF RpInv, RpTypeOK, ConnectionHasOneUser
<1>2. CASE Free(e) # {}
    <2>1. NextIndex(e) \in Free(e)
        <3>1. Free(e) \in SUBSET Nat BY <1>1 DEF Free
        <3> QED BY <1>2, <3>1, MinIsLeast DEF NextIndex
    <2>2. NextIndex(e) \in 1 .. rpPool[e].size /\ NextIndex(e) \notin rpPool[e].used
        BY <2>1 DEF Free
    <2>3. Max({NextIndex(e), rpPool[e].size}) = rpPool[e].size
        <3>1. NextIndex(e) \in Nat /\ rpPool[e].size \in Nat /\ NextIndex(e) <= rpPool[e].size
            BY <1>1, <2>2
        <3>2. /\ Max({NextIndex(e), rpPool[e].size}) \in {NextIndex(e), rpPool[e].size}
              /\ Max({NextIndex(e), rpPool[e].size}) >= rpPool[e].size
            BY <3>1, MaxOfTwo
        <3> QED BY <3>1, <3>2
    <2> QED BY <1>1, <2>2, <2>3 DEF Acquired
<1>3. CASE Free(e) = {}
    <2>1. NextIndex(e) = rpPool[e].size + 1 /\ rpPool[e].size < RpMaxSize
        BY <1>3 DEF NextIndex, CanAcquire
    <2>2. Max({NextIndex(e), rpPool[e].size}) = rpPool[e].size + 1
        BY <1>1, <2>1, MaxOfTwo
    <2> QED BY <1>1, <2>1, <2>2 DEF Acquired
<1> QED BY <1>2, <1>3

\* The best endpoints are endpoints.
LEMMA BestIsEndpoint == RpBest \subseteq RpEndpoints
  BY DEF RpBest

\* Whoever lets go of a connection, or has none, disturbs nobody.
LEMMA LetGo ==
    ASSUME RpInv, NEW c \in RpCallers, UNCHANGED rpPool,
           NEW place \in {"idle", "retry", "shared", "failover"}, rpPc' = [rpPc EXCEPT ![c] = place],
           NEW got \in [ep : RpEndpoints \cup {0}, index : {0}], rpConn' = [rpConn EXCEPT ![c] = got],
           UNCHANGED <<rpUp, rpHealthy, rpMonitor, rpPrimary>>,
           rpTried' \in [RpCallers -> SUBSET RpEndpoints]
    PROVE  RpInv'
<1>1. RpTypeOK'
    <2>1. got \in [ep : RpEndpoints \cup {0}, index : 0 .. RpMaxSize]
        BY RpAssumption
    <2>2. rpConn' \in [RpCallers -> [ep : RpEndpoints \cup {0}, index : 0 .. RpMaxSize]]
        BY <2>1 DEF RpInv, RpTypeOK
    <2> QED BY <2>2 DEF RpInv, RpTypeOK
<1>2. \A d \in RpCallers : rpConn'[d] = IF d = c THEN got ELSE rpConn[d]
    BY DEF RpInv, RpTypeOK
<1>3. ConnectionHasOneUser' /\ OfAPool'
    BY <1>2 DEF RpInv, ConnectionHasOneUser, OfAPool
<1> QED BY <1>1, <1>3 DEF RpInv

\* A caller that takes a connection, or goes on without.
LEMMA RpTakeKeeps ==
    ASSUME RpInv, NEW c \in RpCallers, NEW e \in RpEndpoints,
           NEW place \in {"kept", "trying"}, NEW without \in {"idle", "retry"},
           RpTake(c, e, place, without), UNCHANGED <<rpUp, rpHealthy, rpMonitor, rpPrimary>>,
           rpTried' \in [RpCallers -> SUBSET RpEndpoints]
    PROVE  RpInv'
<1>1. CASE CanAcquire(e)
    <2> DEFINE n == NextIndex(e)
               got == [ep |-> e, index |-> NextIndex(e)]
    <2>1. /\ rpPool' = [rpPool EXCEPT ![e] = Acquired(e)]
          /\ rpPc' = [rpPc EXCEPT ![c] = place] /\ rpConn' = [rpConn EXCEPT ![c] = got]
        BY <1>1 DEF RpTake, RpGo
    <2>2. /\ n \in 1 .. RpMaxSize /\ n \notin rpPool[e].used
          /\ Acquired(e) \in [size : 0 .. RpMaxSize, used : SUBSET (1 .. RpMaxSize)]
          /\ Acquired(e).used = rpPool[e].used \cup {n}
          /\ Acquired(e).used \subseteq 1 .. Acquired(e).size
        BY <1>1, AcquireIsNew
    <2> HIDE DEF n
    <2>3. got = [ep |-> e, index |-> n] BY DEF n
    <2> HIDE DEF got
    <2>4. RpTypeOK'
        BY <2>1, <2>2, <2>3 DEF RpInv, RpTypeOK
    <2>5. \A x \in RpEndpoints : rpPool'[x].used = IF x = e THEN rpPool[e].used \cup {n}
                                                  ELSE rpPool[x].used
        BY <2>1, <2>2 DEF RpInv, RpTypeOK
    <2>6. \A d \in RpCallers : rpConn'[d] = IF d = c THEN got ELSE rpConn[d]
        BY <2>1 DEF RpInv, RpTypeOK
    <2>7. OfAPool'
        BY <2>3, <2>6 DEF RpInv, OfAPool
    <2>8. \A x \in RpEndpoints : rpPool'[x].used \subseteq 1 .. rpPool'[x].size
        BY <2>1, <2>2 DEF RpInv, RpTypeOK, ConnectionHasOneUser
    <2>9. rpPrimary' # 0 => 1 \in rpPool'[rpPrimary'].used
        BY <2>5 DEF RpInv, RpTypeOK, ConnectionHasOneUser
    <2>10. ASSUME NEW d \in RpCallers, rpConn'[d].index # 0
           PROVE  /\ rpConn'[d].index \in rpPool'[rpConn'[d].ep].used
                  /\ rpConn'[d] # [ep |-> rpPrimary', index |-> 1]
                  /\ \A x \in RpCallers \ {d} : rpConn'[x] # rpConn'[d]
        <3>1. CASE d = c
            <4>1. \A x \in RpCallers : rpConn[x] # got
                BY <2>2, <2>3 DEF RpInv, RpTypeOK, ConnectionHasOneUser
            <4>2. got # [ep |-> rpPrimary, index |-> 1]
                BY <2>2, <2>3, RpAssumption DEF RpInv, ConnectionHasOneUser
            <4> QED BY <2>2, <2>3, <2>5, <2>6, <3>1, <4>1, <4>2
        <3>2. CASE d # c
            <4>1. rpConn'[d] = rpConn[d] BY <2>6, <3>2
            <4>2. rpConn[d].ep \in RpEndpoints /\ rpConn[d].index \in rpPool[rpConn[d].ep].used
                BY <2>10, <4>1 DEF RpInv, OfAPool, ConnectionHasOneUser
            <4>3. rpConn[d] # got BY <2>2, <2>3, <4>2
            <4>4. /\ rpConn[d] # [ep |-> rpPrimary, index |-> 1]
                  /\ \A x \in RpCallers \ {d} : rpConn[x] # rpConn[d]
                BY <2>10, <4>1 DEF RpInv, ConnectionHasOneUser
            <4> QED BY <2>5, <2>6, <4>1, <4>2, <4>3, <4>4
        <3> QED BY <3>1, <3>2
    <2>11. ConnectionHasOneUser'
        BY <2>8, <2>9, <2>10 DEF ConnectionHasOneUser
    <2> QED BY <2>4, <2>7, <2>11 DEF RpInv
<1>2. CASE ~CanAcquire(e)
    <2>1. UNCHANGED rpPool /\ rpPc' = [rpPc EXCEPT ![c] = without]
          /\ rpConn' = [rpConn EXCEPT ![c] = NoConn]
        BY <1>2 DEF RpTake, RpGo
    <2>2. NoConn \in [ep : RpEndpoints \cup {0}, index : {0}] BY DEF NoConn
    <2> QED BY <2>1, <2>2, LetGo
<1> QED BY <1>1, <1>2

\* The start: the primary connection is the only one made.
LEMMA RpInitInv == RpInit => RpInv
<1> SUFFICES ASSUME RpInit PROVE RpInv
    OBVIOUS
<1>1. rpPrimary \in RpEndpoints \cup {0}
    <2>1. rpUp # {} => Min(rpUp) \in rpUp
        <3>1. rpUp \in SUBSET Nat BY RpAssumption DEF RpInit
        <3> QED BY <3>1, MinIsLeast
    <2> QED BY <2>1 DEF RpInit
<1>2. RpTypeOK
    <2>1. rpPool \in [RpEndpoints -> [size : 0 .. RpMaxSize, used : SUBSET (1 .. RpMaxSize)]]
        BY RpAssumption DEF RpInit, Fresh, Empty
    <2>2. rpConn \in [RpCallers -> [ep : RpEndpoints \cup {0}, index : 0 .. RpMaxSize]]
        BY RpAssumption DEF RpInit, NoConn
    <2> QED BY <1>1, <2>1, <2>2 DEF RpInit, RpTypeOK
<1>3. ConnectionHasOneUser /\ OfAPool
    BY <1>1 DEF RpInit, ConnectionHasOneUser, OfAPool, Fresh, Empty, NoConn
<1> QED BY <1>2, <1>3 DEF RpInv

\* _handle_failure leaves nobody in the pool that it makes anew.
LEMMA RpFailoverKeeps ==
    ASSUME RpInv, NEW c \in RpCallers, RpFailover(c)
    PROVE  RpInv'
<1>1. PICK e \in RpEndpoints :
          IF rpPrimary # 0 /\ e \in rpUp
          THEN /\ rpPool' = [rpPool EXCEPT ![e] = Fresh] /\ rpPrimary' = e
               /\ rpConn' = [d \in RpCallers |->
                     IF rpConn[d].ep = e THEN [ep |-> e, index |-> 0] ELSE rpConn[d]]
          ELSE UNCHANGED <<rpPool, rpPrimary, rpConn>>
    BY BestIsEndpoint DEF RpFailover
<1>2. rpPc' = [rpPc EXCEPT ![c] = "idle"] /\ UNCHANGED <<rpUp, rpHealthy, rpMonitor, rpTried>>
    BY DEF RpFailover
<1>3. CASE UNCHANGED <<rpPool, rpPrimary, rpConn>>
    BY <1>2, <1>3 DEF RpInv, RpTypeOK, ConnectionHasOneUser, OfAPool
<1>4. CASE /\ rpPool' = [rpPool EXCEPT ![e] = Fresh] /\ rpPrimary' = e
           /\ rpConn' = [d \in RpCallers |->
                 IF rpConn[d].ep = e THEN [ep |-> e, index |-> 0] ELSE rpConn[d]]
    <2>1. RpTypeOK'
        BY <1>2, <1>4, RpAssumption DEF RpInv, RpTypeOK, Fresh
    <2>2. \A x \in RpEndpoints : rpPool'[x] = IF x = e THEN Fresh ELSE rpPool[x]
        BY <1>4 DEF RpInv, RpTypeOK
    <2>3. \A d \in RpCallers : \/ rpConn'[d].index = 0
                               \/ rpConn'[d] = rpConn[d] /\ rpConn[d].ep # e
        BY <1>4
    <2>4. OfAPool'
        BY <2>3 DEF RpInv, OfAPool
    <2>5. \A d \in RpCallers : rpConn'[d].index # 0 =>
             /\ rpConn'[d].index \in rpPool'[rpConn'[d].ep].used
             /\ rpConn'[d] # [ep |-> rpPrimary', index |-> 1]
        BY <1>4, <2>2, <2>3 DEF RpInv, ConnectionHasOneUser, OfAPool
    <2>6. \A d \in RpCallers : rpConn'[d].index # 0 =>
             \A x \in RpCallers \ {d} : rpConn'[x] # rpConn'[d]
        BY <2>3 DEF RpInv, ConnectionHasOneUser
    <2>7. \A x \in RpEndpoints : rpPool'[x].used \subseteq 1 .. rpPool'[x].size
        BY <2>2 DEF RpInv, ConnectionHasOneUser, Fresh
    <2> QED BY <1>4, <2>1, <2>2, <2>4, <2>5, <2>6, <2>7 DEF RpInv, ConnectionHasOneUser, Fresh
<1> QED BY <1>1, <1>3, <1>4

\* The connection of an attempt goes back to its pool.
LEMMA RpTriedOneKeeps ==
    ASSUME RpInv, NEW c \in RpCallers, RpTriedOne(c)
    PROVE  RpInv'
<1>1. /\ rpPool' = [rpPool EXCEPT ![rpConn[c].ep].used = @ \ {rpConn[c].index}]
      /\ rpConn' = [rpConn EXCEPT ![c] = NoConn]
      /\ UNCHANGED <<rpUp, rpHealthy, rpMonitor, rpPrimary>>
    BY DEF RpTriedOne, RpGo
<1>2. /\ rpPc' \in [RpCallers -> {"idle", "shared", "kept", "failover", "trying", "retry"}]
      /\ rpTried' \in [RpCallers -> SUBSET RpEndpoints]
    BY DEF RpTriedOne, RpGo, RpInv, RpTypeOK
<1>3. RpTypeOK'
    <2>1. rpPool' \in [RpEndpoints -> [size : 0 .. RpMaxSize, used : SUBSET (1 .. RpMaxSize)]]
        BY <1>1 DEF RpInv, RpTypeOK
    <2>2. NoConn \in [ep : RpEndpoints \cup {0}, index : 0 .. RpMaxSize]
        BY RpAssumption DEF NoConn
    <2>3. rpConn' \in [RpCallers -> [ep : RpEndpoints \cup {0}, index : 0 .. RpMaxSize]]
        BY <1>1, <2>2 DEF RpInv, RpTypeOK
    <2> QED BY <1>1, <1>2, <2>1, <2>3 DEF RpInv, RpTypeOK
<1>4. \A x \in RpEndpoints :
         /\ rpPool'[x].size = rpPool[x].size
         /\ rpPool'[x].used = IF x = rpConn[c].ep THEN rpPool[x].used \ {rpConn[c].index}
                              ELSE rpPool[x].used
    BY <1>1 DEF RpInv, RpTypeOK
<1>5. \A d \in RpCallers : rpConn'[d] = IF d = c THEN NoConn ELSE rpConn[d]
    BY <1>1 DEF RpInv, RpTypeOK
<1>6. OfAPool'
    BY <1>5 DEF RpInv, OfAPool, NoConn
<1>7. rpPrimary' # 0 => 1 \in rpPool'[rpPrimary'].used
    <2>1. rpConn[c].index # 0 => rpConn[c] # [ep |-> rpPrimary, index |-> 1]
        BY DEF RpInv, ConnectionHasOneUser
    <2>2. rpConn[c] = [ep |-> rpConn[c].ep, index |-> rpConn[c].index]
        BY DEF RpInv, RpTypeOK
    <2>3. ~ (rpConn[c].ep = rpPrimary /\ rpConn[c].index = 1)
        BY <2>1, <2>2
    <2> QED BY <1>1, <1>4, <2>3 DEF RpInv, RpTypeOK, ConnectionHasOneUser
<1>8. ASSUME NEW d \in RpCallers, rpConn'[d].index # 0
      PROVE  /\ rpConn'[d].index \in rpPool'[rpConn'[d].ep].used
             /\ rpConn'[d] # [ep |-> rpPrimary', index |-> 1]
             /\ \A x \in RpCallers \ {d} : rpConn'[x] # rpConn'[d]
    <2>1. d # c /\ rpConn'[d] = rpConn[d]
        BY <1>5, <1>8 DEF NoConn
    <2>2. rpConn[c] # rpConn[d]
        BY <1>8, <2>1 DEF RpInv, ConnectionHasOneUser
    <2>3. rpConn[c] = [ep |-> rpConn[c].ep, index |-> rpConn[c].index]
          /\ rpConn[d] = [ep |-> rpConn[d].ep, index |-> rpConn[d].index]
        BY DEF RpInv, RpTypeOK
    <2>4. rpConn[d].ep = rpConn[c].ep => rpConn[d].index # rpConn[c].index
        BY <2>2, <2>3
    <2>5. rpConn[d].ep \in RpEndpoints /\ rpConn[d].index \in rpPool[rpConn[d].ep].used
        BY <1>8, <2>1 DEF RpInv, ConnectionHasOneUser, OfAPool
    <2>6. /\ rpConn[d] # [ep |-> rpPrimary, index |-> 1]
          /\ \A x \in RpCallers \ {d} : rpConn[x] # rpConn[d]
        BY <1>8, <2>1 DEF RpInv, ConnectionHasOneUser
    <2>7. NoConn # rpConn[d]
        BY <1>8, <2>1 DEF NoConn
    <2> QED BY <1>1, <1>4, <1>5, <2>1, <2>4, <2>5, <2>6, <2>7
<1> QED BY <1>3, <1>4, <1>6, <1>7, <1>8 DEF RpInv, ConnectionHasOneUser

\* execute_with_retry chooses an endpoint not tried yet.
LEMMA RpTryKeeps ==
    ASSUME RpInv, NEW c \in RpCallers, RpTry(c)
    PROVE  RpInv'
<1>1. PICK b \in RpEndpoints :
          /\ RpTake(c, IF b \in rpTried[c] THEN Min(RpEndpoints \ rpTried[c]) ELSE b,
                    "trying", "retry")
          /\ rpTried' = [rpTried EXCEPT ![c] = @ \cup
                          {IF b \in rpTried[c] THEN Min(RpEndpoints \ rpTried[c]) ELSE b}]
    BY BestIsEndpoint DEF RpTry
<1> DEFINE e == IF b \in rpTried[c] THEN Min(RpEndpoints \ rpTried[c]) ELSE b
<1>2. e \in RpEndpoints
    <2>1. RpEndpoints \ rpTried[c] \in SUBSET Nat /\ RpEndpoints \ rpTried[c] # {}
        BY RpAssumption DEF RpTry
    <2>2. Min(RpEndpoints \ rpTried[c]) \in RpEndpoints \ rpTried[c]
        BY <2>1, MinIsLeast
    <2> QED BY <2>2
<1>3. RpTake(c, e, "trying", "retry") /\ rpTried' = [rpTried EXCEPT ![c] = @ \cup {e}]
    BY <1>1
<1>4. UNCHANGED <<rpUp, rpHealthy, rpMonitor, rpPrimary>>
    BY DEF RpTry
<1> HIDE DEF e
<1>5. rpTried' \in [RpCallers -> SUBSET RpEndpoints]
    BY <1>2, <1>3 DEF RpInv, RpTypeOK
<1> QED BY <1>2, <1>3, <1>4, <1>5, RpTakeKeeps

\* A caller that takes an endpoint's connection keeps the invariant.
LEMMA RpGetKeeps ==
    ASSUME RpInv, NEW c \in RpCallers, RpGet(c)
    PROVE  RpInv'
<1>1. UNCHANGED <<rpUp, rpHealthy, rpMonitor, rpPrimary>>
      /\ rpTried' \in [RpCallers -> SUBSET RpEndpoints]
    BY DEF RpGet, RpInv, RpTypeOK
<1>2. CASE /\ rpPrimary \in rpUp
           /\ RpGo(c, "shared", [ep |-> rpPrimary, index |-> 0]) /\ UNCHANGED rpPool
    <2>1. [ep |-> rpPrimary, index |-> 0] \in [ep : RpEndpoints \cup {0}, index : {0}]
        BY DEF RpInv, RpTypeOK
    <2> QED BY <1>1, <1>2, <2>1, LetGo DEF RpGo
<1>3. CASE \E e \in RpBest : RpTake(c, e, "kept", "idle")
    BY <1>1, <1>3, RpTakeKeeps, BestIsEndpoint
<1> QED BY <1>2, <1>3 DEF RpGet

\* Every step keeps the invariant.
LEMMA RpInvStep == RpInv /\ [RpNext]_rpVars => RpInv'
<1> SUFFICES ASSUME RpInv, [RpNext]_rpVars PROVE RpInv'
    OBVIOUS
<1>1. ASSUME NEW c \in RpCallers, RpGot(c) \/ RpGivesUp(c) PROVE RpInv'
    <2>1. /\ UNCHANGED <<rpUp, rpHealthy, rpMonitor, rpPrimary, rpPool>>
          /\ rpTried' \in [RpCallers -> SUBSET RpEndpoints]
        BY <1>1 DEF RpGot, RpGivesUp, RpInv, RpTypeOK
    <2>2. rpConn' = [rpConn EXCEPT ![c] = NoConn]
        BY <1>1 DEF RpGot, RpGivesUp, RpGo
    <2>3. \E place \in {"idle", "retry", "shared", "failover"} : rpPc' = [rpPc EXCEPT ![c] = place]
        BY <1>1 DEF RpGot, RpGivesUp, RpGo
    <2>4. NoConn \in [ep : RpEndpoints \cup {0}, index : {0}]
        BY DEF NoConn
    <2> QED BY <2>1, <2>2, <2>3, <2>4, LetGo
<1>2. CASE RpStartStop \/ (\E e \in RpEndpoints : RpCheck(e) \/ RpFlips(e)) \/ UNCHANGED rpVars
    <2>1. UNCHANGED <<rpPool, rpPrimary, rpPc, rpConn, rpTried>>
        BY <1>2 DEF RpStartStop, RpCheck, RpFlips, rpVars
    <2>2. /\ rpUp' \subseteq RpEndpoints /\ rpHealthy' \in [RpEndpoints -> BOOLEAN]
          /\ rpMonitor' \in {"off", "on", "shut"}
        BY <1>2 DEF RpStartStop, RpCheck, RpFlips, rpVars, RpInv, RpTypeOK
    <2> QED BY <2>1, <2>2 DEF RpInv, RpTypeOK, ConnectionHasOneUser, OfAPool
<1> QED BY <1>1, <1>2, RpGetKeeps, RpFailoverKeeps, RpTryKeeps, RpTriedOneKeeps DEF RpNext

\* A connection of a pool has one user, whatever pools failovers replace under
\* calls that run, for any number of callers and endpoints.
THEOREM OneUser == RpSpec => []ConnectionHasOneUser
<1>1. RpInv => ConnectionHasOneUser
    BY DEF RpInv
<1> QED BY <1>1, RpInitInv, RpInvStep, PTL DEF RpSpec
-----------------------------------------------------------------------------
(* The lists of liquidity pools.                                           *)

\* What a call has gathered while it asks: of each source that it is through
\* with at most one live pool, seen since the call began.
Gathered(c) ==
    /\ \A e \in psGot[c] : /\ e.from = "live" /\ e.id \in PsSources
                           /\ psLeft[c][e.id] = 0 /\ psSince[c] <= e.seen
    /\ PsOneEach(psGot[c])

PsFit ==
    /\ \A e \in psDisk.pools : e.from = "disk"
    /\ \A c \in PsCallers :
          /\ psPc[c] = "idle" => psGot[c] = {}
          /\ psPc[c] \in {"ask", "late"} => Gathered(c)
          /\ psSince[c] <= psNow

PsInv == PsTypeOK /\ PsFit /\ PsCacheIsSound

\* What an entry is.
LEMMA EntryParts ==
    ASSUME NEW id, NEW seen, NEW from
    PROVE  /\ Entry(id, seen, from).id = id /\ Entry(id, seen, from).seen = seen
           /\ Entry(id, seen, from).from = from
           /\ id \in PsSources \cup {"1inch", "fallback"} /\ seen \in 0 .. PsMaxNow
                 /\ from \in {"live", "disk", "code"} => Entry(id, seen, from) \in Entries
  BY DEF Entry, Entries

\* Of the entries of one pool the first stays, and of each pool one does.
LEMMA KeptIsOneEach ==
    ASSUME NEW got \in SUBSET Entries,
           \A d, e \in got : d.id = e.id /\ (d.from = "disk" <=> e.from = "disk") => d = e
    PROVE  /\ Kept(got) \subseteq got /\ PsOneEach(Kept(got))
           /\ got # {} => Kept(got) # {}
<1> DEFINE rank == [live |-> 0, code |-> 0, disk |-> 1]
<1>1. Kept(got) = {e \in got : \A d \in got : d.id = e.id => rank[e.from] <= rank[d.from]}
    BY DEF Kept
<1>2. \A e \in got : rank[e.from] = IF e.from = "disk" THEN 1 ELSE 0
    BY DEF Entries
<1> HIDE DEF rank
<1>3. \A d, e \in Kept(got) : d.id = e.id => (d.from = "disk" <=> e.from = "disk")
    BY <1>1, <1>2
<1>4. PsOneEach(Kept(got))
    BY <1>1, <1>3 DEF PsOneEach
<1>5. ASSUME got # {} PROVE Kept(got) # {}
    <2>1. CASE \E e \in got : e.from # "disk"
        <3>1. PICK e \in got : e.from # "disk"
            BY <2>1
        <3>2. e \in Kept(got)
            BY <1>1, <1>2, <3>1
        <3> QED BY <3>2
    <2>2. CASE ~(\E e \in got : e.from # "disk")
        <3>1. PICK e \in got : TRUE
            BY <1>5
        <3>2. e \in Kept(got)
            BY <1>1, <1>2, <2>2
        <3> QED BY <3>2
    <2> QED BY <2>1, <2>2
<1> QED BY <1>1, <1>4, <1>5

\* The start.
LEMMA PsInitInv == PsInit => PsInv
<1> SUFFICES ASSUME PsInit PROVE PsInv
    OBVIOUS
<1> USE PsAssumption DEF PsInit
<1>1. PsTypeOK
    <2>1. psCache \in [at : -1 .. PsMaxNow, seen : -1 .. PsMaxNow]
        BY DEF NoCache
    <2>2. psDisk \in [at : -1 .. PsMaxNow, pools : SUBSET Entries]
        BY DEF NoFile
    <2>3. psLeft \in [PsCallers -> [PsSources -> 0 .. PsRetries]]
        OBVIOUS
    <2> QED BY <2>1, <2>2, <2>3 DEF PsTypeOK
<1>2. PsFit
    BY DEF PsFit, NoFile
<1>3. PsCacheIsSound
    BY DEF PsCacheIsSound, PsOneEach, NoFile, NoCache
<1> QED BY <1>1, <1>2, <1>3 DEF PsInv

\* A step that leaves what was gathered and what is kept as they are.
LEMMA PsAskStep ==
    ASSUME PsInv, NEW c \in PsCallers, PsAsk(c) \/ PsTimeout(c)
    PROVE  PsInv'
<1> USE PsAssumption
<1>0. PsTypeOK /\ PsFit /\ PsCacheIsSound BY DEF PsInv
<1>1. CASE PsAsk(c)
    <2>1. PsTypeOK'
        <3>1. psLeft' \in [PsCallers -> [PsSources -> 0 .. PsRetries]]
            BY <1>0, <1>1 DEF PsAsk, PsTypeOK
        <3>2. psPc' \in [PsCallers -> {"idle", "ask", "late", "save"}]
              /\ psSince' \in [PsCallers -> 0 .. PsMaxNow]
            BY <1>0, <1>1 DEF PsAsk, PsGo, PsTypeOK
        <3> QED BY <1>0, <1>1, <3>1, <3>2 DEF PsAsk, PsTypeOK
    <2>2. /\ \A d \in PsCallers : /\ psPc'[d] = IF d = c THEN "ask" ELSE psPc[d]
                                  /\ psSince'[d] = IF d = c THEN psNow ELSE psSince[d]
                                  /\ d # c => psLeft'[d] = psLeft[d]
          /\ psPc[c] = "idle" /\ UNCHANGED <<psNow, psCache, psDisk, psGot>>
        BY <1>0, <1>1 DEF PsAsk, PsGo, PsTypeOK
    <2>3. PsFit'
        BY <1>0, <2>2 DEF PsFit, Gathered, PsOneEach, PsTypeOK
    <2>4. PsCacheIsSound'
        BY <1>0, <2>2 DEF PsCacheIsSound, PsOneEach
    <2> QED BY <2>1, <2>3, <2>4 DEF PsInv
<1>2. CASE PsTimeout(c)
    <2>1. PsTypeOK'
        BY <1>0, <1>2 DEF PsTimeout, PsGo, PsTypeOK
    <2>2. /\ \A d \in PsCallers : psPc'[d] = IF d = c THEN "late" ELSE psPc[d]
          /\ psPc[c] = "ask" /\ UNCHANGED <<psNow, psCache, psDisk, psSince, psLeft, psGot>>
        BY <1>0, <1>2 DEF PsTimeout, PsGo, PsTypeOK
    <2>3. PsFit'
        BY <1>0, <2>2 DEF PsFit, Gathered, PsOneEach
    <2>4. PsCacheIsSound'
        BY <1>0, <2>2 DEF PsCacheIsSound, PsOneEach
    <2> QED BY <2>1, <2>3, <2>4 DEF PsInv
<1> QED BY <1>1, <1>2

\* An attempt that succeeds or fails.
LEMMA PsAttemptStep ==
    ASSUME PsInv, NEW c \in PsCallers, NEW s \in PsSources, PsAnswered(c, s) \/ PsRefused(c, s)
    PROVE  PsInv'
<1> USE PsAssumption
<1>0. PsTypeOK /\ PsFit /\ PsCacheIsSound BY DEF PsInv
<1>1. /\ psPc[c] \in {"ask", "late"} /\ psLeft[c][s] > 0
      /\ UNCHANGED <<psNow, psCache, psDisk, psPc, psSince>>
    BY DEF PsAnswered, PsRefused
<1>2. CASE PsAnswered(c, s)
    <2> DEFINE new == IF psPc[c] = "ask" THEN {Entry(s, psNow, "live")} ELSE {}
    <2>1. /\ psLeft' = [psLeft EXCEPT ![c][s] = 0] /\ psLocks' = psLocks \cup {s}
          /\ psGot' = [psGot EXCEPT ![c] = @ \cup new]
        BY <1>2 DEF PsAnswered
    <2>2. \A e \in new : e \in Entries /\ e.id = s /\ e.seen = psNow /\ e.from = "live"
        BY <1>0, EntryParts DEF PsTypeOK
    <2>3. \A d, e \in new : d = e
        OBVIOUS
    <2> HIDE DEF new
    <2>4. PsTypeOK'
        <3>1. psLeft' \in [PsCallers -> [PsSources -> 0 .. PsRetries]]
            BY <1>0, <2>1 DEF PsTypeOK
        <3>2. psGot' \in [PsCallers -> SUBSET Entries]
            BY <1>0, <2>1, <2>2 DEF PsTypeOK
        <3> QED BY <1>0, <1>1, <2>1, <3>1, <3>2 DEF PsTypeOK
    <2>5. \A d \in PsCallers :
             /\ psGot'[d] = IF d = c THEN psGot[c] \cup new ELSE psGot[d]
             /\ \A t \in PsSources : psLeft'[d][t] = IF d = c /\ t = s THEN 0 ELSE psLeft[d][t]
        BY <1>0, <2>1 DEF PsTypeOK
    <2>6. Gathered(c) /\ \A e \in psGot[c] : e.id # s
        BY <1>0, <1>1 DEF PsFit, Gathered
    <2>7. Gathered(c)'
        BY <1>0, <1>1, <2>2, <2>3, <2>5, <2>6 DEF Gathered, PsOneEach, PsFit
    <2>8. \A d \in PsCallers \ {c} : Gathered(d) => Gathered(d)'
        BY <1>1, <2>5 DEF Gathered, PsOneEach
    <2>9. PsFit'
        BY <1>0, <1>1, <2>5, <2>7, <2>8 DEF PsFit
    <2>10. PsCacheIsSound'
        BY <1>0, <1>1, <2>5 DEF PsCacheIsSound, PsOneEach
    <2> QED BY <2>4, <2>9, <2>10 DEF PsInv
<1>3. CASE PsRefused(c, s)
    <2>1. psLeft' = [psLeft EXCEPT ![c][s] = @ - 1] /\ UNCHANGED <<psLocks, psGot>>
        BY <1>3 DEF PsRefused
    <2>2. psLeft' \in [PsCallers -> [PsSources -> 0 .. PsRetries]]
        BY <1>0, <1>1, <2>1 DEF PsTypeOK
    <2>3. PsTypeOK'
        BY <1>0, <1>1, <2>1, <2>2 DEF PsTypeOK
    <2>4. \A d \in PsCallers, t \in PsSources : psLeft[d][t] = 0 => psLeft'[d][t] = 0
        BY <1>0, <1>1, <2>1 DEF PsTypeOK
    <2>5. \A d \in PsCallers : Gathered(d) => Gathered(d)'
        BY <1>1, <2>1, <2>4 DEF Gathered, PsOneEach
    <2>6. PsFit'
        BY <1>0, <1>1, <2>1, <2>5 DEF PsFit
    <2>7. PsCacheIsSound'
        BY <1>0, <1>1, <2>1 DEF PsCacheIsSound, PsOneEach
    <2> QED BY <2>3, <2>6, <2>7 DEF PsInv
<1> QED BY <1>2, <1>3

\* Before it is merged, no pool is twice in one of the two parts of the list:
\* what the call gathered and the code added, and what the disk held.
LEMMA PsMergeStep ==
    ASSUME PsInv, NEW c \in PsCallers, PsMerge(c)
    PROVE  PsInv'
<1> USE PsAssumption
<1>0. PsTypeOK /\ PsFit /\ PsCacheIsSound BY DEF PsInv
<1>1. /\ psPc[c] \in {"ask", "late"} /\ UNCHANGED <<psNow, psDisk, psSince, psLeft>>
      /\ psPc' = [psPc EXCEPT ![c] = "save"]
    BY DEF PsMerge, PsMergeAsOf, PsGo
<1>2. Gathered(c) /\ psSince[c] <= psNow
    BY <1>0, <1>1 DEF PsFit
<1> DEFINE got(inch) == psGot[c] \cup IF Cardinality(psGot[c]) < PsFew THEN inch ELSE {}
           disk(inch) == IF Cardinality(got(inch)) < PsVeryFew THEN PsLoaded ELSE {}
           hard(inch) == Cardinality(got(inch)) + Cardinality(disk(inch)) < PsMinimum
           fallback(inch) == IF hard(inch) /\ \A e \in disk(inch) : e.id # "fallback"
                             THEN {Entry("fallback", 0, "code")} ELSE {}
<1>3. PICK inch \in {{}, {Entry("1inch", 0, "code")}} :
         /\ psGot' = [psGot EXCEPT ![c] = Kept(got(inch) \cup disk(inch) \cup fallback(inch))]
         /\ psLocks' = IF hard(inch) THEN psLocks \cup {"fallback"} ELSE psLocks
         /\ psCache' = [at |-> psSince[c],
               seen |-> Min({e.seen : e \in {d \in got(inch) : d.from = "live"}} \cup {psNow})]
    BY DEF PsMerge, PsMergeAsOf
<1> DEFINE live == psGot[c]
           near == got(inch)
           far == disk(inch)
           hards == fallback(inch)
           all == near \cup far \cup hards
<1>4. \A e \in inch : e \in Entries /\ e.id = "1inch" /\ e.from = "code" /\ e = Entry("1inch", 0, "code")
    BY EntryParts
<1>5. \A e \in hards : /\ e \in Entries /\ e.id = "fallback" /\ e.from = "code"
                       /\ e = Entry("fallback", 0, "code")
    BY EntryParts
<1>6. near \subseteq live \cup inch /\ live \subseteq near
    OBVIOUS
<1>7. far \subseteq psDisk.pools
    BY DEF PsLoaded
<1>8. \A e \in live : e \in Entries /\ e.id \in PsSources /\ e.from = "live" /\ psSince[c] <= e.seen
    BY <1>0, <1>2 DEF Gathered, PsTypeOK
<1>9. \A e \in far : e \in Entries /\ e.from = "disk"
    BY <1>0, <1>7 DEF PsFit, PsTypeOK
<1>10. near \cup far # {} \/ hards # {}
    <2> SUFFICES ASSUME near = {}, far = {} PROVE hards # {}
        OBVIOUS
    <2>1. Cardinality(near) = 0 /\ Cardinality(far) = 0
        BY FS_EmptySet
    <2>2. hard(inch)
        BY <2>1
    <2>3. \A e \in far : e.id # "fallback"
        OBVIOUS
    <2> QED BY <2>2, <2>3
<1>11. psGot' = [psGot EXCEPT ![c] = Kept(all)]
    BY <1>3
<1>12. psLocks' \subseteq psLocks \cup {"fallback"}
    BY <1>3
<1>13. psCache' = [at |-> psSince[c],
                   seen |-> Min({e.seen : e \in {d \in near : d.from = "live"}} \cup {psNow})]
    BY <1>3
<1> HIDE DEF got, disk, hard, fallback, live, near, far, hards
<1>14. all \subseteq Entries /\ all # {}
    BY <1>4, <1>5, <1>6, <1>8, <1>9, <1>10
<1>15. \A d, e \in all : d.id = e.id /\ (d.from = "disk" <=> e.from = "disk") => d = e
    <2>1. \A d, e \in live : d.id = e.id => d = e
        BY <1>2 DEF Gathered, PsOneEach, live
    <2>2. \A d, e \in far : d.id = e.id => d = e
        BY <1>0, <1>7 DEF PsCacheIsSound, PsOneEach
    <2>3. \A d, e \in near \cup hards : d.id = e.id => d = e
        BY <1>4, <1>5, <1>6, <1>8, <2>1
    <2>4. \A e \in near \cup hards : e.from # "disk"
        BY <1>4, <1>5, <1>6, <1>8
    <2> QED BY <1>9, <2>2, <2>3, <2>4
<1> HIDE DEF all
<1>16. Kept(all) \subseteq Entries /\ Kept(all) # {} /\ PsOneEach(Kept(all))
    BY <1>14, <1>15, KeptIsOneEach
<1>17. psCache'.seen >= psCache'.at /\ psCache' \in [at : -1 .. PsMaxNow, seen : -1 .. PsMaxNow]
    <2> DEFINE times == {e.seen : e \in {d \in near : d.from = "live"}} \cup {psNow}
    <2>1. \A t \in times : t \in 0 .. PsMaxNow /\ psSince[c] <= t
        <3>1. \A e \in near : e.from = "live" => e \in live
            BY <1>4, <1>6
        <3>2. \A e \in near : e.from = "live" => e.seen \in 0 .. PsMaxNow /\ psSince[c] <= e.seen
            BY <1>8, <3>1 DEF Entries
        <3>3. psNow \in 0 .. PsMaxNow
            BY <1>0 DEF PsTypeOK
        <3> QED BY <1>2, <3>2, <3>3
    <2>2. psNow \in times
        OBVIOUS
    <2>3. psCache' = [at |-> psSince[c], seen |-> Min(times)]
        BY <1>13
    <2> HIDE DEF times
    <2>4. times \in SUBSET Nat
        BY <2>1
    <2>5. Min(times) \in times
        BY <2>2, <2>4, MinIsLeast
    <2>6. psSince[c] \in 0 .. PsMaxNow
        BY <1>0 DEF PsTypeOK
    <2>7. Min(times) \in 0 .. PsMaxNow /\ psSince[c] <= Min(times)
        BY <2>1, <2>5
    <2> QED BY <2>3, <2>6, <2>7
<1>18. \A d \in PsCallers : /\ psPc'[d] = IF d = c THEN "save" ELSE psPc[d]
                            /\ psGot'[d] = IF d = c THEN Kept(all) ELSE psGot[d]
    BY <1>0, <1>1, <1>11 DEF PsTypeOK
<1>19. PsTypeOK'
    <2>1. psGot' \in [PsCallers -> SUBSET Entries]
        BY <1>0, <1>11, <1>16 DEF PsTypeOK
    <2>2. psPc' \in [PsCallers -> {"idle", "ask", "late", "save"}]
        BY <1>0, <1>1 DEF PsTypeOK
    <2> QED BY <1>0, <1>1, <1>12, <1>17, <2>1, <2>2 DEF PsTypeOK
<1>20. PsFit'
    <2>1. \A d \in PsCallers \ {c} : Gathered(d) => Gathered(d)'
        BY <1>1, <1>18 DEF Gathered, PsOneEach
    <2> QED BY <1>0, <1>1, <1>18, <2>1 DEF PsFit
<1>21. PsCacheIsSound'
    BY <1>0, <1>1, <1>16, <1>17, <1>18 DEF PsCacheIsSound, PsOneEach
<1> QED BY <1>19, <1>20, <1>21 DEF PsInv

\* What goes to the disk has one entry of each pool, like the answer.
LEMMA PsSaveStep ==
    ASSUME PsInv, NEW c \in PsCallers, PsSave(c)
    PROVE  PsInv'
<1> USE PsAssumption
<1>0. PsTypeOK /\ PsFit /\ PsCacheIsSound BY DEF PsInv
<1>1. /\ psPc[c] = "save" /\ psPc' = [psPc EXCEPT ![c] = "idle"]
      /\ psGot' = [psGot EXCEPT ![c] = {}] /\ psSince' = [psSince EXCEPT ![c] = 0]
      /\ UNCHANGED <<psNow, psCache, psLocks, psLeft>>
    BY DEF PsSave, PsGo
<1> DEFINE stored == {Entry(e.id, e.seen, "disk") : e \in psGot[c]}
<1>2. psDisk' \in {psDisk, [at |-> psNow, pools |-> stored], NoFile}
    BY DEF PsSave
<1>3. stored \subseteq Entries /\ \A e \in stored : e.from = "disk"
    <2>1. \A e \in psGot[c] : Entry(e.id, e.seen, "disk") \in Entries
        BY <1>0, EntryParts DEF PsTypeOK, Entries
    <2> QED BY <2>1, EntryParts
<1>4. PsOneEach(stored)
    <2>1. PsOneEach(psGot[c])
        BY <1>0, <1>1 DEF PsCacheIsSound
    <2> QED BY <2>1, EntryParts DEF PsOneEach
<1> HIDE DEF stored
<1>5. /\ psDisk' \in [at : -1 .. PsMaxNow, pools : SUBSET Entries]
      /\ PsOneEach(psDisk'.pools) /\ \A e \in psDisk'.pools : e.from = "disk"
    <2>1. CASE psDisk' = psDisk
        BY <1>0, <2>1 DEF PsTypeOK, PsFit, PsCacheIsSound
    <2>2. CASE psDisk' = [at |-> psNow, pools |-> stored]
        BY <1>0, <1>3, <1>4, <2>2 DEF PsTypeOK
    <2>3. CASE psDisk' = NoFile
        BY <2>3 DEF NoFile, PsOneEach
    <2> QED BY <1>2, <2>1, <2>2, <2>3
<1>6. PsTypeOK'
    <2>1. psGot' \in [PsCallers -> SUBSET Entries] /\ psSince' \in [PsCallers -> 0 .. PsMaxNow]
        BY <1>0, <1>1 DEF PsTypeOK
    <2>2. psPc' \in [PsCallers -> {"idle", "ask", "late", "save"}]
        BY <1>0, <1>1 DEF PsTypeOK
    <2> QED BY <1>0, <1>1, <1>5, <2>1, <2>2 DEF PsTypeOK
<1>7. \A d \in PsCallers : /\ psPc'[d] = IF d = c THEN "idle" ELSE psPc[d]
                           /\ psGot'[d] = IF d = c THEN {} ELSE psGot[d]
                           /\ psSince'[d] = IF d = c THEN 0 ELSE psSince[d]
    BY <1>0, <1>1 DEF PsTypeOK
<1>8. PsFit'
    <2>1. \A d \in PsCallers \ {c} : Gathered(d) => Gathered(d)'
        BY <1>1, <1>7 DEF Gathered, PsOneEach
    <2>2. psNow \in 0 .. PsMaxNow
        BY <1>0 DEF PsTypeOK
    <2> QED BY <1>0, <1>1, <1>5, <1>7, <2>1, <2>2 DEF PsFit
<1>9. PsCacheIsSound'
    BY <1>0, <1>1, <1>5, <1>7 DEF PsCacheIsSound, PsOneEach
<1> QED BY <1>6, <1>8, <1>9 DEF PsInv

\* Every step keeps the invariant.
LEMMA PsInvStep == PsInv /\ [PsNext]_psVars => PsInv'
<1> SUFFICES ASSUME PsInv, [PsNext]_psVars PROVE PsInv'
    OBVIOUS
<1> USE PsAssumption
<1>0. PsTypeOK /\ PsFit /\ PsCacheIsSound BY DEF PsInv
<1>1. CASE PsDayPasses
    <2>1. psNow' \in 0 .. PsMaxNow /\ psNow' >= psNow
          /\ UNCHANGED <<psCache, psLocks, psDisk, psPc, psSince, psLeft, psGot>>
        BY <1>0, <1>1 DEF PsDayPasses, PsTypeOK
    <2>2. PsTypeOK'
        BY <1>0, <2>1 DEF PsTypeOK
    <2>3. \A d \in PsCallers : psSince'[d] <= psNow'
        BY <1>0, <2>1 DEF PsFit, PsTypeOK
    <2>4. PsFit'
        BY <1>0, <2>1, <2>3 DEF PsFit, Gathered, PsOneEach
    <2> QED BY <1>0, <2>1, <2>2, <2>4 DEF PsInv, PsCacheIsSound, PsOneEach
<1>2. CASE PsRestart
    <2>1. PsTypeOK'
        <3>1. psCache' \in [at : -1 .. PsMaxNow, seen : -1 .. PsMaxNow]
            BY <1>2 DEF PsRestart, NoCache
        <3>2. psLeft' \in [PsCallers -> [PsSources -> 0 .. PsRetries]]
            BY <1>2 DEF PsRestart
        <3> QED BY <1>0, <1>2, <3>1, <3>2 DEF PsRestart, PsTypeOK
    <2>2. PsFit'
        BY <1>0, <1>2 DEF PsRestart, PsFit, PsTypeOK
    <2>3. PsCacheIsSound'
        BY <1>0, <1>2 DEF PsRestart, PsCacheIsSound, PsOneEach, NoCache
    <2> QED BY <2>1, <2>2, <2>3 DEF PsInv
<1>3. CASE UNCHANGED psVars
    BY <1>0, <1>3 DEF psVars, PsInv, PsTypeOK, PsFit, Gathered, PsOneEach, PsCacheIsSound
<1> QED BY <1>1, <1>2, <1>3, PsAskStep, PsAttemptStep, PsMergeStep, PsSaveStep DEF PsNext

\* However calls overlap, restart and time out, lists have one entry of each
\* pool and the memory cache is not older than it says, for any sources.
THEOREM PoolLists == PsSpec => []PsCacheIsSound
<1>1. PsInv => PsCacheIsSound
    BY DEF PsInv
<1> QED BY <1>1, PsInitInv, PsInvStep, PTL DEF PsSpec
-----------------------------------------------------------------------------
(* The start of the processes.                                             *)

\* Between NexusAgent.start setting the agent's own flag and its loop begun.
Begun == {"feed", "fetch", "monitor", "scheduler", "loop"}
Starting(p) == agPc[p] \in Begun
Limit(p) == IF p = AgMain THEN AgWorkerTries ELSE AgTries

\* Who does what: requests and start threads in the web process, whose requests
\* touch the agent once it is ready; the main thread alone in the worker.
AgRoles ==
    /\ agRole = "web" =>
          /\ agPc[AgMain] = "unborn"
          /\ \A h \in AgHandlers : agPc[h] \in {"idle", "launch", "handle", "begin"}
                                              \union Begun \union DOMAIN Halts
          /\ \A t \in AgThreads : agPc[t] \in {"unborn", "build", "begin", "mark", "dead"} \union Begun
    /\ agRole = "worker" =>
          /\ ~agReady
          /\ \A p \in AgHandlers \union AgThreads : agPc[p] = "unborn"
          /\ agPc[AgMain] \in {"build", "begin", "serve", "exit", "dead"}
                                 \union Begun \union DOMAIN Halts
    /\ ~agReady => \A h \in AgHandlers : agPc[h] \in {"unborn", "idle", "launch", "handle"}
    /\ \A p \in AgProcs : agPc[p] \in {"exit"} \union DOMAIN Halts => agStopped

\* A live start thread is the latest one, and lives until the process is ready.
AgStarters ==
    /\ \A t \in AgThreads : AgAlive(t) => t = agStarter /\ ~agReady
    /\ agStarter # AgNone /\ ~agReady => AgAlive(agStarter)
    /\ agReady => agStarter # AgNone
    /\ agStarter = AgNone /\ agRole = "web" => agTried = 0 /\ agUp = {}
    /\ \A p \in AgProcs : agPc[p] = "build" => agTried < Limit(p)

\* What start() has set going when the thread that runs it is at a place.
UpAt(place) ==
    CASE place = "feed"      -> {"agent"}
      [] place = "fetch"     -> {"agent", "feed"}
      [] place = "monitor"   -> {"agent", "feed"}
      [] place = "scheduler" -> {"agent", "feed", "monitor"}
      [] place = "loop"      -> AgParts
LoopsAt(place) ==
    CASE place = "feed"      -> {}
      [] place = "fetch"     -> {}
      [] place = "monitor"   -> {"feed"}
      [] place = "scheduler" -> {"feed", "monitor"}
      [] place = "loop"      -> {"feed", "monitor", "scheduler"}
Loops(parts) == \A c \in AgParts : agLoops[c] = IF c \in parts THEN 1 ELSE 0

\* Until somebody asks for a stop, one thread at most runs start() to its end,
\* and the parts are up as far as it has got.
AgProgress ==
    /\ \A p \in AgProcs : Starting(p) =>
          /\ agUp = UpAt(agPc[p]) /\ Loops(LoopsAt(agPc[p]))
          /\ \A q \in AgProcs : Starting(q) => q = p
    /\ (\A p \in AgProcs : ~Starting(p)) =>
          \/ agUp = {} /\ Loops({})
          \/ agUp = AgParts /\ Loops(AgParts)
    /\ \A p \in AgProcs : agPc[p] = "build" \/ (agPc[p] = "begin" /\ p \notin AgHandlers) => agUp = {}
    /\ \A p \in AgProcs : agPc[p] = "mark" => agUp = AgParts /\ \A q \in AgProcs : ~Starting(q)
    /\ agReady /\ ~agGaveUp => agUp = AgParts /\ \A q \in AgProcs : ~Starting(q)

AgInv == AgTypeOK /\ AgRoles /\ AgStarters /\ (~agStopped => AgProgress)

AgPlaces == {"unborn", "idle", "launch", "handle", "build", "begin", "feed", "fetch", "monitor",
           "scheduler", "loop", "mark", "serve", "exit", "dead"}
              \union {"halt", "haltfeed", "haltmonitor", "haltscheduler"}

\* The places of stop().
LEMMA HaltPlaces ==
    /\ DOMAIN Halts = {"halt", "haltfeed", "haltmonitor", "haltscheduler"}
    /\ DOMAIN HaltNext = {"halt", "haltfeed", "haltmonitor"}
    /\ \A x \in DOMAIN Halts : Halts[x] \in AgParts
    /\ \A x \in DOMAIN HaltNext : HaltNext[x] \in DOMAIN Halts
  BY DEF Halts, HaltNext, AgParts

\* The start.
LEMMA AgInitInv == AgInit => AgInv
<1> SUFFICES ASSUME AgInit PROVE AgInv
    OBVIOUS
<1> USE AgAssumption DEF AgInit, AgProcs
<1>1. AgTypeOK
    <2>1. agPc \in [AgProcs -> AgPlaces]
        BY DEF AgPlaces
    <2>2. agTried \in 0 .. AgTries + AgWorkerTries /\ agCalls \in 0 .. AgMaxCalls
        OBVIOUS
    <2>3. agLoops \in [AgParts -> Nat] /\ agUp \subseteq AgParts
        OBVIOUS
    <2> QED BY <2>1, <2>2, <2>3, HaltPlaces DEF AgTypeOK, AgPlaces
<1>2. AgRoles
    BY HaltPlaces DEF AgRoles
<1>3. AgStarters
    BY DEF AgStarters, AgAlive, Limit
<1>4. AgProgress
    BY DEF AgProgress, Starting, Begun, Loops
<1> QED BY <1>1, <1>2, <1>3, <1>4 DEF AgInv

\* Of a step of one thread.
LEMMA GoesTo ==
    ASSUME AgTypeOK, NEW p \in AgProcs, NEW place, Goes(p, place)
    PROVE  \A q \in AgProcs : agPc'[q] = IF q = p THEN place ELSE agPc[q]
  BY DEF AgTypeOK, Goes

\* Where a thread goes on is a place of its own.
LEMMA BackPlaces ==
    ASSUME NEW p \in AgProcs
    PROVE  /\ Back(p) \in {"idle", "mark", "exit", "serve"}
           /\ p \in AgHandlers => Back(p) = "idle"
           /\ p \in AgThreads => Back(p) = "mark"
           /\ p = AgMain => Back(p) = IF agStopped THEN "exit" ELSE "serve"
  BY AgAssumption DEF Back, AgProcs

-----------------------------------------------------------------------------
\* A step keeps the types.
LEMMA AgTypeStep == AgInv /\ [AgNext]_agVars => AgTypeOK'
<1> SUFFICES ASSUME AgInv, [AgNext]_agVars PROVE AgTypeOK'
    OBVIOUS
<1> USE AgAssumption
<1>0. AgTypeOK BY DEF AgInv
<1>1. /\ agPc \in [AgProcs -> AgPlaces] /\ AgHandlers \subseteq AgProcs
      /\ AgThreads \subseteq AgProcs /\ AgMain \in AgProcs
    BY <1>0, HaltPlaces DEF AgTypeOK, AgPlaces, AgProcs
<1>2. agPc' \in [AgProcs -> AgPlaces] => (agPc \in [AgProcs -> {"unborn", "idle", "launch", "handle",
          "build", "begin", "feed", "fetch", "monitor", "scheduler", "loop", "mark", "serve", "exit",
          "dead"} \union DOMAIN Halts])'
    BY HaltPlaces DEF AgPlaces, Halts
<1>3. ASSUME NEW h \in AgHandlers, AgArrive(h) PROVE AgTypeOK'
    <2>1. agPc' \in [AgProcs -> AgPlaces]
        BY <1>1, <1>3 DEF AgArrive, Goes, AgPlaces
    <2>2. agCalls' \in 0 .. AgMaxCalls
        BY <1>0, <1>3 DEF AgArrive, AgTypeOK
    <2> QED BY <1>0, <1>2, <1>3, <2>1, <2>2 DEF AgTypeOK, AgArrive, agAgent
<1>4. ASSUME NEW h \in AgHandlers, AgLaunch(h) PROVE AgTypeOK'
    <2>1. agPc' \in [AgProcs -> AgPlaces] /\ agStarter' \in AgThreads \union {AgNone}
        <3>1. CASE agReady \/ AgAlive(agStarter)
            BY <1>0, <1>1, <1>4, <3>1 DEF AgLaunch, Goes, AgPlaces, AgTypeOK
        <3>2. CASE ~(agReady \/ AgAlive(agStarter))
            BY <1>0, <1>1, <1>4, <3>2 DEF AgLaunch, AgPlaces
        <3> QED BY <3>1, <3>2
    <2> QED BY <1>0, <1>2, <1>4, <2>1 DEF AgTypeOK, AgLaunch, agAgent
<1>5. ASSUME NEW h \in AgHandlers, AgHandle(h) PROVE AgTypeOK'
    <2>1. agPc' \in [AgProcs -> AgPlaces] /\ {agBuilt', agStopped'} \subseteq BOOLEAN
        BY <1>0, <1>1, <1>5 DEF AgHandle, Goes, AgPlaces, AgTypeOK
    <2> QED BY <1>0, <1>2, <1>5, <2>1 DEF AgTypeOK, AgHandle, agAgent
<1>6. CASE AgPush
    BY <1>0, <1>6 DEF AgTypeOK, AgPush, agAgent
<1>7. ASSUME NEW p \in AgProcs, AgBuild(p) PROVE AgTypeOK'
    <2>1. agPc' \in [AgProcs -> AgPlaces]
        BY <1>1, <1>7 DEF AgBuild, Goes, AgPlaces
    <2> QED BY <1>0, <1>2, <1>7, <2>1 DEF AgTypeOK, AgBuild, agAgent
<1>8. ASSUME NEW p \in AgProcs, AgBuildFails(p) PROVE AgTypeOK'
    <2>1. agPc' \in [AgProcs -> AgPlaces]
        BY <1>1, <1>8 DEF AgBuildFails, Goes, AgPlaces
    <2>2. agTried' \in 0 .. AgTries + AgWorkerTries
        BY <1>0, <1>8 DEF AgBuildFails, AgTypeOK, AgInv, AgStarters, Limit
    <2>3. {agReady', agGaveUp'} \subseteq BOOLEAN
        BY <1>0, <1>8 DEF AgBuildFails, AgTypeOK
    <2> QED BY <1>0, <1>2, <1>8, <2>1, <2>2, <2>3 DEF AgTypeOK, AgBuildFails, agAgent
<1>9. ASSUME NEW p \in AgProcs, AgBegin(p) \/ AgFeed(p) \/ AgFetched(p) \/ AgPart(p) \/ AgLoop(p)
                                \/ AgHalt(p) PROVE AgTypeOK'
    <2>1. agPc' \in [AgProcs -> AgPlaces]
        <3>1. \E place \in AgPlaces : Goes(p, place)
            <4>1. CASE AgHalt(p)
                BY <4>1, HaltPlaces, BackPlaces DEF AgHalt, AgPlaces
            <4>2. CASE ~AgHalt(p)
                BY <1>9, <4>2, BackPlaces DEF AgBegin, AgFeed, AgFetched, AgPart, AgLoop, AgPlaces
            <4> QED BY <4>1, <4>2
        <3> QED BY <1>1, <3>1 DEF Goes
    <2>2. agUp' \subseteq AgParts
        BY <1>0, <1>9 DEF AgBegin, AgFeed, AgFetched, AgPart, AgLoop, AgHalt, AgTypeOK, AgParts
    <2>3. agLoops' \in [AgParts -> Nat]
        <3>1. ASSUME NEW c \in AgParts, Spawned(c) PROVE agLoops' \in [AgParts -> Nat]
            BY <1>0, <3>1 DEF AgTypeOK, Spawned
        <3>2. UNCHANGED agLoops \/ \E c \in AgParts : Spawned(c)
            BY <1>9 DEF AgBegin, AgFeed, AgFetched, AgPart, AgLoop, AgHalt, AgParts
        <3> QED BY <1>0, <3>1, <3>2 DEF AgTypeOK
    <2>4. agPriced' \in BOOLEAN /\ UNCHANGED agWeb
        BY <1>0, <1>9 DEF AgBegin, AgFeed, AgFetched, AgPart, AgLoop, AgHalt, AgTypeOK
    <2> QED BY <1>0, <1>2, <2>1, <2>2, <2>3, <2>4 DEF AgTypeOK, agWeb
<1>10. ASSUME NEW p \in AgProcs, AgMark(p) PROVE AgTypeOK'
    <2>1. agPc' \in [AgProcs -> AgPlaces]
        BY <1>1, <1>10 DEF AgMark, Goes, AgPlaces
    <2> QED BY <1>0, <1>2, <1>10, <2>1 DEF AgTypeOK, AgMark, agAgent
<1>11. ASSUME NEW c \in AgParts, AgLoopEnds(c) PROVE AgTypeOK'
    <2>1. agLoops' \in [AgParts -> Nat]
        BY <1>0, <1>11 DEF AgLoopEnds, AgTypeOK
    <2> QED BY <1>0, <1>11, <2>1 DEF AgTypeOK, AgLoopEnds, agWeb
<1>12. CASE AgRefresh
    BY <1>0, <1>12 DEF AgTypeOK, AgRefresh, agWeb
<1>13. CASE AgSignal
    <2>1. agPc' \in [AgProcs -> AgPlaces]
        BY <1>1, <1>13 DEF AgSignal, Goes, AgPlaces
    <2> QED BY <1>0, <1>2, <1>13, <2>1 DEF AgTypeOK, AgSignal, agAgent
<1>14. CASE AgExit
    <2>1. agPc' \in [AgProcs -> AgPlaces]
        BY <1>1, <1>14 DEF AgExit, Goes, AgPlaces
    <2> QED BY <1>0, <1>2, <1>14, <2>1 DEF AgTypeOK, AgExit, agWeb
<1>15. CASE UNCHANGED agVars
    BY <1>0, <1>15 DEF AgTypeOK, agVars, agWeb, agAgent
<1> QED
    BY <1>3, <1>4, <1>5, <1>6, <1>7, <1>8, <1>9, <1>10, <1>11, <1>12, <1>13, <1>14, <1>15 DEF AgNext

-----------------------------------------------------------------------------
\* What the invariant says of the places does not tell two threads apart that
\* it need not: of an action that moves one thread only.
AgRest == AgRoles /\ AgStarters /\ (~agStopped => AgProgress)

\* Requests.
LEMMA AgRequestStep ==
    ASSUME AgInv, NEW h \in AgHandlers, AgArrive(h) \/ AgLaunch(h) \/ AgHandle(h)
    PROVE  AgRest'
<1> USE AgAssumption
<1>0. AgTypeOK /\ AgRoles /\ AgStarters /\ (~agStopped => AgProgress) BY DEF AgInv
<1>1. h \in AgProcs /\ h # AgMain /\ h \notin AgThreads
    BY DEF AgProcs
<1>2. CASE AgArrive(h)
    <2>1. PICK place \in {"handle", "launch"} :
             \A q \in AgProcs : agPc'[q] = IF q = h THEN place ELSE agPc[q]
        BY <1>0, <1>1, <1>2, GoesTo DEF AgArrive
    <2>2. /\ UNCHANGED <<agUp, agLoops, agRole, agReady, agStarter, agTried, agGaveUp, agStopped>>
          /\ agPc[h] = "idle"
        BY <1>2 DEF AgArrive, agAgent
    <2>3. AgRoles'
        BY <1>0, <1>1, <2>1, <2>2, HaltPlaces DEF AgRoles, AgProcs
    <2>4. AgStarters'
        BY <1>0, <1>1, <2>1, <2>2 DEF AgStarters, AgAlive, AgProcs, AgTypeOK, Limit
    <2>5. AgProgress => AgProgress'
        <3>1. \A q \in AgProcs : (Starting(q)' <=> Starting(q)) /\ (Starting(q) => agPc'[q] = agPc[q])
            BY <2>1, <2>2 DEF Starting, Begun
        <3>2. \A q \in AgProcs : \A x \in {"build", "begin", "mark"} : agPc'[q] = x <=> agPc[q] = x
            BY <2>1, <2>2
        <3> QED BY <1>0, <2>2, <3>1, <3>2 DEF AgProgress, Loops
    <2> QED BY <1>0, <2>2, <2>3, <2>4, <2>5 DEF AgRest
<1>3. CASE AgLaunch(h)
    <2>1. /\ UNCHANGED <<agUp, agLoops, agRole, agReady, agTried, agGaveUp, agStopped>>
          /\ agPc[h] = "launch"
        BY <1>3 DEF AgLaunch, agAgent
    <2>2. CASE agReady \/ AgAlive(agStarter)
        <3>1. \A q \in AgProcs : agPc'[q] = IF q = h THEN "handle" ELSE agPc[q]
            BY <1>0, <1>1, <1>3, <2>2, GoesTo DEF AgLaunch
        <3>2. UNCHANGED agStarter
            BY <1>3, <2>2 DEF AgLaunch
        <3>3. AgRoles'
            BY <1>0, <1>1, <2>1, <3>1, HaltPlaces DEF AgRoles, AgProcs
        <3>4. AgStarters'
            BY <1>0, <1>1, <2>1, <3>1, <3>2 DEF AgStarters, AgAlive, AgProcs, AgTypeOK, Limit
        <3>5. AgProgress => AgProgress'
            <4>1. \A q \in AgProcs : (Starting(q)' <=> Starting(q)) /\ (Starting(q) => agPc'[q] = agPc[q])
                BY <2>1, <3>1 DEF Starting, Begun
            <4>2. \A q \in AgProcs : \A x \in {"build", "begin", "mark"} : agPc'[q] = x <=> agPc[q] = x
                BY <2>1, <3>1
            <4> QED BY <1>0, <2>1, <4>1, <4>2 DEF AgProgress, Loops
        <3> QED BY <1>0, <2>1, <3>3, <3>4, <3>5 DEF AgRest
    <2>3. CASE ~(agReady \/ AgAlive(agStarter))
        <3>1. PICK t \in AgThreads : /\ agPc[t] = "unborn" /\ agStarter' = t
                                     /\ agPc' = [agPc EXCEPT ![h] = "handle", ![t] = "build"]
            BY <1>3, <2>3 DEF AgLaunch
        <3>2. \A q \in AgProcs : agPc'[q] = IF q = t THEN "build" ELSE IF q = h THEN "handle" ELSE agPc[q]
            BY <1>0, <1>1, <3>1 DEF AgTypeOK, AgProcs
        <3>3. t \in AgProcs /\ t # h /\ t # AgMain /\ t \notin AgHandlers /\ t # AgNone
            BY <1>1 DEF AgProcs
        <3>4. agStarter = AgNone /\ agRole = "web"
            BY <1>0, <1>1, <2>1, <2>3 DEF AgStarters, AgRoles, AgTypeOK
        <3>5. agTried = 0 /\ agUp = {} /\ \A x \in AgThreads : ~AgAlive(x)
            BY <1>0, <3>4 DEF AgStarters, AgTypeOK
        <3>6. AgRoles'
            BY <1>0, <1>1, <2>1, <3>2, <3>3, HaltPlaces DEF AgRoles, AgProcs
        <3>7. AgStarters'
            <4>1. \A x \in AgThreads : AgAlive(x)' => x = t
                BY <3>2, <3>3, <3>5 DEF AgAlive, AgProcs
            <4>2. agPc'[t] = "build" /\ agReady' = agReady
                BY <2>1, <3>2, <3>3
            <4>5. AgAlive(agStarter)'
                BY <3>1, <3>3, <4>2 DEF AgAlive
            <4>6. ~agReady'
                BY <2>3, <4>2
            <4>3. \A p \in AgProcs : agPc'[p] = "build" => agTried' < Limit(p)
                BY <2>1, <3>5 DEF Limit
            <4> QED BY <3>1, <3>3, <4>1, <4>3, <4>5, <4>6 DEF AgStarters
        <3>8. AgProgress => AgProgress'
            <4>1. \A q \in AgProcs : (Starting(q)' <=> Starting(q)) /\ (Starting(q) => agPc'[q] = agPc[q])
                <5>1. agPc[t] = "unborn" /\ agPc[h] = "launch"
                    BY <2>1, <3>1
                <5> QED BY <3>2, <5>1 DEF Starting, Begun
            <4>2. \A q \in AgProcs : agPc'[q] \in {"begin", "mark"} => agPc'[q] = agPc[q]
                BY <2>1, <3>2
            <4> QED BY <1>0, <2>1, <3>5, <4>1, <4>2 DEF AgProgress, Loops
        <3> QED BY <1>0, <2>1, <3>6, <3>7, <3>8 DEF AgRest
    <2> QED BY <2>2, <2>3
<1>4. CASE AgHandle(h)
    <2>1. PICK place \in {"idle", "begin", "halt"} :
             /\ \A q \in AgProcs : agPc'[q] = IF q = h THEN place ELSE agPc[q]
             /\ place # "idle" => agReady
             /\ place = "halt" => agStopped'
             /\ place = "halt" \/ UNCHANGED agStopped
             /\ agStopped => agStopped'
        BY <1>0, <1>1, <1>4, GoesTo DEF AgHandle, AgTypeOK
    <2>2. /\ UNCHANGED <<agUp, agLoops, agRole, agReady, agStarter, agTried, agGaveUp>>
          /\ agPc[h] = "handle"
        BY <1>4 DEF AgHandle, agAgent
    <2>3. AgRoles'
        BY <1>0, <1>1, <2>1, <2>2, HaltPlaces DEF AgRoles, AgProcs
    <2>4. AgStarters'
        BY <1>0, <1>1, <2>1, <2>2 DEF AgStarters, AgAlive, AgProcs, AgTypeOK, Limit
    <2>5. AgProgress => AgProgress'
        <3>1. \A q \in AgProcs : (Starting(q)' <=> Starting(q)) /\ (Starting(q) => agPc'[q] = agPc[q])
            BY <2>1, <2>2 DEF Starting, Begun
        <3>2. \A q \in AgProcs : \A x \in {"build", "mark"} : agPc'[q] = x <=> agPc[q] = x
            BY <2>1, <2>2
        <3>3. \A q \in AgProcs \ AgHandlers : agPc'[q] = agPc[q]
            BY <2>1
        <3> QED BY <1>0, <2>2, <3>1, <3>2, <3>3 DEF AgProgress, Loops
    <2> QED BY <1>0, <2>1, <2>2, <2>3, <2>4, <2>5 DEF AgRest
<1> QED BY <1>2, <1>3, <1>4

\* get_agent, which nobody else sees, and prices that come in.
LEMMA AgUnseenStep ==
    ASSUME AgInv, AgPush \/ AgRefresh \/ UNCHANGED agVars
    PROVE  AgRest'
<1>1. UNCHANGED <<agPc, agUp, agLoops, agRole, agReady, agStarter, agTried, agGaveUp, agStopped>>
    BY DEF AgPush, AgRefresh, agVars, agWeb, agAgent
<1>2. AgRoles' /\ AgStarters'
    BY <1>1 DEF AgInv, AgRoles, AgStarters, AgAlive
<1>3. AgProgress => AgProgress'
    BY <1>1 DEF AgProgress, Starting, Loops
<1> QED BY <1>1, <1>2, <1>3 DEF AgInv, AgRest

\* get_agent() of the thread that starts the agent, and its failures.
LEMMA AgBuildStep ==
    ASSUME AgInv, NEW p \in AgProcs, AgBuild(p) \/ AgBuildFails(p)
    PROVE  AgRest'
<1> USE AgAssumption
<1>0. AgTypeOK /\ AgRoles /\ AgStarters /\ (~agStopped => AgProgress) BY DEF AgInv
<1>1. agPc[p] = "build" /\ UNCHANGED <<agUp, agLoops, agRole, agStarter, agStopped>>
    BY DEF AgBuild, AgBuildFails, agAgent
<1>2. p \notin AgHandlers /\ \A h \in AgHandlers : h \in AgProcs /\ h # p
    BY <1>0, <1>1, HaltPlaces DEF AgRoles, AgProcs, AgTypeOK, Begun
<1>3. CASE AgBuild(p)
    <2>1. \A q \in AgProcs : agPc'[q] = IF q = p THEN "begin" ELSE agPc[q]
        BY <1>0, <1>3, GoesTo DEF AgBuild
    <2>2. UNCHANGED <<agReady, agTried, agGaveUp>>
        BY <1>3 DEF AgBuild
    <2>3. AgRoles'
        BY <1>0, <1>1, <1>2, <2>1, <2>2, HaltPlaces DEF AgRoles, AgProcs
    <2>4. AgStarters'
        BY <1>0, <1>1, <2>1, <2>2 DEF AgStarters, AgAlive, AgProcs, AgTypeOK, Limit
    <2>5. AgProgress => AgProgress'
        <3>1. \A q \in AgProcs : (Starting(q)' <=> Starting(q)) /\ (Starting(q) => agPc'[q] = agPc[q])
            BY <1>1, <2>1 DEF Starting, Begun
        <3>2. AgProgress => agUp = {}
            BY <1>1 DEF AgProgress
        <3>3. \A q \in AgProcs : agPc'[q] = "mark" => agPc[q] = "mark"
            BY <2>1
        <3> QED BY <1>1, <2>2, <3>1, <3>2, <3>3 DEF AgProgress, Loops
    <2> QED BY <1>0, <1>1, <2>3, <2>4, <2>5 DEF AgRest
<1>4. CASE AgBuildFails(p) /\ agTried' < Limit(p)
    <2>1. UNCHANGED <<agPc, agReady, agGaveUp>> /\ agTried' = agTried + 1
        BY <1>4 DEF AgBuildFails, Limit
    <2>2. AgRoles'
        BY <1>0, <1>1, <2>1 DEF AgRoles
    <2>3. \A q \in AgProcs : agPc[q] = "build" => q = p
        BY <1>0, <1>1, HaltPlaces DEF AgRoles, AgStarters, AgAlive, AgProcs, AgTypeOK, Begun
    <2>4. agStarter = AgNone => agRole # "web"
        BY <1>0, <1>1, <1>2, HaltPlaces DEF AgRoles, AgStarters, AgAlive, AgProcs, AgTypeOK
    <2>5. AgStarters'
        BY <1>0, <1>1, <1>4, <2>1, <2>3, <2>4 DEF AgStarters, AgAlive, Limit
    <2>6. AgProgress => AgProgress'
        BY <1>1, <2>1 DEF AgProgress, Starting, Loops
    <2> QED BY <1>0, <1>1, <2>2, <2>5, <2>6 DEF AgRest
<1>5. CASE AgBuildFails(p) /\ ~(agTried' < Limit(p))
    <2>1. /\ \A q \in AgProcs : agPc'[q] = IF q = p THEN "dead" ELSE agPc[q]
          /\ agReady' = (p # AgMain) /\ agGaveUp' = (p # AgMain)
        BY <1>0, <1>5, GoesTo DEF AgBuildFails, Limit
    <2>2. p = AgMain <=> agRole = "worker"
        BY <1>0, <1>1, <1>2 DEF AgRoles, AgProcs, AgTypeOK
    <2>3. AgRoles'
        BY <1>0, <1>1, <1>2, <2>1, <2>2, HaltPlaces DEF AgRoles, AgProcs
    <2>4. AgStarters'
        <3>1. p # AgMain => p = agStarter /\ p \in AgThreads
            BY <1>0, <1>1, <1>2 DEF AgStarters, AgAlive, AgProcs
        <3>2. \A t \in AgThreads : ~AgAlive(t)'
            BY <1>0, <1>1, <2>1, <2>2, <3>1 DEF AgStarters, AgRoles, AgAlive, AgProcs
        <3>3. p # AgMain => agReady' /\ agStarter' # AgNone
            BY <1>1, <2>1, <3>1
        <3>4. p = AgMain => ~agReady' /\ agStarter' = AgNone /\ agRole' = "worker"
            BY <1>0, <1>1, <2>1, <2>2 DEF AgStarters, AgRoles, AgTypeOK, AgAlive, AgProcs
        <3>5. \A q \in AgProcs : agPc[q] = "build" => q = p
            BY <1>0, <1>1, HaltPlaces DEF AgRoles, AgStarters, AgAlive, AgProcs, AgTypeOK, Begun
        <3>6. \A q \in AgProcs : agPc'[q] # "build"
            BY <2>1, <3>5
        <3> QED BY <3>2, <3>3, <3>4, <3>6 DEF AgStarters
    <2>5. AgProgress => AgProgress'
        <3>1. \A q \in AgProcs : (Starting(q)' <=> Starting(q)) /\ (Starting(q) => agPc'[q] = agPc[q])
            BY <1>1, <2>1 DEF Starting, Begun
        <3>2. \A q \in AgProcs : agPc'[q] \in {"build", "begin", "mark"} => agPc'[q] = agPc[q]
            BY <1>1, <2>1
        <3>3. ~(agReady' /\ ~agGaveUp')
            BY <2>1
        <3> QED BY <1>1, <3>1, <3>2, <3>3 DEF AgProgress, Loops
    <2> QED BY <1>0, <1>1, <2>3, <2>4, <2>5 DEF AgRest
<1> QED BY <1>3, <1>4, <1>5

\* The places of start() and who may be there.
LEMMA WhoStarts ==
    ASSUME AgInv, NEW p \in AgProcs, agPc[p] = "begin" \/ Starting(p)
    PROVE  /\ p \in AgHandlers => agReady /\ agRole = "web"
           /\ p \in AgThreads => p = agStarter /\ ~agReady /\ agRole = "web"
           /\ p = AgMain => agRole = "worker" /\ ~agReady
           /\ agStarter = AgNone => agRole # "web"
<1> USE AgAssumption, HaltPlaces
<1>1. AgTypeOK /\ AgRoles /\ AgStarters
    BY DEF AgInv
<1>2. agPc[p] \in {"begin", "feed", "fetch", "monitor", "scheduler", "loop"}
    BY DEF Starting, Begun
<1>3. p \in AgHandlers => agReady /\ agRole = "web"
    BY <1>1, <1>2 DEF AgRoles, AgTypeOK
<1>4. p \in AgThreads => p = agStarter /\ ~agReady /\ agRole = "web"
    BY <1>1, <1>2 DEF AgRoles, AgStarters, AgAlive, AgTypeOK
<1>5. p = AgMain => agRole = "worker" /\ ~agReady
    BY <1>1, <1>2 DEF AgRoles, AgTypeOK
<1>6. agStarter = AgNone => agRole # "web"
    BY <1>1, <1>3, <1>4, <1>5 DEF AgStarters, AgProcs
<1> QED BY <1>3, <1>4, <1>5, <1>6

\* A thread in start() goes on in it, or leaves it: who is what stays as it was.
LEMMA AgPlaceStep ==
    ASSUME AgInv, NEW p \in AgProcs, agPc[p] = "begin" \/ Starting(p),
           NEW place \in Begun \union {Back(p)}, Goes(p, place), UNCHANGED agWeb
    PROVE  AgRoles' /\ AgStarters'
<1> USE AgAssumption, HaltPlaces
<1>0. AgTypeOK /\ AgRoles /\ AgStarters BY DEF AgInv
<1>1. \A q \in AgProcs : agPc'[q] = IF q = p THEN place ELSE agPc[q]
    BY <1>0, GoesTo
<1>2. UNCHANGED <<agRole, agReady, agStarter, agTried, agStopped>>
    BY DEF agWeb
<1>3. /\ place \notin {"build", "unborn", "dead", "begin", "launch"} \union DOMAIN Halts
      /\ p \in AgHandlers => place \in Begun \union {"idle"}
      /\ p \in AgThreads => place \in Begun \union {"mark"}
      /\ p = AgMain => place \in Begun \union {"exit", "serve"}
      /\ place = "exit" => agStopped
    BY BackPlaces DEF Begun, AgProcs
<1>4. AgRoles'
    BY <1>0, <1>1, <1>2, <1>3, WhoStarts DEF AgRoles, AgProcs, AgTypeOK
<1>5. \A t \in AgThreads : AgAlive(t)' => AgAlive(t)
    BY <1>0, <1>1, <1>3, WhoStarts DEF AgAlive, AgProcs, Starting, Begun
<1>6. AgAlive(agStarter) => AgAlive(agStarter)'
    BY <1>0, <1>1, <1>2, <1>3 DEF AgAlive, AgProcs, AgTypeOK
<1>7. \A q \in AgProcs : agPc'[q] = "build" => agPc[q] = "build"
    BY <1>1, <1>3
<1>8. agStarter = AgNone => agRole # "web"
    BY WhoStarts
<1>9. AgStarters'
    BY <1>0, <1>2, <1>5, <1>6, <1>7, <1>8 DEF AgStarters, Limit
<1> QED BY <1>4, <1>9

\* NexusAgent.start begins, if the agent does not run.
LEMMA AgBeginStep ==
    ASSUME AgInv, NEW p \in AgProcs, AgBegin(p)
    PROVE  AgRest'
<1> USE AgAssumption
<1>0. AgTypeOK BY DEF AgInv
<1> DEFINE place == IF "agent" \in agUp THEN Back(p) ELSE "feed"
<1>1. /\ agPc[p] = "begin" /\ Goes(p, place) /\ agUp' = agUp \union {"agent"}
      /\ UNCHANGED <<agWeb, agLoops>>
    BY DEF AgBegin
<1>2. place \in Begun \union {Back(p)}
    BY DEF Begun
<1>3. \A q \in AgProcs : agPc'[q] = IF q = p THEN place ELSE agPc[q]
    BY <1>0, <1>1, GoesTo
<1>4. UNCHANGED <<agReady, agGaveUp, agStopped>>
    BY <1>1 DEF agWeb
<1>5. AgRoles' /\ AgStarters'
    BY <1>1, <1>2, AgPlaceStep
<1>6. ASSUME AgProgress PROVE AgProgress'
    <2>1. CASE "agent" \in agUp
        <3>1. place = Back(p) /\ agUp' = agUp BY <1>1, <2>1
        <3>2. p \in AgHandlers BY <1>1, <1>6, <2>1 DEF AgProgress
        <3>3. place = "idle" BY <3>1, <3>2, BackPlaces
        <3>4. \A q \in AgProcs : (Starting(q)' <=> Starting(q)) /\ (Starting(q) => agPc'[q] = agPc[q])
            BY <1>1, <1>3, <3>3 DEF Starting, Begun
        <3>5. \A q \in AgProcs : agPc'[q] \in {"build", "begin", "mark"} => agPc'[q] = agPc[q]
            BY <1>3, <3>3
        <3> QED BY <1>1, <1>4, <1>6, <3>1, <3>4, <3>5 DEF AgProgress, Loops
    <2>2. CASE "agent" \notin agUp
        <3>1. \A q \in AgProcs : ~Starting(q)
            BY <1>6, <2>2 DEF AgProgress, Starting, Begun, UpAt, AgParts
        <3>2. agUp = {} /\ Loops({})
            BY <1>6, <2>2, <3>1 DEF AgProgress, AgParts
        <3>3. \A q \in AgProcs : agPc[q] # "mark"
            BY <1>6, <3>2 DEF AgProgress, AgParts
        <3>4. ~(agReady /\ ~agGaveUp)
            BY <1>6, <3>2 DEF AgProgress, AgParts
        <3>5. \A q \in AgProcs : agPc[q] = "build" \/ (agPc[q] = "begin" /\ q \notin AgHandlers) => q = p
            <4> SUFFICES ASSUME NEW q \in AgProcs,
                                agPc[q] = "build" \/ (agPc[q] = "begin" /\ q \notin AgHandlers)
                         PROVE  q = p
                OBVIOUS
            <4>1. /\ agRole = "web" => q \in AgThreads /\ q = agStarter /\ ~agReady
                  /\ agRole = "worker" => q = AgMain
                BY HaltPlaces DEF AgInv, AgRoles, AgStarters, AgAlive, AgProcs, AgTypeOK, Begun
            <4>2. agRole \in {"web", "worker"} BY <1>0 DEF AgTypeOK
            <4> QED BY <1>1, <4>1, <4>2, WhoStarts DEF AgProcs
        <3>6. place = "feed" /\ agUp' = {"agent"}
            BY <1>1, <2>2, <3>2
        <3>7. \A q \in AgProcs : Starting(q)' <=> q = p
            BY <1>3, <3>1, <3>6 DEF Starting, Begun
        <3>8. agPc'[p] = "feed" /\ agUp' = UpAt("feed") /\ Loops(LoopsAt("feed"))'
            BY <1>1, <1>3, <3>2, <3>6 DEF Loops, UpAt, LoopsAt
        <3>9. \A q \in AgProcs : /\ agPc'[q] # "build" /\ agPc'[q] # "mark"
                                 /\ agPc'[q] = "begin" => q \in AgHandlers
            BY <1>1, <1>3, <3>3, <3>5, <3>6
        <3> QED BY <1>4, <3>4, <3>7, <3>8, <3>9 DEF AgProgress, Loops
    <2> QED BY <2>1, <2>2
<1> QED BY <1>4, <1>5, <1>6 DEF AgInv, AgRest

\* start() goes on: from one place to the next, one part more.
AfterThat(place) ==
    CASE place = "feed"      -> "fetch"
      [] place = "fetch"     -> "monitor"
      [] place = "monitor"   -> "scheduler"
      [] place = "scheduler" -> "loop"

\* While nobody asked for a stop, a thread in start() finds the next part not up yet.
LEMMA AgGoesOn ==
    ASSUME AgInv, NEW p \in AgProcs, Starting(p), ~agStopped,
           AgFeed(p) \/ AgFetched(p) \/ AgPart(p)
    PROVE  /\ agPc[p] \in {"feed", "fetch", "monitor", "scheduler"}
           /\ Goes(p, AfterThat(agPc[p]))
           /\ agUp' = UpAt(AfterThat(agPc[p]))
           /\ \A c \in AgParts : agLoops'[c] = IF c \in LoopsAt(AfterThat(agPc[p])) THEN 1 ELSE 0
<1>0. AgTypeOK /\ AgProgress BY DEF AgInv
<1>1. agUp = UpAt(agPc[p]) /\ Loops(LoopsAt(agPc[p]))
    BY <1>0 DEF AgProgress
<1>2. agLoops \in [AgParts -> Nat]
    BY <1>0 DEF AgTypeOK
<1>3. CASE AgFeed(p)
    BY <1>1, <1>3 DEF AgFeed, UpAt, LoopsAt, AfterThat, Loops
<1>4. CASE AgFetched(p)
    <2>1. agPc[p] = "fetch" /\ Goes(p, "monitor") /\ Spawned("feed") /\ agUp' = agUp
        BY <1>4 DEF AgFetched
    <2>2. \A c \in AgParts : agLoops[c] = 0
        BY <1>1, <2>1 DEF Loops, LoopsAt
    <2>3. \A c \in AgParts : agLoops'[c] = IF c = "feed" THEN 1 ELSE 0
        BY <1>2, <2>1, <2>2 DEF Spawned
    <2> QED BY <1>1, <2>1, <2>3 DEF UpAt, LoopsAt, AfterThat, Loops
<1>5. CASE AgPart(p) /\ agPc[p] = "monitor"
    <2>1. Goes(p, "scheduler") /\ agUp' = agUp \union {"monitor"} /\ agUp = {"agent", "feed"}
        BY <1>1, <1>5 DEF AgPart, UpAt
    <2>2. Spawned("monitor")
        BY <1>5, <2>1 DEF AgPart
    <2>3. \A c \in AgParts : agLoops[c] = IF c = "feed" THEN 1 ELSE 0
        BY <1>1, <1>5 DEF Loops, LoopsAt
    <2>4. \A c \in AgParts : agLoops'[c] = IF c = "feed" \/ c = "monitor" THEN 1 ELSE 0
        BY <1>2, <2>2, <2>3 DEF Spawned
    <2> QED BY <1>5, <2>1, <2>4 DEF UpAt, LoopsAt, AfterThat, Loops
<1>6. CASE AgPart(p) /\ agPc[p] = "scheduler"
    <2>1. Goes(p, "loop") /\ agUp' = agUp \union {"scheduler"} /\ agUp = {"agent", "feed", "monitor"}
        BY <1>1, <1>6 DEF AgPart, UpAt
    <2>2. Spawned("scheduler")
        BY <1>6, <2>1 DEF AgPart
    <2>3. \A c \in AgParts : agLoops[c] = IF c = "feed" \/ c = "monitor" THEN 1 ELSE 0
        BY <1>1, <1>6 DEF Loops, LoopsAt
    <2>4. \A c \in AgParts : agLoops'[c] = IF c = "scheduler" \/ c = "feed" \/ c = "monitor"
                                          THEN 1 ELSE 0
        BY <1>2, <2>2, <2>3 DEF Spawned
    <2> QED BY <1>6, <2>1, <2>4 DEF UpAt, LoopsAt, AfterThat, Loops, AgParts
<1> QED BY <1>3, <1>4, <1>5, <1>6 DEF AgPart

\* So does a step of a process that starts its agent.
LEMMA AgStartStep ==
    ASSUME AgInv, NEW p \in AgProcs, AgFeed(p) \/ AgFetched(p) \/ AgPart(p)
    PROVE  AgRest'
<1>0. AgTypeOK BY DEF AgInv
<1>1. Starting(p) /\ UNCHANGED agWeb
    BY DEF AgFeed, AgFetched, AgPart, Starting, Begun
<1>2. UNCHANGED <<agReady, agGaveUp, agStopped>>
    BY <1>1 DEF agWeb
<1>3. \E place \in Begun : Goes(p, place)
    BY DEF AgFeed, AgFetched, AgPart, Begun
<1>4. AgRoles' /\ AgStarters'
    BY <1>1, <1>3, AgPlaceStep
<1>5. ASSUME ~agStopped PROVE AgProgress'
    <2> DEFINE next == AfterThat(agPc[p])
    <2>1. /\ agPc[p] \in {"feed", "fetch", "monitor", "scheduler"}
          /\ Goes(p, next) /\ agUp' = UpAt(next)
          /\ \A c \in AgParts : agLoops'[c] = IF c \in LoopsAt(next) THEN 1 ELSE 0
        BY <1>1, <1>5, AgGoesOn
    <2>2. next \in Begun
        BY <2>1 DEF AfterThat, Begun
    <2> HIDE DEF next
    <2>3. \A q \in AgProcs : agPc'[q] = IF q = p THEN next ELSE agPc[q]
        BY <1>0, <2>1, GoesTo
    <2>4. AgProgress BY <1>5 DEF AgInv
    <2>5. \A q \in AgProcs : Starting(q) => q = p
        BY <1>1, <2>4 DEF AgProgress
    <2>6. \A q \in AgProcs : Starting(q)' <=> q = p
        BY <2>2, <2>3, <2>5 DEF Starting
    <2>7. agUp = UpAt(agPc[p]) /\ agUp # {}
        BY <1>1, <2>1, <2>4 DEF AgProgress, UpAt
    <2>8. \A q \in AgProcs : /\ agPc[q] # "build" /\ agPc[q] # "mark"
                             /\ agPc[q] = "begin" => q \in AgHandlers
        BY <1>1, <2>4, <2>7 DEF AgProgress
    <2>9. \A q \in AgProcs : /\ agPc'[q] # "build" /\ agPc'[q] # "mark"
                             /\ agPc'[q] = "begin" => q \in AgHandlers
        BY <2>2, <2>3, <2>8 DEF Begun
    <2>10. ~(agReady /\ ~agGaveUp)
        BY <1>1, <2>4 DEF AgProgress
    <2>11. agPc'[p] = next
        BY <2>3
    <2> QED BY <1>2, <2>1, <2>6, <2>9, <2>10, <2>11 DEF AgProgress, Loops
<1> QED BY <1>2, <1>4, <1>5 DEF AgRest

\* The last thing start() does is the agent's own loop.
LEMMA AgLoopStep ==
    ASSUME AgInv, NEW p \in AgProcs, AgLoop(p)
    PROVE  AgRest'
<1>0. AgTypeOK BY DEF AgInv
<1>1. Starting(p) /\ agPc[p] = "loop" /\ UNCHANGED <<agWeb, agUp>> /\ Goes(p, Back(p))
      /\ Spawned("agent")
    BY DEF AgLoop, Starting, Begun
<1>2. UNCHANGED <<agReady, agGaveUp, agStopped>>
    BY <1>1 DEF agWeb
<1>4. AgRoles' /\ AgStarters'
    BY <1>1, AgPlaceStep
<1>5. ASSUME ~agStopped PROVE AgProgress'
    <2>3. \A q \in AgProcs : agPc'[q] = IF q = p THEN Back(p) ELSE agPc[q]
        BY <1>0, <1>1, GoesTo
    <2>4. AgProgress BY <1>5 DEF AgInv
    <2>5. \A q \in AgProcs : Starting(q) => q = p
        BY <1>1, <2>4 DEF AgProgress
    <2>6. \A q \in AgProcs : ~Starting(q)'
        BY <2>3, <2>5, BackPlaces DEF Starting, Begun
    <2>7. agUp = AgParts /\ Loops({"feed", "monitor", "scheduler"})
        BY <1>1, <2>4 DEF AgProgress, UpAt, LoopsAt
    <2>8. \A c \in AgParts : agLoops'[c] = 1
        BY <1>0, <1>1, <2>7 DEF Spawned, AgTypeOK, Loops, AgParts
    <2>9. \A q \in AgProcs : agPc[q] # "build" /\ (agPc[q] = "begin" => q \in AgHandlers)
        BY <1>1, <2>4, <2>7 DEF AgProgress, AgParts
    <2>10. \A q \in AgProcs : agPc'[q] # "build" /\ (agPc'[q] = "begin" => q \in AgHandlers)
        BY <2>3, <2>9, BackPlaces
    <2> QED BY <1>1, <2>6, <2>7, <2>8, <2>10 DEF AgProgress, Loops
<1> QED BY <1>2, <1>4, <1>5 DEF AgRest

\* _start_agent_once calls the process ready.
LEMMA AgMarkStep ==
    ASSUME AgInv, NEW p \in AgProcs, AgMark(p)
    PROVE  AgRest'
<1> USE AgAssumption
<1>0. AgTypeOK /\ AgRoles /\ AgStarters BY DEF AgInv
<1>1. /\ agPc[p] = "mark" /\ agReady' = TRUE /\ Goes(p, "dead")
      /\ UNCHANGED <<agUp, agLoops, agRole, agStarter, agTried, agGaveUp, agStopped>>
    BY DEF AgMark, agAgent
<1>2. p \in AgThreads /\ p = agStarter /\ p # AgNone /\ agRole = "web" /\ ~agReady
    BY <1>0, <1>1, HaltPlaces DEF AgRoles, AgStarters, AgAlive, AgProcs, AgTypeOK, Begun
<1>3. \A q \in AgProcs : agPc'[q] = IF q = p THEN "dead" ELSE agPc[q]
    BY <1>0, <1>1, GoesTo
<1>4. AgRoles'
    BY <1>0, <1>1, <1>2, <1>3, HaltPlaces DEF AgRoles, AgProcs
<1>5. AgStarters'
    BY <1>0, <1>1, <1>2, <1>3 DEF AgStarters, AgAlive, AgProcs, Limit
<1>6. AgProgress => AgProgress'
    <2>1. \A q \in AgProcs : (Starting(q)' <=> Starting(q)) /\ (Starting(q) => agPc'[q] = agPc[q])
        BY <1>1, <1>3 DEF Starting, Begun
    <2>2. \A q \in AgProcs : agPc'[q] \in {"build", "begin", "mark"} => agPc'[q] = agPc[q]
        BY <1>3
    <2>3. AgProgress => agUp = AgParts /\ \A q \in AgProcs : ~Starting(q)
        BY <1>1 DEF AgProgress
    <2> QED BY <1>1, <2>1, <2>2, <2>3 DEF AgProgress, Loops
<1> QED BY <1>1, <1>4, <1>5, <1>6 DEF AgInv, AgRest

\* A stop, and what ends with it.
LEMMA AgStopStep ==
    ASSUME AgInv, (\E p \in AgProcs : AgHalt(p)) \/ AgSignal \/ AgExit
    PROVE  AgRest'
<1> USE AgAssumption, HaltPlaces
<1>0. AgTypeOK /\ AgRoles /\ AgStarters BY DEF AgInv
<1>1. PICK p \in AgProcs : AgHalt(p) \/ (p = AgMain /\ (AgSignal \/ AgExit))
    <2>1. AgMain \in AgProcs BY DEF AgProcs
    <2>2. CASE \E p \in AgProcs : AgHalt(p) BY <2>2
    <2>3. CASE AgSignal \/ AgExit BY <2>1, <2>3
    <2> QED BY <2>2, <2>3
<1>2. PICK place \in DOMAIN Halts \union {"exit", "dead", "idle"} :
         /\ Goes(p, place)
         /\ p \in AgHandlers => place \in DOMAIN Halts \union {"idle"}
         /\ place = "idle" => p \in AgHandlers
    <2>1. CASE AgHalt(p)
        <3>1. p \notin AgThreads
            BY <1>0, <2>1 DEF AgHalt, AgRoles, AgTypeOK, Begun
        <3>2. agStopped
            BY <1>0, <2>1 DEF AgHalt, AgRoles
        <3>3. Back(p) = IF p \in AgHandlers THEN "idle" ELSE "exit"
            BY <3>1, <3>2 DEF Back
        <3>4. \E place \in DOMAIN Halts \union {Back(p)} : Goes(p, place)
            BY <2>1 DEF AgHalt
        <3> QED BY <3>3, <3>4
    <2>2. CASE p = AgMain /\ AgSignal
        BY <2>2 DEF AgSignal
    <2>3. CASE p = AgMain /\ AgExit
        BY <2>3 DEF AgExit
    <2> QED BY <1>1, <2>1, <2>2, <2>3
<1>3. /\ UNCHANGED <<agRole, agReady, agStarter, agTried, agGaveUp>> /\ agStopped'
    BY <1>0, <1>1 DEF AgHalt, AgSignal, AgExit, agWeb, agAgent, AgRoles, AgProcs
<1>4. p \notin AgThreads /\ (p = AgMain => agRole = "worker") /\ (p \in AgHandlers => agReady)
    BY <1>0, <1>1 DEF AgHalt, AgSignal, AgExit, AgRoles, AgTypeOK, Begun, AgAlive
<1>5. \A q \in AgProcs : agPc'[q] = IF q = p THEN place ELSE agPc[q]
    BY <1>0, <1>2, GoesTo
<1>6. AgRoles'
    BY <1>0, <1>2, <1>3, <1>4, <1>5 DEF AgRoles, AgProcs
<1>7. agUp' \subseteq agUp
    BY <1>1 DEF AgHalt, AgSignal, AgExit, agWeb, agAgent
<1>8. AgStarters'
    <2>1. \A t \in AgThreads : agPc'[t] = agPc[t]
        BY <1>4, <1>5 DEF AgProcs
    <2>2. \A q \in AgProcs : agPc'[q] = "build" => agPc[q] = "build"
        BY <1>2, <1>5
    <2>3. agStarter \in AgThreads \union {AgNone}
        BY <1>0 DEF AgTypeOK
    <2> QED BY <1>0, <1>3, <1>7, <2>1, <2>2, <2>3 DEF AgStarters, AgAlive, Limit
<1> QED BY <1>3, <1>6, <1>8 DEF AgRest

\* A loop ends: only after a stop.
LEMMA AgEndStep ==
    ASSUME AgInv, NEW c \in AgParts, AgLoopEnds(c)
    PROVE  AgRest'
<1>1. /\ UNCHANGED <<agPc, agUp, agRole, agReady, agStarter, agTried, agGaveUp, agStopped>>
      /\ c \notin agUp /\ agLoops[c] > 0
    BY DEF AgLoopEnds, agWeb
<1>2. AgRoles' /\ AgStarters'
    BY <1>1 DEF AgInv, AgRoles, AgStarters, AgAlive
<1>3. agStopped
    <2> SUFFICES ASSUME AgProgress PROVE FALSE
        BY DEF AgInv
    <2>1. CASE \E p \in AgProcs : Starting(p)
        <3>1. PICK p \in AgProcs : Starting(p)
            BY <2>1
        <3>2. agUp = UpAt(agPc[p]) /\ Loops(LoopsAt(agPc[p]))
            BY <3>1 DEF AgProgress
        <3>3. LoopsAt(agPc[p]) \subseteq UpAt(agPc[p])
            BY <3>1 DEF LoopsAt, UpAt, Starting, Begun, AgParts
        <3> QED BY <1>1, <3>2, <3>3 DEF Loops
    <2>2. CASE ~(\E p \in AgProcs : Starting(p))
        BY <1>1, <2>2 DEF AgProgress, Loops
    <2> QED BY <2>1, <2>2
<1> QED BY <1>1, <1>2, <1>3 DEF AgRest

\* Every step keeps the invariant.
LEMMA AgInvStep == AgInv /\ [AgNext]_agVars => AgInv'
<1> SUFFICES ASSUME AgInv, [AgNext]_agVars PROVE AgRest'
    BY AgTypeStep DEF AgInv, AgRest
<1> QED
    BY AgRequestStep, AgUnseenStep, AgBuildStep, AgBeginStep, AgStartStep, AgLoopStep, AgMarkStep,
       AgStopStep, AgEndStep DEF AgNext

\* One thread at most starts the agent of the web process, no part of an agent
\* nobody stopped runs twice, and a process that calls itself ready has them all.
THEOREM StartUp == AgSpec => []StartUpIsSound
<1>1. AgInv => StartUpIsSound
    <2> SUFFICES ASSUME AgInv PROVE StartUpIsSound
        OBVIOUS
    <2>1. Cardinality({t \in AgThreads : AgAlive(t)}) <= 1
        <3>1. {t \in AgThreads : AgAlive(t)} \subseteq {agStarter}
            BY DEF AgInv, AgStarters
        <3>2. IsFiniteSet({agStarter}) /\ Cardinality({agStarter}) = 1
            BY FS_Singleton
        <3> QED BY <3>1, <3>2, FS_Subset
    <2>2. ~agStopped => \A c \in AgParts : agLoops[c] <= 1
        BY DEF AgInv, AgProgress, Loops
    <2>3. agReady /\ ~agGaveUp /\ ~agStopped => \A c \in AgParts : c \in agUp /\ agLoops[c] = 1
        BY DEF AgInv, AgProgress, Loops, AgParts
    <2> QED BY <2>1, <2>2, <2>3 DEF StartUpIsSound
<1> QED BY <1>1, AgInitInv, AgInvStep, PTL DEF AgSpec

-----------------------------------------------------------------------------
(* The learning brain: the sequences it keeps.                             *)

\* The end of a sequence.
LEMMA LastOfIs ==
    ASSUME NEW S, NEW s \in Seq(S), NEW n \in Nat
    PROVE  /\ LastOf(s, n) \in Seq(S) /\ Len(LastOf(s, n)) <= n
           /\ \E k \in 0 .. Len(s) :
                 /\ Len(LastOf(s, n)) = Len(s) - k
                 /\ \A i \in 1 .. Len(s) - k : LastOf(s, n)[i] = s[i + k]
<1> DEFINE m == IF Len(s) > n THEN Len(s) - n + 1 ELSE 1
           k == m - 1
<1>1. Len(s) \in Nat /\ m \in Int /\ m >= 1 /\ m <= Len(s) + 1 /\ Len(s) - k <= n
      /\ \A i \in m .. Len(s) : s[i] \in S
    OBVIOUS
<1>2. LastOf(s, n) = SubSeq(s, m, Len(s))
    BY DEF LastOf
<1> HIDE DEF m
<1>3. /\ SubSeq(s, m, Len(s)) \in Seq(S)
      /\ Len(SubSeq(s, m, Len(s))) = IF m <= Len(s) THEN Len(s) - m + 1 ELSE 0
      /\ \A i \in 1 .. Len(s) - m + 1 : SubSeq(s, m, Len(s))[i] = s[m + i - 1]
    BY <1>1, SubSeqProperties
<1>4. k \in 0 .. Len(s) /\ Len(LastOf(s, n)) = Len(s) - k
    BY <1>1, <1>2, <1>3
<1>5. \A i \in 1 .. Len(s) - k : LastOf(s, n)[i] = s[i + k]
    <2> SUFFICES ASSUME NEW i \in 1 .. Len(s) - k PROVE LastOf(s, n)[i] = s[i + k]
        OBVIOUS
    <2>1. i \in 1 .. Len(s) - m + 1 /\ m + i - 1 = i + k
        BY <1>1
    <2> QED BY <1>2, <1>3, <2>1
<1> QED BY <1>1, <1>2, <1>3, <1>4, <1>5

-----------------------------------------------------------------------------
(* The learning brain.                                                     *)

Predictions == [id : Nat, opp : BrOpps, skip : BOOLEAN, known : BOOLEAN]
Outcomes == [opp : BrOpps, won : BOOLEAN]
BrPlaces == {"idle", "decide", "execute", "learn", "write", "tune", "train",
             "dumpClf", "dumpReg", "trim", "cut"}
LockPlaces == {"write", "tune", "train", "dumpClf", "dumpReg", "trim", "cut"}

\* The types, in the parts that steps change together.
TableOK ==
    /\ brRow \in [BrOpps -> {"none", "seen", "won", "lost"}]
    /\ brExecuted \subseteq BrOpps /\ brDeferred \subseteq BrOpps
ListsOK ==
    /\ brPreds \in Seq(Predictions) /\ brHistory \in Seq(Outcomes)
    /\ brCut \in [BrThreads -> Seq(Predictions)]
TallyOK == brTally \in [approved : Nat, rejected : Nat, right : Nat, wrong : Nat]
Rails == {p \in Int : p = BrMinProfit \/ (50 <= p /\ p <= 50000)}
ParamsOK == brParams \in [profit : Rails, bar : 10 .. 95]
CountsOK == brTrades \in 0 .. BrEvery - 1 /\ Len(brHistory) <= 3 * BrWindow
FilesOK == brModel \in [clf : Int, reg : Int] /\ brFiles \in [clf : Int, reg : Int]
ThreadsOK ==
    /\ brPc \in [BrThreads -> BrPlaces]
    /\ brOpp \in [BrThreads -> BrOpps \cup {0}] /\ brWon \in [BrThreads -> BOOLEAN]
BrTyped == TableOK /\ ListsOK /\ TallyOK /\ ParamsOK /\ CountsOK /\ FilesOK /\ ThreadsOK

\* One thread at most is inside the lock; who works does so on a stored row.
OneLearns == \A t, u \in BrThreads : brPc[t] \in LockPlaces /\ brPc[u] \in LockPlaces => t = u
Stored(o) == o \in BrOpps /\ brRow[o] # "none"
RowsStored ==
    /\ \A t \in BrThreads : brPc[t] # "idle" => Stored(brOpp[t])
    /\ \A o \in brDeferred : Stored(o)
    /\ \A i \in 1 .. Len(brHistory) : Stored(brHistory[i].opp)

\* Approvals whose outcome is not known, in a list; a cut has no more of them
\* than the tally leaves room for.
Awaited(s) == {i \in 1 .. Len(s) : ~s[i].skip /\ ~s[i].known}
Fits(s) == brTally.right + brTally.wrong + Cardinality(Awaited(s)) <= brTally.approved
CutsFit == Fits(brPreds) /\ \A t \in BrThreads : brPc[t] = "cut" => Fits(brCut[t])

\* The table agrees with the last outcome of an opportunity, but for the one
\* that is written in the table and goes into the history next.
Result(won) == IF won THEN "won" ELSE "lost"
IsLast(h, i) == \A j \in 1 .. Len(h) : j > i => h[j].opp # h[i].opp
Between(o) == \E t \in BrThreads : brPc[t] = "tune" /\ brOpp[t] = o
MemoryHolds ==
    /\ \A i \in 1 .. Len(brHistory) :
          IsLast(brHistory, i) /\ ~Between(brHistory[i].opp)
             => brRow[brHistory[i].opp] = Result(brHistory[i].won)
    /\ \A t \in BrThreads : brPc[t] = "tune" => brRow[brOpp[t]] = Result(brWon[t])

\* The rows with an outcome are finitely many.
Lessoned == {o \in BrOpps : brRow[o] \in {"won", "lost"}}
Trained(n) == n > 0 => n >= BrSamples /\ n <= Cardinality(Lessoned)
ModelsTrained ==
    /\ IsFiniteSet(Lessoned)
    /\ Trained(brModel.clf) /\ Trained(brModel.reg)
    /\ Trained(brFiles.clf) /\ Trained(brFiles.reg)

BrInv == BrTyped /\ OneLearns /\ RowsStored /\ CutsFit /\ MemoryHolds /\ ModelsTrained

-----------------------------------------------------------------------------
\* How the approvals that wait are counted.
LEMMA AwaitedFinite ==
    ASSUME NEW S, NEW s \in Seq(S)
    PROVE  IsFiniteSet(Awaited(s)) /\ Cardinality(Awaited(s)) \in Nat
<1>1. Len(s) \in Nat /\ Awaited(s) \in SUBSET (1 .. Len(s))
    BY DEF Awaited
<1>2. IsFiniteSet(1 .. Len(s))
    BY <1>1, FS_Interval
<1>3. IsFiniteSet(Awaited(s))
    BY <1>1, <1>2, FS_Subset
<1> QED BY <1>3, FS_CardinalityType

\* A prediction more is one approval more at most, and none if it was to skip.
LEMMA AwaitedAppend ==
    ASSUME NEW S, NEW s \in Seq(S), NEW p \in S
    PROVE  /\ Cardinality(Awaited(Append(s, p))) <= Cardinality(Awaited(s)) + 1
           /\ p.skip => Cardinality(Awaited(Append(s, p))) <= Cardinality(Awaited(s))
<1> DEFINE l == Append(s, p)
<1>1. /\ l \in Seq(S) /\ Len(l) = Len(s) + 1 /\ Len(s) \in Nat
      /\ \A i \in 1 .. Len(s) + 1 : l[i] = IF i = Len(s) + 1 THEN p ELSE s[i]
    OBVIOUS
<1> HIDE DEF l
<1>2. Awaited(l) \subseteq Awaited(s) \union {Len(s) + 1}
    BY <1>1 DEF Awaited
<1>3. p.skip => Awaited(l) \subseteq Awaited(s)
    <2> SUFFICES ASSUME p.skip, NEW i \in Awaited(l) PROVE i \in Awaited(s)
        OBVIOUS
    <2>1. i \in 1 .. Len(s) + 1 /\ ~l[i].skip /\ ~l[i].known
        BY <1>1 DEF Awaited
    <2>2. i # Len(s) + 1
        BY <1>1, <2>1
    <2>3. i \in 1 .. Len(s) /\ l[i] = s[i]
        BY <1>1, <2>1, <2>2
    <2> QED BY <2>1, <2>3 DEF Awaited
<1>4. IsFiniteSet(Awaited(s)) /\ Cardinality(Awaited(s)) \in Nat
    BY AwaitedFinite
<1>5. IsFiniteSet(Awaited(l)) /\ Cardinality(Awaited(l)) \in Nat
    BY <1>1, AwaitedFinite
<1>6. /\ IsFiniteSet(Awaited(s) \union {Len(s) + 1})
      /\ Cardinality(Awaited(s) \union {Len(s) + 1}) <= Cardinality(Awaited(s)) + 1
    BY <1>4, AtMostOneMore
<1>7. Cardinality(Awaited(l)) <= Cardinality(Awaited(s) \union {Len(s) + 1})
    BY <1>2, <1>6, FS_Subset
<1>8. Cardinality(Awaited(s) \union {Len(s) + 1}) \in Nat
    BY <1>6, FS_CardinalityType
<1>9. p.skip => Cardinality(Awaited(l)) <= Cardinality(Awaited(s))
    BY <1>3, <1>4, FS_Subset
<1> QED BY <1>4, <1>5, <1>6, <1>7, <1>8, <1>9 DEF l

\* The end of a list has no more of them than the list.
LEMMA AwaitedLast ==
    ASSUME NEW S, NEW s \in Seq(S), NEW n \in Nat
    PROVE  Cardinality(Awaited(LastOf(s, n))) <= Cardinality(Awaited(s))
<1> DEFINE l == LastOf(s, n)
<1>1. l \in Seq(S)
    BY LastOfIs
<1>2. PICK k \in 0 .. Len(s) : Len(l) = Len(s) - k /\ \A i \in 1 .. Len(s) - k : l[i] = s[i + k]
    BY LastOfIs
<1> HIDE DEF l
<1>3. Len(s) \in Nat /\ Len(l) \in Nat
    BY <1>1
<1> DEFINE f == [i \in Awaited(l) |-> i + k]
<1>4. \A i \in Awaited(l) : f[i] = i + k /\ i \in Int /\ k \in Int /\ i + k \in Awaited(s)
    BY <1>2, <1>3 DEF Awaited
<1>5. f \in Injection(Awaited(l), Awaited(s))
    <2>1. f \in [Awaited(l) -> Awaited(s)]
        BY <1>4
    <2>2. \A i, j \in Awaited(l) : f[i] = f[j] => i = j
        BY <1>4
    <2> HIDE DEF f
    <2> QED BY <2>1, <2>2 DEF Injection, IsInjective
<1>6. IsFiniteSet(Awaited(s))
    BY AwaitedFinite
<1> HIDE DEF f
<1>7. Cardinality(Awaited(l)) <= Cardinality(Awaited(s))
    BY <1>5, <1>6, FS_Injection
<1> QED BY <1>7 DEF l

-----------------------------------------------------------------------------
\* The brain starts empty.
LEMMA BrInitInv == BrInit => BrInv
<1> SUFFICES ASSUME BrInit PROVE BrInv
    OBVIOUS
<1> USE BrAssumption
<1>1. BrTyped
    <2>1. ParamsOK
        BY DEF BrInit, FirstParams, ParamsOK, Rails
    <2>2. CountsOK
        BY DEF BrInit, CountsOK
    <2>3. FilesOK
        BY DEF BrInit, NoModel, FilesOK
    <2>4. TallyOK
        BY DEF BrInit, NoTally, TallyOK
    <2>5. brWon \in [BrThreads -> BOOLEAN]
        BY Zenon DEF BrInit
    <2>6. ListsOK
        <3>1. << >> \in Seq(Predictions) /\ << >> \in Seq(Outcomes) OBVIOUS
        <3> QED BY <3>1 DEF BrInit, ListsOK
    <2>7. brPc \in [BrThreads -> BrPlaces] /\ brOpp \in [BrThreads -> BrOpps \cup {0}]
        BY DEF BrInit, BrPlaces
    <2>8. TableOK
        BY DEF BrInit, TableOK
    <2> QED BY <2>1, <2>2, <2>3, <2>4, <2>5, <2>6, <2>7, <2>8 DEF BrTyped, ThreadsOK
<1>2. \A t \in BrThreads : brPc[t] = "idle"
    BY DEF BrInit
<1>3. OneLearns
    BY <1>2 DEF OneLearns, LockPlaces
<1>4. RowsStored
    BY <1>2 DEF RowsStored, BrInit
<1>5. CutsFit
    <2>1. Awaited(brPreds) = {}
        BY DEF BrInit, Awaited
    <2>2. Fits(brPreds)
        <3>1. brTally.right = 0 /\ brTally.wrong = 0 /\ brTally.approved = 0
            BY DEF BrInit, NoTally
        <3>2. Cardinality(Awaited(brPreds)) = 0
            BY <2>1, FS_EmptySet
        <3> QED BY <3>1, <3>2 DEF Fits
    <2> QED BY <2>2, <1>2 DEF CutsFit
<1>6. MemoryHolds
    BY <1>2 DEF MemoryHolds, BrInit
<1>7. ModelsTrained
    <2>1. Lessoned = {}
        BY DEF Lessoned, BrInit
    <2> QED BY <2>1, FS_EmptySet DEF ModelsTrained, Trained, BrInit, NoModel
<1> QED BY <1>1, <1>3, <1>4, <1>5, <1>6, <1>7 DEF BrInv

-----------------------------------------------------------------------------
\* A parameter that is tuned is within its rails.
LEMMA TunedInRails ==
    ASSUME BrTyped, NEW h
    PROVE  Tuned(h) \in [profit : Rails, bar : 10 .. 95]
<1> DEFINE recent == LastOf(h, BrWindow)
           n == Len(recent)
           wins == Cardinality({i \in 1 .. n : recent[i].won})
           raise == 4 * wins > 3 * n /\ wins >= BrSure
           lower == 5 * wins < 2 * n /\ n >= BrMany
           p == brParams.profit
           b == brParams.bar
           careful == n - wins > 2 * wins /\ b < 90
           easy == 5 * wins > 4 * n /\ b > 20
           profit == IF raise THEN Nudge(p, 1000, 50, 50000)
                     ELSE IF lower THEN Nudge(p, -500, 50, 50000) ELSE p
           bar == IF careful THEN Nudge(b, 5, 10, 95)
                  ELSE IF easy THEN Nudge(b, -3, 10, 95) ELSE b
<1>1. Tuned(h) = IF n < BrEnough THEN brParams ELSE [profit |-> profit, bar |-> bar]
    BY DEF Tuned
<1>2. brParams \in [profit : Rails, bar : 10 .. 95]
    BY DEF BrTyped, ParamsOK
<1>3. p \in Rails /\ b \in 10 .. 95
    BY <1>2
<1> HIDE DEF n, raise, lower, careful, easy, p, b
<1>4. p \in Int /\ b \in Int /\ 10 <= b /\ b <= 95
    BY <1>3 DEF Rails
<1>5. /\ Nudge(p, 1000, 50, 50000) \in Rails
      /\ Nudge(p, -500, 50, 50000) \in Rails
    BY <1>4 DEF Rails, Nudge
<1>6. /\ Nudge(b, 5, 10, 95) \in 10 .. 95
      /\ Nudge(b, -3, 10, 95) \in 10 .. 95
    BY <1>4 DEF Nudge
<1>7. profit \in Rails
    BY <1>3, <1>5
<1>8. bar \in 10 .. 95
    BY <1>3, <1>6
<1> HIDE DEF profit, bar
<1> QED BY <1>1, <1>2, <1>7, <1>8

-----------------------------------------------------------------------------
\* Where a thread goes, and that the others stay.
LEMMA BrMoves ==
    ASSUME BrTyped, NEW t \in BrThreads, NEW to \in BrPlaces, BrGo(t, to)
    PROVE  /\ brPc' \in [BrThreads -> BrPlaces]
           /\ \A u \in BrThreads : brPc'[u] = IF u = t THEN to ELSE brPc[u]
  BY DEF BrTyped, ThreadsOK, BrGo

\* A thread that ends lets go of its opportunity.
LEMMA BrEnds ==
    ASSUME BrTyped, NEW t \in BrThreads, BrEnd(t)
    PROVE  /\ brPc' \in [BrThreads -> BrPlaces]
           /\ \A u \in BrThreads : brPc'[u] = IF u = t THEN "idle" ELSE brPc[u]
           /\ brOpp' \in [BrThreads -> BrOpps \cup {0}]
           /\ \A u \in BrThreads : u # t => brOpp'[u] = brOpp[u]
           /\ brWon' \in [BrThreads -> BOOLEAN]
           /\ \A u \in BrThreads : u # t => brWon'[u] = brWon[u]
<1>1. BrGo(t, "idle") /\ "idle" \in BrPlaces
    BY DEF BrEnd, BrPlaces
<1>2. brOpp' = [brOpp EXCEPT ![t] = 0] /\ brWon' = [brWon EXCEPT ![t] = FALSE]
    BY DEF BrEnd
<1>3. brWon' \in [BrThreads -> BOOLEAN] /\ \A u \in BrThreads : u # t => brWon'[u] = brWon[u]
    BY <1>2, Zenon DEF BrTyped, ThreadsOK
<1>4. brOpp' \in [BrThreads -> BrOpps \cup {0}] /\ \A u \in BrThreads : u # t => brOpp'[u] = brOpp[u]
    BY <1>2 DEF BrTyped, ThreadsOK
<1> QED BY <1>1, <1>3, <1>4, BrMoves

\* A row that is stored stays.
LEMMA RowsStay ==
    ASSUME BrTyped, [BrNext]_brVars
    PROVE  \A o : Stored(o) => Stored(o)'
<1>1. \/ UNCHANGED brRow
      \/ \E o \in BrOpps : brRow' = [brRow EXCEPT ![o] = IF @ = "none" THEN "seen" ELSE @]
      \/ \E t \in BrThreads : brRow' = [brRow EXCEPT ![brOpp[t]] = IF @ = "none" THEN @
                                            ELSE IF brWon[t] THEN "won" ELSE "lost"]
    BY DEF BrNext, brVars, brMind, BrFind, BrReject, BrApprove, BrDispatch, BrExecute, BrMatch, Resolve,
           BrWrite, BrTune, BrTrain, BrDump, BrTrim, BrCut, BrRestart
<1> QED BY <1>1 DEF Stored, BrTyped, TableOK

\* Every step keeps the types: the table and the marks,
LEMMA TableStep ==
    ASSUME BrTyped, RowsStored, [BrNext]_brVars
    PROVE  TableOK'
<1>0. TableOK /\ ThreadsOK
    BY DEF BrTyped
<1>1. ASSUME NEW t \in BrThreads, BrExecute(t) \/ BrWrite(t)
      PROVE  TableOK'
    <2>1. brOpp[t] \in BrOpps /\ brRow[brOpp[t]] \in {"none", "seen", "won", "lost"}
        BY <1>0, <1>1 DEF BrExecute, BrWrite, RowsStored, Stored, TableOK
    <2> QED BY <1>0, <1>1, <2>1 DEF BrExecute, BrWrite, TableOK
<1>2. CASE BrApprove
    <2>1. brOpp["agent"] \in BrOpps
        BY <1>2 DEF BrApprove, RowsStored, Stored, BrThreads
    <2> QED BY <1>0, <1>2, <2>1 DEF BrApprove, TableOK
<1>3. ASSUME NEW o \in BrOpps, BrFind(o) \/ BrDispatch(o)
      PROVE  TableOK'
    BY <1>0, <1>3 DEF BrFind, BrDispatch, TableOK
<1>4. ASSUME NEW t \in BrThreads, \/ BrMatch(t) \/ BrTune(t) \/ BrTrain(t)
             \/ BrDump(t, "dumpClf", "clf", "dumpReg") \/ BrDump(t, "dumpReg", "reg", "trim")
             \/ BrTrim(t) \/ BrCut(t)
      PROVE  TableOK'
    BY <1>0, <1>4 DEF BrMatch, Resolve, BrTune, BrTrain, BrDump, BrTrim, BrCut, TableOK
<1>5. CASE BrReject \/ BrRestart \/ UNCHANGED brVars
    BY <1>0, <1>5 DEF BrReject, BrRestart, brVars, TableOK
<1> QED BY <1>1, <1>2, <1>3, <1>4, <1>5 DEF BrNext

\* the lists,
LEMMA ListsStep ==
    ASSUME BrTyped, RowsStored, [BrNext]_brVars
    PROVE  ListsOK' /\ Len(brHistory') <= 3 * BrWindow
<1>0. ListsOK /\ ThreadsOK /\ TallyOK /\ Len(brHistory) <= 3 * BrWindow
    BY DEF BrTyped, CountsOK
<1>1. ASSUME NEW skip \in BOOLEAN, brOpp["agent"] \in BrOpps
      PROVE  Prediction(brOpp["agent"], skip) \in Predictions
    <2>1. NewId \in Nat
        BY <1>0 DEF NewId, TallyOK
    <2> QED BY <1>1, <2>1 DEF Prediction, Predictions
<1>2. CASE BrReject \/ BrApprove
    <2>1. brOpp["agent"] \in BrOpps
        BY <1>2 DEF BrReject, BrApprove, RowsStored, Stored, BrThreads
    <2>2. PICK skip \in BOOLEAN :
             brPreds' = brPreds \/ brPreds' = Append(brPreds, Prediction(brOpp["agent"], skip))
        BY <1>2 DEF BrReject, BrApprove
    <2>3. Prediction(brOpp["agent"], skip) \in Predictions
        BY <1>1, <2>1
    <2>5. brPreds' \in Seq(Predictions)
        <3> DEFINE p == Prediction(brOpp["agent"], skip)
        <3>1. p \in Predictions /\ (brPreds' = brPreds \/ brPreds' = Append(brPreds, p))
            BY <2>2, <2>3
        <3> HIDE DEF p
        <3> QED BY <1>0, <3>1 DEF ListsOK
    <2>4. UNCHANGED <<brHistory, brCut>>
        BY <1>2 DEF BrReject, BrApprove
    <2> QED BY <1>0, <2>4, <2>5 DEF ListsOK
<1>3. ASSUME NEW t \in BrThreads, BrMatch(t) PROVE ListsOK' /\ Len(brHistory') <= 3 * BrWindow
    <2>1. PICK hits : brPreds' = [i \in DOMAIN brPreds |->
                     IF i \in hits THEN [brPreds[i] EXCEPT !.known = TRUE] ELSE brPreds[i]]
        BY <1>3 DEF BrMatch, Resolve
    <2>2. brPreds' \in Seq(Predictions)
        <3> DEFINE known(i) == IF i \in hits THEN [brPreds[i] EXCEPT !.known = TRUE] ELSE brPreds[i]
        <3>1. DOMAIN brPreds = 1 .. Len(brPreds) /\ Len(brPreds) \in Nat
            BY <1>0 DEF ListsOK
        <3>2. \A i \in 1 .. Len(brPreds) : brPreds[i] \in Predictions
            BY <1>0 DEF ListsOK
        <3>3. \A i \in 1 .. Len(brPreds) : known(i) \in Predictions
            BY <3>2 DEF Predictions
        <3>4. brPreds' = [i \in 1 .. Len(brPreds) |-> known(i)]
            BY <2>1, <3>1
        <3> HIDE DEF known
        <3> QED BY <3>1, <3>3, <3>4
    <2>3. UNCHANGED <<brHistory, brCut>>
        BY <1>3 DEF BrMatch, Resolve
    <2> QED BY <1>0, <2>2, <2>3 DEF ListsOK
<1>4. ASSUME NEW t \in BrThreads, BrTune(t) PROVE ListsOK' /\ Len(brHistory') <= 3 * BrWindow
    <2>1. brOpp[t] \in BrOpps /\ brWon[t] \in BOOLEAN
        BY <1>0, <1>4 DEF BrTune, RowsStored, Stored, ThreadsOK
    <2> DEFINE h == Append(brHistory, [opp |-> brOpp[t], won |-> brWon[t]])
    <2>2. h \in Seq(Outcomes)
        BY <1>0, <2>1 DEF ListsOK, Outcomes
    <2>3. brHistory' = LastOf(h, 3 * BrWindow) /\ UNCHANGED <<brPreds, brCut>>
        BY <1>4 DEF BrTune
    <2>4. 3 * BrWindow \in Nat
        BY BrAssumption
    <2> HIDE DEF h
    <2>5. brHistory' \in Seq(Outcomes) /\ Len(brHistory') <= 3 * BrWindow
        BY <2>2, <2>3, <2>4, LastOfIs
    <2> QED BY <1>0, <2>3, <2>5 DEF ListsOK
<1>5. ASSUME NEW t \in BrThreads, BrTrim(t) \/ BrCut(t)
      PROVE  ListsOK' /\ Len(brHistory') <= 3 * BrWindow
    <2>1. LastOf(brPreds, BrKept) \in Seq(Predictions)
        BY <1>0, BrAssumption, LastOfIs DEF ListsOK
    <2>2. << >> \in Seq(Predictions) OBVIOUS
    <2>3. UNCHANGED brHistory
        BY <1>5 DEF BrTrim, BrCut, brMind
    <2>4. brPreds' = brPreds \/ brPreds' = brCut[t]
        BY <1>5 DEF BrTrim, BrCut, brMind
    <2>5. \/ brCut' = brCut \/ brCut' = [brCut EXCEPT ![t] = LastOf(brPreds, BrKept)]
          \/ brCut' = [brCut EXCEPT ![t] = << >>]
        BY <1>5 DEF BrTrim, BrCut
    <2> QED BY <1>0, <2>1, <2>2, <2>3, <2>4, <2>5 DEF ListsOK
<1>6. CASE BrRestart
    <2>1. << >> \in Seq(Predictions) /\ << >> \in Seq(Outcomes) /\ Len(<< >>) = 0 /\ 0 <= 3 * BrWindow
        BY BrAssumption
    <2> QED BY <1>6, <2>1 DEF BrRestart, ListsOK
<1>7. ASSUME NEW o \in BrOpps, BrFind(o) \/ BrDispatch(o)
      PROVE  ListsOK' /\ Len(brHistory') <= 3 * BrWindow
    BY <1>0, <1>7 DEF BrFind, BrDispatch, brMind, ListsOK
<1>8. ASSUME NEW t \in BrThreads, \/ BrExecute(t) \/ BrWrite(t) \/ BrTrain(t)
             \/ BrDump(t, "dumpClf", "clf", "dumpReg") \/ BrDump(t, "dumpReg", "reg", "trim")
      PROVE  ListsOK' /\ Len(brHistory') <= 3 * BrWindow
    BY <1>0, <1>8 DEF BrExecute, BrWrite, BrTrain, BrDump, brMind, ListsOK
<1>9. CASE UNCHANGED brVars
    BY <1>0, <1>9 DEF brVars, brMind, ListsOK
<1> QED BY <1>2, <1>3, <1>4, <1>5, <1>6, <1>7, <1>8, <1>9 DEF BrNext

\* the tally, the parameters, the count of trades,
LEMMA FiguresStep ==
    ASSUME BrTyped, [BrNext]_brVars
    PROVE  TallyOK' /\ ParamsOK' /\ brTrades' \in 0 .. BrEvery - 1
<1>0. TallyOK /\ ParamsOK /\ CountsOK
    BY DEF BrTyped
<1>1. TallyOK'
    <2>1. \/ UNCHANGED brTally \/ brTally' = NoTally
          \/ brTally' = [brTally EXCEPT !.rejected = @ + 1]
          \/ brTally' = [brTally EXCEPT !.approved = @ + 1]
          \/ brTally' = [brTally EXCEPT !.right = @ + 1]
          \/ brTally' = [brTally EXCEPT !.wrong = @ + 1]
        BY DEF BrNext, brVars, brMind, BrFind, BrReject, BrApprove, BrDispatch, BrExecute, BrMatch, Resolve,
               BrWrite, BrTune, BrTrain, BrDump, BrTrim, BrCut, BrRestart
    <2> QED BY <1>0, <2>1 DEF TallyOK, NoTally
<1>2. ParamsOK'
    <2>1. UNCHANGED brParams \/ brParams' = FirstParams \/ \E h : brParams' = Tuned(h)
        BY DEF BrNext, brVars, brMind, BrFind, BrReject, BrApprove, BrDispatch, BrExecute, BrMatch, Resolve,
               BrWrite, BrTune, BrTrain, BrDump, BrTrim, BrCut, BrRestart
    <2>2. FirstParams \in [profit : Rails, bar : 10 .. 95]
        BY BrAssumption DEF FirstParams, Rails
    <2> QED BY <1>0, <2>1, <2>2, TunedInRails DEF ParamsOK
<1>3. brTrades' \in 0 .. BrEvery - 1
    <2>1. UNCHANGED brTrades \/ brTrades' = 0 \/ brTrades' = (brTrades + 1) % BrEvery
        BY DEF BrNext, brVars, brMind, BrFind, BrReject, BrApprove, BrDispatch, BrExecute, BrMatch, Resolve,
               BrWrite, BrTune, BrTrain, BrDump, BrTrim, BrCut, BrRestart
    <2>2. brTrades \in Nat /\ brTrades \in 0 .. BrEvery - 1 /\ BrEvery \in Nat /\ BrEvery > 0
        BY <1>0, BrAssumption DEF CountsOK
    <2> QED BY <2>1, <2>2
<1> QED BY <1>1, <1>2, <1>3

\* the places of the threads: one at most is inside the lock, and whoever works
\* does so on a row that is stored,
LEMMA ThreadsStep ==
    ASSUME BrTyped, OneLearns, RowsStored, [BrNext]_brVars, ListsOK'
    PROVE  ThreadsOK' /\ OneLearns' /\ RowsStored'
<1>0. ThreadsOK /\ TableOK /\ ListsOK /\ \A o : Stored(o) => Stored(o)'
    BY RowsStay DEF BrTyped
<1> DEFINE Done == ThreadsOK' /\ OneLearns' /\ RowsStored'
           Same(t) == brOpp'[t] = brOpp[t]
<1>1. ASSUME UNCHANGED <<brHistory, brDeferred>>, NEW t \in BrThreads, NEW to \in BrPlaces,
             brPc[t] # "idle", BrGo(t, to), UNCHANGED brOpp, brWon' \in [BrThreads -> BOOLEAN],
             to \in LockPlaces => brPc[t] \in LockPlaces \/ ~BrLocked
      PROVE  Done
    <2>1. /\ brPc' \in [BrThreads -> BrPlaces]
          /\ \A u \in BrThreads : brPc'[u] = IF u = t THEN to ELSE brPc[u]
        BY <1>1, BrMoves
    <2>2. OneLearns'
        BY <1>1, <2>1 DEF OneLearns, BrLocked, LockPlaces
    <2>3. RowsStored'
        BY <1>0, <1>1, <2>1 DEF RowsStored
    <2>4. ThreadsOK'
        BY <1>0, <1>1, <2>1 DEF ThreadsOK
    <2> QED BY <2>2, <2>3, <2>4
<1>2. ASSUME NEW t \in BrThreads, BrEnd(t), UNCHANGED brHistory, \A o \in brDeferred' : Stored(o)
      PROVE  Done
    <2>1. /\ brPc' \in [BrThreads -> BrPlaces]
          /\ \A u \in BrThreads : brPc'[u] = IF u = t THEN "idle" ELSE brPc[u]
          /\ brOpp' \in [BrThreads -> BrOpps \cup {0}]
          /\ \A u \in BrThreads : u # t => brOpp'[u] = brOpp[u]
          /\ brWon' \in [BrThreads -> BOOLEAN]
        BY <1>2, BrEnds
    <2>2. OneLearns'
        BY <2>1 DEF OneLearns, LockPlaces
    <2>3. RowsStored'
        BY <1>0, <1>2, <2>1 DEF RowsStored
    <2> QED BY <2>1, <2>2, <2>3 DEF ThreadsOK
<1>3. ASSUME NEW o \in BrOpps, BrFind(o) PROVE Done
    <2>1. brPc' \in [BrThreads -> BrPlaces]
          /\ \A u \in BrThreads : brPc'[u] = IF u = "agent" THEN "decide" ELSE brPc[u]
        BY <1>3, BrMoves DEF BrFind, BrThreads, BrPlaces
    <2>2. brOpp' = [brOpp EXCEPT !["agent"] = o] /\ UNCHANGED <<brWon, brHistory, brDeferred>>
        BY <1>3 DEF BrFind, brMind
    <2>3. Stored(o)'
        BY <1>0, <1>3 DEF BrFind, Stored, TableOK
    <2>4. brOpp' \in [BrThreads -> BrOpps \cup {0}]
          /\ \A u \in BrThreads : brOpp'[u] = IF u = "agent" THEN o ELSE brOpp[u]
        BY <1>0, <2>2 DEF ThreadsOK
    <2>5. OneLearns'
        BY <2>1 DEF OneLearns, LockPlaces
    <2>6. RowsStored'
        BY <1>0, <2>1, <2>2, <2>3, <2>4 DEF RowsStored
    <2> QED BY <1>0, <2>1, <2>2, <2>4, <2>5, <2>6 DEF ThreadsOK
<1>4. CASE BrReject
    BY <1>2, <1>4 DEF BrReject, RowsStored, BrThreads
<1>5. CASE BrApprove
    <2>1. "agent" \in BrThreads /\ Stored(brOpp["agent"]) /\ UNCHANGED brHistory
          /\ brPc["agent"] = "decide"
        BY <1>5 DEF BrApprove, RowsStored, BrThreads
    <2>2. CASE BrGo("agent", "execute") /\ UNCHANGED <<brDeferred, brOpp, brWon>>
        <3>1. "execute" \in BrPlaces /\ "execute" \notin LockPlaces /\ brWon' \in [BrThreads -> BOOLEAN]
            BY <1>0, <2>2, Zenon DEF ThreadsOK, BrPlaces, LockPlaces
        <3> QED BY <1>1, <2>1, <2>2, <3>1
    <2>3. CASE BrEnd("agent") /\ brDeferred' = brDeferred \cup {brOpp["agent"]}
        BY <1>2, <2>1, <2>3 DEF RowsStored
    <2> QED BY <1>5, <2>2, <2>3 DEF BrApprove
<1>6. ASSUME NEW o \in BrOpps, BrDispatch(o) PROVE Done
    <2>1. o \in brDeferred /\ Stored(o) /\ brDeferred' = brDeferred \ {o} /\ UNCHANGED <<brHistory, brWon>>
        BY <1>6 DEF BrDispatch, RowsStored, brMind
    <2>2. CASE o \in brExecuted
        <3>1. UNCHANGED <<brOpp, brPc>>
            BY <1>6, <2>2 DEF BrDispatch
        <3> QED BY <1>0, <2>1, <3>1 DEF ThreadsOK, OneLearns, RowsStored
    <2>3. CASE o \notin brExecuted
        <3>1. brOpp' = [brOpp EXCEPT !["dispatcher"] = o] /\ BrGo("dispatcher", "execute")
            BY <1>6, <2>3 DEF BrDispatch
        <3>2. brPc' \in [BrThreads -> BrPlaces]
              /\ \A u \in BrThreads : brPc'[u] = IF u = "dispatcher" THEN "execute" ELSE brPc[u]
            BY <3>1, BrMoves DEF BrThreads, BrPlaces
        <3>3. brOpp' \in [BrThreads -> BrOpps \cup {0}]
              /\ \A u \in BrThreads : brOpp'[u] = IF u = "dispatcher" THEN o ELSE brOpp[u]
            BY <1>0, <3>1 DEF ThreadsOK
        <3>4. OneLearns'
            BY <3>2 DEF OneLearns, LockPlaces
        <3>5. RowsStored'
            BY <1>0, <2>1, <3>2, <3>3 DEF RowsStored
        <3> QED BY <1>0, <2>1, <3>2, <3>3, <3>4, <3>5 DEF ThreadsOK
    <2> QED BY <2>2, <2>3
<1>7. ASSUME NEW t \in BrThreads, BrExecute(t) PROVE Done
    <2>1. PICK won \in BOOLEAN : brWon' = [brWon EXCEPT ![t] = won]
        BY <1>7 DEF BrExecute
    <2>2. brWon' \in [BrThreads -> BOOLEAN]
        BY <1>0, <2>1, Zenon DEF ThreadsOK
    <2>3. "learn" \in BrPlaces /\ "learn" \notin LockPlaces
        BY DEF BrPlaces, LockPlaces
    <2> QED BY <1>1, <1>7, <2>2, <2>3 DEF BrExecute, brMind
<1>8. ASSUME NEW t \in BrThreads, \/ BrMatch(t) \/ BrWrite(t) \/ BrTrain(t)
             \/ BrDump(t, "dumpClf", "clf", "dumpReg") \/ BrDump(t, "dumpReg", "reg", "trim")
      PROVE  Done
    <2>1. UNCHANGED <<brHistory, brDeferred, brOpp, brWon>> /\ brPc[t] # "idle"
          /\ (brPc[t] \in LockPlaces \/ ~BrLocked)
          /\ \E to \in BrPlaces : BrGo(t, to)
        BY <1>8 DEF BrMatch, Resolve, BrWrite, BrTrain, BrDump, brMind, LockPlaces, BrPlaces
    <2>2. brWon' \in [BrThreads -> BOOLEAN]
        BY <1>0, <2>1, Zenon DEF ThreadsOK
    <2> QED BY <1>1, <2>1, <2>2
<1>9. ASSUME NEW t \in BrThreads, BrTrim(t) \/ BrCut(t) PROVE Done
    <2>1. UNCHANGED <<brHistory, brDeferred>> /\ brPc[t] \in {"trim", "cut"}
        BY <1>9 DEF BrTrim, BrCut, brMind
    <2>2. BrEnd(t) \/ (BrGo(t, "cut") /\ UNCHANGED <<brOpp, brWon>>)
        BY <1>9 DEF BrTrim, BrCut
    <2>3. UNCHANGED brWon => brWon' \in [BrThreads -> BOOLEAN]
        BY <1>0, Zenon DEF ThreadsOK
    <2>4. "cut" \in BrPlaces /\ brPc[t] \in LockPlaces
        BY <2>1 DEF BrPlaces, LockPlaces
    <2>5. \A o \in brDeferred' : Stored(o)
        BY <2>1 DEF RowsStored
    <2> QED BY <1>1, <1>2, <2>1, <2>2, <2>3, <2>4, <2>5
<1>10. ASSUME NEW t \in BrThreads, BrTune(t) PROVE Done
    <2>1. Stored(brOpp[t]) /\ brOpp[t] \in BrOpps /\ brWon[t] \in BOOLEAN
        BY <1>0, <1>10 DEF BrTune, RowsStored, Stored, ThreadsOK
    <2> DEFINE x == [opp |-> brOpp[t], won |-> brWon[t]]
               h == Append(brHistory, x)
    <2>2. h \in Seq(Outcomes)
        BY <1>0, <2>1 DEF ListsOK, Outcomes
    <2>3. Len(h) = Len(brHistory) + 1 /\ Len(brHistory) \in Nat
          /\ \A i \in 1 .. Len(h) : h[i] = IF i = Len(h) THEN x ELSE brHistory[i]
        BY <1>0 DEF ListsOK
    <2>4. \A i \in 1 .. Len(h) : Stored(h[i].opp)
        BY <2>1, <2>3 DEF RowsStored
    <2>5. brHistory' = LastOf(h, 3 * BrWindow)
        BY <1>10 DEF BrTune
    <2>6. 3 * BrWindow \in Nat
        BY BrAssumption
    <2> HIDE DEF h, x
    <2>7. PICK k \in 0 .. Len(h) : /\ Len(brHistory') = Len(h) - k
                                   /\ \A i \in 1 .. Len(h) - k : brHistory'[i] = h[i + k]
        BY <2>2, <2>5, <2>6, LastOfIs
    <2>8. \A i \in 1 .. Len(brHistory') : Stored(brHistory'[i].opp)
        <3> SUFFICES ASSUME NEW i \in 1 .. Len(brHistory') PROVE Stored(brHistory'[i].opp)
            OBVIOUS
        <3>1. i + k \in 1 .. Len(h) /\ brHistory'[i] = h[i + k]
            BY <2>3, <2>7
        <3> QED BY <2>4, <3>1
    <2>9. PICK to \in {"train", "trim"} : BrGo(t, to)
        BY <1>10 DEF BrTune
    <2>10. to \in BrPlaces /\ brPc[t] \in LockPlaces /\ brPc[t] # "idle"
        BY <1>10 DEF BrPlaces, LockPlaces, BrTune
    <2>11. /\ brPc' \in [BrThreads -> BrPlaces]
           /\ \A u \in BrThreads : brPc'[u] = IF u = t THEN to ELSE brPc[u]
        BY <2>9, <2>10, BrMoves
    <2>12. UNCHANGED <<brDeferred, brOpp, brWon>>
        BY <1>10 DEF BrTune
    <2>13. OneLearns'
        BY <2>10, <2>11 DEF OneLearns
    <2>14. RowsStored'
        BY <1>0, <2>8, <2>10, <2>11, <2>12 DEF RowsStored
    <2> QED BY <1>0, <2>11, <2>12, <2>13, <2>14 DEF ThreadsOK
<1>11. CASE BrRestart
    <2>1. \A t \in BrThreads : brPc'[t] = "idle"
        BY <1>11 DEF BrRestart
    <2>2. brDeferred' = {} /\ brHistory' = << >>
        BY <1>11 DEF BrRestart
    <2>3. OneLearns' /\ RowsStored'
        BY <2>1, <2>2 DEF OneLearns, RowsStored, LockPlaces
    <2>4. brWon' \in [BrThreads -> BOOLEAN]
        BY <1>11, Zenon DEF BrRestart
    <2>5. brPc' \in [BrThreads -> BrPlaces] /\ brOpp' \in [BrThreads -> BrOpps \cup {0}]
        BY <1>11 DEF BrRestart, BrPlaces
    <2> QED BY <2>3, <2>4, <2>5 DEF ThreadsOK
<1>12. CASE UNCHANGED brVars
    BY <1>0, <1>12 DEF brVars, brMind, ThreadsOK, OneLearns, RowsStored, LockPlaces
<1>13. \/ BrReject \/ BrApprove \/ BrRestart \/ UNCHANGED brVars
       \/ \E o \in BrOpps : BrFind(o) \/ BrDispatch(o)
       \/ \E t \in BrThreads : BrExecute(t) \/ BrTune(t)
       \/ \E t \in BrThreads : BrTrim(t) \/ BrCut(t)
       \/ \E t \in BrThreads : \/ BrMatch(t) \/ BrWrite(t) \/ BrTrain(t)
             \/ BrDump(t, "dumpClf", "clf", "dumpReg") \/ BrDump(t, "dumpReg", "reg", "trim")
    BY DEF BrNext
<1> QED BY <1>3, <1>4, <1>5, <1>6, <1>7, <1>8, <1>9, <1>10, <1>11, <1>12, <1>13

\* the model files, with the rows their models were trained on,
LEMMA ModelsStep ==
    ASSUME BrTyped, RowsStored, ModelsTrained, [BrNext]_brVars
    PROVE  FilesOK' /\ ModelsTrained'
<1>0. /\ brModel \in [clf : Int, reg : Int] /\ brFiles \in [clf : Int, reg : Int]
      /\ TableOK /\ IsFiniteSet(Lessoned) /\ BrSamples \in Nat /\ BrSamples > 0
    BY BrAssumption DEF BrTyped, FilesOK, ModelsTrained
<1>1. Lessoned \subseteq Lessoned' /\ \E x : Lessoned' \subseteq Lessoned \union {x}
    <2>1. \/ UNCHANGED brRow
          \/ \E o \in BrOpps : brRow' = [brRow EXCEPT ![o] = IF @ = "none" THEN "seen" ELSE @]
          \/ \E t \in BrThreads : brRow' = [brRow EXCEPT ![brOpp[t]] = IF @ = "none" THEN @
                                                ELSE IF brWon[t] THEN "won" ELSE "lost"]
        BY DEF BrNext, brVars, brMind, BrFind, BrReject, BrApprove, BrDispatch, BrExecute, BrMatch,
               Resolve, BrWrite, BrTune, BrTrain, BrDump, BrTrim, BrCut, BrRestart
    <2>2. CASE \/ UNCHANGED brRow
               \/ \E o \in BrOpps : brRow' = [brRow EXCEPT ![o] = IF @ = "none" THEN "seen" ELSE @]
        BY <1>0, <2>2 DEF Lessoned, TableOK
    <2>3. ASSUME NEW t \in BrThreads,
                 brRow' = [brRow EXCEPT ![brOpp[t]] = IF @ = "none" THEN @
                                                ELSE IF brWon[t] THEN "won" ELSE "lost"]
          PROVE  Lessoned \subseteq Lessoned' /\ Lessoned' \subseteq Lessoned \union {brOpp[t]}
        BY <1>0, <2>3 DEF Lessoned, TableOK
    <2> QED BY <2>1, <2>2, <2>3
<1>2. PICK x : Lessoned' \subseteq Lessoned \union {x}
    BY <1>1
<1>3. IsFiniteSet(Lessoned')
    BY <1>0, <1>2, AtMostOneMore, FS_Subset
<1>4. Cardinality(Lessoned) \in Nat /\ Cardinality(Lessoned') \in Nat
      /\ Cardinality(Lessoned) <= Cardinality(Lessoned')
    BY <1>0, <1>1, <1>3, FS_Subset, FS_CardinalityType
<1>5. Taught = Cardinality(Lessoned) /\ Taught \in Nat
    BY <1>4 DEF Taught, Lessoned
<1> DEFINE Good(m) == m \in [clf : Int, reg : Int] /\ Trained(m.clf) /\ Trained(m.reg)
           Better(m) == /\ m \in [clf : Int, reg : Int]
                        /\ m.clf > 0 => m.clf >= BrSamples /\ m.clf <= Cardinality(Lessoned')
                        /\ m.reg > 0 => m.reg >= BrSamples /\ m.reg <= Cardinality(Lessoned')
<1>6. Good(brModel) /\ Good(brFiles)
    BY <1>0 DEF ModelsTrained
<1>7. ASSUME NEW m, Good(m) PROVE Better(m)
    <2>1. m.clf \in Int /\ m.reg \in Int
        BY <1>7
    <2> QED BY <1>0, <1>4, <1>7, <2>1 DEF Trained
<1>8. Good(NoModel)
    BY DEF NoModel, Trained
<1>9. \/ brModel' = brModel \/ brModel' = NoModel \/ brModel' = brFiles
      \/ (brModel' = [clf |-> Taught, reg |-> Taught] /\ Taught >= BrSamples)
    BY DEF BrNext, brVars, brMind, BrFind, BrReject, BrApprove, BrDispatch, BrExecute, BrMatch, Resolve,
           BrWrite, BrTune, BrTrain, BrDump, BrTrim, BrCut, BrRestart, LoadedModel
<1>10. Better(brModel')
    <2>1. ASSUME Taught >= BrSamples PROVE Good([clf |-> Taught, reg |-> Taught])
        BY <1>0, <1>5, <2>1 DEF Trained
    <2> HIDE DEF Good, Better
    <2> QED BY <1>6, <1>7, <1>8, <1>9, <2>1
<1>11. \/ brFiles' = brFiles
       \/ brFiles' = [brFiles EXCEPT !.clf = brModel.clf] \/ brFiles' = [brFiles EXCEPT !.reg = brModel.reg]
       \/ brFiles' = [brFiles EXCEPT !.clf = -1] \/ brFiles' = [brFiles EXCEPT !.reg = -1]
    <2>1. ASSUME NEW t \in BrThreads, \/ BrDump(t, "dumpClf", "clf", "dumpReg")
                                      \/ BrDump(t, "dumpReg", "reg", "trim")
          PROVE  \/ brFiles' = brFiles
                 \/ brFiles' = [brFiles EXCEPT !["clf"] = brModel["clf"]]
                 \/ brFiles' = [brFiles EXCEPT !["reg"] = brModel["reg"]]
                 \/ brFiles' = [brFiles EXCEPT !["clf"] = -1] \/ brFiles' = [brFiles EXCEPT !["reg"] = -1]
        BY <2>1 DEF BrDump
    <2>2. \/ UNCHANGED brFiles
          \/ \E t \in BrThreads : \/ BrDump(t, "dumpClf", "clf", "dumpReg")
                                  \/ BrDump(t, "dumpReg", "reg", "trim")
        BY DEF BrNext, brVars, brMind, BrFind, BrReject, BrApprove, BrDispatch, BrExecute, BrMatch,
               Resolve, BrWrite, BrTune, BrTrain, BrTrim, BrCut, BrRestart
    <2> QED BY <2>1, <2>2
<1>12. Better(brFiles')
    <2>1. /\ brModel.clf \in Int /\ brModel.reg \in Int
          /\ Trained(brModel.clf) /\ Trained(brModel.reg) /\ Trained(-1)
          /\ Trained(brFiles.clf) /\ Trained(brFiles.reg)
        BY <1>6 DEF Trained
    <2> HIDE DEF Better
    <2>2. CASE brFiles' = brFiles
        BY <1>6, <1>7, <2>2
    <2>3. CASE \/ brFiles' = [brFiles EXCEPT !.clf = brModel.clf]
               \/ brFiles' = [brFiles EXCEPT !.clf = -1]
        <3>1. Good(brFiles')
            BY <1>0, <2>1, <2>3
        <3> QED BY <1>7, <3>1
    <2>4. CASE \/ brFiles' = [brFiles EXCEPT !.reg = brModel.reg]
               \/ brFiles' = [brFiles EXCEPT !.reg = -1]
        <3>1. Good(brFiles')
            BY <1>0, <2>1, <2>4
        <3> QED BY <1>7, <3>1
    <2> QED BY <1>11, <2>2, <2>3, <2>4
<1> QED BY <1>3, <1>10, <1>12 DEF FilesOK, ModelsTrained, Trained

\* the approvals that wait,
LEMMA CutsStep ==
    ASSUME BrTyped, OneLearns, RowsStored, CutsFit, [BrNext]_brVars
    PROVE  CutsFit'
<1>0. /\ brPreds \in Seq(Predictions) /\ ThreadsOK
      /\ brTally \in [approved : Nat, rejected : Nat, right : Nat, wrong : Nat]
      /\ \A t \in BrThreads : brCut[t] \in Seq(Predictions)
      /\ DOMAIN brCut = BrThreads
    BY DEF BrTyped, ListsOK, TallyOK
<1> DEFINE A == brTally.approved
           R == brTally.right
           W == brTally.wrong
           N(s) == Cardinality(Awaited(s))
<1>1. A \in Nat /\ R \in Nat /\ W \in Nat
    BY <1>0
<1>2. N(brPreds) \in Nat /\ \A t \in BrThreads : N(brCut[t]) \in Nat
    BY <1>0, AwaitedFinite
<1>3. /\ R + W + N(brPreds) <= A
      /\ \A t \in BrThreads : brPc[t] = "cut" => R + W + N(brCut[t]) <= A
    BY DEF CutsFit, Fits
<1>4. SUFFICES /\ brTally'.right + brTally'.wrong + N(brPreds') <= brTally'.approved
               /\ \A t \in BrThreads :
                     brPc'[t] = "cut" => brTally'.right + brTally'.wrong + N(brCut'[t]) <= brTally'.approved
    BY DEF CutsFit, Fits
<1>5. CASE BrReject
    <2>1. /\ "agent" \in BrThreads /\ UNCHANGED brCut /\ brTally' = [brTally EXCEPT !.rejected = @ + 1]
          /\ BrEnd("agent")
          /\ brPreds' = brPreds \/ brPreds' = Append(brPreds, Prediction(brOpp["agent"], TRUE))
        BY <1>5 DEF BrReject, BrThreads
    <2>2. \A u \in BrThreads : brPc'[u] = IF u = "agent" THEN "idle" ELSE brPc[u]
        BY <2>1, BrEnds
    <2>3. brTally'.approved = A /\ brTally'.right = R /\ brTally'.wrong = W
        BY <1>0, <2>1
    <2>4. Prediction(brOpp["agent"], TRUE) \in Predictions /\ Prediction(brOpp["agent"], TRUE).skip
        <3>1. brOpp["agent"] \in BrOpps
            BY <1>5 DEF BrReject, RowsStored, Stored, BrThreads
        <3>2. NewId \in Nat
            BY <1>0 DEF NewId
        <3> QED BY <3>1, <3>2 DEF Prediction, Predictions
    <2> DEFINE s == Append(brPreds, Prediction(brOpp["agent"], TRUE))
    <2>5. s \in Seq(Predictions) /\ N(s) <= N(brPreds)
        <3> DEFINE p == Prediction(brOpp["agent"], TRUE)
        <3>1. p \in Predictions /\ p.skip
            BY <2>4
        <3> HIDE DEF p
        <3>2. Append(brPreds, p) \in Seq(Predictions)
            BY <1>0, <3>1
        <3>3. Cardinality(Awaited(Append(brPreds, p))) <= Cardinality(Awaited(brPreds))
            BY <1>0, <3>1, AwaitedAppend
        <3> QED BY <3>2, <3>3 DEF p
    <2>6. N(s) \in Nat
        BY <2>5, AwaitedFinite
    <2> HIDE DEF s, A, R, W
    <2>7. brPreds' = brPreds \/ brPreds' = s
        BY <2>1 DEF s
    <2>8. N(brPreds') <= N(brPreds) /\ N(brPreds') \in Nat
        BY <1>2, <2>5, <2>6, <2>7
    <2> HIDE DEF N
    <2> QED BY <1>1, <1>2, <1>3, <2>1, <2>2, <2>3, <2>8
<1>6. CASE BrApprove
    <2>1. /\ "agent" \in BrThreads /\ UNCHANGED brCut /\ brTally' = [brTally EXCEPT !.approved = @ + 1]
          /\ brPreds' = Append(brPreds, Prediction(brOpp["agent"], FALSE))
          /\ BrEnd("agent") \/ BrGo("agent", "execute")
        BY <1>6 DEF BrApprove, BrThreads
    <2>2. \A u \in BrThreads : brPc'[u] = "cut" => brPc[u] = "cut"
        BY <2>1, BrEnds, BrMoves DEF BrPlaces
    <2>3. brTally'.approved = A + 1 /\ brTally'.right = R /\ brTally'.wrong = W
        BY <1>0, <2>1
    <2>4. Prediction(brOpp["agent"], FALSE) \in Predictions
        <3>1. brOpp["agent"] \in BrOpps
            BY <1>6 DEF BrApprove, RowsStored, Stored, BrThreads
        <3>2. NewId \in Nat
            BY <1>0 DEF NewId
        <3> QED BY <3>1, <3>2 DEF Prediction, Predictions
    <2>5. brPreds' \in Seq(Predictions) /\ N(brPreds') <= N(brPreds) + 1
        <3> DEFINE p == Prediction(brOpp["agent"], FALSE)
        <3>1. p \in Predictions /\ brPreds' = Append(brPreds, p)
            BY <2>1, <2>4
        <3> HIDE DEF p
        <3>2. brPreds' \in Seq(Predictions)
            BY <1>0, <3>1
        <3>3. Cardinality(Awaited(Append(brPreds, p))) <= Cardinality(Awaited(brPreds)) + 1
            BY <1>0, <3>1, AwaitedAppend
        <3> QED BY <3>1, <3>2, <3>3
    <2>6. N(brPreds') \in Nat
        BY <2>5, AwaitedFinite
    <2>7. UNCHANGED brCut
        BY <2>1
    <2> HIDE DEF N, A, R, W
    <2>8. brTally'.right + brTally'.wrong + N(brPreds') <= brTally'.approved
        BY <1>1, <1>2, <1>3, <2>3, <2>5, <2>6
    <2>9. \A u \in BrThreads :
             brPc'[u] = "cut" => brTally'.right + brTally'.wrong + N(brCut'[u]) <= brTally'.approved
        BY <1>1, <1>2, <1>3, <2>2, <2>3, <2>7
    <2> QED BY <2>8, <2>9
<1>7. ASSUME NEW t \in BrThreads, BrMatch(t)
      PROVE  /\ brTally'.right + brTally'.wrong + N(brPreds') <= brTally'.approved
             /\ \A u \in BrThreads : brPc'[u] # "cut"
    <2> DEFINE hits == Matched(brOpp[t], Open(brOpp[t]))
               known(i) == IF i \in hits THEN [brPreds[i] EXCEPT !.known = TRUE] ELSE brPreds[i]
    <2>1. /\ brPreds' = [i \in DOMAIN brPreds |-> known(i)]
          /\ brTally' = IF \E i \in hits : ~brPreds[i].skip
                        THEN IF brWon[t] THEN [brTally EXCEPT !.right = @ + 1]
                                         ELSE [brTally EXCEPT !.wrong = @ + 1]
                        ELSE brTally
          /\ BrGo(t, "write") /\ ~BrLocked
        BY <1>7 DEF BrMatch, Resolve
    <2>2. \A u \in BrThreads : brPc'[u] # "cut"
        BY <2>1, BrMoves DEF BrPlaces, BrLocked
    <2>3. DOMAIN brPreds = 1 .. Len(brPreds) /\ Len(brPreds) \in Nat
          /\ \A i \in 1 .. Len(brPreds) : brPreds[i] \in Predictions
        BY <1>0
    <2>4. \A i \in hits : i \in 1 .. Len(brPreds) /\ ~brPreds[i].known
        BY <2>3 DEF Matched, Open
    <2> HIDE DEF hits
    <2>5. \A i \in 1 .. Len(brPreds) : /\ known(i).skip = brPreds[i].skip
                                       /\ known(i).known <=> brPreds[i].known \/ i \in hits
                                       /\ known(i) \in Predictions
        BY <2>3 DEF Predictions
    <2> HIDE DEF known
    <2>6. brPreds' \in Seq(Predictions) /\ Len(brPreds') = Len(brPreds)
          /\ \A i \in 1 .. Len(brPreds) : brPreds'[i] = known(i)
        BY <2>1, <2>3, <2>5
    <2>7. Awaited(brPreds') = Awaited(brPreds) \ hits
        BY <2>3, <2>5, <2>6 DEF Awaited
    <2>8. IsFiniteSet(Awaited(brPreds)) /\ IsFiniteSet(Awaited(brPreds'))
          /\ N(brPreds') \in Nat /\ N(brPreds') <= N(brPreds)
        BY <1>0, <2>6, <2>7, AwaitedFinite, FS_Subset
    <2>9. CASE \E i \in hits : ~brPreds[i].skip
        <3>1. PICK i \in hits : ~brPreds[i].skip
            BY <2>9
        <3>2. i \in Awaited(brPreds) /\ i \notin Awaited(brPreds') /\ Awaited(brPreds') \subseteq Awaited(brPreds)
            BY <2>4, <2>7, <3>1 DEF Awaited
        <3>3. N(brPreds') + 1 <= N(brPreds)
            BY <2>8, <3>2, FewerWithout
        <3>4. /\ brTally'.approved = A
              /\ \/ brTally'.right = R + 1 /\ brTally'.wrong = W
                 \/ brTally'.right = R /\ brTally'.wrong = W + 1
            BY <1>0, <2>1, <2>9
        <3> HIDE DEF N, A, R, W
        <3> QED BY <1>1, <1>2, <1>3, <2>2, <2>8, <3>3, <3>4
    <2>10. CASE ~ \E i \in hits : ~brPreds[i].skip
        <3>1. brTally' = brTally
            BY <2>1, <2>10
        <3>2. brTally'.approved = A /\ brTally'.right = R /\ brTally'.wrong = W
            BY <3>1
        <3> HIDE DEF N, A, R, W
        <3> QED BY <1>1, <1>2, <1>3, <2>2, <2>8, <3>2
    <2> QED BY <2>9, <2>10
<1>8. ASSUME UNCHANGED brTally
      PROVE  brTally'.approved = A /\ brTally'.right = R /\ brTally'.wrong = W
    BY <1>8
<1>9. ASSUME NEW t \in BrThreads, BrTrim(t)
      PROVE  /\ brTally'.right + brTally'.wrong + N(brPreds') <= brTally'.approved
             /\ \A u \in BrThreads :
                   brPc'[u] = "cut" => brTally'.right + brTally'.wrong + N(brCut'[u]) <= brTally'.approved
    <2>1. UNCHANGED <<brTally, brPreds>>
        BY <1>9 DEF BrTrim, brMind
    <2>2. CASE BrEnd(t) /\ UNCHANGED brCut
        <3>1. \A u \in BrThreads : brPc'[u] = "cut" => brPc[u] = "cut"
            BY <2>2, BrEnds
        <3> HIDE DEF N, A, R, W
        <3> QED BY <1>1, <1>3, <1>8, <2>1, <2>2, <3>1
    <2>3. CASE brCut' = [brCut EXCEPT ![t] = LastOf(brPreds, BrKept)] /\ BrGo(t, "cut")
        <3>1. \A u \in BrThreads : brPc'[u] = IF u = t THEN "cut" ELSE brPc[u]
            BY <2>3, BrMoves DEF BrPlaces
        <3>2. \A u \in BrThreads : brCut'[u] = IF u = t THEN LastOf(brPreds, BrKept) ELSE brCut[u]
            BY <1>0, <2>3
        <3>3. N(LastOf(brPreds, BrKept)) <= N(brPreds) /\ N(LastOf(brPreds, BrKept)) \in Nat
            BY <1>0, BrAssumption, AwaitedLast, LastOfIs, AwaitedFinite
        <3> HIDE DEF N, A, R, W
        <3> QED BY <1>1, <1>2, <1>3, <1>8, <2>1, <3>1, <3>2, <3>3
    <2> QED BY <1>9, <2>2, <2>3 DEF BrTrim
<1>10. ASSUME NEW t \in BrThreads, BrCut(t)
      PROVE  /\ brTally'.right + brTally'.wrong + N(brPreds') <= brTally'.approved
             /\ \A u \in BrThreads :
                   brPc'[u] = "cut" => brTally'.right + brTally'.wrong + N(brCut'[u]) <= brTally'.approved
    <2>1. brPc[t] = "cut" /\ UNCHANGED brTally /\ brPreds' = brCut[t] /\ BrEnd(t)
          /\ brCut' = [brCut EXCEPT ![t] = << >>]
        BY <1>10 DEF BrCut
    <2>2. \A u \in BrThreads : brPc'[u] = IF u = t THEN "idle" ELSE brPc[u]
        BY <2>1, BrEnds
    <2>3. \A u \in BrThreads : u # t => brCut'[u] = brCut[u]
        BY <1>0, <2>1
    <2> HIDE DEF N, A, R, W
    <2> QED BY <1>1, <1>3, <1>8, <2>1, <2>2, <2>3
<1>11. CASE BrRestart
    <2>1. \A u \in BrThreads : brPc'[u] # "cut"
        BY <1>11 DEF BrRestart
    <2>2. brTally'.right = 0 /\ brTally'.wrong = 0 /\ brTally'.approved = 0 /\ brPreds' = << >>
        BY <1>11 DEF BrRestart, NoTally
    <2>3. Awaited(<< >>) = {}
        BY DEF Awaited
    <2>4. N(brPreds') = 0
        BY <2>2, <2>3, FS_EmptySet
    <2> HIDE DEF N, A, R, W
    <2> QED BY <2>1, <2>2, <2>4
<1>12. ASSUME UNCHANGED <<brTally, brPreds, brCut>>, \A u \in BrThreads : brPc'[u] = "cut" => brPc[u] = "cut"
      PROVE  /\ brTally'.right + brTally'.wrong + N(brPreds') <= brTally'.approved
             /\ \A u \in BrThreads :
                   brPc'[u] = "cut" => brTally'.right + brTally'.wrong + N(brCut'[u]) <= brTally'.approved
    <2> HIDE DEF N, A, R, W
    <2> QED BY <1>3, <1>8, <1>12
<1>13. ASSUME \/ UNCHANGED brVars
              \/ \E o \in BrOpps : BrFind(o) \/ BrDispatch(o)
              \/ \E t \in BrThreads : \/ BrExecute(t) \/ BrWrite(t) \/ BrTune(t) \/ BrTrain(t)
                    \/ BrDump(t, "dumpClf", "clf", "dumpReg") \/ BrDump(t, "dumpReg", "reg", "trim")
      PROVE  /\ UNCHANGED <<brTally, brPreds, brCut>>
             /\ \A u \in BrThreads : brPc'[u] = "cut" => brPc[u] = "cut"
    <2>1. UNCHANGED <<brTally, brPreds, brCut>>
        BY <1>13 DEF brVars, brMind, BrFind, BrDispatch, BrExecute, BrWrite, BrTune, BrTrain, BrDump
    <2>2. \/ UNCHANGED brPc
          \/ \E t \in BrThreads, to \in BrPlaces : to # "cut" /\ BrGo(t, to)
        BY <1>13 DEF brVars, BrFind, BrDispatch, BrExecute, BrWrite, BrTune, BrTrain, BrDump,
                     BrPlaces, BrThreads
    <2> QED BY <2>1, <2>2, BrMoves
<1> QED BY <1>5, <1>6, <1>7, <1>9, <1>10, <1>11, <1>12, <1>13 DEF BrNext
\* and the agreement of the table with the history of outcomes.
LEMMA MemoryStep ==
    ASSUME BrTyped, OneLearns, RowsStored, MemoryHolds, [BrNext]_brVars
    PROVE  MemoryHolds'
<1>0. /\ brHistory \in Seq(Outcomes) /\ TableOK /\ ThreadsOK
      /\ \A t, u \in BrThreads : brPc[t] \in LockPlaces /\ brPc[u] \in LockPlaces => t = u
    BY DEF BrTyped, ListsOK, OneLearns
\* A step that leaves the history, the stored rows and the writer as they are.
<1>1. ASSUME UNCHANGED brHistory, \A o : Stored(o) => brRow'[o] = brRow[o],
             \A t \in BrThreads : /\ brPc'[t] = "tune" <=> brPc[t] = "tune"
                                  /\ brPc[t] = "tune" => brOpp'[t] = brOpp[t] /\ brWon'[t] = brWon[t]
      PROVE  MemoryHolds'
    <2>1. \A o : Between(o)' <=> Between(o)
        BY <1>1 DEF Between
    <2>2. \A i \in 1 .. Len(brHistory) : Stored(brHistory[i].opp)
        BY DEF RowsStored
    <2>3. \A t \in BrThreads : brPc[t] = "tune" => Stored(brOpp[t])
        BY DEF RowsStored
    <2>4. \A i \in 1 .. Len(brHistory) :
             IsLast(brHistory, i) /\ ~Between(brHistory[i].opp)
                => brRow'[brHistory[i].opp] = Result(brHistory[i].won)
        BY <1>1, <2>2 DEF MemoryHolds
    <2>5. \A t \in BrThreads : brPc'[t] = "tune" => brRow'[brOpp'[t]] = Result(brWon'[t])
        BY <1>1, <2>3 DEF MemoryHolds
    <2>6. \A i \in 1 .. Len(brHistory') :
             (IsLast(brHistory, i) /\ ~Between(brHistory[i].opp) => brRow[brHistory[i].opp] = Result(brHistory[i].won))'
        <3> SUFFICES ASSUME NEW i \in 1 .. Len(brHistory')
                     PROVE  (IsLast(brHistory, i) /\ ~Between(brHistory[i].opp)
                               => brRow[brHistory[i].opp] = Result(brHistory[i].won))'
            OBVIOUS
        <3>1. Between(brHistory[i].opp)' <=> Between(brHistory[i].opp)
            BY <1>1 DEF Between
        <3> QED BY <1>1, <2>4, <3>1 DEF IsLast, Result
    <2> QED BY <2>5, <2>6 DEF MemoryHolds, Result
<1>2. ASSUME NEW t \in BrThreads, BrWrite(t) PROVE MemoryHolds'
    <2>1. /\ brPc[t] = "write" /\ BrGo(t, "tune") /\ UNCHANGED <<brHistory, brOpp, brWon>>
          /\ brRow' = [brRow EXCEPT ![brOpp[t]] = IF @ = "none" THEN @
                                                  ELSE IF brWon[t] THEN "won" ELSE "lost"]
        BY <1>2 DEF BrWrite, brMind
    <2>2. \A u \in BrThreads : brPc'[u] = IF u = t THEN "tune" ELSE brPc[u]
        BY <2>1, BrMoves DEF BrPlaces
    <2>3. \A u \in BrThreads : brPc[u] # "tune"
        BY <1>0, <2>1 DEF LockPlaces
    <2>4. Stored(brOpp[t])
        BY <2>1 DEF RowsStored
    <2>5. brRow'[brOpp[t]] = Result(brWon[t]) /\ \A o : o # brOpp[t] => brRow'[o] = brRow[o]
        BY <1>0, <2>1, <2>4 DEF Stored, TableOK, Result
    <2>7. \A o : ~Between(o)
        BY <2>3 DEF Between
    <2>8. \A i \in 1 .. Len(brHistory') :
             (IsLast(brHistory, i) /\ ~Between(brHistory[i].opp) => brRow[brHistory[i].opp] = Result(brHistory[i].won))'
        <3> SUFFICES ASSUME NEW i \in 1 .. Len(brHistory'), (IsLast(brHistory, i) /\ ~Between(brHistory[i].opp))'
                     PROVE  brRow'[brHistory'[i].opp] = Result(brHistory'[i].won)
            BY DEF Result
        <3>1. brHistory[i].opp # brOpp[t]
            BY <2>1, <2>2 DEF Between
        <3>2. IsLast(brHistory, i)
            BY <2>1 DEF IsLast
        <3> QED BY <2>1, <2>5, <2>7, <3>1, <3>2 DEF MemoryHolds
    <2>9. \A u \in BrThreads : brPc'[u] = "tune" => brRow'[brOpp'[u]] = Result(brWon'[u])
        BY <2>1, <2>2, <2>3, <2>5
    <2> QED BY <2>8, <2>9 DEF MemoryHolds, Result
<1>3. ASSUME NEW t \in BrThreads, BrTune(t) PROVE MemoryHolds'
    <2> DEFINE x == [opp |-> brOpp[t], won |-> brWon[t]]
               h == Append(brHistory, x)
    <2>1. brPc[t] = "tune" /\ UNCHANGED brRow /\ brHistory' = LastOf(h, 3 * BrWindow)
          /\ \E to \in {"train", "trim"} : BrGo(t, to)
        BY <1>3 DEF BrTune
    <2>2. x \in Outcomes /\ x.opp = brOpp[t] /\ x.won = brWon[t]
        BY <1>0, <2>1 DEF RowsStored, Stored, ThreadsOK, Outcomes
    <2> HIDE DEF x
    <2>3. h \in Seq(Outcomes) /\ Len(h) = Len(brHistory) + 1 /\ Len(brHistory) \in Nat
          /\ \A i \in 1 .. Len(h) : h[i] = IF i = Len(h) THEN x ELSE brHistory[i]
        BY <1>0, <2>2
    <2>4. 3 * BrWindow \in Nat
        BY BrAssumption
    <2> HIDE DEF h
    <2>5. PICK k \in 0 .. Len(h) : /\ Len(brHistory') = Len(h) - k
                                   /\ \A i \in 1 .. Len(h) - k : brHistory'[i] = h[i + k]
        BY <2>1, <2>3, <2>4, LastOfIs
    <2>6. \A u \in BrThreads : brPc'[u] # "tune"
        <3>1. PICK to \in {"train", "trim"} : BrGo(t, to)
            BY <2>1
        <3>2. \A u \in BrThreads : brPc'[u] = IF u = t THEN to ELSE brPc[u]
            BY <3>1, BrMoves DEF BrPlaces
        <3>3. \A u \in BrThreads : u # t => brPc[u] # "tune"
            BY <1>0, <2>1 DEF LockPlaces
        <3> QED BY <3>1, <3>2, <3>3
    <2>7. ASSUME NEW i \in 1 .. Len(brHistory'), IsLast(brHistory', i)
          PROVE  brRow[brHistory'[i].opp] = Result(brHistory'[i].won)
        <3>1. i \in Int /\ k \in Int /\ i >= 1 /\ k >= 0 /\ i + k <= Len(h)
              /\ i + k \in 1 .. Len(h) /\ brHistory'[i] = h[i + k]
            BY <2>3, <2>5, <2>7
        <3>2. CASE i + k = Len(h)
            BY <2>1, <2>2, <2>3, <3>1, <3>2 DEF MemoryHolds
        <3>3. CASE i + k # Len(h)
            <4>1. i + k \in 1 .. Len(brHistory) /\ h[i + k] = brHistory[i + k]
                BY <2>3, <3>1, <3>3
            <4>2. ASSUME NEW j \in i + k + 1 .. Len(h) PROVE h[j].opp # h[i + k].opp
                <5>1. j - k \in 1 .. Len(brHistory') /\ j - k > i /\ j - k \in 1 .. Len(h) - k
                      /\ (j - k) + k = j
                    BY <2>3, <2>5, <3>1
                <5>2. brHistory'[j - k] = h[j]
                    BY <2>5, <5>1
                <5> QED BY <2>7, <3>1, <5>1, <5>2 DEF IsLast
            <4>3. h[Len(h)].opp # h[i + k].opp
                BY <2>3, <3>1, <3>3, <4>2
            <4>4. IsLast(brHistory, i + k)
                <5> SUFFICES ASSUME NEW j \in 1 .. Len(brHistory), j > i + k
                             PROVE  brHistory[j].opp # brHistory[i + k].opp
                    BY DEF IsLast
                <5>1. j \in i + k + 1 .. Len(h) /\ h[j] = brHistory[j]
                    BY <2>3, <3>1
                <5> QED BY <4>1, <4>2, <5>1
            <4>5. ~Between(brHistory[i + k].opp)
                <5>1. h[Len(h)].opp = brOpp[t]
                    BY <2>2, <2>3
                <5>2. \A u \in BrThreads : brPc[u] = "tune" => u = t
                    BY <1>0, <2>1 DEF LockPlaces
                <5> QED BY <4>1, <4>3, <5>1, <5>2 DEF Between
            <4> QED BY <3>1, <4>1, <4>4, <4>5 DEF MemoryHolds
        <3> QED BY <3>2, <3>3
    <2> QED BY <2>1, <2>6, <2>7 DEF MemoryHolds
<1>4. ASSUME NEW o \in BrOpps, BrFind(o) PROVE MemoryHolds'
    <2>1. /\ brPc["agent"] = "idle" /\ "agent" \in BrThreads /\ BrGo("agent", "decide")
          /\ brRow' = [brRow EXCEPT ![o] = IF @ = "none" THEN "seen" ELSE @]
          /\ brOpp' = [brOpp EXCEPT !["agent"] = o] /\ UNCHANGED <<brHistory, brWon>>
        BY <1>4 DEF BrFind, brMind, BrThreads
    <2>2. \A u \in BrThreads : brPc'[u] = IF u = "agent" THEN "decide" ELSE brPc[u]
        BY <2>1, BrMoves DEF BrPlaces
    <2>3. \A u \in BrThreads : u # "agent" => brOpp'[u] = brOpp[u]
        BY <1>0, <2>1 DEF ThreadsOK
    <2>4. \A p : Stored(p) => brRow'[p] = brRow[p]
        BY <1>0, <2>1 DEF Stored, TableOK
    <2> QED BY <1>1, <2>1, <2>2, <2>3, <2>4
<1>5. ASSUME NEW t \in BrThreads, BrEnd(t), brPc[t] # "tune", UNCHANGED <<brHistory, brRow>>
      PROVE  MemoryHolds'
    <2>1. /\ \A u \in BrThreads : brPc'[u] = IF u = t THEN "idle" ELSE brPc[u]
          /\ \A u \in BrThreads : u # t => brOpp'[u] = brOpp[u]
          /\ \A u \in BrThreads : u # t => brWon'[u] = brWon[u]
        BY <1>5, BrEnds
    <2> QED BY <1>1, <1>5, <2>1
<1>6. ASSUME NEW t \in BrThreads, NEW to \in BrPlaces, BrGo(t, to), brPc[t] # "tune", to # "tune",
             \A u \in BrThreads : u # t => brOpp'[u] = brOpp[u] /\ brWon'[u] = brWon[u],
             UNCHANGED <<brHistory, brRow>>
      PROVE  MemoryHolds'
    <2>1. \A u \in BrThreads : brPc'[u] = IF u = t THEN to ELSE brPc[u]
        BY <1>6, BrMoves
    <2> QED BY <1>1, <1>6, <2>1
<1>7. CASE BrReject \/ BrApprove
    <2>1. "agent" \in BrThreads /\ brPc["agent"] # "tune" /\ UNCHANGED <<brHistory, brRow>>
          /\ (BrEnd("agent") \/ (BrGo("agent", "execute") /\ UNCHANGED <<brOpp, brWon>>))
          /\ "execute" \in BrPlaces /\ "execute" # "tune"
        BY <1>7 DEF BrReject, BrApprove, BrThreads, BrPlaces
    <2> QED BY <1>5, <1>6, <2>1
<1>8. ASSUME NEW o \in BrOpps, BrDispatch(o) PROVE MemoryHolds'
    <2>1. /\ brPc["dispatcher"] = "idle" /\ "dispatcher" \in BrThreads
          /\ UNCHANGED <<brHistory, brRow, brWon>>
          /\ \/ UNCHANGED <<brOpp, brPc>>
             \/ brOpp' = [brOpp EXCEPT !["dispatcher"] = o] /\ BrGo("dispatcher", "execute")
        BY <1>8 DEF BrDispatch, brMind, BrThreads
    <2>2. CASE UNCHANGED <<brOpp, brPc>>
        BY <1>1, <2>1, <2>2
    <2>3. CASE brOpp' = [brOpp EXCEPT !["dispatcher"] = o] /\ BrGo("dispatcher", "execute")
        <3>1. \A u \in BrThreads : u # "dispatcher" => brOpp'[u] = brOpp[u]
            BY <1>0, <2>3 DEF ThreadsOK
        <3>2. "execute" \in BrPlaces /\ "execute" # "tune"
            BY DEF BrPlaces
        <3> QED BY <1>6, <2>1, <2>3, <3>1, <3>2
    <2> QED BY <2>1, <2>2, <2>3
<1>9. ASSUME NEW t \in BrThreads, BrExecute(t) PROVE MemoryHolds'
    <2>1. PICK won \in BOOLEAN : brWon' = [brWon EXCEPT ![t] = won]
        BY <1>9 DEF BrExecute
    <2>2. \A u \in BrThreads : u # t => brWon'[u] = brWon[u]
        BY <1>0, <2>1, Zenon DEF ThreadsOK
    <2>3. BrGo(t, "learn") /\ brPc[t] # "tune" /\ UNCHANGED <<brHistory, brRow, brOpp>>
          /\ "learn" \in BrPlaces /\ "learn" # "tune"
        BY <1>9 DEF BrExecute, brMind, BrPlaces
    <2> QED BY <1>6, <2>2, <2>3
<1>10. ASSUME NEW t \in BrThreads, \/ BrMatch(t) \/ BrTrain(t)
             \/ BrDump(t, "dumpClf", "clf", "dumpReg") \/ BrDump(t, "dumpReg", "reg", "trim")
       PROVE MemoryHolds'
    <2>1. UNCHANGED <<brHistory, brRow, brOpp, brWon>> /\ brPc[t] # "tune"
          /\ \E to \in BrPlaces : to # "tune" /\ BrGo(t, to)
        BY <1>10 DEF BrMatch, Resolve, BrTrain, BrDump, brMind, BrPlaces
    <2> QED BY <1>6, <2>1
<1>11. ASSUME NEW t \in BrThreads, BrTrim(t) \/ BrCut(t) PROVE MemoryHolds'
    <2>1. UNCHANGED <<brHistory, brRow>> /\ brPc[t] # "tune" /\ "cut" \in BrPlaces /\ "cut" # "tune"
          /\ (BrEnd(t) \/ (BrGo(t, "cut") /\ UNCHANGED <<brOpp, brWon>>))
        BY <1>11 DEF BrTrim, BrCut, brMind, BrPlaces
    <2> QED BY <1>5, <1>6, <2>1
<1>12. CASE BrRestart
    <2>1. brHistory' = << >> /\ \A t \in BrThreads : brPc'[t] # "tune"
        BY <1>12 DEF BrRestart
    <2> QED BY <2>1 DEF MemoryHolds
<1>13. CASE UNCHANGED brVars
    <2>1. UNCHANGED <<brHistory, brRow, brOpp, brWon, brPc>>
        BY <1>13 DEF brVars, brMind
    <2> QED BY <1>1, <2>1
<1> QED BY <1>2, <1>3, <1>4, <1>7, <1>8, <1>9, <1>10, <1>11, <1>12, <1>13 DEF BrNext

-----------------------------------------------------------------------------
\* Every step keeps the invariant.
LEMMA BrAlways == BrSpec => []BrInv
<1>1. BrInv /\ [BrNext]_brVars => BrInv'
    <2> SUFFICES ASSUME BrInv, [BrNext]_brVars PROVE BrInv'
        OBVIOUS
    <2>1. BrTyped /\ OneLearns /\ RowsStored /\ CutsFit /\ MemoryHolds /\ ModelsTrained
        BY DEF BrInv
    <2>2. TableOK'
        BY <2>1, TableStep
    <2>3. ListsOK' /\ Len(brHistory') <= 3 * BrWindow
        BY <2>1, ListsStep
    <2>4. TallyOK' /\ ParamsOK' /\ brTrades' \in 0 .. BrEvery - 1
        BY <2>1, FiguresStep
    <2>5. ThreadsOK' /\ OneLearns' /\ RowsStored'
        BY <2>1, <2>3, ThreadsStep
    <2>6. FilesOK' /\ ModelsTrained'
        BY <2>1, ModelsStep
    <2>7. CutsFit'
        BY <2>1, CutsStep
    <2>8. MemoryHolds'
        BY <2>1, MemoryStep
    <2> QED BY <2>2, <2>3, <2>4, <2>5, <2>6, <2>7, <2>8 DEF BrInv, BrTyped, CountsOK
<1> QED BY BrInitInv, <1>1, PTL DEF BrSpec

\* What the brain learns is what happened, for every set of opportunities and
\* every bound: the tally, the memory and the models.
THEOREM LearningTrue == BrSpec => []LearningIsSound
<1>1. BrInv => LearningIsSound
    <2> SUFFICES ASSUME BrInv PROVE LearningIsSound
        OBVIOUS
    <2>1. BrTyped /\ CutsFit /\ MemoryHolds /\ ModelsTrained
        BY DEF BrInv
    <2>2. DOMAIN brPreds = 1 .. Len(brPreds) /\ DOMAIN brHistory = 1 .. Len(brHistory)
        BY <2>1 DEF BrTyped, ListsOK
    <2>3. BrTallyIsTrue
        BY <2>1, <2>2 DEF CutsFit, Fits, Awaited, BrTallyIsTrue
    <2>4. BrMemoryAgrees
        <3> SUFFICES ASSUME ~BrLocked, NEW i \in DOMAIN brHistory,
                            \A j \in DOMAIN brHistory : j > i => brHistory[j].opp # brHistory[i].opp
                     PROVE  brRow[brHistory[i].opp] = IF brHistory[i].won THEN "won" ELSE "lost"
            BY DEF BrMemoryAgrees
        <3>1. IsLast(brHistory, i) /\ i \in 1 .. Len(brHistory)
            BY <2>2 DEF IsLast
        <3>2. ~Between(brHistory[i].opp)
            BY DEF BrLocked, Between
        <3> QED BY <2>1, <3>1, <3>2 DEF MemoryHolds, Result
    <2>5. BrModelIsTrained
        BY <2>1 DEF ModelsTrained, Trained, Taught, Lessoned, BrModelIsTrained
    <2> QED BY <2>3, <2>4, <2>5 DEF LearningIsSound
<1> QED BY <1>1, BrAlways, PTL

\* The types of the brain's variables, the rails of its parameters among them.
THEOREM BrainTypes == BrSpec => []BrTypeOK
<1>1. BrInv => BrTypeOK
    <2> SUFFICES ASSUME BrInv PROVE BrTypeOK
        OBVIOUS
    <2>1. TableOK /\ ListsOK /\ TallyOK /\ ParamsOK /\ CountsOK /\ ThreadsOK
        BY DEF BrInv, BrTyped
    <2>2. brTally \in [{"approved", "rejected", "right", "wrong"} -> Nat]
        BY <2>1 DEF TallyOK
    <2>3. \A i \in DOMAIN brPreds : brPreds[i].opp \in BrOpps
        <3>1. \A i \in DOMAIN brPreds : brPreds[i] \in Predictions
            BY <2>1 DEF ListsOK
        <3> QED BY <3>1 DEF Predictions
    <2>4. /\ brParams.profit \in Int /\ brParams.bar \in 10 .. 95
          /\ brParams.profit = BrMinProfit \/ (50 <= brParams.profit /\ brParams.profit <= 50000)
        <3>1. brParams.profit \in Rails /\ brParams.bar \in 10 .. 95
            BY <2>1 DEF ParamsOK
        <3> QED BY <3>1 DEF Rails
    <2>5. brOpp \in [BrThreads -> BrOpps \cup {0}] /\ brWon \in [BrThreads -> BOOLEAN]
        BY <2>1 DEF ThreadsOK
    <2>6. /\ brRow \in [BrOpps -> {"none", "seen", "won", "lost"}]
          /\ brExecuted \subseteq BrOpps /\ brDeferred \subseteq BrOpps
          /\ brTrades \in 0 .. BrEvery - 1 /\ Len(brHistory) <= 3 * BrWindow
        BY <2>1 DEF TableOK, CountsOK
    <2> QED BY <2>2, <2>3, <2>4, <2>5, <2>6 DEF BrTypeOK
<1> QED BY <1>1, BrAlways, PTL
-----------------------------------------------------------------------------
(* The pool analyser: what is given away fits the capital.                 *)

USE DEF All

\* Shares of pools, in numbers, that add up to the capital at most,
InCapital(given) ==
    /\ DOMAIN given \subseteq PaPools /\ given \in [DOMAIN given -> Nat]
    /\ Total(given) <= All

\* and amounts that do so but for the cents they are rounded to.
Afforded(given, capital) ==
    /\ DOMAIN given \subseteq PaPools /\ given \in [DOMAIN given -> Nat]
    /\ 2 * Total(given) <= 2 * capital + Cardinality(DOMAIN given)

\* The analysis so far, of which the recommendation is made pool by pool: what
\* is given and what is left is the capital.
Shared(done) ==
    /\ DOMAIN done.shares \subseteq PaPools /\ done.shares \in [DOMAIN done.shares -> Nat]
    /\ done.left \in Nat /\ Total(done.shares) + done.left = All

\* The total is the sum over the pools that have a share.
LEMMA TotalIs == ASSUME NEW given PROVE Total(given) = SumOver(given, DOMAIN given)
    BY DEF Total, FoldFunction, FoldFunctionOnSet, SumOver, MapThenSumSet

\* Any set of pools is finite.
LEMMA PoolsFinite == \A S \in SUBSET PaPools : IsFiniteSet(S) /\ Cardinality(S) \in Nat
    BY PaAssumption, FS_Subset, FS_CardinalityType

\* No shares fit,
LEMMA NoneFits == InCapital(NoShares) /\ Total(NoShares) = 0
<1>1. DOMAIN NoShares = {} /\ NoShares \in [{} -> Nat]
    BY DEF NoShares
<1>2. SumOver(NoShares, {}) = 0
    BY SumIter, FS_EmptySet
<1> QED BY <1>1, <1>2, TotalIs DEF InCapital

\* and of shares that fit no one is above the capital.
LEMMA EachFits ==
    ASSUME NEW given, InCapital(given) PROVE \A p \in DOMAIN given : given[p] \in Nat /\ given[p] <= All
<1> DEFINE D == DOMAIN given
<1> HIDE DEF D
<1>1. IsFiniteSet(D) /\ given \in [D -> Nat]
    BY PoolsFinite DEF InCapital, D
<1>2. SumOver(given, D) <= All
    BY TotalIs DEF InCapital, D
<1>3. ASSUME NEW p \in D PROVE given[p] \in Nat /\ given[p] <= All
    <2>1. SumOver(given, D) = given[p] + SumOver(given, D \ {p})
        BY <1>1, SumSplits
    <2>2. SumOver(given, D \ {p}) \in Nat
        <3>1. IsFiniteSet(D \ {p}) BY <1>1, FS_Subset
        <3> QED BY <1>1, <3>1, SumSplits
    <2>3. given[p] \in Nat
        BY <1>1
    <2> DEFINE sum == SumOver(given, D)  rest == SumOver(given, D \ {p})  share == given[p]
    <2>4. sum = share + rest /\ sum <= All /\ rest \in Nat /\ share \in Nat
        BY <1>2, <2>1, <2>2, <2>3
    <2> HIDE DEF sum, rest, share
    <2>5. share \in Nat /\ share <= All
        BY <2>4
    <2> QED BY <2>5 DEF share
<1> QED BY <1>3 DEF D

\* The figures of a pool are numbers.
LEMMA Figures ==
    ASSUME paTable \in PaTables, NEW p \in DOMAIN paTable
    PROVE  /\ p \in PaPools /\ paTable[p].apy \in Nat /\ paTable[p].wild \in BOOLEAN
           /\ Composite(p) \in Nat /\ Risk(p) \in 0 .. 1000
<1>1. DOMAIN paTable \subseteq PaPools /\ paTable[p] \in PaMetrics
    BY DEF PaTables
<1>2. paTable[p].apy \in Nat /\ paTable[p].tvl \in Nat /\ paTable[p].wild \in BOOLEAN
    BY <1>1, PaAssumption
<1>3. PaTier[p] \in 1 .. 3 /\ PaIlRisk[p] \in 0 .. 1000
    BY <1>1, PaAssumption
<1> DEFINE apy == paTable[p].apy  tvl == paTable[p].tvl  il == PaIlRisk[p]  tier == PaTier[p]
<1>4. Composite(p) \in Nat
    <2>1. Composite(p) = Least(1000, (apy * 50) \div 3 + Least(200, 20 * tvl)
                   + (IF paTable[p].wild THEN 0 ELSE 100) + (IF il = 0 THEN 150 ELSE 0))
        BY DEF Composite
    <2>2. apy \in Nat /\ tvl \in Nat
        BY <1>2
    <2> HIDE DEF apy, tvl, il
    <2>3. (apy * 50) \div 3 \in Nat
        BY <2>2
    <2>4. Least(200, 20 * tvl) \in Nat
        BY <2>2 DEF Least
    <2> QED BY <2>1, <2>3, <2>4 DEF Least
<1>5. Risk(p) \in 0 .. 1000
    <2> DEFINE ofValue == IF tvl >= 8 THEN 100 ELSE IF tvl = 7 THEN 300
                          ELSE IF tvl = 6 THEN 500 ELSE 800
               ofHistory == IF paTable[p].wild THEN 1000 ELSE 0
    <2>1. Risk(p) = (20 * ofValue + 30 * 300 + 20 * il + 15 * ofHistory
                     + 15 * 300 * (tier - 1)) \div 100
        BY DEF Risk
    <2>2. /\ ofValue \in Nat /\ ofValue <= 800
          /\ ofHistory \in Nat /\ ofHistory <= 1000
        OBVIOUS
    <2> DEFINE above == tier - 1
    <2>3. il \in Nat /\ il <= 1000 /\ above \in Nat /\ above <= 2
        <3>1. il \in 0 .. 1000 /\ tier \in 1 .. 3
            BY <1>3
        <3> HIDE DEF il, tier
        <3> QED BY <3>1
    <2> DEFINE sum == 20 * ofValue + 30 * 300 + 20 * il + 15 * ofHistory + 15 * 300 * above
    <2>4. Risk(p) = sum \div 100
        BY <2>1
    <2>5. sum \in Nat /\ sum <= 69000
        <3> HIDE DEF ofValue, ofHistory, il, above
        <3>1. 20 * ofValue <= 16000 /\ 20 * il <= 20000 /\ 15 * ofHistory <= 15000
            BY <2>2, <2>3
        <3>2. 15 * 300 * above <= 9000
            BY <2>3
        <3> QED BY <2>2, <2>3, <3>1, <3>2
    <2> HIDE DEF sum
    <2>6. sum \div 100 \in Nat /\ 100 * (sum \div 100) <= sum
        BY <2>5
    <2>7. sum \div 100 <= 1000
        BY <2>5, <2>6
    <2> QED BY <2>4, <2>6, <2>7
<1> QED BY <1>1, <1>2, <1>4, <1>5

\* A pool more leaves what is given and what is left the capital.
LEMMA GivenShared ==
    ASSUME NEW done, Shared(done), NEW p \in PaPools, p \notin DOMAIN done.shares,
           NEW pct \in Nat, pct <= done.left
    PROVE  /\ Shared(Given(done, p, pct))
           /\ DOMAIN Given(done, p, pct).shares = DOMAIN done.shares \cup {p}
<1> DEFINE D == DOMAIN done.shares
           f == done.shares
           g == [q \in D \cup {p} |-> IF q = p THEN pct ELSE f[q]]
<1> HIDE DEF D, f, g
<1>1. Given(done, p, pct).shares = g /\ Given(done, p, pct).left = done.left - pct
    BY DEF Given, g, f, D
<1>2. /\ DOMAIN g = D \cup {p} /\ g \in [D \cup {p} -> Nat] /\ g[p] = pct
      /\ \A q \in D : g[q] = f[q]
    <2>1. f \in [D -> Nat] /\ p \notin D
        BY DEF Shared, f, D
    <2> QED BY <2>1 DEF g
<1>3. IsFiniteSet(D) /\ IsFiniteSet(D \cup {p}) /\ D \cup {p} \subseteq PaPools
    BY PoolsFinite DEF Shared, D
<1>4. f \in [D -> Nat] /\ done.left \in Nat /\ SumOver(f, D) + done.left = All
    BY TotalIs DEF Shared, f, D
<1>5. Total(g) = SumOver(g, D \cup {p})
    BY <1>2, TotalIs
<1>6. SumOver(g, D \cup {p}) = pct + SumOver(g, (D \cup {p}) \ {p})
    BY <1>2, <1>3, SumSplits
<1>7. (D \cup {p}) \ {p} = D
    BY DEF D
<1>8. SumOver(g, D) = SumOver(f, D)
    BY <1>2, <1>3, SumAgrees
<1>9. SumOver(f, D) \in Nat
    BY <1>3, <1>4, SumSplits
<1>10. Total(g) + (done.left - pct) = All /\ done.left - pct \in Nat
    <2>1. Total(g) = pct + SumOver(f, D)
        BY <1>5, <1>6, <1>7, <1>8
    <2> DEFINE total == Total(g)  sum == SumOver(f, D)  left == done.left
    <2>2. total = pct + sum /\ sum + left = All /\ sum \in Nat /\ left \in Nat /\ pct <= left
        BY <1>4, <1>9, <2>1
    <2> HIDE DEF total, sum, left
    <2>3. total + (left - pct) = All /\ left - pct \in Nat
        BY <2>2
    <2> QED BY <2>3 DEF total, left
<1> QED BY <1>1, <1>2, <1>3, <1>10 DEF Shared, D

\* So does a step of the recommendation.
LEMMA TakeShares ==
    ASSUME paTable \in PaTables, NEW done, Shared(done),
           NEW p \in DOMAIN paTable, p \notin DOMAIN done.shares
    PROVE  /\ Shared(PaTake(done, p))
           /\ DOMAIN PaTake(done, p).shares \subseteq DOMAIN done.shares \cup {p}
<1> DEFINE pct == Least(Base(done, p), done.left)
<1>1. p \in PaPools /\ Base(done, p) \in Nat
    <2>1. Composite(p) \in Nat /\ p \in PaPools
        BY Figures
    <2> DEFINE full == Least(24000, 30 * Composite(p))
               once == IF PaProtocol[p] \in done.protocols THEN full \div 2 ELSE full
    <2>2. Base(done, p) = IF PaChain[p] \in done.chains THEN (once * 4) \div 5 ELSE once
        BY DEF Base
    <2>3. full \in Nat
        BY <2>1 DEF Least
    <2>4. once \in Nat
        <3> HIDE DEF full
        <3> QED BY <2>3
    <2> HIDE DEF once
    <2> QED BY <2>1, <2>2, <2>4
<1>2. pct \in Nat /\ pct <= done.left
    BY <1>1 DEF Least, Shared
<1>3. PaTake(done, p) = done \/ PaTake(done, p) = Given(done, p, pct)
    BY DEF PaTake
<1> HIDE DEF pct
<1> QED BY <1>1, <1>2, <1>3, GivenShared

\* The table of the steps that FoldLeft builds: what is recommended after the
\* ranks of each set.
IsRun(top, run, S) ==
    run = [u \in SUBSET S |-> IF u = {} THEN NothingYet ELSE PaTake(run[u \ {Max(u)}], top[Max(u)])]

\* The fold is the last entry of the table.
LEMMA FoldIs ==
    ASSUME NEW top
    PROVE  FoldLeft(PaTake, NothingYet, top) = (CHOOSE run : IsRun(top, run, DOMAIN top))[DOMAIN top]
    BY DEF FoldLeft, MapThenFoldSet, IsRun

\* Sets of ranks are finite, and without the last rank they are smaller.
AreRanks(S) == \E n \in Nat : S \subseteq 1 .. n
LEMMA WithoutLast ==
    ASSUME NEW S, AreRanks(S), NEW u \in SUBSET S
    PROVE  /\ AreRanks(u) /\ IsFiniteSet(u) /\ Cardinality(u) \in Nat
           /\ u # {} => /\ Max(u) \in u /\ u \ {Max(u)} \in SUBSET S
                        /\ Cardinality(u \ {Max(u)}) \in Nat
                        /\ Cardinality(u \ {Max(u)}) < Cardinality(u)
<1>0. PICK n \in Nat : u \in SUBSET (1 .. n)
    BY DEF AreRanks
<1>1. IsFiniteSet(u) /\ Cardinality(u) \in Nat
    <2>1. IsFiniteSet(1 .. n)
        BY FS_Interval
    <2>2. IsFiniteSet(u)
        BY <1>0, <2>1, FS_Subset
    <2> QED BY <2>2, FS_CardinalityType
<1>2. ASSUME u # {} PROVE /\ Max(u) \in u /\ u \ {Max(u)} \in SUBSET S
                          /\ Cardinality(u \ {Max(u)}) \in Nat
                          /\ Cardinality(u \ {Max(u)}) < Cardinality(u)
    <2>1. Max(u) \in u
        BY <1>0, <1>2, MaxIsGreatest
    <2>2. IsFiniteSet(u \ {Max(u)}) /\ Cardinality(u \ {Max(u)}) = Cardinality(u) - 1
        BY <1>1, <2>1, FS_RemoveElement
    <2>3. Cardinality(u \ {Max(u)}) \in Nat
        BY <2>2, FS_CardinalityType
    <2>4. Cardinality(u \ {Max(u)}) < Cardinality(u)
        BY <1>1, <2>2
    <2>5. u \ {Max(u)} \in SUBSET S
        OBVIOUS
    <2> QED BY <2>1, <2>3, <2>4, <2>5
<1>3. AreRanks(u)
    BY <1>0 DEF AreRanks
<1> QED BY <1>1, <1>2, <1>3

\* Two tables agree where both are defined.
LEMMA RunsAgree ==
    ASSUME NEW top, NEW g, NEW h, NEW S, NEW T, IsRun(top, g, S), IsRun(top, h, T),
           NEW u, AreRanks(S), u \subseteq S, u \subseteq T
    PROVE  g[u] = h[u]
<1> DEFINE Bad == {m \in Nat : \E v \in SUBSET (S \intersect T) : Cardinality(v) = m /\ g[v] # h[v]}
<1>1. Bad = {}
    <2> SUFFICES ASSUME Bad # {} PROVE FALSE OBVIOUS
    <2>1. PICK m \in Bad : \A k \in Bad : m <= k
        BY LeastNumber
    <2>2. PICK v \in SUBSET (S \intersect T) : Cardinality(v) = m /\ g[v] # h[v]
        BY <2>1
    <2>3. v # {}
        BY <2>2 DEF IsRun
    <2> DEFINE w == v \ {Max(v)}
    <2>4. w \in SUBSET (S \intersect T) /\ Cardinality(w) \in Nat /\ Cardinality(w) < m
        BY <2>2, <2>3, WithoutLast
    <2>5. g[w] = h[w]
        BY <2>1, <2>4
    <2>6. g[v] = PaTake(g[w], top[Max(v)]) /\ h[v] = PaTake(h[w], top[Max(v)])
        BY <2>2, <2>3 DEF IsRun
    <2> QED BY <2>2, <2>5, <2>6
<1>2. Cardinality(u) \in Nat
    BY WithoutLast
<1> QED BY <1>1, <1>2

\* The table exists.
LEMMA RunExists ==
    ASSUME NEW top, NEW S, AreRanks(S)
    PROVE  \E run : IsRun(top, run, S)
<1> DEFINE Bad == {m \in Nat : \E v \in SUBSET S : Cardinality(v) = m /\ ~\E run : IsRun(top, run, v)}
<1>1. Bad = {}
    <2> SUFFICES ASSUME Bad # {} PROVE FALSE OBVIOUS
    <2>1. PICK m \in Bad : \A k \in Bad : m <= k
        BY LeastNumber
    <2>2. PICK v \in SUBSET S : Cardinality(v) = m /\ ~\E run : IsRun(top, run, v)
        BY <2>1
    <2> DEFINE it(w) == CHOOSE run : IsRun(top, run, w)
               Less(w) == w \ {Max(w)}
               G == [u \in SUBSET v |-> IF u = {} THEN NothingYet
                                        ELSE PaTake(it(Less(u))[Less(u)], top[Max(u)])]
    <2>3. ASSUME NEW u \in SUBSET v, u # {} PROVE IsRun(top, it(Less(u)), Less(u))
        <3>1. IsFiniteSet(v) /\ Cardinality(v) \in Nat
            BY WithoutLast
        <3>2. Cardinality(u) <= Cardinality(v)
            BY <3>1, FS_Subset
        <3>3. /\ Cardinality(Less(u)) \in Nat /\ Cardinality(Less(u)) < Cardinality(u)
              /\ Less(u) \in SUBSET S /\ Cardinality(u) \in Nat
            BY <2>3, WithoutLast
        <3>4. Cardinality(Less(u)) < m /\ m \in Nat BY <3>1, <3>2, <3>3, <2>2
        <3>5. ~ (Cardinality(Less(u)) \in Bad)
            <4> HIDE DEF Bad
            <4> QED BY <2>1, <3>4, <3>3
        <3>6. \E run : IsRun(top, run, Less(u)) BY <3>3, <3>5
        <3> HIDE DEF Less
        <3> QED BY <3>6
    <2>4. ASSUME NEW u \in SUBSET v PROVE u # {} => G[Less(u)] = it(Less(u))[Less(u)]
        <3> SUFFICES ASSUME u # {} PROVE G[Less(u)] = it(Less(u))[Less(u)] OBVIOUS
        <3> DEFINE w == Less(u)
        <3>1. w \in SUBSET v OBVIOUS
        <3>2. IsRun(top, it(w), w) BY <2>3
        <3>3. CASE w = {}
            <4>1. G[w] = NothingYet BY <3>1, <3>3
            <4>2. it(w)[w] = NothingYet
                <5> HIDE DEF it, w
                <5> QED BY <3>2, <3>3 DEF IsRun
            <4> QED BY <4>1, <4>2
        <3>4. CASE w # {}
            <4>1. IsRun(top, it(Less(w)), Less(w)) BY <3>1, <3>4, <2>3
            <4>2. G[w] = PaTake(it(Less(w))[Less(w)], top[Max(w)]) BY <3>1, <3>4
            <4>3. it(w)[w] = PaTake(it(w)[Less(w)], top[Max(w)])
                <5> HIDE DEF it, w
                <5> QED BY <3>2, <3>4 DEF IsRun
            <4>4. it(w)[Less(w)] = it(Less(w))[Less(w)]
                <5>1. AreRanks(w) /\ Less(w) \subseteq w
                    BY WithoutLast
                <5> HIDE DEF it
                <5> QED BY <5>1, <4>1, <3>2, RunsAgree
            <4> QED BY <4>2, <4>3, <4>4
        <3> QED BY <3>3, <3>4
    <2>5. IsRun(top, G, v)
        <3>1. \A u \in SUBSET v : G[u] = IF u = {} THEN NothingYet
                                         ELSE PaTake(G[Less(u)], top[Max(u)])
            <4> SUFFICES ASSUME NEW u \in SUBSET v
                         PROVE G[u] = IF u = {} THEN NothingYet ELSE PaTake(G[Less(u)], top[Max(u)])
                OBVIOUS
            <4>1. G[u] = IF u = {} THEN NothingYet ELSE PaTake(it(Less(u))[Less(u)], top[Max(u)]) OBVIOUS
            <4> HIDE DEF G, it
            <4> QED BY <2>4, <4>1
        <3>2. G = [u \in SUBSET v |-> G[u]] OBVIOUS
        <3> HIDE DEF G, it
        <3> QED BY <3>1, <3>2 DEF IsRun
    <2> QED BY <2>2, <2>5
<1>2. Cardinality(S) \in Nat
    BY WithoutLast
<1> QED BY <1>1, <1>2

\* A recommendation fits the capital, and is of the pools it was asked for.
LEMMA RecommendedFits ==
    ASSUME paTable \in PaTables, NEW n \in Nat, NEW top \in [1 .. n -> DOMAIN paTable],
           \A i, j \in 1 .. n : top[i] = top[j] => i = j
    PROVE  InCapital(Recommended(top)) /\ DOMAIN Recommended(top) \subseteq {top[i] : i \in 1 .. n}
<1> DEFINE run == CHOOSE g : IsRun(top, g, 1 .. n)
           Good(u) == /\ Shared(run[u])
                      /\ DOMAIN run[u].shares \subseteq {top[i] : i \in u}
           Bad == {m \in Nat : \E u \in SUBSET (1 .. n) : Cardinality(u) = m /\ ~Good(u)}
<1>0. AreRanks(1 .. n)
    BY DEF AreRanks
<1>1. IsRun(top, run, 1 .. n)
    <2>1. \E g : IsRun(top, g, 1 .. n)
        BY <1>0, RunExists
    <2> QED BY <2>1
<1>2. Recommended(top) = run[1 .. n].shares
    <2>1. DOMAIN top = 1 .. n
        OBVIOUS
    <2>2. FoldLeft(PaTake, NothingYet, top) = run[1 .. n]
        BY <2>1, FoldIs
    <2> QED BY <2>2 DEF Recommended
<1> HIDE DEF run
<1>3. Bad = {}
    <2> SUFFICES ASSUME Bad # {} PROVE FALSE OBVIOUS
    <2>1. PICK m \in Bad : \A k \in Bad : m <= k
        BY LeastNumber
    <2>2. PICK u \in SUBSET (1 .. n) : Cardinality(u) = m /\ ~Good(u)
        BY <2>1
    <2>3. CASE u = {}
        <3>1. run[u] = NothingYet
            BY <1>1, <2>3 DEF IsRun
        <3>2. NothingYet.shares = NoShares /\ NothingYet.left = All
            BY DEF NothingYet
        <3>3. Shared(run[u]) /\ DOMAIN run[u].shares = {}
            BY <3>1, <3>2, NoneFits DEF Shared, InCapital, NoShares
        <3> QED BY <2>2, <3>3
    <2>4. CASE u # {}
        <3> DEFINE last == Max(u)  w == u \ {last}
        <3>1. last \in u /\ w \in SUBSET (1 .. n) /\ Cardinality(w) \in Nat /\ Cardinality(w) < m
            BY <1>0, <2>2, <2>4, WithoutLast
        <3>2. Good(w)
            <4>1. ~(Cardinality(w) \in Bad)
                <5>1. m \in Nat OBVIOUS
                <5> HIDE DEF Bad
                <5> QED BY <5>1, <2>1, <3>1
            <4> QED BY <3>1, <4>1
        <3>3. run[u] = PaTake(run[w], top[last])
            BY <1>1, <2>4 DEF IsRun
        <3>4. top[last] \in DOMAIN paTable /\ top[last] \notin {top[i] : i \in w}
            <4>1. last \in 1 .. n /\ last \notin w
                BY <3>1
            <4> HIDE DEF last, w
            <4> QED BY <3>1, <4>1
        <3> HIDE DEF last, w
        <3>5. /\ Shared(run[u])
              /\ DOMAIN run[u].shares \subseteq DOMAIN run[w].shares \cup {top[last]}
            BY <3>2, <3>3, <3>4, TakeShares
        <3>6. {top[i] : i \in w} \subseteq {top[i] : i \in u} /\ top[last] \in {top[i] : i \in u}
            <4>1. w \subseteq u /\ last \in u
                BY <3>1 DEF w
            <4> QED BY <4>1
        <3>7. DOMAIN run[w].shares \subseteq {top[i] : i \in w}
            BY <3>2
        <3> DEFINE dw == DOMAIN run[w].shares  du == DOMAIN run[u].shares  tw == {top[i] : i \in w}
                   tu == {top[i] : i \in u}
        <3>8. du \subseteq tu
            <4>1. du \subseteq dw \cup {top[last]} /\ dw \subseteq tw /\ tw \subseteq tu /\ top[last] \in tu
                BY <3>5, <3>6, <3>7
            <4> HIDE DEF dw, du, tw, tu
            <4> QED BY <4>1
        <3> QED BY <2>2, <3>5, <3>8
    <2> QED BY <2>3, <2>4
<1>4. Good(1 .. n)
    <2>1. Cardinality(1 .. n) \in Nat
        BY FS_Interval, FS_CardinalityType
    <2> QED BY <1>3, <2>1
<1>5. InCapital(run[1 .. n].shares)
    <2> DEFINE total == Total(run[1 .. n].shares)  left == run[1 .. n].left
    <2>1. total + left = All /\ left \in Nat /\ total \in Nat
        <3>1. total \in Nat
            <4>1. IsFiniteSet(DOMAIN run[1 .. n].shares)
                BY <1>4, PoolsFinite DEF Shared
            <4> QED BY <1>4, <4>1, TotalIs, SumSplits DEF Shared
        <3> QED BY <1>4, <3>1 DEF Shared
    <2> HIDE DEF total, left
    <2>2. total <= All
        BY <2>1
    <2> QED BY <1>4, <2>2 DEF Shared, InCapital, total
<1> QED BY <1>2, <1>4, <1>5

\* Of three ranks each is one's at most, so that the sum of what they give is
\* that of three numbers at most.
LEMMA ThreeRanks ==
    ASSUME NEW R, IsFiniteSet(R), NEW f \in [R -> Nat], NEW rank \in [R -> 1 .. 3],
           \A p, q \in R : rank[p] = rank[q] => p = q,
           NEW pct \in [1 .. 3 -> Nat], \A p \in R : f[p] = pct[rank[p]]
    PROVE  SumOver(f, R) <= pct[1] + pct[2] + pct[3]
<1> DEFINE a == pct[1]  b == pct[2]  c == pct[3]
<1>0. a \in Nat /\ b \in Nat /\ c \in Nat
    OBVIOUS
<1> HIDE DEF a, b, c
<1> DEFINE T1 == {p \in R : rank[p] = 1}  R1 == R \ T1
           T2 == {p \in R : rank[p] = 2}  R2 == R1 \ T2
           T3 == {p \in R : rank[p] = 3}  R3 == R2 \ T3
<1> HIDE DEF T1, T2, T3, R1, R2, R3
<1>1. SumOver(f, R) \in Nat /\ SumOver(f, R1) \in Nat /\ SumOver(f, R) <= a + SumOver(f, R1)
    <2>1. T1 \in SUBSET R /\ (\A x, y \in T1 : x = y) /\ \A x \in T1 : f[x] <= a
        <3>1. \A x \in T1 : f[x] \in Nat /\ f[x] = a
            BY DEF T1, a
        <3> QED BY <1>0, <3>1 DEF T1
    <2> QED BY <1>0, <2>1, SumOfOne DEF R1
<1>2. R1 \in SUBSET R /\ IsFiniteSet(R1)
    BY FS_Subset DEF R1
<1>3. SumOver(f, R2) \in Nat /\ SumOver(f, R1) <= b + SumOver(f, R2)
    <2>1. T2 \in SUBSET R1 /\ (\A x, y \in T2 : x = y) /\ \A x \in T2 : f[x] <= b
        <3>1. \A x \in T2 : f[x] \in Nat /\ f[x] = b
            BY DEF T2, b
        <3> QED BY <1>0, <3>1 DEF T1, T2, R1
    <2> QED BY <1>0, <1>2, <2>1, SumOfOne DEF R2
<1>4. R2 \in SUBSET R /\ IsFiniteSet(R2)
    BY <1>2, FS_Subset DEF R2
<1>5. SumOver(f, R2) <= c + SumOver(f, R3)
    <2>1. T3 \in SUBSET R2 /\ (\A x, y \in T3 : x = y) /\ \A x \in T3 : f[x] <= c
        <3>1. \A x \in T3 : f[x] \in Nat /\ f[x] = c
            BY DEF T3, c
        <3> QED BY <1>0, <3>1 DEF T1, T2, T3, R1, R2
    <2> QED BY <1>0, <1>4, <2>1, SumOfOne DEF R3
<1>6. R3 = {}
    <2>1. ASSUME NEW p \in R3 PROVE FALSE
        <3>1. rank[p] \in 1 .. 3 /\ rank[p] # 1 /\ rank[p] # 2 /\ rank[p] # 3
            BY DEF R1, R2, R3, T1, T2, T3
        <3> QED BY <3>1
    <2> QED BY <2>1
<1>7. SumOver(f, {}) = 0
    BY SumIter, FS_EmptySet
<1> DEFINE s0 == SumOver(f, R)  s1 == SumOver(f, R1)  s2 == SumOver(f, R2)
<1>8. /\ s0 \in Nat /\ s1 \in Nat /\ s2 \in Nat
      /\ s0 <= a + s1 /\ s1 <= b + s2 /\ s2 <= c + 0
    BY <1>1, <1>3, <1>5, <1>6, <1>7
<1> HIDE DEF s0, s1, s2
<1>9. s0 <= a + b + c
    BY <1>0, <1>8
<1> QED BY <1>9 DEF s0, a, b, c

\* The ranks of a strict order have one pool each: three shares that fit the
\* capital together fit it on the first three of the pools.
LEMMA RestackedFits ==
    ASSUME NEW given, DOMAIN given \subseteq PaPools,
           NEW before \in SUBSET ((DOMAIN given) \X (DOMAIN given)),
           \A p, q \in DOMAIN given : p # q => <<p, q>> \in before \/ <<q, p>> \in before,
           \A p \in DOMAIN given : <<p, p>> \notin before,
           \A p, q, r \in DOMAIN given : <<p, q>> \in before /\ <<q, r>> \in before => <<p, r>> \in before,
           NEW a \in Nat, NEW b \in Nat, NEW c \in Nat, a + b + c <= All
    PROVE  InCapital(Restacked(given, before, <<a, b, c>>))
<1> DEFINE D == DOMAIN given
           ahead(p) == {q \in D : <<q, p>> \in before}
           rank(p) == 1 + Cardinality(ahead(p))
           R == {q \in D : rank(q) <= 3}
           pcts == <<a, b, c>>
           f == [p \in R |-> pcts[rank(p)]]
<1>1. Restacked(given, before, <<a, b, c>>) = f
    BY DEF Restacked
<1>2. ASSUME NEW p \in D PROVE IsFiniteSet(ahead(p)) /\ Cardinality(ahead(p)) \in Nat /\ rank(p) \in Nat \ {0}
    <2>0. ahead(p) \in SUBSET PaPools
        OBVIOUS
    <2>1. IsFiniteSet(ahead(p)) /\ Cardinality(ahead(p)) \in Nat
        <3> HIDE DEF ahead
        <3> QED BY <2>0, PoolsFinite
    <2> HIDE DEF ahead
    <2> QED BY <2>1
<1>3. ASSUME NEW p \in D, NEW q \in D, <<p, q>> \in before PROVE rank(p) < rank(q)
    <2>1. ahead(p) \subseteq ahead(q) /\ p \in ahead(q) /\ p \notin ahead(p)
        BY <1>3
    <2>2. IsFiniteSet(ahead(p)) /\ IsFiniteSet(ahead(q))
          /\ Cardinality(ahead(p)) \in Nat /\ Cardinality(ahead(q)) \in Nat
        BY <1>2
    <2> HIDE DEF ahead
    <2>3. Cardinality(ahead(p)) + 1 <= Cardinality(ahead(q))
        BY <2>1, <2>2, FewerWithout
    <2> QED BY <2>2, <2>3
<1>4. ASSUME NEW p \in D, NEW q \in D, rank(p) = rank(q) PROVE p = q
    <2> SUFFICES ASSUME p # q PROVE FALSE
        OBVIOUS
    <2>1. rank(p) < rank(q) \/ rank(q) < rank(p)
        <3>1. CASE <<p, q>> \in before
            <4>1. rank(p) < rank(q)
                BY <1>3, <3>1
            <4> QED BY <4>1
        <3>2. CASE <<q, p>> \in before
            <4>1. rank(q) < rank(p)
                BY <1>3, <3>2
            <4> QED BY <4>1
        <3> QED BY <3>1, <3>2
    <2>2. rank(p) \in Nat /\ rank(q) \in Nat
        <3>1. \A r \in D : rank(r) \in Nat
            <4> HIDE DEF rank, ahead
            <4> QED BY <1>2
        <3> QED BY <3>1
    <2> HIDE DEF rank, ahead
    <2> QED BY <1>4, <2>1, <2>2
<1>5. \A p \in R : rank(p) \in 1 .. 3
    <2> SUFFICES ASSUME NEW p \in R PROVE rank(p) \in 1 .. 3
        OBVIOUS
    <2>1. rank(p) \in Nat \ {0} /\ rank(p) <= 3
        BY <1>2
    <2> HIDE DEF rank
    <2> QED BY <2>1
<1>6. R \subseteq D /\ IsFiniteSet(R) /\ R \subseteq PaPools
    <2>1. R \subseteq D /\ R \in SUBSET PaPools
        OBVIOUS
    <2> HIDE DEF R
    <2> QED BY <2>1, PoolsFinite
<1>7. \A p \in R : f[p] = pcts[rank(p)]
    OBVIOUS
<1>8. \A p, q \in R : rank(p) = rank(q) => p = q
    BY <1>4, <1>6
<1>9. f = [p \in R |-> f[p]]
    OBVIOUS
<1> HIDE DEF rank, R, f
<1>10. f \in [R -> Nat]
    <2>1. \A i \in 1 .. 3 : pcts[i] \in Nat
        OBVIOUS
    <2>2. \A p \in R : f[p] \in Nat
        <3> HIDE DEF pcts
        <3> QED BY <1>5, <1>7, <2>1
    <2> QED BY <1>9, <2>2
<1> DEFINE place == [p \in R |-> rank(p)]
<1>11. place \in [R -> 1 .. 3]
    BY <1>5
<1>12. \A p, q \in R : place[p] = place[q] => p = q
    BY <1>8
<1>13. (\A p \in R : f[p] = pcts[place[p]]) /\ pcts \in [1 .. 3 -> Nat]
    BY <1>7
<1>14. pcts[1] = a /\ pcts[2] = b /\ pcts[3] = c
    OBVIOUS
<1> HIDE DEF place, pcts
<1>15. SumOver(f, R) <= All
    <2>1. SumOver(f, R) \in Nat
        <3>1. R \in SUBSET R OBVIOUS
        <3> QED BY <1>6, <1>10, <3>1, SumSplits
    <2>2. SumOver(f, R) <= pcts[1] + pcts[2] + pcts[3]
        BY <1>6, <1>10, <1>11, <1>12, <1>13, ThreeRanks
    <2> DEFINE sum == SumOver(f, R)
    <2>3. sum \in Nat /\ sum <= a + b + c
        BY <1>14, <2>1, <2>2
    <2> HIDE DEF sum
    <2>4. sum <= All
        BY <2>3
    <2> QED BY <2>4 DEF sum
<1>16. DOMAIN f = R
    BY <1>10
<1>17. Total(f) <= All
    BY <1>15, <1>16, TotalIs
<1> QED BY <1>1, <1>6, <1>10, <1>16, <1>17 DEF InCapital

\* What the rankings of get_top_pools are: each pool of the table once at most.
LEMMA Ranking ==
    ASSUME paTable \in PaTables, NEW limit, NEW top \in TopPools(limit)
    PROVE  \E n \in Nat : /\ top \in [1 .. n -> DOMAIN paTable]
                          /\ \A i, j \in 1 .. n : top[i] = top[j] => i = j
<1> DEFINE pools == {p \in DOMAIN paTable : paTable[p].tvl >= 6 /\ Risk(p) <= limit}
           n == Cardinality(pools)
<1>1. n \in Nat
    <2>1. pools \in SUBSET PaPools
        BY DEF PaTables
    <2> HIDE DEF pools
    <2> QED BY <2>1, PoolsFinite
<1>2. top \in SetToSeqs(pools)
    BY DEF TopPools
<1>3. pools \subseteq DOMAIN paTable
    OBVIOUS
<1> HIDE DEF pools
<1>4. top \in [1 .. n -> pools] /\ \A i, j \in 1 .. n : top[i] = top[j] => i = j
    BY <1>2 DEF SetToSeqs
<1>5. top \in [1 .. n -> DOMAIN paTable]
    BY <1>3, <1>4
<1> HIDE DEF n
<1> QED BY <1>1, <1>4, <1>5

\* The pools of a ranking are in one order.
LEMMA AheadOrders ==
    ASSUME NEW n \in Nat, NEW top, DOMAIN top = 1 .. n,
           \A i, j \in 1 .. n : top[i] = top[j] => i = j,
           NEW S, S \subseteq {top[i] : i \in 1 .. n}
    PROVE  /\ \A p, q \in S : p # q => Ahead(top, p, q) \/ Ahead(top, q, p)
           /\ \A p \in S : ~Ahead(top, p, p)
           /\ \A p, q, r \in S : Ahead(top, p, q) /\ Ahead(top, q, r) => Ahead(top, p, r)
<1>1. ASSUME NEW p \in S, NEW q \in S, p # q PROVE Ahead(top, p, q) \/ Ahead(top, q, p)
    <2>1. PICK i \in 1 .. n, j \in 1 .. n : top[i] = p /\ top[j] = q
        BY <1>1
    <2>2. i < j \/ j < i
        BY <1>1, <2>1
    <2> QED BY <2>1, <2>2 DEF Ahead
<1>2. ASSUME NEW p \in S, Ahead(top, p, p) PROVE FALSE
    <2>1. PICK i \in 1 .. n, j \in 1 .. n : i < j /\ top[i] = p /\ top[j] = p
        BY <1>2 DEF Ahead
    <2> QED BY <2>1
<1>3. ASSUME NEW p \in S, NEW q \in S, NEW r \in S, Ahead(top, p, q), Ahead(top, q, r)
      PROVE  Ahead(top, p, r)
    <2>1. PICK i \in 1 .. n, j \in 1 .. n : i < j /\ top[i] = p /\ top[j] = q
        BY <1>3 DEF Ahead
    <2>2. PICK k \in 1 .. n, l \in 1 .. n : k < l /\ top[k] = q /\ top[l] = r
        BY <1>3 DEF Ahead
    <2>3. i < l
        BY <2>1, <2>2
    <2> QED BY <2>1, <2>2, <2>3 DEF Ahead
<1> QED BY <1>1, <1>2, <1>3

\* The first three by yield fit,
LEMMA YieldFits ==
    ASSUME paTable \in PaTables, NEW n \in Nat, NEW top \in [1 .. n -> DOMAIN paTable],
           \A i, j \in 1 .. n : top[i] = top[j] => i = j,
           NEW given, DOMAIN given \subseteq {top[i] : i \in 1 .. n}
    PROVE  InCapital(ForYield(top, given))
<1> DEFINE D == DOMAIN given
           apy(p) == paTable[p].apy
           before == {pair \in D \X D :
                        \/ apy(pair[1]) > apy(pair[2])
                        \/ apy(pair[1]) = apy(pair[2]) /\ Ahead(top, pair[1], pair[2])}
<1>0. ForYield(top, given) = Restacked(given, before, <<30000, 15000, 3750>>)
    BY DEF ForYield
<1>1. D \subseteq DOMAIN paTable /\ D \subseteq {top[i] : i \in 1 .. n}
    OBVIOUS
<1>2. D \subseteq PaPools /\ \A p \in D : apy(p) \in Nat
    BY <1>1, Figures
<1>3. /\ \A p, q \in D : p # q => Ahead(top, p, q) \/ Ahead(top, q, p)
      /\ \A p \in D : ~Ahead(top, p, p)
      /\ \A p, q, r \in D : Ahead(top, p, q) /\ Ahead(top, q, r) => Ahead(top, p, r)
    BY <1>1, AheadOrders
<1>4. \A p, q \in D : <<p, q>> \in before <=>
          apy(p) > apy(q) \/ (apy(p) = apy(q) /\ Ahead(top, p, q))
    OBVIOUS
<1>5. before \in SUBSET (D \X D)
    OBVIOUS
<1> HIDE DEF D, apy, before
<1>6. \A p, q \in D : p # q => <<p, q>> \in before \/ <<q, p>> \in before
    BY <1>2, <1>3, <1>4
<1>7. \A p \in D : <<p, p>> \notin before
    BY <1>2, <1>3, <1>4
<1>8. \A p, q, r \in D : <<p, q>> \in before /\ <<q, r>> \in before => <<p, r>> \in before
    BY <1>2, <1>3, <1>4
<1>9. InCapital(Restacked(given, before, <<30000, 15000, 3750>>))
    BY <1>2, <1>5, <1>6, <1>7, <1>8, RestackedFits DEF D
<1> QED BY <1>0, <1>9

\* by efficiency, when no two have the same,
LEMMA GasFits ==
    ASSUME paTable \in PaTables, NEW given, DOMAIN given \subseteq DOMAIN paTable, ~Unsortable(given)
    PROVE  InCapital(ForGas(given))
<1> DEFINE D == DOMAIN given
           before == {pair \in D \X D : Efficiency(pair[1]) > Efficiency(pair[2])}
<1>0. ForGas(given) = Restacked(given, before, <<20000, 20000, 20000>>)
    BY DEF ForGas
<1>1. D \subseteq PaPools
    BY DEF PaTables
<1>2. ASSUME NEW p \in D PROVE Efficiency(p) \in Nat
    <2>1. paTable[p].apy \in Nat
        BY Figures
    <2>2. ChainCost(p) \in Nat \ {0}
        BY DEF ChainCost
    <2> DEFINE apy == paTable[p].apy  cost == ChainCost(p)
    <2>3. apy \in Nat /\ cost \in Nat \ {0}
        BY <2>1, <2>2
    <2> HIDE DEF apy, cost
    <2>4. (apy * 30) \div cost \in Nat
        BY <2>3
    <2> QED BY <2>4 DEF Efficiency, apy, cost
<1>3. \A p, q \in D : p # q => Efficiency(p) # Efficiency(q)
    BY DEF Unsortable
<1>4. \A p, q \in D : <<p, q>> \in before <=> Efficiency(p) > Efficiency(q)
    OBVIOUS
<1>5. before \in SUBSET (D \X D)
    OBVIOUS
<1> HIDE DEF D, before
<1>6. \A p, q \in D : p # q => <<p, q>> \in before \/ <<q, p>> \in before
    BY <1>2, <1>3, <1>4
<1>7. \A p \in D : <<p, p>> \notin before
    BY <1>2, <1>4
<1>8. \A p, q, r \in D : <<p, q>> \in before /\ <<q, r>> \in before => <<p, r>> \in before
    BY <1>2, <1>4
<1>9. InCapital(Restacked(given, before, <<20000, 20000, 20000>>))
    BY <1>1, <1>5, <1>6, <1>7, <1>8, RestackedFits DEF D
<1> QED BY <1>0, <1>9

\* and the pools that are safe.
LEMMA SafetyFits ==
    ASSUME NEW given, DOMAIN given \subseteq PaPools
    PROVE  /\ DOMAIN ForSafety(given) \subseteq PaPools
           /\ ForSafety(given) \in [DOMAIN ForSafety(given) -> Nat]
           /\ Total(ForSafety(given)) <= Cardinality(DOMAIN ForSafety(given))
<1> DEFINE below(limit) == {p \in DOMAIN given : Risk(p) < limit}
           safe == IF below(300) # {} THEN below(300) ELSE below(600)
           f == [p \in safe |-> 1]
<1>1. ForSafety(given) = f
    BY DEF ForSafety
<1>2. safe \in SUBSET PaPools
    OBVIOUS
<1> HIDE DEF below, safe
<1>3. IsFiniteSet(safe) /\ Cardinality(safe) \in Nat
    BY <1>2, PoolsFinite
<1>4. f \in [safe -> Nat] /\ DOMAIN f = safe /\ \A p \in safe : f[p] <= 1
    OBVIOUS
<1> HIDE DEF f
<1>5. SumOver(f, safe) <= 1 * Cardinality(safe)
    BY <1>3, <1>4, SumOfMany
<1>6. Total(f) <= Cardinality(safe)
    BY <1>3, <1>4, <1>5, TotalIs
<1> QED BY <1>1, <1>2, <1>4, <1>6

\* The amounts of parts that fit the whole are afforded.
LEMMA AmountsFit ==
    ASSUME NEW parts, DOMAIN parts \subseteq PaPools, parts \in [DOMAIN parts -> Nat],
           NEW whole \in Nat, Total(parts) <= whole, whole # 0 \/ DOMAIN parts = {},
           NEW capital \in Nat
    PROVE  /\ DOMAIN Amounts(parts, whole, capital) = DOMAIN parts
           /\ Afforded(Amounts(parts, whole, capital), capital)
<1> DEFINE D == DOMAIN parts
           g == [p \in D |-> Rounded(capital * parts[p], whole)]
<1>0. Amounts(parts, whole, capital) = g
    BY DEF Amounts
<1>1. IsFiniteSet(D) /\ D \in SUBSET D /\ D \subseteq PaPools /\ Cardinality(D) \in Nat
    BY PoolsFinite
<1>2. parts \in [D -> Nat] /\ SumOver(parts, D) <= whole
    BY TotalIs
<1>3. whole # 0 \/ D = {}
    OBVIOUS
<1> HIDE DEF D
<1>4. ASSUME NEW p \in D
      PROVE  /\ Rounded(capital * parts[p], whole) \in Nat
             /\ (2 * whole) * Rounded(capital * parts[p], whole) <= (2 * capital) * parts[p] + whole
    <2> DEFINE a == capital * parts[p]  half == whole \div 2  q == (a + half) \div whole
    <2>1. whole \in Nat \ {0} /\ parts[p] \in Nat
        BY <1>2, <1>3
    <2>2. a \in Nat /\ 2 * a = (2 * capital) * parts[p]
        BY <2>1
    <2>3. half \in Nat /\ 2 * half <= whole
        BY <2>1
    <2>4. Rounded(a, whole) = q
        BY DEF Rounded
    <2> HIDE DEF a, half
    <2>5. q \in Nat /\ whole * q <= a + half
        <3> DEFINE b == a + half
        <3>1. b \in Nat
            BY <2>2, <2>3
        <3> HIDE DEF b
        <3>2. b \div whole \in Nat /\ whole * (b \div whole) <= b
            BY <2>1, <3>1
        <3> QED BY <3>2 DEF b
    <2> HIDE DEF q
    <2>6. (2 * whole) * q = 2 * (whole * q) /\ whole * q \in Nat
        BY <2>1, <2>5
    <2>7. (2 * whole) * q <= 2 * a + whole
        BY <2>1, <2>2, <2>3, <2>5, <2>6
    <2> QED BY <2>2, <2>4, <2>5, <2>7 DEF a
<1>5. g \in [D -> Nat] /\ DOMAIN g = D
      /\ \A p \in D : (2 * whole) * g[p] <= (2 * capital) * parts[p] + whole
    BY <1>4
<1> HIDE DEF g
<1> DEFINE s == SumOver(g, D)  t == SumOver(parts, D)  n == Cardinality(D)
<1>6. (2 * whole) * s <= (2 * capital) * t + whole * n
    <2> DEFINE d == 2 * whole  k == 2 * capital
    <2>1. d \in Nat /\ k \in Nat /\ \A p \in D : d * g[p] <= k * parts[p] + whole
        BY <1>5
    <2> HIDE DEF d, k
    <2>2. d * SumOver(g, D) <= k * SumOver(parts, D) + whole * Cardinality(D)
        BY <1>1, <1>2, <1>5, <2>1, SumRounded
    <2> QED BY <2>2 DEF d, k
<1>7. s \in Nat /\ t \in Nat /\ n \in Nat /\ t <= whole
    BY <1>1, <1>2, <1>5, SumSplits
<1>8. Total(g) = s
    BY <1>5, TotalIs
<1>9. 2 * s <= 2 * capital + n
    <2>1. CASE D = {}
        <3>1. s = 0
            BY <2>1, SumIter, FS_EmptySet
        <3> HIDE DEF s, n
        <3> QED BY <1>7, <3>1
    <2>2. CASE whole # 0
        <3> HIDE DEF s, t, n
        <3>1. capital * t <= capital * whole
            BY <1>7
        <3>2. whole * (2 * s) <= whole * (2 * capital + n)
            <4>1. /\ whole * (2 * s) = (2 * whole) * s
                  /\ whole * (2 * capital + n) = 2 * (capital * whole) + whole * n
                  /\ (2 * capital) * t = 2 * (capital * t)
                BY <1>7
            <4>0. /\ (2 * whole) * s \in Nat /\ capital * t \in Nat
                  /\ capital * whole \in Nat /\ whole * n \in Nat
                BY <1>7
            <4> DEFINE x == (2 * whole) * s  y == capital * t  z == capital * whole  v == whole * n
            <4>2. x \in Nat /\ y \in Nat /\ z \in Nat /\ v \in Nat /\ x <= 2 * y + v /\ y <= z
                BY <1>6, <1>7, <3>1, <4>1, <4>0
            <4> HIDE DEF x, y, z, v
            <4>3. x <= 2 * z + v
                BY <4>2
            <4> QED BY <4>1, <4>3 DEF x, z, v
        <3> DEFINE l == 2 * s  r == 2 * capital + n
        <3>3. l \in Nat /\ r \in Nat /\ whole * l <= whole * r
            BY <1>7, <3>2
        <3> HIDE DEF l, r
        <3>4. ASSUME l > r PROVE FALSE
            <4>1. whole * l >= whole * (r + 1)
                BY <3>3, <3>4
            <4>2. whole * (r + 1) = whole * r + whole
                BY <3>3
            <4> DEFINE wl == whole * l  wr == whole * r
            <4>3. wl \in Nat /\ wr \in Nat /\ wl >= wr + whole /\ wl <= wr
                BY <3>3, <4>1, <4>2
            <4> HIDE DEF wl, wr
            <4> QED BY <2>2, <4>3
        <3>5. l <= r
            BY <3>3, <3>4
        <3> QED BY <3>5 DEF l, r
    <2> QED BY <1>3, <2>1, <2>2
<1> HIDE DEF s, t, n
<1>10. 2 * Total(g) <= 2 * capital + Cardinality(DOMAIN g)
    BY <1>5, <1>8, <1>9 DEF n
<1> QED BY <1>0, <1>1, <1>5, <1>10 DEF Afforded, D

\* A total of which one summand is above zero is above zero.
LEMMA TotalAbove ==
    ASSUME NEW f, IsFiniteSet(DOMAIN f), f \in [DOMAIN f -> Nat], \E x \in DOMAIN f : f[x] > 0
    PROVE  Total(f) \in Nat \ {0}
<1> DEFINE D == DOMAIN f
<1>1. PICK x \in D : f[x] > 0
    OBVIOUS
<1>2. IsFiniteSet(D) /\ f \in [D -> Nat] /\ Total(f) = SumOver(f, D)
    BY TotalIs
<1> HIDE DEF D
<1>3. SumOver(f, D) = f[x] + SumOver(f, D \ {x})
    BY <1>1, <1>2, SumSplits
<1>4. SumOver(f, D \ {x}) \in Nat /\ f[x] \in Nat
    <2>1. IsFiniteSet(D \ {x})
        BY <1>2, FS_Subset
    <2> QED BY <1>1, <1>2, <2>1, SumSplits
<1> DEFINE rest == SumOver(f, D \ {x})  first == f[x]  sum == SumOver(f, D)
<1>5. sum = first + rest /\ first \in Nat /\ first > 0 /\ rest \in Nat
    BY <1>1, <1>3, <1>4
<1> HIDE DEF rest, first, sum
<1>6. sum \in Nat \ {0}
    BY <1>5
<1> QED BY <1>2, <1>6 DEF sum

\* Nothing is afforded whatever the capital.
LEMMA NothingAfforded == ASSUME NEW capital \in Nat PROVE Afforded(NoShares, capital)
<1>1. DOMAIN NoShares = {} /\ NoShares \in [{} -> Nat] /\ Total(NoShares) = 0
    BY NoneFits DEF NoShares
<1>2. Cardinality({}) = 0
    BY FS_EmptySet
<1> QED BY <1>1, <1>2 DEF Afforded

\* The weights of a split are above zero.
LEMMA WeightsAre ==
    ASSUME paTable \in PaTables, NEW pools, pools \subseteq DOMAIN paTable, pools # {}, ~NoYield(pools)
    PROVE  Weights(pools) \in [pools -> Nat \ {0}]
<1>1. pools \subseteq PaPools /\ IsFiniteSet(pools) /\ Cardinality(pools) \in Nat
    <2>1. pools \in SUBSET PaPools
        BY DEF PaTables
    <2> QED BY <2>1, PoolsFinite
<1>2. CASE Cardinality(pools) = 1
    <2>1. Weights(pools) = [p \in pools |-> 1]
        BY <1>2 DEF Weights
    <2> QED BY <2>1
<1>3. CASE Cardinality(pools) # 1
    <2> DEFINE sharpe == [p \in pools |-> (paTable[p].apy * 3000) \div
                              (Risk(p) + (IF paTable[p].wild THEN 1000 ELSE 0) + 100)]
               sum == Total(sharpe)
    <2>1. Weights(pools) = [p \in pools |-> IF 20 * sharpe[p] < sum THEN sum ELSE 20 * sharpe[p]]
        BY <1>3 DEF Weights
    <2>2. ASSUME NEW p \in pools
          PROVE  sharpe[p] \in Nat /\ (paTable[p].apy > 0 => sharpe[p] > 0)
        <3> DEFINE apy == paTable[p].apy
                   d == Risk(p) + (IF paTable[p].wild THEN 1000 ELSE 0) + 100
        <3>1. apy \in Nat /\ Risk(p) \in 0 .. 1000
            BY Figures
        <3>2. d \in 1 .. 2100
            <4> DEFINE risk == Risk(p)
                       extra == IF paTable[p].wild THEN 1000 ELSE 0
            <4>1. risk \in 0 .. 1000 /\ extra \in {0, 1000} /\ d = risk + extra + 100
                BY <3>1
            <4> HIDE DEF risk, extra, d
            <4> QED BY <4>1
        <3>3. sharpe[p] = (apy * 3000) \div d
            OBVIOUS
        <3> HIDE DEF apy, d, sharpe
        <3>4. (apy * 3000) \div d \in Nat
            BY <3>1, <3>2
        <3>5. ASSUME apy > 0 PROVE (apy * 3000) \div d > 0
            <4>1. apy * 3000 >= 3000
                BY <3>1, <3>5
            <4> DEFINE a == apy * 3000  q == a \div d
            <4>2. a \in Nat /\ a >= 3000
                BY <3>1, <4>1
            <4> HIDE DEF a
            <4>3. q \in Nat /\ a < d * q + d
                BY <3>2, <4>2
            <4> HIDE DEF q
            <4>4. q # 0
                BY <3>2, <4>2, <4>3
            <4>5. q > 0
                BY <4>3, <4>4
            <4> QED BY <4>5 DEF a, q
        <3> QED BY <3>3, <3>4, <3>5 DEF apy
    <2>3. PICK x \in pools : paTable[x].apy > 0
        <3>1. Cardinality(pools) > 1
            <4>1. Cardinality(pools) # 0
                BY <1>1, FS_EmptySet
            <4> QED BY <1>1, <1>3, <4>1
        <3>2. PICK x \in pools : paTable[x].apy # 0
            BY <3>1 DEF NoYield
        <3>3. paTable[x].apy \in Nat
            BY Figures
        <3> QED BY <3>2, <3>3
    <2>4. sharpe \in [pools -> Nat] /\ DOMAIN sharpe = pools /\ sharpe[x] > 0
        <3>1. DOMAIN sharpe = pools /\ sharpe = [p \in pools |-> sharpe[p]]
            OBVIOUS
        <3> HIDE DEF sharpe
        <3> QED BY <2>2, <2>3, <3>1
    <2> HIDE DEF sharpe
    <2>5. sum \in Nat \ {0}
        BY <1>1, <2>4, TotalAbove
    <2> HIDE DEF sum
    <2>6. \A p \in pools : (IF 20 * sharpe[p] < sum THEN sum ELSE 20 * sharpe[p]) \in Nat \ {0}
        BY <2>4, <2>5
    <2> QED BY <2>1, <2>6
<1> QED BY <1>2, <1>3

\* What a split keeps is afforded, and so is what it makes of it.
LEMMA KeptFits ==
    ASSUME paTable \in PaTables, NEW pools, pools \subseteq DOMAIN paTable, ~NoYield(pools),
           NEW capital \in Nat \ {0}
    PROVE  /\ Afforded(FirstSplit(pools, capital), capital)
           /\ \A p \in DOMAIN FirstSplit(pools, capital) : FirstSplit(pools, capital)[p] > 0
<1> DEFINE weights == Weights(pools)
           one == Total(weights)
           whole == 5 * one
           capped == [p \in pools |-> Least(2 * one, 5 * weights[p])]
           large == {p \in pools : capital * capped[p] >= 5000 * whole}
           cut == [p \in large |-> capped[p]]
<1>1. FirstSplit(pools, capital) = Amounts(cut, whole, capital)
    BY DEF FirstSplit
<1>2. large \subseteq pools /\ large \in SUBSET PaPools /\ pools \in SUBSET PaPools
    <2>1. large \subseteq pools /\ pools \in SUBSET PaPools
        BY DEF PaTables
    <2> HIDE DEF large
    <2> QED BY <2>1
<1>3. IsFiniteSet(large) /\ IsFiniteSet(pools)
    <2> HIDE DEF large
    <2> QED BY <1>2, PoolsFinite
<1>4. CASE pools = {}
    <2>1. large = {}
        BY <1>4
    <2> HIDE DEF large, whole
    <2>2. Amounts(cut, whole, capital) = NoShares
        BY <2>1 DEF Amounts, NoShares
    <2>3. DOMAIN NoShares = {}
        BY DEF NoShares
    <2> QED BY <1>1, <2>2, <2>3, NothingAfforded
<1>5. CASE pools # {}
    <2>1. weights \in [pools -> Nat \ {0}]
        BY <1>5, WeightsAre
    <2>2. weights \in [pools -> Nat] /\ DOMAIN weights = pools /\ one \in Nat \ {0}
        <3>1. weights \in [pools -> Nat] /\ DOMAIN weights = pools /\ \E x \in pools : weights[x] > 0
            BY <1>5, <2>1
        <3> HIDE DEF weights
        <3> QED BY <1>3, <3>1, TotalAbove
    <2>3. one = SumOver(weights, pools)
        BY <2>2, TotalIs
    <2> HIDE DEF weights, one
    <2>4. whole \in Nat \ {0}
        BY <2>2
    <2>5. ASSUME NEW p \in pools PROVE capped[p] \in Nat /\ capped[p] <= 5 * weights[p]
        BY <2>2 DEF Least
    <2> HIDE DEF whole
    <2>6. ASSUME NEW p \in large PROVE cut[p] = capped[p] /\ capital * cut[p] >= 5000 * whole
        OBVIOUS
    <2>7. cut = [p \in large |-> cut[p]] /\ DOMAIN cut = large
        OBVIOUS
    <2> HIDE DEF capped, large, cut
    <2>8. cut \in [large -> Nat] /\ \A p \in large : cut[p] <= 5 * weights[p]
        BY <1>2, <2>5, <2>6, <2>7
    <2>9. Total(cut) <= whole
        <3> DEFINE f == [p \in large |-> weights[p]]
        <3>1. f \in [large -> Nat] /\ DOMAIN f = large /\ \A p \in large : f[p] = weights[p]
            BY <1>2, <2>2
        <3> HIDE DEF f
        <3>2. \A p \in large : 1 * cut[p] <= 5 * f[p] + 0
            BY <2>8, <3>1
        <3>3. 1 * SumOver(cut, large) <= 5 * SumOver(f, large) + 0 * Cardinality(large)
            BY <1>3, <2>8, <3>1, <3>2, SumRounded
        <3>4. SumOver(f, large) <= SumOver(weights, pools)
            <4>1. \A p \in large : f[p] <= weights[p]
                BY <3>1
            <4>2. large \in SUBSET large /\ pools \in SUBSET pools
                OBVIOUS
            <4> QED BY <1>2, <1>3, <2>2, <3>1, <4>1, <4>2, SumMonotone
        <3>5. SumOver(cut, large) \in Nat /\ SumOver(f, large) \in Nat /\ Cardinality(large) \in Nat
            BY <1>2, <1>3, <2>8, <3>1, SumSplits, PoolsFinite
        <3> DEFINE x == SumOver(cut, large)  y == SumOver(f, large)  n == Cardinality(large)
        <3>6. x \in Nat /\ y \in Nat /\ n \in Nat /\ 1 * x <= 5 * y + 0 * n /\ y <= one
            BY <2>3, <3>3, <3>4, <3>5
        <3> HIDE DEF x, y, n
        <3>7. x <= 5 * one
            BY <2>2, <3>6
        <3>8. Total(cut) = x
            BY <2>7, TotalIs DEF x
        <3> QED BY <3>7, <3>8 DEF whole
    <2>10. Afforded(Amounts(cut, whole, capital), capital) /\ DOMAIN Amounts(cut, whole, capital) = large
        <3>1. DOMAIN cut \subseteq PaPools /\ cut \in [DOMAIN cut -> Nat] /\ whole \in Nat /\ whole # 0
            BY <1>2, <2>4, <2>7, <2>8
        <3> QED BY <2>7, <2>9, <3>1, AmountsFit
    <2>11. ASSUME NEW p \in large PROVE Amounts(cut, whole, capital)[p] > 0
        <3> DEFINE a == capital * cut[p]  half == whole \div 2  b == a + half  q == b \div whole
        <3>1. Amounts(cut, whole, capital)[p] = q
            BY <2>7 DEF Amounts, Rounded
        <3>2. a \in Nat /\ a >= 5000 * whole
            BY <2>6, <2>8
        <3>3. half \in Nat
            BY <2>4
        <3> HIDE DEF a, half
        <3>4. b \in Nat /\ b >= whole
            BY <2>4, <3>2, <3>3
        <3> HIDE DEF b
        <3>5. q \in Nat /\ b < whole * q + whole
            BY <2>4, <3>4
        <3> HIDE DEF q
        <3>6. q # 0
            BY <2>4, <3>4, <3>5
        <3>7. q > 0
            BY <3>5, <3>6
        <3> QED BY <3>1, <3>7
    <2> QED BY <1>1, <2>10, <2>11
<1> QED BY <1>4, <1>5

LEMMA SplitFits ==
    ASSUME paTable \in PaTables, NEW pools, pools \subseteq DOMAIN paTable, ~NoYield(pools),
           NEW capital \in Nat \ {0}
    PROVE  Afforded(Split(pools, capital), capital)
<1> DEFINE kept == FirstSplit(pools, capital)
<1>1. Split(pools, capital) = IF DOMAIN kept = {} \/ 20 * Total(kept) >= 19 * capital THEN kept
                              ELSE Amounts(kept, Total(kept), capital)
    BY DEF Split
<1>2. Afforded(kept, capital) /\ \A p \in DOMAIN kept : kept[p] > 0
    BY KeptFits
<1> HIDE DEF kept
<1>3. ASSUME DOMAIN kept # {} PROVE Afforded(Amounts(kept, Total(kept), capital), capital)
    <2>1. DOMAIN kept \subseteq PaPools /\ kept \in [DOMAIN kept -> Nat] /\ IsFiniteSet(DOMAIN kept)
        BY <1>2, PoolsFinite DEF Afforded
    <2>2. Total(kept) \in Nat \ {0}
        BY <1>2, <1>3, <2>1, TotalAbove
    <2> DEFINE total == Total(kept)
    <2>3. total \in Nat /\ total # 0 /\ total <= total /\ Total(kept) = total
        BY <2>2
    <2> HIDE DEF total
    <2>4. Afforded(Amounts(kept, total, capital), capital)
        BY <2>1, <2>3, AmountsFit
    <2> QED BY <2>3, <2>4
<1> QED BY <1>1, <1>2, <1>3

\* The answer and the rows recorded fit the capital.
PaInv ==
    /\ paTable \in PaTables /\ paUp \in {"off", "first", "on"}
    /\ paAnswer.capital \in PaCapitals \cup {0}
    /\ Afforded(paAnswer.amounts, paAnswer.capital) /\ InCapital(paRows)

\* No answer fits, and neither does a failure give anything away.
LEMMA NoneGiven ==
    ASSUME NEW answer \in {NoAnswer, Failed}
    PROVE  answer.capital = 0 /\ Afforded(answer.amounts, answer.capital)
<1>1. answer.capital = 0 /\ answer.amounts = NoShares
    BY DEF NoAnswer, Failed, Answer
<1> QED BY <1>1, NothingAfforded

\* At first nothing is given away.
LEMMA PaInitInv == PaInit => PaInv
<1> SUFFICES ASSUME PaInit PROVE PaInv
    OBVIOUS
<1>1. EmptyTable \in PaTables
    <2>1. EmptyTable \in [{} -> PaMetrics]
        BY DEF EmptyTable
    <2>2. {} \in SUBSET PaPools
        OBVIOUS
    <2> QED BY <2>1, <2>2 DEF PaTables
<1> QED BY <1>1, NoneFits, NoneGiven DEF PaInit, PaInv

\* A request for an allocation gives away what fits, by any strategy.
LEMMA AllocateFits ==
    ASSUME PaInv, NEW strategy \in Strategies, NEW capital \in PaCapitals, PaAllocate(strategy, capital)
    PROVE  PaInv'
<1>0. paTable \in PaTables /\ paTable' = paTable /\ paUp' = paUp /\ capital \in Nat
    BY PaAssumption DEF PaInv, PaAllocate
<1>1. PICK top \in TopPools(MaxRisk(strategy)) :
          /\ paRows' = Recommended(top)
          /\ paAnswer' =
               IF strategy = "gas_efficient" /\ Unsortable(paRows') THEN Failed
               ELSE Answer(strategy, capital,
                           Amounts(Adjusted(strategy, top, paRows'),
                                   Whole(strategy, Adjusted(strategy, top, paRows')), capital))
    BY DEF PaAllocate
<1>2. PICK n \in Nat : /\ top \in [1 .. n -> DOMAIN paTable]
                       /\ \A i, j \in 1 .. n : top[i] = top[j] => i = j
    BY <1>0, Ranking
<1> DEFINE given == Recommended(top)
           parts == Adjusted(strategy, top, given)
           whole == Whole(strategy, parts)
<1>3. InCapital(given) /\ DOMAIN given \subseteq {top[i] : i \in 1 .. n}
    BY <1>0, <1>2, RecommendedFits
<1>4. DOMAIN given \subseteq DOMAIN paTable /\ DOMAIN given \subseteq PaPools
    BY <1>2, <1>3 DEF InCapital
<1>5. InCapital(paRows')
    BY <1>1, <1>3
<1>6. paAnswer' = IF strategy = "gas_efficient" /\ Unsortable(given) THEN Failed
                  ELSE Answer(strategy, capital, Amounts(parts, whole, capital))
    BY <1>1
<1>7. CASE strategy = "gas_efficient" /\ Unsortable(given)
    <2>1. paAnswer' = Failed
        BY <1>6, <1>7
    <2> QED BY <1>0, <1>5, <2>1, NoneGiven DEF PaInv
<1>8. CASE ~(strategy = "gas_efficient" /\ Unsortable(given))
    <2> HIDE DEF given
    <2>1. CASE strategy # "conservative"
        <3>1. parts \in {ForYield(top, given), given} \/ (~Unsortable(given) /\ parts = ForGas(given))
            BY <1>8, <2>1 DEF Adjusted, Strategies
        <3>2. InCapital(parts)
            <4>1. InCapital(ForYield(top, given))
                BY <1>0, <1>2, <1>3, YieldFits
            <4>2. ASSUME ~Unsortable(given) PROVE InCapital(ForGas(given))
                BY <1>0, <1>4, <4>2, GasFits
            <4> HIDE DEF parts
            <4> QED BY <1>3, <3>1, <4>1, <4>2
        <3>3. whole = All
            BY <2>1 DEF Whole
        <3> HIDE DEF parts
        <3>4. DOMAIN parts \subseteq PaPools /\ parts \in [DOMAIN parts -> Nat] /\ Total(parts) <= All
            BY <3>2 DEF InCapital
        <3>5. whole \in Nat /\ whole # 0 /\ Total(parts) <= whole
            BY <3>3, <3>4
        <3> HIDE DEF whole
        <3>6. Afforded(Amounts(parts, whole, capital), capital)
            BY <1>0, <3>4, <3>5, AmountsFit
        <3>7. paAnswer' = Answer(strategy, capital, Amounts(parts, whole, capital))
            BY <1>6, <1>8
        <3> QED BY <1>0, <1>5, <3>6, <3>7 DEF PaInv, Answer
    <2>2. CASE strategy = "conservative"
        <3>1. parts = ForSafety(given) /\ whole = Cardinality(DOMAIN parts)
            BY <2>2 DEF Adjusted, Whole
        <3> HIDE DEF parts
        <3>2. DOMAIN parts \subseteq PaPools /\ parts \in [DOMAIN parts -> Nat]
              /\ Total(parts) <= whole
            BY <1>4, <3>1, SafetyFits
        <3>3. whole \in Nat /\ (whole # 0 \/ DOMAIN parts = {})
            <4>1. DOMAIN parts \in SUBSET PaPools
                BY <3>2
            <4>2. IsFiniteSet(DOMAIN parts) /\ Cardinality(DOMAIN parts) \in Nat
                BY <4>1, PoolsFinite
            <4> QED BY <3>1, <4>2, FS_EmptySet
        <3> HIDE DEF whole
        <3>4. Afforded(Amounts(parts, whole, capital), capital)
            BY <1>0, <3>2, <3>3, AmountsFit
        <3>5. paAnswer' = Answer(strategy, capital, Amounts(parts, whole, capital))
            BY <1>6, <1>8
        <3> QED BY <1>0, <1>5, <3>4, <3>5 DEF PaInv, Answer
    <2> QED BY <2>1, <2>2
<1> QED BY <1>7, <1>8

\* So does a split of a request's capital,
LEMMA SplitKeeps ==
    ASSUME PaInv, NEW pools \in SUBSET PaPools, NEW capital \in PaCapitals, PaSplit(pools, capital)
    PROVE  PaInv'
<1> DEFINE known == pools \cap DOMAIN paTable
<1>1. /\ paTable \in PaTables /\ paTable' = paTable /\ paUp' = paUp /\ paRows' = NoShares
      /\ paAnswer' = IF NoYield(known) THEN Failed ELSE Answer("split", capital, Split(known, capital))
    BY DEF PaInv, PaSplit
<1>2. known \subseteq DOMAIN paTable
    OBVIOUS
<1> HIDE DEF known
<1>3. paAnswer'.capital \in PaCapitals \cup {0} /\ Afforded(paAnswer'.amounts, paAnswer'.capital)
    <2>1. CASE NoYield(known)
        <3>1. paAnswer' = Failed
            BY <1>1, <2>1
        <3> QED BY <3>1, NoneGiven
    <2>2. CASE ~NoYield(known)
        <3>1. capital \in Nat \ {0}
            BY PaAssumption
        <3>2. Afforded(Split(known, capital), capital)
            BY <1>1, <1>2, <2>2, <3>1, SplitFits
        <3>3. paAnswer'.capital = capital /\ paAnswer'.amounts = Split(known, capital)
            BY <1>1, <2>2 DEF Answer
        <3> QED BY <3>2, <3>3
    <2> QED BY <2>1, <2>2
<1> QED BY <1>1, <1>3, NoneFits DEF PaInv

\* and a decision: all of it in one pool, or none.
LEMMA DecideKeeps ==
    ASSUME PaInv, NEW capital \in PaCapitals, NEW gas, NEW cheap, PaDecide(capital, gas, cheap)
    PROVE  PaInv'
<1>1. /\ paTable \in PaTables /\ paTable' = paTable /\ paUp' = paUp /\ paRows' = NoShares
      /\ capital \in Nat
    BY PaAssumption DEF PaInv, PaDecide
<1>2. PICK top \in TopPools(800) :
          paAnswer' = Answer("decision", capital, AllIn(top, capital, gas, cheap))
    BY DEF PaDecide
<1>3. paAnswer'.capital = capital /\ paAnswer'.amounts = AllIn(top, capital, gas, cheap)
    BY <1>2 DEF Answer
<1> DEFINE all == [p \in {top[1]} |-> capital]
<1>4. \/ paAnswer'.amounts = NoShares
      \/ top # <<>> /\ paAnswer'.amounts = all
    BY <1>3 DEF AllIn
<1>5. Afforded(paAnswer'.amounts, capital)
    <2>1. CASE paAnswer'.amounts = NoShares
        BY <1>1, <2>1, NothingAfforded
    <2>2. CASE top # <<>> /\ paAnswer'.amounts = all
        <3>1. PICK n \in Nat : top \in [1 .. n -> DOMAIN paTable]
            BY <1>1, Ranking
        <3>2. top[1] \in PaPools
            <4>1. n # 0
                BY <2>2, <3>1
            <4>2. top[1] \in DOMAIN paTable
                BY <3>1, <4>1
            <4> QED BY <1>1, <4>2, Figures
        <3> DEFINE best == top[1]  S == {best}  f == [p \in S |-> capital]
        <3>3. IsFiniteSet(S) /\ Cardinality(S) = 1
            BY FS_Singleton
        <3>4. f \in [S -> Nat] /\ DOMAIN f = S /\ \A p \in S : f[p] <= capital
            BY <1>1
        <3>5. S \subseteq PaPools /\ S \in SUBSET S
            BY <3>2
        <3>6. paAnswer'.amounts = f
            BY <2>2
        <3> HIDE DEF S, f
        <3>7. SumOver(f, S) <= capital * Cardinality(S)
            BY <1>1, <3>3, <3>4, <3>5, SumOfMany
        <3>8. SumOver(f, S) \in Nat /\ Total(f) = SumOver(f, S)
            BY <3>3, <3>4, <3>5, SumSplits, TotalIs
        <3> DEFINE sum == SumOver(f, S)
        <3>9. sum \in Nat /\ sum <= capital * 1
            BY <3>3, <3>7, <3>8
        <3> HIDE DEF sum
        <3>10. 2 * sum <= 2 * capital + 1
            BY <1>1, <3>9
        <3> QED BY <3>3, <3>4, <3>5, <3>6, <3>8, <3>10 DEF Afforded, sum
    <2> QED BY <1>4, <2>1, <2>2
<1> QED BY <1>1, <1>3, <1>5, NoneFits DEF PaInv

\* Every step keeps them.
LEMMA PaInvStep == PaInv /\ [PaNext]_paVars => PaInv'
<1> SUFFICES ASSUME PaInv, [PaNext]_paVars PROVE PaInv'
    OBVIOUS
<1>1. CASE PaStart
    BY <1>1 DEF PaInv, PaStart
<1>2. CASE PaRefresh
    BY <1>2, NoneFits, NoneGiven DEF PaInv, PaRefresh
<1>3. ASSUME NEW strategy \in Strategies, NEW capital \in PaCapitals, PaAllocate(strategy, capital)
      PROVE  PaInv'
    BY <1>3, AllocateFits
<1>4. ASSUME NEW pools \in SUBSET PaPools, NEW capital \in PaCapitals, PaSplit(pools, capital) PROVE PaInv'
    BY <1>4, SplitKeeps
<1>5. ASSUME NEW capital \in PaCapitals, NEW gas \in {5, 200}, NEW cheap \in BOOLEAN,
             PaDecide(capital, gas, cheap) PROVE PaInv'
    BY <1>5, DecideKeeps
<1>6. CASE UNCHANGED paVars
    BY <1>6 DEF PaInv, paVars
<1> QED BY <1>1, <1>2, <1>3, <1>4, <1>5, <1>6 DEF PaNext

\* Whatever pools and figures the sources report, and whatever is asked: no row
\* that is recorded is more than the capital, and the amounts of an answer are
\* more than it by half a cent for each pool at most.
THEOREM SharesFit == PaSpec => []AllocationFits
<1>1. PaInv => AllocationFits
    BY DEF PaInv, InCapital, Afforded, AllocationFits
<1> QED BY <1>1, PaInitInv, PaInvStep, PTL DEF PaSpec

\* The table holds figures of pools, an answer amounts, and every share
\* recorded is one of the capital.
THEOREM AnalysisTypes == PaSpec => []PaTypeOK
<1>1. PaInv => PaTypeOK
    <2> SUFFICES ASSUME PaInv PROVE PaTypeOK
        OBVIOUS
    <2>1. DOMAIN paRows \subseteq PaPools /\ \A p \in DOMAIN paRows : paRows[p] \in Nat /\ paRows[p] <= All
        BY EachFits DEF PaInv, InCapital
    <2>2. /\ DOMAIN paAnswer.amounts \subseteq PaPools
          /\ \A p \in DOMAIN paAnswer.amounts : paAnswer.amounts[p] \in Nat
        BY DEF PaInv, Afforded
    <2> QED BY <2>1, <2>2 DEF PaInv, PaTypeOK
<1> QED BY <1>1, PaInitInv, PaInvStep, PTL DEF PaSpec

HIDE DEF All
-----------------------------------------------------------------------------
(* All of them together.                                                   *)

\* A behaviour of the composition is one of each of its parts.
LEMMA ServicesParts ==
    ServicesSpec => /\ Spec /\ PsSpec /\ PaSpec /\ RpSpec
                    /\ SeInit /\ [][SeNext]_seVars /\ BrSpec /\ AgSpec /\ MaSpec
<1>1. ServicesInit => /\ Init /\ PsInit /\ PaInit /\ RpInit
                      /\ SeInit /\ BrInit /\ AgInit /\ MaInit
    BY DEF ServicesInit
<1>2. [ServicesNext]_serviceVars =>
          /\ [Next]_vars /\ [PsNext]_psVars /\ [PaNext]_paVars /\ [RpNext]_rpVars
          /\ [SeNext]_seVars /\ [BrNext]_brVars /\ [AgNext]_agVars /\ [MaNext]_maVars
    BY DEF ServicesNext, serviceVars, otherVars
<1> QED BY <1>1, <1>2, PTL
    DEF ServicesSpec, Spec, PsSpec, PaSpec, RpSpec, BrSpec, AgSpec, MaSpec

\* The types of all eight parts, whichever of them moves.
THEOREM ServicesTypes == ServicesSpec => []ServicesTypeOK
<1>1. RpInv => RpTypeOK
    BY DEF RpInv
<1>2. PsInv => PsTypeOK
    BY DEF PsInv
<1>3. AgInv => AgTypeOK
    BY DEF AgInv
<1>4. /\ TypeOK /\ PsTypeOK /\ PaTypeOK /\ RpTypeOK
      /\ SeTypeOK /\ BrTypeOK /\ AgTypeOK /\ MaTypeOK
      => ServicesTypeOK
    BY DEF ServicesTypeOK
<1>5. RpSpec => []RpTypeOK
    BY <1>1, RpInitInv, RpInvStep, PTL DEF RpSpec
<1>6. PsSpec => []PsTypeOK
    BY <1>2, PsInitInv, PsInvStep, PTL DEF PsSpec
<1>7. AgSpec => []AgTypeOK
    BY <1>3, AgInitInv, AgInvStep, PTL DEF AgSpec
<1>8. SeInit /\ [][SeNext]_seVars => []SeTypeOK
    <2>1. SeInit => SeTypeOK
        BY SeInitInv DEF SeInv
    <2> QED BY <2>1, SeTypeStep, PTL
<1> QED BY <1>4, <1>5, <1>6, <1>7, <1>8, ServicesParts, StratumTypes, AnalysisTypes, BrainTypes,
           AdviceTypes, PTL
=============================================================================
