---------------------------- MODULE EnginesProofs ----------------------------
(***************************************************************************)
(* What holds of the engines of a mining session for any number of         *)
(* workers, jobs, starts and children: the CPU miner's search, real        *)
(* compute's ranges, the external miner and its output, and the types of   *)
(* all five components.                                                    *)
(***************************************************************************)
EXTENDS MCEngines, PoolDiscoveryProofs, TLAPS

(* Arithmetic.                                                             *)

\* Quotients and remainders.
LEMMA Remainder ==
    ASSUME NEW n \in Nat \ {0}
    PROVE  /\ \A a \in Int : a % n \in 0 .. n - 1
           /\ \A a \in 0 .. n - 1 : a % n = a
           /\ \A a \in Nat : a \div n \in Nat
           /\ \A a \in 0 .. n - 1 : a \div n = 0
           /\ n % n = 0 /\ n \div n = 1
<1>1. \A a \in Int : a % n \in 0 .. n - 1 OBVIOUS
<1>2. \A a \in 0 .. n - 1 : a % n = a OBVIOUS
<1>3. \A a \in Nat : a \div n \in Nat OBVIOUS
<1>4. \A a \in 0 .. n - 1 : a \div n = 0 OBVIOUS
<1>5. n % n = 0 /\ n \div n = 1 OBVIOUS
<1> QED BY <1>1, <1>2, <1>3, <1>4, <1>5

\* Products, which compare as their factors do.
LEMMA Products ==
    ASSUME NEW n \in Nat \ {0}, NEW a \in Int, NEW b \in Int
    PROVE  /\ a * n \in Int
           /\ (a + 1) * n = a * n + n
           /\ a * n < b * n => a < b
           /\ a <= b => a * n <= b * n
OBVIOUS

-----------------------------------------------------------------------------
(* The CPU miner.                                                          *)

\* A worker is inside _mine_job.
InJob(w) == pc[w] \in {"check", "submit"}

\* The values of the extranonce2 that are its own, and the headers in them.
First(w) == (w[1] - 1) * Stride
InRange(w, x) == First(w) <= x.extranonce2 /\ x.extranonce2 < First(w) + Stride

\* The search is past this header, and has come this far.
Before(x, a) == x.extranonce2 < a.counter \/ (x.extranonce2 = a.counter /\ x.nonce < a.nonce)
Done(w) == (at[w].counter - First(w)) * NonceEnd + at[w].nonce

\* The job of a worker is one that the pool has sent.
JobsHeld == \A w \in Workers : InJob(w) => at[w].job \in 1 .. job

\* The workers of a start that is still to come.
NotYetBorn == \A w \in Workers : w[2] > starts => pc[w] = "unborn"

\* The three that hold as long as the search is undisturbed.
OneStart ==
    /\ ~paused
    /\ starts <= 1 /\ (starts = 0 => tried = {})

InOwnRange ==
    \A w \in Workers : InJob(w) =>
        /\ at[w].counter >= First(w)
        /\ Done(w) <= hashes
        /\ pc[w] = "submit" => Done(w) + at[w].left < MaxHashes + MaxBatch

TriedBefore ==
    \A w \in Workers, x \in tried : w[2] = 1 /\ InRange(w, x) =>
        /\ pc[w] = "top" /\ running => x.job < job
        /\ InJob(w) => x.job < at[w].job \/ (x.job = at[w].job /\ Before(x, at[w]))

Undisturbed == OneStart /\ InOwnRange /\ TriedBefore

WorkersKnown == TypeOK /\ NotYetBorn /\ JobsHeld /\ ShareWasHashed

\* The inductive invariant of the CPU miner.
CpuInv == WorkersKnown /\ NoHeaderTwice /\ (undisturbed => Undisturbed)

\* Where a worker is in a job, and where it is n hashes later.
Row == [job : 0 .. MaxJobs, counter : Nat, nonce : 0 .. NonceEnd - 1,
        extranonce2 : Nat, left : 0 .. MaxBatch]

Moved(a, b, n) ==
    /\ a.job = b.job /\ a.extranonce2 = b.extranonce2 /\ a.left = b.left - n
    /\ a.nonce = (b.nonce + n) % NonceEnd
    /\ a.counter = b.counter + ((b.nonce + n) \div NonceEnd)

\* The headers of these hashes, and what the history makes of them.
Hashed(b, n) == {[job |-> b.job, extranonce2 |-> b.extranonce2,
                  nonce |-> (b.nonce + k) % NonceEnd] : k \in 0 .. n - 1}

Remembered(b, n) ==
    /\ undisturbed' = (undisturbed /\ b.nonce + n <= NonceEnd /\ b.extranonce2 = b.counter)
    /\ tried' = IF undisturbed' THEN tried \union Hashed(b, n) ELSE {}
    /\ repeated' = (repeated \/ (undisturbed' /\ Hashed(b, n) \intersect tried # {}))

\* The header before the nonce.
Latest(a) == [job |-> a.job, extranonce2 |-> a.extranonce2, nonce |-> (a.nonce - 1) % NonceEnd]

\* The position after n hashes is one.
LEMMA MovedIsRow ==
    ASSUME NEW b \in Row, NEW n \in 0 .. b.left
    PROVE  \E a \in Row : /\ Moved(a, b, n)
                          /\ a = [b EXCEPT !.nonce = (@ + n) % NonceEnd,
                                           !.counter = @ + ((b.nonce + n) \div NonceEnd),
                                           !.left = @ - n]
<1> DEFINE a == [b EXCEPT !.nonce = (@ + n) % NonceEnd,
                          !.counter = @ + ((b.nonce + n) \div NonceEnd),
                          !.left = @ - n]
<1>0. NonceEnd \in Nat \ {0} BY CpuMinerAssumption DEF CpuMinerAssumption
<1>1. b.nonce + n \in Nat /\ b.left - n \in 0 .. MaxBatch /\ b.counter \in Nat
    BY <1>0, CpuMinerAssumption DEF Row, CpuMinerAssumption
<1>2. (b.nonce + n) % NonceEnd \in 0 .. NonceEnd - 1 /\ (b.nonce + n) \div NonceEnd \in Nat
    <2>1. b.nonce + n \in Int BY <1>1
    <2> QED BY <1>0, <1>1, <2>1, Remainder
<1>3. b.counter + ((b.nonce + n) \div NonceEnd) \in Nat BY <1>1, <1>2
<1>4. /\ a.job = b.job /\ a.extranonce2 = b.extranonce2 /\ a.left = b.left - n
      /\ a.nonce = (b.nonce + n) % NonceEnd
      /\ a.counter = b.counter + ((b.nonce + n) \div NonceEnd)
    BY DEF Row
<1>5. a \in Row BY <1>1, <1>2, <1>3 DEF Row
<1> QED BY <1>4, <1>5 DEF Moved

\* What a worker does in a batch, as one number of hashes.
LEMMA SearchStep ==
    ASSUME at \in [Workers -> Row], NEW w \in Workers, NEW b \in Row, Search(w, b), hashes \in Nat
    PROVE  \E n \in 0 .. b.left, a \in Row :
              /\ Moved(a, b, n) /\ at' = [at EXCEPT ![w] = a] /\ hashes' = hashes + n
              /\ \/ pc' = [pc EXCEPT ![w] = "check"] /\ share' = [share EXCEPT ![w] = NoShare]
                 \/ /\ pc' = [pc EXCEPT ![w] = "submit"]
                    /\ share' = [share EXCEPT ![w] = Latest(a)]
              /\ (n = 0 /\ UNCHANGED history) \/ Remembered(b, n)
<1>1. b.left \in Nat /\ 0 \in 0 .. b.left /\ b.left \in 0 .. b.left /\ 1 .. b.left \subseteq 0 .. b.left
    BY CpuMinerAssumption DEF Row, CpuMinerAssumption
<1>2. ASSUME NEW n \in 0 .. b.left, HashSome(w, b, n)
      PROVE  \E a \in Row : /\ Moved(a, b, n) /\ at' = [at EXCEPT ![w] = a]
                            /\ hashes' = hashes + n /\ Remembered(b, n)
    <2>1. PICK a \in Row : /\ Moved(a, b, n)
                           /\ a = [b EXCEPT !.nonce = (@ + n) % NonceEnd,
                                            !.counter = @ + ((b.nonce + n) \div NonceEnd),
                                            !.left = @ - n]
        BY MovedIsRow
    <2>2. at' = [at EXCEPT ![w] = a] /\ hashes' = hashes + n
        BY <1>2, <2>1 DEF HashSome
    <2>3. Remembered(b, n) BY <1>2 DEF HashSome, Remembered, Hashed
    <2> QED BY <2>1, <2>2, <2>3
<1>3. CASE b.left = 0 /\ at' = [at EXCEPT ![w] = b] /\ UNCHANGED <<hashes, history>>
           /\ share' = [share EXCEPT ![w] = NoShare] /\ Goto(w, "check")
    <2>1. Moved(b, b, 0)
        <3>1. b.nonce \in 0 .. NonceEnd - 1 /\ b.counter \in Nat /\ b.left \in Nat BY <1>1 DEF Row
        <3>2. b.nonce + 0 = b.nonce /\ b.left - 0 = b.left /\ b.counter + 0 = b.counter BY <3>1
        <3>3. b.nonce % NonceEnd = b.nonce /\ b.nonce \div NonceEnd = 0
            BY <3>1, Remainder, CpuMinerAssumption DEF CpuMinerAssumption
        <3> QED BY <3>2, <3>3 DEF Moved
    <2>2. hashes' = hashes + 0 BY <1>3
    <2> QED BY <1>1, <1>3, <2>1, <2>2 DEF Goto
<1>4. CASE HashSome(w, b, b.left) /\ share' = [share EXCEPT ![w] = NoShare] /\ Goto(w, "check")
    BY <1>1, <1>2, <1>4 DEF Goto
<1>5. CASE (\E n \in 1 .. b.left : HashSome(w, b, n)) /\ Found(w) /\ Goto(w, "submit")
    <2>1. PICK n \in 1 .. b.left : HashSome(w, b, n) BY <1>5
    <2>2. PICK a \in Row : /\ Moved(a, b, n) /\ at' = [at EXCEPT ![w] = a]
                            /\ hashes' = hashes + n /\ Remembered(b, n)
        BY <1>1, <1>2, <2>1
    <2>3. at'[w] = a BY <2>2
    <2>4. share' = [share EXCEPT ![w] = Latest(a)] BY <1>5, <2>3 DEF Found, LastHeader, Latest
    <2> QED BY <1>1, <1>5, <2>2, <2>4 DEF Goto
<1> QED BY <1>3, <1>4, <1>5 DEF Search

\* A search step, with the position it starts from and the one it comes to.
Searches(w, b, n, a) ==
    /\ InJob(w) /\ UNCHANGED <<flow, job>>
    /\ b.job = at[w].job /\ b.counter = at[w].counter /\ b.nonce = at[w].nonce
    /\ Moved(a, b, n) /\ at' = [at EXCEPT ![w] = a] /\ hashes' = hashes + n
    /\ \/ pc' = [pc EXCEPT ![w] = "check"] /\ share' = [share EXCEPT ![w] = NoShare]
       \/ /\ pc' = [pc EXCEPT ![w] = "submit"]
          /\ share' = [share EXCEPT ![w] = Latest(a)]
    /\ (n = 0 /\ UNCHANGED history) \/ Remembered(b, n)

\* Both steps of a worker inside a batch are search steps.
LEMMA WorkStep ==
    ASSUME TypeOK, NEW w \in Workers, Batch(w) \/ SubmitReturns(w)
    PROVE  \E b \in Row, n \in Nat, a \in Row :
              /\ Searches(w, b, n, a) /\ n \in 0 .. b.left
              /\ pc[w] = "submit" => b = at[w]
              /\ pc[w] = "check" => hashes < MaxHashes
<1>0. at \in [Workers -> Row] /\ hashes \in Nat BY DEF TypeOK, Row
<1>1. CASE Batch(w)
    <2>1. PICK m \in 1 .. MaxBatch :
              Search(w, [at[w] EXCEPT !.extranonce2 = at[w].counter, !.left = m])
        BY <1>1 DEF Batch
    <2> DEFINE b == [at[w] EXCEPT !.extranonce2 = at[w].counter, !.left = m]
    <2>2. m \in 0 .. MaxBatch BY CpuMinerAssumption DEF CpuMinerAssumption
    <2>3. /\ b \in Row
          /\ b.job = at[w].job /\ b.counter = at[w].counter /\ b.nonce = at[w].nonce
        BY <1>0, <2>2 DEF Row
    <2>4. pc[w] = "check" /\ hashes < MaxHashes /\ UNCHANGED <<flow, job>> BY <1>1 DEF Batch
    <2>5. b.left \in Nat BY <2>3, CpuMinerAssumption DEF Row, CpuMinerAssumption
    <2> HIDE DEF b
    <2>6. PICK n \in 0 .. b.left, a \in Row :
              /\ Moved(a, b, n) /\ at' = [at EXCEPT ![w] = a] /\ hashes' = hashes + n
              /\ \/ pc' = [pc EXCEPT ![w] = "check"] /\ share' = [share EXCEPT ![w] = NoShare]
                 \/ /\ pc' = [pc EXCEPT ![w] = "submit"]
                    /\ share' = [share EXCEPT ![w] = Latest(a)]
              /\ (n = 0 /\ UNCHANGED history) \/ Remembered(b, n)
        BY <1>0, <2>1, <2>3, SearchStep DEF b
    <2>7. n \in Nat BY <2>5
    <2> QED BY <2>3, <2>4, <2>6, <2>7 DEF Searches, InJob
<1>2. CASE SubmitReturns(w)
    <2>1. at[w] \in Row /\ Search(w, at[w]) BY <1>0, <1>2 DEF SubmitReturns
    <2>2. pc[w] = "submit" /\ UNCHANGED <<flow, job>> BY <1>2 DEF SubmitReturns
    <2>3. at[w].left \in Nat BY <2>1, CpuMinerAssumption DEF Row, CpuMinerAssumption
    <2>4. PICK n \in 0 .. at[w].left, a \in Row :
              /\ Moved(a, at[w], n) /\ at' = [at EXCEPT ![w] = a] /\ hashes' = hashes + n
              /\ \/ pc' = [pc EXCEPT ![w] = "check"] /\ share' = [share EXCEPT ![w] = NoShare]
                 \/ /\ pc' = [pc EXCEPT ![w] = "submit"]
                    /\ share' = [share EXCEPT ![w] = Latest(a)]
              /\ (n = 0 /\ UNCHANGED history) \/ Remembered(at[w], n)
        BY <1>0, <2>1, SearchStep
    <2>5. n \in Nat BY <2>3
    <2> QED BY <2>1, <2>2, <2>4, <2>5 DEF Searches, InJob
<1> QED BY <1>1, <1>2

\* Every step keeps the types, the jobs of the workers and what they submit.
LEMMA WorkersKnownStep == WorkersKnown /\ Next => WorkersKnown'
<1> SUFFICES ASSUME WorkersKnown, Next PROVE WorkersKnown'
    OBVIOUS
<1> USE CpuMinerAssumption DEF CpuMinerAssumption, WorkersKnown
<1>0. starts \in Nat /\ \A w \in Workers : w[2] \in Nat BY DEF TypeOK, Workers, Generations
<1>1. CASE Start
    <2>1. /\ running' = TRUE /\ paused' = FALSE /\ starts' = starts + 1 /\ starts' \in 0 .. MaxStarts
          /\ ctl' = "up" /\ watcher' = [watcher EXCEPT ![starts + 1] = "asleep"]
          /\ UNCHANGED <<hashes, job, at, share, repeated>>
        BY <1>1 DEF Start, Disturbed, TypeOK, work, history
    <2>2. tried' \subseteq tried /\ undisturbed' \in BOOLEAN
        BY <1>1 DEF Start, Disturbed, TypeOK
    <2>3. \A w \in Workers : /\ pc'[w] = pc[w] \/ (pc'[w] = "top" /\ pc[w] = "unborn")
                             /\ w[2] > starts + 1 => pc'[w] = pc[w]
        BY <1>0, <1>1 DEF Start, NotYetBorn
    <2>4. pc' \in [Workers -> {"unborn", "top", "check", "submit", "ended"}]
        BY <1>1 DEF Start, TypeOK
    <2>5. TypeOK' BY <2>1, <2>2, <2>3, <2>4 DEF TypeOK
    <2>6. NotYetBorn' BY <1>0, <2>1, <2>3 DEF NotYetBorn
    <2>7. JobsHeld' /\ ShareWasHashed' BY <2>1, <2>3 DEF JobsHeld, ShareWasHashed, InJob, LastHeader
    <2> QED BY <2>5, <2>6, <2>7
<1>2. CASE Stop \/ Joined \/ Pause \/ Resume
    BY <1>2 DEF Stop, Joined, Pause, Resume, Disturbed, TypeOK, NotYetBorn, JobsHeld, ShareWasHashed, InJob,
                LastHeader, work, history
<1>3. CASE NewJob
    BY <1>3 DEF NewJob, TypeOK, NotYetBorn, JobsHeld, ShareWasHashed, InJob, LastHeader, work, history, flow
<1>4. ASSUME NEW g \in Generations, WatcherEnds(g) \/ WatcherPauses(g) \/ WatcherResumes(g)
      PROVE  WorkersKnown'
    BY <1>4 DEF WatcherEnds, WatcherPauses, WatcherResumes, Disturbed, TypeOK, NotYetBorn, JobsHeld,
                ShareWasHashed, InJob, LastHeader, work, history
<1>5. ASSUME NEW w \in Workers, WorkerEnds(w) \/ LeaveJob(w) \/ TakeJob(w) PROVE WorkersKnown'
    <2>1. /\ UNCHANGED <<flow, hashes, share, job, history>>
          /\ pc[w] \in {"top", "check"}
          /\ \E where \in {"top", "check", "ended"} : pc' = [pc EXCEPT ![w] = where]
          /\ \E a \in Row : at' = [at EXCEPT ![w] = a] /\ (pc'[w] = "check" => a.job \in 1 .. job)
        <3>1. Nowhere \in Row
            BY DEF Nowhere, Row
        <3>2. CASE WorkerEnds(w)
            <4>1. at' = [at EXCEPT ![w] = at[w]] /\ at[w] \in Row /\ pc'[w] = "ended"
                BY <3>2 DEF WorkerEnds, Goto, TypeOK, Row
            <4> QED BY <3>2, <4>1 DEF WorkerEnds, Goto
        <3>3. CASE LeaveJob(w) BY <3>1, <3>3 DEF LeaveJob, Goto, TypeOK
        <3>4. CASE TakeJob(w)
            <4> DEFINE a == [Nowhere EXCEPT !.job = job, !.counter = FirstExtranonce(w)]
            <4>1. FirstExtranonce(w) \in Nat BY DEF FirstExtranonce, Workers
            <4>2. job \in 1 .. job /\ job \in 0 .. MaxJobs BY <3>4 DEF TakeJob, TypeOK
            <4>3. a \in Row /\ a.job = job BY <3>1, <4>1, <4>2 DEF Row, Nowhere
            <4> QED BY <3>4, <4>2, <4>3 DEF TakeJob, Goto
        <3> QED BY <1>5, <3>2, <3>3, <3>4
    <2>2. pc'[w] \in {"top", "check", "ended"} /\ \A v \in Workers : v # w => pc'[v] = pc[v] /\ at'[v] = at[v]
        BY <2>1 DEF TypeOK
    <2>3. at' \in [Workers -> Row] /\ pc' \in [Workers -> {"unborn", "top", "check", "submit", "ended"}]
        BY <2>1 DEF TypeOK, Row
    <2>4. TypeOK' BY <2>1, <2>2, <2>3 DEF TypeOK, Row, flow, history
    <2>5. NotYetBorn' BY <2>1, <2>2 DEF NotYetBorn, flow
    <2>6. JobsHeld' BY <2>1, <2>2 DEF JobsHeld, InJob, TypeOK
    <2>7. ShareWasHashed' BY <2>1, <2>2 DEF ShareWasHashed, LastHeader
    <2> QED BY <2>4, <2>5, <2>6, <2>7
<1>7. ASSUME NEW w \in Workers, Batch(w) \/ SubmitReturns(w) PROVE WorkersKnown'
    <2>1. PICK b \in Row, n \in Nat, a \in Row : Searches(w, b, n, a) /\ n \in 0 .. b.left
        BY <1>7, WorkStep
    <2>2. a.job \in 1 .. job /\ Latest(a) \in Headers /\ Latest(a) # NoShare
        <3>1. a.job \in 1 .. job BY <2>1 DEF Searches, Moved, JobsHeld
        <3>2. (a.nonce - 1) % NonceEnd \in 0 .. NonceEnd - 1
            <4>1. NonceEnd \in Nat \ {0} /\ a.nonce - 1 \in Int BY DEF Row
            <4> QED BY <4>1, Remainder
        <3> QED BY <3>1, <3>2 DEF Latest, NoShare, Row, Headers, TypeOK
    <2>3. Hashed(b, n) \subseteq Headers
        <3>1. \A k \in 0 .. n - 1 : (b.nonce + k) % NonceEnd \in 0 .. NonceEnd - 1
            <4>1. NonceEnd \in Nat \ {0} /\ \A k \in 0 .. n - 1 : b.nonce + k \in Int BY DEF Row
            <4> QED BY <4>1, Remainder
        <3> QED BY <3>1 DEF Hashed, Headers, Row
    <2>4. UNCHANGED flow /\ job' = job /\ hashes' \in Nat
        BY <2>1 DEF Searches, TypeOK
    <2>5. tried' \subseteq Headers /\ repeated' \in BOOLEAN /\ undisturbed' \in BOOLEAN
        BY <2>1, <2>3 DEF Searches, Remembered, TypeOK, history
    <2>6. at' \in [Workers -> Row] /\ JobsHeld'
        <3>1. at' = [at EXCEPT ![w] = a] /\ InJob(w) BY <2>1 DEF Searches
        <3>2. \A v \in Workers : v # w => pc'[v] = pc[v] BY <2>1 DEF Searches, TypeOK
        <3> QED BY <3>1, <3>2, <2>2, <2>4 DEF JobsHeld, InJob, TypeOK, Row
    <2>7. /\ pc' \in [Workers -> {"unborn", "top", "check", "submit", "ended"}]
          /\ share' \in [Workers -> Headers]
          /\ \A v \in Workers : pc'[v] = "submit" <=> share'[v] # NoShare
        <3>1. NoShare \in Headers BY DEF NoShare, Headers
        <3> QED BY <2>1, <2>2, <3>1 DEF Searches, TypeOK
    <2>8. ShareWasHashed'
        <3>1. at' = [at EXCEPT ![w] = a] BY <2>1 DEF Searches
        <3>2. pc'[w] = "submit" => share'[w] = Latest(a)
            BY <2>1 DEF Searches, TypeOK
        <3>3. \A v \in Workers : v # w => pc'[v] = pc[v] /\ share'[v] = share[v] /\ at'[v] = at[v]
            BY <2>1 DEF Searches, TypeOK
        <3> QED BY <3>1, <3>2, <3>3 DEF ShareWasHashed, LastHeader, Latest, TypeOK
    <2>9. TypeOK' BY <2>4, <2>5, <2>6, <2>7 DEF TypeOK, flow, Row
    <2>10. NotYetBorn' BY <2>1, <2>4 DEF NotYetBorn, flow, Searches, InJob, TypeOK
    <2> QED BY <2>6, <2>8, <2>9, <2>10
<1> QED BY <1>1, <1>2, <1>3, <1>4, <1>5, <1>7 DEF Next, WorkerNext

\* The ranges of two workers do not meet.
LEMMA RangesApart ==
    ASSUME NEW v \in Workers, NEW w \in Workers, v[2] = w[2], v # w, NEW x \in Headers,
           InRange(v, x), InRange(w, x)
    PROVE  FALSE
<1> USE CpuMinerAssumption DEF CpuMinerAssumption
<1>1. v[1] \in Int /\ w[1] \in Int /\ v[1] # w[1] /\ Stride \in Nat \ {0} /\ x.extranonce2 \in Int
    BY DEF Workers, Headers
<1>2. ASSUME NEW s \in Int, NEW t \in Int, s < t,
             (s - 1) * Stride <= x.extranonce2, x.extranonce2 < (s - 1) * Stride + Stride,
             (t - 1) * Stride <= x.extranonce2
      PROVE  FALSE
    <2>1. s * Stride = (s - 1) * Stride + Stride
        <3>1. s - 1 \in Int /\ (s - 1) + 1 = s BY <1>2
        <3> QED BY <1>1, <3>1, Products
    <2>2. s <= t - 1 /\ t - 1 \in Int BY <1>2
    <2>3. s * Stride <= (t - 1) * Stride BY <1>1, <1>2, <2>2, Products
    <2>4. s * Stride \in Int /\ (s - 1) * Stride \in Int /\ (t - 1) * Stride \in Int
        <3>1. s - 1 \in Int /\ t - 1 \in Int BY <1>2
        <3> QED BY <1>1, <1>2, <3>1, Products
    <2> QED BY <1>1, <1>2, <2>1, <2>3, <2>4
<1>3. v[1] < w[1] \/ w[1] < v[1] BY <1>1
<1> QED BY <1>1, <1>2, <1>3 DEF InRange, First

\* What a search step does that disturbs nothing: the worker comes n headers
\* further, in its own range.
LEMMA SearchMoves ==
    ASSUME WorkersKnown, undisturbed => Undisturbed, NEW w \in Workers,
           NEW b \in Row, NEW n \in Nat, NEW a \in Row, n \in 0 .. b.left,
           Searches(w, b, n, a), undisturbed',
           pc[w] = "submit" => b = at[w],
           pc[w] = "check" => hashes < MaxHashes
    PROVE  /\ undisturbed /\ w[2] = 1
           /\ \/ a.counter = b.counter /\ a.nonce = b.nonce + n
              \/ a.counter = b.counter + 1 /\ a.nonce = 0 /\ b.nonce + n = NonceEnd
           /\ b.counter >= First(w)
           /\ (a.counter - First(w)) * NonceEnd + a.nonce = Done(w) + n
           /\ Done(w) \in Int /\ Done(w) <= hashes /\ Done(w) + b.left < MaxHashes + MaxBatch
           /\ \A x \in Hashed(b, n) : /\ x \in Headers /\ InRange(w, x) /\ x.job = at[w].job
                                      /\ x.extranonce2 = b.counter
                                      /\ b.nonce <= x.nonce /\ x.nonce < b.nonce + n
<1> USE CpuMinerAssumption DEF CpuMinerAssumption
<1>0. /\ NonceEnd \in Nat \ {0} /\ Stride \in Nat /\ b.left \in 0 .. MaxBatch /\ MaxBatch \in Nat
      /\ MaxHashes \in Nat /\ First(w) \in Int /\ b.counter \in Nat /\ b.nonce \in 0 .. NonceEnd - 1
      /\ b.nonce \in Nat /\ b.left \in Nat /\ hashes \in Nat
    BY DEF Row, First, Workers, WorkersKnown, TypeOK
<1>1. undisturbed /\ b.nonce + n <= NonceEnd /\ (n > 0 => b.extranonce2 = b.counter)
    <2>1. CASE n = 0 /\ UNCHANGED history
        <3>1. undisturbed BY <2>1 DEF history
        <3>2. b.nonce + n <= NonceEnd BY <1>0, <2>1
        <3> QED BY <2>1, <3>1, <3>2
    <2>2. CASE Remembered(b, n)
        BY <2>2 DEF Remembered
    <2> QED BY <2>1, <2>2 DEF Searches
<1>2. Undisturbed /\ InJob(w) BY <1>1 DEF Searches
<1>3. w[2] = 1
    <2>1. w[2] \in Nat /\ w[2] > 0 /\ starts \in Nat BY DEF Workers, Generations, WorkersKnown, TypeOK
    <2> QED BY <1>2, <2>1 DEF Undisturbed, OneStart, InJob, WorkersKnown, NotYetBorn
<1>4. \/ a.counter = b.counter /\ a.nonce = b.nonce + n
      \/ a.counter = b.counter + 1 /\ a.nonce = 0 /\ b.nonce + n = NonceEnd
    <2>1. /\ a.nonce = (b.nonce + n) % NonceEnd
          /\ a.counter = b.counter + ((b.nonce + n) \div NonceEnd)
        BY DEF Searches, Moved
    <2>2. b.nonce + n \in 0 .. NonceEnd - 1 \/ b.nonce + n = NonceEnd
        BY <1>0, <1>1
    <2>3. ASSUME b.nonce + n \in 0 .. NonceEnd - 1
          PROVE  (b.nonce + n) % NonceEnd = b.nonce + n /\ (b.nonce + n) \div NonceEnd = 0
        BY <1>0, <2>3, Remainder
    <2>4. NonceEnd % NonceEnd = 0 /\ NonceEnd \div NonceEnd = 1 BY <1>0, Remainder
    <2> QED BY <1>0, <2>1, <2>2, <2>3, <2>4
<1>5. b.counter >= First(w) /\ Done(w) <= hashes /\ Done(w) + b.left < MaxHashes + MaxBatch
      /\ Done(w) \in Int /\ Done(w) = (b.counter - First(w)) * NonceEnd + b.nonce
      /\ (b.counter - First(w)) * NonceEnd \in Int
    <2>1. at[w].counter = b.counter /\ at[w].nonce = b.nonce BY DEF Searches
    <2>2. Done(w) = (b.counter - First(w)) * NonceEnd + b.nonce BY <2>1 DEF Done
    <2>3. (b.counter - First(w)) * NonceEnd \in Int
        <3>1. b.counter - First(w) \in Int BY <1>0
        <3> QED BY <1>0, <3>1, Products
    <2>4. b.counter >= First(w) /\ Done(w) <= hashes BY <1>2, <2>1 DEF Undisturbed, InOwnRange
    <2>5. pc[w] = "submit" => Done(w) + b.left < MaxHashes + MaxBatch
        BY <1>2 DEF Undisturbed, InOwnRange
    <2>6. pc[w] = "check" => Done(w) + b.left < MaxHashes + MaxBatch
        BY <1>0, <2>2, <2>3, <2>4
    <2> QED BY <1>2, <2>2, <2>3, <2>4, <2>5, <2>6, <1>0 DEF InJob
<1>6. (a.counter - First(w)) * NonceEnd + a.nonce = Done(w) + n
    <2>1. CASE a.counter = b.counter /\ a.nonce = b.nonce + n
        BY <1>0, <1>5, <2>1
    <2>2. CASE a.counter = b.counter + 1 /\ a.nonce = 0 /\ b.nonce + n = NonceEnd
        <3>1. a.counter - First(w) = (b.counter - First(w)) + 1 /\ b.counter - First(w) \in Int
            BY <1>0, <2>2
        <3>2. (a.counter - First(w)) * NonceEnd = (b.counter - First(w)) * NonceEnd + NonceEnd
            BY <1>0, <3>1, Products
        <3> QED BY <1>0, <1>5, <2>2, <3>2
    <2> QED BY <1>4, <2>1, <2>2
<1>7. ASSUME NEW x \in Hashed(b, n)
      PROVE  /\ x \in Headers /\ InRange(w, x) /\ x.job = at[w].job
             /\ x.extranonce2 = b.counter
             /\ b.nonce <= x.nonce /\ x.nonce < b.nonce + n
    <2>1. PICK k \in 0 .. n - 1 : x = [job |-> b.job, extranonce2 |-> b.extranonce2,
                                       nonce |-> (b.nonce + k) % NonceEnd]
        BY <1>7 DEF Hashed
    <2>2. n > 0 /\ b.nonce + k \in 0 .. NonceEnd - 1 BY <1>0, <1>1
    <2>3. (b.nonce + k) % NonceEnd = b.nonce + k BY <1>0, <2>2, Remainder
    <2>4. x.job = at[w].job /\ x.extranonce2 = b.counter /\ x.nonce = b.nonce + k
        BY <1>1, <2>1, <2>2, <2>3 DEF Searches
    <2>5. x \in Headers BY <2>1, <2>2, <2>3 DEF Headers, Row
    <2>6. b.counter - First(w) < Stride
        <3>1. (b.counter - First(w)) * NonceEnd < Stride * NonceEnd
            <4>1. (b.counter - First(w)) * NonceEnd < MaxHashes + MaxBatch
                BY <1>0, <1>5, <2>2
            <4>2. Stride * NonceEnd \in Int BY <1>0, Products
            <4> QED BY <1>0, <1>5, <4>1, <4>2, RangeAssumption DEF RangeAssumption
        <3>2. b.counter - First(w) \in Int BY <1>0
        <3> QED BY <1>0, <3>1, <3>2, Products
    <2>7. InRange(w, x) BY <1>0, <1>5, <2>4, <2>6 DEF InRange
    <2> QED BY <1>0, <2>2, <2>4, <2>5, <2>7
<1> QED BY <1>1, <1>3, <1>4, <1>5, <1>6, <1>7

\* Every step keeps the search in order, and no header is hashed again.
LEMMA UndisturbedStep ==
    CpuInv /\ Next => NoHeaderTwice' /\ (undisturbed' => Undisturbed')
<1> SUFFICES ASSUME CpuInv, Next PROVE NoHeaderTwice' /\ (undisturbed' => Undisturbed')
    OBVIOUS
<1> USE CpuMinerAssumption DEF CpuMinerAssumption, CpuInv
<1>0. /\ starts \in Nat /\ job \in Nat /\ hashes \in Nat
      /\ \A w \in Workers : w[2] \in Nat /\ w[2] > 0 /\ First(w) \in Nat
      /\ \A x \in tried : x \in Headers /\ x.job \in Nat
      /\ pc \in [Workers -> {"unborn", "top", "check", "submit", "ended"}]
    <2>1. ASSUME NEW w \in Workers PROVE First(w) \in Nat
        <3>1. w[1] - 1 \in Nat /\ Stride \in Nat BY DEF Workers
        <3> QED BY <3>1 DEF First
    <2> QED BY <2>1 DEF TypeOK, WorkersKnown, Workers, Generations, Headers
<1>1. CASE Start
    <2>1. /\ ~paused' /\ starts' = starts + 1 /\ UNCHANGED <<hashes, at, repeated>>
          /\ \A w \in Workers : pc'[w] = pc[w] \/ pc'[w] = "top"
        BY <1>1 DEF Start, Disturbed, work
    <2>2. NoHeaderTwice' BY <2>1 DEF NoHeaderTwice
    <2> SUFFICES ASSUME undisturbed' PROVE Undisturbed'
        BY <2>2
    <2>3. undisturbed /\ starts = 0 /\ tried' = tried
        <3>1. Disturbed(starts > 0) BY <1>1 DEF Start
        <3>2. undisturbed /\ ~(starts > 0) /\ tried' = tried BY <3>1 DEF Disturbed
        <3> QED BY <1>0, <3>2
    <2>4. tried' = {} /\ InOwnRange BY <2>3 DEF Undisturbed, OneStart
    <2>5. OneStart' /\ TriedBefore' BY <1>0, <2>1, <2>3, <2>4 DEF OneStart, TriedBefore
    <2>6. InOwnRange' BY <2>1, <2>4 DEF InOwnRange, InJob, Done
    <2> QED BY <2>5, <2>6 DEF Undisturbed
<1>2. CASE Stop \/ Joined \/ Resume \/ NewJob \/ \E g \in Generations : WatcherEnds(g) \/ WatcherResumes(g)
    <2>1. /\ running' => running
          /\ ~paused => ~paused'
          /\ UNCHANGED <<starts, hashes, at, pc, undisturbed, tried, repeated>>
          /\ job' = job \/ job' = job + 1
        BY <1>2 DEF Stop, Joined, Resume, NewJob, WatcherEnds, WatcherResumes, flow, work, history
    <2>2. NoHeaderTwice' BY <2>1 DEF NoHeaderTwice
    <2> SUFFICES ASSUME undisturbed' PROVE Undisturbed'
        BY <2>2
    <2>3. Undisturbed BY <2>1
    <2>4. OneStart' BY <2>1, <2>3 DEF Undisturbed, OneStart
    <2>5. InOwnRange' BY <2>1, <2>3 DEF Undisturbed, InOwnRange, InJob, Done
    <2>6. TriedBefore'
        <3>1. \A x \in tried : x.job < job => x.job < job' BY <1>0, <2>1
        <3> QED BY <2>1, <2>3, <3>1 DEF Undisturbed, TriedBefore, InJob, InRange, Before
    <2> QED BY <2>4, <2>5, <2>6 DEF Undisturbed
<1>3. CASE Pause \/ \E g \in Generations : WatcherPauses(g)
    <2>1. Disturbed(TRUE) BY <1>3 DEF Pause, WatcherPauses
    <2>2. ~undisturbed' /\ repeated' = repeated BY <2>1 DEF Disturbed
    <2> QED BY <2>2 DEF NoHeaderTwice
<1>4. ASSUME NEW w \in Workers, WorkerEnds(w) \/ LeaveJob(w) \/ TakeJob(w)
      PROVE  NoHeaderTwice' /\ (undisturbed' => Undisturbed')
    <2>1. /\ UNCHANGED <<running, paused, starts, hashes, job, undisturbed, tried, repeated>>
          /\ \A v \in Workers : v # w => pc'[v] = pc[v] /\ at'[v] = at[v]
        BY <1>0, <1>4 DEF WorkerEnds, LeaveJob, TakeJob, Goto, flow, history, WorkersKnown, TypeOK
    <2>2. NoHeaderTwice' BY <2>1 DEF NoHeaderTwice
    <2> SUFFICES ASSUME undisturbed' PROVE Undisturbed'
        BY <2>2
    <2>3. Undisturbed BY <2>1
    <2>4. OneStart' BY <2>1, <2>3 DEF Undisturbed, OneStart
    <2>5. at \in [Workers -> Row] BY DEF WorkersKnown, TypeOK, Row
    <2>6. CASE TakeJob(w)
        <3>1. /\ pc[w] = "top" /\ running /\ pc'[w] = "check"
              /\ at'[w].job = job /\ at'[w].counter = First(w) /\ at'[w].nonce = 0
            BY <1>0, <2>5, <2>6 DEF TakeJob, Goto, FirstExtranonce, First, Nowhere
        <3>2. First(w) \in Int /\ NonceEnd \in Nat \ {0} BY <1>0
        <3>3. Done(w)' = 0
            <4>1. Done(w)' = (First(w) - First(w)) * NonceEnd + 0 BY <3>1 DEF Done, First
            <4> QED BY <3>2, <4>1
        <3>4. InOwnRange'
            BY <1>0, <2>1, <2>3, <3>1, <3>2, <3>3 DEF Undisturbed, InOwnRange, InJob, Done, First
        <3>5. TriedBefore'
            BY <1>0, <2>1, <2>3, <3>1 DEF Undisturbed, TriedBefore, InJob, InRange, Before, First
        <3> QED BY <2>4, <3>4, <3>5 DEF Undisturbed
    <2>7. CASE LeaveJob(w)
        <3>1. pc[w] = "check" /\ pc'[w] = "top" /\ (~running \/ job # at[w].job)
            BY <1>0, <2>3, <2>7 DEF LeaveJob, Goto, Undisturbed, OneStart
        <3>2. at[w].job \in 1 .. job /\ InJob(w) BY <3>1 DEF WorkersKnown, JobsHeld, InJob
        <3>3. InOwnRange' BY <2>1, <2>3, <3>1 DEF Undisturbed, InOwnRange, InJob, Done, First
        <3>4. \A x \in tried : w[2] = 1 /\ InRange(w, x) /\ running => x.job < job
            BY <1>0, <2>3, <3>1, <3>2 DEF Undisturbed, TriedBefore
        <3>5. TriedBefore'
            BY <2>1, <2>3, <3>1, <3>4 DEF Undisturbed, TriedBefore, InJob, InRange, Before, First
        <3> QED BY <2>4, <3>3, <3>5 DEF Undisturbed
    <2>8. CASE WorkerEnds(w)
        <3>1. pc'[w] = "ended" BY <1>0, <2>8 DEF WorkerEnds, Goto
        <3>2. InOwnRange' BY <2>1, <2>3, <3>1 DEF Undisturbed, InOwnRange, InJob, Done, First
        <3>3. TriedBefore'
            BY <2>1, <2>3, <3>1 DEF Undisturbed, TriedBefore, InJob, InRange, Before, First
        <3> QED BY <2>4, <3>2, <3>3 DEF Undisturbed
    <2> QED BY <1>4, <2>6, <2>7, <2>8
<1>5. ASSUME NEW w \in Workers, Batch(w) \/ SubmitReturns(w)
      PROVE  NoHeaderTwice' /\ (undisturbed' => Undisturbed')
    <2>1. PICK b \in Row, n \in Nat, a \in Row :
              /\ Searches(w, b, n, a) /\ n \in 0 .. b.left
              /\ pc[w] = "submit" => b = at[w]
              /\ pc[w] = "check" => hashes < MaxHashes
        BY <1>5, WorkStep DEF WorkersKnown
    <2>2. CASE ~undisturbed'
        <3>1. repeated' = repeated
            <4>1. CASE UNCHANGED history BY <4>1 DEF history
            <4>2. CASE Remembered(b, n)
                BY <2>2, <4>2 DEF Remembered, WorkersKnown, TypeOK
            <4> QED BY <2>1, <4>1, <4>2 DEF Searches
        <3> QED BY <2>2, <3>1 DEF NoHeaderTwice
    <2> SUFFICES ASSUME undisturbed' PROVE NoHeaderTwice' /\ Undisturbed'
        BY <2>2
    <2>3. /\ undisturbed /\ w[2] = 1
          /\ \/ a.counter = b.counter /\ a.nonce = b.nonce + n
             \/ a.counter = b.counter + 1 /\ a.nonce = 0 /\ b.nonce + n = NonceEnd
          /\ b.counter >= First(w)
          /\ (a.counter - First(w)) * NonceEnd + a.nonce = Done(w) + n
          /\ Done(w) \in Int /\ Done(w) <= hashes /\ Done(w) + b.left < MaxHashes + MaxBatch
          /\ \A x \in Hashed(b, n) : /\ x \in Headers /\ InRange(w, x) /\ x.job = at[w].job
                                     /\ x.extranonce2 = b.counter
                                     /\ b.nonce <= x.nonce /\ x.nonce < b.nonce + n
        BY <2>1, SearchMoves
    <2>4. /\ Undisturbed /\ InJob(w) /\ UNCHANGED <<running, paused, starts, job>>
          /\ at' = [at EXCEPT ![w] = a] /\ hashes' = hashes + n
          /\ at[w].counter = b.counter /\ at[w].nonce = b.nonce /\ at[w].job = b.job
          /\ a.job = b.job /\ a.left = b.left - n
        BY <2>1, <2>3 DEF Searches, Moved, flow
    <2>5. /\ at \in [Workers -> Row] /\ a.counter \in Nat /\ b.counter \in Nat
          /\ b.nonce \in 0 .. NonceEnd - 1 /\ b.left \in Nat /\ a.nonce \in 0 .. NonceEnd - 1
          /\ NonceEnd \in Nat
        BY DEF Row, WorkersKnown, TypeOK
    <2>6. /\ at'[w] = a /\ pc'[w] \in {"check", "submit"}
          /\ \A v \in Workers : v # w => pc'[v] = pc[v] /\ at'[v] = at[v]
        BY <1>0, <2>1, <2>4, <2>5 DEF Searches
    <2>7. tried' \subseteq tried \union Hashed(b, n)
        BY <2>1 DEF Searches, Remembered, history
    <2>8. Hashed(b, n) \intersect tried = {}
        <3> SUFFICES ASSUME NEW x \in Hashed(b, n), x \in tried PROVE FALSE
            OBVIOUS
        <3>1. x.job < at[w].job \/ (x.job = at[w].job /\ Before(x, at[w]))
            BY <2>3, <2>4 DEF Undisturbed, TriedBefore
        <3>2. x.job \in Int /\ x.nonce \in Int /\ x.extranonce2 \in Int
            BY <2>3 DEF Headers
        <3>3. x.job = at[w].job /\ x.extranonce2 = b.counter /\ b.nonce <= x.nonce BY <2>3
        <3> QED BY <2>4, <2>5, <3>1, <3>2, <3>3 DEF Before
    <2>9. NoHeaderTwice'
        BY <2>1, <2>8 DEF Searches, Remembered, history, NoHeaderTwice
    <2>10. OneStart'
        <3>1. starts # 0
            BY <1>0, <2>3, <2>4 DEF WorkersKnown, NotYetBorn, InJob
        <3> QED BY <2>4, <3>1 DEF Undisturbed, OneStart
    <2>11. InOwnRange'
        <3>1. a.counter >= First(w) BY <1>0, <2>3, <2>5
        <3>2. Done(w)' = Done(w) + n BY <2>3, <2>6 DEF Done, First
        <3>3. Done(w)' <= hashes' BY <1>0, <2>3, <2>4, <3>2
        <3>4. Done(w)' + at'[w].left < MaxHashes + MaxBatch
            BY <2>1, <2>3, <2>4, <2>5, <2>6, <3>2
        <3>5. \A v \in Workers : v # w => Done(v)' = Done(v) BY <2>6 DEF Done, First
        <3>6. \A v \in Workers : InJob(v)' => InJob(v) BY <2>4, <2>6 DEF InJob
        <3>7. \A v \in Workers : v # w /\ InJob(v) => Done(v) <= hashes + n
            <4>1. \A v \in Workers : Done(v) \in Int
                <5> SUFFICES ASSUME NEW v \in Workers PROVE Done(v) \in Int OBVIOUS
                <5>1. at[v].counter - First(v) \in Int /\ at[v].nonce \in Int
                    BY <1>0, <2>5 DEF Row
                <5>2. (at[v].counter - First(v)) * NonceEnd \in Int BY <2>5, <5>1, Products
                <5> QED BY <5>1, <5>2 DEF Done
            <4> QED BY <1>0, <2>4, <4>1 DEF Undisturbed, InOwnRange
        <3> QED BY <2>4, <2>6, <3>1, <3>3, <3>4, <3>5, <3>6, <3>7
                DEF Undisturbed, InOwnRange, InJob, First
    <2>12. TriedBefore'
        <3> SUFFICES ASSUME NEW v \in Workers, NEW x \in tried', v[2] = 1, InRange(v, x)
                     PROVE  /\ pc'[v] = "top" /\ running' => x.job < job'
                            /\ InJob(v)' => \/ x.job < at'[v].job
                                            \/ x.job = at'[v].job /\ Before(x, at'[v])
            BY DEF TriedBefore, InRange, First, Before
        <3>1. x \in Headers /\ x.nonce \in Int /\ x.extranonce2 \in Int
            BY <1>0, <2>3, <2>7 DEF Headers
        <3>2. CASE v # w
            <4>1. x \in tried BY <2>3, <2>7, <3>1, <3>2, RangesApart
            <4> QED BY <2>4, <2>6, <3>2, <4>1 DEF Undisturbed, TriedBefore, InJob
        <3>3. CASE v = w /\ x \in tried
            <4>1. x.job < at[w].job \/ (x.job = at[w].job /\ Before(x, at[w]))
                BY <2>4, <3>3 DEF Undisturbed, TriedBefore
            <4>2. Before(x, at[w]) => Before(x, a)
                BY <2>1, <2>3, <2>4, <2>5, <3>1 DEF Before
            <4> QED BY <2>4, <2>6, <3>3, <4>1, <4>2
        <3>4. CASE v = w /\ x \in Hashed(b, n)
            <4>1. x.job = at[w].job /\ x.extranonce2 = b.counter /\ x.nonce < b.nonce + n
                BY <2>3, <3>4
            <4>2. Before(x, a) BY <2>1, <2>3, <2>5, <3>1, <4>1 DEF Before
            <4> QED BY <2>4, <2>6, <3>4, <4>1, <4>2
        <3> QED BY <2>7, <3>2, <3>3, <3>4
    <2> QED BY <2>9, <2>10, <2>11, <2>12 DEF Undisturbed
<1> QED BY <1>1, <1>2, <1>3, <1>4, <1>5 DEF Next, WorkerNext

-----------------------------------------------------------------------------
(* Real compute.                                                           *)

\* The range of a worker.
RcRange(w) == {n \in Nat : w * RangeSize <= n /\ n < (w + 1) * RangeSize}

\* A worker's nonce is in its range, and what the worker has hashed too if the
\* header has room for the whole range.
RcInRanges ==
    \A w \in RcWorkers :
        /\ rcNonce[w] \in RcRange(w) /\ rcHashed[w] \subseteq 0 .. NonceSpace - 1
        /\ w \in RcFitting => rcHashed[w] \subseteq RcRange(w)

\* A session that is on its way exists, and its XMRig is one that stop ends.
RcXmrigHeld ==
    /\ rcCaller # "off" => rcSessions \in RcSessionIds
    /\ \A s \in RcSessionIds \ rcAbandoned : rcChild[s] = "runs" => s \in rcXmrig

\* The inductive invariant of real compute.
RcInv == RcTypeOK /\ RcInRanges /\ RcXmrigHeld /\ RcNothingLeftBehind

\* A worker stays in its range, and two ranges do not meet.  A range that is
\* within the nonces there are is hashed as it is.
LEMMA RcRanges ==
    ASSUME NEW w \in RcWorkers
    PROVE  /\ w * RangeSize \in RcRange(w)
           /\ RcRange(w) \subseteq 0 .. RcThreads * RangeSize
           /\ \A n \in RcRange(w) : /\ n % NonceSpace \in 0 .. NonceSpace - 1
                                    /\ w \in RcFitting => n % NonceSpace = n
                                    /\ RcNextNonce(w, n) \in RcRange(w)
           /\ \A v \in RcWorkers : v # w => RcRange(v) \intersect RcRange(w) = {}
<1>0. /\ RangeSize \in Nat \ {0} /\ RcThreads \in Nat /\ NonceSpace \in Nat \ {0}
    BY RealAssumption DEF RealAssumption
<1>1. /\ w \in Int /\ w + 1 \in Int /\ 0 <= w /\ w + 1 <= RcThreads
    BY <1>0 DEF RcWorkers
<1>2. /\ w * RangeSize \in Int /\ (w + 1) * RangeSize = w * RangeSize + RangeSize
      /\ 0 * RangeSize <= w * RangeSize
    BY <1>0, <1>1, Products
<1>3. (w + 1) * RangeSize <= RcThreads * RangeSize /\ RcThreads * RangeSize \in Int
    BY <1>0, <1>1, Products
<1>4. w * RangeSize \in Nat BY <1>0, <1>2
<1>5. w * RangeSize \in RcRange(w) BY <1>0, <1>2, <1>4 DEF RcRange
<1>6. RcRange(w) \subseteq 0 .. RcThreads * RangeSize
    <2> SUFFICES ASSUME NEW n \in Nat, n < (w + 1) * RangeSize
                 PROVE  n \in 0 .. RcThreads * RangeSize
        BY DEF RcRange
    <2> DEFINE p == (w + 1) * RangeSize  q == RcThreads * RangeSize
    <2>1. p \in Int /\ p <= q /\ q \in Int /\ n < p BY <1>0, <1>2, <1>3
    <2> HIDE DEF p, q
    <2>2. n \in 0 .. q BY <2>1
    <2> QED BY <2>2 DEF q
<1>7. ASSUME NEW n \in RcRange(w)
      PROVE  /\ n % NonceSpace \in 0 .. NonceSpace - 1
             /\ w \in RcFitting => n % NonceSpace = n
             /\ RcNextNonce(w, n) \in RcRange(w)
    <2>1. n \in Nat BY <1>7 DEF RcRange
    <2>2. n % NonceSpace \in 0 .. NonceSpace - 1 BY <1>0, <2>1, Remainder
    <2>3. ASSUME w \in RcFitting PROVE n % NonceSpace = n
        <3> DEFINE p == (w + 1) * RangeSize
        <3>1. p \in Int /\ p <= NonceSpace /\ n < p BY <1>0, <1>2, <1>7, <2>3 DEF RcFitting, RcRange
        <3> HIDE DEF p
        <3>2. n \in 0 .. NonceSpace - 1 BY <1>0, <2>1, <3>1
        <3> QED BY <1>0, <3>2, Remainder
    <2>4. CASE n + 1 >= (w + 1) * RangeSize
        <3>1. RcNextNonce(w, n) = w * RangeSize BY <2>4, Zenon DEF RcNextNonce
        <3> QED BY <1>5, <2>2, <2>3, <3>1, Zenon
    <2>5. CASE ~(n + 1 >= (w + 1) * RangeSize)
        <3>1. RcNextNonce(w, n) = n + 1 BY <2>5 DEF RcNextNonce
        <3>2. n + 1 < (w + 1) * RangeSize /\ w * RangeSize <= n + 1 /\ n + 1 \in Nat
            BY <1>0, <1>2, <1>7, <2>1, <2>5 DEF RcRange
        <3>3. n + 1 \in RcRange(w)
            <4> DEFINE low == w * RangeSize  high == (w + 1) * RangeSize
            <4>1. RcRange(w) = {k \in Nat : low <= k /\ k < high} BY DEF RcRange
            <4>2. n + 1 < high /\ low <= n + 1 BY <3>2
            <4> HIDE DEF low, high
            <4> QED BY <3>2, <4>1, <4>2
        <3> QED BY <2>2, <2>3, <3>1, <3>3, Zenon
    <2> QED BY <2>4, <2>5
<1>8. ASSUME NEW v \in RcWorkers, v # w PROVE RcRange(v) \intersect RcRange(w) = {}
    <2>1. v \in Int /\ v + 1 \in Int BY <1>0 DEF RcWorkers
    <2>2. ASSUME NEW i \in Int, NEW j \in Int, i < j, NEW n \in Nat,
                 n < (i + 1) * RangeSize, j * RangeSize <= n
          PROVE  FALSE
        <3>1. i + 1 \in Int /\ i + 1 <= j BY <2>2
        <3>2. (i + 1) * RangeSize <= j * RangeSize BY <1>0, <2>2, <3>1, Products
        <3>3. (i + 1) * RangeSize \in Int /\ j * RangeSize \in Int BY <1>0, <2>2, <3>1, Products
        <3> QED BY <2>2, <3>2, <3>3
    <2>3. v < w \/ w < v BY <1>1, <1>8, <2>1
    <2> QED BY <1>1, <2>1, <2>2, <2>3 DEF RcRange
<1> QED BY <1>5, <1>6, <1>7, <1>8

\* Real compute begins in the invariant.
LEMMA RcBegins == RcInit => RcInv
<1> SUFFICES ASSUME RcInit PROVE RcInv
    OBVIOUS
<1>1. RcInRanges BY RcRanges DEF RcInit, RcInRanges
<1>2. RcTypeOK BY <1>1, RcRanges, RealAssumption DEF RealAssumption, RcInit, RcTypeOK, RcInRanges
<1>3. RcXmrigHeld /\ RcNothingLeftBehind BY DEF RcInit, RcXmrigHeld, RcNothingLeftBehind
<1> QED BY <1>1, <1>2, <1>3 DEF RcInv

\* Every step of real compute keeps the invariant.
LEMMA RcStays == RcInv /\ [RcNext]_rcVars => RcInv'
<1> SUFFICES ASSUME RcInv, [RcNext]_rcVars PROVE RcInv'
    OBVIOUS
<1> USE RealAssumption DEF RealAssumption, RcInv
<1>1. CASE RcStart
    BY <1>1 DEF RcStart, rcEngines, rcWork, RcTypeOK, RcInRanges, RcXmrigHeld, RcNothingLeftBehind,
                RcSessionIds
<1>2. CASE RcStartXmrig
    BY <1>2 DEF RcStartXmrig, rcWork, RcTypeOK, RcInRanges, RcXmrigHeld, RcNothingLeftBehind
<1>3. CASE RcStartCpu \/ RcStartCpuRaises
    <2>1. RcInRanges' BY <1>3, RcRanges DEF RcStartCpu, RcStartCpuRaises, RcInRanges
    <2>2. \A w \in RcWorkers : rcNonce'[w] \in 0 .. RcThreads * RangeSize
                               /\ rcHashed'[w] \subseteq 0 .. NonceSpace - 1
        BY <2>1, RcRanges DEF RcInRanges
    <2>3. /\ rcNonce' = [w \in RcWorkers |-> rcNonce'[w]]
          /\ rcHashed' = [w \in RcWorkers |-> rcHashed'[w]]
        BY <1>3 DEF RcStartCpu, RcStartCpuRaises, RcTypeOK
    <2>4. rcWorker' \in [RcSessionIds -> [RcWorkers -> {"none", "loop", "hash", "ended"}]]
        BY <1>3 DEF RcStartCpu, RcStartCpuRaises, RcTypeOK
    <2>5. /\ rcNonce' \in [RcWorkers -> 0 .. RcThreads * RangeSize]
          /\ rcHashed' \in [RcWorkers -> SUBSET (0 .. NonceSpace - 1)]
        BY <2>2, <2>3
    <2>6. RcTypeOK' BY <1>3, <2>4, <2>5 DEF RcStartCpu, RcStartCpuRaises, RcTypeOK, RcXmrigHeld
    <2>7. RcXmrigHeld' /\ RcNothingLeftBehind'
        BY <1>3 DEF RcStartCpu, RcStartCpuRaises, RcXmrigHeld, RcNothingLeftBehind
    <2> QED BY <2>1, <2>6, <2>7
<1>4. CASE RcStop
    BY <1>4 DEF RcStop, rcWork, RcTypeOK, RcInRanges, RcXmrigHeld, RcNothingLeftBehind
<1>5. ASSUME NEW s \in RcSessionIds, RcChildEnds(s) PROVE RcInv'
    BY <1>5 DEF RcChildEnds, rcWork, RcTypeOK, RcInRanges, RcXmrigHeld, RcNothingLeftBehind
<1>6. ASSUME NEW s \in RcSessionIds, NEW w \in RcWorkers, RcLoop(s, w) PROVE RcInv'
    BY <1>6 DEF RcLoop, rcEngines, RcTypeOK, RcInRanges, RcXmrigHeld, RcNothingLeftBehind
<1>7. ASSUME NEW s \in RcSessionIds, NEW w \in RcWorkers, RcHash(s, w) PROVE RcInv'
    <2>1. /\ UNCHANGED <<rcCaller, rcSessions, rcEngines, rcAbandoned>>
          /\ rcWorker' = [rcWorker EXCEPT ![s][w] = "loop"]
        BY <1>7 DEF RcHash
    <2>2. rcWorker' \in [RcSessionIds -> [RcWorkers -> {"none", "loop", "hash", "ended"}]]
        BY <2>1 DEF RcTypeOK
    <2>3. RcInRanges'
        <3>1. rcNonce[w] \in RcRange(w) BY DEF RcInRanges
        <3>2. /\ rcNonce[w] % NonceSpace \in 0 .. NonceSpace - 1
              /\ w \in RcFitting => rcNonce[w] % NonceSpace = rcNonce[w]
              /\ RcNextNonce(w, rcNonce[w]) \in RcRange(w)
            BY <3>1, RcRanges
        <3>3. ASSUME NEW v \in RcWorkers
              PROVE  /\ rcNonce'[v] \in {rcNonce[v]} \union
                           (IF v = w THEN {RcNextNonce(w, rcNonce[w])} ELSE {})
                     /\ rcHashed'[v] \subseteq rcHashed[v] \union
                           (IF v = w THEN {rcNonce[w] % NonceSpace} ELSE {})
            BY <1>7 DEF RcHash, RcTypeOK
        <3> HIDE DEF RcInv
        <3> QED BY <3>1, <3>2, <3>3 DEF RcInRanges, RcInv
    <2>4. /\ rcNonce' \in [RcWorkers -> 0 .. RcThreads * RangeSize]
          /\ rcHashed' \in [RcWorkers -> SUBSET (0 .. NonceSpace - 1)]
        <3>1. \A v \in RcWorkers : rcNonce'[v] \in 0 .. RcThreads * RangeSize
                                   /\ rcHashed'[v] \subseteq 0 .. NonceSpace - 1
            BY <2>3, RcRanges DEF RcInRanges
        <3>2. /\ rcNonce' = [v \in RcWorkers |-> rcNonce'[v]]
              /\ rcHashed' = [v \in RcWorkers |-> rcHashed'[v]]
            BY <1>7 DEF RcHash, RcTypeOK
        <3> QED BY <3>1, <3>2
    <2> QED BY <2>1, <2>2, <2>3, <2>4 DEF rcEngines, RcTypeOK, RcInRanges, RcXmrigHeld, RcNothingLeftBehind
<1>8. CASE UNCHANGED rcVars
    BY <1>8 DEF rcVars, rcEngines, rcWork, RcTypeOK, RcInRanges, RcXmrigHeld, RcNothingLeftBehind
<1> QED BY <1>1, <1>2, <1>3, <1>4, <1>5, <1>6, <1>7, <1>8 DEF RcNext

\* In the invariant a nonce has one worker among those whose ranges fit.
LEMMA RcOneWorker == RcInv => RcNonceHasOneWorker
BY RcRanges DEF RcInv, RcInRanges, RcNonceHasOneWorker, RcFitting

-----------------------------------------------------------------------------
(* The external miner.                                                     *)

\* Where the call of the strategy is, its session and its child fit together.
RigCallFits ==
    /\ rigCaller = "spawn" => rigSession = "off"
    /\ rigCaller = "wait" => rigSession = "gpu" /\ ~rigRunning /\ rigHeld \in rigTold
    /\ rigSession = "gpu" => rigHeld \in 1 .. rigChildren

\* A child that was not told to end is marked as running.
RigRunningKnown == rigAlive \ rigTold # {} => rigRunning

\* The inductive invariant of the external miner.
RigInv == RigTypeOK /\ RigCallFits /\ RigRunningKnown /\ RigNoStrayChild /\ RigPipeIsRead

\* The external miner begins in the invariant.
LEMMA RigBegins == RigInit => RigInv
<1> SUFFICES ASSUME RigInit PROVE RigInv
    OBVIOUS
<1>1. RigTypeOK
    <2>1. rigAlive \union rigTold \union rigUnread \subseteq 1 .. rigChildren /\ rigKilled \subseteq rigTold
        BY DEF RigInit
    <2>2. rigChildren \in 0 .. MaxChildren BY RigAssumption DEF RigAssumption, RigInit
    <2>3. /\ rigReader \in [Children -> {"none", "test", "read", "ended"}]
          /\ rigSource \in [Children -> {NoChild} \union Children]
        BY DEF RigInit
    <2> QED BY <2>1, <2>2, <2>3 DEF RigInit, RigTypeOK
<1>2. RigCallFits /\ RigRunningKnown /\ RigNoStrayChild /\ RigPipeIsRead
    BY DEF RigInit, RigCallFits, RigRunningKnown, RigNoStrayChild, RigPipeIsRead
<1> QED BY <1>1, <1>2 DEF RigInv

\* Every step of the external miner keeps the invariant.
LEMMA RigStays == RigInv /\ [RigNext]_rigVars => RigInv'
<1> SUFFICES ASSUME RigInv, [RigNext]_rigVars PROVE RigInv'
    OBVIOUS
<1> USE RigAssumption DEF RigAssumption, RigInv, Children, NoChild
<1>1. CASE RigAges \/ RigSetVirtual \/ RigStart \/ RigNoMiner \/ RigStopCpu
    <2>1. /\ UNCHANGED <<rigProcess, rigOutput>>
          /\ rigFresh' \in BOOLEAN /\ rigVirtual' \in BOOLEAN
          /\ rigListed' \in {"none", "physical", "virtual"}
          /\ \/ UNCHANGED <<rigSession, rigCaller>>
             \/ /\ rigSession # "gpu" /\ rigCaller # "wait"
                /\ \/ rigCaller' = "idle" /\ rigSession' \in {"off", "cpu"}
                   \/ rigCaller' = "spawn" /\ rigSession' = "off"
        BY <1>1 DEF RigAges, RigSetVirtual, RigStart, RigNoMiner, RigStopCpu, DetectDevices, Detected,
           rigProcess, rigOutput, rigDetector, rigCall, RigTypeOK, RigCallFits
    <2> QED BY <2>1 DEF rigProcess, rigOutput, RigTypeOK, RigCallFits, RigRunningKnown,
           RigNoStrayChild, RigPipeIsRead
<1>2. CASE RigSpawn \/ RigSpawnUnread
    <2> DEFINE c == rigChildren + 1
    <2>1. /\ c \in Children /\ c \notin rigAlive \union rigTold \union rigUnread /\ rigSession = "off"
          /\ rigHeld' = c /\ rigChildren' = c /\ rigRunning' /\ rigAlive' = rigAlive \union {c}
          /\ rigAlive \ rigTold = {}
          /\ rigCaller' = "idle" /\ UNCHANGED <<rigTold, rigKilled, rigSource, rigDetector>>
        BY <1>2 DEF RigSpawn, RigSpawnUnread, Spawn, RigTypeOK, RigCallFits, RigRunningKnown
    <2>2. \/ rigSession' = "gpu" /\ rigReader' = [rigReader EXCEPT ![c] = "test"] /\ UNCHANGED rigUnread
          \/ rigSession' = "cpu" /\ rigUnread' = rigUnread \union {c} /\ UNCHANGED rigReader
        BY <1>2 DEF RigSpawn, RigSpawnUnread, Spawn
    <2>3. RigTypeOK' 
        BY <2>1, <2>2 DEF RigTypeOK, rigDetector
    <2>4. rigAlive' \ rigTold' = {c} BY <2>1
    <2>5. RigCallFits' BY <2>1, <2>2 DEF RigCallFits, RigTypeOK
    <2>6. RigRunningKnown' /\ RigNoStrayChild' BY <2>1, <2>2, <2>4 DEF RigRunningKnown, RigNoStrayChild
    <2>7. RigPipeIsRead' BY <2>1, <2>2, <2>4 DEF RigPipeIsRead, RigTypeOK
    <2> QED BY <2>3, <2>5, <2>6, <2>7
<1>3. CASE RigTerminate \/ RigStopNext
    <2>1. /\ UNCHANGED <<rigChildren, rigAlive, rigUnread, rigReader, rigSource, rigDetector>>
          /\ rigSession = "gpu" /\ rigHeld \in 1 .. rigChildren /\ rigTold' = rigTold \union {rigHeld}
          /\ ~rigRunning' /\ rigRunning' \in BOOLEAN
          /\ \/ /\ rigCaller' = "wait" /\ rigSession' = "gpu" /\ rigHeld' = rigHeld
                /\ rigKilled' = rigKilled
             \/ /\ rigCaller' = "idle" /\ rigSession' = "off" /\ rigHeld' = NoChild
                /\ rigKilled' \subseteq rigKilled \union {rigHeld}
        <3>1. CASE RigTerminate
            BY <3>1 DEF RigTerminate, RigCallFits, rigDetector, rigOutput, RigTypeOK
        <3>2. CASE RigWaitEnds
            BY <3>2 DEF RigWaitEnds, RigStopped, RigCallFits, rigDetector, rigOutput, RigTypeOK
        <3>3. CASE RigWaitTimesOut
            BY <3>3 DEF RigWaitTimesOut, RigStopped, RigCallFits, rigDetector, rigOutput, RigTypeOK
        <3> QED BY <1>3, <3>1, <3>2, <3>3 DEF RigStopNext
    <2>2. rigAlive' \ rigTold' = {} BY <2>1 DEF RigNoStrayChild
    <2>3. RigTypeOK' BY <2>1 DEF RigTypeOK, rigDetector
    <2>4. RigCallFits' BY <2>1 DEF RigCallFits
    <2> QED BY <2>2, <2>3, <2>4 DEF RigRunningKnown, RigNoStrayChild, RigPipeIsRead
<1>4. ASSUME NEW c \in Children, RigChildEnds(c) PROVE RigInv'
    BY <1>4 DEF RigChildEnds, rigDetector, rigOutput, rigCall, RigTypeOK, RigCallFits, RigRunningKnown,
       RigNoStrayChild, RigPipeIsRead
<1>5. ASSUME NEW c \in Children, RigReaderTest(c) \/ RigReaderEof(c) \/ RigReaderLine(c) PROVE RigInv'
    <2>1. /\ UNCHANGED <<rigDetector, rigProcess, rigCall>>
          /\ rigReader' \in [Children -> {"none", "test", "read", "ended"}]
          /\ rigSource' \in [Children -> {NoChild} \union Children]
          /\ \A r \in Children : r # c => rigReader'[r] = rigReader[r] /\ rigSource'[r] = rigSource[r]
          /\ \/ rigReader'[c] = "test"
             \/ rigReader'[c] = "read" /\ rigSource'[c] = rigHeld
             \/ rigReader[c] = "read" /\ rigSource[c] \notin rigAlive
             \/ rigReader[c] = "test" /\ ~(rigRunning /\ rigHeld # NoChild)
        <3>1. CASE RigReaderTest(c) BY <3>1 DEF RigReaderTest, RigTypeOK
        <3>2. CASE RigReaderEof(c) BY <3>2 DEF RigReaderEof, RigTypeOK
        <3>3. CASE RigReaderLine(c) BY <3>3 DEF RigReaderLine, RigTypeOK
        <3> QED BY <1>5, <3>1, <3>2, <3>3
    <2>2. RigTypeOK' BY <2>1 DEF RigTypeOK, rigDetector, rigProcess, rigCall
    <2>3. RigCallFits' /\ RigRunningKnown' /\ RigNoStrayChild'
        BY <2>1 DEF RigCallFits, RigRunningKnown, RigNoStrayChild, rigProcess, rigCall
    <2>4. RigPipeIsRead'
        <3> SUFFICES ASSUME NEW d \in rigAlive \ (rigTold \union rigUnread)
                     PROVE  \E r \in Children : rigReader'[r] = "test"
                                  \/ (rigReader'[r] = "read" /\ rigSource'[r] = d)
            BY <2>1 DEF RigPipeIsRead, rigProcess
        <3>1. rigHeld = d /\ rigRunning /\ rigHeld # NoChild
            BY DEF RigNoStrayChild, RigRunningKnown, RigTypeOK
        <3> QED BY <2>1, <3>1 DEF RigPipeIsRead
    <2> QED BY <2>2, <2>3, <2>4
<1>6. ASSUME NEW c \in Children, RigReaderRaises(c) PROVE RigInv'
    BY <1>6 DEF RigReaderRaises, rigDetector, rigCall, RigTypeOK, RigCallFits, RigRunningKnown,
       RigNoStrayChild, RigPipeIsRead
<1>7. CASE UNCHANGED rigVars
    BY <1>7 DEF rigVars, rigDetector, rigProcess, rigOutput, rigCall, RigTypeOK, RigCallFits,
       RigRunningKnown, RigNoStrayChild, RigPipeIsRead
<1> QED BY <1>1, <1>2, <1>3, <1>4, <1>5, <1>6, <1>7 DEF RigNext, RigReaderNext

-----------------------------------------------------------------------------
(* The power limits.                                                       *)

\* The power limits begin within their bounds.
LEMMA PowBegins == PowInit => PowTypeOK
<1> SUFFICES ASSUME PowInit PROVE PowTypeOK
    OBVIOUS
<1>1. powProfile \in [Profiles -> Floor .. Stock] BY DEF PowInit, Floor, Stock
<1>2. powLimit \in [Gpus -> Floor .. Full] BY DEF PowInit, Floor, Full
<1>3. powFails \in 0 .. MaxFails BY PowerAssumption DEF PowerAssumption, PowInit
<1> QED BY <1>1, <1>2, <1>3 DEF PowInit, PowTypeOK

\* Every step keeps them there.
LEMMA PowStays == PowTypeOK /\ [PowNext]_powVars => PowTypeOK'
<1> SUFFICES ASSUME PowTypeOK, [PowNext]_powVars PROVE PowTypeOK'
    OBVIOUS
<1> USE PowerAssumption DEF PowerAssumption, Floor, Stock, Full
<1>1. CASE PowStart
    <2>1. /\ powApplied' = Gpus /\ powMonitor' = TRUE /\ powMining' = TRUE /\ powHot' = powHot
          /\ powProfile' = [p \in Profiles |-> IF p \in Gpus \ Known THEN Stock ELSE powProfile[p]]
        BY <1>1 DEF PowStart
    <2>2. powProfile' \in [Profiles -> Floor .. Stock] BY <2>1 DEF PowTypeOK
    <2>3. PICK failing \in SUBSET Gpus :
              /\ powFails + Cardinality(failing) <= MaxFails
              /\ powFails' = powFails + Cardinality(failing)
              /\ powLimit' = [g \in Gpus |-> IF g \in failing THEN powLimit[g]
                                                              ELSE powProfile'[Profile(g)]]
        BY <1>1 DEF PowStart
    <2>4. powFails' \in 0 .. MaxFails
        <3>1. Cardinality(failing) \in Nat BY FS_Subset, FS_CardinalityType
        <3> QED BY <2>3, <3>1 DEF PowTypeOK
    <2>5. \A g \in Gpus : Profile(g) \in Profiles BY DEF Profiles
    <2>6. powLimit' \in [Gpus -> Floor .. Full] BY <2>2, <2>3, <2>5 DEF PowTypeOK
    <2> QED BY <2>1, <2>2, <2>4, <2>6 DEF PowTypeOK
<1>2. CASE PowStop BY <1>2 DEF PowStop, PowTypeOK
<1>3. CASE PowAiSets
    <2>1. powLimit' \in [Gpus -> Floor .. Full] BY <1>3 DEF PowAiSets, PowTypeOK
    <2> QED BY <1>3, <2>1 DEF PowAiSets, PowTypeOK
<1>4. ASSUME NEW g \in Gpus, PowTemperature(g) \/ PowThrottle(g) PROVE PowTypeOK'
    <2>1. Profile(g) \in Profiles BY DEF Profiles
    <2> QED BY <1>4, <2>1 DEF PowTemperature, PowThrottle, PowTypeOK
<1>5. CASE UNCHANGED powVars
    BY <1>5 DEF powVars, PowTypeOK
<1> QED BY <1>1, <1>2, <1>3, <1>4, <1>5 DEF PowNext

-----------------------------------------------------------------------------
(* The theorems.                                                           *)

\* The CPU miner begins in the invariant.
LEMMA CpuBegins == Init => CpuInv
<1> SUFFICES ASSUME Init PROVE CpuInv
    OBVIOUS
<1> USE CpuMinerAssumption DEF CpuMinerAssumption
<1>1. NoShare \in Headers /\ Nowhere \in Row BY DEF NoShare, Headers, Nowhere, Row
<1>2. TypeOK
    <2>1. at \in [Workers -> Row] /\ share \in [Workers -> Headers] BY <1>1 DEF Init
    <2>2. \A w \in Workers : pc[w] = "submit" <=> share[w] # NoShare BY DEF Init
    <2>3. starts \in 0 .. MaxStarts /\ job \in 0 .. MaxJobs /\ hashes \in Nat BY DEF Init
    <2> QED BY <2>1, <2>2, <2>3 DEF Init, TypeOK, Row
<1>3. NotYetBorn /\ JobsHeld /\ ShareWasHashed /\ NoHeaderTwice
    BY DEF Init, NotYetBorn, JobsHeld, ShareWasHashed, NoHeaderTwice, InJob
<1>4. Undisturbed BY DEF Init, Undisturbed, OneStart, InOwnRange, TriedBefore, InJob
<1> QED BY <1>2, <1>3, <1>4 DEF CpuInv, WorkersKnown

\* Every step of the CPU miner keeps it.
LEMMA CpuStays == CpuInv /\ [Next]_vars => CpuInv'
<1>1. CpuInv /\ Next => CpuInv'
    BY WorkersKnownStep, UndisturbedStep DEF CpuInv
<1>2. CpuInv /\ UNCHANGED vars => CpuInv'
    BY DEF vars, flow, work, history, CpuInv, WorkersKnown, TypeOK, NotYetBorn, JobsHeld,
           ShareWasHashed, LastHeader, NoHeaderTwice, Undisturbed, OneStart, InOwnRange,
           TriedBefore, InJob, InRange, First, Before, Done
<1> QED BY <1>1, <1>2

\* A behaviour of the composition is one of each component.
LEMMA EnginesParts ==
    EnginesSpec => /\ Init /\ [][Next]_vars
                   /\ RigInit /\ [][RigNext]_rigVars
                   /\ PowInit /\ [][PowNext]_powVars
                   /\ RcInit /\ [][RcNext]_rcVars
                   /\ PdInit /\ [][PdNext]_pdVars
<1>1. EnginesInit => Init /\ RigInit /\ PowInit /\ RcInit /\ PdInit
    BY DEF EnginesInit
<1>2. [EnginesNext]_engineVars => /\ [Next]_vars /\ [RigNext]_rigVars /\ [PowNext]_powVars
                                  /\ [RcNext]_rcVars /\ [PdNext]_pdVars
    BY DEF EnginesNext, engineVars
<1> QED BY <1>1, <1>2, PTL DEF EnginesSpec

\* No header has two workers of the CPU miner as long as the miner is not
\* paused or started again, no nonce has two workers of real compute, and every
\* share names the header that was hashed.
THEOREM HashingSound == EnginesSpec => []HashingIsSound
<1>1. CpuInv /\ RcInv => HashingIsSound
    BY RcOneWorker DEF CpuInv, WorkersKnown, HashingIsSound
<1> QED BY <1>1, EnginesParts, CpuBegins, CpuStays, RcBegins, RcStays, PTL

\* No start, stop, fallback or end of a child leaves an external miner or an
\* engine of real compute that no session holds and none was told to end.
THEOREM EnginesEnd == EnginesSpec => []NoEngineLeftBehind
<1>1. RigInv /\ RcInv => NoEngineLeftBehind
    BY DEF RigInv, RcInv, NoEngineLeftBehind
<1> QED BY <1>1, EnginesParts, RigBegins, RigStays, RcBegins, RcStays, PTL

\* The pipe of an external miner that runs has a thread that reads it.
THEOREM PipeRead == EnginesSpec => []RigPipeIsRead
<1>1. RigInv => RigPipeIsRead
    BY DEF RigInv
<1> QED BY <1>1, EnginesParts, RigBegins, RigStays, PTL

\* The types of the five components: a nonce below its end, a batch within its
\* size, a limit within its bounds, a listed pool the last made for its id.
THEOREM EnginesTypes == EnginesSpec => []EnginesTypeOK
<1>1. CpuInv /\ RigInv /\ PowTypeOK /\ RcInv /\ PdTypeOK => EnginesTypeOK
    BY DEF CpuInv, WorkersKnown, RigInv, RcInv, EnginesTypeOK
<1> QED BY <1>1, EnginesParts, CpuBegins, CpuStays, RigBegins, RigStays, PowBegins, PowStays,
           RcBegins, RcStays, InitHolds, NextKeeps, PdTypesBegin, PdTypesStay, PTL
=============================================================================
