------------------------------- MODULE CpuMiner -------------------------------
(***************************************************************************)
(* CPUMiner (nexus/strategies/pow_mining.py): worker threads that search   *)
(* headers of the current job, the thread that watches the load, and the   *)
(* callers that start, stop, pause and resume it.  start and stop are      *)
(* called under the lock of PoWMiningStrategy, pause and resume are not.   *)
(*                                                                         *)
(* A header is a job, an extranonce2 and a nonce.  Numbers are scaled      *)
(* down: NonceEnd stands for 0xFFFFFFFF, where the nonce wraps, and Stride *)
(* for 2^24, the distance between the extranonce2 of two workers.  Whether *)
(* a hash meets the target is a choice, as is the batch size, which the    *)
(* load watcher tunes.  Intensity, which only sets the pauses between      *)
(* batches, is left out.                                                   *)
(***************************************************************************)
EXTENDS Integers, FiniteSets

CONSTANTS
  NumThreads,    \* self.threads
  NonceEnd, Stride,
  MaxBatch,      \* bound: largest batch
  MaxStarts,     \* bound: starts of the miner
  MaxJobs,       \* bound: jobs of the pool
  MaxHashes      \* bound: hashes after which no batch begins

Generations == 1 .. MaxStarts
Workers == (1 .. NumThreads) \X Generations    \* thread_id + 1, start() that made it

ASSUME CpuMinerAssumption ==
  /\ NumThreads \in Nat \ {0} /\ MaxStarts \in Nat \ {0}
  /\ NonceEnd \in Nat \ {0} /\ Stride \in Nat \ {0} /\ MaxBatch \in Nat \ {0}
  /\ MaxJobs \in Nat /\ MaxHashes \in Nat

\* A worker has more headers of a job than the bounds let it hash: in the code
\* 2^24 times 2^32.
ASSUME RangeAssumption == MaxHashes + MaxBatch <= Stride * NonceEnd

VARIABLES
  running, paused,        \* self._running, self._paused
  starts,                 \* generations of workers made so far
  ctl,                    \* the caller of start and stop: "idle", "up" or "joining"
  hashes,                 \* hashes computed since the client was built
  job,                    \* the client's current job, 0 if there is none
  pc,                     \* where each worker is
  at,                     \* its job, extranonce2 counter, nonce, header, rest of the batch
  share,                  \* the share it is submitting
  watcher,                \* the load watcher of each start
  undisturbed,            \* history: no pause, no second start, no wrap inside a batch
  tried, repeated         \* history: headers hashed so far, one of them twice

flow == <<running, paused, starts, ctl, watcher>>
work == <<hashes, pc, at, share>>
history == <<undisturbed, tried, repeated>>
vars == <<flow, work, job, history>>

NoShare == [job |-> 0, extranonce2 |-> 0, nonce |-> 0]
Nowhere == [job |-> 0, counter |-> 0, nonce |-> 0, extranonce2 |-> 0, left |-> 0]

Init ==
  /\ running = FALSE /\ paused = FALSE /\ starts = 0 /\ ctl = "idle" /\ hashes = 0 /\ job = 0
  /\ pc = [w \in Workers |-> "unborn"]
  /\ at = [w \in Workers |-> Nowhere]
  /\ share = [w \in Workers |-> NoShare]
  /\ watcher = [g \in Generations |-> "unborn"]
  /\ undisturbed = TRUE /\ tried = {} /\ repeated = FALSE

\* Headers are recorded as long as nothing has disturbed the search.
Disturbed(really) ==
  /\ undisturbed' = (undisturbed /\ ~really)
  /\ tried' = IF undisturbed' THEN tried ELSE {}
  /\ UNCHANGED repeated

Goto(w, where) == pc' = [pc EXCEPT ![w] = where]
-----------------------------------------------------------------------------
(* start and stop.  stop joins each thread for at most 2 s and forgets it, *)
(* ended or not.                                                           *)
Start ==
  /\ ctl = "idle" /\ starts < MaxStarts
  /\ ctl' = "up"
  /\ starts' = starts + 1
  /\ running' = TRUE /\ paused' = FALSE
  /\ pc' = [w \in Workers |-> IF w[2] = starts + 1 THEN "top" ELSE pc[w]]
  /\ watcher' = [watcher EXCEPT ![starts + 1] = "asleep"]
  /\ Disturbed(starts > 0)
  /\ UNCHANGED <<hashes, job, at, share>>

Stop ==
  /\ ctl = "up"
  /\ ctl' = "joining"
  /\ running' = FALSE
  /\ UNCHANGED <<paused, starts, watcher, work, job, history>>

Joined ==
  /\ ctl = "joining"
  /\ ctl' = "idle"
  /\ UNCHANGED <<running, paused, starts, watcher, work, job, history>>

\* pause and resume, from the API.
Pause ==
  /\ paused' = TRUE
  /\ Disturbed(TRUE)
  /\ UNCHANGED <<running, starts, ctl, watcher, work, job>>

Resume ==
  /\ paused' = FALSE
  /\ UNCHANGED <<running, starts, ctl, watcher, work, job, history>>

\* _resource_monitor_loop, after its sleep: it ends with the session, pauses
\* the miner above 95 % load, or wakes it below 80 %, whoever paused it.
WatcherEnds(g) ==
  /\ watcher[g] = "asleep" /\ ~running
  /\ watcher' = [watcher EXCEPT ![g] = "ended"]
  /\ UNCHANGED <<running, paused, starts, ctl, work, job, history>>

WatcherPauses(g) ==
  /\ watcher[g] = "asleep" /\ running
  /\ paused' = TRUE
  /\ Disturbed(TRUE)
  /\ UNCHANGED <<running, starts, ctl, watcher, work, job>>

WatcherResumes(g) ==
  /\ watcher[g] = "asleep" /\ running
  /\ paused' = FALSE
  /\ UNCHANGED <<running, starts, ctl, watcher, work, job, history>>

\* The pool sends another job to the client (StratumClient, external here).
NewJob ==
  /\ job < MaxJobs
  /\ job' = job + 1
  /\ UNCHANGED <<flow, work, history>>
-----------------------------------------------------------------------------
(* _mine_worker.                                                           *)
WorkerEnds(w) ==
  /\ pc[w] = "top" /\ ~running
  /\ Goto(w, "ended")
  /\ UNCHANGED <<flow, hashes, at, share, job, history>>

\* Fault variant: every worker searches from extranonce2 0.
FirstExtranonceZero(w) == 0

FirstExtranonce(w) == (w[1] - 1) * Stride

\* Into _mine_job, from the first header of its range.
TakeJob(w) ==
  /\ pc[w] = "top" /\ running /\ ~paused
  /\ job # 0
  /\ at' = [at EXCEPT ![w] = [Nowhere EXCEPT !.job = job, !.counter = FirstExtranonce(w)]]
  /\ Goto(w, "check")
  /\ UNCHANGED <<flow, hashes, share, job, history>>

\* Fault variant: the loop over batches looks at the job and the pause only.
LeaveJobRunning(w) ==
  /\ pc[w] = "check"
  /\ paused \/ job # at[w].job
  /\ Goto(w, "top")
  /\ at' = [at EXCEPT ![w] = Nowhere]
  /\ UNCHANGED <<flow, hashes, share, job, history>>

\* Between batches: back to the loop of the worker when the miner stops or
\* pauses or the job has changed, ...
LeaveJob(w) ==
  /\ pc[w] = "check"
  /\ ~running \/ paused \/ job # at[w].job
  /\ Goto(w, "top")
  /\ at' = [at EXCEPT ![w] = Nowhere]
  /\ UNCHANGED <<flow, hashes, share, job, history>>

\* Fault variant: the nonce reaches its end before it wraps.
HashSomeToTheEnd(w, b, n) ==
  /\ hashes' = hashes + n
  /\ at' = [at EXCEPT ![w] = [b EXCEPT !.nonce = (@ + n) % (NonceEnd + 1),
                                       !.counter = @ + ((b.nonce + n) \div (NonceEnd + 1)),
                                       !.left = @ - n]]
  /\ UNCHANGED history

\* The next n hashes of batch b, all under one header: the nonce wraps within
\* the batch, and only the counter moves on.
HashSome(w, b, n) ==
  LET headers == {[job |-> b.job, extranonce2 |-> b.extranonce2,
                   nonce |-> (b.nonce + k) % NonceEnd] : k \in 0 .. n - 1}
  IN /\ hashes' = hashes + n
     /\ at' = [at EXCEPT ![w] = [b EXCEPT !.nonce = (@ + n) % NonceEnd,
                                          !.counter = @ + ((b.nonce + n) \div NonceEnd),
                                          !.left = @ - n]]
     /\ undisturbed' = (undisturbed /\ b.nonce + n <= NonceEnd /\ b.extranonce2 = b.counter)
     /\ tried' = IF undisturbed' THEN tried \union headers ELSE {}
     /\ repeated' = (repeated \/ (undisturbed' /\ headers \intersect tried # {}))

LastHeader(w) == [job |-> at[w].job, extranonce2 |-> at[w].extranonce2,
                  nonce |-> (at[w].nonce - 1) % NonceEnd]

\* Fault variant: the share carries the counter, not the header's extranonce2.
FoundAtCounter(w) ==
  share' = [share EXCEPT ![w] = [LastHeader(w)' EXCEPT !.extranonce2 = at'[w].counter]]

Found(w) == share' = [share EXCEPT ![w] = LastHeader(w)']

\* A batch goes on to its end, or to a hash that meets the target, which is
\* submitted: submit_share blocks up to 10 s.
Search(w, b) ==
  \/ /\ IF b.left = 0 THEN at' = [at EXCEPT ![w] = b] /\ UNCHANGED <<hashes, history>>
                      ELSE HashSome(w, b, b.left)
     /\ share' = [share EXCEPT ![w] = NoShare]
     /\ Goto(w, "check")
  \/ /\ \E n \in 1 .. b.left : HashSome(w, b, n)
     /\ Found(w)
     /\ Goto(w, "submit")

\* ... or a header is built from the counter, and a batch begins.
Batch(w) ==
  /\ pc[w] = "check"
  /\ running /\ ~paused /\ job = at[w].job
  /\ hashes < MaxHashes
  /\ \E size \in 1 .. MaxBatch :
       Search(w, [at[w] EXCEPT !.extranonce2 = at[w].counter, !.left = size])
  /\ UNCHANGED <<flow, job>>

SubmitReturns(w) ==
  /\ pc[w] = "submit"
  /\ Search(w, at[w])
  /\ UNCHANGED <<flow, job>>
-----------------------------------------------------------------------------
WorkerNext(w) ==
  \/ WorkerEnds(w) \/ TakeJob(w) \/ LeaveJob(w)
  \/ Batch(w) \/ SubmitReturns(w)

Next ==
  \/ Start \/ Stop \/ Joined \/ Pause \/ Resume \/ NewJob
  \/ \E g \in Generations : WatcherEnds(g) \/ WatcherPauses(g) \/ WatcherResumes(g)
  \/ \E w \in Workers : WorkerNext(w)

\* The threads run: their sleeps and the wait for the pool are bounded.
Fairness ==
  /\ \A w \in Workers : WF_vars(WorkerNext(w))
  /\ \A g \in Generations : WF_vars(WatcherEnds(g))

Spec == Init /\ [][Next]_vars /\ Fairness
-----------------------------------------------------------------------------
Headers == [job : 0 .. MaxJobs, extranonce2 : Nat, nonce : 0 .. NonceEnd - 1]
Alive(w) == pc[w] \notin {"unborn", "ended"}

\* Types.  The nonce stays below its end, a batch within its size, and a
\* worker that holds no share is not submitting one.
TypeOK ==
  /\ running \in BOOLEAN /\ paused \in BOOLEAN /\ starts \in 0 .. MaxStarts
  /\ ctl \in {"idle", "up", "joining"}
  /\ hashes \in Nat /\ job \in 0 .. MaxJobs
  /\ pc \in [Workers -> {"unborn", "top", "check", "submit", "ended"}]
  /\ at \in [Workers -> [job : 0 .. MaxJobs, counter : Nat, nonce : 0 .. NonceEnd - 1,
                         extranonce2 : Nat, left : 0 .. MaxBatch]]
  /\ share \in [Workers -> Headers]
  /\ \A w \in Workers : pc[w] = "submit" <=> share[w] # NoShare
  /\ watcher \in [Generations -> {"unborn", "asleep", "ended"}]
  /\ tried \subseteq Headers /\ repeated \in BOOLEAN
  /\ undisturbed \in BOOLEAN

\* As long as the miner is not paused or started again and no batch runs over
\* the end of the nonces, no header is hashed twice, by one worker or by two:
\* their ranges of extranonce2 do not meet.
NoHeaderTwice == ~repeated

\* A share that is submitted names the header that was hashed, also in the
\* rest of a batch whose nonce has wrapped.
ShareWasHashed == \A w \in Workers : pc[w] = "submit" => share[w] = LastHeader(w)

\* A stop that is not followed by a start ends every worker and every load
\* watcher, those of earlier starts included.
StopEndsThreads ==
  []<>(ctl = "idle" /\ ~running =>
         (\A w \in Workers : ~Alive(w)) /\ (\A g \in Generations : watcher[g] # "asleep"))
=============================================================================
