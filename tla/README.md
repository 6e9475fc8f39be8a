# TLA+ verification of Nexus AI

This directory holds a formal model of the parts of Nexus AI whose correctness
depends on the order of events: mining over Stratum and the engines a mining
session runs on, the discovery of mining pools, the watch over the chains, trades,
payouts and positions in liquidity pools, settings, learning and start-up, and the
control plane of the GPU nodes. TLC checks the models on small instances; TLAPS
proves every safety property of the passing runs but one for every value of the
constants, and that client, mining session, payouts and control plane implement the
abstract specifications `ShareLedger`, `Session`, `Purse` and `Registry`.

Paths below are relative to `src/`. `PROJECT.json` lists the components, the
runs, the mutated definitions each property is known to reject, the lines each
definition models, the findings, the hazards and the theorems.

    tlc -workers 2 -config MCEngines.cfg MCEngines # a run
    tlapm ControlPlaneProofs.tla                   # a proof module

## 1. Inventory

| component | state | operations | what is hard | correct when |
|---|---|---|---|---|
| **Stratum client** `StratumClient` in `nexus/strategies/pow_mining.py` | socket, running/connected/subscribed/authorized flags, request table, current job, extranonce1, share counters | connect, reconnect, subscribe, authorize, submit_share, disconnect; receive thread | every connect starts one more receive thread and reconnect is called from one of them; 10 s request timeouts; sockets closed under a blocked reader | a response reaches the request it answers; a live session has a reader; jobs are installed in order; every share is settled once; a stop is final |
| **CPU miner** `CPUMiner` in the same file | running, paused, per worker: job, extranonce2, nonce | start, stop, pause, resume; worker loop; load watcher | stop joins for 2 s a thread that may wait 10 s; the nonce wraps inside a batch; jobs change under a worker | no header is searched twice; a submitted share is the one hashed; threads end |
| **Mining session** `PoWMiningStrategy` in the same file, `ProfitSwitcher` in `gpu_mining.py` | running, client, engines (CPU, external, real compute), AI loop, profit switcher, lock | start_mining, stop_mining, switch_coin, enable/disable switching, status | non-reentrant locks; fallbacks half-way through a start; switch_coin between two critical sections; receive threads that renew the connection of a stopped session | one engine when running, none when stopped; every call returns |
| **External miners** `nexus/strategies/gpu_mining.py` | child process, its output thread, cached list of GPUs | start, stop, detect | a child killed and not waited for; a reader that meets the next child | one child, read by one thread, none after a stop |
| **GPU power control** `nexus/strategies/gpu_optimizer.py` | profile and power limit of each GPU | start, stop, throttle; the AI loop's limit | two writers of one limit | a hot GPU gets less power |
| **Mining advice** `nexus/strategies/ai_mining_optimizer.py` under the AI loop | snapshots, models, intensity, profile | optimise, apply, learn | models that know different actions; rounds that raise | all models learn the same lessons; a hot GPU is not driven harder |
| **Real vGPU compute** `nexus/strategies/real_vgpu_compute.py` | worker threads, nonce ranges, XMRig child | start, stop, hash | workers that survive a stop, more workers than ranges | a nonce has one worker; nothing is left behind |
| **Mining pool discovery** `nexus/strategies/mining_pool_discovery.py` | table of pools, their status, earnings and scores; automatic selection and the selected pool | update loop, refresh, add, remove, select, enable/disable automatic selection | a round walks over the table for minutes, without the lock, while requests change it; earnings outlive the connection they were computed for | no pool is left unchecked; the selection moves to a pool that answers |
| **Block watch** `nexus/blockchain.py`, `nexus/monitor.py`, start/stop of `nexus/agent.py` | connections, latest blocks, poller, listeners, scan event, scan threads | connect with fallbacks, poll, retry, notify, scan, start, stop | an event shared by threads, overlapping start and stop, endpoints that fail half-way | an announced block leads to a scan; chains come back; scans go on |
| **Trades** `nexus/agent.py`, `nexus/executor.py`, `nexus/timing` | opportunities, queue of deferred trades, outcome | pick, defer, dispatch, execute, record | the queue is rewritten from a snapshot; receipts that come late | a success was mined; a deferred trade goes out or expires |
| **Nonce manager** `nexus/execution/nonce_manager.py` | next nonce per wallet and chain | next, sync, peek | sync reads outside the lock | distinct nonces, retries end |
| **Payouts** `nexus/payout.py` | pending balance, total, history | queue, sweep_now, sweep over Coinbase, chain and Lightning | overlapping sweeps, timeouts whose request was served, one wallet's nonces shared with trades | books add up; money leaves once and as recorded; no sweep hangs |
| **Pool executor** `nexus/execution/pool_executor.py` | positions, totals | enter, exit, partial exit, dry or on chain | a position is looked up before its transactions and stored after them | positions are those on the chain |
| **Liquidity pool lists** `nexus/protocols/pool_sources.py` | caches in memory and on disk | fetch from five sources, merge, save | sources late or failing, overlapping calls, restarts | one entry of each pool; no failure is kept as an answer |
| **Pool analyser and optimiser** `nexus/learning/pool_*.py` | table of pools, rankings | refresh, allocate, split, decide | a refresh replaces the table under a reader; shares are capped, rounded to the cent and scaled | allocations fit the capital |
| **RPC connections** `nexus/execution/low_latency.py` | pools of connections, primary, latencies | get, acquire, execute with retry, fail over, monitor | a pool shared by threads | a connection has one user |
| **Settings** `nexus/utils/settings.py`, `nexus/utils/config.py`, the endpoints of `app.py` | cache, Redis, `Config` in each process | set, reset, load, control | two processes and one store; values applied past the manager | what is shown is what is stored, and what is stored is what runs |
| **Learning** `nexus/learning/brain.py`, `trade_memory.py`, `opportunity_scorer.py`, `parameter_optimizer.py` | predictions, table of opportunities, models, parameters | decide, learn, train, tune, save, load | two learners; model files torn by a restart | what is learnt is what happened |
| **Start-up** `app.py`, `nexus/worker.py`, `nexus/agent.py`, `nexus/feeds/price_feed.py` | start thread, agent's parts, readiness | ensure_agent, start, stop, signals, pusher | requests race to start it; retries; a stop during a start | the agent is started once, and whole |
| **Control plane** `api/app` with agents `worker/agent` | rows of workers and GPUs; agent's token | register, heartbeat | lost answers, handlers that outlive the call, equal names, crashes | a row has one holder; inventories are whole and in order |
| Mining pool failover manager, rewards, monitoring service, hash rate booster | results, single rows | test, insert, report | little control flow | - |
| Chat, voice, wizards, dashboards; unused strategies and DEX protocols | - | text, rendering, pure computations | - | - |

How they interact: the web application or the worker process builds one
`NexusAgent`, whose constructor builds `BlockchainManager` (connects the chains,
starts the poller thread) and `OpportunityMonitor` (builds `PoWMiningStrategy`
and starts mining in a thread two seconds later, `nexus/monitor.py` 55-82). The
poller calls the monitor's listener, which sets an event the scan thread waits
for. HTTP handlers call the strategy and the agent from their own threads
(`app.py` 474-604, 1612-1617). The strategy owns a Stratum client, a CPU miner and
the other engines. The agent's loop asks the brain, executes or defers, and hands
each outcome to memory and payouts. The control plane is a separate program that
talks to the agents of the GPU nodes over HTTP only.

The monitor builds the mining strategy and no other, and `_try_execute` returns for
its opportunities: at this commit no trade reaches the scheduler or the executor.
`TradeFlow` models them for the trading strategies that remain in the source.

## 2. Modules

| module | models | refines / composed in |
|---|---|---|
| `ShareLedger` | abstract: what a Stratum client promises about its share counters | |
| `Stratum` | the client, its receive threads, submitting miners, the pool as environment | implements `ShareLedger` (property `KeepsLedger`); `MCServices` |
| `Session` | abstract: what a mining strategy promises about its engines | |
| `Purse` | abstract: what the payouts promise about the profit they collect | |
| `Registry` | abstract: what a control plane promises about names, registrations and reports | |
| `PoolSources` | callers, sources, merge, caches, disk, restarts | `MCServices` |
| `PoolAnalysis` | refreshes under allocations, splits and decisions, in integers | `MCServices` |
| `RpcManager` | connection pools, primary, retries, failover, latency monitor | `MCServices` |
| `Settings` | requests, cache, Redis, `Config` of both processes, restarts | `MCServices` |
| `Brain` | predictions, memory, training, model files, parameters, restarts | `MCServices` |
| `AgentStart` | start threads, the parts of the agent, feed, signals | `MCServices` |
| `MiningAdvice` | snapshots, the ensemble and the older path, applying, lessons | `MCServices` |
| `PowMining` | session, engines as on/off, lock, handlers, switcher, AI loops, receive threads by what they do | implements `Session` (`KeepsSession`); `MCAgent`; calls what `Stratum`, `CpuMiner`, `GpuRig`, `RealCompute` model in detail |
| `BlockWatch` | connections, poller, listeners, scan threads, agent start/stop | `MCAgent` |
| `NonceManager` | counter, users of it, the node as environment | `MCAgent` |
| `TradeFlow` | opportunities, the queue and its dispatchers, the executor's legs | `MCAgent` |
| `CpuMiner` | workers, batches, nonces, load watchers | `MCEngines` |
| `GpuRig` | the child of an external miner, its readers, the list of GPUs | `MCEngines` |
| `PowerControl` | profiles, throttling, the AI loop's limit | `MCEngines` |
| `RealCompute` | the vGPU engine's workers, the XMRig child | `MCEngines` |
| `PoolDiscovery` | table of mining pools, rounds of checks, requests that change the table, selection | `MCEngines`; what `PowMining` sees as a pool being found |
| `Payout` | pending balance, sweeps, routes; Coinbase and the chain as environment | implements `Purse` (property `KeepsPurse`); `MCMoney` |
| `PoolExecutor` | requests for entries and exits, their transactions, positions | `MCMoney` |
| `ControlPlane` | agents, calls in flight, handlers, rows | implements `Registry` (`KeepsRegistry`); `MCControlPlane` |
| `StratumProofs`, `AgentProofs`, `EnginesProofs`, `PoolDiscoveryProofs`, `MoneyProofs`, `ServicesProofs`, `ControlPlaneProofs` | the theorems of section 4: of the client; of session, block watch, nonces and trades; of miners and engines; of discovery; of payouts and positions; of everything else in `MCServices`; of the control plane | extend what they speak of, and where they prove a type invariant of a sum, its `MC` module |
| `NumberProofs` | what the proofs need of numbers: least elements, sums over finite sets | extended by the others |

**Compositions.** The components of `MCServices`, `MCAgent`, `MCEngines` and `MCMoney`
share no variable. A product of their behaviours would only multiply states; so each of
these modules is a *sum*: a variable `part`, chosen at the start, says which component
moves, and every property is checked of each. Fairness is asked of the steps of that
component only. Where two parts of the code do share state they are in one module
(agent, monitor and chains in `BlockWatch`; loop, queue and executor in `TradeFlow`;
the AI loop and the optimiser in `MiningAdvice`).

**Grain of a step.** A step runs from one blocking operation to the next: taking a
contended lock, a sleep, a socket or HTTP call, waiting for an event, joining a
thread. Between two of those the interpreter may in principle switch threads, but
the single attribute stores and dictionary operations involved are atomic, and the
places where a read and a later write are separated by a blocking call are separate
steps. The images pin CPython 3.11. Under gunicorn the web process uses eventlet
green threads, which switch only at such operations; the worker process uses native
threads. The actions with "Fault variant" above them are mutated forms of the
definition below them; no specification uses them.

**Correspondence.** Each variable's comment names the attribute it stands for; each
action is one method or the part of a method between two blocking calls, and a `pc`
(`step`, `poller`, `scan`, `tfStep`, ...) is where a thread is in it. Modules that are
composed give their names a prefix (`bw`, `nm`, `tf`, `rig`, `pow`, `rc`, `pd`, `px`,
`ps`, `pa`, `rp`, `se`, `br`, `ag`, `ma`).

- `Stratum`: `Dial`, `DialOk`, `DialRetry`, `DialFail` are `connect()`, in any thread
  that calls it; `Request` and `Returns` the two ends of `_send_request`; `LoopEnds` ...
  `RecvError` the receive loop. `RecvTorn` is a line split between two readers of one
  socket. Difficulty and extranonce updates store one value and are left out.
- `PowMining`: engines are Booleans, the client a kind (`pool` or `sim`) with its flags
  `_connected` and `_running`. Its receive threads are counted by place (`reading`,
  `waiting` before a reconnect, `dialling`, `joining`) and lose and renew the connection
  whatever the session does (`ReceiveThread`); each of them in detail is in `Stratum`.
  Whether a connection, a GPU miner or real compute comes up is a choice. The switcher thread
  never comes back from its first check, as `should_switch` waits for its own lock;
  switches are made by calls of `switch_coin`.
- `CpuMiner`: hashes are choices; `2^32` and `2^24` are the constants `NonceEnd` and
  `Stride`. `HashSome` is the batch loop in closed form, wrap included. In `RealCompute`
  `RangeSize` and `NonceSpace` stand for `2^28` and `2^32`; the number of workers is
  free, as in the code, and `RcFitting` are those whose range is within the space.
- `GpuRig`: children are numbered; a killed child may linger. `PowerControl`: a
  temperature is fine, high or critical, and the environment changes it.
- `MiningAdvice`: what a network answers is a choice among the actions it knows; votes,
  their combination, what is applied and which lesson each model takes are the code's,
  and so is the point at which saving the models may raise (`SavingRaises`).
- `PoolDiscovery`: a pool is an object, `<<id, n>>` the n-th made for its id, as a pool
  added again replaces the object and may still be selected or under a check. A round
  is `AskPrices`, `PricesArrive` and one `PoolChecked` per pool; `GoOn` is what the walk
  over the dictionary does next: raise, end, or check another. `Score` keeps the weights
  of the code at equal fees. The order of a walk is a choice.
- `BlockWatch`: an endpoint is up, down, or *limited* (connected, refuses block numbers).
- `TradeFlow`: a trade has one to `TfMaxLegs` transactions; gas is cheap or not, as it
  comes; `tfOld` are trades that waited 80 % of their time. A send that raises may have
  been taken by the node: `tfUnsure` are trades given up that way or without a receipt.
- `Payout`: a sweep is a thread; `left` says by which routes its money really left,
  `unsure` which routes were given up without an answer.
- `NonceManager`: `Outside` are transactions of the same wallet that bypass it, as
  `executor.py` and `payout.py` send them.
- `PoolExecutor`: a request looks up, sends transactions and stores; the node takes
  `PxMaxTxs` at most, with the answer or without it (`PxSendRaises`), and the chain mines,
  reverts or keeps them waiting, beside other transactions of the wallet (`PxMineOther`).
  An exit is the placeholder that it is in the code.
- `PoolAnalysis`: figures are integers (shares in parts of 60 000, capital in cents); a pool's
  metrics are one of a few records; every amount is rounded to the cent for itself
  (`Rounded`), as the code rounds, so that amounts may add up to more than the capital. A negative yield is left out.
  Pools of equal score are ranked in any order (`TopPools`); `Failed` stands for an
  exception or NaN instead of an answer.
- `Settings`: keys have a text in the environment and a default; `Apply` writes `Config`
  only for the keys that have an attribute there.
- `Brain`: a score is a choice; files are whole, torn or absent.
- `ControlPlane`: `Lookup` and `Insert` are the two database steps of a registration;
  a handler goes on after its caller has given up (`Leave`).

**Refinements.** An abstract specification says in a few actions what a component
promises, without threads, routes or messages; the detailed module substitutes
expressions of its own state for the abstract variables, and each of its steps is one
abstract step or none.

- `ShareLedger` for `Stratum`: a share is offered, taken by the pool and settled once.
- `Session` for `PowMining`: a caller takes the session (`Take`), and an engine comes
  (`Come`) or all that is on goes (`Go`); or it only looks (`Leave`). `holder` and `asked`
  are the lock and `_running`; `on` collects the three engines (`EnginesOn`). Requests on
  their way, fallbacks, discovery and the switcher are not seen, and neither is the
  connection to the pool, of which a session can promise nothing
  (`StoppedLeavesThePool` fails, section 3). From `Session` alone follow `NothingReplaced` and `AtRest`.
- `Purse` for `Payout`: a payment takes the whole balance (`HandOver`), its money leaves
  by a way (`Leave`), a way is given up in doubt (`Doubt`), it ends (`Settle`).
  `Fate(s)` reads a payment's fate off the step its sweep's thread is at; `gone`,
  `doubts`, `balance` and `paid` are `left`, `unsure`, `pending` and `totalPaid`. Which
  route comes first, keys, nonces and rival transactions are not seen. From `Purse`
  alone follows `LeavesOnce`: money leaves by one way unless a way was in doubt.
- `Registry` for `ControlPlane`: a free name is given to a new registration (`Enroll`),
  an agent of that name reads it (`Join`) or it is lost (`Part`), a newer report replaces
  the older (`Report`). `unread` is the set of registrations whose answer is done and
  still awaited (`Unread`); calls on their way, checks of tokens and attempts are not
  seen. From `Registry` alone follows `OneMember`.

## 3. Runs

The bounds are in the `.cfg` files, and every bound is a named constant with a comment
in its module.

| run | question | bounds and why they suffice | result |
|---|---|---|---|
| `services` | Stratum: request table, session, job order, counters, stop. Pool lists: one entry each, never a failure kept. Allocations within the capital but for the rounding of each amount. RPC connections with one user. Settings stored as shown. Learning agrees with what happened. Lessons of the mining advisers. Start-up once and whole | two Stratum connections, so two receive threads share one, three events; two callers of the pool lists; four pools, two of one protocol, three kinds of metrics, one without any yield; two users of two endpoints, three retries as in the code; two requests, two keys; two opportunities, one prediction kept; two requests racing two start threads; four rounds of advice, so that the ensemble and the tuner come into play | holds |
| `agent` | one engine when running and none when stopped, while receive threads lose and renew the connection; calls that return; blocks lead to scans, chains recover, scans go on; successes were mined and deferred trades settle; distinct nonces, senders end | two handlers, the start-up thread and the switcher, two calls, every mix of dry run, GPU and real compute, two receive threads, so that a reconnection succeeds; one chain with a fallback endpoint, two starts and one stop; one opportunity queued twice with two legs, one dispatcher; three senders, two transactions past the manager | holds |
| `engines` | headers, nonces and shares; external miner; power; real compute; discovery | two workers and two generations, so survivors of a stop meet new workers; nonce spaces of two, so batches wrap; two children; three GPUs, one virtual; two built-in pools and one a user adds, two calls, one change of the network | holds |
| `money` | books, single payment, a payment behind each success, progress, payouts as a `Purse`; positions in the table against the chain | two sweeps, all configurations of routes but Lightning without a node (which never pays, as a node may not), one competing trade; three requests to the pool executor with two transactions | holds |
| `control_plane` | rows, holders, inventories | two agents with one name, two attempts, one restart; symmetric agents (no liveness in this run) | holds |
| `stratum_retry` | is a lost connection retried as announced | the code's own maximum of five | **violated** |
| `pow_mining_unconfigured` | do calls return when discovery offers no pool at start-up and one later | one call | **violated** |
| `profit_switching` | does the switcher's check end | two calls | **violated** |
| `block_watch_restart` | does a restarted agent hear of blocks | as in `agent` | **violated** |
| `control_plane_gave_up` | does "could not register" mean not registered | the code's ten attempts, one agent | **violated** |
| `settings_sync` | are stored settings those each process works with | one key, two changes | **violated** |
| `hot_gpu` | is a GPU at its critical temperature ever driven harder | four rounds | **violated** |

`KeepsRegistry` and `KeepsSession` are proved (section 4) and are in no configuration: the
first nearly doubles the time of `control_plane`, and the second implies what `agent` checks
of the session. TLC finds both to hold when they are added as a `PROPERTY`:
`KeepsRegistry` to `MCControlPlane.cfg` (some four minutes), `KeepsSession` to
`PowMiningUnconfigured.cfg` with `PoolInConfig = TRUE`, three calls and two receive threads
(a million states).

Deadlock is not checked: the bounds stop the models, and an idle system may stay idle.
What "nobody waits for ever" means is stated by `SessionCallsReturn`, `SweepGoesOn`,
`WatchGoesOn`, `SendsSettle`, `StoppedEnginesEnd`, `DiscoveryGoesOn` and
`HotGpuIsLowered` instead.

What the violated runs show (details under "findings"):

1. `reconnect()` clears the flag its caller's loop tests, so one failed attempt ends
   the five that are announced.
2. `start_mining` waits for its own lock when discovery offered no usable pool during
   construction and offers one later.
3. `should_switch` waits for its own lock: automatic profit switching hangs at its
   first check, and with it whoever asks the switcher next.
4. `NexusAgent.stop` ends the block poller and `start` never starts one.
5. A registration whose answer is lost is refused at every retry, and the agent exits.
6. Stored settings are shown after a restart but not applied, and the worker process
   never reads them.
7. From the third snapshot on the ensemble's advice comes before the temperature
   check, and may raise the intensity of a GPU that is too hot.

Six more statements that the source makes of itself are written down beside the
properties. The runs do not include them; TLC refutes each within two minutes when it is
added to the configuration named here:

| statement | added to | what it shows |
|---|---|---|
| `StoppedLeavesThePool` in `PowMining`, "Disconnect from the pool." (`pow_mining.py` 592) | `MCAgent.cfg`, `INVARIANT` | a receive thread that is renewing a lost connection connects a session that was stopped meanwhile: `reconnect()` (683) never asks whether the client is still wanted |
| `HotGpu0IsLowered` in `PowerControl`, "Emergency throttle a GPU." (`gpu_optimizer.py` 841) | `MCEngines.cfg`, `PROPERTY` | once the profile of a GPU is at its floor the throttle sets nothing (848), and a limit that the AI loop has set past the profile (`pow_mining.py` 2010) stays, however hot the GPU is |
| `RcRangesDiffer` in `RealCompute`, "Each thread gets different nonce range" (`real_vgpu_compute.py` 286) | `MCEngines.cfg` with `RcThreads = 3`, `INVARIANT` | the range of a seventeenth worker is that of the first (287, 306); their number has no bound (157-163) |
| `EntryAddsToPosition` in `PoolExecutor`, "Need to add to this position" (`pool_executor.py` 1415) | `MCMoney.cfg`, `INVARIANT` | a second deposit into a pool takes the place of the first in the table of positions (670-671) |
| `SweepMovesItsMoney` in `Payout`, "sweeps them to Coinbase / Cash App" (`payout.py` 89) | `MCMoney.cfg`, `INVARIANT` | of two sweeps within a second (239) Coinbase serves one, and both are recorded as paid |
| `SplitKeepsCap` in `PoolAnalysis`, "Allocation constraints (min/max per pool)" (`pool_optimizer.py` 334) | `MCServices.cfg`, `INVARIANT` | the amounts of a profit split are capped and then scaled up without the cap (391-398) |

Some statements about the code are narrower than one would wish, and their
qualifications say where the code stops: jobs come in order *until the first
reconnection* (afterwards two threads handle messages); nonces are distinct *until the
first sync*; money leaves as recorded *unless an answer was lost*; a payout recorded as
sent by Coinbase was paid, *or another one with the same key*; a mined trade is recorded
*unless the send of its last leg raised or its thread gave up waiting*; a deposit on the
chain is a position *unless its request gave up in doubt, its pool was entered again or
an exit removed it*; an allocation fits the capital *up to half a cent a pool*; nonces
of the vGPU engine differ *among the workers whose ranges fit*; a hot GPU gets less
power *unless it is the AI loop's or shares its profile*; a deferred trade settles
*unless it was pushed into the middle of a walk over the queue*; a stop is final *if no
thread was reconnecting*; a stopped session has no engine, *but may have a connection*;
headers are not repeated *as long as nothing was paused, restarted or wrapped inside a
batch*; chains catch up *if the first endpoint that connects also answers*; the agent's
parts have one thread each *as long as nobody stopped it*; lessons agree *while learning
was never disabled and no saving of the models raised in the middle of one*; overlapping
switches and stops leave one engine or none, *but a switch may undo a user's stop*.
Without the qualification TLC finds a counterexample in each case; the hazards say at
which line.

**Fairness.** It is assumed only of threads whose waits are all bounded by a timeout
or a sleep: miner workers and load watchers, the output thread of an external miner and
the call that stops it, the temperature monitor, the poller, the rounds of pool
discovery, scan threads, a call of start or stop that has begun, threads inside a call
of the strategy, senders that go on retrying, the dispatcher and the executor, a
request that saves settings; and that a killed process ends and time passes for a
waiting trade. It is weak everywhere. Nothing is assumed of the mining pool, the chains,
the RPC endpoints, Coinbase, the network, the operator, or that a send fails. The
components of `services`, `money` and `control_plane` and the violated invariants need
none: `SweepGoesOn` is a safety property (the sweep's own thread can always take a
step), and each of these steps leads forward.

## 4. Proofs

| theorem | statement | argument |
|---|---|---|
| `StratumProofs!PendingTold`, `SessionServed` | `Spec => []PendingIsWaiting`, `[]SessionIsServed` | `StInv` adds that a receive thread is born with its connection (`Born`) and that a session that is on has the thread of its last connection reading or about to give it up (`Served`); a table entry and the place of the thread that waits for it change in one step |
| `StratumProofs!StopFinal` | `Spec => StopIsFinal` | an action property: from a quiet state no step but the controller's leaves it (`QuietStep`) |
| `StratumProofs!JobsOrdered` | `Spec => JobsInOrder` | `JobsInv`: a socket is of a connection that came up (`Placed`), and with one of them the job installed, the message in hand and the queue are in order (`Order`) |
| `StratumProofs!LedgerKept` | `Spec => KeepsLedger` | the refinement, step by step: initial states map to initial states, each step to one of `ShareLedger` or a stutter. `LedgerInv` says what is counted before it is known: shares on their way with those the pool took are at most those submitted, answers that may still count with those accepted at most those taken |
| `StratumProofs!StratumTypes` | `Spec => []TypeOK` | inductive |
| `AgentProofs!SessionSafe` | `Spec => []SessionHasOneEngine` | the property speaks of moments when the lock is free; the invariant says who holds it (`HolderInside`), what the holder has off so far (`SessionProgress`) and by which flags `stop_mining` finds an engine (`Marked`). Receive threads touch none of it; of the connection nothing is claimed |
| `AgentProofs!SessionKept` | `Spec => KeepsSession` | the refinement, step by step, under `SessionInv` and the types: what stops a session stops every engine, as each is marked (`GoRefines`); what starts one finds nothing on (`ComeRefines`); the rest, receive threads included, is not seen (`OtherUnseen`) |
| `AgentProofs!EnginesHandedOver`, `SessionAtRest` | `Spec => Sessions!NothingReplaced`, `[]Sessions!AtRest` | of the abstract specification, carried over by `SessionKept` |
| `AgentProofs!NoBlockForgotten` | `BwSpec => []BlockNotForgotten` | whoever clears the event has moved to `cleared`, and leaves it for a scan, taking the news along |
| `AgentProofs!NoncesDistinct`, `NonceTypes` | `NmSpec => []DistinctUntilSync`, `[]NmTypeOK` | two held nonces differ because each is below the counter when `next` hands out the counter itself |
| `AgentProofs!SuccessMined` | `TfSpec => []TradeSuccessIsMined` | only the executor's and the chain's steps touch record or chain; the last leg's receipt decides both, and a raising send or a receipt given up leaves the trade in doubt |
| `AgentProofs!AgentTypesHold` | `AgentSpec => []AgentTypeOK` | one inductive invariant per part; the watch's adds which threads exist for which starts |
| `EnginesProofs!HashingSound` | `EnginesSpec => []HashingIsSound` | `CpuInv`: what a worker holds is the job it took and the header it hashed (`WorkersKnown`); undisturbed, there was one start, every worker is in its own range of extranonce2 and ahead of all it tried (`Undisturbed`), so nothing is tried twice. `RcInv`: a worker stays in its own range, and those within the nonce space (`RcFitting`) do not meet, however many workers there are |
| `EnginesProofs!EnginesEnd`, `PipeRead` | `EnginesSpec => []NoEngineLeftBehind`, `[]RigPipeIsRead` | `RigInv` adds that a child nobody told to end is marked as running, and which place of a call fits which child; `RcInv` that a running XMRig child is held by its session |
| `EnginesProofs!EnginesTypes` | `EnginesSpec => []EnginesTypeOK` | of all five parts |
| `PoolDiscoveryProofs!InitialCheckLeavesNoneOut` | `PdSpec => []InitialCheckIsComplete` | what a walk has passed was checked, or is under its own check or that of the handler that lists it (`PassedMeansChecked`); a walk that ends has passed every listed id |
| `MoneyProofs!BooksBalance`, `PaidTruly`, `SuccessBacked` | `Spec => []Books`, `[]PaidAsRecorded`, `[]SuccessIsBacked` | `PayoutInv`: by which routes a sweep can have left at each of its steps (`SweepsKnown`), a key that was served paid once (`KeyServed`), the keys in use are the seconds so far (`KeysInUse`), and the books as they are |
| `MoneyProofs!PurseKept` | `Spec => KeepsPurse` | the refinement, step by step, under `PayoutInv`: a thread's step moves its own sweep's fate only (`FateMoves`), a route that is not in doubt is taken by a sweep whose money is at home (`IsAtHome`, from `SweepsKnown`), and a late answer serves a route given up before (`LeftInDoubt`) |
| `MoneyProofs!MoneyLeavesOnce` | `Spec => []Payments!LeavesOnce` | of the abstract specification: inductive over `PurseNext`, carried over by `PurseKept` |
| `MoneyProofs!PositionsTrue` | `MoneySpec => []PositionsAreTrue` | `PoolsInv`: requests send and record in their order, a transaction waits once, a deposit that was mined or waits is recorded, awaited or given up in doubt (`DepositsKnown`), what was recorded is in the table unless it was replaced or removed (`PositionsGo`), an exit holds the entry that is there unless the pool was entered again (`LeaversKnown`) |
| `MoneyProofs!MoneyTypes` | `MoneySpec => []MoneyTypeOK` | of both parts |
| `ServicesProofs!StoredSettings`, `SettingsTypes` | `SeSpec => []StoredIsShown`, `[]SeTypeOK` | only the request that holds the lock saves, and what it has on its way is the whole cache as it is (`OneSaves`) |
| `ServicesProofs!LessonsAgree`, `AdviceTypes` | `MaSpec => []AdviceIsLearned`, `[]MaTypeOK` | snapshots are numbered upwards and each lesson ends at one already taken (`Ordered`); all models learn in one step unless it raises: a model that does not know the action needs learning to be disabled, and saving the models leaves the parent's agent ahead by that lesson (`Agreed`) |
| `ServicesProofs!OneUser` | `RpSpec => []ConnectionHasOneUser` | what `acquire` hands out is of the pool, was not in use and is counted as in use (`AcquireIsNew`); a numbered connection is of some endpoint's pool (`OfAPool`) |
| `ServicesProofs!PoolLists` | `PsSpec => []PsCacheIsSound` | `PsFit`: what a caller has gathered is of live sources that answered it since it began, one entry of each pool; the merge and the disk keep that |
| `ServicesProofs!StartUp` | `AgSpec => []StartUpIsSound` | `AgInv`: who may be where in which process (`AgRoles`), a live start thread is the latest (`AgStarters`), and until a stop the parts are up exactly as far as the one thread in `start()` has got (`AgProgress`) |
| `ServicesProofs!LearningTrue`, `BrainTypes` | `BrSpec => []LearningIsSound`, `[]BrTypeOK` | `BrInv`: one thread learns at a time, also a list about to be cut keeps the tally (`CutsFit`), table and history differ only between their two writes (`MemoryHolds`), and rows with an outcome only grow (`ModelsTrained`) |
| `ServicesProofs!SharesFit`, `AnalysisTypes` | `PaSpec => []AllocationFits`, `[]PaTypeOK` | what is given away and what is left add up to the capital after every pool of the fold (`Shared`); ranks are one pool's each, so the percentages of the first three bound a rearranged allocation (`RestackedFits`); amounts of parts of a whole exceed the capital by half a cent each at most (`SumRounded`, `AmountsFit`), and a split's capped weights are below the weights (`KeptFits`, `SplitFits`) |
| `ServicesProofs!ServicesTypes` | `ServicesSpec => []ServicesTypeOK` | a behaviour of the sum is one of each part |
| `ControlPlaneProofs!OneHolder` | `Spec => []RowHasOneHolder` | who may know a number: an id is one call's (`OneIdEach`), that of a registration becomes a token only when its answer is read, which ends the call (`TokensAreRead`), and what is answered made the row of the agent's name (`DoneMadeRow`) |
| `ControlPlaneProofs!InventoryGrows` | `Spec => InventoryInOrder` | a token has one heartbeat on its way, its holder's (`OneBeatEach`, `OwnBeat`), and that is newer than the row (`BeatIsNewer`) |
| `ControlPlaneProofs!ReportsWhole`, `ControlPlaneTypes` | `Spec => []InventoryIsOneReport`, `[]TypeOK` | a row's inventory is written whole (`OneReport`) |
| `ControlPlaneProofs!RegistryKept` | `Spec => KeepsRegistry` | `RInv` adds to `IInv` that an id is in one row and in none before its registration makes one (`IdOnce`), and that an agent that beats waits for a heartbeat, so that no answer to a registration is lost with it (`BeatAwaited`); then one lemma for the agents' steps, one each for `Insert` and `Heartbeat`, and the others are not seen |
| `ControlPlaneProofs!OneMemberOnly` | `Spec => []Rows!OneMember` | of the abstract specification: inductive over `RegistryNext`, carried over by `RegistryKept` |

They hold for any number of threads, handlers, chains, endpoints, agents, pools, calls
and restarts. The assumptions on constants are the named `ASSUME`s of the modules, which
TLC evaluates in the runs. Most say that a bound is a number, or that names differ. Those
that say more: the CPU miner's ranges are longer than all a run may hash
(`RangeAssumption`; in the code `2^24` times `2^32` headers); a start of the agent is tried at least once
(`AgAssumption`) and a head of a chain is at least 1 (`WatchAssumption`); models need at
least one row (`BrAssumption`); figures of a pool are whole and not negative, a chain's
tier is one of three, and there is capital to allocate (`PaAssumption`).

Sums over a set (dollars in sweeps, shares of pools) are folds, which are recursive
functions over its subsets. The prover cannot do induction over them; `NumberProofs`
takes the smallest counterexample instead (`LeastNumber`), once for each fact: a sum can
be taken apart at any element (`SumSplits`), depends on the values only (`SumAgrees`),
and is monotone, bounded and scaled as its summands are. That a fold over a ranking is
a run with one step per rank is `RunExists` and `RunsAgree` in `ServicesProofs`.

Only model-checked: the liveness properties `SessionCallsReturn`, `SendsSettle`,
`WatchGoesOn`, `StoppedEnginesEnd`, `HotGpuIsLowered` and `DiscoveryGoesOn`, and
`SweepGoesOn`, which speaks of `ENABLED`. Both are out of the prover's reach.

## 5. Not modelled

Hashing, difficulty arithmetic, the figures of optimisers and learners, the text of
statuses and logs; the set-up wizards, chat and dashboards; the unused strategies and
DEX protocols, which are pure computations and which nothing builds; the jobs router of
the control plane, whose rows nothing runs; the monitoring service, which stores reports
and looks for words in them; rewards and the pool failover manager, which insert and
report. Elapsed time is left out: a timeout is a step that may happen whenever its wait
is open, so no property speaks of durations and a token does not expire.

Of mining pool discovery: `stop`, which nothing calls; the cache and the back-off of
the price fetcher; and the callback of `/api/mining/auto-mine`. That callback, like
`/api/mining/start-with-pool`, builds `PoWMiningStrategy()` without the two arguments
the constructor demands (`app.py` 1275 and 1518, `pow_mining.py` 1230), so it raises
whenever it is called and automatic mining selects pools but never starts.

Of the pool executor: the monitoring loop, which nothing starts, with rebalancing and
compounding. Of the low latency helpers: caches of values and block subscriptions.

What the models showed and no property states, as it is how the code is written rather
than an order of events:

- connections that `get_web3` hands out are never released (`low_latency.py` 393-428);
- a list of pools read from disk and saved again gets a new age (`pool_sources.py` 595-614);
- a user's stop between the two halves of `switch_coin` is undone by its start
  (`pow_mining.py` 2321-2356);
- outside dry run an exit from a pool withdraws nothing and forgets the position
  (`pool_executor.py` 1285);
- the load watcher resumes what a user paused (`pow_mining.py` 960);
- a gas-efficient allocation raises when two recommended pools are equally efficient, as
  the sort then compares the recommendations, which have no order
  (`pool_optimizer.py` 694-700);
- a split over several pools of which none yields anything divides zero by zero
  (`pool_optimizer.py` 751-754);
- a pool's composite score is computed before its risk, from the default of 0.5
  (`pool_analyzer.py` 587-693);
- an agent that could not be built in three attempts is never built by that process,
  although the comment says it goes on trying (`app.py` 79);
- a stop that comes during the first fetch of prices leaves what `start` starts
  afterwards running (`agent.py` 88-133), and a stop of the agent does not stop mining;
- the AI loop learns an action from the snapshot that was taken before it
  (`pow_mining.py` 2026).

## 6. Plan

Specifications and theorems next: an abstract specification of the deferred trades (each
leaves the queue once), which `TradeFlow` implements only once the queue is no longer
rewritten from a snapshot, and one of the positions in pools, for which `PoolsInv` is the
invariant such a refinement needs.

Models next: the jobs router of the control plane once an agent takes jobs from it; the
monitoring loop of the pool executor once something starts it; the callback of automatic
mining once it can be called. `Stratum`, `CpuMiner` and `PowMining` in one composition,
with the session's engines in detail, would need instances larger than a run of minutes
can cover.
