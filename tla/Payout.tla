------------------------------- MODULE Payout -------------------------------
(***************************************************************************)
(* nexus/payout.py: PayoutManager collects the profit of executed trades   *)
(* and sends it on once the threshold is reached.  Every sweep runs in a   *)
(* thread of its own (or in the caller of sweep_now) and tries Coinbase,   *)
(* the chain and Lightning in that order, until one of them answers.       *)
(*                                                                         *)
(* External, seen only through the calls that payout.py makes: Coinbase    *)
(* (serves a request at most once per idempotency key), the chain (one     *)
(* mined transaction per nonce of the wallet, receipts), the trades of the *)
(* executor, sent from the same wallet, and a Lightning node.              *)
(***************************************************************************)
EXTENDS Naturals, FiniteSetsExt

CONSTANTS MaxSweeps,   \* bound: sweeps that may be started
          Threshold,   \* PAYOUT_THRESHOLD_USD
          MaxQueued,   \* bound: profit queued in all
          MaxTrades    \* bound: mined trades of the executor

ASSUME PayoutAssumption ==
    /\ Threshold \in Nat \ {0} /\ MaxSweeps \in Nat
    /\ MaxQueued \in Nat /\ MaxTrades \in Nat

Sweeps  == 1 .. MaxSweeps   \* numbered in the order in which they start
Routes  == {"coinbase", "chain", "lightning"}
Methods == {"none", "dry_run", "coinbase_internal", "coinbase_api",
            "onchain", "lightning_paid", "invoice"}
Places  == {"unstarted", "coinbase", "answer", "chain", "send", "receipt",
            "lightning", "record", "recorded", "died"}

VARIABLES
    config,     \* which routes the environment variables configure
    pending,    \* _pending_usd
    totalPaid,  \* _total_paid_usd
    step,       \* where the thread of each sweep is
    amount,     \* its amount_usd
    method,     \* the method of its result, "none" while there is no result
    key,        \* the second in its Coinbase idempotency key
    nonce,      \* the nonce of its transaction
    request,    \* external: what Coinbase did with its request
    tx,         \* external: what the chain did with its transaction
    left,       \* external: the routes by which its money really left
    unsure,     \* history: routes given up without knowing the outcome
    queued,     \* history: all profit ever queued
    mined       \* external: mined transactions of the wallet, "latest" count

books    == <<pending, totalPaid, queued>>
answers  == <<request, key>>
chain    == <<tx, nonce, mined>>
vars     == <<config, books, step, amount, method, answers, chain, left,
              unsure>>

Configs == [dryRun : BOOLEAN, coinbase : BOOLEAN, address : BOOLEAN,
            lightning : BOOLEAN, node : BOOLEAN]

Init ==
    /\ config \in Configs
    /\ config.node => config.lightning   \* the node is only asked with an address
    /\ pending = 0 /\ totalPaid = 0 /\ queued = 0
    /\ step = [s \in Sweeps |-> "unstarted"]
    /\ amount = [s \in Sweeps |-> 0]
    /\ method = [s \in Sweeps |-> "none"]
    /\ key = [s \in Sweeps |-> 0]
    /\ nonce = [s \in Sweeps |-> 0]
    /\ request = [s \in Sweeps |-> "none"]
    /\ tx = [s \in Sweeps |-> "none"]
    /\ left = [s \in Sweeps |-> {}]
    /\ unsure = [s \in Sweeps |-> {}]
    /\ mined = 0

-----------------------------------------------------------------------------
(* The order of the routes: each is tried when it is configured and the    *)
(* ones before it gave no result.                                          *)

AfterChain    == IF config.lightning THEN "lightning" ELSE "record"
AfterCoinbase == IF config.address THEN "chain" ELSE AfterChain
FirstRoute    == IF config.dryRun THEN "record"
                 ELSE IF config.coinbase THEN "coinbase" ELSE AfterCoinbase

Goto(s, place)  == step' = [step EXCEPT ![s] = place]
GiveUpOn(s, r)  == unsure' = [unsure EXCEPT ![s] = @ \union {r}]

\* A route answered: its result goes to _record_result.
Answer(s, m) == Goto(s, "record") /\ method' = [method EXCEPT ![s] = m]

\* _sweep takes the whole pending balance.
Start(s, usd) ==
    /\ step[s] = "unstarted"
    /\ \A t \in 1 .. (s - 1) : step[t] # "unstarted"
    /\ amount' = [amount EXCEPT ![s] = usd]
    /\ IF config.dryRun THEN Answer(s, "dry_run")
                        ELSE Goto(s, FirstRoute) /\ UNCHANGED method
    /\ UNCHANGED <<config, answers, chain, left, unsure>>

\* Fault variant: the comparison with the threshold is strict.
QueueAbove(profit) ==
    /\ queued + profit <= MaxQueued
    /\ queued' = queued + profit
    /\ UNCHANGED totalPaid
    /\ \/ /\ pending + profit <= Threshold
          /\ pending' = pending + profit
          /\ UNCHANGED <<config, step, amount, method, answers, chain, left,
                         unsure>>
       \/ /\ pending + profit > Threshold
          /\ pending' = 0
          /\ \E s \in Sweeps : Start(s, pending + profit)

Queue(profit) ==
    /\ queued + profit <= MaxQueued
    /\ queued' = queued + profit
    /\ UNCHANGED totalPaid
    /\ \/ /\ pending + profit < Threshold
          /\ pending' = pending + profit
          /\ UNCHANGED <<config, step, amount, method, answers, chain, left,
                         unsure>>
       \/ /\ pending + profit >= Threshold
          /\ pending' = 0
          /\ \E s \in Sweeps : Start(s, pending + profit)

\* Fault variant: the balance is read and never reset.
SweepNowKeepsPending ==
    /\ pending > 0
    /\ \E s \in Sweeps : Start(s, pending)
    /\ UNCHANGED books

SweepNow ==
    /\ pending > 0
    /\ pending' = 0
    /\ UNCHANGED <<totalPaid, queued>>
    /\ \E s \in Sweeps : Start(s, pending)

-----------------------------------------------------------------------------
(* Route 1, the Coinbase API.                                              *)

\* No account id, or the account look-up failed.
CoinbaseSkip(s) ==
    /\ step[s] = "coinbase"
    /\ Goto(s, AfterCoinbase)
    /\ UNCHANGED <<config, books, amount, method, answers, chain, left,
                   unsure>>

\* Without a payout address the funds stay where they are.
CoinbaseInternal(s) ==
    /\ step[s] = "coinbase"
    /\ ~config.address
    /\ Answer(s, "coinbase_internal")
    /\ UNCHANGED <<config, books, amount, answers, chain, left, unsure>>

\* The key is int(time.time()): the second of the request before, or a later
\* one.  Seconds are numbered from 1 by the requests that fall into them.
LastKey == Max({key[s] : s \in Sweeps})

CoinbaseSend(s) ==
    /\ step[s] = "coinbase"
    /\ config.address
    /\ Goto(s, "answer")
    /\ \E second \in {LastKey, LastKey + 1} \ {0} : key' = [key EXCEPT ![s] = second]
    /\ request' = [request EXCEPT ![s] = "sent"]
    /\ UNCHANGED <<config, books, amount, method, chain, left, unsure>>

\* External: a request whose key was already served returns that transaction.
CoinbaseServe(s) ==
    /\ request[s] = "sent"
    /\ \E verdict \in {"ok", "refused"} :
          /\ request' = [request EXCEPT ![s] = verdict]
          /\ left' = IF verdict = "ok" /\ ~\E t \in Sweeps :
                                             request[t] = "ok" /\ key[t] = key[s]
                     THEN [left EXCEPT ![s] = @ \union {"coinbase"}]
                     ELSE left
    /\ UNCHANGED <<config, books, step, amount, method, key, chain, unsure>>

\* Fault variant: a 201 answer is taken for a failure.
CoinbaseAnsweredRefused(s) ==
    /\ step[s] = "answer"
    /\ request[s] \in {"ok", "refused"}
    /\ Goto(s, AfterCoinbase)
    /\ UNCHANGED <<config, books, amount, method, answers, chain, left,
                   unsure>>

CoinbaseAnswered(s) ==
    /\ step[s] = "answer"
    /\ \/ request[s] = "ok" /\ Answer(s, "coinbase_api")
       \/ request[s] = "refused" /\ Goto(s, AfterCoinbase) /\ UNCHANGED method
    /\ UNCHANGED <<config, books, amount, answers, chain, left, unsure>>

\* The 15 s timeout of requests, or a broken connection, before the answer.
CoinbaseTimeout(s) ==
    /\ step[s] = "answer"
    /\ Goto(s, AfterCoinbase)
    /\ GiveUpOn(s, "coinbase")
    /\ UNCHANGED <<config, books, amount, method, answers, chain, left>>

-----------------------------------------------------------------------------
(* Route 2, a transaction from the bot's wallet.                           *)

\* No connection, too small an amount or too small a balance, or an RPC that
\* failed inside the try block.
ChainSkip(s) ==
    /\ step[s] = "chain"
    /\ Goto(s, AfterChain)
    /\ UNCHANGED <<config, books, amount, method, answers, chain, left,
                   unsure>>

\* The checksum, the key and gas_price are evaluated outside the try block:
\* the exception ends the thread.
ChainRaises(s) ==
    /\ step[s] = "chain"
    /\ Goto(s, "died")
    /\ UNCHANGED <<config, books, amount, method, answers, chain, left,
                   unsure>>

\* get_transaction_count counts the mined transactions only.
ChainNonce(s) ==
    /\ step[s] = "chain"
    /\ Goto(s, "send")
    /\ nonce' = [nonce EXCEPT ![s] = mined]
    /\ UNCHANGED <<config, books, amount, method, answers, tx, mined, left,
                   unsure>>

Rivals(s) == {t \in Sweeps \ {s} : tx[t] = "pool" /\ nonce[t] = nonce[s]}

\* The node accepts the transaction, in place of a cheaper one with the same
\* nonce; the answer of send_raw_transaction may be lost.
ChainSend(s) ==
    /\ step[s] = "send"
    /\ nonce[s] = mined
    /\ tx' = [t \in Sweeps |-> IF t = s THEN "pool"
                               ELSE IF t \in Rivals(s) THEN "dropped" ELSE tx[t]]
    /\ \/ Goto(s, "receipt") /\ UNCHANGED unsure
       \/ Goto(s, AfterChain) /\ GiveUpOn(s, "chain")
    /\ UNCHANGED <<config, books, amount, method, answers, nonce, mined, left>>

\* The node refuses it: nonce too low, or a rival that is not underpriced.
ChainRefused(s) ==
    /\ step[s] = "send"
    /\ nonce[s] < mined \/ Rivals(s) # {}
    /\ Goto(s, AfterChain)
    /\ UNCHANGED <<config, books, amount, method, answers, chain, left,
                   unsure>>

\* External: a transaction of the wallet is mined, and may revert.
Mine(s) ==
    /\ tx[s] = "pool"
    /\ mined' = mined + 1
    /\ \/ /\ tx' = [tx EXCEPT ![s] = "paid"]
          /\ left' = [left EXCEPT ![s] = @ \union {"chain"}]
       \/ /\ tx' = [tx EXCEPT ![s] = "reverted"]
          /\ UNCHANGED left
    /\ UNCHANGED <<config, books, step, amount, method, answers, nonce, unsure>>

\* External: a trade of the executor, from the same wallet, takes the nonce.
MineTrade ==
    /\ mined < MaxTrades
    /\ mined' = mined + 1
    /\ tx' = [t \in Sweeps |-> IF tx[t] = "pool" THEN "dropped" ELSE tx[t]]
    /\ UNCHANGED <<config, books, step, amount, method, answers, nonce, left,
                   unsure>>

\* Fault variant: the receipt is not waited for.
ReceiptAssumed(s) ==
    /\ step[s] = "receipt"
    /\ Answer(s, "onchain")
    /\ UNCHANGED <<config, books, amount, answers, chain, left, unsure>>

\* The status of the receipt is not looked at.
Receipt(s) ==
    /\ step[s] = "receipt"
    /\ tx[s] \in {"paid", "reverted"}
    /\ Answer(s, "onchain")
    /\ UNCHANGED <<config, books, amount, answers, chain, left, unsure>>

\* Fault variant: wait_for_transaction_receipt is called without a timeout.
ReceiptNeverTimesOut(s) == FALSE

\* TimeExhausted after 120 s: the transaction may still be mined later.
ReceiptTimeout(s) ==
    /\ step[s] = "receipt"
    /\ tx[s] \in {"pool", "dropped"}
    /\ Goto(s, AfterChain)
    /\ GiveUpOn(s, "chain")
    /\ UNCHANGED <<config, books, amount, method, answers, chain, left>>

-----------------------------------------------------------------------------
(* Route 3, a Lightning invoice, and the record of the result.             *)

\* The address is not resolved, or no invoice is returned.
LightningFails(s) ==
    /\ step[s] = "lightning"
    /\ Goto(s, "record")
    /\ UNCHANGED <<config, books, amount, method, answers, chain, left,
                   unsure>>

\* The invoice is handed to the node when there is one; whatever the node
\* does not confirm within 30 s counts as an invoice left for the user.
LightningInvoice(s) ==
    /\ step[s] = "lightning"
    /\ \E pays \in (IF config.node THEN BOOLEAN ELSE {FALSE}) :
       \E confirmed \in (IF pays THEN BOOLEAN ELSE {FALSE}) :
          /\ Answer(s, IF confirmed THEN "lightning_paid" ELSE "invoice")
          /\ left' = IF pays THEN [left EXCEPT ![s] = @ \union {"lightning"}]
                             ELSE left
    /\ UNCHANGED <<config, books, amount, answers, chain, unsure>>

Record(s) ==
    /\ step[s] = "record"
    /\ totalPaid' = totalPaid + (IF method[s] # "none" THEN amount[s] ELSE 0)
    /\ Goto(s, "recorded")
    /\ UNCHANGED <<config, pending, queued, amount, method, answers, chain,
                   left, unsure>>

-----------------------------------------------------------------------------
(* The steps that the thread of a sweep takes.                             *)
ThreadStep(s) ==
    \/ CoinbaseSkip(s) \/ CoinbaseInternal(s) \/ CoinbaseSend(s)
    \/ CoinbaseAnswered(s) \/ CoinbaseTimeout(s)
    \/ ChainSkip(s) \/ ChainRaises(s) \/ ChainNonce(s)
    \/ ChainSend(s) \/ ChainRefused(s) \/ Receipt(s) \/ ReceiptTimeout(s)
    \/ LightningFails(s) \/ LightningInvoice(s) \/ Record(s)

Next ==
    \/ \E profit \in 1 .. Threshold : Queue(profit)
    \/ SweepNow \/ MineTrade
    \/ \E s \in Sweeps : ThreadStep(s) \/ CoinbaseServe(s) \/ Mine(s)

Spec == Init /\ [][Next]_vars

-----------------------------------------------------------------------------
Recorded == {s \in Sweeps : step[s] = "recorded"}
Paid(s)  == method[s] # "none"
Sum(S)   == MapThenSumSet(LAMBDA s : amount[s], S)

RouteOf(m) == CASE m = "coinbase_api" -> {"coinbase"}
                [] m = "onchain" -> {"chain"}
                [] m \in {"lightning_paid", "invoice"} -> {"lightning"}
                [] OTHER -> {}

\* Between calls the pending balance stays below the threshold: queue takes it
\* out in the same locked section that reaches the threshold.
TypeOK ==
    /\ config \in Configs
    /\ pending \in 0 .. (Threshold - 1)
    /\ totalPaid \in Nat /\ queued \in 0 .. MaxQueued
    /\ step \in [Sweeps -> Places]
    /\ amount \in [Sweeps -> Nat]
    /\ method \in [Sweeps -> Methods]
    /\ key \in [Sweeps -> 0 .. MaxSweeps]
    /\ nonce \in [Sweeps -> Nat] /\ mined \in Nat
    /\ request \in [Sweeps -> {"none", "sent", "ok", "refused"}]
    /\ tx \in [Sweeps -> {"none", "pool", "paid", "reverted", "dropped"}]
    /\ left \in [Sweeps -> SUBSET Routes]
    /\ unsure \in [Sweeps -> SUBSET Routes]

\* Every queued dollar is pending or belongs to exactly one sweep, and the
\* total paid is the sum of the sweeps recorded as successful, whatever
\* queue calls, forced sweeps and finishing threads overlap.
Books ==
    /\ queued = pending + Sum(Sweeps)
    /\ totalPaid = Sum({s \in Recorded : Paid(s)})

\* Money leaves by no route but the one that the history names, except by a
\* request that was given up without an answer: a timed-out Coinbase call or
\* receipt is the only way to be paid twice, or to be paid and marked failed.
PaidAsRecorded ==
    \A s \in Recorded : left[s] \ unsure[s] \subseteq RouteOf(method[s])

\* A sweep recorded as sent has a payment behind it, although not always its
\* own: Coinbase moved its money, or that of another sweep whose request was
\* made in the same second and so has the same idempotency key; its transaction
\* is mined (it may have reverted: the status is not read); or the node
\* confirmed the payment.
SuccessIsBacked ==
    \A s \in Recorded :
       /\ method[s] = "coinbase_api" /\ "coinbase" \notin left[s] =>
             \E t \in Sweeps \ {s} : key[t] = key[s] /\ "coinbase" \in left[t]
       /\ method[s] = "onchain" => tx[s] \in {"paid", "reverted"}
       /\ method[s] = "lightning_paid" => "lightning" \in left[s]

\* payout.py line 89: "Accumulates trade profits and sweeps them to Coinbase /
\* Cash App": what is recorded as sent by Coinbase was moved by that sweep.
SweepMovesItsMoney ==
    \A s \in Recorded : method[s] = "coinbase_api" => "coinbase" \in left[s]

\* What became of a sweep, as the purse sees it.
Fate(s) == IF step[s] = "unstarted" THEN "none"
           ELSE IF step[s] = "died" THEN "lost"
           ELSE IF step[s] # "recorded" THEN "out"
           ELSE IF Paid(s) THEN "sent" ELSE "failed"

\* The sweeps keep the promise of the purse: each takes the whole balance, ends
\* once and counts its dollars then, and its money leaves by one route, except
\* by routes that were given up without an answer.
Payments == INSTANCE Purse WITH
  Payments <- Sweeps, Ways <- Routes, Limit <- Threshold,
  balance <- pending, usd <- amount, fate <- [s \in Sweeps |-> Fate(s)],
  gone <- left, doubts <- unsure, paid <- totalPaid
KeepsPurse == Payments!PurseSpec

\* No sweep is held up for ever: until it is recorded (or its thread died) its
\* thread has a step of its own to take, whatever Coinbase and the chain do or
\* fail to do.  The steps only lead forward, so every sweep comes to its end.
SweepGoesOn ==
    \A s \in Sweeps :
       step[s] \notin {"unstarted", "recorded", "died"} => ENABLED ThreadStep(s)
=============================================================================
