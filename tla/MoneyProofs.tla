---------------------------- MODULE MoneyProofs -----------------------------
(***************************************************************************)
(* What holds of the payouts and of the pool executor for any number of    *)
(* sweeps, requests and pools, and however their threads interleave: the   *)
(* inductive invariants of the two components, the steps that keep them,   *)
(* and the theorems.                                                       *)
(***************************************************************************)
EXTENDS MCMoney, NumberProofs, FiniteSetTheorems, TLAPS

(* Payouts: the inductive invariant and its steps.                         *)

\* A result is set when the route of a sweep answers.
MethodAtEnd == \A s \in Sweeps : step[s] \notin {"record", "recorded"} => method[s] = "none"

\* What Coinbase did with a request is known to its sweep, or the sweep gave
\* the route up; nothing leaves by Coinbase without a request that was served.
RequestKnown ==
    \A s \in Sweeps :
        /\ step[s] \in {"unstarted", "coinbase"} => request[s] = "none"
        /\ request[s] \in {"sent", "ok"} =>
              \/ step[s] = "answer" \/ "coinbase" \in unsure[s]
              \/ request[s] = "ok" /\ method[s] = "coinbase_api"
        /\ method[s] = "coinbase_api" \/ "coinbase" \in left[s] => request[s] = "ok"

\* A key that was served once paid once, for one of the sweeps that used it.
KeyServed ==
    \A s \in Sweeps : request[s] = "ok" =>
        \E t \in Sweeps : request[t] = "ok" /\ key[t] = key[s] /\ "coinbase" \in left[t]

\* A sweep that sent a transaction waits for it, gave it up or recorded it.
TxKnown ==
    \A s \in Sweeps :
        /\ step[s] \in {"unstarted", "coinbase", "answer", "chain", "send"} => tx[s] = "none"
        /\ tx[s] # "none" => \/ step[s] = "receipt" \/ "chain" \in unsure[s]
                             \/ method[s] = "onchain"
        /\ method[s] = "onchain" => tx[s] \in {"paid", "reverted"}
        /\ "chain" \in left[s] => tx[s] = "paid"

\* What left by Lightning is recorded as that.
LightningKnown ==
    \A s \in Sweeps :
        /\ "lightning" \in left[s] => method[s] \in {"lightning_paid", "invoice"}
        /\ method[s] = "lightning_paid" => "lightning" \in left[s]

\* The seconds in use are 1 .. m for some m, and a sweep has one from the
\* moment it sends its request: there are fewer than sweeps before that.
KeysInUse == \E m \in 0 .. MaxSweeps :
    /\ \A s \in Sweeps : key[s] <= m
    /\ \A k \in 1 .. m : \E s \in Sweeps : key[s] = k
KeyAtSend == \A s \in Sweeps : step[s] \in {"unstarted", "coinbase"} => key[s] = 0

\* A sweep that has not begun holds no amount.
AmountAtStart == \A s \in Sweeps : step[s] = "unstarted" => amount[s] = 0

\* What is known of each sweep from its own state.
SweepsKnown == MethodAtEnd /\ RequestKnown /\ TxKnown /\ LightningKnown /\ KeyAtSend /\ AmountAtStart

\* The inductive invariant of the payouts.
PayoutInv == TypeOK /\ SweepsKnown /\ KeyServed /\ KeysInUse /\ Books

\* A sweep that begins.
BegunAs(s, usd, place, m) ==
    /\ step[s] = "unstarted"
    /\ step' = [step EXCEPT ![s] = place]
    /\ method' = [method EXCEPT ![s] = m]
    /\ amount' = [amount EXCEPT ![s] = usd]
    /\ m = "none" \/ place = "record"
    /\ UNCHANGED <<config, totalPaid, key, request, nonce, tx, mined, left, unsure>>

Beginning(usd) ==
    \E s \in Sweeps, place \in {"coinbase", "chain", "lightning", "record"}, m \in {"none",
        "dry_run"} :
        BegunAs(s, usd, place, m)

\* Nothing but the balance changes.
OnlyBooks == UNCHANGED <<config, totalPaid, step, amount, method, key, request, nonce, tx, mined,
    left, unsure>>

\* A sweep begins on its first route, or is a dry run that is over at once.
LEMMA StartBegins ==
    ASSUME TypeOK, MethodAtEnd, NEW s \in Sweeps, NEW usd, Start(s, usd), UNCHANGED totalPaid
    PROVE  Beginning(usd)
<1>1. step[s] = "unstarted" /\ amount' = [amount EXCEPT ![s] = usd]
      /\ UNCHANGED <<config, totalPaid, key, request, nonce, tx, mined, left, unsure>>
    BY DEF Start, answers, chain
<1>2. CASE config.dryRun
    BY <1>1, <1>2 DEF Start, Answer, Goto, BegunAs, Beginning
<1>3. CASE ~config.dryRun
    <2>1. FirstRoute \in {"coinbase", "chain", "lightning", "record"}
        BY <1>3 DEF FirstRoute, AfterCoinbase, AfterChain
    <2>2. method' = [method EXCEPT ![s] = "none"]
        BY <1>1, <1>3 DEF Start, TypeOK, MethodAtEnd
    <2>3. step' = [step EXCEPT ![s] = FirstRoute]
        BY <1>3 DEF Start, Goto
    <2> QED BY <1>1, <2>1, <2>2, <2>3 DEF BegunAs, Beginning
<1> QED BY <1>2, <1>3

\* queue adds to the balance, or takes all of it for a sweep.
LEMMA QueueStep ==
    ASSUME TypeOK, MethodAtEnd, NEW profit \in 1 .. Threshold, Queue(profit)
    PROVE  /\ queued' = queued + profit /\ queued' <= MaxQueued
           /\ \/ pending' = pending + profit /\ pending' < Threshold /\ OnlyBooks
              \/ pending' = 0 /\ Beginning(pending + profit)
<1>0. pending \in Nat /\ queued \in Nat /\ profit \in Nat /\ Threshold \in Nat /\ MaxQueued \in Nat
    BY PayoutAssumption DEF TypeOK, PayoutAssumption
<1>1. CASE pending + profit < Threshold BY <1>0, <1>1 DEF Queue, OnlyBooks, answers, chain
<1>2. CASE ~(pending + profit < Threshold) BY <1>0, <1>2, StartBegins DEF Queue
<1> QED BY <1>1, <1>2

\* sweep_now takes the balance for a sweep.
LEMMA SweepNowStep ==
    ASSUME TypeOK, MethodAtEnd, SweepNow
    PROVE  pending' = 0 /\ UNCHANGED queued /\ Beginning(pending)
BY StartBegins DEF SweepNow

\* The balance after a step of queue or sweep_now.
LEMMA BalanceStep ==
    ASSUME TypeOK, MethodAtEnd, (\E profit \in 1 .. Threshold : Queue(profit)) \/ SweepNow
    PROVE  /\ pending' \in 0 .. (Threshold - 1) /\ queued' \in 0 .. MaxQueued
           /\ OnlyBooks \/ \E usd \in Nat : Beginning(usd)
<1>0. pending \in 0 .. (Threshold - 1) /\ queued \in 0 .. MaxQueued
      /\ Threshold \in Nat \ {0} /\ MaxQueued \in Nat
    BY PayoutAssumption DEF TypeOK, PayoutAssumption
<1>1. ASSUME NEW profit \in 1 .. Threshold, Queue(profit)
      PROVE  /\ pending' \in 0 .. (Threshold - 1) /\ queued' \in 0 .. MaxQueued
             /\ OnlyBooks \/ \E usd \in Nat : Beginning(usd)
    <2>1. pending + profit \in Nat BY <1>0
    <2> QED BY <1>0, <1>1, <2>1, QueueStep
<1>2. CASE SweepNow BY <1>0, <1>2, SweepNowStep
<1> QED BY <1>1, <1>2

\* Before a sweep sends its request fewer seconds are in use than there are
\* sweeps, so the next one is within the type of the keys.
LEMMA KeyFits ==
    ASSUME TypeOK, KeysInUse, KeyAtSend, NEW s \in Sweeps, step[s] = "coinbase"
    PROVE  /\ LastKey \in 0 .. (MaxSweeps - 1)
           /\ \A t \in Sweeps : key[t] <= LastKey
           /\ \A k \in 1 .. LastKey : \E t \in Sweeps : key[t] = k
<1>0. MaxSweeps \in Nat BY PayoutAssumption DEF PayoutAssumption
<1>1. PICK m \in 0 .. MaxSweeps : /\ \A t \in Sweeps : key[t] <= m
                                  /\ \A k \in 1 .. m : \E t \in Sweeps : key[t] = k
    BY DEF KeysInUse
<1>2. \A t \in Sweeps : key[t] \in Nat BY DEF TypeOK
<1>3. key[s] = 0 BY DEF KeyAtSend
<1>4. LastKey = m
    <2> DEFINE K == {key[t] : t \in Sweeps}
    <2>1. m \in K
        <3>1. CASE m = 0 BY <1>1, <1>3, <3>1
        <3>2. CASE m \in 1 .. m BY <1>1, <3>2
        <3> QED BY <1>0, <3>1, <3>2
    <2>2. \A x \in K : x \in Nat /\ m >= x BY <1>0, <1>1, <1>2
    <2>3. \A x \in K : (\A y \in K : x >= y) => x = m
        <3> HIDE DEF K
        <3> QED BY <1>0, <2>1, <2>2
    <2>4. LastKey = CHOOSE x \in K : \A y \in K : x >= y BY DEF LastKey, Max
    <2> HIDE DEF K
    <2> QED BY <2>1, <2>2, <2>3, <2>4
<1>5. m # MaxSweeps
    <2> SUFFICES ASSUME m = MaxSweeps PROVE FALSE OBVIOUS
    <2> DEFINE Others == Sweeps \ {s}
               holder == [k \in 1 .. m |-> CHOOSE t \in Sweeps : key[t] = k]
    <2>1. \A k \in 1 .. m : holder[k] \in Others /\ key[holder[k]] = k
        BY <1>1, <1>3
    <2>2. IsFiniteSet(1 .. m) /\ Cardinality(1 .. m) = MaxSweeps
        BY <1>0, FS_Interval
    <2>3. IsFiniteSet(Sweeps) /\ Cardinality(Sweeps) = MaxSweeps
        BY <1>0, FS_Interval DEF Sweeps
    <2>4. IsFiniteSet(Others) /\ Cardinality(Others) = MaxSweeps - 1
        BY <2>3, FS_RemoveElement
    <2>5. holder \in [1 .. m -> Others] BY <2>1
    <2> HIDE DEF holder, Others
    <2>6. \E x, y \in 1 .. m : x # y /\ holder[x] = holder[y]
        BY <1>0, <2>2, <2>4, <2>5, FS_PigeonHole
    <2> QED BY <2>1, <2>6
<1>6. m \in 0 .. MaxSweeps - 1 BY <1>0, <1>5
<1>7. \A t \in Sweeps : key[t] <= m BY <1>1
<1>8. \A k \in 1 .. m : \E t \in Sweeps : key[t] = k BY <1>1
<1> QED BY <1>4, <1>6, <1>7, <1>8

\* The seconds in use stay without a gap.
LEMMA KeysInUseStep ==
    ASSUME TypeOK, MethodAtEnd, KeysInUse, KeyAtSend, Next
    PROVE  KeysInUse'
<1>1. CASE UNCHANGED key BY <1>1 DEF KeysInUse
<1>2. ASSUME NEW s \in Sweeps, CoinbaseSend(s) PROVE KeysInUse'
    <2>1. step[s] = "coinbase" BY <1>2 DEF CoinbaseSend
    <2>2. PICK second \in {LastKey, LastKey + 1} \ {0} : key' = [key EXCEPT ![s] = second]
        BY <1>2 DEF CoinbaseSend
    <2> DEFINE m == IF second = LastKey THEN LastKey ELSE LastKey + 1
    <2>3. second = m /\ m \in 0 .. MaxSweeps /\ LastKey \in Nat /\ MaxSweeps \in Nat
        BY <2>1, <2>2, KeyFits, PayoutAssumption DEF PayoutAssumption
    <2>4. key \in [Sweeps -> Nat] /\ key[s] = 0 BY <2>1 DEF TypeOK, KeyAtSend
    <2>5. \A t \in Sweeps : key[t] <= LastKey BY <2>1, KeyFits
    <2>6. \A k \in 1 .. LastKey : \E t \in Sweeps : key[t] = k BY <2>1, KeyFits
    <2>7. \A t \in Sweeps : key'[t] <= m
        BY <2>2, <2>3, <2>4, <2>5
    <2>8. ASSUME NEW k \in 1 .. m PROVE \E t \in Sweeps : key'[t] = k
        <3>1. CASE k = second BY <2>2, <2>4, <3>1
        <3>2. CASE k # second
            <4>1. k \in 1 .. LastKey BY <2>3, <3>2
            <4>2. PICK t \in Sweeps : key[t] = k BY <2>6, <4>1
            <4>3. t # s BY <2>4, <4>1, <4>2
            <4> QED BY <2>2, <2>4, <4>2, <4>3
        <3> QED BY <3>1, <3>2
    <2> HIDE DEF m
    <2> QED BY <2>3, <2>7, <2>8 DEF KeysInUse
<1>3. CASE \E usd \in Nat : Beginning(usd)
    BY <1>1, <1>3 DEF Beginning, BegunAs
<1>4. CASE OnlyBooks BY <1>1, <1>4 DEF OnlyBooks
<1>5. CASE (\E profit \in 1 .. Threshold : Queue(profit)) \/ SweepNow
    BY <1>3, <1>4, <1>5, BalanceStep
<1>6. CASE MineTrade BY <1>1, <1>6 DEF MineTrade, answers
<1>7. ASSUME NEW s \in Sweeps, ThreadStep(s), ~CoinbaseSend(s) PROVE UNCHANGED key
    BY <1>7 DEF ThreadStep, CoinbaseSkip, CoinbaseInternal, CoinbaseAnswered, CoinbaseTimeout,
        ChainSkip,
        ChainRaises, ChainNonce, ChainSend, ChainRefused, Receipt, ReceiptTimeout, LightningFails,
        LightningInvoice, Record, answers
<1>8. ASSUME NEW s \in Sweeps, CoinbaseServe(s) \/ Mine(s) PROVE UNCHANGED key
    BY <1>8 DEF CoinbaseServe, Mine, answers
<1> QED BY <1>1, <1>2, <1>5, <1>6, <1>7, <1>8 DEF Next

\* A transaction that is sent replaces those that wait with its nonce.
LEMMA SendRows ==
    ASSUME NEW s \in Sweeps, ChainSend(s)
    PROVE  /\ step[s] = "send" /\ UNCHANGED <<config, books, amount, method, answers, nonce,
              mined, left>>
           /\ tx'[s] = "pool"
           /\ \A t \in Sweeps : t # s => tx'[t] = tx[t] \/ (tx[t] = "pool" /\ tx'[t] = "dropped")
<1>1. step[s] = "send" /\ UNCHANGED <<config, books, amount, method, answers, nonce, mined, left>>
      /\ tx' = [t \in Sweeps |-> IF t = s THEN "pool"
                                 ELSE IF t \in Rivals(s) THEN "dropped" ELSE tx[t]]
    BY DEF ChainSend
<1>2. tx'[s] = "pool" BY <1>1
<1>3. ASSUME NEW t \in Sweeps, t # s PROVE tx'[t] = tx[t] \/ (tx[t] = "pool" /\ tx'[t] = "dropped")
    <2>1. tx'[t] = IF t \in Rivals(s) THEN "dropped" ELSE tx[t] BY <1>1, <1>3
    <2> QED BY <2>1 DEF Rivals
<1> QED BY <1>1, <1>2, <1>3

\* Every step keeps the types.
LEMMA TypeOKStep ==
    ASSUME TypeOK, MethodAtEnd, KeysInUse, KeyAtSend, Next
    PROVE  TypeOK'
<1>0. ASSUME NEW usd \in Nat, Beginning(usd), pending' \in 0 .. (Threshold - 1),
    queued' \in 0 .. MaxQueued
      PROVE  TypeOK'
    <2> PICK s \in Sweeps, place \in {"coinbase", "chain", "lightning", "record"}, m \in {"none",
        "dry_run"} : BegunAs(s, usd, place, m)
        BY <1>0 DEF Beginning
    <2> QED BY <1>0 DEF BegunAs, TypeOK, Places, Methods, Routes
<1>1. ASSUME OnlyBooks, pending' \in 0 .. (Threshold - 1), queued' \in 0 .. MaxQueued
      PROVE  TypeOK'
    BY <1>1 DEF OnlyBooks, TypeOK, Places, Methods, Routes
<1>2. ASSUME (\E profit \in 1 .. Threshold : Queue(profit)) \/ SweepNow PROVE TypeOK'
    BY <1>0, <1>1, <1>2, BalanceStep
<1> USE DEF TypeOK, Places, Methods, Routes, Goto, GiveUpOn, Answer, AfterChain, AfterCoinbase,
    books, answers, chain
<1>3. CASE MineTrade
    BY <1>3 DEF MineTrade
<1>4. ASSUME NEW s \in Sweeps, CoinbaseSkip(s) PROVE TypeOK'
    BY <1>4 DEF CoinbaseSkip
<1>5. ASSUME NEW s \in Sweeps, CoinbaseInternal(s) PROVE TypeOK'
    BY <1>5 DEF CoinbaseInternal
<1>6. ASSUME NEW s \in Sweeps, CoinbaseSend(s) PROVE TypeOK'
    <2>0. MaxSweeps \in Nat /\ LastKey \in 0 .. (MaxSweeps - 1)
        BY <1>6, KeyFits, PayoutAssumption DEF CoinbaseSend, PayoutAssumption
    <2>1. key' \in [Sweeps -> 0 .. MaxSweeps]
        BY <1>6, <2>0 DEF CoinbaseSend
    <2>2. UNCHANGED <<config, books, amount, method, chain, left, unsure>>
        BY <1>6 DEF CoinbaseSend
    <2>3. step' \in [Sweeps -> Places] /\ request' \in [Sweeps -> {"none", "sent", "ok", "refused"}]
        BY <1>6 DEF CoinbaseSend
    <2> QED BY <2>1, <2>2, <2>3
<1>7. ASSUME NEW s \in Sweeps, CoinbaseAnswered(s) PROVE TypeOK'
    BY <1>7 DEF CoinbaseAnswered
<1>8. ASSUME NEW s \in Sweeps, CoinbaseTimeout(s) PROVE TypeOK'
    BY <1>8 DEF CoinbaseTimeout
<1>9. ASSUME NEW s \in Sweeps, ChainSkip(s) PROVE TypeOK'
    BY <1>9 DEF ChainSkip
<1>10. ASSUME NEW s \in Sweeps, ChainRaises(s) PROVE TypeOK'
    BY <1>10 DEF ChainRaises
<1>11. ASSUME NEW s \in Sweeps, ChainNonce(s) PROVE TypeOK'
    BY <1>11 DEF ChainNonce
<1>12. ASSUME NEW s \in Sweeps, ChainSend(s) PROVE TypeOK'
    <2>1. tx' \in [Sweeps -> {"none", "pool", "paid", "reverted", "dropped"}]
        BY <1>12 DEF ChainSend
    <2>2. UNCHANGED <<config, books, amount, method, answers, nonce, mined, left>>
        BY <1>12 DEF ChainSend
    <2>3. step' \in [Sweeps -> Places] /\ unsure' \in [Sweeps -> SUBSET Routes]
        BY <1>12 DEF ChainSend
    <2> QED BY <2>1, <2>2, <2>3
<1>13. ASSUME NEW s \in Sweeps, ChainRefused(s) PROVE TypeOK'
    BY <1>13 DEF ChainRefused
<1>14. ASSUME NEW s \in Sweeps, Receipt(s) PROVE TypeOK'
    BY <1>14 DEF Receipt
<1>15. ASSUME NEW s \in Sweeps, ReceiptTimeout(s) PROVE TypeOK'
    BY <1>15 DEF ReceiptTimeout
<1>16. ASSUME NEW s \in Sweeps, LightningFails(s) PROVE TypeOK'
    BY <1>16 DEF LightningFails
<1>17. ASSUME NEW s \in Sweeps, LightningInvoice(s) PROVE TypeOK'
    BY <1>17 DEF LightningInvoice
<1>18. ASSUME NEW s \in Sweeps, Record(s) PROVE TypeOK'
    BY <1>18 DEF Record
<1>19. ASSUME NEW s \in Sweeps, CoinbaseServe(s) PROVE TypeOK'
    BY <1>19 DEF CoinbaseServe
<1>20. ASSUME NEW s \in Sweeps, Mine(s) PROVE TypeOK'
    BY <1>20 DEF Mine
<1> HIDE DEF TypeOK, Places, Methods, Routes, Goto, GiveUpOn, Answer, AfterChain, AfterCoinbase,
    books, answers, chain
<1> QED BY <1>2, <1>3, <1>4, <1>5, <1>6, <1>7, <1>8, <1>9, <1>10, <1>11, <1>12, <1>13, <1>14,
    <1>15, <1>16, <1>17, <1>18, <1>19, <1>20 DEF Next, ThreadStep

\* Every step keeps a served key paid.
LEMMA KeyServedStep ==
    ASSUME TypeOK, MethodAtEnd, RequestKnown, KeyServed, Next
    PROVE  KeyServed'
<1>0. ASSUME NEW usd \in Nat, Beginning(usd), pending' \in 0 .. (Threshold - 1),
    queued' \in 0 .. MaxQueued
      PROVE  KeyServed'
    <2> PICK s \in Sweeps, place \in {"coinbase", "chain", "lightning", "record"}, m \in {"none",
        "dry_run"} : BegunAs(s, usd, place, m)
        BY <1>0 DEF Beginning
    <2> QED BY <1>0 DEF BegunAs, TypeOK, RequestKnown, KeyServed
<1>1. ASSUME OnlyBooks, pending' \in 0 .. (Threshold - 1), queued' \in 0 .. MaxQueued
      PROVE  KeyServed'
    BY <1>1 DEF OnlyBooks, TypeOK, RequestKnown, KeyServed
<1>2. ASSUME (\E profit \in 1 .. Threshold : Queue(profit)) \/ SweepNow PROVE KeyServed'
    BY <1>0, <1>1, <1>2, BalanceStep
<1> USE DEF TypeOK, RequestKnown, KeyServed, Goto, GiveUpOn, Answer, AfterChain, AfterCoinbase,
    books, answers, chain
<1>3. CASE MineTrade
    BY <1>3 DEF MineTrade
<1>4. ASSUME NEW s \in Sweeps, CoinbaseSkip(s) PROVE KeyServed'
    BY <1>4 DEF CoinbaseSkip
<1>5. ASSUME NEW s \in Sweeps, CoinbaseInternal(s) PROVE KeyServed'
    BY <1>5 DEF CoinbaseInternal
<1>6. ASSUME NEW s \in Sweeps, CoinbaseSend(s) PROVE KeyServed'
    BY <1>6 DEF CoinbaseSend
<1>7. ASSUME NEW s \in Sweeps, CoinbaseAnswered(s) PROVE KeyServed'
    BY <1>7 DEF CoinbaseAnswered
<1>8. ASSUME NEW s \in Sweeps, CoinbaseTimeout(s) PROVE KeyServed'
    BY <1>8 DEF CoinbaseTimeout
<1>9. ASSUME NEW s \in Sweeps, ChainSkip(s) PROVE KeyServed'
    BY <1>9 DEF ChainSkip
<1>10. ASSUME NEW s \in Sweeps, ChainRaises(s) PROVE KeyServed'
    BY <1>10 DEF ChainRaises
<1>11. ASSUME NEW s \in Sweeps, ChainNonce(s) PROVE KeyServed'
    BY <1>11 DEF ChainNonce
<1>12. ASSUME NEW s \in Sweeps, ChainSend(s) PROVE KeyServed'
    BY <1>12 DEF ChainSend, Rivals
<1>13. ASSUME NEW s \in Sweeps, ChainRefused(s) PROVE KeyServed'
    BY <1>13 DEF ChainRefused
<1>14. ASSUME NEW s \in Sweeps, Receipt(s) PROVE KeyServed'
    BY <1>14 DEF Receipt
<1>15. ASSUME NEW s \in Sweeps, ReceiptTimeout(s) PROVE KeyServed'
    BY <1>15 DEF ReceiptTimeout
<1>16. ASSUME NEW s \in Sweeps, LightningFails(s) PROVE KeyServed'
    BY <1>16 DEF LightningFails
<1>17. ASSUME NEW s \in Sweeps, LightningInvoice(s) PROVE KeyServed'
    BY <1>17 DEF LightningInvoice
<1>18. ASSUME NEW s \in Sweeps, Record(s) PROVE KeyServed'
    BY <1>18 DEF Record
<1>19. ASSUME NEW s \in Sweeps, CoinbaseServe(s) PROVE KeyServed'
    BY <1>19 DEF CoinbaseServe
<1>20. ASSUME NEW s \in Sweeps, Mine(s) PROVE KeyServed'
    BY <1>20 DEF Mine
<1> HIDE DEF TypeOK, RequestKnown, KeyServed, Goto, GiveUpOn, Answer, AfterChain, AfterCoinbase,
    books, answers, chain
<1> QED BY <1>2, <1>3, <1>4, <1>5, <1>6, <1>7, <1>8, <1>9, <1>10, <1>11, <1>12, <1>13, <1>14,
    <1>15, <1>16, <1>17, <1>18, <1>19, <1>20 DEF Next, ThreadStep

\* Every step keeps what is known of each sweep.
LEMMA SweepsKnownStep ==
    ASSUME TypeOK, MethodAtEnd, SweepsKnown, Next
    PROVE  SweepsKnown'
<1>0. ASSUME NEW usd \in Nat, Beginning(usd), pending' \in 0 .. (Threshold - 1),
    queued' \in 0 .. MaxQueued
      PROVE  SweepsKnown'
    <2> PICK s \in Sweeps, place \in {"coinbase", "chain", "lightning", "record"}, m \in {"none",
        "dry_run"} : BegunAs(s, usd, place, m)
        BY <1>0 DEF Beginning
    <2> QED BY <1>0 DEF BegunAs, TypeOK, SweepsKnown, MethodAtEnd, RequestKnown, TxKnown,
        LightningKnown, KeyAtSend, AmountAtStart
<1>1. ASSUME OnlyBooks, pending' \in 0 .. (Threshold - 1), queued' \in 0 .. MaxQueued
      PROVE  SweepsKnown'
    BY <1>1 DEF OnlyBooks, TypeOK, SweepsKnown, MethodAtEnd, RequestKnown, TxKnown,
        LightningKnown, KeyAtSend, AmountAtStart
<1>2. ASSUME (\E profit \in 1 .. Threshold : Queue(profit)) \/ SweepNow PROVE SweepsKnown'
    BY <1>0, <1>1, <1>2, BalanceStep
<1> USE DEF TypeOK, SweepsKnown, MethodAtEnd, RequestKnown, TxKnown, LightningKnown, KeyAtSend,
    AmountAtStart, Goto, GiveUpOn, Answer, AfterChain, AfterCoinbase, books, answers, chain
<1>3. CASE MineTrade
    BY <1>3 DEF MineTrade
<1>4. ASSUME NEW s \in Sweeps, CoinbaseSkip(s) PROVE SweepsKnown'
    BY <1>4 DEF CoinbaseSkip
<1>5. ASSUME NEW s \in Sweeps, CoinbaseInternal(s) PROVE SweepsKnown'
    BY <1>5 DEF CoinbaseInternal
<1>6. ASSUME NEW s \in Sweeps, CoinbaseSend(s) PROVE SweepsKnown'
    BY <1>6 DEF CoinbaseSend
<1>7. ASSUME NEW s \in Sweeps, CoinbaseAnswered(s) PROVE SweepsKnown'
    BY <1>7 DEF CoinbaseAnswered
<1>8. ASSUME NEW s \in Sweeps, CoinbaseTimeout(s) PROVE SweepsKnown'
    BY <1>8 DEF CoinbaseTimeout
<1>9. ASSUME NEW s \in Sweeps, ChainSkip(s) PROVE SweepsKnown'
    BY <1>9 DEF ChainSkip
<1>10. ASSUME NEW s \in Sweeps, ChainRaises(s) PROVE SweepsKnown'
    BY <1>10 DEF ChainRaises
<1>11. ASSUME NEW s \in Sweeps, ChainNonce(s) PROVE SweepsKnown'
    BY <1>11 DEF ChainNonce
<1>12. ASSUME NEW s \in Sweeps, ChainSend(s) PROVE SweepsKnown'
    <2>1. step[s] = "send" /\ UNCHANGED <<config, books, amount, method, answers, nonce, mined,
        left>>
          /\ tx'[s] = "pool"
          /\ \A t \in Sweeps : t # s => tx'[t] = tx[t] \/ (tx[t] = "pool" /\ tx'[t] = "dropped")
        BY <1>12, SendRows
    <2>2. CASE Goto(s, "receipt") /\ UNCHANGED unsure
        BY <2>1, <2>2
    <2>3. CASE Goto(s, AfterChain) /\ GiveUpOn(s, "chain")
        BY <2>1, <2>3
    <2> QED BY <1>12, <2>2, <2>3 DEF ChainSend
<1>13. ASSUME NEW s \in Sweeps, ChainRefused(s) PROVE SweepsKnown'
    BY <1>13 DEF ChainRefused
<1>14. ASSUME NEW s \in Sweeps, Receipt(s) PROVE SweepsKnown'
    BY <1>14 DEF Receipt
<1>15. ASSUME NEW s \in Sweeps, ReceiptTimeout(s) PROVE SweepsKnown'
    BY <1>15 DEF ReceiptTimeout
<1>16. ASSUME NEW s \in Sweeps, LightningFails(s) PROVE SweepsKnown'
    BY <1>16 DEF LightningFails
<1>17. ASSUME NEW s \in Sweeps, LightningInvoice(s) PROVE SweepsKnown'
    <2>1. PICK m \in {"lightning_paid", "invoice"} : Answer(s, m)
             /\ (\/ left' = left /\ m = "invoice"
                 \/ left' = [left EXCEPT ![s] = @ \union {"lightning"}])
        BY <1>17 DEF LightningInvoice
    <2>2. step[s] = "lightning" /\ UNCHANGED <<config, books, amount, answers, chain, unsure>>
        BY <1>17 DEF LightningInvoice
    <2>3. CASE left' = left /\ m = "invoice" BY <2>1, <2>2, <2>3
    <2>4. CASE left' = [left EXCEPT ![s] = @ \union {"lightning"}] BY <2>1, <2>2, <2>4
    <2> QED BY <2>1, <2>3, <2>4
<1>18. ASSUME NEW s \in Sweeps, Record(s) PROVE SweepsKnown'
    BY <1>18 DEF Record
<1>19. ASSUME NEW s \in Sweeps, CoinbaseServe(s) PROVE SweepsKnown'
    BY <1>19 DEF CoinbaseServe
<1>20. ASSUME NEW s \in Sweeps, Mine(s) PROVE SweepsKnown'
    <2>1. tx[s] = "pool" /\ UNCHANGED <<config, books, step, amount, method, answers, nonce,
        unsure>>
        BY <1>20 DEF Mine
    <2>2. CASE tx' = [tx EXCEPT ![s] = "paid"] /\ left' = [left EXCEPT ![s] = @ \union {"chain"}]
        BY <2>1, <2>2
    <2>3. CASE tx' = [tx EXCEPT ![s] = "reverted"] /\ UNCHANGED left
        BY <2>1, <2>3
    <2> QED BY <1>20, <2>2, <2>3 DEF Mine
<1> HIDE DEF TypeOK, SweepsKnown, MethodAtEnd, RequestKnown, TxKnown, LightningKnown, KeyAtSend,
    AmountAtStart, Goto, GiveUpOn, Answer, AfterChain, AfterCoinbase, books, answers, chain
<1> QED BY <1>2, <1>3, <1>4, <1>5, <1>6, <1>7, <1>8, <1>9, <1>10, <1>11, <1>12, <1>13, <1>14,
    <1>15, <1>16, <1>17, <1>18, <1>19, <1>20 DEF Next, ThreadStep

-----------------------------------------------------------------------------
(* Payouts: the books.                                                     *)

\* The profit of the sweeps that were recorded as paid.
PaidSweeps == {s \in Sweeps : step[s] = "recorded" /\ method[s] # "none"}

\* The sums of the books are totals of the function that holds the amounts.
LEMMA BooksAreTotals ==
    /\ Sum(Sweeps) = SumOver(amount, Sweeps)
    /\ Sum({s \in Recorded : Paid(s)}) = SumOver(amount, PaidSweeps)
<1>1. {s \in Recorded : Paid(s)} = PaidSweeps
    BY DEF Recorded, Paid, PaidSweeps
<1> QED BY <1>1 DEF Sum, SumOver

\* The books in terms of these totals, before a step and after it.
LEMMA BooksAre ==
    Books <=> /\ queued = pending + SumOver(amount, Sweeps)
              /\ totalPaid = SumOver(amount, PaidSweeps)
BY BooksAreTotals DEF Books

\* And after it.
LEMMA BooksArePrimed ==
    Books' <=> /\ queued' = pending' + SumOver(amount', Sweeps)
               /\ totalPaid' = SumOver(amount', PaidSweeps')
<1>1. {s \in Recorded : Paid(s)}' = PaidSweeps'
    BY DEF Recorded, Paid, PaidSweeps
<1>2. Sum(Sweeps)' = SumOver(amount', Sweeps)
    BY DEF Sum, SumOver, MapThenSumSet, MapThenFoldSet
<1>3. Sum({s \in Recorded : Paid(s)})' = SumOver(amount', {s \in Recorded : Paid(s)}')
    BY DEF Sum, SumOver, MapThenSumSet, MapThenFoldSet
<1> QED BY <1>1, <1>2, <1>3 DEF Books

\* There are finitely many sweeps.
LEMMA SweepsFinite == \A S \in SUBSET Sweeps : IsFiniteSet(S)
<1>1. IsFiniteSet(Sweeps)
    BY PayoutAssumption, FS_Interval DEF PayoutAssumption, Sweeps
<1> QED BY <1>1, FS_Subset

\* A sweep that begins with an amount adds it to the sum over all sweeps and
\* leaves the sum over those recorded as paid alone.
LEMMA BeginningAdds ==
    ASSUME TypeOK, AmountAtStart, NEW usd \in Nat, Beginning(usd)
    PROVE  /\ SumOver(amount', Sweeps) = SumOver(amount, Sweeps) + usd
           /\ SumOver(amount', PaidSweeps') = SumOver(amount, PaidSweeps)
<1>1. PICK s \in Sweeps, place \in {"coinbase", "chain", "lightning", "record"}, m \in {"none",
    "dry_run"} :
         BegunAs(s, usd, place, m)
    BY DEF Beginning
<1>2. amount \in [Sweeps -> Nat] /\ amount' \in [Sweeps -> Nat]
    BY <1>1 DEF BegunAs, TypeOK
<1>3. amount[s] = 0 /\ amount'[s] = usd /\ \A t \in Sweeps \ {s} : amount'[t] = amount[t]
    BY <1>1, <1>2 DEF BegunAs, AmountAtStart
<1> DEFINE Rest == Sweeps \ {s}
<1>4. SumOver(amount', Sweeps) = usd + SumOver(amount', Rest)
    BY <1>2, <1>3, SweepsFinite, SumSplits
<1>5. SumOver(amount, Sweeps) = 0 + SumOver(amount, Rest)
    BY <1>2, <1>3, SweepsFinite, SumSplits
<1>6. SumOver(amount', Rest) = SumOver(amount, Rest)
    BY <1>2, <1>3, SweepsFinite, SumAgrees
<1>7. SumOver(amount, Rest) \in Nat
    BY <1>2, SweepsFinite, SumSplits
<1>8. PaidSweeps' = PaidSweeps /\ PaidSweeps \in SUBSET Rest
    BY <1>1 DEF BegunAs, PaidSweeps, TypeOK
<1>9. SumOver(amount', PaidSweeps) = SumOver(amount, PaidSweeps)
    <2>1. \A t \in PaidSweeps : amount[t] = amount'[t]
        BY <1>3, <1>8
    <2>2. IsFiniteSet(PaidSweeps) /\ PaidSweeps \in SUBSET Sweeps
        BY <1>8, SweepsFinite
    <2> QED BY <1>2, <2>1, <2>2, SumAgrees
<1> QED BY <1>4, <1>5, <1>6, <1>7, <1>8, <1>9

\* The steps that neither begin nor record a sweep leave the books alone.
LEMMA OtherwiseBooksStay ==
    ASSUME TypeOK, MethodAtEnd, Next,
           ~ \E profit \in 1 .. Threshold : Queue(profit), ~ SweepNow, ~ \E s \in Sweeps : Record(s)
    PROVE  UNCHANGED <<amount, pending, queued, totalPaid, PaidSweeps>>
<1> USE DEF TypeOK, MethodAtEnd, PaidSweeps, Goto, GiveUpOn, Answer, AfterChain, AfterCoinbase,
    books,
            answers, chain
<1>1. CASE MineTrade BY <1>1 DEF MineTrade
<1>2. ASSUME NEW s \in Sweeps, CoinbaseServe(s) \/ Mine(s)
      PROVE  UNCHANGED <<amount, pending, queued, totalPaid, PaidSweeps>>
    BY <1>2 DEF CoinbaseServe, Mine
<1>3. ASSUME NEW s \in Sweeps, CoinbaseSkip(s) \/ CoinbaseInternal(s) \/ CoinbaseSend(s)
                                \/ CoinbaseAnswered(s) \/ CoinbaseTimeout(s)
      PROVE  UNCHANGED <<amount, pending, queued, totalPaid, PaidSweeps>>
    BY <1>3 DEF CoinbaseSkip, CoinbaseInternal, CoinbaseSend, CoinbaseAnswered, CoinbaseTimeout
<1>4. ASSUME NEW s \in Sweeps, ChainSkip(s) \/ ChainRaises(s) \/ ChainNonce(s) \/ ChainSend(s)
                                \/ ChainRefused(s) \/ Receipt(s) \/ ReceiptTimeout(s)
      PROVE  UNCHANGED <<amount, pending, queued, totalPaid, PaidSweeps>>
    BY <1>4 DEF ChainSkip, ChainRaises, ChainNonce, ChainSend, ChainRefused, Receipt, ReceiptTimeout
<1>5. ASSUME NEW s \in Sweeps, LightningFails(s) \/ LightningInvoice(s)
      PROVE  UNCHANGED <<amount, pending, queued, totalPaid, PaidSweeps>>
    BY <1>5 DEF LightningFails, LightningInvoice
<1> HIDE DEF TypeOK, MethodAtEnd, PaidSweeps, Goto, GiveUpOn, Answer, AfterChain, AfterCoinbase,
    books,
            answers, chain
<1> QED BY <1>1, <1>2, <1>3, <1>4, <1>5 DEF Next, ThreadStep

\* Every step keeps the books.
LEMMA BooksStep ==
    ASSUME TypeOK, MethodAtEnd, AmountAtStart, Books, Next
    PROVE  Books'
<1>0. pending \in Nat /\ queued \in Nat /\ amount \in [Sweeps -> Nat] /\ totalPaid \in Nat
    BY PayoutAssumption DEF TypeOK, PayoutAssumption
<1>1. queued = pending + SumOver(amount, Sweeps) /\ totalPaid = SumOver(amount, PaidSweeps)
    BY BooksAre
<1>2. SumOver(amount, Sweeps) \in Nat
    BY <1>0, SweepsFinite, SumSplits
<1>3. ASSUME NEW profit \in 1 .. Threshold, Queue(profit) PROVE Books'
    <2>1. CASE OnlyBooks
        <3>1. PaidSweeps' = PaidSweeps /\ UNCHANGED <<amount, totalPaid>>
            BY <2>1 DEF OnlyBooks, PaidSweeps
        <3>2. CASE pending' = pending + profit
            BY <1>0, <1>1, <1>2, <1>3, <3>1, <3>2, QueueStep, BooksArePrimed
        <3>3. CASE pending' # pending + profit
            <4>1. pending' = 0 /\ Beginning(pending + profit) BY <1>3, <3>3, QueueStep
            <4>2. FALSE BY <2>1, <4>1 DEF Beginning, BegunAs, OnlyBooks, TypeOK
            <4> QED BY <4>2
        <3> QED BY <3>2, <3>3
    <2>2. CASE ~OnlyBooks
        <3>1. pending' = 0 /\ Beginning(pending + profit) /\ queued' = queued + profit
            BY <1>3, <2>2, QueueStep
        <3>2. pending + profit \in Nat /\ profit \in Nat BY <1>0
        <3>3. UNCHANGED totalPaid BY <1>3 DEF Queue
        <3>4. SumOver(amount', Sweeps) = SumOver(amount, Sweeps) + (pending + profit)
              /\ SumOver(amount', PaidSweeps') = SumOver(amount, PaidSweeps)
            BY <3>1, <3>2, BeginningAdds
        <3> QED BY <1>0, <1>1, <1>2, <3>1, <3>2, <3>3, <3>4, BooksArePrimed
    <2> QED BY <2>1, <2>2
<1>4. CASE SweepNow
    <2>1. pending' = 0 /\ UNCHANGED <<queued, totalPaid>> /\ Beginning(pending)
        BY <1>4, SweepNowStep DEF SweepNow
    <2>2. SumOver(amount', Sweeps) = SumOver(amount, Sweeps) + pending
          /\ SumOver(amount', PaidSweeps') = SumOver(amount, PaidSweeps)
        BY <1>0, <2>1, BeginningAdds
    <2> QED BY <1>0, <1>1, <1>2, <2>1, <2>2, BooksArePrimed
<1>5. ASSUME NEW s \in Sweeps, Record(s) PROVE Books'
    <2>1. UNCHANGED <<amount, pending, queued, method>> /\ step[s] = "record"
          /\ step' = [step EXCEPT ![s] = "recorded"]
          /\ totalPaid' = totalPaid + (IF method[s] # "none" THEN amount[s] ELSE 0)
        BY <1>5 DEF Record, Goto
    <2>2. step \in [Sweeps -> Places] BY DEF TypeOK
    <2>3. CASE method[s] = "none"
        <3>1. PaidSweeps' = PaidSweeps BY <2>1, <2>2, <2>3 DEF PaidSweeps
        <3> QED BY <1>0, <1>1, <2>1, <2>3, <3>1, BooksArePrimed
    <2>4. CASE method[s] # "none"
        <3>1. PaidSweeps' = PaidSweeps \union {s} /\ s \notin PaidSweeps /\ PaidSweeps' \ {s} = PaidSweeps
            BY <2>1, <2>2, <2>4 DEF PaidSweeps
        <3>2. PaidSweeps' \in SUBSET Sweeps /\ PaidSweeps \in SUBSET Sweeps
            BY <3>1 DEF PaidSweeps
        <3>3. SumOver(amount, PaidSweeps') = amount[s] + SumOver(amount, PaidSweeps)
            BY <1>0, <3>1, <3>2, SweepsFinite, SumSplits
        <3>4. amount[s] \in Nat /\ SumOver(amount, PaidSweeps) \in Nat
            BY <1>0, <3>2, SweepsFinite, SumSplits
        <3> QED BY <1>0, <1>1, <2>1, <2>4, <3>3, <3>4, BooksArePrimed
    <2> QED BY <2>3, <2>4
<1>6. CASE UNCHANGED <<amount, pending, queued, totalPaid, PaidSweeps>>
    BY <1>1, <1>6, BooksArePrimed
<1> QED BY <1>3, <1>4, <1>5, <1>6, OtherwiseBooksStay

-----------------------------------------------------------------------------
(* The pool executor.                                                      *)

\* Transactions that were never sent, or were replaced before they were mined.
Fresh == {x \in PxTxs : pxStatus[x] = "none" /\ \A y \in pxPending : y.tx # x}

\* Entries whose deposit was mined with success or waits to be mined.
Deposited == {o \in PxObjects : \/ pxStatus[<<o, "supply">>] = "ok"
                                \/ \E x \in pxPending : x.tx = <<o, "supply">>}

\* The transactions that may follow one of this kind for the same entry.
ToCome(k) == CASE k = "approve" -> {"again", "supply"} [] k = "again" -> {"supply"} [] OTHER -> {}

\* A request that is entering a pool.
Busy(c) == pxStep[c] \in {"gas", "send", "wait"}

\* The deposit of this entry is waited for.
Awaited(c, p) == pxStep[c] = "wait" /\ pxKind[c] = "supply" /\ Entering(c) = p

\* Types, with those of the variables that PxTypeOK leaves out.
PxTyped ==
    /\ PxTypeOK
    /\ pxNonce \in [PxCalls -> Nat] /\ pxKind \in [PxCalls -> PxKinds]
    /\ \A x \in pxPending : x.tx \in PxTxs
    /\ pxOverlapped \subseteq PxObjects
    /\ pxLeft \in [PxObjects -> Nat]

\* Requests begin in their order, and one that enters has a pool to enter.
CallsInOrder ==
    \A c \in PxCalls :
        /\ c > pxCount => pxStep[c] = "none"
        /\ Busy(c) => pxTodo[c] # {}

\* What a request has not sent yet is fresh.
NotYetSent ==
    \A c \in PxCalls :
        /\ pxStep[c] = "none" => \A p \in PxPools, k \in PxKinds : <<<<c, p>>, k>> \in Fresh
        /\ Busy(c) => \A p \in pxTodo[c], k \in PxKinds :
                          p # Entering(c) \/ pxStep[c] = "gas" => <<<<c, p>>, k>> \in Fresh
        /\ pxStep[c] = "send" => <<<<c, Entering(c)>>, pxKind[c]>> \in Fresh
        /\ pxStep[c] \in {"send", "wait"} =>
              \A k \in ToCome(pxKind[c]) : <<<<c, Entering(c)>>, k>> \in Fresh

\* The entries of a request are recorded once, when their pool is done with.
NotYetRecorded ==
    \A c \in PxCalls, p \in PxPools :
        pxStep[c] = "none" \/ (Busy(c) /\ p \in pxTodo[c]) => <<c, p>> \notin pxRecorded

\* A transaction that waits was not mined and waits once.
PendingOnce ==
    \A x \in pxPending : /\ pxStatus[x.tx] = "none"
                         /\ \A y \in pxPending : x.tx = y.tx => x = y

\* The two halves of PositionsMatchChain; the second also speaks of the
\* deposits that wait.
EntriesDeposited == \A o \in pxRecorded \ pxSimulated : pxStatus[<<o, "supply">>] = "ok"

DepositsKnown ==
    \A c \in PxCalls, p \in PxPools :
        <<c, p>> \in Deposited => <<c, p>> \in pxRecorded \union pxUnsure \/ Awaited(c, p)

\* What was recorded is in the table, or it is known what took it out.
PositionsGo == \A o \in pxRecorded : Position(o) \/ o \in pxReplaced \union pxRemoved

\* The entry of a pool was recorded and not counted as left.
EntriesFresh ==
    /\ \A p \in PxPools : pxEntries[p] # NoEntry =>
           /\ pxEntries[p] \in pxRecorded /\ pxEntries[p][2] = p /\ pxLeft[pxEntries[p]] = 0
    /\ \A o \in PxObjects \ pxRecorded : pxLeft[o] = 0

\* An exit holds the entry that is there, one that is gone already, or one
\* whose pool was entered again meanwhile.
LeaversKnown ==
    \A c \in PxCalls : pxStep[c] = "leaving" =>
        /\ pxObject[c] \in pxRecorded
        /\ pxObject[c] \in pxOverlapped \/ pxEntries[pxObject[c][2]] \in {pxObject[c], NoEntry}

\* The inductive invariant of the pool executor.
PoolsInv == /\ PxTyped /\ CallsInOrder /\ NotYetSent /\ NotYetRecorded /\ PendingOnce
            /\ EntriesDeposited /\ DepositsKnown /\ PositionsGo /\ EntriesFresh /\ LeaversKnown
            /\ PositionLeftOnce

\* The pool entered now is one of those still to enter, and does not change
\* with the steps of others.
LEMMA EnteringIn == \A c \in PxCalls : pxTodo[c] # {} => Entering(c) \in pxTodo[c]
BY DEF Entering
\* It stays the same while the pools still to enter do.
LEMMA EnteringKept == \A c \in PxCalls : pxTodo'[c] = pxTodo[c] => Entering(c)' = Entering(c)
BY DEF Entering
\* What sending and mining do to the fresh transactions and to the deposits.
LEMMA FreshKept == UNCHANGED pxChain => Fresh' = Fresh
BY DEF Fresh, pxChain
\* Nor does what was deposited change while the chain stands still.
LEMMA DepositedKept == UNCHANGED pxChain => Deposited' = Deposited
BY DEF Deposited, pxChain
\* Sending uses up one fresh transaction and deposits at most what it makes.
LEMMA FreshSend ==
    ASSUME PxTyped, NEW c \in PxCalls, PxTaken(c), UNCHANGED pxStatus
    PROVE  /\ Fresh \ {PxTx(c)} \subseteq Fresh'
           /\ Deposited' \subseteq Deposited \union (IF pxKind[c] = "supply" THEN {PxMade(c)} ELSE {})
<1>1. pxStatus' = pxStatus /\ \A x \in pxPending' : x \in pxPending \/ x = [nonce |-> pxNonce[c],
    tx |-> PxTx(c)]
    BY DEF PxTaken
<1>2. Fresh \ {PxTx(c)} \subseteq Fresh'
    BY <1>1 DEF Fresh
<1>3. \A x \in pxPending' : x \in pxPending \/ x.tx = PxTx(c)
    BY <1>1
<1>4. \A o : PxTx(c) = <<o, "supply">> => o = PxMade(c) /\ pxKind[c] = "supply"
    BY DEF PxTx
<1>5. ASSUME NEW o \in Deposited' PROVE o \in Deposited \union (IF pxKind[c] = "supply" THEN {PxMade(c)} ELSE {})
    BY <1>1, <1>3, <1>4 DEF Deposited
<1> QED BY <1>2, <1>5
\* Mining takes a transaction that waits: no fresh one, and no new deposit.
LEMMA FreshMine ==
    ASSUME PxTyped, PendingOnce, PxMine
    PROVE  Fresh \subseteq Fresh' /\ Deposited' \subseteq Deposited
<1>1. PICK x \in pxPending, status \in {"ok", "reverted"} :
         pxPending' = pxPending \ {x} /\ pxStatus' = [pxStatus EXCEPT ![x.tx] = status]
    BY DEF PxMine
<1>2. x.tx \notin Fresh /\ x.tx \in PxTxs BY DEF Fresh, PxTyped
<1>3. Fresh \subseteq Fresh' BY <1>1, <1>2 DEF Fresh, PxTyped, PxTypeOK
<1>4. \A y \in PxTxs : y # x.tx => pxStatus'[y] = pxStatus[y] BY <1>1 DEF PxTyped, PxTypeOK
<1>5. Deposited' \subseteq Deposited BY <1>1, <1>4 DEF Deposited, PxTyped, PxTypeOK, PxTxs, PxKinds
<1> QED BY <1>3, <1>5

\* A transaction of another part takes the place of one that waits.
LEMMA FreshMineOther ==
    ASSUME PxMineOther
    PROVE  Fresh \subseteq Fresh' /\ Deposited' \subseteq Deposited
BY DEF PxMineOther, Fresh, Deposited

\* An entry that is recorded is a new one; every exit that holds the one it
\* takes the place of counts as overlapped.
LEMMA RecordKeeps ==
    ASSUME PxTyped, CallsInOrder, NotYetRecorded, EntriesFresh, LeaversKnown,
           NEW c \in PxCalls, Busy(c), PxRecord(c), PxNextPool(c), UNCHANGED <<pxObject, pxLeft>>
    PROVE  EntriesFresh' /\ LeaversKnown'
<1> DEFINE p == Entering(c)
           new == <<c, p>>
<1>1. /\ p \in PxPools /\ new \in PxObjects /\ new \notin pxRecorded
      /\ new # NoEntry
    BY EnteringIn DEF PxTyped, PxTypeOK, CallsInOrder, NotYetRecorded, PxObjects, NoEntry, PxCalls
<1>2. /\ pxEntries' = [pxEntries EXCEPT ![p] = new] /\ pxRecorded' = pxRecorded \union {new}
    BY DEF PxRecord, PxMade
<1>3. \A d \in PxCalls : pxStep'[d] = "leaving" => pxStep[d] = "leaving" /\ pxObject'[d] = pxObject[d]
    BY DEF PxNextPool, PxGoTo, PxTyped, PxTypeOK
<1>4. \A d \in PxCalls : pxStep[d] = "leaving" /\ pxObject[d][2] = p => pxObject[d] \in pxOverlapped'
    BY DEF PxRecord
<1>5. pxOverlapped \subseteq pxOverlapped' BY DEF PxRecord
<1>6. new[2] = p OBVIOUS
<1>7. \A d \in PxCalls : pxStep[d] = "leaving" => pxObject[d] \in PxObjects /\ pxObject[d][2] \in PxPools
    BY DEF LeaversKnown, PxTyped, PxTypeOK, PxObjects
<1> HIDE DEF p, new
<1>8. EntriesFresh'
    BY <1>1, <1>2, <1>6 DEF EntriesFresh, PxTyped, PxTypeOK
<1>9. LeaversKnown'
    BY <1>2, <1>3, <1>4, <1>5, <1>7 DEF LeaversKnown, PxTyped, PxTypeOK
<1> QED BY <1>8, <1>9

\* The transactions that wait are some of the wallet's, with a nonce each.
PendingTyped ==
    /\ \A x \in pxPending : x.tx \in PxTxs
    /\ \A x, y \in pxPending : x.nonce = y.nonce => x = y

\* One that the node takes is of them.
LEMMA TakenTyped ==
    ASSUME PxTyped, CallsInOrder, NEW c \in PxCalls, Busy(c), PxTaken(c)
    PROVE  PendingTyped'
<1> DEFINE new == [nonce |-> pxNonce[c], tx |-> PxTx(c)]
<1>1. pxPending' = {x \in pxPending : x.nonce # pxNonce[c]} \union {new} BY DEF PxTaken
<1>2. new.nonce = pxNonce[c] /\ new.tx \in PxTxs
    BY EnteringIn DEF PxTx, PxMade, PxTxs, PxObjects, PxTyped, PxTypeOK, CallsInOrder
<1> HIDE DEF new
<1> QED BY <1>1, <1>2 DEF PendingTyped, PxTyped, PxTypeOK

\* Every step keeps the types.
LEMMA PxTypedStep ==
    ASSUME PxTyped, CallsInOrder, LeaversKnown, PxNext
    PROVE  PxTyped'
<1> USE PxAssumption, EnteringIn, EnteringKept DEF PxAssumption, CallsInOrder, Busy, PxTyped,
    PxTypeOK, PxKinds, PxTxs, PxObjects, LeaversKnown, PxMade, PxTx, PxGoTo, PxNextPool,
        PxRecord, PxLeavesEnd, PxGiveUp, pxTable, pxPast, pxOwn, pxChain
<1>1. CASE PxMine BY <1>1 DEF PxMine
<1>2. ASSUME NEW c \in PxCalls, PxEnter(c) PROVE PxTyped'
    <2>1. pxCount' \in 0 .. PxMaxCalls BY <1>2 DEF PxEnter, PxCalls
    <2>2. pxTodo' \in [PxCalls -> SUBSET PxPools] BY <1>2 DEF PxEnter
    <2> QED BY <1>2, <2>1, <2>2 DEF PxEnter
<1>3. ASSUME NEW c \in PxCalls, PxSimulateEntry(c) PROVE PxTyped'
    BY <1>3 DEF PxSimulateEntry
<1>4. ASSUME NEW c \in PxCalls, PxCannot(c) PROVE PxTyped'
    BY <1>4 DEF PxCannot
<1>5. ASSUME NEW c \in PxCalls, PxPrepare(c) PROVE PxTyped'
    BY <1>5 DEF PxPrepare
<1>6. ASSUME NEW c \in PxCalls, PxSend(c) PROVE PxTyped'
    <2>1. PendingTyped' BY <1>6, TakenTyped DEF PxSend
    <2> QED BY <1>6, <2>1 DEF PxSend, PendingTyped
<1>7. ASSUME NEW c \in PxCalls, PxSendRaises(c) PROVE PxTyped'
    <2>1. PendingTyped' BY <1>7, TakenTyped DEF PxSendRaises, PendingTyped
    <2> QED BY <1>7, <2>1 DEF PxSendRaises, PendingTyped
<1>8. ASSUME NEW c \in PxCalls, PxApproved(c) PROVE PxTyped'
    BY <1>8 DEF PxApproved
<1>9. ASSUME NEW c \in PxCalls, PxReceipt(c) PROVE PxTyped'
    <2>1. /\ PxNextPool(c) /\ pxStep[c] = "wait"
          /\ UNCHANGED <<pxDry, pxCount, pxObject, pxChain, pxSimulated, pxRemoved, pxUnsure, pxLeft>>
        BY <1>9 DEF PxReceipt
    <2>2. CASE PxRecord(c) BY <2>1, <2>2
    <2>3. CASE UNCHANGED pxTable BY <2>1, <2>3
    <2> QED BY <1>9, <2>2, <2>3 DEF PxReceipt
<1>10. ASSUME NEW c \in PxCalls, PxNoReceipt(c) PROVE PxTyped'
    BY <1>10 DEF PxNoReceipt
<1>11. ASSUME NEW c \in PxCalls, PxExit(c) PROVE PxTyped'
    <2>1. pxCount' \in 0 .. PxMaxCalls BY <1>11 DEF PxExit, PxCalls
    <2>2. PICK p \in PxPools : pxObject' = [pxObject EXCEPT ![c] = pxEntries[p]]
              /\ pxStep' = [pxStep EXCEPT ![c] = IF pxEntries[p] = NoEntry THEN "done" ELSE "leaving"]
        BY <1>11 DEF PxExit
    <2> QED BY <1>11, <2>1, <2>2 DEF PxExit
<1>12. ASSUME NEW c \in PxCalls, PxLeave(c) PROVE PxTyped'
    <2>1. pxObject[c] \in PxObjects /\ pxObject[c][2] \in PxPools BY <1>12 DEF PxLeave
    <2>2. \/ UNCHANGED <<pxEntries, pxRemoved, pxLeft>>
          \/ /\ pxEntries' = [pxEntries EXCEPT ![pxObject[c][2]] = NoEntry]
             /\ pxRemoved' = pxRemoved \union {pxEntries[pxObject[c][2]]}
             /\ pxEntries[pxObject[c][2]] # NoEntry
             /\ pxLeft' = [pxLeft EXCEPT ![pxObject[c]] = @ + 1]
        BY <1>12 DEF PxLeave
    <2>3. pxEntries' \in [PxPools -> PxObjects \union {NoEntry}]
        BY <2>1, <2>2
    <2>4. pxLeft' \in [PxObjects -> Nat]
        <3>1. pxLeft[pxObject[c]] + 1 \in Nat BY <2>1
        <3> QED BY <2>1, <2>2, <3>1
    <2>5. pxRemoved' \subseteq PxObjects
        BY <2>1, <2>2
    <2> QED BY <1>12, <2>3, <2>4, <2>5 DEF PxLeave
<1>13. ASSUME NEW c \in PxCalls, PxReduce(c) PROVE PxTyped'
    BY <1>13 DEF PxReduce
<1>14. CASE PxMineOther BY <1>14 DEF PxMineOther
<1> QED BY <1>1, <1>2, <1>3, <1>4, <1>5, <1>6, <1>7, <1>8, <1>9, <1>10, <1>11, <1>12,
    <1>13, <1>14 DEF PxNext

\* Every step keeps the order of the requests.
LEMMA CallsInOrderStep ==
    ASSUME PxTyped, CallsInOrder, PxNext
    PROVE  CallsInOrder'
<1> USE PxAssumption, EnteringIn, EnteringKept DEF PxAssumption, PxTyped, PxTypeOK, CallsInOrder,
    Busy, PxMade, PxTx, PxGoTo, PxNextPool, PxRecord, PxLeavesEnd, PxGiveUp, pxTable, pxPast, pxOwn, pxChain
<1>1. CASE PxMine BY <1>1 DEF PxMine
<1>2. ASSUME NEW c \in PxCalls, PxEnter(c) PROVE CallsInOrder'
    <2>1. c \in Nat /\ pxCount \in Nat /\ \A d \in PxCalls : d \in Nat BY DEF PxCalls
    <2>2. PICK pools \in (SUBSET PxPools) \ {{}} : pxTodo' = [pxTodo EXCEPT ![c] = pools]
        BY <1>2 DEF PxEnter
    <2> QED BY <1>2, <2>1, <2>2 DEF PxEnter
<1>3. ASSUME NEW c \in PxCalls, PxSimulateEntry(c) PROVE CallsInOrder'
    BY <1>3 DEF PxSimulateEntry
<1>4. ASSUME NEW c \in PxCalls, PxCannot(c) PROVE CallsInOrder'
    BY <1>4 DEF PxCannot
<1>5. ASSUME NEW c \in PxCalls, PxPrepare(c) PROVE CallsInOrder'
    BY <1>5 DEF PxPrepare
<1>6. ASSUME NEW c \in PxCalls, PxSend(c) PROVE CallsInOrder'
    BY <1>6 DEF PxSend
<1>7. ASSUME NEW c \in PxCalls, PxSendRaises(c) PROVE CallsInOrder'
    BY <1>7 DEF PxSendRaises
<1>8. ASSUME NEW c \in PxCalls, PxApproved(c) PROVE CallsInOrder'
    BY <1>8 DEF PxApproved
<1>9. ASSUME NEW c \in PxCalls, PxReceipt(c) PROVE CallsInOrder'
    BY <1>9 DEF PxReceipt
<1>10. ASSUME NEW c \in PxCalls, PxNoReceipt(c) PROVE CallsInOrder'
    BY <1>10 DEF PxNoReceipt
<1>11. ASSUME NEW c \in PxCalls, PxExit(c) PROVE CallsInOrder'
    BY <1>11 DEF PxExit
<1>12. ASSUME NEW c \in PxCalls, PxLeave(c) PROVE CallsInOrder'
    BY <1>12 DEF PxLeave
<1>13. ASSUME NEW c \in PxCalls, PxReduce(c) PROVE CallsInOrder'
    BY <1>13 DEF PxReduce
<1>14. CASE PxMineOther BY <1>14 DEF PxMineOther
<1> QED BY <1>1, <1>2, <1>3, <1>4, <1>5, <1>6, <1>7, <1>8, <1>9, <1>10, <1>11, <1>12,
    <1>13, <1>14 DEF PxNext

\* Every step leaves fresh what is still to be sent.
LEMMA NotYetSentStep ==
    ASSUME PxTyped, CallsInOrder, PendingOnce, NotYetSent, PxNext
    PROVE  NotYetSent'
<1> USE PxAssumption, EnteringIn, EnteringKept, FreshKept DEF PxAssumption, PxTyped, PxTypeOK,
    CallsInOrder, Busy, NotYetSent, ToCome, PxKinds, PxMade, PxTx, PxGoTo, PxNextPool, PxRecord,
        PxLeavesEnd, PxGiveUp, pxTable, pxPast, pxOwn
<1>1. CASE PxMine
    <2>1. Fresh \subseteq Fresh' BY <1>1, FreshMine
    <2>2. UNCHANGED <<pxStep, pxTodo, pxKind>> BY <1>1 DEF PxMine
    <2>3. \A c \in PxCalls : Entering(c)' = Entering(c) BY <2>2
    <2> QED BY <2>1, <2>2, <2>3
<1>2. ASSUME NEW c \in PxCalls, PxEnter(c) PROVE NotYetSent'
    <2>1. pxStep[c] = "none" /\ Fresh' = Fresh /\ UNCHANGED pxKind /\ pxStep' = [pxStep EXCEPT ![c] = "gas"]
        BY <1>2 DEF PxEnter, PxCalls
    <2>2. pxTodo'[c] \subseteq PxPools /\ \A d \in PxCalls : d # c => pxTodo'[d] = pxTodo[d]
        BY <1>2 DEF PxEnter
    <2>3. \A d \in PxCalls : d # c => Entering(d)' = Entering(d) BY <2>2
    <2> QED BY <2>1, <2>2, <2>3
<1>3. ASSUME NEW c \in PxCalls, PxSimulateEntry(c) PROVE NotYetSent'
    BY <1>3 DEF PxSimulateEntry
<1>4. ASSUME NEW c \in PxCalls, PxCannot(c) PROVE NotYetSent'
    BY <1>4 DEF PxCannot
<1>5. ASSUME NEW c \in PxCalls, PxPrepare(c) PROVE NotYetSent'
    BY <1>5 DEF PxPrepare
<1>6. ASSUME NEW c \in PxCalls, PxSend(c) PROVE NotYetSent'
    <2>1. Fresh \ {<<<<c, Entering(c)>>, pxKind[c]>>} \subseteq Fresh'
        BY <1>6, FreshSend DEF PxSend
    <2>2. UNCHANGED <<pxTodo,
        pxKind>> /\ pxStep[c] = "send" /\ pxStep' = [pxStep EXCEPT ![c] = "wait"]
        BY <1>6 DEF PxSend
    <2>3. \A d \in PxCalls : Entering(d)' = Entering(d) BY <2>2
    <2>4. \A k \in ToCome(pxKind[c]) : k # pxKind[c] OBVIOUS
    <2> QED BY <2>1, <2>2, <2>3, <2>4
<1>7. ASSUME NEW c \in PxCalls, PxSendRaises(c) PROVE NotYetSent'
    <2>1. Fresh \ {<<<<c, Entering(c)>>, pxKind[c]>>} \subseteq Fresh'
        <3>1. CASE PxTaken(c)
            BY <1>7, <3>1, FreshSend DEF PxSendRaises
        <3>2. CASE UNCHANGED pxPending
            BY <1>7, <3>2 DEF PxSendRaises, Fresh
        <3> QED BY <1>7, <3>1, <3>2 DEF PxSendRaises
    <2>2. /\ pxTodo' = [pxTodo EXCEPT ![c] = @ \ {Entering(c)}]
          /\ pxStep' = [pxStep EXCEPT ![c] = IF pxTodo'[c] = {} THEN "done" ELSE "gas"]
          /\ pxKind' = [pxKind EXCEPT ![c] = "approve"] /\ pxStep[c] = "send"
        BY <1>7 DEF PxSendRaises
    <2>3. \A d \in PxCalls : d # c => Entering(d)' = Entering(d) BY <2>2
    <2> QED BY <2>1, <2>2, <2>3
<1>8. ASSUME NEW c \in PxCalls, PxApproved(c) PROVE NotYetSent'
    BY <1>8 DEF PxApproved
<1>9. ASSUME NEW c \in PxCalls, PxReceipt(c) PROVE NotYetSent'
    BY <1>9 DEF PxReceipt
<1>10. ASSUME NEW c \in PxCalls, PxNoReceipt(c) PROVE NotYetSent'
    <2>1. Fresh' = Fresh BY <1>10 DEF PxNoReceipt, Fresh
    <2> QED BY <1>10, <2>1 DEF PxNoReceipt
<1>11. ASSUME NEW c \in PxCalls, PxExit(c) PROVE NotYetSent'
    <2>1. UNCHANGED <<pxTodo, pxKind>> /\ Fresh' = Fresh BY <1>11 DEF PxExit
    <2>2. pxStep'[c] \in {"done", "leaving"} /\ \A d \in PxCalls : d # c => pxStep'[d] = pxStep[d]
        BY <1>11 DEF PxExit
    <2>3. \A d \in PxCalls : Entering(d)' = Entering(d) BY <2>1
    <2> QED BY <2>1, <2>2, <2>3
<1>12. ASSUME NEW c \in PxCalls, PxLeave(c) PROVE NotYetSent'
    BY <1>12 DEF PxLeave
<1>13. ASSUME NEW c \in PxCalls, PxReduce(c) PROVE NotYetSent'
    BY <1>13 DEF PxReduce
<1>14. CASE PxMineOther
    <2>1. Fresh \subseteq Fresh' BY <1>14, FreshMineOther
    <2>2. UNCHANGED <<pxStep, pxTodo, pxKind>> BY <1>14 DEF PxMineOther
    <2>3. \A c \in PxCalls : Entering(c)' = Entering(c) BY <2>2
    <2> QED BY <2>1, <2>2, <2>3
<1> QED BY <1>1, <1>2, <1>3, <1>4, <1>5, <1>6, <1>7, <1>8, <1>9, <1>10, <1>11, <1>12,
    <1>13, <1>14 DEF PxNext

\* No step records an entry that a request has still to make.
LEMMA NotYetRecordedStep ==
    ASSUME PxTyped, CallsInOrder, NotYetRecorded, PxNext
    PROVE  NotYetRecorded'
<1> USE PxAssumption, EnteringIn, EnteringKept DEF PxAssumption, PxTyped, PxTypeOK, CallsInOrder,
    Busy, NotYetRecorded, PxMade, PxTx, PxGoTo, PxNextPool, PxRecord, PxLeavesEnd, PxGiveUp, pxTable, pxPast, pxOwn,
        pxChain
<1>1. CASE PxMine BY <1>1 DEF PxMine
<1>2. ASSUME NEW c \in PxCalls, PxEnter(c) PROVE NotYetRecorded'
    BY <1>2 DEF PxEnter
<1>3. ASSUME NEW c \in PxCalls, PxSimulateEntry(c) PROVE NotYetRecorded'
    BY <1>3 DEF PxSimulateEntry
<1>4. ASSUME NEW c \in PxCalls, PxCannot(c) PROVE NotYetRecorded'
    BY <1>4 DEF PxCannot
<1>5. ASSUME NEW c \in PxCalls, PxPrepare(c) PROVE NotYetRecorded'
    BY <1>5 DEF PxPrepare
<1>6. ASSUME NEW c \in PxCalls, PxSend(c) PROVE NotYetRecorded'
    BY <1>6 DEF PxSend
<1>7. ASSUME NEW c \in PxCalls, PxSendRaises(c) PROVE NotYetRecorded'
    BY <1>7 DEF PxSendRaises
<1>8. ASSUME NEW c \in PxCalls, PxApproved(c) PROVE NotYetRecorded'
    BY <1>8 DEF PxApproved
<1>9. ASSUME NEW c \in PxCalls, PxReceipt(c) PROVE NotYetRecorded'
    BY <1>9 DEF PxReceipt
<1>10. ASSUME NEW c \in PxCalls, PxNoReceipt(c) PROVE NotYetRecorded'
    BY <1>10 DEF PxNoReceipt
<1>11. ASSUME NEW c \in PxCalls, PxExit(c) PROVE NotYetRecorded'
    BY <1>11 DEF PxExit
<1>12. ASSUME NEW c \in PxCalls, PxLeave(c) PROVE NotYetRecorded'
    BY <1>12 DEF PxLeave
<1>13. ASSUME NEW c \in PxCalls, PxReduce(c) PROVE NotYetRecorded'
    BY <1>13 DEF PxReduce
<1>14. CASE PxMineOther BY <1>14 DEF PxMineOther
<1> QED BY <1>1, <1>2, <1>3, <1>4, <1>5, <1>6, <1>7, <1>8, <1>9, <1>10, <1>11, <1>12,
    <1>13, <1>14 DEF PxNext

\* Every step keeps the waiting transactions apart.
LEMMA PendingOnceStep ==
    ASSUME PxTyped, CallsInOrder, NotYetSent, PendingOnce, PxNext
    PROVE  PendingOnce'
<1> USE PxAssumption, EnteringIn, EnteringKept DEF PxAssumption, PxTyped, PxTypeOK, CallsInOrder,
    Busy, NotYetSent, Fresh, PendingOnce, PxMade, PxTx, PxGoTo, PxNextPool, PxRecord,
        PxLeavesEnd, PxGiveUp, pxTable, pxPast, pxOwn, pxChain
<1>1. CASE PxMine BY <1>1 DEF PxMine
<1>2. ASSUME NEW c \in PxCalls, PxEnter(c) PROVE PendingOnce'
    BY <1>2 DEF PxEnter
<1>3. ASSUME NEW c \in PxCalls, PxSimulateEntry(c) PROVE PendingOnce'
    BY <1>3 DEF PxSimulateEntry
<1>4. ASSUME NEW c \in PxCalls, PxCannot(c) PROVE PendingOnce'
    BY <1>4 DEF PxCannot
<1>5. ASSUME NEW c \in PxCalls, PxPrepare(c) PROVE PendingOnce'
    BY <1>5 DEF PxPrepare
<1>6. ASSUME NEW c \in PxCalls, PxSend(c) PROVE PendingOnce'
    BY <1>6 DEF PxSend, PxTaken
<1>7. ASSUME NEW c \in PxCalls, PxSendRaises(c) PROVE PendingOnce'
    <2>1. CASE PxTaken(c) BY <1>7, <2>1 DEF PxSendRaises, PxTaken
    <2>2. CASE UNCHANGED pxPending BY <1>7, <2>2 DEF PxSendRaises
    <2> QED BY <1>7, <2>1, <2>2 DEF PxSendRaises
<1>8. ASSUME NEW c \in PxCalls, PxApproved(c) PROVE PendingOnce'
    BY <1>8 DEF PxApproved
<1>9. ASSUME NEW c \in PxCalls, PxReceipt(c) PROVE PendingOnce'
    BY <1>9 DEF PxReceipt
<1>10. ASSUME NEW c \in PxCalls, PxNoReceipt(c) PROVE PendingOnce'
    BY <1>10 DEF PxNoReceipt
<1>11. ASSUME NEW c \in PxCalls, PxExit(c) PROVE PendingOnce'
    BY <1>11 DEF PxExit
<1>12. ASSUME NEW c \in PxCalls, PxLeave(c) PROVE PendingOnce'
    BY <1>12 DEF PxLeave
<1>13. ASSUME NEW c \in PxCalls, PxReduce(c) PROVE PendingOnce'
    BY <1>13 DEF PxReduce
<1>14. CASE PxMineOther BY <1>14 DEF PxMineOther
<1> QED BY <1>1, <1>2, <1>3, <1>4, <1>5, <1>6, <1>7, <1>8, <1>9, <1>10, <1>11, <1>12,
    <1>13, <1>14 DEF PxNext

\* Every step keeps the entries on the chain.
LEMMA EntriesDepositedStep ==
    ASSUME PxTyped, CallsInOrder, NotYetSent, PendingOnce, EntriesDeposited, PxNext
    PROVE  EntriesDeposited'
<1> USE PxAssumption, EnteringIn, EnteringKept DEF PxAssumption, PxTyped, PxTypeOK, CallsInOrder,
    Busy, PendingOnce, EntriesDeposited, PxMade, PxTx, PxGoTo, PxNextPool, PxRecord, PxLeavesEnd, PxGiveUp, pxTable,
        pxPast, pxOwn, pxChain
<1>1. CASE PxMine
    <2>1. PICK x \in pxPending, status \in {"ok",
        "reverted"} : pxStatus' = [pxStatus EXCEPT ![x.tx] = status]
        BY <1>1 DEF PxMine
    <2>2. pxStatus[x.tx] = "none" OBVIOUS
    <2>3. UNCHANGED <<pxRecorded, pxSimulated>> BY <1>1 DEF PxMine
    <2>4. \A o \in pxRecorded \ pxSimulated : <<o, "supply">> \in PxTxs BY DEF PxTxs, PxKinds
    <2> QED BY <2>1, <2>2, <2>3, <2>4
<1>2. ASSUME NEW c \in PxCalls, PxEnter(c) PROVE EntriesDeposited'
    BY <1>2 DEF PxEnter
<1>3. ASSUME NEW c \in PxCalls, PxSimulateEntry(c) PROVE EntriesDeposited'
    BY <1>3 DEF PxSimulateEntry
<1>4. ASSUME NEW c \in PxCalls, PxCannot(c) PROVE EntriesDeposited'
    BY <1>4 DEF PxCannot
<1>5. ASSUME NEW c \in PxCalls, PxPrepare(c) PROVE EntriesDeposited'
    BY <1>5 DEF PxPrepare
<1>6. ASSUME NEW c \in PxCalls, PxSend(c) PROVE EntriesDeposited'
    BY <1>6 DEF PxSend
<1>7. ASSUME NEW c \in PxCalls, PxSendRaises(c) PROVE EntriesDeposited'
    BY <1>7 DEF PxSendRaises
<1>8. ASSUME NEW c \in PxCalls, PxApproved(c) PROVE EntriesDeposited'
    BY <1>8 DEF PxApproved
<1>9. ASSUME NEW c \in PxCalls, PxReceipt(c) PROVE EntriesDeposited'
    BY <1>9 DEF PxReceipt
<1>10. ASSUME NEW c \in PxCalls, PxNoReceipt(c) PROVE EntriesDeposited'
    BY <1>10 DEF PxNoReceipt
<1>11. ASSUME NEW c \in PxCalls, PxExit(c) PROVE EntriesDeposited'
    BY <1>11 DEF PxExit
<1>12. ASSUME NEW c \in PxCalls, PxLeave(c) PROVE EntriesDeposited'
    BY <1>12 DEF PxLeave
<1>13. ASSUME NEW c \in PxCalls, PxReduce(c) PROVE EntriesDeposited'
    BY <1>13 DEF PxReduce
<1>14. CASE PxMineOther BY <1>14 DEF PxMineOther
<1> QED BY <1>1, <1>2, <1>3, <1>4, <1>5, <1>6, <1>7, <1>8, <1>9, <1>10, <1>11, <1>12,
    <1>13, <1>14 DEF PxNext

\* Every step keeps the deposits accounted for.
LEMMA DepositsKnownStep ==
    ASSUME PxTyped, CallsInOrder, NotYetSent, PendingOnce, DepositsKnown, PxNext
    PROVE  DepositsKnown'
<1> USE PxAssumption, EnteringIn, EnteringKept, DepositedKept DEF PxAssumption, PxTyped,
    PxTypeOK, CallsInOrder, Busy, NotYetSent, DepositsKnown, Awaited, PxMade, PxTx, PxGoTo,
        PxNextPool, PxRecord, PxLeavesEnd, PxGiveUp, pxTable, pxPast, pxOwn
<1>1. CASE PxMine BY <1>1, FreshMine DEF PxMine
<1>2. ASSUME NEW c \in PxCalls, PxEnter(c) PROVE DepositsKnown'
    BY <1>2 DEF PxEnter
<1>3. ASSUME NEW c \in PxCalls, PxSimulateEntry(c) PROVE DepositsKnown'
    BY <1>3 DEF PxSimulateEntry
<1>4. ASSUME NEW c \in PxCalls, PxCannot(c) PROVE DepositsKnown'
    BY <1>4 DEF PxCannot
<1>5. ASSUME NEW c \in PxCalls, PxPrepare(c) PROVE DepositsKnown'
    BY <1>5 DEF PxPrepare
<1>6. ASSUME NEW c \in PxCalls, PxSend(c) PROVE DepositsKnown'
    <2>1. Deposited' \subseteq Deposited \union (IF pxKind[c] = "supply" THEN {<<c,
        Entering(c)>>} ELSE {})
        BY <1>6, FreshSend DEF PxSend
    <2>2. UNCHANGED <<pxTodo, pxKind, pxRecorded,
        pxUnsure>> /\ pxStep[c] = "send" /\ pxStep' = [pxStep EXCEPT ![c] = "wait"]
        BY <1>6 DEF PxSend
    <2>3. \A d \in PxCalls : Entering(d)' = Entering(d) BY <2>2
    <2> QED BY <2>1, <2>2, <2>3
<1>7. ASSUME NEW c \in PxCalls, PxSendRaises(c) PROVE DepositsKnown'
    <2>1. Deposited' \subseteq Deposited \union (IF pxKind[c] = "supply" THEN {PxMade(c)} ELSE {})
        <3>1. CASE PxTaken(c)
            BY <1>7, <3>1, FreshSend DEF PxSendRaises
        <3>2. CASE UNCHANGED pxPending
            BY <1>7, <3>2 DEF PxSendRaises, Deposited
        <3> QED BY <1>7, <3>1, <3>2 DEF PxSendRaises
    <2>2. /\ pxUnsure' = (IF pxKind[c] = "supply" THEN pxUnsure \union {PxMade(c)} ELSE pxUnsure)
          /\ pxStep[c] = "send" /\ UNCHANGED pxRecorded
          /\ \A d \in PxCalls : d # c => /\ pxStep'[d] = pxStep[d] /\ pxKind'[d] = pxKind[d]
                                        /\ Entering(d)' = Entering(d)
        BY <1>7 DEF PxSendRaises
    <2> QED BY <2>1, <2>2
<1>8. ASSUME NEW c \in PxCalls, PxApproved(c) PROVE DepositsKnown'
    BY <1>8 DEF PxApproved
<1>9. ASSUME NEW c \in PxCalls, PxReceipt(c) PROVE DepositsKnown'
    <2>1. /\ Deposited' = Deposited /\ UNCHANGED pxUnsure
          /\ pxStep[c] = "wait" /\ pxKind[c] = "supply" /\ pxStatus[PxTx(c)] # "none"
          /\ \A d \in PxCalls : d # c => /\ pxStep'[d] = pxStep[d] /\ pxKind'[d] = pxKind[d] /\ Entering(d)' = Entering(d)
        BY <1>9 DEF PxReceipt
    <2>2. CASE pxStatus[PxTx(c)] = "ok"
        <3>1. pxRecorded' = pxRecorded \union {PxMade(c)} BY <1>9, <2>2 DEF PxReceipt
        <3> QED BY <2>1, <3>1
    <2>3. CASE pxStatus[PxTx(c)] # "ok"
        <3>1. pxRecorded' = pxRecorded BY <1>9, <2>3 DEF PxReceipt
        <3>2. PxTx(c) = <<PxMade(c), "supply">> BY <2>1
        <3>3. \A x \in pxPending : x.tx # PxTx(c) BY <2>1 DEF PendingOnce
        <3>4. PxMade(c) \notin Deposited
            BY ONLY <2>3, <3>2, <3>3 DEF Deposited
        <3> QED BY <2>1, <3>1, <3>4
    <2> QED BY <2>2, <2>3
<1>10. ASSUME NEW c \in PxCalls, PxNoReceipt(c) PROVE DepositsKnown'
    <2>1. Deposited' = Deposited BY <1>10 DEF PxNoReceipt, Deposited
    <2> QED BY <1>10, <2>1 DEF PxNoReceipt
<1>11. ASSUME NEW c \in PxCalls, PxExit(c) PROVE DepositsKnown'
    BY <1>11 DEF PxExit
<1>12. ASSUME NEW c \in PxCalls, PxLeave(c) PROVE DepositsKnown'
    BY <1>12 DEF PxLeave
<1>13. ASSUME NEW c \in PxCalls, PxReduce(c) PROVE DepositsKnown'
    BY <1>13 DEF PxReduce
<1>14. CASE PxMineOther BY <1>14, FreshMineOther DEF PxMineOther
<1> QED BY <1>1, <1>2, <1>3, <1>4, <1>5, <1>6, <1>7, <1>8, <1>9, <1>10, <1>11, <1>12,
    <1>13, <1>14 DEF PxNext

\* No position goes but by a later entry or an exit.
LEMMA PositionsGoStep ==
    ASSUME PxTyped, CallsInOrder, LeaversKnown, EntriesFresh, PositionsGo, PxNext
    PROVE  PositionsGo'
<1>1. ASSUME NEW c \in PxCalls, Busy(c), PxRecord(c), UNCHANGED pxRemoved
      PROVE  PositionsGo'
    <2>1. PxMade(c) \in PxObjects /\ PxMade(c)[2] = Entering(c) /\ Entering(c) \in PxPools
        BY <1>1, EnteringIn DEF PxTyped, PxTypeOK, CallsInOrder, PxMade, PxObjects
    <2>2. /\ pxEntries' = [pxEntries EXCEPT ![Entering(c)] = PxMade(c)]
          /\ pxRecorded' = pxRecorded \union {PxMade(c)}
          /\ pxReplaced' = pxReplaced \union ({pxEntries[Entering(c)]} \ {NoEntry})
        BY <1>1 DEF PxRecord
    <2>3. \A o \in pxRecorded : o \in PxObjects /\ o # NoEntry /\ o[2] \in PxPools
        BY DEF PxTyped, PxTypeOK, PxObjects, PxCalls, NoEntry
    <2> QED BY <1>1, <2>1, <2>2, <2>3 DEF PositionsGo, Position, PxTyped, PxTypeOK
<1>2. ASSUME NEW c \in PxCalls, PxSimulateEntry(c) PROVE PositionsGo'
    BY <1>1, <1>2 DEF PxSimulateEntry, Busy
<1>3. ASSUME NEW c \in PxCalls, PxReceipt(c) PROVE PositionsGo'
    BY <1>1, <1>3 DEF PxReceipt, Busy, pxTable, PositionsGo, Position
<1>4. ASSUME NEW c \in PxCalls, PxLeave(c) PROVE PositionsGo'
    <2>1. pxObject[c][2] \in PxPools
        BY <1>4 DEF PxLeave, LeaversKnown, PxTyped, PxTypeOK, PxObjects
    <2>2. \/ UNCHANGED <<pxEntries, pxRemoved>>
          \/ /\ pxEntries' = [pxEntries EXCEPT ![pxObject[c][2]] = NoEntry]
             /\ pxRemoved' = pxRemoved \union {pxEntries[pxObject[c][2]]}
        BY <1>4 DEF PxLeave
    <2>3. UNCHANGED <<pxRecorded, pxReplaced>> /\ \A o \in pxRecorded : o[2] \in PxPools
        BY <1>4 DEF PxLeave, PxTyped, PxTypeOK, PxObjects
    <2> QED BY <2>1, <2>2, <2>3 DEF PositionsGo, Position, PxTyped, PxTypeOK
<1>5. CASE UNCHANGED <<pxEntries, pxRecorded, pxReplaced, pxRemoved>>
    BY <1>5 DEF PositionsGo, Position
<1>6. PxMine \/ PxMineOther => UNCHANGED <<pxEntries, pxRecorded, pxReplaced, pxRemoved>>
    BY DEF PxMine, PxMineOther, pxPast
<1>7. ASSUME NEW c \in PxCalls,
             \/ PxEnter(c) \/ PxCannot(c) \/ PxPrepare(c) \/ PxSend(c) \/ PxSendRaises(c)
             \/ PxApproved(c) \/ PxNoReceipt(c) \/ PxExit(c) \/ PxReduce(c)
      PROVE  UNCHANGED <<pxEntries, pxRecorded, pxReplaced, pxRemoved>>
    BY <1>7 DEF PxEnter, PxCannot, PxPrepare, PxSend, PxSendRaises, PxApproved, PxNoReceipt,
       PxExit, PxReduce, PxGiveUp, pxTable, pxPast
<1> QED BY <1>2, <1>3, <1>4, <1>5, <1>6, <1>7 DEF PxNext

\* Every step keeps the entries uncounted.
LEMMA EntriesFreshStep ==
    ASSUME PxTyped, CallsInOrder, NotYetRecorded, LeaversKnown, EntriesFresh, PxNext
    PROVE  EntriesFresh'
<1> USE PxAssumption, EnteringIn, EnteringKept DEF PxAssumption, PxTyped, PxTypeOK, CallsInOrder,
    Busy, NotYetRecorded, EntriesFresh, LeaversKnown, PxMade, PxTx, PxGoTo, PxNextPool, PxRecord,
        PxLeavesEnd, PxGiveUp, pxTable, pxPast, pxOwn, pxChain
<1>1. CASE PxMine BY <1>1 DEF PxMine
<1>2. ASSUME NEW c \in PxCalls, PxEnter(c) PROVE EntriesFresh'
    BY <1>2 DEF PxEnter
<1>3. ASSUME NEW c \in PxCalls, PxSimulateEntry(c) PROVE EntriesFresh'
    BY <1>3, RecordKeeps DEF PxSimulateEntry
<1>4. ASSUME NEW c \in PxCalls, PxCannot(c) PROVE EntriesFresh'
    BY <1>4 DEF PxCannot
<1>5. ASSUME NEW c \in PxCalls, PxPrepare(c) PROVE EntriesFresh'
    BY <1>5 DEF PxPrepare
<1>6. ASSUME NEW c \in PxCalls, PxSend(c) PROVE EntriesFresh'
    BY <1>6 DEF PxSend
<1>7. ASSUME NEW c \in PxCalls, PxSendRaises(c) PROVE EntriesFresh'
    BY <1>7 DEF PxSendRaises
<1>8. ASSUME NEW c \in PxCalls, PxApproved(c) PROVE EntriesFresh'
    BY <1>8 DEF PxApproved
<1>9. ASSUME NEW c \in PxCalls, PxReceipt(c) PROVE EntriesFresh'
    <2>1. CASE PxRecord(c) BY <1>9, <2>1, RecordKeeps DEF PxReceipt
    <2>2. CASE ~PxRecord(c)
        <3>1. /\ UNCHANGED <<pxEntries, pxRecorded, pxOverlapped, pxObject,
                 pxLeft>> /\ PxNextPool(c)
              /\ pxStep[c] = "wait"
            BY <1>9, <2>2 DEF PxReceipt
        <3> QED BY <3>1
    <2> QED BY <2>1, <2>2
<1>10. ASSUME NEW c \in PxCalls, PxNoReceipt(c) PROVE EntriesFresh'
    BY <1>10 DEF PxNoReceipt
<1>11. ASSUME NEW c \in PxCalls, PxExit(c) PROVE EntriesFresh'
    BY <1>11 DEF PxExit
<1>12. ASSUME NEW c \in PxCalls, PxLeave(c) PROVE EntriesFresh'
    <2> DEFINE o == pxObject[c]
    <2>1. /\ pxStep[c] = "leaving" /\ o \in pxRecorded /\ o \in PxObjects /\ o[2] \in PxPools
          /\ UNCHANGED <<pxRecorded, pxOverlapped>>
          /\ pxObject' = [pxObject EXCEPT ![c] = NoEntry] /\ pxStep' = [pxStep EXCEPT ![c] = "done"]
        BY <1>12 DEF PxLeave, PxObjects
    <2>2. CASE UNCHANGED <<pxEntries, pxLeft>> BY <2>1, <2>2
    <2>3. CASE /\ pxEntries[o[2]] # NoEntry
               /\ pxEntries' = [pxEntries EXCEPT ![o[2]] = NoEntry]
               /\ pxLeft' = [pxLeft EXCEPT ![o] = @ + 1]
        <3>1. \A p \in PxPools : pxEntries'[p] # NoEntry => pxEntries'[p] = pxEntries[p] /\ p # o[2]
            BY <2>1, <2>3
        <3>2. \A q \in PxObjects : q # o => pxLeft'[q] = pxLeft[q]
            BY <2>1, <2>3
        <3> QED BY <2>1, <2>3, <3>1, <3>2
    <2> QED BY <1>12, <2>2, <2>3 DEF PxLeave
<1>13. ASSUME NEW c \in PxCalls, PxReduce(c) PROVE EntriesFresh'
    BY <1>13 DEF PxReduce
<1>14. CASE PxMineOther BY <1>14 DEF PxMineOther
<1> QED BY <1>1, <1>2, <1>3, <1>4, <1>5, <1>6, <1>7, <1>8, <1>9, <1>10, <1>11, <1>12,
    <1>13, <1>14 DEF PxNext

\* Every step keeps what the exits hold.
LEMMA LeaversKnownStep ==
    ASSUME PxTyped, CallsInOrder, NotYetRecorded, LeaversKnown, EntriesFresh, PxNext
    PROVE  LeaversKnown'
<1> USE PxAssumption, EnteringIn, EnteringKept DEF PxAssumption, PxTyped, PxTypeOK, CallsInOrder,
    Busy, NotYetRecorded, EntriesFresh, LeaversKnown, PxMade, PxTx, PxGoTo, PxNextPool, PxRecord,
        PxLeavesEnd, PxGiveUp, pxTable, pxPast, pxOwn, pxChain
<1>1. CASE PxMine BY <1>1 DEF PxMine
<1>2. ASSUME NEW c \in PxCalls, PxEnter(c) PROVE LeaversKnown'
    BY <1>2 DEF PxEnter
<1>3. ASSUME NEW c \in PxCalls, PxSimulateEntry(c) PROVE LeaversKnown'
    BY <1>3, RecordKeeps DEF PxSimulateEntry
<1>4. ASSUME NEW c \in PxCalls, PxCannot(c) PROVE LeaversKnown'
    BY <1>4 DEF PxCannot
<1>5. ASSUME NEW c \in PxCalls, PxPrepare(c) PROVE LeaversKnown'
    BY <1>5 DEF PxPrepare
<1>6. ASSUME NEW c \in PxCalls, PxSend(c) PROVE LeaversKnown'
    BY <1>6 DEF PxSend
<1>7. ASSUME NEW c \in PxCalls, PxSendRaises(c) PROVE LeaversKnown'
    BY <1>7 DEF PxSendRaises
<1>8. ASSUME NEW c \in PxCalls, PxApproved(c) PROVE LeaversKnown'
    BY <1>8 DEF PxApproved
<1>9. ASSUME NEW c \in PxCalls, PxReceipt(c) PROVE LeaversKnown'
    <2>1. CASE PxRecord(c) BY <1>9, <2>1, RecordKeeps DEF PxReceipt
    <2>2. CASE ~PxRecord(c)
        <3>1. /\ UNCHANGED <<pxEntries, pxRecorded, pxOverlapped, pxObject,
                 pxLeft>> /\ PxNextPool(c)
              /\ pxStep[c] = "wait"
            BY <1>9, <2>2 DEF PxReceipt
        <3> QED BY <3>1
    <2> QED BY <2>1, <2>2
<1>10. ASSUME NEW c \in PxCalls, PxNoReceipt(c) PROVE LeaversKnown'
    BY <1>10 DEF PxNoReceipt
<1>11. ASSUME NEW c \in PxCalls, PxExit(c) PROVE LeaversKnown'
    BY <1>11 DEF PxExit
<1>12. ASSUME NEW c \in PxCalls, PxLeave(c) PROVE LeaversKnown'
    <2> DEFINE o == pxObject[c]
    <2>1. /\ pxStep[c] = "leaving" /\ o \in pxRecorded /\ o \in PxObjects /\ o[2] \in PxPools
          /\ UNCHANGED <<pxRecorded, pxOverlapped>>
          /\ pxObject' = [pxObject EXCEPT ![c] = NoEntry] /\ pxStep' = [pxStep EXCEPT ![c] = "done"]
        BY <1>12 DEF PxLeave, PxObjects
    <2>2. CASE UNCHANGED <<pxEntries, pxLeft>> BY <2>1, <2>2
    <2>3. CASE /\ pxEntries[o[2]] # NoEntry
               /\ pxEntries' = [pxEntries EXCEPT ![o[2]] = NoEntry]
               /\ pxLeft' = [pxLeft EXCEPT ![o] = @ + 1]
        <3>1. \A p \in PxPools : pxEntries'[p] # NoEntry => pxEntries'[p] = pxEntries[p] /\ p # o[2]
            BY <2>1, <2>3
        <3>2. \A q \in PxObjects : q # o => pxLeft'[q] = pxLeft[q]
            BY <2>1, <2>3
        <3> QED BY <2>1, <2>3, <3>1, <3>2
    <2> QED BY <1>12, <2>2, <2>3 DEF PxLeave
<1>13. ASSUME NEW c \in PxCalls, PxReduce(c) PROVE LeaversKnown'
    BY <1>13 DEF PxReduce
<1>14. CASE PxMineOther BY <1>14 DEF PxMineOther
<1> QED BY <1>1, <1>2, <1>3, <1>4, <1>5, <1>6, <1>7, <1>8, <1>9, <1>10, <1>11, <1>12,
    <1>13, <1>14 DEF PxNext

\* Every step counts an entry once.
LEMMA PositionLeftOnceStep ==
    ASSUME PxTyped, EntriesFresh, LeaversKnown, PositionLeftOnce, PxNext
    PROVE  PositionLeftOnce'
<1> USE PxAssumption, EnteringIn, EnteringKept DEF PxAssumption, PxTyped, PxTypeOK, EntriesFresh,
    LeaversKnown, PositionLeftOnce, PxMade, PxTx, PxGoTo, PxNextPool, PxRecord, PxLeavesEnd, PxGiveUp, pxTable,
        pxPast, pxOwn, pxChain
<1>1. CASE PxMine BY <1>1 DEF PxMine
<1>2. ASSUME NEW c \in PxCalls, PxEnter(c) PROVE PositionLeftOnce'
    BY <1>2 DEF PxEnter
<1>3. ASSUME NEW c \in PxCalls, PxSimulateEntry(c) PROVE PositionLeftOnce'
    BY <1>3 DEF PxSimulateEntry
<1>4. ASSUME NEW c \in PxCalls, PxCannot(c) PROVE PositionLeftOnce'
    BY <1>4 DEF PxCannot
<1>5. ASSUME NEW c \in PxCalls, PxPrepare(c) PROVE PositionLeftOnce'
    BY <1>5 DEF PxPrepare
<1>6. ASSUME NEW c \in PxCalls, PxSend(c) PROVE PositionLeftOnce'
    BY <1>6 DEF PxSend
<1>7. ASSUME NEW c \in PxCalls, PxSendRaises(c) PROVE PositionLeftOnce'
    BY <1>7 DEF PxSendRaises
<1>8. ASSUME NEW c \in PxCalls, PxApproved(c) PROVE PositionLeftOnce'
    BY <1>8 DEF PxApproved
<1>9. ASSUME NEW c \in PxCalls, PxReceipt(c) PROVE PositionLeftOnce'
    BY <1>9 DEF PxReceipt
<1>10. ASSUME NEW c \in PxCalls, PxNoReceipt(c) PROVE PositionLeftOnce'
    BY <1>10 DEF PxNoReceipt
<1>11. ASSUME NEW c \in PxCalls, PxExit(c) PROVE PositionLeftOnce'
    BY <1>11 DEF PxExit
<1>12. ASSUME NEW c \in PxCalls, PxLeave(c) PROVE PositionLeftOnce'
    <2> DEFINE o == pxObject[c]
    <2>1. /\ pxStep[c] = "leaving" /\ o \in pxRecorded /\ o \in PxObjects /\ o[2] \in PxPools
          /\ UNCHANGED <<pxRecorded, pxOverlapped>>
          /\ pxObject' = [pxObject EXCEPT ![c] = NoEntry] /\ pxStep' = [pxStep EXCEPT ![c] = "done"]
        BY <1>12 DEF PxLeave, PxObjects
    <2>2. CASE UNCHANGED <<pxEntries, pxLeft>> BY <2>1, <2>2
    <2>3. CASE /\ pxEntries[o[2]] # NoEntry
               /\ pxEntries' = [pxEntries EXCEPT ![o[2]] = NoEntry]
               /\ pxLeft' = [pxLeft EXCEPT ![o] = @ + 1]
        <3>1. \A p \in PxPools : pxEntries'[p] # NoEntry => pxEntries'[p] = pxEntries[p] /\ p # o[2]
            BY <2>1, <2>3
        <3>2. \A q \in PxObjects : q # o => pxLeft'[q] = pxLeft[q]
            BY <2>1, <2>3
        <3> QED BY <2>1, <2>3, <3>1, <3>2
    <2> QED BY <1>12, <2>2, <2>3 DEF PxLeave
<1>13. ASSUME NEW c \in PxCalls, PxReduce(c) PROVE PositionLeftOnce'
    BY <1>13 DEF PxReduce
<1>14. CASE PxMineOther BY <1>14 DEF PxMineOther
<1> QED BY <1>1, <1>2, <1>3, <1>4, <1>5, <1>6, <1>7, <1>8, <1>9, <1>10, <1>11, <1>12,
    <1>13, <1>14 DEF PxNext

-----------------------------------------------------------------------------
(* The theorems.                                                           *)

\* The payouts begin in the invariant.
LEMMA PayoutBegins == Init => PayoutInv
<1> SUFFICES ASSUME Init PROVE PayoutInv
    OBVIOUS
<1>1. TypeOK
    BY PayoutAssumption DEF PayoutAssumption, Init, TypeOK, Places, Methods, Routes, Sweeps
<1>2. SweepsKnown
    BY DEF Init, SweepsKnown, MethodAtEnd, RequestKnown, TxKnown, LightningKnown, KeyAtSend,
           AmountAtStart
<1>3. KeyServed
    BY DEF Init, KeyServed
<1>4. KeysInUse
    BY PayoutAssumption DEF PayoutAssumption, Init, KeysInUse
<1>5. Books
    <2>1. amount \in [Sweeps -> Nat] /\ \A s \in Sweeps : amount[s] = 0
        BY DEF Init
    <2>2. PaidSweeps = {}
        BY DEF Init, PaidSweeps
    <2>3. SumOver(amount, {}) = 0
        BY FS_EmptySet, SumIter
    <2>4. SumOver(amount, Sweeps) = 0
        BY <2>1, SweepsFinite, SumOfZeros
    <2> QED BY <2>2, <2>3, <2>4, BooksAre DEF Init
<1> QED BY <1>1, <1>2, <1>3, <1>4, <1>5 DEF PayoutInv

\* Every step of the payouts keeps the invariant.
LEMMA PayoutStays == PayoutInv /\ [Next]_vars => PayoutInv'
<1> SUFFICES ASSUME PayoutInv, [Next]_vars PROVE PayoutInv'
    OBVIOUS
<1>1. CASE Next
    <2> USE <1>1 DEF PayoutInv, SweepsKnown
    <2>1. TypeOK' BY TypeOKStep
    <2>2. SweepsKnown' BY SweepsKnownStep
    <2>3. KeyServed' BY KeyServedStep
    <2>4. KeysInUse' BY KeysInUseStep
    <2>5. Books' BY BooksStep
    <2> QED BY <2>1, <2>2, <2>3, <2>4, <2>5
<1>2. CASE UNCHANGED vars
    <2> USE <1>2 DEF vars, books, answers, chain, PayoutInv
    <2>1. TypeOK' BY DEF TypeOK
    <2>2. SweepsKnown'
        BY DEF SweepsKnown, MethodAtEnd, RequestKnown, TxKnown, LightningKnown, KeyAtSend,
            AmountAtStart
    <2>3. KeyServed' BY DEF KeyServed
    <2>4. KeysInUse' BY DEF KeysInUse
    <2>5. Books' BY BooksAre, BooksArePrimed DEF PaidSweeps
    <2> QED BY <2>1, <2>2, <2>3, <2>4, <2>5
<1> QED BY <1>1, <1>2

\* The invariant of the payouts holds always.
LEMMA PayoutInvariance == Spec => []PayoutInv
BY PayoutBegins, PayoutStays, PTL DEF Spec

\* Every queued dollar is pending or belongs to exactly one sweep, and the
\* total paid is the sum of the sweeps recorded as successful, for any number
\* of queue calls, forced sweeps and threads that finish in any order.
THEOREM BooksBalance == Spec => []Books
<1>1. PayoutInv => Books
    BY DEF PayoutInv
<1> QED BY <1>1, PayoutInvariance, PTL

\* Money left by no route but the recorded one, except by a request of
\* Coinbase or a transaction that was given up without an answer.
THEOREM PaidTruly == Spec => []PaidAsRecorded
<1>1. PayoutInv => PaidAsRecorded
    <2> SUFFICES ASSUME PayoutInv, NEW s \in Sweeps, step[s] = "recorded",
        NEW r \in left[s] \ unsure[s]
                 PROVE  r \in RouteOf(method[s])
        BY DEF PaidAsRecorded, Recorded
    <2> USE DEF PayoutInv, SweepsKnown
    <2>1. r \in Routes BY DEF TypeOK
    <2>2. CASE r = "coinbase"  BY <2>2 DEF RequestKnown, RouteOf
    <2>3. CASE r = "chain"     BY <2>3 DEF TxKnown, RouteOf
    <2>4. CASE r = "lightning" BY <2>4 DEF LightningKnown, RouteOf
    <2> QED BY <2>1, <2>2, <2>3, <2>4 DEF Routes
<1> QED BY <1>1, PayoutInvariance, PTL

\* A sweep recorded as sent is backed: Coinbase moved its money, or that of
\* another sweep with the same idempotency key (then its own dollars stay where
\* they were); or its transaction was mined, with success or not; or the
\* Lightning node confirmed the payment.
THEOREM SuccessBacked == Spec => []SuccessIsBacked
<1>1. PayoutInv => SuccessIsBacked
    <2> SUFFICES ASSUME PayoutInv PROVE SuccessIsBacked
        OBVIOUS
    <2> USE DEF PayoutInv, SweepsKnown
    <2>1. \A s \in Sweeps : method[s] = "coinbase_api" /\ "coinbase" \notin left[s] =>
              \E t \in Sweeps \ {s} : key[t] = key[s] /\ "coinbase" \in left[t]
        BY DEF RequestKnown, KeyServed
    <2>2. \A s \in Sweeps : method[s] = "onchain" => tx[s] \in {"paid", "reverted"}
        BY DEF TxKnown
    <2>3. \A s \in Sweeps : method[s] = "lightning_paid" => "lightning" \in left[s]
        BY DEF LightningKnown
    <2> QED BY <2>1, <2>2, <2>3 DEF SuccessIsBacked, Recorded
<1> QED BY <1>1, PayoutInvariance, PTL

-----------------------------------------------------------------------------
(* Payouts: the purse, step by step.                                       *)

\* The fates of the sweeps.
Fates == [s \in Sweeps |-> Fate(s)]

\* What the purse knows of.
LEMMA PurseIs == Payments!purse = <<pending, amount, Fates, left, unsure, totalPaid>>
BY DEF Payments!purse, Fates

\* And after a step.
LEMMA PurseIsPrimed ==
    Payments!purse' = <<pending', amount', Fates', left', unsure', totalPaid'>>
BY DEF Payments!purse, Fates

\* When one sweep moves, one fate may change.
LEMMA FateMoves ==
    ASSUME NEW s \in Sweeps,
           \A t \in Sweeps \ {s} : step'[t] = step[t] /\ method'[t] = method[t]
    PROVE  Fates' = [Fates EXCEPT ![s] = Fate(s)']
<1>1. ASSUME NEW t \in Sweeps, t # s PROVE Fate(t)' = Fate(t)
    <2>1. step'[t] = step[t] /\ method'[t] = method[t] BY <1>1
    <2>2. Fate(t)' = IF step'[t] = "unstarted" THEN "none"
                     ELSE IF step'[t] = "died" THEN "lost"
                     ELSE IF step'[t] # "recorded" THEN "out"
                     ELSE IF method'[t] # "none" THEN "sent" ELSE "failed"
        BY DEF Fate, Paid
    <2> QED BY <2>1, <2>2 DEF Fate, Paid
<1>2. Fates' = [t \in Sweeps |-> Fate(t)'] BY DEF Fates
<1>3. Fates = [t \in Sweeps |-> Fate(t)] BY DEF Fates
<1> QED BY <1>1, <1>2, <1>3

\* A sweep whose thread is under way is out before and after its step.
LEMMA StaysOut ==
    ASSUME NEW s \in Sweeps,
           \A t \in Sweeps \ {s} : step'[t] = step[t] /\ method'[t] = method[t],
           step[s] \notin {"unstarted", "recorded", "died"},
           step'[s] \notin {"unstarted", "recorded", "died"}
    PROVE  UNCHANGED Fates
<1>1. Fates' = [Fates EXCEPT ![s] = Fate(s)'] BY FateMoves
<1>2. Fate(s) = "out" /\ Fate(s)' = "out" BY DEF Fate
<1>3. Fates = [t \in Sweeps |-> Fate(t)] BY DEF Fates
<1> QED BY <1>1, <1>2, <1>3

\* Nothing moves, no fate changes.
LEMMA FatesKept == ASSUME UNCHANGED <<step, method>> PROVE UNCHANGED Fates
BY DEF Fates, Fate, Paid

\* As long as there is no result, money left only by a route that was given up
\* in doubt, or by the one whose answer is waited for.
LEMMA LeftInDoubt ==
    ASSUME TypeOK, SweepsKnown, NEW s \in Sweeps, method[s] = "none"
    PROVE  /\ "coinbase" \in left[s] => step[s] = "answer" \/ "coinbase" \in unsure[s]
           /\ "chain" \in left[s] => step[s] = "receipt" \/ "chain" \in unsure[s]
           /\ "lightning" \notin left[s]
BY DEF SweepsKnown, RequestKnown, TxKnown, LightningKnown

\* So the money of a sweep that waits for no answer is at home.
LEMMA IsAtHome ==
    ASSUME TypeOK, SweepsKnown, NEW s \in Sweeps, method[s] = "none",
           step[s] \notin {"answer", "receipt"}
    PROVE  left[s] \subseteq unsure[s]
<1>1. left[s] \subseteq {"coinbase", "chain", "lightning"}
    BY DEF TypeOK, Routes
<1> QED BY <1>1, LeftInDoubt

\* queue collects profit or hands the balance over.
LEMMA BeginningHandsOver ==
    ASSUME TypeOK, NEW usd \in Nat, Beginning(usd)
    PROVE  /\ \E s \in Sweeps : /\ Fates[s] = "none"
                                /\ Fates' = [Fates EXCEPT ![s] = "out"]
                                /\ amount' = [amount EXCEPT ![s] = usd]
           /\ UNCHANGED <<left, unsure, totalPaid>>
<1> PICK s \in Sweeps, place \in {"coinbase", "chain", "lightning", "record"},
         m \in {"none", "dry_run"} : BegunAs(s, usd, place, m)
    BY DEF Beginning
<1>1. step[s] = "unstarted" /\ step'[s] = place
      /\ \A t \in Sweeps \ {s} : step'[t] = step[t] /\ method'[t] = method[t]
    BY DEF BegunAs, TypeOK
<1>2. Fates' = [Fates EXCEPT ![s] = Fate(s)']
    BY <1>1, FateMoves
<1>3. Fates[s] = "none" /\ Fate(s)' = "out"
    BY <1>1 DEF Fates, Fate
<1> QED BY <1>2, <1>3 DEF BegunAs

\* A step of queue or sweep_now is one of the purse.
LEMMA BalanceRefines ==
    ASSUME PayoutInv, (\E profit \in 1 .. Threshold : Queue(profit)) \/ SweepNow
    PROVE  Payments!Collect \/ Payments!HandOver
<1> USE DEF PayoutInv, SweepsKnown
<1>0. pending \in Nat /\ Threshold \in Nat
    BY PayoutAssumption DEF TypeOK, PayoutAssumption
<1>1. ASSUME NEW profit \in 1 .. Threshold, Queue(profit)
      PROVE  Payments!Collect \/ Payments!HandOver
    <2>1. CASE pending + profit < Threshold
        <3>1. pending' = pending + profit
            BY <1>0, <1>1, <2>1 DEF Queue
        <3>2. UNCHANGED <<step, method, amount, left, unsure, totalPaid>>
            BY <1>0, <1>1, <2>1 DEF Queue
        <3>3. UNCHANGED Fates BY <3>2, FatesKept
        <3> QED BY <2>1, <3>1, <3>2, <3>3 DEF Payments!Collect, Fates
    <2>2. CASE ~(pending + profit < Threshold)
        <3>1. pending' = 0 /\ UNCHANGED totalPaid /\ (\E s \in Sweeps : Start(s, pending + profit))
            BY <1>0, <1>1, <2>2 DEF Queue
        <3>2. pending + profit \in Nat /\ pending + profit >= Threshold BY <1>0, <2>2
        <3>3. Beginning(pending + profit) BY <3>1, StartBegins
        <3>4. PICK s \in Sweeps : /\ Fates[s] = "none"
                                  /\ Fates' = [Fates EXCEPT ![s] = "out"]
                                  /\ amount' = [amount EXCEPT ![s] = pending + profit]
            BY <3>2, <3>3, BeginningHandsOver
        <3>5. UNCHANGED <<left, unsure, totalPaid>> BY <3>2, <3>3, BeginningHandsOver
        <3>6. Payments!Take(s, profit) BY <3>1, <3>4, <3>5 DEF Payments!Take, Fates
        <3> QED BY <3>2, <3>6 DEF Payments!HandOver
    <2> QED BY <2>1, <2>2
<1>2. CASE SweepNow
    <2>1. pending > 0 /\ pending' = 0 /\ Beginning(pending)
        BY <1>2, SweepNowStep DEF SweepNow
    <2>2. PICK s \in Sweeps : /\ Fates[s] = "none"
                              /\ Fates' = [Fates EXCEPT ![s] = "out"]
                              /\ amount' = [amount EXCEPT ![s] = pending]
        BY <1>0, <2>1, BeginningHandsOver
    <2>3. UNCHANGED <<left, unsure, totalPaid>> BY <1>0, <2>1, BeginningHandsOver
    <2>4. pending + 0 = pending BY <1>0
    <2>5. Payments!Take(s, 0) BY <2>1, <2>2, <2>3, <2>4 DEF Payments!Take, Fates
    <2> QED BY <2>1, <2>5 DEF Payments!HandOver
<1> QED BY <1>1, <1>2

\* The steps the purse does not see.
Unseen == UNCHANGED <<pending, amount, Fates, left, unsure, totalPaid>>

\* A step that takes a route, or gives it up knowing that nothing left, is unseen.
LEMMA QuietSteps ==
    ASSUME TypeOK, NEW s \in Sweeps,
           \/ CoinbaseSkip(s) \/ CoinbaseInternal(s) \/ CoinbaseSend(s) \/ CoinbaseAnswered(s)
           \/ ChainSkip(s) \/ ChainNonce(s) \/ ChainRefused(s) \/ Receipt(s) \/ LightningFails(s)
    PROVE  Unseen
<1>1. UNCHANGED <<pending, amount, left, unsure, totalPaid>>
    BY DEF CoinbaseSkip, CoinbaseInternal, CoinbaseSend, CoinbaseAnswered, ChainSkip, ChainNonce,
           ChainRefused, Receipt, LightningFails, books
<1>2. /\ \A t \in Sweeps \ {s} : step'[t] = step[t] /\ method'[t] = method[t]
      /\ step[s] \notin {"unstarted", "recorded", "died"}
      /\ step'[s] \notin {"unstarted", "recorded", "died"}
    BY DEF TypeOK, CoinbaseSkip, CoinbaseInternal, CoinbaseSend, CoinbaseAnswered, ChainSkip,
           ChainNonce, ChainRefused, Receipt, LightningFails, Goto, Answer, AfterChain,
           AfterCoinbase
<1>3. UNCHANGED Fates BY <1>2, StaysOut
<1> QED BY <1>1, <1>3 DEF Unseen

\* A route given up without an answer is a doubt.
LEMMA DoubtRefines ==
    ASSUME TypeOK, NEW s \in Sweeps, NEW r \in Routes,
           step[s] \notin {"unstarted", "recorded", "died"},
           GiveUpOn(s, r), Goto(s, AfterChain) \/ Goto(s, AfterCoinbase),
           UNCHANGED <<books, amount, method, left>>
    PROVE  Payments!Doubt(s, r)
<1>1. /\ \A t \in Sweeps \ {s} : step'[t] = step[t] /\ method'[t] = method[t]
      /\ step'[s] \notin {"unstarted", "recorded", "died"}
    BY DEF TypeOK, Goto, AfterChain, AfterCoinbase
<1>2. UNCHANGED Fates BY <1>1, StaysOut
<1>3. Fates[s] = "out" BY DEF Fates, Fate
<1> QED BY <1>2, <1>3 DEF Payments!Doubt, GiveUpOn, books, Fates

\* The steps that end in a timeout, or in a transaction whose answer is lost.
LEMMA TimeoutRefines ==
    ASSUME TypeOK, NEW s \in Sweeps, CoinbaseTimeout(s) \/ ReceiptTimeout(s) \/ ChainSend(s)
    PROVE  Unseen \/ \E r \in Routes : Payments!Doubt(s, r)
<1>1. "coinbase" \in Routes /\ "chain" \in Routes BY DEF Routes
<1>2. CASE CoinbaseTimeout(s)
    BY <1>1, <1>2, DoubtRefines DEF CoinbaseTimeout
<1>3. CASE ReceiptTimeout(s)
    BY <1>1, <1>3, DoubtRefines DEF ReceiptTimeout
<1>4. CASE ChainSend(s)
    <2>1. step[s] = "send" /\ UNCHANGED <<books, amount, method, left>>
        BY <1>4 DEF ChainSend
    <2>2. CASE Goto(s, "receipt") /\ UNCHANGED unsure
        <3>1. /\ \A t \in Sweeps \ {s} : step'[t] = step[t] /\ method'[t] = method[t]
              /\ step'[s] = "receipt"
            BY <2>1, <2>2 DEF TypeOK, Goto
        <3>2. UNCHANGED Fates BY <2>1, <3>1, StaysOut
        <3> QED BY <2>1, <2>2, <3>2 DEF Unseen, books
    <2>3. CASE Goto(s, AfterChain) /\ GiveUpOn(s, "chain")
        BY <1>1, <2>1, <2>3, DoubtRefines
    <2> QED BY <1>4, <2>2, <2>3 DEF ChainSend
<1> QED BY <1>2, <1>3, <1>4

\* A thread that dies, or records its result, settles its payment.
LEMMA EndRefines ==
    ASSUME PayoutInv, NEW s \in Sweeps, ChainRaises(s) \/ Record(s)
    PROVE  Payments!Settle(s)
<1> USE DEF PayoutInv, SweepsKnown
<1>1. step[s] \in {"chain", "record"} /\ UNCHANGED <<pending, amount, method, left, unsure>>
    BY DEF ChainRaises, Record, books
<1>2. \A t \in Sweeps \ {s} : step'[t] = step[t] /\ method'[t] = method[t]
    BY DEF ChainRaises, Record, Goto, TypeOK
<1>3. Fates' = [Fates EXCEPT ![s] = Fate(s)'] BY <1>2, FateMoves
<1>4. Fates[s] = "out" BY <1>1 DEF Fates, Fate
<1>5. CASE ChainRaises(s)
    <2>1. step'[s] = "died" /\ step[s] = "chain" /\ UNCHANGED totalPaid
        BY <1>5 DEF ChainRaises, Goto, TypeOK, books
    <2>2. Fate(s)' = "lost" BY <2>1 DEF Fate
    <2>3. left[s] \subseteq unsure[s] BY <2>1, IsAtHome DEF MethodAtEnd
    <2> QED BY <1>1, <1>3, <1>4, <2>1, <2>2, <2>3 DEF Payments!Settle, Payments!AtHome, Fates
<1>6. CASE Record(s)
    <2>1. step'[s] = "recorded" /\ step[s] = "record"
          /\ totalPaid' = totalPaid + (IF method[s] # "none" THEN amount[s] ELSE 0)
        BY <1>6 DEF Record, Goto, TypeOK
    <2>2. totalPaid + 0 = totalPaid BY DEF TypeOK
    <2>3. CASE method[s] # "none"
        <3>1. Fate(s)' = "sent" BY <1>1, <2>1, <2>3 DEF Fate, Paid
        <3> QED BY <1>1, <1>3, <1>4, <2>1, <2>3, <3>1 DEF Payments!Settle, Fates
    <2>4. CASE method[s] = "none"
        <3>1. Fate(s)' = "failed" BY <1>1, <2>1, <2>4 DEF Fate, Paid
        <3>2. left[s] \subseteq unsure[s] BY <2>1, <2>4, IsAtHome
        <3> QED BY <1>1, <1>3, <1>4, <2>1, <2>2, <2>4, <3>1, <3>2
                DEF Payments!Settle, Payments!AtHome, Fates
    <2> QED BY <2>3, <2>4
<1> QED BY <1>5, <1>6

\* The money leaves by a route that has not paid yet, while the sweep is out and
\* no other route paid without doubt, or after the route was given up.
LEMMA LeaveRefines ==
    ASSUME PayoutInv, NEW s \in Sweeps, LightningInvoice(s) \/ CoinbaseServe(s) \/ Mine(s)
    PROVE  Unseen \/ \E r \in Routes : Payments!Leave(s, r)
<1> USE DEF PayoutInv, SweepsKnown
<1>0. "coinbase" \in Routes /\ "chain" \in Routes /\ "lightning" \in Routes
      /\ left[s] \subseteq {"coinbase", "chain", "lightning"}
    BY DEF Routes, TypeOK
<1>1. UNCHANGED <<pending, amount, unsure, totalPaid>>
    BY DEF LightningInvoice, CoinbaseServe, Mine, books
<1>2. UNCHANGED Fates
    <2>1. CASE LightningInvoice(s)
        <3>1. /\ \A t \in Sweeps \ {s} : step'[t] = step[t] /\ method'[t] = method[t]
              /\ step[s] = "lightning" /\ step'[s] = "record"
            BY <2>1 DEF LightningInvoice, Answer, Goto, TypeOK
        <3> QED BY <3>1, StaysOut
    <2>2. CASE CoinbaseServe(s) \/ Mine(s)
        BY <2>2, FatesKept DEF CoinbaseServe, Mine
    <2> QED BY <2>1, <2>2
<1>3. CASE UNCHANGED left BY <1>1, <1>2, <1>3 DEF Unseen
<1>4. ASSUME NEW r \in Routes, left' = [left EXCEPT ![s] = @ \union {r}], r \notin left[s],
             \/ step[s] \notin {"unstarted", "recorded", "died"} /\ left[s] \subseteq unsure[s]
             \/ r \in unsure[s]
      PROVE  Payments!Leave(s, r)
    <2>1. (Fates[s] = "out" /\ left[s] \subseteq unsure[s]) \/ r \in unsure[s]
        BY <1>4 DEF Fates, Fate
    <2> QED BY <1>1, <1>2, <1>4, <2>1 DEF Payments!Leave, Payments!AtHome, Fates
<1>5. CASE LightningInvoice(s) /\ ~ UNCHANGED left
    <2>1. step[s] = "lightning" /\ left' = [left EXCEPT ![s] = @ \union {"lightning"}]
        BY <1>5 DEF LightningInvoice
    <2>2. method[s] = "none" BY <2>1 DEF MethodAtEnd
    <2>3. left[s] \subseteq unsure[s] /\ "lightning" \notin left[s]
        BY <2>1, <2>2, IsAtHome, LeftInDoubt
    <2> QED BY <1>0, <1>4, <2>1, <2>3
<1>6. CASE CoinbaseServe(s) /\ ~ UNCHANGED left
    <2>1. request[s] = "sent" /\ left' = [left EXCEPT ![s] = @ \union {"coinbase"}]
        BY <1>6 DEF CoinbaseServe
    <2>2. "coinbase" \notin left[s] /\ (step[s] = "answer" \/ "coinbase" \in unsure[s])
        BY <2>1 DEF RequestKnown
    <2>3. step[s] = "answer" => left[s] \subseteq unsure[s]
        <3> SUFFICES ASSUME step[s] = "answer" PROVE left[s] \subseteq unsure[s]
            OBVIOUS
        <3>1. method[s] = "none" BY DEF MethodAtEnd
        <3> QED BY <1>0, <2>2, <3>1, LeftInDoubt
    <2> QED BY <1>0, <1>4, <2>1, <2>2, <2>3
<1>7. CASE Mine(s) /\ ~ UNCHANGED left
    <2>1. tx[s] = "pool" /\ left' = [left EXCEPT ![s] = @ \union {"chain"}]
        BY <1>7 DEF Mine
    <2>2. "chain" \notin left[s] /\ (step[s] = "receipt" \/ "chain" \in unsure[s])
        BY <2>1 DEF TxKnown
    <2>3. step[s] = "receipt" => left[s] \subseteq unsure[s]
        <3> SUFFICES ASSUME step[s] = "receipt" PROVE left[s] \subseteq unsure[s]
            OBVIOUS
        <3>1. method[s] = "none" BY DEF MethodAtEnd
        <3> QED BY <1>0, <2>2, <3>1, LeftInDoubt
    <2> QED BY <1>0, <1>4, <2>1, <2>2, <2>3
<1> QED BY <1>3, <1>5, <1>6, <1>7

\* Every step of the payouts is one of the purse, or a stutter.
LEMMA PurseStep == PayoutInv /\ [Next]_vars => [Payments!PurseNext]_Payments!purse
<1> SUFFICES ASSUME PayoutInv, [Next]_vars, Payments!purse' # Payments!purse
             PROVE  Payments!PurseNext
    OBVIOUS
<1> USE DEF PayoutInv
<1>1. ~ Unseen BY PurseIs, PurseIsPrimed DEF Unseen
<1>2. CASE UNCHANGED vars
    BY <1>1, <1>2, FatesKept DEF vars, books, Unseen
<1>3. CASE MineTrade
    BY <1>1, <1>3, FatesKept DEF MineTrade, books, Unseen
<1>4. CASE (\E profit \in 1 .. Threshold : Queue(profit)) \/ SweepNow
    BY <1>4, BalanceRefines DEF Payments!PurseNext
<1>5. ASSUME NEW s \in Sweeps, ThreadStep(s) \/ CoinbaseServe(s) \/ Mine(s)
      PROVE  Payments!PurseNext
    <2>1. \/ Payments!Settle(s)
          \/ \E r \in Routes : Payments!Leave(s, r) \/ Payments!Doubt(s, r)
        BY <1>1, <1>5, QuietSteps, TimeoutRefines, EndRefines, LeaveRefines DEF ThreadStep
    <2> QED BY <2>1 DEF Payments!PurseNext
<1> QED BY <1>2, <1>3, <1>4, <1>5 DEF Next

\* The payouts keep the promise of the purse, for any number of sweeps: the
\* balance is handed over whole, a sweep ends once and its dollars are counted
\* then, and its money leaves by one route, except by routes given up in doubt.
THEOREM PurseKept == Spec => KeepsPurse
<1>1. Init => Payments!PurseInit
    BY DEF Init, Payments!PurseInit, Fate
<1>2. Spec => Payments!PurseInit /\ [][Payments!PurseNext]_Payments!purse
    BY <1>1, PayoutInvariance, PurseStep, PTL DEF Spec
<1> QED BY <1>2 DEF KeepsPurse, Payments!PurseSpec

\* What the purse says of one payment, in terms of its sweep.
OnceOnly(s) ==
    /\ \A v, w \in left[s] \ unsure[s] : v = w
    /\ Fates[s] \in {"none", "failed", "lost"} => left[s] \subseteq unsure[s]

\* It is the promise for all of them, before a step and after it.
LEMMA LeavesOnceIs ==
    /\ Payments!LeavesOnce <=> \A s \in Sweeps : OnceOnly(s)
    /\ Payments!LeavesOnce' <=> \A s \in Sweeps : OnceOnly(s)'
BY DEF Payments!LeavesOnce, Payments!AtHome, OnceOnly, Fates

\* A purse whose money left once lets it leave once more by a way in doubt only.
LEMMA LeavesOnceStays ==
    ASSUME TypeOK, Payments!LeavesOnce, [Payments!PurseNext]_Payments!purse
    PROVE  Payments!LeavesOnce'
<1> SUFFICES ASSUME NEW s \in Sweeps PROVE OnceOnly(s)'
    BY LeavesOnceIs
<1>0. OnceOnly(s) BY LeavesOnceIs
<1>1. /\ left \in [Sweeps -> SUBSET Routes] /\ unsure \in [Sweeps -> SUBSET Routes]
      /\ Fates = [t \in Sweeps |-> Fates[t]]
    BY DEF TypeOK, Fates
<1>2. OnceOnly(s)' <=> /\ \A v, w \in left'[s] \ unsure'[s] : v = w
                       /\ Fates'[s] \in {"none", "failed", "lost"} => left'[s] \subseteq unsure'[s]
    BY DEF OnceOnly
<1>3. CASE UNCHANGED Payments!purse
    BY <1>0, <1>2, <1>3, PurseIs, PurseIsPrimed DEF OnceOnly
<1>4. CASE Payments!Collect
    BY <1>0, <1>2, <1>4 DEF Payments!Collect, OnceOnly, Fates
<1>5. ASSUME NEW t \in Sweeps, NEW profit, Payments!Take(t, profit) PROVE OnceOnly(s)'
    <2>1. UNCHANGED <<left, unsure>> /\ Fates' = [Fates EXCEPT ![t] = "out"]
        BY <1>5 DEF Payments!Take, Fates
    <2> QED BY <1>0, <1>1, <1>2, <2>1 DEF OnceOnly
<1>6. ASSUME NEW t \in Sweeps, Payments!Settle(t) PROVE OnceOnly(s)'
    <2>1. /\ UNCHANGED <<left, unsure>>
          /\ \/ Fates' = [Fates EXCEPT ![t] = "sent"]
             \/ left[t] \subseteq unsure[t]
                /\ \E end \in {"failed", "lost"} : Fates' = [Fates EXCEPT ![t] = end]
        BY <1>6 DEF Payments!Settle, Payments!AtHome, Fates
    <2> QED BY <1>0, <1>1, <1>2, <2>1 DEF OnceOnly
<1>7. ASSUME NEW t \in Sweeps, NEW r \in Routes, Payments!Leave(t, r) PROVE OnceOnly(s)'
    <2>1. /\ UNCHANGED <<unsure, Fates>> /\ left' = [left EXCEPT ![t] = @ \union {r}]
          /\ (Fates[t] = "out" /\ left[t] \subseteq unsure[t]) \/ r \in unsure[t]
        BY <1>7 DEF Payments!Leave, Payments!AtHome, Fates
    <2>2. CASE s # t BY <1>0, <1>1, <1>2, <2>1, <2>2 DEF OnceOnly
    <2>3. CASE s = t
        <3>1. left'[s] = left[s] \union {r} BY <1>1, <2>1, <2>3
        <3> QED BY <1>0, <1>2, <2>1, <2>3, <3>1 DEF OnceOnly
    <2> QED BY <2>2, <2>3
<1>8. ASSUME NEW t \in Sweeps, NEW r \in Routes, Payments!Doubt(t, r) PROVE OnceOnly(s)'
    <2>1. UNCHANGED <<left, Fates>> /\ unsure' = [unsure EXCEPT ![t] = @ \union {r}]
        BY <1>8 DEF Payments!Doubt, Fates
    <2>2. unsure[s] \subseteq unsure'[s] BY <1>1, <2>1
    <2> QED BY <1>0, <1>2, <2>1, <2>2 DEF OnceOnly
<1> QED BY <1>3, <1>4, <1>5, <1>6, <1>7, <1>8 DEF Payments!PurseNext, Payments!HandOver

\* Because the payouts are a purse, the money of a sweep leaves by at most one
\* route that was not given up in doubt, recorded or not, and by none if the
\* sweep failed or its thread died: there is no second payment without a
\* timeout.
THEOREM MoneyLeavesOnce == Spec => []Payments!LeavesOnce
<1>1. Payments!PurseInit => Payments!LeavesOnce
    BY DEF Payments!PurseInit, Payments!LeavesOnce, Payments!AtHome
<1>2. PayoutInv /\ Payments!LeavesOnce /\ [Payments!PurseNext]_Payments!purse
        => Payments!LeavesOnce'
    BY LeavesOnceStays DEF PayoutInv
<1>3. Spec => Payments!PurseInit /\ [][Payments!PurseNext]_Payments!purse
    BY PurseKept DEF KeepsPurse, Payments!PurseSpec
<1> QED BY <1>1, <1>2, <1>3, PayoutInvariance, PTL

\* The pool executor begins in the invariant.
LEMMA PoolsBegin == PxInit => PoolsInv
<1> SUFFICES ASSUME PxInit PROVE PoolsInv
    OBVIOUS
<1> USE PxAssumption DEF PxAssumption, PxInit
<1>1. PxTyped BY DEF PxTyped, PxTypeOK, PxKinds
<1>2. CallsInOrder /\ NotYetRecorded /\ PendingOnce
    BY DEF CallsInOrder, Busy, NotYetRecorded, PendingOnce
<1>3. NotYetSent BY DEF NotYetSent, Busy, Fresh, PxTxs, PxObjects
<1>4. EntriesDeposited BY DEF EntriesDeposited
<1>5. DepositsKnown
    <2>1. \A o \in PxObjects : <<o, "supply">> \in PxTxs BY DEF PxTxs, PxKinds
    <2>2. Deposited = {} BY <2>1 DEF Deposited
    <2> QED BY <2>2 DEF DepositsKnown
<1>6. EntriesFresh /\ LeaversKnown BY DEF EntriesFresh, LeaversKnown
<1>7. PositionLeftOnce BY DEF PositionLeftOnce
<1>8. PositionsGo BY DEF PositionsGo
<1> QED BY <1>1, <1>2, <1>3, <1>4, <1>5, <1>6, <1>7, <1>8 DEF PoolsInv

\* Every step of the pool executor keeps the invariant.
LEMMA PoolsStay == PoolsInv /\ [PxNext]_pxVars => PoolsInv'
<1> SUFFICES ASSUME PoolsInv, [PxNext]_pxVars PROVE PoolsInv'
    OBVIOUS
<1>1. CASE PxNext
    <2> USE <1>1 DEF PoolsInv
    <2>1. PxTyped' BY PxTypedStep
    <2>2. CallsInOrder' BY CallsInOrderStep
    <2>3. NotYetSent' BY NotYetSentStep
    <2>4. NotYetRecorded' BY NotYetRecordedStep
    <2>5. PendingOnce' BY PendingOnceStep
    <2>6. EntriesDeposited' BY EntriesDepositedStep
    <2>7. DepositsKnown' BY DepositsKnownStep
    <2>8. EntriesFresh' /\ LeaversKnown' BY EntriesFreshStep, LeaversKnownStep
    <2>9. PositionLeftOnce' BY PositionLeftOnceStep
    <2>10. PositionsGo' BY PositionsGoStep
    <2> QED BY <2>1, <2>2, <2>3, <2>4, <2>5, <2>6, <2>7, <2>8, <2>9, <2>10
<1>2. CASE UNCHANGED pxVars
    <2> USE <1>2 DEF pxVars, pxOwn, pxChain, pxPast, PoolsInv
    <2>1. PxTyped' BY DEF PxTyped, PxTypeOK
    <2>2. CallsInOrder' /\ NotYetRecorded' BY DEF CallsInOrder, NotYetRecorded, Busy
    <2>3. NotYetSent' BY FreshKept, EnteringKept DEF NotYetSent, Busy
    <2>4. PendingOnce' /\ EntriesDeposited' BY DEF PendingOnce, EntriesDeposited
    <2>5. DepositsKnown' BY DepositedKept, EnteringKept DEF DepositsKnown, Awaited
    <2>6. EntriesFresh' /\ LeaversKnown' BY DEF EntriesFresh, LeaversKnown
    <2>7. PositionLeftOnce' BY DEF PositionLeftOnce
    <2>8. PositionsGo' BY DEF PositionsGo, Position
    <2> QED BY <2>1, <2>2, <2>3, <2>4, <2>5, <2>6, <2>7, <2>8
<1> QED BY <1>1, <1>2

\* A behaviour of the composition is one of each component.
LEMMA MoneyParts == MoneySpec => Spec /\ PxInit /\ [][PxNext]_pxVars
<1>1. MoneyInit => Init /\ PxInit
    BY DEF MoneyInit
<1>2. [MoneyNext]_moneyVars => [Next]_vars /\ [PxNext]_pxVars
    BY DEF MoneyNext, moneyVars
<1> QED BY <1>1, <1>2, PTL DEF MoneySpec, Spec

\* The invariant of the pool executor holds always.
LEMMA PoolsInvariance == MoneySpec => []PoolsInv
BY MoneyParts, PoolsBegin, PoolsStay, PTL

\* The table of positions against the chain, for any number of requests, pools
\* and transactions: a position that was not simulated had its deposit mined; a
\* deposit on the chain is in the table, but for one whose request still waits
\* or gave up in doubt and one that another entry or an exit took out; and an
\* entry is counted once into what was taken out unless its pool was entered
\* again in the middle of an exit.
THEOREM PositionsTrue == MoneySpec => []PositionsAreTrue
<1>1. PoolsInv => PositionsAreTrue
    <2> SUFFICES ASSUME PoolsInv PROVE PositionsAreTrue
        OBVIOUS
    <2>1. ASSUME NEW o \in PxObjects, OnChain(o)
          PROVE  Position(o) \/ PxWaits(o) \/ o \in pxUnsure \union pxReplaced \union pxRemoved
        <3>1. PICK c \in PxCalls, p \in PxPools : o = <<c, p>> BY DEF PxObjects
        <3>2. o \in Deposited BY <2>1 DEF OnChain, Deposited
        <3>3. o \in pxRecorded \union pxUnsure \/ PxWaits(o)
            BY <3>1, <3>2 DEF PoolsInv, DepositsKnown, Awaited, PxWaits
        <3> QED BY <3>3 DEF PoolsInv, PositionsGo
    <2>2. ASSUME NEW o \in PxObjects \ pxSimulated, Position(o)
          PROVE  OnChain(o)
        <3>1. o[2] \in PxPools /\ o # NoEntry BY DEF PxObjects, PxCalls, NoEntry
        <3>2. o \in pxRecorded BY <2>2, <3>1 DEF PoolsInv, EntriesFresh, Position
        <3> QED BY <2>2, <3>2 DEF PoolsInv, EntriesDeposited, OnChain
    <2> QED BY <2>1, <2>2 DEF PoolsInv, PositionsMatchChain, PositionsAreTrue
<1> QED BY <1>1, PoolsInvariance, PTL

\* The types of payouts and pool executor, for all values of the constants:
\* the pending balance stays below the threshold between two calls, and no two
\* transactions of the wallet wait with one nonce.
THEOREM MoneyTypes == MoneySpec => []MoneyTypeOK
<1>1. PayoutInv /\ PoolsInv => MoneyTypeOK
    BY DEF PayoutInv, PoolsInv, PxTyped, MoneyTypeOK
<1> QED BY <1>1, MoneyParts, PayoutInvariance, PoolsInvariance, PTL
=============================================================================
