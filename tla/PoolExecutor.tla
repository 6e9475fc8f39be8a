---------------------------- MODULE PoolExecutor ----------------------------
(***************************************************************************)
(* nexus/execution/pool_executor.py: entering and leaving liquidity pools, *)
(* with one thread per request.  The executor is one that was given a      *)
(* BlockchainManager; without one every entry outside dry run fails before *)
(* it begins.  Amounts, slippage and scores are left out: a position is    *)
(* there or not.                                                           *)
(*                                                                         *)
(* External: the wallet's chain, as its transactions see it; the wallet is  *)
(* that of the trades and the payouts, too.                                *)
(***************************************************************************)
EXTENDS Naturals, FiniteSets

CONSTANTS PxPools,      \* liquidity pools
          PxMaxCalls,   \* bound: requests
          PxMaxTxs      \* bound: transactions the node has taken

ASSUME PxAssumption == PxMaxCalls \in Nat /\ PxMaxTxs \in Nat

PxCalls   == 1 .. PxMaxCalls
PxObjects == PxCalls \X PxPools    \* the entry a call makes for a pool
PxKinds   == {"approve", "again", "supply"}    \* of one or two tokens, then the deposit
PxTxs     == PxObjects \X PxKinds
NoEntry   == <<0, 0>>

VARIABLES
    pxDry,        \* Config.DRY_RUN
    pxEntries,    \* _entries: the object of each pool
    pxCount,      \* requests so far
    pxStep,       \* where each request is
    pxTodo,       \* enter_best_pools: pools still to enter, the first is entered now
    pxObject,     \* exit_pool: the entry that was read
    pxNonce,      \* the nonce a request goes by
    pxKind,       \* the transaction it sends or waits for
    pxPending,    \* external: transactions of the wallet that wait, by nonce
    pxMined,      \* external: transactions of the wallet that were mined
    pxStatus,     \* external: of each transaction: none, ok, reverted
    pxSimulated,  \* history: entries made in dry run
    pxRecorded,   \* history: entries recorded
    pxReplaced,   \* history: positions of which another entry took the place
    pxRemoved,    \* history: positions an exit took out of the table
    pxUnsure,     \* history: entries given up while their deposit may be under way
    pxLeft,       \* history: how often an entry was counted as left
    pxOverlapped  \* history: entries whose pool was entered again during an exit

pxChain == <<pxPending, pxMined, pxStatus>>
pxTable == <<pxEntries, pxRecorded, pxReplaced, pxOverlapped>>
pxPast  == <<pxSimulated, pxRecorded, pxReplaced, pxRemoved, pxUnsure, pxLeft, pxOverlapped>>
pxOwn   == <<pxTodo, pxObject, pxNonce, pxKind>>
pxVars  == <<pxDry, pxEntries, pxCount, pxStep, pxOwn, pxChain, pxPast>>

PxInit ==
    /\ pxDry \in BOOLEAN
    /\ pxEntries = [p \in PxPools |-> NoEntry]
    /\ pxCount = 0 /\ pxMined = 0
    /\ pxStep = [c \in PxCalls |-> "none"]
    /\ pxTodo = [c \in PxCalls |-> {}]
    /\ pxObject = [c \in PxCalls |-> NoEntry]
    /\ pxNonce = [c \in PxCalls |-> 0]
    /\ pxKind = [c \in PxCalls |-> "approve"]
    /\ pxPending = {}
    /\ pxStatus = [x \in PxTxs |-> "none"]
    /\ pxSimulated = {} /\ pxRecorded = {} /\ pxReplaced = {} /\ pxRemoved = {}
    /\ pxUnsure = {} /\ pxOverlapped = {}
    /\ pxLeft = [o \in PxObjects |-> 0]

PxGoTo(c, step) == pxStep' = [pxStep EXCEPT ![c] = step]
Entering(c) == CHOOSE p \in pxTodo[c] : TRUE
PxMade(c) == <<c, Entering(c)>>
-----------------------------------------------------------------------------
(* enter_pool and enter_best_pools.                                        *)

\* enter_pool for one pool, or enter_best_pools for those recommended to it;
\* pools that are not found or amounts that are too small end it.
PxEnter(c) ==
    /\ c = pxCount + 1 /\ pxCount' = c
    /\ \E pools \in (SUBSET PxPools) \ {{}} : pxTodo' = [pxTodo EXCEPT ![c] = pools]
    /\ PxGoTo(c, "gas")
    /\ UNCHANGED <<pxDry, pxEntries, pxObject, pxNonce, pxKind, pxChain, pxPast>>

\* The pool is done with, and what was local to it; the next one of
\* enter_best_pools, if any.
PxNextPool(c) ==
    /\ pxNonce' = [pxNonce EXCEPT ![c] = 0] /\ pxKind' = [pxKind EXCEPT ![c] = "approve"]
    /\ pxTodo' = [pxTodo EXCEPT ![c] = @ \ {Entering(c)}]
    /\ PxGoTo(c, IF pxTodo'[c] = {} THEN "done" ELSE "gas")

\* A second entry takes the place of the first.
PxRecord(c) ==
    /\ pxEntries' = [pxEntries EXCEPT ![Entering(c)] = PxMade(c)]
    /\ pxRecorded' = pxRecorded \union {PxMade(c)}
    /\ pxReplaced' = pxReplaced \union ({pxEntries[Entering(c)]} \ {NoEntry})
    /\ pxOverlapped' = pxOverlapped \union
          {pxObject[d] : d \in {e \in PxCalls : pxStep[e] = "leaving" /\ pxObject[e][2] = Entering(c)}}

\* _simulate_entry, once the wait for gas is over.
PxSimulateEntry(c) ==
    /\ pxStep[c] = "gas" /\ pxDry
    /\ PxRecord(c) /\ PxNextPool(c)
    /\ pxSimulated' = pxSimulated \union {PxMade(c)}
    /\ UNCHANGED <<pxDry, pxCount, pxObject, pxChain, pxRemoved, pxUnsure, pxLeft>>

\* No connection, router, wallet, token or balance: a failed result.
PxCannot(c) ==
    /\ pxStep[c] = "gas" /\ ~pxDry
    /\ PxNextPool(c)
    /\ UNCHANGED <<pxDry, pxEntries, pxCount, pxObject, pxChain, pxPast>>

\* The count of mined transactions is the nonce; the allowance suffices or not.
PxPrepare(c) ==
    /\ pxStep[c] = "gas" /\ ~pxDry
    /\ pxNonce' = [pxNonce EXCEPT ![c] = pxMined]
    /\ \E kind \in {"approve", "supply"} : pxKind' = [pxKind EXCEPT ![c] = kind]
    /\ PxGoTo(c, "send")
    /\ UNCHANGED <<pxDry, pxEntries, pxCount, pxTodo, pxObject, pxChain, pxPast>>

PxTx(c) == <<PxMade(c), pxKind[c]>>

\* The node takes a transaction whose nonce is not used; one that waits with
\* the nonce is replaced if the gas price went up.
PxTaken(c) ==
    /\ pxNonce[c] >= pxMined
    /\ pxMined + Cardinality(pxPending) < PxMaxTxs
    /\ pxPending' = {x \in pxPending : x.nonce # pxNonce[c]}
                    \union {[nonce |-> pxNonce[c], tx |-> PxTx(c)]}

PxSend(c) ==
    /\ pxStep[c] = "send" /\ PxTaken(c)
    /\ PxGoTo(c, "wait")
    /\ UNCHANGED <<pxDry, pxEntries, pxCount, pxOwn, pxMined, pxStatus, pxPast>>

\* The request gives up, by a failed result; a deposit may be under way.
PxGiveUp(c) ==
    /\ pxUnsure' = IF pxKind[c] = "supply" THEN pxUnsure \union {PxMade(c)} ELSE pxUnsure
    /\ PxNextPool(c)
    /\ UNCHANGED <<pxDry, pxCount, pxObject, pxMined, pxStatus, pxTable, pxSimulated,
                   pxRemoved, pxLeft>>

\* Nonce too low, a replacement that pays too little; or the node took the
\* transaction and its answer was lost.
PxSendRaises(c) ==
    /\ pxStep[c] = "send"
    /\ PxTaken(c) \/ UNCHANGED pxPending
    /\ PxGiveUp(c)

\* The receipt of an approval; its status is not looked at.
PxApproved(c) ==
    /\ pxStep[c] = "wait" /\ pxKind[c] # "supply" /\ pxStatus[PxTx(c)] # "none"
    /\ pxNonce' = [pxNonce EXCEPT ![c] = @ + 1]
    /\ \E kind \in {"again", "supply"} \ {pxKind[c]} : pxKind' = [pxKind EXCEPT ![c] = kind]
    /\ PxGoTo(c, "send")
    /\ UNCHANGED <<pxDry, pxEntries, pxCount, pxTodo, pxObject, pxChain, pxPast>>

\* Fault variant: a receipt is taken for a success.
PxReceiptAnyStatus(c) ==
    /\ pxStep[c] = "wait" /\ pxKind[c] = "supply" /\ pxStatus[PxTx(c)] # "none"
    /\ PxRecord(c)
    /\ PxNextPool(c)
    /\ UNCHANGED <<pxDry, pxCount, pxObject, pxChain, pxSimulated, pxRemoved, pxUnsure, pxLeft>>

\* The receipt of the deposit: an entry if it succeeded, else a failed result.
PxReceipt(c) ==
    /\ pxStep[c] = "wait" /\ pxKind[c] = "supply" /\ pxStatus[PxTx(c)] # "none"
    /\ IF pxStatus[PxTx(c)] = "ok" THEN PxRecord(c)
       ELSE UNCHANGED pxTable
    /\ PxNextPool(c)
    /\ UNCHANGED <<pxDry, pxCount, pxObject, pxChain, pxSimulated, pxRemoved, pxUnsure, pxLeft>>

\* No receipt within 120 s, or no node to ask for it: whatever becomes of it.
PxNoReceipt(c) ==
    /\ pxStep[c] = "wait"
    /\ UNCHANGED pxPending
    /\ PxGiveUp(c)

\* The wallet's next transaction is mined.
PxMine ==
    /\ \E x \in pxPending, status \in {"ok", "reverted"} :
          /\ x.nonce = pxMined
          /\ pxPending' = pxPending \ {x}
          /\ pxStatus' = [pxStatus EXCEPT ![x.tx] = status]
    /\ pxMined' = pxMined + 1
    /\ UNCHANGED <<pxDry, pxEntries, pxCount, pxStep, pxOwn, pxPast>>

\* A trade or a payout of the same wallet is mined; what waited with its nonce
\* never is.
PxMineOther ==
    /\ pxMined < PxMaxTxs /\ pxMined' = pxMined + 1
    /\ pxPending' = {x \in pxPending : x.nonce # pxMined}
    /\ UNCHANGED <<pxDry, pxEntries, pxCount, pxStep, pxOwn, pxStatus, pxPast>>
-----------------------------------------------------------------------------
(* exit_pool, the same in dry run and outside it: _execute_exit is a        *)
(* placeholder that calls _simulate_exit, and nothing is withdrawn.        *)

\* The entry is read; without one the call fails.  The gas price is asked.
PxExit(c) ==
    /\ c = pxCount + 1 /\ pxCount' = c
    /\ \E p \in PxPools :
          /\ pxObject' = [pxObject EXCEPT ![c] = pxEntries[p]]
          /\ PxGoTo(c, IF pxEntries[p] = NoEntry THEN "done" ELSE "leaving")
    /\ UNCHANGED <<pxDry, pxEntries, pxTodo, pxNonce, pxKind, pxChain, pxPast>>

PxLeavesEnd(c) ==
    /\ PxGoTo(c, "done")
    /\ pxObject' = [pxObject EXCEPT ![c] = NoEntry]

\* Fault variant: an entry that is gone already is no error.
PxLeaveAgain(c) ==
    /\ pxStep[c] = "leaving"
    /\ LET p == pxObject[c][2] IN
          /\ pxEntries' = [pxEntries EXCEPT ![p] = NoEntry]
          /\ pxRemoved' = pxRemoved \union ({pxEntries[p]} \ {NoEntry})
          /\ pxLeft' = [pxLeft EXCEPT ![pxObject[c]] = @ + 1]
    /\ PxLeavesEnd(c)
    /\ UNCHANGED <<pxDry, pxCount, pxTodo, pxNonce, pxKind, pxChain, pxSimulated, pxRecorded,
                   pxReplaced, pxUnsure, pxOverlapped>>

\* The whole position: the pool's entry goes, whichever it is by now, and the
\* one that was read is counted; KeyError if there is none.
PxLeave(c) ==
    /\ pxStep[c] = "leaving"
    /\ LET p == pxObject[c][2] IN
          IF pxEntries[p] = NoEntry
          THEN UNCHANGED <<pxEntries, pxRemoved, pxLeft>>
          ELSE /\ pxEntries' = [pxEntries EXCEPT ![p] = NoEntry]
               /\ pxRemoved' = pxRemoved \union {pxEntries[p]}
               /\ pxLeft' = [pxLeft EXCEPT ![pxObject[c]] = @ + 1]
    /\ PxLeavesEnd(c)
    /\ UNCHANGED <<pxDry, pxCount, pxTodo, pxNonce, pxKind, pxChain, pxSimulated, pxRecorded,
                   pxReplaced, pxUnsure, pxOverlapped>>

\* A part of it: only the amount of the entry that was read goes down.
PxReduce(c) ==
    /\ pxStep[c] = "leaving"
    /\ PxLeavesEnd(c)
    /\ UNCHANGED <<pxDry, pxEntries, pxCount, pxTodo, pxNonce, pxKind, pxChain, pxPast>>

PxNext ==
    \/ PxMine \/ PxMineOther
    \/ \E c \in PxCalls :
          \/ PxEnter(c) \/ PxSimulateEntry(c) \/ PxCannot(c) \/ PxPrepare(c)
          \/ PxSend(c) \/ PxSendRaises(c) \/ PxApproved(c) \/ PxReceipt(c) \/ PxNoReceipt(c)
          \/ PxExit(c) \/ PxLeave(c) \/ PxReduce(c)

PxTypeOK ==
    /\ pxDry \in BOOLEAN /\ pxCount \in 0 .. PxMaxCalls /\ pxMined \in Nat
    /\ pxEntries \in [PxPools -> PxObjects \union {NoEntry}]
    /\ pxStep \in [PxCalls -> {"none", "gas", "send", "wait", "leaving", "done"}]
    /\ pxTodo \in [PxCalls -> SUBSET PxPools]
    /\ pxObject \in [PxCalls -> PxObjects \union {NoEntry}]
    /\ \A x, y \in pxPending : x.nonce = y.nonce => x = y
    /\ pxStatus \in [PxTxs -> {"none", "ok", "reverted"}]
    /\ pxSimulated \subseteq pxRecorded
    /\ pxRecorded \union pxReplaced \union pxRemoved \union pxUnsure \subseteq PxObjects

OnChain(o)  == pxStatus[<<o, "supply">>] = "ok"
Position(o) == pxEntries[o[2]] = o
PxWaits(o)  == pxStep[o[1]] = "wait" /\ pxKind[o[1]] = "supply" /\ Entering(o[1]) = o[2]

\* The table of positions against the chain: a position that was not simulated
\* had its deposit mined with success; and a deposit on the chain is in the
\* table, but for one whose request still waits or gave up in doubt, one whose
\* place another entry into its pool took, and one an exit took out (outside
\* dry run, too, where it withdraws nothing).
PositionsMatchChain ==
    /\ \A o \in PxObjects \ pxSimulated : Position(o) => OnChain(o)
    /\ \A o \in PxObjects : OnChain(o) =>
          Position(o) \/ PxWaits(o) \/ o \in pxUnsure \union pxReplaced \union pxRemoved

\* pool_executor.py line 1415: "Need to add to this position", of a call of
\* enter_pool: a deposit that was waited for is in the table until an exit
\* takes it out, although its pool is entered again.
EntryAddsToPosition ==
    \A o \in PxObjects : OnChain(o) /\ ~PxWaits(o) /\ o \notin pxUnsure \union pxRemoved => Position(o)

\* However requests overlap, an entry counts once into what was taken out,
\* unless its pool was entered again in the middle of an exit.
PositionLeftOnce == \A o \in PxObjects \ pxOverlapped : pxLeft[o] <= 1
=============================================================================
