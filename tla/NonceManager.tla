---------------------------- MODULE NonceManager ----------------------------
(***************************************************************************)
(* NonceManager (nexus/execution/nonce_manager.py) for one wallet on one   *)
(* chain, used by several threads the way its usage note prescribes:       *)
(* next, send, and on "nonce too low" sync and try again.                  *)
(*                                                                         *)
(* The node is external: it keeps the set of nonces it has accepted and    *)
(* answers get_transaction_count(.., "pending") with the length of the     *)
(* gap-free prefix.  The executor and the payout manager send from the     *)
(* same wallet without asking the manager (Outside).                       *)
(***************************************************************************)
EXTENDS Integers, FiniteSets

CONSTANTS
  Senders,      \* threads that send through the manager, one transaction each
  Unset,        \* the key is not in _nonces yet, or a local holds nothing
  MaxOutside    \* bound: transactions sent past the manager

ASSUME NonceAssumption ==
  /\ Unset \notin Nat
  /\ MaxOutside \in Nat

VARIABLES
  nonces,       \* self._nonces[key]
  accepted,     \* nonces the node holds a transaction for
  outside,      \* how many transactions went past the manager
  nmPc,         \* where each sender is
  nmNonce,      \* the nonce each sender holds
  onChain,      \* on_chain, local of sync
  synced        \* history: some sync has overwritten the counter

nmVars == <<nonces, accepted, outside, nmPc, nmNonce, onChain, synced>>

\* What the node answers: the length of the gap-free prefix of accepted nonces.
PendingCounts ==
  {n \in 0 .. Cardinality(accepted) :
     n \notin accepted /\ \A m \in 0 .. (n - 1) : m \in accepted}

NmInit ==
  /\ nonces = Unset
  /\ accepted = {}
  /\ outside = 0
  /\ nmPc = [s \in Senders |-> "idle"]
  /\ nmNonce = [s \in Senders |-> Unset]
  /\ onChain = [s \in Senders |-> Unset]
  /\ synced = FALSE

\* The counter next() starts from: the cached value, else the node's answer.
\* The lock is held across that read, and nobody holds a nonce before it.
StartValues == IF nonces = Unset THEN PendingCounts ELSE {nonces}

\* Fault variant: next() returns the counter without moving it.
NextNonceNoIncrement(s) ==
  /\ nmPc[s] = "idle"
  /\ \E n \in StartValues :
       /\ nmNonce' = [nmNonce EXCEPT ![s] = n]
       /\ nonces' = n
  /\ nmPc' = [nmPc EXCEPT ![s] = "holding"]
  /\ UNCHANGED <<accepted, outside, onChain, synced>>

\* next(): one critical section.
NextNonce(s) ==
  /\ nmPc[s] = "idle"
  /\ \E n \in StartValues :
       /\ nmNonce' = [nmNonce EXCEPT ![s] = n]
       /\ nonces' = n + 1
  /\ nmPc' = [nmPc EXCEPT ![s] = "holding"]
  /\ UNCHANGED <<accepted, outside, onChain, synced>>

\* send_tx(nonce): the node takes it ...
SendAccepted(s) ==
  /\ nmPc[s] = "holding"
  /\ nmNonce[s] \notin accepted
  /\ accepted' = accepted \union {nmNonce[s]}
  /\ nmNonce' = [nmNonce EXCEPT ![s] = Unset]
  /\ nmPc' = [nmPc EXCEPT ![s] = "sent"]
  /\ UNCHANGED <<nonces, outside, onChain, synced>>

\* Fault variant: the nonce the node refused is kept across the retry.
SendTooLowKept(s) ==
  /\ nmPc[s] = "holding"
  /\ nmNonce[s] \in accepted
  /\ nmPc' = [nmPc EXCEPT ![s] = "sync"]
  /\ UNCHANGED <<nonces, accepted, outside, nmNonce, onChain, synced>>

\* ... or answers "nonce too low", and the caller turns to sync ...
SendTooLow(s) ==
  /\ nmPc[s] = "holding"
  /\ nmNonce[s] \in accepted
  /\ nmNonce' = [nmNonce EXCEPT ![s] = Unset]
  /\ nmPc' = [nmPc EXCEPT ![s] = "sync"]
  /\ UNCHANGED <<nonces, accepted, outside, onChain, synced>>

\* ... or the send fails for another reason; the manager has no call that
\* gives the nonce back.
SendFailed(s) ==
  /\ nmPc[s] = "holding"
  /\ nmNonce' = [nmNonce EXCEPT ![s] = Unset]
  /\ nmPc' = [nmPc EXCEPT ![s] = "failed"]
  /\ UNCHANGED <<nonces, accepted, outside, onChain, synced>>

\* Fault variant: the count is asked without "pending", so transactions that
\* are accepted but not mined (here: all of them) are not counted.
SyncReadLatest(s) ==
  /\ nmPc[s] = "sync"
  /\ onChain' = [onChain EXCEPT ![s] = 0]
  /\ nmPc' = [nmPc EXCEPT ![s] = "syncWrite"]
  /\ UNCHANGED <<nonces, accepted, outside, nmNonce, synced>>

\* sync(): the node is asked before the lock is taken ...
SyncRead(s) ==
  /\ nmPc[s] = "sync"
  /\ \E n \in PendingCounts : onChain' = [onChain EXCEPT ![s] = n]
  /\ nmPc' = [nmPc EXCEPT ![s] = "syncWrite"]
  /\ UNCHANGED <<nonces, accepted, outside, nmNonce, synced>>

\* ... and the counter overwritten under it, whatever was handed out meanwhile.
SyncWrite(s) ==
  /\ nmPc[s] = "syncWrite"
  /\ nonces' = onChain[s]
  /\ onChain' = [onChain EXCEPT ![s] = Unset]
  /\ nmPc' = [nmPc EXCEPT ![s] = "idle"]
  /\ synced' = TRUE
  /\ UNCHANGED <<accepted, outside, nmNonce>>

\* A payout or an executor transaction of the same wallet.
Outside ==
  /\ outside < MaxOutside
  /\ \E n \in PendingCounts : accepted' = accepted \union {n}
  /\ outside' = outside + 1
  /\ UNCHANGED <<nonces, nmPc, nmNonce, onChain, synced>>

NmNext ==
  \/ \E s \in Senders :
       \/ NextNonce(s) \/ SyncRead(s) \/ SyncWrite(s)
       \/ SendAccepted(s) \/ SendTooLow(s) \/ SendFailed(s)
  \/ Outside

\* Each sender is a thread that keeps running; nothing obliges a send to fail
\* or another component to send.
SenderStep(s) ==
  NextNonce(s) \/ SyncRead(s) \/ SyncWrite(s) \/ SendAccepted(s) \/ SendTooLow(s)

NmSpec == NmInit /\ [][NmNext]_nmVars /\ \A s \in Senders : WF_nmVars(SenderStep(s))
-----------------------------------------------------------------------------
\* Types; a local holds a number exactly where its thread still needs it.
NmTypeOK ==
  /\ nonces \in Nat \union {Unset}
  /\ accepted \subseteq Nat
  /\ outside \in 0 .. MaxOutside
  /\ nmPc \in [Senders -> {"idle", "holding", "sent", "failed", "sync", "syncWrite"}]
  /\ nmNonce \in [Senders -> Nat \union {Unset}]
  /\ onChain \in [Senders -> Nat \union {Unset}]
  /\ \A s \in Senders : /\ nmPc[s] = "holding" <=> nmNonce[s] # Unset
                        /\ nmPc[s] = "syncWrite" <=> onChain[s] # Unset
  /\ synced \in BOOLEAN

Holding == {s \in Senders : nmPc[s] = "holding"}

\* As long as no sync has overwritten the counter, two threads never hold the
\* same nonce, however their calls interleave with each other and with the
\* transactions that go past the manager.
DistinctUntilSync ==
  ~synced => \A s, t \in Holding : s # t => nmNonce[s] # nmNonce[t]

\* A thread that keeps retrying after "nonce too low" has come to its end when
\* its transaction is accepted or meets another failure.
Settled(s) == nmPc[s] \in {"sent", "failed"}
=============================================================================
