----------------------------- MODULE ShareLedger -----------------------------
(***************************************************************************)
(* What a stratum client promises about its share counters: every share    *)
(* that counts as submitted is on its way or has been settled exactly      *)
(* once, as accepted or as rejected, and only a share the pool took is     *)
(* counted as accepted.                                                    *)
(***************************************************************************)
EXTENDS Integers

VARIABLES
  open,       \* shares whose submit_share call has not returned
  taken,      \* shares the pool has taken
  submitted, accepted, rejected

ledger == <<open, taken, submitted, accepted, rejected>>

LedgerInit == open = 0 /\ taken = 0 /\ submitted = 0 /\ accepted = 0 /\ rejected = 0

\* A share is found and sent, or found when it cannot be sent.
Offer ==
  /\ submitted' = submitted + 1
  /\ \/ open' = open + 1 /\ UNCHANGED rejected
     \/ rejected' = rejected + 1 /\ UNCHANGED open
  /\ UNCHANGED <<taken, accepted>>

\* The pool takes a share; the client may have stopped waiting for it.
Take ==
  /\ taken < submitted
  /\ taken' = taken + 1
  /\ UNCHANGED <<open, submitted, accepted, rejected>>

\* A call returns: accepted only if the pool has taken a share that no other
\* call has been credited with.
Settle ==
  /\ open > 0
  /\ open' = open - 1
  /\ \/ accepted < taken /\ accepted' = accepted + 1 /\ UNCHANGED rejected
     \/ rejected' = rejected + 1 /\ UNCHANGED accepted
  /\ UNCHANGED <<taken, submitted>>

LedgerNext == Offer \/ Take \/ Settle

LedgerSpec == LedgerInit /\ [][LedgerNext]_ledger
=============================================================================
