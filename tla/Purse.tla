-------------------------------- MODULE Purse --------------------------------
(***************************************************************************)
(* What a payout manager promises of the profit it collects: the balance   *)
(* is handed over as a whole, once, for one payment; a payment is settled  *)
(* once and its dollars are counted then; and its money leaves by one way, *)
(* except by ways that were given up in doubt.                             *)
(***************************************************************************)
EXTENDS Naturals

CONSTANTS Payments, Ways,
          Limit      \* the balance at which a payment is due

VARIABLES
  balance,   \* dollars that belong to no payment yet
  usd,       \* the dollars of each payment
  fate,      \* "none", "out", or what became of it: "sent", "failed", "lost"
  gone,      \* the ways by which its money really left
  doubts,    \* the ways given up without knowing whether it left
  paid       \* dollars counted as paid

purse == <<balance, usd, fate, gone, doubts, paid>>

PurseInit ==
  /\ balance = 0 /\ paid = 0
  /\ usd = [p \in Payments |-> 0]
  /\ fate = [p \in Payments |-> "none"]
  /\ gone = [p \in Payments |-> {}]
  /\ doubts = [p \in Payments |-> {}]

\* Profit comes in, and stays as long as no payment is due.
Collect ==
  /\ \E profit \in 1 .. Limit :
       balance + profit < Limit /\ balance' = balance + profit
  /\ UNCHANGED <<usd, fate, gone, doubts, paid>>

\* A new payment takes the balance and the profit that comes with it.
Take(p, profit) ==
  /\ fate[p] = "none"
  /\ fate' = [fate EXCEPT ![p] = "out"]
  /\ usd' = [usd EXCEPT ![p] = balance + profit]
  /\ balance' = 0
  /\ UNCHANGED <<gone, doubts, paid>>

\* A payment is due, or is asked for.
HandOver ==
  \E p \in Payments :
    \/ \E profit \in 1 .. Limit : balance + profit >= Limit /\ Take(p, profit)
    \/ balance > 0 /\ Take(p, 0)

\* As far as anybody can know, the money of p has not left.
AtHome(p) == gone[p] \subseteq doubts[p]

\* The money of p leaves by w: while p is out and at home, or by a way that is
\* in doubt, at any time.
Leave(p, w) ==
  /\ w \notin gone[p]
  /\ \/ fate[p] = "out" /\ AtHome(p)
     \/ w \in doubts[p]
  /\ gone' = [gone EXCEPT ![p] = @ \union {w}]
  /\ UNCHANGED <<balance, usd, fate, doubts, paid>>

\* A way is given up without knowing its outcome.
Doubt(p, w) ==
  /\ fate[p] = "out"
  /\ doubts' = [doubts EXCEPT ![p] = @ \union {w}]
  /\ UNCHANGED <<balance, usd, fate, gone, paid>>

\* The payment comes to its end: it was answered for, and counts as paid; or it
\* was not, or nobody is left to say, and then its money is at home.
Settle(p) ==
  /\ fate[p] = "out"
  /\ \/ /\ fate' = [fate EXCEPT ![p] = "sent"]
        /\ paid' = paid + usd[p]
     \/ /\ AtHome(p)
        /\ \E end \in {"failed", "lost"} : fate' = [fate EXCEPT ![p] = end]
        /\ UNCHANGED paid
  /\ UNCHANGED <<balance, usd, gone, doubts>>

\* A step changes something: giving up a way twice does not.
PurseNext ==
  /\ purse' # purse
  /\ \/ Collect \/ HandOver
     \/ \E p \in Payments : Settle(p) \/ \E w \in Ways : Leave(p, w) \/ Doubt(p, w)

PurseSpec == PurseInit /\ [][PurseNext]_purse
-----------------------------------------------------------------------------
\* The money of a payment leaves by at most one way that is not in doubt, and
\* by none if the payment failed or was lost.
LeavesOnce ==
  \A p \in Payments :
    /\ \A v, w \in gone[p] \ doubts[p] : v = w
    /\ fate[p] \in {"none", "failed", "lost"} => AtHome(p)
=============================================================================
