------------------------------ MODULE MCMoney ------------------------------
(***************************************************************************)
(* Model checking of what moves money on its own thread: the payouts and   *)
(* the entries into liquidity pools.  They share the wallet, whose other   *)
(* transactions each module has in its environment, and no variable, so a  *)
(* behaviour moves one of them, chosen at the start.                       *)
(***************************************************************************)
EXTENDS Payout, PoolExecutor

VARIABLE part    \* the component that moves

moneyVars == <<part, vars, pxVars>>

MoneyInit ==
    /\ part \in {"payout", "pools"}
    /\ Init /\ PxInit
    /\ config.lightning => config.node   \* a node may fail to pay, as none does
    /\ part # "payout" => config = [r \in DOMAIN config |-> FALSE]
    /\ part # "pools" => ~pxDry

MoneyNext ==
    /\ UNCHANGED part
    /\ \/ part = "payout" /\ Next /\ UNCHANGED pxVars
       \/ part = "pools" /\ PxNext /\ UNCHANGED vars

MoneySpec == MoneyInit /\ [][MoneyNext]_moneyVars

\* The types of both components.
MoneyTypeOK == TypeOK /\ PxTypeOK
\* The positions are true: they are those on the chain, and each is counted
\* once into what was taken out.
PositionsAreTrue == PositionsMatchChain /\ PositionLeftOnce
=============================================================================
