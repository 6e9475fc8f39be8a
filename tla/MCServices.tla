----------------------------- MODULE MCServices -----------------------------
(***************************************************************************)
(* Model checking of what the processes share around mining: the Stratum   *)
(* connection, the lists of liquidity pools and their analysis, the RPC    *)
(* endpoints, the settings, what the agent learns, and its start-up.  They *)
(* share no variable, so a behaviour moves one of them, chosen at the      *)
(* start, and leaves the others as they begin.                             *)
(***************************************************************************)
EXTENDS Stratum, PoolSources, PoolAnalysis, RpcManager, Settings, Brain, AgentStart, MiningAdvice

VARIABLE part    \* the component that moves

otherVars == <<psVars, paVars, rpVars, seVars, brVars, agVars, maVars>>
serviceVars == <<part, vars, otherVars>>

ServicesInit ==
    /\ part \in {"stratum", "sources", "analysis", "rpc", "settings", "brain", "start", "advice"}
    /\ Init /\ PsInit /\ PaInit /\ RpInit /\ SeInit /\ BrInit /\ AgInit /\ MaInit
    /\ part # "rpc" => rpUp = RpEndpoints
    /\ part # "settings" => seReach
    /\ part # "advice" => maIntensity = 80 /\ maProfile = MaNone
    /\ part # "start" => agRole = "web"

ServicesNext ==
    /\ UNCHANGED part
    /\ \/ part = "stratum" /\ Next /\ UNCHANGED otherVars
       \/ part = "sources" /\ PsNext /\ UNCHANGED <<vars, paVars, rpVars, seVars, brVars, agVars, maVars>>
       \/ part = "analysis" /\ PaNext /\ UNCHANGED <<vars, psVars, rpVars, seVars, brVars, agVars, maVars>>
       \/ part = "rpc" /\ RpNext /\ UNCHANGED <<vars, psVars, paVars, seVars, brVars, agVars, maVars>>
       \/ part = "settings" /\ SeNext /\ UNCHANGED <<vars, psVars, paVars, rpVars, brVars, agVars, maVars>>
       \/ part = "brain" /\ BrNext /\ UNCHANGED <<vars, psVars, paVars, rpVars, seVars, agVars, maVars>>
       \/ part = "start" /\ AgNext /\ UNCHANGED <<vars, psVars, paVars, rpVars, seVars, brVars, maVars>>
       \/ part = "advice" /\ MaNext /\ UNCHANGED <<vars, psVars, paVars, rpVars, seVars, brVars, agVars>>

ServicesSpec == ServicesInit /\ [][ServicesNext]_serviceVars

\* The types of the component that moves.
ServicesTypeOK ==
    /\ part = "stratum" => TypeOK
    /\ part = "sources" => PsTypeOK
    /\ part = "analysis" => PaTypeOK
    /\ part = "rpc" => RpTypeOK
    /\ part = "settings" => SeTypeOK
    /\ part = "brain" => BrTypeOK
    /\ part = "start" => AgTypeOK
    /\ part = "advice" => MaTypeOK

-----------------------------------------------------------------------------
\* Constants of the instance: pool 4 is a second pool of protocol and tier 3,
\* pool 1 is alone on its chain and loses nothing to price moves.
MCProtocol == [p \in PaPools |-> IF p = 4 THEN 3 ELSE p]
MCTier == MCProtocol
MCChain == [p \in PaPools |-> IF p = 1 THEN 1 ELSE 2]
MCIl == [p \in PaPools |-> IF p = 1 THEN 0 ELSE 700]
MCMetrics == {[apy |-> 60, tvl |-> 8, wild |-> FALSE], [apy |-> 5, tvl |-> 6, wild |-> TRUE],
              [apy |-> 0, tvl |-> 7, wild |-> FALSE]}
MCProfit == [o \in BrOpps |-> 100 * o]
=============================================================================
