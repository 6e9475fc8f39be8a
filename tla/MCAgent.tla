------------------------------ MODULE MCAgent ------------------------------
(***************************************************************************)
(* Model checking of what the agent sets going: the mining session, the    *)
(* watch for new blocks with its scans, and a trade from its opportunity   *)
(* to its record with the nonces of the wallet.  They share no variable,   *)
(* so a behaviour moves one of the four, chosen at the start, and leaves   *)
(* the others as they begin.                                               *)
(***************************************************************************)
EXTENDS PowMining, BlockWatch, NonceManager, TradeFlow

VARIABLE part    \* the component that moves

agentVars == <<part, vars, bwVars, nmVars, tfVars>>

AgentInit ==
    /\ part \in {"session", "watch", "nonces", "trades"}
    /\ Init /\ BwInit /\ NmInit /\ TfInit
    /\ part # "session" => ~(dryRun \/ hasGpu \/ realCompute)
    /\ part # "watch" => \A c \in Chains, e \in Endpoints : state[c][e] = "up"

AgentNext ==
    /\ UNCHANGED part
    /\ \/ part = "session" /\ Next /\ UNCHANGED <<bwVars, nmVars, tfVars>>
       \/ part = "watch" /\ BwNext /\ UNCHANGED <<vars, nmVars, tfVars>>
       \/ part = "nonces" /\ NmNext /\ UNCHANGED <<vars, bwVars, tfVars>>
       \/ part = "trades" /\ TfNext /\ UNCHANGED <<vars, bwVars, nmVars>>

\* The fairness of each.  The conditions name the component that moves: of the
\* others no step is asked.
AgentFairness ==
    /\ WF_vars(part = "session" /\ Construct)
    /\ \A t \in Threads : WF_vars(part = "session" /\ Inside(t))
    /\ WF_bwVars(part = "watch" /\ PollerStep)
    /\ WF_bwVars(part = "watch" /\ StartMonitor)
    /\ WF_bwVars(part = "watch" /\ (StopMonitor \/ StopChains))
    /\ \A t \in ScanThreads : WF_bwVars(part = "watch" /\ ScanStep(t))
    /\ \A s \in Senders : WF_nmVars(part = "nonces" /\ SenderStep(s))
    /\ TfFairness

AgentSpec == AgentInit /\ [][AgentNext]_agentVars /\ AgentFairness

\* The types of the components.
AgentTypeOK == TypeOK /\ BwTypeOK /\ NmTypeOK /\ TfTypeOK

\* Every call of the session returns, where the session moves.
SessionCallsReturn == \A t \in Users \union {Boot} : []<>(part = "session" => Returned(t))

\* Where transactions are sent, every sender's retries come to an end, and what
\* the scheduler has queued goes out or expires.
SendsSettle ==
    /\ \A s \in Senders : []<>(part = "nonces" => Settled(s))
    /\ TradeSettles

\* While the poller runs, a chain whose first reachable endpoint works is
\* connected to a working endpoint and up to date again, however its endpoints
\* fail and come back, by reconnection or by the retry rounds; and as long as
\* the monitor runs it scans, with blocks or without.
WatchGoesOn ==
    /\ \A c \in Chains : []<>(part = "watch" => ~Behind(c))
    /\ []<>(part = "watch" => Scanning)
=============================================================================
