---------------------------- MODULE PoolAnalysis ----------------------------
(***************************************************************************)
(* The AI inference service's pool analyser and optimiser                  *)
(* (nexus/learning/pool_analyzer.py, pool_optimizer.py): a thread fetches, *)
(* scores and ranks the pools; requests ask for an allocation of capital.  *)
(* They copy the table under the analyser's lock and compute on the copy.  *)
(* Scores and risks are in thousandths, and a pool's value is its power of *)
(* ten; its history is wild or calm, and its value neither grows nor       *)
(* shrinks.  Shares and weights are floats in the code: here a share is in *)
(* 1/60000 of the capital, so that none is rounded before it becomes an    *)
(* amount of money, which the code rounds to cents.  The percentages shown *)
(* beside the amounts are left out, and so are entries and exits recorded  *)
(* with the optimiser: no code records any.                                *)
(***************************************************************************)
EXTENDS Integers, SequencesExt

CONSTANTS
    PaPools,
    PaProtocol, PaChain,   \* of each pool
    PaTier,                \* CHAIN_RISK_TIERS, by pool
    PaIlRisk,              \* _estimate_il_risk of each pool; 0: stablecoins
    PaMetrics,             \* the figures a pool may have: apy, tvl, wild; no
                           \* apy is below zero
    PaCapitals,            \* what a request has to allocate, in cents
    PaMaxPools             \* max_pools of a request

ASSUME PaAssumption ==
    /\ IsFiniteSet(PaPools)
    /\ PaTier \in [PaPools -> 1 .. 3] /\ PaIlRisk \in [PaPools -> 0 .. 1000]
    /\ PaMetrics \subseteq [apy : Nat, tvl : Nat, wild : BOOLEAN]
    /\ PaCapitals \subseteq Nat \ {0}

VARIABLES
    paTable,    \* _pools: the metrics of each pool of the last refresh
    paUp,       \* the analyser runs: "off", "first" fetch, "on"
    paAnswer,   \* the last answer: its kind, and the amount in each pool out of
                \* the capital
    paRows      \* the shares it added to allocation_history

paVars == <<paTable, paUp, paAnswer, paRows>>

PaTables == UNION {[P -> PaMetrics] : P \in SUBSET PaPools}
EmptyTable == [p \in {} |-> 0]
Strategies == {"max_yield", "risk_adjusted", "conservative", "balanced", "gas_efficient"}
All == 60000
NoShares == [p \in {} |-> 0]
Answer(kind, capital, amounts) == [kind |-> kind, capital |-> capital, amounts |-> amounts]
NoAnswer == Answer("none", 0, NoShares)
Failed   == Answer("failed", 0, NoShares)   \* an exception, or NaN

Least(a, b) == IF a < b THEN a ELSE b
Total(shares) == FoldFunction(+, 0, shares)

\* round(amount, 2): the nearest cent.  (Of two as near, the code takes the one
\* that the float lies closer to, the model the larger.)
Rounded(num, den) == (num + den \div 2) \div den

\* The capital by parts of a whole, each amount rounded for itself.
Amounts(parts, whole, capital) ==
    [p \in DOMAIN parts |-> Rounded(capital * parts[p], whole)]

-----------------------------------------------------------------------------
\* _compute_risk_score, with the placeholders for age and audit.
Risk(p) ==
    LET m == paTable[p]
        ofValue == IF m.tvl >= 8 THEN 100 ELSE IF m.tvl = 7 THEN 300
                   ELSE IF m.tvl = 6 THEN 500 ELSE 800
        ofHistory == IF m.wild THEN 1000 ELSE 0
    IN (20 * ofValue + 30 * 300 + 20 * PaIlRisk[p] + 15 * ofHistory
        + 15 * 300 * (PaTier[p] - 1)) \div 100

\* _compute_composite_score: it runs before the risk is known and divides by
\* the default of PoolMetrics, 0.5.
Composite(p) ==
    LET m == paTable[p]
    IN Least(1000, (m.apy * 50) \div 3 + Least(200, 20 * m.tvl)
                   + (IF m.wild THEN 0 ELSE 100) + (IF PaIlRisk[p] = 0 THEN 150 ELSE 0))

\* get_top_pools: at least $500,000, not too risky, best score first.  Pools
\* of one score keep the order of the table, which is that of the sources.
TopPools(maxRisk) ==
    LET pools == {p \in DOMAIN paTable : paTable[p].tvl >= 6 /\ Risk(p) <= maxRisk}
    IN {top \in SetToSeqs(pools) :
          \A i, j \in DOMAIN top : i < j => Composite(top[i]) >= Composite(top[j])}

\* recommend_allocation, one pool after the other: the shares, what is left
\* of the capital, and the protocols and chains used.
NothingYet == [shares |-> NoShares, left |-> All, protocols |-> {}, chains |-> {}]
Base(done, p) ==
    LET full == Least(24000, 30 * Composite(p))
        once == IF PaProtocol[p] \in done.protocols THEN full \div 2 ELSE full
    IN IF PaChain[p] \in done.chains THEN (once * 4) \div 5 ELSE once
Given(done, p, pct) ==
    [shares |-> [q \in DOMAIN done.shares \cup {p} |-> IF q = p THEN pct ELSE done.shares[q]],
     left |-> done.left - pct,
     protocols |-> done.protocols \cup {PaProtocol[p]},
     chains |-> done.chains \cup {PaChain[p]}]

\* Fault variant: a pool gets its share whatever is left.
PaTakeOverdrawn(done, p) == Given(done, p, Base(done, p))

PaTake(done, p) ==
    LET pct == Least(Base(done, p), done.left)
    IN IF \/ Cardinality(DOMAIN done.shares) >= PaMaxPools
          \/ PaProtocol[p] \in done.protocols /\ Cardinality(done.protocols) < 3
          \/ pct < 3000
       THEN done ELSE Given(done, p, pct)

MaxRisk(strategy) ==
    CASE strategy = "max_yield" -> 850
      [] strategy = "conservative" -> 400
      [] OTHER -> 600
Recommended(top) == FoldLeft(PaTake, NothingYet, top).shares

\* The first of the pools, each with the share of its rank.
Restacked(shares, before, parts) ==
    LET rank(p) == 1 + Cardinality({q \in DOMAIN shares : <<q, p>> \in before})
    IN [p \in {q \in DOMAIN shares : rank(q) <= Len(parts)} |-> parts[rank(p)]]

\* _optimize_for_yield: 50 %, then half and a quarter of what is left.  The
\* sort is stable: pools of one yield stay in the order they come in.
Ahead(top, p, q) == \E i, j \in DOMAIN top : i < j /\ top[i] = p /\ top[j] = q
ForYield(top, shares) ==
    LET before == {pair \in (DOMAIN shares) \X (DOMAIN shares) :
                     \/ paTable[pair[1]].apy > paTable[pair[2]].apy
                     \/ paTable[pair[1]].apy = paTable[pair[2]].apy /\ Ahead(top, pair[1], pair[2])}
    IN Restacked(shares, before, <<30000, 15000, 3750>>)

\* _optimize_for_gas: a third each, by yield per relative cost of the chain.
\* Two equal ones cannot be sorted: what is compared next has no order.
ChainCost(p) == IF PaTier[p] = 1 THEN 30 ELSE IF PaTier[p] = 2 THEN 1 ELSE 5
Efficiency(p) == (paTable[p].apy * 30) \div ChainCost(p)
Unsortable(shares) == \E p, q \in DOMAIN shares : p # q /\ Efficiency(p) = Efficiency(q)
ForGas(shares) ==
    LET before == {pair \in (DOMAIN shares) \X (DOMAIN shares) :
                     Efficiency(pair[1]) > Efficiency(pair[2])}
    IN Restacked(shares, before, <<20000, 20000, 20000>>)

\* _optimize_for_safety: equal shares of those with a low risk, or with a
\* medium one if there are none.
ForSafety(shares) ==
    LET below(limit) == {p \in DOMAIN shares : Risk(p) < limit}
        safe == IF below(300) # {} THEN below(300) ELSE below(600)
    IN [p \in safe |-> 1]

\* The shares by strategy, and what they are parts of.
Adjusted(strategy, top, shares) ==
    CASE strategy = "max_yield" -> ForYield(top, shares)
      [] strategy = "gas_efficient" -> ForGas(shares)
      [] strategy = "conservative" -> ForSafety(shares)
      [] OTHER -> shares
Whole(strategy, shares) ==
    IF strategy = "conservative" THEN Cardinality(DOMAIN shares) ELSE All

-----------------------------------------------------------------------------
\* _mean_variance_optimization: weights by yield over risk, none below 5 %
\* before they are scaled to one: in proportion here, for whoever divides them
\* by their total.  Several pools without any yield have none.
NoYield(pools) == Cardinality(pools) > 1 /\ \A p \in pools : paTable[p].apy = 0
Weights(pools) ==
    LET sharpe == [p \in pools |-> (paTable[p].apy * 3000) \div
                      (Risk(p) + (IF paTable[p].wild THEN 1000 ELSE 0) + 100)]
        sum == Total(sharpe)
    IN IF Cardinality(pools) = 1 THEN [p \in pools |-> 1]
       ELSE [p \in pools |-> IF 20 * sharpe[p] < sum THEN sum ELSE 20 * sharpe[p]]

\* optimize_profit_split: each at most 40 %, none under $50, in whole cents;
\* when more than 5 % is left over the amounts are scaled up, past the 40 %.
FirstSplit(pools, capital) ==
    LET weights == Weights(pools)
        one == Total(weights)
        capped == [p \in pools |-> Least(2 * one, 5 * weights[p])]
        large == {p \in pools : capital * capped[p] >= 5000 * (5 * one)}
    IN Amounts([p \in large |-> capped[p]], 5 * one, capital)
Split(pools, capital) ==
    LET kept == FirstSplit(pools, capital)
    IN IF DOMAIN kept = {} \/ 20 * Total(kept) >= 19 * capital THEN kept
       ELSE Amounts(kept, Total(kept), capital)

-----------------------------------------------------------------------------
PaInit ==
    /\ paTable = EmptyTable
    /\ paUp = "off"
    /\ paAnswer = NoAnswer /\ paRows = NoShares

\* PoolAnalyzer.start: it fetches once itself, and its thread at once again.
PaStart ==
    /\ paUp = "off" /\ paUp' = "first"
    /\ UNCHANGED <<paTable, paAnswer, paRows>>

\* _refresh_pools, or DeFi Llama alone when that fails: any pools of the
\* known chains with any figures; or both fail and the table stays.  Table
\* and rankings change under the lock.  The answer has left by then.
PaRefresh ==
    /\ paUp # "off" /\ paUp' = "on"
    /\ paTable' \in PaTables \cup {paTable}
    /\ paAnswer' = NoAnswer /\ paRows' = NoShares

\* get_optimal_allocation: what is recorded for learning is the base
\* allocation, before the strategy changes it, or fails to.
PaAllocate(strategy, capital) ==
    /\ paUp = "on"
    /\ \E top \in TopPools(MaxRisk(strategy)) :
          /\ paRows' = Recommended(top)
          /\ LET shares == Adjusted(strategy, top, paRows')
             IN paAnswer' =
                  IF strategy = "gas_efficient" /\ Unsortable(paRows') THEN Failed
                  ELSE Answer(strategy, capital, Amounts(shares, Whole(strategy, shares), capital))
    /\ UNCHANGED <<paTable, paUp>>

\* optimize_profit_split for the pools a request names.  It reads them one by
\* one; with a refresh in between it has the figures of some other table.
PaSplit(pools, capital) ==
    /\ paUp = "on"
    /\ LET known == pools \cap DOMAIN paTable
       IN paAnswer' = IF NoYield(known) THEN Failed
                      ELSE Answer("split", capital, Split(known, capital))
    /\ paRows' = NoShares
    /\ UNCHANGED <<paTable, paUp>>

\* get_optimization_decision: all of it into the best pool unless gas is
\* more than 2 % of the capital; gas is in gwei, a cheap one never too much.
AllIn(top, capital, gas, cheap) ==
    IF top = <<>> \/ (~cheap /\ 3000 * gas > capital) THEN NoShares ELSE [p \in {top[1]} |-> capital]
PaDecide(capital, gas, cheap) ==
    /\ paUp = "on"
    /\ \E top \in TopPools(800) :
          paAnswer' = Answer("decision", capital, AllIn(top, capital, gas, cheap))
    /\ paRows' = NoShares
    /\ UNCHANGED <<paTable, paUp>>

PaNext ==
    \/ PaStart \/ PaRefresh
    \/ \E strategy \in Strategies, capital \in PaCapitals : PaAllocate(strategy, capital)
    \/ \E pools \in SUBSET PaPools, capital \in PaCapitals : PaSplit(pools, capital)
    \/ \E capital \in PaCapitals, gas \in {5, 200}, cheap \in BOOLEAN : PaDecide(capital, gas, cheap)

PaSpec == PaInit /\ [][PaNext]_paVars

-----------------------------------------------------------------------------
\* The types of the tables and of an answer.
PaTypeOK ==
    /\ paTable \in PaTables
    /\ paUp \in {"off", "first", "on"}
    /\ paAnswer.capital \in PaCapitals \cup {0}
    /\ DOMAIN paAnswer.amounts \subseteq PaPools
    /\ \A p \in DOMAIN paAnswer.amounts : paAnswer.amounts[p] \in Nat
    /\ DOMAIN paRows \subseteq PaPools /\ \A p \in DOMAIN paRows : paRows[p] \in Nat /\ paRows[p] <= All

\* Whatever the sources report, the shares recorded are no more than the
\* capital, and the amounts of an answer are more than it only by what rounding
\* each of them to the cent can add: half a cent for every pool.
AllocationFits ==
    /\ 2 * Total(paAnswer.amounts) <= 2 * paAnswer.capital + Cardinality(DOMAIN paAnswer.amounts)
    /\ Total(paRows) <= All

\* "Allocation constraints (min/max per pool)" (optimize_profit_split): no pool
\* of a split has more than its 40 %.  (The code scales the capped amounts up
\* until they use the whole capital.)
SplitKeepsCap ==
    paAnswer.kind = "split" =>
        \A p \in DOMAIN paAnswer.amounts : 5 * paAnswer.amounts[p] <= 2 * paAnswer.capital
=============================================================================
