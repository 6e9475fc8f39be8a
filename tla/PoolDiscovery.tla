---------------------------- MODULE PoolDiscovery ----------------------------
(***************************************************************************)
(* MiningPoolDiscovery (nexus/strategies/mining_pool_discovery.py): the    *)
(* table of pools, the update loop that checks them in rounds and selects  *)
(* one, and the handlers of /api/mining/pools/* that refresh, add, remove  *)
(* and select pools meanwhile.                                             *)
(*                                                                         *)
(* The server runs green threads: a step goes from one blocking call (the  *)
(* price request, the connection to a pool, the loop's sleep) to the next. *)
(* A round walks over the dictionary without the lock, so a call that      *)
(* changes its size in between makes the walk raise.                       *)
(***************************************************************************)
EXTENDS Integers, FiniteSets

CONSTANTS
  KnownPools, Custom,  \* pools built in, pools a user may add, by id
  Rich, Slow,          \* pools that earn twice the others, that answer slowly
  Priced,              \* pools whose coin has a price
  Groups,              \* the pools by algorithm
  Users,               \* threads that serve requests
  Loop,                \* the thread of _update_loop
  None,
  MaxCalls,            \* bound: calls of users
  MaxFlips             \* bound: times a pool starts or stops answering

Ids == KnownPools \union Custom
Threads == Users \union {Loop}

\* A MiningPool: a pool added again under its id is another object.
Objects == Ids \X (1 .. MaxCalls + 1)

ASSUME PoolDiscoveryAssumption ==
  /\ IsFiniteSet(Ids) /\ KnownPools \intersect Custom = {}
  /\ UNION Groups = Ids
  /\ Loop \notin Users /\ None \notin Objects
  /\ MaxCalls \in Nat /\ MaxFlips \in Nat

VARIABLES
  table,        \* _pools: the object listed under an id, or None
  made,         \* objects made for an id
  status,       \* fields of the objects: status,
  checked,      \*   last_checked > 0,
  earns,        \*   estimated_daily_usd
  pdPc,         \* where a thread waits
  object,       \* the pool a thread is checking
  asked,        \* ids whose price a round has
  seen, size,   \* the walk over _pools: ids passed, length at its start
  firstDone,    \* _first_update_done
  auto,         \* _auto_select_enabled
  selected,     \* _selected_pool
  answers,      \* the network: how the host of a pool answers
  calls, flips

pools == <<table, made>>
fields == <<status, checked, earns>>
walk == <<object, asked, seen, size>>
network == <<answers, flips>>
pdVars == <<pools, fields, pdPc, walk, firstDone, auto, selected, network, calls>>

ListedIds == {i \in Ids : table[i] # None}
Listed == {table[i] : i \in ListedIds}

PdInit ==
  /\ table = [i \in Ids |-> IF i \in KnownPools THEN <<i, 1>> ELSE None]
  /\ made = [i \in Ids |-> IF i \in KnownPools THEN 1 ELSE 0]
  /\ status = [o \in Objects |-> "unknown"]
  /\ checked = [o \in Objects |-> FALSE]
  /\ earns = [o \in Objects |-> 0]
  /\ pdPc = [t \in Threads |-> IF t = Loop THEN "new" ELSE "idle"]
  /\ object = [t \in Threads |-> None]
  /\ asked = [t \in Threads |-> {}]
  /\ seen = [t \in Threads |-> {}] /\ size = [t \in Threads |-> 0]
  /\ firstDone = FALSE /\ auto = FALSE /\ selected = None
  /\ answers \in [Ids -> {"up", "down", "malformed"}]
  /\ \A i \in KnownPools : answers[i] # "malformed"
  /\ \A i \in Custom : answers[i] # "down"  \* bound: a custom pool goes down later
  /\ calls = 0 /\ flips = 0
-----------------------------------------------------------------------------
(* _check_pool_connectivity and _update_pool, when the connection of t has *)
(* succeeded or failed.  Earnings of a pool that is not online, or whose   *)
(* coin has no price here, stay as they are.                               *)
Answer(o) == CASE answers[o[1]] = "up"   -> "online"
               [] answers[o[1]] = "down" -> "degraded"
               [] OTHER                  -> "unknown"

Estimate(o) == IF o[1] \in Rich THEN 2 ELSE 1

UpdatePool(o, priced) ==
  /\ status' = [status EXCEPT ![o] = Answer(o)]
  /\ checked' = [checked EXCEPT ![o] = TRUE]
  /\ earns' = IF Answer(o) = "online" /\ priced
              THEN [earns EXCEPT ![o] = Estimate(o)] ELSE earns

(* _calculate_scores, with which every round that completes ends: sixty    *)
(* points for earnings relative to the best pool of the algorithm, thirty  *)
(* for reliability; fees are the same here.  The loop selects in the same  *)
(* step, so the scores need not be kept.                                   *)
Rivals(o) == {p \in Listed : \E g \in Groups : {o[1], p[1]} \subseteq g}

Reliability(o) == CASE status'[o] = "online"   -> IF o[1] \in Slow THEN 15 ELSE 30
                    [] status'[o] = "degraded" -> 9
                    [] OTHER                   -> 3

Profitability(o) == IF \E p \in Rivals(o) : earns'[p] > earns'[o]
                    THEN 30 * earns'[o] ELSE IF earns'[o] > 0 THEN 60 ELSE 0

Score(o) == Profitability(o) + Reliability(o)

\* get_best_pool: of the pools that answered or were not checked yet.
Usable(o) == status'[o] \in {"online", "unknown"}

\* Fault variant: failed checks are not told apart, only "offline" is excluded.
AutoSelectUnlessOffline ==
  LET usable == {o \in Listed : status'[o] # "offline"} IN
  IF ~auto \/ usable = {} THEN UNCHANGED selected
  ELSE selected' \in {o \in usable : \A p \in usable : Score(p) <= Score(o)}

AutoSelectPool ==
  LET usable == {o \in Listed : Usable(o)} IN
  IF ~auto \/ usable = {} THEN UNCHANGED selected
  ELSE selected' \in {o \in usable : \A p \in usable : Score(p) <= Score(o)}

(* How a round of t ends: _update_loop goes to sleep, a handler answers.   *)
(* After a walk to the end the scores are computed and the loop selects.   *)
Rest(t) == IF t = Loop THEN "sleep" ELSE "idle"

EndRound(t) ==
  /\ pdPc' = [pdPc EXCEPT ![t] = Rest(t)]
  /\ object' = [object EXCEPT ![t] = None]
  /\ asked' = [asked EXCEPT ![t] = {}]
  /\ seen' = [seen EXCEPT ![t] = {}]
  /\ size' = [size EXCEPT ![t] = 0]

\* Fault variant: the first update counts as done although the walk raised.
RoundRaisesDone(t, n) ==
  /\ Cardinality(ListedIds) # n
  /\ EndRound(t)
  /\ firstDone' = (firstDone \/ t = Loop)
  /\ UNCHANGED selected

\* Fault variant: nobody catches what the walk raises, and the loop ends.
RoundRaisesThrough(t, n) ==
  /\ Cardinality(ListedIds) # n
  /\ pdPc' = [pdPc EXCEPT ![t] = "idle"]
  /\ object' = [object EXCEPT ![t] = None]
  /\ UNCHANGED <<asked, seen, size, firstDone, selected>>

RoundRaises(t, n) ==
  /\ Cardinality(ListedIds) # n
  /\ EndRound(t)
  /\ UNCHANGED <<firstDone, selected>>

RoundComplete(t, n, passed) ==
  /\ Cardinality(ListedIds) = n /\ ListedIds \subseteq passed
  /\ EndRound(t)
  /\ IF t = Loop THEN firstDone' = TRUE /\ AutoSelectPool ELSE UNCHANGED <<firstDone, selected>>

NextPool(t, n, passed) ==
  /\ Cardinality(ListedIds) = n
  /\ \E i \in ListedIds \ passed :
       /\ object' = [object EXCEPT ![t] = table[i]]
       /\ seen' = [seen EXCEPT ![t] = passed \union {i}]
  /\ pdPc' = [pdPc EXCEPT ![t] = "check"]
  /\ size' = [size EXCEPT ![t] = n]
  /\ UNCHANGED <<asked, firstDone, selected>>

GoOn(t, n, passed) == RoundRaises(t, n) \/ RoundComplete(t, n, passed) \/ NextPool(t, n, passed)
-----------------------------------------------------------------------------
(* refresh_all_pools: the prices of the coins listed now, then one pool    *)
(* after the other.                                                        *)
AskPrices(t) ==
  /\ pdPc' = [pdPc EXCEPT ![t] = "prices"]
  /\ asked' = [asked EXCEPT ![t] = ListedIds]
  /\ UNCHANGED <<pools, fields, object, seen, size, firstDone, auto, selected, network>>

\* The loop is started by the strategy's constructor and wakes after its sleep.
Wake ==
  /\ pdPc[Loop] \in {"new", "sleep"}
  /\ AskPrices(Loop)
  /\ UNCHANGED calls

PricesArrive(t) ==
  /\ pdPc[t] = "prices"
  /\ UNCHANGED <<pools, fields, auto, network, calls>>
  /\ GoOn(t, Cardinality(ListedIds), {})

PoolChecked(t) ==
  /\ pdPc[t] = "check"
  /\ UpdatePool(object[t], object[t][1] \in asked[t] \intersect Priced)
  /\ GoOn(t, size[t], seen[t])
  /\ UNCHANGED <<pools, auto, network, calls>>
-----------------------------------------------------------------------------
(* The handlers.                                                           *)
Call(u) == pdPc[u] = "idle" /\ calls < MaxCalls /\ calls' = calls + 1

Refresh(u) == Call(u) /\ AskPrices(u)

\* add_custom_pool lists the new object and then checks it.
AddPool(u, i) ==
  /\ Call(u)
  /\ table' = [table EXCEPT ![i] = <<i, made[i] + 1>>]
  /\ made' = [made EXCEPT ![i] = @ + 1]
  /\ object' = [object EXCEPT ![u] = <<i, made[i] + 1>>]
  /\ pdPc' = [pdPc EXCEPT ![u] = "add"]
  /\ UNCHANGED <<fields, asked, seen, size, firstDone, auto, selected, network>>

Added(u) ==
  /\ pdPc[u] = "add"
  /\ UpdatePool(object[u], object[u][1] \in Priced)
  /\ EndRound(u)
  /\ UNCHANGED <<pools, firstDone, auto, selected, network, calls>>

\* remove_pool.  Listed again, the pool is at the end of the dictionary: a
\* walk that has passed it meets it once more.
RemovePool(u, i) ==
  /\ Call(u)
  /\ table' = [table EXCEPT ![i] = None]
  /\ seen' = [t \in Threads |-> seen[t] \ {i}]
  /\ UNCHANGED <<made, fields, pdPc, object, asked, size, firstDone, auto, selected, network>>

SelectPool(u, i) ==
  /\ Call(u)
  /\ i \in ListedIds /\ selected' = table[i]
  /\ UNCHANGED <<pools, fields, pdPc, walk, firstDone, auto, network>>

SetAutoSelect(u) ==
  /\ Call(u)
  /\ auto' = ~auto
  /\ UNCHANGED <<pools, fields, pdPc, walk, firstDone, selected, network>>

\* A host stops answering, or answers again.
Flip(i) ==
  /\ flips < MaxFlips /\ flips' = flips + 1
  /\ \/ answers[i] = "up" /\ answers' = [answers EXCEPT ![i] = "down"]
     \/ answers[i] = "down" /\ answers' = [answers EXCEPT ![i] = "up"]
  /\ UNCHANGED <<pools, fields, pdPc, walk, firstDone, auto, selected, calls>>

RoundNext(t) == PricesArrive(t) \/ PoolChecked(t)

UserNext(u) ==
  \/ Refresh(u) \/ Added(u) \/ SetAutoSelect(u)
  \/ \E i \in Ids : AddPool(u, i) \/ RemovePool(u, i) \/ SelectPool(u, i)

PdNext ==
  \/ Wake
  \/ \E t \in Threads : RoundNext(t)
  \/ \E u \in Users : UserNext(u)
  \/ \E i \in Ids : Flip(i)

(* Requests, connections and sleeps have timeouts; nobody is bound to make *)
(* a call, and no pool to answer.                                          *)
PdFairness ==
  /\ WF_pdVars(Wake)
  /\ \A t \in Threads : WF_pdVars(RoundNext(t))
  /\ \A u \in Users : WF_pdVars(Added(u))

PdSpec == PdInit /\ [][PdNext]_pdVars /\ PdFairness
-----------------------------------------------------------------------------
PdTypeOK ==
  /\ table \in [Ids -> Objects \union {None}]
  /\ \A i \in ListedIds : table[i] = <<i, made[i]>>
  /\ made \in [Ids -> 0 .. MaxCalls + 1]
  /\ status \in [Objects -> {"online", "degraded", "unknown"}]
  /\ checked \in [Objects -> BOOLEAN]
  /\ earns \in [Objects -> 0 .. 2]
  /\ pdPc \in [Threads -> {"new", "idle", "sleep", "prices", "check", "add"}]
  /\ object \in [Threads -> Objects \union {None}]
  /\ \A t \in Threads : pdPc[t] \in {"check", "add"} <=> object[t] # None
  /\ asked \in [Threads -> SUBSET Ids] /\ seen \in [Threads -> SUBSET Ids]
  /\ size \in [Threads -> 0 .. Cardinality(Ids)]
  /\ firstDone \in BOOLEAN /\ auto \in BOOLEAN
  /\ selected \in Objects \union {None}
  /\ answers \in [Ids -> {"up", "down", "malformed"}]
  /\ calls \in 0 .. MaxCalls /\ flips \in 0 .. MaxFlips

\* A handler has listed the object and is still checking it.
BeingAdded(o) == \E u \in Users : pdPc[u] = "add" /\ object[u] = o

(* Once the loop says "Initial pool check complete" and takes the long     *)
(* interval, every listed pool has been checked, but for one that a handler*)
(* is adding: pools that come and go during the first rounds make no round *)
(* pass for complete that left a pool out.                                 *)
InitialCheckIsComplete ==
  firstDone => \A o \in Listed : checked[o] \/ BeingAdded(o)

(* Again and again every listed pool has been checked: no refresh that     *)
(* raised on a changed dictionary, of whatever thread, ends the checking.  *)
AllChecked == \A o \in Listed : checked[o]
PoolsGetChecked == []<>AllChecked

\* The host of the selected pool answers.
SelectedAnswers == selected # None /\ answers[selected[1]] = "up"
SomePoolAnswers == \E o \in Listed : answers[o[1]] = "up"

(* With auto-select left on and a pool that answers in the table, the loop *)
(* ends up with a selected pool that answers: neither a selection made by  *)
(* hand, nor a pool that was removed or stopped answering, nor old earnings*)
(* of a pool that is down keep it elsewhere.                               *)
AutoSelectRecovers == <>[](auto /\ SomePoolAnswers) => <>[]SelectedAnswers
=============================================================================
