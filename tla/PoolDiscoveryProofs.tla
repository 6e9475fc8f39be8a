------------------------- MODULE PoolDiscoveryProofs -------------------------
(***************************************************************************)
(* That the initial check of MiningPoolDiscovery leaves no pool out, for   *)
(* any pools, threads and number of calls.                                 *)
(***************************************************************************)
EXTENDS PoolDiscovery, FiniteSetTheorems, TLAPS

\* What the argument needs of the types.
Shape ==
  /\ calls \in 0 .. MaxCalls
  /\ made \in [Ids -> Nat] /\ \A i \in Ids : made[i] <= calls + 1
  /\ table \in [Ids -> Objects \union {None}]
  /\ checked \in [Objects -> BOOLEAN]
  /\ pdPc \in [Threads -> {"new", "idle", "sleep", "prices", "check", "add"}]
  /\ object \in [Threads -> Objects \union {None}]
  /\ \A t \in Threads : pdPc[t] \in {"check", "add"} => object[t] \in Objects
  /\ seen \in [Threads -> SUBSET Ids]

\* The pool at an id that a walk has passed was checked, unless that walk or
\* a handler is at it.
CaredFor(t, o) == checked[o] \/ BeingAdded(o) \/ (pdPc[t] = "check" /\ object[t] = o)

PassedMeansChecked ==
  \A t \in Threads : \A i \in seen[t] : table[i] # None => CaredFor(t, table[i])

IInv == Shape /\ PassedMeansChecked /\ InitialCheckIsComplete

\* The state in which discovery is constructed satisfies the invariant.
LEMMA InitHolds == PdInit => IInv
  <1> SUFFICES ASSUME PdInit PROVE IInv
    OBVIOUS
  <1>1. Shape
    <2>1. \A i \in Ids : <<i, 1>> \in Objects
      BY PoolDiscoveryAssumption DEF Objects
    <2>2. made \in [Ids -> Nat] /\ \A i \in Ids : made[i] <= calls + 1
      BY DEF PdInit
    <2> QED
      BY <2>1, <2>2, PoolDiscoveryAssumption DEF PdInit, Shape, Threads
  <1>2. PassedMeansChecked
    BY DEF PdInit, PassedMeansChecked
  <1> QED
    BY <1>1, <1>2 DEF IInv, InitialCheckIsComplete, PdInit

\* A check marks its pool and no other changes.
LEMMA UpdateChecks ==
  ASSUME Shape, NEW o \in Objects, NEW p, UpdatePool(o, p)
  PROVE  /\ checked' \in [Objects -> BOOLEAN] /\ checked'[o]
         /\ \A q \in Objects : checked[q] => checked'[q]
  BY DEF Shape, UpdatePool

\* Whatever follows a blocking call of a round, the invariant holds after it,
\* if the pools passed so far were checked or are being added.
LEMMA GoOnKeeps ==
  ASSUME IInv, NEW t \in Threads, NEW n, NEW passed \in SUBSET Ids,
         pdPc[t] \in {"prices", "check"},
         UNCHANGED <<pools, calls>>, GoOn(t, n, passed),
         checked' \in [Objects -> BOOLEAN],
         \A o \in Objects : checked[o] => checked'[o],
         pdPc[t] = "check" => checked'[object[t]],
         \A i \in passed : table[i] # None => checked'[table[i]] \/ BeingAdded(table[i])
  PROVE  IInv'
  <1> USE DEF pools
  <1>1. \A i \in Ids : table[i] # None => table[i] \in Objects
    BY DEF IInv, Shape
  <1>2. /\ pdPc' \in [Threads -> {"new", "idle", "sleep", "prices", "check", "add"}]
        /\ object' \in [Threads -> Objects \union {None}]
        /\ seen' \in [Threads -> SUBSET Ids]
        /\ pdPc'[t] = "check" => object'[t] \in Objects
        /\ pdPc'[t] # "add"
        /\ \A s \in Threads \ {t} : /\ pdPc'[s] = pdPc[s] /\ object'[s] = object[s]
                                    /\ seen'[s] = seen[s]
    <2>1. CASE NextPool(t, n, passed)
      BY <2>1, <1>1 DEF NextPool, ListedIds, IInv, Shape
    <2>2. CASE EndRound(t)
      BY <2>2 DEF EndRound, Rest, IInv, Shape
    <2> QED
      BY <2>1, <2>2 DEF GoOn, RoundRaises, RoundComplete
  <1>3. Shape'
    BY <1>2 DEF IInv, Shape
  <1>4. \A o : BeingAdded(o) => BeingAdded(o)'
    BY <1>2, Zenon DEF BeingAdded, Threads
  <1>5. PassedMeansChecked'
    <2> SUFFICES ASSUME NEW s \in Threads, NEW i \in seen'[s], table[i] # None
                 PROVE  CaredFor(s, table[i])'
      BY DEF PassedMeansChecked
    <2>1. CASE s # t
      <3>1. i \in seen[s] /\ i \in Ids /\ pdPc'[s] = pdPc[s] /\ object'[s] = object[s]
        BY <2>1, <1>2, <1>3 DEF Shape
      <3>2. table[i] \in Objects
        BY <3>1, <1>1
      <3>3. CaredFor(s, table[i])
        BY <3>1 DEF IInv, PassedMeansChecked
      <3> QED
        BY <3>1, <3>2, <3>3, <1>4 DEF CaredFor
    <2>2. CASE s = t /\ NextPool(t, n, passed)
      <3>1. PICK j \in ListedIds \ passed :
              /\ object' = [object EXCEPT ![t] = table[j]]
              /\ seen' = [seen EXCEPT ![t] = passed \union {j}]
        BY <2>2 DEF NextPool
      <3>2. pdPc'[t] = "check" /\ object'[t] = table[j] /\ seen'[t] = passed \union {j}
        BY <2>2, <3>1 DEF NextPool, IInv, Shape
      <3>3. CASE i = j
        BY <3>2, <3>3, <2>2 DEF CaredFor
      <3>4. CASE i \in passed
        BY <3>4, <1>4 DEF CaredFor
      <3> QED
        BY <3>2, <3>3, <3>4, <2>2
    <2>3. CASE s = t /\ EndRound(t)
      BY <2>3 DEF EndRound, IInv, Shape
    <2> QED
      BY <2>1, <2>2, <2>3 DEF GoOn, RoundRaises, RoundComplete
  <1>6. InitialCheckIsComplete'
    <2> SUFFICES ASSUME firstDone', NEW i \in Ids, table[i] # None
                 PROVE  checked'[table[i]] \/ BeingAdded(table[i])'
      BY DEF InitialCheckIsComplete, Listed, ListedIds
    <2>1. CASE firstDone
      BY <2>1, <1>1, <1>4 DEF IInv, InitialCheckIsComplete, Listed, ListedIds
    <2>2. CASE ~firstDone
      <3>1. i \in passed
        BY <2>2 DEF GoOn, RoundRaises, RoundComplete, NextPool, ListedIds
      <3> QED
        BY <3>1, <1>4
    <2> QED
      BY <2>1, <2>2
  <1> QED
    BY <1>3, <1>5, <1>6 DEF IInv

\* A step of a round, of the loop or of a handler.
LEMMA RoundStep ==
  ASSUME IInv, NEW t \in Threads, RoundNext(t)
  PROVE  IInv'
  <1>1. CASE PricesArrive(t)
    <2>1. checked' \in [Objects -> BOOLEAN] /\ \A o \in Objects : checked[o] => checked'[o]
      BY <1>1 DEF PricesArrive, fields, IInv, Shape
    <2>2. /\ pdPc[t] \in {"prices", "check"} /\ pdPc[t] # "check"
          /\ UNCHANGED <<pools, calls>> /\ GoOn(t, Cardinality(ListedIds), {})
      BY <1>1 DEF PricesArrive
    <2> QED
      BY <2>1, <2>2, GoOnKeeps
  <1>2. CASE PoolChecked(t)
    <2>1. /\ pdPc[t] = "check" /\ object[t] \in Objects /\ UNCHANGED <<pools, calls>>
          /\ GoOn(t, size[t], seen[t]) /\ seen[t] \in SUBSET Ids
      BY <1>2 DEF PoolChecked, IInv, Shape
    <2>2. UpdatePool(object[t], object[t][1] \in asked[t] \intersect Priced)
      BY <1>2 DEF PoolChecked
    <2>3. /\ checked' \in [Objects -> BOOLEAN] /\ checked'[object[t]]
          /\ \A o \in Objects : checked[o] => checked'[o]
      BY <2>1, <2>2, UpdateChecks DEF IInv
    <2>4. \A i \in seen[t] : table[i] # None => checked'[table[i]] \/ BeingAdded(table[i])
      BY <2>1, <2>3 DEF IInv, PassedMeansChecked, CaredFor, Shape
    <2> QED
      BY <2>1, <2>3, <2>4, GoOnKeeps
  <1> QED
    BY <1>1, <1>2 DEF RoundNext

\* Listing a pool: nobody has checked the new object, but a handler is at it.
LEMMA AddPoolStep ==
  ASSUME IInv, NEW u \in Users, NEW i \in Ids, AddPool(u, i)
  PROVE  IInv'
  <1>1. PICK new : new = <<i, made[i] + 1>>
    OBVIOUS
  <1>2. /\ pdPc[u] = "idle" /\ calls < MaxCalls /\ calls' = calls + 1 /\ u \in Threads
        /\ table' = [table EXCEPT ![i] = new] /\ made' = [made EXCEPT ![i] = @ + 1]
        /\ object' = [object EXCEPT ![u] = new] /\ pdPc' = [pdPc EXCEPT ![u] = "add"]
        /\ checked' = checked /\ seen' = seen /\ firstDone' = firstDone
    BY <1>1 DEF AddPool, Call, fields, Threads
  <1>3. new \in Objects
    <2>1. made[i] + 1 \in 1 .. MaxCalls + 1
      BY <1>2, PoolDiscoveryAssumption DEF IInv, Shape
    <2> QED
      BY <2>1, <1>1 DEF Objects
  <1>4. Shape'
    BY <1>2, <1>3, PoolDiscoveryAssumption DEF IInv, Shape
  <1>5. BeingAdded(new)'
    BY <1>2, <1>3 DEF BeingAdded, IInv, Shape
  <1>6. \A o : BeingAdded(o) => BeingAdded(o)'
    <2> SUFFICES ASSUME NEW o, NEW v \in Users, pdPc[v] = "add", object[v] = o
                 PROVE  pdPc'[v] = "add" /\ object'[v] = o
      BY DEF BeingAdded
    <2> QED
      BY <1>2 DEF IInv, Shape, Threads
  <1>7. \A j \in Ids : table'[j] # None => table'[j] \in {new, table[j]}
    <2>1. table \in [Ids -> Objects \union {None}]
      BY DEF IInv, Shape
    <2> QED
      BY <2>1, <1>2
  <1>8. PassedMeansChecked'
    <2> SUFFICES ASSUME NEW t \in Threads, NEW j \in seen[t], NEW o, o = table'[j], o # None
                 PROVE  CaredFor(t, o)'
      BY <1>2 DEF PassedMeansChecked
    <2>1. CASE o = new
      BY <2>1, <1>5 DEF CaredFor
    <2>2. CASE o = table[j]
      <3>1. CaredFor(t, o)
        BY <2>2 DEF IInv, PassedMeansChecked
      <3>2. pdPc[t] = "check" => pdPc'[t] = "check" /\ object'[t] = object[t]
        BY <1>2 DEF IInv, Shape
      <3> QED
        BY <3>1, <3>2, <1>2, <1>6 DEF CaredFor
    <2> QED
      BY <2>1, <2>2, <1>7 DEF IInv, Shape
  <1>9. InitialCheckIsComplete'
    <2> SUFFICES ASSUME firstDone, NEW j \in Ids, NEW o, o = table'[j], o # None
                 PROVE  checked[o] \/ BeingAdded(o)'
      BY <1>2 DEF InitialCheckIsComplete, Listed, ListedIds
    <2>1. CASE o = new
      BY <2>1, <1>5
    <2>2. CASE o = table[j]
      BY <2>2, <1>6 DEF IInv, InitialCheckIsComplete, Listed, ListedIds
    <2> QED
      BY <2>1, <2>2, <1>7
  <1> QED
    BY <1>4, <1>8, <1>9 DEF IInv

\* The handler has checked what it added.
LEMMA AddedStep ==
  ASSUME IInv, NEW u \in Users, Added(u)
  PROVE  IInv'
  <1>1. /\ u \in Threads /\ pdPc[u] = "add" /\ object[u] \in Objects
        /\ UpdatePool(object[u], object[u][1] \in Priced) /\ EndRound(u)
        /\ table' = table /\ made' = made /\ firstDone' = firstDone /\ calls' = calls
    BY DEF Added, pools, IInv, Shape, Threads
  <1>2. /\ checked' \in [Objects -> BOOLEAN] /\ checked'[object[u]]
        /\ \A o \in Objects : checked[o] => checked'[o]
    BY <1>1, UpdateChecks DEF IInv
  <1>3. /\ pdPc' = [pdPc EXCEPT ![u] = Rest(u)] /\ object' = [object EXCEPT ![u] = None]
        /\ seen' = [seen EXCEPT ![u] = {}]
    BY <1>1 DEF EndRound
  <1>4. Shape'
    BY <1>1, <1>2, <1>3 DEF IInv, Shape, Rest
  <1>5. \A o \in Objects : BeingAdded(o) => checked'[o] \/ BeingAdded(o)'
    <2> SUFFICES ASSUME NEW o \in Objects, NEW v \in Users, pdPc[v] = "add", object[v] = o,
                        ~checked'[o]
                 PROVE  pdPc'[v] = "add" /\ object'[v] = o
      BY DEF BeingAdded
    <2>1. v # u
      BY <1>2
    <2> QED
      BY <2>1, <1>3 DEF IInv, Shape, Threads
  <1>6. PassedMeansChecked'
    <2> SUFFICES ASSUME NEW t \in Threads, NEW j \in seen'[t], NEW o, o = table[j], o # None
                 PROVE  CaredFor(t, o)'
      BY <1>1 DEF PassedMeansChecked
    <2>1. t # u /\ j \in seen[t] /\ j \in Ids /\ pdPc'[t] = pdPc[t] /\ object'[t] = object[t]
      BY <1>3 DEF IInv, Shape
    <2>2. o \in Objects /\ CaredFor(t, o)
      BY <2>1 DEF IInv, Shape, PassedMeansChecked
    <2> QED
      BY <2>1, <2>2, <1>2, <1>5 DEF CaredFor
  <1>7. InitialCheckIsComplete'
    <2> SUFFICES ASSUME firstDone, NEW j \in Ids, NEW o, o = table[j], o # None
                 PROVE  checked'[o] \/ BeingAdded(o)'
      BY <1>1 DEF InitialCheckIsComplete, Listed, ListedIds
    <2>1. o \in Objects /\ (checked[o] \/ BeingAdded(o))
      BY DEF IInv, Shape, InitialCheckIsComplete, Listed, ListedIds
    <2> QED
      BY <2>1, <1>2, <1>5
  <1> QED
    BY <1>4, <1>6, <1>7 DEF IInv

\* A pool that is taken out of the table is taken off every walk as well.
LEMMA RemovePoolStep ==
  ASSUME IInv, NEW u \in Users, NEW i \in Ids, RemovePool(u, i)
  PROVE  IInv'
  <1>1. /\ calls < MaxCalls /\ calls' = calls + 1
        /\ table' = [table EXCEPT ![i] = None] /\ seen' = [t \in Threads |-> seen[t] \ {i}]
        /\ made' = made /\ checked' = checked /\ pdPc' = pdPc /\ object' = object
        /\ firstDone' = firstDone
    BY DEF RemovePool, Call, fields
  <1>2. Shape'
    BY <1>1, PoolDiscoveryAssumption DEF IInv, Shape
  <1>3. PassedMeansChecked'
    <2> SUFFICES ASSUME NEW t \in Threads, NEW j \in seen'[t], NEW o, o = table'[j], o # None
                 PROVE  CaredFor(t, o)'
      BY DEF PassedMeansChecked
    <2>1. j \in seen[t] /\ j \in Ids /\ o = table[j]
      BY <1>1 DEF IInv, Shape
    <2>2. CaredFor(t, o)
      BY <2>1 DEF IInv, PassedMeansChecked
    <2> QED
      BY <2>1, <2>2, <1>1 DEF CaredFor, BeingAdded
  <1>4. InitialCheckIsComplete'
    BY <1>1 DEF IInv, Shape, InitialCheckIsComplete, Listed, ListedIds, BeingAdded
  <1> QED
    BY <1>2, <1>3, <1>4 DEF IInv

\* Steps that start a round, select, or change the network or a switch: they
\* end no check.
LEMMA OtherStep ==
  ASSUME IInv,
         \/ Wake \/ \E u \in Users : Refresh(u) \/ SetAutoSelect(u)
         \/ \E u \in Users, i \in Ids : SelectPool(u, i)
         \/ \E i \in Ids : Flip(i)
         \/ UNCHANGED pdVars
  PROVE  IInv'
  <1>1. /\ table' = table /\ made' = made /\ checked' = checked /\ object' = object
        /\ seen' = seen /\ firstDone' = firstDone
        /\ calls' = calls \/ (calls < MaxCalls /\ calls' = calls + 1)
        /\ \/ pdPc' = pdPc
           \/ \E t \in Threads : /\ pdPc[t] \notin {"check", "add"}
                                 /\ pdPc' = [pdPc EXCEPT ![t] = "prices"]
    <2> USE DEF pools, fields, walk, network
    <2>1. CASE Wake
      BY <2>1 DEF Wake, AskPrices, Threads
    <2>2. ASSUME NEW u \in Users, Refresh(u) PROVE <1>1!:
      BY <2>2 DEF Refresh, Call, AskPrices, Threads
    <2>3. ASSUME NEW u \in Users, SetAutoSelect(u) PROVE <1>1!:
      BY <2>3 DEF SetAutoSelect, Call
    <2>4. ASSUME NEW u \in Users, NEW i \in Ids, SelectPool(u, i) PROVE <1>1!:
      BY <2>4 DEF SelectPool, Call
    <2>5. ASSUME NEW i \in Ids, Flip(i) PROVE <1>1!:
      BY <2>5 DEF Flip
    <2>6. CASE UNCHANGED pdVars
      BY <2>6 DEF pdVars
    <2> QED
      BY <2>1, <2>2, <2>3, <2>4, <2>5, <2>6
  <1>2. Shape'
    BY <1>1, PoolDiscoveryAssumption DEF IInv, Shape
  <1>3. \A t \in Threads : pdPc[t] \in {"check", "add"} => pdPc'[t] = pdPc[t]
    BY <1>1 DEF IInv, Shape
  <1>4. \A o : BeingAdded(o) => BeingAdded(o)'
    BY <1>1, <1>3 DEF BeingAdded, Threads
  <1>5. PassedMeansChecked'
    BY <1>1, <1>3, <1>4 DEF IInv, PassedMeansChecked, CaredFor
  <1>6. InitialCheckIsComplete'
    BY <1>1, <1>4 DEF IInv, InitialCheckIsComplete, Listed, ListedIds
  <1> QED
    BY <1>2, <1>5, <1>6 DEF IInv

\* The invariant survives every step.
LEMMA NextKeeps == IInv /\ [PdNext]_pdVars => IInv'
  <1> SUFFICES ASSUME IInv, [PdNext]_pdVars PROVE IInv'
    OBVIOUS
  <1>1. ASSUME NEW t \in Threads, RoundNext(t) PROVE IInv'
    BY <1>1, RoundStep
  <1>2. ASSUME NEW u \in Users, UserNext(u) PROVE IInv'
    BY <1>2, AddPoolStep, AddedStep, RemovePoolStep, OtherStep DEF UserNext
  <1> QED
    BY <1>1, <1>2, OtherStep DEF PdNext

(* Once _update_loop says that the initial pool check is complete, every   *)
(* pool in the table has been checked, but for those that add_custom_pool  *)
(* is still checking, however many handlers change the table meanwhile.    *)
THEOREM InitialCheckLeavesNoneOut == PdSpec => []InitialCheckIsComplete
  <1>1. IInv => InitialCheckIsComplete
    BY DEF IInv
  <1> QED
    BY InitHolds, NextKeeps, <1>1, PTL DEF PdSpec

\* A listed pool is the last object made for its id, and all fields have their
\* types, when discovery is constructed.
LEMMA PdTypesBegin == PdInit => PdTypeOK
  <1> SUFFICES ASSUME PdInit PROVE PdTypeOK
    OBVIOUS
  <1>1. table \in [Ids -> Objects \union {None}]
    BY InitHolds DEF IInv, Shape
  <1>2. made \in [Ids -> 0 .. MaxCalls + 1] /\ \A i \in ListedIds : table[i] = <<i, made[i]>>
    BY PoolDiscoveryAssumption DEF PoolDiscoveryAssumption, PdInit, ListedIds
  <1>3. /\ status \in [Objects -> {"online", "degraded", "unknown"}]
        /\ checked \in [Objects -> BOOLEAN] /\ earns \in [Objects -> 0 .. 2]
    BY DEF PdInit
  <1>4. /\ pdPc \in [Threads -> {"new", "idle", "sleep", "prices", "check", "add"}]
        /\ object \in [Threads -> Objects \union {None}]
        /\ \A t \in Threads : pdPc[t] \in {"check", "add"} <=> object[t] # None
        /\ asked \in [Threads -> SUBSET Ids] /\ seen \in [Threads -> SUBSET Ids]
    BY DEF PdInit
  <1>5. size \in [Threads -> 0 .. Cardinality(Ids)]
    BY PoolDiscoveryAssumption, FS_CardinalityType DEF PoolDiscoveryAssumption, PdInit
  <1>6. calls \in 0 .. MaxCalls /\ flips \in 0 .. MaxFlips
    BY PoolDiscoveryAssumption DEF PoolDiscoveryAssumption, PdInit
  <1> QED
    BY <1>1, <1>2, <1>3, <1>4, <1>5, <1>6 DEF PdInit, PdTypeOK

\* There are no more listed pools than ids.
LEMMA ListedFit == Cardinality(ListedIds) \in 0 .. Cardinality(Ids)
  <1>1. ListedIds \subseteq Ids /\ IsFiniteSet(Ids)
    BY PoolDiscoveryAssumption DEF PoolDiscoveryAssumption, ListedIds
  <1>2. /\ IsFiniteSet(ListedIds) /\ Cardinality(ListedIds) <= Cardinality(Ids)
    BY <1>1, FS_Subset
  <1> QED
    BY <1>1, <1>2, FS_CardinalityType

\* The end of a check gives its pool fields of their types.
LEMMA UpdateTypes ==
  ASSUME PdTypeOK, NEW o \in Objects, NEW p, UpdatePool(o, p)
  PROVE  /\ status' \in [Objects -> {"online", "degraded", "unknown"}]
         /\ checked' \in [Objects -> BOOLEAN] /\ earns' \in [Objects -> 0 .. 2]
  <1>1. Answer(o) \in {"online", "degraded", "unknown"} /\ Estimate(o) \in 0 .. 2
    BY DEF Answer, Estimate
  <1> QED
    BY <1>1 DEF UpdatePool, PdTypeOK

\* Wherever a round goes on from a blocking call, its walk keeps its types.
LEMMA GoOnTypes ==
  ASSUME PdTypeOK, NEW t \in Threads, NEW n \in 0 .. Cardinality(Ids), NEW passed \in SUBSET Ids,
         UNCHANGED pools, GoOn(t, n, passed)
  PROVE  /\ pdPc' \in [Threads -> {"new", "idle", "sleep", "prices", "check", "add"}]
         /\ object' \in [Threads -> Objects \union {None}]
         /\ \A s \in Threads : pdPc'[s] \in {"check", "add"} <=> object'[s] # None
         /\ asked' \in [Threads -> SUBSET Ids] /\ seen' \in [Threads -> SUBSET Ids]
         /\ size' \in [Threads -> 0 .. Cardinality(Ids)]
         /\ firstDone' \in BOOLEAN /\ selected' \in Objects \union {None}
  <1>0. 0 \in 0 .. Cardinality(Ids)
    BY FS_CardinalityType, PoolDiscoveryAssumption DEF PoolDiscoveryAssumption
  <1>1. \A o \in Listed : o \in Objects
    BY DEF Listed, ListedIds, PdTypeOK
  <1>2. CASE RoundRaises(t, n) \/ RoundComplete(t, n, passed)
    <2>1. EndRound(t)
      BY <1>2 DEF RoundRaises, RoundComplete
    <2>2. firstDone' \in BOOLEAN /\ selected' \in Objects \union {None}
      <3>1. CASE RoundRaises(t, n) BY <3>1 DEF RoundRaises, PdTypeOK
      <3>2. CASE RoundComplete(t, n, passed)
        <4>1. UNCHANGED selected \/ selected' \in Listed
          BY <3>2, Zenon DEF RoundComplete, AutoSelectPool
        <4>2. firstDone' \in BOOLEAN BY <3>2 DEF RoundComplete, PdTypeOK
        <4> QED BY <1>1, <4>1, <4>2 DEF PdTypeOK
      <3> QED BY <1>2, <3>1, <3>2
    <2> QED
      BY <1>0, <2>1, <2>2 DEF EndRound, Rest, PdTypeOK
  <1>3. CASE NextPool(t, n, passed)
    <2>1. PICK i \in ListedIds \ passed :
            /\ object' = [object EXCEPT ![t] = table[i]]
            /\ seen' = [seen EXCEPT ![t] = passed \union {i}]
      BY <1>3 DEF NextPool
    <2>2. table[i] \in Objects /\ table[i] # None /\ i \in Ids
      BY DEF ListedIds, PdTypeOK
    <2>3. /\ pdPc' = [pdPc EXCEPT ![t] = "check"] /\ size' = [size EXCEPT ![t] = n]
          /\ UNCHANGED <<asked, firstDone, selected>>
      BY <1>3 DEF NextPool
    <2> QED
      BY <2>1, <2>2, <2>3 DEF PdTypeOK
  <1> QED
    BY <1>2, <1>3 DEF GoOn

\* Every step of discovery keeps the types.
LEMMA PdTypesStay == IInv /\ PdTypeOK /\ [PdNext]_pdVars => PdTypeOK'
  <1> SUFFICES ASSUME IInv, PdTypeOK, [PdNext]_pdVars PROVE PdTypeOK'
    OBVIOUS
  <1> USE DEF pools, fields, walk, network
  <1>0. MaxCalls \in Nat /\ calls \in 0 .. MaxCalls
    BY PoolDiscoveryAssumption DEF PoolDiscoveryAssumption, PdTypeOK
  <1>1. ASSUME NEW t \in Threads, PricesArrive(t) PROVE PdTypeOK'
    <2>1. /\ UNCHANGED <<pools, fields, auto, network, calls>>
          /\ GoOn(t, Cardinality(ListedIds), {})
      BY <1>1 DEF PricesArrive
    <2> QED
      BY <2>1, ListedFit, GoOnTypes DEF PdTypeOK, ListedIds
  <1>2. ASSUME NEW t \in Threads, PoolChecked(t) PROVE PdTypeOK'
    <2>1. /\ UpdatePool(object[t], object[t][1] \in asked[t] \intersect Priced)
          /\ GoOn(t, size[t], seen[t]) /\ UNCHANGED <<pools, auto, network, calls>>
          /\ pdPc[t] = "check"
      BY <1>2 DEF PoolChecked
    <2>2. object[t] \in Objects /\ size[t] \in 0 .. Cardinality(Ids) /\ seen[t] \in SUBSET Ids
      BY <2>1 DEF PdTypeOK
    <2>3. /\ status' \in [Objects -> {"online", "degraded", "unknown"}]
          /\ checked' \in [Objects -> BOOLEAN] /\ earns' \in [Objects -> 0 .. 2]
      BY <2>1, <2>2, UpdateTypes
    <2> HIDE DEF UpdatePool
    <2> QED
      BY <2>1, <2>2, <2>3, GoOnTypes DEF PdTypeOK, ListedIds
  <1>3. CASE Wake \/ \E u \in Users : Refresh(u)
    <2>1. PICK t \in Threads : AskPrices(t) /\ pdPc[t] \in {"new", "sleep", "idle"}
      BY <1>3, Zenon DEF Wake, Refresh, Call, Threads
    <2>2. calls' \in 0 .. MaxCalls
      BY <1>0, <1>3 DEF Wake, Refresh, Call
    <2>3. /\ pdPc' = [pdPc EXCEPT ![t] = "prices"] /\ asked' = [asked EXCEPT ![t] = ListedIds]
          /\ UNCHANGED <<pools, fields, object, seen, size, firstDone, auto, selected, network>>
      BY <2>1 DEF AskPrices
    <2>4. ListedIds \subseteq Ids BY DEF ListedIds
    <2> QED
      BY <2>1, <2>2, <2>3, <2>4 DEF PdTypeOK, ListedIds
  <1>4. ASSUME NEW u \in Users, NEW i \in Ids, AddPool(u, i) PROVE PdTypeOK'
    <2> DEFINE new == <<i, made[i] + 1>>
    <2>1. /\ calls < MaxCalls /\ calls' = calls + 1 /\ u \in Threads
          /\ table' = [table EXCEPT ![i] = new] /\ made' = [made EXCEPT ![i] = @ + 1]
          /\ object' = [object EXCEPT ![u] = new] /\ pdPc' = [pdPc EXCEPT ![u] = "add"]
          /\ UNCHANGED <<fields, asked, seen, size, firstDone, auto, selected, network>>
      BY <1>4 DEF AddPool, Call, Threads
    <2>2. made[i] + 1 \in 1 .. MaxCalls + 1
      BY <1>0, <2>1 DEF IInv, Shape
    <2>3. new \in Objects /\ new # None
      BY <2>2, PoolDiscoveryAssumption DEF PoolDiscoveryAssumption, Objects
    <2> HIDE DEF new
    <2>4. /\ table' \in [Ids -> Objects \union {None}] /\ made' \in [Ids -> 0 .. MaxCalls + 1]
          /\ object' \in [Threads -> Objects \union {None}]
          /\ pdPc' \in [Threads -> {"new", "idle", "sleep", "prices", "check", "add"}]
          /\ \A t \in Threads : pdPc'[t] \in {"check", "add"} <=> object'[t] # None
      BY <1>0, <2>1, <2>2, <2>3 DEF PdTypeOK
    <2>5. \A j \in Ids : table'[j] # None => table'[j] = <<j, made'[j]>>
      BY <2>1 DEF PdTypeOK, ListedIds, new
    <2>6. calls' \in 0 .. MaxCalls BY <1>0, <2>1
    <2> QED
      BY <2>1, <2>4, <2>5, <2>6 DEF PdTypeOK, ListedIds
  <1>5. ASSUME NEW u \in Users, Added(u) PROVE PdTypeOK'
    <2>1. /\ u \in Threads /\ pdPc[u] = "add" /\ EndRound(u)
          /\ UpdatePool(object[u], object[u][1] \in Priced)
          /\ UNCHANGED <<pools, firstDone, auto, selected, network, calls>>
      BY <1>5 DEF Added, Threads
    <2>2. object[u] \in Objects BY <2>1 DEF PdTypeOK
    <2>3. /\ status' \in [Objects -> {"online", "degraded", "unknown"}]
          /\ checked' \in [Objects -> BOOLEAN] /\ earns' \in [Objects -> 0 .. 2]
      BY <2>1, <2>2, UpdateTypes
    <2>4. 0 \in 0 .. Cardinality(Ids)
      BY FS_CardinalityType, PoolDiscoveryAssumption DEF PoolDiscoveryAssumption
    <2> HIDE DEF UpdatePool
    <2> QED
      BY <2>1, <2>3, <2>4 DEF EndRound, Rest, PdTypeOK, ListedIds
  <1>6. ASSUME NEW u \in Users, NEW i \in Ids, RemovePool(u, i) PROVE PdTypeOK'
    <2>1. /\ calls' \in 0 .. MaxCalls
          /\ table' = [table EXCEPT ![i] = None] /\ seen' = [t \in Threads |-> seen[t] \ {i}]
          /\ UNCHANGED <<made, fields, pdPc, object, asked, size, firstDone, auto, selected, network>>
      BY <1>0, <1>6 DEF RemovePool, Call
    <2>2. table' \in [Ids -> Objects \union {None}] /\ seen' \in [Threads -> SUBSET Ids]
      BY <2>1 DEF PdTypeOK
    <2>3. \A j \in Ids : table'[j] # None => table'[j] = <<j, made'[j]>>
      BY <2>1 DEF PdTypeOK, ListedIds
    <2> QED
      BY <2>1, <2>2, <2>3 DEF PdTypeOK, ListedIds
  <1>7. ASSUME NEW u \in Users, SetAutoSelect(u) \/ \E i \in Ids : SelectPool(u, i) PROVE PdTypeOK'
    <2>1. /\ calls' \in 0 .. MaxCalls /\ auto' \in BOOLEAN
          /\ UNCHANGED <<pools, fields, pdPc, walk, firstDone, network>>
          /\ selected' = selected \/ \E i \in ListedIds : selected' = table[i]
      <3>1. calls' \in 0 .. MaxCalls
        BY <1>0, <1>7 DEF SetAutoSelect, SelectPool, Call
      <3>2. CASE SetAutoSelect(u)
        BY <3>1, <3>2 DEF SetAutoSelect
      <3>3. CASE \E i \in Ids : SelectPool(u, i)
        BY <3>1, <3>3 DEF SelectPool, PdTypeOK
      <3> QED
        BY <1>7, <3>2, <3>3
    <2> QED
      BY <2>1 DEF PdTypeOK, ListedIds
  <1>8. ASSUME NEW i \in Ids, Flip(i) PROVE PdTypeOK'
    BY <1>8, PoolDiscoveryAssumption DEF PoolDiscoveryAssumption, Flip, PdTypeOK, ListedIds
  <1>9. CASE UNCHANGED pdVars
    BY <1>9 DEF pdVars, PdTypeOK, ListedIds
  <1> QED
    BY <1>1, <1>2, <1>3, <1>4, <1>5, <1>6, <1>7, <1>8, <1>9 DEF PdNext, RoundNext, UserNext
=============================================================================
