--------------------------- MODULE StratumProofs ----------------------------
(***************************************************************************)
(* What holds of the Stratum client for any number of miners, connections  *)
(* and attempts to reconnect, however its threads interleave.              *)
(***************************************************************************)
EXTENDS Stratum, NumberProofs, FiniteSetTheorems, TLAPS

\* The threads are different ones, and Ctl and the receivers may dial.
LEMMA Distinct ==
    /\ Ctl \notin Receivers /\ Ctl \notin Miners /\ Receivers \intersect Miners = {}
    /\ Dialers = Receivers \union {Ctl} /\ Threads = Dialers \union Miners
    /\ Receivers \subseteq Nat \ {0} /\ Receivers \subseteq Dialers /\ Dialers \subseteq Threads
    /\ \A n : n \in Receivers <=> n \in Nat /\ 1 <= n /\ n <= MaxConn
  BY StratumAssumption DEF Receivers, Dialers, Threads

\* What a socket is is told by its first part.
LEMMA Sockets ==
    /\ \A t : Raw(t) # NoSocket /\ Raw(t)[2] = t
    /\ \A c : Conn(c) # NoSocket /\ Conn(c)[2] = c
    /\ \A t, c : Raw(t) # Conn(c)
    /\ \A c, d : Conn(c) = Conn(d) => c = d
    /\ \A c, d : Raw(c) = Raw(d) => c = d
  BY DEF Raw, Conn, NoSocket

Socks == {NoSocket} \union {Raw(t) : t \in Dialers} \union {Conn(c) : c \in Receivers}
ConnStates == {"new", "open", "eof", "closed"}
Asked == [id : 1 .. msgId, conn : Receivers, kind : {"subscribe", "authorize", "submit"}]

\* The parts of the types.
LinkOK ==
    /\ running \in BOOLEAN /\ connected \in BOOLEAN /\ socket \in Socks
    /\ conn \in [Receivers -> ConnStates] /\ conns \in 0 .. MaxConn
PoolOK ==
    /\ toPool \subseteq Asked /\ fromPool \in [Receivers -> Seq(Messages)]
    /\ poolSub \subseteq Receivers /\ poolTaken \in Nat /\ jobs \in 0 .. MaxEvents
RequestsOK ==
    /\ msgId \in Nat /\ pending \subseteq 1 .. msgId
    /\ reqId \in [Threads -> 0 .. msgId] /\ reply \in [Threads -> Receivers \union {NoReply}]
RestOK ==
    /\ authorized \in BOOLEAN /\ en \in 0 .. MaxConn
    /\ job \in [id : 0 .. jobs, conn : 0 .. MaxConn, en : 0 .. MaxConn]
    /\ submitted \in 0 .. MaxEvents /\ accepted \in Nat /\ rejected \in Nat
    /\ pc \in [Threads -> Places] /\ hand \in [Receivers -> Messages]
    /\ attempts \in [Receivers -> 0 .. MaxReconnect]

\* The type invariant taken apart by what the steps change together.
LEMMA TypeParts == /\ (TypeOK <=> (LinkOK /\ PoolOK /\ RequestsOK /\ RestOK))
                    /\ (TypeOK' <=> (LinkOK' /\ PoolOK' /\ RequestsOK' /\ RestOK'))
<1>1. TypeOK <=> (LinkOK /\ PoolOK /\ RequestsOK /\ RestOK)
    BY DEF TypeOK, LinkOK, PoolOK, RequestsOK, RestOK, Socks, ConnStates, Asked
<1>2. TypeOK' <=> (LinkOK' /\ PoolOK' /\ RequestsOK' /\ RestOK')
    BY DEF TypeOK, LinkOK, PoolOK, RequestsOK, RestOK, Socks, ConnStates, Asked
<1> QED BY <1>1, <1>2

\* The start.
LEMMA StInitTypes == Init => TypeOK
<1> SUFFICES ASSUME Init PROVE LinkOK /\ PoolOK /\ RequestsOK /\ RestOK
    BY TypeParts
<1> USE StratumAssumption, Distinct DEF Init
<1>1. LinkOK
    <2>1. socket \in Socks
        BY DEF Socks
    <2>2. conn \in [Receivers -> ConnStates]
        BY DEF ConnStates
    <2>3. conns \in 0 .. MaxConn
        OBVIOUS
    <2> QED BY <2>1, <2>2, <2>3 DEF LinkOK
<1>2. PoolOK
    BY DEF PoolOK
<1>3. RequestsOK
    BY DEF RequestsOK
<1>4. RestOK
    <2>1. pc \in [Threads -> Places]
        BY DEF Places
    <2>2. hand \in [Receivers -> Messages]
        BY DEF Messages, NoMsg
    <2>3. job \in [id : 0 .. jobs, conn : 0 .. MaxConn, en : 0 .. MaxConn]
        BY DEF NoJob
    <2>4. attempts \in [Receivers -> 0 .. MaxReconnect]
        OBVIOUS
    <2>5. en \in 0 .. MaxConn /\ submitted \in 0 .. MaxEvents
        OBVIOUS
    <2> QED BY <2>1, <2>2, <2>3, <2>4, <2>5 DEF RestOK
<1> QED BY <1>1, <1>2, <1>3, <1>4

\* A thread goes on at a place of its own.
LEMMA GotoOK ==
    ASSUME pc \in [Threads -> Places], NEW t \in Threads, NEW where \in Places, Goto(t, where)
    PROVE  /\ pc' \in [Threads -> Places]
           /\ \A u \in Threads : pc'[u] = IF u = t THEN where ELSE pc[u]
  BY DEF Goto

\* disconnect().
LEMMA DisconnectOK ==
    ASSUME TypeOK, NEW t \in Threads, NEW where \in Places, Disconnect(t, where),
           UNCHANGED msgId
    PROVE  LinkOK' /\ PoolOK' /\ pc' \in [Threads -> Places]
<1>0. LinkOK /\ PoolOK /\ RestOK
    BY TypeParts
<1>1. LinkOK'
    <2>1. conn' \in [Receivers -> ConnStates]
        BY <1>0 DEF Disconnect, LinkOK, ConnStates
    <2> QED BY <1>0, <2>1 DEF Disconnect, LinkOK, Socks
<1>2. PoolOK'
    <2>1. toPool' \subseteq Asked /\ Asked' = Asked /\ Messages' = Messages
        BY <1>0 DEF Disconnect, PoolOK, Asked, Messages
    <2>2. fromPool' \in [Receivers -> Seq(Messages)]
        BY <1>0 DEF Disconnect, PoolOK
    <2> QED BY <1>0, <2>1, <2>2 DEF Disconnect, PoolOK
<1>3. pc' \in [Threads -> Places]
    BY <1>0 DEF Disconnect, RestOK, Places
<1> QED BY <1>1, <1>2, <1>3

\* A request leaves for the pool.
LEMMA RequestOK ==
    ASSUME TypeOK, NEW t \in Threads, NEW kind \in {"subscribe", "authorize", "submit"},
           Request(t, kind)
    PROVE  /\ RequestsOK' /\ PoolOK' /\ Messages \subseteq Messages'
<1>0. LinkOK /\ PoolOK /\ RequestsOK
    BY TypeParts
<1>1. PICK c \in Receivers : socket = Conn(c) /\ socket[2] = c
    BY Sockets DEF Request, CanSend
<1>2. RequestsOK'
    BY <1>0 DEF Request, RequestsOK
<1>3. Messages \subseteq Messages' /\ Asked \subseteq Asked'
    BY <1>0 DEF Request, RequestsOK, Messages, Asked
<1>4. toPool' \subseteq Asked'
    BY <1>0, <1>1, <1>3 DEF Request, RequestsOK, PoolOK, Asked
<1>5. \A s \in Seq(Messages) : s \in Seq(Messages')
    BY <1>3
<1>6. fromPool' \in [Receivers -> Seq(Messages')]
    BY <1>0, <1>5 DEF Request, PoolOK
<1>7. PoolOK'
    BY <1>0, <1>4, <1>6 DEF Request, PoolOK
<1> QED BY <1>2, <1>3, <1>7

\* A call returns.
LEMMA ReturnsOK ==
    ASSUME TypeOK, NEW t \in Threads, Returns(t)
    PROVE  RequestsOK' /\ msgId' = msgId
  BY TypeParts DEF Returns, RequestsOK, NoReply

\* Each part stays typed while its variables do not change.
LEMMA LinkSame == LinkOK /\ UNCHANGED link => LinkOK'
  BY DEF LinkOK, link

\* The messages of the pool are typed by the counters of requests and jobs.
LEMMA PoolSame == PoolOK /\ UNCHANGED <<pool, msgId>> => PoolOK'
  BY DEF PoolOK, pool, Messages, Asked

\* The requests, too.
LEMMA RequestsSame == RequestsOK /\ UNCHANGED requests => RequestsOK'
  BY DEF RequestsOK, requests

\* A message stays one as the counters grow.
LEMMA MessagesGrow ==
    TypeOK /\ msgId' \in Nat /\ msgId' >= msgId /\ jobs' \in Nat /\ jobs' >= jobs
       => Messages \subseteq Messages'
  BY DEF TypeOK, Messages

\* Where a dialling thread waits for the answer to what it asked.
LEMMA Awaits == Awaiting["subscribe"] = "subscribeWait" /\ Awaiting["authorize"] = "authorizeWait"
  BY DEF Awaiting

-----------------------------------------------------------------------------
\* Dialling keeps the types.
LEMMA DialTypes ==
    ASSUME TypeOK, NEW t \in Dialers,
           \/ \E from \in Places : Dial(t, from) /\ UNCHANGED <<session, requests, shares, receiving, pool>>
           \/ Connecting(t)
           \/ DialRetry(t) /\ UNCHANGED <<session, requests, shares, receiving, pool>>
    PROVE  TypeOK'
<1> USE StratumAssumption, Distinct
<1>0. LinkOK /\ PoolOK /\ RequestsOK /\ RestOK BY TypeParts
<1>1. UNCHANGED <<session, requests, shares, receiving, pool>>
    BY DEF Connecting
<1>2. RequestsOK' /\ PoolOK'
    BY <1>0, <1>1, RequestsSame, PoolSame DEF requests
<1>3. Messages' = Messages /\ jobs' = jobs
    BY <1>1 DEF Messages, requests, pool
<1>4. LinkOK' /\ pc' \in [Threads -> Places]
    <2>1. ASSUME Dial(t, pc[t]) \/ DialRetry(t) PROVE LinkOK' /\ pc' \in [Threads -> Places]
        <3>1. /\ socket' = Raw(t) /\ Goto(t, "dial") /\ UNCHANGED <<running, conn, conns>>
              /\ connected' \in {connected, FALSE}
            BY <2>1 DEF Dial, DialRetry
        <3>2. pc' \in [Threads -> Places]
            BY <1>0, <3>1, GotoOK DEF RestOK, Places
        <3>3. socket' \in Socks
            BY <3>1 DEF Socks
        <3> QED BY <1>0, <3>1, <3>2, <3>3 DEF LinkOK
    <2>2. ASSUME DialFail(t) PROVE LinkOK' /\ pc' \in [Threads -> Places]
        BY <1>0, <2>2, GotoOK DEF DialFail, LinkOK, RestOK, Places
    <2>3. ASSUME DialOk(t) PROVE LinkOK' /\ pc' \in [Threads -> Places]
        <3>1. conns + 1 \in Receivers /\ conns' = conns + 1 /\ conns' \in 0 .. MaxConn
            BY <1>0, <2>3 DEF DialOk, LinkOK
        <3>2. conn' \in [Receivers -> ConnStates]
            BY <1>0, <2>3, <3>1 DEF DialOk, LinkOK, ConnStates
        <3>3. socket' \in Socks
            BY <1>0, <2>3, <3>1 DEF DialOk, LinkOK, Socks
        <3>4. pc' \in [Threads -> Places]
            BY <1>0, <2>3, <3>1 DEF DialOk, RestOK, Places
        <3> QED BY <2>3, <3>1, <3>2, <3>3, <3>4 DEF DialOk, LinkOK
    <2> QED BY <2>1, <2>2, <2>3 DEF Connecting, Dial
<1>5. RestOK'
    BY <1>0, <1>1, <1>3, <1>4 DEF RestOK, session, shares, receiving
<1> QED BY <1>2, <1>4, <1>5, TypeParts

\* Subscribing, authorizing and what comes of it.
LEMMA HandshakeTypes ==
    ASSUME TypeOK, NEW t \in Dialers,
           \/ Ask(t, "subscribe") \/ Ask(t, "authorize")
           \/ Subscribed(t) \/ Authorized(t) \/ HandshakeFailed(t)
    PROVE  TypeOK'
<1> USE StratumAssumption, Distinct
<1>0. LinkOK /\ PoolOK /\ RequestsOK /\ RestOK BY TypeParts
<1>1. CASE Ask(t, "subscribe") \/ Ask(t, "authorize")
    <2>1. PICK kind \in {"subscribe", "authorize"} : Ask(t, kind)
        BY <1>1
    <2>2. RequestsOK' /\ PoolOK' /\ Messages \subseteq Messages'
        BY <2>1, RequestOK DEF Ask
    <2>3. LinkOK' /\ jobs' = jobs /\ UNCHANGED <<session, shares, receiving>>
        BY <1>0, <2>1, LinkSame DEF Ask, Request
    <2>4. pc' \in [Threads -> Places]
        <3>1. Awaiting[kind] \in Places
            BY Awaits DEF Places
        <3> QED BY <1>0, <2>1, <3>1, GotoOK DEF Ask, RestOK
    <2>5. hand' \in [Receivers -> Messages']
        BY <1>0, <2>2, <2>3 DEF RestOK, receiving
    <2> QED BY <1>0, <2>2, <2>3, <2>4, <2>5, TypeParts DEF RestOK, session, shares, receiving
<1>2. CASE Subscribed(t) \/ Authorized(t)
    <2>1. /\ Returns(t) /\ UNCHANGED <<link, job, shares, at, hand, pool>>
          /\ (authorized' = authorized \/ authorized' = TRUE)
          /\ (en' = en \/ en' = reply[t]) /\ reply[t] # NoReply
        <3>1. CASE Subscribed(t) BY <3>1 DEF Subscribed, receiving
        <3>2. CASE Authorized(t) BY <3>2 DEF Authorized, receiving
        <3> QED BY <1>2, <3>1, <3>2
    <2>7. authorized' \in BOOLEAN /\ en' \in 0 .. MaxConn
        <3>1. reply[t] \in Receivers
            BY <1>0, <2>1 DEF RequestsOK
        <3>2. authorized \in BOOLEAN /\ en \in 0 .. MaxConn
            BY <1>0 DEF RestOK
        <3>3. authorized' \in BOOLEAN BY <2>1, <3>2
        <3>4. MaxConn \in Nat OBVIOUS
        <3>5. en' \in 0 .. MaxConn BY <2>1, <3>1, <3>2, <3>4 DEF Receivers
        <3> QED BY <3>3, <3>5
    <2>2. RequestsOK' /\ msgId' = msgId
        BY <2>1, ReturnsOK
    <2>3. LinkOK' /\ PoolOK' /\ Messages' = Messages /\ jobs' = jobs
        BY <1>0, <2>1, <2>2, LinkSame, PoolSame DEF Messages, pool
    <2>4. \E where \in {"authorize", "up", "top"} : Goto(t, where)
        BY <1>2 DEF Subscribed, Authorized
    <2>5. pc' \in [Threads -> Places]
        BY <1>0, <2>4, GotoOK DEF RestOK, Places
    <2>6. attempts' \in [Receivers -> 0 .. MaxReconnect]
        BY <1>0, <1>2 DEF Subscribed, Authorized, RestOK, receiving
    <2> QED BY <1>0, <2>1, <2>2, <2>3, <2>5, <2>6, <2>7, TypeParts DEF RestOK, shares
<1>3. CASE HandshakeFailed(t)
    <2>1. RequestsOK' /\ msgId' = msgId
        BY <1>0, <1>3, ReturnsOK, RequestsSame DEF HandshakeFailed, requests
    <2>2. \E where \in Places : Disconnect(t, where)
        BY <1>3 DEF HandshakeFailed, Places
    <2>3. LinkOK' /\ PoolOK' /\ pc' \in [Threads -> Places]
        BY <2>1, <2>2, DisconnectOK
    <2>4. UNCHANGED <<session, shares, receiving, jobs>> /\ Messages' = Messages
        BY <1>3, <2>1, <2>2 DEF HandshakeFailed, Disconnect, Messages
    <2> QED BY <1>0, <2>1, <2>3, <2>4, TypeParts DEF RestOK, session, shares, receiving
<1> QED BY <1>1, <1>2, <1>3

\* Stopping and reconnecting.
LEMMA DropTypes ==
    ASSUME TypeOK, NEW t \in Dialers, NEW where \in Places, Disconnect(t, where),
           UNCHANGED <<session, requests, shares, receiving>>
    PROVE  TypeOK'
<1>0. LinkOK /\ PoolOK /\ RequestsOK /\ RestOK BY TypeParts
<1>1. LinkOK' /\ PoolOK' /\ pc' \in [Threads -> Places]
    BY DisconnectOK, Distinct DEF requests
<1>2. RequestsOK' /\ Messages' = Messages /\ jobs' = jobs
    BY <1>0, RequestsSame DEF requests, Messages, Disconnect
<1> QED BY <1>0, <1>1, <1>2, TypeParts DEF RestOK, session, shares, receiving

\* Shares.
LEMMA ShareTypes ==
    ASSUME TypeOK, NEW m \in Miners, Submit(m) \/ SubmitUnsent(m) \/ SubmitReturns(m)
    PROVE  TypeOK'
<1> USE StratumAssumption, Distinct
<1>0. LinkOK /\ PoolOK /\ RequestsOK /\ RestOK BY TypeParts
<1>1. CASE Submit(m)
    <2>1. RequestsOK' /\ PoolOK' /\ Messages \subseteq Messages'
        BY <1>1, RequestOK DEF Submit
    <2>2. /\ LinkOK' /\ jobs' = jobs /\ UNCHANGED <<session, accepted, rejected, receiving>>
          /\ submitted' = submitted + 1
        BY <1>0, <1>1, LinkSame DEF Submit, Request
    <2>3. submitted' \in 0 .. MaxEvents
        BY <1>0, <1>1 DEF Submit, CanSubmit, Budget, RestOK, LinkOK, PoolOK
    <2>4. pc' \in [Threads -> Places]
        BY <1>0, <1>1, GotoOK DEF Submit, RestOK, Places
    <2>5. hand' \in [Receivers -> Messages']
        BY <1>0, <2>1, <2>2 DEF RestOK, receiving
    <2> QED BY <1>0, <2>1, <2>2, <2>3, <2>4, <2>5, TypeParts DEF RestOK, session, receiving
<1>2. CASE SubmitUnsent(m)
    <2>1. UNCHANGED <<link, session, requests, accepted, pc, receiving, pool>>
        BY <1>2 DEF SubmitUnsent
    <2>2. RequestsOK' /\ PoolOK' /\ LinkOK' /\ Messages' = Messages /\ jobs' = jobs
        BY <1>0, <2>1, RequestsSame, PoolSame, LinkSame DEF requests, pool, Messages
    <2>3. submitted' \in 0 .. MaxEvents /\ rejected' \in Nat
        BY <1>0, <1>2 DEF SubmitUnsent, CanSubmit, Budget, RestOK, LinkOK, PoolOK
    <2> QED BY <1>0, <2>1, <2>2, <2>3, TypeParts DEF RestOK, session, receiving
<1>3. CASE SubmitReturns(m)
    <2>1. Returns(m) /\ UNCHANGED <<link, session, submitted, receiving, pool>>
        BY <1>3 DEF SubmitReturns
    <2>2. RequestsOK' /\ msgId' = msgId
        BY <2>1, ReturnsOK
    <2>3. PoolOK' /\ LinkOK' /\ Messages' = Messages /\ jobs' = jobs
        BY <1>0, <2>1, <2>2, PoolSame, LinkSame DEF pool, Messages
    <2>4. accepted' \in Nat /\ rejected' \in Nat
        BY <1>0, <1>3 DEF SubmitReturns, RestOK
    <2>5. pc' \in [Threads -> Places]
        BY <1>0, <1>3, GotoOK DEF SubmitReturns, RestOK, Places
    <2> QED BY <1>0, <2>1, <2>2, <2>3, <2>4, <2>5, TypeParts DEF RestOK, session, receiving
<1> QED BY <1>1, <1>2, <1>3

\* The receive loop, apart from what it handles.
LEMMA LoopTypes ==
    ASSUME TypeOK, NEW r \in Receivers,
           \/ LoopEnds(r) \/ LoopLost(r) \/ LoopRecv(r)
           \/ RecvEof(r) \/ RecvTimeout(r) \/ RecvError(r)
    PROVE  TypeOK'
<1> USE StratumAssumption, Distinct
<1>0. LinkOK /\ PoolOK /\ RequestsOK /\ RestOK BY TypeParts
<1>1. /\ UNCHANGED <<running, socket, conn, conns, session, requests, shares, hand, pool>>
      /\ connected' \in BOOLEAN
    BY <1>0 DEF LoopEnds, LoopLost, LoopRecv, RecvEof, RecvTimeout, RecvError, link, receiving, LinkOK
<1>2. RequestsOK' /\ PoolOK' /\ LinkOK' /\ Messages' = Messages /\ jobs' = jobs
    BY <1>0, <1>1, RequestsSame, PoolSame DEF LinkOK, requests, pool, Messages
<1>3. \E where \in {"done", "backoff", "recv", "top"} : Goto(r, where)
    BY DEF LoopEnds, LoopLost, LoopRecv, RecvEof, RecvTimeout, RecvError
<1>4. pc' \in [Threads -> Places]
    BY <1>0, <1>3, GotoOK DEF RestOK, Places
<1>5. attempts' \in [Receivers -> 0 .. MaxReconnect]
    BY <1>0 DEF LoopEnds, LoopLost, LoopRecv, RecvEof, RecvTimeout, RecvError, receiving, RestOK
<1> QED BY <1>0, <1>1, <1>2, <1>4, <1>5, TypeParts DEF RestOK, session, shares

\* Reading and handling messages.
LEMMA ReadTypes ==
    ASSUME TypeOK, NEW r \in Receivers,
           Recv(r) \/ RecvTorn(r) \/ HandleResponse(r) \/ HandleNotify(r)
    PROVE  TypeOK'
<1> USE StratumAssumption, Distinct
<1>0. LinkOK /\ PoolOK /\ RequestsOK /\ RestOK BY TypeParts
<1>1. /\ UNCHANGED <<link, shares, msgId, pending, reqId, authorized, en>>
      /\ UNCHANGED <<toPool, poolSub, poolTaken, jobs>>
    BY DEF Recv, RecvTorn, HandleResponse, HandleNotify, requests, session, pool
<1>2. LinkOK' /\ Messages' = Messages /\ Asked' = Asked
    BY <1>0, <1>1, LinkSame DEF Messages, Asked
<1>3. \E where \in {"handle", "top"} : Goto(r, where)
    BY DEF Recv, RecvTorn, HandleResponse, HandleNotify
<1>4. pc' \in [Threads -> Places]
    BY <1>0, <1>3, GotoOK DEF RestOK, Places
<1>5. attempts' \in [Receivers -> 0 .. MaxReconnect]
    <2>1. attempts' = attempts \/ attempts' = [attempts EXCEPT ![r] = 0]
        BY DEF Recv, RecvTorn, HandleResponse, HandleNotify
    <2>2. 0 \in 0 .. MaxReconnect
        OBVIOUS
    <2> QED BY <1>0, <2>1, <2>2 DEF RestOK
<1>6. fromPool' \in [Receivers -> Seq(Messages)]
    <2>1. CASE Recv(r) \/ RecvTorn(r)
        <3>1. PICK c \in Receivers : fromPool[c] # <<>> /\ fromPool' = [fromPool EXCEPT ![c] = Tail(@)]
            BY <2>1 DEF Recv, RecvTorn
        <3>2. Tail(fromPool[c]) \in Seq(Messages)
            BY <1>0, <3>1 DEF PoolOK
        <3> QED BY <1>0, <3>1, <3>2 DEF PoolOK
    <2>2. CASE HandleResponse(r) \/ HandleNotify(r)
        BY <1>0, <2>2 DEF HandleResponse, HandleNotify, pool, PoolOK
    <2> QED BY <2>1, <2>2
<1>7. hand' \in [Receivers -> Messages]
    <2>1. CASE Recv(r)
        <3>1. PICK c \in Receivers : fromPool[c] # <<>> /\ hand' = [hand EXCEPT ![r] = Head(fromPool[c])]
            BY <2>1 DEF Recv
        <3>2. Head(fromPool[c]) \in Messages
            BY <1>0, <3>1 DEF PoolOK
        <3> QED BY <1>0, <3>1, <3>2 DEF RestOK
    <2>2. CASE RecvTorn(r)
        BY <1>0, <2>2 DEF RecvTorn, RestOK
    <2>3. CASE HandleResponse(r) \/ HandleNotify(r)
        <3>1. NoMsg \in Messages
            BY DEF Messages, NoMsg
        <3>2. hand' = [hand EXCEPT ![r] = NoMsg]
            BY <2>3 DEF HandleResponse, HandleNotify
        <3> QED BY <1>0, <3>1, <3>2 DEF RestOK
    <2> QED BY <2>1, <2>2, <2>3
<1>8. reply' \in [Threads -> Receivers \union {NoReply}]
    <2>1. CASE HandleResponse(r)
        <3>1. hand[r] \in Messages /\ hand[r].kind = "response"
            BY <1>0, <2>1 DEF RestOK, HandleResponse
        <3>2. hand[r].conn \in Receivers
            BY <3>1 DEF Messages
        <3>3. reply' = [t \in Threads |-> IF reqId[t] = hand[r].id /\ hand[r].id \in pending
                                         THEN hand[r].conn ELSE reply[t]]
            BY <2>1 DEF HandleResponse
        <3> QED BY <1>0, <3>2, <3>3 DEF RequestsOK
    <2>2. CASE ~HandleResponse(r)
        BY <1>0, <2>2 DEF Recv, RecvTorn, HandleNotify, requests, RequestsOK
    <2> QED BY <2>1, <2>2
<1>9. job' \in [id : 0 .. jobs, conn : 0 .. MaxConn, en : 0 .. MaxConn]
    <2>1. CASE HandleNotify(r)
        <3>1. hand[r] \in Messages /\ hand[r].kind = "notify"
            BY <1>0, <2>1 DEF RestOK, HandleNotify
        <3>2. hand[r].conn \in Receivers /\ hand[r].id \in 1 .. jobs
            BY <3>1 DEF Messages
        <3>3. job' = [id |-> hand[r].id, conn |-> hand[r].conn, en |-> en]
            BY <2>1 DEF HandleNotify
        <3>4. en \in 0 .. MaxConn /\ jobs \in Nat
            BY <1>0 DEF RestOK, PoolOK
        <3> QED BY <3>2, <3>3, <3>4
    <2>2. CASE ~HandleNotify(r)
        BY <1>0, <2>2 DEF Recv, RecvTorn, HandleResponse, session, RestOK
    <2> QED BY <2>1, <2>2
<1>10. PoolOK'
    BY <1>0, <1>1, <1>2, <1>6 DEF PoolOK
<1>11. RequestsOK'
    BY <1>0, <1>1, <1>8 DEF RequestsOK
<1> QED BY <1>0, <1>1, <1>2, <1>4, <1>5, <1>7, <1>9, <1>10, <1>11, TypeParts DEF RestOK, shares

\* The pool.
LEMMA PoolTypes ==
    ASSUME TypeOK, \/ \E q \in toPool : PoolAgrees(q)
                   \/ \E c \in Receivers : PoolNotifies(c) \/ PoolCloses(c)
    PROVE  TypeOK'
<1> USE StratumAssumption, Distinct
<1>0. LinkOK /\ PoolOK /\ RequestsOK /\ RestOK BY TypeParts
<1>1. /\ UNCHANGED <<session, requests, shares, pc, receiving>>
      /\ UNCHANGED <<running, connected, socket, conns>>
    BY DEF PoolAgrees, PoolNotifies, PoolCloses, link
<1>2. ASSUME NEW c \in Receivers, NEW msg \in Messages', Messages \subseteq Messages',
             Deliver(c, msg)
      PROVE  fromPool' \in [Receivers -> Seq(Messages')]
    <2>1. \A s \in Seq(Messages) : s \in Seq(Messages')
        BY <1>2
    <2>2. fromPool \in [Receivers -> Seq(Messages')]
        BY <1>0, <2>1 DEF PoolOK
    <2>3. Append(fromPool[c], msg) \in Seq(Messages')
        BY <1>2, <2>2
    <2> QED BY <1>2, <2>2, <2>3 DEF Deliver
<1>3. CASE \E q \in toPool : PoolAgrees(q)
    <2>1. PICK q \in toPool : PoolAgrees(q)
        BY <1>3
    <2>2. q \in Asked
        BY <1>0, <2>1 DEF PoolOK
    <2>3. Messages' = Messages /\ Asked' = Asked /\ jobs' = jobs /\ UNCHANGED link
        BY <1>1, <2>1 DEF PoolAgrees, Messages, Asked, requests
    <2>4. [kind |-> "response", id |-> q.id, conn |-> q.conn] \in Messages /\ q.conn \in Receivers
        BY <2>2 DEF Messages, Asked
    <2>5. fromPool' \in [Receivers -> Seq(Messages')]
        BY <1>2, <2>1, <2>3, <2>4 DEF PoolAgrees
    <2>6. toPool' \subseteq Asked /\ poolSub' \subseteq Receivers /\ poolTaken' \in Nat
        <3>1. /\ toPool' = toPool \ {q}
              /\ poolSub' \in {poolSub, poolSub \union {q.conn}}
              /\ poolTaken' \in {poolTaken, poolTaken + 1}
            BY <2>1 DEF PoolAgrees
        <3> QED BY <1>0, <2>4, <3>1 DEF PoolOK
    <2>7. PoolOK'
        BY <1>0, <2>3, <2>5, <2>6 DEF PoolOK
    <2> QED BY <1>0, <1>1, <2>3, <2>7, LinkSame, RequestsSame, TypeParts
            DEF RestOK, session, shares, receiving
<1>4. CASE \E c \in Receivers : PoolNotifies(c)
    <2>1. PICK c \in Receivers : PoolNotifies(c)
        BY <1>4
    <2>2. jobs' = jobs + 1 /\ jobs' \in 0 .. MaxEvents /\ UNCHANGED <<toPool, poolSub, poolTaken, link, msgId>>
        BY <1>0, <2>1 DEF PoolNotifies, Budget, LinkOK, PoolOK, RestOK, requests
    <2>3. Messages \subseteq Messages' /\ Asked' = Asked
        BY <1>0, <2>2 DEF Messages, Asked, PoolOK
    <2>4. [kind |-> "notify", id |-> jobs + 1, conn |-> c] \in Messages'
        BY <1>0, <2>2 DEF Messages, PoolOK
    <2>5. fromPool' \in [Receivers -> Seq(Messages')]
        BY <1>2, <2>1, <2>3, <2>4 DEF PoolNotifies
    <2>6. PoolOK'
        BY <1>0, <2>2, <2>3, <2>5 DEF PoolOK
    <2>7. job' \in [id : 0 .. jobs', conn : 0 .. MaxConn, en : 0 .. MaxConn]
        <3>1. jobs \in Nat /\ job \in [id : 0 .. jobs, conn : 0 .. MaxConn, en : 0 .. MaxConn]
            BY <1>0 DEF PoolOK, RestOK
        <3> QED BY <1>1, <2>2, <3>1 DEF session
    <2>8. hand' \in [Receivers -> Messages']
        BY <1>0, <1>1, <2>3 DEF RestOK, receiving
    <2>9. RestOK'
        BY <1>0, <1>1, <2>7, <2>8 DEF RestOK, session, shares, receiving
    <2> QED BY <1>0, <1>1, <2>2, <2>6, <2>9, LinkSame, RequestsSame, TypeParts
<1>5. CASE \E c \in Receivers : PoolCloses(c)
    <2>1. PICK c \in Receivers : PoolCloses(c)
        BY <1>5
    <2>2. conn' \in [Receivers -> ConnStates]
        BY <1>0, <2>1 DEF PoolCloses, LinkOK, ConnStates
    <2>3. LinkOK'
        BY <1>0, <1>1, <2>2 DEF LinkOK
    <2>4. Messages' = Messages /\ Asked' = Asked /\ UNCHANGED <<fromPool, poolTaken, jobs>>
        BY <1>1, <2>1 DEF PoolCloses, Messages, Asked, requests
    <2>5. PoolOK'
        BY <1>0, <2>1, <2>4 DEF PoolCloses, PoolOK
    <2> QED BY <1>0, <1>1, <2>3, <2>4, <2>5, RequestsSame, TypeParts
            DEF RestOK, session, shares, receiving
<1> QED BY <1>3, <1>4, <1>5

\* A step keeps the types.
LEMMA StTypeStep == TypeOK /\ [Next]_vars => TypeOK'
<1> SUFFICES ASSUME TypeOK, [Next]_vars PROVE TypeOK'
    OBVIOUS
<1>1. CASE Start
    BY <1>1, DialTypes, Distinct DEF Start, Places
<1>2. CASE Stop
    BY <1>2, DropTypes, Distinct DEF Stop, Places
<1>3. ASSUME NEW t \in Dialers, DialerNext(t) PROVE TypeOK'
    BY <1>3, DialTypes, HandshakeTypes DEF DialerNext
<1>4. ASSUME NEW r \in Receivers, ReceiverNext(r) PROVE TypeOK'
    <2>1. r \in Dialers BY Distinct
    <2>2. CASE DialerNext(r)
        BY <1>3, <2>1, <2>2
    <2>3. CASE Reconnect(r)
        BY <2>1, <2>3, DropTypes DEF Reconnect, Places
    <2>4. CASE Redial(r)
        BY <2>1, <2>4, DialTypes DEF Redial, Places
    <2> QED BY <1>4, <2>2, <2>3, <2>4, LoopTypes, ReadTypes DEF ReceiverNext
<1>5. ASSUME NEW t \in Dialers, DialRetry(t), UNCHANGED <<session, requests, shares, receiving, pool>>
      PROVE  TypeOK'
    BY <1>5, DialTypes
<1>6. CASE UNCHANGED vars
    BY <1>6, LinkSame, PoolSame, RequestsSame, TypeParts
       DEF vars, RestOK, link, session, requests, shares, receiving, pool, Messages
<1> QED BY <1>1, <1>2, <1>3, <1>4, <1>5, <1>6, ShareTypes, PoolTypes, Distinct DEF Next

-----------------------------------------------------------------------------
\* A receive thread is born with its connection, with no attempts made; a
\* session that is on has the thread of its last connection, which has not lost
\* it yet, or is about to give the session up.
Born ==
    \A r \in Receivers : r > conns => pc[r] = "unborn" /\ attempts[r] = 0
Served ==
    running /\ connected =>
        /\ conns \in Receivers
        /\ \/ pc[conns] \in {"top", "recv", "handle"} /\ attempts[conns] = 0
           \/ pc[conns] = "backoff"

WaitPlaces == {"subscribeWait", "authorizeWait", "submitWait"}

\* What a step does to the table of requests: t asks, t's call returns, or
\* neither, and then nobody's place among those who wait changes.
Asks(t) ==
    /\ msgId' = msgId + 1 /\ pending' = pending \union {msgId + 1}
    /\ reqId' = [reqId EXCEPT ![t] = msgId + 1]
    /\ pc[t] \notin WaitPlaces /\ Waiting' = Waiting \union {t}
CallEnds(t) ==
    /\ t \in Waiting /\ Waiting' = Waiting \ {t}
    /\ pending' = pending \ {reqId[t]} /\ reqId' = [reqId EXCEPT ![t] = 0]
NobodyMoves == Waiting' = Waiting /\ UNCHANGED <<pending, reqId>>

\* Who waits can be told from the places, before a step and after it.
LEMMA WaitingOf ==
    /\ \A t \in Threads : t \in Waiting <=> pc[t] \in WaitPlaces
    /\ \A t \in Threads : t \in Waiting' <=> pc'[t] \in WaitPlaces
    /\ Waiting \subseteq Threads /\ Waiting' \subseteq Threads
  BY DEF Waiting, WaitPlaces

\* Of steps that keep everybody where they wait.
LEMMA PlacesSame ==
    ASSUME \A u \in Threads : pc'[u] \in WaitPlaces <=> pc[u] \in WaitPlaces
    PROVE  Waiting' = Waiting
  BY WaitingOf

\* One thread goes somewhere: it begins or ceases to wait, all others stay.
LEMMA OneGoes ==
    ASSUME TypeOK, NEW t \in Threads, NEW where, Goto(t, where)
    PROVE  /\ \A u \in Threads : pc'[u] = IF u = t THEN where ELSE pc[u]
           /\ where \in WaitPlaces => Waiting' = Waiting \union {t}
           /\ where \notin WaitPlaces => Waiting' = Waiting \ {t}
<1>1. \A u \in Threads : pc'[u] = IF u = t THEN where ELSE pc[u]
    BY DEF TypeOK, Goto
<1> QED BY <1>1, WaitingOf

\* disconnect() moves its caller, and wakes a thread it closed the socket under.
LEMMA DisconnectPlaces ==
    ASSUME TypeOK, NEW t \in Threads, NEW where, Disconnect(t, where)
    PROVE  /\ pc'[t] = where /\ ~running' /\ ~connected'
           /\ \A u \in Threads : u # t => pc'[u] = pc[u] \/ (pc[u] = "dial" /\ pc'[u] = "dialClosed")
           /\ where \notin WaitPlaces => Waiting' = Waiting \ {t}
<1>1. /\ pc'[t] = where
      /\ \A u \in Threads : u # t => pc'[u] = pc[u] \/ (pc[u] = "dial" /\ pc'[u] = "dialClosed")
    BY DEF Disconnect
<1>2. where \notin WaitPlaces => Waiting' = Waiting \ {t}
    BY <1>1, WaitingOf DEF WaitPlaces
<1> QED BY <1>1, <1>2 DEF Disconnect

\* What a connection that comes up does to the places.
LEMMA DialOkPlaces ==
    ASSUME TypeOK, Born, NEW t \in Dialers, DialOk(t)
    PROVE  /\ conns + 1 \in Receivers /\ conns' = conns + 1 /\ conns + 1 # t
           /\ pc[conns + 1] = "unborn" /\ attempts[conns + 1] = 0
           /\ \A u \in Threads : pc'[u] = IF u = conns + 1 THEN "top"
                                         ELSE IF u = t THEN "subscribe" ELSE pc[u]
<1>1. conns \in 0 .. MaxConn /\ conns < MaxConn /\ conns' = conns + 1
    BY DEF TypeOK, DialOk
<1>2. conns + 1 \in Receivers /\ conns + 1 > conns
    BY <1>1, StratumAssumption, Distinct
<1>3. pc[conns + 1] = "unborn" /\ attempts[conns + 1] = 0
    BY <1>2 DEF Born
<1>4. conns + 1 # t
    BY <1>3 DEF DialOk
<1>5. \A u \in Threads : pc'[u] = IF u = conns + 1 THEN "top" ELSE IF u = t THEN "subscribe" ELSE pc[u]
    BY <1>2, <1>4, Distinct DEF DialOk, TypeOK
<1> QED BY <1>1, <1>2, <1>3, <1>4, <1>5

\* The steps of a dialler that ask nothing.
LEMMA RequestSteps ==
    ASSUME TypeOK, Born, [Next]_vars
    PROVE  NobodyMoves \/ \E t \in Threads : Asks(t) \/ CallEnds(t)
<1> USE Distinct
<1>0. \A t \in Threads : t \in Waiting <=> pc[t] \in WaitPlaces
    BY WaitingOf
<1>1. ASSUME NEW t \in Dialers, \/ Dial(t, "idle") \/ Dial(t, "pause") \/ DialFail(t) \/ DialRetry(t),
             UNCHANGED requests
      PROVE  NobodyMoves
    <2>1. t \in Threads /\ t \notin Waiting
        BY <1>0, <1>1 DEF Dial, DialFail, DialRetry, WaitPlaces
    <2>2. \E where \in {"dial", "idle", "top"} : Goto(t, where)
        BY <1>1 DEF Dial, DialFail, DialRetry
    <2>3. Waiting' = Waiting
        BY <2>1, <2>2, OneGoes DEF WaitPlaces
    <2> QED BY <1>1, <2>3 DEF NobodyMoves, requests
<1>2. ASSUME NEW t \in Dialers, DialOk(t), UNCHANGED requests
      PROVE  NobodyMoves
    <2>1. \A u \in Threads : pc'[u] \in WaitPlaces <=> pc[u] \in WaitPlaces
        <3>1. pc[t] \notin WaitPlaces /\ "subscribe" \notin WaitPlaces /\ "top" \notin WaitPlaces
              /\ "unborn" \notin WaitPlaces
            BY <1>2 DEF WaitPlaces, DialOk
        <3> QED BY <1>2, <3>1, DialOkPlaces
    <2> QED BY <1>2, <2>1, PlacesSame DEF NobodyMoves, requests
<1>3. ASSUME NEW t \in Dialers, Ask(t, "subscribe") \/ Ask(t, "authorize")
      PROVE  Asks(t)
    <2>1. \E where \in {"subscribeWait", "authorizeWait"} : Goto(t, where)
        BY <1>3, Awaits DEF Ask
    <2>2. Waiting' = Waiting \union {t}
        BY <2>1, OneGoes DEF WaitPlaces
    <2>3. pc[t] \notin WaitPlaces
        BY <1>3 DEF Ask, WaitPlaces
    <2>4. msgId' = msgId + 1 /\ pending' = pending \union {msgId + 1}
          /\ reqId' = [reqId EXCEPT ![t] = msgId + 1]
        BY <1>3 DEF Ask, Request
    <2> QED BY <2>2, <2>3, <2>4 DEF Asks
<1>4. ASSUME NEW t \in Dialers, Subscribed(t) \/ Authorized(t)
      PROVE  CallEnds(t)
    <2>1. \E where \in {"authorize", "up", "top"} : Goto(t, where)
        BY <1>4 DEF Subscribed, Authorized
    <2>2. Waiting' = Waiting \ {t} /\ t \in Waiting
        BY <1>0, <1>4, <2>1, OneGoes DEF WaitPlaces, Subscribed, Authorized
    <2> QED BY <1>4, <2>2 DEF CallEnds, Subscribed, Authorized, Returns
<1>5. ASSUME NEW t \in Dialers, HandshakeFailed(t)
      PROVE  NobodyMoves \/ CallEnds(t)
    <2>1. \E where \in {"idle", "top"} : Disconnect(t, where)
        BY <1>5 DEF HandshakeFailed
    <2>2. Waiting' = Waiting \ {t}
        BY <2>1, DisconnectPlaces DEF WaitPlaces
    <2>3. CASE UNCHANGED requests /\ pc[t] \in {"subscribe", "authorize"}
        BY <1>0, <2>2, <2>3 DEF NobodyMoves, requests, WaitPlaces
    <2>4. CASE Returns(t) /\ pc[t] \in {"subscribeWait", "authorizeWait"}
        BY <1>0, <2>2, <2>4 DEF CallEnds, Returns, WaitPlaces
    <2> QED BY <1>5, <2>3, <2>4 DEF HandshakeFailed
<1>6. ASSUME NEW t \in Dialers, DialerNext(t)
      PROVE  NobodyMoves \/ Asks(t) \/ CallEnds(t)
    BY <1>1, <1>2, <1>3, <1>4, <1>5, <1>6 DEF DialerNext, Connecting
<1>7. CASE Start
    BY <1>1, <1>7 DEF Start
<1>8. CASE Stop
    <2>1. Waiting' = Waiting
        <3>1. Ctl \in Threads /\ Ctl \notin Waiting /\ "idle" \notin WaitPlaces
            BY <1>0, <1>8 DEF Stop, WaitPlaces
        <3>2. Disconnect(Ctl, "idle")
            BY <1>8 DEF Stop
        <3> QED BY <3>1, <3>2, DisconnectPlaces
    <2> QED BY <1>8, <2>1 DEF NobodyMoves, Stop, requests
<1>9. ASSUME NEW r \in Receivers, ReceiverNext(r), ~DialerNext(r)
      PROVE  NobodyMoves
    <2>1. UNCHANGED <<pending, reqId>>
        BY <1>9 DEF ReceiverNext, LoopEnds, LoopLost, LoopRecv, Reconnect, Redial, Recv, RecvTorn,
                    RecvEof, RecvTimeout, RecvError, HandleResponse, HandleNotify, requests
    <2>2. r \in Threads /\ r \notin Waiting
        BY <1>0, <1>9 DEF ReceiverNext, LoopEnds, LoopLost, LoopRecv, Reconnect, Redial, Dial, Recv,
                    RecvTorn, RecvEof, RecvTimeout, RecvError, SocketBroken, Reads, HandleResponse,
                    HandleNotify, WaitPlaces
    <2>3. CASE Reconnect(r)
        BY <2>1, <2>2, <2>3, DisconnectPlaces DEF Reconnect, WaitPlaces, NobodyMoves
    <2>4. CASE ~Reconnect(r)
        <3>1. \E where \in {"done", "backoff", "recv", "dial", "handle", "top"} : Goto(r, where)
            BY <1>9, <2>4 DEF ReceiverNext, LoopEnds, LoopLost, LoopRecv, Redial, Dial, Recv,
                    RecvTorn, RecvEof, RecvTimeout, RecvError, HandleResponse, HandleNotify
        <3>2. Waiting' = Waiting
            BY <2>2, <3>1, OneGoes DEF WaitPlaces
        <3> QED BY <2>1, <3>2 DEF NobodyMoves
    <2> QED BY <2>3, <2>4
<1>10. ASSUME NEW m \in Miners, Submit(m) \/ SubmitUnsent(m) \/ SubmitReturns(m)
       PROVE  NobodyMoves \/ Asks(m) \/ CallEnds(m)
    <2>1. CASE Submit(m)
        <3>1. Waiting' = Waiting \union {m}
            BY <2>1, OneGoes DEF Submit, WaitPlaces
        <3> QED BY <2>1, <3>1 DEF Submit, CanSubmit, Request, Asks, WaitPlaces
    <2>2. CASE SubmitUnsent(m)
        BY <2>2, PlacesSame DEF SubmitUnsent, NobodyMoves, requests
    <2>3. CASE SubmitReturns(m)
        <3>1. Waiting' = Waiting \ {m} /\ m \in Waiting
            <4>1. m \in Threads /\ m \in Waiting /\ "mining" \notin WaitPlaces
                BY <1>0, <2>3 DEF SubmitReturns, WaitPlaces
            <4>2. Goto(m, "mining")
                BY <2>3 DEF SubmitReturns
            <4> QED BY <4>1, <4>2, OneGoes
        <3> QED BY <2>3, <3>1 DEF SubmitReturns, Returns, CallEnds
    <2> QED BY <1>10, <2>1, <2>2, <2>3
<1>11. CASE \/ \E q \in toPool : PoolAgrees(q)
            \/ \E c \in Receivers : PoolNotifies(c) \/ PoolCloses(c)
            \/ UNCHANGED vars
    <2>1. UNCHANGED <<pc, requests>>
        BY <1>11 DEF PoolAgrees, PoolNotifies, PoolCloses, vars
    <2> QED BY <2>1, PlacesSame DEF NobodyMoves, requests
<1> QED BY <1>1, <1>6, <1>7, <1>8, <1>9, <1>10, <1>11 DEF Next

\* The table of requests stays what the waiting threads ask for.
LEMMA PendingStep ==
    ASSUME TypeOK, Born, PendingIsWaiting, [Next]_vars
    PROVE  PendingIsWaiting'
<1>0. /\ reqId \in [Threads -> 0 .. msgId] /\ msgId \in Nat /\ Waiting \subseteq Threads
      /\ Waiting' \subseteq Threads
    BY WaitingOf DEF TypeOK
<1>1. CASE NobodyMoves
    BY <1>1 DEF NobodyMoves, PendingIsWaiting
<1>2. ASSUME NEW t \in Threads, Asks(t) PROVE PendingIsWaiting'
    <2>1. t \notin Waiting
        BY <1>2, WaitingOf DEF Asks
    <2>2. \A u \in Threads : reqId'[u] = IF u = t THEN msgId + 1 ELSE reqId[u]
        BY <1>0, <1>2 DEF Asks
    <2>3. \A u \in Waiting : reqId[u] # msgId + 1
        BY <1>0
    <2> QED BY <1>0, <1>2, <2>1, <2>2, <2>3 DEF Asks, PendingIsWaiting
<1>3. ASSUME NEW t \in Threads, CallEnds(t) PROVE PendingIsWaiting'
    <2>1. \A u \in Threads : u # t => reqId'[u] = reqId[u]
        BY <1>0, <1>3 DEF CallEnds
    <2> QED BY <1>0, <1>3, <2>1 DEF CallEnds, PendingIsWaiting
<1> QED BY <1>1, <1>2, <1>3, RequestSteps

\* What the step of one thread does to the threads that are not born yet, and to
\* the thread of the last connection.
LEMMA BornMoves ==
    ASSUME TypeOK, Born, NEW t \in Threads, pc[t] # "unborn", NEW where, Goto(t, where),
           conns' = conns, \A r \in Receivers : r # t => attempts'[r] = attempts[r]
    PROVE  Born'
<1>1. \A u \in Threads : pc'[u] = IF u = t THEN where ELSE pc[u]
    BY OneGoes
<1> QED BY <1>1, Distinct DEF Born

\* Served is kept by a step of a thread that is not the connection's receiver,
\* or that leaves it receiving or reconnecting.
LEMMA ServedStays ==
    ASSUME TypeOK, Served, NEW t \in Threads, NEW where, Goto(t, where), conns' = conns,
           running' => running, connected' => connected,
           \/ t # conns
           \/ pc[t] \notin {"top", "recv", "handle", "backoff"}
           \/ where \in {"top", "recv", "handle"} /\ pc[t] # "backoff" /\ attempts'[t] = 0
           \/ where = "backoff",
           \A r \in Receivers : r # t => attempts'[r] = attempts[r]
    PROVE  Served'
<1>1. \A u \in Threads : pc'[u] = IF u = t THEN where ELSE pc[u]
    BY OneGoes
<1>2. CASE ~(running' /\ connected')
    BY <1>2 DEF Served
<1>3. CASE running' /\ connected'
    <2>1. running /\ connected /\ conns \in Receivers /\ conns \in Threads
        BY <1>3, Distinct DEF Served
    <2>2. CASE conns # t
        BY <1>1, <2>1, <2>2 DEF Served
    <2>3. CASE conns = t
        BY <1>1, <2>1, <2>3 DEF Served
    <2> QED BY <2>2, <2>3
<1> QED BY <1>2, <1>3

\* disconnect() ends the session, and nobody is born by it.
LEMMA DisconnectServes ==
    ASSUME TypeOK, Born, NEW t \in Threads, pc[t] # "unborn", NEW where, Disconnect(t, where),
           UNCHANGED attempts
    PROVE  Born' /\ Served'
<1>1. Born'
    BY DisconnectPlaces, Distinct DEF Born, Disconnect
<1>2. Served'
    BY DisconnectPlaces DEF Served
<1> QED BY <1>1, <1>2

\* A session that is on is served by the thread of its last connection.
LEMMA ServedStep ==
    ASSUME TypeOK, Born, Served, [Next]_vars
    PROVE  Born' /\ Served'
<1> USE Distinct
<1>0. MaxReconnect \in Nat \ {0}
    BY StratumAssumption
<1>1. ASSUME NEW t \in Dialers, \/ Dial(t, "idle") \/ Dial(t, "pause") \/ DialFail(t) \/ DialRetry(t),
             UNCHANGED attempts
      PROVE  Born' /\ Served'
    <2>1. /\ conns' = conns /\ UNCHANGED running /\ (connected' => connected)
          /\ pc[t] \in {"idle", "pause", "dial", "dialClosed"}
        BY <1>1 DEF Dial, DialFail, DialRetry
    <2>2. PICK where : Goto(t, where)
        BY <1>1 DEF Dial, DialFail, DialRetry
    <2> QED BY <1>1, <2>1, <2>2, BornMoves, ServedStays
<1>2. ASSUME NEW t \in Dialers, DialOk(t), UNCHANGED attempts
      PROVE  Born' /\ Served'
    <2>1. /\ conns + 1 \in Receivers /\ conns' = conns + 1 /\ conns + 1 # t
          /\ attempts[conns + 1] = 0
          /\ \A u \in Threads : pc'[u] = IF u = conns + 1 THEN "top"
                                        ELSE IF u = t THEN "subscribe" ELSE pc[u]
        BY <1>2, DialOkPlaces
    <2>2. pc[t] = "dial"
        BY <1>2 DEF DialOk
    <2>3. Born'
        <3>1. conns \in Nat
            BY DEF TypeOK
        <3>2. ASSUME NEW r \in Receivers, r > conns + 1 PROVE pc'[r] = "unborn" /\ attempts'[r] = 0
            <4>1. r \in Nat /\ r > conns /\ r # conns + 1
                BY <3>1, <3>2
            <4>2. pc[r] = "unborn" /\ attempts[r] = 0
                BY <4>1 DEF Born
            <4>3. r \in Threads /\ r # t
                BY <2>2, <4>2
            <4> QED BY <1>2, <2>1, <4>1, <4>2, <4>3
        <3> QED BY <2>1, <3>2 DEF Born
    <2>4. Served'
        BY <1>2, <2>1 DEF Served
    <2> QED BY <2>3, <2>4
<1>3. ASSUME NEW t \in Dialers, \/ Ask(t, "subscribe") \/ Ask(t, "authorize")
                                \/ Subscribed(t) \/ Authorized(t)
      PROVE  Born' /\ Served'
    <2>1. /\ UNCHANGED link /\ conns' = conns
          /\ pc[t] \in {"subscribe", "authorize", "subscribeWait", "authorizeWait"}
          /\ \A r \in Receivers : r # t => attempts'[r] = attempts[r]
        BY <1>3 DEF Ask, Subscribed, Authorized, link, receiving, TypeOK
    <2>2. PICK where : Goto(t, where)
        BY <1>3 DEF Ask, Subscribed, Authorized
    <2> QED BY <2>1, <2>2, BornMoves, ServedStays DEF link
<1>4. ASSUME NEW t \in Dialers, HandshakeFailed(t)
      PROVE  Born' /\ Served'
    <2>1. pc[t] # "unborn" /\ UNCHANGED attempts
        BY <1>4 DEF HandshakeFailed, receiving
    <2> QED BY <1>4, <2>1, DisconnectServes DEF HandshakeFailed
<1>5. ASSUME NEW t \in Dialers, DialerNext(t)
      PROVE  Born' /\ Served'
    BY <1>1, <1>2, <1>3, <1>4, <1>5 DEF DialerNext, Connecting, receiving
<1>6. CASE Start
    BY <1>1, <1>6 DEF Start, receiving
<1>7. CASE Stop
    <2>1. pc[Ctl] # "unborn" /\ UNCHANGED attempts
        BY <1>7 DEF Stop, receiving
    <2> QED BY <1>7, <2>1, DisconnectServes DEF Stop
<1>8. ASSUME NEW r \in Receivers, ReceiverNext(r), ~DialerNext(r)
      PROVE  Born' /\ Served'
    <2>1. pc[r] # "unborn"
        BY <1>8 DEF ReceiverNext, LoopEnds, LoopLost, LoopRecv, Reconnect, Redial, Dial, Recv, RecvTorn,
                    RecvEof, RecvTimeout, RecvError, SocketBroken, Reads, HandleResponse, HandleNotify
    <2>2. CASE Reconnect(r)
        BY <2>1, <2>2, DisconnectServes DEF Reconnect, receiving
    <2>3. CASE Redial(r)
        BY <1>1, <2>3 DEF Redial, receiving
    <2>4. ASSUME NEW where, Goto(r, where), conns' = conns, running' => running,
                 connected' => connected,
                 \/ where \in {"top", "recv", "handle"} /\ pc[r] \in {"top", "recv", "handle"}
                        /\ attempts'[r] \in {attempts[r], 0}
                 \/ where = "backoff",
                 \A s \in Receivers : s # r => attempts'[s] = attempts[s]
          PROVE  Born' /\ Served'
        <3>1. Born'
            BY <2>1, <2>4, BornMoves
        <3>2. CASE ~(running' /\ connected')
            BY <3>1, <3>2 DEF Served
        <3>3. CASE running' /\ connected'
            <4>1. r # conns \/ pc[r] = "backoff" \/ attempts[r] = 0
                BY <2>4, <3>3 DEF Served
            <4> QED BY <2>4, <3>1, <4>1, ServedStays
        <3> QED BY <3>2, <3>3
    <2>5. CASE LoopLost(r)
        BY <2>4, <2>5 DEF LoopLost, link, TypeOK
    <2>6. CASE LoopRecv(r)
        BY <2>4, <2>6 DEF LoopRecv, link
    <2>7. CASE Recv(r) \/ RecvTorn(r)
        <3>1. /\ pc[r] = "recv" /\ attempts' = [attempts EXCEPT ![r] = 0] /\ UNCHANGED link
              /\ \E where \in {"top", "handle"} : Goto(r, where)
            BY <2>7 DEF Recv, RecvTorn, Reads
        <3> QED BY <2>4, <3>1 DEF link, TypeOK
    <2>8. CASE RecvEof(r) \/ RecvTimeout(r)
        <3>1. /\ pc[r] = "recv" /\ UNCHANGED <<attempts, running, conns>> /\ (connected' => connected)
              /\ Goto(r, "top")
            BY <2>8 DEF RecvEof, RecvTimeout, Reads, link
        <3> QED BY <2>4, <3>1
    <2>9. CASE HandleResponse(r) \/ HandleNotify(r)
        <3>1. pc[r] = "handle" /\ UNCHANGED <<attempts, link>> /\ Goto(r, "top")
            BY <2>9 DEF HandleResponse, HandleNotify
        <3> QED BY <2>4, <3>1 DEF link
    <2>10. CASE RecvError(r)
        <3>1. /\ UNCHANGED <<attempts, running, conns>> /\ Goto(r, "done")
              /\ connected' = (connected /\ ~running)
            BY <2>10 DEF RecvError
        <3>2. Born'
            BY <2>1, <3>1, BornMoves
        <3>3. ~(running' /\ connected')
            BY <3>1
        <3> QED BY <3>2, <3>3 DEF Served
    <2>11. CASE LoopEnds(r)
        <3>1. /\ UNCHANGED <<attempts, link>> /\ Goto(r, "done") /\ pc[r] = "top"
              /\ ~running \/ ~connected \/ attempts[r] >= MaxReconnect
            BY <2>11 DEF LoopEnds, receiving
        <3>2. Born'
            BY <2>1, <3>1, BornMoves DEF link
        <3>3. CASE running /\ connected
            <4>1. r # conns
                BY <1>0, <3>1, <3>3 DEF Served
            <4> QED BY <3>1, <3>2, <4>1, ServedStays DEF link
        <3>4. CASE ~(running /\ connected)
            BY <3>1, <3>2, <3>4 DEF Served, link
        <3> QED BY <3>3, <3>4
    <2> QED
        BY <1>8, <2>2, <2>3, <2>5, <2>6, <2>7, <2>8, <2>9, <2>10, <2>11 DEF ReceiverNext
<1>9. ASSUME NEW m \in Miners, Submit(m) \/ SubmitUnsent(m) \/ SubmitReturns(m)
      PROVE  Born' /\ Served'
    <2>1. UNCHANGED <<link, attempts>>
        BY <1>9 DEF Submit, SubmitUnsent, SubmitReturns, receiving
    <2>2. CASE UNCHANGED pc
        BY <2>1, <2>2 DEF Born, Served, link
    <2>3. CASE pc[m] # "unborn" /\ (Goto(m, "submitWait") \/ Goto(m, "mining"))
        <3>1. conns \in Nat
            BY StratumAssumption DEF TypeOK
        <3>2. m # conns
            BY <3>1, StratumAssumption
        <3>3. m \in Threads /\ conns' = conns /\ UNCHANGED <<running, connected, attempts>>
            BY <2>1 DEF link
        <3>4. PICK where : Goto(m, where)
            BY <2>3
        <3>5. Born'
            BY <2>3, <3>3, <3>4, BornMoves
        <3>6. Served'
            BY <3>2, <3>3, <3>4, ServedStays
        <3> QED BY <3>5, <3>6
    <2>4. UNCHANGED pc \/ (pc[m] # "unborn" /\ (Goto(m, "submitWait") \/ Goto(m, "mining")))
        BY <1>9 DEF Submit, CanSubmit, SubmitUnsent, SubmitReturns
    <2> QED BY <2>2, <2>3, <2>4
<1>10. CASE \/ \E q \in toPool : PoolAgrees(q)
            \/ \E c \in Receivers : PoolNotifies(c) \/ PoolCloses(c)
            \/ UNCHANGED vars
    <2>1. UNCHANGED <<pc, running, connected, conns, attempts>>
        BY <1>10 DEF PoolAgrees, PoolNotifies, PoolCloses, vars, link, receiving
    <2> QED BY <2>1 DEF Born, Served
<1>11. ASSUME NEW t \in Dialers, DialRetry(t), UNCHANGED <<session, requests, shares, receiving, pool>>
       PROVE  Born' /\ Served'
    BY <1>1, <1>11 DEF receiving
<1> QED BY <1>5, <1>6, <1>7, <1>8, <1>9, <1>10, <1>11 DEF Next

-----------------------------------------------------------------------------
\* Nobody waits and nothing is connected at the start.
LEMMA StStart == Init => Born /\ Served /\ PendingIsWaiting
<1> SUFFICES ASSUME Init PROVE Born /\ Served /\ PendingIsWaiting
    OBVIOUS
<1>1. \A t \in Threads : pc[t] \in {"mining", "idle", "unborn"}
    BY Distinct DEF Init
<1>2. Waiting = {}
    BY <1>1 DEF Waiting
<1>3. PendingIsWaiting
    BY <1>2 DEF Init, PendingIsWaiting
<1>4. \A r \in Receivers : pc[r] = "unborn" /\ attempts[r] = 0
    BY Distinct DEF Init
<1> QED BY <1>3, <1>4 DEF Born, Served, Init

\* The inductive invariant of the session.
StInv == TypeOK /\ Born /\ Served /\ PendingIsWaiting

\* The invariant of the session holds at every step.
LEMMA StInvHolds == Spec => []StInv
<1>1. Init => StInv
    BY StInitTypes, StStart DEF StInv
<1>2. StInv /\ [Next]_vars => StInv'
    BY StTypeStep, ServedStep, PendingStep DEF StInv
<1> QED BY <1>1, <1>2, PTL DEF Spec

\* The types of the client's and the pool's state: a message names an id asked
\* for and a job that was made, for any number of reconnections and shares.
THEOREM StratumTypes == Spec => []TypeOK
<1>1. StInv => TypeOK
    BY DEF StInv
<1> QED BY <1>1, StInvHolds, PTL

\* An entry of _pending (stratum.py _call) is of a thread that waits for its
\* answer: no timeout, lost connection or stop leaves one behind.
THEOREM PendingTold == Spec => []PendingIsWaiting
<1>1. StInv => PendingIsWaiting
    BY DEF StInv
<1> QED BY <1>1, StInvHolds, PTL

\* A client that says it is connected has its receive thread, which reads or
\* is on its way to reconnect, whatever stops and starts come in between.
THEOREM SessionServed == Spec => []SessionIsServed
<1>1. StInv => SessionIsServed
    BY DEF StInv, Served, SessionIsServed, Alive
<1> QED BY <1>1, StInvHolds, PTL

-----------------------------------------------------------------------------
\* A stop that finds nobody reconnecting is final.
LEMMA QuietStep ==
    ASSUME TypeOK, [Next]_vars, Quiet, pc'[Ctl] = "idle"
    PROVE  Quiet'
<1> USE Distinct
<1>1. ~ Start
    <2>1. Start => pc'[Ctl] = "dial"
        BY OneGoes DEF Start, Dial
    <2> QED BY <2>1
<1>2. ~ Stop
    BY DEF Stop, Quiet
<1>3. ASSUME NEW t \in Dialers PROVE ~ DialerNext(t) /\ ~ DialRetry(t)
    <2>1. pc[t] \notin {"dial", "dialClosed", "subscribe", "subscribeWait", "authorize", "authorizeWait"}
        BY DEF Quiet, Reconnecting
    <2> QED BY <2>1 DEF DialerNext, DialRetry, Connecting, DialOk, DialFail, Ask, Subscribed,
                        Authorized, HandshakeFailed
<1>4. ASSUME NEW t \in Threads, NEW where \in {"done", "top", "handle", "mining", "submitWait"},
             Goto(t, where), UNCHANGED running
      PROVE  Quiet'
    <2>1. \A u \in Threads : pc'[u] = IF u = t THEN where ELSE pc[u]
        BY <1>4, OneGoes
    <2> QED BY <1>4, <2>1 DEF Quiet, Reconnecting
<1>5. ASSUME NEW r \in Receivers, ReceiverNext(r) PROVE Quiet'
    <2>1. r \in Dialers /\ ~running /\ ~ Reconnecting(r)
        BY DEF Quiet
    <2>2. /\ ~ DialerNext(r) /\ ~ LoopLost(r) /\ ~ LoopRecv(r) /\ ~ Reconnect(r) /\ ~ Redial(r)
        BY <1>3, <2>1 DEF LoopLost, LoopRecv, Reconnect, Redial, Dial, Reconnecting
    <2>3. UNCHANGED running /\ \E where \in {"done", "top", "handle"} : Goto(r, where)
        BY <1>5, <2>2 DEF ReceiverNext, LoopEnds, Recv, RecvTorn, RecvEof, RecvTimeout, RecvError,
                          HandleResponse, HandleNotify, link
    <2> QED BY <1>4, <2>3
<1>6. ASSUME NEW m \in Miners, Submit(m) \/ SubmitUnsent(m) \/ SubmitReturns(m) PROVE Quiet'
    <2>1. UNCHANGED running /\ (UNCHANGED pc \/ \E where \in {"mining", "submitWait"} : Goto(m, where))
        BY <1>6 DEF Submit, SubmitUnsent, SubmitReturns, link
    <2> QED BY <1>4, <2>1 DEF Quiet, Reconnecting
<1>7. CASE \/ \E q \in toPool : PoolAgrees(q)
           \/ \E c \in Receivers : PoolNotifies(c) \/ PoolCloses(c)
           \/ UNCHANGED vars
    <2>1. UNCHANGED <<pc, running>>
        BY <1>7 DEF PoolAgrees, PoolNotifies, PoolCloses, vars, link
    <2> QED BY <2>1 DEF Quiet, Reconnecting
<1> QED BY <1>1, <1>2, <1>3, <1>5, <1>6, <1>7 DEF Next

\* A client that stopped stays stopped until start: no thread that was on its
\* way to reconnect brings the session back.
THEOREM StopFinal == Spec => StopIsFinal
<1>1. TypeOK /\ [Next]_vars => [Quiet /\ pc'[Ctl] = "idle" => Quiet']_vars
    BY QuietStep
<1>2. Spec => [][Quiet /\ pc'[Ctl] = "idle" => Quiet']_vars
    BY <1>1, StratumTypes, PTL DEF Spec
<1> QED BY <1>2 DEF StopIsFinal
-----------------------------------------------------------------------------
\* A socket is of a connection that came up, and so is the one a thread reads.
Placed ==
    /\ \A c \in Receivers : socket = Conn(c) => c <= conns
    /\ at \in [Receivers -> Socks]
    /\ \A r, c \in Receivers : at[r] = Conn(c) => c <= conns

SocketMove ==
    \/ UNCHANGED <<socket, conns>>
    \/ /\ conns' = conns
       /\ socket' = NoSocket \/ \E t \in Dialers : socket' = Raw(t)
    \/ conns' = conns + 1 /\ socket' = Conn(conns + 1)
    \/ conns' = conns + 1 /\ socket' = socket

\* All that a step does to the socket: keep it, drop it, open a raw one, or let
\* a new connection come up with it or without it.
LEMMA SocketMoves == TypeOK /\ [Next]_vars => SocketMove
<1> SUFFICES ASSUME TypeOK, [Next]_vars PROVE SocketMove
    OBVIOUS
<1> USE Distinct
<1>1. ASSUME NEW t \in Dialers, DialerNext(t) \/ DialRetry(t) PROVE SocketMove
    BY <1>1 DEF SocketMove, DialerNext, DialRetry, Connecting, DialOk, DialFail, Ask, Subscribed, Authorized,
                HandshakeFailed, Disconnect, link
<1>2. CASE Start \/ Stop
    BY <1>2 DEF SocketMove, Start, Stop, Dial, Disconnect
<1>3. ASSUME NEW r \in Receivers, ReceiverNext(r), ~ DialerNext(r) PROVE SocketMove
    BY <1>3 DEF SocketMove, ReceiverNext, LoopEnds, LoopLost, LoopRecv, Reconnect, Redial, Dial, Disconnect, Recv,
                RecvTorn, RecvEof, RecvTimeout, RecvError, HandleResponse, HandleNotify, link
<1>4. CASE \/ \E m \in Miners : Submit(m) \/ SubmitUnsent(m) \/ SubmitReturns(m)
           \/ \E q \in toPool : PoolAgrees(q)
           \/ \E c \in Receivers : PoolNotifies(c) \/ PoolCloses(c)
           \/ UNCHANGED vars
    BY <1>4 DEF SocketMove, Submit, SubmitUnsent, SubmitReturns, PoolAgrees, PoolNotifies, PoolCloses, vars, link
<1> QED BY <1>1, <1>2, <1>3, <1>4 DEF Next

ReadMove ==
    \/ UNCHANGED at
    \/ \E r \in Receivers : at' = [at EXCEPT ![r] = NoSocket]
    \/ \E r \in Receivers : at' = [at EXCEPT ![r] = socket] /\ UNCHANGED link

\* All that a step does to the socket a receiver reads.
LEMMA ReadMoves == TypeOK /\ [Next]_vars => ReadMove
<1> SUFFICES ASSUME TypeOK, [Next]_vars PROVE ReadMove
    OBVIOUS
<1> USE Distinct
<1>1. ASSUME NEW t, DialerNext(t) PROVE ReadMove
    BY <1>1 DEF ReadMove, DialerNext, Connecting, Ask, Subscribed, Authorized, HandshakeFailed, receiving
<1>2. CASE Start \/ Stop \/ \E t \in Dialers : DialRetry(t) /\ UNCHANGED <<session, requests, shares, receiving, pool>>
    BY <1>2 DEF ReadMove, Start, Stop, receiving
<1>3. ASSUME NEW r \in Receivers, ReceiverNext(r), ~ DialerNext(r) PROVE ReadMove
    BY <1>3 DEF ReadMove, ReceiverNext, LoopEnds, LoopLost, LoopRecv, Reconnect, Redial, Recv,
                RecvTorn, RecvEof, RecvTimeout, RecvError, HandleResponse, HandleNotify, receiving
<1>4. CASE \/ \E m \in Miners : Submit(m) \/ SubmitUnsent(m) \/ SubmitReturns(m)
           \/ \E q \in toPool : PoolAgrees(q)
           \/ \E c \in Receivers : PoolNotifies(c) \/ PoolCloses(c)
           \/ UNCHANGED vars
    BY <1>4 DEF ReadMove, Submit, SubmitUnsent, SubmitReturns, PoolAgrees, PoolNotifies, PoolCloses, vars, receiving
<1> QED BY <1>1, <1>2, <1>3, <1>4 DEF Next

\* Every step keeps Placed.
LEMMA PlacedStep ==
    ASSUME TypeOK, Placed, [Next]_vars
    PROVE  Placed'
<1> USE Distinct
<1>0. socket \in Socks /\ NoSocket \in Socks /\ conns \in Nat
    BY StratumAssumption DEF Socks, TypeOK
<1>1. conns' = conns \/ conns' = conns + 1
    BY SocketMoves DEF SocketMove
<1>2. \A c \in Receivers : socket' = Conn(c) => c <= conns'
    <2>1. ASSUME NEW c \in Receivers, socket' = Conn(c) PROVE c <= conns'
        <3>1. CASE socket' = socket
            <4>1. c <= conns
                BY <2>1, <3>1 DEF Placed
            <4> QED BY <1>0, <1>1, <4>1
        <3>2. CASE socket' = NoSocket \/ \E t \in Dialers : socket' = Raw(t)
            BY <2>1, <3>2, Sockets
        <3>3. CASE conns' = conns + 1 /\ socket' = Conn(conns + 1)
            <4>1. c = conns + 1
                BY <2>1, <3>3, Sockets
            <4> QED BY <1>0, <3>3, <4>1
        <3> QED BY <3>1, <3>2, <3>3, SocketMoves DEF SocketMove
    <2> QED BY <2>1
<1>3. at' \in [Receivers -> Socks]
    BY <1>0, ReadMoves DEF Placed, ReadMove
<1>4. \A r, c \in Receivers : at'[r] = Conn(c) => c <= conns'
    <2>1. ASSUME NEW r \in Receivers, NEW c \in Receivers, at'[r] = Conn(c) PROVE c <= conns
        <3>1. at'[r] = at[r] \/ at'[r] = NoSocket \/ at'[r] = socket
            BY ReadMoves DEF Placed, ReadMove
        <3> QED BY <2>1, <3>1, Sockets DEF Placed
    <2> QED BY <1>0, <1>1, <2>1
<1>5. Socks' = Socks
    BY DEF Socks
<1> QED BY <1>2, <1>3, <1>4, <1>5 DEF Placed
-----------------------------------------------------------------------------
\* What a step does to the messages of the pool and to the job: it leaves them,
\* or loses those of one connection, or is one of the steps named here.
QueueMove ==
    \/ /\ UNCHANGED <<job, hand>>
       /\ \A c \in Receivers : fromPool'[c] = fromPool[c] \/ fromPool'[c] = << >>
    \/ \E q \in toPool : PoolAgrees(q)
    \/ \E c \in Receivers : PoolNotifies(c)
    \/ \E r \in Receivers : Recv(r) \/ RecvTorn(r) \/ HandleResponse(r) \/ HandleNotify(r)

\* All that a step does to the messages on their way: drop them, add one of the
\* pool's, read one or handle one.
LEMMA QueueMoves == TypeOK /\ [Next]_vars => QueueMove
<1> SUFFICES ASSUME TypeOK, [Next]_vars PROVE QueueMove
    OBVIOUS
<1> USE Distinct
<1>0. ASSUME NEW t, NEW where, Disconnect(t, where)
      PROVE  \A c \in Receivers : fromPool'[c] = fromPool[c] \/ fromPool'[c] = << >>
    BY <1>0 DEF Disconnect
<1>1. ASSUME NEW t, DialerNext(t) PROVE QueueMove
    <2>1. CASE HandshakeFailed(t)
        BY <1>0, <2>1 DEF QueueMove, HandshakeFailed, session, receiving
    <2>2. CASE ~ HandshakeFailed(t)
        BY <1>1, <2>2 DEF QueueMove, DialerNext, Connecting, Ask, Request, Subscribed, Authorized,
                          session, receiving, pool
    <2> QED BY <2>1, <2>2
<1>2. CASE Stop
    BY <1>0, <1>2 DEF QueueMove, Stop, session, receiving
<1>3. CASE Start \/ \E t \in Dialers : DialRetry(t) /\ UNCHANGED <<session, requests, shares, receiving, pool>>
    BY <1>3 DEF QueueMove, Start, session, receiving, pool
<1>4. ASSUME NEW r \in Receivers, ReceiverNext(r), ~ DialerNext(r) PROVE QueueMove
    <2>1. CASE Reconnect(r)
        BY <1>0, <2>1 DEF QueueMove, Reconnect, session, receiving
    <2>2. CASE \/ LoopEnds(r) \/ LoopLost(r) \/ LoopRecv(r) \/ Redial(r)
               \/ RecvEof(r) \/ RecvTimeout(r) \/ RecvError(r)
        BY <2>2 DEF QueueMove, LoopEnds, LoopLost, LoopRecv, Redial, RecvEof, RecvTimeout, RecvError,
                    session, receiving, pool
    <2> QED BY <1>4, <2>1, <2>2 DEF ReceiverNext, QueueMove
<1>5. CASE \E m \in Miners : Submit(m) \/ SubmitUnsent(m) \/ SubmitReturns(m)
    BY <1>5 DEF QueueMove, Submit, Request, SubmitUnsent, SubmitReturns, session, receiving, pool
<1>6. CASE (\E c \in Receivers : PoolCloses(c)) \/ UNCHANGED vars
    BY <1>6 DEF QueueMove, PoolCloses, vars, session, receiving, pool
<1>7. CASE (\E q \in toPool : PoolAgrees(q)) \/ \E c \in Receivers : PoolNotifies(c)
    BY <1>7 DEF QueueMove
<1> QED BY <1>1, <1>2, <1>3, <1>4, <1>5, <1>6, <1>7 DEF Next

\* What a message carries.
LEMMA Carries ==
    /\ \A msg \in Messages : msg.kind = "notify" => msg.id \in 1 .. jobs
    /\ \A msg \in Messages : msg.kind = "response" => msg.id \in 1 .. msgId /\ msg.conn \in Receivers
  BY DEF Messages

\* Of a queue, the message in hand and the job installed: jobs are in order.
InOrder(queue, inHand, installed) ==
    /\ inHand.kind = "notify" => installed <= inHand.id
    /\ \A i \in 1 .. Len(queue) : queue[i].kind = "notify" =>
          /\ installed <= queue[i].id
          /\ inHand.kind = "notify" => inHand.id <= queue[i].id
          /\ \A j \in 1 .. Len(queue) : i < j /\ queue[j].kind = "notify" => queue[i].id <= queue[j].id
Order == conns <= 1 => InOrder(fromPool[1], hand[1], job.id)

\* A message read from an ordered queue leaves it ordered, with it in hand.
LEMMA OrderShorter ==
    ASSUME NEW S, NEW queue \in Seq(S), queue # << >>, NEW inHand, NEW n,
           InOrder(queue, inHand, n)
    PROVE  InOrder(Tail(queue), Head(queue), n) /\ InOrder(Tail(queue), inHand, n)
<1>1. /\ Len(Tail(queue)) = Len(queue) - 1 /\ Len(queue) \in Nat /\ Len(queue) >= 1
      /\ Head(queue) = queue[1]
      /\ \A i \in 1 .. Len(Tail(queue)) : Tail(queue)[i] = queue[i + 1]
    OBVIOUS
<1>2. \A i \in 1 .. Len(Tail(queue)) : i + 1 \in 1 .. Len(queue) /\ 1 < i + 1
    BY <1>1
<1>3. 1 \in 1 .. Len(queue)
    BY <1>1
<1> QED BY <1>1, <1>2, <1>3 DEF InOrder

\* A message that is no older than all before it keeps the queue ordered.
LEMMA OrderLonger ==
    ASSUME NEW S, NEW queue \in Seq(S), NEW inHand, NEW n, NEW msg,
           InOrder(queue, inHand, n),
           msg.kind = "notify" =>
              /\ n <= msg.id /\ (inHand.kind = "notify" => inHand.id <= msg.id)
              /\ \A i \in 1 .. Len(queue) : queue[i].kind = "notify" => queue[i].id <= msg.id
    PROVE  InOrder(Append(queue, msg), inHand, n)
<1>1. /\ Len(Append(queue, msg)) = Len(queue) + 1 /\ Len(queue) \in Nat
      /\ \A i \in 1 .. Len(queue) + 1 :
            Append(queue, msg)[i] = IF i = Len(queue) + 1 THEN msg ELSE queue[i]
    OBVIOUS
<1> DEFINE longer == Append(queue, msg)
<1>2. ASSUME NEW i \in 1 .. Len(queue) + 1, longer[i].kind = "notify"
      PROVE  /\ n <= longer[i].id
             /\ inHand.kind = "notify" => inHand.id <= longer[i].id
    BY <1>1, <1>2 DEF InOrder
<1>3. ASSUME NEW i \in 1 .. Len(queue) + 1, NEW j \in 1 .. Len(queue) + 1, i < j,
             longer[i].kind = "notify", longer[j].kind = "notify"
      PROVE  longer[i].id <= longer[j].id
    <2>1. i \in 1 .. Len(queue) /\ longer[i] = queue[i]
        BY <1>1, <1>3
    <2>2. CASE j = Len(queue) + 1
        BY <1>1, <1>3, <2>1, <2>2
    <2>3. CASE j # Len(queue) + 1
        BY <1>1, <1>3, <2>1, <2>3 DEF InOrder
    <2> QED BY <2>2, <2>3
<1> QED BY <1>1, <1>2, <1>3 DEF InOrder

\* A queue that is lost is ordered, as is one with no job in hand.
LEMMA OrderDropped ==
    ASSUME NEW queue, NEW inHand, NEW n, InOrder(queue, inHand, n)
    PROVE  /\ InOrder(<< >>, inHand, n)
           /\ \A other : other.kind # "notify" => InOrder(queue, other, n)
  BY DEF InOrder

\* The job in hand installed, the rest is no older than it.
LEMMA OrderInstalled ==
    ASSUME NEW queue, NEW inHand, NEW n, InOrder(queue, inHand, n), inHand.kind = "notify"
    PROVE  \A other : other.kind # "notify" => InOrder(queue, other, inHand.id)
  BY DEF InOrder

\* While one connection at most came up, the jobs stay in order.
LEMMA OrderStep ==
    ASSUME TypeOK, Born, Placed, Order, [Next]_vars
    PROVE  Order' /\ (conns <= 1 => job'.id >= job.id)
<1> USE Distinct
<1>0. /\ 1 \in Receivers /\ conns \in Nat /\ (conns' = conns \/ conns' = conns + 1)
      /\ hand \in [Receivers -> Messages] /\ fromPool \in [Receivers -> Seq(Messages)]
      /\ jobs \in Nat /\ job.id \in 0 .. jobs /\ NoMsg.kind = "none"
    <2>1. 1 \in Receivers /\ MaxConn \in Nat /\ MaxEvents \in Nat
        BY StratumAssumption
    <2>2. conns \in Nat /\ jobs \in Nat
        BY <2>1 DEF TypeOK
    <2>3. conns' = conns \/ conns' = conns + 1
        BY SocketMoves DEF SocketMove
    <2>4. job.id \in 0 .. jobs
        BY DEF TypeOK
    <2>5. hand \in [Receivers -> Messages] /\ fromPool \in [Receivers -> Seq(Messages)]
        BY DEF TypeOK
    <2> QED BY <2>1, <2>2, <2>3, <2>4, <2>5 DEF NoMsg
<1>1. SUFFICES ASSUME conns <= 1
               PROVE  InOrder(fromPool'[1], hand'[1], job'.id) /\ job'.id >= job.id
    <2>1. conns' <= 1 => conns <= 1
        BY <1>0
    <2> QED BY <1>1, <2>1 DEF Order
<1>2. InOrder(fromPool[1], hand[1], job.id)
    BY <1>1 DEF Order
<1>3. fromPool[1] \in Seq(Messages) /\ hand[1] \in Messages /\ job.id \in Int
    BY <1>0
<1>4. ASSUME NEW r \in Receivers, pc[r] # "unborn" PROVE r = 1 /\ conns = 1
    <2>1. r <= conns
        BY <1>0, <1>4 DEF Born
    <2> QED BY <1>0, <1>1, <2>1
<1>5. CASE /\ UNCHANGED <<job, hand>>
           /\ \A c \in Receivers : fromPool'[c] = fromPool[c] \/ fromPool'[c] = << >>
    <2>1. fromPool'[1] = fromPool[1] \/ fromPool'[1] = << >>
        BY <1>0, <1>5
    <2> QED BY <1>2, <1>3, <1>5, <2>1, OrderDropped
<1>6. ASSUME NEW c \in Receivers, NEW msg, Deliver(c, msg), UNCHANGED <<job, hand>>,
             msg.kind = "notify" => msg.id = jobs + 1
      PROVE  InOrder(fromPool'[1], hand'[1], job'.id) /\ job'.id >= job.id
    <2>1. fromPool'[1] = fromPool[1] \/ fromPool'[1] = Append(fromPool[1], msg)
        BY <1>0, <1>6 DEF Deliver
    <2>2. msg.kind = "notify" =>
              /\ job.id <= msg.id /\ (hand[1].kind = "notify" => hand[1].id <= msg.id)
              /\ \A i \in 1 .. Len(fromPool[1]) : fromPool[1][i].kind = "notify" => fromPool[1][i].id <= msg.id
        <3>1. \A i \in 1 .. Len(fromPool[1]) : fromPool[1][i] \in Messages
            BY <1>3
        <3> QED BY <1>0, <1>3, <1>6, <3>1, Carries
    <2>3. InOrder(Append(fromPool[1], msg), hand[1], job.id)
        BY <1>2, <1>3, <2>2, OrderLonger
    <2>4. job' = job /\ hand' = hand /\ job'.id >= job.id
        BY <1>3, <1>6
    <2>5. CASE fromPool'[1] = fromPool[1]
        BY <1>2, <2>4, <2>5
    <2>6. CASE fromPool'[1] = Append(fromPool[1], msg)
        BY <2>3, <2>4, <2>6
    <2> QED BY <2>1, <2>5, <2>6
<1>7. ASSUME NEW q \in toPool, PoolAgrees(q)
      PROVE  InOrder(fromPool'[1], hand'[1], job'.id) /\ job'.id >= job.id
    <2>1. q.conn \in Receivers
        BY <1>7 DEF TypeOK
    <2> QED BY <1>6, <1>7, <2>1 DEF PoolAgrees, session, receiving
<1>8. ASSUME NEW c \in Receivers, PoolNotifies(c)
      PROVE  InOrder(fromPool'[1], hand'[1], job'.id) /\ job'.id >= job.id
    BY <1>6, <1>8 DEF PoolNotifies, session, receiving
<1>9. ASSUME NEW r \in Receivers, Recv(r) \/ RecvTorn(r)
      PROVE  InOrder(fromPool'[1], hand'[1], job'.id) /\ job'.id >= job.id
    <2>1. r = 1 /\ conns = 1
        BY <1>4, <1>9 DEF Recv, RecvTorn, Reads
    <2>2. PICK c \in Receivers :
              /\ at[r] = Conn(c) /\ fromPool[c] # << >>
              /\ fromPool' = [fromPool EXCEPT ![c] = Tail(@)]
              /\ hand' = hand \/ hand' = [hand EXCEPT ![r] = Head(fromPool[c])]
        BY <1>9 DEF Recv, RecvTorn, Reads
    <2>3. c = 1
        <3>1. c <= conns
            BY <2>2 DEF Placed
        <3> QED BY <2>1, <3>1
    <2>4. /\ fromPool'[1] = Tail(fromPool[1]) /\ fromPool[1] # << >>
          /\ hand'[1] = hand[1] \/ hand'[1] = Head(fromPool[1])
        BY <1>0, <2>1, <2>2, <2>3
    <2>5. job' = job
        BY <1>9 DEF Recv, RecvTorn, session
    <2>6. InOrder(Tail(fromPool[1]), Head(fromPool[1]), job.id) /\ InOrder(Tail(fromPool[1]), hand[1], job.id)
        BY <1>2, <1>3, <2>4, OrderShorter
    <2> QED BY <1>3, <2>4, <2>5, <2>6
<1>10. ASSUME NEW r \in Receivers, HandleResponse(r) \/ HandleNotify(r)
       PROVE  InOrder(fromPool'[1], hand'[1], job'.id) /\ job'.id >= job.id
    <2>1. r = 1
        BY <1>4, <1>10 DEF HandleResponse, HandleNotify
    <2>2. fromPool' = fromPool /\ hand'[1] = NoMsg
        BY <1>0, <1>10, <2>1 DEF HandleResponse, HandleNotify, pool
    <2>3. CASE HandleResponse(r)
        <3>1. job' = job
            BY <2>3 DEF HandleResponse, session
        <3> QED BY <1>0, <1>2, <1>3, <2>2, <3>1, OrderDropped
    <2>4. CASE HandleNotify(r)
        <3>1. hand[1].kind = "notify" /\ job'.id = hand[1].id
            BY <2>1, <2>4 DEF HandleNotify
        <3>2. hand[1].id \in 1 .. jobs
            BY <1>3, <3>1, Carries
        <3>3. job.id <= hand[1].id
            BY <1>2, <3>1 DEF InOrder
        <3>4. InOrder(fromPool[1], NoMsg, hand[1].id)
            BY <1>0, <1>2, <3>1, OrderInstalled
        <3> QED BY <1>0, <1>3, <2>2, <3>1, <3>2, <3>3, <3>4
    <2> QED BY <1>10, <2>3, <2>4
<1> QED BY <1>5, <1>7, <1>8, <1>9, <1>10, QueueMoves DEF QueueMove

JobsInv == StInv /\ Placed /\ Order

\* The invariant of the jobs holds at every step.
LEMMA JobsInvHolds == Spec => []JobsInv
<1>1. Init => JobsInv
    <2> SUFFICES ASSUME Init PROVE JobsInv
        OBVIOUS
    <2>1. Placed
        <3>1. \A c : NoSocket # Conn(c)
            BY Sockets
        <3> QED BY <3>1 DEF Init, Placed, Socks
    <2>2. Order
        <3>1. 1 \in Receivers
            BY Distinct, StratumAssumption
        <3> QED BY <3>1 DEF Init, Order, InOrder, NoMsg
    <2> QED BY <2>1, <2>2, StInitTypes, StStart DEF JobsInv, StInv
<1>2. JobsInv /\ [Next]_vars => JobsInv'
    BY StTypeStep, ServedStep, PendingStep, PlacedStep, OrderStep DEF JobsInv, StInv
<1> QED BY <1>1, <1>2, PTL DEF Spec

\* As long as one connection at most came up, no job is replaced by an older one.
THEOREM JobsOrdered == Spec => JobsInOrder
<1>1. JobsInv /\ [Next]_vars => [conns <= 1 => job'.id >= job.id]_vars
    BY OrderStep DEF JobsInv, StInv
<1>2. Spec => [][conns <= 1 => job'.id >= job.id]_vars
    BY <1>1, JobsInvHolds, PTL DEF Spec
<1> QED BY <1>2 DEF JobsInOrder
-----------------------------------------------------------------------------
(* The ledger.  A share the pool has still to see is among those sent; an *)
(* open call can be answered if the answer is there or on its way.        *)
Sent == {q \in toPool : q.kind = "submit"}
OpenCalls == {m \in Miners : pc[m] = "submitWait"}
Told ==
    {n \in Nat :
       \/ \E r \in Receivers : hand[r].kind = "response" /\ hand[r].id = n
       \/ \E c \in Receivers : \E i \in 1 .. Len(fromPool[c]) :
            fromPool[c][i].kind = "response" /\ fromPool[c][i].id = n}
Answerable == {m \in OpenCalls : reply[m] # NoReply \/ reqId[m] \in Told}

\* Every share sent was submitted once, every answer that may still count as an
\* acceptance is for a share the pool took and credited to nobody yet, and what
\* an open call asked for is a share.
LedgerInv ==
    /\ IsFiniteSet(toPool)
    /\ poolTaken + Cardinality(Sent) <= submitted
    /\ accepted + Cardinality(Answerable) <= poolTaken
    /\ \A q \in toPool, m \in OpenCalls : reqId[m] = q.id => q.kind = "submit"

\* The sets the ledger counts are finite and within the miners.
LEMMA LedgerSets ==
    /\ IsFiniteSet(OpenCalls) /\ IsFiniteSet(Answerable) /\ Answerable \subseteq OpenCalls /\ OpenCalls \subseteq Miners
    /\ IsFiniteSet(Answerable') /\ Answerable' \subseteq OpenCalls' /\ OpenCalls' \subseteq Miners
    /\ Cardinality(Answerable) \in Nat /\ Cardinality(Answerable') \in Nat /\ Cardinality(OpenCalls) \in Nat
    /\ IsFiniteSet(toPool) => IsFiniteSet(Sent) /\ Cardinality(Sent) \in Nat
    /\ OpenCalls' = {m \in Miners : pc'[m] = "submitWait"}
    /\ Answerable' = {m \in OpenCalls' : reply'[m] # NoReply \/ reqId'[m] \in Told'}
    /\ Sent' = {q \in toPool' : q.kind = "submit"}
    /\ Miners \subseteq Threads
<1>1. OpenCalls \subseteq Miners /\ Answerable \subseteq OpenCalls /\ OpenCalls' \subseteq Miners /\ Answerable' \subseteq OpenCalls'
    BY DEF OpenCalls, Answerable
<1>2. IsFiniteSet(Miners)
    BY StratumAssumption
<1>3. IsFiniteSet(OpenCalls) /\ IsFiniteSet(Answerable) /\ IsFiniteSet(OpenCalls') /\ IsFiniteSet(Answerable')
    BY <1>1, <1>2, FS_Subset
<1>4. IsFiniteSet(toPool) => IsFiniteSet(Sent)
    <2>1. Sent \subseteq toPool
        BY DEF Sent
    <2> QED BY <2>1, FS_Subset
<1>5. /\ Cardinality(Answerable) \in Nat /\ Cardinality(Answerable') \in Nat /\ Cardinality(OpenCalls) \in Nat
      /\ IsFiniteSet(toPool) => Cardinality(Sent) \in Nat
    BY <1>3, <1>4, FS_CardinalityType
<1>6. /\ OpenCalls' = {m \in Miners : pc'[m] = "submitWait"}
      /\ Answerable' = {m \in OpenCalls' : reply'[m] # NoReply \/ reqId'[m] \in Told'}
      /\ Sent' = {q \in toPool' : q.kind = "submit"}
    BY DEF OpenCalls, Answerable, Sent, NoReply
<1> QED BY <1>1, <1>3, <1>4, <1>5, <1>6, Distinct

\* Nothing that was not told before is told by a step that is not an answer.
LEMMA ToldOf ==
    ASSUME TypeOK
    PROVE  /\ Told \subseteq 1 .. msgId
           /\ \A n \in Nat : n \in Told' <=>
                \/ \E r \in Receivers : hand'[r].kind = "response" /\ hand'[r].id = n
                \/ \E c \in Receivers : \E i \in 1 .. Len(fromPool'[c]) :
                     fromPool'[c][i].kind = "response" /\ fromPool'[c][i].id = n
           /\ Told' \subseteq Nat
<1>1. Told \subseteq 1 .. msgId
    <2>1. ASSUME NEW r \in Receivers, hand[r].kind = "response" PROVE hand[r].id \in 1 .. msgId
        <3>1. hand[r] \in Messages
            BY DEF TypeOK
        <3> QED BY <2>1, <3>1, Carries
    <2>2. ASSUME NEW c \in Receivers, NEW i \in 1 .. Len(fromPool[c]), fromPool[c][i].kind = "response"
          PROVE  fromPool[c][i].id \in 1 .. msgId
        <3>1. fromPool[c] \in Seq(Messages)
            BY DEF TypeOK
        <3>2. fromPool[c][i] \in Messages
            BY <3>1
        <3> QED BY <2>2, <3>2, Carries
    <2> QED BY <2>1, <2>2 DEF Told
<1> QED BY <1>1 DEF Told

\* An answer gets on its way only when the pool agrees to the request.
LEMMA ToldMoves ==
    ASSUME TypeOK, [Next]_vars
    PROVE  \/ Told' \subseteq Told
           \/ \E q \in toPool : PoolAgrees(q) /\ Told' \subseteq Told \union {q.id}
<1> USE Distinct
<1>0. /\ hand \in [Receivers -> Messages] /\ fromPool \in [Receivers -> Seq(Messages)]
    BY DEF TypeOK
<1>1. CASE /\ UNCHANGED <<job, hand>>
           /\ \A c \in Receivers : fromPool'[c] = fromPool[c] \/ fromPool'[c] = << >>
    <2>1. ASSUME NEW c \in Receivers, NEW i \in 1 .. Len(fromPool'[c])
          PROVE  i \in 1 .. Len(fromPool[c]) /\ fromPool'[c][i] = fromPool[c][i]
        BY <1>1
    <2> QED BY <1>1, <2>1, ToldOf DEF Told
<1>2. ASSUME NEW c \in Receivers, NEW msg, Deliver(c, msg), UNCHANGED hand
      PROVE  Told' \subseteq Told \/ (msg.kind = "response" /\ Told' \subseteq Told \union {msg.id})
    <2>1. ASSUME NEW d \in Receivers, NEW i \in 1 .. Len(fromPool'[d])
          PROVE  \/ i \in 1 .. Len(fromPool[d]) /\ fromPool'[d][i] = fromPool[d][i]
                 \/ fromPool'[d][i] = msg
        <3>1. fromPool[d] \in Seq(Messages)
            BY <1>0
        <3>2. fromPool'[d] = fromPool[d] \/ fromPool'[d] = Append(fromPool[d], msg)
            BY <1>0, <1>2 DEF Deliver
        <3>3. CASE fromPool'[d] = fromPool[d]
            BY <2>1, <3>3
        <3>4. CASE fromPool'[d] = Append(fromPool[d], msg)
            <4>1. /\ Len(fromPool'[d]) = Len(fromPool[d]) + 1 /\ Len(fromPool[d]) \in Nat
                  /\ fromPool'[d][i] = IF i = Len(fromPool[d]) + 1 THEN msg ELSE fromPool[d][i]
                BY <2>1, <3>1, <3>4
            <4> QED BY <2>1, <4>1
        <3> QED BY <3>2, <3>3, <3>4
    <2>2. ASSUME NEW n \in Told'
          PROVE  n \in Told \/ (msg.kind = "response" /\ n = msg.id)
        <3>1. CASE \E r \in Receivers : hand'[r].kind = "response" /\ hand'[r].id = n
            BY <1>2, <2>2, <3>1, ToldOf DEF Told
        <3>2. ASSUME NEW d \in Receivers, NEW i \in 1 .. Len(fromPool'[d]),
                     fromPool'[d][i].kind = "response", fromPool'[d][i].id = n
              PROVE  n \in Told \/ (msg.kind = "response" /\ n = msg.id)
            BY <2>1, <2>2, <3>2, ToldOf DEF Told
        <3> QED BY <2>2, <3>1, <3>2, ToldOf
    <2> QED BY <2>2
<1>3. ASSUME NEW q \in toPool, PoolAgrees(q)
      PROVE  Told' \subseteq Told \union {q.id}
    <2>1. q.conn \in Receivers /\ UNCHANGED hand
        BY <1>3 DEF TypeOK, PoolAgrees, receiving
    <2> QED BY <1>2, <1>3, <2>1 DEF PoolAgrees
<1>4. ASSUME NEW c \in Receivers, PoolNotifies(c) PROVE Told' \subseteq Told
    BY <1>2, <1>4 DEF PoolNotifies, receiving
<1>5. ASSUME NEW r \in Receivers, Recv(r) \/ RecvTorn(r) PROVE Told' \subseteq Told
    <2>1. PICK c \in Receivers :
              /\ fromPool[c] # << >>
              /\ fromPool' = [fromPool EXCEPT ![c] = Tail(@)]
              /\ hand' = hand \/ hand' = [hand EXCEPT ![r] = Head(fromPool[c])]
        BY <1>5 DEF Recv, RecvTorn
    <2>2. /\ fromPool[c] \in Seq(Messages) /\ Len(fromPool[c]) \in Nat /\ 1 \in 1 .. Len(fromPool[c])
          /\ Head(fromPool[c]) = fromPool[c][1] /\ Len(Tail(fromPool[c])) = Len(fromPool[c]) - 1
          /\ \A i \in 1 .. Len(Tail(fromPool[c])) : Tail(fromPool[c])[i] = fromPool[c][i + 1]
        BY <1>0, <2>1
    <2>3. ASSUME NEW d \in Receivers, NEW i \in 1 .. Len(fromPool'[d])
          PROVE  \E j \in 1 .. Len(fromPool[d]) : fromPool'[d][i] = fromPool[d][j]
        <3>1. CASE d = c
            <4>1. fromPool'[d] = Tail(fromPool[c])
                BY <1>0, <2>1, <3>1
            <4>2. i + 1 \in 1 .. Len(fromPool[c]) /\ fromPool'[d][i] = fromPool[c][i + 1]
                BY <2>2, <2>3, <4>1
            <4> QED BY <3>1, <4>2
        <3>2. CASE d # c
            BY <1>0, <2>1, <2>3, <3>2
        <3> QED BY <3>1, <3>2
    <2>4. ASSUME NEW s \in Receivers
          PROVE  hand'[s] = hand[s] \/ hand'[s] = fromPool[c][1]
        BY <1>0, <2>1, <2>2
    <2>5. ASSUME NEW n \in Told' PROVE n \in Told
        <3>1. ASSUME NEW s \in Receivers, hand'[s].kind = "response", hand'[s].id = n
              PROVE  n \in Told
            BY <2>2, <2>4, <2>5, <3>1, ToldOf DEF Told
        <3>2. ASSUME NEW d \in Receivers, NEW i \in 1 .. Len(fromPool'[d]),
                     fromPool'[d][i].kind = "response", fromPool'[d][i].id = n
              PROVE  n \in Told
            <4>1. PICK j \in 1 .. Len(fromPool[d]) : fromPool'[d][i] = fromPool[d][j]
                BY <2>3, <3>2
            <4>2. n \in Nat /\ fromPool[d][j].kind = "response" /\ fromPool[d][j].id = n
                BY <2>5, <3>2, <4>1, ToldOf
            <4> QED BY <4>2 DEF Told
        <3> QED BY <2>5, <3>1, <3>2, ToldOf
    <2> QED BY <2>5
<1>6. ASSUME NEW r \in Receivers, HandleResponse(r) \/ HandleNotify(r) PROVE Told' \subseteq Told
    <2>1. fromPool' = fromPool /\ hand' = [hand EXCEPT ![r] = NoMsg] /\ NoMsg.kind # "response"
        BY <1>6 DEF HandleResponse, HandleNotify, pool, NoMsg
    <2> QED BY <1>0, <2>1, ToldOf DEF Told
<1> QED BY <1>1, <1>3, <1>4, <1>5, <1>6, QueueMoves DEF QueueMove

\* What the steps of everybody but the miners leave alone.
MinersAlone ==
    /\ \A m \in Miners : /\ pc'[m] = "submitWait" <=> pc[m] = "submitWait"
                         /\ reqId'[m] = reqId[m]
                         /\ reply'[m] = reply[m] \/ reqId[m] \in Told
    /\ UNCHANGED <<submitted, accepted, rejected>>
    /\ \/ toPool' \subseteq toPool
       \/ \E x : toPool' = toPool \union {x} /\ x.id = msgId + 1 /\ x.kind # "submit"
    /\ UNCHANGED poolTaken \/ \E q \in toPool : PoolAgrees(q)
MinerMoves(m) == Submit(m) \/ SubmitUnsent(m) \/ SubmitReturns(m)

\* A step of no miner leaves the miners where they are, and what is counted for
\* them grows by no more than the pool took.
LEMMA OthersStep ==
    ASSUME TypeOK, Born, [Next]_vars, \A m \in Miners : ~ MinerMoves(m)
    PROVE  MinersAlone
<1> USE Distinct
<1>1. ASSUME NEW t \in Dialers, NEW where, Goto(t, where)
      PROVE  \A m \in Miners : pc'[m] = "submitWait" <=> pc[m] = "submitWait"
    <2>1. \A m \in Miners : m # t /\ m \in Threads
        OBVIOUS
    <2>2. \A u \in Threads : pc'[u] = IF u = t THEN where ELSE pc[u]
        BY <1>1, OneGoes
    <2> QED BY <2>1, <2>2
<1>2. ASSUME NEW t \in Dialers, NEW where, Disconnect(t, where)
      PROVE  /\ \A m \in Miners : pc'[m] = "submitWait" <=> pc[m] = "submitWait"
             /\ toPool' \subseteq toPool /\ UNCHANGED poolTaken
    <2>1. \A m \in Miners : m # t /\ m \in Threads
        OBVIOUS
    <2> QED BY <1>2, <2>1, DisconnectPlaces DEF Disconnect
<1>3. ASSUME NEW t \in Dialers, NEW where, Goto(t, where),
             UNCHANGED <<submitted, accepted, rejected, poolTaken, reqId, reply>>,
             toPool' \subseteq toPool
      PROVE  MinersAlone
    BY <1>1, <1>3 DEF MinersAlone
<1>4. ASSUME NEW t \in Dialers, Returns(t)
      PROVE  \A m \in Miners : reqId'[m] = reqId[m] /\ reply'[m] = reply[m]
    BY <1>4 DEF Returns, TypeOK
<1>5. ASSUME NEW t \in Dialers, DialerNext(t) PROVE MinersAlone
    <2>1. CASE DialFail(t) /\ UNCHANGED <<session, requests, shares, receiving, pool>>
        BY <1>3, <2>1 DEF DialFail, requests, shares, pool
    <2>2. CASE DialOk(t) /\ UNCHANGED <<session, requests, shares, receiving, pool>>
        <3>0. DialOk(t)
            BY <2>2
        <3>1. /\ conns + 1 \in Receivers
              /\ \A u \in Threads : pc'[u] = IF u = conns + 1 THEN "top"
                                            ELSE IF u = t THEN "subscribe" ELSE pc[u]
            BY <3>0, DialOkPlaces, Zenon
        <3>2. \A m \in Miners : m \in Threads /\ m # t /\ m # conns + 1
            BY <3>1
        <3>3. \A m \in Miners : pc'[m] = pc[m]
            BY <3>1, <3>2, Zenon
        <3> QED BY <2>2, <3>3 DEF MinersAlone, requests, shares, pool
    <2>3. ASSUME NEW kind \in {"subscribe", "authorize"}, Ask(t, kind) PROVE MinersAlone
        <3>1. \A m \in Miners : pc'[m] = "submitWait" <=> pc[m] = "submitWait"
            BY <1>1, <2>3 DEF Ask
        <3>2. \A m \in Miners : reqId'[m] = reqId[m] /\ reply'[m] = reply[m]
            BY <2>3 DEF Ask, Request, TypeOK
        <3>3. \/ toPool' \subseteq toPool
              \/ \E x : toPool' = toPool \union {x} /\ x.id = msgId + 1 /\ x.kind # "submit"
            <4>1. toPool' = toPool \/ toPool' = toPool \union {[id |-> msgId + 1, conn |-> socket[2], kind |-> kind]}
                BY <2>3 DEF Ask, Request
            <4> QED BY <4>1
        <3> QED BY <2>3, <3>1, <3>2, <3>3 DEF MinersAlone, Ask, Request, shares
    <2>4. CASE Subscribed(t) \/ Authorized(t)
        <3>1. UNCHANGED <<shares, pool>> /\ Returns(t) /\ \E where : Goto(t, where)
            BY <2>4 DEF Subscribed, Authorized
        <3> QED BY <1>1, <1>4, <3>1 DEF MinersAlone, shares, pool
    <2>5. CASE HandshakeFailed(t)
        <3>1. \A m \in Miners : reqId'[m] = reqId[m] /\ reply'[m] = reply[m]
            BY <1>4, <2>5 DEF HandshakeFailed, requests
        <3>2. UNCHANGED shares /\ \E where : Disconnect(t, where)
            BY <2>5 DEF HandshakeFailed
        <3> QED BY <1>2, <3>1, <3>2 DEF MinersAlone, shares
    <2> QED BY <1>5, <2>1, <2>2, <2>3, <2>4, <2>5 DEF DialerNext, Connecting
<1>6. CASE Start
    BY <1>3, <1>6 DEF Start, Dial, requests, shares, pool
<1>7. CASE Stop
    BY <1>2, <1>7 DEF Stop, MinersAlone, requests, shares
<1>8. ASSUME NEW t \in Dialers, DialRetry(t), UNCHANGED <<session, requests, shares, receiving, pool>>
      PROVE  MinersAlone
    BY <1>3, <1>8 DEF DialRetry, requests, shares, pool
<1>9. ASSUME NEW r \in Receivers, ReceiverNext(r), ~ DialerNext(r) PROVE MinersAlone
    <2>1. CASE Reconnect(r)
        BY <1>2, <2>1 DEF Reconnect, MinersAlone, requests, shares
    <2>2. CASE HandleResponse(r)
        <3>1. /\ UNCHANGED <<shares, pool, reqId>> /\ Goto(r, "top")
              /\ \A t \in Threads : reply'[t] = reply[t] \/ (reqId[t] = hand[r].id /\ hand[r].kind = "response")
            BY <2>2 DEF HandleResponse
        <3>2. hand[r].kind = "response" => hand[r].id \in Nat
            <4>1. hand[r] \in Messages /\ msgId \in Nat
                BY DEF TypeOK
            <4> QED BY <4>1, Carries
        <3>3. \A m \in Miners : reply'[m] = reply[m] \/ reqId[m] \in Told
            BY <3>1, <3>2 DEF Told
        <3> QED BY <1>1, <3>1, <3>3 DEF MinersAlone, shares, pool
    <2>3. CASE \/ LoopEnds(r) \/ LoopLost(r) \/ LoopRecv(r) \/ Redial(r)
               \/ Recv(r) \/ RecvTorn(r) \/ RecvEof(r) \/ RecvTimeout(r) \/ RecvError(r) \/ HandleNotify(r)
        <3>1. /\ UNCHANGED <<shares, requests, toPool, poolTaken>>
              /\ \E where : Goto(r, where)
            BY <2>3 DEF LoopEnds, LoopLost, LoopRecv, Redial, Dial, Recv, RecvTorn, RecvEof, RecvTimeout,
                        RecvError, HandleNotify, pool
        <3> QED BY <1>3, <3>1 DEF shares, requests
    <2> QED BY <1>9, <2>1, <2>2, <2>3 DEF ReceiverNext
<1>10. CASE \/ \E q \in toPool : PoolAgrees(q)
            \/ \E c \in Receivers : PoolNotifies(c) \/ PoolCloses(c)
            \/ UNCHANGED vars
    <2>1. UNCHANGED <<pc, shares, requests>> /\ toPool' \subseteq toPool
        BY <1>10 DEF PoolAgrees, PoolNotifies, PoolCloses, vars, pool
    <2>2. UNCHANGED poolTaken \/ \E q \in toPool : PoolAgrees(q)
        BY <1>10 DEF PoolNotifies, PoolCloses, vars, pool
    <2> QED BY <2>1, <2>2 DEF MinersAlone, shares, requests
<1> QED BY <1>5, <1>6, <1>7, <1>8, <1>9, <1>10 DEF Next, MinerMoves

\* A step of a miner.
LEMMA MinerStep ==
    ASSUME TypeOK, PendingIsWaiting, LedgerInv, NEW m \in Miners, MinerMoves(m)
    PROVE  LedgerInv' /\ Ledger!LedgerNext
<1> USE Distinct
<1>0. /\ accepted \in Nat /\ rejected \in Nat /\ submitted \in Nat /\ poolTaken \in Nat /\ msgId \in Nat
      /\ reqId \in [Threads -> 0 .. msgId] /\ reply \in [Threads -> Receivers \union {NoReply}]
      /\ toPool \subseteq Asked /\ m \in Threads
    <2>1. MaxEvents \in Nat
        BY StratumAssumption
    <2>2. submitted \in Nat
        BY <2>1 DEF TypeOK
    <2> QED BY <2>2 DEF TypeOK, Asked
<1>1. ASSUME NEW where, Goto(m, where)
      PROVE  /\ where = "submitWait" => OpenCalls' = OpenCalls \union {m}
             /\ where # "submitWait" => OpenCalls' = OpenCalls \ {m}
    <2>1. \A u \in Threads : pc'[u] = IF u = m THEN where ELSE pc[u]
        BY <1>0, <1>1, OneGoes
    <2>2. Miners \subseteq Threads
        OBVIOUS
    <2> HIDE Distinct
    <2>3. CASE where = "submitWait"
        BY <2>1, <2>2, <2>3 DEF OpenCalls
    <2>4. CASE where # "submitWait"
        BY <2>1, <2>2, <2>4 DEF OpenCalls
    <2> QED BY <2>3, <2>4
<1>2. CASE Submit(m)
    <2>1. /\ submitted' = submitted + 1 /\ Goto(m, "submitWait") /\ pc[m] = "mining"
          /\ UNCHANGED <<accepted, rejected, hand, fromPool, poolTaken>>
          /\ reqId' = [reqId EXCEPT ![m] = msgId + 1] /\ reply' = [reply EXCEPT ![m] = NoReply]
        BY <1>2 DEF Submit, CanSubmit, Request, receiving
    <2>2. PICK x : /\ x.id = msgId + 1 /\ x.kind = "submit"
                   /\ toPool' = toPool \/ toPool' = toPool \union {x}
        <3>1. toPool' = toPool \/ toPool' = toPool \union {[id |-> msgId + 1, conn |-> socket[2], kind |-> "submit"]}
            BY <1>2 DEF Submit, Request
        <3> QED BY <3>1
    <2>3. Told' = Told /\ msgId + 1 \notin Told
        <3>1. Told' = Told
            BY <2>1 DEF Told
        <3> QED BY <1>0, <3>1, ToldOf
    <2>4. m \notin OpenCalls /\ OpenCalls' = OpenCalls \union {m}
        BY <1>1, <2>1 DEF OpenCalls
    <2>5. Answerable' \subseteq Answerable
        BY <1>0, <2>1, <2>3, <2>4, LedgerSets DEF Answerable
    <2>6. Cardinality(Answerable') <= Cardinality(Answerable)
        BY <2>5, LedgerSets, FS_Subset
    <2>7. /\ IsFiniteSet(toPool') /\ Cardinality(Sent') <= Cardinality(Sent) + 1
          /\ Cardinality(Sent') \in Nat /\ Cardinality(Sent) \in Nat
        <3>1. IsFiniteSet(toPool \union {x}) /\ IsFiniteSet(Sent)
            BY LedgerSets, FS_AddElement DEF LedgerInv
        <3>2. Sent' = Sent \/ Sent' = Sent \union {x}
            BY <2>2, LedgerSets DEF Sent
        <3>3. Cardinality(Sent) \in Nat
            BY <3>1, FS_CardinalityType
        <3>4. Cardinality(Sent \union {x}) <= Cardinality(Sent) + 1
            BY <3>1, AtMostOneMore
        <3>5. IsFiniteSet(Sent \union {x}) /\ IsFiniteSet(toPool)
            BY <3>1, FS_AddElement DEF LedgerInv
        <3>6. IsFiniteSet(Sent') /\ IsFiniteSet(toPool') /\ Cardinality(Sent') <= Cardinality(Sent) + 1
            BY <2>2, <3>1, <3>2, <3>3, <3>4, <3>5
        <3>7. Cardinality(Sent') \in Nat
            BY <3>6, FS_CardinalityType
        <3> QED BY <3>3, <3>6, <3>7
    <2>8. \A q \in toPool', u \in OpenCalls' : reqId'[u] = q.id => q.kind = "submit"
        BY <1>0, <2>1, <2>2, <2>4 DEF LedgerInv, Asked, OpenCalls
    <2>9. LedgerInv'
        BY <1>0, <2>1, <2>6, <2>7, <2>8, LedgerSets DEF LedgerInv
    <2>10. Cardinality(OpenCalls') = Cardinality(OpenCalls) + 1
        <3>1. IsFiniteSet(OpenCalls)
            BY LedgerSets
        <3> QED BY <2>4, <3>1, FS_AddElement
    <2>11. Ledger!Offer
        BY <2>1, <2>10 DEF Ledger!Offer, OpenCalls
    <2> QED BY <2>9, <2>11 DEF Ledger!LedgerNext
<1>3. CASE SubmitUnsent(m)
    <2>1. /\ submitted' = submitted + 1 /\ rejected' = rejected + 1
          /\ UNCHANGED <<accepted, hand, fromPool, poolTaken, toPool, reqId, reply, pc>>
        BY <1>3 DEF SubmitUnsent, receiving, requests, pool
    <2>2. OpenCalls' = OpenCalls /\ Told' = Told /\ Answerable' = Answerable /\ Sent' = Sent
        BY <2>1 DEF OpenCalls, Told, Answerable, Sent
    <2>3. LedgerInv'
        BY <1>0, <2>1, <2>2, LedgerSets DEF LedgerInv
    <2>4. Ledger!Offer
        BY <2>1, <2>2 DEF Ledger!Offer, OpenCalls
    <2> QED BY <2>3, <2>4 DEF Ledger!LedgerNext
<1>4. CASE SubmitReturns(m)
    <2>1. /\ Goto(m, "mining") /\ pc[m] = "submitWait"
          /\ UNCHANGED <<submitted, hand, fromPool, poolTaken, toPool>>
          /\ reqId' = [reqId EXCEPT ![m] = 0] /\ reply' = [reply EXCEPT ![m] = NoReply]
        BY <1>4 DEF SubmitReturns, Returns, receiving, pool
    <2>2. Told' = Told /\ Sent' = Sent
        BY <2>1 DEF Told, Sent
    <2>3. m \in OpenCalls /\ OpenCalls' = OpenCalls \ {m}
        BY <1>1, <2>1 DEF OpenCalls
    <2>4. Answerable' \subseteq Answerable \ {m}
        BY <1>0, <2>1, <2>2, <2>3, LedgerSets DEF Answerable
    <2>5. /\ Cardinality(Answerable') <= Cardinality(Answerable)
          /\ m \in Answerable => Cardinality(Answerable') <= Cardinality(Answerable) - 1
        <3>1. IsFiniteSet(Answerable \ {m}) /\ Answerable' \subseteq Answerable
            BY <2>4, LedgerSets, FS_RemoveElement
        <3>2. Cardinality(Answerable') <= Cardinality(Answerable)
            BY <3>1, LedgerSets, FS_Subset
        <3>3. Cardinality(Answerable') <= Cardinality(Answerable \ {m})
            BY <2>4, <3>1, FS_Subset
        <3>4. m \in Answerable => Cardinality(Answerable \ {m}) = Cardinality(Answerable) - 1
            BY LedgerSets, FS_RemoveElement
        <3> QED BY <3>2, <3>3, <3>4
    <2>6. \A q \in toPool', u \in OpenCalls' : reqId'[u] = q.id => q.kind = "submit"
        BY <1>0, <2>1, <2>3 DEF LedgerInv, OpenCalls
    <2>7. Cardinality(OpenCalls') = Cardinality(OpenCalls) - 1 /\ Cardinality(OpenCalls) > 0
        <3>1. Cardinality(OpenCalls') = Cardinality(OpenCalls) - 1 /\ IsFiniteSet(OpenCalls')
            BY <2>3, LedgerSets, FS_RemoveElement
        <3>2. Cardinality(OpenCalls') \in Nat
            BY <3>1, FS_CardinalityType
        <3> QED BY <3>1, <3>2, LedgerSets
    <2>8. CASE reply[m] # NoReply
        <3>1. accepted' = accepted + 1 /\ UNCHANGED rejected
            BY <1>4, <2>8 DEF SubmitReturns
        <3>2. m \in Answerable
            BY <2>3, <2>8 DEF Answerable
        <3>3. LedgerInv' /\ accepted < poolTaken
            BY <1>0, <2>1, <2>2, <2>5, <2>6, <3>1, <3>2, LedgerSets DEF LedgerInv
        <3>4. Ledger!Settle
            BY <2>1, <2>7, <3>1, <3>3 DEF Ledger!Settle, OpenCalls
        <3> QED BY <3>3, <3>4 DEF Ledger!LedgerNext
    <2>9. CASE reply[m] = NoReply
        <3>1. rejected' = rejected + 1 /\ UNCHANGED accepted
            BY <1>4, <2>9 DEF SubmitReturns
        <3>2. LedgerInv'
            BY <1>0, <2>1, <2>2, <2>5, <2>6, <3>1, LedgerSets DEF LedgerInv
        <3>3. Ledger!Settle
            BY <2>1, <2>7, <3>1 DEF Ledger!Settle, OpenCalls
        <3> QED BY <3>2, <3>3 DEF Ledger!LedgerNext
    <2> QED BY <2>8, <2>9
<1> QED BY <1>2, <1>3, <1>4 DEF MinerMoves

\* A step of anybody else.
LEMMA OtherLedgerStep ==
    ASSUME TypeOK, PendingIsWaiting, LedgerInv, MinersAlone, [Next]_vars
    PROVE  LedgerInv' /\ (Ledger!Take \/ UNCHANGED Ledger!ledger)
<1> USE Distinct
<1>0. /\ accepted \in Nat /\ rejected \in Nat /\ submitted \in Nat /\ poolTaken \in Nat /\ msgId \in Nat
      /\ reqId \in [Threads -> 0 .. msgId] /\ toPool \subseteq Asked
    BY StratumAssumption DEF TypeOK, Asked
<1>1. /\ OpenCalls' = OpenCalls /\ UNCHANGED <<submitted, accepted, rejected>>
      /\ \A m \in OpenCalls : reqId'[m] = reqId[m] /\ (reply'[m] = reply[m] \/ reqId[m] \in Told)
    BY DEF MinersAlone, OpenCalls
<1>2. /\ IsFiniteSet(toPool') /\ Sent' \subseteq Sent
      /\ \A q \in toPool' : q \in toPool \/ \A m \in OpenCalls : reqId[m] # q.id
    <2>1. CASE toPool' \subseteq toPool
        <3>1. IsFiniteSet(toPool')
            BY <2>1, FS_Subset DEF LedgerInv
        <3> QED BY <2>1, <3>1, LedgerSets DEF Sent
    <2>2. CASE \E x : toPool' = toPool \union {x} /\ x.id = msgId + 1 /\ x.kind # "submit"
        <3>1. PICK x : toPool' = toPool \union {x} /\ x.id = msgId + 1 /\ x.kind # "submit"
            BY <2>2
        <3>2. IsFiniteSet(toPool')
            BY <3>1, FS_AddElement DEF LedgerInv
        <3>3. \A m \in OpenCalls : reqId[m] # msgId + 1
            BY <1>0 DEF OpenCalls
        <3> QED BY <3>1, <3>2, <3>3, LedgerSets DEF Sent
    <2> QED BY <2>1, <2>2 DEF MinersAlone
<1>3. \A q \in toPool', m \in OpenCalls' : reqId'[m] = q.id => q.kind = "submit"
    BY <1>1, <1>2 DEF LedgerInv
<1>4. Cardinality(Sent') <= Cardinality(Sent) /\ Cardinality(Sent') \in Nat
    BY <1>2, LedgerSets, FS_Subset, FS_CardinalityType DEF LedgerInv
<1>5. CASE \E q \in toPool : PoolAgrees(q) /\ q.kind = "submit"
    <2>1. PICK q \in toPool : PoolAgrees(q) /\ q.kind = "submit"
        BY <1>5
    <2>2. poolTaken' = poolTaken + 1 /\ toPool' = toPool \ {q} /\ UNCHANGED <<pc, reqId, reply>>
        BY <2>1 DEF PoolAgrees, requests
    <2>3. Told' \subseteq Told \union {q.id}
        <3>1. Told' \subseteq Told \/ \E p \in toPool : PoolAgrees(p) /\ Told' \subseteq Told \union {p.id}
            BY ToldMoves
        <3>2. ASSUME NEW p \in toPool, PoolAgrees(p) PROVE p = q
            BY <2>2, <3>2 DEF PoolAgrees
        <3> QED BY <3>1, <3>2
    <2>4. Sent' = Sent \ {q} /\ q \in Sent
        BY <2>1, <2>2, LedgerSets DEF Sent
    <2>5. Cardinality(Sent') = Cardinality(Sent) - 1
        <3>1. IsFiniteSet(Sent)
            BY LedgerSets DEF LedgerInv
        <3> QED BY <2>4, <3>1, FS_RemoveElement
    <2>6. \A t, u \in OpenCalls : reqId[t] = reqId[u] => t = u
        BY DEF PendingIsWaiting, OpenCalls, Waiting
    <2>7. Cardinality(Answerable') <= Cardinality(Answerable) + 1
        <3>1. CASE \E m \in OpenCalls : reqId[m] = q.id
            <4>1. PICK m \in OpenCalls : reqId[m] = q.id
                BY <3>1
            <4>2. Answerable' \subseteq Answerable \union {m}
                BY <1>1, <2>2, <2>3, <2>6, <4>1, LedgerSets DEF Answerable
            <4>3. /\ IsFiniteSet(Answerable \union {m})
                  /\ Cardinality(Answerable \union {m}) <= Cardinality(Answerable) + 1
                <5>1. IsFiniteSet(Answerable) /\ Cardinality(Answerable) \in Nat
                    BY LedgerSets
                <5> QED BY <5>1, AtMostOneMore
            <4>4. Cardinality(Answerable') <= Cardinality(Answerable \union {m})
                BY <4>2, <4>3, FS_Subset
            <4>5. Cardinality(Answerable \union {m}) \in Nat
                BY <4>3, FS_CardinalityType
            <4> QED BY <4>3, <4>4, <4>5, LedgerSets
        <3>2. CASE \A m \in OpenCalls : reqId[m] # q.id
            <4>1. Answerable' \subseteq Answerable
                BY <1>1, <2>2, <2>3, <3>2, LedgerSets DEF Answerable
            <4>2. Cardinality(Answerable') <= Cardinality(Answerable)
                BY <4>1, LedgerSets, FS_Subset
            <4> QED BY <4>2, LedgerSets
        <3> QED BY <3>1, <3>2
    <2>8. LedgerInv' /\ poolTaken < submitted
        BY <1>0, <1>1, <1>2, <1>3, <1>4, <2>2, <2>5, <2>7, LedgerSets DEF LedgerInv
    <2>9. Ledger!Take
        BY <1>1, <2>2, <2>8 DEF Ledger!Take, OpenCalls
    <2> QED BY <2>8, <2>9
<1>6. CASE \A q \in toPool : PoolAgrees(q) => q.kind # "submit"
    <2>1. UNCHANGED poolTaken
        BY <1>6 DEF MinersAlone, PoolAgrees
    <2>2. Answerable' \subseteq Answerable
        <3>1. CASE Told' \subseteq Told
            BY <1>1, <3>1, LedgerSets DEF Answerable
        <3>2. ASSUME NEW q \in toPool, PoolAgrees(q), Told' \subseteq Told \union {q.id}
              PROVE  Answerable' \subseteq Answerable
            <4>1. \A m \in OpenCalls : reqId[m] # q.id
                BY <1>6, <3>2 DEF LedgerInv
            <4> QED BY <1>1, <3>2, <4>1, LedgerSets DEF Answerable
        <3> QED BY <3>1, <3>2, ToldMoves
    <2>3. Cardinality(Answerable') <= Cardinality(Answerable)
        BY <2>2, LedgerSets, FS_Subset
    <2>4. LedgerInv'
        BY <1>0, <1>1, <1>2, <1>3, <1>4, <2>1, <2>3, LedgerSets DEF LedgerInv
    <2>5. UNCHANGED Ledger!ledger
        BY <1>1, <2>1 DEF Ledger!ledger, OpenCalls
    <2> QED BY <2>4, <2>5
<1> QED BY <1>5, <1>6

LedgerStInv == StInv /\ LedgerInv

\* Nothing is counted at the start.
LEMMA LedgerStart == Init => LedgerInv /\ Ledger!LedgerInit
<1> SUFFICES ASSUME Init PROVE LedgerInv /\ Ledger!LedgerInit
    OBVIOUS
<1>1. \A m \in Miners : pc[m] = "mining"
    BY Distinct DEF Init
<1>2. OpenCalls = {} /\ Answerable = {} /\ Sent = {}
    BY <1>1 DEF OpenCalls, Answerable, Sent, Init
<1>3. Cardinality({}) = 0 /\ IsFiniteSet({})
    BY FS_EmptySet
<1>4. LedgerInv
    BY <1>2, <1>3 DEF LedgerInv, Init
<1>5. Ledger!LedgerInit
    BY <1>2, <1>3 DEF Ledger!LedgerInit, Init, OpenCalls
<1> QED BY <1>4, <1>5

\* Every step keeps the invariant and is one of the ledger, or a stutter.
LEMMA LedgerStep ==
    LedgerStInv /\ [Next]_vars => LedgerStInv' /\ [Ledger!LedgerNext]_Ledger!ledger
<1> SUFFICES ASSUME LedgerStInv, [Next]_vars
             PROVE  LedgerStInv' /\ (Ledger!LedgerNext \/ UNCHANGED Ledger!ledger)
    OBVIOUS
<1>1. StInv'
    BY StTypeStep, ServedStep, PendingStep DEF LedgerStInv, StInv
<1>2. ASSUME NEW m \in Miners, MinerMoves(m)
      PROVE  LedgerInv' /\ Ledger!LedgerNext
    BY <1>2, MinerStep DEF LedgerStInv, StInv
<1>3. CASE \A m \in Miners : ~ MinerMoves(m)
    <2>1. MinersAlone
        BY <1>3, OthersStep DEF LedgerStInv, StInv
    <2> QED BY <1>1, <2>1, OtherLedgerStep DEF LedgerStInv, StInv, Ledger!LedgerNext
<1> QED BY <1>1, <1>2, <1>3 DEF LedgerStInv

\* The counters keep the ledger's promise.
THEOREM LedgerKept == Spec => KeepsLedger
<1>1. Init => LedgerStInv /\ Ledger!LedgerInit
    BY LedgerStart, StInitTypes, StStart DEF LedgerStInv, StInv
<1>2. Spec => Ledger!LedgerInit /\ [][Ledger!LedgerNext]_Ledger!ledger
    BY <1>1, LedgerStep, PTL DEF Spec
<1> QED BY <1>2 DEF KeepsLedger, Ledger!LedgerSpec
=============================================================================
