------------------------------- MODULE Stratum -------------------------------
(***************************************************************************)
(* StratumClient (nexus/strategies/pow_mining.py): one client object       *)
(* shared by the thread that starts and stops mining (Ctl), the mining     *)
(* workers that submit shares, and the receive threads, of which every     *)
(* successful connect() starts one more.  The pool and the network are     *)
(* external.                                                               *)
(*                                                                         *)
(* A step runs from one blocking call to the next: sleep, connect, recv,   *)
(* the 10 s wait for a response.  An attribute update between two calls    *)
(* is not interrupted (CPython 3.11, which the images pin).                *)
(***************************************************************************)
EXTENDS Integers, Sequences, FiniteSets

CONSTANTS
  Miners,         \* worker threads of the CPU miner
  Ctl,            \* the thread in start_mining / stop_mining
  MaxReconnect,   \* max_reconnect_attempts
  MaxConn,        \* bound: TCP connections that come up
  MaxEvents       \* bound: connections, shares found and jobs sent, together

Receivers == 1 .. MaxConn          \* receive thread c is started with connection c
Dialers == Receivers \union {Ctl}  \* threads that may call connect()
Threads == Dialers \union Miners

ASSUME StratumAssumption ==
  /\ MaxReconnect \in Nat \ {0} /\ MaxConn \in Nat \ {0}
  /\ MaxEvents \in Nat
  /\ IsFiniteSet(Miners)
  /\ Ctl \notin Miners /\ Ctl \notin Nat /\ Miners \intersect Nat = {}

VARIABLES
  running, connected, authorized,   \* self._running, _connected, _authorized
  socket,      \* self._socket: none, not connected yet, or a connection
  en,          \* connection whose subscription set self._extranonce1, or 0
  job,         \* self._current_job
  msgId, pending,                   \* self._message_id, keys of _pending_responses
  submitted, accepted, rejected,    \* the share counters
  pc,          \* where each thread is
  at,          \* the socket object a receive thread is blocked on in recv
  hand,        \* the message it is handling
  attempts,    \* reconnect_attempts of each receive thread
  reqId, reply,                     \* the request a thread waits on, and its result
  conn, conns, \* state of each connection, how many came up
  toPool, fromPool,                 \* messages under way
  poolSub, poolTaken, jobs          \* the pool: subscribed connections, shares taken, jobs sent

link == <<running, connected, socket, conn, conns>>
session == <<authorized, en, job>>
requests == <<msgId, pending, reqId, reply>>
shares == <<submitted, accepted, rejected>>
receiving == <<at, hand, attempts>>
pool == <<toPool, fromPool, poolSub, poolTaken, jobs>>
vars == <<link, session, requests, shares, pc, receiving, pool>>

NoSocket == <<"none", 0>>
Raw(t) == <<"raw", t>>        \* created by t's connect(), not connected yet
Conn(c) == <<"conn", c>>
NoJob == [id |-> 0, conn |-> 0, en |-> 0]
NoMsg == [kind |-> "none"]
NoReply == 0

Init ==
  /\ running = FALSE /\ connected = FALSE /\ authorized = FALSE
  /\ socket = NoSocket /\ en = 0 /\ job = NoJob
  /\ msgId = 0 /\ pending = {}
  /\ submitted = 0 /\ accepted = 0 /\ rejected = 0
  /\ pc = [t \in Threads |-> IF t \in Miners THEN "mining"
                             ELSE IF t = Ctl THEN "idle" ELSE "unborn"]
  /\ at = [r \in Receivers |-> NoSocket]
  /\ hand = [r \in Receivers |-> NoMsg]
  /\ attempts = [r \in Receivers |-> 0]
  /\ reqId = [t \in Threads |-> 0]
  /\ reply = [t \in Threads |-> NoReply]
  /\ conn = [c \in Receivers |-> "new"] /\ conns = 0
  /\ toPool = {} /\ fromPool = [c \in Receivers |-> <<>>]
  /\ poolSub = {} /\ poolTaken = 0 /\ jobs = 0

Budget == conns + submitted + jobs < MaxEvents

Goto(t, where) == pc' = [pc EXCEPT ![t] = where]
-----------------------------------------------------------------------------
(* disconnect(), called by t, which goes on at `where'.  What was under    *)
(* way on the connection is lost, and a connect() that is blocked on the   *)
(* socket this closes can only fail.                                       *)
Disconnect(t, where) ==
  /\ running' = FALSE
  /\ connected' = FALSE
  /\ socket' = NoSocket
  /\ conn' = IF \E c \in Receivers : socket = Conn(c)
             THEN [conn EXCEPT ![socket[2]] = "closed"] ELSE conn
  /\ pc' = [u \in Threads |->
              IF u = t THEN where
              ELSE IF pc[u] = "dial" /\ socket = Raw(u) THEN "dialClosed"
              ELSE pc[u]]
  /\ fromPool' = [c \in Receivers |-> IF socket = Conn(c) THEN <<>> ELSE fromPool[c]]
  /\ toPool' = {q \in toPool : socket # Conn(q.conn)}
  /\ poolSub' = {c \in poolSub : socket # Conn(c)}
  /\ UNCHANGED <<conns, poolTaken, jobs>>

(* connect(): each attempt replaces self._socket by a fresh one ...        *)
Dial(t, from) ==
  /\ pc[t] = from
  /\ socket' = Raw(t)
  /\ Goto(t, "dial")
  /\ UNCHANGED <<running, connected, conn, conns>>

\* ... which connects, and a receive thread is started, ...
DialOk(t) ==
  /\ pc[t] = "dial"
  /\ conns < MaxConn /\ Budget
  /\ conns' = conns + 1
  /\ conn' = [conn EXCEPT ![conns + 1] = "open"]
  /\ socket' = IF socket = Raw(t) THEN Conn(conns + 1) ELSE socket
  /\ connected' = TRUE
  /\ running' = TRUE
  /\ pc' = [pc EXCEPT ![t] = "subscribe", ![conns + 1] = "top"]

\* ... or fails and is tried again, ...
DialRetry(t) ==
  /\ pc[t] \in {"dial", "dialClosed"}
  /\ connected' = FALSE
  /\ socket' = Raw(t)
  /\ Goto(t, "dial")
  /\ UNCHANGED <<running, conn, conns>>

\* ... or fails for the last time.  Only _connected is written.
DialFail(t) ==
  /\ pc[t] \in {"dial", "dialClosed"}
  /\ connected' = FALSE
  /\ Goto(t, IF t = Ctl THEN "idle" ELSE "top")
  /\ UNCHANGED <<running, socket, conn, conns>>

Connecting(t) ==
  /\ DialOk(t) \/ DialFail(t)
  /\ UNCHANGED <<session, requests, shares, receiving, pool>>
-----------------------------------------------------------------------------
(* _send_request: sendall raises on a missing or unconnected socket; on a  *)
(* connection the server has left, the request is lost.                    *)
CanSend == \E c \in Receivers : socket = Conn(c)

Request(t, kind) ==
  /\ CanSend
  /\ msgId' = msgId + 1
  /\ reqId' = [reqId EXCEPT ![t] = msgId + 1]
  /\ reply' = [reply EXCEPT ![t] = NoReply]
  /\ pending' = pending \union {msgId + 1}
  /\ toPool' = IF conn[socket[2]] = "open"
               THEN toPool \union {[id |-> msgId + 1, conn |-> socket[2], kind |-> kind]}
               ELSE toPool
  /\ UNCHANGED <<fromPool, poolSub, poolTaken, jobs>>

\* Fault variant: the entry is left behind when the call returns.
ReturnsLeaking(t) ==
  /\ reqId' = [reqId EXCEPT ![t] = 0]
  /\ reply' = [reply EXCEPT ![t] = NoReply]
  /\ UNCHANGED <<msgId, pending>>

\* The finally clause: the entry goes whatever the outcome.
Returns(t) ==
  /\ pending' = pending \ {reqId[t]}
  /\ reqId' = [reqId EXCEPT ![t] = 0]
  /\ reply' = [reply EXCEPT ![t] = NoReply]
  /\ UNCHANGED msgId

Awaiting == [subscribe |-> "subscribeWait", authorize |-> "authorizeWait"]

\* subscribe() and authorize(), called one after the other by start_mining
\* and by reconnect().
Ask(t, call) ==
  /\ pc[t] = call
  /\ connected
  /\ Request(t, call)
  /\ Goto(t, Awaiting[call])
  /\ UNCHANGED <<link, session, shares, receiving>>

Subscribed(t) ==
  /\ pc[t] = "subscribeWait"
  /\ reply[t] # NoReply
  /\ en' = reply[t]
  /\ Goto(t, "authorize")
  /\ Returns(t)
  /\ UNCHANGED <<link, authorized, job, shares, receiving, pool>>

Authorized(t) ==
  /\ pc[t] = "authorizeWait"
  /\ reply[t] # NoReply
  /\ authorized' = TRUE
  /\ Goto(t, IF t = Ctl THEN "up" ELSE "top")
  /\ attempts' = [r \in Receivers |-> IF r = t THEN 0 ELSE attempts[r]]
  /\ Returns(t)
  /\ UNCHANGED <<link, en, job, shares, at, hand, pool>>

\* The call cannot be sent, is refused or is not answered within 10 s: the
\* caller disconnects.  _authorized and _current_job keep their values.
HandshakeFailed(t) ==
  /\ \/ pc[t] \in {"subscribe", "authorize"} /\ ~(connected /\ CanSend)
        /\ UNCHANGED requests
     \/ pc[t] \in {"subscribeWait", "authorizeWait"} /\ reply[t] = NoReply
        /\ Returns(t)
  /\ Disconnect(t, IF t = Ctl THEN "idle" ELSE "top")
  /\ UNCHANGED <<session, shares, receiving>>

\* start_mining connects; stop_mining disconnects.
Start ==
  /\ Dial(Ctl, "idle")
  /\ UNCHANGED <<session, requests, shares, receiving, pool>>

Stop ==
  /\ pc[Ctl] = "up"
  /\ Disconnect(Ctl, "idle")
  /\ UNCHANGED <<session, requests, shares, receiving>>
-----------------------------------------------------------------------------
(* submit_share of a worker.  The worker may still be in its batch after   *)
(* stop(), so this does not wait for mining to be up.                      *)
CanSubmit(m) == pc[m] = "mining" /\ authorized /\ job # NoJob /\ Budget

Submit(m) ==
  /\ CanSubmit(m)
  /\ submitted' = submitted + 1
  /\ Request(m, "submit")
  /\ Goto(m, "submitWait")
  /\ UNCHANGED <<link, session, accepted, rejected, receiving>>

\* Fault variant: a share that cannot be sent is counted on one side only.
SubmitUnsentUncounted(m) ==
  /\ CanSubmit(m)
  /\ ~CanSend
  /\ submitted' = submitted + 1
  /\ UNCHANGED <<link, session, requests, accepted, rejected, pc, receiving, pool>>

SubmitUnsent(m) ==
  /\ CanSubmit(m)
  /\ ~CanSend
  /\ submitted' = submitted + 1
  /\ rejected' = rejected + 1
  /\ UNCHANGED <<link, session, requests, accepted, pc, receiving, pool>>

\* The answer is there, or 10 s are over: no answer counts as a rejection.
SubmitReturns(m) ==
  /\ pc[m] = "submitWait"
  /\ IF reply[m] # NoReply
     THEN accepted' = accepted + 1 /\ UNCHANGED rejected
     ELSE rejected' = rejected + 1 /\ UNCHANGED accepted
  /\ Returns(m)
  /\ Goto(m, "mining")
  /\ UNCHANGED <<link, session, submitted, receiving, pool>>
-----------------------------------------------------------------------------
(* _receive_loop.  At the top of the loop it ends when running is off,     *)
LoopEnds(r) ==
  /\ pc[r] = "top"
  /\ \/ ~running
     \/ ~connected /\ attempts[r] >= MaxReconnect
     \/ socket = NoSocket /\ attempts[r] >= MaxReconnect
  /\ Goto(r, "done")
  /\ UNCHANGED <<link, session, requests, shares, receiving, pool>>

\* Fault variant: one attempt more than allowed.
LoopLostOneMore(r) ==
  /\ pc[r] = "top"
  /\ running
  /\ socket = NoSocket \/ ~connected
  /\ attempts[r] <= MaxReconnect
  /\ attempts' = [attempts EXCEPT ![r] = attempts[r] + 1]
  /\ Goto(r, "backoff")
  /\ UNCHANGED <<link, session, requests, shares, at, hand, pool>>

\* Fault variant: reconnects whether or not the client was stopped.
LoopLostStopped(r) ==
  /\ pc[r] = "top"
  /\ socket = NoSocket \/ ~connected
  /\ attempts[r] < MaxReconnect
  /\ attempts' = [attempts EXCEPT ![r] = attempts[r] + 1]
  /\ Goto(r, "backoff")
  /\ UNCHANGED <<link, session, requests, shares, at, hand, pool>>

\* sleeps before an attempt to reconnect when the connection is lost, ...
LoopLost(r) ==
  /\ pc[r] = "top"
  /\ running
  /\ socket = NoSocket \/ ~connected
  /\ attempts[r] < MaxReconnect
  /\ attempts' = [attempts EXCEPT ![r] = attempts[r] + 1]
  /\ Goto(r, "backoff")
  /\ UNCHANGED <<link, session, requests, shares, at, hand, pool>>

\* ... and otherwise blocks in recv on the socket of that moment.
LoopRecv(r) ==
  /\ pc[r] = "top"
  /\ running /\ connected /\ socket # NoSocket
  /\ at' = [at EXCEPT ![r] = socket]
  /\ Goto(r, "recv")
  /\ UNCHANGED <<link, session, requests, shares, hand, attempts, pool>>

\* reconnect(): disconnect, a pause, connect.
Reconnect(r) ==
  /\ pc[r] = "backoff"
  /\ Disconnect(r, "pause")
  /\ UNCHANGED <<session, requests, shares, receiving>>

Redial(r) ==
  /\ Dial(r, "pause")
  /\ UNCHANGED <<session, requests, shares, receiving, pool>>

Reads(r, c) == pc[r] = "recv" /\ at[r] = Conn(c)

\* Fault variant: of the lines received together the last is handled first.
RecvLastFirst(r) ==
  /\ \E c \in Receivers :
       /\ Reads(r, c) /\ conn[c] \in {"open", "eof"} /\ fromPool[c] # <<>>
       /\ hand' = [hand EXCEPT ![r] = fromPool[c][Len(fromPool[c])]]
       /\ fromPool' = [fromPool EXCEPT ![c] = SubSeq(@, 1, Len(@) - 1)]
  /\ at' = [at EXCEPT ![r] = NoSocket]
  /\ attempts' = [attempts EXCEPT ![r] = 0]
  /\ Goto(r, "handle")
  /\ UNCHANGED <<link, session, requests, shares, toPool, poolSub, poolTaken, jobs>>

Recv(r) ==
  /\ \E c \in Receivers :
       /\ Reads(r, c) /\ conn[c] \in {"open", "eof"} /\ fromPool[c] # <<>>
       /\ hand' = [hand EXCEPT ![r] = Head(fromPool[c])]
       /\ fromPool' = [fromPool EXCEPT ![c] = Tail(@)]
  /\ at' = [at EXCEPT ![r] = NoSocket]
  /\ attempts' = [attempts EXCEPT ![r] = 0]
  /\ Goto(r, "handle")
  /\ UNCHANGED <<link, session, requests, shares, toPool, poolSub, poolTaken, jobs>>

\* Two receive threads read one connection: each gets a part of the line,
\* neither part parses, the message is gone.
RecvTorn(r) ==
  /\ \E c \in Receivers :
       /\ Reads(r, c) /\ conn[c] \in {"open", "eof"} /\ fromPool[c] # <<>>
       /\ \E s \in Receivers \ {r} : Reads(s, c)
       /\ fromPool' = [fromPool EXCEPT ![c] = Tail(@)]
  /\ at' = [at EXCEPT ![r] = NoSocket]
  /\ attempts' = [attempts EXCEPT ![r] = 0]
  /\ Goto(r, "top")
  /\ UNCHANGED <<link, session, requests, shares, hand, toPool, poolSub, poolTaken, jobs>>

\* The server has closed or reset the connection.
RecvEof(r) ==
  /\ \E c \in Receivers : Reads(r, c) /\ conn[c] = "eof" /\ fromPool[c] = <<>>
  /\ connected' = FALSE
  /\ at' = [at EXCEPT ![r] = NoSocket]
  /\ Goto(r, "top")
  /\ UNCHANGED <<running, socket, conn, conns, session, requests, shares, hand, attempts, pool>>

\* 10 s without data; a socket another thread has closed looks the same.
\* A timeout that leads straight back into recv on the same socket is a stutter.
RecvTimeout(r) ==
  /\ \E c \in Receivers :
       Reads(r, c) /\ (conn[c] = "closed" \/ (conn[c] = "open" /\ fromPool[c] = <<>>))
  /\ ~running \/ ~connected \/ socket # at[r]
  /\ at' = [at EXCEPT ![r] = NoSocket]
  /\ Goto(r, "top")
  /\ UNCHANGED <<link, session, requests, shares, hand, attempts, pool>>

SocketBroken(r) ==
  /\ pc[r] = "recv"
  /\ \/ \E t \in Dialers : at[r] = Raw(t)
     \/ \E c \in Receivers : at[r] = Conn(c) /\ conn[c] = "closed"

\* Fault variant: the thread ends without saying the connection is lost.
RecvErrorSilent(r) ==
  /\ SocketBroken(r)
  /\ at' = [at EXCEPT ![r] = NoSocket]
  /\ Goto(r, "done")
  /\ UNCHANGED <<link, session, requests, shares, hand, attempts, pool>>

\* recv raises on a socket that is not connected or was closed meanwhile:
\* the thread ends, and if running is on declares the connection lost.
RecvError(r) ==
  /\ SocketBroken(r)
  /\ connected' = (connected /\ ~running)
  /\ at' = [at EXCEPT ![r] = NoSocket]
  /\ Goto(r, "done")
  /\ UNCHANGED <<running, socket, conn, conns, session, requests, shares, hand, attempts, pool>>

\* _handle_message: the response of a request somebody still waits for ...
HandleResponse(r) ==
  /\ pc[r] = "handle" /\ hand[r].kind = "response"
  /\ reply' = [t \in Threads |->
                 IF reqId[t] = hand[r].id /\ hand[r].id \in pending
                 THEN hand[r].conn ELSE reply[t]]
  /\ hand' = [hand EXCEPT ![r] = NoMsg]
  /\ Goto(r, "top")
  /\ UNCHANGED <<link, session, msgId, pending, reqId, shares, at, attempts, pool>>

\* ... or a new job, built with the extranonce the client has now.
HandleNotify(r) ==
  /\ pc[r] = "handle" /\ hand[r].kind = "notify"
  /\ job' = [id |-> hand[r].id, conn |-> hand[r].conn, en |-> en]
  /\ hand' = [hand EXCEPT ![r] = NoMsg]
  /\ Goto(r, "top")
  /\ UNCHANGED <<link, authorized, en, requests, shares, at, attempts, pool>>
-----------------------------------------------------------------------------
(* The pool: it agrees to requests, sends jobs to subscribed connections,  *)
(* and may leave.  A refusal has the effect of no answer in every caller,  *)
(* and is modelled as one.                                                 *)
Deliver(c, msg) ==
  fromPool' = IF conn[c] = "open" THEN [fromPool EXCEPT ![c] = Append(@, msg)] ELSE fromPool

PoolAgrees(q) ==
  /\ toPool' = toPool \ {q}
  /\ Deliver(q.conn, [kind |-> "response", id |-> q.id, conn |-> q.conn])
  /\ poolSub' = IF q.kind = "subscribe" THEN poolSub \union {q.conn} ELSE poolSub
  /\ poolTaken' = IF q.kind = "submit" THEN poolTaken + 1 ELSE poolTaken
  /\ UNCHANGED <<jobs, link, session, requests, shares, pc, receiving>>

PoolNotifies(c) ==
  /\ c \in poolSub /\ conn[c] = "open"
  /\ Budget
  /\ jobs' = jobs + 1
  /\ Deliver(c, [kind |-> "notify", id |-> jobs + 1, conn |-> c])
  /\ UNCHANGED <<toPool, poolSub, poolTaken, link, session, requests, shares, pc, receiving>>

PoolCloses(c) ==
  /\ conn[c] = "open"
  /\ conn' = [conn EXCEPT ![c] = "eof"]
  /\ toPool' = {q \in toPool : q.conn # c}
  /\ poolSub' = poolSub \ {c}
  /\ UNCHANGED <<running, connected, socket, conns, session, requests, shares, pc, receiving>>
  /\ UNCHANGED <<fromPool, poolTaken, jobs>>
-----------------------------------------------------------------------------
DialerNext(t) ==
  \/ Connecting(t)
  \/ Ask(t, "subscribe") \/ Ask(t, "authorize")
  \/ Subscribed(t) \/ Authorized(t) \/ HandshakeFailed(t)

ReceiverNext(r) ==
  \/ DialerNext(r)
  \/ LoopEnds(r) \/ LoopLost(r) \/ LoopRecv(r) \/ Reconnect(r) \/ Redial(r)
  \/ Recv(r) \/ RecvTorn(r) \/ RecvEof(r) \/ RecvTimeout(r) \/ RecvError(r)
  \/ HandleResponse(r) \/ HandleNotify(r)

Next ==
  \/ Start \/ Stop \/ DialerNext(Ctl)
  \/ \E r \in Receivers : ReceiverNext(r)
  \/ \E t \in Dialers : DialRetry(t) /\ UNCHANGED <<session, requests, shares, receiving, pool>>
  \/ \E m \in Miners : Submit(m) \/ SubmitUnsent(m) \/ SubmitReturns(m)
  \/ \E q \in toPool : PoolAgrees(q)
  \/ \E c \in Receivers : PoolNotifies(c) \/ PoolCloses(c)

Spec == Init /\ [][Next]_vars
-----------------------------------------------------------------------------
Places == {"unborn", "top", "recv", "handle", "backoff", "pause", "dial", "dialClosed",
           "subscribe", "subscribeWait", "authorize", "authorizeWait", "up", "idle",
           "done", "mining", "submitWait"}

Messages ==
  [kind : {"none"}]
    \union [kind : {"response"}, id : 1 .. msgId, conn : Receivers]
    \union [kind : {"notify"}, id : 1 .. jobs, conn : Receivers]

\* Types.  A receive loop never counts more attempts than it is allowed.
TypeOK ==
  /\ running \in BOOLEAN /\ connected \in BOOLEAN /\ authorized \in BOOLEAN
  /\ socket \in {NoSocket} \union {Raw(t) : t \in Dialers} \union {Conn(c) : c \in Receivers}
  /\ en \in 0 .. MaxConn
  /\ job \in [id : 0 .. jobs, conn : 0 .. MaxConn, en : 0 .. MaxConn]
  /\ msgId \in Nat /\ pending \subseteq 1 .. msgId
  /\ submitted \in 0 .. MaxEvents /\ accepted \in Nat /\ rejected \in Nat
  /\ pc \in [Threads -> Places]
  /\ hand \in [Receivers -> Messages]
  /\ attempts \in [Receivers -> 0 .. MaxReconnect]
  /\ reqId \in [Threads -> 0 .. msgId]
  /\ reply \in [Threads -> Receivers \union {NoReply}]
  /\ conn \in [Receivers -> {"new", "open", "eof", "closed"}] /\ conns \in 0 .. MaxConn
  /\ toPool \subseteq [id : 1 .. msgId, conn : Receivers, kind : {"subscribe", "authorize", "submit"}]
  /\ fromPool \in [Receivers -> Seq(Messages)]
  /\ poolSub \subseteq Receivers /\ poolTaken \in Nat /\ jobs \in 0 .. MaxEvents

Waiting == {t \in Threads : pc[t] \in {"subscribeWait", "authorizeWait", "submitWait"}}
Alive(r) == pc[r] \notin {"unborn", "done"}
Reconnecting(r) ==
  pc[r] \in {"backoff", "pause", "dial", "dialClosed", "subscribe", "subscribeWait",
             "authorize", "authorizeWait"}

\* The response table holds exactly the requests somebody is waiting for,
\* each under an id of its own: no response can reach another thread's
\* request, however many connections and receive threads came and went.
PendingIsWaiting ==
  /\ pending = {reqId[t] : t \in Waiting}
  /\ \A t, u \in Waiting : reqId[t] = reqId[u] => t = u

\* A session the client believes in has somebody reading it: there is no
\* moment at which running and connected are on and every receive thread has
\* ended, whatever order threads close, replace and lose sockets in.
SessionIsServed == running /\ connected => \E r \in Receivers : Alive(r)

\* Until the client reconnects, jobs are installed in the order the pool sent
\* them.  After that nothing is promised: reconnect() leaves two receive threads
\* behind, and the one that read the older job may be the last to install it.
JobsInOrder == [][conns <= 1 => job'.id >= job.id]_vars

\* The counters keep the ledger's promise.
Ledger == INSTANCE ShareLedger WITH
  open <- Cardinality({m \in Miners : pc[m] = "submitWait"}),
  taken <- poolTaken
KeepsLedger == Ledger!LedgerSpec

\* A stop that finds no receive thread in the middle of reconnecting is final:
\* none reconnects or brings the session back until mining is started again,
\* whatever the threads were reading or handling when it came.
Quiet == pc[Ctl] = "idle" /\ ~running /\ \A r \in Receivers : ~Reconnecting(r)
StopIsFinal == [][Quiet /\ pc'[Ctl] = "idle" => Quiet']_vars

\* A connection lost while mining is up is retried max_reconnect_attempts
\* times before the last receive thread gives up.
LossIsRetried ==
  (pc[Ctl] = "up" /\ \A r \in Receivers : ~Alive(r))
     => \E r \in Receivers : attempts[r] = MaxReconnect
=============================================================================
