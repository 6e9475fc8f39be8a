----------------------------- MODULE ControlPlane -----------------------------
(***************************************************************************)
(* The control plane (api/app) and the agents of the GPU nodes             *)
(* (worker/agent): registration, tokens, heartbeats with the GPU           *)
(* inventory.  An agent makes one HTTP call at a time and waits 10 s for   *)
(* its answer; the plane runs each call in a thread of its own and         *)
(* finishes it whether or not anybody still waits.  The database is        *)
(* external: a commit is atomic and keeps worker names unique.             *)
(*                                                                         *)
(* Calls are numbered in the order they are made.  A call's number stands  *)
(* for the inventory it carries, and the number of the registration that   *)
(* made a row for that row's worker id and token.                          *)
(***************************************************************************)
EXTENDS Integers, FiniteSets

CONSTANTS
  Agents, Names,
  MaxAttempts,     \* registration attempts of one run of an agent
  MaxBeats,        \* bound: heartbeats sent
  MaxRestarts      \* bound: restarts of agents

ASSUME ControlPlaneAssumption ==
  MaxAttempts \in Nat \ {0} /\ MaxBeats \in Nat /\ MaxRestarts \in Nat

VARIABLES
  name,            \* WORKER_NAME of each agent; two nodes may share the default
  pc, attempts,
  token,           \* ControlPlaneClient._token, 0 before registration
  call,            \* the call an agent waits for
  calls,           \* calls on their way, in a handler, or answered
  made, beats, restarts,
  row              \* the rows of workers and gpus, by worker name

agentVars == <<pc, attempts, token, call, restarts>>
vars == <<name, agentVars, calls, made, beats, row>>

NoRow == [id |-> 0, gpus |-> {}]

Init ==
  /\ name \in [Agents -> Names]
  /\ pc = [a \in Agents |-> "register"]
  /\ attempts = [a \in Agents |-> 0]
  /\ token = [a \in Agents |-> 0]
  /\ call = [a \in Agents |-> 0]
  /\ calls = {} /\ made = 0 /\ beats = 0 /\ restarts = 0
  /\ row = [n \in Names |-> NoRow]

Goto(a, where) == pc' = [pc EXCEPT ![a] = where]

\* Agent a calls the plane.
Post(a, kind) ==
  /\ made' = made + 1
  /\ call' = [call EXCEPT ![a] = made + 1]
  /\ calls' = calls \union {[id |-> made + 1, agent |-> a, kind |-> kind,
                             token |-> token[a], at |-> "sent"]}

\* The answer agent a is waiting for, once it is there.
Answers(a, status) == {c \in calls : c.id = call[a] /\ c.at = status}

\* The agent waits no longer: an answer is dropped, a handler goes on.
Leave(a) ==
  /\ calls' = {c \in calls : c.id # call[a] \/ c.at \in {"sent", "checked"}}
  /\ call' = [call EXCEPT ![a] = 0]

\* The process ends; the token was kept in its memory only.
Ends(a, how) ==
  /\ Leave(a)
  /\ token' = [token EXCEPT ![a] = 0]
  /\ attempts' = [attempts EXCEPT ![a] = 0]
  /\ Goto(a, how)
-----------------------------------------------------------------------------
(* The agent: run().                                                       *)
\* Fault variant: one attempt more than allowed.
RegisterCallOnceMore(a) ==
  /\ pc[a] = "register" /\ attempts[a] <= MaxAttempts
  /\ Post(a, "register")
  /\ Goto(a, "registering")
  /\ UNCHANGED <<name, attempts, token, restarts, beats, row>>

RegisterCall(a) ==
  /\ pc[a] = "register" /\ attempts[a] < MaxAttempts
  /\ Post(a, "register")
  /\ Goto(a, "registering")
  /\ UNCHANGED <<name, attempts, token, restarts, beats, row>>

RegisterOk(a) ==
  /\ pc[a] = "registering"
  /\ Answers(a, "done") # {}
  /\ token' = [token EXCEPT ![a] = call[a]]
  /\ Leave(a)
  /\ Goto(a, "serve")
  /\ UNCHANGED <<name, attempts, restarts, made, beats, row>>

\* Refused, not connected or no answer in time: whatever it was, the agent
\* sleeps and tries again.
RegisterFails(a) ==
  /\ pc[a] = "registering"
  /\ attempts' = [attempts EXCEPT ![a] = @ + 1]
  /\ Leave(a)
  /\ Goto(a, "register")
  /\ UNCHANGED <<name, token, restarts, made, beats, row>>

GiveUp(a) ==
  /\ pc[a] = "register" /\ attempts[a] = MaxAttempts
  /\ Ends(a, "gaveUp")
  /\ UNCHANGED <<name, restarts, made, beats, row>>

HeartbeatCall(a) ==
  /\ pc[a] = "serve" /\ beats < MaxBeats
  /\ beats' = beats + 1
  /\ Post(a, "heartbeat")
  /\ Goto(a, "beating")
  /\ UNCHANGED <<name, attempts, token, restarts, row>>

\* An answer of any status: the loop goes on.
HeartbeatAnswered(a) ==
  /\ pc[a] = "beating"
  /\ Answers(a, "done") \union Answers(a, "refused") # {}
  /\ Leave(a)
  /\ Goto(a, "serve")
  /\ UNCHANGED <<name, attempts, token, restarts, made, beats, row>>

\* Fault variant: run() catches the exception and goes on.
HeartbeatRaisesCaught(a) ==
  /\ pc[a] = "beating"
  /\ Leave(a)
  /\ Goto(a, "serve")
  /\ UNCHANGED <<name, attempts, token, restarts, made, beats, row>>

\* No connection or no answer in time: run() does not catch what httpx raises,
\* and the process ends.
HeartbeatRaises(a) ==
  /\ pc[a] = "beating"
  /\ Ends(a, "dead")
  /\ UNCHANGED <<name, restarts, made, beats, row>>

\* SIGTERM ends the loop between heartbeats, and the node may go down at any
\* moment.
Crash(a) ==
  /\ pc[a] \in {"register", "registering", "serve", "beating"}
  /\ Ends(a, "dead")
  /\ UNCHANGED <<name, restarts, made, beats, row>>

Restart(a) ==
  /\ pc[a] \in {"dead", "gaveUp"} /\ restarts < MaxRestarts
  /\ restarts' = restarts + 1
  /\ Goto(a, "register")
  /\ UNCHANGED <<name, attempts, token, call, calls, made, beats, row>>
-----------------------------------------------------------------------------
(* The plane.  A call is lost, or reaches its handler, which answers.      *)
Lost(c) ==
  /\ c.at = "sent"
  /\ calls' = calls \ {c}
  /\ UNCHANGED <<name, agentVars, made, beats, row>>

\* The handler of call c goes on to `at'; nobody reads an answer the agent
\* has stopped waiting for.
Answer(c, at) ==
  calls' = (calls \ {c}) \union {d \in {[c EXCEPT !.at = at]} :
                                   at = "checked" \/ call[c.agent] = c.id}

Handling(c, kind, at) == c.kind = kind /\ c.at = at

\* register_worker: the query for the name, ...
Lookup(c) ==
  /\ Handling(c, "register", "sent")
  /\ Answer(c, IF row[name[c.agent]] = NoRow THEN "checked" ELSE "refused")
  /\ UNCHANGED <<name, agentVars, made, beats, row>>

\* Fault variant: the column is not unique, the newer row is the one found.
InsertAnyway(c) ==
  /\ Handling(c, "register", "checked")
  /\ row' = [row EXCEPT ![name[c.agent]] = [id |-> c.id, gpus |-> {c.id}]]
  /\ Answer(c, "done")
  /\ UNCHANGED <<name, agentVars, made, beats>>

\* ... then the rows of the worker and of its GPUs, in one commit, which fails
\* if another call has taken the name since.
Insert(c) ==
  /\ Handling(c, "register", "checked")
  /\ IF row[name[c.agent]] = NoRow
     THEN /\ row' = [row EXCEPT ![name[c.agent]] = [id |-> c.id, gpus |-> {c.id}]]
          /\ Answer(c, "done")
     ELSE Answer(c, "refused") /\ UNCHANGED row
  /\ UNCHANGED <<name, agentVars, made, beats>>

\* verify_worker_token: the row of the worker, unless the token has expired.
Verify(c) ==
  /\ Handling(c, "heartbeat", "sent")
  /\ \/ (\E n \in Names : row[n].id = c.token) /\ Answer(c, "checked")
     \/ Answer(c, "refused")
  /\ UNCHANGED <<name, agentVars, made, beats, row>>

\* Fault variant: the inventory is added to what was there.
HeartbeatAdds(c) ==
  /\ Handling(c, "heartbeat", "checked")
  /\ row' = [n \in Names |->
               IF row[n].id = c.token THEN [row[n] EXCEPT !.gpus = @ \union {c.id}] ELSE row[n]]
  /\ Answer(c, "done")
  /\ UNCHANGED <<name, agentVars, made, beats>>

\* heartbeat: the inventory is replaced, in one commit.
Heartbeat(c) ==
  /\ Handling(c, "heartbeat", "checked")
  /\ row' = [n \in Names |->
               IF row[n].id = c.token THEN [row[n] EXCEPT !.gpus = {c.id}] ELSE row[n]]
  /\ Answer(c, "done")
  /\ UNCHANGED <<name, agentVars, made, beats>>
-----------------------------------------------------------------------------
Next ==
  \/ \E a \in Agents :
       \/ RegisterCall(a) \/ RegisterOk(a) \/ RegisterFails(a) \/ GiveUp(a)
       \/ HeartbeatCall(a) \/ HeartbeatAnswered(a) \/ HeartbeatRaises(a)
       \/ Crash(a) \/ Restart(a)
  \/ \E c \in calls :
       Lost(c) \/ Lookup(c) \/ Insert(c) \/ Verify(c) \/ Heartbeat(c)

Spec == Init /\ [][Next]_vars
-----------------------------------------------------------------------------
Calls == [id : 1 .. made, agent : Agents, kind : {"register", "heartbeat"},
          token : 0 .. made, at : {"sent", "checked", "done", "refused"}]

\* Types.
TypeOK ==
  /\ name \in [Agents -> Names]
  /\ pc \in [Agents -> {"register", "registering", "serve", "beating", "gaveUp", "dead"}]
  /\ attempts \in [Agents -> 0 .. MaxAttempts]
  /\ made \in Nat /\ beats \in 0 .. MaxBeats /\ restarts \in 0 .. MaxRestarts
  /\ token \in [Agents -> 0 .. made] /\ call \in [Agents -> 0 .. made]
  /\ calls \subseteq Calls
  /\ row \in [Names -> [id : 0 .. made, gpus : SUBSET (1 .. made)]]

Serving(a) == pc[a] \in {"serve", "beating"}

\* An agent that serves holds the token of the row that bears its name, and no
\* other agent of that name serves: not after lost answers, retries, restarts
\* or registrations of one name at the same time.
RowHasOneHolder ==
  \A a \in Agents : Serving(a) =>
    /\ row[name[a]].id = token[a] /\ token[a] # 0
    /\ \A b \in Agents \ {a} : Serving(b) => token[b] # token[a]

\* The GPUs of a worker are those of one report, never a mixture.
InventoryIsOneReport ==
  \A n \in Names : row[n] # NoRow => Cardinality(row[n].gpus) = 1

\* The inventory of a worker is never replaced by an older one, although a
\* call may be handled after the agent has stopped waiting for it.
InventoryInOrder ==
  [][\A n \in Names : row'[n].id = row[n].id =>
       \A old \in row[n].gpus, new \in row'[n].gpus : old <= new]_vars

\* The registrations whose answer is there to be read.
Unread == {c.id : c \in {d \in calls : d.kind = "register" /\ d.at = "done"}}

\* The rows keep the promise of the registry: a name is given away once, its
\* token is read by one agent of that name or by nobody, and the inventory is
\* one report that only newer ones replace.
Rows == INSTANCE Registry WITH
  owner <- [n \in Names |-> row[n].id], report <- [n \in Names |-> row[n].gpus],
  unread <- Unread, member <- token
KeepsRegistry == Rows!RegistrySpec

\* An agent that ends with "Could not register with control plane" has not
\* been registered: no row bears the name that is its alone.
GaveUpMeansUnregistered ==
  \A a \in Agents :
    pc[a] = "gaveUp" /\ restarts = 0 /\ (\A b \in Agents \ {a} : name[b] # name[a])
      => row[name[a]] = NoRow
=============================================================================
