-------------------------- MODULE ControlPlaneProofs --------------------------
(***************************************************************************)
(* A row has one holder and its inventory is that of the last report, for  *)
(* any number of agents, names, calls in flight and restarts.  The         *)
(* argument is about who may still know a number: an id is that of one     *)
(* call; the id of a registration becomes a token only when its answer is  *)
(* read, which ends the call; and only the agent that holds a token makes  *)
(* heartbeats with it, one at a time.                                      *)
(***************************************************************************)
EXTENDS ControlPlane, TLAPS, FiniteSetTheorems

OneIdEach == \A c, d \in calls : c.id = d.id => c = d

\* What an agent waits for is its own call, a registration while it registers.
Awaited ==
  \A a \in Agents, c \in calls :
    c.id = call[a] => c.agent = a /\ (pc[a] = "registering" => c.kind = "register")

\* A registration that is answered made the row that bears the agent's name.
DoneMadeRow ==
  \A c \in calls :
    c.kind = "register" /\ c.at = "done" => row[name[c.agent]].id = c.id

\* Nobody holds the id of a call whose answer was not read, and only those
\* that serve hold a token.
TokensAreRead ==
  /\ \A a \in Agents, c \in calls : token[a] # c.id
  /\ \A a \in Agents : Serving(a) \/ token[a] = 0

\* Heartbeats: one for each token, and none for a registration not yet read.
OneBeatEach ==
  \A c, d \in calls : c.kind = "heartbeat" =>
    /\ c.token # 0 /\ c.token < c.id
    /\ d.kind = "heartbeat" /\ d.token = c.token => d = c
    /\ d.kind = "register" => c.token # d.id

\* A heartbeat with the token of an agent that serves is what it waits for.
OwnBeat ==
  \A a \in Agents, c \in calls :
    Serving(a) /\ c.kind = "heartbeat" /\ c.token = token[a]
      => pc[a] = "beating" /\ c.id = call[a]

\* A heartbeat still to be handled is newer than the row's inventory.
BeatIsNewer ==
  \A c \in calls, n \in Names :
    c.kind = "heartbeat" /\ c.at \in {"sent", "checked"} /\ row[n].id = c.token
      => \A old \in row[n].gpus : old < c.id

\* An attempt is counted when it has failed.
StillTries == \A a \in Agents : pc[a] = "registering" => attempts[a] < MaxAttempts

\* An agent that has ended waits for nothing.
Idle == \A a \in Agents : pc[a] \in {"dead", "gaveUp"} => call[a] = 0

\* The inventory of a row is one report.
OneReport == \A n \in Names : row[n] = NoRow \/ \E k : row[n].gpus = {k}

IInv ==
  /\ TypeOK /\ StillTries
  /\ OneIdEach /\ Awaited /\ DoneMadeRow /\ TokensAreRead
  /\ OneBeatEach /\ OwnBeat /\ BeatIsNewer
  /\ RowHasOneHolder /\ OneReport /\ Idle
-----------------------------------------------------------------------------
\* What becomes of the calls, in the three ways they change.
LEMMA PostAdds ==
  ASSUME TypeOK, NEW a \in Agents, NEW kind \in {"register", "heartbeat"}, Post(a, kind)
  PROVE  /\ made' = made + 1
         /\ call' \in [Agents -> 0 .. made'] /\ call'[a] = made + 1
         /\ \A b \in Agents \ {a} : call'[b] = call[b]
         /\ \A c \in calls' : c \in calls \/ ( /\ c.id = made + 1 /\ c.agent = a /\ c.kind = kind
                                               /\ c.token = token[a] /\ c.at = "sent" )
         /\ \A c, d \in calls' : c.id = made + 1 /\ d.id = made + 1 => c = d
         /\ \A c \in calls : c.id <= made
         /\ calls' \subseteq [id : 1 .. made', agent : Agents, kind : {"register", "heartbeat"},
                              token : 0 .. made', at : {"sent", "checked", "done", "refused"}]
<1>1. made' = made + 1 /\ made \in Nat /\ calls \subseteq Calls /\ token[a] \in 0 .. made
  BY DEF Post, TypeOK
<1>2. \A c \in calls : c.id <= made /\ c.id # made + 1
  BY <1>1 DEF Calls
<1>3. calls' = calls \union {[id |-> made + 1, agent |-> a, kind |-> kind,
                              token |-> token[a], at |-> "sent"]}
  BY DEF Post
<1>4. calls' \subseteq [id : 1 .. made', agent : Agents, kind : {"register", "heartbeat"},
                        token : 0 .. made', at : {"sent", "checked", "done", "refused"}]
  BY <1>1, <1>3 DEF Calls
<1>5. call' \in [Agents -> 0 .. made'] /\ call'[a] = made + 1
      /\ \A b \in Agents \ {a} : call'[b] = call[b]
  BY <1>1 DEF Post, TypeOK
<1> QED BY <1>1, <1>2, <1>3, <1>4, <1>5

\* A call that gives up or a restart takes its answer with it: its call stays
\* in flight only where the plane has not handled it.
LEMMA LeaveDrops ==
  ASSUME TypeOK, NEW a \in Agents, Leave(a)
  PROVE  /\ calls' \subseteq calls
         /\ call' \in [Agents -> 0 .. made] /\ call'[a] = 0
         /\ \A b \in Agents \ {a} : call'[b] = call[b]
         /\ \A c \in calls' : c.id = call[a] => c.at \in {"sent", "checked"}
BY DEF Leave, TypeOK

\* An answer moves the one call it is of, and changes no more of it than where
\* it is.
LEMMA AnswerMoves ==
  ASSUME TypeOK, NEW c \in calls, NEW at \in {"checked", "done", "refused"}, Answer(c, at)
  PROVE  /\ calls' \subseteq Calls
         /\ \A d \in calls' : (d \in calls /\ d # c) \/
              (/\ d.id = c.id /\ d.agent = c.agent /\ d.kind = c.kind
               /\ d.token = c.token /\ d.at = at /\ d = [c EXCEPT !.at = at])
<1>1. c \in Calls /\ calls \subseteq Calls
  BY DEF TypeOK
<1>2. /\ [c EXCEPT !.at = at] \in Calls
      /\ [c EXCEPT !.at = at].id = c.id /\ [c EXCEPT !.at = at].agent = c.agent
      /\ [c EXCEPT !.at = at].kind = c.kind /\ [c EXCEPT !.at = at].token = c.token
      /\ [c EXCEPT !.at = at].at = at
  BY <1>1 DEF Calls
<1>3. calls' \subseteq (calls \ {c}) \union {[c EXCEPT !.at = at]}
  BY DEF Answer
<1> QED BY <1>1, <1>2, <1>3

\* More numbers are in use: what was typed remains so.
LEMMA TypesGrow ==
  ASSUME TypeOK, made' = made + 1, UNCHANGED <<name, row>>
  PROVE  /\ made' \in Nat
         /\ name' \in [Agents -> Names]
         /\ row' \in [Names -> [id : 0 .. made', gpus : SUBSET (1 .. made')]]
         /\ \A f \in [Agents -> 0 .. made] : f \in [Agents -> 0 .. made']
<1>1. made \in Nat /\ 0 .. made \subseteq 0 .. made' /\ 1 .. made \subseteq 1 .. made'
  BY DEF TypeOK
<1>2. row \in [Names -> [id : 0 .. made, gpus : SUBSET (1 .. made)]] /\ name \in [Agents -> Names]
  BY DEF TypeOK
<1>3. \A r \in [id : 0 .. made, gpus : SUBSET (1 .. made)] :
        r \in [id : 0 .. made', gpus : SUBSET (1 .. made')]
  BY <1>1
<1>4. row \in [Names -> [id : 0 .. made', gpus : SUBSET (1 .. made')]]
  BY <1>2, <1>3
<1> QED BY <1>1, <1>2, <1>4
-----------------------------------------------------------------------------

\* The steps of an agent.

\* A registration is sent: its number is new, so nobody holds it.
LEMMA RegisterCallKeeps ==
  ASSUME IInv, NEW a \in Agents, RegisterCall(a)
  PROVE  IInv'
<1> USE DEF IInv
<1>0. Post(a, "register")
  BY DEF RegisterCall
<1>1. /\ made' = made + 1
      /\ call' \in [Agents -> 0 .. made'] /\ call'[a] = made + 1
      /\ \A b \in Agents \ {a} : call'[b] = call[b]
      /\ \A c \in calls' : c \in calls \/ ( /\ c.id = made + 1 /\ c.agent = a /\ c.kind = "register"
                                            /\ c.token = token[a] /\ c.at = "sent" )
      /\ \A c, d \in calls' : c.id = made + 1 /\ d.id = made + 1 => c = d
      /\ \A c \in calls : c.id <= made
      /\ calls' \subseteq Calls'
  BY <1>0, PostAdds DEF Calls
<1>2. TypeOK'
  <2>1. UNCHANGED <<name, row, token>> /\ token \in [Agents -> 0 .. made]
    BY DEF RegisterCall, TypeOK
  <2>2. /\ made' \in Nat /\ name' \in [Agents -> Names]
        /\ row' \in [Names -> [id : 0 .. made', gpus : SUBSET (1 .. made')]]
        /\ token' \in [Agents -> 0 .. made']
    BY <1>1, <2>1, TypesGrow
  <2>3. /\ pc' \in [Agents -> {"register", "registering", "serve", "beating", "gaveUp", "dead"}]
        /\ attempts' \in [Agents -> 0 .. MaxAttempts]
        /\ beats' \in 0 .. MaxBeats /\ restarts' \in 0 .. MaxRestarts
    BY ControlPlaneAssumption DEF RegisterCall, TypeOK, Goto
  <2> QED BY <1>1, <2>2, <2>3 DEF TypeOK
<1>3. StillTries'
  BY <1>1, ControlPlaneAssumption DEF RegisterCall, StillTries, TypeOK, Goto
<1>4. OneIdEach'
  BY <1>1 DEF RegisterCall, OneIdEach
<1>5. Awaited'
  BY <1>1 DEF RegisterCall, Awaited, TypeOK, Goto, Calls
<1>6. DoneMadeRow'
  BY <1>1 DEF RegisterCall, DoneMadeRow
<1>7. TokensAreRead'
  BY <1>1 DEF RegisterCall, TokensAreRead, TypeOK, Serving, Goto, Calls, OneIdEach
<1>8. OneBeatEach'
  BY <1>1 DEF RegisterCall, OneBeatEach, OwnBeat, TokensAreRead, RowHasOneHolder, Serving, TypeOK, Calls
<1>9. OwnBeat'
  BY <1>1 DEF RegisterCall, OwnBeat, OneBeatEach, OneIdEach, TokensAreRead, RowHasOneHolder, Serving, Goto, TypeOK, Calls
<1>10. BeatIsNewer'
  BY <1>1 DEF RegisterCall, BeatIsNewer, TypeOK, Calls
<1>11. RowHasOneHolder'
  BY <1>1 DEF RegisterCall, RowHasOneHolder, Serving, Goto, TypeOK, DoneMadeRow, Awaited, TokensAreRead, Calls
<1>12. OneReport'
  BY <1>1 DEF RegisterCall, OneReport, TypeOK, NoRow
<1>13. Idle'
  BY <1>1 DEF RegisterCall, Idle, Goto, TypeOK
<1> QED BY <1>2, <1>3, <1>4, <1>5, <1>6, <1>7, <1>8, <1>9, <1>10, <1>11, <1>12, <1>13

\* A heartbeat is sent by an agent that has none on its way.
LEMMA HeartbeatCallKeeps ==
  ASSUME IInv, NEW a \in Agents, HeartbeatCall(a)
  PROVE  IInv'
<1> USE DEF IInv
<1>0. Post(a, "heartbeat")
  BY DEF HeartbeatCall
<1>1. /\ made' = made + 1
      /\ call' \in [Agents -> 0 .. made'] /\ call'[a] = made + 1
      /\ \A b \in Agents \ {a} : call'[b] = call[b]
      /\ \A c \in calls' : c \in calls \/ ( /\ c.id = made + 1 /\ c.agent = a /\ c.kind = "heartbeat"
                                            /\ c.token = token[a] /\ c.at = "sent" )
      /\ \A c, d \in calls' : c.id = made + 1 /\ d.id = made + 1 => c = d
      /\ \A c \in calls : c.id <= made
      /\ calls' \subseteq Calls'
  BY <1>0, PostAdds DEF Calls
<1>2. TypeOK'
  <2>1. UNCHANGED <<name, row, token>> /\ token \in [Agents -> 0 .. made]
    BY DEF HeartbeatCall, TypeOK
  <2>2. /\ made' \in Nat /\ name' \in [Agents -> Names]
        /\ row' \in [Names -> [id : 0 .. made', gpus : SUBSET (1 .. made')]]
        /\ token' \in [Agents -> 0 .. made']
    BY <1>1, <2>1, TypesGrow
  <2>3. /\ pc' \in [Agents -> {"register", "registering", "serve", "beating", "gaveUp", "dead"}]
        /\ attempts' \in [Agents -> 0 .. MaxAttempts]
        /\ beats' \in 0 .. MaxBeats /\ restarts' \in 0 .. MaxRestarts
    BY ControlPlaneAssumption DEF HeartbeatCall, TypeOK, Goto
  <2> QED BY <1>1, <2>2, <2>3 DEF TypeOK
<1>3. StillTries'
  BY <1>1, ControlPlaneAssumption DEF HeartbeatCall, StillTries, TypeOK, Goto
<1>4. OneIdEach'
  BY <1>1 DEF HeartbeatCall, OneIdEach
<1>5. Awaited'
  BY <1>1 DEF HeartbeatCall, Awaited, TypeOK, Goto, Calls
<1>6. DoneMadeRow'
  BY <1>1 DEF HeartbeatCall, DoneMadeRow
<1>7. TokensAreRead'
  BY <1>1 DEF HeartbeatCall, TokensAreRead, TypeOK, Serving, Goto, Calls, OneIdEach
<1>8. OneBeatEach'
  BY <1>1 DEF HeartbeatCall, OneBeatEach, OwnBeat, TokensAreRead, RowHasOneHolder, Serving, TypeOK, Calls
<1>9. OwnBeat'
  BY <1>1 DEF HeartbeatCall, OwnBeat, OneBeatEach, OneIdEach, TokensAreRead, RowHasOneHolder, Serving, Goto, TypeOK, Calls
<1>10. BeatIsNewer'
  BY <1>1 DEF HeartbeatCall, BeatIsNewer, TypeOK, Calls
<1>11. RowHasOneHolder'
  BY <1>1 DEF HeartbeatCall, RowHasOneHolder, Serving, Goto, TypeOK, DoneMadeRow, Awaited, TokensAreRead, Calls
<1>12. OneReport'
  BY <1>1 DEF HeartbeatCall, OneReport, TypeOK, NoRow
<1>13. Idle'
  BY <1>1 DEF HeartbeatCall, Idle, Goto, TypeOK
<1> QED BY <1>2, <1>3, <1>4, <1>5, <1>6, <1>7, <1>8, <1>9, <1>10, <1>11, <1>12, <1>13

\* The answer of a registration is read: its id becomes a token and its call is gone.
LEMMA RegisterOkKeeps ==
  ASSUME IInv, NEW a \in Agents, RegisterOk(a)
  PROVE  IInv'
<1> USE DEF IInv
<1>0. Leave(a)
  BY DEF RegisterOk, Ends
<1>1. /\ calls' \subseteq calls
      /\ call' \in [Agents -> 0 .. made] /\ call'[a] = 0
      /\ \A b \in Agents \ {a} : call'[b] = call[b]
      /\ \A c \in calls' : c.id = call[a] => c.at \in {"sent", "checked"}
  BY <1>0, LeaveDrops
<1>2. TypeOK'
  BY <1>1, ControlPlaneAssumption DEF RegisterOk, TypeOK, StillTries, Calls, Goto, Answers
<1>3. StillTries'
  BY <1>1, ControlPlaneAssumption DEF RegisterOk, StillTries, TypeOK, Goto, Answers
<1>4. OneIdEach'
  BY <1>1 DEF RegisterOk, OneIdEach, Answers
<1>5. Awaited'
  BY <1>1 DEF RegisterOk, Awaited, TypeOK, Goto, Calls, Answers
<1>6. DoneMadeRow'
  BY <1>1 DEF RegisterOk, DoneMadeRow, Answers
<1>7. TokensAreRead'
  BY <1>1 DEF RegisterOk, TokensAreRead, TypeOK, Serving, Goto, Calls, OneIdEach, Answers
<1>8. OneBeatEach'
  BY <1>1 DEF RegisterOk, OneBeatEach, OwnBeat, TokensAreRead, RowHasOneHolder, Serving, TypeOK, Calls, Answers
<1>9. OwnBeat'
  <2>1. PICK r \in calls : r.id = call[a] /\ r.kind = "register"
    BY DEF RegisterOk, Answers, Awaited
  <2>2. \A c \in calls : c.kind = "heartbeat" => c.token # token'[a]
    BY <2>1 DEF RegisterOk, OneBeatEach, TypeOK
  <2>3. \A b \in Agents \ {a} : token'[b] = token[b] /\ pc'[b] = pc[b]
    BY DEF RegisterOk, TypeOK, Goto
  <2> QED BY <1>1, <2>2, <2>3 DEF OwnBeat, Serving
<1>10. BeatIsNewer'
  BY <1>1 DEF RegisterOk, BeatIsNewer, TypeOK, Calls, Answers
<1>11. RowHasOneHolder'
  BY <1>1 DEF RegisterOk, RowHasOneHolder, Serving, Goto, TypeOK, DoneMadeRow, Awaited, TokensAreRead, Calls, Answers
<1>12. OneReport'
  BY <1>1 DEF RegisterOk, OneReport, TypeOK, NoRow, Answers
<1>13. Idle'
  BY <1>1 DEF RegisterOk, Idle, Goto, TypeOK, Answers
<1> QED BY <1>2, <1>3, <1>4, <1>5, <1>6, <1>7, <1>8, <1>9, <1>10, <1>11, <1>12, <1>13

\* The answer of a heartbeat is read: none of that token is left.
LEMMA HeartbeatAnsweredKeeps ==
  ASSUME IInv, NEW a \in Agents, HeartbeatAnswered(a)
  PROVE  IInv'
<1> USE DEF IInv
<1>0. Leave(a)
  BY DEF HeartbeatAnswered, Ends
<1>1. /\ calls' \subseteq calls
      /\ call' \in [Agents -> 0 .. made] /\ call'[a] = 0
      /\ \A b \in Agents \ {a} : call'[b] = call[b]
      /\ \A c \in calls' : c.id = call[a] => c.at \in {"sent", "checked"}
  BY <1>0, LeaveDrops
<1>2. TypeOK'
  BY <1>1, ControlPlaneAssumption DEF HeartbeatAnswered, TypeOK, StillTries, Calls, Goto, Answers
<1>3. StillTries'
  BY <1>1, ControlPlaneAssumption DEF HeartbeatAnswered, StillTries, TypeOK, Goto, Answers
<1>4. OneIdEach'
  BY <1>1 DEF HeartbeatAnswered, OneIdEach, Answers
<1>5. Awaited'
  BY <1>1 DEF HeartbeatAnswered, Awaited, TypeOK, Goto, Calls, Answers
<1>6. DoneMadeRow'
  BY <1>1 DEF HeartbeatAnswered, DoneMadeRow, Answers
<1>7. TokensAreRead'
  BY <1>1 DEF HeartbeatAnswered, TokensAreRead, TypeOK, Serving, Goto, Calls, OneIdEach, Answers
<1>8. OneBeatEach'
  BY <1>1 DEF HeartbeatAnswered, OneBeatEach, OwnBeat, TokensAreRead, RowHasOneHolder, Serving, TypeOK, Calls, Answers
<1>9. OwnBeat'
  BY <1>1 DEF HeartbeatAnswered, OwnBeat, OneBeatEach, OneIdEach, TokensAreRead, RowHasOneHolder, Serving, Goto, TypeOK, Calls, Answers
<1>10. BeatIsNewer'
  BY <1>1 DEF HeartbeatAnswered, BeatIsNewer, TypeOK, Calls, Answers
<1>11. RowHasOneHolder'
  BY <1>1 DEF HeartbeatAnswered, RowHasOneHolder, Serving, Goto, TypeOK, DoneMadeRow, Awaited, TokensAreRead, Calls, Answers
<1>12. OneReport'
  BY <1>1 DEF HeartbeatAnswered, OneReport, TypeOK, NoRow, Answers
<1>13. Idle'
  BY <1>1 DEF HeartbeatAnswered, Idle, Goto, TypeOK, Answers
<1> QED BY <1>2, <1>3, <1>4, <1>5, <1>6, <1>7, <1>8, <1>9, <1>10, <1>11, <1>12, <1>13

\* Steps at which calls are dropped, or an agent ends or starts over; also no step at all.
LEMMA LeavingKeeps ==
  ASSUME IInv, TypeOK', StillTries', calls' \subseteq calls, UNCHANGED <<name, made, row>>,
         \A b \in Agents :
           \/ token'[b] = token[b] /\ call'[b] = call[b] /\ pc'[b] = pc[b]
           \/ token'[b] = 0 /\ call'[b] = 0 /\ pc'[b] \in {"register", "gaveUp", "dead"}
  PROVE  IInv'
<1> USE DEF IInv
<1>1. OneIdEach'
  BY DEF OneIdEach
<1>2. Awaited'
  BY DEF Awaited, TypeOK, Calls
<1>3. DoneMadeRow'
  BY DEF DoneMadeRow
<1>4. TokensAreRead'
  BY DEF TokensAreRead, Serving, TypeOK, Calls
<1>5. OneBeatEach'
  BY DEF OneBeatEach
<1>6. OwnBeat'
  BY DEF OwnBeat, OneBeatEach, Serving
<1>7. BeatIsNewer'
  BY DEF BeatIsNewer
<1>8. RowHasOneHolder'
  BY DEF RowHasOneHolder, Serving
<1>9. OneReport'
  BY DEF OneReport
<1>10. Idle'
  BY DEF Idle
<1> QED BY <1>1, <1>2, <1>3, <1>4, <1>5, <1>6, <1>7, <1>8, <1>9, <1>10

\* An agent gives up, ends or starts over: its token is forgotten.
LEMMA EndingKeeps ==
  ASSUME IInv, NEW a \in Agents,
         \/ RegisterFails(a) \/ GiveUp(a) \/ HeartbeatRaises(a) \/ Crash(a) \/ Restart(a)
  PROVE  IInv'
<1> USE DEF IInv
<1>1. UNCHANGED <<name, made, row, beats>> /\ made \in Nat
  BY DEF RegisterFails, GiveUp, HeartbeatRaises, Crash, Restart, TypeOK
<1>2. ~Restart(a) => Leave(a)
  BY DEF RegisterFails, GiveUp, HeartbeatRaises, Crash, Ends
<1>3. calls' \subseteq calls /\ call' \in [Agents -> 0 .. made]
  BY <1>2, LeaveDrops DEF Restart, TypeOK
<1>4. attempts' \in [Agents -> 0 .. MaxAttempts]
  <2>1. CASE RegisterFails(a)
    BY <2>1, ControlPlaneAssumption DEF RegisterFails, TypeOK, StillTries
  <2>2. CASE GiveUp(a) \/ HeartbeatRaises(a) \/ Crash(a)
    BY <2>2, ControlPlaneAssumption DEF GiveUp, HeartbeatRaises, Crash, Ends, TypeOK
  <2>3. CASE Restart(a)
    BY <2>3 DEF Restart, TypeOK
  <2> QED BY <2>1, <2>2, <2>3
<1>5. /\ pc' = [pc EXCEPT ![a] = pc'[a]] /\ pc'[a] \in {"register", "gaveUp", "dead"}
      /\ token' = [token EXCEPT ![a] = token'[a]] /\ token'[a] \in {token[a], 0}
      /\ Serving(a) => token'[a] = 0
      /\ restarts' \in 0 .. MaxRestarts
  BY ControlPlaneAssumption
     DEF RegisterFails, GiveUp, HeartbeatRaises, Crash, Restart, Ends, Goto, TypeOK, Serving
<1>6. TypeOK'
  BY <1>1, <1>3, <1>4, <1>5 DEF TypeOK, Calls
<1>7. StillTries'
  <2>1. \A b \in Agents \ {a} : attempts'[b] = attempts[b]
    BY DEF RegisterFails, GiveUp, HeartbeatRaises, Crash, Restart, Ends, TypeOK
  <2> QED BY <1>5, <2>1 DEF StillTries, TypeOK
<1>8. token'[a] = 0
  BY <1>5 DEF TokensAreRead
<1>9. call'[a] = 0
  <2>1. CASE Restart(a)
    BY <2>1 DEF Restart, Idle
  <2> QED BY <1>2, <2>1, LeaveDrops
<1>10. \A b \in Agents \ {a} : token'[b] = token[b] /\ pc'[b] = pc[b] /\ call'[b] = call[b]
  <2>1. \A b \in Agents \ {a} : call'[b] = call[b]
    BY <1>2, LeaveDrops DEF Restart
  <2> QED BY <1>5, <2>1 DEF TypeOK
<1> QED BY <1>1, <1>3, <1>5, <1>6, <1>7, <1>8, <1>9, <1>10, LeavingKeeps

\* A call is lost, or nothing happens.
LEMMA LostKeeps ==
  ASSUME IInv, (\E c \in calls : Lost(c)) \/ UNCHANGED vars
  PROVE  IInv'
<1> USE DEF IInv
<1>1. calls' \subseteq calls /\ UNCHANGED <<name, agentVars, made, beats, row>>
  BY DEF Lost, vars
<1>2. TypeOK' /\ StillTries'
  BY <1>1 DEF TypeOK, StillTries, Calls, agentVars
<1> QED BY <1>1, <1>2, LeavingKeeps DEF agentVars
-----------------------------------------------------------------------------

\* The steps of the plane.

\* The query for the name changes no row.
LEMMA LookupKeeps ==
  ASSUME IInv, NEW c \in calls, Lookup(c)
  PROVE  IInv'
<1> USE DEF IInv
<1>0. PICK at \in {"checked", "done", "refused"} : Answer(c, at) /\ at # "done"
  BY DEF Lookup, Handling
<1>1. /\ calls' \subseteq Calls
      /\ \A d \in calls' : (d \in calls /\ d # c) \/
           (/\ d.id = c.id /\ d.agent = c.agent /\ d.kind = c.kind
            /\ d.token = c.token /\ d.at = at /\ d = [c EXCEPT !.at = at])
  BY <1>0, AnswerMoves
<1>2. TypeOK'
  BY <1>0, <1>1, ControlPlaneAssumption DEF Lookup, TypeOK, StillTries, Calls, Goto, agentVars, Handling
<1>3. StillTries'
  BY <1>0, <1>1, ControlPlaneAssumption DEF Lookup, StillTries, TypeOK, Goto, agentVars, Handling
<1>4. OneIdEach'
  BY <1>0, <1>1 DEF Lookup, OneIdEach, agentVars, Handling
<1>5. Awaited'
  BY <1>0, <1>1 DEF Lookup, Awaited, TypeOK, Goto, Calls, agentVars, Handling
<1>6. DoneMadeRow'
  BY <1>0, <1>1 DEF Lookup, DoneMadeRow, NoRow, TypeOK, Calls, agentVars, Handling
<1>7. TokensAreRead'
  BY <1>0, <1>1 DEF Lookup, TokensAreRead, TypeOK, Serving, Goto, Calls, OneIdEach, agentVars, Handling
<1>8. OneBeatEach'
  <2>1. \A x \in calls' : \E y \in calls : y.id = x.id /\ y.kind = x.kind /\ y.token = x.token
    BY <1>1
  <2>2. OneIdEach'
    BY <1>4
  <2> QED BY <2>1, <2>2 DEF OneBeatEach, OneIdEach
<1>9. OwnBeat'
  BY <1>0, <1>1 DEF Lookup, OwnBeat, OneBeatEach, OneIdEach, TokensAreRead, RowHasOneHolder, Serving, Goto, TypeOK, Calls, agentVars, Handling
<1>10. BeatIsNewer'
  BY <1>0, <1>1 DEF Lookup, BeatIsNewer, TypeOK, Calls, NoRow, OneBeatEach, agentVars, Handling
<1>11. RowHasOneHolder'
  BY <1>0, <1>1 DEF Lookup, RowHasOneHolder, Serving, Goto, TypeOK, DoneMadeRow, Awaited, TokensAreRead, Calls, NoRow, agentVars, Handling
<1>12. OneReport'
  BY <1>0, <1>1 DEF Lookup, OneReport, TypeOK, NoRow, agentVars, Handling
<1>13. Idle'
  BY <1>0, <1>1 DEF Lookup, Idle, Goto, TypeOK, agentVars, Handling
<1> QED BY <1>2, <1>3, <1>4, <1>5, <1>6, <1>7, <1>8, <1>9, <1>10, <1>11, <1>12, <1>13

\* Only a name without a row gets one.
LEMMA InsertKeeps ==
  ASSUME IInv, NEW c \in calls, Insert(c)
  PROVE  IInv'
<1> USE DEF IInv
<1>0. PICK at \in {"checked", "done", "refused"} :
        /\ Answer(c, at) /\ at # "checked"
        /\ at = "done" => /\ row[name[c.agent]] = NoRow
                          /\ row' = [row EXCEPT ![name[c.agent]] = [id |-> c.id, gpus |-> {c.id}]]
        /\ at = "refused" => UNCHANGED row
  BY DEF Insert, Handling
<1>1. /\ calls' \subseteq Calls
      /\ \A d \in calls' : (d \in calls /\ d # c) \/
           (/\ d.id = c.id /\ d.agent = c.agent /\ d.kind = c.kind
            /\ d.token = c.token /\ d.at = at /\ d = [c EXCEPT !.at = at])
  BY <1>0, AnswerMoves
<1>a. name[c.agent] \in Names /\ c.id \in 1 .. made /\ name \in [Agents -> Names] /\ c.agent \in Agents
  BY DEF TypeOK, Calls
<1>b. row \in [Names -> [id : 0 .. made, gpus : SUBSET (1 .. made)]]
  BY DEF TypeOK
<1>r. /\ row' \in [Names -> [id : 0 .. made, gpus : SUBSET (1 .. made)]]
      /\ at = "done" => row'[name[c.agent]].id = c.id
      /\ \A n \in Names :
           \/ row'[n] = row[n] /\ (at = "done" => n # name[c.agent])
           \/ /\ n = name[c.agent] /\ row[n] = NoRow
              /\ row'[n].id = c.id /\ row'[n].gpus = {c.id}
  <2>1. CASE at = "done"
    BY <1>0, <1>a, <1>b, <2>1
  <2>2. CASE at = "refused"
    BY <1>0, <1>b, <2>2
  <2> QED BY <1>0, <2>1, <2>2
<1>u. UNCHANGED <<name, pc, attempts, token, call, restarts, made, beats>>
  BY DEF Insert, agentVars
<1>2. TypeOK'
  BY <1>0, <1>1, <1>a, <1>r, <1>u DEF TypeOK, Calls
<1>3. StillTries'
  BY <1>0, <1>1, ControlPlaneAssumption DEF Insert, StillTries, TypeOK, Goto, agentVars, Handling
<1>4. OneIdEach'
  BY <1>0, <1>1 DEF Insert, OneIdEach, agentVars, Handling
<1>5. Awaited'
  BY <1>0, <1>1 DEF Insert, Awaited, TypeOK, Goto, Calls, agentVars, Handling
<1>6. DoneMadeRow'
  <2> SUFFICES ASSUME NEW x \in calls', x.kind = "register", x.at = "done"
               PROVE  row'[name[x.agent]].id = x.id
    BY DEF Insert, DoneMadeRow
  <2>1. CASE x \in calls /\ x # c
    <3>1. row[name[x.agent]].id = x.id /\ x.id # 0
      BY <2>1 DEF DoneMadeRow, TypeOK, Calls
    <3>2. row[name[c.agent]] # NoRow \/ name[x.agent] # name[c.agent]
      BY <3>1 DEF NoRow
    <3>3. name[x.agent] \in Names
      BY <1>a, <2>1 DEF TypeOK, Calls
    <3> QED BY <1>r, <1>u, <3>1, <3>2, <3>3
  <2>2. CASE ~(x \in calls /\ x # c)
    <3>1. x.id = c.id /\ x.agent = c.agent /\ at = "done"
      BY <1>1, <2>2
    <3> QED BY <1>r, <1>u, <3>1
  <2> QED BY <2>1, <2>2
<1>7. TokensAreRead'
  BY <1>0, <1>1 DEF Insert, TokensAreRead, TypeOK, Serving, Goto, Calls, OneIdEach, agentVars, Handling
<1>8. OneBeatEach'
  <2>1. \A x \in calls' : \E y \in calls : y.id = x.id /\ y.kind = x.kind /\ y.token = x.token
    BY <1>1
  <2>2. OneIdEach'
    BY <1>4
  <2> QED BY <2>1, <2>2 DEF OneBeatEach, OneIdEach
<1>9. OwnBeat'
  BY <1>0, <1>1 DEF Insert, OwnBeat, OneBeatEach, OneIdEach, TokensAreRead, RowHasOneHolder, Serving, Goto, TypeOK, Calls, agentVars, Handling
<1>10. BeatIsNewer'
  BY <1>0, <1>1, <1>a, <1>r, <1>u DEF BeatIsNewer, OneBeatEach, NoRow, Handling, Insert
<1>11. RowHasOneHolder'
  BY <1>0, <1>1, <1>a, <1>r, <1>u DEF RowHasOneHolder, Serving, NoRow, TypeOK
<1>12. OneReport'
  <2> SUFFICES ASSUME NEW n \in Names
               PROVE  row'[n] = NoRow \/ \E k : row'[n].gpus = {k}
    BY DEF OneReport, NoRow
  <2>1. CASE row'[n] = row[n]
    BY <2>1 DEF OneReport
  <2>2. CASE row'[n].gpus = {c.id}
    BY <2>2
  <2> QED BY <1>r, <2>1, <2>2
<1>13. Idle'
  BY <1>0, <1>1 DEF Insert, Idle, Goto, TypeOK, agentVars, Handling
<1> QED BY <1>2, <1>3, <1>4, <1>5, <1>6, <1>7, <1>8, <1>9, <1>10, <1>11, <1>12, <1>13

\* The check of a token changes no row.
LEMMA VerifyKeeps ==
  ASSUME IInv, NEW c \in calls, Verify(c)
  PROVE  IInv'
<1> USE DEF IInv
<1>0. PICK at \in {"checked", "done", "refused"} : Answer(c, at) /\ at # "done"
  BY DEF Verify, Handling
<1>1. /\ calls' \subseteq Calls
      /\ \A d \in calls' : (d \in calls /\ d # c) \/
           (/\ d.id = c.id /\ d.agent = c.agent /\ d.kind = c.kind
            /\ d.token = c.token /\ d.at = at /\ d = [c EXCEPT !.at = at])
  BY <1>0, AnswerMoves
<1>2. TypeOK'
  BY <1>0, <1>1, ControlPlaneAssumption DEF Verify, TypeOK, StillTries, Calls, Goto, agentVars, Handling
<1>3. StillTries'
  BY <1>0, <1>1, ControlPlaneAssumption DEF Verify, StillTries, TypeOK, Goto, agentVars, Handling
<1>4. OneIdEach'
  BY <1>0, <1>1 DEF Verify, OneIdEach, agentVars, Handling
<1>5. Awaited'
  BY <1>0, <1>1 DEF Verify, Awaited, TypeOK, Goto, Calls, agentVars, Handling
<1>6. DoneMadeRow'
  BY <1>0, <1>1 DEF Verify, DoneMadeRow, NoRow, TypeOK, Calls, agentVars, Handling
<1>7. TokensAreRead'
  BY <1>0, <1>1 DEF Verify, TokensAreRead, TypeOK, Serving, Goto, Calls, OneIdEach, agentVars, Handling
<1>8. OneBeatEach'
  <2>1. \A x \in calls' : \E y \in calls : y.id = x.id /\ y.kind = x.kind /\ y.token = x.token
    BY <1>1
  <2>2. OneIdEach'
    BY <1>4
  <2> QED BY <2>1, <2>2 DEF OneBeatEach, OneIdEach
<1>9. OwnBeat'
  BY <1>0, <1>1 DEF Verify, OwnBeat, OneBeatEach, OneIdEach, TokensAreRead, RowHasOneHolder, Serving, Goto, TypeOK, Calls, agentVars, Handling
<1>10. BeatIsNewer'
  BY <1>0, <1>1 DEF Verify, BeatIsNewer, TypeOK, Calls, NoRow, OneBeatEach, agentVars, Handling
<1>11. RowHasOneHolder'
  BY <1>0, <1>1 DEF Verify, RowHasOneHolder, Serving, Goto, TypeOK, DoneMadeRow, Awaited, TokensAreRead, Calls, NoRow, agentVars, Handling
<1>12. OneReport'
  BY <1>0, <1>1 DEF Verify, OneReport, TypeOK, NoRow, agentVars, Handling
<1>13. Idle'
  BY <1>0, <1>1 DEF Verify, Idle, Goto, TypeOK, agentVars, Handling
<1> QED BY <1>2, <1>3, <1>4, <1>5, <1>6, <1>7, <1>8, <1>9, <1>10, <1>11, <1>12, <1>13

\* The inventory of a row becomes that of the newest report.
LEMMA HeartbeatKeeps ==
  ASSUME IInv, NEW c \in calls, Heartbeat(c)
  PROVE  IInv'
<1> USE DEF IInv
<1>0. PICK at \in {"checked", "done", "refused"} : Answer(c, at) /\ at = "done"
  BY DEF Heartbeat, Handling
<1>1. /\ calls' \subseteq Calls
      /\ \A d \in calls' : (d \in calls /\ d # c) \/
           (/\ d.id = c.id /\ d.agent = c.agent /\ d.kind = c.kind
            /\ d.token = c.token /\ d.at = at /\ d = [c EXCEPT !.at = at])
  BY <1>0, AnswerMoves
<1>2. TypeOK'
  BY <1>0, <1>1, ControlPlaneAssumption DEF Heartbeat, TypeOK, StillTries, Calls, Goto, agentVars, Handling
<1>3. StillTries'
  BY <1>0, <1>1, ControlPlaneAssumption DEF Heartbeat, StillTries, TypeOK, Goto, agentVars, Handling
<1>4. OneIdEach'
  BY <1>0, <1>1 DEF Heartbeat, OneIdEach, agentVars, Handling
<1>5. Awaited'
  BY <1>0, <1>1 DEF Heartbeat, Awaited, TypeOK, Goto, Calls, agentVars, Handling
<1>6. DoneMadeRow'
  BY <1>0, <1>1 DEF Heartbeat, DoneMadeRow, NoRow, TypeOK, Calls, agentVars, Handling
<1>7. TokensAreRead'
  BY <1>0, <1>1 DEF Heartbeat, TokensAreRead, TypeOK, Serving, Goto, Calls, OneIdEach, agentVars, Handling
<1>8. OneBeatEach'
  <2>1. \A x \in calls' : \E y \in calls : y.id = x.id /\ y.kind = x.kind /\ y.token = x.token
    BY <1>1
  <2>2. OneIdEach'
    BY <1>4
  <2> QED BY <2>1, <2>2 DEF OneBeatEach, OneIdEach
<1>9. OwnBeat'
  BY <1>0, <1>1 DEF Heartbeat, OwnBeat, OneBeatEach, OneIdEach, TokensAreRead, RowHasOneHolder, Serving, Goto, TypeOK, Calls, agentVars, Handling
<1>10. BeatIsNewer'
  <2> SUFFICES ASSUME NEW x \in calls', NEW n \in Names, x.kind = "heartbeat",
                      x.at \in {"sent", "checked"}, row'[n].id = x.token
               PROVE  \A old \in row'[n].gpus : old < x.id
    BY DEF BeatIsNewer
  <2>1. x \in calls /\ x # c
    BY <1>0, <1>1
  <2>2. x.token # c.token
    BY <2>1 DEF Heartbeat, Handling, OneBeatEach
  <2>3. row'[n].id = row[n].id
    BY DEF Heartbeat, TypeOK
  <2>4. row'[n] = row[n]
    BY <2>2, <2>3 DEF Heartbeat, TypeOK
  <2> QED BY <2>1, <2>4 DEF BeatIsNewer
<1>11. RowHasOneHolder'
  BY <1>0, <1>1 DEF Heartbeat, RowHasOneHolder, Serving, Goto, TypeOK, DoneMadeRow, Awaited, TokensAreRead, Calls, NoRow, agentVars, Handling
<1>12. OneReport'
  <2>1. \A n \in Names : row'[n] = row[n] \/ row'[n].gpus = {c.id}
    BY DEF Heartbeat, TypeOK
  <2> QED BY <2>1 DEF OneReport
<1>13. Idle'
  BY <1>0, <1>1 DEF Heartbeat, Idle, Goto, TypeOK, agentVars, Handling
<1> QED BY <1>2, <1>3, <1>4, <1>5, <1>6, <1>7, <1>8, <1>9, <1>10, <1>11, <1>12, <1>13
-----------------------------------------------------------------------------
\* The parts of the invariant hold at every step of agents and plane.
THEOREM Invariance == Spec => []IInv
<1>1. Init => IInv
  BY ControlPlaneAssumption
     DEF Init, IInv, TypeOK, StillTries, OneIdEach, Awaited, DoneMadeRow, TokensAreRead,
         OneBeatEach, OwnBeat, BeatIsNewer, RowHasOneHolder, OneReport, Idle, Serving, NoRow, Calls
<1>2. IInv /\ [Next]_vars => IInv'
  <2> SUFFICES ASSUME IInv, [Next]_vars
               PROVE  IInv'
    OBVIOUS
  <2>1. ASSUME NEW a \in Agents,
               \/ RegisterCall(a) \/ RegisterOk(a) \/ RegisterFails(a) \/ GiveUp(a)
               \/ HeartbeatCall(a) \/ HeartbeatAnswered(a) \/ HeartbeatRaises(a) \/ Crash(a) \/ Restart(a)
        PROVE  IInv'
    BY <2>1, RegisterCallKeeps, RegisterOkKeeps, EndingKeeps, HeartbeatCallKeeps, HeartbeatAnsweredKeeps
  <2>3. ASSUME NEW c \in calls, Lost(c) \/ Lookup(c) \/ Insert(c) \/ Verify(c) \/ Heartbeat(c)
        PROVE  IInv'
    BY <2>3, LostKeeps, LookupKeeps, InsertKeeps, VerifyKeeps, HeartbeatKeeps
  <2>4. CASE UNCHANGED vars
    BY <2>4, LostKeeps
  <2> QED BY <2>1, <2>3, <2>4 DEF Next
<1> QED BY <1>1, <1>2, PTL DEF Spec

\* The types of agents, calls in flight and rows: no token, call or report
\* names an id that the plane has not given out.
THEOREM ControlPlaneTypes == Spec => []TypeOK
<1>1. IInv => TypeOK
  BY DEF IInv
<1> QED BY <1>1, Invariance, PTL

\* An agent that serves holds the token of the row that bears its name, and no
\* other agent of that name serves, whatever was lost, retried, restarted or
\* registered at the same time.
THEOREM OneHolder == Spec => []RowHasOneHolder
<1>1. IInv => RowHasOneHolder
  BY DEF IInv
<1> QED BY <1>1, Invariance, PTL

\* The inventory of a worker is never replaced by an older one, although a
\* heartbeat may be handled after its agent has ended.
THEOREM InventoryGrows == Spec => InventoryInOrder
<1> DEFINE Newer == \A n \in Names : row'[n].id = row[n].id =>
                     \A old \in row[n].gpus, new \in row'[n].gpus : old <= new
<1>1. IInv /\ [Next]_vars => [Newer]_vars
  <2> SUFFICES ASSUME IInv, Next
               PROVE  Newer
    OBVIOUS
  <2>1. \A n \in Names : row[n].gpus \subseteq 1 .. made /\ made \in Nat
    BY DEF IInv, TypeOK
  <2>2. row' = row => Newer
    BY <2>1 DEF IInv, OneReport, NoRow
  <2>3. ASSUME NEW a \in Agents,
               \/ RegisterCall(a) \/ RegisterOk(a) \/ RegisterFails(a) \/ GiveUp(a)
               \/ HeartbeatCall(a) \/ HeartbeatAnswered(a) \/ HeartbeatRaises(a)
               \/ Crash(a) \/ Restart(a)
        PROVE  row' = row
    BY <2>3 DEF RegisterCall, RegisterOk, RegisterFails, GiveUp, HeartbeatCall, HeartbeatAnswered,
                HeartbeatRaises, Crash, Restart
  <2>4. ASSUME NEW c \in calls, Lost(c) \/ Lookup(c) \/ Verify(c)
        PROVE  row' = row
    BY <2>4 DEF Lost, Lookup, Verify
  <2>5. ASSUME NEW c \in calls, Insert(c)
        PROVE  Newer
    <3>1. CASE row[name[c.agent]] # NoRow
      BY <2>2, <2>5, <3>1 DEF Insert
    <3>2. CASE row[name[c.agent]] = NoRow
      <4>1. \A n \in Names : row'[n] = row[n] \/ row[n].gpus = {}
        BY <2>5, <3>2 DEF Insert, NoRow, IInv, TypeOK
      <4> QED BY <2>1, <4>1 DEF IInv, OneReport, NoRow
    <3> QED BY <3>1, <3>2
  <2>6. ASSUME NEW c \in calls, Heartbeat(c)
        PROVE  Newer
    <3>1. c.kind = "heartbeat" /\ c.at = "checked" /\ c.id \in Nat
      BY <2>6 DEF Heartbeat, Handling, IInv, TypeOK, Calls
    <3>2. \A n \in Names : row'[n] = row[n] \/ (row[n].id = c.token /\ row'[n].gpus = {c.id})
      BY <2>6 DEF Heartbeat, IInv, TypeOK
    <3> SUFFICES ASSUME NEW n \in Names, NEW old \in row[n].gpus, NEW new \in row'[n].gpus
                 PROVE  old <= new
      OBVIOUS
    <3>3. CASE row'[n] = row[n]
      BY <2>1, <3>3 DEF IInv, OneReport, NoRow
    <3>4. CASE row[n].id = c.token /\ row'[n].gpus = {c.id}
      BY <2>1, <3>1, <3>4 DEF IInv, BeatIsNewer
    <3> QED BY <3>2, <3>3, <3>4
  <2> QED BY <2>2, <2>3, <2>4, <2>5, <2>6 DEF Next
<1> QED BY <1>1, Invariance, PTL DEF Spec, InventoryInOrder

\* The GPUs of a worker are those of one report, never a mixture.
THEOREM ReportsWhole == Spec => []InventoryIsOneReport
<1>1. IInv => InventoryIsOneReport
  <2>1. \A k : Cardinality({k}) = 1
    BY FS_Singleton
  <2> QED BY <2>1 DEF IInv, OneReport, InventoryIsOneReport
<1> QED BY <1>1, Invariance, PTL

-----------------------------------------------------------------------------
(* The registry: two facts more, and the refinement step by step.          *)

\* No two rows bear one id, and no row bears that of a registration that is
\* still to make its row.
IdOnce ==
  /\ \A n, m \in Names : row[n].id = row[m].id /\ row[n].id # 0 => n = m
  /\ \A c \in calls, n \in Names :
       c.kind = "register" /\ c.at \in {"sent", "checked"} => row[n].id # c.id

\* What an agent that beats waits for is a heartbeat.
BeatAwaited ==
  \A a \in Agents, c \in calls : pc[a] = "beating" /\ c.id = call[a] => c.kind = "heartbeat"

RInv == IInv /\ IdOnce /\ BeatAwaited

\* What the registry knows of.
Owners == [n \in Names |-> row[n].id]
Reports == [n \in Names |-> row[n].gpus]
RowsSeen == <<name, Owners, Reports, Unread, token>>

\* It is that, before a step and after it.
LEMMA RowsAre ==
  /\ Rows!registry = RowsSeen
  /\ Rows!registry' = RowsSeen'
BY DEF Rows!registry, RowsSeen, Owners, Reports

\* Rows that stay, stay so for the registry.
LEMMA RowsStay ==
  ASSUME UNCHANGED row
  PROVE  UNCHANGED <<Owners, Reports>>
BY DEF Owners, Reports

\* The answers to be read are those of registrations that are done.
LEMMA UnreadIs ==
  /\ \A u : u \in Unread <=> \E c \in calls : c.kind = "register" /\ c.at = "done" /\ c.id = u
  /\ \A u : u \in Unread' <=> \E c \in calls' : c.kind = "register" /\ c.at = "done" /\ c.id = u
BY DEF Unread

\* The answers to be read are a set: two of them with the same members agree.
LEMMA SetsAgree == (\A u : u \in Unread' <=> u \in Unread) => Unread' = Unread
BY DEF Unread

\* A call that is sent is no answer.
LEMMA PostKeepsUnread ==
  ASSUME TypeOK, NEW a \in Agents, NEW kind \in {"register", "heartbeat"}, Post(a, kind)
  PROVE  UNCHANGED Unread
<1>1. calls' = calls \union {[id |-> made + 1, agent |-> a, kind |-> kind,
                              token |-> token[a], at |-> "sent"]}
  BY DEF Post
<1>2. \A c \in calls' : c.at = "done" => c \in calls
  BY <1>1
<1>3. \A u : u \in Unread' <=> u \in Unread
  BY <1>1, <1>2, UnreadIs
<1> QED BY <1>3 DEF Unread

\* An agent that leaves takes the answer it waited for with it.
LEMMA LeaveLoses ==
  ASSUME IInv, NEW a \in Agents, Leave(a)
  PROVE  Unread' = Unread \ {call[a]}
<1>1. calls' = {c \in calls : c.id # call[a] \/ c.at \in {"sent", "checked"}}
  BY DEF Leave
<1>2. \A u : u \in Unread' <=> u \in Unread \ {call[a]}
  BY <1>1, UnreadIs
<1> QED BY <1>2

\* If that was a registration, it has the row of the agent's name.
LEMMA LostIsOwn ==
  ASSUME IInv, NEW a \in Agents, call[a] \in Unread
  PROVE  call[a] = Owners[name[a]]
<1>1. PICK c \in calls : c.kind = "register" /\ c.at = "done" /\ c.id = call[a]
  BY UnreadIs
<1>2. c.agent = a BY <1>1 DEF IInv, Awaited
<1>3. row[name[a]].id = call[a] BY <1>1, <1>2 DEF IInv, DoneMadeRow
<1>4. name[a] \in Names BY DEF IInv, TypeOK
<1> QED BY <1>3, <1>4 DEF Owners

\* The step of an agent that stops waiting, as the registry sees it.
LEMMA PartRefines ==
  ASSUME IInv, NEW a \in Agents, Leave(a), UNCHANGED <<name, row>>,
         token' = [token EXCEPT ![a] = 0]
  PROVE  Rows!Part(a)
<1>1. Unread' = Unread \ {call[a]} BY LeaveLoses
<1>2. UNCHANGED <<Owners, Reports>> BY RowsStay
<1>3. Unread' \in {Unread, Unread \ {Owners[name[a]]}}
  BY <1>1, LostIsOwn
<1> QED BY <1>2, <1>3 DEF Rows!Part, Owners, Reports

\* An agent joins when it reads the answer to its registration; it parts when
\* it gives up, fails or ends; nothing else that it does is seen.
LEMMA AgentRefines ==
  ASSUME RInv, NEW a \in Agents,
         \/ RegisterCall(a) \/ RegisterOk(a) \/ RegisterFails(a) \/ GiveUp(a)
         \/ HeartbeatCall(a) \/ HeartbeatAnswered(a) \/ HeartbeatRaises(a) \/ Crash(a) \/ Restart(a)
  PROVE  Rows!Join(a) \/ Rows!Part(a) \/ UNCHANGED RowsSeen
<1> USE DEF RInv
<1>0. TypeOK /\ token \in [Agents -> 0 .. made] /\ name[a] \in Names
  BY DEF IInv, TypeOK
<1>1. UNCHANGED <<name, row>>
  BY DEF RegisterCall, RegisterOk, RegisterFails, GiveUp, HeartbeatCall, HeartbeatAnswered,
         HeartbeatRaises, Crash, Restart
<1>2. UNCHANGED <<Owners, Reports>> BY <1>1, RowsStay
<1>3. CASE RegisterCall(a) \/ HeartbeatCall(a)
  <2>1. UNCHANGED token /\ \E kind \in {"register", "heartbeat"} : Post(a, kind)
    BY <1>3 DEF RegisterCall, HeartbeatCall
  <2>2. UNCHANGED Unread BY <1>0, <2>1, PostKeepsUnread
  <2> QED BY <1>1, <1>2, <2>1, <2>2 DEF RowsSeen
<1>4. CASE Restart(a)
  <2>1. UNCHANGED <<token, calls>> BY <1>4 DEF Restart
  <2> QED BY <1>1, <1>2, <2>1 DEF RowsSeen, Unread
<1>5. CASE GiveUp(a) \/ HeartbeatRaises(a) \/ Crash(a)
  BY <1>1, <1>5, PartRefines DEF GiveUp, HeartbeatRaises, Crash, Ends
<1>6. CASE RegisterFails(a)
  <2>1. token[a] = 0
    BY <1>6 DEF RegisterFails, IInv, TokensAreRead, Serving
  <2>2. token' = [token EXCEPT ![a] = 0]
    BY <1>0, <1>6, <2>1 DEF RegisterFails
  <2> QED BY <1>1, <1>6, <2>2, PartRefines DEF RegisterFails
<1>7. CASE HeartbeatAnswered(a)
  <2>1. call[a] \notin Unread
    BY <1>7, UnreadIs DEF HeartbeatAnswered, BeatAwaited
  <2>2. UNCHANGED Unread
    BY <1>7, <2>1, LeaveLoses DEF HeartbeatAnswered
  <2> QED BY <1>1, <1>2, <1>7, <2>2 DEF HeartbeatAnswered, RowsSeen
<1>8. CASE RegisterOk(a)
  <2>1. PICK c \in calls : c.id = call[a] /\ c.at = "done"
    BY <1>8 DEF RegisterOk, Answers
  <2>2. call[a] \in Unread
    BY <1>8, <2>1, UnreadIs DEF RegisterOk, IInv, Awaited
  <2>3. call[a] = Owners[name[a]] BY <2>2, LostIsOwn
  <2>4. token[a] = 0
    BY <1>8 DEF RegisterOk, IInv, TokensAreRead, Serving
  <2>5. token' = [token EXCEPT ![a] = call[a]] /\ Unread' = Unread \ {call[a]}
    BY <1>8, LeaveLoses DEF RegisterOk
  <2> QED BY <1>1, <1>2, <2>2, <2>3, <2>4, <2>5 DEF Rows!Join, Owners, Reports
<1> QED BY <1>3, <1>4, <1>5, <1>6, <1>7, <1>8

\* An answer that makes no registration done is not seen.
LEMMA AnswerUnseen ==
  ASSUME NEW c \in calls, NEW at, Answer(c, at), c.at # "done" \/ c.kind # "register",
         at # "done" \/ c.kind # "register", c \in Calls
  PROVE  UNCHANGED Unread
<1>1. [c EXCEPT !.at = at].at = at /\ [c EXCEPT !.at = at].kind = c.kind
  BY DEF Calls
<1>2. \A d \in calls' : d \in calls \/ (d.at = at /\ d.kind = c.kind)
  BY <1>1 DEF Answer
<1>3. \A d \in calls : d \in calls' \/ d = c
  BY DEF Answer
<1>4. ASSUME NEW u PROVE u \in Unread' <=> u \in Unread
  BY <1>2, <1>3, UnreadIs
<1>5. \A u : u \in Unread' <=> u \in Unread
  BY <1>4
<1> HIDE DEF Unread
<1> QED BY <1>5, SetsAgree

\* The row of a registration is made for a free name, under a number that no
\* other row bears.
LEMMA InsertRefines ==
  ASSUME RInv, NEW c \in calls, Insert(c)
  PROVE  (\E n \in Names : Rows!Enroll(n)) \/ UNCHANGED RowsSeen
<1> USE DEF RInv
<1>0. /\ c \in Calls /\ c.id \in Nat \ {0} /\ name[c.agent] \in Names
      /\ c.kind = "register" /\ c.at = "checked"
      /\ row \in [Names -> [id : 0 .. made, gpus : SUBSET (1 .. made)]]
      /\ UNCHANGED <<name, token>>
  BY DEF IInv, TypeOK, Calls, Insert, Handling, agentVars
<1>1. CASE row[name[c.agent]] # NoRow
  <2>1. UNCHANGED row /\ Answer(c, "refused") BY <1>1 DEF Insert
  <2>2. UNCHANGED Unread BY <1>0, <2>1, AnswerUnseen
  <2> QED BY <1>0, <2>1, <2>2, RowsStay DEF RowsSeen
<1>2. CASE row[name[c.agent]] = NoRow
  <2>0. PICK place \in Names : place = name[c.agent]
    BY <1>0
  <2>1. row' = [row EXCEPT ![place] = [id |-> c.id, gpus |-> {c.id}]] /\ Answer(c, "done")
    BY <1>2, <2>0 DEF Insert
  <2>2. row'[place].id = c.id /\ row'[place].gpus = {c.id} /\ \A m \in Names \ {place} : row'[m] = row[m]
    BY <1>0, <2>1
  <2>3. /\ Owners' = [m \in Names |-> row'[m].id] /\ Owners = [m \in Names |-> row[m].id]
        /\ Reports' = [m \in Names |-> row'[m].gpus] /\ Reports = [m \in Names |-> row[m].gpus]
    BY DEF Owners, Reports
  <2>4. /\ Owners' = [Owners EXCEPT ![place] = Owners'[place]] /\ Owners'[place] = c.id
        /\ Reports' = [Reports EXCEPT ![place] = Reports'[place]] /\ Reports'[place] = {c.id}
    BY <1>0, <2>2, <2>3
  <2>5. Owners[place] = 0 BY <1>2, <2>0, <2>3 DEF NoRow
  <2>6. \A m \in Names : Owners[m] # c.id
    BY <1>0, <2>3 DEF IdOnce
  <2>7. Unread' \in {Unread, Unread \union {c.id}}
    <3>1. /\ [c EXCEPT !.at = "done"].at = "done" /\ [c EXCEPT !.at = "done"].kind = "register"
          /\ [c EXCEPT !.at = "done"].id = c.id
      BY <1>0 DEF Calls
    <3>2. calls' = (calls \ {c}) \union {d \in {[c EXCEPT !.at = "done"]} : call[c.agent] = c.id}
      BY <2>1 DEF Answer
    <3>3. CASE call[c.agent] = c.id
      <4> DEFINE made0 == [c EXCEPT !.at = "done"]
      <4>1. made0.at = "done" /\ made0.kind = "register" /\ made0.id = c.id
        BY <3>1
      <4>2. \A d : d \in calls' <=> (d \in calls /\ d # c) \/ d = made0
        BY <3>2, <3>3
      <4> HIDE DEF made0, Unread
      <4>3. ASSUME NEW u \in Unread' PROVE u \in Unread \/ u = c.id
        <5>1. PICK d \in calls' : d.kind = "register" /\ d.at = "done" /\ d.id = u
          BY <4>3, UnreadIs
        <5> QED BY <4>1, <4>2, <5>1, UnreadIs
      <4>4. ASSUME NEW u \in Unread PROVE u \in Unread'
        <5>1. PICK d \in calls : d.kind = "register" /\ d.at = "done" /\ d.id = u
          BY <4>4, UnreadIs
        <5>2. d \in calls'
          BY <1>0, <4>2, <5>1
        <5> QED BY <5>1, <5>2, UnreadIs
      <4>5. c.id \in Unread'
        BY <4>1, <4>2, UnreadIs
      <4>6. Unread' = Unread \union {c.id}
        BY <4>3, <4>4, <4>5
      <4> QED BY <4>6
    <3>4. CASE call[c.agent] # c.id
      <4>1. \A d : d \in calls' <=> (d \in calls /\ d # c)
        BY <3>2, <3>4
      <4>2. ASSUME NEW u PROVE u \in Unread' <=> u \in Unread
        BY <1>0, <4>1, UnreadIs
      <4> QED BY <4>2
    <3> QED BY <3>3, <3>4
  <2>8. Rows!Write(place)
    BY <2>3, <2>4 DEF Rows!Write, Owners, Reports
  <2>9. Rows!Enroll(place)
    BY <1>0, <2>4, <2>5, <2>6, <2>7, <2>8 DEF Rows!Enroll, Owners, Reports
  <2> QED BY <2>9
<1> QED BY <1>1, <1>2

\* A heartbeat writes one row, if any, with a report newer than the one there.
LEMMA HeartbeatRefines ==
  ASSUME RInv, NEW c \in calls, Heartbeat(c)
  PROVE  (\E n \in Names : Rows!Report(n)) \/ UNCHANGED RowsSeen
<1> USE DEF RInv
<1>0. /\ c \in Calls /\ c.kind = "heartbeat" /\ c.at = "checked" /\ c.token # 0
      /\ row \in [Names -> [id : 0 .. made, gpus : SUBSET (1 .. made)]]
      /\ UNCHANGED <<name, token>> /\ Answer(c, "done")
  BY DEF IInv, TypeOK, Heartbeat, Handling, OneBeatEach, agentVars
<1>1. UNCHANGED Unread BY <1>0, AnswerUnseen
<1>2. row' = [n \in Names |->
               IF row[n].id = c.token THEN [row[n] EXCEPT !.gpus = {c.id}] ELSE row[n]]
  BY DEF Heartbeat
<1>3. CASE \A n \in Names : row[n].id # c.token
  <2>1. row' = row BY <1>0, <1>2, <1>3
  <2> QED BY <1>0, <1>1, <2>1, RowsStay DEF RowsSeen
<1>4. ASSUME NEW n \in Names, row[n].id = c.token PROVE Rows!Report(n)
  <2>1. row'[n].id = row[n].id /\ row'[n].gpus = {c.id}
    BY <1>0, <1>2, <1>4
  <2>2. \A m \in Names \ {n} : row'[m] = row[m]
    BY <1>0, <1>2, <1>4 DEF IdOnce
  <2>3. /\ Owners' = [m \in Names |-> row'[m].id] /\ Owners = [m \in Names |-> row[m].id]
        /\ Reports' = [m \in Names |-> row'[m].gpus] /\ Reports = [m \in Names |-> row[m].gpus]
    BY DEF Owners, Reports
  <2>4. Owners' = Owners /\ Owners' = [Owners EXCEPT ![n] = Owners'[n]] /\ Owners[n] # 0
    BY <1>0, <1>4, <2>1, <2>2, <2>3
  <2>5. Reports' = [Reports EXCEPT ![n] = Reports'[n]] /\ Reports'[n] = {c.id}
    BY <2>1, <2>2, <2>3
  <2>6. \A old \in Reports[n] : old < c.id
    BY <1>0, <1>4, <2>3 DEF IInv, BeatIsNewer
  <2>7. Rows!Write(n)
    BY <2>3, <2>4, <2>5 DEF Rows!Write, Owners, Reports
  <2> QED BY <1>0, <1>1, <2>4, <2>5, <2>6, <2>7 DEF Rows!Report, Owners, Reports
<1> QED BY <1>3, <1>4

\* What the plane does to a call that it loses, looks up or checks is not seen.
LEMMA OtherCallUnseen ==
  ASSUME IInv, NEW c \in calls, Lost(c) \/ Lookup(c) \/ Verify(c)
  PROVE  UNCHANGED RowsSeen
<1>0. UNCHANGED <<name, token, row>> /\ c \in Calls
  BY DEF Lost, Lookup, Verify, agentVars, IInv, TypeOK
<1>1. UNCHANGED Unread
  <2>1. CASE Lost(c)
    <3>1. c.at = "sent" /\ calls' = calls \ {c} BY <2>1 DEF Lost
    <3>2. ASSUME NEW u PROVE u \in Unread' <=> u \in Unread BY <3>1, UnreadIs
    <3>3. \A u : u \in Unread' <=> u \in Unread BY <3>2
    <3> QED BY <3>3, SetsAgree
  <2>2. CASE Lookup(c) \/ Verify(c)
    <3>1. \E at \in {"checked", "refused"} : Answer(c, at) /\ c.at = "sent"
      BY <2>2 DEF Lookup, Verify, Handling
    <3> QED BY <1>0, <3>1, AnswerUnseen
  <2> QED BY <2>1, <2>2
<1> QED BY <1>0, <1>1, RowsStay DEF RowsSeen

\* What becomes of a call's kind, number and agent: nothing, while it lasts;
\* and one that is still to make its row has not been answered.
LEMMA IdOnceKept ==
  ASSUME RInv, [Next]_vars
  PROVE  IdOnce'
<1> USE DEF RInv
<1>0. /\ row \in [Names -> [id : 0 .. made, gpus : SUBSET (1 .. made)]]
      /\ TypeOK /\ made \in Nat /\ calls \subseteq Calls
  BY DEF IInv, TypeOK
<1>1. ASSUME UNCHANGED row,
             \A d \in calls' : d.kind = "register" /\ d.at \in {"sent", "checked"} =>
               \/ d.id = made + 1
               \/ \E c \in calls : c.id = d.id /\ c.kind = "register" /\ c.at \in {"sent", "checked"}
      PROVE  IdOnce'
  <2>1. \A n \in Names : row[n].id # made + 1
    BY <1>0
  <2> QED BY <1>1, <2>1 DEF IdOnce
<1>2. ASSUME UNCHANGED row, calls' \subseteq calls
      PROVE  IdOnce'
  BY <1>1, <1>2
<1>3. ASSUME UNCHANGED row, NEW c \in calls, c.at \in {"sent", "checked"},
             NEW at \in {"checked", "done", "refused"}, Answer(c, at)
      PROVE  IdOnce'
  <2>1. \A d \in calls' : (d \in calls /\ d # c) \/ (d.id = c.id /\ d.kind = c.kind)
    BY <1>0, <1>3, AnswerMoves
  <2> QED BY <1>1, <1>3, <2>1
<1>4. ASSUME NEW a \in Agents, RegisterCall(a) \/ HeartbeatCall(a)
      PROVE  IdOnce'
  <2>1. UNCHANGED row /\ \E kind \in {"register", "heartbeat"} : Post(a, kind)
    BY <1>4 DEF RegisterCall, HeartbeatCall
  <2>2. \A d \in calls' : d \in calls \/ d.id = made + 1
    BY <1>0, <2>1, PostAdds
  <2> QED BY <1>1, <2>1, <2>2
<1>5. ASSUME NEW a \in Agents,
             \/ RegisterOk(a) \/ RegisterFails(a) \/ GiveUp(a) \/ HeartbeatAnswered(a)
             \/ HeartbeatRaises(a) \/ Crash(a) \/ Restart(a)
      PROVE  IdOnce'
  <2>1. UNCHANGED row /\ (Leave(a) \/ UNCHANGED calls)
    BY <1>5 DEF RegisterOk, RegisterFails, GiveUp, HeartbeatAnswered, HeartbeatRaises, Crash,
                Restart, Ends
  <2> QED BY <1>0, <1>2, <2>1, LeaveDrops
<1>6. ASSUME NEW c \in calls, Lost(c) \/ Lookup(c) \/ Verify(c)
      PROVE  IdOnce'
  <2>1. UNCHANGED row /\ c.at = "sent"
    BY <1>6 DEF Lost, Lookup, Verify, Handling
  <2>2. \/ calls' \subseteq calls
        \/ \E at \in {"checked", "done", "refused"} : Answer(c, at)
    BY <1>6 DEF Lost, Lookup, Verify
  <2> QED BY <1>2, <1>3, <2>1, <2>2
<1>7. ASSUME NEW c \in calls, Heartbeat(c)
      PROVE  IdOnce'
  <2>1. c.kind = "heartbeat" /\ c.at = "checked" /\ Answer(c, "done")
    BY <1>7 DEF Heartbeat, Handling
  <2>2. \A n \in Names : row'[n].id = row[n].id
    BY <1>0, <1>7 DEF Heartbeat
  <2>3. \A d \in calls' : d.kind = "register" => d \in calls
    BY <1>0, <2>1, AnswerMoves
  <2> QED BY <2>2, <2>3 DEF IdOnce
<1>8. ASSUME NEW c \in calls, Insert(c)
      PROVE  IdOnce'
  <2>0. /\ c.kind = "register" /\ c.at = "checked"
        /\ name[c.agent] \in Names /\ c.id \in Nat \ {0}
    BY <1>0, <1>8 DEF Insert, Handling, TypeOK, Calls
  <2>1. CASE row[name[c.agent]] # NoRow
    <3>1. UNCHANGED row /\ Answer(c, "refused")
      BY <1>8, <2>1 DEF Insert
    <3> QED BY <1>3, <2>0, <3>1
  <2>2. CASE row[name[c.agent]] = NoRow
    <3>1. PICK place \in Names : place = name[c.agent]
      BY <2>0
    <3>2. row' = [row EXCEPT ![place] = [id |-> c.id, gpus |-> {c.id}]] /\ Answer(c, "done")
      BY <1>8, <2>2, <3>1 DEF Insert
    <3>3. row'[place].id = c.id /\ \A m \in Names \ {place} : row'[m] = row[m]
      BY <1>0, <3>2
    <3>4. \A n \in Names : row[n].id # c.id
      BY <2>0 DEF IdOnce
    <3>5. \A d \in calls' : d.at \in {"sent", "checked"} => d \in calls /\ d # c
      BY <1>0, <3>2, AnswerMoves
    <3>6. \A d \in calls : d # c => d.id # c.id
      BY DEF IInv, OneIdEach
    <3>7. ASSUME NEW n \in Names, NEW m \in Names, row'[n].id = row'[m].id, row'[n].id # 0
          PROVE  n = m
      BY <3>3, <3>4, <3>7 DEF IdOnce
    <3>8. ASSUME NEW d \in calls', NEW n \in Names, d.kind = "register", d.at \in {"sent", "checked"}
          PROVE  row'[n].id # d.id
      BY <3>3, <3>5, <3>6, <3>8 DEF IdOnce
    <3> QED BY <3>7, <3>8 DEF IdOnce
  <2> QED BY <2>1, <2>2
<1>9. CASE UNCHANGED vars
  BY <1>2, <1>9 DEF vars
<1> QED BY <1>4, <1>5, <1>6, <1>7, <1>8, <1>9 DEF Next

\* An agent waits for what it sent last, and an agent that beats sent that.
LEMMA BeatAwaitedKept ==
  ASSUME RInv, [Next]_vars
  PROVE  BeatAwaited'
<1> USE DEF RInv
<1>0. /\ TypeOK /\ made \in Nat /\ calls \subseteq Calls
      /\ pc \in [Agents -> {"register", "registering", "serve", "beating", "gaveUp", "dead"}]
  BY DEF IInv, TypeOK
<1>1. ASSUME NEW a \in Agents,
             \A b \in Agents \ {a} : pc'[b] = pc[b] /\ call'[b] = call[b],
             pc'[a] # "beating", calls' \subseteq calls
      PROVE  BeatAwaited'
  BY <1>1 DEF BeatAwaited
<1>2. ASSUME NEW a \in Agents, HeartbeatCall(a)
      PROVE  BeatAwaited'
  <2>1. Post(a, "heartbeat") /\ \A b \in Agents \ {a} : pc'[b] = pc[b]
    BY <1>0, <1>2 DEF HeartbeatCall, Goto
  <2>2. /\ call'[a] = made + 1 /\ \A b \in Agents \ {a} : call'[b] = call[b]
        /\ \A c \in calls' : c \in calls \/ (c.id = made + 1 /\ c.kind = "heartbeat")
        /\ \A c \in calls : c.id <= made
    BY <1>0, <2>1, PostAdds
  <2>3. \A c \in calls : c.id # made + 1
    BY <1>0, <2>2 DEF Calls
  <2> QED BY <2>1, <2>2, <2>3 DEF BeatAwaited
<1>3. ASSUME NEW a \in Agents, RegisterCall(a)
      PROVE  BeatAwaited'
  <2>1. Post(a, "register") /\ pc'[a] = "registering" /\ \A b \in Agents \ {a} : pc'[b] = pc[b]
    BY <1>0, <1>3 DEF RegisterCall, Goto
  <2>2. /\ \A b \in Agents \ {a} : call'[b] = call[b]
        /\ \A c \in calls' : c \in calls \/ c.id = made + 1
    BY <1>0, <2>1, PostAdds
  <2>3. \A b \in Agents : call[b] # made + 1
    BY <1>0 DEF TypeOK
  <2> QED BY <2>1, <2>2, <2>3 DEF BeatAwaited
<1>4. ASSUME NEW a \in Agents,
             \/ RegisterOk(a) \/ RegisterFails(a) \/ GiveUp(a) \/ HeartbeatAnswered(a)
             \/ HeartbeatRaises(a) \/ Crash(a) \/ Restart(a)
      PROVE  BeatAwaited'
  <2>1. Leave(a) \/ UNCHANGED <<calls, call>>
    BY <1>4 DEF RegisterOk, RegisterFails, GiveUp, HeartbeatAnswered, HeartbeatRaises, Crash,
                Restart, Ends
  <2>2. pc'[a] # "beating" /\ \A b \in Agents \ {a} : pc'[b] = pc[b]
    BY <1>0, <1>4 DEF RegisterOk, RegisterFails, GiveUp, HeartbeatAnswered, HeartbeatRaises, Crash,
                      Restart, Ends, Goto
  <2> QED BY <1>0, <1>1, <2>1, <2>2, LeaveDrops
<1>5. ASSUME NEW c \in calls, Lost(c) \/ Lookup(c) \/ Insert(c) \/ Verify(c) \/ Heartbeat(c)
      PROVE  BeatAwaited'
  <2>1. UNCHANGED <<pc, call>>
    BY <1>5 DEF Lost, Lookup, Insert, Verify, Heartbeat, agentVars
  <2>2. \/ calls' \subseteq calls
        \/ \E at \in {"checked", "done", "refused"} : Answer(c, at)
    BY <1>5 DEF Lost, Lookup, Insert, Verify, Heartbeat
  <2>3. \A d \in calls' : \E e \in calls : e.id = d.id /\ e.kind = d.kind
    BY <1>0, <2>2, AnswerMoves
  <2> QED BY <2>1, <2>3 DEF BeatAwaited
<1>6. CASE UNCHANGED vars
  BY <1>6 DEF vars, agentVars, BeatAwaited
<1> QED BY <1>2, <1>3, <1>4, <1>5, <1>6 DEF Next

\* The two facts hold with the invariant.
LEMMA RowsInvariance == Spec => []RInv
<1>1. Init => IdOnce /\ BeatAwaited
  BY DEF Init, IdOnce, BeatAwaited, NoRow
<1>2. IInv /\ (IdOnce /\ BeatAwaited) /\ IInv' /\ [Next]_vars => (IdOnce /\ BeatAwaited)'
  BY IdOnceKept, BeatAwaitedKept DEF RInv
<1> QED BY <1>1, <1>2, Invariance, PTL DEF Spec, RInv

\* Every step of the program is one of the registry, or none.
LEMMA RowsStep ==
  ASSUME RInv, [Next]_vars
  PROVE  [Rows!RegistryNext]_Rows!registry
<1>1. Rows!RegistryNext \/ UNCHANGED RowsSeen
  <2>1. ASSUME NEW a \in Agents,
               \/ RegisterCall(a) \/ RegisterOk(a) \/ RegisterFails(a) \/ GiveUp(a)
               \/ HeartbeatCall(a) \/ HeartbeatAnswered(a) \/ HeartbeatRaises(a) \/ Crash(a) \/ Restart(a)
        PROVE  Rows!RegistryNext \/ UNCHANGED RowsSeen
    BY <2>1, AgentRefines DEF Rows!RegistryNext
  <2>2. ASSUME NEW c \in calls, Insert(c)
        PROVE  Rows!RegistryNext \/ UNCHANGED RowsSeen
    BY <2>2, InsertRefines DEF Rows!RegistryNext
  <2>3. ASSUME NEW c \in calls, Heartbeat(c)
        PROVE  Rows!RegistryNext \/ UNCHANGED RowsSeen
    BY <2>3, HeartbeatRefines DEF Rows!RegistryNext
  <2>4. ASSUME NEW c \in calls, Lost(c) \/ Lookup(c) \/ Verify(c)
        PROVE  Rows!RegistryNext \/ UNCHANGED RowsSeen
    BY <2>4, OtherCallUnseen DEF RInv
  <2>5. CASE UNCHANGED vars
    BY <2>5 DEF vars, agentVars, RowsSeen, Owners, Reports, Unread
  <2> QED BY <2>1, <2>2, <2>3, <2>4, <2>5 DEF Next
<1> QED BY <1>1, RowsAre

\* The plane with its agents implements the registry: a name is given away once,
\* to a new registration; its answer is read once or never, by an agent of that
\* name; and a row's inventory is one report, replaced by newer ones only.
THEOREM RegistryKept == Spec => KeepsRegistry
<1>1. Init => Rows!RegistryInit
  <2> SUFFICES ASSUME Init PROVE Rows!RegistryInit
    OBVIOUS
  <2>1. Owners = [n \in Names |-> 0] /\ Reports = [n \in Names |-> {}]
    BY DEF Init, Owners, Reports, NoRow
  <2>2. Unread = {}
    BY DEF Init, Unread
  <2> QED BY <2>1, <2>2 DEF Init, Rows!RegistryInit, Owners, Reports
<1>2. RInv /\ [Next]_vars => [Rows!RegistryNext]_Rows!registry
  BY RowsStep
<1> QED BY <1>1, <1>2, RowsInvariance, PTL DEF Spec, KeepsRegistry, Rows!RegistrySpec

\* What the registry says of rows and agents, in terms of what it knows of them.
MembersAre ==
  /\ \A n, m \in Names : Owners[n] = Owners[m] /\ Owners[n] # 0 => n = m
  /\ \A a \in Agents : token[a] # 0 =>
       /\ token[a] = Owners[name[a]] /\ token[a] \notin Unread
       /\ \A b \in Agents \ {a} : token[b] # token[a]

\* It is that, before a step and after it.
LEMMA OneMemberIs ==
  /\ Rows!OneMember <=> MembersAre
  /\ Rows!OneMember' <=> MembersAre'
BY DEF Rows!OneMember, MembersAre, Owners

\* No step of a registry gives a registration to a second name or agent.
LEMMA OneMemberStays ==
  ASSUME TypeOK, Rows!OneMember, [Rows!RegistryNext]_Rows!registry
  PROVE  Rows!OneMember'
<1>0. MembersAre BY OneMemberIs
<1>1. name \in [Agents -> Names] /\ token \in [Agents -> 0 .. made]
  BY DEF TypeOK
<1>2. Owners = [n \in Names |-> Owners[n]] /\ Reports = [n \in Names |-> Reports[n]]
  BY DEF Owners, Reports
<1>a. MembersAre' <=>
        /\ \A n, m \in Names : Owners'[n] = Owners'[m] /\ Owners'[n] # 0 => n = m
        /\ \A a \in Agents : token'[a] # 0 =>
             /\ token'[a] = Owners'[name'[a]] /\ token'[a] \notin Unread'
             /\ \A b \in Agents \ {a} : token'[b] # token'[a]
  BY DEF MembersAre
<1> SUFFICES MembersAre'
  BY OneMemberIs
<1>3. CASE UNCHANGED Rows!registry
  BY <1>0, <1>3, <1>a, RowsAre DEF RowsSeen, MembersAre
<1>4. ASSUME NEW n \in Names, Rows!Enroll(n) PROVE MembersAre'
  <2>1. /\ Owners[n] = 0 /\ Owners'[n] # 0 /\ \A m \in Names : Owners[m] # Owners'[n]
        /\ Owners' = [Owners EXCEPT ![n] = Owners'[n]]
        /\ Unread' \in {Unread, Unread \union {Owners'[n]}} /\ UNCHANGED <<name, token>>
    BY <1>4 DEF Rows!Enroll, Rows!Write, Owners, Reports
  <2>2. \A m \in Names \ {n} : Owners'[m] = Owners[m]
    BY <1>2, <2>1
  <2>3. \A a \in Agents : token[a] # 0 => name[a] \in Names \ {n} /\ token[a] # Owners'[n]
    BY <1>0, <1>1, <2>1 DEF MembersAre
  <2>4. ASSUME NEW m \in Names, NEW k \in Names, Owners'[m] = Owners'[k], Owners'[m] # 0
        PROVE  m = k
    BY <1>0, <2>1, <2>2, <2>4 DEF MembersAre
  <2>5. ASSUME NEW a \in Agents, token[a] # 0
        PROVE  /\ token[a] = Owners'[name[a]] /\ token[a] \notin Unread'
               /\ \A b \in Agents \ {a} : token[b] # token[a]
    BY <1>0, <2>1, <2>2, <2>3, <2>5 DEF MembersAre
  <2> QED BY <1>a, <2>1, <2>4, <2>5
<1>5. ASSUME NEW n \in Names, Rows!Report(n) PROVE MembersAre'
  <2>1. UNCHANGED <<Owners, Unread, name, token>>
    BY <1>5 DEF Rows!Report, Owners
  <2> QED BY <1>0, <1>a, <2>1 DEF MembersAre
<1>6. ASSUME NEW a \in Agents, Rows!Join(a) PROVE MembersAre'
  <2>1. /\ Owners[name[a]] \in Unread /\ Unread' = Unread \ {Owners[name[a]]}
        /\ token' = [token EXCEPT ![a] = Owners[name[a]]] /\ UNCHANGED <<name, Owners>>
    BY <1>6 DEF Rows!Join, Owners
  <2>2. token'[a] = Owners[name[a]] /\ \A b \in Agents \ {a} : token'[b] = token[b]
    BY <1>1, <2>1
  <2>3. \A b \in Agents : token[b] # 0 => token[b] # Owners[name[a]]
    BY <1>0, <2>1 DEF MembersAre
  <2>4. ASSUME NEW b \in Agents, token'[b] # 0
        PROVE  /\ token'[b] = Owners[name[b]] /\ token'[b] \notin Unread'
               /\ \A d \in Agents \ {b} : token'[d] # token'[b]
    <3>1. CASE b = a
      BY <2>1, <2>2, <2>3, <2>4, <3>1
    <3>2. CASE b # a
      BY <1>0, <2>1, <2>2, <2>3, <2>4, <3>2 DEF MembersAre
    <3> QED BY <3>1, <3>2
  <2> QED BY <1>0, <1>a, <2>1, <2>4 DEF MembersAre
<1>7. ASSUME NEW a \in Agents, Rows!Part(a) PROVE MembersAre'
  <2>1. /\ Unread' \subseteq Unread /\ UNCHANGED <<name, Owners>>
        /\ token' = [token EXCEPT ![a] = 0]
    BY <1>7 DEF Rows!Part, Owners
  <2>2. token'[a] = 0 /\ \A b \in Agents \ {a} : token'[b] = token[b]
    BY <1>1, <2>1
  <2> QED BY <1>0, <1>a, <2>1, <2>2 DEF MembersAre
<1> QED BY <1>3, <1>4, <1>5, <1>6, <1>7 DEF Rows!RegistryNext

\* Because the rows are a registry, no two names and no two agents ever share
\* a registration, and what an agent acts under is the row of its name, with no
\* answer left that another could read it from.
THEOREM OneMemberOnly == Spec => []Rows!OneMember
<1>1. Rows!RegistryInit => Rows!OneMember
  BY DEF Rows!RegistryInit, Rows!OneMember
<1>2. TypeOK /\ Rows!OneMember /\ [Rows!RegistryNext]_Rows!registry => Rows!OneMember'
  BY OneMemberStays
<1>3. Spec => Rows!RegistryInit /\ [][Rows!RegistryNext]_Rows!registry
  BY RegistryKept DEF KeepsRegistry, Rows!RegistrySpec
<1> QED BY <1>1, <1>2, <1>3, ControlPlaneTypes, PTL
=============================================================================
