------------------------------- MODULE Session -------------------------------
(***************************************************************************)
(* What a mining strategy promises of its session: whoever changes it has  *)
(* it for himself; an engine comes only when none is on and a session goes *)
(* with all that is on, so that no engine ever takes another one's place;  *)
(* and whoever leaves, leaves it in order.  The connection to the pool is  *)
(* no part of the promise: the client's own threads change it too.         *)
(***************************************************************************)
CONSTANTS Callers, Nobody, Engines

VARIABLES
  holder,   \* the caller that has the session for himself
  asked,    \* a session is asked for
  on        \* the engines that are on

session == <<holder, asked, on>>

SessionInit == holder = Nobody /\ asked = FALSE /\ on = {}

\* One engine if a session is asked for, else none.
InOrder ==
  /\ asked => \E e \in Engines : on = {e}
  /\ ~asked => on = {}

\* A caller takes the session: to begin it, to look at it, or to end it.
Take(c) ==
  /\ holder = Nobody /\ holder' = c
  /\ asked' \in {asked, FALSE}
  /\ UNCHANGED on

\* An engine comes, and the caller leaves.
Come(c, e) ==
  /\ holder = c /\ ~asked /\ on = {}
  /\ asked' = TRUE /\ on' = {e}
  /\ holder' = Nobody

\* All that is on goes, and the caller leaves.
Go(c) ==
  /\ holder = c /\ ~asked
  /\ on' = {}
  /\ holder' = Nobody
  /\ UNCHANGED asked

\* The caller leaves what it found in order.
Leave(c) ==
  /\ holder = c /\ InOrder
  /\ holder' = Nobody
  /\ UNCHANGED <<asked, on>>

SessionNext ==
  \E c \in Callers : Take(c) \/ (\E e \in Engines : Come(c, e)) \/ Go(c) \/ Leave(c)

SessionSpec == SessionInit /\ [][SessionNext]_session
-----------------------------------------------------------------------------
\* Nothing is out of order while nobody has the session, nor while one is
\* asked for, whoever looks at it.
AtRest == holder = Nobody \/ asked => InOrder

\* Between two engines there is a moment without any.
NothingReplaced == [][on = {} \/ on' \in {{}, on}]_session
=============================================================================
