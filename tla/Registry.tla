------------------------------ MODULE Registry ------------------------------
(***************************************************************************)
(* What a control plane promises of its workers: a name is given away      *)
(* once, to a new registration; the answer that carries a registration is  *)
(* read once or never, by an agent of that name; and what is known of a    *)
(* worker is one report, replaced by newer ones only.                      *)
(***************************************************************************)
EXTENDS Naturals

CONSTANTS Agents, Names

VARIABLES
  name,     \* the name each agent asks for
  owner,    \* the registration that has each name, 0 while it is free
  report,   \* what was last reported under it
  unread,   \* registrations whose answer can still be read
  member    \* the registration each agent acts under, 0 for none

registry == <<name, owner, report, unread, member>>

RegistryInit ==
  /\ name \in [Agents -> Names]
  /\ owner = [n \in Names |-> 0] /\ report = [n \in Names |-> {}]
  /\ unread = {} /\ member = [a \in Agents |-> 0]

\* The row of n alone is written, with one report.
Write(n) ==
  /\ owner' = [owner EXCEPT ![n] = owner'[n]]
  /\ report' = [report EXCEPT ![n] = report'[n]]
  /\ \E new \in report'[n] : report'[n] = {new}

\* A free name goes to a registration that has no other; its answer is on its
\* way, or nobody waits for it any more.
Enroll(n) ==
  /\ owner[n] = 0
  /\ owner'[n] \in Nat \ {0}
  /\ \A m \in Names : owner[m] # owner'[n]
  /\ Write(n)
  /\ unread' \in {unread, unread \union {owner'[n]}}
  /\ UNCHANGED <<name, member>>

\* An agent reads that its name is its own: nobody reads that again.
Join(a) ==
  /\ owner[name[a]] \in unread
  /\ member[a] = 0
  /\ member' = [member EXCEPT ![a] = owner[name[a]]]
  /\ unread' = unread \ {owner[name[a]]}
  /\ UNCHANGED <<name, owner, report>>

\* An agent ends or waits no longer, and the answer it waited for is lost.
Part(a) ==
  /\ member' = [member EXCEPT ![a] = 0]
  /\ unread' \in {unread, unread \ {owner[name[a]]}}
  /\ UNCHANGED <<name, owner, report>>

\* A newer report replaces the one there was.
Report(n) ==
  /\ owner[n] # 0 /\ UNCHANGED owner
  /\ Write(n)
  /\ \A old \in report[n], new \in report'[n] : old < new
  /\ UNCHANGED <<name, unread, member>>

RegistryNext ==
  \/ \E n \in Names : Enroll(n) \/ Report(n)
  \/ \E a \in Agents : Join(a) \/ Part(a)

RegistrySpec == RegistryInit /\ [][RegistryNext]_registry
-----------------------------------------------------------------------------
\* A registration has one name, one agent acts under it at most, an agent of
\* that name, and then no answer with it can be read any more.
OneMember ==
  /\ \A n, m \in Names : owner[n] = owner[m] /\ owner[n] # 0 => n = m
  /\ \A a \in Agents : member[a] # 0 =>
       /\ member[a] = owner[name[a]] /\ member[a] \notin unread
       /\ \A b \in Agents \ {a} : member[b] # member[a]
=============================================================================
