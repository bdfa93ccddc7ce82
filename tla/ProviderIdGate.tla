--------------------------- MODULE ProviderIdGate ---------------------------
(***************************************************************************)
(* What the provider-id gate promises, with no database in sight: one      *)
(* test-and-set cell per message identity.  The first call to reach a cell *)
(* takes it for good and is told "novel", every later one is told          *)
(* "duplicate"; a call may instead fail, which touches nothing.            *)
(***************************************************************************)
CONSTANTS Calls, Identities, None

VARIABLES
  identity,  \* identity[c]: the cell call c asks for, None if it asks for none
  owner,     \* owner[i]: the call that took cell i, None while it is free
  verdict    \* verdict[c]: what call c was told

absVars == <<identity, owner, verdict>>

AbsInit ==
  /\ identity \in [Calls -> Identities \cup {None}]
  /\ owner = [i \in Identities |-> None]
  /\ verdict = [c \in Calls |-> "none"]

Asking(c) == identity[c] \in Identities /\ verdict[c] = "none"

Take(c) ==
  /\ Asking(c)
  /\ owner[identity[c]] = None
  /\ owner' = [owner EXCEPT ![identity[c]] = c]
  /\ verdict' = [verdict EXCEPT ![c] = "novel"]
  /\ UNCHANGED identity

Refuse(c) ==
  /\ Asking(c)
  /\ owner[identity[c]] # None
  /\ verdict' = [verdict EXCEPT ![c] = "duplicate"]
  /\ UNCHANGED <<identity, owner>>

Fail(c) ==
  /\ Asking(c)
  /\ verdict' = [verdict EXCEPT ![c] = "error"]
  /\ UNCHANGED <<identity, owner>>

AbsNext == \E c \in Calls : Take(c) \/ Refuse(c) \/ Fail(c)

AbsSpec == AbsInit /\ [][AbsNext]_absVars
=============================================================================
