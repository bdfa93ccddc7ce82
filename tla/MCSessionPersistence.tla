------------------------ MODULE MCSessionPersistence ------------------------
(***************************************************************************)
(* Instances of SessionPersistence for TLC.                                *)
(***************************************************************************)
EXTENDS SessionPersistence, TLC

CONSTANTS a, b, s1, s2, u1, f1

MCClients == {a, b}
MCOneClient == {a}
MCSessions == {s1, s2}
MCOneSession == {s1}
MCUsers == {u1}
MCFlags == {f1}

\* Two sessions of one user, so that an open of one purges the other.
MCUserOf == s1 :> u1 @@ s2 :> u1
MCOneUserOf == s1 :> u1

MCSymmetry == Permutations(MCClients) \cup Permutations(MCSessions)
=============================================================================
