--------------------------- MODULE MCCommsIngest ---------------------------
(***************************************************************************)
(* Instances of CommsIngest for TLC.                                       *)
(***************************************************************************)
EXTENDS CommsIngest, TLC

CONSTANTS c1, c2, c3, p1, p2, m1, h1, h2

MCCalls == {c1, c2, c3}
MCProviders == {p1, p2}
MCMessageIds == {m1, NullId, EmptyId}
MCHashes == {h1, h2}

Message(p, m, h) == [provider |-> p, providerMessageId |-> m, contentHash |-> h]

\* One message with an identity, and the same content delivered without one
\* by two providers.
MCMessages ==
  {Message(p1, m1, h1), Message(p1, NullId, h1), Message(p2, NullId, h1)}

\* Two different messages that one provider delivers with an empty id.
MCEmptyIdMessages == {Message(p1, EmptyId, h1), Message(p1, EmptyId, h2)}

MCSymmetry == Permutations(MCCalls)
=============================================================================
