-------------------------- MODULE ReplyTurnProofs ---------------------------
(***************************************************************************)
(* What TLAPS proves of ReplyTurn, for all inputs, sessions, conversations,*)
(* answers and routes: its types, that a reply is the whole of its stream, *)
(* that no open safety flag goes past the audits, that segments carry the  *)
(* text, that the report of a route is true, that the prompt keeps the     *)
(* longest end of the conversation that fits, that the turn implements     *)
(* ReplyDelivery, that every step lowers a measure, and that no stage is   *)
(* stuck.                                                                  *)
(*                                                                         *)
(* EveryTurnEnds itself is liveness and is for TLC.                        *)
(***************************************************************************)
EXTENDS ReplyTurn, FiniteSetTheorems, WellFoundedInduction, TLAPS

-----------------------------------------------------------------------------
(* Induction.                                                              *)

\* A set of natural numbers has a least element.
LEMMA NatMin == ASSUME NEW T, T \subseteq Nat, T # {} PROVE \E x \in T : \A y \in T : x <= y
<1> DEFINE R == {ss \in Nat \X Nat : ss[1] < ss[2]}
<1>1. IsWellFoundedOn(R, Nat)
  BY NatLessThanWellFounded DEF OpToRel
<1>2. PICK x \in T : \A y \in T : ~ (<<y, x>> \in R)
  <2> HIDE DEF R
  <2> QED BY <1>1, WFMin
<1>3. \A y \in T : ~ (y < x)
  BY <1>2
<1>4. QED
  BY <1>3

\* Induction, for a set of numbers: the library states it for an operator.
LEMMA SetInduction ==
  ASSUME NEW S, S \subseteq Nat, 0 \in S, \A n \in S : n + 1 \in S
  PROVE  S = Nat
<1>1. SUFFICES ASSUME Nat \ S # {} PROVE FALSE
  OBVIOUS
<1>2. PICK x \in Nat \ S : \A y \in Nat \ S : x <= y
  BY <1>1, NatMin
<1>3. x - 1 \in Nat /\ x - 1 \notin Nat \ S
  BY <1>2
<1>4. QED
  BY <1>2, <1>3

\* Stripping leaves a text.  The recursive function on 0..n has a value for every
\* n, by induction, and so its equations hold.
LEMMA StripIsText == ASSUME NEW t \in Text PROVE Strip(t) \in Text
<1> DEFINE Step(f, n) == IF n = 0 THEN <<>> ELSE IF t[n] \in Markup THEN f[n - 1] ELSE Append(f[n - 1], t[n])
           Body(f, n) == [i \in 0..n |-> Step(f, i)]
           Equations(f, n) == \A i \in 0..n : f[i] = Step(f, i)
           kept == CHOOSE f : f = Body(f, Len(t))
<1>1. Len(t) \in Nat /\ t \in [1..Len(t) -> Tokens]
  BY DEF Text
<1>2. \A n \in Nat : \E f : Equations(f, n)
  <2> DEFINE S == {n \in Nat : \E f : Equations(f, n)}
  <2>1. 0 \in S
    <3>1. Equations([i \in 0..0 |-> <<>>], 0)
      OBVIOUS
    <3>2. QED
      BY <3>1
  <2>2. ASSUME NEW n \in S PROVE n + 1 \in S
    <3>1. PICK f : Equations(f, n)
      BY <2>2
    <3> DEFINE g == [i \in 0..(n + 1) |-> IF i = n + 1 THEN Step(f, n + 1) ELSE f[i]]
    <3>2. n \in Nat
      OBVIOUS
    <3>3. ASSUME NEW i \in 0..(n + 1) PROVE g[i] = Step(g, i)
      <4>1. CASE i = n + 1
        BY <3>2, <4>1
      <4>2. CASE i \in 0..n
        <5>1. g[i] = Step(f, i)
          BY <3>1, <3>2, <4>2
        <5>2. i # 0 => g[i - 1] = f[i - 1]
          BY <3>2, <4>2
        <5> HIDE DEF g
        <5>3. QED
          BY <5>1, <5>2
      <4>3. QED
        BY <3>2, <4>1, <4>2
    <3>4. Equations(g, n + 1)
      BY <3>3
    <3> HIDE DEF g, Step
    <3>5. QED
      BY <3>2, <3>4
  <2>3. S = Nat
    <3> HIDE DEF S
    <3>1. S \subseteq Nat
      BY DEF S
    <3>2. QED BY <2>1, <2>2, <3>1, SetInduction
  <2>4. QED
    BY <2>3
<1>3. Equations(kept, Len(t))
  <2>1. PICK f : Equations(f, Len(t))
    BY <1>1, <1>2
  <2> DEFINE g == [i \in 0..Len(t) |-> f[i]]
  <2>2. Equations(g, Len(t))
    BY <1>1, <2>1
  <2>3. Body(g, Len(t)) = g
    <3>1. \A i \in 0..Len(t) : Step(g, i) = f[i]
      BY <1>1, <2>1, <2>2
    <3> HIDE DEF Step
    <3>2. QED
      BY <3>1
  <2>4. kept = Body(kept, Len(t))
    <3> HIDE DEF g, Body
    <3> QED BY <2>3
  <2>5. \A i \in 0..Len(t) : Body(kept, Len(t))[i] = Step(kept, i)
    <3> HIDE DEF kept, Step
    <3> QED OBVIOUS
  <2> HIDE DEF kept, Body, Step
  <2>6. QED
    BY <2>4, <2>5
<1> HIDE DEF kept
<1>4. \A n \in Nat : n <= Len(t) => kept[n] \in Text
  <2> DEFINE S == {n \in Nat : n <= Len(t) => kept[n] \in Text}
  <2>1. 0 \in S
    <3>1. kept[0] = <<>>
      BY <1>1, <1>3
    <3>2. <<>> \in Text
      BY DEF Text
    <3>3. QED
      BY <3>1, <3>2
  <2>2. ASSUME NEW n \in S PROVE n + 1 \in S
    <3>1. SUFFICES ASSUME n + 1 <= Len(t) PROVE kept[n + 1] \in Text
      OBVIOUS
    <3>2. kept[n + 1] = Step(kept, n + 1)
      <4>1. n + 1 \in 0..Len(t)
        BY <1>1, <3>1
      <4> HIDE DEF Step
      <4>2. QED
        BY <1>3, <4>1
    <3>3. n + 1 \in 1..Len(t) /\ n <= Len(t)
      BY <1>1, <3>1
    <3>4. kept[n] \in Text /\ t[n + 1] \in Tokens
      BY <1>1, <3>3
    <3>5. QED
      BY <3>2, <3>4 DEF Text
  <2>3. S = Nat
    <3> HIDE DEF S
    <3>1. S \subseteq Nat
      BY DEF S
    <3>2. QED BY <2>1, <2>2, <3>1, SetInduction
  <2>4. QED
    BY <2>3
<1>5. Strip(t) = kept[Len(t)]
  BY DEF Strip, kept
<1>6. QED
  BY <1>1, <1>4, <1>5

-----------------------------------------------------------------------------
(* Types.                                                                  *)

LEMMA LoadFrame == LoadTypeOK /\ UNCHANGED loadVars => LoadTypeOK'
  BY DEF LoadTypeOK, loadVars

LEMMA PromptFrame == PromptTypeOK /\ UNCHANGED promptVars => PromptTypeOK'
  BY DEF PromptTypeOK, promptVars

LEMMA CallFrame == CallTypeOK /\ UNCHANGED callVars => CallTypeOK'
  BY DEF CallTypeOK, callVars

LEMMA AuditFrame == AuditTypeOK /\ UNCHANGED auditVars => AuditTypeOK'
  BY DEF AuditTypeOK, auditVars

LEMMA RouterFrame == RouterTypeOK /\ UNCHANGED routerVars => RouterTypeOK'
  BY DEF RouterTypeOK, routerVars

\* A classified input is an event.
LEMMA ClassifiedIsEvent == ASSUME NEW r \in RawInput PROVE ClassifyEvent(r) \in Event
  BY DEF RawInput, ClassifyEvent, Event, EventType

\* What the filter leaves is a context.
LEMMA FilteredIsContext ==
  ASSUME NEW e \in Event, NEW s \in Session
  PROVE  FilterContextForEvent(e, s) \in Context
  BY ContextAssumption DEF FilterContextForEvent, Context, Session

\* The last row of a key decides, and its value is one of the key's.
LEMMA OverlaidIsSettings ==
  ASSUME NEW rows \in Seq(SettingRow), \A i \in DOMAIN rows : ~ Corrupt(rows[i])
  PROVE  Overlay(rows) \in Settings
<1> DEFINE At(k) == {i \in DOMAIN rows : rows[i].key = k}
           Value(k) == IF At(k) = {} THEN "default" ELSE Coerce(k, rows[Max(At(k))].raw)
<1>1. ASSUME NEW k \in Keys, At(k) # {} PROVE Max(At(k)) \in At(k)
  <2> DEFINE T == {n \in Nat : Len(rows) - n \in At(k)}
  <2>1. T # {}
    <3>1. PICK i \in At(k) : TRUE
      BY <1>1
    <3>2. i \in 1..Len(rows) /\ Len(rows) \in Nat
      BY <3>1
    <3>3. Len(rows) - i \in Nat /\ Len(rows) - (Len(rows) - i) = i
      BY <3>2
    <3>4. Len(rows) - i \in T
      BY <3>1, <3>3
    <3>5. QED
      BY <3>4
  <2>2. PICK x \in T : \A y \in T : x <= y
    BY <2>1, NatMin
  <2>3. \A i \in At(k) : Len(rows) - x >= i
    <3>1. SUFFICES ASSUME NEW i \in At(k) PROVE Len(rows) - x >= i
      OBVIOUS
    <3>2. i \in 1..Len(rows) /\ Len(rows) \in Nat
      OBVIOUS
    <3>3. Len(rows) - i \in Nat /\ Len(rows) - (Len(rows) - i) = i
      BY <3>2
    <3>4. x <= Len(rows) - i
      BY <2>2, <3>3
    <3>5. QED
      BY <2>2, <3>2, <3>4
  <2>4. QED
    BY <2>2, <2>3 DEF Max
<1>2. ASSUME NEW k \in Keys PROVE Value(k) \in SettingValue(k)
  <2>1. CASE At(k) = {}
    BY <2>1 DEF SettingValue
  <2>2. CASE At(k) # {}
    <3>1. Max(At(k)) \in At(k)
      BY <1>1, <2>2
    <3>2. ~ Corrupt(rows[Max(At(k))]) /\ rows[Max(At(k))].key = k
      BY <3>1
    <3>3. rows[Max(At(k))].raw \in Coercible[k]
      BY <3>2 DEF Corrupt
    <3>4. QED
      BY <2>2, <3>3 DEF SettingValue
  <2>3. QED
    BY <2>1, <2>2
<1>3. \A k \in Keys : SettingValue(k) \subseteq Raws \cup {"default", "0"}
  <2>1. ASSUME NEW k \in Keys PROVE Coercible[k] \subseteq Raws
    <3>1. CASE k = "ttsRate"
      BY <3>1 DEF Coercible, Raws
    <3>2. CASE k = "styleProfileVisible"
      BY <3>2 DEF Coercible, Raws
    <3>3. CASE k = "styleExclusions"
      BY <3>3 DEF Coercible, Raws
    <3>4. CASE k = "voiceResponseMode"
      BY <3>4 DEF Coercible, Raws
    <3>5. CASE k = "timeZone"
      BY <3>5 DEF Coercible
    <3>6. QED
      BY <3>1, <3>2, <3>3, <3>4, <3>5 DEF Keys
  <2>2. QED
    BY <2>1 DEF SettingValue, Coerce
<1>4. Overlay(rows) = [k \in Keys |-> Value(k)]
  BY DEF Overlay
<1> HIDE DEF Value
<1>5. QED
  BY <1>2, <1>3, <1>4 DEF Settings

-----------------------------------------------------------------------------
\* The stages run in order, and each has what it needs of the earlier ones.
InOrder ==
  /\ phase \notin {"received", "error"} => event # None
  /\ phase \notin {"received", "loading", "error"} => context # None
  /\ phase \in {"checking", "auditing", "cleared", "routing", "replied", "held"} => reply # NoReply
  /\ routing \in {"formatting", "sending"} => phase = "routing"
  /\ phase \in {"routing", "replied"} <=> routing \in {"formatting", "sending", "reported"}
  /\ routing = "refused" => phase = "error"
  /\ routing \notin {"sending", "reported"} => delivered = {} /\ failed = {}

\* Phase, input and findings have their types.
TurnOwnTypes ==
  /\ phase \in Phase
  /\ raw \in RawInput /\ session \in Session
  /\ event \in Event \cup {None}
  /\ signals \in Signals /\ findings \subseteq Rules

TurnTyped == TurnTypeOK /\ InOrder

\* What the API sends of a text is the head of it.
LEMMA SentIsHead ==
  ASSUME NEW t \in Text
  PROVE  /\ Sent(t) \in Text /\ Len(Sent(t)) \in Nat /\ Len(Sent(t)) <= Len(t)
         /\ \A i \in 1..Len(Sent(t)) : Sent(t)[i] = t[i]
<1>1. Len(t) \in Nat /\ MaxTokens \in Nat
  BY CallAssumption DEF Text
<1>2. CASE Len(t) <= MaxTokens
  BY <1>1, <1>2 DEF Sent, Text
<1>3. CASE ~ (Len(t) <= MaxTokens)
  BY <1>1, <1>3 DEF Sent, Text
<1>4. QED
  BY <1>2, <1>3

\* None and NoReply are no event and no text.
LEMMA NullsApart == NoReply \notin Text /\ None \notin Context
  BY CallAssumption, ContextAssumption

\* The initial states are typed.
LEMMA InitTyped == TurnInit => TurnTyped
<1> SUFFICES ASSUME TurnInit PROVE TurnTyped
  OBVIOUS
<1>1. TurnOwnTypes
  BY TurnAssumption DEF TurnInit, TurnOwnTypes, Phase
<1>2. LoadTypeOK
  BY DEF TurnInit, LoadInit, LoadTypeOK
<1>3. PromptTypeOK
  BY TurnAssumption DEF TurnInit, PromptInit, PromptTypeOK
<1>4. CallTypeOK /\ AuditTypeOK
  BY DEF TurnInit, CallInit, CallTypeOK, AuditInit, AuditTypeOK, Text
<1>5. RouterTypeOK
  <2>1. route \in Route
    BY DEF TurnInit, RouterInit, Route
  <2>2. DOMAIN route.recipients = {}
    BY DEF TurnInit, RouterInit
  <2>3. got \in [DOMAIN route.recipients -> Seq(Nat)]
    BY <2>2 DEF TurnInit, RouterInit
  <2>4. QED
    BY <2>1, <2>3 DEF TurnInit, RouterInit, RouterTypeOK, Text
<1>6. InOrder
  BY DEF TurnInit, RouterInit, InOrder
<1>7. QED
  BY <1>1, <1>2, <1>3, <1>4, <1>5, <1>6 DEF TurnTyped, TurnTypeOK, TurnOwnTypes

\* What a part of the state is typed by does not change when the part does not.
LEMMA OwnFrame ==
  TurnOwnTypes /\ phase' \in Phase /\ UNCHANGED <<turnVars, event, checkVars>> => TurnOwnTypes'
  BY DEF TurnOwnTypes, turnVars, checkVars

LEMMA TypedParts ==
  TurnTypeOK <=>
    /\ TurnOwnTypes /\ LoadTypeOK /\ PromptTypeOK /\ CallTypeOK /\ AuditTypeOK /\ RouterTypeOK
  BY DEF TurnTypeOK, TurnOwnTypes

\* The steps of classification, loading and assembly are typed.
LEMMA ClassifyTyped == TurnTyped /\ Classify => TurnTyped'
<1> SUFFICES ASSUME TurnTyped, Classify PROVE TurnTyped'
  OBVIOUS
<1>1. event' \in Event /\ phase' = "loading"
  BY ClassifiedIsEvent, TypedParts DEF Classify, TurnTyped, TurnOwnTypes
<1>2. TurnOwnTypes'
  BY <1>1, TypedParts DEF Classify, TurnTyped, TurnOwnTypes, Phase, turnVars, checkVars
<1>3. LoadTypeOK'
  BY TypedParts DEF Classify, TurnTyped, LoadTypeOK, StartFetches
<1>4. PromptTypeOK' /\ CallTypeOK' /\ AuditTypeOK' /\ RouterTypeOK'
  BY PromptFrame, CallFrame, AuditFrame, RouterFrame, TypedParts DEF Classify, TurnTyped
<1>5. InOrder'
  BY <1>1, ContextAssumption DEF Classify, TurnTyped, InOrder, StartFetches, routerVars, callVars
<1>6. QED
  BY <1>2, <1>3, <1>4, <1>5, TypedParts DEF TurnTyped, TurnTypeOK, TurnOwnTypes

LEMMA ClassificationFailsTyped == TurnTyped /\ ClassificationFails => TurnTyped'
<1> SUFFICES ASSUME TurnTyped, ClassificationFails PROVE TurnTyped'
  OBVIOUS
<1>1. TurnOwnTypes'
  BY OwnFrame, TypedParts DEF ClassificationFails, TurnTyped, Phase
<1>2. LoadTypeOK' /\ PromptTypeOK' /\ CallTypeOK' /\ AuditTypeOK' /\ RouterTypeOK'
  BY LoadFrame, PromptFrame, CallFrame, AuditFrame, RouterFrame, TypedParts
     DEF ClassificationFails, TurnTyped
<1>3. InOrder'
  BY DEF ClassificationFails, TurnTyped, InOrder, routerVars
<1>4. QED
  BY <1>1, <1>2, <1>3 DEF TurnTyped, TurnTypeOK, TurnOwnTypes

LEMMA FetchAnswersTyped == TurnTyped /\ FetchAnswers => TurnTyped'
<1> SUFFICES ASSUME TurnTyped, FetchAnswers PROVE TurnTyped'
  OBVIOUS
<1>1. TurnOwnTypes'
  BY OwnFrame, TypedParts DEF FetchAnswers, TurnTyped, TurnOwnTypes
<1>2. LoadTypeOK'
  <2>1. LoadTypeOK
    BY TypedParts DEF TurnTyped
  <2>2. CASE \E result \in {"ok", "failed"} : ProfileAnswers(result)
    BY <2>1, <2>2 DEF LoadTypeOK, ProfileAnswers, Fetch
  <2>3. CASE \E rows \in SettingsRows : SettingsRead(rows)
    <3>1. PICK rows \in SettingsRows : SettingsRead(rows)
      BY <2>3
    <3>2. settings' \in Settings
      BY <3>1, OverlaidIsSettings, TurnAssumption DEF SettingsRead
    <3>3. QED
      BY <2>1, <3>1, <3>2 DEF LoadTypeOK, SettingsRead, Fetch
  <2>4. CASE SettingsFail
    BY <2>1, <2>4 DEF LoadTypeOK, SettingsFail, Fetch
  <2>5. QED
    BY <2>2, <2>3, <2>4 DEF FetchAnswers
<1>3. PromptTypeOK' /\ CallTypeOK' /\ AuditTypeOK' /\ RouterTypeOK'
  BY PromptFrame, CallFrame, AuditFrame, RouterFrame, TypedParts DEF FetchAnswers, TurnTyped
<1>4. UNCHANGED context
  BY DEF FetchAnswers, ProfileAnswers, SettingsRead, SettingsFail
<1>5. InOrder'
  BY <1>4 DEF FetchAnswers, TurnTyped, InOrder, routerVars, callVars
<1>6. QED
  BY <1>1, <1>2, <1>3, <1>5 DEF TurnTyped, TurnTypeOK, TurnOwnTypes

LEMMA LoadTyped == TurnTyped /\ (Load \/ LoadError) => TurnTyped'
<1> SUFFICES ASSUME TurnTyped, Load \/ LoadError PROVE TurnTyped'
  OBVIOUS
<1>1. TurnOwnTypes'
  BY OwnFrame, TypedParts DEF Load, LoadError, TurnTyped, Phase
<1>2. LoadTypeOK /\ TurnOwnTypes /\ InOrder
  BY TypedParts DEF TurnTyped
<1>3. Load => context' \in Context
  BY <1>2, FilteredIsContext DEF Load, LoadContext, InOrder, TurnOwnTypes
<1>4. LoadTypeOK'
  BY <1>2, <1>3 DEF Load, LoadError, LoadContext, LoadFails, LoadTypeOK, loadVars
<1>5. PromptTypeOK' /\ CallTypeOK' /\ AuditTypeOK' /\ RouterTypeOK'
  BY PromptFrame, CallFrame, AuditFrame, RouterFrame, TypedParts DEF Load, LoadError, TurnTyped
<1>6. InOrder'
  BY <1>2, <1>3, ContextAssumption DEF Load, LoadError, InOrder, routerVars, callVars
<1>7. QED
  BY <1>1, <1>4, <1>5, <1>6 DEF TurnTyped, TurnTypeOK, TurnOwnTypes

LEMMA AssembleTyped == TurnTyped /\ (Trim \/ Assemble \/ AssembleFails) => TurnTyped'
<1> SUFFICES ASSUME TurnTyped, Trim \/ Assemble \/ AssembleFails PROVE TurnTyped'
  OBVIOUS
<1>1. PromptTypeOK /\ CallTypeOK /\ LoadTypeOK /\ TurnOwnTypes /\ InOrder
  BY TypedParts DEF TurnTyped
<1>2. phase = "assembling" /\ phase' \in {"assembling", "calling", "error"} /\ UNCHANGED <<event, loadVars>>
  BY <1>1 DEF Trim, Assemble, AssembleFails
<1>3. TurnOwnTypes'
  BY <1>1, <1>2, OwnFrame DEF Trim, Assemble, AssembleFails, Phase
<1>4. PromptTypeOK'
  <2>1. CASE Trim
    BY <1>1, <2>1 DEF Trim, TrimOldest, PromptTypeOK, History
  <2>2. CASE Assemble
    <3>1. [history |-> history, context |-> context, trimmed |-> trimmed] \in Prompt
      BY <1>1, <1>2 DEF InOrder, LoadTypeOK, PromptTypeOK, Prompt
    <3>2. QED
      BY <1>1, <2>2, <3>1 DEF Assemble, AssemblePrompt, PromptTypeOK
  <2>3. CASE AssembleFails
    BY <1>1, <2>3, PromptFrame DEF AssembleFails
  <2>4. QED
    BY <2>1, <2>2, <2>3
<1>5. CallTypeOK'
  <2>1. CASE UNCHANGED callVars
    BY <1>1, <2>1, CallFrame
  <2>2. CASE \E answered \in Answers : OpenStream(answered)
    BY <1>1, <2>2, TurnAssumption DEF OpenStream, CallTypeOK
  <2>3. CASE OpenFails
    BY <1>1, <2>3 DEF OpenFails, CallTypeOK
  <2>4. QED
    BY <2>1, <2>2, <2>3 DEF Trim, Assemble, AssembleFails
<1>6. LoadTypeOK' /\ AuditTypeOK' /\ RouterTypeOK'
  BY LoadFrame, AuditFrame, RouterFrame, TypedParts DEF Trim, Assemble, AssembleFails, TurnTyped
<1>7. InOrder'
  BY <1>1, <1>2 DEF Trim, Assemble, AssembleFails, InOrder, routerVars, loadVars
<1>8. QED
  BY <1>3, <1>4, <1>5, <1>6, <1>7 DEF TurnTyped, TurnTypeOK, TurnOwnTypes

\* The steps of the call and of the audits are typed.
LEMMA CallTyped == TurnTyped /\ (Delta \/ CallReturns \/ CallFails) => TurnTyped'
<1> SUFFICES ASSUME TurnTyped, Delta \/ CallReturns \/ CallFails PROVE TurnTyped'
  OBVIOUS
<1>1. CallTypeOK /\ TurnOwnTypes /\ InOrder
  BY TypedParts DEF TurnTyped
<1>2. CallTypeOK'
  <2>1. CASE Delta
    <3>1. Len(buffer) + 1 \in 1..Len(answer)
      BY <1>1, <2>1, SentIsHead DEF Delta, TextDelta, CallTypeOK, Text
    <3>2. answer[Len(buffer) + 1] \in Tokens
      BY <1>1, <3>1 DEF CallTypeOK, Text
    <3>3. buffer' \in Text
      BY <1>1, <2>1, <3>2 DEF Delta, TextDelta, CallTypeOK, Text
    <3>4. QED
      BY <1>1, <2>1, <3>3 DEF Delta, TextDelta, CallTypeOK
  <2>2. CASE CallReturns
    BY <1>1, <2>2 DEF CallReturns, FinalMessage, CallTypeOK
  <2>3. CASE CallFails
    BY <1>1, <2>3 DEF CallFails, StreamFails, TimeOut, CallTypeOK
  <2>4. QED
    BY <2>1, <2>2, <2>3
<1>3. TurnOwnTypes'
  BY <1>1, OwnFrame DEF Delta, CallReturns, CallFails, Phase, TurnOwnTypes
<1>4. LoadTypeOK' /\ PromptTypeOK' /\ AuditTypeOK' /\ RouterTypeOK'
  BY LoadFrame, PromptFrame, AuditFrame, RouterFrame, TypedParts
     DEF Delta, CallReturns, CallFails, TurnTyped
<1>5. InOrder'
  <2>1. CASE Delta
    BY <1>1, <2>1 DEF Delta, TextDelta, InOrder, routerVars, loadVars
  <2>2. CASE CallReturns
    BY <1>1, <2>2 DEF CallReturns, InOrder, routerVars, loadVars
  <2>3. CASE CallFails
    BY <1>1, <2>3 DEF CallFails, InOrder, routerVars
  <2>4. QED
    BY <2>1, <2>2, <2>3
<1>6. QED
  BY <1>2, <1>3, <1>4, <1>5 DEF TurnTyped, TurnTypeOK, TurnOwnTypes

\* An answer of the auditing model is read as a result or refused.
LEMMA ParsedIsVerdict ==
  ASSUME NEW a \in AuditAnswer PROVE ParseAuditResponse(a) \in AuditResult \cup {"invalid_json"}
  BY DEF AuditAnswer, ParseAuditResponse, AuditResult

LEMMA AuditTyped ==
  TurnTyped /\ (Check \/ AuditReturns \/ AuditFails \/ AuditIsLate) => TurnTyped'
<1> SUFFICES ASSUME TurnTyped, Check \/ AuditReturns \/ AuditFails \/ AuditIsLate PROVE TurnTyped'
  OBVIOUS
<1>1. AuditTypeOK /\ TurnOwnTypes /\ InOrder
  BY TypedParts DEF TurnTyped
<1>2. TurnOwnTypes'
  <2>1. CASE Check
    <3>1. findings' \subseteq Rules
      BY <2>1 DEF Check, RunPreflight
    <3>2. QED
      BY <1>1, <2>1, <3>1 DEF Check, TurnOwnTypes, turnVars, Phase
  <2>2. CASE AuditReturns
    BY <1>1, <2>2, OwnFrame DEF AuditReturns, Phase
  <2>3. CASE AuditFails \/ AuditIsLate
    BY <1>1, <2>3, OwnFrame DEF AuditFails, AuditIsLate, Phase, TurnOwnTypes
  <2>4. QED
    BY <2>1, <2>2, <2>3
<1>3. AuditTypeOK'
  <2>1. CASE Check
    BY <1>1, <2>1, AuditFrame DEF Check, StartAudit, AuditConfigFails, AuditTypeOK, AuditCause
  <2>2. CASE AuditReturns
    <3>1. PICK a \in AuditReplies : AuditAnswers(a)
      BY <2>2 DEF AuditReturns
    <3>2. verdict' \in AuditResult \cup {"invalid_json"}
      BY <3>1, ParsedIsVerdict, TurnAssumption DEF AuditAnswers
    <3>3. QED
      BY <3>1, <3>2 DEF AuditAnswers, AuditTypeOK, AuditCause
  <2>3. CASE AuditFails \/ AuditIsLate
    BY <1>1, <2>3
       DEF AuditFails, AuditIsLate, AuditRequestFails, AuditTimesOut, AuditAnswersLate,
           AuditTypeOK, AuditCause
  <2>4. QED
    BY <2>1, <2>2, <2>3
<1>4. LoadTypeOK' /\ PromptTypeOK' /\ CallTypeOK' /\ RouterTypeOK'
  BY LoadFrame, PromptFrame, CallFrame, RouterFrame, TypedParts
     DEF Check, AuditReturns, AuditFails, AuditIsLate, TurnTyped
<1>5. InOrder'
  <2>1. CASE Check
    BY <1>1, <2>1 DEF Check, InOrder, routerVars, loadVars, callVars
  <2>2. CASE AuditReturns
    BY <1>1, <2>2 DEF AuditReturns, InOrder, routerVars, loadVars, callVars
  <2>3. CASE AuditFails
    BY <1>1, <2>3 DEF AuditFails, InOrder, routerVars
  <2>4. CASE AuditIsLate
    BY <1>1, <2>4 DEF AuditIsLate, InOrder, routerVars, loadVars, callVars
  <2>5. QED
    BY <2>1, <2>2, <2>3, <2>4
<1>6. QED
  BY <1>2, <1>3, <1>4, <1>5 DEF TurnTyped, TurnTypeOK, TurnOwnTypes

\* The steps of the router are typed.
LEMMA RouteTyped == TurnTyped /\ RouteOutput => TurnTyped'
<1> SUFFICES ASSUME TurnTyped, RouteOutput PROVE TurnTyped'
  OBVIOUS
<1>1. CallTypeOK /\ RouterTypeOK /\ TurnOwnTypes /\ InOrder
  BY TypedParts DEF TurnTyped
<1>2. reply \in Text /\ delivered = {} /\ failed = {}
  BY <1>1 DEF RouteOutput, InOrder, CallTypeOK
<1>3. PICK r \in Routes :
        \/ RouteToSms(reply, r) /\ phase' = "routing"
        \/ RouteWhole(reply, r) /\ phase' = "routing"
        \/ RouteRefused(r) /\ phase' = "error"
  BY DEF RouteOutput
<1>4. r \in Route
  BY TurnAssumption
<1>5. /\ route' = r /\ got' = [k \in DOMAIN r.recipients |-> <<>>]
      /\ UNCHANGED <<who, next, delivered, failed>>
  BY <1>3 DEF RouteToSms, RouteWhole, RouteRefused, Accept
<1>6. got' \in [DOMAIN route'.recipients -> Seq(Nat)]
  BY <1>5
<1>7. RouterTypeOK'
  <2>1. CASE RouteToSms(reply, r)
    <3>1. text' \in Text /\ Len(text') \in Nat
      BY <1>2, <2>1, StripIsText DEF RouteToSms, Text
    <3>2. from' \in Nat /\ upto' \in Nat
      BY <2>1, <3>1 DEF RouteToSms
    <3>3. QED
      BY <1>1, <1>2, <1>4, <1>5, <1>6, <2>1, <3>1, <3>2 DEF RouteToSms, RouterTypeOK
  <2>2. CASE RouteWhole(reply, r)
    <3>1. parcels' \in Seq(Parcel)
      <4>1. Len(reply) \in Nat /\ PushLimit \in Nat
        BY <1>2, RouterAssumption DEF Text
      <4>2. CASE r.channel = "log"
        BY <2>2, <4>2 DEF RouteWhole
      <4>3. CASE r.channel # "log"
        <5>1. [first |-> 1, cut |-> FALSE,
               last |-> IF r.channel = "push" /\ PushLimit < Len(reply) THEN PushLimit
                        ELSE Len(reply)] \in Parcel
          BY <4>1 DEF Parcel
        <5>2. QED
          BY <2>2, <4>3, <5>1 DEF RouteWhole
      <4>4. QED
        BY <4>2, <4>3
    <3>2. QED
      BY <1>1, <1>2, <1>4, <1>5, <1>6, <2>2, <3>1 DEF RouteWhole, RouterTypeOK
  <2>3. CASE RouteRefused(r)
    BY <1>1, <1>2, <1>4, <1>5, <1>6, <2>3 DEF RouteRefused, RouterTypeOK, segmentVars
  <2>4. QED
    BY <1>3, <2>1, <2>2, <2>3
<1>8. TurnOwnTypes'
  BY <1>1, <1>3, OwnFrame DEF RouteOutput, Phase
<1>9. LoadTypeOK' /\ PromptTypeOK' /\ CallTypeOK' /\ AuditTypeOK'
  BY LoadFrame, PromptFrame, CallFrame, AuditFrame, TypedParts DEF RouteOutput, TurnTyped
<1>10. InOrder'
  <2>1. UNCHANGED <<event, context, reply>> /\ phase = "cleared"
    BY DEF RouteOutput, loadVars, callVars
  <2>2. QED
    BY <1>1, <1>2, <1>3, <1>5, <2>1 DEF InOrder, RouteToSms, RouteWhole, RouteRefused
<1>11. QED
  BY <1>7, <1>8, <1>9, <1>10 DEF TurnTyped, TurnTypeOK, TurnOwnTypes

LEMMA SegmentTyped ==
  ASSUME RouterTypeOK, NEW last \in Nat, NEW cut \in BOOLEAN, TakeSegment(last, cut)
  PROVE  RouterTypeOK'
<1>1. PICK l \in from..last : parcels' = Append(parcels, [first |-> from, last |-> l, cut |-> cut])
  BY DEF TakeSegment
<1>2. [first |-> from, last |-> l, cut |-> cut] \in Parcel
  BY <1>1 DEF RouterTypeOK, Parcel
<1>3. parcels' \in Seq(Parcel)
  BY <1>1, <1>2 DEF RouterTypeOK
<1>4. from' \in Nat
  BY DEF TakeSegment, RouterTypeOK
<1>5. QED
  BY <1>3, <1>4 DEF TakeSegment, RouterTypeOK, sendVars

LEMMA DeliveryTyped == TurnTyped /\ (Format \/ Deliver \/ Finish) => TurnTyped'
<1> SUFFICES ASSUME TurnTyped, Format \/ Deliver \/ Finish PROVE TurnTyped'
  OBVIOUS
<1>1. RouterTypeOK /\ TurnOwnTypes /\ InOrder /\ Limit \in Nat \ {0}
  BY TypedParts, RouterAssumption DEF TurnTyped
<1>2. RouterTypeOK'
  <2>1. CASE CutAtSentence
    <3>1. PICK b \in Boundaries : TakeSegment(b, FALSE)
      BY <2>1 DEF CutAtSentence
    <3>2. b \in Nat
      BY <1>1, <3>1 DEF Boundaries, RouterTypeOK
    <3>3. QED
      BY <1>1, <3>1, <3>2, SegmentTyped
  <2>2. CASE CutAtLimit
    <3>1. from + Limit - 1 \in Nat
      BY <1>1 DEF RouterTypeOK
    <3>2. QED
      BY <1>1, <2>2, <3>1, SegmentTyped DEF CutAtLimit
  <2>3. CASE TakeRest
    <3>1. from <= upto => [first |-> from, last |-> upto, cut |-> FALSE] \in Parcel
      BY <1>1 DEF RouterTypeOK, Parcel
    <3>2. parcels' \in Seq(Parcel)
      BY <1>1, <2>3, <3>1 DEF TakeRest, RouterTypeOK
    <3>3. QED
      BY <1>1, <2>3, <3>2 DEF TakeRest, RouterTypeOK, sendVars
  <2>4. CASE Send \/ SendFails
    <3>1. who \in DOMAIN route.recipients /\ got[who] \in Seq(Nat) /\ who + 1 \in Nat /\ next + 1 \in Nat
      BY <1>1, <2>4 DEF Send, SendFails, Sending, RouterTypeOK
    <3>2. Append(got[who], next) \in Seq(Nat)
      BY <1>1, <3>1 DEF RouterTypeOK
    <3>3. [got EXCEPT ![who] = Append(@, next)] \in [DOMAIN route.recipients -> Seq(Nat)]
      BY <1>1, <3>2 DEF RouterTypeOK
    <3>4. got' \in [DOMAIN route.recipients -> Seq(Nat)] /\ who' \in Nat /\ next' \in Nat
      <4>1. got' = got \/ got' = [got EXCEPT ![who] = Append(@, next)]
        BY <2>4 DEF Send, SendFails
      <4>2. got \in [DOMAIN route.recipients -> Seq(Nat)] /\ who \in Nat /\ next \in Nat
        BY <1>1 DEF RouterTypeOK
      <4>3. who' \in {who, who + 1} /\ next' \in {1, next + 1}
        BY <2>4 DEF Send, SendFails, NextRecipient
      <4>4. got' \in [DOMAIN route.recipients -> Seq(Nat)]
        BY <3>3, <4>1, <4>2, Zenon
      <4>5. QED
        BY <3>1, <4>2, <4>3, <4>4
    <3>5. delivered' \subseteq DOMAIN route.recipients /\ failed' \subseteq DOMAIN route.recipients
      BY <1>1, <2>4, <3>1 DEF Send, SendFails, RouterTypeOK
    <3>6. UNCHANGED <<routing, route, text, from, upto, parcels>>
      BY <2>4 DEF Send, SendFails, segmentVars
    <3>7. QED
      BY <1>1, <3>4, <3>5, <3>6 DEF RouterTypeOK
  <2>5. CASE NothingToSend
    BY <1>1, <2>5 DEF NothingToSend, Sending, NextRecipient, RouterTypeOK, segmentVars
  <2>6. CASE Finish
    BY <1>1, <2>6 DEF Finish, Report, RouterTypeOK, segmentVars, sendVars
  <2>7. QED
    BY <2>1, <2>2, <2>3, <2>4, <2>5, <2>6 DEF Format, Deliver
<1>3. TurnOwnTypes'
  BY <1>1, OwnFrame DEF Format, Deliver, Finish, Phase, TurnOwnTypes
<1>4. LoadTypeOK' /\ PromptTypeOK' /\ CallTypeOK' /\ AuditTypeOK'
  BY LoadFrame, PromptFrame, CallFrame, AuditFrame, TypedParts DEF Format, Deliver, Finish, TurnTyped
<1>5. InOrder'
  <2>1. UNCHANGED <<event, context, reply>>
    BY DEF Format, Deliver, Finish, loadVars, callVars
  <2>2. CASE Format
    BY <1>1, <2>1, <2>2
       DEF Format, CutAtSentence, CutAtLimit, TakeSegment, TakeRest, InOrder, sendVars
  <2>3. CASE Deliver
    BY <1>1, <2>1, <2>3
       DEF Deliver, Send, SendFails, NothingToSend, Sending, InOrder
  <2>4. CASE Finish
    BY <1>1, <2>1, <2>4 DEF Finish, Report, InOrder, sendVars
  <2>5. QED
    BY <2>2, <2>3, <2>4
<1>6. QED
  BY <1>2, <1>3, <1>4, <1>5 DEF TurnTyped, TurnTypeOK, TurnOwnTypes

\* Every step is typed.
LEMMA StepTyped == TurnTyped /\ [TurnNext]_vars => TurnTyped'
<1> SUFFICES ASSUME TurnTyped, [TurnNext]_vars PROVE TurnTyped'
  OBVIOUS
<1>1. CASE UNCHANGED vars
  <2>1. TurnOwnTypes'
    BY <1>1, TypedParts, OwnFrame DEF vars, TurnTyped, TurnOwnTypes
  <2>2. LoadTypeOK' /\ PromptTypeOK' /\ CallTypeOK' /\ AuditTypeOK' /\ RouterTypeOK'
    BY <1>1, LoadFrame, PromptFrame, CallFrame, AuditFrame, RouterFrame, TypedParts
       DEF vars, TurnTyped
  <2>3. InOrder'
    BY <1>1 DEF vars, TurnTyped, InOrder, routerVars, loadVars, callVars
  <2>4. QED
    BY <2>1, <2>2, <2>3 DEF TurnTyped, TurnTypeOK, TurnOwnTypes
<1>2. CASE TurnNext
  BY <1>2, ClassifyTyped, ClassificationFailsTyped, FetchAnswersTyped, LoadTyped, AssembleTyped,
     CallTyped, AuditTyped, RouteTyped, DeliveryTyped DEF TurnNext
<1>3. QED
  BY <1>1, <1>2

\* Every state of a turn is typed, and its stages have run in order.
THEOREM TurnAlwaysTyped == TurnSafety => []TurnTyped
  BY InitTyped, StepTyped, PTL DEF TurnSafety

\* The state of every turn has its type, for every input, session and answer.
THEOREM TurnIsTyped == TurnSafety => []TurnTypeOK
<1>1. TurnTyped => TurnTypeOK
  BY DEF TurnTyped
<1>2. QED
  BY <1>1, TurnAlwaysTyped, PTL

-----------------------------------------------------------------------------
(* The reply is the whole of its stream.                                   *)

\* The buffer is a head of what the API sends, and the call, its stream and its
\* timer are in step.
CallInStep ==
  /\ Len(buffer) <= Len(Sent(answer))
  /\ \A i \in 1..Len(buffer) : buffer[i] = answer[i]
  /\ phase \in {"received", "loading", "assembling"} =>
       stream = "none" /\ buffer = <<>> /\ timer = "unset"
  /\ stream = "open" <=> phase = "calling"
  /\ timer = "set" <=> stream = "open"
  /\ stream \in {"none", "open"} => reply = NoReply
  /\ phase \in {"received", "loading", "assembling", "calling"} => callError = "none"
  /\ reply # NoReply => reply = Sent(answer) /\ stream = "ended" /\ timer = "cleared"
  /\ callError # "none" => reply = NoReply /\ phase = "error"

\* Steps of the other stages keep it: a turn that has failed stays failed, and
\* only the call enters or leaves its phase.
LEMMA CallFrameInStep ==
  ASSUME CallInStep, UNCHANGED callVars,
         phase = "error" => phase' = "error",
         phase' \in {"received", "loading", "assembling"} =>
           phase \in {"received", "loading", "assembling"},
         phase = "calling" <=> phase' = "calling"
  PROVE  CallInStep'
  BY DEF CallInStep, callVars

LEMMA StepKeepsCall == TurnTyped /\ CallInStep /\ [TurnNext]_vars => CallInStep'
<1> SUFFICES ASSUME TurnTyped, CallInStep, [TurnNext]_vars PROVE CallInStep'
  OBVIOUS
<1>1. CallTypeOK /\ InOrder
  BY TypedParts DEF TurnTyped
<1>2. /\ answer \in Text /\ buffer \in Text /\ Len(buffer) \in Nat
      /\ Sent(answer) \in Text /\ Len(Sent(answer)) \in Nat
      /\ \A i \in 1..Len(Sent(answer)) : Sent(answer)[i] = answer[i]
  BY <1>1, SentIsHead DEF CallTypeOK, Text
<1>3. CASE Classify \/ ClassificationFails \/ FetchAnswers \/ Load \/ LoadError \/ Trim \/ AssembleFails
  BY <1>3, CallFrameInStep
     DEF Classify, ClassificationFails, FetchAnswers, Load, LoadError, Trim, AssembleFails
<1>4. CASE Assemble
  <2>1. CASE \E answered \in Answers : OpenStream(answered) /\ phase' = "calling"
    <3>1. PICK answered \in Answers : OpenStream(answered) /\ phase' = "calling"
      BY <2>1
    <3>2. answered \in Text /\ Len(Sent(answered)) \in Nat
      BY TurnAssumption, SentIsHead
    <3>3. buffer' = <<>> /\ Len(buffer') = 0 /\ phase = "assembling"
      BY <1>4, <3>1 DEF Assemble, OpenStream, CallInStep
    <3>4. QED
      BY <3>1, <3>2, <3>3 DEF OpenStream, CallInStep
  <2>2. CASE OpenFails /\ phase' = "error"
    BY <1>4, <2>2 DEF Assemble, OpenFails, CallInStep
  <2>3. QED
    BY <1>4, <2>1, <2>2 DEF Assemble
<1>5. CASE Delta
  <2>1. Len(buffer) + 1 <= Len(Sent(answer)) /\ answer[Len(buffer) + 1] \in Tokens
    BY <1>1, <1>2, <1>5, SentIsHead DEF Delta, TextDelta, Text
  <2>2. /\ Len(buffer') = Len(buffer) + 1
        /\ \A i \in 1..Len(buffer) : buffer'[i] = buffer[i]
        /\ buffer'[Len(buffer) + 1] = answer[Len(buffer) + 1]
    BY <1>2, <1>5, <2>1 DEF Delta, TextDelta, Text
  <2>3. \A i \in 1..Len(buffer') : buffer'[i] = answer[i]
    BY <1>2, <2>2 DEF CallInStep
  <2>4. phase \notin {"received", "loading", "assembling"}
    BY <1>5 DEF Delta, TextDelta, CallInStep
  <2>5. QED
    BY <1>5, <2>1, <2>2, <2>3, <2>4 DEF Delta, TextDelta, CallInStep
<1>6. CASE CallReturns
  <2>1. Len(buffer) = Len(Sent(answer))
    BY <1>6 DEF CallReturns, FinalMessage
  <2>2. buffer = Sent(answer)
    <3>1. \A i \in 1..Len(buffer) : buffer[i] = Sent(answer)[i]
      BY <1>2, <2>1 DEF CallInStep
    <3> HIDE DEF Sent
    <3>2. QED
      BY <1>2, <2>1, <3>1 DEF Text
  <2>3. reply = NoReply /\ buffer # NoReply
    BY <1>2, <1>6, NullsApart DEF CallReturns, FinalMessage, CallInStep
  <2>4. QED
    BY <1>6, <2>2, <2>3 DEF CallReturns, FinalMessage, CallInStep
<1>7. CASE CallFails
  BY <1>7 DEF CallFails, StreamFails, TimeOut, CallInStep
<1>8. CASE Check \/ AuditReturns \/ AuditFails \/ AuditIsLate \/ RouteOutput
  <2>1. phase' \notin {"received", "loading", "assembling", "calling"} \/ phase' = phase
    BY <1>8 DEF Check, AuditReturns, AuditFails, AuditIsLate, RouteOutput
  <2>2. phase \notin {"error", "calling"} \/ phase' = phase
    BY <1>8 DEF Check, AuditReturns, AuditFails, AuditIsLate, RouteOutput
  <2>3. UNCHANGED callVars
    BY <1>8 DEF Check, AuditReturns, AuditFails, AuditIsLate, RouteOutput
  <2>4. QED
    BY <2>1, <2>2, <2>3, CallFrameInStep
<1>9. CASE Format \/ Deliver \/ Finish
  BY <1>1, <1>9, CallFrameInStep DEF Format, Deliver, Finish, Report, InOrder
<1>10. CASE UNCHANGED vars
  BY <1>10, CallFrameInStep DEF vars
<1>11. QED
  BY <1>3, <1>4, <1>5, <1>6, <1>7, <1>8, <1>9, <1>10 DEF TurnNext

LEMMA InitCallInStep == TurnInit => CallInStep
<1> SUFFICES ASSUME TurnInit PROVE CallInStep
  OBVIOUS
<1>1. buffer = <<>> /\ answer \in Text
  BY DEF TurnInit, CallInit, Text
<1>2. Len(buffer) = 0 /\ Len(Sent(answer)) \in Nat
  BY <1>1, SentIsHead
<1>3. QED
  BY <1>2 DEF TurnInit, CallInit, CallInStep

\* The reply of every call is all that the API sent, its timer is cleared, and a
\* call that failed has none: for every answer and every interleaving of deltas,
\* end, failure and timeout.
THEOREM RepliesAreWhole == TurnSafety => []ReplyIsWholeStream
<1>1. CallInStep => ReplyIsWholeStream
  BY DEF CallInStep, ReplyIsWholeStream, CallSettled
<1>2. QED
  BY <1>1, InitCallInStep, StepKeepsCall, TurnAlwaysTyped, PTL DEF TurnSafety

-----------------------------------------------------------------------------
(* No open safety flag goes past the audits.                               *)

OpenSafety == (session.flags \cap SafetyFlags) \ session.acked

\* The context holds every open safety flag, the prompt has the context, and a
\* reply that is let through went through its audits.
SafetyInStep ==
  /\ context # None => OpenSafety \subseteq context.flags
  /\ phase \in {"received", "loading", "assembling"} => prompt = None
  /\ prompt # None => context # None /\ prompt.context = context
  /\ phase \in {"cleared", "routing", "replied"} =>
       \/ OpenSafety = {} /\ event.type = "user_message" /\ PreflightPass(findings)
       \/ verdict = "pass" /\ request = "answered" /\ ~ Held

\* The filter of the context drops no open safety flag, whatever the event.
LEMMA FilterKeepsSafety ==
  ASSUME NEW e, NEW s
  PROVE  (s.flags \cap SafetyFlags) \ s.acked \subseteq FilterContextForEvent(e, s).flags
  BY DEF FilterContextForEvent

LEMMA StepKeepsSafety == TurnTyped /\ SafetyInStep /\ [TurnNext]_vars => SafetyInStep'
<1> SUFFICES ASSUME TurnTyped, SafetyInStep, [TurnNext]_vars PROVE SafetyInStep'
  OBVIOUS
<1>1. InOrder /\ PromptTypeOK
  BY TypedParts DEF TurnTyped
<1>2. OpenSafety' = OpenSafety
  BY DEF TurnNext, Classify, ClassificationFails, FetchAnswers, Load, LoadError, Trim, Assemble,
         AssembleFails, Delta, CallReturns, CallFails, Check, AuditReturns, AuditFails,
         AuditIsLate, RouteOutput, Format, Deliver, Finish, OpenSafety, turnVars, vars
<1>3. CASE Classify \/ ClassificationFails \/ FetchAnswers \/ LoadError \/ Trim \/ AssembleFails
  <2>1. Classify \/ ClassificationFails => UNCHANGED <<context, prompt>>
    BY DEF Classify, ClassificationFails, StartFetches, loadVars, promptVars
  <2>2. FetchAnswers => UNCHANGED <<context, prompt>>
    BY DEF FetchAnswers, ProfileAnswers, SettingsRead, SettingsFail, loadVars, promptVars
  <2>3. LoadError \/ Trim \/ AssembleFails => UNCHANGED <<context, prompt>>
    BY DEF LoadError, LoadFails, Trim, TrimOldest, AssembleFails, loadVars, promptVars
  <2>4. UNCHANGED <<context, prompt>>
    BY <1>3, <2>1, <2>2, <2>3
  <2>5. CASE FetchAnswers
    BY <1>2, <2>4, <2>5 DEF FetchAnswers, SafetyInStep, Held, checkVars, auditVars
  <2>6. CASE ~ FetchAnswers
    <3>1. phase' \in {"loading", "assembling", "error"} /\ (phase' # "error" => phase \in {"received", "loading", "assembling"})
      BY <1>3, <2>6 DEF Classify, ClassificationFails, LoadError, Trim, AssembleFails
    <3>2. QED
      BY <1>2, <2>4, <3>1 DEF SafetyInStep
  <2>7. QED
    BY <2>5, <2>6
<1>4. CASE Load
  <2>1. OpenSafety \subseteq context'.flags
    BY <1>4, FilterKeepsSafety DEF Load, LoadContext, OpenSafety
  <2>2. QED
    BY <1>2, <1>4, <2>1 DEF Load, SafetyInStep, promptVars
<1>5. CASE Assemble
  <2>1. context # None /\ UNCHANGED context /\ prompt'.context = context
    BY <1>1, <1>5 DEF Assemble, AssemblePrompt, InOrder, loadVars
  <2>2. phase' \in {"calling", "error"}
    BY <1>5 DEF Assemble
  <2>3. QED
    BY <1>2, <2>1, <2>2 DEF SafetyInStep
<1>6. CASE Delta \/ CallReturns \/ CallFails
  <2>1. UNCHANGED <<context, prompt, findings, event, verdict, request>>
    BY <1>6 DEF Delta, CallReturns, CallFails, loadVars, promptVars, checkVars, auditVars
  <2>2. phase' = phase \/ phase' \in {"checking", "error"}
    BY <1>6 DEF Delta, CallReturns, CallFails
  <2>3. QED
    BY <1>2, <2>1, <2>2 DEF SafetyInStep, Held
<1>7. CASE Check
  <2>1. UNCHANGED <<context, prompt, event>> /\ context # None
    BY <1>1, <1>7 DEF Check, InOrder, loadVars, promptVars
  <2>2. phase' \in {"cleared", "auditing", "error"}
    BY <1>7 DEF Check
  <2>3. phase' = "cleared" =>
          OpenSafety = {} /\ event.type = "user_message" /\ PreflightPass(findings')
    BY <1>7, <2>1 DEF Check, ShouldRunModelAudit, UnackedSafety, SafetyInStep, OpenSafety
  <2>4. QED
    BY <1>2, <2>1, <2>2, <2>3 DEF SafetyInStep
<1>8. CASE AuditReturns
  <2>1. UNCHANGED <<context, prompt, findings>>
    BY <1>8 DEF AuditReturns, loadVars, promptVars, checkVars
  <2>2. phase' \in {"error", "cleared", "held"} /\ request' = "answered"
    BY <1>8 DEF AuditReturns, AuditAnswers
  <2>3. phase' = "cleared" => verdict' = "pass" /\ ~ Held
    BY <1>8 DEF AuditReturns
  <2>4. QED
    BY <1>2, <2>1, <2>2, <2>3 DEF SafetyInStep, Held
<1>9. CASE AuditFails
  BY <1>2, <1>9 DEF AuditFails, SafetyInStep, loadVars, promptVars
<1>10. CASE AuditIsLate
  BY <1>2, <1>10 DEF AuditIsLate, AuditAnswersLate, SafetyInStep, Held, loadVars, promptVars, checkVars
<1>11. CASE RouteOutput \/ Format \/ Deliver \/ Finish
  <2>1. UNCHANGED <<context, prompt, findings, event, verdict, request>>
    BY <1>11 DEF RouteOutput, Format, Deliver, Finish, loadVars, promptVars, checkVars, auditVars
  <2>2. phase' = phase \/ phase' = "error" \/ (phase \in {"cleared", "routing"} /\ phase' \in {"routing", "replied"})
    BY <1>1, <1>11 DEF RouteOutput, Format, Deliver, Finish, Report, InOrder
  <2>3. QED
    BY <1>2, <2>1, <2>2 DEF SafetyInStep, Held
<1>12. CASE UNCHANGED vars
  BY <1>2, <1>12 DEF vars, SafetyInStep, Held, loadVars, promptVars, checkVars, auditVars
<1>13. QED
  BY <1>3, <1>4, <1>5, <1>6, <1>7, <1>8, <1>9, <1>10, <1>11, <1>12 DEF TurnNext

\* Every open safety flag is in the prompt, and no reply beside one, or with a
\* finding against it, goes out without the verdict of the second audit: for all
\* events, sessions, wordings and answers of either model.
THEOREM SafetyNeverSkipped == TurnSafety => []SafetyIsNeverSkipped
<1>1. TurnInit => SafetyInStep
  BY DEF TurnInit, LoadInit, PromptInit, SafetyInStep
<1>2. SafetyInStep => SafetyIsNeverSkipped
  BY DEF SafetyInStep, SafetyIsNeverSkipped, OpenSafety
<1>3. QED
  BY <1>1, <1>2, StepKeepsSafety, TurnAlwaysTyped, PTL DEF TurnSafety

-----------------------------------------------------------------------------
(* What a route reports.                                                   *)

\* Only routing moves the state of the router.
LEMMA RouterMoves ==
  [TurnNext]_vars => UNCHANGED routerVars \/ RouteOutput \/ Format \/ Deliver \/ Finish
  BY DEF TurnNext, Classify, ClassificationFails, FetchAnswers, Load, LoadError, Trim, Assemble,
         AssembleFails, Delta, CallReturns, CallFails, Check, AuditReturns, AuditFails,
         AuditIsLate, vars

LEMMA RecipientsNumbered ==
  ASSUME RouterTypeOK
  PROVE  /\ Len(route.recipients) \in Nat /\ DOMAIN got = 1..Len(route.recipients)
         /\ \A k \in DOMAIN got : got[k] \in Seq(Nat)
<1>1. route.recipients \in Seq(Recipients)
  BY DEF RouterTypeOK, Route
<1>2. QED
  BY <1>1 DEF RouterTypeOK

\* Recipients before `who` are done with; the one at `who` has the parcels before
\* `next`; the others have nothing.
ReportInStep ==
  /\ routing \notin {"sending", "reported"} =>
       who = 1 /\ next = 1 /\ \A k \in DOMAIN got : got[k] = <<>>
  /\ who \in 1..(Len(route.recipients) + 1)
  /\ delivered \cap failed = {}
  /\ delivered \cup failed = {k \in DOMAIN got : k < who}
  /\ \A k \in DOMAIN got : Len(got[k]) <= Len(parcels) /\ \A i \in 1..Len(got[k]) : got[k][i] = i
  /\ \A k \in DOMAIN got : k > who => got[k] = <<>>
  /\ who \in DOMAIN got => Len(got[who]) = next - 1
  /\ \A k \in delivered : Len(got[k]) = Len(parcels)
  /\ routing = "reported" => who = Len(route.recipients) + 1

LEMMA SendReports ==
  ASSUME RouterTypeOK, ReportInStep, Send \/ SendFails
  PROVE  ReportInStep'
<1>1. /\ Len(route.recipients) \in Nat /\ DOMAIN got = 1..Len(route.recipients)
      /\ \A k \in DOMAIN got : got[k] \in Seq(Nat)
  BY RecipientsNumbered
<1>2. /\ routing = "sending" /\ who \in DOMAIN got /\ next \in 1..Len(parcels)
      /\ Len(parcels) \in Nat /\ UNCHANGED <<routing, route, parcels>>
  BY <1>1 DEF Send, SendFails, Sending, RouterTypeOK, segmentVars
<1>3. got[who] \in Seq(Nat) /\ Len(got[who]) = next - 1 /\ \A i \in 1..(next - 1) : got[who][i] = i
  BY <1>1, <1>2 DEF ReportInStep
<1> DEFINE More == Append(got[who], next)
<1>4. Len(More) = next /\ \A i \in 1..next : More[i] = i
  BY <1>2, <1>3
<1>5. DOMAIN got' = DOMAIN got /\ \A k \in DOMAIN got : k # who => got'[k] = got[k]
  BY <1>1, <1>2 DEF Send, SendFails
<1>6. Send => got'[who] = More
  BY <1>2 DEF Send
<1>7. SendFails => got'[who] \in {got[who], More}
  BY <1>2 DEF SendFails
<1> HIDE DEF More
<1>8. Len(got'[who]) <= Len(parcels) /\ \A i \in 1..Len(got'[who]) : got'[who][i] = i
  BY <1>2, <1>3, <1>4, <1>6, <1>7
<1>9. who' \in {who, who + 1} /\ (who' = who => Send /\ next' = next + 1)
                              /\ (who' = who + 1 => next' = 1)
  BY <1>1, <1>2 DEF Send, SendFails, NextRecipient
<1>10. /\ who' = who => UNCHANGED <<delivered, failed>>
       /\ who' = who + 1 => \/ SendFails /\ UNCHANGED delivered /\ failed' = failed \cup {who}
                            \/ Send /\ next = Len(parcels) /\ UNCHANGED failed
                               /\ delivered' = delivered \cup {who}
  BY <1>1, <1>2 DEF Send, SendFails, NextRecipient
<1>11. who \notin delivered \cup failed /\ delivered \cup failed \subseteq DOMAIN got
  BY <1>1, <1>2 DEF ReportInStep
<1>12. delivered' \cap failed' = {} /\ delivered' \cup failed' = {k \in DOMAIN got' : k < who'}
  BY <1>1, <1>2, <1>5, <1>9, <1>10, <1>11 DEF ReportInStep
<1>13. \A k \in DOMAIN got' :
         Len(got'[k]) <= Len(parcels') /\ \A i \in 1..Len(got'[k]) : got'[k][i] = i
  BY <1>2, <1>5, <1>8 DEF ReportInStep
<1>14. \A k \in DOMAIN got' : k > who' => got'[k] = <<>>
  BY <1>1, <1>2, <1>5, <1>9 DEF ReportInStep
<1>15. who' \in DOMAIN got' => Len(got'[who']) = next' - 1
  <2>1. CASE who' = who
    BY <1>2, <1>4, <1>6, <1>9, <2>1
  <2>2. CASE who' = who + 1 /\ who' \in DOMAIN got'
    <3>1. got'[who'] = <<>> /\ next' = 1
      BY <1>1, <1>2, <1>5, <1>9, <2>2 DEF ReportInStep
    <3>2. QED
      BY <3>1
  <2>3. QED
    BY <1>9, <2>1, <2>2
<1>16. \A k \in delivered' : Len(got'[k]) = Len(parcels')
  <2>1. \A k \in delivered : got'[k] = got[k] /\ Len(got[k]) = Len(parcels)
    BY <1>5, <1>11 DEF ReportInStep
  <2>2. Send /\ next = Len(parcels) => Len(got'[who]) = Len(parcels)
    BY <1>4, <1>6
  <2>3. QED
    BY <1>2, <1>9, <1>10, <2>1, <2>2
<1>17. who' \in 1..(Len(route'.recipients) + 1)
  BY <1>1, <1>2, <1>9
<1>18. QED
  BY <1>2, <1>12, <1>13, <1>14, <1>15, <1>16, <1>17 DEF ReportInStep

LEMMA StepKeepsReport == TurnTyped /\ ReportInStep /\ [TurnNext]_vars => ReportInStep'
<1> SUFFICES ASSUME TurnTyped, ReportInStep, [TurnNext]_vars PROVE ReportInStep'
  OBVIOUS
<1>1. RouterTypeOK /\ InOrder
  BY TypedParts DEF TurnTyped
<1>3. RouterTypeOK'
  BY StepTyped DEF TurnTyped, TurnTypeOK
<1>2. Len(route.recipients) \in Nat /\ DOMAIN got = 1..Len(route.recipients)
  BY <1>1, RecipientsNumbered
<1>4. CASE UNCHANGED routerVars
  BY <1>4 DEF ReportInStep, routerVars
<1>5. CASE RouteOutput
  <2>1. PICK r \in Routes : RouteToSms(reply, r) \/ RouteWhole(reply, r) \/ RouteRefused(r)
    BY <1>5 DEF RouteOutput
  <2>2. /\ route' = r /\ got' = [k \in DOMAIN r.recipients |-> <<>>]
        /\ UNCHANGED <<who, next, delivered, failed>>
        /\ routing' \in {"formatting", "sending", "refused"}
    BY <2>1 DEF RouteToSms, RouteWhole, RouteRefused, Accept
  <2>3. r.recipients \in Seq(Recipients)
    BY TurnAssumption DEF Route
  <2>4. who = 1 /\ next = 1 /\ delivered = {} /\ failed = {}
    BY <1>1, <1>5 DEF RouteOutput, InOrder, ReportInStep
  <2>5. Len(r.recipients) \in Nat /\ DOMAIN got' = 1..Len(r.recipients)
        /\ \A k \in DOMAIN got' : got'[k] = <<>>
    BY <2>2, <2>3
  <2>6. parcels' \in Seq(Parcel)
    BY <1>3 DEF RouterTypeOK
  <2>7. \A k \in DOMAIN got' : Len(got'[k]) = 0 /\ Len(got'[k]) <= Len(parcels')
    BY <2>5, <2>6
  <2>8. QED
    BY <2>2, <2>4, <2>5, <2>7 DEF ReportInStep
<1>6. CASE Format
  <2>1. routing = "formatting" /\ UNCHANGED <<route, who, next, got, delivered, failed>>
        /\ routing' \in {"formatting", "sending"}
    BY <1>6 DEF Format, CutAtSentence, CutAtLimit, TakeSegment, TakeRest, sendVars
  <2>2. \A k \in DOMAIN got : got[k] = <<>>
    BY <2>1 DEF ReportInStep
  <2>3. who = 1 /\ next = 1 /\ delivered = {} /\ failed = {}
    BY <1>1, <2>1 DEF ReportInStep, InOrder
  <2>4. parcels' \in Seq(Parcel)
    BY <1>3 DEF RouterTypeOK
  <2>5. \A k \in DOMAIN got' : Len(got'[k]) = 0 /\ Len(got'[k]) <= Len(parcels')
    BY <2>1, <2>2, <2>4
  <2>6. QED
    BY <1>2, <2>1, <2>2, <2>3, <2>5 DEF ReportInStep
<1>7. CASE Send \/ SendFails
  BY <1>1, <1>7, SendReports
<1>8. CASE NothingToSend
  <2>1. /\ routing = "sending" /\ who \in DOMAIN got /\ parcels = <<>>
        /\ who' = who + 1 /\ next' = 1 /\ delivered' = delivered \cup {who}
        /\ UNCHANGED <<routing, route, parcels, got, failed>>
    BY <1>1, <1>8 DEF NothingToSend, Sending, NextRecipient, RouterTypeOK, segmentVars
  <2>2. \A k \in DOMAIN got : got[k] \in Seq(Nat) /\ Len(got[k]) = 0
    BY <1>1, <2>1, RecipientsNumbered DEF ReportInStep
  <2>3. who \notin failed
    BY <1>2, <2>1 DEF ReportInStep
  <2>4. QED
    BY <1>2, <2>1, <2>2, <2>3 DEF ReportInStep
<1>9. CASE Finish
  <2>1. /\ routing = "sending" /\ who \notin DOMAIN got /\ routing' = "reported"
        /\ UNCHANGED <<route, parcels, who, next, got, delivered, failed>>
    BY <1>1, <1>9 DEF Finish, Report, RouterTypeOK, segmentVars, sendVars
  <2>2. QED
    BY <1>2, <2>1 DEF ReportInStep
<1>10. QED
  BY <1>4, <1>5, <1>6, <1>7, <1>8, <1>9, RouterMoves DEF Deliver

\* The result of a route is true of what has reached each recipient: for any
\* number of recipients and parcels, and wherever a send fails.
THEOREM ReportsAreTrue == TurnSafety => []ReportIsTrue
<1>1. TurnInit => ReportInStep
  BY DEF TurnInit, RouterInit, ReportInStep
<1>2. TurnTyped /\ ReportInStep => ReportIsTrue
  <2> SUFFICES ASSUME TurnTyped, ReportInStep PROVE ReportIsTrue
    OBVIOUS
  <2>1. RouterTypeOK
    BY TypedParts DEF TurnTyped
  <2>2. /\ Len(route.recipients) \in Nat /\ DOMAIN got = 1..Len(route.recipients)
        /\ DOMAIN got = DOMAIN route.recipients
        /\ \A k \in DOMAIN got : got[k] \in Seq(Nat)
    BY <2>1, RecipientsNumbered DEF RouterTypeOK
  <2>3. ASSUME NEW k \in DOMAIN got PROVE got[k] = [i \in 1..Len(got[k]) |-> i]
    <3> DEFINE g == got[k]
    <3>1. g \in Seq(Nat) /\ \A i \in 1..Len(g) : g[i] = i
      BY <2>2, <2>3 DEF ReportInStep
    <3> HIDE DEF g
    <3>2. g = [i \in 1..Len(g) |-> i]
      BY <3>1
    <3>3. QED
      BY <3>2 DEF g
  <2>4. routing = "reported" => delivered \cup failed = DOMAIN route.recipients
    BY <2>2 DEF ReportInStep
  <2>5. QED
    BY <2>2, <2>3, <2>4 DEF ReportInStep, ReportIsTrue, Success
<1>3. QED
  BY <1>1, <1>2, StepKeepsReport, TurnAlwaysTyped, PTL DEF TurnSafety

-----------------------------------------------------------------------------
(* Cutting an SMS loses nothing.                                           *)

\* The segments so far and what remains are apart, in order, within the text and
\* hold all its words; what remains begins and ends with a word.
Carried ==
  /\ \A p \in DOMAIN text :
       Word(p) => (from <= p /\ p <= upto) \/ \E k \in DOMAIN parcels :
                     parcels[k].first <= p /\ p <= parcels[k].last
  /\ \A k \in DOMAIN parcels :
       /\ Word(parcels[k].first) /\ Word(parcels[k].last)
       /\ parcels[k].last < from
       /\ Size(parcels[k]) <= Limit + (IF parcels[k].cut THEN 1 ELSE 0)
       /\ \A l \in DOMAIN parcels : k < l => parcels[k].last < parcels[l].first

SegmentsInStep ==
  /\ routing \notin {"formatting", "sending", "reported"} => parcels = <<>>
  /\ routing \in {"formatting", "sending", "reported"} /\ route.channel = "sms" => Carried
  /\ routing = "formatting" =>
       /\ route.channel = "sms"
       /\ 1 <= from /\ from <= upto + 1 /\ upto <= Len(text)
       /\ from <= upto => Word(from) /\ Word(upto)

\* Carried passes to a longer list of segments: what is left of the remaining text
\* and the segment taken from its front hold between them all that it held.
LEMMA CarriedOn ==
  ASSUME RouterTypeOK, Carried, NEW l \in Nat, NEW cut \in BOOLEAN, UNCHANGED <<text, upto>>,
         parcels' = Append(parcels, [first |-> from, last |-> l, cut |-> cut]),
         Word(from), Word(l), from <= l, l < from', from' \in Nat,
         l - from + 1 <= Limit, Limit \in Nat,
         \A p \in DOMAIN text : Word(p) /\ from <= p /\ p <= upto => p <= l \/ from' <= p
  PROVE  Carried'
<1> DEFINE new == [first |-> from, last |-> l, cut |-> cut]
           n == Len(parcels)
<1>1. /\ n \in Nat /\ DOMAIN parcels = 1..n /\ DOMAIN parcels' = 1..(n + 1)
      /\ from \in Nat /\ upto \in Nat
      /\ parcels'[n + 1] = new /\ \A k \in 1..n : parcels'[k] = parcels[k]
  BY DEF RouterTypeOK
<1>2. \A k \in 1..n : parcels[k] \in Parcel
  BY DEF RouterTypeOK
<1>3. new.first = from /\ new.last = l /\ new.cut = cut
  BY DEF new
<1>4. Size(new) <= Limit + (IF cut THEN 1 ELSE 0)
  BY <1>1, <1>3 DEF Size
<1> HIDE DEF new, n
<1>5. ASSUME NEW p \in DOMAIN text, Word(p)
      PROVE  (from' <= p /\ p <= upto') \/ \E k \in DOMAIN parcels' :
                parcels'[k].first <= p /\ p <= parcels'[k].last
  <2>1. p \in Nat
    BY DEF RouterTypeOK, Text
  <2>2. CASE from <= p /\ p <= upto
    <3>1. CASE p <= l
      BY <1>1, <1>3, <2>2, <3>1
    <3>2. CASE from' <= p
      BY <2>2, <3>2
    <3>3. QED
      BY <1>5, <2>1, <2>2, <3>1, <3>2
  <2>3. CASE \E k \in DOMAIN parcels : parcels[k].first <= p /\ p <= parcels[k].last
    BY <1>1, <2>3
  <2>4. QED
    BY <1>5, <2>1, <2>2, <2>3 DEF Carried
<1>6. ASSUME NEW k \in DOMAIN parcels'
      PROVE  /\ Word(parcels'[k].first) /\ Word(parcels'[k].last)
             /\ parcels'[k].last < from'
             /\ Size(parcels'[k]) <= Limit + (IF parcels'[k].cut THEN 1 ELSE 0)
             /\ \A m \in DOMAIN parcels' : k < m => parcels'[k].last < parcels'[m].first
  <2>1. CASE k = n + 1
    <3>1. parcels'[k] = new
      BY <1>1, <2>1
    <3>2. \A m \in DOMAIN parcels' : ~ (k < m)
      BY <1>1, <2>1
    <3>3. QED
      BY <1>3, <1>4, <3>1, <3>2
  <2>2. CASE k \in 1..n
    <3>1. parcels'[k] = parcels[k] /\ k \in DOMAIN parcels /\ parcels[k].last \in Nat
      BY <1>1, <1>2, <2>2 DEF Parcel
    <3>2. /\ Word(parcels[k].first) /\ Word(parcels[k].last)
          /\ parcels[k].last < from
          /\ Size(parcels[k]) <= Limit + (IF parcels[k].cut THEN 1 ELSE 0)
      BY <3>1 DEF Carried
    <3>3. parcels[k].last < from'
      BY <1>1, <3>1, <3>2
    <3>4. ASSUME NEW m \in DOMAIN parcels', k < m PROVE parcels[k].last < parcels'[m].first
      <4>1. CASE m = n + 1
        BY <1>1, <1>3, <3>2, <4>1
      <4>2. CASE m \in 1..n
        BY <1>1, <3>1, <3>4, <4>2 DEF Carried
      <4>3. QED
        BY <1>1, <4>1, <4>2
    <3>5. QED
      BY <3>1, <3>2, <3>3, <3>4
  <2>3. QED
    BY <1>1, <2>1, <2>2
<1>7. QED
  BY <1>5, <1>6 DEF Carried, Word, Size

\* A segment up to the end of its window.
LEMMA SegmentCarries ==
  ASSUME RouterTypeOK, SegmentsInStep, Limit \in Nat \ {0}, routing = "formatting",
         NEW last \in from..(from + Limit - 1), last < upto, NEW cut \in BOOLEAN,
         TakeSegment(last, cut)
  PROVE  SegmentsInStep'
<1>1. /\ from \in Nat /\ upto \in Nat /\ 1 <= from /\ upto <= Len(text) /\ Len(text) \in Nat
      /\ DOMAIN text = 1..Len(text) /\ Word(from) /\ Word(upto) /\ Carried /\ route.channel = "sms"
      /\ last \in Nat
  BY DEF RouterTypeOK, SegmentsInStep, Text
<1>2. PICK l \in from..last :
        /\ Trims(text, from, last, from, l)
        /\ parcels' = Append(parcels, [first |-> from, last |-> l, cut |-> cut])
  BY DEF TakeSegment
<1>3. PICK f \in (last + 1)..upto : Trims(text, last + 1, upto, f, upto) /\ from' = f
  BY DEF TakeSegment
<1>4. UNCHANGED <<routing, route, text, upto>>
  BY DEF TakeSegment
<1>5. Word(l) /\ \A p \in from..last : Word(p) => p <= l
  BY <1>1, <1>2 DEF Trims, Word
<1>6. Word(f) /\ \A p \in (last + 1)..upto : Word(p) => f <= p
  BY <1>1, <1>3 DEF Trims, Word
<1>7. l \in Nat /\ from <= l /\ l < from' /\ from' \in Nat /\ l - from + 1 <= Limit
  BY <1>1, <1>2, <1>3
<1>8. \A p \in DOMAIN text : Word(p) /\ from <= p /\ p <= upto => p <= l \/ from' <= p
  BY <1>1, <1>3, <1>5, <1>6
<1>9. Carried'
  BY <1>1, <1>2, <1>4, <1>5, <1>7, <1>8, CarriedOn
<1>10. from' <= upto' /\ 1 <= from' /\ upto' <= Len(text')
  BY <1>1, <1>3, <1>4
<1>11. Word(from') /\ Word(upto')
  BY <1>1, <1>3, <1>4, <1>6
<1>12. QED
  BY <1>1, <1>4, <1>9, <1>10, <1>11 DEF SegmentsInStep, Word

LEMMA RouteBegins ==
  ASSUME TurnTyped, SegmentsInStep, RouteOutput PROVE SegmentsInStep'
<1>1. reply \in Text /\ parcels = <<>>
  BY TypedParts DEF TurnTyped, InOrder, RouteOutput, CallTypeOK, SegmentsInStep
<1>2. PICK r \in Routes : RouteToSms(reply, r) \/ RouteWhole(reply, r) \/ RouteRefused(r)
  BY DEF RouteOutput
<1>3. CASE RouteToSms(reply, r)
  <2>1. text' \in Text /\ parcels' = <<>> /\ routing' = "formatting" /\ route'.channel = "sms"
    BY <1>1, <1>3, StripIsText DEF RouteToSms, Accept
  <2>2. Len(text') \in Nat /\ DOMAIN text' = 1..Len(text')
    BY <2>1 DEF Text
  <2>3. PICK f \in 1..(Len(text') + 1), l \in 0..Len(text') :
          Trims(text', 1, Len(text'), f, l) /\ from' = f /\ upto' = l
    BY <1>3 DEF RouteToSms
  <2>4. f \in Nat /\ l \in Nat
    BY <2>2, <2>3
  <2>5. \A p \in DOMAIN text' : Word(p)' => f <= p /\ p <= l
    BY <2>2, <2>3 DEF Trims, Word
  <2>6. f <= l + 1 /\ (f <= l => Word(f)' /\ Word(l)')
    BY <2>2, <2>3, <2>4 DEF Trims, Word
  <2>7. Carried'
    BY <2>1, <2>3, <2>5 DEF Carried
  <2>8. QED
    BY <2>1, <2>2, <2>3, <2>4, <2>6, <2>7 DEF SegmentsInStep
<1>4. CASE RouteWhole(reply, r) \/ RouteRefused(r)
  <2>1. \/ routing' = "sending" /\ route'.channel # "sms"
        \/ routing' = "refused" /\ parcels' = <<>>
    BY <1>1, <1>4 DEF RouteWhole, RouteRefused, Accept, segmentVars
  <2>2. QED
    BY <2>1 DEF SegmentsInStep
<1>5. QED
  BY <1>2, <1>3, <1>4

\* What has been cut stays as it is while it is sent.
LEMMA SegmentsFrame ==
  ASSUME SegmentsInStep, UNCHANGED <<route, text, from, upto, parcels>>,
         routing' = routing \/ (routing = "sending" /\ routing' = "reported")
  PROVE  SegmentsInStep'
<1>1. \A p : Word(p)' <=> Word(p)
  BY DEF Word
<1>2. Carried => Carried'
  BY <1>1 DEF Carried, Size
<1>3. QED
  BY <1>1, <1>2 DEF SegmentsInStep

LEMMA StepKeepsSegments == TurnTyped /\ SegmentsInStep /\ [TurnNext]_vars => SegmentsInStep'
<1> SUFFICES ASSUME TurnTyped, SegmentsInStep, [TurnNext]_vars PROVE SegmentsInStep'
  OBVIOUS
<1>1. RouterTypeOK /\ Limit \in Nat \ {0}
  BY TypedParts, RouterAssumption DEF TurnTyped
<1>2. CASE UNCHANGED routerVars
  <2>1. UNCHANGED <<route, text, from, upto, parcels>> /\ routing' = routing
    BY <1>2 DEF routerVars
  <2>2. QED
    BY <2>1, SegmentsFrame
<1>3. CASE RouteOutput
  BY <1>3, RouteBegins
<1>4. CASE CutAtSentence
  <2>1. PICK b \in Boundaries : TakeSegment(b, FALSE)
    BY <1>4 DEF CutAtSentence
  <2>2. b \in from..(from + Limit - 1) /\ b < upto
    BY <1>1, <1>4, <2>1 DEF Boundaries, CutAtSentence, RouterTypeOK
  <2>3. QED
    BY <1>1, <1>4, <2>1, <2>2, SegmentCarries DEF CutAtSentence
<1>5. CASE CutAtLimit
  <2>1. from + Limit - 1 \in from..(from + Limit - 1) /\ from + Limit - 1 < upto
    BY <1>1, <1>5 DEF CutAtLimit, RouterTypeOK
  <2>2. QED
    BY <1>1, <1>5, <2>1, SegmentCarries DEF CutAtLimit
<1>6. CASE TakeRest
  <2>1. /\ routing = "formatting" /\ routing' = "sending" /\ UNCHANGED <<route, text, upto>>
        /\ from' = upto + 1 /\ upto - from + 1 <= Limit
    BY <1>6 DEF TakeRest
  <2>2. /\ from \in Nat /\ upto \in Nat /\ from <= upto + 1 /\ Carried
        /\ (from <= upto => Word(from) /\ Word(upto))
    BY <1>1, <2>1 DEF SegmentsInStep, RouterTypeOK
  <2>3. Carried'
    <3>1. CASE from <= upto
      <4>1. parcels' = Append(parcels, [first |-> from, last |-> upto, cut |-> FALSE])
        BY <1>6, <3>1 DEF TakeRest
      <4>2. upto < from' /\ from' \in Nat /\ FALSE \in BOOLEAN /\ Limit \in Nat
        BY <1>1, <2>1, <2>2
      <4>3. QED
        BY <1>1, <2>1, <2>2, <3>1, <4>1, <4>2, CarriedOn
    <3>2. CASE ~ (from <= upto)
      <4>1. UNCHANGED <<text, from, upto, parcels>>
        BY <1>6, <2>1, <2>2, <3>2 DEF TakeRest
      <4>2. QED
        BY <2>2, <4>1 DEF Carried, Word, Size
    <3>3. QED
      BY <3>1, <3>2
  <2>4. QED
    BY <2>1, <2>3 DEF SegmentsInStep
<1>7. CASE Send \/ SendFails \/ NothingToSend
  <2>1. UNCHANGED <<route, text, from, upto, parcels>> /\ routing' = routing
    BY <1>7 DEF Send, SendFails, NothingToSend, segmentVars
  <2>2. QED
    BY <2>1, SegmentsFrame
<1>8. CASE Finish
  BY <1>8, SegmentsFrame DEF Finish, Report, segmentVars
<1>9. QED
  BY <1>2, <1>3, <1>4, <1>5, <1>6, <1>7, <1>8, RouterMoves DEF Format, Deliver

\* No word of a reply is lost or sent twice by cutting it, and no segment is too
\* long: for every text, and every limit of at least one token.
THEOREM SegmentsCarryAll == TurnSafety => []SegmentsCarryTheText
<1>1. TurnInit => SegmentsInStep
  BY DEF TurnInit, RouterInit, SegmentsInStep
<1>2. SegmentsInStep => SegmentsCarryTheText
  BY DEF SegmentsInStep, Carried, SegmentsCarryTheText
<1>3. QED
  BY <1>1, <1>2, StepKeepsSegments, TurnAlwaysTyped, PTL DEF TurnSafety

-----------------------------------------------------------------------------
(* The prompt keeps the longest end of the conversation that fits.         *)

\* The sums of the estimate, as a function on 0..Len(m).
Sums(m) == CHOOSE f : f = [i \in 0..Len(m) |-> IF i = 0 THEN 0 ELSE f[i - 1] + m[i] + Overhead]

\* It has a value, so that its equations hold.
LEMMA SumEquations ==
  ASSUME NEW m \in Seq(Nat)
  PROVE  \A i \in 0..Len(m) : Sums(m)[i] = IF i = 0 THEN 0 ELSE Sums(m)[i - 1] + m[i] + Overhead
<1> DEFINE Step(f, i) == IF i = 0 THEN 0 ELSE f[i - 1] + m[i] + Overhead
           Body(f, n) == [i \in 0..n |-> Step(f, i)]
           Equations(f, n) == \A i \in 0..n : f[i] = Step(f, i)
           sums == CHOOSE f : f = Body(f, Len(m))
<1>1. Len(m) \in Nat
  OBVIOUS
<1>2. \A n \in Nat : \E f : Equations(f, n)
  <2> DEFINE S == {n \in Nat : \E f : Equations(f, n)}
  <2>1. 0 \in S
    <3>1. Equations([i \in 0..0 |-> 0], 0)
      OBVIOUS
    <3>2. QED
      BY <3>1
  <2>2. ASSUME NEW n \in S PROVE n + 1 \in S
    <3>1. PICK f : Equations(f, n)
      BY <2>2
    <3> DEFINE g == [i \in 0..(n + 1) |-> IF i = n + 1 THEN Step(f, n + 1) ELSE f[i]]
    <3>2. n \in Nat
      OBVIOUS
    <3>3. ASSUME NEW i \in 0..(n + 1) PROVE g[i] = Step(g, i)
      <4>1. CASE i = n + 1
        BY <3>2, <4>1
      <4>2. CASE i \in 0..n
        <5>1. g[i] = Step(f, i)
          BY <3>1, <3>2, <4>2
        <5>2. i # 0 => g[i - 1] = f[i - 1]
          BY <3>2, <4>2
        <5> HIDE DEF g
        <5>3. QED
          BY <5>1, <5>2
      <4>3. QED
        BY <3>2, <4>1, <4>2
    <3>4. Equations(g, n + 1)
      BY <3>3
    <3> HIDE DEF g, Step
    <3>5. QED
      BY <3>2, <3>4
  <2>3. S = Nat
    <3> HIDE DEF S
    <3>1. S \subseteq Nat
      BY DEF S
    <3>2. QED BY <2>1, <2>2, <3>1, SetInduction
  <2>4. QED
    BY <2>3
<1>3. Equations(sums, Len(m))
  <2>1. PICK f : Equations(f, Len(m))
    BY <1>1, <1>2
  <2> DEFINE g == [i \in 0..Len(m) |-> f[i]]
  <2>2. Equations(g, Len(m))
    BY <1>1, <2>1
  <2>3. Body(g, Len(m)) = g
    <3>1. \A i \in 0..Len(m) : Step(g, i) = f[i]
      BY <1>1, <2>1, <2>2
    <3> HIDE DEF Step
    <3>2. QED
      BY <3>1
  <2>4. sums = Body(sums, Len(m))
    <3> HIDE DEF g, Body
    <3> QED BY <2>3
  <2>5. \A i \in 0..Len(m) : Body(sums, Len(m))[i] = Step(sums, i)
    <3> HIDE DEF sums, Step
    <3> QED OBVIOUS
  <2> HIDE DEF sums, Body, Step
  <2>6. QED
    BY <2>4, <2>5
<1>4. Sums(m) = sums
  BY DEF Sums
<1> HIDE DEF sums
<1>5. QED
  BY <1>3, <1>4

\* The sums are numbers, and up to its length a longer list has the same.
LEMMA SumsOf ==
  ASSUME NEW m \in Seq(Nat), NEW more \in Seq(Nat), Len(m) <= Len(more),
         \A i \in 1..Len(m) : more[i] = m[i]
  PROVE  \A i \in 0..Len(m) : Sums(m)[i] \in Nat /\ Sums(more)[i] = Sums(m)[i]
<1> DEFINE S == {n \in Nat : n <= Len(m) => Sums(m)[n] \in Nat /\ Sums(more)[n] = Sums(m)[n]}
<1>1. Len(m) \in Nat /\ Len(more) \in Nat /\ Overhead \in Nat
  BY PromptAssumption
<1>2. 0 \in S
  BY <1>1, SumEquations
<1>3. ASSUME NEW n \in S PROVE n + 1 \in S
  <2>1. SUFFICES ASSUME n + 1 <= Len(m)
                 PROVE  Sums(m)[n + 1] \in Nat /\ Sums(more)[n + 1] = Sums(m)[n + 1]
    OBVIOUS
  <2>2. n \in Nat /\ n + 1 \in 1..Len(m) /\ n + 1 \in 0..Len(m) /\ n + 1 \in 0..Len(more)
    BY <1>1, <2>1
  <2>3. Sums(m)[n] \in Nat /\ Sums(more)[n] = Sums(m)[n] /\ more[n + 1] = m[n + 1] /\ m[n + 1] \in Nat
    BY <1>1, <2>2
  <2>4. /\ Sums(m)[n + 1] = Sums(m)[n] + m[n + 1] + Overhead
        /\ Sums(more)[n + 1] = Sums(more)[n] + more[n + 1] + Overhead
    BY <2>2, SumEquations
  <2>5. QED
    BY <1>1, <2>3, <2>4
<1>4. S = Nat
  <2> HIDE DEF S
  <2>1. S \subseteq Nat
    BY DEF S
  <2>2. QED BY <1>2, <1>3, <2>1, SetInduction
<1>5. QED
  BY <1>1, <1>4

\* A message more takes its tokens and the overhead more.
LEMMA EstimateOfAppend ==
  ASSUME NEW m \in Seq(Nat), NEW x \in Nat
  PROVE  /\ EstimateMessagesTokens(m) \in Nat
         /\ EstimateMessagesTokens(Append(m, x)) = EstimateMessagesTokens(m) + x + Overhead
<1> DEFINE more == Append(m, x)
<1>1. /\ more \in Seq(Nat) /\ Len(more) = Len(m) + 1 /\ Len(m) \in Nat
      /\ more[Len(m) + 1] = x /\ \A i \in 1..Len(m) : more[i] = m[i]
  OBVIOUS
<1> HIDE DEF more
<1>2. EstimateMessagesTokens(m) = Sums(m)[Len(m)] /\ EstimateMessagesTokens(more) = Sums(more)[Len(more)]
  BY DEF EstimateMessagesTokens, Sums
<1>3. Sums(m)[Len(m)] \in Nat /\ Sums(more)[Len(m)] = Sums(m)[Len(m)]
  BY <1>1, SumsOf
<1>4. Sums(more)[Len(m) + 1] = Sums(more)[Len(m)] + x + Overhead
  BY <1>1, SumEquations
<1>5. QED
  BY <1>1, <1>2, <1>3, <1>4 DEF more

\* The budget test is the test against the whole window.
LEMMA FitsTheWindow ==
  ASSUME NEW m \in Seq(Nat), context \in Context, event \in Event, prompt.context = context
  PROVE  WindowUse(m) \in Nat /\ (Fits(m, event) <=> WindowUse(m) <= TotalTokens)
<1> DEFINE x == Len(event.content)
           dynamic == DynamicTokens(context)
           estimate == EstimateMessagesTokens(m)
<1>1. x \in Nat
  BY DEF Event, Text
<1>2. dynamic \in Nat
  <2>1. /\ Cardinality(context.flags) \in Nat /\ Cardinality(context.items) \in Nat
        /\ Cardinality(context.machines) \in Nat
    BY PromptAssumption, FS_Subset, FS_CardinalityType DEF Context
  <2>2. Cardinality(context.flags) + Cardinality(context.items) + Cardinality(context.machines) \in Nat
    BY <2>1
  <2>3. QED
    BY <2>2, PromptAssumption DEF DynamicTokens
<1>3. estimate \in Nat /\ EstimateMessagesTokens(Append(m, x)) = estimate + x + Overhead
  BY <1>1, EstimateOfAppend
<1>4. WindowUse(m) = StaticTokens + dynamic + ResponseReserve + (estimate + x + Overhead)
  BY <1>3 DEF WindowUse
<1>5. HistoryBudget(event) = TotalTokens - ResponseReserve - StaticTokens - dynamic - (x + Overhead)
  BY DEF HistoryBudget
<1> HIDE DEF x, dynamic, estimate
<1>6. QED
  BY <1>1, <1>2, <1>3, <1>4, <1>5, PromptAssumption DEF Fits, estimate

\* The history is the end of a conversation of which nothing longer fits.
LongestEnd(conversation) ==
  /\ trimmed <= Len(conversation)
  /\ history = SubSeq(conversation, trimmed + 1, Len(conversation))
  /\ \A n \in 0..(trimmed - 1) : ~ Fits(SubSeq(conversation, n + 1, Len(conversation)), event)

HistoryInStep ==
  /\ \E conversation \in Conversations : LongestEnd(conversation)
  /\ phase \in {"received", "loading"} => trimmed = 0
  /\ phase \in {"received", "loading", "assembling"} => prompt = None
  /\ prompt # None => /\ event # None /\ context # None
                      /\ prompt = [history |-> history, context |-> context, trimmed |-> trimmed]
                      /\ history = <<>> \/ Fits(history, event)

LEMMA StepKeepsHistory == TurnTyped /\ HistoryInStep /\ [TurnNext]_vars => HistoryInStep'
<1> SUFFICES ASSUME TurnTyped, HistoryInStep, [TurnNext]_vars PROVE HistoryInStep'
  OBVIOUS
<1>1. InOrder /\ PromptTypeOK
  BY TypedParts DEF TurnTyped
<1>2. PICK conversation \in Conversations : LongestEnd(conversation)
  BY DEF HistoryInStep
<1>3. conversation \in Seq(Nat) /\ Len(conversation) \in Nat /\ trimmed \in Nat
  BY <1>1, TurnAssumption DEF History, PromptTypeOK
<1>4. CASE Classify \/ ClassificationFails \/ FetchAnswers \/ Load \/ LoadError
  <2>1. UNCHANGED promptVars /\ (phase' = phase \/ phase \in {"received", "loading"})
        /\ (phase' \notin {"received", "loading"} \/ phase' = phase \/ phase = "received")
    BY <1>4 DEF Classify, ClassificationFails, FetchAnswers, Load, LoadError
  <2>2. CASE FetchAnswers
    <3>1. UNCHANGED <<event, context, phase>>
      BY <2>2 DEF FetchAnswers, ProfileAnswers, SettingsRead, SettingsFail
    <3>2. QED
      BY <2>1, <3>1 DEF HistoryInStep, LongestEnd, Fits, HistoryBudget, promptVars
  <2>3. CASE ~ FetchAnswers
    <3>1. phase \in {"received", "loading"}
      BY <1>4, <2>3 DEF Classify, ClassificationFails, Load, LoadError
    <3>2. trimmed = 0 /\ trimmed' = 0 /\ prompt' = None /\ history' = history
      BY <2>1, <3>1 DEF HistoryInStep, promptVars
    <3>3. LongestEnd(conversation)'
      BY <1>2, <1>3, <3>2 DEF LongestEnd
    <3>4. QED
      BY <3>2, <3>3 DEF HistoryInStep
  <2>4. QED
    BY <2>2, <2>3
<1>5. CASE Trim
  <2>1. /\ phase = "assembling" /\ UNCHANGED <<phase, event, context, prompt>> /\ prompt = None
        /\ history # <<>> /\ ~ Fits(history, event) /\ history' = Tail(history) /\ trimmed' = trimmed + 1
    BY <1>5 DEF Trim, TrimOldest, HistoryInStep, loadVars
  <2>2. history = SubSeq(conversation, trimmed + 1, Len(conversation)) /\ trimmed < Len(conversation)
    BY <1>2, <1>3, <2>1 DEF LongestEnd
  <2>3. history' = SubSeq(conversation, trimmed' + 1, Len(conversation))
    BY <1>3, <2>1, <2>2
  <2>4. \A n \in 0..(trimmed' - 1) : ~ Fits(SubSeq(conversation, n + 1, Len(conversation)), event)
    BY <1>2, <1>3, <2>1, <2>2 DEF LongestEnd
  <2>5. \A m : Fits(m, event)' <=> Fits(m, event)
    BY <2>1 DEF Fits, HistoryBudget
  <2>6. LongestEnd(conversation)'
    BY <1>3, <2>1, <2>2, <2>3, <2>4, <2>5 DEF LongestEnd
  <2>7. QED
    BY <2>1, <2>6 DEF HistoryInStep
<1>6. CASE Assemble
  <2>1. /\ phase = "assembling" /\ UNCHANGED <<event, context, history, trimmed>>
        /\ phase' \in {"calling", "error"} /\ event # None /\ context # None
        /\ prompt' = [history |-> history, context |-> context, trimmed |-> trimmed]
        /\ history = <<>> \/ Fits(history, event)
    BY <1>1, <1>6 DEF Assemble, AssemblePrompt, InOrder, loadVars
  <2>2. \A m : Fits(m, event)' <=> Fits(m, event)
    BY <2>1 DEF Fits, HistoryBudget
  <2>3. LongestEnd(conversation)'
    BY <1>2, <2>1, <2>2 DEF LongestEnd
  <2>4. QED
    BY <2>1, <2>2, <2>3 DEF HistoryInStep
<1>7. CASE ~ (Classify \/ ClassificationFails \/ FetchAnswers \/ Load \/ LoadError \/ Trim \/ Assemble)
  <2>1. UNCHANGED <<event, loadVars, promptVars>>
    BY <1>7 DEF TurnNext, AssembleFails, Delta, CallReturns, CallFails, Check, AuditReturns,
                AuditFails, AuditIsLate, RouteOutput, Format, Deliver, Finish, vars
  <2>2. phase' \notin {"received", "loading", "assembling"} \/ phase' = phase
    BY <1>7 DEF TurnNext, AssembleFails, Delta, CallReturns, CallFails, Check, AuditReturns,
                AuditFails, AuditIsLate, RouteOutput, Format, Deliver, Finish, vars
  <2>3. \A m : Fits(m, event)' <=> Fits(m, event)
    BY <2>1 DEF Fits, HistoryBudget, loadVars
  <2>4. LongestEnd(conversation)'
    BY <1>2, <2>1, <2>3 DEF LongestEnd, promptVars
  <2>5. QED
    BY <2>1, <2>2, <2>3, <2>4 DEF HistoryInStep, promptVars, loadVars
<1>8. QED
  BY <1>4, <1>5, <1>6, <1>7

\* A prompt has the longest end of the conversation that fits, and counts what it
\* left: for all conversations, inputs, contexts and windows.
THEOREM HistoriesAreLongest == TurnSafety => []HistoryIsLongestSuffix
<1>1. TurnInit => HistoryInStep
  <2> SUFFICES ASSUME TurnInit PROVE HistoryInStep
    OBVIOUS
  <2>1. PICK conversation \in Conversations : history = conversation
    BY DEF TurnInit, PromptInit
  <2>2. trimmed = 0 /\ prompt = None
    BY DEF TurnInit, PromptInit
  <2>3. conversation \in Seq(Nat)
    BY TurnAssumption DEF History
  <2>4. SubSeq(conversation, 1, Len(conversation)) = conversation /\ 0 <= Len(conversation)
    BY <2>3
  <2>5. LongestEnd(conversation)
    BY <2>1, <2>2, <2>4 DEF LongestEnd
  <2>6. QED
    BY <2>2, <2>5 DEF HistoryInStep
<1>2. TurnTyped /\ HistoryInStep => HistoryIsLongestSuffix
  <2> SUFFICES ASSUME TurnTyped, HistoryInStep, prompt # None
               PROVE  \E conversation \in Conversations :
                        /\ prompt.history = SubSeq(conversation, prompt.trimmed + 1, Len(conversation))
                        /\ prompt.trimmed + Len(prompt.history) = Len(conversation)
                        /\ \A n \in 0..(prompt.trimmed - 1) :
                             WindowUse(SubSeq(conversation, n + 1, Len(conversation))) > TotalTokens
                        /\ prompt.history = <<>> \/ WindowUse(prompt.history) <= TotalTokens
    BY DEF HistoryIsLongestSuffix
  <2>1. PICK conversation \in Conversations : LongestEnd(conversation)
    BY DEF HistoryInStep
  <2>2. /\ conversation \in Seq(Nat) /\ Len(conversation) \in Nat
        /\ history \in Seq(Nat) /\ trimmed \in Nat
    BY TypedParts, TurnAssumption DEF TurnTyped, History, PromptTypeOK
  <2>3. event \in Event /\ context \in Context
    BY TypedParts DEF TurnTyped, TurnOwnTypes, LoadTypeOK, HistoryInStep
  <2>4. /\ prompt.history = history /\ prompt.trimmed = trimmed /\ prompt.context = context
        /\ history = <<>> \/ Fits(history, event)
    BY DEF HistoryInStep
  <2>5. \A m \in Seq(Nat) : WindowUse(m) \in Nat /\ (Fits(m, event) <=> WindowUse(m) <= TotalTokens)
    BY <2>3, <2>4, FitsTheWindow
  <2>6. ASSUME NEW n \in 0..(trimmed - 1)
        PROVE  WindowUse(SubSeq(conversation, n + 1, Len(conversation))) > TotalTokens
    <3> DEFINE m == SubSeq(conversation, n + 1, Len(conversation))
    <3>1. m \in Seq(Nat) /\ ~ Fits(m, event)
      BY <2>1, <2>2, <2>6 DEF LongestEnd
    <3> HIDE DEF m
    <3>2. WindowUse(m) > TotalTokens
      BY <2>5, <3>1, PromptAssumption
    <3>3. QED
      BY <3>2 DEF m
  <2>7. trimmed + Len(history) = Len(conversation)
    BY <2>1, <2>2 DEF LongestEnd
  <2>8. QED
    BY <2>1, <2>2, <2>4, <2>5, <2>6, <2>7 DEF LongestEnd
<1>3. QED
  BY <1>1, <1>2, StepKeepsHistory, TurnAlwaysTyped, PTL DEF TurnSafety

-----------------------------------------------------------------------------
(* The turn implements the delivery of a reply that is judged once.        *)

\* Nothing has been found against a reply before it is checked.
JudgedInStep ==
  /\ phase \in {"received", "loading", "assembling", "calling", "checking"} =>
       findings = {} /\ verdict = "none"
  /\ phase = "auditing" => verdict = "none"

\* The stages up to the call, and what arrives behind the back of a stage.
LEMMA StagesBeforeAudit ==
  ASSUME Classify \/ ClassificationFails \/ FetchAnswers \/ Load \/ LoadError \/ Trim \/ Assemble
           \/ AssembleFails \/ Delta \/ CallReturns \/ CallFails \/ AuditIsLate
  PROVE  /\ UNCHANGED <<findings, verdict, routerVars>>
         /\ \/ UNCHANGED phase
            \/ /\ phase \in {"received", "loading", "assembling", "calling"}
               /\ phase' \in {"loading", "assembling", "calling", "checking", "error"}
<1>1. CASE Classify \/ ClassificationFails \/ Load \/ LoadError
  BY <1>1 DEF Classify, ClassificationFails, Load, LoadError, checkVars, auditVars
<1>2. CASE FetchAnswers \/ Trim \/ Delta
  BY <1>2 DEF FetchAnswers, Trim, Delta, checkVars, auditVars
<1>3. CASE Assemble \/ AssembleFails
  BY <1>3 DEF Assemble, AssembleFails, checkVars, auditVars
<1>4. CASE CallReturns \/ CallFails
  BY <1>4 DEF CallReturns, CallFails, checkVars, auditVars
<1>5. CASE AuditIsLate
  BY <1>5 DEF AuditIsLate, AuditAnswersLate, checkVars
<1>6. QED
  BY <1>1, <1>2, <1>3, <1>4, <1>5

LEMMA DeliveryKeepsJudgement ==
  ASSUME InOrder, RouteOutput \/ Format \/ Deliver \/ Finish
  PROVE  /\ UNCHANGED <<findings, verdict>>
         /\ phase \in {"cleared", "routing"} /\ phase' \in {"routing", "replied", "error"}
<1>1. CASE RouteOutput
  BY <1>1 DEF RouteOutput, checkVars, auditVars
<1>2. CASE Format
  BY <1>2 DEF Format, CutAtSentence, CutAtLimit, TakeRest, InOrder, checkVars, auditVars
<1>3. CASE Deliver
  BY <1>3 DEF Deliver, Send, SendFails, NothingToSend, Sending, InOrder, checkVars, auditVars
<1>4. CASE Finish
  BY <1>4 DEF Finish, Report, InOrder, checkVars, auditVars
<1>5. QED
  BY <1>1, <1>2, <1>3, <1>4

LEMMA StepKeepsJudgement ==
  TurnTyped /\ JudgedInStep /\ [TurnNext]_vars => JudgedInStep'
<1> SUFFICES ASSUME TurnTyped, JudgedInStep, [TurnNext]_vars PROVE JudgedInStep'
  OBVIOUS
<1>1. CASE Classify \/ ClassificationFails \/ FetchAnswers \/ Load \/ LoadError \/ Trim \/ Assemble
             \/ AssembleFails \/ Delta \/ CallReturns \/ CallFails \/ AuditIsLate
  BY <1>1, StagesBeforeAudit DEF JudgedInStep
<1>2. CASE Check
  BY <1>2 DEF Check, StartAudit, JudgedInStep
<1>3. CASE AuditReturns \/ AuditFails
  BY <1>3 DEF AuditReturns, AuditFails, JudgedInStep
<1>4. CASE RouteOutput \/ Format \/ Deliver \/ Finish
  BY <1>4, DeliveryKeepsJudgement DEF TurnTyped, JudgedInStep
<1>5. CASE UNCHANGED vars
  BY <1>5 DEF vars, checkVars, auditVars, JudgedInStep
<1>6. QED
  BY <1>1, <1>2, <1>3, <1>4, <1>5 DEF TurnNext

\* A stage that leaves the router alone judges, or has nothing to do with it.
LEMMA StageJudges ==
  ASSUME ~ Packed, UNCHANGED routerVars,
         phase \in {"received", "loading", "assembling", "calling", "checking", "auditing"},
         phase' \in Phase \ {"routing", "replied"},
         Objected => Objected', phase' = "cleared" => ~ Objected'
  PROVE  Delivery!Judge
<1>1. Status = "open" /\ ~ Packed' /\ UNCHANGED <<failed, delivered>>
  BY DEF Status, Packed, routerVars
<1>2. Status' \in {"open", "withheld"} \/ (Status' = "cleared" /\ ~ Objected')
  BY <1>1 DEF Status, Phase
<1>3. Objected' \in BOOLEAN
  BY DEF Objected
<1>4. QED
  BY <1>1, <1>2, <1>3 DEF Delivery!Judge, Delivery!arrivalVars

LEMMA StagesJudge ==
  ASSUME TurnTyped, JudgedInStep, [TurnNext]_vars,
         ~ (RouteOutput \/ Format \/ Deliver \/ Finish)
  PROVE  Delivery!Judge \/ UNCHANGED Delivery!absVars
<1>1. InOrder /\ phase' \in Phase
  BY StepTyped DEF TurnTyped, TurnTypeOK
<1>2. ASSUME UNCHANGED <<phase, findings, verdict, routerVars>>
      PROVE  UNCHANGED Delivery!absVars
  BY <1>2 DEF Delivery!absVars, Status, Objected, Held, Packed, routerVars
<1>3. phase \in {"received", "loading", "assembling", "calling", "checking", "auditing"} => ~ Packed
  BY <1>1 DEF InOrder, Packed
<1>4. CASE Classify \/ ClassificationFails \/ FetchAnswers \/ Load \/ LoadError \/ Trim \/ Assemble
             \/ AssembleFails \/ Delta \/ CallReturns \/ CallFails \/ AuditIsLate
  <2>1. CASE UNCHANGED phase
    BY <1>2, <1>4, <2>1, StagesBeforeAudit
  <2>2. CASE ~ UNCHANGED phase
    <3>1. UNCHANGED <<findings, verdict, routerVars>>
      BY <1>4, StagesBeforeAudit
    <3>2. /\ phase \in {"received", "loading", "assembling", "calling"}
          /\ phase' \in {"loading", "assembling", "calling", "checking", "error"}
      BY <1>4, <2>2, StagesBeforeAudit
    <3>3. Objected => Objected'
      BY <3>1 DEF Objected, Held
    <3>4. QED
      BY <1>1, <1>3, <3>1, <3>2, <3>3, StageJudges
  <2>3. QED
    BY <2>1, <2>2
<1>5. CASE Check
  <2>1. phase = "checking" /\ phase' \in {"cleared", "auditing", "error"} /\ UNCHANGED routerVars
    BY <1>5 DEF Check
  <2>2. ~ Objected
    BY <2>1 DEF JudgedInStep, Objected, Held
  <2>3. phase' = "cleared" => PreflightPass(findings') /\ verdict' = "none"
    BY <1>5, <2>1 DEF Check, ShouldRunModelAudit, auditVars, JudgedInStep
  <2>4. phase' = "cleared" => ~ Objected'
    BY <2>3 DEF PreflightPass, Objected, Held
  <2>5. QED
    BY <1>1, <1>3, <2>1, <2>2, <2>4, StageJudges
<1>6. CASE AuditReturns \/ AuditFails
  <2>1. /\ phase = "auditing" /\ phase' \in {"cleared", "held", "error"}
        /\ UNCHANGED <<findings, routerVars>>
    BY <1>6 DEF AuditReturns, AuditFails, checkVars
  <2>2. Objected => Objected'
    BY <2>1 DEF JudgedInStep, Objected, Held
  <2>3. phase' = "cleared" => verdict' = "pass" /\ ~ Held
    BY <1>6 DEF AuditReturns, AuditFails
  <2>4. phase' = "cleared" => ~ Objected'
    BY <2>1, <2>3 DEF Objected, Held
  <2>5. QED
    BY <1>1, <1>3, <2>1, <2>2, <2>4, StageJudges
<1>7. CASE UNCHANGED vars
  BY <1>2, <1>7 DEF vars, checkVars, auditVars
<1>8. QED
  BY <1>4, <1>5, <1>6, <1>7 DEF TurnNext

\* Routing refuses the reply, or gives it its recipients: at once with its one
\* parcel, or once it is cut.
LEMMA RouteDelivers ==
  ASSUME TurnTyped, RouteOutput
  PROVE  Delivery!Withhold \/ Delivery!Pack \/ UNCHANGED Delivery!absVars
<1>1. PICK r \in Routes :
        \/ RouteToSms(reply, r) /\ phase' = "routing"
        \/ RouteWhole(reply, r) /\ phase' = "routing"
        \/ RouteRefused(r) /\ phase' = "error"
  BY DEF RouteOutput
<1>2. phase = "cleared" /\ ~ Packed /\ Status = "cleared"
  BY DEF RouteOutput, TurnTyped, InOrder, Packed, Status
<1>3. UNCHANGED <<findings, verdict, delivered, failed>>
  BY <1>1 DEF RouteOutput, RouteToSms, RouteWhole, RouteRefused, Accept, checkVars, auditVars
<1>4. Objected' = Objected
  BY <1>3 DEF Objected, Held
<1>5. CASE RouteToSms(reply, r) /\ phase' = "routing"
  <2>1. ~ Packed' /\ Status' = "cleared"
    BY <1>5 DEF RouteToSms, Packed, Status
  <2>2. QED
    BY <1>2, <1>3, <1>4, <2>1 DEF Delivery!absVars
<1>6. CASE RouteWhole(reply, r) /\ phase' = "routing"
  <2>1. Packed' /\ Status' = "sending" /\ got' = [k \in DOMAIN r.recipients |-> <<>>]
    BY <1>6 DEF RouteWhole, Accept, Packed, Status
  <2>2. r.recipients \in Seq(Recipients)
    BY TurnAssumption DEF Route
  <2>3. got' \in Seq({<<>>})
    BY <2>1, <2>2
  <2>4. Len(parcels') \in Nat
    BY StepTyped DEF TurnTyped, TurnTypeOK, RouterTypeOK
  <2>5. QED
    BY <1>2, <1>3, <1>4, <2>1, <2>3, <2>4 DEF Delivery!Pack
<1>7. CASE RouteRefused(r) /\ phase' = "error"
  <2>1. ~ Packed' /\ Status' = "withheld"
    BY <1>7 DEF RouteRefused, Packed, Status
  <2>2. QED
    BY <1>2, <1>3, <1>4, <2>1 DEF Delivery!Withhold, Delivery!arrivalVars
<1>8. QED
  BY <1>1, <1>5, <1>6, <1>7

LEMMA FormatDelivers ==
  ASSUME TurnTyped, ReportInStep, Format
  PROVE  Delivery!Pack \/ UNCHANGED Delivery!absVars
<1>1. /\ routing = "formatting" /\ routing' \in {"formatting", "sending"}
      /\ UNCHANGED <<phase, findings, verdict, got, delivered, failed>>
  BY DEF Format, CutAtSentence, CutAtLimit, TakeSegment, TakeRest, sendVars, checkVars, auditVars
<1>2. phase = "routing" /\ ~ Packed /\ Status = "cleared"
  BY <1>1 DEF TurnTyped, InOrder, Packed, Status
<1>3. Objected' = Objected
  BY <1>1 DEF Objected, Held
<1>4. CASE routing' = "formatting"
  <2>1. ~ Packed' /\ Status' = "cleared"
    BY <1>1, <1>2, <1>4 DEF Packed, Status
  <2>2. QED
    BY <1>1, <1>2, <1>3, <2>1 DEF Delivery!absVars
<1>5. CASE routing' = "sending"
  <2>1. Packed' /\ Status' = "sending"
    BY <1>1, <1>2, <1>5 DEF Packed, Status
  <2>2. DOMAIN got = 1..Len(route.recipients) /\ Len(route.recipients) \in Nat
        /\ got \in [DOMAIN got -> {<<>>}]
    BY <1>1, TypedParts, RecipientsNumbered DEF TurnTyped, ReportInStep, RouterTypeOK
  <2>3. got' \in Seq({<<>>})
    BY <1>1, <2>2
  <2>4. Len(parcels') \in Nat
    BY StepTyped DEF TurnTyped, TurnTypeOK, RouterTypeOK
  <2>5. QED
    BY <1>1, <1>2, <1>3, <2>1, <2>3, <2>4 DEF Delivery!Pack
<1>6. QED
  BY <1>1, <1>4, <1>5

\* The recipient that the loop is at is the one whose turn it is.
LEMMA TurnOfRecipient ==
  ASSUME TurnTyped, ReportInStep, Sending
  PROVE  /\ Packed /\ who \in DOMAIN got /\ got[who] \in Seq(Nat) /\ Len(got[who]) = next - 1
         /\ Delivery!Turn(who)
<1>1. RouterTypeOK
  BY TypedParts DEF TurnTyped
<1>2. /\ Len(route.recipients) \in Nat /\ DOMAIN got = 1..Len(route.recipients)
      /\ \A k \in DOMAIN got : got[k] \in Seq(Nat)
  BY <1>1, RecipientsNumbered
<1>3. Packed /\ who \in DOMAIN got /\ Status = "sending"
  BY <1>1 DEF Sending, Packed, Status, TurnTyped, InOrder, RouterTypeOK
<1>4. /\ delivered \cup failed = {k \in DOMAIN got : k < who}
      /\ Len(got[who]) = next - 1
  BY <1>3 DEF ReportInStep
<1>5. who \notin delivered \cup failed /\ 1..(who - 1) \subseteq delivered \cup failed
  BY <1>2, <1>3, <1>4
<1>6. QED
  BY <1>2, <1>3, <1>4, <1>5 DEF Delivery!Turn, Delivery!Settled

LEMMA DeliverDelivers ==
  ASSUME TurnTyped, ReportInStep, Deliver
  PROVE  \E k \in DOMAIN got :
           Packed /\ (Delivery!Pass(k) \/ Delivery!Fail(k) \/ Delivery!PassNothing(k))
<1>1. /\ Sending /\ next \in Nat /\ parcels \in Seq(Parcel)
      /\ got \in [DOMAIN got -> Seq(Nat)]
      /\ UNCHANGED <<routing, phase, findings, verdict, parcels>>
  BY TypedParts
  DEF Deliver, Send, SendFails, NothingToSend, TurnTyped, RouterTypeOK, segmentVars, checkVars,
      auditVars
<1>2. /\ Packed /\ who \in DOMAIN got /\ got[who] \in Seq(Nat) /\ Len(got[who]) = next - 1
      /\ Delivery!Turn(who)
  BY <1>1, TurnOfRecipient
<1>3. /\ Packed' /\ UNCHANGED <<Status>> /\ Objected' = Objected
  BY <1>1, <1>2 DEF Packed, Status, Objected, Held
<1>4. CASE Send
  <2>1. /\ next \in DOMAIN parcels /\ got' = [got EXCEPT ![who] = Append(got[who], next)]
        /\ delivered' = (IF next = Len(parcels) THEN delivered \cup {who} ELSE delivered)
        /\ UNCHANGED failed
    BY <1>4 DEF Send
  <2>2. next \in 1..Len(parcels) /\ next = Len(got[who]) + 1
    BY <1>1, <1>2, <2>1
  <2>3. got' = [got EXCEPT ![who] = Append(got[who], Len(got[who]) + 1)]
    BY <2>1, <2>2
  <2>4. delivered' = (IF Len(got[who]) + 1 = Len(parcels) THEN delivered \cup {who} ELSE delivered)
    BY <2>1, <2>2
  <2>5. Len(got[who]) < Len(parcels)
    BY <1>1, <1>2, <2>2
  <2>6. Delivery!Pass(who)
    BY <1>2, <1>3, <1>1, <2>1, <2>3, <2>4, <2>5 DEF Delivery!Pass, Delivery!Arrives
  <2>7. QED
    BY <1>2, <2>6
<1>5. CASE SendFails
  <2>1. /\ next \in 1..Len(parcels)
        /\ UNCHANGED got \/ got' = [got EXCEPT ![who] = Append(@, Len(@) + 1)]
        /\ failed' = failed \cup {who} /\ UNCHANGED delivered
    BY <1>1, <1>2, <1>5 DEF SendFails
  <2>2. Delivery!Fail(who)
    BY <1>1, <1>2, <1>3, <2>1 DEF Delivery!Fail, Delivery!Arrives
  <2>3. QED
    BY <1>2, <2>2
<1>6. CASE NothingToSend
  <2>1. Len(parcels) = 0 /\ delivered' = delivered \cup {who} /\ UNCHANGED <<got, failed>>
    BY <1>1, <1>6 DEF NothingToSend
  <2>2. Delivery!PassNothing(who)
    BY <1>1, <1>2, <1>3, <2>1 DEF Delivery!PassNothing
  <2>3. QED
    BY <1>2, <2>2
<1>7. QED
  BY <1>4, <1>5, <1>6 DEF Deliver

LEMMA FinishReports ==
  ASSUME TurnTyped, ReportInStep, Finish
  PROVE  Delivery!Report
<1>1. /\ routing = "sending" /\ who \notin DOMAIN route.recipients /\ routing' = "reported"
      /\ phase' = "replied"
      /\ UNCHANGED <<findings, verdict, parcels, got, delivered, failed>>
  BY DEF Finish, Report, segmentVars, sendVars, checkVars, auditVars
<1>2. RouterTypeOK
  BY TypedParts DEF TurnTyped
<1>3. Len(route.recipients) \in Nat /\ DOMAIN got = 1..Len(route.recipients)
      /\ DOMAIN route.recipients = DOMAIN got
  BY <1>2, RecipientsNumbered DEF RouterTypeOK
<1>4. DOMAIN got = delivered \cup failed
  <2>1. who = Len(route.recipients) + 1
    BY <1>1, <1>3 DEF ReportInStep
  <2>2. delivered \cup failed = {k \in DOMAIN got : k < who}
    BY DEF ReportInStep
  <2>3. QED
    BY <1>3, <2>1, <2>2
<1>5. Packed /\ Packed' /\ Status = "sending" /\ Status' = "reported" /\ Objected' = Objected
  BY <1>1 DEF Packed, Status, Objected, Held, TurnTyped, InOrder
<1>6. QED
  BY <1>1, <1>4, <1>5 DEF Delivery!Report, Delivery!Settled, Delivery!arrivalVars

\* A turn implements the delivery of a reply that is judged once: for all inputs
\* and answers, and wherever calls, audits, timers and sends come in, nothing of a
\* reply that is held or has failed reaches anyone, and one that is cleared reaches
\* one recipient after the other, in order, as the report says.
THEOREM RepliesAreDelivered == TurnSafety => ImplementsReplyDelivery
<1>1. TurnInit => Delivery!AbsInit
  BY DEF TurnInit, RouterInit, AuditInit, Delivery!AbsInit, Status, Objected, Held, Packed
<1>2. TurnInit => JudgedInStep /\ ReportInStep
  BY DEF TurnInit, RouterInit, AuditInit, JudgedInStep, ReportInStep
<1>3. TurnTyped /\ JudgedInStep /\ ReportInStep /\ [TurnNext]_vars =>
        [Delivery!AbsNext]_Delivery!absVars
  <2> SUFFICES ASSUME TurnTyped, JudgedInStep, ReportInStep, [TurnNext]_vars
               PROVE  Delivery!AbsNext \/ UNCHANGED Delivery!absVars
    OBVIOUS
  <2>1. CASE RouteOutput
    BY <2>1, RouteDelivers DEF Delivery!AbsNext
  <2>2. CASE Format
    BY <2>2, FormatDelivers DEF Delivery!AbsNext
  <2>3. CASE Deliver
    BY <2>3, DeliverDelivers DEF Delivery!AbsNext
  <2>4. CASE Finish
    BY <2>4, FinishReports DEF Delivery!AbsNext
  <2>5. CASE ~ (RouteOutput \/ Format \/ Deliver \/ Finish)
    BY <2>5, StagesJudge DEF Delivery!AbsNext
  <2>6. QED
    BY <2>1, <2>2, <2>3, <2>4, <2>5
<1>4. QED
  BY <1>1, <1>2, <1>3, StepKeepsJudgement, StepKeepsReport, TurnAlwaysTyped, PTL
  DEF TurnSafety, ImplementsReplyDelivery, Delivery!AbsSpec

-----------------------------------------------------------------------------
(* Every step descends, and no stage is stuck: what can be proved of the   *)
(* end of a turn without fairness.                                         *)

LEMMA MeasureIsBounded ==
  ASSUME TurnTyped, CallInStep, ReportInStep, SegmentsInStep PROVE Measured
<1>1. /\ phase \in Phase /\ InOrder /\ PromptTypeOK /\ CallTypeOK /\ RouterTypeOK
  BY TypedParts DEF TurnTyped, TurnOwnTypes
<1>2. routing = "sending" => phase = "routing"
  BY <1>1 DEF InOrder
<1>3. Stage \in 0..9
  BY <1>1, <1>2 DEF Stage, Rank, Phase
<1>4. Rounds \in Nat
  <2>1. history \in Seq(Nat) /\ Len(history) \in Nat
    BY <1>1 DEF PromptTypeOK, History
  <2>2. routing = "formatting" => upto + 1 - from \in Nat
    BY <1>1 DEF SegmentsInStep, RouterTypeOK
  <2>3. Len(route.recipients) + 1 - who \in Nat
    BY <1>1, RecipientsNumbered DEF ReportInStep
  <2>4. QED
    BY <2>1, <2>2, <2>3 DEF Rounds
<1>5. ToSend \in Nat
  <2>1. CASE Sending
    <3>1. /\ who \in DOMAIN got /\ got[who] \in Seq(Nat)
          /\ Len(parcels) \in Nat /\ next \in Nat
      BY <1>1, <2>1, RecipientsNumbered DEF Sending, RouterTypeOK
    <3>2. Len(got[who]) = next - 1 /\ Len(got[who]) <= Len(parcels)
      BY <3>1 DEF ReportInStep
    <3>3. QED
      BY <2>1, <3>1, <3>2 DEF ToSend
  <2>2. QED
    BY <2>1 DEF ToSend
<1>6. Awaited \in Nat
  <2>1. Len(Sent(answer)) \in Nat /\ Len(buffer) \in Nat /\ Len(buffer) <= Len(Sent(answer))
    BY <1>1, SentIsHead DEF CallTypeOK, Text, CallInStep
  <2>2. AwaitedFetches \in Nat /\ AwaitedAudit \in Nat
    BY DEF AwaitedFetches, AwaitedAudit
  <2>3. AwaitedDeltas \in Nat
    BY <2>1 DEF AwaitedDeltas
  <2>4. QED
    BY <2>2, <2>3 DEF Awaited
<1>7. QED
  BY <1>3, <1>4, <1>5, <1>6 DEF Measured

\* Most steps lead to a later stage.
Advances ==
  \/ Classify \/ ClassificationFails \/ Load \/ LoadError \/ Assemble \/ AssembleFails
  \/ CallReturns \/ CallFails \/ Check \/ AuditReturns \/ AuditFails \/ RouteOutput \/ Finish

LEMMA AdvancingLowers ==
  ASSUME TurnTyped, TurnTyped', Advances PROVE Stage' > Stage
<1>1. /\ phase \in Phase /\ phase' \in Phase /\ InOrder /\ InOrder'
  BY DEF TurnTyped, TurnTypeOK
<1>2. CASE Finish
  <2>1. phase = "routing" /\ routing = "sending" /\ phase' = "replied" /\ routing' = "reported"
    BY <1>1, <1>2 DEF Finish, Report, InOrder
  <2>2. Stage = 8 /\ Stage' = 9
    BY <2>1 DEF Stage, Rank
  <2>3. QED
    BY <2>2
<1>3. CASE RouteOutput
  <2>1. phase = "cleared" /\ routing # "sending" /\ phase' \in {"routing", "error"}
    BY <1>1, <1>3 DEF RouteOutput, InOrder
  <2>2. QED
    BY <1>1, <2>1 DEF Stage, Rank, InOrder
<1>4. CASE ~ RouteOutput /\ ~ Finish
  <2>1. \/ phase = "received" /\ phase' \in {"loading", "error"}
        \/ phase = "loading" /\ phase' \in {"assembling", "error"}
        \/ phase = "assembling" /\ phase' \in {"calling", "error"}
        \/ phase = "calling" /\ phase' \in {"checking", "error"}
        \/ phase = "checking" /\ phase' \in {"auditing", "cleared", "error"}
        \/ phase = "auditing" /\ phase' \in {"cleared", "held", "error"}
    BY <1>4 DEF Advances, Classify, ClassificationFails, Load, LoadError, Assemble, AssembleFails,
         CallReturns, CallFails, Check, AuditReturns, AuditFails
  <2>2. routing # "sending" /\ routing' # "sending"
    BY <1>1, <2>1 DEF InOrder
  <2>3. QED
    BY <2>1, <2>2 DEF Stage, Rank
<1>5. QED
  BY <1>2, <1>3, <1>4

\* The other stages go in rounds.
LEMMA CutLowers ==
  ASSUME TurnTyped, SegmentsInStep, Format
  PROVE  Stage' > Stage \/ (Stage' = Stage /\ Rounds' < Rounds)
<1>1. /\ InOrder /\ RouterTypeOK /\ Limit \in Nat \ {0} /\ phase' = phase
      /\ routing = "formatting" /\ phase = "routing"
      /\ from \in Nat /\ upto \in Nat
  BY TypedParts, RouterAssumption
     DEF TurnTyped, InOrder, RouterTypeOK, Format, CutAtSentence, CutAtLimit, TakeRest
<1>2. CASE TakeRest
  <2>1. routing' = "sending"
    BY <1>2 DEF TakeRest
  <2>2. Stage = 7 /\ Stage' = 8
    BY <1>1, <2>1 DEF Stage, Rank
  <2>3. QED
    BY <2>2
<1>3. CASE CutAtSentence \/ CutAtLimit
  <2>1. PICK last \in Nat, cut \in BOOLEAN : from <= last /\ TakeSegment(last, cut)
    <3>1. CASE CutAtSentence
      <4>1. PICK b \in Boundaries : TakeSegment(b, FALSE)
        BY <3>1 DEF CutAtSentence
      <4>2. b \in Nat /\ from <= b
        BY <1>1, <4>1 DEF Boundaries
      <4>3. QED
        BY <4>1, <4>2
    <3>2. CASE CutAtLimit
      <4>1. from + Limit - 1 \in Nat /\ from <= from + Limit - 1
        BY <1>1
      <4>2. QED
        BY <3>2, <4>1 DEF CutAtLimit
    <3>3. QED
      BY <1>3, <3>1, <3>2
  <2>2. from' \in (last + 1)..upto /\ upto' = upto /\ routing' = "formatting"
    BY <1>1, <2>1 DEF TakeSegment
  <2>3. Stage' = Stage
    BY <1>1, <2>2 DEF Stage
  <2>4. Rounds = upto + 1 - from /\ Rounds' = upto + 1 - from'
    BY <1>1, <2>2 DEF Rounds
  <2> DEFINE f == from'
  <2>5. f \in Int /\ from < f
    BY <1>1, <2>1, <2>2
  <2> HIDE DEF f
  <2>6. from \in Int /\ upto \in Int
    BY <1>1
  <2>7. upto + 1 - f < upto + 1 - from
    BY <2>5, <2>6
  <2>8. upto + 1 - from' < upto + 1 - from
    BY <2>7 DEF f
  <2>9. Rounds' < Rounds
    BY <2>4, <2>8
  <2>10. QED
    BY <2>3, <2>9
<1>4. QED
  BY <1>2, <1>3 DEF Format

LEMMA SendLowers ==
  ASSUME TurnTyped, ReportInStep, Deliver
  PROVE  /\ Stage' = Stage
         /\ Rounds' < Rounds \/ (Rounds' = Rounds /\ ToSend' < ToSend)
<1>1. /\ InOrder /\ RouterTypeOK /\ phase' = phase
      /\ UNCHANGED <<routing, route, parcels>> /\ Sending
  BY TypedParts DEF TurnTyped, Deliver, Send, SendFails, NothingToSend, segmentVars
<1> DEFINE n == Len(route.recipients)
<1>2. phase = "routing" /\ routing = "sending"
  BY <1>1 DEF Sending, InOrder
<1>3. who \in Nat /\ next \in Nat /\ Len(parcels) \in Nat /\ n \in Nat
  BY <1>1, RecipientsNumbered DEF RouterTypeOK
<1>4. Stage' = Stage
  BY <1>1 DEF Stage
<1>5. Rounds = n + 1 - who /\ Rounds' = n + 1 - who'
  BY <1>1, <1>2 DEF Rounds
<1> HIDE DEF n
<1>6. who' = who + 1 \/ (who' = who /\ next' = next + 1)
  BY DEF Deliver, Send, SendFails, NothingToSend, NextRecipient
<1>7. CASE who' = who + 1
  <2>1. n + 1 - who' < n + 1 - who
    BY <1>3, <1>7
  <2>2. Rounds' < Rounds
    BY <1>5, <2>1
  <2>3. QED
    BY <1>4, <2>2
<1>8. CASE who' = who /\ next' = next + 1
  <2>1. Sending'
    BY <1>1, <1>8 DEF Sending
  <2>2. ToSend = Len(parcels) + 1 - next /\ ToSend' = Len(parcels) + 1 - (next + 1)
    BY <1>1, <1>8, <2>1 DEF ToSend
  <2>3. ToSend' < ToSend
    BY <1>3, <2>2
  <2>4. QED
    BY <1>4, <1>5, <1>8, <2>3
<1>9. QED
  BY <1>6, <1>7, <1>8

LEMMA TrimLowers ==
  ASSUME TurnTyped, Trim PROVE Stage' = Stage /\ Rounds' < Rounds
<1>1. /\ history \in Seq(Nat) /\ history # <<>> /\ history' = Tail(history)
      /\ phase = "assembling" /\ phase' = phase
      /\ routing \notin {"formatting", "sending"} /\ routing' = routing
  BY TypedParts DEF TurnTyped, InOrder, PromptTypeOK, History, Trim, TrimOldest, routerVars
<1>2. Len(history) \in Nat /\ Len(history') < Len(history)
  BY <1>1
<1>3. Stage' = Stage
  BY <1>1 DEF Stage
<1>4. Rounds = Len(history) /\ Rounds' = Len(history')
  BY <1>1 DEF Rounds
<1>5. QED
  BY <1>2, <1>3, <1>4

\* What arrives beside the stages.
Arrives == FetchAnswers \/ Delta \/ AuditIsLate

LEMMA ArrivalLowers ==
  ASSUME TurnTyped, CallInStep, Arrives
  PROVE  Stage' = Stage /\ Rounds' = Rounds /\ ToSend' = ToSend /\ Awaited' < Awaited
<1>1. LoadTypeOK /\ CallTypeOK
  BY TypedParts DEF TurnTyped
<1>2. UNCHANGED <<phase, routing, history, upto, from, route, who, next, parcels>>
  BY DEF Arrives, FetchAnswers, Delta, AuditIsLate, promptVars, routerVars
<1>3. Stage' = Stage /\ Rounds' = Rounds
  BY <1>2 DEF Stage, Rounds
<1>4. ToSend' = ToSend
  BY <1>2 DEF ToSend, Sending
<1>5. AwaitedFetches \in Int /\ AwaitedDeltas \in Int /\ AwaitedAudit \in Int
  <2>1. Len(Sent(answer)) \in Nat /\ Len(buffer) \in Nat
    BY <1>1, SentIsHead DEF CallTypeOK, Text
  <2>2. QED
    BY <2>1 DEF AwaitedFetches, AwaitedDeltas, AwaitedAudit
<1>6. CASE FetchAnswers
  <2>1. UNCHANGED <<request, stream, answer, buffer>>
    BY <1>6 DEF FetchAnswers, auditVars, callVars
  <2>2. \/ /\ fetch["profile"] = "pending" /\ fetch'["profile"] # "pending"
           /\ fetch'["settings"] = fetch["settings"]
        \/ /\ fetch["settings"] = "pending" /\ fetch'["settings"] # "pending"
           /\ fetch'["profile"] = fetch["profile"]
    BY <1>1, <1>6 DEF FetchAnswers, ProfileAnswers, SettingsRead, SettingsFail, LoadTypeOK, Fetch
  <2>3. AwaitedFetches' = AwaitedFetches - 1
    BY <2>2 DEF AwaitedFetches
  <2>4. AwaitedDeltas' = AwaitedDeltas /\ AwaitedAudit' = AwaitedAudit
    BY <2>1 DEF AwaitedDeltas, AwaitedAudit
  <2>5. QED
    BY <1>3, <1>4, <1>5, <2>3, <2>4 DEF Awaited
<1>7. CASE Delta
  <2>1. /\ UNCHANGED <<fetch, request, stream, answer>> /\ stream \in {"open", "aborted"}
        /\ buffer' = Append(buffer, answer[Len(buffer) + 1])
    BY <1>7 DEF Delta, TextDelta, loadVars, auditVars
  <2>2. Len(buffer') = Len(buffer) + 1 /\ Len(buffer) \in Nat /\ Len(Sent(answer)) \in Nat
    BY <1>1, <2>1, SentIsHead DEF CallTypeOK, Text
  <2>3. AwaitedDeltas' = Len(Sent(answer)) - (Len(buffer) + 1)
    BY <2>1, <2>2 DEF AwaitedDeltas
  <2>4. AwaitedDeltas' = AwaitedDeltas - 1
    BY <2>1, <2>2, <2>3 DEF AwaitedDeltas
  <2>5. AwaitedFetches' = AwaitedFetches /\ AwaitedAudit' = AwaitedAudit
    BY <2>1 DEF AwaitedFetches, AwaitedAudit
  <2>6. QED
    BY <1>3, <1>4, <1>5, <2>4, <2>5 DEF Awaited
<1>8. CASE AuditIsLate
  <2>1. UNCHANGED <<fetch, stream, answer, buffer>> /\ request = "pending" /\ request' = "lost"
    BY <1>8 DEF AuditIsLate, AuditAnswersLate, loadVars, callVars
  <2>2. AwaitedAudit' = AwaitedAudit - 1
    BY <2>1 DEF AwaitedAudit
  <2>3. AwaitedDeltas' = AwaitedDeltas /\ AwaitedFetches' = AwaitedFetches
    BY <2>1 DEF AwaitedDeltas, AwaitedFetches
  <2>4. QED
    BY <1>3, <1>4, <1>5, <2>2, <2>3 DEF Awaited
<1>9. QED
  BY <1>6, <1>7, <1>8 DEF Arrives

LEMMA StepLowers ==
  TurnTyped /\ CallInStep /\ ReportInStep /\ SegmentsInStep /\ [TurnNext]_vars => [Lowered]_vars
<1> SUFFICES ASSUME TurnTyped, CallInStep, ReportInStep, SegmentsInStep, TurnNext PROVE Lowered
  OBVIOUS
<1>1. CASE Advances
  BY <1>1, StepTyped, AdvancingLowers DEF Lowered
<1>2. CASE Trim
  BY <1>2, TrimLowers DEF Lowered
<1>3. CASE Format
  BY <1>3, CutLowers DEF Lowered
<1>4. CASE Deliver
  BY <1>4, SendLowers DEF Lowered
<1>5. CASE Arrives
  BY <1>5, ArrivalLowers DEF Lowered
<1>6. QED
  BY <1>1, <1>2, <1>3, <1>4, <1>5 DEF TurnNext, Advances, Arrives

LEMMA AlwaysInStep == TurnSafety => [](TurnTyped /\ CallInStep /\ ReportInStep /\ SegmentsInStep)
<1>1. TurnInit => ReportInStep /\ SegmentsInStep
  BY DEF TurnInit, RouterInit, ReportInStep, SegmentsInStep
<1>2. QED
  BY <1>1, InitCallInStep, StepKeepsCall, StepKeepsReport, StepKeepsSegments, TurnAlwaysTyped, PTL
     DEF TurnSafety

\* Every step of a turn lowers its measure, which is bounded below: for any history,
\* text, number of recipients and of parcels, and whatever comes late.  With weak
\* fairness that leaves a turn nothing but to end.
THEOREM TurnsDescend == TurnSafety => EveryStepDescends
<1>1. TurnSafety => []Measured
  BY MeasureIsBounded, AlwaysInStep, PTL
<1>2. TurnSafety => [][Lowered]_vars
  BY StepLowers, AlwaysInStep, PTL DEF TurnSafety
<1>3. QED
  BY <1>1, <1>2 DEF EveryStepDescends

\* What a stage waits for has been started, a finished delivery is left, and the
\* parcels of a recipient are not run past.
WaitsInStep ==
  /\ phase = "loading" => \A f \in Fetch : fetch[f] # "idle"
  /\ phase = "auditing" => auditTimer = "set"
  /\ phase = "routing" => routing \in {"formatting", "sending"}
  /\ next = 1 \/ next \in DOMAIN parcels

LEMMA StepKeepsWaits ==
  TurnTyped /\ ReportInStep /\ WaitsInStep /\ [TurnNext]_vars => WaitsInStep'
<1> SUFFICES ASSUME TurnTyped, ReportInStep, WaitsInStep, [TurnNext]_vars PROVE WaitsInStep'
  OBVIOUS
<1>1. CASE Classify
  BY <1>1 DEF Classify, StartFetches, routerVars, WaitsInStep
<1>2. CASE FetchAnswers
  <2>1. UNCHANGED <<phase, auditTimer, routing, next, parcels>>
    BY <1>2 DEF FetchAnswers, auditVars, routerVars
  <2>2. \A f \in Fetch : fetch[f] # "idle" => fetch'[f] # "idle"
    BY <1>2, TypedParts
       DEF TurnTyped, LoadTypeOK, Fetch, FetchAnswers, ProfileAnswers, SettingsRead, SettingsFail
  <2>3. QED
    BY <2>1, <2>2 DEF WaitsInStep
<1>3. CASE ClassificationFails \/ Load \/ LoadError \/ Trim \/ Assemble \/ AssembleFails
  BY <1>3 DEF ClassificationFails, Load, LoadError, Trim, Assemble, AssembleFails, routerVars,
       WaitsInStep
<1>4. CASE Delta
  BY <1>4 DEF Delta, loadVars, auditVars, routerVars, WaitsInStep
<1>5. CASE CallReturns \/ CallFails \/ AuditReturns \/ AuditFails
  BY <1>5 DEF CallReturns, CallFails, AuditReturns, AuditFails, routerVars, WaitsInStep
<1>6. CASE Check
  BY <1>6 DEF Check, StartAudit, routerVars, WaitsInStep
<1>7. CASE AuditIsLate
  BY <1>7 DEF AuditIsLate, AuditAnswersLate, loadVars, routerVars, WaitsInStep
<1>8. CASE RouteOutput
  <2>1. next = 1
    BY <1>8, TypedParts DEF TurnTyped, InOrder, RouteOutput, ReportInStep
  <2>2. QED
    BY <1>8, <2>1 DEF RouteOutput, RouteToSms, RouteWhole, RouteRefused, Accept, WaitsInStep
<1>9. CASE Format
  <2>1. /\ phase = "routing" /\ next = 1 /\ routing' \in {"formatting", "sending"}
        /\ UNCHANGED <<phase, next>>
    BY <1>9, TypedParts
       DEF TurnTyped, InOrder, ReportInStep, Format, CutAtSentence, CutAtLimit, TakeSegment,
           TakeRest, sendVars
  <2>2. QED
    BY <2>1 DEF WaitsInStep
<1>10. CASE Deliver
  <2>1. phase = "routing" /\ routing = "sending" /\ UNCHANGED <<phase, routing, parcels>>
    BY <1>10, TypedParts
       DEF TurnTyped, InOrder, Deliver, Send, SendFails, NothingToSend, Sending, segmentVars
  <2>2. next' = 1 \/ (next \in DOMAIN parcels /\ next # Len(parcels) /\ next' = next + 1)
    BY <1>10 DEF Deliver, Send, SendFails, NothingToSend, NextRecipient
  <2>3. Len(parcels) \in Nat /\ DOMAIN parcels = 1..Len(parcels)
    BY TypedParts DEF TurnTyped, RouterTypeOK
  <2>4. next' = 1 \/ next' \in DOMAIN parcels
    BY <2>2, <2>3
  <2>5. QED
    BY <2>1, <2>4 DEF WaitsInStep
<1>11. CASE Finish
  BY <1>11 DEF Finish, Report, segmentVars, sendVars, WaitsInStep
<1>12. CASE UNCHANGED vars
  BY <1>12 DEF vars, loadVars, auditVars, routerVars, WaitsInStep
<1>13. QED
  BY <1>1, <1>2, <1>3, <1>4, <1>5, <1>6, <1>7, <1>8, <1>9, <1>10, <1>11, <1>12 DEF TurnNext

\* A non-empty set of numbers up to a bound has a greatest element.
LEMMA NatMax ==
  ASSUME NEW b \in Nat, NEW T, T \subseteq 0..b, T # {} PROVE \E x \in T : \A y \in T : y <= x
<1> DEFINE U == {n \in Nat : b - n \in T}
<1>1. U # {}
  <2>1. PICK t \in T : TRUE
    OBVIOUS
  <2>2. b - t \in Nat /\ b - (b - t) = t
    BY <2>1
  <2>3. QED
    BY <2>1, <2>2
<1>2. PICK n \in U : \A m \in U : n <= m
  <2>1. U \subseteq Nat
    OBVIOUS
  <2> HIDE DEF U
  <2>2. QED
    BY <1>1, <2>1, NatMin
<1>3. ASSUME NEW y \in T PROVE y <= b - n
  <2>1. y \in Nat /\ b - y \in Nat /\ b - (b - y) = y
    OBVIOUS
  <2>2. n <= b - y
    BY <1>2, <2>1
  <2>3. QED
    BY <1>2, <2>1, <2>2
<1>4. QED
  BY <1>2, <1>3

\* Text that begins and ends with a word can be cut anywhere in between.
LEMMA CutExists ==
  ASSUME RouterTypeOK, Word(from), Word(upto), upto <= Len(text), 1 <= from,
         NEW last \in Nat, from <= last, last < upto
  PROVE  CanCut(last)
<1>1. from \in Nat /\ upto \in Nat /\ Len(text) \in Nat /\ DOMAIN text = 1..Len(text)
  BY DEF RouterTypeOK, Text
<1>2. \E l \in from..last : Trims(text, from, last, from, l)
  <2> DEFINE words == {p \in from..last : text[p] \notin Gaps}
  <2>1. from \in words /\ words \subseteq 0..last
    BY <1>1 DEF Word
  <2>2. PICK l \in words : \A p \in words : p <= l
    <3> HIDE DEF words
    <3>1. QED
      BY <2>1, NatMax
  <2>3. \A p \in words : from <= p
    BY <1>1
  <2>4. l \in from..last /\ words # {}
    BY <2>1
  <2>5. Trims(text, from, last, from, l)
    BY <2>1, <2>2, <2>3, <2>4 DEF Trims
  <2>6. QED
    BY <2>4, <2>5
<1>3. \E f \in (last + 1)..upto : Trims(text, last + 1, upto, f, upto)
  <2> DEFINE words == {p \in (last + 1)..upto : text[p] \notin Gaps}
  <2>1. upto \in words /\ words \subseteq Nat
    BY <1>1 DEF Word
  <2>2. PICK f \in words : \A p \in words : f <= p
    <3> HIDE DEF words
    <3>1. QED
      BY <2>1, NatMin
  <2>3. \A p \in words : p <= upto
    BY <1>1
  <2>4. f \in (last + 1)..upto /\ words # {}
    BY <2>1
  <2>5. Trims(text, last + 1, upto, f, upto)
    BY <2>1, <2>2, <2>3, <2>4 DEF Trims
  <2>6. QED
    BY <2>4, <2>5
<1>4. QED
  BY <1>2, <1>3 DEF CanCut

LEMMA TextCanBeCut ==
  ASSUME TurnTyped, SegmentsInStep, routing = "formatting", upto - from + 1 > Limit
  PROVE  IF Boundaries = {} THEN CanCut(from + Limit - 1)
         ELSE \E b \in Boundaries : (\A c \in Boundaries : c <= b) /\ CanCut(b)
<1>1. /\ RouterTypeOK /\ Limit \in Nat /\ Limit >= 1 /\ from \in Nat /\ upto \in Nat
      /\ 1 <= from /\ upto <= Len(text)
  BY TypedParts, RouterAssumption DEF TurnTyped, RouterTypeOK, SegmentsInStep
<1>2. Word(from) /\ Word(upto)
  BY <1>1 DEF SegmentsInStep
<1>3. CASE Boundaries = {}
  <2>1. from + Limit - 1 \in Nat /\ from <= from + Limit - 1 /\ from + Limit - 1 < upto
    BY <1>1
  <2>2. QED
    BY <1>1, <1>2, <1>3, <2>1, CutExists
<1>4. CASE Boundaries # {}
  <2>1. from + Limit \in Nat /\ Boundaries \subseteq 0..(from + Limit)
    BY <1>1 DEF Boundaries
  <2>2. PICK b \in Boundaries : \A c \in Boundaries : c <= b
    BY <1>4, <2>1, NatMax
  <2>3. b \in Nat /\ from <= b /\ b < upto
    BY <1>1 DEF Boundaries
  <2>4. CanCut(b)
    BY <1>1, <1>2, <2>3, CutExists
  <2>5. QED
    BY <1>4, <2>2, <2>4
<1>5. QED
  BY <1>3, <1>4

\* A turn that has not ended waits for nothing that cannot come: for every text and
\* limit there is a place to cut, every call and audit under way has a timer, and
\* every recipient being served has a parcel.
THEOREM TurnsAreNeverStuck == TurnSafety => []NoStageIsStuck
<1>1. TurnInit => WaitsInStep
  BY DEF TurnInit, RouterInit, WaitsInStep
<1>2. TurnTyped /\ CallInStep /\ ReportInStep /\ SegmentsInStep /\ WaitsInStep => NoStageIsStuck
  <2> SUFFICES ASSUME TurnTyped, CallInStep, ReportInStep, SegmentsInStep, WaitsInStep
               PROVE  NoStageIsStuck
    OBVIOUS
  <2>1. phase = "calling" => timer = "set"
    BY DEF CallInStep
  <2>2. ASSUME Sending PROVE parcels = <<>> \/ next \in DOMAIN parcels
    <3>1. parcels # <<>> => 1 \in DOMAIN parcels
      BY TypedParts DEF TurnTyped, RouterTypeOK
    <3>2. QED
      BY <3>1 DEF WaitsInStep
  <2>3. QED
    BY <2>1, <2>2, TextCanBeCut DEF WaitsInStep, NoStageIsStuck
<1>3. QED
  BY <1>1, <1>2, StepKeepsWaits, AlwaysInStep, TurnAlwaysTyped, PTL DEF TurnSafety
=============================================================================
