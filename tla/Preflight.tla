----------------------------- MODULE Preflight ------------------------------
(***************************************************************************)
(* backend/src/orchestration/preflight.ts: the deterministic audit, a pure *)
(* function of the reply, the event, its context and what the turn did.    *)
(***************************************************************************)
EXTENDS ContextLoader

CONSTANT ShortWords  \* tokens with fewer than four letters and digits

\* What the orchestrator knows of the turn.
Signals == [postApproval : BOOLEAN, actionWasInvoked : BOOLEAN, gateWasInvoked : BOOLEAN]

Severity ==
  [AUTONOMOUS_ACTION_DETECTED |-> "hold", OUTBOUND_DRAFT_WITHOUT_GATE |-> "hold",
   SAFETY_FLAG_NOT_SURFACED |-> "flag", UNVERIFIED_SERIAL_NUMBER |-> "flag",
   UNVERIFIED_COST_FIGURE |-> "flag", SMS_FORMAT_VIOLATION |-> "warn"]

Rules == DOMAIN Severity

AutonomousAction(text) == Says(text, Claims)

OutboundDraftWithoutGate(text) == Says(text, DraftMarks) /\ ~ Says(text, GateMarks)

\* A flag without significant words is passed over.
SafetyFlagNotSurfaced(text, c, session) ==
  \E f \in (c.flags \cap SafetyFlags) \ session.acked :
    LET terms == WordsOf[f] \ ShortWords IN terms # {} /\ ~ Says(text, terms)

IsPhoneContext(text, i) ==
  \E j \in {i - 1, i + 1} \cap DOMAIN text : text[j] \in PhoneMarks

SerialIsVerified(token, c, event) ==
  \/ Finds(Words(event.content), token)
  \/ \E m \in c.machines :
       SerialOf[m] # None /\ (Finds({SerialOf[m]}, token) \/ Finds({token}, SerialOf[m]))

UnverifiedSerial(text, c, event) ==
  \E i \in DOMAIN text :
    /\ text[i] \in Lettered \/ (text[i] \in Numeric /\ ~ IsPhoneContext(text, i))
    /\ ~ SerialIsVerified(text[i], c, event)

\* Positions i and j of a text are in one sentence.
SameSentence(text, i, j) ==
  \A k \in DOMAIN text : (i <= k /\ k <= j) \/ (j <= k /\ k <= i) => text[k] \notin Enders

\* The sentence looked at is the first that holds the amount.  An amount with
\* cents is in none, since the sentences are cut at its point as well.
FramedAsEstimate(text, cost) ==
  /\ cost \notin Cents
  /\ LET first == Min({i \in DOMAIN text : Finds({text[i]}, cost)})
     IN  \E j \in DOMAIN text : text[j] \in Estimates /\ SameSentence(text, first, j)

UnverifiedCost(text, c, event) ==
  \E i \in DOMAIN text :
    /\ text[i] \in Costs
    /\ i = 1 \/ text[i - 1] \notin Tildes
    /\ ~ FramedAsEstimate(text, text[i])
    /\ ~ Finds(Words(event.content) \cup UNION {WordsOf[o] : o \in c.items}, text[i])

\* The rules that fire.
RunPreflight(text, event, c, session, signals) ==
  {rule \in Rules :
    \/ rule = "AUTONOMOUS_ACTION_DETECTED" /\ AutonomousAction(text)
         /\ ~ signals.postApproval /\ ~ signals.actionWasInvoked
    \/ rule = "OUTBOUND_DRAFT_WITHOUT_GATE" /\ OutboundDraftWithoutGate(text)
         /\ ~ signals.postApproval /\ ~ signals.gateWasInvoked
    \/ rule = "SAFETY_FLAG_NOT_SURFACED" /\ SafetyFlagNotSurfaced(text, c, session)
    \/ rule = "UNVERIFIED_SERIAL_NUMBER" /\ UnverifiedSerial(text, c, event)
    \/ rule = "UNVERIFIED_COST_FIGURE" /\ UnverifiedCost(text, c, event)
    \/ rule = "SMS_FORMAT_VIOLATION" /\ event.channel = "sms" /\ Says(text, Markup)}

PreflightPass(flags) == \A rule \in flags : Severity[rule] = "warn"
=============================================================================
