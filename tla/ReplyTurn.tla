----------------------------- MODULE ReplyTurn ------------------------------
(***************************************************************************)
(* One turn from an event to a delivered reply: classify, load, assemble,  *)
(* call, audit, route.  Each stage is a module of the repository.  The     *)
(* orchestrator that strings them together is not written yet; it is       *)
(* modelled here from the headers and types of the stages: an error ends   *)
(* the turn, and only a reply that its audits let through is routed.       *)
(*                                                                         *)
(* The stages share nothing but what they hand on, and turns share nothing *)
(* at all, so one turn is every turn.                                      *)
(***************************************************************************)
EXTENDS PromptAssembler, PrimaryCall, ModelAudit, OutputRouter

CONSTANTS
  RawInputs,      \* what may come in
  Sessions,       \* the sessions it may come in for
  Conversations,  \* and their histories
  SettingsRows,   \* what user_settings may hold
  Answers,        \* what the model may have to say
  AuditReplies,   \* what the auditing model may answer
  SignalSets,     \* what the turn may have done
  Routes          \* where the reply may have to go

VARIABLES
  phase,      \* the stage the turn is in
  raw,        \* what came in
  session,    \* the SessionState of the turn
  event,      \* the ProcessedEvent, or None
  signals,
  findings    \* the preflight flags

turnVars == <<raw, session>>
checkVars == <<signals, findings>>
vars == <<phase, turnVars, event, loadVars, promptVars, callVars, checkVars, auditVars, routerVars>>

ASSUME TurnAssumption ==
  /\ RawInputs \subseteq RawInput /\ Sessions \subseteq Session
  /\ Conversations \subseteq History
  /\ \A rows \in SettingsRows : rows \in Seq(SettingRow)
  /\ Answers \subseteq Text /\ AuditReplies \subseteq AuditAnswer
  /\ SignalSets \subseteq Signals /\ Routes \subseteq Route

Phase ==
  {"received", "loading", "assembling", "calling", "checking", "auditing", "cleared",
   "routing", "replied", "held", "error"}

Ended == phase \in {"replied", "held", "error"}

TurnInit ==
  /\ phase = "received"
  /\ raw \in RawInputs /\ session \in Sessions
  /\ event = None
  /\ signals \in SignalSets /\ findings = {}
  /\ LoadInit
  /\ \E conversation \in Conversations : PromptInit(conversation)
  /\ CallInit /\ AuditInit /\ RouterInit

-----------------------------------------------------------------------------
(* From the event to the prompt.                                           *)

Classify ==
  /\ phase = "received" /\ HasContent(raw)
  /\ event' = ClassifyEvent(raw)
  /\ StartFetches
  /\ phase' = "loading"
  /\ UNCHANGED <<turnVars, promptVars, callVars, checkVars, auditVars, routerVars>>

ClassificationFails ==
  /\ phase = "received" /\ ~ HasContent(raw)
  /\ phase' = "error"
  /\ UNCHANGED <<turnVars, event, loadVars, promptVars, callVars, checkVars, auditVars, routerVars>>

\* The fetches answer whether or not the other has already failed the load.
FetchAnswers ==
  /\ \/ \E result \in {"ok", "failed"} : ProfileAnswers(result)
     \/ \E rows \in SettingsRows : SettingsRead(rows)
     \/ SettingsFail
  /\ UNCHANGED <<phase, turnVars, event, promptVars, callVars, checkVars, auditVars, routerVars>>

Load ==
  /\ phase = "loading"
  /\ LoadContext(event, session)
  /\ phase' = "assembling"
  /\ UNCHANGED <<turnVars, event, promptVars, callVars, checkVars, auditVars, routerVars>>

LoadError ==
  /\ phase = "loading"
  /\ LoadFails
  /\ phase' = "error"
  /\ UNCHANGED <<turnVars, event, promptVars, callVars, checkVars, auditVars, routerVars>>

Trim ==
  /\ phase = "assembling"
  /\ TrimOldest(event)
  /\ UNCHANGED <<phase, turnVars, event, loadVars, callVars, checkVars, auditVars, routerVars>>

Assemble ==
  /\ phase = "assembling"
  /\ AssemblePrompt(event)
  /\ \/ \E answered \in Answers : OpenStream(answered) /\ phase' = "calling"
     \/ OpenFails /\ phase' = "error"
  /\ UNCHANGED <<turnVars, event, loadVars, checkVars, auditVars, routerVars>>

\* The file of the system prompt cannot be loaded.
AssembleFails ==
  /\ phase = "assembling" /\ trimmed = 0
  /\ phase' = "error"
  /\ UNCHANGED <<turnVars, event, loadVars, promptVars, callVars, checkVars, auditVars, routerVars>>

-----------------------------------------------------------------------------
(* The call and the two audits.                                            *)

Delta ==
  /\ TextDelta
  /\ UNCHANGED <<phase, turnVars, event, loadVars, promptVars, checkVars, auditVars, routerVars>>

CallReturns ==
  /\ phase = "calling"
  /\ FinalMessage
  /\ phase' = IF reply' = NoReply THEN "error" ELSE "checking"
  /\ UNCHANGED <<turnVars, event, loadVars, promptVars, checkVars, auditVars, routerVars>>

CallFails ==
  /\ phase = "calling"
  /\ StreamFails \/ TimeOut
  /\ phase' = "error"
  /\ UNCHANGED <<turnVars, event, loadVars, promptVars, checkVars, auditVars, routerVars>>

\* Preflight, the threshold and the start of the audit run without an await.
Check ==
  /\ phase = "checking"
  /\ findings' = RunPreflight(reply, event, context, session, signals)
  /\ \/ /\ ~ ShouldRunModelAudit(event, context, session, findings')
        /\ phase' = "cleared" /\ UNCHANGED auditVars
     \/ /\ ShouldRunModelAudit(event, context, session, findings')
        /\ \/ StartAudit /\ phase' = "auditing"
           \/ AuditConfigFails /\ phase' = "error"
  /\ UNCHANGED <<turnVars, event, loadVars, promptVars, callVars, signals, routerVars>>

\* A hold of the preflight stays one, whatever the second audit says.
Held == \E rule \in findings : Severity[rule] = "hold"

AuditReturns ==
  /\ phase = "auditing"
  /\ \E a \in AuditReplies : AuditAnswers(a)
  /\ phase' = CASE verdict' = "invalid_json" -> "error"
                [] verdict' = "pass" /\ ~ Held -> "cleared"
                [] OTHER -> "held"
  /\ UNCHANGED <<turnVars, event, loadVars, promptVars, callVars, checkVars, routerVars>>

AuditFails ==
  /\ phase = "auditing"
  /\ AuditRequestFails \/ AuditTimesOut
  /\ phase' = "error"
  /\ UNCHANGED <<turnVars, event, loadVars, promptVars, callVars, checkVars, routerVars>>

AuditIsLate ==
  /\ AuditAnswersLate
  /\ UNCHANGED <<phase, turnVars, event, loadVars, promptVars, callVars, checkVars, routerVars>>

-----------------------------------------------------------------------------
(* Delivery.                                                               *)

RouteOutput ==
  /\ phase = "cleared"
  /\ \E r \in Routes :
       \/ RouteToSms(reply, r) /\ phase' = "routing"
       \/ RouteWhole(reply, r) /\ phase' = "routing"
       \/ RouteRefused(r) /\ phase' = "error"
  /\ UNCHANGED <<turnVars, event, loadVars, promptVars, callVars, checkVars, auditVars>>

Format ==
  /\ CutAtSentence \/ CutAtLimit \/ TakeRest
  /\ UNCHANGED <<phase, turnVars, event, loadVars, promptVars, callVars, checkVars, auditVars>>

Deliver ==
  /\ Send \/ SendFails \/ NothingToSend
  /\ UNCHANGED <<phase, turnVars, event, loadVars, promptVars, callVars, checkVars, auditVars>>

Finish ==
  /\ Report
  /\ phase' = "replied"
  /\ UNCHANGED <<turnVars, event, loadVars, promptVars, callVars, checkVars, auditVars>>

TurnNext ==
  \/ Classify \/ ClassificationFails
  \/ FetchAnswers \/ Load \/ LoadError \/ Trim \/ Assemble \/ AssembleFails
  \/ Delta \/ CallReturns \/ CallFails \/ Check
  \/ AuditReturns \/ AuditFails \/ AuditIsLate
  \/ RouteOutput \/ Format \/ Deliver \/ Finish

\* The event loop runs what is ready, the database and the channels answer one
\* way or the other, and timers fire.  The model need never answer.
TurnFairness ==
  /\ WF_vars(Classify \/ ClassificationFails) /\ WF_vars(FetchAnswers)
  /\ WF_vars(Load \/ LoadError) /\ WF_vars(Trim \/ Assemble)
  /\ WF_vars(CallFails /\ timer' = "fired") /\ WF_vars(Check)
  /\ WF_vars(AuditFails /\ auditTimer' = "fired")
  /\ WF_vars(RouteOutput) /\ WF_vars(Format) /\ WF_vars(Deliver) /\ WF_vars(Finish)

TurnSafety == TurnInit /\ [][TurnNext]_vars
TurnSpec == TurnSafety /\ TurnFairness

-----------------------------------------------------------------------------
TurnTypeOK ==
  /\ phase \in Phase
  /\ raw \in RawInput /\ session \in Session
  /\ event \in Event \cup {None}
  /\ signals \in Signals /\ findings \subseteq Rules
  /\ LoadTypeOK /\ PromptTypeOK /\ CallTypeOK /\ AuditTypeOK /\ RouterTypeOK

\* The reply that the call returns is all that the API sent of it, though it
\* came in pieces against a timer; a call that failed returns nothing, however
\* much had arrived; and no stream runs on beside a settled call.
ReplyIsWholeStream ==
  /\ reply # NoReply => reply = Sent(answer) /\ stream = "ended" /\ timer = "cleared"
  /\ callError # "none" => reply = NoReply /\ phase = "error"
  /\ CallSettled => stream # "open" /\ timer # "set"

\* No safety flag is lost between the session and the user: those nobody has
\* acknowledged are in the prompt of every kind of event, and a reply goes out
\* beside one, or with a finding of the preflight against it, only if the second
\* audit ran and passed it in time.
SafetyIsNeverSkipped ==
  LET open == (session.flags \cap SafetyFlags) \ session.acked IN
  /\ prompt # None => open \subseteq prompt.context.flags
  /\ phase \in {"cleared", "routing", "replied"} =>
       \/ open = {} /\ event.type = "user_message" /\ PreflightPass(findings)
       \/ verdict = "pass" /\ request = "answered" /\ ~ Held

\* What a request takes of the context window, with the room for the response.
WindowUse(messages) ==
  StaticTokens + DynamicTokens(prompt.context) + ResponseReserve
    + EstimateMessagesTokens(Append(messages, Len(event.content)))

\* The request keeps the end of the conversation, fits the context window with
\* input and response unless all of the history is gone, drops no message that
\* would have fitted, and says how many it dropped.
HistoryIsLongestSuffix ==
  prompt # None =>
    \E conversation \in Conversations :
      /\ prompt.history = SubSeq(conversation, prompt.trimmed + 1, Len(conversation))
      /\ prompt.trimmed + Len(prompt.history) = Len(conversation)
      /\ \A n \in 0..(prompt.trimmed - 1) :
           WindowUse(SubSeq(conversation, n + 1, Len(conversation))) > TotalTokens
      /\ prompt.history = <<>> \/ WindowUse(prompt.history) <= TotalTokens

\* Cutting loses no word of the stripped text and repeats none: each is in one
\* segment, in order, or still to come.  A segment has words, and exceeds the
\* limit by nothing but the ellipsis of a hard cut.
SegmentsCarryTheText ==
  routing \in {"formatting", "sending", "reported"} /\ route.channel = "sms" =>
    /\ \A p \in DOMAIN text :
         Word(p) => (from <= p /\ p <= upto) \/ \E k \in DOMAIN parcels :
                       parcels[k].first <= p /\ p <= parcels[k].last
    /\ \A k \in DOMAIN parcels :
         /\ Word(parcels[k].first) /\ Word(parcels[k].last)
         /\ parcels[k].last < from
         /\ Size(parcels[k]) <= Limit + (IF parcels[k].cut THEN 1 ELSE 0)
         /\ \A l \in DOMAIN parcels : k < l => parcels[k].last < parcels[l].first

\* The result of a route is true of what has arrived: a recipient in `delivered`
\* has every parcel, once and in order; one in `failed` the first so many; each
\* is in one of the two, and success means that everybody has everything.
ReportIsTrue ==
  /\ delivered \cap failed = {}
  /\ \A k \in DOMAIN got : got[k] = [i \in 1..Len(got[k]) |-> i] /\ Len(got[k]) <= Len(parcels)
  /\ \A k \in delivered : Len(got[k]) = Len(parcels)
  /\ \A k \in DOMAIN got : k > who => got[k] = <<>>
  /\ routing = "reported" =>
       /\ delivered \cup failed = DOMAIN route.recipients
       /\ Success => \A k \in DOMAIN route.recipients : Len(got[k]) = Len(parcels)

-----------------------------------------------------------------------------
(* What the turn promises of its reply.                                    *)

\* It has its parcels and its recipients.
Packed == routing \in {"sending", "reported"}

Status ==
  CASE phase = "replied" -> "reported"
    [] phase = "routing" /\ Packed -> "sending"
    [] phase \in {"cleared", "routing"} /\ ~ Packed -> "cleared"
    [] phase \in {"held", "error"} -> "withheld"
    [] OTHER -> "open"

Objected == Held \/ verdict \notin {"none", "pass"}

Delivery == INSTANCE ReplyDelivery WITH
  status <- Status, objected <- Objected,
  size <- IF Packed THEN Len(parcels) ELSE 0,
  arrived <- IF Packed THEN got ELSE <<>>,
  complete <- delivered

\* The reply of a turn is judged once and for good: whatever the calls, audits and
\* timers do, nothing of a reply that is held or has failed reaches anyone, then
\* or later.  One that is cleared, which no finding and no late verdict against it
\* allows, reaches one recipient after the other, parcel by parcel in order, none
\* after a failed one; and the report is true of what has arrived.
ImplementsReplyDelivery == Delivery!AbsSpec

\* Every turn comes to an end, though the models may never answer.
EveryTurnEnds == <>Ended

-----------------------------------------------------------------------------
(* Why it does: a measure that every step lowers, and no place to get stuck.*)

Rank ==
  [received |-> 0, loading |-> 1, assembling |-> 2, calling |-> 3, checking |-> 4, auditing |-> 5,
   cleared |-> 6, routing |-> 7, replied |-> 9, held |-> 9, error |-> 9]

Stage == Rank[phase] + (IF routing = "sending" THEN 1 ELSE 0)

\* What a stage that goes in rounds still has before it.
Rounds ==
  CASE phase = "assembling" -> Len(history)
    [] routing = "formatting" -> upto + 1 - from
    [] routing = "sending" -> Len(route.recipients) + 1 - who
    [] OTHER -> 0

ToSend == IF Sending THEN Len(parcels) + 1 - next ELSE 0

\* What may still arrive, some of it for a turn that has ended.
AwaitedFetches ==
  (IF fetch["profile"] = "pending" THEN 1 ELSE 0) + (IF fetch["settings"] = "pending" THEN 1 ELSE 0)

AwaitedDeltas == IF stream \in {"open", "aborted"} THEN Len(Sent(answer)) - Len(buffer) ELSE 0

AwaitedAudit == IF request = "pending" THEN 1 ELSE 0

Awaited == AwaitedFetches + AwaitedDeltas + AwaitedAudit

Measured == Stage \in 0..9 /\ Rounds \in Nat /\ ToSend \in Nat /\ Awaited \in Nat

Lowered ==
  \/ Stage' > Stage
  \/ Stage' = Stage /\ Rounds' < Rounds
  \/ Stage' = Stage /\ Rounds' = Rounds /\ ToSend' < ToSend
  \/ Stage' = Stage /\ Rounds' = Rounds /\ ToSend' = ToSend /\ Awaited' < Awaited

\* No loop of a turn goes round for ever, however late answers and deltas come in
\* between: a step leads to a later stage, or has one message less to trim, less
\* text to cut, one recipient or one parcel less to serve, or one answer less to
\* wait for; and none of these is ever negative.
EveryStepDescends == []Measured /\ [][Lowered]_vars

\* A cut of the text at `last` leaves a segment and a rest that begin and end with
\* a word, as both trims of the loop demand.
CanCut(last) ==
  /\ \E l \in from..last : Trims(text, from, last, from, l)
  /\ \E f \in (last + 1)..upto : Trims(text, last + 1, upto, f, upto)

\* No stage waits for what cannot come: a call or an audit that has not returned
\* has its timer running, text over the limit can be cut where the code cuts it,
\* and there is a parcel for a recipient that is being served.
NoStageIsStuck ==
  /\ phase = "loading" => \A f \in Fetch : fetch[f] # "idle"
  /\ phase = "calling" => timer = "set"
  /\ phase = "auditing" => auditTimer = "set"
  /\ phase = "routing" => routing \in {"formatting", "sending"}
  /\ routing = "formatting" /\ upto - from + 1 > Limit =>
       IF Boundaries = {} THEN CanCut(from + Limit - 1)
       ELSE \E b \in Boundaries : (\A c \in Boundaries : c <= b) /\ CanCut(b)
  /\ Sending => parcels = <<>> \/ next \in DOMAIN parcels
=============================================================================
