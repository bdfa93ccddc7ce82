----------------------------- MODULE ModelAudit -----------------------------
(***************************************************************************)
(* backend/src/orchestration/modelAudit.ts: when the second audit runs,    *)
(* its request and its timer, and what counts as a verdict.  On a timeout  *)
(* the request is not aborted: its answer may arrive later and is lost.    *)
(***************************************************************************)
EXTENDS Preflight

VARIABLES
  request,     \* the API call: "none", "pending", "answered", "failed" or "lost"
  auditTimer,
  verdict      \* the AuditResult, the cause of a ModelAuditError, or "none"

auditVars == <<request, auditTimer, verdict>>

AuditResult == {"pass", "flag", "revise"}
AuditCause == {"timeout", "api_error", "invalid_json", "config_error"}

\* An answer of the API: whether it has a text block with a JSON object, and
\* that object's fields ("else": a result that is not one of the three).
AuditAnswer ==
  [object : BOOLEAN, result : AuditResult \cup {"else"}, issue : BOOLEAN, correction : BOOLEAN]

\* Mutant: the result is not looked at.
ResultAsGiven(a) == IF a.object THEN a.result ELSE "invalid_json"

\* A verdict other than pass must say what is wrong and what to do about it.
ParseAuditResponse(a) ==
  IF a.object /\ (a.result = "pass" \/ (a.result \in AuditResult /\ a.issue /\ a.correction))
  THEN a.result ELSE "invalid_json"

UnackedSafety(c, session) == (c.flags \cap SafetyFlags) \ session.acked

\* Mutant: the kind of event does not count.
AuditUnlessClean(event, c, session, flags) ==
  ~ /\ PreflightPass(flags)
    /\ UnackedSafety(c, session) = {}

\* Skipped only for a clean reply to a user message without open safety flags.
ShouldRunModelAudit(event, c, session, flags) ==
  ~ /\ event.type = "user_message"
    /\ PreflightPass(flags)
    /\ UnackedSafety(c, session) = {}

-----------------------------------------------------------------------------
AuditTypeOK ==
  /\ request \in {"none", "pending", "answered", "failed", "lost"}
  /\ auditTimer \in {"unset", "set", "cleared", "fired"}
  /\ verdict \in AuditResult \cup AuditCause \cup {"none"}

AuditInit == request = "none" /\ auditTimer = "unset" /\ verdict = "none"

\* The prompt file cannot be loaded: no request, no timer.
AuditConfigFails == verdict' = "config_error" /\ UNCHANGED <<request, auditTimer>>

StartAudit == request' = "pending" /\ auditTimer' = "set" /\ UNCHANGED verdict

AuditAnswers(a) ==
  /\ request = "pending" /\ auditTimer = "set"
  /\ request' = "answered" /\ auditTimer' = "cleared"
  /\ verdict' = ParseAuditResponse(a)

AuditRequestFails ==
  /\ request = "pending" /\ auditTimer = "set"
  /\ request' = "failed" /\ auditTimer' = "cleared" /\ verdict' = "api_error"

AuditTimesOut ==
  /\ auditTimer = "set"
  /\ auditTimer' = "fired" /\ verdict' = "timeout"
  /\ UNCHANGED request

\* The race is over: nobody reads what arrives now.
AuditAnswersLate ==
  /\ request = "pending" /\ auditTimer = "fired"
  /\ request' = "lost"
  /\ UNCHANGED <<auditTimer, verdict>>
=============================================================================
