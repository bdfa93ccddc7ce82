---------------------------- MODULE ApprovalGate ----------------------------
(***************************************************************************)
(* orchestration/approvalGate: an output is shown to the user over the     *)
(* WebSocket and held until a decision event with its request id arrives   *)
(* or the timer fires.  A listener and its timer are one entry of hold.    *)
(*                                                                         *)
(* The device and the socket are the environment: the user may decide on   *)
(* anything that was shown, again and differently each time and long after *)
(* the gate gave up (nothing retracts a request); the events reach the     *)
(* emitter in any order, again when the user sends them again, or never.   *)
(***************************************************************************)
EXTENDS Naturals, FiniteSets

CONSTANTS
  Calls,       \* the tool calls
  RequestIds   \* the correlation ids their inputs carry

\* The decisions a caller of the gate tells apart: runGate takes everything
\* but "approve" for a rejection, the offered option "edit" included.
ApprovalDecision == {"approve", "reject"}

VARIABLES
  requestId,   \* requestId[c]: the id the gate of call c listens for
  hold,        \* hold[c]: "none", "waiting", or how the gate of c settled
  shown,       \* calls whose request went out on the socket
  decided,     \* history: <<c, d>> when the user, looking at c, sent d
  inbox        \* decision events in flight

approvalVars == <<requestId, hold, shown, decided, inbox>>

DecisionEvent == [requestId : RequestIds, decision : ApprovalDecision]
HoldState == {"none", "waiting", "timeout", "send_error"} \cup ApprovalDecision

ApprovalTypeOK ==
  /\ requestId \in [Calls -> RequestIds]
  /\ hold \in [Calls -> HoldState]
  /\ shown \subseteq Calls
  /\ decided \subseteq Calls \X ApprovalDecision
  /\ inbox \subseteq DecisionEvent

ApprovalInit ==
  /\ requestId \in [Calls -> RequestIds]
  /\ hold = [c \in Calls |-> "none"]
  /\ shown = {}
  /\ decided = {}
  /\ inbox = {}

Waiting(c) == hold[c] = "waiting"
Settled(c) == hold[c] \notin {"none", "waiting"}

-----------------------------------------------------------------------------
(* The gate.                                                               *)

\* The request is sent and the listener registered in one synchronous run.
SendApprovalRequest(c) ==
  /\ hold[c] = "none"
  /\ hold' = [hold EXCEPT ![c] = "waiting"]
  /\ shown' = shown \cup {c}
  /\ UNCHANGED <<requestId, decided, inbox>>

\* wsSend throws: no listener, no timer.
SendFails(c) ==
  /\ hold[c] = "none"
  /\ hold' = [hold EXCEPT ![c] = "send_error"]
  /\ UNCHANGED <<requestId, shown, decided, inbox>>

\* Mutant: onDecision does not compare request ids.
ListenersAll(e) == {c \in Calls : Waiting(c)}

\* The listeners that onDecision does not turn away.
Listeners(e) == {c \in Calls : Waiting(c) /\ requestId[c] = e.requestId}

\* Mutant: the listener is left on the emitter, and the last decision wins.
EmitDecisionAgain(e) ==
  /\ e \in inbox
  /\ inbox' = inbox \ {e}
  /\ hold' = [c \in Calls |->
                IF requestId[c] = e.requestId /\ hold[c] # "none"
                  THEN e.decision ELSE hold[c]]
  /\ UNCHANGED <<requestId, shown, decided>>

\* One emit runs every registered listener; an event nobody waits for is gone.
EmitDecision(e) ==
  /\ e \in inbox
  /\ inbox' = inbox \ {e}
  /\ hold' = [c \in Calls |-> IF c \in Listeners(e) THEN e.decision ELSE hold[c]]
  /\ UNCHANGED <<requestId, shown, decided>>

\* Mutant: any decision of the user clears the timer, heard or not.
TimeOutUnlessDecided(c) ==
  /\ Waiting(c)
  /\ ~ \E d \in ApprovalDecision : <<c, d>> \in decided
  /\ hold' = [hold EXCEPT ![c] = "timeout"]
  /\ UNCHANGED <<requestId, shown, decided, inbox>>

TimeOut(c) ==
  /\ Waiting(c)
  /\ hold' = [hold EXCEPT ![c] = "timeout"]
  /\ UNCHANGED <<requestId, shown, decided, inbox>>

-----------------------------------------------------------------------------
(* The user and the socket.                                                *)

Decide(c, d) ==
  /\ c \in shown
  /\ decided' = decided \cup {<<c, d>>}
  /\ inbox' = inbox \cup {[requestId |-> requestId[c], decision |-> d]}
  /\ UNCHANGED <<requestId, hold, shown>>
=============================================================================
