---------------------------- MODULE ToolDispatch ----------------------------
(***************************************************************************)
(* orchestration/orchestratorTools: every tool call runs draft, approval   *)
(* gate, write; or, for the tools that are not gated, a direct write or a  *)
(* read.  Calls run concurrently and each await is a step boundary.  The   *)
(* PO sequence counter lives in the memory of the process; the rows live   *)
(* in SQLite and survive a restart.                                        *)
(***************************************************************************)
EXTENDS ApprovalGate

CONSTANTS
  Users,
  Workloads,   \* the assignments of an input to every call to consider
  MaxBoots     \* bound of the number of restarts

Gated == {"todo_create", "comms_draft", "po_generate"}
Tools == Gated \cup {"todo_update", "log_diagnostic", "read"}
TerminalStatus == {"done", "dismissed"}

\* target and to are meant for todo_update: the todo (named by the call that
\* creates it) and its new status.
ToolCallInput ==
  [tool : Tools, user : Users, requestId : RequestIds, valid : BOOLEAN,
   target : Calls, to : TerminalStatus]

ASSUME DispatchAssumption ==
  /\ Workloads \subseteq [Calls -> ToolCallInput]
  /\ MaxBoots \in Nat

VARIABLES
  input,       \* input[c]: what call c asks for
  stage,       \* stage[c]: how far dispatchToolCall has come in call c
  reply,       \* reply[c]: the ToolCallStatus of call c
  boot,        \* number of restarts so far
  counters,    \* counters[u]: the PO sequence counter of user u
  bootOf,      \* bootOf[c]: the boot in which call c drew its sequence
  sequence,    \* sequence[c]: the PO sequence number of call c, 0 for none
  todos,       \* todos[c]: status of the todo row of call c, or "none"
  orders,      \* calls with a row in orders_log
  diagnostics  \* calls with a row in diagnostic_log

tables == <<todos, orders, diagnostics>>
poVars == <<boot, counters, bootOf, sequence>>
dispatchVars == <<approvalVars, input, stage, reply, poVars, tables>>

Stage == {"idle", "allocated", "gated", "found", "written", "replied", "lost"}
ToolCallStatus ==
  {"none", "approved", "rejected", "timeout", "direct_write", "read_result", "error"}

DispatchTypeOK ==
  /\ ApprovalTypeOK
  /\ input \in Workloads
  /\ stage \in [Calls -> Stage]
  /\ reply \in [Calls -> ToolCallStatus]
  /\ boot \in 0 .. MaxBoots
  /\ counters \in [Users -> Nat]
  /\ bootOf \in [Calls -> 0 .. MaxBoots]
  /\ sequence \in [Calls -> Nat]
  /\ todos \in [Calls -> {"none", "open"} \cup TerminalStatus]
  /\ orders \subseteq Calls
  /\ diagnostics \subseteq Calls

DispatchInit ==
  /\ input \in Workloads
  /\ requestId = [c \in Calls |-> input[c].requestId]
  /\ ApprovalInit
  /\ stage = [c \in Calls |-> "idle"]
  /\ reply = [c \in Calls |-> "none"]
  /\ boot = 0
  /\ counters = [u \in Users |-> 0]
  /\ bootOf = [c \in Calls |-> 0]
  /\ sequence = [c \in Calls |-> 0]
  /\ todos = [c \in Calls |-> "none"]
  /\ orders = {}
  /\ diagnostics = {}

IsTool(c, T) == input[c].tool \in T

MoveTo(c, s) == stage' = [stage EXCEPT ![c] = s]

Reply(c, status) ==
  /\ MoveTo(c, "replied")
  /\ reply' = [reply EXCEPT ![c] = status]

-----------------------------------------------------------------------------
(* po_generate draws its number before anything else.                      *)

\* Mutant: the number is derived from the orders written so far.
AllocateNextFromRows(c) ==
  /\ stage[c] = "idle" /\ IsTool(c, {"po_generate"})
  /\ sequence' = [sequence EXCEPT ![c] =
                    1 + Cardinality({d \in orders : input[d].user = input[c].user})]
  /\ counters' = [counters EXCEPT ![input[c].user] = @ + 1]
  /\ bootOf' = [bootOf EXCEPT ![c] = boot]
  /\ MoveTo(c, "allocated")
  /\ UNCHANGED <<approvalVars, input, reply, boot, tables>>

\* Read and increment run without an await between them.
AllocateNext(c) ==
  /\ stage[c] = "idle" /\ IsTool(c, {"po_generate"})
  /\ counters' = [counters EXCEPT ![input[c].user] = @ + 1]
  /\ sequence' = [sequence EXCEPT ![c] = counters[input[c].user] + 1]
  /\ bootOf' = [bootOf EXCEPT ![c] = boot]
  /\ MoveTo(c, "allocated")
  /\ UNCHANGED <<approvalVars, input, reply, boot, tables>>

AllocationFails(c) ==
  /\ stage[c] = "idle" /\ IsTool(c, {"po_generate"})
  /\ Reply(c, "error")
  /\ UNCHANGED <<approvalVars, input, poVars, tables>>

-----------------------------------------------------------------------------
(* Draft and gate.                                                         *)

ReadyToDraft(c) ==
  \/ stage[c] = "idle" /\ IsTool(c, {"todo_create", "comms_draft"})
  \/ stage[c] = "allocated"

DraftInvalid(c) ==
  /\ ReadyToDraft(c) /\ ~ input[c].valid
  /\ Reply(c, "error")
  /\ UNCHANGED <<approvalVars, input, poVars, tables>>

Hold(c) ==
  /\ ReadyToDraft(c) /\ input[c].valid
  /\ SendApprovalRequest(c) \/ SendFails(c)
  /\ MoveTo(c, "gated")
  /\ UNCHANGED <<input, reply, poVars, tables>>

\* Mutant: the decision itself is passed on as the status.
DecisionAsStatus(c) == hold[c]

\* runGate and the three branches on its result.
RefusalOf(c) ==
  IF hold[c] = "timeout" THEN "timeout"
  ELSE IF hold[c] = "send_error" THEN "error"
  ELSE "rejected"

ReplyRefused(c) ==
  /\ stage[c] = "gated" /\ Settled(c) /\ hold[c] # "approve"
  /\ Reply(c, RefusalOf(c))
  /\ UNCHANGED <<approvalVars, input, poVars, tables>>

Approved(c) == stage[c] = "gated" /\ hold[c] = "approve"

\* Sending is a later phase: an approved draft is only handed back.
ReplyDraft(c) ==
  /\ Approved(c) /\ IsTool(c, {"comms_draft"})
  /\ Reply(c, "approved")
  /\ UNCHANGED <<approvalVars, input, poVars, tables>>

WriteTodo(c) ==
  /\ Approved(c) /\ IsTool(c, {"todo_create"})
  /\ todos' = [todos EXCEPT ![c] = "open"]
  /\ MoveTo(c, "written")
  /\ UNCHANGED <<approvalVars, input, reply, poVars, orders, diagnostics>>

WritePurchaseOrder(c) ==
  /\ Approved(c) /\ IsTool(c, {"po_generate"})
  /\ orders' = orders \cup {c}
  /\ MoveTo(c, "written")
  /\ UNCHANGED <<approvalVars, input, reply, poVars, todos, diagnostics>>

\* Mutant: a failed INSERT is not reported.
WriteFailsSilently(c) ==
  /\ Approved(c) /\ IsTool(c, {"todo_create", "po_generate"})
  /\ Reply(c, "approved")
  /\ UNCHANGED <<approvalVars, input, poVars, tables>>

WriteFails(c) ==
  /\ Approved(c) /\ IsTool(c, {"todo_create", "po_generate"})
  /\ Reply(c, "error")
  /\ UNCHANGED <<approvalVars, input, poVars, tables>>

-----------------------------------------------------------------------------
(* The tools that are not gated.                                           *)

\* Mutant: the rows are matched by todo id alone.
TargetsAnyTodo(c) == todos[input[c].target] # "none"

\* WHERE todo_id = ? AND user_id = ?
TargetsOwnTodo(c) ==
  LET t == input[c].target IN
  /\ todos[t] # "none"
  /\ input[t].user = input[c].user

FindTodo(c) ==
  /\ stage[c] = "idle" /\ IsTool(c, {"todo_update"})
  /\ input[c].valid /\ TargetsOwnTodo(c)
  /\ MoveTo(c, "found")
  /\ UNCHANGED <<approvalVars, input, reply, poVars, tables>>

\* updateTodoStatus overwrites whatever status the row has by now.
UpdateTodo(c) ==
  /\ stage[c] = "found" /\ TargetsOwnTodo(c)
  /\ todos' = [todos EXCEPT ![input[c].target] = input[c].to]
  /\ MoveTo(c, "written")
  /\ UNCHANGED <<approvalVars, input, reply, poVars, orders, diagnostics>>

LogDiagnosticEntry(c) ==
  /\ stage[c] = "idle" /\ IsTool(c, {"log_diagnostic"}) /\ input[c].valid
  /\ diagnostics' = diagnostics \cup {c}
  /\ MoveTo(c, "written")
  /\ UNCHANGED <<approvalVars, input, reply, poVars, todos, orders>>

\* Invalid input, no such todo, or a statement that throws.
DirectFails(c) ==
  /\ \/ stage[c] = "idle" /\ IsTool(c, {"todo_update", "log_diagnostic", "read"})
     \/ stage[c] = "found"
  /\ Reply(c, "error")
  /\ UNCHANGED <<approvalVars, input, poVars, tables>>

\* spec_lookup, expense_parse and sheet_output change nothing.
Read(c) ==
  /\ stage[c] = "idle" /\ IsTool(c, {"read"}) /\ input[c].valid
  /\ Reply(c, "read_result")
  /\ UNCHANGED <<approvalVars, input, poVars, tables>>

ReplyWritten(c) ==
  /\ stage[c] = "written"
  /\ Reply(c, IF IsTool(c, Gated) THEN "approved" ELSE "direct_write")
  /\ UNCHANGED <<approvalVars, input, poVars, tables>>

DispatchToolCall(c) ==
  \/ AllocateNext(c)
  \/ AllocationFails(c)
  \/ DraftInvalid(c)
  \/ Hold(c)
  \/ ReplyRefused(c)
  \/ ReplyDraft(c)
  \/ WriteTodo(c)
  \/ WritePurchaseOrder(c)
  \/ WriteFails(c)
  \/ FindTodo(c)
  \/ UpdateTodo(c)
  \/ LogDiagnosticEntry(c)
  \/ DirectFails(c)
  \/ Read(c)
  \/ ReplyWritten(c)

-----------------------------------------------------------------------------
(* The event loop and the environment.                                     *)

Untouched == UNCHANGED <<input, stage, reply, poVars, tables>>

Running(c) == stage[c] \notin {"idle", "replied", "lost"}

\* The process restarts: running calls, listeners, timers and the counters
\* are gone; what the device shows, events in flight and the tables stay.
Restart ==
  /\ boot < MaxBoots
  /\ boot' = boot + 1
  /\ counters' = [u \in Users |-> 0]
  /\ stage' = [c \in Calls |-> IF Running(c) THEN "lost" ELSE stage[c]]
  /\ hold' = [c \in Calls |-> IF Waiting(c) THEN "none" ELSE hold[c]]
  /\ UNCHANGED <<requestId, shown, decided, inbox, input, reply, bootOf,
                 sequence, tables>>

DispatchNext ==
  \/ \E c \in Calls : DispatchToolCall(c)
  \/ \E c \in Calls : TimeOut(c) /\ Untouched
  \/ \E e \in inbox : EmitDecision(e) /\ Untouched
  \/ \E c \in Calls, d \in ApprovalDecision : Decide(c, d) /\ Untouched
  \/ Restart

\* Timers fire and a started call runs on; nobody owes the gate a decision.
DispatchFairness ==
  \A c \in Calls :
    /\ WF_dispatchVars(stage[c] # "idle" /\ DispatchToolCall(c))
    /\ WF_dispatchVars(TimeOut(c) /\ Untouched)

DispatchSafety == DispatchInit /\ [][DispatchNext]_dispatchVars
DispatchSpec == DispatchSafety /\ DispatchFairness

-----------------------------------------------------------------------------
(* Properties.                                                             *)

\* Rows of call c that the gate guards.
HasGatedRow(c) == todos[c] # "none" \/ c \in orders

GatePassed(c) == HasGatedRow(c) \/ (IsTool(c, Gated) /\ reply[c] = "approved")

OwnRequestId(c) == \A d \in Calls \ {c} : requestId[d] # requestId[c]

\* Nothing is written and no draft is handed on without explicit approval:
\* behind every gated row and every "approved" there is an approve the user
\* sent under the request id of that call, and sent while looking at that
\* very call if no other call carries the id.
ExplicitApproval ==
  \A c \in Calls :
    GatePassed(c) =>
      \E d \in Calls :
        /\ <<d, "approve">> \in decided
        /\ requestId[d] = requestId[c]
        /\ OwnRequestId(c) => d = c

\* The reply tells the truth about the tables: "approved" and "direct_write"
\* were written, after every other reply there is no row, not even later.
ReplyMatchesRows ==
  \A c \in Calls :
    stage[c] = "replied" =>
      /\ IsTool(c, {"todo_create"}) => (reply[c] = "approved" <=> todos[c] # "none")
      /\ IsTool(c, {"po_generate"}) => (reply[c] = "approved" <=> c \in orders)
      /\ IsTool(c, {"log_diagnostic"}) =>
           (reply[c] = "direct_write" <=> c \in diagnostics)

\* One process never gives the same PO number to two calls of a user,
\* whichever of them are rejected, time out or fail (poSequence.ts (a)).
PoNumbersDistinct ==
  \A c, d \in Calls :
    /\ c # d
    /\ sequence[c] # 0 /\ sequence[d] # 0
    /\ bootOf[c] = bootOf[d]
    /\ input[c].user = input[d].user
    => sequence[c] # sequence[d]

\* The first decision a gate hears, or its timer, is final: no duplicate,
\* late or contradicting event changes an outcome.
SettledIsFinal ==
  [][\A c \in Calls : Settled(c) => hold'[c] = hold[c]]_dispatchVars

\* The status of a todo changes only through an update its owner asked for.
TodosAreOwned ==
  [][\A t \in Calls :
       todos[t] # "none" /\ todos'[t] # todos[t] =>
         \E c \in Calls :
           /\ IsTool(c, {"todo_update"})
           /\ stage[c] = "found" /\ stage'[c] = "written"
           /\ input[c].target = t /\ todos'[t] = input[c].to
           /\ input[c].user = input[t].user]_dispatchVars

\* Whatever the sockets, timers and restarts do, the dispatcher is a gated
\* write: one verdict for each output, and only approved outputs leave.
Verdict(c) ==
  IF hold[c] = "approve" THEN "approve"
  ELSE IF Settled(c) THEN "refused" ELSE "open"

Contract == INSTANCE GatedWrite WITH
  verdict <- [c \in Calls |-> Verdict(c)],
  out <- {c \in Calls : GatePassed(c)}

ImplementsGatedWrite == Contract!AbsSpec

\* A call that has started is answered, whatever the user does or does not
\* do, unless the process restarts under it.
EveryCallAnswered ==
  \A c \in Calls : Running(c) ~> stage[c] \in {"replied", "lost"}
=============================================================================
