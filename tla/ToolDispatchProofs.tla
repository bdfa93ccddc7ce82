------------------------- MODULE ToolDispatchProofs -------------------------
(***************************************************************************)
(* Proofs about the dispatcher and its approval gate, for any calls,       *)
(* inputs, request ids and number of restarts: DispatchInv is inductive    *)
(* and contains the safety properties; the action properties follow from   *)
(* it step by step.                                                        *)
(***************************************************************************)
EXTENDS ToolDispatch, TLAPS

-----------------------------------------------------------------------------
(* The inductive invariant.                                                *)

\* The stage of a call fits its tool and what its gate has done.
StageMatchesGate ==
  \A c \in Calls :
    /\ stage[c] \in {"idle", "allocated", "found"} => hold[c] = "none"
    /\ stage[c] = "allocated" => IsTool(c, {"po_generate"})
    /\ stage[c] = "gated" => hold[c] # "none" /\ IsTool(c, Gated)
    /\ stage[c] = "found" => IsTool(c, {"todo_update"})
    /\ stage[c] = "replied" <=> reply[c] # "none"
    /\ reply[c] = "approved" => hold[c] = "approve"

\* "written" means that the row is there.
WrittenHasRow ==
  \A c \in Calls :
    stage[c] = "written" =>
      /\ IsTool(c, {"todo_create"}) => todos[c] # "none"
      /\ IsTool(c, {"po_generate"}) => c \in orders
      /\ IsTool(c, {"log_diagnostic"}) => c \in diagnostics
      /\ IsTool(c, Gated) => hold[c] = "approve" /\ HasGatedRow(c)

\* A row belongs to a call that got past its gate.
RowWasWritten ==
  \A c \in Calls :
    /\ HasGatedRow(c) => hold[c] = "approve"
    /\ todos[c] # "none" => IsTool(c, {"todo_create"})
    /\ c \in orders => IsTool(c, {"po_generate"})
    /\ HasGatedRow(c) \/ c \in diagnostics
         => stage[c] \in {"written", "replied", "lost"}

\* Every decision in flight, and every approval received, was sent by the
\* user under the request id it carries.
DecisionsWereSent ==
  /\ \A e \in inbox :
       \E d \in Calls : <<d, e.decision>> \in decided /\ requestId[d] = e.requestId
  /\ \A c \in Calls :
       hold[c] = "approve" =>
         \E d \in Calls : <<d, "approve">> \in decided /\ requestId[d] = requestId[c]

\* The counter of a user is past every number drawn in this boot.
SequencesCounted ==
  \A c \in Calls :
    /\ bootOf[c] <= boot
    /\ bootOf[c] = boot => sequence[c] <= counters[input[c].user]

DispatchInv ==
  /\ DispatchTypeOK
  /\ StageMatchesGate
  /\ WrittenHasRow
  /\ RowWasWritten
  /\ ReplyMatchesRows
  /\ DecisionsWereSent
  /\ SequencesCounted
  /\ PoNumbersDistinct

LEMMA DispatchInitially == DispatchInit => DispatchInv
<1> SUFFICES ASSUME DispatchInit PROVE DispatchInv
  OBVIOUS
<1>1. \A c \in Calls : input[c] \in ToolCallInput /\ requestId[c] = input[c].requestId
  BY DispatchAssumption DEF DispatchInit
<1>2. DispatchTypeOK
  BY <1>1, DispatchAssumption
  DEF DispatchInit, ApprovalInit, DispatchTypeOK, ApprovalTypeOK, HoldState, Stage,
      ToolCallStatus, ToolCallInput
<1>3. StageMatchesGate /\ WrittenHasRow /\ RowWasWritten /\ ReplyMatchesRows
  BY DEF DispatchInit, ApprovalInit, StageMatchesGate, WrittenHasRow, RowWasWritten,
         ReplyMatchesRows, HasGatedRow
<1>4. DecisionsWereSent
  BY DEF DispatchInit, ApprovalInit, DecisionsWereSent
<1>5. SequencesCounted /\ PoNumbersDistinct
  BY <1>1 DEF DispatchInit, SequencesCounted, PoNumbersDistinct, ToolCallInput
<1>6. QED
  BY <1>2, <1>3, <1>4, <1>5 DEF DispatchInv

-----------------------------------------------------------------------------
(* Every step preserves DispatchInv, one lemma per kind of step.           *)

\* What the invariant says about numbers and decisions needs only this much
\* to stay as it is.
LEMMA FactsStay ==
  ASSUME DispatchInv,
         UNCHANGED <<requestId, hold, decided, inbox, input, boot, counters, bootOf, sequence>>
  PROVE  DecisionsWereSent' /\ SequencesCounted' /\ PoNumbersDistinct'
BY DEF DispatchInv, DecisionsWereSent, SequencesCounted, PoNumbersDistinct

\* Answering a call whose reply is true of the tables.
LEMMA ReplyKeepsInv ==
  ASSUME DispatchInv, NEW c \in Calls, NEW status \in ToolCallStatus \ {"none"},
         Reply(c, status),
         UNCHANGED <<approvalVars, input, poVars, tables>>,
         stage[c] \notin {"replied", "lost"},
         status = "approved" => hold[c] = "approve",
         IsTool(c, {"todo_create"}) => (status = "approved" <=> todos[c] # "none"),
         IsTool(c, {"po_generate"}) => (status = "approved" <=> c \in orders),
         IsTool(c, {"log_diagnostic"}) => (status = "direct_write" <=> c \in diagnostics)
  PROVE  DispatchInv'
<1> USE DEF DispatchInv
<1>1. /\ UNCHANGED <<requestId, hold, shown, decided, inbox, input, boot, counters,
                     bootOf, sequence, todos, orders, diagnostics>>
      /\ stage'[c] = "replied" /\ reply'[c] = status
      /\ \A d \in Calls \ {c} : stage'[d] = stage[d] /\ reply'[d] = reply[d]
  BY DEF Reply, MoveTo, approvalVars, poVars, tables, DispatchTypeOK
<1>2. DispatchTypeOK'
  BY <1>1 DEF Reply, MoveTo, DispatchTypeOK, ApprovalTypeOK, Stage
<1>3. StageMatchesGate' /\ WrittenHasRow'
  BY <1>1 DEF StageMatchesGate, WrittenHasRow, HasGatedRow, IsTool
<1>4. RowWasWritten' /\ ReplyMatchesRows'
  BY <1>1 DEF RowWasWritten, ReplyMatchesRows, HasGatedRow, IsTool
<1>5. QED
  BY <1>1, <1>2, <1>3, <1>4, FactsStay

\* A call moves on without an answer and without a row.
LEMMA AllocateKeepsInv ==
  ASSUME DispatchInv, NEW c \in Calls, AllocateNext(c)
  PROVE  DispatchInv'
<1> USE DEF DispatchInv
<1> DEFINE u == input[c].user
<1>1. u \in Users /\ \A d \in Calls : input[d].user \in Users
  BY DispatchAssumption DEF DispatchTypeOK, ToolCallInput
<1>2. /\ UNCHANGED <<requestId, hold, shown, decided, inbox, input, reply, boot,
                     todos, orders, diagnostics>>
      /\ stage[c] = "idle" /\ stage'[c] = "allocated" /\ IsTool(c, {"po_generate"})
      /\ sequence'[c] = counters[u] + 1 /\ bootOf'[c] = boot
      /\ counters'[u] = counters[u] + 1
      /\ \A d \in Calls \ {c} : /\ stage'[d] = stage[d]
                                /\ sequence'[d] = sequence[d] /\ bootOf'[d] = bootOf[d]
      /\ \A v \in Users \ {u} : counters'[v] = counters[v]
  BY <1>1 DEF AllocateNext, MoveTo, approvalVars, tables, DispatchTypeOK
<1>3. DispatchTypeOK'
  <2>1. counters[u] + 1 \in Nat
    BY <1>1 DEF DispatchTypeOK
  <2>2. QED
    BY <1>2, <2>1 DEF AllocateNext, MoveTo, DispatchTypeOK, ApprovalTypeOK, Stage
<1>4. StageMatchesGate' /\ WrittenHasRow'
  BY <1>2 DEF StageMatchesGate, WrittenHasRow, HasGatedRow, IsTool
<1>5. RowWasWritten' /\ ReplyMatchesRows'
  BY <1>2 DEF RowWasWritten, ReplyMatchesRows, HasGatedRow, IsTool
<1>6. DecisionsWereSent'
  BY <1>2 DEF DecisionsWereSent
<1>7. SequencesCounted'
  BY <1>1, <1>2 DEF SequencesCounted, DispatchTypeOK
<1>8. PoNumbersDistinct'
  <2>1. \A d \in Calls \ {c} :
          bootOf[d] = boot /\ input[d].user = u => sequence[d] # counters[u] + 1
    BY <1>1 DEF SequencesCounted, DispatchTypeOK
  <2>2. QED
    BY <1>2, <2>1 DEF PoNumbersDistinct
<1>9. QED
  BY <1>3, <1>4, <1>5, <1>6, <1>7, <1>8

LEMMA HoldKeepsInv ==
  ASSUME DispatchInv, NEW c \in Calls, Hold(c)
  PROVE  DispatchInv'
<1> USE DEF DispatchInv
<1>1. /\ UNCHANGED <<requestId, decided, inbox, input, reply, boot, counters, bootOf,
                     sequence, todos, orders, diagnostics>>
      /\ stage[c] \in {"idle", "allocated"} /\ IsTool(c, Gated)
      /\ hold[c] = "none" /\ stage'[c] = "gated" /\ hold'[c] \in {"waiting", "send_error"}
      /\ \A d \in Calls \ {c} : stage'[d] = stage[d] /\ hold'[d] = hold[d]
  BY DEF Hold, ReadyToDraft, SendApprovalRequest, SendFails, MoveTo, poVars, tables,
         DispatchTypeOK, ApprovalTypeOK, StageMatchesGate, IsTool, Gated
<1>2. DispatchTypeOK'
  BY <1>1 DEF Hold, SendApprovalRequest, SendFails, MoveTo, DispatchTypeOK,
              ApprovalTypeOK, Stage, HoldState
<1>3. StageMatchesGate' /\ WrittenHasRow'
  BY <1>1 DEF StageMatchesGate, WrittenHasRow, HasGatedRow, IsTool
<1>4. RowWasWritten' /\ ReplyMatchesRows'
  BY <1>1 DEF RowWasWritten, ReplyMatchesRows, HasGatedRow, IsTool
<1>5. DecisionsWereSent'
  BY <1>1 DEF DecisionsWereSent
<1>6. SequencesCounted' /\ PoNumbersDistinct'
  BY <1>1 DEF SequencesCounted, PoNumbersDistinct
<1>7. QED
  BY <1>2, <1>3, <1>4, <1>5, <1>6

\* Writing a row: the call was past its gate, or has none.
LEMMA InsertKeepsInv ==
  ASSUME DispatchInv, NEW c \in Calls,
         WriteTodo(c) \/ WritePurchaseOrder(c) \/ LogDiagnosticEntry(c)
  PROVE  DispatchInv'
<1> USE DEF DispatchInv
<1>1. /\ UNCHANGED <<requestId, hold, shown, decided, inbox, input, reply, boot,
                     counters, bootOf, sequence>>
      /\ stage[c] \in {"idle", "gated"} /\ stage'[c] = "written"
      /\ \A d \in Calls \ {c} : stage'[d] = stage[d]
  BY DEF WriteTodo, WritePurchaseOrder, LogDiagnosticEntry, Approved, MoveTo,
         approvalVars, poVars, DispatchTypeOK
<1>2. /\ \A d \in Calls \ {c} : /\ todos'[d] = todos[d]
                                /\ (d \in orders') <=> (d \in orders)
                                /\ (d \in diagnostics') <=> (d \in diagnostics)
      /\ \/ /\ IsTool(c, {"todo_create"}) /\ hold[c] = "approve" /\ todos'[c] = "open"
            /\ UNCHANGED <<orders, diagnostics>>
         \/ /\ IsTool(c, {"po_generate"}) /\ hold[c] = "approve" /\ c \in orders'
            /\ UNCHANGED <<todos, diagnostics>>
         \/ /\ IsTool(c, {"log_diagnostic"}) /\ c \in diagnostics'
            /\ UNCHANGED <<todos, orders>>
  <2>1. CASE WriteTodo(c)
    BY <2>1 DEF WriteTodo, Approved, DispatchTypeOK
  <2>2. CASE WritePurchaseOrder(c)
    BY <2>2 DEF WritePurchaseOrder, Approved
  <2>3. CASE LogDiagnosticEntry(c)
    BY <2>3 DEF LogDiagnosticEntry
  <2>4. QED
    BY <2>1, <2>2, <2>3
<1>0. ~ HasGatedRow(c) /\ c \notin diagnostics
  BY <1>1 DEF RowWasWritten
<1>3. DispatchTypeOK'
  <2>1. stage' \in [Calls -> Stage]
    BY DEF WriteTodo, WritePurchaseOrder, LogDiagnosticEntry, MoveTo, DispatchTypeOK, Stage
  <2>2. /\ todos' \in [Calls -> {"none", "open"} \cup TerminalStatus]
        /\ orders' \subseteq Calls /\ diagnostics' \subseteq Calls
    BY DEF WriteTodo, WritePurchaseOrder, LogDiagnosticEntry, DispatchTypeOK
  <2>3. QED
    BY <1>1, <2>1, <2>2 DEF DispatchTypeOK, ApprovalTypeOK
<1>4. StageMatchesGate'
  BY <1>1 DEF StageMatchesGate, IsTool
<1>5. WrittenHasRow'
  BY <1>1, <1>2 DEF WrittenHasRow, HasGatedRow, IsTool, Gated
<1>6. RowWasWritten'
  BY <1>0, <1>1, <1>2 DEF RowWasWritten, HasGatedRow, IsTool
<1>7. ReplyMatchesRows'
  BY <1>1, <1>2 DEF ReplyMatchesRows, StageMatchesGate, IsTool
<1>8. QED
  BY <1>1, <1>3, <1>4, <1>5, <1>6, <1>7, FactsStay

LEMMA FindKeepsInv ==
  ASSUME DispatchInv, NEW c \in Calls, FindTodo(c)
  PROVE  DispatchInv'
<1> USE DEF DispatchInv
<1>1. /\ UNCHANGED <<requestId, hold, shown, decided, inbox, input, reply, boot,
                     counters, bootOf, sequence, todos, orders, diagnostics>>
      /\ stage[c] = "idle" /\ stage'[c] = "found" /\ IsTool(c, {"todo_update"})
      /\ \A d \in Calls \ {c} : stage'[d] = stage[d]
  BY DEF FindTodo, MoveTo, approvalVars, poVars, tables, DispatchTypeOK
<1>2. DispatchTypeOK'
  BY <1>1 DEF FindTodo, MoveTo, DispatchTypeOK, ApprovalTypeOK, Stage
<1>3. StageMatchesGate' /\ WrittenHasRow'
  BY <1>1 DEF StageMatchesGate, WrittenHasRow, HasGatedRow, IsTool
<1>4. RowWasWritten' /\ ReplyMatchesRows'
  BY <1>1 DEF RowWasWritten, ReplyMatchesRows, HasGatedRow, IsTool
<1>5. QED
  BY <1>1, <1>2, <1>3, <1>4, FactsStay

\* An update changes the status of a row that is there.
LEMMA UpdateKeepsInv ==
  ASSUME DispatchInv, NEW c \in Calls, UpdateTodo(c)
  PROVE  DispatchInv'
<1> USE DEF DispatchInv
<1>1. input[c].to \in TerminalStatus /\ input[c].target \in Calls
  BY DispatchAssumption DEF DispatchTypeOK, ToolCallInput
<1>2. /\ UNCHANGED <<requestId, hold, shown, decided, inbox, input, reply, boot,
                     counters, bootOf, sequence, orders, diagnostics>>
      /\ stage[c] = "found" /\ stage'[c] = "written"
      /\ \A d \in Calls \ {c} : stage'[d] = stage[d]
  BY DEF UpdateTodo, MoveTo, approvalVars, poVars, DispatchTypeOK
<1>3. \A d \in Calls : todos'[d] # "none" <=> todos[d] # "none"
  BY <1>1 DEF UpdateTodo, TargetsOwnTodo, TerminalStatus, DispatchTypeOK
<1>4. DispatchTypeOK'
  BY <1>1, <1>2 DEF UpdateTodo, MoveTo, DispatchTypeOK, ApprovalTypeOK, Stage
<1>5. StageMatchesGate' /\ WrittenHasRow'
  BY <1>2, <1>3 DEF StageMatchesGate, WrittenHasRow, HasGatedRow, IsTool, Gated
<1>6. RowWasWritten'
  BY <1>2, <1>3 DEF RowWasWritten, StageMatchesGate, HasGatedRow, IsTool
<1>7. ReplyMatchesRows'
  BY <1>2, <1>3 DEF ReplyMatchesRows, IsTool
<1>8. QED
  BY <1>2, <1>4, <1>5, <1>6, <1>7, FactsStay

LEMMA CallKeepsInv ==
  ASSUME DispatchInv, NEW c \in Calls, DispatchToolCall(c)
  PROVE  DispatchInv'
<1> USE DEF DispatchInv
<1>1. CASE AllocateNext(c)
  BY <1>1, AllocateKeepsInv
<1>2. CASE Hold(c)
  BY <1>2, HoldKeepsInv
<1>3. CASE WriteTodo(c) \/ WritePurchaseOrder(c) \/ LogDiagnosticEntry(c)
  BY <1>3, InsertKeepsInv
<1>4. CASE FindTodo(c)
  BY <1>4, FindKeepsInv
<1>5. CASE UpdateTodo(c)
  BY <1>5, UpdateKeepsInv
<1>6. CASE AllocationFails(c) \/ DraftInvalid(c) \/ WriteFails(c) \/ DirectFails(c)
  <2>1. /\ Reply(c, "error") /\ UNCHANGED <<approvalVars, input, poVars, tables>>
        /\ stage[c] \in {"idle", "allocated", "gated", "found"}
    BY <1>6 DEF AllocationFails, DraftInvalid, ReadyToDraft, WriteFails, Approved, DirectFails
  <2>2. ~ HasGatedRow(c) /\ c \notin diagnostics
    BY <2>1 DEF RowWasWritten
  <2>3. QED
    BY <2>1, <2>2, ReplyKeepsInv DEF ToolCallStatus, HasGatedRow
<1>7. CASE ReplyRefused(c)
  <2>1. /\ Reply(c, RefusalOf(c)) /\ UNCHANGED <<approvalVars, input, poVars, tables>>
        /\ stage[c] = "gated" /\ hold[c] # "approve" /\ IsTool(c, Gated)
    BY <1>7 DEF ReplyRefused, StageMatchesGate
  <2>2. RefusalOf(c) \in {"timeout", "error", "rejected"}
    BY DEF RefusalOf
  <2>3. ~ HasGatedRow(c) /\ c \notin diagnostics
    BY <2>1 DEF RowWasWritten
  <2>4. QED
    BY <2>1, <2>2, <2>3, ReplyKeepsInv DEF ToolCallStatus, HasGatedRow
<1>8. CASE ReplyDraft(c)
  BY <1>8, ReplyKeepsInv DEF ReplyDraft, Approved, ToolCallStatus, IsTool
<1>9. CASE Read(c)
  BY <1>9, ReplyKeepsInv DEF Read, ToolCallStatus, IsTool
<1>10. CASE ReplyWritten(c)
  <2>1. CASE IsTool(c, Gated)
    <3>1. Reply(c, "approved") /\ hold[c] = "approve" /\ stage[c] = "written"
      BY <1>10, <2>1 DEF ReplyWritten, WrittenHasRow
    <3>2. QED
      BY <1>10, <2>1, <3>1, ReplyKeepsInv
      DEF ReplyWritten, WrittenHasRow, ToolCallStatus, IsTool, Gated
  <2>2. CASE ~ IsTool(c, Gated)
    <3>1. Reply(c, "direct_write") /\ stage[c] = "written"
      BY <1>10, <2>2 DEF ReplyWritten
    <3>2. QED
      BY <1>10, <2>2, <3>1, ReplyKeepsInv
      DEF ReplyWritten, WrittenHasRow, ToolCallStatus, IsTool, Gated
  <2>3. QED
    BY <2>1, <2>2
<1>11. QED
  BY <1>1, <1>2, <1>3, <1>4, <1>5, <1>6, <1>7, <1>8, <1>9, <1>10 DEF DispatchToolCall

\* The gate settles a waiting call: by a decision, or by its timer.
LEMMA SettleKeepsInv ==
  ASSUME DispatchInv, Untouched,
         (\E e \in inbox : EmitDecision(e)) \/ (\E c \in Calls : TimeOut(c))
  PROVE  DispatchInv'
<1> USE DEF DispatchInv
<1>1. /\ UNCHANGED <<requestId, shown, decided, input, stage, reply, boot, counters,
                     bootOf, sequence, todos, orders, diagnostics>>
      /\ inbox' \subseteq inbox
  BY DEF Untouched, EmitDecision, TimeOut, poVars, tables
<1>2. \A c \in Calls :
        hold'[c] = hold[c] \/ (hold[c] = "waiting" /\ hold'[c] \in HoldState \ {"none"})
  BY DEF EmitDecision, TimeOut, Listeners, Waiting, DispatchTypeOK, ApprovalTypeOK,
         DecisionEvent, HoldState, ApprovalDecision
<1>3. DispatchTypeOK'
  <2>1. hold' \in [Calls -> HoldState]
    BY DEF EmitDecision, TimeOut, DispatchTypeOK, ApprovalTypeOK, DecisionEvent,
           HoldState, ApprovalDecision
  <2>2. QED
    BY <1>1, <2>1 DEF DispatchTypeOK, ApprovalTypeOK
<1>4. StageMatchesGate' /\ WrittenHasRow'
  BY <1>1, <1>2 DEF StageMatchesGate, WrittenHasRow, HasGatedRow, IsTool, HoldState, ApprovalDecision
<1>5. RowWasWritten' /\ ReplyMatchesRows'
  BY <1>1, <1>2 DEF RowWasWritten, ReplyMatchesRows, HasGatedRow, IsTool
<1>6. DecisionsWereSent'
  <2>1. ASSUME NEW c \in Calls, hold'[c] = "approve"
        PROVE  \E d \in Calls : <<d, "approve">> \in decided /\ requestId[d] = requestId[c]
    <3>1. CASE hold[c] = "approve"
      BY <3>1 DEF DecisionsWereSent
    <3>2. CASE hold[c] # "approve"
      <4>1. PICK e \in inbox : EmitDecision(e)
        BY <2>1, <3>2 DEF TimeOut, DispatchTypeOK, ApprovalTypeOK
      <4>2. c \in Listeners(e) /\ e.decision = "approve"
        BY <2>1, <3>2, <4>1 DEF EmitDecision
      <4>3. QED
        BY <4>2 DEF DecisionsWereSent, Listeners
    <3>3. QED
      BY <3>1, <3>2
  <2>2. QED
    BY <1>1, <2>1 DEF DecisionsWereSent
<1>7. SequencesCounted' /\ PoNumbersDistinct'
  BY <1>1 DEF SequencesCounted, PoNumbersDistinct
<1>8. QED
  BY <1>3, <1>4, <1>5, <1>6, <1>7

LEMMA DecideKeepsInv ==
  ASSUME DispatchInv, NEW c \in Calls, NEW d \in ApprovalDecision, Decide(c, d), Untouched
  PROVE  DispatchInv'
<1> USE DEF DispatchInv
<1>1. /\ UNCHANGED <<requestId, hold, shown, input, stage, reply, boot, counters,
                     bootOf, sequence, todos, orders, diagnostics>>
      /\ decided' = decided \cup {<<c, d>>}
      /\ inbox' = inbox \cup {[requestId |-> requestId[c], decision |-> d]}
  BY DEF Decide, Untouched, poVars, tables
<1>2. DispatchTypeOK'
  BY <1>1 DEF DispatchTypeOK, ApprovalTypeOK, DecisionEvent
<1>3. StageMatchesGate' /\ WrittenHasRow'
  BY <1>1 DEF StageMatchesGate, WrittenHasRow, HasGatedRow, IsTool
<1>4. RowWasWritten' /\ ReplyMatchesRows'
  BY <1>1 DEF RowWasWritten, ReplyMatchesRows, HasGatedRow, IsTool
<1>5. DecisionsWereSent'
  BY <1>1 DEF DecisionsWereSent
<1>6. SequencesCounted' /\ PoNumbersDistinct'
  BY <1>1 DEF SequencesCounted, PoNumbersDistinct
<1>7. QED
  BY <1>2, <1>3, <1>4, <1>5, <1>6

\* A restart forgets the counters, so the numbers drawn before it belong to
\* an earlier boot from now on.
LEMMA RestartKeepsInv ==
  ASSUME DispatchInv, Restart
  PROVE  DispatchInv'
<1> USE DEF DispatchInv
<1>1. /\ UNCHANGED <<requestId, shown, decided, inbox, input, reply, bootOf, sequence,
                     todos, orders, diagnostics>>
      /\ boot' = boot + 1 /\ boot \in Nat /\ MaxBoots \in Nat /\ boot < MaxBoots
  BY DispatchAssumption DEF Restart, tables, DispatchTypeOK
<1>2. \A c \in Calls :
        /\ hold'[c] = hold[c] \/ (hold[c] = "waiting" /\ hold'[c] = "none")
        /\ stage'[c] = IF stage[c] \in {"idle", "replied", "lost"}
                         THEN stage[c] ELSE "lost"
  BY DEF Restart, Waiting, Running
<1>3. DispatchTypeOK'
  <2>1. hold' \in [Calls -> HoldState] /\ stage' \in [Calls -> Stage]
    BY DEF Restart, DispatchTypeOK, ApprovalTypeOK, HoldState, Stage
  <2>2. /\ counters' \in [Users -> Nat] /\ boot' \in 0 .. MaxBoots
        /\ bootOf' \in [Calls -> 0 .. MaxBoots]
    BY <1>1 DEF Restart, DispatchTypeOK
  <2>3. QED
    BY <1>1, <2>1, <2>2 DEF DispatchTypeOK, ApprovalTypeOK
<1>4. StageMatchesGate' /\ WrittenHasRow'
  BY <1>1, <1>2 DEF StageMatchesGate, WrittenHasRow, HasGatedRow, IsTool
<1>5. RowWasWritten' /\ ReplyMatchesRows'
  BY <1>1, <1>2 DEF RowWasWritten, ReplyMatchesRows, HasGatedRow, IsTool
<1>6. DecisionsWereSent'
  BY <1>1, <1>2 DEF DecisionsWereSent
<1>7. SequencesCounted' /\ PoNumbersDistinct'
  BY <1>1 DEF SequencesCounted, PoNumbersDistinct, DispatchTypeOK
<1>8. QED
  BY <1>3, <1>4, <1>5, <1>6, <1>7

LEMMA StutterKeepsInv ==
  ASSUME DispatchInv, UNCHANGED dispatchVars
  PROVE  DispatchInv'
<1> USE DEF DispatchInv, dispatchVars, approvalVars, poVars, tables
<1>1. DispatchTypeOK'
  BY DEF DispatchTypeOK, ApprovalTypeOK
<1>2. StageMatchesGate' /\ WrittenHasRow'
  BY DEF StageMatchesGate, WrittenHasRow, HasGatedRow, IsTool
<1>3. RowWasWritten' /\ ReplyMatchesRows'
  BY DEF RowWasWritten, ReplyMatchesRows, HasGatedRow, IsTool
<1>4. QED
  BY <1>1, <1>2, <1>3, FactsStay

\* DispatchInv holds in every reachable state of the dispatcher.
THEOREM DispatchInvariant == DispatchSafety => []DispatchInv
<1>1. DispatchInv /\ [DispatchNext]_dispatchVars => DispatchInv'
  BY CallKeepsInv, SettleKeepsInv, DecideKeepsInv, RestartKeepsInv, StutterKeepsInv
  DEF DispatchNext
<1>2. QED
  BY <1>1, DispatchInitially, PTL DEF DispatchSafety

-----------------------------------------------------------------------------
(* The properties.                                                         *)

\* Every variable of dispatcher and gate stays in its type.
THEOREM DispatchTypeCorrect == DispatchSafety => []DispatchTypeOK
BY DispatchInvariant, PTL DEF DispatchInv

\* Behind every written or handed-on output is an approve the user sent
\* under its request id, for that very output if the id is its own.
THEOREM DispatchNeedsApproval == DispatchSafety => []ExplicitApproval
<1>1. DispatchInv => ExplicitApproval
  <2> SUFFICES ASSUME DispatchInv, NEW c \in Calls, GatePassed(c)
               PROVE  \E d \in Calls :
                        /\ <<d, "approve">> \in decided
                        /\ requestId[d] = requestId[c]
                        /\ OwnRequestId(c) => d = c
    BY DEF ExplicitApproval
  <2>1. hold[c] = "approve"
    BY DEF GatePassed, DispatchInv, RowWasWritten, StageMatchesGate
  <2>2. PICK d \in Calls : <<d, "approve">> \in decided /\ requestId[d] = requestId[c]
    BY <2>1 DEF DispatchInv, DecisionsWereSent
  <2>3. OwnRequestId(c) => d = c
    BY <2>2 DEF OwnRequestId
  <2>4. QED
    BY <2>2, <2>3
<1>2. QED
  BY <1>1, DispatchInvariant, PTL

\* A reply tells the truth about the rows, then and ever after.
THEOREM DispatchRepliesTruthfully == DispatchSafety => []ReplyMatchesRows
BY DispatchInvariant, PTL DEF DispatchInv

\* One process never draws a PO number twice for a user.
THEOREM DispatchNumbersDistinct == DispatchSafety => []PoNumbersDistinct
BY DispatchInvariant, PTL DEF DispatchInv

\* No event, timer, write or restart revises how a gate settled.
THEOREM DispatchSettlesOnce == DispatchSafety => SettledIsFinal
<1>1. DispatchInv /\ [DispatchNext]_dispatchVars
        => [\A c \in Calls : Settled(c) => hold'[c] = hold[c]]_dispatchVars
  <2> SUFFICES ASSUME DispatchInv, DispatchNext, NEW c \in Calls, Settled(c)
               PROVE  hold'[c] = hold[c]
    OBVIOUS
  <2>1. hold \in [Calls -> HoldState] /\ hold[c] \notin {"none", "waiting"}
    BY DEF DispatchInv, DispatchTypeOK, ApprovalTypeOK, Settled
  <2>2. ASSUME NEW d \in Calls, DispatchToolCall(d)
        PROVE  hold'[c] = hold[c]
    <3>1. CASE Hold(d)
      BY <2>1, <3>1 DEF Hold, SendApprovalRequest, SendFails
    <3>2. CASE ~ Hold(d)
      BY <2>2, <3>2
      DEF DispatchToolCall, AllocateNext, AllocationFails, DraftInvalid, ReplyRefused,
          ReplyDraft, WriteTodo, WritePurchaseOrder, WriteFails, FindTodo, UpdateTodo,
          LogDiagnosticEntry, DirectFails, Read, ReplyWritten, approvalVars
    <3>3. QED
      BY <3>1, <3>2
  <2>3. CASE \E d \in Calls : TimeOut(d) /\ Untouched
    BY <2>1, <2>3 DEF TimeOut, Waiting
  <2>4. CASE \E e \in inbox : EmitDecision(e) /\ Untouched
    BY <2>1, <2>4 DEF EmitDecision, Listeners, Waiting
  <2>5. CASE \E d \in Calls, a \in ApprovalDecision : Decide(d, a) /\ Untouched
    BY <2>5 DEF Decide
  <2>6. CASE Restart
    BY <2>1, <2>6 DEF Restart, Waiting
  <2>7. QED
    BY <2>2, <2>3, <2>4, <2>5, <2>6 DEF DispatchNext
<1>2. QED
  BY <1>1, DispatchInvariant, PTL DEF DispatchSafety, SettledIsFinal

\* Nobody but the owner's update changes a todo that is there: an approved
\* creation writes the row of its own call, which has none yet.
THEOREM DispatchOwnsTodos == DispatchSafety => TodosAreOwned
<1> DEFINE Owned(t) ==
      todos[t] # "none" /\ todos'[t] # todos[t] =>
        \E c \in Calls :
          /\ IsTool(c, {"todo_update"})
          /\ stage[c] = "found" /\ stage'[c] = "written"
          /\ input[c].target = t /\ todos'[t] = input[c].to
          /\ input[c].user = input[t].user
<1>1. DispatchInv /\ [DispatchNext]_dispatchVars => [\A t \in Calls : Owned(t)]_dispatchVars
  <2> SUFFICES ASSUME DispatchInv, DispatchNext, NEW t \in Calls,
                      todos[t] # "none", todos'[t] # todos[t]
               PROVE  Owned(t)
    OBVIOUS
  <2>1. PICK c \in Calls : DispatchToolCall(c)
    BY DEF DispatchNext, Untouched, tables, Restart
  <2>2. CASE WriteTodo(c)
    <3>1. todos[c] = "none"
      BY <2>2 DEF WriteTodo, Approved, DispatchInv, RowWasWritten, HasGatedRow
    <3>2. QED
      BY <2>2, <3>1 DEF WriteTodo, DispatchInv, DispatchTypeOK
  <2>3. CASE UpdateTodo(c)
    <3>1. IsTool(c, {"todo_update"})
      BY <2>3 DEF UpdateTodo, DispatchInv, StageMatchesGate, IsTool
    <3>2. t = input[c].target /\ todos'[t] = input[c].to /\ stage'[c] = "written"
      BY <2>3 DEF UpdateTodo, MoveTo, DispatchInv, DispatchTypeOK
    <3>3. QED
      BY <2>3, <3>1, <3>2 DEF UpdateTodo, TargetsOwnTodo
  <2>4. CASE ~ WriteTodo(c) /\ ~ UpdateTodo(c)
    BY <2>1, <2>4
    DEF DispatchToolCall, AllocateNext, AllocationFails, DraftInvalid, Hold, ReplyRefused,
        ReplyDraft, WritePurchaseOrder, WriteFails, FindTodo, LogDiagnosticEntry, DirectFails,
        Read, ReplyWritten, tables
  <2>5. QED
    BY <2>2, <2>3, <2>4
<1>2. QED
  BY <1>1, DispatchInvariant, PTL DEF DispatchSafety, TodosAreOwned

-----------------------------------------------------------------------------
(* The dispatcher implements the gated write.                              *)

LEMMA ContractInitially == DispatchInit => Contract!AbsInit
BY DEF DispatchInit, ApprovalInit, Contract!AbsInit, Verdict, Settled, GatePassed,
       HasGatedRow

\* A step that leaves the gates and what has passed them alone is a stutter.
LEMMA ContractStutters ==
  ASSUME \A c \in Calls : Verdict(c)' = Verdict(c) /\ (GatePassed(c)' <=> GatePassed(c))
  PROVE  UNCHANGED Contract!absVars
BY DEF Contract!absVars

\* Settling the open gates in S is one judgement.
LEMMA SettlingJudges ==
  ASSUME NEW S \in SUBSET Calls, NEW v \in {"approve", "refused"},
         \A c \in S : Verdict(c) = "open" /\ Verdict(c)' = v,
         \A c \in Calls \ S : Verdict(c)' = Verdict(c),
         \A c \in Calls : GatePassed(c)' <=> GatePassed(c)
  PROVE  Contract!AbsNext
<1>1. Contract!Judge(S, v)
  BY DEF Contract!Judge
<1>2. QED
  BY <1>1 DEF Contract!AbsNext

\* The first row, or the reply, of an approved call is its release.
LEMMA PassingReleases ==
  ASSUME NEW c \in Calls, Verdict(c) = "approve", ~ GatePassed(c), GatePassed(c)',
         hold' = hold,
         \A d \in Calls \ {c} : GatePassed(d)' <=> GatePassed(d)
  PROVE  Contract!AbsNext
<1>1. \A d \in Calls : Verdict(d)' = Verdict(d)
  BY DEF Verdict, Settled
<1>2. Contract!Release(c)
  BY <1>1 DEF Contract!Release
<1>3. QED
  BY <1>2 DEF Contract!AbsNext

LEMMA HoldSimulated ==
  ASSUME DispatchInv, NEW c \in Calls, Hold(c)
  PROVE  Contract!AbsNext \/ UNCHANGED Contract!absVars
<1>1. /\ hold[c] = "none" /\ hold'[c] \in {"waiting", "send_error"}
      /\ \A d \in Calls \ {c} : hold'[d] = hold[d]
      /\ UNCHANGED <<input, reply, todos, orders>>
  BY DEF Hold, SendApprovalRequest, SendFails, tables, DispatchInv, DispatchTypeOK,
         ApprovalTypeOK
<1>2. \A d \in Calls : GatePassed(d)' <=> GatePassed(d)
  BY <1>1 DEF GatePassed, HasGatedRow, IsTool
<1>3. \A d \in Calls \ {c} : Verdict(d)' = Verdict(d)
  BY <1>1 DEF Verdict, Settled
<1>4. Verdict(c) = "open"
  BY <1>1 DEF Verdict, Settled
<1>5. CASE hold'[c] = "waiting"
  BY <1>2, <1>3, <1>4, <1>5, ContractStutters DEF Verdict, Settled
<1>6. CASE hold'[c] = "send_error"
  <2>1. Verdict(c)' = "refused"
    BY <1>6 DEF Verdict, Settled
  <2>2. QED
    BY <1>2, <1>3, <1>4, <2>1, SettlingJudges
<1>7. QED
  BY <1>1, <1>5, <1>6

LEMMA PassSimulated ==
  ASSUME DispatchInv, NEW c \in Calls,
         WriteTodo(c) \/ WritePurchaseOrder(c) \/ ReplyDraft(c)
  PROVE  Contract!AbsNext
<1>1. stage[c] = "gated" /\ hold[c] = "approve" /\ hold' = hold /\ input' = input
  BY DEF WriteTodo, WritePurchaseOrder, ReplyDraft, Approved, approvalVars
<1>2. Verdict(c) = "approve"
  BY <1>1 DEF Verdict
<1>3. ~ GatePassed(c)
  BY <1>1 DEF GatePassed, DispatchInv, RowWasWritten, StageMatchesGate
<1>4. GatePassed(c)'
  <2>1. CASE WriteTodo(c)
    BY <2>1 DEF WriteTodo, GatePassed, HasGatedRow, DispatchInv, DispatchTypeOK
  <2>2. CASE WritePurchaseOrder(c)
    BY <2>2 DEF WritePurchaseOrder, GatePassed, HasGatedRow
  <2>3. CASE ReplyDraft(c)
    BY <1>1, <2>3
    DEF ReplyDraft, Reply, GatePassed, IsTool, Gated, DispatchInv, DispatchTypeOK
  <2>4. QED
    BY <2>1, <2>2, <2>3
<1>5. \A d \in Calls \ {c} : /\ todos'[d] = todos[d] /\ reply'[d] = reply[d]
                             /\ (d \in orders') <=> (d \in orders)
  <2>1. CASE WriteTodo(c)
    BY <2>1 DEF WriteTodo, DispatchInv, DispatchTypeOK
  <2>2. CASE WritePurchaseOrder(c)
    BY <2>2 DEF WritePurchaseOrder
  <2>3. CASE ReplyDraft(c)
    BY <2>3 DEF ReplyDraft, Reply, tables, DispatchInv, DispatchTypeOK
  <2>4. QED
    BY <2>1, <2>2, <2>3
<1>6. \A d \in Calls \ {c} : GatePassed(d)' <=> GatePassed(d)
  BY <1>1, <1>5 DEF GatePassed, HasGatedRow, IsTool
<1>7. QED
  BY <1>1, <1>2, <1>3, <1>4, <1>6, PassingReleases

\* The other steps of a call neither settle its gate nor pass it.
LEMMA OtherStepsStutter ==
  ASSUME DispatchInv, NEW c \in Calls, DispatchToolCall(c),
         ~ Hold(c), ~ WriteTodo(c), ~ WritePurchaseOrder(c), ~ ReplyDraft(c)
  PROVE  UNCHANGED Contract!absVars
<1>1. hold' = hold /\ input' = input /\ orders' = orders
  BY DEF DispatchToolCall, AllocateNext, AllocationFails, DraftInvalid, ReplyRefused,
         WriteFails, FindTodo, UpdateTodo, LogDiagnosticEntry, DirectFails, Read,
         ReplyWritten, approvalVars, tables
<1>2. \A d \in Calls : todos'[d] # "none" <=> todos[d] # "none"
  <2>1. CASE UpdateTodo(c)
    <3>1. input[c].to \in TerminalStatus /\ input[c].target \in Calls
      BY DispatchAssumption DEF DispatchInv, DispatchTypeOK, ToolCallInput
    <3>2. QED
      BY <2>1, <3>1
      DEF UpdateTodo, TargetsOwnTodo, TerminalStatus, DispatchInv, DispatchTypeOK
  <2>2. CASE ~ UpdateTodo(c)
    BY <2>2
    DEF DispatchToolCall, AllocateNext, AllocationFails, DraftInvalid, ReplyRefused,
        WriteFails, FindTodo, LogDiagnosticEntry, DirectFails, Read, ReplyWritten, tables
  <2>3. QED
    BY <2>1, <2>2
<1>3. \A d \in Calls : GatePassed(d)' <=> GatePassed(d)
  <2>1. CASE reply' = reply
    BY <1>1, <1>2, <2>1 DEF GatePassed, HasGatedRow, IsTool
  <2>2. ASSUME NEW status \in ToolCallStatus, Reply(c, status), stage[c] # "replied",
               status = "approved" /\ IsTool(c, Gated) => HasGatedRow(c)
        PROVE  \A d \in Calls : GatePassed(d)' <=> GatePassed(d)
    <3>1. /\ reply'[c] = status /\ reply[c] = "none"
          /\ \A d \in Calls \ {c} : reply'[d] = reply[d]
      BY <2>2 DEF Reply, DispatchInv, DispatchTypeOK, StageMatchesGate
    <3>2. QED
      BY <1>1, <1>2, <2>2, <3>1 DEF GatePassed, HasGatedRow, IsTool
  <2>3. CASE AllocateNext(c) \/ FindTodo(c) \/ UpdateTodo(c) \/ LogDiagnosticEntry(c)
    BY <2>1, <2>3 DEF AllocateNext, FindTodo, UpdateTodo, LogDiagnosticEntry
  <2>4. CASE AllocationFails(c) \/ DraftInvalid(c) \/ WriteFails(c) \/ DirectFails(c)
    BY <2>2, <2>4
    DEF AllocationFails, DraftInvalid, ReadyToDraft, WriteFails, Approved, DirectFails,
        ToolCallStatus
  <2>5. CASE ReplyRefused(c)
    <3>1. RefusalOf(c) \in {"timeout", "error", "rejected"}
      BY DEF RefusalOf
    <3>2. QED
      BY <2>2, <2>5, <3>1 DEF ReplyRefused, ToolCallStatus
  <2>6. CASE Read(c)
    BY <2>2, <2>6 DEF Read, ToolCallStatus
  <2>7. CASE ReplyWritten(c)
    BY <2>2, <2>7 DEF ReplyWritten, ToolCallStatus, DispatchInv, WrittenHasRow
  <2>8. QED
    BY <2>3, <2>4, <2>5, <2>6, <2>7 DEF DispatchToolCall
<1>4. \A d \in Calls : Verdict(d)' = Verdict(d)
  BY <1>1 DEF Verdict, Settled
<1>5. QED
  BY <1>3, <1>4, ContractStutters

\* An event settles every gate that listens for it, a timer one gate.
LEMMA SettleSimulated ==
  ASSUME DispatchInv, Untouched,
         (\E e \in inbox : EmitDecision(e)) \/ (\E c \in Calls : TimeOut(c))
  PROVE  Contract!AbsNext \/ UNCHANGED Contract!absVars
<1>1. \A c \in Calls : GatePassed(c)' <=> GatePassed(c)
  BY DEF Untouched, tables, GatePassed, HasGatedRow, IsTool
<1>2. ASSUME NEW e \in inbox, EmitDecision(e)
      PROVE  Contract!AbsNext
  <2> DEFINE v == IF e.decision = "approve" THEN "approve" ELSE "refused"
  <2>1. e.decision \in ApprovalDecision
    BY DEF DispatchInv, DispatchTypeOK, ApprovalTypeOK, DecisionEvent
  <2>2. \A c \in Listeners(e) : Verdict(c) = "open" /\ Verdict(c)' = v
    BY <1>2, <2>1
    DEF EmitDecision, Listeners, Waiting, Verdict, Settled, ApprovalDecision
  <2>3. \A c \in Calls \ Listeners(e) : Verdict(c)' = Verdict(c)
    BY <1>2 DEF EmitDecision, Verdict, Settled
  <2>4. Listeners(e) \in SUBSET Calls /\ v \in {"approve", "refused"}
    BY DEF Listeners
  <2>5. QED
    BY <1>1, <2>2, <2>3, <2>4, SettlingJudges
<1>3. ASSUME NEW c \in Calls, TimeOut(c)
      PROVE  Contract!AbsNext
  <2>1. /\ hold[c] = "waiting" /\ hold'[c] = "timeout"
        /\ \A d \in Calls \ {c} : hold'[d] = hold[d]
    BY <1>3 DEF TimeOut, Waiting, DispatchInv, DispatchTypeOK, ApprovalTypeOK
  <2>2. Verdict(c) = "open" /\ Verdict(c)' = "refused"
    BY <2>1 DEF Verdict, Settled
  <2>3. \A d \in Calls \ {c} : Verdict(d)' = Verdict(d)
    BY <2>1 DEF Verdict, Settled
  <2>4. QED
    BY <1>1, <2>2, <2>3, SettlingJudges
<1>4. QED
  BY <1>2, <1>3

LEMMA EnvironmentStutters ==
  ASSUME \/ \E c \in Calls, d \in ApprovalDecision : Decide(c, d) /\ Untouched
         \/ Restart
         \/ UNCHANGED dispatchVars
  PROVE  UNCHANGED Contract!absVars
<1>1. UNCHANGED <<input, reply, todos, orders>>
  BY DEF Decide, Untouched, Restart, dispatchVars, tables
<1>2. \A c \in Calls : hold'[c] = hold[c] \/ (hold[c] = "waiting" /\ hold'[c] = "none")
  BY DEF Decide, Restart, Waiting, dispatchVars, approvalVars
<1>3. \A c \in Calls : GatePassed(c)' <=> GatePassed(c)
  BY <1>1 DEF GatePassed, HasGatedRow, IsTool
<1>4. \A c \in Calls : Verdict(c)' = Verdict(c)
  BY <1>2 DEF Verdict, Settled
<1>5. QED
  BY <1>3, <1>4, ContractStutters

\* Sockets, timers, failures and restarts included, the dispatcher is a
\* gated write.
THEOREM DispatchImplementsGatedWrite == DispatchSafety => ImplementsGatedWrite
<1>1. DispatchInv /\ [DispatchNext]_dispatchVars
        => [Contract!AbsNext]_(Contract!absVars)
  <2> SUFFICES ASSUME DispatchInv, [DispatchNext]_dispatchVars
               PROVE  Contract!AbsNext \/ UNCHANGED Contract!absVars
    OBVIOUS
  <2>1. ASSUME NEW c \in Calls, DispatchToolCall(c)
        PROVE  Contract!AbsNext \/ UNCHANGED Contract!absVars
    BY <2>1, HoldSimulated, PassSimulated, OtherStepsStutter
  <2>2. QED
    BY <2>1, SettleSimulated, EnvironmentStutters DEF DispatchNext
<1>2. QED
  BY <1>1, ContractInitially, DispatchInvariant, PTL
  DEF DispatchSafety, ImplementsGatedWrite, Contract!AbsSpec
====
