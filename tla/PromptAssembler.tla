-------------------------- MODULE PromptAssembler ---------------------------
(***************************************************************************)
(* backend/src/orchestration/promptAssembler.ts, tokenUtils.ts: the prompt *)
(* is the static text, the context of the turn, what fits of the history,  *)
(* and the input, which is never trimmed.  One action per message dropped; *)
(* sizes are estimates in tokens of the model.                             *)
(***************************************************************************)
EXTENDS ContextLoader

CONSTANTS
  TotalTokens, ResponseReserve,  \* of the context window
  StaticTokens,                  \* the system prompt and the style profile
  Overhead,                      \* of every message
  EntryTokens                    \* one line of injected context

VARIABLES
  history,    \* what is left of the conversation: estimates, oldest first
  trimmed,    \* historyTurnsTrimmed
  prompt      \* what the model is sent of the history and the context, or None

promptVars == <<history, trimmed, prompt>>

History == Seq(Nat)
Prompt == [history : History, context : Context, trimmed : Nat]

ASSUME PromptAssumption ==
  /\ TotalTokens \in Nat /\ ResponseReserve \in Nat /\ StaticTokens \in Nat
  /\ Overhead \in Nat /\ EntryTokens \in Nat
  /\ IsFiniteSet(Flags) /\ IsFiniteSet(Items) /\ IsFiniteSet(Machines)

EstimateMessagesTokens(messages) ==
  LET upTo[n \in 0..Len(messages)] ==
        IF n = 0 THEN 0 ELSE upTo[n - 1] + messages[n] + Overhead
  IN  upTo[Len(messages)]

DynamicTokens(c) ==
  EntryTokens * (Cardinality(c.flags) + Cardinality(c.items) + Cardinality(c.machines))

\* Mutant: the input is forgotten.
BudgetWithoutInput(event) ==
  TotalTokens - ResponseReserve - StaticTokens - DynamicTokens(context)

\* Negative when the static text, the context and the input exceed the window.
HistoryBudget(event) ==
  TotalTokens - ResponseReserve - StaticTokens - DynamicTokens(context)
    - (Len(event.content) + Overhead)

Fits(messages, event) == EstimateMessagesTokens(messages) <= HistoryBudget(event)

-----------------------------------------------------------------------------
PromptTypeOK ==
  /\ history \in History
  /\ trimmed \in Nat
  /\ prompt \in Prompt \cup {None}

PromptInit(conversation) == history = conversation /\ trimmed = 0 /\ prompt = None

TrimOldest(event) ==
  /\ history # <<>> /\ ~ Fits(history, event)
  /\ history' = Tail(history)
  /\ trimmed' = trimmed + 1
  /\ UNCHANGED prompt

AssemblePrompt(event) ==
  /\ history = <<>> \/ Fits(history, event)
  /\ prompt' = [history |-> history, context |-> context, trimmed |-> trimmed]
  /\ UNCHANGED <<history, trimmed>>
=============================================================================
