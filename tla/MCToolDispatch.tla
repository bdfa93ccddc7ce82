--------------------------- MODULE MCToolDispatch ---------------------------
(***************************************************************************)
(* Instances of ToolDispatch for TLC.                                      *)
(***************************************************************************)
EXTENDS ToolDispatch, TLC

CONSTANTS c1, c2, c3, u1, u2, r1, r2, r3

MCCalls == {c1, c2, c3}
MCUsers == {u1, u2}
MCRequestIds == {r1, r2, r3}

For(tool, user, id) ==
  [tool |-> tool, user |-> user, requestId |-> id, valid |-> TRUE,
   target |-> c1, to |-> "done"]

Invalid(in) == [in EXCEPT !.valid = FALSE]
Dismiss(in) == [in EXCEPT !.to = "dismissed"]

Work(first, second, third) == c1 :> first @@ c2 :> second @@ c3 :> third

\* Purchase orders of one user and of another; gated tools of one request,
\* which share its id; a todo that its owner and a stranger close, and that
\* its owner closes twice; direct tools.
MCWorkloads ==
  {Work(For("po_generate", u1, r1), For("po_generate", u1, r2),
        Invalid(For("po_generate", u2, r3))),
   Work(For("po_generate", u1, r1), For("comms_draft", u1, r1),
        Invalid(For("po_generate", u1, r2))),
   Work(For("todo_create", u1, r1), For("todo_update", u1, r2),
        Dismiss(For("todo_update", u2, r3))),
   Work(For("todo_create", u1, r1), For("todo_update", u1, r2),
        Dismiss(For("todo_update", u1, r3))),
   Work(Invalid(For("todo_create", u1, r1)), For("log_diagnostic", u1, r2),
        For("read", u2, r3))}
=============================================================================
