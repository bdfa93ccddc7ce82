----------------------------- MODULE GatedWrite -----------------------------
(***************************************************************************)
(* What the approval gate promises, without sockets, timers or processes:  *)
(* every output is judged at most once, and only an approved one goes out, *)
(* once, and for good.                                                     *)
(***************************************************************************)
CONSTANT Calls

VARIABLES
  verdict,   \* verdict[c]: "open", "approve" or "refused"
  out        \* the outputs that were written or handed on

absVars == <<verdict, out>>

AbsInit ==
  /\ verdict = [c \in Calls |-> "open"]
  /\ out = {}

\* One answer of the user may settle several outputs.
Judge(S, v) ==
  /\ \A c \in S : verdict[c] = "open"
  /\ verdict' = [c \in Calls |-> IF c \in S THEN v ELSE verdict[c]]
  /\ UNCHANGED out

Release(c) ==
  /\ verdict[c] = "approve"
  /\ c \notin out
  /\ out' = out \cup {c}
  /\ UNCHANGED verdict

AbsNext ==
  \/ \E S \in SUBSET Calls, v \in {"approve", "refused"} : Judge(S, v)
  \/ \E c \in Calls : Release(c)

AbsSpec == AbsInit /\ [][AbsNext]_absVars
=============================================================================
