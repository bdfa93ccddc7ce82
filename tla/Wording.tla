------------------------------ MODULE Wording -------------------------------
(***************************************************************************)
(* The texts that the pipeline reads.  A text is a sequence of tokens; a   *)
(* token is one unit of length and belongs to the classes that the code's  *)
(* patterns recognise (orchestration/preflight.ts, formatters.ts).  Two    *)
(* occurrences of one token are the same words.  A lone line break is left *)
(* out; one behind a full stop is a gap.                                   *)
(***************************************************************************)
EXTENDS Integers, Sequences, FiniteSets

CONSTANTS
  Tokens,
  Gaps,         \* white space
  Enders,       \* the marks that end a sentence
  Markup,       \* what SMS_MARKDOWN_PATTERNS match: markers, whole table rows
  Claims,       \* "i've sent" and its like
  DraftMarks,   \* "To:", "Subject:", "Dear"
  GateMarks,    \* "approve", "shall i send", ...
  Numeric,      \* five to eight digits
  Lettered,     \* serials with letters around the digits
  PhoneMarks,   \* "ext", "call", ...
  Within,       \* pairs of numbers or amounts of which the first is part of the second
  Costs,        \* dollar amounts
  Cents,        \* those among them that are written with cents
  Tildes,
  Estimates     \* "approximately", "up to", ...

Text == Seq(Tokens)

ASSUME WordingAssumption ==
  /\ IsFiniteSet(Tokens)
  /\ Gaps \cup Enders \cup Markup \cup Claims \cup DraftMarks \cup GateMarks \subseteq Tokens
  /\ Numeric \cup Lettered \cup PhoneMarks \cup Costs \cup Tildes \cup Estimates \subseteq Tokens
  /\ Cents \subseteq Costs /\ Within \subseteq Tokens \X Tokens
  /\ Gaps \cap Enders = {}

Words(text) == {text[i] : i \in DOMAIN text}

\* A token as such or as part of another one.
Finds(words, token) == \E word \in words : word = token \/ <<token, word>> \in Within

Says(text, class) == Words(text) \cap class # {}

\* `text.trim()` is empty.
Blank(text) == Words(text) \subseteq Gaps
=============================================================================
