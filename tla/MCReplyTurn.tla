---------------------------- MODULE MCReplyTurn -----------------------------
(***************************************************************************)
(* Instances of ReplyTurn for TLC: one machine, a safety flag, a flag about*)
(* the machine, one item about it, and a vocabulary with a token of every  *)
(* class.                                                                  *)
(***************************************************************************)
EXTENDS ReplyTurn, TLC

CONSTANTS machine, leak, noise, due, alice, bob

MCTokens ==
  {"word", "tamper", "hydraulic", " ", ".", "**", "|row|", "i've sent", "dear", "approve",
   "153640", "SN153640", "ext", "$5", "$50", "$9.99", "~", "about"}
MCGaps == {" "}
MCEnders == {"."}
MCMarkup == {"**", "|row|"}
MCClaims == {"i've sent"}
MCDraftMarks == {"dear"}
MCGateMarks == {"approve"}
MCNumeric == {"153640"}
MCLettered == {"SN153640"}
MCPhoneMarks == {"ext"}
MCWithin == {<<"153640", "SN153640">>, <<"$5", "$50">>}
MCCosts == {"$5", "$50", "$9.99"}
MCCents == {"$9.99"}
MCTildes == {"~"}
MCEstimates == {"about"}
MCShortWords == {"~", ".", " ", "**", "|row|", "ext", "$5", "$50", "$9.99"}

MCFlags == {leak, noise}
MCSafetyFlags == {leak}
MCItems == {due}
MCMachines == {machine}
MCWordsOf == leak :> {"hydraulic"} @@ noise :> {"tamper", "word"} @@ due :> {"tamper", "$50"}
MCLabels == [where \in {"message", "item", "flag"} |-> machine :> {"tamper"}]
MCSerialOf == machine :> "153640"

Input(source, content) == [source |-> source, body |-> "text", payload |-> TRUE, content |-> content]

MCRawInputs ==
  {Input("app", <<"word">>), Input("app", <<"tamper">>), Input("email", <<"word">>),
   Input("sms", <<"word", ".">>), Input("internal", <<"word">>), Input("lifecycle", <<"word">>),
   [Input("app", <<" ">>) EXCEPT !.body = "blank"],
   [Input("sms", <<>>) EXCEPT !.body = "blank"],
   [Input("email", <<>>) EXCEPT !.payload = FALSE],
   [Input("lifecycle", <<>>) EXCEPT !.payload = FALSE, !.body = "missing"]}

MCSessions ==
  {[flags |-> {leak, noise}, acked |-> a, items |-> {due}, machines |-> {machine}] : a \in {{}, {leak}}}

MCConversations == {<<2, 1, 1>>, <<>>}

Row(key, value) == [key |-> key, raw |-> value]
MCSettingsRows ==
  {<<>>,
   <<Row("voiceResponseMode", "always"), Row("else", "[]"), Row("ttsRate", "1.5"), Row("ttsRate", "")>>}

\* Replies: clean; with a claim, a draft, a safety word in a table row and a
\* serial number; amounts; long ones with and without a sentence to cut at.
MCAnswers ==
  {<<"word">>, <<" ">>,
   <<"word", ".", " ", "word", "word", " ", "word">>,
   <<"hydraulic", "word", "word", "word", " ", "word">>,
   <<"|row|">>,
   <<"i've sent", " ", "dear">>,
   <<"153640", " ", "$50">>,
   <<"SN153640", "153640", "ext", " ", "about", "$9.99">>,
   <<"$5", ".", " ", "about", "$50", "~", "$9.99">>}

MCAuditReplies ==
  {[object |-> TRUE, result |-> "pass", issue |-> FALSE, correction |-> FALSE],
   [object |-> TRUE, result |-> "revise", issue |-> TRUE, correction |-> TRUE],
   [object |-> TRUE, result |-> "flag", issue |-> TRUE, correction |-> FALSE],
   [object |-> TRUE, result |-> "else", issue |-> TRUE, correction |-> TRUE],
   [object |-> FALSE, result |-> "pass", issue |-> FALSE, correction |-> FALSE]}

MCSignalSets ==
  {[postApproval |-> p, actionWasInvoked |-> FALSE, gateWasInvoked |-> FALSE] : p \in BOOLEAN}

MCRecipients == {alice, bob}

To(channel, recipients) == [channel |-> channel, recipients |-> recipients, client |-> TRUE]

MCRoutes ==
  {To("sms", <<alice, bob>>), To("app", <<alice>>), To("push", <<alice, bob>>), To("log", <<>>),
   To("sms", <<>>), [To("app", <<alice>>) EXCEPT !.client = FALSE]}
=============================================================================
