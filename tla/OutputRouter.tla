---------------------------- MODULE OutputRouter ----------------------------
(***************************************************************************)
(* backend/src/orchestration/outputRouter.ts: a reply goes out as parcels, *)
(* one at a time, recipient after recipient; a failed send ends the        *)
(* parcels of that recipient only.  An SMS is stripped of markdown and cut *)
(* into segments, one action per pass of the loop: a parcel is an interval *)
(* of the text and, if it was cut at the limit, an ellipsis behind it.     *)
(*                                                                         *)
(* The encrypted full content of a push message is left out; a key that    *)
(* fails drops it without effect on delivery.                              *)
(***************************************************************************)
EXTENDS Wording, FiniteSetsExt

CONSTANTS
  Recipients,
  Limit,       \* SMS_MAX_CHARS
  PushLimit    \* PUSH_BODY_MAX_CHARS

VARIABLES
  routing,     \* "idle", "formatting", "sending", "reported" or "refused"
  route,       \* the RouteInstruction, and whether the channel has its client
  text,        \* what is sent, before it is cut
  from, upto,  \* `remaining`: the interval of text not yet in a segment
  parcels,     \* what goes to every recipient, in order
  who, next,   \* the recipient and the parcel to be sent to it
  got,         \* got[k]: the parcels that have reached recipient k (external)
  delivered, failed

routerVars == <<routing, route, text, from, upto, parcels, who, next, got, delivered, failed>>
segmentVars == <<from, upto, parcels>>
sendVars == <<who, next, got, delivered, failed>>

\* The socket of the app counts as one recipient, the log as none.
Route ==
  {r \in [channel : {"app", "sms", "push", "log"}, recipients : Seq(Recipients), client : BOOLEAN] :
     (r.channel = "app" => Len(r.recipients) = 1) /\ (r.channel = "log" => r.recipients = <<>>)}

Parcel == [first : Nat, last : Nat, cut : BOOLEAN]

ASSUME RouterAssumption == Limit \in Nat \ {0} /\ PushLimit \in Nat \ {0}

Size(p) == p.last - p.first + 1 + (IF p.cut THEN 1 ELSE 0)

Word(p) == p \in DOMAIN text /\ text[p] \notin Gaps

\* `trim` of the text from i to j leaves f to l, and nothing if there is no word.
Trims(t, i, j, f, l) ==
  LET words == {p \in i..j : t[p] \notin Gaps} IN
  \/ words # {} /\ f \in words /\ l \in words /\ \A p \in words : f <= p /\ p <= l
  \/ words = {} /\ f = i /\ l = i - 1

\* A recursive function, of which more can be proved than of SelectSeq.
Strip(t) ==
  LET kept[i \in 0..Len(t)] ==
        IF i = 0 THEN <<>>
        ELSE IF t[i] \in Markup THEN kept[i - 1] ELSE Append(kept[i - 1], t[i])
  IN  kept[Len(t)]

\* Where the window of a segment holds a sentence mark and the gap behind it.
\* Index 0 of the string does not count.
Boundaries ==
  {b \in (from + 1)..(from + Limit - 2) : text[b] \in Enders /\ text[b + 1] \in Gaps}

-----------------------------------------------------------------------------
RouterTypeOK ==
  /\ routing \in {"idle", "formatting", "sending", "reported", "refused"}
  /\ route \in Route
  /\ text \in Text
  /\ from \in Nat /\ upto \in Nat
  /\ parcels \in Seq(Parcel)
  /\ who \in Nat /\ next \in Nat
  /\ got \in [DOMAIN route.recipients -> Seq(Nat)]
  /\ delivered \subseteq DOMAIN route.recipients
  /\ failed \subseteq DOMAIN route.recipients

RouterInit ==
  /\ routing = "idle"
  /\ route = [channel |-> "log", recipients |-> <<>>, client |-> TRUE]
  /\ text = <<>> /\ from = 1 /\ upto = 0 /\ parcels = <<>>
  /\ who = 1 /\ next = 1 /\ got = <<>> /\ delivered = {} /\ failed = {}

\* No client for the channel, or nobody to send to: an OutputRouterError.
Routable(r) == r.channel = "log" \/ (r.client /\ r.recipients # <<>>)

Accept(r) ==
  /\ Routable(r)
  /\ route' = r
  /\ got' = [k \in DOMAIN r.recipients |-> <<>>]
  /\ UNCHANGED <<who, next, delivered, failed>>

RouteRefused(r) ==
  /\ ~ Routable(r)
  /\ routing' = "refused" /\ route' = r /\ got' = [k \in DOMAIN r.recipients |-> <<>>]
  /\ UNCHANGED <<text, segmentVars, who, next, delivered, failed>>

RouteToSms(reply, r) ==
  /\ r.channel = "sms" /\ Accept(r)
  /\ routing' = "formatting" /\ text' = Strip(reply)
  /\ \E f \in 1..(Len(text') + 1), l \in 0..Len(text') :
       Trims(text', 1, Len(text'), f, l) /\ from' = f /\ upto' = l
  /\ UNCHANGED parcels

\* The app (whose socket is the recipient) gets the reply in one message, a push
\* token a notification with the head of it, the log nothing of it.
RouteWhole(reply, r) ==
  /\ r.channel # "sms" /\ Accept(r)
  /\ routing' = "sending" /\ text' = reply
  /\ parcels' = IF r.channel = "log" THEN <<>> ELSE
       <<[first |-> 1, cut |-> FALSE,
          last |-> IF r.channel = "push" /\ PushLimit < Len(reply) THEN PushLimit ELSE Len(reply)]>>
  /\ UNCHANGED <<from, upto>>

\* Mutant: what follows a segment is taken for a gap.
TakeSegmentAndGap(last, cut) ==
  /\ \E l \in from..last :
       /\ Trims(text, from, last, from, l)
       /\ parcels' = Append(parcels, [first |-> from, last |-> l, cut |-> cut])
  /\ \E f \in (last + 2)..upto : Trims(text, last + 2, upto, f, upto) /\ from' = f
  /\ UNCHANGED <<routing, route, text, upto, sendVars>>

\* The segment takes the text up to `last`; what is left is trimmed.
TakeSegment(last, cut) ==
  /\ \E l \in from..last :
       /\ Trims(text, from, last, from, l)
       /\ parcels' = Append(parcels, [first |-> from, last |-> l, cut |-> cut])
  /\ \E f \in (last + 1)..upto : Trims(text, last + 1, upto, f, upto) /\ from' = f
  /\ UNCHANGED <<routing, route, text, upto, sendVars>>

CutAtSentence ==
  /\ routing = "formatting" /\ upto - from + 1 > Limit
  /\ \E b \in Boundaries : (\A c \in Boundaries : c <= b) /\ TakeSegment(b, FALSE)

CutAtLimit ==
  /\ routing = "formatting" /\ upto - from + 1 > Limit
  /\ Boundaries = {}
  /\ TakeSegment(from + Limit - 1, TRUE)

TakeRest ==
  /\ routing = "formatting" /\ upto - from + 1 <= Limit
  /\ parcels' = IF from <= upto
                THEN Append(parcels, [first |-> from, last |-> upto, cut |-> FALSE]) ELSE parcels
  /\ from' = upto + 1
  /\ routing' = "sending"
  /\ UNCHANGED <<route, text, upto, sendVars>>

Sending == routing = "sending" /\ who \in DOMAIN route.recipients

NextRecipient == who' = who + 1 /\ next' = 1

\* The send of one parcel resolves; the last one completes the recipient.
Send ==
  /\ Sending /\ next \in DOMAIN parcels
  /\ got' = [got EXCEPT ![who] = Append(@, next)]
  /\ IF next = Len(parcels) THEN NextRecipient /\ delivered' = delivered \cup {who}
                            ELSE next' = next + 1 /\ UNCHANGED <<who, delivered>>
  /\ UNCHANGED <<routing, route, text, segmentVars, failed>>

\* Mutant: the loop over the segments goes on.
SendFailsAndGoesOn ==
  /\ Sending /\ next \in DOMAIN parcels
  /\ failed' = failed \cup {who}
  /\ IF next = Len(parcels) THEN NextRecipient ELSE next' = next + 1 /\ UNCHANGED who
  /\ UNCHANGED <<routing, route, text, segmentVars, got, delivered>>

\* It rejects; a provider may have passed the parcel on all the same.
SendFails ==
  /\ Sending /\ next \in DOMAIN parcels
  /\ \/ UNCHANGED got
     \/ got' = [got EXCEPT ![who] = Append(@, next)]
  /\ failed' = failed \cup {who}
  /\ NextRecipient
  /\ UNCHANGED <<routing, route, text, segmentVars, delivered>>

\* Without a parcel, every recipient is counted as delivered to.
NothingToSend ==
  /\ Sending /\ parcels = <<>>
  /\ delivered' = delivered \cup {who}
  /\ NextRecipient
  /\ UNCHANGED <<routing, route, text, segmentVars, got, failed>>

Report ==
  /\ routing = "sending" /\ who \notin DOMAIN route.recipients
  /\ routing' = "reported"
  /\ UNCHANGED <<route, text, segmentVars, sendVars>>

Success == failed = {}
=============================================================================
