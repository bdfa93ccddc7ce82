--------------------------- MODULE RecorderProofs ---------------------------
(***************************************************************************)
(* Proofs about the recorder and its screen, for any requests, profiles    *)
(* and number of messages on their way.  A request is in one place at a    *)
(* time, which keeps files and stamps apart; the last message that decides *)
(* the flag agrees with `active`, which keeps the screen honest.           *)
(***************************************************************************)
EXTENDS BenchScreen, SequenceTheorems, TLAPS

-----------------------------------------------------------------------------
(* Sequences by their indices.                                             *)

LEMMA Appended ==
  ASSUME NEW S, NEW s \in Seq(S), NEW e \in S
  PROVE  /\ Append(s, e) \in Seq(S)
         /\ Len(s) \in Nat /\ DOMAIN s = 1 .. Len(s)
         /\ DOMAIN Append(s, e) = 1 .. Len(s) + 1
         /\ \A i \in 1 .. Len(s) : Append(s, e)[i] = s[i]
         /\ Append(s, e)[Len(s) + 1] = e
         /\ s \o <<e>> = Append(s, e)
         /\ s \o << >> = s /\ << >> \o s = s
  BY ConcatEmptySeq, LenProperties

LEMMA Tailed ==
  ASSUME NEW S, NEW s \in Seq(S), s # << >>
  PROVE  /\ Head(s) = s[1] /\ Head(s) \in S /\ Tail(s) \in Seq(S)
         /\ Len(s) \in Nat \ {0} /\ DOMAIN s = 1 .. Len(s)
         /\ DOMAIN Tail(s) = 1 .. Len(s) - 1
         /\ \A i \in 1 .. Len(s) - 1 : Tail(s)[i] = s[i + 1]
  BY HeadTailProperties, LenProperties, EmptySeq

\* What a step tells Dart.
LEMMA ToldFacts ==
  ASSUME RecorderTypeOK, NEW e \in Event, NEW m \in Message
  PROVE  /\ Told(<<e>>, <<m>>) =>
              /\ listening => /\ toDart' = Append(Append(toDart, e), m)
                              /\ pendingEvents' = pendingEvents
              /\ ~ listening => /\ toDart' = Append(toDart, m)
                                /\ pendingEvents' = Append(pendingEvents, e)
         /\ Told(<<e>>, << >>) =>
              /\ listening => toDart' = Append(toDart, e) /\ pendingEvents' = pendingEvents
              /\ ~ listening => toDart' = toDart /\ pendingEvents' = Append(pendingEvents, e)
         /\ Told(<< >>, <<m>>) => toDart' = Append(toDart, m) /\ pendingEvents' = pendingEvents
         /\ Told(<< >>, << >>) => toDart' = toDart /\ pendingEvents' = pendingEvents
<1>1. e \in Message /\ toDart \in Seq(Message) /\ pendingEvents \in Seq(Event)
  BY DEF RecorderTypeOK, Message
<1>2. /\ Append(toDart, e) \in Seq(Message)
      /\ toDart \o <<e>> = Append(toDart, e) /\ toDart \o << >> = toDart
  BY <1>1, Appended
<1>3. toDart \o <<m>> = Append(toDart, m)
  BY <1>1, Appended
<1>4. /\ Append(toDart, e) \o <<m>> = Append(Append(toDart, e), m)
      /\ Append(toDart, e) \o << >> = Append(toDart, e)
  BY <1>2, Appended
<1>5. pendingEvents \o <<e>> = Append(pendingEvents, e) /\ pendingEvents \o << >> = pendingEvents
  BY <1>1, Appended
<1>6. QED
  BY <1>2, <1>3, <1>4, <1>5 DEF Told

\* An answer alone leaves the events as they are.
LEMMA AnsweredFacts ==
  ASSUME RecorderTypeOK, NEW m \in Message, Told(<< >>, <<m>>)
  PROVE  /\ toDart' = Append(toDart, m) /\ toDart' \in Seq(Message)
         /\ pendingEvents' = pendingEvents /\ listening' = listening
<1>1. toDart \in Seq(Message) /\ pendingEvents \in Seq(Event)
  BY DEF RecorderTypeOK
<1>2. /\ Append(toDart, m) \in Seq(Message)
      /\ toDart \o << >> = toDart /\ toDart \o <<m>> = Append(toDart, m)
      /\ pendingEvents \o << >> = pendingEvents
  BY <1>1, Appended, ConcatEmptySeq
<1>3. QED
  BY <1>2 DEF Told

-----------------------------------------------------------------------------
(* Types, and the agreement of active, tap and file.                       *)

\* Whatever is told to Dart is a message.
LEMMA ToldTyped ==
  ASSUME RecorderTypeOK, NEW r \in Requests
  PROVE  /\ Told(<<[kind |-> "captureStarted", of |-> r]>>, ReplyTo(r, "started")) =>
              toDart' \in Seq(Message) /\ pendingEvents' \in Seq(Event) /\ listening' = listening
         /\ Told(<<[kind |-> "captureStopped", of |-> r]>>, <<[kind |-> "stopped", of |-> r]>>) =>
              toDart' \in Seq(Message) /\ pendingEvents' \in Seq(Event) /\ listening' = listening
         /\ Told(<< >>, ReplyTo(r, "notStarted")) =>
              toDart' \in Seq(Message) /\ pendingEvents' \in Seq(Event) /\ listening' = listening
         /\ Told(<< >>, <<[kind |-> "notStopped", of |-> None]>>) =>
              toDart' \in Seq(Message) /\ pendingEvents' \in Seq(Event) /\ listening' = listening
<1> DEFINE E1 == [kind |-> "captureStarted", of |-> r]
           E2 == [kind |-> "captureStopped", of |-> r]
           M1 == [kind |-> "started", of |-> r]
           M2 == [kind |-> "stopped", of |-> r]
           M3 == [kind |-> "notStarted", of |-> r]
           M4 == [kind |-> "notStopped", of |-> None]
<1>1. E1 \in Event /\ E2 \in Event
  BY DEF Event
<1>2. {M1, M2, M3, M4} \subseteq Message
  BY DEF Message, Reply
<1>3. /\ toDart \in Seq(Message) /\ pendingEvents \in Seq(Event) /\ Event \subseteq Message
      /\ \A s \in Seq(Message) : \A m \in Message : Append(s, m) \in Seq(Message)
      /\ \A s \in Seq(Event) : \A e \in Event : Append(s, e) \in Seq(Event)
  BY DEF RecorderTypeOK, Message
<1>4. ReplyTo(r, "started") \in {<< >>, <<M1>>} /\ ReplyTo(r, "notStarted") \in {<< >>, <<M3>>}
  BY DEF ReplyTo
<1>5. listening \in BOOLEAN
  BY DEF RecorderTypeOK
<1> HIDE DEF E1, E2, M1, M2, M3, M4
<1>6. \A e \in Event : Append(toDart, e) \in Seq(Message)
  BY <1>3
<1>7. \A e \in Event, m \in Message :
        \/ Told(<<e>>, <<m>>) \/ Told(<<e>>, << >>)
        \/ Told(<< >>, <<m>>) \/ Told(<< >>, << >>)
        => toDart' \in Seq(Message) /\ pendingEvents' \in Seq(Event)
  <2> SUFFICES ASSUME NEW e \in Event, NEW m \in Message
               PROVE  \/ Told(<<e>>, <<m>>) \/ Told(<<e>>, << >>)
                      \/ Told(<< >>, <<m>>) \/ Told(<< >>, << >>)
                      => toDart' \in Seq(Message) /\ pendingEvents' \in Seq(Event)
    OBVIOUS
  <2>1. /\ Append(Append(toDart, e), m) \in Seq(Message) /\ Append(toDart, m) \in Seq(Message)
        /\ Append(pendingEvents, e) \in Seq(Event)
    BY <1>3, <1>6
  <2>2. QED
    BY <1>3, <1>5, <1>6, <2>1, ToldFacts
<1>9. \A e, m : Told(e, m) => listening' = listening
  BY DEF Told
<1> USE DEF E1, E2, M1, M2, M3, M4
<1>10. QED
  BY <1>1, <1>2, <1>4, <1>7, <1>9

Kinded(r) == {[kind |-> k, of |-> r] : k \in {"firstBuffer", "granted", "denied"}}

\* The main queue stays a queue of blocks.
LEMMA MainTyped ==
  ASSUME RecorderTypeOK, NEW r \in Requests
  PROVE  /\ \A k : IsNext(r, k) => main' \in Seq(Block) /\ main # << >> /\ Head(main) = [kind |-> k, of |-> r]
         /\ \A b \in Kinded(r) : Append(main, b) \in Seq(Block)
<1>1. main \in Seq(Block) /\ Kinded(r) \subseteq Block
  BY DEF RecorderTypeOK, Kinded, Block
<1>2. \A k : IsNext(r, k) => main' = Tail(main) /\ main # << >> /\ Head(main) = [kind |-> k, of |-> r]
  BY DEF IsNext
<1>3. main # << >> => Tail(main) \in Seq(Block)
  BY <1>1, Tailed
<1>4. QED
  BY <1>1, <1>2, <1>3

LEMMA RecorderStepTyped ==
  ASSUME RecorderTypeOK, RecorderIsConsistent, NEW r \in Requests, RecorderSteps(r)
  PROVE  RecorderTypeOK' /\ RecorderIsConsistent'
<1> USE RecorderAssumption
<1>1. CASE Start(r)
  <2>1. ProfileOfStart(r) \subseteq Profiles \cup {None}
    BY DEF ProfileOfStart, RecorderTypeOK
  <2>2. currentProfile' \in Profiles
    BY <1>1 DEF Start, ProfileOfStart, RecorderTypeOK
  <2>3. toDart' \in Seq(Message) /\ pendingEvents' \in Seq(Event) /\ listening' = listening
    BY <1>1, ToldTyped DEF Start
  <2>4. main' \in Seq(Block)
    BY <1>1, MainTyped DEF Start
  <2>5. QED
    BY <1>1, <2>2, <2>3, <2>4 DEF Start, RecorderTypeOK, RecorderIsConsistent, Maybe
<1>2. CASE StartFails(r)
  <2>1. currentProfile' \in Profiles \cup {None}
    BY <1>2 DEF StartFails, ProfileOfStart, RecorderTypeOK
  <2>2. toDart' \in Seq(Message) /\ pendingEvents' \in Seq(Event) /\ listening' = listening
    BY <1>2, ToldTyped DEF StartFails
  <2>3. main' \in Seq(Block)
    BY <1>2, MainTyped DEF StartFails
  <2>4. firstBufferRecorded' \in BOOLEAN
    BY <1>2 DEF StartFails, RecorderTypeOK
  <2>5. active # None => currentProfile' = currentProfile
    BY <1>2 DEF StartFails
  <2>6. QED
    BY <1>2, <2>1, <2>2, <2>3, <2>4, <2>5
    DEF StartFails, RecorderTypeOK, RecorderIsConsistent, engineVars, stampVars
<1>3. CASE Denied(r)
  <2>1. toDart' \in Seq(Message) /\ pendingEvents' \in Seq(Event) /\ listening' = listening
    BY <1>3, ToldTyped DEF Denied
  <2>2. main' \in Seq(Block)
    BY <1>3, MainTyped DEF Denied
  <2>3. QED
    BY <1>3, <2>1, <2>2
    DEF Denied, RecorderTypeOK, RecorderIsConsistent, engineVars, audioVars, stampVars
<1>4. CASE PermissionAnswered(r)
  <2>1. main' \in Seq(Block)
    BY <1>4, MainTyped DEF PermissionAnswered, Kinded
  <2>2. QED
    BY <1>4, <2>1
    DEF PermissionAnswered, RecorderTypeOK, RecorderIsConsistent, engineVars, audioVars,
        stampVars, eventVars
<1>5. CASE CallbackBegins(r) \/ CallbackReads(r) \/ CallbackWrites(r)
  BY <1>5 DEF CallbackBegins, CallbackReads, CallbackWrites, RecorderTypeOK, RecorderIsConsistent,
              engineVars, stampVars, eventVars
<1>6. CASE CallbackStamps(r)
  <2>1. main' \in Seq(Block)
    BY <1>6, MainTyped DEF CallbackStamps, Kinded
  <2>2. QED
    BY <1>6, <2>1
    DEF CallbackStamps, RecorderTypeOK, RecorderIsConsistent, engineVars, stampVars, eventVars
<1>7. CASE StampFirstBuffer(r)
  <2>1. main' \in Seq(Block)
    BY <1>7, MainTyped DEF StampFirstBuffer
  <2>2. QED
    BY <1>7, <2>1
    DEF StampFirstBuffer, RecorderTypeOK, RecorderIsConsistent, engineVars, audioVars, eventVars,
        Maybe
<1>8. QED
  BY <1>1, <1>2, <1>3, <1>4, <1>5, <1>6, <1>7 DEF RecorderSteps

\* The call at the head of those on their way.
LEMMA CallFacts ==
  ASSUME ScreenTypeOK, toNative # << >>
  PROVE  /\ Head(toNative) \in Call /\ Tail(toNative) \in Seq(Call)
         /\ Head(toNative).kind = "startCapture" => Head(toNative).of \in Requests
         /\ Head(toNative).kind = "configureSession" => Head(toNative).of \in Profiles
         /\ Head(toNative).kind = "protect" => Head(toNative).of \in Requests
<1>1. Head(toNative) \in Call /\ Tail(toNative) \in Seq(Call)
  BY Tailed DEF ScreenTypeOK
<1>2. QED
  BY <1>1 DEF Call

\* The message at the head of those on their way.
LEMMA MessageFacts ==
  ASSUME RecorderTypeOK, toDart # << >>
  PROVE  /\ Head(toDart) \in Message /\ Tail(toDart) \in Seq(Message)
         /\ Head(toDart).kind # "notStopped" => Head(toDart).of \in Requests
<1>1. Head(toDart) \in Message /\ Tail(toDart) \in Seq(Message)
  BY Tailed DEF RecorderTypeOK
<1>2. QED
  BY <1>1 DEF Message, Event, Reply

\* What the call at the head does on the main thread.
LEMMA HandleTyped ==
  ASSUME ScreenTypeOK, RecorderIsConsistent, Handle
  PROVE  ScreenTypeOK' /\ RecorderIsConsistent'
<1> USE RecorderAssumption
<1>1. RecorderTypeOK /\ toNative # << >>
  BY DEF Handle, ScreenTypeOK
<1>2. toNative' \in Seq(Call) /\ UNCHANGED <<recording, made, queued>>
  BY <1>1, CallFacts DEF Handle
<1>9. UNCHANGED <<enqueuing, hidden>>
  BY DEF Handle
<1>3. CASE \E r \in Requests : AskToStart(r)
  <2>1. RecorderTypeOK' /\ RecorderIsConsistent'
    BY <1>1, <1>3 DEF AskToStart, RecorderTypeOK, RecorderIsConsistent, engineVars, audioVars,
                      stampVars, eventVars
  <2>2. QED
    BY <1>2, <1>9, <2>1 DEF ScreenTypeOK, Maybe
<1>4. CASE \E p \in Profiles : Configure(p)
  <2>1. RecorderTypeOK' /\ RecorderIsConsistent'
    BY <1>1, <1>4 DEF Configure, RecorderTypeOK, RecorderIsConsistent, engineVars, audioVars,
                      stampVars, eventVars
  <2>2. QED
    BY <1>2, <1>9, <2>1 DEF ScreenTypeOK, Maybe
<1>5. CASE Stop
  <2>1. active \in Requests
    BY <1>1, <1>5 DEF Stop, RecorderTypeOK, Maybe
  <2>2. toDart' \in Seq(Message) /\ pendingEvents' \in Seq(Event) /\ listening' = listening
    BY <1>1, <1>5, <2>1, ToldTyped DEF Stop
  <2>3. RecorderTypeOK' /\ RecorderIsConsistent'
    BY <1>1, <1>5, <2>1, <2>2
    DEF Stop, RecorderTypeOK, RecorderIsConsistent, Maybe, audioVars
  <2>4. QED
    BY <1>2, <1>9, <2>3 DEF ScreenTypeOK, Maybe
<1>6. CASE NotCapturing
  <2>1. toDart' = Append(toDart, [kind |-> "notStopped", of |-> None])
           /\ pendingEvents' = pendingEvents /\ listening' = listening
    <3>1. /\ toDart \o << >> = toDart /\ pendingEvents \o << >> = pendingEvents
          /\ toDart \o <<[kind |-> "notStopped", of |-> None]>>
               = Append(toDart, [kind |-> "notStopped", of |-> None])
      <4>1. /\ toDart \in Seq(Message) /\ pendingEvents \in Seq(Event)
            /\ [kind |-> "notStopped", of |-> None] \in Message
        BY <1>1 DEF RecorderTypeOK, Message, Reply
      <4>2. QED
        BY <4>1, Appended, ConcatEmptySeq
    <3>2. QED
      BY <1>6, <3>1 DEF NotCapturing, Told
  <2>2. [kind |-> "notStopped", of |-> None] \in Message
    BY DEF Message, Reply
  <2>3. RecorderTypeOK' /\ RecorderIsConsistent'
    BY <1>1, <1>6, <2>1, <2>2 DEF NotCapturing, RecorderTypeOK, RecorderIsConsistent, engineVars,
                                  audioVars, stampVars
  <2>4. QED
    BY <1>2, <1>9, <2>3 DEF ScreenTypeOK, Maybe
<1>7. CASE \E c \in Requests : Protect(c)
  <2>1. PICK c \in Requests, k \in {"protected", "notProtected"} :
          /\ Told(<< >>, <<[kind |-> k, of |-> c]>>)
          /\ UNCHANGED <<currentProfile, engineVars, audioVars, main, asked, stampVars>>
    BY <1>7 DEF Protect
  <2>2. [kind |-> k, of |-> c] \in Message
    BY DEF Message, Reply
  <2>3. toDart' \in Seq(Message) /\ pendingEvents' = pendingEvents /\ listening' = listening
    BY <1>1, <2>1, <2>2, AnsweredFacts
  <2>4. RecorderTypeOK' /\ RecorderIsConsistent'
    BY <1>1, <2>1, <2>3 DEF RecorderTypeOK, RecorderIsConsistent, engineVars, audioVars, stampVars
  <2>5. QED
    BY <1>2, <1>9, <2>4 DEF ScreenTypeOK, Maybe
<1>8. QED
  BY <1>1, <1>3, <1>4, <1>5, <1>6, <1>7, CallFacts DEF Handle

LEMMA TypedStep ==
  ASSUME ScreenTypeOK, RecorderIsConsistent, [BenchNext]_benchVars
  PROVE  ScreenTypeOK' /\ RecorderIsConsistent'
<1> USE RecorderAssumption
<1>1. RecorderTypeOK
  BY DEF ScreenTypeOK
<1>2. CASE Bootstrap
  <2>1. toDart' \in Seq(Message)
    BY <1>1, <1>2, ConcatProperties, SeqMonotonic
    DEF Bootstrap, Listen, RecorderTypeOK, Message
  <2>2. QED
    BY <1>1, <1>2, <2>1
    DEF Bootstrap, Listen, ScreenTypeOK, RecorderTypeOK, RecorderIsConsistent, engineVars,
        audioVars, stampVars, screenVars
<1>3. CASE \/ PressStop \/ (\E p \in Profiles : ChooseProfile(p))
           \/ (\E r \in Requests : PressRecord(r) \/ FilesWritten(r))
  <2>1. toNative' \in Seq(Call)
    <3>1. /\ [kind |-> "stopCapture", of |-> None] \in Call
          /\ \A p \in Profiles : [kind |-> "configureSession", of |-> p] \in Call
          /\ \A r \in Requests : [kind |-> "startCapture", of |-> r] \in Call
          /\ \A r \in Requests : [kind |-> "protect", of |-> r] \in Call
      BY DEF Call
    <3>2. toNative \in Seq(Call) /\ \A c \in Call : Append(toNative, c) \in Seq(Call)
      BY DEF ScreenTypeOK
    <3>3. QED
      BY <1>3, <3>1, <3>2 DEF PressStop, ChooseProfile, PressRecord, FilesWritten, MakeCall
  <2>2. QED
    BY <1>1, <1>3, <2>1
    DEF PressStop, ChooseProfile, PressRecord, FilesWritten, Maybe, ScreenTypeOK, RecorderTypeOK,
        RecorderIsConsistent, recorderVars, engineVars, audioVars, stampVars, eventVars
<1>4. CASE Receive
  <2>1. /\ toDart' \in Seq(Message) /\ recording' \in BOOLEAN /\ queued' \in Seq(Requests)
        /\ enqueuing' \subseteq Requests /\ hidden' \in Maybe
    <3>1. toDart # << >> /\ toDart' = Tail(toDart)
      BY <1>4 DEF Receive
    <3>2. recording' \in BOOLEAN
      BY <1>4 DEF Receive, ScreenTypeOK
    <3>3. Head(toDart).kind = "stopped" => Head(toDart).of \in Requests
      BY <1>1, <3>1, MessageFacts
    <3>4. queued' \in Seq(Requests)
      BY <1>4, <3>3 DEF Receive, ScreenTypeOK
    <3>5. enqueuing' \subseteq Requests
      BY <1>4, <3>3 DEF Receive, ScreenTypeOK
    <3>6. hidden' \in Maybe
      BY <1>1, <1>4 DEF Receive, ScreenTypeOK, RecorderTypeOK
    <3>7. QED
      BY <1>1, <3>1, <3>2, <3>4, <3>5, <3>6, MessageFacts
  <2>2. QED
    BY <1>1, <1>4, <2>1
    DEF Receive, ScreenTypeOK, RecorderTypeOK, RecorderIsConsistent, engineVars, audioVars,
        stampVars, Maybe
<1>5. CASE \E r \in Requests : Siri(r)
  BY <1>1, <1>5
  DEF Siri, Trigger, ScreenTypeOK, RecorderTypeOK, RecorderIsConsistent, engineVars, audioVars,
      eventVars, Maybe
<1>6. CASE \E r \in Requests : RecorderSteps(r) /\ UNCHANGED screenVars
  BY <1>1, <1>6, RecorderStepTyped DEF ScreenTypeOK, screenVars, Maybe
<1>7. CASE UNCHANGED benchVars \/ (\E c \in Requests : FilesFail(c))
  BY <1>1, <1>7
  DEF FilesFail, Maybe, benchVars, ScreenTypeOK, RecorderTypeOK, RecorderIsConsistent, recorderVars, engineVars,
      audioVars, stampVars, eventVars, screenVars
<1>8. QED
  BY <1>2, <1>3, <1>4, <1>5, <1>6, <1>7, HandleTyped DEF BenchNext

-----------------------------------------------------------------------------
(* Every request is in one place.                                          *)

IsStart(b) == b.kind \in {"granted", "denied"}
IsStartCall(call) == call.kind = "startCapture"

\* On its way to the recorder, waiting for the permission, in the main queue,
\* active or stopped: never in two of these, and never twice.
CallsOnce ==
  \A i, j \in DOMAIN toNative :
    IsStartCall(toNative[i]) /\ IsStartCall(toNative[j]) /\ toNative[i].of = toNative[j].of
      => i = j
CallsApart ==
  \A i \in DOMAIN toNative :
    IsStartCall(toNative[i]) =>
      /\ toNative[i].of \in made \ (asked \cup stopped) /\ toNative[i].of # active
      /\ \A k \in DOMAIN main : IsStart(main[k]) => main[k].of # toNative[i].of
BlocksOnce ==
  \A k, l \in DOMAIN main :
    IsStart(main[k]) /\ IsStart(main[l]) /\ main[k].of = main[l].of => k = l
BlocksApart ==
  \A k \in DOMAIN main :
    IsStart(main[k]) => main[k].of \in made \ (asked \cup stopped) /\ main[k].of # active
RestApart ==
  /\ asked \subseteq made \ stopped /\ active \notin asked
  /\ active # None => active \in made \ stopped
  /\ stopped \subseteq made

RequestsOnce == CallsOnce /\ CallsApart /\ BlocksOnce /\ BlocksApart /\ RestApart

placeVars == <<made, toNative, asked, main, active, stopped>>

\* What the blocks of the main queue are after its head is taken.
LEMMA NextTaken ==
  ASSUME RecorderTypeOK, NEW r \in Requests, NEW k, IsNext(r, k)
  PROVE  /\ main[1] = [kind |-> k, of |-> r]
         /\ Len(main) \in Nat \ {0} /\ DOMAIN main = 1 .. Len(main)
         /\ DOMAIN main' = 1 .. Len(main) - 1
         /\ \A i \in 1 .. Len(main) - 1 : main'[i] = main[i + 1]
  BY Tailed DEF IsNext, RecorderTypeOK

\* And after one is appended.
LEMMA BlockAppended ==
  ASSUME RecorderTypeOK, NEW b \in Block, main' = Append(main, b)
  PROVE  /\ Len(main) \in Nat /\ DOMAIN main = 1 .. Len(main)
         /\ DOMAIN main' = 1 .. Len(main) + 1
         /\ \A i \in 1 .. Len(main) : main'[i] = main[i]
         /\ main'[Len(main) + 1] = b
  BY Appended DEF RecorderTypeOK

LEMMA CallTaken ==
  ASSUME ScreenTypeOK, Handle
  PROVE  /\ Head(toNative) = toNative[1]
         /\ Len(toNative) \in Nat \ {0} /\ DOMAIN toNative = 1 .. Len(toNative)
         /\ DOMAIN toNative' = 1 .. Len(toNative) - 1
         /\ \A i \in 1 .. Len(toNative) - 1 : toNative'[i] = toNative[i + 1]
  BY Tailed DEF Handle, ScreenTypeOK

LEMMA CallMade ==
  ASSUME ScreenTypeOK, NEW call \in Call, MakeCall(call)
  PROVE  /\ Len(toNative) \in Nat /\ DOMAIN toNative = 1 .. Len(toNative)
         /\ DOMAIN toNative' = 1 .. Len(toNative) + 1
         /\ \A i \in 1 .. Len(toNative) : toNative'[i] = toNative[i]
         /\ toNative'[Len(toNative) + 1] = call
  BY Appended DEF MakeCall, ScreenTypeOK

\* A start call has just been handled, or is gone with another call.
LEMMA HandleKeepsOnce ==
  ASSUME ScreenTypeOK, RequestsOnce, Handle
  PROVE  RequestsOnce'
<1> USE RecorderAssumption DEF RequestsOnce
<1>1. RecorderTypeOK /\ made' = made
  BY DEF Handle, ScreenTypeOK
<1>2. /\ Head(toNative) = toNative[1]
      /\ Len(toNative) \in Nat \ {0} /\ DOMAIN toNative = 1 .. Len(toNative)
      /\ DOMAIN toNative' = 1 .. Len(toNative) - 1
      /\ \A i \in 1 .. Len(toNative) - 1 : toNative'[i] = toNative[i + 1]
  BY CallTaken
<1>3. CallsOnce'
  <2> SUFFICES ASSUME NEW i \in DOMAIN toNative', NEW j \in DOMAIN toNative',
                      IsStartCall(toNative'[i]), IsStartCall(toNative'[j]),
                      toNative'[i].of = toNative'[j].of
               PROVE  i = j
    BY DEF CallsOnce
  <2>1. /\ i \in Int /\ j \in Int /\ i + 1 \in DOMAIN toNative /\ j + 1 \in DOMAIN toNative
        /\ toNative'[i] = toNative[i + 1] /\ toNative'[j] = toNative[j + 1]
    BY <1>2
  <2>2. i + 1 = j + 1
    BY <2>1 DEF CallsOnce
  <2>3. QED
    BY <2>1, <2>2
<1>4. CASE IsStartCall(toNative[1]) /\ AskToStart(toNative[1].of)
  <2>1. asked' = asked \cup {toNative[1].of} /\ UNCHANGED <<main, active, stopped>>
    BY <1>4 DEF AskToStart, engineVars, stampVars
  <2>2. CallsApart'
    BY <1>1, <1>2, <1>4, <2>1 DEF CallsApart, CallsOnce
  <2>3. BlocksOnce'
    BY <2>1 DEF BlocksOnce
  <2>4. BlocksApart'
    BY <1>1, <1>2, <1>4, <2>1 DEF BlocksApart, CallsApart
  <2>5. RestApart'
    BY <1>1, <1>2, <1>4, <2>1 DEF RestApart, CallsApart
  <2>6. QED
    BY <1>3, <2>2, <2>3, <2>4, <2>5
<1>5. CASE UNCHANGED <<asked, main, active, stopped>>
  <2>1. CallsApart'
    BY <1>1, <1>2, <1>5 DEF CallsApart
  <2>2. BlocksOnce' /\ BlocksApart' /\ RestApart'
    BY <1>1, <1>5 DEF BlocksOnce, BlocksApart, RestApart
  <2>3. QED
    BY <1>3, <2>1, <2>2
<1>6. CASE Stop
  <2>1. /\ active # None /\ active' = None /\ stopped' = stopped \cup {active}
        /\ UNCHANGED <<main, asked>>
    BY <1>6 DEF Stop
  <2>2. \A i \in DOMAIN toNative : IsStartCall(toNative[i]) => toNative[i].of # None
    <3>1. \A i \in DOMAIN toNative : toNative[i] \in Call
      BY DEF ScreenTypeOK
    <3>2. QED
      BY <3>1 DEF Call, IsStartCall
  <2>3. \A k \in DOMAIN main : main[k].of # None
    <3>1. \A k \in DOMAIN main : main[k] \in Block
      BY <1>1 DEF RecorderTypeOK
    <3>2. QED
      BY <3>1 DEF Block
  <2>4. None \notin asked
    BY <1>1 DEF RecorderTypeOK
  <2>5. CallsApart'
    BY <1>1, <1>2, <2>1, <2>2 DEF CallsApart
  <2>6. BlocksOnce' /\ BlocksApart'
    BY <1>1, <2>1, <2>3 DEF BlocksOnce, BlocksApart
  <2>7. RestApart'
    BY <1>1, <2>1, <2>4 DEF RestApart
  <2>8. QED
    BY <1>3, <2>5, <2>6, <2>7
<1>7. NotCapturing \/ (\E p : Configure(p)) \/ (\E c : Protect(c))
        => UNCHANGED <<asked, main, active, stopped>>
  BY DEF NotCapturing, Configure, Protect, engineVars, stampVars
<1>8. QED
  BY <1>2, <1>4, <1>5, <1>6, <1>7 DEF Handle, IsStartCall

LEMMA RecorderKeepsOnce ==
  ASSUME ScreenTypeOK, RequestsOnce, NEW r \in Requests, RecorderSteps(r), UNCHANGED screenVars
  PROVE  RequestsOnce'
<1> USE RecorderAssumption DEF RequestsOnce
<1>1. RecorderTypeOK /\ UNCHANGED <<made, toNative>>
  BY DEF ScreenTypeOK, screenVars
<1>2. CallsOnce'
  BY <1>1 DEF CallsOnce
<1>3. ASSUME NEW k, IsNext(r, k)
      PROVE  /\ main[1] = [kind |-> k, of |-> r]
             /\ Len(main) \in Nat \ {0} /\ DOMAIN main = 1 .. Len(main)
             /\ DOMAIN main' = 1 .. Len(main) - 1
             /\ \A i \in 1 .. Len(main) - 1 : main'[i] = main[i + 1]
  BY <1>1, <1>3, NextTaken
<1>4. CASE Start(r)
  <2>1. active' = r /\ IsNext(r, "granted") /\ UNCHANGED <<asked, stopped>>
    BY <1>4 DEF Start
  <2>2. /\ IsStart(main[1]) /\ main[1].of = r /\ 1 \in DOMAIN main
        /\ Len(main) \in Nat \ {0} /\ DOMAIN main = 1 .. Len(main)
        /\ DOMAIN main' = 1 .. Len(main) - 1
        /\ \A i \in 1 .. Len(main) - 1 : main'[i] = main[i + 1]
    <3>1. /\ main[1] = [kind |-> "granted", of |-> r]
          /\ Len(main) \in Nat \ {0} /\ DOMAIN main = 1 .. Len(main)
          /\ DOMAIN main' = 1 .. Len(main) - 1
          /\ \A i \in 1 .. Len(main) - 1 : main'[i] = main[i + 1]
      BY <1>3, <2>1
    <3>2. QED
      BY <3>1 DEF IsStart
  <2>3. CallsApart'
    BY <1>1, <2>1, <2>2 DEF CallsApart
  <2>4. BlocksOnce'
    <3> SUFFICES ASSUME NEW k \in DOMAIN main', NEW l \in DOMAIN main',
                        IsStart(main'[k]), IsStart(main'[l]), main'[k].of = main'[l].of
                 PROVE  k = l
      BY DEF BlocksOnce
    <3>1. /\ k \in Int /\ l \in Int /\ k + 1 \in DOMAIN main /\ l + 1 \in DOMAIN main
          /\ main'[k] = main[k + 1] /\ main'[l] = main[l + 1]
      BY <2>2
    <3>2. k + 1 = l + 1
      BY <3>1 DEF BlocksOnce
    <3>3. QED
      BY <3>1, <3>2
  <2>5. BlocksApart'
    BY <1>1, <2>1, <2>2 DEF BlocksApart, BlocksOnce
  <2>6. RestApart'
    BY <1>1, <2>1, <2>2 DEF RestApart, BlocksApart
  <2>7. QED
    BY <1>2, <2>3, <2>4, <2>5, <2>6
<1>5. CASE StartFails(r) \/ Denied(r) \/ StampFirstBuffer(r)
  <2>1. UNCHANGED <<active, asked, stopped>>
    BY <1>5 DEF StartFails, Denied, StampFirstBuffer, engineVars, stampVars
  <2>2. PICK kind \in {"granted", "denied", "firstBuffer"} : IsNext(r, kind)
    BY <1>5 DEF StartFails, Denied, StampFirstBuffer
  <2>3. /\ Len(main) \in Nat \ {0} /\ DOMAIN main = 1 .. Len(main)
        /\ DOMAIN main' = 1 .. Len(main) - 1
        /\ \A i \in 1 .. Len(main) - 1 : main'[i] = main[i + 1]
    BY <1>3, <2>2
  <2>4. CallsApart'
    BY <1>1, <2>1, <2>3 DEF CallsApart
  <2>5. BlocksOnce'
    <3> SUFFICES ASSUME NEW k \in DOMAIN main', NEW l \in DOMAIN main',
                        IsStart(main'[k]), IsStart(main'[l]), main'[k].of = main'[l].of
                 PROVE  k = l
      BY DEF BlocksOnce
    <3>1. /\ k \in Int /\ l \in Int /\ k + 1 \in DOMAIN main /\ l + 1 \in DOMAIN main
          /\ main'[k] = main[k + 1] /\ main'[l] = main[l + 1]
      BY <2>3
    <3>2. k + 1 = l + 1
      BY <3>1 DEF BlocksOnce
    <3>3. QED
      BY <3>1, <3>2
  <2>6. BlocksApart'
    BY <1>1, <2>1, <2>3 DEF BlocksApart
  <2>7. RestApart'
    BY <1>1, <2>1 DEF RestApart
  <2>8. QED
    BY <1>2, <2>4, <2>5, <2>6, <2>7
<1>6. CASE PermissionAnswered(r)
  <2>1. PICK k \in {"granted", "denied"} : main' = Append(main, [kind |-> k, of |-> r])
    BY <1>6 DEF PermissionAnswered
  <2>2. UNCHANGED <<active, stopped>> /\ asked' = asked \ {r} /\ r \in asked
    BY <1>6 DEF PermissionAnswered, engineVars, stampVars
  <2>3. [kind |-> k, of |-> r] \in Block
    BY DEF Block
  <2>4. QED
    BY <1>1, <1>2, <2>1, <2>2, <2>3, BlockAppended
    DEF CallsApart, BlocksOnce, BlocksApart, RestApart, IsStart
<1>7. CASE CallbackBegins(r) \/ CallbackReads(r) \/ CallbackWrites(r)
  BY <1>1, <1>2, <1>7
  DEF CallbackBegins, CallbackReads, CallbackWrites, engineVars, stampVars, CallsApart,
      BlocksOnce, BlocksApart, RestApart
<1>8. CASE CallbackStamps(r)
  <2>1. /\ main' = Append(main, [kind |-> "firstBuffer", of |-> r])
        /\ UNCHANGED <<active, asked, stopped>>
    BY <1>8 DEF CallbackStamps, engineVars, stampVars
  <2>2. [kind |-> "firstBuffer", of |-> r] \in Block
    BY DEF Block
  <2>3. QED
    BY <1>1, <1>2, <2>1, <2>2, BlockAppended
    DEF CallsApart, BlocksOnce, BlocksApart, RestApart, IsStart
<1>9. QED
  BY <1>4, <1>5, <1>6, <1>7, <1>8 DEF RecorderSteps

LEMMA OnceStep ==
  ASSUME ScreenTypeOK, RequestsOnce, [BenchNext]_benchVars
  PROVE  RequestsOnce'
<1> USE RecorderAssumption
    DEF RequestsOnce, CallsOnce, CallsApart, BlocksOnce, BlocksApart, RestApart
<1>1. CASE Bootstrap \/ Receive \/ (\E c \in Requests : FilesFail(c)) \/ UNCHANGED benchVars
  <2>1. UNCHANGED placeVars
    BY <1>1 DEF Bootstrap, Listen, Receive, FilesFail, benchVars, recorderVars, engineVars, stampVars,
                screenVars, placeVars
  <2>2. QED
    BY <2>1 DEF placeVars
<1>2. CASE \/ PressStop \/ (\E p \in Profiles : ChooseProfile(p))
           \/ (\E c \in Requests : FilesWritten(c))
  <2>1. /\ [kind |-> "stopCapture", of |-> None] \in Call
        /\ \A p \in Profiles : [kind |-> "configureSession", of |-> p] \in Call
        /\ \A c \in Requests : [kind |-> "protect", of |-> c] \in Call
    BY DEF Call
  <2>2. PICK call \in Call : MakeCall(call) /\ ~ IsStartCall(call)
    BY <1>2, <2>1 DEF PressStop, ChooseProfile, FilesWritten, IsStartCall
  <2>3. UNCHANGED <<made, asked, main, active, stopped>>
    BY <1>2 DEF PressStop, ChooseProfile, FilesWritten, recorderVars, engineVars, stampVars
  <2>4. QED
    BY <2>2, <2>3, CallMade
<1>3. CASE \E r \in Requests : PressRecord(r)
  <2>1. PICK r \in Requests : PressRecord(r)
    BY <1>3
  <2>2. /\ MakeCall([kind |-> "startCapture", of |-> r]) /\ r \notin made /\ made' = made \cup {r}
        /\ UNCHANGED <<asked, main, active, stopped>>
    BY <2>1 DEF PressRecord, recorderVars, engineVars, stampVars
  <2>3. [kind |-> "startCapture", of |-> r] \in Call
    BY DEF Call
  <2>4. QED
    BY <2>2, <2>3, CallMade DEF IsStartCall
<1>4. CASE \E r \in Requests : Siri(r)
  <2>1. PICK r \in Requests : Siri(r)
    BY <1>4
  <2>2. /\ asked' \subseteq asked \cup {r} /\ r \notin made /\ made' = made \cup {r}
        /\ active # None => asked' = asked
        /\ UNCHANGED <<toNative, main, active, stopped>>
    BY <2>1 DEF Siri, Trigger, engineVars
  <2>3. QED
    BY <2>2
<1>5. QED
  BY <1>1, <1>2, <1>3, <1>4, HandleKeepsOnce, RecorderKeepsOnce DEF BenchNext

-----------------------------------------------------------------------------
(* Files and stamps.                                                       *)

IsFirst(b) == b.kind = "firstBuffer"

\* Callbacks, their blocks and the histories are of captures that were started.
OfStarted ==
  /\ \A c \in Requests : callback[c] # "none" => c \in stopped \cup {active}
  /\ \A i \in DOMAIN main : IsFirst(main[i]) => main[i].of \in stopped \cup {active}
  /\ heard \cup alone \subseteq stopped \cup {active}

\* While a capture records that began alone, only its own callback can post, so
\* behind its block there are none but its own.
OwnBlocks ==
  active \in alone =>
    /\ LateCallbacks \subseteq {active}
    /\ \A i, j \in DOMAIN main :
         i < j /\ IsFirst(main[i]) /\ main[i].of = active /\ IsFirst(main[j]) => main[j].of = active
OwnStamp ==
  active \in alone \cap heard =>
    firstBuffer = active /\ \A i \in DOMAIN main : IsFirst(main[i]) => main[i].of = active
StampedOwn ==
  \A c \in stopped \cap heard \cap alone : metadata[c].firstBuffer = c

StampsInv == StoppedFileIsFinal /\ OfStarted /\ OwnBlocks /\ OwnStamp /\ StampedOwn

soundVars == <<active, stopped, callback, alone, heard, main, firstBuffer, metadata, touched>>

LEMMA SilentKeepsStamps ==
  ASSUME StampsInv, UNCHANGED soundVars
  PROVE  StampsInv'
  BY DEF soundVars, StampsInv, StoppedFileIsFinal, OfStarted, OwnBlocks, LateCallbacks, OwnStamp,
         StampedOwn

LEMMA StopKeepsStamps ==
  ASSUME RecorderTypeOK, RequestsOnce, StampsInv, Stop
  PROVE  StampsInv'
<1> USE RecorderAssumption DEF StampsInv
<1>1. /\ active \in Requests /\ active \notin stopped
      /\ active' = None /\ stopped' = stopped \cup {active}
      /\ metadata' = [metadata EXCEPT ![active] = [firstBuffer |-> firstBuffer, intent |-> intent]]
      /\ UNCHANGED <<callback, alone, heard, main, touched>>
  BY DEF Stop, RecorderTypeOK, Maybe, RequestsOnce, RestApart, audioVars
<1>2. /\ alone \subseteq Requests /\ stopped \subseteq Requests
      /\ metadata \in [Requests -> [firstBuffer : Maybe, intent : Maybe]]
  BY DEF RecorderTypeOK
<1>3. StoppedFileIsFinal' /\ OfStarted'
  BY <1>1 DEF StoppedFileIsFinal, OfStarted
<1>4. active' \notin alone'
  BY <1>1, <1>2
<1>5. StampedOwn'
  BY <1>1, <1>2 DEF StampedOwn, OwnStamp
<1>6. QED
  BY <1>3, <1>4, <1>5 DEF OwnBlocks, OwnStamp

LEMMA StartKeepsStamps ==
  ASSUME RecorderTypeOK, RequestsOnce, StampsInv, NEW r \in Requests, Start(r)
  PROVE  StampsInv'
<1> USE RecorderAssumption DEF StampsInv
<1>1. /\ active = None /\ active' = r /\ alone' = IF LateCallbacks = {} THEN alone \cup {r} ELSE alone
      /\ UNCHANGED <<callback, touched, firstBuffer, metadata, heard, stopped>>
      /\ IsNext(r, "granted")
  BY DEF Start
<1>2. /\ main[1] = [kind |-> "granted", of |-> r] /\ 1 \in DOMAIN main
      /\ DOMAIN main = 1 .. Len(main) /\ Len(main) \in Nat
      /\ DOMAIN main' = 1 .. Len(main) - 1
      /\ \A i \in 1 .. Len(main) - 1 : main'[i] = main[i + 1]
  BY <1>1, NextTaken
<1>3. r \notin stopped
  BY <1>2 DEF RequestsOnce, BlocksApart, IsStart
<1>4. /\ heard \subseteq Requests /\ alone \subseteq Requests /\ stopped \subseteq Requests
      /\ \A i \in DOMAIN main : main[i].of \in Requests
  <2>1. \A i \in DOMAIN main : main[i] \in Block
    BY DEF RecorderTypeOK
  <2>2. QED
    BY <2>1 DEF RecorderTypeOK, Block
<1>5. /\ heard \cup alone \subseteq stopped
      /\ \A c \in Requests : callback[c] # "none" => c \in stopped
      /\ \A i \in DOMAIN main : IsFirst(main[i]) => main[i].of \in stopped
  BY <1>1, <1>4 DEF OfStarted
<1>6. \A i \in DOMAIN main' : IsFirst(main'[i]) => main'[i].of \in stopped
  BY <1>2, <1>5
<1>7. StoppedFileIsFinal' /\ OfStarted' /\ StampedOwn'
  BY <1>1, <1>3, <1>5, <1>6 DEF StoppedFileIsFinal, OfStarted, StampedOwn
<1>8. active' \notin heard'
  BY <1>1, <1>3, <1>5
<1>9. active' \in alone' => LateCallbacks' = {}
  BY <1>1, <1>3, <1>5 DEF LateCallbacks
<1>10. QED
  BY <1>1, <1>3, <1>6, <1>7, <1>8, <1>9 DEF OwnBlocks, OwnStamp

LEMMA CallbackKeepsStamps ==
  ASSUME RecorderTypeOK, RecorderIsConsistent, RequestsOnce, StampsInv, NEW r \in Requests,
         CallbackBegins(r) \/ CallbackReads(r) \/ CallbackStamps(r) \/ CallbackWrites(r)
  PROVE  StampsInv'
<1> USE RecorderAssumption DEF StampsInv
<1>1. /\ UNCHANGED <<active, stopped, alone, heard, firstBuffer, metadata>>
      /\ callback \in [Requests -> {"none", "begun", "first", "checked"}]
      /\ stopped \subseteq Requests /\ alone \subseteq Requests
  BY DEF CallbackBegins, CallbackReads, CallbackStamps, CallbackWrites, engineVars, stampVars,
         RecorderTypeOK
<1>2. StampedOwn'
  BY <1>1 DEF StampedOwn
<1>3. audioFile \notin stopped
  BY <1>1 DEF RecorderIsConsistent, RequestsOnce, RestApart
<1>4. StoppedFileIsFinal'
  BY <1>3 DEF StoppedFileIsFinal, CallbackBegins, CallbackReads, CallbackStamps, CallbackWrites
<1>5. r \in stopped \cup {active}
  BY <1>1 DEF CallbackBegins, CallbackReads, CallbackStamps, CallbackWrites, OfStarted,
              RecorderIsConsistent
<1>6. \A c \in Requests \ {r} : callback'[c] = callback[c]
  BY <1>1 DEF CallbackBegins, CallbackReads, CallbackStamps, CallbackWrites
<1>7. active \in alone /\ r # active => callback'[r] \notin {"begun", "first"}
  BY <1>1 DEF CallbackBegins, CallbackReads, CallbackStamps, CallbackWrites, OwnBlocks,
              LateCallbacks, RecorderIsConsistent
<1>8. active \in alone => LateCallbacks' \subseteq {active}
  BY <1>1, <1>6, <1>7 DEF OwnBlocks, LateCallbacks
<1>9. CASE UNCHANGED main
  BY <1>1, <1>2, <1>4, <1>5, <1>6, <1>8, <1>9 DEF OfStarted, OwnBlocks, OwnStamp
<1>10. CASE CallbackStamps(r)
  <2>1. /\ main' = Append(main, [kind |-> "firstBuffer", of |-> r])
        /\ [kind |-> "firstBuffer", of |-> r] \in Block
    BY <1>10 DEF CallbackStamps, Block
  <2>2. /\ Len(main) \in Nat /\ DOMAIN main = 1 .. Len(main)
        /\ DOMAIN main' = 1 .. Len(main) + 1
        /\ \A i \in 1 .. Len(main) : main'[i] = main[i]
        /\ main'[Len(main) + 1] = [kind |-> "firstBuffer", of |-> r]
    BY <2>1, BlockAppended
  <2>3. active \in alone => r = active
    BY <1>1, <1>10 DEF CallbackStamps, OwnBlocks, LateCallbacks
  <2>4. OfStarted'
    BY <1>1, <1>5, <1>6, <2>2 DEF OfStarted
  <2>5. OwnStamp'
    BY <1>1, <2>2, <2>3 DEF OwnStamp
  <2>6. OwnBlocks'
    <3> SUFFICES ASSUME active \in alone, NEW i \in DOMAIN main', NEW j \in DOMAIN main',
                        i < j, IsFirst(main'[i]), main'[i].of = active, IsFirst(main'[j])
                 PROVE  main'[j].of = active
      BY <1>1, <1>8 DEF OwnBlocks
    <3>1. i \in 1 .. Len(main) /\ (j \in 1 .. Len(main) \/ j = Len(main) + 1)
      BY <2>2
    <3>2. QED
      BY <2>2, <2>3, <3>1 DEF OwnBlocks
  <2>7. QED
    BY <1>2, <1>4, <2>4, <2>5, <2>6
<1>11. QED
  BY <1>9, <1>10 DEF CallbackBegins, CallbackReads, CallbackWrites

\* Taking a block that is no start's.
LEMMA BlockTakenKeepsStamps ==
  ASSUME RecorderTypeOK, RequestsOnce, StampsInv, NEW r \in Requests,
         StartFails(r) \/ Denied(r) \/ StampFirstBuffer(r)
  PROVE  StampsInv'
<1> USE RecorderAssumption DEF StampsInv
<1>1. PICK k \in {"granted", "denied", "firstBuffer"} :
        IsNext(r, k) /\ (k = "firstBuffer" <=> StampFirstBuffer(r))
  <2>1. StartFails(r) => IsNext(r, "granted")
    BY DEF StartFails
  <2>2. Denied(r) => IsNext(r, "denied")
    BY DEF Denied
  <2>3. StampFirstBuffer(r) => IsNext(r, "firstBuffer")
    BY DEF StampFirstBuffer
  <2>4. \A k, l : IsNext(r, k) /\ IsNext(r, l) => k = l
    BY DEF IsNext
  <2>5. QED
    BY <2>1, <2>2, <2>3, <2>4
<1>2. /\ main[1] = [kind |-> k, of |-> r] /\ 1 \in DOMAIN main
      /\ DOMAIN main = 1 .. Len(main) /\ Len(main) \in Nat
      /\ DOMAIN main' = 1 .. Len(main) - 1
      /\ \A i \in 1 .. Len(main) - 1 : main'[i] = main[i + 1]
  BY <1>1, NextTaken
<1>3. UNCHANGED <<active, stopped, callback, alone, touched, metadata>>
  BY DEF StartFails, Denied, StampFirstBuffer, engineVars, audioVars, stampVars
<1>4. active \notin stopped
  BY DEF RequestsOnce, RestApart, RecorderTypeOK
<1>5. /\ StampFirstBuffer(r) => /\ firstBuffer' = r
                                /\ heard' = IF active = r THEN heard \cup {r} ELSE heard
      /\ ~ StampFirstBuffer(r) => UNCHANGED <<firstBuffer, heard>>
  BY DEF StartFails, Denied, StampFirstBuffer, stampVars
<1>6. StoppedFileIsFinal' /\ OfStarted'
  BY <1>2, <1>3, <1>5 DEF StoppedFileIsFinal, OfStarted
<1>7. StampedOwn'
  BY <1>3, <1>4, <1>5 DEF StampedOwn
<1>8. OwnBlocks'
  <2> SUFFICES ASSUME active \in alone, NEW i \in DOMAIN main', NEW j \in DOMAIN main',
                      i < j, IsFirst(main'[i]), main'[i].of = active, IsFirst(main'[j])
               PROVE  main'[j].of = active
    BY <1>3 DEF OwnBlocks, LateCallbacks
  <2>1. /\ i + 1 \in DOMAIN main /\ j + 1 \in DOMAIN main /\ i + 1 < j + 1
        /\ main'[i] = main[i + 1] /\ main'[j] = main[j + 1]
    BY <1>2
  <2>2. QED
    BY <2>1 DEF OwnBlocks
<1>9. OwnStamp'
  <2> SUFFICES ASSUME active \in alone, active \in heard'
               PROVE  /\ firstBuffer' = active
                      /\ \A i \in DOMAIN main' : IsFirst(main'[i]) => main'[i].of = active
    BY <1>3 DEF OwnStamp
  <2>1. CASE StampFirstBuffer(r) /\ r = active
    <3>1. IsFirst(main[1]) /\ main[1].of = active
      BY <1>1, <1>2, <2>1 DEF IsFirst
    <3>2. ASSUME NEW i \in DOMAIN main', IsFirst(main'[i])
          PROVE  main'[i].of = active
      <4>1. i + 1 \in DOMAIN main /\ 1 < i + 1 /\ main'[i] = main[i + 1]
        BY <1>2
      <4>2. QED
        BY <1>2, <3>1, <3>2, <4>1 DEF OwnBlocks
    <3>3. QED
      BY <1>5, <2>1, <3>2
  <2>2. CASE ~ (StampFirstBuffer(r) /\ r = active)
    <3>1. active \in heard
      BY <1>5, <2>2
    <3>2. firstBuffer = active /\ \A i \in DOMAIN main : IsFirst(main[i]) => main[i].of = active
      BY <3>1 DEF OwnStamp
    <3>3. ~ StampFirstBuffer(r)
      BY <1>1, <1>2, <2>2, <3>2 DEF IsFirst
    <3>4. QED
      BY <1>2, <1>5, <3>2, <3>3
  <2>3. QED
    BY <2>1, <2>2
<1>10. QED
  BY <1>6, <1>7, <1>8, <1>9

LEMMA PermissionKeepsStamps ==
  ASSUME RecorderTypeOK, StampsInv, NEW r \in Requests, PermissionAnswered(r)
  PROVE  StampsInv'
<1>1. PICK k \in {"granted", "denied"} : main' = Append(main, [kind |-> k, of |-> r])
  BY DEF PermissionAnswered
<1>2. [kind |-> k, of |-> r] \in Block /\ ~ IsFirst([kind |-> k, of |-> r])
  BY DEF Block, IsFirst
<1>3. /\ Len(main) \in Nat /\ DOMAIN main = 1 .. Len(main)
      /\ DOMAIN main' = 1 .. Len(main) + 1
      /\ \A i \in 1 .. Len(main) : main'[i] = main[i]
      /\ ~ IsFirst(main'[Len(main) + 1])
  BY <1>1, <1>2, BlockAppended
<1>4. UNCHANGED <<active, stopped, callback, alone, heard, firstBuffer, metadata, touched>>
  BY DEF PermissionAnswered, engineVars, audioVars, stampVars
<1>5. \A i \in DOMAIN main' : IsFirst(main'[i]) => i \in DOMAIN main /\ main'[i] = main[i]
  BY <1>3
<1>6. QED
  BY <1>4, <1>5 DEF StampsInv, StoppedFileIsFinal, OfStarted, OwnBlocks, LateCallbacks, OwnStamp,
                    StampedOwn

LEMMA StampsStep ==
  ASSUME ScreenTypeOK, RecorderIsConsistent, RequestsOnce, StampsInv, [BenchNext]_benchVars
  PROVE  StampsInv'
<1>1. RecorderTypeOK
  BY DEF ScreenTypeOK
<1>2. CASE \E r \in Requests : RecorderSteps(r)
  BY <1>1, <1>2, StartKeepsStamps, CallbackKeepsStamps, BlockTakenKeepsStamps,
     PermissionKeepsStamps DEF RecorderSteps
<1>3. CASE Handle
  <2>1. \/ (\E r \in Requests : AskToStart(r)) \/ (\E p : Configure(p)) \/ Stop \/ NotCapturing
        \/ (\E c : Protect(c))
    BY <1>3, CallFacts DEF Handle
  <2>2. ASSUME \/ (\E r \in Requests : AskToStart(r)) \/ (\E p : Configure(p)) \/ NotCapturing
               \/ (\E c : Protect(c))
        PROVE  UNCHANGED soundVars
    BY <2>2 DEF AskToStart, Configure, NotCapturing, Protect, engineVars, audioVars, stampVars, soundVars
  <2>3. QED
    BY <1>1, <2>1, <2>2, SilentKeepsStamps, StopKeepsStamps
<1>4. CASE \/ Bootstrap \/ Receive \/ PressStop \/ (\E p \in Profiles : ChooseProfile(p))
           \/ (\E r \in Requests : PressRecord(r) \/ Siri(r) \/ FilesWritten(r) \/ FilesFail(r))
           \/ UNCHANGED benchVars
  <2>1. UNCHANGED soundVars
    BY <1>4
    DEF Bootstrap, Listen, Receive, PressStop, ChooseProfile, PressRecord, FilesWritten,
        FilesFail, Siri, Trigger,
        benchVars, recorderVars, engineVars, audioVars, stampVars, soundVars
  <2>2. QED
    BY <2>1, SilentKeepsStamps
<1>5. QED
  BY <1>2, <1>3, <1>4 DEF BenchNext

-----------------------------------------------------------------------------
(* Intents.                                                                *)

\* The time of an intent is pending, in the timestamps or in one result.
IntentOnce ==
  /\ {pendingIntent, intent} \subseteq made \cup {None}
  /\ \A c \in stopped : metadata[c].intent \in made \cup {None}
  /\ pendingIntent # None => /\ pendingIntent # intent
                             /\ \A c \in stopped : metadata[c].intent # pendingIntent
  /\ intent # None => \A c \in stopped : metadata[c].intent # intent
  /\ \A c, d \in stopped :
       c # d /\ metadata[c].intent # None => metadata[c].intent # metadata[d].intent

LEMMA IntentStep ==
  ASSUME ScreenTypeOK, RequestsOnce, IntentOnce, [BenchNext]_benchVars
  PROVE  IntentOnce'
<1> USE RecorderAssumption
<1>1. RecorderTypeOK
  BY DEF ScreenTypeOK
<1>2. CASE /\ UNCHANGED <<pendingIntent, intent, metadata, stopped>> /\ made \subseteq made'
  BY <1>2 DEF IntentOnce
<1>3. CASE \E r \in Requests : Siri(r)
  <2>1. PICK r \in Requests : Siri(r)
    BY <1>3
  <2>2. /\ pendingIntent' = r /\ r \notin made /\ r # None /\ made' = made \cup {r}
        /\ UNCHANGED <<intent, metadata, stopped>>
    BY <2>1 DEF Siri, Trigger
  <2>3. QED
    BY <2>2 DEF IntentOnce
<1>4. CASE \E r \in Requests : Start(r) /\ UNCHANGED screenVars
  <2>1. /\ intent' = pendingIntent /\ pendingIntent' = None
        /\ UNCHANGED <<metadata, stopped, made>>
    BY <1>4 DEF Start, screenVars
  <2>2. QED
    BY <2>1 DEF IntentOnce
<1>5. CASE Stop /\ UNCHANGED made
  <2>1. /\ active \in Requests \ stopped /\ stopped' = stopped \cup {active}
        /\ metadata' = [metadata EXCEPT ![active] = [firstBuffer |-> firstBuffer, intent |-> intent]]
        /\ intent' = None /\ UNCHANGED <<pendingIntent, made>>
    BY <1>1, <1>5 DEF Stop, RecorderTypeOK, Maybe, RequestsOnce, RestApart
  <2>2. /\ metadata'[active].intent = intent
        /\ \A c \in stopped : metadata'[c] = metadata[c]
    BY <1>1, <2>1 DEF RecorderTypeOK
  <2>3. QED
    BY <2>1, <2>2 DEF IntentOnce
<1>6. CASE Handle
  <2>1. \/ (\E r \in Requests : AskToStart(r)) \/ (\E p : Configure(p)) \/ Stop \/ NotCapturing
        \/ (\E c : Protect(c))
    BY <1>6, CallFacts DEF Handle
  <2>2. ASSUME \/ (\E r \in Requests : AskToStart(r)) \/ (\E p : Configure(p)) \/ NotCapturing
               \/ (\E c : Protect(c))
        PROVE  UNCHANGED <<pendingIntent, intent, metadata, stopped>>
    BY <2>2 DEF AskToStart, Configure, NotCapturing, Protect, stampVars
  <2>3. made' = made
    BY <1>6 DEF Handle
  <2>4. QED
    BY <1>2, <1>5, <2>1, <2>2, <2>3
<1>7. CASE \E r \in Requests : RecorderSteps(r) /\ UNCHANGED screenVars
  <2>1. PICK r \in Requests : RecorderSteps(r) /\ UNCHANGED screenVars
    BY <1>7
  <2>2. ~ Start(r) => UNCHANGED <<pendingIntent, intent, metadata, stopped, made>>
    BY <2>1
    DEF RecorderSteps, StartFails, Denied, PermissionAnswered, CallbackBegins, CallbackReads,
        CallbackStamps, CallbackWrites, StampFirstBuffer, stampVars, screenVars
  <2>3. QED
    BY <1>2, <1>4, <2>1, <2>2
<1>8. CASE \/ Bootstrap \/ Receive \/ PressStop \/ (\E p \in Profiles : ChooseProfile(p))
           \/ (\E r \in Requests : PressRecord(r) \/ FilesWritten(r) \/ FilesFail(r))
           \/ UNCHANGED benchVars
  <2>1. UNCHANGED <<pendingIntent, intent, metadata, stopped>> /\ made \subseteq made'
    BY <1>8 DEF Bootstrap, Listen, Receive, PressStop, ChooseProfile, PressRecord, FilesWritten,
                FilesFail, benchVars,
                recorderVars, stampVars, screenVars
  <2>2. QED
    BY <1>2, <2>1
<1>9. QED
  BY <1>3, <1>6, <1>7, <1>8 DEF BenchNext

-----------------------------------------------------------------------------
(* The flag.                                                               *)

Decides(m) == m.kind \notin {"notStarted", "protected", "notProtected"}
Says(m) == m.kind \in {"captureStarted", "started"}

\* With flag set and messages s before it, the screen will come to show b.
Leads(s, flag, b) ==
  /\ \A i \in DOMAIN s :
       Decides(s[i]) /\ (\A j \in DOMAIN s : i < j => ~ Decides(s[j])) => (Says(s[i]) <=> b)
  /\ (\A i \in DOMAIN s : ~ Decides(s[i])) => (flag <=> b)

LEMMA LeadsNowhere ==
  ASSUME NEW flag, NEW b PROVE Leads(<< >>, flag, b) <=> (flag <=> b)
  BY DEF Leads

\* The last message to decide, decides.
LEMMA LeadsByLast ==
  ASSUME NEW S, NEW s \in Seq(S), NEW m \in S, NEW flag, NEW b,
         Decides(m), Says(m) <=> b
  PROVE  Leads(Append(s, m), flag, b)
<1>1. /\ Len(s) \in Nat /\ DOMAIN Append(s, m) = 1 .. Len(s) + 1
      /\ Append(s, m)[Len(s) + 1] = m
  BY Appended
<1>2. \A i \in DOMAIN Append(s, m) : i < Len(s) + 1 \/ i = Len(s) + 1
  BY <1>1
<1>3. QED
  BY <1>1, <1>2 DEF Leads

LEMMA LeadsOn ==
  ASSUME NEW S, NEW s \in Seq(S), NEW m \in S, NEW flag, NEW b,
         ~ Decides(m), Leads(s, flag, b)
  PROVE  Leads(Append(s, m), flag, b)
<1>1. /\ Len(s) \in Nat /\ DOMAIN s = 1 .. Len(s)
      /\ DOMAIN Append(s, m) = 1 .. Len(s) + 1
      /\ \A i \in 1 .. Len(s) : Append(s, m)[i] = s[i]
      /\ Append(s, m)[Len(s) + 1] = m
  BY Appended
<1>2. \A i \in DOMAIN Append(s, m) :
        Decides(Append(s, m)[i]) => i \in DOMAIN s /\ Append(s, m)[i] = s[i]
  BY <1>1
<1>3. DOMAIN s \subseteq DOMAIN Append(s, m)
  BY <1>1
<1>4. QED
  BY <1>1, <1>2, <1>3 DEF Leads

\* A message that arrives takes its effect with it.
LEMMA LeadsTail ==
  ASSUME NEW S, NEW s \in Seq(S), s # << >>, NEW flag, NEW b, Leads(s, flag, b)
  PROVE  Leads(Tail(s), IF Decides(Head(s)) THEN Says(Head(s)) ELSE flag, b)
<1>1. /\ Head(s) = s[1]
      /\ Len(s) \in Nat \ {0} /\ DOMAIN s = 1 .. Len(s)
      /\ DOMAIN Tail(s) = 1 .. Len(s) - 1
      /\ \A i \in 1 .. Len(s) - 1 : Tail(s)[i] = s[i + 1]
  BY Tailed
<1>2. ASSUME NEW i \in DOMAIN Tail(s), Decides(Tail(s)[i]),
             \A j \in DOMAIN Tail(s) : i < j => ~ Decides(Tail(s)[j])
      PROVE  Says(Tail(s)[i]) <=> b
  <2>1. i + 1 \in DOMAIN s /\ Tail(s)[i] = s[i + 1]
    BY <1>1
  <2>2. ASSUME NEW j \in DOMAIN s, i + 1 < j PROVE ~ Decides(s[j])
    <3>1. j - 1 \in DOMAIN Tail(s) /\ i < j - 1 /\ Tail(s)[j - 1] = s[j]
      BY <1>1, <2>2
    <3>2. QED
      BY <1>2, <3>1
  <2>3. QED
    BY <1>2, <2>1, <2>2 DEF Leads
<1>3. ASSUME \A i \in DOMAIN Tail(s) : ~ Decides(Tail(s)[i])
      PROVE  (IF Decides(Head(s)) THEN Says(Head(s)) ELSE flag) <=> b
  <2>1. ASSUME NEW j \in DOMAIN s, 1 < j PROVE ~ Decides(s[j])
    <3>1. j - 1 \in DOMAIN Tail(s) /\ Tail(s)[j - 1] = s[j]
      BY <1>1, <2>1
    <3>2. QED
      BY <1>3, <3>1
  <2>2. 1 \in DOMAIN s /\ \A j \in DOMAIN s : j = 1 \/ 1 < j
    BY <1>1
  <2>3. QED
    BY <1>1, <2>1, <2>2 DEF Leads
<1>4. QED
  BY <1>2, <1>3 DEF Leads

\* What the flag shows, but for a late reset.
Shown == recording \/ (active # None /\ active = hidden)

\* Before the screen listens only Siri has asked for anything; from then on all
\* events are on their way.
FlagFollows ==
  /\ listening => pendingEvents = << >> /\ Leads(toDart, Shown, active # None)
  /\ ~ listening => /\ toDart = << >> /\ ~ recording /\ toNative = << >>
                    /\ enqueuing = {} /\ hidden = None
                    /\ made \subseteq Intents
                    /\ Leads(pendingEvents, FALSE, active # None)

LEMMA ScreenMessages ==
  ASSUME NEW r \in Requests
  PROVE  /\ [kind |-> "captureStarted", of |-> r] \in Event
         /\ [kind |-> "captureStopped", of |-> r] \in Event
         /\ [kind |-> "started", of |-> r] \in Message
         /\ [kind |-> "notStarted", of |-> r] \in Message
         /\ [kind |-> "stopped", of |-> r] \in Message
         /\ [kind |-> "notStopped", of |-> None] \in Message
         /\ Event \subseteq Message
  BY DEF Event, Message, Reply

\* A request whose block is handled has been made.
LEMMA NextIsMade ==
  ASSUME RecorderTypeOK, RequestsOnce, NEW r \in Requests, NEW k \in {"granted", "denied"},
         IsNext(r, k)
  PROVE  r \in made
<1>1. main[1] = [kind |-> k, of |-> r] /\ 1 \in DOMAIN main
  BY NextTaken
<1>2. QED
  BY <1>1 DEF RequestsOnce, BlocksApart, IsStart

LEMMA StartKeepsFlag ==
  ASSUME RecorderTypeOK, RequestsOnce, FlagFollows, NEW r \in Requests, Start(r),
         UNCHANGED screenVars
  PROVE  FlagFollows'
<1> USE RecorderAssumption
<1> DEFINE e == [kind |-> "captureStarted", of |-> r]
           m == [kind |-> "started", of |-> r]
<1>1. e \in Event /\ e \in Message /\ m \in Message
  BY ScreenMessages
<1>2. Decides(e) /\ Says(e) /\ Decides(m) /\ Says(m)
  BY DEF Decides, Says
<1>3. /\ r \in made /\ active' = r /\ r # None /\ listening' = listening
      /\ Told(<<e>>, IF r \in Intents THEN << >> ELSE <<m>>)
      /\ UNCHANGED <<recording, made, toNative, enqueuing, hidden>>
  BY NextIsMade DEF Start, Told, ReplyTo, screenVars
<1>4. toDart \in Seq(Message) /\ pendingEvents \in Seq(Event)
  BY DEF RecorderTypeOK
<1> HIDE DEF e, m
<1>5. Append(toDart, e) \in Seq(Message)
  BY <1>1, <1>4
<1>6. CASE listening
  <2>1. pendingEvents' = pendingEvents /\ toDart' \in {Append(toDart, e), Append(Append(toDart, e), m)}
    BY <1>1, <1>3, <1>6, ToldFacts
  <2>2. \A flag : Leads(Append(toDart, e), flag, TRUE)
    BY <1>1, <1>2, <1>4, LeadsByLast
  <2>3. \A flag : Leads(Append(Append(toDart, e), m), flag, TRUE)
    BY <1>1, <1>2, <1>5, LeadsByLast
  <2>4. active' # None <=> TRUE
    BY <1>3
  <2>5. Leads(toDart', Shown', TRUE)
    BY <2>1, <2>2, <2>3
  <2>6. Leads(toDart', Shown', active' # None)
    BY <2>4, <2>5 DEF Leads
  <2>7. QED
    BY <1>3, <1>6, <2>1, <2>6 DEF FlagFollows
<1>7. CASE ~ listening
  <2>1. Told(<<e>>, << >>)
    BY <1>3, <1>7 DEF FlagFollows
  <2>2. toDart' = toDart /\ pendingEvents' = Append(pendingEvents, e)
    BY <1>1, <1>7, <2>1, ToldFacts
  <2>3. Leads(Append(pendingEvents, e), FALSE, TRUE)
    BY <1>1, <1>2, <1>4, LeadsByLast
  <2>4. Leads(pendingEvents', FALSE, active' # None)
    BY <1>3, <2>2, <2>3 DEF Leads
  <2>5. QED
    BY <1>3, <1>7, <2>2, <2>4 DEF FlagFollows
<1>8. QED
  BY <1>6, <1>7

LEMMA RefusalKeepsFlag ==
  ASSUME RecorderTypeOK, RequestsOnce, FlagFollows, NEW r \in Requests,
         StartFails(r) \/ Denied(r), UNCHANGED screenVars
  PROVE  FlagFollows'
<1> USE RecorderAssumption
<1> DEFINE e == [kind |-> "captureStarted", of |-> r]
           m == [kind |-> "notStarted", of |-> r]
<1>1. e \in Event /\ m \in Message /\ ~ Decides(m)
  BY ScreenMessages DEF Decides
<1>2. /\ r \in made /\ active' = active /\ listening' = listening
      /\ Told(<< >>, IF r \in Intents THEN << >> ELSE <<m>>)
      /\ UNCHANGED <<recording, made, toNative, enqueuing, hidden>>
  BY NextIsMade DEF StartFails, Denied, Told, ReplyTo, screenVars, engineVars
<1>3. toDart \in Seq(Message)
  BY DEF RecorderTypeOK
<1> HIDE DEF e, m
<1>4. /\ pendingEvents' = pendingEvents
      /\ \/ toDart' = toDart
         \/ (r \notin Intents) /\ (toDart' = Append(toDart, m))
  BY <1>1, <1>2, ToldFacts
<1>5. CASE listening
  <2>1. Leads(Append(toDart, m), Shown, active # None)
    BY <1>1, <1>3, <1>5, LeadsOn DEF FlagFollows
  <2>2. Shown' = Shown
    BY <1>2 DEF Shown
  <2>3. QED
    BY <1>2, <1>4, <1>5, <2>1, <2>2 DEF FlagFollows
<1>6. CASE ~ listening
  BY <1>2, <1>4, <1>6 DEF FlagFollows
<1>7. QED
  BY <1>5, <1>6

LEMMA HandleKeepsFlag ==
  ASSUME ScreenTypeOK, FlagFollows, Handle
  PROVE  FlagFollows'
<1> USE RecorderAssumption
<1>1. RecorderTypeOK /\ UNCHANGED <<recording, made, enqueuing, hidden>>
  BY DEF ScreenTypeOK, Handle
<1>2. listening /\ pendingEvents = << >> /\ Leads(toDart, Shown, active # None)
  BY DEF Handle, FlagFollows
<1>3. toDart \in Seq(Message)
  BY <1>1 DEF RecorderTypeOK
<1>4. CASE (\E r \in Requests : AskToStart(r)) \/ (\E p : Configure(p))
  BY <1>1, <1>2, <1>4 DEF AskToStart, Configure, engineVars, eventVars, FlagFollows, Shown
<1>5. CASE Stop
  <2> DEFINE e == [kind |-> "captureStopped", of |-> active]
             m == [kind |-> "stopped", of |-> active]
  <2>1. active \in Requests /\ active' = None /\ Told(<<e>>, <<m>>)
    BY <1>1, <1>5 DEF Stop, RecorderTypeOK, Maybe
  <2>2. e \in Event /\ e \in Message /\ m \in Message /\ Decides(m) /\ ~ Says(m)
    BY <2>1, ScreenMessages DEF Decides, Says
  <2> HIDE DEF e, m
  <2>3. toDart' = Append(Append(toDart, e), m) /\ pendingEvents' = pendingEvents /\ listening' = listening
    BY <1>1, <1>2, <2>1, <2>2, ToldFacts DEF Told
  <2>4. Append(toDart, e) \in Seq(Message)
    BY <1>3, <2>2
  <2>5. Leads(toDart', Shown', FALSE)
    BY <2>2, <2>3, <2>4, LeadsByLast
  <2>6. Leads(toDart', Shown', active' # None)
    BY <2>1, <2>5 DEF Leads
  <2>7. QED
    BY <1>2, <2>3, <2>6 DEF FlagFollows
<1>6. CASE NotCapturing
  <2> DEFINE m == [kind |-> "notStopped", of |-> None]
  <2>1. active = None /\ active' = None /\ Told(<< >>, <<m>>)
    BY <1>6 DEF NotCapturing, engineVars
  <2>2. m \in Message /\ Decides(m) /\ ~ Says(m)
    BY DEF Decides, Says, Message, Reply
  <2> HIDE DEF m
  <2>3. toDart' = Append(toDart, m) /\ pendingEvents' = pendingEvents /\ listening' = listening
    <3>1. toDart \o << >> = toDart /\ toDart \o <<m>> = Append(toDart, m) /\ pendingEvents \o << >> = << >>
      BY <1>2, <1>3, <2>2, Appended, ConcatEmptySeq
    <3>2. QED
      BY <1>2, <2>1, <3>1 DEF Told
  <2>4. Leads(toDart', Shown', FALSE)
    BY <1>3, <2>2, <2>3, LeadsByLast
  <2>5. Leads(toDart', Shown', active' # None)
    BY <2>1, <2>4 DEF Leads
  <2>6. QED
    BY <1>2, <2>3, <2>5 DEF FlagFollows
<1>7. CASE \E c \in Requests : Protect(c)
  <2>1. PICK c \in Requests, k \in {"protected", "notProtected"} :
          Told(<< >>, <<[kind |-> k, of |-> c]>>) /\ active' = active
    BY <1>7 DEF Protect, engineVars
  <2> DEFINE m == [kind |-> k, of |-> c]
  <2>2. m \in Message /\ ~ Decides(m)
    BY DEF Decides, Message, Reply
  <2> HIDE DEF m
  <2>3. toDart' = Append(toDart, m) /\ pendingEvents' = pendingEvents /\ listening' = listening
    BY <1>1, <2>1, <2>2, AnsweredFacts DEF m
  <2>4. Leads(toDart', Shown, active # None)
    BY <1>2, <1>3, <2>2, <2>3, LeadsOn
  <2>5. Shown' = Shown
    BY <1>1, <2>1 DEF Shown
  <2>6. QED
    BY <1>2, <2>1, <2>3, <2>4, <2>5 DEF FlagFollows
<1>8. QED
  BY <1>4, <1>5, <1>6, <1>7, CallFacts DEF Handle

LEMMA FlagStep ==
  ASSUME ScreenTypeOK, RequestsOnce, FlagFollows, [BenchNext]_benchVars
  PROVE  FlagFollows'
<1> USE RecorderAssumption
<1>1. RecorderTypeOK
  BY DEF ScreenTypeOK
<1>2. CASE Bootstrap
  <2>1. toDart' = pendingEvents /\ pendingEvents' = << >> /\ listening'
    BY <1>1, <1>2, ConcatEmptySeq DEF Bootstrap, Listen, FlagFollows, RecorderTypeOK
  <2>2. ~ recording' /\ active' = active /\ recording \in BOOLEAN /\ hidden' = None
    BY <1>2 DEF Bootstrap, Listen, FlagFollows, screenVars, engineVars, ScreenTypeOK
  <2>3. Leads(pendingEvents, FALSE, active # None)
    BY <1>2 DEF Bootstrap, FlagFollows
  <2>4. Leads(toDart', Shown', active' # None)
    BY <2>1, <2>2, <2>3 DEF Leads, Shown
  <2>5. QED
    BY <2>1, <2>4 DEF FlagFollows
<1>3. CASE Receive
  <2>1. toDart # << >> /\ toDart' = Tail(toDart) /\ toDart \in Seq(Message)
    BY <1>1, <1>3 DEF Receive, RecorderTypeOK
  <2>2. listening /\ Leads(toDart, Shown, active # None) /\ pendingEvents = << >>
    BY <2>1 DEF FlagFollows
  <2>3. Leads(Tail(toDart), IF Decides(Head(toDart)) THEN Says(Head(toDart)) ELSE Shown,
              active # None)
    BY <2>1, <2>2, LeadsTail
  <2>4. active' = active /\ listening' = listening /\ pendingEvents' = pendingEvents
    BY <1>3 DEF Receive, engineVars
  <2> DEFINE k == Head(toDart).kind
             b == active # None
             shows == IF Decides(Head(toDart)) THEN Says(Head(toDart)) ELSE Shown
  <2>5. (shows <=> b) => (Shown' <=> b)
    <3>1. k \in {"captureStarted", "started"} => recording' = TRUE /\ hidden' = hidden
      BY <1>3 DEF Receive
    <3>2. k \in {"notStarted", "protected"} => recording' = recording /\ hidden' = hidden
      BY <1>3 DEF Receive
    <3>3. k \notin {"captureStarted", "started", "notStarted", "protected"} => recording' = FALSE
      BY <1>3 DEF Receive
    <3>4. hidden' = IF k = "notProtected" THEN active ELSE hidden
      BY <1>3 DEF Receive
    <3>5. QED
      BY <2>4, <3>1, <3>2, <3>3, <3>4 DEF Decides, Says, Shown
  <2>6. Leads(toDart', Shown', b)
    <3>1. toDart' = Tail(toDart) /\ Leads(Tail(toDart), shows, b)
      BY <2>1, <2>3
    <3> HIDE DEF shows, b
    <3>2. QED
      BY <2>5, <3>1 DEF Leads
  <2>7. QED
    BY <2>2, <2>4, <2>6 DEF FlagFollows
<1>4. CASE \/ PressStop \/ (\E p \in Profiles : ChooseProfile(p))
           \/ (\E r \in Requests : PressRecord(r) \/ FilesWritten(r) \/ FilesFail(r))
  <2>1. listening
    BY <1>4 DEF PressStop, ChooseProfile, PressRecord, FilesWritten, FilesFail, FlagFollows
  <2>2. UNCHANGED <<listening, pendingEvents, toDart, recording, active, hidden>>
    BY <1>4 DEF PressStop, ChooseProfile, PressRecord, FilesWritten, FilesFail, recorderVars,
                engineVars, eventVars
  <2>3. QED
    BY <2>1, <2>2 DEF FlagFollows, Shown
<1>5. CASE \E r \in Requests : Siri(r)
  <2>1. PICK r \in Requests : Siri(r)
    BY <1>5
  <2>2. /\ UNCHANGED <<listening, pendingEvents, toDart, recording, toNative, active>>
        /\ UNCHANGED <<enqueuing, hidden>>
        /\ r \in Intents /\ made' = made \cup {r}
    BY <2>1 DEF Siri, Trigger, engineVars, eventVars
  <2>3. QED
    BY <2>2 DEF FlagFollows, Shown
<1>6. CASE UNCHANGED benchVars
  BY <1>6 DEF benchVars, recorderVars, engineVars, eventVars, screenVars, FlagFollows, Shown
<1>7. CASE \E r \in Requests : RecorderSteps(r) /\ UNCHANGED screenVars
  <2>1. PICK r \in Requests : RecorderSteps(r) /\ UNCHANGED screenVars
    BY <1>7
  <2>2. CASE \/ PermissionAnswered(r) \/ CallbackBegins(r) \/ CallbackReads(r) \/ CallbackStamps(r)
             \/ CallbackWrites(r) \/ StampFirstBuffer(r)
    <3>1. /\ UNCHANGED <<listening, pendingEvents, toDart, recording, toNative, active, made>>
          /\ UNCHANGED <<enqueuing, hidden>>
      BY <2>1, <2>2
      DEF PermissionAnswered, CallbackBegins, CallbackReads, CallbackStamps, CallbackWrites,
          StampFirstBuffer, engineVars, eventVars, screenVars
    <3>2. QED
      BY <3>1 DEF FlagFollows, Shown
  <2>3. QED
    BY <1>1, <2>1, <2>2, StartKeepsFlag, RefusalKeepsFlag DEF RecorderSteps
<1>8. QED
  BY <1>2, <1>3, <1>4, <1>5, <1>6, <1>7, HandleKeepsFlag DEF BenchNext

-----------------------------------------------------------------------------
(* The queue.                                                              *)

ResultsIn(s) == {i \in DOMAIN s : s[i].kind = "stopped"}

\* The captures st are those queued in q or reported in s, each in one place.
Accounted(s, q, st) ==
  /\ st = {q[k] : k \in DOMAIN q} \cup {s[i].of : i \in ResultsIn(s)}
  /\ \A k, l \in DOMAIN q : q[k] = q[l] => k = l
  /\ \A i, j \in ResultsIn(s) : s[i].of = s[j].of => i = j
  /\ \A k \in DOMAIN q, i \in ResultsIn(s) : q[k] # s[i].of

LEMMA QueuedIsAccounted == EveryRecordingIsQueued <=> Accounted(toDart, queued, stopped)
  BY DEF EveryRecordingIsQueued, Accounted, ResultsIn, Results

LEMMA AccountedOn ==
  ASSUME NEW S, NEW s \in Seq(S), NEW m \in S, NEW q, NEW st,
         m.kind # "stopped", Accounted(s, q, st)
  PROVE  Accounted(Append(s, m), q, st)
<1>1. /\ Len(s) \in Nat /\ DOMAIN s = 1 .. Len(s)
      /\ DOMAIN Append(s, m) = 1 .. Len(s) + 1
      /\ \A i \in 1 .. Len(s) : Append(s, m)[i] = s[i]
      /\ Append(s, m)[Len(s) + 1] = m
  BY Appended
<1>2. ResultsIn(Append(s, m)) = ResultsIn(s)
  BY <1>1 DEF ResultsIn
<1>3. \A i \in ResultsIn(s) : Append(s, m)[i] = s[i]
  BY <1>1 DEF ResultsIn
<1>4. {Append(s, m)[i].of : i \in ResultsIn(s)} = {s[i].of : i \in ResultsIn(s)}
  BY <1>3
<1>5. QED
  BY <1>2, <1>3, <1>4 DEF Accounted

LEMMA AccountedMore ==
  ASSUME NEW S, NEW s \in Seq(S), NEW m \in S, NEW q, NEW st,
         m.kind = "stopped", m.of \notin st, Accounted(s, q, st)
  PROVE  Accounted(Append(s, m), q, st \cup {m.of})
<1>1. /\ Len(s) \in Nat /\ DOMAIN s = 1 .. Len(s)
      /\ DOMAIN Append(s, m) = 1 .. Len(s) + 1
      /\ \A i \in 1 .. Len(s) : Append(s, m)[i] = s[i]
      /\ Append(s, m)[Len(s) + 1] = m
  BY Appended
<1> DEFINE n == Len(s) + 1
<1>2. ResultsIn(Append(s, m)) = ResultsIn(s) \cup {n} /\ n \notin ResultsIn(s)
  BY <1>1 DEF ResultsIn
<1>3. \A i \in ResultsIn(s) : Append(s, m)[i] = s[i]
  BY <1>1 DEF ResultsIn
<1>4. Append(s, m)[n] = m
  BY <1>1
<1> HIDE DEF n
<1>5. {Append(s, m)[i].of : i \in ResultsIn(Append(s, m))} = {s[i].of : i \in ResultsIn(s)} \cup {m.of}
  BY <1>2, <1>3, <1>4
<1>6. \A i \in ResultsIn(s) : s[i].of # m.of
  BY DEF Accounted
<1>7. \A k \in DOMAIN q : q[k] # m.of
  BY DEF Accounted
<1>8. st \cup {m.of} = {q[k] : k \in DOMAIN q}
                       \cup {Append(s, m)[i].of : i \in ResultsIn(Append(s, m))}
  BY <1>5 DEF Accounted
<1>9. \A i, j \in ResultsIn(s) : s[i].of = s[j].of => i = j
  BY DEF Accounted
<1>10. \A i, j \in ResultsIn(Append(s, m)) : Append(s, m)[i].of = Append(s, m)[j].of => i = j
  BY <1>2, <1>3, <1>4, <1>6, <1>9
<1>11. \A k \in DOMAIN q : \A i \in ResultsIn(s) : q[k] # s[i].of
  BY DEF Accounted
<1>12. \A k \in DOMAIN q : \A i \in ResultsIn(Append(s, m)) : q[k] # Append(s, m)[i].of
  BY <1>2, <1>3, <1>4, <1>7, <1>11
<1>13. \A k, l \in DOMAIN q : q[k] = q[l] => k = l
  BY DEF Accounted
<1>14. QED
  BY <1>8, <1>10, <1>12, <1>13 DEF Accounted

LEMMA AccountedTail ==
  ASSUME NEW S, NEW s \in Seq(S), s # << >>, NEW T, NEW q \in Seq(T), NEW st,
         Accounted(s, q, st)
  PROVE  /\ Head(s).kind # "stopped" => Accounted(Tail(s), q, st)
         /\ Head(s).kind = "stopped" /\ Head(s).of \in T =>
              Accounted(Tail(s), Append(q, Head(s).of), st)
<1>1. /\ Head(s) = s[1]
      /\ Len(s) \in Nat \ {0} /\ DOMAIN s = 1 .. Len(s)
      /\ DOMAIN Tail(s) = 1 .. Len(s) - 1
      /\ \A i \in 1 .. Len(s) - 1 : Tail(s)[i] = s[i + 1]
  BY Tailed
<1>2. /\ \A i \in ResultsIn(Tail(s)) : i + 1 \in ResultsIn(s) /\ Tail(s)[i] = s[i + 1] /\ i \in Int
      /\ 1 \notin {i + 1 : i \in ResultsIn(Tail(s))}
  BY <1>1 DEF ResultsIn
<1>3. \A j \in ResultsIn(s) : j = 1 \/ (j - 1 \in ResultsIn(Tail(s)) /\ Tail(s)[j - 1] = s[j])
  <2> SUFFICES ASSUME NEW j \in ResultsIn(s), j # 1
               PROVE  j - 1 \in ResultsIn(Tail(s)) /\ Tail(s)[j - 1] = s[j]
    OBVIOUS
  <2>1. j - 1 \in DOMAIN Tail(s) /\ Tail(s)[j - 1] = s[j] /\ s[j].kind = "stopped"
    BY <1>1 DEF ResultsIn
  <2>2. QED
    BY <2>1 DEF ResultsIn
<1>4. 1 \in ResultsIn(s) <=> Head(s).kind = "stopped"
  BY <1>1 DEF ResultsIn
<1>5. /\ \A i, j \in ResultsIn(s) : s[i].of = s[j].of => i = j
      /\ \A k \in DOMAIN q : \A i \in ResultsIn(s) : q[k] # s[i].of
      /\ \A k, l \in DOMAIN q : q[k] = q[l] => k = l
  BY DEF Accounted
<1>6. \A i, j \in ResultsIn(Tail(s)) : Tail(s)[i].of = Tail(s)[j].of => i = j
  <2> SUFFICES ASSUME NEW i \in ResultsIn(Tail(s)), NEW j \in ResultsIn(Tail(s)),
                      Tail(s)[i].of = Tail(s)[j].of
               PROVE  i = j
    OBVIOUS
  <2>1. /\ i + 1 \in ResultsIn(s) /\ Tail(s)[i] = s[i + 1] /\ i \in Int
        /\ j + 1 \in ResultsIn(s) /\ Tail(s)[j] = s[j + 1] /\ j \in Int
    BY <1>2
  <2>2. i + 1 = j + 1
    BY <1>5, <2>1
  <2>3. QED
    BY <2>1, <2>2
<1>7. \A k \in DOMAIN q : \A i \in ResultsIn(Tail(s)) : q[k] # Tail(s)[i].of
  <2> SUFFICES ASSUME NEW k \in DOMAIN q, NEW i \in ResultsIn(Tail(s))
               PROVE  q[k] # Tail(s)[i].of
    OBVIOUS
  <2>1. i + 1 \in ResultsIn(s) /\ Tail(s)[i] = s[i + 1]
    BY <1>2
  <2>2. QED
    BY <1>5, <2>1
<1>8. /\ \A i \in ResultsIn(Tail(s)) : \E j \in ResultsIn(s) : s[j].of = Tail(s)[i].of
      /\ \A j \in ResultsIn(s) : j = 1 \/ \E i \in ResultsIn(Tail(s)) : Tail(s)[i].of = s[j].of
  <2>1. ASSUME NEW i \in ResultsIn(Tail(s))
        PROVE  \E j \in ResultsIn(s) : s[j].of = Tail(s)[i].of
    <3>1. i + 1 \in ResultsIn(s) /\ Tail(s)[i] = s[i + 1]
      BY <1>2
    <3>2. QED
      BY <3>1
  <2>2. QED
    BY <1>3, <2>1
<1>9. CASE Head(s).kind # "stopped"
  <2>1. {Tail(s)[i].of : i \in ResultsIn(Tail(s))} = {s[j].of : j \in ResultsIn(s)}
    <3>1. \A i \in ResultsIn(Tail(s)) : Tail(s)[i].of \in {s[j].of : j \in ResultsIn(s)}
      BY <1>8
    <3>2. \A j \in ResultsIn(s) : s[j].of \in {Tail(s)[i].of : i \in ResultsIn(Tail(s))}
      BY <1>4, <1>9, <1>8
    <3>3. QED
      BY <3>1, <3>2
  <2>2. st = {q[k] : k \in DOMAIN q} \cup {Tail(s)[i].of : i \in ResultsIn(Tail(s))}
    BY <2>1 DEF Accounted
  <2>3. Accounted(Tail(s), q, st)
    BY <1>6, <1>5, <1>7, <2>2 DEF Accounted
  <2>4. QED
    BY <1>9, <2>3
<1>10. CASE Head(s).kind = "stopped" /\ Head(s).of \in T
  <2> DEFINE c == Head(s).of
  <2>1. 1 \in ResultsIn(s) /\ s[1].of = c
    BY <1>1, <1>4, <1>10
  <2> HIDE DEF c
  <2>2. /\ Len(q) \in Nat /\ DOMAIN q = 1 .. Len(q)
        /\ DOMAIN Append(q, c) = 1 .. Len(q) + 1
        /\ \A k \in 1 .. Len(q) : Append(q, c)[k] = q[k]
        /\ Append(q, c)[Len(q) + 1] = c
    BY <1>10, Appended DEF c
  <2>3. {Append(q, c)[k] : k \in DOMAIN Append(q, c)} = {q[k] : k \in DOMAIN q} \cup {c}
    <3>1. \A k \in DOMAIN Append(q, c) : k \in DOMAIN q \/ k = Len(q) + 1
      BY <2>2
    <3>2. \A k \in DOMAIN q : k \in DOMAIN Append(q, c) /\ Append(q, c)[k] = q[k]
      BY <2>2
    <3>3. Len(q) + 1 \in DOMAIN Append(q, c)
      BY <2>2
    <3>4. QED
      BY <2>2, <3>1, <3>2, <3>3
  <2>4. {Tail(s)[i].of : i \in ResultsIn(Tail(s))} \cup {c} = {s[j].of : j \in ResultsIn(s)}
    <3>1. \A i \in ResultsIn(Tail(s)) : Tail(s)[i].of \in {s[j].of : j \in ResultsIn(s)}
      BY <1>8
    <3>2. \A j \in ResultsIn(s) :
            s[j].of \in {Tail(s)[i].of : i \in ResultsIn(Tail(s))} \cup {c}
      BY <1>8, <2>1
    <3>3. c \in {s[j].of : j \in ResultsIn(s)}
      BY <2>1
    <3>4. QED
      BY <3>1, <3>2, <3>3
  <2>5. st = {Append(q, c)[k] : k \in DOMAIN Append(q, c)}
               \cup {Tail(s)[i].of : i \in ResultsIn(Tail(s))}
    BY <2>3, <2>4 DEF Accounted
  <2>6. \A k \in DOMAIN q : q[k] # c
    BY <2>1 DEF Accounted
  <2>7. \A k, l \in DOMAIN Append(q, c) : Append(q, c)[k] = Append(q, c)[l] => k = l
    BY <2>2, <2>6 DEF Accounted
  <2>8. \A i \in ResultsIn(Tail(s)) : Tail(s)[i].of # c
    <3> SUFFICES ASSUME NEW i \in ResultsIn(Tail(s)), Tail(s)[i].of = c PROVE FALSE
      OBVIOUS
    <3>1. i + 1 \in ResultsIn(s) /\ Tail(s)[i] = s[i + 1] /\ i \in Int /\ i # 0
      BY <1>1, <1>2 DEF ResultsIn
    <3>2. i + 1 = 1
      BY <1>5, <2>1, <3>1
    <3>3. QED
      BY <3>1, <3>2
  <2>9. \A k \in DOMAIN Append(q, c) : \A i \in ResultsIn(Tail(s)) :
          Append(q, c)[k] # Tail(s)[i].of
    <3> SUFFICES ASSUME NEW k \in DOMAIN Append(q, c), NEW i \in ResultsIn(Tail(s))
                 PROVE  Append(q, c)[k] # Tail(s)[i].of
      OBVIOUS
    <3>1. (k \in DOMAIN q /\ Append(q, c)[k] = q[k]) \/ Append(q, c)[k] = c
      BY <2>2
    <3>2. QED
      BY <1>7, <2>8, <3>1
  <2>10. Accounted(Tail(s), Append(q, c), st)
    BY <1>6, <2>5, <2>7, <2>9 DEF Accounted
  <2>11. QED
    BY <1>10, <2>10 DEF c
<1>11. QED
  BY <1>9, <1>10

\* Messages that are no results keep the account.
LEMMA OthersKeepAccount ==
  ASSUME RecorderTypeOK, EveryRecordingIsQueued, NEW e \in Event, NEW m \in Message,
         m.kind # "stopped",
         toDart' \in {toDart, Append(toDart, e), Append(toDart, m), Append(Append(toDart, e), m)},
         UNCHANGED <<stopped, queued>>
  PROVE  EveryRecordingIsQueued'
<1>1. toDart \in Seq(Message) /\ e \in Message /\ e.kind # "stopped"
  BY DEF RecorderTypeOK, Message, Event
<1>2. Append(toDart, e) \in Seq(Message)
  BY <1>1
<1>3. Accounted(toDart, queued, stopped)
  BY QueuedIsAccounted
<1>4. Accounted(Append(toDart, e), queued, stopped) /\ Accounted(Append(toDart, m), queued, stopped)
  BY <1>1, <1>3, AccountedOn
<1>5. Accounted(Append(Append(toDart, e), m), queued, stopped)
  BY <1>2, <1>4, AccountedOn
<1>6. Accounted(toDart', queued', stopped')
  BY <1>3, <1>4, <1>5
<1>7. QED
  BY <1>6 DEF EveryRecordingIsQueued, Accounted, ResultsIn, Results

LEMMA RecorderKeepsAccount ==
  ASSUME RecorderTypeOK, EveryRecordingIsQueued, NEW r \in Requests, RecorderSteps(r),
         UNCHANGED screenVars
  PROVE  EveryRecordingIsQueued'
<1> DEFINE e == [kind |-> "captureStarted", of |-> r]
           m == [kind |-> "started", of |-> r]
           n == [kind |-> "notStarted", of |-> r]
<1>1. /\ e \in Event /\ m \in Message /\ n \in Message
      /\ m.kind # "stopped" /\ n.kind # "stopped"
  BY ScreenMessages
<1>2. CASE Start(r)
  <2>1. Told(<<e>>, << >>) \/ Told(<<e>>, <<m>>)
    BY <1>2 DEF Start, ReplyTo
  <2>2. UNCHANGED <<stopped, queued>>
    BY <1>2 DEF Start, screenVars
  <2> HIDE DEF e, m, n
  <2>3. toDart' \in {toDart, Append(toDart, e), Append(toDart, m), Append(Append(toDart, e), m)}
    BY <1>1, <2>1, ToldFacts DEF RecorderTypeOK
  <2>4. QED
    BY <1>1, <2>2, <2>3, OthersKeepAccount
<1>3. CASE StartFails(r) \/ Denied(r)
  <2>1. Told(<< >>, << >>) \/ Told(<< >>, <<n>>)
    BY <1>3 DEF StartFails, Denied, ReplyTo
  <2>2. UNCHANGED <<stopped, queued>>
    BY <1>3 DEF StartFails, Denied, screenVars, stampVars
  <2> HIDE DEF e, m, n
  <2>3. toDart' \in {toDart, Append(toDart, n)}
    BY <1>1, <2>1, ToldFacts
  <2>4. QED
    BY <1>1, <2>2, <2>3, OthersKeepAccount
<1>4. CASE \/ PermissionAnswered(r) \/ CallbackBegins(r) \/ CallbackReads(r) \/ CallbackStamps(r)
           \/ CallbackWrites(r) \/ StampFirstBuffer(r)
  <2>1. UNCHANGED <<toDart, stopped, queued>>
    BY <1>4
    DEF PermissionAnswered, CallbackBegins, CallbackReads, CallbackStamps, CallbackWrites,
        StampFirstBuffer, stampVars, eventVars, screenVars
  <2>2. QED
    BY <2>1 DEF EveryRecordingIsQueued, Results
<1>5. QED
  BY <1>2, <1>3, <1>4 DEF RecorderSteps

LEMMA HandleKeepsAccount ==
  ASSUME ScreenTypeOK, RequestsOnce, FlagFollows, EveryRecordingIsQueued, Handle
  PROVE  EveryRecordingIsQueued'
<1> USE RecorderAssumption
<1>1. RecorderTypeOK /\ queued' = queued /\ toDart \in Seq(Message)
  BY DEF ScreenTypeOK, Handle, RecorderTypeOK
<1>2. listening /\ pendingEvents = << >>
  BY DEF Handle, FlagFollows
<1>3. CASE (\E r \in Requests : AskToStart(r)) \/ (\E p : Configure(p))
  <2>1. UNCHANGED <<toDart, stopped>>
    BY <1>3 DEF AskToStart, Configure, stampVars, eventVars
  <2>2. QED
    BY <1>1, <2>1 DEF EveryRecordingIsQueued, Results
<1>4. CASE Stop
  <2> DEFINE e == [kind |-> "captureStopped", of |-> active]
             m == [kind |-> "stopped", of |-> active]
  <2>1. /\ active \in Requests \ stopped /\ stopped' = stopped \cup {active}
        /\ Told(<<e>>, <<m>>)
    BY <1>1, <1>4 DEF Stop, RecorderTypeOK, Maybe, RequestsOnce, RestApart
  <2>2. /\ e \in Event /\ e \in Message /\ m \in Message
        /\ e.kind # "stopped" /\ m.kind = "stopped" /\ m.of = active
    BY <2>1, ScreenMessages
  <2> HIDE DEF e, m
  <2>3. toDart' = Append(Append(toDart, e), m)
    BY <1>1, <1>2, <2>1, <2>2, ToldFacts
  <2>4. Append(toDart, e) \in Seq(Message)
    BY <1>1, <2>2
  <2>5. Accounted(toDart, queued, stopped)
    BY QueuedIsAccounted
  <2>6. Accounted(Append(toDart, e), queued, stopped)
    BY <1>1, <2>2, <2>5, AccountedOn
  <2>7. m.of \notin stopped
    BY <2>1, <2>2
  <2>8. Accounted(Append(Append(toDart, e), m), queued, stopped \cup {m.of})
    BY <2>2, <2>4, <2>6, <2>7, AccountedMore
  <2>9. Accounted(toDart', queued', stopped')
    BY <1>1, <2>1, <2>2, <2>3, <2>8
  <2>10. QED
    BY <2>9 DEF EveryRecordingIsQueued, Accounted, ResultsIn, Results
<1>5. CASE NotCapturing
  <2> DEFINE m == [kind |-> "notStopped", of |-> None]
  <2>1. Told(<< >>, <<m>>) /\ stopped' = stopped /\ m \in Message /\ m.kind # "stopped"
    BY <1>5 DEF NotCapturing, stampVars, Message, Reply
  <2> HIDE DEF m
  <2>2. toDart' = Append(toDart, m)
    <3>1. toDart \o << >> = toDart /\ toDart \o <<m>> = Append(toDart, m)
      BY <1>1, <2>1, Appended, ConcatEmptySeq
    <3>2. QED
      BY <1>2, <2>1, <3>1 DEF Told
  <2>3. Accounted(Append(toDart, m), queued, stopped)
    BY <1>1, <2>1, QueuedIsAccounted, AccountedOn
  <2>4. Accounted(toDart', queued', stopped')
    BY <1>1, <2>1, <2>2, <2>3
  <2>5. QED
    BY <2>4 DEF EveryRecordingIsQueued, Accounted, ResultsIn, Results
<1>6. CASE \E c \in Requests : Protect(c)
  <2>1. PICK c \in Requests, k \in {"protected", "notProtected"} :
          Told(<< >>, <<[kind |-> k, of |-> c]>>) /\ stopped' = stopped
    BY <1>6 DEF Protect, stampVars
  <2> DEFINE m == [kind |-> k, of |-> c]
  <2>2. m \in Message /\ m.kind # "stopped"
    BY DEF Message, Reply
  <2> HIDE DEF m
  <2>3. toDart' = Append(toDart, m)
    BY <1>1, <2>1, <2>2, AnsweredFacts DEF m
  <2>4. Accounted(Append(toDart, m), queued, stopped)
    BY <1>1, <2>2, QueuedIsAccounted, AccountedOn
  <2>5. Accounted(toDart', queued', stopped')
    BY <1>1, <2>1, <2>3, <2>4
  <2>6. QED
    BY <2>5 DEF EveryRecordingIsQueued, Accounted, ResultsIn, Results
<1>7. QED
  BY <1>3, <1>4, <1>5, <1>6, CallFacts DEF Handle

LEMMA QueueStep ==
  ASSUME ScreenTypeOK, RequestsOnce, FlagFollows, EveryRecordingIsQueued, [BenchNext]_benchVars
  PROVE  EveryRecordingIsQueued'
<1>1. RecorderTypeOK
  BY DEF ScreenTypeOK
<1>2. CASE Bootstrap
  <2>1. toDart = << >> /\ toDart' = pendingEvents /\ UNCHANGED <<stopped, queued>>
    BY <1>1, <1>2, ConcatEmptySeq
    DEF Bootstrap, Listen, FlagFollows, RecorderTypeOK, stampVars, screenVars
  <2>2. \A i \in DOMAIN pendingEvents : pendingEvents[i].kind # "stopped"
    <3>1. \A i \in DOMAIN pendingEvents : pendingEvents[i] \in Event
      BY <1>1 DEF RecorderTypeOK
    <3>2. QED
      BY <3>1 DEF Event
  <2>3. Results' = {} /\ Results = {}
    BY <2>1, <2>2 DEF Results
  <2>4. QED
    BY <2>1, <2>3 DEF EveryRecordingIsQueued
<1>3. CASE Receive
  <2>1. /\ toDart # << >> /\ toDart' = Tail(toDart) /\ toDart \in Seq(Message)
        /\ stopped' = stopped /\ queued \in Seq(Requests)
        /\ queued' = IF Head(toDart).kind = "stopped" THEN Append(queued, Head(toDart).of) ELSE queued
    BY <1>1, <1>3 DEF Receive, RecorderTypeOK, ScreenTypeOK, stampVars
  <2>2. Head(toDart).kind = "stopped" => Head(toDart).of \in Requests
    BY <1>1, <2>1, MessageFacts
  <2>3. Accounted(toDart, queued, stopped)
    BY QueuedIsAccounted
  <2>4. /\ Head(toDart).kind # "stopped" => Accounted(Tail(toDart), queued, stopped)
        /\ Head(toDart).kind = "stopped" =>
             Accounted(Tail(toDart), Append(queued, Head(toDart).of), stopped)
    BY <2>1, <2>2, <2>3, AccountedTail
  <2>5. Accounted(toDart', queued', stopped')
    BY <2>1, <2>4
  <2>6. QED
    BY <2>5 DEF EveryRecordingIsQueued, Accounted, ResultsIn, Results
<1>4. CASE \/ PressStop \/ (\E p \in Profiles : ChooseProfile(p))
           \/ (\E r \in Requests : PressRecord(r) \/ Siri(r) \/ FilesWritten(r) \/ FilesFail(r))
           \/ UNCHANGED benchVars
  <2>1. UNCHANGED <<toDart, stopped, queued>>
    BY <1>4 DEF PressStop, ChooseProfile, PressRecord, FilesWritten, FilesFail, Siri, Trigger,
                benchVars, recorderVars, stampVars, eventVars, screenVars
  <2>2. QED
    BY <2>1 DEF EveryRecordingIsQueued, Results
<1>5. QED
  BY <1>1, <1>2, <1>3, <1>4, RecorderKeepsAccount, HandleKeepsAccount DEF BenchNext

-----------------------------------------------------------------------------
(* The theorems.                                                           *)

RecorderInv ==
  /\ ScreenTypeOK
  /\ RecorderIsConsistent
  /\ RequestsOnce
  /\ StampsInv
  /\ IntentOnce
  /\ FlagFollows
  /\ EveryRecordingIsQueued

LEMMA RecorderInitially == BenchInit => RecorderInv
<1> SUFFICES ASSUME BenchInit PROVE RecorderInv
  OBVIOUS
<1> USE RecorderAssumption DEF BenchInit, RecorderInit
<1>1. ScreenTypeOK
  BY EmptySeq DEF ScreenTypeOK, RecorderTypeOK, Maybe, NoStamps
<1>2. RecorderIsConsistent /\ RequestsOnce
  BY DEF RecorderIsConsistent, RequestsOnce, CallsOnce, CallsApart, BlocksOnce, BlocksApart,
         RestApart
<1>3. StampsInv /\ IntentOnce
  BY DEF StampsInv, StoppedFileIsFinal, OfStarted, OwnBlocks, OwnStamp, StampedOwn, IntentOnce
<1>4. FlagFollows
  BY LeadsNowhere DEF FlagFollows, Shown
<1>5. EveryRecordingIsQueued
  <2>1. Results = {} /\ DOMAIN queued = {} /\ stopped = {}
    BY DEF Results
  <2>2. QED
    BY <2>1 DEF EveryRecordingIsQueued
<1>6. QED
  BY <1>1, <1>2, <1>3, <1>4, <1>5 DEF RecorderInv

\* All parts of the invariant hold throughout, for any number of requests.
THEOREM RecorderInvariant == BenchSpec => []RecorderInv
<1>1. RecorderInv /\ [BenchNext]_benchVars => RecorderInv'
  BY TypedStep, OnceStep, StampsStep, IntentStep, FlagStep, QueueStep DEF RecorderInv
<1>2. QED
  BY <1>1, RecorderInitially, PTL DEF BenchSpec

\* The variables of recorder and screen keep their types.
THEOREM RecorderTypes == BenchSpec => []ScreenTypeOK
<1>1. RecorderInv => ScreenTypeOK
  BY DEF RecorderInv
<1>2. QED
  BY <1>1, RecorderInvariant, PTL

\* Tap, file and label belong to the active capture, whatever overlaps or fails.
THEOREM RecorderStaysConsistent == BenchSpec => []RecorderIsConsistent
<1>1. RecorderInv => RecorderIsConsistent
  BY DEF RecorderInv
<1>2. QED
  BY <1>1, RecorderInvariant, PTL

\* No late callback writes to a file whose stop has returned.
THEOREM StoppedFilesAreFinal == BenchSpec => []StoppedFileIsFinal
<1>1. RecorderInv => StoppedFileIsFinal
  BY DEF RecorderInv, StampsInv
<1>2. QED
  BY <1>1, RecorderInvariant, PTL

\* A capture that began alone and heard its own buffer bears its stamp, and no
\* two captures the time of one intent.
THEOREM StampsStayOwn == BenchSpec => []StampsAreOwn
<1>1. RecorderInv => StampsAreOwn
  BY DEF RecorderInv, StampsInv, StampedOwn, IntentOnce, StampsAreOwn
<1>2. QED
  BY <1>1, RecorderInvariant, PTL

\* With no message on its way the button tells whether something records, but for
\* a capture under which a failed file protection has reset the flag.
THEOREM ScreenComesToAgree == BenchSpec => []ScreenAgrees
<1>1. RecorderInv => ScreenAgrees
  <2> SUFFICES ASSUME FlagFollows, listening, toDart = << >>
               PROVE  /\ recording => active # None
                      /\ active # None /\ ~ recording => active = hidden
    BY DEF RecorderInv, ScreenAgrees
  <2>1. Leads(<< >>, Shown, active # None)
    BY DEF FlagFollows
  <2>2. Shown <=> active # None
    BY <2>1 DEF Leads
  <2>3. QED
    BY <2>2 DEF Shown
<1>2. QED
  BY <1>1, RecorderInvariant, PTL

\* Every stopped capture is queued once or its result is on the way.
THEOREM RecordingsAreQueued == BenchSpec => []EveryRecordingIsQueued
<1>1. RecorderInv => EveryRecordingIsQueued
  BY DEF RecorderInv
<1>2. QED
  BY <1>1, RecorderInvariant, PTL

-----------------------------------------------------------------------------
(* The order of the recordings.                                            *)

WaitingIn(s) == {s[i].of : i \in ResultsIn(s)}
EndedIn(s) ==
  {p \in WaitingIn(s) \X WaitingIn(s) :
     \E i, j \in ResultsIn(s) : i < j /\ p = <<s[i].of, s[j].of>>}

LEMMA OrderIsIn == Waiting = WaitingIn(toDart) /\ EndedBefore = EndedIn(toDart)
  BY DEF Waiting, EndedBefore, WaitingIn, EndedIn, ResultsIn, Results

\* A message that is no result leaves the order alone.
LEMMA OrderOn ==
  ASSUME NEW S, NEW s \in Seq(S), NEW m \in S, m.kind # "stopped"
  PROVE  WaitingIn(Append(s, m)) = WaitingIn(s) /\ EndedIn(Append(s, m)) = EndedIn(s)
<1> DEFINE t == Append(s, m)
<1>1. /\ Len(s) \in Nat /\ DOMAIN s = 1 .. Len(s) /\ DOMAIN t = 1 .. Len(s) + 1
      /\ \A i \in 1 .. Len(s) : t[i] = s[i]
      /\ t[Len(s) + 1] = m
  BY Appended
<1> HIDE DEF t
<1>2. ResultsIn(t) = ResultsIn(s) /\ \A i \in ResultsIn(s) : t[i] = s[i]
  BY <1>1 DEF ResultsIn
<1>3. WaitingIn(t) = WaitingIn(s)
  BY <1>2 DEF WaitingIn
<1>4. EndedIn(t) = EndedIn(s)
  BY <1>2, <1>3 DEF EndedIn
<1>5. QED
  BY <1>3, <1>4 DEF t

\* A result comes after all that wait.
LEMMA OrderMore ==
  ASSUME NEW S, NEW s \in Seq(S), NEW m \in S, m.kind = "stopped"
  PROVE  /\ WaitingIn(Append(s, m)) = WaitingIn(s) \cup {m.of}
         /\ EndedIn(Append(s, m)) = EndedIn(s) \cup (WaitingIn(s) \X {m.of})
<1> DEFINE t == Append(s, m)
           n == Len(s) + 1
<1>1. /\ Len(s) \in Nat /\ DOMAIN s = 1 .. Len(s) /\ DOMAIN t = 1 .. n
      /\ \A i \in 1 .. Len(s) : t[i] = s[i]
      /\ t[n] = m
  BY Appended
<1>2. n \in Int /\ \A i \in 1 .. Len(s) : i \in Int /\ i < n
  BY <1>1
<1> HIDE DEF t, n
<1>3. /\ ResultsIn(t) = ResultsIn(s) \cup {n}
      /\ \A i \in ResultsIn(s) : t[i] = s[i] /\ i \in Int /\ i < n
  <2>1. \A i \in 1 .. n : i \in 1 .. Len(s) \/ i = n
    BY <1>1 DEF n
  <2>2. 1 .. Len(s) \subseteq 1 .. n /\ n \in 1 .. n
    BY <1>1 DEF n
  <2>3. QED
    BY <1>1, <1>2, <2>1, <2>2 DEF ResultsIn
<1>4. WaitingIn(t) = WaitingIn(s) \cup {m.of}
  BY <1>1, <1>3 DEF WaitingIn
<1>5. ASSUME NEW p \in EndedIn(t)
      PROVE  p \in EndedIn(s) \cup (WaitingIn(s) \X {m.of})
  <2>1. PICK i \in ResultsIn(t), j \in ResultsIn(t) : i < j /\ p = <<t[i].of, t[j].of>>
    BY <1>5 DEF EndedIn
  <2>2. i \in ResultsIn(s)
    BY <1>2, <1>3, <2>1
  <2>3. CASE j = n
    BY <1>1, <1>3, <2>1, <2>2, <2>3 DEF WaitingIn
  <2>4. CASE j \in ResultsIn(s)
    BY <1>3, <2>1, <2>2, <2>4 DEF EndedIn, WaitingIn
  <2>5. QED
    BY <1>3, <2>1, <2>3, <2>4
<1>6. ASSUME NEW p \in EndedIn(s)
      PROVE  p \in EndedIn(t)
  <2>1. PICK i \in ResultsIn(s), j \in ResultsIn(s) : i < j /\ p = <<s[i].of, s[j].of>>
    BY <1>6 DEF EndedIn
  <2>2. i \in ResultsIn(t) /\ j \in ResultsIn(t) /\ p = <<t[i].of, t[j].of>>
    BY <1>3, <2>1
  <2>3. QED
    BY <2>1, <2>2 DEF EndedIn, WaitingIn
<1>7. ASSUME NEW p \in WaitingIn(s) \X {m.of}
      PROVE  p \in EndedIn(t)
  <2>1. PICK i \in ResultsIn(s) : p = <<s[i].of, m.of>>
    BY <1>7 DEF WaitingIn
  <2>2. i \in ResultsIn(t) /\ n \in ResultsIn(t) /\ i < n /\ p = <<t[i].of, t[n].of>>
    BY <1>1, <1>3, <2>1
  <2>3. QED
    BY <2>2 DEF EndedIn, WaitingIn
<1>8. EndedIn(t) = EndedIn(s) \cup (WaitingIn(s) \X {m.of})
  BY <1>5, <1>6, <1>7
<1>9. QED
  BY <1>4, <1>8 DEF t

\* Taking the first message off: a result that is first has none before it.
LEMMA OrderTail ==
  ASSUME NEW S, NEW s \in Seq(S), s # << >>,
         \A i, j \in ResultsIn(s) : s[i].of = s[j].of => i = j
  PROVE  /\ Head(s).kind # "stopped" =>
              WaitingIn(Tail(s)) = WaitingIn(s) /\ EndedIn(Tail(s)) = EndedIn(s)
         /\ Head(s).kind = "stopped" =>
              LET c == Head(s).of IN
                /\ c \in WaitingIn(s)
                /\ \A e \in WaitingIn(s) : <<e, c>> \notin EndedIn(s)
                /\ WaitingIn(Tail(s)) = WaitingIn(s) \ {c}
                /\ EndedIn(Tail(s)) = {p \in EndedIn(s) : c \notin {p[1], p[2]}}
<1> DEFINE t == Tail(s)
           c == Head(s).of
<1>1. /\ Head(s) = s[1]
      /\ Len(s) \in Nat \ {0} /\ DOMAIN s = 1 .. Len(s)
      /\ DOMAIN t = 1 .. Len(s) - 1
      /\ \A i \in 1 .. Len(s) - 1 : t[i] = s[i + 1]
  BY Tailed
<1> HIDE DEF t
<1>2. \A i \in ResultsIn(t) : i \in Nat \ {0} /\ i + 1 \in ResultsIn(s) /\ t[i] = s[i + 1]
  BY <1>1 DEF ResultsIn
<1>3. \A j \in ResultsIn(s) : j # 1 =>
        j \in Nat \ {0} /\ j - 1 \in ResultsIn(t) /\ t[j - 1] = s[j]
  <2> SUFFICES ASSUME NEW j \in ResultsIn(s), j # 1
               PROVE  j \in Nat \ {0} /\ j - 1 \in ResultsIn(t) /\ t[j - 1] = s[j]
    OBVIOUS
  <2>1. j \in 1 .. Len(s) /\ s[j].kind = "stopped"
    BY <1>1 DEF ResultsIn
  <2>2. j - 1 \in 1 .. Len(s) - 1 /\ (j - 1) + 1 = j /\ j \in Nat \ {0}
    BY <1>1, <2>1
  <2>3. QED
    BY <1>1, <2>1, <2>2 DEF ResultsIn
<1>4. \A j \in ResultsIn(s) : j \in Nat \ {0}
  BY <1>1 DEF ResultsIn
<1>5. 1 \in ResultsIn(s) <=> Head(s).kind = "stopped"
  BY <1>1 DEF ResultsIn
<1>6. \A e : e \in WaitingIn(t) <=> \E j \in ResultsIn(s) : j # 1 /\ e = s[j].of
  <2>1. ASSUME NEW i \in ResultsIn(t)
        PROVE  i + 1 \in ResultsIn(s) /\ i + 1 # 1 /\ t[i].of = s[i + 1].of
    BY <1>2
  <2>2. QED
    BY <1>3, <2>1 DEF WaitingIn
<1>7. \A p : p \in EndedIn(t) <=>
        \E i, j \in ResultsIn(s) : i # 1 /\ j # 1 /\ i < j /\ p = <<s[i].of, s[j].of>>
  <2>1. ASSUME NEW i \in ResultsIn(t), NEW j \in ResultsIn(t), i < j
        PROVE  /\ i + 1 \in ResultsIn(s) /\ i + 1 # 1 /\ t[i].of = s[i + 1].of
               /\ j + 1 \in ResultsIn(s) /\ j + 1 # 1 /\ t[j].of = s[j + 1].of
               /\ i + 1 < j + 1
    BY <1>2, <2>1
  <2>2. ASSUME NEW i \in ResultsIn(s), NEW j \in ResultsIn(s), i # 1, j # 1, i < j
        PROVE  /\ i - 1 \in ResultsIn(t) /\ t[i - 1].of = s[i].of
               /\ j - 1 \in ResultsIn(t) /\ t[j - 1].of = s[j].of
               /\ i - 1 < j - 1
    BY <1>3, <2>2
  <2>3. \A p : p \in EndedIn(t) <=> \E i, j \in ResultsIn(t) : i < j /\ p = <<t[i].of, t[j].of>>
    BY DEF EndedIn, WaitingIn
  <2>4. ASSUME NEW p, p \in EndedIn(t)
        PROVE  \E i, j \in ResultsIn(s) : i # 1 /\ j # 1 /\ i < j /\ p = <<s[i].of, s[j].of>>
    <3>1. PICK i \in ResultsIn(t), j \in ResultsIn(t) : i < j /\ p = <<t[i].of, t[j].of>>
      BY <2>3, <2>4
    <3>2. QED
      BY <2>1, <3>1
  <2>5. ASSUME NEW p, NEW i \in ResultsIn(s), NEW j \in ResultsIn(s),
               i # 1, j # 1, i < j, p = <<s[i].of, s[j].of>>
        PROVE  p \in EndedIn(t)
    <3>1. \E k, l \in ResultsIn(t) : k < l /\ p = <<t[k].of, t[l].of>>
      BY <2>2, <2>5
    <3>2. QED
      BY <2>3, <3>1
  <2>6. QED
    BY <2>4, <2>5
<1>8. /\ \A e : e \in WaitingIn(s) <=> \E j \in ResultsIn(s) : e = s[j].of
      /\ \A p : p \in EndedIn(s) <=> \E i, j \in ResultsIn(s) : i < j /\ p = <<s[i].of, s[j].of>>
  BY DEF WaitingIn, EndedIn
<1>9. CASE Head(s).kind # "stopped"
  <2>1. \A j \in ResultsIn(s) : j # 1
    BY <1>5, <1>9
  <2>2. WaitingIn(t) = WaitingIn(s)
    <3>1. \A e : e \in WaitingIn(t) <=> e \in WaitingIn(s)
      BY <1>6, <1>8, <2>1
    <3>2. QED
      BY <3>1
  <2>3. EndedIn(t) = EndedIn(s)
    <3>1. \A p : p \in EndedIn(t) <=> p \in EndedIn(s)
      BY <1>7, <1>8, <2>1
    <3>2. QED
      BY <3>1 DEF EndedIn
  <2>4. QED
    BY <1>9, <2>2, <2>3 DEF t
<1>10. CASE Head(s).kind = "stopped"
  <2>1. 1 \in ResultsIn(s) /\ s[1].of = c
    BY <1>1, <1>5, <1>10
  <2> HIDE DEF c
  <2>2. \A j \in ResultsIn(s) : s[j].of = c <=> j = 1
    BY <2>1
  <2>3. c \in WaitingIn(s)
    BY <1>8, <2>1
  <2>4. \A e \in WaitingIn(s) : <<e, c>> \notin EndedIn(s)
    <3> SUFFICES ASSUME NEW e \in WaitingIn(s), <<e, c>> \in EndedIn(s) PROVE FALSE
      OBVIOUS
    <3>1. PICK i \in ResultsIn(s), j \in ResultsIn(s) : i < j /\ <<e, c>> = <<s[i].of, s[j].of>>
      BY <1>8
    <3>2. j = 1
      BY <2>2, <3>1
    <3>3. QED
      BY <1>4, <3>1, <3>2
  <2>5. WaitingIn(t) = WaitingIn(s) \ {c}
    BY <1>6, <1>8, <2>2
  <2>6. EndedIn(t) = {p \in EndedIn(s) : c \notin {p[1], p[2]}}
    <3>1. ASSUME NEW p, p \in EndedIn(t)
          PROVE  p \in EndedIn(s) /\ c \notin {p[1], p[2]}
      <4>1. PICK i \in ResultsIn(s), j \in ResultsIn(s) :
              i # 1 /\ j # 1 /\ i < j /\ p = <<s[i].of, s[j].of>>
        BY <1>7, <3>1
      <4>2. p \in EndedIn(s)
        BY <1>8, <4>1
      <4>3. s[i].of # c /\ s[j].of # c
        BY <2>2, <4>1
      <4>4. p[1] = s[i].of /\ p[2] = s[j].of
        BY <4>1
      <4>5. QED
        BY <4>2, <4>3, <4>4
    <3>2. ASSUME NEW p \in EndedIn(s), c \notin {p[1], p[2]}
          PROVE  p \in EndedIn(t)
      <4>1. PICK i \in ResultsIn(s), j \in ResultsIn(s) : i < j /\ p = <<s[i].of, s[j].of>>
        BY <1>8
      <4>2. s[i].of # c /\ s[j].of # c
        BY <3>2, <4>1
      <4>3. i # 1 /\ j # 1
        BY <2>1, <4>2
      <4>4. QED
        BY <1>7, <4>1, <4>3
    <3>3. QED
      BY <3>1, <3>2
  <2>7. QED
    BY <1>10, <2>3, <2>4, <2>5, <2>6 DEF t, c
<1>11. QED
  BY <1>9, <1>10

\* What the order is made of.
recordingVars == <<active, toDart, queued>>

LEMMA OrderStands ==
  ASSUME UNCHANGED recordingVars
  PROVE  UNCHANGED <<active, Waiting, EndedBefore, queued>>
  BY OrderIsIn DEF recordingVars, Waiting, EndedBefore, Results

\* A message that is no result, and nothing started or stopped.
LEMMA OthersKeepOrder ==
  ASSUME toDart \in Seq(Message), NEW e \in Message, NEW m \in Message,
         e.kind # "stopped", m.kind # "stopped",
         toDart' \in {toDart, Append(toDart, e), Append(toDart, m), Append(Append(toDart, e), m)}
  PROVE  UNCHANGED <<Waiting, EndedBefore>>
<1>1. Append(toDart, e) \in Seq(Message)
  OBVIOUS
<1>2. /\ WaitingIn(Append(toDart, e)) = WaitingIn(toDart)
      /\ EndedIn(Append(toDart, e)) = EndedIn(toDart)
      /\ WaitingIn(Append(toDart, m)) = WaitingIn(toDart)
      /\ EndedIn(Append(toDart, m)) = EndedIn(toDart)
  BY OrderOn
<1>3. /\ WaitingIn(Append(Append(toDart, e), m)) = WaitingIn(Append(toDart, e))
      /\ EndedIn(Append(Append(toDart, e), m)) = EndedIn(Append(toDart, e))
  BY <1>1, OrderOn
<1>4. WaitingIn(toDart') = WaitingIn(toDart) /\ EndedIn(toDart') = EndedIn(toDart)
  BY <1>2, <1>3
<1>5. Waiting' = WaitingIn(toDart') /\ EndedBefore' = EndedIn(toDart')
  BY DEF Waiting, EndedBefore, WaitingIn, EndedIn, ResultsIn, Results
<1>6. QED
  BY <1>4, <1>5, OrderIsIn

LEMMA StartBegins ==
  ASSUME RecorderInv, NEW r \in Requests, RecorderSteps(r), UNCHANGED screenVars
  PROVE  Recordings!Begin(r) \/ UNCHANGED <<active, Waiting, EndedBefore, queued>>
<1> DEFINE e == [kind |-> "captureStarted", of |-> r]
           m == [kind |-> "started", of |-> r]
           n == [kind |-> "notStarted", of |-> r]
<1>1. /\ e \in Event /\ m \in Message /\ n \in Message /\ e \in Message
      /\ e.kind # "stopped" /\ m.kind # "stopped" /\ n.kind # "stopped"
  BY ScreenMessages
<1>2. RecorderTypeOK /\ toDart \in Seq(Message)
  BY DEF RecorderInv, ScreenTypeOK, RecorderTypeOK
<1>3. queued' = queued
  BY DEF screenVars
<1>4. CASE Start(r)
  <2>1. Told(<<e>>, << >>) \/ Told(<<e>>, <<m>>)
    BY <1>4 DEF Start, ReplyTo
  <2>2. IsNext(r, "granted") /\ active = None /\ active' = r
    BY <1>4 DEF Start
  <2> HIDE DEF e, m, n
  <2>3. toDart' \in {toDart, Append(toDart, e), Append(toDart, m), Append(Append(toDart, e), m)}
    BY <1>1, <1>2, <2>1, ToldFacts DEF RecorderTypeOK
  <2>4. UNCHANGED <<Waiting, EndedBefore>>
    BY <1>1, <1>2, <2>3, OthersKeepOrder
  <2>5. r \notin stopped
    <3>1. Len(main) \in Nat \ {0} /\ DOMAIN main = 1 .. Len(main) /\ main[1] = [kind |-> "granted", of |-> r]
      BY <1>2, <2>2, NextTaken
    <3>2. 1 \in DOMAIN main /\ IsStart(main[1]) /\ main[1].of = r
      BY <3>1 DEF IsStart
    <3>3. QED
      BY <3>2 DEF RecorderInv, RequestsOnce, BlocksApart
  <2>6. r \notin Waiting \cup Recordings!HandedOn
    BY <2>5 DEF RecorderInv, EveryRecordingIsQueued, Waiting, Recordings!HandedOn
  <2>7. QED
    BY <1>3, <2>2, <2>4, <2>6 DEF Recordings!Begin
<1>5. CASE StartFails(r) \/ Denied(r)
  <2>1. Told(<< >>, << >>) \/ Told(<< >>, <<n>>)
    BY <1>5 DEF StartFails, Denied, ReplyTo
  <2>2. active' = active
    BY <1>5 DEF StartFails, Denied, engineVars
  <2> HIDE DEF e, m, n
  <2>3. toDart' \in {toDart, Append(toDart, n)}
    BY <1>1, <1>2, <2>1, ToldFacts
  <2>4. UNCHANGED <<Waiting, EndedBefore>>
    BY <1>1, <1>2, <2>3, OthersKeepOrder
  <2>5. QED
    BY <1>3, <2>2, <2>4
<1>6. CASE \/ PermissionAnswered(r) \/ CallbackBegins(r) \/ CallbackReads(r) \/ CallbackStamps(r)
           \/ CallbackWrites(r) \/ StampFirstBuffer(r)
  <2>1. UNCHANGED recordingVars
    BY <1>6
    DEF PermissionAnswered, CallbackBegins, CallbackReads, CallbackStamps, CallbackWrites,
        StampFirstBuffer, engineVars, eventVars, screenVars, recordingVars
  <2>2. QED
    BY <2>1, OrderStands
<1>7. QED
  BY <1>4, <1>5, <1>6 DEF RecorderSteps

LEMMA HandleEnds ==
  ASSUME RecorderInv, Handle
  PROVE  Recordings!End \/ UNCHANGED <<active, Waiting, EndedBefore, queued>>
<1> USE RecorderAssumption
<1>1. ScreenTypeOK /\ RecorderTypeOK /\ queued' = queued /\ toDart \in Seq(Message)
  BY DEF RecorderInv, ScreenTypeOK, Handle, RecorderTypeOK
<1>2. listening /\ pendingEvents = << >>
  BY DEF Handle, RecorderInv, FlagFollows
<1>3. CASE (\E r \in Requests : AskToStart(r)) \/ (\E p : Configure(p))
  <2>1. UNCHANGED recordingVars
    BY <1>1, <1>3 DEF AskToStart, Configure, engineVars, eventVars, recordingVars
  <2>2. QED
    BY <2>1, OrderStands
<1>4. CASE Stop
  <2> DEFINE e == [kind |-> "captureStopped", of |-> active]
             m == [kind |-> "stopped", of |-> active]
  <2>1. active \in Requests /\ active # None /\ active' = None /\ Told(<<e>>, <<m>>)
    BY <1>1, <1>4 DEF Stop, RecorderTypeOK, Maybe
  <2>2. /\ e \in Event /\ e \in Message /\ m \in Message
        /\ e.kind # "stopped" /\ m.kind = "stopped" /\ m.of = active
    BY <2>1, ScreenMessages
  <2> HIDE DEF e, m
  <2>3. toDart' = Append(Append(toDart, e), m)
    BY <1>1, <1>2, <2>1, <2>2, ToldFacts
  <2>4. Append(toDart, e) \in Seq(Message)
    BY <1>1, <2>2
  <2>5. /\ WaitingIn(Append(toDart, e)) = Waiting /\ EndedIn(Append(toDart, e)) = EndedBefore
    BY <1>1, <2>2, OrderOn, OrderIsIn
  <2>6. /\ WaitingIn(toDart') = Waiting \cup {active}
        /\ EndedIn(toDart') = EndedBefore \cup (Waiting \X {active})
    <3> DEFINE s == Append(toDart, e)
    <3>1. s \in Seq(Message) /\ m \in Message /\ m.kind = "stopped"
      BY <2>2, <2>4
    <3> HIDE DEF s
    <3>2. /\ WaitingIn(Append(s, m)) = WaitingIn(s) \cup {m.of}
          /\ EndedIn(Append(s, m)) = EndedIn(s) \cup (WaitingIn(s) \X {m.of})
      BY <3>1, OrderMore
    <3>3. toDart' = Append(s, m) /\ WaitingIn(s) = Waiting /\ EndedIn(s) = EndedBefore /\ m.of = active
      BY <2>2, <2>3, <2>5 DEF s
    <3>4. QED
      BY <3>2, <3>3
  <2>7. Waiting' = WaitingIn(toDart') /\ EndedBefore' = EndedIn(toDart')
    BY DEF Waiting, EndedBefore, WaitingIn, EndedIn, ResultsIn, Results
  <2>8. QED
    BY <1>1, <2>1, <2>6, <2>7 DEF Recordings!End
<1>5. CASE NotCapturing
  <2> DEFINE m == [kind |-> "notStopped", of |-> None]
  <2>1. Told(<< >>, <<m>>) /\ active' = active /\ m \in Message /\ m.kind # "stopped"
    BY <1>5 DEF NotCapturing, engineVars, Message, Reply
  <2> HIDE DEF m
  <2>2. toDart' = Append(toDart, m)
    <3>1. toDart \o << >> = toDart /\ toDart \o <<m>> = Append(toDart, m)
      BY <1>1, <2>1, Appended, ConcatEmptySeq
    <3>2. QED
      BY <1>2, <2>1, <3>1 DEF Told
  <2>3. UNCHANGED <<Waiting, EndedBefore>>
    BY <1>1, <2>1, <2>2, OthersKeepOrder
  <2>4. QED
    BY <1>1, <2>1, <2>3
<1>6. CASE \E c \in Requests : Protect(c)
  <2>1. PICK c \in Requests, k \in {"protected", "notProtected"} :
          Told(<< >>, <<[kind |-> k, of |-> c]>>) /\ active' = active
    BY <1>6 DEF Protect, engineVars
  <2> DEFINE m == [kind |-> k, of |-> c]
  <2>2. m \in Message /\ m.kind # "stopped"
    BY DEF Message, Reply
  <2> HIDE DEF m
  <2>3. toDart' = Append(toDart, m)
    BY <1>1, <2>1, <2>2, AnsweredFacts DEF m
  <2>4. UNCHANGED <<Waiting, EndedBefore>>
    BY <1>1, <2>2, <2>3, OthersKeepOrder
  <2>5. QED
    BY <1>1, <2>1, <2>4
<1>7. QED
  BY <1>1, <1>3, <1>4, <1>5, <1>6, CallFacts DEF Handle

LEMMA ReceiveHandsOn ==
  ASSUME RecorderInv, Receive
  PROVE  \/ \E r \in Requests : Recordings!HandOn(r)
         \/ UNCHANGED <<active, Waiting, EndedBefore, queued>>
<1>1. /\ toDart # << >> /\ toDart' = Tail(toDart) /\ toDart \in Seq(Message)
      /\ active' = active
      /\ queued' = IF Head(toDart).kind = "stopped" THEN Append(queued, Head(toDart).of) ELSE queued
  BY DEF Receive, RecorderInv, RecorderTypeOK, ScreenTypeOK, engineVars
<1>2. Head(toDart).kind = "stopped" => Head(toDart).of \in Requests
  BY <1>1, MessageFacts DEF RecorderInv, ScreenTypeOK
<1>3. \A i, j \in ResultsIn(toDart) : toDart[i].of = toDart[j].of => i = j
  BY DEF RecorderInv, EveryRecordingIsQueued, Results, ResultsIn
<1>4. Waiting' = WaitingIn(Tail(toDart)) /\ EndedBefore' = EndedIn(Tail(toDart))
  BY <1>1 DEF Waiting, EndedBefore, WaitingIn, EndedIn, ResultsIn, Results
<1>5. CASE Head(toDart).kind # "stopped"
  <2>1. WaitingIn(Tail(toDart)) = WaitingIn(toDart) /\ EndedIn(Tail(toDart)) = EndedIn(toDart)
    BY <1>1, <1>3, <1>5, OrderTail
  <2>2. QED
    BY <1>1, <1>4, <1>5, <2>1, OrderIsIn
<1>6. CASE Head(toDart).kind = "stopped"
  <2> DEFINE c == Head(toDart).of
  <2>1. /\ c \in WaitingIn(toDart)
        /\ \A e \in WaitingIn(toDart) : <<e, c>> \notin EndedIn(toDart)
        /\ WaitingIn(Tail(toDart)) = WaitingIn(toDart) \ {c}
        /\ EndedIn(Tail(toDart)) = {p \in EndedIn(toDart) : c \notin {p[1], p[2]}}
    BY <1>1, <1>3, <1>6, OrderTail
  <2>2. c \in Requests /\ queued' = Append(queued, c)
    BY <1>1, <1>2, <1>6
  <2> HIDE DEF c
  <2>3. Recordings!HandOn(c)
    BY <1>1, <1>4, <2>1, <2>2, OrderIsIn DEF Recordings!HandOn
  <2>4. QED
    BY <2>2, <2>3
<1>7. QED
  BY <1>5, <1>6

\* Recorder, channel and screen hand every recording on once, in the order of the
\* stops, whatever events, results and late callbacks come in between.
THEOREM RecorderKeepsOrder == BenchSpec => ImplementsRecordingOrder
<1>1. BenchInit => Recordings!AbsInit
  <2> SUFFICES ASSUME BenchInit PROVE Recordings!AbsInit
    OBVIOUS
  <2>1. active = None /\ toDart = << >> /\ queued = << >>
    BY DEF BenchInit, RecorderInit
  <2>2. Results = {}
    BY <2>1 DEF Results
  <2>3. QED
    BY <2>1, <2>2 DEF Recordings!AbsInit, Waiting, EndedBefore
<1>2. RecorderInv /\ [BenchNext]_benchVars => [Recordings!AbsNext]_(Recordings!absVars)
  <2> SUFFICES ASSUME RecorderInv, [BenchNext]_benchVars
               PROVE  Recordings!AbsNext \/ UNCHANGED <<active, Waiting, EndedBefore, queued>>
    BY DEF Recordings!absVars
  <2>1. CASE Bootstrap
    <3>1. /\ RecorderTypeOK /\ toDart = << >> /\ toDart' = pendingEvents
          /\ UNCHANGED <<active, queued>>
      BY <2>1, ConcatEmptySeq
      DEF Bootstrap, Listen, RecorderInv, ScreenTypeOK, FlagFollows, RecorderTypeOK, engineVars,
          screenVars
    <3>2. \A i \in DOMAIN pendingEvents : pendingEvents[i].kind # "stopped"
      <4>1. \A i \in DOMAIN pendingEvents : pendingEvents[i] \in Event
        BY <3>1 DEF RecorderTypeOK
      <4>2. QED
        BY <4>1 DEF Event
    <3>3. Results' = {} /\ Results = {}
      BY <3>1, <3>2 DEF Results
    <3>4. Waiting = {} /\ Waiting' = {} /\ EndedBefore = {} /\ EndedBefore' = {}
      BY <3>3 DEF Waiting, EndedBefore
    <3>5. QED
      BY <3>1, <3>4
  <2>2. CASE Receive
    BY <2>2, ReceiveHandsOn DEF Recordings!AbsNext
  <2>3. CASE Handle
    BY <2>3, HandleEnds DEF Recordings!AbsNext
  <2>4. CASE \E r \in Requests : RecorderSteps(r) /\ UNCHANGED screenVars
    BY <2>4, StartBegins DEF Recordings!AbsNext
  <2>5. CASE \/ PressStop \/ (\E p \in Profiles : ChooseProfile(p))
             \/ (\E r \in Requests : PressRecord(r) \/ Siri(r) \/ FilesWritten(r) \/ FilesFail(r))
             \/ UNCHANGED benchVars
    <3>1. UNCHANGED recordingVars
      BY <2>5 DEF PressStop, ChooseProfile, PressRecord, FilesWritten, FilesFail, Siri, Trigger, benchVars, recorderVars,
                  engineVars, eventVars, screenVars, recordingVars
    <3>2. QED
      BY <3>1, OrderStands
  <2>6. QED
    BY <2>1, <2>2, <2>3, <2>4, <2>5 DEF BenchNext
<1>3. QED
  BY <1>1, <1>2, RecorderInvariant, PTL DEF BenchSpec, ImplementsRecordingOrder, Recordings!AbsSpec
=============================================================================
