---------------------------- MODULE FrontEndProofs ----------------------------
(* The conversation of the playground and a form of system settings, for any *)
(* number of requests, clicks, fields and values.                            *)
EXTENDS MCFrontEnd, SequenceTheorems, TLAPS

USE PlaygroundAssumption

-----------------------------------------------------------------------------
(* The playground. *)

Message == [key : Nat, from : {"user", "assistant"},
            status : {"none", "loading", "streaming", "complete", "error"},
            text : BOOLEAN, parts : SUBSET Nat]
Request == [key : Nat, at : {"open", "closed", "ended"}]

Typed ==
    /\ messages \in Seq(Message) /\ view.messages \in Seq(Message)
    /\ requests \in Seq(Request) /\ source \in Nat /\ clicks \in Nat

\* What m shows came with requests that were sent for it.
Own(m) == \A r \in m.parts : r \in DOMAIN requests /\ requests[r].key = m.key

OwnShown ==
    /\ \A i \in DOMAIN messages : Own(messages[i])
    /\ \A i \in DOMAIN view.messages : Own(view.messages[i])

\* Only the last request can be open, and its message is the last one; a stream that is
\* open is the one the hook holds.
LastOpen ==
    \A r \in DOMAIN requests : Open(r) =>
        /\ r = Len(requests)
        /\ messages # <<>> /\ Last(messages).from = "assistant"
        /\ Last(messages).key = requests[r].key
        /\ stream => source = r /\ ~complete

\* A stream that is held is rendered as one.
HeldIsShown == source # 0 => stream /\ view.generating

\* What was rendered without Stop has no answer to wait for.
Waiting ==
    /\ \A i \in DOMAIN messages :
          Unsettled(messages[i]) =>
             i = Len(messages) /\ source # 0 /\ messages[i].from = "assistant"
    /\ ~view.generating => \A i \in DOMAIN view.messages : ~Unsettled(view.messages[i])

PInv ==
    /\ Typed
    /\ ~overlap => OwnShown /\ LastOpen /\ HeldIsShown
    /\ ~overlap /\ stream => Waiting

-----------------------------------------------------------------------------

LEMMA PlaygroundInit == Init => PInv
BY DEF Init, PInv, Typed, OwnShown, LastOpen, HeldIsShown, Waiting

LEMMA Convs ==
    /\ \A k \in Nat : User(k) \in Message /\ Loading(k) \in Message
    /\ messages \in Seq(Message) => Current \in Message
<1>1. \A k \in Nat : User(k) \in Message /\ Loading(k) \in Message
  BY DEF User, Loading, Message
<1>2. ASSUME messages \in Seq(Message), messages # <<>> PROVE Last(messages) \in Message
  BY <1>2 DEF Last
<1> QED BY <1>1, <1>2 DEF Current

\* Only the last message is updated.
LEMMA Updated ==
    ASSUME messages \in Seq(Message), NEW m \in Message
    PROVE  /\ LastUpdated(m) \in Seq(Message) /\ Len(LastUpdated(m)) = Len(messages)
           /\ DOMAIN LastUpdated(m) = DOMAIN messages
           /\ \A i \in DOMAIN messages :
                 LastUpdated(m)[i] = IF i = Len(messages) /\ messages[i].from = "assistant"
                                     THEN m ELSE messages[i]
           /\ \A i \in DOMAIN messages : i = Len(messages) => Current = messages[i]
BY DEF LastUpdated, Current, Last

\* A message taken from what was rendered, as it was or without its parts, or a new one.
FromShown(m) ==
    \/ m.parts = {} /\ ~Unsettled(m)
    \/ \E j \in DOMAIN view.messages :
          /\ m.key = view.messages[j].key /\ m.parts \subseteq view.messages[j].parts
          /\ m.status = view.messages[j].status

\* A conversation that ends with a message for an answer.
Asks(msgs) ==
    /\ msgs \in Seq(Message) /\ msgs # <<>>
    /\ Last(msgs).from = "assistant" /\ Last(msgs).parts = {}
    /\ \A i \in DOMAIN msgs : i # Len(msgs) => FromShown(msgs[i])

LEMMA Cut ==
    ASSUME NEW V \in Seq(Message), NEW n \in Nat, n <= Len(V), NEW m \in Message
    PROVE  /\ Append(SubSeq(V, 1, n), m) \in Seq(Message)
           /\ Len(Append(SubSeq(V, 1, n), m)) = n + 1
           /\ Append(SubSeq(V, 1, n), m)[n + 1] = m
           /\ \A i \in 1 .. n : Append(SubSeq(V, 1, n), m)[i] = V[i]
<1>1. /\ SubSeq(V, 1, n) \in Seq(Message) /\ Len(SubSeq(V, 1, n)) = n
      /\ \A i \in 1 .. n : SubSeq(V, 1, n)[i] = V[i]
  OBVIOUS
<1> QED BY <1>1

LEMMA ShownIsFromShown ==
    \A j \in DOMAIN view.messages : FromShown(view.messages[j])
BY DEF FromShown

LEMMA AsksAgain ==
    ASSUME Typed, NEW n \in Nat, n <= Len(view.messages)
    PROVE  Asks(Append(SubSeq(view.messages, 1, n), Loading(AnswerKey)))
<1> DEFINE V == view.messages
           msgs == Append(SubSeq(V, 1, n), Loading(AnswerKey))
<1>1. V \in Seq(Message) /\ AnswerKey \in Nat
  BY DEF Typed, AnswerKey, UserKey
<1>2. Loading(AnswerKey) \in Message
  BY <1>1, Convs
<1>3. /\ msgs \in Seq(Message) /\ Len(msgs) = n + 1 /\ msgs[n + 1] = Loading(AnswerKey)
      /\ \A i \in 1 .. n : msgs[i] = V[i]
  BY <1>1, <1>2, Cut
<1> HIDE DEF msgs
<1>4. msgs # <<>> /\ Last(msgs) = Loading(AnswerKey) /\ DOMAIN msgs = 1 .. (n + 1)
  BY <1>3 DEF Last
<1>5. \A i \in 1 .. n : i \in DOMAIN V
  BY <1>1
<1>6. ASSUME NEW i \in DOMAIN msgs, i # Len(msgs) PROVE FromShown(msgs[i])
  <2>1. i \in 1 .. n
    BY <1>3, <1>4, <1>6
  <2> QED BY <1>3, <1>5, <2>1, ShownIsFromShown
<1>7. Loading(AnswerKey).from = "assistant" /\ Loading(AnswerKey).parts = {}
  BY DEF Loading
<1>8. Asks(msgs)
  BY <1>3, <1>4, <1>6, <1>7 DEF Asks
<1> QED BY <1>8 DEF msgs

LEMMA AsksMore ==
    ASSUME Typed
    PROVE  Asks(view.messages \o <<User(UserKey), Loading(AnswerKey)>>)
<1> DEFINE V == view.messages
           n == Len(V)
           msgs == V \o <<User(UserKey), Loading(AnswerKey)>>
<1>1. V \in Seq(Message) /\ AnswerKey \in Nat /\ UserKey \in Nat /\ n \in Nat
  BY DEF Typed, AnswerKey, UserKey
<1>2. Loading(AnswerKey) \in Message /\ User(UserKey) \in Message
  BY <1>1, Convs
<1> HIDE DEF V
<1>3. /\ msgs \in Seq(Message) /\ Len(msgs) = n + 2
      /\ msgs[n + 1] = User(UserKey) /\ msgs[n + 2] = Loading(AnswerKey)
      /\ \A i \in 1 .. n : msgs[i] = V[i]
  BY <1>1, <1>2
<1> HIDE DEF msgs
<1>4. msgs # <<>> /\ Last(msgs) = Loading(AnswerKey) /\ DOMAIN msgs = 1 .. (n + 2)
  BY <1>1, <1>3 DEF Last
<1>5. FromShown(User(UserKey))
  BY DEF FromShown, User, Unsettled
<1>6. ASSUME NEW i \in DOMAIN msgs, i # Len(msgs) PROVE FromShown(msgs[i])
  <2>1. i \in 1 .. n \/ i = n + 1
    BY <1>1, <1>3, <1>4, <1>6
  <2>2. ASSUME i \in 1 .. n PROVE FromShown(msgs[i])
    BY <1>1, <1>3, <2>2, ShownIsFromShown DEF V
  <2> QED BY <1>3, <1>5, <2>1, <2>2
<1>7. Loading(AnswerKey).from = "assistant" /\ Loading(AnswerKey).parts = {}
  BY DEF Loading
<1>8. Asks(msgs)
  BY <1>3, <1>4, <1>6, <1>7 DEF Asks
<1> QED BY <1>8 DEF msgs, V

\* When nothing is under way, no request is open and nothing rendered waits.
LEMMA Quiet ==
    ASSUME PInv, ~overlap, ~UnderWay
    PROVE  /\ source = 0 /\ \A r \in DOMAIN requests : ~Open(r)
           /\ stream => \A i \in DOMAIN view.messages : ~Unsettled(view.messages[i])
<1>1. source = 0 /\ ~view.generating
  BY DEF PInv, HeldIsShown, UnderWay
<1>2. \A r \in DOMAIN requests : ~Open(r)
  <2> SUFFICES ASSUME NEW r \in DOMAIN requests, Open(r) PROVE FALSE
    OBVIOUS
  <2>1. r \in Nat /\ r # 0
    BY DEF PInv, Typed
  <2> QED BY <1>1, <2>1 DEF PInv, LastOpen, UnderWay
<1> QED BY <1>1, <1>2 DEF PInv, Waiting

LEMMA SendsStep ==
    ASSUME PInv, NEW msgs, Asks(msgs), Sends(msgs), clicks' \in Nat
    PROVE  PInv'
<1>0. /\ Typed /\ requests \in Seq(Request) /\ messages' = msgs /\ view'.messages = msgs
      /\ stream' = stream /\ msgs \in Seq(Message)
      /\ requests' = Append(requests, [key |-> Last(msgs).key, at |-> "open"])
      /\ overlap' = (overlap \/ UnderWay)
      /\ view'.generating = (source' # 0)
      /\ stream => source' = Len(requests) + 1 /\ complete' = FALSE
      /\ ~stream => source' = source
  BY DEF PInv, Typed, Sends, Asks
<1>1. Last(msgs) \in Message /\ DOMAIN msgs = 1 .. Len(msgs) /\ Last(msgs) = msgs[Len(msgs)]
      /\ Len(msgs) \in DOMAIN msgs
  BY <1>0 DEF Asks, Last
<1>2. /\ requests' \in Seq(Request) /\ Len(requests') = Len(requests) + 1
      /\ \A r \in DOMAIN requests : r \in DOMAIN requests' /\ requests'[r] = requests[r]
      /\ requests'[Len(requests) + 1] = [key |-> Last(msgs).key, at |-> "open"]
      /\ \A r \in DOMAIN requests' : r \in DOMAIN requests \/ r = Len(requests) + 1
  <2>1. [key |-> Last(msgs).key, at |-> "open"] \in Request
    BY <1>1 DEF Message, Request
  <2> QED BY <1>0, <2>1
<1>3. Typed'
  BY <1>0, <1>2 DEF Typed
<1>4. SUFFICES ASSUME ~overlap'
      PROVE  OwnShown' /\ LastOpen' /\ HeldIsShown' /\ (stream' => Waiting')
  BY <1>3 DEF PInv
<1>5. ~overlap /\ ~UnderWay
  BY <1>0, <1>4
<1>6. /\ source = 0 /\ \A r \in DOMAIN requests : ~Open(r)
      /\ stream => \A i \in DOMAIN view.messages : ~Unsettled(view.messages[i])
  BY <1>5, Quiet
<1>7. ASSUME NEW i \in DOMAIN msgs, NEW r \in msgs[i].parts
      PROVE  r \in DOMAIN requests' /\ requests'[r].key = msgs[i].key
  <2>1. FromShown(msgs[i])
    BY <1>1, <1>7 DEF Asks
  <2>2. PICK j \in DOMAIN view.messages :
          msgs[i].key = view.messages[j].key /\ msgs[i].parts \subseteq view.messages[j].parts
    BY <1>7, <2>1 DEF FromShown
  <2>3. r \in DOMAIN requests /\ requests[r].key = msgs[i].key
    BY <1>5, <1>7, <2>2 DEF PInv, OwnShown, Own
  <2> QED BY <1>2, <2>3
<1>8. OwnShown'
  BY <1>0, <1>7 DEF OwnShown, Own
<1>9. LastOpen'
  <2> SUFFICES ASSUME NEW r \in DOMAIN requests', requests'[r].at = "open"
               PROVE  /\ r = Len(requests')
                      /\ msgs # <<>> /\ Last(msgs).from = "assistant"
                      /\ Last(msgs).key = requests'[r].key
                      /\ stream => source' = r /\ ~complete'
    BY <1>0 DEF LastOpen, Open
  <2>1. r = Len(requests) + 1
    BY <1>2, <1>6 DEF Open
  <2> QED BY <1>0, <1>2, <2>1 DEF Asks
<1>10. HeldIsShown'
  BY <1>0, <1>6 DEF HeldIsShown
<1>11. ASSUME stream PROVE Waiting'
  <2>1. source' # 0
    BY <1>0, <1>11
  <2>3. view'.generating
    BY <1>0, <2>1
  <2>2. ASSUME NEW i \in DOMAIN msgs, i # Len(msgs) PROVE ~Unsettled(msgs[i])
    <3>1. FromShown(msgs[i])
      BY <2>2 DEF Asks
    <3> QED BY <1>6, <1>11, <3>1 DEF FromShown, Unsettled
  <2> QED BY <1>0, <1>1, <2>1, <2>2, <2>3 DEF Waiting, Unsettled, Asks
<1> QED BY <1>0, <1>8, <1>9, <1>10, <1>11

LEMMA ShowsStep ==
    ASSUME PInv, NEW msgs \in Seq(Message), \A i \in DOMAIN msgs : FromShown(msgs[i]),
           Shows(msgs), overlap' = (overlap \/ UnderWay), clicks' \in Nat
    PROVE  PInv'
<1>0. /\ Typed /\ messages' = msgs /\ view'.messages = msgs
      /\ view'.generating = (source # 0)
      /\ stream' = stream /\ requests' = requests /\ source' = source /\ complete' = complete
  BY DEF PInv, Shows
<1>1. Typed'
  BY <1>0 DEF Typed
<1>2. SUFFICES ASSUME ~overlap'
      PROVE  OwnShown' /\ LastOpen' /\ HeldIsShown' /\ (stream' => Waiting')
  BY <1>1 DEF PInv
<1>3. ~overlap /\ ~UnderWay
  BY <1>2
<1>4. /\ source = 0 /\ \A r \in DOMAIN requests : ~Open(r)
      /\ stream => \A i \in DOMAIN view.messages : ~Unsettled(view.messages[i])
  BY <1>3, Quiet
<1>5. OwnShown'
  <2> SUFFICES ASSUME NEW i \in DOMAIN msgs, NEW r \in msgs[i].parts
               PROVE  r \in DOMAIN requests /\ requests[r].key = msgs[i].key
    BY <1>0 DEF OwnShown, Own
  <2>1. PICK j \in DOMAIN view.messages :
          msgs[i].key = view.messages[j].key /\ msgs[i].parts \subseteq view.messages[j].parts
    BY DEF FromShown
  <2> QED BY <1>3, <2>1 DEF PInv, OwnShown, Own
<1>6. LastOpen' /\ HeldIsShown'
  BY <1>0, <1>4 DEF LastOpen, Open, HeldIsShown
<1>7. ASSUME stream PROVE \A i \in DOMAIN msgs : ~Unsettled(msgs[i])
  BY <1>4, <1>7 DEF FromShown, Unsettled
<1> QED BY <1>0, <1>5, <1>6, <1>7 DEF Waiting, Unsettled
LEMMA Emptied ==
    ASSUME Typed, NEW i \in DOMAIN view.messages
    PROVE  LET msgs == [view.messages EXCEPT ![i].text = TRUE, ![i].parts = {}]
           IN  /\ msgs \in Seq(Message) /\ DOMAIN msgs = DOMAIN view.messages
               /\ msgs[i].parts = {} /\ msgs[i].status = view.messages[i].status
               /\ msgs[i].key = view.messages[i].key
               /\ \A j \in DOMAIN msgs : j # i => msgs[j] = view.messages[j]
<1> DEFINE V == view.messages
           m == [V[i] EXCEPT !.text = TRUE, !.parts = {}]
           msgs == [V EXCEPT ![i].text = TRUE, ![i].parts = {}]
<1>1. V \in Seq(Message) /\ i \in 1 .. Len(V)
  BY DEF Typed
<1>2. V[i] \in Message
  BY <1>1, ElementOfSeq
<1>3. m \in Message /\ m.parts = {} /\ m.status = V[i].status /\ m.key = V[i].key
  BY <1>2 DEF Message
<1>4. msgs = [V EXCEPT ![i] = m]
  BY <1>1
<1> HIDE DEF m, msgs, V
<1>5. [V EXCEPT ![i] = m] \in Seq(Message)
  BY <1>1, <1>3, ExceptSeq
<1> QED BY <1>1, <1>3, <1>4, <1>5 DEF msgs, V

LEMMA PlaygroundTypes ==
    ASSUME Typed, [Next]_vars
    PROVE  messages' \in Seq(Message) /\ requests' \in Seq(Request) /\ source' \in Nat
           /\ clicks' \in Nat
<1> USE DEF Typed
<1>1. ASSUME NEW m \in Message PROVE LastUpdated(m) \in Seq(Message)
  BY <1>1, Updated
<1>2. Current \in Message
  BY Convs
<1>E. /\ \A i \in DOMAIN messages : messages[i] \in Message
      /\ \A i \in DOMAIN view.messages : view.messages[i] \in Message
      /\ \A r \in DOMAIN requests : requests[r] \in Request
  BY ElementOfSeq
<1>3. ASSUME NEW r \in DOMAIN requests, NEW a \in {"open", "closed", "ended"}
      PROVE  [requests EXCEPT ![r].at = a] \in Seq(Request)
  <2>1. [requests[r] EXCEPT !.at = a] \in Request
    BY <1>E DEF Request
  <2>2. r \in 1 .. Len(requests)
    OBVIOUS
  <2> QED BY <2>1, <2>2, ExceptSeq
<1>4. /\ [Current EXCEPT !.status = "complete"] \in Message
      /\ WithError \in Message
      /\ \A r \in Nat :
           /\ [Current EXCEPT !.status = "streaming", !.text = TRUE, !.parts = @ \cup {r}] \in Message
           /\ [Current EXCEPT !.status = "complete", !.text = TRUE, !.parts = {r}] \in Message
  BY <1>2 DEF Message, WithError
<1>5. ASSUME NEW r \in DOMAIN requests,
             \/ Chunk(r) \/ Done(r) \/ EndsQuietly(r) \/ Answers(r)
             \/ \E lost \in BOOLEAN : Fails(r, lost)
      PROVE  messages' \in Seq(Message) /\ requests' \in Seq(Request) /\ source' \in Nat
             /\ clicks' \in Nat
  <2>1. clicks' = clicks /\ source' \in {0, source}
    BY <1>5 DEF Chunk, Done, EndsQuietly, Answers, Fails
  <2>2. requests' = requests \/ \E a \in {"closed", "ended"} : requests' = [requests EXCEPT ![r].at = a]
    BY <1>5 DEF Chunk, Done, EndsQuietly, Answers, Fails, Closed
  <2>3. messages' \in Seq(Message)
    <3>1. r \in Nat
      OBVIOUS
    <3> QED BY <1>1, <1>2, <1>4, <1>5, <3>1 DEF Chunk, Done, EndsQuietly, Answers, Fails
  <2>4. requests' \in Seq(Request)
    BY <1>3, <2>2
  <2> QED BY <2>1, <2>3, <2>4
<1>6. ASSUME NEW msgs, Asks(msgs), Sends(msgs), Click
      PROVE  messages' \in Seq(Message) /\ requests' \in Seq(Request) /\ source' \in Nat
             /\ clicks' \in Nat
  <2>1. Last(msgs).key \in Nat
    <3>1. msgs \in Seq(Message) /\ Len(msgs) \in 1 .. Len(msgs)
      BY <1>6 DEF Asks
    <3>2. Last(msgs) \in Message
      BY <3>1, ElementOfSeq DEF Last
    <3> QED BY <3>2 DEF Message
  <2>2. [key |-> Last(msgs).key, at |-> "open"] \in Request
    BY <2>1 DEF Request
  <2>3. requests' \in Seq(Request)
    BY <1>6, <2>2 DEF Sends
  <2>4. source' \in Nat
    BY <1>6 DEF Sends
  <2> QED BY <1>6, <2>3, <2>4 DEF Asks, Sends, Click
<1>7. CASE Submit \/ Suggest
  BY <1>6, <1>7, AsksMore DEF Submit, Suggest
<1>8. ASSUME NEW i \in Nat, Regenerate(i)
      PROVE  messages' \in Seq(Message) /\ requests' \in Seq(Request) /\ source' \in Nat
             /\ clicks' \in Nat
  <2>1. i - 1 \in Nat /\ i - 1 <= Len(view.messages)
    BY <1>8 DEF Regenerate, Shown
  <2> QED BY <1>6, <1>8, <2>1, AsksAgain DEF Regenerate
<1>9. ASSUME NEW i \in Nat, NEW submit \in BOOLEAN, Save(i, submit)
      PROVE  messages' \in Seq(Message) /\ requests' \in Seq(Request) /\ source' \in Nat
             /\ clicks' \in Nat
  <2>1. i \in Nat /\ i <= Len(view.messages)
    BY <1>9 DEF Save, Shown
  <2>2. [view.messages EXCEPT ![i].text = TRUE, ![i].parts = {}] \in Seq(Message)
    BY <1>9, Emptied DEF Save, Shown
  <2>3. CASE Shows([view.messages EXCEPT ![i].text = TRUE, ![i].parts = {}])
    BY <1>9, <2>2, <2>3 DEF Save, Shows, Click
  <2>4. CASE Sends(Append(SubSeq(view.messages, 1, i), Loading(AnswerKey)))
    BY <1>6, <1>9, <2>1, <2>4, AsksAgain DEF Save
  <2> QED BY <1>9, <2>3, <2>4 DEF Save
<1>10. ASSUME NEW i \in Nat, Delete(i)
       PROVE  messages' \in Seq(Message) /\ requests' \in Seq(Request) /\ source' \in Nat
             /\ clicks' \in Nat
  <2>1. RemoveAt(view.messages, i) \in Seq(Message)
    BY <1>10 DEF Delete, Shown, RemoveAt
  <2> QED BY <1>10, <2>1 DEF Delete, Shows, Click
<1>11. CASE Stop
  <2>1. requests' \in Seq(Request)
    <3> DEFINE f == [requests EXCEPT ![source].at = "closed"]
    <3>1. CASE source \in DOMAIN requests
      BY <1>3, <1>11, <3>1 DEF Stop
    <3>2. CASE source \notin DOMAIN requests
      <4>1. f = [q \in 1 .. Len(requests) |-> requests[q]]
        BY <3>2
      <4>2. f = requests
        BY <4>1
      <4> QED BY <1>11, <4>2 DEF Stop
    <3> QED BY <3>1, <3>2
  <2>2. messages' \in Seq(Message)
    BY <1>1, <1>2, <1>4, <1>11 DEF Stop
  <2>3. source' = 0 /\ clicks' = clicks + 1
    BY <1>11 DEF Stop, Click
  <2> QED BY <2>1, <2>2, <2>3
<1>12. CASE Reload
  <2>1. Sanitized(messages) \in Seq(Message)
    <3>1. \A i \in DOMAIN messages, s \in {"complete", "error"} :
             [messages[i] EXCEPT !.status = s, !.text = TRUE] \in Message
      BY <1>E DEF Message
    <3>2. \A i \in DOMAIN messages : Sanitized(messages)[i] \in Message
      BY <1>E, <3>1 DEF Sanitized
    <3>3. Sanitized(messages) = [i \in 1 .. Len(messages) |-> Sanitized(messages)[i]]
      BY DEF Sanitized
    <3>4. Len(messages) \in Nat /\ DOMAIN messages = 1 .. Len(messages)
      OBVIOUS
    <3> DEFINE f == Sanitized(messages)
    <3> HIDE DEF f
    <3>5. f \in [1 .. Len(messages) -> Message]
      BY <3>2, <3>3, <3>4 DEF f
    <3> QED BY <3>4, <3>5, SeqDef DEF f
  <2>2. requests' \in Seq(Request)
    <3>1. \A r \in DOMAIN requests : [requests[r] EXCEPT !.at = "closed"] \in Request
      BY <1>E DEF Request
    <3>2. Len(requests) \in Nat /\ DOMAIN requests = 1 .. Len(requests)
      OBVIOUS
    <3>3. requests' \in [1 .. Len(requests) -> Request]
      BY <1>12, <3>1, <3>2 DEF Reload
    <3> QED BY <3>2, <3>3, SeqDef
  <2> QED BY <1>12, <2>1, <2>2 DEF Reload, Click
<1>13. CASE Render \/ UNCHANGED vars \/ \E i \in Nat : Edit(i)
  BY <1>13 DEF Render, vars, Edit, Click
<1> QED BY <1>5, <1>7, <1>8, <1>9, <1>10, <1>11, <1>12, <1>13 DEF Next
\* A step keeps the requests and the messages they were sent for.
KeysKept ==
    \A q \in DOMAIN requests : q \in DOMAIN requests' /\ requests'[q].key = requests[q].key

\* What is put into the last message is its own, if it came with its own request.
LEMMA UpdatedOwn ==
    ASSUME Typed, OwnShown, KeysKept, NEW m \in Message, messages' \in {messages, LastUpdated(m)},
           m.key = Current.key, m.from = Current.from,
           \A r \in m.parts : r \in Current.parts \/ (r \in DOMAIN requests /\ requests[r].key = m.key)
    PROVE  /\ Len(messages') = Len(messages) /\ messages' \in Seq(Message)
           /\ \A i \in DOMAIN messages' : Own(messages[i])' /\ messages'[i].from = messages[i].from
                                          /\ messages'[i].key = messages[i].key
           /\ \A i \in DOMAIN messages' : i # Len(messages) => messages'[i] = messages[i]
<1>1. messages \in Seq(Message) /\ DOMAIN messages = 1 .. Len(messages)
  BY DEF Typed
<1>2. /\ Len(messages') = Len(messages) /\ messages' \in Seq(Message)
      /\ DOMAIN messages' = DOMAIN messages
      /\ \A i \in DOMAIN messages :
            messages'[i] = messages[i] \/ (messages'[i] = m /\ i = Len(messages) /\ Current = messages[i])
  BY <1>1, Updated
<1>3. ASSUME NEW i \in DOMAIN messages PROVE Own(messages[i])'
  <2>1. CASE messages'[i] = messages[i]
    BY <1>3, <2>1 DEF OwnShown, Own, KeysKept
  <2>2. CASE messages'[i] = m /\ Current = messages[i]
    <3>1. \A r \in m.parts : r \in DOMAIN requests /\ requests[r].key = m.key
      BY <1>3, <2>2 DEF OwnShown, Own
    <3> QED BY <2>2, <3>1 DEF Own, KeysKept
  <2> QED BY <1>2, <2>1, <2>2
<1> QED BY <1>2, <1>3

\* What was rendered stays its own.
LEMMA ViewOwn ==
    ASSUME OwnShown, KeysKept, view' = view
    PROVE  \A i \in DOMAIN view'.messages : Own(view.messages[i])'
BY DEF OwnShown, Own, KeysKept

LEMMA BringsStep ==
    ASSUME PInv, ~overlap, NEW r \in DOMAIN requests,
           \/ Chunk(r) \/ Done(r) \/ EndsQuietly(r) \/ Answers(r)
           \/ \E lost \in BOOLEAN : Fails(r, lost)
    PROVE  OwnShown' /\ LastOpen' /\ HeldIsShown' /\ (stream' => Waiting')
<1>0. /\ Typed /\ OwnShown /\ LastOpen /\ HeldIsShown /\ (stream => Waiting) /\ Open(r)
      /\ messages \in Seq(Message) /\ requests \in Seq(Request) /\ r \in Nat /\ r # 0
      /\ Current \in Message
  <2>1. Open(r)
    BY DEF Chunk, Done, EndsQuietly, Answers, Fails
  <2> QED BY <2>1, Convs DEF PInv, Typed
<1>1. /\ r = Len(requests) /\ messages # <<>> /\ Current = Last(messages)
      /\ Current.from = "assistant" /\ Current.key = requests[r].key
      /\ stream => source = r /\ ~complete
      /\ Len(messages) \in DOMAIN messages /\ Current = messages[Len(messages)]
  BY <1>0 DEF LastOpen, Current, Last
<1>2. /\ stream' = stream /\ view' = view
      /\ \/ requests' = requests /\ source' = source /\ (Chunk(r) \/ UNCHANGED messages)
         \/ \E a \in {"closed", "ended"} : requests' = [requests EXCEPT ![r].at = a]
  BY <1>1 DEF Chunk, Done, EndsQuietly, Answers, Fails, Closed
<1>3. /\ KeysKept /\ DOMAIN requests' = DOMAIN requests /\ Len(requests') = Len(requests)
      /\ \A q \in DOMAIN requests : requests'[q].at = "open" => Open(q)
      /\ \A q \in DOMAIN requests : requests' # requests => requests'[q].at # "open"
  <2>1. CASE requests' = requests
    BY <2>1 DEF KeysKept, Open
  <2>2. ASSUME NEW a \in {"closed", "ended"}, requests' = [requests EXCEPT ![r].at = a]
        PROVE  /\ KeysKept /\ DOMAIN requests' = DOMAIN requests /\ Len(requests') = Len(requests)
               /\ \A q \in DOMAIN requests : requests'[q].at = "open" => Open(q) /\ q # r
    <3>1. \A q \in DOMAIN requests : requests[q] \in Request
      BY <1>0, ElementOfSeq
    <3>2. \A q \in DOMAIN requests : requests'[q] = IF q = r THEN [requests[r] EXCEPT !.at = a] ELSE requests[q]
      BY <1>0, <2>2
    <3>3. \A q \in DOMAIN requests : requests'[q].key = requests[q].key
                                     /\ (q = r => requests'[q].at = a)
      BY <3>1, <3>2 DEF Request
    <3>4. DOMAIN requests' = DOMAIN requests /\ Len(requests') = Len(requests)
      BY <1>0, <2>2
    <3> QED BY <2>2, <3>2, <3>3, <3>4 DEF KeysKept, Open
  <2>3. \A q \in DOMAIN requests : Open(q) => q = r
    BY <1>0, <1>1 DEF LastOpen
  <2> QED BY <1>2, <2>1, <2>2, <2>3
<1>4. PICK m \in Message :
        /\ messages' \in {messages, LastUpdated(m)}
        /\ m.key = Current.key /\ m.from = Current.from
        /\ \A q \in m.parts : q \in Current.parts \/ q = r
        /\ stream /\ source' # source => messages' = LastUpdated(m) /\ ~Unsettled(m)
  <2>1. CASE Chunk(r)
    <3> DEFINE m == IF Current.status = "error" THEN Current
                    ELSE [Current EXCEPT !.status = "streaming", !.text = TRUE, !.parts = @ \cup {r}]
    <3>1. m \in Message /\ m.key = Current.key /\ m.from = Current.from
          /\ \A q \in m.parts : q \in Current.parts \/ q = r
      BY <1>0 DEF Message
    <3>2. messages' = LastUpdated(m) /\ source' = source
      BY <2>1 DEF Chunk
    <3> HIDE DEF m
    <3> QED BY <3>1, <3>2
  <2>2. CASE Done(r)
    <3> DEFINE m == IF Current.status \in {"complete", "error"} THEN Current
                    ELSE [Current EXCEPT !.status = "complete"]
    <3>1. m \in Message /\ m.key = Current.key /\ m.from = Current.from
          /\ m.parts = Current.parts /\ m.status \in {"complete", "error"}
      BY <1>0 DEF Message
    <3>2. messages' = LastUpdated(m)
      BY <2>2 DEF Done
    <3> HIDE DEF m
    <3> QED BY <3>1, <3>2 DEF Unsettled
  <2>3. CASE UNCHANGED <<messages, source>>
    BY <1>0, <2>3
  <2>4. CASE messages' = LastUpdated(WithError)
    <3>1. WithError \in Message /\ WithError.key = Current.key /\ WithError.from = Current.from
          /\ WithError.parts = {} /\ WithError.status = "error"
      BY <1>0 DEF Message, WithError
    <3> QED BY <2>4, <3>1 DEF Unsettled
  <2>5. CASE /\ ~stream
             /\ messages' = LastUpdated([Current EXCEPT !.status = "complete", !.text = TRUE, !.parts = {r}])
    <3> DEFINE m == [Current EXCEPT !.status = "complete", !.text = TRUE, !.parts = {r}]
    <3>1. m \in Message /\ m.key = Current.key /\ m.from = Current.from /\ m.parts = {r}
      BY <1>0 DEF Message
    <3> HIDE DEF m
    <3> QED BY <2>5, <3>1 DEF m
  <2> QED BY <2>1, <2>2, <2>3, <2>4, <2>5 DEF EndsQuietly, Answers, Fails
<1>5. /\ Len(messages') = Len(messages) /\ messages' \in Seq(Message)
      /\ \A i \in DOMAIN messages' : /\ Own(messages[i])'
                                     /\ messages'[i].from = messages[i].from
                                     /\ messages'[i].key = messages[i].key
      /\ \A i \in DOMAIN messages' : i # Len(messages) => messages'[i] = messages[i]
  BY <1>0, <1>1, <1>3, <1>4, UpdatedOwn
<1>6. DOMAIN messages' = DOMAIN messages
  BY <1>0, <1>5
<1>7. OwnShown'
  BY <1>0, <1>2, <1>3, <1>5, ViewOwn DEF OwnShown
<1>8. /\ messages' # <<>> /\ Last(messages').from = "assistant"
      /\ Last(messages').key = requests[r].key
  BY <1>0, <1>1, <1>5, <1>6 DEF Last
<1>C. ASSUME NEW a \in {"closed", "ended"}, requests' = [requests EXCEPT ![r].at = a]
      PROVE  requests' # requests
  <2>1. requests[r] \in Request /\ r \in 1 .. Len(requests)
    BY <1>0, ElementOfSeq
  <2>2. requests'[r].at = a
    BY <1>0, <1>C, <2>1 DEF Request
  <2> QED BY <1>0, <2>2 DEF Open
<1>9. source' = source \/ (source' = 0 /\ requests' # requests)
  BY <1>C DEF Chunk, Done, EndsQuietly, Answers, Fails, Closed
<1>10. LastOpen'
  <2> SUFFICES ASSUME NEW q \in DOMAIN requests, requests'[q].at = "open"
               PROVE  /\ q = Len(requests') /\ messages' # <<>>
                      /\ Last(messages').from = "assistant"
                      /\ Last(messages').key = requests'[q].key
                      /\ stream => source' = q /\ ~complete'
    BY <1>2, <1>3 DEF LastOpen, Open
  <2>1. requests' = requests /\ q = r
    BY <1>0, <1>1, <1>3 DEF LastOpen
  <2>2. source' = source /\ complete' = complete
    BY <1>1, <1>C, <2>1 DEF Chunk, Done, EndsQuietly, Answers, Fails, Closed
  <2> QED BY <1>1, <1>3, <1>8, <2>1, <2>2
<1>11. HeldIsShown'
  BY <1>0, <1>2, <1>9 DEF HeldIsShown
<1>12. ASSUME stream PROVE Waiting'
  <2>1. ASSUME NEW i \in DOMAIN messages, Unsettled(messages'[i])
        PROVE  i = Len(messages) /\ source' # 0 /\ messages'[i].from = "assistant"
    <3>1. i = Len(messages)
      BY <1>0, <1>5, <1>6, <1>12, <2>1 DEF Waiting
    <3>2. messages'[i].from = "assistant"
      BY <1>1, <1>5, <1>6, <3>1
    <3>3. source' = source
      <4> SUFFICES ASSUME source' # source PROVE FALSE
        OBVIOUS
      <4>1. messages' = LastUpdated(m) /\ ~Unsettled(m)
        BY <1>4, <1>12
      <4>2. messages'[i] = m
        BY <1>0, <1>1, <3>1, <4>1, Updated
      <4> QED BY <2>1, <4>1, <4>2
    <3> QED BY <1>0, <1>1, <1>12, <3>1, <3>2, <3>3
  <2>2. ~view'.generating => \A i \in DOMAIN view'.messages : ~Unsettled(view'.messages[i])
    BY <1>0, <1>2, <1>12 DEF Waiting
  <2> QED BY <1>5, <1>6, <2>1, <2>2 DEF Waiting, Unsettled
<1> QED BY <1>2, <1>7, <1>10, <1>11, <1>12
LEMMA PlaygroundStep ==
    ASSUME PInv, [Next]_vars
    PROVE  PInv'
<1>0. /\ Typed /\ messages \in Seq(Message) /\ requests \in Seq(Request) /\ source \in Nat
      /\ view.messages \in Seq(Message) /\ clicks \in Nat
  BY DEF PInv, Typed
<1>T. /\ messages' \in Seq(Message) /\ requests' \in Seq(Request) /\ source' \in Nat
      /\ clicks' \in Nat
  BY <1>0, PlaygroundTypes
<1>1. ASSUME NEW r \in DOMAIN requests,
             \/ Chunk(r) \/ Done(r) \/ EndsQuietly(r) \/ Answers(r)
             \/ \E lost \in BOOLEAN : Fails(r, lost)
      PROVE  PInv'
  <2>1. view' = view /\ overlap' = overlap
    BY <1>1 DEF Chunk, Done, EndsQuietly, Answers, Fails
  <2>2. Typed'
    BY <1>0, <1>T, <2>1 DEF Typed
  <2>3. CASE overlap
    BY <2>1, <2>2, <2>3 DEF PInv
  <2>4. CASE ~overlap
    BY <1>1, <2>2, <2>4, BringsStep DEF PInv
  <2> QED BY <2>3, <2>4
<1>2. CASE Submit \/ Suggest
  BY <1>0, <1>2, <1>T, AsksMore, SendsStep DEF Submit, Suggest
<1>3. ASSUME NEW i \in Nat, Regenerate(i) PROVE PInv'
  <2>1. i - 1 \in Nat /\ i - 1 <= Len(view.messages)
    BY <1>0, <1>3 DEF Regenerate, Shown
  <2>2. Asks(Append(SubSeq(view.messages, 1, i - 1), Loading(AnswerKey)))
    BY <1>0, <2>1, AsksAgain
  <2> QED BY <1>3, <1>T, <2>2, SendsStep DEF Regenerate
<1>4. ASSUME NEW i \in Nat, NEW submit \in BOOLEAN, Save(i, submit) PROVE PInv'
  <2>1. i \in DOMAIN view.messages /\ i <= Len(view.messages)
    BY <1>0, <1>4 DEF Save, Shown
  <2>2. Asks(Append(SubSeq(view.messages, 1, i), Loading(AnswerKey)))
    BY <1>0, <2>1, AsksAgain
  <2>3. CASE Sends(Append(SubSeq(view.messages, 1, i), Loading(AnswerKey)))
    BY <1>T, <2>2, <2>3, SendsStep
  <2> DEFINE msgs == [view.messages EXCEPT ![i].text = TRUE, ![i].parts = {}]
  <2>4. CASE Shows(msgs) /\ overlap' = (overlap \/ UnderWay)
    <3>1. /\ msgs \in Seq(Message) /\ DOMAIN msgs = DOMAIN view.messages
          /\ msgs[i].parts = {} /\ msgs[i].status = view.messages[i].status
          /\ msgs[i].key = view.messages[i].key
          /\ \A j \in DOMAIN msgs : j # i => msgs[j] = view.messages[j]
      BY <1>0, <2>1, Emptied
    <3> HIDE DEF msgs
    <3>2. ASSUME NEW j \in DOMAIN msgs PROVE FromShown(msgs[j])
      <4>1. CASE j = i
        BY <2>1, <3>1, <4>1 DEF FromShown
      <4>2. CASE j # i
        BY <3>1, <4>2, ShownIsFromShown
      <4> QED BY <4>1, <4>2
    <3> QED BY <1>T, <2>4, <3>1, <3>2, ShowsStep
  <2> QED BY <1>4, <2>3, <2>4 DEF Save
<1>5. ASSUME NEW i \in Nat, Delete(i) PROVE PInv'
  <2> DEFINE V == view.messages
             msgs == RemoveAt(V, i)
  <2>1. i \in 1 .. Len(V) /\ V \in Seq(Message) /\ DOMAIN V = 1 .. Len(V)
    BY <1>0, <1>5 DEF Delete, Shown
  <2> HIDE DEF V
  <2>2. /\ msgs \in Seq(Message)
        /\ \A j \in DOMAIN msgs : \E k \in DOMAIN V : msgs[j] = V[k]
    <3>1. /\ SubSeq(V, 1, i - 1) \in Seq(Message) /\ Len(SubSeq(V, 1, i - 1)) = i - 1
          /\ \A k \in 1 .. (i - 1) : SubSeq(V, 1, i - 1)[k] = V[k]
      BY <2>1
    <3>2. /\ SubSeq(V, i + 1, Len(V)) \in Seq(Message)
          /\ Len(SubSeq(V, i + 1, Len(V))) = Len(V) - i
          /\ \A k \in 1 .. (Len(V) - i) : SubSeq(V, i + 1, Len(V))[k] = V[i + k]
      <4> DEFINE t == SubSeq(V, i + 1, Len(V))
                 n == Len(V)
      <4>1. \A k \in (i + 1) .. n : V[k] \in Message
        BY <2>1, ElementOfSeq
      <4>2. n \in Int /\ i + 1 \in Int /\ i \in Int /\ i <= n
        BY <2>1
      <4>3. /\ t \in Seq(Message) /\ Len(t) = IF i + 1 <= n THEN n - (i + 1) + 1 ELSE 0
            /\ \A k \in 1 .. n - (i + 1) + 1 : t[k] = V[(i + 1) + k - 1]
        BY <4>1, <4>2, SubSeqProperties
      <4> HIDE DEF t, n
      <4>4. Len(t) = n - i
        BY <4>2, <4>3
      <4>5. ASSUME NEW k \in 1 .. (n - i) PROVE t[k] = V[i + k]
        <5>1. k \in 1 .. n - (i + 1) + 1 /\ (i + 1) + k - 1 = i + k
          BY <4>2
        <5> QED BY <4>3, <5>1
      <4> QED BY <4>3, <4>4, <4>5 DEF t, n
    <3>3. /\ msgs \in Seq(Message) /\ DOMAIN msgs = 1 .. (Len(V) - 1)
          /\ \A j \in 1 .. (Len(V) - 1) : msgs[j] = IF j < i THEN V[j] ELSE V[j + 1]
      <4> DEFINE s == SubSeq(V, 1, i - 1)
                 t == SubSeq(V, i + 1, Len(V))
      <4>1. msgs = s \o t
        BY DEF RemoveAt
      <4>2. /\ s \o t \in Seq(Message) /\ Len(s \o t) = Len(s) + Len(t)
            /\ \A k \in 1 .. Len(s) + Len(t) : (s \o t)[k] = IF k <= Len(s) THEN s[k] ELSE t[k - Len(s)]
        BY <3>1, <3>2, ConcatProperties
      <4>3. Len(V) \in Nat /\ i \in Nat /\ i >= 1 /\ i <= Len(V)
        BY <2>1
      <4> HIDE DEF s, t, msgs
      <4>4. Len(s) = i - 1 /\ Len(t) = Len(V) - i
        BY <3>1, <3>2 DEF s, t
      <4>5. DOMAIN msgs = 1 .. (Len(V) - 1)
        BY <4>1, <4>2, <4>3, <4>4
      <4>6. ASSUME NEW j \in 1 .. (Len(V) - 1) PROVE msgs[j] = IF j < i THEN V[j] ELSE V[j + 1]
        <5>1. j \in 1 .. Len(s) + Len(t)
          BY <4>3, <4>4
        <5>2. CASE j < i
          BY <3>1, <4>1, <4>2, <4>3, <4>4, <5>1, <5>2 DEF s
        <5>3. CASE ~(j < i)
          <6>1. j - Len(s) \in 1 .. (Len(V) - i) /\ i + (j - Len(s)) = j + 1 /\ ~(j <= Len(s))
            BY <4>3, <4>4, <5>3
          <6> QED BY <3>2, <4>1, <4>2, <5>1, <5>3, <6>1 DEF t
        <5> QED BY <5>2, <5>3
      <4> QED BY <4>1, <4>2, <4>5, <4>6
    <3> HIDE DEF msgs
    <3>4. \A j \in 1 .. (Len(V) - 1) : j \in DOMAIN V /\ j + 1 \in DOMAIN V
      BY <2>1
    <3> QED BY <3>3, <3>4
  <2>3. \A j \in DOMAIN msgs : FromShown(msgs[j])
    <3> HIDE DEF msgs
    <3> QED BY <2>2, ShownIsFromShown DEF V
  <2>4. Shows(msgs) /\ overlap' = (overlap \/ UnderWay)
    BY <1>5 DEF Delete, V
  <2> HIDE DEF msgs
  <2> QED BY <1>T, <2>2, <2>3, <2>4, ShowsStep
<1>6. CASE Stop
  <2> DEFINE m == IF Unsettled(Current) THEN [Current EXCEPT !.status = "complete"] ELSE Current
  <2>1. /\ m \in Message /\ m.key = Current.key /\ m.from = Current.from
        /\ m.parts = Current.parts /\ ~Unsettled(m)
    BY <1>0, Convs DEF Message, Unsettled
  <2>2. /\ messages' = LastUpdated(m) /\ view'.messages = messages' /\ source' = 0
        /\ stream' = stream /\ overlap' = overlap
        /\ requests' = IF source = 0 THEN requests ELSE [requests EXCEPT ![source].at = "closed"]
    BY <1>6 DEF Stop
  <2> HIDE DEF m
  <2>3. Typed'
    BY <1>T, <2>2 DEF Typed
  <2>4. SUFFICES ASSUME ~overlap PROVE OwnShown' /\ LastOpen' /\ HeldIsShown' /\ (stream => Waiting')
    BY <2>2, <2>3 DEF PInv
  <2>5. /\ KeysKept /\ DOMAIN requests' = DOMAIN requests /\ Len(requests') = Len(requests)
        /\ \A q \in DOMAIN requests : requests'[q].at = "open" => Open(q) /\ ~stream
    <3>1. \A q \in DOMAIN requests : requests[q] \in Request
      BY <1>0, ElementOfSeq
    <3>2. \A q \in DOMAIN requests :
             requests'[q] = IF q = source /\ source # 0 THEN [requests[q] EXCEPT !.at = "closed"]
                            ELSE requests[q]
      <4>1. CASE source = 0
        BY <2>2, <4>1
      <4>2. CASE source # 0
        BY <1>0, <2>2, <4>2
      <4> QED BY <4>1, <4>2
    <3>3. \A q \in DOMAIN requests : /\ requests'[q].key = requests[q].key
                                     /\ q = source => requests'[q].at = "closed"
      <4> SUFFICES ASSUME NEW q \in DOMAIN requests
                   PROVE  /\ requests'[q].key = requests[q].key
                          /\ q = source => requests'[q].at = "closed"
        OBVIOUS
      <4>1. q # 0 /\ requests[q] \in Request
        BY <1>0, <3>1
      <4>2. CASE q = source
        BY <3>2, <4>1, <4>2 DEF Request
      <4>3. CASE q # source
        BY <3>2, <4>3
      <4> QED BY <4>2, <4>3
    <3>4. DOMAIN requests' = DOMAIN requests /\ Len(requests') = Len(requests)
      BY <1>0, <2>2
    <3>5. \A q \in DOMAIN requests : Open(q) /\ stream => q = source
      BY <2>4 DEF PInv, LastOpen
    <3> QED BY <3>2, <3>3, <3>4, <3>5 DEF KeysKept, Open
  <2>6. /\ Len(messages') = Len(messages)
        /\ \A i \in DOMAIN messages' : /\ Own(messages[i])'
                                       /\ messages'[i].from = messages[i].from
                                       /\ messages'[i].key = messages[i].key
        /\ \A i \in DOMAIN messages' : i # Len(messages) => messages'[i] = messages[i]
    BY <1>0, <2>1, <2>2, <2>4, <2>5, UpdatedOwn DEF PInv
  <2>7. DOMAIN messages' = DOMAIN messages
    BY <1>0, <1>T, <2>6
  <2>8. OwnShown'
    BY <2>2, <2>6 DEF OwnShown, Own
  <2>9. LastOpen'
    <3> SUFFICES ASSUME NEW q \in DOMAIN requests, requests'[q].at = "open"
                 PROVE  /\ q = Len(requests') /\ messages' # <<>>
                        /\ Last(messages').from = "assistant"
                        /\ Last(messages').key = requests'[q].key
                        /\ ~stream
      BY <2>2, <2>5 DEF LastOpen, Open
    <3>1. /\ q = Len(requests) /\ messages # <<>> /\ Last(messages).from = "assistant"
          /\ Last(messages).key = requests[q].key /\ Len(messages) \in DOMAIN messages
      BY <1>0, <2>4, <2>5 DEF PInv, LastOpen
    <3> QED BY <1>0, <1>T, <2>5, <2>6, <2>7, <3>1 DEF Last, KeysKept
  <2>10. HeldIsShown'
    BY <2>2 DEF HeldIsShown
  <2>11. ASSUME stream, NEW i \in DOMAIN messages PROVE ~Unsettled(messages'[i])
    <3>1. Unsettled(messages[i]) => i = Len(messages) /\ messages[i].from = "assistant"
      BY <2>4, <2>11 DEF PInv, Waiting
    <3>2. messages'[i] = IF i = Len(messages) /\ messages[i].from = "assistant" THEN m ELSE messages[i]
      BY <1>0, <2>1, <2>2, Updated
    <3> QED BY <2>1, <3>1, <3>2
  <2> QED BY <2>2, <2>7, <2>8, <2>9, <2>10, <2>11 DEF Waiting, Unsettled
<1>7. CASE Reload
  <2>1. /\ messages' = Sanitized(messages) /\ view'.messages = messages' /\ source' = 0
        /\ stream' = stream /\ overlap' = overlap
        /\ requests' = [r \in DOMAIN requests |-> [requests[r] EXCEPT !.at = "closed"]]
    BY <1>7 DEF Reload
  <2>2. Typed'
    BY <1>T, <2>1 DEF Typed
  <2>3. SUFFICES ASSUME ~overlap PROVE OwnShown' /\ LastOpen' /\ HeldIsShown' /\ (stream => Waiting')
    BY <2>1, <2>2 DEF PInv
  <2>4. KeysKept /\ \A r \in DOMAIN requests' : requests'[r].at # "open"
    <3>1. \A q \in DOMAIN requests : requests[q] \in Request
      BY <1>0, ElementOfSeq
    <3> QED BY <2>1, <3>1 DEF KeysKept, Request
  <2>5. DOMAIN messages' = DOMAIN messages
    BY <2>1 DEF Sanitized
  <2>6. ASSUME NEW i \in DOMAIN messages
        PROVE  messages'[i].parts = messages[i].parts /\ messages'[i].key = messages[i].key
    <3>1. messages[i] \in Message
      BY <1>0, ElementOfSeq
    <3>2. \/ messages'[i] = messages[i]
          \/ \E s \in {"complete", "error"} : messages'[i] = [messages[i] EXCEPT !.status = s, !.text = TRUE]
      BY <2>1 DEF Sanitized
    <3> QED BY <3>1, <3>2 DEF Message
  <2>7. OwnShown'
    BY <2>1, <2>3, <2>4, <2>5, <2>6 DEF PInv, OwnShown, Own, KeysKept
  <2>8. LastOpen' /\ HeldIsShown'
    BY <2>1, <2>4 DEF LastOpen, Open, HeldIsShown
  <2>9. ASSUME stream, NEW i \in DOMAIN messages PROVE ~Unsettled(messages'[i])
    <3>1. \A j \in DOMAIN messages :
             Unsettled(messages[j]) => j = Len(messages) /\ messages[j].from = "assistant"
      BY <2>3, <2>9 DEF PInv, Waiting
    <3>2. messages[i] \in Message /\ DOMAIN messages = 1 .. Len(messages)
      BY <1>0, ElementOfSeq
    <3>3. CASE ~Unsettled(messages[i])
      BY <2>1, <3>3 DEF Sanitized
    <3>4. CASE Unsettled(messages[i])
      <4>1. i = Len(messages) /\ messages[i].from = "assistant"
        BY <3>1, <3>4
      <4>2. \A j \in DOMAIN messages : ~(j > i)
        BY <1>0, <3>2, <4>1
      <4>3. messages'[i] = [messages[i] EXCEPT !.status = IF messages[i].text THEN "complete" ELSE "error", !.text = TRUE]
        BY <2>1, <3>4, <4>1, <4>2 DEF Sanitized
      <4> QED BY <3>2, <4>3 DEF Message, Unsettled
    <3> QED BY <3>3, <3>4
  <2> QED BY <2>1, <2>5, <2>7, <2>8, <2>9 DEF Waiting, Unsettled
<1>8. CASE Render
  <2>1. /\ view'.messages = messages /\ view'.generating = (source # 0)
        /\ UNCHANGED <<stream, messages, requests, source, complete, overlap>>
    BY <1>8 DEF Render
  <2>2. Typed'
    BY <1>0, <1>T, <2>1 DEF Typed
  <2>3. SUFFICES ASSUME ~overlap PROVE OwnShown' /\ LastOpen' /\ HeldIsShown' /\ (stream => Waiting')
    BY <2>1, <2>2 DEF PInv
  <2>4. OwnShown /\ LastOpen /\ HeldIsShown /\ (stream => Waiting)
    BY <2>3 DEF PInv
  <2>5. OwnShown' /\ LastOpen'
    BY <2>1, <2>4 DEF OwnShown, Own, LastOpen, Open
  <2>6. HeldIsShown'
    BY <2>1, <2>4 DEF HeldIsShown
  <2>7. ASSUME stream PROVE Waiting'
    BY <2>1, <2>4, <2>7 DEF Waiting, Unsettled
  <2> QED BY <2>5, <2>6, <2>7
<1>9. CASE UNCHANGED <<stream, messages, requests, source, complete, view, overlap>>
  BY <1>0, <1>T, <1>9 DEF PInv, Typed, OwnShown, Own, LastOpen, Open, HeldIsShown, Waiting
<1> QED
  BY <1>1, <1>2, <1>3, <1>4, <1>5, <1>6, <1>7, <1>8, <1>9 DEF Next, vars, Edit

-----------------------------------------------------------------------------
(* The settings. *)

Value == Values \cup {Default, Empty}

SettingsTyped ==
    /\ server \in [Keys -> Value] /\ options \in [Keys -> Value]
    /\ form \in [Keys -> Value] /\ baseline \in [Keys -> Value]
    /\ get \in [at : {"none", "sent", "read"}, data : [Keys -> Value]]
    /\ save \in [at : {"idle", "put", "stored", "refused", "failed"},
                 keys : SUBSET Keys, left : SUBSET Keys, key : SUBSET Keys,
                 values : [Keys -> Value]]

\* The field is empty, or its value has been on the server.
HasBeen(f, k) == f[k] = Empty \/ \E s \in been : f[k] = s[k]

\* As long as no update was refused, what was read has been on the server, and what a
\* save has updated is there as it was submitted.
Stays ==
    /\ server \in been /\ options \in been /\ get.data \in been
    /\ \A k \in Keys : HasBeen(baseline, k)
    /\ save.at # "refused"
    /\ save.left \cap save.key = {}
    /\ \A k \in save.keys \ (save.left \cup save.key) : server[k] = save.values[k]
    /\ save.at = "stored" => \A k \in save.key : server[k] = save.values[k]
    /\ save.at # "idle" => \A k \in Keys \ save.keys : HasBeen(save.values, k)

SInv == SettingsTyped /\ ("refused" \notin mishaps => Stays)

LEMMA SettingsInit == Settings!Init => SInv
<1> SUFFICES ASSUME Settings!Init PROVE SInv
  OBVIOUS
<1>1. [k \in Keys |-> Default] \in [Keys -> Value]
  BY DEF Value
<1>2. SettingsTyped
  BY <1>1 DEF Settings!Init, Settings!NotSaving, SettingsTyped
<1>3. Stays
  BY DEF Settings!Init, Settings!NotSaving, Stays, HasBeen
<1> QED BY <1>2, <1>3 DEF SInv

LEMMA SettingsTypes ==
    ASSUME SettingsTyped, [Settings!Next]_settings
    PROVE  SettingsTyped'
<1> USE DEF SettingsTyped
<1>1. CASE Settings!Focus \/ Settings!GetRead \/ Settings!GetArrives \/ Settings!Effect
  BY <1>1 DEF Settings!Focus, Settings!Asked, Settings!GetRead, Settings!GetArrives, Settings!Effect
<1>2. ASSUME NEW k, NEW v \in Value, Settings!Fill(k, v) PROVE SettingsTyped'
  BY <1>2 DEF Settings!Fill
<1>3. CASE Settings!Reset
  BY <1>3 DEF Settings!Reset
<1>4. CASE Settings!Submit
  <2> DEFINE updated == {k \in Settings!Dirty : form[k] # Empty}
  <2>1. \/ /\ \E k \in updated : save' =
                 [at |-> "put", keys |-> updated, left |-> updated \ {k}, key |-> {k}, values |-> form]
           /\ UNCHANGED baseline
        \/ baseline' = form /\ UNCHANGED save
    BY <1>4 DEF Settings!Submit
  <2>2. updated \subseteq Keys
    BY DEF Settings!Dirty
  <2>3. UNCHANGED <<server, get, options, form>>
    BY <1>4 DEF Settings!Submit
  <2> HIDE DEF updated
  <2> QED BY <2>1, <2>2, <2>3
<1>5. CASE Settings!Put
  <2>1. UNCHANGED <<get, options, form, baseline>>
    BY <1>5 DEF Settings!Put
  <2>2. server' = server \/ server' = Settings!Stored(save.values)
    BY <1>5 DEF Settings!Put
  <2>3. Settings!Stored(save.values) \in [Keys -> Value]
    BY DEF Settings!Stored
  <2>4. \E a \in {"stored", "refused", "failed"} : save' = [save EXCEPT !.at = a]
    BY <1>5 DEF Settings!Put
  <2> QED BY <2>1, <2>2, <2>3, <2>4
<1>6. CASE Settings!PutReturns
  <2>1. UNCHANGED <<server, options>> /\ get' \in {get, Settings!Asked}
    BY <1>6 DEF Settings!PutReturns
  <2>2. Settings!NotSaving \in
           [at : {"idle", "put", "stored", "refused", "failed"},
            keys : SUBSET Keys, left : SUBSET Keys, key : SUBSET Keys, values : [Keys -> Value]]
    BY DEF Settings!NotSaving, Value
  <2>3. \/ save' = Settings!NotSaving /\ baseline' = save.values /\ form' = save.values
        \/ /\ UNCHANGED <<form, baseline>>
           /\ \E k \in save.left : save' = [save EXCEPT !.at = "put", !.left = @ \ {k}, !.key = {k}]
    BY <1>6 DEF Settings!PutReturns, Settings!NextKey
  <2>4. get' \in [at : {"none", "sent", "read"}, data : [Keys -> Value]]
    BY <2>1 DEF Settings!Asked
  <2>5. CASE save' = Settings!NotSaving /\ baseline' = save.values /\ form' = save.values
    BY <2>1, <2>2, <2>4, <2>5
  <2>6. ASSUME NEW k \in save.left, UNCHANGED <<form, baseline>>,
               save' = [save EXCEPT !.at = "put", !.left = @ \ {k}, !.key = {k}]
        PROVE  SettingsTyped'
    BY <2>1, <2>4, <2>6
  <2> QED BY <2>3, <2>5, <2>6
<1>7. CASE Settings!PutThrows
  BY <1>7 DEF Settings!PutThrows, Settings!NotSaving, Value
<1>8. CASE UNCHANGED settings
  BY <1>8 DEF settings
<1> QED BY <1>1, <1>2, <1>3, <1>4, <1>5, <1>6, <1>7, <1>8 DEF Settings!Next, Value

LEMMA SettingsStep ==
    ASSUME SInv, [Settings!Next]_settings
    PROVE  SInv'
<1>0. SettingsTyped /\ SettingsTyped'
  BY SettingsTypes DEF SInv
<1>1. SUFFICES ASSUME "refused" \notin mishaps', Stays PROVE Stays'
  <2>1. mishaps \subseteq mishaps'
    BY DEF Settings!Next, settings, Settings!Focus, Settings!GetRead, Settings!GetArrives,
       Settings!Effect, Settings!Fill, Settings!Reset, Settings!Submit, Settings!Put,
       Settings!PutReturns, Settings!PutThrows
  <2> QED BY <1>0, <2>1 DEF SInv
<1> USE DEF Stays, HasBeen
<1>2. CASE Settings!Focus \/ Settings!GetRead \/ Settings!GetArrives
  BY <1>0, <1>1, <1>2 DEF Settings!Focus, Settings!Asked, Settings!GetRead, Settings!GetArrives,
     SettingsTyped
<1>3. CASE Settings!Effect
  BY <1>1, <1>3 DEF Settings!Effect
<1>4. CASE Settings!Reset \/ \E k, v : Settings!Fill(k, v)
  BY <1>1, <1>4 DEF Settings!Reset, Settings!Fill
<1>5. CASE Settings!Submit
  <2> DEFINE updated == {k \in Settings!Dirty : form[k] # Empty}
  <2>1. \/ /\ \E k \in updated : save' =
                 [at |-> "put", keys |-> updated, left |-> updated \ {k}, key |-> {k}, values |-> form]
           /\ UNCHANGED baseline
        \/ updated = {} /\ baseline' = form /\ UNCHANGED save
    BY <1>5 DEF Settings!Submit
  <2>2. UNCHANGED <<server, get, options, been>>
    BY <1>5 DEF Settings!Submit
  <2>3. \A j \in Keys \ updated : form[j] = baseline[j] \/ form[j] = Empty
    BY DEF Settings!Dirty
  <2> HIDE DEF updated
  <2>4. \A j \in Keys \ updated : HasBeen(form, j)
    BY <1>1, <2>3
  <2>5. CASE updated = {} /\ baseline' = form /\ UNCHANGED save
    BY <1>1, <2>2, <2>4, <2>5
  <2>6. ASSUME NEW k \in updated, UNCHANGED baseline, save' =
                 [at |-> "put", keys |-> updated, left |-> updated \ {k}, key |-> {k}, values |-> form]
        PROVE  Stays'
    BY <1>1, <2>2, <2>4, <2>6
  <2> QED BY <2>1, <2>5, <2>6
<1>6. CASE Settings!Put
  <2>1. UNCHANGED <<get, options, baseline>>
    BY <1>6 DEF Settings!Put
  <2>2. CASE /\ server' = Settings!Stored(save.values) /\ been' = been \cup {server'}
             /\ \/ save' = [save EXCEPT !.at = "stored"]
                \/ save' = [save EXCEPT !.at = "failed"]
    <3>1. /\ save'.keys = save.keys /\ save'.left = save.left /\ save'.key = save.key
          /\ save'.values = save.values /\ save'.at \in {"stored", "failed"}
      BY <1>0, <2>2 DEF SettingsTyped
    <3>2. \A k \in Keys : server'[k] = IF k \in save.key THEN save.values[k] ELSE server[k]
      BY <2>2 DEF Settings!Stored
    <3>3. save.at = "put"
      BY <1>6 DEF Settings!Put
    <3>4. save.keys \subseteq Keys /\ save.key \subseteq Keys
      BY <1>0 DEF SettingsTyped
    <3> QED BY <1>1, <2>1, <2>2, <3>1, <3>2, <3>3, <3>4
  <2>3. CASE save' = [save EXCEPT !.at = "refused"] /\ mishaps' = mishaps \cup {"refused"}
    BY <1>1, <2>3
  <2>4. CASE save' = [save EXCEPT !.at = "failed"] /\ UNCHANGED <<server, been, mishaps>>
    BY <1>0, <1>1, <1>6, <2>1, <2>4 DEF SettingsTyped, Settings!Put
  <2> QED BY <1>6, <2>2, <2>3, <2>4 DEF Settings!Put
<1>7. CASE Settings!PutReturns
  <2>1. UNCHANGED <<server, options, been>> /\ save.at = "stored" /\ get'.data = get.data
    BY <1>0, <1>1, <1>7 DEF Settings!PutReturns, Settings!Asked, SettingsTyped
  <2>2. \A k \in save.keys \ save.left : server[k] = save.values[k]
    BY <1>1, <2>1
  <2>3. CASE save.left = {} /\ save' = Settings!NotSaving /\ baseline' = save.values
    BY <1>0, <1>1, <2>1, <2>2, <2>3 DEF Settings!NotSaving
  <2>4. ASSUME NEW k \in save.left, UNCHANGED baseline,
               save' = [save EXCEPT !.at = "put", !.left = @ \ {k}, !.key = {k}]
        PROVE  Stays'
    <3>1. /\ save'.keys = save.keys /\ save'.left = save.left \ {k} /\ save'.key = {k}
          /\ save'.values = save.values /\ save'.at = "put"
      BY <1>0, <2>4 DEF SettingsTyped
    <3> QED BY <1>1, <2>1, <2>2, <2>4, <3>1
  <2> QED BY <1>7, <2>3, <2>4 DEF Settings!PutReturns, Settings!NextKey
<1>8. CASE Settings!PutThrows
  BY <1>1, <1>8 DEF Settings!PutThrows, Settings!NotSaving
<1>9. CASE UNCHANGED settings
  BY <1>1, <1>9 DEF settings
<1> QED BY <1>2, <1>3, <1>4, <1>5, <1>6, <1>7, <1>8, <1>9 DEF Settings!Next

-----------------------------------------------------------------------------

\* The run of both pages runs each of them.
LEMMA Pages == MCSpec => Spec /\ Settings!Spec
<1>1. MCInit => Init /\ Settings!Init
  BY DEF MCInit
<1>2. [MCNext]_<<page, vars, settings>> => [Next]_vars /\ [Settings!Next]_(Settings!vars)
  BY DEF MCNext, vars, settings, Settings!vars
<1> QED BY <1>1, <1>2, PTL DEF MCSpec, Spec, Settings!Spec

\* While nothing is sent or saved during an answer, what a request brings goes to the
\* message it was sent for, however many requests are sent, stopped, fail, end without
\* [DONE] or are sent again (useStreamRequest, updateLastAssistantMessage).
THEOREM AnswersAreOwn == Spec => []OwnAnswers
<1>1. Init => PInv
  BY PlaygroundInit
<1>2. PInv /\ [Next]_vars => PInv'
  BY PlaygroundStep
<1>3. PInv => OwnAnswers
  BY DEF PInv, OwnShown, Own, OwnAnswers
<1> QED BY <1>1, <1>2, <1>3, PTL DEF Spec

\* And an answer that is not settled is the last message and can be stopped: nothing that
\* came back leaves one behind (stopGeneration, sanitizeMessagesOnLoad).
THEOREM UnsettledCanStop == Spec => []UnsettledStops
<1>1. Init => PInv
  BY PlaygroundInit
<1>2. PInv /\ [Next]_vars => PInv'
  BY PlaygroundStep
<1>3. PInv => UnsettledStops
  BY DEF PInv, Waiting, UnsettledStops
<1> QED BY <1>1, <1>2, <1>3, PTL DEF Spec

\* A message that failed stays so whatever streams bring, overlapping or not
\* (handleStreamUpdate, handleStreamComplete).
THEOREM FailuresStay == Spec => ErrorsStay
<1> DEFINE Stays1 == stream /\ clicks' = clicks =>
         \A i \in DOMAIN messages : messages[i].status = "error" => messages'[i].status = "error"
<1>1. Init => PInv
  BY PlaygroundInit
<1>2. PInv /\ [Next]_vars => PInv'
  BY PlaygroundStep
<1>3. PInv /\ [Next]_vars => [Stays1]_vars
  <2> SUFFICES ASSUME PInv, [Next]_vars, stream, clicks' = clicks,
                      NEW i \in DOMAIN messages, messages[i].status = "error"
               PROVE  messages'[i].status = "error"
    OBVIOUS
  <2>1. messages \in Seq(Message) /\ clicks \in Nat /\ i \in 1 .. Len(messages)
    BY DEF PInv, Typed
  <2>2. ~Click
    BY <2>1 DEF Click
  <2>3. ASSUME NEW m \in Message, messages' = LastUpdated(m), Current.status = "error" => m.status = "error"
        PROVE  messages'[i].status = "error"
    BY <2>1, <2>3, Updated
  <2>4. Current \in Message
    BY <2>1, Convs
  <2>5. WithError \in Message /\ WithError.status = "error"
    BY <2>4 DEF Message, WithError
  <2>6. ASSUME NEW r \in DOMAIN requests, Chunk(r) PROVE messages'[i].status = "error"
    <3> DEFINE m == IF Current.status = "error" THEN Current
                    ELSE [Current EXCEPT !.status = "streaming", !.text = TRUE, !.parts = @ \cup {r}]
    <3>1. m \in Message /\ (Current.status = "error" => m.status = "error")
      <4>1. r \in Nat
        BY DEF PInv, Typed
      <4> QED BY <2>4, <4>1 DEF Message
    <3>2. messages' = LastUpdated(m)
      BY <2>6 DEF Chunk
    <3> HIDE DEF m
    <3> QED BY <2>3, <3>1, <3>2
  <2>7. ASSUME NEW r \in DOMAIN requests, Done(r) PROVE messages'[i].status = "error"
    <3> DEFINE m == IF Current.status \in {"complete", "error"} THEN Current
                    ELSE [Current EXCEPT !.status = "complete"]
    <3>1. m \in Message /\ (Current.status = "error" => m.status = "error")
      BY <2>4 DEF Message
    <3>2. messages' = LastUpdated(m)
      BY <2>7 DEF Done
    <3> HIDE DEF m
    <3> QED BY <2>3, <3>1, <3>2
  <2>8. ASSUME NEW r \in DOMAIN requests, NEW lost \in BOOLEAN, Fails(r, lost)
        PROVE  messages'[i].status = "error"
    BY <2>3, <2>5, <2>8 DEF Fails
  <2>9. CASE UNCHANGED messages
    BY <2>9
  <2> QED
    BY <2>2, <2>6, <2>7, <2>8, <2>9 DEF Next, vars, EndsQuietly, Answers, Submit, Suggest, Stop,
       Reload, Render, Regenerate, Edit, Delete, Save
<1> QED BY <1>1, <1>2, <1>3, PTL DEF Spec, ErrorsStay

\* What a field that is not empty shows when it is reset has been on the server as long as
\* no update was refused, for any form, any number of keys in a save and any answers that are lost, and
\* however its query is read and refreshed meanwhile (useSettingsForm, useUpdateOption).
THEOREM BaselinesWereStored == Settings!Spec => []BaselineWasStored
<1>1. Settings!Init => SInv
  BY SettingsInit
<1>2. SInv /\ [Settings!Next]_(Settings!vars) => SInv'
  BY SettingsStep DEF settings, Settings!vars
<1>3. SInv => BaselineWasStored
  BY DEF SInv, Stays, HasBeen, BaselineWasStored, Settings!BaselineWasStored
<1> QED BY <1>1, <1>2, <1>3, PTL DEF Settings!Spec

\* A save that ends has stored what was submitted, key by key but for empty fields, whatever has been filled in
\* or reset meanwhile, unless an update was refused (onSubmit, useUpdateOption).
THEOREM SubmittedAreSaved == Settings!Spec => SubmittedIsSaved
<1> DEFINE Saved == Settings!PutReturns /\ save.left = {} /\ "refused" \notin mishaps =>
                       \A k \in save.keys : server[k] = save.values[k]
<1>1. Settings!Init => SInv
  BY SettingsInit
<1>2. SInv /\ [Settings!Next]_(Settings!vars) => SInv'
  BY SettingsStep DEF settings, Settings!vars
<1>3. SInv /\ [Settings!Next]_(Settings!vars) => [Saved]_(Settings!vars)
  BY DEF SInv, Stays, Settings!PutReturns
<1> QED BY <1>1, <1>2, <1>3, PTL DEF Settings!Spec, SubmittedIsSaved, Settings!SubmittedIsSaved
===============================================================================
