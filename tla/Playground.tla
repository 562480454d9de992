------------------------------ MODULE Playground ------------------------------
(***************************************************************************)
(* The conversation of the playground: messages, the streams that answer   *)
(* them, and the page (web/default/src/features/playground).  A stream is  *)
(* an object of its own, but the hook holds one, and what a stream brings  *)
(* goes to the last message, whichever that is.  Clicks act on what was    *)
(* rendered last; events of streams are rendered some time later.          *)
(***************************************************************************)
EXTENDS Integers, Sequences, SequencesExt

CONSTANTS
    MaxRequests,  \* bound: requests sent
    MaxClicks,    \* bound: clicks and reloads
    Streaming     \* values of config.stream

ASSUME PlaygroundAssumption ==
    MaxRequests \in Nat /\ MaxClicks \in Nat /\ Streaming \subseteq BOOLEAN

VARIABLES
    stream,    \* config.stream
    messages,  \* the conversation, which is stored whenever it changes
    requests,  \* each request: [key, at], its message and "open", "closed" or "ended"
    source,    \* sseSourceRef; 0 is null
    complete,  \* isStreamCompleteRef
    view,      \* what was rendered: [messages, generating]
    editing,   \* editingMessageKey; 0 is null
    overlap,   \* history: a click sent or saved something while an answer was under way
    clicks     \* history: for the bound

vars == <<stream, messages, requests, source, complete, view, editing, overlap, clicks>>

\* A message: its key, who it is from, its status, whether it has content, and the
\* requests its content came with.
User(key) == [key |-> key, from |-> "user", status |-> "none", text |-> TRUE, parts |-> {}]
Loading(key) == [key |-> key, from |-> "assistant", status |-> "loading", text |-> FALSE, parts |-> {}]

Unsettled(m) == m.status \in {"loading", "streaming"}

Init ==
    /\ stream \in Streaming
    /\ messages = <<>> /\ requests = <<>> /\ source = 0 /\ complete = FALSE
    /\ view = [messages |-> <<>>, generating |-> FALSE]
    /\ editing = 0 /\ overlap = FALSE /\ clicks = 0

-----------------------------------------------------------------------------
(* What comes back. *)

\* updateLastAssistantMessage.
LastUpdated(m) ==
    IF messages # <<>> /\ Last(messages).from = "assistant"
    THEN [messages EXCEPT ![Len(messages)] = m]
    ELSE messages

\* Reads the last message, or one without effect.
Current == IF messages = <<>> THEN User(0) ELSE Last(messages)

Open(r) == requests[r].at = "open"
Closed(r) == requests' = [requests EXCEPT ![r].at = "closed"]

\* Mutant: handleStreamUpdate takes no notice of an error.
ChunkAfterError(r) ==
    /\ stream /\ Open(r)
    /\ messages' = LastUpdated(
          [Current EXCEPT !.status = "streaming", !.text = TRUE, !.parts = @ \cup {r}])
    /\ UNCHANGED <<stream, requests, source, complete, view, editing, overlap, clicks>>

\* handleStreamUpdate.
Chunk(r) ==
    /\ stream /\ Open(r)
    /\ messages' = LastUpdated(
          IF Current.status = "error" THEN Current
          ELSE [Current EXCEPT !.status = "streaming", !.text = TRUE, !.parts = @ \cup {r}])
    /\ UNCHANGED <<stream, requests, source, complete, view, editing, overlap, clicks>>

\* [DONE]: the source is closed, the hook forgets whichever it held; handleStreamComplete.
Done(r) ==
    /\ stream /\ Open(r) /\ Closed(r)
    /\ complete' = TRUE /\ source' = 0
    /\ messages' = LastUpdated(
          IF Current.status \in {"complete", "error"} THEN Current
          ELSE [Current EXCEPT !.status = "complete"])
    /\ UNCHANGED <<stream, view, editing, overlap, clicks>>

WithError == [Current EXCEPT !.status = "error", !.text = TRUE, !.parts = {}]

\* handleError, of a chunk that cannot be parsed or a connection that is lost.
Fails(r, lost) ==
    /\ stream /\ Open(r)
    /\ IF complete
       THEN /\ requests' = IF lost THEN [requests EXCEPT ![r].at = "ended"] ELSE requests
            /\ UNCHANGED <<messages, source>>
       ELSE messages' = LastUpdated(WithError) /\ Closed(r) /\ source' = 0
    /\ UNCHANGED <<stream, complete, view, editing, overlap, clicks>>

\* The connection ends with status 200 and without [DONE]: no listener does anything.
EndsQuietly(r) ==
    /\ stream /\ Open(r)
    /\ requests' = [requests EXCEPT ![r].at = "ended"]
    /\ UNCHANGED <<stream, messages, source, complete, view, editing, overlap, clicks>>

\* sendNonStreamingChat: an answer, an answer without a choice, or an error.
Answers(r) ==
    /\ ~stream /\ Open(r) /\ Closed(r)
    /\ messages' \in {messages, LastUpdated(WithError),
                      LastUpdated([Current EXCEPT !.status = "complete", !.text = TRUE, !.parts = {r}])}
    /\ UNCHANGED <<stream, source, complete, view, editing, overlap, clicks>>

\* React renders.
Render ==
    /\ view' = [messages |-> messages, generating |-> source # 0]
    /\ UNCHANGED <<stream, messages, requests, source, complete, editing, overlap, clicks>>

-----------------------------------------------------------------------------
(* Clicks, which are rendered at once. *)

Click == clicks < MaxClicks /\ clicks' = clicks + 1

UnderWay == view.generating \/ \E r \in DOMAIN requests : ~stream /\ Open(r)

\* updateMessages with a conversation made from the one rendered, and no request.
Shows(msgs) ==
    /\ messages' = msgs /\ view' = [messages |-> msgs, generating |-> source # 0]
    /\ UNCHANGED <<stream, requests, source, complete>>

\* updateMessages and sendChat; the new request takes the place of the one held.
Sends(msgs) ==
    /\ Len(requests) < MaxRequests
    /\ messages' = msgs
    /\ requests' = Append(requests, [key |-> Last(msgs).key, at |-> "open"])
    /\ IF stream THEN source' = Len(requests) + 1 /\ complete' = FALSE ELSE UNCHANGED <<source, complete>>
    /\ view' = [messages |-> msgs, generating |-> source' # 0]
    /\ overlap' = (overlap \/ UnderWay)
    /\ UNCHANGED stream

\* Two keys for each request: of the user's message and of the answer.
UserKey == 2 * Len(requests) + 1
AnswerKey == UserKey + 1

\* handleSubmit is disabled while an answer is generated.
Submit ==
    /\ Click /\ ~view.generating
    /\ Sends(view.messages \o <<User(UserKey), Loading(AnswerKey)>>)
    /\ UNCHANGED editing

\* handleSuggestionClick is not.
Suggest ==
    /\ Click /\ Sends(view.messages \o <<User(UserKey), Loading(AnswerKey)>>)
    /\ UNCHANGED editing

Shown(i) == i \in DOMAIN view.messages

Regenerate(i) ==
    /\ Click /\ ~view.generating /\ Shown(i)
    /\ view.messages[i].from = "assistant" /\ ~Unsettled(view.messages[i])
    /\ Sends(Append(SubSeq(view.messages, 1, i - 1), Loading(AnswerKey)))
    /\ UNCHANGED editing

Edit(i) ==
    /\ Click /\ ~view.generating /\ Shown(i) /\ view.messages[i].text
    /\ editing' = view.messages[i].key
    /\ UNCHANGED <<stream, messages, requests, source, complete, view, overlap>>

\* applyEdit; the buttons are there while an answer is generated.
Save(i, submit) ==
    /\ Click /\ Shown(i) /\ view.messages[i].key = editing /\ editing' = 0
    /\ IF submit /\ view.messages[i].from = "user"
       THEN Sends(Append(SubSeq(view.messages, 1, i), Loading(AnswerKey)))
       ELSE /\ Shows([view.messages EXCEPT ![i].text = TRUE, ![i].parts = {}])
            /\ overlap' = (overlap \/ UnderWay)

Delete(i) ==
    /\ Click /\ ~view.generating /\ Shown(i)
    /\ Shows(RemoveAt(view.messages, i)) /\ overlap' = (overlap \/ UnderWay)
    /\ UNCHANGED editing

\* Mutant: the source is forgotten, not closed.
StopForgets ==
    /\ Click /\ view.generating
    /\ UNCHANGED requests
    /\ source' = 0
    /\ messages' = LastUpdated(IF Unsettled(Current) THEN [Current EXCEPT !.status = "complete"] ELSE Current)
    /\ view' = [messages |-> messages', generating |-> FALSE]
    /\ UNCHANGED <<stream, complete, editing, overlap>>

\* stopGeneration.
Stop ==
    /\ Click /\ view.generating
    /\ requests' = IF source = 0 THEN requests ELSE [requests EXCEPT ![source].at = "closed"]
    /\ source' = 0
    /\ messages' = LastUpdated(IF Unsettled(Current) THEN [Current EXCEPT !.status = "complete"] ELSE Current)
    /\ view' = [messages |-> messages', generating |-> FALSE]
    /\ UNCHANGED <<stream, complete, editing, overlap>>

\* Mutant: only a message without content is settled.
SanitizedEmpty(msgs) ==
    LET stuck == {i \in DOMAIN msgs : msgs[i].from = "assistant" /\ Unsettled(msgs[i])}
    IN  [i \in DOMAIN msgs |->
            IF i \notin stuck \/ (\E j \in stuck : j > i) \/ msgs[i].text THEN msgs[i]
            ELSE [msgs[i] EXCEPT !.status = "error", !.text = TRUE]]

\* sanitizeMessagesOnLoad: the last answer that is stuck is completed or fails.
Sanitized(msgs) ==
    LET stuck == {i \in DOMAIN msgs : msgs[i].from = "assistant" /\ Unsettled(msgs[i])}
    IN  [i \in DOMAIN msgs |->
            IF i \notin stuck \/ \E j \in stuck : j > i THEN msgs[i]
            ELSE [msgs[i] EXCEPT !.status = IF msgs[i].text THEN "complete" ELSE "error", !.text = TRUE]]

\* The page is loaded again: what was under way is gone, the stored messages are not.
Reload ==
    /\ Click
    /\ messages' = Sanitized(messages)
    /\ view' = [messages |-> messages', generating |-> FALSE]
    /\ requests' = [r \in DOMAIN requests |-> [requests[r] EXCEPT !.at = "closed"]]
    /\ source' = 0 /\ complete' = FALSE /\ editing' = 0
    /\ UNCHANGED <<stream, overlap>>

-----------------------------------------------------------------------------

Next ==
    \/ \E r \in DOMAIN requests :
         \/ Chunk(r) \/ Done(r) \/ EndsQuietly(r) \/ Answers(r)
         \/ \E lost \in BOOLEAN : Fails(r, lost)
    \/ Submit \/ Suggest \/ Stop \/ Reload \/ Render
    \/ \E i \in 1 .. 2 * MaxRequests : Regenerate(i) \/ Edit(i) \/ Delete(i) \/ (\E submit \in BOOLEAN : Save(i, submit))

Spec == Init /\ [][Next]_vars

-----------------------------------------------------------------------------
(* Properties. *)

\* While nothing is sent or saved during an answer, what a request brings goes to the
\* message it was sent for and to no other, after a stop, an error, a reload or a
\* regeneration too: nothing stays open that the page does not know of.
OwnAnswers ==
    ~overlap => \A i \in DOMAIN messages : \A r \in messages[i].parts : requests[r].key = messages[i].key

\* Then an answer that is not settled is the last message and can be stopped: the page
\* neither waits forever nor shows Stop for nothing (isStreaming is read from a ref).
UnsettledStops ==
    stream /\ ~overlap =>
        \A i \in DOMAIN messages : Unsettled(messages[i]) => i = Len(messages) /\ source # 0

\* An answer that failed stays so whatever other streams bring, overlapping or not; only
\* a click replaces it (handleStreamUpdate and handleStreamComplete).
ErrorsStay ==
    [][stream /\ clicks' = clicks =>
         \A i \in DOMAIN messages : messages[i].status = "error" => messages'[i].status = "error"]_vars

\* "Converts stuck loading/streaming messages to stable state" (sanitizeMessagesOnLoad):
\* when the page has been loaded, no message waits for an answer.
LoadedIsStable ==
    [][Reload => \A i \in DOMAIN messages' : ~Unsettled(messages'[i])]_vars
=============================================================================
