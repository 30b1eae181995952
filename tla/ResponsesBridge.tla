---------------------------- MODULE ResponsesBridge ----------------------------
(***************************************************************************)
(* The bridge between the Responses API its clients speak and the chat      *)
(* completions of the upstream (infra/responses_bridge.py): the request's   *)
(* items become messages, the stream of chat deltas becomes response        *)
(* events, whatever the upstream sends and wherever it stops.               *)
(***************************************************************************)
EXTENDS Naturals, Sequences, FiniteSets, SequencesExt

CONSTANTS
    Items,          \* items a request is made of
    MaxItems,       \* bound: items of a request
    MaxLines,       \* bound: lines of one upstream
    MaxUpstreams    \* max_total_attempts of the retry policy

VARIABLES
    asked,          \* the items of the request
    chat,           \* its messages, once it was converted
    phase,          \* of the stream's generator
    attempt,        \* upstream calls so far
    lines,          \* lines of the current upstream
    translator,
    sent            \* events the client has got

ASSUME BridgeConstants == MaxItems \in Nat /\ MaxLines \in Nat /\ MaxUpstreams \in Nat

bridgeVars == <<asked, chat, phase, attempt, lines, translator, sent>>

-----------------------------------------------------------------------------
(* The request.  An item is a record [type, call]; a message has a role and *)
(* the ids of the calls it makes or answers.                               *)
Message(role, calls) == [role |-> role, calls |-> calls]

Messages(item) ==
    CASE item.type = "function_call_output" -> <<Message("tool", <<item.call>>)>>
      [] item.type = "function_call"        -> <<Message("assistant", <<item.call>>)>>
      [] item.type \in {"system", "developer"} -> <<Message("system", <<>>)>>
      [] item.type \in {"user", "assistant"}   -> <<Message(item.type, <<>>)>>
      [] item.type = "message"              -> <<Message("user", <<>>)>>
      [] OTHER                              -> <<>>

IsTool(m) == m.role = "tool"

Calls(m, c) == m.role = "assistant" /\ Contains(m.calls, c)

\* The last answer to a call counts; it moves behind the message that made the
\* call, the first one that did.
AnswerTo(ms, c) == SelectLastInSeq(ms, LAMBDA m : IsTool(m) /\ m.calls = <<c>>)

MadeAt(ms, c) == SelectInSeq(ms, LAMBDA m : Calls(m, c))

(* Mutant: an answer goes behind every message that makes its call.        *)
AnswersAgain(ms, i) ==
    FlattenSeq([k \in DOMAIN ms[i].calls |->
        IF AnswerTo(ms, ms[i].calls[k]) # 0 THEN <<ms[AnswerTo(ms, ms[i].calls[k])]>> ELSE <<>>])

AnswersAt(ms, i) ==
    FlattenSeq([k \in DOMAIN ms[i].calls |->
        IF MadeAt(ms, ms[i].calls[k]) = i /\ AnswerTo(ms, ms[i].calls[k]) # 0
        THEN <<ms[AnswerTo(ms, ms[i].calls[k])]>> ELSE <<>>])

ReorderToolMessages(ms) ==
    FlattenSeq([i \in DOMAIN ms |->
        IF IsTool(ms[i])
        THEN IF \E m \in ToSet(ms) : Calls(m, ms[i].calls[1]) THEN <<>> ELSE <<ms[i]>>
        ELSE IF ms[i].role = "assistant" THEN <<ms[i]>> \o AnswersAt(ms, i) ELSE <<ms[i]>>])

RequestToChat(items) ==
    LET ms == ReorderToolMessages(FlattenSeq([i \in DOMAIN items |-> Messages(items[i])]))
    IN IF ms = <<>> THEN <<Message("user", <<>>)>> ELSE ms

Convert ==
    /\ phase = "asked"
    /\ chat' = RequestToChat(asked)
    /\ phase' = "calling"
    /\ UNCHANGED <<asked, attempt, lines, translator, sent>>

-----------------------------------------------------------------------------
(* The translator.  An event is of a response, on one of its items (0 is    *)
(* the message, the others are calls), with the item's text so far.        *)
Fresh(id) == [id |-> id, started |-> FALSE, finished |-> FALSE,
              text |-> <<>>, reasoning |-> <<>>, calls |-> [i \in {} |-> <<>>]]

Event(tr, type, item, text) ==
    [response |-> tr.id, type |-> type, item |-> item, text |-> text, output |-> <<>>]

Visible(text) ==
    FlattenSeq([i \in DOMAIN text |-> IF text[i] = "blank" THEN <<>> ELSE <<text[i]>>])

EnsureStarted(tr) ==
    IF tr.started THEN <<>>
    ELSE <<Event(tr, "created", 0, <<>>), Event(tr, "added", 0, <<>>)>>

\* What ends a response early: failed, and completed for the clients that wait
\* for that.
Failure(tr) == <<Event(tr, "failed", 0, <<>>), Event(tr, "completed", 0, <<>>)>>

CallLines == {"call1", "call2"}

\* Lines that are not data, not JSON, or the end mark.
Noise == {"noise"}

Gathered(tr, line) ==
    [tr EXCEPT !.started = TRUE,
        !.reasoning = IF line = "thought" THEN Append(@, line) ELSE @,
        !.text = IF line \in {"word", "blank"} THEN Append(@, line) ELSE @,
        !.calls = IF line \in CallLines
                  THEN [c \in DOMAIN @ \cup {line} |->
                           IF c \notin DOMAIN @ THEN <<line>>
                           ELSE IF c = line THEN Append(@[c], line) ELSE @[c]]
                  ELSE @]

(* Mutant: what follows an error of the upstream is translated on.         *)
FeedsOn(tr, line) ==
    IF line \in Noise THEN [tr |-> tr, events |-> <<>>]
    ELSE IF line = "error" THEN [tr |-> [tr EXCEPT !.finished = TRUE], events |-> Failure(tr)]
    ELSE [tr |-> Gathered(tr, line),
          events |-> EnsureStarted(tr) \o
              (IF line \in {"word", "blank"} THEN <<Event(tr, "delta", 0, <<line>>)>> ELSE <<>>)]

FeedLine(tr, line) ==
    IF tr.finished \/ line \in Noise THEN [tr |-> tr, events |-> <<>>]
    ELSE IF line = "error" THEN [tr |-> [tr EXCEPT !.finished = TRUE], events |-> Failure(tr)]
    ELSE [tr |-> Gathered(tr, line),
          events |-> EnsureStarted(tr) \o
              (IF line \in {"word", "blank"} THEN <<Event(tr, "delta", 0, <<line>>)>> ELSE <<>>)]

\* The calls in the order of their index, as items 1, 2, ...
Order(tr) ==
    (IF "call1" \in DOMAIN tr.calls THEN <<"call1">> ELSE <<>>)
    \o (IF "call2" \in DOMAIN tr.calls THEN <<"call2">> ELSE <<>>)

CallItems(tr) == [k \in DOMAIN Order(tr) |-> [item |-> k, text |-> tr.calls[Order(tr)[k]]]]

\* Where nothing but reasoning came, that is the text.
FinishAnswer(tr) ==
    LET lonely == Visible(tr.text) = <<>> /\ tr.reasoning # <<>>
        text   == IF lonely THEN tr.reasoning ELSE tr.text
        items  == CallItems(tr)
        listed == IF Visible(text) = <<>> /\ items # <<>> THEN items
                  ELSE <<[item |-> 0, text |-> text]>> \o items
    IN IF tr.finished THEN [tr |-> tr, events |-> <<>>]
       ELSE [tr |-> [tr EXCEPT !.started = TRUE, !.finished = TRUE, !.text = text],
             events |-> EnsureStarted(tr)
                 \o (IF lonely THEN <<Event(tr, "delta", 0, text)>> ELSE <<>>)
                 \o FlattenSeq([k \in DOMAIN items |->
                        <<Event(tr, "added", k, items[k].text), Event(tr, "done", k, items[k].text)>>])
                 \o <<Event(tr, "done", 0, text),
                      [Event(tr, "completed", 0, <<>>) EXCEPT !.output = listed]>>]

-----------------------------------------------------------------------------
(* The generator of the stream.  Which failures are tried again or go to the *)
(* next model is the retry policy's choice.                                *)
BridgeInit ==
    /\ asked \in SeqOf(Items, MaxItems)
    /\ chat = <<>>
    /\ phase = "asked"
    /\ attempt = 0 /\ lines = 0
    /\ translator = Fresh(0)
    /\ sent = <<>>

\* The terminal events of a translator of their own.
Fails == sent' = sent \o Failure(Fresh(attempt + 1)) /\ phase' = "ended"

OpenUpstream ==
    /\ phase = "calling" /\ attempt < MaxUpstreams
    /\ attempt' = attempt + 1 /\ lines' = 0
    /\ translator' = Fresh(attempt + 1)
    /\ phase' = "reading"
    /\ UNCHANGED <<asked, chat, sent>>

OutOfBudget ==
    /\ phase = "calling" /\ attempt = MaxUpstreams
    /\ Fails
    /\ UNCHANGED <<asked, chat, attempt, lines, translator>>

\* An answer of 400 or more, a transport error before the first line, or an end
\* without a line: another attempt, or the error for the client.
NoAnswer ==
    /\ phase = "reading" /\ lines = 0
    /\ \/ phase' = "calling" /\ UNCHANGED sent
       \/ Fails
    /\ UNCHANGED <<asked, chat, attempt, lines, translator>>

ReadLine(line) ==
    /\ phase = "reading" /\ lines < MaxLines
    /\ lines' = lines + 1
    /\ translator' = FeedLine(translator, line).tr
    /\ sent' = sent \o FeedLine(translator, line).events
    /\ UNCHANGED <<asked, chat, phase, attempt>>

EndOfUpstream ==
    /\ phase = "reading" /\ lines > 0
    /\ translator' = FinishAnswer(translator).tr
    /\ sent' = sent \o FinishAnswer(translator).events
    /\ phase' = "ended"
    /\ UNCHANGED <<asked, chat, attempt, lines>>

\* A transport error after the first line is never tried again.
CutOff ==
    /\ phase = "reading" /\ lines > 0
    /\ IF translator.finished THEN Fails /\ UNCHANGED translator
       ELSE /\ translator' = FeedLine(translator, "error").tr
            /\ sent' = sent \o FeedLine(translator, "error").events
            /\ phase' = "ended"
    /\ UNCHANGED <<asked, chat, attempt, lines>>

\* Without streaming the answer is one object, of calls or else of the text.
CompletionToResponse(text, calls) ==
    IF calls = <<>> THEN <<[item |-> 0, text |-> text]>>
    ELSE [k \in DOMAIN calls |-> [item |-> k, text |-> <<calls[k]>>]]

AnswerWhole ==
    /\ phase = "calling" /\ attempt < MaxUpstreams
    /\ attempt' = attempt + 1
    /\ \E text \in {<<>>, <<"word">>}, calls \in {<<>>, <<"call1">>, <<"call1", "call2">>} :
          sent' = <<[Event(Fresh(attempt'), "response", 0, <<>>)
                       EXCEPT !.output = CompletionToResponse(text, calls)]>>
    /\ phase' = "ended"
    /\ UNCHANGED <<asked, chat, lines, translator>>

BridgeNext ==
    \/ Convert
    \/ AnswerWhole
    \/ OpenUpstream
    \/ OutOfBudget
    \/ NoAnswer
    \/ \E line \in {"word", "blank", "thought", "error"} \cup CallLines \cup Noise : ReadLine(line)
    \/ EndOfUpstream
    \/ CutOff

-----------------------------------------------------------------------------
\* What of some messages is not an answer to a call.
Others(ms) == FlattenSeq([i \in DOMAIN ms |-> IF IsTool(ms[i]) THEN <<>> ELSE <<ms[i]>>])

(* Every answer to a call stands behind the message that makes the call,   *)
(* with answers only between, once; the other messages keep their order and *)
(* none of them is lost (responses_bridge.py:483).                         *)
AnswersFollowCalls ==
    LET plain == Others(FlattenSeq([i \in DOMAIN asked |-> Messages(asked[i])]))
    IN phase # "asked" =>
        /\ plain # <<>> => Others(chat) = plain
        /\ \A j \in DOMAIN chat :
              LET c == chat[j].calls[1]
              IN IsTool(chat[j]) /\ (\E m \in ToSet(chat) : Calls(m, c)) =>
                  /\ \E i \in 1 .. j - 1 :
                        Calls(chat[i], c) /\ \A k \in i + 1 .. j : IsTool(chat[k])
                  /\ \A k \in DOMAIN chat : chat[k] = chat[j] => k = j

At(events, r, type) ==
    {i \in DOMAIN events : events[i].response = r /\ events[i].type = type}

\* The text that was streamed of a response.
Streamed(events, r) ==
    FlattenSeq([i \in DOMAIN events |->
        IF i \in At(events, r, "delta") THEN events[i].text ELSE <<>>])

\* A response's items are opened once, before they are closed; the text that is
\* closed is the text that was streamed.
ItemsAgree(events, r) ==
    /\ \A i, j \in At(events, r, "added") : events[i].item = events[j].item => i = j
    /\ \A i \in At(events, r, "done") :
          /\ \E o \in At(events, r, "added") : o < i /\ events[o].item = events[i].item
          /\ events[i].item = 0 => Visible(events[i].text) = Visible(Streamed(events, r))

\* It is completed with items that were closed, and nothing follows.
EndsWell(events, r) ==
    \A i \in At(events, r, "completed") :
        /\ \A j \in i + 1 .. Len(events) : events[j].response # r
        /\ \A k \in DOMAIN events[i].output :
              \E d \in At(events, r, "done") :
                 /\ events[d].item = events[i].output[k].item
                 /\ events[d].text = events[i].output[k].text

(* Whatever lines come and wherever the upstream stops, the client gets one *)
(* well-formed response at most: its items are opened once before they are *)
(* closed, the text that is closed is the text that was streamed, what it is *)
(* completed with are items that were closed, nothing follows its end, and *)
(* the stream ends on a completed event (responses_bridge.py:131-392).     *)
StreamWellFormed ==
    LET ids == {sent[i].response : i \in DOMAIN sent}
    IN /\ \A i, j \in DOMAIN sent :
             sent[i].type = "created" /\ sent[j].type = "created" => i = j
       /\ phase = "ended" => sent[Len(sent)].type \in {"completed", "response"}
       /\ \A r \in ids : ItemsAgree(sent, r) /\ EndsWell(sent, r)

(* Requests and streams of the Responses API are translated well: answers  *)
(* keep to their calls, and the client gets one well-formed response       *)
(* (responses_bridge.py:131-523).                                          *)
BridgeAgrees == AnswersFollowCalls /\ StreamWellFormed

BridgeSpec == BridgeInit /\ [][BridgeNext]_bridgeVars

BridgeTypeOK ==
    /\ phase \in {"asked", "calling", "reading", "ended"}
    /\ attempt \in 0 .. MaxUpstreams /\ lines \in 0 .. MaxLines
    /\ \A i \in DOMAIN sent :
          /\ sent[i].response \in 1 .. MaxUpstreams + 1
          /\ sent[i].type \in {"created", "added", "delta", "done", "failed", "completed",
                            "response"}
===============================================================================
