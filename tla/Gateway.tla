-------------------------------- MODULE Gateway --------------------------------
(***************************************************************************)
(* Requests through the model gateway (api/routers/gateway.py,             *)
(* infra/gateway_retry.py, infra/gateway.py): a request is checked against *)
(* the key's limits, tried on the models of its chain with retries and     *)
(* fallbacks, and leaves one row in gateway_requests.                      *)
(*                                                                         *)
(* A request goes to one of three APIs and is a plain one or a stream.     *)
(* What the upstream does is a failure (a status, or an error of the       *)
(* transport), or the pieces of an answer: "role" (a chunk without text: a *)
(* role or a tool call), "text", and the end.                              *)
(***************************************************************************)
EXTENDS GatewayRoutes

CONSTANTS Requests,
          Names,          \* the models clients ask for
          Kinds,          \* of requests: a set of [api, stream]
          MaxRetries,     \* max_retries_same_model
          MaxAttempts,    \* max_total_attempts
          RetryOn,        \* retry_on_status and retry_on_errors
          FallbackOn,     \* fallback_on_status and fallback_on_errors
          BurstLimit,     \* burst_rpm_limit, 0 for none
          TokenLimit      \* monthly_token_limit, 0 for none; an answer costs one

VARIABLES
    call,    \* call[r]: the request's handler
    log,     \* gateway_requests: a function on the requests that have a row
    heard    \* history: heard[r], the attempts whose text reached the client

gatewayVars == <<call, log, heard, routes, upstream>>

UpstreamStatuses == {"400", "404", "429", "503"}

TransportErrors == {"timeout", "connection_error", "http_error"}

NonRetryable == {"400", "401", "403", "422"}

Idle == [at |-> "idle"]

Done == [at |-> "done"]

GatewayInit ==
    /\ RoutesInit
    /\ call = [r \in Requests |-> Idle]
    /\ log = [r \in {} |-> Idle]
    /\ heard = [r \in Requests |-> {}]

-----------------------------------------------------------------------------
(* The log.                                                                *)

Spent == Cardinality({r \in DOMAIN log : log[r].tokens = 1})

OverQuota(spent) == TokenLimit > 0 /\ spent >= TokenLimit

OverBurst == BurstLimit > 0 /\ Cardinality({r \in DOMAIN log : log[r].recent}) >= BurstLimit

(* A refused request is a row too, and counts in the window of a minute.   *)
WriteRow(r, status, risk, tokens) ==
    log' = [q \in DOMAIN log \cup {r} |->
               IF q = r THEN [status |-> status, risk |-> risk, tokens |-> tokens, recent |-> TRUE]
               ELSE log[q]]

Finish(r, status, risk, tokens) ==
    /\ call' = [call EXCEPT ![r] = Done]
    /\ WriteRow(r, status, risk, tokens)
    /\ UNCHANGED <<heard, routeVars>>

(* The row of a request that did not fail is marked if the quota is used   *)
(* up; that of a Responses stream is written after the mark was tried.     *)
FinishAllowed(r, tokens) ==
    Finish(r, "200", IF OverQuota(Spent + tokens) /\ ~(call[r].stream /\ call[r].api = "responses")
                     THEN "quota_post" ELSE "allowed", tokens)

FinishAnswered(r) == FinishAllowed(r, 1)

(* A stream that stops has the status of its last attempt, "200" before    *)
(* the first.                                                              *)
FinishStopped(r) ==
    IF call[r].status = "200" THEN FinishAllowed(r, 0)
    ELSE Finish(r, call[r].status, "upstream_error", 0)

WindowMoves(r) ==
    /\ r \in DOMAIN log /\ log[r].recent
    /\ log' = [log EXCEPT ![r].recent = FALSE]
    /\ UNCHANGED <<call, heard, routeVars>>

-----------------------------------------------------------------------------
(* Admission.                                                              *)

NewCall(kind, chain) ==
    [at |-> "next", api |-> kind.api, stream |-> kind.stream, chain |-> chain, hop |-> 1,
     retries |-> 0, attempts |-> 0, status |-> "200", content |-> FALSE, lines |-> FALSE,
     late |-> FALSE]

(* _prepare_chat_context.  Neither check sees the requests under way.      *)
Admit(r, kind, chain) ==
    /\ call[r].at = "idle"
    /\ IF OverBurst THEN Finish(r, "429", "burst", 0)
       ELSE IF OverQuota(Spent) THEN Finish(r, "429", "quota", 0)
       ELSE /\ call' = [call EXCEPT ![r] = NewCall(kind, chain)]
            /\ UNCHANGED <<log, heard, routeVars>>

-----------------------------------------------------------------------------
(* The loop over models and attempts.                                      *)

Active(r, at) == call[r].at = at

Model(r) == call[r].chain[call[r].hop]

Protocol(c) == IF c.api = "anthropic" THEN "anthropic" ELSE "openai"

(* The head of the loop: the budget of attempts and time, then the call of *)
(* the model.  A plain request that cannot be built ends without a row, a  *)
(* stream with the status of the attempt before, "200" if it is the first.   *)
NextAttempt(r) ==
    LET c == call[r]
    IN  /\ Active(r, "next")
        /\ IF c.attempts >= MaxAttempts \/ c.late
           THEN Finish(r, "502", "upstream_error", 0)
           ELSE IF Callable(Model(r), Protocol(c))
           THEN /\ call' = [call EXCEPT ![r].at = "sent", ![r].attempts = @ + 1,
                                        ![r].content = FALSE, ![r].lines = FALSE]
                /\ UNCHANGED <<log, heard, routeVars>>
           ELSE IF ~c.stream
           THEN call' = [call EXCEPT ![r] = Done] /\ UNCHANGED <<log, heard, routeVars>>
           ELSE FinishStopped(r)

ShouldRetry(c, failure) ==
    c.retries < MaxRetries /\ failure \in RetryOn \ NonRetryable

ShouldFallback(c, failure) ==
    c.hop < Len(c.chain) /\ (failure = "404" \/ failure \in FallbackOn \ NonRetryable)

Continue(r, c) == call' = [call EXCEPT ![r] = c] /\ UNCHANGED <<log, heard, routeVars>>

Again(c) == [c EXCEPT !.at = "next", !.retries = @ + 1]

NextHop(c) == [c EXCEPT !.at = "next", !.hop = @ + 1, !.retries = 0]

(* Retry the model, else fall back to the next, else give up.              *)
AfterFailure(r, c, failure, status) ==
    IF ShouldRetry(c, failure) THEN Continue(r, Again(c))
    ELSE IF ShouldFallback(c, failure) THEN Continue(r, NextHop(c))
    ELSE Finish(r, status, "upstream_error", 0)

(* post_chat_with_resilience falls back first when the model is unknown or *)
(* has no quota left.                                                      *)
PostRefused(r, status) ==
    /\ Active(r, "sent") /\ ~call[r].stream
    /\ IF status \in {"404", "429"} /\ ShouldFallback(call[r], status)
       THEN Continue(r, NextHop(call[r]))
       ELSE AfterFailure(r, call[r], status, status)

PostAnswered(r) == Active(r, "sent") /\ ~call[r].stream /\ FinishAnswered(r)

StreamRefused(r, status) ==
    /\ Active(r, "sent") /\ call[r].stream
    /\ AfterFailure(r, [call[r] EXCEPT !.status = status], status, status)

StreamOpens(r) ==
    /\ Active(r, "sent") /\ call[r].stream
    /\ Continue(r, [call[r] EXCEPT !.at = "stream", !.status = "200"])

(* What counts as sent, so that nothing else is tried after it: text for   *)
(* chat, any data for Anthropic, any line for Responses.                   *)
ChatSent(c, piece) == c.content \/ piece = "text"

AnthropicSent(c, piece) == TRUE

ResponsesSent(c, piece) == TRUE

Sent(c, piece) ==
    CASE c.api = "chat" -> ChatSent(c, piece)
      [] c.api = "anthropic" -> AnthropicSent(c, piece)
      [] c.api = "responses" -> ResponsesSent(c, piece)

StreamPiece(r, piece) ==
    /\ Active(r, "stream")
    /\ call' = [call EXCEPT ![r].content = Sent(call[r], piece), ![r].lines = TRUE]
    /\ heard' = IF piece = "text" THEN [heard EXCEPT ![r] = @ \cup {call[r].attempts}] ELSE heard
    /\ UNCHANGED <<log, routeVars>>

(* The end of a chat or Anthropic stream, even an empty one.               *)
ChatStreamEnds(r) ==
    /\ Active(r, "stream") /\ call[r].api \in {"chat", "anthropic"}
    /\ FinishAnswered(r)

(* An empty Responses stream goes on with the next model.                  *)
ResponsesStreamEnds(r) ==
    /\ Active(r, "stream") /\ call[r].api = "responses"
    /\ IF call[r].lines THEN FinishAnswered(r)
       ELSE IF call[r].hop < Len(call[r].chain) THEN Continue(r, NextHop(call[r]))
       ELSE Finish(r, "502", "upstream_error", 0)

(* A Responses stream takes every error but a timeout for one of the       *)
(* connection.                                                             *)
ErrorKind(c, error) ==
    IF c.stream /\ c.api = "responses" /\ error # "timeout" THEN "connection_error" ELSE error

(* Mutant: the stream is tried again whatever was sent.                    *)
BreaksAnyway(r, error) ==
    /\ call[r].at \in {"sent", "stream"}
    /\ AfterFailure(r, call[r], ErrorKind(call[r], error), "502")

(* The transport fails.  Once something was sent the stream ends.          *)
Breaks(r, error) ==
    /\ call[r].at \in {"sent", "stream"}
    /\ IF call[r].content THEN Finish(r, "502", "upstream_error", 0)
       ELSE AfterFailure(r, call[r], ErrorKind(call[r], error), "502")

(* The client of a stream goes away: the row has the last status.          *)
ClientLeaves(r) ==
    /\ call[r].at \in {"next", "sent", "stream"} /\ call[r].stream
    /\ FinishStopped(r)

DeadlinePasses(r) ==
    /\ call[r].at \in {"next", "sent", "stream"} /\ ~call[r].late
    /\ Continue(r, [call[r] EXCEPT !.late = TRUE])

(* post_chat_with_resilience: the whole of a plain request.                *)
Post(r) ==
    /\ ~call[r].stream
    /\ \/ NextAttempt(r) \/ PostAnswered(r) \/ DeadlinePasses(r)
       \/ \E s \in UpstreamStatuses : PostRefused(r, s)
       \/ \E error \in TransportErrors : Breaks(r, error)

(* The generator of a stream.                                              *)
Stream(r) ==
    /\ call[r].stream
    /\ \/ NextAttempt(r) \/ StreamOpens(r) \/ DeadlinePasses(r) \/ ClientLeaves(r)
       \/ \E s \in UpstreamStatuses : StreamRefused(r, s)
       \/ \E piece \in {"role", "text"} : StreamPiece(r, piece)
       \/ ChatStreamEnds(r) \/ ResponsesStreamEnds(r)
       \/ \E error \in TransportErrors : Breaks(r, error)

Of(r, api) == call[r].at \notin {"idle", "done"} /\ call[r].api = api

ChatCompletions(r) == Of(r, "chat") /\ Post(r)

Responses(r) == Of(r, "responses") /\ Post(r)

AnthropicMessages(r) == Of(r, "anthropic") /\ Post(r)

ChatStream(r) == Of(r, "chat") /\ Stream(r)

ResponsesStream(r) == Of(r, "responses") /\ Stream(r)

AnthropicStream(r) == Of(r, "anthropic") /\ Stream(r)

(* The process stops: the requests under way leave no row.                 *)
GatewayRestart ==
    /\ \E r \in Requests : call[r].at \in {"next", "sent", "stream"}
    /\ call' = [r \in Requests |-> IF call[r].at = "idle" THEN Idle ELSE Done]
    /\ UNCHANGED <<log, heard, routeVars>>

RequestNext(r, kinds) ==
    \/ \E kind \in kinds, name \in Names, size \in {"small", "medium", "large"},
          tools \in BOOLEAN :
          \E chain \in Chains(name, Unset, Unset, [size |-> size, tools |-> tools]) :
              Admit(r, kind, chain)
    \/ ChatCompletions(r) \/ Responses(r) \/ AnthropicMessages(r)
    \/ ChatStream(r) \/ ResponsesStream(r) \/ AnthropicStream(r)
    \/ WindowMoves(r)

GatewayNext ==
    \/ \E r \in Requests : RequestNext(r, Kinds)
    \/ GatewayRestart
    \/ AdministerRoutes /\ UNCHANGED <<call, log, heard>>

-----------------------------------------------------------------------------
GatewayTypeOK ==
    /\ RoutesTypeOK
    /\ \A r \in Requests :
          call[r].at \in {"next", "sent", "stream"} =>
              /\ call[r].hop \in 1 .. Len(call[r].chain)
              /\ call[r].retries \in 0 .. MaxRetries
              /\ call[r].attempts \in 0 .. MaxAttempts
    /\ DOMAIN log \subseteq Requests

(* The text a client gets is that of one attempt: after some of it was     *)
(* passed on no retry and no fallback starts over, whatever breaks and     *)
(* whatever the routes become meanwhile (gateway.py:518-640).              *)
OneAnswer == \A r \in Requests : Cardinality(heard[r]) <= 1
===============================================================================
