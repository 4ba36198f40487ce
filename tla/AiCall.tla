-------------------------------- MODULE AiCall --------------------------------
(***************************************************************************)
(* One call of the reviewer's AI (packages/decision-ai): recommend asks the *)
(* models of the task in their order until one answers (client.ts), by the *)
(* provider of the task (nine-router-provider.ts, provider-factory.ts).    *)
(* Each request has one deadline, over its headers, its body and the       *)
(* cancelling of either; the provider may answer anything, in pieces, or   *)
(* never.                                                                  *)
(***************************************************************************)
EXTENDS Naturals, Sequences, SequencesExt

CONSTANTS
    Model,      \* models
    Name,       \* names a provider reports a model by
    Verified,   \* [Model -> names verified for it]: registry.ts
    Budget,     \* ticks of timeoutMs
    MaxBody,    \* MAX_RESPONSE_BODY_BYTES, in pieces of a body
    None

VARIABLES
    client,     \* the client built for the task
    input,      \* what is known of the input
    step,
    model,      \* position of the model asked
    left,       \* ticks to the deadline of the request
    body,       \* pieces of the body received
    failures,   \* history: why the models before this one failed
    answer,     \* what the provider answered last
    result

vars == <<client, input, step, model, left, body, failures, answer, result>>

----------------------------------------------------------------------------
(* The client of a task and the input of a call                            *)

\* createToolAiModelRegistry: a default model and its fallbacks, each once.
Registry == UNION {SetToSeqs(S) : S \in SUBSET Model \ {{}}}

Refusing(code) ==
    [provider |-> "9router", requested |-> <<CHOOSE m \in Model : TRUE>>,
     allowed |-> {}, preflight |-> code]

\* createBaselineAiClientForTask: no task, a disabled one, a provider that has
\* no client, or one whose secret is missing asks nobody.
TaskClient ==
    {Refusing(code) : code \in {"CONFIG_MISSING", "FEATURE_DISABLED", "PROVIDER_UNAVAILABLE"}}
    \cup [provider : {"openai-compatible"}, requested : {<<m>> : m \in Model},
          allowed : {Model}, preflight : {None}]
    \cup {c \in [provider : {"9router"}, requested : Registry, allowed : SUBSET Model,
                 preflight : {None}] : ToSet(c.requested) \subseteq c.allowed}

Input == [valid : BOOLEAN, complete : BOOLEAN, freshness : {"FRESH", "STALE", "UNKNOWN"},
          onHold : BOOLEAN]

\* Complete, reconciled and fresh; or stale with an official amount on hold.
Admissible(i) ==
    /\ i.valid /\ i.complete
    /\ i.freshness = "FRESH" \/ (i.freshness = "STALE" /\ i.onHold)

Init ==
    /\ client \in TaskClient
    /\ input \in Input
    /\ step = "start" /\ model = 1
    /\ left = 0 /\ body = 0
    /\ failures = <<>>
    /\ answer = None /\ result = None

Asked == client.requested[model]
call == <<client, input>>

----------------------------------------------------------------------------
(* recommend                                                               *)

Unavailable(code) == [status |-> "UNAVAILABLE", code |-> code, model |-> Asked]

Return(r) == step' = "done" /\ result' = r

\* Before anything is asked.
Refused ==
    IF ~ input.valid THEN "INVALID_RESPONSE"
    ELSE IF client.preflight # None THEN client.preflight
    ELSE IF ~ Admissible(input) THEN "INVALID_RESPONSE"
    ELSE None

Start ==
    /\ step = "start"
    /\ IF Refused # None THEN Return(Unavailable(Refused))
       ELSE step' = "ask" /\ UNCHANGED result
    /\ UNCHANGED <<call, model, left, body, failures, answer>>

Ask ==
    /\ step = "ask"
    /\ IF Asked \notin client.allowed
       THEN Return(Unavailable("MODEL_NOT_ALLOWED")) /\ UNCHANGED <<left, body>>
       ELSE step' = "headers" /\ left' = Budget /\ body' = 0 /\ UNCHANGED result
    /\ UNCHANGED <<call, model, failures, answer>>

MayFallBack(code) == TRUE  \* mutant

\* canUseFallback: an answer that is refused is the end of the call.
CanUseFallback(code) == code # "INVALID_RESPONSE"

\* A request fails: the next model is asked, if there is one.
Fails(code) ==
    /\ failures' = Append(failures, code)
    /\ IF CanUseFallback(code) /\ model < Len(client.requested)
       THEN model' = model + 1 /\ step' = "ask" /\ UNCHANGED result
       ELSE Return(Unavailable(code)) /\ UNCHANGED model

\* resolveActualModel: the name must be one verified for the model asked.
ActualModel(name) ==
    IF client.provider = "9router" THEN
        (IF Asked \in client.allowed /\ name \in Verified[Asked] THEN name ELSE None)
    ELSE name

\* A body as it was parsed: whole or not, under some name, with the secret in
\* it or not.
Bodies == [whole : BOOLEAN, name : Name, tainted : BOOLEAN]

Decode ==
    /\ step = "decode"
    /\ \E b \in Bodies :
          /\ answer' = b
          /\ IF ~ b.whole \/ b.tainted THEN Fails("INVALID_RESPONSE")
             ELSE /\ UNCHANGED <<model, failures>>
                  /\ Return(IF ActualModel(b.name) = None THEN Unavailable("INVALID_RESPONSE")
                            ELSE [status |-> "AVAILABLE", model |-> Asked,
                                  actual |-> ActualModel(b.name)])
    /\ UNCHANGED <<call, left, body>>

----------------------------------------------------------------------------
(* fetchResponseBody                                                       *)

Waiting == step \in {"headers", "body", "cancel", "overflow"}

\* httpFailure: of an answer that is not 2xx.
HttpFailure(status) ==
    CASE status = 429 -> "RATE_LIMITED"
      [] status = 404 /\ client.provider = "9router" -> "MODEL_UNAVAILABLE"
      [] status = 500 -> "PROVIDER_UNAVAILABLE"
      [] OTHER -> "HTTP_ERROR"

\* The headers: the body of an error is cancelled, and that is waited for.
Headers(status) ==
    /\ step = "headers" /\ left > 0
    /\ step' = IF status = 200 THEN "body" ELSE "cancel"
    /\ answer' = [status |-> status]
    /\ UNCHANGED <<call, model, left, body, failures, result>>

Cancelled ==
    /\ step = "cancel" /\ left > 0
    /\ Fails(HttpFailure(answer.status))
    /\ UNCHANGED <<call, left, body, answer>>

\* readBoundedResponseBody: a body too large is cancelled first.
Piece ==
    /\ step = "body" /\ left > 0
    /\ body' = body + 1
    /\ step' = IF body' > MaxBody THEN "overflow" ELSE "body"
    /\ UNCHANGED <<call, model, left, failures, answer, result>>

TooLarge ==
    /\ step = "overflow" /\ left > 0
    /\ Fails("INVALID_RESPONSE")
    /\ UNCHANGED <<call, left, body, answer>>

EndOfBody ==
    /\ step = "body" /\ left > 0
    /\ step' = "decode"
    /\ UNCHANGED <<call, model, left, body, failures, answer, result>>

\* The connection breaks, or is redirected.
Breaks ==
    /\ step \in {"headers", "body"} /\ left > 0
    /\ Fails("NETWORK_ERROR")
    /\ UNCHANGED <<call, left, body, answer>>

\* The timer of the request rejects whatever it waits for.
TimesOut == Waiting /\ left = 0

Timeout ==
    /\ TimesOut
    /\ Fails("TIMEOUT")
    /\ UNCHANGED <<call, left, body, answer>>

Tick ==
    /\ Waiting /\ left > 0
    /\ left' = left - 1
    /\ UNCHANGED <<call, step, model, body, failures, answer, result>>

Own == Start \/ Ask \/ Decode \/ Timeout
Provider ==
    \/ \E status \in {200, 404, 429, 403, 500} : Headers(status)
    \/ Cancelled \/ Piece \/ TooLarge \/ EndOfBody \/ Breaks

Next == Own \/ Tick \/ Provider

\* Nothing is asked of the provider.
Spec == Init /\ [][Next]_vars /\ WF_vars(Own) /\ WF_vars(Tick)

----------------------------------------------------------------------------
(* Properties                                                              *)

\* A verdict is what the model it names answered: it was asked for input that
\* may be judged, in a list that allows it, it answered whole under a name
\* verified for it, and the models before it failed to answer rather than
\* answered something that was refused.
VerdictIsEarned ==
    result # None /\ result.status = "AVAILABLE" =>
        /\ Admissible(input) /\ client.preflight = None
        /\ result.model = Asked /\ Asked \in client.allowed
        /\ answer.whole /\ ~ answer.tainted /\ result.actual = answer.name
        /\ client.provider = "9router" => answer.name \in Verified[Asked]
        /\ Len(failures) = model - 1 /\ "INVALID_RESPONSE" \notin ToSet(failures)

=============================================================================
