---------------------------- MODULE ProviderCalls ----------------------------
(***************************************************************************)
(* The gateway's calls of its backends: chat and embeddings through the    *)
(* LiteLLM proxy, with the retries of the first and the fallback of both,  *)
(* and the document providers.  Every timer stays armed until the body is  *)
(* read (AbortSignal.timeout does the same for documents).                 *)
(*                                                                         *)
(* A call ends with an answer, a hollow one (a success whose content was   *)
(* not there), or an error: of the provider, of the client, or raw, one    *)
(* that the code did not classify.                                         *)
(***************************************************************************)
EXTENDS Integers

CONSTANTS
  None,
  MaxAttempts, \* retry.maxAttempts; 1 without a retry policy
  RetryOn      \* the statuses of retry.retryOn

(***************************************************************************)
(* One HTTP exchange as the code that calls fetch sees it: the request is  *)
(* refused or gets headers, the body then arrives or is lost, and the      *)
(* other side may stop at any point.  Only an armed timer bounds that.     *)
(***************************************************************************)
VARIABLES
  wire,    \* the exchange: stage, status, what came of the body, timer armed?
  charged  \* how often a provider accepted work it charges for

exchangeVars == <<wire, charged>>

Statuses == {"ok", "limited", "down", "bad", "odd"} \* 2xx, 429, 5xx, 4xx, 3xx
Bodies   == {"whole", "partial", "garbled", "lost"} \* partial: JSON without what it is read for

ASSUME AttemptAssumption == MaxAttempts \in Nat \ {0}
ASSUME RetryAssumption == RetryOn \subseteq Statuses
ASSUME NoneIsNoResult == None \notin {"answer", "hollow"}
ASSUME NoneIsNoStatus == None \notin Statuses \cup Bodies

NoExchange == [stage |-> "none", status |-> None, body |-> None, armed |-> FALSE, priced |-> FALSE]

ExchangeInit == wire = NoExchange /\ charged = 0

\* priced: a success of this request is one the provider charges for.
Sent(priced) ==
  [stage |-> "sent", status |-> None, body |-> None, armed |-> TRUE, priced |-> priced]

Refuse ==
  /\ wire.stage = "sent"
  /\ wire' = [wire EXCEPT !.stage = "refused"]
  /\ UNCHANGED charged

Respond ==
  /\ wire.stage = "sent"
  /\ \E status \in Statuses :
       /\ wire' = [wire EXCEPT !.stage = "headers", !.status = status]
       /\ charged' = IF wire.priced /\ status = "ok" THEN charged + 1 ELSE charged

Deliver ==
  /\ wire.stage = "headers"
  /\ \E body \in Bodies : wire' = [wire EXCEPT !.stage = "read", !.body = body]
  /\ UNCHANGED charged

(* Mutant: the timer is cleared when the headers are there.                *)
ExpireBeforeHeaders ==
  /\ wire.armed
  /\ wire.stage = "sent"
  /\ wire' = [wire EXCEPT !.stage = "refused"]
  /\ UNCHANGED charged

\* The timer aborts the request, or the reading of its body.
Expire ==
  /\ wire.armed
  /\ wire.stage \in {"sent", "headers"}
  /\ wire' = IF wire.stage = "sent" THEN [wire EXCEPT !.stage = "refused"]
             ELSE [wire EXCEPT !.stage = "read", !.body = "lost"]
  /\ UNCHANGED charged

Got(status) == wire.stage = "read" /\ wire.status = status

(***************************************************************************)
(* The gateway's calls.                                                    *)
(***************************************************************************)
VARIABLES
  kind,     \* who calls what
  step,     \* which of the call's exchanges is awaited
  attempt,  \* attempts at the model in use
  fallback, \* is there a fallback model left?
  late,     \* the deadline of an Azure analysis has passed
  result    \* how the call ended

callVars == <<kind, step, attempt, fallback, late, result>>

GatewayKinds == {"chat", "embed", "bytes", "azure"} \* bytes: Textract, Tesseract

CallInit(kinds) ==
  /\ kind \in kinds
  /\ step = "start" /\ attempt = 0 /\ late = FALSE /\ result = None
  /\ fallback \in IF kind \in {"chat", "embed"} THEN BOOLEAN ELSE {FALSE}

Begin(s, priced) == step' = s /\ wire' = Sent(priced) /\ UNCHANGED charged

End(r) ==
  /\ result' = r
  /\ UNCHANGED <<kind, step, attempt, fallback, late, wire, charged>>

-----------------------------------------------------------------------------
(* Chat and embeddings.                                                    *)

Attempts == IF kind = "chat" THEN MaxAttempts ELSE 1

Start ==
  /\ kind \in {"chat", "embed"} /\ step = "start"
  /\ Begin("model", TRUE)
  /\ attempt' = 1
  /\ UNCHANGED <<kind, fallback, late, result>>

AtModel == step = "model" /\ result = None

Retryable == wire.stage = "refused" \/ (wire.stage = "read" /\ wire.status \in RetryOn)

\* What the client raises as a ProviderError.
ProviderFailed ==
  \/ wire.stage = "refused" \/ Got("limited") \/ Got("down")
  \/ kind = "embed" /\ Got("ok") /\ wire.body = "partial"

Retry ==
  /\ AtModel
  /\ Retryable /\ ProviderFailed
  /\ attempt < Attempts
  /\ Begin("model", TRUE)
  /\ attempt' = attempt + 1
  /\ UNCHANGED <<kind, fallback, late, result>>

GivenUp == ProviderFailed /\ ~(Retryable /\ attempt < Attempts)

\* executeProviderWithFallback; the second decision may block it, or its
\* price not be covered.
Fallback ==
  /\ AtModel /\ GivenUp /\ fallback
  /\ Begin("model", TRUE)
  /\ attempt' = 1
  /\ fallback' = FALSE
  /\ UNCHANGED <<kind, late, result>>

FallbackBlocked == AtModel /\ GivenUp /\ fallback /\ End("blocked")

ModelFails == AtModel /\ GivenUp /\ ~fallback /\ End("provider error")

ModelRejects == AtModel /\ (Got("bad") \/ Got("odd")) /\ End("client error")

ModelAnswers ==
  /\ AtModel /\ Got("ok") /\ ~ProviderFailed
  /\ End(CASE wire.body = "whole" -> "answer"
           [] wire.body = "partial" -> "hollow"
           [] wire.body \in {"garbled", "lost"} -> "raw error")

-----------------------------------------------------------------------------
(* Documents.                                                              *)

\* sourceToBase64 of a url; an s3 uri outside the allowlist, or a source
\* the provider does not support, is refused before anything is sent.
FetchSource ==
  /\ kind = "bytes" /\ step = "start" /\ result = None
  /\ Begin("source", FALSE)
  /\ UNCHANGED <<kind, attempt, fallback, late, result>>

SourceRefused == kind \in {"bytes", "azure"} /\ step = "start" /\ result = None /\ End("client error")

AtSource == step = "source" /\ result = None

SourceFails ==
  /\ AtSource
  /\ \/ (wire.stage = "refused" \/ (Got("ok") /\ wire.body = "lost")) /\ End("provider error")
     \/ wire.stage \in {"headers", "read"} /\ End("client error") \* no success, or too large

\* The document itself: from the source, inline, or by s3 uri.
Extract ==
  /\ kind = "bytes"
  /\ (step = "start" /\ result = None) \/ (AtSource /\ Got("ok") /\ wire.body # "lost")
  /\ Begin("extract", TRUE)
  /\ UNCHANGED <<kind, attempt, fallback, late, result>>

AtExtract == step = "extract" /\ result = None

Submit ==
  /\ kind = "azure" /\ step = "start" /\ result = None
  /\ Begin("submit", TRUE)
  /\ UNCHANGED <<kind, attempt, fallback, late, result>>

AtSubmit == step = "submit" /\ result = None

\* The error mapping all document adapters share.
DocumentFails ==
  /\ AtExtract \/ AtSubmit \/ (step = "poll" /\ result = None)
  /\ \/ (wire.stage = "refused" \/ Got("down") \/ Got("odd")) /\ End("provider error")
     \/ (Got("limited") \/ Got("bad")) /\ End("client error")

ExtractAnswers ==
  AtExtract /\ Got("ok") /\ End(IF wire.body = "whole" THEN "answer" ELSE "hollow")

\* 202, with or without an operation to poll; the body is not read.
AtAccepted == AtSubmit /\ wire.stage \in {"headers", "read"} /\ wire.status = "ok"
NoOperation == AtAccepted /\ End("provider error")

Unfinished == wire.body \in {"whole", "garbled", "lost"} \* running, or {} of readJsonSafe
Polling == AtAccepted \/ (step = "poll" /\ result = None /\ Got("ok") /\ Unfinished)

Poll ==
  /\ Polling /\ ~late
  /\ Begin("poll", FALSE)
  /\ UNCHANGED <<kind, attempt, fallback, late, result>>

TimedOut == Polling /\ late /\ End("provider error")

PollAnswers ==
  /\ step = "poll" /\ result = None /\ Got("ok")
  /\ \/ wire.body = "whole" /\ (End("answer") \/ End("provider error"))
     \/ wire.body = "partial" /\ End("hollow")

\* The deadline; it is also when the timer of a poll fires.
Deadline ==
  /\ kind = "azure" /\ step # "start" /\ ~late
  /\ late' = TRUE
  /\ UNCHANGED <<kind, step, attempt, fallback, result, wire, charged>>

ProviderSteps ==
  \/ Start \/ Retry \/ Fallback \/ FallbackBlocked \/ ModelFails \/ ModelRejects \/ ModelAnswers
  \/ FetchSource \/ SourceRefused \/ SourceFails \/ Extract \/ Submit \/ DocumentFails
  \/ ExtractAnswers \/ NoOperation \/ Poll \/ TimedOut \/ PollAnswers
==============================================================================
