------------------------------- MODULE Clients -------------------------------
(***************************************************************************)
(* Every HTTP client of the system, on both sides of the gateway: a        *)
(* behaviour is one call (of a backend, or of the gateway by an SDK) or    *)
(* one streamed answer relayed to an SDK.                                  *)
(***************************************************************************)
EXTENDS ProviderCalls, StreamRelay

(***************************************************************************)
(* The JSON calls of the two client SDKs: chat, explain, embed,            *)
(* extract_document and the reports differ in path and body only.  The     *)
(* SDKs differ in what bounds a call and in what a broken body means.      *)
(***************************************************************************)
SdkKinds == {"typescript", "python"}

SdkStart ==
  /\ kind \in SdkKinds /\ step = "start"
  /\ Begin("sdk", FALSE)
  /\ UNCHANGED <<kind, attempt, fallback, late, result>>

AtSdk(which) == kind = which /\ step = "sdk" /\ result = None

\* errorCode is "error" when the body of an error says nothing.
Rejected == wire.status # "ok" /\ End("typed error")

Decoded == wire.status = "ok" /\ End(IF wire.body = "whole" THEN "answer" ELSE "hollow")

-----------------------------------------------------------------------------
(* TypeScript: the timer, and with it the caller's signal, is let go of    *)
(* when the headers are there, and a body that cannot be read is {}.       *)

\* finally { signal.cleanup() }
Cleanup ==
  /\ AtSdk("typescript")
  /\ wire.stage = "headers" /\ wire.armed
  /\ wire' = [wire EXCEPT !.armed = FALSE]
  /\ UNCHANGED <<kind, step, attempt, fallback, late, result, charged>>

FetchRejects == AtSdk("typescript") /\ wire.stage = "refused" /\ End("transport error")

\* Lost, too: a timer that fired between the headers and cleanup() breaks it off.
BodyCaught == AtSdk("typescript") /\ wire.stage = "read"

TypeScriptSteps == Cleanup \/ FetchRejects \/ (BodyCaught /\ (Rejected \/ Decoded))

-----------------------------------------------------------------------------
(* Python: httpx bounds every read and raises when a body breaks off; one  *)
(* that came whole and is no JSON is {}.                                   *)

HttpxRaises ==
  /\ AtSdk("python")
  /\ wire.stage = "refused" \/ (wire.stage = "read" /\ wire.body = "lost")
  /\ End("transport error")

BodyRead == AtSdk("python") /\ wire.stage = "read" /\ wire.body # "lost"

RaiseForStatus == BodyRead /\ Rejected

HandleJson == BodyRead /\ Decoded

PythonSteps == HttpxRaises \/ RaiseForStatus \/ HandleJson

SdkSteps == SdkStart \/ TypeScriptSteps \/ PythonSteps

-----------------------------------------------------------------------------
(* The clients together.                                                   *)

clientVars == <<exchangeVars, callVars, relayVars>>

ClientsInit ==
  /\ ExchangeInit
  /\ CallInit(GatewayKinds \cup SdkKinds \cup {"stream"})
  /\ \E which \in SdkKinds : RelayInit(which)
  /\ kind # "stream" => sdk.which = "python" \* no stream, one choice

Environment == (Refuse \/ Respond \/ Deliver \/ Expire) /\ UNCHANGED callVars

Calling == kind # "stream" /\ (ProviderSteps \/ SdkSteps)

Streaming ==
  kind = "stream" /\ (RelayEnvironment \/ IdleTimeout \/ RouteSteps
                      \/ SdkParses \/ SdkEnds \/ FragmentYielded \/ SdkTimesOut)

ClientsNext ==
  \/ Calling /\ UNCHANGED relayVars
  \/ (Environment \/ Deadline) /\ UNCHANGED relayVars
  \/ Streaming /\ UNCHANGED <<exchangeVars, callVars>>

\* The code goes on, timers fire, a consumer reads its stream to the end; no
\* fairness for the other side of a connection.
ClientsFairness ==
  /\ WF_clientVars(Calling /\ UNCHANGED relayVars)
  /\ WF_clientVars(Expire /\ UNCHANGED <<callVars, relayVars>>)
  /\ WF_clientVars(Deadline /\ UNCHANGED relayVars)
  /\ WF_clientVars(kind = "stream" /\ RouteSteps /\ UNCHANGED <<exchangeVars, callVars>>)
  /\ WF_clientVars(kind = "stream" /\ IdleTimeout /\ UNCHANGED <<exchangeVars, callVars>>)
  /\ WF_clientVars(kind = "stream" /\ (SdkParses \/ SdkEnds) /\ UNCHANGED <<exchangeVars, callVars>>)
  /\ WF_clientVars(kind = "stream" /\ SdkTimesOut /\ UNCHANGED <<exchangeVars, callVars>>)

ClientsSpec == ClientsInit /\ [][ClientsNext]_clientVars /\ ClientsFairness

-----------------------------------------------------------------------------
(* No call and no stream waits for ever, wherever the other side stops     *)
(* (litellm.ts:281-285, 336-342), except where the code has let go of its  *)
(* timer by then: a TypeScript SDK call whose headers came and whose body  *)
(* does not, and a stream the proxy refuses with an error whose text does  *)
(* not come (litellm.ts:402-404).  The SDK's end of that stream ends.      *)
HeadersOnly == kind = "typescript" /\ wire.stage = "headers" /\ ~wire.armed
RefusalOnly == route = "refused" /\ up.end = "open"

ExchangesEnd ==
  /\ kind # "stream" ~> (result # None \/ HeadersOnly)
  /\ kind = "stream" ~>
       (sdk.out # "reading" /\ (route \in {"closed", "failed"} \/ RefusalOnly))

(* Retries, the fallback and polls never ask for what a success already    *)
(* answered, except when embeddings came incomplete and the fallback       *)
(* computes them again; and only the services that read a body as {} when  *)
(* they cannot, or skip what it lacks, end without content or error.       *)
PaidOnce ==
  /\ charged > 1 => kind = "embed" /\ charged = 2
  /\ result \in {"answer", "hollow"} /\ kind \in GatewayKinds => charged >= 1
  /\ result = "hollow" => kind # "embed" /\ (kind \in {"chat", "azure"} => wire.body = "partial")

(* What a consumer was given is always a prefix of what the provider said, *)
(* in order; a stream that ends with its done frame gave all of it; and    *)
(* one that was cut short raises, unless an intermediary ended it like a   *)
(* complete one, and then the done frame is missing, or only what follows  *)
(* it (client.ts:274-277, client.py:333-336).  Only then Python may have   *)
(* yielded the beginning of a frame as if it were text (client.py:824-826).*)
HalfHeard == sdk.text # <<>> /\ sdk.text[Len(sdk.text)] = Fragment
Heard == IF HalfHeard THEN SubSeq(sdk.text, 1, Len(sdk.text) - 1) ELSE sdk.text

TruncationTold ==
  /\ Len(Heard) <= said.deltas /\ \A i \in 1..Len(Heard) : Heard[i] = Text(i)
  /\ sdk.out = "returned" /\ sdk.done => up.end = "clean" /\ Len(Heard) = said.deltas
  /\ sdk.out = "returned" /\ ~sdk.done => down.end = "cut"
  /\ HalfHeard => sdk.which = "python" /\ down.end = "cut"

AnswersWhole == PaidOnce /\ TruncationTold
==============================================================================
