----------------------------- MODULE StreamRelay -----------------------------
(***************************************************************************)
(* A streamed answer on its way through two SSE connections: from the      *)
(* proxy to the gateway, whose generator parses it and whose route writes  *)
(* frames of its own, and from there to an SDK.  A connection carries      *)
(* lines; a read may end in the middle of one, so that what was received   *)
(* is counted in halves of lines and the reader keeps the odd half.        *)
(***************************************************************************)
EXTENDS Integers, Sequences

CONSTANTS
  MaxText, \* bound: deltas of an answer
  MaxNoise \* bound: comments, malformed frames and error objects without choices

ASSUME RelayBoundAssumption == {MaxText, MaxNoise} \subseteq Nat

VARIABLES
  up, down, \* the connections: lines sent, halves received, lines parsed, how it ended
  route,    \* the route: opening, refused (reading an error's text), relaying, settling,
            \* closed, or failed before the first delta
  sdk,      \* the SDK: which, the text it yielded, the done frame, the error flag, how it returned
  said      \* what the provider sent: deltas and noise, and whether that is all

relayVars == <<up, down, route, sdk, said>>

Connection == [lines |-> <<>>, got |-> 0, parsed |-> 0, end |-> "open"]

RelayInit(which) ==
  /\ up = Connection /\ down = Connection
  /\ route = "opening"
  /\ said = [deltas |-> 0, noise |-> 0, all |-> FALSE]
  /\ sdk = [which |-> which, text |-> <<>>, done |-> FALSE, error |-> FALSE, out |-> "reading"]

Text(i) == <<"text", i>>
Noise == <<"noise">>
Usage == <<"usage">>
Sentinel == <<"[DONE]">>
DoneFrame == <<"done">>
ErrorEvent == <<"event: error">>
ErrorData == <<"code">>
Fragment == <<"fragment">>

Wrote(c, lines) == [c EXCEPT !.lines = @ \o lines]
Ended(c) == IF c.end = "open" THEN [c EXCEPT !.end = "clean"] ELSE c
Lost(c) == c.end \in {"broken", "cut"}
Undelivered(c) == ~Lost(c) /\ (c.end = "open" \/ c.got < 2 * Len(c.lines))

\* More of what was sent arrives, perhaps up to the middle of a line.
Received(c) ==
  IF Lost(c) THEN {} ELSE {[c EXCEPT !.got = n] : n \in (c.got + 1)..(2 * Len(c.lines))}

HasLine(c) == 2 * (c.parsed + 1) <= c.got
NextLine(c) == c.lines[c.parsed + 1]
Parsed(c) == [c EXCEPT !.parsed = @ + 1]

\* The read loop learns of the end after everything that was received.
Drained(c) == ~HasLine(c) /\ (Lost(c) \/ (c.end = "clean" /\ c.got = 2 * Len(c.lines)))

Relaying == route \in {"opening", "relaying"}

-----------------------------------------------------------------------------
(* The provider: an error, or deltas, a usage frame and [DONE]; it may     *)
(* end, break off or fall silent anywhere.                                 *)
ProviderSays ==
  /\ up.end = "open" /\ ~said.all /\ route # "refused"
  /\ \/ /\ said.deltas < MaxText
        /\ up' = Wrote(up, <<Text(said.deltas + 1)>>)
        /\ said' = [said EXCEPT !.deltas = @ + 1]
     \/ /\ said.noise < MaxNoise
        /\ up' = Wrote(up, <<Noise>>)
        /\ said' = [said EXCEPT !.noise = @ + 1]
     \/ up' = Wrote(up, <<Usage, Sentinel>>) /\ said' = [said EXCEPT !.all = TRUE]
  /\ UNCHANGED <<down, route, sdk>>

ProviderEnds ==
  /\ up.end = "open"
  /\ up' = Ended(up)
  /\ UNCHANGED <<down, route, sdk, said>>

\* The headers are no success: chatStream lets go of its idle timer and of the
\* caller's signal, and then reads the text of the error.
UpstreamRefuses ==
  /\ route = "opening" /\ up = Connection
  /\ route' = "refused"
  /\ UNCHANGED <<up, down, sdk, said>>

UpstreamBreaks ==
  /\ \/ Relaying /\ Undelivered(up)
     \/ route = "refused" /\ up.end = "open"
  /\ up' = [up EXCEPT !.end = "broken"]
  /\ UNCHANGED <<down, route, sdk, said>>

\* The idle timer, armed from the request to the last read of a success.
IdleTimeout ==
  /\ Relaying /\ Undelivered(up)
  /\ up' = [up EXCEPT !.end = "broken"]
  /\ UNCHANGED <<down, route, sdk, said>>

-----------------------------------------------------------------------------
(* The gateway: chatStream, and the loop of streamChat.                    *)
GatewayReads ==
  /\ up' \in Received(up)
  /\ UNCHANGED <<down, route, sdk, said>>

\* Only deltas pass; after [DONE] the loop reads on, to the end.
Relay ==
  /\ Relaying
  /\ HasLine(up)
  /\ up' = Parsed(up)
  /\ IF NextLine(up)[1] = "text"
       THEN down' = Wrote(down, <<NextLine(up)>>) /\ route' = "relaying"
       ELSE UNCHANGED <<down, route>>
  /\ UNCHANGED <<sdk, said>>

UpstreamEnds ==
  /\ Relaying
  /\ Drained(up) /\ up.end = "clean"
  /\ route' = "settling"
  /\ UNCHANGED <<up, down, sdk, said>>

Settled ==
  /\ route = "settling"
  /\ route' = "closed"
  /\ down' = Ended(Wrote(down, <<DoneFrame, Sentinel>>))
  /\ UNCHANGED <<up, sdk, said>>

ErrorEnd == Ended(Wrote(down, <<ErrorEvent, ErrorData>>))

\* The upstream broke after the first delta, the duration cap fired, or the
\* settlement failed.
Interrupted ==
  /\ \/ route = "relaying" /\ Drained(up) /\ up.end = "broken"
     \/ route = "settling"
  /\ route' = "closed"
  /\ down' = ErrorEnd
  /\ UNCHANGED <<up, sdk, said>>

\* Before the first delta it is an HTTP error: no stream begins.  An error is
\* raised when its text is there, or what came of it.
FailsEarly ==
  /\ \/ route = "opening" /\ Drained(up) /\ up.end = "broken"
     \/ route = "refused" /\ up.end # "open"
  /\ route' = "failed"
  /\ UNCHANGED <<up, down, sdk, said>>

-----------------------------------------------------------------------------
(* The way to the SDK: it may break off, and an intermediary may end it as *)
(* if it were complete.                                                    *)
DownstreamBreaks ==
  /\ sdk.out = "reading" /\ route # "failed" /\ Undelivered(down)
  /\ \E how \in {"broken", "cut"} : down' = [down EXCEPT !.end = how]
  /\ UNCHANGED <<up, route, sdk, said>>

SdkReceives ==
  /\ sdk.out = "reading"
  /\ down' \in Received(down)
  /\ UNCHANGED <<up, route, sdk, said>>
\* What the SDK does with one line.
Yielded(t) == [sdk EXCEPT !.text = Append(@, t)]
Raised == [sdk EXCEPT !.out = "raised"]
Returned == [sdk EXCEPT !.out = "returned"]

Understood(line) ==
  CASE line = Sentinel -> Returned
    [] line = ErrorEvent -> [sdk EXCEPT !.error = TRUE]
    [] line = ErrorData \/ (sdk.error /\ line # ErrorEvent /\ line # Sentinel) -> Raised
    [] line = DoneFrame /\ ~sdk.error -> [sdk EXCEPT !.done = TRUE]
    [] line[1] = "text" /\ ~sdk.error -> Yielded(line)

(* Mutant: the SDK that knew no error event, and skipped what is no delta. *)
SdkParsesTextOnly ==
  /\ sdk.out = "reading"
  /\ HasLine(down)
  /\ down' = Parsed(down)
  /\ sdk' = IF NextLine(down) \in {ErrorEvent, ErrorData} THEN sdk ELSE Understood(NextLine(down))
  /\ UNCHANGED <<up, route, said>>

SdkParses ==
  /\ sdk.out = "reading"
  /\ HasLine(down)
  /\ down' = Parsed(down)
  /\ sdk' = Understood(NextLine(down))
  /\ UNCHANGED <<up, route, said>>

SdkEnds ==
  /\ sdk.out = "reading"
  /\ Drained(down) \/ route = "failed"
  /\ sdk' = IF route = "failed" \/ down.end = "broken" THEN Raised ELSE Returned
  /\ UNCHANGED <<up, down, route, said>>

\* At a clean end iter_lines hands out the half line it holds, and Python
\* takes data that is no JSON for text.
FragmentYielded ==
  /\ sdk.out = "reading" /\ sdk.which = "python"
  /\ Drained(down) /\ down.end = "cut" /\ down.got = 2 * down.parsed + 1
  /\ NextLine(down) # ErrorEvent
  /\ sdk' = IF sdk.error THEN Raised ELSE [Yielded(Fragment) EXCEPT !.out = "returned"]
  /\ UNCHANGED <<up, down, route, said>>

\* The TypeScript SDK's timer runs over the whole stream, httpx bounds each read.
SdkTimesOut ==
  /\ sdk.out = "reading"
  /\ sdk.which = "python" => ~HasLine(down)
  /\ sdk' = Raised
  /\ UNCHANGED <<up, down, route, said>>

RouteSteps == Relay \/ UpstreamEnds \/ Settled \/ Interrupted \/ FailsEarly

RelayEnvironment ==
  \/ ProviderSays \/ ProviderEnds \/ UpstreamRefuses \/ UpstreamBreaks \/ GatewayReads
  \/ DownstreamBreaks \/ SdkReceives
==============================================================================
