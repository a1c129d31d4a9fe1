------------------------------- MODULE Stream -------------------------------
(***************************************************************************)
(* One streamed chat request after its reservation: the read loop of       *)
(* streamChat, the listeners on the client's socket, the duration cap, the *)
(* abort signal into the upstream generator, and the one terminal action   *)
(* (full settle, partial settle or release) that must end the reservation. *)
(* JavaScript runs one callback at a time: a stretch of code between two   *)
(* awaits is one action.  A socket is destroyed first and emits its        *)
(* "close" event later.                                                    *)
(***************************************************************************)
EXTENDS Integers, FiniteSets

CONSTANTS
    MaxChunks,  \* bound: deltas the provider may produce
    Env         \* what an environment may do beyond the ordinary:
                \*   "slowReader": the client keeps the socket and reads nothing
                \*   "slowFirst":  frames without text delay the first delta
                \*   "stalledRefusal": a provider that answers with an error and
                \*                 does not send its text

ASSUME ChunkAssumption == MaxChunks \in Nat \ {0}
ASSUME EnvAssumption == Env \subseteq {"slowReader", "slowFirst", "stalledRefusal"}

VARIABLES
    env,        \* what this stream's environment does
    phase,      \* where the handler is: before its listener, awaiting the
                \* first delta, or the text of an error in its place, reading,
                \* writing, settling, or returned
    socket,     \* the client's socket: open, destroyed, closed (event emitted)
    listener,   \* what listens to "close": none, early (onEarlyClose), main (onClose)
    aborted,    \* controller.signal.aborted
    timer,      \* the duration cap: off, armed, fired
    finished,   \* the flag claim() tests and sets
    pending,    \* terminal actions begun and not yet done with the ledger
    chars,      \* outputChars, in deltas
    tardy,      \* the first delta came after more than one idle window
    hold,       \* the reservation: held, swept, booked, released, lapsed
    begun       \* history: how often each terminal action was begun

vars == <<env, phase, socket, listener, aborted, timer, finished, pending, chars,
          tardy, hold, begun>>

Terminal == {"full", "partial", "release"}
Phases   == {"attach", "first", "refused", "read", "write", "settling", "returned"}

Init ==
    /\ env \in SUBSET Env
    /\ phase    = "attach"
    /\ socket   = "open"
    /\ listener = "none"
    /\ aborted  = FALSE
    /\ timer    = "off"
    /\ finished = FALSE
    /\ pending  = {}
    /\ chars    = 0
    /\ tardy    = FALSE
    /\ hold     = "held"
    /\ begun    = [t \in Terminal |-> 0]

(* claim(): the first of the contenders begins its terminal action, the    *)
(* others do nothing.                                                      *)
Claim(t) ==
    /\ finished' = TRUE
    /\ IF finished THEN UNCHANGED <<pending, begun>>
       ELSE /\ pending' = pending \cup {t}
            /\ begun'   = [begun EXCEPT ![t] = @ + 1]

NoClaim == UNCHANGED <<finished, pending, begun>>

-----------------------------------------------------------------------------
(* onEarlyClose is attached; a client already gone is handled on the spot. *)
Attach ==
    /\ phase = "attach"
    /\ listener' = "early"
    /\ IF socket = "open"
       THEN phase' = "first" /\ NoClaim /\ UNCHANGED aborted
       ELSE phase' = "returned" /\ aborted' = TRUE /\ Claim("release")
    /\ UNCHANGED <<socket, timer, chars, tardy, hold>>

(* Frames without text re-arm the idle timer and yield no delta.           *)
FirstIsSlow ==
    /\ phase = "first"
    /\ "slowFirst" \in env
    /\ tardy' = TRUE
    /\ UNCHANGED <<phase, socket, listener, aborted, timer, finished, pending,
                   chars, hold, begun>>

FailFirst ==
    /\ listener' = "none"
    /\ Claim("release")
    /\ phase' = "returned"
    /\ UNCHANGED <<socket, aborted, timer, chars, tardy, hold>>

FirstFails == phase = "first" /\ FailFirst

(* The provider refuses with an error: chatStream has cleared its idle     *)
(* timer and let go of the abort signal when it reads the text, which may  *)
(* not come.                                                               *)
RefusalStalls ==
    /\ phase = "first" /\ ~aborted
    /\ "stalledRefusal" \in env
    /\ phase' = "refused"
    /\ UNCHANGED <<socket, listener, aborted, timer, finished, pending, chars,
                   tardy, hold, begun>>

RefusalEnds == phase = "refused" /\ FailFirst

(* The loop ends: the main listener goes, the cap's timer is cleared.      *)
LeaveLoop ==
    /\ listener' = "none"
    /\ timer'    = IF timer = "armed" THEN "off" ELSE timer

(* gen.next() returned the end: settle in full unless it is claimed.       *)
Finish ==
    /\ LeaveLoop
    /\ Claim("full")
    /\ phase' = IF finished THEN "returned" ELSE "settling"

(* One delta: count it and write it.  A write the socket's buffer cannot   *)
(* take makes the loop wait for "drain" or "close", and Node answers every *)
(* write to a closed response that way.                                    *)
WriteDelta ==
    /\ chars < MaxChunks
    /\ chars' = chars + 1
    /\ phase' \in {"write"} \cup IF socket = "closed" THEN {} ELSE {"read"}

(* Mutants: the early listener stays for the whole stream; no listener     *)
(* replaces it.                                                            *)
FirstKeepsEarly ==
    /\ phase = "first"
    /\ ~aborted
    /\ socket = "open"
    /\ timer' = "armed"
    /\ WriteDelta
    /\ NoClaim
    /\ UNCHANGED <<socket, listener, aborted, tardy, hold>>
FirstDropsListener ==
    /\ phase = "first"
    /\ ~aborted
    /\ socket = "open"
    /\ listener' = "none"
    /\ timer' = "armed"
    /\ WriteDelta
    /\ NoClaim
    /\ UNCHANGED <<socket, aborted, tardy, hold>>

(* The first delta arrives: the response is committed and the listeners    *)
(* change hands in one stretch; a socket destroyed by now ends it.         *)
FirstDelta ==
    /\ phase = "first"
    /\ IF socket = "open"
       THEN /\ listener' = "main"
            /\ timer' = "armed"
            /\ WriteDelta
            /\ NoClaim
            /\ UNCHANGED aborted
       ELSE /\ listener' = "none"
            /\ aborted' = TRUE
            /\ Claim("release")
            /\ phase' = "returned"
            /\ UNCHANGED <<timer, chars>>
    /\ UNCHANGED <<socket, tardy, hold>>

(* ... or the generator ends without a delta.                              *)
FirstIsEnd ==
    /\ phase = "first"
    /\ IF socket = "open"
       THEN Finish /\ UNCHANGED aborted
       ELSE /\ listener' = "none"
            /\ aborted' = TRUE
            /\ Claim("release")
            /\ phase' = "returned"
            /\ UNCHANGED timer
    /\ UNCHANGED <<socket, chars, tardy, hold>>

(* Later deltas; some may have been buffered before an abort.              *)
NextDelta ==
    /\ phase = "read"
    /\ WriteDelta
    /\ NoClaim
    /\ UNCHANGED <<socket, listener, aborted, timer, tardy, hold>>

NextIsEnd ==
    /\ phase = "read"
    /\ Finish
    /\ UNCHANGED <<socket, aborted, chars, tardy, hold>>

(* Upstream failed, stalled for an idle window, or was aborted.            *)
NextFails ==
    /\ phase = "read"
    /\ LeaveLoop
    /\ Claim("partial")
    /\ phase' = "returned"
    /\ UNCHANGED <<socket, aborted, chars, tardy, hold>>

(* The client reads: "drain".                                              *)
Drain ==
    /\ phase = "write"
    /\ socket = "open"
    /\ phase' = "read"
    /\ UNCHANGED <<socket, listener, aborted, timer, finished, pending, chars,
                   tardy, hold, begun>>

(* settleStream has done with the ledger; the last frames are written.     *)
Return ==
    /\ phase = "settling"
    /\ "full" \notin pending
    /\ phase' = "returned"
    /\ UNCHANGED <<socket, listener, aborted, timer, finished, pending, chars,
                   tardy, hold, begun>>

-----------------------------------------------------------------------------
ClientGone ==
    /\ socket = "open"
    /\ socket' = "destroyed"
    /\ UNCHANGED <<phase, listener, aborted, timer, finished, pending, chars,
                   tardy, hold, begun>>

(* Mutant: onClose aborts the upstream and leaves the settling to the loop. *)
CloseOnlyAborts ==
    /\ socket = "destroyed"
    /\ socket' = "closed"
    /\ aborted' = (listener # "none")
    /\ phase' = IF phase = "write" THEN "read" ELSE phase
    /\ NoClaim
    /\ UNCHANGED <<listener, timer, chars, tardy, hold>>

(* "close" is emitted: the attached listener runs, and a loop waiting in   *)
(* writeSse goes on reading.                                               *)
CloseEvent ==
    /\ socket = "destroyed"
    /\ socket' = "closed"
    /\ \/ /\ listener = "early"
          /\ aborted' = TRUE
          /\ Claim("release")
       \/ /\ listener = "main" /\ ~finished
          /\ aborted' = TRUE
          /\ Claim("partial")
       \/ /\ listener = "none" \/ (listener = "main" /\ finished)
          /\ NoClaim
          /\ UNCHANGED aborted
    /\ phase' = IF phase = "write" THEN "read" ELSE phase
    /\ UNCHANGED <<listener, timer, chars, tardy, hold>>

(* The duration cap.                                                       *)
TimerFires ==
    /\ timer = "armed"
    /\ timer' = "fired"
    /\ aborted' = (aborted \/ ~finished)
    /\ UNCHANGED <<phase, socket, listener, finished, pending, chars, tardy,
                   hold, begun>>

(* settleStream, settleStreamPartial and releaseStream reach the ledger:   *)
(* with the lease gone they change nothing, and the stream was free.       *)
Ledger(t) ==
    /\ t \in pending
    /\ pending' = pending \ {t}
    /\ hold' = IF hold = "held" THEN (IF t = "release" THEN "released" ELSE "booked")
               ELSE IF hold = "swept" THEN "lapsed" ELSE hold
    /\ UNCHANGED <<phase, socket, listener, aborted, timer, finished, chars,
                   tardy, begun>>

(* What outlasts the lease: a first delta that took more than the one idle *)
(* window the cap leaves for it, an error's text that stalls, a loop  *)
(* that reads on with nothing to stop it, and a loop waiting for a client  *)
(* that reads nothing, which the cap's abort does not wake.                *)
Outlasts ==
    \/ tardy \/ phase = "refused"
    \/ phase = "read" /\ timer # "armed" /\ ~aborted
    \/ phase = "write" /\ timer = "fired" /\ ~finished /\ "slowReader" \in env

(* The lease goes stale and is swept.                                      *)
Sweep ==
    /\ hold = "held"
    /\ Outlasts
    /\ hold' = "swept"
    /\ UNCHANGED <<phase, socket, listener, aborted, timer, finished, pending,
                   chars, tardy, begun>>

Loop ==
    \/ Attach \/ FirstFails \/ FirstDelta \/ FirstIsEnd
    \/ NextDelta \/ NextIsEnd \/ NextFails \/ Return

Next ==
    /\ \/ Loop \/ FirstIsSlow \/ Drain \/ RefusalStalls \/ RefusalEnds
       \/ ClientGone \/ CloseEvent \/ TimerFires \/ Sweep
       \/ \E t \in Terminal : Ledger(t)
    /\ UNCHANGED env

Spec == Init /\ [][Next]_vars

(* gen.next() is bounded by the idle timeout, except while it reads the    *)
(* text of an error, and the number of deltas by maxTokens; timers fire,   *)
(* the sweep's too; sockets emit "close"; the ledger's transactions are    *)
(* bounded.  A client reads what it is sent, unless it is slow.            *)
Fairness ==
    /\ WF_vars(Loop /\ UNCHANGED env)
    /\ WF_vars(CloseEvent /\ UNCHANGED env)
    /\ WF_vars(TimerFires /\ UNCHANGED env)
    /\ \A t \in Terminal : WF_vars(Ledger(t) /\ UNCHANGED env)
    /\ WF_vars("slowReader" \notin env /\ Drain /\ UNCHANGED env)
    /\ WF_vars(phase = "refused" /\ Sweep /\ UNCHANGED env)

FairSpec == Spec /\ Fairness

-----------------------------------------------------------------------------
(* Each variable holds a value of its kind.                                *)
TypeOK ==
    /\ env \subseteq Env
    /\ phase \in Phases
    /\ socket \in {"open", "destroyed", "closed"}
    /\ listener \in {"none", "early", "main"}
    /\ aborted \in BOOLEAN /\ finished \in BOOLEAN /\ tardy \in BOOLEAN
    /\ timer \in {"off", "armed", "fired"}
    /\ pending \subseteq Terminal
    /\ chars \in 0 .. MaxChunks
    /\ hold \in {"held", "swept", "booked", "released", "lapsed"}
    /\ begun \in [Terminal -> 0 .. 1]

(* The close handler, the duration cap and the read loop race, and one     *)
(* terminal action is begun: no second audit row, no second meter event    *)
(* (chat/routes.ts:238-243).                                               *)
OneTerminal == begun["full"] + begun["partial"] + begun["release"] <= 1

(* A stream that sent output is never refunded: once a delta was written   *)
(* the terminal action is a settle (chat/routes.ts:257-258).               *)
SentIsNotRefunded == begun["release"] > 0 => chars = 0

(* However its end is raced for, a stream ends once, and with a settle if  *)
(* it had sent anything.                                                   *)
EndsOnce == OneTerminal /\ SentIsNotRefunded

(* A client that is gone stops the upstream, whichever listener was        *)
(* attached when it left: the loop does not drain the generation into a    *)
(* dead socket (chat/routes.ts:275-280, 304-307).  The text of an error is *)
(* not asked for this: its read no longer hears the signal.                *)
GoneIsAborted ==
    socket = "closed" /\ phase \in {"first", "read", "write"} => aborted

(* Nothing the client was sent is served free: a terminal action reaches   *)
(* the ledger before the lease is swept (chat/routes.ts:334-337).          *)
CapBeatsSweep == hold # "lapsed" /\ ~(hold = "swept" /\ chars > 0)

(* ... which holds for every stream whose client reads what it is sent and *)
(* whose provider starts within one idle window, or sends its error.       *)
NotServedFree == env = {} => CapBeatsSweep

(* Neither side of a stream is forgotten: the upstream when its client has *)
(* gone, the bill when its client was served.                              *)
NobodyForgotten == TypeOK /\ GoneIsAborted /\ NotServedFree

(* Every stream ends its reservation, however its client leaves, as long   *)
(* as it reads while it is there.                                          *)
HoldEnds == ("slowReader" \notin env) ~> (hold # "held" /\ pending = {})
=============================================================================
