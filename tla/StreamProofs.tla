---------------------------- MODULE StreamProofs ----------------------------
(***************************************************************************)
(* The safety of one streamed chat, for any number of deltas and every     *)
(* behaviour of its client: one terminal action, none that refunds what    *)
(* was sent, and nobody forgotten.  Then that of the HTTP clients: what a  *)
(* consumer of a relayed stream was given, and what a call is charged.     *)
(***************************************************************************)
EXTENDS Stream, Clients, TLAPS

(* Every terminal action goes through claim(): the flag counts them.       *)
FlagCounts ==
    /\ finished \in BOOLEAN
    /\ begun \in [Terminal -> Nat]
    /\ begun["full"] + begun["partial"] + begun["release"]
           = IF finished THEN 1 ELSE 0

(* The early listener is the only one that releases, and it is gone before *)
(* the first delta is written; a release leaves the loop without output.   *)
ReleaseIsEarly ==
    /\ phase \in {"attach", "first", "refused"} => chars = 0
    /\ phase \in {"attach", "first", "refused"} /\ socket # "closed" => ~finished
    /\ listener = "early" => phase \in {"first", "refused", "returned"} /\ chars = 0
    /\ begun["release"] > 0 => chars = 0 /\ phase \notin {"read", "write"}

Inv == FlagCounts /\ ReleaseIsEarly

-----------------------------------------------------------------------------
(* claim() keeps the count: a terminal action is begun when the flag is    *)
(* down, and the flag is up afterwards.                                    *)
LEMMA ClaimCounts ==
    ASSUME NEW t \in Terminal, FlagCounts, Claim(t)
    PROVE  /\ FlagCounts'
           /\ finished'
           /\ t # "release" => begun'["release"] = begun["release"]
           /\ finished => begun' = begun
<1>1. CASE finished
  <2>1. begun' = begun /\ finished' = TRUE
    BY <1>1 DEF Claim
  <2> QED  BY <1>1, <2>1 DEF FlagCounts
<1>2. CASE ~finished
  <2>1. begun' = [begun EXCEPT ![t] = @ + 1] /\ finished' = TRUE
    BY <1>2 DEF Claim
  <2>2. begun["full"] = 0 /\ begun["partial"] = 0 /\ begun["release"] = 0
    BY <1>2 DEF FlagCounts, Terminal
  <2>3. begun' \in [Terminal -> Nat]
    BY <2>1 DEF FlagCounts
  <2>4. t = "full" \/ t = "partial" \/ t = "release"
    BY DEF Terminal
  <2> QED  BY <1>2, <2>1, <2>2, <2>3, <2>4 DEF FlagCounts, Terminal
<1> QED  BY <1>1, <1>2 DEF FlagCounts

(* Every step keeps the invariant.                                         *)
LEMMA StepKeepsInv == Inv /\ [Next]_vars => Inv'
<1> SUFFICES ASSUME Inv, [Next]_vars PROVE Inv'
  OBVIOUS
<1>t. {"full", "partial", "release"} \subseteq Terminal
  BY DEF Terminal
<1>1. CASE Attach
  <2>1. CASE socket = "open"
    BY <1>1, <2>1 DEF Attach, Inv, FlagCounts, ReleaseIsEarly, NoClaim
  <2>2. CASE socket # "open"
    <3>1. Claim("release") /\ phase' = "returned"
      BY <1>1, <2>2 DEF Attach
    <3>2. FlagCounts'
      BY <3>1, <1>t, ClaimCounts DEF Inv
    <3> QED
      BY <1>1, <3>1, <3>2 DEF Attach, Inv, ReleaseIsEarly
  <2> QED  BY <2>1, <2>2
<1>2. CASE FirstIsSlow
  BY <1>2 DEF FirstIsSlow, Inv, FlagCounts, ReleaseIsEarly
<1>3. CASE FirstFails \/ RefusalEnds
  <2>1. FailFirst
    BY <1>3 DEF FirstFails, RefusalEnds
  <2>2. FlagCounts'
    BY <2>1, <1>t, ClaimCounts DEF FailFirst, Inv
  <2> QED  BY <1>3, <2>1, <2>2 DEF FailFirst, FirstFails, RefusalEnds, Inv, ReleaseIsEarly
<1>4. CASE FirstDelta
  <2>1. CASE socket = "open"
    <3>1. ~finished /\ NoClaim /\ WriteDelta /\ listener' = "main"
      BY <1>4, <2>1 DEF FirstDelta, Inv, ReleaseIsEarly
    <3>2. begun["release"] = 0
      BY <3>1 DEF Inv, FlagCounts, Terminal
    <3>3. phase' \in {"read", "write"}
      BY <3>1 DEF WriteDelta
    <3> QED
      BY <3>1, <3>2, <3>3 DEF NoClaim, Inv, FlagCounts, ReleaseIsEarly
  <2>2. CASE socket # "open"
    <3>1. Claim("release") /\ phase' = "returned"
      BY <1>4, <2>2 DEF FirstDelta
    <3>2. FlagCounts'
      BY <3>1, <1>t, ClaimCounts DEF Inv
    <3> QED
      BY <1>4, <2>2, <3>1, <3>2 DEF FirstDelta, Inv, ReleaseIsEarly
  <2> QED  BY <2>1, <2>2
<1>5. CASE FirstIsEnd
  <2>1. CASE socket = "open"
    <3>1. Claim("full") /\ phase' \in {"returned", "settling"} /\ listener' = "none"
      BY <1>5, <2>1 DEF FirstIsEnd, Finish, LeaveLoop
    <3>2. FlagCounts' /\ begun'["release"] = begun["release"]
      BY <3>1, <1>t, ClaimCounts DEF Inv
    <3> QED
      BY <1>5, <3>1, <3>2 DEF FirstIsEnd, Inv, ReleaseIsEarly
  <2>2. CASE socket # "open"
    <3>1. Claim("release") /\ phase' = "returned"
      BY <1>5, <2>2 DEF FirstIsEnd
    <3>2. FlagCounts'
      BY <3>1, <1>t, ClaimCounts DEF Inv
    <3> QED
      BY <1>5, <2>2, <3>1, <3>2 DEF FirstIsEnd, Inv, ReleaseIsEarly
  <2> QED  BY <2>1, <2>2
<1>6. CASE NextDelta
  <2>1. begun["release"] = 0 /\ listener # "early"
    BY <1>6 DEF NextDelta, Inv, ReleaseIsEarly, FlagCounts, Terminal
  <2>2. phase' \in {"read", "write"}
    BY <1>6 DEF NextDelta, WriteDelta
  <2> QED
    BY <1>6, <2>1, <2>2 DEF NextDelta, NoClaim, Inv, FlagCounts, ReleaseIsEarly
<1>7. CASE NextIsEnd
  <2>1. Claim("full") /\ phase' \in {"returned", "settling"} /\ listener' = "none"
    BY <1>7 DEF NextIsEnd, Finish, LeaveLoop
  <2>2. FlagCounts' /\ begun'["release"] = begun["release"]
    BY <2>1, <1>t, ClaimCounts DEF Inv
  <2> QED
    BY <1>7, <2>1, <2>2 DEF NextIsEnd, Inv, ReleaseIsEarly
<1>8. CASE NextFails
  <2>1. FlagCounts' /\ begun'["release"] = begun["release"]
    BY <1>8, <1>t, ClaimCounts DEF NextFails, Inv
  <2> QED
    BY <1>8, <2>1 DEF NextFails, LeaveLoop, Inv, ReleaseIsEarly
<1>9. CASE Drain
  BY <1>9 DEF Drain, Inv, FlagCounts, ReleaseIsEarly
<1>10. CASE Return
  BY <1>10 DEF Return, Inv, FlagCounts, ReleaseIsEarly
<1>11. CASE ClientGone
  BY <1>11 DEF ClientGone, Inv, FlagCounts, ReleaseIsEarly
<1>12. CASE CloseEvent
  <2>0. socket' = "closed" /\ UNCHANGED <<listener, chars>>
    BY <1>12 DEF CloseEvent
  <2>1. phase' = IF phase = "write" THEN "read" ELSE phase
    BY <1>12 DEF CloseEvent
  <2>2. CASE listener = "early" /\ Claim("release")
    <3>1. FlagCounts'
      BY <2>2, <1>t, ClaimCounts DEF Inv
    <3> QED
      BY <2>0, <2>1, <2>2, <3>1 DEF Inv, ReleaseIsEarly
  <2>3. CASE Claim("partial")
    <3>1. FlagCounts' /\ begun'["release"] = begun["release"]
      BY <2>3, <1>t, ClaimCounts DEF Inv
    <3> QED
      BY <2>0, <2>1, <3>1 DEF Inv, ReleaseIsEarly
  <2>4. CASE NoClaim
    BY <2>0, <2>1, <2>4 DEF NoClaim, Inv, FlagCounts, ReleaseIsEarly
  <2> QED  BY <1>12, <2>2, <2>3, <2>4 DEF CloseEvent
<1>13. CASE TimerFires
  BY <1>13 DEF TimerFires, Inv, FlagCounts, ReleaseIsEarly
<1>14. CASE Sweep
  BY <1>14 DEF Sweep, Inv, FlagCounts, ReleaseIsEarly
<1>15. CASE \E t \in Terminal : Ledger(t)
  BY <1>15 DEF Ledger, Inv, FlagCounts, ReleaseIsEarly
<1>16. CASE UNCHANGED vars
  BY <1>16 DEF vars, Inv, FlagCounts, ReleaseIsEarly
<1>17. CASE RefusalStalls
  BY <1>17 DEF RefusalStalls, Inv, FlagCounts, ReleaseIsEarly
<1> QED
  BY <1>1, <1>2, <1>3, <1>4, <1>5, <1>6, <1>7, <1>8, <1>9, <1>10, <1>11,
     <1>12, <1>13, <1>14, <1>15, <1>16, <1>17 DEF Next, Loop

(* The invariant holds from the start.                                     *)
LEMMA InitHasInv == Init => Inv
<1> SUFFICES ASSUME Init PROVE Inv
  OBVIOUS
<1>1. begun \in [Terminal -> Nat]
  BY DEF Init
<1>2. begun["full"] = 0 /\ begun["partial"] = 0 /\ begun["release"] = 0
  BY DEF Init, Terminal
<1>3. finished = FALSE /\ listener = "none" /\ chars = 0
  BY DEF Init
<1>4. FlagCounts
  <2>1. (IF finished THEN 1 ELSE 0) = 0
    BY <1>3
  <2>2. begun["full"] + begun["partial"] + begun["release"] = 0
    BY <1>2
  <2>3. finished \in BOOLEAN
    BY <1>3
  <2> QED  BY <1>1, <2>1, <2>2, <2>3 DEF FlagCounts
<1>5. ReleaseIsEarly
  BY <1>2, <1>3 DEF ReleaseIsEarly
<1> QED  BY <1>4, <1>5 DEF Inv

LEMMA StreamInvariant == Spec => []Inv
  BY InitHasInv, StepKeepsInv, PTL DEF Spec

(* The close handler, the cap and the read loop race for every stream, and *)
(* one terminal action is begun (claim(), chat/routes.ts:238-249).         *)
THEOREM OneTerminalAction == Spec => []OneTerminal
<1>1. Inv => OneTerminal
  BY DEF Inv, FlagCounts, OneTerminal
<1> QED  BY <1>1, StreamInvariant, PTL

(* A stream that sent output is never released, wherever its client was    *)
(* lost (the listeners' handoff, chat/routes.ts:304-332).                  *)
THEOREM NoRefundOfOutput == Spec => []SentIsNotRefunded
<1>1. Inv => SentIsNotRefunded
  BY DEF Inv, ReleaseIsEarly, SentIsNotRefunded
<1> QED  BY <1>1, StreamInvariant, PTL

(* A stream ends once, and never with a refund of what it sent.            *)
THEOREM StreamEndsOnce == Spec => []EndsOnce
<1>1. OneTerminal /\ SentIsNotRefunded => EndsOnce
  BY DEF EndsOnce
<1> QED  BY <1>1, OneTerminalAction, NoRefundOfOutput, PTL

-----------------------------------------------------------------------------
(* While the loop runs somebody watches the client: the early listener     *)
(* before the first delta, the main listener and the cap's timer after it; *)
(* whatever ended the stream behind the loop's back aborted the upstream.  *)
Watched ==
    /\ phase \in {"first", "refused"} => listener = "early"
    /\ phase \in {"read", "write"} => listener = "main" /\ timer # "off"
    /\ phase \in {"read", "write"} /\ (finished \/ timer = "fired") => aborted
    /\ GoneIsAborted

(* Only an extraordinary environment lets the lease go stale.              *)
SlowIsWhy ==
    /\ tardy => "slowFirst" \in env
    /\ phase = "refused" => "stalledRefusal" \in env
    /\ hold \in {"swept", "lapsed"} => env # {}

WatchInv == Inv /\ TypeOK /\ Watched /\ SlowIsWhy

(* Every variable keeps its kind; the counts of the terminal actions do    *)
(* because the flag bounds them.                                           *)
LEMMA StepKeepsTypes == Inv' /\ TypeOK /\ [Next]_vars => TypeOK'
<1> SUFFICES ASSUME Inv', TypeOK, [Next]_vars PROVE TypeOK'
  OBVIOUS
<1>1. begun' \in [Terminal -> 0 .. 1]
  <2>1. /\ begun' \in [Terminal -> Nat]
        /\ begun'["full"] + begun'["partial"] + begun'["release"] \in {0, 1}
    BY DEF Inv, FlagCounts
  <2>2. /\ begun'["full"] \in Nat /\ begun'["partial"] \in Nat
        /\ begun'["release"] \in Nat
    BY <2>1 DEF Terminal
  <2>3. /\ begun'["full"] \in 0 .. 1 /\ begun'["partial"] \in 0 .. 1
        /\ begun'["release"] \in 0 .. 1
    BY <2>1, <2>2
  <2>4. \A t \in Terminal : begun'[t] \in 0 .. 1
    BY <2>3 DEF Terminal
  <2> QED  BY <2>1, <2>4
<1>2. env' \subseteq Env /\ finished' \in BOOLEAN
  BY DEF Inv, FlagCounts, TypeOK, Next, vars
<1>3. /\ phase' \in Phases /\ listener' \in {"none", "early", "main"}
      /\ socket' \in {"open", "destroyed", "closed"}
  BY DEF TypeOK, Next, Loop, vars, Phases, Attach, FirstIsSlow, FirstFails, FailFirst, RefusalStalls, RefusalEnds,
     FirstDelta, FirstIsEnd, NextDelta, NextIsEnd, NextFails, Drain, Return,
     ClientGone, CloseEvent, TimerFires, Sweep, Ledger, Finish, LeaveLoop,
     WriteDelta
<1>4. aborted' \in BOOLEAN /\ tardy' \in BOOLEAN
  BY DEF TypeOK, Next, Loop, vars, Attach, FirstIsSlow, FirstFails, FailFirst, RefusalStalls, RefusalEnds,
     FirstDelta, FirstIsEnd, NextDelta, NextIsEnd, NextFails, Drain, Return,
     ClientGone, CloseEvent, TimerFires, Sweep, Ledger
<1>5. timer' \in {"off", "armed", "fired"}
  BY DEF TypeOK, Next, Loop, vars, Attach, FirstIsSlow, FirstFails, FailFirst, RefusalStalls, RefusalEnds,
     FirstDelta, FirstIsEnd, NextDelta, NextIsEnd, NextFails, Drain, Return,
     ClientGone, CloseEvent, TimerFires, Sweep, Ledger, Finish, LeaveLoop
<1>6. pending' \subseteq Terminal
  BY DEF TypeOK, Next, Loop, vars, Attach, FirstIsSlow, FirstFails, FailFirst, RefusalStalls, RefusalEnds,
     FirstDelta, FirstIsEnd, NextDelta, NextIsEnd, NextFails, Drain, Return,
     ClientGone, CloseEvent, TimerFires, Sweep, Ledger, Finish, Claim, NoClaim,
     Terminal
<1>7. chars' \in 0 .. MaxChunks
  BY ChunkAssumption
  DEF TypeOK, Next, Loop, vars, Attach, FirstIsSlow, FirstFails, FailFirst, RefusalStalls, RefusalEnds,
     FirstDelta, FirstIsEnd, NextDelta, NextIsEnd, NextFails, Drain, Return,
     ClientGone, CloseEvent, TimerFires, Sweep, Ledger, WriteDelta
<1>8. hold' \in {"held", "swept", "booked", "released", "lapsed"}
  BY DEF TypeOK, Next, Loop, vars, Attach, FirstIsSlow, FirstFails, FailFirst, RefusalStalls, RefusalEnds,
     FirstDelta, FirstIsEnd, NextDelta, NextIsEnd, NextFails, Drain, Return,
     ClientGone, CloseEvent, TimerFires, Sweep, Ledger
<1> QED  BY <1>1, <1>2, <1>3, <1>4, <1>5, <1>6, <1>7, <1>8 DEF TypeOK

(* The listeners' handoff and the cap leave no moment unwatched.           *)
LEMMA StepKeepsWatch == Inv /\ TypeOK /\ Watched /\ [Next]_vars => Watched'
<1> SUFFICES ASSUME Inv, TypeOK, Watched, [Next]_vars PROVE Watched'
  OBVIOUS
<1>1. CASE Attach
  BY <1>1 DEF Attach, Watched, GoneIsAborted, Phases
<1>2. CASE FirstIsSlow
  BY <1>2 DEF FirstIsSlow, Watched, GoneIsAborted
<1>3. CASE FirstFails \/ RefusalEnds
  BY <1>3 DEF FirstFails, RefusalEnds, FailFirst, Watched, GoneIsAborted
<1>4. CASE FirstDelta
  <2>1. CASE socket = "open"
    <3>1. /\ ~finished /\ finished' = finished
          /\ phase' \in {"read", "write"} /\ socket' = "open"
          /\ listener' = "main" /\ timer' = "armed"
      BY <1>4, <2>1 DEF FirstDelta, NoClaim, WriteDelta, Inv, ReleaseIsEarly
    <3> QED  BY <3>1 DEF Watched, GoneIsAborted
  <2>2. CASE socket # "open"
    BY <1>4, <2>2 DEF FirstDelta, Watched, GoneIsAborted
  <2> QED  BY <2>1, <2>2
<1>5. CASE FirstIsEnd
  <2>1. phase' \in {"returned", "settling"}
    BY <1>5 DEF FirstIsEnd, Finish
  <2> QED  BY <2>1 DEF Watched, GoneIsAborted
<1>6. CASE NextDelta
  BY <1>6 DEF NextDelta, WriteDelta, NoClaim, Watched, GoneIsAborted
<1>7. CASE NextIsEnd \/ NextFails
  <2>1. phase' \in {"returned", "settling"}
    BY <1>7 DEF NextIsEnd, NextFails, Finish
  <2> QED  BY <2>1 DEF Watched, GoneIsAborted
<1>8. CASE Drain
  BY <1>8 DEF Drain, Watched, GoneIsAborted
<1>9. CASE Return
  BY <1>9 DEF Return, Watched, GoneIsAborted
<1>10. CASE ClientGone
  BY <1>10 DEF ClientGone, Watched, GoneIsAborted
<1>11. CASE CloseEvent
  <2>1. CASE phase \in {"first", "read", "write"}
    <3>1. aborted'
      BY <1>11, <2>1 DEF CloseEvent, Watched, TypeOK
    <3>2. \/ phase' = "first" /\ phase = "first"
          \/ phase' = "read" /\ phase \in {"read", "write"}
      BY <1>11, <2>1 DEF CloseEvent
    <3>3. UNCHANGED <<listener, timer>>
      BY <1>11 DEF CloseEvent
    <3> QED  BY <2>1, <3>1, <3>2, <3>3 DEF Watched, GoneIsAborted
  <2>2. CASE phase \notin {"first", "read", "write"}
    BY <1>11, <2>2 DEF CloseEvent, Watched, GoneIsAborted
  <2> QED  BY <2>1, <2>2
<1>12. CASE TimerFires
  BY <1>12 DEF TimerFires, Watched, GoneIsAborted, TypeOK
<1>13. CASE Sweep
  BY <1>13 DEF Sweep, Watched, GoneIsAborted
<1>14. CASE \E t \in Terminal : Ledger(t)
  BY <1>14 DEF Ledger, Watched, GoneIsAborted
<1>15. CASE UNCHANGED vars
  BY <1>15 DEF vars, Watched, GoneIsAborted
<1>16. CASE RefusalStalls
  BY <1>16 DEF RefusalStalls, Watched, GoneIsAborted
<1> QED
  BY <1>1, <1>2, <1>3, <1>4, <1>5, <1>6, <1>7, <1>8, <1>9, <1>10, <1>11,
     <1>12, <1>13, <1>14, <1>15, <1>16 DEF Next, Loop

(* A watched stream outlasts its lease only in an extraordinary            *)
(* environment.                                                            *)
LEMMA WatchedIsPrompt ==
    ASSUME TypeOK, Watched, SlowIsWhy, Outlasts
    PROVE  env # {}
<1>1. ~(phase = "read" /\ timer # "armed" /\ ~aborted)
  BY DEF TypeOK, Watched
<1> QED  BY <1>1 DEF Outlasts, SlowIsWhy

LEMMA StepKeepsWhy ==
    TypeOK /\ Watched /\ SlowIsWhy /\ [Next]_vars => SlowIsWhy'
<1> SUFFICES ASSUME TypeOK, Watched, SlowIsWhy, [Next]_vars PROVE SlowIsWhy'
  OBVIOUS
<1>1. env' = env
  BY DEF Next, vars
<1>2. tardy' => "slowFirst" \in env
  BY DEF SlowIsWhy, Next, Loop, vars, Attach, FirstIsSlow, FirstFails, FailFirst, RefusalStalls, RefusalEnds,
     FirstDelta, FirstIsEnd, NextDelta, NextIsEnd, NextFails, Drain, Return,
     ClientGone, CloseEvent, TimerFires, Sweep, Ledger
<1>5. phase' = "refused" => "stalledRefusal" \in env
  BY DEF SlowIsWhy, Next, Loop, vars, Attach, FirstIsSlow, FirstFails, FailFirst, RefusalStalls,
     RefusalEnds, FirstDelta, FirstIsEnd, NextDelta, NextIsEnd, NextFails, Drain, Return,
     ClientGone, CloseEvent, TimerFires, Sweep, Ledger, Finish, WriteDelta
<1>3. CASE Sweep
  <2>1. env # {}
    BY <1>3, WatchedIsPrompt DEF Sweep
  <2> QED  BY <1>1, <1>2, <1>5, <2>1 DEF SlowIsWhy
<1>4. CASE ~Sweep
  <2>1. hold' \in {"swept", "lapsed"} => hold \in {"swept", "lapsed"}
    BY <1>4 DEF Next, Loop, vars, Attach, FirstIsSlow, FirstFails, FailFirst, RefusalStalls, RefusalEnds,
       FirstDelta, FirstIsEnd, NextDelta, NextIsEnd, NextFails, Drain, Return,
       ClientGone, CloseEvent, TimerFires, Ledger
  <2> QED  BY <1>1, <1>2, <1>5, <2>1 DEF SlowIsWhy
<1> QED  BY <1>3, <1>4

LEMMA WatchInvariant == Spec => []WatchInv
<1>1. Init => WatchInv
  <2> SUFFICES ASSUME Init PROVE WatchInv
    OBVIOUS
  <2>1. Inv
    BY InitHasInv
  <2>2. begun \in [Terminal -> 0 .. 1]
    BY DEF Init
  <2>3. chars \in 0 .. MaxChunks
    BY ChunkAssumption DEF Init
  <2>4. TypeOK
    BY <2>2, <2>3 DEF Init, TypeOK, Phases
  <2>5. Watched /\ SlowIsWhy
    BY DEF Init, Watched, GoneIsAborted, SlowIsWhy
  <2> QED  BY <2>1, <2>4, <2>5 DEF WatchInv
<1>2. WatchInv /\ [Next]_vars => WatchInv'
  BY StepKeepsInv, StepKeepsTypes, StepKeepsWatch, StepKeepsWhy DEF WatchInv
<1> QED  BY <1>1, <1>2, PTL DEF Spec

(* Whoever leaves, neither side is forgotten: a closed socket has aborted  *)
(* the upstream, and in the ordinary environment the bill reaches the      *)
(* ledger before the sweep (chat/routes.ts:275-340).                       *)
THEOREM StreamForgetsNobody == Spec => []NobodyForgotten
<1>1. WatchInv => NobodyForgotten
  BY DEF WatchInv, Watched, SlowIsWhy, NobodyForgotten, NotServedFree,
     CapBeatsSweep
<1> QED  BY <1>1, WatchInvariant, PTL

-----------------------------------------------------------------------------
(***************************************************************************)
(* A streamed answer on its way to an SDK.                                 *)
(***************************************************************************)
Frames == {Noise, Usage, Sentinel, DoneFrame, ErrorEvent, ErrorData}
Lines  == {Text(k) : k \in Nat} \cup Frames

IsConnection(c) ==
    /\ c \in [lines : Seq(Lines), got : Nat, parsed : Nat,
              end : {"open", "clean", "broken", "cut"}]
    /\ 2 * c.parsed <= c.got /\ c.got <= 2 * Len(c.lines)

(* The deltas the route has written; what follows them are its last frames. *)
Relayed == IF route = "closed" THEN Len(down.lines) - 2 ELSE Len(down.lines)

LastFrames(first, second) ==
    down.lines[Relayed + 1] = first /\ down.lines[Relayed + 2] = second

(* The provider numbers its deltas, and what the route has parsed it has   *)
(* relayed.                                                                *)
UpInv ==
    /\ IsConnection(up)
    /\ said \in [deltas : Nat, noise : Nat, all : BOOLEAN]
    /\ Relayed \in 0..said.deltas
    /\ \A i \in 1..Len(up.lines) : \A k \in Nat :
         up.lines[i] = Text(k) => k \in 1..said.deltas /\ (i <= up.parsed <=> k <= Relayed)
    /\ \A i \in 1..Len(up.lines) : \A j \in 1..Len(up.lines) : \A k \in Nat : \A m \in Nat :
         i < j /\ up.lines[i] = Text(k) /\ up.lines[j] = Text(m) => k < m
    /\ \A k \in 1..said.deltas : \E i \in 1..Len(up.lines) : up.lines[i] = Text(k)

(* What goes down is the deltas in order, and last the frames that say how *)
(* it ended; that it ended well is said when all was relayed.              *)
DownInv ==
    /\ IsConnection(down)
    /\ route \in {"opening", "refused", "relaying", "settling", "closed", "failed"}
    /\ \A i \in 1..Relayed : down.lines[i] = Text(i)
    /\ route = "closed" => \/ LastFrames(DoneFrame, Sentinel)
                           \/ LastFrames(ErrorEvent, ErrorData)
    /\ down.end = "clean" => route = "closed"
    /\ route = "settling" \/ (route = "closed" /\ LastFrames(DoneFrame, Sentinel)) =>
         up.end = "clean" /\ Relayed = said.deltas

(* How many deltas the SDK has parsed, and what it makes of the rest.      *)
Taken == IF down.parsed <= Relayed THEN down.parsed ELSE Relayed
Past(frame) == down.parsed > Relayed /\ down.lines[Relayed + 1] = frame

SdkInv ==
    /\ sdk \in [which : SdkKinds, text : Seq(Lines \cup {Fragment}), done : BOOLEAN,
                error : BOOLEAN, out : {"reading", "raised", "returned"}]
    /\ Len(Heard) = Taken /\ \A i \in 1..Taken : Heard[i] = Text(i)
    /\ HalfHeard => sdk.out = "returned" /\ sdk.which = "python" /\ down.end = "cut"
    /\ sdk.out = "reading" => /\ down.parsed <= Relayed + 1
                              /\ sdk.error <=> Past(ErrorEvent)
                              /\ sdk.done <=> Past(DoneFrame)
    /\ sdk.done => Past(DoneFrame)
    /\ sdk.out = "returned" /\ ~sdk.done => down.end = "cut"

RelayInv == UpInv /\ DownInv /\ SdkInv

-----------------------------------------------------------------------------
(* What tells lines apart.                                                 *)
LEMMA LinesDiffer ==
    /\ \A k \in Nat : Text(k)[1] = "text" /\ Text(k) \in Lines /\ Text(k) # Fragment
                      /\ Text(k) \notin Frames
    /\ \A k \in Nat : \A m \in Nat : Text(k) = Text(m) => k = m
    /\ \A line \in Lines : line[1] = "text" => \E k \in Nat : line = Text(k)
    /\ \A frame \in Frames : frame[1] # "text" /\ frame \in Lines
    /\ {DoneFrame, ErrorEvent, ErrorData, Sentinel} \subseteq Frames
    /\ {Noise, Usage} \subseteq Frames
    /\ Sentinel # ErrorEvent /\ Sentinel # ErrorData /\ Sentinel # DoneFrame
    /\ ErrorEvent # ErrorData /\ DoneFrame # ErrorEvent /\ DoneFrame # ErrorData
<1> USE DEF Text, Noise, Usage, Sentinel, DoneFrame, ErrorEvent, ErrorData, Fragment
<1>1. \A k : \A m : Text(k) = Text(m) => k = m
  <2> SUFFICES ASSUME NEW k, NEW m, Text(k) = Text(m) PROVE k = m
    OBVIOUS
  <2>1. Text(k)[2] = k /\ Text(m)[2] = m  OBVIOUS
  <2> QED BY <2>1
<1>2. \A k : Text(k)[1] = "text"  OBVIOUS
<1>3. \A frame \in Frames : frame[1] # "text"
  <2>1. /\ Noise[1] = "noise" /\ Usage[1] = "usage" /\ Sentinel[1] = "[DONE]"
        /\ DoneFrame[1] = "done" /\ ErrorEvent[1] = "event: error" /\ ErrorData[1] = "code"
    OBVIOUS
  <2> HIDE DEF Noise, Usage, Sentinel, DoneFrame, ErrorEvent, ErrorData
  <2> QED BY <2>1 DEF Frames
<1>4. Fragment[1] # "text"  OBVIOUS
<1>5. /\ Sentinel # ErrorEvent /\ Sentinel # ErrorData /\ Sentinel # DoneFrame
      /\ ErrorEvent # ErrorData /\ DoneFrame # ErrorEvent /\ DoneFrame # ErrorData
  <2>1. /\ Sentinel[1] = "[DONE]" /\ ErrorEvent[1] = "event: error" /\ ErrorData[1] = "code"
        /\ DoneFrame[1] = "done"
    OBVIOUS
  <2> QED BY <2>1
<1> HIDE DEF Text, Noise, Usage, Sentinel, DoneFrame, ErrorEvent, ErrorData, Fragment
<1>6. \A k \in Nat : Text(k) \in Lines /\ Text(k) # Fragment /\ Text(k) \notin Frames
  BY <1>2, <1>3, <1>4 DEF Lines
<1>7. \A line \in Lines : line[1] = "text" => \E k \in Nat : line = Text(k)
  BY <1>3 DEF Lines
<1> QED BY <1>1, <1>2, <1>3, <1>5, <1>6, <1>7 DEF Lines, Frames

(* What a connection keeps when lines are written, received and parsed.    *)
LEMMA LinesWritten ==
    ASSUME NEW c, IsConnection(c), NEW new \in Seq(Lines)
    PROVE  /\ IsConnection(Wrote(c, new)) /\ IsConnection(Ended(c))
           /\ Wrote(c, new).lines = c.lines \o new /\ Wrote(c, new).got = c.got
           /\ Wrote(c, new).parsed = c.parsed /\ Wrote(c, new).end = c.end
           /\ Ended(c).lines = c.lines /\ Ended(c).got = c.got /\ Ended(c).parsed = c.parsed
           /\ Ended(c).end = IF c.end = "open" THEN "clean" ELSE c.end
           /\ Len(c.lines \o new) = Len(c.lines) + Len(new)
           /\ \A i \in 1..Len(c.lines) : (c.lines \o new)[i] = c.lines[i]
           /\ \A i \in 1..Len(new) : (c.lines \o new)[Len(c.lines) + i] = new[i]
<1>1. /\ c.lines \in Seq(Lines) /\ c.lines \o new \in Seq(Lines)
      /\ Len(c.lines \o new) = Len(c.lines) + Len(new)
      /\ Len(c.lines) \in Nat /\ Len(new) \in Nat
  BY DEF IsConnection
<1>2. /\ \A i \in 1..Len(c.lines) : (c.lines \o new)[i] = c.lines[i]
      /\ \A i \in 1..Len(new) : (c.lines \o new)[Len(c.lines) + i] = new[i]
  BY <1>1
<1>3. /\ Wrote(c, new).lines = c.lines \o new /\ Wrote(c, new).got = c.got
      /\ Wrote(c, new).parsed = c.parsed /\ Wrote(c, new).end = c.end
      /\ Wrote(c, new) \in [lines : Seq(Lines), got : Nat, parsed : Nat,
                            end : {"open", "clean", "broken", "cut"}]
  BY <1>1 DEF IsConnection, Wrote
<1>4. IsConnection(Wrote(c, new))  BY <1>1, <1>3 DEF IsConnection
<1>5. /\ Ended(c).lines = c.lines /\ Ended(c).got = c.got /\ Ended(c).parsed = c.parsed
      /\ Ended(c).end = IF c.end = "open" THEN "clean" ELSE c.end
      /\ IsConnection(Ended(c))
  BY DEF IsConnection, Ended
<1> QED BY <1>1, <1>2, <1>3, <1>4, <1>5

(* What a reader does to it.                                               *)
LEMMA LinesRead ==
    ASSUME NEW c, IsConnection(c)
    PROVE  /\ \A n \in Received(c) : IsConnection(n) /\ n.lines = c.lines
                                     /\ n.parsed = c.parsed /\ n.end = c.end /\ ~Lost(c)
           /\ HasLine(c) => /\ IsConnection(Parsed(c)) /\ Parsed(c).lines = c.lines
                            /\ Parsed(c).parsed = c.parsed + 1 /\ Parsed(c).end = c.end
                            /\ c.parsed + 1 \in 1..Len(c.lines)
           /\ \A how \in {"broken", "cut"} :
                /\ IsConnection([c EXCEPT !.end = how])
                /\ [c EXCEPT !.end = how].lines = c.lines
                /\ [c EXCEPT !.end = how].parsed = c.parsed
                /\ [c EXCEPT !.end = how].end = how
<1>1. /\ Len(c.lines) \in Nat /\ c.got \in Nat /\ c.parsed \in Nat
      /\ 2 * c.parsed <= c.got /\ c.got <= 2 * Len(c.lines)
  BY DEF IsConnection
<1>2. ASSUME NEW n \in (c.got + 1)..(2 * Len(c.lines))
      PROVE  LET d == [c EXCEPT !.got = n]
             IN IsConnection(d) /\ d.lines = c.lines /\ d.parsed = c.parsed /\ d.end = c.end
  BY <1>1 DEF IsConnection
<1>3. ASSUME HasLine(c)
      PROVE  /\ IsConnection(Parsed(c)) /\ Parsed(c).lines = c.lines
             /\ Parsed(c).parsed = c.parsed + 1 /\ Parsed(c).end = c.end
             /\ c.parsed + 1 \in 1..Len(c.lines)
  BY <1>1, <1>3 DEF IsConnection, HasLine, Parsed
<1>4. ASSUME NEW how \in {"broken", "cut"}
      PROVE  /\ IsConnection([c EXCEPT !.end = how])
             /\ [c EXCEPT !.end = how].lines = c.lines
             /\ [c EXCEPT !.end = how].parsed = c.parsed
             /\ [c EXCEPT !.end = how].end = how
  BY DEF IsConnection
<1> QED BY <1>2, <1>3, <1>4 DEF Received

(***************************************************************************)
(* What each invariant is insensitive to.                                  *)
(***************************************************************************)
LEMMA SameUp ==
    ASSUME UpInv, IsConnection(up'), up'.lines = up.lines, up'.parsed = up.parsed,
           said' = said, Relayed' = Relayed
    PROVE  UpInv'
<1> HIDE DEF Relayed, IsConnection
<1> QED BY DEF UpInv

(* Nothing new below.                                                      *)
LEMMA SameDown ==
    ASSUME DownInv, IsConnection(down'), down'.lines = down.lines, route' = route,
           Relayed' = Relayed, down'.end = "clean" => route = "closed",
           ~Relaying /\ up.end = "clean" => up'.end = "clean",
           up.end = "clean" => said' = said
    PROVE  DownInv'
<1> HIDE DEF Relayed, IsConnection
<1>1. ASSUME NEW first, NEW second
      PROVE  LastFrames(first, second)' <=> LastFrames(first, second)
  BY DEF LastFrames
<1> QED BY <1>1 DEF DownInv, Relaying

(* The SDK's part depends on what it has parsed, and on little else.       *)
LEMMA SameSdk ==
    ASSUME SdkInv, sdk' = sdk, Taken' = Taken,
           down.parsed <= Relayed + 1 => down'.parsed <= Relayed' + 1,
           Past(ErrorEvent)' <=> Past(ErrorEvent), Past(DoneFrame)' <=> Past(DoneFrame),
           down.end = "cut" => down'.end = "cut"
    PROVE  SdkInv'
<1> HIDE DEF Relayed, Taken, Past
<1>1. Heard' = Heard /\ (HalfHeard' <=> HalfHeard)  BY DEF Heard, HalfHeard
<1> HIDE DEF Heard, HalfHeard
<1> QED BY <1>1 DEF SdkInv

(* The SDK's part stays when the frames it has parsed stay.                *)
LEMMA SdkSeesSame ==
    ASSUME SdkInv, sdk' = sdk, down'.lines = down.lines, down'.parsed = down.parsed,
           Relayed' = Relayed, down.end = "cut" => down'.end = "cut"
    PROVE  SdkInv'
<1>1. Taken' = Taken  BY DEF Taken
<1>2. ASSUME NEW frame PROVE Past(frame)' <=> Past(frame)  BY DEF Past
<1> HIDE DEF Relayed, Taken, Past
<1> QED BY <1>1, <1>2, SameSdk

(* How far the counters can be.                                            *)
LEMMA Counters ==
    ASSUME UpInv, DownInv
    PROVE  /\ up.parsed \in Nat /\ Len(up.lines) \in Nat /\ up.parsed <= Len(up.lines)
           /\ down.parsed \in Nat /\ Len(down.lines) \in Nat /\ down.parsed <= Len(down.lines)
           /\ Relayed \in Nat /\ said.deltas \in Nat /\ Relayed <= said.deltas
           /\ up.lines \in Seq(Lines) /\ down.lines \in Seq(Lines)
           /\ route = "closed" => Len(down.lines) = Relayed + 2
           /\ route # "closed" => Len(down.lines) = Relayed
<1>1. ASSUME NEW c, IsConnection(c)
      PROVE  /\ c.parsed \in Nat /\ Len(c.lines) \in Nat /\ c.parsed <= Len(c.lines)
             /\ c.lines \in Seq(Lines)
  BY <1>1 DEF IsConnection
<1>2. IsConnection(up) /\ IsConnection(down)  BY DEF UpInv, DownInv
<1>3. Relayed \in Nat /\ said.deltas \in Nat /\ Relayed <= said.deltas
  <2> HIDE DEF Relayed
  <2> QED BY DEF UpInv
<1>4. /\ down.parsed \in Nat /\ Len(down.lines) \in Nat /\ down.parsed <= Len(down.lines)
      /\ down.lines \in Seq(Lines)
  BY <1>1, <1>2
<1>5. /\ route = "closed" => Len(down.lines) = Relayed + 2
      /\ route # "closed" => Len(down.lines) = Relayed
  BY <1>4 DEF Relayed
<1> QED BY <1>1, <1>2, <1>3, <1>4, <1>5

(* The provider numbers what it says.                                      *)
LEMMA SpeakingKeeps == RelayInv /\ ProviderSays => RelayInv'
<1> SUFFICES ASSUME RelayInv, ProviderSays PROVE RelayInv'
  OBVIOUS
<1>0. UpInv /\ DownInv /\ SdkInv  BY DEF RelayInv
<1>1. UNCHANGED <<down, route, sdk>> /\ up.end = "open"  BY DEF ProviderSays
<1>2. Relayed' = Relayed  BY <1>1 DEF Relayed
<1>3. DownInv'
  <2>1. IsConnection(down')  BY <1>0, <1>1 DEF DownInv
  <2>2. down.end = "clean" => route = "closed"  BY <1>0 DEF DownInv
  <2> QED BY <1>0, <1>1, <1>2, <2>1, <2>2, SameDown
<1>4. SdkInv'  BY <1>0, <1>1, <1>2, SdkSeesSame
<1>5. UpInv'
  <2> DEFINE n == Len(up.lines)
  <2>0. /\ n \in Nat /\ up.lines \in Seq(Lines) /\ up.parsed \in Nat /\ up.parsed <= n
        /\ said.deltas \in Nat /\ Relayed \in Nat /\ Relayed <= said.deltas
    BY <1>0, Counters
  <2>a. IsConnection(up) /\ said \in [deltas : Nat, noise : Nat, all : BOOLEAN]
    BY <1>0 DEF UpInv
  <2>b. /\ \A i \in 1..n : \A k \in Nat :
             up.lines[i] = Text(k) => k \in 1..said.deltas /\ (i <= up.parsed <=> k <= Relayed)
        /\ \A i \in 1..n : \A j \in 1..n : \A k \in Nat : \A m \in Nat :
             i < j /\ up.lines[i] = Text(k) /\ up.lines[j] = Text(m) => k < m
        /\ \A k \in 1..said.deltas : \E i \in 1..n : up.lines[i] = Text(k)
    BY <1>0 DEF UpInv
  <2>1. CASE up' = Wrote(up, <<Text(said.deltas + 1)>>)
             /\ said' = [said EXCEPT !.deltas = @ + 1]
    <3> DEFINE new == Text(said.deltas + 1)
    <3>1. new \in Lines  BY <2>0, LinesDiffer
    <3> HIDE DEF new
    <3>2. <<new>> \in Seq(Lines) /\ Len(<<new>>) = 1 /\ <<new>>[1] = new  BY <3>1
    <3>3. up' = Wrote(up, <<new>>)  BY <2>1 DEF new
    <3>a. /\ IsConnection(Wrote(up, <<new>>)) /\ Wrote(up, <<new>>).parsed = up.parsed
          /\ Wrote(up, <<new>>).lines = up.lines \o <<new>>
          /\ Len(up.lines \o <<new>>) = n + Len(<<new>>)
          /\ \A i \in 1..n : (up.lines \o <<new>>)[i] = up.lines[i]
          /\ \A i \in 1..Len(<<new>>) : (up.lines \o <<new>>)[n + i] = <<new>>[i]
      BY <2>a, <3>2, LinesWritten
    <3>b. IsConnection(up')  BY <3>3, <3>a
    <3>4. /\ IsConnection(up') /\ up'.parsed = up.parsed
          /\ Len(up'.lines) = n + 1
          /\ \A i \in 1..n : up'.lines[i] = up.lines[i]
          /\ up'.lines[n + 1] = new
      <4> HIDE DEF n
      <4>1. 1 \in 1..Len(<<new>>)  BY <3>2
      <4>2. up'.parsed = up.parsed /\ up'.lines = up.lines \o <<new>>  BY <3>3, <3>a
      <4>3. Len(up'.lines) = n + 1  BY <4>2, <3>a, <3>2
      <4>4. \A i \in 1..n : up'.lines[i] = up.lines[i]  BY <4>2, <3>a
      <4>5. up'.lines[n + 1] = new
        <5>1. (up.lines \o <<new>>)[n + 1] = <<new>>[1]  BY <4>1, <3>a
        <5> QED BY <5>1, <4>2, <3>2
      <4> QED BY <3>b, <4>2, <4>3, <4>4, <4>5
    <3>5. said' \in [deltas : Nat, noise : Nat, all : BOOLEAN] /\ said'.deltas = said.deltas + 1
      BY <2>1, <2>a
    <3>6. ASSUME NEW k \in Nat, new = Text(k) PROVE k = said.deltas + 1
      <4>1. said.deltas + 1 \in Nat  BY <2>0
      <4>2. Text(k) = Text(said.deltas + 1)  BY <3>6 DEF new
      <4>3. \A a \in Nat : \A b \in Nat : Text(a) = Text(b) => a = b  BY LinesDiffer
      <4> HIDE DEF new
      <4> QED BY <4>1, <4>2, <4>3
    <3> HIDE DEF n, Relayed
    <3>7. ASSUME NEW i \in 1..(n + 1), NEW k \in Nat, up'.lines[i] = Text(k)
          PROVE  k \in 1..(said.deltas + 1) /\ (i <= up.parsed <=> k <= Relayed)
      <4>1. CASE i \in 1..n  BY <4>1, <3>4, <3>7, <2>b, <2>0
      <4>2. CASE i = n + 1
        <5>1. k = said.deltas + 1  BY <4>2, <3>4, <3>6, <3>7
        <5> QED BY <5>1, <4>2, <2>0
      <4> QED BY <4>1, <4>2, <2>0
    <3>8. ASSUME NEW i \in 1..(n + 1), NEW j \in 1..(n + 1), NEW k \in Nat, NEW m \in Nat,
                 i < j, up'.lines[i] = Text(k), up'.lines[j] = Text(m)
          PROVE  k < m
      <4>0. i \in 1..n  BY <3>8, <2>0
      <4>1. up.lines[i] = Text(k)  BY <4>0, <3>4, <3>8
      <4>2. CASE j \in 1..n  BY <4>0, <4>1, <4>2, <3>4, <3>8, <2>b
      <4>3. CASE j = n + 1
        <5>1. m = said.deltas + 1  BY <4>3, <3>4, <3>6, <3>8
        <5>2. k \in 1..said.deltas  BY <4>0, <4>1, <2>b
        <5> QED BY <5>1, <5>2, <2>0
      <4> QED BY <4>2, <4>3, <2>0
    <3>9. ASSUME NEW k \in 1..(said.deltas + 1)
          PROVE  \E i \in 1..(n + 1) : up'.lines[i] = Text(k)
      <4>1. CASE k = said.deltas + 1  BY <4>1, <3>4, <2>0 DEF new
      <4>2. CASE k \in 1..said.deltas
        <5>1. PICK i \in 1..n : up.lines[i] = Text(k)  BY <4>2, <2>b
        <5>2. i \in 1..(n + 1) /\ up'.lines[i] = Text(k)  BY <5>1, <3>4, <2>0
        <5> QED BY <5>2
      <4> QED BY <4>1, <4>2, <2>0
    <3>10. Relayed \in 0..(said.deltas + 1)  BY <2>0
    <3> QED BY <3>4, <3>5, <3>7, <3>8, <3>9, <3>10, <1>2 DEF UpInv
  <2>2. ASSUME NEW new \in Seq(Lines), up' = Wrote(up, new),
               \A i \in 1..Len(new) : \A k \in Nat : new[i] # Text(k),
               said' \in [deltas : Nat, noise : Nat, all : BOOLEAN], said'.deltas = said.deltas
        PROVE  UpInv'
    <3>a. /\ IsConnection(Wrote(up, new)) /\ Wrote(up, new).parsed = up.parsed
          /\ Wrote(up, new).lines = up.lines \o new
          /\ Len(up.lines \o new) = n + Len(new)
          /\ \A i \in 1..n : (up.lines \o new)[i] = up.lines[i]
          /\ \A i \in 1..Len(new) : (up.lines \o new)[n + i] = new[i]
      BY <2>a, LinesWritten
    <3>b. IsConnection(up')  BY <2>2, <3>a
    <3>c. Len(new) \in Nat  OBVIOUS
    <3>4. /\ IsConnection(up') /\ up'.parsed = up.parsed
          /\ Len(up'.lines) = n + Len(new) /\ Len(new) \in Nat
          /\ \A i \in 1..n : up'.lines[i] = up.lines[i]
          /\ \A i \in 1..Len(new) : up'.lines[n + i] = new[i]
      BY <3>a, <3>b, <3>c, <2>2
    <3> HIDE DEF n, Relayed
    <3>5. ASSUME NEW i \in 1..Len(up'.lines), NEW k \in Nat, up'.lines[i] = Text(k)
          PROVE  i \in 1..n /\ up.lines[i] = Text(k)
      <4>1. CASE i \in 1..n  BY <4>1, <3>4, <3>5
      <4>2. CASE i \notin 1..n
        <5>1. i - n \in 1..Len(new)  BY <4>2, <3>4, <2>0
        <5>2. up'.lines[n + (i - n)] = new[i - n]  BY <5>1, <3>4
        <5>3. n + (i - n) = i  BY <2>0
        <5> QED BY <5>1, <5>2, <5>3, <3>5, <2>2
      <4> QED BY <4>1, <4>2
    <3>7. ASSUME NEW i \in 1..Len(up'.lines), NEW k \in Nat, up'.lines[i] = Text(k)
          PROVE  k \in 1..said.deltas /\ (i <= up.parsed <=> k <= Relayed)
      BY <3>5, <3>7, <2>b
    <3>8. ASSUME NEW i \in 1..Len(up'.lines), NEW j \in 1..Len(up'.lines), NEW k \in Nat, NEW m \in Nat,
                 i < j, up'.lines[i] = Text(k), up'.lines[j] = Text(m)
          PROVE  k < m
      <4>1. i \in 1..n /\ up.lines[i] = Text(k)  BY <3>5, <3>8
      <4>2. j \in 1..n /\ up.lines[j] = Text(m)  BY <3>5, <3>8
      <4> QED BY <4>1, <4>2, <3>8, <2>b
    <3>9. ASSUME NEW k \in 1..said.deltas
          PROVE  \E i \in 1..Len(up'.lines) : up'.lines[i] = Text(k)
      <4>1. PICK i \in 1..n : up.lines[i] = Text(k)  BY <2>b
      <4>2. i \in 1..Len(up'.lines) /\ up'.lines[i] = Text(k)  BY <4>1, <3>4, <2>0
      <4> QED BY <4>2
    <3>10. Relayed \in 0..said.deltas  BY <2>0
    <3> QED BY <3>4, <2>2, <3>7, <3>8, <3>9, <3>10, <1>2 DEF UpInv
  <2>3. CASE up' = Wrote(up, <<Noise>>) /\ said' = [said EXCEPT !.noise = @ + 1]
    <3>1. <<Noise>> \in Seq(Lines) /\ Len(<<Noise>>) = 1 /\ <<Noise>>[1] = Noise
      BY LinesDiffer
    <3>2. \A k \in Nat : Noise # Text(k)  BY LinesDiffer
    <3>3. said' \in [deltas : Nat, noise : Nat, all : BOOLEAN] /\ said'.deltas = said.deltas
      BY <2>3, <2>a
    <3>4. \A i \in 1..Len(<<Noise>>) : \A k \in Nat : <<Noise>>[i] # Text(k)
      <4>1. \A i \in 1..1 : i = 1  OBVIOUS
      <4> QED BY <3>1, <3>2, <4>1
    <3> QED BY <3>1, <3>3, <3>4, <2>2, <2>3
  <2>4. CASE up' = Wrote(up, <<Usage, Sentinel>>) /\ said' = [said EXCEPT !.all = TRUE]
    <3>1. /\ <<Usage, Sentinel>> \in Seq(Lines) /\ Len(<<Usage, Sentinel>>) = 2
          /\ <<Usage, Sentinel>>[1] = Usage /\ <<Usage, Sentinel>>[2] = Sentinel
      BY LinesDiffer
    <3>2. \A k \in Nat : Usage # Text(k) /\ Sentinel # Text(k)  BY LinesDiffer
    <3>3. said' \in [deltas : Nat, noise : Nat, all : BOOLEAN] /\ said'.deltas = said.deltas
      BY <2>4, <2>a
    <3>4. \A i \in 1..2 : i = 1 \/ i = 2  OBVIOUS
    <3> QED BY <3>1, <3>2, <3>3, <3>4, <2>2, <2>4
  <2> QED BY <2>1, <2>3, <2>4 DEF ProviderSays
<1> QED BY <1>3, <1>4, <1>5 DEF RelayInv

(* What arrives, ends or breaks above the route.                           *)
LEMMA UpstreamKeeps ==
    RelayInv /\ (ProviderEnds \/ GatewayReads \/ UpstreamBreaks \/ IdleTimeout) => RelayInv'
<1> SUFFICES ASSUME RelayInv, ProviderEnds \/ GatewayReads \/ UpstreamBreaks \/ IdleTimeout
             PROVE  RelayInv'
  OBVIOUS
<1>0. UpInv /\ DownInv /\ SdkInv /\ IsConnection(up) /\ IsConnection(down)
  BY DEF RelayInv, UpInv, DownInv
<1>1. UNCHANGED <<down, route, sdk, said>>
  BY DEF ProviderEnds, GatewayReads, UpstreamBreaks, IdleTimeout
<1>2. Relayed' = Relayed  BY <1>1 DEF Relayed
<1>3. /\ IsConnection(up') /\ up'.lines = up.lines /\ up'.parsed = up.parsed
      /\ ~Relaying /\ up.end = "clean" => up'.end = "clean"
  <2>1. CASE ProviderEnds
    <3>1. up' = Ended(up) /\ up.end = "open"  BY <2>1 DEF ProviderEnds
    <3>2. <<>> \in Seq(Lines)  OBVIOUS
    <3>3. IsConnection(Ended(up)) /\ Ended(up).lines = up.lines /\ Ended(up).parsed = up.parsed
      BY <1>0, <3>2, LinesWritten
    <3>4. IsConnection(up')  BY <3>1, <3>3
    <3> QED BY <3>1, <3>3, <3>4
  <2>2. CASE GatewayReads
    <3>1. up' \in Received(up)  BY <2>2 DEF GatewayReads
    <3>2. \A n \in Received(up) : IsConnection(n) /\ n.lines = up.lines
                                     /\ n.parsed = up.parsed /\ n.end = up.end
      BY <1>0, LinesRead
    <3>3. IsConnection(up')  BY <3>1, <3>2
    <3> QED BY <3>1, <3>2, <3>3
  <2>3. CASE UpstreamBreaks \/ IdleTimeout
    <3>1. up' = [up EXCEPT !.end = "broken"] /\ (Relaying \/ up.end = "open")
      BY <2>3 DEF UpstreamBreaks, IdleTimeout
    <3> DEFINE b == [up EXCEPT !.end = "broken"]
    <3>2. IsConnection(b) /\ b.lines = up.lines /\ b.parsed = up.parsed
      BY <1>0, LinesRead
    <3>3. up' = b  BY <3>1
    <3> HIDE DEF b
    <3>4. IsConnection(up')  BY <3>2, <3>3
    <3> QED BY <3>1, <3>2, <3>3, <3>4
  <2> QED BY <2>1, <2>2, <2>3
<1>4. UpInv'  BY <1>0, <1>1, <1>2, <1>3, SameUp
<1>5. DownInv'
  <2>1. IsConnection(down') /\ down'.lines = down.lines  BY <1>0, <1>1
  <2>2. down'.end = "clean" => route = "closed"  BY <1>0, <1>1 DEF DownInv
  <2> QED BY <1>0, <1>1, <1>2, <1>3, <2>1, <2>2, SameDown
<1>6. SdkInv'
  <2>1. /\ down'.lines = down.lines /\ down'.parsed = down.parsed
        /\ down.end = "cut" => down'.end = "cut"
    BY <1>1
  <2> QED BY <1>0, <1>1, <1>2, <2>1, SdkSeesSame
<1> QED BY <1>4, <1>5, <1>6 DEF RelayInv

(* An error's headers are no part of the stream.                           *)
LEMMA RefusalKeeps == RelayInv /\ UpstreamRefuses => RelayInv'
<1> SUFFICES ASSUME RelayInv, UpstreamRefuses PROVE RelayInv'
  OBVIOUS
<1>0. UpInv /\ DownInv /\ SdkInv /\ IsConnection(up) /\ IsConnection(down)
  BY DEF RelayInv, UpInv, DownInv
<1>1. UNCHANGED <<up, down, sdk, said>> /\ route = "opening" /\ route' = "refused"
  BY DEF UpstreamRefuses
<1>2. Relayed' = Relayed  BY <1>1 DEF Relayed
<1> HIDE DEF Relayed
<1>3. IsConnection(up') /\ IsConnection(down')  BY <1>0, <1>1
<1>4. UpInv'  BY <1>0, <1>1, <1>2, <1>3, SameUp
<1>5. DownInv'
  <2>1. \A i \in 1..Relayed' : down'.lines[i] = Text(i)  BY <1>0, <1>1, <1>2 DEF DownInv
  <2>2. down'.end # "clean"  BY <1>0, <1>1 DEF DownInv
  <2> QED BY <1>1, <1>3, <2>1, <2>2 DEF DownInv
<1>6. SdkInv'
  <2>1. /\ down'.lines = down.lines /\ down'.parsed = down.parsed
        /\ down.end = "cut" => down'.end = "cut"
    BY <1>1
  <2> QED BY <1>0, <1>1, <1>2, <2>1, SdkSeesSame
<1> QED BY <1>4, <1>5, <1>6 DEF RelayInv

(* What arrives or breaks off below it.                                    *)
LEMMA DownstreamKeeps == RelayInv /\ (DownstreamBreaks \/ SdkReceives) => RelayInv'
<1> SUFFICES ASSUME RelayInv, DownstreamBreaks \/ SdkReceives PROVE RelayInv'
  OBVIOUS
<1>0. UpInv /\ DownInv /\ SdkInv /\ IsConnection(up) /\ IsConnection(down)
  BY DEF RelayInv, UpInv, DownInv
<1>1. UNCHANGED <<up, route, sdk, said>>
  BY DEF DownstreamBreaks, SdkReceives
<1>3. /\ IsConnection(down') /\ down'.lines = down.lines /\ down'.parsed = down.parsed
      /\ down'.end = "clean" => route = "closed"
      /\ down.end = "cut" => down'.end = "cut"
  <2>0. down.end = "clean" => route = "closed"  BY <1>0 DEF DownInv
  <2>1. CASE DownstreamBreaks
    <3>1. PICK how \in {"broken", "cut"} : down' = [down EXCEPT !.end = how]
      BY <2>1 DEF DownstreamBreaks
    <3>2. down.end # "cut"  BY <2>1 DEF DownstreamBreaks, Undelivered, Lost
    <3> DEFINE b == [down EXCEPT !.end = how]
    <3>3. IsConnection(b) /\ b.lines = down.lines /\ b.parsed = down.parsed /\ b.end = how
      BY <1>0, LinesRead
    <3>4. down' = b  BY <3>1
    <3> HIDE DEF b
    <3>5. IsConnection(down')  BY <3>3, <3>4
    <3> QED BY <3>2, <3>3, <3>4, <3>5
  <2>2. CASE SdkReceives
    <3>1. down' \in Received(down)  BY <2>2 DEF SdkReceives
    <3>2. \A n \in Received(down) : IsConnection(n) /\ n.lines = down.lines
                                     /\ n.parsed = down.parsed /\ n.end = down.end
      BY <1>0, LinesRead
    <3>3. IsConnection(down')  BY <3>1, <3>2
    <3> QED BY <2>0, <3>1, <3>2, <3>3
  <2> QED BY <2>1, <2>2
<1>2. Relayed' = Relayed  BY <1>1, <1>3 DEF Relayed
<1>4. UpInv'
  <2>1. IsConnection(up')  BY <1>0, <1>1
  <2> QED BY <1>0, <1>1, <1>2, <2>1, SameUp
<1>5. DownInv'  BY <1>0, <1>1, <1>2, <1>3, SameDown
<1>6. SdkInv'  BY <1>0, <1>1, <1>2, <1>3, SdkSeesSame
<1> QED BY <1>4, <1>5, <1>6 DEF RelayInv

(* The next delta the route parses is the next one to be relayed.          *)
LEMMA NextIsNext ==
    ASSUME UpInv, DownInv, NEW k \in Nat, up.parsed + 1 \in 1..Len(up.lines),
           up.lines[up.parsed + 1] = Text(k)
    PROVE  k = Relayed + 1 /\ k <= said.deltas
<1> HIDE DEF Relayed
<1> DEFINE p == up.parsed + 1
<1>0. /\ up.parsed \in Nat /\ Relayed \in Nat /\ said.deltas \in Nat
      /\ \A i \in 1..Len(up.lines) : \A m \in Nat :
           up.lines[i] = Text(m) => m \in 1..said.deltas /\ (i <= up.parsed <=> m <= Relayed)
      /\ \A i \in 1..Len(up.lines) : \A j \in 1..Len(up.lines) : \A m \in Nat : \A l \in Nat :
           i < j /\ up.lines[i] = Text(m) /\ up.lines[j] = Text(l) => m < l
      /\ \A m \in 1..said.deltas : \E i \in 1..Len(up.lines) : up.lines[i] = Text(m)
  <2>1. up.parsed \in Nat /\ Relayed \in Nat /\ said.deltas \in Nat  BY Counters
  <2> QED BY <2>1 DEF UpInv
<1>1. k \in 1..said.deltas /\ ~(k <= Relayed)
  BY <1>0
<1>2. ASSUME Relayed + 1 < k PROVE FALSE
  <2>1. Relayed + 1 \in 1..said.deltas  BY <1>0, <1>1, <1>2
  <2>2. PICK j \in 1..Len(up.lines) : up.lines[j] = Text(Relayed + 1)  BY <1>0, <2>1
  <2>3. ~(Relayed + 1 <= Relayed) /\ Relayed + 1 \in Nat  BY <1>0
  <2>4. ~(j <= up.parsed)  BY <1>0, <2>2, <2>3
  <2>5. j # p
    <3> SUFFICES ASSUME j = p PROVE FALSE  OBVIOUS
    <3>1. Text(Relayed + 1) = Text(k)  BY <2>2
    <3>2. Relayed + 1 = k  BY <3>1, <2>3, LinesDiffer
    <3> QED BY <3>2, <1>2, <1>0
  <2>6. p < j  BY <2>4, <2>5, <1>0
  <2>7. k < Relayed + 1  BY <1>0, <2>2, <2>3, <2>6
  <2> QED BY <2>7, <1>2, <1>0
<1> QED BY <1>0, <1>1, <1>2

(* The SDK has parsed none of the last frames while there are none.        *)
LEMMA LongerForSdk ==
    ASSUME UpInv, DownInv, SdkInv, route # "closed", sdk' = sdk, down'.parsed = down.parsed,
           Relayed' \in Nat, Relayed <= Relayed', down.end = "cut" => down'.end = "cut"
    PROVE  SdkInv'
<1>1. /\ down.parsed \in Nat /\ down.parsed <= Relayed /\ Relayed \in Nat
  BY Counters
<1> HIDE DEF Relayed
<1>2. Taken' = Taken  BY <1>1 DEF Taken
<1>3. ASSUME NEW frame PROVE ~Past(frame) /\ ~Past(frame)'  BY <1>1 DEF Past
<1>4. down.parsed <= Relayed + 1 => down'.parsed <= Relayed' + 1  BY <1>1
<1> HIDE DEF Taken, Past
<1> QED BY <1>2, <1>3, <1>4, SameSdk

(* One line relayed, or dropped.                                           *)
LEMMA RelayKeeps == RelayInv /\ Relay => RelayInv'
<1> SUFFICES ASSUME RelayInv, Relay PROVE RelayInv'
  OBVIOUS
<1>0. UpInv /\ DownInv /\ SdkInv /\ IsConnection(up) /\ IsConnection(down)
  BY DEF RelayInv, UpInv, DownInv
<1> DEFINE p == up.parsed + 1
<1>1. UNCHANGED <<sdk, said>> /\ Relaying /\ HasLine(up) /\ up' = Parsed(up)
  BY DEF Relay
<1>2. /\ IsConnection(Parsed(up)) /\ Parsed(up).lines = up.lines /\ Parsed(up).parsed = p
      /\ Parsed(up).end = up.end /\ p \in 1..Len(up.lines)
  BY <1>0, <1>1, LinesRead
<1>3. IsConnection(up') /\ up'.lines = up.lines /\ up'.parsed = p
  <2>1. IsConnection(up')  BY <1>1, <1>2
  <2> QED BY <2>1, <1>1, <1>2
<1>4. /\ up.parsed \in Nat /\ Len(up.lines) \in Nat /\ Relayed \in Nat /\ said.deltas \in Nat
      /\ Len(down.lines) \in Nat /\ up.lines \in Seq(Lines) /\ route # "closed"
      /\ Len(down.lines) = Relayed /\ Relayed <= said.deltas
  BY <1>0, <1>1, Counters DEF Relaying
<1>5. /\ \A i \in 1..Len(up.lines) : \A m \in Nat :
           up.lines[i] = Text(m) => m \in 1..said.deltas /\ (i <= up.parsed <=> m <= Relayed)
      /\ \A i \in 1..Len(up.lines) : \A j \in 1..Len(up.lines) : \A m \in Nat : \A l \in Nat :
           i < j /\ up.lines[i] = Text(m) /\ up.lines[j] = Text(l) => m < l
      /\ \A m \in 1..said.deltas : \E i \in 1..Len(up.lines) : up.lines[i] = Text(m)
      /\ said \in [deltas : Nat, noise : Nat, all : BOOLEAN]
  <2> HIDE DEF Relayed
  <2> QED BY <1>0 DEF UpInv
<1>6. NextLine(up) = up.lines[p] /\ up.lines[p] \in Lines
  BY <1>2, <1>4 DEF NextLine
<1>7. CASE NextLine(up)[1] = "text"
  <2>1. PICK k \in Nat : up.lines[p] = Text(k)  BY <1>6, <1>7, LinesDiffer
  <2>2. k = Relayed + 1 /\ k <= said.deltas
    <3> HIDE DEF Relayed
    <3> QED BY <1>0, <1>2, <2>1, NextIsNext
  <2>3. down' = Wrote(down, <<Text(k)>>) /\ route' = "relaying"
    BY <1>6, <1>7, <2>1 DEF Relay
  <2> DEFINE new == Text(k)
  <2>a. new \in Lines  BY LinesDiffer
  <2>b. new = Text(Relayed + 1)  BY <2>2
  <2>3a. down' = Wrote(down, <<new>>)  BY <2>3
  <2> HIDE DEF new
  <2>4. <<new>> \in Seq(Lines) /\ Len(<<new>>) = 1 /\ <<new>>[1] = new
    BY <2>a
  <2>5. /\ IsConnection(Wrote(down, <<new>>)) /\ Wrote(down, <<new>>).parsed = down.parsed
        /\ Wrote(down, <<new>>).end = down.end
        /\ Wrote(down, <<new>>).lines = down.lines \o <<new>>
        /\ Len(down.lines \o <<new>>) = Len(down.lines) + Len(<<new>>)
        /\ \A i \in 1..Len(down.lines) : (down.lines \o <<new>>)[i] = down.lines[i]
        /\ \A i \in 1..Len(<<new>>) : (down.lines \o <<new>>)[Len(down.lines) + i] = <<new>>[i]
    BY <1>0, <2>4, LinesWritten
  <2>5a. IsConnection(down')  BY <2>3a, <2>5
  <2>6. /\ down'.parsed = down.parsed /\ down'.end = down.end
        /\ Len(down'.lines) = Relayed + 1
        /\ \A i \in 1..Relayed : down'.lines[i] = down.lines[i]
        /\ down'.lines[Relayed + 1] = new
    <3>1. 1 \in 1..Len(<<new>>)  BY <2>4
    <3> HIDE DEF Relayed
    <3> QED BY <3>1, <2>3a, <2>4, <2>5, <1>4
  <2>7. Relayed' = Relayed + 1  BY <2>3, <2>6 DEF Relayed
  <2>8. UpInv'
    <3> HIDE DEF Relayed, p
    <3>1. ASSUME NEW i \in 1..Len(up.lines), NEW m \in Nat, up.lines[i] = Text(m)
          PROVE  i <= p <=> m <= Relayed + 1
      <4>0. p = up.parsed + 1  BY DEF p
      <4>1. CASE i < p  BY <4>0, <4>1, <3>1, <1>4, <1>5
      <4>2. CASE i = p
        <5>1. m = k  BY <4>2, <3>1, <2>1, LinesDiffer
        <5> QED BY <5>1, <4>2, <4>0, <2>2, <1>4
      <4>3. CASE p < i
        <5>1. k < m  BY <4>3, <3>1, <2>1, <1>2, <1>5
        <5> QED BY <5>1, <4>3, <4>0, <2>2, <1>4
      <4> QED BY <4>0, <4>1, <4>2, <4>3, <1>4
    <3>2. Relayed + 1 \in 0..said.deltas  BY <2>2, <1>4
    <3>3. \A i \in 1..Len(up.lines) : \A m \in Nat :
            up.lines[i] = Text(m) => m \in 1..said.deltas /\ (i <= p <=> m <= Relayed + 1)
      BY <3>1, <1>5
    <3> QED BY <1>1, <1>3, <1>5, <2>7, <3>2, <3>3 DEF UpInv
  <2>9. DownInv'
    <3>1. \A i \in 1..Relayed : down.lines[i] = Text(i)
      <4> HIDE DEF Relayed
      <4> QED BY <1>0 DEF DownInv
    <3>2. down.end # "clean"
      <4> HIDE DEF Relayed
      <4> QED BY <1>0, <1>4 DEF DownInv
    <3> HIDE DEF Relayed
    <3>3. ASSUME NEW i \in 1..(Relayed + 1) PROVE down'.lines[i] = Text(i)
      <4>1. CASE i \in 1..Relayed  BY <4>1, <3>1, <2>6
      <4>2. CASE i = Relayed + 1  BY <4>2, <2>6, <2>b
      <4> QED BY <4>1, <4>2, <1>4
    <3>4. \A i \in 1..Relayed' : down'.lines[i] = Text(i)
      BY <3>3, <2>7
    <3> QED BY <2>3, <2>5a, <2>6, <3>2, <3>4 DEF DownInv
  <2>10. SdkInv'
    <3>1. Relayed' \in Nat /\ Relayed <= Relayed'  BY <2>7, <1>4
    <3> HIDE DEF Relayed
    <3> QED BY <1>0, <1>1, <1>4, <2>6, <3>1, LongerForSdk
  <2> QED BY <2>8, <2>9, <2>10 DEF RelayInv
<1>8. CASE NextLine(up)[1] # "text"
  <2>1. UNCHANGED <<down, route>>  BY <1>8 DEF Relay
  <2>2. Relayed' = Relayed  BY <2>1 DEF Relayed
  <2>3. \A m \in Nat : up.lines[p] # Text(m)  BY <1>6, <1>8, LinesDiffer
  <2>4. UpInv'
    <3> HIDE DEF Relayed, p
    <3>0. p = up.parsed + 1  BY DEF p
    <3>1. ASSUME NEW i \in 1..Len(up.lines), NEW m \in Nat, up.lines[i] = Text(m)
          PROVE  i <= p <=> m <= Relayed
      <4>1. i # p  BY <3>1, <2>3
      <4>2. i <= p <=> i <= up.parsed  BY <4>1, <3>0, <1>4
      <4> QED BY <4>2, <3>1, <1>5
    <3>2. Relayed \in 0..said.deltas  BY <1>4
    <3>3. \A i \in 1..Len(up.lines) : \A m \in Nat :
            up.lines[i] = Text(m) => m \in 1..said.deltas /\ (i <= p <=> m <= Relayed)
      BY <3>1, <1>5
    <3> QED BY <1>1, <1>3, <1>5, <2>2, <3>2, <3>3 DEF UpInv
  <2>5. DownInv'
    <3>1. IsConnection(down') /\ down'.lines = down.lines  BY <1>0, <2>1
    <3>2. down'.end = "clean" => route = "closed"
      <4> HIDE DEF Relayed
      <4> QED BY <1>0, <2>1 DEF DownInv
    <3> HIDE DEF Relayed
    <3> QED BY <1>0, <1>1, <2>1, <2>2, <3>1, <3>2, SameDown
  <2>6. SdkInv'
    <3>1. /\ down'.lines = down.lines /\ down'.parsed = down.parsed
          /\ down.end = "cut" => down'.end = "cut"
      BY <2>1
    <3> HIDE DEF Relayed
    <3> QED BY <1>0, <1>1, <2>2, <3>1, SdkSeesSame
  <2> QED BY <2>4, <2>5, <2>6 DEF RelayInv
<1> QED BY <1>7, <1>8

(* A drained upstream that ended cleanly was relayed to the last delta.    *)
LEMMA EndsKeep == RelayInv /\ (UpstreamEnds \/ FailsEarly) => RelayInv'
<1> SUFFICES ASSUME RelayInv, UpstreamEnds \/ FailsEarly PROVE RelayInv'
  OBVIOUS
<1>0. UpInv /\ DownInv /\ SdkInv /\ IsConnection(up) /\ IsConnection(down)
  BY DEF RelayInv, UpInv, DownInv
<1>1. UNCHANGED <<up, down, sdk, said>> /\ route # "closed" /\ route' \in {"settling", "failed"}
  BY DEF UpstreamEnds, FailsEarly, Relaying
<1>2. Relayed' = Relayed  BY <1>1 DEF Relayed
<1>3. route' = "settling" => up.end = "clean" /\ Relayed = said.deltas
  <2> SUFFICES ASSUME route' = "settling" PROVE up.end = "clean" /\ Relayed = said.deltas
    OBVIOUS
  <2>1. up.end = "clean" /\ ~HasLine(up) /\ up.got = 2 * Len(up.lines)
    BY DEF UpstreamEnds, FailsEarly, Drained, Lost
  <2>2. /\ up.parsed \in Nat /\ Len(up.lines) \in Nat /\ up.parsed <= Len(up.lines)
        /\ Relayed \in Nat /\ said.deltas \in Nat /\ Relayed <= said.deltas
    BY <1>0, Counters
  <2> HIDE DEF Relayed
  <2>3. up.parsed = Len(up.lines)  BY <2>1, <2>2 DEF HasLine
  <2>4. CASE said.deltas = 0  BY <2>4, <2>1, <2>2
  <2>5. CASE said.deltas # 0
    <3>1. said.deltas \in 1..said.deltas  BY <2>2, <2>5
    <3>2. PICK i \in 1..Len(up.lines) : up.lines[i] = Text(said.deltas)
      BY <1>0, <3>1 DEF UpInv
    <3>3. i <= up.parsed  BY <2>3
    <3>4. said.deltas <= Relayed  BY <1>0, <2>2, <3>2, <3>3 DEF UpInv
    <3> QED BY <3>4, <2>1, <2>2
  <2> QED BY <2>4, <2>5
<1> HIDE DEF Relayed
<1>4. UpInv'
  <2>1. IsConnection(up')  BY <1>0, <1>1
  <2> QED BY <1>0, <1>1, <1>2, <2>1, SameUp
<1>5. DownInv'
  <2>1. IsConnection(down')  BY <1>0, <1>1
  <2>2. \A i \in 1..Relayed' : down'.lines[i] = Text(i)  BY <1>0, <1>1, <1>2 DEF DownInv
  <2>3. down'.end # "clean"  BY <1>0, <1>1 DEF DownInv
  <2>4. route' # "closed"  BY <1>1
  <2>5. route' = "settling" => up'.end = "clean" /\ Relayed' = said'.deltas
    BY <1>1, <1>2, <1>3
  <2>6. route' \in {"opening", "refused", "relaying", "settling", "closed", "failed"}  BY <1>1
  <2> QED BY <2>1, <2>2, <2>3, <2>4, <2>5, <2>6 DEF DownInv
<1>6. SdkInv'
  <2>1. /\ down'.lines = down.lines /\ down'.parsed = down.parsed
        /\ down.end = "cut" => down'.end = "cut"
    BY <1>1
  <2> QED BY <1>0, <1>1, <1>2, <2>1, SdkSeesSame
<1> QED BY <1>4, <1>5, <1>6 DEF RelayInv

(* The two frames that end a stream.                                       *)
LEMMA ClosingKeeps ==
    ASSUME RelayInv, NEW first \in Lines, NEW second \in Lines,
           down' = Ended(Wrote(down, <<first, second>>)),
           \/ route = "settling" /\ first = DoneFrame /\ second = Sentinel
           \/ route \in {"relaying", "settling"} /\ first = ErrorEvent /\ second = ErrorData,
           route' = "closed", UNCHANGED <<up, sdk, said>>
    PROVE  RelayInv'
<1> DEFINE new == <<first, second>>
<1> DEFINE w == Wrote(down, new)
<1>0. UpInv /\ DownInv /\ SdkInv /\ IsConnection(up) /\ IsConnection(down)
  BY DEF RelayInv, UpInv, DownInv
<1>1. new \in Seq(Lines) /\ Len(new) = 2 /\ new[1] = first /\ new[2] = second
  OBVIOUS
<1> HIDE DEF new
<1>2. /\ IsConnection(w) /\ w.parsed = down.parsed /\ w.end = down.end
      /\ w.lines = down.lines \o new
      /\ Len(down.lines \o new) = Len(down.lines) + Len(new)
      /\ \A i \in 1..Len(down.lines) : (down.lines \o new)[i] = down.lines[i]
      /\ \A i \in 1..Len(new) : (down.lines \o new)[Len(down.lines) + i] = new[i]
  BY <1>0, <1>1, LinesWritten
<1>3. down' = Ended(w)  BY DEF new
<1> HIDE DEF w
<1>4. /\ IsConnection(Ended(w)) /\ Ended(w).lines = w.lines /\ Ended(w).parsed = w.parsed
      /\ Ended(w).end = IF w.end = "open" THEN "clean" ELSE w.end
  BY <1>1, <1>2, LinesWritten
<1>5. IsConnection(down')  BY <1>3, <1>4
<1>6. /\ down.parsed \in Nat /\ Len(down.lines) \in Nat /\ Relayed \in Nat /\ route # "closed"
      /\ Len(down.lines) = Relayed
  BY <1>0, Counters
<1>7. /\ down'.parsed = down.parsed /\ (down.end = "cut" => down'.end = "cut")
      /\ Len(down'.lines) = Relayed + 2
      /\ \A i \in 1..Relayed : down'.lines[i] = down.lines[i]
      /\ down'.lines[Relayed + 1] = first /\ down'.lines[Relayed + 2] = second
  <2>1. 1 \in 1..Len(new) /\ 2 \in 1..Len(new)  BY <1>1
  <2> HIDE DEF Relayed
  <2> QED BY <2>1, <1>1, <1>2, <1>3, <1>4, <1>6
<1>8. Relayed' = Relayed  BY <1>6, <1>7 DEF Relayed
<1>9. down.lines = down.lines /\ \A i \in 1..Relayed : down.lines[i] = Text(i)
  <2> HIDE DEF Relayed
  <2> QED BY <1>0 DEF DownInv
<1>10. route = "settling" => up.end = "clean" /\ Relayed = said.deltas
  <2> HIDE DEF Relayed
  <2> QED BY <1>0 DEF DownInv
<1> HIDE DEF Relayed
<1>11. UpInv'
  <2>1. IsConnection(up')  BY <1>0
  <2> QED BY <1>0, <1>8, <2>1, SameUp
<1>12. DownInv'
  <2>1. ASSUME NEW f, NEW s PROVE LastFrames(f, s)' <=> (first = f /\ second = s)
    BY <1>7, <1>8 DEF LastFrames
  <2>2. LastFrames(DoneFrame, Sentinel)' \/ LastFrames(ErrorEvent, ErrorData)'
    BY <2>1
  <2>3. LastFrames(DoneFrame, Sentinel)' => up'.end = "clean" /\ Relayed' = said'.deltas
    BY <2>1, <1>8, <1>10, LinesDiffer
  <2>4. \A i \in 1..Relayed' : down'.lines[i] = Text(i)  BY <1>7, <1>8, <1>9
  <2> QED BY <1>5, <2>2, <2>3, <2>4 DEF DownInv
<1>13. SdkInv'
  <2>1. Relayed' \in Nat /\ Relayed <= Relayed'  BY <1>6, <1>8
  <2> QED BY <1>0, <1>6, <1>7, <2>1, LongerForSdk
<1> QED BY <1>11, <1>12, <1>13 DEF RelayInv

(* The stream ends with its done frame, or with an error.                  *)
LEMMA CloseKeeps == RelayInv /\ (Settled \/ Interrupted) => RelayInv'
<1> SUFFICES ASSUME RelayInv, Settled \/ Interrupted PROVE RelayInv'
  OBVIOUS
<1>1. {DoneFrame, Sentinel, ErrorEvent, ErrorData} \subseteq Lines  BY LinesDiffer
<1>2. CASE Settled
  <2>1. /\ route = "settling" /\ route' = "closed" /\ UNCHANGED <<up, sdk, said>>
        /\ down' = Ended(Wrote(down, <<DoneFrame, Sentinel>>))
    BY <1>2 DEF Settled
  <2> QED BY <1>1, <2>1, ClosingKeeps
<1>3. CASE Interrupted
  <2>1. /\ route \in {"relaying", "settling"} /\ route' = "closed" /\ UNCHANGED <<up, sdk, said>>
        /\ down' = Ended(Wrote(down, <<ErrorEvent, ErrorData>>))
    BY <1>3 DEF Interrupted, ErrorEnd
  <2> QED BY <1>1, <2>1, ClosingKeeps
<1> QED BY <1>2, <1>3

(* What an SDK that is still reading has been given, and what comes next.  *)
LEMMA WhatTheSdkReads ==
    ASSUME RelayInv, sdk.out = "reading"
    PROVE  /\ ~HalfHeard /\ Heard = sdk.text /\ sdk.text \in Seq(Lines \cup {Fragment})
           /\ Len(sdk.text) = Taken /\ \A i \in 1..Taken : sdk.text[i] = Text(i)
           /\ down.parsed \in Nat /\ Relayed \in Nat /\ down.parsed <= Relayed + 1
           /\ down.parsed <= Relayed => ~sdk.error /\ ~sdk.done
           /\ HasLine(down) /\ down.parsed < Relayed => NextLine(down) = Text(down.parsed + 1)
           /\ HasLine(down) /\ down.parsed = Relayed =>
                route = "closed" /\ NextLine(down) \in {DoneFrame, ErrorEvent}
           /\ HasLine(down) /\ down.parsed = Relayed + 1 =>
                \/ sdk.done /\ ~sdk.error /\ NextLine(down) = Sentinel
                \/ sdk.error /\ ~sdk.done /\ NextLine(down) = ErrorData
<1>0. UpInv /\ DownInv /\ SdkInv /\ IsConnection(down)
  BY DEF RelayInv, DownInv
<1>1. /\ down.parsed \in Nat /\ Len(down.lines) \in Nat /\ Relayed \in Nat
      /\ down.parsed <= Len(down.lines)
      /\ route = "closed" => Len(down.lines) = Relayed + 2
      /\ route # "closed" => Len(down.lines) = Relayed
  BY <1>0, Counters
<1>2. HasLine(down) => down.parsed + 1 \in 1..Len(down.lines)
  BY <1>0, LinesRead
<1> HIDE DEF Relayed
<1>3. ~HalfHeard  BY <1>0 DEF SdkInv
<1>4. Heard = sdk.text  BY <1>3 DEF Heard
<1>5. /\ sdk.text \in Seq(Lines \cup {Fragment}) /\ Len(sdk.text) = Taken
      /\ \A i \in 1..Taken : sdk.text[i] = Text(i)
  <2> HIDE DEF Taken, Heard, HalfHeard
  <2> QED BY <1>0, <1>4 DEF SdkInv
<1>6. /\ down.parsed <= Relayed + 1
      /\ sdk.error <=> Past(ErrorEvent)
      /\ sdk.done <=> Past(DoneFrame)
  <2> HIDE DEF Taken, Heard, HalfHeard, Past
  <2> QED BY <1>0 DEF SdkInv
<1>7. down.parsed <= Relayed => ~sdk.error /\ ~sdk.done
  BY <1>1, <1>6 DEF Past
<1>8. /\ \A i \in 1..Relayed : down.lines[i] = Text(i)
      /\ route = "closed" => \/ LastFrames(DoneFrame, Sentinel)
                             \/ LastFrames(ErrorEvent, ErrorData)
  BY <1>0 DEF DownInv
<1>9. HasLine(down) /\ down.parsed < Relayed => NextLine(down) = Text(down.parsed + 1)
  BY <1>1, <1>2, <1>8 DEF NextLine
<1>10. HasLine(down) /\ down.parsed = Relayed =>
                route = "closed" /\ NextLine(down) \in {DoneFrame, ErrorEvent}
  BY <1>1, <1>2, <1>8 DEF NextLine, LastFrames
<1>11. ASSUME HasLine(down), down.parsed = Relayed + 1
       PROVE  \/ sdk.done /\ ~sdk.error /\ NextLine(down) = Sentinel
              \/ sdk.error /\ ~sdk.done /\ NextLine(down) = ErrorData
  <2>1. route = "closed"  BY <1>1, <1>2, <1>11
  <2>2. down.parsed > Relayed /\ down.parsed + 1 = Relayed + 2  BY <1>1, <1>11
  <2>3. NextLine(down) = down.lines[Relayed + 2]  BY <2>2 DEF NextLine
  <2>4. DoneFrame # ErrorEvent  BY LinesDiffer
  <2>5. CASE LastFrames(DoneFrame, Sentinel)
    <3>1. Past(DoneFrame) /\ ~Past(ErrorEvent)  BY <2>2, <2>4, <2>5 DEF LastFrames, Past
    <3> QED BY <3>1, <2>3, <2>5, <1>6 DEF LastFrames
  <2>6. CASE LastFrames(ErrorEvent, ErrorData)
    <3>1. Past(ErrorEvent) /\ ~Past(DoneFrame)  BY <2>2, <2>4, <2>6 DEF LastFrames, Past
    <3> QED BY <3>1, <2>3, <2>6, <1>6 DEF LastFrames
  <2> QED BY <2>1, <2>5, <2>6, <1>8
<1> HIDE DEF Taken, Heard, HalfHeard, Past
<1> QED BY <1>1, <1>3, <1>4, <1>5, <1>6, <1>7, <1>9, <1>10, <1>11

(* A record of the SDK that ends its reading, or goes on with it.          *)
SdkRecord == [which : SdkKinds, text : Seq(Lines \cup {Fragment}), done : BOOLEAN,
              error : BOOLEAN, out : {"reading", "raised", "returned"}]

(* The SDK takes the next line for what it is.                             *)
LEMMA SdkParseKeeps == RelayInv /\ SdkParses => RelayInv'
<1> SUFFICES ASSUME RelayInv, SdkParses PROVE RelayInv'
  OBVIOUS
<1>0. UpInv /\ DownInv /\ SdkInv /\ IsConnection(up) /\ IsConnection(down)
  BY DEF RelayInv, UpInv, DownInv
<1>1. /\ UNCHANGED <<up, route, said>> /\ sdk.out = "reading" /\ HasLine(down)
      /\ down' = Parsed(down) /\ sdk' = Understood(NextLine(down))
  BY DEF SdkParses
<1>2. /\ IsConnection(Parsed(down)) /\ Parsed(down).lines = down.lines
      /\ Parsed(down).parsed = down.parsed + 1 /\ Parsed(down).end = down.end
  BY <1>0, <1>1, LinesRead
<1>3. IsConnection(down') /\ down'.lines = down.lines /\ down'.parsed = down.parsed + 1
      /\ down'.end = down.end
  <2>1. IsConnection(down')  BY <1>1, <1>2
  <2> QED BY <2>1, <1>1, <1>2
<1>4. Relayed' = Relayed  BY <1>1, <1>3 DEF Relayed
<1>5. /\ ~HalfHeard /\ Heard = sdk.text /\ sdk.text \in Seq(Lines \cup {Fragment})
      /\ Len(sdk.text) = Taken /\ \A i \in 1..Taken : sdk.text[i] = Text(i)
      /\ down.parsed \in Nat /\ Relayed \in Nat /\ down.parsed <= Relayed + 1
      /\ down.parsed <= Relayed => ~sdk.error /\ ~sdk.done
      /\ down.parsed < Relayed => NextLine(down) = Text(down.parsed + 1)
      /\ down.parsed = Relayed => NextLine(down) \in {DoneFrame, ErrorEvent}
      /\ down.parsed = Relayed + 1 =>
           \/ sdk.done /\ ~sdk.error /\ NextLine(down) = Sentinel
           \/ sdk.error /\ ~sdk.done /\ NextLine(down) = ErrorData
  BY <1>1, WhatTheSdkReads
<1>6. UpInv'
  <2> HIDE DEF Relayed
  <2>1. IsConnection(up')  BY <1>0, <1>1
  <2> QED BY <1>0, <1>1, <1>4, <2>1, SameUp
<1>7. DownInv'
  <2> HIDE DEF Relayed
  <2>1. down'.end = "clean" => route = "closed"  BY <1>0, <1>3 DEF DownInv
  <2> QED BY <1>0, <1>1, <1>3, <1>4, <2>1, SameDown
<1> HIDE DEF Relayed, HasLine, NextLine
<1>8. /\ sdk \in SdkRecord
      /\ down.parsed > Relayed => (sdk.error <=> Past(ErrorEvent)) /\ (sdk.done <=> Past(DoneFrame))
  <2> HIDE DEF Taken, Heard, HalfHeard, Past
  <2> QED BY <1>0, <1>1 DEF SdkInv, SdkRecord
<1>9. ASSUME NEW frame
      PROVE  Past(frame)' <=> down.parsed + 1 > Relayed /\ down.lines[Relayed + 1] = frame
  BY <1>3, <1>4 DEF Past
<1>10. Taken' = IF down.parsed + 1 <= Relayed THEN down.parsed + 1 ELSE Relayed
  BY <1>3, <1>4 DEF Taken
<1>11. SdkInv'
  <2>1. CASE down.parsed < Relayed
    <3> DEFINE new == Text(down.parsed + 1)
    <3>1. new[1] = "text" /\ new \in Lines /\ new # Fragment /\ new \notin Frames
      BY <1>5, LinesDiffer
    <3>2. NextLine(down) = new /\ ~sdk.error /\ ~sdk.done  BY <1>5, <2>1
    <3> HIDE DEF new
    <3>3. sdk' = Yielded(new)
      <4>1. {Sentinel, ErrorEvent, ErrorData, DoneFrame} \subseteq Frames  BY LinesDiffer
      <4> QED BY <4>1, <3>1, <3>2, <1>1 DEF Understood
    <3>4. sdk' = [sdk EXCEPT !.text = Append(sdk.text, new)]  BY <3>3 DEF Yielded
    <3>5. /\ sdk' \in SdkRecord /\ sdk'.text = Append(sdk.text, new)
          /\ sdk'.out = "reading" /\ ~sdk'.error /\ ~sdk'.done
      <4>1. Append(sdk.text, new) \in Seq(Lines \cup {Fragment})  BY <1>5, <3>1
      <4> QED BY <4>1, <3>2, <3>4, <1>1, <1>8 DEF SdkRecord
    <3>6. /\ Len(sdk'.text) = Len(sdk.text) + 1 /\ sdk'.text[Len(sdk.text) + 1] = new
          /\ \A i \in 1..Len(sdk.text) : sdk'.text[i] = sdk.text[i]
          /\ Len(sdk.text) \in Nat
      BY <3>5, <1>5, <3>1
    <3>7. ~HalfHeard' /\ Heard' = sdk'.text
      <4>1. ~HalfHeard'  BY <3>1, <3>6 DEF HalfHeard
      <4> QED BY <4>1 DEF Heard
    <3>8. Taken = down.parsed /\ Taken' = down.parsed + 1
      BY <2>1, <1>5, <1>10 DEF Taken
    <3>9. \A i \in 1..Taken' : Heard'[i] = Text(i)
      <4> SUFFICES ASSUME NEW i \in 1..Taken' PROVE Heard'[i] = Text(i)
        OBVIOUS
      <4>1. CASE i \in 1..Taken  BY <4>1, <3>6, <3>7, <1>5
      <4>2. CASE i = down.parsed + 1  BY <4>2, <3>6, <3>7, <3>8, <1>5 DEF new
      <4> QED BY <4>1, <4>2, <3>8, <1>5
    <3>10. Len(Heard') = Taken'  BY <3>6, <3>7, <3>8, <1>5
    <3>11. ~Past(ErrorEvent)' /\ ~Past(DoneFrame)'
      BY <1>9, <2>1, <1>5
    <3>12. down'.parsed <= Relayed' + 1  BY <1>3, <1>4, <1>5, <2>1
    <3> HIDE DEF Heard, HalfHeard, Taken, Past
    <3> QED BY <3>5, <3>7, <3>9, <3>10, <3>11, <3>12 DEF SdkInv, SdkRecord
  <2>2. CASE down.parsed >= Relayed
    <3>1. Taken' = Taken  BY <2>2, <1>5, <1>10 DEF Taken
    <3>2. \A s : s = sdk' /\ s.text = sdk.text => Heard' = Heard /\ ~HalfHeard'
      BY <1>5 DEF Heard, HalfHeard
    <3>3. CASE down.parsed = Relayed /\ NextLine(down) = DoneFrame
      <4>1. ~sdk.error /\ ~sdk.done  BY <3>3, <1>5
      <4>2. sdk' = [sdk EXCEPT !.done = TRUE]
        BY <4>1, <3>3, <1>1, LinesDiffer DEF Understood
      <4>3. /\ sdk' \in SdkRecord /\ sdk'.text = sdk.text /\ sdk'.out = "reading"
            /\ ~sdk'.error /\ sdk'.done
        BY <4>1, <4>2, <1>1, <1>8 DEF SdkRecord
      <4>4. Heard' = Heard /\ ~HalfHeard'  BY <4>3, <3>2
      <4>5. down.lines[Relayed + 1] = DoneFrame  BY <3>3 DEF NextLine
      <4>6. Past(DoneFrame)' /\ ~Past(ErrorEvent)'
        BY <4>5, <1>9, <3>3, <1>5, LinesDiffer
      <4>7. down'.parsed <= Relayed' + 1  BY <1>3, <1>4, <1>5, <3>3
      <4>8. Len(Heard') = Taken' /\ \A i \in 1..Taken' : Heard'[i] = Text(i)
        BY <4>4, <3>1, <1>5
      <4> HIDE DEF Heard, HalfHeard, Taken, Past
      <4> QED BY <4>3, <4>4, <4>6, <4>7, <4>8 DEF SdkInv, SdkRecord
    <3>4. CASE down.parsed = Relayed /\ NextLine(down) = ErrorEvent
      <4>1. ~sdk.error /\ ~sdk.done  BY <3>4, <1>5
      <4>2. sdk' = [sdk EXCEPT !.error = TRUE]
        BY <4>1, <3>4, <1>1, LinesDiffer DEF Understood
      <4>3. /\ sdk' \in SdkRecord /\ sdk'.text = sdk.text /\ sdk'.out = "reading"
            /\ sdk'.error /\ ~sdk'.done
        BY <4>1, <4>2, <1>1, <1>8 DEF SdkRecord
      <4>4. Heard' = Heard /\ ~HalfHeard'  BY <4>3, <3>2
      <4>5. down.lines[Relayed + 1] = ErrorEvent  BY <3>4 DEF NextLine
      <4>6. ~Past(DoneFrame)' /\ Past(ErrorEvent)'
        BY <4>5, <1>9, <3>4, <1>5, LinesDiffer
      <4>7. down'.parsed <= Relayed' + 1  BY <1>3, <1>4, <1>5, <3>4
      <4>8. Len(Heard') = Taken' /\ \A i \in 1..Taken' : Heard'[i] = Text(i)
        BY <4>4, <3>1, <1>5
      <4> HIDE DEF Heard, HalfHeard, Taken, Past
      <4> QED BY <4>3, <4>4, <4>6, <4>7, <4>8 DEF SdkInv, SdkRecord
    <3>5. CASE down.parsed = Relayed + 1 /\ sdk.done /\ ~sdk.error /\ NextLine(down) = Sentinel
      <4>2. sdk' = [sdk EXCEPT !.out = "returned"]
        BY <3>5, <1>1, LinesDiffer DEF Understood, Returned
      <4>3. /\ sdk' \in SdkRecord /\ sdk'.text = sdk.text /\ sdk'.out = "returned" /\ sdk'.done
        BY <3>5, <4>2, <1>1, <1>8 DEF SdkRecord
      <4>4. Heard' = Heard /\ ~HalfHeard'  BY <4>3, <3>2
      <4>5. Past(DoneFrame)  BY <3>5, <1>5, <1>8
      <4>6. Past(DoneFrame)'
        <5>1. down.lines[Relayed + 1] = DoneFrame  BY <4>5 DEF Past
        <5> QED BY <5>1, <1>9, <3>5, <1>5
      <4>8. Len(Heard') = Taken' /\ \A i \in 1..Taken' : Heard'[i] = Text(i)
        BY <4>4, <3>1, <1>5
      <4> HIDE DEF Heard, HalfHeard, Taken, Past
      <4> QED BY <4>3, <4>4, <4>6, <4>8 DEF SdkInv, SdkRecord
    <3>6. CASE down.parsed = Relayed + 1 /\ sdk.error /\ ~sdk.done /\ NextLine(down) = ErrorData
      <4>2. sdk' = [sdk EXCEPT !.out = "raised"]
        BY <3>6, <1>1, LinesDiffer DEF Understood, Raised
      <4>3. /\ sdk' \in SdkRecord /\ sdk'.text = sdk.text /\ sdk'.out = "raised" /\ ~sdk'.done
        BY <3>6, <4>2, <1>1, <1>8 DEF SdkRecord
      <4>4. Heard' = Heard /\ ~HalfHeard'  BY <4>3, <3>2
      <4>8. Len(Heard') = Taken' /\ \A i \in 1..Taken' : Heard'[i] = Text(i)
        BY <4>4, <3>1, <1>5
      <4> HIDE DEF Heard, HalfHeard, Taken, Past
      <4> QED BY <4>3, <4>4, <4>8 DEF SdkInv, SdkRecord
    <3> QED BY <2>2, <3>3, <3>4, <3>5, <3>6, <1>5
  <2> QED BY <2>1, <2>2, <1>5
<1> QED BY <1>6, <1>7, <1>11 DEF RelayInv

(* The SDK stops reading.                                                  *)
LEMMA SdkStopKeeps ==
    RelayInv /\ (SdkEnds \/ FragmentYielded \/ SdkTimesOut) => RelayInv'
<1> SUFFICES ASSUME RelayInv, SdkEnds \/ FragmentYielded \/ SdkTimesOut PROVE RelayInv'
  OBVIOUS
<1>0. UpInv /\ DownInv /\ SdkInv /\ IsConnection(up) /\ IsConnection(down)
  BY DEF RelayInv, UpInv, DownInv
<1>1. UNCHANGED <<up, down, route, said>> /\ sdk.out = "reading"
  BY DEF SdkEnds, FragmentYielded, SdkTimesOut
<1>4. Relayed' = Relayed  BY <1>1 DEF Relayed
<1>5. /\ ~HalfHeard /\ Heard = sdk.text /\ sdk.text \in Seq(Lines \cup {Fragment})
      /\ Len(sdk.text) = Taken /\ \A i \in 1..Taken : sdk.text[i] = Text(i)
      /\ down.parsed \in Nat /\ Relayed \in Nat /\ down.parsed <= Relayed + 1
  BY <1>1, WhatTheSdkReads
<1>6. UpInv'
  <2> HIDE DEF Relayed
  <2>1. IsConnection(up')  BY <1>0, <1>1
  <2> QED BY <1>0, <1>1, <1>4, <2>1, SameUp
<1>7. DownInv'
  <2> HIDE DEF Relayed
  <2>1. down'.end = "clean" => route = "closed"  BY <1>0, <1>1 DEF DownInv
  <2>2. IsConnection(down')  BY <1>0, <1>1
  <2> QED BY <1>0, <1>1, <1>4, <2>1, <2>2, SameDown
<1>8. sdk \in SdkRecord /\ (sdk.done => Past(DoneFrame))
  <2> HIDE DEF Taken, Heard, HalfHeard, Past, Relayed
  <2> QED BY <1>0, <1>1 DEF SdkInv, SdkRecord
<1>9. Taken' = Taken /\ (Past(DoneFrame)' <=> Past(DoneFrame))
  <2> HIDE DEF Relayed
  <2> QED BY <1>1, <1>4 DEF Taken, Past
<1>10. ASSUME sdk' = Raised \/ (sdk' = Returned /\ (~sdk.done => down.end = "cut"))
       PROVE  SdkInv'
  <2>a. sdk' = Raised \/ sdk' = Returned  BY <1>10
  <2>1. /\ sdk' \in SdkRecord /\ sdk'.text = sdk.text /\ sdk'.done = sdk.done
        /\ sdk'.out # "reading"
    <3>1. CASE sdk' = Raised  BY <3>1, <1>8 DEF Raised, SdkRecord
    <3>2. CASE sdk' = Returned  BY <3>2, <1>8 DEF Returned, SdkRecord
    <3> QED BY <2>a, <3>1, <3>2
  <2>c. sdk'.out = "returned" /\ ~sdk'.done => down'.end = "cut"
    <3>1. CASE sdk' = Raised
      <4>1. sdk'.out = "raised"  BY <3>1, <1>8 DEF Raised, SdkRecord
      <4> QED BY <4>1
    <3>2. CASE sdk' = Returned /\ (~sdk.done => down.end = "cut")
      BY <3>2, <2>1, <1>1
    <3> QED BY <1>10, <3>1, <3>2
  <2>2. ~HalfHeard' /\ Heard' = sdk.text
    BY <2>1, <1>5 DEF Heard, HalfHeard
  <2>3. Len(Heard') = Taken' /\ \A i \in 1..Taken' : Heard'[i] = Text(i)
    BY <2>2, <1>5, <1>9
  <2>4. sdk'.done => Past(DoneFrame)'  BY <2>1, <1>8, <1>9
  <2> HIDE DEF Heard, HalfHeard, Taken, Past
  <2> QED BY <2>1, <2>c, <2>2, <2>3, <2>4 DEF SdkInv, SdkRecord
<1>11. CASE SdkTimesOut
  <2>1. sdk' = Raised  BY <1>11 DEF SdkTimesOut
  <2>2. SdkInv'  BY <2>1, <1>10
  <2> QED BY <2>2, <1>6, <1>7 DEF RelayInv
<1>12. CASE SdkEnds
  <2>1. CASE route = "failed" \/ down.end = "broken"
    <3>1. sdk' = Raised  BY <1>12, <2>1 DEF SdkEnds
    <3>2. SdkInv'  BY <3>1, <1>10
    <3> QED BY <3>2, <1>6, <1>7 DEF RelayInv
  <2>2. CASE ~(route = "failed" \/ down.end = "broken")
    <3>1. sdk' = Returned /\ Drained(down)  BY <1>12, <2>2 DEF SdkEnds
    <3>2. ~sdk.done => down.end = "cut"
      <4> SUFFICES ASSUME down.end # "cut" PROVE FALSE
        OBVIOUS
      <4>1. down.end = "clean" /\ ~HasLine(down) /\ down.got = 2 * Len(down.lines)
        BY <3>1, <2>2 DEF Drained, Lost
      <4>2. route = "closed"
        <5> HIDE DEF Relayed
        <5> QED BY <4>1, <1>0 DEF DownInv
      <4>3. Len(down.lines) = Relayed + 2 /\ Len(down.lines) \in Nat
        BY <4>2, <1>0, Counters
      <4> HIDE DEF Relayed
      <4> QED BY <4>1, <4>3, <1>5 DEF HasLine
    <3>3. SdkInv'  BY <3>1, <3>2, <1>10
    <3> QED BY <3>3, <1>6, <1>7 DEF RelayInv
  <2> QED BY <2>1, <2>2
<1>13. CASE FragmentYielded
  <2>1. sdk.which = "python" /\ down.end = "cut"
    BY <1>13 DEF FragmentYielded
  <2>2. CASE sdk.error
    <3>1. sdk' = Raised  BY <1>13, <2>2 DEF FragmentYielded
    <3>2. SdkInv'  BY <3>1, <1>10
    <3> QED BY <3>2, <1>6, <1>7 DEF RelayInv
  <2>3. CASE ~sdk.error
    <3>1. sdk' = [Yielded(Fragment) EXCEPT !.out = "returned"]
      BY <1>13, <2>3 DEF FragmentYielded
    <3> DEFINE t == Append(sdk.text, Fragment)
    <3>2. t \in Seq(Lines \cup {Fragment})  BY <1>5
    <3>3. /\ Len(t) = Len(sdk.text) + 1 /\ t[Len(t)] = Fragment /\ t # <<>>
          /\ SubSeq(t, 1, Len(t) - 1) = sdk.text /\ Len(sdk.text) \in Nat
      <4>1. Len(t) = Len(sdk.text) + 1 /\ t[Len(t)] = Fragment /\ Len(sdk.text) \in Nat
        BY <1>5
      <4>2. t # <<>>
        <5> SUFFICES ASSUME t = <<>> PROVE FALSE  OBVIOUS
        <5>1. Len(t) = 0  OBVIOUS
        <5> HIDE DEF t
        <5> QED BY <4>1, <5>1
      <4>3. SubSeq(t, 1, Len(t) - 1) = sdk.text
        BY <4>1, <1>5
      <4> QED BY <4>1, <4>2, <4>3
    <3>4. /\ sdk' \in SdkRecord /\ sdk'.text = t /\ sdk'.done = sdk.done
          /\ sdk'.out = "returned" /\ sdk'.which = "python"
      <4> HIDE DEF t
      <4>1. sdk' = [[sdk EXCEPT !.text = t] EXCEPT !.out = "returned"]
        BY <3>1 DEF Yielded, t
      <4>2. sdk.which = "python"  BY <2>1
      <4> QED BY <4>1, <4>2, <3>2, <1>8 DEF SdkRecord
    <3>5. HalfHeard' /\ Heard' = sdk.text
      <4> HIDE DEF t
      <4>1. HalfHeard'  BY <3>3, <3>4 DEF HalfHeard
      <4> QED BY <4>1, <3>3, <3>4 DEF Heard
    <3>6. Len(Heard') = Taken' /\ \A i \in 1..Taken' : Heard'[i] = Text(i)
      BY <3>5, <1>5, <1>9
    <3>7. sdk'.done => Past(DoneFrame)'  BY <3>4, <1>8, <1>9
    <3>8. down'.end = "cut"  BY <2>1, <1>1
    <3> HIDE DEF t, Heard, HalfHeard, Taken, Past
    <3>9. SdkInv'  BY <3>4, <3>6, <3>7, <3>8 DEF SdkInv, SdkRecord
    <3> QED BY <3>9, <1>6, <1>7 DEF RelayInv
  <2> QED BY <2>2, <2>3
<1> QED BY <1>11, <1>12, <1>13

-----------------------------------------------------------------------------
(* A prefix, the whole of it with the done frame, and no silent cut.       *)
LEMMA RelayTells == RelayInv => TruncationTold
<1> SUFFICES ASSUME RelayInv PROVE TruncationTold
  OBVIOUS
<1>0. UpInv /\ DownInv /\ SdkInv  BY DEF RelayInv
<1>1. /\ down.parsed \in Nat /\ Len(down.lines) \in Nat /\ Relayed \in Nat
      /\ down.parsed <= Len(down.lines) /\ said.deltas \in Nat /\ Relayed <= said.deltas
      /\ route # "closed" => Len(down.lines) = Relayed
  BY <1>0, Counters
<1> HIDE DEF Relayed
<1>2. Taken \in Nat /\ Taken <= Relayed  BY <1>1 DEF Taken
<1>3. ASSUME Past(DoneFrame)
      PROVE  up.end = "clean" /\ Taken = said.deltas
  <2>1. route = "closed" /\ Taken = Relayed  BY <1>1, <1>3 DEF Past, Taken
  <2>2. ~LastFrames(ErrorEvent, ErrorData)  BY <1>3, LinesDiffer DEF Past, LastFrames
  <2> QED BY <1>0, <2>1, <2>2 DEF DownInv
<1>4. /\ Len(Heard) = Taken /\ \A i \in 1..Taken : Heard[i] = Text(i)
      /\ HalfHeard => sdk.which = "python" /\ down.end = "cut"
      /\ sdk.done => Past(DoneFrame)
      /\ sdk.out = "returned" /\ ~sdk.done => down.end = "cut"
  <2> HIDE DEF Heard, HalfHeard, Taken, Past
  <2> QED BY <1>0 DEF SdkInv
<1> HIDE DEF Heard, HalfHeard, Taken, Past
<1> QED BY <1>1, <1>2, <1>3, <1>4 DEF TruncationTold

(* A stream starts with nothing said.                                      *)
LEMMA RelayStarts == \A which \in SdkKinds : RelayInit(which) => RelayInv
<1> SUFFICES ASSUME NEW which \in SdkKinds, RelayInit(which) PROVE RelayInv
  OBVIOUS
<1>1. /\ up = [lines |-> <<>>, got |-> 0, parsed |-> 0, end |-> "open"]
      /\ down = [lines |-> <<>>, got |-> 0, parsed |-> 0, end |-> "open"]
      /\ route = "opening" /\ said = [deltas |-> 0, noise |-> 0, all |-> FALSE]
      /\ sdk = [which |-> which, text |-> <<>>, done |-> FALSE, error |-> FALSE, out |-> "reading"]
  BY DEF RelayInit, Connection
<1>2. <<>> \in Seq(Lines) /\ <<>> \in Seq(Lines \cup {Fragment}) /\ Len(<<>>) = 0
  OBVIOUS
<1>3. IsConnection(up) /\ IsConnection(down)  BY <1>1, <1>2 DEF IsConnection
<1>4. Relayed = 0 /\ Taken = 0  BY <1>1, <1>2 DEF Relayed, Taken
<1>5. UpInv
  <2> HIDE DEF Relayed
  <2> QED BY <1>1, <1>2, <1>3, <1>4 DEF UpInv
<1>6. DownInv
  <2> HIDE DEF Relayed
  <2> QED BY <1>1, <1>2, <1>3, <1>4 DEF DownInv
<1>7. ~HalfHeard /\ Heard = <<>>  BY <1>1 DEF HalfHeard, Heard
<1>8. ~Past(ErrorEvent) /\ ~Past(DoneFrame) /\ down.parsed <= Relayed + 1
  BY <1>1, <1>4 DEF Past
<1>9. SdkInv
  <2> HIDE DEF Relayed, Taken, Past, Heard, HalfHeard
  <2> QED BY <1>1, <1>2, <1>4, <1>7, <1>8 DEF SdkInv
<1> QED BY <1>5, <1>6, <1>9 DEF RelayInv

(* Every step of a stream, and every step of a call beside it.             *)
LEMMA RelayStepKeeps ==
    ASSUME RelayInv, Streaming \/ UNCHANGED relayVars
    PROVE  RelayInv'
<1>1. CASE UNCHANGED relayVars
  <2>1. up' = up /\ down' = down /\ route' = route /\ sdk' = sdk /\ said' = said
    BY <1>1 DEF relayVars
  <2>2. UpInv' <=> UpInv
    BY <2>1 DEF UpInv, Relayed, IsConnection
  <2>3. DownInv' <=> DownInv
    BY <2>1 DEF DownInv, Relayed, IsConnection, LastFrames
  <2>4. SdkInv' <=> SdkInv
    BY <2>1 DEF SdkInv, Relayed, Taken, Past, Heard, HalfHeard
  <2> QED BY <2>2, <2>3, <2>4 DEF RelayInv
<1>2. CASE Streaming
  BY <1>2, SpeakingKeeps, UpstreamKeeps, RefusalKeeps, DownstreamKeeps, RelayKeeps, EndsKeep, CloseKeeps,
     SdkParseKeeps, SdkStopKeeps DEF Streaming, RelayEnvironment, RouteSteps
<1> QED BY <1>1, <1>2

-----------------------------------------------------------------------------
(***************************************************************************)
(* What was charged of one call.                                           *)
(***************************************************************************)
IsWire(w) ==
    w \in [stage : {"none", "sent", "refused", "headers", "read"}, status : Statuses \cup {None},
           body : Bodies \cup {None}, armed : BOOLEAN, priced : BOOLEAN]

(* The request in flight, or the last one, if it is one that was charged.  *)
Now == IF wire.priced /\ wire.status = "ok" THEN 1 ELSE 0

(* Each kind of call has exchanges of its own; the priced ones are these.  *)
StepsOf(k) ==
    CASE k \in {"chat", "embed"} -> {"start", "model"}
      [] k = "bytes"             -> {"start", "source", "extract"}
      [] k = "azure"             -> {"start", "submit", "poll"}
      [] k \in SdkKinds          -> {"start", "sdk"}
      [] k = "stream"            -> {"start"}

Kinds == GatewayKinds \cup SdkKinds \cup {"stream"}
Priced == {"model", "extract", "submit"}

WireInv ==
    /\ IsWire(wire) /\ kind \in Kinds /\ step \in StepsOf(kind)
    /\ step = "start" => ~wire.priced /\ wire.stage = "none"
    /\ wire.priced => step \in Priced
    /\ step \in Priced => wire.priced
    /\ wire.stage \in {"none", "sent", "refused"} => wire.status = None
    /\ wire.stage = "read" => wire.body \in Bodies
    /\ attempt \in Nat /\ (step = "model" => attempt >= 1)

(* Nothing that was charged is asked for again, but by the fallback of     *)
(* embeddings that came incomplete; a poll follows a submission.           *)
ChargeInv ==
    /\ charged \in Nat
    /\ step = "poll" => charged = 1
    /\ step # "poll" /\ charged # Now =>
         step = "model" /\ kind = "embed" /\ ~fallback /\ charged = Now + 1

ResultInv ==
    /\ result \in {"answer", "hollow"} /\ kind \in GatewayKinds =>
         wire.stage = "read" /\ wire.status = "ok" /\ step \in Priced \cup {"poll"}
    /\ result = "hollow" => kind # "embed" /\ (kind \in {"chat", "azure"} => wire.body = "partial")
    /\ result # None => step # "start" \/ kind \in {"bytes", "azure"}

CallInv == WireInv /\ ChargeInv /\ ResultInv

(* No status and no answer is None.                                        *)
LEMMA NoneIsNoString ==
    None \notin {"ok", "answer", "hollow"}
BY NoneIsNoStatus, NoneIsNoResult DEF Statuses

(* A call starts with nothing sent.                                        *)
LEMMA CallStarts ==
    ExchangeInit /\ CallInit(Kinds) => CallInv
<1> SUFFICES ASSUME ExchangeInit, CallInit(Kinds) PROVE CallInv
  OBVIOUS
<1>1. /\ wire = [stage |-> "none", status |-> None, body |-> None, armed |-> FALSE, priced |-> FALSE]
      /\ charged = 0 /\ kind \in Kinds /\ step = "start" /\ attempt = 0 /\ result = None
  BY DEF ExchangeInit, CallInit, NoExchange
<1>2. IsWire(wire)  BY <1>1 DEF IsWire
<1>3. ~wire.priced /\ wire.stage = "none" /\ wire.status = None  BY <1>1
<1>4. step \in StepsOf(kind)  BY <1>1 DEF StepsOf, Kinds, GatewayKinds, SdkKinds
<1>5. WireInv  BY <1>1, <1>2, <1>3, <1>4 DEF WireInv, Priced
<1>6. Now = 0  BY <1>3 DEF Now
<1>7. ChargeInv  BY <1>1, <1>6 DEF ChargeInv
<1>8. ResultInv  BY <1>1, NoneIsNoString DEF ResultInv
<1> QED BY <1>5, <1>7, <1>8 DEF CallInv

(* The invariant says what is paid.                                        *)
LEMMA CallPaysOnce == CallInv => PaidOnce
<1> SUFFICES ASSUME CallInv PROVE PaidOnce
  OBVIOUS
<1>1. Now \in {0, 1}  BY DEF Now
<1>2. charged > 1 => kind = "embed" /\ charged = 2
  <2> HIDE DEF Now
  <2> QED BY <1>1 DEF CallInv, ChargeInv
<1>3. result \in {"answer", "hollow"} /\ kind \in GatewayKinds => charged >= 1
  <2> SUFFICES ASSUME result \in {"answer", "hollow"}, kind \in GatewayKinds PROVE charged >= 1
    OBVIOUS
  <2>1. wire.status = "ok" /\ step \in Priced \cup {"poll"}  BY DEF CallInv, ResultInv
  <2>2. CASE step = "poll"  BY <2>2 DEF CallInv, ChargeInv
  <2>3. CASE step \in Priced
    <3>1. Now = 1  BY <2>1, <2>3 DEF Now, CallInv, WireInv
    <3>2. step # "poll"  BY <2>3 DEF Priced
    <3> HIDE DEF Now
    <3> QED BY <3>1, <3>2 DEF CallInv, ChargeInv
  <2> QED BY <2>1, <2>2, <2>3
<1>4. result = "hollow" => kind # "embed" /\ (kind \in {"chat", "azure"} => wire.body = "partial")
  BY DEF CallInv, ResultInv
<1> QED BY <1>2, <1>3, <1>4 DEF PaidOnce

-----------------------------------------------------------------------------
(* A new exchange of this call: nothing of it was charged yet.             *)
LEMMA BeginKeeps ==
    ASSUME CallInv, result' = None, kind' = kind, NEW s \in StepsOf(kind) \ {"start"},
           IsWire(wire'), wire'.stage = "sent", wire'.status = None,
           wire'.priced <=> s \in Priced,
           charged' = charged, step' = s, attempt' \in Nat, s = "model" => attempt' >= 1,
           s = "poll" => charged = 1,
           s # "poll" /\ charged # 0 => s = "model" /\ kind = "embed" /\ ~fallback' /\ charged = 1
    PROVE  CallInv'
<1>4. WireInv'
  <2>1. kind \in Kinds  BY DEF CallInv, WireInv
  <2> HIDE DEF StepsOf
  <2>2. s \in StepsOf(kind')  OBVIOUS
  <2> QED BY <2>1, <2>2 DEF WireInv
<1>5. Now' = 0  BY NoneIsNoString DEF Now
<1>6. ChargeInv'
  <2>1. charged \in Nat  BY DEF CallInv, ChargeInv
  <2> HIDE DEF Now
  <2> QED BY <1>5, <2>1 DEF ChargeInv
<1>7. ResultInv'  BY NoneIsNoString DEF ResultInv
<1> QED BY <1>4, <1>6, <1>7 DEF CallInv

(* A request that is charged for if it succeeds, and one that is not.      *)
Charged == Sent(TRUE)
Free    == Sent(FALSE)

(* What a new request looks like.                                          *)
LEMMA SentWires ==
    /\ IsWire(Charged) /\ Charged.stage = "sent" /\ Charged.status = None /\ Charged.priced
    /\ IsWire(Free) /\ Free.stage = "sent" /\ Free.status = None /\ ~Free.priced
BY DEF Charged, Free, Sent, IsWire

(* A call that ends stays as it was.                                       *)
LEMMA EndKeeps ==
    ASSUME CallInv, NEW r, End(r),
           r \in {"answer", "hollow"} /\ kind \in GatewayKinds =>
             wire.stage = "read" /\ wire.status = "ok" /\ step \in Priced \cup {"poll"},
           r = "hollow" => kind # "embed" /\ (kind \in {"chat", "azure"} => wire.body = "partial"),
           step # "start" \/ kind \in {"bytes", "azure"}
    PROVE  CallInv'
<1>1. result' = r /\ UNCHANGED <<kind, step, attempt, fallback, late, wire, charged>>
  BY DEF End
<1>2. Now' = Now  BY <1>1 DEF Now
<1>3. WireInv'
  <2> HIDE DEF StepsOf
  <2>1. StepsOf(kind)' = StepsOf(kind)  BY <1>1 DEF StepsOf
  <2> QED BY <1>1, <2>1 DEF CallInv, WireInv, IsWire
<1>4. ChargeInv'
  <2> HIDE DEF Now
  <2> QED BY <1>1, <1>2 DEF CallInv, ChargeInv
<1>5. ResultInv'  BY <1>1 DEF ResultInv
<1> QED BY <1>3, <1>4, <1>5 DEF CallInv

(* Every step of a call of a backend: what is sent again was not answered. *)
LEMMA ProviderKeeps == CallInv /\ Calling /\ ProviderSteps => CallInv'
<1> SUFFICES ASSUME CallInv, Calling, ProviderSteps PROVE CallInv'
  OBVIOUS
<1>0. /\ IsWire(wire) /\ kind \in Kinds /\ step \in StepsOf(kind) /\ attempt \in Nat
      /\ step = "start" => ~wire.priced /\ wire.stage = "none"
      /\ wire.priced => step \in Priced
      /\ step \in Priced => wire.priced
      /\ wire.stage \in {"none", "sent", "refused"} => wire.status = None
      /\ wire.stage = "read" => wire.body \in Bodies
      /\ step = "model" => attempt >= 1
      /\ charged \in Nat
      /\ step = "poll" => charged = 1
  BY DEF CallInv, WireInv, ChargeInv
<1>1. step # "poll" /\ charged # Now =>
        step = "model" /\ kind = "embed" /\ ~fallback /\ charged = Now + 1
  <2> HIDE DEF Now
  <2> QED BY DEF CallInv, ChargeInv
<1>2. wire.status # "ok" => Now = 0  BY DEF Now
<1>3. step = "start" => Now = 0  BY <1>0 DEF Now
<1>4. step = "source" => Now = 0
  <2>1. "source" \notin Priced  BY DEF Priced
  <2> QED BY <1>0, <2>1 DEF Now
<1>5. None # "ok"  BY NoneIsNoString
<1>6. wire.stage = "refused" => wire.status # "ok"  BY <1>0, <1>5
<1>7. /\ kind \in {"chat", "embed"} => "model" \in StepsOf(kind)
      /\ kind = "bytes" => {"source", "extract"} \subseteq StepsOf(kind)
      /\ kind = "azure" => {"submit", "poll"} \subseteq StepsOf(kind)
  BY DEF StepsOf, SdkKinds
<1>8. /\ step = "model" => kind \in {"chat", "embed"}
      /\ step \in {"source", "extract"} => kind = "bytes"
      /\ step \in {"submit", "poll"} => kind = "azure"
  BY <1>0 DEF StepsOf, Kinds, GatewayKinds, SdkKinds
<1> HIDE DEF Now, StepsOf
<1>a. result = None \/ step # "start" \/ kind \in {"bytes", "azure"}
  BY DEF CallInv, ResultInv
<1>b. {"model", "submit", "extract"} \subseteq Priced /\ "source" \notin Priced /\ "poll" \notin Priced
  BY DEF Priced
<1>9. ASSUME NEW s \in StepsOf(kind) \ {"start"}, result' = None, kind' = kind, charged' = charged,
             (wire' = Charged /\ s \in Priced) \/ (wire' = Free /\ s \notin Priced),
             step' = s, attempt' \in Nat, s = "model" => attempt' >= 1, s = "poll" => charged = 1,
             s # "poll" /\ charged # 0 => s = "model" /\ kind = "embed" /\ ~fallback' /\ charged = 1
      PROVE  CallInv'
  <2>1. /\ IsWire(wire') /\ wire'.stage = "sent" /\ wire'.status = None
        /\ wire'.priced <=> s \in Priced
    <3>1. CASE wire' = Charged /\ s \in Priced
      <4>1. IsWire(wire')  BY <3>1, SentWires
      <4> QED BY <3>1, <4>1, SentWires
    <3>2. CASE wire' = Free /\ s \notin Priced
      <4>1. IsWire(wire')  BY <3>2, SentWires
      <4> QED BY <3>2, <4>1, SentWires
    <3> QED BY <1>9, <3>1, <3>2
  <2> QED BY <1>9, <2>1, BeginKeeps
<1>10. CASE Start
  <2>1. /\ kind \in {"chat", "embed"} /\ step = "start" /\ wire' = Charged /\ charged' = charged
        /\ step' = "model" /\ attempt' = 1 /\ kind' = kind /\ result' = result
    BY <1>10 DEF Start, Begin, Charged, Free
  <2>2. charged = 0 /\ result = None  BY <2>1, <1>1, <1>3, <1>a
  <2>3. "model" \in StepsOf(kind) \ {"start"}  BY <2>1, <1>7
  <2> QED BY <2>1, <2>2, <2>3, <1>9, <1>b
<1>11. ASSUME AtModel, ProviderFailed
       PROVE  wire.status # "ok" \/ kind = "embed"
  BY <1>11, <1>6 DEF ProviderFailed, Got
<1>12. CASE Retry
  <2>1. /\ step = "model" /\ result = None /\ ProviderFailed /\ attempt < Attempts
        /\ wire' = Charged /\ charged' = charged /\ AtModel
        /\ step' = "model" /\ attempt' = attempt + 1 /\ kind' = kind /\ result' = result
    BY <1>12 DEF Retry, Begin, Charged, Free, AtModel
  <2>2. kind = "chat"  BY <2>1, <1>0, <1>8 DEF Attempts
  <2>3. charged = 0  BY <2>1, <2>2, <1>1, <1>2, <1>11
  <2>4. "model" \in StepsOf(kind) \ {"start"}  BY <2>2, <1>7
  <2>5. attempt' \in Nat /\ attempt' >= 1  BY <2>1, <1>0
  <2> QED BY <2>1, <2>3, <2>4, <2>5, <1>9, <1>b
<1>13. CASE Fallback
  <2>1. /\ step = "model" /\ result = None /\ ProviderFailed /\ fallback
        /\ wire' = Charged /\ charged' = charged /\ AtModel
        /\ step' = "model" /\ attempt' = 1 /\ kind' = kind /\ result' = result /\ ~fallback'
    BY <1>13 DEF Fallback, Begin, Charged, Free, AtModel, GivenUp
  <2>2. charged = Now  BY <2>1, <1>1
  <2>3. Now \in {0, 1}  BY DEF Now
  <2>4. charged # 0 => kind = "embed" /\ charged = 1  BY <2>1, <2>2, <2>3, <1>2, <1>11
  <2>5. "model" \in StepsOf(kind) \ {"start"}  BY <2>1, <1>7, <1>8
  <2> QED BY <2>1, <2>4, <2>5, <1>9, <1>b
<1>14. CASE FetchSource
  <2>1. /\ kind = "bytes" /\ step = "start" /\ wire' = Free /\ charged' = charged
        /\ step' = "source" /\ attempt' = attempt /\ kind' = kind
        /\ result' = result /\ result = None
    BY <1>14 DEF FetchSource, Begin, Charged, Free
  <2>2. charged = 0  BY <2>1, <1>1, <1>3
  <2>3. "source" \in StepsOf(kind) \ {"start"}  BY <2>1, <1>7
  <2> QED BY <2>1, <2>2, <2>3, <1>0, <1>9, <1>b
<1>15. CASE Extract
  <2>1. /\ kind = "bytes" /\ step \in {"start", "source"} /\ wire' = Charged /\ charged' = charged
        /\ step' = "extract" /\ attempt' = attempt /\ kind' = kind
        /\ result' = result /\ result = None
    BY <1>15 DEF Extract, Begin, Charged, Free, AtSource
  <2>2. charged = 0  BY <2>1, <1>1, <1>3, <1>4
  <2>3. "extract" \in StepsOf(kind) \ {"start"}  BY <2>1, <1>7
  <2> QED BY <2>1, <2>2, <2>3, <1>0, <1>9, <1>b
<1>16. CASE Submit
  <2>1. /\ kind = "azure" /\ step = "start" /\ wire' = Charged /\ charged' = charged
        /\ step' = "submit" /\ attempt' = attempt /\ kind' = kind
        /\ result' = result /\ result = None
    BY <1>16 DEF Submit, Begin, Charged, Free
  <2>2. charged = 0  BY <2>1, <1>1, <1>3
  <2>3. "submit" \in StepsOf(kind) \ {"start"}  BY <2>1, <1>7
  <2> QED BY <2>1, <2>2, <2>3, <1>0, <1>9, <1>b
<1>17. CASE Poll
  <2>1. /\ Polling /\ wire' = Free /\ charged' = charged
        /\ step' = "poll" /\ attempt' = attempt /\ kind' = kind /\ result' = result
    BY <1>17 DEF Poll, Begin, Charged, Free
  <2>2. \/ step = "submit" /\ wire.status = "ok" /\ result = None
        \/ step = "poll" /\ result = None
    BY <2>1 DEF Polling, AtAccepted, AtSubmit
  <2>3. charged = 1
    <3>1. CASE step = "poll"  BY <3>1, <1>0
    <3>2. CASE step = "submit" /\ wire.status = "ok"
      <4>1. Now = 1  BY <3>2, <1>0, <1>b DEF Now
      <4>2. kind # "embed"  BY <3>2, <1>8
      <4> QED BY <4>1, <4>2, <3>2, <1>1
    <3> QED BY <2>2, <3>1, <3>2
  <2>4. "poll" \in StepsOf(kind) \ {"start"}  BY <2>2, <1>7, <1>8
  <2> QED BY <2>1, <2>2, <2>3, <2>4, <1>0, <1>9, <1>b
<1>18. ASSUME NEW r, End(r), r \notin {"answer", "hollow"}, step # "start" \/ kind \in {"bytes", "azure"}
       PROVE  CallInv'
  BY <1>18, EndKeeps
<1>19. CASE FallbackBlocked \/ ModelFails \/ ModelRejects \/ SourceRefused \/ NoOperation \/ TimedOut
  <2>1. CASE FallbackBlocked
    <3>1. End("blocked") /\ step # "start"  BY <2>1 DEF FallbackBlocked, AtModel
    <3> QED BY <3>1, <1>18
  <2>2. CASE ModelFails
    <3>1. End("provider error") /\ step # "start"  BY <2>2 DEF ModelFails, AtModel
    <3> QED BY <3>1, <1>18
  <2>3. CASE ModelRejects
    <3>1. End("client error") /\ step # "start"  BY <2>3 DEF ModelRejects, AtModel
    <3> QED BY <3>1, <1>18
  <2>4. CASE SourceRefused
    <3>1. End("client error") /\ kind \in {"bytes", "azure"}  BY <2>4 DEF SourceRefused
    <3> QED BY <3>1, <1>18
  <2>5. CASE NoOperation
    <3>1. End("provider error") /\ step # "start"  BY <2>5 DEF NoOperation, AtAccepted, AtSubmit
    <3> QED BY <3>1, <1>18
  <2>6. CASE TimedOut
    <3>1. End("provider error") /\ step # "start"
      BY <2>6 DEF TimedOut, Polling, AtAccepted, AtSubmit
    <3> QED BY <3>1, <1>18
  <2> QED BY <1>19, <2>1, <2>2, <2>3, <2>4, <2>5, <2>6
<1>20. CASE SourceFails
  <2>1. (End("provider error") \/ End("client error")) /\ step # "start"
    BY <1>20 DEF SourceFails, AtSource
  <2> QED BY <2>1, <1>18
<1>21. CASE DocumentFails
  <2>1. (End("provider error") \/ End("client error")) /\ step # "start"
    BY <1>21 DEF DocumentFails, AtExtract, AtSubmit
  <2> QED BY <2>1, <1>18
<1>22. CASE ModelAnswers
  <2>1. /\ step = "model" /\ wire.stage = "read" /\ wire.status = "ok" /\ ~ProviderFailed
        /\ End(CASE wire.body = "whole" -> "answer"
                 [] wire.body = "partial" -> "hollow"
                 [] wire.body \in {"garbled", "lost"} -> "raw error")
    BY <1>22 DEF ModelAnswers, AtModel, Got
  <2> DEFINE r == CASE wire.body = "whole" -> "answer"
                    [] wire.body = "partial" -> "hollow"
                    [] wire.body \in {"garbled", "lost"} -> "raw error"
  <2>2. r = "hollow" => kind # "embed" /\ wire.body = "partial"
    <3>1. wire.body \in Bodies  BY <1>0, <2>1
    <3>2. wire.body = "partial" => kind # "embed"  BY <2>1 DEF ProviderFailed, Got
    <3>3. CASE wire.body = "whole"
      <4>1. r = "answer"  BY <3>3
      <4> QED BY <4>1
    <3>4. CASE wire.body = "partial"  BY <3>4, <3>2
    <3>5. CASE wire.body \in {"garbled", "lost"}
      <4>1. r = "raw error"  BY <3>5
      <4> QED BY <4>1
    <3> QED BY <3>1, <3>3, <3>4, <3>5 DEF Bodies
  <2>3. End(r)  BY <2>1
  <2> HIDE DEF r
  <2> QED BY <2>1, <2>2, <2>3, <1>b, EndKeeps
<1>23. CASE ExtractAnswers
  <2>1. /\ step = "extract" /\ wire.stage = "read" /\ wire.status = "ok"
        /\ End("answer") \/ End("hollow")
    BY <1>23 DEF ExtractAnswers, AtExtract, Got
  <2>2. kind \notin {"embed", "chat", "azure"}  BY <2>1, <1>8
  <2>3. CASE End("answer")  BY <2>1, <2>3, <1>b, EndKeeps
  <2>4. CASE End("hollow")  BY <2>1, <2>2, <2>4, <1>b, EndKeeps
  <2> QED BY <2>1, <2>3, <2>4
<1>24. CASE PollAnswers
  <2>1. /\ step = "poll" /\ wire.stage = "read" /\ wire.status = "ok"
        /\ End("answer") \/ End("provider error") \/ (End("hollow") /\ wire.body = "partial")
    BY <1>24 DEF PollAnswers, Got
  <2>2. kind = "azure"  BY <2>1, <1>8
  <2>3. CASE End("answer")  BY <2>1, <2>3, EndKeeps
  <2>4. CASE End("hollow") /\ wire.body = "partial"  BY <2>1, <2>2, <2>4, EndKeeps
  <2>5. CASE End("provider error")  BY <2>1, <2>5, <1>18
  <2> QED BY <2>1, <2>3, <2>4, <2>5
<1> QED BY <1>10, <1>12, <1>13, <1>14, <1>15, <1>16, <1>17, <1>19, <1>20, <1>21, <1>22, <1>23, <1>24
       DEF ProviderSteps

(* Every step of an SDK's call of the gateway; none is priced.             *)
LEMMA SdkCallKeeps == CallInv /\ SdkSteps => CallInv'
<1> SUFFICES ASSUME CallInv, SdkSteps PROVE CallInv'
  OBVIOUS
<1>0. /\ IsWire(wire) /\ attempt \in Nat /\ charged \in Nat
      /\ step = "start" => ~wire.priced
  BY DEF CallInv, WireInv, ChargeInv
<1>1. step # "poll" /\ charged # Now => step = "model"
  <2> HIDE DEF Now
  <2> QED BY DEF CallInv, ChargeInv
<1>2. step = "start" => Now = 0  BY <1>0 DEF Now
<1>3. kind \in SdkKinds => kind \notin GatewayKinds /\ kind \notin {"embed", "chat", "azure", "bytes"}
  BY DEF SdkKinds, GatewayKinds
<1> HIDE DEF Now, StepsOf
<1>4. CASE SdkStart
  <2>1. /\ kind \in SdkKinds /\ step = "start" /\ wire' = Free /\ charged' = charged
        /\ step' = "sdk" /\ attempt' = attempt /\ kind' = kind /\ result' = result
    BY <1>4 DEF SdkStart, Begin, Free
  <2>2. charged = 0  BY <2>1, <1>1, <1>2
  <2>3. result = None  BY <2>1, <1>3 DEF CallInv, ResultInv
  <2>4. "sdk" \in StepsOf(kind) \ {"start"}  BY <2>1, <1>3 DEF StepsOf, SdkKinds
  <2>5. "sdk" \notin Priced  BY DEF Priced
  <2>6. IsWire(wire') /\ wire'.stage = "sent" /\ wire'.status = None /\ ~wire'.priced
    <3>1. IsWire(wire')  BY <2>1, SentWires
    <3> QED BY <3>1, <2>1, SentWires
  <2> QED BY <2>1, <2>2, <2>3, <2>4, <2>5, <2>6, <1>0, BeginKeeps
<1>5. ASSUME NEW r, End(r), kind \in SdkKinds, step # "start"
      PROVE  CallInv'
  BY <1>3, <1>5, EndKeeps
<1>6. CASE Cleanup
  <2>1. /\ wire' = [wire EXCEPT !.armed = FALSE] /\ UNCHANGED <<callVars, charged>>
    BY <1>6 DEF Cleanup, callVars
  <2>2. /\ kind' = kind /\ step' = step /\ attempt' = attempt /\ fallback' = fallback
        /\ result' = result /\ charged' = charged
    BY <2>1 DEF callVars
  <2>3. /\ IsWire(wire') /\ wire'.stage = wire.stage /\ wire'.status = wire.status
        /\ wire'.body = wire.body /\ wire'.priced = wire.priced
    BY <2>1, <1>0 DEF IsWire
  <2>4. Now' = Now  BY <2>3 DEF Now
  <2>5. StepsOf(kind)' = StepsOf(kind)  BY <2>2 DEF StepsOf
  <2>6. WireInv'  BY <2>2, <2>3, <2>5 DEF CallInv, WireInv
  <2>7. ChargeInv'  BY <2>2, <2>4 DEF CallInv, ChargeInv
  <2>8. ResultInv'  BY <2>2, <2>3 DEF CallInv, ResultInv
  <2> QED BY <2>6, <2>7, <2>8 DEF CallInv
<1>7. CASE FetchRejects
  <2>1. End("transport error") /\ kind \in SdkKinds /\ step # "start"
    BY <1>7 DEF FetchRejects, AtSdk, SdkKinds
  <2> QED BY <2>1, <1>5
<1>8. CASE (BodyCaught \/ BodyRead) /\ (Rejected \/ Decoded)
  <2>1. kind \in SdkKinds /\ step # "start"
    BY <1>8 DEF BodyCaught, BodyRead, AtSdk, SdkKinds
  <2>2. End("typed error") \/ End("answer") \/ End("hollow")
    BY <1>8 DEF Rejected, Decoded
  <2> QED BY <2>1, <2>2, <1>5
<1>9. CASE HttpxRaises
  <2>1. End("transport error") /\ kind \in SdkKinds /\ step # "start"
    BY <1>9 DEF HttpxRaises, AtSdk, SdkKinds
  <2> QED BY <2>1, <1>5
<1> QED BY <1>4, <1>6, <1>7, <1>8, <1>9
        DEF SdkSteps, TypeScriptSteps, PythonSteps, RaiseForStatus, HandleJson

(* The other side of the connection, and the timers.                       *)
LEMMA EnvironmentKeeps ==
    CallInv /\ (Environment \/ Deadline \/ UNCHANGED <<exchangeVars, callVars>>) => CallInv'
<1> SUFFICES ASSUME CallInv, Environment \/ Deadline \/ UNCHANGED <<exchangeVars, callVars>>
             PROVE  CallInv'
  OBVIOUS
<1>0. /\ IsWire(wire) /\ step \in StepsOf(kind)
      /\ wire.priced => step \in Priced
      /\ step \in Priced => wire.priced
      /\ wire.stage \in {"none", "sent", "refused"} => wire.status = None
      /\ step = "start" => ~wire.priced /\ wire.stage = "none"
      /\ charged \in Nat /\ "poll" \notin Priced
  BY DEF CallInv, WireInv, ChargeInv, Priced
<1>1. /\ kind' = kind /\ step' = step /\ attempt' = attempt /\ fallback' = fallback
      /\ result' = result
  BY DEF Environment, Deadline, callVars
<1>2. StepsOf(kind)' = StepsOf(kind)  BY <1>1 DEF StepsOf
<1> HIDE DEF Now, StepsOf
<1>3. CASE UNCHANGED <<wire, charged>>
  <2>1. Now' = Now  BY <1>3 DEF Now
  <2>2. WireInv'  BY <1>1, <1>2, <1>3 DEF CallInv, WireInv, IsWire
  <2>3. ChargeInv'  BY <1>1, <1>3, <2>1 DEF CallInv, ChargeInv
  <2>4. ResultInv'  BY <1>1, <1>3 DEF CallInv, ResultInv
  <2> QED BY <2>2, <2>3, <2>4 DEF CallInv
<1>4. CASE Environment
  <2>1. \/ /\ wire.stage = "sent" /\ charged' = charged
           /\ wire' = [wire EXCEPT !.stage = "refused"]
        \/ /\ wire.stage = "sent"
           /\ \E status \in Statuses :
                /\ wire' = [wire EXCEPT !.stage = "headers", !.status = status]
                /\ charged' = IF wire.priced /\ status = "ok" THEN charged + 1 ELSE charged
        \/ /\ wire.stage = "headers" /\ charged' = charged
           /\ \E body \in Bodies : wire' = [wire EXCEPT !.stage = "read", !.body = body]
    <3>1. CASE Refuse  BY <3>1 DEF Refuse
    <3>2. CASE Respond  BY <3>2 DEF Respond
    <3>3. CASE Deliver  BY <3>3 DEF Deliver
    <3>4. CASE Expire  BY <3>4 DEF Expire, Bodies
    <3> QED BY <1>4, <3>1, <3>2, <3>3, <3>4 DEF Environment
  <2>2. wire.stage # "read" /\ wire.stage # "none"  BY <2>1
  <2>3. ResultInv'
    <3>1. ~(result \in {"answer", "hollow"} /\ kind \in GatewayKinds)
      BY <2>2 DEF CallInv, ResultInv
    <3>2. {"chat", "azure"} \subseteq GatewayKinds  BY DEF GatewayKinds
    <3> QED BY <1>1, <3>1, <3>2 DEF CallInv, ResultInv
  <2>4. step # "start"  BY <2>2, <1>0
  <2>5. CASE /\ wire.stage = "sent" /\ charged' = charged
             /\ wire' = [wire EXCEPT !.stage = "refused"]
    <3>1. /\ IsWire(wire') /\ wire'.stage = "refused" /\ wire'.status = wire.status
          /\ wire'.body = wire.body /\ wire'.priced = wire.priced
      BY <2>5, <1>0 DEF IsWire
    <3>2. Now' = Now  BY <3>1 DEF Now
    <3>3. WireInv'  BY <1>1, <1>2, <2>4, <2>5, <3>1 DEF CallInv, WireInv
    <3>4. ChargeInv'  BY <1>1, <2>5, <3>2 DEF CallInv, ChargeInv
    <3> QED BY <2>3, <3>3, <3>4 DEF CallInv
  <2>6. CASE /\ wire.stage = "headers" /\ charged' = charged
             /\ \E body \in Bodies : wire' = [wire EXCEPT !.stage = "read", !.body = body]
    <3>0. PICK body \in Bodies : wire' = [wire EXCEPT !.stage = "read", !.body = body]
      BY <2>6
    <3>1. /\ IsWire(wire') /\ wire'.stage = "read" /\ wire'.status = wire.status
          /\ wire'.body = body /\ wire'.priced = wire.priced
      BY <3>0, <1>0 DEF IsWire
    <3>2. Now' = Now  BY <3>1 DEF Now
    <3>3. WireInv'  BY <1>1, <1>2, <2>4, <2>6, <3>1 DEF CallInv, WireInv
    <3>4. ChargeInv'  BY <1>1, <2>6, <3>2 DEF CallInv, ChargeInv
    <3> QED BY <2>3, <3>3, <3>4 DEF CallInv
  <2>7. ASSUME NEW status \in Statuses, wire.stage = "sent",
               wire' = [wire EXCEPT !.stage = "headers", !.status = status],
               charged' = IF wire.priced /\ status = "ok" THEN charged + 1 ELSE charged
        PROVE  CallInv'
    <3>1. /\ IsWire(wire') /\ wire'.stage = "headers" /\ wire'.status = status
          /\ wire'.body = wire.body /\ wire'.priced = wire.priced
      BY <2>7, <1>0 DEF IsWire
    <3>2. Now = 0
      <4>1. wire.status # "ok"  BY <2>7, <1>0, NoneIsNoString
      <4> QED BY <4>1 DEF Now
    <3>3. Now' = IF wire.priced /\ status = "ok" THEN 1 ELSE 0  BY <3>1 DEF Now
    <3>4. WireInv'  BY <1>1, <1>2, <2>4, <2>7, <3>1 DEF CallInv, WireInv
    <3>5. ChargeInv'
      <4>1. step = "poll" => charged = 1 /\ ~wire.priced
        BY <1>0 DEF CallInv, ChargeInv
      <4>2. step # "poll" /\ charged # 0 => step = "model" /\ kind = "embed" /\ ~fallback /\ charged = 1
        BY <3>2 DEF CallInv, ChargeInv
      <4>3. CASE wire.priced /\ status = "ok"
        BY <4>1, <4>2, <4>3, <1>0, <1>1, <2>7, <3>3 DEF ChargeInv
      <4>4. CASE ~(wire.priced /\ status = "ok")
        BY <4>1, <4>2, <4>4, <1>0, <1>1, <2>7, <3>3 DEF ChargeInv
      <4> QED BY <4>3, <4>4
    <3> QED BY <2>3, <3>4, <3>5 DEF CallInv
  <2> QED BY <2>1, <2>5, <2>6, <2>7
<1> QED BY <1>3, <1>4 DEF Deadline, exchangeVars

(* No answer is paid for twice, or lost, or given by halves unnoticed:     *)
(* Clients.AnswersWhole, for any number of deltas, attempts and retried    *)
(* statuses.                                                               *)
THEOREM AnswersAreWhole == ClientsSpec => []AnswersWhole
<1>1. ClientsInit => CallInv /\ RelayInv
  <2> SUFFICES ASSUME ClientsInit PROVE CallInv /\ RelayInv
    OBVIOUS
  <2>1. ExchangeInit /\ CallInit(Kinds)  BY DEF ClientsInit, Kinds
  <2>2. \E which \in SdkKinds : RelayInit(which)  BY DEF ClientsInit
  <2>3. RelayInv  BY <2>2, RelayStarts
  <2> QED BY <2>1, <2>3, CallStarts
<1>2. CallInv /\ RelayInv /\ [ClientsNext]_clientVars => (CallInv /\ RelayInv)'
  <2> SUFFICES ASSUME CallInv, RelayInv, [ClientsNext]_clientVars PROVE (CallInv /\ RelayInv)'
    OBVIOUS
  <2>1. CASE Calling /\ UNCHANGED relayVars
    <3>1. CallInv'  BY <2>1, ProviderKeeps, SdkCallKeeps DEF Calling
    <3>2. RelayInv'  BY <2>1, RelayStepKeeps
    <3> QED BY <3>1, <3>2
  <2>2. CASE (Environment \/ Deadline) /\ UNCHANGED relayVars
    <3>1. CallInv'  BY <2>2, EnvironmentKeeps
    <3>2. RelayInv'  BY <2>2, RelayStepKeeps
    <3> QED BY <3>1, <3>2
  <2>3. CASE Streaming /\ UNCHANGED <<exchangeVars, callVars>>
    <3>1. CallInv'  BY <2>3, EnvironmentKeeps
    <3>2. RelayInv'  BY <2>3, RelayStepKeeps
    <3> QED BY <3>1, <3>2
  <2>4. CASE UNCHANGED clientVars
    <3>0. UNCHANGED <<exchangeVars, callVars>> /\ UNCHANGED relayVars  BY <2>4 DEF clientVars
    <3>1. CallInv'  BY <3>0, EnvironmentKeeps
    <3>2. RelayInv'  BY <3>0, RelayStepKeeps
    <3> QED BY <3>1, <3>2
  <2> QED BY <2>1, <2>2, <2>3, <2>4 DEF ClientsNext
<1>3. CallInv /\ RelayInv => AnswersWhole
  BY CallPaysOnce, RelayTells DEF AnswersWhole
<1> QED BY <1>1, <1>2, <1>3, PTL DEF ClientsSpec
=============================================================================
