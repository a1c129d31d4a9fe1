--------------------------- MODULE PolicyReplica ---------------------------
(***************************************************************************)
(* One replica of the gateway with hot reload: its policy cache, and the   *)
(* listener that tells the cache of activations.  NOTIFY goes out with the *)
(* COMMIT of an activation to the connections that listen at that moment;  *)
(* what is in a connection that breaks is lost.  The replica's own calls   *)
(* invalidate its cache when they return.  The listener is stopped after   *)
(* the server has closed (bootstrap.ts:527-528), and nothing is served     *)
(* then.                                                                   *)
(***************************************************************************)
EXTENDS PolicyListener, PolicyCache, Sequences

VARIABLES
    inbox   \* inbox[c]: notifications on their way to client c

vars == <<listener, cache, inbox>>

Init ==
    /\ ListenerInit /\ CacheInit
    /\ inbox = [c \in Clients |-> <<>>]

(* What was on its way to a client that has no connection any more is gone.*)
Delivered ==
    inbox' = [c \in Clients |-> IF session'[c] = "listening" THEN inbox[c] ELSE <<>>]

ListenerStep ==
    /\ Stop \/ \E c \in Clients : Callback(c) \/ Drop(c)
    /\ Delivered
    /\ UNCHANGED cache

Serving == ~stopped /\ UNCHANGED <<listener, inbox>>

Elapse  == Serving /\ Tick
Miss    == Serving /\ \E l \in Loads : StartLoad(l)
Goes(l) == Serving /\ LoadStep(l)

(* An activation commits, of this replica or of another.                   *)
Activate(parses) ==
    /\ ~stopped
    /\ Commit(parses)
    /\ inbox' = [c \in Clients |-> IF Up(c) THEN Append(inbox[c], epoch') ELSE <<>>]
    /\ UNCHANGED listener

(* The route that activated e invalidates when the call returns.  Which    *)
(* activations are this replica's own is left open, so that any may return *)
(* here, at any time or never.                                             *)
Returns(e) ==
    /\ ~stopped
    /\ e <= epoch
    /\ Invalidate(e)
    /\ UNCHANGED <<listener, inbox>>

(* "notification" of an attached handler, of whichever client.             *)
Notified(c) ==
    /\ c \in wired
    /\ inbox[c] # <<>>
    /\ inbox' = [inbox EXCEPT ![c] = Tail(@)]
    /\ Invalidate(Head(inbox[c]))
    /\ UNCHANGED listener

Next ==
    \/ ListenerStep \/ Elapse \/ Miss \/ \E l \in Loads : Goes(l)
    \/ \E parses \in BOOLEAN : Activate(parses)
    \/ \E e \in Epochs : Returns(e)
    \/ \E c \in Clients : Notified(c)

Spec == Init /\ [][Next]_vars

(* Loads end and time passes.  Nothing is assumed of the listener: it may  *)
(* never connect.                                                          *)
Fairness ==
    /\ WF_vars(Elapse)
    /\ \A l \in Loads : WF_vars(Goes(l))

FairSpec == Spec /\ Fairness

-----------------------------------------------------------------------------
(* Each variable holds a value of its kind.                                *)
TypeOK ==
    /\ ListenerTypes /\ CacheTypes
    /\ \A c \in Clients : ~Up(c) => inbox[c] = <<>>

(* The replica comes to serve the active version, unless it cannot parse   *)
(* it, even if every notification is missed: the time to live is the       *)
(* backstop (listener.ts:7-10).                                            *)
Converges ==
    <>[](~stopped /\ Serves /\ Settled /\ epoch \notin foreign => gives = epoch)

(* Callbacks in any order leave one listener, and none after stop().       *)
OneListener == InOnePlace /\ StopIsFinal
=============================================================================
