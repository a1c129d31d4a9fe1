--------------------------- MODULE PolicyListener ---------------------------
(***************************************************************************)
(* The LISTEN connection of one replica: a chain of clients, each replaced *)
(* when its connection drops or its connect is rejected.  The callbacks of *)
(* a client outlive it: an error event, the rejection of a connect that    *)
(* was in flight and the end of a teardown arrive in any order.  Delays    *)
(* are not modelled, nor a client the factory fails to make, which         *)
(* schedules the next attempt and changes nothing else.                    *)
(***************************************************************************)
CONSTANTS
    Clients,    \* client objects; one may be used again once nothing of it is left
    None        \* no client

ASSUME ListenerShape == Clients # {} /\ None \notin Clients

VARIABLES
    stopped,
    client,     \* the client the listener holds for the current one
    pending,    \* a reconnect timer is set
    wired,      \* clients whose handlers are attached
    connecting, \* clients whose connect() or LISTEN is unsettled
    closing,    \* clients in a teardown that ends in scheduleReconnect
    session     \* session[c]: the connection of c, as the database sees it

listener == <<stopped, client, pending, wired, connecting, closing, session>>

Unused == Clients \ (wired \cup connecting \cup closing)
Up(c)  == session[c] = "listening"

ListenerInit ==
    \E c \in Clients :
        /\ stopped    = FALSE
        /\ client     = c
        /\ pending    = FALSE
        /\ wired      = {c}
        /\ connecting = {c}
        /\ closing    = {}
        /\ session    = [d \in Clients |-> "none"]

(* teardownClient up to its await: target.end() closes the connection.     *)
Teardown(c) ==
    /\ client'  = IF client = c THEN None ELSE client
    /\ wired'   = wired \ {c}
    /\ session' = [session EXCEPT ![c] = "none"]

(* The timer of scheduleReconnect runs connect() with a fresh client.      *)
Reconnect(c) ==
    /\ pending
    /\ c \in Unused
    /\ pending'    = FALSE
    /\ client'     = c
    /\ wired'      = wired \cup {c}
    /\ connecting' = connecting \cup {c}
    /\ UNCHANGED <<stopped, closing, session>>

(* connect() and LISTEN succeed, of a client nobody has ended meanwhile.   *)
Connected(c) ==
    /\ c \in connecting \cap wired
    /\ session[c] = "none"
    /\ connecting' = connecting \ {c}
    /\ session'    = [session EXCEPT ![c] = "listening"]
    /\ UNCHANGED <<stopped, client, pending, wired, closing>>

(* Mutant: every rejection reconnects, also one of a replaced client.      *)
ConnectRejectsAlways(c) ==
    /\ c \in connecting
    /\ connecting' = connecting \ {c}
    /\ IF stopped THEN UNCHANGED <<client, wired, session, closing>>
       ELSE /\ Teardown(c)
            /\ closing' = closing \cup {c}
    /\ UNCHANGED <<stopped, pending>>
(* connect() or LISTEN is rejected, perhaps after an event of the same     *)
(* client was handled: only the current client's rejection reconnects.     *)
ConnectRejects(c) ==
    /\ c \in connecting
    /\ connecting' = connecting \ {c}
    /\ IF stopped THEN UNCHANGED <<client, wired, session, closing>>
       ELSE /\ Teardown(c)
            /\ closing' = IF client = c THEN closing \cup {c} ELSE closing
    /\ UNCHANGED <<stopped, pending>>

(* The connection breaks, before or after LISTEN.                          *)
Drop(c) ==
    /\ c \in wired
    /\ session[c] # "broken"
    /\ session' = [session EXCEPT ![c] = "broken"]
    /\ UNCHANGED <<stopped, client, pending, wired, connecting, closing>>

(* "error" or "end" of the current client; the other handlers return.      *)
DropEvent(c) ==
    /\ c \in wired
    /\ session[c] = "broken"
    /\ client = c
    /\ Teardown(c)
    /\ closing' = closing \cup {c}
    /\ UNCHANGED <<stopped, pending, connecting>>

(* The teardown is over: scheduleReconnect.                                *)
Closed(c) ==
    /\ c \in closing
    /\ closing' = closing \ {c}
    /\ pending' = ~stopped
    /\ UNCHANGED <<stopped, client, wired, connecting, session>>

Stop ==
    /\ ~stopped
    /\ stopped' = TRUE
    /\ pending' = FALSE
    /\ IF client = None THEN UNCHANGED <<client, wired, session>> ELSE Teardown(client)
    /\ UNCHANGED <<connecting, closing>>

Callback(c) ==
    \/ Reconnect(c) \/ Connected(c) \/ ConnectRejects(c) \/ DropEvent(c) \/ Closed(c)

-----------------------------------------------------------------------------
ListenerTypes ==
    /\ stopped \in BOOLEAN /\ pending \in BOOLEAN
    /\ client \in Clients \cup {None}
    /\ wired \subseteq Clients /\ connecting \subseteq Clients /\ closing \subseteq Clients
    /\ session \in [Clients -> {"none", "listening", "broken"}]

(* Until it is stopped, the listener is in one place: it has one client,   *)
(* or it is getting rid of one, or it waits to connect.  No stale callback *)
(* starts a second connection, and none lets the listener fall silent      *)
(* (listener.ts:85-88, 106-108, 130-131).                                  *)
InOnePlace ==
    /\ wired \subseteq {client}
    /\ ~stopped =>
        \/ client # None /\ closing = {} /\ ~pending
        \/ client = None /\ (\E c \in Clients : closing = {c}) /\ ~pending
        \/ client = None /\ closing = {} /\ pending

(* After stop() no handler is attached and no reconnect is coming.         *)
StopIsFinal == stopped => wired = {} /\ ~pending
=============================================================================
