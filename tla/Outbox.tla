------------------------------- MODULE Outbox -------------------------------
(***************************************************************************)
(* The monthly budget alert and the outbox its webhook goes through.  A    *)
(* call that sees the spend beyond the threshold claims the month's alert  *)
(* and then puts a webhook in the outbox; workers claim due rows, which    *)
(* leases them, POST them and mark what became of the POST.                *)
(*                                                                         *)
(* A row is named after the call that enqueued it.  The 60 second lease,   *)
(* the backoff and the retention windows are not counted: what waits may   *)
(* come due at any time, what is terminal may be pruned at any time.       *)
(***************************************************************************)
EXTENDS Failing, FiniteSets

CONSTANTS Callers, Months, MaxAttempts

ASSUME OutboxConstants == MaxAttempts \in Nat \ {0}

VARIABLES
  alertSent, \* months in budget_alert_sent
  alerter,   \* how far each call got with its alert
  outbox,    \* webhook_outbox, one row per call at most
  posts,     \* deliveries under way
  received   \* copies of each row's webhook the endpoint has got

outboxVars == <<alertSent, alerter, outbox, posts, received>>

Row == [state : {"none", "row", "pruned"}, attempts : 0 .. MaxAttempts,
        due : BOOLEAN, delivered : BOOLEAN]

NoRow == [state |-> "none", attempts |-> 0, due |-> FALSE, delivered |-> FALSE]
NewRow == [state |-> "row", attempts |-> 0, due |-> TRUE, delivered |-> FALSE]

OutboxInit ==
  /\ alertSent = {}
  /\ alerter = [c \in Callers |-> [month |-> None, at |-> "idle"]]
  /\ outbox = [c \in Callers |-> NoRow]
  /\ posts = {}
  /\ received = [c \in Callers |-> 0]

Alerts(c, at) == alerter' = [alerter EXCEPT ![c].at = at]

(***************************************************************************)
(* Raising the alert (budgetAlerts.ts).                                    *)
(***************************************************************************)
\* INSERT ... ON CONFLICT DO NOTHING RETURNING: only the first call of the month
\* gets a row back.
ClaimAlert(c, m) ==
  /\ alerter[c].at = "idle"
  /\ alertSent' = alertSent \cup {m}
  /\ alerter' = [alerter EXCEPT ![c] =
                   [month |-> m, at |-> IF m \in alertSent THEN "late" ELSE "claimed"]]
  /\ NoFault
  /\ UNCHANGED <<outbox, posts, received>>

\* The answer is lost, after the row was inserted or before: the error is logged.
ClaimAlertFails(c, m) ==
  /\ Fault
  /\ alerter[c].at = "idle"
  /\ alertSent' \in {alertSent, alertSent \cup {m}}
  /\ alerter' = [alerter EXCEPT ![c] = [month |-> m, at |-> "failed"]]
  /\ UNCHANGED <<outbox, posts, received>>

EnqueueWebhook(c) ==
  /\ alerter[c].at = "claimed"
  /\ outbox' = [outbox EXCEPT ![c] = NewRow]
  /\ Alerts(c, "enqueued")
  /\ NoFault
  /\ UNCHANGED <<alertSent, posts, received>>

\* An error of the INSERT, which may have been performed, sends the webhook
\* directly.
EnqueueFails(c) ==
  /\ Fault
  /\ alerter[c].at = "claimed"
  /\ outbox' \in {outbox, [outbox EXCEPT ![c] = NewRow]}
  /\ Alerts(c, "direct")
  /\ UNCHANGED <<alertSent, posts, received>>

\* One POST nobody repeats, whatever comes of it.
DeliverDirectly(c) ==
  /\ alerter[c].at = "direct"
  /\ Alerts(c, "posted")
  /\ NoFault
  /\ UNCHANGED <<alertSent, outbox, posts, received>>

AlerterDies(c) ==
  /\ Fault
  /\ alerter[c].at \in {"claimed", "direct"}
  /\ Alerts(c, "died")
  /\ UNCHANGED <<alertSent, outbox, posts, received>>

RaiseAlert(c) ==
  \/ EnqueueWebhook(c) \/ EnqueueFails(c) \/ DeliverDirectly(c) \/ AlerterDies(c)

(***************************************************************************)
(* The outbox (webhookOutbox.ts).  `attempts` of a post is what its claim  *)
(* returned; `awaited` says that a sweep is waiting for it.                *)
(***************************************************************************)
Claimable(c) ==
  /\ outbox[c].state = "row" /\ ~outbox[c].delivered
  /\ outbox[c].due /\ outbox[c].attempts < MaxAttempts

\* Mutant: the attempt is counted when its POST failed, not when it is claimed.
ClaimUncounted(worker) ==
  LET batch == {c \in Callers : Claimable(c)} IN
  /\ outbox' = [c \in Callers |->
                  IF c \in batch THEN [outbox[c] EXCEPT !.due = FALSE] ELSE outbox[c]]
  /\ posts' = posts \cup {[hook |-> c, worker |-> worker, attempts |-> outbox[c].attempts,
                           stage |-> "post", awaited |-> TRUE] : c \in batch}
  /\ UNCHANGED <<alertSent, alerter, received>>

\* One UPDATE takes every due row, counts the attempt and leases the row.
ClaimPendingWebhooks(worker) ==
  LET batch == {c \in Callers : Claimable(c)} IN
  /\ outbox' = [c \in Callers |->
                  IF c \in batch
                    THEN [outbox[c] EXCEPT !.attempts = @ + 1, !.due = FALSE]
                    ELSE outbox[c]]
  /\ posts' = posts \cup {[hook |-> c, worker |-> worker, attempts |-> outbox[c].attempts + 1,
                           stage |-> "post", awaited |-> TRUE] : c \in batch}
  /\ UNCHANGED <<alertSent, alerter, received>>

At(p, stage) == (posts \ {p}) \cup {[p EXCEPT !.stage = stage]}

\* The endpoint takes the POST and says so, takes it while the answer is lost
\* or comes too late, or does not take it.
DeliverOutboxWebhook(p) ==
  /\ p.stage = "post"
  /\ \/ /\ received' = [received EXCEPT ![p.hook] = @ + 1]
        /\ posts' \in {At(p, "accepted"), At(p, "failed")}
     \/ /\ posts' = At(p, "failed")
        /\ UNCHANGED received
  /\ NoFault
  /\ UNCHANGED <<alertSent, alerter, outbox>>

MarkWebhookDelivered(p) ==
  /\ p.stage = "accepted"
  /\ outbox' = [outbox EXCEPT ![p.hook].delivered = TRUE]
  /\ posts' = posts \ {p}
  /\ NoFault
  /\ UNCHANGED <<alertSent, alerter, received>>

\* An error of the mark is caught where an error of the POST is.
MarkDeliveredFails(p) ==
  /\ Fault
  /\ p.stage = "accepted"
  /\ outbox' \in {outbox, [outbox EXCEPT ![p.hook].delivered = TRUE]}
  /\ posts' = At(p, "failed")
  /\ UNCHANGED <<alertSent, alerter, received>>

\* The backoff replaces the lease.
MarkWebhookFailed(p) ==
  /\ p.stage = "failed"
  /\ outbox' = [outbox EXCEPT ![p.hook].due = FALSE]
  /\ posts' = posts \ {p}
  /\ NoFault
  /\ UNCHANGED <<alertSent, alerter, received>>

\* The lease or the backoff of a row is over.
WebhookDue(c) ==
  /\ outbox[c].state = "row" /\ ~outbox[c].due
  /\ ~outbox[c].delivered /\ outbox[c].attempts < MaxAttempts
  /\ outbox' = [outbox EXCEPT ![c].due = TRUE]
  /\ NoFault
  /\ UNCHANGED <<alertSent, alerter, posts, received>>

\* Rows past retention: delivered ones and dead ones.  The windows are weeks
\* long, so nothing is under way for the rows pruned.
Prunable ==
  {c \in Callers : /\ outbox[c].state = "row"
                   /\ outbox[c].delivered \/ outbox[c].attempts >= MaxAttempts
                   /\ \A p \in posts : p.hook # c}

CleanupWebhookOutbox(old) ==
  /\ old \subseteq Prunable
  /\ outbox' = [c \in Callers |->
                  IF c \in old THEN [outbox[c] EXCEPT !.state = "pruned"] ELSE outbox[c]]
  /\ UNCHANGED <<alertSent, alerter, posts, received>>

(***************************************************************************)
(* The webhook of a month's alert goes out for one call at most, and for   *)
(* one call unless a fault met the one that claimed it: two replicas that  *)
(* see the threshold crossed together do not both raise it, and none of    *)
(* them leaves it to the other (budgetAlertRepo.ts:3-16).                  *)
(***************************************************************************)
Carriers(m) ==
  {c \in Callers : alerter[c].month = m
                   /\ alerter[c].at \in {"claimed", "enqueued", "direct", "posted", "died"}}

AlertOncePerMonth ==
  \A m \in alertSent : /\ Cardinality(Carriers(m)) <= 1
                       /\ faults = 0 => Cardinality(Carriers(m)) = 1
==============================================================================
