------------------------------ MODULE Deliveries ------------------------------
(***************************************************************************)
(* What the gateway delivers behind its calls.  Every replica ticks once a *)
(* minute: one of them reconciles, one of them delivers, each under an     *)
(* advisory lock of its own; the deliverer empties the outbox, reports the *)
(* meter rows and prunes what is old.  Stripe's webhooks come in at the    *)
(* same time; a checkout links the customer that makes usage reportable.   *)
(*                                                                         *)
(* An advisory lock belongs to a connection that the work it guards does   *)
(* not use: when that connection is lost the lock is free and the work     *)
(* goes on.                                                                *)
(***************************************************************************)
EXTENDS Outbox, MeterEvents, StripeEvents

CONSTANTS Ticks, Workloads

ASSUME DeliveryConstants ==
  None \notin Ticks /\ \A w \in Workloads : w.events \subseteq Events

VARIABLES
  workload, \* what arrives in this behaviour, and how many faults strike
  tick,     \* how far each tick of a replica's timer got
  lock      \* the tick each advisory lock is held for

vars == <<faults, outboxVars, meterVars, stripeVars, workload, tick, lock>>

Phases == {"idle", "reconcile", "elect", "claim", "deliver", "flush", "report", "prune"}
Locks == {"maintenance", "delivery"}

Init ==
  /\ OutboxInit /\ MeterInit /\ StripeInit
  /\ faults = 0
  /\ workload \in Workloads
  /\ tick = [j \in Ticks |-> "idle"]
  /\ lock = [k \in Locks |-> None]

Goes(j, phase) == tick' = [tick EXCEPT ![j] = phase]
Take(k, j) == lock' = [lock EXCEPT ![k] = j]
Freed(k, j) == [lock EXCEPT ![k] = IF @ = j THEN None ELSE @]

(***************************************************************************)
(* Arrivals.                                                               *)
(***************************************************************************)
Alert(c) ==
  /\ c \in workload.callers
  /\ \/ \E m \in Months : ClaimAlert(c, m) \/ ClaimAlertFails(c, m)
     \/ RaiseAlert(c)
  /\ UNCHANGED <<meterVars, stripeVars, workload, tick, lock>>

Record(r) ==
  /\ r \in workload.requests
  /\ RecordMeter(r) \/ RecordMeterFails(r)
  /\ UNCHANGED <<outboxVars, stripeVars, workload, tick, lock>>

Webhook(h) ==
  /\ h \in workload.handlers
  /\ \/ \E e \in workload.events : Receive(h, e)
     \/ Handle(h)
  /\ UNCHANGED <<outboxVars, meterVars, workload, tick, lock>>

(***************************************************************************)
(* A tick (maintenance.ts).                                                *)
(***************************************************************************)
StartTick(j) ==
  /\ j \in workload.ticks
  /\ tick[j] = "idle"
  /\ IF lock["maintenance"] = None
       THEN Take("maintenance", j) /\ Goes(j, "reconcile")
       ELSE Goes(j, "elect") /\ UNCHANGED lock
  /\ NoFault
  /\ UNCHANGED <<outboxVars, meterVars, stripeVars, workload>>

\* Every step of the reconciliation catches its own errors.
RunReconciliationSweep(j) ==
  /\ tick[j] = "reconcile"
  /\ lock' = Freed("maintenance", j)
  /\ Goes(j, "elect")
  /\ NoFault
  /\ UNCHANGED <<outboxVars, meterVars, stripeVars, workload>>

\* Mutant: the answer of pg_try_advisory_lock is not looked at.
DeliverAnyway(j) ==
  /\ tick[j] = "elect"
  /\ Take("delivery", j) /\ Goes(j, "claim")
  /\ NoFault
  /\ UNCHANGED <<outboxVars, meterVars, stripeVars, workload>>

TryDeliver(j) ==
  /\ tick[j] = "elect"
  /\ IF lock["delivery"] = None
       THEN Take("delivery", j) /\ Goes(j, "claim")
       ELSE Goes(j, "idle") /\ UNCHANGED lock
  /\ NoFault
  /\ UNCHANGED <<outboxVars, meterVars, stripeVars, workload>>

EndSweep(j) ==
  /\ Goes(j, "idle")
  /\ lock' = Freed("delivery", j)

Claim(j) ==
  /\ tick[j] = "claim"
  /\ ClaimPendingWebhooks(j)
  /\ Goes(j, "deliver")
  /\ NoFault
  /\ UNCHANGED <<meterVars, stripeVars, workload, lock>>

\* mapWithConcurrency resolves when all its deliveries have.
Delivered(j) ==
  /\ tick[j] = "deliver"
  /\ ~\E p \in posts : p.worker = j /\ p.awaited
  /\ Goes(j, "flush")
  /\ NoFault
  /\ UNCHANGED <<outboxVars, meterVars, stripeVars, workload, lock>>

Flush(j) ==
  /\ tick[j] = "flush"
  /\ ListPendingMeterEvents(j, Linked)
  /\ Goes(j, "report")
  /\ NoFault
  /\ UNCHANGED <<outboxVars, stripeVars, workload, lock>>

Reported(j) ==
  /\ tick[j] = "report"
  /\ ~\E r \in reports : r.worker = j /\ r.awaited
  /\ Goes(j, "prune")
  /\ NoFault
  /\ UNCHANGED <<outboxVars, meterVars, stripeVars, workload, lock>>

\* What is old differs from pass to pass, and may be nothing.
Prune(j) ==
  /\ tick[j] = "prune"
  /\ \E hooks \in SUBSET Prunable, usage \in SUBSET workload.requests, old \in SUBSET processed :
       /\ CleanupWebhookOutbox(hooks)
       /\ CleanupMeterEvents(usage, Linked)
       /\ CleanupStripeProcessedEvents(old)
  /\ EndSweep(j)
  /\ NoFault
  /\ UNCHANGED workload

\* One delivery of a batch.
Deliver(p) ==
  /\ DeliverOutboxWebhook(p) \/ MarkWebhookDelivered(p) \/ MarkDeliveredFails(p)
     \/ MarkWebhookFailed(p)
  /\ UNCHANGED <<meterVars, stripeVars, workload, tick, lock>>

Report(r) ==
  /\ CreateStripeMeterEvent(r) \/ MarkMeterReported(r) \/ RecordMeterFailure(r)
  /\ UNCHANGED <<outboxVars, stripeVars, workload, tick, lock>>

Due ==
  /\ \/ (\E c \in Callers : WebhookDue(c)) /\ UNCHANGED meterVars
     \/ (\E r \in Requests : MeterDue(r)) /\ UNCHANGED outboxVars
  /\ UNCHANGED <<stripeVars, workload, tick, lock>>

(***************************************************************************)
(* Faults.                                                                 *)
(***************************************************************************)
\* A mark that throws rejects the whole batch: the sweep ends and gives up its
\* lock while the rest of the batch goes on.
Orphan(work, p) == {[q EXCEPT !.awaited = @ /\ q.worker # p.worker] : q \in work \ {p}}

AbortIfAwaited(p) ==
  IF p.awaited THEN EndSweep(p.worker) ELSE UNCHANGED <<tick, lock>>

DeliveryThrows(p) ==
  /\ Fault
  /\ p.stage = "failed"
  /\ posts' = Orphan(posts, p)
  /\ AbortIfAwaited(p)
  /\ UNCHANGED <<alertSent, alerter, outbox, received, meterVars, stripeVars, workload>>

ReportThrows(r) ==
  /\ Fault
  /\ r.stage # "post"
  /\ reports' = Orphan(reports, r)
  /\ AbortIfAwaited(r)
  /\ UNCHANGED <<outboxVars, meter, invoiced, refused, crossed, stripeVars, workload>>

SweepThrows(j) ==
  /\ Fault
  /\ tick[j] \in {"claim", "flush", "prune"}
  /\ EndSweep(j)
  /\ UNCHANGED <<outboxVars, meterVars, stripeVars, workload>>

LoseLock(k) ==
  /\ Fault
  /\ lock[k] # None
  /\ lock' = [lock EXCEPT ![k] = None]
  /\ UNCHANGED <<outboxVars, meterVars, stripeVars, workload, tick>>

Die(j) ==
  /\ Fault
  /\ tick[j] # "idle"
  /\ Goes(j, "idle")
  /\ lock' = [k \in Locks |-> IF lock[k] = j THEN None ELSE lock[k]]
  /\ posts' = {p \in posts : p.worker # j}
  /\ reports' = {r \in reports : r.worker # j}
  /\ UNCHANGED <<alertSent, alerter, outbox, received, meter, invoiced, refused, crossed,
                 stripeVars, workload>>

(***************************************************************************)
(* The specification.                                                      *)
(***************************************************************************)
Work(j) ==
  \/ StartTick(j) \/ RunReconciliationSweep(j) \/ TryDeliver(j) \/ Claim(j) \/ Delivered(j)
  \/ Flush(j) \/ Reported(j) \/ Prune(j)

Errors ==
  \/ \E j \in Ticks : SweepThrows(j) \/ Die(j)
  \/ \E k \in Locks : LoseLock(k)
  \/ \E p \in posts : DeliveryThrows(p)
  \/ \E r \in reports : ReportThrows(r)

Step ==
  \/ \E c \in Callers : Alert(c)
  \/ \E r \in Requests : Record(r)
  \/ \E h \in Handlers : Webhook(h)
  \/ \E j \in Ticks : Work(j)
  \/ \E p \in posts : Deliver(p)
  \/ \E r \in reports : Report(r)
  \/ Due
  \/ Errors

Next == Step /\ faults' <= workload.faults

\* The timers keep ticking, a sweep goes on, a POST is answered or times out,
\* and waiting rows come due.
Fairness ==
  /\ \A j \in Ticks : WF_vars(Work(j))
  /\ WF_vars(\E p \in posts : Deliver(p))
  /\ WF_vars(\E r \in reports : Report(r))
  /\ WF_vars(Due)

Spec == Init /\ [][Next]_vars
FairSpec == Spec /\ Fairness

(***************************************************************************)
(* Properties.                                                             *)
(***************************************************************************)
Fate(c) ==
  IF outbox[c].state = "none" THEN "unsent"
  ELSE IF outbox[c].delivered THEN "confirmed"
  ELSE IF outbox[c].attempts = MaxAttempts /\ ~\E p \in posts : p.hook = c THEN "dead"
  ELSE "pending"

Queue == INSTANCE AtLeastOnce WITH
  Messages <- Callers, MaxTries <- MaxAttempts,
  fate <- [c \in Callers |-> Fate(c)],
  tries <- [c \in Callers |-> outbox[c].attempts],
  copies <- received

\* The outbox is an at-least-once queue: whatever workers die, lose their lock,
\* claim a row again or mark it late, a webhook is confirmed only if the endpoint
\* took a copy, never more copies arrive than attempts were counted, and it is
\* dead only when its attempts are used up and none is under way
\* (webhookOutbox.ts:40-81).
WebhooksAtLeastOnce == Queue!Spec

\* Again and again, and so for good, no webhook is pending: each is delivered or
\* dead in the end.  Usage of a linked customer is reported or runs out of
\* attempts.  Neither is dropped as old, and no failed sweep leaves it behind.
DeliveriesEnd ==
  /\ []<>Queue!NonePending
  /\ \A r \in Requests :
       (Linked /\ meter[r].state = "row")
         ~> (meter[r].reported \/ meter[r].attempts = MaxMeterAttempts)

\* The replicas leave each piece of work to one of them: the lock of the
\* reconciliation is not kept for the delivery, so that a hung endpoint never
\* keeps the leases from being swept; two ticks deliver at once, or two reports
\* of one row are under way, only after a fault (maintenance.ts:62-79).
Delivering(j) == tick[j] \in {"claim", "deliver", "flush", "report", "prune"}

SweepsExclusive ==
  /\ \A j \in Ticks : lock["maintenance"] = j => tick[j] = "reconcile"
  /\ faults = 0 => /\ Cardinality({j \in Ticks : Delivering(j)}) <= 1
                   /\ Cardinality({p.worker : p \in posts}) <= 1
                   /\ crossed = {}

OneReplicaActs == AlertOncePerMonth /\ SweepsExclusive
==============================================================================
