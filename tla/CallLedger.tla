------------------------------ MODULE CallLedger ------------------------------
(***************************************************************************)
(* One governed call from the moment the route hands it to a surface until *)
(* its reply is decided, as far as all surfaces share it: what the call    *)
(* holds, what it has booked, the ledger operations still to come, and     *)
(* what happens when one of them fails.  The ledgers themselves are the    *)
(* subject of FlatBudget, NodeBudget and Wallet; here each operation is    *)
(* the one step those modules show it to be, or an error.                  *)
(***************************************************************************)
EXTENDS Guard

CONSTANTS Calls, MaxFaults

ASSUME LedgerConstants == MaxFaults \in Nat

\* What a call meets: a configuration that was loaded, whose prices are not
\* negative and whose settings of personal data are complete, and the guard that
\* was built for it at boot.  An activated version may not name another
\* classifier (frozenPolicyFieldsFingerprint), and a cost the provider reports is
\* taken only when it is not negative (explicitResponseCost).
ASSUME LoadedCalls ==
  \A c \in Calls :
    /\ ValidConfig(c.config)
    /\ c.config.order # None => c.config.order \in Seq(DOMAIN c.config.models)
    /\ \A m \in Range(c.config.models) : m.primary \in Models
                                        /\ m.fallback \in Models \union {None}
    /\ \A m \in DOMAIN c.config.pricing : c.config.pricing[m] \in Nat
    /\ \A s \in {c.config.safety} \union {f.safety : f \in Range(c.config.features)} :
         s.pii \in PiiSettings \union {None}
    /\ c.guard.classifier = c.config.safety.injectionModel
    /\ c.request.size \in Nat /\ c.request.declared \in Nat \union {None}
    /\ c.request.text \subseteq Entities
    /\ c.reports \subseteq Nat \union {None}

ASSUME NoneIsNoNumber == None \notin Int
ASSUME NoneIsNoSetting == None \notin PiiSettings

VARIABLES
  call,      \* the request, its configuration and the answers of the backends
  plan,      \* the safety plan the decision carries
  pc,        \* what the handler does next, once its pending work is done
  decision,  \* the policy decision in force
  text,      \* personal data readable in the messages about to be sent
  safety,    \* safetyCostUsd: classifier spend carried through the call
  reserved,  \* reservedUsd: what the provider budget believes is held
  lease,     \* dollars under the call's budget lease, None without one
  hold,      \* credits under the call's wallet hold, None without one
  books,     \* dollars booked: internal ledger, wallet and meter
  spent,     \* dollars charged: by the classifier, of those forgotten, by the model
  shown,     \* who was sent what: <<provider, role, personal data>>
  trail,     \* request_logs rows of this call
  todo,      \* the ledger operations the handler will perform next, in order
  reply,     \* the reply decided so far
  delivered, \* personal data readable in the answer
  catching,  \* which catch block of executeProviderWithFallback applies
  faults     \* the operations that failed, at most MaxFaults of them

vars == <<call, plan, pc, decision, text, safety, reserved, lease, hold, books, spent,
          shown, trail, todo, reply, delivered, catching, faults>>

(***************************************************************************)
(* The deployment a call meets; it does not change while the call runs.    *)
(***************************************************************************)
Mode         == call.config.billing.mode
UsesCredits  == Mode \in {"hybrid", "credits_only"}
UsesMeter    == call.config.billing.meter
CreditsOnly  == Mode = "credits_only"
Hierarchical == call.surface \in {"hierarchical", "node_stream"}
IsStream     == call.surface \in {"stream", "node_stream"}
IsChat       == call.surface \in {"chat", "hierarchical"} \/ IsStream

Feature == call.config.features[call.request.feature]

(***************************************************************************)
(* Replies.  `retry` says that the idempotency layer would release the key *)
(* of the call, so that a retry runs it again: a 5xx reply does unless it  *)
(* says otherwise, and so does an error that reaches the route.            *)
(***************************************************************************)
Refuse(status, code) == [status |-> status, code |-> code, retry |-> status >= 500]

\* Mutant: the retryable flag is left unset.
FinalUnset(status, code) == Refuse(status, code)

Final(status, code)  == [Refuse(status, code) EXCEPT !.retry = FALSE]
Crash                == Refuse(500, "internal_error")

AuditUnavailable(retryable) ==
  IF retryable THEN Refuse(503, "audit_unavailable") ELSE Final(503, "audit_unavailable")

(***************************************************************************)
(* Pending work.  An audit row that cannot be written turns the reply into *)
(* `lost`, or changes nothing when `lost` is None.                         *)
(***************************************************************************)
Job(do, usd) == <<[do |-> do, usd |-> usd]>>
JobIf(condition, do, usd) == IF condition THEN Job(do, usd) ELSE <<>>

Row(status, usd, lost) == <<[do |-> "audit", usd |-> usd, status |-> status, lost |-> lost]>>

\* Mutant: the cost is left out of the row.
RowWithoutCost(status, usd) ==
  Row(status, 0, IF IsChat THEN AuditUnavailable(usd = 0) ELSE None)

\* A rejection of the chat surface: nothing may be retried once something is
\* booked.  The other surfaces only log the failure to log.
RejectionRow(status, usd) ==
  Row(status, usd, IF IsChat THEN AuditUnavailable(usd = 0) ELSE None)

\* Mutant: the wallet does not pay for a classifier it held nothing for.
IncurInternalOnly(usd) == JobIf(usd > 0 /\ (Hierarchical \/ ~CreditsOnly), "book", usd)

\* createIncurSafety and createHierarchicalIncurSafety: spend without a hold.
IncurSafety(usd) ==
  JobIf(usd > 0 /\ UsesCredits /\ ~Hierarchical, "debit", usd)
  \o JobIf(usd > 0 /\ (Hierarchical \/ ~CreditsOnly), "book", usd)

\* The provider budget's incur, then its release: the classifier spend is
\* booked first, and the rest of what is held is freed.
ReleaseWithSafety ==
  JobIf(safety > 0 /\ (Hierarchical \/ ~CreditsOnly), "book", safety)
  \o JobIf(lease # None, "freeLease", 0)
  \o JobIf(~Hierarchical /\ UsesCredits /\ (reserved > 0 \/ hold # None), "freeHold", safety)

Actual == spent.model + safety

\* settleBillingCredits: the wallet or the meter, never an error.
SettleBilling == JobIf(UsesCredits \/ UsesMeter, "settleBilling", Actual)

\* The handler decides its reply and has this left to do.
Answer(with, jobs) ==
  /\ pc' = "reply"
  /\ reply' = with
  /\ todo' = jobs

At(label) == pc = label /\ todo = <<>>

(***************************************************************************)
(* Ledger operations, one action each.                                     *)
(***************************************************************************)
Due(op) == todo # <<>> /\ Head(todo).do = op
Usd     == Head(todo).usd

Keep == UNCHANGED <<call, plan, pc, decision, text, safety, reserved, spent, shown,
                    delivered, catching>>
Done == todo' = Tail(todo) /\ Keep /\ UNCHANGED <<reply, faults>>

\* settleCredits without a hold: the wallet is debited directly.
Debit ==
  /\ Due("debit")
  /\ books' = [books EXCEPT !.wallet = @ + Usd]
  /\ Done /\ UNCHANGED <<lease, hold, trail>>

\* recordIncurredCost and recordIncurredPathCost.
Book ==
  /\ Due("book")
  /\ books' = [books EXCEPT !.internal = @ + Usd]
  /\ Done /\ UNCHANGED <<lease, hold, trail>>

\* releaseBudget and releasePath; a lease that is gone is left alone.
FreeLease ==
  /\ Due("freeLease")
  /\ lease' = None
  /\ Done /\ UNCHANGED <<hold, books, trail>>

\* settleCredits with a hold and what was incurred; gated on the hold's leases.
FreeHold ==
  /\ Due("freeHold")
  /\ books' = IF hold = None THEN books ELSE [books EXCEPT !.wallet = @ + Usd]
  /\ hold' = None
  /\ Done /\ UNCHANGED <<lease, trail>>

\* releaseCredits: an amount goes back, and with all of it the hold.
ReturnHold ==
  /\ Due("returnHold") \/ Due("returnExtra")
  /\ hold' = IF hold = None \/ hold = Usd THEN None ELSE hold - Usd
  /\ Done /\ UNCHANGED <<lease, books, trail>>

\* settleActualCostWithRetry and settlePath; gated on the lease.
SettleLease ==
  /\ Due("settleLease")
  /\ books' = IF lease = None THEN books ELSE [books EXCEPT !.internal = @ + Usd]
  /\ lease' = None
  /\ Done /\ UNCHANGED <<hold, trail>>

\* settleCredits and recordMeter once the provider has run.
SettleBillingDone ==
  /\ Due("settleBilling")
  /\ books' = [books EXCEPT
       !.wallet = IF UsesCredits /\ hold # None THEN @ + Usd ELSE @,
       !.meter  = IF UsesMeter THEN @ + Usd ELSE @]
  /\ hold' = IF UsesCredits THEN None ELSE hold
  /\ Done /\ UNCHANGED <<lease, trail>>

\* logRequest.
WriteAudit ==
  /\ Due("audit")
  /\ trail' = Append(trail, [status |-> Head(todo).status, usd |-> Usd])
  /\ Done /\ UNCHANGED <<lease, hold, books>>

(***************************************************************************)
(* Failures.                                                               *)
(***************************************************************************)
Fault(op) == Len(faults) < MaxFaults /\ faults' = Append(faults, op)

\* An operation that throws.  Inside the provider call's try block the outer
\* catch takes over and releases, from the start, what may be released
\* already; a top-up of the embeddings surface has a catch of its own; and
\* anywhere else the error reaches the route.
OperationThrows ==
  /\ \/ \E op \in {"debit", "book", "freeLease", "freeHold", "returnExtra"} : Due(op)
     \/ Due("returnHold") /\ IsChat
  /\ catching # "stream"
  /\ Fault(Head(todo).do)
  /\ IF catching = "inner"
     THEN /\ todo' = ReleaseWithSafety \o RejectionRow("failed", safety)
          /\ reply' = Refuse(502, "provider_unavailable")
          /\ catching' = "rerun"
     ELSE /\ UNCHANGED catching
          /\ IF Due("returnExtra")
             THEN /\ todo' = ReleaseWithSafety \o RejectionRow("failed", safety)
                  /\ reply' = Refuse(503, "budget_unavailable")
             ELSE /\ todo' = <<>>
                  /\ reply' = Crash
  /\ pc' = "reply"
  /\ UNCHANGED <<call, plan, decision, text, safety, reserved, lease, hold, books,
                 spent, shown, trail, delivered>>

\* A reservation that throws: the error reaches the route at once, and what
\* the classifier charged or the wallet holds is not looked at again.
ReserveThrows ==
  /\ \/ At("hold") /\ UsesCredits
     \/ At("lease") /\ ~CreditsOnly
  /\ Fault(pc)
  /\ pc' = "reply" /\ reply' = Crash /\ todo' = <<>>
  /\ UNCHANGED <<call, plan, decision, text, safety, reserved, lease, hold, books,
                 spent, shown, trail, delivered, catching>>

\* A settlement, or a release outside the chat surface, that is logged and
\* left to the sweeps.
OperationIsLogged ==
  /\ \/ Due("settleLease") \/ Due("settleBilling")
     \/ Due("returnHold") /\ ~IsChat
  /\ Fault(Head(todo).do)
  /\ todo' = Tail(todo)
  /\ Keep /\ UNCHANGED <<lease, hold, books, trail, reply>>

\* releaseStream: the internal ledger has one catch for both its steps, the
\* wallet another, and nobody hears of either.
StreamReleaseIsLogged ==
  /\ catching = "stream"
  /\ Due("book") \/ Due("freeLease") \/ Due("freeHold")
  /\ Fault(Head(todo).do)
  /\ todo' = LET rest == Tail(todo)
             IN IF Due("book") /\ rest # <<>> /\ Head(rest).do = "freeLease"
                THEN Tail(rest) ELSE rest
  /\ Keep /\ UNCHANGED <<lease, hold, books, trail, reply>>

AuditFails ==
  /\ Due("audit")
  /\ Fault("audit")
  /\ reply' = IF Head(todo).lost = None THEN reply ELSE Head(todo).lost
  /\ todo' = Tail(todo)
  /\ Keep /\ UNCHANGED <<lease, hold, books, trail>>

(***************************************************************************)
(* Steps of a handler that every surface takes.                            *)
(***************************************************************************)

\* assertAiRequestsNotPaused.
CheckPause ==
  /\ At("pause")
  /\ \E paused \in BOOLEAN :
       IF paused THEN Answer(Refuse(503, "ai_requests_paused"), <<>>)
       ELSE pc' = "evaluate" /\ UNCHANGED <<reply, todo>>
  /\ UNCHANGED <<call, plan, decision, text, safety, reserved, lease, hold, books, spent,
                 shown, trail, delivered, catching, faults>>

\* acquireCreditHold: no hold when the deployment sells no credits.  A wallet
\* that cannot cover the estimate is a 402 the caller finishes with `jobs`.
AcquireCreditHold(estimate, jobs) ==
  /\ At("hold")
  /\ \/ /\ hold' = IF UsesCredits THEN estimate ELSE None
        /\ reserved' = estimate
        /\ pc' = "lease" /\ UNCHANGED <<reply, todo>>
     \/ /\ UsesCredits
        /\ Answer(Refuse(402, "insufficient_credits"), jobs)
        /\ UNCHANGED <<hold, reserved>>
  /\ UNCHANGED <<call, plan, decision, text, safety, lease, books, spent, shown, trail,
                 delivered, catching, faults>>

\* Mutant: a rejection that leaves the credits held.
ReserveKeepsCredits(jobs) ==
  /\ At("lease")
  /\ \/ /\ lease' = IF CreditsOnly THEN None ELSE reserved
        /\ pc' = "call" /\ UNCHANGED <<reply, todo>>
     \/ /\ ~CreditsOnly
        /\ Answer(Refuse(403, "budget_exceeded"), jobs)
        /\ UNCHANGED lease
  /\ UNCHANGED <<call, plan, decision, text, safety, reserved, hold, books, spent, shown,
                 trail, delivered, catching, faults>>

\* reserveBudget, skipped when the wallet is the only ledger.  A rejection
\* gives the credits back first.
ReserveBudget(jobs) ==
  /\ At("lease")
  /\ \/ /\ lease' = IF CreditsOnly THEN None ELSE reserved
        /\ pc' = "call" /\ UNCHANGED <<reply, todo>>
     \/ /\ ~CreditsOnly
        /\ Answer(Refuse(403, "budget_exceeded"),
                  JobIf(hold # None, "returnHold", reserved) \o jobs)
        /\ UNCHANGED lease
  /\ UNCHANGED <<call, plan, decision, text, safety, reserved, hold, books, spent, shown,
                 trail, delivered, catching, faults>>

(***************************************************************************)
(* A fallback dearer than what is held: topUp of the flat provider budget. *)
(* `jobs` is what a refusal and `thrown` what an error leaves to do.       *)
(***************************************************************************)

\* Mutant: the classifier's spend is forgotten in the top-up.
ExtraForModel == decision.estimate - reserved

Extra == decision.estimate + safety - reserved

GrowHold(refused) ==
  /\ At("grow_hold")
  /\ \/ /\ hold' = IF UsesCredits THEN hold + Extra ELSE hold
        /\ IF CreditsOnly THEN pc' = "call_fallback" /\ reserved' = reserved + Extra
           ELSE pc' = "grow_lease" /\ UNCHANGED reserved
        /\ UNCHANGED <<reply, todo>>
     \/ /\ UsesCredits
        /\ Answer(Refuse(402, "insufficient_credits"), ReleaseWithSafety \o refused)
        /\ UNCHANGED <<hold, reserved>>
  /\ UNCHANGED <<call, plan, decision, text, safety, lease, books, spent, shown, trail,
                 delivered, catching, faults>>

GrowLease(refused) ==
  /\ At("grow_lease")
  /\ \/ /\ lease' = lease + Extra
        /\ reserved' = reserved + Extra
        /\ pc' = "call_fallback"
        /\ UNCHANGED <<reply, todo>>
     \/ /\ Answer(Refuse(403, "budget_exceeded"),
                  JobIf(UsesCredits, "returnExtra", Extra) \o ReleaseWithSafety \o refused)
        /\ UNCHANGED <<lease, reserved>>
  /\ UNCHANGED <<call, plan, decision, text, safety, hold, books, spent, shown, trail,
                 delivered, catching, faults>>

\* A top-up that throws: the extra credits go back, and the call is released.
GrowThrows(with, jobs) ==
  /\ \/ At("grow_hold") /\ UsesCredits
     \/ At("grow_lease")
  /\ Fault(pc)
  /\ hold' = IF pc = "grow_lease" /\ UsesCredits THEN hold - Extra ELSE hold
  /\ Answer(with, ReleaseWithSafety \o jobs)
  /\ catching' = "none"
  /\ UNCHANGED <<call, plan, decision, text, safety, reserved, lease, books, spent,
                 shown, trail, delivered>>

LedgerNext ==
  \/ Debit \/ Book \/ FreeLease \/ FreeHold \/ ReturnHold \/ SettleLease
  \/ SettleBillingDone \/ WriteAudit
  \/ OperationThrows \/ ReserveThrows \/ OperationIsLogged
  \/ StreamReleaseIsLogged \/ AuditFails
  \/ CheckPause

\* The model was called and has charged for it.
ModelRan(cost, sent) ==
  /\ spent' = [spent EXCEPT !.model = cost]
  /\ shown' = shown \union {<<ProviderOf[decision.model], "model", sent>>}

CallInit ==
  /\ call \in Calls /\ plan = ResolveSafetyPlan(call.config, Feature)
  /\ pc = "pause" /\ decision = None
  /\ text = call.request.text
  /\ safety = 0 /\ reserved = 0 /\ lease = None /\ hold = None
  /\ books = [internal |-> 0, wallet |-> 0, meter |-> 0]
  /\ spent = [classifier |-> 0, forgotten |-> 0, model |-> 0]
  /\ shown = {} /\ trail = <<>> /\ todo = <<>>
  /\ reply = None /\ delivered = {} /\ catching = "none" /\ faults = <<>>
=============================================================================
