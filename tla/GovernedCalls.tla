---------------------------- MODULE GovernedCalls ----------------------------
(***************************************************************************)
(* The surfaces of the gateway over one ledger: whatever the surface, the  *)
(* configuration, the answers of the backends and the operation that       *)
(* fails, what does a governed call keep?                                  *)
(***************************************************************************)
EXTENDS ChatCall, EmbeddingsCall, DocumentsCall

Next == LedgerNext \/ ChatNext \/ EmbeddingsNext \/ DocumentsNext

Spec == CallInit /\ [][Next]_vars

Finished == pc = "reply" /\ todo = <<>>
Crashed  == reply = Crash
Failed(op) == op \in Range(faults)

\* What the gateway has been charged and knows of.
Known == spent.classifier - spent.forgotten + spent.model

\* The replies the handlers can give.
Codes == {"ai_requests_paused", "unknown_name", "policy_blocked", "unsupported",
          "invalid_request", "safety_blocked", "safety_unavailable",
          "grounding_context_rejected", "insufficient_credits", "budget_exceeded",
          "budget_unavailable", "not_implemented", "provider_unavailable",
          "upstream_rejected", "client_gone", "interrupted", "audit_unavailable",
          "internal_error", "ok"}
Replies == [status : Nat, code : Codes, retry : BOOLEAN]

TypeOK ==
  /\ text \subseteq Entities /\ delivered \subseteq Entities
  /\ safety \in Nat /\ reserved \in Nat
  /\ lease \in Nat \union {None} /\ hold \in Nat \union {None}
  /\ books \in [{"internal", "wallet", "meter"} -> Nat]
  /\ spent \in [{"classifier", "forgotten", "model"} -> Nat]
  /\ catching \in {"none", "inner", "rerun", "stream"}
  /\ Len(trail) <= 1 /\ Len(faults) <= MaxFaults
  /\ pc = "reply" => reply \in Replies

(***************************************************************************)
(* Money.                                                                  *)
(***************************************************************************)

\* When nothing failed, every ledger of the call's billing mode carries
\* exactly what the gateway knows it was charged, classifier included, on
\* every path that ends a call, and no other ledger carries anything.
Exact ==
  /\ books.internal = IF CreditsOnly /\ ~Hierarchical THEN 0 ELSE Known
  /\ books.wallet = IF UsesCredits /\ ~Hierarchical THEN Known ELSE 0
  /\ books.meter \in IF ~UsesMeter THEN {0}
                      ELSE IF spent.model > 0 THEN {Known} ELSE {0, Known}

\* And whatever fails, no ledger is charged more than the call cost, except
\* when the outer catch repeats a release the inner one had begun.  A cost
\* nobody reported is never booked above what was held for it.
SpendBooked ==
  /\ TypeOK
  /\ (Finished /\ faults = <<>> /\ ~Crashed) => Exact
  /\ catching # "rerun" =>
       \A ledger \in DOMAIN books : books[ledger] <= spent.classifier + spent.model
  /\ Finished /\ IsStream /\ call.reports = {None} => Actual <= reserved \/ spent.model = 0

\* A decided call leaves no lease and no wallet hold behind, except one whose
\* own settlement failed and was logged: a stream logs its releases too.
HoldsResolved ==
  (Finished /\ ~Crashed) =>
    /\ lease # None => Failed("settleLease")
                        \/ (IsStream /\ (Failed("book") \/ Failed("freeLease")))
    /\ hold # None => Failed("settleBilling") \/ Failed("returnHold")
                       \/ (IsStream /\ Failed("freeHold"))

\* The model is called only when what it may cost is held: the price of the
\* text that is really there, plus the classifier's spend, under one lease
\* and one hold of that amount.  The fallback of a hierarchical call and a
\* document longer than its estimate are not covered.
CoveredBeforeRun ==
  (At("call") \/ At("call_fallback")) /\ decision.kind \in {"allow", "degrade", "fallback"} =>
    /\ IsChat /\ (~Hierarchical \/ pc = "call") =>
         reserved >= EstimateForModel(call.config, decision.model, call.request.size) + safety
    /\ IsEmbeddings =>
         reserved >= EstimateForModel(call.config, decision.model, call.request.size)
    /\ IsDocument => reserved >= EstimatedPages * PageRate
    /\ lease # None => lease = reserved
    /\ hold # None => hold = reserved
    /\ lease # None \/ hold # None

\* A call whose key the idempotency layer would release, so that a retry
\* runs it again, has not been charged for a model.
RetryIsFree == Finished /\ reply.retry /\ ~Crashed => spent.model = 0

\* What a call cost is on its row of the request log, to the dollar, unless
\* the row could not be written, an error was thrown past it, the guard was
\* unavailable or refused the context before any model ran, or a stream was
\* released before its first token.
PaidIsAudited ==
  /\ Finished /\ Known > 0 /\ ~Crashed /\ ~Failed("audit")
  /\ (spent.model = 0 => /\ reply.code \notin {"safety_unavailable", "grounding_context_rejected"}
                         /\ catching = "stream" => reply.status = 200)
  => Len(trail) = 1 /\ trail[1].usd = Known

(***************************************************************************)
(* Data.                                                                   *)
(***************************************************************************)

\* The text of a feature reaches only models of a class its user may use and
\* providers its data class names, on every surface that asks the policy for
\* a model; the classifier's provider is one of them or is local.
DataStaysApproved ==
  /\ (At("call") \/ At("call_fallback")) /\ ~IsDocument =>
       /\ decision.class \in call.config.permitted
       /\ DataAllows(call.config, Feature, decision.class, ProviderOf[decision.model])
  /\ \A s \in shown : s[2] = "classifier" /\ Feature.dataClass # None =>
       LET allowed == call.config.dataClasses[Feature.dataClass].providers
       IN allowed = None \/ s[1] \in allowed \union LocalProviders

Protected == {e \in Entities : DispositionFor(plan, e) # "allow"}

\* Passages of a grounded call are sent as they are.
FromContext ==
  IF plan.grounding = "strict" /\ call.request.context # None
  THEN call.request.context.text ELSE {}

\* Where the plan screens input, and for everything that is embedded, no
\* model sees data the plan masks or refuses.
ModelSeesScreened ==
  (OnInput(plan) \/ (IsEmbeddings /\ plan.pii # "off")) =>
    \A s \in shown : s[2] = "model" => s[3] \cap Protected \subseteq FromContext

\* Where the plan screens output, no caller reads such data, in an answer, its
\* structured values, an extract or a stream.
CallerSeesScreened ==
  OnOutput(plan) /\ ((Finished /\ reply.status = 200) \/ At("stream")) =>
    delivered \cap Protected = {}

BothSidesScreened == ModelSeesScreened /\ CallerSeesScreened

\* services/safety/composite.ts: "The classifier forwards text to a guard
\* model, so it must never see raw PII."
ClassifierSeesNoRawPii ==
  plan.pii # "off" =>
    \A s \in shown : s[2] = "classifier" => s[3] \cap Protected \subseteq FromContext

\* modules/billing/settlement.ts: "Must be called on EVERY post-provider-call
\* exit ... or the reservation/usage leaks."  Once a model has charged, the
\* wallet of a call in a credit mode pays, unless the settlement itself failed.
EveryExitSettles ==
  Finished /\ spent.model > 0 /\ UsesCredits /\ faults = <<>> => books.wallet = Known

\* modules/chat/prep.ts and lifecycle.ts, at every other rejection: a failure
\* to write the audit row is retryable only when nothing was booked.
AuditFailureIsFree ==
  Finished /\ reply = AuditUnavailable(TRUE) =>
    \A ledger \in DOMAIN books : books[ledger] = 0
=============================================================================
