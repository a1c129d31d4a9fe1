---------------------------- MODULE EmbeddingsCall ----------------------------
(***************************************************************************)
(* POST /v1/embeddings (api/src/modules/embeddings): the same ledgers and  *)
(* audit trail as chat around one call that returns vectors.  Nothing is   *)
(* classified and no text comes back, so only the input is screened.       *)
(***************************************************************************)
EXTENDS CallLedger

IsEmbeddings == call.surface = "embeddings"

\* No default: what the caller leaves out counts as nothing.
EmbeddingTokens ==
  LET declared == IF call.request.declared = None THEN 0 ELSE call.request.declared
  IN IF declared > call.request.size THEN declared ELSE call.request.size

EmbeddingDecision(forceFallback) ==
  EvaluateAiRequest(call.config, call.request, call.usage, EmbeddingTokens, forceFallback)

EvaluateEmbeddings ==
  /\ At("evaluate") /\ IsEmbeddings
  /\ LET d == EmbeddingDecision(FALSE) IN
     /\ decision' = d
     /\ CASE d.kind = "error" -> Answer(Refuse(400, "unknown_name"), <<>>)
          [] d.kind = "block" ->
               Answer(Refuse(403, "policy_blocked"), RejectionRow("failed", 0))
          [] OTHER -> pc' = "guard" /\ UNCHANGED <<reply, todo>>
  /\ UNCHANGED <<call, plan, text, safety, reserved, lease, hold, books, spent, shown,
                 trail, delivered, catching, faults>>

\* What is embedded is always input, whatever side the plan is written for.
EmbeddingPlan == [plan EXCEPT !.injection = "off", !.scope = "input"]

ScreenEmbeddings ==
  /\ At("guard") /\ IsEmbeddings
  /\ \E scan \in Scans :
     LET r == InspectInput(call.guard, EmbeddingPlan, text, FALSE, scan, "safe") IN
     \/ /\ r.action = "allow"
        /\ pc' = "hold" /\ text' = r.text /\ UNCHANGED <<reply, todo>>
     \/ /\ r.action = "block"
        /\ Answer(Refuse(403, "safety_blocked"), RejectionRow("safety_blocked", 0))
        /\ UNCHANGED text
     \/ /\ r.action = "unavailable"
        /\ Answer(Refuse(503, "safety_unavailable"), RejectionRow("failed", 0))
        /\ UNCHANGED text
     \/ r.action = "crash" /\ Answer(Crash, <<>>) /\ UNCHANGED text
  /\ UNCHANGED <<call, plan, decision, safety, reserved, lease, hold, books, spent, shown,
                 trail, delivered, catching, faults>>

ReserveEmbeddingHold ==
  IsEmbeddings /\ AcquireCreditHold(decision.estimate, RejectionRow("failed", 0))

ReserveEmbeddingLease ==
  IsEmbeddings /\ ReserveBudget(RejectionRow("failed", 0))

\* A provider that reports no cost is charged what is held for it.
EmbeddingAnswers ==
  /\ At("call") \/ At("call_fallback")
  /\ IsEmbeddings
  /\ \E reported \in call.reports :
       ModelRan(IF reported = None THEN reserved ELSE reported, text)
  /\ Answer(Final(200, "ok"),
       JobIf(~CreditsOnly, "settleLease", spent'.model)
       \o Row("ok", spent'.model, Final(503, "audit_unavailable"))
       \o JobIf(UsesCredits \/ UsesMeter, "settleBilling", spent'.model))
  /\ UNCHANGED <<call, plan, decision, text, safety, reserved, lease, hold, books, trail,
                 delivered, catching, faults>>

\* A failure of the provider's is retryable, one of the caller's is not.
EmbeddingFails ==
  /\ At("call") \/ At("call_fallback")
  /\ IsEmbeddings
  /\ shown' = shown \union {<<ProviderOf[decision.model], "model", text>>}
  /\ \E outcome \in {Refuse(502, "provider_unavailable"), Final(502, "upstream_rejected")} :
       Answer(outcome, ReleaseWithSafety \o RejectionRow("failed", 0))
  /\ UNCHANGED <<call, plan, decision, text, safety, reserved, lease, hold, books, spent,
                 trail, delivered, catching, faults>>

EmbeddingFallsBack ==
  /\ At("call") /\ IsEmbeddings
  /\ decision.fallback # None
  /\ shown' = shown \union {<<ProviderOf[decision.model], "model", text>>}
  /\ LET fb == EmbeddingDecision(TRUE) IN
     IF fb.kind = "block"
     THEN /\ Answer(Refuse(403, "policy_blocked"),
                    ReleaseWithSafety \o RejectionRow("failed", 0))
          /\ UNCHANGED decision
     ELSE /\ decision' = fb
          /\ pc' = IF fb.estimate > reserved THEN "grow_hold" ELSE "call_fallback"
          /\ UNCHANGED <<reply, todo>>
  /\ UNCHANGED <<call, plan, text, safety, reserved, lease, hold, books, spent, trail,
                 delivered, catching, faults>>

GrowEmbeddingHold  == IsEmbeddings /\ GrowHold(RejectionRow("failed", 0))
GrowEmbeddingLease == IsEmbeddings /\ GrowLease(RejectionRow("failed", 0))
GrowEmbeddingThrows ==
  IsEmbeddings /\ GrowThrows(Refuse(503, "budget_unavailable"), RejectionRow("failed", 0))

EmbeddingsNext ==
  \/ EvaluateEmbeddings \/ ScreenEmbeddings \/ ReserveEmbeddingHold
  \/ ReserveEmbeddingLease \/ EmbeddingAnswers \/ EmbeddingFails
  \/ EmbeddingFallsBack \/ GrowEmbeddingHold \/ GrowEmbeddingLease
  \/ GrowEmbeddingThrows
=============================================================================
