------------------------------- MODULE ChatCall -------------------------------
(***************************************************************************)
(* POST /v1/chat (api/src/modules/chat): prepareChatCall and               *)
(* executeSyncChat for flat and hierarchical budgets, and the prologue and *)
(* the three endings of a stream; who reaches an ending first is the       *)
(* subject of module Stream.                                               *)
(***************************************************************************)
EXTENDS CallLedger

Req == call.request

\* Declared tokens are only ever raised: the content sets a floor.
ChatTokens ==
  LET declared == IF Req.declared = None THEN DefaultTokens ELSE Req.declared
  IN IF declared > Req.size THEN declared ELSE Req.size

\* Hierarchical calls are evaluated against no usage at all.
Usage == IF Hierarchical THEN [g \in DOMAIN call.usage |-> 0] ELSE call.usage

\* Mutant: the fallback is taken from the first decision, unevaluated.
ChatDecisionOnce(forceFallback) ==
  LET d == EvaluateAiRequest(call.config, Req, Usage, ChatTokens, FALSE)
  IN IF forceFallback
     THEN [d EXCEPT !.kind = "fallback", !.model = d.fallback,
                    !.estimate = EstimateForModel(call.config, d.fallback, ChatTokens)]
     ELSE d

ChatDecision(forceFallback) ==
  EvaluateAiRequest(call.config, Req, Usage, ChatTokens, forceFallback)

\* The steps of prepareFlatCall and of prepareHierarchicalCall, in order.
FlatOrder == [evaluate |-> "screen", screen |-> "guard", guard |-> "hold"]
PathOrder == [evaluate |-> "path", path |-> "screen", screen |-> "guard",
              guard |-> "reserve_path"]
Following(step) == IF Hierarchical THEN PathOrder[step] ELSE FlatOrder[step]

\* What a feature rules out before anything is paid for: a stream it could
\* not screen, and grounding without a context it can be checked against.
StreamRefused ==
  IsStream /\ (plan.pii # "off" \/ plan.grounding = "strict")

GroundingRefused ==
  plan.grounding = "strict"
  /\ (Req.format = "json_schema" \/ Req.context = None
      \/ (Feature.citesPages /\ ~Req.context.pages))

EvaluateChat ==
  /\ At("evaluate") /\ IsChat
  /\ LET d == ChatDecision(FALSE) IN
     /\ decision' = d
     /\ IF d.kind = "error" THEN Answer(Refuse(400, "unknown_name"), <<>>)
        ELSE IF d.kind = "block"
             THEN Answer(Refuse(403, "policy_blocked"), RejectionRow("failed", 0))
        ELSE IF GroundingRefused \/ (StreamRefused /\ ~Hierarchical)
             THEN Answer(Refuse(400, "unsupported"), <<>>)
        ELSE pc' = Following("evaluate") /\ UNCHANGED <<reply, todo>>
  /\ UNCHANGED <<call, plan, text, safety, reserved, lease, hold, books, spent, shown,
                 trail, delivered, catching, faults>>

\* The node of the key or the body is resolved and checked without a lock,
\* before a stream is refused.
LoadHierarchicalPath ==
  /\ At("path")
  /\ \/ IF StreamRefused THEN Answer(Refuse(400, "unsupported"), <<>>)
        ELSE pc' = Following("path") /\ UNCHANGED <<reply, todo>>
     \/ Answer(Refuse(400, "invalid_request"), <<>>)
     \/ Answer(Refuse(403, "budget_exceeded"),
               Row("failed", 0, AuditUnavailable(TRUE)))
  /\ UNCHANGED <<call, plan, decision, text, safety, reserved, lease, hold, books, spent,
                 shown, trail, delivered, catching, faults>>

\* What one run of the guard over the input leaves behind.
Inspected(r) ==
  /\ spent' = [spent EXCEPT !.classifier = @ + r.paid,
                            !.forgotten = @ + (r.paid - r.cost)]
  /\ shown' = IF r.shown = None THEN shown
              ELSE shown \union {<<ProviderOf[call.guard.classifier], "classifier", r.shown>>}

\* Retrieved passages are screened for injections only, as the prompt will
\* show them; they are not masked, or no citation could be verified.
ContextPlan == [plan EXCEPT !.pii = "off", !.entities = None, !.grounding = "off"]

ScreenContext ==
  /\ At("screen")
  /\ IF plan.grounding = "strict" /\ plan.injection = "block"
     THEN \E verdict \in Verdicts :
          LET r == InspectInput(call.guard, ContextPlan, Req.context.text, FALSE, "up",
                                verdict)
          IN /\ Inspected(r)
             /\ \/ /\ r.action = "allow"
                   /\ pc' = Following("screen") /\ safety' = r.cost /\ UNCHANGED <<reply, todo>>
                \/ /\ r.action = "block"
                   /\ Answer(Refuse(400, "grounding_context_rejected"), IncurSafety(r.cost))
                   /\ UNCHANGED safety
                \/ /\ r.action = "unavailable"
                   /\ Answer(Refuse(503, "safety_unavailable"), <<>>) /\ UNCHANGED safety
     ELSE pc' = Following("screen") /\ UNCHANGED <<safety, spent, shown, reply, todo>>
  /\ UNCHANGED <<call, plan, decision, text, reserved, lease, hold, books, trail,
                 delivered, catching, faults>>

RunInputSafety ==
  /\ At("guard") /\ IsChat
  /\ \E verdict \in Verdicts, scan \in Scans :
     LET r == InspectInput(call.guard, plan, text, Req.image, scan, verdict)
         cost == safety + r.cost
     IN /\ Inspected(r)
        /\ \/ /\ r.action = "allow"
              /\ pc' = Following("guard")
              /\ text' = r.text /\ safety' = cost /\ UNCHANGED <<reply, todo>>
           \/ /\ r.action = "block"
              /\ Answer(Refuse(403, "safety_blocked"),
                        IncurSafety(cost) \o RejectionRow("safety_blocked", cost))
              /\ UNCHANGED <<text, safety>>
           \/ /\ r.action = "unavailable"
              /\ Answer(Refuse(503, "safety_unavailable"), IncurSafety(safety))
              /\ UNCHANGED <<text, safety>>
           \/ /\ r.action = "crash"
              /\ Answer(Crash, <<>>) /\ UNCHANGED <<text, safety>>
  /\ UNCHANGED <<call, plan, decision, reserved, lease, hold, books, trail, delivered,
                 catching, faults>>

\* The 402 is the one rejection that does not say whether its audit failure
\* may be retried, so it always may.
ReserveFlatHold ==
  /\ IsChat
  /\ AcquireCreditHold(decision.estimate + safety,
       IncurSafety(safety) \o Row("failed", safety, AuditUnavailable(TRUE)))

ReserveFlatLease ==
  IsChat /\ ReserveBudget(IncurSafety(safety) \o RejectionRow("failed", safety))

ReserveHierarchical ==
  /\ At("reserve_path")
  /\ \/ /\ ~UsesCredits
        /\ lease' = decision.estimate + safety
        /\ reserved' = decision.estimate + safety
        /\ pc' = "call" /\ UNCHANGED <<reply, todo>>
     \/ /\ Answer(IF UsesCredits THEN Refuse(501, "not_implemented")
                  ELSE Refuse(403, "budget_exceeded"),
                  IncurSafety(safety) \o RejectionRow("failed", safety))
        /\ UNCHANGED <<lease, reserved>>
  /\ UNCHANGED <<call, plan, decision, text, safety, hold, books, spent, shown, trail,
                 delivered, catching, faults>>

(***************************************************************************)
(* executeProviderWithFallback.                                            *)
(***************************************************************************)

\* A grounded prompt carries the passages as they are.
Sent == IF plan.grounding = "strict" THEN text \union Req.context.text ELSE text

ProviderAnswers ==
  /\ At("call") \/ At("call_fallback")
  /\ call.surface \in {"chat", "hierarchical"}
  /\ \E reported \in call.reports :
       ModelRan(IF reported = None THEN decision.estimate ELSE reported, Sent)
  /\ pc' = "answer" /\ catching' = "none"
  /\ todo' = JobIf(Hierarchical \/ ~CreditsOnly, "settleLease", spent'.model + safety)
  /\ UNCHANGED <<call, plan, decision, text, safety, reserved, lease, hold, books, trail,
                 reply, delivered, faults>>

\* What leaves the inner try block, or the fallback call, is a 502.
ProviderFails ==
  /\ At("call") \/ At("call_fallback")
  /\ call.surface \in {"chat", "hierarchical"}
  /\ shown' = shown \union {<<ProviderOf[decision.model], "model", Sent>>}
  /\ Answer(Refuse(502, "provider_unavailable"),
            ReleaseWithSafety \o RejectionRow("failed", safety))
  /\ catching' = "none"
  /\ UNCHANGED <<call, plan, decision, text, safety, reserved, lease, hold, books, spent,
                 trail, delivered, faults>>

\* A failure of the provider's, not the caller's: the policy is asked again
\* for the fallback, which may be blocked or dearer than what is held.
ProviderFallsBack ==
  /\ At("call") /\ call.surface \in {"chat", "hierarchical"}
  /\ decision.fallback # None
  /\ shown' = shown \union {<<ProviderOf[decision.model], "model", Sent>>}
  /\ LET fb == ChatDecision(TRUE) IN
     IF fb.kind = "block"
     THEN /\ Answer(Refuse(403, "policy_blocked"),
                    ReleaseWithSafety \o RejectionRow("failed", safety))
          /\ UNCHANGED decision
     ELSE /\ decision' = fb
          /\ pc' = IF fb.estimate + safety > reserved /\ ~Hierarchical
                   THEN "grow_hold" ELSE "call_fallback"
          /\ UNCHANGED <<reply, todo>>
  /\ catching' = "inner"
  /\ UNCHANGED <<call, plan, text, safety, reserved, lease, hold, books, spent, trail,
                 delivered, faults>>

GrowChatHold  == IsChat /\ GrowHold(RejectionRow("failed", safety))
GrowChatLease == IsChat /\ GrowLease(RejectionRow("failed", safety))
GrowChatThrows ==
  IsChat /\ GrowThrows(Refuse(502, "provider_unavailable"), RejectionRow("failed", safety))

(***************************************************************************)
(* After the model has answered.                                           *)
(***************************************************************************)

\* A grounded answer is verified as it came, then screened; a structured one
\* is screened value by value when it parses.
Answers(content, json, answer) ==
  LET verified == IF plan.grounding # "strict" THEN content
                  ELSE IF VerifyGrounding(answer, Feature.citesPages) THEN content ELSE {}
      structured == Req.format # "text" /\ json /\ plan.grounding # "strict"
  IN [scan \in Scans |->
        IF structured THEN MaskStructuredOutput(call.guard, plan, verified, scan)
        ELSE InspectOutput(call.guard, plan, verified, scan)]

AnswerServed(readable) ==
  /\ delivered' = readable
  /\ Answer(Final(200, "ok"),
            Row("ok", Actual, Final(503, "audit_unavailable")) \o SettleBilling)

AnswerBlocked ==
  /\ Answer(Final(403, "safety_blocked"),
            Row("safety_blocked", Actual, Final(503, "audit_unavailable")) \o SettleBilling)
  /\ UNCHANGED delivered

AnswerUnscreened ==
  /\ Answer(Final(503, "safety_unavailable"),
            Row("failed", Actual, Final(503, "audit_unavailable")) \o SettleBilling)
  /\ UNCHANGED delivered

\* An error of another kind is thrown past the settlement of the wallet.
AnswerLost == Answer(Crash, <<>>) /\ UNCHANGED delivered

ScreenAnswer ==
  /\ At("answer") /\ IsChat
  /\ \E content \in SUBSET Entities, json \in BOOLEAN, scan \in Scans, answer \in call.answers :
     LET r == Answers(content, json, answer)[scan] IN
     \/ r.action = "allow"       /\ AnswerServed(r.text)
     \/ r.action = "block"       /\ AnswerBlocked
     \/ r.action = "unavailable" /\ AnswerUnscreened
     \/ r.action = "crash"       /\ AnswerLost
  /\ UNCHANGED <<call, plan, decision, text, safety, reserved, lease, hold, books, spent,
                 shown, trail, catching, faults>>

(***************************************************************************)
(* A stream.  Nothing is retried and no fallback is taken.                 *)
(***************************************************************************)

StreamOpens ==
  /\ At("call") /\ IsStream
  /\ shown' = shown \union {<<ProviderOf[decision.model], "model", Sent>>}
  /\ pc' = "first"
  /\ UNCHANGED <<call, plan, decision, text, safety, reserved, lease, hold, books, spent,
                 trail, todo, reply, delivered, catching, faults>>

\* Before the first token the provider fails or the client leaves, and the
\* hold is released; no row of the request log says so.
StreamReleased ==
  /\ At("first")
  /\ \E outcome \in {Refuse(502, "provider_unavailable"), Refuse(0, "client_gone")} :
       Answer(outcome, ReleaseWithSafety)
  /\ catching' = "stream"
  /\ UNCHANGED <<call, plan, decision, text, safety, reserved, lease, hold, books, spent,
                 shown, trail, delivered, faults>>

\* What the model writes is sent as it is written.
FirstDelta ==
  /\ At("first")
  /\ delivered' \in SUBSET Entities
  /\ pc' = "stream"
  /\ UNCHANGED <<call, plan, decision, text, safety, reserved, lease, hold, books, spent,
                 shown, trail, todo, reply, catching, faults>>

\* Mutant: an estimate may exceed the hold.
StreamCostUncapped(reported, produced) ==
  IF reported = None THEN produced ELSE reported

\* The model's part of what a stream is booked for: what the provider
\* reports, else the price of what was sent and produced, within the hold.
StreamCost(reported, produced) ==
  IF reported # None THEN reported
  ELSE IF produced + safety > reserved THEN reserved - safety ELSE produced

\* settleStream and settleStreamPartial: each of the three ledgers is tried,
\* whatever becomes of the others.
SettleStream(reported, produced, outcome) ==
  /\ spent' = [spent EXCEPT !.model = StreamCost(reported, produced)]
  /\ Answer(outcome,
            JobIf(Hierarchical \/ ~CreditsOnly, "settleLease", spent'.model + safety)
            \o Row("ok", spent'.model + safety, None)
            \o JobIf(UsesCredits \/ UsesMeter, "settleBilling", spent'.model + safety))
  /\ catching' = "stream"
  /\ UNCHANGED <<call, plan, decision, text, safety, reserved, lease, hold, books, shown,
                 trail, delivered, faults>>

\* A little more than was reserved for can be produced before the cap.
Produced == 0 .. decision.estimate + 1

StreamEnds ==
  /\ At("stream")
  /\ \E reported \in call.reports, produced \in Produced :
       SettleStream(reported, produced, Final(200, "ok"))

\* The client or the provider is gone after the first token.
StreamCut ==
  /\ At("stream")
  /\ \E produced \in Produced : SettleStream(None, produced, Final(200, "interrupted"))

ChatNext ==
  \/ EvaluateChat \/ LoadHierarchicalPath \/ ScreenContext \/ RunInputSafety
  \/ ReserveFlatHold \/ ReserveFlatLease \/ ReserveHierarchical
  \/ ProviderAnswers \/ ProviderFails \/ ProviderFallsBack
  \/ GrowChatHold \/ GrowChatLease \/ GrowChatThrows
  \/ ScreenAnswer
  \/ StreamOpens \/ StreamReleased \/ FirstDelta \/ StreamEnds \/ StreamCut
=============================================================================
