---------------------------- MODULE DocumentsCall ----------------------------
(***************************************************************************)
(* POST /v1/documents/extract (api/src/modules/documents): a document is   *)
(* priced by its pages and goes to an OCR provider of its own, so nothing  *)
(* is screened before it leaves; the text and the structured values that   *)
(* come back are.                                                          *)
(***************************************************************************)
EXTENDS CallLedger

CONSTANTS PageRate, MaxPages

ASSUME DocumentConstants == PageRate \in Nat /\ MaxPages \in Nat

IsDocument == call.surface = "documents"

\* A source the adapter does not take, a model it does not offer or an
\* address it must not fetch; then the policy, with no tokens to count.
EvaluateDocument ==
  /\ At("evaluate") /\ IsDocument
  /\ LET d == EvaluateAiRequest(call.config, call.request, call.usage, 0, FALSE) IN
     \/ Answer(Refuse(400, "invalid_request"), <<>>) /\ UNCHANGED decision
     \/ /\ decision' = d
        /\ CASE d.kind = "error" -> Answer(Refuse(400, "unknown_name"), <<>>)
             [] d.kind = "block" ->
                  Answer(Refuse(403, "policy_blocked"), RejectionRow("failed", 0))
             [] OTHER -> pc' = "hold" /\ UNCHANGED <<reply, todo>>
  /\ UNCHANGED <<call, plan, text, safety, reserved, lease, hold, books, spent, shown,
                 trail, delivered, catching, faults>>

\* A declared number of pages can only raise what is reserved.
EstimatedPages ==
  IF call.request.declared # None /\ call.request.declared > MaxPages
  THEN call.request.declared ELSE MaxPages

ReserveDocumentHold ==
  IsDocument /\ AcquireCreditHold(EstimatedPages * PageRate, RejectionRow("failed", 0))

ReserveDocumentLease ==
  IsDocument /\ ReserveBudget(RejectionRow("failed", 0))

\* The document's own provider, which no data class names.
ExtractAnswers ==
  /\ At("call") /\ IsDocument
  /\ spent' = [spent EXCEPT !.model = call.request.size * PageRate]
  /\ shown' = shown \union {<<"ocr", "document", text>>}
  /\ pc' = "answer"
  /\ todo' = JobIf(~CreditsOnly, "settleLease", spent'.model)
  /\ UNCHANGED <<call, plan, decision, text, safety, reserved, lease, hold, books, trail,
                 reply, delivered, catching, faults>>

ExtractFails ==
  /\ At("call") /\ IsDocument
  /\ shown' = shown \union {<<"ocr", "document", text>>}
  /\ \E outcome \in {Refuse(502, "provider_unavailable"), Final(502, "upstream_rejected")} :
       Answer(outcome, ReleaseWithSafety \o RejectionRow("failed", 0))
  /\ UNCHANGED <<call, plan, decision, text, safety, reserved, lease, hold, books, spent,
                 trail, delivered, catching, faults>>

(***************************************************************************)
(* The extracted text is screened, then the values of its tables and       *)
(* fields, which hold the same content.  Values are screened when the plan *)
(* could redact something; a blanket block has already refused the text.   *)
(***************************************************************************)
PlanCanMask == plan.pii # "off" /\ (plan.entities # None \/ plan.pii = "mask")

\* Mutant: only the text is screened.
ScreenTextOnly(content, values, scan, again) ==
  LET first == InspectOutput(call.guard, plan, content, scan)
  IN IF first.action # "allow" THEN first
     ELSE [action |-> "allow", text |-> first.text \union values]

ScreenExtract(content, values, scan, again) ==
  LET first == InspectOutput(call.guard, plan, content, scan)
      Out(action, shownTo) == [action |-> action, text |-> shownTo]
      second == InspectOutput(call.guard, plan, values, again)
  IN IF first.action # "allow" THEN first
     ELSE IF ~PlanCanMask \/ values = {} THEN Out("allow", first.text \union values)
     ELSE IF ~call.guard.batch THEN Out("allow", first.text)
     ELSE IF second.action # "allow" THEN second
     ELSE Out("allow", first.text \union second.text)

DocumentServed(readable) ==
  /\ delivered' = readable
  /\ Answer(Final(200, "ok"),
            Row("ok", Actual, Final(503, "audit_unavailable")) \o SettleBilling)

\* The row of a refusal may be missing; the wallet pays in any case.
DocumentBlocked ==
  /\ Answer(Final(403, "safety_blocked"), Row("safety_blocked", Actual, None) \o SettleBilling)
  /\ UNCHANGED delivered

DocumentUnscreened ==
  /\ Answer(Final(503, "safety_unavailable"), Row("failed", Actual, None) \o SettleBilling)
  /\ UNCHANGED delivered

DocumentLost == Answer(Crash, SettleBilling) /\ UNCHANGED delivered

ScreenDocument ==
  /\ At("answer") /\ IsDocument
  /\ \E values \in SUBSET text, scan, again \in Scans :
     LET r == ScreenExtract(text, values, scan, again) IN
     \/ r.action = "allow"       /\ DocumentServed(r.text)
     \/ r.action = "block"       /\ DocumentBlocked
     \/ r.action = "unavailable" /\ DocumentUnscreened
     \/ r.action = "crash"       /\ DocumentLost
  /\ UNCHANGED <<call, plan, decision, text, safety, reserved, lease, hold, books, spent,
                 shown, trail, catching, faults>>

DocumentsNext ==
  \/ EvaluateDocument \/ ReserveDocumentHold \/ ReserveDocumentLease
  \/ ExtractAnswers \/ ExtractFails \/ ScreenDocument
=============================================================================
