-------------------------------- MODULE Guard --------------------------------
(***************************************************************************)
(* The safety guard (api/src/services/safety) and the two checks the chat  *)
(* surface adds to it: structured output and grounding.  The guard keeps   *)
(* no state; each call is a function of the plan, the text and what its    *)
(* two backends answered.  A text is the set of kinds of personal data     *)
(* that are readable in it.                                                *)
(***************************************************************************)
EXTENDS Policy

\* What the backends may answer to one call: the recogniser is reachable,
\* unreachable, or answers something the code cannot read; the classifier is
\* sure, finds an injection, contradicts itself or cannot be reached.
Scans    == {"up", "down", "garbled"}
Verdicts == {"safe", "heuristic", "injection", "ambiguous", "outage"}

ClassifierCost == 1

(***************************************************************************)
(* Personal data.  A guard is [pii, classifier, batch]: whether Presidio   *)
(* is configured, the model of the injection classifier or None, and       *)
(* whether the guard can screen a list of strings at once.                 *)
(***************************************************************************)

\* Only entities to be masked are redacted: an allowed one stays by
\* definition, and one that blocks stays as the evidence of the rejection.
Processed(plan, text) ==
  IF plan.entities = None THEN {} ELSE {e \in text : plan.entities[e] # "mask"}

ShouldBlock(plan, text) ==
  IF plan.entities = None THEN plan.pii = "block" /\ text # {}
  ELSE \E e \in text : plan.entities[e] = "block"

\* One pass of the recogniser over a text the plan screens.
ScreenText(guard, plan, text, scan) ==
  LET Out(action, to) == [action |-> action, text |-> to]
  IN CASE ~guard.pii \/ scan = "down"          -> Out("unavailable", text)
       [] guard.pii /\ scan = "garbled"        -> Out("crash", text)
       [] guard.pii /\ scan = "up" ->
            IF ShouldBlock(plan, text) THEN Out("block", text)
            ELSE Out("allow", Processed(plan, text))

(***************************************************************************)
(* Input: personal data first, then prompt injection.                      *)
(***************************************************************************)

\* `shown` is the text the classifier's provider received, and `paid` what it
\* charged, which may differ from the cost the result carries.
InspectInput(guard, plan, text, image, scan, verdict) ==
  LET Out(action, to, cost, paid, shown) ==
        [action |-> action, text |-> to, cost |-> cost, paid |-> paid, shown |-> shown]
      Without(action, to) == Out(action, to, 0, 0, None)
      screened == ScreenText(guard, plan, text, scan)
      Classify(own, copy) ==
        CASE guard.classifier = None -> Without("unavailable", own)
          [] OTHER ->
        CASE verdict = "heuristic" -> Without("block", own)
          [] verdict = "outage"    -> Out("unavailable", own, 0, 0, copy)
          [] verdict = "ambiguous" -> Out("unavailable", own, 0, ClassifierCost, copy)
          [] verdict = "injection" -> Out("block", own, ClassifierCost, ClassifierCost, copy)
          [] verdict = "safe"      -> Out("allow", own, ClassifierCost, ClassifierCost, copy)
  IN CASE plan.pii # "off" /\ ~guard.pii -> Without("unavailable", text)
       [] OTHER ->
     CASE image /\ (plan.injection = "block" \/ (plan.pii = "block" /\ plan.scope # "output")) ->
            Without("block", text)
       [] OTHER ->
     CASE OnInput(plan) /\ screened.action # "allow" -> Without(screened.action, text)
       [] OnInput(plan) /\ screened.action = "allow" ->
            IF plan.injection = "block" THEN Classify(screened.text, screened.text)
            ELSE Without("allow", screened.text)
       [] ~OnInput(plan) /\ plan.injection # "block" -> Without("allow", text)
       [] ~OnInput(plan) /\ plan.injection = "block" ->
            \* The classifier gets a masked copy of a text that is not masked.
            IF plan.pii = "off" \/ guard.classifier = None THEN Classify(text, text)
            ELSE IF scan = "up" THEN Classify(text, Processed(plan, text))
            ELSE Without(screened.action, text)

(***************************************************************************)
(* Output: personal data only.                                             *)
(***************************************************************************)

InspectOutput(guard, plan, text, scan) ==
  IF OnOutput(plan) THEN ScreenText(guard, plan, text, scan)
  ELSE [action |-> "allow", text |-> text]

\* A structured answer is screened value by value, and a guard that cannot do
\* that fails closed.
MaskStructuredOutput(guard, plan, text, scan) ==
  IF OnOutput(plan) /\ ~guard.batch THEN [action |-> "unavailable", text |-> text]
  ELSE InspectOutput(guard, plan, text, scan)

(***************************************************************************)
(* Grounding.  An answer of the model is [found, cites, numbers, text]:    *)
(* whether it claims to have found one, what its citations are, whether    *)
(* its numbers occur in the context, and the personal data it holds.       *)
(***************************************************************************)

Citations == {"exact", "wrong_page", "fabricated", "too_short"}

\* Every citation that counts must be found in one passage, with the metadata
\* the feature asks for; anything else is answered with the fixed refusal.
VerifyGrounding(answer, citesPages) ==
  LET counted == answer.cites \ {"too_short"}
      good    == IF citesPages THEN {"exact"} ELSE {"exact", "wrong_page"}
  IN answer.found /\ counted # {} /\ counted \subseteq good /\ answer.numbers
=============================================================================
