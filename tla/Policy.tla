------------------------------- MODULE Policy -------------------------------
(***************************************************************************)
(* The policy engine (packages/policy-engine/src): a pure function from a  *)
(* configuration, a request and a usage snapshot to a decision.  It keeps  *)
(* no state, so this module has no variables.  A configuration is the      *)
(* value parseConfig returns; names are members of small sets, an amount   *)
(* of money is a number of units, and a price is units per token.          *)
(***************************************************************************)
EXTENDS Naturals, Sequences, FiniteSets, FiniteSetsExt, Functions

CONSTANTS
  None,            \* the value of an absent optional field
  Models,          \* model strings such as openai/gpt-4o
  ProviderOf,      \* the provider slug of each model: the part before the slash
  LocalProviders,  \* slugs that run on the box: local/ and ollama/
  BuiltinPrice,    \* the registry's price; 0 for a subscription provider
  Entities,        \* kinds of personal data; one of them is listed by no policy
  DefaultTokens    \* DEFAULT_INPUT_TOKENS

ASSUME PolicyConstants ==
  /\ DOMAIN ProviderOf = Models
  /\ BuiltinPrice \in [Models -> Nat]
  /\ DefaultTokens \in Nat \ {0}

ClassTiers == <<"cheap", "standard", "premium">>

(***************************************************************************)
(* Safety plan.                                                            *)
(***************************************************************************)

\* One mode for every kind of personal data.
Blanket(mode) == [mode |-> mode, entities |-> None]

\* The values piiSchema accepts, as they are once read.
PiiSettings ==
  [mode : {"off", "mask", "block"},
   entities : {None} \union [Entities -> {"allow", "mask", "block"}]]

\* What a preset stands for when nothing more explicit is written.
PresetDefaults(preset) ==
  CASE preset = "balanced" -> [pii |-> Blanket("mask"), injection |-> "block"]
    [] preset = "strict"   -> [pii |-> Blanket("block"), injection |-> "block"]
    [] OTHER               -> [pii |-> Blanket("off"), injection |-> "off"]

\* `pii` is written as one mode or as a disposition per kind.  The coarse mode
\* of the second form is the strictest thing that can happen.
NormalizePii(pii) ==
  IF pii.entities = None THEN pii
  ELSE [pii EXCEPT !.mode = IF "block" \in Range(pii.entities) THEN "block" ELSE "mask"]

\* The first value of a list of tiers that is present; the last one always is.
FirstOf(tiers) == tiers[Min({i \in DOMAIN tiers : tiers[i] # None})]

\* Most specific first: the feature's setting, the feature's preset, the global
\* setting, the global preset.
ResolveSafetyPlan(config, feature) ==
  LET own == feature.safety
      all == config.safety
      Preset(tier, field) ==
        IF tier.preset = None THEN None ELSE PresetDefaults(tier.preset)[field]
      Setting(field) == FirstOf(<<own[field], Preset(own, field),
                                  all[field], PresetDefaults(all.preset)[field]>>)
      pii == NormalizePii(Setting("pii"))
  IN [pii       |-> pii.mode,
      entities  |-> pii.entities,
      scope     |-> FirstOf(<<own.scope, IF own.preset = None THEN None ELSE "both",
                              all.scope, "both">>),
      injection |-> Setting("injection"),
      grounding |-> FirstOf(<<own.grounding, all.grounding, "off">>)]

\* What happens to one detected entity under a plan.
DispositionFor(plan, e) ==
  IF plan.entities # None THEN plan.entities[e]
  ELSE IF plan.pii = "off" THEN "allow" ELSE plan.pii

OnInput(plan)  == plan.pii # "off" /\ plan.scope # "output"
OnOutput(plan) == plan.pii # "off" /\ plan.scope # "input"

(***************************************************************************)
(* Prices and routing.                                                     *)
(***************************************************************************)

ModelPrice(config, m) ==
  IF m \in DOMAIN config.pricing THEN config.pricing[m] ELSE BuiltinPrice[m]

\* A provider marked `billing: subscription` reserves nothing unless the model
\* has a price of its own.
EstimateForModel(config, m, tokens) ==
  IF m \notin DOMAIN config.pricing /\ ProviderOf[m] \in config.subscription
  THEN 0 ELSE ModelPrice(config, m) * tokens

ResolveModel(config, class, useFallback) ==
  LET c == config.models[class]
  IN IF useFallback /\ c.fallback # None THEN c.fallback ELSE c.primary

\* The nearest cheaper class that is defined and permitted, or None.
NextPermittedCheaperClass(current, permitted, config) ==
  LET order == IF config.order = None THEN ClassTiers ELSE config.order
      at    == {i \in DOMAIN order : order[i] = current}
      below == {j \in DOMAIN order :
                  /\ at # {} /\ j < Min(at)
                  /\ order[j] \in permitted \cap DOMAIN config.models}
  IN IF below = {} THEN None ELSE order[Max(below)]

\* A data class may restrict the model classes and the providers.
DataAllows(config, feature, class, provider) ==
  feature.dataClass # None =>
    LET dc == config.dataClasses[feature.dataClass]
    IN /\ dc.classes # None => class \in dc.classes
       /\ dc.providers # None => provider \in dc.providers

(***************************************************************************)
(* evaluateAiRequest.  `usage` holds, per gate, what is used and reserved. *)
(***************************************************************************)

\* The cap of each gate that is configured.  A global dollar cap of zero is
\* off, and the monthly one is enforced at its hard stop.
GateCaps(config) ==
  LET on == {g \in DOMAIN config.caps :
               g \in {"globalMonthlyUsd", "globalDailyUsd"} => config.caps[g] > 0}
  IN [g \in on |-> IF g = "globalMonthlyUsd"
                   THEN (config.caps[g] * config.hardStopPercent) \div 100
                   ELSE config.caps[g]]

\* What one request adds to a gate: a request, tokens, or the estimated cost.
GateNeed(g, estimate, tokens) ==
  CASE g = "dailyRequests" -> 1
    [] g \in {"userDailyTokens", "featureMonthlyTokens", "globalMonthlyTokens"} -> tokens
    [] OTHER -> estimate

Breaches(config, usage, estimate, tokens) ==
  \E g \in DOMAIN GateCaps(config) :
    usage[g] + GateNeed(g, estimate, tokens) > GateCaps(config)[g]

MustDegrade(config, usage) ==
  /\ "globalMonthlyUsd" \in DOMAIN GateCaps(config)
  /\ usage["globalMonthlyUsd"] * 100 >= config.caps["globalMonthlyUsd"] * config.degradePercent

\* The class a request runs in once the budget-aware degrade has been applied.
EffectiveClass(config, requested, usage) ==
  LET cheaper == NextPermittedCheaperClass(requested, config.permitted, config)
  IN IF MustDegrade(config, usage) /\ cheaper # None THEN cheaper ELSE requested

RequestedClass(config, request) ==
  IF request.class # None THEN request.class
  ELSE config.features[request.feature].class

Decision(config, kind, code, class, useFallback, tokens) ==
  LET m == ResolveModel(config, class, useFallback)
  IN [kind |-> kind, code |-> code, class |-> class, model |-> m,
      fallback |-> config.models[class].fallback,
      estimate |-> EstimateForModel(config, m, tokens)]

\* The errors a caller can make are a 400; every policy outcome is a decision.
EvaluateAiRequest(config, request, usage, tokens, forceFallback) ==
  IF \/ request.feature \notin DOMAIN config.features
     \/ request.userType # config.userType
     \/ RequestedClass(config, request) \notin DOMAIN config.models
  THEN [kind |-> "error"]
  ELSE
  LET requested == RequestedClass(config, request)
      feature   == config.features[request.feature]
      class     == EffectiveClass(config, requested, usage)
      model     == ResolveModel(config, class, forceFallback)
      estimate  == EstimateForModel(config, model, tokens)
      Block(code, in) == Decision(config, "block", code, in, FALSE, tokens)
  IN IF ~forceFallback /\ requested \notin config.permitted
     THEN Block("model_class_not_permitted", requested)
     ELSE IF ~DataAllows(config, feature, class, ProviderOf[model])
     THEN Block("data_sensitivity_not_permitted", class)
     ELSE IF forceFallback
     THEN Decision(config, "fallback", None, class, TRUE, tokens)
     ELSE IF Breaches(config, usage, estimate, tokens)
     THEN Block("budget", class)
     ELSE Decision(config, IF class = requested THEN "allow" ELSE "degrade",
                   None, class, FALSE, tokens)

(***************************************************************************)
(* parseConfig: what a configuration must satisfy to be loaded.            *)
(***************************************************************************)

\* Credits and a meter would charge the same usage twice, and metered mode has
\* no other way to bill it.
ValidBilling(b) ==
  /\ b.mode \in {"hybrid", "credits_only", "internal_only"} => ~b.meter
  /\ b.mode = "metered" => b.meter

\* A classifier outside the box sees the text of a feature that blocks
\* injections, so its provider must be one the feature's data class allows.
InjectionModelAllowed(config, feature) ==
  LET p == ProviderOf[config.safety.injectionModel] IN
  \/ feature.dataClass = None
  \/ config.safety.injectionModel = None
  \/ p \in LocalProviders
  \/ config.dataClasses[feature.dataClass].providers = None
  \/ ResolveSafetyPlan(config, feature).injection # "block"
  \/ p \in config.dataClasses[feature.dataClass].providers

\* validateRefs: every name a configuration uses is defined in it.
ValidConfig(config) ==
  LET classes == DOMAIN config.models IN
  /\ \A f \in Range(config.features) :
       /\ f.class \in classes
       /\ f.dataClass # None => f.dataClass \in DOMAIN config.dataClasses
       /\ InjectionModelAllowed(config, f)
  /\ config.permitted \subseteq classes
  /\ config.order # None => Range(config.order) \subseteq classes
  /\ \A d \in Range(config.dataClasses) : d.classes # None => d.classes \subseteq classes
  /\ ValidBilling(config.billing)
=============================================================================
