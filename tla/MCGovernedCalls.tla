--------------------------- MODULE MCGovernedCalls ---------------------------
(***************************************************************************)
(* Small instances of GovernedCalls: a few configurations that differ in   *)
(* the safety plan, the billing mode and the route, each met by every      *)
(* surface.                                                                *)
(***************************************************************************)
EXTENDS GovernedCalls

MCProviderOf == [mini |-> "acme", large |-> "acme", twin |-> "zeta", judge |-> "zeta",
                 desk |-> "local"]
MCModels == DOMAIN MCProviderOf
MCPrice  == [mini |-> 1, large |-> 2, twin |-> 2, judge |-> 1, desk |-> 0]

Unset == [preset |-> None, pii |-> None, scope |-> None, injection |-> None,
          grounding |-> None]
Kinds(email, card) == [mode |-> "mask", entities |-> [email |-> email, card |-> card]]

\* <<global, feature>> safety settings.
Safeties == <<
  <<[Unset EXCEPT !.preset = "dev"], Unset>>,
  <<[Unset EXCEPT !.preset = "balanced"], Unset>>,
  <<[Unset EXCEPT !.preset = "dev", !.pii = Kinds("allow", "mask"), !.scope = "input"],
    [Unset EXCEPT !.preset = "strict"]>>,
  <<[Unset EXCEPT !.preset = "dev"],
    [Unset EXCEPT !.pii = Kinds("mask", "block"), !.scope = "output", !.injection = "block"]>>,
  <<[Unset EXCEPT !.preset = "dev"], [Unset EXCEPT !.pii = Kinds("allow", "mask")]>>,
  <<[Unset EXCEPT !.preset = "balanced", !.grounding = "off"],
    [Unset EXCEPT !.grounding = "strict"]>> >>

Billings == {[mode |-> m, meter |-> b] :
               m \in {"internal_only", "metered", "hybrid", "credits_only"}, b \in BOOLEAN}

\* The fallback, what the data class of the feature approves, the classifier,
\* how far the month's budget is used up, the classes of the user's type and
\* the class the caller asks for.
Route(fallback, providers, classes, judge, used, permitted, class) ==
  [fallback |-> fallback, providers |-> providers, classes |-> classes, judge |-> judge,
   used |-> used, permitted |-> permitted, class |-> class]

Both == {"cheap", "premium"}

Routes == <<
  Route("large", None,     None,        "judge", 0,   Both,        None),
  Route("twin",  {"acme"}, None,        "desk",  0,   Both,        None),
  Route(None,    None,     None,        "judge", 90,  Both,        None),
  Route("twin",  {"acme"}, None,        "judge", 0,   Both,        None),
  Route("large", None,     None,        "judge", 90,  {"premium"}, None),
  Route(None,    {"acme"}, {"premium"}, "desk",  90,  Both,        None),
  Route(None,    None,     None,        "judge", 0,   {"premium"}, "cheap"),
  Route(None,    None,     None,        "judge", 0,   Both,        "standard"),
  Route(None,    None,     None,        "judge", 100, {"premium"}, None) >>

Config(settings, billing, route) ==
  [features |-> [ask |-> [class |-> "premium", safety |-> settings[2], citesPages |-> TRUE,
                          dataClass |-> IF route.providers = None THEN None ELSE "secret"]],
   userType |-> "staff",
   models |-> [cheap |-> [primary |-> "mini", fallback |-> None],
               premium |-> [primary |-> "mini", fallback |-> route.fallback]],
   permitted |-> route.permitted, order |-> None, pricing |-> [twin |-> 3],
   subscription |-> {"zeta"}, caps |-> [globalMonthlyUsd |-> 100],
   hardStopPercent |-> 100, degradePercent |-> 80,
   dataClasses |-> [secret |-> [classes |-> route.classes, providers |-> route.providers]],
   safety |-> [preset |-> settings[1].preset, pii |-> settings[1].pii, scope |-> settings[1].scope,
               injection |-> settings[1].injection, grounding |-> settings[1].grounding,
               injectionModel |-> route.judge],
   billing |-> billing]

Requests == <<
  [text |-> {"email", "card"}, declared |-> 1,    size |-> 3, image |-> FALSE, format |-> "json"],
  [text |-> {"email"},         declared |-> None, size |-> 1, image |-> TRUE,  format |-> "text"] >>

Full(request, c, class) ==
  [text |-> request.text, declared |-> request.declared, size |-> request.size,
   image |-> request.image, format |-> request.format, context |-> c,
   feature |-> "ask", userType |-> "staff", class |-> class]

Backend(pii, batch) == [pii |-> pii, batch |-> batch]

\* Which request meets which guard.
Meetings == <<[request |-> Requests[1], guard |-> Backend(TRUE, TRUE)],
              [request |-> Requests[1], guard |-> Backend(TRUE, FALSE)],
              [request |-> Requests[2], guard |-> Backend(TRUE, TRUE)],
              [request |-> Requests[2], guard |-> Backend(FALSE, TRUE)]>>

Surfaces == {"chat", "stream", "hierarchical", "node_stream", "embeddings", "documents"}

Names == {n \in [surface : Surfaces, safety : DOMAIN Safeties, billing : Billings,
                 route : DOMAIN Routes, meeting : DOMAIN Meetings] :
            /\ n.route > 4 => n.safety = 1 /\ n.meeting = 1
            /\ ValidConfig(Config(Safeties[n.safety], n.billing, Routes[n.route]))}

CallOf(n) ==
  LET q == Meetings[n.meeting].request
      g == Meetings[n.meeting].guard
      r == Routes[n.route]
      s == Safeties[n.safety]
  IN [surface |-> n.surface,
      config  |-> Config(s, n.billing, r),
      request |-> Full(q, IF s[2].grounding = None THEN None
                          ELSE [text |-> {"card"}, pages |-> q.format = "json"], r.class),
      usage   |-> [globalMonthlyUsd |-> r.used],
      guard   |-> [pii |-> g.pii, batch |-> g.batch, classifier |-> r.judge],
      reports |-> {None, 2},
      answers |-> {[found |-> TRUE, cites |-> c, numbers |-> TRUE] :
                     c \in {{"exact"}, {"wrong_page"}}}]

MCCalls == {CallOf(n) : n \in Names}
=============================================================================
