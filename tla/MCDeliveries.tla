---------------------------- MODULE MCDeliveries ----------------------------
(***************************************************************************)
(* Two replicas.  A behaviour meets one of eight workloads: one call or    *)
(* two that raise the alert of one month; usage of a customer a checkout   *)
(* links; the subscription events of one customer, two of them in the same *)
(* second, and the same around a checkout that sets its type; checkouts    *)
(* with and without a tenant, one before its funds cleared; checkouts of   *)
(* no customer, no user, another currency and no amount; and an operator   *)
(* who uses one idempotency key for two tenants, naming the customer for   *)
(* one, while records of processed events are pruned.                      *)
(***************************************************************************)
EXTENDS Deliveries

CONSTANTS c1, c2, r1, j1, j2, h1, h2, may, acme, own, pro, team, free, none

Event(id, kind, created) ==
  [id |-> id, kind |-> kind, created |-> created, tenant |-> none, user |-> TRUE, paid |-> TRUE,
   amount |-> "usd", customer |-> TRUE, type |-> none, active |-> FALSE]

Checkout == [Event("checkout", "checkout", 1) EXCEPT !.tenant = acme]
Returning == [Event("returning", "checkout", 1) EXCEPT !.type = pro]
Unpaid == [Event("unpaid", "checkout", 1) EXCEPT !.paid = FALSE]
Dropped ==
  {[Event("nobody", "checkout", 1) EXCEPT !.user = FALSE],
   [Event("foreign", "checkout", 1) EXCEPT !.amount = "foreign"],
   [Event("nothing", "checkout", 1) EXCEPT !.amount = "none"]}
Guest == [Event("guest", "checkout", 1) EXCEPT !.customer = FALSE, !.amount = "credits"]
TopUps == {[Event("key", "admin", 1) EXCEPT !.tenant = t, !.customer = (t = own)] : t \in {acme, own}}
Subscriptions ==
  {[Event("joined", "subscription", 1) EXCEPT !.type = pro, !.active = TRUE],
   Event("bounced", "invoice", 2),
   [Event("resumed", "subscription", 2) EXCEPT !.type = team, !.active = TRUE]}
UnknownPrice == [Event("unknown", "subscription", 3) EXCEPT !.active = TRUE]

MCEvents ==
  {Checkout, Returning, Unpaid, Guest, UnknownPrice}
  \cup Dropped \cup TopUps \cup Subscriptions

Meets(callers, requests, events, handlers, ticks, f) ==
  [callers |-> callers, requests |-> requests, events |-> events, handlers |-> handlers,
   ticks |-> ticks, faults |-> f]

MCWorkloads ==
  {Meets({c1}, {}, {}, {}, Ticks, 2),
   Meets({c1, c2}, {}, {}, {}, Ticks, 1),
   Meets({}, {r1}, {Checkout}, {h1}, Ticks, 1),
   Meets({}, {}, {Checkout} \cup Subscriptions, Handlers, {}, 1),
   Meets({}, {}, {Checkout, Returning} \cup Subscriptions, {h1}, {}, 1),
   Meets({}, {}, {Checkout, Returning, Unpaid, UnknownPrice}, Handlers, {}, 2),
   Meets({}, {}, {Checkout, Guest} \cup Dropped, {h1}, {}, 1),
   Meets({}, {}, {Checkout} \cup TopUps, Handlers, {j1}, 1)}
==============================================================================
