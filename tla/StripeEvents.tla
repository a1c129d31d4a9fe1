---------------------------- MODULE StripeEvents ----------------------------
(***************************************************************************)
(* What Stripe's webhooks, and the top-ups of an operator, do to the       *)
(* billing accounts of one buyer.  Stripe delivers an event at least once, *)
(* in any order and to any replica, until it is answered; a handler looks  *)
(* the account up by customer and then writes in one statement or          *)
(* transaction.  An event is a record:                                     *)
(*   id, kind     "checkout", "subscription", "invoice" or "admin"         *)
(*   created      the second Stripe generated it in                        *)
(*   tenant       of the metadata (checkout) or of the operator's key      *)
(*                (admin), None when the metadata has none                 *)
(*   user         a checkout whose metadata names the user                 *)
(*   paid         a checkout whose funds have cleared                      *)
(*   amount       what it credits: "credits" its metadata names, "usd"     *)
(*                paid, a total of a "foreign" currency, or "none"         *)
(*   customer     the event or the operator names the Stripe customer      *)
(*   type         user type a grant or an active subscription's price      *)
(*                stands for, None without one                             *)
(*   active       a subscription that is active or trialing                *)
(***************************************************************************)
EXTENDS Failing, Sequences

CONSTANTS Events, Tenants, Default, Free, Handlers, MaxDeliveries

\* An event has an id of its own, but for the key an operator may use in two
\* tenants.
ASSUME StripeConstants ==
  /\ MaxDeliveries \in Nat
  /\ None \notin Events /\ None \notin Tenants /\ Default \in Tenants
  /\ \A e \in Events : /\ e.created \in Nat \ {0} /\ e.tenant \in Tenants \cup {None}
                        /\ e.customer \in BOOLEAN
  /\ \A e, f \in Events :
       e.id = f.id /\ (e.kind = "admin" /\ f.kind = "admin" => e.tenant = f.tenant) => e = f

VARIABLES
  account,   \* billing_accounts of the buyer, by tenant
  processed, \* stripe_processed_events
  handler,   \* webhook requests being handled
  delivered, \* how often each event was delivered
  acked,     \* events answered with 200
  grants,    \* the tenants each event was credited to
  seen,      \* subscription events that reached the account's UPDATE
  bought     \* accounts whose user type a checkout or an operator set last

stripeVars == <<account, processed, handler, delivered, acked, grants, seen, bought>>

Idle == [event |-> None, at |-> "idle", tenant |-> None]

StripeInit ==
  /\ account = [t \in Tenants |-> [exists |-> FALSE, linked |-> FALSE, type |-> None, last |-> 0]]
  /\ processed = {}
  /\ handler = [h \in Handlers |-> Idle]
  /\ delivered = [e \in Events |-> 0]
  /\ acked = {}
  /\ grants = [e \in Events |-> <<>>]
  /\ seen = [t \in Tenants |-> {}]
  /\ bought = {}

Linked == \E t \in Tenants : account[t].linked

IsDowngrade(e) == e.kind = "invoice" \/ (e.kind = "subscription" /\ ~e.active)
IsGrant(e) == e.kind \in {"checkout", "admin"}

\* The wallet is in USD: what is of no user, of another currency or of no amount
\* is answered and dropped.  An unpaid checkout is left for the event that
\* follows when its funds clear.
Creditable(e) == IsGrant(e) /\ e.user /\ e.paid /\ e.amount \in {"credits", "usd"}

\* An idempotency key of an operator counts for one user of one tenant.
DedupId(e) == IF e.kind = "admin" THEN <<e.tenant, e.id>> ELSE <<e.id>>

(***************************************************************************)
(* Handling.                                                               *)
(***************************************************************************)
Receive(h, e) ==
  /\ handler[h].at = "idle" /\ delivered[e] < MaxDeliveries
  /\ delivered' = [delivered EXCEPT ![e] = @ + 1]
  /\ handler' = [handler EXCEPT ![h] = [event |-> e, at |-> "lookup", tenant |-> None]]
  /\ NoFault
  /\ UNCHANGED <<account, processed, acked, grants, seen, bought>>

Answer(h) == /\ handler' = [handler EXCEPT ![h] = Idle]
             /\ acked' = acked \cup {handler[h].event}

Proceed(h, tenant) ==
  /\ handler' = [handler EXCEPT ![h].at = "write", ![h].tenant = tenant]
  /\ UNCHANGED acked

\* The tenant of a grant is the one it names, else the one the customer has an
\* account in, else the default.
LookupGrant(h) ==
  LET e == handler[h].event IN
  /\ handler[h].at = "lookup" /\ IsGrant(e)
  /\ IF ~Creditable(e) THEN Answer(h)
     ELSE Proceed(h, IF e.tenant # None THEN e.tenant
                     ELSE IF e.customer /\ Linked THEN CHOOSE t \in Tenants : account[t].linked
                     ELSE Default)
  /\ NoFault
  /\ UNCHANGED <<account, processed, delivered, grants, seen, bought>>

\* An event of a customer without an account, or of a price without a plan, is
\* answered and dropped.
LookupSubscription(h) ==
  LET e == handler[h].event IN
  /\ handler[h].at = "lookup" /\ ~IsGrant(e)
  /\ IF e.customer /\ Linked /\ (IsDowngrade(e) \/ e.type # None)
       THEN Proceed(h, CHOOSE t \in Tenants : account[t].linked)
       ELSE Answer(h)
  /\ NoFault
  /\ UNCHANGED <<account, processed, delivered, grants, seen, bought>>

\* One customer has one account: an INSERT or UPDATE that links a second one
\* violates the unique index.
Unlinkable(e, tenant) ==
  e.customer /\ \E t \in Tenants \ {tenant} : account[t].linked

GrantEffect(e, tenant) ==
  IF DedupId(e) \in processed
    THEN UNCHANGED <<account, processed, grants, bought>>
    ELSE /\ processed' = processed \cup {DedupId(e)}
         /\ grants' = [grants EXCEPT ![e] = Append(@, tenant)]
         /\ account' = [account EXCEPT ![tenant] =
              [exists |-> TRUE,
               linked |-> account[tenant].linked \/ e.customer,
               type |-> IF e.type # None THEN e.type ELSE account[tenant].type,
               last |-> account[tenant].last]]
         /\ bought' = IF e.type # None THEN bought \cup {tenant} ELSE bought

TopUpCredits(h) ==
  LET e == handler[h].event IN
  /\ handler[h].at = "write" /\ IsGrant(e)
  /\ DedupId(e) \in processed \/ ~Unlinkable(e, handler[h].tenant)
  /\ GrantEffect(e, handler[h].tenant)
  /\ Answer(h)
  /\ NoFault
  /\ UNCHANGED <<delivered, seen>>

\* The transaction fails, on the index or for want of an answer, when it may
\* have been committed: the reply is an error, and Stripe delivers again, as the
\* operator may.
Rejected(h) ==
  /\ handler' = [handler EXCEPT ![h] = Idle]
  /\ UNCHANGED <<acked, delivered, seen>>

TopUpConflicts(h) ==
  /\ handler[h].at = "write" /\ IsGrant(handler[h].event)
  /\ DedupId(handler[h].event) \notin processed
  /\ Unlinkable(handler[h].event, handler[h].tenant)
  /\ Rejected(h)
  /\ NoFault
  /\ UNCHANGED <<account, processed, grants, bought>>

TopUpFails(h) ==
  /\ Fault
  /\ handler[h].at = "write" /\ IsGrant(handler[h].event)
  /\ ~Unlinkable(handler[h].event, handler[h].tenant)
  /\ \/ GrantEffect(handler[h].event, handler[h].tenant)
     \/ UNCHANGED <<account, processed, grants, bought>>
  /\ Rejected(h)

\* Mutant: both directions win a tie.
AppliesToTies(e, last) == last <= e.created

\* The guard of the UPDATE: a downgrade wins a tie, an upgrade does not.
Applies(e, last) == IF IsDowngrade(e) THEN last <= e.created ELSE last < e.created

NewType(e) == IF IsDowngrade(e) THEN Free ELSE e.type

ApplyEffect(e, t) ==
  /\ account' = IF Applies(e, account[t].last)
                  THEN [account EXCEPT ![t].type = NewType(e), ![t].last = e.created]
                  ELSE account
  /\ bought' = IF Applies(e, account[t].last) THEN bought \ {t} ELSE bought
  /\ seen' = [seen EXCEPT ![t] = @ \cup {e}]

ApplySubscriptionUserType(h) ==
  /\ handler[h].at = "write" /\ ~IsGrant(handler[h].event)
  /\ ApplyEffect(handler[h].event, handler[h].tenant)
  /\ Answer(h)
  /\ NoFault
  /\ UNCHANGED <<processed, delivered, grants>>

ApplyFails(h) ==
  /\ Fault
  /\ handler[h].at = "write" /\ ~IsGrant(handler[h].event)
  /\ \/ ApplyEffect(handler[h].event, handler[h].tenant)
     \/ UNCHANGED <<account, seen, bought>>
  /\ handler' = [handler EXCEPT ![h] = Idle]
  /\ UNCHANGED <<processed, acked, delivered, grants>>

Handle(h) ==
  \/ LookupGrant(h) \/ LookupSubscription(h) \/ TopUpCredits(h) \/ TopUpConflicts(h)
  \/ TopUpFails(h) \/ ApplySubscriptionUserType(h) \/ ApplyFails(h)

\* Records are kept for longer than Stripe redelivers the event.
Replayable(e) == delivered[e] < MaxDeliveries \/ \E h \in Handlers : handler[h].event = e

CleanupStripeProcessedEvents(old) ==
  /\ \A e \in Events : Replayable(e) => DedupId(e) \notin old
  /\ processed' = processed \ old
  /\ UNCHANGED <<account, handler, delivered, acked, grants, seen, bought>>

(***************************************************************************)
(* Properties.                                                             *)
(***************************************************************************)
StripeTypeOK ==
  /\ account \in [Tenants -> [exists : BOOLEAN, linked : BOOLEAN,
                              type : {None, Free} \cup {e.type : e \in Events}, last : Nat]]
  /\ handler \in [Handlers -> [event : Events \cup {None}, at : {"idle", "lookup", "write"},
                               tenant : Tenants \cup {None}]]
  /\ delivered \in [Events -> 0 .. MaxDeliveries]
  /\ acked \subseteq Events /\ bought \subseteq Tenants
  /\ seen \in [Tenants -> SUBSET Events]

\* A payment is credited at most once however often, and to however many
\* replicas, its event is delivered; never before its funds cleared; and always
\* when the event was answered with 200 (billing/repo.ts topUpCreditsInTransaction),
\* but for the paid checkouts the code drops with that answer: without a user, of
\* another currency, or without an amount (billing/service.ts:334, 377-384, 394).
GrantedOnce ==
  \A e \in Events : /\ Len(grants[e]) <= (IF Creditable(e) THEN 1 ELSE 0)
                    /\ e \in acked /\ Creditable(e) => Len(grants[e]) = 1

\* Whatever the order subscription events are delivered in, and whatever is
\* delivered twice, the account ends with the user type of the newest of them,
\* and with the downgrade where the newest second holds one
\* (billing/repo.ts:84-95).  A checkout or an operator sets it in whatever order
\* it comes, until the next subscription event that applies.
Newest(t) == {e \in seen[t] : \A f \in seen[t] : f.created <= e.created}

NewestPlanWins ==
  \A t \in Tenants \ bought : seen[t] # {} =>
    IF \E e \in Newest(t) : IsDowngrade(e)
      THEN account[t].type = Free
      ELSE account[t].type \in {e.type : e \in Newest(t)}

PaymentsApplyOnce == StripeTypeOK /\ GrantedOnce /\ NewestPlanWins
==============================================================================
