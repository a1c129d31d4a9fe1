-------------------------------- MODULE Holds --------------------------------
(***************************************************************************)
(* What the budget ledgers share: requests that hold money before their    *)
(* call is made, the ends of a request, the outcome of a database          *)
(* transaction, and sums of holds.                                         *)
(*                                                                         *)
(* The sum of a natural-valued function over a finite set is defined as a  *)
(* cardinality: every x contributes f[x] units <<x, 1>> .. <<x, f[x]>>.    *)
(* It says what a fold says, and the provers can reason about it from the  *)
(* library's facts on finite sets, with no induction.                      *)
(***************************************************************************)
EXTENDS Integers, FiniteSets

CONSTANTS
    Requests,   \* gateway requests
    Est,        \* Est[r]: what r holds for its primary model, safety spend included
    Safety,     \* Safety[r]: classifier spend made before the reservation
    Actual,     \* Actual[r]: what a delivered call may cost, safety included
    Slow,       \* requests that may outlive RESERVATION_STALE_MS
    DbFaults    \* the transaction faults that may happen

ASSUME RequestsFinite == IsFiniteSet(Requests)
ASSUME HoldAmounts ==
    /\ Est \in [Requests -> Nat]
    /\ Safety \in [Requests -> Nat]
    /\ Actual \in [Requests -> SUBSET Nat]
ASSUME HoldFaults == Slow \subseteq Requests /\ DbFaults \subseteq {"abort", "lost"}

(* "abort": nothing happened, the caller sees an error; "lost": it         *)
(* committed, the caller sees an error.                                    *)
Results      == {"ok"} \cup DbFaults
Committed(x) == x # "abort"
Failed(x)    == x # "ok"

Ended == {"done", "settled", "failed", "crashed"}

(* GREATEST(n - m, 0).                                                     *)
Less(n, m) == IF n >= m THEN n - m ELSE 0

UnitsOf(x, n) == {x} \X (1 .. n)
Units(S, f)   == UNION {UnitsOf(x, f[x]) : x \in S}
Total(S, f)   == Cardinality(Units(S, f))
=============================================================================
