-------------------------- MODULE FlatBudgetProofs --------------------------
(***************************************************************************)
(* Proofs about the flat budget ledger, for any requests, rows, caps and   *)
(* costs, with crashes, transaction faults and a sweep that may race live  *)
(* requests.                                                               *)
(***************************************************************************)
EXTENDS FlatBudget, WeightLemmas

-----------------------------------------------------------------------------
(* The amounts of one request are natural numbers.                         *)
LEMMA AmountType ==
    ASSUME NEW r \in Requests
    PROVE  Est[r] \in Nat /\ FbEst[r] \in Nat /\ Safety[r] \in Nat
  BY CostAssumption, HoldAmounts

(* Every state is well typed.                                              *)
THEOREM TypeCorrect == Spec => []TypeOK
<1>1. Init => TypeOK
  BY CostAssumption, HoldAmounts DEF Init, TypeOK, PC, Waiting, Ended
<1>2. TypeOK /\ [Next]_vars => TypeOK'
  <2> SUFFICES ASSUME TypeOK, [Next]_vars PROVE TypeOK'
    OBVIOUS
  <2> USE DEF TypeOK, Goto, PC, Waiting, Ended
  <2>1. ASSUME NEW r \in Requests, NEW x \in Results, Reserve(r, x)
        PROVE  TypeOK'
    BY <2>1, AmountType DEF Reserve, Plus, sweep, history
  <2>2. ASSUME NEW r \in Requests, ReserveRejected(r)
        PROVE  TypeOK'
    BY <2>2 DEF ReserveRejected, ledger, lease, sweep, history
  <2>3. ASSUME NEW r \in Requests, NEW x \in IncurResults(r), BookRejectedSafety(r, x)
        PROVE  TypeOK'
    BY <2>3, AmountType DEF BookRejectedSafety, Incur, Plus, lease, sweep
  <2>4. ASSUME NEW r \in Requests, NEW x \in Actual[r], Deliver(r, x)
        PROVE  TypeOK'
    BY <2>4, CostAssumption, HoldAmounts DEF Deliver, ledger, lease, sweep
  <2>5. ASSUME NEW r \in Requests, ProviderFails(r)
        PROVE  TypeOK'
    BY <2>5 DEF ProviderFails, ledger, lease, sweep, history
  <2>6. ASSUME NEW r \in Requests, FallbackBlocked(r)
        PROVE  TypeOK'
    BY <2>6 DEF FallbackBlocked, ledger, lease, sweep, history
  <2>7. ASSUME NEW r \in Requests, FallbackWithinHold(r)
        PROVE  TypeOK'
    BY <2>7 DEF FallbackWithinHold, ledger, lease, sweep, history
  <2>8. ASSUME NEW r \in Requests, NEW x \in Results, TopUp(r, x)
        PROVE  TypeOK'
    BY <2>8, AmountType DEF TopUp, Extra, Plus, sweep, history
  <2>9. ASSUME NEW r \in Requests, TopUpRejected(r)
        PROVE  TypeOK'
    BY <2>9 DEF TopUpRejected, ledger, lease, sweep, history
  <2>10. ASSUME NEW r \in Requests, NEW x \in Results, Settle(r, x)
        PROVE  TypeOK'
    BY <2>10 DEF Settle, SettleEffect, Plus, Minus, Excess, sweep
  <2>11. ASSUME NEW r \in Requests, NEW x \in IncurResults(r), UnwindIncur(r, x)
        PROVE  TypeOK'
    BY <2>11, AmountType DEF UnwindIncur, Incur, Plus, AfterUnwindError, lease, sweep
  <2>12. ASSUME NEW r \in Requests, NEW x \in Results, UnwindRelease(r, x)
        PROVE  TypeOK'
    BY <2>12 DEF UnwindRelease, ReleaseEffect, Minus, AfterUnwindError, sweep
  <2>13. ASSUME NEW r \in Requests, Crash(r)
        PROVE  TypeOK'
    BY <2>13 DEF Crash, ledger, lease, sweep, history
  <2>14. ASSUME NEW r \in Requests, Age(r)
        PROVE  TypeOK'
    BY <2>14 DEF Age, ledger, sweep, client, history
  <2>15. ASSUME NEW r \in Requests, SweepRelease(r)
        PROVE  TypeOK'
    BY <2>15 DEF SweepRelease, ReleaseEffect, Minus, client
  <2>16. ASSUME NEW r \in Requests, NEW x \in DbFaults, SweepFails(r, x)
        PROVE  TypeOK'
    BY <2>16 DEF SweepFails, ReleaseEffect, Minus, client
  <2>17. ASSUME SweepSelect PROVE TypeOK'
    BY <2>17 DEF SweepSelect, ledger, lease, client, history
  <2>18. CASE UNCHANGED vars
    BY <2>18 DEF vars, ledger, lease, sweep, client, history
  <2>19. QED
    BY <2>1, <2>2, <2>3, <2>4, <2>5, <2>6, <2>7, <2>8, <2>9, <2>10, <2>11,
       <2>12, <2>13, <2>14, <2>15, <2>16, <2>17, <2>18 DEF Next, Step
<1>3. QED
  BY <1>1, <1>2, PTL DEF Spec

-----------------------------------------------------------------------------
(* The lease part of the invariant is preserved by every step.             *)
LEMMA LeaseStep == TypeOK /\ LeaseInv /\ [Next]_vars => LeaseInv'
<1> SUFFICES ASSUME TypeOK, LeaseInv, [Next]_vars PROVE LeaseInv'
  OBVIOUS
<1> USE DEF TypeOK, LeaseInv, SingleUse, FreshUntouched, HoldCovered, SnapCovered,
            Goto, PC, Waiting, Ended
<1>1. ASSUME NEW r \in Requests, NEW x \in Results, Reserve(r, x)
      PROVE  LeaseInv'
  <2>1. SingleUse'
    BY <1>1 DEF Reserve, history
  <2>2. FreshUntouched'
    BY <1>1 DEF Reserve, sweep, history
  <2>3. HoldCovered'
    BY <1>1, AmountType DEF Reserve
  <2>4. SnapCovered'
    BY <1>1 DEF Reserve, sweep
  <2>5. QED
    BY <2>1, <2>2, <2>3, <2>4
<1>2. ASSUME NEW r \in Requests, ReserveRejected(r)
      PROVE  LeaseInv'
  BY <1>2 DEF ReserveRejected, ledger, lease, sweep, history
<1>3. ASSUME NEW r \in Requests, NEW x \in IncurResults(r), BookRejectedSafety(r, x)
      PROVE  LeaseInv'
  BY <1>3 DEF BookRejectedSafety, lease, sweep
<1>4. ASSUME NEW r \in Requests, NEW x \in Actual[r], Deliver(r, x)
      PROVE  LeaseInv'
  BY <1>4 DEF Deliver, ledger, lease, sweep
<1>5. ASSUME NEW r \in Requests, ProviderFails(r)
      PROVE  LeaseInv'
  BY <1>5 DEF ProviderFails, ledger, lease, sweep, history
<1>6. ASSUME NEW r \in Requests, FallbackBlocked(r)
      PROVE  LeaseInv'
  BY <1>6 DEF FallbackBlocked, ledger, lease, sweep, history
<1>7. ASSUME NEW r \in Requests, FallbackWithinHold(r)
      PROVE  LeaseInv'
  BY <1>7 DEF FallbackWithinHold, ledger, lease, sweep, history
<1>8. ASSUME NEW r \in Requests, NEW x \in Results, TopUp(r, x)
      PROVE  LeaseInv'
  <2>1. SingleUse' /\ FreshUntouched'
    BY <1>8 DEF TopUp, sweep, history
  <2>2. HoldCovered'
    BY <1>8, AmountType DEF TopUp, Extra, Committed, Failed
  <2>3. SnapCovered'
    BY <1>8, AmountType DEF TopUp, Extra, sweep
  <2>4. QED
    BY <2>1, <2>2, <2>3
<1>9. ASSUME NEW r \in Requests, TopUpRejected(r)
      PROVE  LeaseInv'
  BY <1>9 DEF TopUpRejected, ledger, lease, sweep, history
<1>10. ASSUME NEW r \in Requests, NEW x \in Results, Settle(r, x)
      PROVE  LeaseInv'
  BY <1>10 DEF Settle, SettleEffect, sweep
<1>11. ASSUME NEW r \in Requests, NEW x \in IncurResults(r), UnwindIncur(r, x)
      PROVE  LeaseInv'
  BY <1>11 DEF UnwindIncur, AfterUnwindError, lease, sweep
<1>12. ASSUME NEW r \in Requests, NEW x \in Results, UnwindRelease(r, x)
      PROVE  LeaseInv'
  <2>1. SingleUse'
    <3>1. booked' = booked /\ leases' \subseteq leases
      BY <1>12 DEF UnwindRelease, ReleaseEffect
    <3>2. CASE r \in leases /\ Committed(x)
      <4>1. leases' = leases \ {r} /\ freed' = [freed EXCEPT ![r] = @ + 1]
        BY <1>12, <3>2 DEF UnwindRelease, ReleaseEffect
      <4>2. QED
        BY <3>1, <3>2, <4>1
    <3>3. CASE ~(r \in leases /\ Committed(x))
      <4>1. freed' = freed
        BY <1>12, <3>3 DEF UnwindRelease, ReleaseEffect
      <4>2. QED
        BY <3>1, <4>1
    <3>4. QED
      BY <3>2, <3>3
  <2>2. FreshUntouched'
    <3>1. \A q \in Requests : pc'[q] = "new" => q # r /\ pc[q] = "new"
      BY <1>12 DEF UnwindRelease, AfterUnwindError
    <3>2. \A q \in Requests : q # r => booked'[q] = booked[q] /\ freed'[q] = freed[q]
      BY <1>12 DEF UnwindRelease, ReleaseEffect
    <3>3. leases' \subseteq leases /\ batch' = batch
      BY <1>12 DEF UnwindRelease, ReleaseEffect, sweep
    <3>4. QED
      BY <3>1, <3>2, <3>3
  <2>3. HoldCovered' /\ SnapCovered'
    BY <1>12 DEF UnwindRelease, ReleaseEffect, sweep
  <2>4. QED
    BY <2>1, <2>2, <2>3
<1>13. ASSUME NEW r \in Requests, Crash(r)
      PROVE  LeaseInv'
  BY <1>13 DEF Crash, ledger, lease, sweep, history
<1>14. ASSUME NEW r \in Requests, Age(r)
      PROVE  LeaseInv'
  BY <1>14 DEF Age, ledger, sweep, client, history
<1>15. ASSUME NEW r \in Requests, SweepRelease(r)
      PROVE  LeaseInv'
  <2>1. SingleUse'
    <3>1. CASE r \in leases
      BY <1>15, <3>1 DEF SweepRelease, ReleaseEffect, client
    <3>2. CASE r \notin leases
      BY <1>15, <3>2 DEF SweepRelease, ReleaseEffect, client
    <3>3. QED
      BY <3>1, <3>2
  <2>2. FreshUntouched'
    BY <1>15 DEF SweepRelease, ReleaseEffect, client
  <2>3. HoldCovered' /\ SnapCovered'
    BY <1>15 DEF SweepRelease, ReleaseEffect, client
  <2>4. QED
    BY <2>1, <2>2, <2>3
<1>16. ASSUME NEW r \in Requests, NEW x \in DbFaults, SweepFails(r, x)
      PROVE  LeaseInv'
  <2>1. SingleUse'
    <3>1. CASE r \in leases
      BY <1>16, <3>1 DEF SweepFails, ReleaseEffect
    <3>2. CASE r \notin leases
      BY <1>16, <3>2 DEF SweepFails, ReleaseEffect
    <3>3. QED
      BY <3>1, <3>2
  <2>2. FreshUntouched'
    BY <1>16 DEF SweepFails, ReleaseEffect, client
  <2>3. HoldCovered' /\ SnapCovered'
    BY <1>16 DEF SweepFails, ReleaseEffect, client
  <2>4. QED
    BY <2>1, <2>2, <2>3
<1>17. ASSUME SweepSelect PROVE LeaseInv'
  BY <1>17 DEF SweepSelect, ledger, lease, client, history
<1>18. CASE UNCHANGED vars
  BY <1>18 DEF vars, ledger, lease, sweep, client, history
<1>19. QED
  BY <1>1, <1>2, <1>3, <1>4, <1>5, <1>6, <1>7, <1>8, <1>9, <1>10, <1>11,
     <1>12, <1>13, <1>14, <1>15, <1>16, <1>17, <1>18 DEF Next, Step

(* A lease is consumed at most once, by whoever comes first.               *)
THEOREM LeasesAreSingleUse == Spec => []SingleUse
<1>1. Init => LeaseInv
  BY DEF Init, LeaseInv, SingleUse, FreshUntouched, HoldCovered, SnapCovered
<1>2. Spec => []LeaseInv
  BY <1>1, LeaseStep, TypeCorrect, PTL DEF Spec
<1>3. LeaseInv => SingleUse
  BY DEF LeaseInv
<1>4. QED
  BY <1>2, <1>3, PTL

-----------------------------------------------------------------------------
(* What the leases of a row add up to, and how each ledger statement moves *)
(* the sum.                                                                *)
LEMMA HoldersType ==
    ASSUME TypeOK, NEW c
    PROVE  /\ IsFiniteSet(Holders(c))
           /\ \A y \in Holders(c) : leaseEst[y] \in Nat
           /\ Held(c) \in Nat
<1>1. Holders(c) \in SUBSET Requests
  BY DEF TypeOK, Holders
<1>2. IsFiniteSet(Holders(c))
  BY <1>1, RequestsFinite, FS_Subset
<1>3. \A y \in Holders(c) : leaseEst[y] \in Nat
  BY <1>1 DEF TypeOK
<1>4. QED
  BY <1>2, <1>3, UnitsFinite DEF Held

LEMMA HeldSame ==
    ASSUME UNCHANGED <<leases, leaseEst>>, NEW c
    PROVE  Held(c)' = Held(c)
  BY DEF Held, Holders

(* Consuming the lease of r takes its whole estimate off every row of r.   *)
LEMMA ConsumeHeld ==
    ASSUME TypeOK, NEW r \in leases, leases' = leases \ {r}, leaseEst' = leaseEst,
           NEW c \in Counters
    PROVE  /\ c \in Rows[r] => /\ Held(c)' = Held(c) - leaseEst[r]
                               /\ leaseEst[r] <= Held(c)
           /\ c \notin Rows[r] => Held(c)' = Held(c)
<1>1. CASE c \in Rows[r]
  <2>1. Holders(c)' = Holders(c) \ {r} /\ r \in Holders(c)
    BY <1>1 DEF Holders
  <2>2. /\ Total(Holders(c) \ {r}, leaseEst) = Total(Holders(c), leaseEst) - leaseEst[r]
        /\ Total(Holders(c), leaseEst) >= leaseEst[r]
    BY <2>1, HoldersType, TotalRemove
  <2>3. Held(c)' = Total(Holders(c) \ {r}, leaseEst)
    BY <2>1 DEF Held
  <2>4. leaseEst[r] \in Nat /\ Held(c) \in Nat
    BY HoldersType DEF TypeOK
  <2>5. QED
    BY <1>1, <2>2, <2>3, <2>4 DEF Held
<1>2. CASE c \notin Rows[r]
  <2>1. Holders(c)' = Holders(c)
    BY <1>2 DEF Holders
  <2>2. QED
    BY <1>2, <2>1 DEF Held
<1>3. QED
  BY <1>1, <1>2

(* A new lease of n adds n to every row of r.                              *)
LEMMA GrantHeld ==
    ASSUME TypeOK, NEW r \in Requests, r \notin leases, NEW n \in Nat,
           leases' = leases \cup {r}, leaseEst' = [leaseEst EXCEPT ![r] = n],
           NEW c \in Counters
    PROVE  Held(c)' = IF c \in Rows[r] THEN Held(c) + n ELSE Held(c)
<1>1. \A y \in Holders(c) : leaseEst'[y] = leaseEst[y]
  BY DEF Holders, TypeOK
<1>2. Total(Holders(c), leaseEst') = Total(Holders(c), leaseEst)
  BY <1>1, TotalSame
<1>3. CASE c \in Rows[r]
  <2>1. Holders(c)' = Holders(c) \cup {r} /\ r \notin Holders(c)
    BY <1>3 DEF Holders
  <2>2. leaseEst'[r] = n
    BY DEF TypeOK
  <2>3. \A y \in Holders(c) \cup {r} : leaseEst'[y] \in Nat
    BY <1>1, <2>2, HoldersType
  <2>4. Total(Holders(c) \cup {r}, leaseEst') = Total(Holders(c), leaseEst') + n
    <3> DEFINE S == Holders(c)
               f == leaseEst'
    <3>1. IsFiniteSet(S) /\ r \notin S /\ \A y \in S \cup {r} : f[y] \in Nat
      BY <2>1, <2>3, HoldersType
    <3> HIDE DEF S, f
    <3>2. Total(S \cup {r}, f) = Total(S, f) + f[r]
      BY <3>1, TotalAdd
    <3> QED  BY <2>2, <3>2 DEF S, f
  <2>5. QED
    BY <1>2, <1>3, <2>1, <2>4 DEF Held
<1>4. CASE c \notin Rows[r]
  <2>1. Holders(c)' = Holders(c)
    BY <1>4 DEF Holders
  <2>2. QED
    BY <1>2, <1>4, <2>1 DEF Held
<1>5. QED
  BY <1>3, <1>4

(* Raising the lease of r by n adds n to every row of r.                   *)
LEMMA RaiseHeld ==
    ASSUME TypeOK, NEW r \in leases, NEW n \in Nat,
           leases' = leases, leaseEst' = [leaseEst EXCEPT ![r] = @ + n],
           NEW c \in Counters
    PROVE  Held(c)' = IF c \in Rows[r] THEN Held(c) + n ELSE Held(c)
<1>1. Holders(c)' = Holders(c)
  BY DEF Holders
<1>2. CASE c \in Rows[r]
  <2>1. r \in Holders(c)
    BY <1>2 DEF Holders
  <2>2. /\ \A y \in Holders(c) \ {r} : leaseEst'[y] = leaseEst[y]
        /\ leaseEst'[r] = leaseEst[r] + n
    BY DEF Holders, TypeOK
  <2>3. IsFiniteSet(Holders(c)) /\ \A y \in Holders(c) : leaseEst[y] \in Nat
    BY HoldersType
  <2>4. ASSUME NEW S, NEW f, NEW g, IsFiniteSet(S), r \in S, \A y \in S : f[y] \in Nat,
               \A y \in S \ {r} : g[y] = f[y], g[r] = f[r] + n
        PROVE  Total(S, g) = Total(S, f) + n
    BY <2>4, TotalRaise
  <2>5. Total(Holders(c), leaseEst') = Total(Holders(c), leaseEst) + n
    BY <2>1, <2>2, <2>3, <2>4
  <2>6. QED
    BY <1>1, <1>2, <2>5 DEF Held
<1>3. CASE c \notin Rows[r]
  <2>1. \A y \in Holders(c) : leaseEst'[y] = leaseEst[y]
    BY <1>3 DEF Holders, TypeOK
  <2>2. Total(Holders(c), leaseEst') = Total(Holders(c), leaseEst)
    BY <2>1, TotalSame
  <2>3. QED
    BY <1>1, <1>3, <2>2 DEF Held
<1>4. QED
  BY <1>2, <1>3

(* Freeing no more than the consumed lease held keeps every row covered,   *)
(* and GREATEST(reserved_usd - n, 0) never clips.                          *)
LEMMA ConsumeKeepsCover ==
    ASSUME TypeOK, NoDoubleFree, NEW r \in leases,
           NEW n \in Nat, n <= leaseEst[r],
           leases' = leases \ {r}, leaseEst' = leaseEst,
           reserved' = Minus(reserved, Rows[r], n)
    PROVE  /\ NoDoubleFree'
           /\ \A c \in Counters :
                 reserved'[c] = IF c \in Rows[r] THEN reserved[c] - n ELSE reserved[c]
<1> SUFFICES ASSUME NEW c \in Counters
             PROVE  /\ Held(c)' <= reserved'[c]
                    /\ reserved'[c] = IF c \in Rows[r] THEN reserved[c] - n ELSE reserved[c]
  BY DEF NoDoubleFree
<1>1. /\ c \in Rows[r] => Held(c)' = Held(c) - leaseEst[r] /\ leaseEst[r] <= Held(c)
      /\ c \notin Rows[r] => Held(c)' = Held(c)
  BY ConsumeHeld
<1>2. Held(c) <= reserved[c]
  BY DEF NoDoubleFree
<1>3. Held(c) \in Nat /\ reserved[c] \in Nat /\ leaseEst[r] \in Nat
  BY HoldersType DEF TypeOK
<1>4. reserved'[c] = IF c \in Rows[r] THEN reserved[c] - n ELSE reserved[c]
  BY <1>1, <1>2, <1>3 DEF Minus
<1>5. QED
  BY <1>1, <1>2, <1>3, <1>4

-----------------------------------------------------------------------------
MoneyInv == NoDoubleFree /\ CapRespected

(* Steps that leave the money alone, or only book spend without a hold.    *)
LEMMA QuietStep ==
    ASSUME TypeOK, MoneyInv, UNCHANGED <<leases, leaseEst, used, reserved, overrun>>
    PROVE  MoneyInv'
<1>1. \A c \in Counters : Held(c)' = Held(c)
  BY HeldSame
<1>2. QED
  BY <1>1 DEF MoneyInv, NoDoubleFree, CapRespected

LEMMA IncurStep ==
    ASSUME TypeOK, MoneyInv, NEW r \in Requests, Incur(r),
           UNCHANGED <<leases, leaseEst, reserved>>
    PROVE  MoneyInv'
<1>1. NoDoubleFree'
  BY HeldSame DEF MoneyInv, NoDoubleFree
<1>2. ASSUME NEW c \in Counters
      PROVE  (used[c] + reserved[c] <= Cap[c] + overrun[c])'
  <2>1. used[c] + reserved[c] <= Cap[c] + overrun[c]
    BY DEF MoneyInv, CapRespected
  <2>2. /\ used'[c] = IF c \in Rows[r] THEN used[c] + Safety[r] ELSE used[c]
        /\ overrun'[c] = IF c \in Rows[r] THEN overrun[c] + Safety[r] ELSE overrun[c]
        /\ reserved'[c] = reserved[c]
    BY DEF Incur, Plus
  <2>3. /\ used[c] \in Nat /\ reserved[c] \in Nat /\ overrun[c] \in Nat
        /\ Cap[c] \in Nat /\ Safety[r] \in Nat
    BY AmountType, CapAssumption DEF TypeOK
  <2>4. QED
    BY <2>1, <2>2, <2>3
<1>3. QED
  BY <1>1, <1>2 DEF MoneyInv, CapRespected

(* A grant of n, by reserve or top-up: the cap was checked on every row.   *)
LEMMA GrantStep ==
    ASSUME TypeOK, MoneyInv, NEW r \in Requests, NEW n \in Nat,
           \A c \in Rows[r] : used[c] + reserved[c] + n <= Cap[c],
           \A c \in Counters : Held(c)' = IF c \in Rows[r] THEN Held(c) + n ELSE Held(c),
           reserved' = Plus(reserved, Rows[r], n), UNCHANGED <<used, overrun>>
    PROVE  MoneyInv'
<1> SUFFICES ASSUME NEW c \in Counters
             PROVE  /\ Held(c)' <= reserved'[c]
                    /\ used'[c] + reserved'[c] <= Cap[c] + overrun'[c]
  BY DEF MoneyInv, NoDoubleFree, CapRespected
<1>1. Held(c) <= reserved[c] /\ used[c] + reserved[c] <= Cap[c] + overrun[c]
  BY DEF MoneyInv, NoDoubleFree, CapRespected
<1>2. /\ used[c] \in Nat /\ reserved[c] \in Nat /\ overrun[c] \in Nat
      /\ Cap[c] \in Nat /\ Held(c) \in Nat
  BY HoldersType, CapAssumption DEF TypeOK
<1>3. reserved'[c] = IF c \in Rows[r] THEN reserved[c] + n ELSE reserved[c]
  BY DEF Plus
<1>4. CASE c \in Rows[r]
  BY <1>1, <1>2, <1>3, <1>4
<1>5. CASE c \notin Rows[r]
  BY <1>1, <1>2, <1>3, <1>5
<1>6. QED
  BY <1>4, <1>5

(* A settle books the spend and frees the hold of the lease it consumed.   *)
LEMMA SettleStep ==
    ASSUME TypeOK, MoneyInv, LeaseInv, NEW r \in Requests, SettleEffect(r),
           leaseEst' = leaseEst
    PROVE  MoneyInv'
<1>1. CASE r \notin leases
  BY <1>1, QuietStep DEF SettleEffect
<1>2. CASE r \in leases
  <2>1. hold[r] \in Nat /\ spend[r] \in Nat /\ hold[r] <= leaseEst[r]
    BY <1>2 DEF TypeOK, LeaseInv, HoldCovered
  <2>2. /\ leases' = leases \ {r}
        /\ reserved' = Minus(reserved, Rows[r], hold[r])
        /\ used' = Plus(used, Rows[r], spend[r])
        /\ overrun' = Plus(overrun, Rows[r], Excess(spend[r], hold[r]))
    BY <1>2 DEF SettleEffect
  <2>3. /\ NoDoubleFree'
        /\ \A c \in Counters :
              reserved'[c] = IF c \in Rows[r] THEN reserved[c] - hold[r] ELSE reserved[c]
    BY <1>2, <2>1, <2>2, ConsumeKeepsCover DEF MoneyInv
  <2>4. ASSUME NEW c \in Counters
        PROVE  used'[c] + reserved'[c] <= Cap[c] + overrun'[c]
    <3>1. used[c] + reserved[c] <= Cap[c] + overrun[c]
      BY DEF MoneyInv, CapRespected
    <3>2. /\ used[c] \in Nat /\ reserved[c] \in Nat /\ overrun[c] \in Nat /\ Cap[c] \in Nat
      BY CapAssumption DEF TypeOK
    <3>3. Excess(spend[r], hold[r]) \in Nat /\ Excess(spend[r], hold[r]) >= spend[r] - hold[r]
      BY <2>1 DEF Excess
    <3>4. CASE c \in Rows[r]
      <4>1. /\ used'[c] = used[c] + spend[r]
            /\ overrun'[c] = overrun[c] + Excess(spend[r], hold[r])
            /\ reserved'[c] = reserved[c] - hold[r]
        BY <2>2, <2>3, <3>4 DEF Plus
      <4>2. QED
        BY <2>1, <3>1, <3>2, <3>3, <4>1
    <3>5. CASE c \notin Rows[r]
      <4>1. used'[c] = used[c] /\ overrun'[c] = overrun[c] /\ reserved'[c] = reserved[c]
        BY <2>2, <2>3, <3>5 DEF Plus
      <4>2. QED
        BY <3>1, <4>1
    <3>6. QED
      BY <3>4, <3>5
  <2>5. QED
    BY <2>3, <2>4 DEF MoneyInv, CapRespected
<1>3. QED
  BY <1>1, <1>2

(* A release frees at most what the lease it consumed held.                *)
LEMMA ReleaseStep ==
    ASSUME TypeOK, MoneyInv, NEW r \in Requests, NEW n \in Nat,
           r \in leases => n <= leaseEst[r], ReleaseEffect(r, n),
           UNCHANGED <<leaseEst, used, overrun>>
    PROVE  MoneyInv'
<1>1. CASE r \notin leases
  BY <1>1, QuietStep DEF ReleaseEffect
<1>2. CASE r \in leases
  <2>1. leases' = leases \ {r} /\ reserved' = Minus(reserved, Rows[r], n)
    BY <1>2 DEF ReleaseEffect
  <2>2. /\ NoDoubleFree'
        /\ \A c \in Counters :
              reserved'[c] = IF c \in Rows[r] THEN reserved[c] - n ELSE reserved[c]
    BY <1>2, <2>1, ConsumeKeepsCover DEF MoneyInv
  <2>3. ASSUME NEW c \in Counters
        PROVE  used'[c] + reserved'[c] <= Cap[c] + overrun'[c]
    <3>1. /\ used[c] \in Nat /\ reserved[c] \in Nat /\ overrun[c] \in Nat /\ Cap[c] \in Nat
      BY CapAssumption DEF TypeOK
    <3>2. used[c] + reserved[c] <= Cap[c] + overrun[c]
      BY DEF MoneyInv, CapRespected
    <3>3. reserved'[c] = reserved[c] - n \/ reserved'[c] = reserved[c]
      BY <2>2
    <3>4. QED
      BY <3>1, <3>2, <3>3
  <2>4. QED
    BY <2>2, <2>3 DEF MoneyInv, CapRespected
<1>3. QED
  BY <1>1, <1>2

(* The money part of the invariant is preserved by every step.             *)
LEMMA MoneyStep == TypeOK /\ LeaseInv /\ MoneyInv /\ [Next]_vars => MoneyInv'
<1> SUFFICES ASSUME TypeOK, LeaseInv, MoneyInv, [Next]_vars PROVE MoneyInv'
  OBVIOUS
<1>1. ASSUME NEW r \in Requests, ReserveRejected(r)
      PROVE  MoneyInv'
  BY <1>1, QuietStep DEF ReserveRejected, ledger, lease, history
<1>2. ASSUME NEW r \in Requests, ProviderFails(r)
      PROVE  MoneyInv'
  BY <1>2, QuietStep DEF ProviderFails, ledger, lease, history
<1>3. ASSUME NEW r \in Requests, FallbackBlocked(r)
      PROVE  MoneyInv'
  BY <1>3, QuietStep DEF FallbackBlocked, ledger, lease, history
<1>4. ASSUME NEW r \in Requests, FallbackWithinHold(r)
      PROVE  MoneyInv'
  BY <1>4, QuietStep DEF FallbackWithinHold, ledger, lease, history
<1>5. ASSUME NEW r \in Requests, TopUpRejected(r)
      PROVE  MoneyInv'
  BY <1>5, QuietStep DEF TopUpRejected, ledger, lease, history
<1>6. ASSUME NEW r \in Requests, Crash(r)
      PROVE  MoneyInv'
  BY <1>6, QuietStep DEF Crash, ledger, lease, history
<1>7. ASSUME NEW r \in Requests, Age(r)
      PROVE  MoneyInv'
  BY <1>7, QuietStep DEF Age, ledger, history
<1>8. ASSUME NEW r \in Requests, NEW x \in Actual[r], Deliver(r, x)
      PROVE  MoneyInv'
  BY <1>8, QuietStep DEF Deliver, ledger, lease
<1>9. ASSUME NEW r \in Requests, NEW x \in IncurResults(r), BookRejectedSafety(r, x)
      PROVE  MoneyInv'
  <2>1. UNCHANGED <<leases, leaseEst, reserved>>
    BY <1>9 DEF BookRejectedSafety, lease
  <2>2. Incur(r) \/ UNCHANGED <<used, overrun>>
    BY <1>9 DEF BookRejectedSafety
  <2>3. QED
    BY <2>1, <2>2, IncurStep, QuietStep
<1>10. ASSUME NEW r \in Requests, NEW x \in IncurResults(r), UnwindIncur(r, x)
       PROVE  MoneyInv'
  <2>1. UNCHANGED <<leases, leaseEst, reserved>>
    BY <1>10 DEF UnwindIncur, lease
  <2>2. Incur(r) \/ UNCHANGED <<used, overrun>>
    BY <1>10 DEF UnwindIncur
  <2>3. QED
    BY <2>1, <2>2, IncurStep, QuietStep
<1>11. ASSUME NEW r \in Requests, NEW x \in Results, Reserve(r, x)
       PROVE  MoneyInv'
  <2>1. UNCHANGED <<used, overrun>>
    BY <1>11 DEF Reserve, history
  <2>2. CASE ~Committed(x)
    <3>1. UNCHANGED <<leases, leaseEst, reserved>>
      BY <1>11, <2>2 DEF Reserve
    <3>2. QED
      BY <2>1, <3>1, QuietStep
  <2>3. CASE Committed(x)
    <3>1. /\ leases' = leases \cup {r} /\ leaseEst' = [leaseEst EXCEPT ![r] = Est[r]]
          /\ reserved' = Plus(reserved, Rows[r], Est[r])
          /\ \A c \in Rows[r] : used[c] + reserved[c] + Est[r] <= Cap[c]
      BY <1>11, <2>3 DEF Reserve, Fits
    <3>2. r \notin leases /\ Est[r] \in Nat
      BY <1>11, AmountType DEF Reserve, LeaseInv, FreshUntouched
    <3>3. \A c \in Counters :
             Held(c)' = IF c \in Rows[r] THEN Held(c) + Est[r] ELSE Held(c)
      BY <3>1, <3>2, GrantHeld
    <3>4. QED
      BY <2>1, <3>1, <3>2, <3>3, GrantStep
  <2>4. QED
    BY <2>2, <2>3
<1>12. ASSUME NEW r \in Requests, NEW x \in Results, TopUp(r, x)
       PROVE  MoneyInv'
  <2>1. UNCHANGED <<used, leases, overrun>>
    BY <1>12 DEF TopUp, history
  <2>2. CASE ~Committed(x)
    <3>1. UNCHANGED <<leaseEst, reserved>>
      BY <1>12, <2>2 DEF TopUp
    <3>2. QED
      BY <2>1, <3>1, QuietStep
  <2>3. CASE Committed(x)
    <3>1. /\ r \in leases /\ leaseEst' = [leaseEst EXCEPT ![r] = @ + Extra(r)]
          /\ reserved' = Plus(reserved, Rows[r], Extra(r))
          /\ \A c \in Rows[r] : used[c] + reserved[c] + Extra(r) <= Cap[c]
      BY <1>12, <2>3 DEF TopUp, Fits
    <3>2. Extra(r) \in Nat
      BY <1>12, AmountType DEF TopUp, Extra, TypeOK
    <3>3. \A c \in Counters :
             Held(c)' = IF c \in Rows[r] THEN Held(c) + Extra(r) ELSE Held(c)
      BY <2>1, <3>1, <3>2, RaiseHeld
    <3>4. QED
      BY <2>1, <3>1, <3>2, <3>3, GrantStep
  <2>4. QED
    BY <2>2, <2>3
<1>13. ASSUME NEW r \in Requests, NEW x \in Results, Settle(r, x)
       PROVE  MoneyInv'
  <2>1. UNCHANGED leaseEst
    BY <1>13 DEF Settle
  <2>2. SettleEffect(r) \/ UNCHANGED <<leases, used, reserved, overrun>>
    BY <1>13 DEF Settle
  <2>3. QED
    BY <2>1, <2>2, SettleStep, QuietStep
<1>14. ASSUME NEW r \in Requests, NEW x \in Results, UnwindRelease(r, x)
       PROVE  MoneyInv'
  <2>1. UNCHANGED <<leaseEst, used, overrun>>
    BY <1>14 DEF UnwindRelease
  <2>2. ReleaseEffect(r, hold[r]) \/ UNCHANGED <<leases, reserved>>
    BY <1>14 DEF UnwindRelease
  <2>3. hold[r] \in Nat /\ (r \in leases => hold[r] <= leaseEst[r])
    BY DEF TypeOK, LeaseInv, HoldCovered
  <2>4. QED
    BY <2>1, <2>2, <2>3, ReleaseStep, QuietStep
<1>15. ASSUME NEW r \in Requests, SweepRelease(r)
       PROVE  MoneyInv'
  <2>1. UNCHANGED <<leaseEst, used, overrun>> /\ ReleaseEffect(r, snap[r])
    BY <1>15 DEF SweepRelease
  <2>2. snap[r] \in Nat /\ (r \in leases => snap[r] <= leaseEst[r])
    BY <1>15 DEF SweepRelease, TypeOK, LeaseInv, SnapCovered
  <2>3. QED
    BY <2>1, <2>2, ReleaseStep
<1>16. ASSUME NEW r \in Requests, NEW x \in DbFaults, SweepFails(r, x)
       PROVE  MoneyInv'
  <2>1. UNCHANGED <<leaseEst, used, overrun>>
    BY <1>16 DEF SweepFails
  <2>2. ReleaseEffect(r, snap[r]) \/ UNCHANGED <<leases, reserved>>
    BY <1>16 DEF SweepFails
  <2>3. snap[r] \in Nat /\ (r \in leases => snap[r] <= leaseEst[r])
    BY <1>16 DEF SweepFails, TypeOK, LeaseInv, SnapCovered
  <2>4. QED
    BY <2>1, <2>2, <2>3, ReleaseStep, QuietStep
<1>17. ASSUME SweepSelect PROVE MoneyInv'
  BY <1>17, QuietStep DEF SweepSelect, ledger, lease, history
<1>18. CASE UNCHANGED vars
  BY <1>18, QuietStep DEF vars, ledger, lease, history
<1>19. QED
  BY <1>1, <1>2, <1>3, <1>4, <1>5, <1>6, <1>7, <1>8, <1>9, <1>10, <1>11,
     <1>12, <1>13, <1>14, <1>15, <1>16, <1>17, <1>18 DEF Next, Step

(* Everything together, as an invariant of the specification.              *)
LEMMA LedgerInvariant == Spec => [](LeaseInv /\ MoneyInv)
<1>1. Init => LeaseInv
  BY DEF Init, LeaseInv, SingleUse, FreshUntouched, HoldCovered, SnapCovered
<1>2. Init => MoneyInv
  <2> SUFFICES ASSUME Init, NEW c \in Counters
               PROVE  Held(c) <= reserved[c] /\ used[c] + reserved[c] <= Cap[c] + overrun[c]
    BY DEF MoneyInv, NoDoubleFree, CapRespected
  <2>1. Holders(c) = {}
    BY DEF Init, Holders
  <2>2. Held(c) = 0
    BY <2>1, TotalEmpty DEF Held
  <2>3. QED
    BY <2>2, CapAssumption DEF Init
<1>3. QED
  BY <1>1, <1>2, LeaseStep, MoneyStep, TypeCorrect, PTL DEF Spec

(* No interleaving of settles, releases and sweeps frees money that backs  *)
(* another request's live lease.                                           *)
THEOREM NeverDoubleFrees == Spec => []NoDoubleFree
<1>1. MoneyInv => NoDoubleFree
  BY DEF MoneyInv
<1>2. QED
  BY <1>1, LedgerInvariant, PTL

(* A lease is single-use and what is freed with it is what it held: the    *)
(* two facts together, for any number of requests that race the sweep.     *)
THEOREM LeasesAreSound == Spec => []LeasesSound
<1>1. SingleUse /\ NoDoubleFree => LeasesSound
  BY DEF LeasesSound
<1>2. QED
  BY <1>1, LeasesAreSingleUse, NeverDoubleFrees, PTL

(* Concurrent requests never push a row over its cap by reserving: only    *)
(* spend beyond a hold can.                                                *)
THEOREM CapsHold == Spec => []CapRespected
<1>1. MoneyInv => CapRespected
  BY DEF MoneyInv
<1>2. QED
  BY <1>1, LedgerInvariant, PTL
-----------------------------------------------------------------------------
(* The strengthening under which LedgerExact is inductive: what is known   *)
(* of a request and of its lease by where the request is, and what it has  *)
(* cost and been charged so far.                                           *)
Traced(r) ==
    /\ pc[r] = "new" => leaseEst[r] = 0 /\ r \notin aged
    /\ pc[r] = "held" => leaseEst[r] = Est[r] /\ hold[r] = Est[r]
    /\ r \in batch => r \in aged
    /\ r \in leases \cap batch /\ Steady(r) => snap[r] = leaseEst[r]
Prompt(r) ==
    r \notin Slow =>
        /\ r \in aged => pc[r] \in Ended
        /\ pc[r] \in Waiting \cup {"settling"} => r \in leases
        /\ pc[r] = "resettling" => r \in leases \/ booked[r] = 1
        /\ pc[r] = "settled" => booked[r] = 1
Twice(r) == IF r \in outer THEN Safety[r] ELSE 0
Charged(r) ==
    /\ charge[r] <= cost[r] + Twice(r)
    /\ pc[r] \in Waiting \cup {"new", "rejected"} => charge[r] = 0
    /\ pc[r] \in Waiting \cup {"new", "rejected", "unwinding", "freeing"} =>
            cost[r] = Safety[r]
    /\ pc[r] \in {"settling", "resettling"} =>
            cost[r] = spend[r] /\ (r \in leases => charge[r] = 0)
    /\ pc[r] = "unwinding" => charge[r] <= Twice(r)

TraceInv  == \A r \in Requests : Traced(r) /\ Prompt(r)
ChargeInv == \A r \in Requests : Charged(r)

(* The trace of a request is kept by every step; in particular no request  *)
(* that lost track of its lease is steady again.                           *)
LEMMA TraceStep ==
    TypeOK /\ LeaseInv /\ TraceInv /\ [Next]_vars =>
        TraceInv' /\ \A q \in Requests : Steady(q)' => Steady(q)
<1> DEFINE Kept == TraceInv' /\ \A q \in Requests : Steady(q)' => Steady(q)
<1> SUFFICES ASSUME TypeOK, LeaseInv, TraceInv, [Next]_vars PROVE Kept
  OBVIOUS
<1> USE DEF TypeOK, TraceInv, Traced, Prompt, Steady, Goto, PC, Waiting, Ended
<1>1. ASSUME NEW r \in Requests, NEW x \in Results, Reserve(r, x) PROVE Kept
  <2>1. ASSUME NEW q \in Requests, q # r
        PROVE  Traced(q)' /\ Prompt(q)' /\ (Steady(q)' => Steady(q))
    BY <1>1, <2>1 DEF Reserve, sweep, history
  <2>2. Traced(r)' /\ Prompt(r)' /\ (Steady(r)' => Steady(r))
    <3>1. r \notin leases /\ r \notin batch /\ r \notin aged /\ leaseEst[r] = 0
      BY <1>1 DEF Reserve, LeaseInv, FreshUntouched
    <3>2. CASE Committed(x)
      BY <1>1, <3>1, <3>2, AmountType DEF Reserve, sweep, history, Failed
    <3>3. CASE ~Committed(x)
      BY <1>1, <3>1, <3>3, AmountType DEF Reserve, sweep, history, Failed, Committed
    <3> QED  BY <3>2, <3>3
  <2> QED  BY <2>1, <2>2
<1>2. ASSUME NEW r \in Requests, ReserveRejected(r) PROVE Kept
  BY <1>2 DEF ReserveRejected, ledger, lease, sweep, history
<1>3. ASSUME NEW r \in Requests, NEW x \in IncurResults(r), BookRejectedSafety(r, x)
      PROVE  Kept
  BY <1>3 DEF BookRejectedSafety, lease, sweep
<1>4. ASSUME NEW r \in Requests, NEW x \in Actual[r], Deliver(r, x) PROVE Kept
  BY <1>4 DEF Deliver, ledger, lease, sweep
<1>5. ASSUME NEW r \in Requests, ProviderFails(r) PROVE Kept
  BY <1>5 DEF ProviderFails, ledger, lease, sweep, history
<1>6. ASSUME NEW r \in Requests, FallbackBlocked(r) PROVE Kept
  BY <1>6 DEF FallbackBlocked, ledger, lease, sweep, history
<1>7. ASSUME NEW r \in Requests, FallbackWithinHold(r) PROVE Kept
  BY <1>7 DEF FallbackWithinHold, ledger, lease, sweep, history
<1>8. ASSUME NEW r \in Requests, NEW x \in Results, TopUp(r, x) PROVE Kept
  <2>1. ASSUME NEW q \in Requests, q # r
        PROVE  Traced(q)' /\ Prompt(q)' /\ (Steady(q)' => Steady(q))
    BY <1>8, <2>1 DEF TopUp, sweep, history
  <2>2. /\ r \in leases /\ pc[r] = "held" /\ Extra(r) \in Nat /\ Extra(r) > 0
        /\ leaseEst[r] = Est[r] /\ hold[r] = Est[r] /\ Est[r] \in Nat
        /\ UNCHANGED <<leases, aged, batch, snap, booked>>
    BY <1>8, AmountType DEF TopUp, Extra, sweep, history
  <2>3. pc'[r] \in {"unwinding", "fallback"}
    BY <1>8 DEF TopUp
  <2>4. \/ leaseEst'[r] = leaseEst[r]
        \/ leaseEst'[r] = Est[r] + Extra(r)
    BY <1>8, <2>2 DEF TopUp
  <2>5. Steady(r)
    BY <2>2
  <2>6. Steady(r)' /\ r \in batch => snap[r] = leaseEst'[r]
    BY <2>2, <2>4, <2>5
  <2>7. Traced(r)' /\ Prompt(r)'
    BY <2>2, <2>3, <2>6
  <2> QED  BY <2>1, <2>5, <2>7
<1>9. ASSUME NEW r \in Requests, TopUpRejected(r) PROVE Kept
  BY <1>9 DEF TopUpRejected, ledger, lease, sweep, history
<1>10. ASSUME NEW r \in Requests, NEW x \in Results, Settle(r, x) PROVE Kept
  <2>1. /\ UNCHANGED <<leaseEst, aged, batch, snap, hold>> /\ leases' \subseteq leases
        /\ \A q \in Requests \ {r} : pc'[q] = pc[q] /\ booked'[q] = booked[q]
                                     /\ (q \in leases <=> q \in leases')
        /\ pc'[r] \in {"settled", "resettling", "failed"}
    BY <1>10 DEF Settle, SettleEffect, sweep
  <2>2. ASSUME r \notin Slow, r \in leases PROVE booked[r] = 0
    BY <2>2 DEF LeaseInv, SingleUse
  <2>3. r \notin Slow => r \notin aged
    BY <1>10 DEF Settle
  <2>4. r \notin Slow => r \in leases \/ booked[r] = 1
    BY <1>10 DEF Settle
  <2>5. CASE Committed(x)
    <3>1. r \notin Slow => booked'[r] = 1
      BY <1>10, <2>2, <2>4, <2>5 DEF Settle, SettleEffect
    <3> QED  BY <2>1, <2>3, <3>1
  <2>6. CASE ~Committed(x)
    <3>1. /\ leases' = leases /\ booked' = booked /\ pc'[r] # "settled"
      BY <1>10, <2>6 DEF Settle, Committed, Failed
    <3> QED  BY <2>1, <2>3, <2>4, <3>1
  <2> QED  BY <2>5, <2>6
<1>11. ASSUME NEW r \in Requests, NEW x \in IncurResults(r), UnwindIncur(r, x)
       PROVE  Kept
  BY <1>11 DEF UnwindIncur, AfterUnwindError, lease, sweep
<1>12. ASSUME NEW r \in Requests, NEW x \in Results, UnwindRelease(r, x) PROVE Kept
  <2>1. /\ UNCHANGED <<leaseEst, aged, batch, snap, hold, booked>> /\ leases' \subseteq leases
        /\ \A q \in Requests \ {r} : pc'[q] = pc[q] /\ (q \in leases <=> q \in leases')
        /\ pc'[r] \in {"done", "failed", "unwinding"} /\ pc[r] = "freeing"
    BY <1>12 DEF UnwindRelease, ReleaseEffect, AfterUnwindError, sweep
  <2> QED  BY <2>1
<1>13. ASSUME NEW r \in Requests, Crash(r) PROVE Kept
  BY <1>13 DEF Crash, ledger, lease, sweep, history
<1>14. ASSUME NEW r \in Requests, Age(r) PROVE Kept
  <2>1. /\ UNCHANGED <<leases, leaseEst, batch, snap, hold, booked, pc>>
        /\ aged' = aged \cup {r} /\ r \in leases /\ (pc[r] \in Ended \/ r \in Slow)
    BY <1>14 DEF Age, ledger, sweep, client, history
  <2>2. pc[r] # "new"
    BY <2>1 DEF LeaseInv, FreshUntouched
  <2> QED  BY <2>1, <2>2
<1>15. ASSUME NEW r \in Requests, SweepRelease(r) \/ \E x \in DbFaults : SweepFails(r, x)
       PROVE  Kept
  <2>1. /\ UNCHANGED <<leaseEst, aged, snap, hold, booked, pc>> /\ leases' \subseteq leases
        /\ batch' \subseteq batch /\ r \in batch
        /\ \A q \in Requests \ {r} : q \in leases <=> q \in leases'
    BY <1>15 DEF SweepRelease, SweepFails, ReleaseEffect, client
  <2>2. r \notin Slow => pc[r] \in Ended
    BY <2>1
  <2> QED  BY <2>1, <2>2
<1>16. ASSUME SweepSelect PROVE Kept
  BY <1>16 DEF SweepSelect, ledger, lease, client, history
<1>17. CASE UNCHANGED vars
  BY <1>17 DEF vars, ledger, lease, sweep, client, history
<1> QED
  BY <1>1, <1>2, <1>3, <1>4, <1>5, <1>6, <1>7, <1>8, <1>9, <1>10, <1>11,
     <1>12, <1>13, <1>14, <1>15, <1>16, <1>17 DEF Next, Step

(* What a request was charged is kept below what it cost by every step.    *)
LEMMA ChargeStep ==
    TypeOK /\ LeaseInv /\ ChargeInv /\ [Next]_vars => ChargeInv'
<1> SUFFICES ASSUME TypeOK, LeaseInv, ChargeInv, [Next]_vars PROVE ChargeInv'
  OBVIOUS
<1> USE DEF TypeOK, ChargeInv, Charged, Twice, Goto, PC, Waiting, Ended
<1>1. ASSUME NEW r \in Requests, NEW x \in Results, Reserve(r, x) PROVE ChargeInv'
  BY <1>1, AmountType DEF Reserve, sweep, history, LeaseInv, FreshUntouched
<1>2. ASSUME NEW r \in Requests, ReserveRejected(r) PROVE ChargeInv'
  BY <1>2 DEF ReserveRejected, ledger, lease, sweep, history
<1>3. ASSUME NEW r \in Requests, NEW x \in IncurResults(r), BookRejectedSafety(r, x)
      PROVE  ChargeInv'
  <2>1. ASSUME NEW q \in Requests, q # r PROVE Charged(q)'
    BY <1>3, <2>1 DEF BookRejectedSafety, Incur, lease
  <2>2. /\ charge[r] = 0 /\ cost[r] = Safety[r] /\ Safety[r] \in Nat /\ cost' = cost
        /\ outer' = outer /\ pc'[r] \in {"failed", "done"}
    BY <1>3, AmountType DEF BookRejectedSafety
  <2>3. charge'[r] <= Safety[r]
    BY <1>3, <2>2 DEF BookRejectedSafety, Incur
  <2>4. charge'[r] \in Nat
    BY <1>3, <2>2 DEF BookRejectedSafety, Incur
  <2>5. Charged(r)'
    BY <2>2, <2>3, <2>4
  <2> QED  BY <2>1, <2>5
<1>4. ASSUME NEW r \in Requests, NEW x \in Actual[r], Deliver(r, x) PROVE ChargeInv'
  <2>1. ASSUME NEW q \in Requests, q # r PROVE Charged(q)'
    BY <1>4, <2>1 DEF Deliver, lease
  <2>2. /\ charge[r] = 0 /\ x \in Nat /\ cost'[r] = x /\ spend'[r] = x /\ pc'[r] = "settling"
        /\ UNCHANGED <<charge, leases, outer>> /\ Twice(r) \in Nat
    BY <1>4, CostAssumption, HoldAmounts, AmountType DEF Deliver, lease
  <2>3. Charged(r)'
    BY <2>2
  <2> QED  BY <2>1, <2>3
<1>5. ASSUME NEW r \in Requests, ProviderFails(r) PROVE ChargeInv'
  BY <1>5, AmountType DEF ProviderFails, ledger, lease, sweep, history
<1>6. ASSUME NEW r \in Requests, FallbackBlocked(r) PROVE ChargeInv'
  BY <1>6, AmountType DEF FallbackBlocked, ledger, lease, sweep, history
<1>7. ASSUME NEW r \in Requests, FallbackWithinHold(r) PROVE ChargeInv'
  BY <1>7 DEF FallbackWithinHold, ledger, lease, sweep, history
<1>8. ASSUME NEW r \in Requests, NEW x \in Results, TopUp(r, x) PROVE ChargeInv'
  BY <1>8, AmountType DEF TopUp, sweep, history
<1>9. ASSUME NEW r \in Requests, TopUpRejected(r) PROVE ChargeInv'
  BY <1>9, AmountType DEF TopUpRejected, ledger, lease, sweep, history
<1>10. ASSUME NEW r \in Requests, NEW x \in Results, Settle(r, x) PROVE ChargeInv'
  <2>1. /\ UNCHANGED <<cost, spend, outer>> /\ leases' \subseteq leases
        /\ \A q \in Requests \ {r} : pc'[q] = pc[q] /\ charge'[q] = charge[q]
        /\ pc'[r] \in {"settled", "resettling", "failed"}
    BY <1>10 DEF Settle, SettleEffect
  <2>2. cost[r] = spend[r] /\ (r \in leases => charge[r] = 0) /\ Twice(r) \in Nat
    BY <1>10, AmountType DEF Settle
  <2>3. /\ charge'[r] \in {charge[r], spend[r]}
        /\ r \in leases' => charge'[r] = charge[r]
    <3>1. CASE r \in leases /\ Committed(x)
      BY <1>10, <2>2, <3>1 DEF Settle, SettleEffect
    <3>2. CASE ~(r \in leases /\ Committed(x))
      BY <1>10, <3>2 DEF Settle, SettleEffect
    <3> QED  BY <3>1, <3>2
  <2>4. Charged(r)'
    BY <2>1, <2>2, <2>3
  <2>5. ASSUME NEW q \in Requests, q # r PROVE Charged(q)'
    BY <2>1, <2>5
  <2> QED  BY <2>4, <2>5
<1>11. ASSUME NEW r \in Requests, NEW x \in IncurResults(r), UnwindIncur(r, x)
       PROVE  ChargeInv'
  <2>1. ASSUME NEW q \in Requests, q # r PROVE Charged(q)'
    BY <1>11, <2>1 DEF UnwindIncur, Incur, AfterUnwindError, lease
  <2>2. /\ UNCHANGED cost /\ cost[r] = Safety[r] /\ Safety[r] \in Nat
        /\ charge[r] <= Twice(r)
    BY <1>11, AmountType DEF UnwindIncur
  <2>3. charge'[r] <= charge[r] + Safety[r] /\ charge'[r] \in Nat
    BY <1>11, <2>2 DEF UnwindIncur, Incur
  <2>4. ASSUME Failed(x) PROVE Charged(r)'
    <3>1. /\ outer' = outer \cup {r}
          /\ pc'[r] = IF r \in outer THEN "failed" ELSE "unwinding"
      BY <1>11, <2>4 DEF UnwindIncur, AfterUnwindError
    <3>2. Twice(r)' = Safety[r] /\ (r \notin outer => charge'[r] <= Safety[r])
      BY <2>2, <2>3, <3>1
    <3> QED  BY <2>2, <2>3, <3>1, <3>2
  <2>5. ASSUME ~Failed(x) PROVE Charged(r)'
    <3>1. outer' = outer /\ pc'[r] = "freeing"
      BY <1>11, <2>5 DEF UnwindIncur
    <3> QED  BY <2>2, <2>3, <3>1
  <2> QED  BY <2>1, <2>4, <2>5
<1>12. ASSUME NEW r \in Requests, NEW x \in Results, UnwindRelease(r, x) PROVE ChargeInv'
  <2>1. ASSUME NEW q \in Requests, q # r PROVE Charged(q)'
    BY <1>12, <2>1 DEF UnwindRelease, ReleaseEffect, AfterUnwindError
  <2>2. /\ UNCHANGED <<cost, charge, spend>> /\ cost[r] = Safety[r] /\ Safety[r] \in Nat
        /\ charge[r] <= cost[r] + Twice(r)
    BY <1>12, AmountType DEF UnwindRelease
  <2>3. \/ outer' = outer /\ pc'[r] = "done"
        \/ outer' = outer \cup {r} /\ pc'[r] = IF r \in outer THEN "failed" ELSE "unwinding"
    BY <1>12 DEF UnwindRelease, AfterUnwindError
  <2>4. charge[r] \in Nat /\ (r \notin outer => charge[r] <= Safety[r])
    BY <2>2
  <2>5. Charged(r)'
    BY <2>2, <2>3, <2>4
  <2> QED  BY <2>1, <2>5
<1>13. ASSUME NEW r \in Requests, Crash(r) PROVE ChargeInv'
  BY <1>13 DEF Crash, ledger, lease, sweep, history
<1>14. ASSUME NEW r \in Requests, Age(r) PROVE ChargeInv'
  BY <1>14 DEF Age, ledger, sweep, client, history
<1>15. ASSUME NEW r \in Requests, SweepRelease(r) \/ \E x \in DbFaults : SweepFails(r, x)
       PROVE  ChargeInv'
  BY <1>15 DEF SweepRelease, SweepFails, ReleaseEffect, client
<1>16. ASSUME SweepSelect PROVE ChargeInv'
  BY <1>16 DEF SweepSelect, ledger, lease, client, history
<1>17. CASE UNCHANGED vars
  BY <1>17 DEF vars, ledger, lease, sweep, client, history
<1> QED
  BY <1>1, <1>2, <1>3, <1>4, <1>5, <1>6, <1>7, <1>8, <1>9, <1>10, <1>11,
     <1>12, <1>13, <1>14, <1>15, <1>16, <1>17 DEF Next, Step

-----------------------------------------------------------------------------
(* The requests that row c counts.                                         *)
Counts(q)  == q \in leases \/ booked[q] > 0
Counted(c) == {q \in Requests : ReqRow[q] = c /\ Counts(q)}

(* There are finitely many of them.                                        *)
LEMMA CountedFinite ==
    \A c : IsFiniteSet(Counted(c)) /\ Cardinality(Counted(c)) \in Nat
  BY RequestsFinite, FS_Subset, FS_CardinalityType DEF Counted

(* A step that counts the same requests and leaves the column alone.       *)
LEMMA CountSame ==
    ASSUME RequestsExact, requests' = requests,
           \A q \in Requests : Counts(q)' <=> Counts(q)
    PROVE  RequestsExact'
<1>1. \A c : Counted(c)' = Counted(c)
  BY DEF Counted
<1> QED  BY <1>1 DEF RequestsExact, Counted, Counts

(* A reservation counts one request more, on its user_daily row only.      *)
LEMMA CountGrant ==
    ASSUME TypeOK, RequestsExact, NEW r \in Requests, ~Counts(r),
           requests' = Plus(requests, {ReqRow[r]}, 1),
           leases' = leases \cup {r}, booked' = booked
    PROVE  RequestsExact'
<1> SUFFICES ASSUME NEW c \in Counters PROVE requests'[c] = Cardinality(Counted(c)')
  BY DEF RequestsExact, Counted, Counts
<1>1. requests[c] = Cardinality(Counted(c))
  BY DEF RequestsExact, Counted, Counts
<1>2. CASE c = ReqRow[r]
  <2>1. Counted(c)' = Counted(c) \cup {r} /\ r \notin Counted(c)
    BY <1>2 DEF Counted, Counts
  <2>2. Cardinality(Counted(c) \cup {r}) = Cardinality(Counted(c)) + 1
    BY <2>1, CountedFinite, FS_AddElement
  <2> QED  BY <1>1, <1>2, <2>1, <2>2 DEF Plus
<1>3. CASE c # ReqRow[r]
  <2>1. Counted(c)' = Counted(c)
    BY <1>3 DEF Counted, Counts
  <2> QED  BY <1>1, <1>3, <2>1 DEF Plus
<1> QED  BY <1>2, <1>3

(* A release that consumed the lease counts one request less.              *)
LEMMA CountRelease ==
    ASSUME TypeOK, RequestsExact, SingleUse, NEW r \in leases,
           requests' = Minus(requests, {ReqRow[r]}, 1),
           leases' = leases \ {r}, booked' = booked
    PROVE  RequestsExact'
<1> SUFFICES ASSUME NEW c \in Counters PROVE requests'[c] = Cardinality(Counted(c)')
  BY DEF RequestsExact, Counted, Counts
<1>1. requests[c] = Cardinality(Counted(c))
  BY DEF RequestsExact, Counted, Counts
<1>2. r \in Requests /\ booked[r] = 0
  BY DEF TypeOK, SingleUse
<1>3. CASE c = ReqRow[r]
  <2>1. Counted(c)' = Counted(c) \ {r} /\ r \in Counted(c)
    BY <1>2, <1>3 DEF Counted, Counts
  <2>2. /\ Cardinality(Counted(c) \ {r}) = Cardinality(Counted(c)) - 1
        /\ Cardinality(Counted(c) \ {r}) \in Nat
    BY <2>1, CountedFinite, FS_RemoveElement, FS_CardinalityType
  <2>3. requests[c] \in Nat /\ requests[c] >= 1
    BY <1>1, <2>2, CountedFinite
  <2> QED  BY <1>1, <1>3, <2>1, <2>2, <2>3 DEF Minus
<1>4. CASE c # ReqRow[r]
  <2>1. Counted(c)' = Counted(c)
    BY <1>2, <1>4 DEF Counted, Counts
  <2> QED  BY <1>1, <1>4, <2>1 DEF Minus
<1> QED  BY <1>3, <1>4

(* requests_used stays the number of requests that count.                  *)
LEMMA CountStep ==
    TypeOK /\ LeaseInv /\ RequestsExact /\ [Next]_vars => RequestsExact'
<1> SUFFICES ASSUME TypeOK, LeaseInv, RequestsExact, [Next]_vars PROVE RequestsExact'
  OBVIOUS
<1> DEFINE Still == UNCHANGED <<requests, leases, booked>>
<1>0. ASSUME Still PROVE RequestsExact'
  BY <1>0, CountSame DEF Counts
<1>1. ASSUME NEW r \in Requests, NEW n, ReleaseEffect(r, n), booked' = booked
      PROVE  RequestsExact'
  <2>1. CASE r \in leases
    BY <1>1, <2>1, CountRelease DEF ReleaseEffect, LeaseInv
  <2>2. CASE r \notin leases
    BY <1>0, <1>1, <2>2 DEF ReleaseEffect
  <2> QED  BY <2>1, <2>2
<1>2. ASSUME NEW r \in Requests, NEW x \in Results, Reserve(r, x) PROVE RequestsExact'
  <2>1. booked' = booked /\ ~Counts(r)
    BY <1>2 DEF Reserve, history, LeaseInv, FreshUntouched, Counts, TypeOK
  <2>2. CASE Committed(x)
    BY <1>2, <2>1, <2>2, CountGrant DEF Reserve
  <2>3. CASE ~Committed(x)
    BY <1>0, <1>2, <2>1, <2>3 DEF Reserve
  <2> QED  BY <2>2, <2>3
<1>3. ASSUME NEW r \in Requests, NEW x \in Results, Settle(r, x) PROVE RequestsExact'
  <2>1. requests' = requests
    BY <1>3 DEF Settle
  <2>2. CASE Committed(x) /\ r \in leases
    <3>1. leases' = leases \ {r} /\ booked' = [booked EXCEPT ![r] = @ + 1]
      BY <1>3, <2>2 DEF Settle, SettleEffect
    <3>2. \A q \in Requests : Counts(q)' <=> Counts(q)
      BY <2>2, <3>1 DEF Counts, TypeOK
    <3> QED  BY <2>1, <3>2, CountSame
  <2>3. CASE ~(Committed(x) /\ r \in leases)
    BY <1>0, <1>3, <2>1, <2>3 DEF Settle, SettleEffect
  <2> QED  BY <2>2, <2>3
<1>4. ASSUME NEW r \in Requests, NEW x \in Results, UnwindRelease(r, x) PROVE RequestsExact'
  <2>1. booked' = booked /\ (ReleaseEffect(r, hold[r]) \/ UNCHANGED <<leases, requests>>)
    BY <1>4 DEF UnwindRelease
  <2> QED  BY <1>0, <1>1, <2>1
<1>5. ASSUME NEW r \in Requests, SweepRelease(r) \/ \E x \in DbFaults : SweepFails(r, x)
      PROVE  RequestsExact'
  <2>1. booked' = booked /\ (ReleaseEffect(r, snap[r]) \/ UNCHANGED <<leases, requests>>)
    BY <1>5 DEF SweepRelease, SweepFails
  <2> QED  BY <1>0, <1>1, <2>1
<1>6. ASSUME NEW r \in Requests,
             \/ ReserveRejected(r) \/ ProviderFails(r) \/ FallbackBlocked(r)
             \/ FallbackWithinHold(r) \/ TopUpRejected(r) \/ Crash(r) \/ Age(r)
             \/ \E x \in Actual[r] : Deliver(r, x)
             \/ \E x \in Results : TopUp(r, x)
             \/ \E x \in IncurResults(r) : BookRejectedSafety(r, x) \/ UnwindIncur(r, x)
      PROVE  RequestsExact'
  <2>1. Still
    BY <1>6 DEF ReserveRejected, ProviderFails, FallbackBlocked, FallbackWithinHold,
       TopUpRejected, Crash, Age, Deliver, TopUp, BookRejectedSafety, UnwindIncur,
       ledger, lease, history
  <2> QED  BY <1>0, <2>1
<1>7. CASE SweepSelect \/ UNCHANGED vars
  BY <1>0, <1>7 DEF SweepSelect, vars, ledger, lease, history
<1> QED
  BY <1>2, <1>3, <1>4, <1>5, <1>6, <1>7 DEF Next, Step

-----------------------------------------------------------------------------
(* What row c owes its live leases is what it reserves, whenever all the   *)
(* requests on c are steady.  A step of r moves both by the same amount on *)
(* every row where r is steady after it.                                   *)
LEMMA HoldsMove ==
    ASSUME TypeOK, TypeOK', HoldsExact, NEW r \in Requests,
           \A q \in Requests : Steady(q)' => Steady(q),
           \A c \in Counters : (c \in Rows[r] => Steady(r)') =>
                reserved'[c] + Held(c) = reserved[c] + Held(c)'
    PROVE  HoldsExact'
<1> SUFFICES ASSUME NEW c \in Counters,
                    \A q \in Requests : c \in Rows[q] => Steady(q)'
             PROVE  reserved'[c] = Held(c)'
  BY DEF HoldsExact
<1>1. reserved[c] = Held(c)
  BY DEF HoldsExact
<1>2. reserved'[c] + Held(c) = reserved[c] + Held(c)'
  OBVIOUS
<1>3. Held(c) \in Nat /\ reserved[c] \in Nat /\ reserved'[c] \in Nat
  BY HoldersType DEF TypeOK
<1>4. Held(c)' \in Nat
  <2>1. Holders(c)' \in SUBSET Requests /\ leaseEst' \in [Requests -> Nat]
    BY DEF TypeOK, Holders
  <2>2. IsFiniteSet(Holders(c)') /\ \A y \in Holders(c)' : leaseEst'[y] \in Nat
    BY <2>1, RequestsFinite, FS_Subset
  <2> HIDE DEF TypeOK
  <2>3. Total(Holders(c)', leaseEst') \in Nat
    <3> DEFINE S == Holders(c)'
               f == leaseEst'
    <3>1. IsFiniteSet(S) /\ \A y \in S : f[y] \in Nat
      BY <2>2
    <3> HIDE DEF S, f
    <3>2. Total(S, f) \in Nat
      BY <3>1, UnitsFinite
    <3> QED  BY <3>2 DEF S, f
  <2> QED  BY <2>3 DEF Held
<1> QED  BY <1>1, <1>2, <1>3, <1>4

(* Consuming a lease frees what it held, unless the request or the sweep   *)
(* had another idea of it: then the request is not steady.                 *)
LEMMA HoldsConsume ==
    ASSUME TypeOK, TypeOK', NoDoubleFree, HoldsExact, NEW r \in leases,
           NEW n \in Nat, n <= leaseEst[r], Steady(r)' => n = leaseEst[r],
           \A q \in Requests : Steady(q)' => Steady(q),
           leases' = leases \ {r}, leaseEst' = leaseEst,
           reserved' = Minus(reserved, Rows[r], n)
    PROVE  HoldsExact'
<1>1. r \in Requests
  BY DEF TypeOK
<1>2. ASSUME NEW c \in Counters, c \in Rows[r] => Steady(r)'
      PROVE  reserved'[c] + Held(c) = reserved[c] + Held(c)'
  <2>1. reserved'[c] = IF c \in Rows[r] THEN reserved[c] - n ELSE reserved[c]
    BY ConsumeKeepsCover
  <2>2. /\ c \in Rows[r] => Held(c)' = Held(c) - leaseEst[r]
        /\ c \notin Rows[r] => Held(c)' = Held(c)
    BY ConsumeHeld
  <2>3. Held(c) \in Nat /\ reserved[c] \in Nat /\ leaseEst[r] \in Nat
    BY <1>1, HoldersType DEF TypeOK
  <2>4. CASE c \in Rows[r]
    BY <1>2, <2>1, <2>2, <2>3, <2>4
  <2>5. CASE c \notin Rows[r]
    BY <2>1, <2>2, <2>3, <2>5
  <2> QED  BY <2>4, <2>5
<1> HIDE DEF TypeOK
<1> QED  BY <1>1, <1>2, HoldsMove

(* A step that touches neither the leases nor what is reserved.            *)
LEMMA HoldsSame ==
    ASSUME HoldsExact, UNCHANGED <<leases, leaseEst, reserved>>,
           \A q \in Requests : Steady(q)' => Steady(q)
    PROVE  HoldsExact'
<1>1. \A c \in Counters : Held(c)' = Held(c)
  BY HeldSame
<1> QED  BY <1>1 DEF HoldsExact

(* Money is reserved for exactly the live leases of steady requests.       *)
LEMMA HoldsStep ==
    TypeOK /\ TypeOK' /\ LeaseInv /\ TraceInv /\ NoDoubleFree /\ HoldsExact /\ [Next]_vars =>
        HoldsExact'
<1> SUFFICES ASSUME TypeOK, TypeOK', LeaseInv, TraceInv, NoDoubleFree, HoldsExact,
                    [Next]_vars
             PROVE  HoldsExact'
  OBVIOUS
<1> DEFINE Still == UNCHANGED <<leases, leaseEst, reserved>>
<1>0. \A q \in Requests : Steady(q)' => Steady(q)
  BY TraceStep
<1>1. ASSUME Still PROVE HoldsExact'
  BY <1>0, <1>1, HoldsSame
<1>2. ASSUME NEW r \in Requests, NEW n \in Nat, ReleaseEffect(r, n), leaseEst' = leaseEst,
             r \in leases => n <= leaseEst[r], r \in leases /\ Steady(r) => n = leaseEst[r]
      PROVE  HoldsExact'
  <2>1. CASE r \in leases
    <3>1. Steady(r)' => n = leaseEst[r]
      BY <1>0, <1>2, <2>1
    <3> QED  BY <1>0, <1>2, <2>1, <3>1, HoldsConsume DEF ReleaseEffect
  <2>2. CASE r \notin leases
    BY <1>1, <1>2, <2>2 DEF ReleaseEffect
  <2> QED  BY <2>1, <2>2
<1>3. ASSUME NEW r \in Requests, NEW x \in Results, Reserve(r, x) PROVE HoldsExact'
  <2>1. CASE Committed(x)
    <3>1. /\ leases' = leases \cup {r} /\ leaseEst' = [leaseEst EXCEPT ![r] = Est[r]]
          /\ reserved' = Plus(reserved, Rows[r], Est[r]) /\ r \notin leases /\ Est[r] \in Nat
      BY <1>3, <2>1, AmountType DEF Reserve, LeaseInv, FreshUntouched
    <3>2. ASSUME NEW c \in Counters
          PROVE  reserved'[c] + Held(c) = reserved[c] + Held(c)'
      <4>1. Held(c)' = IF c \in Rows[r] THEN Held(c) + Est[r] ELSE Held(c)
        BY <3>1, GrantHeld
      <4>2. Held(c) \in Nat /\ reserved[c] \in Nat
        BY HoldersType DEF TypeOK
      <4> QED  BY <3>1, <4>1, <4>2 DEF Plus
    <3> QED  BY <1>0, <3>2, HoldsMove
  <2>2. CASE ~Committed(x)
    BY <1>1, <1>3, <2>2 DEF Reserve
  <2> QED  BY <2>1, <2>2
<1>4. ASSUME NEW r \in Requests, NEW x \in Results, TopUp(r, x) PROVE HoldsExact'
  <2>1. CASE Committed(x)
    <3>1. /\ r \in leases /\ leases' = leases /\ Extra(r) \in Nat
          /\ leaseEst' = [leaseEst EXCEPT ![r] = @ + Extra(r)]
          /\ reserved' = Plus(reserved, Rows[r], Extra(r))
      BY <1>4, <2>1, AmountType DEF TopUp, Extra, TypeOK
    <3>2. ASSUME NEW c \in Counters
          PROVE  reserved'[c] + Held(c) = reserved[c] + Held(c)'
      <4>1. Held(c)' = IF c \in Rows[r] THEN Held(c) + Extra(r) ELSE Held(c)
        BY <3>1, RaiseHeld
      <4>2. Held(c) \in Nat /\ reserved[c] \in Nat
        BY HoldersType DEF TypeOK
      <4> QED  BY <3>1, <4>1, <4>2 DEF Plus
    <3> QED  BY <1>0, <3>2, HoldsMove
  <2>2. CASE ~Committed(x)
    BY <1>1, <1>4, <2>2 DEF TopUp
  <2> QED  BY <2>1, <2>2
<1>5. ASSUME NEW r \in Requests, NEW x \in Results, Settle(r, x) PROVE HoldsExact'
  <2>1. CASE Committed(x) /\ r \in leases
    <3>1. /\ leases' = leases \ {r} /\ leaseEst' = leaseEst
          /\ reserved' = Minus(reserved, Rows[r], hold[r])
      BY <1>5, <2>1 DEF Settle, SettleEffect
    <3>2. hold[r] \in Nat /\ hold[r] <= leaseEst[r]
      BY <2>1 DEF TypeOK, LeaseInv, HoldCovered
    <3>3. Steady(r)' => hold[r] = leaseEst[r]
      BY <1>0, <3>2 DEF Steady
    <3> QED  BY <1>0, <2>1, <3>1, <3>2, <3>3, HoldsConsume
  <2>2. CASE ~(Committed(x) /\ r \in leases)
    BY <1>1, <1>5, <2>2 DEF Settle, SettleEffect
  <2> QED  BY <2>1, <2>2
<1>6. ASSUME NEW r \in Requests, NEW x \in Results, UnwindRelease(r, x) PROVE HoldsExact'
  <2>1. /\ leaseEst' = leaseEst
        /\ ReleaseEffect(r, hold[r]) \/ UNCHANGED <<leases, reserved>>
    BY <1>6 DEF UnwindRelease
  <2>2. hold[r] \in Nat /\ (r \in leases => hold[r] <= leaseEst[r])
    BY DEF TypeOK, LeaseInv, HoldCovered
  <2>3. r \in leases /\ Steady(r) => hold[r] = leaseEst[r]
    BY <2>2 DEF Steady
  <2> QED  BY <1>1, <1>2, <2>1, <2>2, <2>3
<1>7. ASSUME NEW r \in Requests, SweepRelease(r) \/ \E x \in DbFaults : SweepFails(r, x)
      PROVE  HoldsExact'
  <2>1. /\ leaseEst' = leaseEst /\ r \in batch
        /\ ReleaseEffect(r, snap[r]) \/ UNCHANGED <<leases, reserved>>
    BY <1>7 DEF SweepRelease, SweepFails
  <2>2. snap[r] \in Nat /\ (r \in leases => snap[r] <= leaseEst[r])
    BY <2>1 DEF TypeOK, LeaseInv, SnapCovered
  <2>3. r \in leases /\ Steady(r) => snap[r] = leaseEst[r]
    BY <2>1 DEF TraceInv, Traced
  <2> QED  BY <1>1, <1>2, <2>1, <2>2, <2>3
<1>8. ASSUME NEW r \in Requests,
             \/ ReserveRejected(r) \/ ProviderFails(r) \/ FallbackBlocked(r)
             \/ FallbackWithinHold(r) \/ TopUpRejected(r) \/ Crash(r) \/ Age(r)
             \/ \E x \in Actual[r] : Deliver(r, x)
             \/ \E x \in IncurResults(r) : BookRejectedSafety(r, x) \/ UnwindIncur(r, x)
      PROVE  HoldsExact'
  <2>1. Still
    BY <1>8 DEF ReserveRejected, ProviderFails, FallbackBlocked, FallbackWithinHold,
       TopUpRejected, Crash, Age, Deliver, BookRejectedSafety, UnwindIncur, ledger, lease
  <2> QED  BY <1>1, <2>1
<1>9. CASE SweepSelect \/ UNCHANGED vars
  BY <1>1, <1>9 DEF SweepSelect, vars, ledger, lease
<1> QED
  BY <1>3, <1>4, <1>5, <1>6, <1>7, <1>8, <1>9 DEF Next, Step

(* What is held, what is counted and what is spent is exact at any time:   *)
(* money is reserved for the live leases alone unless a top-up went        *)
(* astray, requests_used counts who is in flight or settled, a call in     *)
(* flight is backed by its lease, an acknowledged settle has booked once,  *)
(* and nobody is charged more than was spent, save for classifier spend    *)
(* booked again by the outer catch (budgets/repo.ts, chat/lifecycle.ts).   *)
THEOREM LedgerIsExact == Spec => []LedgerExact
<1> DEFINE Exact == TraceInv /\ ChargeInv /\ RequestsExact /\ HoldsExact
<1>1. Init => Exact
  <2> SUFFICES ASSUME Init PROVE Exact
    OBVIOUS
  <2>1. TraceInv
    BY DEF Init, TraceInv, Traced, Prompt, Waiting, Ended
  <2>2. ChargeInv
    BY AmountType DEF Init, ChargeInv, Charged, Twice, Waiting
  <2>3. RequestsExact
    <3>1. \A c : Counted(c) = {}
      BY DEF Init, Counted, Counts
    <3> QED  BY <3>1, FS_EmptySet DEF Init, RequestsExact, Counted, Counts
  <2>4. HoldsExact
    <3>1. \A c : Holders(c) = {}
      BY DEF Init, Holders
    <3> QED  BY <3>1, TotalEmpty DEF Init, HoldsExact, Held
  <2> QED  BY <2>1, <2>2, <2>3, <2>4
<1>2. TypeOK /\ TypeOK' /\ LeaseInv /\ MoneyInv /\ Exact /\ [Next]_vars => Exact'
  BY TraceStep, ChargeStep, CountStep, HoldsStep DEF MoneyInv
<1>3. TypeOK /\ LeaseInv /\ Exact => LedgerExact
  <2> SUFFICES ASSUME TypeOK, LeaseInv, Exact PROVE LedgerExact
    OBVIOUS
  <2>1. HoldBacked
    BY DEF HoldBacked, TraceInv, Prompt, LeaseInv, HoldCovered
  <2>2. PromptSpendBooked
    BY DEF PromptSpendBooked, TraceInv, Prompt
  <2>3. NeverOvercharged
    BY DEF NeverOvercharged, ChargeInv, Charged, Twice
  <2> QED  BY <2>1, <2>2, <2>3 DEF LedgerExact, BooksExact, SpendExact
<1> HIDE DEF Exact
<1> QED  BY <1>1, <1>2, <1>3, LedgerInvariant, TypeCorrect, PTL DEF Spec
=============================================================================
