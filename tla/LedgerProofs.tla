---------------------------- MODULE LedgerProofs ----------------------------
(***************************************************************************)
(* Two ledgers are exact and stay within their means, proved for every set *)
(* of requests, accounts and budget nodes: the credit wallet and the       *)
(* hierarchical budgets, which also implement HoldLedger.  They are never  *)
(* composed: a theorem is about one specification, over its own variables  *)
(* and the parameters both share (Holds).                                  *)
(***************************************************************************)
EXTENDS Wallet, NodeBudget, WeightLemmas

-----------------------------------------------------------------------------
(* The credit wallet.  A request slower than RESERVATION_STALE_MS can lose *)
(* its base row to the sweep and then insert a top-up row, after which a   *)
(* settle deletes a row that stands for less than the request frees: the   *)
(* theorems are about deployments whose slow requests never top up.        *)
SteadyTopUps == \A r \in Slow : Extra[r] = 0

BaseRow(r) == <<r, "base">> \in leases
TopRow(r)  == <<r, "extra">> \in leases
HeldBy(r)  == (IF BaseRow(r) THEN Est[r] ELSE 0) + (IF TopRow(r) THEN Extra[r] ELSE 0)
Holding    == {"internal", "undo", "held", "internalTopUp", "undoTopUp", "fallback",
               "settling"}

(* What the rows of a request are, by where it is.                         *)
Shape(r) ==
    /\ pc[r] \in {"new", "funded"} => ~BaseRow(r) /\ ~TopRow(r)
    /\ pc[r] = "funded" => Est[r] = 0
    /\ pc[r] \in {"internal", "undo", "held"} => ~TopRow(r) /\ hold[r] = Est[r]
    /\ pc[r] \in {"internalTopUp", "undoTopUp"} =>
            BaseRow(r) /\ TopRow(r) /\ hold[r] = Est[r]
    /\ pc[r] \in Holding \cup {"unwinding"} =>
            (BaseRow(r) \/ TopRow(r) => hold[r] <= HeldBy(r))
    /\ pc[r] \in Holding /\ r \notin Slow => BaseRow(r) \/ TopRow(r)
    /\ r \in Slow => ~TopRow(r)

(* A debit consumed the rows it was for.                                   *)
Debit(r) ==
    /\ \/ debits[r] = 0
       \/ /\ debits[r] = 1 /\ ~BaseRow(r) /\ ~TopRow(r)
          /\ pc[r] \notin Holding \cup {"new", "funded"}
    /\ pc[r] = "settled" /\ r \notin Slow => debits[r] = 1

AgedOnce == \A l \in aged : pc[l[1]] \in Ended \/ l[1] \in Slow

Money(a) ==
    /\ Leased(a) + stranded[a] = reserved[a]
    /\ reserved[a] <= credits[a] + excess[a]

WInv ==
    /\ TypeOK /\ AgedOnce
    /\ \A r \in Requests : Shape(r) /\ Debit(r)
    /\ \A a \in Accounts : Money(a)

-----------------------------------------------------------------------------
(* Every row holds a natural number.                                       *)
LEMMA AmountType == Amount \in [Rows -> Nat]
  BY WalletExtra, HoldAmounts DEF Amount, Rows, Kinds

(* There are finitely many rows.                                           *)
LEMMA RowsFinite == IsFiniteSet(Rows) /\ \A S \in SUBSET Rows : IsFiniteSet(S)
<1>1. IsFiniteSet(Kinds)
  <2>1. IsFiniteSet({"base"})
    BY FS_Singleton
  <2>2. IsFiniteSet({"base"} \cup {"extra"})
    BY <2>1, FS_AddElement
  <2>3. Kinds = {"base"} \cup {"extra"}
    BY DEF Kinds
  <2> QED  BY <2>2, <2>3
<1>2. IsFiniteSet(Rows)
  BY <1>1, RequestsFinite, FS_Product DEF Rows
<1> QED  BY <1>2, FS_Subset

(* What an account's rows hold is a natural number, and splits along any   *)
(* part of them.                                                           *)
LEMMA LeasedSplits ==
    ASSUME NEW L \in SUBSET Rows, NEW A \in SUBSET L
    PROVE  /\ Total(L, Amount) = Total(A, Amount) + Total(L \ A, Amount)
           /\ Total(L, Amount) \in Nat
           /\ Total(A, Amount) \in Nat /\ Total(L \ A, Amount) \in Nat
<1>1. IsFiniteSet(L) /\ \A l \in L : Amount[l] \in Nat
  BY RowsFinite, AmountType
<1>2. /\ Total(L, Amount) = Total(A, Amount) + Total(L \ A, Amount)
      /\ Total(A, Amount) \in Nat /\ Total(L \ A, Amount) \in Nat
  BY <1>1, TotalSplit
<1>3. Total(L, Amount) \in Nat
  BY <1>1, UnitsFinite
<1> QED  BY <1>2, <1>3

(* The rows of one request are worth what HeldBy says.                     *)
LEMMA HeldByRows ==
    ASSUME TypeOK, NEW r \in Requests
    PROVE  /\ Total(RowsOf(r), Amount) = HeldBy(r)
           /\ RowsOf(r) # {} <=> BaseRow(r) \/ TopRow(r)
           /\ RowsOf(r) = (IF BaseRow(r) THEN {<<r, "base">>} ELSE {})
                          \cup (IF TopRow(r) THEN {<<r, "extra">>} ELSE {})
<1> DEFINE b == <<r, "base">>
           t == <<r, "extra">>
           B == IF BaseRow(r) THEN {b} ELSE {}
<1>1. b \in Rows /\ t \in Rows /\ b # t /\ Amount[b] = Est[r] /\ Amount[t] = Extra[r]
  BY DEF Rows, Kinds, Amount
<1>2. Est[r] \in Nat /\ Extra[r] \in Nat
  BY WalletExtra, HoldAmounts
<1>3. RowsOf(r) = B \cup (IF TopRow(r) THEN {t} ELSE {})
  <2>1. \A l \in RowsOf(r) : l = b \/ l = t
    BY DEF RowsOf, TypeOK, Rows, Kinds
  <2> QED  BY <2>1 DEF RowsOf, BaseRow, TopRow
<1>4. RowsOf(r) # {} <=> BaseRow(r) \/ TopRow(r)
  BY <1>3
<1>5. IsFiniteSet(B) /\ \A l \in B : Amount[l] \in Nat
  BY <1>1, <1>2, RowsFinite
<1>6. Total(B, Amount) = IF BaseRow(r) THEN Est[r] ELSE 0
  <2>1. CASE BaseRow(r)
    <3>1. Total({} \cup {b}, Amount) = Total({}, Amount) + Amount[b]
      BY <1>1, <1>2, FS_EmptySet, TotalAdd
    <3>2. Total({}, Amount) = 0
      BY TotalEmpty
    <3>3. B = {} \cup {b}
      BY <2>1
    <3> HIDE DEF B, b, t
    <3>4. Total(B, Amount) = 0 + Amount[b]
      BY <3>1, <3>2, <3>3
    <3> QED  BY <1>1, <1>2, <2>1, <3>4
  <2>2. CASE ~BaseRow(r)
    BY <2>2, TotalEmpty
  <2> QED  BY <2>1, <2>2
<1>7. Total(RowsOf(r), Amount) = HeldBy(r)
  <2>1. CASE TopRow(r)
    <3>1. Total(B \cup {t}, Amount) = Total(B, Amount) + Amount[t]
      BY <1>1, <1>2, <1>5, TotalAdd
    <3>2. RowsOf(r) = B \cup {t}
      BY <1>3, <2>1
    <3> HIDE DEF B, b, t
    <3>3. Total(RowsOf(r), Amount) = Total(B, Amount) + Extra[r]
      BY <1>1, <3>1, <3>2
    <3> QED  BY <1>2, <1>6, <2>1, <3>3 DEF HeldBy
  <2>2. CASE ~TopRow(r)
    <3>1. RowsOf(r) = B
      BY <1>3, <2>2
    <3> HIDE DEF B, b, t
    <3> QED  BY <1>2, <1>6, <2>2, <3>1 DEF HeldBy
  <2> QED  BY <2>1, <2>2
<1> QED  BY <1>3, <1>4, <1>7

-----------------------------------------------------------------------------
(* A lease raises what is reserved by what its new row holds.              *)
LEMMA LeaseMoney ==
    ASSUME TypeOK, \A a \in Accounts : Money(a),
           NEW r \in Requests, NEW kind \in Kinds, NEW n \in Nat,
           <<r, kind>> \notin leases, n = Amount[<<r, kind>>],
           n = 0 \/ Available(r) >= n,
           Lease(r, kind, n), UNCHANGED <<credits, excess, stranded>>
    PROVE  \A a \in Accounts : Money(a)'
<1> DEFINE row == <<r, kind>>
           A == Account[r]
<1>1. row \in Rows /\ A \in Accounts
  BY WalletAccounts DEF Rows
<1> SUFFICES ASSUME NEW a \in Accounts PROVE Money(a)'
  OBVIOUS
<1> DEFINE L == {l \in leases : Account[l[1]] = a}
<1>2. L \in SUBSET Rows /\ IsFiniteSet(L) /\ \A l \in L \cup {row} : Amount[l] \in Nat
  BY <1>1, RowsFinite, AmountType DEF TypeOK
<1>3. /\ reserved[a] \in Nat /\ credits[a] \in Nat /\ excess[a] \in Nat
      /\ stranded[a] \in Nat
  BY DEF TypeOK
<1>4. /\ Leased(a) + stranded[a] = reserved[a]
      /\ reserved[a] <= credits[a] + excess[a]
  BY DEF Money
<1>5. Total(L, Amount) \in Nat /\ Leased(a) = Total(L, Amount)
  BY <1>2, UnitsFinite DEF Leased
<1>6. /\ reserved' = [reserved EXCEPT ![A] = @ + n]
      /\ leases' = leases \cup {row}
      /\ UNCHANGED <<credits, excess, stranded>>
  BY DEF Lease
<1>7. CASE a = A
  <2>1. {l \in leases' : Account[l[1]] = a} = L \cup {row}
    BY <1>6, <1>7
  <2>2. Total(L \cup {row}, Amount) = Total(L, Amount) + Amount[row]
    BY <1>2, TotalAdd
  <2>3. Leased(a)' = Leased(a) + n
    BY <1>5, <2>1, <2>2 DEF Leased
  <2>4. reserved'[a] = reserved[a] + n
    BY <1>1, <1>6, <1>7 DEF TypeOK
  <2>5. n = 0 \/ credits[a] - reserved[a] >= n
    BY <1>7 DEF Available
  <2> HIDE DEF L, A, row
  <2>6. Leased(a)' + stranded'[a] = reserved'[a]
    BY <1>3, <1>4, <1>5, <1>6, <2>3, <2>4
  <2>7. reserved'[a] <= credits'[a] + excess'[a]
    BY <1>3, <1>4, <1>6, <2>4, <2>5
  <2> QED  BY <2>6, <2>7 DEF Money
<1>8. CASE a # A
  <2>1. {l \in leases' : Account[l[1]] = a} = L
    BY <1>6, <1>8
  <2>2. Leased(a)' = Leased(a) /\ reserved'[a] = reserved[a]
    BY <1>6, <1>8, <2>1 DEF Leased, TypeOK
  <2> QED  BY <1>4, <1>6, <2>2 DEF Money
<1> QED  BY <1>7, <1>8

(* Rows R of one account go and n is freed: the account stays exact when   *)
(* what R held beyond n is counted as stranded.                            *)
LEMMA FreeMoney ==
    ASSUME TypeOK, \A a \in Accounts : Money(a),
           NEW A \in Accounts, NEW R \in SUBSET leases,
           \A l \in R : Account[l[1]] = A,
           NEW n \in Nat, NEW d \in Nat, n <= Total(R, Amount),
           leases' = leases \ R,
           reserved'[A] = Less(reserved[A], n),
           credits'[A]  = Less(credits[A], d),
           excess'[A]   = excess[A] + Less(d, n),
           stranded'[A] = stranded[A] + Less(Total(R, Amount), n),
           \A a \in Accounts \ {A} :
                /\ reserved'[a] = reserved[a] /\ credits'[a] = credits[a]
                /\ excess'[a] = excess[a] /\ stranded'[a] = stranded[a]
    PROVE  \A a \in Accounts : Money(a)'
<1> SUFFICES ASSUME NEW a \in Accounts PROVE Money(a)'
  OBVIOUS
<1> DEFINE L == {l \in leases : Account[l[1]] = a}
           T == Total(R, Amount)
<1>1. L \in SUBSET Rows /\ R \in SUBSET Rows
  BY DEF TypeOK
<1>2. /\ reserved[a] \in Nat /\ credits[a] \in Nat /\ excess[a] \in Nat
      /\ stranded[a] \in Nat
  BY DEF TypeOK
<1>3. /\ Leased(a) + stranded[a] = reserved[a]
      /\ reserved[a] <= credits[a] + excess[a]
  BY DEF Money
<1>4. CASE a = A
  <2>1. R \in SUBSET L /\ {l \in leases' : Account[l[1]] = a} = L \ R
    BY <1>4
  <2>2. /\ Total(L, Amount) = T + Total(L \ R, Amount)
        /\ T \in Nat /\ Total(L \ R, Amount) \in Nat /\ Total(L, Amount) \in Nat
    BY <1>1, <2>1, LeasedSplits
  <2>3. Leased(a)' = Total(L \ R, Amount) /\ Leased(a) = Total(L, Amount)
    BY <2>1 DEF Leased
  <2>4. /\ reserved'[a] = Less(reserved[a], n)
        /\ credits'[a] = Less(credits[a], d)
        /\ excess'[a] = excess[a] + Less(d, n)
        /\ stranded'[a] = stranded[a] + Less(T, n)
    BY <1>4 DEF TypeOK
  <2> HIDE DEF L, T
  <2>5. n <= T
    BY DEF T
  <2>6. reserved'[a] = reserved[a] - n /\ stranded'[a] = stranded[a] + T - n
    BY <1>2, <1>3, <2>2, <2>3, <2>4, <2>5 DEF Less
  <2>7. Leased(a)' + stranded'[a] = reserved'[a]
    BY <1>2, <1>3, <2>2, <2>3, <2>6, SMTT(30)
  <2>8. credits'[a] + excess'[a] >= credits[a] + excess[a] - n
    BY <1>2, <2>4 DEF Less
  <2>9. credits'[a] \in Nat /\ excess'[a] \in Nat
    BY <1>2, <2>4 DEF Less
  <2>10. reserved'[a] <= credits'[a] + excess'[a]
    BY <1>2, <1>3, <2>6, <2>8, <2>9
  <2> QED  BY <2>7, <2>10 DEF Money
<1>5. CASE a # A
  <2>1. {l \in leases' : Account[l[1]] = a} = L
    BY <1>5
  <2>2. Leased(a)' = Leased(a)
    BY <2>1 DEF Leased
  <2>3. /\ reserved'[a] = reserved[a] /\ credits'[a] = credits[a]
        /\ excess'[a] = excess[a] /\ stranded'[a] = stranded[a]
    BY <1>5 DEF TypeOK
  <2> QED  BY <1>3, <2>2, <2>3 DEF Money
<1> QED  BY <1>4, <1>5

(* settleCredits frees no more than the rows it deletes hold.              *)
LEMMA SettleMoney ==
    ASSUME TypeOK, \A a \in Accounts : Money(a),
           NEW r \in Requests, NEW n \in Nat, NEW d \in Nat,
           BaseRow(r) \/ TopRow(r) => n <= HeldBy(r),
           SettleHold(r, d, n)
    PROVE  \A a \in Accounts : Money(a)'
<1>1. CASE RowsOf(r) # {}
  <2>1. n <= Total(RowsOf(r), Amount)
    BY <1>1, HeldByRows
  <2>2. RowsOf(r) \in SUBSET leases /\ \A l \in RowsOf(r) : Account[l[1]] = Account[r]
    BY DEF RowsOf
  <2>3. Account[r] \in Accounts
    BY WalletAccounts
  <2>4. /\ leases' = leases \ RowsOf(r)
        /\ reserved' = [reserved EXCEPT ![Account[r]] = Less(@, n)]
        /\ credits'  = [credits EXCEPT ![Account[r]] = Less(@, d)]
        /\ excess'   = [excess EXCEPT ![Account[r]] = @ + Less(d, n)]
        /\ stranded' = [stranded EXCEPT ![Account[r]] = @ + Less(Total(RowsOf(r), Amount), n)]
    BY <1>1 DEF SettleHold
  <2>5. /\ reserved'[Account[r]] = Less(reserved[Account[r]], n)
        /\ credits'[Account[r]]  = Less(credits[Account[r]], d)
        /\ excess'[Account[r]]   = excess[Account[r]] + Less(d, n)
        /\ stranded'[Account[r]] = stranded[Account[r]] + Less(Total(RowsOf(r), Amount), n)
        /\ \A a \in Accounts \ {Account[r]} :
                /\ reserved'[a] = reserved[a] /\ credits'[a] = credits[a]
                /\ excess'[a] = excess[a] /\ stranded'[a] = stranded[a]
    BY <2>3, <2>4 DEF TypeOK
  <2> QED  BY <2>1, <2>2, <2>3, <2>4, <2>5, FreeMoney
<1>2. CASE RowsOf(r) = {}
  BY <1>2 DEF SettleHold, table, history, Money, Leased
<1> QED  BY <1>1, <1>2

(* releaseCredits takes one row of the amount it frees, or does nothing.   *)
LEMMA ReleaseRow ==
    ASSUME TypeOK, NEW r \in Requests, NEW n \in Nat, ReleaseOne(r, n)
    PROVE  \/ UNCHANGED <<leases, reserved>> /\ \A l \in RowsOf(r) : Amount[l] # n
           \/ \E row \in RowsOf(r) :
                /\ Amount[row] = n
                /\ leases' = leases \ {row}
                /\ reserved' = [reserved EXCEPT ![Account[r]] = Less(@, n)]
<1> DEFINE match == {l \in RowsOf(r) : Amount[l] = n}
           row   == IF <<r, "base">> \in match THEN <<r, "base">> ELSE <<r, "extra">>
<1>1. CASE match # {}
  <2>1. \A l \in match : l = <<r, "base">> \/ l = <<r, "extra">>
    BY DEF RowsOf, TypeOK, Rows, Kinds
  <2>2. row \in match
    BY <1>1, <2>1
  <2>3. /\ leases' = leases \ {row}
        /\ reserved' = [reserved EXCEPT ![Account[r]] = Less(@, n)]
    BY <1>1 DEF ReleaseOne
  <2> QED  BY <2>2, <2>3
<1>2. CASE match = {}
  BY <1>2 DEF ReleaseOne
<1> QED  BY <1>1, <1>2

(* Dropping the rows of a request lowers what its account leases.          *)
LEMMA RowMoney ==
    ASSUME TypeOK, \A a \in Accounts : Money(a),
           NEW A \in Accounts, NEW row \in leases, Account[row[1]] = A,
           NEW n \in Nat, n = Amount[row],
           leases' = leases \ {row},
           reserved'[A] = Less(reserved[A], n),
           \A a \in Accounts \ {A} : reserved'[a] = reserved[a],
           UNCHANGED <<credits, excess, stranded>>
    PROVE  \A a \in Accounts : Money(a)'
<1>1. row \in Rows /\ Amount[row] \in Nat
  BY AmountType DEF TypeOK
<1>2. Total({row}, Amount) = n
  <2>1. Total({} \cup {row}, Amount) = Total({}, Amount) + Amount[row]
    BY <1>1, FS_EmptySet, TotalAdd
  <2>2. Total({}, Amount) = 0 /\ {} \cup {row} = {row}
    BY TotalEmpty
  <2> QED  BY <2>1, <2>2
<1>3. /\ reserved[A] \in Nat /\ credits[A] \in Nat
      /\ excess[A] \in Nat /\ stranded[A] \in Nat
  BY DEF TypeOK
<1>4. /\ \A l \in {row} : Account[l[1]] = A
      /\ n <= Total({row}, Amount)
      /\ credits'[A]  = Less(credits[A], 0)
      /\ excess'[A]   = excess[A] + Less(0, n)
      /\ stranded'[A] = stranded[A] + Less(Total({row}, Amount), n)
      /\ \A a \in Accounts \ {A} :
            /\ reserved'[a] = reserved[a] /\ credits'[a] = credits[a]
            /\ excess'[a] = excess[a] /\ stranded'[a] = stranded[a]
  BY <1>2, <1>3 DEF Less
<1> QED  BY <1>4, FreeMoney

(* A release frees no more than the account has reserved.                  *)
LEMMA ReleaseMoney ==
    ASSUME TypeOK, \A a \in Accounts : Money(a),
           NEW r \in Requests, NEW n \in Nat, ReleaseOne(r, n),
           UNCHANGED <<credits, excess, stranded>>
    PROVE  \A a \in Accounts : Money(a)'
<1>1. CASE UNCHANGED <<leases, reserved>>
  BY <1>1 DEF Money, Leased
<1>2. ASSUME NEW row \in RowsOf(r), Amount[row] = n, leases' = leases \ {row},
             reserved' = [reserved EXCEPT ![Account[r]] = Less(@, n)]
      PROVE  \A a \in Accounts : Money(a)'
  <2>1. Account[r] \in Accounts
    BY WalletAccounts
  <2>2. row \in leases /\ Account[row[1]] = Account[r]
    BY DEF RowsOf
  <2>3. /\ reserved'[Account[r]] = Less(reserved[Account[r]], n)
        /\ \A a \in Accounts \ {Account[r]} : reserved'[a] = reserved[a]
    BY <1>2, <2>1 DEF TypeOK
  <2> QED  BY <1>2, <2>1, <2>2, <2>3, RowMoney
<1> QED  BY <1>1, <1>2, ReleaseRow

(* The sweep returns to each wallet what its stale rows held.              *)
LEMMA SweepMoney ==
    ASSUME TypeOK, \A a \in Accounts : Money(a), Sweep
    PROVE  /\ \A a \in Accounts : Money(a)'
           /\ reserved' \in [Accounts -> Nat]
<1> DEFINE stale == leases \cap aged
           due(a) == Total({l \in stale : Account[l[1]] = a}, Amount)
<1>1. /\ leases' = leases \ stale
      /\ reserved' = [a \in Accounts |-> Less(reserved[a], due(a))]
      /\ UNCHANGED <<credits, excess, stranded>>
  BY DEF Sweep, history
<1>2. ASSUME NEW a \in Accounts PROVE reserved'[a] \in Nat /\ Money(a)'
  <2> DEFINE L == {l \in leases : Account[l[1]] = a}
             R == {l \in stale : Account[l[1]] = a}
  <2>1. L \in SUBSET Rows /\ R \in SUBSET L
    BY DEF TypeOK
  <2>2. {l \in leases' : Account[l[1]] = a} = L \ R
    BY <1>1
  <2>3. /\ Total(L, Amount) = Total(R, Amount) + Total(L \ R, Amount)
        /\ Total(R, Amount) \in Nat /\ Total(L \ R, Amount) \in Nat
    BY <2>1, LeasedSplits
  <2>4. Leased(a) = Total(L, Amount) /\ Leased(a)' = Total(L \ R, Amount)
    BY <2>2 DEF Leased
  <2>5. reserved'[a] = Less(reserved[a], Total(R, Amount))
    BY <1>1
  <2>6. /\ reserved[a] \in Nat /\ credits[a] \in Nat /\ excess[a] \in Nat
        /\ stranded[a] \in Nat
    BY DEF TypeOK
  <2>7. /\ Leased(a) + stranded[a] = reserved[a]
        /\ reserved[a] <= credits[a] + excess[a]
    BY DEF Money
  <2> HIDE DEF L, R
  <2>8. reserved'[a] = reserved[a] - Total(R, Amount) /\ reserved'[a] \in Nat
    BY <2>3, <2>4, <2>5, <2>6, <2>7 DEF Less
  <2>9. Leased(a)' + stranded'[a] = reserved'[a]
    BY <1>1, <2>3, <2>4, <2>6, <2>7, <2>8
  <2>10. reserved'[a] <= credits'[a] + excess'[a]
    BY <1>1, <2>3, <2>6, <2>7, <2>8
  <2> QED  BY <2>8, <2>9, <2>10 DEF Money
<1> QED  BY <1>1, <1>2

-----------------------------------------------------------------------------
(* A step of r leaves the other requests and their rows alone.             *)
Others(r) ==
    \A q \in Requests \ {r} :
        /\ pc'[q] = pc[q] /\ hold'[q] = hold[q] /\ debits'[q] = debits[q]
        /\ \A k \in Kinds : <<q, k>> \in leases' <=> <<q, k>> \in leases

(* So what is to be shown of it is what it does to r and to the money.     *)
LEMMA Frame ==
    ASSUME WInv, NEW r \in Requests, pc[r] \notin Ended, aged' = aged,
           TypeOK', Others(r), Shape(r)', Debit(r)', \A a \in Accounts : Money(a)'
    PROVE  WInv'
<1>1. ASSUME NEW q \in Requests \ {r} PROVE Shape(q)' /\ Debit(q)'
  <2>1. Shape(q) /\ Debit(q)
    BY DEF WInv
  <2>2. pc'[q] = pc[q] /\ hold'[q] = hold[q] /\ debits'[q] = debits[q]
    BY DEF Others
  <2>3. (BaseRow(q)' <=> BaseRow(q)) /\ (TopRow(q)' <=> TopRow(q))
    BY DEF Others, BaseRow, TopRow, Kinds
  <2>4. HeldBy(q)' = HeldBy(q)
    BY <2>3 DEF HeldBy
  <2> QED  BY <2>1, <2>2, <2>3, <2>4 DEF Shape, Debit
<1>2. AgedOnce'
  <2> SUFFICES ASSUME NEW l \in aged, l[1] \notin Slow PROVE pc'[l[1]] \in Ended
    BY DEF AgedOnce
  <2>1. l[1] \in Requests /\ pc[l[1]] \in Ended
    BY DEF WInv, AgedOnce, TypeOK, Rows
  <2> QED  BY <2>1 DEF Others
<1> QED  BY <1>1, <1>2 DEF WInv

(* Steps that touch neither the tables nor what has been counted.          *)
Quiet(r) ==
    \/ FundedForNothing(r) \/ ReserveCreditsRejected(r) \/ InternalReserve(r)
    \/ ProviderFails(r) \/ FallbackBlocked(r) \/ TopUpCreditsRejected(r)
    \/ InternalTopUp(r) \/ UnwindThrows(r) \/ Crash(r)
    \/ \E a \in Actual[r] : Deliver(r, a)

(* The steps that leave table and history alone.                           *)
LEMMA QuietKeeps == ASSUME WInv, SteadyTopUps, NEW r \in Requests, Quiet(r) PROVE WInv'
<1> USE DEF Goto
<1>1. UNCHANGED <<mode, table, aged, history>> /\ pc[r] \notin Ended
  BY DEF Quiet, FundedForNothing, ReserveCreditsRejected, InternalReserve,
     ProviderFails, FallbackBlocked, TopUpCreditsRejected, InternalTopUp,
     UnwindThrows, AfterUnwindError, Crash, Deliver, Ended
<1>2. PICK s \in PC : pc' = [pc EXCEPT ![r] = s]
  BY DEF Quiet, FundedForNothing, ReserveCreditsRejected, InternalReserve,
     ProviderFails, FallbackBlocked, TopUpCreditsRejected, InternalTopUp,
     UnwindThrows, AfterUnwindError, Crash, Deliver, PC, Ended
<1>3. hold' = hold \/ hold' = [hold EXCEPT ![r] = @ + Extra[r]]
  BY DEF Quiet, FundedForNothing, ReserveCreditsRejected, InternalReserve,
     ProviderFails, FallbackBlocked, TopUpCreditsRejected, InternalTopUp,
     UnwindThrows, Crash, Deliver
<1>4. TypeOK'
  <2>1. Extra[r] \in Nat /\ Actual[r] \subseteq Nat
    BY WalletExtra, HoldAmounts
  <2>2. hold' \in [Requests -> Nat] /\ pc' \in [Requests -> PC]
    BY <1>2, <1>3, <2>1 DEF WInv, TypeOK
  <2>3. outer' \subseteq Requests
    BY DEF Quiet, FundedForNothing, ReserveCreditsRejected, InternalReserve,
       ProviderFails, FallbackBlocked, TopUpCreditsRejected, InternalTopUp,
       UnwindThrows, AfterUnwindError, Crash, Deliver, WInv, TypeOK
  <2>4. spend' \in [Requests -> Nat]
    BY <2>1 DEF Quiet, FundedForNothing, ReserveCreditsRejected, InternalReserve,
       ProviderFails, FallbackBlocked, TopUpCreditsRejected, InternalTopUp,
       UnwindThrows, Crash, Deliver, WInv, TypeOK
  <2> QED  BY <1>1, <2>2, <2>3, <2>4 DEF WInv, TypeOK, table, history
<1>5. Others(r)
  BY <1>1, <1>2, <1>3 DEF Others, table, history, WInv, TypeOK
<1>6. \A a \in Accounts : Money(a)'
  BY <1>1 DEF WInv, Money, Leased, table, history
<1>7. (BaseRow(r)' <=> BaseRow(r)) /\ (TopRow(r)' <=> TopRow(r)) /\ debits' = debits
  BY <1>1 DEF table, history, BaseRow, TopRow
<1>8. HeldBy(r)' = HeldBy(r)
  BY <1>7 DEF HeldBy
<1>9. Shape(r) /\ Debit(r) /\ TypeOK
  BY DEF WInv
<1>10. Est[r] \in Nat /\ Extra[r] \in Nat /\ hold[r] \in Nat
  BY <1>9, WalletExtra, HoldAmounts DEF TypeOK
<1>11. Debit(r)'
  <2>1. pc'[r] = s /\ s # "settled" /\ (s \in Holding => pc[r] \in Holding \cup {"new", "funded"})
        /\ (s = "funded" => pc[r] = "new") /\ s # "new"
    BY <1>2, <1>9 DEF Quiet, FundedForNothing, ReserveCreditsRejected,
     InternalReserve, ProviderFails, FallbackBlocked, TopUpCreditsRejected,
     InternalTopUp, UnwindThrows, AfterUnwindError, Crash, Deliver, Holding,
     TypeOK
  <2> QED  BY <1>7, <1>9, <2>1 DEF Debit
<1>12. Shape(r)'
  <2>1. CASE hold' = hold
    BY <1>2, <1>7, <1>8, <1>9, <1>10, <2>1
    DEF Quiet, FundedForNothing, ReserveCreditsRejected, InternalReserve,
     ProviderFails, FallbackBlocked, TopUpCreditsRejected, InternalTopUp,
     UnwindThrows, AfterUnwindError, Crash, Deliver, Shape, TypeOK, Holding, Ended
  <2>2. CASE hold' # hold
    <3>1. pc[r] = "internalTopUp" /\ pc'[r] = "fallback" /\ hold'[r] = hold[r] + Extra[r]
      BY <1>9, <2>2 DEF Quiet, FundedForNothing, ReserveCreditsRejected, InternalReserve,
       ProviderFails, FallbackBlocked, TopUpCreditsRejected, InternalTopUp,
       UnwindThrows, Crash, Deliver, TypeOK
    <3> QED  BY <1>7, <1>8, <1>9, <1>10, <3>1 DEF Shape, HeldBy, Holding
  <2> QED  BY <2>1, <2>2
<1> QED  BY <1>1, <1>4, <1>5, <1>6, <1>11, <1>12, Frame

(* GREATEST(0, n - m) of two naturals.                                     *)
LEMMA LessType == \A n, m \in Nat : Less(n, m) \in Nat /\ Less(n, m) <= n
  BY DEF Less

(* A lease written by a request that has none of that kind.                *)
LEMMA LeaseRows ==
    ASSUME TypeOK, NEW r \in Requests, NEW kind \in Kinds, NEW n \in Nat,
           Lease(r, kind, n)
    PROVE  /\ reserved' \in [Accounts -> Nat] /\ leases' \in SUBSET Rows
           /\ BaseRow(r)' <=> BaseRow(r) \/ kind = "base"
           /\ TopRow(r)' <=> TopRow(r) \/ kind = "extra"
           /\ \A q \in Requests \ {r}, k \in Kinds :
                    <<q, k>> \in leases' <=> <<q, k>> \in leases
<1>1. <<r, kind>> \in Rows /\ Account[r] \in Accounts
  BY WalletAccounts DEF Rows
<1>2. reserved' \in [Accounts -> Nat] /\ leases' \in SUBSET Rows
  BY <1>1 DEF Lease, TypeOK
<1>3. /\ BaseRow(r)' <=> BaseRow(r) \/ kind = "base"
      /\ TopRow(r)' <=> TopRow(r) \/ kind = "extra"
  BY DEF Lease, BaseRow, TopRow, Kinds
<1>4. \A q \in Requests \ {r}, k \in Kinds :
            <<q, k>> \in leases' <=> <<q, k>> \in leases
  BY DEF Lease
<1> QED  BY <1>2, <1>3, <1>4

(* reserveCredits inserts the base row and reserves its amount.            *)
LEMMA ReserveCreditsKeeps ==
    ASSUME WInv, SteadyTopUps, NEW r \in Requests, NEW x \in Results, ReserveCredits(r, x)
    PROVE  WInv'
<1>0. /\ TypeOK /\ Shape(r) /\ Debit(r) /\ \A a \in Accounts : Money(a)
      /\ Est[r] \in Nat /\ Amount[<<r, "base">>] = Est[r] /\ "base" \in Kinds
  BY WalletExtra, HoldAmounts DEF WInv, Amount, Rows, Kinds
<1>1. /\ pc[r] \in {"new", "funded"}
      /\ pc' = [pc EXCEPT ![r] = IF Failed(x) THEN "failed"
                                 ELSE IF mode = "hybrid" THEN "internal" ELSE "held"]
      /\ hold' = [hold EXCEPT ![r] = Est[r]]
      /\ UNCHANGED <<mode, credits, aged, outer, spend, debits, excess, stranded>>
  BY DEF ReserveCredits, Goto, history
<1>2. Est[r] = 0 \/ Available(r) >= Est[r]
  BY <1>0 DEF ReserveCredits, Affords, Shape
<1>3. pc[r] \notin Ended /\ ~BaseRow(r) /\ ~TopRow(r) /\ debits[r] = 0
  BY <1>0, <1>1 DEF Ended, Shape, Debit
<1>4. CASE Committed(x)
  <2>1. Lease(r, "base", Est[r])
    BY <1>4 DEF ReserveCredits
  <2>2. \A a \in Accounts : Money(a)'
    <3>1. <<r, "base">> \notin leases
      BY <1>3 DEF BaseRow
    <3> QED  BY <1>0, <1>1, <1>2, <2>1, <3>1, LeaseMoney
  <2>3. /\ reserved' \in [Accounts -> Nat] /\ leases' \in SUBSET Rows
        /\ BaseRow(r)' /\ ~TopRow(r)'
        /\ \A q \in Requests \ {r}, k \in Kinds :
                <<q, k>> \in leases' <=> <<q, k>> \in leases
    BY <1>0, <1>3, <2>1, LeaseRows
  <2>4. TypeOK'
    BY <1>0, <1>1, <2>3 DEF TypeOK, PC, Ended
  <2>5. Others(r)
    BY <1>1, <2>3 DEF Others, WInv, TypeOK
  <2>6. HeldBy(r)' = Est[r]
    BY <1>0, <2>3 DEF HeldBy
  <2>7. Shape(r)' /\ Debit(r)'
    BY <1>0, <1>1, <1>3, <2>3, <2>6 DEF Shape, Debit, Holding, TypeOK
  <2> QED  BY <1>1, <1>3, <2>2, <2>4, <2>5, <2>7, Frame
<1>5. CASE ~Committed(x)
  <2>1. UNCHANGED <<reserved, leases>> /\ Failed(x)
    BY <1>5 DEF ReserveCredits, Committed, Failed
  <2>2. \A a \in Accounts : Money(a)'
    BY <1>0, <1>1, <2>1 DEF Money, Leased
  <2>3. TypeOK' /\ Others(r)
    BY <1>0, <1>1, <2>1 DEF TypeOK, PC, Ended, Others
  <2>4. Shape(r)' /\ Debit(r)'
    BY <1>0, <1>1, <1>3, <2>1 DEF Shape, Debit, Holding, TypeOK, BaseRow, TopRow
  <2> QED  BY <1>1, <1>3, <2>2, <2>3, <2>4, Frame
<1> QED  BY <1>4, <1>5

(* The top-up inserts the extra row and reserves what it adds.             *)
LEMMA TopUpKeeps ==
    ASSUME WInv, SteadyTopUps, NEW r \in Requests, NEW x \in Results, TopUpCredits(r, x)
    PROVE  WInv'
<1>0. /\ TypeOK /\ Shape(r) /\ Debit(r) /\ \A a \in Accounts : Money(a)
      /\ Est[r] \in Nat /\ Extra[r] \in Nat
      /\ Amount[<<r, "extra">>] = Extra[r] /\ "extra" \in Kinds
  BY WalletExtra, HoldAmounts DEF WInv, Amount, Rows, Kinds
<1>1. /\ pc[r] = "held" /\ hold[r] = Est[r] /\ Extra[r] > 0 /\ Available(r) >= Extra[r]
      /\ pc' = [pc EXCEPT ![r] = IF Failed(x) THEN "unwinding"
                        ELSE IF mode = "hybrid" THEN "internalTopUp" ELSE "fallback"]
      /\ hold' = IF Failed(x) \/ mode = "hybrid" THEN hold
                 ELSE [hold EXCEPT ![r] = @ + Extra[r]]
      /\ outer' \subseteq Requests
      /\ UNCHANGED <<mode, credits, aged, spend, debits, excess, stranded>>
  BY <1>0 DEF TopUpCredits, Goto, history, Affords, TypeOK
<1>2. r \notin Slow
  BY <1>0, <1>1 DEF SteadyTopUps
<1>3. pc[r] \notin Ended /\ BaseRow(r) /\ ~TopRow(r) /\ debits[r] = 0
  BY <1>0, <1>1, <1>2 DEF Ended, Shape, Debit, Holding
<1>4. /\ hold'[r] = IF Failed(x) \/ mode = "hybrid" THEN Est[r] ELSE Est[r] + Extra[r]
      /\ hold' \in [Requests -> Nat]
      /\ pc'[r] = (IF Failed(x) THEN "unwinding"
                    ELSE IF mode = "hybrid" THEN "internalTopUp" ELSE "fallback")
      /\ pc' \in [Requests -> PC]
      /\ \A q \in Requests \ {r} : pc'[q] = pc[q] /\ hold'[q] = hold[q]
  BY <1>0, <1>1 DEF TypeOK, PC
<1>5. CASE Committed(x)
  <2>1. Lease(r, "extra", Extra[r])
    BY <1>5 DEF TopUpCredits
  <2>2. \A a \in Accounts : Money(a)'
    <3>1. <<r, "extra">> \notin leases
      BY <1>3 DEF TopRow
    <3> QED  BY <1>0, <1>1, <2>1, <3>1, LeaseMoney
  <2>3. /\ reserved' \in [Accounts -> Nat] /\ leases' \in SUBSET Rows
        /\ BaseRow(r)' /\ TopRow(r)'
        /\ \A q \in Requests \ {r}, k \in Kinds :
                <<q, k>> \in leases' <=> <<q, k>> \in leases
    BY <1>0, <1>3, <2>1, LeaseRows
  <2>4. TypeOK'
    BY <1>0, <1>1, <1>4, <2>3 DEF TypeOK
  <2>5. Others(r)
    BY <1>1, <1>4, <2>3 DEF Others
  <2>6. HeldBy(r)' = Est[r] + Extra[r]
    BY <2>3 DEF HeldBy
  <2>7. Shape(r)' /\ Debit(r)'
    BY <1>0, <1>1, <1>2, <1>3, <1>4, <2>3, <2>6 DEF Shape, Debit, Holding
  <2> QED  BY <1>1, <1>3, <2>2, <2>4, <2>5, <2>7, Frame
<1>6. CASE ~Committed(x)
  <2>1. UNCHANGED <<reserved, leases>> /\ Failed(x)
    BY <1>6 DEF TopUpCredits, Committed, Failed
  <2>2. \A a \in Accounts : Money(a)'
    BY <1>0, <1>1, <2>1 DEF Money, Leased
  <2>3. TypeOK' /\ Others(r)
    BY <1>0, <1>1, <1>4, <2>1 DEF TypeOK, Others
  <2>4. HeldBy(r)' = HeldBy(r) /\ (BaseRow(r)' <=> BaseRow(r)) /\ (TopRow(r)' <=> TopRow(r))
    BY <2>1 DEF HeldBy, BaseRow, TopRow
  <2>5. Shape(r)' /\ Debit(r)'
    BY <1>0, <1>1, <1>2, <1>3, <1>4, <2>1, <2>4 DEF Shape, Debit, Holding, HeldBy
  <2> QED  BY <1>1, <1>3, <2>2, <2>3, <2>5, Frame
<1> QED  BY <1>5, <1>6

(* What releaseCredits leaves of the rows of a request.                    *)
LEMMA ReleaseRows ==
    ASSUME TypeOK, NEW r \in Requests, NEW n \in Nat, ReleaseOne(r, n)
    PROVE  /\ reserved' \in [Accounts -> Nat] /\ leases' \in SUBSET Rows
           /\ \A q \in Requests \ {r}, k \in Kinds :
                    <<q, k>> \in leases' <=> <<q, k>> \in leases
           /\ BaseRow(r)' => BaseRow(r)
           /\ TopRow(r)' => TopRow(r)
           /\ \/ HeldBy(r)' = HeldBy(r) /\ (BaseRow(r) => Est[r] # n)
                                        /\ (TopRow(r) => Extra[r] # n)
              \/ HeldBy(r)' = HeldBy(r) - n /\ (BaseRow(r) \/ TopRow(r))
<1>1. Est[r] \in Nat /\ Extra[r] \in Nat /\ Account[r] \in Accounts
  BY WalletExtra, HoldAmounts, WalletAccounts
<1>2. /\ BaseRow(r) => <<r, "base">> \in RowsOf(r) /\ Amount[<<r, "base">>] = Est[r]
      /\ TopRow(r) => <<r, "extra">> \in RowsOf(r) /\ Amount[<<r, "extra">>] = Extra[r]
  BY DEF BaseRow, TopRow, RowsOf, TypeOK, Amount
<1>3. CASE UNCHANGED <<leases, reserved>> /\ \A l \in RowsOf(r) : Amount[l] # n
  <2>1. (BaseRow(r)' <=> BaseRow(r)) /\ (TopRow(r)' <=> TopRow(r)) /\ HeldBy(r)' = HeldBy(r)
    BY <1>3 DEF BaseRow, TopRow, HeldBy
  <2> QED  BY <1>2, <1>3, <2>1 DEF TypeOK
<1>4. ASSUME NEW row \in RowsOf(r), Amount[row] = n, leases' = leases \ {row},
             reserved' = [reserved EXCEPT ![Account[r]] = Less(@, n)]
      PROVE  /\ reserved' \in [Accounts -> Nat] /\ leases' \in SUBSET Rows
             /\ \A q \in Requests \ {r}, k \in Kinds :
                    <<q, k>> \in leases' <=> <<q, k>> \in leases
             /\ BaseRow(r)' => BaseRow(r)
             /\ TopRow(r)' => TopRow(r)
             /\ HeldBy(r)' = HeldBy(r) - n /\ (BaseRow(r) \/ TopRow(r))
  <2>1. row = <<r, "base">> \/ row = <<r, "extra">>
    BY DEF RowsOf, TypeOK, Rows, Kinds
  <2>2. reserved' \in [Accounts -> Nat] /\ leases' \in SUBSET Rows
    BY <1>1, <1>4, LessType DEF TypeOK
  <2>3. \A q \in Requests \ {r}, k \in Kinds : <<q, k>> \in leases' <=> <<q, k>> \in leases
    BY <1>4, <2>1
  <2>4. CASE row = <<r, "base">>
    <3>1. /\ BaseRow(r) /\ ~BaseRow(r)' /\ (TopRow(r)' <=> TopRow(r)) /\ n = Est[r]
      BY <1>2, <1>4, <2>4 DEF BaseRow, TopRow, RowsOf
    <3> QED  BY <1>1, <2>2, <2>3, <3>1 DEF HeldBy
  <2>5. CASE row = <<r, "extra">>
    <3>1. /\ TopRow(r) /\ ~TopRow(r)' /\ (BaseRow(r)' <=> BaseRow(r)) /\ n = Extra[r]
      BY <1>2, <1>4, <2>5 DEF BaseRow, TopRow, RowsOf
    <3> QED  BY <1>1, <2>2, <2>3, <3>1 DEF HeldBy
  <2> QED  BY <2>1, <2>4, <2>5
<1> QED  BY <1>3, <1>4, ReleaseRow

(* An undo returns the rows of a request the budget turned down.           *)
LEMMA UndoKeeps ==
    ASSUME WInv, SteadyTopUps, NEW r \in Requests, NEW x \in Results,
           UndoReserve(r, x) \/ UndoTopUp(r, x)
    PROVE  WInv'
<1> DEFINE n == IF pc[r] = "undo" THEN Est[r] ELSE Extra[r]
<1>0. /\ TypeOK /\ Shape(r) /\ Debit(r) /\ \A a \in Accounts : Money(a)
      /\ Est[r] \in Nat /\ Extra[r] \in Nat /\ n \in Nat
  BY WalletExtra, HoldAmounts DEF WInv
<1>1. /\ pc[r] \in {"undo", "undoTopUp"} /\ hold' = hold /\ outer' \subseteq Requests
      /\ UNCHANGED <<mode, credits, aged, spend, debits, excess, stranded>>
      /\ IF Committed(x) THEN ReleaseOne(r, n) ELSE UNCHANGED <<leases, reserved>>
  BY <1>0 DEF UndoReserve, UndoTopUp, history, TypeOK
<1>2. /\ pc[r] = "undo" => pc'[r] \in {"failed", "broke"}
      /\ pc[r] = "undoTopUp" => pc'[r] = "unwinding"
      /\ pc' \in [Requests -> PC]
      /\ \A q \in Requests \ {r} : pc'[q] = pc[q]
  BY <1>0 DEF UndoReserve, UndoTopUp, Goto, TypeOK, PC, Ended
<1>3. pc[r] \notin Ended /\ debits[r] = 0
  BY <1>0, <1>1 DEF Ended, Debit, Holding
<1>4. CASE Committed(x)
  <2>1. ReleaseOne(r, n)
    BY <1>1, <1>4
  <2>2. \A a \in Accounts : Money(a)'
    BY <1>0, <1>1, <2>1, ReleaseMoney
  <2>3. /\ reserved' \in [Accounts -> Nat] /\ leases' \in SUBSET Rows
        /\ \A q \in Requests \ {r}, k \in Kinds :
                    <<q, k>> \in leases' <=> <<q, k>> \in leases
        /\ (BaseRow(r)' => BaseRow(r)) /\ (TopRow(r)' => TopRow(r))
        /\ \/ HeldBy(r)' = HeldBy(r) /\ (BaseRow(r) => Est[r] # n)
                                     /\ (TopRow(r) => Extra[r] # n)
           \/ HeldBy(r)' = HeldBy(r) - n
    BY <1>0, <2>1, ReleaseRows
  <2>4. TypeOK' /\ Others(r)
    BY <1>0, <1>1, <1>2, <2>3 DEF TypeOK, Others
  <2>5. Debit(r)'
    BY <1>1, <1>2, <1>3 DEF Debit
  <2>6. Shape(r)'
    <3>1. CASE pc[r] = "undo"
      BY <1>0, <1>1, <1>2, <2>3, <3>1 DEF Shape, Holding
    <3>2. CASE pc[r] = "undoTopUp"
      <4>1. BaseRow(r) /\ TopRow(r) /\ hold'[r] = Est[r] /\ n = Extra[r]
        BY <1>0, <1>1, <3>2 DEF Shape
      <4>2. HeldBy(r)' = Est[r]
        BY <1>0, <2>3, <4>1 DEF HeldBy
      <4>3. r \notin Slow
        BY <1>0, <4>1 DEF Shape
      <4> QED  BY <1>0, <1>2, <3>2, <4>1, <4>2, <4>3 DEF Shape, Holding
    <3> QED  BY <1>1, <3>1, <3>2
  <2> QED  BY <1>1, <1>3, <2>2, <2>4, <2>5, <2>6, Frame
<1>5. CASE ~Committed(x)
  <2>1. UNCHANGED <<leases, reserved>>
    BY <1>1, <1>5
  <2>2. \A a \in Accounts : Money(a)'
    BY <1>0, <1>1, <2>1 DEF Money, Leased
  <2>3. TypeOK' /\ Others(r)
    BY <1>0, <1>1, <1>2, <2>1 DEF TypeOK, Others
  <2>4. HeldBy(r)' = HeldBy(r) /\ (BaseRow(r)' <=> BaseRow(r)) /\ (TopRow(r)' <=> TopRow(r))
    BY <2>1 DEF HeldBy, BaseRow, TopRow
  <2>5. Shape(r)' /\ Debit(r)'
    BY <1>0, <1>1, <1>2, <1>3, <2>4 DEF Shape, Debit, Holding
  <2> QED  BY <1>1, <1>3, <2>2, <2>3, <2>5, Frame
<1> QED  BY <1>4, <1>5

(* Classifier spend is debited beyond any hold, and counted as excess.     *)
LEMMA BookSafetyKeeps ==
    ASSUME WInv, NEW r \in Requests, NEW x \in BookResults(r), BookSafety(r, x)
    PROVE  WInv'
<1>0. /\ TypeOK /\ Shape(r) /\ Debit(r) /\ \A a \in Accounts : Money(a)
      /\ Safety[r] \in Nat /\ Account[r] \in Accounts
  BY WalletExtra, HoldAmounts, WalletAccounts DEF WInv
<1>1. /\ pc[r] = "broke" /\ pc' = [pc EXCEPT ![r] = IF Failed(x) THEN "failed" ELSE "done"]
      /\ UNCHANGED <<mode, reserved, leases, aged, hold, outer, spend, debits, stranded>>
  BY DEF BookSafety, Goto
<1>2. \/ UNCHANGED <<credits, excess>>
      \/ /\ credits' = [credits EXCEPT ![Account[r]] = Less(@, Safety[r])]
         /\ excess'  = [excess EXCEPT ![Account[r]] = @ + Safety[r]]
  BY DEF BookSafety
<1>3. /\ credits' \in [Accounts -> Nat] /\ excess' \in [Accounts -> Nat]
      /\ \A a \in Accounts : credits'[a] + excess'[a] >= credits[a] + excess[a]
  BY <1>0, <1>2 DEF TypeOK, Less
<1>4. \A a \in Accounts : Money(a)'
  <2> SUFFICES ASSUME NEW a \in Accounts PROVE Money(a)'
    OBVIOUS
  <2>1. /\ reserved[a] \in Nat /\ credits[a] + excess[a] \in Nat
        /\ credits'[a] + excess'[a] \in Nat
    BY <1>0, <1>3 DEF TypeOK
  <2>2. Leased(a)' = Leased(a)
    BY <1>1 DEF Leased
  <2> QED  BY <1>0, <1>1, <1>3, <2>1, <2>2 DEF Money
<1>5. TypeOK' /\ Others(r) /\ pc[r] \notin Ended
  BY <1>0, <1>1, <1>3 DEF TypeOK, Others, PC, Ended
<1>6. Shape(r)' /\ Debit(r)'
  BY <1>0, <1>1 DEF Shape, Debit, Holding, TypeOK, BaseRow, TopRow
<1> QED  BY <1>1, <1>4, <1>5, <1>6, Frame

(* What settleCredits leaves: none of the rows, and a debit if there was   *)
(* one.                                                                    *)
LEMMA SettleRows ==
    ASSUME TypeOK, NEW r \in Requests, NEW n \in Nat, NEW d \in Nat, SettleHold(r, d, n)
    PROVE  /\ reserved' \in [Accounts -> Nat] /\ leases' \in SUBSET Rows
           /\ credits' \in [Accounts -> Nat] /\ excess' \in [Accounts -> Nat]
           /\ stranded' \in [Accounts -> Nat] /\ debits' \in [Requests -> Nat]
           /\ \A q \in Requests \ {r} :
                /\ debits'[q] = debits[q]
                /\ \A k \in Kinds : <<q, k>> \in leases' <=> <<q, k>> \in leases
           /\ ~BaseRow(r)' /\ ~TopRow(r)'
           /\ debits'[r] = IF BaseRow(r) \/ TopRow(r) THEN debits[r] + 1 ELSE debits[r]
<1>1. Account[r] \in Accounts
  BY WalletAccounts
<1>2. RowsOf(r) # {} <=> BaseRow(r) \/ TopRow(r)
  BY HeldByRows
<1>3. CASE RowsOf(r) # {}
  <2>1. Total(RowsOf(r), Amount) \in Nat
    <3>1. RowsOf(r) \in SUBSET Rows
      BY DEF RowsOf, TypeOK
    <3> QED  BY <3>1, LeasedSplits
  <2>2. /\ leases'   = leases \ RowsOf(r)
        /\ credits'  = [credits EXCEPT ![Account[r]] = Less(@, d)]
        /\ reserved' = [reserved EXCEPT ![Account[r]] = Less(@, n)]
        /\ debits'   = [debits EXCEPT ![r] = @ + 1]
        /\ excess'   = [excess EXCEPT ![Account[r]] = @ + Less(d, n)]
        /\ stranded' = [stranded EXCEPT ![Account[r]] = @ + Less(Total(RowsOf(r), Amount), n)]
    BY <1>3 DEF SettleHold
  <2>3. reserved' \in [Accounts -> Nat] /\ credits' \in [Accounts -> Nat]
    BY <1>1, <2>2, LessType DEF TypeOK
  <2>4. excess' \in [Accounts -> Nat] /\ stranded' \in [Accounts -> Nat]
    <3>1. Less(d, n) \in Nat /\ Less(Total(RowsOf(r), Amount), n) \in Nat
      BY <2>1, LessType
    <3> QED  BY <1>1, <2>2, <3>1 DEF TypeOK
  <2>5. /\ leases' \in SUBSET Rows /\ debits' \in [Requests -> Nat]
        /\ debits'[r] = debits[r] + 1
        /\ \A q \in Requests \ {r} : debits'[q] = debits[q]
    BY <2>2 DEF TypeOK
  <2>6. /\ ~BaseRow(r)' /\ ~TopRow(r)'
        /\ \A q \in Requests \ {r} :
                \A k \in Kinds : <<q, k>> \in leases' <=> <<q, k>> \in leases
    BY <2>2 DEF RowsOf, BaseRow, TopRow
  <2> QED  BY <1>2, <1>3, <2>3, <2>4, <2>5, <2>6
<1>4. CASE RowsOf(r) = {}
  <2>1. UNCHANGED <<table, history>>
    BY <1>4 DEF SettleHold
  <2> QED  BY <1>2, <1>4, <2>1 DEF table, history, TypeOK, BaseRow, TopRow
<1> QED  BY <1>3, <1>4

(* A settle debits once and consumes every row of the request.             *)
LEMMA SettleKeeps ==
    ASSUME WInv, NEW r \in Requests, NEW x \in Results, Settle(r, x) \/ Unwind(r, x)
    PROVE  WInv'
<1> DEFINE d == IF pc[r] = "settling" THEN spend[r] ELSE Safety[r]
<1>0. /\ TypeOK /\ Shape(r) /\ Debit(r) /\ \A a \in Accounts : Money(a)
      /\ Safety[r] \in Nat /\ hold[r] \in Nat /\ d \in Nat
  BY WalletExtra, HoldAmounts DEF WInv, TypeOK
<1>1. /\ pc[r] \in {"settling", "unwinding"}
      /\ IF Committed(x) THEN SettleHold(r, d, hold[r]) ELSE UNCHANGED <<table, history>>
      /\ outer' \subseteq Requests
      /\ UNCHANGED <<mode, aged, hold, spend>>
  BY <1>0 DEF Settle, Unwind, AfterUnwindError, TypeOK
<1>2. /\ pc[r] = "settling" => pc'[r] = IF Failed(x) THEN "failed" ELSE "settled"
      /\ pc[r] = "unwinding" => pc'[r] \in {"failed", "unwinding", "done"}
      /\ pc' \in [Requests -> PC]
      /\ \A q \in Requests \ {r} : pc'[q] = pc[q]
  BY <1>0 DEF Settle, Unwind, AfterUnwindError, Goto, TypeOK, PC, Ended
<1>3. pc[r] \notin Ended /\ (BaseRow(r) \/ TopRow(r) => hold[r] <= HeldBy(r))
  BY <1>0, <1>1 DEF Ended, Shape, Holding
<1>4. CASE Committed(x)
  <2>1. SettleHold(r, d, hold[r])
    BY <1>1, <1>4
  <2>2. \A a \in Accounts : Money(a)'
    BY <1>0, <1>3, <2>1, SettleMoney
  <2>3. /\ reserved' \in [Accounts -> Nat] /\ leases' \in SUBSET Rows
        /\ credits' \in [Accounts -> Nat] /\ excess' \in [Accounts -> Nat]
        /\ stranded' \in [Accounts -> Nat] /\ debits' \in [Requests -> Nat]
        /\ \A q \in Requests \ {r} :
                /\ debits'[q] = debits[q]
                /\ \A k \in Kinds : <<q, k>> \in leases' <=> <<q, k>> \in leases
        /\ ~BaseRow(r)' /\ ~TopRow(r)'
        /\ debits'[r] = IF BaseRow(r) \/ TopRow(r) THEN debits[r] + 1 ELSE debits[r]
    BY <1>0, <2>1, SettleRows
  <2>4. TypeOK' /\ Others(r)
    BY <1>0, <1>1, <1>2, <2>3 DEF TypeOK, Others
  <2>5. Shape(r)'
    BY <1>1, <1>2, <2>3 DEF Shape, Holding
  <2>6. Debit(r)'
    <3>1. debits[r] \in {0, 1} /\ debits'[r] \in {0, 1}
      BY <1>0, <2>3 DEF Debit
    <3>2. pc'[r] \notin Holding \cup {"new", "funded"}
      BY <1>1, <1>2 DEF Holding
    <3>3. pc'[r] = "settled" /\ r \notin Slow => debits'[r] = 1
      BY <1>0, <1>1, <1>2, <2>3 DEF Shape, Debit, Holding
    <3> QED  BY <2>3, <3>1, <3>2, <3>3 DEF Debit
  <2> QED  BY <1>1, <1>3, <2>2, <2>4, <2>5, <2>6, Frame
<1>5. CASE ~Committed(x)
  <2>1. UNCHANGED <<table, history>> /\ Failed(x)
    BY <1>1, <1>5 DEF Committed, Failed
  <2>2. \A a \in Accounts : Money(a)'
    BY <1>0, <2>1 DEF Money, Leased, table, history
  <2>3. TypeOK' /\ Others(r)
    BY <1>0, <1>1, <1>2, <2>1 DEF TypeOK, Others, table, history
  <2>4. /\ HeldBy(r)' = HeldBy(r) /\ (BaseRow(r)' <=> BaseRow(r))
        /\ (TopRow(r)' <=> TopRow(r)) /\ debits'[r] = debits[r]
    BY <2>1 DEF HeldBy, BaseRow, TopRow, table, history
  <2>5. Shape(r)' /\ Debit(r)'
    BY <1>0, <1>1, <1>2, <1>3, <2>1, <2>4 DEF Shape, Debit, Holding
  <2> QED  BY <1>1, <1>3, <2>2, <2>3, <2>5, Frame
<1> QED  BY <1>4, <1>5

(* Age and the sweep: rows go only from requests that have ended, or that  *)
(* outlived them.                                                          *)
LEMMA AgeKeeps == ASSUME WInv, NEW l \in Rows, Age(l) PROVE WInv'
<1>1. /\ UNCHANGED <<mode, table, client, history>> /\ aged' = aged \cup {l}
      /\ pc[l[1]] \in Ended \/ l[1] \in Slow
  BY DEF Age
<1>2. TypeOK' /\ AgedOnce'
  BY <1>1 DEF WInv, TypeOK, AgedOnce, table, client, history
<1>3. \A r \in Requests : Shape(r)' /\ Debit(r)'
  BY <1>1 DEF WInv, Shape, Debit, BaseRow, TopRow, HeldBy, table, client, history
<1>4. \A a \in Accounts : Money(a)'
  BY <1>1 DEF WInv, Money, Leased, table, history
<1> QED  BY <1>2, <1>3, <1>4 DEF WInv

(* The sweep drops aged rows with what they hold.                          *)
LEMMA SweepKeeps == ASSUME WInv, Sweep PROVE WInv'
<1>1. /\ leases' = leases \ (leases \cap aged)
      /\ UNCHANGED <<mode, credits, aged, client, history>>
  BY DEF Sweep
<1>2. (\A a \in Accounts : Money(a)') /\ reserved' \in [Accounts -> Nat]
  BY SweepMoney DEF WInv
<1>3. TypeOK' /\ AgedOnce'
  BY <1>1, <1>2 DEF WInv, TypeOK, AgedOnce, client, history
<1>4. ASSUME NEW r \in Requests PROVE Shape(r)' /\ Debit(r)'
  <2>1. Shape(r) /\ Debit(r)
    BY DEF WInv
  <2>2. (BaseRow(r)' => BaseRow(r)) /\ (TopRow(r)' => TopRow(r))
    BY <1>1 DEF BaseRow, TopRow
  <2>3. Debit(r)'
    BY <1>1, <2>1, <2>2 DEF Debit, client, history
  <2>4. CASE pc[r] \in Ended
    <3>1. pc'[r] \notin Holding \cup {"new", "funded", "internal", "undo", "held",
                                     "internalTopUp", "undoTopUp", "unwinding"}
      BY <1>1, <2>4 DEF Ended, Holding, client
    <3> QED  BY <2>1, <2>2, <2>3, <3>1 DEF Shape
  <2>5. CASE pc[r] \notin Ended /\ r \notin Slow
    <3>1. <<r, "base">> \notin aged /\ <<r, "extra">> \notin aged
      BY <2>5 DEF WInv, AgedOnce
    <3>2. (BaseRow(r)' <=> BaseRow(r)) /\ (TopRow(r)' <=> TopRow(r)) /\ HeldBy(r)' = HeldBy(r)
      BY <1>1, <3>1 DEF BaseRow, TopRow, HeldBy
    <3> QED  BY <1>1, <2>1, <2>3, <3>2 DEF Shape, client
  <2>6. CASE r \in Slow
    <3>1. ~TopRow(r) /\ ~TopRow(r)'
      BY <2>1, <2>2, <2>6 DEF Shape
    <3>2. BaseRow(r)' => HeldBy(r)' = HeldBy(r)
      BY <2>2, <3>1 DEF HeldBy
    <3> QED  BY <1>1, <2>1, <2>2, <2>3, <2>6, <3>1, <3>2 DEF Shape, client
  <2> QED  BY <2>4, <2>5, <2>6
<1> QED  BY <1>2, <1>3, <1>4 DEF WInv

(* Every step keeps the invariant.                                         *)
LEMMA WalletStep == WInv /\ SteadyTopUps /\ [Next]_vars => WInv'
<1> SUFFICES ASSUME WInv, SteadyTopUps, [Next]_vars PROVE WInv'
  OBVIOUS
<1>1. ASSUME NEW r \in Requests, Step(r) PROVE WInv'
  <2>1. CASE Quiet(r)
    BY <2>1, QuietKeeps
  <2>2. CASE \E x \in BookResults(r) : BookSafety(r, x)
    BY <2>2, BookSafetyKeeps
  <2>3. CASE \E x \in Results : ReserveCredits(r, x)
    BY <2>3, ReserveCreditsKeeps
  <2>4. CASE \E x \in Results : UndoReserve(r, x) \/ UndoTopUp(r, x)
    BY <2>4, UndoKeeps
  <2>5. CASE \E x \in Results : TopUpCredits(r, x)
    BY <2>5, TopUpKeeps
  <2>6. CASE \E x \in Results : Unwind(r, x) \/ Settle(r, x)
    BY <2>6, SettleKeeps
  <2> QED  BY <1>1, <2>1, <2>2, <2>3, <2>4, <2>5, <2>6 DEF Step, Quiet
<1>2. ASSUME NEW r \in Requests, Crash(r) PROVE WInv'
  BY <1>2, QuietKeeps DEF Quiet
<1>3. CASE \E l \in Rows : Age(l)
  BY <1>3, AgeKeeps
<1>4. CASE Sweep
  BY <1>4, SweepKeeps
<1>5. CASE UNCHANGED vars
  <2>1. UNCHANGED <<mode, credits, reserved, leases, aged, pc, hold, outer, spend,
                    debits, excess, stranded>>
    BY <1>5 DEF vars, table, client, history
  <2>2. TypeOK' /\ AgedOnce'
    BY <2>1 DEF WInv, TypeOK, AgedOnce
  <2>3. \A r \in Requests : Shape(r)' /\ Debit(r)'
    BY <2>1 DEF WInv, Shape, Debit, BaseRow, TopRow, HeldBy
  <2>4. \A a \in Accounts : Money(a)'
    BY <2>1 DEF WInv, Money, Leased
  <2> QED  BY <2>2, <2>3, <2>4 DEF WInv
<1> QED  BY <1>1, <1>2, <1>3, <1>4, <1>5 DEF Next

(* The wallet starts with no rows.                                         *)
LEMMA WalletInit == Init => WInv
<1> SUFFICES ASSUME Init PROVE WInv
  OBVIOUS
<1>1. TypeOK
  BY WalletAccounts DEF Init, TypeOK, PC
<1>2. AgedOnce
  BY DEF Init, AgedOnce
<1>3. \A r \in Requests : Shape(r) /\ Debit(r)
  BY DEF Init, Shape, Debit, BaseRow, TopRow, HeldBy, Holding
<1>4. ASSUME NEW a \in Accounts PROVE Money(a)
  <2>1. {l \in leases : Account[l[1]] = a} = {}
    BY DEF Init
  <2>2. Leased(a) = 0
    BY <2>1, TotalEmpty DEF Leased
  <2> QED  BY <2>2, WalletAccounts DEF Init, Money
<1> QED  BY <1>1, <1>2, <1>3, <1>4 DEF WInv

(* The invariant is inductive, so it holds throughout.                     *)
LEMMA WalletInvariant == SteadyTopUps => (Spec => []WInv)
<1> SUFFICES ASSUME SteadyTopUps PROVE Spec => []WInv
  OBVIOUS
<1>1. WInv /\ [Next]_vars => WInv'
  BY WalletStep
<1> QED  BY <1>1, WalletInit, PTL DEF Spec

(* The live rows of an account never hold more than the account has        *)
(* reserved.                                                               *)
LEMMA RowsAreCovered == WInv => WalletCovered
<1> SUFFICES ASSUME WInv, NEW a \in Accounts PROVE Leased(a) <= reserved[a]
  BY DEF WalletCovered
<1>1. {l \in leases : Account[l[1]] = a} \in SUBSET Rows
  BY DEF WInv, TypeOK
<1>2. Leased(a) \in Nat /\ stranded[a] \in Nat
  BY <1>1, LeasedSplits DEF Leased, WInv, TypeOK
<1> QED  BY <1>2 DEF WInv, Money

(* What an account has reserved is what its live rows hold plus what a     *)
(* settle left stranded, a debit happens once and a settled request was    *)
(* debited, whatever the interleaving of requests, sweep, lost commits and *)
(* crashes (settleReservedCredits deletes rows and frees in one transaction). *)
THEOREM WalletIsExact == SteadyTopUps => (Spec => []WalletExact)
<1> SUFFICES ASSUME SteadyTopUps PROVE Spec => []WalletExact
  OBVIOUS
<1>1. WInv => WalletExact
  <2> SUFFICES ASSUME WInv PROVE WalletExact
    OBVIOUS
  <2>1. TypeOK /\ HoldsExact /\ DebitExact
    BY DEF WInv, Money, Debit, HoldsExact, DebitExact, DebitedOnce, SettledIsDebited,
       HoldsBacked
  <2> QED  BY <2>1, RowsAreCovered DEF WalletExact
<1> QED  BY <1>1, WalletInvariant, PTL

(* So no release takes credits_reserved_usd below zero.                    *)
COROLLARY WalletIsCovered == SteadyTopUps => (Spec => []WalletCovered)
<1> SUFFICES ASSUME SteadyTopUps PROVE Spec => []WalletCovered
  OBVIOUS
<1> QED  BY RowsAreCovered, WalletInvariant, PTL

-----------------------------------------------------------------------------
(* The hierarchical ledger.  What NodeBudget assumes of its parameters.     *)
LEMMA NodeAssumed ==
    /\ IsFiniteSet(Requests) /\ IsFiniteSet(Cells)
    /\ NodeOf \in [Cells -> Nodes]
    /\ Shards \in [Nodes -> Nat \ {0}]
    /\ Path \in [Requests -> SUBSET Cells]
    /\ \A n \in Nodes : Cardinality({c \in Cells : NodeOf[c] = n}) <= Shards[n]
    /\ NoCap \notin Nat
    /\ NodeCap \in [Nodes -> Nat \cup {NoCap}]
    /\ Est \in [Requests -> Nat] /\ Safety \in [Requests -> Nat]
    /\ Actual \in [Requests -> SUBSET Nat]
  BY RequestsFinite, NodeFinite, NodeShape, NodeCaps, HoldAmounts

(* The lease of a request and what has been booked and freed for it.       *)
NodeShapeOf(r) ==
    /\ nodePc[r] = "new" => r \notin nodeLeases /\ booked[r] = 0 /\ freed[r] = 0
    /\ r \in nodeLeases => freed[r] = 0
    /\ nodePc[r] \in {"held", "settling"} => booked[r] = 0 /\ (r \in nodeLeases \/ freed[r] > 0)
    /\ nodePc[r] = "settled" => booked[r] = 1

(* The requests a row counts.                                              *)
Counted(c) ==
    {r \in Requests : c \in Path[r] /\ (r \in nodeLeases \/ (booked[r] > 0 /\ freed[r] = 0))}

Share(c) == NodeCap[NodeOf[c]] \div Shards[NodeOf[c]]

RowExact(c) ==
    /\ nodeReserved[c] = Held(c)
    /\ nodeRequests[c] = Cardinality(Counted(c))
    /\ NodeCap[NodeOf[c]] # NoCap => nodeUsed[c] + nodeReserved[c] <= Share(c) + overrun[c]

NInv ==
    /\ NodeTypeOK
    /\ \A r \in Requests : NodeShapeOf(r)
    /\ \A c \in Cells : RowExact(c)

-----------------------------------------------------------------------------
(* Counting one more member.                                               *)
LEMMA CardAdd ==
    ASSUME NEW S, IsFiniteSet(S), NEW x, x \notin S
    PROVE  Cardinality(S \cup {x}) = Cardinality(S) + 1 /\ Cardinality(S) \in Nat
  BY FS_AddElement, FS_CardinalityType

(* GREATEST(0, n - m) of two naturals.                                     *)
LEMMA NodeLessType == \A n, m \in Nat : Less(n, m) \in Nat /\ Less(n, m) <= n
  BY DEF Less

(* Any set of requests is finite, and so is what its members hold of a row. *)
LEMMA FreedTotals ==
    ASSUME NEW L \in SUBSET Requests, NEW S \in SUBSET L, NEW c \in Cells
    PROVE  /\ Total(Freed(L, c), Est) = Total(Freed(S, c), Est) + Total(Freed(L \ S, c), Est)
           /\ Total(Freed(L, c), Est) \in Nat /\ Total(Freed(S, c), Est) \in Nat
           /\ Total(Freed(L \ S, c), Est) \in Nat
<1>1. Freed(L, c) \in SUBSET Requests /\ Freed(S, c) \in SUBSET Freed(L, c)
  BY DEF Freed
<1>2. Freed(L \ S, c) = Freed(L, c) \ Freed(S, c)
  BY DEF Freed
<1>3. IsFiniteSet(Freed(L, c)) /\ \A r \in Freed(L, c) : Est[r] \in Nat
  BY <1>1, NodeAssumed, FS_Subset
<1>4. /\ Total(Freed(L, c), Est)
            = Total(Freed(S, c), Est) + Total(Freed(L, c) \ Freed(S, c), Est)
      /\ Total(Freed(S, c), Est) \in Nat /\ Total(Freed(L, c) \ Freed(S, c), Est) \in Nat
  BY <1>1, <1>3, TotalSplit
<1>5. Total(Freed(L, c), Est) \in Nat
  BY <1>3, UnitsFinite
<1> QED  BY <1>2, <1>4, <1>5

(* What one lease holds of a row.                                          *)
LEMMA FreedOne ==
    ASSUME NEW r \in Requests, NEW c \in Cells
    PROVE  Total(Freed({r}, c), Est) = IF c \in Path[r] THEN Est[r] ELSE 0
<1>0. Est[r] \in Nat /\ Total({}, Est) = 0
  BY NodeAssumed, TotalEmpty
<1>1. CASE c \in Path[r]
  <2>1. Total({} \cup {r}, Est) = Total({}, Est) + Est[r]
    BY <1>0, FS_EmptySet, TotalAdd
  <2>2. Freed({r}, c) = {} \cup {r}
    BY <1>1 DEF Freed
  <2>3. Total(Freed({r}, c), Est) = Total({}, Est) + Est[r]
    BY <2>1, <2>2
  <2> QED  BY <1>0, <1>1, <2>3
<1>2. CASE c \notin Path[r]
  <2>1. Freed({r}, c) = {}
    BY <1>2 DEF Freed
  <2> QED  BY <1>0, <1>2, <2>1
<1> QED  BY <1>1, <1>2

(* A row counts finitely many requests.                                    *)
LEMMA CountedFinite == 
    \A c \in Cells : IsFiniteSet(Counted(c)) /\ Cardinality(Counted(c)) \in Nat
  BY NodeAssumed, FS_Subset, FS_CardinalityType DEF Counted

(* Steps of one request that leave the rows and the leases alone.          *)
NodeQuiet(r) ==
    \/ ReserveRejected(r) \/ NodeProviderFails(r) \/ NodeFallbackBlocked(r) \/ NodeCrash(r)
    \/ \E a \in Actual[r] : NodeDeliver(r, a)

(* The steps that leave rows, leases and history alone.                    *)
LEMMA NodeQuietKeeps ==
    ASSUME NInv, NEW r \in Requests, NodeQuiet(r)
    PROVE  NInv'
<1>1. UNCHANGED <<nodeUsed, nodeReserved, nodeRequests, nodeLeases, nodeAged, booked, freed,
                  overrun>>
  BY DEF NodeQuiet, ReserveRejected, NodeProviderFails, NodeFallbackBlocked, NodeCrash,
     NodeDeliver, ledger, lease, nodeHistory
<1>2. /\ nodePc' \in [Requests -> NodePC] /\ nodeOuter' \subseteq Requests
      /\ \A q \in Requests \ {r} : nodePc'[q] = nodePc[q]
      /\ nodePc'[r] \notin {"new", "held", "settled"}
      /\ nodePc'[r] = "settling" => nodePc[r] = "held"
  BY DEF NodeQuiet, ReserveRejected, NodeProviderFails, NodeFallbackBlocked, NodeCrash,
     NodeDeliver, NodeGoto, NInv, NodeTypeOK, NodePC, Ended
<1>3. nodeSpend' \in [Requests -> Nat]
  BY NodeAssumed DEF NodeQuiet, ReserveRejected, NodeProviderFails, NodeFallbackBlocked, NodeCrash,
     NodeDeliver, NInv, NodeTypeOK
<1>4. NodeTypeOK'
  BY <1>1, <1>2, <1>3 DEF NInv, NodeTypeOK
<1>5. ASSUME NEW q \in Requests PROVE NodeShapeOf(q)'
  BY <1>1, <1>2 DEF NInv, NodeShapeOf
<1>6. ASSUME NEW c \in Cells PROVE RowExact(c)'
  BY <1>1 DEF NInv, RowExact, Held, Counted
<1> QED  BY <1>4, <1>5, <1>6 DEF NInv

(* A share of the cap is a floor: a row that fits its exact share fits the *)
(* floor, and at most Shards[n] floors fit the cap.                        *)
LEMMA ShareFits ==
    ASSUME NEW n \in Nat, NEW k \in Nat, NEW s \in Nat \ {0}
    PROVE  /\ k \div s \in Nat
           /\ n * s <= k => n <= k \div s
           /\ n <= s => n * (k \div s) <= k
<1> DEFINE q == k \div s
           m == k % s
<1>1. q \in Nat /\ m \in 0 .. s - 1 /\ k = s * q + m
  OBVIOUS
<1> HIDE DEF q, m
<1>2. ASSUME n * s <= k PROVE n <= q
  <2>1. ASSUME n >= q + 1 PROVE FALSE
    <3>1. n * s >= (q + 1) * s
      BY <1>1, <2>1
    <3>2. (q + 1) * s = s * q + s
      BY <1>1
    <3> QED  BY <1>1, <1>2, <3>1, <3>2
  <2> QED  BY <1>1, <2>1
<1>3. ASSUME n <= s PROVE n * q <= k
  <2>1. n * q <= s * q
    BY <1>1, <1>3
  <2>2. n * q \in Nat /\ s * q \in Nat
    BY <1>1
  <2> QED  BY <1>1, <2>1, <2>2
<1> QED  BY <1>1, <1>2, <1>3 DEF q

-----------------------------------------------------------------------------
(* reservePath holds every row of the path, each within its share.         *)
LEMMA NodeReserveKeeps ==
    ASSUME NInv, NEW r \in Requests, NEW x \in Results, ReservePath(r, x)
    PROVE  NInv'
<1>0. /\ NodeTypeOK /\ NodeShapeOf(r) /\ Est[r] \in Nat /\ nodePc[r] = "new"
      /\ r \notin nodeLeases /\ booked[r] = 0 /\ freed[r] = 0
  BY NodeAssumed DEF NInv, NodeShapeOf, ReservePath
<1>1. /\ UNCHANGED <<nodeUsed, nodeAged, nodeOuter, nodeSpend, booked, freed, overrun>>
      /\ nodePc' = [nodePc EXCEPT ![r] = IF Failed(x) THEN "failed" ELSE "held"]
  BY DEF ReservePath, nodeHistory, NodeGoto
<1>2. CASE Committed(x)
  <2>1. /\ nodeReserved' = Plus(nodeReserved, Path[r], Est[r])
        /\ nodeRequests' = Plus(nodeRequests, Path[r], 1)
        /\ nodeLeases'   = nodeLeases \cup {r}
    BY <1>2 DEF ReservePath
  <2>2. NodeTypeOK'
    BY <1>0, <1>1, <2>1 DEF NodeTypeOK, Plus, NodePC, Ended
  <2>3. ASSUME NEW q \in Requests PROVE NodeShapeOf(q)'
    <3>1. NodeShapeOf(q)
      BY DEF NInv
    <3> QED  BY <1>0, <1>1, <2>1, <3>1 DEF NodeShapeOf, NodeTypeOK
  <2>4. ASSUME NEW c \in Cells, c \notin Path[r] PROVE RowExact(c)'
    <3>1. Freed(nodeLeases', c) = Freed(nodeLeases, c) /\ Counted(c)' = Counted(c)
      BY <1>1, <2>1, <2>4 DEF Freed, Counted
    <3>2. nodeReserved'[c] = nodeReserved[c] /\ nodeRequests'[c] = nodeRequests[c]
      BY <2>1, <2>4 DEF Plus
    <3>3. RowExact(c)
      BY DEF NInv
    <3> QED  BY <1>1, <3>1, <3>2, <3>3 DEF RowExact, Held, Share
  <2>5. ASSUME NEW c \in Cells, c \in Path[r] PROVE RowExact(c)'
    <3>0. /\ RowExact(c) /\ nodeReserved[c] \in Nat /\ nodeRequests[c] \in Nat
          /\ nodeUsed[c] \in Nat /\ overrun[c] \in Nat
      BY <1>0 DEF NInv, NodeTypeOK
    <3>1. nodeReserved'[c] = nodeReserved[c] + Est[r] /\ nodeRequests'[c] = nodeRequests[c] + 1
      BY <2>1, <2>5 DEF Plus
    <3>2. nodeReserved'[c] = Held(c)'
      <4>1. /\ nodeLeases' \in SUBSET Requests /\ {r} \in SUBSET nodeLeases'
            /\ nodeLeases' \ {r} = nodeLeases
        BY <1>0, <2>1 DEF NodeTypeOK
      <4>2. /\ Total(Freed(nodeLeases', c), Est)
                    = Total(Freed({r}, c), Est) + Total(Freed(nodeLeases, c), Est)
            /\ Total(Freed(nodeLeases, c), Est) \in Nat
        BY <4>1, FreedTotals
      <4>3. Total(Freed({r}, c), Est) = Est[r]
        BY <2>5, FreedOne
      <4> QED  BY <1>0, <3>0, <3>1, <4>2, <4>3 DEF RowExact, Held
    <3>3. nodeRequests'[c] = Cardinality(Counted(c)')
      <4>1. Counted(c)' = Counted(c) \cup {r} /\ r \notin Counted(c)
        BY <1>0, <1>1, <2>1, <2>5 DEF Counted
      <4>2. Cardinality(Counted(c) \cup {r}) = Cardinality(Counted(c)) + 1
        BY <4>1, CountedFinite, CardAdd
      <4> QED  BY <3>0, <3>1, <4>1, <4>2 DEF RowExact
    <3>4. ASSUME NodeCap[NodeOf[c]] # NoCap
          PROVE  nodeUsed'[c] + nodeReserved'[c] <= Share(c) + overrun'[c]
      <4>1. /\ NodeOf[c] \in Nodes /\ Shards[NodeOf[c]] \in Nat \ {0}
            /\ NodeCap[NodeOf[c]] \in Nat
        BY <3>4, NodeAssumed
      <4>2. (nodeUsed[c] + nodeReserved[c] + Est[r]) * Shards[NodeOf[c]] <= NodeCap[NodeOf[c]]
        BY <2>5, <3>4 DEF ReservePath, Fits
      <4>3. nodeUsed[c] + nodeReserved[c] + Est[r] \in Nat
        BY <1>0, <3>0
      <4>4. nodeUsed[c] + nodeReserved[c] + Est[r] <= Share(c)
        BY <4>1, <4>2, <4>3, ShareFits DEF Share
      <4>5. Share(c) \in Nat
        BY <4>1 DEF Share
      <4> QED  BY <1>0, <1>1, <3>0, <3>1, <4>4, <4>5
    <3> QED  BY <3>2, <3>3, <3>4 DEF RowExact, Share
  <2> QED  BY <2>2, <2>3, <2>4, <2>5 DEF NInv
<1>3. CASE ~Committed(x)
  <2>1. /\ UNCHANGED <<nodeReserved, nodeRequests, nodeLeases>>
        /\ nodePc' = [nodePc EXCEPT ![r] = "failed"]
    BY <1>1, <1>3 DEF ReservePath, Committed, Failed
  <2>2. NodeTypeOK'
    BY <1>0, <1>1, <2>1 DEF NodeTypeOK, NodePC, Ended
  <2>3. ASSUME NEW q \in Requests PROVE NodeShapeOf(q)'
    <3>1. NodeShapeOf(q)
      BY DEF NInv
    <3> QED  BY <1>0, <1>1, <2>1, <3>1 DEF NodeShapeOf, NodeTypeOK
  <2>4. ASSUME NEW c \in Cells PROVE RowExact(c)'
    BY <1>1, <2>1 DEF NInv, RowExact, Held, Counted, Share
  <2> QED  BY <2>2, <2>3, <2>4 DEF NInv
<1> QED  BY <1>2, <1>3

(* Safety spend is booked beyond any hold, and counted as such.            *)
LEMMA NodeIncurKeeps ==
    ASSUME NInv, NEW r \in Requests, NEW x \in IncurResults(r),
           BookRejectedSafety(r, x) \/ UnwindIncur(r, x)
    PROVE  NInv'
<1>0. NodeTypeOK /\ Safety[r] \in Nat
  BY NodeAssumed DEF NInv
<1>1. /\ UNCHANGED <<nodeReserved, nodeRequests, nodeLeases, nodeAged, nodeSpend, booked, freed>>
      /\ Incur(r) \/ UNCHANGED <<nodeUsed, overrun>>
      /\ nodeOuter' \subseteq Requests
  BY <1>0 DEF BookRejectedSafety, UnwindIncur, AfterNodeUnwindError, lease, NodeTypeOK
<1>2. /\ nodePc' \in [Requests -> NodePC]
      /\ \A q \in Requests \ {r} : nodePc'[q] = nodePc[q]
      /\ nodePc'[r] \notin {"new", "held", "settling", "settled"}
  BY <1>0 DEF BookRejectedSafety, UnwindIncur, AfterNodeUnwindError, NodeGoto, NodeTypeOK, NodePC,
     Ended
<1>3. /\ nodeUsed' \in [Cells -> Nat] /\ overrun' \in [Cells -> Nat]
      /\ \A c \in Cells : \E n \in Nat :
            nodeUsed'[c] = nodeUsed[c] + n /\ overrun'[c] = overrun[c] + n
  <2>1. CASE Incur(r)
    <3>1. /\ nodeUsed' = Plus(nodeUsed, Path[r], Safety[r])
          /\ overrun' = Plus(overrun, Path[r], Safety[r])
      BY <2>1 DEF Incur
    <3>2. nodeUsed' \in [Cells -> Nat] /\ overrun' \in [Cells -> Nat]
      BY <1>0, <3>1 DEF Plus, NodeTypeOK
    <3>3. ASSUME NEW c \in Cells
          PROVE  \E n \in Nat : nodeUsed'[c] = nodeUsed[c] + n /\ overrun'[c] = overrun[c] + n
      <4>1. CASE c \in Path[r]
        BY <1>0, <3>1, <4>1 DEF Plus
      <4>2. CASE c \notin Path[r]
        <5>1. nodeUsed'[c] = nodeUsed[c] + 0 /\ overrun'[c] = overrun[c] + 0
          BY <1>0, <3>1, <4>2 DEF Plus, NodeTypeOK
        <5> QED  BY <5>1
      <4> QED  BY <4>1, <4>2
    <3> QED  BY <3>2, <3>3
  <2>2. CASE UNCHANGED <<nodeUsed, overrun>>
    <3>1. \A c \in Cells : nodeUsed'[c] = nodeUsed[c] + 0 /\ overrun'[c] = overrun[c] + 0
      BY <1>0, <2>2 DEF NodeTypeOK
    <3> QED  BY <1>0, <2>2, <3>1 DEF NodeTypeOK
  <2> QED  BY <1>1, <2>1, <2>2
<1>4. NodeTypeOK'
  BY <1>0, <1>1, <1>2, <1>3 DEF NodeTypeOK
<1>5. ASSUME NEW q \in Requests PROVE NodeShapeOf(q)'
  BY <1>1, <1>2 DEF NInv, NodeShapeOf
<1>6. ASSUME NEW c \in Cells PROVE RowExact(c)'
  <2>1. RowExact(c)
    BY DEF NInv
  <2>2. Held(c)' = Held(c) /\ Counted(c)' = Counted(c)
    BY <1>1 DEF Held, Counted
  <2>3. ASSUME NodeCap[NodeOf[c]] # NoCap
        PROVE  nodeUsed'[c] + nodeReserved'[c] <= Share(c) + overrun'[c]
    <3>1. PICK n \in Nat : nodeUsed'[c] = nodeUsed[c] + n /\ overrun'[c] = overrun[c] + n
      BY <1>3
    <3>2. nodeUsed[c] \in Nat /\ nodeReserved[c] \in Nat /\ overrun[c] \in Nat /\ Share(c) \in Int
      BY <1>0, <2>3, NodeAssumed DEF NodeTypeOK, Share
    <3>3. /\ nodeUsed[c] + nodeReserved[c] <= Share(c) + overrun[c]
          /\ nodeReserved'[c] = nodeReserved[c]
      BY <1>1, <2>1, <2>3 DEF RowExact
    <3> QED  BY <3>1, <3>2, <3>3
  <2> QED  BY <1>1, <2>1, <2>2, <2>3 DEF RowExact, Share
<1> QED  BY <1>4, <1>5, <1>6 DEF NInv

(* What a live lease holds of a row is reserved there.                     *)
LEMMA LeaseReserved ==
    ASSUME NInv, NEW r \in nodeLeases, NEW c \in Path[r]
    PROVE  /\ c \in Cells /\ Est[r] <= nodeReserved[c]
           /\ Total(Freed(nodeLeases \ {r}, c), Est) = nodeReserved[c] - Est[r]
<1>1. r \in Requests /\ nodeLeases \in SUBSET Requests /\ {r} \in SUBSET nodeLeases /\ c \in Cells
  BY NodeAssumed DEF NInv, NodeTypeOK
<1>2. /\ Total(Freed(nodeLeases, c), Est)
            = Total(Freed({r}, c), Est) + Total(Freed(nodeLeases \ {r}, c), Est)
      /\ Total(Freed(nodeLeases \ {r}, c), Est) \in Nat
  BY <1>1, FreedTotals
<1>3. Total(Freed({r}, c), Est) = Est[r] /\ Est[r] \in Nat
  BY <1>1, FreedOne, NodeAssumed
<1>4. nodeReserved[c] = Total(Freed(nodeLeases, c), Est) /\ nodeReserved[c] \in Nat
  BY <1>1 DEF NInv, RowExact, Held, NodeTypeOK
<1> QED  BY <1>1, <1>2, <1>3, <1>4

(* settlePath books the spend and frees the hold if the lease is there.    *)
LEMMA NodeSettleKeeps ==
    ASSUME NInv, NEW r \in Requests, NEW x \in Results, SettlePath(r, x)
    PROVE  NInv'
<1> DEFINE held == IF r \in nodeLeases THEN Est[r] ELSE 0
<1>0. /\ NodeTypeOK /\ NodeShapeOf(r) /\ Est[r] \in Nat /\ nodeSpend[r] \in Nat /\ held \in Nat
      /\ nodePc[r] = "settling" /\ booked[r] = 0 /\ (r \in nodeLeases \/ freed[r] > 0)
      /\ (r \in nodeLeases => freed[r] = 0)
  BY NodeAssumed DEF NInv, NodeShapeOf, NodeTypeOK, SettlePath
<1>1. /\ UNCHANGED <<nodeRequests, nodeAged, nodeOuter, nodeSpend, freed>>
      /\ nodePc' = [nodePc EXCEPT ![r] = IF Failed(x) THEN "failed" ELSE "settled"]
  BY DEF SettlePath, NodeGoto
<1>2. CASE Committed(x)
  <2>1. /\ nodeLeases'   = nodeLeases \ {r}
        /\ nodeUsed'     = Plus(nodeUsed, Path[r], nodeSpend[r])
        /\ nodeReserved' = Minus(nodeReserved, Path[r], held)
        /\ booked'   = [booked EXCEPT ![r] = @ + 1]
        /\ overrun'  = Plus(overrun, Path[r], Less(nodeSpend[r], held))
    BY <1>2 DEF SettlePath, SettleEffect
  <2>2. NodeTypeOK'
    <3>1. Less(nodeSpend[r], held) \in Nat
      BY <1>0, NodeLessType
    <3>2. nodeUsed' \in [Cells -> Nat] /\ overrun' \in [Cells -> Nat]
      BY <1>0, <2>1, <3>1 DEF Plus, NodeTypeOK
    <3>3. nodeReserved' \in [Cells -> Nat]
      BY <1>0, <2>1, NodeLessType DEF Minus, NodeTypeOK
    <3> QED  BY <1>0, <1>1, <2>1, <3>2, <3>3 DEF NodeTypeOK, NodePC, Ended
  <2>3. ASSUME NEW q \in Requests PROVE NodeShapeOf(q)'
    <3>1. NodeShapeOf(q)
      BY DEF NInv
    <3>2. CASE q = r
      BY <1>0, <1>1, <2>1, <3>2 DEF NodeShapeOf, NodeTypeOK
    <3>3. CASE q # r
      BY <1>0, <1>1, <2>1, <3>1, <3>3 DEF NodeShapeOf, NodeTypeOK
    <3> QED  BY <3>2, <3>3
  <2>4. ASSUME NEW c \in Cells PROVE Counted(c)' = Counted(c)
    <3>1. booked'[r] = 1 /\ \A q \in Requests \ {r} : booked'[q] = booked[q]
      BY <1>0, <2>1 DEF NodeTypeOK
    <3>2. ASSUME NEW q \in Requests
          PROVE  (q \in nodeLeases' \/ (booked'[q] > 0 /\ freed'[q] = 0))
                    <=> (q \in nodeLeases \/ (booked[q] > 0 /\ freed[q] = 0))
      <4>1. CASE q = r
        <5>1. freed[r] \in Nat
          BY <1>0 DEF NodeTypeOK
        <5> QED  BY <1>0, <1>1, <2>1, <3>1, <4>1, <5>1
      <4>2. CASE q # r
        BY <1>1, <2>1, <3>1, <4>2
      <4> QED  BY <4>1, <4>2
    <3> QED  BY <3>2 DEF Counted
  <2>5. ASSUME NEW c \in Cells, c \notin Path[r] PROVE RowExact(c)'
    <3>1. Freed(nodeLeases', c) = Freed(nodeLeases, c)
      BY <2>1, <2>5 DEF Freed
    <3>2. /\ nodeReserved'[c] = nodeReserved[c] /\ nodeRequests'[c] = nodeRequests[c]
          /\ nodeUsed'[c] = nodeUsed[c] /\ overrun'[c] = overrun[c]
      BY <1>1, <2>1, <2>5 DEF Plus, Minus
    <3>3. RowExact(c)
      BY DEF NInv
    <3> QED  BY <2>4, <3>1, <3>2, <3>3 DEF RowExact, Held, Share
  <2>6. ASSUME NEW c \in Cells, c \in Path[r] PROVE RowExact(c)'
    <3>0. /\ RowExact(c) /\ nodeReserved[c] \in Nat /\ nodeRequests[c] \in Nat
          /\ nodeUsed[c] \in Nat /\ overrun[c] \in Nat
      BY <1>0 DEF NInv, NodeTypeOK
    <3>1. /\ held <= nodeReserved[c]
          /\ Total(Freed(nodeLeases', c), Est) = nodeReserved[c] - held
      <4>1. CASE r \in nodeLeases
        BY <2>1, <2>6, <4>1, LeaseReserved
      <4>2. CASE r \notin nodeLeases
        <5>1. nodeLeases' = nodeLeases
          BY <2>1, <4>2
        <5> QED  BY <3>0, <4>2, <5>1 DEF RowExact, Held
      <4> QED  BY <4>1, <4>2
    <3>2. /\ nodeUsed'[c] = nodeUsed[c] + nodeSpend[r]
          /\ nodeReserved'[c] = Less(nodeReserved[c], held)
          /\ overrun'[c] = overrun[c] + Less(nodeSpend[r], held)
          /\ nodeRequests'[c] = nodeRequests[c]
      BY <1>1, <2>1, <2>6 DEF Plus, Minus
    <3> HIDE DEF held
    <3>3. nodeReserved'[c] = nodeReserved[c] - held
      BY <1>0, <3>0, <3>1, <3>2 DEF Less
    <3>4. ASSUME NodeCap[NodeOf[c]] # NoCap
          PROVE  nodeUsed'[c] + nodeReserved'[c] <= Share(c) + overrun'[c]
      <4>1. Share(c) \in Int
        BY <3>4, NodeAssumed DEF Share
      <4>2. nodeUsed[c] + nodeReserved[c] <= Share(c) + overrun[c]
        BY <3>0, <3>4 DEF RowExact
      <4>3. Less(nodeSpend[r], held) \in Nat /\ Less(nodeSpend[r], held) >= nodeSpend[r] - held
        BY <1>0 DEF Less
      <4> QED  BY <1>0, <3>0, <3>2, <3>3, <4>1, <4>2, <4>3
    <3> QED  BY <2>4, <3>0, <3>1, <3>2, <3>3, <3>4 DEF RowExact, Held, Share
  <2> QED  BY <2>2, <2>3, <2>5, <2>6 DEF NInv
<1>3. CASE ~Committed(x)
  <2>1. /\ UNCHANGED <<nodeLeases, nodeUsed, nodeReserved, booked, overrun>>
        /\ nodePc' = [nodePc EXCEPT ![r] = "failed"]
    BY <1>1, <1>3 DEF SettlePath, Committed, Failed
  <2>2. NodeTypeOK'
    BY <1>0, <1>1, <2>1 DEF NodeTypeOK, NodePC, Ended
  <2>3. ASSUME NEW q \in Requests PROVE NodeShapeOf(q)'
    <3>1. NodeShapeOf(q)
      BY DEF NInv
    <3> QED  BY <1>0, <1>1, <2>1, <3>1 DEF NodeShapeOf, NodeTypeOK
  <2>4. ASSUME NEW c \in Cells PROVE RowExact(c)'
    BY <1>1, <2>1 DEF NInv, RowExact, Held, Counted, Share
  <2> QED  BY <2>2, <2>3, <2>4 DEF NInv
<1> QED  BY <1>2, <1>3

(* releaseEntries gives back exactly what the leases it drops had held.    *)
LEMMA NodeFreeKeeps ==
    ASSUME NInv, NEW S \in SUBSET nodeLeases, FreeHolds(S),
           UNCHANGED <<nodeUsed, nodeSpend, booked, overrun, nodeAged>>,
           nodePc' \in [Requests -> NodePC], nodeOuter' \subseteq Requests,
           \A q \in Requests :
               nodePc'[q] = nodePc[q] \/ nodePc'[q] \in {"done", "failed", "unwinding"}
    PROVE  NInv'
<1>0. /\ NodeTypeOK /\ S \in SUBSET Requests /\ nodeLeases \in SUBSET Requests
  BY DEF NInv, NodeTypeOK
<1>1. /\ nodeLeases'   = nodeLeases \ S
      /\ nodeReserved' = [c \in Cells |-> Less(nodeReserved[c], Total(Freed(S, c), Est))]
      /\ nodeRequests' = [c \in Cells |-> Less(nodeRequests[c], Cardinality(Freed(S, c)))]
      /\ freed'    = [q \in Requests |-> IF q \in S THEN freed[q] + 1 ELSE freed[q]]
  BY DEF FreeHolds
<1>2. ASSUME NEW c \in Cells
      PROVE  RowExact(c)' /\ nodeReserved'[c] \in Nat /\ nodeRequests'[c] \in Nat
  <2>0. /\ RowExact(c) /\ nodeReserved[c] \in Nat /\ nodeRequests[c] \in Nat
        /\ nodeUsed[c] \in Nat /\ overrun[c] \in Nat
    BY <1>0 DEF NInv, NodeTypeOK
  <2>1. /\ Total(Freed(nodeLeases, c), Est)
                = Total(Freed(S, c), Est) + Total(Freed(nodeLeases', c), Est)
        /\ Total(Freed(S, c), Est) \in Nat /\ Total(Freed(nodeLeases', c), Est) \in Nat
    BY <1>0, <1>1, FreedTotals
  <2>2. /\ nodeReserved'[c] = nodeReserved[c] - Total(Freed(S, c), Est)
        /\ nodeReserved'[c] = Held(c)' /\ nodeReserved'[c] \in Nat
    BY <1>1, <2>0, <2>1 DEF RowExact, Held, Less
  <2>3. /\ Freed(S, c) \in SUBSET Counted(c)
        /\ Counted(c)' = Counted(c) \ Freed(S, c)
    <3>1. Freed(S, c) \in SUBSET Counted(c)
      BY <1>0 DEF Freed, Counted
    <3>2. ASSUME NEW q \in Requests, c \in Path[q]
          PROVE  (q \in nodeLeases' \/ (booked'[q] > 0 /\ freed'[q] = 0))
                    <=> (q \in nodeLeases \/ (booked[q] > 0 /\ freed[q] = 0)) /\ q \notin S
      <4>1. freed[q] \in Nat
        BY <1>0 DEF NodeTypeOK
      <4>2. CASE q \in S
        BY <1>1, <4>1, <4>2
      <4>3. CASE q \notin S
        BY <1>1, <4>3
      <4> QED  BY <4>2, <4>3
    <3> QED  BY <3>1, <3>2 DEF Freed, Counted
  <2>4. /\ IsFiniteSet(Counted(c)) /\ Cardinality(Counted(c)) = nodeRequests[c]
        /\ IsFiniteSet(Freed(S, c)) /\ Cardinality(Freed(S, c)) \in Nat
    BY <2>0, <2>3, CountedFinite, FS_Subset, FS_CardinalityType DEF RowExact
  <2>5. /\ Cardinality(Freed(S, c)) <= Cardinality(Counted(c))
        /\ Cardinality(Counted(c) \ Freed(S, c))
                = Cardinality(Counted(c)) - Cardinality(Freed(S, c))
    <3>1. Cardinality(Freed(S, c)) <= Cardinality(Counted(c))
      BY <2>3, <2>4, FS_Subset
    <3>2. Counted(c) \cap Freed(S, c) = Freed(S, c)
      BY <2>3
    <3>3. Cardinality(Counted(c) \ Freed(S, c))
            = Cardinality(Counted(c)) - Cardinality(Counted(c) \cap Freed(S, c))
      BY <2>4, FS_Difference
    <3> QED  BY <3>1, <3>2, <3>3
  <2>6. nodeRequests'[c] = Cardinality(Counted(c)') /\ nodeRequests'[c] \in Nat
    <3>1. nodeRequests'[c] = Less(nodeRequests[c], Cardinality(Freed(S, c)))
      BY <1>1
    <3> QED  BY <2>0, <2>3, <2>4, <2>5, <3>1 DEF Less
  <2>7. ASSUME NodeCap[NodeOf[c]] # NoCap
        PROVE  nodeUsed'[c] + nodeReserved'[c] <= Share(c) + overrun'[c]
    <3>1. Share(c) \in Int
      BY <2>7, NodeAssumed DEF Share
    <3>2. nodeUsed[c] + nodeReserved[c] <= Share(c) + overrun[c]
      BY <2>0, <2>7 DEF RowExact
    <3> QED  BY <2>0, <2>1, <2>2, <3>1, <3>2
  <2> QED  BY <2>2, <2>6, <2>7 DEF RowExact, Share
<1>3. NodeTypeOK'
  <2>1. nodeReserved' \in [Cells -> Nat] /\ nodeRequests' \in [Cells -> Nat]
    BY <1>1, <1>2
  <2>2. freed' \in [Requests -> Nat]
    BY <1>0, <1>1 DEF NodeTypeOK
  <2> QED  BY <1>0, <1>1, <2>1, <2>2 DEF NodeTypeOK
<1>4. ASSUME NEW q \in Requests PROVE NodeShapeOf(q)'
  <2>1. NodeShapeOf(q) /\ freed[q] \in Nat
    BY <1>0 DEF NInv, NodeTypeOK
  <2>2. CASE q \in S
    BY <1>0, <1>1, <2>1, <2>2 DEF NodeShapeOf
  <2>3. CASE q \notin S
    BY <1>0, <1>1, <2>1, <2>3 DEF NodeShapeOf
  <2> QED  BY <2>2, <2>3
<1> QED  BY <1>2, <1>3, <1>4 DEF NInv

(* releasePath gives back the hold of one request, if it still has one.    *)
LEMMA NodeReleaseKeeps ==
    ASSUME NInv, NEW r \in Requests, NEW x \in Results, UnwindRelease(r, x)
    PROVE  NInv'
<1>0. NodeTypeOK
  BY DEF NInv
<1>1. /\ UNCHANGED <<nodeUsed, nodeAged, nodeSpend, booked, overrun>>
      /\ nodeOuter' \subseteq Requests
      /\ nodePc' \in [Requests -> NodePC]
      /\ \A q \in Requests :
             nodePc'[q] = nodePc[q] \/ nodePc'[q] \in {"done", "failed", "unwinding"}
  BY <1>0 DEF UnwindRelease, AfterNodeUnwindError, NodeGoto, NodeTypeOK, NodePC,
     Ended
<1>2. CASE Committed(x)
  <2>1. FreeHolds({r} \cap nodeLeases)
    BY <1>2 DEF UnwindRelease
  <2> QED  BY <1>1, <2>1, NodeFreeKeeps
<1>3. CASE ~Committed(x)
  <2>1. UNCHANGED <<nodeLeases, nodeReserved, nodeRequests, freed>>
    BY <1>3 DEF UnwindRelease
  <2>2. NodeTypeOK'
    BY <1>0, <1>1, <2>1 DEF NodeTypeOK
  <2>3. ASSUME NEW q \in Requests PROVE NodeShapeOf(q)'
    BY <1>1, <2>1 DEF NInv, NodeShapeOf
  <2>4. ASSUME NEW c \in Cells PROVE RowExact(c)'
    BY <1>1, <2>1 DEF NInv, RowExact, Held, Counted, Share
  <2> QED  BY <2>2, <2>3, <2>4 DEF NInv
<1> QED  BY <1>2, <1>3

(* Every step keeps the invariant.                                         *)
LEMMA NodesKept == NInv /\ [NodeNext]_nodeVars => NInv'
<1> SUFFICES ASSUME NInv, [NodeNext]_nodeVars PROVE NInv'
  OBVIOUS
<1>1. ASSUME NEW r \in Requests, NodeStep(r) PROVE NInv'
  <2>1. CASE NodeQuiet(r)
    BY <2>1, NodeQuietKeeps
  <2>2. CASE \E x \in Results : ReservePath(r, x)
    BY <2>2, NodeReserveKeeps
  <2>3. CASE \E x \in Results : SettlePath(r, x)
    BY <2>3, NodeSettleKeeps
  <2>4. CASE \E x \in Results : UnwindRelease(r, x)
    BY <2>4, NodeReleaseKeeps
  <2>5. CASE \E x \in IncurResults(r) : BookRejectedSafety(r, x) \/ UnwindIncur(r, x)
    BY <2>5, NodeIncurKeeps
  <2> QED  BY <1>1, <2>1, <2>2, <2>3, <2>4, <2>5 DEF NodeStep, NodeQuiet
<1>2. ASSUME NEW r \in Requests, NodeCrash(r) PROVE NInv'
  BY <1>2, NodeQuietKeeps DEF NodeQuiet
<1>3. ASSUME NEW r \in Requests, NodeAge(r) PROVE NInv'
  <2>1. /\ nodeAged' = nodeAged \cup {r} /\ r \in nodeLeases
        /\ UNCHANGED <<nodeUsed, nodeReserved, nodeRequests, nodeLeases, nodePc, nodeOuter,
                      nodeSpend, booked, freed, overrun>>
    BY <1>3 DEF NodeAge, ledger, nodeClient, nodeHistory
  <2>2. NodeTypeOK'
    BY <2>1 DEF NInv, NodeTypeOK
  <2> QED  BY <2>1, <2>2 DEF NInv, NodeShapeOf, RowExact, Held, Counted, Share
<1>4. CASE CleanupStaleNodeLeases
  <2>1. /\ FreeHolds(nodeLeases \cap nodeAged) /\ nodeLeases \cap nodeAged \in SUBSET nodeLeases
        /\ UNCHANGED <<nodeUsed, nodeSpend, booked, overrun, nodeAged>>
        /\ nodePc' = nodePc /\ nodeOuter' = nodeOuter
    BY <1>4 DEF CleanupStaleNodeLeases, nodeClient
  <2>2. nodePc' \in [Requests -> NodePC] /\ nodeOuter' \subseteq Requests
    BY <2>1 DEF NInv, NodeTypeOK
  <2>3. \A q \in Requests :
            nodePc'[q] = nodePc[q] \/ nodePc'[q] \in {"done", "failed", "unwinding"}
    BY <2>1
  <2> QED  BY <2>1, <2>2, <2>3, NodeFreeKeeps
<1>5. CASE UNCHANGED nodeVars
  <2>1. UNCHANGED <<nodeUsed, nodeReserved, nodeRequests, nodeLeases, nodeAged, nodePc,
                    nodeOuter, nodeSpend, booked, freed, overrun>>
    BY <1>5 DEF nodeVars, ledger, lease, nodeClient, nodeHistory
  <2>2. NodeTypeOK'
    BY <2>1 DEF NInv, NodeTypeOK
  <2> QED  BY <2>1, <2>2 DEF NInv, NodeShapeOf, RowExact, Held, Counted, Share
<1> QED  BY <1>1, <1>2, <1>3, <1>4, <1>5 DEF NodeNext

(* The rows start empty.                                                   *)
LEMMA NodesBegin == NodeInit => NInv
<1> SUFFICES ASSUME NodeInit PROVE NInv
  OBVIOUS
<1>1. NodeTypeOK
  BY DEF NodeInit, NodeTypeOK, NodePC
<1>2. \A r \in Requests : NodeShapeOf(r)
  BY DEF NodeInit, NodeShapeOf
<1>3. ASSUME NEW c \in Cells PROVE RowExact(c)
  <2>1. Freed(nodeLeases, c) = {} /\ Counted(c) = {}
    BY DEF NodeInit, Freed, Counted
  <2>2. Held(c) = 0 /\ Cardinality(Counted(c)) = 0
    BY <2>1, TotalEmpty, FS_EmptySet DEF Held
  <2>3. ASSUME NodeCap[NodeOf[c]] # NoCap
        PROVE  nodeUsed[c] + nodeReserved[c] <= Share(c) + overrun[c]
    <3>1. NodeCap[NodeOf[c]] \in Nat /\ Shards[NodeOf[c]] \in Nat \ {0}
      BY <2>3, NodeAssumed
    <3>2. Share(c) \in Nat
      BY <3>1 DEF Share
    <3> QED  BY <3>2 DEF NodeInit
  <2> QED  BY <2>2, <2>3 DEF NodeInit, RowExact
<1> QED  BY <1>1, <1>2, <1>3 DEF NInv

(* The invariant is inductive, so it holds throughout.                     *)
LEMMA NodeInvariant == NodeSpec => []NInv
<1>1. NodeInit => NInv
  BY NodesBegin
<1>2. NInv /\ [NodeNext]_nodeVars => NInv'
  BY NodesKept
<1> QED  BY <1>1, <1>2, PTL DEF NodeSpec

(* On every row of every path exactly the live leases are reserved, a      *)
(* request counts on all rows of its path or on none, and a settled request *)
(* is booked: even when a slow one races the sweep (settlePath,            *)
(* releaseEntries, cleanupStaleNodeLeases).                                *)
THEOREM NodesAreExact == NodeSpec => []NodesExact
<1>1. NInv => NodesExact
  BY DEF NInv, NodeShapeOf, RowExact, Counted, NodesExact, PathExact, PathHoldsExact,
     PathRequestsExact, SettledIsBooked
<1> QED  BY <1>1, NodeInvariant, PTL

(* The shards of a node together stay within the node's cap, save for what *)
(* was booked beyond its hold: each row has a floored share of the cap, and *)
(* at most Shards[n] rows belong to node n (NODE_RESERVE_SQL).             *)
THEOREM NodeCapsHold == NodeSpec => []NodeCapRespected
<1>1. NInv => NodeCapRespected
  <2> SUFFICES ASSUME NInv, NEW n \in Nodes, NodeCap[n] # NoCap
               PROVE  OnNode(n, nodeUsed) + OnNode(n, nodeReserved)
                        <= NodeCap[n] + OnNode(n, overrun)
    BY DEF NodeCapRespected
  <2> DEFINE S == ShardsOf(n)
             k == NodeCap[n] \div Shards[n]
             share == [c \in S |-> k]
             both  == [c \in S |-> nodeUsed[c] + nodeReserved[c]]
             limit == [c \in S |-> share[c] + overrun[c]]
  <2>1. /\ S \in SUBSET Cells /\ IsFiniteSet(S) /\ Cardinality(S) <= Shards[n]
        /\ Cardinality(S) \in Nat /\ Shards[n] \in Nat \ {0} /\ NodeCap[n] \in Nat
        /\ \A c \in S : NodeOf[c] = n
    BY NodeAssumed, FS_Subset, FS_CardinalityType DEF ShardsOf
  <2>2. k \in Nat /\ Cardinality(S) * k <= NodeCap[n]
    BY <2>1, ShareFits
  <2>3. \A c \in S : /\ nodeUsed[c] \in Nat /\ nodeReserved[c] \in Nat /\ overrun[c] \in Nat
                      /\ nodeUsed[c] + nodeReserved[c] <= k + overrun[c]
    BY <2>1 DEF NInv, NodeTypeOK, RowExact, Share
  <2>4. Total(S, both) = Total(S, nodeUsed) + Total(S, nodeReserved)
    BY <2>1, <2>3, TotalSum
  <2>5. Total(S, limit) = Total(S, share) + Total(S, overrun)
    BY <2>1, <2>2, <2>3, TotalSum
  <2>6. Total(S, share) = Cardinality(S) * k
    BY <2>1, <2>2, TotalConst
  <2>7. Total(S, both) <= Total(S, limit)
    BY <2>1, <2>2, <2>3, TotalMono
  <2>8. Total(S, overrun) \in Nat /\ Total(S, nodeUsed) \in Nat /\ Total(S, nodeReserved) \in Nat
    BY <2>1, <2>3, UnitsFinite
  <2>9. Cardinality(S) * k \in Nat
    BY <2>1, <2>2
  <2> HIDE DEF S, k, share, both, limit
  <2>10. Total(S, nodeUsed) + Total(S, nodeReserved) <= NodeCap[n] + Total(S, overrun)
    BY <2>1, <2>2, <2>4, <2>5, <2>6, <2>7, <2>8, <2>9
  <2> QED  BY <2>10 DEF OnNode, S
<1> QED  BY <1>1, NodeInvariant, PTL
-----------------------------------------------------------------------------
(* The ledger implements HoldLedger.  What NInv does not say of a request: *)
(* a hold that is open, or may still be unwound, has not been settled, one *)
(* that was rejected never existed, and what is settled is a cost of the   *)
(* call.                                                                   *)
OnceOf(r) ==
    /\ r \in nodeLeases => booked[r] = 0
    /\ nodePc[r] \in {"new", "rejected"} => r \notin nodeLeases /\ booked[r] = 0 /\ freed[r] = 0
    /\ nodePc[r] \in {"unwinding", "freeing"} => booked[r] = 0
    /\ nodePc[r] = "settling" => nodeSpend[r] \in Actual[r]

OInv == \A r \in Requests : OnceOf(r)

(* Steps that leave leases and history alone.                              *)
LEMMA OnceQuiet ==
    ASSUME NInv, OInv, NEW r \in Requests, NodeQuiet(r)
    PROVE  OInv'
<1>0. NodeTypeOK /\ NodeShapeOf(r)
  BY DEF NInv
<1>1. UNCHANGED <<nodeLeases, booked, freed>>
  BY DEF NodeQuiet, ReserveRejected, NodeProviderFails, NodeFallbackBlocked, NodeCrash,
     NodeDeliver, ledger, lease, nodeHistory
<1>2. \A q \in Requests \ {r} : nodePc'[q] = nodePc[q] /\ nodeSpend'[q] = nodeSpend[q]
  BY <1>0 DEF NodeQuiet, ReserveRejected, NodeProviderFails, NodeFallbackBlocked, NodeCrash,
     NodeDeliver, NodeGoto, NodeTypeOK
<1>3. ASSUME NEW q \in Requests, q # r PROVE OnceOf(q)'
  BY <1>1, <1>2, <1>3 DEF OInv, OnceOf
<1>4. OnceOf(r)'
  <2>0. OnceOf(r)
    BY DEF OInv
  <2>1. CASE ReserveRejected(r)
    <3>1. nodePc[r] = "new" /\ nodePc'[r] = "rejected"
      BY <1>0, <2>1 DEF ReserveRejected, NodeGoto, NodeTypeOK
    <3> QED  BY <1>0, <1>1, <2>0, <3>1 DEF OnceOf, NodeShapeOf
  <2>2. CASE NodeProviderFails(r) \/ NodeFallbackBlocked(r)
    <3>1. nodePc[r] = "held" /\ nodePc'[r] = "unwinding"
      BY <1>0, <2>2 DEF NodeProviderFails, NodeFallbackBlocked, NodeGoto, NodeTypeOK
    <3> QED  BY <1>0, <1>1, <2>0, <3>1 DEF OnceOf, NodeShapeOf
  <2>3. CASE NodeCrash(r)
    <3>1. nodePc'[r] = "crashed"
      BY <1>0, <2>3 DEF NodeCrash, NodeGoto, NodeTypeOK
    <3> QED  BY <1>1, <2>0, <3>1 DEF OnceOf
  <2>4. CASE \E a \in Actual[r] : NodeDeliver(r, a)
    <3>1. nodePc'[r] = "settling" /\ nodeSpend'[r] \in Actual[r]
      BY <1>0, <2>4 DEF NodeDeliver, NodeGoto, NodeTypeOK
    <3> QED  BY <1>1, <2>0, <3>1 DEF OnceOf
  <2> QED  BY <2>1, <2>2, <2>3, <2>4 DEF NodeQuiet
<1> QED  BY <1>3, <1>4 DEF OInv

(* A hold is opened by a request that has none.                            *)
LEMMA OnceReserve ==
    ASSUME NInv, OInv, NEW r \in Requests, NEW x \in Results, ReservePath(r, x)
    PROVE  OInv'
<1>0. NodeTypeOK /\ OnceOf(r)
  BY DEF NInv, OInv
<1>1. /\ UNCHANGED <<booked, freed, nodeSpend>> /\ nodePc[r] = "new"
      /\ nodeLeases' = nodeLeases \cup {r} \/ nodeLeases' = nodeLeases
  BY DEF ReservePath, nodeHistory
<1>2. nodePc'[r] \in {"held", "failed"} /\ \A q \in Requests \ {r} : nodePc'[q] = nodePc[q]
  BY <1>0 DEF ReservePath, NodeGoto, NodeTypeOK
<1>3. ASSUME NEW q \in Requests PROVE OnceOf(q)'
  <2>0. OnceOf(q)
    BY DEF OInv
  <2>1. CASE q = r
    BY <1>0, <1>1, <1>2, <2>1 DEF OnceOf
  <2>2. CASE q # r
    BY <1>1, <1>2, <2>0, <2>2 DEF OnceOf
  <2> QED  BY <2>1, <2>2
<1> QED  BY <1>3 DEF OInv

(* Safety spend settles no hold.                                           *)
LEMMA OnceIncur ==
    ASSUME NInv, OInv, NEW r \in Requests, NEW x \in IncurResults(r),
           BookRejectedSafety(r, x) \/ UnwindIncur(r, x)
    PROVE  OInv'
<1>0. NodeTypeOK /\ OnceOf(r)
  BY DEF NInv, OInv
<1>1. UNCHANGED <<booked, freed, nodeSpend, nodeLeases>>
  BY DEF BookRejectedSafety, UnwindIncur, lease
<1>2. \A q \in Requests \ {r} : nodePc'[q] = nodePc[q]
  BY <1>0 DEF BookRejectedSafety, UnwindIncur, AfterNodeUnwindError, NodeGoto, NodeTypeOK
<1>3. \/ nodePc'[r] \in {"failed", "done"}
      \/ nodePc[r] = "unwinding" /\ nodePc'[r] \in {"unwinding", "freeing"}
  BY <1>0 DEF BookRejectedSafety, UnwindIncur, AfterNodeUnwindError, NodeGoto, NodeTypeOK
<1>4. ASSUME NEW q \in Requests PROVE OnceOf(q)'
  <2>0. OnceOf(q)
    BY DEF OInv
  <2>1. CASE q = r
    BY <1>0, <1>1, <1>3, <2>1 DEF OnceOf
  <2>2. CASE q # r
    BY <1>1, <1>2, <2>0, <2>2 DEF OnceOf
  <2> QED  BY <2>1, <2>2
<1> QED  BY <1>4 DEF OInv

(* A settle takes the lease with it.                                       *)
LEMMA OnceSettle ==
    ASSUME NInv, OInv, NEW r \in Requests, NEW x \in Results, SettlePath(r, x)
    PROVE  OInv'
<1>0. NodeTypeOK /\ OnceOf(r)
  BY DEF NInv, OInv
<1>1. /\ UNCHANGED <<freed, nodeSpend>> /\ nodePc'[r] \in {"failed", "settled"}
      /\ \A q \in Requests \ {r} : nodePc'[q] = nodePc[q]
  BY <1>0 DEF SettlePath, NodeGoto, NodeTypeOK
<1>2. \/ /\ nodeLeases' = nodeLeases \ {r}
         /\ \A q \in Requests \ {r} : booked'[q] = booked[q]
      \/ UNCHANGED <<nodeLeases, booked>>
  BY <1>0 DEF SettlePath, SettleEffect, NodeTypeOK
<1>3. ASSUME NEW q \in Requests PROVE OnceOf(q)'
  <2>0. OnceOf(q)
    BY DEF OInv
  <2>1. CASE q = r
    BY <1>0, <1>1, <1>2, <2>1 DEF OnceOf
  <2>2. CASE q # r
    BY <1>1, <1>2, <2>0, <2>2 DEF OnceOf
  <2> QED  BY <2>1, <2>2
<1> QED  BY <1>3 DEF OInv

(* A release or a sweep only drops leases.                                 *)
LEMMA OnceFree ==
    ASSUME NInv, OInv, NEW S \in SUBSET nodeLeases, FreeHolds(S),
           UNCHANGED <<booked, nodeSpend>>,
           \A q \in Requests : \/ nodePc'[q] = nodePc[q]
                               \/ nodePc'[q] \in {"done", "failed"}
                               \/ nodePc[q] = "freeing" /\ nodePc'[q] = "unwinding"
    PROVE  OInv'
<1>0. NodeTypeOK /\ S \in SUBSET Requests
  BY DEF NInv, NodeTypeOK
<1>1. /\ nodeLeases' = nodeLeases \ S
      /\ \A q \in Requests \ S : freed'[q] = freed[q]
  BY DEF FreeHolds
<1>2. ASSUME NEW q \in Requests PROVE OnceOf(q)'
  <2>0. OnceOf(q)
    BY DEF OInv
  <2>1. nodePc'[q] \in {"new", "rejected"} => q \notin S
    BY <2>0 DEF OnceOf
  <2> QED  BY <1>1, <2>0, <2>1 DEF OnceOf
<1> QED  BY <1>2 DEF OInv

(* UnwindRelease, which may also fail.                                     *)
LEMMA OnceRelease ==
    ASSUME NInv, OInv, NEW r \in Requests, NEW x \in Results, UnwindRelease(r, x)
    PROVE  OInv'
<1>0. NodeTypeOK
  BY DEF NInv
<1>1. /\ UNCHANGED <<booked, nodeSpend>>
      /\ nodePc[r] = "freeing" /\ nodePc'[r] \in {"done", "failed", "unwinding"}
      /\ \A q \in Requests \ {r} : nodePc'[q] = nodePc[q]
  BY <1>0 DEF UnwindRelease, AfterNodeUnwindError, NodeGoto, NodeTypeOK
<1>2. \A q \in Requests : \/ nodePc'[q] = nodePc[q]
                          \/ nodePc'[q] \in {"done", "failed"}
                          \/ nodePc[q] = "freeing" /\ nodePc'[q] = "unwinding"
  BY <1>1
<1>3. CASE Committed(x)
  <2>1. FreeHolds({r} \cap nodeLeases)
    BY <1>3 DEF UnwindRelease
  <2> QED  BY <1>1, <1>2, <2>1, OnceFree
<1>4. CASE ~Committed(x)
  <2>1. UNCHANGED <<nodeLeases, freed>>
    BY <1>4 DEF UnwindRelease
  <2>2. ASSUME NEW q \in Requests PROVE OnceOf(q)'
    <3>1. OnceOf(q)
      BY DEF OInv
    <3> QED  BY <1>1, <1>2, <2>1, <3>1 DEF OnceOf
  <2> QED  BY <2>2 DEF OInv
<1> QED  BY <1>3, <1>4

(* Every step keeps it.                                                    *)
LEMMA OnceKept == NInv /\ OInv /\ [NodeNext]_nodeVars => OInv'
<1> SUFFICES ASSUME NInv, OInv, [NodeNext]_nodeVars PROVE OInv'
  OBVIOUS
<1>1. ASSUME NEW r \in Requests, NodeStep(r) PROVE OInv'
  <2>1. CASE NodeQuiet(r)
    BY <2>1, OnceQuiet
  <2>2. CASE \E x \in Results : ReservePath(r, x)
    BY <2>2, OnceReserve
  <2>3. CASE \E x \in Results : SettlePath(r, x)
    BY <2>3, OnceSettle
  <2>4. CASE \E x \in Results : UnwindRelease(r, x)
    BY <2>4, OnceRelease
  <2>5. CASE \E x \in IncurResults(r) : BookRejectedSafety(r, x) \/ UnwindIncur(r, x)
    BY <2>5, OnceIncur
  <2> QED  BY <1>1, <2>1, <2>2, <2>3, <2>4, <2>5 DEF NodeStep, NodeQuiet
<1>2. ASSUME NEW r \in Requests, NodeCrash(r) PROVE OInv'
  BY <1>2, OnceQuiet DEF NodeQuiet
<1>3. CASE \/ \E r \in Requests : NodeAge(r)
           \/ UNCHANGED nodeVars
  <2>1. UNCHANGED <<nodePc, nodeLeases, booked, freed, nodeSpend>>
    BY <1>3 DEF NodeAge, nodeVars, lease, nodeClient, nodeHistory
  <2> QED  BY <2>1 DEF OInv, OnceOf
<1>4. CASE CleanupStaleNodeLeases
  <2>1. /\ FreeHolds(nodeLeases \cap nodeAged)
        /\ UNCHANGED <<booked, nodeSpend>> /\ nodePc' = nodePc
    BY <1>4 DEF CleanupStaleNodeLeases, nodeClient
  <2>2. nodeLeases \cap nodeAged \in SUBSET nodeLeases
    OBVIOUS
  <2> QED  BY <2>1, <2>2, OnceFree
<1> QED  BY <1>1, <1>2, <1>3, <1>4 DEF NodeNext

(* So both hold throughout.                                                *)
LEMMA NodeOnce == NodeSpec => [](NInv /\ OInv)
<1>1. NodeInit => NInv /\ OInv
  <2>1. NodeInit => OInv
    BY DEF NodeInit, OInv, OnceOf
  <2> QED  BY <2>1, NodesBegin
<1>2. NInv /\ OInv /\ [NodeNext]_nodeVars => NInv' /\ OInv'
  BY NodesKept, OnceKept
<1> QED  BY <1>1, <1>2, PTL DEF NodeSpec

-----------------------------------------------------------------------------
(* The instance sums as this module does.                                  *)
LEMMA LedgerTotals == \A S, f : Ledger!Total(S, f) = Total(S, f)
<1>1. \A S : Ledger!Cardinality(S) = Cardinality(S)
  BY DEF Ledger!Cardinality, Cardinality
<1> QED  BY <1>1 DEF Ledger!Total, Total, Ledger!Units, Units, Ledger!UnitsOf, UnitsOf

(* What the mapping makes of a request.                                    *)
LEMMA HoldOfIs ==
    ASSUME NEW r \in Requests, booked[r] \in Nat, freed[r] \in Nat
    PROVE  /\ booked[r] > 0 => HoldOf(r) = "settled"
           /\ booked[r] = 0 /\ r \in nodeLeases => HoldOf(r) = "open"
           /\ booked[r] = 0 /\ r \notin nodeLeases /\ freed[r] > 0 => HoldOf(r) = "freed"
           /\ booked[r] = 0 /\ r \notin nodeLeases /\ freed[r] = 0 => HoldOf(r) = "none"
<1>1. CASE booked[r] > 0
  BY <1>1 DEF HoldOf
<1>2. CASE booked[r] = 0 /\ r \in nodeLeases
  BY <1>2 DEF HoldOf
<1>3. CASE booked[r] = 0 /\ r \notin nodeLeases /\ freed[r] > 0
  BY <1>3 DEF HoldOf
<1>4. CASE booked[r] = 0 /\ r \notin nodeLeases /\ freed[r] = 0
  BY <1>4 DEF HoldOf
<1> QED  BY <1>1, <1>2, <1>3, <1>4

(* The requests whose hold is open are those with a lease.                 *)
LEMMA OpenIsLeased == NInv /\ OInv => Ledger!Open = nodeLeases
<1> SUFFICES ASSUME NInv, OInv PROVE Ledger!Open = nodeLeases
  OBVIOUS
<1>1. nodeLeases \in SUBSET Requests
  BY DEF NInv, NodeTypeOK
<1>2. ASSUME NEW r \in Requests PROVE HoldOf(r) = "open" <=> r \in nodeLeases
  <2>1. booked[r] \in Nat /\ freed[r] \in Nat /\ OnceOf(r)
    BY DEF NInv, OInv, NodeTypeOK
  <2> QED  BY <2>1, HoldOfIs DEF OnceOf
<1> QED  BY <1>1, <1>2 DEF Ledger!Open

(* What a set of leases holds of a row is no more than what is reserved.   *)
LEMMA LeasesCovered ==
    ASSUME NInv, NEW S \in SUBSET nodeLeases, NEW c \in Cells
    PROVE  /\ Total(Freed(S, c), Est) \in Nat /\ nodeReserved[c] \in Nat
           /\ Total(Freed(S, c), Est) <= nodeReserved[c]
<1>1. nodeLeases \in SUBSET Requests /\ nodeReserved[c] \in Nat
  BY DEF NInv, NodeTypeOK
<1>2. /\ Total(Freed(nodeLeases, c), Est)
            = Total(Freed(S, c), Est) + Total(Freed(nodeLeases \ S, c), Est)
      /\ Total(Freed(S, c), Est) \in Nat /\ Total(Freed(nodeLeases \ S, c), Est) \in Nat
  BY <1>1, FreedTotals
<1>3. nodeReserved[c] = Total(Freed(nodeLeases, c), Est)
  BY DEF NInv, RowExact, Held
<1> QED  BY <1>1, <1>2, <1>3

(* Nothing moves where leases, history and money stay.                     *)
LEMMA LedgerStutters ==
    ASSUME UNCHANGED <<nodeUsed, nodeReserved, nodeLeases, booked, freed>>
    PROVE  UNCHANGED Ledger!vars
<1>1. \A r \in Requests : HoldOf(r)' = HoldOf(r)
  BY DEF HoldOf
<1> QED  BY <1>1 DEF Ledger!vars

(* reservePath opens the hold, where every row of the path has room.       *)
LEMMA LedgerHolds ==
    ASSUME NInv, OInv, NEW r \in Requests, NEW x \in Results, ReservePath(r, x),
           Committed(x)
    PROVE  Ledger!Hold(r)
<1>0. /\ NodeTypeOK /\ OnceOf(r) /\ nodePc[r] = "new" /\ Est[r] \in Nat
      /\ UNCHANGED <<nodeUsed, booked, freed>>
      /\ nodeReserved' = Plus(nodeReserved, Path[r], Est[r])
      /\ nodeLeases' = nodeLeases \cup {r}
  BY NodeAssumed DEF NInv, OInv, ReservePath, nodeHistory
<1>1. HoldOf(r) = "none" /\ HoldOf(r)' = "open"
  <2>1. booked[r] = 0 /\ freed[r] = 0 /\ r \notin nodeLeases
    BY <1>0 DEF OnceOf
  <2> QED  BY <1>0, <2>1, HoldOfIs DEF HoldOf
<1>2. ASSUME NEW q \in Requests, q # r PROVE HoldOf(q)' = HoldOf(q)
  BY <1>0, <1>2 DEF HoldOf
<1>3. [q \in Requests |-> HoldOf(q)]'
        = [[q \in Requests |-> HoldOf(q)] EXCEPT ![r] = "open"]
  BY <1>1, <1>2
<1>4. ASSUME NEW c \in Path[r] PROVE Ledger!HasRoom(r, c)
  <2>1. c \in Cells
    BY NodeAssumed
  <2> SUFFICES ASSUME RowLimit(c) # NoCap
               PROVE  nodeUsed[c] + nodeReserved[c] + Est[r] <= RowLimit(c)
    BY <2>1 DEF Ledger!HasRoom
  <2>2. /\ NodeCap[NodeOf[c]] # NoCap
        /\ RowLimit(c) = NodeCap[NodeOf[c]] \div Shards[NodeOf[c]]
    BY DEF RowLimit
  <2>3. NodeCap[NodeOf[c]] \in Nat /\ Shards[NodeOf[c]] \in Nat \ {0}
    BY <2>1, <2>2, NodeAssumed
  <2>4. (nodeUsed[c] + nodeReserved[c] + Est[r]) * Shards[NodeOf[c]] <= NodeCap[NodeOf[c]]
    BY <2>2 DEF ReservePath, Fits
  <2>5. nodeUsed[c] + nodeReserved[c] + Est[r] \in Nat
    BY <1>0, <2>1 DEF NodeTypeOK
  <2> QED  BY <2>2, <2>3, <2>4, <2>5, ShareFits
<1>5. [q \in Requests |-> HoldOf(q)][r] = "none"
  BY <1>1
<1> QED  BY <1>0, <1>3, <1>4, <1>5 DEF Ledger!Hold, Plus

(* Safety spend is booked on the rows of the path.                         *)
LEMMA LedgerIncurs ==
    ASSUME NInv, OInv, NEW r \in Requests, NEW x \in IncurResults(r),
           BookRejectedSafety(r, x) \/ UnwindIncur(r, x), Incur(r)
    PROVE  Ledger!Incur(r)
<1>1. /\ UNCHANGED <<nodeReserved, nodeLeases, booked, freed>> /\ booked[r] = 0
      /\ freed[r] \in Nat /\ nodeUsed' = Plus(nodeUsed, Path[r], Safety[r])
  BY DEF BookRejectedSafety, UnwindIncur, lease, OInv, OnceOf, Incur, NInv, NodeTypeOK
<1>2. \A q \in Requests : HoldOf(q)' = HoldOf(q)
  BY <1>1 DEF HoldOf
<1>3. HoldOf(r) # "settled"
  BY <1>1 DEF HoldOf
<1> QED  BY <1>1, <1>2, <1>3 DEF Ledger!Incur, Ledger!Book, Plus

(* releaseEntries frees the holds of the leases it drops.                  *)
LEMMA LedgerFrees ==
    ASSUME NInv, OInv, NEW S \in SUBSET nodeLeases, FreeHolds(S),
           UNCHANGED <<booked, nodeUsed>>
    PROVE  Ledger!Free(S)
<1>0. /\ NodeTypeOK /\ S \in SUBSET Requests /\ nodeLeases' = nodeLeases \ S
      /\ nodeReserved' = [c \in Cells |-> Less(nodeReserved[c], Total(Freed(S, c), Est))]
      /\ freed' = [q \in Requests |-> IF q \in S THEN freed[q] + 1 ELSE freed[q]]
  BY DEF NInv, NodeTypeOK, FreeHolds
<1>1. S \subseteq Ledger!Open
  BY OpenIsLeased
<1>2. ASSUME NEW q \in Requests PROVE HoldOf(q)' = IF q \in S THEN "freed" ELSE HoldOf(q)
  <2>1. booked[q] \in Nat /\ freed[q] \in Nat /\ OnceOf(q)
    BY <1>0 DEF NodeTypeOK, OInv
  <2>2. CASE q \in S
    <3>1. booked[q] = 0 /\ freed'[q] > 0 /\ q \notin nodeLeases'
      BY <1>0, <2>1, <2>2 DEF OnceOf
    <3> QED  BY <2>2, <3>1 DEF HoldOf
  <2>3. CASE q \notin S
    BY <1>0, <2>3 DEF HoldOf
  <2> QED  BY <2>2, <2>3
<1>3. [q \in Requests |-> HoldOf(q)]'
        = [q \in Requests |->
                IF q \in S THEN "freed" ELSE [p \in Requests |-> HoldOf(p)][q]]
  BY <1>2
<1>4. Ledger!GiveBack(S)
  <2>1. ASSUME NEW c \in Cells
        PROVE  Less(nodeReserved[c], Total(Freed(S, c), Est))
                    = nodeReserved[c] - Ledger!Amounts(S, c)
    <3>1. Ledger!Amounts(S, c) = Total(Freed(S, c), Est)
      BY LedgerTotals DEF Ledger!Amounts, Freed
    <3> QED  BY <3>1, LeasesCovered DEF Less
  <2> QED  BY <1>0, <2>1 DEF Ledger!GiveBack
<1> QED  BY <1>1, <1>3, <1>4 DEF Ledger!Free

(* settlePath books the spend and ends the hold, which is given back if it *)
(* is still open.                                                          *)
LEMMA LedgerSettles ==
    ASSUME NInv, OInv, NEW r \in Requests, NEW x \in Results, SettlePath(r, x),
           Committed(x)
    PROVE  nodeSpend[r] \in Actual[r] /\ Ledger!Settle(r, nodeSpend[r])
<1> DEFINE back == IF r \in nodeLeases THEN Est[r] ELSE 0
<1>0. /\ NodeTypeOK /\ NodeShapeOf(r) /\ OnceOf(r)
      /\ nodePc[r] = "settling" /\ freed' = freed
      /\ nodeLeases' = nodeLeases \ {r}
      /\ nodeUsed' = Plus(nodeUsed, Path[r], nodeSpend[r])
      /\ nodeReserved' = Minus(nodeReserved, Path[r], back)
      /\ booked' = [booked EXCEPT ![r] = @ + 1]
  BY DEF NInv, OInv, SettlePath, SettleEffect
<1>1. /\ nodeSpend[r] \in Actual[r] /\ booked[r] = 0 /\ freed[r] \in Nat
      /\ r \in nodeLeases \/ freed[r] > 0
  BY <1>0 DEF OnceOf, NodeShapeOf, NodeTypeOK
<1>2. HoldOf(r) \in {"open", "freed"}
  BY <1>1, HoldOfIs
<1>3. booked'[r] = 1 /\ \A q \in Requests \ {r} : booked'[q] = booked[q]
  BY <1>0, <1>1 DEF NodeTypeOK
<1>4. HoldOf(r)' = "settled"
  BY <1>3 DEF HoldOf
<1>5. ASSUME NEW q \in Requests, q # r PROVE HoldOf(q)' = HoldOf(q)
  BY <1>0, <1>3, <1>5 DEF HoldOf
<1>6. [q \in Requests |-> HoldOf(q)]'
        = [[q \in Requests |-> HoldOf(q)] EXCEPT ![r] = "settled"]
  BY <1>4, <1>5
<1>7. [q \in Requests |-> HoldOf(q)][r] \in {"open", "freed"}
  BY <1>2
<1>8. Ledger!GiveBack({r} \cap Ledger!Open)
  <2>1. {r} \cap Ledger!Open = {r} \cap nodeLeases
    BY OpenIsLeased
  <2>2. ASSUME NEW c \in Cells
        PROVE  Minus(nodeReserved, Path[r], back)[c]
                    = nodeReserved[c] - Ledger!Amounts({r} \cap nodeLeases, c)
    <3>1. Ledger!Amounts({r} \cap nodeLeases, c) = Total(Freed({r} \cap nodeLeases, c), Est)
      BY LedgerTotals DEF Ledger!Amounts, Freed
    <3>2. CASE r \in nodeLeases
      <4>1. {r} \cap nodeLeases = {r} /\ {r} \in SUBSET nodeLeases
        BY <3>2
      <4>2. /\ Total(Freed({r}, c), Est) = IF c \in Path[r] THEN Est[r] ELSE 0
            /\ Total(Freed({r}, c), Est) <= nodeReserved[c] /\ nodeReserved[c] \in Nat
            /\ Total(Freed({r}, c), Est) \in Nat
        BY <4>1, FreedOne, LeasesCovered
      <4>3. Ledger!Amounts({r} \cap nodeLeases, c) = IF c \in Path[r] THEN Est[r] ELSE 0
        BY <3>1, <4>1, <4>2
      <4>4. back = Est[r]
        BY <3>2
      <4> HIDE DEF back
      <4>5. CASE c \in Path[r]
        BY <4>2, <4>3, <4>4, <4>5 DEF Minus, Less
      <4>6. CASE c \notin Path[r]
        <5>1. nodeReserved[c] - 0 = nodeReserved[c]
          BY <4>2
        <5> QED  BY <4>3, <4>6, <5>1 DEF Minus
      <4> QED  BY <4>5, <4>6
    <3>3. CASE r \notin nodeLeases
      <4>1. Freed({r} \cap nodeLeases, c) = {} /\ nodeReserved[c] \in Nat
        BY <1>0, <3>3 DEF Freed, NodeTypeOK
      <4>2. Ledger!Amounts({r} \cap nodeLeases, c) = 0
        BY <3>1, <4>1, TotalEmpty
      <4> QED  BY <3>3, <4>1, <4>2 DEF Minus, Less
    <3> QED  BY <3>2, <3>3
  <2> HIDE DEF back
  <2>3. nodeReserved' = [c \in Cells |->
                            nodeReserved[c] - Ledger!Amounts({r} \cap nodeLeases, c)]
    BY <1>0, <2>2 DEF Minus
  <2> QED  BY <2>1, <2>3 DEF Ledger!GiveBack
<1>9. Ledger!Book(r, nodeSpend[r])
  BY <1>0 DEF Ledger!Book, Plus
<1> QED  BY <1>1, <1>6, <1>7, <1>8, <1>9 DEF Ledger!Settle

(* Every step of the hierarchical ledger is one of HoldLedger or none.     *)
LEMMA LedgerStep ==
    NInv /\ OInv /\ [NodeNext]_nodeVars => Ledger!Next \/ UNCHANGED Ledger!vars
<1> SUFFICES ASSUME NInv, OInv, [NodeNext]_nodeVars
             PROVE  Ledger!Next \/ UNCHANGED Ledger!vars
  OBVIOUS
<1>1. ASSUME NEW r \in Requests, NodeStep(r) PROVE Ledger!Next \/ UNCHANGED Ledger!vars
  <2>1. CASE NodeQuiet(r)
    <3>1. UNCHANGED <<nodeUsed, nodeReserved, nodeLeases, booked, freed>>
      BY <2>1 DEF NodeQuiet, ReserveRejected, NodeProviderFails, NodeFallbackBlocked,
         NodeCrash, NodeDeliver, ledger, lease, nodeHistory
    <3> QED  BY <3>1, LedgerStutters
  <2>2. ASSUME NEW x \in Results, ReservePath(r, x)
        PROVE  Ledger!Next \/ UNCHANGED Ledger!vars
    <3>1. CASE Committed(x)
      BY <2>2, <3>1, LedgerHolds DEF Ledger!Next
    <3>2. CASE ~Committed(x)
      <4>1. UNCHANGED <<nodeUsed, nodeReserved, nodeLeases, booked, freed>>
        BY <2>2, <3>2 DEF ReservePath, nodeHistory
      <4> QED  BY <4>1, LedgerStutters
    <3> QED  BY <3>1, <3>2
  <2>3. ASSUME NEW x \in Results, SettlePath(r, x)
        PROVE  Ledger!Next \/ UNCHANGED Ledger!vars
    <3>1. CASE Committed(x)
      BY <2>3, <3>1, LedgerSettles DEF Ledger!Next
    <3>2. CASE ~Committed(x)
      <4>1. UNCHANGED <<nodeUsed, nodeReserved, nodeLeases, booked, freed>>
        BY <2>3, <3>2 DEF SettlePath
      <4> QED  BY <4>1, LedgerStutters
    <3> QED  BY <3>1, <3>2
  <2>4. ASSUME NEW x \in Results, UnwindRelease(r, x)
        PROVE  Ledger!Next \/ UNCHANGED Ledger!vars
    <3>1. CASE Committed(x)
      <4>1. FreeHolds({r} \cap nodeLeases) /\ UNCHANGED <<booked, nodeUsed>>
        BY <2>4, <3>1 DEF UnwindRelease
      <4>2. /\ {r} \cap nodeLeases \in SUBSET nodeLeases
            /\ {r} \cap nodeLeases \in SUBSET Requests
        OBVIOUS
      <4>3. Ledger!Free({r} \cap nodeLeases)
        BY <4>1, <4>2, LedgerFrees
      <4> QED  BY <4>2, <4>3 DEF Ledger!Next
    <3>2. CASE ~Committed(x)
      <4>1. UNCHANGED <<nodeUsed, nodeReserved, nodeLeases, booked, freed>>
        BY <2>4, <3>2 DEF UnwindRelease
      <4> QED  BY <4>1, LedgerStutters
    <3> QED  BY <3>1, <3>2
  <2>5. ASSUME NEW x \in IncurResults(r), BookRejectedSafety(r, x) \/ UnwindIncur(r, x)
        PROVE  Ledger!Next \/ UNCHANGED Ledger!vars
    <3>1. CASE Incur(r)
      BY <2>5, <3>1, LedgerIncurs DEF Ledger!Next
    <3>2. CASE ~Incur(r)
      <4>1. UNCHANGED <<nodeUsed, nodeReserved, nodeLeases, booked, freed>>
        BY <2>5, <3>2 DEF BookRejectedSafety, UnwindIncur, lease
      <4> QED  BY <4>1, LedgerStutters
    <3> QED  BY <3>1, <3>2
  <2> QED  BY <1>1, <2>1, <2>2, <2>3, <2>4, <2>5 DEF NodeStep, NodeQuiet
<1>2. CASE \/ \E r \in Requests : NodeCrash(r) \/ NodeAge(r)
           \/ UNCHANGED nodeVars
  <2>1. UNCHANGED <<nodeUsed, nodeReserved, nodeLeases, booked, freed>>
    BY <1>2 DEF NodeCrash, NodeAge, nodeVars, ledger, lease, nodeHistory
  <2> QED  BY <2>1, LedgerStutters
<1>3. CASE CleanupStaleNodeLeases
  <2>1. FreeHolds(nodeLeases \cap nodeAged) /\ UNCHANGED <<booked, nodeUsed>>
    BY <1>3 DEF CleanupStaleNodeLeases
  <2>2. /\ nodeLeases \cap nodeAged \in SUBSET nodeLeases
        /\ nodeLeases \cap nodeAged \in SUBSET Requests
    BY DEF NInv, NodeTypeOK
  <2>3. Ledger!Free(nodeLeases \cap nodeAged)
    BY <2>1, <2>2, LedgerFrees
  <2> QED  BY <2>2, <2>3 DEF Ledger!Next
<1> QED  BY <1>1, <1>2, <1>3 DEF NodeNext

(* The hierarchical ledger implements HoldLedger: through leases, lost     *)
(* commits, repeated unwinding and the sweep, each step moves all rows of a *)
(* path together, a hold opens once and only where every row has room, it  *)
(* ends once, and a spend is booked once (budgets/repo.ts:247-470).        *)
THEOREM NodesAreALedger == NodeSpec => PathsHoldOnce
<1>1. NodeInit => Ledger!Init
  <2> SUFFICES ASSUME NodeInit PROVE Ledger!Init
    OBVIOUS
  <2>1. \A r \in Requests : HoldOf(r) = "none"
    BY DEF NodeInit, HoldOf
  <2> QED  BY <2>1 DEF NodeInit, Ledger!Init
<1>2. NInv /\ OInv /\ [NodeNext]_nodeVars => [Ledger!Next]_(Ledger!vars)
  BY LedgerStep
<1> QED  BY <1>1, <1>2, NodeOnce, PTL DEF NodeSpec, PathsHoldOnce, Ledger!Spec
=============================================================================
